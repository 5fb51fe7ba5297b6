--------------------------- MODULE RollbackManager ---------------------------
(***************************************************************************)
(* contrib/rollback-manager: the per-AP history of network states saved    *)
(* before every power or channel change, and the evaluations that restore  *)
(* one of them when the network score collapsed.  The client is the one of *)
(* examples/rollback-example.cc: save, apply the change, schedule an       *)
(* evaluation Period later.  Nothing serialises two changes of one AP, so  *)
(* several evaluations of an AP may be scheduled at once.                  *)
(***************************************************************************)
EXTENDS Integers, Sequences, FiniteSets

CONSTANTS AP,                \* access points (nodeId)
          Setting,           \* values of the restored levers (power, channel)
          Score,             \* network scores a client may report
          Threshold,         \* m_config.rollbackThresholdPercent
          MinAbsoluteScore,  \* m_config.minAbsoluteScore; 0 disables it
          Cooldown,          \* m_config.rollbackCooldownSec
          Grace,             \* m_config.startupGracePeriodSec
          Period,            \* m_config.evaluationPeriodSec, kept by the client
          Depths,            \* values SetConfig gives m_config.maxHistoryDepth
          InitialSetting,    \* the setting every AP starts with
          NoTime,            \* "no entry in the map", "start time not recorded"
          MaxTime,           \* bound on the simulated clock
          MaxSaves           \* bound on the number of saved states

ASSUME RollbackAssumption ==
  /\ Score \subseteq Int
  /\ Threshold \in 0..100
  /\ MinAbsoluteScore \in Int
  /\ Cooldown \in Nat /\ Grace \in Nat /\ Period \in Nat
  /\ Depths \subseteq Nat
  /\ InitialSetting \in Setting
  /\ NoTime \notin Nat

VARIABLES now,               \* Simulator::Now()
          maxHistoryDepth,   \* m_config.maxHistoryDepth
          callback,          \* whether m_rollbackCallback is set
          stateHistory,      \* m_stateHistory: newest first
          lastRollbackTime,  \* m_lastRollbackTime
          startTime,         \* m_simulationStartTime, or NoTime
          stats,             \* m_stats
          setting,           \* client: what each AP transmits with now
          evaluations,       \* client: scheduled RunEvaluation events
          saves,             \* number of states saved so far (identifies them)
          restored           \* history: restorations since an AP's cooldown was cleared

managerVars == <<maxHistoryDepth, callback, stateHistory, lastRollbackTime,
                 startTime, stats>>
vars == <<now, managerVars, setting, evaluations, saves, restored>>

Time == Nat \cup {NoTime}
NetworkState == [id : Nat, at : Nat, score : Score, setting : Setting]
Counters == {"totalEvaluations", "rollbacksTriggered", "rollbacksBlocked"}
Evaluation == [ap : AP, due : Nat, change : Nat]
Restoration == [ap : AP, id : Nat, at : Nat]

TypeOK ==
  /\ now \in Nat
  /\ maxHistoryDepth \in Depths
  /\ callback \in BOOLEAN
  /\ stateHistory \in [AP -> Seq(NetworkState)]
  /\ lastRollbackTime \in [AP -> Time]
  /\ startTime \in Time
  /\ stats \in [Counters -> Nat]
  /\ setting \in [AP -> Setting]
  /\ evaluations \in SUBSET Evaluation
  /\ saves \in Nat
  /\ restored \in SUBSET Restoration

NoStats == [c \in Counters |-> 0]

Init ==
  /\ now = 0
  /\ maxHistoryDepth \in Depths
  /\ callback = FALSE
  /\ stateHistory = [a \in AP |-> <<>>]
  /\ lastRollbackTime = [a \in AP |-> NoTime]
  /\ startTime = NoTime
  /\ stats = NoStats
  /\ setting = [a \in AP |-> InitialSetting]
  /\ evaluations = {}
  /\ saves = 0
  /\ restored = {}

----------------------------------------------------------------------------
(* Queries and helpers. *)

HasSavedState(a) == stateHistory[a] # <<>>

\* The start time once RecordStartTime has run.
RecordedStart == IF startTime = NoTime THEN now ELSE startTime

RecordStartTime == startTime' = RecordedStart

IsInGracePeriod == now - RecordedStart < Grace

IsInCooldown(a) ==
  lastRollbackTime[a] # NoTime /\ now - lastRollbackTime[a] < Cooldown

\* Mutant: resize() by one instead of to the depth.
TrimOne(h, n) == IF Len(h) > n THEN SubSeq(h, 1, Len(h) - 1) ELSE h

Trim(h, n) == IF Len(h) > n THEN SubSeq(h, 1, n) ELSE h

\* scoreDropPercent > 100 - threshold, without the division.
ScoreDropTrigger(old, cur) ==
  IF old > 0
  THEN (old - cur) * 100 > (100 - Threshold) * old
  ELSE cur < MinAbsoluteScore /\ Threshold > 0

AbsoluteTrigger(cur) == MinAbsoluteScore > 0 /\ cur < MinAbsoluteScore

RollbackNeeded(a, cur) ==
  ScoreDropTrigger(Head(stateHistory[a]).score, cur) \/ AbsoluteTrigger(cur)

----------------------------------------------------------------------------
(* The client's change of a lever: SaveState, the change, and the timer.   *)

\* Mutant: the state is appended at the back, where erase and front do not look.
SaveStateAtBack(a, score) ==
  /\ RecordStartTime
  /\ LET state == [id |-> saves + 1, at |-> now, score |-> score, setting |-> setting[a]]
     IN  stateHistory' = [stateHistory EXCEPT ![a] = Trim(Append(@, state), maxHistoryDepth)]
  /\ saves' = saves + 1
  /\ UNCHANGED <<maxHistoryDepth, callback, lastRollbackTime, stats>>

\* Mutant: the caller's state is stored without its timestamp.
SaveStateUnstamped(a, score) ==
  /\ RecordStartTime
  /\ LET state == [id |-> saves + 1, at |-> NoTime, score |-> score, setting |-> setting[a]]
     IN  stateHistory' = [stateHistory EXCEPT ![a] = Trim(<<state>> \o @, maxHistoryDepth)]
  /\ saves' = saves + 1
  /\ UNCHANGED <<maxHistoryDepth, callback, lastRollbackTime, stats>>

SaveState(a, score) ==
  /\ RecordStartTime
  /\ LET state == [id |-> saves + 1, at |-> now, score |-> score, setting |-> setting[a]]
     IN  stateHistory' = [stateHistory EXCEPT ![a] = Trim(<<state>> \o @, maxHistoryDepth)]
  /\ saves' = saves + 1
  /\ UNCHANGED <<maxHistoryDepth, callback, lastRollbackTime, stats>>

ChangeSetting(a, score, new) ==
  /\ saves < MaxSaves
  /\ SaveState(a, score)
  /\ setting' = [setting EXCEPT ![a] = new]
  /\ evaluations' = evaluations \cup {[ap |-> a, due |-> now + Period, change |-> saves + 1]}
  /\ UNCHANGED <<now, restored>>

----------------------------------------------------------------------------
(* EvaluateAndRollback: one disjunct per way out of the function.          *)

CountIn(C) == stats' = [c \in Counters |-> IF c \in C THEN stats[c] + 1 ELSE stats[c]]

\* Mutant: the restored state stays in the history.
RestoreKeeping(a) ==
  LET state == Head(stateHistory[a]) IN
  /\ setting' = [setting EXCEPT ![a] = state.setting]
  /\ lastRollbackTime' = [lastRollbackTime EXCEPT ![a] = now]
  /\ restored' = restored \cup {[ap |-> a, id |-> state.id, at |-> now]}
  /\ UNCHANGED stateHistory

\* Mutant: the rollback time is not recorded, so no cooldown ever runs.
RestoreUntimed(a) ==
  LET state == Head(stateHistory[a]) IN
  /\ setting' = [setting EXCEPT ![a] = state.setting]
  /\ stateHistory' = [stateHistory EXCEPT ![a] = Tail(@)]
  /\ restored' = restored \cup {[ap |-> a, id |-> state.id, at |-> now]}
  /\ UNCHANGED lastRollbackTime

\* Mutant: the oldest entry is erased instead of the one restored.
RestoreErasingOldest(a) ==
  LET state == Head(stateHistory[a]) IN
  /\ setting' = [setting EXCEPT ![a] = state.setting]
  /\ stateHistory' = [stateHistory EXCEPT ![a] = SubSeq(@, 1, Len(@) - 1)]
  /\ lastRollbackTime' = [lastRollbackTime EXCEPT ![a] = now]
  /\ restored' = restored \cup {[ap |-> a, id |-> state.id, at |-> now]}

\* The callback applies the newest saved state and the manager forgets it.
Restore(a) ==
  LET state == Head(stateHistory[a]) IN
  /\ setting' = [setting EXCEPT ![a] = state.setting]
  /\ stateHistory' = [stateHistory EXCEPT ![a] = Tail(@)]
  /\ lastRollbackTime' = [lastRollbackTime EXCEPT ![a] = now]
  /\ restored' = restored \cup {[ap |-> a, id |-> state.id, at |-> now]}

NothingRestored == UNCHANGED <<setting, stateHistory, lastRollbackTime, restored>>

EvaluationSkipped(a) ==
  /\ IsInGracePeriod \/ ~HasSavedState(a)
  /\ CountIn({"totalEvaluations"})
  /\ NothingRestored

EvaluationBlocked(a) ==
  /\ ~IsInGracePeriod /\ HasSavedState(a) /\ IsInCooldown(a)
  /\ CountIn({"totalEvaluations", "rollbacksBlocked"})
  /\ NothingRestored

Evaluable(a) == ~IsInGracePeriod /\ HasSavedState(a) /\ ~IsInCooldown(a)

ScoreAcceptable(a, cur) ==
  /\ Evaluable(a) /\ ~RollbackNeeded(a, cur)
  /\ CountIn({"totalEvaluations"})
  /\ NothingRestored

RollbackSucceeds(a, cur) ==
  /\ Evaluable(a) /\ RollbackNeeded(a, cur) /\ callback
  /\ CountIn({"totalEvaluations", "rollbacksTriggered"})
  /\ Restore(a)

\* No callback is registered, or it returned false: the state is kept.
RollbackFails(a, cur) ==
  /\ Evaluable(a) /\ RollbackNeeded(a, cur)
  /\ CountIn({"totalEvaluations"})
  /\ NothingRestored

EvaluateAndRollback(a, cur) ==
  /\ RecordStartTime
  /\ \/ EvaluationSkipped(a)
     \/ EvaluationBlocked(a)
     \/ ScoreAcceptable(a, cur)
     \/ RollbackSucceeds(a, cur)
     \/ RollbackFails(a, cur)
  /\ UNCHANGED <<maxHistoryDepth, callback, saves>>

RunEvaluation(e, cur) ==
  /\ e \in evaluations /\ e.due = now
  /\ EvaluateAndRollback(e.ap, cur)
  /\ evaluations' = evaluations \ {e}
  /\ UNCHANGED now

----------------------------------------------------------------------------
(* The other entry points. *)

\* Neither the cooldown nor the grace period is consulted.  Without a callback, a
\* saved state, or when the callback returns false, nothing changes.
ForceRollback(a) ==
  /\ HasSavedState(a) /\ callback
  /\ Restore(a)
  /\ CountIn({"rollbacksTriggered"})
  /\ UNCHANGED <<now, maxHistoryDepth, callback, startTime, evaluations, saves>>

\* A smaller depth trims a history only when that AP is saved again.
SetConfig(depth) ==
  /\ maxHistoryDepth' = depth
  /\ UNCHANGED <<now, callback, stateHistory, lastRollbackTime, startTime, stats,
                 setting, evaluations, saves, restored>>

SetRollbackCallback ==
  /\ ~callback
  /\ callback' = TRUE
  /\ UNCHANGED <<now, maxHistoryDepth, stateHistory, lastRollbackTime, startTime, stats,
                 setting, evaluations, saves, restored>>

ResetStats ==
  /\ stats' = NoStats
  /\ UNCHANGED <<now, maxHistoryDepth, callback, stateHistory, lastRollbackTime, startTime,
                 setting, evaluations, saves, restored>>

Reset ==
  /\ stateHistory' = [a \in AP |-> <<>>]
  /\ lastRollbackTime' = [a \in AP |-> NoTime]
  /\ stats' = NoStats
  /\ startTime' = NoTime
  /\ restored' = {}
  /\ UNCHANGED <<now, maxHistoryDepth, callback, setting, evaluations, saves>>

ClearStateForAp(a) ==
  /\ stateHistory' = [stateHistory EXCEPT ![a] = <<>>]
  /\ lastRollbackTime' = [lastRollbackTime EXCEPT ![a] = NoTime]
  /\ restored' = {r \in restored : r.ap # a}
  /\ UNCHANGED <<now, maxHistoryDepth, callback, startTime, stats,
                 setting, evaluations, saves>>

\* The clock moves only past instants whose events have all run.
Tick ==
  /\ now < MaxTime
  /\ \A e \in evaluations : e.due > now
  /\ now' = now + 1
  /\ UNCHANGED <<managerVars, setting, evaluations, saves, restored>>

Next ==
  \/ \E a \in AP, score \in Score, new \in Setting : ChangeSetting(a, score, new)
  \/ \E e \in evaluations, cur \in Score : RunEvaluation(e, cur)
  \/ \E a \in AP : ForceRollback(a) \/ ClearStateForAp(a)
  \/ \E depth \in Depths : SetConfig(depth)
  \/ SetRollbackCallback \/ ResetStats \/ Reset
  \/ Tick

Spec == Init /\ [][Next]_vars

----------------------------------------------------------------------------
(* Properties. *)

\* The history of every AP lists distinct saves, newest first, none from the
\* future and none saved under another AP: what front(), insert(begin()) and
\* erase(begin()) rely on.
HistoryNewestFirst ==
  \A a \in AP : \A i \in 1..Len(stateHistory[a]) :
    /\ stateHistory[a][i].id <= saves /\ stateHistory[a][i].at <= now
    /\ \A j \in 1..Len(stateHistory[a]) :
         i < j => /\ stateHistory[a][i].id > stateHistory[a][j].id
                  /\ stateHistory[a][i].at >= stateHistory[a][j].at
    /\ \A b \in AP : \A j \in 1..Len(stateHistory[b]) :
         stateHistory[a][i].id = stateHistory[b][j].id => a = b

\* A state the manager has restored is no longer in any history: whatever the
\* order of saves, evaluations and forced rollbacks, no state is restored twice.
NeverRestoredTwice ==
  \A r \in restored : \A a \in AP : \A i \in 1..Len(stateHistory[a]) :
    stateHistory[a][i].id # r.id

\* An evaluation restores a state only when the AP's last rollback, evaluated or
\* forced, is at least the cooldown ago; only Reset and ClearStateForAp forget it.
EvaluatedRollbacksAreSpaced ==
  [][\A new \in restored' \ restored : \A old \in restored :
       evaluations' # evaluations /\ old.ap = new.ap => new.at - old.at >= Cooldown]_vars

\* After a save the AP keeps at most maxHistoryDepth states, also when SetConfig
\* made the depth smaller since the previous save.
SaveBoundsHistory ==
  [][\A a \in AP : saves' # saves /\ stateHistory'[a] # stateHistory[a]
       => Len(stateHistory'[a]) <= maxHistoryDepth]_vars

\* The manager is an undo stack: every save pushes, every successful rollback pops
\* the newest save, and nothing else touches a history except to forget it whole.
Undo == INSTANCE UndoStack WITH
  stack  <- [a \in AP |-> [i \in 1..Len(stateHistory[a]) |-> stateHistory[a][i].id]],
  issued <- saves

ImplementsUndoStack == Undo!UndoSpec
=============================================================================
