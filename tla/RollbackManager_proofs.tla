----------------------- MODULE RollbackManager_proofs -----------------------
(***************************************************************************)
(* Proofs about RollbackManager, for any APs, settings, scores, periods    *)
(* and bounds.  TypeCorrect comes first; HistoryInv strengthens the two    *)
(* safety invariants until they are inductive; RollbackTimeInv ties the    *)
(* cooldown to the restorations it spaces.                                 *)
(***************************************************************************)
EXTENDS RollbackManager, SequenceTheorems, TLAPS

\* t is s in front of h, with h in its order, cut at n.
CutCons(t, s, h, n) ==
  /\ Len(t) = IF Len(h) + 1 > n THEN n ELSE Len(h) + 1
  /\ \A i \in 1..Len(t) : t[i] = IF i = 1 THEN s ELSE h[i - 1]

\* What SaveState leaves in a history: the new state in front, the old ones behind
\* it in their order, cut at the configured depth.
LEMMA SavedHistory ==
  ASSUME NEW S, NEW s \in S, NEW h \in Seq(S), NEW n \in Nat
  PROVE  /\ Trim(<<s>> \o h, n) \in Seq(S)
         /\ CutCons(Trim(<<s>> \o h, n), s, h, n)
<1> DEFINE c == <<s>> \o h
           t == Trim(c, n)
<1>1. /\ <<s>> \in Seq(S) /\ Len(<<s>>) = 1 /\ <<s>>[1] = s
      /\ Len(h) \in Nat
  BY LenProperties
<1>2. /\ c \in Seq(S)
      /\ Len(c) = Len(h) + 1
      /\ \A i \in 1..Len(h) + 1 : c[i] = IF i = 1 THEN s ELSE h[i - 1]
  <2>1. /\ c \in Seq(S)
        /\ Len(c) = 1 + Len(h)
        /\ \A i \in 1..1 + Len(h) : c[i] = IF i <= 1 THEN <<s>>[i] ELSE h[i - 1]
    BY <1>1, ConcatProperties
  <2>. QED
    BY <1>1, <2>1
<1>3. t = IF Len(c) > n THEN SubSeq(c, 1, n) ELSE c
  BY DEF Trim
<1> HIDE DEF c, t
<1> DEFINE Result == /\ t \in Seq(S)
                     /\ Len(t) = IF Len(h) + 1 > n THEN n ELSE Len(h) + 1
                     /\ \A i \in 1..Len(t) : t[i] = IF i = 1 THEN s ELSE h[i - 1]
<1>4. ASSUME Len(c) > n PROVE Result
  <2>1. \A i \in 1..n : c[i] \in S
    BY <1>1, <1>2, <1>4, ElementOfSeq
  <2>2. /\ SubSeq(c, 1, n) \in Seq(S)
        /\ Len(SubSeq(c, 1, n)) = IF 1 <= n THEN n - 1 + 1 ELSE 0
        /\ \A i \in 1..n - 1 + 1 : SubSeq(c, 1, n)[i] = c[1 + i - 1]
    BY <2>1, SubSeqProperties
  <2>3. t \in Seq(S) /\ Len(t) = n /\ \A i \in 1..n : t[i] = c[i]
    BY <1>3, <1>4, <2>2
  <2>4. Len(h) + 1 > n
    BY <1>2, <1>4
  <2>5. \A i \in 1..n : t[i] = IF i = 1 THEN s ELSE h[i - 1]
    <3>1. \A i \in 1..n : i \in 1..Len(h) + 1
      BY <1>1, <2>4
    <3>. QED
      BY <1>2, <2>3, <3>1
  <2>. QED
    BY <2>3, <2>4, <2>5
<1>5. ASSUME ~(Len(c) > n) PROVE Result
  BY <1>1, <1>2, <1>3, <1>5
<1>6. t \in Seq(S)
  BY <1>4, <1>5
<1>7. /\ Len(t) = IF Len(h) + 1 > n THEN n ELSE Len(h) + 1
      /\ \A i \in 1..Len(t) : t[i] = IF i = 1 THEN s ELSE h[i - 1]
  BY <1>4, <1>5
<1>. QED
  BY <1>6, <1>7 DEF CutCons, c, t

\* What a successful rollback leaves: all but the newest saved state.
LEMMA ErasedHistory ==
  ASSUME NEW S, NEW h \in Seq(S), h # <<>>
  PROVE  /\ Head(h) \in S /\ Head(h) = h[1]
         /\ Tail(h) \in Seq(S)
         /\ Len(h) \in Nat \ {0}
         /\ Len(Tail(h)) = Len(h) - 1
         /\ \A i \in 1..Len(Tail(h)) : Tail(h)[i] = h[i + 1]
  BY HeadTailProperties, EmptySeq, LenProperties

----------------------------------------------------------------------------

\* The state SaveState builds from the AP's present setting.
SavedState(a, score) ==
  [id |-> saves + 1, at |-> now, score |-> score, setting |-> setting[a]]

\* What SaveState puts in a history keeps its type.
LEMMA SaveStateTypes ==
  ASSUME TypeOK, NEW a \in AP, NEW score \in Score, SaveState(a, score)
  PROVE  /\ SavedState(a, score) \in NetworkState
         /\ stateHistory' \in [AP -> Seq(NetworkState)]
         /\ stateHistory' = [stateHistory EXCEPT ![a] =
                               Trim(<<SavedState(a, score)>> \o stateHistory[a], maxHistoryDepth)]
         /\ startTime' \in Time
         /\ saves' = saves + 1
<1>1. SavedState(a, score) \in NetworkState
  BY DEF TypeOK, SavedState, NetworkState
<1>2. stateHistory[a] \in Seq(NetworkState) /\ maxHistoryDepth \in Nat
  BY RollbackAssumption DEF TypeOK
<1>3. Trim(<<SavedState(a, score)>> \o stateHistory[a], maxHistoryDepth) \in Seq(NetworkState)
  BY <1>1, <1>2, SavedHistory
<1>4. stateHistory' = [stateHistory EXCEPT ![a] =
                         Trim(<<SavedState(a, score)>> \o stateHistory[a], maxHistoryDepth)]
  BY DEF SaveState, SavedState
<1>5. startTime' \in Time /\ saves' = saves + 1
  BY DEF TypeOK, SaveState, RecordStartTime, RecordedStart, Time
<1>. QED
  BY <1>1, <1>3, <1>4, <1>5 DEF TypeOK

\* What Restore leaves in a history keeps its type.
LEMMA RestoreTypes ==
  ASSUME TypeOK, NEW a \in AP, HasSavedState(a), Restore(a)
  PROVE  /\ setting' \in [AP -> Setting]
         /\ stateHistory' \in [AP -> Seq(NetworkState)]
         /\ lastRollbackTime' \in [AP -> Time]
         /\ restored' \in SUBSET Restoration
<1>1. Head(stateHistory[a]) \in NetworkState /\ Tail(stateHistory[a]) \in Seq(NetworkState)
  <2>1. stateHistory[a] \in Seq(NetworkState) /\ stateHistory[a] # <<>>
    BY DEF TypeOK, HasSavedState
  <2>. QED
    BY <2>1, ErasedHistory
<1>2. setting' \in [AP -> Setting]
  BY <1>1 DEF TypeOK, Restore, NetworkState
<1>3. stateHistory' \in [AP -> Seq(NetworkState)]
  BY <1>1 DEF TypeOK, Restore
<1>4. lastRollbackTime' \in [AP -> Time]
  BY DEF TypeOK, Restore, Time
<1>5. restored' \in SUBSET Restoration
  BY <1>1 DEF TypeOK, Restore, Restoration, NetworkState
<1>. QED
  BY <1>2, <1>3, <1>4, <1>5

\* EvaluateAndRollback preserves the types: four ways out change only the counters,
\* the fifth restores.
LEMMA EvaluateTypes ==
  ASSUME TypeOK, NEW a \in AP, NEW cur \in Score, EvaluateAndRollback(a, cur)
  PROVE  /\ startTime' \in Time
         /\ stats' \in [Counters -> Nat]
         /\ setting' \in [AP -> Setting]
         /\ stateHistory' \in [AP -> Seq(NetworkState)]
         /\ lastRollbackTime' \in [AP -> Time]
         /\ restored' \in SUBSET Restoration
<1>1. startTime' \in Time
  BY DEF TypeOK, EvaluateAndRollback, RecordStartTime, RecordedStart, Time
<1>2. stats' \in [Counters -> Nat]
  <2>1. ASSUME NEW C, CountIn(C) PROVE stats' \in [Counters -> Nat]
    BY <2>1 DEF TypeOK, CountIn
  <2>. QED
    BY <2>1 DEF EvaluateAndRollback, EvaluationSkipped, EvaluationBlocked, ScoreAcceptable,
                RollbackSucceeds, RollbackFails
<1>3. CASE NothingRestored
  BY <1>1, <1>2, <1>3 DEF TypeOK, NothingRestored
<1>4. CASE HasSavedState(a) /\ Restore(a)
  BY <1>1, <1>2, <1>4, RestoreTypes
<1>5. NothingRestored \/ (HasSavedState(a) /\ Restore(a))
  BY DEF EvaluateAndRollback, EvaluationSkipped, EvaluationBlocked, ScoreAcceptable,
         RollbackSucceeds, RollbackFails, Evaluable
<1>. QED
  BY <1>3, <1>4, <1>5

\* Every variable keeps its type, for every value of the constants.
THEOREM TypeCorrect == Spec => []TypeOK
<1>1. Init => TypeOK
  <2> SUFFICES ASSUME Init PROVE TypeOK
    OBVIOUS
  <2>1. stateHistory \in [AP -> Seq(NetworkState)]
    BY EmptySeq DEF Init
  <2>2. /\ now \in Nat /\ maxHistoryDepth \in Depths /\ callback \in BOOLEAN
        /\ lastRollbackTime \in [AP -> Time] /\ startTime \in Time
        /\ saves \in Nat
    BY DEF Init, Time
  <2>3. /\ stats \in [Counters -> Nat] /\ setting \in [AP -> Setting]
        /\ evaluations \in SUBSET Evaluation /\ restored \in SUBSET Restoration
    BY RollbackAssumption DEF Init, NoStats
  <2>. QED
    BY <2>1, <2>2, <2>3 DEF TypeOK
<1>2. TypeOK /\ [Next]_vars => TypeOK'
  <2> SUFFICES ASSUME TypeOK, [Next]_vars PROVE TypeOK'
    OBVIOUS
  <2>1. ASSUME NEW a \in AP, NEW score \in Score, NEW new \in Setting,
               ChangeSetting(a, score, new)
        PROVE  TypeOK'
    <3>1. /\ stateHistory' \in [AP -> Seq(NetworkState)]
          /\ startTime' \in Time
          /\ saves' = saves + 1
      BY <2>1, SaveStateTypes DEF ChangeSetting
    <3>2. setting' \in [AP -> Setting]
      BY <2>1 DEF ChangeSetting, TypeOK
    <3>3. evaluations' \in SUBSET Evaluation
      BY <2>1, RollbackAssumption DEF ChangeSetting, TypeOK, Evaluation
    <3>. QED
      BY <2>1, <3>1, <3>2, <3>3 DEF TypeOK, ChangeSetting, SaveState
  <2>2. ASSUME NEW e \in evaluations, NEW cur \in Score, RunEvaluation(e, cur)
        PROVE  TypeOK'
    <3>1. e.ap \in AP
      BY DEF TypeOK, Evaluation
    <3>2. /\ startTime' \in Time
          /\ stats' \in [Counters -> Nat]
          /\ setting' \in [AP -> Setting]
          /\ stateHistory' \in [AP -> Seq(NetworkState)]
          /\ lastRollbackTime' \in [AP -> Time]
          /\ restored' \in SUBSET Restoration
      BY <2>2, <3>1, EvaluateTypes DEF RunEvaluation
    <3>. QED
      BY <2>2, <3>2 DEF TypeOK, RunEvaluation, EvaluateAndRollback
  <2>3. ASSUME NEW a \in AP, ForceRollback(a)
        PROVE  TypeOK'
    <3>1. stats' \in [Counters -> Nat]
      BY <2>3 DEF ForceRollback, CountIn, TypeOK
    <3>2. HasSavedState(a) /\ Restore(a)
      BY <2>3 DEF ForceRollback
    <3>. QED
      BY <2>3, <3>1, <3>2, RestoreTypes DEF TypeOK, ForceRollback
  <2>4. ASSUME NEW a \in AP, ClearStateForAp(a)
        PROVE  TypeOK'
    <3>1. stateHistory' \in [AP -> Seq(NetworkState)]
      BY <2>4, EmptySeq DEF ClearStateForAp, TypeOK
    <3>. QED
      BY <2>4, <3>1 DEF ClearStateForAp, TypeOK, Time
  <2>5. ASSUME NEW depth \in Depths, SetConfig(depth)
        PROVE  TypeOK'
    BY <2>5 DEF SetConfig, TypeOK
  <2>6. CASE SetRollbackCallback
    BY <2>6 DEF SetRollbackCallback, TypeOK
  <2>10. CASE ResetStats
    <3>1. stats' \in [Counters -> Nat]
      BY <2>10 DEF ResetStats, NoStats
    <3>. QED
      BY <2>10, <3>1 DEF ResetStats, TypeOK
  <2>7. CASE Reset
    <3>1. stateHistory' \in [AP -> Seq(NetworkState)]
      BY <2>7, EmptySeq DEF Reset
    <3>. QED
      BY <2>7, <3>1 DEF Reset, TypeOK, NoStats, Time
  <2>8. CASE Tick
    BY <2>8 DEF Tick, managerVars, TypeOK
  <2>9. CASE UNCHANGED vars
    BY <2>9 DEF vars, managerVars, TypeOK
  <2>. QED
    BY <2>1, <2>2, <2>3, <2>4, <2>5, <2>6, <2>7, <2>8, <2>9, <2>10 DEF Next
<1>. QED
  BY <1>1, <1>2, PTL DEF Spec

----------------------------------------------------------------------------
(* The histories. *)

\* What was restored was saved: with it the two invariants are inductive.
RestoredWasSaved == \A r \in restored : r.id <= saves

HistoryInv == HistoryNewestFirst /\ NeverRestoredTwice /\ RestoredWasSaved

\* What the types say of one history, element by element.
LEMMA HistoryTypes ==
  ASSUME TypeOK, NEW a \in AP
  PROVE  /\ stateHistory[a] \in Seq(NetworkState)
         /\ Len(stateHistory[a]) \in Nat
         /\ \A i \in 1..Len(stateHistory[a]) :
              stateHistory[a][i].id \in Nat /\ stateHistory[a][i].at \in Nat
<1>1. stateHistory[a] \in Seq(NetworkState)
  BY DEF TypeOK
<1>2. \A i \in 1..Len(stateHistory[a]) : stateHistory[a][i] \in NetworkState
  BY <1>1, ElementOfSeq
<1>. QED
  BY <1>1, <1>2, LenProperties DEF NetworkState

\* A step that saves nothing and leaves every AP a run of consecutive states of its
\* old history keeps the histories in order.
LEMMA ShrunkHistories ==
  ASSUME TypeOK, TypeOK', HistoryInv,
         now' >= now, saves' = saves,
         NEW shift \in [AP -> Nat],
         \A a \in AP : /\ Len(stateHistory'[a]) + shift[a] <= Len(stateHistory[a])
                       /\ \A i \in 1..Len(stateHistory'[a]) :
                            stateHistory'[a][i] = stateHistory[a][i + shift[a]],
         \A r \in restored' : r \in restored
           \/ /\ r.id <= saves
              /\ \A a \in AP : \A i \in 1..Len(stateHistory'[a]) : stateHistory'[a][i].id # r.id
  PROVE  HistoryInv'
<1>1. \A a \in AP : Len(stateHistory[a]) \in Nat /\ Len(stateHistory'[a]) \in Nat
  BY LenProperties DEF TypeOK
<1>2. \A a \in AP : \A i \in 1..Len(stateHistory'[a]) :
        i + shift[a] \in 1..Len(stateHistory[a])
  BY <1>1
<1>3. \A a \in AP : \A i \in 1..Len(stateHistory[a]) :
        stateHistory[a][i].id \in Nat /\ stateHistory[a][i].at \in Nat
  BY HistoryTypes
<1>4. HistoryNewestFirst'
  <2> SUFFICES ASSUME NEW a \in AP, NEW i \in 1..Len(stateHistory'[a])
               PROVE  /\ stateHistory'[a][i].id <= saves' /\ stateHistory'[a][i].at <= now'
                      /\ \A j \in 1..Len(stateHistory'[a]) :
                           i < j => /\ stateHistory'[a][i].id > stateHistory'[a][j].id
                                    /\ stateHistory'[a][i].at >= stateHistory'[a][j].at
                      /\ \A b \in AP : \A j \in 1..Len(stateHistory'[b]) :
                           stateHistory'[a][i].id = stateHistory'[b][j].id => a = b
    BY DEF HistoryNewestFirst
  <2> DEFINE p == i + shift[a]
  <2>0. p \in 1..Len(stateHistory[a]) /\ stateHistory'[a][i] = stateHistory[a][p]
    BY <1>2
  <2> HIDE DEF p
  <2>1. stateHistory'[a][i].id <= saves' /\ stateHistory'[a][i].at <= now'
    <3>1. stateHistory[a][p].id <= saves /\ stateHistory[a][p].at <= now
      BY <2>0 DEF HistoryInv, HistoryNewestFirst
    <3>2. now \in Nat /\ now' \in Nat /\ stateHistory[a][p].at \in Nat
      BY <1>3, <2>0 DEF TypeOK
    <3>. QED
      BY <2>0, <3>1, <3>2
  <2>2. ASSUME NEW j \in 1..Len(stateHistory'[a]), i < j
        PROVE  /\ stateHistory'[a][i].id > stateHistory'[a][j].id
               /\ stateHistory'[a][i].at >= stateHistory'[a][j].at
    <3> DEFINE q == j + shift[a]
    <3>1. q \in 1..Len(stateHistory[a]) /\ stateHistory'[a][j] = stateHistory[a][q]
      BY <1>2, <2>2
    <3>2. p < q
      BY <1>1, <2>2 DEF p
    <3> HIDE DEF q
    <3>. QED
      BY <2>0, <3>1, <3>2 DEF HistoryInv, HistoryNewestFirst
  <2>3. ASSUME NEW b \in AP, NEW j \in 1..Len(stateHistory'[b]),
               stateHistory'[a][i].id = stateHistory'[b][j].id
        PROVE  a = b
    <3> DEFINE q == j + shift[b]
    <3>1. q \in 1..Len(stateHistory[b]) /\ stateHistory'[b][j] = stateHistory[b][q]
      BY <1>2, <2>3
    <3> HIDE DEF q
    <3>. QED
      BY <2>0, <2>3, <3>1 DEF HistoryInv, HistoryNewestFirst
  <2>. QED
    BY <2>1, <2>2, <2>3
<1>5. NeverRestoredTwice'
  <2> SUFFICES ASSUME NEW r \in restored', NEW a \in AP, NEW i \in 1..Len(stateHistory'[a])
               PROVE  stateHistory'[a][i].id # r.id
    BY DEF NeverRestoredTwice
  <2>1. CASE r \in restored
    <3> DEFINE p == i + shift[a]
    <3>1. p \in 1..Len(stateHistory[a]) /\ stateHistory'[a][i] = stateHistory[a][p]
      BY <1>2
    <3> HIDE DEF p
    <3>. QED
      BY <2>1, <3>1 DEF HistoryInv, NeverRestoredTwice
  <2>2. CASE r \notin restored
    BY <2>2
  <2>. QED
    BY <2>1, <2>2
<1>6. RestoredWasSaved'
  BY DEF HistoryInv, RestoredWasSaved
<1>. QED
  BY <1>4, <1>5, <1>6 DEF HistoryInv

\* A save puts a new identifier in front of the AP's own history.
LEMMA SavedHistories ==
  ASSUME TypeOK, TypeOK', HistoryInv,
         NEW a \in AP, NEW score \in Score, SaveState(a, score),
         now' = now, restored' = restored
  PROVE  HistoryInv'
<1> DEFINE h == stateHistory[a]
           t == stateHistory'[a]
<1>1. /\ t = Trim(<<SavedState(a, score)>> \o h, maxHistoryDepth)
      /\ saves' = saves + 1
      /\ SavedState(a, score) \in NetworkState
      /\ \A b \in AP : b # a => stateHistory'[b] = stateHistory[b]
  BY SaveStateTypes DEF TypeOK
<1>2. /\ h \in Seq(NetworkState) /\ maxHistoryDepth \in Nat
      /\ saves \in Nat /\ now \in Nat
  BY RollbackAssumption DEF TypeOK
<1>3. /\ \A b \in AP : Len(stateHistory[b]) \in Nat
      /\ \A b \in AP : \A i \in 1..Len(stateHistory[b]) :
           stateHistory[b][i].id \in Nat /\ stateHistory[b][i].at \in Nat
  BY HistoryTypes
<1>4. /\ Len(t) \in Nat /\ Len(t) <= Len(h) + 1
      /\ \A i \in 1..Len(t) : t[i] = IF i = 1 THEN SavedState(a, score) ELSE h[i - 1]
  <2> DEFINE s == SavedState(a, score)
  <2>0. s \in NetworkState /\ t = Trim(<<s>> \o h, maxHistoryDepth)
    BY <1>1
  <2> HIDE DEF h, t, s
  <2>1. CutCons(t, s, h, maxHistoryDepth)
    BY <1>2, <2>0, SavedHistory
  <2>2. Len(h) \in Nat
    BY <1>2, LenProperties
  <2>. QED
    BY <1>2, <2>1, <2>2 DEF s, CutCons
<1>5. SavedState(a, score).id = saves + 1 /\ SavedState(a, score).at = now
  BY DEF SavedState
<1> HIDE DEF h, t
<1>6. \A i \in 1..Len(t) :
        \/ i = 1 /\ t[i].id = saves + 1 /\ t[i].at = now
        \/ i - 1 \in 1..Len(h) /\ t[i] = h[i - 1]
  BY <1>3, <1>4, <1>5 DEF h
<1>7. HistoryNewestFirst'
  <2>1. \A b \in AP : \A i \in 1..Len(stateHistory[b]) :
          stateHistory[b][i].id <= saves /\ stateHistory[b][i].at <= now
    BY DEF HistoryInv, HistoryNewestFirst
  <2>2. \A b \in AP : \A i \in 1..Len(stateHistory'[b]) :
          /\ stateHistory'[b][i].id <= saves' /\ stateHistory'[b][i].at <= now'
    <3>1. \A i \in 1..Len(h) : /\ h[i].id \in Nat /\ h[i].id <= saves
                                /\ h[i].at \in Nat /\ h[i].at <= now
      BY <1>3, <2>1 DEF h
    <3>0. \A i \in 1..Len(t) : t[i].id <= saves' /\ t[i].at <= now'
      BY <1>1, <1>2, <1>6, <3>1
    <3>2. \A b \in AP : b # a => \A i \in 1..Len(stateHistory[b]) :
            stateHistory[b][i].id <= saves'
      BY <1>1, <1>2, <1>3, <2>1
    <3>. QED
      BY <1>1, <2>1, <3>0, <3>2 DEF t
  <2>3. \A b \in AP : \A i, j \in 1..Len(stateHistory'[b]) :
          i < j => /\ stateHistory'[b][i].id > stateHistory'[b][j].id
                   /\ stateHistory'[b][i].at >= stateHistory'[b][j].at
    <3>1. ASSUME NEW i \in 1..Len(t), NEW j \in 1..Len(t), i < j
          PROVE  t[i].id > t[j].id /\ t[i].at >= t[j].at
      <4>1. j - 1 \in 1..Len(h) /\ t[j] = h[j - 1]
        BY <1>4, <1>6, <3>1
      <4>2. CASE i = 1
        BY <1>2, <1>3, <1>6, <2>1, <4>1, <4>2 DEF h
      <4>3. CASE i # 1
        <5>1. i - 1 \in 1..Len(h) /\ t[i] = h[i - 1] /\ i - 1 < j - 1
          BY <1>4, <1>6, <3>1, <4>3
        <5>. QED
          BY <4>1, <5>1 DEF HistoryInv, HistoryNewestFirst, h
      <4>. QED
        BY <4>2, <4>3
    <3>2. \A b \in AP : b # a => \A i, j \in 1..Len(stateHistory[b]) :
            i < j => /\ stateHistory[b][i].id > stateHistory[b][j].id
                     /\ stateHistory[b][i].at >= stateHistory[b][j].at
      BY DEF HistoryInv, HistoryNewestFirst
    <3>. QED
      BY <1>1, <3>1, <3>2 DEF t
  <2>4. ASSUME NEW b \in AP, NEW c \in AP, NEW i \in 1..Len(stateHistory'[b]),
               NEW j \in 1..Len(stateHistory'[c]),
               stateHistory'[b][i].id = stateHistory'[c][j].id
        PROVE  b = c
    <3>1. \A k \in 1..Len(t) : t[k].id = saves + 1
            \/ \E l \in 1..Len(stateHistory[a]) : t[k].id = stateHistory[a][l].id
      BY <1>6 DEF h
    <3>2. \A d \in AP : \A k \in 1..Len(stateHistory'[d]) :
            \/ d = a /\ stateHistory'[d][k].id = saves + 1
            \/ \E l \in 1..Len(stateHistory[d]) : stateHistory'[d][k].id = stateHistory[d][l].id
      BY <1>1, <3>1 DEF t
    <3>3. \A d \in AP : \A l \in 1..Len(stateHistory[d]) : stateHistory[d][l].id # saves + 1
      BY <1>2, <1>3, <2>1
    <3>4. \/ b = a /\ c = a
          \/ \E k \in 1..Len(stateHistory[b]), l \in 1..Len(stateHistory[c]) :
               stateHistory[b][k].id = stateHistory[c][l].id
      BY <2>4, <3>2, <3>3
    <3>. QED
      BY <3>4 DEF HistoryInv, HistoryNewestFirst
  <2>. QED
    BY <2>2, <2>3, <2>4 DEF HistoryNewestFirst
<1>8. NeverRestoredTwice'
  <2>1. \A r \in restored : r.id \in Nat /\ r.id <= saves
    BY DEF HistoryInv, RestoredWasSaved, TypeOK, Restoration
  <2>2. \A r \in restored : \A i \in 1..Len(t) : t[i].id # r.id
    BY <1>2, <1>6, <2>1 DEF HistoryInv, NeverRestoredTwice, h
  <2>. QED
    BY <1>1, <2>2 DEF HistoryInv, NeverRestoredTwice, t
<1>9. RestoredWasSaved'
  BY <1>1, <1>2 DEF HistoryInv, RestoredWasSaved, TypeOK, Restoration
<1>. QED
  BY <1>7, <1>8, <1>9 DEF HistoryInv

\* A restoration takes the newest state of one history and records it.
LEMMA RestoredHistories ==
  ASSUME TypeOK, TypeOK', HistoryInv,
         NEW a \in AP, HasSavedState(a), Restore(a), now' = now, saves' = saves
  PROVE  HistoryInv'
<1> DEFINE h == stateHistory[a]
           shift == [b \in AP |-> IF b = a THEN 1 ELSE 0]
<1>1. h \in Seq(NetworkState) /\ h # <<>>
  BY DEF TypeOK, HasSavedState
<1>2. /\ Head(h) \in NetworkState /\ Head(h) = h[1]
      /\ Len(h) \in Nat \ {0}
      /\ Len(Tail(h)) = Len(h) - 1
      /\ \A i \in 1..Len(Tail(h)) : Tail(h)[i] = h[i + 1]
  BY <1>1, ErasedHistory
<1>3. /\ stateHistory'[a] = Tail(h)
      /\ \A b \in AP : b # a => stateHistory'[b] = stateHistory[b]
      /\ restored' = restored \cup {[ap |-> a, id |-> h[1].id, at |-> now]}
  BY <1>2 DEF Restore, TypeOK
<1>4. \A b \in AP : Len(stateHistory[b]) \in Nat
  BY HistoryTypes
<1>5. shift \in [AP -> Nat] /\ \A b \in AP : shift[b] = IF b = a THEN 1 ELSE 0
  OBVIOUS
<1> HIDE DEF shift
<1>6. \A b \in AP : /\ Len(stateHistory'[b]) + shift[b] <= Len(stateHistory[b])
                     /\ \A i \in 1..Len(stateHistory'[b]) :
                          stateHistory'[b][i] = stateHistory[b][i + shift[b]]
  <2>1. /\ Len(stateHistory'[a]) + shift[a] <= Len(stateHistory[a])
        /\ \A i \in 1..Len(stateHistory'[a]) :
             stateHistory'[a][i] = stateHistory[a][i + shift[a]]
    BY <1>2, <1>3, <1>5
  <2>2. ASSUME NEW b \in AP, b # a
        PROVE  /\ Len(stateHistory'[b]) + shift[b] <= Len(stateHistory[b])
               /\ \A i \in 1..Len(stateHistory'[b]) :
                    stateHistory'[b][i] = stateHistory[b][i + shift[b]]
    BY <1>3, <1>4, <1>5, <2>2
  <2>. QED
    BY <2>1, <2>2
<1>7. 1 \in 1..Len(h) /\ h[1].id <= saves
  BY <1>2 DEF HistoryInv, HistoryNewestFirst
<1>8. \A b \in AP : \A i \in 1..Len(stateHistory'[b]) : stateHistory'[b][i].id # h[1].id
  <2> SUFFICES ASSUME NEW b \in AP, NEW i \in 1..Len(stateHistory'[b])
               PROVE  stateHistory'[b][i].id # h[1].id
    OBVIOUS
  <2>1. CASE b = a
    <3>0. stateHistory'[b] = Tail(h) /\ i \in 1..Len(Tail(h))
      BY <1>3, <2>1
    <3>1. i + 1 \in 1..Len(h) /\ 1 < i + 1 /\ stateHistory'[b][i] = h[i + 1]
      BY <1>2, <3>0
    <3>2. h[1].id > h[i + 1].id
      BY <1>7, <3>1 DEF HistoryInv, HistoryNewestFirst
    <3>3. h[1].id \in Nat /\ h[i + 1].id \in Nat
      BY <1>7, <3>1, HistoryTypes
    <3>. QED
      BY <3>1, <3>2, <3>3
  <2>2. CASE b # a
    BY <1>3, <1>7, <2>2 DEF HistoryInv, HistoryNewestFirst
  <2>. QED
    BY <2>1, <2>2
<1>9. \A r \in restored' : r \in restored
        \/ /\ r.id <= saves
           /\ \A b \in AP : \A i \in 1..Len(stateHistory'[b]) : stateHistory'[b][i].id # r.id
  BY <1>3, <1>7, <1>8
<1>10. now' >= now
  BY DEF TypeOK
<1>. QED
  BY <1>5, <1>6, <1>9, <1>10, ShrunkHistories

\* A step that leaves the histories alone, or forgets some of them whole, and
\* restores nothing.
LEMMA KeptHistories ==
  ASSUME TypeOK, TypeOK', HistoryInv,
         now' >= now, saves' = saves, restored' \subseteq restored,
         \A a \in AP : stateHistory'[a] = stateHistory[a] \/ stateHistory'[a] = <<>>
  PROVE  HistoryInv'
<1> DEFINE shift == [a \in AP |-> 0]
<1>1. shift \in [AP -> Nat] /\ \A a \in AP : shift[a] = 0
  OBVIOUS
<1> HIDE DEF shift
<1>2. \A a \in AP : Len(stateHistory[a]) \in Nat
  BY HistoryTypes
<1>3. \A a \in AP : /\ Len(stateHistory'[a]) + shift[a] <= Len(stateHistory[a])
                     /\ \A i \in 1..Len(stateHistory'[a]) :
                          stateHistory'[a][i] = stateHistory[a][i + shift[a]]
  BY <1>1, <1>2, EmptySeq
<1>. QED
  BY <1>1, <1>3, ShrunkHistories

\* HistoryInv is inductive, given the types.
LEMMA HistoryStep == TypeOK /\ TypeOK' /\ HistoryInv /\ [Next]_vars => HistoryInv'
<1> SUFFICES ASSUME TypeOK, TypeOK', HistoryInv, [Next]_vars PROVE HistoryInv'
  OBVIOUS
<1>0. now \in Nat /\ now >= now
  BY DEF TypeOK
<1>1. ASSUME NEW a \in AP, NEW score \in Score, NEW new \in Setting,
             ChangeSetting(a, score, new)
      PROVE  HistoryInv'
  BY <1>1, SavedHistories DEF ChangeSetting
<1>2. ASSUME NEW e \in evaluations, NEW cur \in Score, RunEvaluation(e, cur)
      PROVE  HistoryInv'
  <2>1. e.ap \in AP
    BY DEF TypeOK, Evaluation
  <2>2. saves' = saves /\ now' = now
    BY <1>2 DEF RunEvaluation, EvaluateAndRollback
  <2>3. NothingRestored \/ (HasSavedState(e.ap) /\ Restore(e.ap))
    BY <1>2 DEF RunEvaluation, EvaluateAndRollback, EvaluationSkipped, EvaluationBlocked,
                ScoreAcceptable, RollbackSucceeds, RollbackFails, Evaluable
  <2>4. CASE NothingRestored
    <3>1. restored' = restored /\ stateHistory' = stateHistory
      BY <2>4 DEF NothingRestored
    <3>. QED
      BY <1>0, <2>2, <3>1, KeptHistories
  <2>5. CASE HasSavedState(e.ap) /\ Restore(e.ap)
    BY <2>1, <2>2, <2>5, RestoredHistories
  <2>. QED
    BY <2>3, <2>4, <2>5
<1>3. ASSUME NEW a \in AP, ForceRollback(a)
      PROVE  HistoryInv'
  BY <1>3, RestoredHistories DEF ForceRollback
<1>4. ASSUME NEW a \in AP, ClearStateForAp(a)
      PROVE  HistoryInv'
  <2>1. /\ now' = now /\ saves' = saves /\ restored' \subseteq restored
        /\ \A b \in AP : stateHistory'[b] = stateHistory[b] \/ stateHistory'[b] = <<>>
    BY <1>4 DEF ClearStateForAp, TypeOK
  <2>. QED
    BY <1>0, <2>1, KeptHistories
<1>5. CASE Reset
  <2>1. /\ now' = now /\ saves' = saves /\ restored' \subseteq restored
        /\ \A b \in AP : stateHistory'[b] = stateHistory[b] \/ stateHistory'[b] = <<>>
    BY <1>5 DEF Reset
  <2>. QED
    BY <1>0, <2>1, KeptHistories
<1>6. CASE Tick
  <2>1. now' >= now /\ UNCHANGED <<stateHistory, saves, restored>>
    BY <1>0, <1>6 DEF Tick, managerVars
  <2>. QED
    BY <2>1, KeptHistories
<1>7. CASE (\E depth \in Depths : SetConfig(depth)) \/ SetRollbackCallback \/ ResetStats
           \/ UNCHANGED vars
  <2>1. UNCHANGED <<now, stateHistory, saves, restored>>
    BY <1>7 DEF SetConfig, SetRollbackCallback, ResetStats, vars, managerVars
  <2>. QED
    BY <1>0, <2>1, KeptHistories
<1>. QED
  BY <1>1, <1>2, <1>3, <1>4, <1>5, <1>6, <1>7 DEF Next

\* Whatever the order of saves, evaluations, forced rollbacks and clears, every AP's
\* history stays ordered and disjoint from the others, and no state is restored twice.
THEOREM HistoryCorrect == Spec => [](HistoryNewestFirst /\ NeverRestoredTwice)
<1>1. Init => HistoryInv
  <2> SUFFICES ASSUME Init PROVE HistoryInv
    OBVIOUS
  <2>1. \A a \in AP : Len(stateHistory[a]) = 0
    BY EmptySeq DEF Init
  <2>. QED
    BY <2>1 DEF Init, HistoryInv, HistoryNewestFirst, NeverRestoredTwice, RestoredWasSaved
<1>2. HistoryInv => HistoryNewestFirst /\ NeverRestoredTwice
  BY DEF HistoryInv
<1>. QED
  BY <1>1, <1>2, HistoryStep, TypeCorrect, PTL DEF Spec

\* A state that a rollback restored, evaluated or forced, is in no history any more, so
\* that no later rollback restores it again.
THEOREM RestoredOnce == Spec => []NeverRestoredTwice
  BY HistoryCorrect, PTL

----------------------------------------------------------------------------
(* The cooldown. *)

\* Every restoration still remembered is covered by the AP's recorded rollback time.
RollbackTimeInv ==
  \A r \in restored : lastRollbackTime[r.ap] # NoTime /\ r.at <= lastRollbackTime[r.ap]
                      /\ lastRollbackTime[r.ap] <= now

\* Every step keeps the times of the last rollbacks ahead of the restorations.
LEMMA RollbackTimeStep ==
  TypeOK /\ TypeOK' /\ RollbackTimeInv /\ [Next]_vars => RollbackTimeInv'
<1> SUFFICES ASSUME TypeOK, TypeOK', RollbackTimeInv, [Next]_vars PROVE RollbackTimeInv'
  OBVIOUS
<1>0. /\ now \in Nat /\ NoTime \notin Nat
      /\ \A r \in restored : r.ap \in AP /\ r.at \in Nat /\ lastRollbackTime[r.ap] \in Nat
  BY RollbackAssumption DEF TypeOK, Restoration, RollbackTimeInv, Time
<1>1. ASSUME UNCHANGED <<lastRollbackTime, restored>>, now' >= now
      PROVE  RollbackTimeInv'
  BY <1>0, <1>1 DEF RollbackTimeInv, TypeOK
<1>2. ASSUME NEW a \in AP, Restore(a), now' = now
      PROVE  RollbackTimeInv'
  <2>1. \A r \in restored' : r \in restored \/ (r.ap = a /\ r.at = now)
    BY <1>2 DEF Restore
  <2>2. /\ lastRollbackTime'[a] = now
        /\ \A b \in AP : b # a => lastRollbackTime'[b] = lastRollbackTime[b]
    BY <1>2 DEF Restore, TypeOK
  <2>3. \A r \in restored : r.at <= now
    BY <1>0 DEF RollbackTimeInv
  <2>. QED
    BY <1>0, <1>2, <2>1, <2>2, <2>3 DEF RollbackTimeInv
<1>3. ASSUME NEW e \in evaluations, NEW cur \in Score, RunEvaluation(e, cur)
      PROVE  RollbackTimeInv'
  <2>1. e.ap \in AP /\ now' = now
    BY <1>3 DEF TypeOK, Evaluation, RunEvaluation
  <2>2. NothingRestored \/ Restore(e.ap)
    BY <1>3 DEF RunEvaluation, EvaluateAndRollback, EvaluationSkipped, EvaluationBlocked,
                ScoreAcceptable, RollbackSucceeds, RollbackFails
  <2>. QED
    BY <1>0, <1>1, <1>2, <2>1, <2>2 DEF NothingRestored
<1>4. ASSUME NEW a \in AP, ForceRollback(a)
      PROVE  RollbackTimeInv'
  BY <1>2, <1>4 DEF ForceRollback
<1>5. ASSUME NEW a \in AP, ClearStateForAp(a)
      PROVE  RollbackTimeInv'
  BY <1>0, <1>5 DEF ClearStateForAp, TypeOK, RollbackTimeInv
<1>6. CASE Reset
  BY <1>6 DEF Reset, RollbackTimeInv
<1>7. CASE Tick
  BY <1>0, <1>1, <1>7 DEF Tick, managerVars
<1>8. CASE \/ \E a \in AP, score \in Score, new \in Setting : ChangeSetting(a, score, new)
           \/ \E depth \in Depths : SetConfig(depth)
           \/ SetRollbackCallback \/ ResetStats \/ UNCHANGED vars
  <2>1. UNCHANGED <<now, lastRollbackTime, restored>>
    BY <1>8 DEF ChangeSetting, SaveState, SetConfig, SetRollbackCallback, ResetStats, vars,
                managerVars
  <2>. QED
    BY <1>0, <1>1, <2>1
<1>. QED
  BY <1>3, <1>4, <1>5, <1>6, <1>7, <1>8 DEF Next

\* An evaluated rollback never comes within the cooldown of an earlier rollback of the
\* same AP, evaluated or forced, whatever else was called in between.
THEOREM RollbacksAreSpaced == Spec => EvaluatedRollbacksAreSpaced
<1> DEFINE Spaced == \A new \in restored' \ restored : \A old \in restored :
              evaluations' # evaluations /\ old.ap = new.ap => new.at - old.at >= Cooldown
<1>1. Init => RollbackTimeInv
  BY DEF Init, RollbackTimeInv
<1>2. TypeOK /\ RollbackTimeInv /\ [Next]_vars => [Spaced]_vars
  <2> SUFFICES ASSUME TypeOK, RollbackTimeInv, Next,
                      NEW new \in restored' \ restored, NEW old \in restored,
                      evaluations' # evaluations, old.ap = new.ap
               PROVE  new.at - old.at >= Cooldown
    BY DEF Spaced
  <2>1. PICK e \in evaluations, cur \in Score : RunEvaluation(e, cur)
    <3>1. \A a \in AP, score \in Score, s \in Setting :
            ChangeSetting(a, score, s) => restored' = restored
      BY DEF ChangeSetting
    <3>2. \A a \in AP : ForceRollback(a) \/ ClearStateForAp(a) => evaluations' = evaluations
      BY DEF ForceRollback, ClearStateForAp
    <3>3. /\ \A depth \in Depths : SetConfig(depth) => evaluations' = evaluations
          /\ SetRollbackCallback \/ ResetStats \/ Reset \/ Tick => evaluations' = evaluations
      BY DEF SetConfig, SetRollbackCallback, ResetStats, Reset, Tick
    <3>. QED
      BY <3>1, <3>2, <3>3 DEF Next
  <2>2. ~IsInCooldown(e.ap) /\ Restore(e.ap)
    BY <2>1 DEF RunEvaluation, EvaluateAndRollback, EvaluationSkipped, EvaluationBlocked,
                ScoreAcceptable, RollbackSucceeds, RollbackFails, Evaluable, NothingRestored
  <2>3. new.ap = e.ap /\ new.at = now
    BY <2>2 DEF Restore
  <2>4. old.at \in Nat /\ now \in Nat /\ lastRollbackTime[e.ap] \in Nat /\ Cooldown \in Nat
    BY <2>3, RollbackAssumption DEF TypeOK, Restoration, RollbackTimeInv, Time
  <2>5. old.at <= lastRollbackTime[e.ap] /\ now - lastRollbackTime[e.ap] >= Cooldown
    BY <2>2, <2>3, <2>4 DEF RollbackTimeInv, IsInCooldown
  <2>. QED
    BY <2>3, <2>4, <2>5
<1>3. EvaluatedRollbacksAreSpaced <=> [][Spaced]_vars
  BY DEF EvaluatedRollbacksAreSpaced
<1>. QED
  BY <1>1, <1>2, <1>3, RollbackTimeStep, TypeCorrect, PTL DEF Spec

----------------------------------------------------------------------------
(* The depth of the histories. *)

\* A save leaves its AP no more states than the depth of that moment allows, whatever the
\* depth was when the older ones were saved, and touches no other AP's history.
THEOREM SavesAreBounded == Spec => SaveBoundsHistory
<1> DEFINE Bounded == \A a \in AP : saves' # saves /\ stateHistory'[a] # stateHistory[a]
                                      => Len(stateHistory'[a]) <= maxHistoryDepth
<1>1. TypeOK /\ [Next]_vars => [Bounded]_vars
  <2> SUFFICES ASSUME TypeOK, Next, NEW a \in AP,
                      saves' # saves, stateHistory'[a] # stateHistory[a]
               PROVE  Len(stateHistory'[a]) <= maxHistoryDepth
    BY DEF Bounded
  <2>1. PICK b \in AP, score \in Score, new \in Setting : ChangeSetting(b, score, new)
    BY DEF Next, RunEvaluation, EvaluateAndRollback, ForceRollback, ClearStateForAp, SetConfig,
           SetRollbackCallback, ResetStats, Reset, Tick
  <2> DEFINE h == stateHistory[b]
             t == Trim(<<SavedState(b, score)>> \o h, maxHistoryDepth)
  <2>2. SavedState(b, score) \in NetworkState /\ stateHistory' = [stateHistory EXCEPT ![b] = t]
    BY <2>1, SaveStateTypes DEF ChangeSetting
  <2>3. a = b /\ stateHistory'[a] = t
    BY <2>2 DEF TypeOK
  <2>4. h \in Seq(NetworkState) /\ maxHistoryDepth \in Nat
    BY RollbackAssumption DEF TypeOK
  <2>5. Len(h) \in Nat
    BY <2>4, LenProperties
  <2>6. Len(t) = IF Len(h) + 1 > maxHistoryDepth THEN maxHistoryDepth ELSE Len(h) + 1
    <3>1. CutCons(t, SavedState(b, score), h, maxHistoryDepth)
      BY <2>2, <2>4, SavedHistory
    <3>. QED
      BY <3>1 DEF CutCons
  <2> HIDE DEF h, t
  <2>. QED
    BY <2>3, <2>4, <2>5, <2>6
<1>2. SaveBoundsHistory <=> [][Bounded]_vars
  BY DEF SaveBoundsHistory
<1>. QED
  BY <1>1, <1>2, TypeCorrect, PTL DEF Spec

----------------------------------------------------------------------------
(* The manager implements an undo stack. *)

\* The tokens of a history.
Tokens(h) == [i \in 1..Len(h) |-> h[i].id]

Stack == [a \in AP |-> Tokens(stateHistory[a])]

UndoStep == Undo!UndoNext \/ UNCHANGED <<Stack, saves>>

\* Tokens come from a history one by one.
LEMMA TokensOf ==
  ASSUME NEW h \in Seq(NetworkState)
  PROVE  /\ Tokens(h) \in Seq(Nat) /\ Len(Tokens(h)) = Len(h) /\ Len(h) \in Nat
         /\ \A i \in 1..Len(h) : Tokens(h)[i] = h[i].id
<1>1. Len(h) \in Nat
  BY LenProperties
<1>2. \A i \in 1..Len(h) : h[i].id \in Nat
  <2>1. \A i \in 1..Len(h) : h[i] \in NetworkState
    BY ElementOfSeq
  <2>. QED
    BY <2>1 DEF NetworkState
<1>. QED
  BY <1>1, <1>2 DEF Tokens

\* The tokens a save leaves are a prefix of the new one in front of the old ones.
LEMMA SavedTokens ==
  ASSUME NEW h \in Seq(NetworkState), NEW state \in NetworkState, NEW n \in Nat
  PROVE  Tokens(Trim(<<state>> \o h, n)) \in Undo!Prefixes(<<state.id>> \o Tokens(h))
<1> DEFINE t == Trim(<<state>> \o h, n)
           c == <<state.id>> \o Tokens(h)
<1>1. /\ t \in Seq(NetworkState)
      /\ Len(t) = IF Len(h) + 1 > n THEN n ELSE Len(h) + 1
      /\ \A i \in 1..Len(t) : t[i] = IF i = 1 THEN state ELSE h[i - 1]
  BY SavedHistory DEF CutCons
<1>2. state.id \in Nat
  BY DEF NetworkState
<1>3. /\ c \in Seq(Nat) /\ Len(c) = Len(h) + 1
      /\ \A i \in 1..Len(c) : c[i] = IF i = 1 THEN state.id ELSE Tokens(h)[i - 1]
  <2>1. /\ <<state.id>> \in Seq(Nat) /\ Len(<<state.id>>) = 1 /\ <<state.id>>[1] = state.id
        /\ Tokens(h) \in Seq(Nat) /\ Len(Tokens(h)) = Len(h) /\ Len(h) \in Nat
    BY <1>2, TokensOf
  <2>2. /\ c \in Seq(Nat) /\ Len(c) = 1 + Len(h)
        /\ \A i \in 1..1 + Len(h) : c[i] = IF i <= 1 THEN <<state.id>>[i] ELSE Tokens(h)[i - 1]
    BY <2>1, ConcatProperties
  <2>. QED
    BY <2>1, <2>2
<1>4. /\ Tokens(t) \in Seq(Nat) /\ Len(Tokens(t)) = Len(t) /\ Len(t) \in Nat /\ Len(h) \in Nat
      /\ \A i \in 1..Len(t) : Tokens(t)[i] = t[i].id
      /\ \A i \in 1..Len(h) : Tokens(h)[i] = h[i].id
  BY <1>1, TokensOf
<1> HIDE DEF t, c
<1>5. Len(t) \in 0..Len(c)
  BY <1>1, <1>3, <1>4
<1>6. \A i \in 1..Len(t) : c[i] \in Nat
  BY <1>3, <1>5, ElementOfSeq
<1>7. /\ SubSeq(c, 1, Len(t)) \in Seq(Nat)
      /\ Len(SubSeq(c, 1, Len(t))) = Len(t)
      /\ \A i \in 1..Len(t) : SubSeq(c, 1, Len(t))[i] = c[i]
  <2>1. /\ SubSeq(c, 1, Len(t)) \in Seq(Nat)
        /\ Len(SubSeq(c, 1, Len(t))) = IF 1 <= Len(t) THEN Len(t) - 1 + 1 ELSE 0
        /\ \A i \in 1..Len(t) - 1 + 1 : SubSeq(c, 1, Len(t))[i] = c[1 + i - 1]
    BY <1>4, <1>6, SubSeqProperties
  <2>. QED
    BY <1>4, <2>1
<1>8. \A i \in 1..Len(t) : Tokens(t)[i] = SubSeq(c, 1, Len(t))[i]
  <2> SUFFICES ASSUME NEW i \in 1..Len(t) PROVE Tokens(t)[i] = SubSeq(c, 1, Len(t))[i]
    OBVIOUS
  <2>1. i \in 1..Len(c) /\ (i # 1 => i - 1 \in 1..Len(h))
    <3>1. Len(t) \in Nat /\ Len(h) \in Nat /\ Len(c) = Len(h) + 1 /\ Len(t) <= Len(c)
      BY <1>3, <1>4, <1>5
    <3>2. i \in 1..Len(t)
      OBVIOUS
    <3> HIDE DEF t, c
    <3>. QED
      BY <3>1, <3>2
  <2>2. Tokens(t)[i] = IF i = 1 THEN state.id ELSE h[i - 1].id
    BY <1>1, <1>4
  <2>3. SubSeq(c, 1, Len(t))[i] = IF i = 1 THEN state.id ELSE Tokens(h)[i - 1]
    BY <1>3, <1>7, <2>1
  <2>. QED
    BY <1>4, <2>1, <2>2, <2>3
<1>9. Tokens(t) = SubSeq(c, 1, Len(t))
  BY <1>4, <1>7, <1>8, SeqEqual
<1>. QED
  BY <1>5, <1>9 DEF Undo!Prefixes, t, c

\* The tokens left when the newest state is erased.
LEMMA ErasedTokens ==
  ASSUME NEW h \in Seq(NetworkState), h # <<>>
  PROVE  Tokens(h) # <<>> /\ Tokens(Tail(h)) = Tail(Tokens(h))
<1>1. /\ Tail(h) \in Seq(NetworkState) /\ Len(h) \in Nat \ {0}
      /\ Len(Tail(h)) = Len(h) - 1
      /\ \A i \in 1..Len(Tail(h)) : Tail(h)[i] = h[i + 1]
  BY ErasedHistory
<1>2. /\ Tokens(h) \in Seq(Nat) /\ Len(Tokens(h)) = Len(h)
      /\ \A i \in 1..Len(h) : Tokens(h)[i] = h[i].id
      /\ Tokens(Tail(h)) \in Seq(Nat) /\ Len(Tokens(Tail(h))) = Len(h) - 1
      /\ \A i \in 1..Len(h) - 1 : Tokens(Tail(h))[i] = Tail(h)[i].id
  BY <1>1, TokensOf
<1>3. Tokens(h) # <<>>
  BY <1>1, <1>2, EmptySeq
<1>4. /\ Tail(Tokens(h)) \in Seq(Nat) /\ Len(Tail(Tokens(h))) = Len(h) - 1
      /\ \A i \in 1..Len(h) - 1 : Tail(Tokens(h))[i] = Tokens(h)[i + 1]
  BY <1>2, <1>3, HeadTailProperties
<1>5. \A i \in 1..Len(h) - 1 : Tail(Tokens(h))[i] = Tokens(Tail(h))[i]
  BY <1>1, <1>2, <1>4
<1>. QED
  BY <1>2, <1>3, <1>4, <1>5, SeqEqual

\* A save is a push.
LEMMA SaveIsPush ==
  ASSUME TypeOK, NEW a \in AP, NEW score \in Score, SaveState(a, score)
  PROVE  UndoStep
<1>1. /\ SavedState(a, score) \in NetworkState /\ SavedState(a, score).id = saves + 1
      /\ stateHistory' = [stateHistory EXCEPT ![a] =
                            Trim(<<SavedState(a, score)>> \o stateHistory[a], maxHistoryDepth)]
      /\ saves' = saves + 1
  BY SaveStateTypes DEF SavedState
<1>2. stateHistory[a] \in Seq(NetworkState) /\ maxHistoryDepth \in Nat
  BY RollbackAssumption DEF TypeOK
<1>3. Tokens(stateHistory'[a]) \in Undo!Prefixes(<<saves + 1>> \o Stack[a])
  BY <1>1, <1>2, SavedTokens DEF TypeOK, Stack
<1>4. Stack' = [Stack EXCEPT ![a] = Tokens(stateHistory'[a])]
  BY <1>1 DEF TypeOK, Stack
<1>5. Undo!Push(a)
  BY <1>1, <1>3, <1>4 DEF Undo!Push, Stack, Tokens
<1>. QED
  BY <1>5 DEF UndoStep, Undo!UndoNext

\* A successful rollback is a pop.
LEMMA RestoreIsPop ==
  ASSUME TypeOK, NEW a \in AP, HasSavedState(a), Restore(a), saves' = saves
  PROVE  UndoStep
<1>1. stateHistory[a] \in Seq(NetworkState) /\ stateHistory[a] # <<>>
  BY DEF TypeOK, HasSavedState
<1>2. Stack[a] # <<>> /\ Tokens(Tail(stateHistory[a])) = Tail(Stack[a])
  BY <1>1, ErasedTokens DEF Stack
<1>3. Stack' = [Stack EXCEPT ![a] = Tail(@)]
  <2>1. stateHistory' = [stateHistory EXCEPT ![a] = Tail(@)]
    BY DEF Restore
  <2>. QED
    BY <1>2, <2>1 DEF TypeOK, Stack
<1>4. Undo!Pop(a)
  BY <1>2, <1>3 DEF Undo!Pop, Stack, Tokens
<1>. QED
  BY <1>4 DEF UndoStep, Undo!UndoNext

\* Histories forgotten whole.
LEMMA ClearIsForget ==
  ASSUME TypeOK, NEW A \in SUBSET AP, saves' = saves,
         stateHistory' = [a \in AP |-> IF a \in A THEN <<>> ELSE stateHistory[a]]
  PROVE  UndoStep
<1>1. Tokens(<<>>) = <<>>
  <2>1. <<>> \in Seq(NetworkState) /\ Len(<<>>) = 0
    BY EmptySeq
  <2>2. Tokens(<<>>) \in Seq(Nat) /\ Len(Tokens(<<>>)) = 0
    BY <2>1, TokensOf
  <2>. QED
    BY <2>2, EmptySeq
<1>2. Stack' = [a \in AP |-> IF a \in A THEN <<>> ELSE Stack[a]]
  BY <1>1 DEF Stack
<1>3. Undo!Forget(A)
  BY <1>2 DEF Undo!Forget, Stack, Tokens
<1>. QED
  BY <1>3 DEF UndoStep, Undo!UndoNext

\* Every step of the manager and its client is one of the undo stack, or none.
LEMMA NextIsUndo ==
  ASSUME TypeOK, Next
  PROVE  UndoStep
<1>1. ASSUME NEW a \in AP, NEW score \in Score, NEW new \in Setting, ChangeSetting(a, score, new)
      PROVE  UndoStep
  BY <1>1, SaveIsPush DEF ChangeSetting
<1>2. ASSUME UNCHANGED <<stateHistory, saves>> PROVE UndoStep
  BY <1>2 DEF UndoStep, Stack
<1>3. ASSUME NEW e \in evaluations, NEW cur \in Score, RunEvaluation(e, cur)
      PROVE  UndoStep
  <2>1. e.ap \in AP /\ saves' = saves
    BY <1>3 DEF TypeOK, Evaluation, RunEvaluation, EvaluateAndRollback
  <2>2. NothingRestored \/ (HasSavedState(e.ap) /\ Restore(e.ap))
    BY <1>3 DEF RunEvaluation, EvaluateAndRollback, EvaluationSkipped, EvaluationBlocked,
                ScoreAcceptable, RollbackSucceeds, RollbackFails, Evaluable
  <2>. QED
    BY <1>2, <2>1, <2>2, RestoreIsPop DEF NothingRestored
<1>4. ASSUME NEW a \in AP, ForceRollback(a) PROVE UndoStep
  BY <1>4, RestoreIsPop DEF ForceRollback
<1>5. ASSUME NEW a \in AP, ClearStateForAp(a) PROVE UndoStep
  <2>1. stateHistory' = [b \in AP |-> IF b \in {a} THEN <<>> ELSE stateHistory[b]]
    BY <1>5 DEF ClearStateForAp, TypeOK
  <2>. QED
    BY <1>5, <2>1, ClearIsForget DEF ClearStateForAp
<1>6. CASE Reset
  <2>1. stateHistory' = [b \in AP |-> IF b \in AP THEN <<>> ELSE stateHistory[b]]
    BY <1>6 DEF Reset
  <2>. QED
    BY <1>6, <2>1, ClearIsForget DEF Reset
<1>7. CASE (\E depth \in Depths : SetConfig(depth)) \/ SetRollbackCallback \/ ResetStats \/ Tick
  BY <1>2, <1>7 DEF SetConfig, SetRollbackCallback, ResetStats, Tick, managerVars
<1>. QED
  BY <1>1, <1>3, <1>4, <1>5, <1>6, <1>7 DEF Next

\* The manager is an undo stack, for any depths and any interleaving of saves, evaluations,
\* forced rollbacks and resets: SaveState pushes, a successful rollback pops the newest
\* state, and nothing that was popped, trimmed or cleared comes back.
THEOREM ManagerImplementsUndoStack == Spec => ImplementsUndoStack
<1>1. Init => Undo!UndoInit
  <2>1. Init => \A a \in AP : Tokens(stateHistory[a]) = <<>>
    BY EmptySeq DEF Init, Tokens
  <2>. QED
    BY <2>1 DEF Init, Undo!UndoInit, Tokens
<1>2. TypeOK /\ [Next]_vars => [Undo!UndoNext]_(Undo!abstractVars)
  <2>1. ASSUME TypeOK, Next PROVE [Undo!UndoNext]_(Undo!abstractVars)
    BY <2>1, NextIsUndo DEF UndoStep, Undo!abstractVars, Stack, Tokens
  <2>2. ASSUME UNCHANGED vars PROVE [Undo!UndoNext]_(Undo!abstractVars)
    BY <2>2 DEF vars, managerVars, Undo!abstractVars
  <2>. QED
    BY <2>1, <2>2
<1>. QED
  BY <1>1, <1>2, TypeCorrect, PTL DEF Spec, ImplementsUndoStack, Undo!UndoSpec
=============================================================================
