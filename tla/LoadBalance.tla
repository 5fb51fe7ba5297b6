----------------------------- MODULE LoadBalance -----------------------------
(***************************************************************************)
(* LoadBalanceHelper (contrib/final-simulation): a periodic check offloads  *)
(* stations from the APs whose channel is busier than a threshold, each by  *)
(* a transition request of its AP's BssTm11vHelper (contrib/bss_tm_11v).    *)
(*                                                                         *)
(* A helper has room for one station's beacons.  The check writes them and  *)
(* schedules sendRankedCandidates for the same instant, but goes on to the  *)
(* next station of that AP before any of these events runs.                 *)
(*                                                                         *)
(* A check is taken one station at a time; nothing else happens during it,  *)
(* or before the events it schedules.  What the simulation has measured by  *)
(* then - loads, associations, beacons heard - is chosen when it starts.    *)
(***************************************************************************)
EXTENDS Integers, Sequences, FiniteSets

CONSTANTS AP, Sta,     \* the access points and the stations
          NoAp,        \* not associated, or no AP being checked
          NoSta,       \* a helper no station was set for
          Cooldown,    \* cooldownSec in ticks
          RateLimit,   \* the transition helper's m_cooldownDuration in ticks
          MaxStarts    \* bound on the calls of Start

ASSUME LbAssumption ==
  /\ NoAp \notin AP /\ NoSta \notin Sta
  /\ {Cooldown, RateLimit} \subseteq Nat \ {0} /\ MaxStarts \in Nat
  /\ RateLimit <= Cooldown

VARIABLES running,    \* m_running
          chains,     \* PeriodicCheck events that reschedule themselves
          busy,       \* the APs whose utilization is at the threshold or above
          with,       \* per station, the AP that lists it
          heard,      \* per station, the APs in its beacon cache
          todo,       \* the APs this check has not come to
          at, left,   \* the AP it is at, and the stations it has not looked at
          cooling,    \* m_cooldown: ticks until the AP may offload the station again
          limited,    \* m_lastRequestTime: ticks until its helper may ask it again
          injected,   \* per AP, its helper's m_injectedBeacons
          staMac,     \* per AP, its helper's m_staMac
          queue,      \* sendRankedCandidates events scheduled
          offloaded,  \* history: the pairs offloaded by the last check,
          requests    \* and the transition requests it led to

inputVars == <<busy, with, heard>>
roundVars == <<todo, at, left>>
helperVars == <<injected, staMac, limited>>
lbVars == <<running, chains, inputVars, roundVars, cooling, helperVars, queue, offloaded, requests>>

Pair == AP \X Sta
Request == [ap : AP, sta : Sta, candidates : SUBSET AP]

LbTypeOK ==
  /\ running \in BOOLEAN /\ chains \in Nat
  /\ busy \subseteq AP /\ todo \subseteq AP /\ with \in [Sta -> AP \cup {NoAp}]
  /\ heard \in [Sta -> SUBSET AP]
  /\ at \in AP \cup {NoAp} /\ left \subseteq Sta
  /\ cooling \in [Pair -> 0..Cooldown] /\ limited \in [Pair -> 0..RateLimit]
  /\ injected \in [AP -> SUBSET AP] /\ staMac \in [AP -> Sta \cup {NoSta}]
  /\ queue \in Seq(Pair) /\ offloaded \subseteq Pair /\ requests \subseteq Request

Listed(a) == {s \in Sta : with[s] = a}

Idle == todo = {} /\ at = NoAp /\ queue = <<>>

LbInit ==
  /\ running = FALSE /\ chains = 0
  /\ busy = {} /\ with = [s \in Sta |-> NoAp] /\ heard = [s \in Sta |-> {}]
  /\ todo = {} /\ at = NoAp /\ left = {}
  /\ cooling = [p \in Pair |-> 0] /\ limited = [p \in Pair |-> 0]
  /\ injected = [a \in AP |-> {}] /\ staMac = [a \in AP |-> NoSta]
  /\ queue = <<>> /\ offloaded = {} /\ requests = {}

----------------------------------------------------------------------------
(* Start and Stop. *)

\* A second Start adds a second chain of checks.
Start ==
  /\ Idle /\ chains < MaxStarts
  /\ running' = TRUE /\ chains' = chains + 1
  /\ UNCHANGED <<inputVars, roundVars, cooling, helperVars, queue, offloaded, requests>>

\* The checks go on, to find that they have nothing to do.
Stop ==
  /\ Idle /\ running /\ running' = FALSE
  /\ UNCHANGED <<chains, inputVars, roundVars, cooling, helperVars, queue, offloaded, requests>>

----------------------------------------------------------------------------
(* PeriodicCheck. *)

\* Checks are ticks apart.  Of the stations, those listed by a busy AP matter, and what
\* they hear.
PeriodicCheck ==
  /\ Idle /\ running /\ chains > 0 /\ busy = {} /\ offloaded = {}
  /\ busy' \in SUBSET AP /\ with' \in [Sta -> busy' \cup {NoAp}]
  /\ heard' \in {h \in [Sta -> SUBSET AP] : \A s \in Sta : with'[s] = NoAp => h[s] = {}}
  /\ todo' = AP /\ offloaded' = {} /\ requests' = {}
  /\ UNCHANGED <<running, chains, at, left, cooling, helperVars, queue>>

\* An AP below the threshold is passed over; so is, one by one, a station without an
\* entry in the tracker of its AP's received signals.
CheckAp(a) ==
  /\ at = NoAp /\ a \in todo /\ todo' = todo \ {a}
  /\ IF a \in busy THEN at' = a /\ left' = Listed(a) ELSE UNCHANGED <<at, left>>
  /\ UNCHANGED <<running, chains, inputVars, cooling, helperVars, queue, offloaded, requests>>

\* The AP is done when its load is estimated below the threshold, or no station is left.
LeaveAp ==
  /\ at # NoAp /\ (at \notin busy \/ left = {})
  /\ at' = NoAp /\ left' = {}
  /\ UNCHANGED <<running, chains, inputVars, todo, cooling, helperVars, queue, offloaded, requests>>

\* No entry in the tracker, no candidate with a good signal, or a busy one; or cooling.
Skip(s) ==
  /\ at \in busy /\ s \in left /\ left' = left \ {s}
  /\ UNCHANGED <<running, chains, inputVars, todo, at, cooling, helperVars, queue, offloaded, requests>>

\* TriggerBssTm: the target is not passed on, the station's beacons are.
TriggerBssTm(a, s) ==
  /\ injected' = [injected EXCEPT ![a] = heard[s]]
  /\ queue' = Append(queue, <<a, s>>)
  /\ staMac' = [staMac EXCEPT ![a] = s] /\ offloaded' = offloaded \cup {<<a, s>>}
  /\ UNCHANGED limited

\* Mutant: the request is not noted.
CoolingAfterNone(a, s) == cooling

\* m_cooldown[(a, s)] = now.
CoolingAfter(a, s) == [cooling EXCEPT ![<<a, s>>] = Cooldown]

\* Stations are tried weakest first; the best candidate is not busy.  A share of the load
\* is taken off the AP, nothing is added to the candidate's.
Offload(s) ==
  /\ at \in busy /\ s \in left /\ left' = left \ {s}
  /\ cooling[<<at, s>>] = 0 /\ cooling' = CoolingAfter(at, s)
  /\ \E best \in heard[s] \ {at} : best \notin busy
  /\ busy' = busy \ {at} \/ (Cardinality(Listed(at)) > 1 /\ UNCHANGED busy)
  /\ TriggerBssTm(at, s)
  /\ UNCHANGED <<running, chains, with, heard, todo, at, requests>>

----------------------------------------------------------------------------
(* BssTm11vHelper. *)

\* Mutant: the candidates include the AP that asks.
RankedWithSelf(beacons, a) == beacons

\* rankCandidatesFromBeaconCache leaves the AP that asks out.
Ranked(beacons, a) == beacons \ {a}

\* The beacons injected, then those heard by the station that was set last.
Beacons(a) ==
  IF injected[a] # {} THEN injected[a] ELSE IF staMac[a] = NoSta THEN {} ELSE heard[staMac[a]]

\* sendRankedCandidates, SendDynamicBssTmRequest: the beacons injected are used once.
SendRankedCandidates ==
  /\ todo = {} /\ at = NoAp /\ queue # <<>> /\ queue' = Tail(queue)
  /\ LET pair == Head(queue)
         a == pair[1]
         candidates == Ranked(Beacons(a), a)
     IN /\ injected' = [injected EXCEPT ![a] = {}]
        /\ IF candidates # {} /\ limited[pair] = 0
           THEN /\ limited' = [limited EXCEPT ![pair] = RateLimit]
                /\ requests' = requests \cup {[ap |-> a, sta |-> pair[2], candidates |-> candidates]}
           ELSE UNCHANGED <<limited, requests>>
  /\ UNCHANGED <<running, chains, inputVars, roundVars, cooling, staMac, offloaded>>

\* A tick of the clock; what the last check was about is forgotten.
LbTick ==
  /\ Idle
  /\ cooling' = [p \in Pair |-> IF cooling[p] = 0 THEN 0 ELSE cooling[p] - 1]
  /\ limited' = [p \in Pair |-> IF limited[p] = 0 THEN 0 ELSE limited[p] - 1]
  /\ busy' = {} /\ with' = [s \in Sta |-> NoAp] /\ heard' = [s \in Sta |-> {}]
  /\ offloaded' = {} /\ requests' = {}
  /\ UNCHANGED <<running, chains, roundVars, injected, staMac, queue>>

LbNext ==
  \/ Start \/ Stop \/ PeriodicCheck \/ LeaveAp \/ SendRankedCandidates \/ LbTick
  \/ \E a \in AP : CheckAp(a)
  \/ \E s \in Sta : Skip(s) \/ Offload(s)

LbSpec == LbInit /\ [][LbNext]_lbVars

----------------------------------------------------------------------------
(* Properties. *)

\* A station is never asked to move to the AP it is with, and one that is offloaded
\* alone by its AP is offered only APs it hears.  With a second one in the same check it
\* is not so: the first is offered what the second hears (TriggerBssTm, sendRankedCandidates).
LoneOffersAreHeard ==
  \A r \in requests :
    /\ r.ap \notin r.candidates
    /\ (\A s \in Sta : <<r.ap, s>> \in offloaded => s = r.sta) => r.candidates \subseteq heard[r.sta]

\* No station sits out its cooldown for a request it was not sent: of the events a check
\* schedules, however many share a helper, each finds candidates, and no rate limit that
\* outlasts the cooldown (PeriodicCheck, SendDynamicBssTmRequest).
EveryOffloadIsSent ==
  Idle => \A pair \in offloaded : \E r \in requests : <<r.ap, r.sta>> = pair
=============================================================================
