-------------------------- MODULE LoadBalance_proofs --------------------------
(***************************************************************************)
(* Proofs about LoadBalance, for any access points, stations and cooldowns. *)
(***************************************************************************)
EXTENDS LoadBalance, TLAPS

\* The elements of a queue after one is added, and after its first is taken.
LEMMA PairQueueSteps ==
  ASSUME NEW q \in Seq(Pair)
  PROVE  /\ \A p \in Pair : /\ Append(q, p) \in Seq(Pair) /\ Len(Append(q, p)) = Len(q) + 1
                            /\ \A i \in 1..Len(q) : Append(q, p)[i] = q[i]
                            /\ Append(q, p)[Len(q) + 1] = p
         /\ q # <<>> => /\ Len(q) \in Nat \ {0} /\ Head(q) = q[1] /\ q[1] \in Pair
                        /\ Tail(q) \in Seq(Pair) /\ Len(Tail(q)) = Len(q) - 1
                        /\ \A i \in 1..Len(Tail(q)) : Tail(q)[i] = q[i + 1]
  OBVIOUS

\* The initial state is well typed.
LEMMA LbTypeInit == LbInit => LbTypeOK
  <1>1. 0 \in 0..Cooldown /\ 0 \in 0..RateLimit BY LbAssumption
  <1>2. <<>> \in Seq(Pair) OBVIOUS
  <1>3. LbInit => /\ cooling \in [Pair -> 0..Cooldown] /\ limited \in [Pair -> 0..RateLimit]
                  /\ queue \in Seq(Pair)
    BY <1>1, <1>2 DEF LbInit
  <1>4. LbInit => /\ with \in [Sta -> AP \cup {NoAp}] /\ heard \in [Sta -> SUBSET AP]
                  /\ injected \in [AP -> SUBSET AP] /\ staMac \in [AP -> Sta \cup {NoSta}]
    BY DEF LbInit
  <1>5. LbInit => /\ running \in BOOLEAN /\ chains \in Nat /\ busy \subseteq AP /\ todo \subseteq AP
                  /\ at \in AP \cup {NoAp} /\ left \subseteq Sta
                  /\ offloaded \subseteq Pair /\ requests \subseteq Request
    <2> SUFFICES ASSUME LbInit
                 PROVE  /\ running \in BOOLEAN /\ chains \in Nat
                        /\ busy \subseteq AP /\ todo \subseteq AP
                        /\ at \in AP \cup {NoAp} /\ left \subseteq Sta
                        /\ offloaded \subseteq Pair /\ requests \subseteq Request
      OBVIOUS
    <2>1. /\ running = FALSE /\ chains = 0 /\ busy = {} /\ todo = {} /\ at = NoAp
          /\ left = {} /\ offloaded = {} /\ requests = {}
      BY DEF LbInit
    <2> QED BY <2>1
  <1> QED BY <1>3, <1>4, <1>5 DEF LbTypeOK

\* What an offload adds is well typed.
LEMMA LbTypeOffload ==
  ASSUME LbTypeOK, NEW s \in Sta, Offload(s)
  PROVE  LbTypeOK' /\ at \in AP /\ <<at, s>> \in Pair
  <1>1. at \in AP /\ <<at, s>> \in Pair
    BY DEF Offload, LbTypeOK, Pair
  <1>2. cooling' \in [Pair -> 0..Cooldown]
    BY <1>1, LbAssumption DEF Offload, CoolingAfter, LbTypeOK
  <1>3. /\ injected' \in [AP -> SUBSET AP] /\ staMac' \in [AP -> Sta \cup {NoSta}]
        /\ queue' \in Seq(Pair) /\ offloaded' \subseteq Pair /\ limited' = limited
    <2>1. queue' \in Seq(Pair)
      BY <1>1, PairQueueSteps DEF Offload, TriggerBssTm, LbTypeOK
    <2> QED BY <1>1, <2>1 DEF Offload, TriggerBssTm, LbTypeOK
  <1>4. busy' \subseteq AP /\ left' \subseteq Sta
    BY DEF Offload, LbTypeOK
  <1> QED BY <1>1, <1>2, <1>3, <1>4 DEF Offload, LbTypeOK

\* So is what a transition request leaves.
LEMMA LbTypeSend ==
  ASSUME LbTypeOK, SendRankedCandidates
  PROVE  LbTypeOK'
  <1> DEFINE pair == Head(queue)
             a == pair[1]
  <1>1. pair \in Pair /\ a \in AP /\ pair[2] \in Sta /\ queue' \in Seq(Pair)
    BY PairQueueSteps DEF SendRankedCandidates, LbTypeOK, Pair
  <1>2. injected' \in [AP -> SUBSET AP]
    BY <1>1 DEF SendRankedCandidates, LbTypeOK
  <1>3. limited' \in [Pair -> 0..RateLimit]
    BY <1>1, LbAssumption DEF SendRankedCandidates, LbTypeOK
  <1>4. Ranked(Beacons(a), a) \subseteq AP
    BY <1>1 DEF Ranked, Beacons, LbTypeOK
  <1>5. requests' \subseteq Request
    BY <1>1, <1>4 DEF SendRankedCandidates, LbTypeOK, Request
  <1> QED BY <1>1, <1>2, <1>3, <1>5
       DEF SendRankedCandidates, LbTypeOK, inputVars, roundVars

\* The clock takes one off a cooldown that is not over.
LEMMA LbTypeTick ==
  ASSUME LbTypeOK, LbTick
  PROVE  LbTypeOK'
  <1>1. \A k \in Nat : \A n \in 0..k : (IF n = 0 THEN 0 ELSE n - 1) \in 0..k
    OBVIOUS
  <1>2. cooling' \in [Pair -> 0..Cooldown] /\ limited' \in [Pair -> 0..RateLimit]
    BY <1>1, LbAssumption DEF LbTick, LbTypeOK
  <1> QED BY <1>2 DEF LbTick, LbTypeOK, roundVars

\* The rest of a check, and the calls that start and stop it.
LEMMA LbTypeRest ==
  ASSUME LbTypeOK,
         \/ Start \/ Stop \/ PeriodicCheck \/ LeaveAp
         \/ \E a \in AP : CheckAp(a)
         \/ \E s \in Sta : Skip(s)
  PROVE  LbTypeOK'
  <1>1. CASE Start BY <1>1 DEF Start, LbTypeOK, inputVars, roundVars, helperVars
  <1>2. CASE Stop BY <1>2 DEF Stop, LbTypeOK, inputVars, roundVars, helperVars
  <1>3. CASE PeriodicCheck BY <1>3 DEF PeriodicCheck, LbTypeOK, helperVars
  <1>4. CASE LeaveAp BY <1>4 DEF LeaveAp, LbTypeOK, inputVars, helperVars
  <1>5. ASSUME NEW a \in AP, CheckAp(a) PROVE LbTypeOK'
    BY <1>5 DEF CheckAp, Listed, LbTypeOK, inputVars, helperVars
  <1>6. ASSUME NEW s \in Sta, Skip(s) PROVE LbTypeOK'
    BY <1>6 DEF Skip, LbTypeOK, inputVars, helperVars
  <1> QED BY <1>1, <1>2, <1>3, <1>4, <1>5, <1>6

\* Every step of a check, every event and every tick keeps the state well typed.
THEOREM LbTypeCorrect == LbSpec => []LbTypeOK
  <1>1. LbTypeOK /\ [LbNext]_lbVars => LbTypeOK'
    <2>1. LbTypeOK /\ LbNext => LbTypeOK'
      BY LbTypeOffload, LbTypeSend, LbTypeTick, LbTypeRest DEF LbNext
    <2>2. LbTypeOK /\ UNCHANGED lbVars => LbTypeOK'
      BY DEF LbTypeOK, lbVars, inputVars, roundVars, helperVars
    <2> QED BY <2>1, <2>2
  <1> QED BY <1>1, LbTypeInit, PTL DEF LbSpec

----------------------------------------------------------------------------
(* What a check leaves to its events.  Each event finds beacons, those injected or those   *)
(* of the station set last, and no rate limit: a pair that is not cooling has none.        *)

\* An offloaded station hears an AP beside its own.
OffloadsHear == \A p \in offloaded : \E b \in heard[p[2]] : b # p[1]

\* An event is for a pair offloaded by this check, and its helper is set for a station that is.
EventDue(p) ==
  /\ p \in offloaded /\ <<p[1], staMac[p[1]]>> \in offloaded
  /\ limited[p] = 0 /\ cooling[p] = Cooldown

EventsDue == \A i \in 1..Len(queue) : EventDue(queue[i])

\* No pair is offloaded twice.
EventsOnce == \A i, j \in 1..Len(queue) : queue[i] = queue[j] => i = j

\* Beacons injected are those of a station offloaded, and an event is there to use them.
InjectedDue ==
  \A a \in AP : injected[a] # {} =>
    /\ \E i \in 1..Len(queue) : queue[i][1] = a
    /\ \E s \in Sta : <<a, s>> \in offloaded /\ injected[a] = heard[s]

LimitsCovered == \A p \in Pair : limited[p] <= cooling[p]

Answered(p) == \E r \in requests : <<r.ap, r.sta>> = p

OffloadsServed == \A p \in offloaded : Answered(p) \/ \E i \in 1..Len(queue) : queue[i] = p

OffersKnown ==
  \A r \in requests :
    /\ r.ap \notin r.candidates
    /\ \E s \in Sta : <<r.ap, s>> \in offloaded /\ r.candidates \subseteq heard[s]

CheckInv ==
  /\ OffloadsHear /\ EventsDue /\ EventsOnce /\ InjectedDue /\ LimitsCovered
  /\ OffloadsServed /\ OffersKnown

\* A check that starts, and the clock, find no event; nothing of the last check is left.
LEMMA CheckInvIdle ==
  ASSUME LbTypeOK, CheckInv, PeriodicCheck \/ LbTick
  PROVE  CheckInv'
  <1>1. queue = <<>> /\ queue' = queue /\ offloaded' = {} /\ requests' = {} /\ injected' = injected
    BY DEF PeriodicCheck, LbTick, Idle, helperVars
  <1>2. \A a \in AP : injected[a] = {}
    BY <1>1 DEF CheckInv, InjectedDue
  <1>3. ASSUME NEW p \in Pair PROVE limited'[p] <= cooling'[p]
    <2>1. limited[p] \in Nat /\ cooling[p] \in Nat /\ limited[p] <= cooling[p]
      BY LbAssumption DEF LbTypeOK, CheckInv, LimitsCovered
    <2>2. CASE PeriodicCheck BY <2>1, <2>2 DEF PeriodicCheck, helperVars
    <2>3. CASE LbTick BY <2>1, <2>3 DEF LbTick
    <2> QED BY <2>2, <2>3
  <1> QED BY <1>1, <1>2, <1>3
       DEF CheckInv, OffloadsHear, EventsDue, EventsOnce, InjectedDue, LimitsCovered, OffloadsServed,
           OffersKnown

\* An offload adds an event and a pair that was not there.
LEMMA CheckInvOffload ==
  ASSUME LbTypeOK, CheckInv, NEW s \in Sta, Offload(s)
  PROVE  CheckInv'
  <1> DEFINE p == <<at, s>>
  <1>1. at \in AP /\ p \in Pair /\ p[1] = at /\ p[2] = s
    BY LbTypeOffload
  <1>2. /\ injected' = [injected EXCEPT ![at] = heard[s]] /\ staMac' = [staMac EXCEPT ![at] = s]
        /\ queue' = Append(queue, p) /\ offloaded' = offloaded \cup {p}
        /\ cooling' = [cooling EXCEPT ![p] = Cooldown]
        /\ limited' = limited /\ heard' = heard /\ requests' = requests /\ at' = at
    BY DEF Offload, TriggerBssTm, CoolingAfter
  <1>3. cooling[p] = 0 /\ limited[p] = 0
    <2>1. limited[p] \in Nat /\ limited[p] <= cooling[p] /\ cooling[p] = 0
      BY <1>1, LbAssumption DEF Offload, LbTypeOK, CheckInv, LimitsCovered
    <2> QED BY <2>1
  <1>4. /\ Len(queue) \in Nat /\ Len(queue') = Len(queue) + 1 /\ queue'[Len(queue) + 1] = p
        /\ \A i \in 1..Len(queue) : queue'[i] = queue[i]
    BY <1>1, <1>2, PairQueueSteps DEF LbTypeOK
  <1>5. \A i \in 1..Len(queue) : queue[i] \in Pair /\ queue[i] # p
    <2>1. \A i \in 1..Len(queue) : queue[i] \in Pair /\ cooling[queue[i]] = Cooldown
      BY DEF CheckInv, EventsDue, EventDue, LbTypeOK
    <2> QED BY <1>3, <2>1, LbAssumption
  <1>6. OffloadsHear'
    <2>1. \E b \in heard[s] : b # at BY DEF Offload
    <2> QED BY <1>1, <1>2, <2>1 DEF CheckInv, OffloadsHear
  <1>7. EventsDue'
    <2>1. EventDue(p)'
      BY <1>1, <1>2, <1>3 DEF EventDue, LbTypeOK
    <2>2. ASSUME NEW q \in Pair, q # p, EventDue(q) PROVE EventDue(q)'
      <3>1. q[1] \in AP BY DEF Pair
      <3>2. <<q[1], staMac'[q[1]]>> \in offloaded'
        BY <1>1, <1>2, <2>2, <3>1 DEF EventDue, LbTypeOK
      <3>3. q \in offloaded' /\ limited'[q] = 0
        BY <1>2, <2>2 DEF EventDue
      <3>4. cooling'[q] = Cooldown
        BY <1>2, <2>2 DEF EventDue, LbTypeOK
      <3> QED BY <3>2, <3>3, <3>4 DEF EventDue
    <2>3. ASSUME NEW i \in 1..Len(queue') PROVE EventDue(queue[i])'
      <3>1. CASE i \in 1..Len(queue)
        <4>1. queue'[i] \in Pair /\ queue'[i] # p /\ EventDue(queue[i]) /\ queue'[i] = queue[i]
          BY <1>4, <1>5, <3>1 DEF CheckInv, EventsDue
        <4> QED BY <2>2, <4>1 DEF EventDue
      <3>2. CASE i = Len(queue) + 1
        BY <1>2, <1>4, <2>1, <3>2 DEF EventDue
      <3> QED BY <1>4, <3>1, <3>2
    <2> QED BY <2>3 DEF EventsDue
  <1>8. EventsOnce'
    BY <1>4, <1>5 DEF CheckInv, EventsOnce
  <1>9. InjectedDue'
    <2> SUFFICES ASSUME NEW a \in AP, injected'[a] # {}
                 PROVE  /\ \E i \in 1..Len(queue') : queue'[i][1] = a
                        /\ \E t \in Sta : <<a, t>> \in offloaded' /\ injected'[a] = heard'[t]
      BY DEF InjectedDue
    <2>1. CASE a = at
      <3>1. injected'[a] = heard'[s] /\ <<a, s>> \in offloaded'
        BY <1>1, <1>2, <2>1 DEF LbTypeOK
      <3>2. Len(queue) + 1 \in 1..Len(queue') /\ queue'[Len(queue) + 1][1] = a
        BY <1>1, <1>4, <2>1
      <3> QED BY <3>1, <3>2
    <2>2. CASE a # at
      <3>1. injected'[a] = injected[a] BY <1>1, <1>2, <2>2 DEF LbTypeOK
      <3>2. PICK i \in 1..Len(queue) : queue[i][1] = a
        BY <3>1 DEF CheckInv, InjectedDue
      <3>3. i \in 1..Len(queue') /\ queue'[i][1] = a BY <1>4, <3>2
      <3>4. PICK t \in Sta : <<a, t>> \in offloaded /\ injected[a] = heard[t]
        BY <3>1 DEF CheckInv, InjectedDue
      <3> QED BY <1>2, <3>1, <3>3, <3>4
    <2> QED BY <2>1, <2>2
  <1>10. LimitsCovered'
    <2>1. ASSUME NEW q \in Pair PROVE limited'[q] <= cooling'[q]
      <3>1. CASE q = p
        BY <1>1, <1>2, <1>3, <3>1, LbAssumption DEF LbTypeOK
      <3>2. CASE q # p
        BY <1>2, <3>2 DEF LbTypeOK, CheckInv, LimitsCovered
      <3> QED BY <3>1, <3>2
    <2> QED BY <2>1 DEF LimitsCovered
  <1>11. OffloadsServed'
    <2>1. \E i \in 1..Len(queue') : queue'[i] = p BY <1>4
    <2>2. ASSUME NEW q \in offloaded PROVE Answered(q)' \/ \E i \in 1..Len(queue') : queue'[i] = q
      BY <1>2, <1>4 DEF CheckInv, OffloadsServed, Answered
    <2> QED BY <1>2, <2>1, <2>2 DEF OffloadsServed
  <1>12. OffersKnown'
    BY <1>2 DEF CheckInv, OffersKnown
  <1> QED BY <1>6, <1>7, <1>8, <1>9, <1>10, <1>11, <1>12 DEF CheckInv

\* An event finds candidates and no limit, and leaves the others as they are.
LEMMA CheckInvSend ==
  ASSUME LbTypeOK, CheckInv, SendRankedCandidates
  PROVE  CheckInv'
  <1> DEFINE p == queue[1]
             a == p[1]
             offer == [ap |-> a, sta |-> p[2], candidates |-> Ranked(Beacons(a), a)]
  <1>1. /\ queue # <<>> /\ Len(queue) \in Nat \ {0} /\ Head(queue) = p /\ queue' = Tail(queue)
        /\ Len(queue') = Len(queue) - 1 /\ \A i \in 1..Len(queue') : queue'[i] = queue[i + 1]
    BY PairQueueSteps DEF SendRankedCandidates, LbTypeOK
  <1>2. p \in Pair /\ a \in AP /\ p[2] \in Sta /\ p = <<a, p[2]>> /\ EventDue(p)
    <2>1. p \in Pair BY <1>1, PairQueueSteps DEF LbTypeOK
    <2>2. 1 \in 1..Len(queue) BY <1>1
    <2> QED BY <2>1, <2>2 DEF Pair, CheckInv, EventsDue
  <1>3. /\ cooling' = cooling /\ staMac' = staMac /\ offloaded' = offloaded /\ heard' = heard
        /\ injected' = [injected EXCEPT ![a] = {}]
    BY <1>1 DEF SendRankedCandidates, inputVars
  <1>4. PICK s \in Sta : <<a, s>> \in offloaded /\ Beacons(a) = heard[s]
    <2>1. CASE injected[a] # {}
      BY <1>2, <2>1 DEF Beacons, CheckInv, InjectedDue
    <2>2. CASE injected[a] = {}
      <3>1. <<a, staMac[a]>> \in offloaded BY <1>2 DEF EventDue
      <3>2. staMac[a] \in Sta BY <3>1 DEF LbTypeOK, Pair
      <3>3. staMac[a] # NoSta BY <3>2, LbAssumption
      <3> QED BY <2>2, <3>1, <3>2, <3>3 DEF Beacons
    <2> QED BY <2>1, <2>2
  <1>5. Ranked(Beacons(a), a) # {} /\ a \notin Ranked(Beacons(a), a)
        /\ Ranked(Beacons(a), a) \subseteq heard[s]
    BY <1>4 DEF Ranked, CheckInv, OffloadsHear
  <1>6. limited' = [limited EXCEPT ![p] = RateLimit] /\ requests' = requests \cup {offer}
    BY <1>1, <1>2, <1>5 DEF SendRankedCandidates, EventDue
  <1>7. OffloadsHear' BY <1>3 DEF CheckInv, OffloadsHear
  <1>8. \A i \in 1..Len(queue') : /\ queue'[i] \in Pair /\ queue'[i] # p
                                  /\ i + 1 \in 1..Len(queue) /\ queue'[i] = queue[i + 1]
    BY <1>1 DEF CheckInv, EventsOnce, LbTypeOK
  <1>9. EventsDue'
    <2>1. ASSUME NEW i \in 1..Len(queue') PROVE EventDue(queue[i])'
      <3>1. EventDue(queue[i + 1]) BY <1>8 DEF CheckInv, EventsDue
      <3>2. limited'[queue'[i]] = limited[queue[i + 1]] BY <1>6, <1>8 DEF LbTypeOK
      <3> QED BY <1>3, <1>8, <3>1, <3>2 DEF EventDue
    <2> QED BY <2>1 DEF EventsDue
  <1>10. EventsOnce'
    <2> SUFFICES ASSUME NEW i \in 1..Len(queue'), NEW j \in 1..Len(queue'), queue'[i] = queue'[j]
                 PROVE  i = j
      BY DEF EventsOnce
    <2>1. i + 1 = j + 1 BY <1>8 DEF CheckInv, EventsOnce
    <2> QED BY <1>1, <2>1
  <1>11. InjectedDue'
    <2> SUFFICES ASSUME NEW b \in AP, injected'[b] # {}
                 PROVE  /\ \E i \in 1..Len(queue') : queue'[i][1] = b
                        /\ \E t \in Sta : <<b, t>> \in offloaded' /\ injected'[b] = heard'[t]
      BY DEF InjectedDue
    <2>1. b # a /\ injected'[b] = injected[b] BY <1>2, <1>3 DEF LbTypeOK
    <2>2. PICK i \in 1..Len(queue) : queue[i][1] = b
      BY <2>1 DEF CheckInv, InjectedDue
    <2>3. i - 1 \in 1..Len(queue') /\ queue'[i - 1][1] = b BY <1>1, <2>1, <2>2
    <2>4. \E t \in Sta : <<b, t>> \in offloaded /\ injected[b] = heard[t]
      BY <2>1 DEF CheckInv, InjectedDue
    <2> QED BY <1>3, <2>1, <2>3, <2>4
  <1>12. LimitsCovered'
    <2>1. ASSUME NEW q \in Pair PROVE limited'[q] <= cooling'[q]
      <3>1. CASE q = p
        BY <1>2, <1>3, <1>6, <3>1, LbAssumption DEF EventDue, LbTypeOK
      <3>2. CASE q # p
        BY <1>3, <1>6, <3>2 DEF LbTypeOK, CheckInv, LimitsCovered
      <3> QED BY <3>1, <3>2
    <2> QED BY <2>1 DEF LimitsCovered
  <1>13. OffloadsServed'
    <2>1. ASSUME NEW q \in offloaded PROVE Answered(q)' \/ \E i \in 1..Len(queue') : queue'[i] = q
      <3>1. CASE q = p
        <4>1. offer \in requests' /\ <<offer.ap, offer.sta>> = q BY <1>2, <1>6, <3>1
        <4> QED BY <4>1 DEF Answered
      <3>2. CASE Answered(q) BY <1>6, <3>2 DEF Answered
      <3>3. ASSUME NEW i \in 1..Len(queue), queue[i] = q, q # p
            PROVE  \E j \in 1..Len(queue') : queue'[j] = q
        <4>1. i - 1 \in 1..Len(queue') /\ queue'[i - 1] = q BY <1>1, <3>3
        <4> QED BY <4>1
      <3> QED BY <3>1, <3>2, <3>3 DEF CheckInv, OffloadsServed
    <2> QED BY <1>3, <2>1 DEF OffloadsServed
  <1>14. OffersKnown'
    <2>1. /\ offer.ap \notin offer.candidates /\ <<offer.ap, s>> \in offloaded
          /\ offer.candidates \subseteq heard[s]
      BY <1>4, <1>5
    <2> QED BY <1>3, <1>6, <2>1 DEF CheckInv, OffersKnown
  <1> QED BY <1>7, <1>9, <1>10, <1>11, <1>12, <1>13, <1>14 DEF CheckInv

\* What a check has left to its events holds at every step.
LEMMA CheckInvHolds == LbSpec => []CheckInv
  <1>1. LbInit => CheckInv
    BY LbAssumption
    DEF LbInit, CheckInv, OffloadsHear, EventsDue, EventsOnce, InjectedDue, LimitsCovered,
        OffloadsServed, OffersKnown
  <1>2. LbTypeOK /\ CheckInv /\ [LbNext]_lbVars => CheckInv'
    <2> SUFFICES ASSUME LbTypeOK, CheckInv, [LbNext]_lbVars PROVE CheckInv'
      OBVIOUS
    <2>1. CASE UNCHANGED <<heard, cooling, limited, injected, staMac, queue, offloaded, requests>>
      <3>1. OffloadsHear' /\ EventsOnce' /\ InjectedDue'
        BY <2>1 DEF CheckInv, OffloadsHear, EventsOnce, InjectedDue
      <3>2. EventsDue' BY <2>1 DEF CheckInv, EventsDue, EventDue
      <3>3. LimitsCovered' BY <2>1 DEF CheckInv, LimitsCovered
      <3>4. OffloadsServed' BY <2>1 DEF CheckInv, OffloadsServed, Answered
      <3>5. OffersKnown' BY <2>1 DEF CheckInv, OffersKnown
      <3> QED BY <3>1, <3>2, <3>3, <3>4, <3>5 DEF CheckInv
    <2> QED BY <2>1, CheckInvIdle, CheckInvOffload, CheckInvSend
         DEF LbNext, Start, Stop, CheckAp, LeaveAp, Skip, lbVars, inputVars, helperVars
  <1> QED BY <1>1, <1>2, LbTypeCorrect, PTL DEF LbSpec

\* A station is never asked to move to the AP it is with, nor, when it is the only one its
\* AP offloads in a check, to an AP it does not hear.
THEOREM LbLoneOffersAreHeard == LbSpec => []LoneOffersAreHeard
  <1>1. LbTypeOK /\ CheckInv => LoneOffersAreHeard
    BY DEF CheckInv, OffersKnown, LoneOffersAreHeard
  <1> QED BY <1>1, LbTypeCorrect, CheckInvHolds, PTL

\* Every pair a check offloads, and puts on its cooldown, is sent a request.
THEOREM LbEveryOffloadIsSent == LbSpec => []EveryOffloadIsSent
  <1>1. CheckInv => EveryOffloadIsSent
    BY DEF CheckInv, OffloadsServed, Answered, EveryOffloadIsSent, Idle
  <1> QED BY <1>1, CheckInvHolds, PTL
=============================================================================
