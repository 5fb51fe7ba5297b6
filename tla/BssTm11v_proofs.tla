--------------------------- MODULE BssTm11v_proofs ---------------------------
(***************************************************************************)
(* Steering disturbs nothing of what StaWifiMac_proofs shows: with requests, *)
(* responses, scheduled roams and clean-ups added, for any delays, the       *)
(* types and the association invariant hold and Association is implemented.  *)
(***************************************************************************)
EXTENDS BssTm11v, StaWifiMac_proofs, FiniteSetTheorems

\* The invariant of the station is what makes the types inductive here too.
BtmInv == StaInv /\ BtmTypeOK

----------------------------------------------------------------------------
(* Type correctness and the invariant, action by action. *)

\* The initial states have it.
LEMMA BtmInitInv ==
  ASSUME StaAssumption, BtmAssumption, BtmInit
  PROVE  BtmInv
<1>1. StaTypeOK BY InitTyped DEF BtmInit
<1>2. StaInv
  BY <1>1 DEF BtmInit, StaInit, StaInv, Associated, AssociatedOnChannel, RequestsAreRetried, Off
<1>3. /\ cooldown \in [AP -> 0..RequestCooldown]
      /\ cleanup \in [AP -> Timer(CleanupDelay)]
      /\ answers \in Seq(Answer) /\ steered \in Seq(Steer) /\ requests \in Nat
  BY DEF BtmInit, BtmAssumption, Timer, Off
<1>4. QED BY <1>1, <1>2, <1>3 DEF BtmInv, BtmTypeOK

\* The AP's request and its clean-up.
LEMMA ApStepKeepsBtmInv ==
  ASSUME StaAssumption, BtmAssumption, BtmInv, NEW a \in AP,
         (\E target \in AP : SendDynamicBssTmRequest(a, target)) \/ CleanUp(a)
         \/ ApReceivesResponse(a)
  PROVE  BtmInv'
<1>1. StaTypeOK /\ BtmTypeOK /\ StaInv BY DEF BtmInv, BtmTypeOK
<1>2. ASSUME NEW target \in AP, SendDynamicBssTmRequest(a, target) PROVE BtmInv'
  <2>1. [type |-> "btmReq", target |-> target] \in ApFrame BY DEF ApFrame
  <2>2. \A frame \in ApFrame : [apQueue EXCEPT ![a] = Append(@, frame)] \in [AP -> Seq(ApFrame)]
    BY <1>1, ApQueueTyped DEF StaTypeOK
  <2>3. apQueue' \in [AP -> Seq(ApFrame)]
    BY <1>2, <2>1, <2>2 DEF SendDynamicBssTmRequest
  <2>4. StaTypeOK'
    BY <1>1, <1>2, <2>3 DEF SendDynamicBssTmRequest, StaTypeOK, counters
  <2>5. StaInv'
    BY <1>1, <1>2, <2>4, QuietStepKeepsInv DEF SendDynamicBssTmRequest
  <2>6. cleanup' \in [AP -> Timer(CleanupDelay)]
    BY <1>1, <1>2 DEF SendDynamicBssTmRequest, BtmTypeOK, BtmAssumption, Timer, Off
  <2>7. cooldown' \in [AP -> 0..RequestCooldown]
    BY <1>1, <1>2 DEF SendDynamicBssTmRequest, BtmTypeOK, BtmAssumption
  <2>8. requests' \in Nat /\ UNCHANGED <<answers, steered>>
    BY <1>1, <1>2 DEF SendDynamicBssTmRequest, BtmTypeOK
  <2>9. QED BY <1>1, <2>4, <2>5, <2>6, <2>7, <2>8 DEF BtmInv, BtmTypeOK
<1>3. CASE CleanUp(a)
  <2>1. cleanup' \in [AP -> Timer(CleanupDelay)]
    BY <1>1, <1>3 DEF CleanUp, BtmTypeOK, BtmAssumption, Timer, Off
  <2>2. listed' \in [AP -> BOOLEAN] BY <1>1, <1>3 DEF CleanUp, StaTypeOK
  <2>3. StaTypeOK' BY <1>1, <1>3, <2>2 DEF CleanUp, StaTypeOK, counters
  <2>4. StaInv' BY <1>1, <1>3, <2>3, QuietStepKeepsInv DEF CleanUp
  <2>5. UNCHANGED <<cooldown, answers, steered, requests>> BY <1>3 DEF CleanUp
  <2>6. QED BY <1>1, <2>1, <2>3, <2>4, <2>5 DEF BtmInv, BtmTypeOK
<1>4. CASE ApReceivesResponse(a)
  <2>1. staQueue' \in Seq(StaFrame)
    BY <1>1, <1>4 DEF ApReceivesResponse, StaTransmits, StaTypeOK
  <2>2. StaTypeOK' BY <1>1, <1>4, <2>1 DEF ApReceivesResponse, StaTypeOK, counters
  <2>3. StaInv' BY <1>1, <1>4, <2>2, QuietStepKeepsInv DEF ApReceivesResponse
  <2>4. UNCHANGED btmVars BY <1>4 DEF ApReceivesResponse
  <2>5. QED BY <1>1, <2>2, <2>3, <2>4 DEF BtmInv, BtmTypeOK, btmVars
<1>5. QED BY <1>2, <1>3, <1>4

\* The request at the station, acknowledged or not.
LEMMA ReceiveBtmRequestKeepsBtmInv ==
  ASSUME StaAssumption, BtmAssumption, BtmInv, NEW a \in AP,
         ReceiveBtmRequest(a) \/ ReceiveBtmRequestUnacked(a)
  PROVE  BtmInv'
<1>1. StaTypeOK /\ BtmTypeOK /\ StaInv BY DEF BtmInv, BtmTypeOK
<1>2. /\ Accept(a) /\ apQueue[a] # <<>>
      /\ UNCHANGED <<cooldown, cleanup, steered, requests>>
      /\ UNCHANGED <<state, bssid, lastBssid, chan, switching, assocTimer, watchdog,
                     disassociating, roams, autoReconnect, heard, staQueue, listed, asserted,
                     calls, missed>>
  BY DEF ReceiveBtmRequest, ReceiveBtmRequestUnacked, ApTransmits, counters
<1>3. Head(apQueue[a]) \in ApFrame
  BY <1>1, <1>2, ApQueueTyped DEF StaTypeOK
<1>4. [ap |-> a, target |-> Head(apQueue[a]).target] \in Answer
  <2>1. Head(apQueue[a]).type = "btmReq"
    BY DEF ReceiveBtmRequest, ReceiveBtmRequestUnacked
  <2>2. Head(apQueue[a]).target \in AP BY <1>3, <2>1 DEF ApFrame
  <2>3. QED BY <2>2 DEF Answer
<1>5. answers' \in Seq(Answer)
  BY <1>1, <1>2, <1>4 DEF Accept, BtmTypeOK
<1>6. apQueue' \in [AP -> Seq(ApFrame)]
  <2>1. apQueue \in [AP -> Seq(ApFrame)] BY <1>1 DEF StaTypeOK
  <2>2. [apQueue EXCEPT ![a] = Tail(@)] \in [AP -> Seq(ApFrame)] BY <1>2, <2>1, ApQueueTyped
  <2>3. apQueue' = apQueue \/ apQueue' = [apQueue EXCEPT ![a] = Tail(@)]
    BY DEF ReceiveBtmRequest, ReceiveBtmRequestUnacked, ApTransmits
  <2>4. QED BY <2>1, <2>2, <2>3
<1>7. lost' \in Nat
  BY <1>1 DEF ReceiveBtmRequest, ReceiveBtmRequestUnacked, StaTypeOK, counters
<1>8. StaTypeOK' BY <1>1, <1>2, <1>6, <1>7 DEF StaTypeOK
<1>9. StaInv' BY <1>1, <1>2, <1>8, QuietStepKeepsInv
<1>10. QED BY <1>1, <1>2, <1>5, <1>8, <1>9 DEF BtmInv, BtmTypeOK

\* The response and the roam it schedules.
LEMMA SendResponseKeepsBtmInv ==
  ASSUME StaAssumption, BtmAssumption, BtmInv, SendDynamicBssTmResponse
  PROVE  BtmInv'
<1>1. StaTypeOK /\ BtmTypeOK /\ StaInv BY DEF BtmInv, BtmTypeOK
<1>2. answers \in Seq(Answer) /\ answers # <<>> /\ steered \in Seq(Steer)
  BY <1>1 DEF SendDynamicBssTmResponse, BtmTypeOK
<1>3. Head(answers) \in Answer /\ Tail(answers) \in Seq(Answer) BY <1>2
<1>4. Head(answers).ap \in AP /\ Head(answers).target \in AP BY <1>3 DEF Answer
<1>5. staQueue' \in Seq(StaFrame)
  BY <1>1, <1>4, SendTyped DEF SendDynamicBssTmResponse, StaTypeOK
<1>6. [ap |-> Head(answers).ap, target |-> Head(answers).target, left |-> RoamDelay] \in Steer
  BY <1>4 DEF Steer, BtmAssumption, Timer, Off
<1>7. steered' \in Seq(Steer) BY <1>2, <1>6 DEF SendDynamicBssTmResponse
<1>8. StaTypeOK' BY <1>1, <1>5 DEF SendDynamicBssTmResponse, StaTypeOK, counters
<1>9. StaInv' BY <1>1, <1>8, QuietStepKeepsInv DEF SendDynamicBssTmResponse
<1>10. answers' \in Seq(Answer) /\ UNCHANGED <<cooldown, cleanup, requests>>
  BY <1>3 DEF SendDynamicBssTmResponse
<1>11. QED BY <1>1, <1>7, <1>8, <1>9, <1>10 DEF BtmInv, BtmTypeOK

\* The scheduled roam is a call of the station's own interface.
LEMMA SteeredRoamKeepsBtmInv ==
  ASSUME StaAssumption, BtmAssumption, BtmInv, NEW i \in 1..Len(steered), SteeredRoam(i)
  PROVE  BtmInv'
<1>1. StaTypeOK /\ BtmTypeOK /\ StaInv /\ (Associated => bssid # NoAp)
  BY DEF BtmInv, BtmTypeOK, StaInv
<1>2. steered \in Seq(Steer) BY <1>1 DEF BtmTypeOK
<1>3. steered[i] \in Steer BY <1>2
<1>4. steered[i].target \in AP BY <1>3 DEF Steer
<1>5. InitiateRoaming(steered[i].target) BY DEF SteeredRoam, SteeredMove
<1>6. /\ state' \in MacState /\ bssid' \in AP \cup {NoAp} /\ chan' \in Channel
      /\ switching' \in BOOLEAN /\ assocTimer' \in Timer(AssocTimeout)
      /\ roams' \in Seq(Roam) /\ staQueue' \in Seq(StaFrame)
  BY <1>1, <1>4, <1>5, InitiateRoamingTyped
<1>7. StaTypeOK' BY <1>1, <1>6 DEF SteeredRoam, StaTypeOK, counters
<1>8. StaInv' BY <1>1, <1>4, <1>5, <1>7, InitiateRoamingKeepsInv
<1>9. steered' \in Seq(Steer) BY <1>2, RemoveTyped DEF SteeredRoam
<1>10. UNCHANGED <<cooldown, cleanup, answers, requests>> BY DEF SteeredRoam
<1>11. QED BY <1>1, <1>7, <1>8, <1>9, <1>10 DEF BtmInv, BtmTypeOK

\* The clock.
LEMMA BtmTickKeepsBtmInv ==
  ASSUME StaAssumption, BtmAssumption, BtmInv, BtmTick
  PROVE  BtmInv'
<1>1. StaTypeOK /\ BtmTypeOK /\ StaInv BY DEF BtmInv, BtmTypeOK
<1>2. AdvanceStaTimers /\ NothingDue /\ UNCHANGED <<state, bssid, chan, switching>>
  BY DEF BtmTick
<1>3. /\ assocTimer' \in Timer(AssocTimeout) /\ watchdog' \in Timer(WatchdogDelay)
      /\ roams' \in Seq(Roam)
  BY <1>1, <1>2, TimersTyped
<1>4. StaTypeOK' BY <1>1, <1>3 DEF BtmTick, StaTypeOK, counters
<1>5. StaInv' BY <1>1, <1>2, <1>4, ClockKeepsInv
<1>6. cooldown' \in [AP -> 0..RequestCooldown]
  <2>1. ASSUME NEW t \in 0..RequestCooldown PROVE CountDown(t) \in 0..RequestCooldown
    BY <2>1 DEF CountDown, BtmAssumption
  <2>2. QED BY <1>1, <2>1 DEF BtmTick, BtmTypeOK
<1>7. cleanup' \in [AP -> Timer(CleanupDelay)]
  <2>1. \A t \in Timer(CleanupDelay) : CountDown(t) \in Timer(CleanupDelay)
    BY CountDownTyped DEF BtmAssumption
  <2>2. QED BY <1>1, <2>1 DEF BtmTick, BtmTypeOK
<1>8. steered' \in Seq(Steer)
  <2>1. steered \in Seq(Steer) /\ Len(steered) \in Nat BY <1>1 DEF BtmTypeOK
  <2>2. ASSUME NEW i \in 1..Len(steered)
        PROVE  [steered[i] EXCEPT !.left = CountDown(@)] \in Steer
    <3>1. steered[i] \in Steer BY <2>1
    <3>2. steered[i].left \in Timer(RoamDelay) BY <3>1 DEF Steer
    <3>3. CountDown(steered[i].left) \in Timer(RoamDelay)
      BY <3>2, CountDownTyped DEF BtmAssumption
    <3>4. QED BY <3>1, <3>3 DEF Steer
  <2>3. steered' = [i \in 1..Len(steered) |-> [steered[i] EXCEPT !.left = CountDown(@)]]
    BY DEF BtmTick
  <2>4. steered' \in [1..Len(steered) -> Steer] BY <2>2, <2>3
  <2>5. QED BY <2>1, <2>4
<1>9. UNCHANGED <<answers, requests>> BY DEF BtmTick
<1>10. QED BY <1>1, <1>4, <1>5, <1>6, <1>7, <1>8, <1>9 DEF BtmInv, BtmTypeOK

----------------------------------------------------------------------------
(* Theorems. *)

\* The invariant holds throughout.
LEMMA BtmInvariant ==
  ASSUME StaAssumption, BtmAssumption
  PROVE  BtmSpec => []BtmInv
<1>1. BtmInit => BtmInv BY BtmInitInv
<1>2. BtmInv /\ [BtmNext]_allVars => BtmInv'
  <2>1. ASSUME BtmInv, UNCHANGED allVars PROVE BtmInv'
    BY <2>1 DEF BtmInv, BtmTypeOK, StaInv, StaTypeOK, Associated, AssociatedOnChannel,
                RequestsAreRetried, allVars, staVars, counters, btmVars
  <2>2. ASSUME BtmInv, StaStep \/ StaCall, UNCHANGED btmVars PROVE BtmInv'
    <3>1. StaInv' BY <2>2, StepKeepsInv, CallKeepsInv DEF BtmInv
    <3>2. QED BY <2>2, <3>1 DEF BtmInv, BtmTypeOK, StaInv, btmVars
  <2>3. ASSUME BtmInv, BtmStep PROVE BtmInv'
    BY <2>3, ApStepKeepsBtmInv, ReceiveBtmRequestKeepsBtmInv, SendResponseKeepsBtmInv,
       SteeredRoamKeepsBtmInv DEF BtmStep
  <2>4. QED BY <2>1, <2>2, <2>3, BtmTickKeepsBtmInv DEF BtmNext
<1>3. QED BY <1>1, <1>2, PTL DEF BtmSpec

\* The types hold with steering: every scheduled roam, answer and request names an AP of
\* the network, for any number of APs and requests under way.
THEOREM SteeringTypeCorrect == BtmSpec => []BtmTypeOK
<1>1. BtmInv => BtmTypeOK BY DEF BtmInv
<1>2. QED BY <1>1, StaAssumption, BtmAssumption, BtmInvariant, PTL

\* Every step of the steered station is one of Association, or none.
LEMMA BtmNextImplements ==
  ASSUME BtmInv, BtmNext
  PROVE  AssocStep
<1>1. StaTypeOK /\ StaInv BY DEF BtmInv, StaInv
<1>2. CASE StaStep \/ StaCall
  BY <1>1, <1>2, NextImplements DEF StaNext
<1>3. ASSUME NEW a \in AP, NEW target \in AP, SendDynamicBssTmRequest(a, target)
      PROVE  AssocStep
  <2> DEFINE frame == [type |-> "btmReq", target |-> target]
  <2>1. frame \in ApFrame BY DEF ApFrame
  <2>2. apQueue' = [apQueue EXCEPT ![a] = Append(@, frame)]
    BY <1>3 DEF SendDynamicBssTmRequest
  <2>3. listed' = listed /\ listed \in [AP -> BOOLEAN] /\ frame.type # "assocResp"
    BY <1>1, <1>3 DEF SendDynamicBssTmRequest, StaTypeOK
  <2>4. listed' = [listed EXCEPT ![a] = @ \/ frame.type = "assocResp"] BY <2>3
  <2>5. UNCHANGED (IF Associated THEN bssid ELSE NoAp)
    BY <1>3 DEF SendDynamicBssTmRequest, Associated
  <2>6. Assoc!Answer(a, frame) BY <2>2, <2>4, <2>5 DEF Assoc!Answer
  <2>7. QED BY <2>1, <2>6 DEF AssocStep, Assoc!AssocNext
<1>4. ASSUME NEW a \in AP, CleanUp(a) PROVE AssocStep
  <2>1. Assoc!Forget(a) BY <1>4 DEF CleanUp, Assoc!Forget, Associated
  <2>2. QED BY <2>1 DEF AssocStep, Assoc!AssocNext
<1>5. ASSUME NEW a \in AP, ReceiveBtmRequest(a) PROVE AssocStep
  <2>1. Assoc!Ignore(a)
    BY <1>5 DEF ReceiveBtmRequest, ApTransmits, Assoc!Ignore, Assoc!Read, Associated
  <2>2. QED BY <2>1 DEF AssocStep, Assoc!AssocNext
<1>6. ASSUME NEW a \in AP, ReceiveBtmRequestUnacked(a) \/ ApReceivesResponse(a)
      PROVE  AssocStep
  BY <1>6, StutterStep DEF ReceiveBtmRequestUnacked, ApReceivesResponse
<1>7. CASE SendDynamicBssTmResponse \/ BtmTick
  BY <1>7, StutterStep DEF SendDynamicBssTmResponse, BtmTick
<1>8. ASSUME NEW i \in 1..Len(steered), SteeredRoam(i) PROVE AssocStep
  <2>1. state' # "ASSOCIATED" \/ UNCHANGED <<state, bssid>>
    BY <1>8 DEF SteeredRoam, SteeredMove, InitiateRoaming, Associate, SendAssociationRequest
  <2>2. UNCHANGED <<apQueue, listed>> BY <1>8 DEF SteeredRoam
  <2>3. QED BY <2>1, <2>2, LeaveStep, StutterStep
<1>9. QED
  BY <1>2, <1>3, <1>4, <1>5, <1>6, <1>7, <1>8 DEF BtmNext, BtmStep

\* With requests, clean-ups and roams the APs ask for, the station still joins an AP only
\* by an acceptance of that AP and after leaving the one before: steering adds frames
\* that are no acceptances and APs that forget.
THEOREM SteeringImplementsAssociation == BtmSpec => ImplementsAssociation
<1>1. BtmInit => Assoc!AssocInit
  BY DEF BtmInit, StaInit, Assoc!AssocInit, Associated
<1>2. BtmInv /\ [BtmNext]_allVars => [Assoc!AssocNext]_(Assoc!assocVars)
  <2>1. ASSUME BtmInv, BtmNext PROVE [Assoc!AssocNext]_(Assoc!assocVars)
    BY <2>1, BtmNextImplements DEF AssocStep, Assoc!assocVars
  <2>2. ASSUME UNCHANGED allVars PROVE [Assoc!AssocNext]_(Assoc!assocVars)
    BY <2>2 DEF allVars, staVars, Assoc!assocVars, Associated
  <2>3. QED BY <2>1, <2>2
<1>3. QED
  BY <1>1, <1>2, StaAssumption, BtmAssumption, BtmInvariant, PTL
  DEF BtmSpec, ImplementsAssociation, Assoc!AssocSpec

----------------------------------------------------------------------------
(* The rate limit. *)

\* Where the elements of a sequence are when its head is taken, an element added or removed.
LEMMA TailPlaces ==
  ASSUME NEW S, NEW s \in Seq(S), s # <<>>
  PROVE  /\ Len(s) \in Nat \ {0} /\ 1 \in 1..Len(s) /\ Head(s) = s[1]
         /\ \A i \in 1..Len(Tail(s)) : i \in Nat /\ i + 1 \in 1..Len(s) /\ Tail(s)[i] = s[i + 1]
<1>1. Len(s) \in Nat \ {0} /\ Len(Tail(s)) = Len(s) - 1 /\ Head(s) = s[1] OBVIOUS
<1>2. \A i \in 1..Len(Tail(s)) : Tail(s)[i] = s[i + 1] OBVIOUS
<1>3. QED BY <1>1, <1>2

LEMMA AppendPlaces ==
  ASSUME NEW S, NEW s \in Seq(S), NEW e \in S
  PROVE  /\ Len(s) \in Nat
         /\ \A i \in 1..Len(Append(s, e)) :
              \/ i \in 1..Len(s) /\ Append(s, e)[i] = s[i]
              \/ i = Len(s) + 1 /\ Append(s, e)[i] = e
<1>1. Len(s) \in Nat /\ Len(Append(s, e)) = Len(s) + 1 OBVIOUS
<1>2. \A i \in 1..Len(s) : Append(s, e)[i] = s[i] OBVIOUS
<1>3. Append(s, e)[Len(s) + 1] = e OBVIOUS
<1>4. QED BY <1>1, <1>2, <1>3

LEMMA RemovePlaces ==
  ASSUME NEW S, NEW s \in Seq(S), NEW i \in 1..Len(s)
  PROVE  \A j \in 1..Len(Remove(s, i)) :
           /\ j \in Nat
           /\ IF j < i THEN j \in 1..Len(s) /\ Remove(s, i)[j] = s[j]
                       ELSE j + 1 \in 1..Len(s) /\ Remove(s, i)[j] = s[j + 1]
<1> DEFINE f == SubSeq(s, 1, i - 1)
           g == SubSeq(s, i + 1, Len(s))
<1>1. Len(s) \in Nat /\ i \in Nat /\ 1 <= i /\ i <= Len(s) OBVIOUS
<1>2. /\ f \in Seq(S) /\ Len(f) = i - 1
      /\ \A j \in 1..i - 1 : f[j] = s[j]
  BY <1>1
<1>3. /\ g \in Seq(S) /\ Len(g) = Len(s) - i
      /\ \A j \in 1..Len(s) - i : g[j] = s[j + i]
  BY <1>1
<1> HIDE DEF f, g
<1>4. /\ Len(f \o g) = Len(s) - 1
      /\ \A j \in 1..Len(s) - 1 : (f \o g)[j] = IF j < i THEN f[j] ELSE g[j - (i - 1)]
  BY <1>1, <1>2, <1>3
<1>5. ASSUME NEW j \in 1..Len(s) - 1
      PROVE  IF j < i THEN (f \o g)[j] = s[j] ELSE (f \o g)[j] = s[j + 1]
  <2>1. CASE j < i
    <3>1. j \in 1..i - 1 BY <1>1, <2>1
    <3>2. QED BY <1>2, <1>4, <2>1, <3>1
  <2>2. CASE ~(j < i)
    <3>1. j - (i - 1) \in 1..Len(s) - i /\ (j - (i - 1)) + i = j + 1 BY <1>1, <2>2
    <3>2. QED BY <1>3, <1>4, <2>2, <3>1
  <2>3. QED BY <2>1, <2>2
<1>6. Remove(s, i) = f \o g BY DEF Remove, f, g
<1>7. QED BY <1>1, <1>4, <1>5, <1>6

\* What is scheduled names APs, and its time left is a number.
LEMMA ItemsTyped ==
  ASSUME answers \in Seq(Answer), steered \in Seq(Steer), BtmAssumption
  PROVE  /\ \A k \in 1..Len(answers) : answers[k].ap \in AP
         /\ \A k \in 1..Len(steered) : steered[k].ap \in AP /\ steered[k].left \in Int
<1>1. \A k \in 1..Len(answers) : answers[k] \in Answer OBVIOUS
<1>2. \A k \in 1..Len(steered) : steered[k] \in Steer OBVIOUS
<1>3. Timer(RoamDelay) \subseteq Int BY DEF Timer, Off, BtmAssumption
<1>4. QED BY <1>1, <1>2, <1>3 DEF Answer, Steer

\* The requests an AP has queued for the station.
Requests(a) == {i \in 1..Len(apQueue[a]) : apQueue[a][i].type = "btmReq"}

\* Of the requests of one AP at most one is under way, queued, answered or about to be
\* carried out, and while it is the AP's cooldown has not run off: it starts with the
\* request, which is received and answered within the tick.
QueuedOnce ==
  \A a \in AP : \A i \in Requests(a) :
    /\ cooldown[a] = RequestCooldown
    /\ \A j \in Requests(a) : j = i
    /\ \A k \in 1..Len(answers) : answers[k].ap # a
    /\ \A k \in 1..Len(steered) : steered[k].ap # a

AnsweredOnce ==
  \A k \in 1..Len(answers) :
    /\ cooldown[answers[k].ap] = RequestCooldown
    /\ \A l \in 1..Len(answers) : answers[l].ap = answers[k].ap => l = k
    /\ \A l \in 1..Len(steered) : steered[l].ap # answers[k].ap

SteeredOnce ==
  \A k \in 1..Len(steered) :
    /\ steered[k].left >= 0
    /\ cooldown[steered[k].ap] >= RequestCooldown - RoamDelay + steered[k].left
    /\ \A l \in 1..Len(steered) : steered[l].ap = steered[k].ap => l = k

EachOnce == QueuedOnce /\ AnsweredOnce /\ SteeredOnce

\* The APs whose cooldown runs.
Cooling == {a \in AP : cooldown[a] > 0}

RateInv == IsFiniteSet(Cooling) /\ (lost = 0 => EachOnce)

\* A step that only takes requests from the queues of the APs, or frames of other kinds.
LEMMA QueuesShrink ==
  ASSUME EachOnce, UNCHANGED <<cooldown, answers, steered>>,
         \A a \in AP : \E d \in Nat : \A i \in Requests(a)' : i + d \in Requests(a)
  PROVE  EachOnce'
<1>1. ASSUME NEW a \in AP, NEW i \in Requests(a)', NEW j \in Requests(a)' PROVE j = i
  <2>1. PICK d \in Nat : \A n \in Requests(a)' : n + d \in Requests(a) OBVIOUS
  <2>2. i + d = j + d BY <2>1 DEF EachOnce, QueuedOnce
  <2>3. i \in Int /\ j \in Int BY DEF Requests
  <2>4. QED BY <2>2, <2>3
<1>2. \A a \in AP : Requests(a)' # {} => Requests(a) # {} OBVIOUS
<1>3. QueuedOnce' BY <1>1, <1>2 DEF EachOnce, QueuedOnce
<1>4. QED BY <1>3 DEF EachOnce, AnsweredOnce, SteeredOnce

\* An AP transmits its oldest frame.
LEMMA ApTransmitsShrinks ==
  ASSUME StaTypeOK, NEW a \in AP, apQueue[a] # <<>>,
         apQueue' = [apQueue EXCEPT ![a] = Tail(@)]
  PROVE  \A b \in AP : \E d \in Nat : \A i \in Requests(b)' : i + d \in Requests(b)
<1> SUFFICES ASSUME NEW b \in AP
             PROVE  \E d \in Nat : \A i \in Requests(b)' : i + d \in Requests(b)
  OBVIOUS
<1>1. apQueue[a] \in Seq(ApFrame) /\ apQueue \in [AP -> Seq(ApFrame)] BY DEF StaTypeOK
<1>2. CASE b = a
  <2>1. apQueue'[b] = Tail(apQueue[a]) BY <1>1, <1>2
  <2>2. \A i \in Requests(b)' : i + 1 \in Requests(b)
    BY <1>1, <1>2, <2>1, TailPlaces DEF Requests
  <2>3. QED BY <2>2
<1>3. CASE b # a
  <2>1. Requests(b)' = Requests(b) BY <1>1, <1>3 DEF Requests
  <2>2. \A i \in Requests(b)' : i + 0 \in Requests(b) BY <2>1 DEF Requests
  <2>3. QED BY <2>2
<1>4. QED BY <1>2, <1>3

\* Steps that leave all of it alone.
LEMMA QuietRate ==
  ASSUME EachOnce, UNCHANGED <<apQueue, cooldown, answers, steered>>
  PROVE  EachOnce'
BY DEF EachOnce, QueuedOnce, AnsweredOnce, SteeredOnce, Requests

\* The station's own steps and calls: the APs' queues lose frames or gain responses.
LEMMA StaStepKeepsRate ==
  ASSUME StaTypeOK, EachOnce, StaStep \/ StaCall, UNCHANGED btmVars
  PROVE  EachOnce'
<1>1. UNCHANGED <<cooldown, answers, steered>> BY DEF btmVars
<1>2. ASSUME NEW a \in AP, ApTransmits(a) PROVE EachOnce'
  BY <1>1, <1>2, ApTransmitsShrinks, QueuesShrink DEF ApTransmits
<1>3. ASSUME NEW a \in AP, ApReceivesRequest(a) PROVE EachOnce'
  <2>1. PICK frame \in ApFrame : /\ apQueue' = [apQueue EXCEPT ![a] = Append(@, frame)]
                                 /\ frame.type # "btmReq"
    BY <1>3 DEF ApReceivesRequest, ApFrame
  <2>2. apQueue[a] \in Seq(ApFrame) /\ apQueue \in [AP -> Seq(ApFrame)] BY DEF StaTypeOK
  <2>3. ASSUME NEW b \in AP, NEW i \in Requests(b)' PROVE i + 0 \in Requests(b)
    <3>1. i \in Int BY DEF Requests
    <3>2. CASE b = a
      <4>1. apQueue'[b] = Append(apQueue[a], frame) BY <2>1, <2>2, <3>2
      <4>2. i \in 1..Len(apQueue[a]) /\ apQueue'[b][i] = apQueue[a][i]
        BY <2>1, <2>2, <4>1, AppendPlaces DEF Requests
      <4>3. QED BY <3>1, <3>2, <4>2 DEF Requests
    <3>3. CASE b # a
      BY <2>1, <2>2, <3>1, <3>3 DEF Requests
    <3>4. QED BY <3>2, <3>3
  <2>4. QED BY <1>1, <2>3, QueuesShrink
<1>4. CASE UNCHANGED apQueue BY <1>1, <1>4, QuietRate
<1>5. ASSUME NEW a \in AP, \/ NotifyApInfo(a) \/ ScanningTimeout(a)
                           \/ ApReceivesDisassociation(a)
                           \/ CallInitiateRoaming(a) \/ CallAssociateToAp(a) \/ CallReconnect(a)
      PROVE  UNCHANGED apQueue
  BY <1>5 DEF NotifyApInfo, ScanningTimeout, ApReceivesDisassociation, CallInitiateRoaming,
              CallAssociateToAp, CallReconnect
<1>6. ASSUME NEW i \in 1..Len(roams), DoInitiateRoaming(i) \/ DoInitiateRoamingBusy(i)
      PROVE  UNCHANGED apQueue
  BY <1>6 DEF DoInitiateRoaming, DoInitiateRoamingBusy
<1>7. CASE \/ AssocRequestTimeout \/ MissedBeacons \/ DisassociatedEvent
           \/ NotifyChannelSwitching \/ StaFrameLost \/ LoseBeacons \/ ForcedDisassociate
           \/ \E enable \in BOOLEAN : EnableAutoReconnect(enable)
  BY <1>4, <1>7 DEF AssocRequestTimeout, MissedBeacons, DisassociatedEvent,
                    NotifyChannelSwitching, StaFrameLost, LoseBeacons, ForcedDisassociate,
                    EnableAutoReconnect
<1>8. ASSUME NEW a \in AP, ReceiveAssocResp(a) \/ ReceiveRefusal(a) \/ ApFrameLost(a)
      PROVE  EachOnce'
  BY <1>2, <1>8 DEF ReceiveAssocResp, ReceiveRefusal, ApFrameLost
<1>9. QED BY <1>3, <1>4, <1>5, <1>6, <1>7, <1>8 DEF StaStep, StaCall

\* A request: its AP's cooldown had run off, so nothing of it was under way.
LEMMA RequestKeepsRate ==
  ASSUME BtmInv, EachOnce, RoamDelay < RequestCooldown,
         NEW a \in AP, NEW target \in AP, SendDynamicBssTmRequest(a, target)
  PROVE  EachOnce'
<1>1. /\ apQueue \in [AP -> Seq(ApFrame)] /\ cooldown \in [AP -> 0..RequestCooldown]
      /\ answers \in Seq(Answer) /\ steered \in Seq(Steer)
      /\ RequestCooldown \in Nat /\ RoamDelay \in Nat
  BY BtmAssumption DEF BtmInv, BtmTypeOK, StaTypeOK, BtmAssumption
<1> DEFINE frame == [type |-> "btmReq", target |-> target]
<1>2. /\ frame \in ApFrame /\ cooldown[a] = 0
      /\ cooldown' = [cooldown EXCEPT ![a] = RequestCooldown]
      /\ apQueue' = [apQueue EXCEPT ![a] = Append(@, frame)]
      /\ UNCHANGED <<answers, steered>>
  BY DEF SendDynamicBssTmRequest, MayRequest, ApFrame
<1> HIDE DEF frame
<1>3. /\ Requests(a) = {}
      /\ \A k \in 1..Len(answers) : answers[k].ap # a
      /\ \A k \in 1..Len(steered) : steered[k].ap # a
  <2>1. \A k \in 1..Len(steered) : steered[k].left \in Int
    BY <1>1, BtmAssumption, ItemsTyped
  <2>2. RequestCooldown > 0 /\ \A n \in Nat : RequestCooldown - RoamDelay + n > 0
    BY <1>1
  <2>3. \A k \in 1..Len(steered) : steered[k].left >= 0 => steered[k].left \in Nat
    BY <2>1
  <2>4. Requests(a) = {} /\ \A k \in 1..Len(answers) : answers[k].ap # a
    BY <1>2, <2>2 DEF EachOnce, QueuedOnce, AnsweredOnce
  <2>5. ASSUME NEW k \in 1..Len(steered), steered[k].ap = a PROVE FALSE
    <3>1. steered[k].left \in Nat /\ 0 >= RequestCooldown - RoamDelay + steered[k].left
      BY <1>2, <2>3, <2>5 DEF EachOnce, SteeredOnce
    <3>2. RequestCooldown - RoamDelay + steered[k].left > 0 BY <2>2, <3>1
    <3>3. QED BY <1>1, <3>1, <3>2
  <2>6. QED BY <2>4, <2>5
<1>4. ASSUME NEW i \in Requests(a)' PROVE i = Len(apQueue[a]) + 1
  <2>1. apQueue'[a] = Append(apQueue[a], frame) /\ apQueue[a] \in Seq(ApFrame) BY <1>1, <1>2
  <2>2. \/ i \in 1..Len(apQueue[a]) /\ apQueue'[a][i] = apQueue[a][i]
        \/ i = Len(apQueue[a]) + 1
    BY <1>2, <2>1, AppendPlaces DEF Requests
  <2>3. ~(i \in 1..Len(apQueue[a]) /\ apQueue'[a][i] = apQueue[a][i])
    BY <1>3 DEF Requests
  <2>4. QED BY <2>2, <2>3
<1>5. \A b \in AP : b # a => Requests(b)' = Requests(b) /\ cooldown'[b] = cooldown[b]
  BY <1>1, <1>2 DEF Requests
<1>6. cooldown'[a] = RequestCooldown BY <1>1, <1>2
<1>7. QueuedOnce'
  BY <1>2, <1>3, <1>4, <1>5, <1>6 DEF EachOnce, QueuedOnce
<1>8. /\ \A k \in 1..Len(answers) : answers[k].ap \in AP
      /\ \A k \in 1..Len(steered) : steered[k].ap \in AP
  BY <1>1, BtmAssumption, ItemsTyped
<1>9. AnsweredOnce' /\ SteeredOnce'
  BY <1>2, <1>3, <1>5, <1>8 DEF EachOnce, AnsweredOnce, SteeredOnce
<1>10. QED BY <1>7, <1>9 DEF EachOnce

\* The request received: what was queued is answered, unless it comes from another AP
\* than the one last joined.
LEMMA ReceiveKeepsRate ==
  ASSUME BtmInv, EachOnce, NEW a \in AP, ReceiveBtmRequest(a)
  PROVE  EachOnce'
<1>1. /\ apQueue \in [AP -> Seq(ApFrame)] /\ answers \in Seq(Answer) /\ steered \in Seq(Steer)
      /\ StaTypeOK
  BY DEF BtmInv, BtmTypeOK, StaTypeOK
<1>2. /\ apQueue[a] # <<>> /\ apQueue' = [apQueue EXCEPT ![a] = Tail(@)]
      /\ Head(apQueue[a]).type = "btmReq" /\ Accept(a)
      /\ UNCHANGED <<cooldown, steered>>
  BY DEF ReceiveBtmRequest, ApTransmits
<1>3. apQueue[a] \in Seq(ApFrame) BY <1>1
<1>4. 1 \in Requests(a) BY <1>2, <1>3, TailPlaces DEF Requests
<1>5. Requests(a)' = {}
  <2>1. apQueue'[a] = Tail(apQueue[a]) BY <1>1, <1>2
  <2>2. ASSUME NEW i \in Requests(a)' PROVE FALSE
    <3>1. i \in 1..Len(Tail(apQueue[a])) /\ Tail(apQueue[a])[i].type = "btmReq"
      BY <2>1 DEF Requests
    <3>2. i \in Nat /\ i + 1 \in Requests(a)
      BY <1>2, <1>3, <3>1, TailPlaces DEF Requests
    <3>3. i + 1 = 1 /\ i # 0 BY <1>4, <3>1, <3>2 DEF EachOnce, QueuedOnce
    <3>4. QED BY <3>2, <3>3
  <2>3. QED BY <2>2
<1>6. \A b \in AP : b # a => Requests(b)' = Requests(b)
  BY <1>1, <1>2 DEF Requests
<1>7. /\ cooldown[a] = RequestCooldown
      /\ \A k \in 1..Len(answers) : answers[k].ap # a
      /\ \A k \in 1..Len(steered) : steered[k].ap # a
  BY <1>4 DEF EachOnce, QueuedOnce
<1>8. CASE answers' = answers
  BY <1>2, <1>5, <1>6, <1>8 DEF EachOnce, QueuedOnce, AnsweredOnce, SteeredOnce
<1>9. CASE ~(answers' = answers)
  <2> DEFINE new == [ap |-> a, target |-> Head(apQueue[a]).target]
  <2>1. Head(apQueue[a]).target \in AP
    <3>1. Head(apQueue[a]) \in ApFrame BY <1>2, <1>3
    <3>2. QED BY <1>2, <3>1 DEF ApFrame
  <2>2. new \in Answer /\ new.ap = a BY <2>1 DEF Answer
  <2>3. answers' = Append(answers, new) BY <1>2, <1>9 DEF Accept
  <2> HIDE DEF new
  <2>4. /\ Len(answers) \in Nat
        /\ \A k \in 1..Len(answers') : \/ k \in 1..Len(answers) /\ answers'[k] = answers[k]
                                       \/ k = Len(answers) + 1 /\ answers'[k] = new
    BY <1>1, <2>2, <2>3, AppendPlaces
  <2>5. \A k \in 1..Len(answers') : k = Len(answers) + 1 <=> answers'[k].ap = a
    BY <1>7, <2>2, <2>4
  <2>6. AnsweredOnce'
    <3> SUFFICES ASSUME NEW k \in 1..Len(answers')
                 PROVE  /\ cooldown'[answers'[k].ap] = RequestCooldown
                        /\ \A l \in 1..Len(answers') : answers'[l].ap = answers'[k].ap => l = k
                        /\ \A l \in 1..Len(steered') : steered'[l].ap # answers'[k].ap
      BY DEF AnsweredOnce
    <3>1. CASE k = Len(answers) + 1
      BY <1>2, <1>7, <2>5, <3>1
    <3>2. CASE k \in 1..Len(answers) /\ answers'[k] = answers[k]
      BY <1>2, <2>2, <2>4, <3>2, <1>7 DEF EachOnce, AnsweredOnce
    <3>3. QED BY <2>4, <3>1, <3>2
  <2>7. QueuedOnce'
    BY <1>2, <1>5, <1>6, <2>2, <2>4 DEF EachOnce, QueuedOnce
  <2>8. SteeredOnce' BY <1>2 DEF EachOnce, SteeredOnce
  <2>9. QED BY <2>6, <2>7, <2>8 DEF EachOnce
<1>10. QED BY <1>8, <1>9

\* The response: what was answered becomes a roam, RoamDelay ticks away.
LEMMA ResponseKeepsRate ==
  ASSUME BtmInv, EachOnce, SendDynamicBssTmResponse
  PROVE  EachOnce'
<1>1. /\ answers \in Seq(Answer) /\ steered \in Seq(Steer)
      /\ RoamDelay \in Nat /\ RequestCooldown \in Nat
  BY BtmAssumption DEF BtmInv, BtmTypeOK, BtmAssumption
<1>2. answers # <<>> /\ answers' = Tail(answers) /\ UNCHANGED <<apQueue, cooldown>>
  BY DEF SendDynamicBssTmResponse
<1> DEFINE new == [ap |-> Head(answers).ap, target |-> Head(answers).target, left |-> RoamDelay]
<1>3. Head(answers) \in Answer /\ Head(answers) = answers[1] /\ 1 \in 1..Len(answers)
  BY <1>1, <1>2, TailPlaces
<1>4. new \in Steer /\ new.ap = answers[1].ap /\ new.left = RoamDelay
  BY <1>1, <1>3 DEF Steer, Answer, Timer, Off
<1>5. steered' = Append(steered, new) BY DEF SendDynamicBssTmResponse
<1> HIDE DEF new
<1>6. \A k \in 1..Len(answers') : k \in Nat /\ k + 1 \in 1..Len(answers) /\ answers'[k] = answers[k + 1]
  BY <1>1, <1>2, TailPlaces
<1>7. /\ Len(steered) \in Nat
      /\ \A k \in 1..Len(steered') : \/ k \in 1..Len(steered) /\ steered'[k] = steered[k]
                                     \/ k = Len(steered) + 1 /\ steered'[k] = new
  BY <1>1, <1>4, <1>5, AppendPlaces
<1>8. /\ cooldown[answers[1].ap] = RequestCooldown
      /\ \A k \in 1..Len(steered) : steered[k].ap # answers[1].ap
      /\ \A k \in 1..Len(answers') : answers'[k].ap # answers[1].ap
  <2>1. \A k \in 1..Len(answers') : k \in Nat /\ k # 0 BY <1>6
  <2>2. \A k \in Nat : k + 1 = 1 => k = 0 OBVIOUS
  <2>3. QED BY <1>3, <1>6, <2>1, <2>2 DEF EachOnce, AnsweredOnce
<1>9. QueuedOnce'
  <2>1. \A b \in AP : Requests(b)' = Requests(b) BY <1>2 DEF Requests
  <2>2. \A b \in AP : Requests(b) # {} => answers[1].ap # b
    BY <1>3 DEF EachOnce, QueuedOnce
  <2>3. QED BY <1>2, <1>4, <1>6, <1>7, <2>1, <2>2 DEF EachOnce, QueuedOnce
<1>10. AnsweredOnce'
  <2> SUFFICES ASSUME NEW k \in 1..Len(answers')
               PROVE  /\ cooldown'[answers'[k].ap] = RequestCooldown
                      /\ \A l \in 1..Len(answers') : answers'[l].ap = answers'[k].ap => l = k
                      /\ \A l \in 1..Len(steered') : steered'[l].ap # answers'[k].ap
    BY DEF AnsweredOnce
  <2>1. cooldown'[answers'[k].ap] = RequestCooldown
    BY <1>2, <1>6 DEF EachOnce, AnsweredOnce
  <2>2. ASSUME NEW l \in 1..Len(answers'), answers'[l].ap = answers'[k].ap PROVE l = k
    <3>1. l + 1 = k + 1 BY <1>6, <2>2 DEF EachOnce, AnsweredOnce
    <3>2. QED BY <1>6, <3>1
  <2>3. \A l \in 1..Len(steered') : steered'[l].ap # answers'[k].ap
    <3>1. \A l \in 1..Len(steered) : steered[l].ap # answers'[k].ap
      BY <1>6 DEF EachOnce, AnsweredOnce
    <3>2. new.ap # answers'[k].ap BY <1>4, <1>8
    <3>3. QED BY <1>7, <3>1, <3>2
  <2>4. QED BY <2>1, <2>2, <2>3
<1>11. SteeredOnce'
  <2> SUFFICES ASSUME NEW k \in 1..Len(steered')
               PROVE  /\ steered'[k].left >= 0
                      /\ cooldown'[steered'[k].ap] >= RequestCooldown - RoamDelay + steered'[k].left
                      /\ \A l \in 1..Len(steered') : steered'[l].ap = steered'[k].ap => l = k
    BY DEF SteeredOnce
  <2>1. CASE k = Len(steered) + 1 /\ steered'[k] = new
    <3>1. new.left >= 0 /\ RequestCooldown >= RequestCooldown - RoamDelay + new.left
      BY <1>1, <1>4
    <3>2. cooldown'[new.ap] = RequestCooldown BY <1>2, <1>4, <1>8
    <3>3. \A l \in 1..Len(steered') : steered'[l].ap = new.ap => l = k
      BY <1>4, <1>7, <1>8, <2>1
    <3>4. QED BY <2>1, <3>1, <3>2, <3>3
  <2>2. CASE k \in 1..Len(steered) /\ steered'[k] = steered[k]
    BY <1>2, <1>4, <1>7, <1>8, <2>2 DEF EachOnce, SteeredOnce
  <2>3. QED BY <1>7, <2>1, <2>2
<1>12. QED BY <1>9, <1>10, <1>11 DEF EachOnce

\* The roam: it is scheduled no longer.
LEMMA RoamKeepsRate ==
  ASSUME BtmInv, EachOnce, NEW i \in 1..Len(steered), SteeredRoam(i)
  PROVE  EachOnce'
<1>1. steered \in Seq(Steer) /\ i \in Int BY DEF BtmInv, BtmTypeOK
<1>2. steered' = Remove(steered, i) /\ UNCHANGED <<apQueue, cooldown, answers>>
  BY DEF SteeredRoam
<1> DEFINE at(j) == IF j < i THEN j ELSE j + 1
<1>3. \A j \in 1..Len(steered') : j \in Nat /\ at(j) \in 1..Len(steered) /\ steered'[j] = steered[at(j)]
  BY <1>1, <1>2, RemovePlaces
<1>4. \A j, k \in Nat : at(j) = at(k) => j = k BY <1>1
<1> HIDE DEF at
<1>5. QueuedOnce'
  <2>1. \A b \in AP : Requests(b)' = Requests(b) BY <1>2 DEF Requests
  <2>2. QED BY <1>2, <1>3, <2>1 DEF EachOnce, QueuedOnce
<1>6. AnsweredOnce' BY <1>2, <1>3 DEF EachOnce, AnsweredOnce
<1>7. SteeredOnce'
  <2> SUFFICES ASSUME NEW k \in 1..Len(steered')
               PROVE  /\ steered'[k].left >= 0
                      /\ cooldown'[steered'[k].ap] >= RequestCooldown - RoamDelay + steered'[k].left
                      /\ \A l \in 1..Len(steered') : steered'[l].ap = steered'[k].ap => l = k
    BY DEF SteeredOnce
  <2>1. steered'[k].left >= 0 /\ cooldown'[steered'[k].ap] >= RequestCooldown - RoamDelay + steered'[k].left
    BY <1>2, <1>3 DEF EachOnce, SteeredOnce
  <2>2. ASSUME NEW l \in 1..Len(steered'), steered'[l].ap = steered'[k].ap PROVE l = k
    <3>1. at(l) = at(k) BY <1>3, <2>2 DEF EachOnce, SteeredOnce
    <3>2. QED BY <1>3, <1>4, <3>1
  <2>3. QED BY <2>1, <2>2
<1>8. QED BY <1>5, <1>6, <1>7 DEF EachOnce

\* The clock: it moves when all requests are received and answered and no roam is due.
LEMMA TickKeepsRate ==
  ASSUME BtmInv, EachOnce, BtmTick, Backlog = 0, RoamDelay < RequestCooldown
  PROVE  EachOnce'
<1>1. /\ steered \in Seq(Steer) /\ cooldown \in [AP -> 0..RequestCooldown]
      /\ apQueue \in [AP -> Seq(ApFrame)] /\ answers \in Seq(Answer)
      /\ RoamDelay \in Nat /\ RequestCooldown \in Nat
  BY BtmAssumption DEF BtmInv, BtmTypeOK, StaTypeOK, BtmAssumption
<1>2. /\ answers = <<>> /\ UNCHANGED <<apQueue, answers>>
      /\ \A a \in AP : Len(apQueue[a]) <= 0
      /\ \A k \in 1..Len(steered) : steered[k].left # 0
      /\ cooldown' = [a \in AP |-> CountDown(cooldown[a])]
      /\ steered' = [k \in 1..Len(steered) |-> [steered[k] EXCEPT !.left = CountDown(@)]]
  BY DEF BtmTick
<1>3. \A a \in AP : Requests(a)' = {}
  <2>1. \A a \in AP : Len(apQueue[a]) = 0
    <3>1. \A a \in AP : Len(apQueue[a]) \in Nat BY <1>1
    <3>2. QED BY <1>2, <3>1
  <2>2. QED BY <1>2, <2>1 DEF Requests
<1>4. QueuedOnce' /\ AnsweredOnce' BY <1>2, <1>3 DEF QueuedOnce, AnsweredOnce
<1>5. /\ Len(steered') = Len(steered)
      /\ \A k \in 1..Len(steered) : /\ steered[k].ap \in AP /\ steered[k].left \in Int
                                    /\ steered'[k].ap = steered[k].ap
                                    /\ steered'[k].left = CountDown(steered[k].left)
  <2>1. Len(steered) \in Nat /\ \A k \in 1..Len(steered) : steered[k] \in Steer BY <1>1
  <2>2. Len(steered') = Len(steered) BY <1>2, <2>1
  <2>3. \A k \in 1..Len(steered) : steered'[k] = [steered[k] EXCEPT !.left = CountDown(@)]
    BY <1>2
  <2>4. \A s \in Steer : /\ [s EXCEPT !.left = CountDown(@)].ap = s.ap
                         /\ [s EXCEPT !.left = CountDown(@)].left = CountDown(s.left)
    BY DEF Steer
  <2>5. QED BY <1>1, <2>1, <2>2, <2>3, <2>4, BtmAssumption, ItemsTyped
<1>6. SteeredOnce'
  <2> SUFFICES ASSUME NEW k \in 1..Len(steered)
               PROVE  /\ steered'[k].left >= 0
                      /\ cooldown'[steered[k].ap] >= RequestCooldown - RoamDelay + steered'[k].left
                      /\ \A l \in 1..Len(steered) : steered[l].ap = steered[k].ap => l = k
    BY <1>5 DEF SteeredOnce
  <2>1. /\ steered[k].left >= 0
        /\ cooldown[steered[k].ap] >= RequestCooldown - RoamDelay + steered[k].left
        /\ \A l \in 1..Len(steered) : steered[l].ap = steered[k].ap => l = k
    BY DEF EachOnce, SteeredOnce
  <2>2. /\ steered[k].left > 0 /\ steered[k].left \in Int
        /\ cooldown[steered[k].ap] \in Nat /\ cooldown[steered[k].ap] > 0
    <3>1. steered[k].left > 0 /\ steered[k].left \in Int BY <1>2, <1>5, <2>1
    <3>2. cooldown[steered[k].ap] \in 0..RequestCooldown BY <1>1, <1>5
    <3>3. QED BY <1>1, <2>1, <3>1, <3>2
  <2>3. /\ steered'[k].left = steered[k].left - 1
        /\ cooldown'[steered[k].ap] = cooldown[steered[k].ap] - 1
    BY <1>2, <1>5, <2>2 DEF CountDown
  <2>4. QED BY <1>1, <2>1, <2>2, <2>3
<1>7. QED BY <1>4, <1>6 DEF EachOnce

\* The APs whose cooldown runs stay finitely many: one is added at a time.
LEMMA CoolingFinite ==
  ASSUME BtmInv, IsFiniteSet(Cooling), BtmNext
  PROVE  IsFiniteSet(Cooling')
<1>1. cooldown \in [AP -> 0..RequestCooldown] /\ RequestCooldown \in Nat
  BY BtmAssumption DEF BtmInv, BtmTypeOK, BtmAssumption
<1>2. ASSUME NEW a \in AP, NEW target \in AP, SendDynamicBssTmRequest(a, target)
      PROVE  IsFiniteSet(Cooling')
  <2>1. Cooling' \subseteq Cooling \cup {a}
    BY <1>1, <1>2 DEF SendDynamicBssTmRequest, Cooling
  <2>2. IsFiniteSet(Cooling \cup {a}) BY FS_AddElement
  <2>3. QED BY <2>1, <2>2, FS_Subset
<1>3. CASE BtmTick
  <2>1. Cooling' \subseteq Cooling
    <3>1. \A a \in AP : cooldown'[a] = CountDown(cooldown[a]) BY <1>3 DEF BtmTick
    <3>2. \A a \in AP : CountDown(cooldown[a]) > 0 => cooldown[a] > 0 BY <1>1 DEF CountDown
    <3>3. QED BY <3>1, <3>2 DEF Cooling
  <2>2. QED BY <2>1, FS_Subset
<1>4. CASE UNCHANGED cooldown BY <1>4 DEF Cooling
<1>5. ASSUME NEW a \in AP, \/ CleanUp(a) \/ ApReceivesResponse(a)
                           \/ ReceiveBtmRequest(a) \/ ReceiveBtmRequestUnacked(a)
      PROVE  UNCHANGED cooldown
  BY <1>5 DEF CleanUp, ApReceivesResponse, ReceiveBtmRequest, ReceiveBtmRequestUnacked, btmVars
<1>6. ASSUME SendDynamicBssTmResponse \/ \E i \in 1..Len(steered) : SteeredRoam(i)
      PROVE  UNCHANGED cooldown
  BY <1>6 DEF SendDynamicBssTmResponse, SteeredRoam
<1>7. QED BY <1>2, <1>3, <1>4, <1>5, <1>6 DEF BtmNext, BtmStep, btmVars

\* No frame that got lost is found again.
LEMMA LostStays ==
  ASSUME BtmInv, BtmNext, lost' = 0
  PROVE  lost = 0 /\ \A a \in AP : ~ReceiveBtmRequestUnacked(a)
<1>1. lost \in Nat BY DEF BtmInv, BtmTypeOK, StaTypeOK
<1>2. \A a \in AP : ~ReceiveBtmRequestUnacked(a) BY <1>1 DEF ReceiveBtmRequestUnacked
<1>3. CASE StaStep
  <2>1. ASSUME NEW a \in AP, \/ NotifyApInfo(a) \/ ScanningTimeout(a)
                             \/ ApReceivesRequest(a) \/ ApReceivesDisassociation(a)
                             \/ ReceiveAssocResp(a) \/ ReceiveRefusal(a)
        PROVE  UNCHANGED lost
    BY <2>1 DEF NotifyApInfo, ScanningTimeout, ApReceivesRequest, ApReceivesDisassociation,
                ReceiveAssocResp, ReceiveRefusal, counters
  <2>2. ASSUME NEW i \in 1..Len(roams), DoInitiateRoaming(i) \/ DoInitiateRoamingBusy(i)
        PROVE  UNCHANGED lost
    BY <2>2 DEF DoInitiateRoaming, DoInitiateRoamingBusy, counters
  <2>3. AssocRequestTimeout \/ MissedBeacons \/ DisassociatedEvent \/ NotifyChannelSwitching
          \/ LoseBeacons => UNCHANGED lost
    BY DEF AssocRequestTimeout, MissedBeacons, DisassociatedEvent, NotifyChannelSwitching,
           LoseBeacons, counters
  <2>4. \A a \in AP : ApFrameLost(a) => Lost(a) BY DEF ApFrameLost
  <2>5. StaFrameLost => Lost(StaHead.ap) BY DEF StaFrameLost
  <2>6. \A a : Lost(a) => lost = 0 BY <1>1 DEF Lost
  <2>7. QED BY <1>2, <1>3, <2>1, <2>2, <2>3, <2>4, <2>5, <2>6 DEF StaStep
<1>4. CASE StaCall
  BY <1>2, <1>4 DEF StaCall, CallInitiateRoaming, CallAssociateToAp, CallReconnect,
                    EnableAutoReconnect, ForcedDisassociate
<1>5. CASE BtmStep
  <2>1. ASSUME NEW a \in AP, NEW target \in AP, SendDynamicBssTmRequest(a, target)
        PROVE  UNCHANGED lost
    BY <2>1 DEF SendDynamicBssTmRequest, counters
  <2>2. ASSUME NEW a \in AP, CleanUp(a) \/ ApReceivesResponse(a) \/ ReceiveBtmRequest(a)
        PROVE  UNCHANGED lost
    BY <2>2 DEF CleanUp, ApReceivesResponse, ReceiveBtmRequest, counters
  <2>3. SendDynamicBssTmResponse => UNCHANGED lost BY DEF SendDynamicBssTmResponse, counters
  <2>4. ASSUME NEW i \in 1..Len(steered), SteeredRoam(i) PROVE UNCHANGED lost
    BY <2>4 DEF SteeredRoam, counters
  <2>5. QED BY <1>2, <1>5, <2>1, <2>2, <2>3, <2>4 DEF BtmStep
<1>6. CASE BtmTick BY <1>2, <1>6 DEF BtmTick, counters
<1>7. QED BY <1>3, <1>4, <1>5, <1>6 DEF BtmNext

\* Every step keeps the limit.
LEMMA NextKeepsRate ==
  ASSUME BtmInv, RateInv, BtmNext, Backlog = 0, RoamDelay < RequestCooldown
  PROVE  RateInv'
<1>1. IsFiniteSet(Cooling') BY CoolingFinite DEF RateInv
<1>2. ASSUME lost' = 0 PROVE EachOnce'
  <2>1. EachOnce /\ \A a \in AP : ~ReceiveBtmRequestUnacked(a)
    BY <1>2, LostStays DEF RateInv
  <2>2. StaTypeOK BY DEF BtmInv, BtmTypeOK
  <2>3. ASSUME NEW a \in AP, CleanUp(a) \/ ApReceivesResponse(a) PROVE EachOnce'
    BY <2>1, <2>3, QuietRate DEF CleanUp, ApReceivesResponse, btmVars
  <2>4. QED
    BY <2>1, <2>2, <2>3, StaStepKeepsRate, RequestKeepsRate, ReceiveKeepsRate,
       ResponseKeepsRate, RoamKeepsRate, TickKeepsRate DEF BtmNext, BtmStep
<1>3. QED BY <1>1, <1>2 DEF RateInv

\* An interval from one holds as many numbers as its end says.
LEMMA CountUpTo == ASSUME NEW k \in Nat PROVE Cardinality(1..k) = k
<1>1. Cardinality(1..k) = IF 1 > k THEN 0 ELSE k - 1 + 1 BY FS_Interval
<1>2. QED BY <1>1

\* What is under way is counted by the APs it comes from.
LEMMA OneEach ==
  ASSUME BtmInv, RateInv, RoamDelay < RequestCooldown
  PROVE  SteersAreRateLimited
<1> SUFFICES ASSUME lost = 0
             PROVE  Len(answers) + Len(steered) <= Cardinality({a \in AP : cooldown[a] > 0})
  BY DEF SteersAreRateLimited
<1> DEFINE n == Len(answers)
           m == Len(steered)
           from == [i \in 1..n + m |-> IF i <= n THEN answers[i].ap ELSE steered[i - n].ap]
<1>1. /\ n \in Nat /\ m \in Nat /\ RequestCooldown \in Nat /\ RoamDelay \in Nat
      /\ cooldown \in [AP -> 0..RequestCooldown]
      /\ \A k \in 1..n : answers[k].ap \in AP
      /\ \A k \in 1..m : steered[k].ap \in AP /\ steered[k].left \in Int
  BY BtmAssumption, ItemsTyped DEF BtmInv, BtmTypeOK, BtmAssumption
<1>2. EachOnce /\ IsFiniteSet(Cooling) BY DEF RateInv
<1>3. \A k \in 1..n : answers[k].ap \in Cooling
  BY <1>1, <1>2 DEF EachOnce, AnsweredOnce, Cooling
<1>4. \A k \in 1..m : steered[k].ap \in Cooling
  <2> SUFFICES ASSUME NEW k \in 1..m PROVE steered[k].ap \in Cooling
    OBVIOUS
  <2>1. /\ steered[k].left >= 0 /\ steered[k].left \in Int
        /\ cooldown[steered[k].ap] >= RequestCooldown - RoamDelay + steered[k].left
    BY <1>1, <1>2 DEF EachOnce, SteeredOnce
  <2>2. cooldown[steered[k].ap] \in 0..RequestCooldown /\ steered[k].ap \in AP BY <1>1
  <2>3. cooldown[steered[k].ap] > 0 BY <1>1, <2>1, <2>2
  <2>4. QED BY <2>2, <2>3 DEF Cooling
<1>5. /\ \A k, l \in 1..n : answers[k].ap = answers[l].ap => k = l
      /\ \A k, l \in 1..m : steered[k].ap = steered[l].ap => k = l
      /\ \A k \in 1..n, l \in 1..m : answers[k].ap # steered[l].ap
  BY <1>2 DEF EachOnce, AnsweredOnce, SteeredOnce
<1> HIDE DEF n, m
<1>6. \A i \in 1..n + m : IF i <= n THEN i \in 1..n ELSE i - n \in 1..m
  BY <1>1
<1>7. from \in [1..n + m -> Cooling] BY <1>3, <1>4, <1>6
<1>8. ASSUME NEW i \in 1..n + m, NEW j \in 1..n + m, from[i] = from[j] PROVE i = j
  <2>1. CASE i <= n /\ j <= n BY <1>5, <1>6, <1>8, <2>1
  <2>2. CASE ~(i <= n) /\ ~(j <= n)
    <3>1. i - n = j - n BY <1>5, <1>6, <1>8, <2>2
    <3>2. QED BY <1>1, <3>1
  <2>3. CASE i <= n /\ ~(j <= n) BY <1>5, <1>6, <1>8, <2>3
  <2>4. CASE ~(i <= n) /\ j <= n BY <1>5, <1>6, <1>8, <2>4
  <2>5. QED BY <2>1, <2>2, <2>3, <2>4
<1>9. from \in Injection(1..n + m, Cooling)
  BY <1>7, <1>8 DEF Injection, IsInjective
<1>10. Cardinality(1..n + m) = n + m
  <2>1. n + m \in Nat BY <1>1
  <2>2. QED BY <2>1, CountUpTo
<1>11. Cardinality(1..n + m) <= Cardinality(Cooling)
  BY <1>2, <1>9, FS_Injection
<1>12. QED BY <1>10, <1>11 DEF Cooling, n, m

\* The rate limit that every AP applies to its own requests bounds what the station has
\* under way, whatever else moves it meanwhile, for any number of APs: no more responses and
\* roams are scheduled than there are APs whose cooldown runs, as long as no acknowledgement
\* is lost.  It takes two facts of the configuration: a request and its response do not wait
\* in a queue for longer than a tick, and the cooldown is longer than the roam's delay.
THEOREM SteeringIsRateLimited ==
  ASSUME Backlog = 0, RoamDelay < RequestCooldown
  PROVE  BtmSpec => []SteersAreRateLimited
<1>1. BtmInit => RateInv
  <2> SUFFICES ASSUME BtmInit PROVE RateInv
    OBVIOUS
  <2>1. Cooling = {} BY DEF BtmInit, Cooling
  <2>2. \A a \in AP : Requests(a) = {} BY DEF BtmInit, StaInit, Requests
  <2>3. EachOnce BY <2>2 DEF BtmInit, EachOnce, QueuedOnce, AnsweredOnce, SteeredOnce
  <2>4. QED BY <2>1, <2>3, FS_EmptySet DEF RateInv
<1>2. BtmInv /\ RateInv /\ [BtmNext]_allVars => RateInv'
  <2>1. ASSUME RateInv, UNCHANGED allVars PROVE RateInv'
    <3>1. UNCHANGED <<lost, apQueue, cooldown, answers, steered>>
      BY <2>1 DEF allVars, staVars, btmVars, counters
    <3>2. QED BY <2>1, <3>1, QuietRate DEF RateInv, Cooling
  <2>2. QED BY <2>1, NextKeepsRate
<1>3. BtmInv /\ RateInv => SteersAreRateLimited BY OneEach
<1>4. QED BY <1>1, <1>2, <1>3, StaAssumption, BtmAssumption, BtmInvariant, PTL DEF BtmSpec
=============================================================================
