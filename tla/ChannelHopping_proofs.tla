------------------------ MODULE ChannelHopping_proofs ------------------------
(***************************************************************************)
(* Proofs about ChannelHopping, for any access points, delays and bounds:   *)
(* what the manager believes of the association is so, whichever of the     *)
(* MAC's ways in and out of it was taken.                                  *)
(***************************************************************************)
EXTENDS ChannelHopping, StaWifiMac_proofs

\* A request sent, a roam begun or the MAC's return to scanning leaves the station
\* without an association.
LEMMA NotAssociatedAfter ==
  /\ \A a : Associate(a) => ~Associated'
  /\ Disassociated => ~Associated'
  BY DEF Associate, SendAssociationRequest, Disassociated, Associated

\* A recovery does not associate the station.
LEMMA ReconnectAssociatesNone ==
  ASSUME NEW a, Reconnect(a)
  PROVE  Associated' => Associated
  BY NotAssociatedAfter DEF Reconnect, Associated

\* Nothing the manager does not hear of associates the station.
LEMMA UnheardAssociatesNone ==
  ASSUME StaUnheard
  PROVE  Associated' => Associated
  <1>1. ASSUME NEW a \in AP, NotifyApInfo(a) \/ ApReceivesRequest(a) \/ ApReceivesDisassociation(a)
                               \/ ApFrameLost(a) \/ ReceiveRefusal(a)
        PROVE  Associated' => Associated
    BY <1>1 DEF NotifyApInfo, ApReceivesRequest, ApReceivesDisassociation, ApFrameLost,
                ReceiveRefusal, Associated
  <1>2. ASSUME NEW a \in AP, ScanningTimeout(a) PROVE Associated' => Associated
    BY <1>2 DEF ScanningTimeout, SendAssociationRequest, Associated
  <1>3. ASSUME NEW a \in AP, CallInitiateRoaming(a) \/ CallAssociateToAp(a)
        PROVE  Associated' => Associated
    BY <1>3, NotAssociatedAfter
    DEF CallInitiateRoaming, InitiateRoaming, CallAssociateToAp, AssociateToAp, Associated
  <1>4. ASSUME NEW i \in 1..Len(roams), DoInitiateRoaming(i) \/ DoInitiateRoamingBusy(i)
        PROVE  Associated' => Associated
    BY <1>4 DEF DoInitiateRoaming, DoInitiateRoamingBusy, Associate, SendAssociationRequest, Associated
  <1>5. CASE AssocRequestTimeout \/ MissedBeacons \/ StaFrameLost \/ LoseBeacons
    BY <1>5 DEF AssocRequestTimeout, SendAssociationRequest, MissedBeacons, StaFrameLost,
                LoseBeacons, Associated
  <1> QED BY <1>1, <1>2, <1>3, <1>4, <1>5 DEF StaUnheard

\* Both beliefs together: no attempt is pending for an associated station, and the station
\* manager has heard its AP.
BeliefsHold == NoAttemptWhileAssociated /\ AssociatedStationsAreHeard

\* A step that associates no station and leaves what the manager believes keeps it true.
LEMMA BeliefsKept ==
  ASSUME BeliefsHold, Associated' => Associated, rssi' = rssi, roamEvent' \in {roamEvent, Off}
  PROVE  BeliefsHold'
  BY DEF BeliefsHold, NoAttemptWhileAssociated, AssociatedStationsAreHeard

\* A station that is not associated is believed to be nothing.
LEMMA BeliefsOfNone == ASSUME ~Associated' PROVE BeliefsHold'
  BY DEF BeliefsHold, NoAttemptWhileAssociated, AssociatedStationsAreHeard

\* The ends of an association, each with what the manager makes of it, leave none.
LEMMA BeliefsAtEnd ==
  ASSUME BeliefsHold, HopDisassociated \/ HopForcedDisassociate \/ HopNotifyChannelSwitching
  PROVE  BeliefsHold'
  <1>1. ~Associated'
    BY NotAssociatedAfter
    DEF HopDisassociated, DisassociatedEvent, HopForcedDisassociate, ForcedDisassociate,
        HopNotifyChannelSwitching, NotifyChannelSwitching, Associated
  <1> QED BY <1>1, BeliefsOfNone

\* The manager's own attempts, checks and recoveries keep its beliefs true.
LEMMA BeliefsOfManager ==
  ASSUME BeliefsHold,
         \/ AttemptRoaming \/ CheckRecovers \/ CheckHighLoss \/ CheckLowLoss
         \/ CompleteEmergencyReconnect \/ \E enable \in BOOLEAN : EnableHopping(enable)
  PROVE  BeliefsHold'
  <1>1. CASE AttemptRoaming
    <2>1. CASE Associated /\ roamEvent' = Off /\ UNCHANGED <<state, rssi>>
      BY <2>1, BeliefsKept DEF Associated
    <2>2. CASE ~Associated /\ UNCHANGED state
      BY <2>2, BeliefsOfNone DEF Associated
    <2>3. CASE \E a \in AP : Associate(a)
      BY <2>3, NotAssociatedAfter, BeliefsOfNone
    <2> QED BY <1>1, <2>1, <2>2, <2>3 DEF AttemptRoaming
  <1>2. CASE CheckRecovers \/ CheckHighLoss \/ CheckLowLoss
    <2>1. UNCHANGED <<state, roamEvent, rssi>>
      BY <1>2 DEF CheckRecovers, CheckHighLoss, CheckLowLoss, checkUnchanged
    <2> QED BY <2>1, BeliefsKept DEF Associated
  <1>3. CASE CompleteEmergencyReconnect
    <2>1. UNCHANGED <<roamEvent, rssi>>
      BY <1>3 DEF CompleteEmergencyReconnect
    <2>2. Associated' => Associated
      BY <1>3, ReconnectAssociatesNone DEF CompleteEmergencyReconnect
    <2> QED BY <2>1, <2>2, BeliefsKept
  <1>4. ASSUME NEW enable \in BOOLEAN, EnableHopping(enable) PROVE BeliefsHold'
    <2>1. UNCHANGED <<state, roamEvent, rssi>>
      BY <1>4 DEF EnableHopping, hopTimers
    <2> QED BY <2>1, BeliefsKept DEF Associated
  <1> QED BY <1>1, <1>2, <1>3, <1>4

\* An association clears the attempt and brings an RSSI; one that is there stays as it is.
LEMMA BeliefsOfAssociation ==
  ASSUME BeliefsHold, NEW a \in AP, HopReceiveAssocResp(a)
  PROVE  BeliefsHold'
  <1>1. CASE ~Associated /\ state' = "ASSOCIATED"
    BY <1>1 DEF HopReceiveAssocResp, OnAssociation, BeliefsHold, NoAttemptWhileAssociated,
                AssociatedStationsAreHeard
  <1>2. CASE ~(~Associated /\ state' = "ASSOCIATED")
    <2>1. UNCHANGED <<roamEvent, rssi>> BY <1>2 DEF HopReceiveAssocResp
    <2>2. Associated' => Associated BY <1>2 DEF Associated
    <2> QED BY <2>1, <2>2, BeliefsKept
  <1> QED BY <1>1, <1>2

\* Time runs only the attempts that are pending.
LEMMA BeliefsOverTime ==
  ASSUME BeliefsHold, HopTick
  PROVE  BeliefsHold'
  <1>1. UNCHANGED <<state, rssi>> /\ roamEvent' = CountDown(roamEvent)
    BY DEF HopTick, StaTick
  <1>2. roamEvent = Off => roamEvent' = Off
    BY <1>1 DEF CountDown, Off
  <1> QED BY <1>1, <1>2 DEF BeliefsHold, NoAttemptWhileAssociated, AssociatedStationsAreHeard,
                            Associated

\* What the manager believes holds at every step.
LEMMA BeliefsHoldAlways == HopSpec => []BeliefsHold
  <1>1. HopInit => BeliefsHold
    BY DEF HopInit, StaInit, BeliefsHold, NoAttemptWhileAssociated, AssociatedStationsAreHeard,
           Associated
  <1>2. BeliefsHold /\ [HopNext]_allVars => BeliefsHold'
    <2> SUFFICES ASSUME BeliefsHold, [HopNext]_allVars PROVE BeliefsHold'
      OBVIOUS
    <2>1. CASE StaUnheard /\ UNCHANGED hopVars
      BY <2>1, UnheardAssociatesNone, BeliefsKept DEF hopVars, hopTimers
    <2>2. CASE UNCHANGED allVars
      BY <2>2, BeliefsKept DEF allVars, staVars, hopVars, hopTimers, Associated
    <2> QED BY <2>1, <2>2, BeliefsOfAssociation, BeliefsAtEnd, BeliefsOfManager, BeliefsOverTime
         DEF HopNext, HopStep
  <1> QED BY <1>1, <1>2, PTL DEF HopSpec

\* The manager never has an attempt pending for an associated station, whichever of the
\* MAC's own scan, its attempt or its recovery reconnected it.
THEOREM HopNoAttemptWhileAssociated == HopSpec => []NoAttemptWhileAssociated
  BY BeliefsHoldAlways, PTL DEF BeliefsHold

\* A health check never finds an associated station without an RSSI of its AP, so that it
\* is never recovered as an orphan.
THEOREM HopAssociatedStationsAreHeard == HopSpec => []AssociatedStationsAreHeard
  BY BeliefsHoldAlways, PTL DEF BeliefsHold

----------------------------------------------------------------------------
(* Type correctness. *)

\* Types alone are not inductive here either: the health check takes leave of the AP last
\* joined, which must be one while the station is associated.
HopInv ==
  /\ StaInv
  /\ HopTypeOK
  /\ Associated => lastBssid \in AP

\* A recovery that is due has a target.
LEMMA DueRecovery ==
  ASSUME HopTypeOK, recovery.left = 0
  PROVE  recovery.target \in AP
  <1>1. recovery # NoRecovery BY DEF NoRecovery, Off
  <1> QED BY <1>1 DEF HopTypeOK, Recovery

\* What a recovery that begins sets.
LEMMA EmergencyReconnectTyped ==
  ASSUME HopInv, EmergencyReconnect
  PROVE  /\ recovery' \in Recovery \cup {NoRecovery}
         /\ sinceEmergency' \in 0..Cooldown
         /\ staQueue' \in Seq(StaFrame)
  <1>1. staQueue \in Seq(StaFrame) /\ recovery \in Recovery \cup {NoRecovery}
    BY DEF HopInv, HopTypeOK, StaTypeOK
  <1>2. \A a \in AP : [target |-> a, left |-> LeaveDelay] \in Recovery
    BY StaAssumption DEF StaAssumption, Recovery
  <1>3. recovery' \in Recovery \cup {NoRecovery}
    BY <1>1, <1>2 DEF EmergencyReconnect, Candidates
  <1>4. sinceEmergency' \in 0..Cooldown
    BY HopAssumption DEF EmergencyReconnect, HopAssumption
  <1>5. staQueue' \in Seq(StaFrame)
    <2>1. CASE staQueue' = staQueue BY <1>1, <2>1
    <2>2. CASE Associated /\ Send("disassoc", lastBssid)
      BY <1>1, <2>2, SendTyped DEF HopInv
    <2> QED BY <2>1, <2>2 DEF EmergencyReconnect
  <1> QED BY <1>3, <1>4, <1>5

\* The manager's health checks leave the MAC typed, whether they begin a recovery or not.
LEMMA ChecksTyped ==
  ASSUME HopInv, CheckRecovers \/ CheckHighLoss \/ CheckLowLoss
  PROVE  /\ StaTypeOK' /\ HopTypeOK'
         /\ UNCHANGED <<state, bssid, lastBssid, chan, switching, assocTimer, roams>>
  <1>1. StaTypeOK /\ HopTypeOK BY DEF HopInv, HopTypeOK
  <1>2. UNCHANGED checkUnchanged
    BY DEF CheckRecovers, CheckHighLoss, CheckLowLoss
  <1>3. calls' \in Nat
    BY <1>1 DEF CheckRecovers, CheckHighLoss, CheckLowLoss, Call, StaTypeOK
  <1>4. /\ recovery' \in Recovery \cup {NoRecovery} /\ sinceEmergency' \in 0..Cooldown
        /\ staQueue' \in Seq(StaFrame)
    <2>1. CASE EmergencyReconnect BY <2>1, EmergencyReconnectTyped
    <2>2. CASE UNCHANGED <<recovery, sinceEmergency, staQueue>>
      BY <1>1, <2>2 DEF HopTypeOK, StaTypeOK
    <2> QED BY <2>1, <2>2 DEF CheckRecovers, CheckHighLoss, CheckLowLoss
  <1>5. highLoss' \in 0..MaxHighLoss
    BY <1>1, HopAssumption
    DEF CheckRecovers, CheckHighLoss, CheckLowLoss, HopTypeOK, HopAssumption
  <1>6. StaTypeOK' BY <1>1, <1>2, <1>3, <1>4 DEF checkUnchanged, StaTypeOK
  <1>7. HopTypeOK' BY <1>1, <1>2, <1>4, <1>5, <1>6 DEF checkUnchanged, HopTypeOK
  <1> QED BY <1>2, <1>6, <1>7 DEF checkUnchanged

\* The manager's attempt to roam.
LEMMA AttemptKeepsInv ==
  ASSUME HopInv, AttemptRoaming
  PROVE  StaInv'
  <1>1. StaTypeOK /\ staQueue \in Seq(StaFrame) /\ switching \in BOOLEAN
    BY DEF HopInv, HopTypeOK, StaTypeOK
  <1>2. CASE UNCHANGED <<state, bssid, chan, switching, assocTimer, staQueue>>
    <2>1. StaTypeOK' BY <1>1, <1>2 DEF AttemptRoaming, StaTypeOK, counters
    <2> QED BY <1>2, <2>1, QuietStepKeepsInv DEF HopInv, AttemptRoaming
  <1>3. ASSUME NEW a \in AP, Associate(a) PROVE StaInv'
    <2>1. /\ bssid' = a /\ state' = "WAIT_ASSOC_RESP"
          /\ assocTimer' \in Timer(AssocTimeout) /\ assocTimer' # Off
          /\ staQueue' \in Seq(StaFrame) /\ chan' \in Channel /\ switching' \in BOOLEAN
      BY <1>1, <1>3, StaAssumption, AssociateTyped
    <2>2. StaTypeOK' BY <1>1, <2>1 DEF AttemptRoaming, StaTypeOK, MacState, counters
    <2> QED BY <2>1, <2>2, StaAssumption, RequestKeepsInv
  <1> QED BY <1>2, <1>3 DEF AttemptRoaming

\* The end of a recovery.
LEMMA CompleteKeepsInv ==
  ASSUME HopInv, CompleteEmergencyReconnect
  PROVE  StaInv'
  <1>1. recovery.target \in AP /\ Reconnect(recovery.target) /\ StaTypeOK
    BY DueRecovery DEF HopInv, HopTypeOK, CompleteEmergencyReconnect
  <1>2. /\ state' \in MacState /\ bssid' \in AP \cup {NoAp} /\ chan' \in Channel
        /\ switching' \in BOOLEAN /\ assocTimer' \in Timer(AssocTimeout)
        /\ roams' \in Seq(Roam) /\ staQueue' \in Seq(StaFrame)
    BY <1>1, StaAssumption, ReconnectTyped DEF HopInv, StaInv
  <1>3. StaTypeOK' BY <1>1, <1>2 DEF CompleteEmergencyReconnect, StaTypeOK, counters
  <1> QED BY <1>1, <1>3, StaAssumption, ReconnectKeepsInv DEF HopInv

\* The MAC stays in its invariant, whoever drives it.
LEMMA HopStepKeepsStaInv ==
  ASSUME HopInv, HopNext
  PROVE  StaInv'
  <1>1. StaInv BY DEF HopInv
  <1>2. CASE StaUnheard
    <2>1. StaStep \/ StaCall BY <1>2 DEF StaUnheard, StaStep, StaCall
    <2> QED BY <1>1, <2>1, StaAssumption, StepKeepsInv, CallKeepsInv
  <1>3. CASE (\E a \in AP : HopReceiveAssocResp(a)) \/ HopDisassociated \/ HopNotifyChannelSwitching
    <2>1. StaStep
      BY <1>3 DEF HopReceiveAssocResp, HopDisassociated, HopNotifyChannelSwitching, StaStep
    <2> QED BY <1>1, <2>1, StaAssumption, StepKeepsInv
  <1>4. CASE HopForcedDisassociate
    <2>1. StaCall BY <1>4 DEF HopForcedDisassociate, StaCall
    <2> QED BY <1>1, <2>1, StaAssumption, CallKeepsInv
  <1>5. CASE CheckRecovers \/ CheckHighLoss \/ CheckLowLoss
    BY <1>1, <1>5, ChecksTyped, QuietStepKeepsInv
  <1>6. ASSUME NEW enable \in BOOLEAN, EnableHopping(enable) PROVE StaInv'
    <2>1. StaTypeOK' BY <1>1, <1>6 DEF EnableHopping, Call, StaInv, StaTypeOK
    <2> QED BY <1>1, <1>6, <2>1, QuietStepKeepsInv DEF EnableHopping
  <1>7. CASE HopTick
    BY <1>1, <1>7, StaAssumption, TickKeepsInv DEF HopTick
  <1> QED BY <1>2, <1>3, <1>4, <1>5, <1>6, <1>7, AttemptKeepsInv, CompleteKeepsInv
       DEF HopNext, HopStep

\* The manager's own variables stay typed.
LEMMA HopStepTyped ==
  ASSUME HopInv, HopNext
  PROVE  HopTypeOK'
  <1>1. StaTypeOK' BY HopStepKeepsStaInv DEF StaInv
  <1>2. /\ ScanDelay \in Timer(ScanDelay) /\ Off \in Timer(ScanDelay) /\ 0 \in 0..Grace
    BY HopAssumption DEF HopAssumption, Timer, Off, Grace
  <1>3. HopTypeOK BY DEF HopInv
  <1>4. OnDisassociation => roamEvent' \in Timer(ScanDelay) /\ sinceDeAssoc' \in 0..Grace
    BY <1>2, <1>3 DEF OnDisassociation, HopTypeOK
  <1>5. CASE StaUnheard /\ UNCHANGED hopVars
    BY <1>1, <1>3, <1>5 DEF hopVars, hopTimers, HopTypeOK
  <1>6. ASSUME NEW a \in AP, HopReceiveAssocResp(a) PROVE HopTypeOK'
    BY <1>1, <1>2, <1>3, <1>6 DEF HopReceiveAssocResp, OnAssociation, HopTypeOK
  <1>7. CASE HopDisassociated
    BY <1>1, <1>3, <1>4, <1>7 DEF HopDisassociated, HopTypeOK
  <1>8. CASE HopForcedDisassociate
    BY <1>1, <1>3, <1>4, <1>8 DEF HopForcedDisassociate, HopTypeOK
  <1>9. CASE HopNotifyChannelSwitching
    BY <1>1, <1>3, <1>4, <1>9 DEF HopNotifyChannelSwitching, HopTypeOK
  <1>10. CASE AttemptRoaming
    BY <1>1, <1>2, <1>3, <1>10 DEF AttemptRoaming, HopTypeOK
  <1>11. CASE CheckRecovers \/ CheckHighLoss \/ CheckLowLoss
    BY <1>11, ChecksTyped
  <1>12. CASE CompleteEmergencyReconnect
    BY <1>1, <1>3, <1>12 DEF CompleteEmergencyReconnect, HopTypeOK
  <1>13. ASSUME NEW enable \in BOOLEAN, EnableHopping(enable) PROVE HopTypeOK'
    BY <1>1, <1>3, <1>13 DEF EnableHopping, hopTimers, HopTypeOK
  <1>14. CASE HopTick
    <2>1. roamEvent' \in Timer(ScanDelay)
      BY <1>3, <1>14, HopAssumption, CountDownTyped DEF HopTick, HopTypeOK, HopAssumption
    <2>2. recovery' \in Recovery \cup {NoRecovery}
      <3>1. CASE recovery \in Recovery
        <4>1. recovery'.left \in 0..LeaveDelay /\ recovery' = [recovery EXCEPT !.left = recovery'.left]
          BY <1>14, <3>1, StaAssumption DEF HopTick, CountDown, Recovery, StaAssumption
        <4> QED BY <3>1, <4>1 DEF Recovery
      <3>2. CASE recovery = NoRecovery
        <4>1. recovery' = NoRecovery BY <1>14, <3>2 DEF HopTick, CountDown, NoRecovery, Off
        <4> QED BY <4>1
      <3> QED BY <1>3, <3>1, <3>2 DEF HopTypeOK
    <2>3. /\ sinceDeAssoc' \in 0..Grace /\ sinceEmergency' \in 0..Cooldown
          /\ uptime' \in 0..ScanDelay
      BY <1>3, <1>14, HopAssumption DEF HopTick, CountUp, HopTypeOK, HopAssumption, Grace
    <2> QED BY <1>1, <1>3, <1>14, <2>1, <2>2, <2>3 DEF HopTick, HopTypeOK
  <1> QED BY <1>5, <1>6, <1>7, <1>8, <1>9, <1>10, <1>11, <1>12, <1>13, <1>14
       DEF HopNext, HopStep

\* What the MAC does by itself, or when it is called, moves the last AP joined only to join.
LEMMA LastBssidStep ==
  ASSUME HopInv, HopNext
  PROVE  Associated' => lastBssid' \in AP
  <1>1. ASSUME NEW a \in AP, ReceiveAssocResp(a)
        PROVE  Associated' => lastBssid' \in AP
    BY <1>1 DEF ReceiveAssocResp, HopInv, Associated
  <1>2. ASSUME Associated' => Associated, UNCHANGED lastBssid
        PROVE  Associated' => lastBssid' \in AP
    BY <1>2 DEF HopInv
  <1>3. CASE StaUnheard
    <2>1. UNCHANGED lastBssid
      BY <1>3 DEF StaUnheard, NotifyApInfo, ScanningTimeout, ApReceivesRequest,
                  ApReceivesDisassociation, ReceiveRefusal, ApFrameLost, CallInitiateRoaming,
                  CallAssociateToAp, DoInitiateRoaming, DoInitiateRoamingBusy,
                  AssocRequestTimeout, MissedBeacons, StaFrameLost, LoseBeacons
    <2> QED BY <1>2, <1>3, <2>1, UnheardAssociatesNone
  <1>4. CASE HopDisassociated \/ HopForcedDisassociate \/ HopNotifyChannelSwitching
    BY <1>4 DEF HopDisassociated, HopForcedDisassociate, HopNotifyChannelSwitching,
                DisassociatedEvent, ForcedDisassociate, NotifyChannelSwitching, Disassociated,
                Associated
  <1>5. CASE AttemptRoaming
    <2>1. Associated' => Associated
      BY <1>5, NotAssociatedAfter DEF AttemptRoaming, Associated
    <2> QED BY <1>2, <1>5, <2>1 DEF AttemptRoaming
  <1>6. CASE CheckRecovers \/ CheckHighLoss \/ CheckLowLoss
    BY <1>2, <1>6, ChecksTyped DEF Associated
  <1>7. CASE CompleteEmergencyReconnect
    BY <1>2, <1>7, ReconnectAssociatesNone DEF CompleteEmergencyReconnect
  <1>8. CASE (\E enable \in BOOLEAN : EnableHopping(enable)) \/ HopTick
    BY <1>2, <1>8 DEF EnableHopping, HopTick, StaTick, Associated
  <1> QED BY <1>1, <1>3, <1>4, <1>5, <1>6, <1>7, <1>8 DEF HopNext, HopStep, HopReceiveAssocResp

\* The invariant of the MAC with its manager holds throughout.
LEMMA HopInvariant == HopSpec => []HopInv
  <1>1. HopInit => HopInv
    <2> SUFFICES ASSUME HopInit PROVE HopInv
      OBVIOUS
    <2>1. StaTypeOK BY StaAssumption, InitTyped DEF HopInit
    <2>2. StaInv
      BY <2>1 DEF HopInit, StaInit, StaInv, Associated, AssociatedOnChannel, RequestsAreRetried, Off
    <2>3. HopTypeOK
      <3>1. Off \in Timer(ScanDelay)
        BY HopAssumption DEF HopAssumption, Timer, Off
      <3>2. 0 \in 0..Grace /\ 0 \in 0..Cooldown /\ 0 \in 0..ScanDelay /\ 0 \in 0..MaxHighLoss
        BY HopAssumption DEF HopAssumption, Grace
      <3> QED BY <2>1, <3>1, <3>2 DEF HopInit, HopTypeOK
    <2> QED BY <2>2, <2>3 DEF HopInv, HopInit, StaInit, Associated
  <1>2. HopInv /\ [HopNext]_allVars => HopInv'
    <2>1. ASSUME HopInv, UNCHANGED allVars PROVE HopInv'
      BY <2>1 DEF HopInv, HopTypeOK, StaInv, StaTypeOK, Associated, AssociatedOnChannel,
                  RequestsAreRetried, allVars, staVars, hopVars, hopTimers, counters
    <2> QED BY <2>1, HopStepKeepsStaInv, HopStepTyped, LastBssidStep DEF HopInv
  <1> QED BY <1>1, <1>2, PTL DEF HopSpec

\* Every variable of the MAC and of its manager keeps its type: no health check takes leave
\* of an AP the station never joined, and no recovery moves it to none.
THEOREM HopTypeCorrect == HopSpec => []HopTypeOK
  <1>1. HopInv => HopTypeOK BY DEF HopInv
  <1> QED BY <1>1, HopInvariant, PTL

----------------------------------------------------------------------------
(* The manager and the association. *)

\* A recovery that has begun is the one more reason why an AP may have to forget the
\* station: until it ends, with a request or a roam, nothing is settled.
HopListing == (recovery = NoRecovery => Listing) /\ Accepted

\* A step that keeps what is settled, or unsettles it, and clears no recovery.
LEMMA ListingKeptInHop ==
  ASSUME HopListing, ListingKept, recovery' = NoRecovery => recovery = NoRecovery
  PROVE  HopListing'
  BY DEF HopListing, ListingKept

\* What the health checks do: take leave of the AP only with a recovery.
LEMMA ChecksKeepListing ==
  ASSUME HopInv, HopListing, CheckRecovers \/ CheckHighLoss \/ CheckLowLoss
  PROVE  HopListing'
  <1>1. UNCHANGED <<state, bssid, chan, roams, apQueue, listed, lost>>
    BY DEF CheckRecovers, CheckHighLoss, CheckLowLoss, checkUnchanged
  <1>2. Accepted' BY <1>1, AcceptedKept DEF HopListing, Associated
  <1>3. recovery' = NoRecovery => recovery = NoRecovery /\ staQueue' = staQueue
    <2>1. CASE UNCHANGED <<recovery, staQueue>>
      BY <2>1
    <2>2. ASSUME NEW a \in Candidates, recovery' = [target |-> a, left |-> LeaveDelay]
          PROVE  recovery' # NoRecovery
      <3>1. recovery'.target \in AP BY <2>2 DEF Candidates
      <3>2. NoRecovery.target \notin AP BY StaAssumption DEF StaAssumption, NoRecovery
      <3> QED BY <3>1, <3>2
    <2> QED BY <2>1, <2>2 DEF CheckRecovers, CheckHighLoss, CheckLowLoss, EmergencyReconnect
  <1>4. recovery' = NoRecovery => Listing'
    BY <1>1, <1>3, QuietListing DEF HopListing
  <1> QED BY <1>2, <1>4 DEF HopListing

\* The manager's attempt is a request, and a recovery ends with a request or a roam.
LEMMA AttemptsKeepListing ==
  ASSUME HopInv, HopListing, AttemptRoaming \/ CompleteEmergencyReconnect
  PROVE  HopListing'
  <1>1. StaTypeOK /\ Accepted BY DEF HopInv, HopTypeOK, HopListing
  <1>2. CASE CompleteEmergencyReconnect
    <2>1. recovery.target \in AP /\ Reconnect(recovery.target) /\ UNCHANGED apQueue
      BY <1>2, DueRecovery DEF HopInv, CompleteEmergencyReconnect
    <2> QED BY <1>1, <2>1, ReconnectGivesListing DEF HopListing, ListingInv
  <1>3. ASSUME AttemptRoaming, NEW a \in AP, Associate(a) PROVE HopListing'
    BY <1>1, <1>3, AssociateGivesListing DEF AttemptRoaming, HopListing, ListingInv
  <1>4. CASE AttemptRoaming /\ UNCHANGED <<state, bssid, chan, staQueue>>
    <2>1. UNCHANGED <<state, bssid, chan, staQueue, listed, roams, lost, apQueue, recovery>>
      BY <1>4 DEF AttemptRoaming, counters
    <2>2. ListingKept
      BY <1>1, <2>1, QuietListing, AcceptedKept DEF ListingKept, Associated
    <2> QED BY <2>1, <2>2, ListingKeptInHop
  <1> QED BY <1>2, <1>3, <1>4 DEF AttemptRoaming

\* Every step keeps it.
LEMMA HopStepKeepsListing ==
  ASSUME HopInv, HopListing, HopNext
  PROVE  HopListing'
  <1>1. StaInv /\ Accepted BY DEF HopInv, HopListing
  <1>2. CASE StaUnheard /\ UNCHANGED hopVars
    <2>1. StaStep \/ StaCall BY <1>2 DEF StaUnheard, StaStep, StaCall
    <2>2. ListingKept BY <1>1, <2>1, StepKeepsListing, CallKeepsListing
    <2> QED BY <1>2, <2>2, ListingKeptInHop DEF hopVars, hopTimers
  <1>3. CASE \/ \E a \in AP : HopReceiveAssocResp(a)
             \/ HopDisassociated \/ HopForcedDisassociate \/ HopNotifyChannelSwitching
    <2>1. (StaStep \/ StaCall) /\ UNCHANGED recovery
      BY <1>3 DEF HopReceiveAssocResp, HopDisassociated, HopForcedDisassociate,
                  HopNotifyChannelSwitching, StaStep, StaCall
    <2>2. ListingKept BY <1>1, <2>1, StepKeepsListing, CallKeepsListing
    <2> QED BY <2>1, <2>2, ListingKeptInHop
  <1>4. ASSUME NEW enable \in BOOLEAN, EnableHopping(enable) PROVE HopListing'
    <2>1. UNCHANGED <<state, bssid, chan, staQueue, listed, roams, lost, apQueue, recovery>>
      BY <1>4 DEF EnableHopping, hopTimers
    <2>2. ListingKept
      BY <1>1, <2>1, QuietListing, AcceptedKept DEF ListingKept, Associated
    <2> QED BY <2>1, <2>2, ListingKeptInHop
  <1>5. CASE HopTick
    <2>1. ListingKept BY <1>1, <1>5, TickKeepsListing DEF HopTick
    <2>2. recovery' = NoRecovery => recovery = NoRecovery
      <3>1. ASSUME recovery \in Recovery PROVE recovery'.target \in AP
        BY <1>5, <3>1 DEF HopTick, Recovery
      <3>2. NoRecovery.target \notin AP BY StaAssumption DEF StaAssumption, NoRecovery
      <3> QED BY <3>1, <3>2 DEF HopInv, HopTypeOK
    <2> QED BY <2>1, <2>2, ListingKeptInHop
  <1> QED BY <1>2, <1>3, <1>4, <1>5, ChecksKeepListing, AttemptsKeepListing DEF HopNext, HopStep

\* However the MAC's own scanning, the manager's attempts, its recoveries and roams overlap,
\* a settled station with no recovery under way is in the list of the AP it is associated
\* with, unless a frame was lost on the right channel.
THEOREM RecoveredIsListed == HopSpec => []RecoveredStationIsListed
  <1>1. HopInit => HopListing
    BY InitListing DEF HopInit, HopListing, ListingInv
  <1>2. HopInv /\ HopListing /\ [HopNext]_allVars => HopListing'
    <2>1. ASSUME HopListing, UNCHANGED allVars PROVE HopListing'
      BY <2>1 DEF HopListing, Listing, WillBeListed, Accepted, Associated, allVars, staVars,
                  hopVars, hopTimers, counters
    <2> QED BY <2>1, HopStepKeepsListing
  <1>3. HopInv /\ HopListing => RecoveredStationIsListed
    BY SettledIsListed DEF HopInv, HopListing, ListingInv, RecoveredStationIsListed
  <1> QED BY <1>1, <1>2, <1>3, HopInvariant, PTL DEF HopSpec

\* What the abstract specification sees of a step of the MAC and its manager together.
LEMMA HopNextImplements ==
  ASSUME HopInv, HopNext
  PROVE  AssocStep
  <1>1. StaInv BY DEF HopInv
  <1>2. CASE StaUnheard \/ HopDisassociated \/ HopForcedDisassociate \/ HopNotifyChannelSwitching
             \/ HopTick \/ \E a \in AP : HopReceiveAssocResp(a)
    <2>1. StaNext
      BY <1>2 DEF StaUnheard, HopReceiveAssocResp, HopDisassociated, HopForcedDisassociate,
                  HopNotifyChannelSwitching, HopTick, StaNext, StaStep, StaCall
    <2> QED BY <1>1, <2>1, NextImplements
  <1>3. CASE AttemptRoaming
    <2>1. UNCHANGED <<state, bssid>> \/ state' # "ASSOCIATED"
      BY <1>3 DEF AttemptRoaming, Associate, SendAssociationRequest
    <2> QED BY <1>3, <2>1, LeaveStep, StutterStep DEF AttemptRoaming
  <1>4. CASE CompleteEmergencyReconnect
    <2>1. UNCHANGED <<state, bssid>> \/ state' # "ASSOCIATED"
      BY <1>4 DEF CompleteEmergencyReconnect, Reconnect, Associate, SendAssociationRequest
    <2> QED BY <1>4, <2>1, LeaveStep, StutterStep DEF CompleteEmergencyReconnect
  <1>5. CASE CheckRecovers \/ CheckHighLoss \/ CheckLowLoss \/ \E enable \in BOOLEAN : EnableHopping(enable)
    BY <1>5, StutterStep
    DEF CheckRecovers, CheckHighLoss, CheckLowLoss, checkUnchanged, EnableHopping
  <1> QED BY <1>2, <1>3, <1>4, <1>5 DEF HopNext, HopStep

\* With the manager at work the station and its APs still implement Association: its
\* attempts and recoveries move the station only by leaving one AP before they join another.
THEOREM ManagerImplementsAssociation == HopSpec => ImplementsAssociation
  <1>1. HopInit => Assoc!AssocInit
    BY DEF HopInit, StaInit, Assoc!AssocInit, Associated
  <1>2. HopInv /\ [HopNext]_allVars => [Assoc!AssocNext]_(Assoc!assocVars)
    <2>1. ASSUME HopInv, HopNext PROVE [Assoc!AssocNext]_(Assoc!assocVars)
      BY <2>1, HopNextImplements DEF AssocStep, Assoc!assocVars
    <2>2. ASSUME UNCHANGED allVars PROVE [Assoc!AssocNext]_(Assoc!assocVars)
      BY <2>2 DEF allVars, staVars, Assoc!assocVars, Associated
    <2> QED BY <2>1, <2>2
  <1> QED BY <1>1, <1>2, HopInvariant, PTL DEF HopSpec, ImplementsAssociation, Assoc!AssocSpec
=============================================================================
