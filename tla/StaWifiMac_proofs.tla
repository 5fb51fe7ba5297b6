-------------------------- MODULE StaWifiMac_proofs --------------------------
(***************************************************************************)
(* What holds of a station among any number of access points, on any       *)
(* channels and with any delays: types; the association invariant; and     *)
(* that the station and its APs keep the promises of Association.           *)
(***************************************************************************)
EXTENDS StaWifiMac, TLAPS

----------------------------------------------------------------------------
(* The steps the handlers share keep the types of what they set. *)

\* A queue with a frame of a known kind appended stays a queue of frames.
LEMMA SendTyped ==
  ASSUME staQueue \in Seq(StaFrame), NEW a \in AP,
         NEW type \in {"assocReq", "disassoc", "btmResp"}, Send(type, a)
  PROVE  staQueue' \in Seq(StaFrame)
BY DEF Send, StaFrame

\* A scheduled move, appended or removed, leaves scheduled moves.
LEMMA RemoveTyped ==
  ASSUME NEW S, NEW s \in Seq(S), NEW i \in 1..Len(s)
  PROVE  Remove(s, i) \in Seq(S)
BY DEF Remove

\* What a request sets: an AP's address, a frame, a timer and the state.
LEMMA RequestTyped ==
  ASSUME StaAssumption, staQueue \in Seq(StaFrame), NEW a \in AP, SendAssociationRequest(a)
  PROVE  /\ bssid' = a /\ state' = "WAIT_ASSOC_RESP"
         /\ assocTimer' = AssocTimeout /\ assocTimer' \in Timer(AssocTimeout) /\ assocTimer' # Off
         /\ staQueue' \in Seq(StaFrame)
<1>1. Send("assocReq", a) BY DEF SendAssociationRequest
<1>2. staQueue' \in Seq(StaFrame) BY <1>1, SendTyped
<1>3. QED BY <1>2 DEF SendAssociationRequest, StaAssumption, Timer, Off

\* Moving and asking keeps the PHY on a channel of the network.
LEMMA AssociateTyped ==
  ASSUME StaAssumption, staQueue \in Seq(StaFrame), switching \in BOOLEAN, NEW a \in AP, Associate(a)
  PROVE  /\ bssid' = a /\ state' = "WAIT_ASSOC_RESP"
         /\ assocTimer' = AssocTimeout /\ assocTimer' \in Timer(AssocTimeout) /\ assocTimer' # Off
         /\ staQueue' \in Seq(StaFrame)
         /\ chan' \in Channel /\ switching' \in BOOLEAN
<1>1. SendAssociationRequest(a) BY DEF Associate
<1>2. chan' \in Channel /\ switching' \in BOOLEAN
  BY DEF Associate, SwitchTo, Channel
<1>3. QED BY <1>1, <1>2, RequestTyped

\* A countdown that is not due stays a countdown.
LEMMA CountDownTyped ==
  ASSUME NEW n \in Nat, NEW t \in Timer(n)
  PROVE  CountDown(t) \in Timer(n) /\ (t # Off => CountDown(t) # Off)
BY DEF CountDown, Timer, Off

----------------------------------------------------------------------------
(* Type correctness. *)

\* The initial states are typed.
LEMMA InitTyped ==
  ASSUME StaAssumption, StaInit
  PROVE  StaTypeOK
<1>1. assocTimer \in Timer(AssocTimeout) /\ watchdog \in Timer(WatchdogDelay)
  BY DEF StaAssumption, StaInit, Timer, Off
<1>2. apQueue \in [AP -> Seq(ApFrame)] /\ listed \in [AP -> BOOLEAN]
  BY DEF StaInit
<1>3. roams \in Seq(Roam) /\ staQueue \in Seq(StaFrame)
  BY DEF StaInit
<1>4. QED BY <1>1, <1>2, <1>3 DEF StaInit, StaTypeOK, MacState

\* Types alone are not inductive: a frame is sent to link.bssid, which must be an AP.
\* It is one while the station is associated, even in the middle of a channel switch,
\* and while the retry of a request is pending.
StaInv ==
  /\ StaTypeOK
  /\ Associated => bssid # NoAp
  /\ AssociatedOnChannel
  /\ RequestsAreRetried

\* Moving somewhere else, and leaving.
LEMMA DoInitiateRoamingTyped ==
  ASSUME StaAssumption, StaTypeOK, NEW i \in 1..Len(roams), DoInitiateRoaming(i)
  PROVE  StaTypeOK'
<1>1. roams \in Seq(Roam) BY DEF StaTypeOK
<1>2. roams[i] \in Roam BY <1>1
<1>3. roams[i].target \in AP BY <1>2 DEF Roam
<1>4. roams' \in Seq(Roam) BY <1>1, RemoveTyped DEF DoInitiateRoaming
<1>5. staQueue \in Seq(StaFrame) /\ switching \in BOOLEAN BY DEF StaTypeOK
<1>6. Associate(roams[i].target) BY DEF DoInitiateRoaming
<1>7. /\ bssid' = roams[i].target /\ state' = "WAIT_ASSOC_RESP"
      /\ assocTimer' \in Timer(AssocTimeout) /\ staQueue' \in Seq(StaFrame)
      /\ chan' \in Channel /\ switching' \in BOOLEAN
  BY <1>3, <1>5, <1>6, AssociateTyped
<1>8. QED BY <1>3, <1>4, <1>7 DEF StaTypeOK, DoInitiateRoaming, MacState, counters

\* A call to roam, at once or after the frame that leaves the AP.
LEMMA InitiateRoamingTyped ==
  ASSUME StaAssumption, StaTypeOK, Associated => bssid # NoAp, NEW a \in AP, InitiateRoaming(a)
  PROVE  /\ state' \in MacState /\ bssid' \in AP \cup {NoAp} /\ chan' \in Channel
         /\ switching' \in BOOLEAN /\ assocTimer' \in Timer(AssocTimeout)
         /\ roams' \in Seq(Roam) /\ staQueue' \in Seq(StaFrame)
<1>1. /\ staQueue \in Seq(StaFrame) /\ switching \in BOOLEAN /\ roams \in Seq(Roam)
      /\ state \in MacState /\ bssid \in AP \cup {NoAp} /\ chan \in Channel
      /\ assocTimer \in Timer(AssocTimeout)
  BY DEF StaTypeOK
<1>2. \A n \in Timer(LeaveDelay) : Append(roams, [target |-> a, left |-> n]) \in Seq(Roam)
  BY <1>1 DEF Roam
<1>3. LeaveDelay \in Timer(LeaveDelay) /\ 0 \in Timer(LeaveDelay)
  BY DEF StaAssumption, Timer, Off
<1>4. CASE Associated /\ bssid # a /\ Send("disassoc", bssid)
           /\ roams' = Append(roams, [target |-> a, left |-> LeaveDelay])
           /\ UNCHANGED <<state, bssid, chan, switching, assocTimer>>
  <2>1. bssid \in AP BY <1>1, <1>4
  <2>2. staQueue' \in Seq(StaFrame) BY <1>1, <1>4, <2>1, SendTyped
  <2>3. QED BY <1>1, <1>2, <1>3, <1>4, <2>2
<1>5. CASE Associate(a) /\ UNCHANGED roams
  BY <1>1, <1>5, AssociateTyped DEF MacState
<1>6. CASE state' = "ROAMING" /\ roams' = Append(roams, [target |-> a, left |-> 0])
           /\ UNCHANGED <<bssid, chan, switching, assocTimer, staQueue>>
  BY <1>1, <1>2, <1>3, <1>6 DEF MacState
<1>7. QED BY <1>4, <1>5, <1>6 DEF InitiateRoaming

\* Frames an AP queues or transmits stay frames.
LEMMA ApQueueTyped ==
  ASSUME apQueue \in [AP -> Seq(ApFrame)], NEW a \in AP
  PROVE  /\ \A frame \in ApFrame : [apQueue EXCEPT ![a] = Append(@, frame)] \in [AP -> Seq(ApFrame)]
         /\ apQueue[a] # <<>> => /\ [apQueue EXCEPT ![a] = Tail(@)] \in [AP -> Seq(ApFrame)]
                                 /\ Head(apQueue[a]) \in ApFrame
<1>1. apQueue[a] \in Seq(ApFrame) OBVIOUS
<1>2. \A frame \in ApFrame : Append(apQueue[a], frame) \in Seq(ApFrame) BY <1>1
<1>3. apQueue[a] # <<>> => Tail(apQueue[a]) \in Seq(ApFrame) /\ Head(apQueue[a]) \in ApFrame
  BY <1>1
<1>4. QED BY <1>2, <1>3

\* Every handler keeps the types.
LEMMA StepTyped ==
  ASSUME StaAssumption, StaInv, StaStep
  PROVE  StaTypeOK'
<1> USE DEF StaTypeOK, counters
<1>1. StaTypeOK BY DEF StaInv
<1>2. ASSUME NEW a \in AP, NotifyApInfo(a) PROVE StaTypeOK'
  BY <1>1, <1>2 DEF NotifyApInfo
<1>3. ASSUME NEW a \in AP, ScanningTimeout(a) PROVE StaTypeOK'
  <2>1. SendAssociationRequest(a) BY <1>3 DEF ScanningTimeout
  <2>2. /\ bssid' = a /\ state' = "WAIT_ASSOC_RESP"
        /\ assocTimer' \in Timer(AssocTimeout) /\ staQueue' \in Seq(StaFrame)
    BY <1>1, <2>1, RequestTyped
  <2>3. watchdog' \in Timer(WatchdogDelay)
    BY <1>3 DEF ScanningTimeout, StaAssumption, Timer, Off
  <2>4. QED BY <1>1, <1>3, <2>2, <2>3 DEF ScanningTimeout, MacState
<1>4. ASSUME NEW a \in AP, ApReceivesRequest(a) PROVE StaTypeOK'
  <2>1. staQueue' \in Seq(StaFrame) BY <1>1, <1>4 DEF ApReceivesRequest, StaTransmits
  <2>2. /\ [type |-> "assocResp", target |-> NoAp] \in ApFrame
        /\ [type |-> "refusal", target |-> NoAp] \in ApFrame
    BY DEF ApFrame
  <2>3. apQueue' \in [AP -> Seq(ApFrame)]
    <3>1. \A frame \in ApFrame : [apQueue EXCEPT ![a] = Append(@, frame)] \in [AP -> Seq(ApFrame)]
      BY <1>1, ApQueueTyped
    <3>2. [apQueue EXCEPT ![a] = Append(@, [type |-> "assocResp", target |-> NoAp])]
            \in [AP -> Seq(ApFrame)]
      BY <2>2, <3>1
    <3>3. [apQueue EXCEPT ![a] = Append(@, [type |-> "refusal", target |-> NoAp])]
            \in [AP -> Seq(ApFrame)]
      BY <2>2, <3>1
    <3>4. QED BY <1>4, <3>2, <3>3 DEF ApReceivesRequest
  <2>4. listed' \in [AP -> BOOLEAN] BY <1>1, <1>4 DEF ApReceivesRequest
  <2>5. QED BY <1>1, <1>4, <2>1, <2>3, <2>4 DEF ApReceivesRequest
<1>5. ASSUME NEW a \in AP, ApReceivesDisassociation(a) PROVE StaTypeOK'
  <2>1. staQueue' \in Seq(StaFrame) BY <1>1, <1>5 DEF ApReceivesDisassociation, StaTransmits
  <2>2. listed' \in [AP -> BOOLEAN] BY <1>1, <1>5 DEF ApReceivesDisassociation
  <2>3. QED BY <1>1, <1>5, <2>1, <2>2 DEF ApReceivesDisassociation
<1>6. ASSUME NEW a \in AP, ReceiveAssocResp(a) PROVE StaTypeOK'
  <2>1. apQueue' \in [AP -> Seq(ApFrame)]
    BY <1>1, <1>6, ApQueueTyped DEF ReceiveAssocResp, ApTransmits
  <2>2. state' \in MacState /\ lastBssid' \in AP \cup {NoAp} /\ asserted' \in BOOLEAN
    BY <1>1, <1>6 DEF ReceiveAssocResp, MacState
  <2>3. assocTimer' \in Timer(AssocTimeout)
    BY <1>1, <1>6 DEF ReceiveAssocResp, StaAssumption, Timer, Off
  <2>4. QED BY <1>1, <1>6, <2>1, <2>2, <2>3 DEF ReceiveAssocResp
<1>7. ASSUME NEW a \in AP, ReceiveRefusal(a) PROVE StaTypeOK'
  <2>1. apQueue' \in [AP -> Seq(ApFrame)]
    BY <1>1, <1>7, ApQueueTyped DEF ReceiveRefusal, ApTransmits
  <2>2. state' \in MacState BY <1>1, <1>7 DEF ReceiveRefusal, MacState
  <2>3. assocTimer' \in Timer(AssocTimeout)
    BY <1>1, <1>7 DEF ReceiveRefusal, StaAssumption, Timer, Off
  <2>4. QED BY <1>1, <1>7, <2>1, <2>2, <2>3 DEF ReceiveRefusal
<1>8. ASSUME NEW a \in AP, ApFrameLost(a) PROVE StaTypeOK'
  <2>1. apQueue' \in [AP -> Seq(ApFrame)]
    BY <1>1, <1>8, ApQueueTyped DEF ApFrameLost, ApTransmits
  <2>2. listed' \in [AP -> BOOLEAN] BY <1>1, <1>8 DEF ApFrameLost
  <2>3. lost' \in Nat BY <1>1, <1>8 DEF ApFrameLost, Lost
  <2>4. QED BY <1>1, <1>8, <2>1, <2>2, <2>3 DEF ApFrameLost
<1>9. CASE AssocRequestTimeout
  <2>1. assocTimer # Off BY <1>9 DEF AssocRequestTimeout, Off
  <2>2. bssid \in AP BY <1>1, <2>1 DEF StaInv, RequestsAreRetried
  <2>3. SendAssociationRequest(bssid) BY <1>9 DEF AssocRequestTimeout
  <2>4. /\ bssid' = bssid /\ state' = "WAIT_ASSOC_RESP"
        /\ assocTimer' \in Timer(AssocTimeout) /\ staQueue' \in Seq(StaFrame)
    BY <1>1, <2>2, <2>3, RequestTyped
  <2>5. QED BY <1>1, <1>9, <2>4 DEF AssocRequestTimeout, MacState
<1>10. CASE MissedBeacons
  BY <1>1, <1>10 DEF MissedBeacons, StaAssumption, Timer, Off
<1>11. CASE DisassociatedEvent
  <2>1. assocTimer' \in Timer(AssocTimeout)
    BY <1>11 DEF DisassociatedEvent, Disassociated, StaAssumption, Timer, Off
  <2>2. QED BY <1>1, <1>11, <2>1 DEF DisassociatedEvent, Disassociated, MacState
<1>12. CASE NotifyChannelSwitching
  <2>1. assocTimer' \in Timer(AssocTimeout)
    BY <1>1, <1>12 DEF NotifyChannelSwitching, Disassociated, StaAssumption, Timer, Off
  <2>2. state' \in MacState /\ bssid' \in AP \cup {NoAp}
    BY <1>1, <1>12 DEF NotifyChannelSwitching, Disassociated, MacState
  <2>3. QED BY <1>1, <1>12, <2>1, <2>2 DEF NotifyChannelSwitching
<1>13. ASSUME NEW i \in 1..Len(roams), DoInitiateRoaming(i) PROVE StaTypeOK'
  BY <1>1, <1>13, DoInitiateRoamingTyped
<1>14. ASSUME NEW i \in 1..Len(roams), DoInitiateRoamingBusy(i) PROVE StaTypeOK'
  BY <1>1, <1>14 DEF DoInitiateRoamingBusy, MacState
<1>15. CASE StaFrameLost
  <2>1. staQueue' \in Seq(StaFrame) BY <1>1, <1>15 DEF StaFrameLost, StaTransmits
  <2>2. lost' \in Nat BY <1>1, <1>15 DEF StaFrameLost, Lost
  <2>3. QED BY <1>1, <1>15, <2>1, <2>2 DEF StaFrameLost
<1>16. CASE LoseBeacons
  <2>1. watchdog' \in Timer(WatchdogDelay) BY <1>16 DEF LoseBeacons, StaAssumption, Timer, Off
  <2>2. QED BY <1>1, <1>16, <2>1 DEF LoseBeacons
<1>17. QED
  BY <1>2, <1>3, <1>4, <1>5, <1>6, <1>7, <1>8, <1>9, <1>10, <1>11, <1>12, <1>13, <1>14,
     <1>15, <1>16 DEF StaStep

\* The move that a reconnection makes before it leaves the AP.
LEMMA ReconnectTyped ==
  ASSUME StaAssumption, StaTypeOK, Associated => bssid # NoAp, NEW a \in AP, Reconnect(a)
  PROVE  /\ state' \in MacState /\ bssid' \in AP \cup {NoAp} /\ chan' \in Channel
         /\ switching' \in BOOLEAN /\ assocTimer' \in Timer(AssocTimeout)
         /\ roams' \in Seq(Roam) /\ staQueue' \in Seq(StaFrame)
<1>1. /\ staQueue \in Seq(StaFrame) /\ switching \in BOOLEAN /\ roams \in Seq(Roam)
      /\ state \in MacState /\ bssid \in AP \cup {NoAp} /\ assocTimer \in Timer(AssocTimeout)
  BY DEF StaTypeOK
<1>2. CASE /\ Associated /\ bssid # a
           /\ SwitchTo(Chan[a])
           /\ Send("disassoc", bssid)
           /\ roams' = Append(roams, [target |-> a, left |-> LeaveDelay])
           /\ UNCHANGED <<state, bssid, assocTimer>>
  <2>1. bssid \in AP BY <1>1, <1>2
  <2>2. staQueue' \in Seq(StaFrame) BY <1>1, <1>2, <2>1, SendTyped
  <2>3. [target |-> a, left |-> LeaveDelay] \in Roam
    BY DEF Roam, StaAssumption, Timer, Off
  <2>4. roams' \in Seq(Roam) BY <1>1, <1>2, <2>3
  <2>5. chan' \in Channel /\ switching' \in BOOLEAN
    BY <1>1, <1>2 DEF SwitchTo, Channel
  <2>6. QED BY <1>1, <1>2, <2>2, <2>4, <2>5
<1>3. CASE Associate(a) /\ UNCHANGED roams
  BY <1>1, <1>3, AssociateTyped DEF MacState
<1>4. QED BY <1>2, <1>3 DEF Reconnect

\* Every call keeps the types.
LEMMA CallTyped ==
  ASSUME StaAssumption, StaInv, StaCall
  PROVE  StaTypeOK'
<1>1. StaTypeOK /\ (Associated => bssid # NoAp) BY DEF StaInv
<1>2. calls' \in Nat /\ UNCHANGED <<lost, missed>>
  <2>1. calls \in Nat BY <1>1 DEF StaTypeOK
  <2>2. Call => calls' \in Nat BY <2>1 DEF Call
  <2>3. QED
    BY <2>2 DEF StaCall, CallInitiateRoaming, CallAssociateToAp, CallReconnect,
                EnableAutoReconnect, ForcedDisassociate
<1>3. ASSUME NEW a \in AP, CallInitiateRoaming(a) PROVE StaTypeOK'
  <2>1. InitiateRoaming(a) BY <1>3 DEF CallInitiateRoaming
  <2>2. /\ state' \in MacState /\ bssid' \in AP \cup {NoAp} /\ chan' \in Channel
        /\ switching' \in BOOLEAN /\ assocTimer' \in Timer(AssocTimeout)
        /\ roams' \in Seq(Roam) /\ staQueue' \in Seq(StaFrame)
    BY <1>1, <2>1, InitiateRoamingTyped
  <2>3. QED BY <1>1, <1>2, <1>3, <2>2 DEF CallInitiateRoaming, StaTypeOK
<1>4. ASSUME NEW a \in AP, CallAssociateToAp(a) PROVE StaTypeOK'
  <2>1. Associate(a) /\ autoReconnect' \in BOOLEAN
    BY <1>1, <1>4 DEF CallAssociateToAp, AssociateToAp, StaTypeOK
  <2>2. staQueue \in Seq(StaFrame) /\ switching \in BOOLEAN BY <1>1 DEF StaTypeOK
  <2>3. /\ bssid' = a /\ state' = "WAIT_ASSOC_RESP" /\ assocTimer' \in Timer(AssocTimeout)
        /\ staQueue' \in Seq(StaFrame) /\ chan' \in Channel /\ switching' \in BOOLEAN
    BY <2>1, <2>2, AssociateTyped
  <2>4. QED BY <1>1, <1>2, <1>4, <2>1, <2>3 DEF CallAssociateToAp, StaTypeOK, MacState
<1>5. ASSUME NEW a \in AP, CallReconnect(a) PROVE StaTypeOK'
  <2>1. Reconnect(a) BY <1>5 DEF CallReconnect
  <2>2. /\ state' \in MacState /\ bssid' \in AP \cup {NoAp} /\ chan' \in Channel
        /\ switching' \in BOOLEAN /\ assocTimer' \in Timer(AssocTimeout)
        /\ roams' \in Seq(Roam) /\ staQueue' \in Seq(StaFrame)
    BY <1>1, <2>1, ReconnectTyped
  <2>3. QED BY <1>1, <1>2, <1>5, <2>2 DEF CallReconnect, StaTypeOK
<1>6. ASSUME NEW enable \in BOOLEAN, EnableAutoReconnect(enable) PROVE StaTypeOK'
  BY <1>1, <1>2, <1>6 DEF EnableAutoReconnect, StaTypeOK
<1>7. CASE ForcedDisassociate
  <2>1. assocTimer' \in Timer(AssocTimeout)
    BY <1>7 DEF ForcedDisassociate, Disassociated, StaAssumption, Timer, Off
  <2>2. QED BY <1>1, <1>2, <1>7, <2>1 DEF ForcedDisassociate, Disassociated, StaTypeOK, MacState
<1>8. QED BY <1>3, <1>4, <1>5, <1>6, <1>7 DEF StaCall

\* What the clock does to the timers, whatever else it drives.
LEMMA TimersTyped ==
  ASSUME StaAssumption, StaTypeOK, AdvanceStaTimers
  PROVE  /\ assocTimer' \in Timer(AssocTimeout) /\ watchdog' \in Timer(WatchdogDelay)
         /\ roams' \in Seq(Roam) /\ Len(roams') = Len(roams)
<1>1. assocTimer' \in Timer(AssocTimeout)
  BY CountDownTyped DEF AdvanceStaTimers, StaTypeOK, StaAssumption
<1>2. /\ CountDown(watchdog) \in Timer(WatchdogDelay)
      /\ WatchdogDelay \in Timer(WatchdogDelay)
  <2>1. CountDown(watchdog) \in Timer(WatchdogDelay)
    BY CountDownTyped DEF StaTypeOK, StaAssumption
  <2>2. QED BY <2>1 DEF StaAssumption, Timer, Off
<1>3. watchdog' \in Timer(WatchdogDelay) BY <1>2 DEF AdvanceStaTimers
<1>4. roams \in Seq(Roam) BY DEF StaTypeOK
<1>5. ASSUME NEW i \in 1..Len(roams)
      PROVE  [roams[i] EXCEPT !.left = CountDown(@)] \in Roam
  <2>1. roams[i] \in Roam BY <1>4
  <2>2. roams[i].left \in Timer(LeaveDelay) BY <2>1 DEF Roam
  <2>3. CountDown(roams[i].left) \in Timer(LeaveDelay)
    BY <2>2, CountDownTyped DEF StaAssumption
  <2>4. QED BY <2>1, <2>3 DEF Roam
<1>6. Len(roams) \in Nat BY <1>4
<1>7. roams' = [i \in 1..Len(roams) |-> [roams[i] EXCEPT !.left = CountDown(@)]]
  BY DEF AdvanceStaTimers
<1>8. QED BY <1>1, <1>3, <1>5, <1>6, <1>7

\* The clock keeps the types.
LEMMA TickTyped ==
  ASSUME StaAssumption, StaInv, StaTick
  PROVE  StaTypeOK'
<1>1. StaTypeOK /\ AdvanceStaTimers BY DEF StaInv, StaTick
<1>2. /\ assocTimer' \in Timer(AssocTimeout) /\ watchdog' \in Timer(WatchdogDelay)
      /\ roams' \in Seq(Roam)
  BY <1>1, TimersTyped
<1>3. QED BY <1>1, <1>2 DEF StaTick, StaTypeOK, counters

----------------------------------------------------------------------------
(* The association invariant. *)

\* A step that ends in a request, whatever else it does, leaves a retry running.
LEMMA RequestKeepsInv ==
  ASSUME StaAssumption, StaTypeOK', NEW a \in AP,
         bssid' = a, state' = "WAIT_ASSOC_RESP", assocTimer' # Off
  PROVE  StaInv'
BY DEF StaInv, Associated, AssociatedOnChannel, RequestsAreRetried, StaAssumption

\* A step that ends in scanning, without a BSSID, leaves none.
LEMMA ScanKeepsInv ==
  ASSUME StaTypeOK', Disassociated
  PROVE  StaInv'
BY DEF StaInv, Disassociated, Associated, AssociatedOnChannel, RequestsAreRetried

\* A step that touches neither the association nor the schedule.
LEMMA QuietStepKeepsInv ==
  ASSUME StaInv, StaTypeOK', UNCHANGED <<state, bssid, chan, switching, assocTimer, roams>>
  PROVE  StaInv'
BY DEF StaInv, Associated, AssociatedOnChannel, RequestsAreRetried

\* A roam put off keeps the roams that are due.
LEMMA AppendKeepsDue ==
  ASSUME roams \in Seq(Roam), NEW r \in Roam, roams' = Append(roams, r)
  PROVE  /\ \A i \in 1..Len(roams) : i \in 1..Len(roams') /\ roams'[i] = roams[i]
         /\ Len(roams') \in 1..Len(roams') /\ roams'[Len(roams')] = r
<1>1. Len(roams) \in Nat /\ Len(roams') = Len(roams) + 1 OBVIOUS
<1>2. \A i \in 1..Len(roams) : roams'[i] = roams[i] OBVIOUS
<1>3. roams'[Len(roams) + 1] = r OBVIOUS
<1>4. QED BY <1>1, <1>2, <1>3

\* Every handler keeps the invariant.
LEMMA StepKeepsInv ==
  ASSUME StaAssumption, StaInv, StaStep
  PROVE  StaInv'
<1>1. StaTypeOK' BY StepTyped
<1>2. StaTypeOK BY DEF StaInv
<1>3. ASSUME NEW a \in AP, ScanningTimeout(a) PROVE StaInv'
  <2>1. SendAssociationRequest(a) /\ staQueue \in Seq(StaFrame)
    BY <1>2, <1>3 DEF ScanningTimeout, StaTypeOK
  <2>2. bssid' = a /\ state' = "WAIT_ASSOC_RESP" /\ assocTimer' # Off
    BY <2>1, RequestTyped
  <2>3. QED BY <1>1, <2>2, RequestKeepsInv
<1>4. CASE AssocRequestTimeout
  <2>1. bssid \in AP
    BY <1>2, <1>4 DEF AssocRequestTimeout, StaInv, RequestsAreRetried, StaTypeOK, Off
  <2>2. SendAssociationRequest(bssid) /\ staQueue \in Seq(StaFrame)
    BY <1>2, <1>4 DEF AssocRequestTimeout, StaTypeOK
  <2>3. bssid' = bssid /\ state' = "WAIT_ASSOC_RESP" /\ assocTimer' # Off
    BY <2>1, <2>2, RequestTyped
  <2>4. QED BY <1>1, <2>1, <2>3, RequestKeepsInv
<1>5. ASSUME NEW i \in 1..Len(roams), DoInitiateRoaming(i) PROVE StaInv'
  <2>1. roams[i].target \in AP
    <3>1. roams[i] \in Roam BY <1>2 DEF StaTypeOK
    <3>2. QED BY <3>1 DEF Roam
  <2>2. /\ Associate(roams[i].target)
        /\ staQueue \in Seq(StaFrame) /\ switching \in BOOLEAN
    BY <1>2, <1>5 DEF DoInitiateRoaming, StaTypeOK
  <2>3. bssid' = roams[i].target /\ state' = "WAIT_ASSOC_RESP" /\ assocTimer' # Off
    BY <2>1, <2>2, AssociateTyped
  <2>4. QED BY <1>1, <2>1, <2>3, RequestKeepsInv
<1>6. ASSUME NEW i \in 1..Len(roams), DoInitiateRoamingBusy(i) PROVE StaInv'
  BY <1>1, <1>6 DEF DoInitiateRoamingBusy, StaInv, Associated, AssociatedOnChannel, RequestsAreRetried
<1>7. CASE DisassociatedEvent
  BY <1>1, <1>7, ScanKeepsInv DEF DisassociatedEvent
<1>8. CASE NotifyChannelSwitching
  <2>1. CASE Associated
    BY <1>1, <1>8, <2>1, ScanKeepsInv DEF NotifyChannelSwitching
  <2>2. CASE ~Associated
    BY <1>1, <1>8, <2>2 DEF NotifyChannelSwitching, StaInv, Associated, AssociatedOnChannel, RequestsAreRetried
  <2>3. QED BY <2>1, <2>2
<1>9. ASSUME NEW a \in AP, ReceiveAssocResp(a) PROVE StaInv'
  <2>1. CASE ExpectingResponse /\ bssid = a
    <3>1. /\ state' = "ASSOCIATED" /\ assocTimer' = Off /\ bssid' = a /\ chan' = Chan[a]
      BY <1>9, <2>1 DEF ReceiveAssocResp
    <3>2. QED
      BY <1>1, <3>1 DEF StaInv, Associated, AssociatedOnChannel, RequestsAreRetried, StaAssumption
  <2>2. CASE ~(ExpectingResponse /\ bssid = a)
    <3>1. UNCHANGED <<state, bssid, chan, switching, assocTimer, roams>>
      BY <1>9, <2>2 DEF ReceiveAssocResp
    <3>2. QED BY <1>1, <3>1, QuietStepKeepsInv
  <2>3. QED BY <2>1, <2>2
<1>10. ASSUME NEW a \in AP, ReceiveRefusal(a) PROVE StaInv'
  <2>1. CASE ExpectingResponse
    <3>1. state' = "SCANNING" /\ assocTimer' = Off
      BY <1>10, <2>1 DEF ReceiveRefusal
    <3>2. QED BY <1>1, <3>1 DEF StaInv, Associated, AssociatedOnChannel, RequestsAreRetried
  <2>2. CASE ~ExpectingResponse
    <3>1. UNCHANGED <<state, bssid, chan, switching, assocTimer, roams>>
      BY <1>10, <2>2 DEF ReceiveRefusal
    <3>2. QED BY <1>1, <3>1, QuietStepKeepsInv
  <2>3. QED BY <2>1, <2>2
<1>11. ASSUME NEW a \in AP,
              \/ NotifyApInfo(a) \/ ApReceivesRequest(a) \/ ApReceivesDisassociation(a)
              \/ ApFrameLost(a)
       PROVE  StaInv'
  <2>1. UNCHANGED <<state, bssid, chan, switching, assocTimer, roams>>
    BY <1>11 DEF NotifyApInfo, ApReceivesRequest, ApReceivesDisassociation, ApFrameLost
  <2>2. QED BY <1>1, <2>1, QuietStepKeepsInv
<1>12. CASE MissedBeacons \/ StaFrameLost \/ LoseBeacons
  <2>1. UNCHANGED <<state, bssid, chan, switching, assocTimer, roams>>
    BY <1>12 DEF MissedBeacons, StaFrameLost, LoseBeacons
  <2>2. QED BY <1>1, <2>1, QuietStepKeepsInv
<1>13. QED
  BY <1>3, <1>4, <1>5, <1>6, <1>7, <1>8, <1>9, <1>10, <1>11, <1>12 DEF StaStep

\* A step that leaves a frame and schedules a move, with the channel kept or moved.
LEMMA ScheduledMoveKeepsInv ==
  ASSUME StaInv, StaTypeOK', NEW r \in Roam, roams' = Append(roams, r),
         UNCHANGED <<state, bssid, assocTimer>>,
         (chan' = chan /\ switching' = switching) \/ switching'
  PROVE  StaInv'
<1>1. \A i \in 1..Len(roams) : i \in 1..Len(roams') /\ roams'[i] = roams[i]
  BY AppendKeepsDue DEF StaInv, StaTypeOK
<1>2. RequestsAreRetried' BY <1>1 DEF StaInv, RequestsAreRetried
<1>3. QED BY <1>2 DEF StaInv, Associated, AssociatedOnChannel

\* A call to roam, made by a user or by a steering AP, keeps the invariant.
LEMMA InitiateRoamingKeepsInv ==
  ASSUME StaAssumption, StaInv, StaTypeOK', NEW a \in AP, InitiateRoaming(a)
  PROVE  StaInv'
<1>1. roams \in Seq(Roam) /\ staQueue \in Seq(StaFrame) /\ switching \in BOOLEAN
  BY DEF StaInv, StaTypeOK
<1>2. [target |-> a, left |-> LeaveDelay] \in Roam /\ [target |-> a, left |-> 0] \in Roam
  BY DEF Roam, StaAssumption, Timer, Off
<1>3. CASE /\ roams' = Append(roams, [target |-> a, left |-> LeaveDelay])
           /\ UNCHANGED <<state, bssid, chan, switching, assocTimer>>
  BY <1>2, <1>3, ScheduledMoveKeepsInv
<1>4. CASE /\ state' = "ROAMING"
           /\ roams' = Append(roams, [target |-> a, left |-> 0])
           /\ UNCHANGED <<bssid, chan, switching, assocTimer, staQueue>>
  <2>1. Len(roams') \in 1..Len(roams') /\ roams'[Len(roams')] = [target |-> a, left |-> 0]
    BY <1>1, <1>2, <1>4, AppendKeepsDue
  <2>2. roams'[Len(roams')].left = 0 BY <2>1
  <2>3. \E i \in 1..Len(roams') : roams'[i].left = 0 BY <2>1, <2>2
  <2>4. QED BY <1>4, <2>3 DEF StaInv, Associated, AssociatedOnChannel, RequestsAreRetried
<1>5. CASE Associate(a)
  <2>1. bssid' = a /\ state' = "WAIT_ASSOC_RESP" /\ assocTimer' # Off
    BY <1>1, <1>5, AssociateTyped
  <2>2. QED BY <2>1, RequestKeepsInv
<1>6. QED BY <1>3, <1>4, <1>5 DEF InitiateRoaming

\* So does a reconnection, called by a user or by a manager.
LEMMA ReconnectKeepsInv ==
  ASSUME StaAssumption, StaInv, StaTypeOK', NEW a \in AP, Reconnect(a)
  PROVE  StaInv'
<1>1. staQueue \in Seq(StaFrame) /\ switching \in BOOLEAN BY DEF StaInv, StaTypeOK
<1>2. CASE /\ SwitchTo(Chan[a])
           /\ roams' = Append(roams, [target |-> a, left |-> LeaveDelay])
           /\ UNCHANGED <<state, bssid, assocTimer>>
  <2>1. (chan' = chan /\ switching' = switching) \/ switching'
    BY <1>1, <1>2 DEF SwitchTo
  <2>2. [target |-> a, left |-> LeaveDelay] \in Roam
    BY DEF Roam, StaAssumption, Timer, Off
  <2>3. QED BY <1>2, <2>1, <2>2, ScheduledMoveKeepsInv
<1>3. CASE Associate(a)
  <2>1. bssid' = a /\ state' = "WAIT_ASSOC_RESP" /\ assocTimer' # Off
    BY <1>1, <1>3, AssociateTyped
  <2>2. QED BY <2>1, RequestKeepsInv
<1>4. QED BY <1>2, <1>3 DEF Reconnect

\* Every call keeps the invariant.
LEMMA CallKeepsInv ==
  ASSUME StaAssumption, StaInv, StaCall
  PROVE  StaInv'
<1>1. StaTypeOK' BY CallTyped
<1>2. staQueue \in Seq(StaFrame) /\ switching \in BOOLEAN
  BY DEF StaInv, StaTypeOK
<1>3. ASSUME NEW a \in AP, Associate(a) PROVE StaInv'
  <2>1. bssid' = a /\ state' = "WAIT_ASSOC_RESP" /\ assocTimer' # Off
    BY <1>2, <1>3, AssociateTyped
  <2>2. QED BY <1>1, <2>1, RequestKeepsInv
<1>4. ASSUME NEW a \in AP, InitiateRoaming(a) PROVE StaInv'
  BY <1>1, <1>4, InitiateRoamingKeepsInv
<1>5. ASSUME NEW a \in AP, Reconnect(a) PROVE StaInv'
  BY <1>1, <1>5, ReconnectKeepsInv
<1>6. ASSUME NEW enable \in BOOLEAN, EnableAutoReconnect(enable) PROVE StaInv'
  BY <1>1, <1>6, QuietStepKeepsInv DEF EnableAutoReconnect
<1>7. CASE ForcedDisassociate
  BY <1>1, <1>7, ScanKeepsInv DEF ForcedDisassociate
<1>8. QED
  BY <1>3, <1>4, <1>5, <1>6, <1>7
  DEF StaCall, CallInitiateRoaming, CallAssociateToAp, CallReconnect, AssociateToAp

\* The clock keeps it: a due roam holds it back, and it turns no timer off.
LEMMA ClockKeepsInv ==
  ASSUME StaAssumption, StaInv, StaTypeOK', NothingDue, AdvanceStaTimers,
         UNCHANGED <<state, bssid, chan, switching>>
  PROVE  StaInv'
<1>1. assocTimer' = CountDown(assocTimer) /\ assocTimer \in Timer(AssocTimeout)
  BY DEF AdvanceStaTimers, StaInv, StaTypeOK
<1>2. (assocTimer # Off) <=> (assocTimer' # Off)
  BY <1>1 DEF CountDown, Timer, Off, StaAssumption
<1>3. state # "ROAMING" BY DEF StaInv, NothingDue, RequestsAreRetried
<1>4. QED
  BY <1>2, <1>3 DEF StaInv, Associated, AssociatedOnChannel, RequestsAreRetried

\* So does its tick.
LEMMA TickKeepsInv ==
  ASSUME StaAssumption, StaInv, StaTick
  PROVE  StaInv'
<1>1. StaTypeOK' BY TickTyped
<1>2. QED BY <1>1, ClockKeepsInv DEF StaTick

----------------------------------------------------------------------------
(* Theorems of the specification. *)

\* The invariant holds throughout.
LEMMA StaInvariant ==
  ASSUME StaAssumption
  PROVE  StaSpec => []StaInv
<1>1. StaInit => StaInv
  BY InitTyped DEF StaInit, StaInv, Associated, AssociatedOnChannel, RequestsAreRetried, Off
<1>2. StaInv /\ [StaNext]_staVars => StaInv'
  <2>1. ASSUME StaInv, UNCHANGED staVars PROVE StaInv'
    BY <2>1 DEF StaInv, StaTypeOK, Associated, AssociatedOnChannel, RequestsAreRetried,
                staVars, counters
  <2>2. QED
    BY <2>1, StepKeepsInv, CallKeepsInv, TickKeepsInv DEF StaNext
<1>3. QED BY <1>1, <1>2, PTL DEF StaSpec

\* Every variable keeps its type, among any APs and with any delays: no frame is ever
\* addressed to an AP the station does not have.
THEOREM StaTypeCorrect == StaSpec => []StaTypeOK
<1>1. StaInv => StaTypeOK BY DEF StaInv
<1>2. QED BY <1>1, StaAssumption, StaInvariant, PTL

\* An associated station is on its AP's channel but for the time between a switch and
\* its notification (NotifyChannelSwitching), whatever roams and calls overlap.
THEOREM StationOnChannel == StaSpec => []AssociatedOnChannel
<1>1. StaInv => AssociatedOnChannel BY DEF StaInv
<1>2. QED BY <1>1, StaAssumption, StaInvariant, PTL

\* No request is left without a retry, no retry without a BSSID to send it to, and no
\* roam without the event that completes it.
THEOREM StationRetries == StaSpec => []RequestsAreRetried
<1>1. StaInv => RequestsAreRetried BY DEF StaInv
<1>2. QED BY <1>1, StaAssumption, StaInvariant, PTL

----------------------------------------------------------------------------
(* The station and its APs implement Association. *)

\* What the abstract specification sees of a step.
AssocStep == Assoc!AssocNext \/ UNCHANGED <<IF Associated THEN bssid ELSE NoAp, apQueue, listed>>

\* A step that ends outside ASSOCIATED and leaves the APs alone: Leave.
LEMMA LeaveStep ==
  ASSUME state' # "ASSOCIATED", UNCHANGED <<apQueue, listed>>
  PROVE  AssocStep
<1>1. (IF Associated THEN bssid ELSE NoAp)' = NoAp BY DEF Associated
<1>2. Assoc!Leave BY <1>1 DEF Assoc!Leave
<1>3. QED BY <1>2 DEF AssocStep, Assoc!AssocNext

\* A step that changes nothing the abstract specification sees.
LEMMA StutterStep ==
  ASSUME UNCHANGED <<state, bssid, apQueue, listed>>
  PROVE  AssocStep
BY DEF AssocStep, Associated

\* Frames the AP queues, with which it lists the station if they accept it.
LEMMA ApReceivesRequestStep ==
  ASSUME StaTypeOK, NEW a \in AP, ApReceivesRequest(a)
  PROVE  AssocStep
<1>1. listed \in [AP -> BOOLEAN] BY DEF StaTypeOK
<1>2. UNCHANGED (IF Associated THEN bssid ELSE NoAp)
  BY DEF ApReceivesRequest, Associated
<1>3. CASE a \notin Refusers
  <2> DEFINE frame == [type |-> "assocResp", target |-> NoAp]
  <2>1. frame \in ApFrame BY DEF ApFrame
  <2>2. apQueue' = [apQueue EXCEPT ![a] = Append(@, frame)]
    BY <1>3 DEF ApReceivesRequest
  <2>3. listed' = [listed EXCEPT ![a] = @ \/ frame.type = "assocResp"]
    BY <1>1, <1>3 DEF ApReceivesRequest
  <2>4. Assoc!Answer(a, frame) BY <1>2, <2>2, <2>3 DEF Assoc!Answer
  <2>5. QED BY <2>1, <2>4 DEF AssocStep, Assoc!AssocNext
<1>4. CASE a \in Refusers
  <2> DEFINE frame == [type |-> "refusal", target |-> NoAp]
  <2>1. frame \in ApFrame BY DEF ApFrame
  <2>2. apQueue' = [apQueue EXCEPT ![a] = Append(@, frame)]
    BY <1>4 DEF ApReceivesRequest
  <2>3. listed' = listed /\ frame.type # "assocResp"
    BY <1>4 DEF ApReceivesRequest
  <2>4. listed' = [listed EXCEPT ![a] = @ \/ frame.type = "assocResp"]
    BY <1>1, <2>3
  <2>5. Assoc!Answer(a, frame) BY <1>2, <2>2, <2>4 DEF Assoc!Answer
  <2>6. QED BY <2>1, <2>5 DEF AssocStep, Assoc!AssocNext
<1>5. QED BY <1>3, <1>4

\* The response the station acts on: it joined no AP before.
LEMMA ReceiveAssocRespStep ==
  ASSUME StaTypeOK, NEW a \in AP, ReceiveAssocResp(a)
  PROVE  AssocStep
<1>1. Assoc!Read(a) /\ UNCHANGED listed
  BY DEF ReceiveAssocResp, ApTransmits, Assoc!Read
<1>2. CASE ExpectingResponse /\ bssid = a
  <2>1. (IF Associated THEN bssid ELSE NoAp) = NoAp
    BY <1>2 DEF ExpectingResponse, Associated
  <2>2. (IF Associated THEN bssid ELSE NoAp)' = a
    BY <1>2 DEF ReceiveAssocResp, Associated
  <2>3. Head(apQueue[a]).type = "assocResp" BY DEF ReceiveAssocResp
  <2>4. Assoc!Join(a) BY <1>1, <2>1, <2>2, <2>3 DEF Assoc!Join
  <2>5. QED BY <2>4 DEF AssocStep, Assoc!AssocNext
<1>3. CASE ~(ExpectingResponse /\ bssid = a)
  <2>1. UNCHANGED (IF Associated THEN bssid ELSE NoAp)
    BY <1>3 DEF ReceiveAssocResp, Associated
  <2>2. Assoc!Ignore(a) BY <1>1, <2>1 DEF Assoc!Ignore
  <2>3. QED BY <2>2 DEF AssocStep, Assoc!AssocNext
<1>4. QED BY <1>2, <1>3

\* Every step of the station and its APs is one of Association, or none.
LEMMA NextImplements ==
  ASSUME StaInv, StaNext
  PROVE  AssocStep
<1>1. StaTypeOK BY DEF StaInv
<1>2. ASSUME NEW a \in AP,
             \/ ScanningTimeout(a) \/ CallAssociateToAp(a)
      PROVE  AssocStep
  BY <1>2, LeaveStep
  DEF ScanningTimeout, CallAssociateToAp, AssociateToAp, Associate, SendAssociationRequest
<1>3. ASSUME NEW i \in 1..Len(roams), DoInitiateRoaming(i) \/ DoInitiateRoamingBusy(i)
      PROVE  AssocStep
  BY <1>3, LeaveStep
  DEF DoInitiateRoaming, DoInitiateRoamingBusy, Associate, SendAssociationRequest
<1>4. CASE AssocRequestTimeout \/ DisassociatedEvent \/ ForcedDisassociate
  BY <1>4, LeaveStep
  DEF AssocRequestTimeout, SendAssociationRequest, DisassociatedEvent, ForcedDisassociate,
      Disassociated
<1>5. CASE NotifyChannelSwitching
  BY <1>5, LeaveStep, StutterStep DEF NotifyChannelSwitching, Disassociated
<1>6. ASSUME NEW a \in AP, CallInitiateRoaming(a) \/ CallReconnect(a) PROVE AssocStep
  <2>1. state' # "ASSOCIATED" \/ UNCHANGED <<state, bssid>>
    BY <1>6 DEF CallInitiateRoaming, InitiateRoaming, CallReconnect, Reconnect, Associate,
                SendAssociationRequest
  <2>2. UNCHANGED <<apQueue, listed>> BY <1>6 DEF CallInitiateRoaming, CallReconnect
  <2>3. QED BY <2>1, <2>2, LeaveStep, StutterStep
<1>7. ASSUME NEW a \in AP, NotifyApInfo(a) PROVE AssocStep
  BY <1>7, StutterStep DEF NotifyApInfo
<1>8. ASSUME NEW enable \in BOOLEAN, EnableAutoReconnect(enable) PROVE AssocStep
  BY <1>8, StutterStep DEF EnableAutoReconnect
<1>9. CASE MissedBeacons \/ StaFrameLost \/ LoseBeacons \/ StaTick
  BY <1>9, StutterStep DEF MissedBeacons, StaFrameLost, LoseBeacons, StaTick
<1>10. ASSUME NEW a \in AP, ApReceivesRequest(a) PROVE AssocStep
  BY <1>1, <1>10, ApReceivesRequestStep
<1>11. ASSUME NEW a \in AP, ApReceivesDisassociation(a) PROVE AssocStep
  <2>1. Assoc!Forget(a)
    BY <1>11 DEF ApReceivesDisassociation, Assoc!Forget, Associated
  <2>2. QED BY <2>1 DEF AssocStep, Assoc!AssocNext
<1>12. ASSUME NEW a \in AP, ReceiveAssocResp(a) PROVE AssocStep
  BY <1>1, <1>12, ReceiveAssocRespStep
<1>13. ASSUME NEW a \in AP, ReceiveRefusal(a) PROVE AssocStep
  <2>1. UNCHANGED (IF Associated THEN bssid ELSE NoAp)
    BY <1>13 DEF ReceiveRefusal, Associated, ExpectingResponse
  <2>2. Assoc!Ignore(a)
    BY <1>13, <2>1 DEF ReceiveRefusal, ApTransmits, Assoc!Ignore, Assoc!Read
  <2>3. QED BY <2>2 DEF AssocStep, Assoc!AssocNext
<1>14. ASSUME NEW a \in AP, ApFrameLost(a) PROVE AssocStep
  <2>1. Assoc!Unread(a)
    BY <1>14 DEF ApFrameLost, ApTransmits, Assoc!Unread, Assoc!Read, Associated
  <2>2. QED BY <2>1 DEF AssocStep, Assoc!AssocNext
<1>15. QED
  BY <1>2, <1>3, <1>4, <1>5, <1>6, <1>7, <1>8, <1>9, <1>10, <1>11, <1>12, <1>13, <1>14
  DEF StaNext, StaStep, StaCall

\* The station joins an AP only by reading an acceptance of that AP, unread before, and
\* only when it has left the one before; an AP lists it from the acceptance on, until
\* that goes unread or the station takes its leave: ReceiveAssocResp and the AP's
\* SendAssocResp and TxFailed together implement Association.
THEOREM StationImplementsAssociation == StaSpec => ImplementsAssociation
<1>1. StaInit => Assoc!AssocInit
  BY DEF StaInit, Assoc!AssocInit, Associated
<1>2. StaInv /\ [StaNext]_staVars => [Assoc!AssocNext]_(Assoc!assocVars)
  <2>1. ASSUME StaInv, StaNext PROVE [Assoc!AssocNext]_(Assoc!assocVars)
    BY <2>1, NextImplements DEF AssocStep, Assoc!assocVars
  <2>2. ASSUME UNCHANGED staVars PROVE [Assoc!AssocNext]_(Assoc!assocVars)
    BY <2>2 DEF staVars, Assoc!assocVars, Associated
  <2>3. QED BY <2>1, <2>2
<1>3. QED
  BY <1>1, <1>2, StaAssumption, StaInvariant, PTL
  DEF StaSpec, ImplementsAssociation, Assoc!AssocSpec
----------------------------------------------------------------------------
(* The AP of a settled station lists it. *)

AssocRequest(a) == [type |-> "assocReq", ap |-> a]
Goodbye(a) == [type |-> "disassoc", ap |-> a]

\* Once the station's queue is transmitted, AP a lists it: it does so now, or a request
\* to it is queued, and no disassociation from it is queued after that.
WillBeListed(a) ==
  \/ listed[a] /\ \A j \in 1..Len(staQueue) : staQueue[j] # Goodbye(a)
  \/ \E i \in 1..Len(staQueue) :
       /\ staQueue[i] = AssocRequest(a)
       /\ \A j \in 1..Len(staQueue) : j > i => staQueue[j] # Goodbye(a)

\* What was settled about a station is unsettled only by a roam: as long as none is
\* scheduled and no frame got lost, the AP whose channel the station is on will list it.
Listing ==
  lost = 0 /\ bssid \in AP \ Refusers /\ chan = Chan[bssid] /\ roams = <<>>
    => WillBeListed(bssid)

\* A station associates with no AP that refuses it, because such an AP sends no acceptance.
Accepted ==
  /\ Associated => bssid \in AP \ Refusers
  /\ \A a \in Refusers : \A i \in 1..Len(apQueue[a]) : apQueue[a][i].type # "assocResp"

ListingInv == Listing /\ Accepted

\* What a step owes them: it may leave the station unsettled, or what it was.
ListingKept == Accepted' /\ (Listing => Listing')

\* A request queued last is followed by no disassociation.
LEMMA RequestGivesListing ==
  ASSUME staQueue \in Seq(StaFrame), NEW a \in AP, SendAssociationRequest(a)
  PROVE  Listing'
<1>1. bssid' = a /\ staQueue' = Append(staQueue, AssocRequest(a))
  BY DEF SendAssociationRequest, Send, AssocRequest
<1>2. /\ Len(staQueue') \in 1..Len(staQueue') /\ staQueue'[Len(staQueue')] = AssocRequest(a)
      /\ \A j \in 1..Len(staQueue') : ~(j > Len(staQueue'))
  <2>1. AssocRequest(a) \in StaFrame BY DEF AssocRequest, StaFrame
  <2>2. Len(staQueue) \in Nat /\ Len(staQueue') = Len(staQueue) + 1 BY <1>1, <2>1
  <2>3. staQueue'[Len(staQueue) + 1] = AssocRequest(a) BY <1>1, <2>1
  <2>4. QED BY <2>2, <2>3
<1>3. WillBeListed(a)' BY <1>2 DEF WillBeListed
<1>4. QED BY <1>1, <1>3 DEF Listing, WillBeListed

\* A frame leaves the queue: a request that AP a has answered, or any other that neither
\* asks it nor takes leave of it.
LEMMA TransmitKeepsListing ==
  ASSUME staQueue \in Seq(StaFrame), staQueue # <<>>, staQueue' = Tail(staQueue),
         NEW a \in AP, WillBeListed(a),
         StaHead = AssocRequest(a) => listed'[a],
         listed[a] /\ StaHead # Goodbye(a) => listed'[a]
  PROVE  WillBeListed(a)'
<1>1. /\ Len(staQueue) \in Nat \ {0} /\ Len(staQueue') = Len(staQueue) - 1
      /\ StaHead = staQueue[1]
      /\ \A j \in 1..Len(staQueue') : staQueue'[j] = staQueue[j + 1]
  BY DEF StaHead
<1>2. \A j \in 1..Len(staQueue') : j + 1 \in 1..Len(staQueue) /\ j + 1 > 1
  BY <1>1
<1>3. CASE listed[a] /\ \A j \in 1..Len(staQueue) : staQueue[j] # Goodbye(a)
  <2>1. StaHead # Goodbye(a) BY <1>1, <1>3
  <2>2. \A j \in 1..Len(staQueue') : staQueue'[j] # Goodbye(a) BY <1>1, <1>2, <1>3
  <2>3. QED BY <1>3, <2>1, <2>2 DEF WillBeListed
<1>4. ASSUME NEW i \in 1..Len(staQueue), staQueue[i] = AssocRequest(a),
             \A j \in 1..Len(staQueue) : j > i => staQueue[j] # Goodbye(a)
      PROVE  WillBeListed(a)'
  <2>1. CASE i = 1
    <3>1. listed'[a] BY <1>1, <1>4, <2>1
    <3>2. \A j \in 1..Len(staQueue') : staQueue'[j] # Goodbye(a) BY <1>1, <1>2, <1>4, <2>1
    <3>3. QED BY <3>1, <3>2 DEF WillBeListed
  <2>2. CASE i # 1
    <3>1. i - 1 \in 1..Len(staQueue') /\ (i - 1) + 1 = i BY <1>1, <2>2
    <3>2. staQueue'[i - 1] = AssocRequest(a) BY <1>1, <1>4, <3>1
    <3>3. ASSUME NEW j \in 1..Len(staQueue'), j > i - 1 PROVE staQueue'[j] # Goodbye(a)
      <4>1. j + 1 \in 1..Len(staQueue) /\ j + 1 > i BY <1>1, <3>3
      <4>2. QED BY <1>1, <1>4, <4>1
    <3>4. QED BY <3>1, <3>2, <3>3 DEF WillBeListed
  <2>3. QED BY <2>1, <2>2
<1>5. QED BY <1>3, <1>4 DEF WillBeListed

\* A station without a BSSID, or with a roam scheduled, is not settled.
LEMMA UnsettledListing ==
  ASSUME bssid' = NoAp \/ roams' # <<>>, StaAssumption
  PROVE  Listing'
BY DEF Listing, StaAssumption

\* A step that moves nothing that counts.
LEMMA QuietListing ==
  ASSUME UNCHANGED <<bssid, chan, staQueue, listed>>,
         roams' = <<>> => roams = <<>>, lost' = 0 => lost = 0
  PROVE  Listing => Listing'
BY DEF Listing, WillBeListed

\* No step but a response associates the station.
LEMMA AcceptedKept ==
  ASSUME Accepted, UNCHANGED apQueue, Associated' => Associated /\ bssid' = bssid
  PROVE  Accepted'
BY DEF Accepted

\* A frame that AP a has transmitted, received or not.
LEMMA ApTransmitsAccepted ==
  ASSUME StaTypeOK, Accepted, NEW a \in AP, ApTransmits(a),
         Associated' => Associated /\ bssid' = bssid
  PROVE  Accepted'
<1>1. /\ apQueue \in [AP -> Seq(ApFrame)] /\ apQueue[a] # <<>>
      /\ apQueue' = [apQueue EXCEPT ![a] = Tail(@)]
  BY DEF StaTypeOK, ApTransmits
<1>2. ASSUME NEW b \in Refusers, NEW i \in 1..Len(apQueue'[b])
      PROVE  apQueue'[b][i].type # "assocResp"
  <2>1. b \in AP BY <1>1, StaAssumption DEF StaAssumption
  <2>2. CASE b = a
    <3>1. apQueue[a] \in Seq(ApFrame) /\ apQueue'[b] = Tail(apQueue[a]) BY <1>1, <2>1, <2>2
    <3>2. i + 1 \in 1..Len(apQueue[a]) /\ apQueue'[b][i] = apQueue[a][i + 1]
      BY <1>1, <1>2, <3>1
    <3>3. QED BY <2>2, <3>2 DEF Accepted
  <2>3. CASE b # a
    BY <1>1, <1>2, <2>1, <2>3 DEF Accepted
  <2>4. QED BY <2>2, <2>3
<1>3. QED BY <1>2 DEF Accepted

\* An AP answers with an acceptance only if it does not refuse the station.
LEMMA ApReceivesRequestAccepted ==
  ASSUME StaTypeOK, Accepted, NEW a \in AP, ApReceivesRequest(a)
  PROVE  Accepted'
<1>1. apQueue \in [AP -> Seq(ApFrame)] /\ UNCHANGED <<state, bssid>>
  BY DEF StaTypeOK, ApReceivesRequest
<1>2. PICK frame \in ApFrame : /\ apQueue' = [apQueue EXCEPT ![a] = Append(@, frame)]
                               /\ a \in Refusers => frame.type # "assocResp"
  BY DEF ApReceivesRequest, ApFrame
<1>3. ASSUME NEW b \in Refusers, NEW i \in 1..Len(apQueue'[b])
      PROVE  apQueue'[b][i].type # "assocResp"
  <2>1. b \in AP BY StaAssumption DEF StaAssumption
  <2>2. CASE b = a
    <3>1. apQueue[a] \in Seq(ApFrame) /\ apQueue'[b] = Append(apQueue[a], frame)
      BY <1>1, <1>2, <2>1, <2>2
    <3>2. i = Len(apQueue[a]) + 1 \/ (i \in 1..Len(apQueue[a])) BY <1>3, <3>1
    <3>3. CASE i = Len(apQueue[a]) + 1 BY <1>2, <2>2, <3>1, <3>3
    <3>4. CASE i \in 1..Len(apQueue[a])
      <4>1. apQueue'[b][i] = apQueue[a][i] BY <3>1, <3>4
      <4>2. QED BY <2>2, <3>4, <4>1 DEF Accepted
    <3>5. QED BY <3>2, <3>3, <3>4
  <2>3. CASE b # a
    BY <1>1, <1>2, <1>3, <2>1, <2>3 DEF Accepted
  <2>4. QED BY <2>2, <2>3
<1>4. QED BY <1>1, <1>3 DEF Accepted, Associated

\* What a move of the station, by a roam, a reconnection or a request, leaves settled.
LEMMA AssociateGivesListing ==
  ASSUME StaTypeOK, Accepted, NEW a \in AP, Associate(a), UNCHANGED apQueue
  PROVE  ListingInv'
<1>1. SendAssociationRequest(a) /\ staQueue \in Seq(StaFrame) BY DEF Associate, StaTypeOK
<1>2. state' = "WAIT_ASSOC_RESP" BY <1>1 DEF SendAssociationRequest
<1>3. QED BY <1>1, <1>2, RequestGivesListing, AcceptedKept DEF ListingInv, Associated

\* So does a roam that is only scheduled.
LEMMA ScheduledGivesListing ==
  ASSUME StaTypeOK, Accepted, NEW a \in AP, NEW n \in Timer(LeaveDelay),
         roams' = Append(roams, [target |-> a, left |-> n]),
         UNCHANGED <<bssid, apQueue>>, Associated' => Associated
  PROVE  ListingInv'
<1>1. roams' # <<>>
  <2>1. roams \in Seq(Roam) /\ [target |-> a, left |-> n] \in Roam BY DEF StaTypeOK, Roam
  <2>2. QED BY <2>1
<1>2. QED BY <1>1, StaAssumption, UnsettledListing, AcceptedKept DEF ListingInv

LEMMA InitiateRoamingGivesListing ==
  ASSUME StaTypeOK, Accepted, NEW a \in AP, InitiateRoaming(a), UNCHANGED apQueue
  PROVE  ListingInv'
<1>1. LeaveDelay \in Timer(LeaveDelay) /\ 0 \in Timer(LeaveDelay)
  BY StaAssumption DEF StaAssumption, Timer, Off
<1>2. CASE /\ roams' = Append(roams, [target |-> a, left |-> LeaveDelay])
           /\ UNCHANGED <<state, bssid>>
  BY <1>1, <1>2, ScheduledGivesListing DEF Associated
<1>3. CASE /\ state' = "ROAMING" /\ roams' = Append(roams, [target |-> a, left |-> 0])
           /\ UNCHANGED bssid
  BY <1>1, <1>3, ScheduledGivesListing DEF Associated
<1>4. CASE Associate(a)
  BY <1>4, AssociateGivesListing
<1>5. QED BY <1>2, <1>3, <1>4 DEF InitiateRoaming

LEMMA ReconnectGivesListing ==
  ASSUME StaTypeOK, Accepted, NEW a \in AP, Reconnect(a), UNCHANGED apQueue
  PROVE  ListingInv'
<1>1. LeaveDelay \in Timer(LeaveDelay)
  BY StaAssumption DEF StaAssumption, Timer, Off
<1>2. CASE /\ roams' = Append(roams, [target |-> a, left |-> LeaveDelay])
           /\ UNCHANGED <<state, bssid>>
  BY <1>1, <1>2, ScheduledGivesListing DEF Associated
<1>3. CASE Associate(a)
  BY <1>3, AssociateGivesListing
<1>4. QED BY <1>2, <1>3 DEF Reconnect

\* Frames on their way, received or lost.
LEMMA MediumKeepsListing ==
  ASSUME StaTypeOK, Accepted, NEW a \in AP,
         \/ ApReceivesRequest(a) \/ ApReceivesDisassociation(a)
         \/ ApFrameLost(a) \/ StaFrameLost
  PROVE  ListingKept
<1>1. /\ staQueue \in Seq(StaFrame) /\ listed \in [AP -> BOOLEAN] /\ lost \in Nat
      /\ apQueue \in [AP -> Seq(ApFrame)]
  BY DEF StaTypeOK
<1>2. UNCHANGED <<state, bssid, chan, roams>>
  BY DEF ApReceivesRequest, ApReceivesDisassociation, ApFrameLost, StaFrameLost
<1>3. CASE ApReceivesRequest(a) \/ ApReceivesDisassociation(a) \/ StaFrameLost
  <2>1. staQueue # <<>> /\ staQueue' = Tail(staQueue)
    BY <1>3 DEF ApReceivesRequest, ApReceivesDisassociation, StaFrameLost, StaTransmits
  <2>2. Accepted'
    <3>1. CASE ApReceivesRequest(a) BY <3>1, ApReceivesRequestAccepted
    <3>2. CASE ApReceivesDisassociation(a) \/ StaFrameLost
      BY <1>2, <3>2, AcceptedKept
      DEF ApReceivesDisassociation, StaFrameLost, Associated
    <3>3. QED BY <1>3, <3>1, <3>2
  <2>3. ASSUME Listing, lost' = 0, bssid \in AP \ Refusers, chan = Chan[bssid], roams = <<>>
        PROVE  WillBeListed(bssid)'
    <3>1. lost = 0
      BY <1>1, <1>3, <2>3 DEF ApReceivesRequest, ApReceivesDisassociation, StaFrameLost, Lost,
                              counters
    <3>2. WillBeListed(bssid) BY <2>3, <3>1 DEF Listing
    <3>3. /\ StaHead = AssocRequest(bssid) => listed'[bssid]
          /\ listed[bssid] /\ StaHead # Goodbye(bssid) => listed'[bssid]
      <4>1. CASE ApReceivesRequest(a)
        BY <1>1, <2>3, <4>1 DEF ApReceivesRequest, AssocRequest
      <4>2. CASE ApReceivesDisassociation(a)
        BY <1>1, <2>3, <4>2 DEF ApReceivesDisassociation, AssocRequest, Goodbye
      <4>3. CASE StaFrameLost
        <5>1. listed' = listed /\ Lost(StaHead.ap) BY <4>3 DEF StaFrameLost
        <5>2. StaHead.ap # bssid BY <1>1, <2>3, <3>1, <5>1 DEF Lost
        <5>3. QED BY <5>1, <5>2 DEF AssocRequest
      <4>4. QED BY <1>3, <4>1, <4>2, <4>3
    <3>4. bssid' = bssid /\ bssid \in AP BY <1>2, <2>3
    <3>5. \A c \in AP : /\ WillBeListed(c)
                        /\ StaHead = AssocRequest(c) => listed'[c]
                        /\ listed[c] /\ StaHead # Goodbye(c) => listed'[c]
                        => WillBeListed(c)'
      BY <1>1, <2>1, TransmitKeepsListing
    <3>6. \A c : c = bssid /\ WillBeListed(c)' => WillBeListed(bssid)'
      BY <3>4 DEF WillBeListed
    <3>7. QED BY <3>2, <3>3, <3>4, <3>5, <3>6
  <2>4. QED BY <1>2, <2>2, <2>3 DEF ListingKept, Listing
<1>4. CASE ApFrameLost(a)
  <2>1. Accepted'
    BY <1>2, <1>4, ApTransmitsAccepted DEF ApFrameLost, Associated
  <2>2. UNCHANGED staQueue /\ Lost(a) /\ \A b \in AP : b # a => listed'[b] = listed[b]
    BY <1>1, <1>4 DEF ApFrameLost
  <2>3. ASSUME Listing, lost' = 0, bssid \in AP \ Refusers, chan = Chan[bssid], roams = <<>>
        PROVE  WillBeListed(bssid)'
    <3>1. lost = 0 /\ bssid # a BY <1>1, <2>2, <2>3 DEF Lost
    <3>2. WillBeListed(bssid) BY <2>3, <3>1 DEF Listing
    <3>3. QED BY <1>2, <2>2, <2>3, <3>1, <3>2 DEF WillBeListed
  <2>4. QED BY <1>2, <2>1, <2>3 DEF ListingKept, Listing
<1>5. QED BY <1>3, <1>4

\* Every handler, every call and the clock keep it.
LEMMA StepKeepsListing ==
  ASSUME StaInv, Accepted, StaStep
  PROVE  ListingKept
<1>1. StaTypeOK BY DEF StaInv
<1>2. staQueue \in Seq(StaFrame) BY <1>1 DEF StaTypeOK
<1>3. ASSUME NEW a \in AP, SendAssociationRequest(a), UNCHANGED apQueue PROVE ListingKept
  BY <1>2, <1>3, RequestGivesListing, AcceptedKept
  DEF ListingKept, SendAssociationRequest, Associated
<1>4. CASE AssocRequestTimeout
  <2>1. bssid \in AP
    BY <1>1, <1>4 DEF AssocRequestTimeout, StaInv, RequestsAreRetried, StaTypeOK, Off
  <2>2. QED BY <1>3, <1>4, <2>1 DEF AssocRequestTimeout
<1>5. ASSUME NEW i \in 1..Len(roams), DoInitiateRoaming(i) PROVE ListingKept
  <2>1. roams[i].target \in AP
    <3>1. roams[i] \in Roam BY <1>1 DEF StaTypeOK
    <3>2. QED BY <3>1 DEF Roam
  <2>2. QED BY <1>1, <1>2, <1>5, <2>1, AssociateGivesListing DEF ListingInv, ListingKept, DoInitiateRoaming
<1>6. ASSUME Disassociated, UNCHANGED apQueue PROVE ListingKept
  BY <1>2, <1>6, StaAssumption, UnsettledListing, AcceptedKept
  DEF ListingKept, Disassociated, Associated
<1>7. ASSUME UNCHANGED <<bssid, chan, staQueue, listed, roams, lost, apQueue>>,
             Associated' => Associated
      PROVE  ListingKept
  BY <1>2, <1>7, QuietListing, AcceptedKept DEF ListingKept
<1>8. ASSUME NEW a \in AP, ReceiveAssocResp(a) \/ ReceiveRefusal(a) PROVE ListingKept
  <2>1. /\ UNCHANGED <<bssid, chan, staQueue, listed, roams, lost>>
        /\ ApTransmits(a)
    BY <1>8 DEF ReceiveAssocResp, ReceiveRefusal, counters
  <2>2. Listing => Listing' BY <2>1, QuietListing
  <2>3. CASE Associated' => Associated
    BY <1>1, <1>2, <2>1, <2>2, <2>3, ApTransmitsAccepted DEF ListingKept
  <2>4. CASE ~Associated /\ Associated'
    <3>1. bssid = a /\ Head(apQueue[a]).type = "assocResp"
      BY <1>8, <2>4 DEF ReceiveAssocResp, ReceiveRefusal, Associated
    <3>2. a \notin Refusers
      <4>1. apQueue[a] \in Seq(ApFrame) /\ apQueue[a] # <<>>
        BY <1>1, <2>1 DEF StaTypeOK, ApTransmits
      <4>2. 1 \in 1..Len(apQueue[a]) /\ apQueue[a][1] = Head(apQueue[a]) BY <4>1
      <4>3. QED BY <1>2, <3>1, <4>2 DEF Accepted
    <3>3. \A b \in Refusers : apQueue'[b] = apQueue[b]
      BY <1>1, <2>1, <3>2, StaAssumption DEF StaTypeOK, ApTransmits, StaAssumption
    <3>4. QED BY <1>2, <2>1, <2>2, <3>1, <3>2, <3>3 DEF ListingKept, Accepted
  <2>5. QED BY <2>3, <2>4
<1>9. ASSUME NEW a \in AP, NotifyApInfo(a) PROVE ListingKept
  BY <1>7, <1>9 DEF NotifyApInfo, counters, Associated
<1>10. CASE MissedBeacons \/ LoseBeacons
  BY <1>7, <1>10 DEF MissedBeacons, LoseBeacons, counters, Associated
<1>11. ASSUME NEW i \in 1..Len(roams), DoInitiateRoamingBusy(i) PROVE ListingKept
  BY <1>7, <1>11 DEF DoInitiateRoamingBusy, counters, Associated
<1>12. CASE DisassociatedEvent
  BY <1>6, <1>12 DEF DisassociatedEvent
<1>13. CASE NotifyChannelSwitching
  BY <1>6, <1>7, <1>13 DEF NotifyChannelSwitching, counters, Associated
<1>14. ASSUME NEW a \in AP,
              \/ ApReceivesRequest(a) \/ ApReceivesDisassociation(a) \/ ApFrameLost(a)
       PROVE  ListingKept
  BY <1>1, <1>14, MediumKeepsListing
<1>15. CASE StaFrameLost
  <2>1. AP # {}
    <3>1. staQueue # <<>> BY <1>15 DEF StaFrameLost, StaTransmits
    <3>2. StaHead \in StaFrame BY <1>2, <3>1 DEF StaHead
    <3>3. QED BY <3>2 DEF StaFrame
  <2>2. PICK a \in AP : TRUE BY <2>1
  <2>3. QED BY <1>1, <1>15, <2>2, MediumKeepsListing
<1>16. ASSUME NEW a \in AP, ScanningTimeout(a) PROVE ListingKept
  BY <1>3, <1>16 DEF ScanningTimeout
<1>17. QED
  BY <1>4, <1>5, <1>8, <1>9, <1>10, <1>11, <1>12, <1>13, <1>14, <1>15, <1>16 DEF StaStep

LEMMA CallKeepsListing ==
  ASSUME StaInv, Accepted, StaCall
  PROVE  ListingKept
<1>1. StaTypeOK BY DEF StaInv
<1>2. ASSUME NEW a \in AP, CallInitiateRoaming(a) PROVE ListingKept
  BY <1>1, <1>2, InitiateRoamingGivesListing DEF ListingInv, ListingKept, CallInitiateRoaming
<1>3. ASSUME NEW a \in AP, CallAssociateToAp(a) PROVE ListingKept
  BY <1>1, <1>3, AssociateGivesListing DEF ListingInv, ListingKept, CallAssociateToAp, AssociateToAp
<1>4. ASSUME NEW a \in AP, CallReconnect(a) PROVE ListingKept
  BY <1>1, <1>4, ReconnectGivesListing DEF ListingInv, ListingKept, CallReconnect
<1>5. ASSUME NEW enable \in BOOLEAN, EnableAutoReconnect(enable) PROVE ListingKept
  BY <1>1, <1>5, QuietListing, AcceptedKept DEF EnableAutoReconnect, ListingKept, Associated
<1>6. CASE ForcedDisassociate
  BY <1>1, <1>6, StaAssumption, UnsettledListing, AcceptedKept
  DEF ForcedDisassociate, ListingKept, Disassociated, Associated
<1>7. QED BY <1>2, <1>3, <1>4, <1>5, <1>6 DEF StaCall

LEMMA TickKeepsListing ==
  ASSUME StaInv, Accepted, StaTick
  PROVE  ListingKept
<1>1. StaTypeOK BY DEF StaInv
<1>2. roams' = <<>> => roams = <<>>
  <2>1. roams \in Seq(Roam) BY <1>1 DEF StaTypeOK
  <2>2. roams' \in Seq(Roam) /\ Len(roams') = Len(roams)
    BY <1>1, StaAssumption, TimersTyped DEF StaTick
  <2>3. QED BY <2>1, <2>2
<1>3. UNCHANGED <<state, bssid, chan, staQueue, listed, lost, apQueue>>
  BY DEF StaTick, counters
<1>4. QED BY <1>1, <1>2, <1>3, QuietListing, AcceptedKept DEF ListingKept, Associated

\* Initially no station has a BSSID.
LEMMA InitListing ==
  ASSUME StaInit
  PROVE  ListingInv
BY StaAssumption
DEF StaInit, ListingInv, Listing, Accepted, Associated, StaAssumption

\* A settled station that is associated, on the channel its association invariant gives
\* it, is listed.
LEMMA SettledIsListed ==
  ASSUME StaInv, ListingInv
  PROVE  ListedWhenAssociated
<1> SUFFICES ASSUME Settled, Associated, lost = 0 PROVE listed[bssid]
  BY DEF ListedWhenAssociated
<1>1. bssid \in AP \ Refusers /\ chan = Chan[bssid] /\ roams = <<>> /\ staQueue = <<>>
  BY DEF Settled, StaInv, AssociatedOnChannel, ListingInv, Accepted
<1>2. WillBeListed(bssid) BY <1>1 DEF ListingInv, Listing
<1>3. QED BY <1>1, <1>2 DEF WillBeListed

\* However roams, reconnections, timeouts, forced disassociations and losses of beacons
\* overlap, a station that is associated and has nothing on its way is in the list of its
\* AP, unless a frame was lost on the right channel.
THEOREM StationIsListed == StaSpec => []ListedWhenAssociated
<1>1. StaInit => ListingInv BY InitListing
<1>2. StaInv /\ ListingInv /\ [StaNext]_staVars => ListingInv'
  <2>1. ASSUME ListingInv, UNCHANGED staVars PROVE ListingInv'
    BY <2>1 DEF ListingInv, Listing, WillBeListed, Accepted, Associated, staVars, counters
  <2>2. QED
    BY <2>1, StepKeepsListing, CallKeepsListing, TickKeepsListing
    DEF StaNext, ListingInv, ListingKept
<1>3. StaInv /\ ListingInv => ListedWhenAssociated BY SettledIsListed
<1>4. QED BY <1>1, <1>2, <1>3, StaAssumption, StaInvariant, PTL DEF StaSpec
=============================================================================
