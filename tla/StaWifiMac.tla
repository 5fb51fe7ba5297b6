----------------------------- MODULE StaWifiMac -----------------------------
(***************************************************************************)
(* The association and manual-roaming machine of one station               *)
(* (src/wifi/model/sta-wifi-mac.cc) and what the access points around it    *)
(* know of it (ap-wifi-mac.cc): whether each lists the station.             *)
(*                                                                         *)
(* Every scheduled event is a countdown or a flag; one tick stands for the  *)
(* 50 ms that a roam waits for its disassociation frame.  Events of the     *)
(* same tick run in any order, and the clock advances only when none is     *)
(* due.  A frame waits in its sender's queue as long as it likes; it is     *)
(* received only while the station is on the AP's channel.                  *)
(***************************************************************************)
EXTENDS Integers, Sequences, FiniteSets

CONSTANTS AP,             \* access points of the station's network
          NoAp,           \* no BSSID
          Chan,           \* the channel of each AP
          Refusers,       \* APs that refuse the station (rates, capabilities)
          LeaveDelay,     \* ticks between the disassociation and DoInitiateRoaming
          AssocTimeout,   \* m_assocRequestTimeout, in ticks
          WatchdogDelay,  \* beacon interval * m_maxMissedBeacons, in ticks
          QueueSize,      \* bound: the clock stops while the station queues more
          MaxCalls,       \* bound on the calls of the public interface
          MaxLost,        \* bound on frames lost on the right channel
          MaxMissed       \* bound on losses of the AP's beacons for a whole period

ASSUME StaAssumption ==
  /\ NoAp \notin AP
  /\ Chan \in [AP -> Int]
  /\ Refusers \subseteq AP
  /\ LeaveDelay \in Nat \ {0} /\ AssocTimeout \in Nat \ {0} /\ WatchdogDelay \in Nat \ {0}
  /\ QueueSize \in Nat \ {0} /\ MaxCalls \in Nat /\ MaxLost \in Nat /\ MaxMissed \in Nat

VARIABLES state,          \* m_state
          bssid,          \* link.bssid: the AP asked or associated with, or NoAp
          lastBssid,      \* the frame exchange manager's BSSID: the last AP joined
          chan,           \* the channel of the station's PHY
          switching,      \* NotifyChannelSwitching is scheduled
          assocTimer,     \* m_assocRequestEvent
          watchdog,       \* m_beaconWatchdog and m_beaconWatchdogEnd
          disassociating, \* MissedBeacons has scheduled Disassociated
          roams,          \* scheduled DoInitiateRoaming events, in order of scheduling
          autoReconnect,  \* m_autoReconnect
          heard,          \* m_apList of the association manager
          staQueue,       \* frames the station has queued, each to an AP
          apQueue,        \* frames each AP has queued for the station
          listed,         \* whether the AP's staList and AID map hold the station
          asserted,       \* an NS_ASSERT failed: the simulation is over
          calls, lost, missed  \* counted against the bounds

counters == <<calls, lost, missed>>
staVars == <<state, bssid, lastBssid, chan, switching, assocTimer, watchdog,
             disassociating, roams, autoReconnect, heard, staQueue, apQueue, listed,
             asserted, counters>>

MacState == {"UNASSOCIATED", "SCANNING", "WAIT_ASSOC_RESP", "ASSOCIATED", "ROAMING"}
Channel == {Chan[a] : a \in AP}
Off == -1
Timer(n) == Off..n
StaFrame == [type : {"assocReq", "disassoc", "btmResp"}, ap : AP]
ApFrame == [type : {"assocResp", "refusal"}, target : {NoAp}] \cup [type : {"btmReq"}, target : AP]
Roam == [target : AP, left : Timer(LeaveDelay)]

StaTypeOK ==
  /\ state \in MacState
  /\ bssid \in AP \cup {NoAp} /\ lastBssid \in AP \cup {NoAp}
  /\ chan \in Channel /\ switching \in BOOLEAN
  /\ assocTimer \in Timer(AssocTimeout) /\ watchdog \in Timer(WatchdogDelay)
  /\ disassociating \in BOOLEAN
  /\ roams \in Seq(Roam)
  /\ autoReconnect \in BOOLEAN
  /\ heard \in SUBSET AP
  /\ staQueue \in Seq(StaFrame)
  /\ apQueue \in [AP -> Seq(ApFrame)]
  /\ listed \in [AP -> BOOLEAN]
  /\ asserted \in BOOLEAN
  /\ calls \in Nat /\ lost \in Nat /\ missed \in Nat

StaInit ==
  /\ state = "SCANNING"
  /\ bssid = NoAp /\ lastBssid = NoAp
  /\ chan \in Channel /\ switching = FALSE
  /\ assocTimer = Off /\ watchdog = Off /\ disassociating = FALSE
  /\ roams = <<>>
  /\ autoReconnect = TRUE
  /\ heard = {}
  /\ staQueue = <<>>
  /\ apQueue = [a \in AP |-> <<>>]
  /\ listed = [a \in AP |-> FALSE]
  /\ asserted = FALSE
  /\ calls = 0 /\ lost = 0 /\ missed = 0

----------------------------------------------------------------------------
(* Shared steps of the handlers.  Each names the variables it sets. *)

Associated == state = "ASSOCIATED"

\* Queue one more frame for an AP: staQueue.
Send(type, a) == staQueue' = Append(staQueue, [type |-> type, ap |-> a])

\* Mutant: the request overtakes the frames queued before it.
SendAssociationRequestFirst(a) ==
  /\ bssid' = a
  /\ staQueue' = <<[type |-> "assocReq", ap |-> a]>> \o staQueue
  /\ assocTimer' = AssocTimeout
  /\ state' = "WAIT_ASSOC_RESP"

\* Mutant: the retry is not scheduled.
SendAssociationRequestOnce(a) ==
  /\ bssid' = a
  /\ Send("assocReq", a)
  /\ assocTimer' = Off
  /\ state' = "WAIT_ASSOC_RESP"

\* Ask AP a, and again every AssocTimeout: bssid, staQueue, assocTimer, state.
SendAssociationRequest(a) ==
  /\ bssid' = a
  /\ Send("assocReq", a)
  /\ assocTimer' = AssocTimeout
  /\ state' = "WAIT_ASSOC_RESP"

\* Move the PHY, if it is not there: chan, switching.
SwitchTo(c) ==
  /\ chan' = c
  /\ switching' = (switching \/ chan # c)

\* Mutant: the association request timer keeps running (issue #862).
DisassociatedKeepingTimer ==
  /\ state' = "SCANNING"
  /\ bssid' = NoAp
  /\ UNCHANGED assocTimer

\* Back to scanning, without a BSSID; scanning starts whatever m_autoReconnect
\* says: state, bssid, assocTimer.
Disassociated ==
  /\ state' = "SCANNING"
  /\ bssid' = NoAp
  /\ assocTimer' = Off

----------------------------------------------------------------------------
(* Scanning. *)

\* A beacon reaches a station that is not associated; while it waits for a
\* response only the beacons of the AP it asked count.
NotifyApInfo(a) ==
  /\ ~asserted /\ ~switching /\ chan = Chan[a]
  /\ state \in {"SCANNING", "ROAMING"} \/ (state = "WAIT_ASSOC_RESP" /\ a = bssid)
  /\ a \notin heard
  /\ heard' = heard \cup {a}
  /\ UNCHANGED <<state, bssid, lastBssid, chan, switching, assocTimer, watchdog,
                 disassociating, roams, autoReconnect, staQueue, apQueue, listed,
                 asserted, counters>>

\* The scan ends with the best of the APs heard, which need not be one of this
\* channel: the list survives channel switches.
ScanningTimeout(a) ==
  /\ ~asserted /\ state = "SCANNING" /\ a \in heard
  /\ heard' = heard \ {a}
  /\ SendAssociationRequest(a)
  /\ watchdog' = WatchdogDelay
  /\ UNCHANGED <<lastBssid, chan, switching, disassociating, roams, autoReconnect,
                 apQueue, listed, asserted, counters>>

AssocRequestTimeout ==
  /\ ~asserted /\ assocTimer = 0
  /\ SendAssociationRequest(bssid)
  /\ UNCHANGED <<lastBssid, chan, switching, watchdog, disassociating, roams,
                 autoReconnect, heard, apQueue, listed, asserted, counters>>

----------------------------------------------------------------------------
(* Losing the AP. *)

\* Schedules Disassociated for the end of the ongoing reception, if any; neither
\* the state nor the AP is looked at, then or when the event runs.
MissedBeacons ==
  /\ ~asserted /\ watchdog = 0
  /\ watchdog' = Off
  /\ disassociating' = TRUE
  /\ UNCHANGED <<state, bssid, lastBssid, chan, switching, assocTimer, roams,
                 autoReconnect, heard, staQueue, apQueue, listed, asserted, counters>>

DisassociatedEvent ==
  /\ ~asserted /\ disassociating
  /\ disassociating' = FALSE
  /\ Disassociated
  /\ UNCHANGED <<lastBssid, chan, switching, watchdog, roams, autoReconnect, heard,
                 staQueue, apQueue, listed, asserted, counters>>

\* Mutant: every switch is taken for a coordinated one.
NotifyChannelSwitchingCoordinated ==
  /\ ~asserted /\ switching
  /\ switching' = FALSE
  /\ UNCHANGED <<state, bssid, lastBssid, chan, assocTimer, watchdog, disassociating, roams,
                 autoReconnect, heard, staQueue, apQueue, listed, asserted, counters>>

\* The channel switch is over.
NotifyChannelSwitching ==
  /\ ~asserted /\ switching
  /\ switching' = FALSE
  /\ IF Associated THEN Disassociated ELSE UNCHANGED <<state, bssid, assocTimer>>
  /\ UNCHANGED <<lastBssid, chan, watchdog, disassociating, roams, autoReconnect, heard,
                 staQueue, apQueue, listed, asserted, counters>>

----------------------------------------------------------------------------
(* Roaming. *)

\* Mutant: the station stays associated with the AP it is leaving.
AssociateStaying(a) ==
  /\ SwitchTo(Chan[a])
  /\ bssid' = a
  /\ Send("assocReq", a)
  /\ assocTimer' = AssocTimeout
  /\ UNCHANGED state

\* Both the tail of DoInitiateRoaming, on an idle PHY, and AssociateToAp.
Associate(a) ==
  /\ SwitchTo(Chan[a])
  /\ SendAssociationRequest(a)

Remove(s, i) == SubSeq(s, 1, i - 1) \o SubSeq(s, i + 1, Len(s))

\* A different channel and a PHY that transmits, receives or switches: the state
\* is ROAMING already, and the event runs again 5 ms later.
DoInitiateRoamingBusy(i) ==
  /\ ~asserted /\ i \in 1..Len(roams) /\ roams[i].left = 0
  /\ chan # Chan[roams[i].target]
  /\ state' = "ROAMING"
  /\ UNCHANGED <<bssid, lastBssid, chan, switching, assocTimer, watchdog, disassociating,
                 roams, autoReconnect, heard, staQueue, apQueue, listed, asserted,
                 counters>>

\* Nothing checks that the station is still where it was when the roam began.
DoInitiateRoaming(i) ==
  /\ ~asserted /\ i \in 1..Len(roams) /\ roams[i].left = 0
  /\ chan = Chan[roams[i].target] \/ ~switching
  /\ Associate(roams[i].target)
  /\ roams' = Remove(roams, i)
  /\ UNCHANGED <<lastBssid, watchdog, disassociating, autoReconnect, heard, apQueue,
                 listed, asserted, counters>>

\* Leave the AP now and move LeaveDelay later; reassociate with the same AP, or
\* associate when not associated, at once.
InitiateRoaming(a) ==
  \/ /\ Associated /\ bssid # a
     /\ Send("disassoc", bssid)
     /\ roams' = Append(roams, [target |-> a, left |-> LeaveDelay])
     /\ UNCHANGED <<state, bssid, chan, switching, assocTimer>>
  \/ /\ Associated /\ bssid = a
     /\ chan = Chan[a]
     /\ Associate(a)
     /\ UNCHANGED roams
  \/ /\ Associated /\ bssid = a
     /\ chan # Chan[a]
     /\ state' = "ROAMING"
     /\ roams' = Append(roams, [target |-> a, left |-> 0])
     /\ UNCHANGED <<bssid, chan, switching, assocTimer, staQueue>>
  \/ /\ ~Associated
     /\ Associate(a)
     /\ UNCHANGED roams

\* The target's channel goes with every call; callers take it from the beacons.
AssociateToAp(a) ==
  /\ Associate(a)
  /\ autoReconnect' = (autoReconnect /\ ~Associated)

----------------------------------------------------------------------------
(* Frames to the APs. *)

StaHead == Head(staQueue)

StaTransmits == ~asserted /\ ~switching /\ staQueue # <<>> /\ staQueue' = Tail(staQueue)

\* Mutant: the AP lists the station only if it knew it before.
ApReceivesRequestUnlisted(a) ==
  /\ StaTransmits /\ StaHead = [type |-> "assocReq", ap |-> a]
  /\ chan = Chan[a] /\ Len(apQueue[a]) < QueueSize
  /\ a \notin Refusers
  /\ apQueue' = [apQueue EXCEPT ![a] = Append(@, [type |-> "assocResp", target |-> NoAp])]
  /\ UNCHANGED <<state, bssid, lastBssid, chan, switching, assocTimer, watchdog,
                 disassociating, roams, autoReconnect, heard, listed, asserted, counters>>

\* The AP lists the station when it queues the response, not when that arrives.
ApReceivesRequest(a) ==
  /\ StaTransmits /\ StaHead = [type |-> "assocReq", ap |-> a]
  /\ chan = Chan[a] /\ Len(apQueue[a]) < QueueSize
  /\ \/ /\ a \notin Refusers
        /\ listed' = [listed EXCEPT ![a] = TRUE]
        /\ apQueue' = [apQueue EXCEPT ![a] =
                         Append(@, [type |-> "assocResp", target |-> NoAp])]
     \/ /\ a \in Refusers
        /\ apQueue' = [apQueue EXCEPT ![a] =
                         Append(@, [type |-> "refusal", target |-> NoAp])]
        /\ UNCHANGED listed
  /\ UNCHANGED <<state, bssid, lastBssid, chan, switching, assocTimer, watchdog,
                 disassociating, roams, autoReconnect, heard, asserted, counters>>

ApReceivesDisassociation(a) ==
  /\ StaTransmits /\ StaHead = [type |-> "disassoc", ap |-> a]
  /\ chan = Chan[a]
  /\ listed' = [listed EXCEPT ![a] = FALSE]
  /\ UNCHANGED <<state, bssid, lastBssid, chan, switching, assocTimer, watchdog,
                 disassociating, roams, autoReconnect, heard, apQueue, asserted,
                 counters>>

\* Losing a frame on the right channel is a fault.
Lost(a) ==
  \/ chan # Chan[a] /\ UNCHANGED lost
  \/ chan = Chan[a] /\ lost < MaxLost /\ lost' = lost + 1

StaFrameLost ==
  /\ StaTransmits
  /\ Lost(StaHead.ap)
  /\ UNCHANGED <<state, bssid, lastBssid, chan, switching, assocTimer, watchdog,
                 disassociating, roams, autoReconnect, heard, apQueue, listed, asserted,
                 calls, missed>>

----------------------------------------------------------------------------
(* Frames to the station. *)

ApTransmits(a) ==
  /\ ~asserted /\ ~switching
  /\ apQueue[a] # <<>> /\ apQueue' = [apQueue EXCEPT ![a] = Tail(@)]

ExpectingResponse == state \in {"WAIT_ASSOC_RESP", "ROAMING"}

\* The response must come from the AP last asked: it is an assertion of the code.
ReceiveAssocResp(a) ==
  /\ ApTransmits(a) /\ Head(apQueue[a]).type = "assocResp" /\ chan = Chan[a]
  /\ \/ /\ ExpectingResponse /\ bssid = a
        /\ state' = "ASSOCIATED"
        /\ lastBssid' = a
        /\ assocTimer' = Off
        /\ UNCHANGED asserted
     \/ /\ ExpectingResponse /\ bssid # a
        /\ asserted' = TRUE
        /\ UNCHANGED <<state, lastBssid, assocTimer>>
     \/ /\ ~ExpectingResponse
        /\ UNCHANGED <<state, lastBssid, assocTimer, asserted>>
  /\ UNCHANGED <<bssid, chan, switching, watchdog, disassociating, roams, autoReconnect,
                 heard, staQueue, listed, counters>>

\* Mutant: the status code is not looked at.
ReceiveRefusalUnread(a) ==
  /\ ApTransmits(a) /\ Head(apQueue[a]).type = "refusal" /\ chan = Chan[a]
  /\ IF ExpectingResponse
     THEN state' = "ASSOCIATED" /\ assocTimer' = Off
     ELSE UNCHANGED <<state, assocTimer>>
  /\ UNCHANGED <<bssid, lastBssid, chan, switching, watchdog, disassociating, roams,
                 autoReconnect, heard, staQueue, listed, asserted, counters>>

\* A refused station scans again, with the BSSID it had asked.
ReceiveRefusal(a) ==
  /\ ApTransmits(a) /\ Head(apQueue[a]).type = "refusal" /\ chan = Chan[a]
  /\ IF ExpectingResponse
     THEN state' = "SCANNING" /\ assocTimer' = Off
     ELSE UNCHANGED <<state, assocTimer>>
  /\ UNCHANGED <<bssid, lastBssid, chan, switching, watchdog, disassociating, roams,
                 autoReconnect, heard, staQueue, listed, asserted, counters>>

\* The AP forgets a station that does not acknowledge its response.
ApFrameLost(a) ==
  /\ ApTransmits(a) /\ Lost(a)
  /\ listed' = [listed EXCEPT ![a] = @ /\ Head(apQueue[a]).type # "assocResp"]
  /\ UNCHANGED <<state, bssid, lastBssid, chan, switching, assocTimer, watchdog,
                 disassociating, roams, autoReconnect, heard, staQueue, asserted, calls,
                 missed>>

----------------------------------------------------------------------------
(* Calls of the public interface. *)

Call == ~asserted /\ calls < MaxCalls /\ calls' = calls + 1

CallInitiateRoaming(a) ==
  /\ Call /\ InitiateRoaming(a)
  /\ UNCHANGED <<lastBssid, watchdog, disassociating, autoReconnect, heard, apQueue,
                 listed, asserted, lost, missed>>

CallAssociateToAp(a) ==
  /\ Call /\ AssociateToAp(a)
  /\ UNCHANGED <<lastBssid, watchdog, disassociating, roams, heard, apQueue, listed,
                 asserted, lost, missed>>

\* CompleteEmergencyReconnect: the PHY moves first, which ends the association only
\* when NotifyChannelSwitching runs; until then the station still roams.
Reconnect(a) ==
  \/ /\ Associated /\ bssid # a
     /\ SwitchTo(Chan[a])
     /\ Send("disassoc", bssid)
     /\ roams' = Append(roams, [target |-> a, left |-> LeaveDelay])
     /\ UNCHANGED <<state, bssid, assocTimer>>
  \/ /\ ~Associated \/ bssid = a
     /\ Associate(a)
     /\ UNCHANGED roams

CallReconnect(a) ==
  /\ Call /\ Reconnect(a)
  /\ UNCHANGED <<lastBssid, watchdog, disassociating, autoReconnect, heard, apQueue,
                 listed, asserted, lost, missed>>

ForcedDisassociate ==
  /\ Call /\ Associated
  /\ autoReconnect' = FALSE
  /\ Disassociated
  /\ UNCHANGED <<lastBssid, chan, switching, watchdog, disassociating, roams, heard,
                 staQueue, apQueue, listed, asserted, lost, missed>>

\* Scanning never has to be restarted: no handler leaves the station UNASSOCIATED.
EnableAutoReconnect(enable) ==
  /\ Call /\ autoReconnect # enable
  /\ autoReconnect' = enable
  /\ UNCHANGED <<state, bssid, lastBssid, chan, switching, assocTimer, watchdog,
                 disassociating, roams, heard, staQueue, apQueue, listed, asserted, lost, missed>>

----------------------------------------------------------------------------
(* Time. *)

\* Every beacon of the AP was missed for the whole watchdog period.
LoseBeacons ==
  /\ ~asserted /\ Associated /\ watchdog > 0 /\ missed < MaxMissed
  /\ watchdog' = 0
  /\ missed' = missed + 1
  /\ UNCHANGED <<state, bssid, lastBssid, chan, switching, assocTimer, disassociating,
                 roams, autoReconnect, heard, staQueue, apQueue, listed, asserted, calls,
                 lost>>

NothingDue ==
  /\ ~switching /\ ~disassociating
  /\ assocTimer # 0 /\ watchdog # 0
  /\ \A i \in 1..Len(roams) : roams[i].left # 0

\* Mutant: a timer counts on when it is off.
CountDownPast(t) == t - 1

CountDown(t) == IF t > 0 THEN t - 1 ELSE t

\* A tick without a fault brings the associated station a beacon of its AP.
AdvanceStaTimers ==
  /\ assocTimer' = CountDown(assocTimer)
  /\ watchdog' = IF Associated THEN WatchdogDelay ELSE CountDown(watchdog)
  /\ roams' = [i \in 1..Len(roams) |-> [roams[i] EXCEPT !.left = CountDown(@)]]

StaTick ==
  /\ ~asserted /\ NothingDue /\ Len(staQueue) < QueueSize
  /\ AdvanceStaTimers
  /\ UNCHANGED <<state, bssid, lastBssid, chan, switching, disassociating, autoReconnect,
                 heard, staQueue, apQueue, listed, asserted, counters>>

\* Everything the station and the APs do by themselves, but for the clock.
StaStep ==
  \/ \E a \in AP : \/ NotifyApInfo(a) \/ ScanningTimeout(a)
                   \/ ApReceivesRequest(a) \/ ApReceivesDisassociation(a)
                   \/ ReceiveAssocResp(a) \/ ReceiveRefusal(a) \/ ApFrameLost(a)
  \/ AssocRequestTimeout \/ MissedBeacons \/ DisassociatedEvent \/ NotifyChannelSwitching
  \/ \E i \in 1..Len(roams) : DoInitiateRoaming(i) \/ DoInitiateRoamingBusy(i)
  \/ StaFrameLost \/ LoseBeacons

StaCall ==
  \/ \E a \in AP : CallInitiateRoaming(a) \/ CallAssociateToAp(a) \/ CallReconnect(a)
  \/ \E enable \in BOOLEAN : EnableAutoReconnect(enable)
  \/ ForcedDisassociate

StaNext == StaStep \/ StaCall \/ StaTick

StaSpec == StaInit /\ [][StaNext]_staVars

\* The simulator runs every event that is due and then advances the clock; a queued
\* frame is transmitted in the end; beacons keep coming; a PHY does not stay busy.
StaFairness ==
  /\ WF_staVars(StaTick)
  /\ WF_staVars(AssocRequestTimeout) /\ WF_staVars(MissedBeacons)
  /\ WF_staVars(DisassociatedEvent) /\ WF_staVars(NotifyChannelSwitching)
  /\ WF_staVars(\E i \in 1..Len(roams) : DoInitiateRoaming(i))
  /\ WF_staVars(StaFrameLost \/ \E a \in AP : \/ ApReceivesRequest(a)
                                            \/ ApReceivesDisassociation(a))
  /\ \A a \in AP :
       /\ WF_staVars(NotifyApInfo(a)) /\ WF_staVars(ScanningTimeout(a))
       /\ WF_staVars(ReceiveAssocResp(a) \/ ReceiveRefusal(a) \/ ApFrameLost(a))

FairStaSpec == StaSpec /\ StaFairness

----------------------------------------------------------------------------
(* Properties. *)

\* A station associated with an AP is on that AP's channel, except between a switch
\* of its PHY and the notification that ends the association.
AssociatedOnChannel ==
  Associated /\ ~switching => bssid # NoAp /\ chan = Chan[bssid]

\* A station that waits for a response will ask again, the retry finds a BSSID (or
\* SendAssociationRequest would abort), and a roam held up by a busy PHY is retried.
RequestsAreRetried ==
  /\ state = "WAIT_ASSOC_RESP" => assocTimer # Off
  /\ assocTimer # Off => bssid # NoAp
  /\ state = "ROAMING" => \E i \in 1..Len(roams) : roams[i].left = 0

\* Nothing is on its way between the station and the APs.
Settled ==
  /\ ~asserted /\ ~switching /\ ~disassociating
  /\ roams = <<>> /\ staQueue = <<>> /\ \A a \in AP : apQueue[a] = <<>>

\* Unless a frame was lost on the right channel, the AP a settled station is
\* associated with lists it: however roams, reconnections, timeouts and losses of
\* beacons overlapped, the station is not left talking to an AP that ignores it.
ListedWhenAssociated == Settled /\ Associated /\ lost = 0 => listed[bssid]

\* The station and the APs keep the promises of Association.
Assoc == INSTANCE Association WITH
  Frame   <- ApFrame,
  Accept  <- "assocResp",
  joined  <- IF Associated THEN bssid ELSE NoAp,
  answers <- apQueue,
  lists   <- listed

ImplementsAssociation == Assoc!AssocSpec

\* From some time on, no tick passes while a frame waits or the station scans: both
\* take far less than the second of the beacon watchdog, WatchdogDelay ticks.
MediumIsPrompt ==
  <>[][StaTick => /\ staQueue = <<>> /\ \A a \in AP : apQueue[a] = <<>>
                  /\ state # "SCANNING"]_staVars

\* When calls and faults have stopped, the station ends up associated for good,
\* unless an assertion stopped the simulation.
EventuallyAssociated ==
  MediumIsPrompt => <>[](asserted \/ Associated)

\* sta-wifi-mac.cc:1461, NS_ASSERT(... *GetLink(linkId).bssid == hdr.GetAddr3()):
\* a response the station acts on comes from the AP it last asked.
ResponseFromAskedAp == ~asserted
=============================================================================
