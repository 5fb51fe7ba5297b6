---------------------------- MODULE AutoRoamingKv ----------------------------
(***************************************************************************)
(* Roaming by 802.11k and 802.11v (contrib/auto-roaming-kv): the helper of  *)
(* one station measures the link once a period, and a low measurement       *)
(* starts a chain of requests - neighbor report, beacon request, transition *)
(* request - each sent by a handler or an event of another protocol helper  *)
(* (contrib/link-protocol-11k, contrib/beacon-neighbor-protocol-11k).        *)
(*                                                                         *)
(* The station's association changes under the chain, frames are lost, and  *)
(* a retransmission whose acknowledgment was lost reaches the handlers      *)
(* again: they read the PHY's trace, before the MAC drops duplicates.  The  *)
(* helpers' delays (5 and 50 ms) are left to the order of the events.  The  *)
(* reports of links that stations send to APs feed statistics only and are  *)
(* left out.                                                                *)
(***************************************************************************)
EXTENDS Integers, Sequences, FiniteSets

CONSTANTS AP,          \* the access points
          NoAp,        \* the station is not associated
          Helpers,     \* helpers, each with a link measurement protocol on every AP
          MaxRounds,   \* bounds: periodic measurements of the station,
          MaxApRequests, \* measurements the APs ask for,
          MaxMoves,    \* changes of association,
          MaxRepeats   \* and frames received again

ASSUME KvAssumption ==
  /\ IsFiniteSet(AP) /\ NoAp \notin AP
  /\ Helpers \in Nat \ {0}
  /\ {MaxRounds, MaxApRequests, MaxMoves, MaxRepeats} \subseteq Nat

VARIABLES ap,             \* the AP the station is associated with
          lastAp,         \* m_lastAssociatedAp
          triggered,      \* m_neighborRequestTriggered
          neighborReport, \* m_lastNeighborReport
          beaconReport,   \* m_lastBeaconReport
          beaconsDue,     \* SendBeaconRequest events scheduled
          requestsDue,    \* SendBssTmRequest events scheduled
          discovered,     \* each AP's m_discoveredNeighbors
          repliesDue,     \* each AP's SendNeighborReportResponse events
          neighborList,   \* the station's m_neighborList,
          measured,       \* its m_beaconCache,
          reportsDue,     \* and its SendBeaconReport events, per AP they answer
          requested,      \* the APs whose m_lastRequestTime is less than 30 s ago
          up,             \* frames queued at the station
          down,           \* frames queued at each AP
          rounds, apRequests, moves, repeats, \* counted against the bounds
          triggers,       \* history: low measurements that started a chain,
          asks,           \* transition requests the chains asked for,
          sent,           \* and those the rate limit let through
          reported,       \* APs some neighbor report has named
          broken          \* a frame was lost, a report empty or the station not associated

eventVars == <<beaconsDue, requestsDue, repliesDue, reportsDue>>
dataVars == <<neighborReport, beaconReport, discovered, neighborList, measured>>
countVars == <<rounds, apRequests, moves, repeats>>
pastVars == <<triggers, asks, sent, reported, broken, requested>>
kvVars == <<ap, lastAp, triggered, dataVars, eventVars, up, down, countVars, pastVars>>

\* Category 5, action 2: the neighbor report's code, and the link measurement request's.
NeighborReport(aps) == [type |-> "neighbor_report", aps |-> aps]
LinkRequestToSta == NeighborReport({})

UpFrame ==
  [type : {"link_request", "neighbor_request"}, to : AP]
    \cup [type : {"beacon_report"}, to : AP, aps : SUBSET AP]
DownFrame ==
  [type : {"link_report"}, low : BOOLEAN] \cup [type : {"neighbor_report"}, aps : SUBSET AP]
    \cup [type : {"beacon_request"}]

DataTyped ==
  /\ ap \in AP \cup {NoAp} /\ lastAp \in AP \cup {NoAp}
  /\ triggered \in BOOLEAN /\ broken \in BOOLEAN
  /\ neighborReport \subseteq AP /\ beaconReport \subseteq AP /\ discovered \in [AP -> SUBSET AP]
  /\ neighborList \subseteq AP /\ measured \subseteq AP
  /\ requested \subseteq AP /\ reported \subseteq AP

CountsTyped ==
  /\ beaconsDue \in Nat /\ requestsDue \in Nat
  /\ repliesDue \in [AP -> Nat] /\ reportsDue \in [AP -> Nat]
  /\ rounds \in Nat /\ apRequests \in Nat /\ moves \in Nat /\ repeats \in Nat
  /\ triggers \in Nat /\ asks \in Nat /\ sent \in Nat

QueuesTyped == up \in Seq(UpFrame) /\ down \in [AP -> Seq(DownFrame)]

KvTypeOK == DataTyped /\ CountsTyped /\ QueuesTyped

KvInit ==
  /\ ap \in AP \cup {NoAp} /\ lastAp = NoAp /\ triggered = FALSE
  /\ neighborReport = {} /\ beaconReport = {} /\ neighborList = {} /\ measured = {}
  /\ discovered = [a \in AP |-> {}]
  /\ beaconsDue = 0 /\ requestsDue = 0
  /\ repliesDue = [a \in AP |-> 0] /\ reportsDue = [a \in AP |-> 0]
  /\ up = <<>> /\ down = [a \in AP |-> <<>>]
  /\ rounds = 0 /\ apRequests = 0 /\ moves = 0 /\ repeats = 0
  /\ triggers = 0 /\ asks = 0 /\ sent = 0
  /\ reported = {} /\ requested = {} /\ broken = FALSE

----------------------------------------------------------------------------
(* The station's helper. *)

\* The station's MAC associates, is disassociated or roams.
Move(a) ==
  /\ a # ap /\ moves < MaxMoves
  /\ ap' = a /\ moves' = moves + 1
  /\ UNCHANGED <<lastAp, triggered, dataVars, eventVars, up, down, rounds, apRequests, repeats, pastVars>>

\* Mutant: the flag is cleared by every measurement of an associated station.
FlagAlwaysCleared == FALSE

\* A new AP since the last measurement clears the flag.
FlagAfterRound == triggered /\ lastAp \in {NoAp, ap}

\* SendPeriodicRequest reschedules itself, associated or not.
SendPeriodicRequest ==
  /\ rounds < MaxRounds /\ rounds' = rounds + 1
  /\ \/ ap = NoAp /\ UNCHANGED <<lastAp, triggered, up>>
     \/ /\ ap # NoAp
        /\ triggered' = FlagAfterRound /\ lastAp' = ap
        /\ up' = Append(up, [type |-> "link_request", to |-> ap])
  /\ UNCHANGED <<ap, dataVars, eventVars, down, apRequests, moves, repeats, pastVars>>

\* Mutant: the flag is set before the association is looked up.
OnLinkMeasurementReportFlagFirst(low) ==
  /\ triggered' = (triggered \/ low)
  /\ \/ /\ low /\ ~triggered /\ ap # NoAp
        /\ up' = Append(up, [type |-> "neighbor_request", to |-> ap])
        /\ triggers' = triggers + 1
     \/ ~(low /\ ~triggered /\ ap # NoAp) /\ UNCHANGED <<up, triggers>>
  /\ UNCHANGED <<dataVars, eventVars, asks, sent, reported, broken, requested>>

\* OnLinkMeasurementReport: whichever AP reports, the AP of this moment is asked.
OnLinkMeasurementReport(low) ==
  /\ \/ /\ low /\ ~triggered /\ ap # NoAp
        /\ up' = Append(up, [type |-> "neighbor_request", to |-> ap])
        /\ triggered' = TRUE /\ triggers' = triggers + 1
     \/ ~(low /\ ~triggered /\ ap # NoAp) /\ UNCHANGED <<up, triggered, triggers>>
  /\ UNCHANGED <<dataVars, eventVars, asks, sent, reported, broken, requested>>

\* ReceiveNeighborReportResponse, OnNeighborReportReceived: an empty report too.
ReceiveNeighborReport(aps) ==
  /\ neighborReport' = aps /\ reported' = reported \cup aps
  /\ beaconsDue' = beaconsDue + 1
  /\ UNCHANGED <<triggered, up, requestsDue, repliesDue, reportsDue, beaconReport, discovered,
                 neighborList, measured, triggers, asks, sent, broken, requested>>

\* SendBeaconRequest, 50 ms later: the AP of this moment asks; an empty report leaves
\* the station with the list of the one before.
SendBeaconRequest ==
  /\ beaconsDue > 0 /\ beaconsDue' = beaconsDue - 1
  /\ \/ ap = NoAp /\ broken' = TRUE /\ UNCHANGED <<neighborList, down>>
     \/ /\ ap # NoAp
        /\ neighborList' = IF neighborReport = {} THEN neighborList ELSE neighborReport
        /\ down' = [down EXCEPT ![ap] = Append(@, [type |-> "beacon_request"])]
        /\ UNCHANGED broken
  /\ UNCHANGED <<ap, lastAp, triggered, neighborReport, beaconReport, discovered, measured, up,
                 requestsDue, repliesDue, reportsDue, countVars, triggers, asks, sent, reported,
                 requested>>

\* Mutant: the helper is connected to the AP's trace twice.
ReceiveBeaconReportTwice(aps) ==
  /\ beaconReport' = aps
  /\ requestsDue' = IF aps = {} THEN requestsDue ELSE requestsDue + 2
  /\ UNCHANGED <<down, neighborReport, discovered, neighborList, measured, beaconsDue, repliesDue,
                 reportsDue, pastVars>>

\* ReceiveBeaconReport at any AP, OnBeaconReportReceived.
ReceiveBeaconReport(aps) ==
  /\ beaconReport' = aps
  /\ requestsDue' = IF aps = {} THEN requestsDue ELSE requestsDue + 1
  /\ UNCHANGED <<down, neighborReport, discovered, neighborList, measured, beaconsDue, repliesDue,
                 reportsDue, pastVars>>

\* SendBssTmRequest, 50 ms later: the AP of this moment asks, with the latest report.
\* Within 30 s of its last request to the station it sends none.
SendBssTmRequest ==
  /\ requestsDue > 0 /\ requestsDue' = requestsDue - 1
  /\ \/ (ap = NoAp \/ beaconReport = {}) /\ broken' = TRUE /\ UNCHANGED <<asks, sent, requested>>
     \/ /\ ap # NoAp /\ beaconReport # {}
        /\ asks' = asks + 1 /\ requested' = requested \cup {ap}
        /\ sent' = IF ap \in requested THEN sent ELSE sent + 1
        /\ UNCHANGED broken
  /\ UNCHANGED <<ap, lastAp, triggered, dataVars, beaconsDue, repliesDue, reportsDue, up, down,
                 countVars, triggers, reported>>

\* Nothing is under way.
Quiet ==
  /\ up = <<>> /\ down = [a \in AP |-> <<>>]
  /\ beaconsDue = 0 /\ requestsDue = 0
  /\ repliesDue = [a \in AP |-> 0] /\ reportsDue = [a \in AP |-> 0]

\* The 30 s are over: whatever was under way has ended long before.
CooldownOver(a) ==
  /\ Quiet /\ a \in requested /\ requested' = requested \ {a}
  /\ UNCHANGED <<ap, lastAp, triggered, dataVars, eventVars, up, down, countVars, triggers, asks,
                 sent, reported, broken>>

----------------------------------------------------------------------------
(* The helpers of an AP and of the station's beacon protocol. *)

\* Every protocol on the AP answers with what the AP's PHY measured.
ReceiveLinkRequest(a) ==
  /\ \E low \in BOOLEAN :
       down' = [down EXCEPT ![a] = @ \o [i \in 1..Helpers |-> [type |-> "link_report", low |-> low]]]
  /\ UNCHANGED <<dataVars, eventVars, pastVars>>

\* ProcessNeighborReportRequest: the AP's sniffer does not hear the AP itself.
ProcessNeighborReportRequest(a) ==
  /\ \E heard \in SUBSET (AP \ {a}) : discovered' = [discovered EXCEPT ![a] = heard]
  /\ repliesDue' = [repliesDue EXCEPT ![a] = @ + 1]
  /\ UNCHANGED <<down, neighborReport, beaconReport, neighborList, measured, beaconsDue,
                 requestsDue, reportsDue, pastVars>>

\* 5 ms later, with what has been discovered by then.
SendNeighborReportResponse(a) ==
  /\ repliesDue[a] > 0 /\ repliesDue' = [repliesDue EXCEPT ![a] = @ - 1]
  /\ down' = [down EXCEPT ![a] = Append(@, NeighborReport(discovered[a]))]
  /\ broken' = (broken \/ discovered[a] = {})
  /\ UNCHANGED <<ap, lastAp, triggered, dataVars, beaconsDue, requestsDue, reportsDue, up,
                 countVars, triggers, asks, sent, reported, requested>>

\* SendPeriodicRequests of ApLinkMeasurementHelper: every AP that lists the station,
\* be it the one the station is with or one it has left.
ApsMeasure ==
  /\ \E listing \in SUBSET AP \ {{}} :
       /\ apRequests + Cardinality(listing) <= MaxApRequests
       /\ apRequests' = apRequests + Cardinality(listing)
       /\ down' = [a \in AP |-> IF a \in listing THEN Append(down[a], LinkRequestToSta) ELSE down[a]]
  /\ UNCHANGED <<ap, lastAp, triggered, dataVars, eventVars, up, rounds, moves, repeats, pastVars>>

\* Mutant: an empty list excludes no AP, as in the single-channel measurement window.
ReceiveBeaconRequestUnlisted(a) ==
  /\ \E heard \in SUBSET AP : measured' = IF neighborList = {} THEN heard ELSE heard \cap neighborList
  /\ reportsDue' = [reportsDue EXCEPT ![a] = @ + 1]
  /\ UNCHANGED <<triggered, up, neighborReport, beaconReport, discovered, neighborList, beaconsDue,
                 requestsDue, repliesDue, pastVars>>

\* ReceiveBeaconRequest: the station's second PHY has been listening on every channel.
ReceiveBeaconRequest(a) ==
  /\ \E heard \in SUBSET AP : measured' = heard \cap neighborList
  /\ reportsDue' = [reportsDue EXCEPT ![a] = @ + 1]
  /\ UNCHANGED <<triggered, up, neighborReport, beaconReport, discovered, neighborList, beaconsDue,
                 requestsDue, repliesDue, pastVars>>

\* 5 ms later, to the AP that asked, with what has been measured by then.
SendBeaconReport(a) ==
  /\ reportsDue[a] > 0 /\ reportsDue' = [reportsDue EXCEPT ![a] = @ - 1]
  /\ up' = Append(up, [type |-> "beacon_report", to |-> a, aps |-> measured])
  /\ broken' = (broken \/ measured = {})
  /\ UNCHANGED <<ap, lastAp, triggered, dataVars, beaconsDue, requestsDue, repliesDue, down,
                 countVars, triggers, asks, sent, reported, requested>>

----------------------------------------------------------------------------
(* The medium: each queue in order; a frame is lost, or received, or received and sent *)
(* again because the acknowledgment is lost. *)

SentAgain == repeats < MaxRepeats /\ repeats' = repeats + 1

ApReceives ==
  /\ up # <<>>
  /\ (up' = Tail(up) /\ UNCHANGED repeats) \/ (SentAgain /\ UNCHANGED up)
  /\ LET frame == Head(up) IN
       \/ frame.type = "link_request" /\ ReceiveLinkRequest(frame.to)
       \/ frame.type = "neighbor_request" /\ ProcessNeighborReportRequest(frame.to)
       \/ frame.type = "beacon_report" /\ ReceiveBeaconReport(frame.aps)
  /\ UNCHANGED <<ap, lastAp, triggered, rounds, apRequests, moves>>

StaReceives(a) ==
  /\ down[a] # <<>>
  /\ \/ down' = [down EXCEPT ![a] = Tail(@)] /\ UNCHANGED repeats
     \/ SentAgain /\ UNCHANGED down
  /\ LET frame == Head(down[a]) IN
       \/ frame.type = "link_report" /\ OnLinkMeasurementReport(frame.low)
       \/ frame.type = "neighbor_report" /\ ReceiveNeighborReport(frame.aps)
       \/ frame.type = "beacon_request" /\ ReceiveBeaconRequest(a)
  /\ UNCHANGED <<ap, lastAp, rounds, apRequests, moves>>

LoseUp ==
  /\ up # <<>> /\ up' = Tail(up) /\ broken' = TRUE
  /\ UNCHANGED <<ap, lastAp, triggered, dataVars, eventVars, down, countVars, triggers, asks, sent,
                 reported, requested>>

LoseDown(a) ==
  /\ down[a] # <<>> /\ down' = [down EXCEPT ![a] = Tail(@)] /\ broken' = TRUE
  /\ UNCHANGED <<ap, lastAp, triggered, dataVars, eventVars, up, countVars, triggers, asks, sent,
                 reported, requested>>

KvNext ==
  \/ \E a \in AP \cup {NoAp} : Move(a)
  \/ SendPeriodicRequest \/ SendBeaconRequest \/ SendBssTmRequest
  \/ ApsMeasure \/ ApReceives \/ LoseUp
  \/ \E a \in AP : \/ SendNeighborReportResponse(a) \/ SendBeaconReport(a) \/ CooldownOver(a)
                    \/ StaReceives(a) \/ LoseDown(a)

KvSpec == KvInit /\ [][KvNext]_kvVars

----------------------------------------------------------------------------
(* Properties. *)

\* What an AP offers the station is what some AP's neighbor report named, however old
\* the list is that filters the measurement: the station is never steered by what it
\* happened to hear (OnNeighborReportReceived, SendBeaconRequest, ReceiveBeaconRequest).
CandidatesWereReported == beaconReport \subseteq reported

\* Every transition request answers a chain of its own: one started by a low measurement,
\* by an AP's measurement request taken for a neighbor report, or by a frame received
\* twice.  Nothing else multiplies them on the way through four helpers.
AsksHaveACause == asks <= triggers + apRequests + repeats

\* The flag holds the chains down: the station starts at most one for every change of
\* association, and one more (SendPeriodicRequest, OnLinkMeasurementReport).
ChainsFollowMoves == triggers <= moves + 1

\* A chain ends in a transition request unless a frame is lost, a report is empty or the
\* station not associated when it is its turn; without that the flag, once set, would
\* silence the helper for as long as the station stays with its AP.
NoChainIsLost ==
  Quiet /\ ~broken /\ apRequests = 0 => asks >= triggers /\ (triggered => asks > 0)

\* The limitation the module's README states: one roaming attempt per drop of the signal.
\* The APs' own measurement requests make it false.
OneAttemptPerDrop == sent <= triggers
=============================================================================
