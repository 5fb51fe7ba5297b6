------------------------ MODULE AutoRoamingKv_proofs ------------------------
(***************************************************************************)
(* Proofs about AutoRoamingKv, for any access points, helpers and bounds.   *)
(***************************************************************************)
EXTENDS AutoRoamingKv, FiniteSetTheorems, TLAPS

\* Decrementing a count that is not zero keeps it a natural number.
LEMMA KvCountsDown == ASSUME NEW k \in Nat, k > 0 PROVE k - 1 \in Nat
  OBVIOUS

\* What a queue holds after a frame is added, and after its first is taken.
LEMMA QueueSteps ==
  ASSUME NEW S, NEW q \in Seq(S)
  PROVE  /\ \A x \in S : Append(q, x) \in Seq(S)
         /\ q # <<>> => Head(q) \in S /\ Tail(q) \in Seq(S)
  OBVIOUS

\* Copies of a frame, added one after the other.
LEMMA CopiesAdded ==
  ASSUME NEW S, NEW q \in Seq(S), NEW n \in Nat, NEW x \in S
  PROVE  q \o [i \in 1..n |-> x] \in Seq(S)
  <1>1. [i \in 1..n |-> x] \in Seq(S) OBVIOUS
  <1> QED BY <1>1

\* The initial state is well typed.
LEMMA KvTypeInit == KvInit => KvTypeOK
  <1>1. KvInit => DataTyped BY DEF KvInit, DataTyped
  <1>2. KvInit => CountsTyped BY DEF KvInit, CountsTyped
  <1>3. KvInit => QueuesTyped
    <2>1. <<>> \in Seq(UpFrame) /\ <<>> \in Seq(DownFrame) OBVIOUS
    <2> QED BY <2>1 DEF KvInit, QueuesTyped
  <1> QED BY <1>1, <1>2, <1>3 DEF KvTypeOK

\* The frames the handlers send are frames of their queues.
LEMMA FramesTyped ==
  /\ \A a \in AP : /\ [type |-> "link_request", to |-> a] \in UpFrame
                   /\ [type |-> "neighbor_request", to |-> a] \in UpFrame
                   /\ \A aps \in SUBSET AP :
                        [type |-> "beacon_report", to |-> a, aps |-> aps] \in UpFrame
  /\ \A aps \in SUBSET AP : NeighborReport(aps) \in DownFrame
  /\ LinkRequestToSta \in DownFrame
  /\ \A low \in BOOLEAN : [type |-> "link_report", low |-> low] \in DownFrame
  /\ [type |-> "beacon_request"] \in DownFrame
  <1>1. ASSUME NEW a \in AP
        PROVE  /\ [type |-> "link_request", to |-> a] \in UpFrame
               /\ [type |-> "neighbor_request", to |-> a] \in UpFrame
               /\ \A aps \in SUBSET AP :
                    [type |-> "beacon_report", to |-> a, aps |-> aps] \in UpFrame
    BY DEF UpFrame
  <1>2. ASSUME NEW aps \in SUBSET AP PROVE NeighborReport(aps) \in DownFrame
    BY DEF DownFrame, NeighborReport
  <1>3. LinkRequestToSta \in DownFrame BY <1>2 DEF LinkRequestToSta
  <1>4. /\ \A low \in BOOLEAN : [type |-> "link_report", low |-> low] \in DownFrame
        /\ [type |-> "beacon_request"] \in DownFrame
    BY DEF DownFrame
  <1> QED BY <1>1, <1>2, <1>3, <1>4

\* A frame added to one AP's queue, or to each of several.
LEMMA DownTyped ==
  ASSUME KvTypeOK, NEW frame \in DownFrame
  PROVE  /\ \A a \in AP : [down EXCEPT ![a] = Append(@, frame)] \in [AP -> Seq(DownFrame)]
         /\ \A listing \in SUBSET AP :
              [a \in AP |-> IF a \in listing THEN Append(down[a], frame) ELSE down[a]]
                \in [AP -> Seq(DownFrame)]
  <1>1. down \in [AP -> Seq(DownFrame)] BY DEF KvTypeOK, DataTyped, CountsTyped, QueuesTyped
  <1>2. \A a \in AP : Append(down[a], frame) \in Seq(DownFrame) BY <1>1
  <1> QED BY <1>1, <1>2

\* A change of association, and the events of the station's helper.
LEMMA KvTypeHelper ==
  ASSUME KvTypeOK,
         (\E a \in AP \cup {NoAp} : Move(a)) \/ SendPeriodicRequest \/ SendBeaconRequest
           \/ SendBssTmRequest
  PROVE  KvTypeOK'
  <1>1. ASSUME NEW a \in AP \cup {NoAp}, Move(a) PROVE KvTypeOK'
    BY <1>1 DEF Move, KvTypeOK, DataTyped, CountsTyped, QueuesTyped, dataVars, eventVars, pastVars
  <1>2. CASE SendPeriodicRequest
    <2>1. up' \in Seq(UpFrame)
      BY <1>2, QueueSteps, FramesTyped DEF SendPeriodicRequest, KvTypeOK, DataTyped, CountsTyped, QueuesTyped
    <2>2. triggered' \in BOOLEAN /\ lastAp' \in AP \cup {NoAp}
      BY <1>2 DEF SendPeriodicRequest, FlagAfterRound, KvTypeOK, DataTyped, CountsTyped, QueuesTyped
    <2> QED BY <1>2, <2>1, <2>2 DEF SendPeriodicRequest, KvTypeOK, DataTyped, CountsTyped, QueuesTyped, dataVars, eventVars, pastVars
  <1>3. CASE SendBeaconRequest
    <2>1. beaconsDue' \in Nat
      BY <1>3, KvCountsDown DEF SendBeaconRequest, KvTypeOK, DataTyped, CountsTyped, QueuesTyped
    <2>2. down' \in [AP -> Seq(DownFrame)]
      <3>1. CASE UNCHANGED down BY <3>1 DEF KvTypeOK, QueuesTyped
      <3>2. CASE ap \in AP /\ down' = [down EXCEPT ![ap] = Append(@, [type |-> "beacon_request"])]
        BY <3>2, DownTyped, FramesTyped
      <3> QED BY <1>3, <3>1, <3>2 DEF SendBeaconRequest, KvTypeOK, DataTyped
    <2>3. neighborList' \in SUBSET AP /\ broken' \in BOOLEAN
      BY <1>3 DEF SendBeaconRequest, KvTypeOK, DataTyped, CountsTyped, QueuesTyped
    <2> QED BY <1>3, <2>1, <2>2, <2>3 DEF SendBeaconRequest, KvTypeOK, DataTyped, CountsTyped, QueuesTyped, countVars
  <1>4. CASE SendBssTmRequest
    <2>1. requestsDue' \in Nat
      BY <1>4, KvCountsDown DEF SendBssTmRequest, KvTypeOK, DataTyped, CountsTyped, QueuesTyped
    <2>2. asks' \in Nat /\ sent' \in Nat
      BY <1>4 DEF SendBssTmRequest, KvTypeOK, CountsTyped
    <2>3. requested' \subseteq AP /\ broken' \in BOOLEAN
      BY <1>4 DEF SendBssTmRequest, KvTypeOK, DataTyped
    <2> QED BY <1>4, <2>1, <2>2, <2>3 DEF SendBssTmRequest, KvTypeOK, DataTyped, CountsTyped, QueuesTyped, dataVars, countVars
  <1> QED BY <1>1, <1>2, <1>3, <1>4

\* The events of an AP's helpers and of the station's beacon protocol.
LEMMA KvTypeEvents ==
  ASSUME KvTypeOK,
         ApsMeasure \/ \E a \in AP : \/ SendNeighborReportResponse(a) \/ SendBeaconReport(a)
                                     \/ CooldownOver(a)
  PROVE  KvTypeOK'
  <1>1. ASSUME NEW a \in AP, SendNeighborReportResponse(a) PROVE KvTypeOK'
    <2>1. repliesDue[a] - 1 \in Nat
      BY <1>1, KvCountsDown DEF SendNeighborReportResponse, KvTypeOK, DataTyped, CountsTyped, QueuesTyped
    <2>2. NeighborReport(discovered[a]) \in DownFrame BY FramesTyped DEF KvTypeOK, DataTyped, CountsTyped, QueuesTyped
    <2>4. down' \in [AP -> Seq(DownFrame)]
      BY <1>1, <2>2, DownTyped DEF SendNeighborReportResponse
    <2>3. repliesDue' \in [AP -> Nat] /\ broken' \in BOOLEAN
      BY <1>1, <2>1 DEF SendNeighborReportResponse, KvTypeOK, DataTyped, CountsTyped, QueuesTyped
    <2> QED BY <1>1, <2>3, <2>4 DEF SendNeighborReportResponse, KvTypeOK, DataTyped, CountsTyped, QueuesTyped, dataVars, countVars
  <1>2. ASSUME NEW a \in AP, SendBeaconReport(a) PROVE KvTypeOK'
    <2>1. reportsDue[a] - 1 \in Nat
      BY <1>2, KvCountsDown DEF SendBeaconReport, KvTypeOK, DataTyped, CountsTyped, QueuesTyped
    <2>2. up' \in Seq(UpFrame)
      BY <1>2, QueueSteps, FramesTyped DEF SendBeaconReport, KvTypeOK, DataTyped, CountsTyped, QueuesTyped
    <2>3. reportsDue' \in [AP -> Nat] /\ broken' \in BOOLEAN
      BY <1>2, <2>1 DEF SendBeaconReport, KvTypeOK, DataTyped, CountsTyped, QueuesTyped
    <2> QED BY <1>2, <2>2, <2>3 DEF SendBeaconReport, KvTypeOK, DataTyped, CountsTyped, QueuesTyped, dataVars, countVars
  <1>3. ASSUME NEW a \in AP, CooldownOver(a) PROVE KvTypeOK'
    BY <1>3 DEF CooldownOver, KvTypeOK, DataTyped, CountsTyped, QueuesTyped, dataVars, eventVars, countVars
  <1>4. CASE ApsMeasure
    <2>1. PICK listing \in SUBSET AP \ {{}} :
            /\ apRequests + Cardinality(listing) <= MaxApRequests
            /\ apRequests' = apRequests + Cardinality(listing)
            /\ down' = [a \in AP |-> IF a \in listing THEN Append(down[a], LinkRequestToSta)
                                     ELSE down[a]]
      BY <1>4 DEF ApsMeasure
    <2>2. Cardinality(listing) \in Nat
      BY KvAssumption, FS_Subset, FS_CardinalityType
    <2>3. apRequests' \in Nat BY <2>1, <2>2 DEF KvTypeOK, DataTyped, CountsTyped, QueuesTyped
    <2>4. down' \in [AP -> Seq(DownFrame)] BY <2>1, DownTyped, FramesTyped
    <2> QED BY <1>4, <2>3, <2>4 DEF ApsMeasure, KvTypeOK, DataTyped, CountsTyped, QueuesTyped, dataVars, eventVars, pastVars
  <1> QED BY <1>1, <1>2, <1>3, <1>4

\* The handlers of what the station receives.
LEMMA KvTypeStaReceives ==
  ASSUME KvTypeOK, NEW a \in AP, StaReceives(a)
  PROVE  KvTypeOK'
  <1> DEFINE frame == Head(down[a])
  <1>1. frame \in DownFrame /\ Tail(down[a]) \in Seq(DownFrame)
    BY QueueSteps DEF StaReceives, KvTypeOK, QueuesTyped
  <1>2. down' \in [AP -> Seq(DownFrame)] /\ repeats' \in Nat
    <2>1. [down EXCEPT ![a] = Tail(@)] \in [AP -> Seq(DownFrame)] /\ down \in [AP -> Seq(DownFrame)]
      BY <1>1 DEF KvTypeOK, QueuesTyped
    <2>2. repeats \in Nat /\ repeats + 1 \in Nat BY DEF KvTypeOK, CountsTyped
    <2> QED BY <2>1, <2>2, Zenon DEF StaReceives, SentAgain
  <1>3. CASE frame.type = "link_report" /\ OnLinkMeasurementReport(frame.low)
    <2>1. up' \in Seq(UpFrame)
      BY <1>3, QueueSteps, FramesTyped DEF OnLinkMeasurementReport, KvTypeOK, DataTyped, QueuesTyped
    <2>2. triggered' \in BOOLEAN /\ triggers' \in Nat
      <3>1. triggers \in Nat /\ triggers + 1 \in Nat /\ triggered \in BOOLEAN
        BY DEF KvTypeOK, DataTyped, CountsTyped
      <3> QED BY <1>3, <3>1, Zenon DEF OnLinkMeasurementReport
    <2> QED BY <1>2, <1>3, <2>1, <2>2
         DEF StaReceives, OnLinkMeasurementReport, KvTypeOK, DataTyped, CountsTyped, QueuesTyped,
             dataVars, eventVars
  <1>4. CASE frame.type = "neighbor_report" /\ ReceiveNeighborReport(frame.aps)
    <2>1. frame.aps \subseteq AP
      BY <1>1, <1>4 DEF DownFrame, NeighborReport
    <2> QED BY <1>2, <1>4, <2>1
         DEF StaReceives, ReceiveNeighborReport, KvTypeOK, DataTyped, CountsTyped, QueuesTyped
  <1>5. CASE frame.type = "beacon_request" /\ ReceiveBeaconRequest(a)
    <2>1. measured' \subseteq AP
      BY <1>5 DEF ReceiveBeaconRequest, KvTypeOK, DataTyped
    <2>2. reportsDue' \in [AP -> Nat]
      BY <1>5 DEF ReceiveBeaconRequest, KvTypeOK, CountsTyped
    <2> QED BY <1>2, <1>5, <2>1, <2>2
         DEF StaReceives, ReceiveBeaconRequest, KvTypeOK, DataTyped, CountsTyped, QueuesTyped,
             pastVars
  <1> QED BY <1>3, <1>4, <1>5 DEF StaReceives

\* The handlers of what an AP receives.
LEMMA KvTypeApReceives ==
  ASSUME KvTypeOK, ApReceives
  PROVE  KvTypeOK'
  <1> DEFINE frame == Head(up)
  <1>1. frame \in UpFrame /\ frame.to \in AP /\ Tail(up) \in Seq(UpFrame)
    <2>1. frame \in UpFrame /\ Tail(up) \in Seq(UpFrame)
      BY QueueSteps DEF ApReceives, KvTypeOK, QueuesTyped
    <2> QED BY <2>1 DEF UpFrame
  <1>2. up' \in Seq(UpFrame) /\ repeats' \in Nat
    <2>1. up \in Seq(UpFrame) BY DEF KvTypeOK, QueuesTyped
    <2>2. repeats \in Nat /\ repeats + 1 \in Nat BY DEF KvTypeOK, CountsTyped
    <2> QED BY <1>1, <2>1, <2>2, Zenon DEF ApReceives, SentAgain
  <1>3. ASSUME NEW a \in AP, ReceiveLinkRequest(a)
        PROVE  down' \in [AP -> Seq(DownFrame)] /\ UNCHANGED <<dataVars, eventVars, pastVars>>
    <2>1. PICK low \in BOOLEAN :
            down' = [down EXCEPT ![a] =
                       @ \o [i \in 1..Helpers |-> [type |-> "link_report", low |-> low]]]
      BY <1>3 DEF ReceiveLinkRequest
    <2>2. down[a] \o [i \in 1..Helpers |-> [type |-> "link_report", low |-> low]] \in Seq(DownFrame)
      BY KvAssumption, FramesTyped, CopiesAdded DEF KvTypeOK, QueuesTyped
    <2> QED BY <1>3, <2>1, <2>2 DEF ReceiveLinkRequest, KvTypeOK, QueuesTyped
  <1>4. CASE frame.type = "link_request" /\ ReceiveLinkRequest(frame.to)
    BY <1>1, <1>2, <1>3, <1>4
    DEF ApReceives, KvTypeOK, DataTyped, CountsTyped, QueuesTyped, dataVars, eventVars, pastVars
  <1>5. CASE frame.type = "neighbor_request" /\ ProcessNeighborReportRequest(frame.to)
    <2>1. discovered' \in [AP -> SUBSET AP]
      BY <1>1, <1>5 DEF ProcessNeighborReportRequest, KvTypeOK, DataTyped
    <2>2. repliesDue' \in [AP -> Nat]
      BY <1>1, <1>5 DEF ProcessNeighborReportRequest, KvTypeOK, CountsTyped
    <2> QED BY <1>2, <1>5, <2>1, <2>2
         DEF ApReceives, ProcessNeighborReportRequest, KvTypeOK, DataTyped, CountsTyped, QueuesTyped,
             pastVars
  <1>6. CASE frame.type = "beacon_report" /\ ReceiveBeaconReport(frame.aps)
    <2>1. frame.aps \subseteq AP
      BY <1>1, <1>6 DEF UpFrame
    <2>2. requestsDue' \in Nat
      BY <1>6 DEF ReceiveBeaconReport, KvTypeOK, CountsTyped
    <2> QED BY <1>2, <1>6, <2>1, <2>2
         DEF ApReceives, ReceiveBeaconReport, KvTypeOK, DataTyped, CountsTyped, QueuesTyped, pastVars
  <1> QED BY <1>4, <1>5, <1>6 DEF ApReceives

\* A frame lost leaves the queue, and nothing else but a note of it.
LEMMA KvTypeLose ==
  ASSUME KvTypeOK, LoseUp \/ \E a \in AP : LoseDown(a)
  PROVE  KvTypeOK'
  <1>1. CASE LoseUp
    <2>1. up' \in Seq(UpFrame)
      BY <1>1, QueueSteps DEF LoseUp, KvTypeOK, QueuesTyped
    <2> QED BY <1>1, <2>1
         DEF LoseUp, KvTypeOK, DataTyped, CountsTyped, QueuesTyped, dataVars, eventVars, countVars
  <1>2. ASSUME NEW a \in AP, LoseDown(a) PROVE KvTypeOK'
    <2>1. down' \in [AP -> Seq(DownFrame)]
      BY <1>2, QueueSteps DEF LoseDown, KvTypeOK, QueuesTyped
    <2> QED BY <1>2, <2>1
         DEF LoseDown, KvTypeOK, DataTyped, CountsTyped, QueuesTyped, dataVars, eventVars, countVars
  <1> QED BY <1>1, <1>2

\* Every event, handler and frame keeps the state of the chain well typed.
THEOREM KvTypeCorrect == KvSpec => []KvTypeOK
  <1>1. KvTypeOK /\ [KvNext]_kvVars => KvTypeOK'
    <2>1. KvTypeOK /\ KvNext => KvTypeOK'
      BY KvTypeHelper, KvTypeEvents, KvTypeStaReceives, KvTypeApReceives, KvTypeLose DEF KvNext
    <2>2. KvTypeOK /\ UNCHANGED kvVars => KvTypeOK'
      BY DEF KvTypeOK, DataTyped, CountsTyped, QueuesTyped, kvVars, dataVars, eventVars, countVars,
             pastVars
    <2> QED BY <2>1, <2>2
  <1> QED BY <1>1, KvTypeInit, PTL DEF KvSpec

----------------------------------------------------------------------------
(* The flag holds the chains down.  A change of association lets the next measurement     *)
(* clear the flag, once: m_lastAssociatedAp tells whether it still may.                   *)

FlagHolds ==
  triggers + (IF lastAp \in {NoAp, ap} THEN 0 ELSE 1) <= moves + (IF triggered THEN 1 ELSE 0)

\* The helper starts at most one chain for every change of association, and one more.
THEOREM KvChainsFollowMoves == KvSpec => []ChainsFollowMoves
  <1>1. KvInit => FlagHolds BY DEF KvInit, FlagHolds
  <1>2. KvTypeOK /\ FlagHolds /\ [KvNext]_kvVars => FlagHolds'
    <2> SUFFICES ASSUME KvTypeOK, FlagHolds, [KvNext]_kvVars PROVE FlagHolds'
      OBVIOUS
    <2>1. triggers \in Nat /\ moves \in Nat /\ triggered \in BOOLEAN
      BY DEF KvTypeOK, DataTyped, CountsTyped
    <2>2. ASSUME NEW a \in AP \cup {NoAp}, Move(a) PROVE FlagHolds'
      BY <2>1, <2>2 DEF Move, FlagHolds, pastVars
    <2>3. CASE SendPeriodicRequest
      BY <2>1, <2>3 DEF SendPeriodicRequest, FlagAfterRound, FlagHolds, pastVars
    <2>4. ASSUME NEW a \in AP, StaReceives(a) PROVE FlagHolds'
      <3>1. UNCHANGED <<ap, lastAp, moves>> BY <2>4 DEF StaReceives
      <3>2. \/ UNCHANGED <<triggered, triggers>>
            \/ ~triggered /\ triggered' /\ triggers' = triggers + 1
        BY <2>4 DEF StaReceives, OnLinkMeasurementReport, ReceiveNeighborReport,
                    ReceiveBeaconRequest, pastVars
      <3> QED BY <2>1, <3>1, <3>2 DEF FlagHolds
    <2>5. CASE ApReceives
      BY <2>5 DEF ApReceives, ReceiveLinkRequest, ProcessNeighborReportRequest, ReceiveBeaconReport,
                  FlagHolds, pastVars
    <2>6. CASE UNCHANGED <<ap, lastAp, triggered, triggers, moves>>
      BY <2>6 DEF FlagHolds
    <2> QED BY <2>2, <2>3, <2>4, <2>5, <2>6
         DEF KvNext, SendBeaconRequest, SendBssTmRequest, ApsMeasure, LoseUp, LoseDown,
             SendNeighborReportResponse, SendBeaconReport, CooldownOver, kvVars, countVars, pastVars
  <1>3. KvTypeOK /\ FlagHolds => ChainsFollowMoves
    BY DEF KvTypeOK, DataTyped, CountsTyped, FlagHolds, ChainsFollowMoves
  <1> QED BY <1>1, <1>2, <1>3, KvTypeCorrect, PTL DEF KvSpec

----------------------------------------------------------------------------
(* Where candidates come from.  A name reaches an AP's report by way of the station's     *)
(* list, which filters its measurement, and of a frame: each holds names reported before.  *)

ReportsKnown(q) == \A i \in 1..Len(q) : q[i].type = "beacon_report" => q[i].aps \subseteq reported

NamesKnown ==
  /\ neighborReport \subseteq reported /\ neighborList \subseteq reported
  /\ measured \subseteq reported /\ beaconReport \subseteq reported
  /\ ReportsKnown(up)

\* The elements of a queue after a frame is added, and after its first is taken.
LEMMA QueueElements ==
  ASSUME NEW S, NEW q \in Seq(S)
  PROVE  /\ \A x \in S : \A i \in 1..Len(Append(q, x)) :
              Append(q, x)[i] = x \/ \E j \in 1..Len(q) : Append(q, x)[i] = q[j]
         /\ q # <<>> => /\ 1 \in 1..Len(q) /\ Head(q) = q[1]
                        /\ \A i \in 1..Len(Tail(q)) : \E j \in 1..Len(q) : Tail(q)[i] = q[j]
  <1>1. \A x \in S : \A i \in 1..Len(Append(q, x)) :
          Append(q, x)[i] = x \/ (i \in 1..Len(q) /\ Append(q, x)[i] = q[i])
    OBVIOUS
  <1>2. ASSUME q # <<>>
        PROVE  /\ 1 \in 1..Len(q) /\ Head(q) = q[1]
               /\ \A i \in 1..Len(Tail(q)) : i + 1 \in 1..Len(q) /\ Tail(q)[i] = q[i + 1]
    BY <1>2
  <1> QED BY <1>1, <1>2

\* A frame of known names, or of another kind, keeps the queue's names known.
LEMMA KnownAppended ==
  ASSUME KvTypeOK, NamesKnown, UNCHANGED reported, NEW frame \in UpFrame,
         frame.type = "beacon_report" => frame.aps \subseteq reported,
         up' = Append(up, frame)
  PROVE  ReportsKnown(up)'
  BY QueueElements DEF KvTypeOK, QueuesTyped, NamesKnown, ReportsKnown

\* Taking the first frame, or leaving the queue as it is, keeps its names known.
LEMMA KnownTaken ==
  ASSUME KvTypeOK, NamesKnown, reported \subseteq reported', up' = up \/ (up # <<>> /\ up' = Tail(up))
  PROVE  ReportsKnown(up)'
  <1>1. CASE up' = up BY <1>1 DEF NamesKnown, ReportsKnown
  <1>2. CASE up # <<>> /\ up' = Tail(up)
    BY <1>2, QueueElements DEF KvTypeOK, QueuesTyped, NamesKnown, ReportsKnown
  <1> QED BY <1>1, <1>2

\* The handlers of the station keep every name known.
LEMMA KnownStaReceives ==
  ASSUME KvTypeOK, NamesKnown, NEW a \in AP, StaReceives(a)
  PROVE  NamesKnown'
  <1> DEFINE frame == Head(down[a])
  <1>1. CASE frame.type = "link_report" /\ OnLinkMeasurementReport(frame.low)
    <2>1. ReportsKnown(up)'
      <3>1. reported' = reported BY <1>1 DEF OnLinkMeasurementReport
      <3>2. CASE up' = up BY <3>1, <3>2, KnownTaken
      <3>3. CASE ap \in AP /\ up' = Append(up, [type |-> "neighbor_request", to |-> ap])
        BY <3>1, <3>3, KnownAppended, FramesTyped
      <3> QED BY <1>1, <3>2, <3>3 DEF OnLinkMeasurementReport, KvTypeOK, DataTyped
    <2> QED BY <1>1, <2>1 DEF OnLinkMeasurementReport, NamesKnown, dataVars
  <1>2. CASE frame.type = "neighbor_report" /\ ReceiveNeighborReport(frame.aps)
    <2>1. reported \subseteq reported' /\ up' = up
      BY <1>2 DEF ReceiveNeighborReport
    <2>2. ReportsKnown(up)' BY <2>1, KnownTaken
    <2> QED BY <1>2, <2>1, <2>2 DEF ReceiveNeighborReport, NamesKnown
  <1>3. CASE frame.type = "beacon_request" /\ ReceiveBeaconRequest(a)
    <2>1. ReportsKnown(up)' BY <1>3, KnownTaken DEF ReceiveBeaconRequest, pastVars
    <2> QED BY <1>3, <2>1 DEF ReceiveBeaconRequest, NamesKnown, pastVars
  <1> QED BY <1>1, <1>2, <1>3 DEF StaReceives

\* The handlers of the APs keep every name known.
LEMMA KnownApReceives ==
  ASSUME KvTypeOK, NamesKnown, ApReceives
  PROVE  NamesKnown'
  <1> DEFINE frame == Head(up)
  <1>1. reported' = reported
    BY DEF ApReceives, ReceiveLinkRequest, ProcessNeighborReportRequest, ReceiveBeaconReport, pastVars
  <1>2. ReportsKnown(up)' BY <1>1, KnownTaken DEF ApReceives
  <1>3. CASE ReceiveBeaconReport(frame.aps) /\ frame.type = "beacon_report"
    <2>1. frame.aps \subseteq reported
      BY <1>3, QueueElements DEF ApReceives, KvTypeOK, QueuesTyped, NamesKnown, ReportsKnown
    <2> QED BY <1>1, <1>2, <1>3, <2>1 DEF ReceiveBeaconReport, NamesKnown
  <1>4. CASE UNCHANGED <<neighborReport, neighborList, measured, beaconReport>>
    BY <1>1, <1>2, <1>4 DEF NamesKnown
  <1> QED BY <1>3, <1>4 DEF ApReceives, ReceiveLinkRequest, ProcessNeighborReportRequest, dataVars

\* The station is offered nothing but APs that some neighbor report has named.
THEOREM KvCandidatesWereReported == KvSpec => []CandidatesWereReported
  <1>1. KvInit => NamesKnown BY DEF KvInit, NamesKnown, ReportsKnown
  <1>2. KvTypeOK /\ NamesKnown /\ [KvNext]_kvVars => NamesKnown'
    <2> SUFFICES ASSUME KvTypeOK, NamesKnown, [KvNext]_kvVars PROVE NamesKnown'
      OBVIOUS
    <2>1. CASE SendPeriodicRequest
      <3>1. reported' = reported BY <2>1 DEF SendPeriodicRequest, pastVars
      <3>2. CASE up' = up BY <3>1, <3>2, KnownTaken, <2>1 DEF SendPeriodicRequest, NamesKnown, dataVars
      <3>3. CASE ap \in AP /\ up' = Append(up, [type |-> "link_request", to |-> ap])
        <4>1. ReportsKnown(up)' BY <3>1, <3>3, KnownAppended, FramesTyped
        <4> QED BY <2>1, <3>1, <4>1 DEF SendPeriodicRequest, NamesKnown, dataVars
      <3> QED BY <2>1, <3>2, <3>3 DEF SendPeriodicRequest, KvTypeOK, DataTyped
    <2>2. ASSUME NEW a \in AP, SendBeaconReport(a) PROVE NamesKnown'
      <3>1. ReportsKnown(up)'
        <4>1. /\ [type |-> "beacon_report", to |-> a, aps |-> measured] \in UpFrame
              /\ measured \subseteq reported
          BY FramesTyped DEF KvTypeOK, DataTyped, NamesKnown
        <4> QED BY <2>2, <4>1, KnownAppended DEF SendBeaconReport
      <3> QED BY <2>2, <3>1 DEF SendBeaconReport, NamesKnown, dataVars
    <2>3. CASE SendBeaconRequest
      BY <2>3, KnownTaken DEF SendBeaconRequest, NamesKnown
    <2>4. CASE LoseUp
      BY <2>4, KnownTaken DEF LoseUp, NamesKnown, dataVars
    <2>5. CASE UNCHANGED <<neighborReport, neighborList, measured, beaconReport, up, reported>>
      BY <2>5 DEF NamesKnown, ReportsKnown
    <2> QED BY <2>1, <2>2, <2>3, <2>4, <2>5, KnownStaReceives, KnownApReceives
         DEF KvNext, Move, SendBssTmRequest, ApsMeasure, LoseDown, SendNeighborReportResponse,
             CooldownOver, kvVars, dataVars, pastVars
  <1>3. NamesKnown => CandidatesWereReported BY DEF NamesKnown, CandidatesWereReported
  <1> QED BY <1>1, <1>2, <1>3, KvTypeCorrect, PTL DEF KvSpec

----------------------------------------------------------------------------
(* Chains under way.  A chain is, at any time, one frame or one event of those that       *)
(* continue it: they are counted by their places in the queues, the station's under NoAp,  *)
(* and by their numbers among the events due.                                             *)

Frame == UpFrame \cup DownFrame

Place == AP \cup {NoAp}

OfAChain(frame) == frame.type \notin {"link_request", "link_report"}

Places(q) == {p \in (DOMAIN q) \X Nat : p[2] \in 1..Len(q[p[1]]) /\ OfAChain(q[p[1]][p[2]])}

Due(n) == {p \in (DOMAIN n) \X Nat : p[2] \in 1..n[p[1]]}

\* Adding a frame to one queue adds its place, or none.
LEMMA PlacesAppended ==
  ASSUME NEW q \in [Place -> Seq(Frame)], NEW a \in Place, NEW x \in Frame, IsFiniteSet(Places(q)),
         NEW r \in [Place -> Seq(Frame)], r[a] = Append(q[a], x), \A b \in Place : b # a => r[b] = q[b]
  PROVE  /\ IsFiniteSet(Places(r))
         /\ Cardinality(Places(r)) - Cardinality(Places(q)) = (IF OfAChain(x) THEN 1 ELSE 0)
<1> DEFINE n == Len(q[a]) + 1
<1>1. q[a] \in Seq(Frame) /\ n \in Nat OBVIOUS
<1>2. /\ Len(r[a]) = n /\ r[a][n] = x /\ \A i \in 1..Len(q[a]) : r[a][i] = q[a][i]
      /\ \A i \in 1..n : i = n \/ i \in 1..Len(q[a])
  <2>1. ASSUME NEW s \in Seq(Frame)
        PROVE  /\ Len(Append(s, x)) = Len(s) + 1 /\ Append(s, x)[Len(s) + 1] = x
               /\ \A i \in 1..Len(s) : Append(s, x)[i] = s[i]
    OBVIOUS
  <2>2. Len(q[a]) \in Nat BY <1>1
  <2>3. \A i \in 1..n : i = n \/ i \in 1..Len(q[a]) BY <2>2
  <2>4. QED BY <1>1, <2>1, <2>3
<1>3. n \notin 1..Len(q[a]) /\ 1..Len(q[a]) \subseteq 1..n /\ n \in 1..n BY <1>1
<1> HIDE DEF n
<1>4. <<a, n>> \notin Places(q) BY <1>3 DEF Places
<1>5. CASE OfAChain(x)
  <2>1. Places(r) = Places(q) \cup {<<a, n>>}
    <3>1. ASSUME NEW p \in Place \X Nat
          PROVE  p \in Places(r) <=> p \in Places(q) \/ p = <<a, n>>
      <4>1. p = <<p[1], p[2]>> OBVIOUS
      <4>2. CASE p[1] # a BY <1>1, <4>1, <4>2 DEF Places
      <4>3. CASE p[1] = a BY <1>1, <1>2, <1>3, <1>5, <4>1, <4>3 DEF Places
      <4>4. QED BY <4>2, <4>3
    <3>2. Places(r) \subseteq Place \X Nat /\ Places(q) \subseteq Place \X Nat BY <1>1 DEF Places
    <3>3. <<a, n>> \in Place \X Nat BY <1>1
    <3>4. QED BY <3>1, <3>2, <3>3
  <2>2. Cardinality(Places(q)) \in Nat BY FS_CardinalityType
  <2>3. Cardinality(Places(r)) = Cardinality(Places(q)) + 1 /\ IsFiniteSet(Places(r))
    BY <1>4, <2>1, FS_AddElement
  <2>4. QED BY <1>5, <2>2, <2>3
<1>6. CASE ~OfAChain(x)
  <2>1. Places(r) = Places(q)
    <3>1. ASSUME NEW p \in Place \X Nat PROVE p \in Places(r) <=> p \in Places(q)
      <4>1. CASE p[1] # a BY <1>1, <4>1 DEF Places
      <4>2. CASE p[1] = a BY <1>1, <1>2, <1>3, <1>6, <4>2 DEF Places
      <4>3. QED BY <4>1, <4>2
    <3>2. Places(r) \subseteq Place \X Nat /\ Places(q) \subseteq Place \X Nat BY <1>1 DEF Places
    <3>3. QED BY <3>1, <3>2
  <2>2. Cardinality(Places(q)) \in Nat BY FS_CardinalityType
  <2>3. QED BY <1>6, <2>1, <2>2
<1>7. QED BY <1>5, <1>6

\* Taking the first frame of a queue removes its place, if it has one; the others move up.
LEMMA PlacesTaken ==
  ASSUME NEW q \in [Place -> Seq(Frame)], NEW a \in Place, q[a] # <<>>, IsFiniteSet(Places(q))
  PROVE  LET r == [q EXCEPT ![a] = Tail(@)] IN
           /\ IsFiniteSet(Places(r))
           /\ Cardinality(Places(r)) =
                Cardinality(Places(q)) - (IF OfAChain(Head(q[a])) THEN 1 ELSE 0)
<1> DEFINE r == [q EXCEPT ![a] = Tail(@)]
           rest == Places(q) \ {<<a, 1>>}
           up1 == [p \in rest |-> IF p[1] = a THEN <<a, p[2] - 1>> ELSE p]
<1>1. q[a] \in Seq(Frame) /\ r \in [Place -> Seq(Frame)] OBVIOUS
<1>2. /\ \A i \in Nat \ {0} : i \in 1..Len(r[a]) <=> i + 1 \in 1..Len(q[a])
      /\ \A i \in 1..Len(r[a]) : r[a][i] = q[a][i + 1]
      /\ 1 \in 1..Len(q[a]) /\ Head(q[a]) = q[a][1]
  <2>1. r[a] = Tail(q[a]) OBVIOUS
  <2> DEFINE s == q[a]
  <2> HIDE DEF r, s
  <2>2. s \in Seq(Frame) /\ s # <<>> /\ r[a] = Tail(s) BY <1>1, <2>1 DEF s
  <2>3. Len(s) \in Nat \ {0} /\ Len(Tail(s)) = Len(s) - 1 /\ Head(s) = s[1] BY <2>2
  <2>4. \A i \in 1..Len(Tail(s)) : Tail(s)[i] = s[i + 1] BY <2>2, <2>3
  <2>5. /\ \A i \in Nat \ {0} : i \in 1..Len(Tail(s)) <=> i + 1 \in 1..Len(s)
        /\ 1 \in 1..Len(s)
    BY <2>3
  <2>6. QED BY <2>2, <2>3, <2>4, <2>5 DEF s
<1>3. \A b \in Place : b # a => r[b] = q[b] OBVIOUS
<1> HIDE DEF r
<1>4. ASSUME NEW i \in Nat
      PROVE  <<a, i>> \in Places(r) <=> <<a, i + 1>> \in Places(q) /\ i > 0
  BY <1>1, <1>2 DEF Places
<1>5. ASSUME NEW b \in Place, NEW i \in Nat, b # a
      PROVE  <<b, i>> \in Places(r) <=> <<b, i>> \in Places(q)
  BY <1>1, <1>3, <1>5 DEF Places
<1>6. ASSUME NEW p \in rest
      PROVE  /\ p = <<p[1], p[2]>> /\ p[1] \in Place /\ p[2] \in Nat /\ up1[p] \in Places(r)
             /\ p[1] = a => p[2] - 1 \in Nat /\ p[2] - 1 + 1 = p[2]
  <2>1. p \in Place \X Nat /\ p[2] \in 1..Len(q[p[1]]) BY <1>1 DEF Places
  <2>2. p = <<p[1], p[2]>> /\ p[1] \in Place /\ p[2] \in Nat /\ p[2] >= 1 BY <2>1, <1>1
  <2>3. CASE p[1] = a
    <3>1. p[2] # 1 BY <2>2, <2>3
    <3>2. p[2] - 1 \in Nat /\ p[2] - 1 > 0 /\ p[2] - 1 + 1 = p[2] BY <2>2, <3>1
    <3>3. <<a, p[2] - 1>> \in Places(r) BY <1>4, <2>2, <2>3, <3>2
    <3>4. QED BY <2>2, <2>3, <3>2, <3>3
  <2>4. CASE p[1] # a BY <1>5, <2>2, <2>4
  <2>5. QED BY <2>3, <2>4
<1>7. up1 \in [rest -> Places(r)] BY <1>6
<1>8. ASSUME NEW p \in rest, NEW s \in rest, up1[p] = up1[s] PROVE p = s
  <2>1. up1[p][1] = p[1] /\ up1[s][1] = s[1] OBVIOUS
  <2>2. up1[p][2] = (IF p[1] = a THEN p[2] - 1 ELSE p[2]) /\ up1[s][2] = (IF s[1] = a THEN s[2] - 1 ELSE s[2])
    OBVIOUS
  <2>3. p[1] = s[1] BY <1>8, <2>1
  <2>4. p[2] = s[2] BY <1>6, <1>8, <2>2, <2>3
  <2>5. QED BY <1>6, <2>3, <2>4
<1>9. ASSUME NEW t \in Places(r) PROVE \E p \in rest : up1[p] = t
  <2>1. t \in Place \X Nat /\ t = <<t[1], t[2]>> /\ t[1] \in Place /\ t[2] \in Nat BY <1>1 DEF Places
  <2>2. CASE t[1] = a
    <3>1. <<a, t[2] + 1>> \in Places(q) /\ t[2] > 0 BY <1>4, <2>1, <2>2
    <3>2. <<a, t[2] + 1>> \in rest BY <2>1, <3>1
    <3>3. t[2] + 1 - 1 = t[2] BY <2>1
    <3>4. up1[<<a, t[2] + 1>>] = t BY <2>1, <2>2, <3>2, <3>3
    <3>5. QED BY <3>2, <3>4
  <2>3. CASE t[1] # a
    <3>1. t \in rest BY <1>5, <2>1, <2>3
    <3>2. QED BY <2>3, <3>1
  <2>4. QED BY <2>2, <2>3
<1>10. up1 \in Bijection(rest, Places(r))
  BY <1>7, <1>8, <1>9 DEF Bijection, Injection, Surjection, IsInjective
<1> HIDE DEF up1
<1>11. /\ IsFiniteSet(rest)
       /\ Cardinality(rest) = Cardinality(Places(q)) - (IF <<a, 1>> \in Places(q) THEN 1 ELSE 0)
  <2>1. Cardinality(Places(q)) \in Nat BY FS_CardinalityType
  <2>2. /\ IsFiniteSet(rest)
        /\ Cardinality(rest) =
             IF <<a, 1>> \in Places(q) THEN Cardinality(Places(q)) - 1 ELSE Cardinality(Places(q))
    BY FS_RemoveElement
  <2> HIDE DEF rest
  <2>3. QED BY <2>1, <2>2
<1>12. <<a, 1>> \in Places(q) <=> OfAChain(Head(q[a])) BY <1>1, <1>2 DEF Places
<1>13. IsFiniteSet(Places(r)) /\ Cardinality(Places(r)) = Cardinality(rest)
  <2>1. ExistsBijection(rest, Places(r)) BY <1>10 DEF ExistsBijection
  <2>2. QED BY <1>11, <2>1, FS_Bijection
<1>14. QED BY <1>11, <1>12, <1>13 DEF r

\* Frames of no chain, added to one queue, leave the places as they are.
LEMMA PlacesKept ==
  ASSUME NEW q \in [Place -> Seq(Frame)], NEW a \in Place, NEW c \in Seq(Frame),
         \A i \in 1..Len(c) : ~OfAChain(c[i]), IsFiniteSet(Places(q)),
         NEW r \in [Place -> Seq(Frame)], r[a] = q[a] \o c, \A b \in Place : b # a => r[b] = q[b]
  PROVE  IsFiniteSet(Places(r)) /\ Cardinality(Places(r)) - Cardinality(Places(q)) = 0
<1>1. q[a] \in Seq(Frame) OBVIOUS
<1>2. /\ \A i \in Nat : i \in 1..Len(r[a]) <=> i \in 1..Len(q[a]) \/ i - Len(q[a]) \in 1..Len(c)
      /\ \A i \in 1..Len(q[a]) : r[a][i] = q[a][i]
      /\ \A i \in 1..Len(r[a]) : i \notin 1..Len(q[a]) => ~OfAChain(r[a][i])
  <2>1. ASSUME NEW s \in Seq(Frame)
        PROVE  /\ \A i \in Nat : i \in 1..Len(s \o c) <=> i \in 1..Len(s) \/ i - Len(s) \in 1..Len(c)
               /\ \A i \in 1..Len(s) : (s \o c)[i] = s[i]
               /\ \A i \in 1..Len(s \o c) : i \notin 1..Len(s) =>
                    i - Len(s) \in 1..Len(c) /\ (s \o c)[i] = c[i - Len(s)]
    OBVIOUS
  <2>2. QED BY <1>1, <2>1
<1>3. ASSUME NEW p \in Place \X Nat PROVE p \in Places(r) <=> p \in Places(q)
  <2>1. CASE p[1] # a BY <1>1, <2>1 DEF Places
  <2>2. CASE p[1] = a BY <1>1, <1>2, <2>2 DEF Places
  <2>3. QED BY <2>1, <2>2
<1>4. Places(r) \subseteq Place \X Nat /\ Places(q) \subseteq Place \X Nat BY DEF Places
<1>5. Places(r) = Places(q) BY <1>3, <1>4
<1>6. Cardinality(Places(q)) \in Nat BY FS_CardinalityType
<1>7. QED BY <1>5, <1>6

\* Adding a frame of a chain to several queues adds as many places.
LEMMA PlacesSpread ==
  ASSUME NEW q \in [Place -> Seq(Frame)], NEW L \in SUBSET Place, NEW x \in Frame, OfAChain(x),
         IsFiniteSet(Places(q)), IsFiniteSet(L)
  PROVE  LET r == [i \in Place |-> IF i \in L THEN Append(q[i], x) ELSE q[i]] IN
           /\ IsFiniteSet(Places(r))
           /\ Cardinality(Places(r)) = Cardinality(Places(q)) + Cardinality(L)
<1> DEFINE r == [i \in Place |-> IF i \in L THEN Append(q[i], x) ELSE q[i]]
           place == [i \in L |-> <<i, Len(q[i]) + 1>>]
           new == {<<i, Len(q[i]) + 1>> : i \in L}
<1>1. /\ \A i \in Place : q[i] \in Seq(Frame) /\ Len(q[i]) \in Nat
      /\ r \in [Place -> Seq(Frame)]
  OBVIOUS
<1>2. ASSUME NEW i \in Place, i \in L
      PROVE  /\ Len(r[i]) = Len(q[i]) + 1 /\ r[i][Len(q[i]) + 1] = x
             /\ \A k \in 1..Len(q[i]) : r[i][k] = q[i][k]
  <2>1. r[i] = Append(q[i], x) BY <1>2
  <2>2. ASSUME NEW s \in Seq(Frame)
        PROVE  /\ Len(Append(s, x)) = Len(s) + 1 /\ Append(s, x)[Len(s) + 1] = x
               /\ \A k \in 1..Len(s) : Append(s, x)[k] = s[k]
    OBVIOUS
  <2> HIDE DEF r
  <2>3. QED BY <1>1, <2>1, <2>2
<1>3. \A i \in Place : i \notin L => r[i] = q[i] OBVIOUS
<1> HIDE DEF r
<1>4. Places(r) = Places(q) \cup new
  <2>1. ASSUME NEW p \in Place \X Nat PROVE p \in Places(r) <=> p \in Places(q) \/ p \in new
    <3>1. p = <<p[1], p[2]>> /\ p[1] \in Place /\ p[2] \in Nat OBVIOUS
    <3>2. CASE p[1] \notin L BY <1>1, <1>3, <3>1, <3>2 DEF Places
    <3>3. CASE p[1] \in L
      <4>1. Len(q[p[1]]) \in Nat BY <1>1, <3>1
      <4>2. p[2] \in 1..Len(r[p[1]]) <=> p[2] \in 1..Len(q[p[1]]) \/ p[2] = Len(q[p[1]]) + 1
        BY <1>2, <3>1, <3>3, <4>1
      <4>3. p \in new <=> p[2] = Len(q[p[1]]) + 1 BY <3>1, <3>3
      <4>4. QED BY <1>1, <1>2, <3>1, <3>3, <4>1, <4>2, <4>3 DEF Places
    <3>4. QED BY <3>2, <3>3
  <2>2. Places(r) \subseteq Place \X Nat /\ Places(q) \subseteq Place \X Nat BY <1>1 DEF Places
  <2>3. new \subseteq Place \X Nat BY <1>1
  <2>4. QED BY <2>1, <2>2, <2>3
<1>5. Places(q) \cap new = {} BY <1>1 DEF Places
<1>6. IsFiniteSet(new) /\ Cardinality(new) = Cardinality(L)
  <2>1. place \in [L -> new] OBVIOUS
  <2>2. \A i, k \in L : place[i] = place[k] => i = k OBVIOUS
  <2>3. \A t \in new : \E i \in L : place[i] = t OBVIOUS
  <2> HIDE DEF place, new
  <2>4. place \in Bijection(L, new)
    BY <2>1, <2>2, <2>3 DEF Bijection, Injection, Surjection, IsInjective
  <2>5. ExistsBijection(L, new) BY <2>4 DEF ExistsBijection
  <2>6. QED BY <2>5, FS_Bijection
<1> HIDE DEF new
<1>7. /\ IsFiniteSet(Places(r))
      /\ Cardinality(Places(r)) = Cardinality(Places(q)) + Cardinality(new) - Cardinality({})
  BY <1>4, <1>5, <1>6, FS_Union
<1>8. Cardinality({}) = 0 /\ Cardinality(Places(q)) \in Nat /\ Cardinality(L) \in Nat
  BY FS_EmptySet, FS_CardinalityType
<1>9. QED BY <1>6, <1>7, <1>8 DEF r

\* One event more, or one less, among those due at one place.
LEMMA DueCounts ==
  ASSUME NEW I, NEW n \in [I -> Nat], NEW a \in I, IsFiniteSet(Due(n))
  PROVE  /\ LET m == [n EXCEPT ![a] = @ + 1] IN
              IsFiniteSet(Due(m)) /\ Cardinality(Due(m)) = Cardinality(Due(n)) + 1
         /\ n[a] > 0 =>
              LET m == [n EXCEPT ![a] = @ - 1] IN
                IsFiniteSet(Due(m)) /\ Cardinality(Due(m)) = Cardinality(Due(n)) - 1
<1>1. Cardinality(Due(n)) \in Nat /\ n[a] \in Nat BY FS_CardinalityType
<1>2. Due([n EXCEPT ![a] = @ + 1]) = Due(n) \cup {<<a, n[a] + 1>>}
  <2> DEFINE m == [n EXCEPT ![a] = @ + 1]
  <2>1. DOMAIN m = I /\ m[a] = n[a] + 1 /\ \A b \in I : b # a => m[b] = n[b] OBVIOUS
  <2> HIDE DEF m
  <2>2. ASSUME NEW p \in I \X Nat PROVE p \in Due(m) <=> p \in Due(n) \/ p = <<a, n[a] + 1>>
    <3>1. p = <<p[1], p[2]>> /\ p[1] \in I /\ p[2] \in Nat OBVIOUS
    <3>2. CASE p[1] # a BY <2>1, <3>1, <3>2 DEF Due
    <3>3. CASE p[1] = a
      <4>1. p[2] \in 1..m[a] <=> p[2] \in 1..n[a] \/ p[2] = n[a] + 1 BY <1>1, <2>1, <3>1
      <4>2. QED BY <2>1, <3>1, <3>3, <4>1 DEF Due
    <3>4. QED BY <3>2, <3>3
  <2>3. Due(m) \subseteq I \X Nat /\ Due(n) \subseteq I \X Nat BY <2>1 DEF Due
  <2>4. <<a, n[a] + 1>> \in I \X Nat BY <1>1
  <2>5. QED BY <2>2, <2>3, <2>4 DEF m
<1>3. <<a, n[a] + 1>> \notin Due(n) BY <1>1 DEF Due
<1>4. ASSUME n[a] > 0 PROVE Due([n EXCEPT ![a] = @ - 1]) = Due(n) \ {<<a, n[a]>>}
  <2> DEFINE m == [n EXCEPT ![a] = @ - 1]
  <2>1. DOMAIN m = I /\ m[a] = n[a] - 1 /\ \A b \in I : b # a => m[b] = n[b] OBVIOUS
  <2> HIDE DEF m
  <2>2. ASSUME NEW p \in I \X Nat PROVE p \in Due(m) <=> p \in Due(n) /\ p # <<a, n[a]>>
    <3>1. p = <<p[1], p[2]>> /\ p[1] \in I /\ p[2] \in Nat OBVIOUS
    <3>2. CASE p[1] # a BY <2>1, <3>1, <3>2 DEF Due
    <3>3. CASE p[1] = a
      <4>1. p[2] \in 1..m[a] <=> p[2] \in 1..n[a] /\ p[2] # n[a] BY <1>1, <2>1, <3>1
      <4>2. QED BY <2>1, <3>1, <3>3, <4>1 DEF Due
    <3>4. QED BY <3>2, <3>3
  <2>3. Due(m) \subseteq I \X Nat /\ Due(n) \subseteq I \X Nat BY <2>1 DEF Due
  <2>4. QED BY <2>2, <2>3 DEF m
<1>5. n[a] > 0 => <<a, n[a]>> \in Due(n) BY <1>1 DEF Due
<1>6. /\ IsFiniteSet(Due(n) \cup {<<a, n[a] + 1>>})
      /\ Cardinality(Due(n) \cup {<<a, n[a] + 1>>}) = Cardinality(Due(n)) + 1
  BY <1>3, FS_AddElement
<1>7. n[a] > 0 => /\ IsFiniteSet(Due(n) \ {<<a, n[a]>>})
                  /\ Cardinality(Due(n) \ {<<a, n[a]>>}) = Cardinality(Due(n)) - 1
  BY <1>5, FS_RemoveElement
<1>8. QED BY <1>2, <1>4, <1>6, <1>7

----------------------------------------------------------------------------
(* Every chain under way has a cause, and none is lost unless something breaks: the       *)
(* number of requests asked for and of chains under way lies between the causes there     *)
(* were and those of them that started at the station.                                    *)

Queues == [i \in Place |-> IF i = NoAp THEN up ELSE down[i]]

UnderWay ==
  Cardinality(Places(Queues)) + Cardinality(Due(repliesDue)) + Cardinality(Due(reportsDue))
    + beaconsDue + requestsDue

ChainsFinite ==
  IsFiniteSet(Places(Queues)) /\ IsFiniteSet(Due(repliesDue)) /\ IsFiniteSet(Due(reportsDue))

ReportsFull == \A i \in 1..Len(up) : up[i].type = "beacon_report" => up[i].aps # {}

ChainInv ==
  /\ ChainsFinite
  /\ asks + UnderWay <= triggers + apRequests + repeats
  /\ ~broken => ReportsFull /\ asks + UnderWay >= triggers
  /\ triggered => triggers > 0

\* The queues as one function, and the numbers that are added up.
LEMMA QueuesAndCounts ==
  ASSUME KvTypeOK
  PROVE  /\ Queues \in [Place -> Seq(Frame)]
         /\ Queues[NoAp] = up /\ \A a \in AP : Queues[a] = down[a]
         /\ repliesDue \in [AP -> Nat] /\ reportsDue \in [AP -> Nat]
         /\ ChainsFinite => /\ Cardinality(Places(Queues)) \in Nat
                            /\ Cardinality(Due(repliesDue)) \in Nat
                            /\ Cardinality(Due(reportsDue)) \in Nat
         /\ beaconsDue \in Nat /\ requestsDue \in Nat /\ asks \in Nat /\ triggers \in Nat
         /\ apRequests \in Nat /\ repeats \in Nat
<1>1. up \in Seq(UpFrame) /\ down \in [AP -> Seq(DownFrame)] BY DEF KvTypeOK, QueuesTyped
<1>2. ASSUME NEW S, NEW T, NEW s \in Seq(S) PROVE s \in Seq(S \cup T) /\ s \in Seq(T \cup S)
  OBVIOUS
<1>3. up \in Seq(Frame) /\ \A a \in AP : down[a] \in Seq(Frame)
  BY <1>1, <1>2 DEF Frame
<1>4. Queues \in [Place -> Seq(Frame)] BY <1>3 DEF Queues, Place
<1>5. Queues[NoAp] = up /\ \A a \in AP : Queues[a] = down[a] BY KvAssumption DEF Queues, Place
<1>6. ChainsFinite => /\ Cardinality(Places(Queues)) \in Nat
                      /\ Cardinality(Due(repliesDue)) \in Nat
                      /\ Cardinality(Due(reportsDue)) \in Nat
  BY FS_CardinalityType DEF ChainsFinite
<1>7. QED BY <1>4, <1>5, <1>6 DEF KvTypeOK, CountsTyped

\* Which frames are links of a chain.
LEMMA ChainFrames ==
  /\ \A a \in AP : /\ ~OfAChain([type |-> "link_request", to |-> a])
                   /\ OfAChain([type |-> "neighbor_request", to |-> a])
                   /\ \A aps : OfAChain([type |-> "beacon_report", to |-> a, aps |-> aps])
  /\ \A aps : OfAChain(NeighborReport(aps))
  /\ OfAChain(LinkRequestToSta) /\ OfAChain([type |-> "beacon_request"])
  /\ \A low : ~OfAChain([type |-> "link_report", low |-> low])
  BY DEF OfAChain, NeighborReport, LinkRequestToSta

\* A frame more in one queue.
LEMMA QueueGrows ==
  ASSUME KvTypeOK, ChainsFinite, NEW i \in Place, NEW x, x \in UpFrame \/ x \in DownFrame,
         Queues'[i] = Append(Queues[i], x), \A j \in Place : j # i => Queues'[j] = Queues[j]
  PROVE  /\ IsFiniteSet(Places(Queues'))
         /\ Cardinality(Places(Queues')) \in Nat /\ Cardinality(Places(Queues)) \in Nat
         /\ Cardinality(Places(Queues')) - Cardinality(Places(Queues)) = (IF OfAChain(x) THEN 1 ELSE 0)
<1>1. Queues \in [Place -> Seq(Frame)] /\ x \in Frame BY QueuesAndCounts DEF Frame
<1>2. Queues' \in [Place -> Seq(Frame)]
  <2>1. Queues' = [j \in Place |-> Queues'[j]] BY DEF Queues
  <2>2. Append(Queues[i], x) \in Seq(Frame) BY <1>1
  <2>3. \A j \in Place : Queues'[j] \in Seq(Frame) BY <1>1, <2>2
  <2>4. QED BY <2>1, <2>3
<1>3. IsFiniteSet(Places(Queues)) BY DEF ChainsFinite
<1>4. /\ IsFiniteSet(Places(Queues'))
      /\ Cardinality(Places(Queues')) - Cardinality(Places(Queues)) = (IF OfAChain(x) THEN 1 ELSE 0)
  BY <1>1, <1>2, <1>3, PlacesAppended
<1>5. Cardinality(Places(Queues')) \in Nat /\ Cardinality(Places(Queues)) \in Nat
  BY <1>3, <1>4, FS_CardinalityType
<1>6. QED BY <1>4, <1>5

\* A frame more at the station.
LEMMA UpGrows ==
  ASSUME KvTypeOK, ChainsFinite, NEW x, x \in UpFrame, up' = Append(up, x), UNCHANGED down
  PROVE  /\ IsFiniteSet(Places(Queues'))
         /\ Cardinality(Places(Queues')) \in Nat /\ Cardinality(Places(Queues)) \in Nat
         /\ Cardinality(Places(Queues')) - Cardinality(Places(Queues)) = (IF OfAChain(x) THEN 1 ELSE 0)
<1>1. /\ NoAp \in Place /\ Queues'[NoAp] = Append(Queues[NoAp], x)
      /\ \A j \in Place : j # NoAp => Queues'[j] = Queues[j]
  BY KvAssumption DEF Queues, Place
<1>2. QED BY <1>1, QueueGrows

\* A frame more at an AP.
LEMMA DownGrows ==
  ASSUME KvTypeOK, ChainsFinite, NEW a \in AP, NEW x, x \in DownFrame, UNCHANGED up,
         down'[a] = Append(down[a], x), \A b \in AP : b # a => down'[b] = down[b]
  PROVE  /\ IsFiniteSet(Places(Queues'))
         /\ Cardinality(Places(Queues')) \in Nat /\ Cardinality(Places(Queues)) \in Nat
         /\ Cardinality(Places(Queues')) - Cardinality(Places(Queues)) = (IF OfAChain(x) THEN 1 ELSE 0)
<1>1. /\ a \in Place /\ Queues'[a] = Append(Queues[a], x)
      /\ \A j \in Place : j # a => Queues'[j] = Queues[j]
  BY KvAssumption DEF Queues, Place
<1>2. QED BY <1>1, QueueGrows

\* What is received, or lost, leaves its queue; received again, it stays.
LEMMA Received ==
  ASSUME KvTypeOK, ChainsFinite, NEW i \in Place, NEW r, Queues[i] # <<>>,
         \/ r = [Queues EXCEPT ![i] = Tail(@)] /\ UNCHANGED repeats
         \/ r = Queues /\ SentAgain
  PROVE  /\ r \in [Place -> Seq(Frame)] /\ repeats' \in Nat
         /\ IsFiniteSet(Places(r)) /\ Cardinality(Places(r)) \in Nat
         /\ OfAChain(Head(Queues[i])) =>
              /\ Cardinality(Places(Queues)) <= Cardinality(Places(r)) + 1
              /\ Cardinality(Places(r)) + 1 + repeats <= Cardinality(Places(Queues)) + repeats'
         /\ ~OfAChain(Head(Queues[i])) =>
              /\ Cardinality(Places(Queues)) <= Cardinality(Places(r))
              /\ Cardinality(Places(r)) + repeats <= Cardinality(Places(Queues)) + repeats'
<1>1. /\ Queues \in [Place -> Seq(Frame)]
      /\ IsFiniteSet(Places(Queues)) /\ Cardinality(Places(Queues)) \in Nat /\ repeats \in Nat
  BY QueuesAndCounts DEF ChainsFinite
<1>2. CASE r = [Queues EXCEPT ![i] = Tail(@)] /\ UNCHANGED repeats
  <2>1. /\ IsFiniteSet(Places(r))
        /\ Cardinality(Places(r)) =
             Cardinality(Places(Queues)) - (IF OfAChain(Head(Queues[i])) THEN 1 ELSE 0)
    BY <1>1, <1>2, PlacesTaken
  <2>2. Cardinality(Places(r)) \in Nat BY <2>1, FS_CardinalityType
  <2>3. r \in [Place -> Seq(Frame)]
    <3>1. Queues[i] \in Seq(Frame) BY <1>1
    <3>2. Tail(Queues[i]) \in Seq(Frame) BY <3>1
    <3>3. QED BY <1>1, <1>2, <3>2
  <2>4. QED BY <1>1, <1>2, <2>1, <2>2, <2>3
<1>3. CASE r = Queues /\ SentAgain
  <2>1. repeats' = repeats + 1 BY <1>3 DEF SentAgain
  <2>2. QED BY <1>1, <1>3, <2>1
<1>4. QED BY <1>2, <1>3

\* The numbers that are added up, before and after a step.
LEMMA CountsNext ==
  ASSUME KvTypeOK, KvTypeOK', ChainsFinite, ChainsFinite'
  PROVE  /\ Cardinality(Places(Queues)) \in Nat /\ Cardinality(Places(Queues')) \in Nat
         /\ Cardinality(Due(repliesDue)) \in Nat /\ Cardinality(Due(repliesDue')) \in Nat
         /\ Cardinality(Due(reportsDue)) \in Nat /\ Cardinality(Due(reportsDue')) \in Nat
         /\ beaconsDue \in Nat /\ beaconsDue' \in Nat /\ requestsDue \in Nat /\ requestsDue' \in Nat
         /\ UnderWay \in Nat /\ UnderWay' \in Nat /\ asks \in Nat /\ asks' \in Nat
         /\ triggers \in Nat /\ triggers' \in Nat /\ apRequests \in Nat /\ apRequests' \in Nat
         /\ repeats \in Nat /\ repeats' \in Nat
<1>1. /\ IsFiniteSet(Places(Queues)) /\ IsFiniteSet(Due(repliesDue)) /\ IsFiniteSet(Due(reportsDue))
      /\ IsFiniteSet(Places(Queues')) /\ IsFiniteSet(Due(repliesDue'))
      /\ IsFiniteSet(Due(reportsDue'))
  BY DEF ChainsFinite
<1>2. /\ Cardinality(Places(Queues)) \in Nat /\ Cardinality(Places(Queues')) \in Nat
      /\ Cardinality(Due(repliesDue)) \in Nat /\ Cardinality(Due(repliesDue')) \in Nat
      /\ Cardinality(Due(reportsDue)) \in Nat /\ Cardinality(Due(reportsDue')) \in Nat
  BY <1>1, FS_CardinalityType
<1>3. beaconsDue \in Nat /\ beaconsDue' \in Nat /\ requestsDue \in Nat /\ requestsDue' \in Nat
  BY DEF KvTypeOK, CountsTyped
<1>4. UnderWay \in Nat /\ UnderWay' \in Nat BY <1>2, <1>3 DEF UnderWay
<1>5. QED BY <1>2, <1>3, <1>4 DEF KvTypeOK, CountsTyped

\* The sum of requests and links kept, or made smaller by a break.
LEMMA SumKept ==
  ASSUME ChainInv, ChainsFinite', UNCHANGED <<triggers, apRequests, repeats>>, triggered' => triggered,
         ~broken' => /\ ~broken /\ (ReportsFull => ReportsFull')
                     /\ asks' + UnderWay' = asks + UnderWay,
         KvTypeOK, KvTypeOK', asks' + UnderWay' <= asks + UnderWay
  PROVE  ChainInv'
<1>1. ASSUME NEW u \in Nat, NEW v \in Nat, NEW k \in Nat, v <= u, u <= k PROVE v <= k
  BY <1>1
<1>2. /\ asks + UnderWay \in Nat /\ asks' + UnderWay' \in Nat
      /\ triggers + apRequests + repeats \in Nat
  <2>1. ChainsFinite BY DEF ChainInv
  <2>2. QED BY <2>1, CountsNext
<1>3. asks' + UnderWay' <= triggers + apRequests + repeats BY <1>1, <1>2 DEF ChainInv
<1>4. ~broken' => asks' + UnderWay' >= triggers BY DEF ChainInv
<1>5. ~broken' => ReportsFull' BY DEF ChainInv
<1>6. (triggered => triggers > 0) BY DEF ChainInv
<1>7. QED BY <1>3, <1>4, <1>5, <1>6 DEF ChainInv

\* The station's helper and its events: an event gives way to a frame or to a request, or
\* breaks the chain.
LEMMA ChainHelper ==
  ASSUME KvTypeOK, KvTypeOK', ChainInv,
         SendPeriodicRequest \/ SendBeaconRequest \/ SendBssTmRequest
  PROVE  ChainInv'
<1>1. /\ ChainsFinite /\ UNCHANGED <<repliesDue, reportsDue, triggers, apRequests, repeats>>
  BY DEF ChainInv, SendPeriodicRequest, SendBeaconRequest, SendBssTmRequest, eventVars, pastVars,
         countVars
<1>2. CASE SendPeriodicRequest
  <2>1. UNCHANGED <<down, broken, asks, beaconsDue, requestsDue>> /\ (triggered' => triggered)
    <3>1. UNCHANGED <<down, broken, asks, beaconsDue, requestsDue>>
      BY <1>2 DEF SendPeriodicRequest, eventVars, pastVars
    <3>2. triggered' = triggered \/ triggered' = FlagAfterRound
      BY <1>2 DEF SendPeriodicRequest
    <3>3. QED BY <3>1, <3>2 DEF FlagAfterRound, KvTypeOK, DataTyped
  <2>2. /\ IsFiniteSet(Places(Queues'))
        /\ Cardinality(Places(Queues')) = Cardinality(Places(Queues))
        /\ ReportsFull => ReportsFull'
    <3>1. CASE UNCHANGED up
      <4>1. Queues' = Queues BY <2>1, <3>1 DEF Queues
      <4>2. QED BY <1>1, <3>1, <4>1 DEF ChainsFinite, ReportsFull
    <3>2. CASE ap \in AP /\ up' = Append(up, [type |-> "link_request", to |-> ap])
      <4> DEFINE x == [type |-> "link_request", to |-> ap]
      <4>1. x \in UpFrame /\ ~OfAChain(x) BY <3>2, FramesTyped, ChainFrames
      <4>2. x.type # "beacon_report" OBVIOUS
      <4> HIDE DEF x
      <4>3. up' = Append(up, x) BY <3>2 DEF x
      <4>4. /\ IsFiniteSet(Places(Queues'))
            /\ Cardinality(Places(Queues')) = Cardinality(Places(Queues))
        BY <1>1, <2>1, <4>1, <4>3, UpGrows
      <4>5. up \in Seq(UpFrame) BY DEF KvTypeOK, QueuesTyped
      <4>6. ReportsFull => ReportsFull' BY <4>1, <4>2, <4>3, <4>5, QueueElements DEF ReportsFull
      <4>7. QED BY <1>1, <4>4, <4>6, QueuesAndCounts
    <3>3. QED BY <1>2, <3>1, <3>2 DEF SendPeriodicRequest, KvTypeOK, DataTyped
  <2>3. ChainsFinite' BY <1>1, <2>1, <2>2 DEF ChainsFinite
  <2>4. /\ ~broken' => ~broken /\ asks' + UnderWay' = asks + UnderWay
        /\ asks' + UnderWay' <= asks + UnderWay
    BY <1>1, <2>1, <2>2, <2>3, CountsNext DEF UnderWay
  <2>5. QED BY <1>1, <2>1, <2>2, <2>3, <2>4, SumKept
<1>3. CASE SendBeaconRequest
  <2>1. /\ UNCHANGED <<up, asks, requestsDue, triggered>>
        /\ beaconsDue > 0 /\ beaconsDue' = beaconsDue - 1 /\ (ReportsFull => ReportsFull')
    BY <1>3 DEF SendBeaconRequest, ReportsFull
  <2>2. /\ IsFiniteSet(Places(Queues'))
        /\ \/ broken' /\ Cardinality(Places(Queues')) = Cardinality(Places(Queues))
           \/ broken' = broken /\ Cardinality(Places(Queues')) = Cardinality(Places(Queues)) + 1
    <3>1. CASE UNCHANGED down /\ broken' = TRUE
      <4>1. Queues' = Queues BY <2>1, <3>1 DEF Queues
      <4>2. QED BY <1>1, <3>1, <4>1 DEF ChainsFinite
    <3>2. CASE ap \in AP /\ UNCHANGED broken
               /\ down' = [down EXCEPT ![ap] = Append(@, [type |-> "beacon_request"])]
      <4> DEFINE x == [type |-> "beacon_request"]
      <4>1. x \in DownFrame /\ OfAChain(x) BY FramesTyped, ChainFrames
      <4>2. down'[ap] = Append(down[ap], x) /\ \A b \in AP : b # ap => down'[b] = down[b]
        BY <3>2 DEF KvTypeOK, QueuesTyped
      <4> HIDE DEF x
      <4>3. Cardinality(Places(Queues')) = Cardinality(Places(Queues)) + 1 /\ IsFiniteSet(Places(Queues'))
        BY <1>1, <2>1, <3>2, <4>1, <4>2, DownGrows
      <4>4. QED BY <3>2, <4>3
    <3>3. QED BY <1>3, <3>1, <3>2 DEF SendBeaconRequest, KvTypeOK, DataTyped
  <2>3. ChainsFinite' BY <1>1, <2>1, <2>2 DEF ChainsFinite
  <2>4. /\ ~broken' => ~broken /\ asks' + UnderWay' = asks + UnderWay
        /\ asks' + UnderWay' <= asks + UnderWay
    BY <1>1, <2>1, <2>2, <2>3, CountsNext DEF UnderWay
  <2>5. QED BY <1>1, <2>1, <2>2, <2>3, <2>4, SumKept
<1>4. CASE SendBssTmRequest
  <2>1. /\ UNCHANGED <<up, down, beaconsDue, triggered>>
        /\ requestsDue > 0 /\ requestsDue' = requestsDue - 1 /\ (ReportsFull => ReportsFull')
        /\ \/ broken' /\ asks' = asks
           \/ broken' = broken /\ asks' = asks + 1
    BY <1>4 DEF SendBssTmRequest, ReportsFull
  <2>2. Queues' = Queues BY <2>1 DEF Queues
  <2>3. ChainsFinite' BY <1>1, <2>1, <2>2 DEF ChainsFinite
  <2>4. /\ ~broken' => ~broken /\ asks' + UnderWay' = asks + UnderWay
        /\ asks' + UnderWay' <= asks + UnderWay
    BY <1>1, <2>1, <2>2, <2>3, CountsNext DEF UnderWay
  <2>5. QED BY <1>1, <2>1, <2>2, <2>3, <2>4, SumKept
<1>5. QED BY <1>2, <1>3, <1>4

\* The delayed answers: an event gives way to a frame; an empty report is a break.
LEMMA ChainAnswers ==
  ASSUME KvTypeOK, KvTypeOK', ChainInv,
         \E a \in AP : SendNeighborReportResponse(a) \/ SendBeaconReport(a)
  PROVE  ChainInv'
<1>1. /\ ChainsFinite
      /\ UNCHANGED <<triggered, asks, triggers, apRequests, repeats, beaconsDue, requestsDue>>
  BY DEF ChainInv, SendNeighborReportResponse, SendBeaconReport, countVars
<1>2. ASSUME NEW a \in AP, SendNeighborReportResponse(a) PROVE ChainInv'
  <2>1. /\ UNCHANGED <<up, reportsDue>> /\ (~broken' => ~broken)
        /\ repliesDue[a] > 0 /\ repliesDue' = [repliesDue EXCEPT ![a] = @ - 1]
        /\ down' = [down EXCEPT ![a] = Append(@, NeighborReport(discovered[a]))]
    BY <1>2 DEF SendNeighborReportResponse
  <2>2. /\ IsFiniteSet(Due(repliesDue'))
        /\ Cardinality(Due(repliesDue')) = Cardinality(Due(repliesDue)) - 1
    BY <1>1, <2>1, QueuesAndCounts, DueCounts DEF ChainsFinite
  <2> DEFINE x == NeighborReport(discovered[a])
  <2>3. x \in DownFrame /\ OfAChain(x) BY FramesTyped, ChainFrames DEF KvTypeOK, DataTyped
  <2>4. /\ IsFiniteSet(Places(Queues'))
        /\ Cardinality(Places(Queues')) = Cardinality(Places(Queues)) + 1
    <3>1. down'[a] = Append(down[a], x) /\ \A b \in AP : b # a => down'[b] = down[b]
      BY <2>1 DEF KvTypeOK, QueuesTyped
    <3> HIDE DEF x
    <3>2. QED BY <1>1, <2>1, <2>3, <3>1, DownGrows
  <2>5. (ReportsFull => ReportsFull') BY <2>1 DEF ReportsFull
  <2>6. ChainsFinite' BY <1>1, <2>1, <2>2, <2>4, <2>5 DEF ChainsFinite
  <2>7. /\ ~broken' => ~broken /\ asks' + UnderWay' = asks + UnderWay
        /\ asks' + UnderWay' <= asks + UnderWay
    <3>1. Due(reportsDue') = Due(reportsDue) BY <2>1
    <3>2. UnderWay' = UnderWay BY <1>1, <2>2, <2>4, <2>6, <3>1, CountsNext DEF UnderWay
    <3>3. QED BY <1>1, <2>1, <2>6, <3>2, CountsNext
  <2>8. QED BY <1>1, <2>1, <2>5, <2>6, <2>7, SumKept
<1>3. ASSUME NEW a \in AP, SendBeaconReport(a) PROVE ChainInv'
  <2> DEFINE x == [type |-> "beacon_report", to |-> a, aps |-> measured]
  <2>1. /\ UNCHANGED <<down, repliesDue>> /\ (~broken' => ~broken /\ measured # {})
        /\ reportsDue[a] > 0 /\ reportsDue' = [reportsDue EXCEPT ![a] = @ - 1]
        /\ up' = Append(up, x)
    BY <1>3 DEF SendBeaconReport
  <2>2. /\ IsFiniteSet(Due(reportsDue'))
        /\ Cardinality(Due(reportsDue')) = Cardinality(Due(reportsDue)) - 1
    BY <1>1, <2>1, QueuesAndCounts, DueCounts DEF ChainsFinite
  <2>3. x \in UpFrame /\ OfAChain(x)
    BY FramesTyped, ChainFrames DEF KvTypeOK, DataTyped
  <2>4. x.aps = measured OBVIOUS
  <2> HIDE DEF x
  <2>5. /\ IsFiniteSet(Places(Queues'))
        /\ Cardinality(Places(Queues')) = Cardinality(Places(Queues)) + 1
    BY <1>1, <2>1, <2>3, UpGrows
  <2>6. up \in Seq(UpFrame) BY DEF KvTypeOK, QueuesTyped
  <2>7. ReportsFull /\ ~broken' => ReportsFull'
    BY <2>1, <2>3, <2>4, <2>6, QueueElements DEF ReportsFull
  <2>8. ChainsFinite' BY <1>1, <2>1, <2>2, <2>5, <2>7 DEF ChainsFinite
  <2>9. /\ ~broken' => ~broken /\ asks' + UnderWay' = asks + UnderWay
        /\ asks' + UnderWay' <= asks + UnderWay
    <3>1. Due(repliesDue') = Due(repliesDue) BY <2>1
    <3>2. UnderWay' = UnderWay BY <1>1, <2>2, <2>5, <2>8, <3>1, CountsNext DEF UnderWay
    <3>3. QED BY <1>1, <2>1, <2>8, <3>2, CountsNext
  <2>10. QED BY <1>1, <2>1, <2>7, <2>8, <2>9, SumKept
<1>4. QED BY <1>2, <1>3

\* The arithmetic of a link received: it leaves its queue, or comes again, and goes on.
LEMMA LinkPassedOn ==
  ASSUME NEW u \in Nat, NEW v \in Nat, NEW p \in Nat, NEW q \in Nat, NEW m \in Nat, NEW n \in Nat,
         q + 1 + m <= p + n, v = u + (q - p) + 1
  PROVE  v - n <= u - m
  OBVIOUS

\* The arithmetic of what is received: links leave the queues, or come again, and go on.
LEMMA PassedOn ==
  ASSUME NEW u \in Nat, NEW v \in Nat, NEW p \in Nat, NEW q \in Nat, NEW m \in Nat, NEW n \in Nat
  PROVE  /\ p <= q + 1 /\ v = u + (q - p) + 1 => v >= u
         /\ p <= q /\ v = u + (q - p) => v >= u
         /\ q + 1 + m <= p + n /\ v = u + (q - p) + 1 => v - n <= u - m
         /\ q + 1 + m <= p + n /\ v = u + (q - p) => v - n <= u - m
         /\ q + m <= p + n /\ v = u + (q - p) => v - n <= u - m
  OBVIOUS

\* The arithmetic of a chain that starts, and of one that goes on.
LEMMA Started ==
  ASSUME NEW s \in Nat, NEW t \in Nat, NEW q \in Nat, NEW u \in Nat, NEW v \in Nat, NEW m \in Nat,
         NEW n \in Nat
  PROVE  /\ s + u <= t + q + m /\ v - n <= u - m => s + (v + 1) <= t + 1 + q + n
         /\ s + u >= t /\ v >= u => s + (v + 1) >= t + 1
         /\ s + u <= t + q + m /\ v - n <= u - m => s + v <= t + q + n
         /\ s + u >= t /\ v >= u => s + v >= t
  OBVIOUS

\* What an AP receives: the chain goes on with an event; a report of the link starts none
\* yet, and a frame received again is a cause of its own.
LEMMA ChainApReceives ==
  ASSUME KvTypeOK, KvTypeOK', ChainInv, ApReceives
  PROVE  ChainInv'
<1> DEFINE frame == Head(up)
           r == [Queues EXCEPT ![NoAp] = up']
           P == Cardinality(Places(Queues))
           rest == Cardinality(Places(r))
<1>1. /\ ChainsFinite /\ up # <<>>
      /\ UNCHANGED <<reportsDue, triggered, triggers, asks, apRequests, broken, beaconsDue>>
  BY DEF ApReceives, ReceiveLinkRequest, ProcessNeighborReportRequest, ReceiveBeaconReport,
         eventVars, pastVars, ChainInv
<1>2. /\ r \in [Place -> Seq(Frame)] /\ IsFiniteSet(Places(r)) /\ rest \in Nat
      /\ P \in Nat
      /\ OfAChain(frame) => P <= rest + 1 /\ rest + 1 + repeats <= P + repeats'
      /\ ~OfAChain(frame) => P <= rest /\ rest + repeats <= P + repeats'
  <2>1. NoAp \in Place /\ Queues[NoAp] = up BY QueuesAndCounts DEF Place
  <2>2. Queues \in [Place -> Seq(Frame)] BY QueuesAndCounts
  <2>3. \/ r = [Queues EXCEPT ![NoAp] = Tail(@)] /\ UNCHANGED repeats
        \/ r = Queues /\ SentAgain
    BY <2>1, <2>2 DEF ApReceives
  <2> HIDE DEF r
  <2>4. P \in Nat BY <1>1, QueuesAndCounts
  <2>5. QED BY <1>1, <2>1, <2>3, <2>4, Received
<1>3. frame \in UpFrame /\ frame = up[1] /\ 1 \in 1..Len(up) /\ frame.to \in AP
  <2>1. up \in Seq(UpFrame) BY DEF KvTypeOK, QueuesTyped
  <2>2. frame \in UpFrame /\ frame = up[1] /\ 1 \in 1..Len(up)
    BY <1>1, <2>1, QueueSteps, QueueElements
  <2>3. QED BY <2>2 DEF UpFrame
<1>4. ReportsFull => ReportsFull'
  <2>1. up \in Seq(UpFrame) BY DEF KvTypeOK, QueuesTyped
  <2>2. up' = up \/ up' = Tail(up) BY DEF ApReceives
  <2>3. CASE up' = up BY <2>3 DEF ReportsFull
  <2>4. CASE up' = Tail(up)
    <3>1. \A i \in 1..Len(up') : \E j \in 1..Len(up) : up'[i] = up[j]
      BY <1>1, <2>1, <2>4, QueueElements
    <3>2. QED BY <3>1 DEF ReportsFull
  <2>5. QED BY <2>2, <2>3, <2>4
<1>6. ASSUME ChainsFinite' PROVE UnderWay' \in Nat BY <1>1, <1>6, CountsNext
<1>7. ASSUME ChainsFinite', UnderWay' - repeats' <= UnderWay - repeats,
             ~broken => UnderWay' >= UnderWay
      PROVE  ChainInv'
  <2> HIDE DEF frame, r, P, rest
  <2>1. /\ UnderWay \in Nat /\ UnderWay' \in Nat /\ repeats \in Nat /\ repeats' \in Nat
        /\ asks \in Nat /\ triggers \in Nat /\ apRequests \in Nat
    BY <1>1, <1>7, CountsNext
  <2>2. UnderWay' - repeats' <= UnderWay - repeats /\ (~broken => UnderWay' >= UnderWay) BY <1>7
  <2>3. asks + UnderWay <= triggers + apRequests + repeats /\ (~broken => asks + UnderWay >= triggers)
    BY DEF ChainInv
  <2>4. asks + UnderWay' <= triggers + apRequests + repeats' BY <2>1, <2>2, <2>3, Started
  <2>5. ~broken => asks + UnderWay' >= triggers BY <2>1, <2>2, <2>3, Started
  <2>6. QED BY <1>1, <1>4, <1>7, <2>4, <2>5 DEF ChainInv
<1>5. /\ repeats \in Nat /\ repeats' \in Nat /\ P \in Nat /\ rest \in Nat /\ beaconsDue \in Nat
        /\ requestsDue \in Nat
       /\ Cardinality(Due(repliesDue)) \in Nat /\ Cardinality(Due(reportsDue)) \in Nat
       /\ UNCHANGED beaconsDue /\ Due(reportsDue') = Due(reportsDue) /\ UnderWay \in Nat
  <2>1. repeats' \in Nat BY DEF KvTypeOK, CountsTyped
  <2>2. repeats \in Nat /\ beaconsDue \in Nat /\ requestsDue \in Nat
        /\ Cardinality(Due(repliesDue)) \in Nat /\ Cardinality(Due(reportsDue)) \in Nat
    BY <1>1, QueuesAndCounts
  <2>3. UnderWay \in Nat BY <1>2, <2>2 DEF UnderWay
  <2>4. QED BY <1>1, <1>2, <2>1, <2>2, <2>3
<1>8. ASSUME UNCHANGED down PROVE Queues' = r
  BY <1>8, KvAssumption DEF Queues, Place
<1>9. CASE frame.type = "link_request" /\ ReceiveLinkRequest(frame.to)
  <2>1. ~OfAChain(frame) BY <1>9 DEF OfAChain
  <2>2. UNCHANGED <<repliesDue, requestsDue>> BY <1>9 DEF ReceiveLinkRequest, eventVars
  <2>3. IsFiniteSet(Places(Queues')) /\ Cardinality(Places(Queues')) - rest = 0
    <3>1. PICK low \in BOOLEAN :
            down' = [down EXCEPT ![frame.to] =
                       @ \o [i \in 1..Helpers |-> [type |-> "link_report", low |-> low]]]
      BY <1>9 DEF ReceiveLinkRequest
    <3> DEFINE x == [type |-> "link_report", low |-> low]
               c == [i \in 1..Helpers |-> x]
    <3>2. x \in Frame /\ ~OfAChain(x) BY FramesTyped, ChainFrames DEF Frame
    <3> HIDE DEF x
    <3>3. c \in Seq(Frame) /\ \A i \in 1..Len(c) : ~OfAChain(c[i])
      <4>1. Helpers \in Nat BY KvAssumption
      <4>2. QED BY <3>2, <4>1
    <3>4. down'[frame.to] = down[frame.to] \o c /\ \A b \in AP : b # frame.to => down'[b] = down[b]
      BY <1>3, <3>1 DEF KvTypeOK, QueuesTyped, x
    <3> HIDE DEF c
    <3>5. /\ frame.to \in Place /\ Queues'[frame.to] = r[frame.to] \o c
          /\ \A b \in Place : b # frame.to => Queues'[b] = r[b]
      BY <1>3, <3>4, KvAssumption DEF Queues, Place
    <3> HIDE DEF r, frame
    <3>6. Queues' \in [Place -> Seq(Frame)]
      <4>1. Queues' = [b \in Place |-> Queues'[b]] BY DEF Queues
      <4>2. r[frame.to] \o c \in Seq(Frame) BY <1>2, <3>3, <3>5
      <4>3. \A b \in Place : Queues'[b] \in Seq(Frame) BY <1>2, <3>5, <4>2
      <4>4. QED BY <4>1, <4>3
    <3>7. QED BY <1>2, <3>3, <3>5, <3>6, PlacesKept
  <2> HIDE DEF r
  <2>4. ChainsFinite' BY <1>1, <2>2, <2>3 DEF ChainsFinite
  <2>5. UnderWay' = UnderWay + (rest - P)
    <3>1. Due(repliesDue') = Due(repliesDue) BY <2>2
    <3>2. Cardinality(Places(Queues')) \in Nat BY <2>3, FS_CardinalityType
    <3>3. QED BY <1>5, <2>2, <2>3, <3>1, <3>2 DEF UnderWay
  <2>6. UnderWay' - repeats' <= UnderWay - repeats /\ UnderWay' >= UnderWay
    <3> HIDE DEF rest, P
    <3>1. P <= rest /\ rest + repeats <= P + repeats' BY <1>2, <2>1
    <3>2. /\ repeats \in Nat /\ repeats' \in Nat /\ P \in Nat /\ rest \in Nat
          /\ UnderWay \in Nat /\ UnderWay' \in Nat
      BY <1>5, <1>6, <2>4
    <3>3. UnderWay' - repeats' <= UnderWay - repeats BY <2>5, <3>1, <3>2, PassedOn
    <3>4. UnderWay' >= UnderWay BY <2>5, <3>1, <3>2, PassedOn
    <3>5. QED BY <3>3, <3>4
  <2>7. QED BY <1>7, <2>4, <2>6
<1>10. CASE frame.type = "neighbor_request" /\ ProcessNeighborReportRequest(frame.to)
  <2>1. OfAChain(frame) BY <1>10 DEF OfAChain
  <2>2. /\ UNCHANGED <<down, requestsDue>>
        /\ repliesDue' = [repliesDue EXCEPT ![frame.to] = @ + 1]
    BY <1>10 DEF ProcessNeighborReportRequest
  <2>3. Queues' = r BY <1>8, <2>2
  <2>4. /\ IsFiniteSet(Due(repliesDue'))
        /\ Cardinality(Due(repliesDue')) = Cardinality(Due(repliesDue)) + 1
    BY <1>1, <1>3, <2>2, QueuesAndCounts, DueCounts DEF ChainsFinite
  <2> HIDE DEF r
  <2>5. ChainsFinite' BY <1>1, <1>2, <2>3, <2>4 DEF ChainsFinite
  <2>6. UnderWay' = UnderWay + (rest - P) + 1 BY <1>5, <2>2, <2>3, <2>4 DEF UnderWay
  <2>7. UnderWay' - repeats' <= UnderWay - repeats /\ UnderWay' >= UnderWay
    <3> HIDE DEF rest, P
    <3>1. P <= rest + 1 /\ rest + 1 + repeats <= P + repeats' BY <1>2, <2>1
    <3>2. /\ repeats \in Nat /\ repeats' \in Nat /\ P \in Nat /\ rest \in Nat
          /\ UnderWay \in Nat /\ UnderWay' \in Nat
      BY <1>5, <1>6, <2>5
    <3>3. UnderWay' - repeats' <= UnderWay - repeats BY <2>6, <3>1, <3>2, PassedOn
    <3>4. UnderWay' >= UnderWay BY <2>6, <3>1, <3>2, PassedOn
    <3>5. QED BY <3>3, <3>4
  <2>8. QED BY <1>7, <2>5, <2>7
<1>11. CASE frame.type = "beacon_report" /\ ReceiveBeaconReport(frame.aps)
  <2>1. OfAChain(frame) BY <1>11 DEF OfAChain
  <2>2. /\ UNCHANGED <<down, repliesDue>>
        /\ requestsDue' = IF frame.aps = {} THEN requestsDue ELSE requestsDue + 1
    BY <1>11 DEF ReceiveBeaconReport
  <2>3. ~broken => frame.aps # {} BY <1>3, <1>11 DEF ChainInv, ReportsFull
  <2>4. Queues' = r BY <1>8, <2>2
  <2> HIDE DEF r, frame
  <2>5. ChainsFinite' BY <1>1, <1>2, <2>2, <2>4 DEF ChainsFinite
  <2>6. /\ frame.aps # {} => UnderWay' = UnderWay + (rest - P) + 1
        /\ frame.aps = {} => UnderWay' = UnderWay + (rest - P)
    <3>1. Due(repliesDue') = Due(repliesDue) BY <2>2
    <3>2. frame.aps = {} => requestsDue' = requestsDue BY <2>2
    <3>3. frame.aps # {} => requestsDue' = requestsDue + 1 BY <2>2
    <3>4. QED BY <1>5, <2>4, <3>1, <3>2, <3>3 DEF UnderWay
  <2>7. UnderWay' - repeats' <= UnderWay - repeats /\ (~broken => UnderWay' >= UnderWay)
    <3> HIDE DEF rest, P
    <3>1. P <= rest + 1 /\ rest + 1 + repeats <= P + repeats' BY <1>2, <2>1
    <3>2. /\ repeats \in Nat /\ repeats' \in Nat /\ P \in Nat /\ rest \in Nat
          /\ UnderWay \in Nat /\ UnderWay' \in Nat
      BY <1>5, <1>6, <2>5
    <3>3. UnderWay' - repeats' <= UnderWay - repeats BY <2>6, <3>1, <3>2, PassedOn
    <3>4. ~broken => UnderWay' >= UnderWay BY <2>3, <2>6, <3>1, <3>2, PassedOn
    <3>5. QED BY <3>3, <3>4
  <2>8. QED BY <1>7, <2>5, <2>7
<1>12. QED BY <1>9, <1>10, <1>11 DEF ApReceives

\* What the station receives: the chain goes on with an event, and a low measurement starts
\* one.
LEMMA ChainStaReceives ==
  ASSUME KvTypeOK, KvTypeOK', ChainInv, NEW a \in AP, StaReceives(a)
  PROVE  ChainInv'
<1> DEFINE frame == Head(down[a])
           r == [Queues EXCEPT ![a] = down'[a]]
           P == Cardinality(Places(Queues))
           rest == Cardinality(Places(r))
<1>1. /\ ChainsFinite /\ down[a] # <<>> /\ a \in Place /\ a # NoAp /\ Queues[a] = down[a]
      /\ UNCHANGED <<asks, apRequests, broken, repliesDue, requestsDue>>
      /\ \A b \in AP : b # a => down'[b] = down[b]
  <2>1. UNCHANGED <<asks, broken, repliesDue, requestsDue>>
    BY DEF StaReceives, OnLinkMeasurementReport, ReceiveNeighborReport, ReceiveBeaconRequest,
           eventVars, pastVars
  <2>2. \A b \in AP : b # a => down'[b] = down[b] BY DEF StaReceives, KvTypeOK, QueuesTyped
  <2>3. UNCHANGED apRequests /\ down[a] # <<>> BY DEF StaReceives
  <2>4. QED BY <2>1, <2>2, <2>3, QueuesAndCounts, KvAssumption DEF ChainInv, Place
<1>2. /\ r \in [Place -> Seq(Frame)] /\ IsFiniteSet(Places(r)) /\ rest \in Nat
      /\ P \in Nat
      /\ OfAChain(frame) => P <= rest + 1 /\ rest + 1 + repeats <= P + repeats'
      /\ ~OfAChain(frame) => P <= rest /\ rest + repeats <= P + repeats'
  <2>1. Queues \in [Place -> Seq(Frame)] BY QueuesAndCounts
  <2>2. \/ r = [Queues EXCEPT ![a] = Tail(@)] /\ UNCHANGED repeats
        \/ r = Queues /\ SentAgain
    BY <1>1, <2>1 DEF StaReceives, KvTypeOK, QueuesTyped
  <2> HIDE DEF r
  <2>3. P \in Nat BY <1>1, QueuesAndCounts
  <2>4. QED BY <1>1, <2>2, <2>3, Received
<1>3. /\ repeats \in Nat /\ repeats' \in Nat /\ beaconsDue \in Nat /\ requestsDue \in Nat
      /\ Cardinality(Due(repliesDue)) \in Nat /\ Cardinality(Due(reportsDue)) \in Nat
      /\ UnderWay \in Nat /\ Due(repliesDue') = Due(repliesDue) /\ UNCHANGED requestsDue
      /\ P \in Nat /\ rest \in Nat
  <2>1. repeats' \in Nat BY DEF KvTypeOK, CountsTyped
  <2>2. repeats \in Nat /\ beaconsDue \in Nat /\ requestsDue \in Nat
        /\ Cardinality(Due(repliesDue)) \in Nat /\ Cardinality(Due(reportsDue)) \in Nat
    BY <1>1, QueuesAndCounts
  <2>3. UnderWay \in Nat BY <1>2, <2>2 DEF UnderWay
  <2>4. QED BY <1>1, <1>2, <2>1, <2>2, <2>3
<1>4. ASSUME ChainsFinite' PROVE UnderWay' \in Nat BY <1>1, <1>4, CountsNext
<1>5. ASSUME UNCHANGED <<up, triggered, triggers>>, ChainsFinite', OfAChain(frame),
             UnderWay' = UnderWay + (rest - P) + 1
      PROVE  ChainInv'
  <2> HIDE DEF r, rest, P, frame
  <2>1. /\ repeats \in Nat /\ repeats' \in Nat /\ P \in Nat /\ rest \in Nat
        /\ UnderWay \in Nat /\ UnderWay' \in Nat
    BY <1>2, <1>3, <1>4, <1>5
  <2>2. P <= rest + 1 /\ rest + 1 + repeats <= P + repeats' BY <1>2, <1>5
  <2>3. UnderWay' = UnderWay + (rest - P) + 1 BY <1>5
  <2>4. UnderWay' - repeats' <= UnderWay - repeats BY <2>1, <2>2, <2>3, LinkPassedOn
  <2>5. UnderWay' >= UnderWay BY <2>1, <2>2, <2>3, PassedOn
  <2>6. ReportsFull => ReportsFull' BY <1>5 DEF ReportsFull
  <2>7. asks \in Nat /\ triggers \in Nat /\ apRequests \in Nat BY QueuesAndCounts
  <2>8. asks + UnderWay <= triggers + apRequests + repeats /\ (~broken => asks + UnderWay >= triggers)
    BY DEF ChainInv
  <2>9. asks + UnderWay' <= triggers + apRequests + repeats' BY <2>1, <2>4, <2>7, <2>8, Started
  <2>10. ~broken => asks + UnderWay' >= triggers BY <2>1, <2>5, <2>7, <2>8, Started
  <2>11. QED BY <1>1, <1>5, <2>6, <2>9, <2>10 DEF ChainInv
<1>6. ASSUME UNCHANGED up PROVE Queues' = r
  BY <1>1, <1>6, KvAssumption DEF Queues, Place
<1>7. CASE frame.type = "link_report" /\ OnLinkMeasurementReport(frame.low)
  <2>1. ~OfAChain(frame) BY <1>7 DEF OfAChain
  <2>2. UNCHANGED <<beaconsDue, reportsDue>> BY <1>7 DEF OnLinkMeasurementReport, eventVars
  <2> DEFINE mid == UnderWay + (rest - P)
  <2>3. mid \in Nat
    <3> HIDE DEF r, rest, frame
    <3>1. UnderWay >= P BY <1>3 DEF UnderWay
    <3>2. UnderWay \in Nat /\ P \in Nat /\ rest \in Nat BY <1>3
    <3> HIDE DEF P
    <3>3. QED BY <3>1, <3>2
  <2>4. mid - repeats' <= UnderWay - repeats /\ mid >= UnderWay
    <3> HIDE DEF r, rest, P, frame
    <3>1. /\ repeats \in Nat /\ repeats' \in Nat /\ P \in Nat /\ rest \in Nat
          /\ UnderWay \in Nat /\ mid \in Nat
      BY <1>2, <1>3, <2>3
    <3>2. P <= rest /\ rest + repeats <= P + repeats' BY <1>2, <2>1
    <3>3. mid = UnderWay + (rest - P) OBVIOUS
    <3> HIDE DEF mid
    <3>4. mid - repeats' <= UnderWay - repeats BY <3>1, <3>2, <3>3, PassedOn
    <3>5. mid >= UnderWay BY <3>1, <3>2, <3>3, PassedOn
    <3>6. QED BY <3>4, <3>5
  <2>5. CASE UNCHANGED <<up, triggered, triggers>>
    <3>1. Queues' = r BY <1>6, <2>5
    <3> HIDE DEF r
    <3>2. ChainsFinite' BY <1>1, <1>2, <2>2, <3>1 DEF ChainsFinite
    <3>3. UnderWay' = mid
      <4>1. Due(reportsDue') = Due(reportsDue) BY <2>2
      <4>2. QED BY <1>2, <1>3, <1>1, <2>2, <3>1, <4>1 DEF UnderWay
    <3>4. ReportsFull => ReportsFull' BY <2>5 DEF ReportsFull
    <3> HIDE DEF mid
    <3>5. /\ asks \in Nat /\ triggers \in Nat /\ apRequests \in Nat /\ UnderWay \in Nat
          /\ mid \in Nat /\ repeats \in Nat /\ repeats' \in Nat
      BY <1>3, <2>3, QueuesAndCounts
    <3>6. asks + UnderWay <= triggers + apRequests + repeats /\ (~broken => asks + UnderWay >= triggers)
      BY DEF ChainInv
    <3>7. asks + mid <= triggers + apRequests + repeats' BY <2>4, <3>5, <3>6, Started
    <3>8. ~broken => asks + mid >= triggers BY <2>4, <3>5, <3>6, Started
    <3>9. QED BY <1>1, <2>5, <3>2, <3>3, <3>4, <3>7, <3>8 DEF ChainInv
  <2>6. CASE /\ ap \in AP /\ up' = Append(up, [type |-> "neighbor_request", to |-> ap])
             /\ triggered' = TRUE /\ triggers' = triggers + 1
    <3> DEFINE x == [type |-> "neighbor_request", to |-> ap]
    <3>1. x \in Frame /\ OfAChain(x) /\ x \in UpFrame /\ x.type # "beacon_report"
      BY <2>6, FramesTyped, ChainFrames DEF Frame
    <3>2. up' = Append(up, x) BY <2>6
    <3> HIDE DEF x
    <3>3. /\ NoAp \in Place /\ Queues'[NoAp] = Append(r[NoAp], x)
          /\ \A b \in Place : b # NoAp => Queues'[b] = r[b]
      BY <1>1, <3>2, KvAssumption DEF Queues, Place
    <3> HIDE DEF r, frame
    <3>4. Queues' \in [Place -> Seq(Frame)]
      <4>1. Queues' = [b \in Place |-> Queues'[b]] BY DEF Queues
      <4>2. Append(r[NoAp], x) \in Seq(Frame) BY <1>2, <3>1, <3>3
      <4>3. \A b \in Place : Queues'[b] \in Seq(Frame) BY <1>2, <3>3, <4>2
      <4>4. QED BY <4>1, <4>3
    <3>5. /\ IsFiniteSet(Places(Queues'))
          /\ Cardinality(Places(Queues')) - rest = (IF OfAChain(x) THEN 1 ELSE 0)
      BY <1>2, <3>1, <3>3, <3>4, PlacesAppended
    <3>6. Cardinality(Places(Queues')) \in Nat BY <3>5, FS_CardinalityType
    <3>7. ChainsFinite' BY <1>1, <2>2, <3>5 DEF ChainsFinite
    <3>8. UnderWay' = mid + 1
      <4>1. Due(reportsDue') = Due(reportsDue) BY <2>2
      <4>2. Cardinality(Places(Queues')) = rest + 1 BY <1>2, <3>1, <3>5, <3>6
      <4>3. QED BY <1>3, <2>2, <3>6, <4>1, <4>2 DEF UnderWay
    <3>9. ReportsFull => ReportsFull'
      <4>1. up \in Seq(UpFrame) BY DEF KvTypeOK, QueuesTyped
      <4>2. QED BY <3>1, <3>2, <4>1, QueueElements DEF ReportsFull
    <3> HIDE DEF mid
    <3>10. /\ asks \in Nat /\ triggers \in Nat /\ apRequests \in Nat /\ UnderWay \in Nat
           /\ mid \in Nat /\ repeats \in Nat /\ repeats' \in Nat
      BY <1>3, <2>3, QueuesAndCounts
    <3>11. asks + UnderWay <= triggers + apRequests + repeats /\ (~broken => asks + UnderWay >= triggers)
      BY DEF ChainInv
    <3>12. asks + (mid + 1) <= triggers + 1 + apRequests + repeats' BY <2>4, <3>10, <3>11, Started
    <3>13. ~broken => asks + (mid + 1) >= triggers + 1 BY <2>4, <3>10, <3>11, Started
    <3>14. triggers' > 0 BY <2>6, <3>10
    <3>15. QED BY <1>1, <2>6, <3>7, <3>8, <3>9, <3>12, <3>13, <3>14 DEF ChainInv
  <2>7. QED BY <1>7, <2>5, <2>6 DEF OnLinkMeasurementReport, KvTypeOK, DataTyped
<1>8. CASE frame.type = "neighbor_report" /\ ReceiveNeighborReport(frame.aps)
  <2>1. OfAChain(frame) BY <1>8 DEF OfAChain
  <2>2. UNCHANGED <<up, triggered, triggers, reportsDue>> /\ beaconsDue' = beaconsDue + 1
    BY <1>8 DEF ReceiveNeighborReport
  <2>3. Queues' = r BY <1>6, <2>2
  <2> HIDE DEF r, frame
  <2>4. ChainsFinite' BY <1>1, <1>2, <2>2, <2>3 DEF ChainsFinite
  <2>5. UnderWay' = UnderWay + (rest - P) + 1
    <3>1. Due(reportsDue') = Due(reportsDue) BY <2>2
    <3>2. QED BY <1>3, <2>2, <2>3, <3>1 DEF UnderWay
  <2>6. QED BY <1>5, <2>1, <2>2, <2>4, <2>5
<1>9. CASE frame.type = "beacon_request" /\ ReceiveBeaconRequest(a)
  <2>1. OfAChain(frame) BY <1>9 DEF OfAChain
  <2>2. /\ UNCHANGED <<up, triggered, triggers, beaconsDue>>
        /\ reportsDue' = [reportsDue EXCEPT ![a] = @ + 1]
    BY <1>9 DEF ReceiveBeaconRequest, pastVars
  <2>3. Queues' = r BY <1>6, <2>2
  <2>4. /\ IsFiniteSet(Due(reportsDue'))
        /\ Cardinality(Due(reportsDue')) = Cardinality(Due(reportsDue)) + 1
    BY <1>1, <2>2, QueuesAndCounts, DueCounts DEF ChainsFinite
  <2> HIDE DEF r, frame
  <2>5. ChainsFinite' BY <1>1, <1>2, <2>3, <2>4 DEF ChainsFinite
  <2>6. UnderWay' = UnderWay + (rest - P) + 1
    BY <1>3, <2>2, <2>3, <2>4 DEF UnderWay
  <2>7. QED BY <1>5, <2>1, <2>2, <2>5, <2>6
<1>10. QED BY <1>7, <1>8, <1>9 DEF StaReceives

\* A frame lost breaks a chain, if it was one's; nothing is asked for any more than before.
LEMMA ChainLose ==
  ASSUME KvTypeOK, KvTypeOK', ChainInv, LoseUp \/ \E a \in AP : LoseDown(a)
  PROVE  ChainInv'
<1>1. /\ broken' /\ UNCHANGED <<asks, triggers, triggered, apRequests, repeats>>
      /\ UNCHANGED <<repliesDue, reportsDue, beaconsDue, requestsDue>>
  BY DEF LoseUp, LoseDown, countVars, eventVars
<1>2. PICK i \in Place : /\ Queues[i] # <<>> /\ Queues'[i] = Tail(Queues[i])
                         /\ \A j \in Place : j # i => Queues'[j] = Queues[j]
  <2>1. CASE LoseUp
    BY <2>1, KvAssumption DEF LoseUp, Queues, Place
  <2>2. ASSUME NEW a \in AP, LoseDown(a)
        PROVE  /\ a \in Place /\ Queues[a] # <<>> /\ Queues'[a] = Tail(Queues[a])
               /\ \A j \in Place : j # a => Queues'[j] = Queues[j]
    BY <2>2, KvAssumption DEF LoseDown, Queues, Place, KvTypeOK, QueuesTyped
  <2>3. QED BY <2>1, <2>2
<1>3. ChainsFinite /\ Queues \in [Place -> Seq(Frame)] BY QueuesAndCounts DEF ChainInv
<1> DEFINE r == [Queues EXCEPT ![i] = Tail(@)]
<1>4. Queues' = r
  <2>1. Queues' = [j \in Place |-> Queues'[j]] BY DEF Queues
  <2>2. r = [j \in Place |-> r[j]] /\ r[i] = Tail(Queues[i]) /\ \A j \in Place : j # i => r[j] = Queues[j]
    BY <1>3
  <2> HIDE DEF r
  <2>3. \A j \in Place : Queues'[j] = r[j] BY <1>2, <2>2
  <2>4. QED BY <2>1, <2>2, <2>3
<1>5. /\ IsFiniteSet(Places(Queues')) /\ Cardinality(Places(Queues')) \in Nat
      /\ Cardinality(Places(Queues)) \in Nat
      /\ Cardinality(Places(Queues')) <= Cardinality(Places(Queues))
  <2>1. /\ IsFiniteSet(Places(r)) /\ Cardinality(Places(r)) \in Nat /\ repeats \in Nat
        /\ OfAChain(Head(Queues[i])) => Cardinality(Places(r)) + 1 + repeats <= Cardinality(Places(Queues)) + repeats
        /\ ~OfAChain(Head(Queues[i])) => Cardinality(Places(r)) + repeats <= Cardinality(Places(Queues)) + repeats
    <3>1. \/ r = [Queues EXCEPT ![i] = Tail(@)] /\ UNCHANGED repeats
          \/ r = Queues /\ SentAgain
      BY <1>1
    <3>2. repeats' = repeats /\ repeats \in Nat BY <1>1, QueuesAndCounts
    <3> HIDE DEF r
    <3>3. QED BY <1>2, <1>3, <3>1, <3>2, Received
  <2>2. Cardinality(Places(Queues)) \in Nat BY <1>3, QueuesAndCounts
  <2> HIDE DEF r
  <2>3. ASSUME NEW p \in Nat, NEW q \in Nat, NEW m \in Nat
        PROVE  (q + 1 + m <= p + m => q <= p) /\ (q + m <= p + m => q <= p)
    OBVIOUS
  <2>4. Cardinality(Places(r)) <= Cardinality(Places(Queues)) BY <2>1, <2>2, <2>3
  <2>5. QED BY <1>4, <2>1, <2>2, <2>4
<1>6. ChainsFinite' BY <1>1, <1>3, <1>5 DEF ChainsFinite
<1>7. UnderWay' <= UnderWay
  <2>1. Due(repliesDue') = Due(repliesDue) /\ Due(reportsDue') = Due(reportsDue) BY <1>1
  <2>2. /\ Cardinality(Due(repliesDue)) \in Nat /\ Cardinality(Due(reportsDue)) \in Nat
        /\ beaconsDue \in Nat /\ requestsDue \in Nat /\ UNCHANGED <<beaconsDue, requestsDue>>
    BY <1>1, <1>3, QueuesAndCounts
  <2>3. QED BY <1>5, <2>1, <2>2 DEF UnderWay
<1>8. QED BY <1>1, <1>3, <1>6, <1>7, CountsNext DEF ChainInv

\* The APs' own measurement requests are a cause each, and one link of a chain each.
LEMMA ChainApsMeasure ==
  ASSUME KvTypeOK, KvTypeOK', ChainInv, ApsMeasure
  PROVE  ChainInv'
<1>1. PICK listing \in SUBSET AP \ {{}} :
        /\ apRequests' = apRequests + Cardinality(listing)
        /\ down' = [a \in AP |-> IF a \in listing THEN Append(down[a], LinkRequestToSta) ELSE down[a]]
  BY DEF ApsMeasure
<1> DEFINE x == LinkRequestToSta
           L == Cardinality(listing)
           r == [i \in Place |-> IF i \in listing THEN Append(Queues[i], x) ELSE Queues[i]]
<1>2. /\ UNCHANGED <<asks, triggers, triggered, broken, repeats, up>>
      /\ UNCHANGED <<repliesDue, reportsDue, beaconsDue, requestsDue>>
  BY DEF ApsMeasure, eventVars, pastVars
<1>3. ChainsFinite /\ Queues \in [Place -> Seq(Frame)] BY QueuesAndCounts DEF ChainInv
<1>4. listing \subseteq Place /\ IsFiniteSet(listing) /\ L \in Nat
  BY KvAssumption, FS_Subset, FS_CardinalityType DEF Place
<1>5. Queues' = r BY <1>1, <1>2, KvAssumption DEF Queues, Place
<1>6. /\ IsFiniteSet(Places(r)) /\ Cardinality(Places(r)) = Cardinality(Places(Queues)) + L
  <2>1. x \in Frame /\ OfAChain(x) BY FramesTyped, ChainFrames DEF Frame
  <2> HIDE DEF x
  <2>2. IsFiniteSet(Places(Queues)) BY <1>3 DEF ChainsFinite
  <2>3. QED BY <1>3, <1>4, <2>1, <2>2, PlacesSpread
<1> HIDE DEF r
<1>7. ChainsFinite' BY <1>2, <1>3, <1>5, <1>6 DEF ChainsFinite
<1>8. UnderWay' = UnderWay + L
  <2>1. Due(repliesDue') = Due(repliesDue) /\ Due(reportsDue') = Due(reportsDue) BY <1>2
  <2>2. /\ Cardinality(Due(repliesDue)) \in Nat /\ Cardinality(Due(reportsDue)) \in Nat
        /\ beaconsDue \in Nat /\ requestsDue \in Nat /\ UNCHANGED <<beaconsDue, requestsDue>>
        /\ Cardinality(Places(Queues)) \in Nat
    BY <1>2, <1>3, QueuesAndCounts
  <2>3. QED BY <1>4, <1>5, <1>6, <2>1, <2>2 DEF UnderWay
<1>9. ReportsFull => ReportsFull' BY <1>2 DEF ReportsFull
<1> HIDE DEF L
<1>10. /\ asks \in Nat /\ triggers \in Nat /\ apRequests \in Nat /\ repeats \in Nat /\ UnderWay \in Nat
  BY <1>3, <1>7, CountsNext
<1>11. asks + UnderWay <= triggers + apRequests + repeats /\ (~broken => asks + UnderWay >= triggers)
  BY DEF ChainInv
<1>12. ASSUME NEW s \in Nat, NEW t \in Nat, NEW q \in Nat, NEW u \in Nat, NEW m \in Nat, NEW l \in Nat
       PROVE  /\ s + u <= t + q + m => s + (u + l) <= t + (q + l) + m
              /\ s + u >= t => s + (u + l) >= t
  OBVIOUS
<1>13. asks + (UnderWay + L) <= triggers + (apRequests + L) + repeats BY <1>4, <1>10, <1>11, <1>12
<1>14. ~broken => asks + (UnderWay + L) >= triggers BY <1>4, <1>10, <1>11, <1>12
<1>15. apRequests' = apRequests + L BY <1>1 DEF L
<1>16. QED BY <1>2, <1>7, <1>8, <1>9, <1>13, <1>14, <1>15 DEF ChainInv

\* Nothing is a link of a chain while nothing is under way.
LEMMA QuietIsEmpty ==
  ASSUME KvTypeOK, Quiet
  PROVE  ChainsFinite /\ UnderWay = 0
<1>1. up = <<>> /\ down = [a \in AP |-> <<>>] /\ beaconsDue = 0 /\ requestsDue = 0
      /\ repliesDue = [a \in AP |-> 0] /\ reportsDue = [a \in AP |-> 0]
  BY DEF Quiet
<1>2. Places(Queues) = {}
  <2>1. \A i \in Place : Queues[i] = <<>> BY <1>1 DEF Queues, Place
  <2>2. DOMAIN Queues = Place BY DEF Queues
  <2>3. \A i \in Place : Len(Queues[i]) = 0 BY <2>1
  <2> HIDE DEF Queues
  <2>4. ASSUME NEW p \in Places(Queues) PROVE FALSE
    <3>1. p[1] \in Place /\ p[2] \in 1..Len(Queues[p[1]]) BY <2>2 DEF Places
    <3>2. p[2] \in 1..0 BY <2>3, <3>1
    <3>3. QED BY <3>2
  <2>5. QED BY <2>4
<1>3. Due(repliesDue) = {} /\ Due(reportsDue) = {}
  BY <1>1 DEF Due
<1>4. IsFiniteSet({}) /\ Cardinality({}) = 0 BY FS_EmptySet
<1>5. ChainsFinite BY <1>2, <1>3, <1>4 DEF ChainsFinite
<1>6. UnderWay = 0 + 0 + 0 + 0 + 0 BY <1>1, <1>2, <1>3, <1>4, Zenon DEF UnderWay
<1>7. QED BY <1>5, <1>6

\* No chain has begun: everything is zero.
LEMMA ChainInit == KvInit => ChainInv
<1> SUFFICES ASSUME KvInit PROVE ChainInv
  OBVIOUS
<1>1. ChainsFinite /\ UnderWay = 0 BY KvTypeInit, QuietIsEmpty DEF KvInit, Quiet
<1>2. /\ asks = 0 /\ triggers = 0 /\ apRequests = 0 /\ repeats = 0 /\ triggered = FALSE
      /\ Len(up) = 0
  BY DEF KvInit
<1>3. ReportsFull BY <1>2 DEF ReportsFull
<1>4. QED BY <1>1, <1>2, <1>3 DEF ChainInv

\* What neither moves a frame nor runs an event of a chain leaves the count alone.
LEMMA ChainUnmoved ==
  ASSUME ChainInv,
         UNCHANGED <<up, down, eventVars, asks, triggers, triggered, apRequests, repeats, broken>>
  PROVE  ChainInv'
<1>1. /\ UNCHANGED <<asks, triggers, triggered, apRequests, repeats, broken, up>>
      /\ UNCHANGED <<beaconsDue, requestsDue, repliesDue, reportsDue>>
  BY DEF eventVars
<1>2. Queues' = Queues BY DEF Queues
<1>3. Due(repliesDue') = Due(repliesDue) /\ Due(reportsDue') = Due(reportsDue) BY <1>1
<1>4. UnderWay' = UnderWay BY <1>1, <1>2, <1>3 DEF UnderWay
<1>5. ChainsFinite' = ChainsFinite BY <1>2, <1>3 DEF ChainsFinite
<1>6. ReportsFull' = ReportsFull BY <1>1 DEF ReportsFull
<1>7. QED BY <1>1, <1>4, <1>5, <1>6 DEF ChainInv

\* Every step of the system keeps the count.
LEMMA ChainStep ==
  ASSUME KvTypeOK, KvTypeOK', ChainInv, [KvNext]_kvVars
  PROVE  ChainInv'
<1>1. ASSUME NEW a \in AP \cup {NoAp}, Move(a) PROVE ChainInv'
  BY <1>1, ChainUnmoved DEF Move, pastVars, countVars
<1>2. CASE SendPeriodicRequest \/ SendBeaconRequest \/ SendBssTmRequest BY <1>2, ChainHelper
<1>3. ASSUME NEW a \in AP, CooldownOver(a) PROVE ChainInv'
  BY <1>3, ChainUnmoved DEF CooldownOver, countVars
<1>4. CASE UNCHANGED kvVars
  BY <1>4, ChainUnmoved DEF kvVars, eventVars, countVars, pastVars
<1>5. CASE \E a \in AP : SendNeighborReportResponse(a) \/ SendBeaconReport(a)
  BY <1>5, ChainAnswers
<1>6. CASE ApReceives BY <1>6, ChainApReceives
<1>7. ASSUME NEW a \in AP, StaReceives(a) PROVE ChainInv' BY <1>7, ChainStaReceives
<1>8. CASE LoseUp \/ \E a \in AP : LoseDown(a) BY <1>8, ChainLose
<1>9. CASE ApsMeasure BY <1>9, ChainApsMeasure
<1>10. QED BY <1>1, <1>2, <1>3, <1>4, <1>5, <1>6, <1>7, <1>8, <1>9 DEF KvNext

\* The count holds in every state.
LEMMA KvChainsAreCounted == KvSpec => [](KvTypeOK /\ ChainInv)
<1>1. KvTypeOK /\ KvTypeOK' /\ ChainInv /\ [KvNext]_kvVars => ChainInv' BY ChainStep
<1>2. QED BY <1>1, ChainInit, KvTypeCorrect, PTL DEF KvSpec

\* No chain is multiplied on its way through the four helpers: every transition request
\* answers a low measurement, an AP's measurement request, or a frame received twice.
THEOREM KvAsksHaveACause == KvSpec => []AsksHaveACause
<1>1. KvTypeOK /\ ChainInv => AsksHaveACause
  <2> SUFFICES ASSUME KvTypeOK, ChainInv PROVE AsksHaveACause
    OBVIOUS
  <2>1. /\ asks \in Nat /\ triggers \in Nat /\ apRequests \in Nat /\ repeats \in Nat
        /\ ChainsFinite /\ asks + UnderWay <= triggers + apRequests + repeats
    BY QueuesAndCounts DEF ChainInv
  <2>2. UnderWay \in Nat BY <2>1, QueuesAndCounts DEF UnderWay
  <2>3. QED BY <2>1, <2>2 DEF AsksHaveACause
<1>2. QED BY <1>1, KvChainsAreCounted, PTL

\* A chain ends in a transition request, unless a frame is lost, a report is empty or the
\* station not associated when it is its turn: the flag then never silences the helper
\* for nothing.
THEOREM KvNoChainIsLost == KvSpec => []NoChainIsLost
<1>1. KvTypeOK /\ ChainInv => NoChainIsLost
  <2> SUFFICES ASSUME KvTypeOK, ChainInv, Quiet, ~broken, apRequests = 0
               PROVE  asks >= triggers /\ (triggered => asks > 0)
    BY DEF NoChainIsLost
  <2>1. UnderWay = 0 BY QuietIsEmpty
  <2>2. asks + UnderWay >= triggers /\ (triggered => triggers > 0) BY DEF ChainInv
  <2>3. asks \in Nat /\ triggers \in Nat BY QueuesAndCounts
  <2>4. QED BY <2>1, <2>2, <2>3
<1>2. QED BY <1>1, KvChainsAreCounted, PTL
=============================================================================
