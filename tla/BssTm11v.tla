------------------------------ MODULE BssTm11v ------------------------------
(***************************************************************************)
(* 802.11v BSS transition management over StaWifiMac                       *)
(* (contrib/bss_tm_11v/helper/bss_tm_11v-helper.cc): an AP asks the station *)
(* to move, the station answers and schedules a roam, and the AP forgets    *)
(* the station a fixed time after the request, whatever became of it.       *)
(*                                                                         *)
(* Nothing ties the scheduled events to the frames: the roam does not wait  *)
(* for the response, nor the clean-up for either.                           *)
(***************************************************************************)
EXTENDS StaWifiMac

CONSTANTS RoamDelay,       \* ticks from the response to the roam
          CleanupDelay,    \* ticks from the request to the AP's clean-up
          RequestCooldown, \* m_cooldownDuration, in ticks
          Backlog,         \* bound: the frames of a queue that wait while the clock moves
          MaxRequests      \* bound on the requests sent

ASSUME BtmAssumption ==
  /\ RoamDelay \in Nat \ {0} /\ CleanupDelay \in Nat \ {0}
  /\ RequestCooldown \in Nat /\ RequestCooldown >= CleanupDelay
  /\ Backlog \in Nat /\ MaxRequests \in Nat

VARIABLES cooldown,  \* per AP, ticks until it may send the station another request
          cleanup,   \* per AP, the scheduled DeassociateSta
          answers,   \* scheduled SendDynamicBssTmResponse events, 10 ms from the request
          steered,   \* scheduled InitiateRoaming calls
          requests   \* counted against the bound

btmVars == <<cooldown, cleanup, answers, steered, requests>>
allVars == <<staVars, btmVars>>

Answer == [ap : AP, target : AP]
\* A scheduled roam; the AP that asked for it is history, which nothing reads.
Steer == [ap : AP, target : AP, left : Timer(RoamDelay)]

BtmTypeOK ==
  /\ StaTypeOK
  /\ cooldown \in [AP -> 0..RequestCooldown]
  /\ cleanup \in [AP -> Timer(CleanupDelay)]
  /\ answers \in Seq(Answer)
  /\ steered \in Seq(Steer)
  /\ requests \in Nat

BtmInit ==
  /\ StaInit
  /\ cooldown = [a \in AP |-> 0]
  /\ cleanup = [a \in AP |-> Off]
  /\ answers = <<>> /\ steered = <<>>
  /\ requests = 0

----------------------------------------------------------------------------
(* The access point. *)

\* Mutant: the rate limit is not checked.
MayRequestAlways(a) == TRUE

\* The rate limit of one AP and station.
MayRequest(a) == cooldown[a] = 0

\* An AP steers a station it lists (load balancing) or that is associated with it
\* (AutoRoamingKv); the best candidate is never the AP itself.
SendDynamicBssTmRequest(a, target) ==
  /\ ~asserted /\ requests < MaxRequests /\ Len(apQueue[a]) < QueueSize
  /\ target # a /\ (listed[a] \/ (Associated /\ bssid = a))
  /\ MayRequest(a)
  /\ cooldown' = [cooldown EXCEPT ![a] = RequestCooldown]
  /\ apQueue' = [apQueue EXCEPT ![a] = Append(@, [type |-> "btmReq", target |-> target])]
  /\ cleanup' = [cleanup EXCEPT ![a] = CleanupDelay]
  /\ requests' = requests + 1
  /\ UNCHANGED <<state, bssid, lastBssid, chan, switching, assocTimer, watchdog,
                 disassociating, roams, autoReconnect, heard, staQueue, listed, asserted,
                 counters, answers, steered>>

\* DeassociateSta: the AP forgets the station, wherever it is by now.
CleanUp(a) ==
  /\ ~asserted /\ cleanup[a] = 0
  /\ cleanup' = [cleanup EXCEPT ![a] = Off]
  /\ listed' = [listed EXCEPT ![a] = FALSE]
  /\ UNCHANGED <<state, bssid, lastBssid, chan, switching, assocTimer, watchdog,
                 disassociating, roams, autoReconnect, heard, staQueue, apQueue, asserted,
                 counters, cooldown, answers, steered, requests>>

\* The AP reads the response and does nothing with it.
ApReceivesResponse(a) ==
  /\ StaTransmits /\ StaHead = [type |-> "btmResp", ap |-> a]
  /\ chan = Chan[a]
  /\ UNCHANGED <<state, bssid, lastBssid, chan, switching, assocTimer, watchdog,
                 disassociating, roams, autoReconnect, heard, apQueue, listed, asserted,
                 counters, btmVars>>

----------------------------------------------------------------------------
(* The station. *)

\* The BSSID compared is that of the frame exchange manager, which outlives the
\* association.
FromOwnAp(a) == lastBssid = a

\* Every request from that AP is accepted, for its first candidate.
Accept(a) ==
  answers' = IF FromOwnAp(a)
             THEN Append(answers, [ap |-> a, target |-> Head(apQueue[a]).target])
             ELSE answers

\* The request arrives; the sniffer also shows the helper each retransmission of a
\* frame whose acknowledgement was lost.
ReceiveBtmRequest(a) ==
  /\ ApTransmits(a) /\ Head(apQueue[a]).type = "btmReq" /\ chan = Chan[a]
  /\ Accept(a)
  /\ UNCHANGED <<state, bssid, lastBssid, chan, switching, assocTimer, watchdog,
                 disassociating, roams, autoReconnect, heard, staQueue, listed, asserted,
                 counters, cooldown, cleanup, steered, requests>>

ReceiveBtmRequestUnacked(a) ==
  /\ ~asserted /\ ~switching /\ lost < MaxLost
  /\ apQueue[a] # <<>> /\ Head(apQueue[a]).type = "btmReq" /\ chan = Chan[a]
  /\ Accept(a)
  /\ lost' = lost + 1
  /\ UNCHANGED <<state, bssid, lastBssid, chan, switching, assocTimer, watchdog,
                 disassociating, roams, autoReconnect, heard, staQueue, apQueue, listed,
                 asserted, calls, missed, cooldown, cleanup, steered, requests>>

\* Queues the response and schedules the roam.
SendDynamicBssTmResponse ==
  /\ ~asserted /\ answers # <<>> /\ answers' = Tail(answers)
  /\ Send("btmResp", Head(answers).ap)
  /\ steered' = Append(steered, [ap |-> Head(answers).ap, target |-> Head(answers).target,
                                 left |-> RoamDelay])
  /\ UNCHANGED <<state, bssid, lastBssid, chan, switching, assocTimer, watchdog,
                 disassociating, roams, autoReconnect, heard, apQueue, listed, asserted,
                 counters, cooldown, cleanup, requests>>

\* Mutant: only a station that is not associated moves.
SteeredMoveIfIdle(a) ==
  IF Associated THEN UNCHANGED <<state, bssid, chan, switching, assocTimer, staQueue, roams>>
                ELSE InitiateRoaming(a)

\* The scheduled call, whatever the station did meanwhile.
SteeredMove(a) == InitiateRoaming(a)

SteeredRoam(i) ==
  /\ ~asserted /\ i \in 1..Len(steered) /\ steered[i].left = 0
  /\ SteeredMove(steered[i].target)
  /\ steered' = Remove(steered, i)
  /\ UNCHANGED <<lastBssid, watchdog, disassociating, autoReconnect, heard, apQueue,
                 listed, asserted, counters, cooldown, cleanup, answers, requests>>

----------------------------------------------------------------------------
(* Time and the whole. *)

BtmTick ==
  /\ ~asserted /\ NothingDue
  /\ answers = <<>> /\ \A i \in 1..Len(steered) : steered[i].left # 0
  /\ \A a \in AP : cleanup[a] # 0 /\ Len(apQueue[a]) <= Backlog
  /\ Len(staQueue) <= Backlog
  /\ AdvanceStaTimers
  /\ cooldown' = [a \in AP |-> CountDown(cooldown[a])]
  /\ cleanup' = [a \in AP |-> CountDown(cleanup[a])]
  /\ steered' = [i \in 1..Len(steered) |-> [steered[i] EXCEPT !.left = CountDown(@)]]
  /\ UNCHANGED <<state, bssid, lastBssid, chan, switching, disassociating, autoReconnect,
                 heard, staQueue, apQueue, listed, asserted, counters, answers, requests>>

BtmStep ==
  \/ \E a, target \in AP : SendDynamicBssTmRequest(a, target)
  \/ \E a \in AP : \/ CleanUp(a) \/ ApReceivesResponse(a)
                   \/ ReceiveBtmRequest(a) \/ ReceiveBtmRequestUnacked(a)
  \/ SendDynamicBssTmResponse
  \/ \E i \in 1..Len(steered) : SteeredRoam(i)

BtmNext == ((StaStep \/ StaCall) /\ UNCHANGED btmVars) \/ BtmStep \/ BtmTick

BtmSpec == BtmInit /\ [][BtmNext]_allVars

\* The simulator runs what is due and then advances the clock; queued frames are
\* transmitted; beacons keep coming; a PHY does not stay busy.
BtmFairness ==
  /\ WF_allVars(BtmTick)
  /\ WF_allVars(AssocRequestTimeout /\ UNCHANGED btmVars)
  /\ WF_allVars(MissedBeacons /\ UNCHANGED btmVars)
  /\ WF_allVars(DisassociatedEvent /\ UNCHANGED btmVars)
  /\ WF_allVars(NotifyChannelSwitching /\ UNCHANGED btmVars)
  /\ WF_allVars(\E i \in 1..Len(roams) : DoInitiateRoaming(i) /\ UNCHANGED btmVars)
  /\ WF_allVars(\/ StaFrameLost /\ UNCHANGED btmVars
                \/ \E a \in AP : \/ ApReceivesRequest(a) /\ UNCHANGED btmVars
                                 \/ ApReceivesDisassociation(a) /\ UNCHANGED btmVars
                                 \/ ApReceivesResponse(a))
  /\ \A a \in AP :
       /\ WF_allVars(NotifyApInfo(a) /\ UNCHANGED btmVars)
       /\ WF_allVars(ScanningTimeout(a) /\ UNCHANGED btmVars)
       /\ WF_allVars(CleanUp(a))
       /\ WF_allVars(\/ (ReceiveAssocResp(a) \/ ReceiveRefusal(a) \/ ApFrameLost(a)) /\ UNCHANGED btmVars
                     \/ ReceiveBtmRequest(a))
  /\ WF_allVars(SendDynamicBssTmResponse)
  /\ WF_allVars(\E i \in 1..Len(steered) : SteeredRoam(i))

FairBtmSpec == BtmSpec /\ BtmFairness

----------------------------------------------------------------------------
(* Properties. *)

\* A response or roam the station has scheduled was asked for by a request of the
\* last RequestCooldown: the rate limit of each AP, checked where the request is sent,
\* bounds what is under way at the station, as long as no acknowledgement is lost.
SteersAreRateLimited ==
  lost = 0 => Len(answers) + Len(steered) <= Cardinality({a \in AP : cooldown[a] > 0})

\* A station that accepts to move to an AP is associated with that AP in the end, unless
\* it was also called to move elsewhere, or an assertion stopped the simulation.
SteeringSucceeds ==
  \A target \in AP :
    (\E k \in 1..Len(answers) : answers[k].target = target)
      ~> asserted \/ calls > 0 \/ (Associated /\ bssid = target)
=============================================================================
