------------------------------ MODULE ApWifiMac ------------------------------
(***************************************************************************)
(* The association table of one single-link access point                   *)
(* (src/wifi/model/ap-wifi-mac.cc): the association IDs of its stations in  *)
(* staList and in m_aidToMldOrLinkAddress, what the remote station manager  *)
(* records of each, the count of non-HT stations that turns HT protection   *)
(* on, and the channel switches that keep or drop them all.                *)
(*                                                                         *)
(* A response waits in the AP's queue and is acknowledged or given up long  *)
(* after the table was written, and each of the three places is updated by  *)
(* handlers of its own.  The non-ERP count is kept as the non-HT one is.    *)
(***************************************************************************)
EXTENDS Integers, Sequences, FiniteSets

CONSTANTS Sta,          \* stations
          NoSta,        \* a free association ID
          NonHt,        \* the stations without HT capabilities
          Refused,      \* the stations whose rates or capabilities do not fit
          MaxAid,       \* MAX_AID
          NoAid,        \* the AID field of a refusal
          Channels,     \* the channels the AP may be sent to
          SwitchDelay,  \* ticks from SwitchChannel to the switch of the PHY
          FlagDelay,    \* ticks after which the caller resets the coordinated flag
          Spacing,      \* ticks the callers leave between two switches
          QueueSize,    \* bound on the responses queued for one station
          MaxRequests,  \* bound on the association requests
          MaxSwitches   \* bound on the calls of SwitchChannel

ASSUME ApAssumption ==
  /\ IsFiniteSet(Sta) /\ NoSta \notin Sta /\ NonHt \subseteq Sta /\ Refused \subseteq Sta
  /\ MaxAid \in Nat \ {0} /\ NoAid = 0
  /\ Channels # {}
  /\ SwitchDelay \in Nat \ {0} /\ FlagDelay \in Nat /\ FlagDelay > SwitchDelay
  /\ Spacing \in Nat
  /\ QueueSize \in Nat /\ MaxRequests \in Nat /\ MaxSwitches \in Nat

VARIABLES staList,      \* link.staList: the station of each AID
          aidMap,       \* m_aidToMldOrLinkAddress
          manager,      \* the manager's association state of each station
          htKnown,      \* whether the manager holds HT capabilities of each station
          numNonHt,     \* link.numNonHtStations, a uint16_t
          responses,    \* per station, the AIDs in the responses queued for it
          channel,      \* the channel of the AP's PHY
          coordinated,  \* IsCoordinatedChannelSwitch()
          switches,     \* scheduled switches of the PHY
          flagResets,   \* ticks left to each scheduled reset of the flag
          sinceSwitch,  \* ticks since the last SwitchChannel, up to Spacing
          requests, calls,         \* counted against the bounds
          failed, cleared, resets  \* history: failed responses, cleared lists, manager resets

tableVars == <<staList, aidMap, manager, htKnown, numNonHt, responses>>
switchVars == <<channel, coordinated, switches, flagResets, sinceSwitch>>
history == <<failed, cleared, resets>>
apVars == <<tableVars, switchVars, requests, calls, history>>

Aid == 1..MaxAid
Table == [Aid -> Sta \cup {NoSta}]
UintMax == 65535
AssocState == {"BRAND_NEW", "WAIT_ASSOC_TX_OK", "GOT_ASSOC_TX_OK", "DISASSOC"}
Switch == [to : Channels, left : 0..SwitchDelay, coordinated : BOOLEAN]

ApTypeOK ==
  /\ staList \in Table /\ aidMap \in Table
  /\ manager \in [Sta -> AssocState]
  /\ htKnown \in [Sta -> BOOLEAN]
  /\ numNonHt \in 0..UintMax
  /\ responses \in [Sta -> Seq(Aid \cup {NoAid})]
  /\ channel \in Channels /\ coordinated \in BOOLEAN
  /\ switches \in Seq(Switch)
  /\ flagResets \in Seq(0..FlagDelay)
  /\ sinceSwitch \in 0..Spacing
  /\ requests \in Nat /\ calls \in Nat
  /\ failed \in Nat /\ cleared \in Nat /\ resets \in Nat

EmptyTable == [i \in Aid |-> NoSta]

ApInit ==
  /\ staList = EmptyTable /\ aidMap = EmptyTable
  /\ manager = [s \in Sta |-> "BRAND_NEW"]
  /\ htKnown = [s \in Sta |-> FALSE]
  /\ numNonHt = 0
  /\ responses = [s \in Sta |-> <<>>]
  /\ channel \in Channels /\ coordinated = FALSE
  /\ switches = <<>> /\ flagResets = <<>>
  /\ sinceSwitch = Spacing
  /\ requests = 0 /\ calls = 0
  /\ failed = 0 /\ cleared = 0 /\ resets = 0

----------------------------------------------------------------------------
(* Association. *)

Listed(s) == \E i \in Aid : staList[i] = s

\* Mutant: the count has no width.
PlusUnbounded(n, k) == n + k

Plus(n, k) == (n + k) % (UintMax + 1)

\* Mutant: no stale entry is looked for.
WithoutNone(table, s) == table

\* A table without the stale entries of a station.
Without(table, s) ==
  [i \in Aid |-> IF table[i] = s THEN NoSta ELSE table[i]]

\* Mutant: the free AIDs are looked up before the stale entries are erased.
FreeAidsBefore(s) == {i \in Aid : staList[i] = NoSta}

\* AIDs the next association of s may get.
FreeAids(s) == {i \in Aid : Without(staList, s)[i] = NoSta}

\* GetNextAssociationId: the first free one.
NextAid(s) == CHOOSE i \in FreeAids(s) : \A j \in FreeAids(s) : i <= j

\* SetAid, for a station that waits for its response: the manager offers it no AID
\* of its own.  The stale entries are erased but not uncounted, and an AID still
\* mapped to another address is taken from it.
SetAid(s) ==
  /\ staList' = [Without(staList, s) EXCEPT ![NextAid(s)] = s]
  /\ aidMap' = [i \in Aid |-> IF i = NextAid(s) THEN s
                              ELSE IF Without(staList, s)[i] = staList[i] THEN aidMap[i]
                              ELSE NoSta]
  /\ numNonHt' = IF s \in NonHt THEN Plus(numNonHt, 1) ELSE numNonHt
  /\ responses' = [responses EXCEPT ![s] = Append(@, NextAid(s))]

\* A request is accepted, for the first time or again.
AcceptRequest(s) ==
  /\ s \notin Refused /\ FreeAids(s) # {}
  /\ requests < MaxRequests /\ requests' = requests + 1
  /\ Len(responses[s]) < QueueSize
  /\ manager' = [manager EXCEPT ![s] = "WAIT_ASSOC_TX_OK"]
  /\ htKnown' = [htKnown EXCEPT ![s] = @ \/ s \notin NonHt]
  /\ SetAid(s)
  /\ UNCHANGED <<switchVars, calls, history>>

RefuseRequest(s) ==
  /\ s \in Refused
  /\ requests < MaxRequests /\ requests' = requests + 1
  /\ Len(responses[s]) < QueueSize
  /\ manager' = [manager EXCEPT ![s] = "DISASSOC"]
  /\ responses' = [responses EXCEPT ![s] = Append(@, NoAid)]
  /\ UNCHANGED <<staList, aidMap, htKnown, numNonHt, switchVars, calls, history>>

----------------------------------------------------------------------------
(* The fate of a response.  Those of one station keep their order. *)

Waiting(s) == manager[s] = "WAIT_ASSOC_TX_OK"

Dequeue(s) == responses[s] # <<>> /\ responses' = [responses EXCEPT ![s] = Tail(@)]

TxOk(s) ==
  /\ Dequeue(s)
  /\ manager' = [manager EXCEPT ![s] = IF Waiting(s) THEN "GOT_ASSOC_TX_OK" ELSE @]
  /\ UNCHANGED <<staList, aidMap, htKnown, numNonHt, switchVars, requests, calls, history>>

\* Mutant: the AID is freed in the list of the link only.
EraseFromList(i) ==
  /\ staList' = [j \in Aid |-> IF j = i THEN NoSta ELSE staList[j]]
  /\ UNCHANGED aidMap

\* Free an AID, if it is one.
Erase(i) ==
  /\ staList' = [j \in Aid |-> IF j = i THEN NoSta ELSE staList[j]]
  /\ aidMap' = [j \in Aid |-> IF j = i THEN NoSta ELSE aidMap[j]]

\* The AID in the response is freed, whoever holds it by now, and nothing uncounted.
TxFailed(s) ==
  /\ Dequeue(s)
  /\ manager' = [manager EXCEPT ![s] = IF Waiting(s) THEN "DISASSOC" ELSE @]
  /\ Erase(Head(responses[s]))
  /\ failed' = failed + 1
  /\ UNCHANGED <<htKnown, numNonHt, switchVars, requests, calls, cleared, resets>>

----------------------------------------------------------------------------
(* Disassociation: the frame of a station, or DeassociateSta. *)

\* Mutant: every station that leaves is uncounted.
UncountAlways(s) == numNonHt' = Plus(numNonHt, UintMax)

\* What the manager knows of a station decides whether it is uncounted.
Uncount(s) == numNonHt' = IF htKnown[s] THEN numNonHt ELSE Plus(numNonHt, UintMax)

\* Mutant: the manager goes on taking the station for associated.
DeassociateUnrecorded(s) ==
  /\ \E i \in Aid : /\ staList[i] = s /\ \A j \in 1..(i - 1) : staList[j] # s
                    /\ Erase(i)
  /\ Uncount(s)
  /\ UNCHANGED <<manager, htKnown, responses, switchVars, requests, calls, history>>

\* A listed station leaves; the handlers erase the first entry they find.
Deassociate(s) ==
  /\ \E i \in Aid : /\ staList[i] = s /\ \A j \in 1..(i - 1) : staList[j] # s
                    /\ Erase(i)
  /\ manager' = [manager EXCEPT ![s] = "DISASSOC"]
  /\ Uncount(s)
  /\ UNCHANGED <<htKnown, responses, switchVars, requests, calls, history>>

----------------------------------------------------------------------------
(* Channel switches. *)

Schedule(c, flag) ==
  /\ calls < MaxSwitches /\ calls' = calls + 1
  /\ sinceSwitch = Spacing /\ sinceSwitch' = 0
  /\ switches' = Append(switches, [to |-> c, left |-> SwitchDelay, coordinated |-> flag])

\* SetCoordinatedChannelSwitch(true), SwitchChannel, and the reset of the flag.
SwitchCoordinated(c) ==
  /\ Schedule(c, TRUE)
  /\ coordinated' = TRUE
  /\ flagResets' = Append(flagResets, FlagDelay)
  /\ UNCHANGED <<tableVars, channel, requests, history>>

\* SwitchChannel alone, under the flag as it is: the tables are emptied at once,
\* the counts and the manager are not, and the PHY moves later.
SwitchChannel(c) ==
  /\ Schedule(c, coordinated)
  /\ IF coordinated
     THEN UNCHANGED <<staList, aidMap, cleared>>
     ELSE staList' = EmptyTable /\ aidMap' = EmptyTable /\ cleared' = cleared + 1
  /\ UNCHANGED <<manager, htKnown, numNonHt, responses, channel, coordinated, flagResets,
                 requests, failed, resets>>

\* The manager forgets every station.
ResetManager ==
  /\ manager' = [s \in Sta |-> "BRAND_NEW"]
  /\ htKnown' = [s \in Sta |-> FALSE]
  /\ resets' = resets + 1

\* Mutant: the manager is reset on every switch.
NotifyUncoordinated == ResetManager

\* WifiMac::NotifyChannelSwitching, under the flag as it is by then.
Notify ==
  IF coordinated THEN UNCHANGED <<manager, htKnown, resets>> ELSE ResetManager

\* The PHY moves and notifies the MAC.  To be sent to the channel it is on is a
\* switch too, unless the width is the configured one as well.
ApplySwitch ==
  /\ switches # <<>> /\ Head(switches).left = 0
  /\ switches' = Tail(switches)
  /\ channel' = Head(switches).to
  /\ \/ Notify
     \/ channel' = channel /\ UNCHANGED <<manager, htKnown, resets>>
  /\ UNCHANGED <<staList, aidMap, numNonHt, responses, coordinated, flagResets,
                 sinceSwitch, requests, calls, failed, cleared>>

ResetFlag ==
  /\ flagResets # <<>> /\ Head(flagResets) = 0
  /\ flagResets' = Tail(flagResets)
  /\ coordinated' = FALSE
  /\ UNCHANGED <<tableVars, channel, switches, sinceSwitch, requests, calls, history>>

\* Events of one instant run in any order, and the clock moves when none is due.
ApTick ==
  /\ \A i \in 1..Len(switches) : switches[i].left > 0
  /\ \A i \in 1..Len(flagResets) : flagResets[i] > 0
  /\ switches' = [i \in 1..Len(switches) |-> [switches[i] EXCEPT !.left = @ - 1]]
  /\ flagResets' = [i \in 1..Len(flagResets) |-> flagResets[i] - 1]
  /\ sinceSwitch' = IF sinceSwitch < Spacing THEN sinceSwitch + 1 ELSE sinceSwitch
  /\ UNCHANGED <<tableVars, channel, coordinated, requests, calls, history>>

ApNext ==
  \/ \E s \in Sta : \/ AcceptRequest(s) \/ RefuseRequest(s)
                    \/ TxOk(s) \/ TxFailed(s) \/ Deassociate(s)
  \/ \E c \in Channels : SwitchCoordinated(c) \/ SwitchChannel(c)
  \/ ApplySwitch \/ ResetFlag \/ ApTick

ApSpec == ApInit /\ [][ApNext]_apVars

----------------------------------------------------------------------------
(* Properties. *)

\* The list of the link and the AID map hold the same stations under the same AIDs
\* after every handler that writes them: SetAid would abort otherwise.
TablesAgree == aidMap = staList

\* However often a station asks again, roams away and is refused, it holds one AID,
OneAidPerStation ==
  \A i, j \in Aid : staList[i] = staList[j] /\ staList[i] # NoSta => i = j

\* and with as many AIDs as stations it may accept none asks in vain (NS_FATAL_ERROR in
\* GetNextAssociationId): failed responses, disassociations and switches leak none.
AidsSuffice ==
  Cardinality(Sta \ Refused) <= MaxAid => \A s \in Sta \ Refused : FreeAids(s) # {}

\* Until a response fails or a switch drops the stations, the AP lists exactly the
\* stations its manager takes for associated or about to be.
ListMatchesManager ==
  failed = 0 /\ cleared = 0 /\ resets = 0 =>
    \A s \in Sta : Listed(s) <=> manager[s] \in {"WAIT_ASSOC_TX_OK", "GOT_ASSOC_TX_OK"}

ListedNonHt == {s \in NonHt : Listed(s)}

\* Until a switch resets the manager, HT protection stays on while a station that
\* needs it is listed, whatever failed or asked again.
NonHtStationsAreProtected ==
  resets = 0 => Cardinality(ListedNonHt) <= numNonHt

\* wifi-mac.cc:726, "Reset remote station manager only for uncoordinated switches".
CoordinatedSwitchKeepsStations ==
  [][ApplySwitch /\ Head(switches).coordinated => UNCHANGED manager]_apVars
=============================================================================
