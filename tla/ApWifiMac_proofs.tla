-------------------------- MODULE ApWifiMac_proofs ---------------------------
(***************************************************************************)
(* What holds of an access point with any stations, association IDs and     *)
(* channels: types; the two tables agree and give a station one AID; no AID *)
(* leaks; the list follows the station manager until a response fails or a   *)
(* switch clears it; and non-HT stations stay protected.                     *)
(***************************************************************************)
EXTENDS ApWifiMac, TLAPS, FiniteSetTheorems, WellFoundedInduction

----------------------------------------------------------------------------
(* The operators on tables. *)

\* A nonempty set of natural numbers has a least element.
LEMMA LeastNatural ==
  ASSUME NEW S, S \subseteq Nat, S # {}
  PROVE  \E i \in S : \A j \in S : i <= j
<1>1. PICK i \in S : \A j \in S : ~ (<<j, i>> \in OpToRel(<, Nat))
  BY WFMin, NatLessThanWellFounded, Zenon
<1>2. \A j \in S : ~ (j < i) BY <1>1 DEF OpToRel
<1>3. QED BY <1>2

\* The next AID is a free one.
LEMMA NextAidFree ==
  ASSUME ApAssumption, NEW s \in Sta, FreeAids(s) # {}
  PROVE  NextAid(s) \in Aid /\ Without(staList, s)[NextAid(s)] = NoSta
<1>1. FreeAids(s) \subseteq Nat BY DEF FreeAids, Aid, ApAssumption
<1>2. \E i \in FreeAids(s) : \A j \in FreeAids(s) : i <= j BY <1>1, LeastNatural
<1>3. NextAid(s) \in FreeAids(s) BY <1>2, Zenon DEF NextAid
<1>4. QED BY <1>3 DEF FreeAids

\* Plus stays in the width of the counter.
LEMMA PlusTyped ==
  ASSUME NEW n \in 0..UintMax, NEW k \in Nat
  PROVE  Plus(n, k) \in 0..UintMax
<1>1. UintMax \in Nat BY SMTT(30) DEF UintMax
<1>2. ASSUME NEW m \in Nat, NEW d \in Nat, d > 0 PROVE m % d \in Nat /\ m % d < d
  BY <1>2
<1>3. n + k \in Nat /\ UintMax + 1 \in Nat /\ UintMax + 1 > 0 BY <1>1
<1>4. (n + k) % (UintMax + 1) \in Nat /\ (n + k) % (UintMax + 1) < UintMax + 1 BY <1>2, <1>3
<1>5. (n + k) % (UintMax + 1) \in 0..UintMax BY <1>1, <1>4
<1>6. QED BY <1>5 DEF Plus

----------------------------------------------------------------------------
(* The tables. *)

\* What every handler preserves of the tables.
TablesOK ==
  /\ staList \in Table /\ aidMap \in Table
  /\ TablesAgree
  /\ OneAidPerStation

\* An accepted station has the next AID and no other, the others keep theirs.
LEMMA SetAidTables ==
  ASSUME ApAssumption, TablesOK, NEW s \in Sta, FreeAids(s) # {}, SetAid(s)
  PROVE  /\ TablesOK'
         /\ \A i \in Aid : staList'[i] = s <=> i = NextAid(s)
         /\ \A i \in Aid, t \in Sta \ {s} : staList'[i] = t <=> staList[i] = t
<1> DEFINE n == NextAid(s)
<1>1. n \in Aid /\ Without(staList, s)[n] = NoSta BY NextAidFree
<1>2. staList \in Table /\ aidMap = staList BY DEF TablesOK, TablesAgree
<1>3. \A i \in Aid : staList'[i] = IF i = n THEN s ELSE IF staList[i] = s THEN NoSta ELSE staList[i]
  BY <1>1, <1>2 DEF SetAid, Without, Table
<1>4. staList[n] = s \/ staList[n] = NoSta BY <1>1 DEF Without
<1>5. s # NoSta BY DEF ApAssumption
<1>6. \A i \in Aid : staList'[i] = s <=> i = n BY <1>3, <1>5
<1>7. \A i \in Aid, t \in Sta \ {s} : staList'[i] = t <=> staList[i] = t
  BY <1>3, <1>4, <1>5 DEF ApAssumption
<1>8. staList' \in Table BY <1>1, <1>2 DEF SetAid, Without, Table
<1>9. aidMap' = staList'
  <2>1. \A i \in Aid : aidMap'[i] = staList'[i]
    BY <1>2, <1>3, <1>5 DEF SetAid, Without
  <2>2. aidMap' = [i \in Aid |-> aidMap'[i]] BY DEF SetAid
  <2>3. QED BY <1>8, <2>1, <2>2 DEF Table
<1>10. OneAidPerStation'
  BY <1>3, <1>5, <1>6 DEF TablesOK, OneAidPerStation
<1>11. QED BY <1>6, <1>7, <1>8, <1>9, <1>10 DEF TablesOK, TablesAgree

\* To free an AID takes it, and no other, from the station that holds it.
LEMMA EraseTables ==
  ASSUME ApAssumption, TablesOK, NEW i, Erase(i)
  PROVE  /\ TablesOK'
         /\ \A j \in Aid : staList'[j] = IF j = i THEN NoSta ELSE staList[j]
<1>1. staList \in Table /\ aidMap = staList BY DEF TablesOK, TablesAgree
<1>2. \A j \in Aid : staList'[j] = IF j = i THEN NoSta ELSE staList[j] BY DEF Erase
<1>3. staList' \in Table BY <1>1 DEF Erase, Table
<1>4. aidMap' = staList' BY <1>1 DEF Erase
<1>5. OneAidPerStation' BY <1>2 DEF TablesOK, OneAidPerStation
<1>6. QED BY <1>2, <1>3, <1>4, <1>5 DEF TablesOK, TablesAgree

\* Every step keeps the tables.
LEMMA TablesStep ==
  ASSUME ApAssumption, TablesOK, [ApNext]_apVars
  PROVE  TablesOK'
<1>1. ASSUME UNCHANGED <<staList, aidMap>> PROVE TablesOK'
  BY <1>1 DEF TablesOK, TablesAgree, OneAidPerStation
<1>2. ASSUME NEW s \in Sta, AcceptRequest(s) PROVE TablesOK'
  BY <1>2, SetAidTables DEF AcceptRequest
<1>3. ASSUME NEW s \in Sta, RefuseRequest(s) \/ TxOk(s) PROVE TablesOK'
  BY <1>1, <1>3 DEF RefuseRequest, TxOk
<1>4. ASSUME NEW s \in Sta, TxFailed(s) PROVE TablesOK'
  <2>1. Erase(Head(responses[s])) BY <1>4 DEF TxFailed
  <2>2. QED BY <2>1, EraseTables
<1>5. ASSUME NEW s \in Sta, Deassociate(s) PROVE TablesOK'
  <2>1. \E i \in Aid : Erase(i) BY <1>5 DEF Deassociate
  <2>2. QED BY <2>1, EraseTables
<1>6. ASSUME NEW c \in Channels, SwitchCoordinated(c) PROVE TablesOK'
  BY <1>1, <1>6 DEF SwitchCoordinated, tableVars
<1>7. ASSUME NEW c \in Channels, SwitchChannel(c) PROVE TablesOK'
  <2>1. CASE UNCHANGED <<staList, aidMap>> BY <1>1, <2>1
  <2>2. CASE staList' = EmptyTable /\ aidMap' = EmptyTable
    BY <2>2 DEF TablesOK, Table, EmptyTable, TablesAgree, OneAidPerStation
  <2>3. QED BY <1>7, <2>1, <2>2 DEF SwitchChannel
<1>8. CASE ApplySwitch \/ ResetFlag \/ ApTick
  BY <1>1, <1>8 DEF ApplySwitch, ResetFlag, ApTick, tableVars
<1>9. CASE UNCHANGED apVars BY <1>1, <1>9 DEF apVars, tableVars
<1>10. QED BY <1>2, <1>3, <1>4, <1>5, <1>6, <1>7, <1>8, <1>9 DEF ApNext

\* The tables of every reachable state.
LEMMA TablesInvariant == ApSpec => []TablesOK
<1>1. ApInit => TablesOK
  BY DEF ApInit, TablesOK, Table, EmptyTable, TablesAgree, OneAidPerStation
<1>2. QED BY <1>1, ApAssumption, TablesStep, PTL DEF ApSpec

\* No interleaving of requests, failed responses, disassociations and channel switches
\* makes the list of the link and the AID map disagree: the fatal error of SetAid on a
\* mismatch cannot happen.
THEOREM TablesAlwaysAgree == ApSpec => []TablesAgree
BY TablesInvariant, PTL DEF TablesOK

\* A station holds one AID at most, however it was refused, failed or asked again.
THEOREM OneAidEach == ApSpec => []OneAidPerStation
BY TablesInvariant, PTL DEF TablesOK

----------------------------------------------------------------------------
(* Type correctness. *)

\* Every step keeps the types.
LEMMA ApStepTyped ==
  ASSUME ApAssumption, ApTypeOK, TablesOK, TablesOK', ApNext
  PROVE  ApTypeOK'
<1>1. /\ manager \in [Sta -> AssocState] /\ htKnown \in [Sta -> BOOLEAN]
      /\ numNonHt \in 0..UintMax /\ responses \in [Sta -> Seq(Aid \cup {NoAid})]
      /\ switches \in Seq(Switch) /\ flagResets \in Seq(0..FlagDelay)
  BY DEF ApTypeOK
<1>2. staList' \in Table /\ aidMap' \in Table BY DEF TablesOK
<1>3. /\ \A k \in Nat : Plus(numNonHt, k) \in 0..UintMax
      /\ 1 \in Nat /\ UintMax \in Nat
  <2>1. \A k \in Nat : Plus(numNonHt, k) \in 0..UintMax BY <1>1, PlusTyped
  <2>2. UintMax \in Nat BY DEF UintMax
  <2>3. QED BY <2>1, <2>2
<1>4. ASSUME NEW s \in Sta, NEW i \in Aid \cup {NoAid}
      PROVE  [responses EXCEPT ![s] = Append(@, i)] \in [Sta -> Seq(Aid \cup {NoAid})]
  BY <1>1
<1>5. ASSUME NEW s \in Sta, Dequeue(s) PROVE responses' \in [Sta -> Seq(Aid \cup {NoAid})]
  <2>1. responses[s] \in Seq(Aid \cup {NoAid}) /\ responses[s] # <<>> BY <1>1, <1>5 DEF Dequeue
  <2>2. Tail(responses[s]) \in Seq(Aid \cup {NoAid}) BY <2>1
  <2>3. QED BY <1>1, <1>5, <2>2 DEF Dequeue
<1>6. ASSUME NEW s \in Sta, AcceptRequest(s) PROVE ApTypeOK'
  <2>1. NextAid(s) \in Aid /\ SetAid(s) BY <1>6, NextAidFree DEF AcceptRequest
  <2>2. responses' \in [Sta -> Seq(Aid \cup {NoAid})] BY <1>4, <2>1 DEF SetAid
  <2>3. numNonHt' \in 0..UintMax BY <1>1, <1>3, <2>1 DEF SetAid
  <2>4. manager' \in [Sta -> AssocState] BY <1>1, <1>6 DEF AcceptRequest, AssocState
  <2>5. htKnown' \in [Sta -> BOOLEAN] BY <1>1, <1>6 DEF AcceptRequest
  <2>6. requests' \in Nat BY <1>6 DEF AcceptRequest, ApTypeOK
  <2>7. QED BY <1>2, <1>6, <2>2, <2>3, <2>4, <2>5, <2>6
            DEF AcceptRequest, ApTypeOK, switchVars, history
<1>7. ASSUME NEW s \in Sta, RefuseRequest(s) PROVE ApTypeOK'
  <2>1. responses' \in [Sta -> Seq(Aid \cup {NoAid})] BY <1>4, <1>7 DEF RefuseRequest
  <2>2. QED BY <1>2, <1>7, <2>1 DEF RefuseRequest, ApTypeOK, AssocState, switchVars, history
<1>8. ASSUME NEW s \in Sta, TxOk(s) PROVE ApTypeOK'
  BY <1>2, <1>5, <1>8 DEF TxOk, ApTypeOK, AssocState, switchVars, history
<1>9. ASSUME NEW s \in Sta, TxFailed(s) PROVE ApTypeOK'
  BY <1>2, <1>5, <1>9 DEF TxFailed, ApTypeOK, AssocState, switchVars
<1>10. ASSUME NEW s \in Sta, Deassociate(s) PROVE ApTypeOK'
  <2>1. numNonHt' \in 0..UintMax BY <1>1, <1>3, <1>10 DEF Deassociate, Uncount
  <2>2. QED BY <1>2, <1>10, <2>1 DEF Deassociate, ApTypeOK, AssocState, switchVars, history
<1>11. ASSUME NEW c \in Channels, NEW flag \in BOOLEAN, Schedule(c, flag)
       PROVE  calls' \in Nat /\ sinceSwitch' \in 0..Spacing /\ switches' \in Seq(Switch)
  <2>1. [to |-> c, left |-> SwitchDelay, coordinated |-> flag] \in Switch
    BY DEF Switch, ApAssumption
  <2>2. QED BY <1>1, <1>11, <2>1 DEF Schedule, ApTypeOK, ApAssumption
<1>12. ASSUME NEW c \in Channels, SwitchCoordinated(c) PROVE ApTypeOK'
  <2>1. calls' \in Nat /\ sinceSwitch' \in 0..Spacing /\ switches' \in Seq(Switch)
    BY <1>11, <1>12 DEF SwitchCoordinated
  <2>2. FlagDelay \in 0..FlagDelay BY DEF ApAssumption
  <2>3. flagResets' \in Seq(0..FlagDelay) BY <1>1, <1>12, <2>2 DEF SwitchCoordinated
  <2>4. QED BY <1>12, <2>1, <2>3 DEF SwitchCoordinated, ApTypeOK, tableVars, history
<1>13. ASSUME NEW c \in Channels, SwitchChannel(c) PROVE ApTypeOK'
  <2>1. calls' \in Nat /\ sinceSwitch' \in 0..Spacing /\ switches' \in Seq(Switch)
    BY <1>11, <1>13 DEF SwitchChannel, ApTypeOK
  <2>2. cleared' \in Nat BY <1>13 DEF SwitchChannel, ApTypeOK
  <2>3. QED BY <1>2, <1>13, <2>1, <2>2 DEF SwitchChannel, ApTypeOK
<1>14. CASE ApplySwitch
  <2>1. Head(switches) \in Switch /\ switches' \in Seq(Switch) BY <1>1, <1>14 DEF ApplySwitch
  <2>2. channel' \in Channels BY <1>14, <2>1 DEF ApplySwitch, Switch
  <2>3. /\ manager' \in [Sta -> AssocState] /\ htKnown' \in [Sta -> BOOLEAN] /\ resets' \in Nat
    <3>1. CASE UNCHANGED <<manager, htKnown, resets>> BY <1>1, <3>1 DEF ApTypeOK
    <3>2. CASE ResetManager BY <3>2 DEF ResetManager, ApTypeOK, AssocState
    <3>3. QED BY <1>14, <3>1, <3>2 DEF ApplySwitch, Notify
  <2>4. QED BY <1>2, <1>14, <2>1, <2>2, <2>3 DEF ApplySwitch, ApTypeOK
<1>15. CASE ResetFlag
  <2>1. flagResets' \in Seq(0..FlagDelay) BY <1>1, <1>15 DEF ResetFlag
  <2>2. QED BY <1>15, <2>1 DEF ResetFlag, ApTypeOK, tableVars, history
<1>16. CASE ApTick
  <2>1. ASSUME NEW i \in 1..Len(switches)
        PROVE  [switches[i] EXCEPT !.left = @ - 1] \in Switch
    <3>1. switches[i] \in Switch /\ switches[i].left > 0 BY <1>1, <1>16 DEF ApTick
    <3>2. switches[i].left \in 0..SwitchDelay BY <3>1 DEF Switch
    <3>3. switches[i].left - 1 \in 0..SwitchDelay BY <3>1, <3>2 DEF ApAssumption
    <3>4. \A n \in 0..SwitchDelay : [switches[i] EXCEPT !.left = n] \in Switch
      BY <3>1 DEF Switch
    <3>5. QED BY <3>3, <3>4
  <2>2. ASSUME NEW i \in 1..Len(flagResets) PROVE flagResets[i] - 1 \in 0..FlagDelay
    <3>1. flagResets[i] \in 0..FlagDelay /\ flagResets[i] > 0 BY <1>1, <1>16 DEF ApTick
    <3>2. QED BY <3>1 DEF ApAssumption
  <2>3. Len(switches) \in Nat /\ Len(flagResets) \in Nat BY <1>1
  <2>4. switches' \in Seq(Switch) BY <1>16, <2>1, <2>3 DEF ApTick
  <2>5. flagResets' \in Seq(0..FlagDelay) BY <1>16, <2>2, <2>3 DEF ApTick
  <2>6. sinceSwitch' \in 0..Spacing BY <1>16 DEF ApTick, ApTypeOK, ApAssumption
  <2>7. QED BY <1>16, <2>4, <2>5, <2>6 DEF ApTick, ApTypeOK, tableVars, history
<1>17. QED
  BY <1>6, <1>7, <1>8, <1>9, <1>10, <1>12, <1>13, <1>14, <1>15, <1>16 DEF ApNext

\* Every handler keeps the table, the manager, the queues and the 16-bit count well
\* formed, for any stations, AIDs, channels and delays.
THEOREM ApTypeCorrect == ApSpec => []ApTypeOK
<1>1. ApInit => ApTypeOK
  <2>1. EmptyTable \in Table BY DEF EmptyTable, Table
  <2>2. 0 \in 0..UintMax /\ Spacing \in 0..Spacing BY ApAssumption DEF UintMax
  <2>3. ASSUME ApInit PROVE /\ manager \in [Sta -> AssocState] /\ htKnown \in [Sta -> BOOLEAN]
                            /\ responses \in [Sta -> Seq(Aid \cup {NoAid})]
    BY <2>3 DEF ApInit, AssocState
  <2>4. ASSUME ApInit PROVE switches \in Seq(Switch) /\ flagResets \in Seq(0..FlagDelay)
    BY <2>4 DEF ApInit
  <2>5. ASSUME ApInit PROVE ApTypeOK
    <3>1. numNonHt \in 0..UintMax /\ sinceSwitch \in 0..Spacing BY <2>2, <2>5 DEF ApInit
    <3>2. staList \in Table /\ aidMap \in Table BY <2>1, <2>5 DEF ApInit
    <3>3. QED BY <2>3, <2>4, <2>5, <3>1, <3>2 DEF ApInit, ApTypeOK
  <2>6. QED BY <2>5
<1>2. ApTypeOK /\ TablesOK /\ TablesOK' /\ [ApNext]_apVars => ApTypeOK'
  <2>1. ASSUME ApTypeOK, UNCHANGED apVars PROVE ApTypeOK'
    BY <2>1 DEF ApTypeOK, apVars, tableVars, switchVars, history
  <2>2. QED BY <2>1, ApAssumption, ApStepTyped
<1>3. QED BY <1>1, <1>2, TablesInvariant, PTL DEF ApSpec

----------------------------------------------------------------------------
(* The list and the station manager. *)

Recorded(s) == manager[s] \in {"WAIT_ASSOC_TX_OK", "GOT_ASSOC_TX_OK"}

Undisturbed == failed = 0 /\ cleared = 0 /\ resets = 0

\* A refused station is never listed, so that to record it as disassociated is right.
RefusedUnlisted == \A s \in Refused : ~ Listed(s)

\* The stations listed after the table lost one entry, or none.
LEMMA ListedAfterErase ==
  ASSUME ApAssumption, TablesOK, NEW s \in Sta, NEW i \in Aid, staList[i] = s, Erase(i)
  PROVE  ~ Listed(s)' /\ \A t \in Sta \ {s} : Listed(t)' <=> Listed(t)
<1>1. \A j \in Aid : staList'[j] = IF j = i THEN NoSta ELSE staList[j] BY EraseTables
<1>2. \A j \in Aid : staList[j] = s => j = i BY DEF TablesOK, OneAidPerStation, ApAssumption
<1>3. QED BY <1>1, <1>2 DEF Listed, ApAssumption

\* The stations listed after one is accepted.
LEMMA ListedAfterAccept ==
  ASSUME ApAssumption, TablesOK, NEW s \in Sta, AcceptRequest(s)
  PROVE  Listed(s)' /\ \A t \in Sta \ {s} : Listed(t)' <=> Listed(t)
<1>1. FreeAids(s) # {} /\ SetAid(s) BY DEF AcceptRequest
<1>2. NextAid(s) \in Aid BY <1>1, NextAidFree
<1>3. QED BY <1>1, <1>2, SetAidTables DEF Listed

\* A handler that leaves the list alone leaves the listed stations.
LEMMA ListedSame ==
  ASSUME UNCHANGED staList
  PROVE  \A s \in Sta : Listed(s)' <=> Listed(s)
BY DEF Listed

\* A disassociation frees the one entry of the station.
LEMMA DeassociateErases ==
  ASSUME NEW s \in Sta, Deassociate(s)
  PROVE  \E i \in Aid : staList[i] = s /\ Erase(i)
BY DEF Deassociate

\* Every step keeps refused stations out of the list.
LEMMA RefusedStep ==
  ASSUME ApAssumption, TablesOK, RefusedUnlisted, [ApNext]_apVars
  PROVE  RefusedUnlisted'
<1>1. Refused \subseteq Sta /\ NoSta \notin Sta BY DEF ApAssumption
<1>2. ASSUME NEW s \in Sta, AcceptRequest(s) PROVE RefusedUnlisted'
  BY <1>1, <1>2, ListedAfterAccept DEF AcceptRequest, RefusedUnlisted
<1>3. ASSUME \A i \in Aid : staList'[i] \in {staList[i], NoSta} PROVE RefusedUnlisted'
  BY <1>1, <1>3 DEF RefusedUnlisted, Listed
<1>4. ASSUME NEW s \in Sta, TxFailed(s) \/ Deassociate(s) PROVE RefusedUnlisted'
  BY <1>3, <1>4 DEF TxFailed, Deassociate, Erase
<1>5. ASSUME NEW s \in Sta, RefuseRequest(s) \/ TxOk(s) PROVE RefusedUnlisted'
  BY <1>3, <1>5 DEF RefuseRequest, TxOk
<1>6. ASSUME NEW c \in Channels, SwitchCoordinated(c) \/ SwitchChannel(c) PROVE RefusedUnlisted'
  BY <1>3, <1>6 DEF SwitchCoordinated, SwitchChannel, tableVars, EmptyTable
<1>7. CASE ApplySwitch \/ ResetFlag \/ ApTick \/ UNCHANGED apVars
  BY <1>3, <1>7 DEF ApplySwitch, ResetFlag, ApTick, apVars, tableVars
<1>8. QED BY <1>2, <1>4, <1>5, <1>6, <1>7 DEF ApNext

\* No refused station is ever listed.
LEMMA RefusedInvariant == ApSpec => []RefusedUnlisted
<1>1. ApInit => RefusedUnlisted
  BY ApAssumption DEF ApInit, RefusedUnlisted, Listed, EmptyTable
<1>2. QED BY <1>1, ApAssumption, TablesInvariant, RefusedStep, PTL DEF ApSpec

\* Until a response fails or a switch disturbs them, the list of the AP and its station
\* manager name the same stations.
THEOREM ListFollowsManager == ApSpec => []ListMatchesManager
<1>1. ApInit => ListMatchesManager
  BY ApAssumption DEF ApInit, ListMatchesManager, Listed, EmptyTable
<1>2. ASSUME ApTypeOK, TablesOK, RefusedUnlisted, ListMatchesManager, [ApNext]_apVars
      PROVE  ListMatchesManager'
  <2> SUFFICES ASSUME Undisturbed', NEW t \in Sta PROVE Listed(t)' <=> Recorded(t)'
    BY DEF ListMatchesManager, Undisturbed, Recorded
  <2>1. failed \in Nat /\ cleared \in Nat /\ resets \in Nat /\ manager \in [Sta -> AssocState]
    BY <1>2 DEF ApTypeOK
  <2>2. ASSUME Undisturbed, UNCHANGED staList, Recorded(t)' <=> Recorded(t)
        PROVE  Listed(t)' <=> Recorded(t)'
    BY <1>2, <2>2, ListedSame DEF ListMatchesManager, Undisturbed, Recorded
  <2>3. Undisturbed => (Listed(t) <=> Recorded(t))
    BY <1>2 DEF ListMatchesManager, Undisturbed, Recorded
  <2>4. ASSUME NEW s \in Sta, AcceptRequest(s) PROVE Listed(t)' <=> Recorded(t)'
    <3>1. Undisturbed BY <2>4 DEF AcceptRequest, Undisturbed, history
    <3>2. manager' = [manager EXCEPT ![s] = "WAIT_ASSOC_TX_OK"] BY <2>4 DEF AcceptRequest
    <3>3. Recorded(s)' /\ (t # s => (Recorded(t)' <=> Recorded(t)))
      BY <2>1, <3>2 DEF Recorded
    <3>4. QED BY <1>2, <2>3, <2>4, <3>1, <3>3, ApAssumption, ListedAfterAccept
  <2>5. ASSUME NEW s \in Sta, RefuseRequest(s) PROVE Listed(t)' <=> Recorded(t)'
    <3>1. Undisturbed BY <2>5 DEF RefuseRequest, Undisturbed, history
    <3>2. ~ Listed(s) BY <1>2, <2>5 DEF RefuseRequest, RefusedUnlisted
    <3>3. manager' = [manager EXCEPT ![s] = "DISASSOC"] /\ UNCHANGED staList
      BY <2>5 DEF RefuseRequest
    <3>4. ~ Recorded(s)' /\ (t # s => (Recorded(t)' <=> Recorded(t)))
      BY <2>1, <3>3 DEF Recorded
    <3>5. QED BY <2>3, <3>1, <3>2, <3>3, <3>4, ListedSame
  <2>6. ASSUME NEW s \in Sta, TxOk(s) PROVE Listed(t)' <=> Recorded(t)'
    <3>1. Undisturbed /\ UNCHANGED staList BY <2>6 DEF TxOk, Undisturbed, history
    <3>2. Recorded(t)' <=> Recorded(t) BY <2>1, <2>6 DEF TxOk, Waiting, Recorded
    <3>3. QED BY <2>2, <3>1, <3>2
  <2>7. ASSUME NEW s \in Sta, TxFailed(s) PROVE FALSE
    BY <2>1, <2>7 DEF TxFailed, Undisturbed
  <2>8. ASSUME NEW s \in Sta, Deassociate(s) PROVE Listed(t)' <=> Recorded(t)'
    <3>1. Undisturbed BY <2>8 DEF Deassociate, Undisturbed, history
    <3>2. manager' = [manager EXCEPT ![s] = "DISASSOC"] BY <2>8 DEF Deassociate
    <3>3. ~ Recorded(s)' /\ (t # s => (Recorded(t)' <=> Recorded(t)))
      BY <2>1, <3>2 DEF Recorded
    <3>4. ~ Listed(s)' /\ (t # s => (Listed(t)' <=> Listed(t)))
      BY <1>2, <2>8, ApAssumption, DeassociateErases, ListedAfterErase
    <3>5. QED BY <2>3, <3>1, <3>3, <3>4
  <2>9. ASSUME NEW c \in Channels, SwitchCoordinated(c) PROVE Listed(t)' <=> Recorded(t)'
    BY <2>2, <2>9 DEF SwitchCoordinated, tableVars, history, Undisturbed, Recorded
  <2>10. ASSUME NEW c \in Channels, SwitchChannel(c) PROVE Listed(t)' <=> Recorded(t)'
    <3>1. UNCHANGED <<staList, cleared>> BY <2>1, <2>10 DEF SwitchChannel, Undisturbed
    <3>2. QED BY <2>2, <2>10, <3>1 DEF SwitchChannel, Undisturbed, Recorded
  <2>11. CASE ApplySwitch
    <3>1. UNCHANGED <<manager, resets>>
      BY <2>1, <2>11 DEF ApplySwitch, Notify, ResetManager, Undisturbed
    <3>2. QED BY <2>2, <2>11, <3>1 DEF ApplySwitch, Undisturbed, Recorded
  <2>12. CASE ResetFlag \/ ApTick \/ UNCHANGED apVars
    BY <2>2, <2>12 DEF ResetFlag, ApTick, apVars, tableVars, history, Undisturbed, Recorded
  <2>13. QED
    BY <1>2, <2>4, <2>5, <2>6, <2>7, <2>8, <2>9, <2>10, <2>11, <2>12 DEF ApNext
<1>3. QED
  BY <1>1, <1>2, ApTypeCorrect, TablesInvariant, RefusedInvariant, PTL DEF ApSpec

----------------------------------------------------------------------------
(* No AID leaks. *)

\* With as many AIDs as stations it may accept a station that asks finds a free one in every reachable
\* state, whatever failed, left, asked twice or was dropped by a switch: the fatal error of
\* GetNextAssociationId cannot happen.
THEOREM AidsAlwaysSuffice == ApSpec => []AidsSuffice
<1> DEFINE Accepted == Sta \ Refused
<1>1. ASSUME TablesOK, RefusedUnlisted PROVE AidsSuffice
  <2>1. SUFFICES ASSUME Cardinality(Accepted) <= MaxAid, NEW s \in Accepted, FreeAids(s) = {}
                 PROVE  FALSE
    BY DEF AidsSuffice
  <2>2. staList \in Table BY <1>1 DEF TablesOK
  <2>3. \A i \in Aid : staList[i] \in Accepted \ {s}
    BY <1>1, <2>1, <2>2 DEF FreeAids, Without, Table, RefusedUnlisted, Listed
  <2>4. staList \in [Aid -> Accepted \ {s}] BY <2>2, <2>3 DEF Table
  <2>5. /\ IsFiniteSet(Accepted \ {s}) /\ Cardinality(Accepted \ {s}) = Cardinality(Accepted) - 1
        /\ Cardinality(Accepted) \in Nat
    <3>1. IsFiniteSet(Sta) /\ Accepted \in SUBSET Sta BY ApAssumption
    <3>2. IsFiniteSet(Accepted) BY <3>1, FS_Subset
    <3>3. QED BY <3>2, FS_RemoveElement, FS_CardinalityType
  <2>6. MaxAid \in Nat /\ MaxAid >= 1 BY ApAssumption
  <2>7. IsFiniteSet(Aid) /\ Cardinality(Aid) = MaxAid
    <3>1. IsFiniteSet(1..MaxAid) /\ Cardinality(1..MaxAid) = IF 1 > MaxAid THEN 0 ELSE MaxAid - 1 + 1
      BY <2>6, FS_Interval
    <3>2. QED BY <2>6, <3>1 DEF Aid
  <2>8. Cardinality(Accepted \ {s}) < Cardinality(Aid) BY <2>1, <2>5, <2>6, <2>7
  <2>9. \E i, j \in Aid : i # j /\ staList[i] = staList[j]
    BY <2>4, <2>5, <2>7, <2>8, FS_PigeonHole
  <2>10. \A i \in Aid : staList[i] # NoSta BY <2>3, ApAssumption
  <2>11. QED BY <1>1, <2>9, <2>10 DEF TablesOK, OneAidPerStation
<1>2. QED BY <1>1, TablesInvariant, RefusedInvariant, PTL

----------------------------------------------------------------------------
(* HT protection. *)

\* One more, in a counter that has room.
LEMMA PlusOne ==
  ASSUME NEW n \in Nat, n < UintMax
  PROVE  Plus(n, 1) = n + 1
BY DEF Plus, UintMax

\* To add the greatest value takes one away.
LEMMA MinusOne ==
  ASSUME NEW n \in Nat, n > 0, n <= UintMax
  PROVE  Plus(n, UintMax) = n - 1
BY DEF Plus, UintMax

\* Until the manager is reset it knows of every listed station whether it has HT, so that
\* a departure is uncounted just when the arrival was counted, and the count, bounded by
\* the requests, does not wrap.
Known ==
  /\ requests <= MaxRequests
  /\ \A s \in Sta : htKnown[s] => s \notin NonHt
  /\ resets = 0 =>
       /\ numNonHt <= requests
       /\ \A s \in Sta : Listed(s) /\ s \notin NonHt => htKnown[s]

\* What a step may do to the stations that need protection.
LEMMA ListedNonHtFinite ==
  ASSUME ApAssumption
  PROVE  /\ IsFiniteSet(ListedNonHt) /\ Cardinality(ListedNonHt) \in Nat
         /\ \A S \in SUBSET ListedNonHt : Cardinality(S) <= Cardinality(ListedNonHt)
<1>1. ListedNonHt \in SUBSET Sta BY DEF ListedNonHt, ApAssumption
<1>2. IsFiniteSet(Sta) BY DEF ApAssumption
<1>3. IsFiniteSet(ListedNonHt) BY <1>1, <1>2, FS_Subset
<1>4. QED BY <1>3, FS_Subset, FS_CardinalityType

\* A handler that lists no other station and leaves the rest of the record keeps it.
LEMMA ProtectedWhenUnlisting ==
  ASSUME ApAssumption, Known, NonHtStationsAreProtected, ApTypeOK,
         \A s \in Sta : Listed(s)' => Listed(s),
         UNCHANGED <<htKnown, numNonHt, resets>>,
         requests' \in requests..MaxRequests
  PROVE  Known' /\ NonHtStationsAreProtected'
<1>1. ListedNonHt' \in SUBSET ListedNonHt BY DEF ListedNonHt, ApAssumption
<1>2. Cardinality(ListedNonHt') <= Cardinality(ListedNonHt)
  BY <1>1, ListedNonHtFinite
<1>3. Cardinality(ListedNonHt) \in Nat /\ Cardinality(ListedNonHt') \in Nat
  <2>1. IsFiniteSet(ListedNonHt) BY ListedNonHtFinite
  <2>2. IsFiniteSet(ListedNonHt') BY <1>1, <2>1, FS_Subset
  <2>3. QED BY <2>1, <2>2, FS_CardinalityType
<1>4. numNonHt \in 0..UintMax /\ requests \in Nat /\ UintMax \in Nat
  <2>1. UintMax \in Nat BY DEF UintMax
  <2>2. QED BY <2>1 DEF ApTypeOK
<1>5. NonHtStationsAreProtected' BY <1>2, <1>3, <1>4 DEF NonHtStationsAreProtected
<1>6. Known' BY <1>4 DEF Known, ApAssumption
<1>7. QED BY <1>5, <1>6

\* An accepted station is counted and known.
LEMMA AcceptProtected ==
  ASSUME ApAssumption, MaxRequests <= UintMax, ApTypeOK, TablesOK, Known,
         NonHtStationsAreProtected, NEW s \in Sta, AcceptRequest(s)
  PROVE  Known' /\ NonHtStationsAreProtected'
<1>1. /\ numNonHt \in 0..UintMax /\ requests \in Nat /\ UintMax \in Nat
      /\ htKnown \in [Sta -> BOOLEAN] /\ MaxRequests \in Nat
  <2>1. UintMax \in Nat BY DEF UintMax
  <2>2. QED BY <2>1 DEF ApTypeOK, ApAssumption
<1>2. /\ requests' = requests + 1 /\ requests' <= MaxRequests /\ resets' = resets
      /\ htKnown' = [htKnown EXCEPT ![s] = @ \/ s \notin NonHt]
      /\ numNonHt' = IF s \in NonHt THEN Plus(numNonHt, 1) ELSE numNonHt
  BY <1>1 DEF AcceptRequest, SetAid, history
<1>3. Listed(s)' /\ \A t \in Sta \ {s} : Listed(t)' <=> Listed(t) BY ListedAfterAccept
<1>4. resets = 0 => numNonHt' = IF s \in NonHt THEN numNonHt + 1 ELSE numNonHt
  <2>1. resets = 0 => numNonHt < UintMax BY <1>1, <1>2 DEF Known
  <2>2. numNonHt < UintMax => Plus(numNonHt, 1) = numNonHt + 1 BY <1>1, PlusOne
  <2>3. QED BY <1>2, <2>1, <2>2
<1>5. Known'
  <2>1. \A t \in Sta : htKnown'[t] = IF t = s THEN htKnown[s] \/ s \notin NonHt ELSE htKnown[t]
    BY <1>1, <1>2
  <2>2. \A t \in Sta : htKnown'[t] => t \notin NonHt BY <2>1 DEF Known
  <2>3. resets' = 0 => \A t \in Sta : Listed(t)' /\ t \notin NonHt => htKnown'[t]
    BY <1>2, <1>3, <2>1 DEF Known
  <2>4. resets' = 0 => numNonHt' <= requests' BY <1>1, <1>2, <1>4 DEF Known
  <2>5. QED BY <1>2, <2>2, <2>3, <2>4 DEF Known
<1>6. IsFiniteSet(ListedNonHt) /\ Cardinality(ListedNonHt) \in Nat BY ListedNonHtFinite
<1>7. CASE s \in NonHt
  <2>1. ListedNonHt' = ListedNonHt \cup {s} BY <1>3, <1>7 DEF ListedNonHt, ApAssumption
  <2>2. Cardinality(ListedNonHt') <= Cardinality(ListedNonHt) + 1
    <3>1. Cardinality(ListedNonHt \cup {s}) =
            IF s \in ListedNonHt THEN Cardinality(ListedNonHt) ELSE Cardinality(ListedNonHt) + 1
      BY <1>6, FS_AddElement
    <3>2. QED BY <1>6, <2>1, <3>1
  <2>3. Cardinality(ListedNonHt') \in Nat
    BY <1>6, <2>1, FS_AddElement, FS_CardinalityType
  <2>4. NonHtStationsAreProtected'
    BY <1>1, <1>2, <1>4, <1>6, <1>7, <2>2, <2>3 DEF NonHtStationsAreProtected
  <2>5. QED BY <1>5, <2>4
<1>8. CASE s \notin NonHt
  <2>1. ListedNonHt' = ListedNonHt BY <1>3, <1>8 DEF ListedNonHt, ApAssumption
  <2>2. QED BY <1>2, <1>4, <1>5, <1>8, <2>1 DEF NonHtStationsAreProtected
<1>9. QED BY <1>7, <1>8

\* A departing station is uncounted just when it was counted.
LEMMA DeassociateProtected ==
  ASSUME ApAssumption, ApTypeOK, TablesOK, Known, NonHtStationsAreProtected,
         NEW s \in Sta, Deassociate(s)
  PROVE  Known' /\ NonHtStationsAreProtected'
<1>1. numNonHt \in 0..UintMax /\ requests \in Nat BY DEF ApTypeOK
<1>2. /\ numNonHt' = IF htKnown[s] THEN numNonHt ELSE Plus(numNonHt, UintMax)
      /\ UNCHANGED <<htKnown, requests, resets>>
  BY DEF Deassociate, Uncount, history
<1>3. ~ Listed(s)' /\ \A t \in Sta \ {s} : Listed(t)' <=> Listed(t)
  BY DeassociateErases, ListedAfterErase
<1>4. Listed(s) BY DEF Deassociate, Listed
<1>5. IsFiniteSet(ListedNonHt) /\ Cardinality(ListedNonHt) \in Nat BY ListedNonHtFinite
<1>6. CASE htKnown[s]
  <2>1. numNonHt' = numNonHt /\ requests' \in requests..MaxRequests
    BY <1>1, <1>2, <1>6 DEF Known, ApAssumption
  <2>2. \A t \in Sta : Listed(t)' => Listed(t) BY <1>3
  <2>3. QED BY <1>2, <2>1, <2>2, ProtectedWhenUnlisting
<1>7. CASE ~ htKnown[s]
  <2>1. SUFFICES ASSUME resets = 0 PROVE Known' /\ NonHtStationsAreProtected'
    BY <1>1, <1>2 DEF Known, NonHtStationsAreProtected
  <2>2. s \in NonHt BY <1>4, <1>7, <2>1 DEF Known
  <2>3. ListedNonHt' = ListedNonHt \ {s} /\ s \in ListedNonHt
    BY <1>3, <1>4, <2>2 DEF ListedNonHt, ApAssumption
  <2>4. Cardinality(ListedNonHt') = Cardinality(ListedNonHt) - 1
    BY <1>5, <2>3, FS_RemoveElement
  <2>5. Cardinality(ListedNonHt) > 0
    BY <1>5, <2>3, FS_EmptySet
  <2>6. Cardinality(ListedNonHt) <= numNonHt BY <2>1 DEF NonHtStationsAreProtected
  <2>7. numNonHt > 0 BY <1>1, <1>5, <2>5, <2>6
  <2>8. numNonHt' = numNonHt - 1
    <3>1. UintMax \in Nat BY DEF UintMax
    <3>2. QED BY <1>1, <1>2, <1>7, <2>7, <3>1, MinusOne
  <2>9. NonHtStationsAreProtected'
    BY <1>1, <1>5, <2>4, <2>6, <2>8 DEF NonHtStationsAreProtected
  <2>10. numNonHt' <= requests' BY <1>1, <1>2, <2>1, <2>8 DEF Known
  <2>11. Known' BY <1>2, <1>3, <2>2, <2>10 DEF Known
  <2>12. QED BY <2>9, <2>11
<1>8. QED BY <1>6, <1>7

\* Every step keeps the record and the protection.
LEMMA ProtectedStep ==
  ASSUME ApAssumption, MaxRequests <= UintMax, ApTypeOK, TablesOK, Known,
         NonHtStationsAreProtected, [ApNext]_apVars
  PROVE  Known' /\ NonHtStationsAreProtected'
<1>1. requests \in requests..MaxRequests BY DEF Known, ApTypeOK, ApAssumption
<1>2. NoSta \notin Sta BY DEF ApAssumption
<1>3. ASSUME \A i \in Aid : staList'[i] \in {staList[i], NoSta},
             UNCHANGED <<htKnown, numNonHt, resets>>, requests' \in requests..MaxRequests
      PROVE  Known' /\ NonHtStationsAreProtected'
  <2>1. \A s \in Sta : Listed(s)' => Listed(s) BY <1>2, <1>3 DEF Listed
  <2>2. QED BY <1>3, <2>1, ProtectedWhenUnlisting
<1>4. ASSUME NEW s \in Sta, AcceptRequest(s) PROVE Known' /\ NonHtStationsAreProtected'
  BY <1>4, AcceptProtected
<1>5. ASSUME NEW s \in Sta, RefuseRequest(s) PROVE Known' /\ NonHtStationsAreProtected'
  <2>1. requests' \in requests..MaxRequests
    BY <1>5 DEF RefuseRequest, ApTypeOK, ApAssumption
  <2>2. QED BY <1>3, <1>5, <2>1 DEF RefuseRequest, history
<1>6. ASSUME NEW s \in Sta, TxOk(s) PROVE Known' /\ NonHtStationsAreProtected'
  BY <1>1, <1>3, <1>6 DEF TxOk, history
<1>7. ASSUME NEW s \in Sta, TxFailed(s) PROVE Known' /\ NonHtStationsAreProtected'
  BY <1>1, <1>3, <1>7 DEF TxFailed, Erase
<1>8. ASSUME NEW s \in Sta, Deassociate(s) PROVE Known' /\ NonHtStationsAreProtected'
  BY <1>8, DeassociateProtected
<1>9. ASSUME NEW c \in Channels, SwitchCoordinated(c) PROVE Known' /\ NonHtStationsAreProtected'
  BY <1>1, <1>3, <1>9 DEF SwitchCoordinated, tableVars, history
<1>10. ASSUME NEW c \in Channels, SwitchChannel(c) PROVE Known' /\ NonHtStationsAreProtected'
  BY <1>1, <1>3, <1>10 DEF SwitchChannel, EmptyTable
<1>11. CASE ApplySwitch
  <2>1. CASE UNCHANGED <<manager, htKnown, resets>>
    BY <1>1, <1>3, <1>11, <2>1 DEF ApplySwitch
  <2>2. CASE ResetManager
    BY <1>1, <1>11, <2>2 DEF ApplySwitch, ResetManager, Known, NonHtStationsAreProtected, ApTypeOK
  <2>3. QED BY <1>11, <2>1, <2>2 DEF ApplySwitch, Notify
<1>12. CASE ResetFlag \/ ApTick \/ UNCHANGED apVars
  BY <1>1, <1>3, <1>12 DEF ResetFlag, ApTick, apVars, tableVars, history
<1>13. QED
  BY <1>4, <1>5, <1>6, <1>7, <1>8, <1>9, <1>10, <1>11, <1>12 DEF ApNext

\* As long as the 16-bit count cannot wrap and the manager was never reset, every listed
\* station without HT is counted, so that HT protection is on: failed responses and
\* repeated requests leave the count too high, never too low.
THEOREM NonHtAlwaysProtected ==
  ASSUME MaxRequests <= UintMax
  PROVE  ApSpec => []NonHtStationsAreProtected
<1>1. ApInit => Known /\ NonHtStationsAreProtected
  <2>1. ASSUME ApInit PROVE ListedNonHt = {}
    BY <2>1, ApAssumption DEF ApInit, ListedNonHt, Listed, EmptyTable
  <2>2. ASSUME ApInit PROVE NonHtStationsAreProtected
    <3>1. Cardinality(ListedNonHt) = 0 BY <2>1, <2>2, FS_EmptySet
    <3>2. QED BY <2>2, <3>1 DEF ApInit, NonHtStationsAreProtected
  <2>3. ASSUME ApInit PROVE Known
    BY <2>3, ApAssumption DEF ApInit, Known, Listed, EmptyTable
  <2>4. QED BY <2>2, <2>3
<1>2. QED
  BY <1>1, ApAssumption, ApTypeCorrect, TablesInvariant, ProtectedStep, PTL DEF ApSpec

----------------------------------------------------------------------------
(* A coordinated switch keeps the stations.  Whatever is scheduled belongs to the last     *)
(* call, the clock tells how much of it is left, and the flag outlasts the switch.         *)

LastCallOnly ==
  /\ \A i \in 1..Len(switches) : /\ switches[i].left + sinceSwitch = SwitchDelay
                                 /\ switches[i].coordinated => coordinated
  /\ \A i \in 1..Len(flagResets) : flagResets[i] + sinceSwitch = FlagDelay

\* Sequences: an element added, the first taken, and one added to nothing.
LEMMA ApAppended ==
  ASSUME NEW S, NEW q \in Seq(S), NEW x \in S
  PROVE  Len(q) = 0 => \A i \in 1..Len(Append(q, x)) : Append(q, x)[i] = x
<1>1. Len(Append(q, x)) = Len(q) + 1 /\ Append(q, x)[Len(q) + 1] = x OBVIOUS
<1>2. Len(q) = 0 => Len(Append(q, x)) = 1 /\ Append(q, x)[1] = x BY <1>1
<1>3. QED BY <1>2

LEMMA ApTaken ==
  ASSUME NEW S, NEW q \in Seq(S), q # <<>>
  PROVE  /\ Head(q) = q[1] /\ 1 \in 1..Len(q) /\ Head(q) \in S
         /\ \A i \in 1..Len(Tail(q)) : \E k \in 1..Len(q) : Tail(q)[i] = q[k]
<1>1. \A i \in 1..Len(Tail(q)) : i + 1 \in 1..Len(q) /\ Tail(q)[i] = q[i + 1] OBVIOUS
<1>2. Head(q) = q[1] /\ 1 \in 1..Len(q) /\ Head(q) \in S OBVIOUS
<1>3. QED BY <1>1, <1>2

\* What is scheduled, as the typing has it.
LEMMA ScheduleTyped ==
  ASSUME ApTypeOK
  PROVE  /\ switches \in Seq(Switch) /\ flagResets \in Seq(0..FlagDelay)
         /\ \A i \in 1..Len(switches) : switches[i].left \in 0..SwitchDelay
         /\ \A i \in 1..Len(flagResets) : flagResets[i] \in 0..FlagDelay
         /\ sinceSwitch \in 0..Spacing /\ coordinated \in BOOLEAN
         /\ SwitchDelay \in Nat \ {0} /\ FlagDelay \in Nat /\ Spacing \in Nat /\ FlagDelay > SwitchDelay
<1>1. switches \in Seq(Switch) /\ flagResets \in Seq(0..FlagDelay) BY DEF ApTypeOK
<1>2. ASSUME NEW S, NEW q \in Seq(S), NEW i \in 1..Len(q) PROVE q[i] \in S OBVIOUS
<1>3. \A i \in 1..Len(switches) : switches[i] \in Switch BY <1>1, <1>2
<1>4. \A i \in 1..Len(switches) : switches[i].left \in 0..SwitchDelay BY <1>3 DEF Switch
<1>5. \A i \in 1..Len(flagResets) : flagResets[i] \in 0..FlagDelay BY <1>1, <1>2
<1>6. QED BY <1>1, <1>4, <1>5, ApAssumption DEF ApTypeOK

\* When a call comes, nothing of the one before is left.
LEMMA CallFindsNothing ==
  ASSUME Spacing > FlagDelay, ApTypeOK, LastCallOnly, sinceSwitch = Spacing
  PROVE  Len(switches) = 0 /\ Len(flagResets) = 0
<1>1. \A i \in 1..Len(switches) : FALSE BY ScheduleTyped DEF LastCallOnly
<1>2. \A i \in 1..Len(flagResets) : FALSE BY ScheduleTyped DEF LastCallOnly
<1>3. ASSUME NEW S, NEW q \in Seq(S), \A i \in 1..Len(q) : FALSE PROVE Len(q) = 0
  BY <1>3
<1>4. QED BY <1>1, <1>2, <1>3, ScheduleTyped

\* Calls, their events and the clock keep it so.
LEMMA LastCallStep ==
  ASSUME Spacing > FlagDelay, ApTypeOK, LastCallOnly, [ApNext]_apVars
  PROVE  LastCallOnly'
<1>1. CASE UNCHANGED <<switches, flagResets, sinceSwitch, coordinated>> BY <1>1 DEF LastCallOnly
<1>2. ASSUME NEW c \in Channels, NEW flag \in BOOLEAN, Schedule(c, flag)
      PROVE  /\ \A i \in 1..Len(switches') : /\ switches'[i].left + sinceSwitch' = SwitchDelay
                                             /\ switches'[i].coordinated = flag
             /\ sinceSwitch' = 0 /\ Len(flagResets) = 0
  <2> DEFINE x == [to |-> c, left |-> SwitchDelay, coordinated |-> flag]
  <2>1. x \in Switch /\ x.left = SwitchDelay /\ x.coordinated = flag BY ApAssumption DEF Switch
  <2>2. switches' = Append(switches, x) /\ sinceSwitch = Spacing /\ sinceSwitch' = 0
    BY <1>2 DEF Schedule
  <2> HIDE DEF x
  <2>3. \A i \in 1..Len(switches') : switches'[i] = x
    BY <2>1, <2>2, CallFindsNothing, ScheduleTyped, ApAppended
  <2>4. QED BY <2>1, <2>2, <2>3, CallFindsNothing, ScheduleTyped
<1>3. ASSUME NEW c \in Channels, SwitchCoordinated(c) PROVE LastCallOnly'
  <2>1. Schedule(c, TRUE) /\ coordinated' /\ flagResets' = Append(flagResets, FlagDelay)
    BY <1>3 DEF SwitchCoordinated
  <2>2. FlagDelay \in 0..FlagDelay /\ FlagDelay + 0 = FlagDelay BY ApAssumption
  <2> DEFINE T == 0..FlagDelay
  <2>3. FlagDelay \in T /\ flagResets \in Seq(T) BY <2>2, ScheduleTyped
  <2>4. TRUE \in BOOLEAN OBVIOUS
  <2>5. /\ \A i \in 1..Len(switches') : /\ switches'[i].left + sinceSwitch' = SwitchDelay
                                        /\ switches'[i].coordinated = TRUE
        /\ sinceSwitch' = 0 /\ Len(flagResets) = 0
    BY <1>2, <2>1, <2>4
  <2> HIDE DEF T
  <2>6. \A i \in 1..Len(flagResets') : flagResets'[i] = FlagDelay
    BY <2>1, <2>3, <2>5, ApAppended
  <2>7. \A i \in 1..Len(flagResets') : flagResets'[i] + sinceSwitch' = FlagDelay
    BY <2>2, <2>5, <2>6
  <2>8. QED BY <2>1, <2>5, <2>7 DEF LastCallOnly
<1>4. ASSUME NEW c \in Channels, SwitchChannel(c) PROVE LastCallOnly'
  <2>1. Schedule(c, coordinated) /\ UNCHANGED <<coordinated, flagResets>> /\ coordinated \in BOOLEAN
    BY <1>4, ScheduleTyped DEF SwitchChannel
  <2>2. \A i \in 1..Len(flagResets') : FALSE BY <1>2, <2>1
  <2>3. QED BY <1>2, <2>1, <2>2 DEF LastCallOnly
<1>5. CASE ApplySwitch
  <2>1. switches # <<>> /\ switches' = Tail(switches) /\ UNCHANGED <<flagResets, sinceSwitch, coordinated>>
    BY <1>5 DEF ApplySwitch
  <2>2. \A i \in 1..Len(switches') : \E k \in 1..Len(switches) : switches'[i] = switches[k]
    BY <2>1, ScheduleTyped, ApTaken
  <2>3. QED BY <2>1, <2>2 DEF LastCallOnly
<1>6. CASE ResetFlag
  <2>1. /\ flagResets # <<>> /\ Head(flagResets) = 0 /\ flagResets' = Tail(flagResets)
        /\ UNCHANGED <<switches, sinceSwitch>>
    BY <1>6 DEF ResetFlag
  <2>2. Head(flagResets) = flagResets[1] /\ 1 \in 1..Len(flagResets)
        /\ \A i \in 1..Len(flagResets') : \E k \in 1..Len(flagResets) : flagResets'[i] = flagResets[k]
    BY <2>1, ScheduleTyped, ApTaken
  <2>3. 0 + sinceSwitch = FlagDelay BY <2>1, <2>2 DEF LastCallOnly
  <2>4. \A i \in 1..Len(switches) : FALSE
    <3>1. sinceSwitch = FlagDelay BY <2>3, ScheduleTyped
    <3>2. ASSUME NEW i \in 1..Len(switches) PROVE FALSE
      <4>1. switches[i].left \in 0..SwitchDelay /\ switches[i].left + FlagDelay = SwitchDelay
        BY <3>1, ScheduleTyped DEF LastCallOnly
      <4>2. QED BY <4>1, ApAssumption
    <3>3. QED BY <3>2
  <2>5. QED BY <2>1, <2>2, <2>4 DEF LastCallOnly
<1>7. CASE ApTick
  <2>1. /\ switches' = [i \in 1..Len(switches) |-> [switches[i] EXCEPT !.left = @ - 1]]
        /\ flagResets' = [i \in 1..Len(flagResets) |-> flagResets[i] - 1]
        /\ sinceSwitch' = (IF sinceSwitch < Spacing THEN sinceSwitch + 1 ELSE sinceSwitch)
        /\ coordinated' = coordinated
    BY <1>7 DEF ApTick
  <2>2. Len(switches) \in Nat /\ Len(flagResets) \in Nat BY ScheduleTyped
  <2>3. Len(switches') = Len(switches) /\ Len(flagResets') = Len(flagResets) BY <2>1, <2>2
  <2>4. \A i \in 1..Len(switches) : /\ switches'[i].left = switches[i].left - 1
                                    /\ switches'[i].coordinated = switches[i].coordinated
    <3>1. \A m \in Switch : /\ [m EXCEPT !.left = @ - 1].left = m.left - 1
                            /\ [m EXCEPT !.left = @ - 1].coordinated = m.coordinated
      BY DEF Switch
    <3>2. \A i \in 1..Len(switches) : switches[i] \in Switch BY ScheduleTyped
    <3>3. QED BY <2>1, <3>1, <3>2
  <2>5. CASE sinceSwitch = Spacing
    <3>1. Len(switches) = 0 /\ Len(flagResets) = 0 BY <2>5, CallFindsNothing
    <3>2. QED BY <2>3, <3>1 DEF LastCallOnly
  <2>6. CASE sinceSwitch # Spacing
    <3>1. sinceSwitch' = sinceSwitch + 1 /\ sinceSwitch \in Nat BY <2>1, <2>6, ScheduleTyped
    <3>2. ASSUME NEW l \in Nat, NEW k \in Nat, NEW d \in Nat, l + k = d PROVE (l - 1) + (k + 1) = d
      BY <3>2
    <3>3. ASSUME NEW i \in 1..Len(switches') PROVE switches'[i].left + sinceSwitch' = SwitchDelay
      <4>1. switches[i].left \in Nat /\ SwitchDelay \in Nat /\ switches[i].left + sinceSwitch = SwitchDelay
        BY <2>3, <3>3, ScheduleTyped DEF LastCallOnly
      <4>2. (switches[i].left - 1) + (sinceSwitch + 1) = SwitchDelay BY <3>1, <3>2, <4>1
      <4>3. QED BY <2>3, <2>4, <3>1, <3>3, <4>2
    <3>4. ASSUME NEW i \in 1..Len(flagResets') PROVE flagResets'[i] + sinceSwitch' = FlagDelay
      <4>1. flagResets[i] \in Nat /\ FlagDelay \in Nat /\ flagResets[i] + sinceSwitch = FlagDelay
        BY <2>3, <3>4, ScheduleTyped DEF LastCallOnly
      <4>2. (flagResets[i] - 1) + (sinceSwitch + 1) = FlagDelay BY <3>1, <3>2, <4>1
      <4>3. QED BY <2>1, <2>3, <3>1, <3>4, <4>2
    <3>5. QED BY <2>1, <2>3, <2>4, <3>3, <3>4 DEF LastCallOnly
  <2>7. QED BY <2>5, <2>6
<1>8. QED BY <1>1, <1>3, <1>4, <1>5, <1>6, <1>7
      DEF ApNext, AcceptRequest, RefuseRequest, TxOk, TxFailed, Deassociate, switchVars, apVars

\* A switch made as a coordinated one leaves what the manager knows of the stations, if the
\* callers leave more than the life of the flag between two switches: the flag is still set
\* when the PHY notifies the MAC.
THEOREM CoordinatedKeepsStations ==
  ASSUME Spacing > FlagDelay
  PROVE  ApSpec => CoordinatedSwitchKeepsStations
<1> DEFINE Kept == ApplySwitch /\ Head(switches).coordinated => UNCHANGED manager
<1>1. ApInit => LastCallOnly BY DEF ApInit, LastCallOnly
<1>2. ApTypeOK /\ LastCallOnly /\ [ApNext]_apVars => LastCallOnly' BY LastCallStep
<1>3. ApTypeOK /\ LastCallOnly => Kept
  <2> SUFFICES ASSUME ApTypeOK, LastCallOnly, ApplySwitch, Head(switches).coordinated
               PROVE  UNCHANGED manager
    OBVIOUS
  <2>1. Head(switches) = switches[1] /\ 1 \in 1..Len(switches)
    BY ScheduleTyped, ApTaken DEF ApplySwitch
  <2>2. coordinated BY <2>1 DEF LastCallOnly
  <2>3. QED BY <2>2 DEF ApplySwitch, Notify
<1>4. QED BY <1>1, <1>2, <1>3, ApTypeCorrect, PTL DEF ApSpec, CoordinatedSwitchKeepsStations
=============================================================================
