---------------------------- MODULE ChannelHopping ----------------------------
(***************************************************************************)
(* StaChannelHoppingManager (contrib/sta-channel-hopping) over StaWifiMac:  *)
(* it hears of each association and disassociation, tries to reconnect a    *)
(* station some time after it lost its AP, and, when a health check finds   *)
(* the station without an AP or with a useless one, recovers it by force.   *)
(* The MAC scans and reconnects by itself meanwhile: neither asks the other. *)
(*                                                                         *)
(* APs of another band than the station's are no APs here.  Which of the    *)
(* others is best by SNR, or closest, is a free choice.  The longer timeouts *)
(* a recovery sets in the MAC keep the order of the delays and are left out. *)
(***************************************************************************)
EXTENDS StaWifiMac

CONSTANTS ScanDelay,   \* m_scanningDelay, in ticks
          GraceBuffer, \* the 2 s for an association to complete
          Cooldown,    \* m_emergencyReconnectCooldown
          MaxHighLoss  \* m_maxConsecutiveHighLoss

ASSUME HopAssumption ==
  /\ ScanDelay \in Nat \ {0} /\ GraceBuffer \in Nat
  /\ Cooldown \in Nat /\ Cooldown > LeaveDelay
  /\ MaxHighLoss \in Nat \ {0}

VARIABLES hopEnabled,     \* m_enabled
          roamEvent,      \* m_roamingEvent
          recovery,       \* the scheduled CompleteEmergencyReconnect, or NoRecovery
          sinceDeAssoc,   \* ticks since m_lastDisassociation, up to Grace
          sinceEmergency, \* ticks since m_lastEmergencyReconnect, up to Cooldown
          uptime,         \* ticks since the start, up to ScanDelay
          highLoss,       \* m_consecutiveHighLossCount, up to MaxHighLoss
          rssi            \* the station manager has an RSSI of the AP last joined

hopTimers == <<roamEvent, recovery, sinceDeAssoc, sinceEmergency, uptime>>
hopVars == <<hopEnabled, hopTimers, highLoss, rssi>>
allVars == <<staVars, hopVars>>

Grace == ScanDelay + GraceBuffer
NoRecovery == [target |-> NoAp, left |-> Off]
Recovery == [target : AP, left : 0..LeaveDelay]

HopTypeOK ==
  /\ StaTypeOK
  /\ hopEnabled \in BOOLEAN
  /\ roamEvent \in Timer(ScanDelay)
  /\ recovery \in Recovery \cup {NoRecovery}
  /\ sinceDeAssoc \in 0..Grace /\ sinceEmergency \in 0..Cooldown /\ uptime \in 0..ScanDelay
  /\ highLoss \in 0..MaxHighLoss
  /\ rssi \in BOOLEAN

HopInit ==
  /\ StaInit
  /\ hopEnabled = TRUE
  /\ roamEvent = Off /\ recovery = NoRecovery
  /\ sinceDeAssoc = 0 /\ sinceEmergency = 0 /\ uptime = 0
  /\ highLoss = 0
  /\ rssi = FALSE

----------------------------------------------------------------------------
(* What the manager hears from the MAC. *)

\* Mutant: the attempt scheduled before is left to run.
OnAssociationKeeping == UNCHANGED roamEvent

\* The MAC is associated: roamEvent.
OnAssociation == roamEvent' = Off

\* The MAC has lost its AP; a disabled manager does not note it: roamEvent, sinceDeAssoc.
OnDisassociation ==
  IF hopEnabled THEN roamEvent' = ScanDelay /\ sinceDeAssoc' = 0
                ELSE UNCHANGED <<roamEvent, sinceDeAssoc>>

HopReceiveAssocResp(a) ==
  /\ ReceiveAssocResp(a)
  /\ IF ~Associated /\ state' = "ASSOCIATED"
     THEN OnAssociation /\ rssi' = TRUE
     ELSE UNCHANGED <<roamEvent, rssi>>
  /\ UNCHANGED <<hopEnabled, recovery, sinceDeAssoc, sinceEmergency, uptime, highLoss>>

\* The association ends.
HopDisassociated ==
  /\ DisassociatedEvent
  /\ OnDisassociation
  /\ UNCHANGED <<hopEnabled, recovery, sinceEmergency, uptime, highLoss, rssi>>

HopForcedDisassociate ==
  /\ ForcedDisassociate
  /\ OnDisassociation
  /\ UNCHANGED <<hopEnabled, recovery, sinceEmergency, uptime, highLoss, rssi>>

\* A switch of the PHY ends it too, and resets the station manager.
HopNotifyChannelSwitching ==
  /\ NotifyChannelSwitching
  /\ IF Associated THEN OnDisassociation ELSE UNCHANGED <<roamEvent, sinceDeAssoc>>
  /\ rssi' = FALSE
  /\ UNCHANGED <<hopEnabled, recovery, sinceEmergency, uptime, highLoss>>

\* Of everything else the MAC does the manager hears nothing.
StaUnheard ==
  \/ \E a \in AP : \/ NotifyApInfo(a) \/ ScanningTimeout(a)
                   \/ ApReceivesRequest(a) \/ ApReceivesDisassociation(a)
                   \/ ReceiveRefusal(a) \/ ApFrameLost(a)
                   \/ CallInitiateRoaming(a) \/ CallAssociateToAp(a)
  \/ \E i \in 1..Len(roams) : DoInitiateRoaming(i) \/ DoInitiateRoamingBusy(i)
  \/ AssocRequestTimeout \/ MissedBeacons \/ StaFrameLost \/ LoseBeacons

----------------------------------------------------------------------------
(* The scheduled attempt. *)

\* Nothing to do when the station is associated already; without a suitable AP in the
\* beacon cache, try again.
AttemptRoaming ==
  /\ ~asserted /\ roamEvent = 0
  /\ \/ /\ Associated
        /\ roamEvent' = Off
        /\ UNCHANGED <<state, bssid, chan, switching, assocTimer, staQueue>>
     \/ /\ ~Associated
        /\ roamEvent' = ScanDelay
        /\ UNCHANGED <<state, bssid, chan, switching, assocTimer, staQueue>>
     \/ /\ ~Associated
        /\ roamEvent' = Off
        /\ \E a \in AP : Associate(a)
  /\ UNCHANGED <<lastBssid, watchdog, disassociating, roams, autoReconnect, heard, apQueue,
                 listed, asserted, counters, hopEnabled, recovery, sinceDeAssoc,
                 sinceEmergency, uptime, highLoss, rssi>>

----------------------------------------------------------------------------
(* The health check. *)

\* The current AP is the one last joined, associated or not.
Candidates == AP \ {lastBssid}

\* Tell the old AP and move LeaveDelay later: sinceEmergency, recovery, staQueue.
EmergencyReconnect ==
  /\ sinceEmergency' = 0
  /\ \/ Candidates = {} /\ UNCHANGED <<recovery, staQueue>>
     \/ \E a \in Candidates :
          /\ recovery' = [target |-> a, left |-> LeaveDelay]
          /\ IF Associated THEN Send("disassoc", lastBssid) ELSE UNCHANGED staQueue

Cooled == sinceEmergency = Cooldown

Checked == ~asserted /\ hopEnabled /\ uptime = ScanDelay

\* What no health check changes.
checkUnchanged == <<state, bssid, lastBssid, chan, switching, assocTimer, watchdog,
                    disassociating, roams, autoReconnect, heard, apQueue, listed, asserted,
                    lost, missed, hopEnabled, roamEvent, sinceDeAssoc, uptime, rssi>>

\* Mutant: whether the station is associated is not asked.
WithoutApAnyhow == sinceDeAssoc = Grace /\ Cooled

\* The station has no AP, and the manager's own attempt had its time.
WithoutAp == ~Associated /\ sinceDeAssoc = Grace /\ Cooled

\* The station is associated with an AP it has no RSSI of.
Orphaned == Associated /\ ~rssi /\ Cooled

CheckRecovers ==
  /\ Checked /\ (WithoutAp \/ Orphaned)
  /\ EmergencyReconnect
  /\ UNCHANGED <<checkUnchanged, calls, highLoss>>

\* The count is kept while the cooldown holds the recovery back.
CheckHighLoss ==
  /\ Checked /\ Associated /\ rssi
  /\ Call
  /\ IF highLoss + 1 >= MaxHighLoss /\ Cooled
     THEN EmergencyReconnect /\ highLoss' = 0
     ELSE /\ highLoss' = IF highLoss < MaxHighLoss THEN highLoss + 1 ELSE highLoss
          /\ UNCHANGED <<recovery, sinceEmergency, staQueue>>
  /\ UNCHANGED checkUnchanged

CheckLowLoss ==
  /\ Checked /\ Associated /\ rssi /\ highLoss # 0
  /\ highLoss' = 0
  /\ UNCHANGED <<checkUnchanged, calls, recovery, sinceEmergency, staQueue>>

\* Nothing cancels it, and nothing looks at what the MAC did meanwhile.
CompleteEmergencyReconnect ==
  /\ ~asserted /\ recovery.left = 0
  /\ Reconnect(recovery.target)
  /\ recovery' = NoRecovery
  /\ UNCHANGED <<lastBssid, watchdog, disassociating, autoReconnect, heard, apQueue, listed,
                 asserted, counters, hopEnabled, roamEvent, sinceDeAssoc, sinceEmergency,
                 uptime, highLoss, rssi>>

\* Enable: what is scheduled stays scheduled.
EnableHopping(enable) ==
  /\ Call /\ hopEnabled # enable
  /\ hopEnabled' = enable
  /\ UNCHANGED <<state, bssid, lastBssid, chan, switching, assocTimer, watchdog,
                 disassociating, roams, autoReconnect, heard, staQueue, apQueue, listed,
                 asserted, lost, missed, hopTimers, highLoss, rssi>>

----------------------------------------------------------------------------
(* Time and the whole. *)

CountUp(t, max) == IF t < max THEN t + 1 ELSE t

HopTick ==
  /\ StaTick
  /\ roamEvent # 0 /\ recovery.left # 0
  /\ roamEvent' = CountDown(roamEvent)
  /\ recovery' = [recovery EXCEPT !.left = CountDown(@)]
  /\ sinceDeAssoc' = CountUp(sinceDeAssoc, Grace)
  /\ sinceEmergency' = CountUp(sinceEmergency, Cooldown)
  /\ uptime' = CountUp(uptime, ScanDelay)
  /\ UNCHANGED <<hopEnabled, highLoss, rssi>>

HopStep ==
  \/ StaUnheard /\ UNCHANGED hopVars
  \/ \E a \in AP : HopReceiveAssocResp(a)
  \/ HopDisassociated \/ HopForcedDisassociate \/ HopNotifyChannelSwitching
  \/ AttemptRoaming
  \/ CheckRecovers \/ CheckHighLoss \/ CheckLowLoss
  \/ CompleteEmergencyReconnect
  \/ \E enable \in BOOLEAN : EnableHopping(enable)

HopNext == HopStep \/ HopTick

HopSpec == HopInit /\ [][HopNext]_allVars

\* What the simulator has scheduled for this tick.
RunDue ==
  \/ HopDisassociated \/ HopNotifyChannelSwitching
  \/ AttemptRoaming \/ CompleteEmergencyReconnect
  \/ /\ \/ AssocRequestTimeout \/ MissedBeacons
        \/ \E i \in 1..Len(roams) : DoInitiateRoaming(i)
     /\ UNCHANGED hopVars

\* What the medium delivers or loses: queued frames, beacons to a scanning station.
Transmit ==
  \/ \E a \in AP : HopReceiveAssocResp(a)
  \/ /\ \/ StaFrameLost
        \/ \E a \in AP : \/ ApReceivesRequest(a) \/ ApReceivesDisassociation(a)
                         \/ ApFrameLost(a) \/ NotifyApInfo(a) \/ ScanningTimeout(a)
     /\ UNCHANGED hopVars

\* Nobody has to call anything, or to make a health check.  In one tick only finitely
\* much is due or queued, so one condition each is enough.
HopFairness == WF_allVars(HopTick) /\ WF_allVars(RunDue) /\ WF_allVars(Transmit)

FairHopSpec == HopSpec /\ HopFairness

----------------------------------------------------------------------------
(* Properties. *)

\* The manager never has an attempt to reconnect pending for a station that is associated,
\* whoever reconnected it.
NoAttemptWhileAssociated == Associated => roamEvent = Off

\* A health check never takes an associated station for an orphan: every association
\* comes with an RSSI of its AP and ends before the station manager forgets it.
AssociatedStationsAreHeard == Associated => rssi

\* From some time on, no tick passes while a frame waits or the station scans.
HopMediumIsPrompt ==
  <>[][HopTick => /\ staQueue = <<>> /\ \A a \in AP : apQueue[a] = <<>>
                  /\ state # "SCANNING"]_allVars

\* The scanning of the MAC, the manager's attempts and its recoveries do not keep each
\* other from reconnecting the station: when calls and faults have stopped, it ends up
\* associated for good, unless an assertion stopped the simulation.
EventuallyReconnected == HopMediumIsPrompt => <>[](asserted \/ Associated)

\* However recoveries, attempts, roams and the MAC's own scanning overlap, the AP a settled
\* station is associated with lists it, unless a frame was lost on the right channel.
RecoveredStationIsListed == recovery = NoRecovery => ListedWhenAssociated
===============================================================================
