------------------------------- MODULE LeverApi -------------------------------
(***************************************************************************)
(* The levers of each node (contrib/lever-api): a LeverConfig fires a trace *)
(* when a setter is called, and a started LeverApi applies what the trace   *)
(* carries to the node's PHY (src/wifi/model/wifi-phy.cc).                  *)
(*                                                                         *)
(* A channel change meets the PHY in two places.  LeverApi tries again 5 ms *)
(* later while the PHY is busy; WifiPhy puts a change off to the end of a   *)
(* transmission.  Both keep the channel they were called with.  What else   *)
(* the PHY is doing at a call is a free choice.                             *)
(***************************************************************************)
EXTENDS Naturals, FiniteSets

CONSTANTS Node,       \* nodes with a PHY, a LeverConfig and a LeverApi
          Channel,    \* channel settings, as decoded from a channel number
          Level,      \* values of the other levers: power, CCA threshold, sensitivity
          MaxChanges  \* bound on the calls of LeverConfig and LeverApi

ASSUME LeverAssumption == MaxChanges \in Nat

VARIABLES level,      \* the LeverConfig's power, CCA threshold and RX sensitivity
          configured, \* the LeverConfig's channel
          running,    \* whether the LeverApi is connected to the traces
          phyLevel,   \* the PHY's power, CCA threshold and RX sensitivity
          phyChannel, \* the PHY's operating channel
          retries,    \* per channel, the retries OnChannelSettingsChanged has scheduled
          postponed,  \* per channel, the changes the PHY has put off
          switching,  \* NotifyChannelSwitching is scheduled, the PHY is SWITCHING
          overlapped, \* history: a change was asked for while an earlier one was under way
          changes     \* counted against the bound

leverVars == <<level, configured, running, phyLevel, phyChannel, retries, postponed,
               switching, overlapped, changes>>
configVars == <<level, configured, running, phyLevel, overlapped, changes>>

LeverTypeOK ==
  /\ level \in [Node -> Level] /\ phyLevel \in [Node -> Level]
  /\ configured \in [Node -> Channel] /\ phyChannel \in [Node -> Channel]
  /\ running \in [Node -> BOOLEAN]
  /\ retries \in [Node -> [Channel -> Nat]] /\ postponed \in [Node -> [Channel -> Nat]]
  /\ switching \in [Node -> BOOLEAN]
  /\ overlapped \in [Node -> BOOLEAN]
  /\ changes \in Nat

LeverInit ==
  /\ level \in [Node -> Level] /\ phyLevel \in [Node -> Level]
  /\ configured \in [Node -> Channel] /\ phyChannel \in [Node -> Channel]
  /\ running = [n \in Node |-> FALSE]
  /\ retries = [n \in Node |-> [c \in Channel |-> 0]] /\ postponed = retries
  /\ switching = [n \in Node |-> FALSE]
  /\ overlapped = [n \in Node |-> FALSE]
  /\ changes = 0

----------------------------------------------------------------------------
(* WifiPhy. *)

\* A change put off means that the PHY transmits, or has just stopped.
PutOff(n) == \E c \in Channel : postponed[n][c] > 0

\* No change of channel is on its way to the PHY.
Quiet(n) == ~PutOff(n) /\ \A c \in Channel : retries[n][c] = 0

\* The setting the PHY is on is left alone, if it is written the same way: an automatic
\* width is not the width it stands for.
AlreadyOn(n, c) == c = phyChannel[n] /\ UNCHANGED <<phyChannel, switching>>

\* DoChannelSwitch; the MAC hears of it when the switch is over: phyChannel, switching.
SwitchPhy(n, c) ==
  /\ phyChannel' = [phyChannel EXCEPT ![n] = c]
  /\ switching' = [switching EXCEPT ![n] = TRUE]

\* Mutant: a change during a transmission is dropped, as it is in sleep mode.
SetOperatingChannelOrDrop(n, c) ==
  \/ ~PutOff(n) /\ SwitchPhy(n, c) /\ UNCHANGED postponed
  \/ AlreadyOn(n, c) /\ UNCHANGED postponed
  \/ ~switching[n] /\ UNCHANGED <<postponed, phyChannel, switching>>

\* SetOperatingChannel: reception is aborted, a transmission is not.
SetOperatingChannel(n, c) ==
  \/ (switching[n] \/ ~PutOff(n)) /\ SwitchPhy(n, c) /\ UNCHANGED postponed
  \/ AlreadyOn(n, c) /\ UNCHANGED postponed
  \/ /\ ~switching[n]
     /\ postponed' = [postponed EXCEPT ![n][c] = @ + 1]
     /\ UNCHANGED <<phyChannel, switching>>

\* Mutant: the end of any transmission makes a change, asked for or not.
EndOfTxUnasked(n, c) ==
  /\ postponed' = [postponed EXCEPT ![n][c] = @ - 1]
  /\ SwitchPhy(n, c) \/ AlreadyOn(n, c)
  /\ UNCHANGED <<configVars, retries>>

\* The transmission is over; nothing can start before the changes put off are made.
EndOfTx(n, c) ==
  /\ postponed[n][c] > 0
  /\ postponed' = [postponed EXCEPT ![n][c] = @ - 1]
  /\ SwitchPhy(n, c) \/ AlreadyOn(n, c)
  /\ UNCHANGED <<configVars, retries>>

SwitchOver(n) ==
  /\ switching[n] /\ ~PutOff(n)
  /\ switching' = [switching EXCEPT ![n] = FALSE]
  /\ UNCHANGED <<configVars, phyChannel, retries, postponed>>

----------------------------------------------------------------------------
(* LeverApi. *)

\* OnChannelSettingsChanged: a PHY that transmits, receives or switches is left alone
\* for 5 ms, any other takes the channel at once: retries, phyChannel, switching.
OnChannelSettingsChanged(n, c) ==
  \/ /\ retries' = [retries EXCEPT ![n][c] = @ + 1]
     /\ UNCHANGED <<phyChannel, switching>>
  \/ /\ ~switching[n] /\ ~PutOff(n)
     /\ SwitchPhy(n, c) \/ AlreadyOn(n, c)
     /\ UNCHANGED retries

\* The scheduled retry; one that finds the PHY busy is scheduled again.  Nothing
\* cancels it: a newer channel does not, nor StopApplication.
Retry(n, c) ==
  /\ retries[n][c] > 0 /\ ~switching[n] /\ ~PutOff(n)
  /\ retries' = [retries EXCEPT ![n][c] = @ - 1]
  /\ SwitchPhy(n, c) \/ AlreadyOn(n, c)
  /\ UNCHANGED <<configVars, postponed>>

Change == changes < MaxChanges /\ changes' = changes + 1

\* A change that finds another one on its way.
NoteOverlap(n) == overlapped' = [overlapped EXCEPT ![n] = @ \/ ~Quiet(n)]

\* LeverConfig::SwitchChannel.
ConfigureChannel(n, c) ==
  /\ Change /\ NoteOverlap(n)
  /\ configured' = [configured EXCEPT ![n] = c]
  /\ IF running[n] THEN OnChannelSettingsChanged(n, c)
                   ELSE UNCHANGED <<retries, phyChannel, switching>>
  /\ UNCHANGED <<level, running, phyLevel, postponed>>

\* SetTxPower, SetCcaEdThreshold and SetRxSensitivity: these reach a PHY in any state.
ConfigureLevel(n, v) ==
  /\ Change
  /\ level' = [level EXCEPT ![n] = v]
  /\ phyLevel' = IF running[n] THEN [phyLevel EXCEPT ![n] = v] ELSE phyLevel
  /\ UNCHANGED <<configured, running, phyChannel, retries, postponed, switching,
                 overlapped>>

\* Mutant: what was configured before the start is not applied.
StartApplicationUnapplied(n) ==
  /\ ~running[n] /\ Change /\ NoteOverlap(n)
  /\ running' = [running EXCEPT ![n] = TRUE]
  /\ UNCHANGED <<level, configured, phyLevel, phyChannel, retries, postponed, switching>>

\* Connect and ApplyInitialConfiguration, which does not ask whether the PHY is busy.
StartApplication(n) ==
  /\ ~running[n] /\ Change /\ NoteOverlap(n)
  /\ running' = [running EXCEPT ![n] = TRUE]
  /\ phyLevel' = [phyLevel EXCEPT ![n] = level[n]]
  /\ SetOperatingChannel(n, configured[n])
  /\ UNCHANGED <<level, configured, retries>>

StopApplication(n) ==
  /\ running[n] /\ Change
  /\ running' = [running EXCEPT ![n] = FALSE]
  /\ UNCHANGED <<level, configured, phyLevel, phyChannel, retries, postponed, switching,
                 overlapped>>

LeverStep(n) ==
  \/ \E c \in Channel : EndOfTx(n, c) \/ Retry(n, c)
  \/ SwitchOver(n)

LeverCall(n) ==
  \/ \E c \in Channel : ConfigureChannel(n, c)
  \/ \E v \in Level : ConfigureLevel(n, v)
  \/ StartApplication(n) \/ StopApplication(n)

LeverNext == \E n \in Node : LeverStep(n) \/ LeverCall(n)

LeverSpec == LeverInit /\ [][LeverNext]_leverVars

----------------------------------------------------------------------------
(* Properties. *)

\* While a LeverApi runs its node's PHY has the levels configured, and the channel as
\* well once every change has run its course, unless one was asked for while another was
\* on its way: started late, stopped or held up by the PHY, no change is lost.
PhyFollowsConfig ==
  \A n \in Node : running[n] =>
    /\ phyLevel[n] = level[n]
    /\ Quiet(n) /\ ~overlapped[n] => phyChannel[n] = configured[n]
=============================================================================
