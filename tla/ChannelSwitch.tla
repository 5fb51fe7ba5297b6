----------------------------- MODULE ChannelSwitch -----------------------------
(***************************************************************************)
(* A change of an access point's channel and what becomes of its stations:  *)
(* ApWifiMac::SwitchChannel, which schedules the switch of the AP and of    *)
(* every station it lists, the coordinated flags that keep the associations *)
(* (src/wifi/model), LeverApi, which moves the PHY of an AP alone, and the   *)
(* beacon watchdog that ends an association with an AP no longer heard.     *)
(*                                                                         *)
(* ApWifiMac has the tables of one AP and StaWifiMac the exchange of frames; *)
(* here the list is a set and an association is one step.  One tick stands  *)
(* for the 10 ms between a call and its switch.                             *)
(***************************************************************************)
EXTENDS LeverApi, Integers, Sequences

CONSTANTS AP, Sta,        \* the nodes
          NoAp,           \* a station that is not associated
          InitialChannel, \* the channel each node is configured with
          SwitchDelay,    \* ticks from SwitchChannel to the switches
          FlagDelay,      \* ticks for which the callers keep the coordinated flag
          WatchdogDelay,  \* ticks without a beacon that end an association
          Spacing,        \* ticks the callers leave between two switches
          MaxSwitches,    \* bound on the calls of SwitchChannel
          MaxRoams        \* bound on roams and on stations the APs forget

ASSUME SwitchAssumption ==
  /\ Node = AP \cup Sta /\ AP \cap Sta = {} /\ NoAp \notin Node
  /\ InitialChannel \in [Node -> Channel]
  /\ SwitchDelay \in Nat \ {0} /\ FlagDelay \in Nat /\ FlagDelay > SwitchDelay
  /\ WatchdogDelay \in Nat \ {0} /\ Spacing \in Nat
  /\ MaxSwitches \in Nat /\ MaxRoams \in Nat

VARIABLES joined,       \* the AP each station is associated with, or NoAp
          listed,       \* the stations in each AP's staList
          coordinated,  \* m_coordinatedChannelSwitch of each node
          moves,        \* the switches scheduled for each node
          flagResets,   \* ticks left to each scheduled reset of a node's flag
          watchdog,     \* m_beaconWatchdog of each station, or Off
          sinceSwitch,  \* ticks since the last SwitchChannel, up to Spacing
          switches, roams,  \* counted against the bounds
          lastMove,     \* history: the last move of each station
          astray        \* history: stations no switch of their AP takes along

macVars == <<joined, listed, coordinated, moves, flagResets, watchdog, sinceSwitch,
             switches, roams, lastMove, astray>>
switchVars == <<leverVars, macVars>>

Off == -1
Move == [to : Channel, by : AP, left : 0..SwitchDelay, coordinated : BOOLEAN]

SwitchTypeOK ==
  /\ LeverTypeOK
  /\ joined \in [Sta -> AP \cup {NoAp}]
  /\ listed \in [AP -> SUBSET Sta]
  /\ coordinated \in [Node -> BOOLEAN]
  /\ moves \in [Node -> Seq(Move)]
  /\ flagResets \in [Node -> Seq(0..SwitchDelay + FlagDelay)]
  /\ watchdog \in [Sta -> Off..WatchdogDelay]
  /\ sinceSwitch \in 0..Spacing
  /\ switches \in Nat /\ roams \in Nat
  /\ lastMove \in [Sta -> {"none", "coordinated", "plain"}]
  /\ astray \in SUBSET Sta

\* Every LeverApi is started before the stations, with the channel of its PHY.
SwitchInit ==
  /\ level \in [Node -> Level] /\ phyLevel = level
  /\ phyChannel = InitialChannel /\ configured = InitialChannel
  /\ running = [n \in Node |-> n \in AP]
  /\ retries = [n \in Node |-> [c \in Channel |-> 0]] /\ postponed = retries
  /\ switching = [n \in Node |-> FALSE]
  /\ overlapped = [n \in Node |-> FALSE]
  /\ changes = 0
  /\ joined = [s \in Sta |-> NoAp]
  /\ listed = [a \in AP |-> {}]
  /\ coordinated = [n \in Node |-> FALSE]
  /\ moves = [n \in Node |-> <<>>]
  /\ flagResets = [n \in Node |-> <<>>]
  /\ watchdog = [s \in Sta |-> Off]
  /\ sinceSwitch = Spacing
  /\ switches = 0 /\ roams = 0
  /\ lastMove = [s \in Sta |-> "none"]
  /\ astray = {}

----------------------------------------------------------------------------
(* Stations come and go. *)

StationsOf(a) == {s \in Sta : joined[s] = a}

\* A change of the node's channel is on its way.
Moving(n) == moves[n] # <<>> \/ ~Quiet(n) \/ switching[n]

\* Association, once both are on one channel; an AP about to switch is joined too.
Join(s, a) ==
  /\ joined[s] = NoAp /\ phyChannel[s] = phyChannel[a]
  /\ \A n \in {s, a} : ~switching[n] /\ ~PutOff(n)
  /\ joined' = [joined EXCEPT ![s] = a]
  /\ listed' = [listed EXCEPT ![a] = @ \cup {s}]
  /\ watchdog' = [watchdog EXCEPT ![s] = WatchdogDelay]
  /\ astray' = IF Moving(a) \/ Moving(s) THEN astray \cup {s} ELSE astray \ {s}
  /\ UNCHANGED <<leverVars, coordinated, moves, flagResets, sinceSwitch, switches, roams,
                 lastMove>>

\* A station leaves for another channel.  The AP lists it until it receives the frame
\* that says so, and so for good when that is lost.
Roam(s, c) ==
  /\ roams < MaxRoams /\ roams' = roams + 1
  /\ joined' = [joined EXCEPT ![s] = NoAp]
  /\ SetOperatingChannel(s, c)
  /\ UNCHANGED <<configVars, retries, listed, coordinated, moves, flagResets, watchdog,
                 sinceSwitch, switches, lastMove, astray>>

\* The AP receives a disassociation, or its BTM clean-up runs: before the station goes,
\* after it went, or although it stays.
ApForgets(a, s) ==
  /\ roams < MaxRoams /\ roams' = roams + 1
  /\ s \in listed[a]
  /\ listed' = [listed EXCEPT ![a] = @ \ {s}]
  /\ astray' = IF joined[s] = a THEN astray \cup {s} ELSE astray
  /\ UNCHANGED <<leverVars, joined, coordinated, moves, flagResets, watchdog, sinceSwitch,
                 switches, lastMove>>

\* The AP does not hear of it.
MissedBeacons(s) ==
  /\ watchdog[s] = 0
  /\ watchdog' = [watchdog EXCEPT ![s] = Off]
  /\ joined' = [joined EXCEPT ![s] = NoAp]
  /\ UNCHANGED <<leverVars, listed, coordinated, moves, flagResets, sinceSwitch, switches,
                 roams, lastMove, astray>>

----------------------------------------------------------------------------
(* ApWifiMac::SwitchChannel. *)

\* The stations sent along: those listed, wherever they are.
Followers(a) == listed[a]

\* Schedule the switch of the AP and its followers, pass the flag on to these, and
\* schedule its reset there: moves, flagResets of the stations, switches.
Propagate(a, c, flag) ==
  /\ switches < MaxSwitches /\ switches' = switches + 1
  /\ sinceSwitch = Spacing /\ sinceSwitch' = 0
  /\ moves' = [n \in Node |->
       IF n \in Followers(a) \cup {a}
       THEN Append(moves[n], [to |-> c, by |-> a, left |-> SwitchDelay, coordinated |-> flag])
       ELSE moves[n]]

\* Mutant: the stations are not told that the switch is coordinated.
FlagAlone(a, flag) ==
  coordinated' = [n \in Node |-> IF n = a THEN flag ELSE coordinated[n]]

FlagFollowers(a, flag) ==
  coordinated' = [n \in Node |-> IF n \in Followers(a) \cup {a} THEN flag ELSE coordinated[n]]

\* The callers set the flag, switch, and reset the flag after FlagDelay.
SwitchCoordinated(a, c) ==
  /\ Propagate(a, c, TRUE)
  /\ FlagFollowers(a, TRUE)
  /\ flagResets' = [n \in Node |->
       IF n = a THEN Append(flagResets[n], FlagDelay)
       ELSE IF n \in Followers(a) THEN Append(flagResets[n], SwitchDelay + FlagDelay)
       ELSE flagResets[n]]
  /\ UNCHANGED <<leverVars, joined, listed, watchdog, roams, lastMove, astray>>

\* LeverApi::SwitchChannel and the callers that set no flag: the AP's is passed on as it
\* is; unless it is set the list is emptied at once, and a station whose PHY finds itself
\* on that channel already stays associated all the same.
SwitchChannel(a, c) ==
  /\ Propagate(a, c, coordinated[a])
  /\ FlagFollowers(a, coordinated[a])
  /\ flagResets' = [n \in Node |->
       IF n \in Followers(a) THEN Append(flagResets[n], SwitchDelay + FlagDelay)
       ELSE flagResets[n]]
  /\ listed' = IF coordinated[a] THEN listed ELSE [listed EXCEPT ![a] = {}]
  /\ astray' = IF coordinated[a] THEN astray ELSE astray \cup StationsOf(a)
  /\ UNCHANGED <<leverVars, joined, watchdog, roams, lastMove>>

\* The scheduled switch of one node's PHY.
ApplyMove(n) ==
  /\ moves[n] # <<>> /\ Head(moves[n]).left = 0
  /\ moves' = [moves EXCEPT ![n] = Tail(@)]
  /\ SetOperatingChannel(n, Head(moves[n]).to)
  /\ lastMove' = [s \in Sta |-> IF s # n THEN lastMove[s]
                               ELSE IF Head(moves[n]).coordinated THEN "coordinated"
                               ELSE "plain"]
  /\ astray' = IF n \in Sta /\ joined[n] # Head(moves[n]).by THEN astray \cup {n} ELSE astray
  /\ UNCHANGED <<configVars, retries, joined, listed, coordinated, flagResets, watchdog,
                 sinceSwitch, switches, roams>>

\* The change put off to the end of a transmission.
ApplyPostponed(n) ==
  /\ \E c \in Channel : EndOfTx(n, c)
  /\ UNCHANGED macVars

\* NotifyChannelSwitching of a station ends the association unless the flag is set.
Notified(s) ==
  IF coordinated[s] THEN UNCHANGED joined ELSE joined' = [joined EXCEPT ![s] = NoAp]

SwitchNotified(n) ==
  /\ SwitchOver(n)
  /\ IF n \in Sta THEN Notified(n) ELSE UNCHANGED joined
  /\ UNCHANGED <<listed, coordinated, moves, flagResets, watchdog, sinceSwitch, switches,
                 roams, lastMove, astray>>

ResetFlag(n) ==
  /\ flagResets[n] # <<>> /\ Head(flagResets[n]) = 0
  /\ flagResets' = [flagResets EXCEPT ![n] = Tail(@)]
  /\ coordinated' = [coordinated EXCEPT ![n] = FALSE]
  /\ UNCHANGED <<leverVars, joined, listed, moves, watchdog, sinceSwitch, switches, roams,
                 lastMove, astray>>

----------------------------------------------------------------------------
(* LeverConfig::SwitchChannel moves the PHY of the AP and no other. *)

LeverMoves(a) ==
  /\ \E c \in Channel : Retry(a, c) \/ ConfigureChannel(a, c)
  /\ astray' = astray \cup StationsOf(a)
  /\ UNCHANGED <<joined, listed, coordinated, moves, flagResets, watchdog, sinceSwitch,
                 switches, roams, lastMove>>

----------------------------------------------------------------------------
(* Time. *)

SwitchesDue ==
  \/ \E n \in Node : \/ moves[n] # <<>> /\ Head(moves[n]).left = 0
                     \/ flagResets[n] # <<>> /\ Head(flagResets[n]) = 0
                     \/ switching[n] \/ PutOff(n)
  \/ \E s \in Sta : watchdog[s] = 0

HearsAp(s) == joined[s] # NoAp /\ phyChannel[s] = phyChannel[joined[s]]

\* Mutant: beacons restart the watchdog whoever sends them.
HearsAnyBeacon(s) == \E a \in AP : phyChannel[s] = phyChannel[a]

\* The station receives a beacon that restarts its watchdog: one of its own AP.
HearsBeacon(s) == HearsAp(s)

SwitchTick ==
  /\ ~SwitchesDue
  /\ moves' = [n \in Node |-> [i \in 1..Len(moves[n]) |-> [moves[n][i] EXCEPT !.left = @ - 1]]]
  /\ flagResets' = [n \in Node |-> [i \in 1..Len(flagResets[n]) |-> flagResets[n][i] - 1]]
  /\ watchdog' = [s \in Sta |-> IF HearsBeacon(s) THEN WatchdogDelay
                               ELSE IF watchdog[s] > 0 THEN watchdog[s] - 1 ELSE watchdog[s]]
  /\ sinceSwitch' = IF sinceSwitch < Spacing THEN sinceSwitch + 1 ELSE sinceSwitch
  /\ UNCHANGED <<leverVars, joined, listed, coordinated, switches, roams, lastMove, astray>>

SwitchNext ==
  \/ \E n \in Node : \/ ApplyMove(n) \/ ApplyPostponed(n)
                     \/ SwitchNotified(n) \/ ResetFlag(n)
  \/ \E s \in Sta : \/ MissedBeacons(s)
                    \/ \E a \in AP : Join(s, a) \/ ApForgets(a, s)
                    \/ \E c \in Channel : Roam(s, c)
  \/ \E a \in AP : \/ LeverMoves(a)
                   \/ \E c \in Channel : SwitchCoordinated(a, c) \/ SwitchChannel(a, c)
  \/ SwitchTick

SwitchSpec == SwitchInit /\ [][SwitchNext]_switchVars

\* Scheduled events run and the clock goes on; nobody has to call anything.
FairSwitchSpec ==
  /\ SwitchSpec
  /\ WF_switchVars(SwitchTick)
  /\ \A n \in Node : /\ WF_switchVars(ApplyMove(n)) /\ WF_switchVars(ApplyPostponed(n))
                     /\ WF_switchVars(SwitchNotified(n)) /\ WF_switchVars(ResetFlag(n))
  /\ \A s \in Sta : WF_switchVars(MissedBeacons(s))

----------------------------------------------------------------------------
(* Properties. *)

Still == \A n \in Node : ~Moving(n)

\* A station is separated from its AP only by one of these: it joined while a switch was on
\* its way, an AP it had left took it along, its AP had forgotten it (a plain switch makes it
\* forget them all), or LeverConfig moved the AP alone.  Whatever else overlaps, both end on
\* one channel.
StationsFollowTheirAp ==
  Still => \A s \in Sta \ astray : joined[s] # NoAp => HearsAp(s)

\* A switch made as a coordinated one ends no association, however late the PHY makes it,
\* if the callers leave more than the life of the flags between two switches.
CoordinatedSwitchKeepsAssociation ==
  [][\A s \in Sta : SwitchNotified(s) /\ lastMove[s] = "coordinated" => joined'[s] = joined[s]]_switchVars

\* No station stays associated with an AP it does not hear.
NoStationIsStranded ==
  \A s \in Sta : (joined[s] # NoAp /\ ~HearsAp(s)) ~> (joined[s] = NoAp \/ HearsAp(s))
=============================================================================
