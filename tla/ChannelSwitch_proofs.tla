------------------------- MODULE ChannelSwitch_proofs -------------------------
(***************************************************************************)
(* Proofs about LeverApi and about ChannelSwitch, which builds on it, for   *)
(* any nodes, channels, levels, delays and number of calls.                 *)
(***************************************************************************)
EXTENDS ChannelSwitch, TLAPS

----------------------------------------------------------------------------
(* LeverApi. *)

\* Decrementing a count that is not zero keeps it a natural number.
LEMMA CountsDown == ASSUME NEW k \in Nat, k > 0 PROVE k - 1 \in Nat
  OBVIOUS

\* What a change of the PHY's channel does to the variables it is about.
LEMMA SwitchPhyType ==
  ASSUME LeverTypeOK, NEW n \in Node, NEW c \in Channel, SwitchPhy(n, c) \/ AlreadyOn(n, c)
  PROVE  /\ phyChannel' \in [Node -> Channel]
         /\ switching' \in [Node -> BOOLEAN]
  <1>1. phyChannel \in [Node -> Channel] /\ switching \in [Node -> BOOLEAN]
    BY DEF LeverTypeOK
  <1>2. CASE SwitchPhy(n, c) BY <1>1, <1>2 DEF SwitchPhy
  <1>3. CASE AlreadyOn(n, c) BY <1>1, <1>3 DEF AlreadyOn
  <1> QED BY <1>2, <1>3

\* The same of SetOperatingChannel, which may put the change off.
LEMMA SetOperatingChannelType ==
  ASSUME LeverTypeOK, NEW n \in Node, NEW c \in Channel, SetOperatingChannel(n, c)
  PROVE  /\ phyChannel' \in [Node -> Channel]
         /\ switching' \in [Node -> BOOLEAN]
         /\ postponed' \in [Node -> [Channel -> Nat]]
  <1>1. CASE postponed' = [postponed EXCEPT ![n][c] = @ + 1] /\ UNCHANGED <<phyChannel, switching>>
    BY <1>1 DEF LeverTypeOK
  <1>2. CASE (SwitchPhy(n, c) \/ AlreadyOn(n, c)) /\ UNCHANGED postponed
    BY <1>2, SwitchPhyType DEF LeverTypeOK
  <1> QED BY <1>1, <1>2 DEF SetOperatingChannel

\* The initial state is well typed.
LEMMA TypeInit == LeverInit => LeverTypeOK
  BY DEF LeverInit, LeverTypeOK

\* The PHY's own steps and the scheduled retries keep the state well typed.
LEMMA TypeStep ==
  ASSUME LeverTypeOK, NEW n \in Node, LeverStep(n)
  PROVE  LeverTypeOK'
  <1>1. ASSUME NEW c \in Channel, EndOfTx(n, c) PROVE LeverTypeOK'
    <2>1. postponed[n][c] - 1 \in Nat
      BY <1>1, CountsDown DEF EndOfTx, LeverTypeOK
    <2>2. postponed' \in [Node -> [Channel -> Nat]]
      BY <1>1, <2>1 DEF EndOfTx, LeverTypeOK
    <2> QED BY <1>1, <2>2, SwitchPhyType DEF EndOfTx, LeverTypeOK, configVars
  <1>2. ASSUME NEW c \in Channel, Retry(n, c) PROVE LeverTypeOK'
    <2>1. retries[n][c] - 1 \in Nat
      BY <1>2, CountsDown DEF Retry, LeverTypeOK
    <2>2. retries' \in [Node -> [Channel -> Nat]]
      BY <1>2, <2>1 DEF Retry, LeverTypeOK
    <2> QED BY <1>2, <2>2, SwitchPhyType DEF Retry, LeverTypeOK, configVars
  <1>3. CASE SwitchOver(n)
    BY <1>3 DEF SwitchOver, LeverTypeOK, configVars
  <1> QED BY <1>1, <1>2, <1>3 DEF LeverStep

\* A setter's change of the channel keeps the state well typed.
LEMMA TypeConfigureChannel ==
  ASSUME LeverTypeOK, NEW n \in Node, NEW c \in Channel, ConfigureChannel(n, c)
  PROVE  LeverTypeOK'
  <1>1. changes' \in Nat /\ overlapped' \in [Node -> BOOLEAN] /\ configured' \in [Node -> Channel]
    BY DEF ConfigureChannel, Change, NoteOverlap, Quiet, PutOff, LeverTypeOK
  <1>2. /\ retries' \in [Node -> [Channel -> Nat]]
        /\ phyChannel' \in [Node -> Channel] /\ switching' \in [Node -> BOOLEAN]
    <2>1. CASE running[n] /\ OnChannelSettingsChanged(n, c)
      <3>1. CASE retries' = [retries EXCEPT ![n][c] = @ + 1] /\ UNCHANGED <<phyChannel, switching>>
        BY <3>1 DEF LeverTypeOK
      <3>2. CASE (SwitchPhy(n, c) \/ AlreadyOn(n, c)) /\ UNCHANGED retries
        BY <3>2, SwitchPhyType DEF LeverTypeOK
      <3> QED BY <2>1, <3>1, <3>2 DEF OnChannelSettingsChanged
    <2>2. CASE UNCHANGED <<retries, phyChannel, switching>>
      BY <2>2 DEF LeverTypeOK
    <2> QED BY <2>1, <2>2 DEF ConfigureChannel
  <1> QED BY <1>1, <1>2 DEF ConfigureChannel, LeverTypeOK

\* The calls of LeverConfig and LeverApi keep the state well typed.
LEMMA TypeCall ==
  ASSUME LeverTypeOK, NEW n \in Node, LeverCall(n)
  PROVE  LeverTypeOK'
  <1>1. ASSUME NEW v \in Level, ConfigureLevel(n, v) PROVE LeverTypeOK'
    BY <1>1 DEF ConfigureLevel, Change, LeverTypeOK
  <1>2. CASE StartApplication(n)
    <2>1. configured[n] \in Channel BY DEF LeverTypeOK
    <2>2. overlapped' \in [Node -> BOOLEAN] /\ changes' \in Nat
      BY <1>2 DEF StartApplication, Change, NoteOverlap, Quiet, PutOff, LeverTypeOK
    <2>3. phyLevel' \in [Node -> Level] /\ running' \in [Node -> BOOLEAN]
      BY <1>2 DEF StartApplication, LeverTypeOK
    <2> QED BY <1>2, <2>1, <2>2, <2>3, SetOperatingChannelType DEF StartApplication, LeverTypeOK
  <1>3. CASE StopApplication(n)
    BY <1>3 DEF StopApplication, Change, LeverTypeOK
  <1> QED BY <1>1, <1>2, <1>3, TypeConfigureChannel DEF LeverCall

\* Every call and scheduled event keeps the state of the levers well typed.
THEOREM LeverTypeCorrect == LeverSpec => []LeverTypeOK
  <1>1. LeverTypeOK /\ [LeverNext]_leverVars => LeverTypeOK'
    <2>1. LeverTypeOK /\ LeverNext => LeverTypeOK'
      BY TypeStep, TypeCall DEF LeverNext
    <2>2. LeverTypeOK /\ UNCHANGED leverVars => LeverTypeOK'
      BY DEF LeverTypeOK, leverVars
    <2> QED BY <2>1, <2>2
  <1> QED BY <1>1, TypeInit, PTL DEF LeverSpec

----------------------------------------------------------------------------
(* The PHY follows the configuration.  What the invariant lacks to be inductive is what  *)
(* is on its way: unless changes overlapped, nothing but the channel configured.         *)

LevelsFollow(n) == running[n] => phyLevel[n] = level[n]

OnItsWay(n) ==
  ~overlapped[n] => \A c \in Channel : retries[n][c] > 0 \/ postponed[n][c] > 0
                                       => c = configured[n]

ChannelFollows(n) == ~overlapped[n] /\ running[n] /\ Quiet(n) => phyChannel[n] = configured[n]

LeverInv == \A n \in Node : LevelsFollow(n) /\ OnItsWay(n) /\ ChannelFollows(n)

\* A step of one node leaves what the invariant says of the others.
LEMMA OtherNodes ==
  ASSUME LeverTypeOK, LeverInv, NEW n \in Node, LeverStep(n) \/ LeverCall(n), NEW o \in Node, o # n
  PROVE  LevelsFollow(o)' /\ OnItsWay(o)' /\ ChannelFollows(o)'
  <1> DEFINE Same ==
        /\ level'[o] = level[o] /\ configured'[o] = configured[o] /\ running'[o] = running[o]
        /\ phyLevel'[o] = phyLevel[o] /\ phyChannel'[o] = phyChannel[o]
        /\ retries'[o] = retries[o] /\ postponed'[o] = postponed[o]
        /\ overlapped'[o] = overlapped[o]
  <1>1. Same
    <2>1. ASSUME NEW c \in Channel, EndOfTx(n, c) PROVE Same
      BY <2>1 DEF EndOfTx, SwitchPhy, AlreadyOn, configVars, LeverTypeOK
    <2>2. ASSUME NEW c \in Channel, Retry(n, c) PROVE Same
      BY <2>2 DEF Retry, SwitchPhy, AlreadyOn, configVars, LeverTypeOK
    <2>3. CASE SwitchOver(n)
      BY <2>3 DEF SwitchOver, configVars
    <2>4. ASSUME NEW c \in Channel, ConfigureChannel(n, c) PROVE Same
      BY <2>4 DEF ConfigureChannel, NoteOverlap, OnChannelSettingsChanged, SwitchPhy, AlreadyOn,
                  LeverTypeOK
    <2>5. ASSUME NEW v \in Level, ConfigureLevel(n, v) PROVE Same
      BY <2>5 DEF ConfigureLevel, LeverTypeOK
    <2>6. CASE StartApplication(n)
      BY <2>6 DEF StartApplication, NoteOverlap, SetOperatingChannel, SwitchPhy, AlreadyOn,
                  LeverTypeOK
    <2>7. CASE StopApplication(n)
      BY <2>7 DEF StopApplication, LeverTypeOK
    <2> QED BY <2>1, <2>2, <2>3, <2>4, <2>5, <2>6, <2>7 DEF LeverStep, LeverCall
  <1> QED BY <1>1 DEF LeverInv, LevelsFollow, OnItsWay, ChannelFollows, Quiet, PutOff

\* A change that is made puts the PHY on its channel.
LEMMA PhyOn ==
  ASSUME LeverTypeOK, NEW n \in Node, NEW c \in Channel, SwitchPhy(n, c) \/ AlreadyOn(n, c)
  PROVE  phyChannel'[n] = c
  BY DEF LeverTypeOK, SwitchPhy, AlreadyOn

\* What is on its way reaches the PHY and is what is configured.
LEMMA StepFollows ==
  ASSUME LeverTypeOK, LeverInv, NEW n \in Node, LeverStep(n)
  PROVE  LevelsFollow(n)' /\ OnItsWay(n)' /\ ChannelFollows(n)'
  <1>1. LevelsFollow(n) /\ OnItsWay(n) /\ ChannelFollows(n) BY DEF LeverInv
  <1>2. ASSUME NEW c \in Channel, EndOfTx(n, c)
        PROVE  LevelsFollow(n)' /\ OnItsWay(n)' /\ ChannelFollows(n)'
    <2>1. phyChannel'[n] = c BY <1>2, PhyOn DEF EndOfTx
    <2>2. \A d \in Channel : postponed'[n][d] > 0 => postponed[n][d] > 0
      BY <1>2, CountsDown DEF EndOfTx, LeverTypeOK
    <2>3. postponed[n][c] > 0 /\ UNCHANGED <<configVars, retries>> BY <1>2 DEF EndOfTx
    <2> QED BY <1>1, <2>1, <2>2, <2>3 DEF LevelsFollow, OnItsWay, ChannelFollows, configVars
  <1>3. ASSUME NEW c \in Channel, Retry(n, c)
        PROVE  LevelsFollow(n)' /\ OnItsWay(n)' /\ ChannelFollows(n)'
    <2>1. phyChannel'[n] = c BY <1>3, PhyOn DEF Retry
    <2>2. \A d \in Channel : retries'[n][d] > 0 => retries[n][d] > 0
      BY <1>3, CountsDown DEF Retry, LeverTypeOK
    <2>3. retries[n][c] > 0 /\ UNCHANGED <<configVars, postponed>> BY <1>3 DEF Retry
    <2> QED BY <1>1, <2>1, <2>2, <2>3 DEF LevelsFollow, OnItsWay, ChannelFollows, configVars
  <1>4. CASE SwitchOver(n)
    BY <1>1, <1>4 DEF SwitchOver, LevelsFollow, OnItsWay, ChannelFollows, Quiet, PutOff, configVars
  <1> QED BY <1>2, <1>3, <1>4 DEF LeverStep

\* A channel configured with nothing on its way is applied, or the only one on its way.
LEMMA ConfigureFollows ==
  ASSUME LeverTypeOK, LeverInv, NEW n \in Node, NEW c \in Channel, ConfigureChannel(n, c)
  PROVE  LevelsFollow(n)' /\ OnItsWay(n)' /\ ChannelFollows(n)'
  <1>1. LevelsFollow(n) BY DEF LeverInv
  <1>2. LevelsFollow(n)' BY <1>1 DEF ConfigureChannel, LevelsFollow
  <1>3. overlapped'[n] = (overlapped[n] \/ ~Quiet(n))
    BY DEF ConfigureChannel, NoteOverlap, LeverTypeOK
  <1>4. configured'[n] = c BY DEF ConfigureChannel, LeverTypeOK
  <1>5. CASE Quiet(n)
    <2>1. \A d \in Channel : retries[n][d] = 0 /\ ~(postponed[n][d] > 0)
      BY <1>5 DEF Quiet, PutOff
    <2>2. postponed' = postponed BY DEF ConfigureChannel
    <2>3. CASE running[n] /\ retries' = [retries EXCEPT ![n][c] = @ + 1]
      <3>1. \A d \in Channel \ {c} : retries'[n][d] = 0 BY <2>1, <2>3 DEF LeverTypeOK
      <3>2. retries'[n][c] = 1 BY <2>1, <2>3 DEF LeverTypeOK
      <3>3. OnItsWay(n)' BY <1>4, <2>1, <2>2, <3>1 DEF OnItsWay
      <3>4. ~Quiet(n)' BY <3>2 DEF Quiet
      <3> QED BY <1>2, <3>3, <3>4 DEF ChannelFollows
    <2>4. CASE running[n] /\ (SwitchPhy(n, c) \/ AlreadyOn(n, c)) /\ UNCHANGED retries
      <3>1. phyChannel'[n] = c BY <2>4, PhyOn
      <3> QED BY <1>2, <1>4, <2>1, <2>2, <2>4, <3>1 DEF OnItsWay, ChannelFollows
    <2>5. CASE ~running[n]
      BY <1>2, <2>1, <2>2, <2>5 DEF ConfigureChannel, OnItsWay, ChannelFollows
    <2> QED BY <2>3, <2>4, <2>5 DEF ConfigureChannel, OnChannelSettingsChanged
  <1>6. CASE ~Quiet(n)
    BY <1>2, <1>3, <1>6 DEF OnItsWay, ChannelFollows
  <1> QED BY <1>5, <1>6

\* A LeverApi that starts applies what was configured before.
LEMMA StartFollows ==
  ASSUME LeverTypeOK, LeverInv, NEW n \in Node, StartApplication(n)
  PROVE  LevelsFollow(n)' /\ OnItsWay(n)' /\ ChannelFollows(n)'
  <1>1. LevelsFollow(n)' BY DEF StartApplication, LevelsFollow, LeverTypeOK
  <1>2. overlapped'[n] = (overlapped[n] \/ ~Quiet(n))
    BY DEF StartApplication, NoteOverlap, LeverTypeOK
  <1>3. configured[n] \in Channel BY DEF LeverTypeOK
  <1>4. configured' = configured /\ retries' = retries BY DEF StartApplication
  <1>5. CASE Quiet(n)
    <2>1. \A d \in Channel : retries[n][d] = 0 /\ ~(postponed[n][d] > 0)
      BY <1>5 DEF Quiet, PutOff
    <2>2. CASE postponed' = [postponed EXCEPT ![n][configured[n]] = @ + 1]
      <3>1. \A d \in Channel \ {configured[n]} : postponed'[n][d] = postponed[n][d]
        BY <2>2 DEF LeverTypeOK
      <3>2. postponed'[n][configured[n]] > 0
        <4>1. postponed'[n][configured[n]] = postponed[n][configured[n]] + 1
          BY <1>3, <2>2 DEF LeverTypeOK
        <4>2. postponed[n][configured[n]] \in Nat BY <1>3 DEF LeverTypeOK
        <4> QED BY <4>1, <4>2
      <3>3. OnItsWay(n)' BY <1>4, <2>1, <3>1 DEF OnItsWay
      <3>4. ~Quiet(n)' BY <1>3, <3>2 DEF Quiet, PutOff
      <3> QED BY <1>1, <3>3, <3>4 DEF ChannelFollows
    <2>3. CASE (SwitchPhy(n, configured[n]) \/ AlreadyOn(n, configured[n])) /\ UNCHANGED postponed
      <3>1. phyChannel'[n] = configured[n] BY <1>3, <2>3, PhyOn
      <3> QED BY <1>1, <1>4, <2>1, <2>3, <3>1 DEF OnItsWay, ChannelFollows
    <2> QED BY <2>2, <2>3 DEF StartApplication, SetOperatingChannel
  <1>6. CASE ~Quiet(n)
    BY <1>1, <1>2, <1>6 DEF OnItsWay, ChannelFollows
  <1> QED BY <1>5, <1>6

\* So do the other calls.
LEMMA CallFollows ==
  ASSUME LeverTypeOK, LeverInv, NEW n \in Node, LeverCall(n)
  PROVE  LevelsFollow(n)' /\ OnItsWay(n)' /\ ChannelFollows(n)'
  <1>1. LevelsFollow(n) /\ OnItsWay(n) /\ ChannelFollows(n) BY DEF LeverInv
  <1>2. ASSUME NEW v \in Level, ConfigureLevel(n, v)
        PROVE  LevelsFollow(n)' /\ OnItsWay(n)' /\ ChannelFollows(n)'
    BY <1>1, <1>2 DEF ConfigureLevel, LevelsFollow, OnItsWay, ChannelFollows, Quiet, PutOff,
                      LeverTypeOK
  <1>3. CASE StopApplication(n)
    BY <1>1, <1>3 DEF StopApplication, LevelsFollow, OnItsWay, ChannelFollows, Quiet, PutOff,
                      LeverTypeOK
  <1> QED BY <1>2, <1>3, ConfigureFollows, StartFollows DEF LeverCall

\* While a LeverApi runs, no change made alone is lost: the PHY ends up as configured.
THEOREM PhyFollows == LeverSpec => []PhyFollowsConfig
  <1>1. LeverInit => LeverInv
    BY DEF LeverInit, LeverInv, LevelsFollow, OnItsWay, ChannelFollows
  <1>2. LeverTypeOK /\ LeverInv /\ [LeverNext]_leverVars => LeverInv'
    <2>1. LeverTypeOK /\ LeverInv /\ LeverNext => LeverInv'
      BY OtherNodes, StepFollows, CallFollows DEF LeverNext, LeverInv
    <2>2. LeverInv /\ UNCHANGED leverVars => LeverInv'
      BY DEF LeverInv, LevelsFollow, OnItsWay, ChannelFollows, Quiet, PutOff, leverVars
    <2> QED BY <2>1, <2>2
  <1>3. LeverInv => PhyFollowsConfig
    BY DEF LeverInv, LevelsFollow, ChannelFollows, PhyFollowsConfig
  <1> QED BY <1>1, <1>2, <1>3, LeverTypeCorrect, PTL DEF LeverSpec

----------------------------------------------------------------------------
(* The state of a change of channel is well typed.  The clock takes one from every delay *)
(* while the first of each queue is not over: none is then, because the queues are in    *)
(* the order of their delays.                                                            *)

LeftsUp(q) == \A i, j \in 1..Len(q) : i <= j => q[i].left <= q[j].left

ResetsUp(f) == \A i, j \in 1..Len(f) : i <= j => f[i] <= f[j]

\* What a caller's reset of the flag waits for: the AP's is scheduled at the call, those of
\* the stations with their switch.
ResetDelay(n) == IF n \in AP THEN FlagDelay ELSE SwitchDelay + FlagDelay

QueuesOrdered ==
  \A n \in Node :
    /\ LeftsUp(moves[n]) /\ ResetsUp(flagResets[n])
    /\ \A i \in 1..Len(flagResets[n]) : flagResets[n][i] <= ResetDelay(n)

\* The elements of a sequence after one is added, and after the first is taken.
LEMMA Appended ==
  ASSUME NEW S, NEW q \in Seq(S), NEW x \in S
  PROVE  /\ Append(q, x) \in Seq(S) /\ Len(Append(q, x)) = Len(q) + 1 /\ Len(q) \in Nat
         /\ Append(q, x)[Len(q) + 1] = x
         /\ \A i \in 1..Len(q) : Append(q, x)[i] = q[i]
         /\ \A i \in 1..(Len(q) + 1) : i = Len(q) + 1 \/ i \in 1..Len(q)
<1>1. Len(q) \in Nat OBVIOUS
<1>2. \A i \in 1..(Len(q) + 1) : i = Len(q) + 1 \/ i \in 1..Len(q) BY <1>1
<1>3. QED BY <1>2

LEMMA FirstTaken ==
  ASSUME NEW S, NEW q \in Seq(S), q # <<>>
  PROVE  /\ Tail(q) \in Seq(S) /\ Head(q) = q[1] /\ 1 \in 1..Len(q) /\ Head(q) \in S
         /\ \A i \in 1..Len(Tail(q)) : i + 1 \in 1..Len(q) /\ Tail(q)[i] = q[i + 1]
  OBVIOUS

\* A switch scheduled last is the last to come.
LEMMA MoveScheduled ==
  ASSUME NEW q \in Seq(Move), LeftsUp(q), NEW m \in Move, m.left = SwitchDelay
  PROVE  Append(q, m) \in Seq(Move) /\ LeftsUp(Append(q, m))
<1> DEFINE r == Append(q, m)
<1>1. /\ r \in Seq(Move) /\ Len(r) = Len(q) + 1 /\ Len(q) \in Nat /\ r[Len(q) + 1] = m
      /\ \A i \in 1..Len(q) : r[i] = q[i]
      /\ \A i \in 1..Len(r) : i = Len(q) + 1 \/ i \in 1..Len(q)
  BY Appended
<1>2. \A i \in 1..Len(q) : q[i].left \in 0..SwitchDelay
  <2>1. \A i \in 1..Len(q) : q[i] \in Move OBVIOUS
  <2>2. QED BY <2>1 DEF Move
<1> HIDE DEF r
<1>3. ASSUME NEW i \in 1..Len(r), NEW j \in 1..Len(r), i <= j PROVE r[i].left <= r[j].left
  <2>1. CASE j \in 1..Len(q)
    <3>1. i \in 1..Len(q) BY <1>1, <1>3, <2>1
    <3>2. QED BY <1>1, <1>3, <2>1, <3>1 DEF LeftsUp
  <2>2. CASE j = Len(q) + 1
    <3>1. r[j].left = SwitchDelay BY <1>1, <2>2
    <3>2. SwitchDelay <= SwitchDelay BY SwitchAssumption
    <3>3. r[i].left <= SwitchDelay BY <1>1, <1>2, <3>2, SwitchAssumption
    <3>4. QED BY <3>1, <3>3
  <2>3. QED BY <1>1, <2>1, <2>2
<1>4. QED BY <1>1, <1>3 DEF LeftsUp, r

\* The same of a reset.
LEMMA ResetScheduled ==
  ASSUME NEW f \in Seq(0..SwitchDelay + FlagDelay), ResetsUp(f), NEW d \in 0..SwitchDelay + FlagDelay,
         \A i \in 1..Len(f) : f[i] <= d
  PROVE  /\ Append(f, d) \in Seq(0..SwitchDelay + FlagDelay) /\ ResetsUp(Append(f, d))
         /\ \A i \in 1..Len(Append(f, d)) : Append(f, d)[i] <= d
<1> DEFINE r == Append(f, d)
<1>1. /\ r \in Seq(0..SwitchDelay + FlagDelay) /\ Len(r) = Len(f) + 1 /\ Len(f) \in Nat
      /\ r[Len(f) + 1] = d
      /\ \A i \in 1..Len(f) : r[i] = f[i]
      /\ \A i \in 1..Len(r) : i = Len(f) + 1 \/ i \in 1..Len(f)
  BY Appended
<1> HIDE DEF r
<1>2. \A i \in 1..Len(r) : r[i] <= d BY <1>1
<1>3. ASSUME NEW i \in 1..Len(r), NEW j \in 1..Len(r), i <= j PROVE r[i] <= r[j]
  <2>1. CASE j \in 1..Len(f)
    <3>1. i \in 1..Len(f) BY <1>1, <1>3, <2>1
    <3>2. QED BY <1>1, <1>3, <2>1, <3>1 DEF ResetsUp
  <2>2. CASE j = Len(f) + 1 BY <1>1, <1>2, <2>2
  <2>3. QED BY <1>1, <2>1, <2>2
<1>4. QED BY <1>1, <1>2, <1>3 DEF ResetsUp, r

\* The first of a queue leaves it in order.
LEMMA MoveTaken ==
  ASSUME NEW q \in Seq(Move), LeftsUp(q), q # <<>>
  PROVE  Tail(q) \in Seq(Move) /\ LeftsUp(Tail(q)) /\ Head(q) \in Move
<1>1. /\ Tail(q) \in Seq(Move) /\ Head(q) \in Move
      /\ \A i \in 1..Len(Tail(q)) : i + 1 \in 1..Len(q) /\ Tail(q)[i] = q[i + 1]
  BY FirstTaken
<1>2. ASSUME NEW i \in 1..Len(Tail(q)), NEW j \in 1..Len(Tail(q)), i <= j
      PROVE  Tail(q)[i].left <= Tail(q)[j].left
  <2>1. i + 1 \in 1..Len(q) /\ j + 1 \in 1..Len(q) /\ i + 1 <= j + 1 BY <1>1, <1>2
  <2>2. QED BY <1>1, <2>1 DEF LeftsUp
<1>3. QED BY <1>1, <1>2 DEF LeftsUp

LEMMA ResetTaken ==
  ASSUME NEW S, NEW f \in Seq(S), ResetsUp(f), f # <<>>
  PROVE  Tail(f) \in Seq(S) /\ ResetsUp(Tail(f))
<1>1. /\ Tail(f) \in Seq(S)
      /\ \A i \in 1..Len(Tail(f)) : i + 1 \in 1..Len(f) /\ Tail(f)[i] = f[i + 1]
  BY FirstTaken
<1>2. ASSUME NEW i \in 1..Len(Tail(f)), NEW j \in 1..Len(Tail(f)), i <= j
      PROVE  Tail(f)[i] <= Tail(f)[j]
  <2>1. i + 1 \in 1..Len(f) /\ j + 1 \in 1..Len(f) /\ i + 1 <= j + 1 BY <1>1, <1>2
  <2>2. QED BY <1>1, <2>1 DEF ResetsUp
<1>3. QED BY <1>1, <1>2 DEF ResetsUp

\* A tick is taken from a queue whose first is not due.
LEMMA MovesTick ==
  ASSUME NEW q \in Seq(Move), LeftsUp(q), ~(q # <<>> /\ Head(q).left = 0),
         NEW r, r = [i \in 1..Len(q) |-> [q[i] EXCEPT !.left = @ - 1]]
  PROVE  /\ r \in Seq(Move) /\ LeftsUp(r) /\ Len(r) = Len(q)
         /\ \A i \in 1..Len(q) : /\ q[i].left > 0 /\ r[i].left = q[i].left - 1
                                 /\ r[i].to = q[i].to /\ r[i].by = q[i].by
                                 /\ r[i].coordinated = q[i].coordinated
<1>1. \A i \in 1..Len(q) : q[i] \in Move OBVIOUS
<1>2. ASSUME NEW i \in 1..Len(q) PROVE q[i].left \in 1..SwitchDelay
  <2>1. q # <<>> /\ 1 \in 1..Len(q) /\ 1 <= i OBVIOUS
  <2>2. Head(q) = q[1] BY <2>1
  <2>3. q[1].left # 0 BY <2>1, <2>2
  <2>4. q[1].left <= q[i].left BY <2>1 DEF LeftsUp
  <2>5. q[1].left \in 0..SwitchDelay /\ q[i].left \in 0..SwitchDelay BY <1>1, <2>1 DEF Move
  <2>6. QED BY <2>3, <2>4, <2>5, SwitchAssumption
<1>3. ASSUME NEW m \in Move, m.left \in 1..SwitchDelay, NEW k, k = [m EXCEPT !.left = @ - 1]
      PROVE  /\ k \in Move /\ k.left = m.left - 1 /\ k.to = m.to /\ k.by = m.by
             /\ k.coordinated = m.coordinated
  <2>1. m.left - 1 \in 0..SwitchDelay BY <1>3, SwitchAssumption
  <2>2. QED BY <1>3, <2>1 DEF Move
<1>4. Len(q) \in Nat /\ \A i \in 1..Len(q) : r[i] = [q[i] EXCEPT !.left = @ - 1] OBVIOUS
<1>5. \A i \in 1..Len(q) : /\ r[i] \in Move /\ q[i].left > 0 /\ r[i].left = q[i].left - 1
                           /\ r[i].to = q[i].to /\ r[i].by = q[i].by
                           /\ r[i].coordinated = q[i].coordinated
  BY <1>1, <1>2, <1>3, <1>4
<1>6. r \in Seq(Move) /\ Len(r) = Len(q) BY <1>4, <1>5
<1>7. LeftsUp(r)
  <2>1. ASSUME NEW i \in 1..Len(q), NEW j \in 1..Len(q), i <= j PROVE r[i].left <= r[j].left
    <3>1. q[i].left <= q[j].left BY <2>1 DEF LeftsUp
    <3>2. q[i].left \in 1..SwitchDelay /\ q[j].left \in 1..SwitchDelay BY <1>2
    <3>3. r[i].left = q[i].left - 1 /\ r[j].left = q[j].left - 1 BY <1>5
    <3>4. QED BY <3>1, <3>2, <3>3, SwitchAssumption
  <2>2. QED BY <1>6, <2>1 DEF LeftsUp
<1>8. QED BY <1>5, <1>6, <1>7

LEMMA ResetsTick ==
  ASSUME NEW d \in Nat, NEW f \in Seq(0..d), ResetsUp(f), ~(f # <<>> /\ Head(f) = 0),
         NEW r, r = [i \in 1..Len(f) |-> f[i] - 1]
  PROVE  /\ r \in Seq(0..d) /\ ResetsUp(r) /\ Len(r) = Len(f)
         /\ \A i \in 1..Len(f) : f[i] > 0 /\ r[i] = f[i] - 1
<1>1. \A i \in 1..Len(f) : f[i] \in 0..d OBVIOUS
<1>2. ASSUME NEW i \in 1..Len(f) PROVE f[i] \in 1..d
  <2>1. f # <<>> /\ 1 \in 1..Len(f) /\ 1 <= i OBVIOUS
  <2>2. Head(f) = f[1] BY <2>1
  <2>3. f[1] # 0 BY <2>1, <2>2
  <2>4. f[1] <= f[i] BY <2>1 DEF ResetsUp
  <2>5. QED BY <1>1, <2>1, <2>3, <2>4
<1>3. \A i \in 1..Len(f) : r[i] = f[i] - 1 /\ r[i] \in 0..d /\ f[i] > 0
  <2>1. \A k \in 1..d : k - 1 \in 0..d /\ k > 0 OBVIOUS
  <2>2. QED BY <1>2, <2>1
<1>4. r \in Seq(0..d) /\ Len(r) = Len(f) BY <1>3
<1>5. ResetsUp(r)
  <2>1. ASSUME NEW i \in 1..Len(f), NEW j \in 1..Len(f), i <= j PROVE r[i] <= r[j]
    <3>1. f[i] <= f[j] BY <2>1 DEF ResetsUp
    <3>2. QED BY <1>2, <1>3, <3>1
  <2>2. QED BY <1>4, <2>1 DEF ResetsUp
<1>6. QED BY <1>3, <1>4, <1>5

\* The initial state is well typed, and nothing is scheduled in it.
LEMMA SwitchTypeInit == SwitchInit => SwitchTypeOK /\ QueuesOrdered
<1> SUFFICES ASSUME SwitchInit PROVE SwitchTypeOK /\ QueuesOrdered
  OBVIOUS
<1>1. LeverTypeOK BY SwitchAssumption DEF SwitchInit, LeverTypeOK
<1>2. moves \in [Node -> Seq(Move)] /\ flagResets \in [Node -> Seq(0..SwitchDelay + FlagDelay)]
  BY DEF SwitchInit
<1>3. watchdog \in [Sta -> Off..WatchdogDelay] /\ sinceSwitch \in 0..Spacing
  BY SwitchAssumption DEF SwitchInit, Off
<1>4. SwitchTypeOK BY <1>1, <1>2, <1>3 DEF SwitchInit, SwitchTypeOK
<1>5. QueuesOrdered BY DEF SwitchInit, QueuesOrdered, LeftsUp, ResetsUp
<1>6. QED BY <1>4, <1>5

\* Steps that schedule nothing and that the clock does not take.
LEMMA SwitchTypeStations ==
  ASSUME SwitchTypeOK, QueuesOrdered,
         \/ \E n \in Node : ApplyPostponed(n) \/ SwitchNotified(n)
         \/ \E s \in Sta : \/ MissedBeacons(s)
                           \/ \E a \in AP : Join(s, a) \/ ApForgets(a, s)
                           \/ \E c \in Channel : Roam(s, c)
         \/ \E a \in AP : LeverMoves(a)
  PROVE  SwitchTypeOK' /\ QueuesOrdered'
<1>1. LeverTypeOK /\ AP \subseteq Node /\ Sta \subseteq Node BY SwitchAssumption DEF SwitchTypeOK
<1>2. ASSUME NEW n \in Node, ApplyPostponed(n) PROVE SwitchTypeOK' /\ QueuesOrdered'
  <2>1. LeverTypeOK' BY <1>1, <1>2, TypeStep DEF ApplyPostponed, LeverStep
  <2>2. QED BY <1>2, <2>1 DEF ApplyPostponed, macVars, SwitchTypeOK, QueuesOrdered
<1>3. ASSUME NEW n \in Node, SwitchNotified(n) PROVE SwitchTypeOK' /\ QueuesOrdered'
  <2>1. LeverTypeOK' BY <1>1, <1>3, TypeStep DEF SwitchNotified, LeverStep
  <2>2. joined' \in [Sta -> AP \cup {NoAp}]
    BY <1>3 DEF SwitchNotified, Notified, SwitchTypeOK
  <2>3. QED BY <1>3, <2>1, <2>2 DEF SwitchNotified, SwitchTypeOK, QueuesOrdered
<1>4. ASSUME NEW s \in Sta, MissedBeacons(s) PROVE SwitchTypeOK' /\ QueuesOrdered'
  <2>1. LeverTypeOK' BY <1>1, <1>4 DEF MissedBeacons, LeverTypeOK, leverVars
  <2>2. joined' \in [Sta -> AP \cup {NoAp}] /\ watchdog' \in [Sta -> Off..WatchdogDelay]
    BY <1>4, SwitchAssumption DEF MissedBeacons, SwitchTypeOK, Off
  <2>3. QED BY <1>4, <2>1, <2>2 DEF MissedBeacons, SwitchTypeOK, QueuesOrdered
<1>5. ASSUME NEW s \in Sta, NEW a \in AP, Join(s, a) PROVE SwitchTypeOK' /\ QueuesOrdered'
  <2>1. LeverTypeOK' BY <1>1, <1>5 DEF Join, LeverTypeOK, leverVars
  <2>2. /\ joined' \in [Sta -> AP \cup {NoAp}] /\ listed' \in [AP -> SUBSET Sta]
        /\ watchdog' \in [Sta -> Off..WatchdogDelay] /\ astray' \in SUBSET Sta
    BY <1>5, SwitchAssumption DEF Join, SwitchTypeOK, Off
  <2>3. QED BY <1>5, <2>1, <2>2 DEF Join, SwitchTypeOK, QueuesOrdered
<1>6. ASSUME NEW s \in Sta, NEW a \in AP, ApForgets(a, s) PROVE SwitchTypeOK' /\ QueuesOrdered'
  <2>1. LeverTypeOK' BY <1>1, <1>6 DEF ApForgets, LeverTypeOK, leverVars
  <2>2. listed' \in [AP -> SUBSET Sta] /\ astray' \in SUBSET Sta /\ roams' \in Nat
    BY <1>6 DEF ApForgets, SwitchTypeOK
  <2>3. QED BY <1>6, <2>1, <2>2 DEF ApForgets, SwitchTypeOK, QueuesOrdered
<1>7. ASSUME NEW s \in Sta, NEW c \in Channel, Roam(s, c) PROVE SwitchTypeOK' /\ QueuesOrdered'
  <2>1. LeverTypeOK'
    BY <1>1, <1>7, SetOperatingChannelType DEF Roam, LeverTypeOK, configVars
  <2>2. joined' \in [Sta -> AP \cup {NoAp}] /\ roams' \in Nat
    BY <1>7 DEF Roam, SwitchTypeOK
  <2>3. QED BY <1>7, <2>1, <2>2 DEF Roam, SwitchTypeOK, QueuesOrdered
<1>8. ASSUME NEW a \in AP, LeverMoves(a) PROVE SwitchTypeOK' /\ QueuesOrdered'
  <2>1. LeverTypeOK'
    BY <1>1, <1>8, TypeStep, TypeConfigureChannel DEF LeverMoves, LeverStep
  <2>2. astray' \in SUBSET Sta BY <1>8 DEF LeverMoves, StationsOf, SwitchTypeOK
  <2>3. QED BY <1>8, <2>1, <2>2 DEF LeverMoves, SwitchTypeOK, QueuesOrdered
<1>9. QED BY <1>2, <1>3, <1>4, <1>5, <1>6, <1>7, <1>8

\* What a call schedules, for the AP and the stations it lists.
LEMMA Propagated ==
  ASSUME SwitchTypeOK, QueuesOrdered, NEW a \in AP, NEW c \in Channel, NEW flag \in BOOLEAN,
         Propagate(a, c, flag), NEW m, m = [to |-> c, by |-> a, left |-> SwitchDelay, coordinated |-> flag]
  PROVE  /\ m \in Move /\ m.left = SwitchDelay /\ m.by = a /\ m.to = c /\ m.coordinated = flag
         /\ Followers(a) \subseteq Sta /\ a \notin Sta
         /\ \A n \in Node : moves'[n] = IF n \in Followers(a) \cup {a} THEN Append(moves[n], m)
                                        ELSE moves[n]
         /\ moves' \in [Node -> Seq(Move)] /\ \A n \in Node : LeftsUp(moves'[n])
         /\ switches' \in Nat /\ sinceSwitch' \in 0..Spacing
<1>1. m \in Move /\ m.left = SwitchDelay /\ m.by = a /\ m.to = c /\ m.coordinated = flag
  BY SwitchAssumption DEF Move
<1>2. Followers(a) \subseteq Sta /\ a \notin Sta
  BY SwitchAssumption DEF Followers, SwitchTypeOK
<1>3. moves' = [n \in Node |-> IF n \in Followers(a) \cup {a} THEN Append(moves[n], m) ELSE moves[n]]
  BY DEF Propagate
<1>4. switches' \in Nat /\ sinceSwitch' \in 0..Spacing
  BY SwitchAssumption DEF Propagate, SwitchTypeOK
<1>5. ASSUME NEW n \in Node
      PROVE  /\ moves[n] \in Seq(Move) /\ LeftsUp(moves[n])
             /\ Append(moves[n], m) \in Seq(Move) /\ LeftsUp(Append(moves[n], m))
  BY <1>1, MoveScheduled DEF SwitchTypeOK, QueuesOrdered
<1> HIDE DEF Followers
<1>6. \A n \in Node : moves'[n] = IF n \in Followers(a) \cup {a} THEN Append(moves[n], m) ELSE moves[n]
  BY <1>3
<1>7. moves' \in [Node -> Seq(Move)] BY <1>3, <1>5
<1>8. \A n \in Node : LeftsUp(moves'[n]) BY <1>5, <1>6
<1>9. QED BY <1>1, <1>2, <1>4, <1>6, <1>7, <1>8

\* A reset scheduled for one node.
LEMMA ResetTyped ==
  ASSUME SwitchTypeOK, QueuesOrdered, NEW n \in Node
  PROVE  LET f == Append(flagResets[n], ResetDelay(n)) IN
           /\ f \in Seq(0..SwitchDelay + FlagDelay) /\ ResetsUp(f)
           /\ \A i \in 1..Len(f) : f[i] <= ResetDelay(n)
<1>1. ResetDelay(n) \in 0..SwitchDelay + FlagDelay BY SwitchAssumption DEF ResetDelay
<1>2. /\ flagResets[n] \in Seq(0..SwitchDelay + FlagDelay) /\ ResetsUp(flagResets[n])
      /\ \A i \in 1..Len(flagResets[n]) : flagResets[n][i] <= ResetDelay(n)
  BY DEF SwitchTypeOK, QueuesOrdered
<1>3. QED BY <1>1, <1>2, ResetScheduled

\* The calls of SwitchChannel, under a flag set for it and alone.
LEMMA SwitchTypeCalls ==
  ASSUME SwitchTypeOK, QueuesOrdered, NEW a \in AP, NEW c \in Channel,
         SwitchCoordinated(a, c) \/ SwitchChannel(a, c)
  PROVE  SwitchTypeOK' /\ QueuesOrdered'
<1>1. LeverTypeOK' BY DEF SwitchCoordinated, SwitchChannel, SwitchTypeOK, LeverTypeOK, leverVars
<1>2. Followers(a) \subseteq Sta /\ a \notin Sta /\ a \in Node /\ Sta \subseteq Node
      /\ \A n \in Node : n \in AP <=> n \notin Sta
  BY SwitchAssumption DEF Followers, SwitchTypeOK
<1>3. ASSUME NEW X \in SUBSET Node,
             flagResets' = [n \in Node |-> IF n \in X THEN Append(flagResets[n], ResetDelay(n))
                                           ELSE flagResets[n]]
      PROVE  /\ flagResets' \in [Node -> Seq(0..SwitchDelay + FlagDelay)]
             /\ \A n \in Node : /\ ResetsUp(flagResets'[n])
                                /\ \A i \in 1..Len(flagResets'[n]) : flagResets'[n][i] <= ResetDelay(n)
  BY <1>3, ResetTyped DEF SwitchTypeOK, QueuesOrdered
<1>4. ResetDelay(a) = FlagDelay /\ \A n \in Sta : ResetDelay(n) = SwitchDelay + FlagDelay
  BY <1>2 DEF ResetDelay
<1>5. CASE SwitchCoordinated(a, c)
  <2>1. Propagate(a, c, TRUE) BY <1>5 DEF SwitchCoordinated
  <2>2. /\ moves' \in [Node -> Seq(Move)] /\ \A n \in Node : LeftsUp(moves'[n])
        /\ switches' \in Nat /\ sinceSwitch' \in 0..Spacing
    BY <2>1, Propagated
  <2> HIDE DEF Followers, ResetDelay
  <2>3. coordinated' \in [Node -> BOOLEAN]
    BY <1>5 DEF SwitchCoordinated, FlagFollowers, SwitchTypeOK
  <2>4. flagResets' = [n \in Node |-> IF n \in Followers(a) \cup {a}
                                      THEN Append(flagResets[n], ResetDelay(n)) ELSE flagResets[n]]
    BY <1>2, <1>4, <1>5 DEF SwitchCoordinated
  <2>5. Followers(a) \cup {a} \in SUBSET Node BY <1>2
  <2>6. /\ flagResets' \in [Node -> Seq(0..SwitchDelay + FlagDelay)]
        /\ \A n \in Node : /\ ResetsUp(flagResets'[n])
                           /\ \A i \in 1..Len(flagResets'[n]) : flagResets'[n][i] <= ResetDelay(n)
    BY <1>3, <2>4, <2>5
  <2>7. UNCHANGED <<joined, listed, watchdog, roams, lastMove, astray>>
    BY <1>5 DEF SwitchCoordinated
  <2>8. SwitchTypeOK' BY <1>1, <2>2, <2>3, <2>6, <2>7 DEF SwitchTypeOK
  <2>9. QueuesOrdered' BY <2>2, <2>6 DEF QueuesOrdered, ResetDelay
  <2>10. QED BY <2>8, <2>9
<1>6. CASE SwitchChannel(a, c)
  <2>1. Propagate(a, c, coordinated[a]) /\ coordinated[a] \in BOOLEAN
    BY <1>2, <1>6 DEF SwitchChannel, SwitchTypeOK
  <2>2. /\ moves' \in [Node -> Seq(Move)] /\ \A n \in Node : LeftsUp(moves'[n])
        /\ switches' \in Nat /\ sinceSwitch' \in 0..Spacing
    BY <2>1, Propagated
  <2>3. /\ coordinated' \in [Node -> BOOLEAN] /\ listed' \in [AP -> SUBSET Sta]
        /\ astray' \in SUBSET Sta
    BY <1>6, <2>1 DEF SwitchChannel, FlagFollowers, StationsOf, SwitchTypeOK
  <2> HIDE DEF Followers, ResetDelay
  <2>4. flagResets' = [n \in Node |-> IF n \in Followers(a)
                                      THEN Append(flagResets[n], ResetDelay(n)) ELSE flagResets[n]]
    BY <1>2, <1>4, <1>6 DEF SwitchChannel
  <2>5. Followers(a) \in SUBSET Node BY <1>2
  <2>6. /\ flagResets' \in [Node -> Seq(0..SwitchDelay + FlagDelay)]
        /\ \A n \in Node : /\ ResetsUp(flagResets'[n])
                           /\ \A i \in 1..Len(flagResets'[n]) : flagResets'[n][i] <= ResetDelay(n)
    BY <1>3, <2>4, <2>5
  <2>7. UNCHANGED <<joined, watchdog, roams, lastMove>>
    BY <1>6 DEF SwitchChannel
  <2>8. SwitchTypeOK' BY <1>1, <2>2, <2>3, <2>6, <2>7 DEF SwitchTypeOK
  <2>9. QueuesOrdered' BY <2>2, <2>6 DEF QueuesOrdered, ResetDelay
  <2>10. QED BY <2>8, <2>9
<1>7. QED BY <1>5, <1>6

\* The events a call has scheduled.
LEMMA SwitchTypeEvents ==
  ASSUME SwitchTypeOK, QueuesOrdered, NEW n \in Node, ApplyMove(n) \/ ResetFlag(n)
  PROVE  SwitchTypeOK' /\ QueuesOrdered'
<1>1. CASE ApplyMove(n)
  <2>1. /\ moves[n] \in Seq(Move) /\ moves[n] # <<>> /\ LeftsUp(moves[n])
        /\ moves' = [moves EXCEPT ![n] = Tail(@)] /\ moves \in [Node -> Seq(Move)]
    BY <1>1 DEF ApplyMove, SwitchTypeOK, QueuesOrdered
  <2>2. Tail(moves[n]) \in Seq(Move) /\ LeftsUp(Tail(moves[n])) /\ Head(moves[n]) \in Move
    BY <2>1, MoveTaken
  <2>3. Head(moves[n]).to \in Channel BY <2>2 DEF Move
  <2>4. LeverTypeOK'
    BY <1>1, <2>3, SetOperatingChannelType DEF ApplyMove, SwitchTypeOK, LeverTypeOK, configVars
  <2>5. lastMove' \in [Sta -> {"none", "coordinated", "plain"}] /\ astray' \in SUBSET Sta
    <3>1. lastMove \in [Sta -> {"none", "coordinated", "plain"}] /\ astray \in SUBSET Sta
      BY DEF SwitchTypeOK
    <3>2. QED BY <1>1, <3>1 DEF ApplyMove
  <2>6. moves' \in [Node -> Seq(Move)] /\ \A o \in Node : LeftsUp(moves'[o])
    <3>1. \A o \in Node : LeftsUp(moves[o]) BY DEF QueuesOrdered
    <3>2. QED BY <2>1, <2>2, <3>1
  <2>7. UNCHANGED <<joined, listed, coordinated, flagResets, watchdog, sinceSwitch, switches, roams>>
    BY <1>1 DEF ApplyMove
  <2>8. SwitchTypeOK' BY <2>4, <2>5, <2>6, <2>7 DEF SwitchTypeOK
  <2>9. QueuesOrdered' BY <2>6, <2>7 DEF QueuesOrdered
  <2>10. QED BY <2>8, <2>9
<1>2. CASE ResetFlag(n)
  <2> DEFINE T == 0..SwitchDelay + FlagDelay
             f == flagResets[n]
  <2>1. /\ f \in Seq(T) /\ f # <<>> /\ ResetsUp(f)
        /\ flagResets' = [flagResets EXCEPT ![n] = Tail(@)] /\ flagResets \in [Node -> Seq(T)]
        /\ \A i \in 1..Len(f) : f[i] <= ResetDelay(n)
    BY <1>2 DEF ResetFlag, SwitchTypeOK, QueuesOrdered
  <2>2. /\ Tail(f) \in Seq(T) /\ ResetsUp(Tail(f))
        /\ \A i \in 1..Len(Tail(f)) : i + 1 \in 1..Len(f) /\ Tail(f)[i] = f[i + 1]
    <3> HIDE DEF T
    <3>1. QED BY <2>1, ResetTaken, FirstTaken
  <2>3. flagResets' \in [Node -> Seq(T)]
        /\ \A o \in Node : /\ ResetsUp(flagResets'[o])
                           /\ \A i \in 1..Len(flagResets'[o]) : flagResets'[o][i] <= ResetDelay(o)
    <3> HIDE DEF T
    <3>1. \A o \in Node : /\ ResetsUp(flagResets[o])
                          /\ \A i \in 1..Len(flagResets[o]) : flagResets[o][i] <= ResetDelay(o)
      BY DEF QueuesOrdered
    <3>2. \A i \in 1..Len(Tail(f)) : Tail(f)[i] <= ResetDelay(n) BY <2>1, <2>2
    <3>3. flagResets'[n] = Tail(f) /\ \A o \in Node : o # n => flagResets'[o] = flagResets[o]
      BY <2>1
    <3>4. flagResets' \in [Node -> Seq(T)] BY <2>1, <2>2
    <3> HIDE DEF f
    <3>5. QED BY <2>2, <3>1, <3>2, <3>3, <3>4
  <2>4. LeverTypeOK' /\ coordinated' \in [Node -> BOOLEAN]
    BY <1>2 DEF ResetFlag, SwitchTypeOK, LeverTypeOK, leverVars
  <2>5. UNCHANGED <<joined, listed, moves, watchdog, sinceSwitch, switches, roams, lastMove, astray>>
    BY <1>2 DEF ResetFlag
  <2>6. SwitchTypeOK' BY <2>3, <2>4, <2>5 DEF SwitchTypeOK
  <2>7. QueuesOrdered' BY <2>3, <2>5 DEF QueuesOrdered, ResetDelay
  <2>8. QED BY <2>6, <2>7
<1>3. QED BY <1>1, <1>2

\* A tick takes one from every delay.
LEMMA Ticked ==
  ASSUME SwitchTypeOK, QueuesOrdered, SwitchTick, NEW n \in Node
  PROVE  /\ moves'[n] \in Seq(Move) /\ LeftsUp(moves'[n]) /\ Len(moves'[n]) = Len(moves[n])
         /\ \A i \in 1..Len(moves[n]) :
              /\ moves[n][i].left > 0 /\ moves'[n][i].left = moves[n][i].left - 1
              /\ moves'[n][i].to = moves[n][i].to /\ moves'[n][i].by = moves[n][i].by
              /\ moves'[n][i].coordinated = moves[n][i].coordinated
         /\ flagResets'[n] \in Seq(0..SwitchDelay + FlagDelay) /\ ResetsUp(flagResets'[n])
         /\ Len(flagResets'[n]) = Len(flagResets[n])
         /\ \A i \in 1..Len(flagResets[n]) :
              flagResets[n][i] > 0 /\ flagResets'[n][i] = flagResets[n][i] - 1
<1>1. /\ moves[n] \in Seq(Move) /\ LeftsUp(moves[n])
      /\ flagResets[n] \in Seq(0..SwitchDelay + FlagDelay) /\ ResetsUp(flagResets[n])
  BY DEF SwitchTypeOK, QueuesOrdered
<1>2. /\ ~(moves[n] # <<>> /\ Head(moves[n]).left = 0)
      /\ ~(flagResets[n] # <<>> /\ Head(flagResets[n]) = 0)
  BY DEF SwitchTick, SwitchesDue
<1>3. /\ moves'[n] = [i \in 1..Len(moves[n]) |-> [moves[n][i] EXCEPT !.left = @ - 1]]
      /\ flagResets'[n] = [i \in 1..Len(flagResets[n]) |-> flagResets[n][i] - 1]
  BY DEF SwitchTick
<1>4. SwitchDelay + FlagDelay \in Nat BY SwitchAssumption
<1>5. /\ moves'[n] \in Seq(Move) /\ LeftsUp(moves'[n]) /\ Len(moves'[n]) = Len(moves[n])
      /\ \A i \in 1..Len(moves[n]) :
           /\ moves[n][i].left > 0 /\ moves'[n][i].left = moves[n][i].left - 1
           /\ moves'[n][i].to = moves[n][i].to /\ moves'[n][i].by = moves[n][i].by
           /\ moves'[n][i].coordinated = moves[n][i].coordinated
  <2> DEFINE q == moves[n]
             r == moves'[n]
  <2>1. q \in Seq(Move) /\ LeftsUp(q) BY <1>1
  <2>2. ~(q # <<>> /\ Head(q).left = 0) BY <1>2
  <2>3. r = [i \in 1..Len(q) |-> [q[i] EXCEPT !.left = @ - 1]] BY <1>3
  <2> HIDE DEF q, r
  <2>4. /\ r \in Seq(Move) /\ LeftsUp(r) /\ Len(r) = Len(q)
        /\ \A i \in 1..Len(q) : /\ q[i].left > 0 /\ r[i].left = q[i].left - 1
                                /\ r[i].to = q[i].to /\ r[i].by = q[i].by
                                /\ r[i].coordinated = q[i].coordinated
    BY <2>1, <2>2, <2>3, MovesTick, Zenon
  <2>5. QED BY <2>4 DEF q, r
<1>6. /\ flagResets'[n] \in Seq(0..SwitchDelay + FlagDelay) /\ ResetsUp(flagResets'[n])
      /\ Len(flagResets'[n]) = Len(flagResets[n])
      /\ \A i \in 1..Len(flagResets[n]) :
           flagResets[n][i] > 0 /\ flagResets'[n][i] = flagResets[n][i] - 1
  BY <1>1, <1>2, <1>3, <1>4, ResetsTick
<1>7. QED BY <1>5, <1>6

LEMMA SwitchTypeTick ==
  ASSUME SwitchTypeOK, QueuesOrdered, SwitchTick
  PROVE  SwitchTypeOK' /\ QueuesOrdered'
<1>1. moves' \in [Node -> Seq(Move)] /\ flagResets' \in [Node -> Seq(0..SwitchDelay + FlagDelay)]
  <2>1. moves' = [n \in Node |-> moves'[n]] /\ flagResets' = [n \in Node |-> flagResets'[n]]
    BY DEF SwitchTick
  <2>2. QED BY <2>1, Ticked
<1>2. watchdog' \in [Sta -> Off..WatchdogDelay]
  <2>1. watchdog \in [Sta -> Off..WatchdogDelay] /\ WatchdogDelay \in Nat /\ Off = -1
    BY SwitchAssumption DEF SwitchTypeOK, Off
  <2>2. watchdog' = [s \in Sta |-> IF HearsBeacon(s) THEN WatchdogDelay
                                   ELSE IF watchdog[s] > 0 THEN watchdog[s] - 1 ELSE watchdog[s]]
    BY DEF SwitchTick
  <2> HIDE DEF Off
  <2>3. \A k \in Off..WatchdogDelay : k > 0 => k - 1 \in Off..WatchdogDelay BY <2>1
  <2>4. WatchdogDelay \in Off..WatchdogDelay BY <2>1
  <2>5. QED BY <2>1, <2>2, <2>3, <2>4
<1>3. sinceSwitch' \in 0..Spacing BY SwitchAssumption DEF SwitchTick, SwitchTypeOK
<1>4. LeverTypeOK' BY DEF SwitchTick, SwitchTypeOK, LeverTypeOK, leverVars
<1>5. UNCHANGED <<joined, listed, coordinated, switches, roams, lastMove, astray>> BY DEF SwitchTick
<1>6. SwitchTypeOK' BY <1>1, <1>2, <1>3, <1>4, <1>5 DEF SwitchTypeOK
<1>7. QueuesOrdered'
  <2>1. ASSUME NEW n \in Node, NEW i \in 1..Len(flagResets'[n])
        PROVE  flagResets'[n][i] <= ResetDelay(n)
    <3>1. i \in 1..Len(flagResets[n]) /\ flagResets'[n][i] = flagResets[n][i] - 1
      BY <2>1, Ticked
    <3>2. flagResets[n] \in Seq(0..SwitchDelay + FlagDelay) /\ flagResets[n][i] <= ResetDelay(n)
      BY <3>1 DEF QueuesOrdered, SwitchTypeOK
    <3>3. flagResets[n][i] \in 0..SwitchDelay + FlagDelay
      <4>1. ASSUME NEW S, NEW f \in Seq(S), NEW k \in 1..Len(f) PROVE f[k] \in S OBVIOUS
      <4>2. QED BY <3>1, <3>2, <4>1
    <3>4. ResetDelay(n) \in Nat BY SwitchAssumption DEF ResetDelay
    <3>5. QED BY <3>1, <3>4, <3>2, <3>3, SwitchAssumption
  <2>2. QED BY <2>1, Ticked DEF QueuesOrdered, ResetDelay
<1>8. QED BY <1>6, <1>7

\* Every step keeps the state well typed and the queues in order.
LEMMA SwitchOrdered == SwitchSpec => [](SwitchTypeOK /\ QueuesOrdered)
<1>1. SwitchTypeOK /\ QueuesOrdered /\ [SwitchNext]_switchVars => (SwitchTypeOK /\ QueuesOrdered)'
  <2>1. SwitchTypeOK /\ QueuesOrdered /\ SwitchNext => (SwitchTypeOK /\ QueuesOrdered)'
    BY SwitchTypeStations, SwitchTypeCalls, SwitchTypeEvents, SwitchTypeTick DEF SwitchNext
  <2>2. SwitchTypeOK /\ QueuesOrdered /\ UNCHANGED switchVars => (SwitchTypeOK /\ QueuesOrdered)'
    BY DEF SwitchTypeOK, QueuesOrdered, switchVars, macVars, leverVars, LeverTypeOK
  <2>3. QED BY <2>1, <2>2
<1>2. QED BY <1>1, SwitchTypeInit, PTL DEF SwitchSpec

\* No call and no event leaves a delay below zero, or a switch that is not a switch: the
\* clock waits for whatever is due.
THEOREM SwitchTypeCorrect == SwitchSpec => []SwitchTypeOK
  BY SwitchOrdered, PTL

----------------------------------------------------------------------------
(* Stations follow their AP.  The switches of one node come one tick apart at least, and *)
(* what an AP has asked of a station that follows it is what it has asked of itself: of  *)
(* an instant's switches one of the two may have been made, put off or not yet begun, but *)
(* both end on one channel before the clock goes on.                                    *)

MovesApart ==
  /\ \A n \in Node : \A i \in 1..Len(moves[n]) :
       /\ moves[n][i].left = SwitchDelay => sinceSwitch = 0
       /\ \A j \in 1..Len(moves[n]) : i < j => moves[n][i].left < moves[n][j].left
  /\ \A a \in AP : \A i \in 1..Len(moves[a]) : moves[a][i].by = a

\* What AP a has asked of node n,
Asked(n, a) == {m \in {moves[n][i] : i \in 1..Len(moves[n])} : m.by = a}

\* later and now.
Later(n, a) == {m \in Asked(n, a) : m.left > 0}
Due(n, a) == {m \in Asked(n, a) : m.left = 0}

\* Where this instant leaves the node, as far as AP a has asked.
EndsOn(n, a, c) ==
  \/ Due(n, a) # {} /\ ~PutOff(n) /\ \A m \in Due(n, a) : m.to = c
  \/ /\ Due(n, a) = {} /\ \A d \in Channel : postponed[n][d] > 0 => d = c
     /\ PutOff(n) \/ phyChannel[n] = c

FollowsItsAp(s, a) ==
  /\ s \in listed[a] /\ \A c \in Channel : retries[a][c] = 0
  /\ Later(s, a) = Later(a, a)
  /\ \E c \in Channel : EndsOn(a, a, c) /\ EndsOn(s, a, c)

FollowInv == \A s \in Sta \ astray, a \in AP : joined[s] = a => FollowsItsAp(s, a)

\* The moves scheduled, as the typing has them.
LEMMA MovesTyped ==
  ASSUME SwitchTypeOK, NEW n \in Node
  PROVE  /\ moves[n] \in Seq(Move) /\ Len(moves[n]) \in Nat
         /\ \A i \in 1..Len(moves[n]) : moves[n][i] \in Move /\ moves[n][i].left \in 0..SwitchDelay
<1>1. moves[n] \in Seq(Move) BY DEF SwitchTypeOK
<1>2. \A q \in Seq(Move) : Len(q) \in Nat /\ \A i \in 1..Len(q) : q[i] \in Move OBVIOUS
<1>3. \A m \in Move : m.left \in 0..SwitchDelay BY DEF Move
<1>4. QED BY <1>1, <1>2, <1>3

\* Calls that leave a tick at least between them keep the moves apart.
LEMMA ApartNext ==
  ASSUME Spacing > 0, SwitchTypeOK, QueuesOrdered, MovesApart, [SwitchNext]_switchVars
  PROVE  MovesApart'
<1>1. AP \subseteq Node /\ Sta \subseteq Node /\ SwitchDelay \in Nat /\ Spacing \in Nat /\ sinceSwitch \in 0..Spacing
  BY SwitchAssumption DEF SwitchTypeOK
<1>2. CASE UNCHANGED <<moves, sinceSwitch>> BY <1>2 DEF MovesApart
<1>3. ASSUME NEW n \in Node, ApplyMove(n) PROVE MovesApart'
  <2>1. /\ moves[n] \in Seq(Move) /\ moves[n] # <<>>
        /\ moves' = [moves EXCEPT ![n] = Tail(@)] /\ moves \in [Node -> Seq(Move)]
        /\ sinceSwitch' = sinceSwitch
    BY <1>3 DEF ApplyMove, SwitchTypeOK
  <2>2. \A i \in 1..Len(Tail(moves[n])) :
          i + 1 \in 1..Len(moves[n]) /\ Tail(moves[n])[i] = moves[n][i + 1]
    BY <2>1, FirstTaken
  <2>3. /\ moves'[n] = Tail(moves[n]) /\ Len(moves'[n]) \in Nat
        /\ \A o \in Node : o # n => moves'[o] = moves[o]
    BY <2>1
  <2>4. ASSUME NEW o \in Node, NEW i \in 1..Len(moves'[o])
        PROVE  \E k \in 1..Len(moves[o]) :
                 /\ moves'[o][i] = moves[o][k]
                 /\ \A j \in 1..Len(moves'[o]) :
                      i < j => \E l \in 1..Len(moves[o]) : k < l /\ moves'[o][j] = moves[o][l]
    <3>1. CASE o = n
      <4>1. i + 1 \in 1..Len(moves[n]) /\ moves'[o][i] = moves[n][i + 1]
        BY <2>2, <2>3, <2>4, <3>1
      <4>2. ASSUME NEW j \in 1..Len(moves'[o]), i < j
            PROVE  j + 1 \in 1..Len(moves[n]) /\ i + 1 < j + 1 /\ moves'[o][j] = moves[n][j + 1]
        <5>1. j + 1 \in 1..Len(moves[n]) /\ moves'[o][j] = moves[n][j + 1]
          BY <2>2, <2>3, <3>1, <4>2
        <5>2. Len(moves'[o]) \in Nat BY <2>3, <3>1
        <5>3. i \in Nat /\ j \in Nat BY <2>4, <4>2, <5>2
        <5>4. i + 1 < j + 1 BY <4>2, <5>3
        <5>5. QED BY <5>1, <5>4
      <4>3. QED BY <3>1, <4>1, <4>2
    <3>2. CASE o # n BY <2>3, <2>4, <3>2
    <3>3. QED BY <3>1, <3>2
  <2> HIDE DEF MovesApart
  <2>5. \A o \in Node : \A i \in 1..Len(moves[o]) :
          /\ moves[o][i].left = SwitchDelay => sinceSwitch = 0
          /\ \A j \in 1..Len(moves[o]) : i < j => moves[o][i].left < moves[o][j].left
    BY DEF MovesApart
  <2>6. \A o \in Node : \A i \in 1..Len(moves'[o]) :
          /\ moves'[o][i].left = SwitchDelay => sinceSwitch' = 0
          /\ \A j \in 1..Len(moves'[o]) : i < j => moves'[o][i].left < moves'[o][j].left
    <3>1. ASSUME NEW o \in Node, NEW i \in 1..Len(moves'[o])
          PROVE  /\ moves'[o][i].left = SwitchDelay => sinceSwitch = 0
                 /\ \A j \in 1..Len(moves'[o]) : i < j => moves'[o][i].left < moves'[o][j].left
      <4>1. PICK k \in 1..Len(moves[o]) :
              /\ moves'[o][i] = moves[o][k]
              /\ \A j \in 1..Len(moves'[o]) :
                   i < j => \E l \in 1..Len(moves[o]) : k < l /\ moves'[o][j] = moves[o][l]
        BY <2>4, <3>1
      <4>2. moves[o][k].left = SwitchDelay => sinceSwitch = 0 BY <2>5
      <4>3. ASSUME NEW j \in 1..Len(moves'[o]), i < j PROVE moves'[o][i].left < moves'[o][j].left
        <5>1. PICK l \in 1..Len(moves[o]) : k < l /\ moves'[o][j] = moves[o][l] BY <4>1, <4>3
        <5>2. moves[o][k].left < moves[o][l].left BY <2>5, <5>1
        <5>3. QED BY <4>1, <5>1, <5>2
      <4>4. QED BY <4>1, <4>2, <4>3
    <3>2. QED BY <2>1, <3>1
  <2>7. \A a \in AP : \A i \in 1..Len(moves'[a]) : moves'[a][i].by = a
    BY <1>1, <2>4 DEF MovesApart
  <2>8. QED BY <2>6, <2>7 DEF MovesApart
<1>4. ASSUME NEW a \in AP, NEW c \in Channel, NEW flag \in BOOLEAN, Propagate(a, c, flag)
      PROVE  MovesApart'
  <2> DEFINE m == [to |-> c, by |-> a, left |-> SwitchDelay, coordinated |-> flag]
  <2>1. /\ m \in Move /\ m.left = SwitchDelay /\ m.by = a /\ Followers(a) \subseteq Sta /\ a \notin Sta
        /\ \A n \in Node : moves'[n] = IF n \in Followers(a) \cup {a} THEN Append(moves[n], m)
                                       ELSE moves[n]
    BY <1>4, Propagated
  <2>2. sinceSwitch = Spacing /\ sinceSwitch' = 0 BY <1>4 DEF Propagate
  <2> HIDE DEF m, Followers
  <2>3. ASSUME NEW n \in Node, NEW i \in 1..Len(moves[n])
        PROVE  moves[n][i].left < SwitchDelay
    <3>1. moves[n][i].left # SwitchDelay BY <1>1, <2>2, <2>3 DEF MovesApart
    <3>2. moves[n][i].left \in 0..SwitchDelay BY <2>3, MovesTyped
    <3>3. QED BY <1>1, <3>1, <3>2
  <2>4. ASSUME NEW n \in Node, NEW i \in 1..Len(moves'[n]), NEW j \in 1..Len(moves'[n]), i < j
        PROVE  moves'[n][i].left < moves'[n][j].left
    <3>1. CASE moves'[n] = moves[n] BY <2>4, <3>1 DEF MovesApart
    <3>2. CASE moves'[n] = Append(moves[n], m)
      <4> DEFINE q == moves[n]
      <4>1. q \in Seq(Move) BY MovesTyped
      <4> HIDE DEF q
      <4>2. /\ Len(Append(q, m)) = Len(q) + 1 /\ Append(q, m)[Len(q) + 1] = m /\ Len(q) \in Nat
            /\ \A k \in 1..Len(q) : Append(q, m)[k] = q[k]
            /\ \A k \in 1..(Len(q) + 1) : k = Len(q) + 1 \/ k \in 1..Len(q)
        BY <2>1, <4>1, Appended
      <4>3. moves'[n] = Append(q, m) BY <3>2 DEF q
      <4>4. i \in 1..Len(q) BY <2>4, <4>2, <4>3
      <4>5. moves'[n][i] = q[i] BY <4>2, <4>3, <4>4
      <4>6. CASE j \in 1..Len(q)
        <5>1. moves'[n][j] = q[j] BY <4>2, <4>3, <4>6
        <5>2. q[i].left < q[j].left BY <2>4, <4>4, <4>6 DEF MovesApart, q
        <5>3. QED BY <4>5, <5>1, <5>2
      <4>7. CASE j = Len(q) + 1
        <5>1. moves'[n][j] = m BY <4>2, <4>3, <4>7
        <5>2. q[i].left < SwitchDelay BY <2>3, <4>4 DEF q
        <5>3. QED BY <2>1, <4>5, <5>1, <5>2
      <4>8. QED BY <2>4, <4>2, <4>3, <4>6, <4>7
    <3>3. QED BY <2>1, <3>1, <3>2
  <2>5. ASSUME NEW b \in AP, NEW i \in 1..Len(moves'[b]) PROVE moves'[b][i].by = b
    <3>1. CASE b # a
      <4>1. moves'[b] = moves[b] BY <1>1, <2>1, <3>1, SwitchAssumption
      <4>2. QED BY <2>5, <4>1 DEF MovesApart
    <3>2. CASE b = a
      <4> DEFINE q == moves[a]
      <4>1. q \in Seq(Move) /\ moves'[b] = Append(q, m) BY <1>1, <2>1, <3>2, MovesTyped
      <4> HIDE DEF q
      <4>2. /\ Len(Append(q, m)) = Len(q) + 1 /\ Append(q, m)[Len(q) + 1] = m
            /\ \A k \in 1..Len(q) : Append(q, m)[k] = q[k]
            /\ \A k \in 1..(Len(q) + 1) : k = Len(q) + 1 \/ k \in 1..Len(q)
        BY <2>1, <4>1, Appended
      <4>3. \A k \in 1..Len(q) : q[k].by = a BY DEF MovesApart, q
      <4>4. QED BY <2>1, <2>5, <3>2, <4>1, <4>2, <4>3
    <3>3. QED BY <3>1, <3>2
  <2>6. QED BY <2>2, <2>4, <2>5 DEF MovesApart
<1>5. CASE SwitchTick
  <2>1. ASSUME NEW n \in Node, NEW i \in 1..Len(moves'[n])
        PROVE  /\ i \in 1..Len(moves[n]) /\ moves'[n][i].left = moves[n][i].left - 1
               /\ moves'[n][i].by = moves[n][i].by /\ moves[n][i].left \in 0..SwitchDelay
    BY <1>5, <2>1, Ticked, MovesTyped
  <2>2. \A n \in Node : \A i \in 1..Len(moves'[n]) : moves'[n][i].left # SwitchDelay
    BY <1>1, <2>1
  <2>3. ASSUME NEW n \in Node, NEW i \in 1..Len(moves'[n]), NEW j \in 1..Len(moves'[n]), i < j
        PROVE  moves'[n][i].left < moves'[n][j].left
    <3>1. moves[n][i].left < moves[n][j].left BY <2>1, <2>3 DEF MovesApart
    <3>2. /\ moves'[n][i].left = moves[n][i].left - 1 /\ moves[n][i].left \in 0..SwitchDelay
          /\ moves'[n][j].left = moves[n][j].left - 1 /\ moves[n][j].left \in 0..SwitchDelay
      BY <2>1
    <3>3. QED BY <1>1, <3>1, <3>2
  <2>4. \A a \in AP : \A i \in 1..Len(moves'[a]) : moves'[a][i].by = a
    BY <1>1, <2>1 DEF MovesApart
  <2>5. QED BY <2>2, <2>3, <2>4 DEF MovesApart
<1>6. ASSUME NEW a \in AP, NEW c \in Channel, SwitchCoordinated(a, c) \/ SwitchChannel(a, c)
      PROVE  \E flag \in BOOLEAN : Propagate(a, c, flag)
  BY <1>1, <1>6 DEF SwitchCoordinated, SwitchChannel, SwitchTypeOK
<1>7. QED BY <1>2, <1>3, <1>4, <1>5, <1>6
      DEF SwitchNext, ApplyPostponed, SwitchNotified, ResetFlag, MissedBeacons, Join, ApForgets, Roam,
          LeverMoves, switchVars, macVars

\* What happens to neither the AP's nor the station's PHY, moves and lists leaves the two
\* together.
LEMMA Undisturbed ==
  ASSUME NEW s, NEW a, FollowsItsAp(s, a), s \in listed'[a], retries'[a] = retries[a],
         moves'[s] = moves[s], postponed'[s] = postponed[s], phyChannel'[s] = phyChannel[s],
         moves'[a] = moves[a], postponed'[a] = postponed[a], phyChannel'[a] = phyChannel[a]
  PROVE  FollowsItsAp(s, a)'
<1>1. Asked(s, a)' = Asked(s, a) /\ Asked(a, a)' = Asked(a, a) BY DEF Asked
<1>2. /\ Later(s, a)' = Later(s, a) /\ Later(a, a)' = Later(a, a)
      /\ Due(s, a)' = Due(s, a) /\ Due(a, a)' = Due(a, a)
  BY <1>1 DEF Later, Due
<1>3. PutOff(s)' = PutOff(s) /\ PutOff(a)' = PutOff(a) BY DEF PutOff
<1>4. PICK c \in Channel : EndsOn(a, a, c) /\ EndsOn(s, a, c) BY DEF FollowsItsAp
<1>5. EndsOn(a, a, c)' /\ EndsOn(s, a, c)' BY <1>2, <1>3, <1>4 DEF EndsOn
<1>6. QED BY <1>2, <1>5 DEF FollowsItsAp

\* One node goes on and the other is left alone: they stay together if what it has been
\* asked later is the same as before, and it ends on the same channel.
LEMMA OneGoesOn ==
  ASSUME NEW s, NEW a, FollowsItsAp(s, a), listed'[a] = listed[a], retries'[a] = retries[a],
         NEW n \in {s, a}, NEW o \in {s, a}, o # n,
         moves'[o] = moves[o], postponed'[o] = postponed[o], phyChannel'[o] = phyChannel[o],
         Later(n, a)' = Later(n, a), \A c \in Channel : EndsOn(n, a, c) => EndsOn(n, a, c)'
  PROVE  FollowsItsAp(s, a)'
<1>1. Asked(o, a)' = Asked(o, a) BY DEF Asked
<1>2. Later(o, a)' = Later(o, a) /\ Due(o, a)' = Due(o, a) BY <1>1 DEF Later, Due
<1>3. PutOff(o)' = PutOff(o) BY DEF PutOff
<1>4. \A c \in Channel : EndsOn(o, a, c) => EndsOn(o, a, c)' BY <1>2, <1>3 DEF EndsOn
<1>5. {s, a} = {n, o} OBVIOUS
<1>6. QED BY <1>2, <1>4, <1>5 DEF FollowsItsAp

\* The end of a transmission leaves the PHY where it was to end.
LEMMA PostponedEnds ==
  ASSUME SwitchTypeOK, NEW n \in Node, NEW a, NEW c \in Channel, EndsOn(n, a, c),
         NEW d \in Channel, EndOfTx(n, d), moves'[n] = moves[n]
  PROVE  EndsOn(n, a, c)'
<1>1. PutOff(n) /\ postponed[n][d] > 0 BY DEF EndOfTx, PutOff
<1>2. Due(n, a) = {} /\ d = c /\ \A e \in Channel : postponed[n][e] > 0 => e = c
  BY <1>1 DEF EndsOn
<1>3. Due(n, a)' = {} BY <1>2 DEF Due, Asked
<1>4. phyChannel'[n] = c BY <1>2, PhyOn DEF EndOfTx, SwitchTypeOK
<1>5. \A e \in Channel : postponed'[n][e] > 0 => postponed[n][e] > 0
  BY CountsDown DEF EndOfTx, SwitchTypeOK, LeverTypeOK
<1>6. QED BY <1>2, <1>3, <1>4, <1>5 DEF EndsOn

\* A switch that is due is made or put off, and the node ends where it was to end.
LEMMA MoveEnds ==
  ASSUME SwitchTypeOK, MovesApart, NEW n \in Node, NEW a, ApplyMove(n), Head(moves[n]).by = a
  PROVE  /\ Later(n, a)' = Later(n, a)
         /\ \A c \in Channel : EndsOn(n, a, c) => EndsOn(n, a, c)'
<1> DEFINE h == Head(moves[n])
<1>1. /\ moves[n] \in Seq(Move) /\ moves[n] # <<>> /\ h.left = 0 /\ h.by = a
      /\ moves'[n] = Tail(moves[n]) /\ SetOperatingChannel(n, h.to)
  BY DEF ApplyMove, SwitchTypeOK
<1>2. /\ h = moves[n][1] /\ 1 \in 1..Len(moves[n]) /\ h \in Move
      /\ \A i \in 1..Len(Tail(moves[n])) :
           i + 1 \in 1..Len(moves[n]) /\ Tail(moves[n])[i] = moves[n][i + 1]
  BY <1>1, FirstTaken
<1>3. Len(moves[n]) \in Nat /\ Len(Tail(moves[n])) = Len(moves[n]) - 1 BY <1>1
<1>4. h.to \in Channel BY <1>2 DEF Move
<1> HIDE DEF h
<1>5. \A i \in 1..Len(moves[n]) : i = 1 \/ (i - 1 \in 1..Len(Tail(moves[n])) /\ (i - 1) + 1 = i)
  BY <1>3
<1>6. {moves'[n][i] : i \in 1..Len(moves'[n])} \cup {h} = {moves[n][i] : i \in 1..Len(moves[n])}
  <2>1. ASSUME NEW i \in 1..Len(moves'[n])
        PROVE  \E k \in 1..Len(moves[n]) : moves'[n][i] = moves[n][k]
    BY <1>1, <1>2, <2>1
  <2>2. ASSUME NEW i \in 1..Len(moves[n]), moves[n][i] # h
        PROVE  \E k \in 1..Len(moves'[n]) : moves[n][i] = moves'[n][k]
    <3>1. i - 1 \in 1..Len(Tail(moves[n])) /\ (i - 1) + 1 = i BY <1>2, <1>5, <2>2
    <3>2. Tail(moves[n])[i - 1] = moves[n][i] BY <1>2, <3>1
    <3>3. QED BY <1>1, <3>1, <3>2
  <2>3. QED BY <1>2, <2>1, <2>2
<1>7. \A i \in 1..Len(moves'[n]) : moves'[n][i].left > 0
  <2>1. ASSUME NEW i \in 1..Len(Tail(moves[n])) PROVE moves[n][i + 1].left > 0
    <3>1. i + 1 \in 1..Len(moves[n]) /\ 1 < i + 1 BY <1>2, <1>3, <2>1
    <3>2. moves[n][1].left < moves[n][i + 1].left BY <1>2, <3>1 DEF MovesApart
    <3>3. QED BY <1>1, <1>2, <3>2
  <2>2. QED BY <1>1, <1>2, <2>1
<1>8. Asked(n, a) = Asked(n, a)' \cup {h} BY <1>1, <1>6 DEF Asked
<1>9. \A m \in Asked(n, a)' : m.left > 0 BY <1>7 DEF Asked
<1>10. ~(0 > 0) OBVIOUS
<1>11. Later(n, a)' = Later(n, a)
  BY <1>1, <1>8, <1>10 DEF Later
<1>12. Due(n, a)' = {} /\ h \in Due(n, a)
  <2>1. \A m : m.left > 0 => m.left # 0 OBVIOUS
  <2>2. QED BY <1>1, <1>8, <1>9, <2>1 DEF Due
<1>13. ASSUME NEW c \in Channel, EndsOn(n, a, c) PROVE EndsOn(n, a, c)'
  <2>1. ~PutOff(n) /\ h.to = c BY <1>12, <1>13 DEF EndsOn
  <2>2. \A d \in Channel : ~(postponed[n][d] > 0) BY <2>1 DEF PutOff
  <2>3. CASE (SwitchPhy(n, c) \/ AlreadyOn(n, c)) /\ UNCHANGED postponed
    <3>1. phyChannel'[n] = c BY <2>3, PhyOn DEF SwitchTypeOK
    <3>2. QED BY <1>12, <2>2, <2>3, <3>1 DEF EndsOn
  <2>4. CASE postponed' = [postponed EXCEPT ![n][c] = @ + 1]
    <3>1. postponed \in [Node -> [Channel -> Nat]] BY DEF SwitchTypeOK, LeverTypeOK
    <3>2. postponed'[n][c] = postponed[n][c] + 1 /\ postponed[n][c] \in Nat BY <2>4, <3>1
    <3>3. \A d \in Channel : d # c => postponed'[n][d] = postponed[n][d] BY <2>4, <3>1
    <3>4. postponed'[n][c] > 0 BY <3>2
    <3>5. PutOff(n)' BY <3>4 DEF PutOff
    <3>6. QED BY <1>12, <2>2, <3>3, <3>5 DEF EndsOn
  <2>5. QED BY <1>1, <2>1, <2>3, <2>4 DEF SetOperatingChannel
<1>14. QED BY <1>11, <1>13

\* A call asks the AP and every station that follows it for the same switch.
LEMMA CallAsks ==
  ASSUME SwitchTypeOK, QueuesOrdered, NEW s \in Sta, NEW a \in AP, FollowsItsAp(s, a),
         NEW b \in AP, NEW c \in Channel, NEW flag \in BOOLEAN, Propagate(b, c, flag),
         UNCHANGED leverVars, s \in listed'[a]
  PROVE  FollowsItsAp(s, a)'
<1> DEFINE m == [to |-> c, by |-> b, left |-> SwitchDelay, coordinated |-> flag]
<1>1. s \in Node /\ a \in Node /\ s # a /\ b \notin Sta /\ SwitchDelay \in Nat \ {0}
  BY SwitchAssumption
<1>2. /\ m.left = SwitchDelay /\ m.by = b /\ m \in Move
      /\ \A n \in Node : moves'[n] = IF n \in Followers(b) \cup {b} THEN Append(moves[n], m)
                                     ELSE moves[n]
      /\ Followers(b) \subseteq Sta
  BY Propagated
<1>3. ~(m.left = 0) /\ m.left > 0 BY <1>1, <1>2
<1> HIDE DEF m
<1>4. ASSUME NEW n \in Node, moves'[n] = Append(moves[n], m)
      PROVE  {moves'[n][i] : i \in 1..Len(moves'[n])} = {moves[n][i] : i \in 1..Len(moves[n])} \cup {m}
  <2> DEFINE q == moves[n]
             r == moves'[n]
  <2>1. q \in Seq(Move) /\ r = Append(q, m) BY <1>4, MovesTyped
  <2> HIDE DEF q, r
  <2>2. /\ Len(r) = Len(q) + 1 /\ r[Len(q) + 1] = m /\ Len(q) \in Nat
        /\ \A k \in 1..Len(q) : r[k] = q[k]
        /\ \A k \in 1..(Len(q) + 1) : k = Len(q) + 1 \/ k \in 1..Len(q)
    BY <1>2, <2>1, Appended
  <2>3. Len(q) + 1 \in 1..Len(r) /\ \A k \in 1..Len(q) : k \in 1..Len(r) BY <2>2
  <2>4. {r[i] : i \in 1..Len(r)} = {q[i] : i \in 1..Len(q)} \cup {m} BY <2>2, <2>3
  <2>5. QED BY <2>4 DEF q, r
<1>5. ASSUME NEW n \in {s, a}
      PROVE  /\ Later(n, a)' = IF b = a THEN Later(n, a) \cup {m} ELSE Later(n, a)
             /\ Due(n, a)' = Due(n, a)
  <2>1. n \in Node BY <1>1, <1>5
  <2>2. CASE moves'[n] = Append(moves[n], m)
    <3>1. Asked(n, a)' = Asked(n, a) \cup (IF b = a THEN {m} ELSE {})
      <4>1. {moves'[n][i] : i \in 1..Len(moves'[n])} = {moves[n][i] : i \in 1..Len(moves[n])} \cup {m}
        BY <1>4, <2>1, <2>2
      <4>2. QED BY <1>2, <4>1 DEF Asked
    <3>2. QED BY <1>3, <3>1 DEF Later, Due
  <2>3. CASE moves'[n] = moves[n] /\ b # a
    <3>1. Asked(n, a)' = Asked(n, a) BY <2>3 DEF Asked
    <3>2. QED BY <2>3, <3>1 DEF Later, Due
  <2>4. b = a => n \in Followers(b) \cup {b}
    BY <1>5 DEF Followers, FollowsItsAp
  <2>5. QED BY <1>2, <2>1, <2>2, <2>3, <2>4
<1>6. /\ UNCHANGED <<retries, postponed, phyChannel>>
      /\ PutOff(s)' = PutOff(s) /\ PutOff(a)' = PutOff(a)
  BY DEF leverVars, PutOff
<1>7. Later(s, a)' = Later(a, a)' BY <1>5 DEF FollowsItsAp
<1>8. PICK d \in Channel : EndsOn(a, a, d) /\ EndsOn(s, a, d) BY DEF FollowsItsAp
<1>9. EndsOn(a, a, d)' /\ EndsOn(s, a, d)' BY <1>5, <1>6, <1>8 DEF EndsOn
<1>10. QED BY <1>6, <1>7, <1>9 DEF FollowsItsAp

\* What AP a has asked of a node, one tick later.
LEMMA AskedTick ==
  ASSUME SwitchTypeOK, QueuesOrdered, SwitchTick, NEW n \in Node, NEW a
  PROVE  /\ Asked(n, a)' = {[m EXCEPT !.left = @ - 1] : m \in Asked(n, a)}
         /\ Due(n, a) = {} /\ Later(n, a) = Asked(n, a)
<1>1. /\ moves'[n] = [i \in 1..Len(moves[n]) |-> [moves[n][i] EXCEPT !.left = @ - 1]]
      /\ Len(moves'[n]) = Len(moves[n])
  BY Ticked DEF SwitchTick
<1>2. \A i \in 1..Len(moves[n]) : /\ moves'[n][i].by = moves[n][i].by /\ moves[n][i].left > 0
                                  /\ ~(moves[n][i].left = 0)
  <2>1. \A i \in 1..Len(moves[n]) : moves'[n][i].by = moves[n][i].by /\ moves[n][i].left > 0
    BY Ticked
  <2>2. \A k : k > 0 => ~(k = 0) OBVIOUS
  <2>3. QED BY <2>1, <2>2
<1>3. \A i \in 1..Len(moves[n]) : moves'[n][i] = [moves[n][i] EXCEPT !.left = @ - 1]
  BY <1>1
<1>4. ASSUME NEW k PROVE k \in Asked(n, a)' <=> \E m \in Asked(n, a) : k = [m EXCEPT !.left = @ - 1]
  <2>1. ASSUME k \in Asked(n, a)' PROVE \E m \in Asked(n, a) : k = [m EXCEPT !.left = @ - 1]
    <3>1. PICK i \in 1..Len(moves'[n]) : k = moves'[n][i] /\ moves'[n][i].by = a
      BY <2>1 DEF Asked
    <3>2. i \in 1..Len(moves[n]) BY <1>1, <3>1
    <3>3. moves[n][i] \in Asked(n, a) BY <1>2, <3>1, <3>2 DEF Asked
    <3>4. QED BY <1>3, <3>1, <3>2, <3>3
  <2>2. ASSUME NEW m \in Asked(n, a), k = [m EXCEPT !.left = @ - 1] PROVE k \in Asked(n, a)'
    <3>1. PICK i \in 1..Len(moves[n]) : m = moves[n][i] /\ m.by = a BY <2>2 DEF Asked
    <3>2. k = moves'[n][i] /\ k.by = a BY <1>2, <1>3, <2>2, <3>1
    <3>3. QED BY <1>1, <3>1, <3>2 DEF Asked
  <2>3. QED BY <2>1, <2>2
<1>5. Asked(n, a)' = {[m EXCEPT !.left = @ - 1] : m \in Asked(n, a)} BY <1>4
<1>6. \A m \in Asked(n, a) : m.left > 0 /\ ~(m.left = 0) BY <1>2 DEF Asked
<1>7. QED BY <1>5, <1>6 DEF Later, Due

\* The clock goes on when every switch of the instant is made: the AP and the station are
\* then on one channel, and what becomes due is asked of both.
LEMMA TickFollows ==
  ASSUME SwitchTypeOK, QueuesOrdered, MovesApart', SwitchTick, NEW s \in Sta, NEW a \in AP,
         FollowsItsAp(s, a)
  PROVE  FollowsItsAp(s, a)'
<1>1. s \in Node /\ a \in Node BY SwitchAssumption
<1>2. /\ UNCHANGED <<listed, retries, postponed, phyChannel>> /\ ~PutOff(s) /\ ~PutOff(a)
  BY <1>1 DEF SwitchTick, SwitchesDue, leverVars
<1>3. ~PutOff(s)' /\ ~PutOff(a)' /\ \A d \in Channel : ~(postponed'[s][d] > 0) /\ ~(postponed'[a][d] > 0)
  BY <1>2 DEF PutOff
<1>4. Asked(s, a)' = Asked(a, a)' BY <1>1, AskedTick DEF FollowsItsAp
<1>5. Later(s, a)' = Later(a, a)' /\ Due(s, a)' = Due(a, a)' BY <1>4 DEF Later, Due
<1>6. PICK c \in Channel : EndsOn(a, a, c) /\ EndsOn(s, a, c) BY DEF FollowsItsAp
<1>7. phyChannel'[a] = c /\ phyChannel'[s] = c
  BY <1>1, <1>2, <1>6, AskedTick DEF EndsOn
<1>8. \E d \in Channel : EndsOn(a, a, d)' /\ EndsOn(s, a, d)'
  <2>1. CASE Due(a, a)' = {}
    BY <1>3, <1>5, <1>7, <2>1 DEF EndsOn
  <2>2. ASSUME NEW m \in Due(a, a)' PROVE \E d \in Channel : EndsOn(a, a, d)' /\ EndsOn(s, a, d)'
    <3>1. PICK i \in 1..Len(moves'[a]) : m = moves'[a][i] /\ m.left = 0 BY <2>2 DEF Due, Asked
    <3>2. \A j \in 1..Len(moves'[a]) :
            moves'[a][j].left = 0 => moves'[a][j] = m
      <4>1. ASSUME NEW j \in 1..Len(moves'[a]), moves'[a][j].left = 0 PROVE j = i
        <5>1. i < j => moves'[a][i].left < moves'[a][j].left BY <1>1, <4>1 DEF MovesApart
        <5>2. j < i => moves'[a][j].left < moves'[a][i].left BY <1>1, <4>1 DEF MovesApart
        <5>3. ~(0 < 0) OBVIOUS
        <5>4. ~(i < j) /\ ~(j < i) BY <3>1, <4>1, <5>1, <5>2, <5>3
        <5>5. Len(moves'[a]) \in Nat BY <1>1, Ticked, MovesTyped
        <5>6. QED BY <5>4, <5>5
      <4>2. QED BY <3>1, <4>1
    <3>3. \A k \in Due(a, a)' : k.to = m.to BY <3>2 DEF Due, Asked
    <3>4. m.to \in Channel
      <4>1. moves'[a] \in Seq(Move) BY <1>1, Ticked
      <4>2. m \in Move BY <3>1, <4>1
      <4>3. QED BY <4>2 DEF Move
    <3>5. EndsOn(a, a, m.to)' BY <1>3, <2>2, <3>3 DEF EndsOn
    <3>6. EndsOn(s, a, m.to)' BY <1>3, <1>5, <2>2, <3>3 DEF EndsOn
    <3>7. QED BY <3>4, <3>5, <3>6
  <2>3. QED BY <2>1, <2>2
<1>9. QED BY <1>2, <1>5, <1>8 DEF FollowsItsAp

\* A station that joins its AP with nothing on its way is on its channel.
LEMMA JoinFollows ==
  ASSUME SwitchTypeOK, NEW s \in Sta, NEW a \in AP, Join(s, a), s \notin astray'
  PROVE  FollowsItsAp(s, a)'
<1>1. s \in Node /\ a \in Node BY SwitchAssumption
<1>2. /\ ~Moving(a) /\ ~Moving(s) /\ ~PutOff(a) /\ ~PutOff(s) /\ phyChannel[s] = phyChannel[a]
      /\ s \in listed'[a] /\ UNCHANGED <<moves, retries, postponed, phyChannel>>
  BY DEF Join, SwitchTypeOK, leverVars
<1>3. moves'[s] = <<>> /\ moves'[a] = <<>> /\ \A c \in Channel : retries'[a][c] = 0
  BY <1>2 DEF Moving, Quiet
<1>4. Asked(s, a)' = {} /\ Asked(a, a)' = {}
  <2>1. Len(moves'[s]) = 0 /\ Len(moves'[a]) = 0 BY <1>3
  <2>2. QED BY <2>1 DEF Asked
<1>5. /\ Later(s, a)' = {} /\ Later(a, a)' = {} /\ Due(s, a)' = {} /\ Due(a, a)' = {}
  BY <1>4 DEF Later, Due
<1>6. \A d \in Channel : ~(postponed'[s][d] > 0) /\ ~(postponed'[a][d] > 0)
  BY <1>2 DEF PutOff
<1>7. PICK c \in Channel : c = phyChannel[a] BY <1>1 DEF SwitchTypeOK, LeverTypeOK
<1>8. EndsOn(a, a, c)' /\ EndsOn(s, a, c)' BY <1>2, <1>5, <1>6, <1>7 DEF EndsOn
<1>9. QED BY <1>2, <1>3, <1>5, <1>7, <1>8 DEF FollowsItsAp

\* What a step of one PHY leaves of the others.
LEMMA OtherPhys ==
  ASSUME SwitchTypeOK, NEW n \in Node, NEW c \in Channel, NEW o \in Node, o # n,
         \/ SetOperatingChannel(n, c) /\ UNCHANGED retries
         \/ EndOfTx(n, c) \/ Retry(n, c) \/ ConfigureChannel(n, c)
  PROVE  /\ phyChannel'[o] = phyChannel[o] /\ postponed'[o] = postponed[o]
         /\ retries'[o] = retries[o]
<1>1. CASE SetOperatingChannel(n, c) /\ UNCHANGED retries
  BY <1>1 DEF SetOperatingChannel, SwitchPhy, AlreadyOn, SwitchTypeOK, LeverTypeOK
<1>2. CASE EndOfTx(n, c)
  BY <1>2 DEF EndOfTx, SwitchPhy, AlreadyOn, SwitchTypeOK, LeverTypeOK
<1>3. CASE Retry(n, c)
  BY <1>3 DEF Retry, SwitchPhy, AlreadyOn, SwitchTypeOK, LeverTypeOK
<1>4. CASE ConfigureChannel(n, c)
  BY <1>4 DEF ConfigureChannel, OnChannelSettingsChanged, SwitchPhy, AlreadyOn, SwitchTypeOK,
              LeverTypeOK
<1>5. QED BY <1>1, <1>2, <1>3, <1>4

\* Stations that come and go, calls of LeverConfig, and flags.
LEMMA StationsFollow ==
  ASSUME SwitchTypeOK, FollowInv, NEW s \in Sta \ astray', NEW a \in AP, joined'[s] = a,
         \/ \E n \in Node : SwitchNotified(n) \/ ResetFlag(n)
         \/ \E t \in Sta : \/ MissedBeacons(t)
                           \/ \E b \in AP : Join(t, b) \/ ApForgets(b, t)
                           \/ \E c \in Channel : Roam(t, c)
         \/ \E b \in AP : LeverMoves(b)
  PROVE  FollowsItsAp(s, a)'
<1>1. s \in Node /\ a \in Node /\ a # NoAp /\ s # a /\ s \notin AP /\ a \notin Sta
  BY SwitchAssumption
<1>2. ASSUME joined[s] = a, s \notin astray PROVE FollowsItsAp(s, a) /\ s \in listed[a]
  BY <1>2 DEF FollowInv, FollowsItsAp
<1>3. joined \in [Sta -> AP \cup {NoAp}] /\ listed \in [AP -> SUBSET Sta] BY DEF SwitchTypeOK
<1>4. ASSUME NEW n \in Node, SwitchNotified(n) \/ ResetFlag(n) PROVE FollowsItsAp(s, a)'
  <2>1. UNCHANGED <<listed, astray, moves, retries, postponed, phyChannel>>
    BY <1>4 DEF SwitchNotified, SwitchOver, ResetFlag, leverVars
  <2>2. joined[s] = a
    BY <1>1, <1>3, <1>4 DEF SwitchNotified, Notified, ResetFlag
  <2>3. QED BY <1>2, <2>1, <2>2, Undisturbed
<1>5. ASSUME NEW t \in Sta, MissedBeacons(t) PROVE FollowsItsAp(s, a)'
  <2>1. UNCHANGED <<listed, astray, moves, retries, postponed, phyChannel>> /\ joined[s] = a
    BY <1>1, <1>3, <1>5 DEF MissedBeacons, leverVars
  <2>2. QED BY <1>2, <2>1, Undisturbed
<1>6. ASSUME NEW t \in Sta, NEW b \in AP, Join(t, b) PROVE FollowsItsAp(s, a)'
  <2>1. CASE t = s
    <3>1. b = a BY <1>1, <1>3, <1>6, <2>1 DEF Join
    <3>2. QED BY <1>6, <2>1, <3>1, JoinFollows
  <2>2. CASE t # s
    <3>1. UNCHANGED <<moves, retries, postponed, phyChannel>> /\ joined[s] = a /\ s \notin astray
      BY <1>1, <1>3, <1>6, <2>2 DEF Join, leverVars
    <3>2. s \in listed[a] BY <1>2, <3>1
    <3>3. s \in listed'[a] BY <1>3, <1>6, <3>2 DEF Join
    <3>4. QED BY <1>2, <3>1, <3>3, Undisturbed
  <2>3. QED BY <2>1, <2>2
<1>7. ASSUME NEW t \in Sta, NEW b \in AP, ApForgets(b, t) PROVE FollowsItsAp(s, a)'
  <2>1. UNCHANGED <<moves, retries, postponed, phyChannel>> /\ joined[s] = a /\ s \notin astray
        /\ ~(b = a /\ t = s)
    BY <1>7 DEF ApForgets, leverVars
  <2>2. s \in listed'[a] BY <1>2, <1>3, <1>7, <2>1 DEF ApForgets
  <2>3. QED BY <1>2, <2>1, <2>2, Undisturbed
<1>8. ASSUME NEW t \in Sta, NEW c \in Channel, Roam(t, c) PROVE FollowsItsAp(s, a)'
  <2>1. UNCHANGED <<listed, moves, retries, astray>> /\ joined[s] = a /\ t # s /\ t # a /\ t \in Node
    BY <1>1, <1>3, <1>8, SwitchAssumption DEF Roam
  <2>2. \A n \in {s, a} : phyChannel'[n] = phyChannel[n] /\ postponed'[n] = postponed[n]
    <3>1. SetOperatingChannel(t, c) /\ UNCHANGED retries BY <1>8 DEF Roam
    <3>2. QED BY <1>1, <2>1, <3>1, OtherPhys
  <2>3. QED BY <1>2, <2>1, <2>2, Undisturbed
<1>9. ASSUME NEW b \in AP, LeverMoves(b) PROVE FollowsItsAp(s, a)'
  <2>1. UNCHANGED <<listed, moves>> /\ joined[s] = a /\ s \notin astray /\ b # a /\ b # s
    BY <1>1, <1>9 DEF LeverMoves, StationsOf
  <2>2. \A n \in {s, a} : phyChannel'[n] = phyChannel[n] /\ postponed'[n] = postponed[n]
                          /\ retries'[n] = retries[n]
    <3>1. PICK c \in Channel : Retry(b, c) \/ ConfigureChannel(b, c) BY <1>9 DEF LeverMoves
    <3>2. b \in Node BY SwitchAssumption
    <3>3. QED BY <1>1, <2>1, <3>1, <3>2, OtherPhys
  <2>3. QED BY <1>2, <2>1, <2>2, Undisturbed
<1>10. QED BY <1>4, <1>5, <1>6, <1>7, <1>8, <1>9

\* The switches themselves.
LEMMA SwitchesFollow ==
  ASSUME SwitchTypeOK, QueuesOrdered, MovesApart, MovesApart', FollowInv,
         NEW s \in Sta \ astray', NEW a \in AP, joined'[s] = a,
         \/ \E n \in Node : ApplyMove(n) \/ ApplyPostponed(n)
         \/ \E b \in AP, c \in Channel : SwitchCoordinated(b, c) \/ SwitchChannel(b, c)
         \/ SwitchTick
  PROVE  FollowsItsAp(s, a)'
<1>1. s \in Node /\ a \in Node /\ a # NoAp /\ s # a /\ s \notin AP /\ a \notin Sta
  BY SwitchAssumption
<1>2. joined[s] = a /\ s \notin astray
  BY DEF ApplyMove, ApplyPostponed, SwitchCoordinated, SwitchChannel, SwitchTick, macVars
<1>3. FollowsItsAp(s, a) /\ s \in listed[a] BY <1>2 DEF FollowInv, FollowsItsAp
<1>4. ASSUME NEW n \in Node, ApplyMove(n) PROVE FollowsItsAp(s, a)'
  <2>1. /\ UNCHANGED <<listed, retries>> /\ SetOperatingChannel(n, Head(moves[n]).to)
        /\ moves' = [moves EXCEPT ![n] = Tail(@)] /\ moves[n] # <<>>
    BY <1>4 DEF ApplyMove
  <2>2. Head(moves[n]).to \in Channel
    <3>1. moves[n] \in Seq(Move) BY DEF SwitchTypeOK
    <3>2. Head(moves[n]) \in Move BY <2>1, <3>1
    <3>3. QED BY <3>2 DEF Move
  <2>3. \A o \in Node : o # n => /\ phyChannel'[o] = phyChannel[o] /\ postponed'[o] = postponed[o]
                                 /\ moves'[o] = moves[o]
    <3>1. \A o \in Node : o # n => phyChannel'[o] = phyChannel[o] /\ postponed'[o] = postponed[o]
      BY <2>1, <2>2, OtherPhys
    <3>2. \A o \in Node : o # n => moves'[o] = moves[o] BY <2>1 DEF SwitchTypeOK
    <3>3. QED BY <3>1, <3>2
  <2>4. CASE n \notin {s, a} BY <1>1, <1>3, <2>1, <2>3, <2>4, Undisturbed
  <2>5. CASE n \in {s, a}
    <3>1. Head(moves[n]).by = a
      <4>1. CASE n = s BY <1>2, <1>4, <4>1 DEF ApplyMove
      <4>2. CASE n = a
        <5>1. moves[a] \in Seq(Move) /\ moves[a] # <<>> BY <1>1, <2>1, <4>2 DEF SwitchTypeOK
        <5>2. Head(moves[a]) = moves[a][1] /\ 1 \in 1..Len(moves[a]) BY <5>1, FirstTaken
        <5>3. QED BY <4>2, <5>2 DEF MovesApart
      <4>3. QED BY <2>5, <4>1, <4>2
    <3>2. /\ Later(n, a)' = Later(n, a)
          /\ \A c \in Channel : EndsOn(n, a, c) => EndsOn(n, a, c)'
      BY <1>4, <3>1, MoveEnds
    <3>3. PICK o \in {s, a} : o # n BY <1>1
    <3>4. o \in Node BY <1>1
    <3>5. QED BY <1>3, <2>1, <2>3, <2>5, <3>2, <3>3, <3>4, OneGoesOn
  <2>6. QED BY <2>4, <2>5
<1>5. ASSUME NEW n \in Node, ApplyPostponed(n) PROVE FollowsItsAp(s, a)'
  <2>1. PICK d \in Channel : EndOfTx(n, d) BY <1>5 DEF ApplyPostponed
  <2>2. UNCHANGED <<listed, moves, retries>> BY <1>5, <2>1 DEF ApplyPostponed, EndOfTx, macVars
  <2>3. \A o \in Node : o # n => phyChannel'[o] = phyChannel[o] /\ postponed'[o] = postponed[o]
    BY <2>1, OtherPhys
  <2>4. CASE n \notin {s, a} BY <1>1, <1>3, <2>2, <2>3, <2>4, Undisturbed
  <2>5. CASE n \in {s, a}
    <3>1. \A c \in Channel : EndsOn(n, a, c) => EndsOn(n, a, c)' BY <2>1, <2>2, PostponedEnds
    <3>2. Later(n, a)' = Later(n, a) BY <2>2 DEF Later, Asked
    <3>3. PICK o \in {s, a} : o # n BY <1>1
    <3>4. o \in Node BY <1>1
    <3>5. QED BY <1>3, <2>2, <2>3, <2>5, <3>1, <3>2, <3>3, <3>4, OneGoesOn
  <2>6. QED BY <2>4, <2>5
<1>6. ASSUME NEW b \in AP, NEW c \in Channel, SwitchCoordinated(b, c) PROVE FollowsItsAp(s, a)'
  <2>1. Propagate(b, c, TRUE) /\ UNCHANGED leverVars /\ listed' = listed
    BY <1>6 DEF SwitchCoordinated
  <2>2. QED BY <1>3, <2>1, CallAsks
<1>7. ASSUME NEW b \in AP, NEW c \in Channel, SwitchChannel(b, c) PROVE FollowsItsAp(s, a)'
  <2>1. Propagate(b, c, coordinated[b]) /\ UNCHANGED leverVars /\ coordinated[b] \in BOOLEAN
    BY <1>7, SwitchAssumption DEF SwitchChannel, SwitchTypeOK
  <2>2. coordinated[b] \/ b # a BY <1>2, <1>7 DEF SwitchChannel, StationsOf
  <2>3. s \in listed'[a] BY <1>3, <1>7, <2>2 DEF SwitchChannel, SwitchTypeOK
  <2>4. QED BY <1>3, <2>1, <2>3, CallAsks
<1>8. CASE SwitchTick BY <1>3, <1>8, TickFollows
<1>9. QED BY <1>4, <1>5, <1>6, <1>7, <1>8

\* An AP and the stations it takes along end on one channel, whatever overlaps, if the
\* callers leave some time between two switches: those of one instant could be put off to
\* the end of a transmission together, and then be made in either order.
THEOREM SwitchStationsFollow ==
  ASSUME Spacing > 0
  PROVE  SwitchSpec => []StationsFollowTheirAp
<1>1. SwitchInit => MovesApart /\ FollowInv
  BY SwitchAssumption DEF SwitchInit, MovesApart, FollowInv
<1>2. SwitchTypeOK /\ QueuesOrdered /\ MovesApart /\ FollowInv /\ [SwitchNext]_switchVars
        => MovesApart' /\ FollowInv'
  <2> SUFFICES ASSUME SwitchTypeOK, QueuesOrdered, MovesApart, FollowInv, [SwitchNext]_switchVars
               PROVE  MovesApart' /\ FollowInv'
    OBVIOUS
  <2>1. MovesApart' BY ApartNext
  <2>2. ASSUME NEW s \in Sta \ astray', NEW a \in AP, joined'[s] = a PROVE FollowsItsAp(s, a)'
    <3>1. CASE UNCHANGED switchVars
      <4>1. UNCHANGED <<joined, listed, astray, moves, retries, postponed, phyChannel>>
        BY <3>1 DEF switchVars, leverVars, macVars
      <4>2. FollowsItsAp(s, a) /\ s \in listed[a] BY <2>2, <4>1 DEF FollowInv, FollowsItsAp
      <4>3. QED BY <4>1, <4>2, Undisturbed
    <3>2. CASE SwitchNext
      BY <2>1, <2>2, <3>2, StationsFollow, SwitchesFollow DEF SwitchNext
    <3>3. QED BY <3>1, <3>2
  <2>3. QED BY <2>1, <2>2 DEF FollowInv
<1>3. SwitchTypeOK /\ FollowInv => StationsFollowTheirAp
  <2> SUFFICES ASSUME SwitchTypeOK, FollowInv, Still, NEW s \in Sta \ astray, joined[s] # NoAp
               PROVE  HearsAp(s)
    BY DEF StationsFollowTheirAp
  <2>1. joined[s] \in AP /\ s \in Node /\ joined[s] \in Node BY SwitchAssumption DEF SwitchTypeOK
  <2>2. PICK c \in Channel : EndsOn(joined[s], joined[s], c) /\ EndsOn(s, joined[s], c)
    BY <2>1 DEF FollowInv, FollowsItsAp
  <2>3. ASSUME NEW n \in Node PROVE Asked(n, joined[s]) = {} /\ ~PutOff(n)
    <3>1. moves[n] = <<>> /\ ~PutOff(n) BY <2>3 DEF Still, Moving, Quiet
    <3>2. Len(moves[n]) = 0 BY <3>1
    <3>3. QED BY <3>1, <3>2 DEF Asked
  <2>4. phyChannel[s] = c /\ phyChannel[joined[s]] = c BY <2>1, <2>2, <2>3 DEF EndsOn, Due
  <2>5. QED BY <2>1, <2>4 DEF HearsAp
<1>4. QED BY <1>1, <1>2, <1>3, SwitchOrdered, PTL DEF SwitchSpec

----------------------------------------------------------------------------
(* A coordinated switch ends no association.  Between two switches every flag and every *)
(* move of the earlier one has run out, so whatever is scheduled is of the last call and *)
(* the clock tells how much is left of it; the flags outlast the moves.                 *)

OneSwitchAtATime ==
  \A n \in Node :
    /\ \A i \in 1..Len(moves[n]) : moves[n][i].left + sinceSwitch = SwitchDelay
    /\ \A i \in 1..Len(flagResets[n]) : flagResets[n][i] + sinceSwitch = ResetDelay(n)

FlagLasts ==
  \A s \in Sta :
    /\ \A i \in 1..Len(moves[s]) : moves[s][i].coordinated => coordinated[s]
    /\ (switching[s] \/ PutOff(s)) /\ joined[s] # NoAp /\ lastMove[s] = "coordinated"
         => coordinated[s] /\ sinceSwitch = SwitchDelay

\* When a call comes, nothing of the one before is left.
LEMMA NothingLeft ==
  ASSUME Spacing > SwitchDelay + FlagDelay, SwitchTypeOK, OneSwitchAtATime, sinceSwitch = Spacing,
         NEW n \in Node
  PROVE  Len(moves[n]) = 0 /\ Len(flagResets[n]) = 0
<1>1. Spacing \in Nat /\ SwitchDelay \in Nat /\ FlagDelay \in Nat BY SwitchAssumption
<1>2. ASSUME Len(moves[n]) # 0 PROVE FALSE
  <2>1. 1 \in 1..Len(moves[n]) BY <1>2, MovesTyped
  <2>2. moves[n][1].left \in 0..SwitchDelay /\ moves[n][1].left + Spacing = SwitchDelay
    BY <2>1, MovesTyped DEF OneSwitchAtATime
  <2>3. QED BY <1>1, <2>2
<1>3. ASSUME Len(flagResets[n]) # 0 PROVE FALSE
  <2> DEFINE T == 0..SwitchDelay + FlagDelay
  <2>1. flagResets[n] \in Seq(T) BY DEF SwitchTypeOK
  <2>2. \A f \in Seq(T) : Len(f) # 0 => 1 \in 1..Len(f) /\ f[1] \in T
    <3> HIDE DEF T
    <3>1. QED OBVIOUS
  <2>3. 1 \in 1..Len(flagResets[n]) /\ flagResets[n][1] \in T BY <1>3, <2>1, <2>2
  <2>4. flagResets[n][1] + Spacing = ResetDelay(n) BY <2>3 DEF OneSwitchAtATime
  <2>5. ResetDelay(n) \in 0..SwitchDelay + FlagDelay BY <1>1 DEF ResetDelay
  <2>6. QED BY <1>1, <2>3, <2>4, <2>5
<1>4. QED BY <1>2, <1>3

\* One element, added to nothing.
LEMMA OnlyOne ==
  ASSUME NEW S, NEW q \in Seq(S), Len(q) = 0, NEW x \in S
  PROVE  \A i \in 1..Len(Append(q, x)) : Append(q, x)[i] = x
<1>1. Len(Append(q, x)) = 1 /\ Append(q, x)[1] = x BY Appended
<1>2. QED BY <1>1

\* A call starts the clock with all that it schedules; its followers are flagged as it is.
LEMMA CallAlone ==
  ASSUME Spacing > SwitchDelay + FlagDelay, SwitchTypeOK, QueuesOrdered, OneSwitchAtATime, FlagLasts,
         NEW a \in AP, NEW c \in Channel, SwitchCoordinated(a, c) \/ SwitchChannel(a, c)
  PROVE  OneSwitchAtATime' /\ FlagLasts'
<1>1. /\ Spacing \in Nat /\ SwitchDelay \in Nat /\ FlagDelay \in Nat /\ a \in Node /\ Sta \subseteq Node
      /\ \A n \in Node : n \in AP <=> n \notin Sta
  BY SwitchAssumption
<1>2. PICK flag \in BOOLEAN : Propagate(a, c, flag) /\ FlagFollowers(a, flag)
  BY <1>1 DEF SwitchCoordinated, SwitchChannel, SwitchTypeOK
<1> DEFINE m == [to |-> c, by |-> a, left |-> SwitchDelay, coordinated |-> flag]
<1>3. sinceSwitch = Spacing /\ sinceSwitch' = 0 /\ UNCHANGED <<leverVars, joined, lastMove>>
  BY <1>2 DEF Propagate, SwitchCoordinated, SwitchChannel
<1>4. \A n \in Node : Len(moves[n]) = 0 /\ Len(flagResets[n]) = 0 BY <1>3, NothingLeft
<1>5. /\ m.left = SwitchDelay /\ m.coordinated = flag /\ m \in Move /\ Followers(a) \subseteq Sta
      /\ \A n \in Node : moves'[n] = IF n \in Followers(a) \cup {a} THEN Append(moves[n], m)
                                     ELSE moves[n]
  BY <1>2, Propagated
<1> HIDE DEF m
<1>6. ASSUME NEW n \in Node, NEW i \in 1..Len(moves'[n])
      PROVE  n \in Followers(a) \cup {a} /\ moves'[n][i] = m
  <2>1. n \in Followers(a) \cup {a} BY <1>4, <1>5, <1>6
  <2>2. moves'[n] = Append(moves[n], m) BY <1>5, <2>1
  <2>3. moves[n] \in Seq(Move) /\ Len(moves[n]) = 0 BY <1>4, MovesTyped
  <2>4. moves'[n][i] = m BY <1>5, <1>6, <2>2, <2>3, OnlyOne
  <2>5. QED BY <2>1, <2>4
<1>7. ASSUME NEW n \in Node, NEW i \in 1..Len(flagResets'[n])
      PROVE  flagResets'[n][i] = ResetDelay(n)
  <2>1. ResetDelay(n) \in 0..SwitchDelay + FlagDelay /\ flagResets[n] \in Seq(0..SwitchDelay + FlagDelay)
    BY <1>1 DEF ResetDelay, SwitchTypeOK
  <2>2. flagResets'[n] = flagResets[n] \/ flagResets'[n] = Append(flagResets[n], ResetDelay(n))
    BY <1>1, <1>5 DEF SwitchCoordinated, SwitchChannel, ResetDelay
  <2> HIDE DEF ResetDelay
  <2>3. QED BY <1>4, <1>7, <2>1, <2>2, OnlyOne
<1>8. OneSwitchAtATime'
  <2>1. \A n \in Node : \A i \in 1..Len(moves'[n]) : moves'[n][i].left + sinceSwitch' = SwitchDelay
    BY <1>1, <1>3, <1>5, <1>6
  <2>2. \A n \in Node : \A i \in 1..Len(flagResets'[n]) : flagResets'[n][i] + sinceSwitch' = ResetDelay(n)
    <3>1. \A n \in Node : ResetDelay(n) \in Nat BY <1>1 DEF ResetDelay
    <3>2. QED BY <1>3, <1>7, <3>1
  <2>3. QED BY <2>1, <2>2 DEF OneSwitchAtATime, ResetDelay
<1>9. FlagLasts'
  <2>1. ASSUME NEW s \in Sta, NEW i \in 1..Len(moves'[s]), moves'[s][i].coordinated PROVE coordinated'[s]
    <3>1. s \in Followers(a) \cup {a} /\ flag BY <1>1, <1>5, <1>6, <2>1
    <3>2. QED BY <1>1, <1>2, <3>1 DEF FlagFollowers
  <2>2. ASSUME NEW s \in Sta, switching[s] \/ PutOff(s), joined[s] # NoAp, lastMove[s] = "coordinated"
        PROVE  FALSE
    <3>1. sinceSwitch = SwitchDelay BY <2>2 DEF FlagLasts
    <3>2. QED BY <1>1, <1>3, <3>1
  <2>3. \A s \in Sta : PutOff(s)' = PutOff(s) /\ switching'[s] = switching[s]
    BY <1>3 DEF leverVars, PutOff
  <2>4. QED BY <1>3, <2>1, <2>2, <2>3 DEF FlagLasts
<1>10. QED BY <1>8, <1>9

\* The clock, and the events it brings: the flags of a switch are reset after it is over.
LEMMA ClockAlone ==
  ASSUME Spacing > SwitchDelay + FlagDelay, SwitchTypeOK, QueuesOrdered, OneSwitchAtATime, FlagLasts,
         SwitchTick \/ \E n \in Node : ApplyMove(n) \/ ResetFlag(n)
  PROVE  OneSwitchAtATime' /\ FlagLasts'
<1>1. /\ Spacing \in Nat /\ SwitchDelay \in Nat /\ FlagDelay \in Nat \ {0} /\ Sta \subseteq Node
      /\ sinceSwitch \in 0..Spacing /\ \A n \in Node : n \in AP <=> n \notin Sta
  BY SwitchAssumption DEF SwitchTypeOK
<1>2. CASE SwitchTick
  <2>1. \A n \in Node : ~switching[n] /\ ~PutOff(n) /\ UNCHANGED <<switching, postponed>>
    BY <1>2 DEF SwitchTick, SwitchesDue, leverVars
  <2>2. CASE sinceSwitch = Spacing
    <3>1. \A n \in Node : Len(moves'[n]) = 0 /\ Len(flagResets'[n]) = 0
      BY <1>2, <2>2, NothingLeft, Ticked
    <3>2. QED BY <1>1, <2>1, <3>1 DEF OneSwitchAtATime, FlagLasts, PutOff
  <2>3. CASE sinceSwitch # Spacing
    <3>1. sinceSwitch' = sinceSwitch + 1 BY <1>1, <1>2, <2>3 DEF SwitchTick
    <3>2. ASSUME NEW n \in Node, NEW i \in 1..Len(moves'[n])
          PROVE  /\ i \in 1..Len(moves[n]) /\ moves'[n][i].left + sinceSwitch' = SwitchDelay
                 /\ moves'[n][i].coordinated = moves[n][i].coordinated
      <4>1. /\ i \in 1..Len(moves[n]) /\ moves'[n][i].left = moves[n][i].left - 1
            /\ moves'[n][i].coordinated = moves[n][i].coordinated
        BY <1>2, <3>2, Ticked
      <4>2. moves[n][i].left \in 0..SwitchDelay /\ moves[n][i].left + sinceSwitch = SwitchDelay
        BY <4>1, MovesTyped DEF OneSwitchAtATime
      <4>3. ASSUME NEW l \in Nat, NEW k \in Nat, NEW d \in Nat, l + k = d PROVE (l - 1) + (k + 1) = d
        BY <4>3
      <4>4. (moves[n][i].left - 1) + (sinceSwitch + 1) = SwitchDelay BY <1>1, <4>2, <4>3
      <4>5. QED BY <3>1, <4>1, <4>4
    <3>3. ASSUME NEW n \in Node, NEW i \in 1..Len(flagResets'[n])
          PROVE  flagResets'[n][i] + sinceSwitch' = ResetDelay(n)
      <4>1. i \in 1..Len(flagResets[n]) /\ flagResets'[n][i] = flagResets[n][i] - 1
        BY <1>2, <3>3, Ticked
      <4>2. flagResets[n][i] + sinceSwitch = ResetDelay(n) BY <4>1 DEF OneSwitchAtATime
      <4>3. flagResets[n] \in Seq(0..SwitchDelay + FlagDelay) BY DEF SwitchTypeOK
      <4>4. flagResets[n][i] \in 0..SwitchDelay + FlagDelay
        <5>1. ASSUME NEW S, NEW f \in Seq(S), NEW k \in 1..Len(f) PROVE f[k] \in S OBVIOUS
        <5>2. QED BY <4>1, <4>3, <5>1
      <4>5. QED BY <1>1, <3>1, <4>1, <4>2, <4>4
    <3>4. OneSwitchAtATime' BY <3>2, <3>3 DEF OneSwitchAtATime, ResetDelay
    <3>5. coordinated' = coordinated BY <1>2 DEF SwitchTick
    <3>6. FlagLasts' BY <1>1, <2>1, <3>2, <3>5 DEF FlagLasts, PutOff
    <3>7. QED BY <3>4, <3>6
  <2>4. QED BY <2>2, <2>3
<1>3. ASSUME NEW n \in Node, ApplyMove(n) PROVE OneSwitchAtATime' /\ FlagLasts'
  <2>1. /\ moves[n] \in Seq(Move) /\ moves[n] # <<>> /\ Head(moves[n]).left = 0
        /\ moves' = [moves EXCEPT ![n] = Tail(@)] /\ moves \in [Node -> Seq(Move)]
        /\ UNCHANGED <<sinceSwitch, flagResets, coordinated, joined>>
        /\ SetOperatingChannel(n, Head(moves[n]).to) /\ UNCHANGED retries
    BY <1>3 DEF ApplyMove, SwitchTypeOK
  <2>2. /\ Head(moves[n]) = moves[n][1] /\ 1 \in 1..Len(moves[n]) /\ Head(moves[n]) \in Move
        /\ \A i \in 1..Len(Tail(moves[n])) :
             i + 1 \in 1..Len(moves[n]) /\ Tail(moves[n])[i] = moves[n][i + 1]
    BY <2>1, FirstTaken
  <2>3. moves'[n] = Tail(moves[n]) /\ \A o \in Node : o # n => moves'[o] = moves[o]
    BY <2>1
  <2>4. ASSUME NEW o \in Node, NEW i \in 1..Len(moves'[o])
        PROVE  \E k \in 1..Len(moves[o]) : moves'[o][i] = moves[o][k]
    <3>1. CASE o = n BY <2>2, <2>3, <2>4, <3>1
    <3>2. CASE o # n BY <2>3, <2>4, <3>2
    <3>3. QED BY <3>1, <3>2
  <2>5. OneSwitchAtATime' BY <2>1, <2>4 DEF OneSwitchAtATime, ResetDelay
  <2>6. ASSUME NEW s \in Sta, NEW i \in 1..Len(moves'[s]), moves'[s][i].coordinated PROVE coordinated'[s]
    BY <1>1, <2>1, <2>4, <2>6 DEF FlagLasts
  <2>7. ASSUME NEW s \in Sta, (switching[s] \/ PutOff(s))', joined'[s] # NoAp,
               lastMove'[s] = "coordinated"
        PROVE  coordinated'[s] /\ sinceSwitch' = SwitchDelay
    <3>1. CASE s = n
      <4>1. Head(moves[n]).coordinated BY <1>3, <2>7, <3>1 DEF ApplyMove
      <4>2. coordinated[s] BY <2>2, <3>1, <4>1 DEF FlagLasts
      <4>3. 0 + sinceSwitch = SwitchDelay BY <1>1, <2>1, <2>2, <3>1 DEF OneSwitchAtATime
      <4>4. QED BY <1>1, <2>1, <4>2, <4>3
    <3>2. CASE s # n
      <4>1. lastMove'[s] = lastMove[s] BY <1>3, <3>2 DEF ApplyMove
      <4>2. Head(moves[n]).to \in Channel BY <2>2 DEF Move
      <4>3. switching'[s] = switching[s] /\ postponed'[s] = postponed[s]
        BY <1>1, <2>1, <3>2, <4>2
        DEF SetOperatingChannel, SwitchPhy, AlreadyOn, SwitchTypeOK, LeverTypeOK
      <4>4. QED BY <2>1, <2>7, <4>1, <4>3 DEF FlagLasts, PutOff
    <3>3. QED BY <3>1, <3>2
  <2>8. FlagLasts' BY <2>6, <2>7 DEF FlagLasts
  <2>9. QED BY <2>5, <2>8
<1>4. ASSUME NEW n \in Node, ResetFlag(n) PROVE OneSwitchAtATime' /\ FlagLasts'
  <2> DEFINE T == 0..SwitchDelay + FlagDelay
             f == flagResets[n]
  <2>1. /\ f \in Seq(T) /\ f # <<>> /\ Head(f) = 0
        /\ flagResets' = [flagResets EXCEPT ![n] = Tail(@)] /\ flagResets \in [Node -> Seq(T)]
        /\ coordinated' = [coordinated EXCEPT ![n] = FALSE] /\ coordinated \in [Node -> BOOLEAN]
        /\ UNCHANGED <<leverVars, joined, moves, sinceSwitch, lastMove>>
    BY <1>4 DEF ResetFlag, SwitchTypeOK
  <2>2. /\ Head(f) = f[1] /\ 1 \in 1..Len(f)
        /\ \A i \in 1..Len(Tail(f)) : i + 1 \in 1..Len(f) /\ Tail(f)[i] = f[i + 1]
    <3> HIDE DEF T
    <3>1. QED BY <2>1, FirstTaken
  <2>3. flagResets'[n] = Tail(f) /\ \A o \in Node : o # n => flagResets'[o] = flagResets[o]
    BY <2>1
  <2>4. ASSUME NEW o \in Node, NEW i \in 1..Len(flagResets'[o])
        PROVE  \E k \in 1..Len(flagResets[o]) : flagResets'[o][i] = flagResets[o][k]
    <3>1. CASE o = n BY <2>2, <2>3, <2>4, <3>1
    <3>2. CASE o # n BY <2>3, <2>4, <3>2
    <3>3. QED BY <3>1, <3>2
  <2>5. OneSwitchAtATime' BY <2>1, <2>4 DEF OneSwitchAtATime, ResetDelay
  <2>6. 0 + sinceSwitch = ResetDelay(n) BY <2>1, <2>2 DEF OneSwitchAtATime
  <2>7. n \in Sta => sinceSwitch > SwitchDelay
    BY <1>1, <2>6 DEF ResetDelay
  <2>8. ASSUME NEW s \in Sta, coordinated[s], s # n PROVE coordinated'[s]
    BY <1>1, <2>1, <2>8
  <2>9. ASSUME NEW s \in Sta, NEW i \in 1..Len(moves'[s]), moves'[s][i].coordinated PROVE coordinated'[s]
    <3>1. moves[s][i].left + sinceSwitch = SwitchDelay /\ moves[s][i].left \in 0..SwitchDelay
          /\ coordinated[s]
      BY <1>1, <2>1, <2>9, MovesTyped DEF OneSwitchAtATime, FlagLasts
    <3>2. s # n BY <1>1, <2>7, <3>1
    <3>3. QED BY <2>8, <3>1, <3>2
  <2>10. ASSUME NEW s \in Sta, (switching[s] \/ PutOff(s))', joined'[s] # NoAp,
                lastMove'[s] = "coordinated"
         PROVE  coordinated'[s] /\ sinceSwitch' = SwitchDelay
    <3>1. coordinated[s] /\ sinceSwitch = SwitchDelay
      BY <2>1, <2>10 DEF FlagLasts, PutOff, leverVars
    <3>2. ~(sinceSwitch > SwitchDelay) BY <1>1, <3>1
    <3>3. s # n BY <2>7, <3>2
    <3>4. QED BY <2>1, <2>8, <3>1, <3>3
  <2>11. FlagLasts' BY <2>9, <2>10 DEF FlagLasts
  <2>12. QED BY <2>5, <2>11
<1>5. QED BY <1>2, <1>3, <1>4

\* The other steps schedule nothing and set no flag, and none of them starts a change of an
\* associated station's channel.
LEMMA OthersAlone ==
  ASSUME SwitchTypeOK, OneSwitchAtATime, FlagLasts,
         \/ \E n \in Node : ApplyPostponed(n) \/ SwitchNotified(n)
         \/ \E s \in Sta : \/ MissedBeacons(s)
                           \/ \E a \in AP : Join(s, a) \/ ApForgets(a, s)
                           \/ \E c \in Channel : Roam(s, c)
         \/ \E a \in AP : LeverMoves(a)
         \/ UNCHANGED switchVars
  PROVE  OneSwitchAtATime' /\ FlagLasts'
<1>1. Sta \subseteq Node /\ AP \subseteq Node /\ \A s \in Sta : s \notin AP /\ s # NoAp BY SwitchAssumption
<1>2. UNCHANGED <<moves, flagResets, coordinated, sinceSwitch, lastMove>>
  BY DEF ApplyPostponed, SwitchNotified, MissedBeacons, Join, ApForgets, Roam, LeverMoves,
         switchVars, macVars
<1>3. OneSwitchAtATime' BY <1>2 DEF OneSwitchAtATime, ResetDelay
<1>4. ASSUME NEW s \in Sta, (switching[s] \/ PutOff(s))', joined'[s] # NoAp
      PROVE  (switching[s] \/ PutOff(s)) /\ joined[s] # NoAp
  <2>1. ASSUME NEW n \in Node, ApplyPostponed(n) PROVE (switching[s] \/ PutOff(s)) /\ joined[s] # NoAp
    <3>1. PICK c \in Channel : EndOfTx(n, c) BY <2>1 DEF ApplyPostponed
    <3>2. joined' = joined BY <2>1 DEF ApplyPostponed, macVars
    <3>3. CASE s = n BY <1>4, <3>1, <3>2, <3>3 DEF EndOfTx, PutOff
    <3>4. CASE s # n
      <4>1. switching'[s] = switching[s] /\ postponed'[s] = postponed[s]
        BY <1>1, <3>1, <3>4 DEF EndOfTx, SwitchPhy, AlreadyOn, SwitchTypeOK, LeverTypeOK
      <4>2. QED BY <1>4, <3>2, <4>1 DEF PutOff
    <3>5. QED BY <3>3, <3>4
  <2>2. ASSUME NEW n \in Node, SwitchNotified(n)
        PROVE  (switching[s] \/ PutOff(s)) /\ joined[s] # NoAp
    <3>1. postponed' = postponed /\ (switching'[s] => switching[s])
      BY <1>1, <2>2 DEF SwitchNotified, SwitchOver, SwitchTypeOK, LeverTypeOK
    <3>2. joined[s] # NoAp
      BY <1>4, <2>2 DEF SwitchNotified, Notified, SwitchTypeOK
    <3>3. QED BY <1>4, <3>1, <3>2 DEF PutOff
  <2>3. ASSUME NEW t \in Sta, MissedBeacons(t) PROVE (switching[s] \/ PutOff(s)) /\ joined[s] # NoAp
    BY <1>4, <2>3 DEF MissedBeacons, leverVars, PutOff, SwitchTypeOK
  <2>4. ASSUME NEW t \in Sta, NEW a \in AP, Join(t, a)
        PROVE  (switching[s] \/ PutOff(s)) /\ joined[s] # NoAp
    <3>1. UNCHANGED <<switching, postponed>> /\ ~switching[t] /\ ~PutOff(t) BY <2>4 DEF Join, leverVars
    <3>2. s # t BY <1>4, <3>1 DEF PutOff
    <3>3. joined'[s] = joined[s] BY <2>4, <3>2 DEF Join, SwitchTypeOK
    <3>4. QED BY <1>4, <3>1, <3>3 DEF PutOff
  <2>5. ASSUME NEW t \in Sta, NEW a \in AP, ApForgets(a, t)
        PROVE  (switching[s] \/ PutOff(s)) /\ joined[s] # NoAp
    BY <1>4, <2>5 DEF ApForgets, leverVars, PutOff
  <2>6. ASSUME NEW t \in Sta, NEW c \in Channel, Roam(t, c)
        PROVE  (switching[s] \/ PutOff(s)) /\ joined[s] # NoAp
    <3>1. joined' = [joined EXCEPT ![t] = NoAp] /\ SetOperatingChannel(t, c) BY <2>6 DEF Roam
    <3>2. s # t BY <1>4, <3>1 DEF SwitchTypeOK
    <3>3. joined'[s] = joined[s] BY <3>1, <3>2 DEF SwitchTypeOK
    <3>4. switching'[s] = switching[s] /\ postponed'[s] = postponed[s]
      BY <1>1, <3>1, <3>2 DEF SetOperatingChannel, SwitchPhy, AlreadyOn, SwitchTypeOK, LeverTypeOK
    <3>5. QED BY <1>4, <3>3, <3>4 DEF PutOff
  <2>7. ASSUME NEW a \in AP, LeverMoves(a) PROVE (switching[s] \/ PutOff(s)) /\ joined[s] # NoAp
    <3>1. PICK c \in Channel : Retry(a, c) \/ ConfigureChannel(a, c) BY <2>7 DEF LeverMoves
    <3>2. postponed' = postponed /\ joined' = joined
      BY <2>7, <3>1 DEF LeverMoves, Retry, ConfigureChannel
    <3>3. switching' = switching \/ switching' = [switching EXCEPT ![a] = TRUE]
      BY <3>1 DEF Retry, ConfigureChannel, OnChannelSettingsChanged, SwitchPhy, AlreadyOn
    <3>4. s \in Node /\ s # a /\ switching \in [Node -> BOOLEAN]
      BY <1>1 DEF SwitchTypeOK, LeverTypeOK
    <3>5. postponed' = postponed /\ joined' = joined /\ switching'[s] = switching[s]
      BY <3>2, <3>3, <3>4
    <3>6. QED BY <1>4, <3>5 DEF PutOff
  <2>8. CASE UNCHANGED switchVars
    BY <1>4, <2>8 DEF switchVars, leverVars, macVars, PutOff
  <2>9. QED BY <2>1, <2>2, <2>3, <2>4, <2>5, <2>6, <2>7, <2>8
<1>5. FlagLasts' BY <1>2, <1>4 DEF FlagLasts
<1>6. QED BY <1>3, <1>5

\* A switch made as a coordinated one ends no association, however late the PHY makes it,
\* if the callers leave more than the life of the flags between two switches: a flag reset
\* for the switch before would otherwise end the one under way.
THEOREM SwitchKeepsAssociation ==
  ASSUME Spacing > SwitchDelay + FlagDelay
  PROVE  SwitchSpec => CoordinatedSwitchKeepsAssociation
<1> DEFINE Kept == \A s \in Sta : SwitchNotified(s) /\ lastMove[s] = "coordinated" => joined'[s] = joined[s]
<1>1. SwitchInit => OneSwitchAtATime /\ FlagLasts
  BY SwitchAssumption DEF SwitchInit, OneSwitchAtATime, FlagLasts
<1>2. SwitchTypeOK /\ QueuesOrdered /\ OneSwitchAtATime /\ FlagLasts /\ [SwitchNext]_switchVars
        => OneSwitchAtATime' /\ FlagLasts'
  BY CallAlone, ClockAlone, OthersAlone DEF SwitchNext
<1>3. SwitchTypeOK /\ FlagLasts => Kept
  <2> SUFFICES ASSUME SwitchTypeOK, FlagLasts, NEW s \in Sta, SwitchNotified(s),
                      lastMove[s] = "coordinated"
               PROVE  joined'[s] = joined[s]
    OBVIOUS
  <2>1. switching[s] BY DEF SwitchNotified, SwitchOver
  <2>2. CASE joined[s] # NoAp
    <3>1. coordinated[s] BY <2>1, <2>2 DEF FlagLasts
    <3>2. QED BY <3>1 DEF SwitchNotified, Notified
  <2>3. CASE joined[s] = NoAp BY <2>3 DEF SwitchNotified, Notified, SwitchTypeOK
  <2>4. QED BY <2>2, <2>3
<1>4. QED BY <1>1, <1>2, <1>3, SwitchOrdered, PTL DEF SwitchSpec, CoordinatedSwitchKeepsAssociation
=============================================================================
