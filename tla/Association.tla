----------------------------- MODULE Association -----------------------------
(***************************************************************************)
(* What a station and its access points promise each other, whatever the   *)
(* channels, timers, scans and steering behind it.  The station is joined   *)
(* to at most one AP; it joins one only by reading an acceptance which that *)
(* AP sent and nobody read before, and it moves from one AP to another only *)
(* by leaving the first.  An AP lists the station from its acceptance on,   *)
(* until that goes unread or someone asks it to forget the station.         *)
(***************************************************************************)
EXTENDS Naturals, Sequences

CONSTANTS AP, NoAp,
          Frame,   \* what an AP sends the station; each has a type
          Accept   \* the type of an acceptance

VARIABLES joined,   \* the AP the station is joined to, or NoAp
          answers,  \* per AP, the frames on their way to the station
          lists     \* per AP, whether it lists the station

assocVars == <<joined, answers, lists>>

AssocInit ==
  /\ joined = NoAp
  /\ answers = [a \in AP |-> <<>>]
  /\ lists = [a \in AP |-> FALSE]

\* An acceptance, with which the AP lists the station, or another frame.
Answer(a, frame) ==
  /\ answers' = [answers EXCEPT ![a] = Append(@, frame)]
  /\ lists' = [lists EXCEPT ![a] = @ \/ frame.type = Accept]
  /\ UNCHANGED joined

\* The station reads the oldest frame of an AP.
Read(a) == answers[a] # <<>> /\ answers' = [answers EXCEPT ![a] = Tail(@)]

Join(a) ==
  /\ joined = NoAp
  /\ Read(a) /\ Head(answers[a]).type = Accept
  /\ joined' = a
  /\ UNCHANGED lists

Ignore(a) == Read(a) /\ UNCHANGED <<joined, lists>>

Unread(a) ==
  /\ Read(a)
  /\ lists' = [lists EXCEPT ![a] = @ /\ Head(answers[a]).type # Accept]
  /\ UNCHANGED joined

Forget(a) ==
  /\ lists' = [lists EXCEPT ![a] = FALSE]
  /\ UNCHANGED <<joined, answers>>

Leave == joined' = NoAp /\ UNCHANGED <<answers, lists>>

AssocNext ==
  \/ \E a \in AP : \/ \E frame \in Frame : Answer(a, frame)
                   \/ Join(a) \/ Ignore(a) \/ Unread(a) \/ Forget(a)
  \/ Leave

AssocSpec == AssocInit /\ [][AssocNext]_assocVars
=============================================================================
