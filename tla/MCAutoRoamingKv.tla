--------------------------- MODULE MCAutoRoamingKv ---------------------------
(***************************************************************************)
(* Two APs and one helper.  The APs are interchangeable.                    *)
(***************************************************************************)
EXTENDS AutoRoamingKv, TLC

CONSTANTS a1, a2

Symmetry == Permutations(AP)

\* For the run that shows a violation: an event due in 50 ms, a new measurement and a
\* change of association wait for the frames queued and the events due in 5 ms.  Of the
\* behaviours of KvSpec it leaves the unhurried ones.
Unhurried ==
  ~(/\ up = <<>> /\ \A a \in AP : down[a] = <<>> /\ repliesDue[a] = 0 /\ reportsDue[a] = 0)
     => /\ beaconsDue' >= beaconsDue /\ requestsDue' >= requestsDue
        /\ UNCHANGED <<ap, rounds, apRequests>>
=============================================================================
