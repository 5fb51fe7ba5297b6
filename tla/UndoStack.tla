------------------------------ MODULE UndoStack ------------------------------
(***************************************************************************)
(* What a rollback manager promises its client, with no clocks, scores,    *)
(* cooldowns or statistics: for every access point a stack of tokens, one  *)
(* per saved state, newest first.  A save pushes a token never used        *)
(* before, and may forget the oldest ones; an undo takes the newest token, *)
(* and what was undone or forgotten never comes back.                      *)
(***************************************************************************)
EXTENDS Naturals, Sequences

CONSTANT AP

VARIABLES stack,  \* per AP, the tokens that can still be undone, newest first
          issued  \* the number of tokens issued so far; the next one is issued + 1

abstractVars == <<stack, issued>>

Prefixes(s) == {SubSeq(s, 1, n) : n \in 0..Len(s)}

UndoInit == stack = [a \in AP |-> <<>>] /\ issued = 0

Push(a) ==
  /\ issued' = issued + 1
  /\ \E s \in Prefixes(<<issued + 1>> \o stack[a]) : stack' = [stack EXCEPT ![a] = s]

Pop(a) ==
  /\ stack[a] # <<>>
  /\ stack' = [stack EXCEPT ![a] = Tail(@)]
  /\ UNCHANGED issued

Forget(A) ==
  /\ stack' = [a \in AP |-> IF a \in A THEN <<>> ELSE stack[a]]
  /\ UNCHANGED issued

UndoNext == \/ \E a \in AP : Push(a) \/ Pop(a)
            \/ \E A \in SUBSET AP : Forget(A)

UndoSpec == UndoInit /\ [][UndoNext]_abstractVars
=============================================================================
