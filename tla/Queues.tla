------------------------------- MODULE Queues -------------------------------
(***************************************************************************)
(* The one operation on queues that the standard modules only have with an *)
(* operator for a parameter (SelectSeq), as a function the proofs can      *)
(* reason about.                                                           *)
(***************************************************************************)
EXTENDS Integers, Sequences

(* VecDeque::retain: the elements of q outside S, in their order.          *)
Without(q, S) ==
  LET kept[i \in 0 .. Len(q)] ==
        IF i = 0 THEN <<>>
        ELSE IF q[i] \in S THEN kept[i - 1] ELSE Append(kept[i - 1], q[i])
  IN  kept[Len(q)]
=============================================================================
