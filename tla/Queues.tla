------------------------------- MODULE Queues -------------------------------
(* A queue that is searched, and what is found is taken in its order.      *)
EXTENDS Integers, Sequences

(* What is in q and in P, in the order of q: SelectSeq, of a set.          *)
Sift(q, P) ==
  LET F[i \in 0..Len(q)] ==
        IF i = 0 THEN <<>> ELSE IF q[i] \in P THEN Append(F[i - 1], q[i]) ELSE F[i - 1]
  IN  F[Len(q)]
=============================================================================
