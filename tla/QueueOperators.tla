--------------------------- MODULE QueueOperators ---------------------------
(***************************************************************************)
(* Operators on the sequences that stand for queues.  They are written     *)
(* without recursive operators, so that theorems about their users can be  *)
(* proved (InductionLemmas).                                               *)
(***************************************************************************)
EXTENDS Integers, Sequences

ElementsOf(q) == {q[i] : i \in DOMAIN q}

Backward(q) == [i \in 1 .. Len(q) |-> q[Len(q) + 1 - i]]

\* The elements of q that are in S, in their order.
Among(q, S) ==
    LET kept[i \in 0 .. Len(q)] ==
            IF i = 0 THEN <<>>
            ELSE IF q[i] \in S THEN Append(kept[i - 1], q[i]) ELSE kept[i - 1]
    IN  kept[Len(q)]
=============================================================================
