---------------------------- MODULE MCDeliveries ----------------------------
(***************************************************************************)
(* One order for two units of paper: ink is not in its plan.               *)
(***************************************************************************)
EXTENDS Deliveries, TLC

CONSTANTS o1, paper, ink, r1, r2, i1, i2

Lines(first, second) == [line |-> first, again |-> second]

OneItem == o1 :> (paper :> Lines(2, 0) @@ ink :> Lines(0, 0))

\* The same item in two lines, and another one.
RepeatedItem == o1 :> (paper :> Lines(1, 2) @@ ink :> Lines(1, 0))

Alike == Permutations(Requests) \cup Permutations(Invoices)
=============================================================================
