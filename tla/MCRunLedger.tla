---------------------------- MODULE MCRunLedger ----------------------------
(* Bounded instance of RunLedger: runs are interchangeable. *)
EXTENDS RunLedger, TLC

MCUsages == {[input |-> i, output |-> o, calls |-> c] : i \in 0..1, o \in {1}, c \in 0..1}

\* No cap; a cap below, at and above the largest request.
MCCaps == {NoLimits, [total |-> 1], [total |-> 2, calls |-> 1], [calls |-> 0]}

Symmetry == Permutations(RunIds)

=============================================================================
