---------------------------- MODULE MCEventStore ----------------------------
(* Bounded instance of EventStore. *)
EXTENDS EventStore, TLC

MCUsages == {[input |-> 0, output |-> o, calls |-> c] : o \in 0..1, c \in 0..1}

\* No cap, a cap below the largest request, and caps it just fits.
MCCaps == {[d \in {} |-> 0], [calls |-> 0], [total |-> 1, calls |-> 1]}

Symmetry == Permutations(RequestIds)

=============================================================================
