--------------------------- MODULE MCStreamReplay ---------------------------
(* Bounded instance of StreamReplay: two request identities, usage up to 1. *)
EXTENDS StreamReplay, TLC

MCUsages == {[input |-> i, output |-> o, calls |-> c] : i \in 0..1, o \in 0..1, c \in 0..1}

Symmetry == Permutations(RequestIds)

=============================================================================
