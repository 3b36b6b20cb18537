-------------------------- MODULE MCFixtureRunner --------------------------
(* Bounded instances of FixtureRunner. *)
EXTENDS FixtureRunner, TLC

\* A small and a large model call.
MCUsages == {[input |-> 0, output |-> o, calls |-> 1] : o \in 1..2}

MCOneUsage == {[input |-> 0, output |-> 1, calls |-> 1]}

\* A cap that refuses the large call.
MCCaps == {[output |-> 1]}

MCEvidence == {EvaluationNames}

RunnerSymmetry == Permutations(Runners)
Symmetry == Permutations(Runners) \cup Permutations(RunIds)

=============================================================================
