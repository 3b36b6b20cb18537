---------------------------- MODULE MCQuarantine ----------------------------
(* Bounded instance of Quarantine: three files, one of which may be a link  *)
(* or a special file.                                                      *)
EXTENDS Quarantine, TLC

CONSTANTS f1, f2, f3

Symmetry == Permutations({f1, f2})

=============================================================================
