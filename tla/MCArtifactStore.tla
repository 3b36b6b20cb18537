-------------------------- MODULE MCArtifactStore --------------------------
(* Bounded instance of ArtifactStore: two digests in a shard each. *)
EXTENDS ArtifactStore, TLC

CONSTANTS d1, d2

MCShard == (d1 :> "0a") @@ (d2 :> "0b")

Symmetry == Permutations(Publishers)

=============================================================================
