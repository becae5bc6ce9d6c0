-------------------------- MODULE MCSnapshotRequests --------------------------
(* Instances of SnapshotRequests for TLC.                                  *)
EXTENDS SnapshotRequests, TLC

CONSTANTS e1, e2, e3

(* A grant of one entity, one of two, and one too large for a stream.      *)
SomeGrants == {{e1}, {e1, e2}, {e1, e2, e3}}
SomeSymmetry == Permutations(Handlers) \union Permutations(Msgs)
=============================================================================
