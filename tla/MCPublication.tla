--------------------------- MODULE MCPublication ---------------------------
(* Small instances of Publication for TLC. *)
EXTENDS Publication, TLC

CONSTANTS p1, p2, c1, c2, k1, k2, r1, r2

\* A key permits every pack or none.
MCGrants == {Packs, {}}
MCSeedGrant == Packs
MCSeedSource == [version |-> 1, content |-> c1]
Symmetry == Permutations({r1, r2})
=============================================================================
