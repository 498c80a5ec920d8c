--------------------------- MODULE MCAuditVerify ---------------------------
(* Trails of two rows over two bodies, three columns of them changed:       *)
(* enough to rewrite a row and its successor up to the newest digest, to    *)
(* let the rows change places, and to put a row before, between or after.   *)
EXTENDS AuditVerify, TLC

CONSTANTS a, b, t0, t1

Symmetry == Permutations(Bodies) \cup Permutations(Stamps)
=============================================================================
