------------------------------- MODULE MCUsers -------------------------------
(* Two requests in one worker and the bootstrap script, which is a process  *)
(* of its own, all for one email; each process is started up to twice, and  *)
(* one secret is rotated, or removed, somewhere on the way.                 *)
EXTENDS Users, TLC

CONSTANTS c1, c2, boot, w1, job

Places == [c \in Creators |-> IF c \in Scripts THEN job ELSE w1]

SameCreators == Permutations({c1, c2})
=============================================================================
