----------------------------- MODULE MCLockout -----------------------------
(* Two attempts at a time; the lock outlives one tick.                      *)
EXTENDS Lockout, TLC

CONSTANTS a, b

SameSlots == Permutations({a, b})
=============================================================================
