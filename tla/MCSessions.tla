---------------------------- MODULE MCSessions ----------------------------
(* One login; two refreshes, a logout and a request for an admin route      *)
(* race for its tokens.                                                     *)
EXTENDS Sessions, TLC

CONSTANTS l, r1, r2, o, d, u

RaceOps == [t \in Requests |->
    CASE t = l        -> "login"
      [] t \in {r1, r2} -> "refresh"
      [] t = o        -> "logout"
      [] OTHER        -> "admin"]

OneUser == [t \in Requests |-> u]

SameOps == Permutations({r1, r2})
=============================================================================
