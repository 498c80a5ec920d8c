--------------------------- MODULE SessionPhases ---------------------------
(* What a session promises, seen from outside: it starts with one login,    *)
(* its refresh token moves from one pair to the next, and once it is over   *)
(* nothing brings it back.                                                  *)
CONSTANT Logins

VARIABLE phase       \* one of "none", "held", "moving", "over"

Init == phase = [f \in Logins |-> "none"]

Moves ==
    { <<"none", "held">>,       \* login answers
      <<"held", "moving">>,     \* a rotation revokes the old token
      <<"moving", "held">>,     \* and hands out the new one
      <<"moving", "over">>,     \* or dies before it can
      <<"held", "over">> }      \* logout, or a failed rotation

Move(f) ==
    \E to \in {"held", "moving", "over"} :
        /\ <<phase[f], to>> \in Moves
        /\ phase' = [phase EXCEPT ![f] = to]

Next == \E f \in Logins : Move(f)

Spec == Init /\ [][Next]_phase
=============================================================================
