---------------------------- MODULE MCFrontDoor ----------------------------
(* Two requests of one client to one worker, one of which sends a body, and *)
(* a third to another worker; a probe of the orchestrator; and a request    *)
(* for a bucket whose rate has an unknown unit.  The client may make one    *)
(* request in any two ticks.                                                *)
EXTENDS FrontDoor

CONSTANTS p, q, r, h, x, w1, w2, client, odd

ReadersOf == [t \in Requests |-> t = p]
Places    == [t \in Requests |-> IF t = r THEN w2 ELSE w1]
Counters  == {w1, w2} \X {client, odd}
Clients   == [t \in Requests |-> CASE t = h -> NoKey
                                   [] t = x -> <<w1, odd>>
                                   [] t = r -> <<w2, client>>
                                   [] OTHER -> <<w1, client>>]
Owners    == [k \in Keys |-> k[1]]
OddUnits  == {w1, w2} \X {odd}
OneEach   == [k \in Keys |-> 1]
=============================================================================
