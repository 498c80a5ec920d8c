--------------------------- MODULE MCAuditChain ---------------------------
(* Three requests on two workers (two share one), each with its own body,   *)
(* and a single worker with two requests.                                   *)
EXTENDS AuditChain

CONSTANTS t1, t2, t3, w1, w2

TwoWorkers == [t \in Requests |-> IF t = t3 THEN w2 ELSE w1]
OneWorker  == [t \in Requests |-> w1]
OwnBody    == [t \in Requests |-> t]
=============================================================================
