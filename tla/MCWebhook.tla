----------------------------- MODULE MCWebhook -----------------------------
(* Two deliveries of one sheet, on two workers, and one of another sheet    *)
(* on the worker of the first.  The sheets have a row in common.            *)
EXTENDS Webhook, TLC

CONSTANTS d1, d2, e1, s, t, w1, w2

TwoSheets  == [d \in Deliveries |-> IF d = e1 THEN t ELSE s]
SharedRow  == [x \in Sheets |-> IF x = s THEN {"r1", "r2"} ELSE {"r2", "r3"}]
TwoWorkers == [d \in Deliveries |-> IF d \in {d1, e1} THEN w1 ELSE w2]
=============================================================================
