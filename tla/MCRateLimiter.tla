--------------------------- MODULE MCRateLimiter ---------------------------
(* Two clients of different buckets.                                        *)
EXTENDS RateLimiter

CONSTANTS auth, ingest

TwoRates    == [k \in Keys |-> IF k = auth THEN 2 ELSE 1]
TwoWindows  == [k \in Keys |-> IF k = auth THEN 2 ELSE 1]
=============================================================================
