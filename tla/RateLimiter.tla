---------------------------- MODULE RateLimiter ----------------------------
(* _RateLimiter and RateLimitMiddleware.dispatch                            *)
(* (app/middleware/rate_limit.py) in one process.  hit() runs under its     *)
(* lock and without an await, so a hit is one step; processes share         *)
(* nothing, so one is enough.                                               *)
(*                                                                          *)
(* The limiter keeps a deque of time stamps for each bucket and client and  *)
(* forgets the old ones as it goes.  It reads the wall clock (time.time()), *)
(* which may be set back.                                                   *)
EXTENDS Naturals, Sequences, FiniteSetsExt

CONSTANTS
    Keys,            \* what is counted apart: pairs of a bucket and a client
    Limit, Window,   \* what _parse_rate makes of the bucket's rate
    MaxClock,        \* bound on the clock
    MaxHits          \* bound on the hits let through in one life, per key

ASSUME RatesAreNat == Limit \in [Keys -> Nat] /\ Window \in [Keys -> Nat \ {0}]
ASSUME BoundsAreNat == MaxClock \in Nat /\ MaxHits \in Nat

VARIABLES
    now,             \* time.time()
    hits,            \* _hits
    log,             \* history: all the hits let through since the start
    answer,          \* history: the last answer for each key
    steady           \* history: the clock was not set back since the start

vars == <<now, hits, log, answer, steady>>

NoAnswer == [code |-> 0, at |-> 0]

(* The processes that count the keys in K start with an empty dict.         *)
Clear(K) ==
    /\ hits'   = [k \in Keys |-> IF k \in K THEN <<>> ELSE hits[k]]
    /\ log'    = [k \in Keys |-> IF k \in K THEN <<>> ELSE log[k]]
    /\ answer' = [k \in Keys |-> IF k \in K THEN NoAnswer ELSE answer[k]]
    /\ steady' = (steady \/ K = Keys)

Init ==
    /\ now    \in 0..MaxClock
    /\ hits   = [k \in Keys |-> <<>>]
    /\ log    = [k \in Keys |-> <<>>]
    /\ answer = [k \in Keys |-> NoAnswer]
    /\ steady = TRUE

(* Mutant: the deque is not pruned once it is full.                         *)
PruneUnlessFull(k, dq) ==
    IF Len(dq) >= Limit[k] THEN dq
    ELSE SelectSeq(dq, LAMBDA h : h + Window[k] >= now)

(* Mutant: a hit is forgotten when it is as old as the window.              *)
PruneAtWindow(k, dq) == SelectSeq(dq, LAMBDA h : h + Window[k] > now)

(* while dq and dq[0] < now - window: dq.popleft().                         *)
Prune(k, dq) ==
    LET old  == {i \in 1..Len(dq) : dq[i] + Window[k] < now}
        gone == CHOOSE n \in 0..Len(dq) :
                   1..n \subseteq old /\ (n + 1) \notin old
    IN  SubSeq(dq, gone + 1, Len(dq))

(* A request whose bucket is not full goes through ...                      *)
Pass(k) ==
    LET dq == Prune(k, hits[k])
    IN  /\ Len(dq) < Limit[k] /\ Len(log[k]) < MaxHits
        /\ hits'   = [hits EXCEPT ![k] = Append(dq, now)]
        /\ log'    = [log EXCEPT ![k] = Append(@, now)]
        /\ answer' = [answer EXCEPT ![k] = [code |-> 200, at |-> now]]
        /\ UNCHANGED <<now, steady>>

(* Mutant: a refused request counts as a hit.                               *)
RefuseAndCount(k) ==
    LET dq == Prune(k, hits[k])
    IN  /\ Len(dq) >= Limit[k]
        /\ hits'   = [hits EXCEPT ![k] = Append(dq, now)]
        /\ answer' = [answer EXCEPT ![k] = [code |-> 429, at |-> now]]
        /\ UNCHANGED <<now, log, steady>>

(* ... and one whose bucket is full gets a 429.                             *)
Refuse(k) ==
    LET dq == Prune(k, hits[k])
    IN  /\ Len(dq) >= Limit[k]
        /\ hits'   = [hits EXCEPT ![k] = dq]
        /\ answer' = [answer EXCEPT ![k] = [code |-> 429, at |-> now]]
        /\ UNCHANGED <<now, log, steady>>

Tick ==
    /\ now < MaxClock
    /\ now' = now + 1
    /\ UNCHANGED <<hits, log, answer, steady>>

(* The wall clock is set back.                                              *)
SetBack ==
    /\ \E time \in 0..MaxClock : time < now /\ now' = time
    /\ steady' = FALSE
    /\ UNCHANGED <<hits, log, answer>>

(* The process starts again with an empty dict (limiter.reset() in tests).  *)
reset ==
    /\ \E k \in Keys : answer[k] # NoAnswer
    /\ Clear(Keys)
    /\ UNCHANGED now

Next == Tick \/ SetBack \/ reset \/ \E k \in Keys : Pass(k) \/ Refuse(k)

Spec == Init /\ [][Next]_vars

----------------------------------------------------------------------------
(* No deque outgrows its limit, even when the clock goes back.              *)
TypeOK ==
    /\ now \in 0..MaxClock
    /\ \A k \in Keys :
          /\ hits[k] \in Seq(Nat) /\ Len(hits[k]) =< Limit[k]
          /\ log[k] \in Seq(Nat)
          /\ answer[k] \in [code : {0, 200, 429}, at : Nat]
    /\ steady \in BOOLEAN

(* The requests of k let through in [from, to].                             *)
Passed(k, from, to) ==
    Cardinality({i \in 1..Len(log[k]) : from =< log[k][i] /\ log[k][i] =< to})

(* Forgetting old hits loses nothing: of one client, no period as long as   *)
(* the window, wherever it starts, sees more than the limit.                *)
LimitHolds ==
    steady => \A k \in Keys, from \in 0..MaxClock :
                 Passed(k, from, from + Window[k]) =< Limit[k]

(* And nothing is held against a client for longer than the window, nor     *)
(* against another client: a 429 means that the limit was used up within    *)
(* the window before it, by requests of this client that went through.      *)
RefusedOnlyWhenFull ==
    steady => \A k \in Keys :
        answer[k].code = 429 =>
            Passed(k, Max({0, answer[k].at - Window[k]}), answer[k].at) >= Limit[k]

(* Whatever the clock does, a client that is refused had a request let      *)
(* through at a time that is not older than the window.                     *)
RefusedOnlyAfterHit ==
    \A k \in Keys : Limit[k] > 0 /\ answer[k].code = 429 =>
        \E i \in 1..Len(log[k]) : log[k][i] + Window[k] >= answer[k].at
=============================================================================
