----------------------------- MODULE FrontDoor -----------------------------
(* What a request meets before its route, in the order of create_app        *)
(* (app/main.py): the redirect to https and CORS, which may answer          *)
(* themselves; RequestSizeLimitMiddleware; RateLimitMiddleware with the     *)
(* limiters of RateLimiter; then the route, which reads the body through the *)
(* counter of the second; and the tasks that record suspicious events       *)
(* (app/audit/service.py).  There are several workers; each has a limiter   *)
(* of its own and may die and start again.  Their clock is not set back     *)
(* here; in RateLimiter it is.                                              *)
(*                                                                          *)
(* No route has the prefix /v1/spreadsheets, so every request has the same  *)
(* size limit.                                                              *)
EXTENDS RateLimiter

CONSTANTS
    Requests, Workers,
    WorkerOf,        \* WorkerOf[t]: the process that accepts t
    Reads,           \* Reads[t]: the route of t reads the body
    KeyOf,           \* KeyOf[t]: bucket and client in that process, or NoKey
    CountedBy,       \* CountedBy[k]: the process whose limiter has key k
    NoKey,           \* /healthz and /readyz, which are not limited
    SizeLimit,       \* max_request_bytes
    MaxChunk,        \* bound on what one http.request message carries
    Absent, Malformed,  \* a Content-Length that is not a number
    Unparsed         \* keys whose rate has a unit _parse_rate does not know

ASSUME RequestTypes == /\ WorkerOf \in [Requests -> Workers]
                       /\ Reads \in [Requests -> BOOLEAN]
                       /\ KeyOf \in [Requests -> Keys \cup {NoKey}]
                       /\ NoKey \notin Keys /\ Unparsed \subseteq Keys
ASSUME EachCountsItsOwn ==
    \A t \in Requests : KeyOf[t] # NoKey => CountedBy[KeyOf[t]] = WorkerOf[t]
ASSUME SizesAreNat == SizeLimit \in Nat /\ MaxChunk \in Nat
ASSUME NotNumbers == Absent \notin Nat /\ Malformed \notin Nat /\ Absent # Malformed

VARIABLES
    pc,              \* where each request stands
    declared,        \* declared[t]: its Content-Length
    body_size,       \* body_size[t]: bytes counted so far
    given,           \* history: bytes that reached the route of t
    entered,         \* history: when t was let through, in its worker's life
    tasks,           \* requests whose refusal has a task under way
    events,          \* suspicious_events: how many rows of each request
    lost             \* history: tasks that failed or died with their worker

books    == <<tasks, events, lost>>
doorVars == <<pc, declared, body_size, given, entered, books, vars>>

Inside == {"limiter", "route"}
Final  == {"early", "answered", "400", "413", "429", "500", "gone"}
Never  == MaxClock + 1           \* t was not let through

Lengths == {Absent, Malformed} \cup 0..(SizeLimit + 1)

Goto(t, at) == pc' = [pc EXCEPT ![t] = at]

DoorInit ==
    /\ pc        = [t \in Requests |-> "new"]
    /\ declared  = [t \in Requests |-> Absent]
    /\ body_size = [t \in Requests |-> 0]
    /\ given     = [t \in Requests |-> 0]
    /\ entered   = [t \in Requests |-> Never]
    /\ tasks = {} /\ lost = {}
    /\ events    = [t \in Requests |-> 0]
    /\ Init

----------------------------------------------------------------------------
(* RequestSizeLimitMiddleware looks at the Content-Length: 400, 413 or on.  *)
Verdict(length) ==
    IF length = Malformed THEN "early"
    ELSE IF length # Absent /\ length > SizeLimit THEN "413"
    ELSE "limiter"

(* SecurityHeadersMiddleware redirects http to https in production, and     *)
(* CORSMiddleware answers preflights: of those nobody inside hears.  The    *)
(* Content-Length is only kept for a body that will be read.                *)
Arrive(t) ==
    /\ pc[t] = "new"
    /\ \/ Goto(t, "early") /\ UNCHANGED declared
       \/ \E length \in Lengths :
             /\ Goto(t, Verdict(length))
             /\ declared' = IF Reads[t] THEN [declared EXCEPT ![t] = length] ELSE declared
    /\ UNCHANGED <<body_size, given, entered, books, vars>>

(* RateLimitMiddleware: health checks pass by ...                           *)
Exempt(t) ==
    /\ pc[t] = "limiter" /\ KeyOf[t] = NoKey
    /\ Goto(t, "route")
    /\ UNCHANGED <<declared, body_size, given, entered, books, vars>>

(* ... one whose rate _parse_rate cannot read fails (the validator of       *)
(* Settings lets any unit through, so the workers did start) ...            *)
Choke(t) ==
    /\ pc[t] = "limiter" /\ KeyOf[t] \in Unparsed
    /\ Goto(t, "500")
    /\ UNCHANGED <<declared, body_size, given, entered, books, vars>>

(* ... a request that the limiter lets through goes on to its route ...     *)
Admit(t) ==
    /\ pc[t] = "limiter" /\ KeyOf[t] \in Keys \ Unparsed
    /\ Pass(KeyOf[t])
    /\ Goto(t, "route")
    /\ entered' = [entered EXCEPT ![t] = now]
    /\ UNCHANGED <<declared, body_size, given, books>>

(* Mutant: the task is forgotten when there is no loop to run it.           *)
TurnAwaySilently(t) ==
    /\ pc[t] = "limiter" /\ KeyOf[t] \in Keys \ Unparsed
    /\ Refuse(KeyOf[t])
    /\ Goto(t, "429")
    /\ UNCHANGED <<declared, body_size, given, entered, books>>

(* ... and one that it does not gets its 429, while a task of its own       *)
(* (record_suspicious_event_sync_safe) will write the event.                *)
TurnAway(t) ==
    /\ pc[t] = "limiter" /\ KeyOf[t] \in Keys \ Unparsed
    /\ Refuse(KeyOf[t])
    /\ Goto(t, "429")
    /\ tasks' = tasks \cup {t}
    /\ UNCHANGED <<declared, body_size, given, entered, events, lost>>

(* The server hands over at most the bytes that were declared.              *)
Sends(t, n) == declared[t] # Absent => body_size[t] + n =< declared[t]

(* Mutant: the limit is compared with the count before this chunk.          *)
ReceiveThenCount(t) ==
    /\ pc[t] = "route" /\ Reads[t]
    /\ \E n \in 1..MaxChunk :
          /\ Sends(t, n)
          /\ body_size' = [body_size EXCEPT ![t] = @ + n]
          /\ IF body_size[t] > SizeLimit
             THEN Goto(t, "413") /\ UNCHANGED given
             ELSE given' = [given EXCEPT ![t] = @ + n] /\ UNCHANGED pc
    /\ UNCHANGED <<declared, entered, books, vars>>

(* counting_receive: the route asks for the next part of the body (empty    *)
(* parts change nothing).  PayloadTooLarge passes through FastAPI's parser  *)
(* or the route and through the task groups of two middlewares; what the    *)
(* client is told depends on them.                                          *)
Receive(t) ==
    /\ pc[t] = "route" /\ Reads[t]
    /\ \E n \in 1..MaxChunk :
          /\ Sends(t, n)
          /\ body_size' = [body_size EXCEPT ![t] = @ + n]
          /\ IF body_size'[t] > SizeLimit
             THEN (\E code \in {"413", "400", "500"} : Goto(t, code)) /\ UNCHANGED given
             ELSE given' = [given EXCEPT ![t] = @ + n] /\ UNCHANGED pc
    /\ UNCHANGED <<declared, entered, books, vars>>

(* The route answers, or raises and an error handler does.                  *)
Serve(t) ==
    /\ pc[t] = "route"
    /\ Goto(t, "answered")
    /\ UNCHANGED <<declared, body_size, given, entered, books, vars>>

(* The route finds the client gone when it asks for the body.               *)
Disconnect(t) ==
    /\ pc[t] = "route" /\ Reads[t]
    /\ Goto(t, "gone")
    /\ UNCHANGED <<declared, body_size, given, entered, books, vars>>

----------------------------------------------------------------------------
(* record_suspicious_event: one insert in a session of its own.             *)
Inserts(T) == events' = [t \in Requests |-> IF t \in T THEN events[t] + 1 ELSE events[t]]

Record(t) ==
    /\ t \in tasks
    /\ tasks' = tasks \ {t}
    /\ Inserts({t})
    /\ UNCHANGED <<pc, declared, body_size, given, entered, lost, vars>>

(* Mutant: an insert that fails is tried again.                             *)
LoseAndRetry(t) ==
    /\ t \in tasks \ lost
    /\ lost' = lost \cup {t}
    /\ \E done \in SUBSET {t} : Inserts(done)
    /\ UNCHANGED <<pc, declared, body_size, given, entered, tasks, vars>>

(* The insert or its commit raises (nobody looks at the task's exception),  *)
(* or the task is collected: only the loop's weak reference holds it.  A    *)
(* commit that raises may have been carried out.                            *)
Lose(t) ==
    /\ t \in tasks
    /\ tasks' = tasks \ {t}
    /\ lost'  = lost \cup {t}
    /\ \E done \in SUBSET {t} : Inserts(done)
    /\ UNCHANGED <<pc, declared, body_size, given, entered, vars>>

(* Mutant: the limiter is kept outside and emptied by whoever starts.       *)
RestartClearsAll(w) ==
    LET mine == {t \in Requests : WorkerOf[t] = w}
    IN  /\ \E t \in mine : pc[t] \in Inside \/ t \in tasks \/ entered[t] # Never
        /\ pc' = [t \in Requests |-> IF t \in mine /\ pc[t] \in Inside THEN "gone" ELSE pc[t]]
        /\ entered' = [t \in Requests |-> IF t \in mine THEN Never ELSE entered[t]]
        /\ tasks' = tasks \ mine
        /\ lost'  = lost \cup (tasks \cap mine)
        /\ UNCHANGED events
        /\ Clear(Keys)
        /\ UNCHANGED <<declared, body_size, given, now>>

(* A worker dies and starts again, with an empty limiter.                   *)
Restart(w) ==
    LET mine == {t \in Requests : WorkerOf[t] = w}
    IN  /\ \E t \in mine : pc[t] \in Inside \/ t \in tasks \/ entered[t] # Never
        /\ pc' = [t \in Requests |-> IF t \in mine /\ pc[t] \in Inside THEN "gone" ELSE pc[t]]
        /\ entered' = [t \in Requests |-> IF t \in mine THEN Never ELSE entered[t]]
        /\ tasks' = tasks \ mine
        /\ lost'  = lost \cup (tasks \cap mine)
        /\ \E done \in SUBSET (tasks \cap mine) : Inserts(done)
        /\ Clear({k \in Keys : CountedBy[k] = w})
        /\ UNCHANGED <<declared, body_size, given, now>>

TimePasses ==
    /\ Tick
    /\ UNCHANGED <<pc, declared, body_size, given, entered, books>>

DoorNext ==
    \/ \E t \in Requests :
          \/ Arrive(t) \/ Exempt(t) \/ Choke(t) \/ Admit(t) \/ TurnAway(t)
          \/ Receive(t) \/ Serve(t) \/ Disconnect(t) \/ Record(t) \/ Lose(t)
    \/ \E w \in Workers : Restart(w)
    \/ TimePasses

DoorSpec == DoorInit /\ [][DoorNext]_doorVars

----------------------------------------------------------------------------
(* End to end: of the requests of one client and bucket, those that get to  *)
(* their routes in any one worker within any one window are no more than    *)
(* the limit, whatever becomes of them there and of the other workers;      *)
(* requests turned away earlier do not count against it, health checks are  *)
(* outside, and none gets through when the rate cannot be read.             *)
Entered(k, from, to) ==
    {t \in Requests : KeyOf[t] = k /\ entered[t] # Never /\ entered[t] \in from..to}

Allowed(k) == IF k \in Unparsed THEN 0 ELSE Limit[k]

RoutesAreLimited ==
    \A k \in Keys, from \in 0..MaxClock :
        Cardinality(Entered(k, from, from + Window[k])) =< Allowed(k)

(* No route sees more of a body than the limit, with or without a           *)
(* Content-Length and however it is cut into chunks; one that answers was   *)
(* given all that was counted; and 413 is said only to a client that        *)
(* exceeded the limit.                                                      *)
BodiesAreBounded ==
    \A t \in Requests :
        /\ given[t] =< SizeLimit
        /\ pc[t] = "answered" => given[t] = body_size[t]
        /\ pc[t] = "413" /\ Reads[t] =>
              declared[t] = SizeLimit + 1 \/ body_size[t] > SizeLimit

(* suspicious_events tells of refusals of the rate limiter and of nothing   *)
(* else: only its middleware calls record_suspicious_event.  No request is  *)
(* in it twice.  A 429 is missing from it only while its task is under way, *)
(* or if the task's insert failed or its worker died before it was done.    *)
EventsAreRefusals ==
    \A t \in Requests :
        /\ events[t] =< 1
        /\ events[t] = 1 => pc[t] = "429"
        /\ pc[t] = "429" => events[t] = 1 \/ t \in tasks \/ t \in lost
=============================================================================
