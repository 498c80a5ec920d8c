---------------------------- MODULE AuditChain ----------------------------
(* write_audit (app/audit/service.py) and the commit of the handler that    *)
(* calls it, run by concurrent requests on the event loops of one or more   *)
(* worker processes over one database.                                      *)
(*                                                                          *)
(* A request enters this module when its handler calls write_audit.  From   *)
(* there it awaits the database three times: the SELECT of the last hash,   *)
(* the flush (INSERT) of its row and the COMMIT of the transaction.         *)
(* _chain_lock is a threading.Lock of the process, held across the first    *)
(* two awaits and released before the third.  It is taken by a plain "with" *)
(* inside a coroutine: a request that finds it held blocks the thread, and  *)
(* with it every other request of that worker, the holder included.         *)
EXTENDS HashChain

CONSTANTS
    Requests,        \* requests that write one audit row each
    Workers,         \* uvicorn processes, one event loop and one lock each
    WorkerOf,        \* WorkerOf[t]: the process that serves request t
    BodyOf,          \* BodyOf[t]: what request t records
    NoRequest        \* nobody holds the lock

ASSUME WorkerOfType == WorkerOf \in [Requests -> Workers]
ASSUME BodyOfType   == BodyOf \in [Requests -> Bodies]
ASSUME NoRequestIsNone == NoRequest \notin Requests

VARIABLES
    pc,              \* where each request stands
    lock,            \* lock[w]: the request that holds _chain_lock in w
    prev,            \* prev[t]: the digest t read
    ident,           \* ident[t]: the id of t's flushed row, 0 before
    rows,            \* committed rows of audit_logs
    nextId           \* next value of the id sequence

vars == <<pc, lock, prev, ident, rows, nextId>>

Holding  == {"select", "insert"}                 \* inside the "with"
Open     == {"new", "blocked", "commit", "committed"} \cup Holding
Finished == {"done", "failed", "lost"}

RowOf(t) == NewRow(ident[t], BodyOf[t], prev[t])

----------------------------------------------------------------------------
(* The thread of worker w waits for the lock: its loop runs nothing else.   *)
Stuck(w) == \E t \in Requests : WorkerOf[t] = w /\ pc[t] = "blocked"

(* Request t can run its next piece of Python code.                         *)
Runs(t, at) == pc[t] = at /\ ~Stuck(WorkerOf[t])

Goto(t, at) == pc' = [pc EXCEPT ![t] = at]

(* Mutant: the id sequence starts at the value that stands for "no id yet". *)
InitIdsFromZero ==
    /\ pc     = [t \in Requests |-> "new"]
    /\ lock   = [w \in Workers |-> NoRequest]
    /\ prev   = [t \in Requests |-> NoHash]
    /\ ident  = [t \in Requests |-> 0]
    /\ rows   = {}
    /\ nextId = 0

Init ==
    /\ pc     = [t \in Requests |-> "new"]
    /\ lock   = [w \in Workers |-> NoRequest]
    /\ prev   = [t \in Requests |-> NoHash]
    /\ ident  = [t \in Requests |-> 0]
    /\ rows   = {}
    /\ nextId = 1

(* "with _chain_lock:" finds it free, and the SELECT is sent.               *)
Acquire(t) ==
    /\ Runs(t, "new")
    /\ lock[WorkerOf[t]] = NoRequest
    /\ lock' = [lock EXCEPT ![WorkerOf[t]] = t]
    /\ Goto(t, "select")
    /\ UNCHANGED <<prev, ident, rows, nextId>>

(* "with _chain_lock:" finds it held, and the thread stops here.            *)
Block(t) ==
    /\ Runs(t, "new")
    /\ lock[WorkerOf[t]] # NoRequest
    /\ Goto(t, "blocked")
    /\ UNCHANGED <<lock, prev, ident, rows, nextId>>

(* Mutant: the select also sees flushed rows that are not committed.        *)
ReadUncommitted(t) ==
    /\ Runs(t, "select")
    /\ prev' = [prev EXCEPT ![t] =
                   LastHash(rows \cup {RowOf(u) : u \in {v \in Requests : pc[v] = "commit"}})]
    /\ Goto(t, "insert")
    /\ UNCHANGED <<lock, ident, rows, nextId>>

(* prev = await _last_hash(session): a READ COMMITTED select sees the rows  *)
(* committed so far; the row is built, hashed and sent.                     *)
ReadLast(t) ==
    /\ Runs(t, "select")
    /\ prev' = [prev EXCEPT ![t] = LastHash(rows)]
    /\ Goto(t, "insert")
    /\ UNCHANGED <<lock, ident, rows, nextId>>

(* Mutant: the handler answers after the flush without session.commit().    *)
FlushWithoutCommit(t) ==
    /\ Runs(t, "insert")
    /\ ident'  = [ident EXCEPT ![t] = nextId]
    /\ nextId' = nextId + 1
    /\ lock'   = [lock EXCEPT ![WorkerOf[t]] = NoRequest]
    /\ Goto(t, "committed")
    /\ UNCHANGED <<prev, rows>>

(* Mutant: ids are one more than the number of committed rows.              *)
FlushCountsRows(t) ==
    /\ Runs(t, "insert")
    /\ ident'  = [ident EXCEPT ![t] = Cardinality(rows) + 1]
    /\ nextId' = nextId + 1
    /\ lock'   = [lock EXCEPT ![WorkerOf[t]] = NoRequest]
    /\ Goto(t, "commit")
    /\ UNCHANGED <<prev, rows>>

(* await session.flush() returns: the row has its id but nobody else sees   *)
(* it; the lock is released and the handler goes on to session.commit().    *)
Flush(t) ==
    /\ Runs(t, "insert")
    /\ ident'  = [ident EXCEPT ![t] = nextId]
    /\ nextId' = nextId + 1
    /\ lock'   = [lock EXCEPT ![WorkerOf[t]] = NoRequest]
    /\ Goto(t, "commit")
    /\ UNCHANGED <<prev, rows>>

(* The database commits; it does not need the worker's thread for that.     *)
Commit(t) ==
    /\ pc[t] = "commit"
    /\ rows' = rows \cup {RowOf(t)}
    /\ Goto(t, "committed")
    /\ UNCHANGED <<lock, prev, ident, nextId>>

(* The handler resumes after the commit and answers.                        *)
Respond(t) ==
    /\ Runs(t, "committed")
    /\ Goto(t, "done")
    /\ UNCHANGED <<lock, prev, ident, rows, nextId>>

----------------------------------------------------------------------------
(* A statement of t raises: get_session rolls back, "with" lets go of the   *)
(* lock and the client gets a 500.  A COMMIT that fails may have been       *)
(* carried out or not, or be carried out later.                             *)
Abort(at) == IF at = "commit" THEN "lost" ELSE "failed"

(* Fail lets go of the lock; the mutant keeps it (acquire() without "with"). *)
FailKeepsLock(t) ==
    /\ pc[t] \in Holding \cup {"commit"} /\ Runs(t, pc[t])
    /\ Goto(t, Abort(pc[t]))
    /\ UNCHANGED <<lock, prev, ident, rows, nextId>>

Fail(t) ==
    /\ pc[t] \in Holding \cup {"commit"} /\ Runs(t, pc[t])
    /\ Goto(t, Abort(pc[t]))
    /\ lock' = [w \in Workers |-> IF lock[w] = t THEN NoRequest ELSE lock[w]]
    /\ UNCHANGED <<prev, ident, rows, nextId>>

(* The COMMIT of an aborted request was carried out after all.              *)
LateCommit(t) ==
    /\ pc[t] = "lost"
    /\ rows' = rows \cup {RowOf(t)}
    /\ Goto(t, "failed")
    /\ UNCHANGED <<lock, prev, ident, nextId>>

(* Worker w dies and is started again: its requests are gone, its lock is   *)
(* a new one.  Requests that had not reached write_audit are sent again.    *)
Hit(w, t) == WorkerOf[t] = w /\ pc[t] \in Open \ {"new"}

Crash(w) ==
    /\ \E t \in Requests : Hit(w, t)
    /\ pc'   = [t \in Requests |-> IF Hit(w, t) THEN Abort(pc[t]) ELSE pc[t]]
    /\ lock' = [lock EXCEPT ![w] = NoRequest]
    /\ UNCHANGED <<prev, ident, rows, nextId>>

Next ==
    \/ \E t \in Requests :
          \/ Acquire(t) \/ Block(t) \/ ReadLast(t) \/ Flush(t)
          \/ Commit(t) \/ Respond(t) \/ Fail(t) \/ LateCommit(t)
    \/ \E w \in Workers : Crash(w)

(* The loop runs every coroutine that is ready and the database answers     *)
(* every statement; nothing has to fail and nothing restarts a worker.      *)
Progress(t) ==
    Acquire(t) \/ Block(t) \/ ReadLast(t) \/ Flush(t) \/ Commit(t) \/ Respond(t)

Spec == Init /\ [][Next]_vars
FairSpec == Spec /\ \A t \in Requests : WF_vars(Progress(t))

----------------------------------------------------------------------------
(* Types of the variables.                                                  *)
TypeOK ==
    /\ pc \in [Requests -> Open \cup Finished]
    /\ lock \in [Workers -> Requests \cup {NoRequest}]
    /\ prev \in [Requests -> Hash]
    /\ ident \in [Requests -> Nat]
    /\ rows \subseteq AuditRow
    /\ nextId \in Nat \ {0}

(* Whoever holds a worker's lock is inside write_audit, and everyone inside *)
(* holds it: no error path or restart leaves _chain_lock taken for good.    *)
LockMatchesHolder ==
    \A t \in Requests, w \in Workers :
        lock[w] = t <=> (WorkerOf[t] = w /\ pc[t] \in Holding)

(* Every row of the trail extends the empty digest or an earlier committed  *)
(* row, however requests overlap, fail or lose their worker: write_audit    *)
(* never chains to a row that was rolled back.                              *)
LinksPointBack ==
    \A r \in rows :
        /\ r.hash = HashBody(r.prev, r.body)
        /\ r.prev = NoHash \/ \E o \in rows : o.hash = r.prev /\ o.id < r.id

(* A client that got its answer has its row in audit_logs, under an id that *)
(* no other request's row has.                                              *)
AnsweredIsAudited ==
    \A t \in Requests : pc[t] = "done" =>
        {r \in rows : r.id = ident[t]} = {RowOf(t)}

(* verify_chain turns from ok to broken in one way only: a request commits  *)
(* a row whose prev_hash stopped being the last one after it was read.      *)
(* Failures, restarts and gaps in the ids never break the chain.            *)
StaleCommit(t) ==
    /\ pc[t] \in {"commit", "lost"}
    /\ rows' = rows \cup {RowOf(t)}
    /\ prev[t] # LastHash(rows)

BreaksOnlyByStaleRead ==
    [][ChainOk(rows) /\ ~ChainOk(rows') => \E t \in Requests : StaleCommit(t)]_vars

(* A request that reaches write_audit finishes, unless a request of its     *)
(* worker blocks the thread on the lock while the holder still needs the    *)
(* thread.  There is no other way to hang.                                  *)
Collision(w) ==
    \E u, v \in Requests :
        WorkerOf[u] = w /\ lock[w] = v /\ pc[u] = "blocked" /\ pc[v] \in Holding

HangsOnlyByCollision ==
    \A t \in Requests :
        pc[t] \in Open ~> (pc[t] \in Finished \/ Collision(WorkerOf[t]))

(* audit_logs, seen alone, behaves as the abstract forest.                  *)
Forest == INSTANCE AuditForest
ForestSpec == Forest!Spec

----------------------------------------------------------------------------
(* Two claims of app/audit/service.py that the code does not keep.          *)

(* "Lock evita corrida que poderia gerar dois logs com o mesmo prev_hash."  *)
NoSharedPrev ==
    \A r, o \in rows : r.prev = o.prev => r.id = o.id

(* "A cada acao critica (...) gravamos uma linha em audit_logs": under      *)
(* fairness, with no failure and no restart, each request gets its row.     *)
EveryRequestAudited ==
    \A t \in Requests : <>(pc[t] \in {"committed", "done", "failed", "lost"})
=============================================================================
