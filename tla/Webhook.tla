------------------------------ MODULE Webhook ------------------------------
(* Ingestion (Ingest) and the audit trail (AuditChain) in one system: the   *)
(* deliveries are served by the event loops of a few workers, and the audit *)
(* row of a sheet goes through write_audit, under the lock of the worker,   *)
(* inside the transaction that already holds the sheet.                     *)
(*                                                                          *)
(* What each part does is said in its own module; here is which of their    *)
(* steps are one step, and that Python code needs the thread of its worker  *)
(* while the database goes on without it.                                   *)
EXTENDS Ingest

CONSTANTS
    Workers,
    WorkerOf,        \* WorkerOf[d]: the process that serves delivery d
    NoRequest        \* nobody holds the lock

ASSUME WorkersServe == WorkerOf \in [Deliveries -> Workers] /\ NoRequest \notin Deliveries

VARIABLES
    at,              \* where each delivery stands in write_audit and after it
    lock, prev, ident, nextId,       \* of AuditChain
    trail            \* committed rows of audit_logs

(* The row of a delivery names its ingest id and request: no two are alike. *)
Audits == INSTANCE AuditChain WITH
    Requests <- Deliveries, Bodies <- Deliveries,
    BodyOf <- [d \in Deliveries |-> d],
    pc <- at, rows <- trail

auditVars == <<at, lock, prev, ident, nextId, trail>>
hookVars  == <<vars, auditVars>>

HookInit == Init /\ Audits!Init

(* The thread of d's worker is there to run it.                             *)
Runs(d) == ~Audits!Stuck(WorkerOf[d])

----------------------------------------------------------------------------
(* The pieces of the handler before write_audit.                            *)
Handle(d) ==
    /\ Runs(d)
    /\ Receive(d) \/ Select(d)
    /\ UNCHANGED auditVars

(* The INSERT has been sent: it waits in the database, and takes effect     *)
(* there, whatever the worker does.  An IntegrityError is for the thread.   *)
Store(d) ==
    /\ Insert(d)
    /\ SheetOf[d] \in Known => Runs(d)
    /\ UNCHANGED auditVars

(* write_audit up to its SELECT ...                                         *)
Link(d) ==
    /\ pc[d] = "audit"
    /\ Audits!Acquire(d) \/ Audits!Block(d) \/ Audits!ReadLast(d)
    /\ UNCHANGED vars

(* Mutant: write_audit writes its row in a session of its own.              *)
RecordAtOnce(d) ==
    /\ Audit(d)
    /\ Audits!Runs(d, "insert")
    /\ ident'  = [ident EXCEPT ![d] = nextId]
    /\ nextId' = nextId + 1
    /\ lock'   = [lock EXCEPT ![WorkerOf[d]] = NoRequest]
    /\ at'     = [at EXCEPT ![d] = "commit"]
    /\ trail'  = trail \cup {Audits!NewRow(nextId, d, prev[d])}
    /\ UNCHANGED prev

(* ... and the flush of its row, in the transaction of the sheet.           *)
Record(d) == Audit(d) /\ Audits!Flush(d)

(* One COMMIT makes the sheet and its audit row visible, and then the       *)
(* handler answers.                                                         *)
CommitAll(d) == Commit(d) /\ Audits!Commit(d)
Answer(d)    == Audits!Respond(d) /\ UNCHANGED vars

(* A statement of d raises, before write_audit or from there on.            *)
Raise(d) ==
    /\ Runs(d) /\ Fail(d)
    /\ IF pc[d] \in {"select", "insert"} THEN UNCHANGED auditVars ELSE Audits!Fail(d)

(* The database settles a COMMIT that nobody waits for: all of it or none.  *)
Resolve(d) ==
    \/ Publish(d) /\ Settle(d) /\ Audits!LateCommit(d)
    \/ UNCHANGED <<tables, auditVars>> /\ Settle(d)

(* Worker w dies and is started again.                                      *)
Serves(w) == {d \in Deliveries : WorkerOf[d] = w /\ pc[d] \in Awaiting}

Die(w) ==
    /\ Vanish(Serves(w))
    /\ \/ Audits!Crash(w)
       \/ /\ Serves(w) # {} /\ \A d \in Deliveries : ~Audits!Hit(w, d)
          /\ UNCHANGED auditVars

Advance(d) ==
    Handle(d) \/ Store(d) \/ Link(d) \/ Record(d) \/ CommitAll(d) \/ Answer(d)

HookNext ==
    \/ \E d \in Deliveries : Advance(d) \/ Raise(d) \/ Resolve(d)
    \/ \E w \in Workers : Die(w)

HookSpec == HookInit /\ [][HookNext]_hookVars

(* The loop runs what is ready, the database answers and settles what it    *)
(* was told to commit.  Nothing has to fail and nobody restarts a worker.   *)
FairHookSpec ==
    /\ HookSpec
    /\ \A d \in Deliveries : WF_hookVars(Advance(d)) /\ WF_hookVars(Resolve(d))

----------------------------------------------------------------------------
(* The trail and the sheets agree at all times: a row of audit_logs says    *)
(* that its delivery stored its sheet, and no stored sheet is without one.  *)
TrailTellsSheets ==
    {<<SheetOf[r.body], r.body>> : r \in trail} = stored

(* A worker that hangs on its lock takes others along only through a sheet: *)
(* a delivery gets its answer unless its own worker hangs, or it carries    *)
(* the sheet that a hanging worker has inserted and not committed.  The     *)
(* death of the worker that hangs lets the others go on.                    *)
Over(d)  == pc[d] \in Final /\ at[d] # "committed"
Hangs(w) == Audits!Collision(w)

HangsSpreadBySheet ==
    \A d \in Deliveries :
        pc[d] # "new" ~>
            \/ Over(d)
            \/ Hangs(WorkerOf[d])
            \/ \E o \in Deliveries \ {d} :
                  SheetOf[d] \in open[o].sheets /\ Hangs(WorkerOf[o])
=============================================================================
