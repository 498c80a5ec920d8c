------------------------------- MODULE Ingest -------------------------------
(* POST /v1/ingest/spreadsheet (app/routes/ingest.py) with the signature it *)
(* checks (app/security/hmac_sign.py): n8n delivers each sheet, again and   *)
(* again if it has to, and several deliveries may be under way at once.     *)
(*                                                                          *)
(* The handler asks whether the sheet is there, inserts its row (sha256 is  *)
(* unique), inserts the competitors together with the audit row and         *)
(* commits.  An inserted row is not visible before the commit, but another  *)
(* insert of the same sha256 waits for the end of its transaction.  Of      *)
(* write_audit, which is the subject of AuditChain, only the await is here. *)
EXTENDS Naturals, FiniteSets

CONSTANTS
    Deliveries,      \* requests sent by n8n, duplicates and retries included
    Sheets,
    SheetOf,         \* SheetOf[d]: the sheet that d carries
    RowsOf           \* RowsOf[s]: the competitors in sheet s

ASSUME SheetOfType == SheetOf \in [Deliveries -> Sheets]
ASSUME RowsOfType == \A s \in Sheets : IsFiniteSet(RowsOf[s])

VARIABLES
    pc,              \* where each delivery stands
    open,            \* open[d]: what the transaction of d holds so far
    stored,          \* spreadsheet_ingests: <<sheet, delivery>>
    competitors,     \* competitors: <<row, delivery>>
    audited          \* audit_logs of these requests: <<sheet, delivery>>

vars == <<pc, open, stored, competitors, audited>>

Awaiting == {"select", "insert", "audit", "commit"}
Final    == {"201", "refused", "409", "500", "doubt", "gone"}

(* The answer n8n gets (400 and 401 are "refused"): a COMMIT that raises    *)
(* looks like any other error, and a worker that dies says nothing.         *)
Reply(d) ==
    CASE pc[d] \in {"201", "refused", "409", "500"} -> pc[d]
      [] pc[d] = "doubt"                            -> "500"
      [] OTHER                                      -> "none"

(* What a transaction has written and not committed.                        *)
Competitors == UNION {RowsOf[s] : s \in Sheets}
Transaction == [sheets : SUBSET Sheets, rows : SUBSET Competitors, audit : SUBSET Sheets]

Nothing == [sheets |-> {}, rows |-> {}, audit |-> {}]

Goto(d, at) == pc' = [pc EXCEPT ![d] = at]

Init ==
    /\ pc          = [d \in Deliveries |-> "new"]
    /\ open        = [d \in Deliveries |-> Nothing]
    /\ stored      = {}
    /\ competitors = {}
    /\ audited     = {}

tables == <<stored, competitors, audited>>

(* The sheets that are stored.                                              *)
Known == {entry[1] : entry \in stored}

----------------------------------------------------------------------------
(* A delivery arrives.  verify_signature may refuse it, for its timestamp   *)
(* or its digest (401), and the schema for its body (400).                  *)
Receive(d) ==
    /\ pc[d] = "new"
    /\ \E at \in {"refused", "select"} : Goto(d, at)
    /\ UNCHANGED <<open, tables>>

(* SELECT ... WHERE sha256 = ...                                            *)
Select(d) ==
    /\ pc[d] = "select"
    /\ Goto(d, IF SheetOf[d] \in Known THEN "409" ELSE "insert")
    /\ UNCHANGED <<open, tables>>

(* Another transaction holds the sha256 of d's sheet.                       *)
Waits(d) == \E o \in Deliveries \ {d} : SheetOf[d] \in open[o].sheets

(* Mutant: sha256 is not declared unique.                                   *)
InsertAnyway(d) ==
    /\ pc[d] = "insert"
    /\ open' = [open EXCEPT ![d].sheets = {SheetOf[d]}]
    /\ Goto(d, "audit")
    /\ UNCHANGED tables

(* flush(): INSERT INTO spreadsheet_ingests.  A sha256 that has been        *)
(* committed since the SELECT raises IntegrityError, which is answered as   *)
(* every SQLAlchemyError is: 500, not the 409 of a duplicate.               *)
Insert(d) ==
    /\ pc[d] = "insert" /\ ~Waits(d)
    /\ IF SheetOf[d] \in Known
       THEN Goto(d, "500") /\ UNCHANGED open
       ELSE /\ open' = [open EXCEPT ![d].sheets = {SheetOf[d]}]
            /\ Goto(d, "audit")
    /\ UNCHANGED tables

(* Mutant: the competitors go through a list that all requests share.       *)
AuditShared(d) ==
    /\ pc[d] = "audit"
    /\ LET all == UNION {RowsOf[SheetOf[o]] : o \in {x \in Deliveries : pc[x] = "audit"}}
       IN  open' = [open EXCEPT ![d].rows = all, ![d].audit = {SheetOf[d]}]
    /\ Goto(d, "commit")
    /\ UNCHANGED tables

(* write_audit: its SELECT flushes the competitors added before, and then   *)
(* the audit row follows.                                                   *)
Audit(d) ==
    /\ pc[d] = "audit"
    /\ open' = [open EXCEPT ![d].rows = RowsOf[SheetOf[d]], ![d].audit = {SheetOf[d]}]
    /\ Goto(d, "commit")
    /\ UNCHANGED tables

(* What a committed transaction of d leaves behind.                         *)
Publish(d) ==
    /\ stored'      = stored \cup (open[d].sheets \X {d})
    /\ competitors' = competitors \cup (open[d].rows \X {d})
    /\ audited'     = audited \cup (open[d].audit \X {d})

(* Mutant: the 201 is sent and the transaction rolled back.                 *)
AnswerWithoutCommit(d) ==
    /\ pc[d] = "commit"
    /\ open' = [open EXCEPT ![d] = Nothing]
    /\ Goto(d, "201")
    /\ UNCHANGED tables

Commit(d) ==
    /\ pc[d] = "commit"
    /\ Publish(d)
    /\ open' = [open EXCEPT ![d] = Nothing]
    /\ Goto(d, "201")

(* Mutant: a connection goes back to the pool with its transaction open.    *)
InterruptKeepsOpen(D, end) ==
    /\ pc' = [d \in Deliveries |-> IF d \in D THEN end ELSE pc[d]]
    /\ UNCHANGED <<open, tables>>

(* Mutant: what was flushed before an error stays.                          *)
InterruptHalfway(D, end) ==
    /\ pc' = [d \in Deliveries |-> IF d \in D THEN end ELSE pc[d]]
    /\ stored'      = stored \cup UNION {open[d].sheets \X {d} : d \in D}
    /\ competitors' = competitors \cup UNION {open[d].rows \X {d} : d \in D}
    /\ audited'     = audited \cup UNION {open[d].audit \X {d} : d \in D}
    /\ open' = [d \in Deliveries |-> IF d \in D THEN Nothing ELSE open[d]]

(* The deliveries of D go no further.  Their transactions are rolled back,  *)
(* except where a COMMIT is on its way, which may yet be carried out.       *)
Interrupt(D, end) ==
    /\ pc' = [d \in Deliveries |-> IF d \in D THEN end ELSE pc[d]]
    /\ open' = [d \in Deliveries |->
                  IF d \in D /\ pc[d] # "commit" THEN Nothing ELSE open[d]]
    /\ UNCHANGED tables

(* A statement of the handler raises: 500, whichever statement it was.      *)
Fail(d) ==
    /\ pc[d] \in Awaiting
    /\ Interrupt({d}, IF pc[d] = "commit" THEN "doubt" ELSE "500")

(* A worker dies with the deliveries it serves.                             *)
Vanish(D) == Interrupt(D, "gone")

(* The database settles a transaction whose handler is gone.                *)
Settle(d) ==
    /\ pc[d] \in {"doubt", "gone"} /\ open[d] # Nothing
    /\ Publish(d) \/ UNCHANGED tables
    /\ open' = [open EXCEPT ![d] = Nothing]
    /\ UNCHANGED pc

Next ==
    \/ \E d \in Deliveries :
          \/ Receive(d) \/ Select(d) \/ Insert(d) \/ Audit(d)
          \/ Commit(d) \/ Fail(d) \/ Settle(d)
    \/ \E D \in SUBSET {d \in Deliveries : pc[d] \in Awaiting} : Vanish(D)

Spec == Init /\ [][Next]_vars

----------------------------------------------------------------------------
(* A transaction holds nothing but the sheet of its own delivery.           *)
TypeOK ==
    /\ pc \in [Deliveries -> {"new"} \cup Awaiting \cup Final]
    /\ open \in [Deliveries -> Transaction]
    /\ \A d \in Deliveries :
          /\ open[d].sheets \subseteq {SheetOf[d]}
          /\ open[d].rows \subseteq RowsOf[SheetOf[d]]
          /\ open[d].audit \subseteq {SheetOf[d]}
    /\ stored \subseteq Sheets \X Deliveries
    /\ competitors \subseteq Competitors \X Deliveries
    /\ audited \subseteq Sheets \X Deliveries

(* However often a sheet is delivered, at once or again after an answer     *)
(* that was lost, it is stored by one delivery only, and so are its rows.   *)
StoredOnce ==
    \A e, f \in stored : e[1] = f[1] => e = f

(* A sheet becomes visible whole: the step that adds it adds all its        *)
(* competitors and its audit row, and no other step adds or removes any.    *)
SheetsArriveWhole ==
    [][ UNCHANGED tables
        \/ \E d \in Deliveries :
              /\ stored'      = stored \cup {<<SheetOf[d], d>>}
              /\ competitors' = competitors \cup (RowsOf[SheetOf[d]] \X {d})
              /\ audited'     = audited \cup {<<SheetOf[d], d>>} ]_vars

(* What n8n may conclude from an answer, now and for good: after 201 the    *)
(* sheet is stored by this delivery; after 409 by another one and not by    *)
(* this one; after 400 and 401 this delivery stores nothing; and after 500  *)
(* neither, unless it was the COMMIT that raised.  A 500 may hide that the  *)
(* sheet is there: from another delivery, or after that COMMIT from this.   *)
StoresNothing(d) == <<SheetOf[d], d>> \notin stored /\ open[d] = Nothing

AnswersAreTrue ==
    \A d \in Deliveries :
        /\ Reply(d) = "201" => <<SheetOf[d], d>> \in stored
        /\ Reply(d) = "409" => StoresNothing(d) /\ SheetOf[d] \in Known
        /\ Reply(d) = "refused" => StoresNothing(d)
        /\ Reply(d) = "500" => StoresNothing(d) \/ pc[d] = "doubt"
=============================================================================
