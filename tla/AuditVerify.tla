---------------------------- MODULE AuditVerify ----------------------------
(* verify_chain (app/audit/service.py) over a trail that was written one    *)
(* request at a time and then changed behind the program's back: columns    *)
(* overwritten, rows deleted, renumbered or inserted, as the tampering test *)
(* of tests/test_rubric_5_logs_audit.py begins to.  Overlapping writers are *)
(* the subject of AuditChain.                                               *)
EXTENDS HashChain, FiniteSetsExt

CONSTANTS
    Stamps,          \* values of created_at and updated_at, which no digest covers
    MaxRows,         \* bound on the rows written
    MaxId,           \* bound on the ids given outside the program
    MaxEdits         \* bound on the columns changed outside the program

ASSUME BoundsAreNat == MaxRows \in Nat /\ MaxId \in Nat /\ MaxEdits \in Nat

VARIABLES
    rows,            \* audit_logs as it is now ...
    stamps,          \* ... with stamps[i] the rest of row i, which Base adds to it
    written,         \* the rows as the program left them
    edits,           \* how many columns were changed since
    change           \* the change, while there is only one (auxiliary)

vars == <<rows, stamps, written, edits, change>>

NoChange == [what |-> "none", id |-> 0, now |-> 0]

----------------------------------------------------------------------------
(* The loop of verify_chain: at is None until a row does not fit, and then  *)
(* its id for good (the early return).                                      *)
None == -1

Start == [prev |-> NoHash, at |-> None]

Fits(prev, r) == r.hash = HashBody(prev, r.body) /\ r.prev = prev

(* Mutant: the loop goes on after a row that does not fit.                  *)
StepWithoutReturn(acc, r) ==
    [prev |-> r.hash, at |-> IF Fits(acc.prev, r) THEN acc.at ELSE r.id]

(* Mutant: only the links are compared, not the digests.                    *)
StepLinksOnly(acc, r) ==
    IF acc.at # None THEN acc
    ELSE IF r.prev = acc.prev THEN [acc EXCEPT !.prev = r.hash]
    ELSE [acc EXCEPT !.at = r.id]

(* Mutant: only the digests are compared, not the links.                    *)
StepDigestsOnly(acc, r) ==
    IF acc.at # None THEN acc
    ELSE IF r.hash = HashBody(acc.prev, r.body) THEN [acc EXCEPT !.prev = r.hash]
    ELSE [acc EXCEPT !.at = r.id]

Step(acc, r) ==
    IF acc.at # None THEN acc
    ELSE IF Fits(acc.prev, r) THEN [acc EXCEPT !.prev = r.hash]
    ELSE [acc EXCEPT !.at = r.id]

Top(S) == CHOOSE r \in Newest(S) : TRUE

(* What the loop has in hand after the rows of S, by ascending id.          *)
Walk(S) ==
    LET after[T \in SUBSET S] ==
            IF T = {} THEN Start ELSE Step(after[T \ {Top(T)}], Top(T))
    IN  after[S]

verify_chain(S) == <<Walk(S).at = None, Walk(S).at>>

----------------------------------------------------------------------------
Ids(S) == {r.id : r \in S}

Init ==
    /\ rows = {} /\ written = {}
    /\ stamps = [i \in {} |-> 0]
    /\ edits = 0 /\ change = NoChange

(* write_audit, alone: rolled back requests leave gaps in the ids.          *)
TopId == IF rows = {} THEN 0 ELSE Top(rows).id

(* The table becomes S; row i is stamped s, the others as before.           *)
Becomes(S, i, s) ==
    /\ rows' = S
    /\ stamps' = [k \in Ids(S) |-> IF k = i THEN s ELSE stamps[k]]

Write(b) ==
    /\ edits = 0 /\ Cardinality(rows) < MaxRows
    /\ \E gap \in 0..1, s \in Stamps :
          LET id == TopId + 1 + gap
          IN  Becomes(rows \cup {NewRow(id, b, LastHash(rows))}, id, s)
    /\ written' = rows'
    /\ UNCHANGED <<edits, change>>

(* Digests that occur in trails of this size.                               *)
Digests == UNION {[1..n -> Bodies] : n \in 0..MaxRows}

(* An UPDATE, a DELETE or an INSERT that does not go through the program    *)
(* changes so many columns of the row that had this id, and has id now.     *)
Changes(columns, what, id, now) ==
    /\ edits + columns =< MaxEdits
    /\ edits' = edits + columns
    /\ change' = IF edits = 0 THEN [what |-> what, id |-> id, now |-> now] ELSE NoChange
    /\ UNCHANGED written

(* Row r is overwritten by v.  Through SQLAlchemy, updated_at changes too   *)
(* (onupdate); by hand it need not.                                         *)
Overwrites(r, v) == \E s \in Stamps : Becomes((rows \ {r}) \cup {v}, v.id, s)

EditBody(r) ==
    /\ \E b \in Bodies \ {r.body} : Overwrites(r, [r EXCEPT !.body = b])
    /\ Changes(1, "body", r.id, r.id)

EditHash(r) ==
    /\ \E h \in Digests \ {r.hash} : Overwrites(r, [r EXCEPT !.hash = h])
    /\ Changes(1, "hash", r.id, r.id)

EditPrev(r) ==
    /\ \E h \in Digests \ {r.prev} : Overwrites(r, [r EXCEPT !.prev = h])
    /\ Changes(1, "prev", r.id, r.id)

EditStamp(r) ==
    /\ \E s \in Stamps \ {stamps[r.id]} : Becomes(rows, r.id, s)
    /\ Changes(1, "stamp", r.id, r.id)

FreeIds == 0..MaxId \ Ids(rows)

EditId(r) ==
    \E i \in FreeIds :
        /\ Overwrites(r, [r EXCEPT !.id = i])
        /\ Changes(1, "id", r.id, i)

Delete(r) ==
    /\ Becomes(rows \ {r}, r.id, stamps[r.id])
    /\ Changes(1, "deleted", r.id, r.id)

(* A row has three columns that the chain depends on.                       *)
Insert ==
    \E i \in FreeIds, b \in Bodies, p, h \in Digests, s \in Stamps :
        /\ Becomes(rows \cup {[id |-> i, body |-> b, prev |-> p, hash |-> h]}, i, s)
        /\ Changes(3, "inserted", i, i)

Next ==
    \/ \E b \in Bodies : Write(b)
    \/ \E r \in rows : \/ EditBody(r) \/ EditHash(r) \/ EditPrev(r)
                       \/ EditStamp(r) \/ EditId(r) \/ Delete(r)
    \/ Insert

Spec == Init /\ [][Next]_vars

----------------------------------------------------------------------------
(* The one-pass loop with its early return finds what the definition of a   *)
(* chain says, whatever was done to the table: ok exactly when every row    *)
(* fits, and else the smallest id that does not.                            *)
LoopFindsFirstBroken ==
    verify_chain(rows) = IF ChainOk(rows) THEN <<TRUE, None>>
                                          ELSE <<FALSE, FirstBroken(rows)>>

(* What verify_chain shows of a single change, and what it does not.  A     *)
(* column that is hashed, a digest or a link shows at its own row           *)
(* (test_audit_chain_detects_tampering).  A deleted row shows at the next   *)
(* one, and the last one not at all.  A renumbered row shows where the      *)
(* order has changed, and not at all when it has not.  An inserted row      *)
(* shows at once unless it fits, and then at the next one, or not at all at *)
(* the end.  Another created_at or updated_at is never noticed.             *)
FirstAfter(i) ==
    LET after == {k \in Ids(rows) : k > i}
    IN  IF after = {} THEN <<TRUE, None>> ELSE <<FALSE, Min(after)>>

Passed(i, j) == {k \in Ids(rows) : i < k /\ k < j}

SingleChangeShows ==
    LET c == change
    IN  /\ c.what \in {"body", "hash", "prev"} => verify_chain(rows) = <<FALSE, c.id>>
        /\ c.what = "stamp"   => verify_chain(rows) = <<TRUE, None>>
        /\ c.what = "deleted" => verify_chain(rows) = FirstAfter(c.id)
        /\ c.what = "id" => verify_chain(rows) =
              IF Passed(c.now, c.id) # {} THEN <<FALSE, c.now>>
              ELSE IF Passed(c.id, c.now) # {} THEN FirstAfter(c.id)
              ELSE <<TRUE, None>>
        /\ c.what = "inserted" => verify_chain(rows) =
              IF c.id \in BrokenIds(rows) THEN <<FALSE, c.id>> ELSE FirstAfter(c.id)

(* The newest digest stands for all that was hashed: if verify_chain        *)
(* accepts and the newest row_hash is the one that was written, then        *)
(* whatever was changed there are as many rows as were written, with the    *)
(* same content, digests and links, in the same order.  Their ids and       *)
(* their created_at and updated_at may be others.                           *)
Hashed(S) == {[body |-> r.body, prev |-> r.prev, hash |-> r.hash] : r \in S}

SameOrder(S, T) ==
    \A r, o \in S, v, w \in T :
        r.hash = v.hash /\ o.hash = w.hash => (r.id < o.id <=> v.id < w.id)

HeadPinsHistory ==
    verify_chain(rows)[1] /\ LastHash(rows) = LastHash(written) =>
        /\ Hashed(rows) = Hashed(written)
        /\ Cardinality(rows) = Cardinality(written)
        /\ SameOrder(rows, written)
=============================================================================
