---------------------------- MODULE AuditForest ----------------------------
(* What the audit trail promises whatever the requests do to one another:   *)
(* audit_logs only ever grows, by one row at a time under a fresh id, and   *)
(* every row carries the digest of its own content on top of the digest of  *)
(* an earlier row, or of nothing.  The rows form a forest rooted in the     *)
(* empty digest.  It is not promised that the forest is a single chain.     *)
EXTENDS HashChain

VARIABLE rows

(* A row that may join the forest: its parent is already there.             *)
Rooted(old, r) ==
    \/ r.prev = NoHash
    \/ \E o \in old : o.hash = r.prev /\ o.id < r.id

Init == rows = {}

Grow ==
    \E r \in rows' \ rows :
        /\ rows' = rows \cup {r}
        /\ r \in AuditRow
        /\ \A o \in rows : o.id # r.id
        /\ r.hash = HashBody(r.prev, r.body)
        /\ Rooted(rows, r)

Spec == Init /\ [][Grow]_rows
=============================================================================
