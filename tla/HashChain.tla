----------------------------- MODULE HashChain -----------------------------
(* The rows of table audit_logs and the hash chain they form, as            *)
(* app/audit/service.py computes and verifies it.                           *)
(*                                                                          *)
(* SHA-256 is taken to be free of collisions.  A digest is then the same    *)
(* thing as the text that was hashed, and since that text starts with the   *)
(* previous digest, a digest is the sequence of the bodies on the path that *)
(* leads to it.  Nothing else about a digest is used here.                  *)
EXTENDS Integers, Sequences, FiniteSets

CONSTANT Bodies      \* canonical forms (_canonical) of the columns hashed

Hash == Seq(Bodies)

NoHash == <<>>       \* prev is None: "(prev or '')" puts nothing in front

(* _hash_body: sha256(prev + canonical(row)).                               *)
HashBody(prev, body) == Append(prev, body)

(* The columns of a row that the chain depends on.  created_at and          *)
(* updated_at, which every table inherits (models/base.py), are in no       *)
(* digest and nothing here reads them; AuditVerify keeps them beside.       *)
AuditRow == [id : Nat, body : Bodies, prev : Hash, hash : Hash]

NewRow(id, body, prev) ==
    [id |-> id, body |-> body, prev |-> prev, hash |-> HashBody(prev, body)]

----------------------------------------------------------------------------
(* SELECT row_hash ORDER BY id DESC LIMIT 1.                                *)
Newest(rows) == {r \in rows : \A o \in rows : o.id =< r.id}

LastHash(rows) ==
    IF Newest(rows) = {} THEN NoHash
                         ELSE (CHOOSE r \in Newest(rows) : TRUE).hash

(* verify_chain walks the rows by ascending id with the digest of the row   *)
(* before in hand, and stops at the first row that does not fit.            *)
(* BeforeByOne is a mutant: it expects ids without gaps.                    *)
BeforeByOne(rows, r) == {o \in rows : o.id = r.id - 1}

Before(rows, r) == {o \in rows : o.id < r.id}

Broken(rows, r) ==
    LET prev == LastHash(Before(rows, r))
    IN  \/ r.hash # HashBody(prev, r.body)
        \/ r.prev # prev

BrokenIds(rows) == {r.id : r \in {q \in rows : Broken(rows, q)}}

ChainOk(rows) == BrokenIds(rows) = {}

FirstBroken(rows) ==
    CHOOSE i \in BrokenIds(rows) : \A j \in BrokenIds(rows) : i =< j
=============================================================================
