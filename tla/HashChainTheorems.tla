------------------------- MODULE HashChainTheorems -------------------------
(* Facts about tables of audit rows, used by the proofs about the requests  *)
(* that fill them.                                                          *)
EXTENDS HashChain, WellFoundedInduction, TLAPS

(* What the primary key and the sequence behind it guarantee of a table.    *)
Table(S) ==
    /\ S \subseteq AuditRow
    /\ \A r, o \in S : r.id = o.id => r = o
    /\ \E top \in Nat : \A r \in S : r.id =< top

LEMMA LeastNat ==
    ASSUME NEW T \in SUBSET Nat, T # {}
    PROVE  \E m \in T : \A k \in T : m =< k
<1>1. PICK m \in T : \A k \in T : <<k, m>> \notin OpToRel(<, Nat)
      BY WFMin, NatLessThanWellFounded, Zenon
<1>2. \A k \in T : ~(k < m)
      BY <1>1, Zenon DEF OpToRel
<1> QED BY <1>2

LEMMA GreatestNat ==
    ASSUME NEW T \in SUBSET Nat, T # {}, NEW top \in Nat, \A k \in T : k =< top
    PROVE  \E m \in T : \A k \in T : k =< m
<1> DEFINE Gaps == {top - k : k \in T}
<1>1. Gaps \in SUBSET Nat /\ Gaps # {}
  <2>1. ASSUME NEW k \in T PROVE top - k \in Nat
        BY <2>1
  <2>2. Gaps \in SUBSET Nat
        BY <2>1
  <2>3. PICK k \in T : TRUE
        OBVIOUS
  <2>4. top - k \in Gaps
        OBVIOUS
  <2> QED BY <2>2, <2>4
<1>2. PICK g \in Gaps : \A h \in Gaps : g =< h
      BY <1>1, LeastNat
<1>3. PICK m \in T : g = top - m
      OBVIOUS
<1>4. ASSUME NEW k \in T PROVE k =< m
      BY <1>2, <1>3
<1> QED BY <1>4

(* A table that is not empty has one newest row, the one whose digest       *)
(* _last_hash returns.                                                      *)
LEMMA NewestRow ==
    ASSUME NEW S, Table(S), S # {}
    PROVE  \E n \in S : /\ \A o \in S : o.id =< n.id
                        /\ LastHash(S) = n.hash
<1> DEFINE Ids == {r.id : r \in S}
<1>1. Ids \in SUBSET Nat /\ Ids # {}
      BY DEF Table, AuditRow
<1>2. PICK m \in Ids : \A k \in Ids : k =< m
  <2>1. PICK top \in Nat : \A k \in Ids : k =< top
        BY DEF Table
  <2> HIDE DEF Ids
  <2> QED BY <1>1, <2>1, GreatestNat
<1>3. PICK n \in S : n.id = m
      OBVIOUS
<1>4. n \in Newest(S)
      BY <1>2, <1>3 DEF Newest
<1>5. \A r \in Newest(S) : r = n
  <2> SUFFICES ASSUME NEW r \in Newest(S) PROVE r = n
      OBVIOUS
  <2>1. r \in S /\ r.id =< n.id /\ n.id =< r.id
        BY <1>4 DEF Newest
  <2>2. r.id \in Nat /\ n.id \in Nat
        BY <2>1 DEF Table, AuditRow
  <2> QED BY <2>1, <2>2 DEF Table
<1>6. LastHash(S) = n.hash
      BY <1>4, <1>5 DEF LastHash
<1> QED BY <1>4, <1>6 DEF Newest

LEMMA PartOfTable ==
    ASSUME NEW S, Table(S), NEW T \in SUBSET S
    PROVE  Table(T)
BY DEF Table

LEMMA RowTypes ==
    ASSUME NEW S, Table(S), NEW r \in S
    PROVE  /\ r.id \in Nat /\ r.body \in Bodies /\ r.prev \in Hash /\ r.hash \in Hash
           /\ Len(r.prev) \in Nat /\ Len(r.hash) \in Nat
<1>1. r \in AuditRow
      BY DEF Table
<1>2. r.id \in Nat /\ r.body \in Bodies /\ r.prev \in Hash /\ r.hash \in Hash
      BY <1>1 DEF AuditRow
<1> QED BY <1>2 DEF Hash

LEMMA DigestLength ==
    ASSUME NEW h \in Hash, NEW b \in Bodies
    PROVE  HashBody(h, b) \in Hash /\ Len(HashBody(h, b)) = Len(h) + 1
BY DEF HashBody, Hash

(* What verify_chain has established of each row of an unbroken table.      *)
LEMMA UnbrokenRow ==
    ASSUME NEW S, ChainOk(S), NEW r \in S
    PROVE  r.hash = HashBody(r.prev, r.body) /\ r.prev = LastHash(Before(S, r))
BY DEF ChainOk, BrokenIds, Broken

----------------------------------------------------------------------------
(* Along an unbroken table the digests get longer: a digest never comes     *)
(* back at a later id.                                                      *)
LEMMA DigestsGrow ==
    ASSUME NEW S, Table(S), ChainOk(S)
    PROVE  \A a, b \in S : a.id < b.id => Len(a.hash) < Len(b.hash)
<1> DEFINE Bad == {b \in S : \E a \in S : a.id < b.id /\ ~(Len(a.hash) < Len(b.hash))}
           BadIds == {b.id : b \in Bad}
<1> SUFFICES ASSUME Bad # {} PROVE FALSE
    OBVIOUS
<1>1. BadIds \in SUBSET Nat /\ BadIds # {}
      BY DEF Table, AuditRow
<1>2. PICK i \in BadIds : \A j \in BadIds : i =< j
      BY <1>1, LeastNat
<1>3. PICK b \in Bad : b.id = i
      OBVIOUS
<1>4. PICK a \in S : a.id < b.id /\ ~(Len(a.hash) < Len(b.hash))
      BY <1>3
<1>5. \A r \in S : r.id \in Nat /\ Len(r.hash) \in Nat
      BY RowTypes
<1>6. Table(Before(S, b)) /\ a \in Before(S, b)
      BY <1>4, PartOfTable DEF Before
<1>7. PICK p \in Before(S, b) :
             /\ \A o \in Before(S, b) : o.id =< p.id
             /\ LastHash(Before(S, b)) = p.hash
      BY <1>6, NewestRow
<1>8. p \in S /\ p.id < b.id /\ a.id =< p.id
      BY <1>6, <1>7 DEF Before
<1>9. Len(b.hash) = Len(p.hash) + 1
  <2>1. b \in S
        BY <1>3
  <2>2. b.hash = HashBody(p.hash, b.body)
        BY <2>1, <1>7, UnbrokenRow
  <2>3. p.hash \in Hash /\ b.body \in Bodies
        BY <2>1, <1>8, RowTypes
  <2> QED BY <2>2, <2>3, DigestLength
<1>10. Len(a.hash) =< Len(p.hash)
  <2>1. CASE a.id = p.id
        BY <2>1, <1>5, <1>8 DEF Table
  <2>2. CASE a.id < p.id
    <3>1. p \notin Bad
      <4>1. b \in S /\ p.id \in Nat /\ i \in Nat /\ p.id < i
            BY <1>3, <1>5, <1>8
      <4>2. p.id \notin BadIds
        <5> HIDE DEF BadIds
        <5> QED BY <1>2, <4>1
      <4> QED BY <4>2
    <3> QED BY <2>2, <3>1, <1>5, <1>8
  <2> QED BY <2>1, <2>2, <1>5, <1>8
<1> QED BY <1>3, <1>4, <1>5, <1>8, <1>9, <1>10

(* A row chained to the newest one under a higher id leaves the table       *)
(* unbroken.                                                                *)
LEMMA ExtendsChain ==
    ASSUME NEW S, Table(S), ChainOk(S), NEW n \in AuditRow,
           \A o \in S : o.id < n.id,
           n.prev = LastHash(S), n.hash = HashBody(n.prev, n.body)
    PROVE  ChainOk(S \cup {n})
<1> DEFINE T == S \cup {n}
<1>1. \A r \in T : r.id \in Nat
      BY DEF Table, AuditRow
<1>2. Before(T, n) = S
      BY <1>1 DEF Before
<1>3. ASSUME NEW r \in S PROVE Before(T, r) = Before(S, r)
      BY <1>1 DEF Before
<1>4. ~Broken(T, n)
      BY <1>2 DEF Broken
<1>5. ASSUME NEW r \in S PROVE ~Broken(T, r)
      BY <1>3, UnbrokenRow DEF Broken
<1> QED BY <1>4, <1>5 DEF ChainOk, BrokenIds

(* A digest that is still the last one of an unbroken table, and was the    *)
(* digest of a row with an id below i, leaves no id above i.                *)
LEMMA LastDigestIsFresh ==
    ASSUME NEW S, Table(S), ChainOk(S), NEW i \in Nat, NEW h,
           h = LastHash(S),
           \A o \in S : o.id # i,
           h = NoHash \/ \E o \in S : o.hash = h /\ o.id < i
    PROVE  \A o \in S : o.id < i
<1>1. CASE S = {}
      BY <1>1
<1>2. CASE S # {}
  <2>1. PICK n \in S : (\A o \in S : o.id =< n.id) /\ LastHash(S) = n.hash
        BY <1>2, NewestRow
  <2>2. \A r \in S : r.id \in Nat /\ Len(r.hash) \in Nat
        BY RowTypes
  <2>3. n.hash # NoHash
    <3>1. n.hash = HashBody(n.prev, n.body)
          BY UnbrokenRow
    <3>2. Len(n.hash) = Len(n.prev) + 1 /\ Len(n.prev) \in Nat
          BY <3>1, RowTypes, DigestLength
    <3>3. Len(NoHash) = 0
          BY DEF NoHash
    <3> QED BY <3>2, <3>3
  <2>4. PICK o \in S : o.hash = n.hash /\ o.id < i
        BY <2>1, <2>3
  <2>5. ~(o.id < n.id)
        BY <2>2, <2>4, DigestsGrow
  <2> QED BY <2>1, <2>2, <2>4, <2>5
<1> QED BY <1>1, <1>2
=============================================================================
