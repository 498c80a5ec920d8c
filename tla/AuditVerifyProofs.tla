------------------------- MODULE AuditVerifyProofs -------------------------
(* Proofs about verify_chain for trails of any length and any number of     *)
(* changes made behind the program's back.                                  *)
EXTENDS AuditVerify, HashChainTheorems, FiniteSetTheorems,
        FunctionTheorems, SequenceTheorems

(* What the table guarantees, whoever writes to it.                         *)
Trail(S) == Table(S) /\ IsFiniteSet(S)

----------------------------------------------------------------------------
(* Induction over the parts of a finite table: of a family of parts that is *)
(* not empty, one has no member of the family right below it.               *)
LEMMA SmallestPart ==
    ASSUME NEW S, IsFiniteSet(S), NEW F \in SUBSET (SUBSET S), F # {}
    PROVE  \E T \in F : \A r \in T : T \ {r} \notin F
<1> DEFINE Sizes == {Cardinality(T) : T \in F}
<1>1. ASSUME NEW T \in F PROVE IsFiniteSet(T) /\ Cardinality(T) \in Nat
      BY FS_Subset, FS_CardinalityType
<1>2. Sizes \in SUBSET Nat /\ Sizes # {}
      BY <1>1
<1>3. PICK n \in Sizes : \A m \in Sizes : n =< m
  <2> HIDE DEF Sizes
  <2> QED BY <1>2, LeastNat
<1>4. PICK T \in F : n = Cardinality(T)
      OBVIOUS
<1>5. ASSUME NEW r \in T PROVE T \ {r} \notin F
  <2>1. Cardinality(T \ {r}) = n - 1 /\ n \in Nat
        BY <1>1, <1>4, FS_RemoveElement
  <2>2. n - 1 \notin Sizes
        BY <1>3, <2>1
  <2> QED BY <2>1, <2>2
<1> QED BY <1>5

LEMMA PartOfTrail ==
    ASSUME NEW S, Trail(S), NEW T \in SUBSET S
    PROVE  Trail(T)
BY PartOfTable, FS_Subset DEF Trail

(* The newest row comes after all the others.                               *)
LEMMA TopRow ==
    ASSUME NEW S, Table(S), S # {}
    PROVE  /\ Top(S) \in S
           /\ \A o \in S : o.id =< Top(S).id
           /\ \A o \in S \ {Top(S)} : o.id < Top(S).id
           /\ LastHash(S) = Top(S).hash
           /\ Before(S, Top(S)) = S \ {Top(S)}
<1>1. PICK n \in S : \A o \in S : o.id =< n.id
      BY NewestRow
<1>2. n \in Newest(S)
      BY <1>1 DEF Newest
<1>3. Top(S) \in Newest(S)
      BY <1>2 DEF Top
<1>4. Top(S) \in S /\ \A o \in S : o.id =< Top(S).id
      BY <1>3 DEF Newest
<1>5. ASSUME NEW o \in S \ {Top(S)} PROVE o.id < Top(S).id
  <2>1. o.id \in Nat /\ Top(S).id \in Nat
        BY <1>4, RowTypes
  <2>2. o.id # Top(S).id
        BY <1>4 DEF Table
  <2> QED BY <1>4, <2>1, <2>2
<1>6. LastHash(S) = Top(S).hash
      BY <1>2 DEF LastHash, Top
<1>7. Before(S, Top(S)) = S \ {Top(S)}
  <2>1. Top(S).id \in Nat
        BY <1>4, RowTypes
  <2> QED BY <1>5, <2>1 DEF Before
<1> QED BY <1>4, <1>5, <1>6, <1>7

LEMMA NoRows == LastHash({}) = NoHash /\ BrokenIds({}) = {} /\ ChainOk({})
BY DEF LastHash, Newest, BrokenIds, ChainOk

(* Rows fit or do not fit whatever comes after them.                        *)
LEMMA BrokenBelowTop ==
    ASSUME NEW S, Table(S), S # {}
    PROVE  LET U == S \ {Top(S)}
           IN  /\ \A r \in U : Broken(S, r) <=> Broken(U, r)
               /\ Broken(S, Top(S)) <=> ~Fits(LastHash(U), Top(S))
               /\ BrokenIds(S) = BrokenIds(U) \cup
                     (IF Fits(LastHash(U), Top(S)) THEN {} ELSE {Top(S).id})
<1> DEFINE t == Top(S)
           U == S \ {t}
<1>1. /\ t \in S /\ Before(S, t) = U
      /\ \A o \in U : o.id < t.id
      BY TopRow
<1>2. ASSUME NEW r \in U PROVE Before(S, r) = Before(U, r)
  <2>1. r.id \in Nat /\ t.id \in Nat /\ r.id < t.id
        BY <1>1, RowTypes
  <2> QED BY <1>1, <2>1 DEF Before
<1>3. ASSUME NEW r \in U PROVE Broken(S, r) <=> Broken(U, r)
      BY <1>2 DEF Broken
<1>4. Broken(S, t) <=> ~Fits(LastHash(U), t)
      BY <1>1 DEF Broken, Fits
<1>5. BrokenIds(S) = BrokenIds(U) \cup (IF Fits(LastHash(U), t) THEN {} ELSE {t.id})
  <2> HIDE DEF t
  <2> QED BY <1>1, <1>3, <1>4 DEF BrokenIds
<1> QED BY <1>3, <1>4, <1>5

(* The first broken row is a row, and there is only one.                    *)
LEMMA FirstBrokenRow ==
    ASSUME NEW S, Table(S), ~ChainOk(S)
    PROVE  /\ FirstBroken(S) \in BrokenIds(S)
           /\ \A j \in BrokenIds(S) : FirstBroken(S) =< j
           /\ \A i \in BrokenIds(S) : (\A j \in BrokenIds(S) : i =< j) => i = FirstBroken(S)
<1>1. BrokenIds(S) \in SUBSET Nat /\ BrokenIds(S) # {}
      BY RowTypes DEF BrokenIds, ChainOk
<1>2. PICK i \in BrokenIds(S) : \A j \in BrokenIds(S) : i =< j
      BY <1>1, LeastNat
<1>3. /\ FirstBroken(S) \in BrokenIds(S)
      /\ \A j \in BrokenIds(S) : FirstBroken(S) =< j
      BY <1>2 DEF FirstBroken
<1> QED BY <1>1, <1>3

----------------------------------------------------------------------------
(* The equation of the loop has a solution on every trail: on top of one    *)
(* for all rows but the newest, one more step.                              *)
IsWalk(f, S) ==
    f = [T \in SUBSET S |-> IF T = {} THEN Start ELSE Step(f[T \ {Top(T)}], Top(T))]

LEMMA TopOfPart ==
    ASSUME NEW S, Table(S), NEW T \in SUBSET S, Top(S) \in T, S # {}
    PROVE  Top(T) = Top(S)
<1>1. Table(T) /\ T # {}
      BY PartOfTable
<1>2. /\ Top(T) \in T /\ Top(S) \in S
      /\ Top(S).id =< Top(T).id /\ Top(T).id =< Top(S).id
      BY <1>1, TopRow
<1>3. Top(T).id \in Nat /\ Top(S).id \in Nat
      BY <1>2, RowTypes
<1> QED BY <1>2, <1>3 DEF Table

LEMMA WalkExists ==
    ASSUME NEW S, Trail(S)
    PROVE  \E f : IsWalk(f, S)
<1> DEFINE F == {T \in SUBSET S : ~(\E f : IsWalk(f, T))}
<1> SUFFICES ASSUME F # {} PROVE FALSE
    OBVIOUS
<1>1. PICK T \in F : \A r \in T : T \ {r} \notin F
  <2> HIDE DEF F
  <2>1. F \in SUBSET (SUBSET S)
        BY DEF F
  <2> QED BY <2>1, SmallestPart DEF Trail
<1>2. Table(T)
      BY PartOfTable DEF Trail
<1>3. CASE T = {}
  <2>1. IsWalk([U \in SUBSET T |-> Start], T)
        BY <1>3 DEF IsWalk
  <2> QED BY <2>1
<1>4. CASE T # {}
  <2> DEFINE t == Top(T)
             V == T \ {t}
  <2>1. t \in T
        BY <1>2, <1>4, TopRow
  <2>2. PICK g : IsWalk(g, V)
        BY <1>1, <2>1
  <2> DEFINE f == [U \in SUBSET T |-> IF t \in U THEN Step(g[U \ {t}], t) ELSE g[U]]
             h == [U \in SUBSET T |-> IF U = {} THEN Start ELSE Step(f[U \ {Top(U)}], Top(U))]
  <2>3. ASSUME NEW U \in SUBSET T PROVE f[U] = h[U]
    <3>1. CASE t \in U
      <4>1. Top(U) = t
            BY <1>2, <1>4, <3>1, TopOfPart
      <4>2. U \ {t} \in SUBSET T /\ t \notin U \ {t}
            OBVIOUS
      <4>3. f[U] = Step(g[U \ {t}], t) /\ f[U \ {t}] = g[U \ {t}]
            BY <3>1, <4>2
      <4>4. h[U] = Step(f[U \ {t}], t)
            BY <3>1, <4>1
      <4> HIDE DEF f, h, t
      <4> QED BY <4>3, <4>4
    <3>2. CASE t \notin U
      <4>1. U \in SUBSET V
            BY <3>2
      <4>2. g[U] = IF U = {} THEN Start ELSE Step(g[U \ {Top(U)}], Top(U))
            BY <2>2, <4>1 DEF IsWalk
      <4>3. U \ {Top(U)} \in SUBSET T /\ t \notin U \ {Top(U)}
            BY <3>2
      <4>4. f[U] = g[U] /\ f[U \ {Top(U)}] = g[U \ {Top(U)}]
            BY <3>2, <4>3
      <4>5. h[U] = IF U = {} THEN Start ELSE Step(f[U \ {Top(U)}], Top(U))
            OBVIOUS
      <4> HIDE DEF f, h, t, V
      <4> QED BY <4>2, <4>4, <4>5
    <3> QED BY <3>1, <3>2
  <2>4. f = h
    <3>1. f = [U \in SUBSET T |-> f[U]] /\ h = [U \in SUBSET T |-> h[U]]
          OBVIOUS
    <3> HIDE DEF f, h
    <3> QED BY <2>3, <3>1
  <2>5. IsWalk(f, T)
        BY <2>4 DEF IsWalk
  <2> HIDE DEF f
  <2> QED BY <2>5
<1> QED BY <1>3, <1>4

LEMMA WalkEquation ==
    ASSUME NEW S, Trail(S)
    PROVE  \E f : /\ Walk(S) = f[S]
                  /\ \A T \in SUBSET S :
                        f[T] = IF T = {} THEN Start ELSE Step(f[T \ {Top(T)}], Top(T))
<1> DEFINE f == CHOOSE g : IsWalk(g, S)
<1>1. IsWalk(f, S)
      BY WalkExists
<1>2. Walk(S) = f[S]
      BY DEF Walk, IsWalk
<1> HIDE DEF f
<1>3. \A T \in SUBSET S : f[T] = IF T = {} THEN Start ELSE Step(f[T \ {Top(T)}], Top(T))
      BY <1>1 DEF IsWalk
<1> QED BY <1>2, <1>3

(* After the rows of any part the loop stands at its first broken row, or   *)
(* holds the digest of its newest.                                          *)
LEMMA LoopOutcome ==
    ASSUME NEW S, Trail(S)
    PROVE  /\ ChainOk(S)  => Walk(S).at = None
           /\ ~ChainOk(S) => Walk(S).at = FirstBroken(S) /\ FirstBroken(S) # None
<1> DEFINE Expected(w, T) ==
              IF ChainOk(T) THEN w = [prev |-> LastHash(T), at |-> None]
                            ELSE w.at = FirstBroken(T)
<1>1. PICK f : /\ Walk(S) = f[S]
               /\ \A T \in SUBSET S :
                     f[T] = IF T = {} THEN Start ELSE Step(f[T \ {Top(T)}], Top(T))
      BY WalkEquation
<1>2. ASSUME NEW T \in SUBSET S, ~ChainOk(T)
      PROVE  FirstBroken(T) \in BrokenIds(T) /\ FirstBroken(T) # None
  <2>1. Table(T) /\ \A r \in T : r.id \in Nat
        BY PartOfTable, RowTypes DEF Trail
  <2> QED BY <1>2, <2>1, FirstBrokenRow DEF BrokenIds, None
<1>3. \A T \in SUBSET S : Expected(f[T], T)
  <2> DEFINE F == {T \in SUBSET S : ~Expected(f[T], T)}
  <2> SUFFICES ASSUME F # {} PROVE FALSE
      OBVIOUS
  <2>1. PICK T \in F : \A r \in T : T \ {r} \notin F
    <3>1. F \in SUBSET (SUBSET S)
          OBVIOUS
    <3> HIDE DEF F
    <3> QED BY <3>1, SmallestPart DEF Trail
  <2>2. Table(T)
        BY PartOfTable DEF Trail
  <2>3. CASE T = {}
        BY <1>1, <2>1, <2>3, NoRows DEF Start
  <2>4. CASE T # {}
    <3> DEFINE t == Top(T)
               U == T \ {t}
    <3>1. t \in T /\ LastHash(T) = t.hash /\ \A o \in U : o.id < t.id
          BY <2>2, <2>4, TopRow
    <3>2. U \in SUBSET S /\ Expected(f[U], U)
          BY <2>1, <3>1
    <3>3. f[T] = Step(f[U], t)
          BY <1>1, <2>4
    <3>4. BrokenIds(T) = BrokenIds(U) \cup (IF Fits(LastHash(U), t) THEN {} ELSE {t.id})
          BY <2>2, <2>4, BrokenBelowTop
    <3>5. ~Expected(f[T], T)
          BY <2>1
    <3> HIDE DEF t, U
    <3>6. CASE ChainOk(U)
      <4>1. f[U] = [prev |-> LastHash(U), at |-> None] /\ BrokenIds(U) = {}
            BY <3>2, <3>6 DEF ChainOk
      <4>2. CASE Fits(LastHash(U), t)
            BY <3>1, <3>3, <3>4, <3>5, <4>1, <4>2 DEF Step, ChainOk
      <4>3. CASE ~Fits(LastHash(U), t)
        <5>1. BrokenIds(T) = {t.id} /\ ~ChainOk(T)
              BY <3>4, <4>1, <4>3 DEF ChainOk
        <5>2. FirstBroken(T) = t.id
              BY <2>2, <5>1, FirstBrokenRow
        <5>3. f[T].at = t.id
              BY <3>3, <4>1, <4>3 DEF Step
        <5> QED BY <3>5, <5>1, <5>2, <5>3
      <4> QED BY <4>2, <4>3
    <3>7. CASE ~ChainOk(U)
      <4>1. f[U].at = FirstBroken(U) /\ FirstBroken(U) # None
            BY <1>2, <3>2, <3>7
      <4>2. f[T] = f[U]
            BY <3>3, <4>1 DEF Step
      <4>3. /\ Table(U) /\ FirstBroken(U) \in BrokenIds(U)
            /\ \A j \in BrokenIds(U) : FirstBroken(U) =< j
            BY <3>2, <3>7, PartOfTable, FirstBrokenRow DEF Trail
      <4>4. /\ ~ChainOk(T) /\ FirstBroken(U) \in BrokenIds(T)
            BY <3>4, <4>3 DEF ChainOk
      <4>5. ASSUME NEW j \in BrokenIds(T) PROVE FirstBroken(U) =< j
        <5>1. PICK r \in U : r.id = FirstBroken(U)
              BY <4>3 DEF BrokenIds
        <5>2. r.id < t.id /\ r.id \in Nat /\ t.id \in Nat
              BY <2>2, <3>1, <4>3, <5>1, RowTypes
        <5> QED BY <3>4, <4>3, <5>1, <5>2
      <4>6. FirstBroken(T) = FirstBroken(U)
            BY <2>2, <4>4, <4>5, FirstBrokenRow
      <4> QED BY <3>5, <4>1, <4>2, <4>4, <4>6
    <3> QED BY <3>6, <3>7
  <2> QED BY <2>3, <2>4
<1>4. Expected(f[S], S)
      BY <1>3
<1> QED BY <1>1, <1>2, <1>4

LEMMA LoopIsRight ==
    ASSUME NEW S, Trail(S)
    PROVE  verify_chain(S) = IF ChainOk(S) THEN <<TRUE, None>> ELSE <<FALSE, FirstBroken(S)>>
BY LoopOutcome DEF verify_chain

----------------------------------------------------------------------------
(* In an unbroken trail the last digest is as long as the trail.            *)
LEMMA UnbrokenPart ==
    ASSUME NEW S, Table(S), S # {}, ChainOk(S)
    PROVE  LET U == S \ {Top(S)}
           IN  /\ ChainOk(U)
               /\ Top(S).prev = LastHash(U)
               /\ Top(S).hash = HashBody(LastHash(U), Top(S).body)
<1> DEFINE t == Top(S)
           U == S \ {t}
<1>1. BrokenIds(S) = BrokenIds(U) \cup (IF Fits(LastHash(U), t) THEN {} ELSE {t.id})
      BY BrokenBelowTop
<1> HIDE DEF t, U
<1>2. BrokenIds(U) = {} /\ Fits(LastHash(U), t)
      BY <1>1 DEF ChainOk
<1> QED BY <1>2 DEF ChainOk, Fits, t, U

LEMMA LengthCounts ==
    ASSUME NEW S, Trail(S), ChainOk(S)
    PROVE  Len(LastHash(S)) = Cardinality(S)
<1> DEFINE F == {T \in SUBSET S : ChainOk(T) /\ Len(LastHash(T)) # Cardinality(T)}
<1> SUFFICES ASSUME F # {} PROVE FALSE
    OBVIOUS
<1>1. PICK T \in F : \A r \in T : T \ {r} \notin F
  <2>1. F \in SUBSET (SUBSET S)
        OBVIOUS
  <2> HIDE DEF F
  <2> QED BY <2>1, SmallestPart DEF Trail
<1>2. Table(T) /\ IsFiniteSet(T)
      BY PartOfTrail DEF Trail
<1>3. CASE T = {}
      BY <1>1, <1>3, NoRows, FS_EmptySet DEF NoHash
<1>4. CASE T # {}
  <2> DEFINE t == Top(T)
             U == T \ {t}
  <2>1. t \in T /\ LastHash(T) = t.hash
        BY <1>2, <1>4, TopRow
  <2>2. /\ ChainOk(U)
        /\ t.prev = LastHash(U)
        /\ t.hash = HashBody(LastHash(U), t.body)
        BY <1>1, <1>2, <1>4, UnbrokenPart
  <2>3. Len(LastHash(U)) = Cardinality(U)
        BY <1>1, <2>1, <2>2
  <2>4. LastHash(U) \in Hash /\ t.body \in Bodies
        BY <1>2, <2>1, <2>2, RowTypes
  <2>5. Cardinality(T) = Cardinality(U) + 1
    <3> HIDE DEF F, t
    <3>1. Cardinality(T) \in Nat
          BY <1>2, FS_CardinalityType
    <3>2. Cardinality(T \ {t}) = Cardinality(T) - 1
          BY <1>2, <2>1, FS_RemoveElement
    <3> QED BY <3>1, <3>2
  <2>6. Len(LastHash(T)) = Len(LastHash(U)) + 1
        BY <2>1, <2>2, <2>4, DigestLength
  <2> QED BY <1>1, <2>3, <2>5, <2>6
<1> QED BY <1>3, <1>4

(* A digest determines what was hashed.                                     *)
LEMMA HashIsInjective ==
    ASSUME NEW g \in Hash, NEW h \in Hash, NEW a \in Bodies, NEW b \in Bodies,
           HashBody(g, a) = HashBody(h, b)
    PROVE  g = h /\ a = b
<1>1. Append(g, a) = Append(h, b)
      BY DEF HashBody
<1>2. Len(g) = Len(h)
      BY <1>1 DEF Hash
<1>3. a = b
      BY <1>1, <1>2 DEF Hash
<1>4. \A i \in 1..Len(g) : g[i] = h[i]
      BY <1>1, <1>2 DEF Hash
<1> QED BY <1>2, <1>3, <1>4, SeqEqual DEF Hash

(* Two unbroken trails with the same last digest hold the same.             *)
LEMMA DigestPinsRows ==
    ASSUME NEW S, Trail(S), ChainOk(S), NEW R, Trail(R), ChainOk(R),
           LastHash(R) = LastHash(S)
    PROVE  Hashed(R) = Hashed(S)
<1> DEFINE Other(T, V) ==
              ChainOk(V) /\ LastHash(V) = LastHash(T) /\ Hashed(V) # Hashed(T)
           F == {T \in SUBSET S : ChainOk(T) /\ \E V \in SUBSET R : Other(T, V)}
<1> SUFFICES ASSUME F # {} PROVE FALSE
    OBVIOUS
<1>1. PICK T \in F : \A r \in T : T \ {r} \notin F
  <2>1. F \in SUBSET (SUBSET S)
        OBVIOUS
  <2> HIDE DEF F
  <2> QED BY <2>1, SmallestPart DEF Trail
<1>2. PICK V \in SUBSET R : Other(T, V)
      BY <1>1
<1>3. Trail(T) /\ Trail(V)
      BY <1>1, PartOfTrail
<1>4. Cardinality(T) = Cardinality(V)
      BY <1>1, <1>2, <1>3, LengthCounts
<1>5. T = {} <=> V = {}
      BY <1>3, <1>4, FS_EmptySet DEF Trail
<1>6. CASE T = {}
      BY <1>2, <1>5, <1>6 DEF Hashed
<1>7. CASE T # {}
  <2> DEFINE t == Top(T)
             v == Top(V)
             TT == T \ {t}
             VV == V \ {v}
  <2>1. V # {} /\ Table(T) /\ Table(V)
        BY <1>3, <1>5, <1>7 DEF Trail
  <2>2. t \in T /\ LastHash(T) = t.hash /\ v \in V /\ LastHash(V) = v.hash
        BY <1>7, <2>1, TopRow
  <2>3. /\ ChainOk(TT) /\ t.prev = LastHash(TT) /\ t.hash = HashBody(t.prev, t.body)
        /\ ChainOk(VV) /\ v.prev = LastHash(VV) /\ v.hash = HashBody(v.prev, v.body)
        BY <1>1, <1>2, <1>7, <2>1, UnbrokenPart
  <2> HIDE DEF t, v
  <2>4. t.prev = v.prev /\ t.body = v.body /\ t.hash = v.hash
    <3>1. HashBody(t.prev, t.body) = HashBody(v.prev, v.body) /\ t.hash = v.hash
          BY <1>2, <2>2, <2>3
    <3>2. t.prev \in Hash /\ v.prev \in Hash /\ t.body \in Bodies /\ v.body \in Bodies
          BY <2>1, <2>2, RowTypes
    <3> QED BY <3>1, <3>2, HashIsInjective
  <2>5. Hashed(VV) = Hashed(TT)
    <3>1. TT \notin F /\ TT \in SUBSET S /\ VV \in SUBSET R
          BY <1>1, <2>2
    <3>2. ~Other(TT, VV)
          BY <2>3, <3>1
    <3> QED BY <2>3, <2>4, <3>2
  <2>6. Hashed(T) = Hashed(TT) \cup {[body |-> t.body, prev |-> t.prev, hash |-> t.hash]}
        BY <2>2 DEF Hashed
  <2>7. Hashed(V) = Hashed(VV) \cup {[body |-> v.body, prev |-> v.prev, hash |-> v.hash]}
        BY <2>2 DEF Hashed
  <2> QED BY <1>2, <2>4, <2>5, <2>6, <2>7
<1> QED BY <1>6, <1>7

(* The digests say in which order the rows of an unbroken trail come.       *)
LEMMA DigestsOrder ==
    ASSUME NEW S, Trail(S), ChainOk(S), NEW R, Trail(R), ChainOk(R)
    PROVE  SameOrder(R, S)
<1>1. ASSUME NEW T, Trail(T), ChainOk(T), NEW a \in T, NEW b \in T
      PROVE  a.id < b.id <=> Len(a.hash) < Len(b.hash)
  <2>1. /\ a.id \in Nat /\ b.id \in Nat
        /\ Len(a.hash) \in Nat /\ Len(b.hash) \in Nat
        BY <1>1, RowTypes DEF Trail
  <2>2. a.id < b.id => Len(a.hash) < Len(b.hash)
        BY <1>1, DigestsGrow DEF Trail
  <2>3. b.id < a.id => Len(b.hash) < Len(a.hash)
        BY <1>1, DigestsGrow DEF Trail
  <2>4. a.id = b.id => a = b
        BY <1>1 DEF Trail, Table
  <2> QED BY <2>1, <2>2, <2>3, <2>4
<1> SUFFICES ASSUME NEW r \in R, NEW o \in R, NEW v \in S, NEW w \in S,
                    r.hash = v.hash, o.hash = w.hash
             PROVE  r.id < o.id <=> v.id < w.id
    BY DEF SameOrder
<1>2. r.id < o.id <=> Len(r.hash) < Len(o.hash)
      BY <1>1
<1>3. v.id < w.id <=> Len(v.hash) < Len(w.hash)
      BY <1>1
<1> QED BY <1>2, <1>3

----------------------------------------------------------------------------
(* v is row w with one column overwritten.                                  *)
Altered(w, v) ==
    /\ v \in AuditRow /\ v.id = w.id
    /\ \/ v.body # w.body /\ v.prev = w.prev /\ v.hash = w.hash
       \/ v.body = w.body /\ v.prev # w.prev /\ v.hash = w.hash
       \/ v.body = w.body /\ v.prev = w.prev /\ v.hash # w.hash

Replaced(S, w, v) == (S \ {w}) \cup {v}

LEMMA ReplacedTrail ==
    ASSUME NEW S, Trail(S), NEW w \in S, NEW v \in AuditRow,
           \A o \in S \ {w} : o.id # v.id
    PROVE  Trail(Replaced(S, w, v))
<1>1. Table(Replaced(S, w, v))
  <2>1. PICK top \in Nat : \A r \in S : r.id =< top
        BY DEF Trail, Table
  <2>2. v.id \in Nat /\ \A r \in S : r.id \in Nat
        BY RowTypes DEF Trail, AuditRow
  <2>3. top + v.id \in Nat /\ \A r \in Replaced(S, w, v) : r.id =< top + v.id
        BY <2>1, <2>2 DEF Replaced
  <2>4. Replaced(S, w, v) \subseteq AuditRow
        BY DEF Replaced, Trail, Table
  <2>5. \A r, o \in Replaced(S, w, v) : r.id = o.id => r = o
        BY DEF Replaced, Trail, Table
  <2> QED BY <2>3, <2>4, <2>5 DEF Table
<1>2. IsFiniteSet(Replaced(S, w, v))
      BY FS_RemoveElement, FS_AddElement DEF Trail, Replaced
<1> QED BY <1>1, <1>2 DEF Trail

LEMMA AddedTrail ==
    ASSUME NEW S, Trail(S), NEW v \in AuditRow, \A o \in S : o.id # v.id
    PROVE  Trail(S \cup {v})
<1>1. PICK top \in Nat : \A r \in S : r.id =< top
      BY DEF Trail, Table
<1>2. v.id \in Nat /\ \A r \in S : r.id \in Nat
      BY RowTypes DEF Trail, AuditRow
<1>3. top + v.id \in Nat /\ \A r \in S \cup {v} : r.id =< top + v.id
      BY <1>1, <1>2
<1>4. S \cup {v} \subseteq AuditRow /\ \A r, o \in S \cup {v} : r.id = o.id => r = o
      BY DEF Trail, Table
<1>5. Table(S \cup {v})
      BY <1>3, <1>4 DEF Table
<1> QED BY <1>5, FS_AddElement DEF Trail

(* The digest the loop has in hand is that of the row with the highest id.  *)
LEMMA HashOfTop ==
    ASSUME NEW S, Table(S), NEW n \in S, \A o \in S : o.id =< n.id
    PROVE  LastHash(S) = n.hash
<1>1. PICK m \in S : (\A o \in S : o.id =< m.id) /\ LastHash(S) = m.hash
      BY NewestRow
<1>2. m.id = n.id
  <2>1. m.id =< n.id /\ n.id =< m.id
        BY <1>1
  <2> QED BY <2>1, RowTypes
<1> QED BY <1>1, <1>2 DEF Table

(* A row of an unbroken trail is the newest before the row after it.        *)
LEMMA LongerThanPrev ==
    ASSUME NEW S, Table(S), ChainOk(S), NEW w \in S
    PROVE  /\ w.prev = LastHash(Before(S, w)) /\ w.hash = HashBody(w.prev, w.body)
           /\ Len(w.hash) = Len(w.prev) + 1 /\ Len(w.prev) \in Nat
           /\ w.hash # w.prev
<1>1. w.prev = LastHash(Before(S, w)) /\ w.hash = HashBody(w.prev, w.body)
      BY UnbrokenRow
<1>2. Len(w.hash) = Len(w.prev) + 1 /\ Len(w.prev) \in Nat
      BY <1>1, RowTypes, DigestLength
<1> QED BY <1>1, <1>2

(* A row that does not fit is the first, if those before it do.             *)
LEMMA FirstOdd ==
    ASSUME NEW R, Trail(R), NEW n \in R, Broken(R, n),
           \A r \in R : r.id < n.id => ~Broken(R, r)
    PROVE  ~ChainOk(R) /\ FirstBroken(R) = n.id
<1>1. n.id \in BrokenIds(R)
      BY DEF BrokenIds
<1>2. ASSUME NEW j \in BrokenIds(R) PROVE n.id =< j
  <2>1. PICK r \in R : r.id = j /\ Broken(R, r)
        BY DEF BrokenIds
  <2>2. r.id \in Nat /\ n.id \in Nat
        BY RowTypes DEF Trail
  <2> QED BY <2>1, <2>2
<1>3. ~ChainOk(R)
      BY <1>1 DEF ChainOk
<1> QED BY <1>1, <1>2, <1>3, FirstBrokenRow DEF Trail

(* What the loop meets before the row at which two trails part.             *)
LEMMA SameBefore ==
    ASSUME NEW S, Trail(S), ChainOk(S), NEW i \in Nat, NEW R, Trail(R),
           \A r : r.id < i => (r \in R <=> r \in S)
    PROVE  \A r \in R : r.id < i => ~Broken(R, r)
<1> SUFFICES ASSUME NEW r \in R, r.id < i PROVE ~Broken(R, r)
    OBVIOUS
<1>1. r \in S
      OBVIOUS
<1>2. Before(R, r) = Before(S, r)
  <2>1. \A o \in R \cup S : o.id \in Nat /\ r.id \in Nat
        BY RowTypes DEF Trail
  <2>2. \A o \in R \cup S : o.id < r.id => o.id < i
        BY <2>1
  <2> QED BY <2>2 DEF Before
<1> QED BY <1>1, <1>2, UnbrokenRow DEF Broken

(* If all rows up to i fit, and a row right after i does not, then that is  *)
(* where the loop stops; and it does not stop if there is none.             *)
After(S, i) == {k \in Ids(S) : k > i}

LEMMA StopsAfter ==
    ASSUME NEW R, Trail(R), NEW i \in Nat,
           \A r \in R : r.id =< i => ~Broken(R, r),
           \A n \in R : n.id > i /\ (\A o \in R : o.id > i => n.id =< o.id) => Broken(R, n)
    PROVE  IF After(R, i) = {} THEN ChainOk(R)
           ELSE ~ChainOk(R) /\ FirstBroken(R) = Min(After(R, i))
<1>1. \A r \in R : r.id \in Nat
      BY RowTypes DEF Trail
<1>2. ASSUME After(R, i) = {} PROVE ChainOk(R)
  <2>1. \A r \in R : r.id =< i
        BY <1>1, <1>2 DEF After, Ids
  <2> QED BY <2>1 DEF ChainOk, BrokenIds
<1>3. ASSUME After(R, i) # {} PROVE ~ChainOk(R) /\ FirstBroken(R) = Min(After(R, i))
  <2>1. After(R, i) \in SUBSET Nat
        BY <1>1 DEF After, Ids
  <2>2. PICK k \in After(R, i) : \A j \in After(R, i) : k =< j
        BY <1>3, <2>1, LeastNat
  <2>3. Min(After(R, i)) = k
        BY <2>1, <2>2 DEF Min
  <2>4. PICK n \in R : n.id = k /\ n.id > i
        BY DEF After, Ids
  <2>5. \A o \in R : o.id > i => n.id =< o.id
        BY <2>2, <2>4 DEF After, Ids
  <2>6. Broken(R, n)
        BY <2>4, <2>5
  <2>7. \A r \in R : r.id < n.id => ~Broken(R, r)
        BY <1>1, <2>4, <2>5
  <2> QED BY <2>3, <2>4, <2>6, <2>7, FirstOdd
<1> QED BY <1>2, <1>3

----------------------------------------------------------------------------
(* A column that is hashed, a digest or a link: the row itself is broken.   *)
LEMMA AlteredRowFound ==
    ASSUME NEW S, Trail(S), ChainOk(S), NEW w \in S, NEW v, Altered(w, v)
    PROVE  /\ ~ChainOk(Replaced(S, w, v))
           /\ FirstBroken(Replaced(S, w, v)) = w.id
<1> DEFINE R == Replaced(S, w, v)
<1>1. /\ Trail(R) /\ v \in R /\ v \in AuditRow /\ v.id = w.id
      /\ \A r : r.id < w.id => (r \in R <=> r \in S)
  <2>1. w.id \in Nat /\ v \in AuditRow /\ v.id = w.id
        BY RowTypes DEF Trail, Altered
  <2>2. \A o \in S \ {w} : o.id # v.id
        BY <2>1 DEF Trail, Table
  <2>3. Trail(R)
        BY <2>1, <2>2, ReplacedTrail
  <2>4. ~(w.id < w.id)
        BY <2>1
  <2> QED BY <2>1, <2>3, <2>4 DEF Replaced
<1>2. w.id \in Nat /\ w.body \in Bodies /\ w.prev \in Hash /\ v.body \in Bodies
      BY <1>1, RowTypes DEF Trail, AuditRow
<1>3. \A r \in R : r.id < w.id => ~Broken(R, r)
      BY <1>1, <1>2, SameBefore
<1>4. Before(R, v) = Before(S, w)
      BY <1>1, <1>2 DEF Before
<1>5. w.prev = LastHash(Before(S, w)) /\ w.hash = HashBody(w.prev, w.body)
      BY UnbrokenRow
<1>6. Broken(R, v)
  <2>1. v.body # w.body => HashBody(w.prev, v.body) # HashBody(w.prev, w.body)
        BY <1>2, HashIsInjective
  <2> QED BY <1>4, <1>5, <2>1 DEF Broken, Altered
<1> HIDE DEF R
<1>7. ~ChainOk(R) /\ FirstBroken(R) = v.id
      BY <1>1, <1>3, <1>6, FirstOdd
<1> QED BY <1>1, <1>7 DEF R

(* Row w is gone from its place: what came next does not fit any more.      *)
LEMMA NextOfGone ==
    ASSUME NEW S, Trail(S), ChainOk(S), NEW w \in S, NEW R, Trail(R),
           NEW n \in R, n.id > w.id, \A o \in R : o.id > w.id => n.id =< o.id,
           \A r \in R \cup S : r.id =< n.id => (r \in R <=> r \in S \ {w})
    PROVE  Broken(R, n)
<1>1. Table(S) /\ Table(R) /\ \A r \in R \cup S : r.id \in Nat
      BY RowTypes DEF Trail
<1>2. n \in S \ {w}
      BY <1>1
<1>3. \A r \in S \ {w} : r.id < n.id <=> r.id < w.id
  <2>1. ASSUME NEW r \in S \ {w} PROVE r.id # w.id
        BY <1>1 DEF Table
  <2> QED BY <1>1, <2>1
<1>4. Before(R, n) = Before(S, w)
  <2>1. ASSUME NEW r PROVE r \in Before(R, n) <=> r \in Before(S, w)
        BY <1>1, <1>3 DEF Before
  <2> QED BY <2>1
<1>5. LastHash(Before(S, n)) = w.hash
  <2>1. w \in Before(S, n) /\ \A o \in Before(S, n) : o.id =< w.id
        BY <1>1, <1>3 DEF Before
  <2>2. Table(Before(S, n))
        BY <1>1, PartOfTable DEF Before
  <2> QED BY <2>1, <2>2, HashOfTop
<1>6. n.prev = LastHash(Before(S, n))
      BY <1>2, UnbrokenRow
<1>7. w.prev = LastHash(Before(S, w)) /\ w.hash # w.prev
      BY <1>1, LongerThanPrev
<1> QED BY <1>4, <1>5, <1>6, <1>7 DEF Broken

(* Of a row that was deleted the next one tells, if there is one.           *)
LEMMA DeletedRowFound ==
    ASSUME NEW S, Trail(S), ChainOk(S), NEW w \in S
    PROVE  LET R == S \ {w}
           IN  IF After(R, w.id) = {} THEN ChainOk(R)
               ELSE ~ChainOk(R) /\ FirstBroken(R) = Min(After(R, w.id))
<1> DEFINE R == S \ {w}
<1>1. Trail(R) /\ Table(S) /\ \A r \in S : r.id \in Nat
      BY PartOfTrail, RowTypes DEF Trail
<1>2. \A r \in R : r.id # w.id
      BY <1>1 DEF Table
<1>3. \A r \in R : r.id =< w.id => ~Broken(R, r)
  <2>1. \A r : r.id < w.id => (r \in R <=> r \in S)
        BY <1>1
  <2>2. \A r \in R : r.id < w.id => ~Broken(R, r)
        BY <1>1, <2>1, SameBefore
  <2> QED BY <1>1, <1>2, <2>2
<1>4. \A n \in R : n.id > w.id /\ (\A o \in R : o.id > w.id => n.id =< o.id) => Broken(R, n)
      BY <1>1, NextOfGone
<1> HIDE DEF R
<1>5. IF After(R, w.id) = {} THEN ChainOk(R)
      ELSE ~ChainOk(R) /\ FirstBroken(R) = Min(After(R, w.id))
      BY <1>1, <1>3, <1>4, StopsAfter
<1> QED BY <1>5 DEF R

(* Of a row that was inserted it tells itself, or the next one does.        *)
LEMMA InsertedRowFound ==
    ASSUME NEW S, Trail(S), ChainOk(S), NEW x \in AuditRow, \A o \in S : o.id # x.id
    PROVE  LET R == S \cup {x}
           IN  IF Broken(R, x) THEN ~ChainOk(R) /\ FirstBroken(R) = x.id
               ELSE IF After(R, x.id) = {} THEN ChainOk(R)
               ELSE ~ChainOk(R) /\ FirstBroken(R) = Min(After(R, x.id))
<1> DEFINE R == S \cup {x}
<1>1. Trail(R) /\ Table(S) /\ Table(R) /\ x \in R /\ \A r \in R : r.id \in Nat
      BY AddedTrail, RowTypes DEF Trail
<1>2. \A r \in R : r.id < x.id => ~Broken(R, r)
  <2>1. \A r : r.id < x.id => (r \in R <=> r \in S)
        BY <1>1
  <2> QED BY <1>1, <2>1, SameBefore
<1>3. ASSUME Broken(R, x) PROVE ~ChainOk(R) /\ FirstBroken(R) = x.id
  <2> HIDE DEF R
  <2> QED BY <1>1, <1>2, <1>3, FirstOdd
<1>4. ASSUME ~Broken(R, x)
      PROVE  IF After(R, x.id) = {} THEN ChainOk(R)
             ELSE ~ChainOk(R) /\ FirstBroken(R) = Min(After(R, x.id))
  <2>1. \A r \in R : r.id =< x.id => ~Broken(R, r)
    <3>1. \A r \in R : r.id = x.id => r = x
          BY <1>1 DEF Table
    <3> HIDE DEF R
    <3> QED BY <1>1, <1>2, <1>4, <3>1
  <2>2. ASSUME NEW n \in R, n.id > x.id, \A o \in R : o.id > x.id => n.id =< o.id
        PROVE  Broken(R, n)
    <3>1. n \in S /\ n # x
          BY <1>1, <2>2
    <3>2. \A r \in S : r.id < n.id <=> r.id < x.id
      <4>1. ASSUME NEW r \in S PROVE r.id # x.id
            OBVIOUS
      <4> QED BY <1>1, <2>2, <4>1
    <3>3. /\ Before(S, n) = Before(R, x)
          /\ Before(R, n) = Before(R, x) \cup {x}
          BY <1>1, <2>2, <3>2 DEF Before
    <3>4. LastHash(Before(R, n)) = x.hash
      <4>1. Table(Before(R, n)) /\ x \in Before(R, n)
            BY <1>1, <3>3, PartOfTable DEF Before
      <4>2. \A o \in Before(R, n) : o.id =< x.id
            BY <1>1, <3>3 DEF Before
      <4> QED BY <4>1, <4>2, HashOfTop
    <3>5. x.hash = HashBody(x.prev, x.body) /\ x.prev = LastHash(Before(R, x))
          BY <1>4 DEF Broken
    <3>6. x.hash # x.prev
      <4>1. Len(x.hash) = Len(x.prev) + 1 /\ Len(x.prev) \in Nat
            BY <1>1, <3>5, RowTypes, DigestLength
      <4> QED BY <4>1
    <3>7. n.prev = LastHash(Before(S, n))
          BY <3>1, UnbrokenRow
    <3> QED BY <3>3, <3>4, <3>5, <3>6, <3>7 DEF Broken
  <2> HIDE DEF R
  <2>3. x.id \in Nat
        BY <1>1
  <2> QED BY <1>1, <2>1, <2>2, <2>3, StopsAfter
<1> QED BY <1>3, <1>4

(* w has become v, under another id.                                        *)
Renumbered(w, v) ==
    /\ v \in AuditRow
    /\ v.body = w.body /\ v.prev = w.prev /\ v.hash = w.hash

(* The digest the loop has in hand does not depend on the ids.              *)
LEMMA SameLastHash ==
    ASSUME NEW S, Table(S), NEW w \in S, NEW v, Renumbered(w, v),
           Table(Replaced(S, w, v)),
           \A o \in S \ {w} : o.id < w.id <=> o.id < v.id
    PROVE  LastHash(Replaced(S, w, v)) = LastHash(S)
<1> DEFINE R == Replaced(S, w, v)
<1>1. PICK m \in S : (\A o \in S : o.id =< m.id) /\ LastHash(S) = m.hash
      BY NewestRow
<1>2. v.id \in Nat /\ \A o \in S : o.id \in Nat
      BY RowTypes DEF Renumbered, AuditRow
<1>3. CASE m = w
  <2>1. \A o \in R : o.id =< v.id
    <3>1. ASSUME NEW o \in S \ {w} PROVE o.id =< v.id
      <4>1. o.id # w.id /\ o.id =< w.id
            BY <1>1, <1>3 DEF Table
      <4> QED BY <1>2, <4>1
    <3> QED BY <1>2, <3>1 DEF Replaced
  <2>2. LastHash(R) = v.hash
        BY <2>1, HashOfTop DEF Replaced
  <2> QED BY <1>1, <1>3, <2>2 DEF Renumbered
<1>4. CASE m # w
  <2>1. m \in R /\ ~(m.id < v.id)
    <3>1. m.id # w.id /\ w.id =< m.id
          BY <1>1, <1>4 DEF Table
    <3> QED BY <1>2, <1>4, <3>1 DEF Replaced
  <2>2. \A o \in R : o.id =< m.id
        BY <1>1, <1>2, <2>1 DEF Replaced
  <2>3. LastHash(R) = m.hash
        BY <2>1, <2>2, HashOfTop
  <2> QED BY <1>1, <2>3
<1> QED BY <1>3, <1>4

(* A row that was renumbered and kept its place does not show.              *)
LEMMA SamePlaceUnseen ==
    ASSUME NEW S, Trail(S), ChainOk(S), NEW w \in S, NEW v, Renumbered(w, v),
           \A o \in S : o.id # v.id,
           \A o \in S \ {w} : o.id < w.id <=> o.id < v.id
    PROVE  ChainOk(Replaced(S, w, v))
<1> DEFINE R == Replaced(S, w, v)
<1>1. Table(S) /\ Table(R) /\ \A r \in R \cup S : r.id \in Nat
      BY ReplacedTrail, RowTypes DEF Trail, Renumbered
<1>2. ASSUME NEW r \in R, r # v PROVE ~Broken(R, r)
  <2>1. r \in S /\ r # w /\ r.id # w.id /\ r.id # v.id
        BY <1>1, <1>2 DEF Replaced, Table
  <2>2. w.id < r.id <=> v.id < r.id
    <3>1. r.id < w.id <=> r.id < v.id
          BY <2>1
    <3>2. r.id \in Nat /\ w.id \in Nat /\ v.id \in Nat
          BY <1>1 DEF Replaced
    <3> HIDE DEF R
    <3> QED BY <2>1, <3>1, <3>2
  <2>3. LastHash(Before(R, r)) = LastHash(Before(S, r))
    <3>1. CASE w.id < r.id
      <4> DEFINE B == Before(S, r)
      <4>1. Before(R, r) = Replaced(B, w, v) /\ w \in B
            BY <2>1, <2>2, <3>1 DEF Before, Replaced
      <4>2. Table(B) /\ Table(Replaced(B, w, v))
            BY <1>1, <4>1, PartOfTable DEF Before
      <4>3. \A o \in B \ {w} : o.id < w.id <=> o.id < v.id
            BY DEF Before
      <4> HIDE DEF B
      <4>4. LastHash(Replaced(B, w, v)) = LastHash(B)
            BY <4>1, <4>2, <4>3, SameLastHash
      <4> QED BY <4>1, <4>4 DEF B
    <3>2. CASE ~(w.id < r.id)
      <4>1. Before(R, r) = Before(S, r)
            BY <2>1, <2>2, <3>2 DEF Before, Replaced
      <4> QED BY <4>1
    <3> QED BY <3>1, <3>2
  <2> QED BY <2>1, <2>3, UnbrokenRow DEF Broken
<1>3. ~Broken(R, v)
  <2>1. ~(v.id < v.id) /\ ~(w.id < w.id)
        BY <1>1 DEF Replaced
  <2>2. Before(R, v) = Before(S, w)
    <3>1. ASSUME NEW o PROVE o \in Before(R, v) <=> o \in Before(S, w)
          BY <2>1 DEF Before, Replaced
    <3> QED BY <3>1
  <2> QED BY <2>2, UnbrokenRow DEF Broken, Renumbered
<1> QED BY <1>2, <1>3 DEF ChainOk, BrokenIds

(* One that came before others shows where it is now, ...                   *)
LEMMA MovedDownFound ==
    ASSUME NEW S, Trail(S), ChainOk(S), NEW w \in S, NEW v, Renumbered(w, v),
           \A o \in S : o.id # v.id,
           NEW p \in S, v.id < p.id, p.id < w.id
    PROVE  ~ChainOk(Replaced(S, w, v)) /\ FirstBroken(Replaced(S, w, v)) = v.id
<1> DEFINE R == Replaced(S, w, v)
<1>1. /\ Table(S) /\ Trail(R) /\ Table(R) /\ v \in R
      /\ \A r \in R \cup S : r.id \in Nat
      BY ReplacedTrail, RowTypes DEF Trail, Renumbered, Replaced
<1>2. v.id < w.id /\ v.id \in Nat /\ w.id \in Nat /\ p.id \in Nat
      BY <1>1
<1>3. \A r \in R : r.id < v.id => ~Broken(R, r)
  <2>1. \A r : r.id < v.id => (r \in R <=> r \in S)
        BY <1>1, <1>2 DEF Replaced
  <2> QED BY <1>1, <1>2, <2>1, SameBefore
<1>4. PICK m \in Before(S, w) :
         (\A o \in Before(S, w) : o.id =< m.id) /\ LastHash(Before(S, w)) = m.hash
  <2>1. p \in Before(S, w) /\ Table(Before(S, w))
        BY <1>1, PartOfTable DEF Before
  <2> QED BY <2>1, NewestRow
<1>5. m \in S /\ v.id < m.id
  <2>1. p \in Before(S, w) /\ m \in S
        BY DEF Before
  <2>2. p.id =< m.id /\ m.id \in Nat
        BY <1>1, <1>4, <2>1
  <2> QED BY <1>2, <2>1, <2>2
<1>6. v.prev = m.hash
      BY <1>4, UnbrokenRow DEF Renumbered
<1>7. \A q \in Before(R, v) : q \in S /\ q.id < m.id
  <2>1. ASSUME NEW q \in Before(R, v) PROVE q \in S /\ q.id < m.id
    <3>1. q \in R /\ q.id < v.id
          BY DEF Before
    <3>2. q \in S
          BY <1>2, <3>1 DEF Replaced
    <3>3. q.id \in Nat /\ m.id \in Nat
          BY <1>1, <1>5, <3>2
    <3> QED BY <1>2, <1>5, <3>1, <3>2, <3>3
  <2> QED BY <2>1
<1>8. LastHash(Before(R, v)) # m.hash
  <2>1. Len(m.hash) = Len(m.prev) + 1 /\ Len(m.prev) \in Nat
        BY <1>1, <1>5, LongerThanPrev
  <2>2. CASE Before(R, v) = {}
    <3>1. LastHash(Before(R, v)) = <<>>
          BY <2>2, NoRows DEF NoHash
    <3>2. Len(<<>>) = 0
          OBVIOUS
    <3> QED BY <2>1, <3>1, <3>2
  <2>3. CASE Before(R, v) # {}
    <3>1. PICK q \in Before(R, v) : LastHash(Before(R, v)) = q.hash
          BY <1>1, <2>3, PartOfTable, NewestRow DEF Before
    <3>2. Len(q.hash) < Len(m.hash)
          BY <1>1, <1>5, <1>7, DigestsGrow
    <3>3. Len(q.hash) \in Nat
          BY <1>1, <1>7, RowTypes
    <3> QED BY <2>1, <3>1, <3>2, <3>3
  <2> QED BY <2>2, <2>3
<1>9. Broken(R, v)
      BY <1>6, <1>8 DEF Broken
<1> HIDE DEF R
<1>10. ~ChainOk(R) /\ FirstBroken(R) = v.id
      BY <1>1, <1>3, <1>9, FirstOdd
<1> QED BY <1>10 DEF R

(* ... and one that came after others where it was.                         *)
LEMMA MovedUpFound ==
    ASSUME NEW S, Trail(S), ChainOk(S), NEW w \in S, NEW v, Renumbered(w, v),
           \A o \in S : o.id # v.id,
           NEW p \in S, w.id < p.id, p.id < v.id
    PROVE  LET R == Replaced(S, w, v)
           IN  IF After(R, w.id) = {} THEN ChainOk(R)
               ELSE ~ChainOk(R) /\ FirstBroken(R) = Min(After(R, w.id))
<1> DEFINE R == Replaced(S, w, v)
<1>1. /\ Table(S) /\ Trail(R) /\ Table(R) /\ v \in R
      /\ \A r \in R \cup S : r.id \in Nat
      BY ReplacedTrail, RowTypes DEF Trail, Renumbered, Replaced
<1>2. w.id < v.id /\ v.id \in Nat /\ w.id \in Nat /\ p.id \in Nat /\ p \in R
      BY <1>1 DEF Replaced
<1>3. \A r \in R : r.id =< w.id => ~Broken(R, r)
  <2>1. \A r : r.id < w.id => (r \in R <=> r \in S)
        BY <1>1, <1>2 DEF Replaced
  <2>2. \A r \in R : r.id < w.id => ~Broken(R, r)
        BY <1>1, <1>2, <2>1, SameBefore
  <2>3. \A r \in R : r.id # w.id
        BY <1>1, <1>2 DEF Replaced, Table
  <2> HIDE DEF R
  <2> QED BY <1>1, <2>2, <2>3
<1>4. ASSUME NEW n \in R, n.id > w.id, \A o \in R : o.id > w.id => n.id =< o.id
      PROVE  Broken(R, n)
  <2>1. n.id =< p.id /\ n.id < v.id
    <3>1. n.id =< p.id /\ n.id \in Nat
          BY <1>1, <1>2, <1>4
    <3> QED BY <1>2, <3>1
  <2>2. \A r \in R \cup S : r.id =< n.id => (r \in R <=> r \in S \ {w})
    <3>1. \A r : r.id =< n.id => r # v
          BY <1>1, <1>2, <2>1
    <3> QED BY <3>1 DEF Replaced
  <2> HIDE DEF R
  <2> QED BY <1>1, <1>4, <2>2, NextOfGone
<1> HIDE DEF R
<1>5. IF After(R, w.id) = {} THEN ChainOk(R)
      ELSE ~ChainOk(R) /\ FirstBroken(R) = Min(After(R, w.id))
      BY <1>1, <1>2, <1>3, <1>4, StopsAfter
<1> QED BY <1>5 DEF R

----------------------------------------------------------------------------
(* How the table differs from what was written after a single change.       *)
Changed ==
    \/ change = NoChange
    \/ change.what = "stamp" /\ rows = written
    \/ \E w \in written :
          /\ change.id = w.id
          /\ \/ change.what = "deleted" /\ rows = written \ {w}
             \/ /\ change.what \in {"body", "hash", "prev"}
                /\ \E v : Altered(w, v) /\ rows = Replaced(written, w, v)
             \/ /\ change.what = "id"
                /\ \E v : /\ Renumbered(w, v) /\ v.id = change.now
                          /\ \A o \in written : o.id # v.id
                          /\ rows = Replaced(written, w, v)
    \/ /\ change.what = "inserted"
       /\ \E x \in AuditRow : /\ change.id = x.id
                              /\ \A o \in written : o.id # x.id
                              /\ rows = written \cup {x}

(* What was written is an unbroken trail, and what a single change did to   *)
(* it is known.                                                             *)
TrailInv ==
    /\ Trail(rows) /\ Trail(written)
    /\ ChainOk(written)
    /\ edits \in Nat
    /\ edits = 0 => rows = written /\ change = NoChange
    /\ Changed

LEMMA LastHashIsHash ==
    ASSUME NEW S, Table(S)
    PROVE  LastHash(S) \in Hash
<1>1. CASE S = {}
  <2>1. NoHash \in Hash
        BY DEF NoHash, Hash
  <2> QED BY <1>1, <2>1, NoRows
<1>2. CASE S # {}
  <2>1. PICK n \in S : LastHash(S) = n.hash
        BY <1>2, NewestRow
  <2> QED BY <2>1, RowTypes
<1> QED BY <1>1, <1>2

LEMMA DigestsAreHashes == Digests \subseteq Hash
<1> SUFFICES ASSUME NEW n \in 0..MaxRows, NEW h \in [1..n -> Bodies] PROVE h \in Hash
    BY DEF Digests
<1>1. n \in Nat
      BY BoundsAreNat
<1> QED BY <1>1 DEF Hash

LEMMA TrailInit == Init => TrailInv
<1> SUFFICES ASSUME Init PROVE TrailInv
    OBVIOUS
<1>1. Table({})
      BY DEF Table
<1>2. Trail({})
      BY <1>1, FS_EmptySet DEF Trail
<1> QED BY <1>2, NoRows DEF Init, TrailInv, Changed

LEMMA WriteStep ==
    ASSUME TrailInv, NEW b \in Bodies, Write(b)
    PROVE  TrailInv'
<1>1. /\ edits = 0 /\ edits' = 0 /\ change = NoChange /\ change' = NoChange
      /\ rows = written /\ written' = rows'
      BY DEF TrailInv, Write
<1>2. PICK gap \in 0..1 : rows' = rows \cup {NewRow(TopId + 1 + gap, b, LastHash(rows))}
      BY DEF Write, Becomes
<1> DEFINE n == NewRow(TopId + 1 + gap, b, LastHash(rows))
<1>3. Trail(rows) /\ Table(rows) /\ ChainOk(rows)
      BY <1>1 DEF TrailInv, Trail
<1>4. TopId \in Nat /\ \A o \in rows : o.id =< TopId
  <2>1. CASE rows = {}
        BY <2>1 DEF TopId
  <2>2. CASE rows # {}
        BY <1>3, <2>2, TopRow, RowTypes DEF TopId
  <2> QED BY <2>1, <2>2
<1>5. /\ n \in AuditRow /\ n.id = TopId + 1 + gap
      /\ n.prev = LastHash(rows) /\ n.hash = HashBody(n.prev, n.body)
      BY <1>3, <1>4, LastHashIsHash, DigestLength DEF NewRow, AuditRow
<1> HIDE DEF n
<1>6. n.id \in Nat /\ \A o \in rows : o.id \in Nat /\ o.id < n.id /\ o.id # n.id
      BY <1>3, <1>4, <1>5, RowTypes
<1>7. rows' = rows \cup {n}
      BY <1>2 DEF n
<1>8. Trail(rows')
      BY <1>3, <1>5, <1>6, <1>7, AddedTrail
<1>9. ChainOk(rows')
      BY <1>3, <1>5, <1>6, <1>7, ExtendsChain
<1> QED BY <1>1, <1>8, <1>9 DEF TrailInv, Changed

(* What every change made outside the program has in common.                *)
LEMMA ChangeStep ==
    ASSUME TrailInv, NEW columns \in Nat \ {0}, NEW what, NEW id, NEW now,
           Changes(columns, what, id, now), Trail(rows'),
           rows = written /\ change' = [what |-> what, id |-> id, now |-> now] => Changed'
    PROVE  TrailInv'
<1>1. edits' \in Nat /\ edits' # 0 /\ written' = written
      BY DEF TrailInv, Changes
<1>2. Changed'
  <2>1. CASE edits = 0
        BY <2>1 DEF TrailInv, Changes
  <2>2. CASE edits # 0
        BY <2>2 DEF TrailInv, Changes, Changed
  <2> QED BY <2>1, <2>2
<1> QED BY <1>1, <1>2 DEF TrailInv

(* A column of a row is overwritten, ...                                    *)
LEMMA AlterStep ==
    ASSUME TrailInv, NEW r \in rows, NEW v, Altered(r, v), Overwrites(r, v),
           NEW what \in {"body", "hash", "prev"}, Changes(1, what, r.id, r.id)
    PROVE  TrailInv'
<1>1. rows' = Replaced(rows, r, v) /\ written' = written
      BY DEF Overwrites, Becomes, Replaced, Changes
<1>2. v \in AuditRow /\ \A o \in rows \ {r} : o.id # v.id
      BY DEF Altered, TrailInv, Trail, Table
<1>3. Trail(rows')
      BY <1>1, <1>2, ReplacedTrail DEF TrailInv
<1>4. ASSUME rows = written, change' = [what |-> what, id |-> r.id, now |-> r.id]
      PROVE  Changed'
      BY <1>1, <1>4 DEF Changed
<1> QED BY <1>3, <1>4, ChangeStep

(* ... or its id, ...                                                       *)
LEMMA RenumberStep ==
    ASSUME TrailInv, NEW r \in rows, EditId(r)
    PROVE  TrailInv'
<1>1. PICK i \in FreeIds : /\ Overwrites(r, [r EXCEPT !.id = i])
                           /\ Changes(1, "id", r.id, i)
      BY DEF EditId
<1> DEFINE v == [r EXCEPT !.id = i]
<1>2. i \in Nat /\ \A o \in rows : o.id # i
      BY <1>1, BoundsAreNat DEF FreeIds, Ids
<1>3. r \in AuditRow
      BY DEF TrailInv, Trail, Table
<1>4. Renumbered(r, v) /\ v.id = i
      BY <1>2, <1>3 DEF Renumbered, AuditRow
<1>5. rows' = Replaced(rows, r, v) /\ written' = written
      BY <1>1 DEF Overwrites, Becomes, Replaced, Changes, AuditRow
<1> HIDE DEF v
<1>6. Trail(rows')
      BY <1>2, <1>4, <1>5, ReplacedTrail DEF TrailInv, Renumbered
<1>7. ASSUME rows = written, change' = [what |-> "id", id |-> r.id, now |-> i]
      PROVE  Changed'
      BY <1>2, <1>4, <1>5, <1>7 DEF Changed
<1> QED BY <1>1, <1>6, <1>7, ChangeStep

(* ... or a row is deleted, ...                                             *)
LEMMA DeleteStep ==
    ASSUME TrailInv, NEW r \in rows, Delete(r)
    PROVE  TrailInv'
<1>1. /\ rows' = rows \ {r} /\ written' = written
      /\ Changes(1, "deleted", r.id, r.id)
      BY DEF Delete, Becomes, Changes
<1>2. Trail(rows')
      BY <1>1, PartOfTrail DEF TrailInv
<1>3. ASSUME rows = written, change' = [what |-> "deleted", id |-> r.id, now |-> r.id]
      PROVE  Changed'
      BY <1>1, <1>3 DEF Changed
<1> QED BY <1>1, <1>2, <1>3, ChangeStep

(* ... or inserted.                                                         *)
LEMMA InsertStep ==
    ASSUME TrailInv, Insert
    PROVE  TrailInv'
<1>1. PICK i \in FreeIds, b \in Bodies, p \in Digests, h \in Digests :
         /\ rows' = rows \cup {[id |-> i, body |-> b, prev |-> p, hash |-> h]}
         /\ Changes(3, "inserted", i, i)
      BY DEF Insert, Becomes
<1> DEFINE x == [id |-> i, body |-> b, prev |-> p, hash |-> h]
<1>2. i \in Nat /\ \A o \in rows : o.id # i
      BY <1>1, BoundsAreNat DEF FreeIds, Ids
<1>3. x \in AuditRow /\ x.id = i
      BY <1>2, DigestsAreHashes DEF AuditRow
<1>4. rows' = rows \cup {x} /\ written' = written
      BY <1>1 DEF Changes
<1> HIDE DEF x
<1>5. Trail(rows')
      BY <1>2, <1>3, <1>4, AddedTrail DEF TrailInv
<1>6. ASSUME rows = written, change' = [what |-> "inserted", id |-> i, now |-> i]
      PROVE  Changed'
      BY <1>2, <1>3, <1>4, <1>6 DEF Changed
<1> QED BY <1>1, <1>5, <1>6, ChangeStep

LEMMA TrailStep == TrailInv /\ [Next]_vars => TrailInv'
<1> SUFFICES ASSUME TrailInv, [Next]_vars PROVE TrailInv'
    OBVIOUS
<1>1. ASSUME NEW r \in rows PROVE r \in AuditRow
      BY DEF TrailInv, Trail, Table
<1>2. ASSUME NEW b \in Bodies, Write(b) PROVE TrailInv'
      BY <1>2, WriteStep
<1>3. ASSUME NEW r \in rows, EditBody(r) PROVE TrailInv'
  <2>1. PICK b \in Bodies \ {r.body} : Overwrites(r, [r EXCEPT !.body = b])
        BY <1>3 DEF EditBody
  <2>2. Altered(r, [r EXCEPT !.body = b])
        BY <1>1 DEF Altered, AuditRow
  <2> QED BY <1>3, <2>1, <2>2, AlterStep DEF EditBody
<1>4. ASSUME NEW r \in rows, EditHash(r) PROVE TrailInv'
  <2>1. PICK h \in Digests \ {r.hash} : Overwrites(r, [r EXCEPT !.hash = h])
        BY <1>4 DEF EditHash
  <2>2. Altered(r, [r EXCEPT !.hash = h])
        BY <1>1, DigestsAreHashes DEF Altered, AuditRow
  <2> QED BY <1>4, <2>1, <2>2, AlterStep DEF EditHash
<1>5. ASSUME NEW r \in rows, EditPrev(r) PROVE TrailInv'
  <2>1. PICK h \in Digests \ {r.prev} : Overwrites(r, [r EXCEPT !.prev = h])
        BY <1>5 DEF EditPrev
  <2>2. Altered(r, [r EXCEPT !.prev = h])
        BY <1>1, DigestsAreHashes DEF Altered, AuditRow
  <2> QED BY <1>5, <2>1, <2>2, AlterStep DEF EditPrev
<1>6. ASSUME NEW r \in rows, EditStamp(r) PROVE TrailInv'
  <2>1. rows' = rows /\ written' = written /\ Changes(1, "stamp", r.id, r.id)
        BY <1>6 DEF EditStamp, Becomes, Changes
  <2>2. Trail(rows')
        BY <2>1 DEF TrailInv
  <2>3. ASSUME rows = written, change' = [what |-> "stamp", id |-> r.id, now |-> r.id]
        PROVE  Changed'
        BY <2>1, <2>3 DEF Changed
  <2> QED BY <2>1, <2>2, <2>3, ChangeStep
<1>7. ASSUME NEW r \in rows, EditId(r) PROVE TrailInv'
      BY <1>7, RenumberStep
<1>8. ASSUME NEW r \in rows, Delete(r) PROVE TrailInv'
      BY <1>8, DeleteStep
<1>9. ASSUME Insert PROVE TrailInv'
      BY <1>9, InsertStep
<1>10. CASE UNCHANGED vars
      BY <1>10 DEF vars, TrailInv, Changed
<1> QED BY <1>2, <1>3, <1>4, <1>5, <1>6, <1>7, <1>8, <1>9, <1>10 DEF Next

LEMMA TrailInvariant == Spec => []TrailInv
BY TrailInit, TrailStep, PTL DEF Spec

----------------------------------------------------------------------------
(* verify_chain answers as the definition of a chain says, on every table   *)
(* that the program or anybody else has left.                               *)
THEOREM LoopIsExact == Spec => []LoopFindsFirstBroken
<1>1. TrailInv => LoopFindsFirstBroken
      BY LoopIsRight DEF TrailInv, LoopFindsFirstBroken
<1> QED BY <1>1, TrailInvariant, PTL

(* What verify_chain shows of a single change: where a hashed column, a     *)
(* digest, a link, a row too few or too many and a changed order show, and  *)
(* that another stamp, or another id in the same place, does not.           *)
THEOREM ChangesShow == Spec => []SingleChangeShows
<1>1. ASSUME TrailInv PROVE SingleChangeShows
  <2>1. /\ Trail(written) /\ ChainOk(written) /\ Changed
        /\ verify_chain(rows) = IF ChainOk(rows) THEN <<TRUE, None>>
                                                 ELSE <<FALSE, FirstBroken(rows)>>
        BY <1>1, LoopIsRight DEF TrailInv
  <2>2. ASSUME NEW i,
               IF After(rows, i) = {} THEN ChainOk(rows)
               ELSE ~ChainOk(rows) /\ FirstBroken(rows) = Min(After(rows, i))
        PROVE  verify_chain(rows) = FirstAfter(i)
        BY <2>1, <2>2 DEF FirstAfter, After
  <2>3. CASE change = NoChange
        BY <2>3 DEF NoChange, SingleChangeShows
  <2>4. CASE change.what = "stamp" /\ rows = written
        BY <2>1, <2>4 DEF SingleChangeShows
  <2>5. ASSUME NEW w \in written, change.id = w.id, change.what = "deleted",
               rows = written \ {w}
        PROVE  SingleChangeShows
    <3>1. verify_chain(rows) = FirstAfter(w.id)
          BY <2>1, <2>2, <2>5, DeletedRowFound
    <3> QED BY <2>5, <3>1 DEF SingleChangeShows
  <2>6. ASSUME NEW w \in written, change.id = w.id,
               change.what \in {"body", "hash", "prev"},
               NEW v, Altered(w, v), rows = Replaced(written, w, v)
        PROVE  SingleChangeShows
    <3>1. verify_chain(rows) = <<FALSE, w.id>>
          BY <2>1, <2>6, AlteredRowFound
    <3> QED BY <2>6, <3>1 DEF SingleChangeShows
  <2>7. ASSUME NEW w \in written, change.id = w.id, change.what = "id",
               NEW v, Renumbered(w, v), v.id = change.now,
               \A o \in written : o.id # v.id, rows = Replaced(written, w, v)
        PROVE  SingleChangeShows
    <3> DEFINE Outcome == IF Passed(v.id, w.id) # {} THEN <<FALSE, v.id>>
                          ELSE IF Passed(w.id, v.id) # {} THEN FirstAfter(w.id)
                          ELSE <<TRUE, None>>
    <3> SUFFICES verify_chain(rows) = Outcome
        BY <2>7 DEF SingleChangeShows
    <3>1. /\ v.id \in Nat /\ \A o \in written : o.id \in Nat /\ (o # w => o.id # w.id)
          BY <2>1, <2>7, RowTypes DEF Trail, Table, Renumbered, AuditRow
    <3>2. Ids(rows) = Ids(written \ {w}) \cup {v.id}
          BY <2>7 DEF Ids, Replaced
    <3>3. ASSUME NEW k, k \in Passed(v.id, w.id) \/ k \in Passed(w.id, v.id)
          PROVE  \E p \in written : p.id = k
          BY <3>1, <3>2, <3>3 DEF Passed, Ids
    <3>4. CASE Passed(v.id, w.id) # {}
      <4>1. PICK p \in written : v.id < p.id /\ p.id < w.id
            BY <3>3, <3>4 DEF Passed
      <4>2. ~ChainOk(rows) /\ FirstBroken(rows) = v.id
            BY <2>1, <2>7, <4>1, MovedDownFound
      <4> QED BY <2>1, <3>4, <4>2
    <3>5. CASE Passed(v.id, w.id) = {} /\ Passed(w.id, v.id) # {}
      <4>1. PICK p \in written : w.id < p.id /\ p.id < v.id
            BY <3>3, <3>5 DEF Passed
      <4>2. verify_chain(rows) = FirstAfter(w.id)
            BY <2>1, <2>2, <2>7, <4>1, MovedUpFound
      <4> QED BY <3>5, <4>2
    <3>6. CASE Passed(v.id, w.id) = {} /\ Passed(w.id, v.id) = {}
      <4>1. ASSUME NEW o \in written \ {w} PROVE o.id < w.id <=> o.id < v.id
        <5>1. o.id \in Ids(rows) /\ o.id # v.id /\ o.id # w.id
              BY <2>7, <3>1, <3>2 DEF Ids
        <5>2. /\ ~(v.id < o.id /\ o.id < w.id)
              /\ ~(w.id < o.id /\ o.id < v.id)
              BY <3>6, <5>1 DEF Passed
        <5>3. o.id \in Nat /\ w.id \in Nat /\ v.id \in Nat
              BY <3>1
        <5> QED BY <5>1, <5>2, <5>3
      <4>2. ChainOk(rows)
            BY <2>1, <2>7, <4>1, SamePlaceUnseen
      <4> QED BY <2>1, <3>6, <4>2
    <3> QED BY <3>4, <3>5, <3>6
  <2>8. ASSUME NEW x \in AuditRow, change.id = x.id, change.what = "inserted",
               \A o \in written : o.id # x.id, rows = written \cup {x}
        PROVE  SingleChangeShows
    <3>1. Broken(rows, x) <=> x.id \in BrokenIds(rows)
      <4>1. \A r \in rows : r.id = x.id => r = x
            BY <2>8
      <4> QED BY <2>8, <4>1 DEF BrokenIds
    <3>2. CASE Broken(rows, x)
      <4>1. verify_chain(rows) = <<FALSE, x.id>>
            BY <2>1, <2>8, <3>2, InsertedRowFound
      <4> QED BY <2>8, <3>1, <3>2, <4>1 DEF SingleChangeShows
    <3>3. CASE ~Broken(rows, x)
      <4>1. verify_chain(rows) = FirstAfter(x.id)
            BY <2>1, <2>2, <2>8, <3>3, InsertedRowFound
      <4> QED BY <2>8, <3>1, <3>3, <4>1 DEF SingleChangeShows
    <3> QED BY <3>2, <3>3
  <2> QED BY <2>1, <2>3, <2>4, <2>5, <2>6, <2>7, <2>8 DEF Changed
<1> QED BY <1>1, TrailInvariant, PTL

(* Who knows the newest row_hash that was written, and verifies, knows that *)
(* the rows are as many as were written, hold what was hashed of them, and  *)
(* come in the same order; not that their ids and stamps are the same.      *)
THEOREM HeadPinsTrail == Spec => []HeadPinsHistory
<1>1. ASSUME TrailInv, verify_chain(rows)[1], LastHash(rows) = LastHash(written)
      PROVE  /\ Hashed(rows) = Hashed(written)
             /\ Cardinality(rows) = Cardinality(written)
             /\ SameOrder(rows, written)
  <2>1. Walk(rows).at = None
        BY <1>1 DEF verify_chain
  <2>2. ChainOk(rows) /\ Trail(rows) /\ Trail(written) /\ ChainOk(written)
        BY <1>1, <2>1, LoopOutcome DEF TrailInv
  <2>3. Cardinality(rows) = Cardinality(written)
        BY <1>1, <2>2, LengthCounts
  <2> QED BY <1>1, <2>2, <2>3, DigestPinsRows, DigestsOrder
<1> QED BY <1>1, TrailInvariant, PTL DEF HeadPinsHistory
=============================================================================
