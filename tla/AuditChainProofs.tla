------------------------- MODULE AuditChainProofs -------------------------
(* Proofs about AuditChain for any set of requests, workers and bodies.     *)
EXTENDS AuditChain, HashChainTheorems

(* The digest t read is the empty one or that of a committed row; once t's  *)
(* row has an id, the parent's id is below it.                              *)
Parent(t, top) ==
    prev[t] = NoHash \/ \E o \in rows : o.hash = prev[t] /\ o.id < top

InFlight == {"commit", "lost"}      \* flushed, and its commit may yet come

ParentsCommitted ==
    \A t \in Requests :
        /\ pc[t] = "insert" => Parent(t, nextId)
        /\ pc[t] \in InFlight => Parent(t, ident[t])

(* The sequence is ahead of every id given out.                             *)
IdsBelowNext ==
    /\ \A r \in rows : r.id < nextId
    /\ \A t \in Requests : ident[t] < nextId

(* A flushed row has an id of its own, which is not in the table before its *)
(* commit and names that very row after it.                                 *)
IdsAreOwn ==
    /\ \A t \in Requests :
          /\ pc[t] \in InFlight \cup {"committed", "done"} => ident[t] # 0
          /\ pc[t] \in InFlight => \A r \in rows : r.id # ident[t]
          /\ pc[t] \in {"committed", "done"} =>
                {r \in rows : r.id = ident[t]} = {RowOf(t)}
    /\ \A t, u \in Requests :
          ident[t] = ident[u] /\ ident[t] # 0 => t = u

(* id is the primary key of audit_logs.                                     *)
IdsAreKeys == \A r, o \in rows : r.id = o.id => r = o

ChainInv ==
    /\ TypeOK
    /\ LockMatchesHolder
    /\ LinksPointBack
    /\ ParentsCommitted
    /\ IdsBelowNext
    /\ IdsAreOwn
    /\ IdsAreKeys

----------------------------------------------------------------------------
(* The digest on top of which a request chains is empty or a committed one. *)
LEMMA LastHashIsCommitted ==
    ASSUME NEW S
    PROVE  LastHash(S) = NoHash \/ \E o \in S : o.hash = LastHash(S)
BY DEF LastHash, Newest

LEMMA HashTypes ==
    /\ NoHash \in Hash
    /\ \A h \in Hash, b \in Bodies : HashBody(h, b) \in Hash
BY DEF NoHash, Hash, HashBody

LEMMA LastHashType ==
    ASSUME NEW S, S \subseteq AuditRow
    PROVE  LastHash(S) \in Hash
BY LastHashIsCommitted, HashTypes DEF AuditRow

(* The row of a flushed request is a row of the table's type.               *)
LEMMA RowOfType ==
    ASSUME TypeOK, NEW t \in Requests
    PROVE  /\ RowOf(t) \in AuditRow
           /\ RowOf(t).id = ident[t]
           /\ RowOf(t).prev = prev[t]
           /\ RowOf(t).hash = HashBody(prev[t], BodyOf[t])
BY HashTypes, BodyOfType DEF TypeOK, RowOf, NewRow, AuditRow

----------------------------------------------------------------------------
LEMMA TypeInit == Init => TypeOK
BY HashTypes DEF Init, TypeOK, Open, Holding, Finished, AuditRow

LEMMA TypeStep == TypeOK /\ [Next]_vars => TypeOK'
<1> SUFFICES ASSUME TypeOK, [Next]_vars PROVE TypeOK'
    OBVIOUS
<1> USE WorkerOfType DEF TypeOK, Goto, Open, Holding, Finished
<1>1. ASSUME NEW t \in Requests, Acquire(t) PROVE TypeOK'
      BY <1>1 DEF Acquire, Runs
<1>2. ASSUME NEW t \in Requests, Block(t) PROVE TypeOK'
      BY <1>2 DEF Block, Runs
<1>3. ASSUME NEW t \in Requests, ReadLast(t) PROVE TypeOK'
      BY <1>3, LastHashType DEF ReadLast, Runs
<1>4. ASSUME NEW t \in Requests, Flush(t) PROVE TypeOK'
      BY <1>4 DEF Flush, Runs
<1>5. ASSUME NEW t \in Requests, Commit(t) PROVE TypeOK'
      BY <1>5, RowOfType DEF Commit
<1>6. ASSUME NEW t \in Requests, Respond(t) PROVE TypeOK'
      BY <1>6 DEF Respond, Runs
<1>7. ASSUME NEW t \in Requests, Fail(t) PROVE TypeOK'
      BY <1>7 DEF Fail, Runs, Abort
<1>8. ASSUME NEW t \in Requests, LateCommit(t) PROVE TypeOK'
      BY <1>8, RowOfType DEF LateCommit
<1>9. ASSUME NEW w \in Workers, Crash(w) PROVE TypeOK'
      BY <1>9 DEF Crash, Hit, Abort
<1>10. CASE UNCHANGED vars
      BY <1>10 DEF vars
<1> QED BY <1>1, <1>2, <1>3, <1>4, <1>5, <1>6, <1>7, <1>8, <1>9, <1>10 DEF Next

(* Every variable keeps to its type.                                        *)
THEOREM TypeCorrect == Spec => []TypeOK
BY TypeInit, TypeStep, PTL DEF Spec

----------------------------------------------------------------------------
LEMMA LockInit == Init => LockMatchesHolder
BY NoRequestIsNone DEF Init, LockMatchesHolder, Holding

LEMMA LockStep == TypeOK /\ LockMatchesHolder /\ [Next]_vars => LockMatchesHolder'
<1> SUFFICES ASSUME TypeOK, LockMatchesHolder, [Next]_vars PROVE LockMatchesHolder'
    OBVIOUS
<1> USE WorkerOfType, NoRequestIsNone
    DEF TypeOK, LockMatchesHolder, Goto, Holding, Open, Finished
<1>1. ASSUME NEW t \in Requests, Acquire(t) PROVE LockMatchesHolder'
      BY <1>1 DEF Acquire, Runs
<1>2. ASSUME NEW t \in Requests, Block(t) PROVE LockMatchesHolder'
      BY <1>2 DEF Block, Runs
<1>3. ASSUME NEW t \in Requests, ReadLast(t) PROVE LockMatchesHolder'
      BY <1>3 DEF ReadLast, Runs
<1>4. ASSUME NEW t \in Requests, Flush(t) PROVE LockMatchesHolder'
      BY <1>4 DEF Flush, Runs
<1>5. ASSUME NEW t \in Requests, Commit(t) PROVE LockMatchesHolder'
      BY <1>5 DEF Commit
<1>6. ASSUME NEW t \in Requests, Respond(t) PROVE LockMatchesHolder'
      BY <1>6 DEF Respond, Runs
<1>7. ASSUME NEW t \in Requests, Fail(t) PROVE LockMatchesHolder'
      BY <1>7 DEF Fail, Runs, Abort
<1>8. ASSUME NEW t \in Requests, LateCommit(t) PROVE LockMatchesHolder'
      BY <1>8 DEF LateCommit
<1>9. ASSUME NEW w \in Workers, Crash(w) PROVE LockMatchesHolder'
      BY <1>9 DEF Crash, Hit, Abort
<1>10. CASE UNCHANGED vars
      BY <1>10 DEF vars
<1> QED BY <1>1, <1>2, <1>3, <1>4, <1>5, <1>6, <1>7, <1>8, <1>9, <1>10 DEF Next

(* The lock of a worker is held by exactly the request that is inside       *)
(* write_audit there: two requests of one worker are never inside together, *)
(* and no failure or restart leaves the lock taken.                         *)
THEOREM LockIsFaithful == Spec => []LockMatchesHolder
<1>1. Init => TypeOK /\ LockMatchesHolder
      BY TypeInit, LockInit
<1>2. TypeOK /\ LockMatchesHolder /\ [Next]_vars => (TypeOK /\ LockMatchesHolder)'
      BY TypeStep, LockStep
<1> QED BY <1>1, <1>2, PTL DEF Spec

----------------------------------------------------------------------------
(* Conjuncts of ChainInv that a step may disturb, one lemma each.           *)
LEMMA ChainInit == Init => ChainInv
<1> SUFFICES ASSUME Init PROVE ChainInv
    OBVIOUS
<1>1. TypeOK /\ LockMatchesHolder
      BY TypeInit, LockInit
<1>2. LinksPointBack
      BY DEF Init, LinksPointBack
<1>3. ParentsCommitted
      BY DEF Init, ParentsCommitted, InFlight
<1>4. IdsBelowNext /\ IdsAreOwn /\ IdsAreKeys
      BY DEF Init, IdsBelowNext, IdsAreOwn, InFlight, IdsAreKeys
<1> QED BY <1>1, <1>2, <1>3, <1>4 DEF ChainInv

(* A request whose commit may come joins a row that extends a committed     *)
(* one: the table stays a forest.                                           *)
LEMMA JoinsForest ==
    ASSUME ChainInv, NEW t \in Requests, pc[t] \in InFlight
    PROVE  LET n == RowOf(t)
           IN  /\ n \in AuditRow
               /\ \A o \in rows : o.id # n.id
               /\ n.hash = HashBody(n.prev, n.body)
               /\ n.prev = NoHash \/ \E o \in rows : o.hash = n.prev /\ o.id < n.id
<1>1. RowOf(t) \in AuditRow /\ RowOf(t).id = ident[t] /\ RowOf(t).prev = prev[t]
      BY RowOfType DEF ChainInv
<1>2. RowOf(t).hash = HashBody(RowOf(t).prev, RowOf(t).body)
      BY DEF RowOf, NewRow
<1> QED BY <1>1, <1>2 DEF ChainInv, ParentsCommitted, Parent, IdsAreOwn

(* What the steps do to the table and to the flushed rows.                  *)
LEMMA RowsGrow ==
    ASSUME ChainInv, [Next]_vars
    PROVE  \/ rows' = rows
           \/ \E t \in Requests : /\ pc[t] \in InFlight
                                  /\ rows' = rows \cup {RowOf(t)}
BY DEF Next, vars, Acquire, Block, ReadLast, Flush, Commit, Respond, Fail,
       LateCommit, Crash, InFlight

LEMMA LinksStep == ChainInv /\ [Next]_vars => LinksPointBack'
<1> SUFFICES ASSUME ChainInv, [Next]_vars PROVE LinksPointBack'
    OBVIOUS
<1>1. CASE rows' = rows
      BY <1>1 DEF ChainInv, LinksPointBack
<1>2. ASSUME NEW t \in Requests, pc[t] \in InFlight, rows' = rows \cup {RowOf(t)}
      PROVE  LinksPointBack'
      BY <1>2, JoinsForest DEF ChainInv, LinksPointBack
<1> QED BY <1>1, <1>2, RowsGrow

LEMMA KeysStep == ChainInv /\ [Next]_vars => IdsAreKeys'
<1> SUFFICES ASSUME ChainInv, [Next]_vars PROVE IdsAreKeys'
    OBVIOUS
<1>1. CASE rows' = rows
      BY <1>1 DEF ChainInv, IdsAreKeys
<1>2. ASSUME NEW t \in Requests, pc[t] \in InFlight, rows' = rows \cup {RowOf(t)}
      PROVE  IdsAreKeys'
      BY <1>2, JoinsForest DEF ChainInv, IdsAreKeys
<1> QED BY <1>1, <1>2, RowsGrow

LEMMA IdsStep == ChainInv /\ [Next]_vars => IdsBelowNext'
<1> SUFFICES ASSUME ChainInv, [Next]_vars PROVE IdsBelowNext'
    OBVIOUS
<1> USE WorkerOfType DEF ChainInv, TypeOK, IdsBelowNext, Goto
<1>1. ASSUME NEW t \in Requests, Acquire(t) PROVE IdsBelowNext'
      BY <1>1 DEF Acquire, Runs
<1>2. ASSUME NEW t \in Requests, Block(t) PROVE IdsBelowNext'
      BY <1>2 DEF Block, Runs
<1>3. ASSUME NEW t \in Requests, ReadLast(t) PROVE IdsBelowNext'
      BY <1>3, LastHashIsCommitted DEF ReadLast, Runs
<1>4. ASSUME NEW t \in Requests, Flush(t) PROVE IdsBelowNext'
  <2>1. nextId \in Nat /\ nextId' = nextId + 1 /\ rows' = rows
        BY <1>4 DEF Flush
  <2>2. \A r \in rows' : r.id < nextId'
        BY <2>1 DEF AuditRow
  <2>3. \A u \in Requests : ident'[u] < nextId'
        BY <1>4, <2>1 DEF Flush
  <2> QED BY <2>2, <2>3
<1>5. ASSUME NEW t \in Requests, Commit(t) PROVE IdsBelowNext'
      BY <1>5, RowOfType DEF Commit
<1>6. ASSUME NEW t \in Requests, Respond(t) PROVE IdsBelowNext'
      BY <1>6 DEF Respond, Runs
<1>7. ASSUME NEW t \in Requests, Fail(t) PROVE IdsBelowNext'
      BY <1>7 DEF Fail, Runs, Abort
<1>8. ASSUME NEW t \in Requests, LateCommit(t) PROVE IdsBelowNext'
      BY <1>8, RowOfType DEF LateCommit
<1>9. ASSUME NEW w \in Workers, Crash(w) PROVE IdsBelowNext'
      BY <1>9 DEF Crash, Hit, Abort
<1>10. CASE UNCHANGED vars
      BY <1>10 DEF vars, RowOf
<1> QED BY <1>1, <1>2, <1>3, <1>4, <1>5, <1>6, <1>7, <1>8, <1>9, <1>10 DEF Next

LEMMA ParentsStep == ChainInv /\ [Next]_vars => ParentsCommitted'
<1> SUFFICES ASSUME ChainInv, [Next]_vars PROVE ParentsCommitted'
    OBVIOUS
<1> USE WorkerOfType DEF ChainInv, TypeOK, IdsBelowNext, ParentsCommitted, Parent, InFlight, Goto
<1>1. ASSUME NEW t \in Requests, Acquire(t) PROVE ParentsCommitted'
      BY <1>1 DEF Acquire, Runs
<1>2. ASSUME NEW t \in Requests, Block(t) PROVE ParentsCommitted'
      BY <1>2 DEF Block, Runs
<1>3. ASSUME NEW t \in Requests, ReadLast(t) PROVE ParentsCommitted'
      BY <1>3, LastHashIsCommitted DEF ReadLast, Runs
<1>4. ASSUME NEW t \in Requests, Flush(t) PROVE ParentsCommitted'
  <2>1. /\ pc[t] = "insert" /\ pc' = [pc EXCEPT ![t] = "commit"]
        /\ ident' = [ident EXCEPT ![t] = nextId] /\ nextId' = nextId + 1
        /\ prev' = prev /\ rows' = rows
        BY <1>4 DEF Flush, Runs
  <2>2. \A o \in rows : o.id < nextId => o.id < nextId + 1
        BY DEF AuditRow
  <2> SUFFICES ASSUME NEW u \in Requests
               PROVE  /\ pc'[u] = "insert" => Parent(u, nextId)'
                      /\ pc'[u] \in InFlight => Parent(u, ident[u])'
      BY DEF ParentsCommitted
  <2>3. CASE u = t
        BY <2>1, <2>3
  <2>4. CASE u # t
        BY <2>1, <2>2, <2>4
  <2> QED BY <2>3, <2>4
<1>5. ASSUME NEW t \in Requests, Commit(t) PROVE ParentsCommitted'
      BY <1>5, RowOfType DEF Commit
<1>6. ASSUME NEW t \in Requests, Respond(t) PROVE ParentsCommitted'
      BY <1>6 DEF Respond, Runs
<1>7. ASSUME NEW t \in Requests, Fail(t) PROVE ParentsCommitted'
      BY <1>7 DEF Fail, Runs, Abort
<1>8. ASSUME NEW t \in Requests, LateCommit(t) PROVE ParentsCommitted'
      BY <1>8, RowOfType DEF LateCommit
<1>9. ASSUME NEW w \in Workers, Crash(w) PROVE ParentsCommitted'
      BY <1>9 DEF Crash, Hit, Abort
<1>10. CASE UNCHANGED vars
      BY <1>10 DEF vars, RowOf
<1> QED BY <1>1, <1>2, <1>3, <1>4, <1>5, <1>6, <1>7, <1>8, <1>9, <1>10 DEF Next

LEMMA OwnStep == ChainInv /\ [Next]_vars => IdsAreOwn'
<1> SUFFICES ASSUME ChainInv, [Next]_vars PROVE IdsAreOwn'
    OBVIOUS
<1> USE WorkerOfType DEF ChainInv, TypeOK, IdsBelowNext, IdsAreOwn, InFlight, Goto, RowOf
<1>1. ASSUME NEW t \in Requests, Acquire(t) PROVE IdsAreOwn'
      BY <1>1 DEF Acquire, Runs
<1>2. ASSUME NEW t \in Requests, Block(t) PROVE IdsAreOwn'
      BY <1>2 DEF Block, Runs
<1>3. ASSUME NEW t \in Requests, ReadLast(t) PROVE IdsAreOwn'
      BY <1>3, LastHashIsCommitted DEF ReadLast, Runs
<1>4. ASSUME NEW t \in Requests, Flush(t) PROVE IdsAreOwn'
      BY <1>4 DEF Flush, Runs
<1>5. ASSUME NEW t \in Requests, Commit(t) PROVE IdsAreOwn'
      BY <1>5, RowOfType DEF Commit
<1>6. ASSUME NEW t \in Requests, Respond(t) PROVE IdsAreOwn'
      BY <1>6 DEF Respond, Runs
<1>7. ASSUME NEW t \in Requests, Fail(t) PROVE IdsAreOwn'
      BY <1>7 DEF Fail, Runs, Abort
<1>8. ASSUME NEW t \in Requests, LateCommit(t) PROVE IdsAreOwn'
      BY <1>8, RowOfType DEF LateCommit
<1>9. ASSUME NEW w \in Workers, Crash(w) PROVE IdsAreOwn'
      BY <1>9 DEF Crash, Hit, Abort
<1>10. CASE UNCHANGED vars
      BY <1>10 DEF vars, RowOf
<1> QED BY <1>1, <1>2, <1>3, <1>4, <1>5, <1>6, <1>7, <1>8, <1>9, <1>10 DEF Next

LEMMA ChainStep == ChainInv /\ [Next]_vars => ChainInv'
BY TypeStep, LockStep, LinksStep, IdsStep, ParentsStep, OwnStep, KeysStep DEF ChainInv

LEMMA ChainInvariant == Spec => []ChainInv
BY ChainInit, ChainStep, PTL DEF Spec

(* Every committed row extends the empty digest or an earlier committed row *)
(* whatever requests overlap, fail or lose their worker.                    *)
THEOREM LinksAlwaysPointBack == Spec => []LinksPointBack
BY ChainInvariant, PTL DEF ChainInv

(* An answered request has exactly its own row under its id.                *)
THEOREM AnswersAreAudited == Spec => []AnsweredIsAudited
<1>1. ChainInv => AnsweredIsAudited
      BY DEF ChainInv, IdsAreOwn, AnsweredIsAudited
<1> QED BY <1>1, ChainInvariant, PTL

----------------------------------------------------------------------------
LEMMA ForestInit == Init => Forest!Init
BY DEF Init, Forest!Init

LEMMA ForestStep == ChainInv /\ [Next]_vars => [Forest!Grow]_rows
<1> SUFFICES ASSUME ChainInv, [Next]_vars PROVE [Forest!Grow]_rows
    OBVIOUS
<1>1. ASSUME NEW t \in Requests, pc[t] \in InFlight, rows' = rows \cup {RowOf(t)}
      PROVE  Forest!Grow
  <2>1. RowOf(t) \in rows' \ rows
        BY <1>1, JoinsForest
  <2>2. /\ Forest!AuditRow = AuditRow /\ Forest!NoHash = NoHash
        /\ \A p, b : Forest!HashBody(p, b) = HashBody(p, b)
        BY DEF Forest!AuditRow, AuditRow, Forest!Hash, Hash, Forest!NoHash, NoHash,
               Forest!HashBody, HashBody
  <2> QED BY <1>1, <2>1, <2>2, JoinsForest DEF Forest!Grow, Forest!Rooted
<1> QED BY <1>1, RowsGrow

(* write_audit under any interleaving, failure and restart implements the   *)
(* grow-only forest: no row is changed, removed or left without its parent. *)
THEOREM ImplementsForest == Spec => ForestSpec
<1>1. Init => Forest!Init
      BY ForestInit
<1>2. ChainInv /\ [Next]_vars => [Forest!Grow]_rows
      BY ForestStep
<1> QED BY <1>1, <1>2, ChainInvariant, PTL DEF Spec, ForestSpec, Forest!Spec

----------------------------------------------------------------------------
LEMMA RowsAreTable == ChainInv => Table(rows)
BY DEF ChainInv, TypeOK, IdsBelowNext, IdsAreKeys, Table, AuditRow

(* A row whose parent is still the last row keeps the chain unbroken.       *)
LEMMA FreshCommitKeepsChain ==
    ASSUME ChainInv, ChainOk(rows), NEW t \in Requests, pc[t] \in InFlight,
           prev[t] = LastHash(rows)
    PROVE  ChainOk(rows \cup {RowOf(t)})
<1>1. /\ RowOf(t) \in AuditRow /\ RowOf(t).id = ident[t]
      /\ RowOf(t).prev = prev[t] /\ ident[t] \in Nat
      BY RowOfType DEF ChainInv, TypeOK
<1>2. \A o \in rows : o.id < ident[t]
      BY <1>1, RowsAreTable, JoinsForest, LastDigestIsFresh
<1> QED BY <1>1, <1>2, RowsAreTable, JoinsForest, ExtendsChain

LEMMA BreakStep ==
    ChainInv /\ [Next]_vars
        => (ChainOk(rows) /\ ~ChainOk(rows') => \E t \in Requests : StaleCommit(t))
<1> SUFFICES ASSUME ChainInv, [Next]_vars, ChainOk(rows), ~ChainOk(rows')
             PROVE  \E t \in Requests : StaleCommit(t)
    OBVIOUS
<1>1. PICK t \in Requests : pc[t] \in InFlight /\ rows' = rows \cup {RowOf(t)}
      BY RowsGrow
<1> QED BY <1>1, FreshCommitKeepsChain DEF StaleCommit, InFlight

(* verify_chain can turn from ok to broken only at the commit of a row      *)
(* whose prev_hash is no longer the last one: serialising the read with the *)
(* commit is all it would take to keep the trail a chain.                   *)
THEOREM OnlyStaleReadsBreak == Spec => BreaksOnlyByStaleRead
<1>1. ChainInv /\ [Next]_vars
        => [ChainOk(rows) /\ ~ChainOk(rows') => \E t \in Requests : StaleCommit(t)]_vars
      BY BreakStep
<1> QED BY <1>1, ChainInvariant, PTL DEF Spec, BreaksOnlyByStaleRead
=============================================================================
