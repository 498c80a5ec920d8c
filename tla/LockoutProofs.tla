--------------------------- MODULE LockoutProofs ---------------------------
(* Proofs about Lockout for any number of concurrent attempts and any       *)
(* limits.                                                                  *)
EXTENDS Lockout, TLAPS

(* A row, loaded or stored: its counter is below the limit and no more than *)
(* the failures there were, and its lock, if any, has its failures and its  *)
(* cause.                                                                   *)
Earned(r) ==
    /\ r.count < MaxFailed /\ r.count =< wrongs
    /\ r.until # 0 => /\ wrongs = MaxFailed
                      /\ lastWrong # 0 /\ r.until =< lastWrong + LockFor

(* An attempt that goes on to commit found no lock in force.                *)
Unlocked(t) == pc[t] = "commit" => seen[t].until =< stamp[t]

(* Who is turned away with the right password met a lock with a cause.      *)
TurnedAway(t) ==
    /\ pc[t] = "raised" => NaiveDates
    /\ right[t] /\ pc[t] = "denied" =>
          lastWrong # 0 /\ stamp[t] < lastWrong + LockFor

LockInv ==
    /\ TypeOK
    /\ Earned(row)
    /\ \A t \in Slots :
          /\ Earned(seen[t])
          /\ Unlocked(t)
          /\ TurnedAway(t)
          /\ stamp[t] =< now
          /\ pc[t] # "idle" => stamp[t] # 0
    /\ FailuresAreCounted

----------------------------------------------------------------------------
LEMMA MinOfTwo ==
    ASSUME NEW a \in Nat, NEW b \in Nat
    PROVE  Min({a, b}) = IF a =< b THEN a ELSE b
<1> DEFINE m == IF a =< b THEN a ELSE b
<1>1. m \in {a, b} /\ \A y \in {a, b} : m =< y
      OBVIOUS
<1>2. \A x \in {a, b} : (\A y \in {a, b} : x =< y) => x = m
      OBVIOUS
<1> QED BY <1>1, <1>2 DEF Min

LEMMA MaxOfTwo ==
    ASSUME NEW a \in Nat, NEW b \in Nat
    PROVE  Max({a, b}) = IF a >= b THEN a ELSE b
<1> DEFINE m == IF a >= b THEN a ELSE b
<1>1. m \in {a, b} /\ \A y \in {a, b} : m >= y
      OBVIOUS
<1>2. \A x \in {a, b} : (\A y \in {a, b} : x >= y) => x = m
      OBVIOUS
<1> QED BY <1>1, <1>2 DEF Max

LEMMA LockInit == Init => LockInv
BY LimitsArePositive, MaxClockIsNat
   DEF Init, LockInv, TypeOK, Rows, Earned, Unlocked, TurnedAway, FailuresAreCounted

(* What a commit that is carried out makes of the row: each column has the  *)
(* decided value or, if that is the loaded one, stays as it is.             *)
LEMMA StoreMerges ==
    ASSUME TypeOK, NEW t \in Slots, Store(t)
    PROVE  /\ row' \in Rows /\ Decide(t) \in Rows
           /\ row'.count = Merge(Decide(t).count, seen[t].count, row.count)
           /\ row'.until = Merge(Decide(t).until, seen[t].until, row.until)
           /\ clean' = (clean /\ seen[t] = row)
<1> USE LimitsArePositive
<1>1. row \in Rows /\ seen[t] \in Rows /\ stamp[t] \in Nat
      BY DEF TypeOK
<1>2. Decide(t) \in Rows
      BY <1>1 DEF Decide, Rows
<1>3. row' = [count |-> Merge(Decide(t).count, seen[t].count, row.count),
              until |-> Merge(Decide(t).until, seen[t].until, row.until)]
      BY DEF Store
<1>4. row' \in Rows
      BY <1>1, <1>2, <1>3 DEF Merge, Rows
<1> QED BY <1>2, <1>3, <1>4 DEF Store

(* The invariant's part about the row survives a commit, and so do the      *)
(* histories' types.                                                        *)
StoreKeeps ==
    /\ row' \in Rows /\ row'.count < MaxFailed
    /\ lastWrong' \in Nat /\ lastWrong =< lastWrong'
    /\ wrongs' \in 0..MaxFailed /\ wrongs =< wrongs'
    /\ streak' \in 0..MaxFailed
    /\ clean' \in BOOLEAN
    /\ Earned(row)'
    /\ FailuresAreCounted'

LEMMA StoreEffect ==
    ASSUME LockInv, NEW t \in Slots, pc[t] = "commit", Store(t)
    PROVE  StoreKeeps
<1> USE LimitsArePositive
<1>1. /\ row \in Rows /\ seen[t] \in Rows /\ stamp[t] \in Nat /\ stamp[t] # 0
      /\ lastWrong \in Nat /\ wrongs \in 0..MaxFailed /\ streak \in 0..MaxFailed
      /\ clean \in BOOLEAN /\ right[t] \in BOOLEAN
      /\ seen[t].until =< stamp[t]
      BY DEF LockInv, TypeOK, Unlocked
<1>2. Earned(row) /\ Earned(seen[t]) /\ FailuresAreCounted
      BY DEF LockInv
<1>3. /\ row.count \in Nat /\ row.until \in Nat
      /\ seen[t].count \in Nat /\ seen[t].until \in Nat
      BY <1>1 DEF Rows
<1>4. /\ row' \in Rows
      /\ row'.count = Merge(Decide(t).count, seen[t].count, row.count)
      /\ row'.until = Merge(Decide(t).until, seen[t].until, row.until)
      /\ clean' = (clean /\ seen[t] = row)
      BY StoreMerges DEF LockInv
<1> DEFINE Counted == row'.count = streak' /\ streak' < MaxFailed
<1>5. ASSUME clean /\ seen[t] = row => Counted
      PROVE  FailuresAreCounted'
  <2>1. clean' => clean /\ seen[t] = row
        BY <1>4
  <2> QED BY <1>5, <2>1 DEF FailuresAreCounted
<1>6. CASE right[t]
  <2>1. Decide(t).count = 0 /\ Decide(t).until = 0
        BY <1>6 DEF Decide
  <2>2. streak' = 0 /\ lastWrong' = lastWrong /\ wrongs' = wrongs
        BY <1>6 DEF Store
  <2>3. /\ row'.count \in {0, row.count} /\ row'.until \in {0, row.until}
        /\ seen[t] = row => row'.count = 0
        BY <1>4, <2>1 DEF Merge
  <2>4. Earned(row)'
        BY <1>1, <1>2, <1>3, <2>2, <2>3 DEF Earned
  <2>5. FailuresAreCounted'
        BY <1>5, <2>2, <2>3
  <2> QED BY <1>1, <1>4, <2>2, <2>4, <2>5 DEF Earned, StoreKeeps
<1>7. CASE ~right[t]
  <2>1. /\ streak' = IF row'.until # row.until THEN 0 ELSE Min({streak + 1, MaxFailed})
        /\ wrongs' = Min({wrongs + 1, MaxFailed})
        /\ lastWrong' = Max({lastWrong, stamp[t]})
        BY <1>7 DEF Store
  <2>2. wrongs' = (IF wrongs + 1 =< MaxFailed THEN wrongs + 1 ELSE MaxFailed)
        BY <1>1, <2>1, MinOfTwo
  <2>3. lastWrong' = (IF lastWrong >= stamp[t] THEN lastWrong ELSE stamp[t])
        BY <1>1, <2>1, MaxOfTwo
  <2>4. streak' = IF row'.until # row.until THEN 0
                  ELSE IF streak + 1 =< MaxFailed THEN streak + 1 ELSE MaxFailed
        BY <1>1, <2>1, MinOfTwo
  <2>5. Earned(row)' /\ FailuresAreCounted'
    <3>1. CASE seen[t].count + 1 >= MaxFailed
      <4>1. Decide(t).count = 0 /\ Decide(t).until = stamp[t] + LockFor
            BY <1>7, <3>1 DEF Decide
      <4>2. wrongs' = MaxFailed
            BY <1>1, <1>2, <1>3, <2>2, <3>1 DEF Earned
      <4>3. row'.until = stamp[t] + LockFor /\ row'.count \in {0, row.count}
            BY <1>1, <1>3, <1>4, <4>1 DEF Merge
      <4>4. seen[t] = row => row'.count = 0 /\ row'.until # row.until
            BY <1>1, <1>3, <1>4, <4>1, <4>3 DEF Merge
      <4>5. Earned(row)'
            BY <1>1, <1>2, <1>3, <2>3, <4>2, <4>3 DEF Earned
      <4>6. FailuresAreCounted'
            BY <1>5, <2>4, <4>4
      <4> QED BY <4>5, <4>6
    <3>2. CASE ~(seen[t].count + 1 >= MaxFailed)
      <4>1. Decide(t).count = seen[t].count + 1 /\ Decide(t).until = seen[t].until
            BY <1>1, <1>7, <3>2 DEF Decide, Rows
      <4>2. row'.until = row.until /\ row'.count = seen[t].count + 1
            BY <1>3, <1>4, <4>1 DEF Merge
      <4>3. Earned(row)'
            BY <1>1, <1>2, <1>3, <2>2, <2>3, <3>2, <4>2 DEF Earned
      <4>4. FailuresAreCounted'
        <5>1. clean /\ seen[t] = row => Counted
              BY <1>1, <1>2, <1>3, <2>4, <3>2, <4>2 DEF FailuresAreCounted
        <5> QED BY <1>5, <5>1
      <4> QED BY <4>3, <4>4
    <3> QED BY <3>1, <3>2
  <2>6. wrongs' \in 0..MaxFailed /\ wrongs =< wrongs' /\ streak' \in 0..MaxFailed
        BY <1>1, <2>2, <2>4
  <2>7. lastWrong' \in Nat /\ lastWrong =< lastWrong'
        BY <1>1, <2>3
  <2> QED BY <1>1, <1>4, <2>5, <2>6, <2>7 DEF Earned, StoreKeeps
<1> QED BY <1>1, <1>6, <1>7

----------------------------------------------------------------------------
(* Steps that leave the row and the histories alone.                        *)
LEMMA QuietStep ==
    ASSUME LockInv, UNCHANGED <<row, history>>,
           now' \in 1..(MaxClock + 1), now =< now',
           pc' \in [Slots -> {"idle", "load", "commit"} \cup Final],
           stamp' \in [Slots -> Nat], seen' \in [Slots -> Rows],
           right' \in [Slots -> BOOLEAN],
           \A t \in Slots : /\ Earned(seen'[t]) /\ stamp'[t] =< now'
                            /\ Unlocked(t)' /\ TurnedAway(t)'
                            /\ pc'[t] # "idle" => stamp'[t] # 0
    PROVE  LockInv'
<1>1. TypeOK' /\ Earned(row)' /\ FailuresAreCounted'
      BY DEF LockInv, TypeOK, Earned, FailuresAreCounted, history
<1>2. \A t \in Slots : Earned(seen[t])'
      BY DEF Earned, history
<1> QED BY <1>1, <1>2 DEF LockInv

(* Steps that carry a commit out and send the attempt to an outcome in      *)
(* which a right password was not turned away.                              *)
LEMMA StoreStep ==
    ASSUME LockInv, NEW t \in Slots, pc[t] = "commit", Store(t),
           NEW o \in Final \ {"raised"}, o = "denied" => ~right[t],
           pc' = [pc EXCEPT ![t] = o],
           UNCHANGED <<now, stamp, seen, right>>
    PROVE  LockInv'
<1>1. StoreKeeps
      BY StoreEffect
<1>2. TypeOK'
      BY <1>1 DEF StoreKeeps, LockInv, TypeOK, Final
<1>3. ASSUME NEW u \in Slots
      PROVE  /\ Earned(seen[u])' /\ Unlocked(u)' /\ TurnedAway(u)'
             /\ (stamp[u] =< now)' /\ (pc[u] # "idle" => stamp[u] # 0)'
  <2>1. /\ seen[u].until \in Nat /\ seen[u].count \in Nat /\ stamp[u] \in Nat
        /\ lastWrong \in Nat /\ lastWrong' \in Nat /\ lastWrong =< lastWrong'
        /\ wrongs \in 0..MaxFailed /\ wrongs' \in 0..MaxFailed /\ wrongs =< wrongs'
        BY <1>1 DEF StoreKeeps, LockInv, TypeOK, Rows
  <2>2. /\ Earned(seen[u]) /\ Unlocked(u) /\ TurnedAway(u) /\ stamp[u] =< now
        /\ pc[u] # "idle" => stamp[u] # 0
        BY DEF LockInv
  <2>3. Earned(seen[u])'
        BY <2>1, <2>2, LimitsArePositive DEF Earned
  <2>4. Unlocked(u)' /\ (pc[u] # "idle" => stamp[u] # 0)'
        BY <2>2 DEF Unlocked, LockInv, TypeOK, Final
  <2>5. TurnedAway(u)'
    <3>1. CASE u = t
          BY <3>1 DEF TurnedAway, LockInv, TypeOK
    <3>2. CASE u # t
          BY <2>1, <2>2, <3>2, LimitsArePositive DEF TurnedAway, LockInv, TypeOK
    <3> QED BY <3>1, <3>2
  <2> QED BY <2>2, <2>3, <2>4, <2>5
<1> QED BY <1>1, <1>2, <1>3 DEF StoreKeeps, LockInv

LEMMA LockStep == LockInv /\ [Next]_vars => LockInv'
<1> SUFFICES ASSUME LockInv, [Next]_vars PROVE LockInv'
    OBVIOUS
<1> USE LimitsArePositive
<1>1. ASSUME NEW t \in Slots, Start(t) PROVE LockInv'
      BY <1>1, QuietStep
      DEF Start, LockInv, TypeOK, Unlocked, TurnedAway, Final, history
<1>2. ASSUME NEW t \in Slots, Load(t) PROVE LockInv'
  <2>1. /\ row \in Rows /\ stamp[t] \in Nat /\ lastWrong \in Nat
        /\ Earned(row) /\ stamp[t] =< now /\ stamp[t] # 0
        BY <1>2 DEF Load, LockInv, TypeOK
  <2>2. Judge(t, row) \in {"raised", "denied", "commit"}
        BY DEF Judge
  <2>3. /\ Judge(t, row) = "raised" => NaiveDates
        /\ Judge(t, row) = "denied" =>
              lastWrong # 0 /\ stamp[t] < lastWrong + LockFor
        /\ Judge(t, row) = "commit" => row.until =< stamp[t]
        BY <2>1 DEF Judge, LockedAt, Earned, Rows
  <2> HIDE DEF Judge
  <2>4. ASSUME NEW u \in Slots
        PROVE  Earned(seen'[u]) /\ Unlocked(u)' /\ TurnedAway(u)'
        BY <1>2, <2>1, <2>2, <2>3
        DEF Load, LockInv, TypeOK, Unlocked, TurnedAway, Final, history
  <2> QED BY <1>2, <2>1, <2>2, <2>4, QuietStep
          DEF Load, LockInv, TypeOK, Final, history
<1>3. ASSUME NEW t \in Slots, Commit(t) PROVE LockInv'
  <2>1. CASE right[t]
        BY <1>3, <2>1, StoreStep DEF Commit, Final
  <2>2. CASE ~right[t]
        BY <1>3, <2>2, StoreStep DEF Commit, Final
  <2> QED BY <2>1, <2>2
<1>4. ASSUME NEW t \in Slots, Fail(t) PROVE LockInv'
  <2>1. CASE UNCHANGED <<row, history>>
        BY <1>4, <2>1, QuietStep
        DEF Fail, LockInv, TypeOK, Unlocked, TurnedAway, Final, history
  <2>2. CASE pc[t] = "commit" /\ Store(t)
        BY <1>4, <2>2, StoreStep DEF Fail, Final
  <2> QED BY <1>4, <2>1, <2>2 DEF Fail
<1>5. CASE Tick
      BY <1>5, QuietStep, MaxClockIsNat
      DEF Tick, LockInv, TypeOK, Unlocked, TurnedAway, history
<1>6. CASE UNCHANGED vars
      BY <1>6, QuietStep
      DEF vars, LockInv, TypeOK, Unlocked, TurnedAway, history
<1> QED BY <1>1, <1>2, <1>3, <1>4, <1>5, <1>6 DEF Next

LEMMA LockInvariant == Spec => []LockInv
BY LockInit, LockStep, PTL DEF Spec

----------------------------------------------------------------------------
(* Every variable keeps to its type, and a stored counter is below the      *)
(* limit.                                                                   *)
THEOREM TypeCorrect == Spec => []TypeOK
<1>1. LockInv => TypeOK
      BY DEF LockInv
<1> QED BY <1>1, LockInvariant, PTL

(* Without a lost update the counter authenticate keeps is exact, and       *)
(* MaxFailed wrong passwords in a row lock the account.                     *)
THEOREM CountIsExact == Spec => []FailuresAreCounted
<1>1. LockInv => FailuresAreCounted
      BY DEF LockInv
<1> QED BY <1>1, LockInvariant, PTL

(* However many attempts overlap and lose each other's updates, no account  *)
(* is locked before it has had MaxFailed wrong passwords.                   *)
THEOREM LocksAreEarned == Spec => []NoLockWithoutFailures
<1>1. LockInv => NoLockWithoutFailures
      BY DEF LockInv, Earned, NoLockWithoutFailures
<1> QED BY <1>1, LockInvariant, PTL

(* On a database that keeps the timezone, a right password is turned away   *)
(* only within LockFor of the arrival of a wrong one.                       *)
THEOREM LocksExpire ==
    ASSUME NaiveDates = FALSE PROVE Spec => []LockIsTemporary
<1>1. LockInv => LockIsTemporary
      BY DEF LockInv, TurnedAway, LockIsTemporary
<1> QED BY <1>1, LockInvariant, PTL

(* While a lock is in force, only an attempt that loaded the row before it  *)
(* was set gets in, or lifts or shortens it.                                *)
THEOREM LocksAreRespected == Spec => LockHolds
<1> DEFINE A == \A t \in Slots : LockedAt(row, now) /\ Returns(t) /\ EntersOrLifts(t)
                                 => seen[t] # row
<1>1. ASSUME LockInv, NEW t \in Slots, LockedAt(row, now), Returns(t)
      PROVE  seen[t] # row
      BY <1>1 DEF LockInv, TypeOK, Rows, LockedAt, Returns, Unlocked
<1>2. LockInv /\ [Next]_vars => [A]_vars
      BY <1>1
<1> QED BY <1>2, LockInvariant, PTL DEF Spec, LockHolds
=============================================================================
