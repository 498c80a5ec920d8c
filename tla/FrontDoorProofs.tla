-------------------------- MODULE FrontDoorProofs --------------------------
(* Proofs about RateLimiter, for any keys, rates and clocks, and about      *)
(* FrontDoor, for any requests, sizes and workers.                          *)
EXTENDS FrontDoor, FiniteSetTheorems, SequenceTheorems, WellFoundedInduction, TLAPS

(* Hits that were forgotten are the oldest ones, and while the clock is     *)
(* steady none of them is within the window.                                *)
EndOf(k, dq) ==
    \E dropped \in Nat :
        /\ Len(log[k]) = dropped + Len(dq)
        /\ \A i \in 1..Len(dq) : dq[i] = log[k][dropped + i]
        /\ steady => \A i \in 1..dropped : log[k][i] + Window[k] < now

Kept(k) == EndOf(k, hits[k])

InOrder(k) ==
    /\ \A i, j \in 1..Len(log[k]) : i =< j => log[k][i] =< log[k][j]
    /\ \A i \in 1..Len(log[k]) : log[k][i] =< now

(* A request and the one that comes Limit[k] later are further apart than   *)
(* the window: what makes LimitHolds inductive.                             *)
Spread(k) ==
    \A i, j \in 1..Len(log[k]) : j = i + Limit[k] => log[k][i] + Window[k] < log[k][j]

FullWhenRefused(k) ==
    answer[k].code = 429 =>
        Passed(k, Max({0, answer[k].at - Window[k]}), answer[k].at) >= Limit[k]

HitBeforeRefusal(k) ==
    Limit[k] > 0 /\ answer[k].code = 429 =>
        \E i \in 1..Len(log[k]) : log[k][i] + Window[k] >= answer[k].at

KeyInv(k) ==
    /\ Len(hits[k]) =< Limit[k]
    /\ Kept(k)
    /\ steady => InOrder(k) /\ Spread(k) /\ FullWhenRefused(k)
    /\ HitBeforeRefusal(k)

LimiterTypes ==
    /\ now \in 0..MaxClock
    /\ hits \in [Keys -> Seq(Nat)]
    /\ log \in [Keys -> Seq(Nat)]
    /\ answer \in [Keys -> [code : {0, 200, 429}, at : Nat]]
    /\ steady \in BOOLEAN

LimiterInv == LimiterTypes /\ \A k \in Keys : KeyInv(k)

----------------------------------------------------------------------------
LEMMA LeastNat ==
    ASSUME NEW T \in SUBSET Nat, T # {}
    PROVE  \E m \in T : \A k \in T : m =< k
<1>1. PICK m \in T : \A k \in T : <<k, m>> \notin OpToRel(<, Nat)
      BY WFMin, NatLessThanWellFounded, Zenon
<1>2. \A k \in T : ~(k < m)
      BY <1>1, Zenon DEF OpToRel
<1> QED BY <1>2

LEMMA RateTypes == \A k \in Keys : Limit[k] \in Nat /\ Window[k] \in Nat
BY RatesAreNat

LEMMA Suffix ==
    ASSUME NEW s \in Seq(Nat), NEW n \in 0..Len(s)
    PROVE  /\ SubSeq(s, n + 1, Len(s)) \in Seq(Nat)
           /\ Len(SubSeq(s, n + 1, Len(s))) = Len(s) - n
           /\ \A i \in 1..(Len(s) - n) : SubSeq(s, n + 1, Len(s))[i] = s[n + i]
<1>1. \A i \in (n + 1)..Len(s) : s[i] \in Nat
      OBVIOUS
<1>2. /\ SubSeq(s, n + 1, Len(s)) \in Seq(Nat)
      /\ Len(SubSeq(s, n + 1, Len(s))) = IF n + 1 =< Len(s) THEN Len(s) - (n + 1) + 1 ELSE 0
      /\ \A i \in 1..(Len(s) - (n + 1) + 1) :
            SubSeq(s, n + 1, Len(s))[i] = s[(n + 1) + i - 1]
      BY <1>1, SubSeqProperties
<1>3. \A i \in Int : (n + 1) + i - 1 = n + i
      OBVIOUS
<1> QED BY <1>2, <1>3

(* popleft() as long as the head is too old: what is left starts with a hit *)
(* that is not, and everything before it was.                               *)
LEMMA PruneDrops ==
    ASSUME NEW k \in Keys, NEW dq \in Seq(Nat)
    PROVE  \E n \in 0..Len(dq) :
              /\ Prune(k, dq) = SubSeq(dq, n + 1, Len(dq))
              /\ \A i \in 1..n : dq[i] + Window[k] < now
              /\ n < Len(dq) => ~(dq[n + 1] + Window[k] < now)
<1> DEFINE old  == {i \in 1..Len(dq) : dq[i] + Window[k] < now}
           gone == CHOOSE n \in 0..Len(dq) : 1..n \subseteq old /\ (n + 1) \notin old
           rest == {n \in 0..Len(dq) : (n + 1) \notin old}
<1>1. Len(dq) \in Nat
      OBVIOUS
<1>2. rest \in SUBSET Nat /\ Len(dq) \in rest
      BY <1>1
<1>3. PICK m \in rest : \A n \in rest : m =< n
  <2> HIDE DEF rest
  <2> QED BY <1>2, LeastNat
<1>4. 1..m \subseteq old
  <2> SUFFICES ASSUME NEW i \in 1..m PROVE i \in old
      OBVIOUS
  <2>1. i - 1 \in 0..Len(dq) /\ i - 1 < m
        BY <1>1, <1>3
  <2>2. i - 1 \notin rest
    <3> HIDE DEF rest
    <3> QED BY <1>2, <1>3, <2>1
  <2>3. (i - 1) + 1 \in old /\ (i - 1) + 1 = i
    <3> HIDE DEF old
    <3> QED BY <2>1, <2>2
  <2> QED BY <2>3
<1>5. m \in 0..Len(dq) /\ (m + 1) \notin old
      BY <1>3
<1>6. gone \in 0..Len(dq) /\ 1..gone \subseteq old /\ (gone + 1) \notin old
  <2> HIDE DEF old
  <2> QED BY <1>4, <1>5
<1>7. Prune(k, dq) = SubSeq(dq, gone + 1, Len(dq))
      BY DEF Prune
<1> HIDE DEF gone
<1>8. \A i \in 1..gone : dq[i] + Window[k] < now
      BY <1>6
<1>9. gone < Len(dq) => ~(dq[gone + 1] + Window[k] < now)
  <2>1. gone < Len(dq) => gone + 1 \in 1..Len(dq)
        BY <1>1, <1>6
  <2> QED BY <1>6, <2>1
<1> HIDE DEF old
<1> QED BY <1>6, <1>7, <1>8, <1>9

LEMMA PruneKeeps ==
    ASSUME LimiterInv, NEW k \in Keys
    PROVE  /\ Prune(k, hits[k]) \in Seq(Nat)
           /\ Len(Prune(k, hits[k])) =< Len(hits[k])
           /\ EndOf(k, Prune(k, hits[k]))
           /\ Len(Prune(k, hits[k])) > 0 => Prune(k, hits[k])[1] + Window[k] >= now
<1>1. /\ hits[k] \in Seq(Nat) /\ log[k] \in Seq(Nat) /\ now \in Nat /\ Window[k] \in Nat
      /\ Kept(k)
      BY RateTypes, BoundsAreNat DEF LimiterInv, LimiterTypes, KeyInv
<1>2. PICK n \in 0..Len(hits[k]) :
         /\ Prune(k, hits[k]) = SubSeq(hits[k], n + 1, Len(hits[k]))
         /\ \A i \in 1..n : hits[k][i] + Window[k] < now
         /\ n < Len(hits[k]) => ~(hits[k][n + 1] + Window[k] < now)
      BY <1>1, PruneDrops
<1>3. PICK dq : dq = Prune(k, hits[k])
      OBVIOUS
<1>4. /\ dq \in Seq(Nat)
      /\ Len(dq) = Len(hits[k]) - n
      /\ \A i \in 1..(Len(hits[k]) - n) : dq[i] = hits[k][n + i]
  <2>1. hits[k] \in Seq(Nat) /\ n \in 0..Len(hits[k]) /\ dq = SubSeq(hits[k], n + 1, Len(hits[k]))
        BY <1>1, <1>2, <1>3
  <2> QED BY <2>1, Suffix
<1>5. PICK d \in Nat :
         /\ Len(log[k]) = d + Len(hits[k])
         /\ \A i \in 1..Len(hits[k]) : hits[k][i] = log[k][d + i]
         /\ steady => \A i \in 1..d : log[k][i] + Window[k] < now
      BY <1>1 DEF Kept, EndOf
<1>6. PICK R \in Nat, H \in Nat, L \in Nat :
         R = Len(dq) /\ H = Len(hits[k]) /\ L = Len(log[k])
  <2>1. \A s \in Seq(Nat) : Len(s) \in Nat
        OBVIOUS
  <2> QED BY <1>1, <1>4, <2>1
<1>7. n \in Nat /\ n =< H /\ R = H - n /\ L = d + H
      BY <1>2, <1>4, <1>5, <1>6
<1>8. L = (d + n) + R
      BY <1>7
<1>9. ASSUME NEW i \in 1..R PROVE dq[i] = log[k][(d + n) + i]
  <2>1. n + i \in 1..H /\ d + (n + i) = (d + n) + i
        BY <1>7
  <2>2. dq[i] = hits[k][n + i] /\ hits[k][n + i] = log[k][d + (n + i)]
        BY <1>4, <1>5, <1>6, <1>7, <2>1
  <2> QED BY <2>1, <2>2
<1>10. ASSUME steady, NEW i \in 1..(d + n) PROVE log[k][i] + Window[k] < now
  <2>1. CASE i =< d
        BY <1>5, <1>10, <2>1
  <2>2. CASE i > d
    <3>1. PICK j \in 1..n : i = d + j
      <4>1. i - d \in 1..n /\ i = d + (i - d)
            BY <1>7, <2>2
      <4> QED BY <4>1
    <3>2. j \in 1..H
          BY <1>7
    <3>3. hits[k][j] = log[k][i] /\ hits[k][j] + Window[k] < now
          BY <1>2, <1>5, <1>6, <3>1, <3>2
    <3> QED BY <3>3
  <2>3. i =< d \/ i > d
        BY <1>7
  <2> QED BY <2>1, <2>2, <2>3
<1>11. EndOf(k, dq)
  <2>1. PICK e \in Nat : e = d + n
        BY <1>7
  <2>2. /\ Len(log[k]) = e + Len(dq)
        /\ \A i \in 1..Len(dq) : dq[i] = log[k][e + i]
        /\ steady => \A i \in 1..e : log[k][i] + Window[k] < now
        BY <1>6, <1>8, <1>9, <1>10, <2>1
  <2> QED BY <2>2 DEF EndOf
<1>12. ASSUME R > 0 PROVE dq[1] + Window[k] >= now
  <2>1. n < H /\ 1 \in 1..R
        BY <1>7, <1>12
  <2>2. dq[1] = hits[k][n + 1] /\ ~(hits[k][n + 1] + Window[k] < now)
        BY <1>2, <1>4, <1>6, <1>7, <2>1
  <2>3. dq[1] \in Nat
        BY <1>4, <1>6, <2>1
  <2> QED BY <1>1, <2>2, <2>3
<1>13. R =< H
       BY <1>7
<1> QED BY <1>3, <1>4, <1>6, <1>11, <1>12, <1>13

----------------------------------------------------------------------------
(* Passed counts some of the positions of the log.                          *)
LEMMA PassedIsFinite ==
    ASSUME LimiterTypes, NEW k \in Keys, NEW from, NEW to
    PROVE  /\ IsFiniteSet({i \in 1..Len(log[k]) : from =< log[k][i] /\ log[k][i] =< to})
           /\ Passed(k, from, to) \in Nat
<1>1. Len(log[k]) \in Nat
      BY DEF LimiterTypes
<1>2. IsFiniteSet(1..Len(log[k]))
      BY <1>1, FS_Interval
<1> QED BY <1>2, FS_Subset, FS_CardinalityType DEF Passed

(* A key that a step does not touch, and one that it clears.                *)
LEMMA Untouched ==
    ASSUME LimiterInv, NEW k \in Keys, hits'[k] = hits[k], log'[k] = log[k],
           answer'[k] = answer[k], now' \in Nat, steady' => steady /\ now =< now'
    PROVE  KeyInv(k)'
<1> USE DEF LimiterInv, LimiterTypes, KeyInv
<1>1. /\ hits[k] \in Seq(Nat) /\ log[k] \in Seq(Nat) /\ now \in Nat /\ Window[k] \in Nat
      /\ Limit[k] \in Nat
      BY RateTypes, BoundsAreNat
<1>2. \A i \in 1..Len(log[k]) : log[k][i] \in Nat
      BY <1>1
<1>3. Kept(k)'
  <2>1. PICK d \in Nat :
           /\ Len(log[k]) = d + Len(hits[k])
           /\ \A i \in 1..Len(hits[k]) : hits[k][i] = log[k][d + i]
           /\ steady => \A i \in 1..d : log[k][i] + Window[k] < now
        BY DEF Kept, EndOf
  <2>2. ASSUME steady', NEW i \in 1..d PROVE log[k][i] + Window[k] < now'
    <3>1. i \in 1..Len(log[k]) /\ log[k][i] + Window[k] < now
          BY <1>1, <2>1, <2>2
    <3> QED BY <1>1, <1>2, <2>2, <3>1
  <2> QED BY <2>1, <2>2 DEF Kept, EndOf
<1>4. ASSUME steady' PROVE InOrder(k)' /\ Spread(k)'
  <2>1. InOrder(k) /\ Spread(k) /\ now =< now'
        BY <1>4
  <2>2. InOrder(k)'
        BY <1>1, <1>2, <2>1 DEF InOrder
  <2>3. Spread(k)'
        BY <2>1 DEF Spread
  <2> QED BY <2>2, <2>3
<1>5. ASSUME steady' PROVE FullWhenRefused(k)'
  <2>1. FullWhenRefused(k)
        BY <1>5
  <2>2. \A from, to : Passed(k, from, to)' = Passed(k, from, to)
        BY DEF Passed
  <2> QED BY <2>1, <2>2 DEF FullWhenRefused
<1>6. HitBeforeRefusal(k)'
      BY DEF HitBeforeRefusal
<1> QED BY <1>3, <1>4, <1>5, <1>6

LEMMA Emptied ==
    ASSUME NEW k \in Keys, hits'[k] = <<>>, log'[k] = <<>>, answer'[k] = NoAnswer
    PROVE  KeyInv(k)'
<1>1. Kept(k)'
      BY DEF Kept, EndOf
<1>2. InOrder(k)' /\ Spread(k)'
      BY DEF InOrder, Spread
<1>3. answer'[k].code # 429
      BY DEF NoAnswer
<1>4. FullWhenRefused(k)' /\ HitBeforeRefusal(k)'
      BY <1>3 DEF FullWhenRefused, HitBeforeRefusal
<1>5. Len(hits'[k]) =< Limit[k]
      BY RateTypes
<1> QED BY <1>1, <1>2, <1>4, <1>5 DEF KeyInv

LEMMA PassedKey ==
    ASSUME LimiterInv, NEW k \in Keys, Pass(k)
    PROVE  KeyInv(k)'
<1>1. /\ log[k] \in Seq(Nat) /\ now \in Nat /\ Window[k] \in Nat
      /\ Limit[k] \in Nat /\ KeyInv(k)
      BY RateTypes, BoundsAreNat DEF LimiterInv, LimiterTypes
<1>2. PICK dq : dq = Prune(k, hits[k])
      OBVIOUS
<1>3. /\ Len(dq) < Limit[k]
      /\ hits'[k] = Append(dq, now) /\ log'[k] = Append(log[k], now)
      /\ answer'[k].code = 200 /\ now' = now /\ steady' = steady
      BY <1>2 DEF Pass, LimiterInv, LimiterTypes
<1>4. dq \in Seq(Nat) /\ EndOf(k, dq)
      BY <1>2, PruneKeeps
<1>5. PICK d \in Nat :
         /\ Len(log[k]) = d + Len(dq)
         /\ \A i \in 1..Len(dq) : dq[i] = log[k][d + i]
         /\ steady => \A i \in 1..d : log[k][i] + Window[k] < now
      BY <1>4 DEF EndOf
<1>6. PICK R \in Nat, L \in Nat : R = Len(dq) /\ L = Len(log[k])
      BY <1>1, <1>4
<1>7. /\ Len(hits'[k]) = R + 1 /\ Len(log'[k]) = L + 1
      /\ \A i \in 1..R : hits'[k][i] = dq[i]
      /\ \A i \in 1..L : log'[k][i] = log[k][i] /\ log[k][i] \in Nat
      /\ hits'[k][R + 1] = now /\ log'[k][L + 1] = now
  <2>1. \A s \in Seq(Nat) : /\ Len(Append(s, now)) = Len(s) + 1 /\ Len(s) \in Nat
                            /\ \A i \in 1..Len(s) : Append(s, now)[i] = s[i] /\ s[i] \in Nat
                            /\ Append(s, now)[Len(s) + 1] = now
        BY <1>1, AppendProperties
  <2> QED BY <1>1, <1>3, <1>4, <1>6, <2>1
<1>8. L = d + R /\ R < Limit[k] /\ R + 1 =< Limit[k]
      BY <1>1, <1>3, <1>5, <1>6
<1>9. \A i \in 1..d : i \in 1..L
      BY <1>8
<1>10. Kept(k)'
  <2>1. ASSUME NEW i \in 1..(R + 1) PROVE hits'[k][i] = log'[k][d + i]
    <3>1. CASE i = R + 1
      <4>1. d + i = L + 1
            BY <1>8, <3>1
      <4> QED BY <1>7, <3>1, <4>1
    <3>2. CASE i # R + 1
      <4>1. i \in 1..R /\ d + i \in 1..L
            BY <1>8, <3>2
      <4> QED BY <1>5, <1>6, <1>7, <4>1
    <3> QED BY <3>1, <3>2
  <2>2. steady => \A i \in 1..d : log'[k][i] + Window[k] < now
        BY <1>5, <1>7, <1>9
  <2>3. L + 1 = d + (R + 1)
        BY <1>8
  <2>4. /\ Len(log'[k]) = d + Len(hits'[k])
        /\ \A i \in 1..Len(hits'[k]) : hits'[k][i] = log'[k][d + i]
        /\ steady' => \A i \in 1..d : log'[k][i] + Window[k] < now'
        BY <1>3, <1>7, <2>1, <2>2, <2>3
  <2> QED BY <2>4 DEF Kept, EndOf
<1>11. ASSUME steady PROVE InOrder(k)' /\ Spread(k)'
  <2>1. InOrder(k) /\ Spread(k)
        BY <1>1, <1>11 DEF KeyInv
  <2>2. /\ \A i, j \in 1..L : i =< j => log[k][i] =< log[k][j]
        /\ \A i \in 1..L : log[k][i] =< now
        BY <1>6, <2>1 DEF InOrder
  <2>3. \A i \in 1..(L + 1) : i = L + 1 \/ i \in 1..L
        OBVIOUS
  <2>4. ASSUME NEW i \in 1..(L + 1), NEW j \in 1..(L + 1), i =< j
        PROVE  log'[k][i] =< log'[k][j]
    <3>1. CASE j = L + 1
      <4>1. CASE i = L + 1
            BY <1>1, <1>7, <3>1, <4>1
      <4>2. CASE i \in 1..L
            BY <1>7, <2>2, <3>1, <4>2
      <4> QED BY <2>3, <4>1, <4>2
    <3>2. CASE j # L + 1
      <4>1. i \in 1..L /\ j \in 1..L
            BY <2>4, <3>2
      <4> QED BY <1>7, <2>2, <2>4, <4>1
    <3> QED BY <3>1, <3>2
  <2>5. ASSUME NEW i \in 1..(L + 1) PROVE log'[k][i] =< now
    <3>1. CASE i = L + 1
          BY <1>1, <1>7, <3>1
    <3>2. CASE i \in 1..L
          BY <1>7, <2>2, <3>2
    <3> QED BY <2>3, <3>1, <3>2
  <2>6. ASSUME NEW i \in 1..(L + 1), NEW j \in 1..(L + 1), j = i + Limit[k]
        PROVE  log'[k][i] + Window[k] < log'[k][j]
    <3>1. CASE j = L + 1
      <4>1. i \in 1..d
            BY <1>1, <1>8, <2>6, <3>1
      <4> QED BY <1>5, <1>7, <1>9, <1>11, <3>1, <4>1
    <3>2. CASE j # L + 1
      <4>1. i \in 1..L /\ j \in 1..L
            BY <1>1, <2>6, <3>2
      <4> QED BY <1>6, <1>7, <2>1, <2>6, <4>1 DEF Spread
    <3> QED BY <3>1, <3>2
  <2> QED BY <1>3, <1>7, <2>4, <2>5, <2>6 DEF InOrder, Spread
<1>12. FullWhenRefused(k)' /\ HitBeforeRefusal(k)'
       BY <1>3 DEF FullWhenRefused, HitBeforeRefusal
<1> QED BY <1>3, <1>7, <1>8, <1>10, <1>11, <1>12 DEF KeyInv

LEMMA RefusedKey ==
    ASSUME LimiterInv, NEW k \in Keys, Refuse(k)
    PROVE  KeyInv(k)'
<1>1. /\ hits[k] \in Seq(Nat) /\ log[k] \in Seq(Nat) /\ now \in Nat /\ Window[k] \in Nat
      /\ Limit[k] \in Nat /\ KeyInv(k)
      BY RateTypes, BoundsAreNat DEF LimiterInv, LimiterTypes
<1>2. PICK dq : dq = Prune(k, hits[k])
      OBVIOUS
<1>3. /\ Len(dq) >= Limit[k]
      /\ hits'[k] = dq /\ log' = log /\ log'[k] = log[k]
      /\ answer'[k] = [code |-> 429, at |-> now] /\ now' = now /\ steady' = steady
      BY <1>2 DEF Refuse, LimiterInv, LimiterTypes
<1>4. /\ dq \in Seq(Nat) /\ EndOf(k, dq) /\ Len(dq) =< Len(hits[k])
      /\ Len(dq) > 0 => dq[1] + Window[k] >= now
      BY <1>2, PruneKeeps
<1>5. PICK d \in Nat :
         /\ Len(log[k]) = d + Len(dq)
         /\ \A i \in 1..Len(dq) : dq[i] = log[k][d + i]
      BY <1>4 DEF EndOf
<1>6. PICK R \in Nat, L \in Nat, H \in Nat :
         R = Len(dq) /\ L = Len(log[k]) /\ H = Len(hits[k])
      BY <1>1, <1>4
<1>7. L = d + R /\ R >= Limit[k] /\ R =< H /\ H =< Limit[k]
      BY <1>1, <1>3, <1>4, <1>5, <1>6 DEF KeyInv
<1>8. \A i \in 1..L : log[k][i] \in Nat
      BY <1>1, <1>6
<1>9. Len(hits'[k]) =< Limit[k]
      BY <1>1, <1>3, <1>6, <1>7
<1>10. Kept(k)'
       BY <1>3, <1>4 DEF Kept, EndOf
<1>11. steady => InOrder(k)' /\ Spread(k)'
       BY <1>1, <1>3 DEF KeyInv, InOrder, Spread
<1>12. R > 0 => d + 1 \in 1..L /\ log[k][d + 1] + Window[k] >= now
  <2> SUFFICES ASSUME R > 0 PROVE d + 1 \in 1..L /\ log[k][d + 1] + Window[k] >= now
      OBVIOUS
  <2>1. d + 1 \in 1..L /\ 1 \in 1..R
        BY <1>7
  <2> QED BY <1>4, <1>5, <1>6, <2>1
<1>13. ASSUME steady PROVE FullWhenRefused(k)'
  <2> DEFINE low    == Max({0, now - Window[k]})
             recent == {i \in 1..L : low =< log[k][i] /\ log[k][i] =< now}
  <2>1. low \in {0, now - Window[k]}
    <3>1. CASE now - Window[k] >= 0
          BY <1>1, <3>1 DEF Max
    <3>2. CASE ~(now - Window[k] >= 0)
          BY <1>1, <3>2 DEF Max
    <3> QED BY <3>1, <3>2
  <2>2. Passed(k, low, now)' = Cardinality(recent) /\ answer'[k].at = now
        BY <1>3, <1>6 DEF Passed
  <2> HIDE DEF low
  <2>3. (d + 1)..L \subseteq recent
    <3> SUFFICES ASSUME NEW i \in (d + 1)..L PROVE i \in recent
        OBVIOUS
    <3>1. InOrder(k)
          BY <1>1, <1>13 DEF KeyInv
    <3>2. i \in 1..L /\ d + 1 \in 1..L /\ d + 1 =< i /\ R > 0
          BY <1>7
    <3>3. /\ log[k][d + 1] =< log[k][i] /\ log[k][i] =< now
          /\ log[k][d + 1] + Window[k] >= now
          BY <1>6, <1>12, <3>1, <3>2 DEF InOrder
    <3>4. log[k][i] \in Nat /\ log[k][d + 1] \in Nat
          BY <1>8, <3>2
    <3>5. low =< log[k][i]
      <4>1. PICK h \in Nat, g \in Nat : h = log[k][i] /\ g = log[k][d + 1]
            BY <3>4
      <4>2. PICK w \in Nat, time \in Nat : w = Window[k] /\ time = now
            BY <1>1
      <4>3. g =< h /\ g + w >= time
            BY <3>3, <4>1, <4>2
      <4>4. 0 =< h /\ time - w =< h
            BY <4>3
      <4> QED BY <2>1, <4>1, <4>2, <4>4
    <3> QED BY <3>2, <3>3, <3>5
  <2>4. IsFiniteSet(recent)
    <3>1. IsFiniteSet(1..L)
          BY FS_Interval
    <3> QED BY <3>1, FS_Subset
  <2>5. Cardinality((d + 1)..L) = R
    <3>1. Cardinality((d + 1)..L) = IF d + 1 > L THEN 0 ELSE L - (d + 1) + 1
          BY FS_Interval
    <3> QED BY <1>7, <3>1
  <2> HIDE DEF recent
  <2>6. R =< Cardinality(recent) /\ Cardinality(recent) \in Nat
        BY <2>3, <2>4, <2>5, FS_Subset, FS_CardinalityType
  <2>7. Cardinality(recent) >= Limit[k]
        BY <1>1, <1>7, <2>6
  <2> QED BY <1>3, <2>2, <2>7 DEF FullWhenRefused, low
<1>14. HitBeforeRefusal(k)'
  <2>1. ASSUME Limit[k] > 0
        PROVE  \E i \in 1..Len(log'[k]) : log'[k][i] + Window[k] >= now
    <3>1. R > 0
          BY <1>1, <1>7, <2>1
    <3> QED BY <1>3, <1>6, <1>12, <3>1
  <2>2. answer'[k].at = now
        BY <1>3
  <2> QED BY <2>1, <2>2 DEF HitBeforeRefusal
<1> QED BY <1>3, <1>9, <1>10, <1>11, <1>13, <1>14 DEF KeyInv

----------------------------------------------------------------------------
LEMMA LimiterStarts == Init => LimiterInv
<1> SUFFICES ASSUME Init PROVE LimiterInv
    OBVIOUS
<1>1. LimiterTypes
      BY DEF Init, LimiterTypes, NoAnswer
<1>2. \A k \in Keys : hits[k] = <<>> /\ log[k] = <<>> /\ answer[k].code = 0
      BY DEF Init, NoAnswer
<1>3. ASSUME NEW k \in Keys PROVE KeyInv(k)
  <2>1. hits[k] = <<>> /\ log[k] = <<>> /\ answer[k].code = 0
        BY <1>2
  <2>2. Kept(k)
        BY <2>1 DEF Kept, EndOf
  <2>3. InOrder(k) /\ Spread(k) /\ FullWhenRefused(k) /\ HitBeforeRefusal(k)
        BY <2>1 DEF InOrder, Spread, FullWhenRefused, HitBeforeRefusal
  <2>4. Len(hits[k]) =< Limit[k]
        BY <2>1, RateTypes
  <2> QED BY <2>2, <2>3, <2>4 DEF KeyInv
<1> QED BY <1>1, <1>3 DEF LimiterInv

LEMMA PassKeeps == ASSUME LimiterInv, NEW k \in Keys, Pass(k) PROVE LimiterInv'
<1>1. LimiterTypes /\ now \in Nat
      BY BoundsAreNat DEF LimiterInv, LimiterTypes
<1>2. PICK dq : dq = Prune(k, hits[k])
      OBVIOUS
<1>3. dq \in Seq(Nat)
      BY <1>2, PruneKeeps
<1>4. /\ hits' = [hits EXCEPT ![k] = Append(dq, now)]
      /\ log' = [log EXCEPT ![k] = Append(log[k], now)]
      /\ answer' = [answer EXCEPT ![k] = [code |-> 200, at |-> now]]
      /\ now' = now /\ steady' = steady
      BY <1>2 DEF Pass
<1>5. Append(dq, now) \in Seq(Nat) /\ Append(log[k], now) \in Seq(Nat)
      BY <1>1, <1>3 DEF LimiterTypes
<1>6. LimiterTypes'
      BY <1>1, <1>4, <1>5 DEF LimiterTypes
<1>7. ASSUME NEW j \in Keys, j # k PROVE KeyInv(j)'
  <2>1. hits'[j] = hits[j] /\ log'[j] = log[j] /\ answer'[j] = answer[j]
        BY <1>1, <1>4, <1>7 DEF LimiterTypes
  <2> QED BY <1>1, <1>4, <2>1, Untouched
<1>8. KeyInv(k)'
      BY PassedKey
<1> QED BY <1>6, <1>7, <1>8 DEF LimiterInv

LEMMA RefuseKeeps == ASSUME LimiterInv, NEW k \in Keys, Refuse(k) PROVE LimiterInv'
<1>1. LimiterTypes /\ now \in Nat
      BY BoundsAreNat DEF LimiterInv, LimiterTypes
<1>2. PICK dq : dq = Prune(k, hits[k])
      OBVIOUS
<1>3. dq \in Seq(Nat)
      BY <1>2, PruneKeeps
<1>4. /\ hits' = [hits EXCEPT ![k] = dq] /\ log' = log
      /\ answer' = [answer EXCEPT ![k] = [code |-> 429, at |-> now]]
      /\ now' = now /\ steady' = steady
      BY <1>2 DEF Refuse
<1>5. LimiterTypes'
      BY <1>1, <1>3, <1>4 DEF LimiterTypes
<1>6. ASSUME NEW j \in Keys, j # k PROVE KeyInv(j)'
  <2>1. hits'[j] = hits[j] /\ log'[j] = log[j] /\ answer'[j] = answer[j]
        BY <1>1, <1>4, <1>6 DEF LimiterTypes
  <2> QED BY <1>1, <1>4, <2>1, Untouched
<1>7. KeyInv(k)'
      BY RefusedKey
<1> QED BY <1>5, <1>6, <1>7 DEF LimiterInv

LEMMA TickKeeps == LimiterInv /\ Tick => LimiterInv'
<1> SUFFICES ASSUME LimiterInv, Tick PROVE LimiterInv'
    OBVIOUS
<1>1. now' \in Nat /\ now \in Nat /\ now =< now' /\ LimiterTypes'
      BY BoundsAreNat DEF LimiterInv, LimiterTypes, Tick
<1>2. \A k \in Keys : KeyInv(k)'
      BY <1>1, Untouched DEF Tick
<1> QED BY <1>1, <1>2 DEF LimiterInv

LEMMA SetBackKeeps == LimiterInv /\ SetBack => LimiterInv'
<1> SUFFICES ASSUME LimiterInv, SetBack PROVE LimiterInv'
    OBVIOUS
<1>1. PICK time \in 0..MaxClock : now' = time
      BY DEF SetBack
<1>2. now' \in Nat /\ ~steady'
      BY <1>1, BoundsAreNat DEF SetBack
<1>3. LimiterTypes'
      BY <1>1 DEF LimiterInv, LimiterTypes, SetBack
<1>4. \A k \in Keys : KeyInv(k)'
      BY <1>2, Untouched DEF SetBack
<1> QED BY <1>3, <1>4 DEF LimiterInv

(* Clearing some keys says nothing of the clock, clearing all of them makes *)
(* a past with an unsteady clock forgotten.                                 *)
LEMMA ClearKeeps ==
    ASSUME LimiterInv, NEW K \in SUBSET Keys, Clear(K), UNCHANGED now
    PROVE  LimiterInv'
<1>1. LimiterTypes /\ now' \in Nat /\ now =< now'
      BY BoundsAreNat DEF LimiterInv, LimiterTypes
<1>2. /\ hits'   = [k \in Keys |-> IF k \in K THEN <<>> ELSE hits[k]]
      /\ log'    = [k \in Keys |-> IF k \in K THEN <<>> ELSE log[k]]
      /\ answer' = [k \in Keys |-> IF k \in K THEN NoAnswer ELSE answer[k]]
      /\ steady' = (steady \/ K = Keys)
      BY DEF Clear
<1>3. <<>> \in Seq(Nat) /\ NoAnswer \in [code : {0, 200, 429}, at : Nat]
      BY DEF NoAnswer
<1>4. LimiterTypes'
  <2>1. hits' \in [Keys -> Seq(Nat)]
        BY <1>1, <1>2, <1>3 DEF LimiterTypes
  <2>2. log' \in [Keys -> Seq(Nat)]
        BY <1>1, <1>2, <1>3 DEF LimiterTypes
  <2>3. answer' \in [Keys -> [code : {0, 200, 429}, at : Nat]]
        BY <1>1, <1>2, <1>3 DEF LimiterTypes
  <2>4. steady' \in BOOLEAN /\ now' \in 0..MaxClock
        BY <1>1, <1>2 DEF LimiterTypes
  <2> QED BY <2>1, <2>2, <2>3, <2>4 DEF LimiterTypes
<1>5. ASSUME NEW k \in K PROVE KeyInv(k)'
  <2>1. hits'[k] = <<>> /\ log'[k] = <<>> /\ answer'[k] = NoAnswer
        BY <1>2
  <2> QED BY <2>1, Emptied
<1>6. ASSUME NEW k \in Keys \ K PROVE KeyInv(k)'
  <2>1. hits'[k] = hits[k] /\ log'[k] = log[k] /\ answer'[k] = answer[k]
        BY <1>2
  <2>2. steady' => steady
        BY <1>2
  <2> QED BY <1>1, <2>1, <2>2, Untouched
<1> QED BY <1>4, <1>5, <1>6 DEF LimiterInv

LEMMA LimiterStutters == LimiterInv /\ UNCHANGED vars => LimiterInv'
<1> SUFFICES ASSUME LimiterInv, UNCHANGED vars PROVE LimiterInv'
    OBVIOUS
<1>1. /\ now' = now /\ hits' = hits /\ log' = log /\ answer' = answer /\ steady' = steady
      BY DEF vars
<1>2. LimiterTypes' /\ now' \in Nat /\ now =< now'
      BY <1>1, BoundsAreNat DEF LimiterInv, LimiterTypes
<1>3. \A k \in Keys : KeyInv(k)'
      BY <1>1, <1>2, Untouched
<1> QED BY <1>2, <1>3 DEF LimiterInv

LEMMA LimiterStep == LimiterInv /\ [Next]_vars => LimiterInv'
<1>1. LimiterInv /\ reset => LimiterInv'
      BY ClearKeeps DEF reset
<1> QED BY <1>1, TickKeeps, SetBackKeeps, PassKeeps, RefuseKeeps, LimiterStutters DEF Next

LEMMA LimiterInvariant == Spec => []LimiterInv
BY LimiterStarts, LimiterStep, PTL DEF Spec

(* The requests of one window are neighbours in the log, and no more than   *)
(* Limit[k] neighbours are as close as that.                                *)
LEMMA SpreadLimits ==
    ASSUME LimiterInv, steady, NEW k \in Keys, NEW from \in Nat
    PROVE  Passed(k, from, from + Window[k]) =< Limit[k]
<1>1. /\ log[k] \in Seq(Nat) /\ Window[k] \in Nat /\ Limit[k] \in Nat
      /\ InOrder(k) /\ Spread(k)
      BY RateTypes DEF LimiterInv, LimiterTypes, KeyInv
<1>2. PICK L \in Nat, lim \in Nat, w \in Nat :
         L = Len(log[k]) /\ lim = Limit[k] /\ w = Window[k]
      BY <1>1
<1>3. \A i \in 1..L : log[k][i] \in Nat
      BY <1>1, <1>2
<1> DEFINE S == {i \in 1..L : from =< log[k][i] /\ log[k][i] =< from + w}
<1>4. Passed(k, from, from + Window[k]) = Cardinality(S)
      BY <1>2 DEF Passed
<1>5. CASE S = {}
  <2>1. Cardinality(S) = 0
        BY <1>5, FS_EmptySet
  <2> HIDE DEF S
  <2> QED BY <1>2, <1>4, <2>1
<1>6. CASE S # {}
  <2>1. S \in SUBSET Nat
        OBVIOUS
  <2>2. PICK m \in S : \A i \in S : m =< i
    <3> HIDE DEF S
    <3> QED BY <1>6, <2>1, LeastNat
  <2>3. m \in 1..L /\ from =< log[k][m]
        OBVIOUS
  <2>4. ASSUME NEW j \in S PROVE j \in m..(m + lim - 1)
    <3>1. j \in 1..L /\ m =< j /\ log[k][j] =< from + w
          BY <2>2
    <3>2. SUFFICES ASSUME j >= m + lim PROVE FALSE
          BY <2>3, <3>1
    <3>3. PICK i \in 1..L : j = i + lim /\ m =< i
      <4>1. j - lim \in 1..L /\ j = (j - lim) + lim /\ m =< j - lim
            BY <2>3, <3>1, <3>2
      <4> QED BY <4>1
    <3>4. log[k][i] + w < log[k][j] /\ log[k][m] =< log[k][i]
          BY <1>1, <1>2, <2>3, <3>1, <3>3 DEF Spread, InOrder
    <3>5. PICK a \in Nat, b \in Nat, c \in Nat : a = log[k][m] /\ b = log[k][i] /\ c = log[k][j]
          BY <1>3, <2>3, <3>1, <3>3
    <3> QED BY <2>3, <3>1, <3>4, <3>5
  <2>5. IsFiniteSet(m..(m + lim - 1)) /\ Cardinality(m..(m + lim - 1)) = lim
    <3>1. m \in Int /\ m + lim - 1 \in Int
          BY <2>3
    <3>2. Cardinality(m..(m + lim - 1)) =
             IF m > m + lim - 1 THEN 0 ELSE (m + lim - 1) - m + 1
          BY <3>1, FS_Interval
    <3>3. (IF m > m + lim - 1 THEN 0 ELSE (m + lim - 1) - m + 1) = lim
          BY <2>3
    <3> QED BY <3>1, <3>2, <3>3, FS_Interval
  <2>6. S \subseteq m..(m + lim - 1)
        BY <2>4
  <2> HIDE DEF S
  <2>7. Cardinality(S) =< Cardinality(m..(m + lim - 1))
        BY <2>5, <2>6, FS_Subset
  <2> QED BY <1>2, <1>4, <2>5, <2>7
<1> QED BY <1>5, <1>6

----------------------------------------------------------------------------
(* No deque outgrows its limit, whatever the clock does.                    *)
THEOREM LimiterTypesAreKept == Spec => []TypeOK
<1>1. LimiterInv => TypeOK
      BY DEF LimiterInv, LimiterTypes, KeyInv, TypeOK
<1> QED BY <1>1, LimiterInvariant, PTL

(* While the clock is not set back, no window of any client sees more       *)
(* requests let through than its limit, though old hits are forgotten.      *)
THEOREM WindowsAreLimited == Spec => []LimitHolds
<1>1. LimiterInv => LimitHolds
  <2>1. \A from \in 0..MaxClock : from \in Nat
        BY BoundsAreNat
  <2> QED BY <2>1, SpreadLimits DEF LimitHolds
<1> QED BY <1>1, LimiterInvariant, PTL

(* A 429 means that this client's requests had used up its limit within     *)
(* the window before it.                                                    *)
THEOREM RefusalsAreDue == Spec => []RefusedOnlyWhenFull
<1>1. LimiterInv => RefusedOnlyWhenFull
  <2>1. LimiterInv /\ steady => \A k \in Keys : FullWhenRefused(k)
        BY DEF LimiterInv, KeyInv
  <2> QED BY <2>1 DEF FullWhenRefused, RefusedOnlyWhenFull
<1> QED BY <1>1, LimiterInvariant, PTL

(* Even when the clock is set back, a client that is refused had a request  *)
(* let through at a time within the window, or later.                       *)
THEOREM RefusalsFollowHits == Spec => []RefusedOnlyAfterHit
<1>1. LimiterInv => RefusedOnlyAfterHit
      BY DEF LimiterInv, KeyInv, HitBeforeRefusal, RefusedOnlyAfterHit
<1> QED BY <1>1, LimiterInvariant, PTL

----------------------------------------------------------------------------
(* A request that is inside, or was, was counted: by the limiter of its     *)
(* worker, in the life of that worker.                                      *)
CountsAgree ==
    \A k \in Keys, from, to \in Nat :
        /\ IsFiniteSet(Entered(k, from, to))
        /\ Cardinality(Entered(k, from, to)) =< Passed(k, from, to)

NoneUnparsed == \A t \in Requests : KeyOf[t] \in Unparsed => entered[t] = Never

RoomInv ==
    /\ LimiterInv /\ steady
    /\ entered \in [Requests -> 0..Never]
    /\ CountsAgree
    /\ NoneUnparsed

LEMMA RoomStarts == DoorInit => RoomInv
<1> SUFFICES ASSUME DoorInit PROVE RoomInv
    OBVIOUS
<1>1. LimiterInv /\ steady
      BY LimiterStarts DEF DoorInit, Init
<1>2. entered = [t \in Requests |-> Never] /\ Never \in 0..Never
      BY BoundsAreNat DEF DoorInit, Never
<1>3. ASSUME NEW k \in Keys, NEW from \in Nat, NEW to \in Nat
      PROVE  /\ IsFiniteSet(Entered(k, from, to))
             /\ Cardinality(Entered(k, from, to)) =< Passed(k, from, to)
  <2>1. Entered(k, from, to) = {}
        BY <1>2 DEF Entered
  <2>2. Passed(k, from, to) \in Nat
        BY <1>1, PassedIsFinite DEF LimiterInv
  <2> QED BY <2>1, <2>2, FS_EmptySet
<1> QED BY <1>1, <1>2, <1>3 DEF RoomInv, CountsAgree, NoneUnparsed

(* Steps that let nobody in.                                                *)
LEMMA RoomUnchanged ==
    ASSUME RoomInv, LimiterInv', entered' = entered, log' = log, steady' = steady
    PROVE  RoomInv'
<1>1. \A k, from, to : /\ Entered(k, from, to)' = Entered(k, from, to)
                       /\ Passed(k, from, to)' = Passed(k, from, to)
      BY DEF Entered, Passed, Never
<1>2. CountsAgree'
      BY <1>1 DEF RoomInv, CountsAgree
<1> QED BY <1>2 DEF RoomInv, NoneUnparsed, Never

LEMMA AdmitKeepsRoom ==
    ASSUME RoomInv, NEW t \in Requests, Admit(t)
    PROVE  RoomInv'
<1> DEFINE k == KeyOf[t]
<1>1. /\ k \in Keys /\ k \notin Unparsed /\ Pass(k)
      /\ entered' = [entered EXCEPT ![t] = now]
      BY DEF Admit
<1> HIDE DEF k
<1>2. LimiterInv' /\ LimiterTypes /\ LimiterTypes'
      BY <1>1, PassKeeps DEF RoomInv, LimiterInv
<1>3. /\ log' = [log EXCEPT ![k] = Append(@, now)] /\ steady' = steady
      /\ log \in [Keys -> Seq(Nat)] /\ now \in 0..MaxClock /\ now \in Nat
      BY <1>1, <1>2, BoundsAreNat DEF Pass, LimiterTypes
<1>4. now # Never /\ now \in 0..Never
      BY <1>3, BoundsAreNat DEF Never
<1>5. entered' \in [Requests -> 0..Never]
      BY <1>1, <1>4 DEF RoomInv, Never
<1>6. NoneUnparsed'
      BY <1>1 DEF RoomInv, NoneUnparsed, Never, k
<1>7. ASSUME NEW j \in Keys, NEW from \in Nat, NEW to \in Nat
      PROVE  /\ IsFiniteSet(Entered(j, from, to)')
             /\ Cardinality(Entered(j, from, to)') =< Passed(j, from, to)'
  <2> DEFINE E  == Entered(j, from, to)
             P  == {i \in 1..Len(log[j]) : from =< log[j][i] /\ log[j][i] =< to}
             P1 == {i \in 1..Len(log'[j]) : from =< log'[j][i] /\ log'[j][i] =< to}
  <2>1. /\ IsFiniteSet(E) /\ Cardinality(E) =< Cardinality(P) /\ Cardinality(E) \in Nat
        /\ IsFiniteSet(P) /\ Cardinality(P) \in Nat
        BY <1>2, PassedIsFinite, FS_CardinalityType DEF RoomInv, CountsAgree, Passed
  <2>2. Passed(j, from, to)' = Cardinality(P1)
        BY DEF Passed
  <2>3. CASE j # k
    <3>1. P1 = P
          BY <1>3, <2>3
    <3>2. Entered(j, from, to)' = E
          BY <1>1, <2>3 DEF Entered, k, RoomInv
    <3> HIDE DEF E, P, P1
    <3> QED BY <2>1, <2>2, <3>1, <3>2
  <2>4. CASE j = k
    <3>1. PICK L \in Nat : L = Len(log[k])
          BY <1>1, <1>3
    <3>2. /\ Len(log'[k]) = L + 1 /\ log'[k][L + 1] = now
          /\ \A i \in 1..L : log'[k][i] = log[k][i]
      <4>1. log'[k] = Append(log[k], now) /\ log[k] \in Seq(Nat)
            BY <1>1, <1>3
      <4> QED BY <1>3, <3>1, <4>1, AppendProperties
    <3>3. CASE from =< now /\ now =< to
      <4>1. P1 = P \cup {L + 1} /\ L + 1 \notin P
        <5>1. /\ P  = {i \in 1..L : from =< log[k][i] /\ log[k][i] =< to}
              /\ P1 = {i \in 1..(L + 1) : from =< log'[k][i] /\ log'[k][i] =< to}
              BY <2>4, <3>1, <3>2
        <5>2. \A i \in 1..(L + 1) : i \in 1..L \/ i = L + 1
              OBVIOUS
        <5>3. L + 1 \in 1..(L + 1) /\ L + 1 \notin 1..L /\ \A i \in 1..L : i \in 1..(L + 1)
              OBVIOUS
        <5> HIDE DEF P, P1
        <5> QED BY <3>2, <3>3, <5>1, <5>2, <5>3
      <4>2. Entered(j, from, to)' \subseteq E \cup {t}
            BY <1>1 DEF Entered, RoomInv
      <4> HIDE DEF E, P, P1
      <4>3. /\ IsFiniteSet(E \cup {t}) /\ Cardinality(E \cup {t}) \in Nat
            /\ Cardinality(E \cup {t}) =< Cardinality(E) + 1
        <5>1. /\ IsFiniteSet(E \cup {t})
              /\ Cardinality(E \cup {t}) =
                    IF t \in E THEN Cardinality(E) ELSE Cardinality(E) + 1
              BY <2>1, FS_AddElement
        <5> QED BY <2>1, <5>1, FS_CardinalityType
      <4>4. Cardinality(P1) = Cardinality(P) + 1
            BY <2>1, <4>1, FS_AddElement
      <4>5. /\ IsFiniteSet(Entered(j, from, to)')
            /\ Cardinality(Entered(j, from, to)') =< Cardinality(E \cup {t})
            /\ Cardinality(Entered(j, from, to)') \in Nat
            BY <4>2, <4>3, FS_Subset, FS_CardinalityType
      <4> QED BY <2>1, <2>2, <4>3, <4>4, <4>5
    <3>4. CASE ~(from =< now /\ now =< to)
      <4>1. P1 = P
            BY <1>3, <2>4, <3>1, <3>2, <3>4
      <4>2. Entered(j, from, to)' \subseteq E
            BY <1>1, <1>3, <3>4 DEF Entered, RoomInv
      <4> HIDE DEF E, P, P1
      <4>3. /\ IsFiniteSet(Entered(j, from, to)')
            /\ Cardinality(Entered(j, from, to)') =< Cardinality(E)
            /\ Cardinality(Entered(j, from, to)') \in Nat
            BY <2>1, <4>2, FS_Subset, FS_CardinalityType
      <4> QED BY <2>1, <2>2, <4>1, <4>3
    <3> QED BY <3>3, <3>4
  <2> QED BY <2>3, <2>4
<1> QED BY <1>2, <1>3, <1>5, <1>6, <1>7 DEF RoomInv, CountsAgree

(* A worker that starts again forgets its hits and its requests alike, and  *)
(* none of those of the others.                                             *)
LEMMA RestartKeepsRoom ==
    ASSUME RoomInv, NEW w \in Workers, Restart(w)
    PROVE  RoomInv'
<1> DEFINE mine == {t \in Requests : WorkerOf[t] = w}
           K    == {k \in Keys : CountedBy[k] = w}
<1>1. /\ entered' = [t \in Requests |-> IF t \in mine THEN Never ELSE entered[t]]
      /\ Clear(K) /\ UNCHANGED now
      BY DEF Restart
<1>2. LimiterInv' /\ steady'
      BY <1>1, ClearKeeps DEF RoomInv, LimiterInv, Clear
<1>3. log' = [k \in Keys |-> IF k \in K THEN <<>> ELSE log[k]]
      BY <1>1 DEF Clear
<1>4. entered' \in [Requests -> 0..Never] /\ NoneUnparsed'
  <2>1. Never \in 0..Never
        BY BoundsAreNat DEF Never
  <2>2. entered' \in [Requests -> 0..Never]
        BY <1>1, <2>1 DEF RoomInv
  <2>3. NoneUnparsed'
        BY <1>1 DEF RoomInv, NoneUnparsed, Never
  <2> QED BY <2>2, <2>3
<1>5. ASSUME NEW k \in Keys, NEW from \in Nat, NEW to \in Nat
      PROVE  /\ IsFiniteSet(Entered(k, from, to)')
             /\ Cardinality(Entered(k, from, to)') =< Passed(k, from, to)'
  <2>1. \A t \in Requests : KeyOf[t] = k => WorkerOf[t] = CountedBy[k]
        BY EachCountsItsOwn, RequestTypes
  <2>2. CASE k \in K
    <3>1. Entered(k, from, to)' = {}
      <4>1. \A t \in Requests : KeyOf[t] = k => entered'[t] = Never
            BY <1>1, <2>1, <2>2
      <4> QED BY <4>1 DEF Entered, Never
    <3>2. Passed(k, from, to)' = 0
      <4>1. log'[k] = <<>>
            BY <1>3, <2>2
      <4>2. {i \in 1..Len(log'[k]) : from =< log'[k][i] /\ log'[k][i] =< to} = {}
            BY <4>1
      <4> QED BY <4>2, FS_EmptySet DEF Passed
    <3> QED BY <3>1, <3>2, FS_EmptySet
  <2>3. CASE k \notin K
    <3>1. Entered(k, from, to)' = Entered(k, from, to)
      <4>1. \A t \in Requests : KeyOf[t] = k => entered'[t] = entered[t]
            BY <1>1, <2>1, <2>3
      <4> QED BY <4>1 DEF Entered, Never
    <3>2. Passed(k, from, to)' = Passed(k, from, to)
          BY <1>3, <2>3 DEF Passed
    <3> QED BY <3>1, <3>2 DEF RoomInv, CountsAgree
  <2> QED BY <2>2, <2>3
<1> QED BY <1>2, <1>4, <1>5 DEF RoomInv, CountsAgree

LEMMA RoomStep == RoomInv /\ [DoorNext]_doorVars => RoomInv'
<1> SUFFICES ASSUME RoomInv, [DoorNext]_doorVars PROVE RoomInv'
    OBVIOUS
<1>1. UNCHANGED vars /\ UNCHANGED entered => RoomInv'
  <2>1. UNCHANGED vars => LimiterInv'
        BY LimiterStutters DEF RoomInv
  <2> QED BY <2>1, RoomUnchanged DEF vars
<1>2. ASSUME NEW t \in Requests, TurnAway(t) PROVE RoomInv'
  <2>1. LimiterInv'
        BY <1>2, RefuseKeeps DEF RoomInv, TurnAway
  <2> QED BY <1>2, <2>1, RoomUnchanged DEF TurnAway, Refuse
<1>3. CASE TimePasses
  <2>1. LimiterInv'
        BY <1>3, TickKeeps DEF RoomInv, TimePasses
  <2> QED BY <1>3, <2>1, RoomUnchanged DEF TimePasses, Tick
<1>4. ASSUME NEW t \in Requests,
             Arrive(t) \/ Exempt(t) \/ Choke(t) \/ Receive(t) \/ Serve(t) \/ Disconnect(t)
                \/ Record(t) \/ Lose(t)
      PROVE  RoomInv'
      BY <1>1, <1>4 DEF Arrive, Exempt, Choke, Receive, Serve, Disconnect, Record, Lose
<1>5. CASE UNCHANGED doorVars
      BY <1>1, <1>5 DEF doorVars
<1> QED BY <1>2, <1>3, <1>4, <1>5, AdmitKeepsRoom, RestartKeepsRoom DEF DoorNext

LEMMA RoomInvariant == DoorSpec => []RoomInv
BY RoomStarts, RoomStep, PTL DEF DoorSpec

(* End to end, whichever workers die: no window sees more requests of one   *)
(* client and bucket get to their routes in one worker than the limit, and  *)
(* none do when the rate cannot be read.                                    *)
THEOREM RoutesKeepToTheRate == DoorSpec => []RoutesAreLimited
<1>1. RoomInv => RoutesAreLimited
  <2> SUFFICES ASSUME RoomInv, NEW k \in Keys, NEW from \in 0..MaxClock
               PROVE  Cardinality(Entered(k, from, from + Window[k])) =< Allowed(k)
      BY DEF RoutesAreLimited
  <2>1. from \in Nat /\ from + Window[k] \in Nat /\ Limit[k] \in Nat
        BY RateTypes, BoundsAreNat
  <2>2. CASE k \in Unparsed
    <3>1. Entered(k, from, from + Window[k]) = {}
          BY <2>2 DEF RoomInv, NoneUnparsed, Entered
    <3> QED BY <2>2, <3>1, FS_EmptySet DEF Allowed
  <2>3. CASE k \notin Unparsed
    <3>1. /\ Cardinality(Entered(k, from, from + Window[k])) \in Nat
          /\ Cardinality(Entered(k, from, from + Window[k])) =< Passed(k, from, from + Window[k])
          BY <2>1, FS_CardinalityType DEF RoomInv, CountsAgree
    <3>2. Passed(k, from, from + Window[k]) =< Limit[k]
          BY <2>1, SpreadLimits DEF RoomInv
    <3>3. Passed(k, from, from + Window[k]) \in Nat
          BY PassedIsFinite DEF RoomInv, LimiterInv
    <3> QED BY <2>1, <2>3, <3>1, <3>2, <3>3 DEF Allowed
  <2> QED BY <2>2, <2>3
<1> QED BY <1>1, RoomInvariant, PTL

----------------------------------------------------------------------------
(* What the properties at hand need of the types.                           *)
DoorTypes ==
    /\ pc \in [Requests -> {"new"} \cup Inside \cup Final]
    /\ declared \in [Requests -> Lengths]
    /\ body_size \in [Requests -> Nat]
    /\ given \in [Requests -> Nat]
    /\ events \in [Requests -> Nat]
    /\ tasks \subseteq Requests /\ lost \subseteq Requests

(* While a request can still be answered its route has been given all that  *)
(* was counted, and that is within the limit.                               *)
BodiesAgree ==
    \A t \in Requests :
        /\ pc[t] \in {"new", "answered"} \cup Inside => given[t] = body_size[t]
        /\ pc[t] = "new" => body_size[t] = 0

(* A task under way has not inserted its row yet.                           *)
TasksAgree == \A t \in tasks : pc[t] = "429" /\ events[t] = 0

DoorInv ==
    /\ DoorTypes
    /\ BodiesAgree
    /\ TasksAgree
    /\ BodiesAreBounded
    /\ EventsAreRefusals

----------------------------------------------------------------------------
LEMMA DoorStarts == DoorInit => DoorInv
BY SizesAreNat, NotNumbers
   DEF DoorInit, DoorInv, DoorTypes, BodiesAgree, TasksAgree, BodiesAreBounded, EventsAreRefusals,
       Inside, Final, Lengths

LEMMA DoorStep == DoorInv /\ [DoorNext]_doorVars => DoorInv'
<1> SUFFICES ASSUME DoorInv, [DoorNext]_doorVars PROVE DoorInv'
    OBVIOUS
<1> USE SizesAreNat, NotNumbers
<1> USE DEF DoorInv, DoorTypes, BodiesAgree, TasksAgree, BodiesAreBounded, EventsAreRefusals,
            Inside, Final, Goto, books
<1>1. ASSUME NEW t \in Requests, Arrive(t) PROVE DoorInv'
  <2>1. CASE pc' = [pc EXCEPT ![t] = "early"] /\ UNCHANGED declared
        BY <1>1, <2>1 DEF Arrive
  <2>2. ASSUME NEW length \in Lengths, pc' = [pc EXCEPT ![t] = Verdict(length)],
               declared' = IF Reads[t] THEN [declared EXCEPT ![t] = length] ELSE declared
        PROVE  DoorInv'
    <3>1. /\ Verdict(length) \in {"early", "413", "limiter"}
          /\ Verdict(length) = "413" => length = SizeLimit + 1
          BY DEF Verdict, Lengths
    <3> HIDE DEF Verdict
    <3> QED BY <1>1, <2>2, <3>1 DEF Arrive
  <2> QED BY <1>1, <2>1, <2>2 DEF Arrive
<1>2. ASSUME NEW t \in Requests, Exempt(t) PROVE DoorInv'
      BY <1>2 DEF Exempt
<1>3. ASSUME NEW t \in Requests, Choke(t) PROVE DoorInv'
      BY <1>3 DEF Choke
<1>4. ASSUME NEW t \in Requests, Admit(t) PROVE DoorInv'
      BY <1>4 DEF Admit
<1>5. ASSUME NEW t \in Requests, TurnAway(t) PROVE DoorInv'
      BY <1>5 DEF TurnAway
<1>6. ASSUME NEW t \in Requests, Receive(t) PROVE DoorInv'
  <2>1. PICK n \in 1..MaxChunk :
           /\ body_size' = [body_size EXCEPT ![t] = @ + n]
           /\ IF body_size'[t] > SizeLimit
              THEN (\E code \in {"413", "400", "500"} : Goto(t, code)) /\ UNCHANGED given
              ELSE given' = [given EXCEPT ![t] = @ + n] /\ UNCHANGED pc
        BY <1>6 DEF Receive
  <2>2. CASE body_size'[t] > SizeLimit
        BY <1>6, <2>1, <2>2 DEF Receive
  <2>3. CASE ~(body_size'[t] > SizeLimit)
        BY <1>6, <2>1, <2>3 DEF Receive
  <2> QED BY <2>2, <2>3
<1>7. ASSUME NEW t \in Requests, Serve(t) PROVE DoorInv'
      BY <1>7 DEF Serve
<1>8. ASSUME NEW t \in Requests, Disconnect(t) PROVE DoorInv'
      BY <1>8 DEF Disconnect
<1>9. ASSUME NEW t \in Requests, Record(t) PROVE DoorInv'
      BY <1>9 DEF Record, Inserts
<1>10. ASSUME NEW t \in Requests, Lose(t) PROVE DoorInv'
      BY <1>10 DEF Lose, Inserts
<1>11. ASSUME NEW w \in Workers, Restart(w) PROVE DoorInv'
      BY <1>11 DEF Restart, Inserts
<1>12. CASE TimePasses
      BY <1>12 DEF TimePasses
<1>13. CASE UNCHANGED doorVars
      BY <1>13 DEF doorVars
<1> QED BY <1>1, <1>2, <1>3, <1>4, <1>5, <1>6, <1>7, <1>8, <1>9, <1>10, <1>11, <1>12, <1>13
        DEF DoorNext

LEMMA DoorInvariant == DoorSpec => []DoorInv
BY DoorStarts, DoorStep, PTL DEF DoorSpec

----------------------------------------------------------------------------
(* Every variable of the middlewares keeps to its type.                     *)
THEOREM TypesAreKept == DoorSpec => []DoorTypes
<1>1. DoorInv => DoorTypes
      BY DEF DoorInv
<1> QED BY <1>1, DoorInvariant, PTL

(* Whatever is declared and however the body is cut into chunks, no route   *)
(* is given more than the limit, and 413 is never said without cause.       *)
THEOREM SizesAreEnforced == DoorSpec => []BodiesAreBounded
<1>1. DoorInv => BodiesAreBounded
      BY DEF DoorInv
<1> QED BY <1>1, DoorInvariant, PTL

(* Suspicious events are refusals of the rate limiter, each at most once,   *)
(* and no other refusal is missing than one whose task is under way, failed *)
(* or died with its worker.                                                 *)
THEOREM EventsAreFaithful == DoorSpec => []EventsAreRefusals
<1>1. DoorInv => EventsAreRefusals
      BY DEF DoorInv
<1> QED BY <1>1, DoorInvariant, PTL
=============================================================================
