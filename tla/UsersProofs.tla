---------------------------- MODULE UsersProofs ----------------------------
(* Proofs about Users, and about Deployment underneath it, for any set of   *)
(* creators, processes and secrets, and any number of restarts and changes  *)
(* of the environment.                                                      *)
EXTENDS Users, TLAPS

Secrets == {FromEnv(n) : n \in Nat} \cup (Processes \X Nat)

(* A process has what some process once had, and one settled secret is all  *)
(* there ever was of its kind.                                              *)
DeploymentInv ==
    /\ production \in BOOLEAN /\ valid \in BOOLEAN
    /\ env \in [Kinds -> Nat]
    /\ boots \in [Processes -> Nat]
    /\ edits \in Nat
    /\ conf \in [Processes -> {Down} \cup [Kinds -> Secrets]]
    /\ used \in [Kinds -> SUBSET Secrets]
    /\ \A p \in Processes : conf[p] # Down => \A k \in Kinds : conf[p][k] \in used[k]
    /\ OneSecret

LEMMA DeploymentStarts == DeploymentInit => DeploymentInv
BY DeploymentBounds DEF DeploymentInit, DeploymentInv, OneSecret

LEMMA BootStep ==
    ASSUME DeploymentInv, NEW p \in Processes, Boot(p)
    PROVE  /\ DeploymentInv'
           /\ \A k \in Kinds : used[k] \subseteq used'[k]
           /\ \A q \in Processes \ {p} : conf'[q] = conf[q]
<1>1. \A k \in Kinds : Secret(p, k) \in Secrets
      BY DEF DeploymentInv, Secret, Secrets
<1>2. /\ conf' \in [Processes -> {Down} \cup [Kinds -> Secrets]]
      /\ used' \in [Kinds -> SUBSET Secrets]
      /\ boots' \in [Processes -> Nat]
      BY <1>1 DEF DeploymentInv, Boot
<1>3. \A q \in Processes : conf'[q] # Down => \A k \in Kinds : conf'[q][k] \in used'[k]
      BY DEF DeploymentInv, Boot
<1>4. OneSecret'
  <2>1. ASSUME NEW k \in Kinds, Settled(k)' PROVE Secret(p, k) = FromEnv(env[k])
        BY <2>1 DEF Boot, Accepts, Settled, Secret
  <2>2. ASSUME NEW k \in Kinds PROVE Settled(k)' = Settled(k)
        BY DEF Boot, Settled
  <2>3. ASSUME NEW k \in Kinds PROVE used'[k] = used[k] \cup {Secret(p, k)}
        BY DEF Boot
  <2>4. env' = env
        BY DEF Boot
  <2> QED BY <2>1, <2>2, <2>3, <2>4 DEF OneSecret, DeploymentInv
<1>5. \A k \in Kinds : used[k] \subseteq used'[k]
      BY DEF DeploymentInv, Boot
<1>6. \A q \in Processes \ {p} : conf'[q] = conf[q]
      BY DEF DeploymentInv, Boot
<1>7. UNCHANGED <<production, env, valid, edits>>
      BY DEF Boot
<1> QED BY <1>2, <1>3, <1>4, <1>5, <1>6, <1>7 DEF DeploymentInv

LEMMA StopStep ==
    ASSUME DeploymentInv, NEW p \in Processes, Stop(p)
    PROVE  /\ DeploymentInv'
           /\ used' = used
           /\ \A q \in Processes \ {p} : conf'[q] = conf[q]
BY DEF DeploymentInv, Stop, OneSecret, Settled

LEMMA EditStep ==
    ASSUME DeploymentInv, NEW k \in Kinds, Edit(k)
    PROVE  DeploymentInv' /\ used' = used /\ conf' = conf
<1>1. PICK n \in Nat : env' = [env EXCEPT ![k] = n]
  <2>1. 0 \in Nat /\ edits + 2 \in Nat
        BY DEF DeploymentInv
  <2> QED BY <2>1 DEF Edit
<1>2. used' = used /\ conf' = conf /\ boots' = boots /\ production' = production
      BY DEF Edit
<1>3. OneSecret'
  <2>1. ASSUME NEW j \in Kinds, Settled(j)' PROVE Settled(j) /\ env'[j] = env[j]
        BY <1>1, <2>1 DEF DeploymentInv, Edit, Settled
  <2> QED BY <1>2, <2>1 DEF OneSecret, DeploymentInv
<1>4. env' \in [Kinds -> Nat] /\ edits' \in Nat /\ valid' \in BOOLEAN
      BY <1>1 DEF DeploymentInv, Edit
<1> QED BY <1>2, <1>3, <1>4 DEF DeploymentInv

----------------------------------------------------------------------------
(* What a creator has done so far shows in where it stands.                 *)
Past == {"refresh", "audit", "publish", "lostAudit", "201"}

PathsAgree ==
    \A c \in Creators :
        /\ pc[c] \in Past => c \in users
        /\ c \in users => pc[c] \in Past \cup {"500"}
        /\ pc[c] \in Past \ {"201"} => c \notin Scripts
        /\ pc[c] = "201" => c \in audited \cup Scripts
        /\ pc[c] \in {"409", "duplicate"} => Alike(users, under[c]) # {}
        /\ pc[c] = "crypto" => \E u \in users : under[u]["key"] # under[c]["key"]
        /\ pc[c] \in {"500", "lostUser", "lostAudit"} => c \in cut
        /\ pc[c] \in Awaiting => conf[ProcessOf[c]] # Down

(* A pseudonym belongs to one account or to one open transaction.           *)
OneOwner ==
    \A c, d \in users \cup held : under[c]["salt"] = under[d]["salt"] => c = d

AccountsInv ==
    /\ TypeOK
    /\ under \in [Creators -> {Down} \cup [Kinds -> Secrets]]
    /\ PathsAgree
    /\ OneOwner
    /\ users \cap held = {}
    /\ audited \subseteq users

UsersInv == DeploymentInv /\ AccountsInv

LEMMA UsersInit == Init => UsersInv
<1>1. Init => AccountsInv
      BY DEF Init, AccountsInv, TypeOK, PathsAgree, OneOwner, Past, Awaiting, Final
<1> QED BY <1>1, DeploymentStarts DEF Init, UsersInv

(* The steps of a creator leave the deployment alone ...                    *)
LEMMA CreatorStep ==
    ASSUME UsersInv, NEW c \in Creators,
           \/ Start(c) \/ Select(c) \/ Insert(c) \/ Commit(c) \/ Reread(c)
           \/ Audit(c) \/ Publish(c) \/ SettleUser(c) \/ SettleAudit(c)
    PROVE  UsersInv'
<1> USE ProcessOfType, ScriptsType, KindsType DEF UsersInv
<1>1. deployment' = deployment
      BY DEF Start, Select, Insert, Commit, Reread, Audit, Publish, SettleUser, SettleAudit
<1>2. DeploymentInv'
      BY <1>1 DEF deployment, DeploymentInv, OneSecret, Settled
<1>3. conf' = conf /\ used' = used
      BY <1>1 DEF deployment
<1> USE DEF AccountsInv, TypeOK, PathsAgree, OneOwner, Past, Awaiting, Final, Goto, Alike, accounts
<1>4. CASE Start(c)
  <2>1. under'[c] = conf[ProcessOf[c]] /\ conf[ProcessOf[c]] # Down
        BY <1>4 DEF Start
  <2>2. \A k \in Kinds : under'[c][k] \in used[k]
        BY <2>1 DEF DeploymentInv
  <2>3. c \notin users \cup held /\ \A d \in Creators \ {c} : under'[d] = under[d]
        BY <1>4 DEF Start
  <2>4. under' \in [Creators -> {Down} \cup [Kinds -> Secrets]]
        BY <1>4 DEF Start, DeploymentInv
  <2> QED BY <1>2, <1>3, <1>4, <2>1, <2>2, <2>3, <2>4 DEF Start
<1>5. CASE Select(c)
      BY <1>2, <1>3, <1>5 DEF Select, Lookup, Decrypts
<1>6. CASE Insert(c)
      BY <1>2, <1>3, <1>6 DEF Insert
<1>7. CASE Commit(c)
      BY <1>2, <1>3, <1>7 DEF Commit
<1>8. CASE Reread(c)
      BY <1>2, <1>3, <1>8 DEF Reread
<1>9. CASE Audit(c)
      BY <1>2, <1>3, <1>9 DEF Audit
<1>10. CASE Publish(c)
      BY <1>2, <1>3, <1>10 DEF Publish
<1>11. CASE SettleUser(c)
      BY <1>2, <1>3, <1>11 DEF SettleUser
<1>12. CASE SettleAudit(c)
      BY <1>2, <1>3, <1>12 DEF SettleAudit
<1> QED BY <1>4, <1>5, <1>6, <1>7, <1>8, <1>9, <1>10, <1>11, <1>12

(* ... creators that are cut off leave the tables alone ...                 *)
LEMMA FailStep ==
    ASSUME AccountsInv, NEW C \in SUBSET Creators, Fail(C),
           \A c \in C : pc[c] \in Awaiting,
           used' = used,
           \A c \in Creators : pc'[c] \in Awaiting => conf'[ProcessOf[c]] = conf[ProcessOf[c]]
    PROVE  AccountsInv'
<1> USE ProcessOfType, ScriptsType
    DEF AccountsInv, TypeOK, PathsAgree, OneOwner, Past, Awaiting, Final, Alike, accounts
<1>1. \A c \in Creators : pc'[c] = IF c \in C THEN Abort(pc[c]) ELSE pc[c]
      BY DEF Fail
<1>2. \A c \in C : Abort(pc[c]) \in {"lostUser", "lostAudit", "500"}
      BY DEF Abort
<1>3. UNCHANGED <<under, held, users, audited>> /\ cut' = cut \cup C
      BY DEF Fail
<1>4. \A c \in Creators : pc'[c] \in {"commit", "lostUser"} <=> pc[c] \in {"commit", "lostUser"}
      BY <1>1 DEF Abort
<1>5. \A c \in C : pc'[c] = "lostAudit" => pc[c] = "publish"
      BY <1>1 DEF Abort
<1>6. \A c \in Creators : pc'[c] \in Past => pc[c] \in Past
      BY <1>1 DEF Abort
<1>7. \A c \in C : pc[c] \in Past => pc'[c] \in Past \cup {"500"}
      BY <1>1 DEF Abort
<1>8. TypeOK'
  <2>1. pc' \in [Creators -> {"new"} \cup Awaiting \cup Final \cup {"lostUser", "lostAudit"}]
        BY <1>1, <1>2 DEF Fail
  <2>2. held' = {c \in Creators : pc'[c] \in {"commit", "lostUser"}}
        BY <1>3, <1>4
  <2>3. \A c \in Creators : pc'[c] \in Awaiting => pc'[c] = pc[c]
        BY <1>1, <1>2
  <2>4. \A c \in Creators : pc'[c] \in Awaiting => under'[c] = conf'[ProcessOf[c]]
        BY <1>3, <2>3
  <2>5. \A c \in Creators : pc'[c] # "new" => pc[c] # "new"
        BY <1>1
  <2> QED BY <1>3, <2>1, <2>2, <2>4, <2>5
<1>9. PathsAgree'
      BY <1>1, <1>2, <1>3, <1>5, <1>6, <1>7
<1>10. OneOwner'
      BY <1>3
<1> QED BY <1>3, <1>8, <1>9, <1>10

(* ... and a start or a change of the environment leaves them all alone.    *)
LEMMA QuietStep ==
    ASSUME AccountsInv, UNCHANGED <<pc, under, accounts, cut>>,
           \A k \in Kinds : used[k] \subseteq used'[k],
           \A p \in Processes : conf[p] # Down => conf'[p] = conf[p]
    PROVE  AccountsInv'
BY ProcessOfType DEF AccountsInv, TypeOK, PathsAgree, OneOwner, Alike, accounts

LEMMA UsersStep == UsersInv /\ [Next]_vars => UsersInv'
<1> SUFFICES ASSUME UsersInv, [Next]_vars PROVE UsersInv'
    OBVIOUS
<1>1. CASE UNCHANGED vars
      BY <1>1 DEF vars, accounts, deployment, UsersInv, DeploymentInv, OneSecret, Settled,
         AccountsInv, TypeOK, PathsAgree, OneOwner, Alike
<1>2. ASSUME NEW c \in Creators, Raise(c) PROVE UsersInv'
  <2>1. Fail({c}) /\ deployment' = deployment /\ pc[c] \in Awaiting
        BY <1>2 DEF Raise
  <2>2. DeploymentInv' /\ used' = used /\ conf' = conf
        BY <2>1 DEF deployment, UsersInv, DeploymentInv, OneSecret, Settled
  <2> QED BY <2>1, <2>2, FailStep DEF UsersInv
<1>3. ASSUME NEW p \in Processes, Die(p) PROVE UsersInv'
  <2> DEFINE C == {c \in Creators : ProcessOf[c] = p /\ pc[c] \in Awaiting}
  <2>1. Stop(p) /\ Fail(C)
        BY <1>3 DEF Die
  <2>2. DeploymentInv' /\ used' = used /\ \A q \in Processes \ {p} : conf'[q] = conf[q]
        BY <2>1, StopStep DEF UsersInv
  <2>3. ASSUME NEW c \in Creators, pc'[c] \in Awaiting PROVE ProcessOf[c] # p
    <3>1. c \notin C
          BY <2>1, <2>3 DEF Fail, Abort, Awaiting
    <3>2. pc'[c] = pc[c]
          BY <2>1, <3>1 DEF Fail
    <3> QED BY <2>3, <3>1, <3>2
  <2>4. \A c \in Creators : pc'[c] \in Awaiting => conf'[ProcessOf[c]] = conf[ProcessOf[c]]
        BY <2>2, <2>3, ProcessOfType
  <2>5. C \in SUBSET Creators /\ \A c \in C : pc[c] \in Awaiting
        OBVIOUS
  <2> HIDE DEF C
  <2> QED BY <2>1, <2>2, <2>4, <2>5, FailStep DEF UsersInv
<1>4. ASSUME NEW p \in Processes, Boot(p), UNCHANGED <<pc, under, accounts, cut>> PROVE UsersInv'
  <2>1. conf[p] = Down
        BY <1>4 DEF Boot
  <2> QED BY <1>4, <2>1, BootStep, QuietStep DEF UsersInv
<1>5. ASSUME NEW k \in Kinds, Edit(k), UNCHANGED <<pc, under, accounts, cut>> PROVE UsersInv'
      BY <1>5, EditStep, QuietStep DEF UsersInv
<1> QED BY <1>1, <1>2, <1>3, <1>4, <1>5, CreatorStep DEF Next

LEMMA UsersInvariant == Spec => []UsersInv
BY UsersInit, UsersStep, PTL DEF Spec

----------------------------------------------------------------------------
(* Every variable keeps to its type, only a transaction that waits for its  *)
(* commit holds the pseudonym, and a creator has its process's settings.    *)
THEOREM TypeCorrect == Spec => []TypeOK
<1>1. UsersInv => TypeOK
      BY DEF UsersInv, AccountsInv
<1> QED BY <1>1, UsersInvariant, PTL

(* A secret that is set in the environment, as it must be in production,    *)
(* and that is not changed, is the only one of its kind any process ever    *)
(* has.                                                                     *)
THEOREM SecretsAreShared == Spec => []OneSecret
<1>1. UsersInv => OneSecret
      BY DEF UsersInv, DeploymentInv
<1> QED BY <1>1, UsersInvariant, PTL

(* The accounts were all made with settings that some process had.          *)
LEMMA SettledAlike ==
    ASSUME UsersInv, NEW k \in Kinds, Settled(k), NEW u \in Creators, pc[u] # "new"
    PROVE  under[u][k] = FromEnv(env[k])
BY DEF UsersInv, DeploymentInv, AccountsInv, TypeOK, OneSecret

(* create_user and the script never make two accounts for one email, in     *)
(* whatever processes they run, while the salt is the same.                 *)
THEOREM AccountsAreUnique == Spec => []OneAccount
<1>1. ASSUME UsersInv, NEW u \in users, NEW v \in users, u # v
      PROVE  ~Settled("salt") /\ under[u]["salt"] # under[v]["salt"]
  <2>1. u \in Creators /\ v \in Creators /\ pc[u] # "new" /\ pc[v] # "new"
        BY <1>1 DEF UsersInv, AccountsInv, TypeOK, PathsAgree, Past
  <2>2. under[u]["salt"] # under[v]["salt"]
        BY <1>1 DEF UsersInv, AccountsInv, OneOwner
  <2> QED BY <1>1, <2>1, <2>2, SettledAlike, KindsType
<1>2. UsersInv => OneAccount
      BY <1>1 DEF OneAccount
<1> QED BY <1>2, UsersInvariant, PTL

(* The answers of admin_create_user and of the script are true of the       *)
(* tables from the moment they are given.                                   *)
THEOREM AnswersStayTrue == Spec => []AnswersAreTrue
<1>1. UsersInv => AnswersAreTrue
      BY DEF UsersInv, AccountsInv, PathsAgree, AnswersAreTrue, Past
<1> QED BY <1>1, UsersInvariant, PTL

(* Only a request cut off between its two commits leaves an account out of  *)
(* the trail, and the trail names no account that is not there.             *)
THEOREM TrailIsFaithful == Spec => []TrailFollowsUsers
<1>1. UsersInv => TrailFollowsUsers
      BY DEF UsersInv, AccountsInv, TypeOK, PathsAgree, TrailFollowsUsers, Past, Awaiting, Final
<1> QED BY <1>1, UsersInvariant, PTL

(* While salt and key are settled every process finds the account of the    *)
(* email and can decrypt it, and no creation fails for a key.               *)
THEOREM AccountsStayReachable == Spec => []AccountsAreReachable
<1>1. ASSUME UsersInv PROVE \A u \in users : u \in Creators /\ pc[u] # "new"
      BY <1>1 DEF UsersInv, AccountsInv, TypeOK, PathsAgree, Past
<1>2. ASSUME UsersInv, users # {}, Settled("salt"), Settled("key"),
             NEW p \in Processes, conf[p] # Down
      PROVE  Lookup(conf[p]) = "found"
  <2>1. conf[p]["salt"] = FromEnv(env["salt"]) /\ conf[p]["key"] = FromEnv(env["key"])
        BY <1>2, KindsType DEF UsersInv, DeploymentInv, OneSecret
  <2>2. \A u \in users : under[u]["salt"] = conf[p]["salt"] /\ under[u]["key"] = conf[p]["key"]
        BY <1>1, <1>2, <2>1, SettledAlike, KindsType
  <2>3. Alike(users, conf[p]) = users
        BY <2>2 DEF Alike
  <2> QED BY <1>2, <2>2, <2>3 DEF Lookup, Decrypts
<1>3. ASSUME UsersInv, Settled("key"), NEW c \in Creators, pc[c] = "crypto"
      PROVE  FALSE
  <2>1. PICK u \in users : under[u]["key"] # under[c]["key"]
        BY <1>3 DEF UsersInv, AccountsInv, PathsAgree
  <2>2. under[u]["key"] = FromEnv(env["key"]) /\ under[c]["key"] = FromEnv(env["key"])
        BY <1>1, <1>3, SettledAlike, KindsType
  <2> QED BY <2>1, <2>2
<1>4. UsersInv => AccountsAreReachable
      BY <1>2, <1>3 DEF AccountsAreReachable
<1> QED BY <1>4, UsersInvariant, PTL
=============================================================================
