------------------------------- MODULE Users -------------------------------
(* POST /v1/admin/users (admin_create_user, app/routes/admin.py) with       *)
(* create_user (app/auth/service.py), and scripts/bootstrap_admin.py, for   *)
(* one email: several of them may run at once, in processes of a            *)
(* deployment whose secrets may be rotated.                                 *)
(*                                                                          *)
(* create_user commits the user before the handler writes the audit row and *)
(* commits a second time.  The script does not write an audit row.          *)
(*                                                                          *)
(* email_pseudonym is made with the salt of the process and email_encrypted *)
(* with its key.  Every SELECT of a user decrypts the email.                *)
EXTENDS Deployment

CONSTANTS
    Creators,        \* requests and runs of the script
    Scripts,         \* the runs of the script
    ProcessOf        \* ProcessOf[c]: where c runs

ASSUME ScriptsType == Scripts \subseteq Creators
ASSUME ProcessOfType == ProcessOf \in [Creators -> Processes]

VARIABLES
    pc,              \* where each creator stands
    under,           \* under[c]: the settings c computes with
    held,            \* transactions that have inserted the user
    users,           \* users with this email, by creator
    audited,         \* audit rows of the creation, by creator
    cut              \* history: creators cut off in the middle

accounts == <<held, users, audited>>
vars     == <<pc, under, accounts, cut, deployment>>

Awaiting == {"select", "insert", "commit", "refresh", "audit", "publish"}
Final    == {"201", "409", "500", "duplicate", "crypto"}

Goto(c, at) == pc' = [pc EXCEPT ![c] = at]

Init ==
    /\ pc      = [c \in Creators |-> "new"]
    /\ under   = [c \in Creators |-> Down]
    /\ held    = {}
    /\ users   = {}
    /\ audited = {}
    /\ cut     = {}
    /\ DeploymentInit

(* The users in C whose pseudonym is the one that settings s make.          *)
Alike(C, s) == {u \in C : under[u]["salt"] = s["salt"]}

(* encrypt_str seals with the key of u's process; decrypt_str fails under   *)
(* another one.                                                             *)
Decrypts(u, s) == under[u]["key"] = s["key"]

(* SELECT ... WHERE email_pseudonym = ..., under settings s.  A row that    *)
(* does not decrypt fails the query.                                        *)
Lookup(s) ==
    IF Alike(users, s) = {} THEN "none"
    ELSE IF \A u \in Alike(users, s) : Decrypts(u, s) THEN "found"
    ELSE "unreadable"

----------------------------------------------------------------------------
(* A request reaches create_user, or the script its main().                 *)
Start(c) ==
    /\ pc[c] = "new" /\ conf[ProcessOf[c]] # Down
    /\ under' = [under EXCEPT ![c] = conf[ProcessOf[c]]]
    /\ Goto(c, "select")
    /\ UNCHANGED <<accounts, cut, deployment>>

(* The SELECT.  If the user is there the script reports that there is       *)
(* nothing to do and exits with 0, and the handler answers 409; a CryptoError*)
(* is a 500 (_crypto_handler) or a traceback.                               *)
Select(c) ==
    /\ pc[c] = "select"
    /\ Goto(c, CASE Lookup(under[c]) = "none"       -> "insert"
                 [] Lookup(under[c]) = "found"      -> "409"
                 [] Lookup(under[c]) = "unreadable" -> "crypto")
    /\ UNCHANGED <<under, accounts, cut, deployment>>

(* Mutant: email_pseudonym is not declared unique.                          *)
InsertAnyway(c) ==
    /\ pc[c] = "insert"
    /\ held' = held \cup {c}
    /\ Goto(c, "commit")
    /\ UNCHANGED <<under, users, audited, cut, deployment>>

(* INSERT INTO users waits for a transaction that has inserted the same     *)
(* pseudonym; if that commits, IntegrityError, which nobody catches.        *)
Insert(c) ==
    /\ pc[c] = "insert" /\ Alike(held, under[c]) = {}
    /\ IF Alike(users, under[c]) # {}
       THEN Goto(c, "duplicate") /\ UNCHANGED held
       ELSE Goto(c, "commit") /\ held' = held \cup {c}
    /\ UNCHANGED <<under, users, audited, cut, deployment>>

(* Mutant: the connection goes back to the pool with its transaction open.  *)
CommitKeepsLock(c) ==
    /\ pc[c] = "commit"
    /\ users' = users \cup {c}
    /\ Goto(c, IF c \in Scripts THEN "201" ELSE "refresh")
    /\ UNCHANGED <<under, held, audited, cut, deployment>>

(* The first commit.  For the script it is the last thing to do.            *)
Commit(c) ==
    /\ pc[c] = "commit"
    /\ users' = users \cup {c}
    /\ held'  = held \ {c}
    /\ Goto(c, IF c \in Scripts THEN "201" ELSE "refresh")
    /\ UNCHANGED <<under, audited, cut, deployment>>

(* session.refresh(user): the row is read again.                            *)
Reread(c) ==
    /\ pc[c] = "refresh"
    /\ Goto(c, "audit")
    /\ UNCHANGED <<under, accounts, cut, deployment>>

(* Mutant: the handler answers as soon as the user is there.                *)
SkipAudit(c) ==
    /\ pc[c] = "audit"
    /\ Goto(c, "201")
    /\ UNCHANGED <<under, accounts, cut, deployment>>

(* write_audit (its own awaits are the subject of AuditChain) ...           *)
Audit(c) ==
    /\ pc[c] = "audit"
    /\ Goto(c, "publish")
    /\ UNCHANGED <<under, accounts, cut, deployment>>

(* ... and the second commit.                                               *)
Publish(c) ==
    /\ pc[c] = "publish"
    /\ audited' = audited \cup {c}
    /\ Goto(c, "201")
    /\ UNCHANGED <<under, held, users, cut, deployment>>

----------------------------------------------------------------------------
(* Whether a COMMIT on its way is carried out is only known later.          *)
Abort(at) ==
    CASE at = "commit"  -> "lostUser"
      [] at = "publish" -> "lostAudit"
      [] OTHER          -> "500"

(* Mutant: the handler compensates a failure by deleting the user.          *)
FailAndDelete(C) ==
    /\ pc'  = [c \in Creators |-> IF c \in C THEN Abort(pc[c]) ELSE pc[c]]
    /\ cut' = cut \cup C
    /\ users' = users \ C
    /\ UNCHANGED <<under, held, audited>>

(* The creators in C cannot go on.                                          *)
Fail(C) ==
    /\ pc'  = [c \in Creators |-> IF c \in C THEN Abort(pc[c]) ELSE pc[c]]
    /\ cut' = cut \cup C
    /\ UNCHANGED <<under, accounts>>

(* A statement of c raises.                                                 *)
Raise(c) == pc[c] \in Awaiting /\ Fail({c}) /\ UNCHANGED deployment

(* Process p dies with all that it is doing.                                *)
Die(p) == Stop(p) /\ Fail({c \in Creators : ProcessOf[c] = p /\ pc[c] \in Awaiting})

(* The database settles a transaction whose owner is gone.                  *)
SettleUser(c) ==
    /\ pc[c] = "lostUser"
    /\ users' \in {users, users \cup {c}}
    /\ held' = held \ {c}
    /\ Goto(c, "500")
    /\ UNCHANGED <<under, audited, cut, deployment>>

SettleAudit(c) ==
    /\ pc[c] = "lostAudit"
    /\ audited' \in {audited, audited \cup {c}}
    /\ Goto(c, "500")
    /\ UNCHANGED <<under, held, users, cut, deployment>>

Next ==
    \/ \E c \in Creators :
          \/ Start(c) \/ Select(c) \/ Insert(c) \/ Commit(c) \/ Reread(c)
          \/ Audit(c) \/ Publish(c) \/ Raise(c) \/ SettleUser(c) \/ SettleAudit(c)
    \/ \E p \in Processes : Die(p) \/ (Boot(p) /\ UNCHANGED <<pc, under, accounts, cut>>)
    \/ \E k \in Kinds : Edit(k) /\ UNCHANGED <<pc, under, accounts, cut>>

Spec == Init /\ [][Next]_vars

----------------------------------------------------------------------------
(* Only a transaction that waits for its commit holds its pseudonym, and    *)
(* nobody computes with settings that its process does not have.            *)
TypeOK ==
    /\ pc \in [Creators -> {"new"} \cup Awaiting \cup Final \cup {"lostUser", "lostAudit"}]
    /\ held = {c \in Creators : pc[c] \in {"commit", "lostUser"}}
    /\ users \subseteq Creators
    /\ audited \subseteq Creators \ Scripts
    /\ cut \subseteq Creators
    /\ \A c \in Creators :
          /\ pc[c] \in Awaiting => under[c] = conf[ProcessOf[c]]
          /\ pc[c] # "new" => \A k \in Kinds : under[c][k] \in used[k]

(* Check and insert are two steps, and still an email never gets a second   *)
(* account, from two requests, from a request and the script, or from a     *)
(* retry whose first try was carried out after all, unless the salt was     *)
(* rotated or made up by the processes in between.                          *)
OneAccount ==
    \A u, v \in users :
        u # v => ~Settled("salt") /\ under[u]["salt"] # under[v]["salt"]

(* Nobody is told a falsehood: 201 means that this request made the         *)
(* account and that its audit row is there; "exists" (409, or the violated  *)
(* constraint) means that somebody else's is.                               *)
AnswersAreTrue ==
    \A c \in Creators :
        /\ pc[c] = "201" => c \in users /\ (c \notin Scripts => c \in audited)
        /\ pc[c] \in {"409", "duplicate"} => Alike(users, under[c]) # {} /\ c \notin users

(* The trail never records the creation of an account that is not there,    *)
(* and an account that a request made lacks its audit row for good only if  *)
(* that request was cut off between its two commits.                        *)
TrailFollowsUsers ==
    /\ audited \subseteq users
    /\ \A c \in users \ (audited \cup Scripts) : pc[c] \in Final => c \in cut

(* An account can be used from every process (_find_user_by_email finds it, *)
(* and its email decrypts) as long as salt and key are settled; and one     *)
(* process's failure to decrypt is always the work of another key.          *)
AccountsAreReachable ==
    /\ users # {} /\ Settled("salt") /\ Settled("key") =>
          \A p \in Processes : conf[p] # Down => Lookup(conf[p]) = "found"
    /\ Settled("key") => \A c \in Creators : pc[c] # "crypto"
=============================================================================
