----------------------------- MODULE Sessions -----------------------------
(* Token pairs from login to logout: POST /v1/auth/login, /refresh and      *)
(* /logout (app/routes/auth.py), refresh_tokens and revoke_token            *)
(* (app/auth/service.py), and get_current_user (app/auth/deps.py), which    *)
(* guards every other route.                                                *)
(*                                                                          *)
(* Each await of a handler is a step: between two of them the event loop    *)
(* runs other requests, and other workers run theirs.  Checking the         *)
(* password is the subject of Lockout, the audit row that of AuditChain;    *)
(* here each is one await that may fail.                                    *)
(*                                                                          *)
(* A pair (access, refresh) is named by the request that issued it, and a   *)
(* token's jti by the pair and the token's type.                            *)
EXTENDS Naturals, FiniteSets

CONSTANTS
    Requests,        \* one HTTP request each
    Users,
    OpOf,            \* OpOf[t]: the endpoint; "read" is any guarded route,
                     \* "admin" any route below /v1/admin
    UserOf,          \* UserOf[t]: who logs in with t
    NoRequest,       \* no pair presented
    MaxExpired       \* bound on the tokens that expire in one behaviour

Ops == {"login", "refresh", "logout", "read", "admin"}

ASSUME OpOfType == OpOf \in [Requests -> Ops]
ASSUME UserOfType == UserOf \in [Requests -> Users]
ASSUME NoRequestIsNone == NoRequest \notin Requests
ASSUME MaxExpiredIsNat == MaxExpired \in Nat

VARIABLES
    pc,              \* where each request stands
    arg,             \* the pair whose token t presents
    hdr,             \* logout: the pair whose refresh it revokes as well
    family,          \* the login a pair descends from
    revoked,         \* revoked_tokens: jti is the primary key
    expired,         \* tokens past their exp
    active,          \* users.is_active
    admins,          \* users whose role is admin
    late             \* history: what t presents was void when t arrived

vars == <<pc, arg, hdr, family, revoked, expired, active, admins, late>>

Awaiting == {"check", "user", "insert", "issue", "revAccess", "revRefresh", "audit",
             "deny"}
Final    == {"ok", "denied", "error"}

Access(p)  == <<"access", p>>
Refresh(p) == <<"refresh", p>>
Jtis == {"access", "refresh"} \X Requests

(* The pair a request hands out, once it has answered 200.                  *)
Issuers == {t \in Requests : OpOf[t] \in {"login", "refresh"}}
Issued(p) == p \in Issuers /\ pc[p] = "ok"

(* The token a request presents, and whose it is.                           *)
Presented(t) == IF OpOf[t] = "refresh" THEN Refresh(arg[t]) ELSE Access(arg[t])
Owner(p) == UserOf[family[p]]

Goto(t, at) == pc' = [pc EXCEPT ![t] = at]

Init ==
    /\ pc      = [t \in Requests |-> "new"]
    /\ arg     = [t \in Requests |-> NoRequest]
    /\ hdr     = [t \in Requests |-> NoRequest]
    /\ family  = [t \in Requests |-> t]
    /\ revoked = {}
    /\ expired = {}
    /\ active  = Users
    /\ admins \in SUBSET Users
    /\ late    = {}

----------------------------------------------------------------------------
(* POST /login: authenticate loads the user and may refuse anybody, for the *)
(* password or a lock, or raise.  The pair is made, the audit row is        *)
(* committed, and only then is the pair sent.                               *)
Login(t) ==
    /\ OpOf[t] = "login" /\ pc[t] = "new"
    /\ \E at \in {"audit", "deny", "error"} :
          /\ at = "audit" => UserOf[t] \in active
          /\ Goto(t, at)
    /\ UNCHANGED <<arg, hdr, family, revoked, expired, active, admins, late>>

(* What get_current_user and require_role ask of the user: the role is that *)
(* of the row, not the claim of the token.                                  *)
Entitled(u, op) == u \in active /\ (op = "admin" => u \in admins)

(* A request arrives with the token of a pair that was issued: verify_token *)
(* is the first thing the handler does with it.                             *)
Arrive(t, p) ==
    /\ OpOf[t] # "login" /\ pc[t] = "new" /\ Issued(p)
    /\ arg'    = [arg EXCEPT ![t] = p]
    /\ family' = [family EXCEPT ![t] = family[p]]
    /\ LET jti == IF OpOf[t] = "refresh" THEN Refresh(p) ELSE Access(p)
       IN  /\ Goto(t, IF jti \in expired THEN "denied" ELSE "check")
           /\ late' = IF jti \in revoked \/ ~Entitled(Owner(p), OpOf[t])
                      THEN late \cup {t} ELSE late
    /\ IF OpOf[t] = "logout"
       THEN \E h \in Requests \cup {NoRequest} :
               /\ h # NoRequest => Issued(h)
               /\ hdr' = [hdr EXCEPT ![t] = h]
       ELSE UNCHANGED hdr
    /\ UNCHANGED <<revoked, expired, active, admins>>

(* Mutant: the list of revoked tokens is not consulted.                     *)
SkipRevoked(t) ==
    /\ pc[t] = "check"
    /\ Goto(t, "user")
    /\ UNCHANGED <<arg, hdr, family, revoked, expired, active, admins, late>>

(* SELECT jti FROM revoked_tokens, in get_current_user and refresh_tokens.  *)
CheckRevoked(t) ==
    /\ pc[t] = "check"
    /\ Goto(t, IF Presented(t) \in revoked THEN "denied" ELSE "user")
    /\ UNCHANGED <<arg, hdr, family, revoked, expired, active, admins, late>>

(* SELECT FROM users, and on to what the endpoint does.                     *)
AfterUser == [refresh |-> "insert", logout |-> "revAccess",
              read |-> "audit", admin |-> "audit"]

CheckUser(t) ==
    /\ pc[t] = "user"
    /\ Goto(t, IF Entitled(Owner(arg[t]), OpOf[t]) THEN AfterUser[OpOf[t]] ELSE "denied")
    /\ UNCHANGED <<arg, hdr, family, revoked, expired, active, admins, late>>

(* Mutant: INSERT ... ON CONFLICT DO NOTHING.                               *)
RevokeOrIgnore(t, jti, next) ==
    Goto(t, next) /\ revoked' = revoked \cup {jti}

(* INSERT INTO revoked_tokens and commit: a jti that is there already       *)
(* violates the primary key, which no handler catches (500).                *)
Revoke(t, jti, next) ==
    IF jti \in revoked
    THEN Goto(t, "error") /\ UNCHANGED revoked
    ELSE Goto(t, next) /\ revoked' = revoked \cup {jti}

(* refresh_tokens revokes the token it was given ...                        *)
RotateOut(t) ==
    /\ pc[t] = "insert"
    /\ Revoke(t, Refresh(arg[t]), "issue")
    /\ UNCHANGED <<arg, hdr, family, expired, active, admins, late>>

(* ... and then issues the next pair.                                       *)
RotateIn(t) ==
    /\ pc[t] = "issue"
    /\ Goto(t, "ok")
    /\ UNCHANGED <<arg, hdr, family, revoked, expired, active, admins, late>>

(* Mutant: the header is used without asking whether it is there.           *)
LogoutAccessAnyHeader(t) ==
    /\ pc[t] = "revAccess"
    /\ Revoke(t, Access(arg[t]), "revRefresh")
    /\ UNCHANGED <<arg, hdr, family, expired, active, admins, late>>

(* Mutant: the header is verified and nothing is done with it.              *)
LogoutAccessOnly(t) ==
    /\ pc[t] = "revAccess"
    /\ Revoke(t, Access(arg[t]), "audit")
    /\ UNCHANGED <<arg, hdr, family, expired, active, admins, late>>

(* /logout revokes the access token; then it verifies the refresh token of  *)
(* the header, if there is one, and forgets it when it does not verify.     *)
LogoutAccess(t) ==
    /\ pc[t] = "revAccess"
    /\ LET accepted == hdr[t] # NoRequest /\ Refresh(hdr[t]) \notin expired
       IN  /\ Revoke(t, Access(arg[t]), IF accepted THEN "revRefresh" ELSE "audit")
           /\ hdr' = IF accepted THEN hdr ELSE [hdr EXCEPT ![t] = NoRequest]
    /\ UNCHANGED <<arg, family, expired, active, admins, late>>

LogoutRefresh(t) ==
    /\ pc[t] = "revRefresh"
    /\ Revoke(t, Refresh(hdr[t]), "audit")
    /\ UNCHANGED <<arg, hdr, family, expired, active, admins, late>>

(* The last await, be it the audit row and its commit or the query of a     *)
(* guarded route, and the answer.                                           *)
Answer(t) ==
    /\ pc[t] = "audit"
    /\ Goto(t, "ok")
    /\ UNCHANGED <<arg, hdr, family, revoked, expired, active, admins, late>>

(* A denied login has its audit row too, committed before the 401.          *)
Deny(t) ==
    /\ pc[t] = "deny"
    /\ Goto(t, "denied")
    /\ UNCHANGED <<arg, hdr, family, revoked, expired, active, admins, late>>

----------------------------------------------------------------------------
(* The database or the worker fails under t.  A commit on its way may have  *)
(* been carried out.                                                        *)
Writes(t) ==
    CASE pc[t] = "insert"     -> {Refresh(arg[t])}
      [] pc[t] = "revAccess"  -> {Access(arg[t])}
      [] pc[t] = "revRefresh" -> {Refresh(hdr[t])}
      [] OTHER                -> {}

Fail(t) ==
    /\ pc[t] \in Awaiting
    /\ Goto(t, "error")
    /\ revoked' \in {revoked, revoked \cup Writes(t)}
    /\ UNCHANGED <<arg, hdr, family, expired, active, admins, late>>

(* Time passes the exp of a token.                                          *)
Expire(jti) ==
    /\ jti \notin expired /\ Issued(jti[2])
    /\ Cardinality(expired) < MaxExpired
    /\ expired' = expired \cup {jti}
    /\ UNCHANGED <<pc, arg, hdr, family, revoked, active, admins, late>>

(* An operator clears users.is_active; nothing in src/ does.                *)
Deactivate(u) ==
    /\ u \in active
    /\ active' = active \ {u}
    /\ UNCHANGED <<pc, arg, hdr, family, revoked, expired, admins, late>>

(* An operator gives an admin another role; nothing in src/ does.           *)
Demote(u) ==
    /\ u \in admins
    /\ admins' = admins \ {u}
    /\ UNCHANGED <<pc, arg, hdr, family, revoked, expired, active, late>>

Next ==
    \/ \E t \in Requests :
          \/ Login(t) \/ CheckRevoked(t) \/ CheckUser(t) \/ RotateOut(t) \/ RotateIn(t)
          \/ LogoutAccess(t) \/ LogoutRefresh(t) \/ Answer(t) \/ Deny(t) \/ Fail(t)
          \/ \E p \in Requests : Arrive(t, p)
    \/ \E jti \in Jtis : Expire(jti)
    \/ \E u \in Users : Deactivate(u) \/ Demote(u)

Spec == Init /\ [][Next]_vars

----------------------------------------------------------------------------
TypeOK ==
    /\ pc \in [Requests -> {"new"} \cup Awaiting \cup Final]
    /\ arg \in [Requests -> Requests \cup {NoRequest}]
    /\ hdr \in [Requests -> Requests \cup {NoRequest}]
    /\ family \in [Requests -> Requests]
    /\ revoked \subseteq Jtis
    /\ expired \subseteq Jtis
    /\ active \subseteq Users /\ admins \subseteq Users
    /\ late \subseteq Requests

(* A refresh token in the hands of a client that would still be rotated.    *)
Live(p) == Issued(p) /\ Refresh(p) \notin revoked

(* Rotation never forks: of all the pairs that descend from one login, at   *)
(* most one refresh token is not revoked, however many requests present the *)
(* same token at once or fail on the way (refresh_tokens, revoke_token).    *)
OneLivePerFamily ==
    \A p, q \in Requests :
        Live(p) /\ Live(q) /\ family[p] = family[q] => p = q

(* A logout that answers 204 after accepting a refresh token ends the whole *)
(* session: no later and no concurrent rotation leaves a live token in that *)
(* family.                                                                  *)
Ended(f) ==
    \E t \in Requests :
        /\ OpOf[t] = "logout" /\ pc[t] = "ok"
        /\ hdr[t] # NoRequest /\ family[hdr[t]] = f

LogoutEndsFamily == \A p \in Requests : Live(p) => ~Ended(family[p])

(* A request whose token was revoked, or whose user was deactivated or lost *)
(* the role that the route asks for, before it arrived is never served,     *)
(* whatever its token claims (get_current_user, require_role,               *)
(* refresh_tokens).                                                         *)
VoidIsRefused == \A t \in late : pc[t] # "ok"

(* What a family looks like from outside: no session yet, one refresh token *)
(* with the client, one rotation between commit and answer, or over.        *)
PhaseOf(f) ==
    IF pc[f] # "ok" THEN "none"
    ELSE IF \E p \in Requests : Live(p) /\ family[p] = f THEN "held"
    ELSE IF \E t \in Requests : pc[t] = "issue" /\ family[t] = f THEN "moving"
    ELSE "over"

Logins == {t \in Requests : OpOf[t] = "login"}

Phases == INSTANCE SessionPhases WITH phase <- [f \in Logins |-> PhaseOf(f)]
PhasesSpec == Phases!Spec
=============================================================================
