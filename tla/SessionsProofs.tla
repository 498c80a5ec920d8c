-------------------------- MODULE SessionsProofs --------------------------
(* Proofs about Sessions for any set of requests, users and endpoints.      *)
EXTENDS Sessions, TLAPS

(* Each endpoint stays on its own path.                                     *)
Path(op) ==
    CASE op = "login"   -> {"new", "audit", "deny"} \cup Final
      [] op = "refresh" -> {"new", "check", "user", "insert", "issue"} \cup Final
      [] op = "logout"  -> {"new", "check", "user", "revAccess", "revRefresh", "audit"}
                              \cup Final
      [] op \in {"read", "admin"} -> {"new", "check", "user", "audit"} \cup Final

OnPath == \A t \in Requests : pc[t] \in Path(OpOf[t])

(* A request that arrived with a token belongs to the family of a pair that *)
(* was issued; the root of every family in use has answered.                *)
Arrived(t) == OpOf[t] # "login" /\ pc[t] # "new"

Descends ==
    \A t \in Requests :
        /\ OpOf[t] = "login" => family[t] = t
        /\ Arrived(t) => /\ arg[t] \in Requests /\ Issued(arg[t])
                         /\ family[t] = family[arg[t]]
        /\ Arrived(t) => /\ OpOf[family[t]] = "login"
                         /\ pc[family[t]] = "ok"

HeadersIssued ==
    \A t \in Requests :
        /\ hdr[t] # NoRequest => Issued(hdr[t])
        /\ pc[t] = "revRefresh" => hdr[t] # NoRequest

RevokedIssued == \A j \in revoked : Issued(j[2])

(* Who holds the session of a family: the pair that can be rotated, or the  *)
(* rotation that is under way.                                              *)
Holds(t) == Live(t) \/ pc[t] = "issue"

OneHolder ==
    \A t, v \in Requests :
        Holds(t) /\ Holds(v) /\ family[t] = family[v] => t = v

(* Once a logout has revoked a refresh token, nobody holds the session.     *)
LogoutLeavesNone ==
    \A t, v \in Requests :
        /\ OpOf[t] = "logout" /\ pc[t] \in {"audit", "ok"} /\ hdr[t] # NoRequest
        /\ Holds(v)
        => family[v] # family[hdr[t]]

(* What makes a late request void does not go away.                         *)
LateIsVoid ==
    \A t \in late :
        /\ Arrived(t)
        /\ pc[t] \in {"check", "user", "denied", "error"}
        /\ pc[t] = "check" => Presented(t) \in revoked \/ ~Entitled(Owner(arg[t]), OpOf[t])
        /\ pc[t] = "user" => ~Entitled(Owner(arg[t]), OpOf[t])

SessionInv ==
    /\ TypeOK
    /\ OnPath
    /\ Descends
    /\ HeadersIssued
    /\ RevokedIssued
    /\ OneHolder
    /\ LogoutLeavesNone
    /\ LateIsVoid

----------------------------------------------------------------------------
LEMMA InvInit == Init => SessionInv
<1> SUFFICES ASSUME Init PROVE SessionInv
    OBVIOUS
<1>1. TypeOK
      BY DEF Init, TypeOK
<1>2. OnPath
      BY OpOfType DEF Init, OnPath, Path, Ops
<1>3. Descends /\ HeadersIssued /\ RevokedIssued
      BY DEF Init, Descends, Arrived, HeadersIssued, RevokedIssued
<1>4. OneHolder /\ LogoutLeavesNone /\ LateIsVoid
      BY DEF Init, OneHolder, LogoutLeavesNone, LateIsVoid, Holds, Live, Issued
<1> QED BY <1>1, <1>2, <1>3, <1>4 DEF SessionInv

(* The tokens that a request may be about to revoke were all issued.        *)
LEMMA WritesIssued ==
    ASSUME SessionInv, NEW t \in Requests
    PROVE  /\ pc[t] = "insert" =>
                 /\ OpOf[t] = "refresh" /\ arg[t] \in Requests
                 /\ Issued(arg[t]) /\ Refresh(arg[t]) \in Jtis
           /\ pc[t] = "revAccess" =>
                 /\ OpOf[t] = "logout" /\ arg[t] \in Requests
                 /\ Issued(arg[t]) /\ Access(arg[t]) \in Jtis
           /\ pc[t] = "revRefresh" =>
                 /\ OpOf[t] = "logout" /\ hdr[t] \in Requests
                 /\ Issued(hdr[t]) /\ Refresh(hdr[t]) \in Jtis
<1>1. OpOf[t] \in Ops /\ pc[t] \in Path(OpOf[t])
      BY OpOfType DEF SessionInv, OnPath
<1>2. /\ pc[t] = "insert" => OpOf[t] = "refresh"
      /\ pc[t] = "revAccess" => OpOf[t] = "logout"
      /\ pc[t] = "revRefresh" => OpOf[t] = "logout"
      BY <1>1 DEF Path, Ops, Final
<1>3. \A p : Issued(p) => p \in Requests /\ Refresh(p) \in Jtis /\ Access(p) \in Jtis
      BY DEF Issued, Issuers, Jtis, Refresh, Access
<1> QED BY <1>2, <1>3 DEF SessionInv, Descends, Arrived, HeadersIssued

(* What a step does to the rows of revoked_tokens.                          *)
LEMMA RevokedGrows ==
    ASSUME SessionInv, [Next]_vars
    PROVE  /\ revoked \subseteq revoked'
           /\ \A j \in revoked' : j \in revoked \/ (j \in Jtis /\ Issued(j[2]))
<1> USE WritesIssued DEF Refresh, Access
<1>1. ASSUME NEW t \in Requests, RotateOut(t) \/ LogoutAccess(t) \/ LogoutRefresh(t)
      PROVE  \/ revoked' = revoked
             \/ \E j \in Jtis : Issued(j[2]) /\ revoked' = revoked \cup {j}
      BY <1>1 DEF RotateOut, LogoutAccess, LogoutRefresh, Revoke
<1>2. ASSUME NEW t \in Requests, Fail(t)
      PROVE  \/ revoked' = revoked
             \/ \E j \in Jtis : Issued(j[2]) /\ revoked' = revoked \cup {j}
      BY <1>2 DEF Fail, Writes
<1>3. \/ revoked' = revoked
      \/ \E j \in Jtis : Issued(j[2]) /\ revoked' = revoked \cup {j}
      BY <1>1, <1>2 DEF Next, vars, Login, Arrive, CheckRevoked, CheckUser, RotateIn,
                        Answer, Deny, Expire, Deactivate, Demote
<1> QED BY <1>3

(* An answer is final: what was issued stays issued.                        *)
LEMMA AnswersStay ==
    ASSUME SessionInv, [Next]_vars, NEW p \in Requests, pc[p] = "ok"
    PROVE  pc'[p] = "ok"
<1> USE DEF SessionInv, TypeOK, Goto, Awaiting
<1>1. ASSUME NEW t \in Requests, RotateOut(t) \/ LogoutAccess(t) \/ LogoutRefresh(t)
      PROVE  pc'[p] = "ok"
      BY <1>1 DEF RotateOut, LogoutAccess, LogoutRefresh, Revoke
<1>2. ASSUME NEW t \in Requests, Fail(t) PROVE pc'[p] = "ok"
      BY <1>2 DEF Fail
<1> QED BY <1>1, <1>2 DEF Next, vars, Login, Arrive, CheckRevoked, CheckUser, RotateIn,
                        Answer, Deny, Expire, Deactivate, Demote

LEMMA TypeStep == SessionInv /\ [Next]_vars => TypeOK'
<1> SUFFICES ASSUME SessionInv, [Next]_vars PROVE TypeOK'
    OBVIOUS
<1> USE OpOfType DEF SessionInv, TypeOK, Goto, Awaiting, Final, OnPath, Path, Ops
<1>1. ASSUME NEW t \in Requests, Login(t) PROVE TypeOK'
      BY <1>1 DEF Login
<1>2. ASSUME NEW t \in Requests, CheckRevoked(t) PROVE TypeOK'
      BY <1>2 DEF CheckRevoked
<1>3. ASSUME NEW t \in Requests, CheckUser(t) PROVE TypeOK'
      BY <1>3 DEF CheckUser, AfterUser
<1>4. ASSUME NEW t \in Requests, RotateOut(t) PROVE TypeOK'
      BY <1>4, WritesIssued DEF RotateOut, Revoke
<1>5. ASSUME NEW t \in Requests, RotateIn(t) PROVE TypeOK'
      BY <1>5 DEF RotateIn
<1>6. ASSUME NEW t \in Requests, LogoutAccess(t) PROVE TypeOK'
      BY <1>6, WritesIssued DEF LogoutAccess, Revoke
<1>7. ASSUME NEW t \in Requests, LogoutRefresh(t) PROVE TypeOK'
      BY <1>7, WritesIssued DEF LogoutRefresh, Revoke
<1>8. ASSUME NEW t \in Requests, Answer(t) \/ Deny(t) PROVE TypeOK'
      BY <1>8 DEF Answer, Deny
<1>9. ASSUME NEW t \in Requests, Fail(t) PROVE TypeOK'
  <2>1. pc' \in [Requests -> {"new"} \cup Awaiting \cup Final]
        BY <1>9 DEF Fail
  <2>2. revoked' \subseteq Jtis
        BY <1>9, RevokedGrows
  <2> QED BY <1>9, <2>1, <2>2 DEF Fail
<1>10. ASSUME NEW t \in Requests, NEW p \in Requests, Arrive(t, p) PROVE TypeOK'
      BY <1>10 DEF Arrive
<1>11. ASSUME NEW jti \in Jtis, Expire(jti) PROVE TypeOK'
      BY <1>11 DEF Expire
<1>12. ASSUME NEW u \in Users, Deactivate(u) \/ Demote(u) PROVE TypeOK'
      BY <1>12 DEF Deactivate, Demote
<1>13. CASE UNCHANGED vars
      BY <1>13 DEF vars
<1> QED BY <1>1, <1>2, <1>3, <1>4, <1>5, <1>6, <1>7, <1>8, <1>9, <1>10, <1>11, <1>12, <1>13 DEF Next

LEMMA PathStep == SessionInv /\ [Next]_vars => OnPath'
<1> SUFFICES ASSUME SessionInv, [Next]_vars PROVE OnPath'
    OBVIOUS
<1> USE OpOfType DEF SessionInv, TypeOK, Goto, Awaiting, Final, OnPath, Path, Ops
<1>1. ASSUME NEW t \in Requests, Login(t) PROVE OnPath'
      BY <1>1 DEF Login
<1>2. ASSUME NEW t \in Requests, CheckRevoked(t) PROVE OnPath'
      BY <1>2 DEF CheckRevoked
<1>3. ASSUME NEW t \in Requests, CheckUser(t) PROVE OnPath'
      BY <1>3 DEF CheckUser, AfterUser
<1>4. ASSUME NEW t \in Requests, RotateOut(t) PROVE OnPath'
      BY <1>4 DEF RotateOut, Revoke
<1>5. ASSUME NEW t \in Requests, RotateIn(t) PROVE OnPath'
      BY <1>5 DEF RotateIn
<1>6. ASSUME NEW t \in Requests, LogoutAccess(t) PROVE OnPath'
      BY <1>6 DEF LogoutAccess, Revoke
<1>7. ASSUME NEW t \in Requests, LogoutRefresh(t) PROVE OnPath'
      BY <1>7 DEF LogoutRefresh, Revoke
<1>8. ASSUME NEW t \in Requests, Answer(t) \/ Deny(t) PROVE OnPath'
      BY <1>8 DEF Answer, Deny
<1>9. ASSUME NEW t \in Requests, Fail(t) PROVE OnPath'
      BY <1>9 DEF Fail, Writes
<1>10. ASSUME NEW t \in Requests, NEW p \in Requests, Arrive(t, p) PROVE OnPath'
      BY <1>10 DEF Arrive
<1>11. ASSUME NEW jti \in Jtis, Expire(jti) PROVE OnPath'
      BY <1>11 DEF Expire
<1>12. ASSUME NEW u \in Users, Deactivate(u) \/ Demote(u) PROVE OnPath'
      BY <1>12 DEF Deactivate, Demote
<1>13. CASE UNCHANGED vars
      BY <1>13 DEF vars
<1> QED BY <1>1, <1>2, <1>3, <1>4, <1>5, <1>6, <1>7, <1>8, <1>9, <1>10, <1>11, <1>12, <1>13 DEF Next

LEMMA HeadersStep == SessionInv /\ [Next]_vars => HeadersIssued'
<1> SUFFICES ASSUME SessionInv, [Next]_vars PROVE HeadersIssued'
    OBVIOUS
<1> USE AnswersStay DEF SessionInv, TypeOK, Goto, Awaiting, Final, HeadersIssued, Issued, Issuers
<1>1. ASSUME NEW t \in Requests, Login(t) PROVE HeadersIssued'
      BY <1>1 DEF Login
<1>2. ASSUME NEW t \in Requests, CheckRevoked(t) PROVE HeadersIssued'
      BY <1>2 DEF CheckRevoked
<1>3. ASSUME NEW t \in Requests, CheckUser(t) PROVE HeadersIssued'
  <2>1. OpOf[t] \in {"refresh", "logout", "read", "admin"}
        BY <1>3, OpOfType DEF CheckUser, OnPath, Path, Ops
  <2> QED BY <1>3, <2>1 DEF CheckUser, AfterUser
<1>4. ASSUME NEW t \in Requests, RotateOut(t) PROVE HeadersIssued'
      BY <1>4 DEF RotateOut, Revoke
<1>5. ASSUME NEW t \in Requests, RotateIn(t) PROVE HeadersIssued'
      BY <1>5 DEF RotateIn
<1>6. ASSUME NEW t \in Requests, LogoutAccess(t) PROVE HeadersIssued'
      BY <1>6 DEF LogoutAccess, Revoke
<1>7. ASSUME NEW t \in Requests, LogoutRefresh(t) PROVE HeadersIssued'
      BY <1>7 DEF LogoutRefresh, Revoke
<1>8. ASSUME NEW t \in Requests, Answer(t) \/ Deny(t) PROVE HeadersIssued'
      BY <1>8 DEF Answer, Deny
<1>9. ASSUME NEW t \in Requests, Fail(t) PROVE HeadersIssued'
      BY <1>9 DEF Fail, Writes
<1>10. ASSUME NEW t \in Requests, NEW p \in Requests, Arrive(t, p) PROVE HeadersIssued'
      BY <1>10 DEF Arrive
<1>11. ASSUME NEW jti \in Jtis, Expire(jti) PROVE HeadersIssued'
      BY <1>11 DEF Expire
<1>12. ASSUME NEW u \in Users, Deactivate(u) \/ Demote(u) PROVE HeadersIssued'
      BY <1>12 DEF Deactivate, Demote
<1>13. CASE UNCHANGED vars
      BY <1>13 DEF vars
<1> QED BY <1>1, <1>2, <1>3, <1>4, <1>5, <1>6, <1>7, <1>8, <1>9, <1>10, <1>11, <1>12, <1>13 DEF Next

LEMMA DescendsStep == SessionInv /\ [Next]_vars => Descends'
<1> SUFFICES ASSUME SessionInv, [Next]_vars PROVE Descends'
    OBVIOUS
<1> USE AnswersStay DEF SessionInv, TypeOK, Goto, Awaiting, Final, Descends, Arrived, Issued, Issuers
<1>1. ASSUME NEW t \in Requests, Login(t) PROVE Descends'
      BY <1>1 DEF Login
<1>2. ASSUME NEW t \in Requests, CheckRevoked(t) PROVE Descends'
      BY <1>2 DEF CheckRevoked
<1>3. ASSUME NEW t \in Requests, CheckUser(t) PROVE Descends'
      BY <1>3 DEF CheckUser, AfterUser
<1>4. ASSUME NEW t \in Requests, RotateOut(t) PROVE Descends'
      BY <1>4 DEF RotateOut, Revoke
<1>5. ASSUME NEW t \in Requests, RotateIn(t) PROVE Descends'
      BY <1>5 DEF RotateIn
<1>6. ASSUME NEW t \in Requests, LogoutAccess(t) PROVE Descends'
      BY <1>6 DEF LogoutAccess, Revoke
<1>7. ASSUME NEW t \in Requests, LogoutRefresh(t) PROVE Descends'
      BY <1>7 DEF LogoutRefresh, Revoke
<1>8. ASSUME NEW t \in Requests, Answer(t) \/ Deny(t) PROVE Descends'
      BY <1>8 DEF Answer, Deny
<1>9. ASSUME NEW t \in Requests, Fail(t) PROVE Descends'
      BY <1>9 DEF Fail, Writes
<1>10. ASSUME NEW t \in Requests, NEW p \in Requests, Arrive(t, p) PROVE Descends'
      BY <1>10 DEF Arrive
<1>11. ASSUME NEW jti \in Jtis, Expire(jti) PROVE Descends'
      BY <1>11 DEF Expire
<1>12. ASSUME NEW u \in Users, Deactivate(u) \/ Demote(u) PROVE Descends'
      BY <1>12 DEF Deactivate, Demote
<1>13. CASE UNCHANGED vars
      BY <1>13 DEF vars
<1> QED BY <1>1, <1>2, <1>3, <1>4, <1>5, <1>6, <1>7, <1>8, <1>9, <1>10, <1>11, <1>12, <1>13 DEF Next

LEMMA RevokedStep == SessionInv /\ [Next]_vars => RevokedIssued'
BY RevokedGrows, AnswersStay DEF SessionInv, RevokedIssued, Issued, Issuers, Jtis

----------------------------------------------------------------------------
(* A request keeps its token and its family once it has arrived.            *)
LEMMA FamilyStays ==
    ASSUME SessionInv, [Next]_vars, NEW t \in Requests,
           pc[t] # "new" \/ OpOf[t] = "login"
    PROVE  family'[t] = family[t] /\ arg'[t] = arg[t]
BY DEF SessionInv, TypeOK, Next, vars, Login, Arrive, CheckRevoked, CheckUser, RotateOut,
       RotateIn, LogoutAccess, LogoutRefresh, Answer, Deny, Fail, Expire, Deactivate, Demote

(* The family of a holder was opened by a login that has answered.          *)
LEMMA HolderRoot ==
    ASSUME SessionInv, NEW t \in Requests, Holds(t) \/ Issued(t)
    PROVE  /\ pc[t] # "new"
           /\ family[t] \in Requests /\ OpOf[family[t]] = "login"
           /\ pc[family[t]] = "ok"
<1>1. pc[t] \in {"ok", "issue"} /\ (pc[t] = "ok" => t \in Issuers)
      BY DEF Holds, Live, Issued
<1>2. CASE OpOf[t] = "login"
  <2>1. pc[t] # "issue"
        BY <1>2, OpOfType DEF SessionInv, OnPath, Path, Final
  <2> QED BY <1>1, <1>2, <2>1 DEF SessionInv, Descends, TypeOK
<1>3. CASE OpOf[t] # "login"
      BY <1>1, <1>3 DEF SessionInv, Descends, Arrived, TypeOK
<1> QED BY <1>2, <1>3

(* How a request comes to hold a session: it is the login that answers, or  *)
(* the rotation that takes the session from the pair it was given.          *)
Takes(t) ==
    \/ OpOf[t] = "login" /\ pc[t] = "audit"
    \/ /\ pc[t] = "insert"
       /\ \E p \in Requests : arg[t] = p /\ Live(p) /\ ~Holds(p)'

LEMMA NewHolder ==
    ASSUME SessionInv, [Next]_vars, NEW v \in Requests, Holds(v)', ~Holds(v)
    PROVE  /\ Takes(v)
           /\ \A w \in Requests \ {v} : Holds(w)' => Holds(w)
<1> USE DEF SessionInv, TypeOK, Goto, Holds, Live, Issued, Issuers
<1>1. revoked \subseteq revoked' /\ OpOf[v] \in Ops /\ pc[v] \in Path(OpOf[v])
      BY RevokedGrows, OpOfType DEF OnPath
<1>2. pc'[v] # pc[v]
      BY <1>1
<1>3. ASSUME NEW t \in Requests, NEW at, pc' = [pc EXCEPT ![t] = at]
      PROVE  /\ t = v /\ at = pc'[v]
             /\ \A w \in Requests \ {v} : Holds(w)' => Holds(w)
      BY <1>1, <1>2, <1>3
<1>4. ASSUME NEW t \in Requests,
             \/ Login(t) \/ CheckRevoked(t) \/ Deny(t) \/ Fail(t)
             \/ \E p \in Requests : Arrive(t, p)
      PROVE  FALSE
      BY <1>3, <1>4 DEF Login, CheckRevoked, Deny, Fail, Arrive
<1>5. ASSUME NEW t \in Requests, CheckUser(t) PROVE FALSE
  <2>1. OpOf[t] \in {"refresh", "logout", "read", "admin"}
        BY <1>5, OpOfType DEF CheckUser, OnPath, Path, Ops, Final
  <2> QED BY <1>3, <1>5, <2>1 DEF CheckUser, AfterUser
<1>6. ASSUME NEW t \in Requests, LogoutAccess(t) \/ LogoutRefresh(t) PROVE FALSE
      BY <1>3, <1>6 DEF LogoutAccess, LogoutRefresh, Revoke
<1>7. ASSUME NEW t \in Requests, RotateIn(t) PROVE FALSE
      BY <1>3, <1>7 DEF RotateIn
<1>8. ASSUME NEW t \in Requests, Answer(t)
      PROVE  Takes(v) /\ \A w \in Requests \ {v} : Holds(w)' => Holds(w)
  <2>1. t = v /\ pc[v] = "audit"
        BY <1>3, <1>8 DEF Answer
  <2>2. pc'[v] = "ok"
        BY <1>3, <1>8 DEF Answer
  <2>3. OpOf[v] \in {"login", "refresh"}
        BY <2>2
  <2>4. OpOf[v] = "login"
        BY <1>1, <2>1, <2>3 DEF Path, Final
  <2> QED BY <1>3, <1>8, <2>1, <2>4 DEF Answer, Takes
<1>9. ASSUME NEW t \in Requests, RotateOut(t)
      PROVE  Takes(v) /\ \A w \in Requests \ {v} : Holds(w)' => Holds(w)
  <2>1. t = v /\ pc[v] = "insert" /\ pc'[v] = "issue"
        BY <1>3, <1>9 DEF RotateOut, Revoke
  <2>2. /\ Refresh(arg[v]) \notin revoked /\ Refresh(arg[v]) \in revoked'
        /\ pc' = [pc EXCEPT ![v] = "issue"]
        BY <1>9, <2>1 DEF RotateOut, Revoke
  <2>3. arg[v] \in Requests /\ Issued(arg[v])
        BY <2>1, WritesIssued
  <2>4. PICK p \in Requests : p = arg[v]
        BY <2>3
  <2>5. Live(p) /\ ~Holds(p)'
        BY <2>1, <2>2, <2>3, <2>4
  <2> QED BY <1>3, <2>1, <2>2, <2>4, <2>5 DEF Takes
<1>10. ASSUME NEW jti \in Jtis, Expire(jti) PROVE FALSE
      BY <1>2, <1>10 DEF Expire
<1>11. ASSUME NEW u \in Users, Deactivate(u) \/ Demote(u) PROVE FALSE
      BY <1>2, <1>11 DEF Deactivate, Demote
<1>12. CASE UNCHANGED vars
      BY <1>2, <1>12 DEF vars
<1> QED BY <1>4, <1>5, <1>6, <1>7, <1>8, <1>9, <1>10, <1>11, <1>12 DEF Next

(* Whoever comes to hold a session leaves no other holder in its family.    *)
LEMMA TakesAlone ==
    ASSUME SessionInv, NEW v \in Requests, Takes(v),
           NEW w \in Requests, Holds(w), Holds(w)', family[w] = family[v]
    PROVE  FALSE
<1>1. pc[family[v]] = "ok"
      BY HolderRoot
<1>2. CASE OpOf[v] = "login" /\ pc[v] = "audit"
      BY <1>1, <1>2 DEF SessionInv, Descends
<1>3. ASSUME pc[v] = "insert", NEW p \in Requests, arg[v] = p, Live(p), ~Holds(p)'
      PROVE  FALSE
  <2>1. family[v] = family[p]
        BY <1>3, WritesIssued DEF SessionInv, Descends, Arrived
  <2>2. w = p
        BY <1>3, <2>1 DEF SessionInv, OneHolder, Holds
  <2> QED BY <1>3, <2>2
<1> QED BY <1>2, <1>3 DEF Takes

LEMMA HolderFamily ==
    ASSUME SessionInv, [Next]_vars, NEW v \in Requests, Holds(v)'
    PROVE  family'[v] = family[v]
<1>1. CASE Holds(v)
      BY <1>1, HolderRoot, FamilyStays
<1>2. CASE ~Holds(v)
      BY <1>2, NewHolder, FamilyStays DEF Takes
<1> QED BY <1>1, <1>2

LEMMA HolderStep == SessionInv /\ [Next]_vars => OneHolder'
<1> SUFFICES ASSUME SessionInv, [Next]_vars,
                    NEW t \in Requests, NEW v \in Requests, t # v,
                    Holds(t)', Holds(v)', family'[t] = family'[v]
             PROVE  FALSE
    BY DEF OneHolder
<1>1. family[t] = family[v]
      BY HolderFamily
<1>2. CASE Holds(t) /\ Holds(v)
      BY <1>1, <1>2 DEF SessionInv, OneHolder
<1>3. CASE ~Holds(t)
      BY <1>1, <1>3, NewHolder, TakesAlone
<1>4. CASE ~Holds(v)
      BY <1>1, <1>4, NewHolder, TakesAlone
<1> QED BY <1>2, <1>3, <1>4

----------------------------------------------------------------------------
(* How a logout comes to have revoked the refresh token of its header.      *)
HasLoggedOut(t) ==
    OpOf[t] = "logout" /\ pc[t] \in {"audit", "ok"} /\ hdr[t] # NoRequest

LEMMA LogoutAdvance ==
    ASSUME SessionInv, [Next]_vars, NEW t \in Requests, HasLoggedOut(t)'
    PROVE  /\ hdr'[t] = hdr[t]
           /\ \/ HasLoggedOut(t)
              \/ /\ Live(hdr[t]) /\ hdr[t] \in Requests
                 /\ pc' = [pc EXCEPT ![t] = "audit"]
                 /\ Refresh(hdr[t]) \in revoked'
<1> USE DEF SessionInv, TypeOK, Goto, HasLoggedOut
<1>1. ASSUME NEW v \in Requests, Login(v) \/ CheckRevoked(v) \/ Deny(v) \/ Fail(v)
      PROVE  hdr'[t] = hdr[t] /\ HasLoggedOut(t)
      BY <1>1 DEF Login, CheckRevoked, Deny, Fail
<1>2. ASSUME NEW v \in Requests, CheckUser(v) PROVE hdr'[t] = hdr[t] /\ HasLoggedOut(t)
  <2>1. OpOf[v] \in {"refresh", "logout", "read", "admin"}
        BY <1>2, OpOfType DEF CheckUser, OnPath, Path, Ops, Final
  <2> QED BY <1>2, <2>1 DEF CheckUser, AfterUser
<1>3. ASSUME NEW v \in Requests, RotateOut(v) \/ RotateIn(v) \/ Answer(v)
      PROVE  hdr'[t] = hdr[t] /\ HasLoggedOut(t)
  <2>1. pc[v] \in {"insert", "issue"} => OpOf[v] # "logout"
        BY OpOfType DEF OnPath, Path, Ops, Final
  <2> QED BY <1>3, <2>1 DEF RotateOut, RotateIn, Answer, Revoke
<1>4. ASSUME NEW v \in Requests, LogoutAccess(v)
      PROVE  hdr'[t] = hdr[t] /\ HasLoggedOut(t)
      BY <1>4 DEF LogoutAccess, Revoke
<1>5. ASSUME NEW v \in Requests, LogoutRefresh(v), v # t
      PROVE  hdr'[t] = hdr[t] /\ HasLoggedOut(t)
      BY <1>5 DEF LogoutRefresh, Revoke
<1>6. CASE LogoutRefresh(t)
  <2>1. pc[t] = "revRefresh" /\ hdr' = hdr
        BY <1>6 DEF LogoutRefresh
  <2>2. Refresh(hdr[t]) \notin revoked /\ Refresh(hdr[t]) \in revoked'
        BY <1>6, <2>1 DEF LogoutRefresh, Revoke
  <2>3. pc' = [pc EXCEPT ![t] = "audit"]
        BY <1>6, <2>1, <2>2 DEF LogoutRefresh, Revoke
  <2> QED BY <2>1, <2>2, <2>3, WritesIssued DEF Live
<1>7. ASSUME NEW v \in Requests, NEW p \in Requests, Arrive(v, p)
      PROVE  hdr'[t] = hdr[t] /\ HasLoggedOut(t)
      BY <1>7 DEF Arrive
<1>8. ASSUME NEW jti \in Jtis, Expire(jti) PROVE hdr'[t] = hdr[t] /\ HasLoggedOut(t)
      BY <1>8 DEF Expire
<1>9. ASSUME NEW u \in Users, Deactivate(u) \/ Demote(u) PROVE hdr'[t] = hdr[t] /\ HasLoggedOut(t)
      BY <1>9 DEF Deactivate, Demote
<1>10. CASE UNCHANGED vars
      BY <1>10 DEF vars
<1> QED BY <1>1, <1>2, <1>3, <1>4, <1>5, <1>6, <1>7, <1>8, <1>9, <1>10 DEF Next

LEMMA LogoutStep == SessionInv /\ [Next]_vars => LogoutLeavesNone'
<1> SUFFICES ASSUME SessionInv, [Next]_vars,
                    NEW t \in Requests, NEW v \in Requests,
                    HasLoggedOut(t)', Holds(v)', family'[v] = family'[hdr'[t]]
             PROVE  FALSE
    BY DEF LogoutLeavesNone, HasLoggedOut
<1>1. PICK h \in Requests : h = hdr[t] /\ h = hdr'[t] /\ Issued(h) /\ pc[h] = "ok"
  <2>1. hdr'[t] = hdr[t] /\ hdr[t] # NoRequest
        BY LogoutAdvance DEF HasLoggedOut
  <2> QED BY <2>1 DEF SessionInv, TypeOK, HeadersIssued, Issued
<1>2. family'[h] = family[h] /\ family'[v] = family[v]
      BY <1>1, FamilyStays, HolderFamily
<1>3. family[v] = family[h] /\ pc[family[h]] = "ok"
      BY <1>1, <1>2, HolderRoot
<1>4. CASE HasLoggedOut(t)
  <2>1. ~Holds(v)
        BY <1>1, <1>3, <1>4 DEF SessionInv, LogoutLeavesNone, HasLoggedOut
  <2>2. Takes(v)
        BY <2>1, NewHolder
  <2>3. CASE OpOf[v] = "login" /\ pc[v] = "audit"
        BY <1>3, <2>3 DEF SessionInv, Descends
  <2>4. ASSUME pc[v] = "insert", NEW p \in Requests, arg[v] = p, Live(p)
        PROVE  FALSE
    <3>1. family[v] = family[p] /\ Holds(p)
          BY <2>4, WritesIssued DEF SessionInv, Descends, Arrived, Holds
    <3> QED BY <1>1, <1>3, <1>4, <3>1 DEF SessionInv, LogoutLeavesNone, HasLoggedOut
  <2> QED BY <2>2, <2>3, <2>4 DEF Takes
<1>5. ASSUME Live(h), pc' = [pc EXCEPT ![t] = "audit"], Refresh(h) \in revoked',
             OpOf[t] = "logout"
      PROVE  FALSE
  <2>1. Holds(v)
    <3>1. pc'[v] = pc[v]
          BY <1>5 DEF Holds, Live, Issued, SessionInv, TypeOK
    <3> QED BY <3>1, RevokedGrows DEF Holds, Live, Issued
  <2>2. v = h
        BY <1>3, <1>5, <2>1 DEF SessionInv, OneHolder, Holds
  <2> QED BY <1>1, <1>5, <2>2 DEF Holds, Live, SessionInv, TypeOK
<1> QED BY <1>1, <1>4, <1>5, LogoutAdvance DEF HasLoggedOut

----------------------------------------------------------------------------
(* Revocation, deactivation and demotion are for good.                      *)
LEMMA LateStep == SessionInv /\ [Next]_vars => LateIsVoid'
<1> SUFFICES ASSUME SessionInv, [Next]_vars PROVE LateIsVoid'
    OBVIOUS
<1> USE FamilyStays, RevokedGrows DEF SessionInv, TypeOK, LateIsVoid, Arrived, Presented, Owner,
       Entitled, Goto
<1>1. ASSUME NEW t \in Requests, Login(t) PROVE LateIsVoid'
      BY <1>1 DEF Login
<1>2. ASSUME NEW t \in Requests, CheckRevoked(t) PROVE LateIsVoid'
      BY <1>2 DEF CheckRevoked
<1>3. ASSUME NEW t \in Requests, CheckUser(t) PROVE LateIsVoid'
  <2>1. OpOf[t] \in {"refresh", "logout", "read", "admin"}
        BY <1>3, OpOfType DEF CheckUser, OnPath, Path, Ops, Final
  <2> QED BY <1>3, <2>1 DEF CheckUser, AfterUser
<1>4. ASSUME NEW t \in Requests, RotateOut(t) PROVE LateIsVoid'
      BY <1>4 DEF RotateOut, Revoke
<1>5. ASSUME NEW t \in Requests, RotateIn(t) PROVE LateIsVoid'
      BY <1>5 DEF RotateIn
<1>6. ASSUME NEW t \in Requests, LogoutAccess(t) PROVE LateIsVoid'
      BY <1>6 DEF LogoutAccess, Revoke
<1>7. ASSUME NEW t \in Requests, LogoutRefresh(t) PROVE LateIsVoid'
      BY <1>7 DEF LogoutRefresh, Revoke
<1>8. ASSUME NEW t \in Requests, Answer(t) \/ Deny(t) PROVE LateIsVoid'
      BY <1>8 DEF Answer, Deny
<1>9. ASSUME NEW t \in Requests, Fail(t) PROVE LateIsVoid'
      BY <1>9 DEF Fail, Writes
<1>10. ASSUME NEW t \in Requests, NEW p \in Requests, Arrive(t, p) PROVE LateIsVoid'
  <2> SUFFICES ASSUME NEW v \in late' PROVE
             /\ Arrived(v)'
             /\ pc'[v] \in {"check", "user", "denied", "error"}
             /\ pc'[v] = "check" => Presented(v)' \in revoked' \/ ~Entitled(Owner(arg[v]), OpOf[v])'
             /\ pc'[v] = "user" => ~Entitled(Owner(arg[v]), OpOf[v])'
      OBVIOUS
  <2>1. /\ p # t /\ pc'[t] \in {"check", "denied"} /\ arg'[t] = p /\ family'[p] = family[p]
        /\ revoked' = revoked /\ active' = active /\ admins' = admins
        BY <1>10 DEF Arrive, Issued
  <2>2. CASE v = t
    <3>1. CASE t \in late
          BY <1>10, <3>1 DEF Arrive
    <3>2. CASE t \notin late
      <4>1. (IF OpOf[t] = "refresh" THEN Refresh(p) ELSE Access(p)) \in revoked
                \/ ~Entitled(UserOf[family[p]], OpOf[t])
            BY <1>10, <2>2, <3>2 DEF Arrive
      <4> QED BY <1>10, <2>1, <2>2, <4>1 DEF Arrive
    <3> QED BY <3>1, <3>2
  <2>3. CASE v # t
    <3>1. v \in late /\ pc'[v] = pc[v] /\ arg'[v] = arg[v] /\ v \in Requests
          BY <1>10, <2>3 DEF Arrive
    <3>2. arg[v] \in Requests /\ Issued(arg[v]) /\ arg[v] # t
          BY <1>10, <3>1 DEF Arrive, Descends, Issued
    <3>3. family'[arg[v]] = family[arg[v]]
          BY <1>10, <3>2 DEF Arrive
    <3> QED BY <2>1, <3>1, <3>2, <3>3
  <2> QED BY <2>2, <2>3
<1>11. ASSUME NEW jti \in Jtis, Expire(jti) PROVE LateIsVoid'
      BY <1>11 DEF Expire
<1>12. ASSUME NEW u \in Users, Deactivate(u) \/ Demote(u) PROVE LateIsVoid'
      BY <1>12 DEF Deactivate, Demote
<1>13. CASE UNCHANGED vars
      BY <1>13 DEF vars
<1> QED BY <1>1, <1>2, <1>3, <1>4, <1>5, <1>6, <1>7, <1>8, <1>9, <1>10, <1>11, <1>12, <1>13 DEF Next

LEMMA InvStep == SessionInv /\ [Next]_vars => SessionInv'
BY TypeStep, PathStep, DescendsStep, HeadersStep, RevokedStep, HolderStep, LogoutStep,
   LateStep DEF SessionInv

LEMMA SessionInvariant == Spec => []SessionInv
BY InvInit, InvStep, PTL DEF Spec

(* Every variable keeps to its type.                                        *)
THEOREM TypeCorrect == Spec => []TypeOK
BY SessionInvariant, PTL DEF SessionInv

(* Of the pairs that descend from one login, at most one can be rotated,    *)
(* whatever requests present the same token at once or fail on the way.     *)
THEOREM RotationNeverForks == Spec => []OneLivePerFamily
<1>1. SessionInv => OneLivePerFamily
      BY DEF SessionInv, OneHolder, OneLivePerFamily, Holds
<1> QED BY <1>1, SessionInvariant, PTL

(* After a 204 that accepted a refresh token, its family has no live token, *)
(* not even one from a rotation that overlapped the logout.                 *)
THEOREM LogoutIsComplete == Spec => []LogoutEndsFamily
<1>1. SessionInv => LogoutEndsFamily
      BY DEF SessionInv, LogoutLeavesNone, LogoutEndsFamily, Ended, Holds
<1> QED BY <1>1, SessionInvariant, PTL

(* A token that was void when its request arrived is refused.               *)
THEOREM VoidTokensRefused == Spec => []VoidIsRefused
<1>1. SessionInv => VoidIsRefused
      BY DEF SessionInv, LateIsVoid, VoidIsRefused
<1> QED BY <1>1, SessionInvariant, PTL

----------------------------------------------------------------------------
(* The phase of a family is read off its live pair and its rotation.        *)
HasLive(f)   == \E p \in Requests : Live(p) /\ family[p] = f
HasMoving(f) == \E t \in Requests : pc[t] = "issue" /\ family[t] = f

LEMMA PhaseCases ==
    ASSUME NEW f
    PROVE  PhaseOf(f) = IF pc[f] # "ok" THEN "none"
                        ELSE IF HasLive(f) THEN "held"
                        ELSE IF HasMoving(f) THEN "moving" ELSE "over"
BY DEF PhaseOf, HasLive, HasMoving

LEMMA PhaseCasesNext ==
    ASSUME NEW f \in Logins
    PROVE  PhaseOf(f)' = IF pc'[f] # "ok" THEN "none"
                         ELSE IF HasLive(f)' THEN "held"
                         ELSE IF HasMoving(f)' THEN "moving" ELSE "over"
BY DEF PhaseOf, HasLive, HasMoving

(* A session is never both held and moving.                                 *)
LEMMA HeldExcludesMoving ==
    ASSUME SessionInv, NEW p \in Requests, Live(p), NEW t \in Requests, pc[t] = "issue"
    PROVE  family[t] # family[p]
BY DEF SessionInv, OneHolder, Holds, Live, Issued

(* A step in which no family gets or loses a pair or a rotation changes no  *)
(* phase.                                                                   *)
Quiet(f) ==
    /\ pc'[f] = "ok" <=> pc[f] = "ok"
    /\ HasLive(f)' <=> HasLive(f)
    /\ HasMoving(f)' <=> HasMoving(f)

LEMMA QuietKeepsPhase ==
    ASSUME NEW f \in Logins, Quiet(f)
    PROVE  PhaseOf(f)' = PhaseOf(f)
BY PhaseCases, PhaseCasesNext DEF Quiet

LEMMA OneMove ==
    ASSUME NEW f \in Logins, NEW to \in {"held", "moving", "over"},
           PhaseOf(f)' = to, <<PhaseOf(f), to>> \in Phases!Moves,
           \A g \in Logins \ {f} : Quiet(g)
    PROVE  Phases!Next
<1> DEFINE ph == [g \in Logins |-> PhaseOf(g)]
<1>1. \A g \in Logins \ {f} : PhaseOf(g)' = PhaseOf(g)
      BY QuietKeepsPhase
<1>2. ph' = [g \in Logins |-> PhaseOf(g)']
      OBVIOUS
<1>3. ph' = [ph EXCEPT ![f] = to]
      BY <1>1, <1>2
<1>4. Phases!Move(f)
      BY <1>3 DEF Phases!Move
<1> QED BY <1>4 DEF Phases!Next

LEMMA AllQuiet ==
    ASSUME \A f \in Logins : Quiet(f)
    PROVE  UNCHANGED [f \in Logins |-> PhaseOf(f)]
<1>1. \A f \in Logins : PhaseOf(f)' = PhaseOf(f)
      BY QuietKeepsPhase
<1> QED BY <1>1

LEMMA QuietAt ==
    ASSUME SessionInv, [Next]_vars, NEW g \in Logins, pc'[g] = "ok" <=> pc[g] = "ok",
           \A p \in Requests : family[p] = g =>
               (Live(p)' <=> Live(p)) /\ (pc'[p] = "issue" <=> pc[p] = "issue")
    PROVE  Quiet(g)
<1>1. \A p \in Requests : Holds(p) \/ Holds(p)' => family'[p] = family[p]
      BY HolderRoot, FamilyStays, HolderFamily
<1>2. HasLive(g)' <=> HasLive(g)
      BY <1>1 DEF HasLive, Holds
<1>3. HasMoving(g)' <=> HasMoving(g)
      BY <1>1 DEF HasMoving, Holds
<1> QED BY <1>2, <1>3 DEF Quiet

LEMMA FamilyIsLogin ==
    ASSUME SessionInv, NEW t \in Requests, Holds(t) \/ Issued(t) \/ pc[t] = "insert"
    PROVE  family[t] \in Logins /\ pc[family[t]] = "ok"
<1>1. CASE Holds(t) \/ Issued(t)
      BY <1>1, HolderRoot DEF Logins
<1>2. CASE pc[t] = "insert"
      BY <1>2, WritesIssued DEF SessionInv, TypeOK, Descends, Arrived, Logins
<1> QED BY <1>1, <1>2

LEMMA LoginMove ==
    ASSUME SessionInv, [Next]_vars, NEW t \in Requests, Answer(t), OpOf[t] = "login"
    PROVE  Phases!Next
<1> USE DEF SessionInv, TypeOK, Goto
<1>1. t \in Logins /\ family[t] = t /\ pc[t] = "audit" /\ pc' = [pc EXCEPT ![t] = "ok"]
      /\ revoked' = revoked /\ family' = family
      BY DEF Answer, Logins, Descends
<1>2. Refresh(t) \notin revoked
      BY <1>1 DEF RevokedIssued, Issued, Refresh
<1>3. Live(t)'
      BY <1>1, <1>2 DEF Live, Issued, Issuers
<1>4. PhaseOf(t) = "none" /\ PhaseOf(t)' = "held"
      BY <1>1, <1>3, PhaseCases, PhaseCasesNext DEF HasLive
<1>5. \A g \in Logins \ {t} : Quiet(g)
  <2> SUFFICES ASSUME NEW g \in Logins \ {t} PROVE Quiet(g)
      OBVIOUS
  <2>1. \A p \in Requests : family[p] = g => p # t
        BY <1>1
  <2>2. \A p \in Requests \ {t} : pc'[p] = pc[p] /\ (Live(p)' <=> Live(p))
        BY <1>1 DEF Live, Issued
  <2> QED BY <2>1, <2>2, QuietAt DEF Logins
<1> QED BY <1>1, <1>4, <1>5, OneMove DEF Phases!Moves

(* The rotation of t takes the session of p, and nothing else moves.        *)
LEMMA RotateOutMove ==
    ASSUME SessionInv, [Next]_vars, NEW t \in Requests, RotateOut(t),
           Refresh(arg[t]) \notin revoked
    PROVE  Phases!Next
<1> USE DEF SessionInv, TypeOK, Goto
<1>1. PICK p \in Requests : p = arg[t] /\ Issued(p) /\ family[t] = family[p] /\ p # t
      BY WritesIssued DEF RotateOut, Descends, Arrived, Issued
<1>2. PICK f \in Logins : f = family[p] /\ pc[f] = "ok" /\ f # t
      BY <1>1, FamilyIsLogin DEF RotateOut
<1>3. /\ pc[t] = "insert" /\ pc' = [pc EXCEPT ![t] = "issue"]
      /\ revoked' = revoked \cup {Refresh(p)} /\ family' = family
      BY <1>1 DEF RotateOut, Revoke
<1>4. Live(p) /\ ~Live(p)'
      BY <1>1, <1>3 DEF Live
<1>5. \A v \in Requests : Live(v) /\ family[v] = f => v = p
      BY <1>2, <1>4 DEF OneHolder, Holds
<1>6. \A v \in Requests \ {t, p} : pc'[v] = pc[v] /\ (Live(v)' <=> Live(v))
      BY <1>3 DEF Live, Issued, Refresh
<1>7. ~Live(t)' /\ ~Live(t)
      BY <1>3 DEF Live, Issued
<1>8. ~HasLive(f)'
      BY <1>3, <1>4, <1>5, <1>6, <1>7 DEF HasLive
<1>9. HasMoving(f)'
      BY <1>1, <1>2, <1>3 DEF HasMoving
<1>10. PhaseOf(f) = "held" /\ PhaseOf(f)' = "moving"
  <2>1. HasLive(f) /\ pc'[f] = "ok"
        BY <1>2, <1>3, <1>4 DEF HasLive, Logins
  <2> QED BY <1>2, <1>8, <1>9, <2>1, PhaseCases, PhaseCasesNext
<1>11. \A g \in Logins \ {f} : Quiet(g)
  <2> SUFFICES ASSUME NEW g \in Logins \ {f} PROVE Quiet(g)
      OBVIOUS
  <2>1. pc'[g] = "ok" <=> pc[g] = "ok"
        BY <1>3 DEF Logins
  <2>2. \A v \in Requests : family[v] = g => v # t /\ v # p
        BY <1>1, <1>2
  <2> QED BY <1>6, <2>1, <2>2, QuietAt
<1> QED BY <1>10, <1>11, OneMove DEF Phases!Moves

LEMMA RotateInMove ==
    ASSUME SessionInv, [Next]_vars, NEW t \in Requests, RotateIn(t)
    PROVE  Phases!Next
<1> USE DEF SessionInv, TypeOK, Goto
<1>1. /\ pc[t] = "issue" /\ pc' = [pc EXCEPT ![t] = "ok"]
      /\ revoked' = revoked /\ family' = family
      BY DEF RotateIn
<1>2. PICK f \in Logins : f = family[t] /\ pc[f] = "ok" /\ f # t
      BY <1>1, FamilyIsLogin DEF Holds
<1>3. OpOf[t] = "refresh"
      BY <1>1, OpOfType DEF OnPath, Path, Ops, Final
<1>4. Live(t)'
  <2>1. Refresh(t) \notin revoked
        BY <1>1 DEF RevokedIssued, Issued, Refresh
  <2> QED BY <1>1, <1>3, <2>1 DEF Live, Issued, Issuers
<1>5. \A p \in Requests : Live(p) => family[p] # f
      BY <1>1, <1>2, HeldExcludesMoving
<1>6. PhaseOf(f) = "moving" /\ PhaseOf(f)' = "held"
  <2>1. HasMoving(f) /\ ~HasLive(f) /\ HasLive(f)' /\ pc'[f] = "ok"
        BY <1>1, <1>2, <1>4, <1>5 DEF HasMoving, HasLive, Logins
  <2> QED BY <1>2, <2>1, PhaseCases, PhaseCasesNext
<1>7. \A p \in Requests \ {t} : pc'[p] = pc[p] /\ (Live(p)' <=> Live(p))
      BY <1>1 DEF Live, Issued
<1>8. \A g \in Logins \ {f} : Quiet(g)
  <2> SUFFICES ASSUME NEW g \in Logins \ {f} PROVE Quiet(g)
      OBVIOUS
  <2>1. g # t
        BY <1>3 DEF Logins
  <2> QED BY <1>2, <1>7, <2>1, QuietAt DEF Logins
<1> QED BY <1>6, <1>8, OneMove DEF Phases!Moves

(* A live token is revoked and no rotation follows.                         *)
LEMMA EndMove ==
    ASSUME SessionInv, [Next]_vars, NEW t \in Requests, NEW at \in {"audit", "error"},
           pc[t] \in {"insert", "revRefresh"}, pc' = [pc EXCEPT ![t] = at],
           family' = family, NEW p \in Requests, Live(p),
           revoked' = revoked \cup {Refresh(p)}
    PROVE  Phases!Next
<1> USE DEF SessionInv, TypeOK
<1>1. PICK f \in Logins : f = family[p] /\ pc[f] = "ok" /\ f # t
      BY FamilyIsLogin DEF Holds
<1>2. ~Live(p)'
      BY DEF Live
<1>3. \A v \in Requests : family[v] = f =>
          (Live(v) => v = p) /\ pc[v] # "issue"
      BY <1>1, HeldExcludesMoving DEF OneHolder, Holds
<1>4. \A v \in Requests \ {p} :
          (Live(v)' <=> Live(v)) /\ (pc'[v] = "issue" <=> pc[v] = "issue")
      BY DEF Live, Issued, Refresh
<1>5. pc'[p] # "issue"
      BY DEF Live, Issued
<1>6. PhaseOf(f) = "held" /\ PhaseOf(f)' = "over"
  <2>1. HasLive(f) /\ ~HasLive(f)' /\ ~HasMoving(f)' /\ pc'[f] = "ok"
        BY <1>1, <1>2, <1>3, <1>4, <1>5 DEF HasLive, HasMoving, Logins
  <2> QED BY <1>1, <2>1, PhaseCases, PhaseCasesNext
<1>7. \A g \in Logins \ {f} : Quiet(g)
  <2> SUFFICES ASSUME NEW g \in Logins \ {f} PROVE Quiet(g)
      OBVIOUS
  <2>1. pc'[g] = "ok" <=> pc[g] = "ok"
        BY DEF Logins
  <2> QED BY <1>1, <1>4, <2>1, QuietAt
<1> QED BY <1>6, <1>7, OneMove DEF Phases!Moves

(* A rotation dies between its commit and its answer.                       *)
LEMMA DropMove ==
    ASSUME SessionInv, [Next]_vars, NEW t \in Requests, Fail(t), pc[t] = "issue"
    PROVE  Phases!Next
<1> USE DEF SessionInv, TypeOK, Goto
<1>1. pc' = [pc EXCEPT ![t] = "error"] /\ revoked' = revoked /\ family' = family
      BY DEF Fail, Writes
<1>2. PICK f \in Logins : f = family[t] /\ pc[f] = "ok" /\ f # t
      BY FamilyIsLogin DEF Holds
<1>3. \A v \in Requests : family[v] = f =>
          ~Live(v) /\ (pc[v] = "issue" => v = t)
      BY <1>2, HeldExcludesMoving DEF OneHolder, Holds
<1>4. \A v \in Requests : Live(v)' <=> Live(v)
      BY <1>1 DEF Live, Issued
<1>5. PhaseOf(f) = "moving" /\ PhaseOf(f)' = "over"
  <2>1. HasMoving(f) /\ ~HasMoving(f)' /\ ~HasLive(f) /\ ~HasLive(f)' /\ pc'[f] = "ok"
        BY <1>1, <1>2, <1>3, <1>4 DEF HasLive, HasMoving, Logins
  <2> QED BY <1>2, <2>1, PhaseCases, PhaseCasesNext
<1>6. \A g \in Logins \ {f} : Quiet(g)
      BY <1>1, <1>2, <1>4, QuietAt DEF Logins
<1> QED BY <1>5, <1>6, OneMove DEF Phases!Moves

(* Every other step leaves all sessions as they are.                        *)
LEMMA QuietStep ==
    ASSUME SessionInv, [Next]_vars,
           \A p \in Requests : (Live(p)' <=> Live(p)) /\ (pc'[p] = "issue" <=> pc[p] = "issue"),
           \A f \in Logins : pc'[f] = "ok" <=> pc[f] = "ok"
    PROVE  UNCHANGED [f \in Logins |-> PhaseOf(f)]
BY AllQuiet, QuietAt

LEMMA QuietRequest ==
    ASSUME SessionInv, [Next]_vars, NEW t \in Requests,
           NEW at \in (Awaiting \cup Final) \ {"issue"},
           pc[t] # "issue", pc[t] # "ok", pc' = [pc EXCEPT ![t] = at],
           at = "ok" => OpOf[t] \notin {"login", "refresh"},
           \A p \in Requests : Refresh(p) \in revoked' <=> Refresh(p) \in revoked
    PROVE  UNCHANGED [f \in Logins |-> PhaseOf(f)]
<1>1. \A p \in Requests : (Live(p)' <=> Live(p)) /\ (pc'[p] = "issue" <=> pc[p] = "issue")
      BY DEF SessionInv, TypeOK, Live, Issued, Issuers
<1>2. \A f \in Logins : pc'[f] = "ok" <=> pc[f] = "ok"
      BY DEF SessionInv, TypeOK, Logins
<1> QED BY <1>1, <1>2, QuietStep

LEMMA PhasesStep ==
    SessionInv /\ [Next]_vars => [Phases!Next]_[f \in Logins |-> PhaseOf(f)]
<1> SUFFICES ASSUME SessionInv, [Next]_vars
             PROVE  Phases!Next \/ UNCHANGED [f \in Logins |-> PhaseOf(f)]
    OBVIOUS
<1> USE DEF Goto, Awaiting, Final
<1>1. ASSUME NEW t \in Requests, Login(t) \/ CheckRevoked(t) \/ Deny(t)
      PROVE  UNCHANGED [f \in Logins |-> PhaseOf(f)]
      BY <1>1, QuietRequest DEF Login, CheckRevoked, Deny
<1>2. ASSUME NEW t \in Requests, CheckUser(t)
      PROVE  UNCHANGED [f \in Logins |-> PhaseOf(f)]
  <2>1. OpOf[t] \in {"refresh", "logout", "read", "admin"}
        BY <1>2, OpOfType DEF CheckUser, SessionInv, OnPath, Path, Ops
  <2>2. PICK at \in {"insert", "revAccess", "audit", "denied"} : pc' = [pc EXCEPT ![t] = at]
    <3>1. AfterUser[OpOf[t]] \in {"insert", "revAccess", "audit"}
          BY <2>1 DEF AfterUser
    <3> QED BY <1>2, <3>1 DEF CheckUser
  <2>3. pc[t] = "user" /\ revoked' = revoked
        BY <1>2 DEF CheckUser
  <2> QED BY <2>2, <2>3, QuietRequest
<1>3. ASSUME NEW t \in Requests, RotateOut(t)
      PROVE  Phases!Next \/ UNCHANGED [f \in Logins |-> PhaseOf(f)]
  <2>1. CASE Refresh(arg[t]) \in revoked
        BY <1>3, <2>1, QuietRequest DEF RotateOut, Revoke
  <2> QED BY <1>3, <2>1, RotateOutMove
<1>4. ASSUME NEW t \in Requests, RotateIn(t) PROVE Phases!Next
      BY <1>4, RotateInMove
<1>5. ASSUME NEW t \in Requests, LogoutAccess(t)
      PROVE  UNCHANGED [f \in Logins |-> PhaseOf(f)]
  <2>1. \A p \in Requests : Refresh(p) \in revoked' <=> Refresh(p) \in revoked
        BY <1>5 DEF LogoutAccess, Revoke, Refresh, Access
  <2> QED BY <1>5, <2>1, QuietRequest DEF LogoutAccess, Revoke
<1>6. ASSUME NEW t \in Requests, LogoutRefresh(t)
      PROVE  Phases!Next \/ UNCHANGED [f \in Logins |-> PhaseOf(f)]
  <2>1. CASE Refresh(hdr[t]) \in revoked
        BY <1>6, <2>1, QuietRequest DEF LogoutRefresh, Revoke
  <2>2. CASE Refresh(hdr[t]) \notin revoked
    <3>1. PICK h \in Requests : h = hdr[t] /\ Live(h)
          BY <1>6, <2>2, WritesIssued DEF LogoutRefresh, Live
    <3> QED BY <1>6, <2>2, <3>1, EndMove DEF LogoutRefresh, Revoke
  <2> QED BY <2>1, <2>2
<1>7. ASSUME NEW t \in Requests, Answer(t)
      PROVE  Phases!Next \/ UNCHANGED [f \in Logins |-> PhaseOf(f)]
  <2>1. OpOf[t] # "refresh"
        BY <1>7, OpOfType DEF Answer, SessionInv, OnPath, Path, Ops
  <2>2. CASE OpOf[t] = "login"
        BY <1>7, <2>2, LoginMove
  <2>3. CASE OpOf[t] # "login"
        BY <1>7, <2>1, <2>3, QuietRequest DEF Answer
  <2> QED BY <2>2, <2>3
<1>8. ASSUME NEW t \in Requests, Fail(t)
      PROVE  Phases!Next \/ UNCHANGED [f \in Logins |-> PhaseOf(f)]
  <2>1. CASE pc[t] = "issue"
        BY <1>8, <2>1, DropMove
  <2>2. CASE /\ pc[t] # "issue"
             /\ \A p \in Requests : Refresh(p) \in revoked' <=> Refresh(p) \in revoked
        BY <1>8, <2>2, QuietRequest DEF Fail
  <2>3. ASSUME pc[t] # "issue", NEW p \in Requests,
               Refresh(p) \in revoked', Refresh(p) \notin revoked
        PROVE  Phases!Next
    <3>1. revoked' = revoked \cup Writes(t) /\ Refresh(p) \in Writes(t)
          BY <1>8, <2>3 DEF Fail
    <3>2. \/ pc[t] = "insert" /\ Writes(t) = {Refresh(arg[t])}
          \/ pc[t] = "revRefresh" /\ Writes(t) = {Refresh(hdr[t])}
          BY <3>1 DEF Writes, Refresh, Access
    <3>3. Issued(p) /\ Writes(t) = {Refresh(p)}
      <4>1. PICK q \in Requests : Issued(q) /\ Writes(t) = {Refresh(q)}
            BY <3>2, WritesIssued
      <4>2. Refresh(p) = Refresh(q)
            BY <3>1, <4>1
      <4>3. p = q
            BY <4>2 DEF Refresh
      <4> QED BY <4>1, <4>3
    <3>4. Live(p)
          BY <2>3, <3>3 DEF Live
    <3> QED BY <1>8, <3>1, <3>2, <3>3, <3>4, EndMove DEF Fail
  <2>4. revoked \subseteq revoked'
        BY RevokedGrows
  <2> QED BY <2>1, <2>2, <2>3, <2>4
<1>9. ASSUME NEW t \in Requests, NEW p \in Requests, Arrive(t, p)
      PROVE  UNCHANGED [f \in Logins |-> PhaseOf(f)]
  <2>1. PICK at \in {"check", "denied"} : pc' = [pc EXCEPT ![t] = at]
        BY <1>9 DEF Arrive
  <2>2. pc[t] = "new" /\ revoked' = revoked
        BY <1>9 DEF Arrive
  <2> QED BY <2>1, <2>2, QuietRequest
<1>10. ASSUME pc' = pc, revoked' = revoked
      PROVE  UNCHANGED [f \in Logins |-> PhaseOf(f)]
      BY <1>10, QuietStep DEF Live, Issued
<1> QED BY <1>1, <1>2, <1>3, <1>4, <1>5, <1>6, <1>7, <1>8, <1>9, <1>10
           DEF Next, Expire, Deactivate, Demote, vars

LEMMA PhasesInit == Init => Phases!Init
BY DEF Init, Phases!Init, PhaseOf, Logins

(* Rotation, logout, failures and races implement the life of a session: it *)
(* is held by one pair or moving to the next, and once over it stays over.  *)
THEOREM ImplementsPhases == Spec => PhasesSpec
BY PhasesInit, PhasesStep, SessionInvariant, PTL DEF Spec, PhasesSpec, Phases!Spec
=============================================================================
