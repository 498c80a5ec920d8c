------------------------------ MODULE Lockout ------------------------------
(* authenticate (app/auth/service.py): the counter of failed logins of one  *)
(* account and its temporary lock, used by concurrent POST /v1/auth/login.  *)
(*                                                                          *)
(* An attempt takes the time, awaits the SELECT of the user, decides on     *)
(* what it loaded (argon2 runs without an await) and awaits the COMMIT of   *)
(* what it decided.  The row is not locked between the two, and the ORM's   *)
(* UPDATE sets only the columns that differ from the loaded ones.           *)
EXTENDS Naturals, FiniteSetsExt

CONSTANTS
    Slots,           \* login attempts in progress at once
    MaxFailed,       \* MAX_FAILED
    LockFor,         \* LOCKOUT_MINUTES, in ticks
    MaxClock,        \* bound on the clock
    NaiveDates       \* the database gives datetimes back without timezone

ASSUME LimitsArePositive == MaxFailed \in Nat \ {0} /\ LockFor \in Nat \ {0}
ASSUME MaxClockIsNat == MaxClock \in Nat
ASSUME NaiveDatesIsFlag == NaiveDates \in BOOLEAN

VARIABLES
    now,             \* the clock
    row,             \* failed_login_count and locked_until (0: None)
    pc,              \* where each attempt stands
    stamp,           \* stamp[t]: "now" of authenticate
    seen,            \* seen[t]: the row t loaded
    right,           \* right[t]: the password is the right one
    lastWrong,       \* history: latest stamp of a wrong password recorded
    streak,          \* history: wrong passwords since a success or a lock
    wrongs,          \* history: wrong passwords in all, capped at MaxFailed
    clean            \* history: no attempt overwrote a row it had not seen

vars == <<now, row, pc, stamp, seen, right, lastWrong, streak, wrongs, clean>>

Final == {"in", "denied", "raised", "failed"}
Rows  == [count : Nat, until : Nat]

(* locked_until and locked_until > now.                                     *)
LockedAt(r, time) == r.until # 0 /\ r.until > time

(* The clock starts at 1 so that a time is never 0, which is None.          *)
Init ==
    /\ now       = 1
    /\ row       = [count |-> 0, until |-> 0]
    /\ pc        = [t \in Slots |-> "idle"]
    /\ stamp     = [t \in Slots |-> 0]
    /\ seen      = [t \in Slots |-> row]
    /\ right     = [t \in Slots |-> FALSE]
    /\ lastWrong = 0
    /\ streak    = 0
    /\ wrongs    = 0
    /\ clean     = TRUE

history == <<lastWrong, streak, wrongs, clean>>

----------------------------------------------------------------------------
(* authenticate is entered: it takes the time and sends the SELECT.  A slot *)
(* whose attempt is over serves the next one.                               *)
Start(t) ==
    /\ pc[t] \in {"idle"} \cup Final
    /\ pc'     = [pc EXCEPT ![t] = "load"]
    /\ stamp'  = [stamp EXCEPT ![t] = now]
    /\ right'  \in {[right EXCEPT ![t] = b] : b \in BOOLEAN}
    /\ UNCHANGED <<now, row, seen, history>>

(* Mutant: an account that was ever locked stays locked.                    *)
JudgeForever(t, r) == IF r.until # 0 THEN "denied" ELSE "commit"

(* Mutant: locked_until is not looked at.                                   *)
JudgeUnlocked(t, r) == "commit"

(* What becomes of t with row r in its hands.  Comparing a naive            *)
(* locked_until with an aware "now" raises TypeError.                       *)
Judge(t, r) ==
    IF NaiveDates /\ r.until # 0 THEN "raised"
    ELSE IF LockedAt(r, stamp[t]) THEN "denied"
    ELSE "commit"

(* The SELECT returns.                                                      *)
Load(t) ==
    /\ pc[t] = "load"
    /\ seen' = [seen EXCEPT ![t] = row]
    /\ pc'   = [pc EXCEPT ![t] = Judge(t, row)]
    /\ UNCHANGED <<now, row, stamp, right, history>>

(* Mutant: one wrong password too few locks the account.                    *)
DecideEarly(t) ==
    IF right[t] THEN [count |-> 0, until |-> 0]
    ELSE IF seen[t].count + 2 >= MaxFailed
         THEN [count |-> 0, until |-> stamp[t] + LockFor]
         ELSE [seen[t] EXCEPT !.count = @ + 1]

(* Mutant: a success lifts the lock and leaves the counter.                 *)
DecideKeepsCount(t) ==
    IF right[t] THEN [seen[t] EXCEPT !.until = 0]
    ELSE IF seen[t].count + 1 >= MaxFailed
         THEN [count |-> 0, until |-> stamp[t] + LockFor]
         ELSE [seen[t] EXCEPT !.count = @ + 1]

(* Mutant: ">" where the code compares with ">=".                           *)
DecideLate(t) ==
    IF right[t] THEN [count |-> 0, until |-> 0]
    ELSE IF seen[t].count + 1 > MaxFailed
         THEN [count |-> 0, until |-> stamp[t] + LockFor]
         ELSE [seen[t] EXCEPT !.count = @ + 1]

(* The user object as authenticate leaves it.                               *)
Decide(t) ==
    IF right[t] THEN [count |-> 0, until |-> 0]
    ELSE IF seen[t].count + 1 >= MaxFailed
         THEN [count |-> 0, until |-> stamp[t] + LockFor]
         ELSE [seen[t] EXCEPT !.count = @ + 1]

(* UPDATE users SET <the columns that changed>; COMMIT.                     *)
Merge(made, loaded, current) == IF made # loaded THEN made ELSE current

Store(t) ==
    LET put == [count |-> Merge(Decide(t).count, seen[t].count, row.count),
                until |-> Merge(Decide(t).until, seen[t].until, row.until)]
    IN  /\ row'   = put
        /\ clean' = (clean /\ seen[t] = row)
        /\ IF right[t]
           THEN streak' = 0 /\ UNCHANGED <<lastWrong, wrongs>>
           ELSE /\ streak' = IF put.until # row.until THEN 0 ELSE Min({streak + 1, MaxFailed})
                /\ wrongs' = Min({wrongs + 1, MaxFailed})
                /\ lastWrong' = Max({lastWrong, stamp[t]})

Commit(t) ==
    /\ pc[t] = "commit"
    /\ pc' = [pc EXCEPT ![t] = IF right[t] THEN "in" ELSE "denied"]
    /\ Store(t)
    /\ UNCHANGED <<now, stamp, seen, right>>

(* The database or the worker fails under t; a COMMIT on its way may have   *)
(* been carried out.                                                        *)
Fail(t) ==
    /\ pc[t] \in {"load", "commit"}
    /\ pc' = [pc EXCEPT ![t] = "failed"]
    /\ \/ UNCHANGED <<row, history>>
       \/ pc[t] = "commit" /\ Store(t)
    /\ UNCHANGED <<now, stamp, seen, right>>

Tick ==
    /\ now < MaxClock
    /\ now' = now + 1
    /\ UNCHANGED <<row, pc, stamp, seen, right, history>>

Next == Tick \/ \E t \in Slots : Start(t) \/ Load(t) \/ Commit(t) \/ Fail(t)

Spec == Init /\ [][Next]_vars

----------------------------------------------------------------------------
(* A stored counter is always below the limit.                              *)
TypeOK ==
    /\ now \in 1..(MaxClock + 1)
    /\ row \in Rows /\ row.count < MaxFailed
    /\ pc \in [Slots -> {"idle", "load", "commit"} \cup Final]
    /\ stamp \in [Slots -> Nat]
    /\ seen \in [Slots -> Rows]
    /\ right \in [Slots -> BOOLEAN]
    /\ lastWrong \in Nat
    /\ streak \in 0..MaxFailed
    /\ wrongs \in 0..MaxFailed
    /\ clean \in BOOLEAN

(* As long as no two attempts overlap on the row, the counter is the number *)
(* of wrong passwords since the last success or lock, and MaxFailed of them *)
(* in a row never leave the account open.                                   *)
FailuresAreCounted == clean => row.count = streak /\ streak < MaxFailed

(* While a lock is in force nobody gets in and nothing lifts or shortens    *)
(* it, with one exception: an attempt that loaded the row before the lock   *)
(* was set.                                                                 *)
Returns(t) == pc[t] = "commit" /\ pc'[t] # "commit"
EntersOrLifts(t) == pc'[t] = "in" \/ row'.until < row.until

LockHolds ==
    [][\A t \in Slots :
          LockedAt(row, now) /\ Returns(t) /\ EntersOrLifts(t) => seen[t] # row]_vars

(* However attempts overlap, the account is locked only after MaxFailed     *)
(* wrong passwords: lost updates never add up to more failures than there   *)
(* were.                                                                    *)
NoLockWithoutFailures == row.until # 0 => wrongs = MaxFailed

(* The lock is temporary: a right password is turned away only within       *)
(* LockFor of the arrival of some attempt with a wrong one.                 *)
LockIsTemporary ==
    \A t \in Slots : right[t] /\ pc[t] \in {"denied", "raised"} =>
        lastWrong # 0 /\ stamp[t] < lastWrong + LockFor

----------------------------------------------------------------------------
(* "lockout temporario apos 5 falhas" (SECURITY.md): MaxFailed wrong        *)
(* passwords with no success in between lock the account.                   *)
LockedAfterMaxFailed == streak < MaxFailed
=============================================================================
