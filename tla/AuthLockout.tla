----------------------------- MODULE AuthLockout -----------------------------
(***************************************************************************)
(* AuthService for one email: registration, login, and the lock that       *)
(* failed logins put on the account.  Each query is a transaction of its   *)
(* own and each bcrypt operation is awaited, so a login decides and writes *)
(* on the strength of a row it read some time before.                      *)
(*                                                                         *)
(* lockedUntil is only ever compared with the current time: it is kept as  *)
(* the time left, zero standing for null and for a moment in the past.     *)
(* failedLoginAttempts is only compared with zero and with the limit, so   *)
(* counts stop at the limit.                                               *)
(***************************************************************************)
EXTENDS Naturals

CONSTANTS
    Calls,      \* register and login requests that may be in progress at once
    Passwords,
    MaxFailed,  \* MAX_FAILED_ATTEMPTS
    LockTicks,  \* LOCKOUT_DURATION_MS, in ticks of the clock
    Null

ASSUME NullIsFresh == Null \notin Passwords
ASSUME MaxFailedIsPositive == MaxFailed \in Nat \ {0}
ASSUME LockTicksIsPositive == LockTicks \in Nat \ {0}

VARIABLES
    user,      \* the app_user row, or Null
    pc,        \* where each request is
    password,  \* the password it brings
    seen,      \* the app_user row it has read, or Null
    result,    \* its answer
    failures,  \* history: failed logins written so far
    streak,    \* history: failed logins written since the last successful one
    since,     \* history: time since the last of them
    stale      \* history: some login acted on a count that was no longer the row's

call == <<pc, password, seen, result>>
vars == <<user, call, failures, streak, since, stale>>
history == <<failures, streak, since, stale>>

Account == [password : Passwords, failed : 0..MaxFailed, lockLeft : 0..LockTicks]
ASSUME NullIsNoAccount == Null \notin Account

Counted(n) == IF n < MaxFailed THEN n + 1 ELSE MaxFailed

Init ==
    /\ user = Null
    /\ pc = [c \in Calls |-> "idle"]
    /\ password = [c \in Calls |-> Null]
    /\ seen = [c \in Calls |-> Null]
    /\ result = [c \in Calls |-> "none"]
    /\ failures = 0
    /\ streak = 0
    /\ since = LockTicks
    /\ stale = FALSE

(* A request comes in, with no memory of the one before it.                *)
Begin(c, l) ==
    /\ pc[c] = "idle"
    /\ \E p \in Passwords : password' = [password EXCEPT ![c] = p]
    /\ pc' = [pc EXCEPT ![c] = l]
    /\ result' = [result EXCEPT ![c] = "none"]
    /\ UNCHANGED <<user, seen, history>>

Register(c) == Begin(c, "check")
Login(c) == Begin(c, "read")

Answer(c, a) ==
    /\ pc' = [pc EXCEPT ![c] = "idle"]
    /\ seen' = [seen EXCEPT ![c] = Null]
    /\ result' = [result EXCEPT ![c] = a]
    /\ UNCHANGED password

Continue(c, l) ==
    /\ pc' = [pc EXCEPT ![c] = l]
    /\ seen' = [seen EXCEPT ![c] = user]
    /\ UNCHANGED <<password, result>>

-----------------------------------------------------------------------------
(* findUnique by email: 409 if there is an account.                        *)
RegisterCheck(c) ==
    /\ pc[c] = "check"
    /\ IF user # Null THEN Answer(c, "conflict") ELSE Continue(c, "create")
    /\ UNCHANGED <<user, history>>

Fresh(p) == [password |-> p, failed |-> 0, lockLeft |-> 0]

(* Mutant: without the unique index on email.                              *)
RegisterCreateAgain(c) ==
    /\ pc[c] = "create"
    /\ user' = Fresh(password[c])
    /\ Answer(c, "tokens")
    /\ UNCHANGED history

(* After bcrypt.hash.  The unique index on email refuses a second account; *)
(* nothing catches that error.                                             *)
RegisterCreate(c) ==
    /\ pc[c] = "create"
    /\ \/ /\ user = Null
          /\ user' = Fresh(password[c])
          /\ Answer(c, "tokens")
       \/ /\ user # Null
          /\ Answer(c, "error")
          /\ UNCHANGED user
    /\ UNCHANGED history

-----------------------------------------------------------------------------
(* Mutant: the password is compared, and a failure counted, under a lock.  *)
LoginReadWhileLocked(c) ==
    /\ pc[c] = "read"
    /\ IF user = Null THEN Answer(c, "invalid") ELSE Continue(c, "compare")
    /\ UNCHANGED <<user, history>>

LoginRead(c) ==
    /\ pc[c] = "read"
    /\ IF user = Null THEN Answer(c, "invalid")
       ELSE IF user.lockLeft > 0 THEN Answer(c, "locked")
       ELSE Continue(c, "compare")
    /\ UNCHANGED <<user, history>>

Matches(c) == password[c] = seen[c].password

NoteStale(c) == stale' = (stale \/ user.failed # seen[c].failed)

(* The account with another count and lock.                                *)
WithFailures(failed, lockLeft) ==
    [password |-> user.password, failed |-> failed, lockLeft |-> lockLeft]

(* Mutants: a failure locks one attempt too early; it leaves the lock      *)
(* alone when the limit has already been reached.                          *)
RecordFailureEarly(c) ==
    LET attempts == Counted(seen[c].failed)
    IN  /\ pc[c] = "compare" /\ ~Matches(c)
        /\ user' = WithFailures(attempts, IF attempts + 1 >= MaxFailed THEN LockTicks ELSE 0)
        /\ Answer(c, "invalid")
        /\ failures' = Counted(failures)
        /\ streak' = Counted(streak)
        /\ since' = 0
        /\ NoteStale(c)

RecordFailureLocksOnce(c) ==
    LET attempts == Counted(seen[c].failed)
    IN  /\ pc[c] = "compare" /\ ~Matches(c)
        /\ user' = WithFailures(attempts, IF attempts = MaxFailed /\ seen[c].failed # MaxFailed
                                   THEN LockTicks ELSE 0)
        /\ Answer(c, "invalid")
        /\ failures' = Counted(failures)
        /\ streak' = Counted(streak)
        /\ since' = 0
        /\ NoteStale(c)

(* registerFailedAttempt counts on from the row that was read.             *)
RecordFailure(c) ==
    LET attempts == Counted(seen[c].failed)
    IN  /\ pc[c] = "compare" /\ ~Matches(c)
        /\ user' = WithFailures(attempts, IF attempts >= MaxFailed THEN LockTicks ELSE 0)
        /\ Answer(c, "invalid")
        /\ failures' = Counted(failures)
        /\ streak' = Counted(streak)
        /\ since' = 0
        /\ NoteStale(c)

(* The right password: reset a count that was not zero, issue tokens.      *)
Succeed(c) ==
    /\ pc[c] = "compare" /\ Matches(c)
    /\ user' = IF seen[c].failed > 0 THEN Fresh(user.password) ELSE user
    /\ Answer(c, "tokens")
    /\ streak' = 0
    /\ NoteStale(c)
    /\ UNCHANGED <<failures, since>>

(* A query fails or the process dies.                                      *)
Lose(c) ==
    /\ pc[c] # "idle"
    /\ Answer(c, "error")
    /\ UNCHANGED <<user, history>>

(* Mutant: the clock does not stop at the end of the lock.                 *)
TickPastZero ==
    /\ user # Null
    /\ user' = WithFailures(user.failed, user.lockLeft - 1)
    /\ since' = IF since < LockTicks THEN since + 1 ELSE since
    /\ UNCHANGED <<call, failures, streak, stale>>

Tick ==
    /\ user # Null
    /\ user' = WithFailures(user.failed, IF user.lockLeft > 0 THEN user.lockLeft - 1 ELSE 0)
    /\ since' = IF since < LockTicks THEN since + 1 ELSE since
    /\ UNCHANGED <<call, failures, streak, stale>>

-----------------------------------------------------------------------------
Serve(c) ==
    \/ RegisterCheck(c) \/ RegisterCreate(c)
    \/ LoginRead(c) \/ RecordFailure(c) \/ Succeed(c)

Next ==
    \/ \E c \in Calls : Register(c) \/ Login(c) \/ Serve(c) \/ Lose(c)
    \/ Tick

Spec == Init /\ [][Next]_vars

(* Time passes and a request that has begun is served; nobody has to begin *)
(* one.                                                                    *)
Fairness == WF_vars(Tick) /\ \A c \in Calls : WF_vars(Serve(c))

FairSpec == Spec /\ Fairness

-----------------------------------------------------------------------------
Labels == {"idle", "check", "create", "read", "compare"}
Answers == {"tokens", "invalid", "locked", "conflict", "error"}

TypeOK ==
    /\ user \in Account \cup {Null}
    /\ pc \in [Calls -> Labels]
    /\ password \in [Calls -> Passwords \cup {Null}]
    /\ seen \in [Calls -> Account \cup {Null}]
    /\ result \in [Calls -> Answers \cup {"none"}]
    /\ failures \in 0..MaxFailed
    /\ streak \in 0..MaxFailed
    /\ since \in 0..LockTicks
    /\ stale \in BOOLEAN

(* Tokens go to the holder of the account's password only, also when       *)
(* registrations of one email race: the account keeps the password of the  *)
(* registration that was answered with tokens.                             *)
TokensToTheOwner ==
    \A c \in Calls :
        result[c] = "tokens" => user # Null /\ password[c] = user.password

(* Nobody is locked out for less than MAX_FAILED_ATTEMPTS wrong passwords, *)
(* however logins interleave and overwrite each other's counts.            *)
LockIsEarned ==
    user # Null /\ user.lockLeft > 0 => failures = MaxFailed

(* With MAX_FAILED_ATTEMPTS failures in a row the account is locked for    *)
(* LOCKOUT_DURATION_MS from the last of them.                              *)
LockedByStreak ==
    streak = MaxFailed => user.lockLeft = LockTicks - since

(* As long as every login writes on top of the count it has read, the      *)
(* count is the number of failures in a row and the lock is in place.      *)
QuietLockout ==
    ~stale /\ user # Null => user.failed = streak /\ LockedByStreak

(* A lock ends although wrong passwords keep coming: attempts made under   *)
(* it are not counted and do not prolong it.                               *)
LockoutEnds ==
    (user # Null /\ user.lockLeft > 0) ~> (user # Null /\ user.lockLeft = 0)

-----------------------------------------------------------------------------
(* The inductive invariant, part by part.                                  *)

(* What a request in progress holds: its password, no answer yet, and past *)
(* its read a row of the account, whose password never changes.            *)
CallInv ==
    \A c \in Calls :
        /\ pc[c] # "idle" => password[c] \in Passwords /\ result[c] = "none"
        /\ pc[c] = "compare" =>
             user # Null /\ seen[c] # Null /\ seen[c].password = user.password

(* No count, written or still held by a login, is above the number of      *)
(* failures there have been; there are none before there is an account.    *)
CountInv ==
    /\ IF user = Null THEN streak = 0 ELSE user.failed <= failures
    /\ \A c \in Calls : seen[c] # Null => seen[c].failed <= failures

Inv == TypeOK /\ CallInv /\ CountInv /\ TokensToTheOwner /\ LockIsEarned /\ QuietLockout

=============================================================================
