----------------------------- MODULE AuthProofs -----------------------------
(***************************************************************************)
(* The safety properties of AuthLockout for any number of concurrent       *)
(* logins, any limit and any duration of the lock: Inv holds initially and *)
(* every action preserves it.                                              *)
(***************************************************************************)
EXTENDS AuthLockout, TLAPS

(* Counting one more failure keeps to the limit and keeps the order.       *)
LEMMA Counting ==
    ASSUME NEW m \in 0..MaxFailed, NEW n \in 0..MaxFailed, m <= n
    PROVE  /\ Counted(m) \in 0..MaxFailed
           /\ Counted(m) <= Counted(n)
           /\ n <= Counted(n)
           /\ Counted(m) >= MaxFailed => Counted(n) = MaxFailed
BY MaxFailedIsPositive DEF Counted

LEMMA InitInv == Init => Inv
<1> SUFFICES ASSUME Init PROVE Inv
  OBVIOUS
<1> USE DEF Init
<1>1. TypeOK
  <2>1. failures \in 0..MaxFailed /\ streak \in 0..MaxFailed /\ since \in 0..LockTicks
    BY MaxFailedIsPositive, LockTicksIsPositive
  <2>2. pc \in [Calls -> Labels] /\ result \in [Calls -> Answers \cup {"none"}]
    BY DEF Labels, Answers
  <2>3. /\ password \in [Calls -> Passwords \cup {Null}]
        /\ seen \in [Calls -> Account \cup {Null}]
    OBVIOUS
  <2>4. QED
    BY <2>1, <2>2, <2>3 DEF TypeOK
<1>2. CallInv
  BY DEF CallInv
<1>3. CountInv
  BY DEF CountInv
<1>4. TokensToTheOwner
  BY DEF TokensToTheOwner
<1>5. LockIsEarned /\ QuietLockout
  BY DEF LockIsEarned, QuietLockout
<1>6. QED
  BY <1>1, <1>2, <1>3, <1>4, <1>5 DEF Inv

LEMMA BeginInv ==
    ASSUME Inv, NEW c \in Calls, NEW l \in {"check", "read"}, Begin(c, l)
    PROVE  Inv'
<1> USE DEF Inv, history, Begin
<1>1. TypeOK'
  BY DEF TypeOK, Labels, Answers
<1>2. CallInv'
  BY DEF CallInv, TypeOK
<1>3. CountInv'
  BY DEF CountInv
<1>4. TokensToTheOwner'
  BY DEF TokensToTheOwner, TypeOK
<1>5. LockIsEarned' /\ QuietLockout'
  BY DEF LockIsEarned, QuietLockout, LockedByStreak
<1>6. QED
  BY <1>1, <1>2, <1>3, <1>4, <1>5

(* An answer other than tokens, the account staying as it is.              *)
LEMMA AnswerInv ==
    ASSUME Inv, NEW c \in Calls, NEW a \in Answers \ {"tokens"},
           Answer(c, a), UNCHANGED <<user, history>>
    PROVE  Inv'
<1> USE DEF Inv, history, Answer
<1>1. TypeOK'
  BY DEF TypeOK, Labels
<1>2. CallInv'
  BY DEF CallInv, TypeOK
<1>3. CountInv'
  BY DEF CountInv, TypeOK
<1>4. TokensToTheOwner'
  BY DEF TokensToTheOwner, TypeOK
<1>5. LockIsEarned' /\ QuietLockout'
  BY DEF LockIsEarned, QuietLockout, LockedByStreak
<1>6. QED
  BY <1>1, <1>2, <1>3, <1>4, <1>5

(* Going on with the row that was read.                                    *)
LEMMA ContinueInv ==
    ASSUME Inv, NEW c \in Calls, NEW l \in {"create", "compare"},
           password[c] \in Passwords, result[c] = "none",
           l = "compare" => user # Null,
           Continue(c, l), UNCHANGED <<user, history>>
    PROVE  Inv'
<1> USE DEF Inv, history, Continue
<1>1. TypeOK'
  BY DEF TypeOK, Labels
<1>2. CallInv'
  BY DEF CallInv, TypeOK
<1>3. CountInv'
  BY DEF CountInv, TypeOK
<1>4. TokensToTheOwner'
  BY DEF TokensToTheOwner
<1>5. LockIsEarned' /\ QuietLockout'
  BY DEF LockIsEarned, QuietLockout, LockedByStreak
<1>6. QED
  BY <1>1, <1>2, <1>3, <1>4, <1>5

(* The first account starts with no failures; a second is refused.         *)
LEMMA RegisterCreateInv ==
    ASSUME Inv, NEW c \in Calls, RegisterCreate(c)
    PROVE  Inv'
<1>1. CASE user # Null
  BY <1>1, AnswerInv DEF RegisterCreate, Answers
<1>2. CASE user = Null
  <2> USE <1>2 DEF Inv, history, RegisterCreate, Fresh, Answer
  <2>1. password[c] \in Passwords
    BY DEF CallInv
  <2>2. user' \in Account /\ user' # Null /\ user'.password = password[c]
        /\ user'.failed = 0 /\ user'.lockLeft = 0
    BY <2>1, NullIsNoAccount, MaxFailedIsPositive, LockTicksIsPositive DEF Account
  <2>3. TypeOK'
    BY <2>2 DEF TypeOK, Labels, Answers
  <2>4. CallInv'
    BY <2>2 DEF CallInv, TypeOK
  <2>5. CountInv'
    BY <2>2 DEF CountInv, TypeOK
  <2>6. TokensToTheOwner'
    BY <2>2 DEF TokensToTheOwner, TypeOK
  <2>7. LockIsEarned' /\ QuietLockout'
    BY <2>2, MaxFailedIsPositive
    DEF LockIsEarned, QuietLockout, LockedByStreak, CountInv
  <2>8. QED
    BY <2>3, <2>4, <2>5, <2>6, <2>7
<1>3. QED
  BY <1>1, <1>2

(* The count that is written is at most one above a count that was not     *)
(* above the failures; on a fresh row it is the streak.                    *)
LEMMA RecordFailureInv ==
    ASSUME Inv, NEW c \in Calls, RecordFailure(c)
    PROVE  Inv'
<1> DEFINE attempts == Counted(seen[c].failed)
<1> USE DEF Inv, RecordFailure, WithFailures, Answer
<1>1. user \in Account /\ user # Null /\ seen[c] \in Account /\ seen[c] # Null
  BY DEF CallInv, TypeOK
<1>2. seen[c].failed \in 0..MaxFailed /\ seen[c].failed <= failures
  BY <1>1 DEF Account, CountInv
<1>3. /\ attempts \in 0..MaxFailed /\ failures' \in 0..MaxFailed
      /\ attempts <= failures' /\ failures <= failures'
      /\ attempts >= MaxFailed => failures' = MaxFailed
  BY <1>2, Counting DEF TypeOK
<1>4. streak' \in 0..MaxFailed
  BY MaxFailedIsPositive DEF TypeOK, Counted
<1>5. /\ user' \in Account /\ user' # Null
      /\ user'.password = user.password
      /\ user'.failed = attempts
      /\ user'.lockLeft = IF attempts >= MaxFailed THEN LockTicks ELSE 0
  BY <1>1, <1>3, NullIsNoAccount, LockTicksIsPositive DEF Account
<1> HIDE DEF attempts
<1>6. TypeOK'
  BY <1>3, <1>4, <1>5, LockTicksIsPositive DEF TypeOK, Labels, Answers, NoteStale
<1>7. CallInv'
  BY <1>5 DEF CallInv, TypeOK
<1>8. CountInv'
  <2>1. \A d \in Calls : seen'[d] # Null =>
          seen'[d] = seen[d] /\ seen[d].failed \in 0..MaxFailed /\ seen[d].failed <= failures
    BY DEF CountInv, TypeOK, Account
  <2>2. failures \in 0..MaxFailed
    BY DEF TypeOK
  <2>3. QED
    BY <1>3, <1>5, <2>1, <2>2 DEF CountInv
<1>9. TokensToTheOwner'
  BY <1>5 DEF TokensToTheOwner, TypeOK
<1>10. LockIsEarned'
  BY <1>3, <1>5 DEF LockIsEarned
<1>11. QuietLockout'
  <2>1. SUFFICES ASSUME ~stale'
                 PROVE  user'.failed = streak' /\ LockedByStreak'
    BY DEF QuietLockout
  <2>2. ~stale /\ user.failed = seen[c].failed
    BY <2>1 DEF NoteStale, TypeOK
  <2>3. attempts = streak'
    BY <1>1, <2>2 DEF QuietLockout, attempts
  <2>4. QED
    BY <1>3, <1>5, <2>3, LockTicksIsPositive DEF LockedByStreak
<1>12. QED
  BY <1>6, <1>7, <1>8, <1>9, <1>10, <1>11

(* The password read is the account's, so it is the owner who logs in.     *)
LEMMA SucceedInv ==
    ASSUME Inv, NEW c \in Calls, Succeed(c)
    PROVE  Inv'
<1> USE DEF Inv, Succeed, Matches, Fresh, Answer
<1>1. user \in Account /\ user # Null /\ seen[c] \in Account
      /\ password[c] = user.password
  BY DEF CallInv, TypeOK
<1>2. /\ user' \in Account /\ user' # Null
      /\ user'.password = user.password
      /\ user' = user \/ (user'.failed = 0 /\ user'.lockLeft = 0)
      /\ seen[c].failed > 0 => user'.failed = 0
      /\ user.failed \in 0..MaxFailed
      /\ seen[c].failed \in 0..MaxFailed
  BY <1>1, NullIsNoAccount, MaxFailedIsPositive, LockTicksIsPositive DEF Account
<1>3. TypeOK'
  BY <1>2, MaxFailedIsPositive DEF TypeOK, Labels, Answers, NoteStale
<1>4. CallInv'
  BY <1>2 DEF CallInv, TypeOK
<1>5. CountInv'
  BY <1>1, <1>2 DEF CountInv, TypeOK
<1>6. TokensToTheOwner'
  BY <1>1, <1>2 DEF TokensToTheOwner, TypeOK
<1>7. LockIsEarned'
  BY <1>2 DEF LockIsEarned
<1>8. QuietLockout'
  <2>1. ~stale' => seen[c].failed = user.failed
    BY DEF NoteStale, TypeOK
  <2>2. ~stale' => user'.failed = 0
    BY <1>2, <2>1
  <2>3. QED
    BY <2>2, MaxFailedIsPositive DEF QuietLockout, LockedByStreak
<1>9. QED
  BY <1>3, <1>4, <1>5, <1>6, <1>7, <1>8

(* The lock and the time since the last failure run together.              *)
LEMMA TickInv == Inv /\ Tick => Inv'
<1> SUFFICES ASSUME Inv, Tick PROVE Inv'
  OBVIOUS
<1> USE DEF Inv, Tick, WithFailures, call
<1>1. user \in Account
  BY DEF TypeOK
<1>2. /\ user' \in Account /\ user' # Null
      /\ user'.password = user.password /\ user'.failed = user.failed
      /\ user'.lockLeft = IF user.lockLeft > 0 THEN user.lockLeft - 1 ELSE 0
      /\ user.lockLeft \in 0..LockTicks
  BY <1>1, NullIsNoAccount, LockTicksIsPositive DEF Account
<1>3. TypeOK'
  BY <1>2, LockTicksIsPositive DEF TypeOK
<1>4. CallInv'
  BY <1>2 DEF CallInv
<1>5. CountInv'
  BY <1>2 DEF CountInv
<1>6. TokensToTheOwner'
  BY <1>2 DEF TokensToTheOwner
<1>7. LockIsEarned'
  BY <1>2 DEF LockIsEarned
<1>8. QuietLockout'
  BY <1>2, LockTicksIsPositive DEF QuietLockout, LockedByStreak, TypeOK
<1>9. QED
  BY <1>3, <1>4, <1>5, <1>6, <1>7, <1>8

LEMMA NextInv == Inv /\ [Next]_vars => Inv'
<1> SUFFICES ASSUME Inv, [Next]_vars PROVE Inv'
  OBVIOUS
<1>1. ASSUME NEW c \in Calls, Register(c) \/ Login(c)
      PROVE  Inv'
  BY <1>1, BeginInv DEF Register, Login
<1>2. ASSUME NEW c \in Calls, RegisterCheck(c)
      PROVE  Inv'
  <2>1. password[c] \in Passwords /\ result[c] = "none"
    BY <1>2 DEF RegisterCheck, Inv, CallInv
  <2>2. CASE user # Null
    BY <1>2, <2>2, AnswerInv DEF RegisterCheck, Answers
  <2>3. CASE user = Null
    BY <1>2, <2>1, <2>3, ContinueInv DEF RegisterCheck
  <2>4. QED
    BY <2>2, <2>3
<1>3. ASSUME NEW c \in Calls, LoginRead(c)
      PROVE  Inv'
  <2>1. password[c] \in Passwords /\ result[c] = "none"
    BY <1>3 DEF LoginRead, Inv, CallInv
  <2>2. CASE user = Null \/ user.lockLeft > 0
    BY <1>3, <2>2, AnswerInv DEF LoginRead, Answers
  <2>3. CASE user # Null /\ ~(user.lockLeft > 0)
    BY <1>3, <2>1, <2>3, ContinueInv DEF LoginRead
  <2>4. QED
    BY <2>2, <2>3
<1>4. ASSUME NEW c \in Calls, Lose(c)
      PROVE  Inv'
  BY <1>4, AnswerInv DEF Lose, Answers
<1>5. CASE UNCHANGED vars
  BY <1>5 DEF vars, call, history, Inv, TypeOK, CallInv, CountInv, TokensToTheOwner,
              LockIsEarned, QuietLockout, LockedByStreak
<1>6. QED
  BY <1>1, <1>2, <1>3, <1>4, <1>5, RegisterCreateInv, RecordFailureInv, SucceedInv, TickInv
  DEF Next, Serve

-----------------------------------------------------------------------------
(* Inv holds in every state the service can reach.                         *)
THEOREM Invariance == Spec => []Inv
BY InitInv, NextInv, PTL DEF Spec

(* Racing registrations and logins never give tokens to anyone but the     *)
(* holder of the account's password.                                       *)
THEOREM OwnerOnly == Spec => []TokensToTheOwner
BY Invariance, PTL DEF Inv

(* However logins overwrite each other's counts, an account is locked only *)
(* after MaxFailed failures.                                               *)
THEOREM EarnedLock == Spec => []LockIsEarned
BY Invariance, PTL DEF Inv

(* While no login acts on an outdated count, MaxFailed failures in a row   *)
(* lock the account for LockTicks from the last of them.                   *)
THEOREM QuietLock == Spec => []QuietLockout
BY Invariance, PTL DEF Inv
=============================================================================
