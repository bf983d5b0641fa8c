----------------------------- MODULE QueueProofs -----------------------------
(***************************************************************************)
(* The safety properties of OfflineQueue for any number of entries, calls  *)
(* of trySync and kills: Inv holds initially and every action preserves    *)
(* it.  The argument is about queues: a queue that a step puts into        *)
(* storage or into a variable is one that was there, an empty one, one     *)
(* with a fresh entry at its end, or one without its head.                 *)
(***************************************************************************)
EXTENDS OfflineQueue, TLAPS

-----------------------------------------------------------------------------
(* Queues.                                                                 *)

LEMMA EmptyQueue ==
    /\ <<>> \in Seq(Entries) /\ IsInjective(<<>>) /\ ToSet(<<>>) = {}
    /\ \A d, e : ~Before(<<>>, d, e)
BY DEF IsInjective, ToSet, Before

LEMMA AppendFresh ==
    ASSUME NEW q \in Seq(Entries), IsInjective(q), NEW e \in Entries, e \notin ToSet(q)
    PROVE  /\ Append(q, e) \in Seq(Entries)
           /\ IsInjective(Append(q, e))
           /\ ToSet(Append(q, e)) = ToSet(q) \cup {e}
           /\ \A d, x : Before(q, d, x) => Before(Append(q, e), d, x)
           /\ \A d, x : Before(Append(q, e), d, x) =>
                            Before(q, d, x) \/ (x = e /\ d \in ToSet(q))
<1> DEFINE a == Append(q, e)
<1>1. /\ a \in Seq(Entries) /\ Len(a) = Len(q) + 1
      /\ DOMAIN a = 1 .. Len(q) + 1 /\ DOMAIN q = 1 .. Len(q) /\ Len(q) \in Nat
      /\ \A i \in 1 .. Len(q) : a[i] = q[i]
      /\ a[Len(q) + 1] = e
  OBVIOUS
<1> HIDE DEF a
<1>2. \A i \in 1 .. Len(q) : q[i] # e
  BY <1>1 DEF ToSet
<1>3. IsInjective(a)
  BY <1>1, <1>2 DEF IsInjective
<1>4. ToSet(a) = ToSet(q) \cup {e}
  <2>1. ToSet(a) \subseteq ToSet(q) \cup {e}
    BY <1>1 DEF ToSet
  <2>2. ToSet(q) \subseteq ToSet(a)
    BY <1>1 DEF ToSet
  <2>3. e \in ToSet(a)
    BY <1>1 DEF ToSet
  <2>4. QED
    BY <2>1, <2>2, <2>3
<1>5. \A d, x : Before(q, d, x) => Before(a, d, x)
  BY <1>1 DEF Before
<1>6. \A d, x : Before(a, d, x) => Before(q, d, x) \/ (x = e /\ d \in ToSet(q))
  BY <1>1 DEF Before, ToSet
<1>7. QED
  BY <1>1, <1>3, <1>4, <1>5, <1>6 DEF a

LEMMA TailQueue ==
    ASSUME NEW q \in Seq(Entries), IsInjective(q), q # <<>>
    PROVE  /\ Tail(q) \in Seq(Entries)
           /\ IsInjective(Tail(q))
           /\ ToSet(q) = ToSet(Tail(q)) \cup {Head(q)}
           /\ \A d, x : Before(Tail(q), d, x) => Before(q, d, x)
           /\ \A d, x : Before(q, d, x) => d = Head(q) \/ Before(Tail(q), d, x)
           /\ \A d : ~Before(q, d, Head(q))
           /\ Head(q) \in Entries
           /\ Without(q, Head(q)) = Tail(q)
<1> DEFINE t == Tail(q)
<1>1. /\ t \in Seq(Entries) /\ Len(q) \in Nat \ {0}
      /\ DOMAIN t = 1 .. Len(q) - 1 /\ DOMAIN q = 1 .. Len(q)
      /\ \A i \in 1 .. Len(q) - 1 : t[i] = q[i + 1]
      /\ Head(q) = q[1]
      /\ Head(q) \in Entries
  OBVIOUS
<1>2. Without(q, Head(q)) = t
  <2>1. (CHOOSE i \in DOMAIN q : q[i] = Head(q)) = 1
    BY <1>1 DEF IsInjective
  <2>2. Head(q) \in ToSet(q)
    BY <1>1 DEF ToSet
  <2>3. Without(q, Head(q)) = RemoveAt(q, 1)
    BY <2>1, <2>2 DEF Without
  <2>4. RemoveAt(q, 1) = t
    BY <1>1 DEF RemoveAt
  <2>5. QED
    BY <2>3, <2>4
<1> HIDE DEF t
<1>3. IsInjective(t)
  <2> SUFFICES ASSUME NEW i \in DOMAIN t, NEW j \in DOMAIN t, t[i] = t[j] PROVE i = j
    BY DEF IsInjective
  <2>1. i + 1 \in DOMAIN q /\ j + 1 \in DOMAIN q /\ q[i + 1] = q[j + 1]
    BY <1>1
  <2>2. i + 1 = j + 1
    BY <2>1 DEF IsInjective
  <2>3. QED
    BY <1>1, <2>2
<1>4. ToSet(q) = ToSet(t) \cup {Head(q)}
  <2>1. ToSet(t) \cup {Head(q)} \subseteq ToSet(q)
    BY <1>1 DEF ToSet
  <2>2. \A i \in DOMAIN q : i = 1 \/ (i - 1 \in DOMAIN t /\ t[i - 1] = q[i])
    BY <1>1
  <2>3. ToSet(q) \subseteq ToSet(t) \cup {Head(q)}
    BY <1>1, <2>2 DEF ToSet
  <2>4. QED
    BY <2>1, <2>3
<1>5. \A d, x : Before(t, d, x) => Before(q, d, x)
  <2> SUFFICES ASSUME NEW d, NEW x, NEW i \in DOMAIN t, NEW j \in DOMAIN t,
                      i < j, t[i] = d, t[j] = x
               PROVE  Before(q, d, x)
    BY DEF Before
  <2>1. /\ i + 1 \in DOMAIN q /\ j + 1 \in DOMAIN q /\ i + 1 < j + 1
        /\ q[i + 1] = d /\ q[j + 1] = x
    BY <1>1
  <2>2. QED
    BY <2>1 DEF Before
<1>6. \A d, x : Before(q, d, x) => d = Head(q) \/ Before(t, d, x)
  <2> SUFFICES ASSUME NEW d, NEW x, NEW i \in DOMAIN q, NEW j \in DOMAIN q,
                      i < j, q[i] = d, q[j] = x, i # 1
               PROVE  Before(t, d, x)
    BY <1>1 DEF Before
  <2>1. i - 1 \in DOMAIN t /\ j - 1 \in DOMAIN t /\ i - 1 < j - 1
    BY <1>1
  <2>2. t[i - 1] = d /\ t[j - 1] = x
    BY <1>1, <2>1
  <2>3. QED
    BY <2>1, <2>2 DEF Before
<1>7. \A d : ~Before(q, d, Head(q))
  BY <1>1 DEF Before, IsInjective
<1>8. QED
  BY <1>1, <1>2, <1>3, <1>4, <1>5, <1>6, <1>7 DEF t

-----------------------------------------------------------------------------
(* What a step does to the queues there are.                               *)

(* Saves are not undone, answers not taken back, and no request is made.   *)
Onward ==
    /\ Saved \subseteq Saved'
    /\ Sent' \subseteq Sent
    /\ \A e \in Entries : answer[e] # "none" => answer'[e] # "none"

(* p's order is respected by q.                                            *)
Agrees(p, q) ==
    \A d, e \in Entries :
        Before(p, d, e) /\ e \in ToSet(q) => Before(q, d, e) \/ answer'[d] # "none"

LEMMA QueuesAreQueues ==
    ASSUME TypeOK
    PROVE  Queues \subseteq Seq(Entries)
BY DEF TypeOK, Queues, RunRecord

LEMMA NewQueue ==
    ASSUME TypeOK, CopyInv, OrderInv, SentInv, Onward,
           NEW n \in Seq(Entries), Queues' \subseteq Queues \cup {<<>>, n},
           IsInjective(n), ToSet(n) \subseteq Saved',
           \A q \in Queues : Agrees(n, q) /\ Agrees(q, n),
           \A e \in Sent, d \in Entries : Before(n, d, e) => answer'[d] # "none"
    PROVE  CopyInv' /\ OrderInv' /\ SentInv'
<1>1. CopyInv'
  BY EmptyQueue DEF CopyInv, Onward
<1>2. \A q \in Queues \cup {<<>>, n} : Agrees(<<>>, q) /\ Agrees(q, <<>>)
  BY EmptyQueue DEF Agrees
<1>3. Agrees(n, n)
  BY DEF Agrees
<1>4. \A p, q \in Queues : Agrees(p, q)
  BY DEF OrderInv, Agrees, Onward
<1>5. \A p, q \in Queues' : Agrees(p, q)
  BY <1>2, <1>3, <1>4
<1>6. OrderInv'
  BY <1>5 DEF OrderInv, Agrees
<1>7. SentInv'
  <2>1. \A e \in Sent, q \in Queues, d \in Entries : Before(q, d, e) => answer'[d] # "none"
    BY DEF SentInv, Onward
  <2>2. \A e \in Sent, q \in Queues', d \in Entries : Before(q, d, e) => answer'[d] # "none"
    BY <2>1, EmptyQueue
  <2>3. QED
    BY <2>2 DEF SentInv, Onward
<1>8. QED
  BY <1>1, <1>6, <1>7

LEMMA SameQueues ==
    ASSUME TypeOK, CopyInv, OrderInv, SentInv, Onward, Queues' \subseteq Queues \cup {<<>>}
    PROVE  CopyInv' /\ OrderInv' /\ SentInv'
<1>1. \A q \in Queues : Agrees(<<>>, q) /\ Agrees(q, <<>>)
  BY EmptyQueue DEF Agrees
<1>2. Queues' \subseteq Queues \cup {<<>>, <<>>}
  OBVIOUS
<1>3. QED
  BY <1>1, <1>2, EmptyQueue, NewQueue

-----------------------------------------------------------------------------
LEMMA InitInv == Init => Inv
<1> SUFFICES ASSUME Init PROVE Inv
  OBVIOUS
<1>1. TypeOK
  <2>1. storage \in Seq(Entries) /\ IsInjective(storage)
    BY EmptyQueue DEF Init
  <2>2. local \in [Entries -> Seq(Entries)]
    BY EmptyQueue DEF Init
  <2>3. run \in [Syncs -> RunRecord]
    BY EmptyQueue DEF Init, Off, RunRecord
  <2>4. restarts \in 0 .. MaxRestarts
    BY MaxRestartsIsNat DEF Init
  <2>5. QED
    BY <2>1, <2>2, <2>3, <2>4 DEF Init, TypeOK
<1>2. Queues \subseteq {<<>>}
  BY DEF Init, Queues, Off
<1>3. CopyInv /\ OrderInv /\ SentInv
  <2>1. Sent = {}
    BY DEF Init, Sent, InFlight, Off
  <2>2. QED
    BY <1>2, <2>1, EmptyQueue DEF CopyInv, OrderInv, SentInv
<1>4. RunInv /\ OneSyncAtATime
  BY DEF Init, RunInv, OneSyncAtATime, Running, Off
<1>5. QueuedUntilAnswered
  BY DEF Init, QueuedUntilAnswered, Saved
<1>6. QED
  BY <1>1, <1>3, <1>4, <1>5 DEF Inv

(* A call of trySync, whatever else happens with it.                       *)
LEMMA TrySyncInv ==
    ASSUME Inv, NEW s \in Syncs, TrySync(s), UNCHANGED answer
    PROVE  /\ run' \in [Syncs -> RunRecord]
           /\ syncing' \in BOOLEAN
           /\ \A t \in Syncs : run'[t].queue = run[t].queue
           /\ InFlight' \subseteq InFlight
           /\ RunInv' /\ OneSyncAtATime'
<1> USE DEF Inv, TypeOK, RunRecord
<1>1. CASE syncing
  BY <1>1 DEF TrySync, RunInv, OneSyncAtATime, Running, Current, InFlight
<1>2. CASE ~syncing
  <2>1. \A t \in Syncs : run[t].pc = "off"
    BY <1>2 DEF OneSyncAtATime, Running
  <2>2. /\ syncing' = TRUE
        /\ run' = [run EXCEPT ![s] = [@ EXCEPT !.pc = "read"]]
    BY <1>2 DEF TrySync
  <2>3. \A t \in Syncs : /\ run'[t].queue = run[t].queue /\ run'[t].batch = run[t].batch
                         /\ run'[t].pc = IF t = s THEN "read" ELSE "off"
    BY <2>1, <2>2
  <2>4. RunInv' /\ OneSyncAtATime'
    BY <2>2, <2>3 DEF RunInv, OneSyncAtATime, Running
  <2>5. InFlight' = {}
    BY <2>3 DEF InFlight
  <2>6. QED
    BY <2>2, <2>3, <2>4, <2>5
<1>3. QED
  BY <1>1, <1>2

LEMMA TriggerInv ==
    ASSUME Inv, NEW s \in Syncs, Trigger(s)
    PROVE  Inv'
<1> USE DEF Inv, Trigger, serverVars, saveVars
<1>1. /\ RunInv' /\ OneSyncAtATime' /\ TypeOK'
      /\ \A t \in Syncs : run'[t].queue = run[t].queue
      /\ InFlight' \subseteq InFlight
  BY TrySyncInv DEF TypeOK
<1>2. Queues' \subseteq Queues
  BY <1>1 DEF Queues
<1>3. CopyInv' /\ OrderInv' /\ SentInv'
  BY <1>1, <1>2, SameQueues DEF Onward, Sent, Saved
<1>4. QueuedUntilAnswered'
  BY DEF QueuedUntilAnswered, Saved
<1>5. QED
  BY <1>1, <1>3, <1>4

LEMMA SyncReadInv ==
    ASSUME Inv, NEW s \in Syncs, SyncRead(s)
    PROVE  Inv'
<1> USE DEF Inv, SyncRead, serverVars, saveVars
<1>1. TypeOK'
  BY DEF TypeOK, RunRecord
<1>2. Queues' \subseteq Queues
  BY DEF Queues, TypeOK, RunRecord
<1>3. CopyInv' /\ OrderInv' /\ SentInv'
  BY <1>2, SameQueues DEF Onward, Sent, InFlight, Current, Saved
<1>4. RunInv' /\ OneSyncAtATime'
  BY DEF RunInv, OneSyncAtATime, Running, TypeOK
<1>5. QueuedUntilAnswered'
  BY DEF QueuedUntilAnswered, Saved
<1>6. QED
  BY <1>1, <1>3, <1>4, <1>5

LEMMA PostInv ==
    ASSUME Inv, NEW s \in Syncs, Post(s)
    PROVE  Inv'
<1> USE DEF Inv, Post, serverVars, saveVars
<1>1. TypeOK'
  BY DEF TypeOK, RunRecord
<1>2. Queues' \subseteq Queues
  BY DEF Queues, TypeOK, RunRecord
<1>3. CopyInv' /\ OrderInv'
  BY <1>2 DEF CopyInv, OrderInv, Saved
<1>4. SentInv'
  <2> DEFINE q == run[s].queue
  <2>1. /\ q \in Queues /\ q \in Seq(Entries) /\ q # <<>>
        /\ IsInjective(q) /\ ToSet(q) \subseteq Saved /\ Current(s) = Head(q)
    BY DEF TypeOK, RunRecord, RunInv, CopyInv, Queues, Current
  <2>2. Head(q) \in ToSet(q) /\ Head(q) \in Entries /\ \A d : ~Before(q, d, Head(q))
    BY <2>1, TailQueue
  <2>3. \A p \in Queues, d \in Entries : Before(p, d, Head(q)) => answer[d] # "none"
    BY <2>1, <2>2 DEF OrderInv
  <2>4. Sent' \subseteq Sent \cup {Head(q)}
    BY <2>1 DEF Sent, InFlight, Current, TypeOK
  <2>5. QED
    BY <1>2, <2>1, <2>2, <2>3, <2>4 DEF SentInv, Saved
<1>5. RunInv' /\ OneSyncAtATime'
  BY DEF RunInv, OneSyncAtATime, Running, TypeOK, Current
<1>6. QueuedUntilAnswered'
  BY DEF QueuedUntilAnswered, Saved
<1>7. QED
  BY <1>1, <1>3, <1>5, <1>6, <1>4

(* The loop ends, at its end or by break.                                  *)
LEMMA LeaveInv ==
    ASSUME Inv, NEW s \in Syncs, run[s].pc # "off",
           run' = [run EXCEPT ![s] = Off], syncing' = FALSE,
           orphans' \subseteq Entries \cap Sent,
           UNCHANGED <<storage, saveVars, online, authed, ledger, answer, stale, restarts>>
    PROVE  Inv'
<1> USE DEF Inv, saveVars
<1>1. Off \in RunRecord
  BY EmptyQueue DEF Off, RunRecord
<1>2. TypeOK'
  BY <1>1 DEF TypeOK
<1>3. \A t \in Syncs : run'[t] = IF t = s THEN Off ELSE run[t]
  BY DEF TypeOK
<1>4. Queues' \subseteq Queues \cup {<<>>}
  BY <1>3 DEF Queues, Off
<1>5. CopyInv' /\ OrderInv' /\ SentInv'
  <2>1. InFlight' \subseteq InFlight
    BY <1>3 DEF InFlight, Current, Off
  <2>2. Onward
    BY <2>1 DEF Onward, Sent, Saved
  <2>3. QED
    BY <2>2, <1>4, SameQueues
<1>6. RunInv'
  BY <1>3 DEF RunInv, Off, Current
<1>7. OneSyncAtATime'
  BY <1>3 DEF OneSyncAtATime, Running, Off
<1>8. QueuedUntilAnswered'
  BY DEF QueuedUntilAnswered, Saved
<1>9. QED
  BY <1>2, <1>5, <1>6, <1>7, <1>8

LEMMA FinishInv ==
    ASSUME Inv, NEW s \in Syncs, Finish(s)
    PROVE  Inv'
BY LeaveInv DEF Finish, serverVars, Inv, TypeOK, Sent

LEMMA CurrentIsQueued ==
    ASSUME Inv, NEW s \in Syncs, run[s].pc \in {"await", "store"}
    PROVE  Current(s) \in Entries
BY DEF Inv, RunInv, Current, TypeOK, RunRecord

LEMMA NetworkFailureInv ==
    ASSUME Inv, NEW s \in Syncs, NetworkFailure(s)
    PROVE  Inv'
<1>1. Current(s) \in Entries
  BY CurrentIsQueued DEF NetworkFailure
<1>2. orphans' \subseteq Entries \cap Sent
  BY <1>1 DEF NetworkFailure, Inv, TypeOK, Sent, InFlight
<1>3. QED
  BY <1>2, LeaveInv DEF NetworkFailure

(* The server answers for the current entry.                               *)
LEMMA AnsweredInv ==
    ASSUME Inv, NEW s \in Syncs, run[s].pc = "await",
           ledger' \in {ledger, Accept(Current(s))}, authed' \in BOOLEAN,
           NEW a \in {"created"} \cup Permanent \cup Transient,
           answer' = [answer EXCEPT ![Current(s)] = a],
           run' = [run EXCEPT ![s] = [@ EXCEPT !.pc = "store", !.authed = FALSE]],
           UNCHANGED <<storage, saveVars, syncing, online, orphans, stale, restarts>>
    PROVE  Inv'
<1> USE DEF Inv, saveVars
<1>1. Current(s) \in Entries
  BY CurrentIsQueued
<1>2. ledger' \subseteq ledger \cup {Current(s)}
  BY DEF Accept
<1>3. Current(s) \in InFlight
  BY DEF InFlight
<1>4. a # "none"
  BY DEF Permanent, Transient
<1>5. \A e \in Entries : answer'[e] = IF e = Current(s) THEN a ELSE answer[e]
  BY <1>1 DEF TypeOK
<1>6. TypeOK'
  BY <1>1, <1>2 DEF TypeOK, RunRecord
<1>7. \A t \in Syncs : /\ run'[t].queue = run[t].queue /\ run'[t].batch = run[t].batch
                       /\ run'[t].pc = IF t = s THEN "store" ELSE run[t].pc
  BY DEF TypeOK
<1>8. Queues' \subseteq Queues
  BY <1>7 DEF Queues
<1>9. CopyInv' /\ OrderInv' /\ SentInv'
  <2>1. InFlight' \subseteq InFlight
    BY <1>7 DEF InFlight, Current
  <2>2. Onward
    BY <2>1, <1>2, <1>4, <1>5, <1>3 DEF Onward, Sent, Saved
  <2>3. QED
    BY <2>2, <1>4, <1>5, <1>8, SameQueues
<1>10. RunInv'
  <2> SUFFICES ASSUME NEW t \in Syncs
               PROVE  /\ run'[t].batch = run'[t].queue
                      /\ run'[t].pc \in {"await", "store"} => run'[t].batch # <<>>
                      /\ run'[t].pc = "store" => answer'[Current(t)'] # "none"
    BY DEF RunInv
  <2>1. Current(t)' = Current(t)
    BY <1>7 DEF Current
  <2>2. CASE t = s
    BY <1>1, <1>4, <1>5, <1>7, <2>1, <2>2 DEF RunInv
  <2>3. CASE t # s
    <3>1. run'[t].pc = "store" => Current(t) \in Entries
      BY <1>7, <2>3, CurrentIsQueued
    <3>2. QED
      BY <1>4, <1>5, <1>7, <2>1, <2>3, <3>1 DEF RunInv
  <2>4. QED
    BY <2>2, <2>3
<1>11. OneSyncAtATime'
  BY <1>7 DEF OneSyncAtATime, Running
<1>12. QueuedUntilAnswered'
  BY <1>2, <1>4, <1>5 DEF QueuedUntilAnswered, Saved
<1>13. QED
  BY <1>6, <1>9, <1>10, <1>11, <1>12

LEMMA CreatedInv ==
    ASSUME Inv, NEW s \in Syncs, Created(s)
    PROVE  Inv'
BY AnsweredInv DEF Created, Inv, TypeOK

LEMMA RejectedInv ==
    ASSUME Inv, NEW s \in Syncs, Rejected(s)
    PROVE  Inv'
<1>1. PICK status \in Permanent \cup Transient :
        /\ answer' = [answer EXCEPT ![Current(s)] = status]
        /\ authed' = (authed /\ status # "unauthorized")
        /\ ledger' \in {ledger, Accept(Current(s))}
  BY DEF Rejected, Transient
<1>2. authed' \in BOOLEAN
  BY <1>1
<1>3. QED
  BY <1>1, <1>2, AnsweredInv DEF Rejected

LEMMA StoreInv ==
    ASSUME Inv, NEW s \in Syncs, Store(s)
    PROVE  Inv'
<1> USE DEF Inv, saveVars, serverVars
<1> DEFINE q == run[s].queue
           t == Tail(q)
<1>1. /\ q \in Queues /\ q \in Seq(Entries) /\ q # <<>> /\ IsInjective(q)
      /\ run[s].batch = q /\ Current(s) = Head(q) /\ answer[Head(q)] # "none"
  BY DEF Store, TypeOK, RunRecord, RunInv, CopyInv, Queues, Current
<1>2. /\ t \in Seq(Entries) /\ IsInjective(t) /\ ToSet(q) = ToSet(t) \cup {Head(q)}
      /\ Head(q) \in Entries /\ Without(q, Head(q)) = t
      /\ \A d, x : Before(t, d, x) => Before(q, d, x)
      /\ \A d, x : Before(q, d, x) => d = Head(q) \/ Before(t, d, x)
  BY <1>1, TailQueue
<1>3. /\ storage' = t
      /\ stale' = (stale \/ storage # q)
      /\ run' = [run EXCEPT ![s] = [@ EXCEPT !.pc = "post", !.queue = t, !.batch = t]]
      /\ UNCHANGED <<saving, local, syncing, online, authed, ledger, orphans, answer, restarts>>
  <2>1. Without(run[s].queue, Current(s)) = t /\ Tail(run[s].batch) = t
    BY <1>1, <1>2
  <2>2. run' = [run EXCEPT ![s] = [run[s] EXCEPT !.pc = "post", !.queue = t, !.batch = t]]
    BY <2>1 DEF Store
  <2>3. QED
    BY <2>1, <2>2 DEF Store
<1> HIDE DEF t
<1>4. TypeOK'
  BY <1>2, <1>3 DEF TypeOK, RunRecord
<1>5. \A u \in Syncs : u # s => run'[u] = run[u]
  BY <1>3 DEF TypeOK
<1>6. run'[s].queue = t /\ run'[s].batch = t /\ run'[s].pc = "post"
  BY <1>3 DEF TypeOK
<1>7. Queues' \subseteq Queues \cup {<<>>, t}
  BY <1>3, <1>5, <1>6 DEF Queues
<1>8. CopyInv' /\ OrderInv' /\ SentInv'
  <2>1. Onward
    <3>1. InFlight' \subseteq InFlight
      BY <1>5, <1>6 DEF InFlight, Current
    <3>2. QED
      BY <1>3, <3>1 DEF Onward, Sent, Saved
  <2>2. ToSet(t) \subseteq Saved'
    BY <1>1, <1>2, <1>3 DEF CopyInv, Saved
  <2>3. ASSUME NEW p \in Queues PROVE Agrees(t, p)
    <3>1. \A d, x \in Entries : Before(q, d, x) /\ x \in ToSet(p) =>
                                    Before(p, d, x) \/ answer[d] # "none"
      BY <1>1 DEF OrderInv
    <3>2. QED
      BY <1>2, <1>3, <3>1 DEF Agrees
  <2>4. ASSUME NEW p \in Queues PROVE Agrees(p, t)
    <3>1. \A d, x \in Entries : Before(p, d, x) /\ x \in ToSet(q) =>
                                    Before(q, d, x) \/ answer[d] # "none"
      BY <1>1 DEF OrderInv
    <3>2. QED
      BY <1>1, <1>2, <1>3, <3>1 DEF Agrees
  <2>5. \A e \in Sent, d \in Entries : Before(t, d, e) => answer'[d] # "none"
    BY <1>1, <1>2, <1>3 DEF SentInv
  <2>6. QED
    BY <1>2, <1>7, <2>1, <2>2, <2>3, <2>4, <2>5, NewQueue
<1>9. RunInv'
  BY <1>3, <1>5, <1>6 DEF RunInv, Current
<1>10. OneSyncAtATime'
  BY <1>3, <1>5, <1>6 DEF OneSyncAtATime, Running, Store
<1>11. QueuedUntilAnswered'
  BY <1>1, <1>2, <1>3 DEF QueuedUntilAnswered, Saved
<1>12. QED
  BY <1>4, <1>8, <1>9, <1>10, <1>11

-----------------------------------------------------------------------------
LEMMA EnqueueReadInv ==
    ASSUME Inv, NEW e \in Entries, EnqueueRead(e)
    PROVE  Inv'
<1> USE DEF Inv, EnqueueRead, serverVars
<1>1. TypeOK'
  BY DEF TypeOK
<1>2. Queues' \subseteq Queues
  BY DEF Queues, TypeOK
<1>3. CopyInv' /\ OrderInv' /\ SentInv'
  BY <1>2, SameQueues DEF Onward, Sent, InFlight, Current, Saved, TypeOK
<1>4. RunInv' /\ OneSyncAtATime'
  BY DEF RunInv, OneSyncAtATime, Running, Current
<1>5. QueuedUntilAnswered'
  BY DEF QueuedUntilAnswered, Saved, TypeOK
<1>6. QED
  BY <1>1, <1>3, <1>4, <1>5

LEMMA EnqueueWriteInv ==
    ASSUME Inv, NEW e \in Entries, EnqueueWrite(e)
    PROVE  Inv'
<1> USE DEF Inv, serverVars
<1> DEFINE q == local[e]
           n == Append(q, e)
<1>1. /\ q \in Queues /\ q \in Seq(Entries) /\ IsInjective(q)
      /\ \A p \in Queues : e \notin ToSet(p)
  BY DEF EnqueueWrite, TypeOK, CopyInv, Queues, Saved
<1>2. /\ n \in Seq(Entries) /\ IsInjective(n) /\ ToSet(n) = ToSet(q) \cup {e}
      /\ \A d, x : Before(q, d, x) => Before(n, d, x)
      /\ \A d, x : Before(n, d, x) => Before(q, d, x) \/ (x = e /\ d \in ToSet(q))
  BY <1>1, AppendFresh
<1>3. /\ storage' = n
      /\ saving' = [saving EXCEPT ![e] = "written"]
      /\ local' = [local EXCEPT ![e] = <<>>]
      /\ stale' = (stale \/ storage # q)
      /\ UNCHANGED <<syncing, run, online, authed, ledger, orphans, answer, restarts>>
  BY DEF EnqueueWrite
<1> HIDE DEF n
<1>4. TypeOK'
  BY <1>2, <1>3, EmptyQueue DEF TypeOK
<1>5. Queues' \subseteq Queues \cup {<<>>, n}
  BY <1>3 DEF Queues, TypeOK
<1>6. \A d \in Entries : saving'[d] = IF d = e THEN "written" ELSE saving[d]
  BY <1>3 DEF TypeOK
<1>7. CopyInv' /\ OrderInv' /\ SentInv'
  <2>1. Onward
    BY <1>3, <1>6 DEF Onward, Sent, InFlight, Current, Saved
  <2>2. ToSet(n) \subseteq Saved'
    BY <1>1, <1>2, <1>6 DEF CopyInv, Saved
  <2>3. ASSUME NEW p \in Queues PROVE Agrees(n, p)
    <3>1. \A d, x \in Entries : Before(q, d, x) /\ x \in ToSet(p) =>
                                    Before(p, d, x) \/ answer[d] # "none"
      BY <1>1 DEF OrderInv
    <3>2. QED
      BY <1>1, <1>2, <1>3, <3>1 DEF Agrees
  <2>4. ASSUME NEW p \in Queues PROVE Agrees(p, n)
    <3>1. \A d, x \in Entries : Before(p, d, x) /\ x \in ToSet(q) =>
                                    Before(q, d, x) \/ answer[d] # "none"
      BY <1>1 DEF OrderInv
    <3>2. \A d, x : Before(p, d, x) => x \in ToSet(p)
      BY DEF Before, ToSet
    <3>3. QED
      BY <1>1, <1>2, <1>3, <3>1, <3>2 DEF Agrees
  <2>5. \A x \in Sent, d \in Entries : Before(n, d, x) => answer'[d] # "none"
    <3>1. e \notin Sent
      BY DEF SentInv, EnqueueWrite, Saved
    <3>2. QED
      BY <1>1, <1>2, <1>3, <3>1 DEF SentInv
  <2>6. QED
    BY <1>2, <1>5, <2>1, <2>2, <2>3, <2>4, <2>5, NewQueue
<1>8. RunInv' /\ OneSyncAtATime'
  BY <1>3 DEF RunInv, OneSyncAtATime, Running, Current
<1>9. QueuedUntilAnswered'
  BY <1>2, <1>3, <1>6 DEF QueuedUntilAnswered, Saved
<1>10. QED
  BY <1>4, <1>7, <1>8, <1>9

LEMMA EnqueueReturnInv ==
    ASSUME Inv, NEW e \in Entries, NEW s \in Syncs, EnqueueReturn(e, s)
    PROVE  Inv'
<1> USE DEF Inv, EnqueueReturn, serverVars
<1>1. /\ RunInv' /\ OneSyncAtATime' /\ TypeOK'
      /\ \A t \in Syncs : run'[t].queue = run[t].queue
      /\ InFlight' \subseteq InFlight
  BY TrySyncInv DEF TypeOK
<1>2. Queues' \subseteq Queues
  BY <1>1 DEF Queues
<1>3. CopyInv' /\ OrderInv' /\ SentInv'
  BY <1>1, <1>2, SameQueues DEF Onward, Sent, Saved, TypeOK
<1>4. QueuedUntilAnswered'
  BY DEF QueuedUntilAnswered, Saved, TypeOK
<1>5. QED
  BY <1>1, <1>3, <1>4

-----------------------------------------------------------------------------
LEMMA DisconnectInv ==
    ASSUME Inv, Disconnect
    PROVE  Inv'
<1> USE DEF Inv, Disconnect, serverVars, saveVars
<1>1. TypeOK'
  <2>1. \A s \in Syncs : [run[s] EXCEPT !.doomed = @ \/ run[s].pc = "await"] \in RunRecord
    BY DEF TypeOK, RunRecord
  <2>2. run' \in [Syncs -> RunRecord]
    BY <2>1
  <2>3. QED
    BY <2>2 DEF TypeOK
<1>2. \A s \in Syncs : /\ run'[s].queue = run[s].queue /\ run'[s].batch = run[s].batch
                       /\ run'[s].pc = run[s].pc
  BY DEF TypeOK, RunRecord
<1>3. Queues' \subseteq Queues
  BY <1>2 DEF Queues
<1>4. CopyInv' /\ OrderInv' /\ SentInv'
  BY <1>3, SameQueues DEF Onward, Sent, InFlight, Current, Saved
<1>5. RunInv' /\ OneSyncAtATime'
  BY <1>2 DEF RunInv, OneSyncAtATime, Running, Current
<1>6. QueuedUntilAnswered'
  BY DEF QueuedUntilAnswered, Saved
<1>7. QED
  BY <1>1, <1>4, <1>5, <1>6

LEMMA ConnectInv ==
    ASSUME Inv, NEW s \in Syncs, Connect(s)
    PROVE  Inv'
<1> USE DEF Inv, Connect, serverVars, saveVars
<1>1. /\ RunInv' /\ OneSyncAtATime' /\ TypeOK'
      /\ \A t \in Syncs : run'[t].queue = run[t].queue
      /\ InFlight' \subseteq InFlight
  BY TrySyncInv DEF TypeOK
<1>2. Queues' \subseteq Queues
  BY <1>1 DEF Queues
<1>3. CopyInv' /\ OrderInv' /\ SentInv'
  BY <1>1, <1>2, SameQueues DEF Onward, Sent, Saved
<1>4. QueuedUntilAnswered'
  BY DEF QueuedUntilAnswered, Saved
<1>5. QED
  BY <1>1, <1>3, <1>4

LEMMA LateArrivalInv ==
    ASSUME Inv, NEW e \in Entries, LateArrival(e)
    PROVE  Inv'
<1> USE DEF Inv, LateArrival, saveVars
<1>1. ledger' = ledger \cup {e}
  BY DEF Accept
<1>2. TypeOK'
  BY <1>1 DEF TypeOK
<1>3. Queues' \subseteq Queues
  BY DEF Queues
<1>4. CopyInv' /\ OrderInv' /\ SentInv'
  <2>1. InFlight' \subseteq InFlight
    BY DEF InFlight, Current
  <2>2. Onward
    BY <2>1, <1>1 DEF Onward, Sent, Saved
  <2>3. QED
    BY <2>2, <1>3, SameQueues
<1>5. RunInv' /\ OneSyncAtATime'
  BY DEF RunInv, OneSyncAtATime, Running, Current
<1>6. QueuedUntilAnswered'
  BY <1>1 DEF QueuedUntilAnswered, Saved
<1>7. QED
  BY <1>2, <1>4, <1>5, <1>6

(* Only the token, or nothing, changes.                                    *)
LEMMA TokenInv ==
    ASSUME Inv, authed' \in BOOLEAN,
           UNCHANGED <<storage, saveVars, syncing, run, online, serverVars, stale, restarts>>
    PROVE  Inv'
<1> USE DEF Inv, saveVars, serverVars
<1>1. TypeOK'
  BY DEF TypeOK
<1>2. Queues' = Queues
  BY DEF Queues
<1>3. CopyInv' /\ OrderInv' /\ SentInv'
  BY <1>2 DEF CopyInv, OrderInv, SentInv, Sent, InFlight, Current, Saved
<1>4. RunInv' /\ OneSyncAtATime'
  BY DEF RunInv, OneSyncAtATime, Running, Current
<1>5. QueuedUntilAnswered'
  BY DEF QueuedUntilAnswered, Saved
<1>6. QED
  BY <1>1, <1>3, <1>4, <1>5

LEMMA RestartInv ==
    ASSUME Inv, Restart
    PROVE  Inv'
<1> USE DEF Inv, Restart
<1>1. Off \in RunRecord
  BY EmptyQueue DEF Off, RunRecord
<1>2. \A s \in Syncs : run[s].pc = "await" => Current(s) \in Entries
  BY CurrentIsQueued
<1>3. orphans' \subseteq Sent
  BY DEF Sent, InFlight
<1>4. TypeOK'
  <2>1. run' \in [Syncs -> RunRecord]
    BY <1>1
  <2>2. orphans' \subseteq Entries
    BY <1>2 DEF TypeOK
  <2>3. saving' \in [Entries -> {"unsaved", "read", "written", "saved", "abandoned"}]
    BY DEF TypeOK
  <2>4. local' \in [Entries -> Seq(Entries)]
    BY EmptyQueue
  <2>5. restarts' \in 0 .. MaxRestarts
    BY MaxRestartsIsNat DEF TypeOK
  <2>6. QED
    BY <2>1, <2>2, <2>3, <2>4, <2>5 DEF TypeOK
<1>5. Queues' \subseteq Queues \cup {<<>>}
  BY DEF Queues, Off
<1>6. CopyInv' /\ OrderInv' /\ SentInv'
  <2>1. InFlight' \subseteq InFlight
    BY DEF InFlight, Off
  <2>2. Onward
    BY <2>1, <1>3 DEF Onward, Sent, Saved, TypeOK
  <2>3. QED
    BY <2>2, <1>5, SameQueues
<1>7. RunInv' /\ OneSyncAtATime'
  BY DEF RunInv, OneSyncAtATime, Running, Current, Off
<1>8. QueuedUntilAnswered'
  BY DEF QueuedUntilAnswered, Saved, TypeOK
<1>9. QED
  BY <1>4, <1>6, <1>7, <1>8

-----------------------------------------------------------------------------
LEMMA StutterInv ==
    ASSUME Inv, UNCHANGED vars
    PROVE  Inv'
BY TokenInv DEF vars, saveVars, serverVars, Inv, TypeOK

LEMMA NextInv ==
    ASSUME Inv, [Next]_vars
    PROVE  Inv'
<1>1. ASSUME NEW s \in Syncs, SyncStep(s) PROVE Inv'
  BY <1>1, SyncReadInv, PostInv, FinishInv, CreatedInv, RejectedInv, NetworkFailureInv, StoreInv
     DEF SyncStep, Response
<1>2. ASSUME NEW e \in Entries, SaveStep(e) PROVE Inv'
  BY <1>2, EnqueueWriteInv, EnqueueReturnInv DEF SaveStep
<1>3. CASE TokenExpires \/ SignIn
  BY <1>3, TokenInv DEF TokenExpires, SignIn
<1>4. CASE Disconnect \/ Restart \/ UNCHANGED vars
  BY <1>4, DisconnectInv, RestartInv, StutterInv
<1>5. QED
  BY <1>1, <1>2, <1>3, <1>4, TriggerInv, ConnectInv, EnqueueReadInv, LateArrivalInv DEF Next

(* In every state a running sync has still to post exactly the queue it    *)
(* holds, and no two copies of the queue disagree on the order of entries  *)
(* that are unanswered.                                                    *)
THEOREM Invariance == Spec => []Inv
<1>1. Init => Inv
  BY InitInv
<1>2. Inv /\ [Next]_vars => Inv'
  BY NextInv
<1>3. QED
  BY <1>1, <1>2, PTL DEF Spec

(* trySync can be called at any time: the syncing flag lets one call in.   *)
THEOREM SingleSync == Spec => []OneSyncAtATime
<1>1. Inv => OneSyncAtATime
  BY DEF Inv
<1>2. QED
  BY <1>1, Invariance, PTL

(* What the server books was saved, and nothing unanswered is queued ahead *)
(* of it, whatever is retried, killed, overwritten or delivered late.      *)
THEOREM BooksInOrder == Spec => []BookedInOrder
<1>1. Inv => BookedInOrder
  BY DEF Inv, SentInv, Sent, Queues, BookedInOrder
<1>2. QED
  BY <1>1, Invariance, PTL

(* Unless a write has replaced a queue its writer had not read, a saved    *)
(* entry is queued or answered for.                                        *)
THEOREM KeptUntilAnswered == Spec => []QueuedUntilAnswered
<1>1. Inv => QueuedUntilAnswered
  BY DEF Inv
<1>2. QED
  BY <1>1, Invariance, PTL

(* No running sync posts an entry ahead of an unanswered one that storage  *)
(* has in front of it, whatever stale writes have done to storage.         *)
THEOREM InQueueOrder == Spec => NoOvertaking
<1> DEFINE InOrder(s) ==
             \A i, j \in DOMAIN storage :
               i < j /\ storage[j] = Current(s) => answer[storage[i]] # "none"
<1>1. ASSUME Inv, NEW s \in Syncs, Created(s) PROVE InOrder(s)
  <2> DEFINE q == run[s].queue
  <2>1. /\ q \in Queues /\ storage \in Queues /\ q \in Seq(Entries) /\ q # <<>>
        /\ IsInjective(q) /\ Current(s) = Head(q)
    BY <1>1 DEF Inv, Created, TypeOK, RunRecord, RunInv, CopyInv, Queues, Current
  <2>2. Head(q) \in ToSet(q) /\ Head(q) \in Entries /\ \A d : ~Before(q, d, Head(q))
    BY <2>1, TailQueue
  <2>3. SUFFICES ASSUME NEW i \in DOMAIN storage, NEW j \in DOMAIN storage,
                        i < j, storage[j] = Head(q)
                 PROVE  answer[storage[i]] # "none"
    BY <2>1
  <2>4. storage[i] \in Entries /\ Before(storage, storage[i], Head(q))
    BY <1>1, <2>3 DEF Before, Inv, TypeOK
  <2>5. QED
    BY <1>1, <2>1, <2>2, <2>4 DEF Inv, OrderInv
<1>2. Inv /\ [Next]_vars => [\A s \in Syncs : Created(s) => InOrder(s)]_vars
  BY <1>1
<1>3. QED
  BY <1>2, Invariance, PTL DEF Spec, NoOvertaking
=============================================================================
