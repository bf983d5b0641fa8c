---------------------------- MODULE OfflineQueue ----------------------------
(***************************************************************************)
(* The mobile app's offline queue (mobile/src/lib/offline-queue.ts): saved *)
(* entries wait in AsyncStorage under one key and a sync posts them to the *)
(* API in order.  JavaScript runs one task at a time, but enqueueEntry and *)
(* trySync await storage and the network between reading the queue and     *)
(* writing it back, so they interleave at every await.                     *)
(*                                                                         *)
(* The server is the ledger's promise for requests that carry a key: an    *)
(* accepted entry is on the books, a repeated one is answered with the     *)
(* entry that exists (IdempotentLedger, Confirm; that there is only one is *)
(* Ledger's OneEntryPerKey).  An entry stands for its idempotency key.     *)
(***************************************************************************)
EXTENDS Naturals, Sequences, SequencesExt

CONSTANTS
    Entries,     \* entries the user saves, each with its own key
    Syncs,       \* calls of trySync that may be in progress at once
    MaxRestarts  \* bound on app kills

ASSUME MaxRestartsIsNat == MaxRestarts \in Nat

VARIABLES
    storage,   \* the queue in AsyncStorage
    saving,    \* progress of each enqueueEntry call
    local,     \* the queue each enqueueEntry call has read
    syncing,   \* the module-level flag
    run,       \* the calls of trySync
    online,    \* the network path works and NetInfo says so
    authed,    \* the api module holds an access token the server accepts
    ledger,    \* entries the server has posted
    orphans,   \* requests whose sender gave up on them but may yet arrive
    answer,    \* the last answer the app got for each entry
    stale,     \* history: some write replaced a queue its writer had not read
    restarts   \* kills so far

vars == <<storage, saving, local, syncing, run, online, authed, ledger,
          orphans, answer, stale, restarts>>
serverVars == <<ledger, orphans, answer>>
saveVars == <<saving, local>>

Off == [pc |-> "off", batch |-> <<>>, queue |-> <<>>, authed |-> FALSE, doomed |-> FALSE]

(* Statuses no retry changes, and statuses a later retry may not get.      *)
Permanent == {"invalid", "forbidden"}
Transient == {"unauthorized", "throttled", "failed"}

Init ==
    /\ storage = <<>>
    /\ saving = [e \in Entries |-> "unsaved"]
    /\ local = [e \in Entries |-> <<>>]
    /\ syncing = FALSE
    /\ run = [s \in Syncs |-> Off]
    /\ online \in BOOLEAN
    /\ authed \in BOOLEAN
    /\ ledger = {}
    /\ orphans = {}
    /\ answer = [e \in Entries |-> "none"]
    /\ stale = FALSE
    /\ restarts = 0

-----------------------------------------------------------------------------
(* trySync.                                                                *)

(* Mutant: the flag is not taken before the first await.                   *)
TrySyncUnguarded(s) ==
    IF syncing
    THEN UNCHANGED <<syncing, run>>
    ELSE /\ run[s].pc = "off"
         /\ run' = [run EXCEPT ![s] = [@ EXCEPT !.pc = "read"]]
         /\ UNCHANGED syncing

(* A call that finds the flag set returns; otherwise it takes the flag.    *)
TrySync(s) ==
    IF syncing
    THEN UNCHANGED <<syncing, run>>
    ELSE /\ run[s].pc = "off"
         /\ syncing' = TRUE
         /\ run' = [run EXCEPT ![s] = [@ EXCEPT !.pc = "read"]]

(* The entry screen is mounted, or the NetInfo listener is called.         *)
Trigger(s) ==
    /\ TrySync(s)
    /\ UNCHANGED <<storage, saveVars, online, authed, serverVars, stale, restarts>>

SyncRead(s) ==
    /\ run[s].pc = "read"
    /\ run' = [run EXCEPT ![s] = [@ EXCEPT !.pc = "post", !.batch = storage, !.queue = storage]]
    /\ UNCHANGED <<storage, saveVars, syncing, online, authed, serverVars, stale, restarts>>

Post(s) ==
    /\ run[s].pc = "post" /\ run[s].batch # <<>>
    /\ run' = [run EXCEPT ![s] = [@ EXCEPT !.pc = "await", !.authed = authed, !.doomed = ~online]]
    /\ UNCHANGED <<storage, saveVars, syncing, online, authed, serverVars, stale, restarts>>

Finish(s) ==
    /\ run[s].pc = "post" /\ run[s].batch = <<>>
    /\ run' = [run EXCEPT ![s] = Off]
    /\ syncing' = FALSE
    /\ UNCHANGED <<storage, saveVars, online, authed, serverVars, stale, restarts>>

Current(s) == Head(run[s].batch)

(* createEntryWithinTenant with a truthy key.                              *)
Accept(e) == ledger \cup {e}

Created(s) ==
    /\ run[s].pc = "await" /\ ~run[s].doomed /\ run[s].authed
    /\ ledger' = Accept(Current(s))
    /\ answer' = [answer EXCEPT ![Current(s)] = "created"]
    /\ run' = [run EXCEPT ![s] = [@ EXCEPT !.pc = "store", !.authed = FALSE]]
    /\ UNCHANGED <<storage, saveVars, syncing, online, authed, orphans, stale, restarts>>

(* Any ApiError: the entry will be dropped.  A 500 may follow a commit     *)
(* whose acknowledgement was lost; a 401 makes the app forget its token.   *)
Rejected(s) ==
    /\ run[s].pc = "await" /\ ~run[s].doomed
    /\ \E status \in IF run[s].authed THEN (Permanent \cup Transient) \ {"unauthorized"}
                     ELSE {"unauthorized"} :
         /\ answer' = [answer EXCEPT ![Current(s)] = status]
         /\ authed' = (authed /\ status # "unauthorized")
         /\ \/ UNCHANGED ledger
            \/ status = "failed" /\ ledger' = Accept(Current(s))
    /\ run' = [run EXCEPT ![s] = [@ EXCEPT !.pc = "store", !.authed = FALSE]]
    /\ UNCHANGED <<storage, saveVars, syncing, online, orphans, stale, restarts>>

(* Mutants: a network failure drops the entry; it moves on to the next     *)
(* entry; it leaves the syncing flag set.                                  *)
NetworkFailureDrops(s) ==
    /\ run[s].pc = "await" /\ run[s].doomed
    /\ run' = [run EXCEPT ![s] = [@ EXCEPT !.pc = "store", !.authed = FALSE, !.doomed = FALSE]]
    /\ UNCHANGED <<storage, saveVars, syncing, online, authed, serverVars, stale, restarts>>

NetworkFailureContinues(s) ==
    /\ run[s].pc = "await" /\ run[s].doomed
    /\ run' = [run EXCEPT ![s] = [@ EXCEPT !.pc = "post", !.batch = Tail(run[s].batch)]]
    /\ UNCHANGED <<storage, saveVars, syncing, online, authed, serverVars, stale, restarts>>

NetworkFailureKeepsFlag(s) ==
    /\ run[s].pc = "await" /\ run[s].doomed
    /\ run' = [run EXCEPT ![s] = Off]
    /\ UNCHANGED <<storage, saveVars, syncing, online, authed, serverVars, stale, restarts>>

(* Mutant: a network failure puts the entry behind the others, so that it  *)
(* does not hold them up.                                                  *)
NetworkFailureRotates(s) ==
    /\ run[s].pc = "await" /\ run[s].doomed
    /\ orphans' \in {orphans, IF run[s].authed THEN orphans \cup {Current(s)} ELSE orphans}
    /\ run' = [run EXCEPT ![s] = Off]
    /\ syncing' = FALSE
    /\ storage' = Append(Tail(run[s].queue), Current(s))
    /\ stale' = (stale \/ storage # run[s].queue)
    /\ UNCHANGED <<saveVars, online, authed, ledger, answer, restarts>>

(* fetch rejects: break out of the loop.  The request itself may still be  *)
(* on its way.                                                             *)
NetworkFailure(s) ==
    /\ run[s].pc = "await" /\ run[s].doomed
    /\ orphans' \in {orphans, IF run[s].authed THEN orphans \cup {Current(s)} ELSE orphans}
    /\ run' = [run EXCEPT ![s] = Off]
    /\ syncing' = FALSE
    /\ UNCHANGED <<storage, saveVars, online, authed, ledger, answer, stale, restarts>>

(* queue.filter: keys are distinct in a queue (TypeOK), so it takes out    *)
(* one entry or none.                                                      *)
Without(q, e) ==
    IF e \in ToSet(q) THEN RemoveAt(q, CHOOSE i \in DOMAIN q : q[i] = e) ELSE q

(* Write back the queue as read, less the entry just answered.             *)
Store(s) ==
    LET rest == Without(run[s].queue, Current(s))
    IN  /\ run[s].pc = "store"
        /\ storage' = rest
        /\ stale' = (stale \/ storage # run[s].queue)
        /\ run' = [run EXCEPT ![s] = [@ EXCEPT !.pc = "post", !.queue = rest,
                                              !.batch = Tail(run[s].batch)]]
        /\ UNCHANGED <<saveVars, syncing, online, authed, serverVars, restarts>>

-----------------------------------------------------------------------------
(* enqueueEntry.                                                           *)

(* Mutant: a second tap queues the same entry again.                       *)
EnqueueReadAgain(e) ==
    /\ saving[e] \in {"unsaved", "saved"}
    /\ saving' = [saving EXCEPT ![e] = "read"]
    /\ local' = [local EXCEPT ![e] = storage]
    /\ UNCHANGED <<storage, syncing, run, online, authed, serverVars, stale, restarts>>

EnqueueRead(e) ==
    /\ saving[e] = "unsaved"
    /\ saving' = [saving EXCEPT ![e] = "read"]
    /\ local' = [local EXCEPT ![e] = storage]
    /\ UNCHANGED <<storage, syncing, run, online, authed, serverVars, stale, restarts>>

EnqueueWrite(e) ==
    /\ saving[e] = "read"
    /\ saving' = [saving EXCEPT ![e] = "written"]
    /\ storage' = Append(local[e], e)
    /\ local' = [local EXCEPT ![e] = <<>>]
    /\ stale' = (stale \/ storage # local[e])
    /\ UNCHANGED <<syncing, run, online, authed, serverVars, restarts>>

EnqueueReturn(e, s) ==
    /\ saving[e] = "written"
    /\ saving' = [saving EXCEPT ![e] = "saved"]
    /\ TrySync(s)
    /\ UNCHANGED <<storage, local, online, authed, serverVars, stale, restarts>>

-----------------------------------------------------------------------------
(* Network, session and operating system.                                  *)

Disconnect ==
    /\ online /\ online' = FALSE
    /\ run' = [s \in Syncs |-> [run[s] EXCEPT !.doomed = @ \/ run[s].pc = "await"]]
    /\ UNCHANGED <<storage, saveVars, syncing, authed, serverVars, stale, restarts>>

(* NetInfo reports the connection: startAutoSync's listener calls trySync. *)
Connect(s) ==
    /\ ~online /\ online' = TRUE
    /\ TrySync(s)
    /\ UNCHANGED <<storage, saveVars, authed, serverVars, stale, restarts>>

LateArrival(e) ==
    /\ e \in orphans
    /\ orphans' = orphans \ {e}
    /\ ledger' = Accept(e)
    /\ UNCHANGED <<storage, saveVars, syncing, run, online, authed, answer, stale, restarts>>

(* Access tokens live 900 s; signing in or restoring the session sets one. *)
TokenExpires ==
    /\ authed /\ authed' = FALSE
    /\ UNCHANGED <<storage, saveVars, syncing, run, online, serverVars, stale, restarts>>

SignIn ==
    /\ ~authed /\ authed' = TRUE
    /\ UNCHANGED <<storage, saveVars, syncing, run, online, serverVars, stale, restarts>>

(* The app is killed and opened again: memory is gone, AsyncStorage stays, *)
(* the access token has to be restored.                                    *)
Restart ==
    LET sent == {Current(s) : s \in {t \in Syncs : run[t].pc = "await" /\ run[t].authed}}
    IN  /\ restarts < MaxRestarts
        /\ restarts' = restarts + 1
        /\ syncing' = FALSE
        /\ run' = [s \in Syncs |-> Off]
        /\ authed' = FALSE
        /\ saving' = [e \in Entries |-> CASE saving[e] = "read" -> "abandoned"
                                          [] saving[e] = "written" -> "saved"
                                          [] OTHER -> saving[e]]
        /\ local' = [e \in Entries |-> <<>>]
        /\ orphans' \in {orphans, orphans \cup sent}
        /\ UNCHANGED <<storage, online, ledger, answer, stale>>

-----------------------------------------------------------------------------
Response(s) == Created(s) \/ Rejected(s) \/ NetworkFailure(s)
SyncStep(s) == SyncRead(s) \/ Post(s) \/ Finish(s) \/ Response(s) \/ Store(s)
SaveStep(e) == EnqueueWrite(e) \/ \E s \in Syncs : EnqueueReturn(e, s)

Next ==
    \/ \E s \in Syncs : Trigger(s) \/ SyncStep(s) \/ Connect(s)
    \/ \E e \in Entries : EnqueueRead(e) \/ SaveStep(e) \/ LateArrival(e)
    \/ Disconnect \/ TokenExpires \/ SignIn \/ Restart

Spec == Init /\ [][Next]_vars

(* Storage operations and fetch come to an end, and their continuations    *)
(* run.  Nothing makes the user save, the network return, or the token     *)
(* valid.                                                                  *)
Fairness ==
    /\ \A s \in Syncs : WF_vars(SyncStep(s))
    /\ \A e \in Entries : WF_vars(SaveStep(e))

FairSpec == Spec /\ Fairness

-----------------------------------------------------------------------------
RunRecord ==
    [pc : {"off", "read", "post", "await", "store"}, batch : Seq(Entries), queue : Seq(Entries),
     authed : BOOLEAN, doomed : BOOLEAN]

TypeOK ==
    /\ storage \in Seq(Entries) /\ IsInjective(storage)
    /\ saving \in [Entries -> {"unsaved", "read", "written", "saved", "abandoned"}]
    /\ local \in [Entries -> Seq(Entries)]
    /\ syncing \in BOOLEAN
    /\ run \in [Syncs -> RunRecord]
    /\ online \in BOOLEAN
    /\ authed \in BOOLEAN
    /\ ledger \subseteq Entries
    /\ orphans \subseteq Entries
    /\ answer \in [Entries -> {"none", "created"} \cup Permanent \cup Transient]
    /\ stale \in BOOLEAN
    /\ restarts \in 0..MaxRestarts

Running == {s \in Syncs : run[s].pc # "off"}
Saved == {e \in Entries : saving[e] \in {"written", "saved"}}

(* trySync is safe to call at any time: the syncing flag is set exactly    *)
(* while one call is past its guard, and never two are.                    *)
OneSyncAtATime ==
    /\ syncing <=> Running # {}
    /\ \A s, t \in Running : s = t

Before(q, d, e) == \E i, j \in DOMAIN q : i < j /\ q[i] = d /\ q[j] = e

(* The books never run ahead of the device.  An entry is on them only if   *)
(* its save went through, so nothing is booked for a save that a kill cut  *)
(* short; and whatever is queued ahead of it has been answered.  Requests  *)
(* that arrive late, after failures, kills and stale writes, are included. *)
BookedInOrder ==
    \A e \in ledger :
        /\ e \in Saved
        /\ \A d \in Entries : Before(storage, d, e) => answer[d] # "none"

(* The queue loses nothing by itself: as long as no writer replaced a      *)
(* queue it had not read, a saved entry is still queued or the server has  *)
(* answered for it, through network failures and app kills.                *)
QueuedUntilAnswered ==
    ~stale => \A e \in Saved : e \in ToSet(storage) \/ answer[e] # "none"

(* Entries are synced in queue order: when the server posts an entry for a *)
(* running sync, every entry still queued ahead of it has been answered.   *)
NoOvertaking ==
    [][\A s \in Syncs :
         Created(s) =>
           \A i, j \in DOMAIN storage :
             i < j /\ storage[j] = Current(s) => answer[storage[i]] # "none"]_vars

(* The syncing flag never stays set: whatever the network and the server   *)
(* do, a sync ends and a later trySync can start.                          *)
SyncEnds == syncing ~> ~syncing

-----------------------------------------------------------------------------
(* An inductive invariant.                                                 *)

(* The queue in storage and the copies that calls in progress hold of it.  *)
Queues ==
    {storage} \cup {local[e] : e \in Entries} \cup {run[s].queue : s \in Syncs}

(* Only entries whose save was written are in them, and none twice.        *)
CopyInv == \A q \in Queues : IsInjective(q) /\ ToSet(q) \subseteq Saved

(* Whatever is ahead of an entry in one queue is ahead of it in every      *)
(* queue that has the entry, or has been answered.                         *)
OrderInv ==
    \A p, q \in Queues : \A d, e \in Entries :
        Before(p, d, e) /\ e \in ToSet(q) => Before(q, d, e) \/ answer[d] # "none"

(* What the server has got, or may yet get: its sender had it at the head  *)
(* of the queue.                                                           *)
InFlight == {Current(s) : s \in {t \in Syncs : run[t].pc = "await"}}
Sent == ledger \cup orphans \cup InFlight

SentInv ==
    \A e \in Sent :
        /\ e \in Saved
        /\ \A q \in Queues, d \in Entries : Before(q, d, e) => answer[d] # "none"

(* The loop has left what the rewritten queue has left.                    *)
RunInv ==
    \A s \in Syncs :
        /\ run[s].batch = run[s].queue
        /\ run[s].pc \in {"await", "store"} => run[s].batch # <<>>
        /\ run[s].pc = "store" => answer[Current(s)] # "none"

Inv ==
    /\ TypeOK /\ CopyInv /\ OrderInv /\ SentInv /\ RunInv
    /\ OneSyncAtATime /\ QueuedUntilAnswered

-----------------------------------------------------------------------------
(* Story 3.3: 'so that I never lose an entry'.  A saved entry is queued,   *)
(* or posted, or has got an answer that no retry would change.             *)
NeverLosesAnEntry ==
    \A e \in Saved :
        e \in ToSet(storage) \cup ledger \/ answer[e] \in Permanent
=============================================================================
