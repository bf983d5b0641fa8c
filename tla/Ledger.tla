------------------------------- MODULE Ledger -------------------------------
(***************************************************************************)
(* LedgerService: posting and reversing ledger entries, each request in    *)
(* one interactive Postgres transaction (READ COMMITTED) opened by         *)
(* PrismaService.withTenant.  Every await of the handler is a point where  *)
(* other requests run, so every statement is an action of its own.         *)
(*                                                                         *)
(* Tables are kept the way Postgres keeps them: a row stays with the       *)
(* transaction that wrote it, and what another transaction sees depends on *)
(* that transaction's outcome.  row[r] and trail[r] are the ledger_entry   *)
(* and audit_log_entry rows written by request r; they are part of the     *)
(* tables once xact[r] = "committed".                                      *)
(***************************************************************************)
EXTENDS LedgerData

CONSTANT
    MaxFaults  \* bound on aborts, crashes and unacknowledged commits

ASSUME MaxFaultsIsNat == MaxFaults \in Nat

VARIABLES
    request,  \* what each request asks, Null before it arrives
    pc,       \* where its handler is
    xact,     \* its database transaction: none, open, aborted, committed
    row,      \* the ledger_entry row it inserted, or Null
    trail,    \* the audit_log_entry row it inserted, or Null
    hit,      \* the existing entry its handler read and kept, or Null
    reply,    \* its HTTP answer
    faults    \* faults injected so far

vars == <<request, pc, xact, row, trail, hit, reply, faults>>

-----------------------------------------------------------------------------
(* What transactions see.                                                  *)

Committed(e) == xact[e] = "committed" /\ row[e] # Null

(* Mutant: neither the row-level policy nor the tenant check applies.      *)
VisibleAcrossTenants(r, e) == Committed(e)

(* READ COMMITTED, narrowed by the tenant_isolation row-level policy.      *)
Visible(r, e) == Committed(e) /\ row[e].tenant = request[r].tenant

(* Inserting into the unique index waits for a concurrent transaction that *)
(* holds the same key to end ...                                           *)
Blocked(r) ==
    \E o \in Requests \ {r} :
        xact[o] = "open" /\ row[o] # Null /\ SameKey(row[o], request[r])

(* Mutant: the unique index is missing, as before its fix migration.       *)
ConflictWithoutIndex(r) == FALSE

(* ... and fails if a committed row has it.                                *)
Conflict(r) == \E o \in Requests : Committed(o) /\ SameKey(row[o], request[r])

(* The entry a handler returns: the one it found, or the one it created.   *)
Result(r) ==
    IF request[r].op = "create" /\ hit[r] # Null THEN hit[r] ELSE r

-----------------------------------------------------------------------------
Init ==
    /\ request = [r \in Requests |-> Null]
    /\ pc = [r \in Requests |-> "idle"]
    /\ xact = [r \in Requests |-> "none"]
    /\ row = [r \in Requests |-> Null]
    /\ trail = [r \in Requests |-> Null]
    /\ hit = [r \in Requests |-> Null]
    /\ reply = [r \in Requests |-> "none"]
    /\ faults = 0

(* A request passes the guards and withTenant opens its transaction.       *)
Receive(r) ==
    /\ pc[r] = "idle"
    /\ \E q \in Request :
         /\ request' = [request EXCEPT ![r] = q]
         /\ pc' = [pc EXCEPT ![r] = IF q.op = "reverse" THEN "find"
                                    ELSE IF Truthy(q.key) THEN "lookup"
                                    ELSE "insert"]
    /\ xact' = [xact EXCEPT ![r] = "open"]
    /\ UNCHANGED <<row, trail, hit, reply, faults>>

At(r, l) == pc[r] = l /\ xact[r] = "open"

(* Mutants: the lookup sees uncommitted rows; the lookup goes by key only. *)
LookupHitDirty(r) ==
    /\ At(r, "lookup")
    /\ \E e \in Requests :
         /\ xact[e] = "open" /\ row[e] # Null /\ SameKey(row[e], request[r])
         /\ hit' = [hit EXCEPT ![r] = e]
    /\ pc' = [pc EXCEPT ![r] = "commit"]
    /\ UNCHANGED <<request, xact, row, trail, reply, faults>>

LookupHitAnyTenant(r) ==
    /\ At(r, "lookup")
    /\ \E e \in Requests :
         /\ Committed(e) /\ row[e].key = request[r].key
         /\ hit' = [hit EXCEPT ![r] = e]
    /\ pc' = [pc EXCEPT ![r] = "commit"]
    /\ UNCHANGED <<request, xact, row, trail, reply, faults>>

(* findUnique by (tenantId, idempotencyKey): an entry found is returned    *)
(* as it is, whatever this request's type and amount.                      *)
LookupHit(r) ==
    /\ At(r, "lookup")
    /\ \E e \in Requests :
         /\ Visible(r, e) /\ SameKey(row[e], request[r])
         /\ hit' = [hit EXCEPT ![r] = e]
    /\ pc' = [pc EXCEPT ![r] = "commit"]
    /\ UNCHANGED <<request, xact, row, trail, reply, faults>>

LookupMiss(r) ==
    /\ At(r, "lookup")
    /\ ~\E e \in Requests : Visible(r, e) /\ SameKey(row[e], request[r])
    /\ pc' = [pc EXCEPT ![r] = "insert"]
    /\ UNCHANGED <<request, xact, row, trail, hit, reply, faults>>

(* Mutant: no audit record.                                                *)
InsertUnaudited(r) ==
    /\ At(r, "insert")
    /\ ~Blocked(r) /\ ~Conflict(r)
    /\ row' = [row EXCEPT ![r] = NewRow(request[r])]
    /\ pc' = [pc EXCEPT ![r] = "commit"]
    /\ UNCHANGED <<request, xact, trail, hit, reply, faults>>

Insert(r) ==
    /\ At(r, "insert")
    /\ ~Blocked(r) /\ ~Conflict(r)
    /\ row' = [row EXCEPT ![r] = NewRow(request[r])]
    /\ pc' = [pc EXCEPT ![r] = "audit"]
    /\ UNCHANGED <<request, xact, trail, hit, reply, faults>>

(* Mutant: the conflict is retried as if it could go away.                 *)
InsertConflictRetries(r) ==
    /\ At(r, "insert")
    /\ ~Blocked(r) /\ Conflict(r)
    /\ UNCHANGED vars

(* P2002.  The failed statement aborts the Postgres transaction; with a    *)
(* truthy key the catch block goes on to query for the winner in it.       *)
InsertConflict(r) ==
    /\ At(r, "insert")
    /\ ~Blocked(r) /\ Conflict(r)
    /\ xact' = [xact EXCEPT ![r] = "aborted"]
    /\ pc' = [pc EXCEPT ![r] = IF Truthy(request[r].key) THEN "requery" ELSE "insert"]
    /\ UNCHANGED <<request, row, trail, hit, reply, faults>>

(* Mutant: reversals may be reversed.                                      *)
FindOriginalOrReversal(r) ==
    /\ At(r, "find")
    /\ Visible(r, request[r].target)
    /\ hit' = [hit EXCEPT ![r] = request[r].target]
    /\ pc' = [pc EXCEPT ![r] = "negate"]
    /\ UNCHANGED <<request, xact, row, trail, reply, faults>>

(* findUnique of the entry to reverse.                                     *)
FindOriginal(r) ==
    /\ At(r, "find")
    /\ Visible(r, request[r].target)
    /\ row[request[r].target].reversalOf = Null
    /\ hit' = [hit EXCEPT ![r] = request[r].target]
    /\ pc' = [pc EXCEPT ![r] = "negate"]
    /\ UNCHANGED <<request, xact, row, trail, reply, faults>>

(* 404 for an entry this tenant does not have, 400 for a reversal; the     *)
(* exception rolls the transaction back.                                   *)
RejectReversal(r) ==
    /\ At(r, "find")
    /\ \/ /\ ~Visible(r, request[r].target)
          /\ reply' = [reply EXCEPT ![r] = "notFound"]
       \/ /\ Visible(r, request[r].target)
          /\ row[request[r].target].reversalOf # Null
          /\ reply' = [reply EXCEPT ![r] = "badRequest"]
    /\ xact' = [xact EXCEPT ![r] = "aborted"]
    /\ pc' = [pc EXCEPT ![r] = "done"]
    /\ UNCHANGED <<request, row, trail, hit, faults>>

(* Mutant: corrects the original in place.                                 *)
InsertReversalInPlace(r) ==
    /\ At(r, "negate")
    /\ row' = [row EXCEPT ![r] = NegatedRow(request[r], row[hit[r]]), ![hit[r]].cents = 0]
    /\ pc' = [pc EXCEPT ![r] = "audit"]
    /\ UNCHANGED <<request, xact, trail, hit, reply, faults>>

InsertReversal(r) ==
    /\ At(r, "negate")
    /\ row' = [row EXCEPT ![r] = NegatedRow(request[r], row[hit[r]])]
    /\ pc' = [pc EXCEPT ![r] = "audit"]
    /\ UNCHANGED <<request, xact, trail, hit, reply, faults>>

(* Mutant: the answer is given before the transaction commits.             *)
RecordAndAnswer(r) ==
    /\ At(r, "audit")
    /\ trail' = [trail EXCEPT ![r] = AuditOf(request[r], r)]
    /\ pc' = [pc EXCEPT ![r] = "answer"]
    /\ UNCHANGED <<request, xact, row, hit, reply, faults>>

(* AuditService.record on the caller's transaction.                        *)
Record(r) ==
    /\ At(r, "audit")
    /\ trail' = [trail EXCEPT ![r] = AuditOf(request[r], r)]
    /\ pc' = [pc EXCEPT ![r] = "commit"]
    /\ UNCHANGED <<request, xact, row, hit, reply, faults>>

Commit(r) ==
    /\ At(r, "commit")
    /\ xact' = [xact EXCEPT ![r] = "committed"]
    /\ pc' = [pc EXCEPT ![r] = "answer"]
    /\ UNCHANGED <<request, row, trail, hit, reply, faults>>

Respond(r) ==
    /\ pc[r] = "answer"
    /\ reply' = [reply EXCEPT ![r] = "ok"]
    /\ pc' = [pc EXCEPT ![r] = "done"]
    /\ UNCHANGED <<request, xact, row, trail, hit, faults>>

(* Whatever statement an aborted transaction is given next fails, the      *)
(* catch block's query for the winner included, and the client gets a 500. *)
Fail(r) ==
    /\ xact[r] = "aborted" /\ pc[r] # "done"
    /\ reply' = [reply EXCEPT ![r] = "error"]
    /\ pc' = [pc EXCEPT ![r] = "done"]
    /\ UNCHANGED <<request, xact, row, trail, hit, faults>>

-----------------------------------------------------------------------------
(* The environment.                                                        *)

(* Prisma's transaction timeout, a lost connection, a failed statement.    *)
Abort(r) ==
    /\ faults < MaxFaults
    /\ xact[r] = "open"
    /\ xact' = [xact EXCEPT ![r] = "aborted"]
    /\ faults' = faults + 1
    /\ UNCHANGED <<request, pc, row, trail, hit, reply>>

(* COMMIT takes effect but its acknowledgement is lost: the client is told *)
(* 500 about an entry that exists.                                         *)
CommitUnacknowledged(r) ==
    /\ faults < MaxFaults
    /\ At(r, "commit")
    /\ xact' = [xact EXCEPT ![r] = "committed"]
    /\ reply' = [reply EXCEPT ![r] = "error"]
    /\ pc' = [pc EXCEPT ![r] = "done"]
    /\ faults' = faults + 1
    /\ UNCHANGED <<request, row, trail, hit>>

(* The API process dies and restarts: Postgres rolls open transactions     *)
(* back and clients get no answer.                                         *)
Crash ==
    LET inFlight == {r \in Requests : pc[r] \notin {"idle", "done"}}
    IN  /\ faults < MaxFaults
        /\ inFlight # {}
        /\ xact' = [r \in Requests |->
                      IF r \in inFlight /\ xact[r] = "open" THEN "aborted" ELSE xact[r]]
        /\ reply' = [r \in Requests |-> IF r \in inFlight THEN "lost" ELSE reply[r]]
        /\ pc' = [r \in Requests |-> IF r \in inFlight THEN "done" ELSE pc[r]]
        /\ faults' = faults + 1
        /\ UNCHANGED <<request, row, trail, hit>>

(* The service keeps running when no request is left to serve.             *)
Rest == (\A r \in Requests : pc[r] = "done") /\ UNCHANGED vars

-----------------------------------------------------------------------------
Handle(r) ==
    \/ LookupHit(r) \/ LookupMiss(r)
    \/ Insert(r) \/ InsertConflict(r)
    \/ FindOriginal(r) \/ RejectReversal(r) \/ InsertReversal(r)
    \/ Record(r) \/ Commit(r) \/ Respond(r) \/ Fail(r)

Next ==
    \/ \E r \in Requests :
         Receive(r) \/ Handle(r) \/ Abort(r) \/ CommitUnacknowledged(r)
    \/ Crash
    \/ Rest

Spec == Init /\ [][Next]_vars

(* The event loop and the database keep serving a request that can move.   *)
Fairness == \A r \in Requests : WF_vars(Handle(r))

FairSpec == Spec /\ Fairness

-----------------------------------------------------------------------------
Labels == {"idle", "lookup", "insert", "requery", "find", "negate", "audit",
           "commit", "answer", "done"}

TypeOK ==
    /\ request \in [Requests -> Request \cup {Null}]
    /\ pc \in [Requests -> Labels]
    /\ xact \in [Requests -> {"none", "open", "aborted", "committed"}]
    /\ row \in [Requests -> Row \cup {Null}]
    /\ trail \in [Requests -> AuditRow \cup {Null}]
    /\ hit \in [Requests -> Requests \cup {Null}]
    /\ reply \in [Requests -> {"none", "ok", "notFound", "badRequest", "error", "lost"}]
    /\ faults \in 0..MaxFaults

Entries == {e \in Requests : Committed(e)}
AuditRows == {a \in Requests : xact[a] = "committed" /\ trail[a] # Null}

(* A retried key never posts twice: however requests with one tenant and   *)
(* one stored key interleave, crash or lose their answers, at most one of  *)
(* them leaves an entry behind.                                            *)
OneEntryPerKey ==
    \A e, f \in Entries : e # f => ~SameKey(row[e], row[f])

(* LedgerEntry 1:1 AuditLogEntry: every committed entry has exactly one    *)
(* committed audit record, with the entry's tenant and actor and the       *)
(* action that created it, and no audit record describes an entry that was *)
(* rolled back.                                                            *)
AuditMatchesLedger ==
    /\ \A e \in Entries :
         /\ {a \in AuditRows : trail[a].entity = e} = {e}
         /\ trail[e].tenant = row[e].tenant
         /\ trail[e].actor = row[e].actor
         /\ (trail[e].action = "ledger_entry.reverse") <=> (row[e].reversalOf # Null)
    /\ \A a \in AuditRows : trail[a].entity \in Entries

(* A committed reversal cancels a committed original of its own tenant: it *)
(* has the original's type and the opposite amount, and the original is    *)
(* not itself a reversal.                                                  *)
ReversalCancelsOriginal ==
    \A e \in Entries :
        row[e].reversalOf # Null =>
            LET o == row[e].reversalOf
            IN  /\ o \in Entries
                /\ row[o].tenant = row[e].tenant
                /\ row[o].reversalOf = Null
                /\ row[o].entryType = row[e].entryType
                /\ row[o].cents + row[e].cents = 0

(* An answer tells the truth about the ledger: 201 names a committed entry *)
(* of the caller's tenant, made by this request or by an earlier one with  *)
(* the same truthy key; 404 and 400 mean this request posted nothing.      *)
AnswersAreTruthful ==
    \A r \in Requests :
        /\ reply[r] = "ok" =>
             /\ Result(r) \in Entries
             /\ row[Result(r)].tenant = request[r].tenant
             /\ IF request[r].op = "reverse"
                THEN row[Result(r)].reversalOf = request[r].target
                ELSE \/ Result(r) = r
                     \/ Truthy(request[r].key) /\ row[Result(r)].key = request[r].key
        /\ reply[r] \in {"notFound", "badRequest"} => r \notin Entries

(* Two clients told 201 for the same tenant and truthy key were told about *)
(* the same entry, whichever of them inserted it.                          *)
ReplaysAgree ==
    \A r, s \in Requests :
        /\ reply[r] = "ok" /\ request[r].op = "create" /\ Truthy(request[r].key)
        /\ reply[s] = "ok" /\ request[s].op = "create"
        /\ SameKey(request[r], request[s])
        => Result(r) = Result(s)

KeepsEntries ==
    \A e \in Entries : e \in Entries' /\ row'[e] = row[e] /\ trail'[e] = trail[e]

(* ADR-3: no step changes or removes a committed entry or its audit        *)
(* record; a correction is a new entry.                                    *)
AppendOnly == [][KeepsEntries]_vars

-----------------------------------------------------------------------------
(* The inductive invariant behind those properties, part by part.          *)

(* Where a handler is, what its request asks and what it has written.      *)
HandlerInv ==
    \A r \in Requests :
        /\ pc[r] = "idle" <=> request[r] = Null
        /\ pc[r] = "idle" <=> xact[r] = "none"
        /\ pc[r] \in {"lookup", "insert", "requery"} => request[r] \in CreateRequest
        /\ pc[r] = "lookup" => Truthy(request[r].key)
        /\ pc[r] \in {"find", "negate"} => request[r] \in ReverseRequest
        /\ pc[r] \in {"idle", "lookup", "insert", "requery", "find", "negate"} =>
             row[r] = Null /\ trail[r] = Null
        /\ pc[r] = "audit" => row[r] # Null /\ trail[r] = Null
        /\ xact[r] = "committed" => pc[r] \in {"answer", "done"}
        /\ pc[r] = "answer" => xact[r] = "committed"
        /\ pc[r] = "commit" \/ xact[r] = "committed" => (row[r] = Null <=> trail[r] = Null)

(* A row and its audit record are what the request that wrote them asks.   *)
RowInv ==
    \A r \in Requests :
        /\ trail[r] # Null => trail[r] = AuditOf(request[r], r)
        /\ row[r] # Null =>
             \/ /\ request[r] \in CreateRequest
                /\ row[r] = NewRow(request[r])
             \/ /\ request[r] \in ReverseRequest
                /\ row[r] = NegatedRow(request[r], row[request[r].target])

(* Rows of open and committed transactions never share a key.              *)
Live(e) == xact[e] \in {"open", "committed"} /\ row[e] # Null

KeyInv == \A e, f \in Requests : Live(e) /\ Live(f) /\ e # f => ~SameKey(row[e], row[f])

(* A reversal under way or written has a committed, unreversing original   *)
(* of its tenant.                                                          *)
ReversalInv ==
    \A r \in Requests :
        /\ pc[r] = "negate" => hit[r] = request[r].target
        /\ pc[r] = "negate" \/ (row[r] # Null /\ request[r] \in ReverseRequest) =>
             /\ Committed(request[r].target)
             /\ row[request[r].target].tenant = request[r].tenant
             /\ row[request[r].target].reversalOf = Null

(* What a handler may return, and what each answer implies.                *)
AnswerInv ==
    \A r \in Requests :
        /\ hit[r] # Null /\ request[r].op = "create" =>
             /\ Committed(hit[r])
             /\ Truthy(request[r].key)
             /\ SameKey(row[hit[r]], request[r])
        /\ pc[r] \in {"commit", "answer"} \/ reply[r] = "ok" =>
             row[r] # Null \/ (request[r].op = "create" /\ hit[r] # Null)
        /\ pc[r] \in {"idle", "find", "lookup", "insert", "requery"} => hit[r] = Null
        /\ reply[r] = "ok" => xact[r] = "committed"
        /\ reply[r] \in {"notFound", "badRequest"} => xact[r] = "aborted"
        /\ pc[r] = "done" <=> reply[r] # "none"

(* Everything at once; it is preserved by every step (LedgerProofs) and    *)
(* implies the safety properties above.                                    *)
Inv == TypeOK /\ HandlerInv /\ RowInv /\ KeyInv /\ ReversalInv /\ AnswerInv

-----------------------------------------------------------------------------
(* No request waits for ever: requests that block on each other's keys,    *)
(* fail or lose their transaction are all answered, unless the process     *)
(* dies.                                                                   *)
EveryRequestSettles ==
    \A r \in Requests : pc[r] # "idle" ~> pc[r] = "done"

(* The promise the ledger makes to its clients, with a transaction's rows  *)
(* taken as one posting at the moment it commits.                          *)
Postings ==
    [r \in Requests |->
        IF Committed(r) THEN [entry |-> row[r], audit |-> trail[r]] ELSE Null]

Outcomes ==
    [r \in Requests |->
        CASE reply[r] = "none" -> Null
          [] reply[r] = "ok" -> Result(r)
          [] reply[r] \in {"notFound", "badRequest"} -> "refused"
          [] reply[r] \in {"error", "lost"} -> "broken"]

Promise == INSTANCE IdempotentLedger WITH
    asked <- request, posted <- Postings, outcome <- Outcomes

(* Every run of the service is a run of the promise: no client can tell    *)
(* the interleaved transactions from atomic postings.                      *)
KeepsPromise == Promise!AbsSpec

-----------------------------------------------------------------------------
(* What the unit test 'returns the winning entry instead of throwing' and  *)
(* the comment at ledger.service.ts:94 say of a request that loses the     *)
(* race for a truthy key: with no fault at all it is not told 500.         *)
RaceLoserGetsWinner ==
    faults = 0 => \A r \in Requests :
        request[r] # Null /\ request[r].op = "create" /\ Truthy(request[r].key)
            => reply[r] # "error"
=============================================================================
