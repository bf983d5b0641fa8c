-------------------------- MODULE IdempotentLedger --------------------------
(***************************************************************************)
(* What the ledger promises its clients, with no database in sight.        *)
(*                                                                         *)
(* A posting is a ledger entry together with the audit record that         *)
(* describes it: the two come into being in one step and are never touched *)
(* again.  A request is answered once, and an affirmative answer names a   *)
(* posting the client is entitled to see as the result of that request.    *)
(* Ledger.tla is shown to implement this module.                           *)
(***************************************************************************)
EXTENDS LedgerData

VARIABLES
    asked,    \* the request each id stands for, or Null
    posted,   \* the posting each request made, or Null
    outcome   \* the answer given: an entry id, "refused", "broken", or Null

absvars == <<asked, posted, outcome>>

Posted == {e \in Requests : posted[e] # Null}
Pending(r) == asked[r] # Null /\ outcome[r] = Null

AbsInit ==
    /\ asked = [r \in Requests |-> Null]
    /\ posted = [r \in Requests |-> Null]
    /\ outcome = [r \in Requests |-> Null]

Ask(r) ==
    /\ asked[r] = Null
    /\ \E q \in Request : asked' = [asked EXCEPT ![r] = q]
    /\ UNCHANGED <<posted, outcome>>

(* A reversal may target any posting of the same tenant that is not itself *)
(* a reversal.                                                             *)
Reversible(q) ==
    /\ q.target \in Posted
    /\ posted[q.target].entry.tenant = q.tenant
    /\ posted[q.target].entry.reversalOf = Null

(* Entry and audit record appear together; the answer may be lost at once. *)
PostEntry(r, entry) ==
    /\ posted' = [posted EXCEPT ![r] = [entry |-> entry, audit |-> AuditOf(asked[r], r)]]
    /\ outcome' \in {outcome, [outcome EXCEPT ![r] = "broken"]}
    /\ UNCHANGED asked

PostNew(r) ==
    /\ Pending(r) /\ r \notin Posted /\ asked[r].op = "create"
    /\ \A o \in Posted : ~SameKey(posted[o].entry, asked[r])
    /\ PostEntry(r, NewRow(asked[r]))

PostReversal(r) ==
    /\ Pending(r) /\ r \notin Posted /\ asked[r].op = "reverse"
    /\ Reversible(asked[r])
    /\ PostEntry(r, NegatedRow(asked[r], posted[asked[r].target].entry))

(* The answer names the request's own posting or, for a replay, the one    *)
(* that already holds the key.                                             *)
Entitled(r, e) ==
    \/ e = r
    \/ /\ asked[r].op = "create"
       /\ Truthy(asked[r].key)
       /\ SameKey(posted[e].entry, asked[r])

Confirm(r) ==
    /\ Pending(r)
    /\ \E e \in Posted : Entitled(r, e) /\ outcome' = [outcome EXCEPT ![r] = e]
    /\ UNCHANGED <<asked, posted>>

Refuse(r) ==
    /\ Pending(r) /\ asked[r].op = "reverse"
    /\ ~Reversible(asked[r])
    /\ outcome' = [outcome EXCEPT ![r] = "refused"]
    /\ UNCHANGED <<asked, posted>>

(* Any set of requests in progress may be dropped at once (a crash).       *)
Break(S) ==
    /\ \A r \in S : Pending(r)
    /\ outcome' = [r \in Requests |-> IF r \in S THEN "broken" ELSE outcome[r]]
    /\ UNCHANGED <<asked, posted>>

AbsNext ==
    \/ \E r \in Requests :
         Ask(r) \/ PostNew(r) \/ PostReversal(r) \/ Confirm(r) \/ Refuse(r)
    \/ \E S \in SUBSET Requests : Break(S)

AbsSpec == AbsInit /\ [][AbsNext]_absvars
=============================================================================
