------------------------------- MODULE Webhook -------------------------------
(***************************************************************************)
(* The POS integration: IntegrationsService.connect and handleWebhook, on  *)
(* top of the ledger.  The ledger is taken by its promise                  *)
(* (IdempotentLedger): every item of a delivery is one request to it, and  *)
(* the handler awaits the outcome of each before it makes the next.        *)
(*                                                                         *)
(* The provider sends a batch of transactions, again and again until it is *)
(* answered 2xx; owners replace the secret meanwhile; members post and     *)
(* reverse entries of their own.                                           *)
(***************************************************************************)
EXTENDS IdempotentLedger, Sequences

CONSTANTS
    Deliveries,    \* calls of the webhook route
    Connections,   \* ids the database gives to new connections
    Secrets,       \* webhook secrets
    Transactions,  \* what the provider reports, each by an id of its own
    Refunds,       \* those it reports as refunds; the others are sales
    Malformed,     \* those whose amount or time the ledger cannot store
    Cents,         \* the amount it reports for each, of either sign
    Batches,       \* the payloads it sends
    ItemId         \* the ledger request for each item of each delivery

Magnitude(t) == IF Cents[t] < 0 THEN -Cents[t] ELSE Cents[t]

(* The provider's ids are keys, of which clients, who make theirs up as    *)
(* random uuids, use none.                                                 *)
ASSUME TransactionsAreKeys == Transactions \subseteq Keys
ASSUME CentsAreAmounts ==
    \A t \in Transactions : Cents[t] \in Int /\ Magnitude(t) \in Amounts
ASSUME BatchesAreSequences == Batches \subseteq Seq(Transactions)

Positions == UNION {DOMAIN b : b \in Batches}
Items == Deliveries \X Positions
ASSUME ItemsAreRequests ==
    /\ ItemId \in [Items -> Requests]
    /\ \A p, q \in Items : ItemId[p] = ItemId[q] => p = q
ASSUME NullIsNoPlace == Null \notin Secrets \cup Tenants

VARIABLES
    connection,  \* the integration_connection rows
    given,       \* history: the secrets each tenant has ever stored
    pc,          \* where each delivery is
    sent,        \* what the provider sent with it
    scope,       \* the tenant of the connection row it has read
    at,          \* the item it has reached
    result       \* its answer

delivery == <<pc, sent, scope, at, result>>
vars == <<absvars, connection, given, delivery>>

Connection == [tenant : Tenants, secret : Secrets \cup {Null}]
Sent == [to : Connections, secret : Secrets \cup {Null}, batch : Batches]
ASSUME NullIsNothingSent == Null \notin Connection /\ Null \notin Sent

Init ==
    /\ AbsInit
    /\ connection = [c \in Connections |-> Null]
    /\ given = [t \in Tenants |-> {}]
    /\ pc = [d \in Deliveries |-> "idle"]
    /\ sent = [d \in Deliveries |-> Null]
    /\ scope = [d \in Deliveries |-> Null]
    /\ at = [d \in Deliveries |-> 1]
    /\ result = [d \in Deliveries |-> "none"]

-----------------------------------------------------------------------------
(* The connection a tenant has, or the id it will get.                     *)
Owns(t, c) == connection[c] # Null /\ connection[c].tenant = t

(* Mutant: every connect makes a new row.                                  *)
UpsertTargetFresh(t, c) == connection[c] = Null

(* The upsert by tenant and provider; there is one provider.               *)
UpsertTarget(t, c) ==
    \/ Owns(t, c)
    \/ connection[c] = Null /\ \A o \in Connections : ~Owns(t, o)

(* An owner stores credentials, with a webhookSecret or without.           *)
Connect(t, s) ==
    /\ \E c \in Connections :
         /\ UpsertTarget(t, c)
         /\ connection' = [connection EXCEPT ![c] = [tenant |-> t, secret |-> s]]
    /\ given' = [given EXCEPT ![t] = @ \cup ({s} \ {Null})]
    /\ UNCHANGED <<absvars, delivery>>

-----------------------------------------------------------------------------
(* Mutants: the provider's id is not passed on; refunds stay negative.     *)
ItemRequestKeyless(tenant, t) ==
    [op |-> "create", tenant |-> tenant, actor |-> Null,
     entryType |-> IF t \in Refunds THEN "expense" ELSE "revenue",
     cents |-> Magnitude(t), key |-> Null]

ItemRequestSigned(tenant, t) ==
    [op |-> "create", tenant |-> tenant, actor |-> Null,
     entryType |-> IF t \in Refunds THEN "expense" ELSE "revenue",
     cents |-> Cents[t], key |-> t]

(* What the adapter makes of transaction t.                                *)
ItemRequest(tenant, t) ==
    [op |-> "create", tenant |-> tenant, actor |-> Null,
     entryType |-> IF t \in Refunds THEN "expense" ELSE "revenue",
     cents |-> Magnitude(t), key |-> t]

Item(d) == ItemId[<<d, at[d]>>]

Answer(d, a) ==
    /\ pc' = [pc EXCEPT ![d] = "done"]
    /\ result' = [result EXCEPT ![d] = a]

(* A delivery arrives, signed with some secret or not at all.              *)
Receive(d) ==
    /\ pc[d] = "idle"
    /\ pc' = [pc EXCEPT ![d] = "lookup"]
    /\ \E m \in Sent : sent' = [sent EXCEPT ![d] = m]
    /\ UNCHANGED <<absvars, connection, given, scope, at, result>>

(* Mutant: the signature is not looked at when there is none.              *)
VerifiedUnsigned(d, row) == sent[d].secret \in {row.secret, Null}

(* The secret is there and made the signature.                             *)
Verified(d, row) == row.secret # Null /\ sent[d].secret = row.secret

(* After item n - 1: the next one, or 201.                                 *)
Proceed(d, n) ==
    /\ at' = [at EXCEPT ![d] = n]
    /\ IF n > Len(sent[d].batch)
       THEN Answer(d, "ok")
       ELSE pc' = [pc EXCEPT ![d] = "post"] /\ UNCHANGED result

(* The lookup function returns the connection's row; the signature is      *)
(* verified and the payload parsed without another await.                  *)
Verify(d) ==
    /\ pc[d] = "lookup"
    /\ LET row == connection[sent[d].to]
       IN  \/ /\ row = Null
              /\ Answer(d, "notFound")
              /\ UNCHANGED <<scope, at>>
           \/ /\ row # Null /\ ~Verified(d, row)
              /\ Answer(d, "unauthorized")
              /\ UNCHANGED <<scope, at>>
           \/ /\ row # Null /\ Verified(d, row)
              /\ scope' = [scope EXCEPT ![d] = row.tenant]
              /\ Proceed(d, 1)
    /\ UNCHANGED <<absvars, connection, given, sent>>

(* createFromIntegration is called; what it cannot store makes it throw.   *)
Post(d) ==
    /\ pc[d] = "post"
    /\ LET t == sent[d].batch[at[d]]
       IN  \/ /\ t \in Malformed
              /\ Answer(d, "error")
              /\ UNCHANGED asked
           \/ /\ t \notin Malformed
              /\ asked' = [asked EXCEPT ![Item(d)] = ItemRequest(scope[d], t)]
              /\ pc' = [pc EXCEPT ![d] = "wait"]
              /\ UNCHANGED result
    /\ UNCHANGED <<posted, outcome, connection, given, sent, scope, at>>

(* Mutant: a failed item is passed over.                                   *)
ReturnSkipping(d) ==
    /\ pc[d] = "wait" /\ outcome[Item(d)] # Null
    /\ Proceed(d, at[d] + 1)
    /\ UNCHANGED <<absvars, connection, given, sent, scope>>

(* ... and returns.  A failure ends the delivery with 500 and leaves the   *)
(* items before it posted.                                                 *)
Return(d) ==
    /\ pc[d] = "wait" /\ outcome[Item(d)] # Null
    /\ IF outcome[Item(d)] = "broken"
       THEN Answer(d, "error") /\ UNCHANGED at
       ELSE Proceed(d, at[d] + 1)
    /\ UNCHANGED <<absvars, connection, given, sent, scope>>

(* The lookup fails, or the process dies; the ledger may still post what   *)
(* it has been asked.                                                      *)
Lose(d) ==
    /\ pc[d] \notin {"idle", "done"}
    /\ Answer(d, "lost")
    /\ UNCHANGED <<absvars, connection, given, sent, scope, at>>

-----------------------------------------------------------------------------
(* The ledger keeps its promise.                                           *)
Ledger(r) ==
    /\ PostNew(r) \/ Confirm(r) \/ Break({r})
    /\ UNCHANGED <<connection, given, delivery>>

Next ==
    \/ \E t \in Tenants, s \in Secrets \cup {Null} : Connect(t, s)
    \/ \E d \in Deliveries :
         Receive(d) \/ Verify(d) \/ Post(d) \/ Return(d) \/ Lose(d)
    \/ \E r \in Requests : Ledger(r)

Spec == Init /\ [][Next]_vars

-----------------------------------------------------------------------------
TypeOK ==
    /\ asked \in [Requests -> Request \cup {Null}]
    /\ posted \in [Requests -> Posting \cup {Null}]
    /\ outcome \in [Requests -> Requests \cup {"broken", Null}]
    /\ connection \in [Connections -> Connection \cup {Null}]
    /\ given \in [Tenants -> SUBSET Secrets]
    /\ pc \in [Deliveries -> {"idle", "lookup", "post", "wait", "done"}]
    /\ sent \in [Deliveries -> Sent \cup {Null}]
    /\ scope \in [Deliveries -> Tenants \cup {Null}]
    /\ at \in [Deliveries -> Nat]
    /\ result \in [Deliveries ->
                     {"none", "ok", "notFound", "unauthorized", "error", "lost"}]

(* The transaction behind an item.                                         *)
Reported(p) == sent[p[1]].batch[p[2]]

(* Item i of delivery d is on the books, as it was reported.               *)
Booked(d, i) ==
    \E e \in Posted : posted[e].entry = NewRow(ItemRequest(scope[d], sent[d].batch[i]))

(* The provider is answered 201 only when every transaction of the batch   *)
(* is on the books of the connection's restaurant, whichever delivery,     *)
(* overlapping or cut short before, has put it there.                      *)
AcknowledgedIsBooked ==
    \A d \in Deliveries : result[d] = "ok" =>
        \A i \in 1..Len(sent[d].batch) : Booked(d, i)

(* However often a transaction is delivered, alone or in several batches,  *)
(* completely or not, it is put on a restaurant's books only once.         *)
BookedOnce ==
    \A p, q \in Items :
        /\ ItemId[p] \in Posted /\ ItemId[q] \in Posted
        /\ Reported(p) = Reported(q) /\ scope[p[1]] = scope[q[1]]
        => p = q

(* What is on a restaurant's books without a human author was reported by  *)
(* a delivery signed with a secret that the restaurant itself had stored.  *)
OnlyVouched ==
    \A e \in Posted : \E p \in Items :
        /\ e = ItemId[p]
        /\ posted[e].entry = NewRow(ItemRequest(scope[p[1]], Reported(p)))
        /\ sent[p[1]].secret \in given[scope[p[1]]]

-----------------------------------------------------------------------------
(* The inductive invariant, part by part.                                  *)

(* One connection for each tenant, with a secret the tenant has stored.    *)
ConnectionInv ==
    \A c \in Connections : connection[c] # Null =>
        /\ connection[c].secret \in given[connection[c].tenant] \cup {Null}
        /\ \A o \in Connections : Owns(connection[c].tenant, o) => o = c

(* A delivery has a scope once it is verified, and the items before the    *)
(* one it has reached are on the books.                                    *)
DeliveryInv ==
    \A d \in Deliveries :
        /\ pc[d] = "idle" <=> sent[d] = Null
        /\ pc[d] \in {"idle", "lookup"} => scope[d] = Null
        /\ pc[d] \in {"post", "wait"} =>
             scope[d] # Null /\ at[d] \in 1..Len(sent[d].batch)
        /\ pc[d] = "done" <=> result[d] # "none"
        /\ scope[d] # Null =>
             /\ sent[d] # Null
             /\ sent[d].secret \in given[scope[d]]
             /\ at[d] \in 1..Len(sent[d].batch) + 1
             /\ \A i \in 1..at[d] - 1 : Booked(d, i)
        /\ result[d] = "ok" => scope[d] # Null /\ at[d] = Len(sent[d].batch) + 1

(* Request r is item p of a delivery that has got as far as that.          *)
AskedAs(r, p) ==
    /\ r = ItemId[p]
    /\ scope[p[1]] # Null /\ p[2] \in 1..Len(sent[p[1]].batch)
    /\ asked[r] = ItemRequest(scope[p[1]], Reported(p))
    /\ p[2] < at[p[1]] \/ (p[2] = at[p[1]] /\ pc[p[1]] \in {"wait", "done"})

(* The ledger is asked for such items and nothing else.                    *)
AskInv ==
    /\ \A r \in Requests : asked[r] # Null => \E p \in Items : AskedAs(r, p)
    /\ \A d \in Deliveries : pc[d] = "wait" => asked[Item(d)] # Null

(* The ledger's part: postings are what was asked, no two of them share a  *)
(* key, and an answer names one the request is entitled to.                *)
LedgerInv ==
    \A r \in Requests :
        /\ r \in Posted =>
             /\ asked[r] # Null /\ posted[r].entry = NewRow(asked[r])
             /\ \A o \in Posted : SameKey(posted[o].entry, posted[r].entry) => o = r
        /\ outcome[r] \notin {Null, "broken"} =>
             asked[r] # Null /\ outcome[r] \in Posted /\ Entitled(r, outcome[r])

Inv == TypeOK /\ ConnectionInv /\ DeliveryInv /\ AskInv /\ LedgerInv
=============================================================================
