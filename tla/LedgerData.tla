----------------------------- MODULE LedgerData -----------------------------
(***************************************************************************)
(* The vocabulary shared by the ledger's promise (IdempotentLedger) and    *)
(* its implementation (Ledger): requests, the rows of ledger_entry and     *)
(* audit_log_entry, and the pure functions that build one from another.    *)
(*                                                                         *)
(* A row's uuid is represented by the request that inserted it: one        *)
(* request inserts at most one row.  Amounts are cents after               *)
(* BigInt(Math.round(amount * 100)).                                       *)
(***************************************************************************)
EXTENDS Integers

CONSTANTS
    Requests,  \* HTTP requests and webhook items; also the ids of the rows they insert
    Tenants,   \* restaurants
    Users,     \* members who post and reverse
    Keys,      \* non-empty Idempotency-Key values
    EmptyKey,  \* the empty string: sent, stored, but falsy in JavaScript
    Amounts,   \* posted amounts in cents
    Null       \* SQL NULL and JavaScript null / undefined

ASSUME NullIsFresh == Null \notin Requests /\ Null \notin Keys
ASSUME EmptyKeyIsFresh == EmptyKey # Null /\ EmptyKey \notin Keys
ASSUME AmountsAreCents == Amounts \subseteq Int

EntryTypes == {"revenue", "expense"}
StoredKeys == Keys \cup {EmptyKey}

(* if (idempotencyKey): undefined and the empty string are both falsy.     *)
Truthy(k) == k \in Keys

(* A null actor is the POS integration; its key is the provider's          *)
(* transaction id, which the payload may leave out.                        *)
CreateRequest ==
    [op : {"create"}, tenant : Tenants, actor : Users \cup {Null},
     entryType : EntryTypes, cents : Amounts, key : StoredKeys \cup {Null}]

ReverseRequest ==
    [op : {"reverse"}, tenant : Tenants, actor : Users, target : Requests]

Request == CreateRequest \cup ReverseRequest

Row == [tenant : Tenants, actor : Users \cup {Null}, entryType : EntryTypes,
        cents : Int, key : StoredKeys \cup {Null}, reversalOf : Requests \cup {Null}]

AuditActions ==
    {"ledger_entry.create", "ledger_entry.create.integration", "ledger_entry.reverse"}

AuditRow ==
    [tenant : Tenants, actor : Users \cup {Null}, action : AuditActions, entity : Requests]

Posting == [entry : Row, audit : AuditRow]

ASSUME NullIsNoRecord ==
    Null \notin Request /\ Null \notin Row /\ Null \notin AuditRow /\ Null \notin Posting
ASSUME NullIsNoAnswer == Null # "refused" /\ Null # "broken"

(* Mutant: posts the type only the reporting module may produce.           *)
NewRowReconciliation(q) ==
    [tenant |-> q.tenant, actor |-> q.actor, entryType |-> "reconciliation",
     cents |-> q.cents, key |-> q.key, reversalOf |-> Null]

(* Mutant: the key is checked but not stored.                              *)
NewRowKeyless(q) ==
    [tenant |-> q.tenant, actor |-> q.actor, entryType |-> q.entryType,
     cents |-> q.cents, key |-> Null, reversalOf |-> Null]

(* The row a create request inserts.                                       *)
NewRow(q) ==
    [tenant |-> q.tenant, actor |-> q.actor, entryType |-> q.entryType,
     cents |-> q.cents, key |-> q.key, reversalOf |-> Null]

(* Mutant: repeats the original amount instead of negating it.             *)
NegatedRowSameSign(q, original) ==
    [tenant |-> q.tenant, actor |-> q.actor, entryType |-> original.entryType,
     cents |-> original.cents, key |-> Null, reversalOf |-> q.target]

(* The row a reverse request inserts: the original, negated.               *)
NegatedRow(q, original) ==
    [tenant |-> q.tenant, actor |-> q.actor, entryType |-> original.entryType,
     cents |-> -original.cents, key |-> Null, reversalOf |-> q.target]

(* The audit record of row e, inserted on behalf of q.                     *)
AuditOf(q, e) ==
    [tenant |-> q.tenant, actor |-> q.actor, entity |-> e,
     action |-> IF q.op = "reverse" THEN "ledger_entry.reverse"
                ELSE IF q.actor = Null THEN "ledger_entry.create.integration"
                ELSE "ledger_entry.create"]

(* @@unique([tenantId, idempotencyKey]): SQL NULLs never collide.          *)
SameKey(a, b) == a.tenant = b.tenant /\ a.key = b.key /\ a.key # Null
=============================================================================
