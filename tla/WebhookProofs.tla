---------------------------- MODULE WebhookProofs ----------------------------
(***************************************************************************)
(* The safety properties of Webhook for any number of deliveries, tenants, *)
(* secrets, transactions and batches of any length.                        *)
(***************************************************************************)
EXTENDS Webhook, TLAPS

(* Batches and the requests their items become.                            *)
LEMMA BatchFacts ==
    ASSUME NEW d \in Deliveries, NEW m \in Sent
    PROVE  /\ Len(m.batch) \in Nat
           /\ m.batch \in Batches
           /\ \A i \in 1..Len(m.batch) :
                /\ m.batch[i] \in Transactions
                /\ <<d, i>> \in Items /\ ItemId[<<d, i>>] \in Requests
<1>1. m.batch \in Batches /\ m.batch \in Seq(Transactions)
  BY BatchesAreSequences DEF Sent
<1>2. Len(m.batch) \in Nat /\ DOMAIN m.batch = 1..Len(m.batch)
  BY <1>1
<1>3. \A i \in 1..Len(m.batch) : m.batch[i] \in Transactions /\ i \in Positions
  BY <1>1, <1>2 DEF Positions
<1>4. QED
  BY <1>1, <1>2, <1>3, ItemsAreRequests DEF Items

LEMMA ItemIsRequest ==
    ASSUME NEW t \in Tenants, NEW x \in Transactions
    PROVE  /\ ItemRequest(t, x) \in CreateRequest /\ ItemRequest(t, x) # Null
           /\ ItemRequest(t, x).op = "create"
           /\ ItemRequest(t, x).tenant = t /\ ItemRequest(t, x).key = x
           /\ x # Null
BY TransactionsAreKeys, CentsAreAmounts, NullIsNoRecord, NullIsFresh
   DEF ItemRequest, CreateRequest, EntryTypes, StoredKeys, Request

LEMMA NewRowIsRow ==
    ASSUME NEW q \in CreateRequest, NEW r \in Requests
    PROVE  /\ [entry |-> NewRow(q), audit |-> AuditOf(q, r)] \in Posting
           /\ [entry |-> NewRow(q), audit |-> AuditOf(q, r)] # Null
<1>1. NewRow(q) \in Row
  BY AmountsAreCents DEF NewRow, Row, CreateRequest
<1>2. AuditOf(q, r) \in AuditRow
  BY DEF AuditOf, AuditRow, AuditActions, CreateRequest
<1>3. QED
  BY <1>1, <1>2, NullIsNoRecord DEF Posting

LEMMA InitInv == Init => Inv
<1> SUFFICES ASSUME Init PROVE Inv
  OBVIOUS
<1> USE DEF Init, AbsInit
<1>1. TypeOK
  BY DEF TypeOK
<1>2. ConnectionInv
  BY DEF ConnectionInv
<1>3. DeliveryInv /\ AskInv
  BY DEF DeliveryInv, AskInv
<1>4. LedgerInv
  BY DEF LedgerInv, Posted
<1>5. QED
  BY <1>1, <1>2, <1>3, <1>4 DEF Inv

-----------------------------------------------------------------------------
(* Storing new credentials vouches for what the old ones brought in.       *)
LEMMA ConnectInv ==
    ASSUME Inv, NEW t \in Tenants, NEW s \in Secrets \cup {Null}, Connect(t, s)
    PROVE  Inv'
<1> USE DEF Inv, Connect, absvars, delivery
<1>1. PICK c \in Connections :
        /\ UpsertTarget(t, c)
        /\ connection' = [connection EXCEPT ![c] = [tenant |-> t, secret |-> s]]
  OBVIOUS
<1>2. [tenant |-> t, secret |-> s] \in Connection /\ [tenant |-> t, secret |-> s] # Null
  BY NullIsNothingSent DEF Connection
<1>3. \A u \in Tenants : given[u] \subseteq given'[u] /\ given'[u] \subseteq Secrets
  BY DEF TypeOK
<1>4. TypeOK'
  BY <1>1, <1>2 DEF TypeOK
<1>5. ConnectionInv'
  <2>1. s \in given'[t] \cup {Null}
    BY DEF TypeOK
  <2>2. SUFFICES ASSUME NEW k \in Connections, connection'[k] # Null
                 PROVE  /\ connection'[k].secret \in given'[connection'[k].tenant] \cup {Null}
                        /\ \A o \in Connections : Owns(connection[k].tenant, o)' => o = k
    BY DEF ConnectionInv, Owns
  <2>3. CASE k = c
    BY <1>1, <2>1, <2>2, <2>3 DEF ConnectionInv, TypeOK, Owns, UpsertTarget
  <2>4. CASE k # c
    <3>1. connection'[k] = connection[k] /\ connection[k].tenant \in Tenants
      BY <1>1, <2>2, <2>4 DEF TypeOK, Connection
    <3>2. connection[k].tenant # t
      BY <1>1, <2>2, <2>4, <3>1 DEF ConnectionInv, Owns, UpsertTarget
    <3>3. QED
      BY <1>1, <1>3, <2>2, <2>4, <3>1, <3>2 DEF ConnectionInv, TypeOK, Owns
  <2>5. QED
    BY <2>3, <2>4
<1>6. DeliveryInv'
  BY <1>3 DEF DeliveryInv, TypeOK, Booked, Posted
<1>7. AskInv'
  BY DEF AskInv, AskedAs, Item, Reported
<1>8. LedgerInv'
  BY DEF LedgerInv, Posted, Entitled
<1>9. QED
  BY <1>4, <1>5, <1>6, <1>7, <1>8

LEMMA ReceiveInv ==
    ASSUME Inv, NEW d \in Deliveries, Receive(d)
    PROVE  Inv'
<1> USE DEF Inv, Receive, absvars
<1>1. PICK m \in Sent : sent' = [sent EXCEPT ![d] = m]
  OBVIOUS
<1>2. m # Null /\ scope[d] = Null
  BY NullIsNothingSent DEF DeliveryInv
<1>3. TypeOK'
  BY <1>1 DEF TypeOK
<1>4. ConnectionInv'
  BY DEF ConnectionInv, Owns
<1>5. DeliveryInv'
  <2>1. SUFFICES ASSUME NEW k \in Deliveries PROVE DeliveryInv!(k)'
    BY DEF DeliveryInv
  <2>2. QED
    BY <1>1, <1>2 DEF DeliveryInv, TypeOK, Booked, Posted
<1>6. AskInv'
  BY <1>1, <1>2 DEF AskInv, AskedAs, TypeOK, Item, Reported, Items
<1>7. LedgerInv'
  BY DEF LedgerInv, Posted, Entitled
<1>8. QED
  BY <1>3, <1>4, <1>5, <1>6, <1>7

(* A delivery ends where it is, with an answer other than 201.             *)
LEMMA AnswerInv ==
    ASSUME Inv, NEW d \in Deliveries, pc[d] \notin {"idle", "done"},
           NEW a \in {"notFound", "unauthorized", "error", "lost"}, Answer(d, a),
           UNCHANGED <<absvars, connection, given, sent, scope, at>>
    PROVE  Inv'
<1> USE DEF Inv, Answer, absvars
<1>1. TypeOK'
  BY DEF TypeOK
<1>2. ConnectionInv'
  BY DEF ConnectionInv, Owns
<1>3. DeliveryInv'
  BY DEF DeliveryInv, TypeOK, Booked, Posted
<1>4. AskInv'
  BY DEF AskInv, AskedAs, TypeOK, Item, Reported, Items
<1>5. LedgerInv'
  BY DEF LedgerInv, Posted, Entitled
<1>6. QED
  BY <1>1, <1>2, <1>3, <1>4, <1>5

(* The handler goes on to item n: what comes before is on the books, and   *)
(* nothing from n on has been asked for.                                   *)
LEMMA ProceedInv ==
    ASSUME Inv, NEW d \in Deliveries, NEW n \in Nat, NEW t \in Tenants,
           pc[d] \in {"lookup", "wait"}, result[d] = "none",
           n \in 1..Len(sent[d].batch) + 1,
           sent[d].secret \in given[t],
           \A i \in 1..n - 1 :
               \E e \in Posted : posted[e].entry = NewRow(ItemRequest(t, sent[d].batch[i])),
           scope' = [scope EXCEPT ![d] = t],
           scope[d] \in {t, Null}, scope[d] = t => at[d] < n,
           Proceed(d, n),
           UNCHANGED <<absvars, connection, given, sent>>
    PROVE  Inv'
<1> USE DEF Inv, Proceed, Answer, absvars
<1>1. sent[d] # Null /\ sent[d] \in Sent
  BY DEF DeliveryInv, TypeOK
<1>2. t # Null /\ Len(sent[d].batch) \in Nat
  BY <1>1, NullIsNoPlace, BatchFacts
<1>3. TypeOK'
  BY DEF TypeOK
<1>4. ConnectionInv'
  BY DEF ConnectionInv, Owns
<1>5. /\ \/ pc'[d] = "post" /\ n \in 1..Len(sent[d].batch) /\ result'[d] = "none"
         \/ pc'[d] = "done" /\ n = Len(sent[d].batch) + 1 /\ result'[d] = "ok"
      /\ at'[d] = n /\ scope'[d] = t
  <2>1. CASE n > Len(sent[d].batch)
    BY <1>2, <2>1 DEF TypeOK
  <2>2. CASE ~(n > Len(sent[d].batch))
    BY <1>2, <2>2 DEF TypeOK
  <2>3. QED
    BY <2>1, <2>2
<1>6. \A k \in Deliveries \ {d} :
        /\ pc'[k] = pc[k] /\ result'[k] = result[k] /\ at'[k] = at[k] /\ scope'[k] = scope[k]
  BY DEF TypeOK
<1>7. DeliveryInv'
  <2>1. SUFFICES ASSUME NEW k \in Deliveries PROVE DeliveryInv!(k)'
    BY DEF DeliveryInv
  <2>2. CASE k = d
    <3>1. \A i \in 1..n - 1 : Booked(d, i)'
      BY <1>5 DEF Booked, Posted
    <3>2. sent' = sent /\ given' = given
      OBVIOUS
    <3>3. n \in Nat /\ n \in 1..Len(sent[d].batch) + 1 /\ sent[d].secret \in given[t]
      OBVIOUS
    <3> HIDE DEF Inv, Proceed, Answer, absvars
    <3>4. QED
      BY ONLY <1>1, <1>2, <1>5, <2>2, <3>1, <3>2, <3>3
  <2>3. CASE k # d
    BY <1>6, <2>3 DEF DeliveryInv, Booked, Posted
  <2>4. QED
    BY <2>2, <2>3
<1>8. AskInv'
  <2>1. ASSUME NEW r \in Requests, asked[r] # Null
        PROVE  \E p \in Items : AskedAs(r, p)'
    <3>1. PICK p \in Items : AskedAs(r, p)
      BY <2>1 DEF AskInv
    <3>2. p[1] \in Deliveries
      BY <3>1 DEF Items
    <3>3. CASE p[1] = d
      <4>1. scope[d] = t /\ p[2] < n
        BY <3>1, <3>3 DEF AskedAs, TypeOK
      <4>2. QED
        BY <1>2, <1>5, <3>1, <3>3, <4>1 DEF AskedAs, Reported
    <3>4. CASE p[1] # d
      BY <1>6, <3>1, <3>2, <3>4 DEF AskedAs, Reported
    <3>5. QED
      BY <3>3, <3>4
  <2>2. ASSUME NEW k \in Deliveries, pc'[k] = "wait"
        PROVE  asked[Item(k)'] # Null
    <3>1. k # d
      BY <1>5, <2>2
    <3>2. QED
      BY <1>6, <2>2, <3>1 DEF AskInv, Item
  <2>3. QED
    BY <2>1, <2>2 DEF AskInv
<1>9. LedgerInv'
  BY DEF LedgerInv, Posted, Entitled
<1>10. QED
  BY <1>3, <1>4, <1>7, <1>8, <1>9

(* A verified secret is one the tenant has stored.                         *)
LEMMA VerifyInv ==
    ASSUME Inv, NEW d \in Deliveries, Verify(d)
    PROVE  Inv'
<1> DEFINE row == connection[sent[d].to]
<1> USE DEF Inv, Verify
<1>1. /\ pc[d] = "lookup" /\ sent[d] # Null /\ sent[d] \in Sent
      /\ scope[d] = Null /\ result[d] = "none"
  BY DEF DeliveryInv, TypeOK
<1>2. row \in Connection \cup {Null}
  BY <1>1 DEF TypeOK, Sent
<1>3. CASE row = Null \/ ~Verified(d, row)
  <2>1. Answer(d, "notFound") \/ Answer(d, "unauthorized")
    BY <1>3
  <2>2. UNCHANGED <<absvars, connection, given, sent, scope, at>>
    BY <1>3
  <2>3. QED
    BY <1>1, <2>1, <2>2, AnswerInv
<1>4. CASE row # Null /\ Verified(d, row)
  <2>1. /\ scope' = [scope EXCEPT ![d] = row.tenant]
        /\ Proceed(d, 1)
        /\ UNCHANGED <<absvars, connection, given, sent>>
    BY <1>4
  <2>2. row.tenant \in Tenants
    BY <1>2, <1>4 DEF Connection
  <2>3. sent[d].secret \in given[row.tenant]
    BY <1>1, <1>4 DEF ConnectionInv, Verified, Sent
  <2>4. 1 \in 1..Len(sent[d].batch) + 1
    BY <1>1, BatchFacts
  <2>5. scope[d] # row.tenant
    BY <1>1, <2>2, NullIsNoPlace
  <2>6. 1..1 - 1 = {}
    OBVIOUS
  <2>7. QED
    BY <1>1, <2>1, <2>2, <2>3, <2>4, <2>5, <2>6, ProceedInv
<1>5. QED
  BY <1>3, <1>4

(* Asking for an item that has not been asked for before.                  *)
(* An item is asked for once.                                              *)
LEMMA ItemIsNew ==
    ASSUME Inv, NEW d \in Deliveries, pc[d] = "post"
    PROVE  /\ scope[d] \in Tenants /\ sent[d].batch[at[d]] \in Transactions
           /\ Item(d) \in Requests /\ asked[Item(d)] = Null
<1> DEFINE p == <<d, at[d]>>
<1> USE DEF Inv
<1>1. /\ scope[d] \in Tenants /\ sent[d] # Null /\ sent[d] \in Sent
      /\ at[d] \in 1..Len(sent[d].batch)
  BY DEF DeliveryInv, TypeOK
<1>2. sent[d].batch[at[d]] \in Transactions /\ p \in Items /\ Item(d) \in Requests
  BY <1>1, BatchFacts DEF Item
<1>3. SUFFICES ASSUME asked[Item(d)] # Null PROVE FALSE
  BY <1>1, <1>2
<1>4. PICK q \in Items : AskedAs(Item(d), q)
  BY <1>2, <1>3 DEF AskInv
<1>5. q = p
  BY <1>2, <1>4, ItemsAreRequests DEF AskedAs, Item
<1>6. QED
  BY <1>1, <1>4, <1>5 DEF AskedAs, TypeOK

LEMMA PostInv ==
    ASSUME Inv, NEW d \in Deliveries, Post(d)
    PROVE  Inv'
<1> DEFINE t == sent[d].batch[at[d]]
           p == <<d, at[d]>>
<1> USE DEF Inv, Post
<1>1. /\ pc[d] = "post" /\ scope[d] \in Tenants /\ scope[d] # Null
      /\ sent[d] # Null /\ sent[d] \in Sent
      /\ at[d] \in 1..Len(sent[d].batch) /\ result[d] = "none"
  BY DEF DeliveryInv, TypeOK
<1>2. t \in Transactions /\ p \in Items /\ Item(d) \in Requests
  BY <1>1, BatchFacts DEF Item
<1>3. CASE t \in Malformed
  BY <1>1, <1>3, AnswerInv DEF absvars
<1>4. CASE t \notin Malformed
  <2>1. /\ asked' = [asked EXCEPT ![Item(d)] = ItemRequest(scope[d], t)]
        /\ pc' = [pc EXCEPT ![d] = "wait"]
        /\ UNCHANGED <<posted, outcome, connection, given, sent, scope, at, result>>
    BY <1>4
  <2>2. asked[Item(d)] = Null
    BY <1>1, ItemIsNew
  <2>3. /\ ItemRequest(scope[d], t) \in Request /\ ItemRequest(scope[d], t) # Null
    BY <1>1, <1>2, ItemIsRequest DEF Request
  <2>4. /\ asked'[Item(d)] = ItemRequest(scope[d], t)
        /\ \A r \in Requests : r # Item(d) => asked'[r] = asked[r]
    BY <1>2, <2>1 DEF TypeOK
  <2>5. TypeOK'
    BY <2>1, <2>3 DEF TypeOK
  <2>6. ConnectionInv'
    BY <2>1 DEF ConnectionInv, Owns
  <2>7. DeliveryInv'
    BY <1>1, <2>1 DEF DeliveryInv, TypeOK, Booked, Posted
  <2>8. AskInv'
    <3>1. ASSUME NEW r \in Requests, asked'[r] # Null
          PROVE  \E q \in Items : AskedAs(r, q)'
      <4>1. CASE r = Item(d)
        <5>1. AskedAs(r, p)'
          BY <1>1, <2>1, <2>4, <4>1 DEF AskedAs, Item, Reported, TypeOK
        <5>2. QED
          BY <1>2, <5>1
      <4>2. CASE r # Item(d)
        <5>1. PICK q \in Items : AskedAs(r, q)
          BY <2>4, <3>1, <4>2 DEF AskInv
        <5>2. AskedAs(r, q)'
          BY <2>1, <2>4, <4>2, <5>1 DEF AskedAs, Reported, TypeOK, Items
        <5>3. QED
          BY <5>2
      <4>3. QED
        BY <4>1, <4>2
    <3>2. ASSUME NEW k \in Deliveries, pc'[k] = "wait"
          PROVE  asked'[Item(k)'] # Null
      <4>1. k = d \/ asked[Item(k)] # Null
        BY <2>1, <3>2 DEF AskInv, TypeOK
      <4>2. k = d \/ Item(k) \in Requests
        <5>1. k = d \/ (sent[k] # Null /\ sent[k] \in Sent /\ at[k] \in 1..Len(sent[k].batch))
          BY <2>1, <3>2 DEF DeliveryInv, TypeOK
        <5>2. QED
          BY <5>1, BatchFacts DEF Item
      <4>3. QED
        BY <2>1, <2>3, <2>4, <4>1, <4>2 DEF Item
    <3>3. QED
      BY <3>1, <3>2 DEF AskInv
  <2>9. LedgerInv'
    <3>1. Item(d) \notin Posted /\ outcome[Item(d)] \in {Null, "broken"}
      BY <1>2, <2>2 DEF LedgerInv
    <3>2. Posted' = Posted
      BY <2>1 DEF Posted
    <3>3. QED
      BY <2>1, <2>4, <3>1, <3>2 DEF LedgerInv, Entitled
  <2>10. QED
    BY <2>5, <2>6, <2>7, <2>8, <2>9
<1>5. QED
  BY <1>3, <1>4

(* An item the ledger answers for is on the books, posted for this         *)
(* delivery or for an earlier one.                                         *)
LEMMA ReturnInv ==
    ASSUME Inv, NEW d \in Deliveries, Return(d)
    PROVE  Inv'
<1> DEFINE r == Item(d)
           t == sent[d].batch[at[d]]
<1> USE DEF Inv, Return
<1>1. /\ pc[d] = "wait" /\ scope[d] \in Tenants /\ scope[d] # Null
      /\ sent[d] # Null /\ sent[d] \in Sent
      /\ at[d] \in 1..Len(sent[d].batch) /\ result[d] = "none"
      /\ at[d] \in Nat
  BY DEF DeliveryInv, TypeOK
<1>2. /\ t \in Transactions /\ <<d, at[d]>> \in Items /\ r \in Requests
      /\ Len(sent[d].batch) \in Nat
  BY <1>1, BatchFacts DEF Item
<1>3. CASE outcome[r] = "broken"
  BY <1>1, <1>3, AnswerInv
<1>4. CASE outcome[r] # "broken"
  <2>1. /\ outcome[r] # Null
        /\ Proceed(d, at[d] + 1)
        /\ UNCHANGED <<absvars, connection, given, sent, scope>>
    BY <1>4
  <2>2. asked[r] = ItemRequest(scope[d], t)
    <3>1. PICK q \in Items : AskedAs(r, q)
      BY <1>1, <1>2 DEF AskInv
    <3>2. q = <<d, at[d]>>
      BY <1>2, <3>1, ItemsAreRequests DEF AskedAs, Item
    <3>3. QED
      BY <3>1, <3>2 DEF AskedAs, Reported
  <2>3. outcome[r] \in Posted /\ Entitled(r, outcome[r])
    BY <1>2, <1>4, <2>1 DEF LedgerInv
  <2>4. posted[outcome[r]].entry = NewRow(ItemRequest(scope[d], t))
    <3> DEFINE e == outcome[r]
    <3>1. e \in Requests /\ asked[e] # Null /\ posted[e].entry = NewRow(asked[e])
      BY <2>3 DEF LedgerInv, Posted
    <3>2. CASE e = r
      BY <2>2, <3>1, <3>2
    <3>3. CASE SameKey(posted[e].entry, asked[r])
      <4>1. PICK q \in Items : AskedAs(e, q)
        BY <3>1 DEF AskInv
      <4>2. /\ sent[q[1]] # Null /\ sent[q[1]] \in Sent /\ q[1] \in Deliveries
            /\ scope[q[1]] \in Tenants
        BY <4>1 DEF AskedAs, DeliveryInv, TypeOK, Items
      <4>3. Reported(q) \in Transactions
        BY <4>1, <4>2, BatchFacts DEF AskedAs, Reported
      <4>4. scope[q[1]] = scope[d] /\ Reported(q) = t
        BY <1>1, <1>2, <2>2, <3>1, <3>3, <4>1, <4>2, <4>3, ItemIsRequest
           DEF SameKey, AskedAs, NewRow
      <4>5. QED
        BY <3>1, <4>1, <4>4 DEF AskedAs
    <3>4. QED
      BY <2>3, <3>2, <3>3 DEF Entitled
  <2>5. ASSUME NEW i \in 1..(at[d] + 1) - 1
        PROVE  \E e \in Posted : posted[e].entry = NewRow(ItemRequest(scope[d], sent[d].batch[i]))
    <3>1. CASE i = at[d]
      BY <2>3, <2>4, <3>1
    <3>2. CASE i # at[d]
      BY <1>1, <3>2 DEF DeliveryInv, Booked
    <3>3. QED
      BY <3>1, <3>2
  <2>6. /\ at[d] + 1 \in Nat /\ at[d] + 1 \in 1..Len(sent[d].batch) + 1
        /\ at[d] < at[d] + 1
        /\ sent[d].secret \in given[scope[d]]
        /\ scope' = [scope EXCEPT ![d] = scope[d]]
    BY <1>1, <1>2, <2>1 DEF DeliveryInv, TypeOK
  <2>7. QED
    BY <1>1, <2>1, <2>5, <2>6, ProceedInv
<1>5. QED
  BY <1>3, <1>4

LEMMA LoseInv ==
    ASSUME Inv, NEW d \in Deliveries, Lose(d)
    PROVE  Inv'
BY AnswerInv DEF Lose

-----------------------------------------------------------------------------
(* Whatever the ledger does, what is posted stays posted.                  *)
LEMMA LedgerKeeps ==
    ASSUME Inv, TypeOK', LedgerInv',
           \A e \in Posted : e \in Posted' /\ posted'[e] = posted[e],
           UNCHANGED <<asked, connection, given, delivery>>
    PROVE  Inv'
<1> USE DEF Inv, delivery
<1>1. ConnectionInv'
  BY DEF ConnectionInv, Owns
<1>2. \A d \in Deliveries, i \in Nat : Booked(d, i) => Booked(d, i)'
  BY DEF Booked
<1>3. DeliveryInv'
  <2>1. SUFFICES ASSUME NEW d \in Deliveries PROVE DeliveryInv!(d)'
    BY DEF DeliveryInv
  <2>2. scope[d] # Null => \A i \in 1..at[d] - 1 : Booked(d, i)'
    BY <1>2 DEF DeliveryInv, TypeOK
  <2>3. QED
    BY <2>2 DEF DeliveryInv
<1>4. AskInv'
  BY DEF AskInv, AskedAs, Item, Reported
<1>5. QED
  BY <1>1, <1>3, <1>4

LEMMA LedgerStepInv ==
    ASSUME Inv, NEW r \in Requests, Ledger(r)
    PROVE  Inv'
<1> USE DEF Inv, Ledger
<1>1. CASE PostNew(r)
  <2> DEFINE new == [entry |-> NewRow(asked[r]), audit |-> AuditOf(asked[r], r)]
  <2>1. /\ asked[r] # Null /\ r \notin Posted
        /\ \A o \in Posted : ~SameKey(posted[o].entry, asked[r])
        /\ posted' = [posted EXCEPT ![r] = new]
        /\ outcome' \in {outcome, [outcome EXCEPT ![r] = "broken"]}
        /\ UNCHANGED asked
    BY <1>1 DEF PostNew, PostEntry, Pending
  <2>2. asked[r] \in CreateRequest
    <3>1. PICK p \in Items : AskedAs(r, p)
      BY <2>1 DEF AskInv
    <3>2. /\ p[1] \in Deliveries /\ scope[p[1]] \in Tenants
          /\ sent[p[1]] # Null /\ sent[p[1]] \in Sent
      BY <3>1 DEF AskedAs, DeliveryInv, TypeOK, Items
    <3>3. Reported(p) \in Transactions
      BY <3>1, <3>2, BatchFacts DEF AskedAs, Reported
    <3>4. QED
      BY <3>1, <3>2, <3>3, ItemIsRequest DEF AskedAs
  <2>3. new \in Posting /\ new # Null
    BY <2>2, NewRowIsRow
  <2>4. /\ posted'[r] = new
        /\ \A e \in Requests : e # r => posted'[e] = posted[e]
        /\ Posted' = Posted \cup {r}
    BY <2>1, <2>3 DEF Posted, TypeOK
  <2>5. TypeOK'
    BY <1>1, <2>1, <2>3 DEF TypeOK, delivery
  <2>6. \A e \in Requests : outcome'[e] \in {outcome[e], "broken"}
    BY <2>1 DEF TypeOK
  <2>7. \A o : SameKey(posted[o].entry, asked[r]) <=> SameKey(posted[o].entry, new.entry)
    BY DEF SameKey, NewRow
  <2>8. LedgerInv'
    <3>1. SUFFICES ASSUME NEW q \in Requests PROVE LedgerInv!(q)'
      BY DEF LedgerInv
    <3>2. q \in Posted' => asked[q] # Null /\ posted'[q].entry = NewRow(asked[q])
      BY <2>1, <2>4 DEF LedgerInv
    <3>3. q \in Posted' => \A o \in Posted' : SameKey(posted'[o].entry, posted'[q].entry) => o = q
      <4>1. \A o \in Posted : o # r /\ posted'[o] = posted[o]
        BY <2>1, <2>4 DEF Posted
      <4>2. \A o \in Posted : ~SameKey(posted[o].entry, new.entry) /\ ~SameKey(new.entry, posted[o].entry)
        BY <2>1, <2>7 DEF SameKey
      <4>3. QED
        BY <2>4, <4>1, <4>2 DEF LedgerInv
    <3>4. outcome'[q] \notin {Null, "broken"} =>
            asked[q] # Null /\ outcome'[q] \in Posted' /\ Entitled(q, outcome[q])'
      <4>1. SUFFICES ASSUME outcome'[q] \notin {Null, "broken"}
                     PROVE  asked[q] # Null /\ outcome'[q] \in Posted' /\ Entitled(q, outcome[q])'
        OBVIOUS
      <4>2. outcome'[q] = outcome[q] /\ outcome[q] \in Posted /\ asked[q] # Null /\ Entitled(q, outcome[q])
        BY <2>6, <4>1 DEF LedgerInv
      <4>3. QED
        BY <2>1, <2>4, <4>2 DEF Entitled, Posted
    <3>5. QED
      BY <2>1, <3>2, <3>3, <3>4
  <2>9. QED
    BY <2>1, <2>4, <2>5, <2>8, LedgerKeeps DEF Posted
<1>2. CASE Confirm(r)
  <2>1. PICK e \in Posted : Entitled(r, e) /\ outcome' = [outcome EXCEPT ![r] = e]
    BY <1>2 DEF Confirm
  <2>2. asked[r] # Null /\ UNCHANGED <<asked, posted>>
    BY <1>2 DEF Confirm, Pending
  <2>3. TypeOK'
    BY <2>1, <2>2 DEF TypeOK, delivery, Posted
  <2>4. LedgerInv'
    BY <2>1, <2>2 DEF LedgerInv, Posted, Entitled, TypeOK
  <2>5. QED
    BY <2>2, <2>3, <2>4, LedgerKeeps DEF Posted
<1>3. CASE Break({r})
  <2>1. /\ outcome' = [q \in Requests |-> IF q \in {r} THEN "broken" ELSE outcome[q]]
        /\ UNCHANGED <<asked, posted>>
    BY <1>3 DEF Break
  <2>2. TypeOK'
    BY <2>1 DEF TypeOK, delivery
  <2>3. LedgerInv'
    BY <2>1 DEF LedgerInv, Posted, Entitled, TypeOK
  <2>4. QED
    BY <2>1, <2>2, <2>3, LedgerKeeps DEF Posted
<1>4. QED
  BY <1>1, <1>2, <1>3

LEMMA NextInv ==
    ASSUME Inv, [Next]_vars
    PROVE  Inv'
<1>1. CASE UNCHANGED vars
  <2> USE <1>1 DEF Inv, vars, absvars, delivery
  <2>1. TypeOK' /\ ConnectionInv'
    BY DEF TypeOK, ConnectionInv, Owns
  <2>2. DeliveryInv' /\ AskInv'
    BY DEF DeliveryInv, AskInv, AskedAs, Item, Reported, Booked, Posted
  <2>3. LedgerInv'
    BY DEF LedgerInv, Posted, Entitled
  <2>4. QED
    BY <2>1, <2>2, <2>3
<1>2. CASE Next
  BY <1>2, ConnectInv, ReceiveInv, VerifyInv, PostInv, ReturnInv, LoseInv, LedgerStepInv DEF Next
<1>3. QED
  BY <1>1, <1>2

-----------------------------------------------------------------------------
LEMMA InvAcknowledged == Inv => AcknowledgedIsBooked
<1> SUFFICES ASSUME Inv, NEW d \in Deliveries, result[d] = "ok",
                    NEW i \in 1..Len(sent[d].batch)
             PROVE  Booked(d, i)
  BY DEF AcknowledgedIsBooked
<1>1. sent[d] # Null /\ sent[d] \in Sent
  BY DEF Inv, TypeOK, DeliveryInv
<1>2. Len(sent[d].batch) \in Nat /\ at[d] = Len(sent[d].batch) + 1
  BY <1>1, BatchFacts DEF Inv, DeliveryInv
<1>3. QED
  BY <1>1, <1>2 DEF Inv, DeliveryInv

(* The request a posting was made for, and the delivery behind it.         *)
LEMMA PostingItem ==
    ASSUME Inv, NEW e \in Posted
    PROVE  \E p \in Items :
             /\ e = ItemId[p]
             /\ p[1] \in Deliveries /\ scope[p[1]] \in Tenants
             /\ Reported(p) \in Transactions
             /\ posted[e].entry = NewRow(ItemRequest(scope[p[1]], Reported(p)))
             /\ sent[p[1]].secret \in given[scope[p[1]]]
<1> USE DEF Inv
<1>1. e \in Requests /\ asked[e] # Null /\ posted[e].entry = NewRow(asked[e])
  BY DEF LedgerInv, Posted
<1>2. PICK p \in Items : AskedAs(e, p)
  BY <1>1 DEF AskInv
<1>3. /\ p[1] \in Deliveries /\ scope[p[1]] \in Tenants
      /\ sent[p[1]] # Null /\ sent[p[1]] \in Sent
      /\ sent[p[1]].secret \in given[scope[p[1]]]
  BY <1>2 DEF AskedAs, DeliveryInv, TypeOK, Items
<1>4. Reported(p) \in Transactions
  BY <1>2, <1>3, BatchFacts DEF AskedAs, Reported
<1>5. QED
  BY <1>1, <1>2, <1>3, <1>4 DEF AskedAs

LEMMA InvBookedOnce == Inv => BookedOnce
<1> SUFFICES ASSUME Inv, NEW p \in Items, NEW q \in Items,
                    ItemId[p] \in Posted, ItemId[q] \in Posted,
                    Reported(p) = Reported(q), scope[p[1]] = scope[q[1]]
             PROVE  p = q
  BY DEF BookedOnce
<1>1. /\ Reported(p) \in Transactions /\ scope[p[1]] \in Tenants
      /\ posted[ItemId[p]].entry = NewRow(ItemRequest(scope[p[1]], Reported(p)))
  BY PostingItem, ItemsAreRequests
<1>2. posted[ItemId[q]].entry = NewRow(ItemRequest(scope[q[1]], Reported(q)))
  BY PostingItem, ItemsAreRequests
<1>3. SameKey(posted[ItemId[p]].entry, posted[ItemId[q]].entry)
  BY <1>1, <1>2, ItemIsRequest DEF SameKey, NewRow
<1>4. ItemId[p] = ItemId[q]
  BY <1>3 DEF Inv, LedgerInv, Posted
<1>5. QED
  BY <1>4, ItemsAreRequests

LEMMA InvVouched == Inv => OnlyVouched
BY PostingItem DEF OnlyVouched

-----------------------------------------------------------------------------
(* Inv holds in every state the integration can reach.                     *)
THEOREM Invariance == Spec => []Inv
BY InitInv, NextInv, PTL DEF Spec

(* A 201 means the whole batch is on the books.                            *)
THEOREM Acknowledged == Spec => []AcknowledgedIsBooked
BY Invariance, InvAcknowledged, PTL

(* Redelivery and overlapping deliveries never book a transaction twice.   *)
THEOREM Once == Spec => []BookedOnce
BY Invariance, InvBookedOnce, PTL

(* Only what a tenant's own secret vouches for gets on its books.          *)
THEOREM Vouched == Spec => []OnlyVouched
BY Invariance, InvVouched, PTL

(* The integration keeps to the ledger's contract: an id is asked for      *)
(* once, with a request of the ledger's vocabulary, and whatever happens   *)
(* to a delivery the ledger does what it promises.                         *)
LEMMA StepOfThePromise == Inv /\ [Next]_vars => [AbsNext]_absvars
<1> SUFFICES ASSUME Inv, [Next]_vars PROVE [AbsNext]_absvars
  OBVIOUS
<1>1. CASE UNCHANGED absvars
  BY <1>1
<1>2. ASSUME NEW d \in Deliveries, Post(d) PROVE [AbsNext]_absvars
  <2> DEFINE t == sent[d].batch[at[d]]
  <2>1. CASE t \in Malformed
    BY <1>2, <2>1 DEF Post, absvars
  <2>2. CASE t \notin Malformed
    <3>1. /\ Item(d) \in Requests /\ asked[Item(d)] = Null
          /\ scope[d] \in Tenants /\ t \in Transactions
      BY <1>2, ItemIsNew DEF Post
    <3>2. ItemRequest(scope[d], t) \in Request
      BY <3>1, ItemIsRequest DEF Request
    <3>3. Ask(Item(d))
      BY <1>2, <2>2, <3>1, <3>2 DEF Post, Ask
    <3>4. QED
      BY <3>1, <3>3 DEF AbsNext
  <2>3. QED
    BY <2>1, <2>2
<1>3. ASSUME NEW r \in Requests, Ledger(r) PROVE [AbsNext]_absvars
  <2>1. {r} \in SUBSET Requests
    OBVIOUS
  <2>2. QED
    BY <1>3, <2>1 DEF Ledger, AbsNext
<1>4. QED
  BY <1>1, <1>2, <1>3
     DEF Next, Connect, Receive, Verify, Return, Lose, vars, absvars

(* The webhook with the ledger it calls is still a ledger as specified.    *)
THEOREM KeepsTheContract == Spec => AbsSpec
<1>1. Init => AbsInit
  BY DEF Init
<1>2. QED
  BY <1>1, Invariance, StepOfThePromise, PTL DEF Spec, AbsSpec
=============================================================================
