---------------------------- MODULE LedgerProofs ----------------------------
(***************************************************************************)
(* The safety properties of Ledger, proved for every set of requests,      *)
(* tenants, users, keys and amounts and every number of faults.            *)
(*                                                                         *)
(* Ledger's Inv is shown to hold initially and to survive every action,    *)
(* one lemma per action and in it one step per part of Inv; the properties *)
(* follow from Inv.  Then every step is shown to be one that               *)
(* IdempotentLedger allows.                                                *)
(***************************************************************************)
EXTENDS Ledger, TLAPS

(* The rows the handlers build are rows of their tables.                   *)
LEMMA NewRowType ==
    ASSUME NEW q \in CreateRequest
    PROVE  NewRow(q) \in Row
BY AmountsAreCents DEF CreateRequest, NewRow, Row

LEMMA NegatedRowType ==
    ASSUME NEW q \in ReverseRequest, NEW original \in Row
    PROVE  NegatedRow(q, original) \in Row
BY DEF ReverseRequest, NegatedRow, Row

LEMMA AuditOfType ==
    ASSUME NEW q \in Request, NEW e \in Requests
    PROVE  AuditOf(q, e) \in AuditRow
BY DEF Request, CreateRequest, ReverseRequest, AuditOf, AuditRow, AuditActions

(* The two kinds of request.                                               *)
LEMMA RequestKinds ==
    /\ \A q \in Request : q \in CreateRequest \/ q \in ReverseRequest
    /\ \A q \in CreateRequest : q.op = "create"
    /\ \A q \in ReverseRequest : q.op = "reverse" /\ q.target \in Requests
BY DEF Request, CreateRequest, ReverseRequest

(* What an inserted row is, by the kind of request that inserted it.       *)
LEMMA WrittenRow ==
    ASSUME Inv, NEW r \in Requests, row[r] # Null
    PROVE  /\ row[r] \in Row
           /\ row[r].tenant = request[r].tenant
           /\ row[r].actor = request[r].actor
           /\ request[r] \in CreateRequest =>
                row[r].key = request[r].key /\ row[r].reversalOf = Null
           /\ request[r] \in ReverseRequest =>
                row[r].key = Null /\ row[r].reversalOf = request[r].target
           /\ request[r] \in CreateRequest \/ request[r] \in ReverseRequest
<1>1. row[r] \in Row
  BY DEF Inv, TypeOK
<1>2. CASE request[r] \in CreateRequest /\ row[r] = NewRow(request[r])
  BY <1>1, <1>2, RequestKinds DEF NewRow
<1>3. CASE request[r] \in ReverseRequest
           /\ row[r] = NegatedRow(request[r], row[request[r].target])
  BY <1>1, <1>3, RequestKinds DEF NegatedRow
<1>4. QED
  BY <1>2, <1>3 DEF Inv, RowInv

-----------------------------------------------------------------------------
LEMMA InitInv == Init => Inv
BY NullIsFresh, NullIsNoRecord, MaxFaultsIsNat
DEF Init, Inv, TypeOK, HandlerInv, RowInv, KeyInv, Live, ReversalInv, AnswerInv, Labels

(* A new request has written nothing, so only its own state matters.       *)
LEMMA ReceiveInv ==
    ASSUME Inv, NEW r \in Requests, Receive(r)
    PROVE  Inv'
<1> USE DEF Receive, Inv
<1>1. /\ row[r] = Null /\ trail[r] = Null /\ hit[r] = Null
      /\ reply[r] = "none" /\ xact[r] = "none"
  BY DEF HandlerInv, AnswerInv, TypeOK
<1>2. PICK q \in Request :
        /\ request' = [request EXCEPT ![r] = q]
        /\ pc' = [pc EXCEPT ![r] = IF q.op = "reverse" THEN "find"
                                   ELSE IF Truthy(q.key) THEN "lookup"
                                   ELSE "insert"]
  OBVIOUS
<1>3. TypeOK'
  BY <1>2 DEF TypeOK, Labels
<1>4. HandlerInv'
  <2>1. q.op = "reverse" => q \in ReverseRequest
    BY DEF Request, CreateRequest
  <2>2. q.op # "reverse" => q \in CreateRequest
    BY DEF Request, ReverseRequest
  <2>3. q # Null
    BY NullIsNoRecord
  <2>4. QED
    BY <1>1, <1>2, <2>1, <2>2, <2>3 DEF HandlerInv, TypeOK
<1>5. RowInv'
  BY <1>1, <1>2 DEF RowInv, TypeOK
<1>6. KeyInv'
  BY <1>1 DEF KeyInv, Live, TypeOK
<1>7. ReversalInv'
  BY <1>1, <1>2 DEF ReversalInv, Committed, TypeOK
<1>8. AnswerInv'
  BY <1>1, <1>2 DEF AnswerInv, Committed, TypeOK
<1>9. QED
  BY <1>3, <1>4, <1>5, <1>6, <1>7, <1>8

LEMMA LookupHitInv ==
    ASSUME Inv, NEW r \in Requests, LookupHit(r)
    PROVE  Inv'
<1> USE DEF LookupHit, At, Inv
<1>1. PICK e \in Requests :
        /\ Visible(r, e) /\ SameKey(row[e], request[r])
        /\ hit' = [hit EXCEPT ![r] = e]
  OBVIOUS
<1>2. TypeOK'
  BY <1>1 DEF TypeOK, Labels
<1>3. HandlerInv'
  BY DEF HandlerInv, TypeOK
<1>4. RowInv'
  BY DEF RowInv
<1>5. KeyInv'
  BY DEF KeyInv, Live
<1>6. ReversalInv'
  BY <1>1 DEF ReversalInv, Committed, TypeOK
<1>7. AnswerInv'
  <2>1. Committed(e) /\ Truthy(request[r].key) /\ request[r].op = "create" /\ e # Null
    BY <1>1, NullIsFresh DEF HandlerInv, Visible, CreateRequest
  <2>2. QED
    BY <1>1, <2>1 DEF AnswerInv, HandlerInv, Committed, TypeOK
<1>8. QED
  BY <1>2, <1>3, <1>4, <1>5, <1>6, <1>7

LEMMA LookupMissInv ==
    ASSUME Inv, NEW r \in Requests, LookupMiss(r)
    PROVE  Inv'
<1> USE DEF LookupMiss, At, Inv
<1>1. TypeOK'
  BY DEF TypeOK, Labels
<1>2. HandlerInv'
  BY DEF HandlerInv, TypeOK
<1>3. RowInv' /\ KeyInv'
  BY DEF RowInv, KeyInv, Live
<1>4. ReversalInv'
  BY DEF ReversalInv, Committed, TypeOK
<1>5. AnswerInv'
  BY DEF AnswerInv, Committed, TypeOK
<1>6. QED
  BY <1>1, <1>2, <1>3, <1>4, <1>5

(* The unique index at work: a live row with the key would block or        *)
(* refuse the insert.                                                      *)
LEMMA InsertInv ==
    ASSUME Inv, NEW r \in Requests, Insert(r)
    PROVE  Inv'
<1> USE DEF Insert, At, Inv
<1>1. request[r] \in CreateRequest /\ NewRow(request[r]) \in Row
  BY NewRowType DEF HandlerInv
<1>2. TypeOK'
  BY <1>1 DEF TypeOK, Labels
<1>3. HandlerInv'
  BY <1>1, NullIsNoRecord DEF HandlerInv, TypeOK
<1>4. RowInv'
  <2>1. ASSUME NEW e \in Requests, row[e] # Null, request[e] \in ReverseRequest
        PROVE  row'[request[e].target] = row[request[e].target]
    BY <2>1 DEF ReversalInv, HandlerInv, Committed, TypeOK
  <2>2. QED
    BY <1>1, <2>1 DEF RowInv, HandlerInv, TypeOK
<1>5. KeyInv'
  <2>1. \A o \in Requests \ {r} : Live(o) => ~SameKey(row[o], NewRow(request[r]))
    BY DEF Live, Blocked, Conflict, Committed, SameKey, NewRow
  <2>2. QED
    BY <2>1 DEF KeyInv, Live, SameKey, TypeOK
<1>6. ReversalInv'
  BY <1>1, RequestKinds DEF ReversalInv, HandlerInv, Committed, TypeOK
<1>7. AnswerInv'
  BY <1>1 DEF AnswerInv, HandlerInv, Committed, TypeOK
<1>8. QED
  BY <1>2, <1>3, <1>4, <1>5, <1>6, <1>7

LEMMA InsertConflictInv ==
    ASSUME Inv, NEW r \in Requests, InsertConflict(r)
    PROVE  Inv'
<1> USE DEF InsertConflict, At, Inv
<1>1. TypeOK'
  BY DEF TypeOK, Labels
<1>2. HandlerInv'
  BY DEF HandlerInv, TypeOK
<1>3. RowInv' /\ KeyInv'
  BY DEF RowInv, KeyInv, Live, TypeOK
<1>4. ReversalInv'
  BY DEF ReversalInv, Committed, TypeOK
<1>5. AnswerInv'
  BY DEF AnswerInv, Committed, TypeOK
<1>6. QED
  BY <1>1, <1>2, <1>3, <1>4, <1>5

-----------------------------------------------------------------------------
(* Reversing.                                                              *)

LEMMA FindOriginalInv ==
    ASSUME Inv, NEW r \in Requests, FindOriginal(r)
    PROVE  Inv'
<1> USE DEF FindOriginal, At, Inv
<1>1. request[r] \in ReverseRequest /\ request[r].target \in Requests
  BY DEF HandlerInv, ReverseRequest
<1>2. TypeOK'
  BY <1>1 DEF TypeOK, Labels
<1>3. HandlerInv'
  BY <1>1 DEF HandlerInv, TypeOK
<1>4. RowInv' /\ KeyInv'
  BY DEF RowInv, KeyInv, Live
<1>5. ReversalInv'
  BY <1>1 DEF ReversalInv, Visible, Committed, TypeOK
<1>6. AnswerInv'
  BY <1>1 DEF AnswerInv, Committed, TypeOK, ReverseRequest
<1>7. QED
  BY <1>2, <1>3, <1>4, <1>5, <1>6

LEMMA RejectReversalInv ==
    ASSUME Inv, NEW r \in Requests, RejectReversal(r)
    PROVE  Inv'
<1> USE DEF RejectReversal, At, Inv
<1>1. TypeOK'
  BY DEF TypeOK, Labels
<1>2. HandlerInv'
  BY DEF HandlerInv, TypeOK
<1>3. RowInv' /\ KeyInv'
  BY DEF RowInv, KeyInv, Live, TypeOK
<1>4. ReversalInv'
  BY DEF ReversalInv, Committed, TypeOK
<1>5. AnswerInv'
  BY DEF AnswerInv, HandlerInv, Committed, TypeOK
<1>6. QED
  BY <1>1, <1>2, <1>3, <1>4, <1>5

LEMMA InsertReversalInv ==
    ASSUME Inv, NEW r \in Requests, InsertReversal(r)
    PROVE  Inv'
<1> USE DEF InsertReversal, At, Inv
<1> DEFINE q == request[r]
           o == q.target
           new == NegatedRow(q, row[o])
<1>1. /\ q \in ReverseRequest /\ q.op = "reverse"
      /\ hit[r] = o /\ o \in Requests
      /\ Committed(o) /\ row[o] \in Row
  BY RequestKinds DEF HandlerInv, ReversalInv, Committed, TypeOK
<1>2. row[r] = Null /\ trail[r] = Null
  BY DEF HandlerInv
<1>3. new \in Row /\ new # Null
  BY <1>1, NegatedRowType, NullIsNoRecord
<1>4. new.key = Null
  BY DEF NegatedRow
<1>5. row' = [row EXCEPT ![r] = new]
  BY <1>1
<1>6. \A e \in Requests : Committed(e) => e # r /\ Committed(e)' /\ row'[e] = row[e]
  BY <1>2, <1>5 DEF Committed, TypeOK
<1>7. RowInv'
  <2>1. ASSUME NEW e \in Requests, row[e] # Null, request[e] \in ReverseRequest
        PROVE  row'[request[e].target] = row[request[e].target]
    BY <1>6, <2>1, RequestKinds DEF ReversalInv
  <2>2. row'[r] = NegatedRow(request[r], row'[request[r].target])
    BY <1>1, <1>5, <1>6 DEF TypeOK
  <2>3. QED
    BY <1>1, <1>2, <1>5, <2>1, <2>2 DEF RowInv, TypeOK
<1> HIDE DEF new
<1>8. TypeOK'
  BY <1>3, <1>5 DEF TypeOK, Labels
<1>9. HandlerInv'
  BY <1>2, <1>3, <1>5 DEF HandlerInv, TypeOK
<1>10. KeyInv'
  BY <1>4, <1>5 DEF KeyInv, Live, SameKey, TypeOK
<1>11. ReversalInv'
  BY <1>1, <1>5, <1>6, RequestKinds DEF ReversalInv, HandlerInv, TypeOK
<1>12. AnswerInv'
  BY <1>1, <1>2, <1>3, <1>5 DEF AnswerInv, Committed, TypeOK
<1>13. QED
  BY <1>7, <1>8, <1>9, <1>10, <1>11, <1>12

-----------------------------------------------------------------------------
(* The end of a transaction.                                               *)

LEMMA RecordInv ==
    ASSUME Inv, NEW r \in Requests, Record(r)
    PROVE  Inv'
<1> USE DEF Record, At, Inv
<1>1. request[r] \in Request /\ AuditOf(request[r], r) \in AuditRow
  BY AuditOfType DEF HandlerInv, TypeOK
<1>2. TypeOK'
  BY <1>1 DEF TypeOK, Labels
<1>3. HandlerInv'
  BY <1>1, NullIsNoRecord DEF HandlerInv, TypeOK
<1>4. RowInv' /\ KeyInv'
  BY DEF RowInv, KeyInv, Live, TypeOK
<1>5. ReversalInv'
  BY DEF ReversalInv, Committed, TypeOK
<1>6. AnswerInv'
  BY DEF AnswerInv, HandlerInv, Committed, TypeOK
<1>7. QED
  BY <1>2, <1>3, <1>4, <1>5, <1>6

LEMMA CommitInv ==
    ASSUME Inv, NEW r \in Requests, Commit(r)
    PROVE  Inv'
<1> USE DEF Commit, At, Inv
<1>1. TypeOK'
  BY DEF TypeOK, Labels
<1>2. HandlerInv'
  BY DEF HandlerInv, TypeOK
<1>3. RowInv' /\ KeyInv'
  BY DEF RowInv, KeyInv, Live, TypeOK
<1>4. ReversalInv'
  BY DEF ReversalInv, Committed, TypeOK
<1>5. AnswerInv'
  BY DEF AnswerInv, Committed, TypeOK
<1>6. QED
  BY <1>1, <1>2, <1>3, <1>4, <1>5

LEMMA RespondInv ==
    ASSUME Inv, NEW r \in Requests, Respond(r)
    PROVE  Inv'
<1> USE DEF Respond, Inv
<1>1. TypeOK'
  BY DEF TypeOK, Labels
<1>2. HandlerInv'
  BY DEF HandlerInv, TypeOK
<1>3. RowInv' /\ KeyInv'
  BY DEF RowInv, KeyInv, Live
<1>4. ReversalInv'
  BY DEF ReversalInv, Committed, TypeOK
<1>5. AnswerInv'
  BY DEF AnswerInv, HandlerInv, Committed, TypeOK
<1>6. QED
  BY <1>1, <1>2, <1>3, <1>4, <1>5

LEMMA FailInv ==
    ASSUME Inv, NEW r \in Requests, Fail(r)
    PROVE  Inv'
<1> USE DEF Fail, Inv
<1>1. TypeOK'
  BY DEF TypeOK, Labels
<1>2. HandlerInv'
  BY DEF HandlerInv, TypeOK
<1>3. RowInv' /\ KeyInv'
  BY DEF RowInv, KeyInv, Live
<1>4. ReversalInv'
  BY DEF ReversalInv, Committed, TypeOK
<1>5. AnswerInv'
  BY DEF AnswerInv, Committed, TypeOK
<1>6. QED
  BY <1>1, <1>2, <1>3, <1>4, <1>5

-----------------------------------------------------------------------------
(* Faults.                                                                 *)

LEMMA AbortInv ==
    ASSUME Inv, NEW r \in Requests, Abort(r)
    PROVE  Inv'
<1> USE DEF Abort, Inv
<1>1. TypeOK'
  BY MaxFaultsIsNat DEF TypeOK
<1>2. HandlerInv'
  BY DEF HandlerInv, TypeOK
<1>3. RowInv' /\ KeyInv'
  BY DEF RowInv, KeyInv, Live, TypeOK
<1>4. ReversalInv'
  BY DEF ReversalInv, Committed, TypeOK
<1>5. AnswerInv'
  BY DEF AnswerInv, Committed, TypeOK
<1>6. QED
  BY <1>1, <1>2, <1>3, <1>4, <1>5

LEMMA CommitUnacknowledgedInv ==
    ASSUME Inv, NEW r \in Requests, CommitUnacknowledged(r)
    PROVE  Inv'
<1> USE DEF CommitUnacknowledged, At, Inv
<1>1. TypeOK'
  BY MaxFaultsIsNat DEF TypeOK, Labels
<1>2. HandlerInv'
  BY DEF HandlerInv, TypeOK
<1>3. RowInv' /\ KeyInv'
  BY DEF RowInv, KeyInv, Live, TypeOK
<1>4. ReversalInv'
  BY DEF ReversalInv, Committed, TypeOK
<1>5. AnswerInv'
  BY DEF AnswerInv, Committed, TypeOK
<1>6. QED
  BY <1>1, <1>2, <1>3, <1>4, <1>5

(* A crash takes open transactions away and leaves committed ones alone.   *)
LEMMA CrashInv ==
    ASSUME Inv, Crash
    PROVE  Inv'
<1> USE DEF Crash, Inv
<1>1. TypeOK'
  BY MaxFaultsIsNat DEF TypeOK, Labels
<1>2. HandlerInv'
  BY DEF HandlerInv, TypeOK
<1>3. RowInv' /\ KeyInv'
  BY DEF RowInv, KeyInv, Live, TypeOK
<1>4. ReversalInv'
  <2>1. \A e \in Requests : Committed(e) <=> Committed(e)'
    BY DEF Committed, TypeOK
  <2>2. QED
    BY <2>1, RequestKinds DEF ReversalInv, HandlerInv, TypeOK
<1>5. AnswerInv'
  BY DEF AnswerInv, HandlerInv, Committed, TypeOK
<1>6. QED
  BY <1>1, <1>2, <1>3, <1>4, <1>5

LEMMA StutterInv ==
    ASSUME Inv, UNCHANGED vars
    PROVE  Inv'
BY DEF vars, Inv, TypeOK, HandlerInv, RowInv, KeyInv, Live, ReversalInv, AnswerInv, Committed

LEMMA NextInv == Inv /\ [Next]_vars => Inv'
<1> SUFFICES ASSUME Inv, [Next]_vars PROVE Inv'
  OBVIOUS
<1>1. ASSUME NEW r \in Requests, Receive(r) PROVE Inv'
  BY <1>1, ReceiveInv
<1>2. ASSUME NEW r \in Requests, Handle(r) PROVE Inv'
  BY <1>2, LookupHitInv, LookupMissInv, InsertInv, InsertConflictInv, FindOriginalInv,
     RejectReversalInv, InsertReversalInv, RecordInv, CommitInv, RespondInv, FailInv
  DEF Handle
<1>3. ASSUME NEW r \in Requests, Abort(r) \/ CommitUnacknowledged(r) PROVE Inv'
  BY <1>3, AbortInv, CommitUnacknowledgedInv
<1>4. CASE Crash
  BY <1>4, CrashInv
<1>5. CASE Rest
  BY <1>5, StutterInv DEF Rest
<1>6. CASE UNCHANGED vars
  BY <1>6, StutterInv
<1>7. QED
  BY <1>1, <1>2, <1>3, <1>4, <1>5, <1>6 DEF Next

-----------------------------------------------------------------------------
(* Every reachable state satisfies the inductive invariant, whatever the   *)
(* requests, keys, tenants and faults.                                     *)
THEOREM Invariance == Spec => []Inv
<1>1. Init => Inv
  BY InitInv
<1>2. Inv /\ [Next]_vars => Inv'
  BY NextInv
<1>3. QED
  BY <1>1, <1>2, PTL DEF Spec

(* Every variable keeps its type in every reachable state.                 *)
THEOREM TypeCorrect == Spec => []TypeOK
BY Invariance, PTL DEF Inv

(* A key never posts twice: at most one committed entry per tenant and     *)
(* stored key, for any number of racing, failing and repeated requests.    *)
THEOREM UniqueKeys == Spec => []OneEntryPerKey
<1>1. Inv => OneEntryPerKey
  BY DEF Inv, KeyInv, Live, OneEntryPerKey, Entries, Committed
<1>2. QED
  BY <1>1, Invariance, PTL

(* Each committed entry has its own audit record and no audit record       *)
(* outlives the entry it describes.                                        *)
THEOREM AuditComplete == Spec => []AuditMatchesLedger
<1>1. ASSUME Inv, NEW e \in Entries
      PROVE  /\ e \in AuditRows /\ trail[e] = AuditOf(request[e], e)
             /\ row[e].tenant = request[e].tenant
             /\ row[e].actor = request[e].actor
             /\ \/ request[e].op = "create" /\ row[e].reversalOf = Null
                \/ request[e].op = "reverse" /\ row[e].reversalOf # Null
  <2>1. e \in Requests /\ xact[e] = "committed" /\ row[e] # Null /\ trail[e] # Null
    BY <1>1 DEF Inv, HandlerInv, Entries, Committed
  <2>2. QED
    BY <1>1, <2>1, WrittenRow, RequestKinds, NullIsFresh DEF Inv, RowInv, AuditRows
<1>2. ASSUME Inv, NEW a \in AuditRows
      PROVE  a \in Entries /\ trail[a].entity = a
  <2>1. trail[a] = AuditOf(request[a], a)
    BY <1>2 DEF Inv, RowInv, AuditRows
  <2>2. a \in Requests /\ xact[a] = "committed" /\ row[a] # Null
    BY <1>2 DEF Inv, HandlerInv, AuditRows
  <2>3. QED
    BY <2>1, <2>2 DEF AuditOf, Entries, Committed
<1>3. ASSUME Inv, NEW e \in Entries
      PROVE  {a \in AuditRows : trail[a].entity = e} = {e}
  BY <1>1, <1>2, <1>3
<1>4. ASSUME Inv, NEW e \in Entries
      PROVE  /\ trail[e].tenant = row[e].tenant
             /\ trail[e].actor = row[e].actor
             /\ (trail[e].action = "ledger_entry.reverse") <=> (row[e].reversalOf # Null)
  <2>1. trail[e] = AuditOf(request[e], e)
    BY <1>1, <1>4
  <2>2. CASE request[e].op = "reverse"
    BY <1>1, <1>4, <2>1, <2>2 DEF AuditOf
  <2>3. CASE request[e].op # "reverse" /\ request[e].actor = Null
    BY <1>1, <1>4, <2>1, <2>3 DEF AuditOf
  <2>4. CASE request[e].op # "reverse" /\ request[e].actor # Null
    BY <1>1, <1>4, <2>1, <2>4 DEF AuditOf
  <2>5. QED
    BY <2>2, <2>3, <2>4
<1>5. Inv => AuditMatchesLedger
  BY <1>2, <1>3, <1>4 DEF AuditMatchesLedger
<1>6. QED
  BY <1>5, Invariance, PTL

(* Every committed reversal cancels a committed original of its tenant.    *)
THEOREM ReversalsCancel == Spec => []ReversalCancelsOriginal
<1>1. ASSUME Inv, NEW e \in Entries, row[e].reversalOf # Null
      PROVE  LET o == row[e].reversalOf
             IN  /\ o \in Entries
                 /\ row[o].tenant = row[e].tenant
                 /\ row[o].reversalOf = Null
                 /\ row[o].entryType = row[e].entryType
                 /\ row[o].cents + row[e].cents = 0
  <2> DEFINE o == request[e].target
  <2>1. e \in Requests /\ row[e] # Null
    BY <1>1 DEF Entries, Committed
  <2>2. /\ request[e] \in ReverseRequest /\ o \in Requests
        /\ row[e].reversalOf = o /\ row[e].tenant = request[e].tenant
    BY <1>1, <2>1, WrittenRow, RequestKinds
  <2>3. o \in Entries /\ row[o].tenant = request[e].tenant /\ row[o].reversalOf = Null
    BY <1>1, <2>1, <2>2 DEF Inv, ReversalInv, Entries
  <2>4. row[e] = NegatedRow(request[e], row[o])
    BY <1>1, <2>1, <2>2, RequestKinds DEF Inv, RowInv
  <2>5. row[o].cents \in Int
    BY <1>1, <2>2, <2>3 DEF Inv, TypeOK, Entries, Committed, Row
  <2>6. QED
    BY <2>2, <2>3, <2>4, <2>5 DEF NegatedRow
<1>2. Inv => ReversalCancelsOriginal
  BY <1>1 DEF ReversalCancelsOriginal
<1>3. QED
  BY <1>2, Invariance, PTL

(* A handler that confirms a request returns a committed entry: its own,   *)
(* or the holder of its truthy key.                                        *)
LEMMA ConfirmedResult ==
    ASSUME Inv, NEW r \in Requests, reply[r] = "ok" \/ pc[r] = "answer"
    PROVE  /\ Result(r) \in Entries
           /\ row[Result(r)].tenant = request[r].tenant
           /\ request[r].op = "reverse" => row[Result(r)].reversalOf = request[r].target
           /\ request[r].op = "create" =>
                \/ Result(r) = r /\ row[r].key = request[r].key
                \/ Truthy(request[r].key) /\ SameKey(row[Result(r)], request[r])
<1>1. CASE request[r].op = "create" /\ hit[r] # Null
  BY <1>1 DEF Inv, TypeOK, AnswerInv, Result, Entries, SameKey
<1>2. CASE ~(request[r].op = "create" /\ hit[r] # Null)
  <2>1. Result(r) = r /\ row[r] # Null /\ xact[r] = "committed"
    BY <1>2 DEF Inv, HandlerInv, AnswerInv, Result
  <2>2. QED
    BY <2>1, WrittenRow, RequestKinds DEF Entries, Committed
<1>3. QED
  BY <1>1, <1>2

(* 201 names a committed entry the caller is entitled to; 404 and 400 mean *)
(* the request posted nothing.                                             *)
THEOREM TruthfulAnswers == Spec => []AnswersAreTruthful
<1>1. ASSUME Inv, NEW r \in Requests, reply[r] = "ok"
      PROVE  request[r] \in Request
  <2>1. pc[r] # "idle"
    BY <1>1 DEF Inv, AnswerInv
  <2>2. QED
    BY <1>1, <2>1 DEF Inv, TypeOK, HandlerInv
<1>2. ASSUME NEW q \in Request
      PROVE  q.op = "create" \/ q.op = "reverse"
  BY <1>2 DEF Request, CreateRequest, ReverseRequest
<1>3. ASSUME Inv, NEW r \in Requests, reply[r] \in {"notFound", "badRequest"}
      PROVE  r \notin Entries
  BY <1>3 DEF Inv, AnswerInv, Entries, Committed
<1>4. Inv => AnswersAreTruthful
  BY <1>1, <1>2, <1>3, ConfirmedResult DEF AnswersAreTruthful, SameKey
<1>5. QED
  BY <1>4, Invariance, PTL

(* Clients confirmed for one tenant and truthy key were told one entry.    *)
THEOREM ReplayAgreement == Spec => []ReplaysAgree
<1>1. ASSUME Inv, NEW r \in Requests, reply[r] = "ok", request[r].op = "create",
             Truthy(request[r].key)
      PROVE  Result(r) \in Entries /\ SameKey(row[Result(r)], request[r])
  <2>1. request[r].key # Null
    BY <1>1, NullIsFresh DEF Truthy
  <2>2. QED
    BY <1>1, <2>1, ConfirmedResult DEF SameKey
<1>2. ASSUME Inv, NEW r \in Requests, NEW s \in Requests,
             reply[r] = "ok", request[r].op = "create", Truthy(request[r].key),
             reply[s] = "ok", request[s].op = "create", SameKey(request[r], request[s])
      PROVE  Result(r) = Result(s)
  <2>1. Truthy(request[s].key)
    BY <1>2 DEF SameKey
  <2>2. SameKey(row[Result(r)], row[Result(s)])
    BY <1>1, <1>2, <2>1 DEF SameKey
  <2>3. Inv => OneEntryPerKey
    BY DEF Inv, KeyInv, Live, OneEntryPerKey, Entries, Committed
  <2>4. QED
    BY <1>1, <1>2, <2>1, <2>2, <2>3 DEF OneEntryPerKey
<1>3. Inv => ReplaysAgree
  BY <1>2 DEF ReplaysAgree
<1>4. QED
  BY <1>3, Invariance, PTL

(* No step touches a committed entry or its audit record (ADR-3).          *)
LEMMA NextKeepsEntries ==
    ASSUME Inv, [Next]_vars, NEW e \in Entries
    PROVE  e \in Entries' /\ row'[e] = row[e] /\ trail'[e] = trail[e]
<1> USE DEF Entries, Committed, Inv, TypeOK
<1>1. xact[e] = "committed" /\ row[e] # Null /\ pc[e] \in {"answer", "done"}
  BY DEF HandlerInv
<1>2. ASSUME NEW r \in Requests, Receive(r) \/ Abort(r) \/ CommitUnacknowledged(r)
      PROVE  xact'[e] = "committed" /\ row'[e] = row[e] /\ trail'[e] = trail[e]
  BY <1>1, <1>2 DEF Receive, Abort, CommitUnacknowledged, At
<1>3. ASSUME NEW r \in Requests, Handle(r)
      PROVE  xact'[e] = "committed" /\ row'[e] = row[e] /\ trail'[e] = trail[e]
  BY <1>1, <1>3
  DEF Handle, LookupHit, LookupMiss, Insert, InsertConflict, FindOriginal,
      RejectReversal, InsertReversal, Record, Commit, Respond, Fail, At
<1>4. ASSUME Crash \/ Rest \/ UNCHANGED vars
      PROVE  xact'[e] = "committed" /\ row'[e] = row[e] /\ trail'[e] = trail[e]
  BY <1>1, <1>4 DEF Crash, Rest, vars
<1>5. QED
  BY <1>1, <1>2, <1>3, <1>4 DEF Next

(* The ledger and its audit trail only grow.                               *)
THEOREM NothingIsRewritten == Spec => AppendOnly
<1>1. Inv /\ [Next]_vars => [KeepsEntries]_vars
  BY NextKeepsEntries DEF KeepsEntries
<1>2. QED
  BY <1>1, Invariance, PTL DEF Spec, AppendOnly

-----------------------------------------------------------------------------
(* Ledger implements IdempotentLedger: under the mapping of Ledger's       *)
(* Promise (a posting is the pair of rows of a committed transaction),     *)
(* every step of the service is a step of the promise or leaves it alone.  *)

(* The instance's copy of LedgerData is LedgerData.                        *)
LEMMA SameVocabulary ==
    /\ Promise!Request = Request
    /\ \A q : Promise!NewRow(q) = NewRow(q)
    /\ \A q, o : Promise!NegatedRow(q, o) = NegatedRow(q, o)
    /\ \A q, e : Promise!AuditOf(q, e) = AuditOf(q, e)
    /\ \A a, b : Promise!SameKey(a, b) <=> SameKey(a, b)
    /\ \A k : Promise!Truthy(k) <=> Truthy(k)
BY DEF Promise!Request, Request, Promise!CreateRequest, CreateRequest,
       Promise!ReverseRequest, ReverseRequest, Promise!StoredKeys, StoredKeys,
       Promise!EntryTypes, EntryTypes, Promise!NewRow, NewRow,
       Promise!NegatedRow, NegatedRow, Promise!AuditOf, AuditOf,
       Promise!SameKey, SameKey, Promise!Truthy, Truthy

(* A posting exists exactly where a transaction with a row has committed.  *)
LEMMA PostedAreEntries ==
    ASSUME Inv
    PROVE  Promise!Posted = Entries
<1>1. ASSUME NEW e \in Requests, Committed(e)
      PROVE  [entry |-> row[e], audit |-> trail[e]] \in Posting
  BY <1>1 DEF Inv, TypeOK, HandlerInv, Committed, Posting
<1>2. QED
  BY <1>1, NullIsNoRecord DEF Promise!Posted, Postings, Entries

(* A request in progress on both levels.                                   *)
LEMMA InProgress ==
    ASSUME Inv, NEW r \in Requests, pc[r] \notin {"idle", "done"}
    PROVE  Promise!Pending(r) /\ request[r] \in Request
BY DEF Inv, TypeOK, HandlerInv, AnswerInv, Promise!Pending, Outcomes

(* A step that changes neither the requests, nor what is committed, nor    *)
(* the replies is a stutter of the promise.                                *)
LEMMA SamePostings ==
    ASSUME Inv, UNCHANGED <<row, trail>>,
           \A e \in Requests : row[e] # Null => (xact'[e] = "committed" <=> xact[e] = "committed")
    PROVE  Postings' = Postings
BY DEF Postings, Committed

LEMMA SameOutcomes ==
    ASSUME Inv, UNCHANGED <<request, reply>>,
           \A e \in Requests : reply[e] = "ok" => hit'[e] = hit[e]
    PROVE  Outcomes' = Outcomes
BY DEF Outcomes, Result

-----------------------------------------------------------------------------
(* The steps clients can see.                                              *)

LEMMA ReceiveAsks ==
    ASSUME Inv, NEW r \in Requests, Receive(r)
    PROVE  Promise!Ask(r)
<1>1. request[r] = Null /\ row[r] = Null
  BY DEF Inv, HandlerInv, Receive
<1>2. Postings' = Postings
  BY <1>1, SamePostings DEF Inv, TypeOK, Receive
<1>3. reply[r] = "none"
  BY DEF Inv, AnswerInv, Receive, TypeOK
<1>4. Outcomes' = Outcomes
  BY <1>3 DEF Inv, TypeOK, Receive, Outcomes, Result
<1>5. QED
  BY <1>1, <1>2, <1>4, SameVocabulary DEF Receive, Promise!Ask

(* Committing a transaction that wrote a row posts it.                     *)
LEMMA CommitPosts ==
    ASSUME Inv, NEW r \in Requests, row[r] # Null, At(r, "commit"),
           xact' = [xact EXCEPT ![r] = "committed"],
           UNCHANGED <<request, row, trail, hit>>,
           Outcomes' \in {Outcomes, [Outcomes EXCEPT ![r] = "broken"]}
    PROVE  Promise!PostNew(r) \/ Promise!PostReversal(r)
<1> USE DEF At
<1>1. /\ Promise!Pending(r) /\ request[r] \in Request
      /\ Promise!Posted = Entries /\ r \notin Entries
  BY InProgress, PostedAreEntries DEF Entries, Committed
<1>2. trail[r] = AuditOf(request[r], r)
  BY DEF Inv, HandlerInv, RowInv
<1>3. Postings' = [Postings EXCEPT ![r] = [entry |-> row[r], audit |-> AuditOf(request[r], r)]]
  BY <1>2 DEF Inv, TypeOK, Postings, Committed
<1>4. CASE request[r] \in CreateRequest
  <2>1. row[r] = NewRow(request[r]) /\ request[r].op = "create"
    BY <1>4, RequestKinds DEF Inv, RowInv
  <2>2. \A o \in Entries : Postings[o].entry = row[o]
    BY DEF Entries, Postings
  <2>3. \A o \in Entries : ~SameKey(row[o], row[r])
    BY <1>1 DEF Inv, KeyInv, Live, Entries, Committed
  <2>4. \A o \in Entries : ~SameKey(Postings[o].entry, request[r])
    BY <2>1, <2>2, <2>3 DEF SameKey, NewRow
  <2>5. QED
    BY <1>1, <1>3, <2>1, <2>4, SameVocabulary DEF Promise!PostNew, Promise!PostEntry
<1>5. CASE request[r] \in ReverseRequest
  <2> DEFINE o == request[r].target
  <2>1. o \in Requests /\ request[r].op = "reverse"
    BY <1>5, RequestKinds
  <2>2. row[r] = NegatedRow(request[r], row[o])
    BY <1>5, <2>1, RequestKinds DEF Inv, RowInv
  <2>3. o \in Entries /\ row[o].tenant = request[r].tenant /\ row[o].reversalOf = Null
    BY <1>5, <2>1 DEF Inv, ReversalInv, Entries
  <2>4. Postings[o].entry = row[o]
    BY <2>1, <2>3 DEF Entries, Postings
  <2>5. Promise!Reversible(request[r])
    BY <1>1, <2>3, <2>4 DEF Promise!Reversible
  <2>6. QED
    BY <1>1, <1>3, <2>1, <2>2, <2>4, <2>5, SameVocabulary
    DEF Promise!PostReversal, Promise!PostEntry
<1>6. QED
  BY <1>1, <1>4, <1>5, RequestKinds

LEMMA CommitImplements ==
    ASSUME Inv, NEW r \in Requests, Commit(r)
    PROVE  [Promise!AbsNext]_<<request, Postings, Outcomes>>
<1>1. Outcomes' = Outcomes
  BY SameOutcomes DEF Commit
<1>2. CASE row[r] # Null
  BY <1>1, <1>2, CommitPosts DEF Commit, Promise!AbsNext
<1>3. CASE row[r] = Null
  BY <1>1, <1>3, SamePostings DEF Commit, Inv, TypeOK
<1>4. QED
  BY <1>2, <1>3

(* 500 without a commit, and with one.                                     *)
LEMMA DroppedOutcome ==
    ASSUME Inv, NEW r \in Requests, reply' = [reply EXCEPT ![r] = "error"],
           UNCHANGED <<request, hit>>
    PROVE  Outcomes' = [Outcomes EXCEPT ![r] = "broken"]
BY DEF Inv, TypeOK, Outcomes, Result

LEMMA OneDropped ==
    ASSUME Inv, NEW r \in Requests, Promise!Pending(r), UNCHANGED request,
           Postings' = Postings, Outcomes' = [Outcomes EXCEPT ![r] = "broken"]
    PROVE  Promise!AbsNext
<1>1. Promise!Break({r})
  BY DEF Promise!Break, Outcomes
<1>2. QED
  BY <1>1 DEF Promise!AbsNext

LEMMA FailImplements ==
    ASSUME Inv, NEW r \in Requests, Fail(r)
    PROVE  Promise!AbsNext
<1>1. pc[r] \notin {"idle", "done"}
  BY DEF Inv, HandlerInv, Fail
<1>2. Promise!Pending(r)
  BY <1>1, InProgress
<1>3. Postings' = Postings
  BY SamePostings DEF Fail
<1>4. QED
  BY <1>2, <1>3, OneDropped, DroppedOutcome DEF Fail

LEMMA CommitUnacknowledgedImplements ==
    ASSUME Inv, NEW r \in Requests, CommitUnacknowledged(r)
    PROVE  Promise!AbsNext
<1> USE DEF CommitUnacknowledged, At
<1>1. Promise!Pending(r)
  BY InProgress
<1>2. Outcomes' = [Outcomes EXCEPT ![r] = "broken"]
  BY DroppedOutcome
<1>3. CASE row[r] # Null
  BY <1>2, <1>3, CommitPosts DEF Promise!AbsNext
<1>4. CASE row[r] = Null
  <2>1. Postings' = Postings
    BY <1>4, SamePostings DEF Inv, TypeOK
  <2>2. QED
    BY <1>1, <1>2, <2>1, OneDropped
<1>5. QED
  BY <1>3, <1>4

(* 201 confirms a posting the client is entitled to.                       *)
LEMMA RespondConfirms ==
    ASSUME Inv, NEW r \in Requests, Respond(r)
    PROVE  Promise!Confirm(r)
<1> USE DEF Respond
<1>1. Promise!Pending(r) /\ request[r] \in Request
  BY InProgress
<1>2. Promise!Posted = Entries /\ Result(r) \in Entries
  BY PostedAreEntries, ConfirmedResult
<1>3. Postings' = Postings
  BY SamePostings
<1>4. Outcomes' = [Outcomes EXCEPT ![r] = Result(r)]
  BY DEF Inv, TypeOK, Outcomes, Result
<1>5. Promise!Entitled(r, Result(r))
  <2>1. Postings[Result(r)].entry = row[Result(r)]
    BY <1>2 DEF Entries, Postings
  <2>2. CASE Result(r) = r
    BY <2>2 DEF Promise!Entitled
  <2>3. CASE Result(r) # r
    <3>1. request[r].op = "create"
      BY <2>3 DEF Result
    <3>2. QED
      BY <2>1, <2>3, <3>1, ConfirmedResult, SameVocabulary DEF Promise!Entitled
  <2>4. QED
    BY <2>2, <2>3
<1>6. QED
  BY <1>1, <1>2, <1>3, <1>4, <1>5 DEF Promise!Confirm

LEMMA RejectRefuses ==
    ASSUME Inv, NEW r \in Requests, RejectReversal(r)
    PROVE  Promise!Refuse(r)
<1> USE DEF RejectReversal, At
<1>1. Promise!Pending(r) /\ Promise!Posted = Entries
  BY InProgress, PostedAreEntries
<1>2. request[r].op = "reverse" /\ request[r].target \in Requests
  BY RequestKinds DEF Inv, HandlerInv
<1>3. ~Promise!Reversible(request[r])
  BY <1>1, <1>2 DEF Promise!Reversible, Visible, Entries, Postings
<1>4. row[r] = Null
  BY DEF Inv, HandlerInv
<1>5. Postings' = Postings
  BY <1>4, SamePostings DEF Inv, TypeOK
<1>6. Outcomes' = [Outcomes EXCEPT ![r] = "refused"]
  BY DEF Inv, TypeOK, Outcomes, Result
<1>7. QED
  BY <1>1, <1>2, <1>3, <1>5, <1>6 DEF Promise!Refuse

(* A crash drops everything in flight at once.                             *)
LEMMA CrashImplements ==
    ASSUME Inv, Crash
    PROVE  Promise!AbsNext
<1> USE DEF Crash
<1> DEFINE S == {r \in Requests : pc[r] \notin {"idle", "done"}}
<1>1. \A r \in S : Promise!Pending(r)
  BY InProgress
<1>2. Postings' = Postings
  BY SamePostings DEF Inv, TypeOK, HandlerInv
<1>3. Outcomes' = [r \in Requests |-> IF r \in S THEN "broken" ELSE Outcomes[r]]
  BY DEF Inv, TypeOK, Outcomes, Result
<1>4. Promise!Break(S)
  BY <1>1, <1>2, <1>3 DEF Promise!Break
<1>5. QED
  BY <1>4 DEF Promise!AbsNext

-----------------------------------------------------------------------------
(* The steps inside a transaction.                                         *)
LEMMA HandlerStepIsInvisible ==
    ASSUME Inv, NEW r \in Requests,
           \/ LookupHit(r) \/ LookupMiss(r) \/ Insert(r) \/ InsertConflict(r)
           \/ FindOriginal(r) \/ InsertReversal(r) \/ Record(r) \/ Abort(r)
    PROVE  UNCHANGED <<request, Postings, Outcomes>>
<1> USE DEF LookupHit, LookupMiss, Insert, InsertConflict, FindOriginal, InsertReversal,
            Record, Abort, At
<1>1. UNCHANGED <<request, reply>> /\ xact[r] = "open"
  OBVIOUS
<1>2. reply[r] # "ok"
  BY <1>1 DEF Inv, AnswerInv
<1>3. Outcomes' = Outcomes
  BY <1>1, <1>2, SameOutcomes DEF Inv, TypeOK
<1>4. Postings' = Postings
  BY <1>1 DEF Inv, TypeOK, Postings, Committed
<1>5. QED
  BY <1>1, <1>3, <1>4

LEMMA NextImplements ==
    ASSUME Inv, [Next]_vars
    PROVE  [Promise!AbsNext]_<<request, Postings, Outcomes>>
<1>1. ASSUME NEW r \in Requests, Receive(r)
      PROVE  Promise!AbsNext
  BY <1>1, ReceiveAsks DEF Promise!AbsNext
<1>2. ASSUME NEW r \in Requests, Handle(r) \/ Abort(r) \/ CommitUnacknowledged(r)
      PROVE  [Promise!AbsNext]_<<request, Postings, Outcomes>>
  <2>1. CASE Respond(r) \/ RejectReversal(r)
    BY <2>1, RespondConfirms, RejectRefuses DEF Promise!AbsNext
  <2>2. QED
    BY <1>2, <2>1, CommitImplements, FailImplements, CommitUnacknowledgedImplements,
       HandlerStepIsInvisible
    DEF Handle
<1>3. CASE Crash
  BY <1>3, CrashImplements
<1>4. CASE Rest \/ UNCHANGED vars
  <2>1. UNCHANGED vars
    BY <1>4 DEF Rest
  <2>2. Postings' = Postings
    BY <2>1 DEF vars, Postings, Committed
  <2>3. Outcomes' = Outcomes
    BY <2>1 DEF vars, Outcomes, Result
  <2>4. QED
    BY <2>1, <2>2, <2>3 DEF vars
<1>5. QED
  BY <1>1, <1>2, <1>3, <1>4 DEF Next

LEMMA InitImplements == Init => Promise!AbsInit
BY DEF Init, Promise!AbsInit, Postings, Outcomes, Committed

(* The transactional ledger keeps the promise of IdempotentLedger: no      *)
(* interleaving, failure or crash shows a client anything but atomic,      *)
(* audited, idempotent postings.                                           *)
THEOREM Refinement == Spec => KeepsPromise
<1>1. Init => Promise!AbsInit
  BY InitImplements
<1>2. Inv /\ [Next]_vars => [Promise!AbsNext]_<<request, Postings, Outcomes>>
  BY NextImplements
<1>3. QED
  BY <1>1, <1>2, Invariance, PTL DEF Spec, KeepsPromise, Promise!AbsSpec, Promise!absvars
=============================================================================
