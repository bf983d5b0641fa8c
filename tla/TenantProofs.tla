---------------------------- MODULE TenantProofs ----------------------------
(***************************************************************************)
(* The safety properties of TenantScope for any number of requests,        *)
(* tenants, users and connections.  Most steps leave the memberships and   *)
(* the tenants alone and move a single request on: the lemmas below follow *)
(* what such a step does to that request's connection.                     *)
(***************************************************************************)
EXTENDS TenantScope, TLAPS

LEMMA InitInv == Init => Inv
<1> SUFFICES ASSUME Init PROVE Inv
  OBVIOUS
<1> USE DEF Init
<1>1. TypeOK
  BY DEF TypeOK
<1>2. \A r \in Requests, k \in Parts : ~InTransaction(r, k)
  BY DEF InTransaction
<1>3. CallInv
  BY <1>2 DEF CallInv, Call, Parts
<1>4. HolderInv /\ ScopeInv
  BY <1>2 DEF HolderInv, ScopeInv
<1>5. RowInv /\ OnlyMembersAct
  BY DEF RowInv, OnlyMembersAct
<1>6. OneMembershipEach /\ OwnedByCreator
  BY DEF OneMembershipEach, OwnedByCreator
<1>7. QED
  BY <1>1, <1>3, <1>4, <1>5, <1>6 DEF Inv

-----------------------------------------------------------------------------
(* Connections.                                                            *)

Settings == [tenant : Tenants \cup {Nil, Empty, Unset}, user : Users \cup {Nil, Empty, Unset}]

LEMMA ConnUpdate ==
    ASSUME TypeOK, NEW r \in Requests, NEW k \in Parts, NEW c \in Connections \cup {Null},
           conn' = [conn EXCEPT ![r][k] = c]
    PROVE  /\ conn' \in [Requests -> [Parts -> Connections \cup {Null}]]
           /\ \A o \in Requests, j \in Parts :
                conn'[o][j] = IF o = r /\ j = k THEN c ELSE conn[o][j]
BY DEF TypeOK

(* The connection a transaction gives back, or loses, ends up in any state. *)
Gone(r, k) ==
    \E s \in Settings :
        /\ conn' = [conn EXCEPT ![r][k] = Null]
        /\ setting' = [setting EXCEPT ![conn[r][k]] = s]

(* A transaction has ended, and the others have the scope they had.        *)
LEMMA GoneInv ==
    ASSUME TypeOK, HolderInv, ScopeInv, NEW r \in Requests, NEW k \in Parts,
           InTransaction(r, k), Gone(r, k),
           \A o \in Requests, j \in Parts :
               <<o, j>> # <<r, k>> /\ InTransaction(o, j) => Scope(o)' = Scope(o)
    PROVE  /\ conn' \in [Requests -> [Parts -> Connections \cup {Null}]]
           /\ setting' \in [Connections -> Settings]
           /\ \A o \in Requests, j \in Parts :
                conn'[o][j] = IF o = r /\ j = k THEN Null ELSE conn[o][j]
           /\ HolderInv' /\ ScopeInv'
<1>1. PICK s \in Settings : /\ conn' = [conn EXCEPT ![r][k] = Null]
                            /\ setting' = [setting EXCEPT ![conn[r][k]] = s]
  BY DEF Gone
<1>2. /\ conn' \in [Requests -> [Parts -> Connections \cup {Null}]]
      /\ \A o \in Requests, j \in Parts :
           conn'[o][j] = IF o = r /\ j = k THEN Null ELSE conn[o][j]
  BY <1>1, ConnUpdate
<1>3. setting' \in [Connections -> Settings]
  BY <1>1 DEF TypeOK, Settings
<1>4. HolderInv'
  BY <1>2 DEF HolderInv, InTransaction
<1>5. ScopeInv'
  <2> SUFFICES ASSUME NEW o \in Requests, NEW j \in Parts, conn'[o][j] # Null
               PROVE  setting'[conn'[o][j]] = Scope(o)'
    BY DEF ScopeInv, InTransaction
  <2>1. <<o, j>> # <<r, k>> /\ InTransaction(o, j) /\ conn'[o][j] = conn[o][j]
    BY <1>2 DEF InTransaction
  <2>2. conn[o][j] \in Connections /\ conn[o][j] # conn[r][k]
    BY <2>1 DEF TypeOK, InTransaction, HolderInv
  <2>3. setting'[conn[o][j]] = setting[conn[o][j]]
    BY <1>1, <2>2 DEF TypeOK
  <2>4. QED
    BY <2>1, <2>3 DEF ScopeInv
<1>6. QED
  BY <1>2, <1>3, <1>4, <1>5

(* A transaction has begun on a free connection, with its scope.           *)
LEMMA BegunInv ==
    ASSUME TypeOK, HolderInv, ScopeInv, NEW r \in Requests, NEW k \in Parts,
           NEW t \in Tenants \cup {Nil}, NEW u \in Users \cup {Nil},
           Begin(r, k, t, u), Scope(r) = [tenant |-> t, user |-> u],
           UNCHANGED <<asked, tenant>>
    PROVE  /\ conn' \in [Requests -> [Parts -> Connections \cup {Null}]]
           /\ setting' \in [Connections -> Settings]
           /\ conn'[r][k] # Null
           /\ \A o \in Requests, j \in Parts :
                <<o, j>> # <<r, k>> => conn'[o][j] = conn[o][j]
           /\ HolderInv' /\ ScopeInv'
<1>1. PICK c \in Connections :
        /\ Free(c)
        /\ conn' = [conn EXCEPT ![r][k] = c]
        /\ setting' = [setting EXCEPT ![c] = [tenant |-> t, user |-> u]]
  BY DEF Begin
<1>2. /\ conn' \in [Requests -> [Parts -> Connections \cup {Null}]]
      /\ \A o \in Requests, j \in Parts :
           conn'[o][j] = IF o = r /\ j = k THEN c ELSE conn[o][j]
  BY <1>1, ConnUpdate
<1>3. c # Null
  BY NullIsFresh
<1>4. [tenant |-> t, user |-> u] \in Settings
  BY DEF Settings
<1>5. setting' \in [Connections -> Settings]
  BY <1>1, <1>4 DEF TypeOK, Settings
<1>6. \A o \in Requests, j \in Parts : conn[o][j] # c
  BY <1>1 DEF Free
<1>7. HolderInv'
  BY <1>2, <1>6 DEF HolderInv, InTransaction
<1>8. ScopeInv'
  <2> SUFFICES ASSUME NEW o \in Requests, NEW j \in Parts, conn'[o][j] # Null
               PROVE  setting'[conn'[o][j]] = Scope(o)
    BY DEF ScopeInv, InTransaction, Scope
  <2>1. CASE o = r /\ j = k
    BY <1>1, <1>2, <2>1 DEF TypeOK
  <2>2. CASE ~(o = r /\ j = k)
    <3>1. InTransaction(o, j) /\ conn'[o][j] = conn[o][j] /\ conn[o][j] # c
      BY <1>2, <1>6, <2>2 DEF InTransaction
    <3>2. conn[o][j] \in Connections
      BY <3>1 DEF TypeOK, InTransaction
    <3>3. setting'[conn[o][j]] = setting[conn[o][j]]
      BY <1>1, <3>1, <3>2 DEF TypeOK
    <3>4. QED
      BY <3>1, <3>3 DEF ScopeInv
  <2>3. QED
    BY <2>1, <2>2
<1>9. QED
  BY <1>2, <1>3, <1>5, <1>7, <1>8

LEMMA EndIsGone ==
    ASSUME NEW r \in Requests, NEW k \in Parts, End(r, k) \/ Lose(r, k)
    PROVE  Gone(r, k)
<1>1. /\ [tenant |-> Empty, user |-> Empty] \in Settings
      /\ [tenant |-> Unset, user |-> Unset] \in Settings
  BY DEF Settings
<1>2. QED
  BY <1>1 DEF End, Lose, Gone

(* Nothing changes for a request that a step of another does not touch.    *)
LEMMA CallKept ==
    ASSUME NEW o \in Requests, Call(o),
           pc'[o] = pc[o], asked'[o] = asked[o], tenant'[o] = tenant[o], row'[o] = row[o],
           waiting'[o] = waiting[o], \A j \in Parts : conn'[o][j] = conn[o][j],
           asked[o] # Null /\ asked[o].op = "createTenant" /\ pc[o] # "tenant" =>
               creator'[tenant[o]] = creator[tenant[o]]
    PROVE  Call(o)'
BY DEF Call, InTransaction, Parts, NewMember, Inserts

-----------------------------------------------------------------------------
(* A request is answered: its last transaction ends, if one is open.       *)
LEMMA ReplyInv ==
    ASSUME Inv, NEW r \in Requests, pc[r] # "idle", Reply(r),
           waiting[r] = {}, \A p \in Periods : ~InTransaction(r, p),
           IF InTransaction(r, "own") THEN Gone(r, "own") ELSE UNCHANGED <<conn, setting>>,
           UNCHANGED <<creator, members>>
    PROVE  Inv'
<1> USE DEF Inv, Reply, Goto
<1>1. "own" \in Parts /\ Parts = {"own"} \cup Periods
  BY DEF Parts
<1>2. \A o \in Requests : o # r => Scope(o)' = Scope(o)
  BY DEF Scope, TypeOK
<1>3. /\ conn' \in [Requests -> [Parts -> Connections \cup {Null}]]
      /\ setting' \in [Connections -> Settings]
      /\ \A j \in Parts : conn'[r][j] = Null
      /\ \A o \in Requests, j \in Parts : o # r => conn'[o][j] = conn[o][j]
      /\ HolderInv' /\ ScopeInv'
  <2>1. CASE InTransaction(r, "own")
    <3>1. \A o \in Requests, j \in Parts :
            <<o, j>> # <<r, "own">> /\ InTransaction(o, j) => Scope(o)' = Scope(o)
      BY <1>1, <1>2
    <3>2. /\ conn' \in [Requests -> [Parts -> Connections \cup {Null}]]
          /\ setting' \in [Connections -> Settings]
          /\ \A o \in Requests, j \in Parts :
               conn'[o][j] = IF o = r /\ j = "own" THEN Null ELSE conn[o][j]
          /\ HolderInv' /\ ScopeInv'
      BY <1>1, <2>1, <3>1, GoneInv
    <3>3. QED
      BY <1>1, <3>2 DEF InTransaction
  <2>2. CASE ~InTransaction(r, "own")
    <3>1. \A j \in Parts : ~InTransaction(r, j)
      BY <1>1, <2>2
    <3>2. HolderInv'
      BY <2>2 DEF HolderInv, InTransaction
    <3>3. ScopeInv'
      BY <1>2, <2>2, <3>1 DEF ScopeInv, InTransaction
    <3>4. QED
      BY <2>2, <3>1, <3>2, <3>3 DEF InTransaction, TypeOK, Settings
  <2>3. QED
    BY <2>1, <2>2
<1>4. TypeOK'
  BY <1>3 DEF TypeOK, Settings
<1>5. CallInv'
  <2>1. \A o \in Requests \ {r} : Call(o)'
    BY <1>3, CallKept DEF CallInv, TypeOK
  <2>2. /\ pc'[r] = "idle" /\ asked'[r] = Null /\ row'[r] = Null /\ waiting'[r] = {}
        /\ \A j \in Parts : ~InTransaction(r, j)'
    BY <1>3 DEF TypeOK, InTransaction
  <2>3. Call(r)'
    BY <1>1, <2>2 DEF Call
  <2>4. QED
    BY <2>1, <2>3 DEF CallInv
<1>6. RowInv'
  BY DEF RowInv, TypeOK
<1>7. OnlyMembersAct'
  BY DEF OnlyMembersAct, TypeOK
<1>8. OneMembershipEach' /\ OwnedByCreator'
  BY DEF OneMembershipEach, OwnedByCreator
<1>9. QED
  BY <1>3, <1>4, <1>5, <1>6, <1>7, <1>8

(* A new request holds nothing yet.                                        *)
LEMMA ReceiveInv ==
    ASSUME Inv, NEW r \in Requests, Receive(r)
    PROVE  Inv'
<1> USE DEF Inv, Receive, Goto
<1>1. PICK q \in Ask :
        /\ asked' = [asked EXCEPT ![r] = q]
        /\ pc' = [pc EXCEPT ![r] = CASE q.op = "createTenant" -> "tenant"
                                     [] q.op = "listMine" -> "begin"
                                     [] OTHER -> "guard"]
        /\ tenant' = [tenant EXCEPT ![r] = IF q.op \in GuardedOps THEN q.tenant ELSE Null]
  OBVIOUS
<1>2. /\ q # Null
      /\ q.op \in {"createTenant", "listMine"} \cup GuardedOps
      /\ q.op \in GuardedOps => q.tenant \in Tenants
  BY NullIsNoAsk DEF Ask, GuardedOps
<1>3. row[r] = Null /\ \A k \in Parts : ~InTransaction(r, k)
  BY DEF CallInv, Call, Parts
<1>4. TypeOK'
  BY <1>1, <1>2 DEF TypeOK
<1>5. CallInv'
  BY <1>1, <1>2, <1>3
     DEF CallInv, Call, TypeOK, GuardedOps, NewMember, Inserts, InTransaction, Parts
<1>6. HolderInv' /\ ScopeInv'
  BY <1>1, <1>3 DEF HolderInv, ScopeInv, Scope, InTransaction, TypeOK
<1>7. RowInv'
  BY DEF RowInv
<1>8. OnlyMembersAct'
  BY <1>1, <1>2 DEF OnlyMembersAct, TypeOK, GuardedOps
<1>9. OneMembershipEach' /\ OwnedByCreator'
  BY DEF OneMembershipEach, OwnedByCreator
<1>10. QED
  BY <1>4, <1>5, <1>6, <1>7, <1>8, <1>9

(* A tenant that did not exist has no members whose owner could change.    *)
LEMMA InsertTenantInv ==
    ASSUME Inv, NEW r \in Requests, InsertTenant(r)
    PROVE  Inv'
<1> USE DEF Inv, InsertTenant, Goto
<1>1. PICK t \in Tenants :
        /\ creator[t] = Null
        /\ creator' = [creator EXCEPT ![t] = asked[r].user]
        /\ tenant' = [tenant EXCEPT ![r] = t]
  OBVIOUS
<1>2. /\ asked[r] # Null /\ asked[r] \in Ask /\ asked[r].op = "createTenant"
      /\ asked[r].user \in Users
      /\ row[r] = Null /\ \A k \in Parts : ~InTransaction(r, k)
  BY DEF CallInv, Call, TypeOK, Ask, GuardedOps, Parts
<1>3. \A o \in Requests \ {r} :
        asked[o] # Null /\ asked[o].op = "createTenant" /\ pc[o] # "tenant" => tenant[o] # t
  <2>1. SUFFICES ASSUME NEW o \in Requests \ {r}, asked[o] # Null,
                        asked[o].op = "createTenant", pc[o] # "tenant"
                 PROVE  creator[tenant[o]] # Null
    BY <1>1
  <2>2. asked[o].user \in Users
    BY <2>1 DEF TypeOK, Ask
  <2>3. QED
    BY <2>1, <2>2, NullIsFresh DEF CallInv, Call
<1>4. \A m \in members : m.tenant # t /\ m.tenant \in Tenants
  <2>1. SUFFICES ASSUME NEW m \in members
                 PROVE  creator[m.tenant] # Null /\ m.tenant \in Tenants
    BY <1>1
  <2>2. [tenant |-> m.tenant, user |-> creator[m.tenant], role |-> "owner"] \in Membership
    BY DEF OwnedByCreator, TypeOK
  <2>3. QED
    BY <2>2, NullIsFresh DEF Membership, TypeOK
<1>5. TypeOK'
  BY <1>1, <1>2 DEF TypeOK
<1>6. CallInv'
  <2>1. \A o \in Requests \ {r} :
          asked[o] # Null /\ asked[o].op = "createTenant" /\ pc[o] # "tenant" =>
              creator'[tenant[o]] = creator[tenant[o]]
    BY <1>1, <1>3 DEF TypeOK
  <2>2. \A o \in Requests \ {r} : Call(o)'
    BY <1>1, <2>1, CallKept DEF CallInv, TypeOK
  <2>3. tenant'[r] = t /\ t # Null /\ creator'[t] = asked[r].user /\ pc'[r] = "begin"
    BY <1>1, <1>2, NullIsFresh DEF TypeOK
  <2>4. waiting[r] = {}
    BY DEF CallInv, Call
  <2>5. Call(r)'
    BY <1>2, <2>3, <2>4 DEF Call, GuardedOps, InTransaction, Parts
  <2>6. QED
    BY <2>2, <2>5 DEF CallInv
<1>7. HolderInv' /\ ScopeInv'
  BY <1>1, <1>2 DEF HolderInv, ScopeInv, Scope, InTransaction, TypeOK
<1>8. RowInv'
  BY DEF RowInv
<1>9. OnlyMembersAct'
  BY <1>1, <1>2 DEF OnlyMembersAct, TypeOK, GuardedOps
<1>10. OneMembershipEach' /\ OwnedByCreator'
  BY <1>1, <1>4 DEF OneMembershipEach, OwnedByCreator, TypeOK
<1>11. QED
  BY <1>5, <1>6, <1>7, <1>8, <1>9, <1>10

(* A transaction begins on a free connection with the settings of its      *)
(* scope.                                                                  *)
LEMMA BeginInv ==
    ASSUME Inv, NEW r \in Requests, NEW l \in {"lookup", "work"},
           pc[r] \in {"guard", "begin"}, pc[r] = "guard" <=> l = "lookup",
           IF asked[r].op = "listMine" THEN WithUser(r, "own", asked[r].user)
                                       ELSE WithTenant(r, "own", tenant[r]),
           Goto(r, l), UNCHANGED <<creator, members, asked, tenant, row, waiting>>
    PROVE  Inv'
<1> USE DEF Inv, Goto
<1>1. /\ asked[r] # Null /\ asked[r] \in Ask /\ asked[r].user \in Users
      /\ row[r] = Null /\ waiting[r] = {}
      /\ asked[r].op # "listMine" => tenant[r] \in Tenants
  BY DEF CallInv, Call, TypeOK, Ask, GuardedOps
<1>2. "own" \in Parts /\ Parts = {"own"} \cup Periods /\ "own" \notin Periods
  BY DEF Parts, Periods
<1>3. /\ conn' \in [Requests -> [Parts -> Connections \cup {Null}]]
      /\ setting' \in [Connections -> Settings]
      /\ conn'[r]["own"] # Null
      /\ \A o \in Requests, j \in Parts : <<o, j>> # <<r, "own">> => conn'[o][j] = conn[o][j]
      /\ HolderInv' /\ ScopeInv'
  <2>1. CASE asked[r].op = "listMine"
    <3>1. Begin(r, "own", Nil, asked[r].user) /\ Scope(r) = [tenant |-> Nil, user |-> asked[r].user]
      BY <2>1 DEF WithUser, Scope
    <3>2. QED
      BY <1>1, <1>2, <3>1, BegunInv
  <2>2. CASE asked[r].op # "listMine"
    <3>1. Begin(r, "own", tenant[r], Nil) /\ Scope(r) = [tenant |-> tenant[r], user |-> Nil]
      BY <2>2 DEF WithTenant, Scope
    <3>2. QED
      BY <1>1, <1>2, <2>2, <3>1, BegunInv
  <2>3. QED
    BY <2>1, <2>2
<1>4. TypeOK'
  BY <1>3 DEF TypeOK, Settings
<1>5. CallInv'
  <2>1. \A o \in Requests \ {r} : Call(o)'
    BY <1>3, CallKept DEF CallInv, TypeOK
  <2>2. Call(r)
    BY DEF CallInv
  <2>3. Call(r)'
    <3>1. /\ pc'[r] = l /\ asked'[r] = asked[r] /\ row'[r] = Null /\ waiting'[r] = {}
          /\ tenant'[r] = tenant[r] /\ creator' = creator
      BY <1>1 DEF TypeOK
    <3>2. InTransaction(r, "own")' /\ \A p \in Periods : ~InTransaction(r, p)'
      BY <1>2, <1>3, <2>2 DEF Call, InTransaction
    <3>3. l = "lookup" => asked[r].op \in GuardedOps
      BY <2>2 DEF Call
    <3>4. QED
      BY <1>1, <2>2, <3>1, <3>2, <3>3 DEF Call
  <2>4. QED
    BY <2>1, <2>3 DEF CallInv
<1>6. RowInv' /\ OneMembershipEach' /\ OwnedByCreator'
  BY DEF RowInv, OneMembershipEach, OwnedByCreator
<1>7. OnlyMembersAct'
  BY DEF OnlyMembersAct, CallInv, Call, TypeOK
<1>8. QED
  BY <1>3, <1>4, <1>5, <1>6, <1>7

(* The row the guard finds is committed and never removed.                 *)
LEMMA GuardPassInv ==
    ASSUME Inv, NEW r \in Requests, pc[r] = "lookup", MayEnter(r),
           End(r, "own"), Goto(r, "begin"),
           UNCHANGED <<creator, members, asked, tenant, row, waiting>>
    PROVE  Inv'
<1> USE DEF Inv, Goto
<1>1. asked[r] # Null /\ asked[r].op \in GuardedOps /\ row[r] = Null /\ InTransaction(r, "own")
  BY DEF CallInv, Call
<1>2. "own" \in Parts /\ Parts = {"own"} \cup Periods /\ "own" \notin Periods
  BY DEF Parts, Periods
<1>3. /\ conn' \in [Requests -> [Parts -> Connections \cup {Null}]]
      /\ setting' \in [Connections -> Settings]
      /\ \A o \in Requests, j \in Parts :
           conn'[o][j] = IF o = r /\ j = "own" THEN Null ELSE conn[o][j]
      /\ HolderInv' /\ ScopeInv'
  <2>1. \A o \in Requests : Scope(o)' = Scope(o)
    BY DEF Scope
  <2>2. QED
    BY <1>1, <1>2, <2>1, EndIsGone, GoneInv
<1>4. TypeOK'
  BY <1>3 DEF TypeOK, Settings
<1>5. CallInv'
  <2>1. \A o \in Requests \ {r} : Call(o)'
    BY <1>3, CallKept DEF CallInv, TypeOK
  <2>2. Call(r)
    BY DEF CallInv
  <2>3. Call(r)'
    BY <1>1, <1>2, <1>3, <2>2 DEF Call, TypeOK, InTransaction
  <2>4. QED
    BY <2>1, <2>3 DEF CallInv
<1>6. RowInv' /\ OneMembershipEach' /\ OwnedByCreator'
  BY DEF RowInv, OneMembershipEach, OwnedByCreator
<1>7. OnlyMembersAct'
  <2>1. \E m \in members : /\ m.tenant = tenant[r] /\ m.user = asked[r].user
                           /\ m.role \in Required(asked[r].op)
    BY DEF MayEnter, VisibleMembers
  <2>2. QED
    BY <2>1 DEF OnlyMembersAct, TypeOK
<1>8. QED
  BY <1>3, <1>4, <1>5, <1>6, <1>7

LEMMA QueryInv ==
    ASSUME Inv, NEW r \in Requests, Query(r)
    PROVE  Inv'
<1> USE DEF Inv, Query, Goto
<1>1. TypeOK'
  BY DEF TypeOK
<1>2. CallInv'
  BY DEF CallInv, Call, TypeOK, InTransaction, NewMember, Inserts
<1>3. HolderInv' /\ ScopeInv' /\ RowInv'
  BY DEF HolderInv, ScopeInv, Scope, InTransaction, RowInv, TypeOK
<1>4. OnlyMembersAct' /\ OneMembershipEach' /\ OwnedByCreator'
  BY DEF OnlyMembersAct, OneMembershipEach, OwnedByCreator, TypeOK
<1>5. QED
  BY <1>1, <1>2, <1>3, <1>4

-----------------------------------------------------------------------------
(* The dashboard: three transactions of one scope, each by itself.         *)

LEMMA DashboardInv ==
    ASSUME Inv, NEW r \in Requests, Dashboard(r)
    PROVE  Inv'
<1> USE DEF Inv, Dashboard, Goto
<1>1. TypeOK'
  BY DEF TypeOK
<1>2. CallInv'
  BY DEF CallInv, Call, TypeOK, InTransaction, NewMember, Inserts
<1>3. HolderInv' /\ ScopeInv' /\ RowInv'
  BY DEF HolderInv, ScopeInv, Scope, InTransaction, RowInv, TypeOK
<1>4. OnlyMembersAct' /\ OneMembershipEach' /\ OwnedByCreator'
  BY DEF OnlyMembersAct, OneMembershipEach, OwnedByCreator, TypeOK
<1>5. QED
  BY <1>1, <1>2, <1>3, <1>4

(* Only the reads of a request change, and it is at the dashboard.         *)
LEMMA ReadsInv ==
    ASSUME Inv, NEW r \in Requests, pc[r] = "reads",
           conn' \in [Requests -> [Parts -> Connections \cup {Null}]],
           setting' \in [Connections -> Settings],
           \A o \in Requests, j \in Parts :
               (o # r \/ j = "own") => conn'[o][j] = conn[o][j],
           waiting' \in [Requests -> SUBSET Periods],
           \A o \in Requests : o # r => waiting'[o] = waiting[o],
           HolderInv', ScopeInv',
           UNCHANGED <<creator, members, asked, pc, tenant, row>>
    PROVE  Inv'
<1> USE DEF Inv
<1>1. TypeOK'
  BY DEF TypeOK, Settings
<1>2. CallInv'
  <2>1. \A o \in Requests \ {r} : Call(o)'
    BY CallKept DEF CallInv, TypeOK
  <2>2. Call(r) /\ "own" \in Parts /\ asked[r].op = "dashboard"
    BY DEF CallInv, Call, Parts
  <2>3. Call(r)'
    BY <2>2 DEF Call, InTransaction, Inserts
  <2>4. QED
    BY <2>1, <2>3 DEF CallInv
<1>3. RowInv'
  BY DEF RowInv
<1>4. OnlyMembersAct' /\ OneMembershipEach' /\ OwnedByCreator'
  BY DEF OnlyMembersAct, OneMembershipEach, OwnedByCreator
<1>5. QED
  BY <1>1, <1>2, <1>3, <1>4

LEMMA ReadBeginInv ==
    ASSUME Inv, NEW r \in Requests, NEW p \in Periods, ReadBegin(r, p)
    PROVE  Inv'
<1> USE DEF Inv
<1>1. pc[r] = "reads" /\ asked[r].op = "dashboard" /\ p \in Parts /\ p # "own"
  BY DEF ReadBegin, CallInv, Call, Parts, Periods
<1>2. tenant[r] \in Tenants
  <2>1. asked[r] # Null /\ asked[r] \in Ask
    BY <1>1 DEF CallInv, Call, TypeOK
  <2>2. tenant[r] = asked[r].tenant
    BY <1>1, <2>1 DEF CallInv, Call, GuardedOps
  <2>3. asked[r].tenant \in Tenants
    BY <1>1, <2>1 DEF Ask, GuardedOps
  <2>4. QED
    BY <2>2, <2>3
<1>3. Begin(r, p, tenant[r], Nil) /\ Scope(r) = [tenant |-> tenant[r], user |-> Nil]
  BY <1>1 DEF ReadBegin, WithTenant, Scope
<1>4. UNCHANGED <<asked, tenant>>
  BY DEF ReadBegin
<1>5. /\ conn' \in [Requests -> [Parts -> Connections \cup {Null}]]
      /\ setting' \in [Connections -> Settings]
      /\ \A o \in Requests, j \in Parts : <<o, j>> # <<r, p>> => conn'[o][j] = conn[o][j]
      /\ HolderInv' /\ ScopeInv'
  BY <1>1, <1>2, <1>3, <1>4, BegunInv
<1>6. /\ waiting' \in [Requests -> SUBSET Periods]
      /\ \A o \in Requests : o # r => waiting'[o] = waiting[o]
  BY DEF ReadBegin, TypeOK
<1>7. QED
  BY <1>1, <1>5, <1>6, ReadsInv DEF ReadBegin

LEMMA ReadGoneInv ==
    ASSUME Inv, NEW r \in Requests, NEW p \in Periods, InTransaction(r, p),
           End(r, p) \/ Lose(r, p), UNCHANGED <<creator, members, request>>
    PROVE  Inv'
<1> USE DEF Inv
<1>1. pc[r] = "reads" /\ p \in Parts /\ p # "own"
  BY DEF CallInv, Call, Parts, Periods
<1>2. UNCHANGED <<asked, pc, tenant, row, waiting>>
  BY DEF request
<1>3. /\ conn' \in [Requests -> [Parts -> Connections \cup {Null}]]
      /\ setting' \in [Connections -> Settings]
      /\ \A o \in Requests, j \in Parts :
           conn'[o][j] = IF o = r /\ j = p THEN Null ELSE conn[o][j]
      /\ HolderInv' /\ ScopeInv'
  <2>1. \A o \in Requests : Scope(o)' = Scope(o)
    BY <1>2 DEF Scope
  <2>2. QED
    BY <1>1, <2>1, EndIsGone, GoneInv
<1>4. waiting' \in [Requests -> SUBSET Periods]
  BY <1>2 DEF TypeOK
<1>5. QED
  BY <1>1, <1>2, <1>3, <1>4, ReadsInv

(* A read that got no connection in time.                                  *)
LEMMA ReadGivesUpInv ==
    ASSUME Inv, NEW r \in Requests, NEW p \in waiting[r],
           waiting' = [waiting EXCEPT ![r] = @ \ {p}],
           UNCHANGED <<creator, members, setting, conn, asked, pc, tenant, row>>
    PROVE  Inv'
<1> USE DEF Inv
<1>1. pc[r] = "reads"
  BY DEF CallInv, Call
<1>2. HolderInv' /\ ScopeInv'
  BY DEF HolderInv, ScopeInv, Scope, InTransaction
<1>3. /\ waiting' \in [Requests -> SUBSET Periods]
      /\ \A o \in Requests : o # r => waiting'[o] = waiting[o]
      /\ setting' \in [Connections -> Settings]
      /\ conn' \in [Requests -> [Parts -> Connections \cup {Null}]]
  BY DEF TypeOK, Settings
<1>4. QED
  BY <1>1, <1>2, <1>3, ReadsInv

-----------------------------------------------------------------------------
(* What a request may insert: the owner of a tenant it has created, or a   *)
(* member who is not an owner.                                             *)
LEMMA NewMemberType ==
    ASSUME TypeOK, CallInv, NEW r \in Requests, pc[r] = "work", Inserts(r)
    PROVE  /\ NewMember(r) \in Membership
           /\ NewMember(r) # Null
           /\ NewMember(r).tenant = tenant[r]
           /\ asked[r].op = "createTenant" =>
                /\ NewMember(r).role = "owner"
                /\ NewMember(r).user = creator[tenant[r]]
           /\ asked[r].op = "addMembership" => NewMember(r).role # "owner"
<1>1. asked[r] \in Ask /\ asked[r] # Null /\ tenant[r] \in Tenants \cup {Null}
  BY DEF TypeOK, CallInv, Call
<1>2. CASE asked[r].op = "createTenant"
  <2>1. asked[r].user \in Users /\ tenant[r] \in Tenants /\ asked[r].user = creator[tenant[r]]
    BY <1>1, <1>2 DEF CallInv, Call, Ask
  <2>2. NewMember(r) = [tenant |-> tenant[r], user |-> asked[r].user, role |-> "owner"]
    BY <1>2 DEF NewMember
  <2>3. NewMember(r) \in Membership
    BY <2>1, <2>2 DEF Membership, Roles
  <2>4. QED
    BY <1>2, <2>1, <2>2, <2>3, NullIsNoMembership
<1>3. CASE asked[r].op = "addMembership" /\ asked[r].target # Null
  <2>1. /\ asked[r].target \in Users /\ asked[r].role \in Assignable
        /\ tenant[r] = asked[r].tenant /\ asked[r].tenant \in Tenants
    BY <1>1, <1>3 DEF CallInv, Call, Ask, GuardedOps
  <2>2. NewMember(r) = [tenant |-> tenant[r], user |-> asked[r].target, role |-> asked[r].role]
    BY <1>3 DEF NewMember
  <2>3. NewMember(r) \in Membership
    BY <2>1, <2>2 DEF Membership, Roles, Assignable
  <2>4. QED
    BY <1>3, <2>1, <2>2, <2>3, NullIsNoMembership DEF Assignable
<1>4. QED
  BY <1>2, <1>3 DEF Inserts

(* The unique index lets a row in only if no other one has its pair.       *)
LEMMA InsertMemberInv ==
    ASSUME Inv, NEW r \in Requests, InsertMember(r)
    PROVE  Inv'
<1> USE DEF Inv, InsertMember, Goto
<1>1. NewMember(r) \in Membership /\ NewMember(r) # Null
  BY NewMemberType
<1>2. /\ \A m \in members : ~SamePair(m, NewMember(r))
      /\ \A o \in Requests \ {r} : row[o] # Null => ~SamePair(row[o], NewMember(r))
  BY DEF Contended, Taken
<1>3. row' = [row EXCEPT ![r] = NewMember(r)] /\ NewMember(r)' = NewMember(r)
  BY DEF NewMember
<1>4. TypeOK'
  BY <1>1, <1>3 DEF TypeOK
<1>5. CallInv'
  BY <1>3 DEF CallInv, Call, TypeOK, InTransaction, NewMember, Inserts
<1>6. HolderInv' /\ ScopeInv'
  BY DEF HolderInv, ScopeInv, Scope, InTransaction
<1>7. RowInv'
  BY <1>2, <1>3 DEF RowInv, TypeOK, SamePair
<1>8. OnlyMembersAct' /\ OneMembershipEach' /\ OwnedByCreator'
  BY DEF OnlyMembersAct, OneMembershipEach, OwnedByCreator, TypeOK
<1>9. QED
  BY <1>4, <1>5, <1>6, <1>7, <1>8

(* A committed row is alone with its pair, and its tenant has its creator  *)
(* as owner.                                                               *)
LEMMA CommitInv ==
    ASSUME Inv, NEW r \in Requests, Commit(r)
    PROVE  Inv'
<1> USE DEF Inv, Commit
<1>0. /\ InTransaction(r, "own") /\ Gone(r, "own") /\ "own" \in Parts
      /\ waiting[r] = {} /\ \A p \in Periods : ~InTransaction(r, p)
  BY EndIsGone DEF CallInv, Call, Parts
<1>1. CASE row[r] = Null
  <2>1. UNCHANGED members
    BY <1>1
  <2>2. QED
    BY <1>0, <1>1, <2>1, ReplyInv
<1>2. CASE row[r] # Null
  <2> DEFINE n == row[r]
  <2>1. /\ n \in Membership /\ n.tenant = tenant[r]
        /\ n = NewMember(r) /\ Inserts(r)
        /\ members' = members \cup {n}
    BY <1>2 DEF CallInv, Call, TypeOK, NewMember
  <2>2. \A m \in members : ~SamePair(m, n)
    BY <1>2 DEF RowInv
  <2>3. \A o \in Requests \ {r} : row[o] # Null => ~SamePair(row[o], n) /\ ~SamePair(n, row[o])
    BY <1>2 DEF RowInv
  <2>4. \A o \in Requests : o # r => Scope(o)' = Scope(o)
    BY DEF Scope, TypeOK, Reply
  <2>5. \A o \in Requests, j \in Parts :
          <<o, j>> # <<r, "own">> /\ InTransaction(o, j) => Scope(o)' = Scope(o)
    BY <1>0, <2>4 DEF Parts
  <2>6. /\ conn' \in [Requests -> [Parts -> Connections \cup {Null}]]
        /\ setting' \in [Connections -> Settings]
        /\ \A o \in Requests, j \in Parts :
             conn'[o][j] = IF o = r /\ j = "own" THEN Null ELSE conn[o][j]
        /\ HolderInv' /\ ScopeInv'
    BY <1>0, <2>5, GoneInv
  <2>7. TypeOK'
    BY <2>1, <2>6 DEF TypeOK, Settings, Reply, Goto
  <2>8. CallInv'
    <3>1. \A d \in Requests \ {r} : Call(d)'
      BY <2>6, CallKept DEF CallInv, TypeOK, Reply, Goto
    <3>2. /\ pc'[r] = "idle" /\ asked'[r] = Null /\ row'[r] = Null /\ waiting'[r] = {}
          /\ \A j \in Parts : ~InTransaction(r, j)'
      BY <1>0, <2>6 DEF TypeOK, InTransaction, Reply, Goto, Parts
    <3>3. Call(r)'
      BY <3>2 DEF Call, Parts
    <3>4. QED
      BY <3>1, <3>3 DEF CallInv
  <2>9. RowInv'
    BY <2>1, <2>3 DEF RowInv, TypeOK, Reply, Goto
  <2>10. OnlyMembersAct'
    BY <2>1 DEF OnlyMembersAct, TypeOK, Reply, Goto
  <2>11. OneMembershipEach'
    BY <2>1, <2>2 DEF OneMembershipEach, SamePair
  <2>12. OwnedByCreator'
    <3>1. CASE asked[r].op = "createTenant"
      <4>1. n = [tenant |-> n.tenant, user |-> creator[n.tenant], role |-> "owner"]
        BY <1>2, <2>1, <3>1 DEF NewMember, CallInv, Call, Inserts
      <4>2. n.role = "owner" /\ n.user = creator[n.tenant]
        BY <4>1
      <4>3. QED
        BY <2>1, <4>1, <4>2 DEF OwnedByCreator
    <3>2. CASE asked[r].op = "addMembership"
      <4>1. \E m \in members : m.tenant = n.tenant
        BY <2>1, <3>2 DEF OnlyMembersAct, GuardedOps
      <4>2. [tenant |-> n.tenant, user |-> creator[n.tenant], role |-> "owner"] \in members
        BY <4>1 DEF OwnedByCreator
      <4>3. asked[r].role \in Assignable /\ n.role = asked[r].role
        BY <1>2, <2>1, <3>2 DEF NewMember, TypeOK, CallInv, Call, Ask, GuardedOps
      <4>4. QED
        BY <2>1, <4>2, <4>3 DEF OwnedByCreator, Assignable
    <3>3. QED
      BY <2>1, <3>1, <3>2 DEF Inserts
  <2>13. QED
    BY <2>6, <2>7, <2>8, <2>9, <2>10, <2>11, <2>12
<1>3. QED
  BY <1>1, <1>2

LEMMA NextInv == Inv /\ [Next]_vars => Inv'
<1> SUFFICES ASSUME Inv, [Next]_vars PROVE Inv'
  OBVIOUS
<1>1. ASSUME NEW r \in Requests, GuardBegin(r)
      PROVE  Inv'
  <2>1. asked[r].op # "listMine"
    BY <1>1 DEF GuardBegin, Inv, CallInv, Call, GuardedOps
  <2>2. QED
    BY <1>1, <2>1, BeginInv DEF GuardBegin
<1>2. ASSUME NEW r \in Requests, pc[r] \notin {"idle", "reads"}
      PROVE  waiting[r] = {} /\ \A p \in Periods : ~InTransaction(r, p)
  BY <1>2 DEF Inv, CallInv, Call
<1>3. ASSUME NEW r \in Requests, pc[r] \in {"lookup", "work"}, End(r, "own"), Reply(r),
             UNCHANGED <<creator, members>>
      PROVE  Inv'
  <2>1. InTransaction(r, "own") /\ "own" \in Parts
    BY <1>3 DEF Inv, CallInv, Call, Parts
  <2>2. Gone(r, "own")
    BY <1>3, <2>1, EndIsGone
  <2>3. QED
    BY <1>2, <1>3, <2>1, <2>2, ReplyInv
<1>4. ASSUME NEW r \in Requests, GuardLookup(r)
      PROVE  Inv'
  <2>1. CASE MayEnter(r)
    BY <1>4, <2>1, GuardPassInv DEF GuardLookup
  <2>2. CASE ~MayEnter(r)
    BY <1>3, <1>4, <2>2 DEF GuardLookup
  <2>3. QED
    BY <2>1, <2>2
<1>5. ASSUME NEW r \in Requests, HandlerBegin(r)
      PROVE  Inv'
  BY <1>5, BeginInv DEF HandlerBegin
<1>6. ASSUME NEW r \in Requests, UnknownUser(r) \/ InsertConflict(r)
      PROVE  Inv'
  BY <1>3, <1>6 DEF UnknownUser, InsertConflict
<1>7. ASSUME NEW r \in Requests, Fail(r)
      PROVE  Inv'
  <2>1. IF InTransaction(r, "own") THEN Gone(r, "own") ELSE UNCHANGED <<conn, setting>>
    BY <1>7, EndIsGone DEF Fail, Parts
  <2>2. QED
    BY <1>2, <1>7, <2>1, ReplyInv DEF Fail
<1>8. ASSUME NEW r \in Requests, ReadsOver(r)
      PROVE  Inv'
  <2>1. ~InTransaction(r, "own")
    BY <1>8 DEF ReadsOver, Inv, CallInv, Call
  <2>2. QED
    BY <1>8, <2>1, ReplyInv DEF ReadsOver
<1>9. ASSUME NEW r \in Requests, NEW p \in Periods, ReadEnd(r, p) \/ ReadFail(r, p)
      PROVE  Inv'
  <2>1. CASE /\ InTransaction(r, p) /\ (End(r, p) \/ Lose(r, p))
             /\ UNCHANGED <<creator, members, request>>
    BY <2>1, ReadGoneInv
  <2>2. CASE ReadFail(r, p) /\ p \in waiting[r] /\ waiting' = [waiting EXCEPT ![r] = @ \ {p}]
             /\ UNCHANGED <<setting, conn>>
    BY <2>2, ReadGivesUpInv DEF ReadFail
  <2>3. QED
    BY <1>9, <2>1, <2>2 DEF ReadEnd, ReadFail, request
<1>10. CASE UNCHANGED vars
  <2>1. UNCHANGED <<creator, members, setting, conn, asked, pc, tenant, row, waiting>>
    BY <1>10 DEF vars, request
  <2>2. TypeOK' /\ CallInv'
    BY <2>1 DEF Inv, TypeOK, CallInv, Call, InTransaction, NewMember, Inserts
  <2>3. HolderInv' /\ ScopeInv' /\ RowInv'
    BY <2>1 DEF Inv, HolderInv, ScopeInv, Scope, RowInv, InTransaction
  <2>4. OnlyMembersAct' /\ OneMembershipEach' /\ OwnedByCreator'
    BY <2>1 DEF Inv, OnlyMembersAct, OneMembershipEach, OwnedByCreator
  <2>5. QED
    BY <2>2, <2>3, <2>4 DEF Inv
<1>11. QED
  BY <1>1, <1>4, <1>5, <1>6, <1>7, <1>8, <1>9, <1>10, ReceiveInv, InsertTenantInv, QueryInv,
     InsertMemberInv, CommitInv, DashboardInv, ReadBeginInv
  DEF Next

LEMMA InvIsolates == Inv => PoliciesIsolate
<1> SUFFICES ASSUME Inv, NEW r \in Requests, NEW k \in Parts, InTransaction(r, k)
             PROVE  /\ Castable(conn[r][k])
                    /\ IF asked[r].op = "listMine"
                       THEN /\ VisibleTenants(conn[r][k]) = {}
                            /\ VisibleMembers(conn[r][k]) = {m \in members : m.user = asked[r].user}
                       ELSE /\ VisibleTenants(conn[r][k]) = {tenant[r]}
                            /\ VisibleMembers(conn[r][k]) = {m \in members : m.tenant = tenant[r]}
  BY DEF PoliciesIsolate
<1>1. /\ asked[r] \in Ask /\ asked[r].user \in Users
      /\ asked[r].op # "listMine" => tenant[r] \in Tenants
  <2>1. pc[r] \notin {"idle", "tenant"} /\ asked[r] # Null /\ asked[r] \in Ask
    BY DEF Inv, CallInv, Call, TypeOK, Parts
  <2>2. QED
    BY <2>1 DEF Inv, CallInv, Call, TypeOK, Ask, GuardedOps
<1>2. /\ Nil # Empty
      /\ \A u \in Users \cup Tenants : u # Nil /\ u # Empty
  BY IdsAreNotSettings DEF Nil, Empty, Unset
<1>3. \A m \in members : m.tenant \in Tenants /\ m.user \in Users
  BY DEF Inv, TypeOK, Membership
<1>4. setting[conn[r][k]] = IF asked[r].op = "listMine"
                            THEN [tenant |-> Nil, user |-> asked[r].user]
                            ELSE [tenant |-> tenant[r], user |-> Nil]
  BY DEF Inv, ScopeInv, Scope
<1>5. QED
  BY <1>1, <1>2, <1>3, <1>4
  DEF Castable, VisibleTenants, VisibleMembers, TenantIsolation, OwnMemberships

(* Who waits in the index for a row waits for a transaction about to       *)
(* commit.                                                                 *)
LEMMA InvDrains == Inv => PoolDrains
<1> SUFFICES ASSUME Inv, NEW r \in Requests, NEW k \in Parts, InTransaction(r, k), ~GoesOn(r)
             PROVE  \E o \in Requests \ {r} :
                      row[o] # Null /\ SamePair(row[o], NewMember(r)) /\ GoesOn(o)
  BY DEF PoolDrains
<1>1. pc[r] \in {"lookup", "work", "commit", "reads"}
  BY DEF Inv, CallInv, Call, Parts
<1>2. Inserts(r) /\ Contended(r)
  BY <1>1 DEF GoesOn
<1>3. PICK o \in Requests \ {r} : row[o] # Null /\ SamePair(row[o], NewMember(r))
  BY <1>2 DEF Contended
<1>4. GoesOn(o)
  BY <1>3 DEF Inv, CallInv, Call, GoesOn
<1>5. QED
  BY <1>3, <1>4

-----------------------------------------------------------------------------
(* Inv holds in every state the service can reach.                         *)
THEOREM Invariance == Spec => []Inv
BY InitInv, NextInv, PTL DEF Spec

(* The policies show every statement exactly the rows of its scope, on     *)
(* connections that have served any others before.                         *)
THEOREM Isolation == Spec => []PoliciesIsolate
BY Invariance, InvIsolates, PTL

(* A handler runs only for a member with one of the roles of its route.    *)
THEOREM MembersOnly == Spec => []OnlyMembersAct
BY Invariance, PTL DEF Inv

(* Requests that add one user at once leave that user one role.            *)
THEOREM SingleMembership == Spec => []OneMembershipEach
BY Invariance, PTL DEF Inv

(* A tenant's only owner is its creator.                                   *)
THEOREM CreatorOwns == Spec => []OwnedByCreator
BY Invariance, PTL DEF Inv

(* Whoever holds a connection can go on without another one, or waits for  *)
(* somebody who can.                                                       *)
THEOREM NoPoolDeadlock == Spec => []PoolDrains
BY Invariance, InvDrains, PTL
=============================================================================
