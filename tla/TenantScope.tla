----------------------------- MODULE TenantScope -----------------------------
(***************************************************************************)
(* Who may touch which restaurant's rows: PrismaService.withTenant and     *)
(* withUser on a pool of Postgres connections, the row-level policies that *)
(* read the settings those helpers make, TenantMembershipGuard in front of *)
(* the handlers, and TenantsService, which makes the memberships the guard *)
(* looks up.  Every request has one transaction at a time, except for the  *)
(* dashboard, whose three reads ask the pool for a connection each.        *)
(*                                                                         *)
(* A setting made inside a transaction is gone when it ends, but leaves an *)
(* empty string behind on the connection, and casting that to uuid fails.  *)
(***************************************************************************)
EXTENDS Naturals

CONSTANTS
    Requests,     \* requests that may be in progress at once
    Tenants,      \* ids the database gives to new tenants
    Users,        \* registered users
    Connections,  \* the pool
    Null

Nil == "nil"      \* NIL_UUID
Empty == "empty"  \* what a setting is after the transaction that made it
Unset == "unset"  \* what it is on a new connection

ASSUME NullIsFresh == Null \notin Users \cup Tenants \cup Connections
ASSUME IdsAreNotSettings == {Nil, Empty, Unset} \cap (Tenants \cup Users) = {}

VARIABLES
    creator,  \* who created each tenant, Null while it does not exist
    members,  \* the committed tenant_membership rows
    setting,  \* app.current_tenant_id and app.current_user_id of each connection
    asked,    \* what each request asks
    pc,       \* where it is
    conn,     \* the connection each of its transactions holds, or Null
    waiting,  \* the dashboard's reads that wait for a connection
    tenant,   \* the tenant its transactions are scoped to, or Null
    row       \* the tenant_membership row it has inserted but not committed, or Null

request == <<asked, pc, tenant, row, waiting>>
vars == <<creator, members, setting, conn, request>>

Roles == {"owner", "accountant", "staff", "firm_admin"}

(* Mutant: owners may be added.                                            *)
AssignableAll == {"owner", "accountant", "staff"}
Assignable == {"accountant", "staff"}

Membership == [tenant : Tenants, user : Users, role : Roles]
ASSUME NullIsNoMembership == Null \notin Membership

(* The dashboard's reads, and the transactions a request may have open:    *)
(* one of its own, the guard's or the handler's, or those reads.           *)
Periods == {"today", "week", "month"}
Parts == {"own"} \cup Periods

(* The routes behind the guard and the roles they ask for with @Roles.     *)
GuardedOps == {"addMembership", "postEntry", "manage", "dashboard"}
Required(op) ==
    CASE op = "addMembership" -> {"owner"}
      [] op = "postEntry" -> {"owner", "accountant", "staff"}
      [] op \in {"manage", "dashboard"} -> {"owner", "accountant"}

(* createTenant and listMine need a user only; an addMembership request    *)
(* names a user, or an email without an account.                           *)
Ask ==
    [op : {"createTenant", "listMine"}, user : Users]
    \cup [op : GuardedOps \ {"addMembership"}, user : Users, tenant : Tenants]
    \cup [op : {"addMembership"}, user : Users, tenant : Tenants,
          target : Users \cup {Null}, role : Assignable]
ASSUME NullIsNoAsk == Null \notin Ask

-----------------------------------------------------------------------------
(* Policies.                                                               *)

(* tenant_isolation on tenant_membership, ledger_entry, audit_log_entry    *)
(* and integration_connection.                                             *)
TenantIsolation(c, t) == setting[c].tenant = t

(* own_memberships, on tenant_membership only.                             *)
OwnMemberships(c, u) == setting[c].user = u

VisibleTenants(c) == {t \in Tenants : TenantIsolation(c, t)}
VisibleMembers(c) ==
    {m \in members : TenantIsolation(c, m.tenant) \/ OwnMemberships(c, m.user)}

(* The policies cast both settings; a statement fails on an empty string.  *)
Castable(c) == setting[c].tenant # Empty /\ setting[c].user # Empty

-----------------------------------------------------------------------------
(* Transactions.                                                           *)

InTransaction(r, k) == conn[r][k] # Null

Free(c) == \A r \in Requests, k \in Parts : conn[r][k] # c

(* A connection of the pool, with both settings made first thing.          *)
Begin(r, k, t, u) ==
    \E c \in Connections :
        /\ Free(c)
        /\ conn' = [conn EXCEPT ![r][k] = c]
        /\ setting' = [setting EXCEPT ![c] = [tenant |-> t, user |-> u]]

(* Mutant: the other setting stays what it was.                            *)
WithTenantOnly(r, k, t) ==
    \E c \in Connections :
        /\ Free(c)
        /\ conn' = [conn EXCEPT ![r][k] = c]
        /\ setting' = [setting EXCEPT ![c].tenant = t]

WithTenant(r, k, t) == Begin(r, k, t, Nil)
WithUser(r, k, u) == Begin(r, k, Nil, u)

(* Commit or rollback: the connection goes back to the pool.               *)
End(r, k) ==
    /\ conn' = [conn EXCEPT ![r][k] = Null]
    /\ setting' = [setting EXCEPT ![conn[r][k]] = [tenant |-> Empty, user |-> Empty]]

(* The connection is lost, and replaced by a new one.                      *)
Lose(r, k) ==
    /\ conn' = [conn EXCEPT ![r][k] = Null]
    /\ setting' = [setting EXCEPT ![conn[r][k]] = [tenant |-> Unset, user |-> Unset]]

Goto(r, l) == pc' = [pc EXCEPT ![r] = l]

(* The request is answered, and nothing of it is left.                     *)
Reply(r) ==
    /\ Goto(r, "idle")
    /\ asked' = [asked EXCEPT ![r] = Null]
    /\ tenant' = [tenant EXCEPT ![r] = Null]
    /\ row' = [row EXCEPT ![r] = Null]
    /\ UNCHANGED waiting

-----------------------------------------------------------------------------
Init ==
    /\ creator = [t \in Tenants |-> Null]
    /\ members = {}
    /\ setting = [c \in Connections |-> [tenant |-> Unset, user |-> Unset]]
    /\ asked = [r \in Requests |-> Null]
    /\ pc = [r \in Requests |-> "idle"]
    /\ conn = [r \in Requests |-> [k \in Parts |-> Null]]
    /\ waiting = [r \in Requests |-> {}]
    /\ tenant = [r \in Requests |-> Null]
    /\ row = [r \in Requests |-> Null]

(* An authenticated request comes in and meets the guard if its route has  *)
(* one.                                                                    *)
Receive(r) ==
    /\ pc[r] = "idle"
    /\ \E q \in Ask :
         /\ asked' = [asked EXCEPT ![r] = q]
         /\ Goto(r, CASE q.op = "createTenant" -> "tenant"
                      [] q.op = "listMine" -> "begin"
                      [] OTHER -> "guard")
         /\ tenant' = [tenant EXCEPT ![r] = IF q.op \in GuardedOps THEN q.tenant ELSE Null]
    /\ UNCHANGED <<creator, members, setting, conn, row, waiting>>

(* tenant.create: one statement on a connection of its own, no policy.     *)
InsertTenant(r) ==
    /\ pc[r] = "tenant"
    /\ \E c \in Connections : Free(c)
    /\ \E t \in Tenants :
         /\ creator[t] = Null
         /\ creator' = [creator EXCEPT ![t] = asked[r].user]
         /\ tenant' = [tenant EXCEPT ![r] = t]
    /\ Goto(r, "begin")
    /\ UNCHANGED <<members, setting, conn, asked, row, waiting>>

(* The guard opens a transaction ...                                       *)
GuardBegin(r) ==
    /\ pc[r] = "guard"
    /\ WithTenant(r, "own", tenant[r])
    /\ Goto(r, "lookup")
    /\ UNCHANGED <<creator, members, asked, tenant, row, waiting>>

MayEnter(r) ==
    \E m \in VisibleMembers(conn[r]["own"]) :
        /\ m.tenant = tenant[r] /\ m.user = asked[r].user
        /\ m.role \in Required(asked[r].op)

(* Mutants: any member may enter whatever the role; the handler runs       *)
(* inside the guard's transaction and opens its own there.                 *)
GuardLookupAnyRole(r) ==
    /\ pc[r] = "lookup"
    /\ End(r, "own")
    /\ IF \E m \in VisibleMembers(conn[r]["own"]) :
             m.tenant = tenant[r] /\ m.user = asked[r].user
       THEN Goto(r, "begin") /\ UNCHANGED <<asked, tenant, row, waiting>>
       ELSE Reply(r)
    /\ UNCHANGED <<creator, members>>

GuardLookupNested(r) ==
    /\ pc[r] = "lookup"
    /\ IF MayEnter(r)
       THEN Goto(r, "begin") /\ UNCHANGED <<setting, conn, asked, tenant, row, waiting>>
       ELSE End(r, "own") /\ Reply(r)
    /\ UNCHANGED <<creator, members>>

(* ... looks the membership up, ends the transaction, and lets the handler *)
(* go on or answers 403.                                                   *)
GuardLookup(r) ==
    /\ pc[r] = "lookup"
    /\ End(r, "own")
    /\ IF MayEnter(r)
       THEN Goto(r, "begin") /\ UNCHANGED <<asked, tenant, row, waiting>>
       ELSE Reply(r)
    /\ UNCHANGED <<creator, members>>

(* The handler's own transaction.                                          *)
HandlerBegin(r) ==
    /\ pc[r] = "begin" /\ asked[r].op # "dashboard"
    /\ IF asked[r].op = "listMine" THEN WithUser(r, "own", asked[r].user)
                                   ELSE WithTenant(r, "own", tenant[r])
    /\ Goto(r, "work")
    /\ UNCHANGED <<creator, members, asked, tenant, row, waiting>>

(* getDashboardSummary: Promise.all asks for three transactions at once.   *)
Dashboard(r) ==
    /\ pc[r] = "begin" /\ asked[r].op = "dashboard"
    /\ Goto(r, "reads")
    /\ waiting' = [waiting EXCEPT ![r] = Periods]
    /\ UNCHANGED <<creator, members, setting, conn, asked, tenant, row>>

(* Each gets its connection by itself, reads and ends by itself ...        *)
ReadBegin(r, p) ==
    /\ p \in waiting[r]
    /\ WithTenant(r, p, tenant[r])
    /\ waiting' = [waiting EXCEPT ![r] = @ \ {p}]
    /\ UNCHANGED <<creator, members, asked, pc, tenant, row>>

ReadEnd(r, p) ==
    /\ InTransaction(r, p)
    /\ End(r, p)
    /\ UNCHANGED <<creator, members, request>>

(* ... or fails; the others go on, although the answer is then sent.       *)
ReadFail(r, p) ==
    /\ \/ /\ p \in waiting[r]
          /\ waiting' = [waiting EXCEPT ![r] = @ \ {p}]
          /\ UNCHANGED <<setting, conn>>
       \/ InTransaction(r, p) /\ Lose(r, p) /\ UNCHANGED waiting
    /\ UNCHANGED <<creator, members, asked, pc, tenant, row>>

(* Nothing is left of the three.                                           *)
ReadsOver(r) ==
    /\ pc[r] = "reads" /\ waiting[r] = {}
    /\ \A p \in Periods : ~InTransaction(r, p)
    /\ Reply(r)
    /\ UNCHANGED <<creator, members, setting, conn>>

(* Statements of the other handlers, and listMyTenants: whatever they read *)
(* or write is narrowed by the policies.                                   *)
Query(r) ==
    /\ pc[r] = "work" /\ asked[r].op \notin {"createTenant", "addMembership"}
    /\ Goto(r, "commit")
    /\ UNCHANGED <<creator, members, setting, conn, asked, tenant, row, waiting>>

(* No account has the email: 404 and rollback.                             *)
UnknownUser(r) ==
    /\ pc[r] = "work" /\ asked[r].op = "addMembership" /\ asked[r].target = Null
    /\ End(r, "own")
    /\ Reply(r)
    /\ UNCHANGED <<creator, members>>

(* The membership a request makes.                                         *)
NewMember(r) ==
    IF asked[r].op = "createTenant"
    THEN [tenant |-> tenant[r], user |-> asked[r].user, role |-> "owner"]
    ELSE [tenant |-> tenant[r], user |-> asked[r].target, role |-> asked[r].role]

SamePair(m, n) == m.tenant = n.tenant /\ m.user = n.user

(* Mutant: no unique index on (tenant_id, user_id).                        *)
TakenNever(r) == FALSE

(* The unique index: a committed row has the pair; an open transaction has *)
(* inserted it and has to end first.                                       *)
Taken(r) == \E m \in members : SamePair(m, NewMember(r))
Contended(r) ==
    \E o \in Requests \ {r} : row[o] # Null /\ SamePair(row[o], NewMember(r))

Inserts(r) ==
    \/ asked[r].op = "createTenant"
    \/ asked[r].op = "addMembership" /\ asked[r].target # Null

InsertMember(r) ==
    /\ pc[r] = "work" /\ Inserts(r)
    /\ ~Contended(r) /\ ~Taken(r)
    /\ row' = [row EXCEPT ![r] = NewMember(r)]
    /\ Goto(r, "commit")
    /\ UNCHANGED <<creator, members, setting, conn, asked, tenant, waiting>>

(* P2002, caught by nobody.                                                *)
InsertConflict(r) ==
    /\ pc[r] = "work" /\ Inserts(r)
    /\ ~Contended(r) /\ Taken(r)
    /\ End(r, "own")
    /\ Reply(r)
    /\ UNCHANGED <<creator, members>>

(* Mutant: commits whatever there is.                                      *)
CommitNull(r) ==
    /\ pc[r] = "commit"
    /\ members' = members \cup {row[r]}
    /\ End(r, "own")
    /\ Reply(r)
    /\ UNCHANGED creator

Commit(r) ==
    /\ pc[r] = "commit"
    /\ members' = members \cup ({row[r]} \ {Null})
    /\ End(r, "own")
    /\ Reply(r)
    /\ UNCHANGED creator

(* No connection in time, a failed statement, a lost connection, the       *)
(* transaction timeout: the transaction is rolled back.                    *)
Fail(r) ==
    /\ pc[r] \notin {"idle", "reads"}
    /\ IF InTransaction(r, "own") THEN End(r, "own") \/ Lose(r, "own")
                                  ELSE UNCHANGED <<conn, setting>>
    /\ Reply(r)
    /\ UNCHANGED <<creator, members>>

-----------------------------------------------------------------------------
Next ==
    \E r \in Requests :
        \/ Receive(r) \/ InsertTenant(r) \/ GuardBegin(r) \/ GuardLookup(r)
        \/ HandlerBegin(r) \/ Query(r) \/ UnknownUser(r)
        \/ InsertMember(r) \/ InsertConflict(r) \/ Commit(r) \/ Fail(r)
        \/ Dashboard(r) \/ ReadsOver(r)
        \/ \E p \in Periods : ReadBegin(r, p) \/ ReadEnd(r, p) \/ ReadFail(r, p)

Spec == Init /\ [][Next]_vars

-----------------------------------------------------------------------------
TypeOK ==
    /\ creator \in [Tenants -> Users \cup {Null}]
    /\ members \subseteq Membership
    /\ setting \in [Connections -> [tenant : Tenants \cup {Nil, Empty, Unset},
                                    user : Users \cup {Nil, Empty, Unset}]]
    /\ asked \in [Requests -> Ask \cup {Null}]
    /\ pc \in [Requests -> {"idle", "tenant", "guard", "lookup", "begin", "work", "commit",
                            "reads"}]
    /\ conn \in [Requests -> [Parts -> Connections \cup {Null}]]
    /\ waiting \in [Requests -> SUBSET Periods]
    /\ tenant \in [Requests -> Tenants \cup {Null}]
    /\ row \in [Requests -> Membership \cup {Null}]

(* However connections are reused, a statement never fails on a leftover   *)
(* setting, and the policies show it exactly the rows of its scope: one    *)
(* tenant's rows to a handler of that tenant, also to the dashboard's      *)
(* three at once, one user's memberships and nothing else to               *)
(* listMyTenants.                                                          *)
PoliciesIsolate ==
    \A r \in Requests, k \in Parts : InTransaction(r, k) =>
        /\ Castable(conn[r][k])
        /\ IF asked[r].op = "listMine"
           THEN /\ VisibleTenants(conn[r][k]) = {}
                /\ VisibleMembers(conn[r][k]) = {m \in members : m.user = asked[r].user}
           ELSE /\ VisibleTenants(conn[r][k]) = {tenant[r]}
                /\ VisibleMembers(conn[r][k]) = {m \in members : m.tenant = tenant[r]}

(* What the guard found out in a transaction of its own still holds while  *)
(* the handler's transactions run: its user is a member with a role that   *)
(* the route asks for.                                                     *)
OnlyMembersAct ==
    \A r \in Requests :
        pc[r] \in {"begin", "work", "commit", "reads"} /\ asked[r].op \in GuardedOps =>
            \E m \in members :
                /\ m.tenant = tenant[r] /\ m.user = asked[r].user
                /\ m.role \in Required(asked[r].op)

(* A user has one role in a tenant, although an owner may add the same     *)
(* user twice at once.                                                     *)
OneMembershipEach ==
    \A m, n \in members : SamePair(m, n) => m = n

(* Membership spreads from the creator: whoever belongs to a tenant, its   *)
(* creator is its owner, and nobody else is.                               *)
OwnedByCreator ==
    \A m \in members :
        /\ [tenant |-> m.tenant, user |-> creator[m.tenant], role |-> "owner"] \in members
        /\ m.role = "owner" => m.user = creator[m.tenant]

(* The next step of what r has open needs no other connection and waits    *)
(* for no other transaction.                                               *)
GoesOn(r) ==
    \/ pc[r] \in {"lookup", "commit", "reads"}
    \/ pc[r] = "work" /\ ~(Inserts(r) /\ Contended(r))

(* The pool never runs dry for good.  Dashboards hold connections while    *)
(* they wait for more, and an insert holds one while it waits in the       *)
(* unique index; but whoever holds a connection can go on to give it back, *)
(* or waits for somebody who can.                                          *)
PoolDrains ==
    \A r \in Requests, k \in Parts : InTransaction(r, k) =>
        \/ GoesOn(r)
        \/ \E o \in Requests \ {r} :
              row[o] # Null /\ SamePair(row[o], NewMember(r)) /\ GoesOn(o)

-----------------------------------------------------------------------------
(* The inductive invariant, part by part.                                  *)

(* What a request at each step has: a connection, a tenant, a row.         *)
Call(r) ==
    /\ pc[r] = "idle" <=> asked[r] = Null
    /\ InTransaction(r, "own") <=> pc[r] \in {"lookup", "work", "commit"}
    /\ pc[r] = "tenant" => asked[r].op = "createTenant"
    /\ pc[r] \in {"guard", "lookup"} => asked[r].op \in GuardedOps
    /\ pc[r] = "reads" => asked[r].op = "dashboard"
    /\ pc[r] # "reads" => waiting[r] = {} /\ \A p \in Periods : ~InTransaction(r, p)
    /\ asked[r] # Null /\ asked[r].op \in GuardedOps => tenant[r] = asked[r].tenant
    /\ asked[r] # Null /\ asked[r].op = "createTenant" /\ pc[r] # "tenant" =>
         tenant[r] # Null /\ creator[tenant[r]] = asked[r].user
    /\ row[r] # Null => pc[r] = "commit" /\ Inserts(r) /\ row[r] = NewMember(r)

CallInv == \A r \in Requests : Call(r)

(* No two transactions have one connection.                                *)
HolderInv ==
    \A r, o \in Requests, k, j \in Parts :
        InTransaction(r, k) /\ <<r, k>> # <<o, j>> => conn[o][j] # conn[r][k]

(* The settings of a connection in use are those of its transaction.       *)
Scope(r) ==
    IF asked[r].op = "listMine" THEN [tenant |-> Nil, user |-> asked[r].user]
                                ELSE [tenant |-> tenant[r], user |-> Nil]

ScopeInv ==
    \A r \in Requests, k \in Parts : InTransaction(r, k) => setting[conn[r][k]] = Scope(r)

(* An uncommitted membership is the only one of its pair.                  *)
RowInv ==
    \A r \in Requests : row[r] # Null =>
        /\ \A m \in members : ~SamePair(m, row[r])
        /\ \A o \in Requests \ {r} : row[o] # Null => ~SamePair(row[o], row[r])

Inv ==
    /\ TypeOK /\ CallInv /\ HolderInv /\ ScopeInv /\ RowInv
    /\ OnlyMembersAct /\ OneMembershipEach /\ OwnedByCreator

=============================================================================
