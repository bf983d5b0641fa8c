------------------------------ MODULE Session ------------------------------
(***************************************************************************)
(* AuthProvider, of the web client and of the mobile client: restoring a   *)
(* session when the client is opened, signing in, signing out, and the     *)
(* handler that signs out when any request is answered 401.  The two       *)
(* differ in where the refresh token is kept: localStorage is synchronous, *)
(* secure storage is awaited.  Every await is a point where other flows    *)
(* run, and what a flow does next it does to the session it then finds.    *)
(***************************************************************************)
EXTENDS Naturals

CONSTANTS
    Users,       \* accounts
    Tenants,     \* restaurants
    Memberships, \* the restaurants of each account to begin with
    Flows,       \* bounds the asynchronous functions in progress at once
    MaxReopens,  \* bounds how often the client is closed and opened again
    Null

ASSUME NullIsFresh == Null \notin Users \cup Tenants \cup Flows
ASSUME MembershipsOfUsers == Memberships \in [Users -> SUBSET Tenants]
ASSUME MaxReopensIsNat == MaxReopens \in Nat
ASSUME SomeFlow == Flows # {}

VARIABLES
    platform,  \* which client this is
    mine,      \* the server's: the restaurants of each account
    token,     \* whose access token the client holds in memory, or Null
    stored,    \* whose refresh token is in storage, or Null
    ready, authed, tenants, selected,  \* the state of AuthProvider
    flow,      \* the asynchronous functions in progress
    form,      \* the flow that disables the button of the form on screen, or Null
    reopens,   \* reopenings left
    mixed      \* an answer was applied to a session that had not asked for it,
               \* or over a newer one, since the client was opened

session == <<token, stored, ready, authed, tenants, selected>>
vars == <<platform, mine, session, flow, form, reopens, mixed>>

(* Where a flow is: what it awaits.                                        *)
Awaits == {"load", "tokens", "save", "tenants", "remove", "create", "made", "call"}

Flow(kind, at, who) ==
    [kind |-> kind, at |-> at, who |-> who, bearer |-> Null, list |-> {}, served |-> FALSE]

At(f, s) == flow[f] # Null /\ flow[f].at = s
Kind(f, k) == flow[f] # Null /\ flow[f].kind = k
Is(p) == platform = p

(* The redirects of the root page, the login page and the app layout, and  *)
(* the branch of the layout that offers to create a restaurant.            *)
WebScreen(r, a, ts) == IF ~(r /\ a) THEN "login" ELSE IF ts = {} THEN "no tenant" ELSE "app"

(* The same of the mobile client, which waits for the restore first.       *)
MobileScreen(r, a) == IF ~r THEN "spinner" ELSE IF ~a THEN "login" ELSE "app"

ScreenOf(r, a, ts) == IF Is("web") THEN WebScreen(r, a, ts) ELSE MobileScreen(r, a)
Screen == ScreenOf(ready, authed, tenants)

(* A form is enabled again when its flow ends; one that is mounted anew    *)
(* starts enabled.  F is the set of flows that have ended.                 *)
EnableForm(F) ==
    form' = IF form \in F \/ ScreenOf(ready', authed', tenants') # Screen THEN Null ELSE form

Set(f, r) == flow' = [flow EXCEPT ![f] = r]

-----------------------------------------------------------------------------
(* Opening the client.                                                     *)

(* What the effect that restores a session starts with.                    *)
WebRestore(s) == IF s = Null THEN Null ELSE Flow("restore", "tokens", s)
MobileRestore == Flow("restore", "load", Null)

FirstFlow == CHOOSE f \in Flows : TRUE
Restoring(s) ==
    [f \in Flows |-> IF f # FirstFlow THEN Null
                     ELSE IF Is("web") THEN WebRestore(s) ELSE MobileRestore]

Init ==
    /\ platform \in {"web", "mobile"}
    /\ mine = Memberships
    /\ stored \in Users \cup {Null}
    /\ token = Null /\ tenants = {} /\ selected = Null /\ form = Null
    /\ authed = FALSE
    /\ ready = (Is("web") /\ stored = Null)
    /\ flow = Restoring(stored)
    /\ reopens = MaxReopens
    /\ mixed = FALSE

(* The page is reloaded, or the app is killed and started again: memory is *)
(* lost, and an awaited write to storage has happened or has not.          *)
Reopen ==
    /\ reopens > 0
    /\ reopens' = reopens - 1
    /\ \E s \in {stored} \cup {Null : f \in {g \in Flows : At(g, "remove")}}
                         \cup {flow[f].who : f \in {g \in Flows : At(g, "save")}} :
         /\ stored' = s
         /\ ready' = (Is("web") /\ s = Null)
         /\ flow' = Restoring(s)
    /\ token' = Null /\ tenants' = {} /\ selected' = Null /\ form' = Null
    /\ authed' = FALSE
    /\ mixed' = FALSE
    /\ UNCHANGED <<platform, mine>>

(* getItem resolves.                                                       *)
Load(f) ==
    /\ At(f, "load")
    /\ ready' = (stored = Null)
    /\ Set(f, IF stored = Null THEN Null ELSE Flow("restore", "tokens", stored))
    /\ UNCHANGED <<token, stored, authed, tenants, selected>>
    /\ EnableForm({})
    /\ UNCHANGED <<platform, mine, reopens, mixed>>

-----------------------------------------------------------------------------
(* Signing in.                                                             *)

(* login and register; the account is the one the server will give tokens  *)
(* for.                                                                    *)
SignIn(f) ==
    /\ flow[f] = Null
    /\ \E u \in Users : Set(f, Flow("sign in", "tokens", u))
    /\ form' = f
    /\ UNCHANGED <<platform, mine, session, reopens, mixed>>

(* Submit on the web client's login page, which does not wait until the    *)
(* restore is over, and on the mobile client's login screen.               *)
LoginPage(f) == Is("web") /\ ~(ready /\ authed) /\ form = Null /\ SignIn(f)
LoginScreen(f) == Is("mobile") /\ ready /\ ~authed /\ form = Null /\ SignIn(f)

(* The session this flow found was another account's.                      *)
Replaces(f) == token \notin {Null, flow[f].who}

Mixes(b) == mixed' = (mixed \/ b)

AskTenants(f, bearer) ==
    Set(f, [flow[f] EXCEPT !.at = "tenants", !.bearer = bearer, !.list = {}, !.served = FALSE])

(* establishSession, up to the request of refreshTenants; the mobile one   *)
(* awaits storage before the client counts as signed in, and its request   *)
(* carries whatever token there is by then.                                *)
WebEstablish(f) ==
    /\ Is("web") /\ At(f, "tokens")
    /\ token' = flow[f].who
    /\ stored' = flow[f].who
    /\ authed' = TRUE
    /\ AskTenants(f, flow[f].who)
    /\ Mixes(Replaces(f))
    /\ UNCHANGED <<ready, tenants, selected>>
    /\ EnableForm({})
    /\ UNCHANGED <<platform, mine, reopens>>

MobileEstablish(f) ==
    /\ Is("mobile") /\ At(f, "tokens")
    /\ token' = flow[f].who
    /\ Set(f, [flow[f] EXCEPT !.at = "save"])
    /\ Mixes(Replaces(f))
    /\ UNCHANGED <<platform, mine, stored, ready, authed, tenants, selected, form, reopens>>

MobileSaved(f) ==
    /\ At(f, "save")
    /\ stored' = flow[f].who
    /\ authed' = TRUE
    /\ AskTenants(f, token)
    /\ Mixes(token # flow[f].who)
    /\ UNCHANGED <<token, ready, tenants, selected>>
    /\ EnableForm({})
    /\ UNCHANGED <<platform, mine, reopens>>

(* GET /tenants/mine: the server reads ...                                 *)
ServeTenants(f) ==
    /\ At(f, "tenants") /\ ~flow[f].served /\ flow[f].bearer # Null
    /\ Set(f, [flow[f] EXCEPT !.list = mine[flow[f].bearer], !.served = TRUE])
    /\ UNCHANGED <<platform, mine, session, form, reopens, mixed>>

(* Mutants: nothing is selected unless something was; the id selected is   *)
(* the membership's.                                                       *)
SelectionKept(list) == {selected}
SelectionOfMembership(list) ==
    IF selected # Null THEN {selected} ELSE IF list = {} THEN {Null} ELSE {<<"member", t>> : t \in list}

(* current ?? memberships[0]?.tenant.id ?? null, the list being in no      *)
(* particular order.                                                       *)
Selection(list) ==
    IF selected # Null THEN {selected} ELSE IF list = {} THEN {Null} ELSE list

(* ... and the answer arrives.                                             *)
RefreshTenants(f) ==
    /\ At(f, "tenants") /\ flow[f].served
    /\ tenants' = flow[f].list
    /\ selected' \in Selection(flow[f].list)
    /\ ready' = (ready \/ Kind(f, "restore"))
    /\ Mixes(token # flow[f].bearer \/ ~(tenants \subseteq flow[f].list))
    /\ UNCHANGED <<token, stored, authed>>
    /\ EnableForm({f})
    /\ Set(f, Null)
    /\ UNCHANGED <<platform, mine, reopens>>

-----------------------------------------------------------------------------
(* Signing out.                                                            *)

(* Mutants: the restaurants stay; the refresh token stays.                 *)
WebLogoutKeepsTenants ==
    token' = Null /\ stored' = Null /\ authed' = FALSE /\ UNCHANGED <<tenants, selected>>
WebLogoutKeepsStored ==
    token' = Null /\ authed' = FALSE /\ tenants' = {} /\ selected' = Null /\ UNCHANGED stored

WebLogout ==
    token' = Null /\ stored' = Null /\ authed' = FALSE /\ tenants' = {} /\ selected' = Null

(* Until storage answers, only the access token is gone.                   *)
MobileLogout == token' = Null /\ UNCHANGED <<stored, authed, tenants, selected>>

(* A logout that nobody awaits, in the place of f.                         *)
Removing == Flow("sign out", "remove", Null)

MobileRemoved(f) ==
    /\ At(f, "remove")
    /\ stored' = Null
    /\ authed' = FALSE
    /\ tenants' = {}
    /\ selected' = Null
    /\ ready' = (ready \/ Kind(f, "restore"))
    /\ Mixes(token # Null)
    /\ UNCHANGED token
    /\ EnableForm({f})
    /\ Set(f, Null)
    /\ UNCHANGED <<platform, mine, reopens>>

(* The button of the layout, or of the settings screen.                    *)
Logout(f) ==
    /\ ready /\ authed
    /\ flow[f] = Null
    /\ IF Is("web") THEN WebLogout /\ UNCHANGED flow ELSE MobileLogout /\ Set(f, Removing)
    /\ UNCHANGED ready
    /\ EnableForm({})
    /\ UNCHANGED <<platform, mine, reopens, mixed>>

-----------------------------------------------------------------------------
(* Requests that fail.                                                     *)

(* The web client's restore calls fetch itself, not request().             *)
ThroughRequest(f) ==
    /\ flow[f] # Null /\ flow[f].at \in {"tokens", "tenants", "create", "made", "call"}
    /\ ~(Is("web") /\ Kind(f, "restore") /\ At(f, "tokens"))

(* 401: request() calls the handler, which logs out, and throws; the       *)
(* restore effect catches that and logs out once more, then is ready.      *)
WebUnauthorized(f) ==
    /\ Is("web") /\ ThroughRequest(f)
    /\ WebLogout
    /\ ready' = (ready \/ Kind(f, "restore"))
    /\ EnableForm({f})
    /\ Set(f, Null)
    /\ UNCHANGED <<platform, mine, reopens, mixed>>

MobileUnauthorized(f) ==
    /\ Is("mobile") /\ ThroughRequest(f)
    /\ MobileLogout
    /\ IF Kind(f, "restore")
       THEN \E g \in Flows :
              /\ flow[g] = Null
              /\ flow' = [flow EXCEPT ![g] = Removing, ![f] = Flow("restore", "remove", Null)]
       ELSE Set(f, Removing)
    /\ UNCHANGED ready
    /\ EnableForm({f})
    /\ UNCHANGED <<platform, mine, reopens, mixed>>

(* Mutant: finally does not come after a failure.                          *)
WebRestoreFailsUnready(f) ==
    /\ Is("web") /\ Kind(f, "restore")
    /\ WebLogout
    /\ UNCHANGED ready
    /\ EnableForm({f})
    /\ Set(f, Null)
    /\ UNCHANGED <<platform, mine, reopens, mixed>>

(* Any other failure, the network's too: restoring ends in a logout ...    *)
WebRestoreFails(f) ==
    /\ Is("web") /\ Kind(f, "restore")
    /\ WebLogout
    /\ ready' = TRUE
    /\ EnableForm({f})
    /\ Set(f, Null)
    /\ UNCHANGED <<platform, mine, reopens, mixed>>

MobileRestoreFails(f) ==
    /\ Is("mobile") /\ Kind(f, "restore") /\ flow[f].at \in {"tokens", "tenants"}
    /\ MobileLogout
    /\ Set(f, Flow("restore", "remove", Null))
    /\ UNCHANGED <<platform, mine, ready, form, reopens, mixed>>

(* ... and everything else in a message.                                   *)
RequestFails(f) ==
    /\ flow[f] # Null /\ ~Kind(f, "restore")
    /\ flow[f].at \in {"tokens", "tenants", "create", "made", "call"}
    /\ Set(f, Null)
    /\ UNCHANGED session
    /\ EnableForm({f})
    /\ UNCHANGED <<platform, mine, reopens, mixed>>

-----------------------------------------------------------------------------
(* In the app.                                                             *)

SelectTenant(t) ==
    /\ ready /\ authed /\ t \in tenants
    /\ selected' = t
    /\ UNCHANGED <<platform, mine, token, stored, ready, authed, tenants, flow, form, reopens, mixed>>

(* NoTenantState: POST /tenants, the server's part, the client's part.     *)
CreateTenant(f) ==
    /\ Screen = "no tenant" /\ form = Null
    /\ flow[f] = Null
    /\ Set(f, [Flow("create", "create", Null) EXCEPT !.bearer = token])
    /\ form' = f
    /\ UNCHANGED <<platform, mine, session, reopens, mixed>>

ServeCreate(f) ==
    /\ At(f, "create")
    /\ \E t \in Tenants :
         /\ \A u \in Users : t \notin mine[u]
         /\ mine' = [mine EXCEPT ![flow[f].bearer] = @ \cup {t}]
    /\ Set(f, [flow[f] EXCEPT !.at = "made"])
    /\ UNCHANGED <<platform, session, form, reopens, mixed>>

Created(f) ==
    /\ At(f, "made")
    /\ AskTenants(f, token)
    /\ UNCHANGED <<platform, mine, session, form, reopens, mixed>>

(* Any other request: of a page, or of the mobile queue, which posts       *)
(* whoever is signed in and also before anybody is.                        *)
Call(f) ==
    /\ Is("web") => Screen = "app"
    /\ flow[f] = Null
    /\ Set(f, [Flow("call", "call", Null) EXCEPT !.bearer = token])
    /\ UNCHANGED <<platform, mine, session, form, reopens, mixed>>

Answered(f) ==
    /\ At(f, "call") /\ flow[f].bearer # Null
    /\ Set(f, Null)
    /\ UNCHANGED <<platform, mine, session, form, reopens, mixed>>

(* Somebody adds the account to a restaurant.                              *)
Invited(u, t) ==
    /\ t \notin mine[u]
    /\ mine' = [mine EXCEPT ![u] = @ \cup {t}]
    /\ UNCHANGED <<platform, session, flow, form, reopens, mixed>>

-----------------------------------------------------------------------------
(* What an await of f resolves to.                                         *)
Resume(f) ==
    \/ Load(f) \/ WebEstablish(f) \/ MobileEstablish(f) \/ MobileSaved(f)
    \/ ServeTenants(f) \/ RefreshTenants(f) \/ MobileRemoved(f)
    \/ WebUnauthorized(f) \/ MobileUnauthorized(f)
    \/ WebRestoreFails(f) \/ MobileRestoreFails(f) \/ RequestFails(f)
    \/ ServeCreate(f) \/ Created(f) \/ Answered(f)

Next ==
    \/ Reopen
    \/ \E f \in Flows :
         Resume(f) \/ LoginPage(f) \/ LoginScreen(f) \/ Logout(f) \/ CreateTenant(f) \/ Call(f)
    \/ \E t \in Tenants : SelectTenant(t)
    \/ \E u \in Users, t \in Tenants : Invited(u, t)

(* Requests are answered or fail, and storage answers.                     *)
Fairness == \A f \in Flows : WF_vars(Resume(f))

Spec == Init /\ [][Next]_vars
FairSpec == Spec /\ Fairness

-----------------------------------------------------------------------------
FlowRecord ==
    [kind : {"restore", "sign in", "sign out", "create", "call"}, at : Awaits,
     who : Users \cup {Null}, bearer : Users \cup {Null},
     list : SUBSET Tenants, served : BOOLEAN]

ASSUME NullIsNoFlow == Null \notin FlowRecord

(* Types; on the web nothing awaits storage.                               *)
TypeOK ==
    /\ platform \in {"web", "mobile"}
    /\ mine \in [Users -> SUBSET Tenants]
    /\ token \in Users \cup {Null} /\ stored \in Users \cup {Null}
    /\ ready \in BOOLEAN /\ authed \in BOOLEAN /\ mixed \in BOOLEAN
    /\ tenants \in SUBSET Tenants /\ selected \in Tenants \cup {Null}
    /\ flow \in [Flows -> FlowRecord \cup {Null}]
    /\ form \in Flows \cup {Null}
    /\ reopens \in 0 .. MaxReopens

(* The session is one person's: unless some answer came to the wrong       *)
(* session or too late, the restaurants in the switcher are those of the   *)
(* account whose token every request carries, and the selected one is      *)
(* among them.                                                             *)
OnePersonsSession ==
    ~mixed /\ token # Null =>
        tenants \subseteq mine[token] /\ selected \in tenants \cup {Null}

(* What memory, storage and screen say of the session agrees: always on    *)
(* the web once somebody is signed in or nothing is in progress, and on    *)
(* mobile whenever nothing is in progress and no answer came too late.     *)
RemembersSession ==
    /\ Is("web") /\ (authed \/ token # Null) => authed /\ token = stored
    /\ (\A f \in Flows : flow[f] = Null) /\ (Is("web") \/ ~mixed) =>
           /\ ready
           /\ authed <=> (stored # Null)
           /\ token = stored

(* With restaurants to choose from one is chosen, so no page waits for a   *)
(* selection that never comes, whatever order answers arrive in.           *)
AlwaysASelection == tenants # {} => selected # Null

(* The client does not stay on its spinner, and no form stays disabled,    *)
(* whatever fails.                                                         *)
NothingSpins == (~ready ~> ready) /\ (form # Null ~> form = Null)

-----------------------------------------------------------------------------
(* An inductive invariant.                                                 *)

(* What the flows of each kind await, on which client, and what they hold. *)
Fits(r) ==
    /\ r.kind = "restore" => r.at \in {"load", "tokens", "save", "tenants", "remove"}
    /\ r.kind = "sign in" => r.at \in {"tokens", "save", "tenants"}
    /\ r.kind = "sign out" => r.at = "remove"
    /\ r.kind = "create" => Is("web") /\ r.at \in {"create", "made", "tenants"}
    /\ r.kind = "call" => r.at = "call"
    /\ r.at \in {"load", "save", "remove"} => Is("mobile")
    /\ r.at \in {"tokens", "save"} => r.who \in Users
    /\ r.served => r.at = "tenants" /\ r.bearer \in Users /\ r.list \subseteq mine[r.bearer]

FlowInv == \A f \in Flows : flow[f] # Null => Fits(flow[f])

Nothing == tenants = {} /\ selected = Null

(* One restore, and the client is ready when it has ended.  On mobile      *)
(* nobody signs in before, and there is nothing to show.                   *)
RestoreInv ==
    /\ \A f, g \in Flows : Kind(f, "restore") /\ Kind(g, "restore") => f = g
    /\ ~ready => \E f \in Flows : Kind(f, "restore")
    /\ Is("mobile") => \A f \in Flows : Kind(f, "restore") => ~ready
    /\ Is("mobile") /\ ~ready => Nothing /\ \A f \in Flows : ~Kind(f, "sign in")

WebInv ==
    Is("web") =>
        /\ authed <=> token # Null
        /\ authed => token = stored
        /\ ~authed /\ stored # Null => \E f \in Flows : Kind(f, "restore") /\ At(f, "tokens")
        /\ ~mixed /\ token = Null => Nothing

(* On mobile a sign-in has the login screen for itself.                    *)
SignInInv ==
    Is("mobile") =>
        \A f \in Flows :
            Kind(f, "sign in") /\ flow[f].at \in {"tokens", "save"} => form = f /\ ready /\ ~authed

(* Where memory, storage and screen differ on mobile, a flow is about to   *)
(* put that right.                                                         *)
MobileInv ==
    Is("mobile") /\ ~mixed =>
        /\ token # Null =>
             \/ authed /\ stored = token
             \/ \E f \in Flows : At(f, "save") /\ flow[f].who = token
        /\ token = Null =>
             \/ ~authed /\ stored = Null
             \/ \E f \in Flows : At(f, "remove")
             \/ ~authed /\ \E f \in Flows : Kind(f, "restore") /\ flow[f].at \in {"load", "tokens"}
        /\ ready /\ ~authed /\ ~Nothing =>
             \E f \in Flows : Kind(f, "sign in") /\ At(f, "save")

Inv ==
    /\ TypeOK /\ FlowInv /\ RestoreInv /\ WebInv /\ SignInInv /\ MobileInv
    /\ OnePersonsSession /\ AlwaysASelection
=============================================================================
