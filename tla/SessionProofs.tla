---------------------------- MODULE SessionProofs ----------------------------
(***************************************************************************)
(* The safety properties of Session for any accounts and restaurants and   *)
(* any number of flows at once: Inv holds initially and every action       *)
(* preserves it.  A step moves one flow on, seldom two; its lemma first    *)
(* says what that flow was and becomes, and then goes through the parts of *)
(* Inv.                                                                    *)
(***************************************************************************)
EXTENDS Session, TLAPS

(* f becomes r, and the other flows stay.                                  *)
Turn(f, r) ==
    /\ r \in FlowRecord \cup {Null}
    /\ \A g \in Flows : flow'[g] = IF g = f THEN r ELSE flow[g]

(* EXCEPT, as the lemmas use it.                                           *)
LEMMA SetTurns ==
    ASSUME TypeOK, NEW f \in Flows, NEW r \in FlowRecord \cup {Null}, Set(f, r)
    PROVE  Turn(f, r) /\ flow' \in [Flows -> FlowRecord \cup {Null}]
BY DEF Set, Turn, TypeOK

(* What every action does to FlowInv: the flow that moves on fits, and no   *)
(* account loses a restaurant.                                             *)
LEMMA TurnFits ==
    ASSUME FlowInv, NEW f \in Flows, NEW r, Turn(f, r), r # Null => Fits(r)',
           UNCHANGED platform, \A u \in Users : mine[u] \subseteq mine'[u]
    PROVE  FlowInv'
<1> SUFFICES ASSUME NEW g \in Flows, flow'[g] # Null PROVE Fits(flow[g])'
  BY DEF FlowInv
<1>1. CASE g = f
  <2>1. flow'[g] = r /\ Fits(r)'
    BY <1>1 DEF Turn
  <2>2. QED
    BY <2>1 DEF Fits, Is
<1>2. CASE g # f
  <2>1. flow'[g] = flow[g] /\ Fits(flow[g])
    BY <1>2 DEF Turn, FlowInv
  <2>2. flow[g].bearer \in Users => mine[flow[g].bearer] \subseteq mine'[flow[g].bearer]
    OBVIOUS
  <2>3. QED
    BY <2>1, <2>2 DEF Fits, Is
<1>3. QED
  BY <1>1, <1>2

(* The kind of a flow never changes, and the client is ready as soon as    *)
(* the flow that restores has ended.                                       *)
LEMMA TurnRestore ==
    ASSUME RestoreInv, NEW f \in Flows, NEW r, Turn(f, r), UNCHANGED platform,
           r # Null => (r.kind = "restore" <=> Kind(f, "restore")),
           ready' <=> ready \/ (Kind(f, "restore") /\ r = Null),
           Is("mobile") /\ ~ready' => Nothing' /\ (r # Null => r.kind # "sign in")
    PROVE  RestoreInv'
<1>1. \A g \in Flows : Kind(g, "restore")' <=> Kind(g, "restore") /\ ~(g = f /\ r = Null)
  <2> SUFFICES ASSUME NEW g \in Flows
               PROVE  Kind(g, "restore")' <=> Kind(g, "restore") /\ ~(g = f /\ r = Null)
    OBVIOUS
  <2>1. flow'[g] = IF g = f THEN r ELSE flow[g]
    BY DEF Turn
  <2>2. CASE g = f /\ r = Null
    BY <2>1, <2>2 DEF Kind
  <2>3. CASE g = f /\ r # Null
    BY <2>1, <2>3 DEF Kind
  <2>4. CASE g # f
    BY <2>1, <2>4 DEF Kind
  <2>5. QED
    BY <2>2, <2>3, <2>4
<1>2. \A g \in Flows : Kind(g, "sign in")' =>
                           Kind(g, "sign in") \/ (g = f /\ r # Null /\ r.kind = "sign in")
  <2> SUFFICES ASSUME NEW g \in Flows, Kind(g, "sign in")'
               PROVE  Kind(g, "sign in") \/ (g = f /\ r # Null /\ r.kind = "sign in")
    OBVIOUS
  <2>1. flow'[g] = IF g = f THEN r ELSE flow[g]
    BY DEF Turn
  <2>2. CASE g = f
    BY <2>1, <2>2 DEF Kind
  <2>3. CASE g # f
    BY <2>1, <2>3 DEF Kind
  <2>4. QED
    BY <2>2, <2>3
<1>3. QED
  BY <1>1, <1>2 DEF RestoreInv, Is

LEMMA EnabledFormType ==
    ASSUME TypeOK, NEW F, EnableForm(F)
    PROVE  form' \in Flows \cup {Null}
BY DEF EnableForm, TypeOK

-----------------------------------------------------------------------------
(* Flows that go on.                                                       *)

LEMMA LoadInv ==
    ASSUME Inv, NEW f \in Flows, Load(f)
    PROVE  Inv'
<1> USE NullIsFresh, NullIsNoFlow DEF Inv
<1>1. Kind(f, "restore") /\ At(f, "load") /\ Is("mobile")
  BY DEF Load, TypeOK, FlowInv, Fits, FlowRecord, Kind, At
<1> DEFINE r == IF stored = Null THEN Null ELSE Flow("restore", "tokens", stored)
<1>2. r \in FlowRecord \cup {Null} /\ (stored # Null => r \in FlowRecord)
  BY <1>1 DEF TypeOK, FlowRecord, Awaits, Flow
<1>3. /\ stored = Null => r = Null
      /\ stored # Null => /\ r.kind = "restore" /\ r.at = "tokens" /\ r.who = stored
                       /\ ~r.served
  BY <1>1, <1>2 DEF TypeOK, Flow
<1>4. Turn(f, r) /\ flow' \in [Flows -> FlowRecord \cup {Null}]
  BY <1>2, SetTurns DEF Load
<1>5. stored # Null => r # Null
  BY <1>2
<1> HIDE DEF r
<1>6. TypeOK'
  BY <1>1, <1>3, <1>4, <1>5, EnabledFormType DEF Load, TypeOK
<1>7. FlowInv'
  BY <1>1, <1>3, <1>4, TurnFits DEF Load, FlowInv, Fits, TypeOK
<1>8. RestoreInv'
  BY <1>1, <1>3, <1>4, <1>5, TurnRestore DEF Load, RestoreInv, Nothing
<1>9. WebInv'
  BY <1>1, <1>4 DEF Load, WebInv, Is
<1>10. SignInInv'
  BY <1>1, <1>3, <1>4 DEF Load, SignInInv, RestoreInv, Turn, Kind
<1>11. MobileInv'
  BY <1>1, <1>3, <1>4, <1>5 DEF Load, MobileInv, RestoreInv, Nothing, Turn, Kind, At
<1>12. OnePersonsSession'
  BY <1>1, <1>4 DEF Load, OnePersonsSession
<1>13. AlwaysASelection'
  BY <1>1, <1>3, <1>4, <1>5 DEF Load, AlwaysASelection, TypeOK
<1>14. QED
  BY <1>6, <1>7, <1>8, <1>9, <1>10, <1>11, <1>12, <1>13

LEMMA WebEstablishInv ==
    ASSUME Inv, NEW f \in Flows, WebEstablish(f)
    PROVE  Inv'
<1> USE NullIsFresh, NullIsNoFlow DEF Inv
<1>1. At(f, "tokens") /\ flow[f].who \in Users /\ flow[f].kind \in {"restore", "sign in"}
  BY DEF WebEstablish, TypeOK, FlowInv, Fits, FlowRecord, At
<1> DEFINE r == [flow[f] EXCEPT !.at = "tenants", !.bearer = flow[f].who, !.list = {},
                                !.served = FALSE]
<1>2. r \in FlowRecord
  BY <1>1 DEF TypeOK, FlowRecord, Awaits, At
<1>3. r.kind = flow[f].kind /\ r.at = "tenants" /\ ~r.served
  BY <1>1, <1>2 DEF FlowRecord
<1>4. Turn(f, r) /\ flow' \in [Flows -> FlowRecord \cup {Null}]
  BY <1>2, SetTurns DEF WebEstablish, Mixes, Replaces, AskTenants
<1>5. r # Null
  BY <1>2
<1> HIDE DEF r
<1>6. TypeOK'
  BY <1>1, <1>4, EnabledFormType DEF WebEstablish, Mixes, Replaces, TypeOK
<1>7. FlowInv'
  BY <1>1, <1>3, <1>4, TurnFits DEF WebEstablish, Mixes, Replaces, FlowInv, Fits
<1>8. RestoreInv'
  BY <1>1, <1>3, <1>4, <1>5, TurnRestore DEF WebEstablish, Mixes, Replaces, RestoreInv, Kind, At, Is
<1>9. WebInv'
  BY <1>1, <1>4 DEF WebEstablish, Mixes, Replaces, WebInv
<1>10. SignInInv'
  BY <1>1, <1>4 DEF WebEstablish, Mixes, Replaces, SignInInv, Is
<1>11. MobileInv'
  BY <1>1, <1>4 DEF WebEstablish, Mixes, Replaces, MobileInv
<1>12. OnePersonsSession'
  BY <1>1, <1>4 DEF WebEstablish, Mixes, Replaces, OnePersonsSession, WebInv, Nothing
<1>13. AlwaysASelection'
  BY <1>1, <1>4 DEF WebEstablish, Mixes, Replaces, AlwaysASelection
<1>14. QED
  BY <1>6, <1>7, <1>8, <1>9, <1>10, <1>11, <1>12, <1>13

LEMMA MobileEstablishInv ==
    ASSUME Inv, NEW f \in Flows, MobileEstablish(f)
    PROVE  Inv'
<1> USE NullIsFresh, NullIsNoFlow DEF Inv
<1>1. /\ At(f, "tokens") /\ flow[f].who \in Users /\ ~flow[f].served
      /\ Is("mobile") /\ flow[f].kind \in {"restore", "sign in"}
  BY DEF MobileEstablish, TypeOK, FlowInv, Fits, FlowRecord, At
<1> DEFINE r == [flow[f] EXCEPT !.at = "save"]
<1>2. r \in FlowRecord
  BY <1>1 DEF TypeOK, FlowRecord, Awaits, At
<1>3. r.kind = flow[f].kind /\ r.at = "save" /\ r.who = flow[f].who /\ ~r.served
  BY <1>1, <1>2 DEF FlowRecord
<1>4. Turn(f, r) /\ flow' \in [Flows -> FlowRecord \cup {Null}]
  BY <1>2, SetTurns DEF MobileEstablish, Mixes, Replaces
<1>5. r # Null
  BY <1>2
<1> HIDE DEF r
<1>6. TypeOK'
  BY <1>1, <1>4 DEF MobileEstablish, Mixes, Replaces, TypeOK
<1>7. FlowInv'
  BY <1>1, <1>3, <1>4, TurnFits DEF MobileEstablish, Mixes, Replaces, FlowInv, Fits, Is
<1>8. RestoreInv'
  BY <1>1, <1>3, <1>4, <1>5, TurnRestore
  DEF MobileEstablish, Mixes, Replaces, RestoreInv, Nothing, Kind, At
<1>9. WebInv'
  BY <1>1, <1>4 DEF MobileEstablish, Mixes, Replaces, WebInv, Is
<1>10. SignInInv'
  BY <1>1, <1>3, <1>4 DEF MobileEstablish, Mixes, Replaces, SignInInv, Turn, Kind, At
<1>11. MobileInv'
  BY <1>1, <1>3, <1>4, <1>5 DEF MobileEstablish, Mixes, Replaces, MobileInv, Nothing, Turn, Kind, At
<1>12. OnePersonsSession'
  <2>1. CASE token = flow[f].who
    BY <1>1, <2>1 DEF MobileEstablish, Mixes, OnePersonsSession
  <2>2. CASE token # flow[f].who /\ ~mixed'
    <3>1. ~mixed /\ token = Null
      BY <2>2 DEF MobileEstablish, Mixes, Replaces
    <3>2. CASE Kind(f, "restore")
      BY <1>1, <3>2 DEF RestoreInv, Nothing, MobileEstablish, OnePersonsSession
    <3>3. CASE Kind(f, "sign in")
      <4>1. form = f /\ ready /\ ~authed
        BY <1>1, <3>3 DEF SignInInv, At
      <4>2. \A g \in Flows : Kind(g, "sign in") /\ At(g, "save") => g = f
        BY <1>1, <4>1 DEF SignInInv, At
      <4>3. Nothing
        BY <1>1, <2>2, <3>1, <4>1, <4>2 DEF MobileInv, At
      <4>4. QED
        BY <4>3 DEF Nothing, MobileEstablish, OnePersonsSession
    <3>4. QED
      BY <1>1, <3>2, <3>3 DEF Kind, At
  <2>3. QED
    BY <2>1, <2>2 DEF OnePersonsSession
<1>13. AlwaysASelection'
  BY <1>1, <1>4 DEF MobileEstablish, Mixes, Replaces, AlwaysASelection
<1>14. QED
  BY <1>6, <1>7, <1>8, <1>9, <1>10, <1>11, <1>12, <1>13

LEMMA MobileSavedInv ==
    ASSUME Inv, NEW f \in Flows, MobileSaved(f)
    PROVE  Inv'
<1> USE NullIsFresh, NullIsNoFlow DEF Inv
<1>1. /\ At(f, "save") /\ flow[f].who \in Users
      /\ Is("mobile") /\ flow[f].kind \in {"restore", "sign in"}
  BY DEF MobileSaved, TypeOK, FlowInv, Fits, FlowRecord, At
<1> DEFINE r == [flow[f] EXCEPT !.at = "tenants", !.bearer = token, !.list = {}, !.served = FALSE]
<1>2. r \in FlowRecord
  BY <1>1 DEF TypeOK, FlowRecord, Awaits, At
<1>3. r.kind = flow[f].kind /\ r.at = "tenants" /\ ~r.served
  BY <1>1, <1>2 DEF FlowRecord
<1>4. Turn(f, r) /\ flow' \in [Flows -> FlowRecord \cup {Null}]
  BY <1>2, SetTurns DEF MobileSaved, Mixes, AskTenants
<1>5. r # Null
  BY <1>2
<1> HIDE DEF r
<1>6. TypeOK'
  BY <1>1, <1>3, <1>4, <1>5, EnabledFormType DEF MobileSaved, Mixes, TypeOK
<1>7. FlowInv'
  BY <1>1, <1>3, <1>4, TurnFits DEF MobileSaved, Mixes, FlowInv, Fits
<1>8. RestoreInv'
  BY <1>1, <1>3, <1>4, <1>5, TurnRestore DEF MobileSaved, Mixes, RestoreInv, Nothing, Kind, At
<1>9. WebInv'
  BY <1>1, <1>4 DEF MobileSaved, Mixes, WebInv, Is
<1>10. SignInInv'
  BY <1>1, <1>3, <1>4 DEF MobileSaved, Mixes, SignInInv, RestoreInv, Turn, Kind, At
<1>11. MobileInv'
  BY <1>1, <1>4 DEF MobileSaved, Mixes, MobileInv
<1>12. OnePersonsSession'
  BY <1>1, <1>4 DEF MobileSaved, Mixes, OnePersonsSession
<1>13. AlwaysASelection'
  BY <1>1, <1>4 DEF MobileSaved, Mixes, AlwaysASelection
<1>14. QED
  BY <1>6, <1>7, <1>8, <1>9, <1>10, <1>11, <1>12, <1>13

LEMMA ServeTenantsInv ==
    ASSUME Inv, NEW f \in Flows, ServeTenants(f)
    PROVE  Inv'
<1> USE NullIsFresh, NullIsNoFlow DEF Inv
<1>1. /\ At(f, "tenants") /\ flow[f].bearer \in Users
      /\ flow[f] \in FlowRecord /\ mine[flow[f].bearer] \in SUBSET Tenants
  BY DEF ServeTenants, TypeOK, FlowRecord, At
<1> DEFINE r == [flow[f] EXCEPT !.list = mine[flow[f].bearer], !.served = TRUE]
<1>2. r \in FlowRecord
  BY <1>1 DEF FlowRecord, Awaits
<1>3. /\ r.kind = flow[f].kind /\ r.at = "tenants" /\ r.who = flow[f].who
      /\ r.bearer = flow[f].bearer /\ r.list = mine[r.bearer]
  BY <1>1 DEF FlowRecord, Kind, At
<1>4. Turn(f, r) /\ flow' \in [Flows -> FlowRecord \cup {Null}]
  BY <1>2, SetTurns DEF ServeTenants, session
<1>5. r # Null
  BY <1>2
<1> HIDE DEF r
<1>6. TypeOK'
  BY <1>1, <1>3, <1>4, <1>5 DEF ServeTenants, session, TypeOK
<1>7. FlowInv'
  BY <1>1, <1>3, <1>4, TurnFits DEF ServeTenants, session, FlowInv, Fits, At, Is
<1>8. RestoreInv'
  BY <1>1, <1>3, <1>4, <1>5, TurnRestore DEF ServeTenants, session, RestoreInv, Nothing, Kind
<1>9. WebInv'
  BY <1>1, <1>4 DEF ServeTenants, session, WebInv, Nothing, Turn, Kind, At, Is
<1>10. SignInInv'
  BY <1>1, <1>3, <1>4 DEF ServeTenants, session, SignInInv, Turn, Kind, Is
<1>11. MobileInv'
  BY <1>1, <1>4 DEF ServeTenants, session, MobileInv, Nothing, Turn, Kind, At, Is
<1>12. OnePersonsSession'
  BY <1>1, <1>4 DEF ServeTenants, session, OnePersonsSession
<1>13. AlwaysASelection'
  BY <1>1, <1>4 DEF ServeTenants, session, AlwaysASelection
<1>14. QED
  BY <1>6, <1>7, <1>8, <1>9, <1>10, <1>11, <1>12, <1>13

LEMMA RefreshTenantsInv ==
    ASSUME Inv, NEW f \in Flows, RefreshTenants(f)
    PROVE  Inv'
<1> USE NullIsFresh, NullIsNoFlow DEF Inv
<1>1. /\ At(f, "tenants") /\ flow[f].bearer \in Users /\ flow[f].list \subseteq mine[flow[f].bearer]
      /\ flow[f].list \subseteq Tenants
  BY DEF RefreshTenants, TypeOK, FlowInv, Fits, At
<1>2. Turn(f, Null) /\ flow' \in [Flows -> FlowRecord \cup {Null}]
  BY SetTurns DEF RefreshTenants, Mixes, Selection
<1>3. TypeOK'
  BY <1>1, <1>2, EnabledFormType DEF RefreshTenants, Mixes, Selection, TypeOK
<1>4. FlowInv'
  BY <1>1, <1>2, TurnFits DEF RefreshTenants, Mixes, Selection
<1>5a. Is("mobile") => flow[f].kind \in {"restore", "sign in"}
  BY <1>1 DEF TypeOK, FlowInv, Fits, FlowRecord, At, Is
<1>5b. Is("mobile") => ready'
  BY <1>1, <1>5a DEF RefreshTenants, RestoreInv, Kind, At
<1>5. RestoreInv'
  BY <1>1, <1>2, <1>5b, TurnRestore DEF RefreshTenants, Mixes, Selection, RestoreInv
<1>6. WebInv'
  BY <1>1, <1>2 DEF RefreshTenants, Mixes, Selection, WebInv, Turn, Kind, At, Is
<1>7. SignInInv'
  BY <1>1, <1>2
  DEF RefreshTenants, Mixes, Selection, SignInInv, EnableForm, Screen, ScreenOf,
      MobileScreen, Turn, Kind, Is
<1>8. MobileInv'
  <2> SUFFICES ASSUME Is("mobile"), ~mixed' PROVE MobileInv'
    BY DEF MobileInv, RefreshTenants, Is
  <2>1. ~mixed /\ token = flow[f].bearer /\ token # Null
    BY <1>1 DEF RefreshTenants, Mixes
  <2>2. (authed /\ stored = token) \/ \E g \in Flows : At(g, "save") /\ flow[g].who = token
    BY <2>1 DEF MobileInv
  <2>3. CASE authed /\ stored = token
    BY <2>1, <2>3 DEF MobileInv, RefreshTenants
  <2>4. ASSUME NEW g \in Flows, At(g, "save"), flow[g].who = token
        PROVE  MobileInv'
    <3>1. g # f /\ flow[g] # Null /\ flow[g].kind \in {"restore", "sign in"}
      BY <1>1, <2>4 DEF TypeOK, FlowInv, Fits, FlowRecord, At
    <3>2. Kind(g, "restore") => ~ready /\ ~Kind(f, "restore")
      BY <3>1 DEF RestoreInv
    <3>3. Kind(g, "sign in")
      BY <1>1, <1>5a, <3>1, <3>2 DEF RestoreInv, Kind, At
    <3>4. flow'[g] = flow[g]
      BY <1>2, <3>1 DEF Turn
    <3>5. At(g, "save")' /\ Kind(g, "sign in")'
      BY <2>4, <3>3, <3>4 DEF At, Kind
    <3>6. QED
      BY <2>1, <2>4, <3>4, <3>5 DEF MobileInv, RefreshTenants
  <2>5. QED
    BY <2>2, <2>3, <2>4 DEF MobileInv, RefreshTenants
<1>9. OnePersonsSession'
  BY <1>1, <1>2 DEF RefreshTenants, Mixes, Selection, OnePersonsSession
<1>10. AlwaysASelection'
  BY <1>1, <1>2 DEF RefreshTenants, Mixes, Selection, AlwaysASelection
<1>11. QED
  BY <1>3, <1>4, <1>5, <1>6, <1>7, <1>8, <1>9, <1>10

-----------------------------------------------------------------------------
(* Flows that end, or end in a logout.                                     *)

LEMMA MobileRemovedInv ==
    ASSUME Inv, NEW f \in Flows, MobileRemoved(f)
    PROVE  Inv'
<1> USE NullIsFresh, NullIsNoFlow DEF Inv
<1>1. At(f, "remove") /\ Is("mobile")
  BY DEF MobileRemoved, FlowInv, Fits, At
<1>2. Turn(f, Null) /\ flow' \in [Flows -> FlowRecord \cup {Null}]
  BY SetTurns DEF MobileRemoved, Mixes
<1>3. TypeOK'
  BY <1>1, <1>2, EnabledFormType DEF MobileRemoved, Mixes, TypeOK
<1>4. FlowInv'
  BY <1>1, <1>2, TurnFits DEF MobileRemoved, Mixes
<1>5. RestoreInv'
  BY <1>1, <1>2, TurnRestore DEF MobileRemoved, Mixes, RestoreInv, Nothing
<1>6. WebInv'
  BY <1>1, <1>2 DEF MobileRemoved, Mixes, WebInv, Is
<1>7. SignInInv'
  BY <1>1, <1>2
  DEF MobileRemoved, Mixes, SignInInv, EnableForm, Screen, ScreenOf, MobileScreen, Turn,
      Kind, Is
<1>8. MobileInv'
  BY <1>1, <1>2 DEF MobileRemoved, Mixes, MobileInv, Nothing
<1>9. OnePersonsSession'
  BY <1>1, <1>2 DEF MobileRemoved, Mixes, OnePersonsSession
<1>10. AlwaysASelection'
  BY <1>1, <1>2 DEF MobileRemoved, Mixes, AlwaysASelection
<1>11. QED
  BY <1>3, <1>4, <1>5, <1>6, <1>7, <1>8, <1>9, <1>10

LEMMA WebUnauthorizedInv ==
    ASSUME Inv, NEW f \in Flows, WebUnauthorized(f)
    PROVE  Inv'
<1> USE NullIsFresh, NullIsNoFlow DEF Inv
<1>1. flow[f] # Null /\ Is("web")
  BY DEF WebUnauthorized, ThroughRequest
<1>2. Turn(f, Null) /\ flow' \in [Flows -> FlowRecord \cup {Null}]
  BY SetTurns DEF WebUnauthorized, WebLogout, ThroughRequest
<1>3. TypeOK'
  BY <1>1, <1>2, EnabledFormType DEF WebUnauthorized, WebLogout, ThroughRequest, TypeOK
<1>4. FlowInv'
  BY <1>1, <1>2, TurnFits DEF WebUnauthorized, WebLogout, ThroughRequest
<1>5. RestoreInv'
  BY <1>1, <1>2, TurnRestore DEF WebUnauthorized, WebLogout, ThroughRequest, RestoreInv, Is
<1>6. WebInv'
  BY <1>1, <1>2 DEF WebUnauthorized, WebLogout, ThroughRequest, WebInv, Nothing
<1>7. SignInInv'
  BY <1>1, <1>2 DEF WebUnauthorized, WebLogout, ThroughRequest, SignInInv, Is
<1>8. MobileInv'
  BY <1>1, <1>2 DEF WebUnauthorized, WebLogout, ThroughRequest, MobileInv, Is
<1>9. OnePersonsSession'
  BY <1>1, <1>2 DEF WebUnauthorized, WebLogout, ThroughRequest, OnePersonsSession
<1>10. AlwaysASelection'
  BY <1>1, <1>2 DEF WebUnauthorized, WebLogout, ThroughRequest, AlwaysASelection
<1>11. QED
  BY <1>3, <1>4, <1>5, <1>6, <1>7, <1>8, <1>9, <1>10

LEMMA WebRestoreFailsInv ==
    ASSUME Inv, NEW f \in Flows, WebRestoreFails(f)
    PROVE  Inv'
<1> USE NullIsFresh, NullIsNoFlow DEF Inv
<1>1. Kind(f, "restore") /\ Is("web")
  BY DEF WebRestoreFails
<1>2. Turn(f, Null) /\ flow' \in [Flows -> FlowRecord \cup {Null}]
  BY SetTurns DEF WebRestoreFails, WebLogout
<1>3. TypeOK'
  BY <1>1, <1>2, EnabledFormType DEF WebRestoreFails, WebLogout, TypeOK
<1>4. FlowInv'
  BY <1>1, <1>2, TurnFits DEF WebRestoreFails, WebLogout
<1>5. RestoreInv'
  BY <1>1, <1>2, TurnRestore DEF WebRestoreFails, WebLogout, RestoreInv
<1>6. WebInv'
  BY <1>1, <1>2 DEF WebRestoreFails, WebLogout, WebInv, Nothing
<1>7. SignInInv'
  BY <1>1, <1>2 DEF WebRestoreFails, WebLogout, SignInInv, Is
<1>8. MobileInv'
  BY <1>1, <1>2 DEF WebRestoreFails, WebLogout, MobileInv, Is
<1>9. OnePersonsSession'
  BY <1>1, <1>2 DEF WebRestoreFails, WebLogout, OnePersonsSession
<1>10. AlwaysASelection'
  BY <1>1, <1>2 DEF WebRestoreFails, WebLogout, AlwaysASelection
<1>11. QED
  BY <1>3, <1>4, <1>5, <1>6, <1>7, <1>8, <1>9, <1>10

LEMMA MobileRestoreFailsInv ==
    ASSUME Inv, NEW f \in Flows, MobileRestoreFails(f)
    PROVE  Inv'
<1> USE NullIsFresh, NullIsNoFlow DEF Inv
<1>1. Kind(f, "restore") /\ Is("mobile") /\ flow[f].at \in {"tokens", "tenants"}
  BY DEF MobileRestoreFails
<1> DEFINE r == Flow("restore", "remove", Null)
<1>2. r \in FlowRecord
  BY <1>1 DEF FlowRecord, Awaits, Flow
<1>3. r.kind = "restore" /\ r.at = "remove" /\ ~r.served
  BY <1>1, <1>2 DEF TypeOK, Flow
<1>4. Turn(f, r) /\ flow' \in [Flows -> FlowRecord \cup {Null}]
  BY <1>2, SetTurns DEF MobileRestoreFails, MobileLogout
<1>5. r # Null
  BY <1>2
<1> HIDE DEF r
<1>6. TypeOK'
  BY <1>1, <1>3, <1>4, <1>5 DEF MobileRestoreFails, MobileLogout, TypeOK
<1>7. FlowInv'
  BY <1>1, <1>3, <1>4, TurnFits DEF MobileRestoreFails, MobileLogout, FlowInv, Fits, Is
<1>8. RestoreInv'
  BY <1>1, <1>3, <1>4, <1>5, TurnRestore DEF MobileRestoreFails, MobileLogout, RestoreInv, Nothing
<1>9. WebInv'
  BY <1>1, <1>4 DEF MobileRestoreFails, MobileLogout, WebInv, Is
<1>10. SignInInv'
  BY <1>1, <1>3, <1>4 DEF MobileRestoreFails, MobileLogout, SignInInv, Turn, Kind
<1>11. MobileInv'
  BY <1>1, <1>3, <1>4, <1>5 DEF MobileRestoreFails, MobileLogout, MobileInv, Nothing, Turn, Kind, At
<1>12. OnePersonsSession'
  BY <1>1, <1>4 DEF MobileRestoreFails, MobileLogout, OnePersonsSession
<1>13. AlwaysASelection'
  BY <1>1, <1>4 DEF MobileRestoreFails, MobileLogout, AlwaysASelection
<1>14. QED
  BY <1>6, <1>7, <1>8, <1>9, <1>10, <1>11, <1>12, <1>13

LEMMA RequestFailsInv ==
    ASSUME Inv, NEW f \in Flows, RequestFails(f)
    PROVE  Inv'
<1> USE NullIsFresh, NullIsNoFlow DEF Inv
<1>1. flow[f] # Null /\ ~Kind(f, "restore") /\ flow[f].at \notin {"save", "remove", "load"}
  BY DEF RequestFails
<1>2. Turn(f, Null) /\ flow' \in [Flows -> FlowRecord \cup {Null}]
  BY SetTurns DEF RequestFails, session
<1>3. TypeOK'
  BY <1>1, <1>2, EnabledFormType DEF RequestFails, session, TypeOK
<1>4. FlowInv'
  BY <1>1, <1>2, TurnFits DEF RequestFails, session
<1>5. RestoreInv'
  BY <1>1, <1>2, TurnRestore DEF RequestFails, session, RestoreInv, Nothing
<1>6. WebInv'
  BY <1>1, <1>2 DEF RequestFails, session, WebInv, Nothing, Turn, Kind, At, Is
<1>7. SignInInv'
  BY <1>1, <1>2
  DEF RequestFails, session, SignInInv, EnableForm, Screen, MobileScreen, Turn, Kind, Is
<1>8. MobileInv'
  BY <1>1, <1>2 DEF RequestFails, session, MobileInv, Nothing, Turn, Kind, At, Is
<1>9. OnePersonsSession'
  BY <1>1, <1>2 DEF RequestFails, session, OnePersonsSession
<1>10. AlwaysASelection'
  BY <1>1, <1>2 DEF RequestFails, session, AlwaysASelection
<1>11. QED
  BY <1>3, <1>4, <1>5, <1>6, <1>7, <1>8, <1>9, <1>10

-----------------------------------------------------------------------------
(* A restaurant is created, and requests are answered.                     *)

LEMMA ServeCreateInv ==
    ASSUME Inv, NEW f \in Flows, ServeCreate(f)
    PROVE  Inv'
<1> USE NullIsFresh, NullIsNoFlow DEF Inv
<1>1. /\ At(f, "create") /\ Kind(f, "create") /\ Is("web") /\ ~flow[f].served
      /\ flow[f] \in FlowRecord
  BY DEF ServeCreate, TypeOK, FlowInv, Fits, FlowRecord, Kind, At
<1> DEFINE r == [flow[f] EXCEPT !.at = "made"]
<1>2. r \in FlowRecord
  BY <1>1 DEF FlowRecord, Awaits
<1>3. /\ r.kind = "create" /\ r.at = "made" /\ ~r.served
      /\ r.bearer = flow[f].bearer /\ r.list = flow[f].list /\ r.who = flow[f].who
  BY <1>1 DEF FlowRecord, Kind, At
<1>4. Turn(f, r) /\ flow' \in [Flows -> FlowRecord \cup {Null}]
  BY <1>2, SetTurns DEF ServeCreate, session
<1>5. r # Null
  BY <1>2
<1> HIDE DEF r
<1>0. mine' \in [Users -> SUBSET Tenants] /\ \A u \in Users : mine[u] \subseteq mine'[u]
  <2>1. PICK t \in Tenants : mine' = [mine EXCEPT ![flow[f].bearer] = @ \cup {t}]
    BY DEF ServeCreate
  <2>2. QED
    BY <2>1 DEF TypeOK
<1>6. TypeOK'
  BY <1>0, <1>1, <1>3, <1>4, <1>5 DEF ServeCreate, session, TypeOK
<1>7. FlowInv'
  BY <1>0, <1>1, <1>3, <1>4, TurnFits DEF ServeCreate, session, FlowInv, Fits, Is
<1>8. RestoreInv'
  BY <1>1, <1>3, <1>4, TurnRestore DEF ServeCreate, session, RestoreInv, Kind, Is
<1>9. WebInv'
  <2>1. \A g \in Flows : Kind(g, "restore") /\ At(g, "tokens") =>
                          (Kind(g, "restore") /\ At(g, "tokens"))'
    BY <1>1, <1>4 DEF Turn, Kind, At
  <2>2. UNCHANGED <<platform, session, mixed>>
    BY DEF ServeCreate
  <2>3. QED
    BY <2>1, <2>2 DEF session, WebInv, Nothing, Is
<1>10. SignInInv'
  BY <1>1, <1>4 DEF ServeCreate, session, SignInInv, Is
<1>11. MobileInv'
  BY <1>1, <1>4 DEF ServeCreate, session, MobileInv, Is
<1>12. OnePersonsSession'
  BY <1>0, <1>1, <1>4 DEF ServeCreate, session, OnePersonsSession
<1>13. AlwaysASelection'
  BY <1>1, <1>4 DEF ServeCreate, session, AlwaysASelection
<1>14. QED
  BY <1>6, <1>7, <1>8, <1>9, <1>10, <1>11, <1>12, <1>13

LEMMA CreatedInv ==
    ASSUME Inv, NEW f \in Flows, Created(f)
    PROVE  Inv'
<1> USE NullIsFresh, NullIsNoFlow DEF Inv
<1>1. /\ At(f, "made") /\ Kind(f, "create") /\ Is("web")
      /\ flow[f] \in FlowRecord
  BY DEF Created, TypeOK, FlowInv, Fits, FlowRecord, Kind, At
<1> DEFINE r == [flow[f] EXCEPT !.at = "tenants", !.bearer = token, !.list = {}, !.served = FALSE]
<1>2. r \in FlowRecord
  BY <1>1 DEF TypeOK, FlowRecord, Awaits
<1>3. r.kind = "create" /\ r.at = "tenants" /\ ~r.served
  BY <1>1 DEF FlowRecord, Kind, At
<1>4. Turn(f, r) /\ flow' \in [Flows -> FlowRecord \cup {Null}]
  BY <1>2, SetTurns DEF Created, session, AskTenants
<1>5. r # Null
  BY <1>2
<1> HIDE DEF r
<1>6. TypeOK'
  BY <1>1, <1>3, <1>4, <1>5 DEF Created, session, TypeOK
<1>7. FlowInv'
  BY <1>1, <1>3, <1>4, TurnFits DEF Created, session, FlowInv, Fits, Is
<1>8. RestoreInv'
  BY <1>1, <1>3, <1>4, TurnRestore DEF Created, session, RestoreInv, Kind, Is
<1>9. WebInv'
  BY <1>1, <1>4 DEF Created, session, WebInv, Nothing, Turn, Kind, At
<1>10. SignInInv'
  BY <1>1, <1>4 DEF Created, session, SignInInv, Is
<1>11. MobileInv'
  BY <1>1, <1>4 DEF Created, session, MobileInv, Is
<1>12. OnePersonsSession'
  BY <1>1, <1>4 DEF Created, session, OnePersonsSession
<1>13. AlwaysASelection'
  BY <1>1, <1>4 DEF Created, session, AlwaysASelection
<1>14. QED
  BY <1>6, <1>7, <1>8, <1>9, <1>10, <1>11, <1>12, <1>13

LEMMA AnsweredInv ==
    ASSUME Inv, NEW f \in Flows, Answered(f)
    PROVE  Inv'
<1> USE NullIsFresh, NullIsNoFlow DEF Inv
<1>1. At(f, "call") /\ Kind(f, "call")
  BY DEF Answered, TypeOK, FlowInv, Fits, FlowRecord, Kind, At
<1>2. Turn(f, Null) /\ flow' \in [Flows -> FlowRecord \cup {Null}]
  BY SetTurns DEF Answered, session
<1>3. TypeOK'
  BY <1>1, <1>2 DEF Answered, session, TypeOK
<1>4. FlowInv'
  BY <1>1, <1>2, TurnFits DEF Answered, session
<1>5. RestoreInv'
  BY <1>1, <1>2, TurnRestore DEF Answered, session, RestoreInv, Nothing, Kind
<1>6. WebInv'
  BY <1>1, <1>2 DEF Answered, session, WebInv, Nothing, Turn, Kind, At, Is
<1>7. SignInInv'
  BY <1>1, <1>2 DEF Answered, session, SignInInv, Turn, Kind, Is
<1>8. MobileInv'
  BY <1>1, <1>2 DEF Answered, session, MobileInv, Nothing, Turn, Kind, At, Is
<1>9. OnePersonsSession'
  BY <1>1, <1>2 DEF Answered, session, OnePersonsSession
<1>10. AlwaysASelection'
  BY <1>1, <1>2 DEF Answered, session, AlwaysASelection
<1>11. QED
  BY <1>3, <1>4, <1>5, <1>6, <1>7, <1>8, <1>9, <1>10

-----------------------------------------------------------------------------
(* Flows that begin.                                                       *)

LEMMA LoginScreenInv ==
    ASSUME Inv, NEW f \in Flows, NEW u \in Users,
           LoginScreen(f), Set(f, Flow("sign in", "tokens", u))
    PROVE  Inv'
<1> USE NullIsFresh, NullIsNoFlow DEF Inv
<1>1. flow[f] = Null /\ Is("mobile")
  BY DEF LoginScreen, SignIn
<1> DEFINE r == Flow("sign in", "tokens", u)
<1>2. r \in FlowRecord
  BY <1>1 DEF FlowRecord, Awaits, Flow
<1>3. r.kind = "sign in" /\ r.at = "tokens" /\ r.who = u /\ ~r.served
  BY <1>1, <1>2 DEF Flow
<1>4. Turn(f, r) /\ flow' \in [Flows -> FlowRecord \cup {Null}]
  BY <1>2, SetTurns DEF LoginScreen, session, SignIn
<1>5. r # Null
  BY <1>2
<1> HIDE DEF r
<1>6. TypeOK'
  BY <1>1, <1>4 DEF LoginScreen, session, SignIn, TypeOK
<1>7. FlowInv'
  BY <1>1, <1>3, <1>4, TurnFits DEF LoginScreen, session, SignIn, FlowInv, Fits
<1>8. RestoreInv'
  BY <1>1, <1>3, <1>4, TurnRestore DEF LoginScreen, session, SignIn, RestoreInv
<1>9. WebInv'
  BY <1>1, <1>4 DEF LoginScreen, session, SignIn, WebInv, Is
<1>10. SignInInv'
  BY <1>1, <1>4 DEF LoginScreen, session, SignIn, SignInInv, Turn, Kind
<1>11. MobileInv'
  BY <1>1, <1>4 DEF LoginScreen, session, SignIn, MobileInv, Nothing, Turn, Kind, At
<1>12. OnePersonsSession'
  BY <1>1, <1>4 DEF LoginScreen, session, SignIn, OnePersonsSession
<1>13. AlwaysASelection'
  BY <1>1, <1>4 DEF LoginScreen, session, SignIn, AlwaysASelection
<1>14. QED
  BY <1>6, <1>7, <1>8, <1>9, <1>10, <1>11, <1>12, <1>13

LEMMA LoginPageInv ==
    ASSUME Inv, NEW f \in Flows, NEW u \in Users,
           LoginPage(f), Set(f, Flow("sign in", "tokens", u))
    PROVE  Inv'
<1> USE NullIsFresh, NullIsNoFlow DEF Inv
<1>1. flow[f] = Null /\ Is("web")
  BY DEF LoginPage, SignIn
<1> DEFINE r == Flow("sign in", "tokens", u)
<1>2. r \in FlowRecord
  BY <1>1 DEF FlowRecord, Awaits, Flow
<1>3. r.kind = "sign in" /\ r.at = "tokens" /\ r.who = u /\ ~r.served
  BY <1>1, <1>2 DEF Flow
<1>4. Turn(f, r) /\ flow' \in [Flows -> FlowRecord \cup {Null}]
  BY <1>2, SetTurns DEF LoginPage, session, SignIn
<1>5. r # Null
  BY <1>2
<1> HIDE DEF r
<1>6. TypeOK'
  BY <1>1, <1>4 DEF LoginPage, session, SignIn, TypeOK
<1>7. FlowInv'
  BY <1>1, <1>3, <1>4, TurnFits DEF LoginPage, session, SignIn, FlowInv, Fits
<1>8. RestoreInv'
  BY <1>1, <1>3, <1>4, TurnRestore DEF LoginPage, session, SignIn, RestoreInv, Kind, Is
<1>9. WebInv'
  BY <1>1, <1>4 DEF LoginPage, session, SignIn, WebInv, Nothing, Turn, Kind, At
<1>10. SignInInv'
  BY <1>1, <1>4 DEF LoginPage, session, SignIn, SignInInv, Is
<1>11. MobileInv'
  BY <1>1, <1>4 DEF LoginPage, session, SignIn, MobileInv, Is
<1>12. OnePersonsSession'
  BY <1>1, <1>4 DEF LoginPage, session, SignIn, OnePersonsSession
<1>13. AlwaysASelection'
  BY <1>1, <1>4 DEF LoginPage, session, SignIn, AlwaysASelection
<1>14. QED
  BY <1>6, <1>7, <1>8, <1>9, <1>10, <1>11, <1>12, <1>13

LEMMA CreateTenantInv ==
    ASSUME Inv, NEW f \in Flows, CreateTenant(f)
    PROVE  Inv'
<1> USE NullIsFresh, NullIsNoFlow DEF Inv
<1>1. flow[f] = Null /\ Is("web")
  BY DEF CreateTenant, Screen, ScreenOf, WebScreen, MobileScreen
<1> DEFINE r == [Flow("create", "create", Null) EXCEPT !.bearer = token]
<1>2. r \in FlowRecord
  BY <1>1 DEF TypeOK, FlowRecord, Awaits, Flow
<1>3. r.kind = "create" /\ r.at = "create" /\ ~r.served
  BY <1>1, <1>2 DEF TypeOK, Flow
<1>4. Turn(f, r) /\ flow' \in [Flows -> FlowRecord \cup {Null}]
  BY <1>2, SetTurns DEF CreateTenant, session
<1>5. r # Null
  BY <1>2
<1> HIDE DEF r
<1>6. TypeOK'
  BY <1>1, <1>3, <1>4, <1>5 DEF CreateTenant, session, TypeOK
<1>7. FlowInv'
  BY <1>1, <1>3, <1>4, TurnFits DEF CreateTenant, session, FlowInv, Fits, Is
<1>8. RestoreInv'
  BY <1>1, <1>3, <1>4, TurnRestore DEF CreateTenant, session, RestoreInv, Kind, Is, WebScreen
<1>9. WebInv'
  BY <1>1, <1>4 DEF CreateTenant, session, WebInv, Screen, ScreenOf, WebScreen, MobileScreen
<1>10. SignInInv'
  BY <1>1, <1>4 DEF CreateTenant, session, SignInInv, Is
<1>11. MobileInv'
  BY <1>1, <1>4 DEF CreateTenant, session, MobileInv, Is, WebScreen
<1>12. OnePersonsSession'
  BY <1>1, <1>4 DEF CreateTenant, session, OnePersonsSession, WebScreen
<1>13. AlwaysASelection'
  BY <1>1, <1>4 DEF CreateTenant, session, AlwaysASelection
<1>14. QED
  BY <1>6, <1>7, <1>8, <1>9, <1>10, <1>11, <1>12, <1>13

LEMMA CallInv ==
    ASSUME Inv, NEW f \in Flows, Call(f)
    PROVE  Inv'
<1> USE NullIsFresh, NullIsNoFlow DEF Inv
<1>1. flow[f] = Null
  BY DEF Call
<1> DEFINE r == [Flow("call", "call", Null) EXCEPT !.bearer = token]
<1>2. r \in FlowRecord
  BY <1>1 DEF TypeOK, FlowRecord, Awaits, Flow
<1>3. r.kind = "call" /\ r.at = "call" /\ ~r.served
  BY <1>1, <1>2 DEF TypeOK, Flow
<1>4. Turn(f, r) /\ flow' \in [Flows -> FlowRecord \cup {Null}]
  BY <1>2, SetTurns DEF Call, session
<1>5. r # Null
  BY <1>2
<1> HIDE DEF r
<1>6. TypeOK'
  BY <1>1, <1>3, <1>4, <1>5 DEF Call, session, TypeOK
<1>7. FlowInv'
  BY <1>1, <1>3, <1>4, TurnFits DEF Call, session, FlowInv, Fits
<1>8. RestoreInv'
  BY <1>1, <1>3, <1>4, TurnRestore DEF Call, session, RestoreInv, Nothing, Kind
<1>9. WebInv'
  BY <1>1, <1>4 DEF Call, session, WebInv, Nothing, Turn, Kind, At, Is
<1>10. SignInInv'
  BY <1>1, <1>3, <1>4 DEF Call, session, SignInInv, Turn, Kind, Is
<1>11. MobileInv'
  BY <1>1, <1>4 DEF Call, session, MobileInv, Nothing, Turn, Kind, At, Is
<1>12. OnePersonsSession'
  BY <1>1, <1>4 DEF Call, session, OnePersonsSession
<1>13. AlwaysASelection'
  BY <1>1, <1>4 DEF Call, session, AlwaysASelection
<1>14. QED
  BY <1>6, <1>7, <1>8, <1>9, <1>10, <1>11, <1>12, <1>13

LEMMA LogoutInv ==
    ASSUME Inv, NEW f \in Flows, Logout(f)
    PROVE  Inv'
<1> USE NullIsFresh, NullIsNoFlow DEF Inv
<1>1. flow[f] = Null
  BY DEF Logout
<1> DEFINE r == IF Is("web") THEN Null ELSE Removing
<1>2. r \in FlowRecord \cup {Null} /\ (Is("mobile") => r \in FlowRecord)
  BY <1>1 DEF FlowRecord, Awaits, Flow, Is, Removing
<1>3. /\ Is("web") => r = Null
      /\ Is("mobile") => r.kind = "sign out" /\ r.at = "remove" /\ ~r.served
  BY <1>1, <1>2 DEF Flow, Removing
<1>4. Turn(f, r) /\ flow' \in [Flows -> FlowRecord \cup {Null}]
  <2>1. Set(f, r)
    BY <1>1 DEF Logout, Set, TypeOK
  <2>2. QED
    BY <1>2, <2>1, SetTurns
<1>5. Is("mobile") => r # Null
  BY <1>2
<1> HIDE DEF r
<1>6. TypeOK'
  BY <1>1, <1>4, EnabledFormType DEF Logout, WebLogout, MobileLogout, TypeOK
<1>7. FlowInv'
  BY <1>1, <1>3, <1>4, TurnFits DEF Logout, WebLogout, MobileLogout, FlowInv, Fits, TypeOK, Is
<1>8. RestoreInv'
  BY <1>1, <1>3, <1>4, TurnRestore DEF Logout, WebLogout, MobileLogout, TypeOK, RestoreInv, Is
<1>9. WebInv'
  BY <1>1, <1>4 DEF Logout, WebLogout, MobileLogout, WebInv, Nothing, Is
<1>10. SignInInv'
  BY <1>1, <1>3, <1>4 DEF Logout, WebLogout, MobileLogout, SignInInv, Turn, Kind, Is
<1>11. MobileInv'
  BY <1>1, <1>3, <1>4, <1>5 DEF Logout, WebLogout, MobileLogout, MobileInv, Turn, At, Is
<1>12. OnePersonsSession'
  BY <1>1, <1>4 DEF Logout, WebLogout, MobileLogout, OnePersonsSession
<1>13. AlwaysASelection'
  BY <1>1, <1>4 DEF Logout, WebLogout, MobileLogout, AlwaysASelection
<1>14. QED
  BY <1>6, <1>7, <1>8, <1>9, <1>10, <1>11, <1>12, <1>13

(* Without a restore to end, the flow that was refused signs out ...       *)
LEMMA MobileRefusedInv ==
    ASSUME Inv, NEW f \in Flows, MobileUnauthorized(f), ~Kind(f, "restore")
    PROVE  Inv'
<1> USE NullIsFresh, NullIsNoFlow DEF Inv
<1>1. Is("mobile") /\ flow[f] # Null
  BY DEF MobileUnauthorized, ThroughRequest
<1>2. Removing \in FlowRecord
  BY DEF Removing, Flow, FlowRecord, Awaits
<1>3. Removing.kind = "sign out" /\ Removing.at = "remove" /\ ~Removing.served
  BY DEF Removing, Flow
<1>4. Turn(f, Removing) /\ flow' \in [Flows -> FlowRecord \cup {Null}]
  BY <1>2, SetTurns DEF MobileUnauthorized
<1>5. /\ token' = Null /\ UNCHANGED <<platform, mine, stored, ready, authed, tenants, selected>>
      /\ UNCHANGED <<reopens, mixed>> /\ EnableForm({f})
  BY DEF MobileUnauthorized, MobileLogout
<1>6. TypeOK'
  BY <1>4, <1>5, EnabledFormType DEF TypeOK
<1>7. FlowInv'
  BY <1>1, <1>3, <1>4, <1>5, TurnFits DEF Fits, Is
<1>8. RestoreInv'
  BY <1>2, <1>3, <1>4, <1>5, TurnRestore DEF RestoreInv, Nothing, Is
<1>9. SignInInv'
  BY <1>1, <1>2, <1>3, <1>4, <1>5
  DEF SignInInv, EnableForm, Screen, ScreenOf, MobileScreen, Turn, Kind, At, Is
<1>10. MobileInv'
  <2>1. At(f, "remove")'
    BY <1>2, <1>3, <1>4 DEF Turn, At
  <2>2. ready /\ ~authed /\ ~Nothing /\ ~mixed =>
           \E g \in Flows : g # f /\ Kind(g, "sign in") /\ At(g, "save")
    BY <1>1 DEF MobileInv, MobileUnauthorized, ThroughRequest, At
  <2>3. \A g \in Flows : g # f /\ Kind(g, "sign in") /\ At(g, "save") =>
                             (Kind(g, "sign in") /\ At(g, "save"))'
    BY <1>4 DEF Turn, Kind, At
  <2>4. QED
    BY <1>5, <2>1, <2>2, <2>3 DEF MobileInv, Nothing
<1>11. WebInv' /\ OnePersonsSession' /\ AlwaysASelection'
  BY <1>1, <1>5 DEF WebInv, OnePersonsSession, AlwaysASelection, Is
<1>12. QED
  BY <1>6, <1>7, <1>8, <1>9, <1>10, <1>11

(* ... and a restore that is refused signs out twice.                      *)
LEMMA MobileRestoreRefusedInv ==
    ASSUME Inv, NEW f \in Flows, MobileUnauthorized(f), Kind(f, "restore")
    PROVE  Inv'
<1> USE NullIsFresh, NullIsNoFlow DEF Inv
<1> DEFINE r == Flow("restore", "remove", Null)
<1>1. PICK g \in Flows :
          flow[g] = Null /\ flow' = [flow EXCEPT ![g] = Removing, ![f] = r]
  BY DEF MobileUnauthorized
<1>2. Is("mobile") /\ ~ready /\ Nothing /\ \A h \in Flows : ~Kind(h, "sign in")
  BY DEF MobileUnauthorized, RestoreInv
<1>3. /\ r \in FlowRecord /\ r.kind = "restore" /\ r.at = "remove" /\ ~r.served
      /\ Removing \in FlowRecord /\ Removing.kind = "sign out" /\ Removing.at = "remove"
      /\ ~Removing.served
  BY DEF Removing, Flow, FlowRecord, Awaits
<1> HIDE DEF r
<1>4. /\ flow' \in [Flows -> FlowRecord \cup {Null}]
      /\ \A h \in Flows : flow'[h] = IF h = f THEN r ELSE IF h = g THEN Removing ELSE flow[h]
  BY <1>1, <1>3 DEF TypeOK
<1>5. /\ token' = Null /\ UNCHANGED <<platform, mine, stored, ready, authed, tenants, selected>>
      /\ UNCHANGED <<reopens, mixed>> /\ EnableForm({f})
  BY DEF MobileUnauthorized, MobileLogout
<1>6. \A h \in Flows : flow'[h] \in {r, Removing, flow[h]}
  BY <1>4
<1>7. TypeOK'
  BY <1>4, <1>5, EnabledFormType DEF TypeOK
<1>8. FlowInv'
  <2> SUFFICES ASSUME NEW h \in Flows, flow'[h] # Null PROVE Fits(flow[h])'
    BY DEF FlowInv
  <2>1. CASE flow'[h] \in {r, Removing}
    BY <1>2, <1>3, <1>5, <2>1 DEF Fits, Is
  <2>2. CASE flow'[h] = flow[h]
    BY <1>5, <2>2 DEF FlowInv, Fits, Is
  <2>3. QED
    BY <1>6, <2>1, <2>2
<1>9. RestoreInv'
  <2>1. \A h \in Flows : Kind(h, "restore")' => h = f
    BY <1>1, <1>3, <1>4 DEF RestoreInv, Kind
  <2>2. Kind(f, "restore")'
    BY <1>3, <1>4 DEF Kind
  <2>3. \A h \in Flows : ~Kind(h, "sign in")'
    BY <1>2, <1>3, <1>6 DEF Kind
  <2>4. QED
    BY <1>2, <1>5, <2>1, <2>2, <2>3 DEF RestoreInv, Nothing
<1>10. SignInInv'
  BY <1>2, <1>3, <1>6 DEF SignInInv, Kind
<1>11. MobileInv'
  <2>1. At(f, "remove")'
    BY <1>3, <1>4 DEF At
  <2>2. QED
    BY <1>2, <1>5, <2>1 DEF MobileInv
<1>12. WebInv' /\ OnePersonsSession' /\ AlwaysASelection'
  BY <1>2, <1>5 DEF WebInv, OnePersonsSession, AlwaysASelection, Is
<1>13. QED
  BY <1>7, <1>8, <1>9, <1>10, <1>11, <1>12

-----------------------------------------------------------------------------
(* The switcher and the server.                                            *)

LEMMA SelectTenantInv ==
    ASSUME Inv, NEW t \in Tenants, SelectTenant(t)
    PROVE  Inv'
<1> USE NullIsFresh DEF Inv
<1>1. TypeOK' /\ OnePersonsSession' /\ AlwaysASelection'
  BY DEF SelectTenant, TypeOK, OnePersonsSession, AlwaysASelection
<1>2. FlowInv' /\ SignInInv'
  BY DEF SelectTenant, FlowInv, Fits, SignInInv, Kind, Is
<1>3. RestoreInv' /\ WebInv'
  BY DEF SelectTenant, RestoreInv, WebInv, Kind, Is
<1>4. MobileInv'
  BY DEF SelectTenant, MobileInv, At, Is
<1>5. QED
  BY <1>1, <1>2, <1>3, <1>4

(* An account's restaurants only become more.                              *)
LEMMA InvitedInv ==
    ASSUME Inv, NEW u \in Users, NEW t \in Tenants, Invited(u, t)
    PROVE  Inv'
<1> USE NullIsFresh DEF Inv
<1>1. mine' \in [Users -> SUBSET Tenants] /\ \A v \in Users : mine[v] \subseteq mine'[v]
  BY DEF Invited, TypeOK
<1>2. /\ UNCHANGED <<platform, token, stored, ready, authed, tenants, selected>>
      /\ UNCHANGED <<flow, form, reopens, mixed>>
  BY DEF Invited, session
<1>3. TypeOK' /\ OnePersonsSession' /\ AlwaysASelection'
  BY <1>1, <1>2 DEF TypeOK, OnePersonsSession, AlwaysASelection
<1>4. FlowInv'
  <2> SUFFICES ASSUME NEW f \in Flows, flow[f] # Null PROVE Fits(flow[f])'
    BY <1>2 DEF FlowInv
  <2>1. Fits(flow[f])
    BY DEF FlowInv
  <2>2. QED
    BY <1>1, <1>2, <2>1 DEF Fits, Is
<1>5. RestoreInv' /\ SignInInv'
  BY <1>2 DEF RestoreInv, SignInInv, Nothing, Kind, Is
<1>6. WebInv'
  BY <1>2 DEF WebInv, Nothing, Kind, At, Is
<1>7. MobileInv'
  BY <1>2 DEF MobileInv, Nothing, Kind, At, Is
<1>8. QED
  BY <1>3, <1>4, <1>5, <1>6, <1>7

LEMMA StutterInv ==
    ASSUME Inv, UNCHANGED vars
    PROVE  Inv'
<1> USE DEF Inv, vars, session
<1>1. TypeOK' /\ OnePersonsSession' /\ AlwaysASelection'
  BY DEF TypeOK, OnePersonsSession, AlwaysASelection
<1>2. FlowInv' /\ RestoreInv' /\ SignInInv'
  BY DEF FlowInv, Fits, RestoreInv, SignInInv, Nothing, Kind, Is
<1>3. WebInv' /\ MobileInv'
  BY DEF WebInv, MobileInv, Nothing, Kind, At, Is
<1>4. QED
  BY <1>1, <1>2, <1>3

-----------------------------------------------------------------------------
(* Opening the client, the first time and again.                           *)

(* One flow at most, which restores, and on the web only what is stored.   *)
LEMMA RestoringRestores ==
    ASSUME platform \in {"web", "mobile"}, NEW s \in Users \cup {Null}
    PROVE  /\ Restoring(s) \in [Flows -> FlowRecord \cup {Null}]
           /\ FirstFlow \in Flows
           /\ \A f \in Flows : Restoring(s)[f] # Null =>
                /\ f = FirstFlow /\ Restoring(s)[f].kind = "restore" /\ ~Restoring(s)[f].served
                /\ Is("web") => /\ s # Null /\ Restoring(s)[f].at = "tokens"
                                /\ Restoring(s)[f].who = s
                /\ Is("mobile") => Restoring(s)[f].at = "load"
           /\ Is("mobile") \/ s # Null => Restoring(s)[FirstFlow] # Null
<1> USE NullIsFresh, NullIsNoFlow
<1>1. FirstFlow \in Flows
  BY SomeFlow DEF FirstFlow
<1>2. /\ MobileRestore \in FlowRecord /\ MobileRestore.kind = "restore"
      /\ MobileRestore.at = "load" /\ ~MobileRestore.served
  BY DEF MobileRestore, Flow, FlowRecord, Awaits
<1>3. s = Null => WebRestore(s) = Null
  BY DEF WebRestore
<1>4. s # Null => /\ WebRestore(s) \in FlowRecord /\ WebRestore(s).kind = "restore"
                  /\ WebRestore(s).at = "tokens" /\ WebRestore(s).who = s
                  /\ ~WebRestore(s).served
  BY DEF WebRestore, Flow, FlowRecord, Awaits
<1>5. \A f \in Flows : Restoring(s)[f] = IF f # FirstFlow THEN Null
                                         ELSE IF Is("web") THEN WebRestore(s) ELSE MobileRestore
  BY DEF Restoring
<1>6. Restoring(s) \in [Flows -> FlowRecord \cup {Null}]
  <2>1. \A f \in Flows : (IF f # FirstFlow THEN Null
                          ELSE IF Is("web") THEN WebRestore(s) ELSE MobileRestore)
                            \in FlowRecord \cup {Null}
    BY <1>2, <1>3, <1>4
  <2>2. QED
    BY <2>1 DEF Restoring
<1>7. Is("web") \/ Is("mobile")
  BY DEF Is
<1>8. ~(Is("web") /\ Is("mobile"))
  BY DEF Is
<1>9. QED
  BY <1>1, <1>2, <1>3, <1>4, <1>5, <1>6, <1>7, <1>8

LEMMA InitInv == Init => Inv
<1> SUFFICES ASSUME Init PROVE Inv
  OBVIOUS
<1> USE NullIsFresh DEF Init
<1>1. /\ platform \in {"web", "mobile"} /\ stored \in Users \cup {Null}
      /\ flow = Restoring(stored)
  OBVIOUS
<1>2. /\ flow \in [Flows -> FlowRecord \cup {Null}]
      /\ FirstFlow \in Flows
      /\ \A f \in Flows : flow[f] # Null =>
           /\ f = FirstFlow /\ flow[f].kind = "restore" /\ ~flow[f].served
           /\ Is("web") => stored # Null /\ flow[f].at = "tokens" /\ flow[f].who = stored
           /\ Is("mobile") => flow[f].at = "load"
      /\ Is("mobile") \/ stored # Null => flow[FirstFlow] # Null
  BY <1>1, RestoringRestores
<1>3. TypeOK
  <2>1. reopens \in 0 .. MaxReopens
    BY MaxReopensIsNat
  <2>2. ready \in BOOLEAN
    OBVIOUS
  <2>3. QED
    BY <1>1, <1>2, <2>1, <2>2, MembershipsOfUsers DEF TypeOK
<1>4. FlowInv
  BY <1>1, <1>2 DEF FlowInv, Fits, Is
<1>5. RestoreInv
  BY <1>1, <1>2 DEF RestoreInv, Nothing, Kind, Is
<1>6. WebInv
  BY <1>1, <1>2 DEF WebInv, Nothing, Kind, At
<1>7. SignInInv
  BY <1>2 DEF SignInInv, Kind
<1>8. MobileInv
  BY <1>2 DEF MobileInv, Nothing, Kind
<1>9. QED
  BY <1>3, <1>4, <1>5, <1>6, <1>7, <1>8 DEF Inv, OnePersonsSession, AlwaysASelection

LEMMA ReopenInv ==
    ASSUME Inv, Reopen
    PROVE  Inv'
<1> USE NullIsFresh DEF Inv
<1>1. PICK s : /\ s \in {stored} \cup {Null : f \in {g \in Flows : At(g, "remove")}}
                       \cup {flow[f].who : f \in {g \in Flows : At(g, "save")}}
               /\ stored' = s
               /\ ready' = (Is("web") /\ s = Null)
               /\ flow' = Restoring(s)
  BY DEF Reopen
<1>2. s \in Users \cup {Null}
  BY <1>1 DEF TypeOK, FlowInv, Fits, At
<1>3. /\ platform \in {"web", "mobile"} /\ UNCHANGED <<platform, mine>>
      /\ token' = Null /\ tenants' = {} /\ selected' = Null /\ form' = Null
      /\ authed' = FALSE /\ mixed' = FALSE /\ reopens' \in 0 .. MaxReopens
  BY MaxReopensIsNat DEF Reopen, TypeOK
<1>4. /\ flow' \in [Flows -> FlowRecord \cup {Null}]
      /\ FirstFlow \in Flows
      /\ \A f \in Flows : flow'[f] # Null =>
           /\ f = FirstFlow /\ flow'[f].kind = "restore" /\ ~flow'[f].served
           /\ Is("web") => s # Null /\ flow'[f].at = "tokens" /\ flow'[f].who = s
           /\ Is("mobile") => flow'[f].at = "load"
      /\ Is("mobile") \/ s # Null => flow'[FirstFlow] # Null
  BY <1>1, <1>2, <1>3, RestoringRestores
<1>5. TypeOK'
  BY <1>1, <1>2, <1>3, <1>4 DEF TypeOK
<1>6. FlowInv'
  BY <1>2, <1>3, <1>4 DEF FlowInv, Fits, Is
<1>7. RestoreInv'
  BY <1>1, <1>3, <1>4 DEF RestoreInv, Nothing, Kind, Is
<1>8. WebInv'
  BY <1>1, <1>3, <1>4 DEF WebInv, Nothing, Kind, At, Is
<1>9. SignInInv'
  BY <1>4 DEF SignInInv, Kind
<1>10. MobileInv'
  BY <1>1, <1>3, <1>4 DEF MobileInv, Kind, Is
<1>11. QED
  BY <1>3, <1>5, <1>6, <1>7, <1>8, <1>9, <1>10 DEF OnePersonsSession, AlwaysASelection

-----------------------------------------------------------------------------
LEMMA ResumeInv ==
    ASSUME Inv, NEW f \in Flows, Resume(f)
    PROVE  Inv'
<1>1. CASE Load(f) \/ WebEstablish(f) \/ MobileEstablish(f) \/ MobileSaved(f)
  BY <1>1, LoadInv, WebEstablishInv, MobileEstablishInv, MobileSavedInv
<1>2. CASE ServeTenants(f) \/ RefreshTenants(f) \/ MobileRemoved(f)
  BY <1>2, ServeTenantsInv, RefreshTenantsInv, MobileRemovedInv
<1>3. CASE WebUnauthorized(f) \/ MobileUnauthorized(f)
  BY <1>3, WebUnauthorizedInv, MobileRefusedInv, MobileRestoreRefusedInv
<1>4. CASE WebRestoreFails(f) \/ MobileRestoreFails(f) \/ RequestFails(f)
  BY <1>4, WebRestoreFailsInv, MobileRestoreFailsInv, RequestFailsInv
<1>5. CASE ServeCreate(f) \/ Created(f) \/ Answered(f)
  BY <1>5, ServeCreateInv, CreatedInv, AnsweredInv
<1>6. QED
  BY <1>1, <1>2, <1>3, <1>4, <1>5 DEF Resume

LEMMA SubmitInv ==
    ASSUME Inv, NEW f \in Flows, LoginPage(f) \/ LoginScreen(f)
    PROVE  Inv'
<1>1. PICK u \in Users : Set(f, Flow("sign in", "tokens", u))
  BY DEF LoginPage, LoginScreen, SignIn
<1>2. QED
  BY <1>1, LoginPageInv, LoginScreenInv

LEMMA NextInv == Inv /\ [Next]_vars => Inv'
<1> SUFFICES ASSUME Inv, [Next]_vars PROVE Inv'
  OBVIOUS
<1>1. CASE Reopen
  BY <1>1, ReopenInv
<1>2. ASSUME NEW f \in Flows, Resume(f) \/ LoginPage(f) \/ LoginScreen(f)
      PROVE  Inv'
  BY <1>2, ResumeInv, SubmitInv
<1>3. ASSUME NEW f \in Flows, Logout(f) \/ CreateTenant(f) \/ Call(f)
      PROVE  Inv'
  BY <1>3, LogoutInv, CreateTenantInv, CallInv
<1>4. ASSUME NEW t \in Tenants, SelectTenant(t)
      PROVE  Inv'
  BY <1>4, SelectTenantInv
<1>5. ASSUME NEW u \in Users, NEW t \in Tenants, Invited(u, t)
      PROVE  Inv'
  BY <1>5, InvitedInv
<1>6. CASE UNCHANGED vars
  BY <1>6, StutterInv
<1>7. QED
  BY <1>1, <1>2, <1>3, <1>4, <1>5, <1>6 DEF Next

-----------------------------------------------------------------------------
(* In every state: one restore at a time and the client ready once it has  *)
(* ended, at most one sign-in on the mobile screen, and wherever memory,   *)
(* storage and screen differ a flow under way that will put it right.      *)
THEOREM Invariance == Spec => []Inv
<1>1. Init => Inv
  BY InitInv
<1>2. Inv /\ [Next]_vars => Inv'
  BY NextInv
<1>3. QED
  BY <1>1, <1>2, PTL DEF Spec

(* However sign-ins, sign-outs, refusals and late answers interleave: until *)
(* an answer came to a session that had not asked for it, the restaurants  *)
(* on screen are those of the account the requests are sent for.           *)
THEOREM OnePerson == Spec => []OnePersonsSession
<1>1. Inv => OnePersonsSession
  BY DEF Inv
<1>2. QED
  BY <1>1, Invariance, PTL

(* Memory, storage and screen tell the same story of who is signed in:     *)
(* on the web as soon as somebody is, on mobile when nothing is under way. *)
THEOREM Remembers == Spec => []RemembersSession
<1>1. Inv => RemembersSession
  <2> SUFFICES ASSUME Inv PROVE RemembersSession
    OBVIOUS
  <2> USE NullIsFresh DEF Inv
  <2>1. Is("web") \/ Is("mobile")
    BY DEF TypeOK, Is
  <2>2. Is("web") /\ (authed \/ token # Null) => authed /\ token = stored
    BY DEF WebInv
  <2>3. ASSUME \A f \in Flows : flow[f] = Null, Is("web") \/ ~mixed
        PROVE  ready /\ (authed <=> stored # Null) /\ token = stored
    <3>1. ready
      BY <2>3 DEF RestoreInv, Kind
    <3>2. CASE Is("web")
      BY <2>3, <3>1, <3>2 DEF WebInv, Kind
    <3>3. CASE Is("mobile")
      BY <2>3, <3>1, <3>3 DEF MobileInv, Kind, At, Is
    <3>4. QED
      BY <2>1, <3>1, <3>2, <3>3
  <2>4. QED
    BY <2>2, <2>3 DEF RemembersSession
<1>2. QED
  BY <1>1, Invariance, PTL

(* In whatever order answers arrive, a client that has restaurants to show *)
(* has one selected, so no page waits for a selection for ever.            *)
THEOREM Selects == Spec => []AlwaysASelection
<1>1. Inv => AlwaysASelection
  BY DEF Inv
<1>2. QED
  BY <1>1, Invariance, PTL
=============================================================================
