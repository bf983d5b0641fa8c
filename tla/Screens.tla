------------------------------ MODULE Screens ------------------------------
(***************************************************************************)
(* A page that shows data of the selected restaurant, in a session of one  *)
(* account: the dashboard, the ledger with its dialogs and the audit log   *)
(* of the web client, the home and ledger screens of the mobile client.    *)
(* Each asks the API when the selection changes and shows whatever answer  *)
(* comes, in whatever order.                                               *)
(***************************************************************************)
EXTENDS Naturals, SequencesExt

CONSTANTS
    Tenants,   \* the restaurants the account is a member of
    Entries,   \* ledger entries that may come to exist
    Forms,     \* submissions of dialogs that may be in flight at once
    MaxAsked,  \* bounds the requests of the page in flight
    Null

ASSUME NullIsNoTenant == Null \notin Tenants
ASSUME MaxAskedIsPositive == MaxAsked \in Nat \ {0}

VARIABLES
    page,      \* which page this is
    role,      \* the account's role in each restaurant
    selected,  \* selectedTenantId
    books,     \* the server's: the entries of each restaurant, each with its audit record
    reversals, \* those of the entries that reverse another
    here,      \* the page is mounted (web) or has the focus (mobile)
    view,      \* its state
    asked,     \* its requests in flight, in the order they were made
    form,      \* the submissions of dialogs in flight, or Null
    saved,     \* the entries "Entry saved" or "Entry reversed" was shown for
    excuse     \* what has gone wrong since the page asked last

vars == <<page, role, selected, books, reversals, here, view, asked, form, saved, excuse>>

(* Owner and accountant are the same to all these pages and their routes.  *)
Manager == {"owner or accountant"}
Roles == Manager \cup {"staff"}
WebPages == {"dashboard", "ledger", "audit"}
Pages == WebPages \cup {"home", "mobile ledger"}

(* The roles of the routes the pages read, and canViewDashboard,           *)
(* canViewLedger and canManage, which are the same.                        *)
MayView(t) == role[t] \in Manager

Nothing == [of |-> Null, rows |-> {}]
FreshView == [shown |-> Nothing, loading |-> TRUE, forbidden |-> FALSE, refreshing |-> FALSE]

-----------------------------------------------------------------------------
(* What each page does before it asks.                                     *)

DashboardLoad(v) == [v EXCEPT !.loading = TRUE]
LedgerLoad(v) == [v EXCEPT !.loading = TRUE]
AuditLoad(v) == [v EXCEPT !.loading = TRUE, !.forbidden = FALSE]
MobileLedgerLoad(v) == [v EXCEPT !.loading = TRUE]

(* The home screen does not go back to its spinner, and does not ask for   *)
(* staff.                                                                  *)
HomeLoad(v, t) == IF MayView(t) THEN v ELSE [v EXCEPT !.loading = FALSE]

LoadView(v, t) ==
    CASE page = "dashboard" -> DashboardLoad(v)
      [] page = "ledger" -> LedgerLoad(v)
      [] page = "audit" -> AuditLoad(v)
      [] page = "home" -> HomeLoad(v, t)
      [] page = "mobile ledger" -> MobileLedgerLoad(v)

(* What each does with an answer a: rows, a refusal (403), another error.  *)

(* Mutant: there is no finally.                                            *)
DashboardAnswerOnlyThen(v, a) ==
    IF a.at = "rows"
    THEN [v EXCEPT !.loading = FALSE, !.shown = [of |-> a.of, rows |-> a.rows]] ELSE v

DashboardAnswer(v, a) ==
    [v EXCEPT !.loading = FALSE,
              !.shown = IF a.at = "rows" THEN [of |-> a.of, rows |-> a.rows] ELSE @]

LedgerAnswer(v, a) ==
    [v EXCEPT !.loading = FALSE,
              !.shown = CASE a.at = "rows" -> [of |-> a.of, rows |-> a.rows]
                          [] a.at = "forbidden" -> Nothing
                          [] OTHER -> @]

AuditAnswer(v, a) ==
    [v EXCEPT !.loading = FALSE,
              !.shown = IF a.at = "rows" THEN [of |-> a.of, rows |-> a.rows] ELSE @,
              !.forbidden = @ \/ a.at # "rows"]

HomeAnswer(v, a) ==
    [v EXCEPT !.loading = FALSE, !.refreshing = FALSE,
              !.shown = IF a.at = "rows" THEN [of |-> a.of, rows |-> a.rows] ELSE @]

MobileLedgerAnswer(v, a) ==
    [v EXCEPT !.loading = FALSE,
              !.shown = IF a.at = "rows" THEN [of |-> a.of, rows |-> a.rows] ELSE @]

AnswerView(v, a) ==
    CASE page = "dashboard" -> DashboardAnswer(v, a)
      [] page = "ledger" -> LedgerAnswer(v, a)
      [] page = "audit" -> AuditAnswer(v, a)
      [] page = "home" -> HomeAnswer(v, a)
      [] page = "mobile ledger" -> MobileLedgerAnswer(v, a)

(* What each renders: a skeleton, a notice, or the data of its state.      *)

DashboardShows == IF view.loading THEN Nothing ELSE view.shown
LedgerShows == IF view.loading THEN Nothing ELSE view.shown
AuditShows == IF view.loading \/ view.forbidden THEN Nothing ELSE view.shown
HomeShows == IF ~MayView(selected) \/ view.loading THEN Nothing ELSE view.shown
MobileLedgerShows == IF view.loading THEN Nothing ELSE view.shown

Shows ==
    CASE page = "dashboard" -> DashboardShows
      [] page = "ledger" -> LedgerShows
      [] page = "audit" -> AuditShows
      [] page = "home" -> HomeShows
      [] page = "mobile ledger" -> MobileLedgerShows

-----------------------------------------------------------------------------
(* Asking and answering.                                                   *)

(* The page, with view v and requests in flight q, loads restaurant t on   *)
(* behalf of the selection s.                                              *)
Load(v, q, t, s) ==
    /\ view' = LoadView(v, t)
    /\ IF page = "home" /\ ~MayView(t)
       THEN asked' = q /\ UNCHANGED excuse
       ELSE /\ Len(q) < MaxAsked
            /\ asked' = Append(q, [of |-> t, at |-> "sent", rows |-> {}])
            /\ excuse' = IF t = s THEN {} ELSE {"left the form"}

Init ==
    /\ page \in Pages
    /\ role \in [Tenants -> Roles]
    /\ selected \in Tenants
    /\ books = [t \in Tenants |-> {}]
    /\ reversals = {}
    /\ here = FALSE
    /\ view = FreshView
    /\ asked = <<>>
    /\ form = [f \in Forms |-> Null]
    /\ saved = {}
    /\ excuse = {}

(* The server answers one request of the page, from what is on the books   *)
(* at that moment.                                                         *)
Answer(a) ==
    IF MayView(a.of) THEN [a EXCEPT !.at = "rows", !.rows = books[a.of]]
                     ELSE [a EXCEPT !.at = "forbidden"]

Serve(i) ==
    /\ i \in DOMAIN asked /\ asked[i].at = "sent"
    /\ asked' = [asked EXCEPT ![i] = Answer(@)]
    /\ UNCHANGED <<page, role, selected, books, reversals, here, view, form, saved, excuse>>

(* Failures the page does not recover from without loading again: of the   *)
(* last request, leaving on screen what was there, unless it is a refusal  *)
(* the page knows; and on the audit page of an earlier request, since an   *)
(* answer does not take the notice of a refusal back.                      *)
Spoils(i, a) ==
    IF i = Len(asked)
    THEN a.at = "error" \/ (a.at = "forbidden" /\ page \notin {"ledger", "audit"})
    ELSE a.at # "rows" /\ page = "audit"

Apply(i, a) ==
    /\ view' = AnswerView(view, a)
    /\ asked' = RemoveAt(asked, i)
    /\ excuse' = excuse \cup {x \in {"reordered", "failed"} :
                                  IF x = "reordered" THEN i > 1 ELSE Spoils(i, a)}
    /\ UNCHANGED <<page, role, selected, books, reversals, here, form, saved>>

Receive(i) ==
    /\ i \in DOMAIN asked /\ asked[i].at # "sent"
    /\ Apply(i, asked[i])

(* The network fails, or the server.                                       *)
Break(i) ==
    /\ i \in DOMAIN asked
    /\ Apply(i, [asked[i] EXCEPT !.at = "error"])

-----------------------------------------------------------------------------
(* Moving about.                                                           *)

(* The dialogs go with the page, what they have submitted goes on.         *)
Abandoned == [f \in Forms |-> IF form[f] = Null THEN Null ELSE [form[f] EXCEPT !.live = FALSE]]

(* On the web a page is mounted anew each time.  A mobile tab stays        *)
(* mounted and loads again when it gets the focus; the ledger has no tab   *)
(* for staff.                                                              *)
WebEnter ==
    /\ page \in WebPages
    /\ Load(FreshView, <<>>, selected, selected)
    /\ form' = Abandoned

MobileEnter ==
    /\ page \notin WebPages
    /\ page = "mobile ledger" => MayView(selected)
    /\ Load(view, asked, selected, selected)
    /\ UNCHANGED form

Enter ==
    /\ ~here
    /\ here' = TRUE
    /\ WebEnter \/ MobileEnter
    /\ UNCHANGED <<page, role, selected, books, reversals, saved>>

Leave ==
    /\ here
    /\ here' = FALSE
    /\ IF page \in WebPages
       THEN asked' = <<>> /\ form' = Abandoned
       ELSE UNCHANGED <<asked, form>>
    /\ UNCHANGED <<page, role, selected, books, reversals, view, saved, excuse>>

(* Mutant: the effect does not depend on the selection.                    *)
SelectOnWebAlone(t) ==
    /\ page \in WebPages /\ t # selected
    /\ selected' = t
    /\ UNCHANGED <<page, role, books, reversals, here, form, saved, view, asked, excuse>>

(* The switcher in the web header: the effect of the page runs with the    *)
(* click.                                                                  *)
SelectOnWeb(t) ==
    /\ page \in WebPages /\ t # selected
    /\ selected' = t
    /\ IF here THEN Load(view, asked, t, t) ELSE UNCHANGED <<view, asked, excuse>>
    /\ UNCHANGED <<page, role, books, reversals, here, form, saved>>

(* The list in the mobile settings, another tab.                           *)
SelectOnMobile(t) ==
    /\ page \notin WebPages /\ ~here
    /\ selected' = t
    /\ UNCHANGED <<page, role, books, reversals, here, view, asked, form, saved, excuse>>

(* Pull to refresh on the home screen.                                     *)
Refresh ==
    /\ page = "home" /\ here /\ MayView(selected) /\ ~view.loading
    /\ Load([view EXCEPT !.refreshing = TRUE], asked, selected, selected)
    /\ UNCHANGED <<page, role, selected, books, reversals, here, form, saved>>

-----------------------------------------------------------------------------
(* The dialogs of the web ledger page.                                     *)

(* Mutant: the restaurant of the list on screen.                           *)
SubmissionOfView(e, original) ==
    [of |-> view.shown.of, entry |-> e, original |-> original, at |-> "sent", live |-> TRUE]

InNoBooks(e) == \A t \in Tenants : e \notin books[t]
InNoForm(e) == \A f \in Forms : form[f] # Null => form[f].entry # e

Submission(e, original) ==
    [of |-> selected, entry |-> e, original |-> original, at |-> "sent", live |-> TRUE]

(* The dialogs each disable their button while they submit (submitting);   *)
(* a page that is mounted anew has new ones.                               *)
Posting == \E f \in Forms : form[f] # Null /\ form[f].live /\ form[f].original = Null
Reversing == \E f \in Forms : form[f] # Null /\ form[f].live /\ form[f].original # Null

(* The restaurant and the page's load() are those of the moment of the     *)
(* click.  A dialog can be closed while it is submitting, so the other one *)
(* may be opened, and the selection may change, before the answer.         *)
SubmitPost(f) ==
    /\ page = "ledger" /\ here /\ form[f] = Null /\ ~Posting
    /\ \E e \in Entries :
         /\ InNoBooks(e) /\ InNoForm(e)
         /\ form' = [form EXCEPT ![f] = Submission(e, Null)]
    /\ UNCHANGED <<page, role, selected, books, reversals, here, view, asked, saved, excuse>>

SubmitReversal(f) ==
    /\ page = "ledger" /\ here /\ form[f] = Null /\ ~Reversing /\ MayView(selected)
    /\ \E o \in LedgerShows.rows \ reversals, e \in Entries :
         /\ InNoBooks(e) /\ InNoForm(e)
         /\ form' = [form EXCEPT ![f] = Submission(e, o)]
    /\ UNCHANGED <<page, role, selected, books, reversals, here, view, asked, saved, excuse>>

(* Every role may post; reversing takes another role, and an original that *)
(* is on the books of the same restaurant and no reversal itself.          *)
Accepts(d) ==
    d.original = Null \/ (MayView(d.of) /\ d.original \in books[d.of] \ reversals)

Book(f) ==
    /\ form[f] # Null /\ form[f].at = "sent" /\ InNoBooks(form[f].entry) /\ Accepts(form[f])
    /\ books' = [books EXCEPT ![form[f].of] = @ \cup {form[f].entry}]
    /\ reversals' = IF form[f].original = Null THEN reversals ELSE reversals \cup {form[f].entry}
    /\ form' = [form EXCEPT ![f] = [@ EXCEPT !.at = "booked"]]
    /\ UNCHANGED <<page, role, selected, here, view, asked, saved, excuse>>

(* Mutant: onPosted is not called.                                         *)
ConfirmSilently(f) ==
    /\ form[f] # Null /\ form[f].at = "booked"
    /\ saved' = saved \cup {form[f].entry}
    /\ form' = [form EXCEPT ![f] = Null]
    /\ UNCHANGED <<page, role, selected, books, reversals, here, view, asked, excuse>>

(* 201: the toast, and the page loads the restaurant it had at the click.  *)
Confirm(f) ==
    /\ form[f] # Null /\ form[f].at = "booked"
    /\ saved' = saved \cup {form[f].entry}
    /\ form' = [form EXCEPT ![f] = Null]
    /\ IF form[f].live
       THEN Load(view, asked, form[f].of, selected)
       ELSE excuse' = excuse \cup {"left the form"} /\ UNCHANGED <<view, asked>>
    /\ UNCHANGED <<page, role, selected, books, reversals, here>>

(* An error, or no answer although the entry may be booked.                *)
Refuse(f) ==
    /\ form[f] # Null
    /\ form' = [form EXCEPT ![f] = Null]
    /\ UNCHANGED <<page, role, selected, books, reversals, here, view, asked, saved, excuse>>

(* Somebody else, or a webhook; an entry, or the reversal of one.          *)
OthersPost ==
    /\ \E t \in Tenants, e \in Entries :
         /\ InNoBooks(e) /\ InNoForm(e)
         /\ books' = [books EXCEPT ![t] = @ \cup {e}]
         /\ \/ UNCHANGED reversals
            \/ books[t] \ reversals # {} /\ reversals' = reversals \cup {e}
    /\ UNCHANGED <<page, role, selected, here, view, asked, form, saved, excuse>>

-----------------------------------------------------------------------------
Resolve == \E i \in 1 .. MaxAsked : Serve(i) \/ Receive(i) \/ Break(i)

Next ==
    \/ Resolve
    \/ Enter \/ Leave \/ Refresh
    \/ \E t \in Tenants : SelectOnWeb(t) \/ SelectOnMobile(t)
    \/ \E f \in Forms : SubmitPost(f) \/ SubmitReversal(f) \/ Book(f) \/ Confirm(f) \/ Refuse(f)
    \/ OthersPost

(* Requests are answered or fail.                                          *)
Fairness == WF_vars(Resolve)

Spec == Init /\ [][Next]_vars
FairSpec == Spec /\ Fairness

-----------------------------------------------------------------------------
ViewRecord ==
    [shown : [of : Tenants \cup {Null}, rows : SUBSET Entries],
     loading : BOOLEAN, forbidden : BOOLEAN, refreshing : BOOLEAN]

Request == [of : Tenants, at : {"sent", "rows", "forbidden"}, rows : SUBSET Entries]

FormRecord ==
    [of : Tenants, entry : Entries, original : Entries \cup {Null},
     at : {"sent", "booked"}, live : BOOLEAN]

(* Types.                                                                  *)
TypeOK ==
    /\ page \in Pages /\ role \in [Tenants -> Roles] /\ selected \in Tenants
    /\ books \in [Tenants -> SUBSET Entries]
    /\ reversals \in SUBSET UNION {books[t] : t \in Tenants}
    /\ here \in BOOLEAN
    /\ view \in ViewRecord
    /\ asked \in Seq(Request)
    /\ Len(asked) <= MaxAsked
    /\ form \in [Forms -> FormRecord \cup {Null}]
    /\ saved \in SUBSET Entries
    /\ excuse \in SUBSET {"reordered", "failed", "left the form"}

Settled == here /\ asked = <<>> /\ excuse = {}

(* Switching restaurants scopes the view, provided that answers come in    *)
(* the order of the requests, the last one does not fail, and neither the  *)
(* page nor the restaurant is left while a dialog is submitting: then a    *)
(* page at rest shows the selected restaurant to those who may see it, and *)
(* nothing to others.                                                      *)
SettledIsScoped ==
    Settled => /\ ~view.loading /\ ~view.refreshing
               /\ Shows.of = IF MayView(selected) THEN selected ELSE Null
               /\ Shows.rows \subseteq books[selected]

(* Under the same conditions the ledger page shows every entry its user    *)
(* was told is saved.                                                      *)
SavedIsShown ==
    Settled /\ page = "ledger" /\ MayView(selected) =>
        saved \cap books[selected] \subseteq Shows.rows

(* No page stays on its skeleton or spinner, whatever fails.               *)
LoadingEnds ==
    /\ (here /\ view.loading) ~> ~(here /\ view.loading)
    /\ view.refreshing ~> ~view.refreshing

-----------------------------------------------------------------------------
(* An inductive invariant.                                                 *)

(* What the page holds, has been answered and has been told was on the     *)
(* books, and an answer is the one the account's role entitles it to.      *)
Real(v) == IF v.of = Null THEN v.rows = {} ELSE v.rows \subseteq books[v.of]

BooksInv ==
    /\ Real(view.shown)
    /\ \A i \in DOMAIN asked :
         /\ asked[i].at = "rows" => MayView(asked[i].of)
         /\ asked[i].at = "forbidden" => ~MayView(asked[i].of)
         /\ Real(asked[i])
    /\ \A e \in saved : ~InNoBooks(e)

(* Only the ledger page has dialogs.                                       *)
FormInv ==
    \A f \in Forms : form[f] # Null =>
        /\ page = "ledger"
        /\ form[f].at = "booked" => form[f].entry \in books[form[f].of]

(* A page that waits has asked; only some pages may be on.                 *)
WaitInv ==
    /\ here /\ view.loading => asked # <<>>
    /\ view.refreshing => page = "home" /\ asked # <<>>
    /\ here /\ page = "mobile ledger" => MayView(selected)

Current == here /\ excuse = {}

(* The home screen asks nothing for staff; every other page is entitled to *)
(* an answer about the selected restaurant.                                *)
Asks == page = "home" => MayView(selected)

(* Nothing having gone wrong since, the last request is for the selected   *)
(* restaurant, made after the last entry the user was told is saved ...    *)
LastInv ==
    Current /\ Asks /\ asked # <<>> =>
        LET last == asked[Len(asked)]
        IN  /\ last.of = selected
            /\ page = "audit" => ~view.forbidden
            /\ page = "ledger" /\ last.at = "rows" => saved \cap books[selected] \subseteq last.rows

(* ... and with no request in flight its answer is what the page holds.    *)
HeldInv ==
    Current /\ Asks /\ asked = <<>> =>
        IF MayView(selected)
        THEN /\ view.shown.of = selected
             /\ page = "audit" => ~view.forbidden
             /\ page = "ledger" => saved \cap books[selected] \subseteq view.shown.rows
        ELSE \/ page = "ledger" /\ view.shown = Nothing
             \/ page = "audit" /\ view.forbidden

Inv == TypeOK /\ BooksInv /\ FormInv /\ WaitInv /\ LastInv /\ HeldInv

-----------------------------------------------------------------------------
(* Story 2.4: switching restaurants scopes all views correctly.            *)
ViewsScoped == here => Shows.of \in {selected, Null}
=============================================================================
