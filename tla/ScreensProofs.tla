--------------------------- MODULE ScreensProofs ---------------------------
(***************************************************************************)
(* What a page at rest shows, proved for every set of restaurants and      *)
(* entries and any number of requests in flight: Screens' Inv holds        *)
(* initially and survives every action, and SettledIsScoped and            *)
(* SavedIsShown follow from it.                                            *)
(*                                                                         *)
(* Most actions load the page, take an answer, or put an entry on the      *)
(* books; a lemma each says what that does to Inv.                         *)
(***************************************************************************)
EXTENDS Screens, SequenceTheorems, TLAPS

(* A sequence without its i-th element.                                    *)
LEMMA RemoveAtProperties ==
    ASSUME NEW S, NEW s \in Seq(S), NEW i \in DOMAIN s
    PROVE  /\ RemoveAt(s, i) \in Seq(S)
           /\ Len(RemoveAt(s, i)) = Len(s) - 1
           /\ \A j \in 1 .. Len(s) - 1 :
                RemoveAt(s, i)[j] = IF j < i THEN s[j] ELSE s[j + 1]
<1> DEFINE a == SubSeq(s, 1, i - 1)
           b == SubSeq(s, i + 1, Len(s))
<1>1. Len(s) \in Nat /\ DOMAIN s = 1 .. Len(s) /\ i \in 1 .. Len(s)
  BY LenProperties
<1>2. \A j \in 1 .. Len(s) : s[j] \in S
  BY ElementOfSeq
<1>3. a \in Seq(S) /\ Len(a) = i - 1 /\ \A j \in 1 .. i - 1 : a[j] = s[j]
  BY <1>1, <1>2, SubSeqProperties
<1>4. /\ b \in Seq(S) /\ Len(b) = Len(s) - i
      /\ \A j \in 1 .. Len(s) - i : b[j] = s[i + j]
  BY <1>1, <1>2, SubSeqProperties
<1>5. RemoveAt(s, i) = a \o b
  BY DEF RemoveAt
<1> HIDE DEF a, b
<1>6. /\ a \o b \in Seq(S) /\ Len(a \o b) = Len(a) + Len(b)
      /\ \A j \in 1 .. Len(a) + Len(b) : (a \o b)[j] = IF j <= Len(a) THEN a[j] ELSE b[j - Len(a)]
  BY <1>3, <1>4, ConcatProperties
<1>7. ASSUME NEW j \in 1 .. Len(s) - 1
      PROVE  (a \o b)[j] = IF j < i THEN s[j] ELSE s[j + 1]
  <2>1. j \in 1 .. Len(a) + Len(b)
    BY <1>1, <1>3, <1>4
  <2>2. CASE j < i
    <3>1. j \in 1 .. i - 1 /\ j <= Len(a)
      BY <1>1, <1>3, <2>2
    <3>2. QED
      BY <1>3, <1>6, <2>1, <2>2, <3>1
  <2>3. CASE ~(j < i)
    <3>1. /\ j - (i - 1) \in 1 .. Len(s) - i /\ ~(j <= Len(a)) /\ j - Len(a) = j - (i - 1)
          /\ i + (j - (i - 1)) = j + 1
      BY <1>1, <1>3, <2>3
    <3>2. b[j - (i - 1)] = s[j + 1]
      BY <1>4, <3>1
    <3>3. QED
      BY <1>6, <2>1, <2>3, <3>1, <3>2
  <2>4. QED
    BY <2>2, <2>3
<1>8. QED
  BY <1>1, <1>3, <1>4, <1>5, <1>6, <1>7

LEMMA InitInv == Init => Inv
<1> SUFFICES ASSUME Init PROVE Inv
  OBVIOUS
<1>1. asked \in Seq(Request) /\ Len(asked) <= MaxAsked /\ DOMAIN asked = {}
  BY MaxAskedIsPositive DEF Init
<1>2. view \in ViewRecord /\ view.shown = Nothing /\ ~view.refreshing
  BY DEF Init, FreshView, Nothing, ViewRecord
<1>3. reversals \in SUBSET UNION {books[t] : t \in Tenants}
  BY DEF Init
<1>4. TypeOK
  BY <1>1, <1>2, <1>3 DEF Init, TypeOK
<1>5. BooksInv
  BY <1>1, <1>2 DEF Init, BooksInv, Real, Nothing
<1>6. QED
  BY <1>2, <1>4, <1>5 DEF Init, Inv, FormInv, WaitInv, LastInv, HeldInv, Current

-----------------------------------------------------------------------------
(* Loading.                                                                *)

(* What a page does to its view before it asks.                            *)
LEMMA LoadViewFacts ==
    ASSUME NEW v \in ViewRecord, NEW t \in Tenants, page \in Pages
    PROVE  /\ LoadView(v, t) \in ViewRecord
           /\ LoadView(v, t).shown = v.shown
           /\ LoadView(v, t).refreshing = v.refreshing
           /\ page = "audit" => ~LoadView(v, t).forbidden
           /\ page = "home" /\ ~MayView(t) => ~LoadView(v, t).loading
BY DEF LoadView, DashboardLoad, LedgerLoad, AuditLoad, HomeLoad, MobileLedgerLoad, ViewRecord,
       Pages, WebPages

(* A load leaves a request for restaurant t behind that is the last one    *)
(* and not answered, except on the home screen of staff.                   *)
LEMMA LoadFacts ==
    ASSUME TypeOK, NEW v \in ViewRecord, NEW q \in {asked, <<>>}, NEW t \in Tenants,
           NEW s \in Tenants, Load(v, q, t, s)
    PROVE  /\ asked' \in Seq(Request) /\ Len(asked') <= MaxAsked
           /\ excuse' \in SUBSET {"reordered", "failed", "left the form"}
           /\ \A i \in DOMAIN asked' : \/ i \in DOMAIN asked /\ asked'[i] = asked[i]
                                       \/ asked'[i] = [of |-> t, at |-> "sent", rows |-> {}]
           /\ \/ /\ page = "home" /\ ~MayView(t)
                 /\ asked' = q /\ excuse' = excuse
              \/ /\ asked' # <<>>
                 /\ asked'[Len(asked')] = [of |-> t, at |-> "sent", rows |-> {}]
                 /\ t # s => excuse' # {}
                 /\ page = "home" => MayView(t)
<1> DEFINE fresh == [of |-> t, at |-> "sent", rows |-> {}]
<1>1. q \in Seq(Request) /\ Len(q) <= MaxAsked /\ Len(q) \in Nat /\ DOMAIN q = 1 .. Len(q)
  <2>1. CASE q = asked
    BY <2>1, LenProperties DEF TypeOK
  <2>2. CASE q = <<>>
    BY <2>2, MaxAskedIsPositive
  <2>3. QED
    BY <2>1, <2>2
<1>2. \A i \in DOMAIN q : i \in DOMAIN asked /\ q[i] = asked[i]
  OBVIOUS
<1>3. CASE page = "home" /\ ~MayView(t)
  <2>1. asked' = q /\ excuse' = excuse
    BY <1>3 DEF Load
  <2>2. QED
    BY <1>1, <1>2, <1>3, <2>1 DEF TypeOK
<1>4. CASE ~(page = "home" /\ ~MayView(t))
  <2>1. /\ Len(q) < MaxAsked
        /\ asked' = Append(q, fresh)
        /\ excuse' = IF t = s THEN {} ELSE {"left the form"}
    BY <1>4 DEF Load
  <2>2. fresh \in Request
    BY DEF Request
  <2> HIDE DEF fresh
  <2>3. /\ asked' \in Seq(Request) /\ asked' # <<>> /\ Len(asked') = Len(q) + 1
        /\ \A i \in 1 .. Len(q) : asked'[i] = q[i]
        /\ asked'[Len(q) + 1] = fresh
    <3>1. asked' = Append(q, fresh)
      BY <2>1
    <3>2. QED
      BY ONLY <1>1, <2>2, <3>1, AppendProperties
  <2>4. Len(asked') <= MaxAsked
    <3>1. Len(q) < MaxAsked
      BY <2>1
    <3>2. QED
      BY ONLY <1>1, <2>3, <3>1, MaxAskedIsPositive
  <2>5. DOMAIN asked' = 1 .. Len(q) + 1
    BY <2>3, LenProperties
  <2>6. \A i \in DOMAIN asked' : \/ i \in DOMAIN asked /\ asked'[i] = asked[i]
                                 \/ asked'[i] = fresh
    BY <1>1, <1>2, <2>3, <2>5
  <2>7. QED
    BY <1>4, <2>1, <2>3, <2>4, <2>6 DEF fresh
<1>5. QED
  BY <1>3, <1>4

(* Loading the selected restaurant keeps the invariant; so does, after a   *)
(* dialog, loading another, which is an excuse.                            *)
LEMMA LoadInv ==
    ASSUME Inv, NEW v \in ViewRecord, NEW q \in {asked, <<>>}, NEW t \in Tenants,
           NEW s \in Tenants, Load(v, q, t, s),
           Real(v.shown), v.refreshing => page = "home" /\ (MayView(t) \/ q # <<>>),
           page = "home" => t = s,
           page = "mobile ledger" => MayView(s),
           selected' = s, UNCHANGED <<page, role, books>>,
           \A e \in saved' : ~InNoBooks(e)
    PROVE  /\ view' \in ViewRecord
           /\ asked' \in Seq(Request) /\ Len(asked') <= MaxAsked
           /\ excuse' \in SUBSET {"reordered", "failed", "left the form"}
           /\ BooksInv' /\ WaitInv' /\ LastInv' /\ HeldInv'
<1> DEFINE fresh == [of |-> t, at |-> "sent", rows |-> {}]
<1>1. TypeOK /\ page \in Pages
  BY DEF Inv, TypeOK
<1>2. /\ view' = LoadView(v, t)
      /\ view' \in ViewRecord /\ view'.shown = v.shown /\ view'.refreshing = v.refreshing
      /\ page = "audit" => ~view'.forbidden
      /\ page = "home" /\ ~MayView(t) => ~view'.loading
  BY <1>1, LoadViewFacts DEF Load
<1>3. /\ asked' \in Seq(Request) /\ Len(asked') <= MaxAsked
      /\ excuse' \in SUBSET {"reordered", "failed", "left the form"}
      /\ \A i \in DOMAIN asked' : \/ i \in DOMAIN asked /\ asked'[i] = asked[i]
                                  \/ asked'[i] = fresh
      /\ \/ /\ page = "home" /\ ~MayView(t)
            /\ asked' = q /\ excuse' = excuse
         \/ /\ asked' # <<>>
            /\ asked'[Len(asked')] = fresh
            /\ t # s => excuse' # {}
            /\ page = "home" => MayView(t)
  BY <1>1, LoadFacts
<1>4. \A u \in Tenants : MayView(u)' <=> MayView(u)
  BY DEF MayView
<1>5. BooksInv'
  <2>1. Real(view'.shown)
    BY <1>2
  <2>2. ASSUME NEW i \in DOMAIN asked'
        PROVE  /\ asked'[i].at = "rows" => MayView(asked'[i].of)
               /\ asked'[i].at = "forbidden" => ~MayView(asked'[i].of)
               /\ Real(asked'[i])
    <3>1. CASE i \in DOMAIN asked /\ asked'[i] = asked[i]
      BY <3>1 DEF Inv, BooksInv
    <3>2. CASE asked'[i] = fresh
      <4>1. fresh.of = t /\ fresh.at = "sent" /\ fresh.rows = {} /\ t # Null
        BY NullIsNoTenant
      <4> HIDE DEF fresh
      <4>2. QED
        BY <3>2, <4>1 DEF Real
    <3>3. QED
      BY <1>3, <3>1, <3>2
  <2>3. \A e \in saved' : ~InNoBooks(e)'
    BY DEF InNoBooks
  <2>4. QED
    BY <2>1, <2>2, <2>3 DEF BooksInv, Real, MayView
<1>6. WaitInv'
  BY <1>2, <1>3, <1>4 DEF WaitInv
<1>7. LastInv'
  <2>1. fresh.of = t /\ fresh.at = "sent"
    OBVIOUS
  <2> HIDE DEF fresh
  <2> SUFFICES ASSUME Current', Asks', asked' # <<>>
               PROVE  /\ asked'[Len(asked')].of = s
                      /\ page = "audit" => ~view'.forbidden
                      /\ asked'[Len(asked')].at # "rows"
    BY DEF LastInv
  <2>2. asked'[Len(asked')] = fresh /\ t = s
    BY <1>3, <1>4 DEF Current, Asks
  <2>3. QED
    BY <1>2, <2>1, <2>2
<1>8. HeldInv'
  BY <1>2, <1>3, <1>4 DEF HeldInv, Current, Asks
<1>9. QED
  BY <1>2, <1>3, <1>5, <1>6, <1>7, <1>8

-----------------------------------------------------------------------------
(* Answers.                                                                *)

(* What a page makes of an answer.                                         *)
LEMMA AnswerViewFacts ==
    ASSUME NEW v \in ViewRecord, page \in Pages, NEW a, a.of \in Tenants, a.rows \in SUBSET Entries
    PROVE  /\ AnswerView(v, a) \in ViewRecord
           /\ ~AnswerView(v, a).loading
           /\ AnswerView(v, a).refreshing <=> (v.refreshing /\ page # "home")
           /\ AnswerView(v, a).forbidden <=> (v.forbidden \/ (page = "audit" /\ a.at # "rows"))
           /\ AnswerView(v, a).shown =
                IF a.at = "rows" THEN [of |-> a.of, rows |-> a.rows]
                ELSE IF page = "ledger" /\ a.at = "forbidden" THEN Nothing
                ELSE v.shown
BY DEF AnswerView, DashboardAnswer, LedgerAnswer, AuditAnswer, HomeAnswer, MobileLedgerAnswer,
       ViewRecord, Nothing, Pages, WebPages

(* Taking the answer a to a request, or its failure, keeps the invariant.  *)
LEMMA ApplyInv ==
    ASSUME Inv, NEW i \in DOMAIN asked, NEW a, Apply(i, a),
           a.of = asked[i].of, a.rows = asked[i].rows,
           a.at = "rows" \/ a.at = "forbidden" => asked[i].at = a.at,
           a.at \in {"rows", "forbidden", "error"}
    PROVE  Inv'
<1> DEFINE n == Len(asked)
<1>1. /\ TypeOK /\ BooksInv /\ FormInv /\ WaitInv /\ LastInv /\ HeldInv
      /\ page \in Pages /\ asked \in Seq(Request) /\ view \in ViewRecord
  BY DEF Inv, TypeOK
<1>2. n \in Nat /\ DOMAIN asked = 1 .. n /\ i \in 1 .. n
  BY <1>1, LenProperties
<1>3. asked[i] \in Request /\ a.of \in Tenants /\ a.rows \in SUBSET Entries /\ a.of # Null
  <2>1. asked[i] \in Request
    BY <1>1, <1>2, ElementOfSeq
  <2>2. QED
    BY <2>1, NullIsNoTenant DEF Request
<1>4. /\ asked' \in Seq(Request) /\ Len(asked') = n - 1
      /\ \A j \in 1 .. n - 1 : asked'[j] = IF j < i THEN asked[j] ELSE asked[j + 1]
  BY <1>1, RemoveAtProperties DEF Apply
<1>5. DOMAIN asked' = 1 .. n - 1 /\ (asked' = <<>> <=> n = 1)
  BY <1>2, <1>4, LenProperties
<1>6. /\ view' \in ViewRecord /\ ~view'.loading
      /\ view'.refreshing <=> (view.refreshing /\ page # "home")
      /\ view'.forbidden <=> (view.forbidden \/ (page = "audit" /\ a.at # "rows"))
      /\ view'.shown = IF a.at = "rows" THEN [of |-> a.of, rows |-> a.rows]
                       ELSE IF page = "ledger" /\ a.at = "forbidden" THEN Nothing
                       ELSE view.shown
  BY <1>1, <1>3, AnswerViewFacts DEF Apply
<1>7. /\ excuse' \in SUBSET {"reordered", "failed", "left the form"}
      /\ excuse' = {} => excuse = {} /\ i = 1 /\ ~Spoils(i, a)
  <2> DEFINE more == {x \in {"reordered", "failed"} :
                        IF x = "reordered" THEN i > 1 ELSE Spoils(i, a)}
  <2>1. excuse' = excuse \cup more
    BY DEF Apply
  <2>2. excuse \in SUBSET {"reordered", "failed", "left the form"}
    BY <1>1 DEF TypeOK
  <2>3. more = {} => ~(i > 1) /\ ~Spoils(i, a)
    OBVIOUS
  <2>4. more \subseteq {"reordered", "failed"}
    OBVIOUS
  <2> HIDE DEF more
  <2>5. excuse' = {} => excuse = {} /\ more = {}
    BY <2>1
  <2>6. QED
    <3>1. excuse' \in SUBSET {"reordered", "failed", "left the form"}
      BY <2>1, <2>2, <2>4
    <3>2. ~(i > 1) => i = 1
      BY <1>2
    <3>3. QED
      BY <2>3, <2>5, <3>1, <3>2
<1>8. UNCHANGED <<page, role, selected, books, reversals, here, form, saved>>
  BY DEF Apply
<1>9. /\ \A j \in 1 .. n : Real(asked[j]) /\ (asked[j].at = "rows" => MayView(asked[j].of))
      /\ \A j \in 1 .. n : asked[j].at = "forbidden" => ~MayView(asked[j].of)
      /\ Real(view.shown)
  BY <1>1, <1>2 DEF BooksInv
<1> HIDE DEF n
<1>10. TypeOK'
  <2>1. Len(asked') <= MaxAsked
    <3>1. n <= MaxAsked
      BY <1>1 DEF TypeOK, n
    <3>2. QED
      BY <1>2, <1>4, <3>1, MaxAskedIsPositive
  <2>2. /\ view' \in ViewRecord /\ asked' \in Seq(Request)
        /\ excuse' \in SUBSET {"reordered", "failed", "left the form"}
    BY <1>4, <1>6, <1>7
  <2>3. QED
    BY <1>1, <1>8, <2>1, <2>2 DEF TypeOK
<1>11. BooksInv'
  <2>1. Real(view'.shown)
    BY <1>3, <1>2, <1>6, <1>9 DEF Real, Nothing
  <2>2. \A j \in 1 .. n - 1 : \E k \in 1 .. n : asked'[j] = asked[k]
    BY <1>2, <1>4
  <2>3. \A j \in DOMAIN asked' :
          /\ asked'[j].at = "rows" => MayView(asked'[j].of)
          /\ asked'[j].at = "forbidden" => ~MayView(asked'[j].of)
          /\ Real(asked'[j])
    BY <1>5, <1>9, <2>2
  <2>4. QED
    BY <1>1, <1>8, <2>1, <2>3 DEF BooksInv, Real, MayView, InNoBooks
<1>12. FormInv' /\ WaitInv'
  BY <1>1, <1>6, <1>8 DEF FormInv, WaitInv, MayView
<1>13. ASSUME Current', Asks'
       PROVE  Current /\ Asks /\ i = 1 /\ ~Spoils(1, a)
  BY <1>7, <1>8, <1>13 DEF Current, Asks, MayView
<1>14. ASSUME Current, Asks
       PROVE  /\ asked[n].of = selected
              /\ page = "audit" => ~view.forbidden
              /\ page = "ledger" /\ asked[n].at = "rows" =>
                   saved \cap books[selected] \subseteq asked[n].rows
  BY <1>1, <1>2, <1>14 DEF LastInv, n
<1>15. LastInv'
  <2> SUFFICES ASSUME Current', Asks', asked' # <<>>
               PROVE  /\ asked'[Len(asked')].of = selected
                      /\ page = "audit" => ~view'.forbidden
                      /\ page = "ledger" /\ asked'[Len(asked')].at = "rows" =>
                           saved \cap books[selected] \subseteq asked'[Len(asked')].rows
    BY <1>8 DEF LastInv
  <2>1. Current /\ Asks /\ i = 1 /\ ~Spoils(1, a)
    BY <1>13
  <2>2. n # 1 /\ asked'[Len(asked')] = asked[n]
    BY <1>2, <1>4, <1>5, <2>1
  <2>3. page = "audit" => a.at = "rows"
    BY <2>1, <2>2 DEF Spoils, n
  <2>4. QED
    BY <1>6, <1>14, <2>1, <2>2, <2>3
<1>16. HeldInv'
  <2> SUFFICES ASSUME Current', Asks', asked' = <<>>
               PROVE  IF MayView(selected)
                      THEN /\ view'.shown.of = selected
                           /\ page = "audit" => ~view'.forbidden
                           /\ page = "ledger" => saved \cap books[selected] \subseteq view'.shown.rows
                      ELSE \/ page = "ledger" /\ view'.shown = Nothing
                           \/ page = "audit" /\ view'.forbidden
    BY <1>8 DEF HeldInv, MayView, Nothing
  <2>1. Current /\ Asks /\ i = 1 /\ ~Spoils(1, a) /\ n = 1
    BY <1>5, <1>13
  <2>2. a.at = "rows" \/ (a.at = "forbidden" /\ page \in {"ledger", "audit"})
    BY <2>1 DEF Spoils, n
  <2>3. CASE a.at = "rows"
    <3>1. MayView(selected) /\ view'.shown.of = selected /\ view'.shown.rows = asked[1].rows
      BY <1>6, <1>9, <1>14, <2>1, <2>3
    <3>2. QED
      BY <1>6, <1>14, <2>1, <2>3, <3>1
  <2>4. CASE a.at = "forbidden" /\ page \in {"ledger", "audit"}
    <3>1. ~MayView(selected)
      BY <1>9, <1>14, <2>1, <2>4
    <3>2. QED
      BY <1>6, <2>4, <3>1
  <2>5. QED
    BY <2>2, <2>3, <2>4
<1>17. QED
  BY <1>10, <1>11, <1>12, <1>15, <1>16 DEF Inv

(* The server answers a request from the books of that moment.             *)
LEMMA ServeInv ==
    ASSUME Inv, NEW i \in 1 .. MaxAsked, Serve(i)
    PROVE  Inv'
<1> DEFINE r == Answer(asked[i])
<1>1. /\ TypeOK /\ BooksInv /\ FormInv /\ WaitInv /\ LastInv /\ HeldInv
      /\ asked \in Seq(Request) /\ i \in DOMAIN asked /\ asked[i].at = "sent"
      /\ books \in [Tenants -> SUBSET Entries] /\ selected \in Tenants
  BY DEF Inv, TypeOK, Serve
<1>2. Len(asked) \in Nat /\ DOMAIN asked = 1 .. Len(asked) /\ i \in 1 .. Len(asked)
  BY <1>1, LenProperties
<1>3. asked[i] \in Request
  BY <1>1, <1>2, ElementOfSeq
<1>4. /\ r \in Request /\ r.of = asked[i].of
      /\ r.at = "rows" => MayView(r.of) /\ r.rows = books[r.of]
      /\ r.at = "forbidden" => ~MayView(r.of) /\ r.rows = asked[i].rows
      /\ r.at # "sent"
  BY <1>1, <1>3 DEF Answer, Request
<1> HIDE DEF r
<1>5. asked' = [asked EXCEPT ![i] = r]
  BY DEF Serve, r
<1>6. /\ asked' \in Seq(Request) /\ Len(asked') = Len(asked)
      /\ \A j \in 1 .. Len(asked) : asked'[j] = IF j = i THEN r ELSE asked[j]
  BY ONLY <1>1, <1>2, <1>4, <1>5, ExceptSeq
<1>7. DOMAIN asked' = 1 .. Len(asked) /\ asked' # <<>> /\ asked # <<>>
  BY <1>2, <1>6, LenProperties
<1>8. UNCHANGED <<page, role, selected, books, reversals, here, view, form, saved, excuse>>
  BY DEF Serve
<1>9. TypeOK'
  BY <1>1, <1>6, <1>8 DEF TypeOK
<1>10. Real(r)
  <2>1. Real(asked[i]) /\ r.of # Null
    BY <1>1, <1>4, NullIsNoTenant DEF BooksInv, Request
  <2>2. r.at = "rows" \/ r.at = "forbidden"
    BY <1>4 DEF Request
  <2>3. QED
    BY <1>4, <2>1, <2>2 DEF Real
<1>11. BooksInv'
  <2>1. \A j \in 1 .. Len(asked) :
          /\ asked[j].at = "rows" => MayView(asked[j].of)
          /\ asked[j].at = "forbidden" => ~MayView(asked[j].of)
          /\ Real(asked[j])
    BY <1>1, <1>2 DEF BooksInv
  <2>2. \A j \in DOMAIN asked' :
          /\ asked'[j].at = "rows" => MayView(asked'[j].of)
          /\ asked'[j].at = "forbidden" => ~MayView(asked'[j].of)
          /\ Real(asked'[j])
    BY <1>4, <1>6, <1>7, <1>10, <2>1
  <2>3. QED
    BY <1>1, <1>8, <2>2 DEF BooksInv, Real, MayView, InNoBooks
<1>12. FormInv' /\ WaitInv'
  BY <1>1, <1>7, <1>8 DEF FormInv, WaitInv, MayView
<1>13. LastInv'
  <2> SUFFICES ASSUME Current', Asks'
               PROVE  /\ asked'[Len(asked')].of = selected
                      /\ page = "audit" => ~view.forbidden
                      /\ page = "ledger" /\ asked'[Len(asked')].at = "rows" =>
                           saved \cap books[selected] \subseteq asked'[Len(asked')].rows
    BY <1>8 DEF LastInv
  <2>1. Current /\ Asks
    BY <1>8 DEF Current, Asks, MayView
  <2>2. /\ asked[Len(asked)].of = selected
        /\ page = "audit" => ~view.forbidden
        /\ page = "ledger" /\ asked[Len(asked)].at = "rows" =>
             saved \cap books[selected] \subseteq asked[Len(asked)].rows
    BY <1>1, <1>7, <2>1 DEF LastInv
  <2>3. asked'[Len(asked')] = IF i = Len(asked) THEN r ELSE asked[Len(asked)]
    <3>1. Len(asked) \in 1 .. Len(asked)
      BY <1>2
    <3>2. QED
      BY <1>6, <3>1
  <2>4. QED
    BY <1>4, <2>2, <2>3
<1>14. HeldInv'
  BY <1>7 DEF HeldInv
<1>15. QED
  BY <1>9, <1>11, <1>12, <1>13, <1>14 DEF Inv

LEMMA ReceiveInv ==
    ASSUME Inv, NEW i \in 1 .. MaxAsked, Receive(i)
    PROVE  Inv'
<1>1. i \in DOMAIN asked /\ asked[i].at # "sent" /\ Apply(i, asked[i])
  BY DEF Receive
<1>2. asked[i] \in Request
  BY <1>1, LenProperties, ElementOfSeq DEF Inv, TypeOK
<1>3. asked[i].at \in {"rows", "forbidden", "error"}
  BY <1>1, <1>2 DEF Request
<1>4. QED
  BY <1>1, <1>3, ApplyInv

LEMMA BreakInv ==
    ASSUME Inv, NEW i \in 1 .. MaxAsked, Break(i)
    PROVE  Inv'
<1> DEFINE a == [asked[i] EXCEPT !.at = "error"]
<1>1. i \in DOMAIN asked /\ Apply(i, a)
  BY DEF Break
<1>2. asked[i] \in Request
  BY <1>1, LenProperties, ElementOfSeq DEF Inv, TypeOK
<1>3. a.of = asked[i].of /\ a.rows = asked[i].rows /\ a.at = "error"
  BY <1>2 DEF Request
<1> HIDE DEF a
<1>4. QED
  BY <1>1, <1>3, ApplyInv

-----------------------------------------------------------------------------
(* Moving about.                                                           *)

(* A view as it is mounted, and the form a page leaves behind.             *)
LEMMA FreshViewFacts ==
    FreshView \in ViewRecord /\ Real(FreshView.shown) /\ ~FreshView.refreshing
BY DEF FreshView, ViewRecord, Nothing, Real

LEMMA LeftForm ==
    ASSUME TypeOK, FormInv, UNCHANGED <<page, books>>, form' = Abandoned
    PROVE  form' \in [Forms -> FormRecord \cup {Null}] /\ FormInv'
<1>1. \A f \in Forms : form[f] # Null =>
        /\ [form[f] EXCEPT !.live = FALSE] \in FormRecord
        /\ [form[f] EXCEPT !.live = FALSE].at = form[f].at
        /\ [form[f] EXCEPT !.live = FALSE].entry = form[f].entry
        /\ [form[f] EXCEPT !.live = FALSE].of = form[f].of
  BY DEF TypeOK, FormRecord
<1>2. form' \in [Forms -> FormRecord \cup {Null}]
  BY <1>1 DEF Abandoned
<1>3. FormInv'
  BY <1>1 DEF Abandoned, FormInv
<1>4. QED
  BY <1>2, <1>3

LEMMA EnterInv ==
    ASSUME Inv, Enter
    PROVE  Inv'
<1>1. /\ TypeOK /\ BooksInv /\ FormInv /\ WaitInv
      /\ selected \in Tenants /\ view \in ViewRecord
  BY DEF Inv, TypeOK
<1>2. here' = TRUE /\ UNCHANGED <<page, role, selected, books, reversals, saved>>
  BY DEF Enter
<1>3. \A e \in saved' : ~InNoBooks(e)
  BY <1>1, <1>2 DEF BooksInv
<1> DEFINE Loaded == /\ view' \in ViewRecord
                     /\ asked' \in Seq(Request) /\ Len(asked') <= MaxAsked
                     /\ excuse' \in SUBSET {"reordered", "failed", "left the form"}
                     /\ BooksInv' /\ WaitInv' /\ LastInv' /\ HeldInv'
<1>4. CASE WebEnter
  <2>1. page \in WebPages /\ Load(FreshView, <<>>, selected, selected)
    BY <1>4 DEF WebEnter
  <2>2. page # "home" /\ page # "mobile ledger"
    BY <2>1 DEF WebPages
  <2>3. Loaded
    BY <1>1, <1>2, <1>3, <2>1, <2>2, FreshViewFacts, LoadInv
  <2>4. form' \in [Forms -> FormRecord \cup {Null}] /\ FormInv'
    BY <1>1, <1>2, <1>4, LeftForm DEF WebEnter
  <2>5. QED
    BY <1>1, <1>2, <2>3, <2>4 DEF Inv, TypeOK
<1>5. CASE MobileEnter
  <2>1. /\ page = "mobile ledger" => MayView(selected)
        /\ Load(view, asked, selected, selected) /\ UNCHANGED form
    BY <1>5 DEF MobileEnter
  <2>2. Real(view.shown) /\ (view.refreshing => page = "home" /\ asked # <<>>)
    BY <1>1 DEF BooksInv, WaitInv
  <2>3. Loaded
    BY <1>1, <1>2, <1>3, <2>1, <2>2, LoadInv
  <2>4. FormInv'
    BY <1>1, <1>2, <2>1 DEF FormInv
  <2>5. QED
    BY <1>1, <1>2, <2>1, <2>3, <2>4 DEF Inv, TypeOK
<1>6. QED
  BY <1>4, <1>5 DEF Enter

LEMMA LeaveInv ==
    ASSUME Inv, Leave
    PROVE  Inv'
<1>1. TypeOK /\ BooksInv /\ FormInv /\ WaitInv
  BY DEF Inv
<1>2. ~here' /\ UNCHANGED <<page, role, selected, books, reversals, view, saved, excuse>>
  BY DEF Leave
<1>3. CASE page \in WebPages
  <2>1. asked' = <<>> /\ asked' \in Seq(Request) /\ Len(asked') <= MaxAsked /\ DOMAIN asked' = {}
    BY <1>3, MaxAskedIsPositive DEF Leave
  <2>2. form' \in [Forms -> FormRecord \cup {Null}] /\ FormInv'
    BY <1>1, <1>2, <1>3, LeftForm DEF Leave
  <2>3. TypeOK'
    <3>1. here' \in BOOLEAN
      BY DEF Leave
    <3>2. QED
      BY <1>1, <1>2, <2>1, <2>2, <3>1 DEF TypeOK
  <2>4. BooksInv'
    BY <1>1, <1>2, <2>1 DEF BooksInv, Real, InNoBooks
  <2>5. WaitInv'
    BY <1>1, <1>2, <1>3 DEF WaitInv, WebPages
  <2>6. QED
    BY <1>2, <2>2, <2>3, <2>4, <2>5 DEF Inv, LastInv, HeldInv, Current
<1>4. CASE page \notin WebPages
  <2>1. UNCHANGED <<asked, form>>
    BY <1>4 DEF Leave
  <2>2. TypeOK'
    <3>1. here' \in BOOLEAN
      BY DEF Leave
    <3>2. QED
      BY <1>1, <1>2, <2>1, <3>1 DEF TypeOK
  <2>3. BooksInv' /\ FormInv' /\ WaitInv'
    BY <1>1, <1>2, <2>1 DEF BooksInv, FormInv, WaitInv, Real, MayView, InNoBooks
  <2>4. QED
    BY <1>2, <2>2, <2>3 DEF Inv, LastInv, HeldInv, Current
<1>5. QED
  BY <1>3, <1>4

LEMMA SelectOnWebInv ==
    ASSUME Inv, NEW t \in Tenants, SelectOnWeb(t)
    PROVE  Inv'
<1>1. TypeOK /\ BooksInv /\ FormInv /\ WaitInv /\ view \in ViewRecord
  BY DEF Inv, TypeOK
<1>2. /\ page \in WebPages /\ selected' = t
      /\ UNCHANGED <<page, role, books, reversals, here, form, saved>>
  BY DEF SelectOnWeb
<1>3. page # "home" /\ page # "mobile ledger" /\ ~view.refreshing
  BY <1>1, <1>2 DEF WebPages, WaitInv
<1>4. FormInv'
  BY <1>1, <1>2 DEF FormInv
<1>5. CASE here
  <2>1. Load(view, asked, t, t)
    BY <1>5 DEF SelectOnWeb
  <2>2. Real(view.shown) /\ \A e \in saved' : ~InNoBooks(e)
    BY <1>1, <1>2 DEF BooksInv
  <2>3. /\ view' \in ViewRecord
        /\ asked' \in Seq(Request) /\ Len(asked') <= MaxAsked
        /\ excuse' \in SUBSET {"reordered", "failed", "left the form"}
        /\ BooksInv' /\ WaitInv' /\ LastInv' /\ HeldInv'
    BY <1>1, <1>2, <1>3, <2>1, <2>2, LoadInv
  <2>4. QED
    BY <1>1, <1>2, <1>4, <2>3 DEF Inv, TypeOK
<1>6. CASE ~here
  <2>1. UNCHANGED <<view, asked, excuse>>
    BY <1>6 DEF SelectOnWeb
  <2>2. TypeOK'
    BY <1>1, <1>2, <2>1 DEF TypeOK
  <2>3. BooksInv' /\ WaitInv'
    BY <1>1, <1>2, <1>3, <2>1 DEF BooksInv, WaitInv, Real, MayView, InNoBooks
  <2>4. QED
    BY <1>2, <1>4, <1>6, <2>2, <2>3 DEF Inv, LastInv, HeldInv, Current
<1>7. QED
  BY <1>5, <1>6

LEMMA SelectOnMobileInv ==
    ASSUME Inv, NEW t \in Tenants, SelectOnMobile(t)
    PROVE  Inv'
<1>1. TypeOK /\ BooksInv /\ FormInv /\ WaitInv
  BY DEF Inv
<1>2. /\ ~here /\ selected' = t
      /\ UNCHANGED <<page, role, books, reversals, here, view, asked, form, saved, excuse>>
  BY DEF SelectOnMobile
<1>3. TypeOK' /\ BooksInv' /\ FormInv' /\ WaitInv'
  BY <1>1, <1>2 DEF TypeOK, BooksInv, FormInv, WaitInv, Real, MayView, InNoBooks
<1>4. QED
  BY <1>2, <1>3 DEF Inv, LastInv, HeldInv, Current

LEMMA RefreshInv ==
    ASSUME Inv, Refresh
    PROVE  Inv'
<1> DEFINE v == [view EXCEPT !.refreshing = TRUE]
<1>1. /\ TypeOK /\ BooksInv /\ FormInv
      /\ selected \in Tenants /\ view \in ViewRecord
  BY DEF Inv, TypeOK
<1>2. /\ page = "home" /\ MayView(selected) /\ Load(v, asked, selected, selected)
      /\ UNCHANGED <<page, role, selected, books, reversals, here, form, saved>>
  BY DEF Refresh
<1>3. v \in ViewRecord /\ v.shown = view.shown
  BY <1>1 DEF ViewRecord
<1> HIDE DEF v
<1>4. Real(v.shown) /\ \A e \in saved' : ~InNoBooks(e)
  BY <1>1, <1>2, <1>3 DEF BooksInv
<1>5. /\ view' \in ViewRecord
      /\ asked' \in Seq(Request) /\ Len(asked') <= MaxAsked
      /\ excuse' \in SUBSET {"reordered", "failed", "left the form"}
      /\ BooksInv' /\ WaitInv' /\ LastInv' /\ HeldInv'
  BY <1>1, <1>2, <1>3, <1>4, LoadInv
<1>6. FormInv'
  BY <1>1, <1>2 DEF FormInv
<1>7. QED
  BY <1>1, <1>2, <1>5, <1>6 DEF Inv, TypeOK

-----------------------------------------------------------------------------
(* The dialogs and the books.                                              *)

(* One submission comes, changes or goes, while the books may grow.        *)
LEMMA FormStep ==
    ASSUME TypeOK, FormInv, UNCHANGED page, NEW f \in Forms, NEW d \in FormRecord \cup {Null},
           form' = [form EXCEPT ![f] = d],
           \A t \in Tenants : books[t] \subseteq books'[t],
           d # Null => page = "ledger" /\ (d.at = "booked" => d.entry \in books'[d.of])
    PROVE  form' \in [Forms -> FormRecord \cup {Null}] /\ FormInv'
<1>1. form' \in [Forms -> FormRecord \cup {Null}]
  BY DEF TypeOK
<1>2. \A g \in Forms : form'[g] = IF g = f THEN d ELSE form[g]
  BY DEF TypeOK
<1>3. \A g \in Forms : form[g] # Null => form[g].of \in Tenants
  BY DEF TypeOK, FormRecord
<1>4. FormInv'
  <2> SUFFICES ASSUME NEW g \in Forms, form'[g] # Null
               PROVE  /\ page = "ledger"
                      /\ form'[g].at = "booked" => form'[g].entry \in books'[form'[g].of]
    BY DEF FormInv
  <2>1. CASE g = f
    BY <1>2, <2>1
  <2>2. CASE g # f
    BY <1>2, <1>3, <2>2 DEF FormInv
  <2>3. QED
    BY <2>1, <2>2
<1>5. QED
  BY <1>1, <1>4

LEMMA SubmitInv ==
    ASSUME Inv, NEW f \in Forms, SubmitPost(f) \/ SubmitReversal(f)
    PROVE  Inv'
<1>1. TypeOK /\ BooksInv /\ FormInv /\ WaitInv /\ LastInv /\ HeldInv
  BY DEF Inv
<1>2. /\ page = "ledger"
      /\ UNCHANGED <<page, role, selected, books, reversals, here, view, asked, saved, excuse>>
  BY DEF SubmitPost, SubmitReversal
<1>3. LedgerShows.rows \in SUBSET Entries
  BY <1>1 DEF TypeOK, ViewRecord, LedgerShows, Nothing
<1>4. PICK e \in Entries, o \in Entries \cup {Null} :
        form' = [form EXCEPT ![f] = Submission(e, o)]
  BY <1>3 DEF SubmitPost, SubmitReversal
<1>5. Submission(e, o) \in FormRecord /\ Submission(e, o).at = "sent"
  BY <1>1 DEF Submission, FormRecord, TypeOK
<1>6. form' \in [Forms -> FormRecord \cup {Null}] /\ FormInv'
  BY <1>1, <1>2, <1>4, <1>5, FormStep
<1>7. TypeOK'
  BY <1>1, <1>2, <1>6 DEF TypeOK
<1>8. BooksInv' /\ WaitInv'
  BY <1>1, <1>2 DEF BooksInv, WaitInv, Real, MayView, InNoBooks
<1>9. LastInv' /\ HeldInv'
  BY <1>1, <1>2 DEF LastInv, HeldInv, Current, Asks, MayView, Nothing
<1>10. QED
  BY <1>6, <1>7, <1>8, <1>9 DEF Inv

(* A new entry on the books leaves what the page shows as true as it was.  *)
LEMMA BooksGrow ==
    ASSUME Inv, NEW t \in Tenants, NEW e \in Entries, InNoBooks(e),
           books' = [books EXCEPT ![t] = @ \cup {e}],
           UNCHANGED <<page, role, selected, here, view, asked, saved, excuse>>
    PROVE  /\ books' \in [Tenants -> SUBSET Entries]
           /\ \A u \in Tenants : books[u] \subseteq books'[u]
           /\ e \in books'[t]
           /\ BooksInv' /\ WaitInv' /\ LastInv' /\ HeldInv'
<1>1. /\ TypeOK /\ BooksInv /\ WaitInv /\ LastInv /\ HeldInv
      /\ books \in [Tenants -> SUBSET Entries] /\ selected \in Tenants
      /\ view \in ViewRecord /\ asked \in Seq(Request)
  BY DEF Inv, TypeOK
<1>2. /\ books' \in [Tenants -> SUBSET Entries]
      /\ \A u \in Tenants : books[u] \subseteq books'[u]
      /\ e \in books'[t]
      /\ \A u \in Tenants : books'[u] \subseteq books[u] \cup {e}
  BY <1>1
<1>3. e \notin saved
  BY <1>1 DEF BooksInv
<1>4. saved \cap books'[selected] = saved \cap books[selected]
  BY <1>1, <1>2, <1>3
<1>5. BooksInv'
  <2>1. view.shown.of \in Tenants \cup {Null}
    BY <1>1 DEF ViewRecord
  <2>2. \A i \in DOMAIN asked : asked[i].of \in Tenants
    <3>1. \A i \in DOMAIN asked : asked[i] \in Request
      BY <1>1, LenProperties, ElementOfSeq
    <3>2. QED
      BY <3>1 DEF Request
  <2>3. Real(view.shown)'
    BY <1>1, <1>2, <2>1 DEF BooksInv, Real
  <2>4. \A i \in DOMAIN asked : Real(asked[i])'
    BY <1>1, <1>2, <2>2 DEF BooksInv, Real
  <2>5. \A x \in saved : ~InNoBooks(x)'
    BY <1>1, <1>2 DEF BooksInv, InNoBooks
  <2>6. QED
    BY <1>1, <2>3, <2>4, <2>5 DEF BooksInv, MayView
<1>6. WaitInv'
  BY <1>1 DEF WaitInv, MayView
<1>7. LastInv' /\ HeldInv'
  BY <1>1, <1>4 DEF LastInv, HeldInv, Current, Asks, MayView, Nothing
<1>8. QED
  BY <1>2, <1>5, <1>6, <1>7

LEMMA BookInv ==
    ASSUME Inv, NEW f \in Forms, Book(f)
    PROVE  Inv'
<1> DEFINE d == form[f]
           b == [d EXCEPT !.at = "booked"]
<1>1. TypeOK /\ FormInv
  BY DEF Inv
<1>2. /\ d # Null /\ InNoBooks(d.entry)
      /\ books' = [books EXCEPT ![d.of] = @ \cup {d.entry}]
      /\ reversals' = IF d.original = Null THEN reversals ELSE reversals \cup {d.entry}
      /\ UNCHANGED <<page, role, selected, here, view, asked, saved, excuse>>
  BY DEF Book
<1>3. d \in FormRecord /\ d.of \in Tenants /\ d.entry \in Entries
  BY <1>1, <1>2 DEF TypeOK, FormRecord
<1>4. /\ books' \in [Tenants -> SUBSET Entries]
      /\ \A u \in Tenants : books[u] \subseteq books'[u]
      /\ d.entry \in books'[d.of]
      /\ BooksInv' /\ WaitInv' /\ LastInv' /\ HeldInv'
  BY <1>2, <1>3, BooksGrow
<1>5. /\ b \in FormRecord /\ b.entry = d.entry /\ b.of = d.of
      /\ form' = [form EXCEPT ![f] = b]
  BY <1>3 DEF FormRecord, Book
<1>6. reversals' \in SUBSET UNION {books'[t] : t \in Tenants}
  <2>1. UNION {books[t] : t \in Tenants} \subseteq UNION {books'[t] : t \in Tenants}
    BY <1>4
  <2>2. d.entry \in UNION {books'[t] : t \in Tenants}
    BY <1>3, <1>4
  <2>3. reversals \in SUBSET UNION {books[t] : t \in Tenants}
    BY <1>1 DEF TypeOK
  <2>4. QED
    BY <1>2, <2>1, <2>2, <2>3
<1>7. page = "ledger"
  BY <1>1, <1>2 DEF FormInv
<1> HIDE DEF b
<1>8. form' \in [Forms -> FormRecord \cup {Null}] /\ FormInv'
  BY <1>1, <1>2, <1>4, <1>5, <1>7, FormStep
<1>9. TypeOK'
  BY <1>1, <1>2, <1>4, <1>6, <1>8 DEF TypeOK
<1>10. QED
  BY <1>4, <1>8, <1>9 DEF Inv

LEMMA OthersPostInv ==
    ASSUME Inv, OthersPost
    PROVE  Inv'
<1>1. TypeOK /\ FormInv
  BY DEF Inv
<1>2. PICK t \in Tenants, e \in Entries :
         /\ InNoBooks(e)
         /\ books' = [books EXCEPT ![t] = @ \cup {e}]
         /\ reversals' \in {reversals, reversals \cup {e}}
  BY DEF OthersPost
<1>3. UNCHANGED <<page, role, selected, here, view, asked, form, saved, excuse>>
  BY DEF OthersPost
<1>4. /\ books' \in [Tenants -> SUBSET Entries]
      /\ \A u \in Tenants : books[u] \subseteq books'[u]
      /\ e \in books'[t]
      /\ BooksInv' /\ WaitInv' /\ LastInv' /\ HeldInv'
  BY <1>2, <1>3, BooksGrow
<1>5. reversals' \in SUBSET UNION {books'[u] : u \in Tenants}
  BY <1>1, <1>2, <1>4 DEF TypeOK
<1>6. TypeOK'
  BY <1>1, <1>3, <1>4, <1>5 DEF TypeOK
<1>7. FormInv'
  BY <1>1, <1>3, <1>4 DEF FormInv, TypeOK, FormRecord
<1>8. QED
  BY <1>4, <1>6, <1>7 DEF Inv

(* The entry confirmed is on the books, so the set of the saved ones stays *)
(* within them; the load that follows is the one after which it shows.     *)
LEMMA ConfirmInv ==
    ASSUME Inv, NEW f \in Forms, Confirm(f)
    PROVE  Inv'
<1> DEFINE d == form[f]
<1>1. /\ TypeOK /\ BooksInv /\ FormInv /\ WaitInv
      /\ selected \in Tenants /\ view \in ViewRecord
  BY DEF Inv, TypeOK
<1>2. /\ d # Null /\ d.at = "booked" /\ saved' = saved \cup {d.entry}
      /\ form' = [form EXCEPT ![f] = Null]
      /\ UNCHANGED <<page, role, selected, books, reversals, here>>
  BY DEF Confirm
<1>3. /\ page = "ledger" /\ d.of \in Tenants /\ d.entry \in Entries
      /\ d.entry \in books[d.of]
  BY <1>1, <1>2 DEF TypeOK, FormInv, FormRecord
<1>4. saved' \in SUBSET Entries /\ \A e \in saved' : ~InNoBooks(e)
  BY <1>1, <1>2, <1>3 DEF TypeOK, BooksInv, InNoBooks
<1>5. form' \in [Forms -> FormRecord \cup {Null}] /\ FormInv'
  BY <1>1, <1>2, FormStep
<1>6. Real(view.shown) /\ ~view.refreshing
  BY <1>1, <1>3 DEF BooksInv, WaitInv
<1>7. CASE d.live
  <2>1. Load(view, asked, d.of, selected)
    BY <1>7 DEF Confirm
  <2>2. /\ view' \in ViewRecord
        /\ asked' \in Seq(Request) /\ Len(asked') <= MaxAsked
        /\ excuse' \in SUBSET {"reordered", "failed", "left the form"}
        /\ BooksInv' /\ WaitInv' /\ LastInv' /\ HeldInv'
    BY <1>1, <1>2, <1>3, <1>4, <1>6, <2>1, LoadInv
  <2>3. QED
    BY <1>1, <1>2, <1>4, <1>5, <2>2 DEF Inv, TypeOK
<1>8. CASE ~d.live
  <2>1. excuse' = excuse \cup {"left the form"} /\ UNCHANGED <<view, asked>>
    BY <1>8 DEF Confirm
  <2>2. TypeOK'
    BY <1>1, <1>2, <1>4, <1>5, <2>1 DEF TypeOK
  <2>3. BooksInv' /\ WaitInv'
    BY <1>1, <1>2, <1>4, <2>1 DEF BooksInv, WaitInv, Real, MayView, InNoBooks
  <2>4. QED
    BY <1>5, <2>1, <2>2, <2>3 DEF Inv, LastInv, HeldInv, Current
<1>9. QED
  BY <1>7, <1>8

LEMMA RefuseInv ==
    ASSUME Inv, NEW f \in Forms, Refuse(f)
    PROVE  Inv'
<1>1. TypeOK /\ BooksInv /\ FormInv /\ WaitInv /\ LastInv /\ HeldInv
  BY DEF Inv
<1>2. /\ form' = [form EXCEPT ![f] = Null]
      /\ UNCHANGED <<page, role, selected, books, reversals, here, view, asked, saved, excuse>>
  BY DEF Refuse
<1>3. TypeOK' /\ FormInv'
  BY <1>1, <1>2, FormStep DEF TypeOK
<1>4. BooksInv' /\ WaitInv'
  BY <1>1, <1>2 DEF BooksInv, WaitInv, Real, MayView, InNoBooks
<1>5. LastInv' /\ HeldInv'
  BY <1>1, <1>2 DEF LastInv, HeldInv, Current, Asks, MayView, Nothing
<1>6. QED
  BY <1>3, <1>4, <1>5 DEF Inv

LEMMA StutterInv == Inv /\ UNCHANGED vars => Inv'
<1> SUFFICES ASSUME Inv, UNCHANGED vars PROVE Inv'
  OBVIOUS
<1>1. TypeOK'
  BY DEF Inv, TypeOK, vars
<1>2. BooksInv' /\ FormInv' /\ WaitInv'
  BY DEF Inv, BooksInv, FormInv, WaitInv, Real, MayView, InNoBooks, vars
<1>3. LastInv' /\ HeldInv'
  BY DEF Inv, LastInv, HeldInv, Current, Asks, MayView, Nothing, vars
<1>4. QED
  BY <1>1, <1>2, <1>3 DEF Inv

LEMMA NextInv == Inv /\ [Next]_vars => Inv'
<1> SUFFICES ASSUME Inv, [Next]_vars PROVE Inv'
  OBVIOUS
<1>1. ASSUME NEW i \in 1 .. MaxAsked, Serve(i) \/ Receive(i) \/ Break(i)
      PROVE  Inv'
  BY <1>1, ServeInv, ReceiveInv, BreakInv
<1>2. CASE Enter \/ Leave \/ Refresh
  BY <1>2, EnterInv, LeaveInv, RefreshInv
<1>3. ASSUME NEW t \in Tenants, SelectOnWeb(t) \/ SelectOnMobile(t)
      PROVE  Inv'
  BY <1>3, SelectOnWebInv, SelectOnMobileInv
<1>4. ASSUME NEW f \in Forms,
             SubmitPost(f) \/ SubmitReversal(f) \/ Book(f) \/ Confirm(f) \/ Refuse(f)
      PROVE  Inv'
  BY <1>4, SubmitInv, BookInv, ConfirmInv, RefuseInv
<1>5. CASE OthersPost
  BY <1>5, OthersPostInv
<1>6. CASE UNCHANGED vars
  BY <1>6, StutterInv
<1>7. QED
  BY <1>1, <1>2, <1>3, <1>4, <1>5, <1>6 DEF Next, Resolve

-----------------------------------------------------------------------------
(* What Inv records of a page's last request and of what it holds is true  *)
(* however the account moves between pages, restaurants and dialogs while  *)
(* answers are under way.                                                  *)
THEOREM Invariance == Spec => []Inv
<1>1. QED
  BY InitInv, NextInv, PTL DEF Spec

(* Types, of all the screens' state.                                       *)
THEOREM TypeCorrect == Spec => []TypeOK
<1>1. Inv => TypeOK
  BY DEF Inv
<1>2. QED
  BY <1>1, Invariance, PTL

(* A page at rest, with no request overtaken or failed since it last       *)
(* asked, shows the selected restaurant to those who may see it, and       *)
(* nothing to others.                                                      *)
THEOREM ScopedAtRest == Spec => []SettledIsScoped
<1>1. ASSUME Inv, Settled
      PROVE  /\ ~view.loading /\ ~view.refreshing
             /\ Shows.of = IF MayView(selected) THEN selected ELSE Null
             /\ Shows.rows \subseteq books[selected]
  <2>1. /\ TypeOK /\ BooksInv /\ WaitInv /\ HeldInv /\ page \in Pages
        /\ here /\ asked = <<>> /\ Current
        /\ view \in ViewRecord /\ selected \in Tenants
    BY <1>1 DEF Inv, TypeOK, Settled, Current
  <2>2. ~view.loading /\ ~view.refreshing
    BY <2>1 DEF WaitInv, ViewRecord
  <2>3. CASE Asks /\ MayView(selected)
    <3>1. view.shown.of = selected /\ (page = "audit" => ~view.forbidden)
      BY <2>1, <2>3 DEF HeldInv
    <3>2. Shows = view.shown
      BY <2>1, <2>2, <2>3, <3>1
         DEF Shows, DashboardShows, LedgerShows, AuditShows, HomeShows, MobileLedgerShows,
             Pages, WebPages
    <3>3. view.shown.rows \subseteq books[selected]
      BY <2>1, <3>1, NullIsNoTenant DEF BooksInv, Real
    <3>4. QED
      BY <2>2, <2>3, <3>1, <3>2, <3>3
  <2>4. CASE Asks /\ ~MayView(selected)
    <3>1. \/ page = "ledger" /\ view.shown = Nothing
          \/ page = "audit" /\ view.forbidden
      BY <2>1, <2>4 DEF HeldInv
    <3>2. Shows = Nothing
      BY <2>2, <3>1 DEF Shows, LedgerShows, AuditShows
    <3>3. QED
      BY <2>2, <2>4, <3>2 DEF Nothing
  <2>5. CASE ~Asks
    <3>1. page = "home" /\ ~MayView(selected)
      BY <2>5 DEF Asks
    <3>2. Shows = Nothing
      BY <3>1 DEF Shows, HomeShows
    <3>3. QED
      BY <2>2, <3>1, <3>2 DEF Nothing
  <2>6. QED
    BY <2>3, <2>4, <2>5
<1>2. Inv => SettledIsScoped
  BY <1>1 DEF SettledIsScoped
<1>3. QED
  BY <1>2, Invariance, PTL

(* A ledger page at rest, under the same conditions, shows every entry its *)
(* user has been told is saved.                                            *)
THEOREM ShownIfSaved == Spec => []SavedIsShown
<1>1. ASSUME Inv, Settled, page = "ledger", MayView(selected)
      PROVE  saved \cap books[selected] \subseteq Shows.rows
  <2>1. /\ WaitInv /\ HeldInv /\ here /\ asked = <<>> /\ Current
    BY <1>1 DEF Inv, Settled, Current
  <2>2. ~view.loading
    BY <2>1 DEF WaitInv
  <2>3. Shows = view.shown
    BY <1>1, <2>2 DEF Shows, LedgerShows
  <2>4. saved \cap books[selected] \subseteq view.shown.rows
    BY <1>1, <2>1 DEF HeldInv, Asks
  <2>5. QED
    BY <2>3, <2>4
<1>2. Inv => SavedIsShown
  BY <1>1 DEF SavedIsShown
<1>3. QED
  BY <1>2, Invariance, PTL
=============================================================================
