------------------------ MODULE PropertySearchProofs ------------------------
(***************************************************************************)
(* Proofs about PropertySearch for any properties, any addresses and any   *)
(* number of visits, changes, edits and faults.                            *)
(*                                                                         *)
(* The last request is in flight or its answer is the one applied last,    *)
(* unless an earlier one was answered after a later one; and the address   *)
(* holds the view from the first request on.                               *)
(*                                                                         *)
(* Every match is on exactly one page: two sorted sequences of one set are *)
(* equal unless sort keys are, and division by the page size takes each    *)
(* place in the order to one page number.                                  *)
(***************************************************************************)
EXTENDS PropertySearch, FiniteSetTheorems, SequenceTheorems, TLAPS

Drafts == [filters : Filters, sort : Sorts, edited : BOOLEAN]

ViewType ==
  /\ view \in Queries /\ asked \in Queries /\ url \in Queries \cup {NoLink}
  /\ draft \in Drafts \cup {NULL}

RequestType(r) == r = [id |-> r.id, query |-> r.query, answer |-> r.answer] /\ r.query \in Queries

Numbered ==
  /\ sent \in Nat /\ applied \in Nat
  /\ \A r \in inflight : RequestType(r) /\ r.id \in 1 .. sent

\* The address and the last request are those of the view.
AddressInv == /\ mounted => sent > 0
              /\ sent > 0 => url = view /\ asked = view

LatestInv == mounted => \/ overtaken
                        \/ applied = sent
                        \/ \E r \in inflight : r.id = sent

SearchInv == ViewType /\ Numbered /\ AddressInv /\ LatestInv
-----------------------------------------------------------------------------
LEMMA DefaultIsQuery == DefaultView \in Queries
PROOF BY DEF DefaultView, Queries, Tabs, Statuses, Sorts, DefaultFilters, Filters, NoBounds, Bounds

LEMMA InitHolds == Init => SearchInv
PROOF BY DefaultIsQuery, LinksAssumption
  DEF Init, SearchInv, ViewType, Numbered, AddressInv, LatestInv

\* A request for the view v: it is the latest, and the address holds it.
LEMMA AskHolds ==
  ASSUME SearchInv, NEW v \in Queries, Show(v) \/ Ask(v), UNCHANGED <<mounted, applied, overtaken>>,
         draft' \in Drafts \cup {NULL}, mounted
  PROVE  SearchInv'
<1>1. CASE UNCHANGED asking
  BY <1>1 DEF asking, SearchInv, ViewType, Numbered, AddressInv, LatestInv, RequestType
<1>2. CASE Ask(v)
  <2> DEFINE new == [id |-> sent + 1, query |-> v, answer |-> NULL]
  <2>1. /\ view' = v /\ url' = v /\ asked' = v /\ sent' = sent + 1
        /\ inflight' = inflight \cup {new}
    BY <1>2 DEF Ask
  <2>2. sent \in Nat /\ new.id = sent + 1 /\ RequestType(new)
    BY DEF SearchInv, Numbered, RequestType
  <2> HIDE DEF new
  <2>3. \A r \in inflight' : RequestType(r) /\ r.id \in 1 .. sent'
    BY <2>1, <2>2 DEF SearchInv, Numbered
  <2>4. Numbered'
    BY <2>1, <2>2, <2>3 DEF SearchInv, Numbered, RequestType
  <2>5. ViewType' /\ AddressInv' /\ LatestInv'
    BY <2>1, <2>2 DEF SearchInv, ViewType, AddressInv, LatestInv
  <2> QED
    BY <2>4, <2>5 DEF SearchInv
<1> QED
  BY <1>1, <1>2 DEF Show

LEMMA MountHolds == ASSUME SearchInv, Mount PROVE SearchInv'
<1> DEFINE first == [id |-> 1, query |-> DefaultView, answer |-> NULL]
           second == [id |-> 2, query |-> url, answer |-> NULL]
<1>1. mounted' = TRUE /\ applied' = 0 /\ draft' = draft
  BY DEF Mount, dialog
<1>2. CASE url = NoLink
  <2>1. sent' = 1 /\ view' = DefaultView /\ url' = DefaultView /\ asked' = DefaultView
        /\ inflight' = {first}
    BY <1>2 DEF Mount
  <2> QED
    BY <1>1, <2>1, DefaultIsQuery
    DEF SearchInv, ViewType, Numbered, AddressInv, LatestInv, RequestType
<1>3. CASE url # NoLink
  <2>1. sent' = 2 /\ view' = url /\ url' = url /\ asked' = url /\ inflight' = {first, second}
    BY <1>3 DEF Mount, Restored
  <2>2. RequestType(first) /\ RequestType(second) /\ first.id = 1 /\ second.id = 2
    BY <1>3, DefaultIsQuery DEF RequestType, SearchInv, ViewType
  <2> HIDE DEF first, second
  <2>3. Numbered'
    BY <1>1, <2>1, <2>2 DEF Numbered, RequestType
  <2>4. LatestInv'
    BY <2>1, <2>2 DEF LatestInv
  <2> QED
    BY <1>1, <1>3, <2>1, <2>3, <2>4 DEF SearchInv, ViewType, AddressInv
<1> QED
  BY <1>2, <1>3

\* An answer or a failure: the request is no longer in flight.
LEMMA FinishHolds == ASSUME SearchInv, NEW r \in inflight, Finish(r) PROVE SearchInv'
<1>1. /\ inflight' = inflight \ {r} /\ applied' = r.id /\ overtaken' = (overtaken \/ r.id < applied)
      /\ UNCHANGED <<mounted, draft, view, url, sent, asked>>
  BY DEF Finish, visit, dialog
<1>2. r.id \in 1 .. sent /\ sent \in Nat
  BY DEF SearchInv, Numbered
<1>3. ViewType' /\ AddressInv'
  BY <1>1 DEF SearchInv, ViewType, AddressInv
<1>4. Numbered'
  BY <1>1, <1>2 DEF SearchInv, Numbered, RequestType
<1>5. LatestInv'
  <2>1. CASE r.id = sent
    BY <1>1, <2>1 DEF LatestInv
  <2>2. CASE r.id < applied
    BY <1>1, <2>2 DEF LatestInv
  <2>3. CASE r.id # sent /\ ~(r.id < applied)
    <3>1. applied \in Nat /\ applied # sent
      BY <1>2, <2>3 DEF SearchInv, Numbered
    <3>2. mounted => overtaken \/ \E q \in inflight : q.id = sent
      BY <3>1 DEF SearchInv, LatestInv
    <3>3. \A q \in inflight : q.id = sent => q \in inflight'
      BY <1>1, <2>3
    <3> QED
      BY <1>1, <3>2, <3>3 DEF LatestInv
  <2> QED
    BY <2>1, <2>2, <2>3
<1> QED
  BY <1>3, <1>4, <1>5 DEF SearchInv

LEMMA ServeHolds == ASSUME SearchInv, NEW r \in inflight, Serve(r) PROVE SearchInv'
<1>1. PICK a : inflight' = (inflight \ {r}) \cup {[r EXCEPT !.answer = a]}
  BY DEF Serve
<1>2. UNCHANGED <<mounted, draft, view, url, sent, asked, applied, overtaken>>
  BY DEF Serve, visit, dialog, screen
<1> DEFINE served == [r EXCEPT !.answer = a]
<1>3. RequestType(r) /\ r.id \in 1 .. sent
  BY DEF SearchInv, Numbered
<1>4. served = [id |-> r.id, query |-> r.query, answer |-> a]
  BY <1>3 DEF RequestType
<1>5. RequestType(served) /\ served.id = r.id
  BY <1>3, <1>4 DEF RequestType
<1> HIDE DEF served
<1>6. ViewType' /\ AddressInv'
  BY <1>2 DEF SearchInv, ViewType, AddressInv
<1>7. \A q \in inflight' : RequestType(q) /\ q.id \in 1 .. sent
  BY <1>1, <1>3, <1>5 DEF SearchInv, Numbered, served
<1>8. Numbered'
  BY <1>2, <1>7 DEF SearchInv, Numbered, RequestType
<1>9. LatestInv'
  BY <1>1, <1>2, <1>5 DEF SearchInv, LatestInv, served
<1> QED
  BY <1>6, <1>8, <1>9 DEF SearchInv

\* What the dialog edits stays a draft.
LEMMA EditHolds ==
  ASSUME SearchInv, NEW d \in Drafts, Edit(d) PROVE SearchInv'
PROOF BY DEF Edit, visit, asking, screen, SearchInv, ViewType, Numbered, AddressInv, LatestInv, RequestType

LEMMA EditFiltersHolds ==
  ASSUME SearchInv, draft \in Drafts, NEW f \in Filters, EditFilters(f) PROVE SearchInv'
<1>1. [draft EXCEPT !.filters = f, !.edited = TRUE] \in Drafts
  BY DEF Drafts
<1> QED
  BY <1>1, EditHolds DEF EditFilters

LEMMA Paged ==
  ASSUME NEW v \in Queries, NEW n \in Nat \ {0} PROVE [v EXCEPT !.page = n] \in Queries
PROOF BY DEF Queries

LEMMA OnFirstPage ==
  ASSUME NEW v \in Queries, NEW tab \in Tabs
  PROVE  [v EXCEPT !.activeStatus = tab, !.page = 1] \in Queries
<1> DEFINE w == [v EXCEPT !.activeStatus = tab]
<1>1. w \in Queries
  BY DEF Queries
<1>2. [v EXCEPT !.activeStatus = tab, !.page = 1] = [w EXCEPT !.page = 1]
  OBVIOUS
<1> HIDE DEF w
<1>3. [w EXCEPT !.page = 1] \in Queries
  BY <1>1, Paged
<1> QED
  BY <1>2, <1>3

LEMMA Filtered ==
  ASSUME NEW v \in Queries, NEW f \in Filters, NEW sort \in Sorts
  PROVE  [v EXCEPT !.filters = f, !.sortBy = sort, !.page = 1] \in Queries
<1> DEFINE w == [v EXCEPT !.filters = f, !.sortBy = sort]
<1>1. w \in Queries
  BY DEF Queries
<1>2. [v EXCEPT !.filters = f, !.sortBy = sort, !.page = 1] = [w EXCEPT !.page = 1]
  OBVIOUS
<1> HIDE DEF w
<1>3. [w EXCEPT !.page = 1] \in Queries
  BY <1>1, Paged
<1> QED
  BY <1>2, <1>3

\* The steps of the user.
LEMMA UserHolds == ASSUME SearchInv, UserStep PROVE SearchInv'
<1>1. CASE Mount
  BY <1>1, MountHolds
<1>2. CASE Leave
  BY <1>2 DEF Leave, dialog, SearchInv, ViewType, Numbered, AddressInv, LatestInv, RequestType
<1>3. ASSUME NEW tab \in Tabs, ChooseTab(tab) PROVE SearchInv'
  <2>1. [view EXCEPT !.activeStatus = tab, !.page = 1] \in Queries
    BY OnFirstPage DEF SearchInv, ViewType
  <2> QED
    BY <1>3, <2>1, AskHolds DEF ChooseTab, visit, dialog, SearchInv, ViewType
<1>4. ASSUME NEW page \in 1 .. Cardinality(Properties) + 1, TurnPage(page) PROVE SearchInv'
  <2>1. page \in Nat \ {0}
    BY <1>4 DEF TurnPage, SearchInv, ViewType, Queries
  <2>2. [view EXCEPT !.page = page] \in Queries
    BY <2>1 DEF SearchInv, ViewType, Queries
  <2> QED
    BY <1>4, <2>2, AskHolds DEF TurnPage, visit, dialog, SearchInv, ViewType
<1>5. CASE OpenDialog
  <2>1. [filters |-> view.filters, sort |-> view.sortBy, edited |-> FALSE] \in Drafts
    BY DEF SearchInv, ViewType, Queries, Drafts
  <2> QED
    BY <1>5, <2>1 DEF OpenDialog, visit, asking, screen, SearchInv, ViewType, Numbered, AddressInv,
                      LatestInv, RequestType
<1>6. CASE Apply
  <2>1. draft \in Drafts
    BY <1>6 DEF Apply, SearchInv, ViewType
  <2>2. [view EXCEPT !.filters = draft.filters, !.sortBy = draft.sort, !.page = 1] \in Queries
    BY <2>1, Filtered DEF SearchInv, ViewType, Drafts
  <2> QED
    BY <1>6, <2>2, AskHolds DEF Apply, ShowDraft, visit
<1>7. CASE CloseDialog
  BY <1>7 DEF CloseDialog, visit, asking, screen, SearchInv, ViewType, Numbered, AddressInv,
              LatestInv, RequestType
<1>8. ASSUME NEW s \in Statuses, ToggleStatus(s) PROVE SearchInv'
  <2>1. draft \in Drafts
    BY <1>8 DEF ToggleStatus, EditFilters, Edit, SearchInv, ViewType
  <2>2. [draft.filters EXCEPT !.statuses = IF s \in @ THEN @ \ {s} ELSE @ \cup {s}] \in Filters
    BY <2>1 DEF Drafts, Filters
  <2> QED
    BY <1>8, <2>1, <2>2, EditFiltersHolds DEF ToggleStatus
<1>9. ASSUME NEW range \in Ranges, NEW end \in {"min", "max"}, TypeBound(range, end) PROVE SearchInv'
  <2>1. draft \in Drafts
    BY <1>9 DEF TypeBound, EditFilters, Edit, SearchInv, ViewType
  <2>2. PICK n \in Inputs \cup {0} : EditFilters([draft.filters EXCEPT !.bounds[range][end] = n])
    BY <1>9 DEF TypeBound
  <2>3. [draft.filters EXCEPT !.bounds[range][end] = n] \in Filters
    BY <2>1, InputsAssumption DEF Drafts, Filters, Bounds
  <2> QED
    BY <2>1, <2>2, <2>3, EditFiltersHolds
<1>10. ASSUME NEW sort \in Sorts, ChooseSort(sort) PROVE SearchInv'
  <2>1. draft \in Drafts
    BY <1>10 DEF ChooseSort, Edit, SearchInv, ViewType
  <2>2. [draft EXCEPT !.sort = sort] \in Drafts
    BY <2>1 DEF Drafts
  <2> QED
    BY <1>10, <2>2, EditHolds DEF ChooseSort
<1> QED
  BY <1>1, <1>2, <1>3, <1>4, <1>5, <1>6, <1>7, <1>8, <1>9, <1>10 DEF UserStep

LEMMA NextHolds == ASSUME SearchInv, [Next]_vars PROVE SearchInv'
<1>1. CASE UserStep
  BY <1>1, UserHolds
<1>2. ASSUME NEW r \in inflight, Answer(r) \/ RequestFails(r) PROVE SearchInv'
  BY <1>2, ServeHolds, FinishHolds DEF Answer, Deliver, RequestFails
<1>3. ASSUME NEW p \in Properties, Write(p) PROVE SearchInv'
  BY <1>3 DEF Write, visit, dialog, asking, screen, SearchInv, ViewType, Numbered, AddressInv,
              LatestInv, RequestType
<1>4. CASE UNCHANGED vars
  BY <1>4 DEF vars, visit, dialog, asking, screen, SearchInv, ViewType, Numbered, AddressInv,
              LatestInv, RequestType
<1> QED
  BY <1>1, <1>2, <1>3, <1>4 DEF Next

LEMMA SearchAlways == Spec => []SearchInv
BY InitHolds, NextHolds, PTL DEF Spec
-----------------------------------------------------------------------------
\* When nothing is in flight and no answer came after that of a later
\* request, what is shown answers the view on screen, for any interleaving of
\* clicks, answers and failures (properties.tsx:86).
THEOREM SettledShowsView == Spec => []SettledIsCurrent
<1>1. SearchInv => SettledIsCurrent
  BY DEF SearchInv, AddressInv, LatestInv, SettledIsCurrent, Settled
<1> QED
  BY <1>1, SearchAlways, PTL

\* Whoever comes back to the page finds the view it was left in, whatever was
\* in flight when it was left (properties.tsx:60).
THEOREM BackRestores == Spec => BackRestoresView
<1>1. ASSUME SearchInv, [Next]_vars, ~mounted, mounted', sent > 0 PROVE view' = view
  <2>1. Mount
    <3>1. CASE UserStep
      BY <1>1, <3>1 DEF UserStep, Leave, ChooseTab, TurnPage, OpenDialog, Apply, CloseDialog,
                        ToggleStatus, TypeBound, ChooseSort, EditFilters, Edit, visit
    <3>2. CASE ~UserStep
      BY <1>1, <3>2 DEF Next, vars, visit, Answer, Serve, Deliver, RequestFails, Finish, Write
    <3> QED
      BY <3>1, <3>2
  <2>2. url = view /\ url # NoLink
    BY <1>1, LinksAssumption DEF SearchInv, AddressInv, ViewType
  <2> QED
    BY <2>1, <2>2 DEF Mount, Restored
<1>2. SearchInv /\ [Next]_vars => [~mounted /\ mounted' /\ sent > 0 => view' = view]_vars
  BY <1>1
<1> QED
  BY <1>2, SearchAlways, PTL DEF Spec, BackRestoresView
-----------------------------------------------------------------------------
(***************************************************************************)
(* Types of what the database holds, what is answered and what is shown.   *)
(***************************************************************************)
AnswerType(a) == a.items \in Seq(Properties) /\ a.total \in Nat

ShownInv ==
  /\ status \in [Properties -> Statuses \cup {"absent"}]
  /\ \A r \in inflight : r.answer # NULL => AnswerType(r.answer)
  /\ AnswerType(shown) /\ shown.loadError \in BOOLEAN
  /\ mounted \in BOOLEAN /\ loading \in BOOLEAN /\ overtaken \in BOOLEAN /\ doubtful \in BOOLEAN
  /\ visits \in Nat /\ changes \in Nat /\ edits \in Nat /\ writes \in Nat /\ faults \in Nat

LEMMA MatchesFinite ==
  ASSUME NEW q PROVE PercentMatch(q) \subseteq Properties /\ Total(q) \in Nat
<1>1. PercentMatch(q) \subseteq Properties
  BY DEF PercentMatch, Match
<1>2. IsFiniteSet(PercentMatch(q))
  BY <1>1, FS_Subset, PropertiesAssumption
<1> QED
  BY <1>1, <1>2, FS_CardinalityType DEF Total

\* A page is a sequence of properties, whatever page is asked for.
LEMMA PagesAreSequences ==
  ASSUME NEW q \in Queries, NEW s \in Sorted(q.sortBy, PercentMatch(q))
  PROVE  PageOf(q, s) \in Seq(Properties)
<1> DEFINE n == Total(q)
           from == Skip(q)
           to == Min({from + PageSize, n})
<1>1. n \in Nat /\ s \in [1 .. n -> Properties]
  BY MatchesFinite DEF Sorted, Total
<1>2. q.page \in Nat \ {0}
  BY DEF Queries
<1>3. from \in Nat /\ PageSize \in Nat
  <2>1. \A k \in Nat \ {0}, m \in Nat : (k - 1) * m \in Nat
    OBVIOUS
  <2> QED
    BY <1>2, <2>1, PageSizeAssumption DEF Skip
<1>4. s \in Seq(Properties) /\ Len(s) = n
  BY <1>1
<1> HIDE DEF n, from
<1>5. to \in Nat /\ to <= n
  <2> DEFINE m == IF from + PageSize <= n THEN from + PageSize ELSE n
  <2>1. m \in {from + PageSize, n} /\ \A y \in {from + PageSize, n} : m =< y
    BY <1>1, <1>3
  <2>2. to \in {from + PageSize, n} /\ \A y \in {from + PageSize, n} : to =< y
    BY <2>1 DEF Min
  <2> QED
    BY <1>1, <1>3, <2>2
<1> HIDE DEF to
<1>6. \A i \in from + 1 .. to : s[i] \in Properties
  BY <1>1, <1>3, <1>5
<1>7. SubSeq(s, from + 1, to) \in Seq(Properties)
  <2> DEFINE first == from + 1
  <2>1. first \in Int /\ to \in Int /\ \A i \in first .. to : s[i] \in Properties
    BY <1>3, <1>5, <1>6
  <2> HIDE DEF first
  <2>2. SubSeq(s, first, to) \in Seq(Properties)
    BY <2>1, SubSeqProperties
  <2> QED
    BY <2>2 DEF first
<1> QED
  BY <1>4, <1>7 DEF PageOf, from, to

LEMMA ShowKeepsTypes ==
  ASSUME ShownInv, NEW v, Show(v) \/ Ask(v)
  PROVE  /\ loading' \in BOOLEAN /\ changes' \in Nat
         /\ \A r \in inflight' : r.answer # NULL => AnswerType(r.answer)
<1>1. CASE UNCHANGED <<asking, loading>>
  BY <1>1 DEF asking, ShownInv
<1>2. CASE Ask(v)
  BY <1>2 DEF Ask, ShownInv
<1> QED
  BY <1>1, <1>2 DEF Show

LEMMA NothingIsShown == AnswerType(Nothing) /\ Nothing.loadError = FALSE
PROOF BY DEF Nothing, AnswerType

LEMMA ShownInit == Init => ShownInv
<1> SUFFICES ASSUME Init PROVE ShownInv
  OBVIOUS
<1>1. status \in [Properties -> Statuses \cup {"absent"}]
  BY StatusAssumption DEF Init
<1>2. AnswerType(shown) /\ shown.loadError \in BOOLEAN
  BY NothingIsShown DEF Init
<1> QED
  BY <1>1, <1>2 DEF Init, ShownInv

LEMMA UserKeepsTypes == ASSUME ShownInv, UserStep PROVE ShownInv'
<1>1. CASE Mount
  <2>1. \A r \in inflight' : r.answer = NULL
    BY <1>1 DEF Mount
  <2>2. doubtful' \in BOOLEAN
    BY <1>1 DEF Mount
  <2>3. AnswerType(shown') /\ shown'.loadError \in BOOLEAN
    BY <1>1, NothingIsShown DEF Mount
  <2>4. /\ mounted' = TRUE /\ loading' = TRUE /\ overtaken' = FALSE /\ visits' = visits + 1
        /\ UNCHANGED <<status, writes, edits, faults, changes>>
    BY <1>1 DEF Mount, server, dialog
  <2> QED
    <3>1. status' \in [Properties -> Statuses \cup {"absent"}]
      BY <2>4 DEF ShownInv
    <3>2. \A r \in inflight' : r.answer # NULL => AnswerType(r.answer)
      BY <2>1
    <3>3. visits' \in Nat /\ changes' \in Nat /\ edits' \in Nat /\ writes' \in Nat /\ faults' \in Nat
      BY <2>4 DEF ShownInv
    <3>4. mounted' \in BOOLEAN /\ loading' \in BOOLEAN /\ overtaken' \in BOOLEAN
      BY <2>4
    <3> QED
      BY <2>2, <2>3, <3>1, <3>2, <3>3, <3>4 DEF ShownInv
<1>2. CASE Leave
  BY <1>2 DEF Leave, server, dialog, ShownInv, AnswerType
<1>3. ASSUME NEW tab \in Tabs, ChooseTab(tab) PROVE ShownInv'
  BY <1>3, ShowKeepsTypes DEF ChooseTab, server, visit, dialog, ShownInv, AnswerType
<1>4. ASSUME NEW page \in 1 .. Cardinality(Properties) + 1, TurnPage(page) PROVE ShownInv'
  BY <1>4, ShowKeepsTypes DEF TurnPage, server, visit, dialog, ShownInv, AnswerType
<1>5. CASE OpenDialog
  BY <1>5 DEF OpenDialog, server, visit, asking, screen, ShownInv, AnswerType
<1>6. CASE Apply
  BY <1>6, ShowKeepsTypes DEF Apply, ShowDraft, server, visit, ShownInv, AnswerType
<1>7. CASE CloseDialog
  BY <1>7 DEF CloseDialog, server, visit, asking, screen, ShownInv, AnswerType
<1>8. ASSUME NEW d, Edit(d) PROVE ShownInv'
  BY <1>8 DEF Edit, server, visit, asking, screen, ShownInv, AnswerType
<1> QED
  BY <1>1, <1>2, <1>3, <1>4, <1>5, <1>6, <1>7, <1>8
  DEF UserStep, ToggleStatus, TypeBound, ChooseSort, EditFilters

LEMMA FinishKeepsTypes ==
  ASSUME ShownInv, NEW r \in inflight, Finish(r),
         AnswerType(shown'), shown'.loadError \in BOOLEAN, faults' \in Nat
  PROVE  ShownInv'
PROOF BY DEF Finish, server, visit, dialog, ShownInv, AnswerType

LEMMA NextKeepsTypes == ASSUME SearchInv, ShownInv, [Next]_vars PROVE ShownInv'
<1>1. CASE UserStep
  BY <1>1, UserKeepsTypes
<1>2. ASSUME NEW r \in inflight, Serve(r) PROVE ShownInv'
  <2>1. PICK s \in Sorted(r.query.sortBy, PercentMatch(r.query)) :
          inflight' = (inflight \ {r}) \cup
            {[r EXCEPT !.answer = [items |-> PageOf(r.query, s), total |-> Total(r.query)]]}
    BY <1>2 DEF Serve
  <2> DEFINE a == [items |-> PageOf(r.query, s), total |-> Total(r.query)]
  <2>2. RequestType(r) /\ r.query \in Queries
    BY DEF SearchInv, Numbered, RequestType
  <2>3. AnswerType(a)
    BY <2>2, MatchesFinite, PagesAreSequences DEF AnswerType
  <2> HIDE DEF a
  <2>4. [r EXCEPT !.answer = a].answer = a
    BY <2>2 DEF RequestType
  <2>5. \A q \in inflight' : q.answer # NULL => AnswerType(q.answer)
    BY <2>1, <2>3, <2>4 DEF ShownInv, a
  <2> QED
    BY <1>2, <2>5 DEF Serve, server, visit, dialog, screen, ShownInv
<1>3. ASSUME NEW r \in inflight, Deliver(r) PROVE ShownInv'
  <2>1. AnswerType(shown') /\ shown'.loadError \in BOOLEAN /\ faults' \in Nat
    BY <1>3 DEF Deliver, ShownInv, AnswerType
  <2> QED
    BY <1>3, <2>1, FinishKeepsTypes DEF Deliver
<1>4. ASSUME NEW r \in inflight, RequestFails(r) PROVE ShownInv'
  <2>1. AnswerType(shown') /\ shown'.loadError \in BOOLEAN /\ faults' \in Nat
    BY <1>4 DEF RequestFails, ShownInv, AnswerType, Nothing
  <2> QED
    BY <1>4, <2>1, FinishKeepsTypes DEF RequestFails
<1>5. ASSUME NEW p \in Properties, Write(p) PROVE ShownInv'
  BY <1>5 DEF Write, visit, dialog, asking, screen, ShownInv, AnswerType, Statuses
<1>6. CASE UNCHANGED vars
  BY <1>6 DEF vars, server, visit, dialog, asking, screen, ShownInv, AnswerType
<1> QED
  BY <1>1, <1>2, <1>3, <1>4, <1>5, <1>6 DEF Next, Answer

\* Every variable of the page, the route and the database has its type.
THEOREM TypeCorrect == Spec => []TypeOK
<1>1. SearchInv /\ ShownInv => TypeOK
  BY DEF SearchInv, ViewType, Numbered, ShownInv, AnswerType, TypeOK
<1> QED
  BY <1>1, SearchAlways, ShownInit, NextKeepsTypes, PTL DEF Spec
-----------------------------------------------------------------------------
(***************************************************************************)
(* The pages: every match is on one of them.                               *)
(***************************************************************************)
LEMMA TimesMonotone ==
  ASSUME NEW a \in Int, NEW b \in Int, NEW c \in Nat, a <= b PROVE a * c <= b * c
OBVIOUS

LEMMA OneLessTimes == ASSUME NEW a \in Int, NEW c \in Int PROVE (a - 1) * c = a * c - c
OBVIOUS

LEMMA DivisionBounds ==
  ASSUME NEW a \in Nat, NEW b \in Nat \ {0}
  PROVE  a \div b \in Nat /\ (a \div b) * b <= a /\ a < (a \div b) * b + b
<1>1. a \div b \in Int
  OBVIOUS
<1>2. a \div b >= 0
  OBVIOUS
<1>3. (a \div b) * b <= a
  OBVIOUS
<1>4. a < (a \div b) * b + b
  OBVIOUS
<1> QED
  BY <1>1, <1>2, <1>3, <1>4

\* The page numbers reach just as far as the matches.
LEMMA PagesReach ==
  ASSUME NEW total \in Nat \ {0}
  PROVE  /\ TotalPages(total) \in Nat \ {0}
         /\ \A n \in 1 .. TotalPages(total) : (n - 1) * PageSize < total
         /\ total <= TotalPages(total) * PageSize
<1>1. PageSize \in Nat \ {0}
  BY PageSizeAssumption
<1> DEFINE last == (total + PageSize - 1) \div PageSize
<1>2. TotalPages(total) = last
  BY DEF TotalPages
<1>3. total + PageSize - 1 \in Nat
  BY <1>1
<1>4. /\ last \in Nat /\ last * PageSize <= total + PageSize - 1
      /\ total + PageSize - 1 < last * PageSize + PageSize
  BY <1>1, <1>3, DivisionBounds
<1> HIDE DEF last
<1>5. last * PageSize \in Int
  BY <1>1, <1>4
<1>6. total <= last * PageSize
  BY <1>1, <1>4, <1>5
<1>7. last # 0
  BY <1>1, <1>6
<1>8. ASSUME NEW n \in 1 .. last PROVE (n - 1) * PageSize < total
  <2>1. n * PageSize <= last * PageSize /\ (n - 1) * PageSize = n * PageSize - PageSize
    BY <1>1, <1>4, TimesMonotone, OneLessTimes
  <2>2. n * PageSize \in Int
    BY <1>1, <1>4
  <2> QED
    BY <1>1, <1>4, <1>5, <2>1, <2>2
<1> QED
  BY <1>2, <1>4, <1>6, <1>7, <1>8

\* Every place in the order lies on one page.
LEMMA OnOnePage ==
  ASSUME NEW total \in Nat \ {0}, NEW i \in 1 .. total
  PROVE  \E n \in 1 .. TotalPages(total) : \A m \in 1 .. TotalPages(total) :
           ((m - 1) * PageSize < i /\ i <= (m - 1) * PageSize + PageSize) <=> m = n
<1>1. PageSize \in Nat \ {0} /\ i - 1 \in Nat /\ TotalPages(total) \in Nat
  BY PageSizeAssumption, PagesReach
<1> DEFINE k == (i - 1) \div PageSize
<1>2. k \in Nat /\ k * PageSize <= i - 1 /\ i - 1 < k * PageSize + PageSize
  BY <1>1, DivisionBounds
<1> HIDE DEF k
<1>3. k * PageSize \in Int /\ (k + 1) - 1 = k
  BY <1>1, <1>2
<1>4. k + 1 \in 1 .. TotalPages(total)
  <2>1. total <= TotalPages(total) * PageSize /\ TotalPages(total) * PageSize \in Int
    BY <1>1, PagesReach
  <2>2. k * PageSize < TotalPages(total) * PageSize
    BY <1>2, <1>3, <2>1
  <2>3. ~(TotalPages(total) <= k)
    BY <1>1, <1>2, <2>1, <2>2, <1>3, TimesMonotone
  <2> QED
    BY <1>1, <1>2, <2>3
<1>5. ASSUME NEW m \in 1 .. TotalPages(total)
      PROVE  ((m - 1) * PageSize < i /\ i <= (m - 1) * PageSize + PageSize) <=> m = k + 1
  <2>0. m - 1 \in Nat /\ (m - 1) * PageSize \in Int /\ m * PageSize \in Int
        /\ (m - 1) * PageSize = m * PageSize - PageSize
    BY <1>1, OneLessTimes
  <2>1. CASE m = k + 1
    BY <1>1, <1>2, <1>3, <2>0, <2>1
  <2>2. CASE m <= k
    <3>1. m * PageSize <= k * PageSize
      BY <1>1, <1>2, <2>2, TimesMonotone
    <3> QED
      BY <1>1, <1>2, <1>3, <2>0, <2>2, <3>1
  <2>3. CASE k + 1 <= m - 1
    <3>1. (k + 1) * PageSize <= (m - 1) * PageSize
      BY <1>1, <1>2, <2>0, <2>3, TimesMonotone
    <3>2. (k + 1) * PageSize = k * PageSize + PageSize
      BY <1>1, <1>2
    <3> QED
      BY <1>1, <1>2, <1>3, <2>0, <2>3, <3>1, <3>2
  <2> QED
    BY <1>1, <1>2, <2>1, <2>2, <2>3
<1> QED
  BY <1>4, <1>5

\* $sort returns every match, each once.
LEMMA SortedHasAll ==
  ASSUME NEW S, IsFiniteSet(S), NEW sortBy, NEW s \in Sorted(sortBy, S), NEW p \in S
  PROVE  \E i \in 1 .. Cardinality(S) : s[i] = p
<1> DEFINE n == Cardinality(S)
<1>1. n \in Nat
  BY FS_CardinalityType
<1>2. s \in [1 .. n -> S] /\ \A i, j \in 1 .. n : i < j => s[i] # s[j]
  BY DEF Sorted
<1>3. IsFiniteSet(1 .. n) /\ Cardinality(1 .. n) = n
  BY <1>1, FS_Interval
<1>4. IsFiniteSet(S \ {p}) /\ Cardinality(S \ {p}) = n - 1
  BY FS_RemoveElement
<1> HIDE DEF n
<1> SUFFICES ASSUME \A i \in 1 .. n : s[i] # p PROVE FALSE
  BY DEF n
<1>5. s \in [1 .. n -> S \ {p}]
  BY <1>2
<1>6. Cardinality(S \ {p}) < Cardinality(1 .. n)
  BY <1>1, <1>3, <1>4
<1> DEFINE rest == S \ {p}
           places == 1 .. n
<1>7. PICK i \in places, j \in places : i # j /\ s[i] = s[j]
  <2>1. /\ IsFiniteSet(places) /\ IsFiniteSet(rest) /\ Cardinality(rest) < Cardinality(places)
        /\ s \in [places -> rest]
    BY <1>3, <1>4, <1>5, <1>6
  <2> HIDE DEF rest, places
  <2> QED
    BY <2>1, FS_PigeonHole
<1>8. i < j \/ j < i
  BY <1>1, <1>7
<1> QED
  BY <1>2, <1>7, <1>8

\* Unless sort keys are equal, there is one order.
LEMMA SortedIsUnique ==
  ASSUME NEW S, IsFiniteSet(S), NEW sortBy,
         \A p, q \in S : InOrder(sortBy, p, q) /\ InOrder(sortBy, q, p) => p = q,
         NEW s \in Sorted(sortBy, S), NEW t \in Sorted(sortBy, S)
  PROVE  s = t
<1> DEFINE n == Cardinality(S)
           D == {i \in 1 .. n : s[i] # t[i]}
<1>1. n \in Nat
  BY FS_CardinalityType
<1>2. /\ s \in [1 .. n -> S] /\ t \in [1 .. n -> S]
      /\ \A i, j \in 1 .. n : i < j => /\ s[i] # s[j] /\ InOrder(sortBy, s[i], s[j])
                                       /\ t[i] # t[j] /\ InOrder(sortBy, t[i], t[j])
  BY DEF Sorted
<1>3. \A p \in S : (\E i \in 1 .. n : s[i] = p) /\ (\E i \in 1 .. n : t[i] = p)
  BY SortedHasAll
<1> HIDE DEF n
<1>4. CASE D = {}
  <2>1. \A i \in 1 .. n : s[i] = t[i]
    BY <1>4
  <2>2. s = [i \in 1 .. n |-> s[i]] /\ t = [i \in 1 .. n |-> t[i]]
    BY <1>2
  <2> QED
    BY <2>1, <2>2
<1>5. CASE D # {}
  <2>1. D \subseteq Nat
    BY <1>1
  <2>2. PICK i \in D : \A j \in D : ~(<<j, i>> \in OpToRel(<, Nat))
    <3> HIDE DEF D
    <3> QED
      BY <1>5, <2>1, NatLessThanWellFounded, WFMin
  <2>3. i \in 1 .. n /\ s[i] # t[i] /\ s[i] \in S /\ t[i] \in S
    BY <1>2
  <2>4. \A j \in 1 .. n : j < i => s[j] = t[j]
    <3> SUFFICES ASSUME NEW j \in 1 .. n, j < i, j \in D PROVE FALSE
      OBVIOUS
    <3>1. <<j, i>> \in Nat \X Nat
      BY <2>1
    <3>2. <<j, i>> \in OpToRel(<, Nat)
      BY <3>1 DEF OpToRel
    <3> QED
      BY <2>2, <3>2
  <2>5. PICK k \in 1 .. n : t[k] = s[i]
    BY <1>3, <2>3
  <2>6. PICK m \in 1 .. n : s[m] = t[i]
    BY <1>3, <2>3
  <2>7. i < k
    <3>1. k # i
      BY <2>3, <2>5
    <3>2. ~(k < i)
      <4> SUFFICES ASSUME k < i PROVE FALSE
        OBVIOUS
      <4>1. s[k] = s[i]
        BY <2>4, <2>5
      <4> QED
        BY <1>2, <2>3, <4>1
    <3> QED
      BY <1>1, <2>3, <3>1, <3>2
  <2>8. i < m
    <3>1. m # i
      BY <2>3, <2>6
    <3>2. ~(m < i)
      <4> SUFFICES ASSUME m < i PROVE FALSE
        OBVIOUS
      <4>1. t[m] = t[i]
        BY <2>4, <2>6
      <4> QED
        BY <1>2, <2>3, <4>1
    <3> QED
      BY <1>1, <2>3, <3>1, <3>2
  <2>9. InOrder(sortBy, t[i], s[i]) /\ InOrder(sortBy, s[i], t[i])
    BY <1>2, <2>3, <2>5, <2>6, <2>7, <2>8
  <2> QED
    BY <2>3, <2>9
<1> QED
  BY <1>4, <1>5

\* What $skip and $limit leave of the order.
LEMMA ItemsOfPage ==
  ASSUME NEW q, q.page \in Nat \ {0}, NEW S, IsFiniteSet(S), NEW s \in Sorted(q.sortBy, S), NEW p
  PROVE  IsOn(p, PageOf(q, s)) <=>
           \E i \in 1 .. Cardinality(S) : /\ Skip(q) < i /\ i <= Skip(q) + PageSize
                                          /\ s[i] = p
<1> DEFINE n == Cardinality(S)
           from == Skip(q)
           to == Min({from + PageSize, n})
           first == from + 1
<1>1. n \in Nat /\ s \in [1 .. n -> S] /\ Len(s) = n
  BY FS_CardinalityType DEF Sorted
<1>2. from \in Nat /\ PageSize \in Nat
  <2>1. \A k \in Nat \ {0}, m \in Nat : (k - 1) * m \in Nat
    OBVIOUS
  <2> QED
    BY <2>1, PageSizeAssumption DEF Skip
<1> HIDE DEF n, from
<1>3. to \in Nat /\ to = IF from + PageSize <= n THEN from + PageSize ELSE n
  <2> DEFINE m == IF from + PageSize <= n THEN from + PageSize ELSE n
  <2>1. m \in {from + PageSize, n} /\ \A y \in {from + PageSize, n} : m =< y
    BY <1>1, <1>2
  <2>2. to \in {from + PageSize, n} /\ \A y \in {from + PageSize, n} : to =< y
    BY <2>1 DEF Min
  <2> QED
    BY <1>1, <1>2, <2>1, <2>2
<1>4. PageOf(q, s) = SubSeq(s, first, to)
  BY <1>1 DEF PageOf, n, from
<1> HIDE DEF to
<1>5. first \in Int /\ to \in Int /\ \A i \in first .. to : s[i] \in S
  BY <1>1, <1>2, <1>3
<1> DEFINE page == SubSeq(s, first, to)
<1>6. /\ page \in Seq(S) /\ Len(page) = IF first <= to THEN to - first + 1 ELSE 0
      /\ \A i \in 1 .. to - first + 1 : page[i] = s[first + i - 1]
  <2> HIDE DEF first
  <2> QED
    BY <1>5, SubSeqProperties
<1> HIDE DEF page
<1>7. DOMAIN page = 1 .. to - first + 1
  BY <1>2, <1>3, <1>6
<1>8. \A j \in DOMAIN page : page[j] = s[from + j]
  <2> SUFFICES ASSUME NEW j \in 1 .. to - first + 1 PROVE page[j] = s[from + j]
    BY <1>7
  <2>1. first + j - 1 = from + j
    BY <1>2, <1>3
  <2> QED
    BY <1>6, <2>1
<1>9. ASSUME NEW j \in DOMAIN page, page[j] = p
      PROVE  \E i \in 1 .. n : from < i /\ i <= from + PageSize /\ s[i] = p
  <2>1. from + j \in 1 .. n /\ from < from + j /\ from + j <= from + PageSize
    BY <1>1, <1>2, <1>3, <1>7, <1>9
  <2> QED
    BY <1>8, <1>9, <2>1
<1>10. ASSUME NEW i \in 1 .. n, from < i, i <= from + PageSize, s[i] = p
       PROVE  \E j \in DOMAIN page : page[j] = p
  <2>1. i - from \in DOMAIN page /\ from + (i - from) = i
    BY <1>1, <1>2, <1>3, <1>7, <1>10
  <2> QED
    BY <1>8, <1>10, <2>1
<1>11. IsOn(p, PageOf(q, s)) <=> \E j \in DOMAIN page : page[j] = p
  BY <1>4 DEF IsOn, page
<1> QED
  BY <1>9, <1>10, <1>11 DEF n, from

\* A page within the page numbers shows something, when there is a match.
LEMMA PageNotEmpty ==
  ASSUME NEW q, NEW S, IsFiniteSet(S), S # {}, q.page \in 1 .. TotalPages(Cardinality(S)),
         NEW s \in Sorted(q.sortBy, S)
  PROVE  PageOf(q, s) # <<>>
<1> DEFINE n == Cardinality(S)
<1>1. n \in Nat \ {0}
  BY FS_CardinalityType, FS_EmptySet
<1>2. TotalPages(n) \in Nat /\ (q.page - 1) * PageSize < n
  BY <1>1, PagesReach
<1>3. q.page \in Nat \ {0}
  BY <1>2
<1>4. Skip(q) \in Nat /\ Skip(q) < n /\ PageSize \in Nat \ {0}
  <2>1. \A k \in Nat \ {0}, m \in Nat : (k - 1) * m \in Nat
    OBVIOUS
  <2> QED
    BY <1>2, <1>3, <2>1, PageSizeAssumption DEF Skip
<1>5. Skip(q) + 1 \in 1 .. n /\ Skip(q) < Skip(q) + 1 /\ Skip(q) + 1 <= Skip(q) + PageSize
  BY <1>1, <1>4
<1>6. IsOn(s[Skip(q) + 1], PageOf(q, s))
  BY <1>3, <1>5, ItemsOfPage
<1> QED
  BY <1>6 DEF IsOn

\* The count and the pages are two facets of one query, so that the page
\* numbers lead to no empty page and, but for equal sort keys, to every match
\* once (propertiesPipeline.ts:195, properties.tsx:109).
THEOREM PagesCover == Spec => []PagesCoverMatches
<1>1. SearchInv => PagesCoverMatches
  <2> SUFFICES ASSUME SearchInv,
                      NEW order \in [1 .. TotalPages(Total(view)) ->
                                       Sorted(view.sortBy, PercentMatch(view))]
               PROVE  LET Items(n) == PageOf([view EXCEPT !.page = n], order[n])
                      IN /\ Total(view) > 0 => \A n \in DOMAIN order : Items(n) # <<>>
                         /\ Untied(view) =>
                              \A p \in PercentMatch(view) :
                                \E n \in DOMAIN order : \A m \in DOMAIN order :
                                  IsOn(p, Items(m)) <=> m = n
    BY DEF PagesCoverMatches
  <2> DEFINE S == PercentMatch(view)
             total == Total(view)
             pages == 1 .. TotalPages(total)
             At(n) == [view EXCEPT !.page = n]
             Items(n) == PageOf(At(n), order[n])
  <2>1. /\ view \in Queries /\ IsFiniteSet(S) /\ total = Cardinality(S) /\ total \in Nat
        /\ DOMAIN order = pages
    BY MatchesFinite, FS_Subset, PropertiesAssumption DEF SearchInv, ViewType, Total
  <2>2. \A n \in pages : n \in Nat \ {0}
    BY <2>1, PagesReach DEF TotalPages
  <2>3. ASSUME NEW n \in pages
        PROVE  At(n).page = n /\ At(n).sortBy = view.sortBy /\ Skip(At(n)) = (n - 1) * PageSize
    BY <2>1 DEF Queries, Skip
  <2>4. \A n \in pages : order[n] \in Sorted(view.sortBy, S)
    OBVIOUS
  <2>5. Untied(view) => \A m, n \in pages : order[m] = order[n]
    BY <2>1, <2>4, SortedIsUnique DEF Untied
  <2> HIDE DEF S, total, At
  <2>6. ASSUME Untied(view), NEW p \in S
        PROVE  \E n \in pages : \A m \in pages : IsOn(p, Items(m)) <=> m = n
    <3>1. total \in Nat \ {0}
      BY <2>1, FS_EmptySet
    <3>2. 1 \in pages
      BY <3>1, PagesReach
    <3> DEFINE s == order[1]
    <3>3. s \in Sorted(view.sortBy, S) /\ \A m \in pages : order[m] = s
      BY <2>4, <2>5, <2>6, <3>2
    <3> HIDE DEF s
    <3>4. PICK i \in 1 .. total : s[i] = p
      BY <2>1, <2>6, <3>3, SortedHasAll
    <3>5. \A j \in 1 .. total : s[j] = p => j = i
      <4>1. \A j, k \in 1 .. total : j < k => s[j] # s[k]
        BY <2>1, <3>3 DEF Sorted
      <4> QED
        BY <2>1, <3>4, <4>1
    <3>6. ASSUME NEW m \in pages
          PROVE  IsOn(p, Items(m)) <=> (m - 1) * PageSize < i /\ i <= (m - 1) * PageSize + PageSize
      <4>1. s \in Sorted(At(m).sortBy, S) /\ At(m).page \in Nat \ {0} /\ Items(m) = PageOf(At(m), s)
        BY <2>2, <2>3, <3>3, <3>6
      <4>2. IsOn(p, Items(m)) <=>
              \E j \in 1 .. total : /\ Skip(At(m)) < j /\ j <= Skip(At(m)) + PageSize
                                    /\ s[j] = p
        BY <2>1, <4>1, ItemsOfPage
      <4> QED
        BY <2>3, <3>4, <3>5, <3>6, <4>2
    <3>7. PICK n \in pages : \A m \in pages :
            ((m - 1) * PageSize < i /\ i <= (m - 1) * PageSize + PageSize) <=> m = n
      BY <3>1, OnOnePage
    <3> QED
      BY <3>6, <3>7
  <2>7. ASSUME total > 0, NEW n \in pages PROVE Items(n) # <<>>
    <3>1. S # {}
      BY <2>1, <2>7, FS_EmptySet
    <3>2. At(n).page \in 1 .. TotalPages(Cardinality(S)) /\ order[n] \in Sorted(At(n).sortBy, S)
      BY <2>1, <2>3, <2>4, <2>7
    <3> QED
      BY <2>1, <3>1, <3>2, PageNotEmpty
  <2> QED
    BY <2>1, <2>6, <2>7 DEF S, total, At
<1> QED
  BY <1>1, SearchAlways, PTL
-----------------------------------------------------------------------------
(***************************************************************************)
(* Nothing found: while the database is not written to, the last answer is *)
(* that of the view on screen, and the view is on a page there is.         *)
(***************************************************************************)
Honest(q, a) ==
  \E s \in Sorted(q.sortBy, PercentMatch(q)) : a = [items |-> PageOf(q, s), total |-> Total(q)]

LatestAsked == /\ applied <= sent /\ (shown.loadError => shown.total = 0)
               /\ \A r \in inflight : r.id = sent => r.query = asked

AnswersHonest == \A r \in inflight : r.answer # NULL => Honest(r.query, r.answer)

ShownHonest ==
  mounted /\ applied = sent /\ ~shown.loadError =>
    Honest(view, [items |-> shown.items, total |-> shown.total])

PageExists == mounted /\ ~overtaken /\ ~doubtful => view.page <= TotalPages(Total(view))

QuietInv == LatestAsked /\ (writes = 0 => AnswersHonest /\ ShownHonest /\ PageExists)

\* The same database gives the same answers.
LEMMA SameMatches ==
  ASSUME status' = status
  PROVE  /\ \A q : PercentMatch(q)' = PercentMatch(q)
         /\ \A q : Total(q)' = Total(q)
         /\ \A q, a : Honest(q, a)' <=> Honest(q, a)
<1>1. \A q : PercentMatch(q)' = PercentMatch(q)
  BY DEF PercentMatch, Match, StatusMatches
<1>2. \A q : Total(q)' = Total(q)
  BY <1>1 DEF Total
<1> QED
  BY <1>1, <1>2 DEF Honest

LEMMA PageOneExists == ASSUME NEW q PROVE TotalPages(Total(q)) \in Nat /\ 1 <= TotalPages(Total(q))
<1>1. Total(q) \in Nat
  BY MatchesFinite
<1>2. CASE Total(q) = 0
  BY <1>2 DEF TotalPages
<1>3. CASE Total(q) # 0
  BY <1>1, <1>3, PagesReach
<1> QED
  BY <1>2, <1>3

\* A step that asks nothing and is told nothing.
LEMMA QuietUnchanged ==
  ASSUME QuietInv,
         UNCHANGED <<status, writes, mounted, view, inflight, sent, asked, shown, applied,
                     overtaken, doubtful>>
  PROVE  QuietInv'
<1>1. LatestAsked'
  BY DEF QuietInv, LatestAsked
<1>2. ASSUME writes' = 0 PROVE AnswersHonest' /\ ShownHonest' /\ PageExists'
  <2>1. AnswersHonest /\ ShownHonest /\ PageExists
    BY <1>2 DEF QuietInv
  <2>2. AnswersHonest'
    BY <2>1, SameMatches DEF AnswersHonest
  <2>3. ShownHonest'
    BY <2>1, SameMatches DEF ShownHonest
  <2>4. PageExists'
    BY <2>1, SameMatches DEF PageExists
  <2> QED
    BY <2>2, <2>3, <2>4
<1> QED
  BY <1>1, <1>2 DEF QuietInv

\* A view is shown: it is asked for, unless it is on screen.
LEMMA QuietShow ==
  ASSUME SearchInv, QuietInv, NEW v \in Queries, Show(v) \/ Ask(v), mounted,
         UNCHANGED <<status, writes, mounted, shown, applied, overtaken>>,
         writes' = 0 /\ ~overtaken' /\ ~doubtful' => v.page <= TotalPages(Total(v))
  PROVE  QuietInv'
<1>1. view' = v
  BY DEF Show, asking, Ask
<1>2. \/ UNCHANGED <<view, inflight, sent, asked>>
      \/ /\ asked' = v /\ sent' = sent + 1
         /\ inflight' = inflight \cup {[id |-> sent + 1, query |-> v, answer |-> NULL]}
  BY DEF Show, asking, Ask
<1>3. sent \in Nat /\ applied \in Nat /\ \A r \in inflight : r.id \in 1 .. sent
  BY DEF SearchInv, Numbered
<1>4. LatestAsked'
  <2>1. CASE UNCHANGED <<view, inflight, sent, asked>>
    BY <2>1 DEF QuietInv, LatestAsked
  <2>2. CASE /\ asked' = v /\ sent' = sent + 1
             /\ inflight' = inflight \cup {[id |-> sent + 1, query |-> v, answer |-> NULL]}
    BY <1>3, <2>2 DEF QuietInv, LatestAsked
  <2> QED
    BY <1>2, <2>1, <2>2
<1>5. ASSUME writes' = 0 PROVE AnswersHonest' /\ ShownHonest' /\ PageExists'
  <2>1. AnswersHonest /\ ShownHonest
    BY <1>5 DEF QuietInv
  <2>2. \A r \in inflight' : r.answer # NULL => r \in inflight
    BY <1>2
  <2>3. AnswersHonest'
    BY <2>1, <2>2, SameMatches DEF AnswersHonest
  <2>4. applied' = sent' => view' = view /\ applied = sent
    BY <1>2, <1>3 DEF QuietInv, LatestAsked
  <2>5. ShownHonest'
    BY <2>1, <2>4, SameMatches DEF ShownHonest
  <2>6. PageExists'
    BY <1>1, <1>5, SameMatches DEF PageExists
  <2> QED
    BY <2>3, <2>5, <2>6
<1> QED
  BY <1>4, <1>5 DEF QuietInv

LEMMA QuietMount == ASSUME SearchInv, Mount PROVE QuietInv'
<1> DEFINE first == [id |-> 1, query |-> DefaultView, answer |-> NULL]
           second == [id |-> 2, query |-> url, answer |-> NULL]
<1>1. /\ applied' = 0 /\ shown' = Nothing /\ status' = status /\ writes' = writes
      /\ doubtful' = (url # NoLink /\ url.page > TotalPages(Total(url)))
  BY DEF Mount, server
<1>2. \/ /\ url = NoLink /\ sent' = 1 /\ view' = DefaultView /\ asked' = DefaultView
         /\ inflight' = {first}
      \/ /\ url # NoLink /\ sent' = 2 /\ view' = url /\ asked' = url
         /\ inflight' = {first, second}
  <2>1. CASE url = NoLink
    BY <2>1 DEF Mount
  <2>2. CASE url # NoLink
    BY <2>2 DEF Mount, Restored
  <2> QED
    BY <2>1, <2>2
<1>3. /\ first.id = 1 /\ first.query = DefaultView /\ first.answer = NULL
      /\ second.id = 2 /\ second.query = url /\ second.answer = NULL
  OBVIOUS
<1> HIDE DEF first, second
<1>4. LatestAsked'
  BY <1>1, <1>2, <1>3 DEF LatestAsked, Nothing
<1>5. AnswersHonest' /\ ShownHonest'
  BY <1>1, <1>2, <1>3 DEF AnswersHonest, ShownHonest
<1>6. PageExists'
  <2>1. ASSUME ~doubtful' PROVE view'.page <= TotalPages(Total(view'))
    <3>1. CASE url = NoLink
      <4>1. view' = DefaultView /\ DefaultView.page = 1
        BY <1>2, <3>1 DEF DefaultView
      <4> QED
        BY <4>1, PageOneExists
    <3>2. CASE url # NoLink
      <4>1. view' = url /\ url \in Queries
        BY <1>2, <3>2 DEF SearchInv, ViewType
      <4>2. url.page \in Nat /\ TotalPages(Total(url)) \in Nat
        BY <4>1, PageOneExists DEF Queries
      <4>3. ~(url.page > TotalPages(Total(url)))
        BY <1>1, <2>1, <3>2
      <4> QED
        BY <4>1, <4>2, <4>3
    <3> QED
      BY <3>1, <3>2
  <2> QED
    BY <1>1, <2>1, SameMatches DEF PageExists
<1> QED
  BY <1>4, <1>5, <1>6 DEF QuietInv

\* The page number decides only which of the matches are shown.
LEMMA PageDecidesNoMatch ==
  ASSUME NEW v \in Queries, NEW n
  PROVE  Total([v EXCEPT !.page = n]) = Total(v) /\ [v EXCEPT !.page = n].page = n
<1>1. /\ [v EXCEPT !.page = n].activeStatus = v.activeStatus
      /\ [v EXCEPT !.page = n].filters = v.filters /\ [v EXCEPT !.page = n].page = n
  BY DEF Queries
<1>2. PercentMatch([v EXCEPT !.page = n]) = PercentMatch(v)
  BY <1>1 DEF PercentMatch, Match, StatusMatches
<1> QED
  BY <1>1, <1>2 DEF Total

\* A button for another page leads to one that there is, when nothing is in
\* flight.
LEMMA QuietTurn ==
  ASSUME SearchInv, QuietInv, NEW page, TurnPage(page) PROVE QuietInv'
<1> DEFINE v == [view EXCEPT !.page = page]
<1>1. view \in Queries /\ view.page \in Nat \ {0} /\ page \in Nat \ {0}
  BY DEF TurnPage, SearchInv, ViewType, Queries
<1>2. v \in Queries
  BY <1>1 DEF Queries
<1>3. Total(v) = Total(view) /\ v.page = page
  BY <1>1, PageDecidesNoMatch
<1>4. /\ Show(v) /\ mounted /\ doubtful' = (doubtful \/ inflight # {})
      /\ UNCHANGED <<status, writes, mounted, shown, applied, overtaken>>
      /\ \/ page = view.page - 1
         \/ page = view.page + 1 /\ view.page < TotalPages(shown.total)
  BY DEF TurnPage, server, visit
<1> HIDE DEF v
<1>5. ASSUME writes' = 0, ~overtaken', ~doubtful' PROVE v.page <= TotalPages(Total(v))
  <2>1. writes = 0 /\ ~overtaken /\ ~doubtful /\ inflight = {}
    BY <1>4, <1>5
  <2>2. view.page <= TotalPages(Total(view)) /\ TotalPages(Total(view)) \in Nat
    BY <1>4, <2>1, PageOneExists DEF QuietInv, PageExists
  <2>3. CASE page = view.page - 1
    BY <1>1, <1>3, <2>2, <2>3
  <2>4. CASE page = view.page + 1 /\ view.page < TotalPages(shown.total)
    <3>1. applied = sent
      BY <1>4, <2>1 DEF SearchInv, LatestInv
    <3>2. ~shown.loadError
      <4> SUFFICES ASSUME shown.loadError PROVE FALSE
        OBVIOUS
      <4>1. TotalPages(shown.total) = 1
        BY DEF QuietInv, LatestAsked, TotalPages
      <4> QED
        BY <1>1, <2>4, <4>1
    <3>3. PICK s : [items |-> shown.items, total |-> shown.total]
                     = [items |-> PageOf(view, s), total |-> Total(view)]
      BY <1>4, <2>1, <3>1, <3>2 DEF QuietInv, ShownHonest, Honest
    <3>4. shown.total = Total(view)
      BY <3>3
    <3> QED
      BY <1>1, <1>3, <2>2, <2>4, <3>4
  <2> QED
    BY <1>4, <2>3, <2>4
<1> QED
  BY <1>2, <1>4, <1>5, QuietShow

LEMMA QuietUser == ASSUME SearchInv, QuietInv, UserStep PROVE QuietInv'
<1>1. CASE Mount
  BY <1>1, QuietMount
<1>2. CASE Leave
  <2>1. /\ mounted' = FALSE /\ inflight' = {}
        /\ UNCHANGED <<status, writes, sent, shown, applied, overtaken>>
    BY <1>2 DEF Leave, server
  <2> QED
    BY <2>1 DEF QuietInv, LatestAsked, AnswersHonest, ShownHonest, PageExists
<1>3. ASSUME NEW tab \in Tabs, ChooseTab(tab) PROVE QuietInv'
  <2> DEFINE v == [view EXCEPT !.activeStatus = tab, !.page = 1]
  <2>1. v \in Queries /\ v.page = 1
    BY OnFirstPage DEF SearchInv, ViewType, Queries
  <2>2. Show(v) /\ mounted /\ UNCHANGED <<status, writes, mounted, shown, applied, overtaken>>
    BY <1>3 DEF ChooseTab, server, visit
  <2> HIDE DEF v
  <2>3. v.page <= TotalPages(Total(v))
    BY <2>1, PageOneExists
  <2> QED
    BY <2>1, <2>2, <2>3, QuietShow
<1>4. ASSUME NEW page \in 1 .. Cardinality(Properties) + 1, TurnPage(page) PROVE QuietInv'
  BY <1>4, QuietTurn
<1>5. CASE Apply
  <2> DEFINE v == [view EXCEPT !.filters = draft.filters, !.sortBy = draft.sort, !.page = 1]
  <2>1. draft \in Drafts
    BY <1>5 DEF Apply, SearchInv, ViewType
  <2>2. v \in Queries /\ v.page = 1
    BY <2>1, Filtered DEF SearchInv, ViewType, Drafts, Queries
  <2>3. /\ Show(v) \/ Ask(v)
        /\ mounted /\ UNCHANGED <<status, writes, mounted, shown, applied, overtaken>>
    BY <1>5 DEF Apply, ShowDraft, server, visit
  <2> HIDE DEF v
  <2>4. v.page <= TotalPages(Total(v))
    BY <2>2, PageOneExists
  <2> QED
    BY <2>2, <2>3, <2>4, QuietShow
<1>6. ASSUME OpenDialog \/ CloseDialog \/ \E d : Edit(d) PROVE QuietInv'
  BY <1>6, QuietUnchanged DEF OpenDialog, CloseDialog, Edit, server, visit, asking, screen
<1> QED
  BY <1>1, <1>2, <1>3, <1>4, <1>5, <1>6 DEF UserStep, ToggleStatus, TypeBound, ChooseSort, EditFilters

LEMMA QuietServe ==
  ASSUME SearchInv, QuietInv, NEW r \in inflight, Serve(r) PROVE QuietInv'
<1>1. PICK s \in Sorted(r.query.sortBy, PercentMatch(r.query)) :
        inflight' = (inflight \ {r}) \cup
          {[r EXCEPT !.answer = [items |-> PageOf(r.query, s), total |-> Total(r.query)]]}
  BY DEF Serve
<1> DEFINE a == [items |-> PageOf(r.query, s), total |-> Total(r.query)]
           served == [r EXCEPT !.answer = a]
<1>2. UNCHANGED <<status, writes, mounted, view, sent, asked, shown, applied, overtaken, doubtful>>
  BY DEF Serve, server, visit, screen
<1>3. Honest(r.query, a)
  BY DEF Honest
<1> HIDE DEF a
<1>4. served.id = r.id /\ served.query = r.query /\ served.answer = a
  BY DEF SearchInv, Numbered, RequestType
<1> HIDE DEF served
<1>5. inflight' = (inflight \ {r}) \cup {served}
  BY <1>1 DEF served, a
<1>6. LatestAsked'
  BY <1>2, <1>4, <1>5 DEF QuietInv, LatestAsked
<1>7. ASSUME writes' = 0 PROVE AnswersHonest' /\ ShownHonest' /\ PageExists'
  <2>1. AnswersHonest /\ ShownHonest /\ PageExists
    BY <1>2, <1>7 DEF QuietInv
  <2>2. AnswersHonest'
    BY <1>2, <1>3, <1>4, <1>5, <2>1, SameMatches DEF AnswersHonest
  <2>3. ShownHonest'
    BY <1>2, <2>1, SameMatches DEF ShownHonest
  <2>4. PageExists'
    BY <1>2, <2>1, SameMatches DEF PageExists
  <2> QED
    BY <2>2, <2>3, <2>4
<1> QED
  BY <1>6, <1>7 DEF QuietInv

\* What is shown after an answer or a failure is that of the view, if the
\* request was the last one.
LEMMA QuietFinish ==
  ASSUME SearchInv, QuietInv, NEW r \in inflight, Finish(r),
         shown'.loadError => shown'.total = 0,
         writes = 0 /\ ~shown'.loadError =>
           Honest(r.query, [items |-> shown'.items, total |-> shown'.total])
  PROVE  QuietInv'
<1>1. /\ inflight' = inflight \ {r} /\ applied' = r.id
      /\ overtaken' = (overtaken \/ r.id < applied)
      /\ UNCHANGED <<status, writes, mounted, view, sent, asked, doubtful>>
  BY DEF Finish, server, visit
<1>2. r.id \in 1 .. sent /\ sent \in Nat
  BY DEF SearchInv, Numbered
<1>3. LatestAsked'
  BY <1>1, <1>2 DEF QuietInv, LatestAsked
<1>4. ASSUME writes' = 0 PROVE AnswersHonest' /\ ShownHonest' /\ PageExists'
  <2>1. AnswersHonest /\ PageExists /\ writes = 0
    BY <1>1, <1>4 DEF QuietInv
  <2>2. AnswersHonest'
    BY <1>1, <2>1, SameMatches DEF AnswersHonest
  <2>3. ASSUME mounted, r.id = sent PROVE r.query = view
    <3>1. r.query = asked
      BY <2>3 DEF QuietInv, LatestAsked
    <3>2. asked = view
      BY <1>2, <2>3 DEF SearchInv, AddressInv
    <3> QED
      BY <3>1, <3>2
  <2>4. ShownHonest'
    BY <1>1, <2>1, <2>3, SameMatches DEF ShownHonest
  <2>5. overtaken => overtaken'
    BY <1>1
  <2>6. PageExists'
    BY <1>1, <2>1, <2>5, SameMatches DEF PageExists
  <2> QED
    BY <2>2, <2>4, <2>6
<1> QED
  BY <1>3, <1>4 DEF QuietInv

LEMMA QuietNext == ASSUME SearchInv, ShownInv, QuietInv, [Next]_vars PROVE QuietInv'
<1>1. CASE UserStep
  BY <1>1, QuietUser
<1>2. ASSUME NEW r \in inflight, Serve(r) PROVE QuietInv'
  BY <1>2, QuietServe
<1>3. ASSUME NEW r \in inflight, Deliver(r) PROVE QuietInv'
  <2>1. /\ Finish(r) /\ r.answer # NULL
        /\ shown' = [items |-> r.answer.items, total |-> r.answer.total, loadError |-> FALSE]
    BY <1>3 DEF Deliver
  <2>2. /\ shown'.loadError = FALSE /\ shown'.items = r.answer.items
        /\ shown'.total = r.answer.total
    BY <2>1
  <2>3. writes = 0 => Honest(r.query, r.answer)
    BY <2>1 DEF QuietInv, AnswersHonest
  <2>4. ASSUME writes = 0
        PROVE  r.answer = [items |-> r.answer.items, total |-> r.answer.total]
    <3>1. PICK s : r.answer = [items |-> PageOf(r.query, s), total |-> Total(r.query)]
      BY <2>3, <2>4 DEF Honest
    <3>2. r.answer.items = PageOf(r.query, s) /\ r.answer.total = Total(r.query)
      BY <3>1
    <3> QED
      BY <3>1, <3>2
  <2> QED
    BY <2>1, <2>2, <2>3, <2>4, QuietFinish
<1>4. ASSUME NEW r \in inflight, RequestFails(r) PROVE QuietInv'
  <2>1. Finish(r) /\ shown'.loadError = TRUE /\ shown'.total = 0
    BY <1>4 DEF RequestFails, Nothing
  <2> QED
    BY <2>1, QuietFinish
<1>5. ASSUME NEW p \in Properties, Write(p) PROVE QuietInv'
  <2>1. writes' = writes + 1 /\ writes \in Nat
    BY <1>5 DEF Write, ShownInv
  <2>2. writes' # 0
    BY <2>1
  <2>3. UNCHANGED <<inflight, sent, asked, shown, applied>>
    BY <1>5 DEF Write, asking, screen
  <2>4. LatestAsked'
    BY <2>3 DEF QuietInv, LatestAsked
  <2> QED
    BY <2>2, <2>4 DEF QuietInv
<1>6. CASE UNCHANGED vars
  BY <1>6, QuietUnchanged DEF vars, server, visit, asking, screen
<1> QED
  BY <1>1, <1>2, <1>3, <1>4, <1>5, <1>6 DEF Next, Answer

\* "No properties found" (properties.tsx:191) is true, or said too early,
\* while the request for the view on screen is unanswered (properties.tsx:93);
\* as long as answers come in order, the page was offered by the answer to
\* the view and the database does not change, whatever is clicked meanwhile.
THEOREM NothingFoundIsSo == Spec => []NothingFoundIsTrue
<1>1. Init => QuietInv
  BY DEF Init, QuietInv, LatestAsked, AnswersHonest, ShownHonest, PageExists, Nothing
<1>2. SearchInv /\ ShownInv /\ QuietInv => NothingFoundIsTrue
  <2> SUFFICES ASSUME SearchInv, QuietInv, SaysNothingFound, ~overtaken, ~doubtful, writes = 0,
                      PercentMatch(view) # {}, ~StillAsking
               PROVE  FALSE
    BY DEF NothingFoundIsTrue
  <2>1. mounted /\ ~shown.loadError /\ shown.items = <<>>
    BY DEF SaysNothingFound
  <2>2. applied = sent
    <3>1. asked = view
      BY <2>1 DEF SearchInv, AddressInv
    <3>2. ASSUME NEW r \in inflight, r.id = sent PROVE FALSE
      <4>1. r.query = view
        BY <3>1, <3>2 DEF QuietInv, LatestAsked
      <4> QED
        BY <3>2, <4>1 DEF StillAsking
    <3> QED
      BY <2>1, <3>2 DEF SearchInv, LatestInv
  <2>3. PICK s \in Sorted(view.sortBy, PercentMatch(view)) :
          [items |-> shown.items, total |-> shown.total]
            = [items |-> PageOf(view, s), total |-> Total(view)]
    BY <2>1, <2>2 DEF QuietInv, ShownHonest, Honest
  <2>4. PageOf(view, s) = <<>>
    BY <2>1, <2>3
  <2>5. view.page \in Nat \ {0} /\ IsFiniteSet(PercentMatch(view))
    BY MatchesFinite, FS_Subset, PropertiesAssumption DEF SearchInv, ViewType, Queries
  <2>6. view.page \in 1 .. TotalPages(Cardinality(PercentMatch(view)))
    BY <2>1, <2>5, PageOneExists DEF QuietInv, PageExists, Total
  <2> QED
    BY <2>4, <2>5, <2>6, PageNotEmpty
<1> QED
  BY <1>1, <1>2, SearchAlways, ShownInit, NextKeepsTypes, QuietNext, PTL DEF Spec
=============================================================================
