---------------------------- MODULE PropertySearch --------------------------
(***************************************************************************)
(* The list of properties: the page (client/components/properties.tsx and  *)
(* its filter dialog), the route (server/routes/properties.ts) and the     *)
(* query it builds (server/lib/propertiesPipeline.ts).                     *)
(*                                                                         *)
(* The page asks again whenever its view changes and cancels nothing, so   *)
(* several requests may be in flight, each is served from the database as  *)
(* it then is, and their answers arrive in any order.  The view is also    *)
(* kept in the page's address, from which it is restored when the user     *)
(* comes back.                                                             *)
(*                                                                         *)
(* A property has a price and a yield, which stand for the five numeric    *)
(* ranges: the price is matched before the facets, the yield in each of    *)
(* them, once its percentage has been converted.                           *)
(***************************************************************************)
EXTENDS Integers, Sequences, FiniteSets, FiniteSetsExt

CONSTANTS
  Properties,         \* the properties there are or will be
  Price, Yield,       \* their price and yield
  InitialStatus,      \* what of them the database may hold at first
  PageSize,           \* PAGE_SIZE of the page
  Inputs,             \* the numbers a user types into a range
  Links,              \* the addresses the page may be opened at
  NoLink,             \* an address without a query
  NULL,               \* an absent bound, or a closed dialog
  MaxVisits,          \* bound: times the page is opened
  MaxChanges,         \* bound: changes of its view
  MaxEdits,           \* bound: changes made in the dialog
  MaxDisturbances     \* bound: writes to the database, and requests that fail

Statuses == {"open", "funded"}
Tabs == Statuses \cup {"all"}
Sorts == {"price_asc", "price_desc", "gross_yield_desc"}

ASSUME PropertiesAssumption ==
  IsFiniteSet(Properties) /\ Price \in [Properties -> Nat] /\ Yield \in [Properties -> Nat]
ASSUME StatusAssumption == InitialStatus \subseteq [Properties -> Statuses \cup {"absent"}]
ASSUME PageSizeAssumption == PageSize \in Nat \ {0}
ASSUME BoundsAssumption == {MaxVisits, MaxChanges, MaxEdits, MaxDisturbances} \subseteq Nat
ASSUME InputsAssumption == Inputs \subseteq Nat

Ranges == {"price", "yield"}
NoBounds == [range \in Ranges |-> [min |-> NULL, max |-> NULL]]

\* defaultFilters, and the state the hooks start in.
DefaultFilters == [statuses |-> Statuses, bounds |-> NoBounds]
DefaultView == [page |-> 1, sortBy |-> "price_desc", activeStatus |-> "all",
                filters |-> DefaultFilters]

Bounds == Nat \cup {NULL}
Filters == [statuses : SUBSET Statuses, bounds : [Ranges -> [min : Bounds, max : Bounds]]]

\* The views: what the page asks for and what its address holds.
Queries == [page : Nat \ {0}, sortBy : Sorts, activeStatus : Tabs, filters : Filters]

ASSUME LinksAssumption == Links \subseteq Queries /\ NoLink \notin Queries

VARIABLES
  status,             \* the database: status[p], "absent" until p is stored
  mounted,            \* the page is on screen
  view,               \* its state: page, sortBy, activeStatus, filters
  draft,              \* the state of the open dialog: filters, sort, edited
  url,                \* the query of the page's address
  inflight,           \* its requests that have not been answered
  sent,               \* how many it has sent since it was mounted
  asked,              \* the view of the last one
  shown,              \* what it shows: items, total, loadError
  loading,
  applied,            \* history: the request whose answer was applied last
  overtaken,          \* history: an answer came after that of a later request
  doubtful,           \* history: the page number may be past the end: see TurnPage, Mount
  visits, changes, edits, writes, faults     \* bounds

dialog == <<draft, edits>>
server == <<status, writes>>
screen == <<shown, loading, applied, overtaken, faults>>
asking == <<view, url, inflight, sent, asked, changes>>

visit == <<mounted, visits>>

vars == <<server, visit, dialog, asking, screen, doubtful>>

Nothing == [items |-> <<>>, total |-> 0, loadError |-> FALSE]

Init ==
  /\ status \in InitialStatus
  /\ url \in Links \cup {NoLink}
  /\ mounted = FALSE
  /\ view = DefaultView
  /\ draft = NULL
  /\ inflight = {}
  /\ sent = 0
  /\ asked = DefaultView
  /\ shown = Nothing
  /\ loading = FALSE
  /\ applied = 0
  /\ overtaken = FALSE
  /\ doubtful = FALSE
  /\ visits = 0 /\ changes = 0 /\ edits = 0 /\ writes = 0 /\ faults = 0
-----------------------------------------------------------------------------
(***************************************************************************)
(* propertiesPipeline.ts.                                                  *)
(***************************************************************************)

Value(range, p) == IF range = "price" THEN Price[p] ELSE Yield[p]

Within(bounds, range, p) ==
  /\ bounds[range].min # NULL => Value(range, p) >= bounds[range].min
  /\ bounds[range].max # NULL => Value(range, p) <= bounds[range].max

\* The tab's status and the dialog's: an empty list of statuses is no
\* restriction, a list without the tab's status leaves nothing.
StatusMatches(query, p) ==
  /\ query.activeStatus # "all" => status[p] = query.activeStatus
  /\ query.filters.statuses # {} => status[p] \in query.filters.statuses

\* $match, before the facets.
Match(query) ==
  {p \in Properties : status[p] # "absent" /\ StatusMatches(query, p)
                        /\ Within(query.filters.bounds, "price", p)}

\* percentMatch, in each of the facets.
PercentMatch(query) == {p \in Match(query) : Within(query.filters.bounds, "yield", p)}

InOrder(sortBy, p, q) ==
  CASE sortBy = "price_asc" -> Price[p] <= Price[q]
    [] sortBy = "price_desc" -> Price[p] >= Price[q]
    [] sortBy = "gross_yield_desc" -> Yield[p] >= Yield[q]

\* $sort: properties with the same key come in any order.
Sorted(sortBy, S) ==
  {s \in [1 .. Cardinality(S) -> S] :
     /\ \A i, j \in DOMAIN s : i < j => s[i] # s[j] /\ InOrder(sortBy, s[i], s[j])}

Skip(query) == (query.page - 1) * PageSize

\* $skip and $limit.
PageOf(query, s) == SubSeq(s, Skip(query) + 1, Min({Skip(query) + PageSize, Len(s)}))

\* Mutant of Total: counted before the percentages are matched.
TotalOfMatch(query) == Cardinality(Match(query))

\* The other facet: { $count: "count" }.
Total(query) == Cardinality(PercentMatch(query))
-----------------------------------------------------------------------------
(***************************************************************************)
(* properties.tsx.                                                         *)
(***************************************************************************)

TotalPages(total) == IF total = 0 THEN 1 ELSE (total + PageSize - 1) \div PageSize

\* The effect on [filters, sortBy, activeStatus, page]: the address takes
\* the view and a request for it is sent; none is cancelled.
Ask(v) ==
  /\ changes < MaxChanges
  /\ changes' = changes + 1
  /\ view' = v
  /\ url' = v
  /\ asked' = v
  /\ sent' = sent + 1
  /\ inflight' = inflight \cup {[id |-> sent + 1, query |-> v, answer |-> NULL]}
  /\ loading' = TRUE

\* Mutant of Show: the effect does not depend on the page.
ShowButPage(v) ==
  IF [v EXCEPT !.page = view.page] = view
  THEN view' = v /\ UNCHANGED <<url, inflight, sent, asked, changes, loading>>
  ELSE Ask(v)

\* Status, order and page are set; React runs the effect if one has changed.
Show(v) ==
  IF v = view THEN UNCHANGED <<asking, loading>> ELSE Ask(v)

\* Mutant of Restored: what is in the address is applied as if it came from
\* the dialog, which starts again on page 1.
RestoredOnFirstPage(link) == [link EXCEPT !.page = 1]

\* The effect that reads the address.
Restored(link) == link

\* The page is opened, or the user comes back to it.  Both effects of the
\* first render run, so the default view is asked for as well when the
\* address holds a query: its filters are a new object.
Mount ==
  /\ ~mounted /\ visits < MaxVisits
  /\ visits' = visits + 1
  /\ mounted' = TRUE
  /\ LET first == [id |-> 1, query |-> DefaultView, answer |-> NULL]
         views == IF url = NoLink THEN <<DefaultView>> ELSE <<DefaultView, Restored(url)>>
         last == views[Len(views)]
     IN /\ sent' = Len(views)
        /\ view' = last /\ url' = last /\ asked' = last
        /\ inflight' = {first} \cup
             (IF url = NoLink THEN {} ELSE {[id |-> 2, query |-> last, answer |-> NULL]})
  /\ loading' = TRUE
  /\ shown' = Nothing
  /\ applied' = 0
  /\ overtaken' = FALSE
  /\ doubtful' = (url # NoLink /\ url.page > TotalPages(Total(url)))
  /\ UNCHANGED <<server, dialog, faults, changes>>

\* The user follows a link: what arrives later changes nothing, and `view`
\* remains as what was left.
Leave ==
  /\ mounted /\ draft = NULL
  /\ mounted' = FALSE
  /\ inflight' = {}
  /\ loading' = FALSE
  /\ UNCHANGED <<server, visits, dialog, view, url, sent, asked, changes, shown, applied, overtaken,
                 faults, doubtful>>

\* A tab: its status, from the first page.
ChooseTab(tab) ==
  /\ mounted /\ draft = NULL
  /\ Show([view EXCEPT !.activeStatus = tab, !.page = 1])
  /\ doubtful' = FALSE
  /\ UNCHANGED <<server, visit, dialog, shown, applied, overtaken, faults>>

\* Previous and Next, disabled while loading, and at either end by the total
\* of the answer that was applied last.
TurnPage(page) ==
  /\ mounted /\ draft = NULL /\ ~loading
  /\ \/ page = view.page - 1 /\ view.page > 1
     \/ page = view.page + 1 /\ view.page < TotalPages(shown.total)
  /\ Show([view EXCEPT !.page = page])
  /\ doubtful' = (doubtful \/ inflight # {})
  /\ UNCHANGED <<server, visit, dialog, shown, applied, overtaken, faults>>

\* The dialog opens on the filters in force: on the very object.
OpenDialog ==
  /\ mounted /\ draft = NULL
  /\ draft' = [filters |-> view.filters, sort |-> view.sortBy, edited |-> FALSE]
  /\ UNCHANGED <<server, visit, edits, asking, screen, doubtful>>

Edit(d) ==
  /\ draft # NULL /\ edits < MaxEdits
  /\ edits' = edits + 1
  /\ draft' = d
  /\ UNCHANGED <<server, visit, asking, screen, doubtful>>

\* A change of the filters makes a new object of them.
EditFilters(filters) == Edit([draft EXCEPT !.filters = filters, !.edited = TRUE])

\* updateStatuses.
ToggleStatus(s) ==
  EditFilters([draft.filters EXCEPT !.statuses = IF s \in @ THEN @ \ {s} ELSE @ \cup {s}])

\* A number is typed, or the field is emptied: Number(value || 0), so that a
\* bound once set can be changed to 0 but not taken away.
TypeBound(range, end) ==
  \E n \in Inputs \cup {0} : EditFilters([draft.filters EXCEPT !.bounds[range][end] = n])

ChooseSort(sort) == Edit([draft EXCEPT !.sort = sort])

\* The view is set from the dialog.  An edited one brings a new object, for
\* which the effect runs though the filters are those in force again.
ShowDraft(v) == IF draft.edited THEN Ask(v) ELSE Show(v)

\* Mutant of Apply: the page is kept.
ApplyOnSamePage ==
  /\ mounted /\ draft # NULL
  /\ ShowDraft([view EXCEPT !.filters = draft.filters, !.sortBy = draft.sort])
  /\ draft' = NULL
  /\ UNCHANGED <<server, visit, edits, shown, applied, overtaken, faults, doubtful>>

\* onApply: filters and sort order, from the first page.
Apply ==
  /\ mounted /\ draft # NULL
  /\ ShowDraft([view EXCEPT !.filters = draft.filters, !.sortBy = draft.sort, !.page = 1])
  /\ draft' = NULL
  /\ doubtful' = FALSE
  /\ UNCHANGED <<server, visit, edits, shown, applied, overtaken, faults>>

CloseDialog ==
  /\ draft # NULL
  /\ draft' = NULL
  /\ UNCHANGED <<server, visit, edits, asking, screen, doubtful>>
-----------------------------------------------------------------------------
(***************************************************************************)
(* properties.ts, and the answers.                                         *)
(***************************************************************************)

\* The aggregation of one request; both facets see one state of the
\* database.
Serve(r) ==
  /\ r.answer = NULL
  /\ \E s \in Sorted(r.query.sortBy, PercentMatch(r.query)) :
       inflight' = (inflight \ {r}) \cup
         {[r EXCEPT !.answer = [items |-> PageOf(r.query, s), total |-> Total(r.query)]]}
  /\ UNCHANGED <<server, visit, dialog, view, url, sent, asked, changes, screen, doubtful>>

Finish(r) ==
  /\ inflight' = inflight \ {r}
  /\ applied' = r.id
  /\ overtaken' = (overtaken \/ r.id < applied)
  /\ loading' = FALSE
  /\ UNCHANGED <<server, visit, dialog, view, url, sent, asked, changes, doubtful>>

\* Mutant of Deliver: there is no finally.
DeliverStillLoading(r) ==
  /\ r.answer # NULL
  /\ shown' = [items |-> r.answer.items, total |-> r.answer.total, loadError |-> FALSE]
  /\ inflight' = inflight \ {r}
  /\ applied' = r.id
  /\ overtaken' = (overtaken \/ r.id < applied)
  /\ UNCHANGED <<server, visit, dialog, view, url, sent, asked, changes, doubtful, loading, faults>>

\* An answer is applied whichever request it is for, and `loading` ends.
Deliver(r) ==
  /\ r.answer # NULL
  /\ shown' = [items |-> r.answer.items, total |-> r.answer.total, loadError |-> FALSE]
  /\ Finish(r)
  /\ UNCHANGED faults

\* The server or the network fails: an empty list and a message.
RequestFails(r) ==
  /\ writes + faults < MaxDisturbances
  /\ faults' = faults + 1
  /\ shown' = [Nothing EXCEPT !.loadError = TRUE]
  /\ Finish(r)

\* A property is stored by tokenize, or funded by its last purchase.
Write(p) ==
  /\ writes + faults < MaxDisturbances
  /\ writes' = writes + 1
  /\ \/ status[p] = "absent" /\ status' = [status EXCEPT ![p] = "open"]
     \/ status[p] = "open" /\ status' = [status EXCEPT ![p] = "funded"]
  /\ UNCHANGED <<visit, dialog, asking, screen, doubtful>>

UserStep ==
  \/ Mount \/ Leave
  \/ \E tab \in Tabs : ChooseTab(tab)
  \/ \E page \in 1 .. Cardinality(Properties) + 1 : TurnPage(page)
  \/ OpenDialog \/ Apply \/ CloseDialog
  \/ \E s \in Statuses : ToggleStatus(s)
  \/ \E range \in Ranges, end \in {"min", "max"} : TypeBound(range, end)
  \/ \E sort \in Sorts : ChooseSort(sort)

Answer(r) == Serve(r) \/ Deliver(r)

Next ==
  \/ UserStep
  \/ \E r \in inflight : Answer(r) \/ RequestFails(r)
  \/ \E p \in Properties : Write(p)

Spec == Init /\ [][Next]_vars

\* The server answers every request and the network delivers it, in no
\* particular order.
FairSpec == Spec /\ WF_vars(\E r \in inflight : Answer(r))
-----------------------------------------------------------------------------
\* Every variable has its type.
TypeOK ==
  /\ status \in [Properties -> Statuses \cup {"absent"}]
  /\ view \in Queries /\ asked \in Queries /\ url \in Queries \cup {NoLink}
  /\ shown.items \in Seq(Properties) /\ shown.total \in Nat
  /\ {mounted, loading, overtaken, doubtful, shown.loadError} \subseteq BOOLEAN
  /\ {sent, applied, visits, changes, edits, writes, faults} \subseteq Nat

\* No two matches have the same sort key.
Untied(query) ==
  \A p, q \in PercentMatch(query) :
    InOrder(query.sortBy, p, q) /\ InOrder(query.sortBy, q, p) => p = q

IsOn(p, items) == \E j \in DOMAIN items : items[j] = p

\* However each page came to be sorted when it was asked for, none of the
\* pages that the page numbers offer is empty while there are matches, and
\* they show every match on exactly one of them; only equal sort keys can put
\* a match on two pages or on none.
PagesCoverMatches ==
  \A order \in [1 .. TotalPages(Total(view)) -> Sorted(view.sortBy, PercentMatch(view))] :
    LET Items(n) == PageOf([view EXCEPT !.page = n], order[n])
    IN /\ Total(view) > 0 => \A n \in DOMAIN order : Items(n) # <<>>
       /\ Untied(view) =>
            \A p \in PercentMatch(view) :
              \E n \in DOMAIN order : \A m \in DOMAIN order : IsOn(p, Items(m)) <=> m = n

Settled == mounted /\ inflight = {}

\* Once nothing is in flight the page shows the answer to the view it is in,
\* whatever was clicked meanwhile, unless an earlier request was answered
\* after a later one.
SettledIsCurrent == Settled /\ ~overtaken => applied = sent /\ asked = view

\* "No properties found."
SaysNothingFound == mounted /\ ~loading /\ ~shown.loadError /\ shown.items = <<>>

\* The request for the view on screen has not been answered yet.
StillAsking == \E r \in inflight : r.id = sent /\ r.query = view

\* The visitor is told that there is nothing when nothing matches, or too
\* early: the answer to an earlier view, in order, has ended the loading
\* (properties.tsx:93) while the one to the view on screen is still to come.
\* Not promised after an answer out of order, on a page number from an old
\* address or from a button that an earlier answer enabled, nor once the
\* database has changed.
NothingFoundIsTrue ==
  SaysNothingFound /\ ~overtaken /\ ~doubtful /\ writes = 0 =>
    PercentMatch(view) = {} \/ StillAsking

\* Whoever leaves and comes back finds the view that was left: properties.tsx
\* keeps it in the address "so back/forward works".
BackRestoresView ==
  [][~mounted /\ mounted' /\ sent > 0 => view' = view]_vars

\* No page loads for ever: every request is answered, and every answer ends
\* the loading.
SearchSettles == (mounted /\ loading) ~> ~loading
=============================================================================
