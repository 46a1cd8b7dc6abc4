----------------------------- MODULE ListBrowsing -----------------------------
(***************************************************************************)
(* One list page in use: the URL history of the tab, the query the page    *)
(* renders, the conditions being edited in the filter bar                  *)
(* (use-query-draft.ts), the load of the rendered query (use-load-state.ts, *)
(* http.ts) and the list service, which reads the rows and their number in *)
(* two statements while other users write the table.                       *)
(*                                                                         *)
(* Navigation takes time: the URL changes at once, the page renders the    *)
(* new query when the route guard has fetched the session (Arrive), and    *)
(* until then everything on the page still acts on the query it shows.     *)
(***************************************************************************)
EXTENDS ListQueries

CONSTANTS
    Lists,        \* lists that are browsed
    Pool,         \* versions of the rows of each list: id, rank, named, columns
    Opening,      \* rows of each list at the start
    Linked,       \* queries of each list a link or a bookmark may open
    Editable,     \* filters of each list that are edited: axes and values
    Sizes,        \* PAGE_SIZE_OPTIONS, scaled down
    MaxMoves,     \* bound: navigations, submits and reloads
    MaxEdits,     \* bound: changes of the filter bar
    MaxWrites     \* bound: writes of other users

VARIABLES
    list,     \* the list the page shows
    table,    \* its rows in the database
    writes,   \* number of writes of other users: version of the table
    url,      \* history of the tab and position in it
    applied,  \* the query of the rendered route
    edit,     \* conditions in the filter bar and the conditions they started from
    reloads,  \* reload counter of the page
    load,     \* the request in flight
    shown,    \* the result the page holds
    asked,    \* the conditions last submitted or reset, until the user edits or goes back
    spent     \* moves and edits so far: only for the bounds

vars == <<list, table, writes, url, applied, edit, reloads, load, shown, asked, spent>>

\* What the filter bar can hold, and the queries a search model reads from an
\* address: it drops what it does not know.
FilterChoices(l) ==
    {f \in [Axes(l) -> (UNION {Offered[l][a] : a \in Axes(l)}) \cup {All}] :
        \A a \in Axes(l) : f[a] \in Offered[l][a] \cup {All}}
Query(l) == [text : Texts, axes : FilterChoices(l), sort : Search[l].sorts \cup {Unsorted},
             order : Orders, page : Nat, size : Sizes]

ListRow(l) == Opening[l] \cup Pool[l]

\* Ids are primary keys.
Keyed(rows) == \A r, s \in rows : r.id = s.id => r = s

ASSUME BrowsingAssumption ==
    /\ Lists \subseteq ListName
    /\ Sizes \subseteq 1..MaxPageSize
    /\ \A l \in Lists :
         /\ Linked[l] \subseteq Query(l)
         /\ DOMAIN Editable[l] \subseteq Axes(l)
         /\ \A a \in DOMAIN Editable[l] : Editable[l][a] \subseteq Offered[l][a]
         /\ IsFiniteSet(Opening[l]) /\ Keyed(Opening[l])
         /\ \A r \in ListRow(l) : r.id \in Int /\ r.rank \in Int

Filters(q) == [text |-> q.text, axes |-> q.axes]
Unfiltered(l) == [text |-> "none", axes |-> [a \in Axes(l) |-> All]]
WithFilters(q, f) == [q EXCEPT !.text = f.text, !.axes = f.axes]

NoLoad == [stage |-> "none"]
Nothing == [phase |-> "none"]
Sending(q) == [stage |-> "sent", query |-> q, rowsRead |-> FALSE, totalRead |-> FALSE,
               items |-> <<>>, total |-> 0, rowsAt |-> 0]

\* use-load-state.ts: the result belongs to the key and reload it was loaded for;
\* another successful one stays on the screen meanwhile.
Current == shown.phase # "none" /\ shown.query = applied /\ shown.reload = reloads
Refreshing == shown.phase = "success" /\ ~Current
Phase == IF Current \/ Refreshing THEN shown.phase ELSE "loading"
Busy == Phase = "loading" \/ Refreshing

Init ==
    /\ list \in Lists
    /\ table = Opening[list]
    /\ writes = 0
    /\ applied \in Linked[list]
    /\ url = [past |-> <<applied>>, at |-> 1]
    /\ edit = [of |-> Filters(applied), filters |-> Filters(applied)]
    /\ reloads = 0
    /\ load = Sending(Sent(list, applied))
    /\ shown = Nothing
    /\ asked = {}
    /\ spent = [moves |-> 0, edits |-> 0]

-----------------------------------------------------------------------------
(* NAVIGATION *)

Address == url.past[url.at]

Moved == spent' = [spent EXCEPT !.moves = @ + 1]
MayMove == spent.moves < MaxMoves

\* onSearchChange: the router pushes the query, or keeps the entry it equals.
Navigate(q) ==
    url' = IF q = Address THEN url
           ELSE [past |-> Append(SubSeq(url.past, 1, url.at), q), at |-> url.at + 1]

CountedOnly == reloads' = reloads + 1 /\ UNCHANGED load                   \* mutant
Reloaded == reloads' = reloads + 1 /\ load' = Sending(Sent(list, applied))

DraftOfUrl(q) == Filters(q)                                             \* mutant
\* The draft after a render: edited conditions survive a change of page, size
\* or sort, and give way to conditions that were applied elsewhere.
DraftOn(q) == IF edit.of = Filters(q) THEN edit.filters ELSE Filters(q)

\* The router commits the address: the page renders it and loads it.
Arrive ==
    /\ applied # Address
    /\ applied' = Address
    /\ edit' = [of |-> Filters(Address), filters |-> DraftOn(Address)]
    /\ load' = Sending(Sent(list, Address))
    /\ UNCHANGED <<list, table, writes, url, reloads, shown, asked, spent>>

\* Back and forward, which need not be about the conditions.
Traverse(step) ==
    /\ MayMove
    /\ url.at + step \in DOMAIN url.past
    /\ url' = [url EXCEPT !.at = @ + step]
    /\ asked' = {}
    /\ Moved
    /\ UNCHANGED <<list, table, writes, applied, edit, reloads, load, shown>>

-----------------------------------------------------------------------------
(* THE FILTER BAR *)

Edit(f) ==
    /\ spent.edits < MaxEdits
    /\ f # edit.filters
    /\ edit' = [of |-> Filters(applied), filters |-> f]
    /\ asked' = {}
    /\ spent' = [spent EXCEPT !.edits = @ + 1]
    /\ UNCHANGED <<list, table, writes, url, applied, reloads, load, shown>>

\* One field of the bar at a time.
Edits ==
    {[edit.filters EXCEPT !.text = t] : t \in Texts}
    \cup UNION {{[edit.filters EXCEPT !.axes[a] = v] : v \in Editable[list][a] \cup {All}} :
                    a \in DOMAIN Editable[list]}

\* commit: the draft becomes the query; the same query loads again.
Commit(q) ==
    /\ ~Busy
    /\ MayMove
    /\ edit' = [of |-> Filters(applied), filters |-> Filters(q)]
    /\ asked' = {[filters |-> Filters(q), alone |-> applied = Address]}
    /\ IF q = applied THEN Reloaded /\ UNCHANGED url
       ELSE Navigate(q) /\ UNCHANGED <<reloads, load>>
    /\ Moved
    /\ UNCHANGED <<list, table, writes, applied, shown>>

Submit == Commit([WithFilters(applied, edit.filters) EXCEPT !.page = 0])
Reset == Commit([WithFilters(applied, Unfiltered(list)) EXCEPT !.page = 0])

-----------------------------------------------------------------------------
(* THE TABLE AND ITS FOOTER *)

\* All of them start from the rendered query and leave the draft alone.
Display(q) ==
    /\ ~Busy
    /\ MayMove
    /\ Navigate(q)
    /\ Moved
    /\ UNCHANGED <<list, table, writes, applied, edit, reloads, load, shown, asked>>

\* data-table.tsx: ascending, descending, unsorted.
NextSort(c) ==
    IF applied.sort # c THEN <<c, "asc">>
    ELSE IF applied.order = "asc" THEN <<c, "desc">> ELSE <<Unsorted, "asc">>
ChangeSort(c) ==
    Display([applied EXCEPT !.sort = NextSort(c)[1], !.order = NextSort(c)[2], !.page = 1])

ShownPage == IF Phase = "success" THEN shown.page ELSE IF applied.page = 0 THEN 1 ELSE applied.page
ShownSize == IF Phase = "success" THEN shown.size ELSE applied.size
LastPage ==
    IF Phase = "success" /\ shown.total > 0 THEN (shown.total + shown.size - 1) \div shown.size ELSE 1

\* The buttons of the footer: first, previous, numbers around, next, last.
FirstPage == 1
PreviousPage == IF ShownPage - 1 <= LastPage THEN ShownPage - 1 ELSE LastPage
WindowStart ==
    LET here == IF ShownPage <= LastPage THEN ShownPage ELSE LastPage
        start == IF here - 2 <= LastPage - 4 THEN here - 2 ELSE LastPage - 4
    IN  IF start >= 1 THEN start ELSE 1
Numbers == WindowStart..(WindowStart + (IF LastPage < 5 THEN LastPage ELSE 5) - 1)
OfferedPages ==
    {p \in {FirstPage, PreviousPage, ShownPage + 1, LastPage} \cup Numbers :
        p >= 1 /\ p <= LastPage /\ p # ShownPage}

ChangePage == \E p \in OfferedPages : Display([applied EXCEPT !.page = p])
ChangeSize == \E s \in Sizes \ {ShownSize} : Display([applied EXCEPT !.size = s, !.page = 0])

\* The button of an error.
Retry ==
    /\ Phase = "error" /\ MayMove
    /\ Reloaded
    /\ Moved
    /\ UNCHANGED <<list, table, writes, url, applied, edit, shown, asked>>

-----------------------------------------------------------------------------
(* THE SERVICE *)

Asked == load.query
Waiting(stage) == load.stage = stage

\* A query the service does not accept is answered 400.
Refuse ==
    /\ Waiting("sent") /\ ~Accepts(list, Asked)
    /\ load' = [load EXCEPT !.stage = "refused"]
    /\ UNCHANGED <<list, table, writes, url, applied, edit, reloads, shown, asked, spent>>

ReadRows ==
    /\ Waiting("sent") /\ Accepts(list, Asked)
    /\ ~load.rowsRead
    /\ \E s \in Listings(list, table, Asked) :
          load' = [load EXCEPT !.rowsRead = TRUE, !.rowsAt = writes,
                               !.items = PageOf(s, Asked),
                               !.total = IF OneRead(list, Asked) THEN Len(s) ELSE @,
                               !.totalRead = @ \/ OneRead(list, Asked)]
    /\ UNCHANGED <<list, table, writes, url, applied, edit, reloads, shown, asked, spent>>

ReadTotal ==
    /\ Waiting("sent") /\ Accepts(list, Asked)
    /\ ~load.totalRead
    /\ load.rowsRead \/ EitherFirst(list)
    /\ load' = [load EXCEPT !.totalRead = TRUE,
                            !.total = Cardinality(Selected(list, table, Asked))]
    /\ UNCHANGED <<list, table, writes, url, applied, edit, reloads, shown, asked, spent>>

\* Another user inserts a row or changes one.
Write(row) ==
    /\ writes < MaxWrites
    /\ row \notin table
    /\ table' = {r \in table : r.id # row.id} \cup {row}
    /\ writes' = writes + 1
    /\ UNCHANGED <<list, url, applied, edit, reloads, load, shown, asked, spent>>

-----------------------------------------------------------------------------
(* THE ANSWER: the load in flight always is that of the rendered query.    *)

Failed == [phase |-> "error", query |-> applied, reload |-> reloads]
Loaded ==
    [phase |-> "success", query |-> applied, reload |-> reloads,
     items |-> load.items, total |-> load.total, page |-> load.query.page,
     size |-> load.query.size, rowsAt |-> load.rowsAt]

Deliver ==
    /\ \/ Waiting("refused") /\ shown' = Failed
       \/ Waiting("sent") /\ load.rowsRead /\ load.totalRead /\ shown' = Loaded
    /\ load' = NoLoad
    /\ UNCHANGED <<list, table, writes, url, applied, edit, reloads, asked, spent>>

-----------------------------------------------------------------------------

Backward == Traverse(-1)
Forward == Traverse(1)
AnyEdit == \E f \in Edits : Edit(f)
AnySort == \E c \in Columns[list] : ChangeSort(c)
AnyWrite == \E row \in Pool[list] : Write(row)

User == \/ AnyEdit \/ Submit \/ Reset \/ AnySort \/ ChangePage \/ ChangeSize
        \/ Retry \/ Backward \/ Forward
System == Arrive \/ Refuse \/ ReadRows \/ ReadTotal \/ Deliver

Next == User \/ System \/ AnyWrite

Spec == Init /\ [][Next]_vars

\* The router commits what it navigates to and the service answers; nothing is
\* assumed of the users.
FairSpec == Spec /\ WF_vars(Arrive) /\ WF_vars(Refuse \/ ReadRows \/ ReadTotal \/ Deliver)

-----------------------------------------------------------------------------
(* PROPERTIES *)

FilterSet(l) == [text : Texts, axes : FilterChoices(l)]

LoadRow(l) == [stage : {"sent", "refused"}, query : Query(l), rowsRead : BOOLEAN,
               totalRead : BOOLEAN, items : Seq(ListRow(l)), total : Nat, rowsAt : Nat]
ErrorRow(l) == [phase : {"error"}, query : Query(l), reload : Nat]
ResultRow(l) == [phase : {"success"}, query : Query(l), reload : Nat, items : Seq(ListRow(l)),
                 total : Nat, page : Nat, size : Sizes, rowsAt : Nat]

TypeOK ==
    /\ list \in Lists
    /\ table \subseteq ListRow(list) /\ IsFiniteSet(table) /\ Keyed(table)
    /\ writes \in Nat
    /\ url \in [past : Seq(Query(list)), at : Nat] /\ url.at \in 1..Len(url.past)
    /\ applied \in Query(list)
    /\ edit \in [of : FilterSet(list), filters : FilterSet(list)]
    /\ reloads \in Nat
    /\ load \in {NoLoad} \cup LoadRow(list)
    /\ shown \in {Nothing} \cup ErrorRow(list) \cup ResultRow(list)
    /\ asked \subseteq [filters : FilterSet(list), alone : BOOLEAN]
    /\ spent \in [moves : Nat, edits : Nat]

\* Every row on a loaded page satisfies every condition of the query in the
\* URL that was rendered: no condition is lost between the filter bar, the
\* search model, parseQuery and buildWhere.
ShownRowsMatch ==
    shown.phase = "success" =>
        \A i \in DOMAIN shown.items : Matches(list, shown.items[i], shown.query)

SameSelection(a, b) ==
    /\ a.phase = "success" /\ b.phase = "success"
    /\ WithFilters([a.query EXCEPT !.page = 0], Filters(b.query)) = [b.query EXCEPT !.page = 0]
    /\ Filters(a.query) = Filters(b.query)

\* Paging through an unchanged table shows no row twice: the order of every
\* list but that of the audit events ends in a unique column.
PagesDisjoint ==
    [][ SameSelection(shown, shown') /\ shown.rowsAt = shown'.rowsAt
          /\ shown.page # shown'.page /\ list \in ListName \ {"audit"} =>
            ToSet(shown.items) \cap ToSet(shown'.items) = {} ]_vars

\* Conditions that were submitted, with no navigation under way, stay in force or
\* in the filter bar until the user edits them or goes back, whatever sorting,
\* paging and loading happens meanwhile.
Kept(filters) == filters = edit.filters \/ filters = Filters(Address)
SubmittedKept == \A a \in asked : a.alone => Kept(a.filters)

\* The only queries of the pages the services refuse are long texts in the lists
\* that bound them and the three actions the audit contract lacks.
RefusalsKnown ==
    shown.phase = "error" =>
        \/ list \in {"boms", "trace"} /\ shown.query.text \in {"phrase", "sentence"}
        \/ list = "audit" /\ shown.query.axes.action \in UnlistedActions

\* Whatever the filter bar offers, the service answers.
OfferedQueriesAnswered ==
    shown.phase = "error" => list \in {"boms", "trace"}

\* The number on the dashboard is the number of rows the list shows for it,
\* but for a lot that expires at this very instant.
CountersMatchLists ==
    \A c \in Counters(list, table) :
        {r \in c[1] : list = "lots" => r.expires # "now"}
            = {r \in Selected(list, table, c[2]) : list = "lots" => r.expires # "now"}

\* Once the user pauses, the page shows the answer to the query of the URL.
ScreenFollowsUrl == []<>(applied = Address /\ Current)
=============================================================================
