-------------------------- MODULE ListBrowsingProofs --------------------------
(***************************************************************************)
(* What a list page shows and keeps, for tables of every size, every page  *)
(* size and any number of navigations, edits and writes of other users:    *)
(* the rows match the query, pages share no row, submitted conditions are  *)
(* kept, and the refusals of the services are the known ones.              *)
(***************************************************************************)
EXTENDS ListBrowsing, FiniteSetTheorems, TLAPS

-----------------------------------------------------------------------------
(* THE TABLES OF THE EIGHT LISTS *)

\* A search model sends every filter of its list, and its bar offers each.
LEMMA AxesCarried ==
  ASSUME NEW l \in ListName
  PROVE  Search[l].axes = Axes(l) /\ DOMAIN Offered[l] = Axes(l)
<1> USE DEF Axes
<1>1. CASE l = "workOrders"
  BY <1>1 DEF Search, Endpoint, Offered, WorkOrdersSearch, WorkOrdersQuery, WorkOrdersFilters
<1>2. CASE l = "lots"
  BY <1>2 DEF Search, Endpoint, Offered, LotsSearch, LotsQuery, LotsFilters
<1>3. CASE l = "queue"
  BY <1>3 DEF Search, Endpoint, Offered, QueueSearch, QueueQuery, QueueFilters
<1>4. CASE l = "inspections"
  BY <1>4 DEF Search, Endpoint, Offered, InspectionsSearch, InspectionsQuery, InspectionsFilters
<1>5. CASE l = "incidents"
  BY <1>5 DEF Search, Endpoint, Offered, IncidentsSearch, IncidentsQuery, IncidentsFilters
<1>6. CASE l = "boms"
  BY <1>6 DEF Search, Endpoint, Offered, BomsSearch, BomsQuery, BomsFilters
<1>7. CASE l = "trace"
  BY <1>7 DEF Search, Endpoint, Offered, TraceSearch, TraceQuery, TraceFilters
<1>8. CASE l = "audit"
  BY <1>8 DEF Search, Endpoint, Offered, AuditSearch, AuditQuery, AuditFilters
<1> QED
  BY <1>1, <1>2, <1>3, <1>4, <1>5, <1>6, <1>7, <1>8 DEF ListName

\* Whatever column a page sorts by, its search model sends and the service accepts.
LEMMA SortsCarried ==
  ASSUME NEW l \in ListName
  PROVE  Columns[l] \subseteq Search[l].sorts /\ Search[l].sorts \subseteq Endpoint[l].sorts
<1>1. CASE l = "workOrders"
  BY <1>1 DEF Search, Endpoint, Columns, WorkOrdersSearch, WorkOrdersQuery, WorkOrdersColumns
<1>2. CASE l = "lots"
  BY <1>2 DEF Search, Endpoint, Columns, LotsSearch, LotsQuery, LotsColumns
<1>3. CASE l = "queue"
  BY <1>3 DEF Search, Endpoint, Columns, QueueSearch, QueueQuery, QueueColumns
<1>4. CASE l = "inspections"
  BY <1>4 DEF Search, Endpoint, Columns, InspectionsSearch, InspectionsQuery, InspectionsColumns
<1>5. CASE l = "incidents"
  BY <1>5 DEF Search, Endpoint, Columns, IncidentsSearch, IncidentsQuery, IncidentsColumns
<1>6. CASE l = "boms"
  BY <1>6 DEF Search, Endpoint, Columns, BomsSearch, BomsQuery, BomsColumns
<1>7. CASE l = "trace"
  BY <1>7 DEF Search, Endpoint, Columns, TraceSearch, TraceQuery, TraceColumns
<1>8. CASE l = "audit"
  BY <1>8 DEF Search, Endpoint, Columns, AuditSearch, AuditQuery, AuditColumns
<1> QED
  BY <1>1, <1>2, <1>3, <1>4, <1>5, <1>6, <1>7, <1>8 DEF ListName

\* The services accept what the filter bars offer, three actions excepted.
LEMMA ValuesAccepted ==
  ASSUME NEW l \in ListName, NEW a \in Axes(l), NEW value \in Offered[l][a]
  PROVE  value \in Endpoint[l].values[a] \/ (l = "audit" /\ a = "action" /\ value \in UnlistedActions)
<1> USE DEF Axes
<1>1. CASE l = "workOrders"
  BY <1>1 DEF Endpoint, Offered, WorkOrdersQuery, WorkOrdersFilters
<1>2. CASE l = "lots"
  BY <1>2 DEF Endpoint, Offered, LotsQuery, LotsFilters
<1>3. CASE l = "queue"
  BY <1>3 DEF Endpoint, Offered, QueueQuery, QueueFilters
<1>4. CASE l = "inspections"
  BY <1>4 DEF Endpoint, Offered, InspectionsQuery, InspectionsFilters
<1>5. CASE l = "incidents"
  BY <1>5 DEF Endpoint, Offered, IncidentsQuery, IncidentsFilters
<1>6. CASE l = "boms"
  BY <1>6 DEF Endpoint, Offered, BomsQuery, BomsFilters
<1>7. CASE l = "trace"
  BY <1>7 DEF Endpoint, Offered, TraceQuery, TraceFilters
<1>8. CASE l = "audit"
  BY <1>8 DEF Endpoint, Offered, AuditQuery, AuditFilters
<1> QED
  BY <1>1, <1>2, <1>3, <1>4, <1>5, <1>6, <1>7, <1>8 DEF ListName

\* Six services search for texts of every length (parseQuery).
LEMMA TextsAccepted ==
  ASSUME NEW l \in ListName, NEW text \in Texts
  PROVE  text \in Endpoint[l].texts \/ (l \in {"boms", "trace"} /\ text \in {"phrase", "sentence"})
<1> USE DEF Texts
<1>1. CASE l = "workOrders"
  BY <1>1 DEF Endpoint, WorkOrdersQuery
<1>2. CASE l = "lots"
  BY <1>2 DEF Endpoint, LotsQuery
<1>3. CASE l = "queue"
  BY <1>3 DEF Endpoint, QueueQuery
<1>4. CASE l = "inspections"
  BY <1>4 DEF Endpoint, InspectionsQuery
<1>5. CASE l = "incidents"
  BY <1>5 DEF Endpoint, IncidentsQuery
<1>6. CASE l = "boms"
  BY <1>6 DEF Endpoint, BomsQuery
<1>7. CASE l = "trace"
  BY <1>7 DEF Endpoint, TraceQuery
<1>8. CASE l = "audit"
  BY <1>8 DEF Endpoint, AuditQuery
<1> QED
  BY <1>1, <1>2, <1>3, <1>4, <1>5, <1>6, <1>7, <1>8 DEF ListName

-----------------------------------------------------------------------------
(* QUERIES *)

LEMMA QueryFields ==
  ASSUME NEW l \in ListName, NEW q \in Query(l)
  PROVE  /\ q.text \in Texts /\ q.axes \in FilterChoices(l) /\ q.order \in Orders
         /\ q.sort \in Search[l].sorts \cup {Unsorted} /\ q.page \in Nat /\ q.size \in Sizes
         /\ Filters(q) \in FilterSet(l) /\ Filters(q).text = q.text /\ Filters(q).axes = q.axes
BY DEF Query, Filters, FilterSet

\* A search model sends every condition of the URL (to...Params).
LEMMA SentFields ==
  ASSUME NEW l \in ListName, NEW q \in Query(l)
  PROVE  /\ Sent(l, q).text = q.text /\ Sent(l, q).axes = q.axes
         /\ Sent(l, q).sort = q.sort /\ Sent(l, q).order = q.order /\ Sent(l, q).size = q.size
         /\ Sent(l, q).page = IF q.page > 1 THEN q.page ELSE 1
<1> DEFINE carried == [a \in Axes(l) |-> IF a \in Search[l].axes THEN q.axes[a] ELSE All]
           sort == IF q.sort \in Search[l].sorts THEN q.sort ELSE Unsorted
           page == IF q.page > 1 THEN q.page ELSE 1
<1>1. carried = q.axes
  BY AxesCarried, QueryFields DEF FilterChoices
<1>2. sort = q.sort
  BY QueryFields
<1>3. Sent(l, q) = [q EXCEPT !.axes = carried, !.sort = sort, !.page = page]
  BY DEF Sent
<1> HIDE DEF carried, sort, page
<1>4. /\ Sent(l, q).text = q.text /\ Sent(l, q).axes = carried
      /\ Sent(l, q).sort = sort /\ Sent(l, q).order = q.order /\ Sent(l, q).size = q.size
      /\ Sent(l, q).page = page
  BY <1>3 DEF Query
<1> QED
  BY <1>1, <1>2, <1>4 DEF page

LEMMA SentType ==
  ASSUME NEW l \in ListName, NEW q \in Query(l)
  PROVE  Sent(l, q) \in Query(l) /\ Sent(l, q).page \in Nat \ {0}
<1> DEFINE carried == [a \in Axes(l) |-> IF a \in Search[l].axes THEN q.axes[a] ELSE All]
           sort == IF q.sort \in Search[l].sorts THEN q.sort ELSE Unsorted
           page == IF q.page > 1 THEN q.page ELSE 1
<1>1. /\ carried \in FilterChoices(l) /\ sort \in Search[l].sorts \cup {Unsorted}
      /\ page \in Nat \ {0}
  BY AxesCarried, QueryFields DEF FilterChoices
<1>2. Sent(l, q) = [q EXCEPT !.axes = carried, !.sort = sort, !.page = page]
  BY DEF Sent
<1> HIDE DEF carried, sort, page
<1> QED
  BY <1>1, <1>2 DEF Query

\* What a service selects depends on the conditions of a query only.
LEMMA SelectedByFilters ==
  ASSUME NEW l \in ListName, NEW row, NEW q, NEW p, p.text = q.text, p.axes = q.axes
  PROVE  Matches(l, row, p) <=> Matches(l, row, q)
<1> USE DEF Named, Chosen
<1>1. CASE l = "workOrders"
  BY <1>1 DEF Matches, WorkOrderMatches
<1>2. CASE l = "lots"
  BY <1>2 DEF Matches, LotMatches
<1>3. CASE l = "queue"
  BY <1>3 DEF Matches, QueueMatches
<1>4. CASE l = "inspections"
  BY <1>4 DEF Matches, InspectionMatches
<1>5. CASE l = "incidents"
  BY <1>5 DEF Matches, IncidentMatches
<1>6. CASE l = "boms"
  BY <1>6 DEF Matches, BomMatches
<1>7. CASE l = "trace"
  BY <1>7 DEF Matches, TraceMatches
<1>8. CASE l = "audit"
  BY <1>8 DEF Matches, AuditMatches
<1> QED
  BY <1>1, <1>2, <1>3, <1>4, <1>5, <1>6, <1>7, <1>8 DEF ListName

\* Why a service refuses a query of its page.
LEMMA WhyRefused ==
  ASSUME NEW l \in ListName, NEW q \in Query(l), Sizes \subseteq 1..MaxPageSize,
         ~ Accepts(l, Sent(l, q))
  PROVE  \/ l \in {"boms", "trace"} /\ q.text \in {"phrase", "sentence"}
         \/ l = "audit" /\ q.axes.action \in UnlistedActions
<1> DEFINE p == Sent(l, q)
<1>1. /\ p.text = q.text /\ p.axes = q.axes
      /\ p.sort \in Endpoint[l].sorts \cup {Unsorted} /\ p.order \in Orders
      /\ p.page >= 1 /\ p.size \in 1..MaxPageSize
  <2>1. p.text = q.text /\ p.axes = q.axes /\ p.sort = q.sort /\ p.order = q.order /\ p.size = q.size
    BY SentFields
  <2>2. p.page \in Nat \ {0}
    BY SentType
  <2>3. q.sort \in Endpoint[l].sorts \cup {Unsorted} /\ q.order \in Orders
    BY QueryFields, SortsCarried
  <2>4. q.size \in 1..MaxPageSize
    BY QueryFields
  <2> HIDE DEF p
  <2> QED
    BY <2>1, <2>2, <2>3, <2>4
<1> HIDE DEF p
<1>2. \/ q.text \notin Endpoint[l].texts
      \/ \E a \in Axes(l) : q.axes[a] \notin Endpoint[l].values[a] \cup {All}
  BY <1>1 DEF Accepts, p
<1>3. ASSUME NEW a \in Axes(l), q.axes[a] \notin Endpoint[l].values[a] \cup {All}
      PROVE  l = "audit" /\ q.axes.action \in UnlistedActions
  <2>1. q.axes[a] \in Offered[l][a]
    BY <1>3, QueryFields DEF FilterChoices
  <2> QED
    BY <1>3, <2>1, ValuesAccepted
<1> QED
  BY <1>2, <1>3, TextsAccepted, QueryFields

-----------------------------------------------------------------------------
(* ARITHMETIC *)

LEMMA NonNegativeProduct ==
  ASSUME NEW m \in Nat, NEW n \in Nat
  PROVE  m * n \in Nat
OBVIOUS

LEMMA WindowsOrdered ==
  ASSUME NEW m \in Nat, NEW n \in Nat, NEW size \in Nat, m < n
  PROVE  m * size + size <= n * size
<1>1. (n - m - 1) \in Nat
  OBVIOUS
<1>2. (n - m - 1) * size >= 0
  BY <1>1, NonNegativeProduct
<1>3. (n - m - 1) * size = n * size - m * size - size
  OBVIOUS
<1> QED
  BY <1>2, <1>3

-----------------------------------------------------------------------------
(* LISTINGS AND THEIR PAGES *)

\* A listing holds each row a query selects once.
LEMMA ListingRows ==
  ASSUME NEW l, NEW rows, IsFiniteSet(rows), NEW q, NEW s \in Listings(l, rows, q)
  PROVE  /\ s \in Seq(Selected(l, rows, q)) /\ Len(s) = Cardinality(Selected(l, rows, q))
         /\ \A i, j \in 1..Len(s) : i # j => s[i] # s[j]
         /\ \A row \in Selected(l, rows, q) : \E i \in 1..Len(s) : s[i] = row
         /\ \A i, j \in 1..Len(s) : Precedes(l, q, s[i], s[j]) => i < j
<1> DEFINE S == Selected(l, rows, q)
           n == Cardinality(S)
<1>1. IsFiniteSet(S) /\ n \in Nat
  <2>1. S \subseteq rows
    BY DEF Selected
  <2> QED
    BY <2>1, FS_Subset, FS_CardinalityType
<1>2. /\ s \in [1..n -> S] /\ \A i, j \in 1..n : i # j => s[i] # s[j]
      /\ \A i, j \in DOMAIN s : Precedes(l, q, s[i], s[j]) => i < j
  BY DEF Listings, SetToSeqs
<1> HIDE DEF S
<1>3. s \in Seq(S) /\ Len(s) = n
  BY <1>1, <1>2
<1>4. \A row \in S : \E i \in 1..n : s[i] = row
  <2>1. IsFiniteSet(1..n) /\ Cardinality(1..n) = n
    BY <1>1, FS_Interval
  <2>2. s \in Injection(1..n, S)
    BY <1>2 DEF Injection, IsInjective
  <2>3. s \in Surjection(1..n, S)
    BY <1>1, <2>1, <2>2, FS_Injection
  <2> QED
    BY <2>3 DEF Surjection
<1> QED
  BY <1>2, <1>3, <1>4 DEF S

\* skip and take: a page is a window of the listing.
LEMMA PageRows ==
  ASSUME NEW S, NEW s \in Seq(S), NEW q, q.page \in Nat \ {0}, q.size \in Nat \ {0}
  PROVE  /\ PageOf(s, q) \in Seq(S)
         /\ \A i \in DOMAIN PageOf(s, q) :
              \E k \in 1..Len(s) :
                PageOf(s, q)[i] = s[k] /\ (q.page - 1) * q.size < k /\ k <= (q.page - 1) * q.size + q.size
<1> DEFINE skipped == (q.page - 1) * q.size
           last == IF skipped + q.size <= Len(s) THEN skipped + q.size ELSE Len(s)
<1>1. skipped \in Nat
  BY NonNegativeProduct
<1> HIDE DEF skipped
<1>2. last \in Nat /\ last <= Len(s) /\ last <= skipped + q.size /\ Len(s) \in Nat
  BY <1>1
<1> HIDE DEF last
<1>3. PageOf(s, q) = SubSeq(s, skipped + 1, last)
  BY DEF PageOf, skipped, last
<1>4. \A i \in (skipped + 1)..last : s[i] \in S
  BY <1>1, <1>2
<1>5. /\ SubSeq(s, skipped + 1, last) \in Seq(S)
      /\ Len(SubSeq(s, skipped + 1, last)) = IF skipped + 1 <= last THEN last - skipped ELSE 0
      /\ \A i \in 1..(last - skipped) : SubSeq(s, skipped + 1, last)[i] = s[skipped + i]
  BY <1>1, <1>2, <1>4
<1>6. ASSUME NEW i \in DOMAIN PageOf(s, q)
      PROVE  \E k \in 1..Len(s) : PageOf(s, q)[i] = s[k] /\ skipped < k /\ k <= skipped + q.size
  <2>1. i \in 1..(last - skipped)
    BY <1>1, <1>2, <1>3, <1>5
  <2>2. /\ skipped + i \in 1..Len(s) /\ skipped < skipped + i /\ skipped + i <= skipped + q.size
        /\ PageOf(s, q)[i] = s[skipped + i]
    BY <1>1, <1>2, <1>3, <1>5, <2>1
  <2> QED
    BY <2>2
<1> QED
  BY <1>3, <1>5, <1>6 DEF skipped

-----------------------------------------------------------------------------
(* THE ORDER OF A LIST *)

Ranked(rows) == \A r \in rows : r.id \in Int /\ r.rank \in Int

\* Every order but that of the audit events ends in a unique column: of two
\* rows one comes first.
LEMMA OrderIsTotal ==
  ASSUME NEW l \in ListName \ {"audit"}, NEW q, NEW a, NEW b, Ranked({a, b}), a.id # b.id
  PROVE  /\ Precedes(l, q, a, b) \/ Precedes(l, q, b, a)
         /\ ~ (Precedes(l, q, a, b) /\ Precedes(l, q, b, a))
<1>1. a.id \in Int /\ a.rank \in Int /\ b.id \in Int /\ b.rank \in Int
  BY DEF Ranked
<1>2. l \in TieBroken
  BY DEF TieBroken
<1> QED
  BY <1>1, <1>2 DEF Precedes

LEMMA OrderIsStrict ==
  ASSUME NEW l, NEW q, NEW a, Ranked({a})
  PROVE  ~ Precedes(l, q, a, a)
<1>1. a.id \in Int /\ a.rank \in Int
  BY DEF Ranked
<1> QED
  BY <1>1 DEF Precedes

\* The page, its size and the conditions of a query do not change the order.
LEMMA OrderBySort ==
  ASSUME NEW l, NEW q, NEW p, p.sort = q.sort, p.order = q.order, NEW a, NEW b
  PROVE  Precedes(l, p, a, b) <=> Precedes(l, q, a, b)
BY DEF Precedes, SortOf, OrderOf

Before(l, q, rows, row) == {r \in rows : Precedes(l, q, r, row)}

\* The position of a row in a listing is the number of rows that come before it:
\* the same in every listing of the same rows.
LEMMA PositionOf ==
  ASSUME NEW l \in ListName \ {"audit"}, NEW rows, IsFiniteSet(rows), Keyed(rows), Ranked(rows),
         NEW q, NEW s \in Listings(l, rows, q), NEW k \in 1..Len(s)
  PROVE  k = Cardinality(Before(l, q, Selected(l, rows, q), s[k])) + 1
<1> DEFINE S == Selected(l, rows, q)
           B == Before(l, q, S, s[k])
           f == [i \in 1..(k - 1) |-> s[i]]
<1>1. S \subseteq rows
  BY DEF Selected
<1>2. /\ s \in Seq(S) /\ Len(s) \in Nat
      /\ \A i, j \in 1..Len(s) : i # j => s[i] # s[j]
      /\ \A row \in S : \E i \in 1..Len(s) : s[i] = row
      /\ \A i, j \in 1..Len(s) : Precedes(l, q, s[i], s[j]) => i < j
  BY ListingRows
<1> HIDE DEF S
<1>3. \A i \in 1..Len(s) : s[i] \in rows
  BY <1>1, <1>2
<1>4. ASSUME NEW i \in 1..(k - 1)
      PROVE  s[i] \in B
  <2>1. i \in 1..Len(s) /\ i # k /\ s[i] # s[k] /\ s[i] \in rows /\ s[k] \in rows /\ ~ (k < i)
    BY <1>2, <1>3
  <2>2. s[i].id # s[k].id /\ Ranked({s[i], s[k]})
    BY <2>1 DEF Keyed, Ranked
  <2>3. ~ Precedes(l, q, s[k], s[i])
    BY <1>2, <2>1
  <2>4. Precedes(l, q, s[i], s[k])
    BY <2>2, <2>3, OrderIsTotal
  <2> QED
    BY <1>2, <2>1, <2>4 DEF Before
<1>5. ASSUME NEW row \in B
      PROVE  \E i \in 1..(k - 1) : s[i] = row
  <2>1. row \in S /\ Precedes(l, q, row, s[k])
    BY DEF Before
  <2>2. PICK i \in 1..Len(s) : s[i] = row
    BY <1>2, <2>1
  <2>3. i < k
    BY <1>2, <2>1, <2>2
  <2> QED
    BY <1>2, <2>2, <2>3
<1> HIDE DEF B
<1>6. f \in [1..(k - 1) -> B] /\ \A i, j \in 1..(k - 1) : f[i] = f[j] => i = j
  <2>1. \A i \in 1..(k - 1) : i \in 1..Len(s)
    BY <1>2
  <2> QED
    BY <1>2, <1>4, <2>1
<1>7. \A row \in B : \E i \in 1..(k - 1) : f[i] = row
  BY <1>5
<1>8. ExistsBijection(1..(k - 1), B)
  <2>1. DOMAIN f = 1..(k - 1)
    OBVIOUS
  <2> HIDE DEF f
  <2>2. f \in Injection(1..(k - 1), B) /\ f \in Surjection(1..(k - 1), B)
    BY <1>6, <1>7, <2>1 DEF Injection, IsInjective, Surjection
  <2> QED
    BY <2>2 DEF ExistsBijection, Bijection
<1>9. IsFiniteSet(1..(k - 1)) /\ Cardinality(1..(k - 1)) = k - 1
  <2>1. k \in Int /\ 1 \in Int /\ k - 1 \in Int /\ k >= 1
    BY <1>2
  <2>2. /\ IsFiniteSet(1..(k - 1))
        /\ Cardinality(1..(k - 1)) = IF 1 > k - 1 THEN 0 ELSE (k - 1) - 1 + 1
    BY <2>1, FS_Interval
  <2> QED
    BY <2>1, <2>2
<1>10. Cardinality(B) = k - 1
  BY <1>8, <1>9, FS_Bijection
<1> QED
  BY <1>2, <1>10 DEF B, S

\* Two pages of the same selection, read from the same rows, share no row.
LEMMA DisjointPages ==
  ASSUME NEW l \in ListName \ {"audit"}, NEW rows, IsFiniteSet(rows), Keyed(rows), Ranked(rows),
         NEW p, NEW q, p.text = q.text, p.axes = q.axes, p.sort = q.sort, p.order = q.order,
         p.size = q.size, p.size \in Nat \ {0},
         p.page \in Nat \ {0}, q.page \in Nat \ {0}, p.page # q.page,
         NEW s \in Listings(l, rows, p), NEW t \in Listings(l, rows, q)
  PROVE  ToSet(PageOf(s, p)) \cap ToSet(PageOf(t, q)) = {}
<1>1. Selected(l, rows, p) = Selected(l, rows, q)
  BY SelectedByFilters DEF Selected
<1>2. \A row : Before(l, p, Selected(l, rows, p), row) = Before(l, q, Selected(l, rows, q), row)
  BY <1>1, OrderBySort DEF Before
<1>3. SUFFICES ASSUME NEW i \in DOMAIN PageOf(s, p), NEW j \in DOMAIN PageOf(t, q),
                      PageOf(s, p)[i] = PageOf(t, q)[j]
               PROVE  FALSE
  BY DEF ToSet
<1>4. s \in Seq(Selected(l, rows, p)) /\ t \in Seq(Selected(l, rows, q))
  BY ListingRows
<1>5. PICK k \in 1..Len(s) : /\ PageOf(s, p)[i] = s[k]
                             /\ (p.page - 1) * p.size < k /\ k <= (p.page - 1) * p.size + p.size
  BY <1>4, PageRows
<1>6. PICK n \in 1..Len(t) : /\ PageOf(t, q)[j] = t[n]
                             /\ (q.page - 1) * q.size < n /\ n <= (q.page - 1) * q.size + q.size
  BY <1>4, PageRows
<1>7. k = Cardinality(Before(l, p, Selected(l, rows, p), s[k])) + 1
  BY PositionOf
<1>8. n = Cardinality(Before(l, q, Selected(l, rows, q), t[n])) + 1
  BY PositionOf
<1>9. k = n
  BY <1>2, <1>3, <1>5, <1>6, <1>7, <1>8
<1>10. PICK m \in Nat : m = p.page - 1
  OBVIOUS
<1>13. PICK o \in Nat : o = q.page - 1
  OBVIOUS
<1>14. PICK size \in Nat : size = p.size
  OBVIOUS
<1>15. k \in Nat /\ m * size \in Nat /\ o * size \in Nat
  BY <1>4, NonNegativeProduct
<1>16. m * size < k /\ k <= m * size + size /\ o * size < k /\ k <= o * size + size
  BY <1>5, <1>6, <1>9, <1>10, <1>13, <1>14
<1>11. ASSUME m < o PROVE FALSE
  <2>1. m * size + size <= o * size
    BY <1>11, WindowsOrdered
  <2> QED
    BY <1>15, <1>16, <2>1
<1>12. ASSUME o < m PROVE FALSE
  <2>1. o * size + size <= m * size
    BY <1>12, WindowsOrdered
  <2> QED
    BY <1>15, <1>16, <2>1
<1> QED
  BY <1>10, <1>11, <1>12, <1>13

-----------------------------------------------------------------------------
(* THE DASHBOARD *)

LEMMA AxesOfCounted ==
  /\ Axes("workOrders") = {"status", "priority", "due", "blocked"}
  /\ Axes("lots") = {"disposition", "availability"}
  /\ Axes("inspections") = {"executionStatus", "verdict", "gate"}
<1>1. Axes("workOrders") = {"status", "priority", "due", "blocked"}
  BY DEF Axes, Endpoint, WorkOrdersQuery
<1>2. Axes("lots") = {"disposition", "availability"}
  BY DEF Axes, Endpoint, LotsQuery
<1>3. Axes("inspections") = {"executionStatus", "verdict", "gate"}
  BY DEF Axes, Endpoint, InspectionsQuery
<1> QED
  BY <1>1, <1>2, <1>3

\* The query of a counter sets one filter.
LEMMA OneFilter ==
  ASSUME NEW l, NEW axis, NEW value
  PROVE  /\ With(l, axis, value).text = "none"
         /\ \A a \in Axes(l) : With(l, axis, value).axes[a] = IF a = axis THEN value ELSE All
BY DEF With

LEMMA OrderCountersAgree ==
  ASSUME NEW rows, NEW c \in WorkOrderCounters(rows)
  PROVE  c[1] = Selected("workOrders", rows, c[2])
<1> DEFINE Query1(a, v) == With("workOrders", a, v)
<1>1. ASSUME NEW row, NEW a, NEW v
      PROVE  WorkOrderMatches(row, Query1(a, v)) <=>
               /\ (IF a = "status" THEN v ELSE All) \in {All, row.status}
               /\ (IF a = "priority" THEN v ELSE All) \in {All, row.priority}
               /\ (IF a = "blocked" THEN v ELSE All) \in {All, IF row.blocked THEN "true" ELSE "false"}
               /\ CASE (IF a = "due" THEN v ELSE All) = "overdue" ->
                        row.due = "past" /\ ((IF a = "status" THEN v ELSE All) = All =>
                                                row.status \notin {"COMPLETED", "CANCELLED"})
                    [] (IF a = "due" THEN v ELSE All) = "today" -> row.due = "today"
                    [] (IF a = "due" THEN v ELSE All) = "7d" -> row.due \in {"today", "week"}
                    [] OTHER -> TRUE
  <2>1. /\ Query1(a, v).text = "none"
        /\ Query1(a, v).axes["status"] = IF a = "status" THEN v ELSE All
        /\ Query1(a, v).axes["priority"] = IF a = "priority" THEN v ELSE All
        /\ Query1(a, v).axes["due"] = IF a = "due" THEN v ELSE All
        /\ Query1(a, v).axes["blocked"] = IF a = "blocked" THEN v ELSE All
    BY OneFilter, AxesOfCounted
  <2> HIDE DEF Query1
  <2> QED
    BY <2>1 DEF WorkOrderMatches, Named, Chosen
<1>2. ASSUME NEW row
      PROVE  Matches("workOrders", row, c[2]) <=> WorkOrderMatches(row, c[2])
  BY DEF Matches
<1>3. CASE c = <<CountedOverdue(rows), Query1("due", "overdue")>>
  BY <1>1, <1>2, <1>3 DEF Selected, CountedOverdue, All
<1>4. CASE c = <<CountedBlocked(rows), Query1("blocked", "true")>>
  BY <1>1, <1>2, <1>4 DEF Selected, CountedBlocked, All
<1>5. ASSUME NEW s \in Endpoint.workOrders.values.status,
             c = <<CountedInState(rows, s), Query1("status", s)>>
      PROVE  c[1] = Selected("workOrders", rows, c[2])
  <2>1. s # All
    BY DEF Endpoint, WorkOrdersQuery, All
  <2> QED
    BY <1>1, <1>2, <1>5, <2>1 DEF Selected, CountedInState, All
<1> QED
  BY <1>3, <1>4, <1>5 DEF WorkOrderCounters

LEMMA InspectionCountersAgree ==
  ASSUME NEW rows, NEW c \in InspectionCounters(rows)
  PROVE  c[1] = Selected("inspections", rows, c[2])
<1> DEFINE Query1(a, v) == With("inspections", a, v)
<1>1. ASSUME NEW row, NEW a, NEW v
      PROVE  InspectionMatches(row, Query1(a, v)) <=>
               /\ (IF a = "executionStatus" THEN v ELSE All) \in {All, row.executionStatus}
               /\ (IF a = "verdict" THEN v ELSE All) \in {All, row.verdict}
               /\ (IF a = "gate" THEN v ELSE All) \in {All, row.gate}
  <2>1. /\ Query1(a, v).text = "none"
        /\ Query1(a, v).axes["executionStatus"] = IF a = "executionStatus" THEN v ELSE All
        /\ Query1(a, v).axes["verdict"] = IF a = "verdict" THEN v ELSE All
        /\ Query1(a, v).axes["gate"] = IF a = "gate" THEN v ELSE All
    BY OneFilter, AxesOfCounted
  <2> HIDE DEF Query1
  <2> QED
    BY <2>1 DEF InspectionMatches, Named, Chosen
<1>2. ASSUME NEW row
      PROVE  Matches("inspections", row, c[2]) <=> InspectionMatches(row, c[2])
  BY DEF Matches
<1>3. ASSUME NEW s \in {"PENDING", "IN_PROGRESS"},
             c = <<CountedPending(rows, s), Query1("executionStatus", s)>>
      PROVE  c[1] = Selected("inspections", rows, c[2])
  BY <1>1, <1>2, <1>3 DEF Selected, CountedPending, All
<1>4. ASSUME NEW v \in {"FAIL", "HOLD"}, c = <<CountedVerdict(rows, v), Query1("verdict", v)>>
      PROVE  c[1] = Selected("inspections", rows, c[2])
  BY <1>1, <1>2, <1>4 DEF Selected, CountedVerdict, All
<1> QED
  BY <1>3, <1>4 DEF InspectionCounters

\* But for a lot that expires now: the counter calls it expired, the list does not.
LEMMA LotCountersAgree ==
  ASSUME NEW rows, NEW c \in LotCounters(rows)
  PROVE  {r \in c[1] : r.expires # "now"} = {r \in Selected("lots", rows, c[2]) : r.expires # "now"}
<1> DEFINE Query1(a, v) == With("lots", a, v)
<1>1. ASSUME NEW row, NEW a, NEW v
      PROVE  LotMatches(row, Query1(a, v)) <=>
               /\ (IF a = "disposition" THEN v ELSE All) \in {All, row.disposition}
               /\ CASE (IF a = "availability" THEN v ELSE All) = "available" -> Available(row) > 0
                    [] (IF a = "availability" THEN v ELSE All) = "shortage" ->
                         row.disposition = "ACCEPTED" /\ row.expires \notin {"past", "now"}
                           /\ Available(row) = 0
                    [] (IF a = "availability" THEN v ELSE All) = "expired" -> row.expires = "past"
                    [] OTHER -> TRUE
  <2>1. /\ Query1(a, v).text = "none"
        /\ Query1(a, v).axes["disposition"] = IF a = "disposition" THEN v ELSE All
        /\ Query1(a, v).axes["availability"] = IF a = "availability" THEN v ELSE All
    BY OneFilter, AxesOfCounted
  <2> HIDE DEF Query1
  <2> QED
    BY <2>1 DEF LotMatches, Named, Chosen
<1>2. ASSUME NEW row
      PROVE  Matches("lots", row, c[2]) <=> LotMatches(row, c[2])
  BY DEF Matches
<1>3. CASE c = <<CountedQuarantined(rows), Query1("disposition", "QUARANTINED")>>
  BY <1>1, <1>2, <1>3 DEF Selected, CountedQuarantined, All
<1>4. CASE c = <<CountedShort(rows), Query1("availability", "shortage")>>
  BY <1>1, <1>2, <1>4 DEF Selected, CountedShort, Available, All
<1>5. CASE c = <<CountedExpired(rows), Query1("availability", "expired")>>
  BY <1>1, <1>2, <1>5 DEF Selected, CountedExpired, All
<1> QED
  BY <1>3, <1>4, <1>5 DEF LotCounters

\* Whatever rows a table holds, the counters of the dashboard and the lists agree.
LEMMA CountersAgree ==
  ASSUME NEW l \in ListName, NEW rows, NEW c \in Counters(l, rows)
  PROVE  {r \in c[1] : l = "lots" => r.expires # "now"}
           = {r \in Selected(l, rows, c[2]) : l = "lots" => r.expires # "now"}
<1>1. CASE l = "workOrders"
  <2>1. c[1] = Selected(l, rows, c[2])
    BY <1>1, OrderCountersAgree DEF Counters
  <2> QED
    BY <2>1
<1>2. CASE l = "inspections"
  <2>1. c[1] = Selected(l, rows, c[2])
    BY <1>2, InspectionCountersAgree DEF Counters
  <2> QED
    BY <2>1
<1>3. CASE l = "lots"
  BY <1>3, LotCountersAgree DEF Counters
<1>4. CASE l \notin {"workOrders", "inspections", "lots"}
  BY <1>4 DEF Counters
<1> QED
  BY <1>1, <1>2, <1>3, <1>4

-----------------------------------------------------------------------------
(* THE INVARIANT *)

Tables(l) == {rows \in SUBSET ListRow(l) : IsFiniteSet(rows) /\ Keyed(rows)}

\* Items are the page a query asks for, read from a table.
ReadFrom(rows, items, q) == \E s \in Listings(list, rows, q) : items = PageOf(s, q)

LoadIsCurrent == load # NoLoad => load.query = Sent(list, applied)

RefusalsExplained ==
  /\ load # NoLoad /\ load.stage = "refused" => ~ Accepts(list, load.query)
  /\ shown.phase = "error" => ~ Accepts(list, Sent(list, shown.query))

\* The versions h of the table so far: what is loaded and shown was read from them.
ReadOfVersions(h) ==
  /\ h[writes] = table
  /\ load # NoLoad /\ load.rowsRead =>
       load.rowsAt \in 0..writes /\ ReadFrom(h[load.rowsAt], load.items, load.query)
  /\ shown.phase = "success" =>
       /\ shown.rowsAt \in 0..writes
       /\ ReadFrom(h[shown.rowsAt], shown.items, Sent(list, shown.query))
       /\ shown.page = Sent(list, shown.query).page

VersionsKnown == \E h \in [0..writes -> Tables(list)] : ReadOfVersions(h)

\* The draft belongs to the query on the screen.
DraftInForce == edit.of = Filters(applied)

\* What was submitted is in the bar, and what comes next will leave it there.
AskedInBar ==
  \A a \in asked : a.alone =>
    edit.filters = a.filters /\ Filters(Address) \in {edit.of, a.filters}

BrowsingInvariant ==
  TypeOK /\ LoadIsCurrent /\ RefusalsExplained /\ VersionsKnown /\ DraftInForce /\ AskedInBar

-----------------------------------------------------------------------------
(* TYPES OF WHAT THE ACTIONS WRITE *)

LEMMA ListsAreNamed ==
  ASSUME TypeOK
  PROVE  /\ list \in ListName /\ Sizes \subseteq 1..MaxPageSize
         /\ url.past \in Seq(Query(list)) /\ url.at \in 1..Len(url.past) /\ Address \in Query(list)
         /\ edit.of \in FilterSet(list) /\ edit.filters \in FilterSet(list)
         /\ spent.moves \in Nat /\ spent.edits \in Nat
<1>1. list \in ListName /\ Sizes \subseteq 1..MaxPageSize
  BY BrowsingAssumption DEF TypeOK
<1>2. url.past \in Seq(Query(list)) /\ url.at \in 1..Len(url.past)
  BY DEF TypeOK
<1> QED
  BY <1>1, <1>2 DEF TypeOK, Address

LEMMA SendingTyped ==
  ASSUME NEW l \in ListName, NEW q \in Query(l)
  PROVE  /\ Sending(Sent(l, q)) \in LoadRow(l) /\ Sending(Sent(l, q)) # NoLoad
         /\ Sending(Sent(l, q)).query = Sent(l, q)
         /\ Sending(Sent(l, q)).stage = "sent" /\ Sending(Sent(l, q)).rowsRead = FALSE
<1>1. Sent(l, q) \in Query(l)
  BY SentType
<1> QED
  BY <1>1 DEF Sending, LoadRow, NoLoad

LEMMA ChoiceOf ==
  ASSUME NEW l, NEW f, f = [a \in Axes(l) |-> f[a]],
         \A a \in Axes(l) : f[a] \in Offered[l][a] \cup {All}
  PROVE  f \in FilterChoices(l)
<1> DEFINE Values == (UNION {Offered[l][a] : a \in Axes(l)}) \cup {All}
<1>1. ASSUME NEW a \in Axes(l)
      PROVE  f[a] \in Values
  <2>1. f[a] \in Offered[l][a] \cup {All}
    OBVIOUS
  <2>2. CASE f[a] \in Offered[l][a]
    <3>1. \E T \in {Offered[l][b] : b \in Axes(l)} : f[a] \in T
      BY <2>2
    <3>2. f[a] \in UNION {Offered[l][b] : b \in Axes(l)}
      BY <3>1
    <3> QED
      BY <3>2
  <2>3. CASE f[a] = All
    BY <2>3
  <2> QED
    BY <2>1, <2>2, <2>3
<1> HIDE DEF Values
<1>2. f \in [Axes(l) -> Values]
  BY <1>1
<1> QED
  BY <1>2 DEF FilterChoices, Values

LEMMA UnfilteredTyped ==
  ASSUME NEW l
  PROVE  Unfiltered(l) \in FilterSet(l)
<1> DEFINE f == [a \in Axes(l) |-> All]
<1>2. f = [a \in Axes(l) |-> f[a]] /\ \A a \in Axes(l) : f[a] \in Offered[l][a] \cup {All}
  OBVIOUS
<1> HIDE DEF f
<1>3. f \in FilterChoices(l)
  BY <1>2, ChoiceOf
<1>1. [a \in Axes(l) |-> All] \in FilterChoices(l)
  BY <1>3 DEF f
<1> QED
  BY <1>1 DEF Unfiltered, FilterSet, Texts

FirstOf(q, f) == [WithFilters(q, f) EXCEPT !.page = 0]

\* The query a bar submits asks for its conditions, from the first page.
LEMMA FirstOfTyped ==
  ASSUME NEW l, NEW q \in Query(l), NEW f \in FilterSet(l)
  PROVE  FirstOf(q, f) \in Query(l) /\ Filters(FirstOf(q, f)) = f
<1>1. f.text \in Texts /\ f.axes \in FilterChoices(l) /\ f = [text |-> f.text, axes |-> f.axes]
  BY DEF FilterSet
<1>2. FirstOf(q, f) = [q EXCEPT !.text = f.text, !.axes = f.axes, !.page = 0]
  BY DEF FirstOf, WithFilters, Query
<1>5. /\ q.sort \in Search[l].sorts \cup {Unsorted} /\ q.order \in Orders /\ q.size \in Sizes
      /\ q = [text |-> q.text, axes |-> q.axes, sort |-> q.sort, order |-> q.order,
              page |-> q.page, size |-> q.size]
  BY DEF Query
<1>6. FirstOf(q, f) = [text |-> f.text, axes |-> f.axes, sort |-> q.sort, order |-> q.order,
                       page |-> 0, size |-> q.size]
  BY <1>2, <1>5
<1>3. FirstOf(q, f) \in Query(l)
  BY <1>1, <1>5, <1>6 DEF Query
<1>4. FirstOf(q, f).text = f.text /\ FirstOf(q, f).axes = f.axes
  BY <1>2 DEF Query
<1> QED
  BY <1>1, <1>3, <1>4 DEF Filters

LEMMA NavigateTyped ==
  ASSUME TypeOK, NEW q \in Query(list), Navigate(q)
  PROVE  /\ url' \in [past : Seq(Query(list)), at : Nat] /\ url'.at \in 1..Len(url'.past)
         /\ url'.past[url'.at] = q
<1>1. url.past \in Seq(Query(list)) /\ url.at \in 1..Len(url.past) /\ url.at \in Nat
  BY ListsAreNamed
<1>2. CASE q = Address
  BY <1>1, <1>2 DEF Navigate, Address, TypeOK
<1>3. CASE q # Address
  <2> DEFINE kept == SubSeq(url.past, 1, url.at)
  <2>1. kept \in Seq(Query(list)) /\ Len(kept) = url.at
    BY <1>1
  <2>2. url' = [past |-> Append(kept, q), at |-> url.at + 1]
    BY <1>3 DEF Navigate
  <2> HIDE DEF kept
  <2>3. /\ Append(kept, q) \in Seq(Query(list)) /\ Len(Append(kept, q)) = url.at + 1
        /\ Append(kept, q)[url.at + 1] = q
    BY <1>1, <2>1
  <2> QED
    BY <1>1, <2>2, <2>3
<1> QED
  BY <1>2, <1>3

LEMMA EditsTyped ==
  ASSUME TypeOK, NEW f \in Edits
  PROVE  f \in FilterSet(list)
<1>1. edit.filters.text \in Texts /\ edit.filters.axes \in FilterChoices(list) /\ edit.filters \in FilterSet(list)
  BY ListsAreNamed DEF FilterSet
<1>2. ASSUME NEW t \in Texts, f = [edit.filters EXCEPT !.text = t]
      PROVE  f \in FilterSet(list)
  BY <1>1, <1>2 DEF FilterSet
<1>3. ASSUME NEW a \in DOMAIN Editable[list], NEW v \in Editable[list][a] \cup {All},
             f = [edit.filters EXCEPT !.axes[a] = v]
      PROVE  f \in FilterSet(list)
  <2>1. a \in Axes(list) /\ v \in Offered[list][a] \cup {All}
    BY <1>3, BrowsingAssumption DEF TypeOK
  <2> DEFINE axes == [edit.filters.axes EXCEPT ![a] = v]
  <2>4. /\ edit.filters.axes = [b \in Axes(list) |-> edit.filters.axes[b]]
        /\ \A b \in Axes(list) : edit.filters.axes[b] \in Offered[list][b] \cup {All}
    BY <1>1 DEF FilterChoices
  <2>5. /\ axes = [b \in Axes(list) |-> axes[b]]
        /\ \A b \in Axes(list) : axes[b] \in Offered[list][b] \cup {All}
    BY <2>1, <2>4
  <2>2. axes \in FilterChoices(list)
    BY <2>5, ChoiceOf
  <2>3. f = [edit.filters EXCEPT !.axes = axes]
    BY <1>1, <1>3 DEF FilterSet
  <2> HIDE DEF axes
  <2> QED
    BY <1>1, <2>2, <2>3 DEF FilterSet
<1> QED
  BY <1>2, <1>3 DEF Edits

LEMMA FooterTyped ==
  ASSUME TypeOK, NEW p \in OfferedPages
  PROVE  p \in Nat
<1>1. applied.page \in Nat /\ Sizes \subseteq Nat \ {0}
  <2>1. MaxPageSize \in Nat /\ Sizes \subseteq 1..MaxPageSize
    BY MaxPageSizeAssumption, BrowsingAssumption
  <2> QED
    BY <2>1 DEF TypeOK, Query
<1>2. Phase = "success" => shown.page \in Nat /\ shown.size \in Nat \ {0} /\ shown.total \in Nat
  <2>1. Phase = "success" => shown.phase = "success"
    BY DEF Phase
  <2>2. shown.phase = "success" => shown \in ResultRow(list)
    BY DEF TypeOK, Nothing, ErrorRow
  <2> QED
    BY <1>1, <2>1, <2>2 DEF ResultRow
<1>3. ShownPage \in Nat
  BY <1>1, <1>2 DEF ShownPage
<1>4. LastPage \in Int
  <2>1. ASSUME NEW total \in Nat, NEW size \in Nat \ {0}
        PROVE  (total + size - 1) \div size \in Int
    OBVIOUS
  <2> QED
    BY <1>2, <2>1 DEF LastPage
<1>5. Numbers \subseteq Int
  BY <1>3, <1>4 DEF Numbers
<1>6. PreviousPage \in Int /\ FirstPage \in Int
  BY <1>3, <1>4 DEF PreviousPage, FirstPage
<1>7. p >= 1 /\ p \in Int
  BY <1>3, <1>4, <1>5, <1>6 DEF OfferedPages
<1> QED
  BY <1>7

LEMMA FooterSizes ==
  ASSUME TypeOK, NEW s \in Sizes
  PROVE  [applied EXCEPT !.size = s, !.page = 0] \in Query(list)
BY DEF TypeOK, Query

LEMMA FooterPages ==
  ASSUME TypeOK, NEW p \in OfferedPages
  PROVE  [applied EXCEPT !.page = p] \in Query(list)
BY FooterTyped DEF TypeOK, Query

LEMMA HeaderSorts ==
  ASSUME TypeOK, NEW c \in Columns[list]
  PROVE  [applied EXCEPT !.sort = NextSort(c)[1], !.order = NextSort(c)[2], !.page = 1] \in Query(list)
<1>1. NextSort(c)[1] \in Search[list].sorts \cup {Unsorted} /\ NextSort(c)[2] \in Orders
  <2>1. c \in Search[list].sorts
    BY SortsCarried, ListsAreNamed
  <2> QED
    BY <2>1 DEF NextSort, Orders
<1> QED
  BY <1>1 DEF TypeOK, Query

LEMMA LoadFields ==
  ASSUME TypeOK, load # NoLoad
  PROVE  load \in LoadRow(list)
BY DEF TypeOK

LEMMA WaitingLoads ==
  ASSUME NEW stage, stage # "none", Waiting(stage)
  PROVE  load # NoLoad
BY DEF Waiting, NoLoad

-----------------------------------------------------------------------------
(* STEPS THAT LEAVE A PART ALONE *)

\* Nothing new is read or shown.
LEMMA VersionsKept ==
  ASSUME VersionsKnown, table' = table, writes' = writes, list' = list, shown' = shown,
         load' # NoLoad /\ load'.rowsRead =>
           load # NoLoad /\ load.rowsRead /\ load'.rowsAt = load.rowsAt
             /\ load'.items = load.items /\ load'.query = load.query
  PROVE  VersionsKnown'
<1>1. PICK h \in [0..writes -> Tables(list)] : ReadOfVersions(h)
  BY DEF VersionsKnown
<1>2. h[writes] = table
  BY <1>1 DEF ReadOfVersions
<1>3. load' # NoLoad /\ load'.rowsRead =>
        load'.rowsAt \in 0..writes /\ (\E s \in Listings(list, h[load'.rowsAt], load'.query) :
                                          load'.items = PageOf(s, load'.query))
  BY <1>1 DEF ReadOfVersions, ReadFrom
<1>4. shown.phase = "success" =>
        /\ shown.rowsAt \in 0..writes
        /\ (\E s \in Listings(list, h[shown.rowsAt], Sent(list, shown.query)) :
               shown.items = PageOf(s, Sent(list, shown.query)))
        /\ shown.page = Sent(list, shown.query).page
  BY <1>1 DEF ReadOfVersions, ReadFrom
<1>5. h[writes'] = table'
  BY <1>2
<1>6. ReadOfVersions(h)'
  BY <1>3, <1>4, <1>5 DEF ReadOfVersions, ReadFrom
<1>7. h \in [0..writes' -> Tables(list')]
  OBVIOUS
<1> QED
  BY <1>6, <1>7 DEF VersionsKnown

\* The bar, the history and the answer of a load stay as they were.
LEMMA RefusalsKept ==
  ASSUME RefusalsExplained, list' = list, shown' = shown,
         load' # NoLoad /\ load'.stage = "refused" =>
           load # NoLoad /\ load.stage = "refused" /\ load'.query = load.query
  PROVE  RefusalsExplained'
BY DEF RefusalsExplained

LEMMA BarKept ==
  ASSUME DraftInForce, AskedInBar, applied' = applied, edit' = edit, url' = url, asked' = asked
  PROVE  DraftInForce' /\ AskedInBar'
BY DEF DraftInForce, AskedInBar, Address

-----------------------------------------------------------------------------
(* EVERY STEP KEEPS THE INVARIANT *)

LEMMA BrowsingBegins ==
  ASSUME Init
  PROVE  BrowsingInvariant
<1>1. list \in Lists /\ list \in ListName /\ applied \in Query(list)
  BY BrowsingAssumption DEF Init
<1>2. table \in Tables(list)
  BY <1>1, BrowsingAssumption DEF Init, Tables, ListRow
<1>3. load \in LoadRow(list) /\ load.query = Sent(list, applied) /\ load.stage = "sent" /\ load.rowsRead = FALSE
  BY <1>1, SendingTyped DEF Init
<1>4. Filters(applied) \in FilterSet(list)
  BY <1>1, QueryFields
<1>5. Address = applied
  BY DEF Init, Address
<1>6. url.past \in Seq(Query(list)) /\ Len(url.past) = 1 /\ url.at = 1 /\ url \in [past : Seq(Query(list)), at : Nat]
  BY <1>1 DEF Init
<1>7. TypeOK
  BY <1>1, <1>2, <1>3, <1>4, <1>6 DEF Init, TypeOK, Tables
<1>8. shown.phase = "none"
  BY DEF Init, Nothing
<1>9. VersionsKnown
  <2> DEFINE h == [v \in 0..writes |-> table]
  <2>1. h \in [0..writes -> Tables(list)] /\ h[writes] = table
    BY <1>2 DEF Init
  <2> HIDE DEF h
  <2>2. ReadOfVersions(h)
    BY <1>3, <1>8, <2>1 DEF ReadOfVersions
  <2> QED
    BY <2>1, <2>2 DEF VersionsKnown
<1>10. DraftInForce /\ AskedInBar
  BY DEF Init, DraftInForce, AskedInBar
<1>11. LoadIsCurrent /\ RefusalsExplained
  BY <1>3, <1>8 DEF LoadIsCurrent, RefusalsExplained
<1> QED
  BY <1>7, <1>9, <1>10, <1>11 DEF BrowsingInvariant

LEMMA ArriveKeeps ==
  ASSUME BrowsingInvariant, Arrive
  PROVE  BrowsingInvariant'
<1> USE DEF BrowsingInvariant
<1>1. list \in ListName /\ Address \in Query(list) /\ edit.filters \in FilterSet(list)
  BY ListsAreNamed
<1>2. load' \in LoadRow(list) /\ load'.query = Sent(list, Address) /\ load'.stage = "sent" /\ load'.rowsRead = FALSE
  BY <1>1, SendingTyped DEF Arrive
<1>3. Filters(Address) \in FilterSet(list) /\ DraftOn(Address) \in FilterSet(list)
  BY <1>1, QueryFields DEF DraftOn
<1>4. TypeOK'
  BY <1>1, <1>2, <1>3 DEF Arrive, TypeOK
<1>5. VersionsKnown'
  BY <1>2, VersionsKept DEF Arrive
<1>6. LoadIsCurrent'
  BY <1>2 DEF LoadIsCurrent, Arrive
<1>7. RefusalsExplained'
  BY <1>2, RefusalsKept DEF Arrive
<1>8. edit'.of = Filters(Address) /\ edit'.filters = DraftOn(Address) /\ Address' = Address /\ applied' = Address
  BY DEF Arrive, Address
<1>9. DraftInForce'
  BY <1>8 DEF DraftInForce
<1>10. AskedInBar'
  BY <1>8 DEF AskedInBar, DraftOn, Arrive
<1> QED
  BY <1>4, <1>5, <1>6, <1>7, <1>9, <1>10

LEMMA TraverseKeeps ==
  ASSUME BrowsingInvariant, NEW step \in {-1, 1}, Traverse(step)
  PROVE  BrowsingInvariant'
<1> USE DEF BrowsingInvariant
<1>1. url'.past = url.past /\ url'.at \in 1..Len(url.past) /\ url' \in [past : Seq(Query(list)), at : Nat]
  <2>1. /\ url.past \in Seq(Query(list)) /\ url.at \in Nat /\ url.at + step \in 1..Len(url.past)
        /\ url' = [url EXCEPT !.at = url.at + step] /\ url \in [past : Seq(Query(list)), at : Nat]
    BY ListsAreNamed DEF Traverse, TypeOK
  <2> QED
    BY <2>1
<1>2. spent' \in [moves : Nat, edits : Nat]
  BY DEF Traverse, Moved, TypeOK
<1>3. TypeOK'
  BY <1>1, <1>2 DEF Traverse, TypeOK
<1>4. VersionsKnown'
  BY VersionsKept DEF Traverse
<1>5. LoadIsCurrent' /\ RefusalsExplained'
  BY RefusalsKept DEF LoadIsCurrent, Traverse
<1>6. DraftInForce' /\ AskedInBar'
  BY DEF DraftInForce, AskedInBar, Traverse
<1> QED
  BY <1>3, <1>4, <1>5, <1>6

LEMMA EditKeeps ==
  ASSUME BrowsingInvariant, NEW f \in Edits, Edit(f)
  PROVE  BrowsingInvariant'
<1> USE DEF BrowsingInvariant
<1>1. f \in FilterSet(list) /\ Filters(applied) \in FilterSet(list)
  BY EditsTyped, QueryFields, ListsAreNamed DEF TypeOK
<1>2. spent' \in [moves : Nat, edits : Nat]
  BY DEF Edit, TypeOK
<1>3. TypeOK'
  BY <1>1, <1>2 DEF Edit, TypeOK
<1>4. VersionsKnown'
  BY VersionsKept DEF Edit
<1>5. LoadIsCurrent' /\ RefusalsExplained'
  BY RefusalsKept DEF LoadIsCurrent, Edit
<1>6. DraftInForce' /\ AskedInBar'
  BY DEF DraftInForce, AskedInBar, Edit
<1> QED
  BY <1>3, <1>4, <1>5, <1>6

LEMMA CommitKeeps ==
  ASSUME BrowsingInvariant, NEW q \in Query(list), Commit(q)
  PROVE  BrowsingInvariant'
<1> USE DEF BrowsingInvariant
<1>1. list \in ListName /\ applied \in Query(list)
  BY ListsAreNamed DEF TypeOK
<1>2. Filters(q) \in FilterSet(list) /\ Filters(applied) \in FilterSet(list)
  BY <1>1, QueryFields
<1>3. spent' \in [moves : Nat, edits : Nat]
  BY DEF Commit, Moved, TypeOK
<1>4. /\ edit' = [of |-> Filters(applied), filters |-> Filters(q)]
      /\ asked' = {[filters |-> Filters(q), alone |-> applied = Address]}
      /\ UNCHANGED <<list, table, writes, applied, shown>>
  BY DEF Commit
<1>5. (applied = Address) \in BOOLEAN
  OBVIOUS
<1>6. asked' \subseteq [filters : FilterSet(list), alone : BOOLEAN]
  BY <1>2, <1>4, <1>5
<1>7. CASE q = applied
  <2>1. url' = url /\ reloads' = reloads + 1 /\ load' = Sending(Sent(list, applied))
    BY <1>7 DEF Commit, Reloaded
  <2>2. load' \in LoadRow(list) /\ load'.query = Sent(list, applied) /\ load'.stage = "sent" /\ load'.rowsRead = FALSE
    BY <1>1, <2>1, SendingTyped
  <2>3. TypeOK'
    BY <1>2, <1>3, <1>4, <1>6, <2>1, <2>2 DEF TypeOK
  <2>4. VersionsKnown'
    BY <1>4, <2>2, VersionsKept
  <2>5. LoadIsCurrent' /\ RefusalsExplained'
    BY <1>4, <2>2, RefusalsKept DEF LoadIsCurrent
  <2>6. DraftInForce' /\ AskedInBar'
    <3>1. Address' = Address
      BY <2>1 DEF Address
    <3>2. edit'.of = Filters(applied) /\ edit'.filters = Filters(q) /\ applied' = applied
      BY <1>4
    <3>3. ASSUME NEW a \in asked', a.alone
          PROVE  a.filters = Filters(q) /\ Filters(Address) = Filters(q)
      <4>1. a = [filters |-> Filters(q), alone |-> applied = Address]
        BY <1>4
      <4>2. applied = Address
        BY <3>3, <4>1, Zenon
      <4> QED
        BY <1>7, <4>1, <4>2
    <3>4. AskedInBar'
      BY <3>1, <3>2, <3>3 DEF AskedInBar
    <3> QED
      BY <3>2, <3>4 DEF DraftInForce
  <2> QED
    BY <2>3, <2>4, <2>5, <2>6
<1>8. CASE q # applied
  <2>1. Navigate(q) /\ reloads' = reloads /\ load' = load
    BY <1>8 DEF Commit
  <2>2. /\ url' \in [past : Seq(Query(list)), at : Nat] /\ url'.at \in 1..Len(url'.past)
        /\ url'.past[url'.at] = q
    BY <2>1, NavigateTyped
  <2>3. TypeOK'
    BY <1>2, <1>3, <1>4, <1>6, <2>1, <2>2 DEF TypeOK
  <2>4. VersionsKnown'
    BY <1>4, <2>1, VersionsKept
  <2>5. LoadIsCurrent' /\ RefusalsExplained'
    BY <1>4, <2>1, RefusalsKept DEF LoadIsCurrent
  <2>6. DraftInForce' /\ AskedInBar'
    <3>1. Address' = q
      BY <2>2 DEF Address
    <3> QED
      BY <1>4, <3>1 DEF DraftInForce, AskedInBar
  <2> QED
    BY <2>3, <2>4, <2>5, <2>6
<1> QED
  BY <1>7, <1>8

LEMMA DisplayKeeps ==
  ASSUME BrowsingInvariant, NEW q \in Query(list), Filters(q) = Filters(applied), Display(q)
  PROVE  BrowsingInvariant'
<1> USE DEF BrowsingInvariant
<1>1. /\ Navigate(q)
      /\ UNCHANGED <<list, table, writes, applied, edit, reloads, load, shown, asked>>
  BY DEF Display
<1>2. /\ url' \in [past : Seq(Query(list)), at : Nat] /\ url'.at \in 1..Len(url'.past)
      /\ url'.past[url'.at] = q
  BY <1>1, NavigateTyped
<1>3. spent' \in [moves : Nat, edits : Nat]
  BY DEF Display, Moved, TypeOK
<1>4. TypeOK'
  BY <1>1, <1>2, <1>3 DEF TypeOK
<1>5. VersionsKnown'
  BY <1>1, VersionsKept
<1>6. LoadIsCurrent' /\ RefusalsExplained'
  BY <1>1, RefusalsKept DEF LoadIsCurrent
<1>7. DraftInForce' /\ AskedInBar'
  <2>1. Address' = q
    BY <1>2 DEF Address
  <2> QED
    BY <1>1, <2>1 DEF DraftInForce, AskedInBar
<1> QED
  BY <1>4, <1>5, <1>6, <1>7

LEMMA RetryKeeps ==
  ASSUME BrowsingInvariant, Retry
  PROVE  BrowsingInvariant'
<1> USE DEF BrowsingInvariant
<1>1. /\ reloads' = reloads + 1 /\ load' = Sending(Sent(list, applied))
      /\ UNCHANGED <<list, table, writes, url, applied, edit, shown, asked>>
  BY DEF Retry, Reloaded
<1>2. load' \in LoadRow(list) /\ load'.query = Sent(list, applied) /\ load'.stage = "sent" /\ load'.rowsRead = FALSE
  BY <1>1, SendingTyped, ListsAreNamed DEF TypeOK
<1>3. spent' \in [moves : Nat, edits : Nat]
  BY DEF Retry, Moved, TypeOK
<1>4. TypeOK'
  BY <1>1, <1>2, <1>3 DEF TypeOK
<1>5. VersionsKnown'
  BY <1>1, <1>2, VersionsKept
<1>6. LoadIsCurrent' /\ RefusalsExplained'
  BY <1>1, <1>2, RefusalsKept DEF LoadIsCurrent
<1>7. DraftInForce' /\ AskedInBar'
  BY <1>1, BarKept
<1> QED
  BY <1>4, <1>5, <1>6, <1>7

LEMMA RefuseKeeps ==
  ASSUME BrowsingInvariant, Refuse
  PROVE  BrowsingInvariant'
<1> USE DEF BrowsingInvariant
<1>1. /\ load' = [load EXCEPT !.stage = "refused"] /\ ~ Accepts(list, load.query)
      /\ UNCHANGED <<list, table, writes, url, applied, edit, reloads, shown, asked, spent>>
  BY DEF Refuse, Asked
<1>2. load # NoLoad /\ load \in LoadRow(list)
  BY WaitingLoads, LoadFields DEF Refuse
<1>3. /\ load' \in LoadRow(list) /\ load'.query = load.query /\ load'.rowsRead = load.rowsRead
      /\ load'.rowsAt = load.rowsAt /\ load'.items = load.items
  BY <1>1, <1>2 DEF LoadRow
<1>4. TypeOK'
  BY <1>1, <1>3 DEF TypeOK
<1>5. VersionsKnown'
  BY <1>1, <1>2, <1>3, VersionsKept
<1>6. LoadIsCurrent' /\ RefusalsExplained'
  BY <1>1, <1>2, <1>3 DEF LoadIsCurrent, RefusalsExplained
<1>7. DraftInForce' /\ AskedInBar'
  BY <1>1, BarKept
<1> QED
  BY <1>4, <1>5, <1>6, <1>7

LEMMA ReadTotalKeeps ==
  ASSUME BrowsingInvariant, ReadTotal
  PROVE  BrowsingInvariant'
<1> USE DEF BrowsingInvariant
<1> DEFINE total == Cardinality(Selected(list, table, Asked))
<1>1. total \in Nat
  <2>1. Selected(list, table, Asked) \subseteq table /\ IsFiniteSet(table)
    BY DEF Selected, TypeOK
  <2> QED
    BY <2>1, FS_Subset, FS_CardinalityType
<1>2. /\ load' = [load EXCEPT !.totalRead = TRUE, !.total = total]
      /\ UNCHANGED <<list, table, writes, url, applied, edit, reloads, shown, asked, spent>>
  BY DEF ReadTotal
<1>3. load # NoLoad /\ load \in LoadRow(list) /\ load.stage = "sent"
  BY WaitingLoads, LoadFields DEF ReadTotal, Waiting
<1> HIDE DEF total
<1>4. /\ load' \in LoadRow(list) /\ load'.query = load.query /\ load'.rowsRead = load.rowsRead
      /\ load'.rowsAt = load.rowsAt /\ load'.items = load.items /\ load'.stage = "sent"
  BY <1>1, <1>2, <1>3 DEF LoadRow
<1>5. TypeOK'
  BY <1>2, <1>4 DEF TypeOK
<1>6. VersionsKnown'
  BY <1>2, <1>3, <1>4, VersionsKept
<1>7. LoadIsCurrent' /\ RefusalsExplained'
  BY <1>2, <1>3, <1>4 DEF LoadIsCurrent, RefusalsExplained
<1>8. DraftInForce' /\ AskedInBar'
  BY <1>2, BarKept
<1> QED
  BY <1>5, <1>6, <1>7, <1>8

LEMMA ReadRowsKeeps ==
  ASSUME BrowsingInvariant, ReadRows
  PROVE  BrowsingInvariant'
<1> USE DEF BrowsingInvariant
<1>1. UNCHANGED <<list, table, writes, url, applied, edit, reloads, shown, asked, spent>>
  BY DEF ReadRows
<1>2. load # NoLoad /\ load \in LoadRow(list) /\ load.stage = "sent"
  BY WaitingLoads, LoadFields DEF ReadRows, Waiting
<1>3. PICK s \in Listings(list, table, load.query) :
        load' = [load EXCEPT !.rowsRead = TRUE, !.rowsAt = writes,
                             !.items = PageOf(s, load.query),
                             !.total = IF OneRead(list, load.query) THEN Len(s) ELSE @,
                             !.totalRead = @ \/ OneRead(list, load.query)]
  BY DEF ReadRows, Asked
<1>4. load.query = Sent(list, applied) /\ list \in ListName /\ applied \in Query(list)
  BY <1>2, ListsAreNamed DEF LoadIsCurrent, TypeOK
<1>5. load.query.page \in Nat \ {0} /\ load.query.size \in Nat \ {0} /\ load.query \in Query(list)
  <2>1. load.query.size \in Sizes
    BY <1>4, SentFields, QueryFields
  <2>2. Sizes \subseteq Nat \ {0}
    <3>1. MaxPageSize \in Nat /\ Sizes \subseteq 1..MaxPageSize
      BY MaxPageSizeAssumption, BrowsingAssumption
    <3> QED
      BY <3>1
  <2>3. Sent(list, applied) \in Query(list) /\ Sent(list, applied).page \in Nat \ {0}
    BY <1>4, SentType
  <2>4. load.query.page \in Nat \ {0} /\ load.query \in Query(list)
    BY <1>4, <2>3
  <2>5. load.query.size \in Nat \ {0}
    BY <2>1, <2>2
  <2> QED
    BY <2>4, <2>5
<1>6. s \in Seq(Selected(list, table, load.query)) /\ IsFiniteSet(table)
  BY ListingRows DEF TypeOK
<1>7. PageOf(s, load.query) \in Seq(ListRow(list)) /\ Len(s) \in Nat
  <2>1. PageOf(s, load.query) \in Seq(Selected(list, table, load.query))
    BY <1>5, <1>6, PageRows
  <2>2. Selected(list, table, load.query) \subseteq ListRow(list)
    BY DEF Selected, TypeOK
  <2> QED
    BY <1>6, <2>1, <2>2
<1> DEFINE items == PageOf(s, load.query)
           total == IF OneRead(list, load.query) THEN Len(s) ELSE load.total
           both == load.totalRead \/ OneRead(list, load.query)
<1>8. total \in Nat /\ both \in BOOLEAN /\ items \in Seq(ListRow(list))
  <2>1. load.total \in Nat
    BY <1>2 DEF LoadRow
  <2>2. both \in BOOLEAN
    OBVIOUS
  <2> QED
    BY <1>7, <2>1, <2>2
<1>9. load' = [load EXCEPT !.rowsRead = TRUE, !.rowsAt = writes, !.items = items,
                           !.total = total, !.totalRead = both]
  BY <1>3
<1> HIDE DEF items, total, both
<1>10. /\ load' \in LoadRow(list) /\ load'.query = load.query /\ load'.rowsRead = TRUE
       /\ load'.rowsAt = writes /\ load'.items = items /\ load'.stage = "sent"
  BY <1>2, <1>8, <1>9 DEF LoadRow, TypeOK
<1>11. TypeOK'
  BY <1>1, <1>10 DEF TypeOK
<1>12. VersionsKnown'
  <2>1. PICK h \in [0..writes -> Tables(list)] : ReadOfVersions(h)
    BY DEF VersionsKnown
  <2>2. h[writes] = table
    BY <2>1 DEF ReadOfVersions
  <2>3. load'.rowsAt \in 0..writes /\ h[load'.rowsAt] = table
    BY <1>10, <2>2 DEF TypeOK
  <2>4. \E t \in Listings(list, h[load'.rowsAt], load'.query) : load'.items = PageOf(t, load'.query)
    BY <1>10, <2>3 DEF items
  <2>5. shown.phase = "success" =>
          /\ shown.rowsAt \in 0..writes
          /\ (\E t \in Listings(list, h[shown.rowsAt], Sent(list, shown.query)) :
                 shown.items = PageOf(t, Sent(list, shown.query)))
          /\ shown.page = Sent(list, shown.query).page
    BY <2>1 DEF ReadOfVersions, ReadFrom
  <2>6. ReadOfVersions(h)'
    BY <1>1, <2>2, <2>3, <2>4, <2>5 DEF ReadOfVersions, ReadFrom
  <2> QED
    BY <1>1, <2>6 DEF VersionsKnown
<1>13. LoadIsCurrent' /\ RefusalsExplained'
  BY <1>1, <1>2, <1>10 DEF LoadIsCurrent, RefusalsExplained
<1>14. DraftInForce' /\ AskedInBar'
  BY <1>1, BarKept
<1> QED
  BY <1>11, <1>12, <1>13, <1>14

\* A write ends a version of the table and begins the next.
LEMMA WriteKeeps ==
  ASSUME BrowsingInvariant, NEW row \in Pool[list], Write(row)
  PROVE  BrowsingInvariant'
<1> USE DEF BrowsingInvariant
<1>1. /\ table' = {r \in table : r.id # row.id} \cup {row} /\ writes' = writes + 1
      /\ UNCHANGED <<list, url, applied, edit, reloads, load, shown, asked, spent>>
  BY DEF Write
<1>2. table' \in Tables(list)
  <2> DEFINE others == {r \in table : r.id # row.id}
  <2>1. IsFiniteSet(others) /\ others \subseteq table
    BY FS_Subset DEF TypeOK
  <2>2. IsFiniteSet(others \cup {row})
    BY <2>1, FS_AddElement
  <2>3. Keyed(others \cup {row})
    BY DEF Keyed, TypeOK
  <2>4. row \in ListRow(list)
    BY DEF ListRow
  <2>5. others \cup {row} \subseteq ListRow(list)
    BY <2>1, <2>4 DEF TypeOK
  <2> QED
    BY <1>1, <2>2, <2>3, <2>5 DEF Tables
<1>3. TypeOK'
  BY <1>1, <1>2 DEF TypeOK, Tables
<1>4. VersionsKnown'
  <2>1. PICK h \in [0..writes -> Tables(list)] : ReadOfVersions(h)
    BY DEF VersionsKnown
  <2>2. writes \in Nat /\ writes' = writes + 1
    BY <1>1 DEF TypeOK
  <2>3. \E g \in [0..(writes + 1) -> Tables(list)] :
          g[writes + 1] = table' /\ \A v \in 0..writes : g[v] = h[v]
    <3> DEFINE g == [v \in 0..(writes + 1) |-> IF v = writes + 1 THEN table' ELSE h[v]]
    <3>1. g \in [0..(writes + 1) -> Tables(list)]
      BY <1>2, <2>2
    <3>2. g[writes + 1] = table' /\ \A v \in 0..writes : g[v] = h[v]
      BY <2>2
    <3> HIDE DEF g
    <3> QED
      BY <3>1, <3>2
  <2>4. PICK g \in [0..(writes + 1) -> Tables(list)] :
          g[writes + 1] = table' /\ \A v \in 0..writes : g[v] = h[v]
    BY <2>3
  <2>5. load # NoLoad /\ load.rowsRead =>
          load.rowsAt \in 0..writes /\ (\E t \in Listings(list, h[load.rowsAt], load.query) :
                                           load.items = PageOf(t, load.query))
    BY <2>1 DEF ReadOfVersions, ReadFrom
  <2>6. shown.phase = "success" =>
          /\ shown.rowsAt \in 0..writes
          /\ (\E t \in Listings(list, h[shown.rowsAt], Sent(list, shown.query)) :
                 shown.items = PageOf(t, Sent(list, shown.query)))
          /\ shown.page = Sent(list, shown.query).page
    BY <2>1 DEF ReadOfVersions, ReadFrom
  <2>7. load # NoLoad /\ load.rowsRead =>
          load.rowsAt \in 0..writes' /\ (\E t \in Listings(list, g[load.rowsAt], load.query) :
                                            load.items = PageOf(t, load.query))
    BY <2>2, <2>4, <2>5
  <2>8. shown.phase = "success" =>
          /\ shown.rowsAt \in 0..writes'
          /\ (\E t \in Listings(list, g[shown.rowsAt], Sent(list, shown.query)) :
                 shown.items = PageOf(t, Sent(list, shown.query)))
          /\ shown.page = Sent(list, shown.query).page
    BY <2>2, <2>4, <2>6
  <2>9. ReadOfVersions(g)'
    BY <1>1, <2>2, <2>4, <2>7, <2>8 DEF ReadOfVersions, ReadFrom
  <2> QED
    BY <1>1, <2>2, <2>4, <2>9 DEF VersionsKnown
<1>5. LoadIsCurrent' /\ RefusalsExplained'
  BY <1>1, RefusalsKept DEF LoadIsCurrent
<1>6. DraftInForce' /\ AskedInBar'
  BY <1>1, BarKept
<1> QED
  BY <1>3, <1>4, <1>5, <1>6

\* The load in flight is that of the query on the screen: its answer is shown under it.
LEMMA DeliverKeeps ==
  ASSUME BrowsingInvariant, Deliver
  PROVE  BrowsingInvariant'
<1> USE DEF BrowsingInvariant
<1>1. load' = NoLoad /\ UNCHANGED <<list, table, writes, url, applied, edit, reloads, asked, spent>>
  BY DEF Deliver
<1>2. load # NoLoad /\ load \in LoadRow(list) /\ load.query = Sent(list, applied)
  BY WaitingLoads, LoadFields DEF Deliver, LoadIsCurrent
<1>3. list \in ListName /\ applied \in Query(list) /\ reloads \in Nat
  BY ListsAreNamed DEF TypeOK
<1>4. CASE Waiting("refused") /\ shown' = Failed
  <2>1. shown' \in ErrorRow(list) /\ shown'.phase = "error" /\ shown'.query = applied
    BY <1>3, <1>4 DEF Failed, ErrorRow
  <2>2. ~ Accepts(list, Sent(list, applied))
    BY <1>2, <1>4 DEF Waiting, RefusalsExplained
  <2>3. TypeOK'
    BY <1>1, <2>1 DEF TypeOK
  <2>4. LoadIsCurrent' /\ RefusalsExplained'
    BY <1>1, <2>1, <2>2 DEF LoadIsCurrent, RefusalsExplained
  <2>5. VersionsKnown'
    <3>1. PICK h \in [0..writes -> Tables(list)] : ReadOfVersions(h)
      BY DEF VersionsKnown
    <3>2. ReadOfVersions(h)'
      BY <1>1, <2>1, <3>1 DEF ReadOfVersions
    <3> QED
      BY <1>1, <3>2 DEF VersionsKnown
  <2>6. DraftInForce' /\ AskedInBar'
    BY <1>1, BarKept
  <2> QED
    BY <2>3, <2>4, <2>5, <2>6
<1>5. CASE Waiting("sent") /\ load.rowsRead /\ load.totalRead /\ shown' = Loaded
  <2>1. /\ load.items \in Seq(ListRow(list)) /\ load.total \in Nat /\ load.rowsAt \in Nat
        /\ load.query.page \in Nat /\ load.query.size \in Sizes
    BY <1>2 DEF LoadRow, Query
  <2>2. /\ shown' \in ResultRow(list) /\ shown'.phase = "success" /\ shown'.query = applied
        /\ shown'.items = load.items /\ shown'.rowsAt = load.rowsAt
        /\ shown'.page = Sent(list, applied).page
    BY <1>2, <1>3, <1>5, <2>1 DEF Loaded, ResultRow
  <2>3. TypeOK'
    BY <1>1, <2>2 DEF TypeOK
  <2>4. LoadIsCurrent' /\ RefusalsExplained'
    BY <1>1, <2>2 DEF LoadIsCurrent, RefusalsExplained
  <2>5. VersionsKnown'
    <3>1. PICK h \in [0..writes -> Tables(list)] : ReadOfVersions(h)
      BY DEF VersionsKnown
    <3>2. /\ h[writes] = table /\ load.rowsAt \in 0..writes
          /\ \E t \in Listings(list, h[load.rowsAt], Sent(list, applied)) :
                load.items = PageOf(t, Sent(list, applied))
      BY <1>2, <1>5, <3>1 DEF ReadOfVersions, ReadFrom
    <3>3. /\ shown'.rowsAt \in 0..writes
          /\ \E t \in Listings(list, h[shown'.rowsAt], Sent(list, shown'.query)) :
                shown'.items = PageOf(t, Sent(list, shown'.query))
          /\ shown'.page = Sent(list, shown'.query).page
      BY <2>2, <3>2
    <3>4. ReadOfVersions(h)'
      BY <1>1, <3>2, <3>3 DEF ReadOfVersions, ReadFrom
    <3> QED
      BY <1>1, <3>4 DEF VersionsKnown
  <2>6. DraftInForce' /\ AskedInBar'
    BY <1>1, BarKept
  <2> QED
    BY <2>3, <2>4, <2>5, <2>6
<1> QED
  BY <1>4, <1>5 DEF Deliver

LEMMA UserKeeps ==
  ASSUME BrowsingInvariant, User
  PROVE  BrowsingInvariant'
<1>1. TypeOK /\ list \in ListName /\ applied \in Query(list) /\ edit.filters \in FilterSet(list)
  BY ListsAreNamed DEF BrowsingInvariant, TypeOK
<1>2. CASE AnyEdit
  BY <1>2, EditKeeps DEF AnyEdit
<1>3. CASE Submit
  <2>1. Commit(FirstOf(applied, edit.filters))
    BY <1>3 DEF Submit, FirstOf
  <2> QED
    BY <1>1, <2>1, FirstOfTyped, CommitKeeps
<1>4. CASE Reset
  <2>1. Commit(FirstOf(applied, Unfiltered(list)))
    BY <1>4 DEF Reset, FirstOf
  <2> QED
    BY <1>1, <2>1, FirstOfTyped, UnfilteredTyped, CommitKeeps
<1>5. CASE AnySort
  <2>1. PICK c \in Columns[list] : ChangeSort(c)
    BY <1>5 DEF AnySort
  <2> DEFINE q == [applied EXCEPT !.sort = NextSort(c)[1], !.order = NextSort(c)[2], !.page = 1]
  <2>2. Filters(q) = Filters(applied)
    BY <1>1 DEF Filters, Query
  <2>3. q \in Query(list) /\ Display(q)
    BY <1>1, <2>1, HeaderSorts DEF ChangeSort
  <2> HIDE DEF q
  <2> QED
    BY <2>2, <2>3, DisplayKeeps
<1>6. CASE ChangePage
  <2>1. PICK p \in OfferedPages : Display([applied EXCEPT !.page = p])
    BY <1>6 DEF ChangePage
  <2> DEFINE q == [applied EXCEPT !.page = p]
  <2>2. Filters(q) = Filters(applied)
    BY <1>1 DEF Filters, Query
  <2>3. q \in Query(list) /\ Display(q)
    BY <1>1, <2>1, FooterPages
  <2> HIDE DEF q
  <2> QED
    BY <2>2, <2>3, DisplayKeeps
<1>7. CASE ChangeSize
  <2>1. PICK s \in Sizes : Display([applied EXCEPT !.size = s, !.page = 0])
    BY <1>7 DEF ChangeSize
  <2> DEFINE q == [applied EXCEPT !.size = s, !.page = 0]
  <2>2. Filters(q) = Filters(applied)
    BY <1>1 DEF Filters, Query
  <2>3. q \in Query(list) /\ Display(q)
    BY <1>1, <2>1, FooterSizes
  <2> HIDE DEF q
  <2> QED
    BY <2>2, <2>3, DisplayKeeps
<1>8. CASE Retry
  BY <1>8, RetryKeeps
<1>9. CASE Backward \/ Forward
  BY <1>9, TraverseKeeps DEF Backward, Forward
<1> QED
  BY <1>2, <1>3, <1>4, <1>5, <1>6, <1>7, <1>8, <1>9 DEF User

LEMMA BrowsingStep ==
  ASSUME BrowsingInvariant, [Next]_vars
  PROVE  BrowsingInvariant'
<1>1. CASE Next
  <2>1. CASE User
    BY <2>1, UserKeeps
  <2>2. CASE System
    BY <2>2, ArriveKeeps, RefuseKeeps, ReadRowsKeeps, ReadTotalKeeps, DeliverKeeps DEF System
  <2>3. CASE AnyWrite
    BY <2>3, WriteKeeps DEF AnyWrite
  <2> QED
    BY <1>1, <2>1, <2>2, <2>3 DEF Next
<1>2. CASE UNCHANGED vars
  <2> USE <1>2 DEF BrowsingInvariant, vars
  <2>1. TypeOK'
    BY DEF TypeOK
  <2>2. VersionsKnown'
    BY VersionsKept
  <2>3. LoadIsCurrent' /\ RefusalsExplained'
    BY DEF LoadIsCurrent, RefusalsExplained
  <2>4. DraftInForce' /\ AskedInBar'
    BY BarKept
  <2> QED
    BY <2>1, <2>2, <2>3, <2>4
<1> QED
  BY <1>1, <1>2

-----------------------------------------------------------------------------
(* THE THEOREMS *)

\* A list page in use, with users who write meanwhile, keeps the invariant.
THEOREM BrowsingInvariantHolds == Spec => []BrowsingInvariant
<1>1. Init => BrowsingInvariant
  BY BrowsingBegins
<1>2. BrowsingInvariant /\ [Next]_vars => BrowsingInvariant'
  BY BrowsingStep
<1> QED
  BY <1>1, <1>2, PTL DEF Spec

\* The state of a list page has its type.
THEOREM BrowsingTyped == Spec => []TypeOK
<1>1. BrowsingInvariant => TypeOK
  BY DEF BrowsingInvariant
<1> QED
  BY <1>1, BrowsingInvariantHolds, PTL

\* Every row on the screen satisfies every condition of the query in the URL.
THEOREM ShownRowsMatchQuery == Spec => []ShownRowsMatch
<1>1. ASSUME BrowsingInvariant
      PROVE  ShownRowsMatch
  <2>1. SUFFICES ASSUME shown.phase = "success", NEW i \in DOMAIN shown.items
                 PROVE  Matches(list, shown.items[i], shown.query)
    BY DEF ShownRowsMatch
  <2>2. list \in ListName /\ shown.query \in Query(list)
    BY <1>1, <2>1, ListsAreNamed DEF BrowsingInvariant, TypeOK, Nothing, ErrorRow, ResultRow
  <2>3. PICK h \in [0..writes -> Tables(list)] : ReadOfVersions(h)
    BY <1>1 DEF BrowsingInvariant, VersionsKnown
  <2> DEFINE q == Sent(list, shown.query)
  <2>4. h[shown.rowsAt] \in Tables(list)
    BY <2>1, <2>3 DEF ReadOfVersions
  <2>5. PICK s \in Listings(list, h[shown.rowsAt], q) : shown.items = PageOf(s, q)
    BY <2>1, <2>3 DEF ReadOfVersions, ReadFrom
  <2>6. q.page \in Nat \ {0} /\ q.size \in Nat \ {0} /\ q.text = shown.query.text /\ q.axes = shown.query.axes
    <3>1. q.size \in Sizes
      BY <2>2, SentFields, QueryFields
    <3>2. Sizes \subseteq Nat \ {0}
      BY BrowsingAssumption, MaxPageSizeAssumption
    <3>3. q.page \in Nat \ {0}
      BY <2>2, SentType
    <3>4. q.text = shown.query.text /\ q.axes = shown.query.axes
      BY <2>2, SentFields
    <3> HIDE DEF q
    <3> QED
      BY <3>1, <3>2, <3>3, <3>4
  <2> HIDE DEF q
  <2>7. s \in Seq(Selected(list, h[shown.rowsAt], q))
    BY <2>4, ListingRows DEF Tables
  <2>8. PageOf(s, q) \in Seq(Selected(list, h[shown.rowsAt], q))
    BY <2>6, <2>7, PageRows
  <2>9. shown.items[i] \in Selected(list, h[shown.rowsAt], q)
    BY <2>1, <2>5, <2>8
  <2>10. Matches(list, shown.items[i], q)
    BY <2>9 DEF Selected
  <2> QED
    BY <2>2, <2>6, <2>10, SelectedByFilters
<1> QED
  BY <1>1, BrowsingInvariantHolds, PTL

\* Conditions submitted while no navigation is under way stay in force or in the
\* filter bar, whatever paging, sorting and loading follows.
THEOREM SubmittedIsKept == Spec => []SubmittedKept
<1>1. BrowsingInvariant => SubmittedKept
  BY DEF BrowsingInvariant, AskedInBar, SubmittedKept, Kept
<1> QED
  BY <1>1, BrowsingInvariantHolds, PTL

\* The services refuse nothing of the pages but long texts in two lists and the
\* three actions the audit contract lacks.
THEOREM RefusalsAreKnown == Spec => []RefusalsKnown
<1>1. ASSUME BrowsingInvariant
      PROVE  RefusalsKnown
  <2>1. SUFFICES ASSUME shown.phase = "error"
                 PROVE  \/ list \in {"boms", "trace"} /\ shown.query.text \in {"phrase", "sentence"}
                        \/ list = "audit" /\ shown.query.axes.action \in UnlistedActions
    BY DEF RefusalsKnown
  <2>2. list \in ListName /\ shown.query \in Query(list) /\ Sizes \subseteq 1..MaxPageSize
    BY <1>1, <2>1, ListsAreNamed DEF BrowsingInvariant, TypeOK, Nothing, ErrorRow, ResultRow
  <2>3. ~ Accepts(list, Sent(list, shown.query))
    BY <1>1, <2>1 DEF BrowsingInvariant, RefusalsExplained
  <2> QED
    BY <2>2, <2>3, WhyRefused
<1> QED
  BY <1>1, BrowsingInvariantHolds, PTL

\* The counters of the dashboard count the rows their lists show.
THEOREM CountersAreListed == Spec => []CountersMatchLists
<1>1. ASSUME BrowsingInvariant
      PROVE  CountersMatchLists
  <2>1. list \in ListName
    BY <1>1, ListsAreNamed DEF BrowsingInvariant
  <2> QED
    BY <2>1, CountersAgree DEF CountersMatchLists
<1> QED
  BY <1>1, BrowsingInvariantHolds, PTL

\* Two pages of the same selection, read from the same version of the table,
\* have no row in common.
THEOREM PagesShareNoRow == Spec => PagesDisjoint
<1> DEFINE Paged == SameSelection(shown, shown') /\ shown.rowsAt = shown'.rowsAt
                      /\ shown.page # shown'.page /\ list \in ListName \ {"audit"}
           Disjoint == ToSet(shown.items) \cap ToSet(shown'.items) = {}
<1>1. ASSUME BrowsingInvariant, [Next]_vars, Paged
      PROVE  Disjoint
  <2>1. shown' # shown
    BY <1>1
  <2>2. Deliver
    <3>1. Next
      BY <1>1, <2>1 DEF vars
    <3>2. ~ User
      BY <2>1 DEF User, AnyEdit, Edit, Submit, Reset, Commit, AnySort, ChangeSort, ChangePage,
                  ChangeSize, Display, Retry, Backward, Forward, Traverse
    <3>3. ~ AnyWrite
      BY <2>1 DEF AnyWrite, Write
    <3> QED
      BY <2>1, <3>1, <3>2, <3>3 DEF Next, System, Arrive, Refuse, ReadRows, ReadTotal
  <2>3. shown.phase = "success" /\ shown'.phase = "success"
    BY <1>1 DEF SameSelection
  <2>4. Waiting("sent") /\ load.rowsRead /\ shown' = Loaded
    BY <2>2, <2>3 DEF Deliver, Failed
  <2>5. TypeOK /\ list \in ListName \ {"audit"} /\ list \in Lists /\ applied \in Query(list)
        /\ shown.query \in Query(list)
    BY <1>1, <2>3 DEF BrowsingInvariant, TypeOK, Nothing, ErrorRow, ResultRow
  <2> DEFINE p == Sent(list, shown.query)
             q == Sent(list, applied)
  <2>6. load # NoLoad /\ load.query = q
    BY <1>1, <2>4, WaitingLoads DEF BrowsingInvariant, LoadIsCurrent
  <2>7. PICK h \in [0..writes -> Tables(list)] : ReadOfVersions(h)
    BY <1>1 DEF BrowsingInvariant, VersionsKnown
  <2>8. /\ shown'.items = load.items /\ shown'.rowsAt = load.rowsAt /\ shown'.page = q.page
        /\ shown'.query = applied
    BY <2>4, <2>6 DEF Loaded
  <2>9. PICK s \in Listings(list, h[shown.rowsAt], p) : shown.items = PageOf(s, p)
    BY <2>3, <2>7 DEF ReadOfVersions, ReadFrom
  <2>10. PICK t \in Listings(list, h[load.rowsAt], q) : load.items = PageOf(t, q)
    BY <2>4, <2>6, <2>7 DEF ReadOfVersions, ReadFrom
  <2>11. h[shown.rowsAt] \in Tables(list) /\ shown.page = p.page
    BY <2>3, <2>7 DEF ReadOfVersions
  <2> DEFINE rows == h[shown.rowsAt]
  <2>12. IsFiniteSet(rows) /\ Keyed(rows) /\ Ranked(rows)
    BY <2>5, <2>11, BrowsingAssumption DEF Tables, Ranked
  <2>13. /\ shown.query.text = applied.text /\ shown.query.axes = applied.axes
         /\ shown.query.sort = applied.sort /\ shown.query.order = applied.order
         /\ shown.query.size = applied.size
    <3>1. Filters(shown.query) = Filters(applied)
      BY <1>1, <2>8 DEF SameSelection
    <3>2. WithFilters([shown.query EXCEPT !.page = 0], Filters(applied)) = [applied EXCEPT !.page = 0]
      BY <1>1, <2>8 DEF SameSelection
    <3>3. shown.query.text = applied.text /\ shown.query.axes = applied.axes
      BY <3>1 DEF Filters
    <3> DEFINE a == WithFilters([shown.query EXCEPT !.page = 0], Filters(applied))
               b == [applied EXCEPT !.page = 0]
    <3>4. a.sort = shown.query.sort /\ a.order = shown.query.order /\ a.size = shown.query.size
      BY <2>5 DEF WithFilters, Query
    <3>5. b.sort = applied.sort /\ b.order = applied.order /\ b.size = applied.size
      BY <2>5 DEF Query
    <3>6. a = b
      BY <3>2
    <3> HIDE DEF a, b
    <3> QED
      BY <3>3, <3>4, <3>5, <3>6
  <2>14. /\ p.text = q.text /\ p.axes = q.axes /\ p.sort = q.sort /\ p.order = q.order
         /\ p.size = q.size /\ p.size \in Sizes
    <3>1. /\ p.text = shown.query.text /\ p.axes = shown.query.axes /\ p.sort = shown.query.sort
          /\ p.order = shown.query.order /\ p.size = shown.query.size
      BY <2>5, SentFields
    <3>2. /\ q.text = applied.text /\ q.axes = applied.axes /\ q.sort = applied.sort
          /\ q.order = applied.order /\ q.size = applied.size
      BY <2>5, SentFields
    <3>3. applied.size \in Sizes
      BY <2>5, QueryFields
    <3> HIDE DEF p, q
    <3> QED
      BY <2>13, <3>1, <3>2, <3>3
  <2>15. p.page \in Nat \ {0} /\ q.page \in Nat \ {0} /\ p.page # q.page
    <3>1. p.page \in Nat \ {0} /\ q.page \in Nat \ {0}
      BY <2>5, SentType
    <3> QED
      BY <1>1, <2>8, <2>11, <3>1
  <2>16. p.size \in Nat \ {0}
    <3>1. Sizes \subseteq Nat \ {0}
      BY BrowsingAssumption, MaxPageSizeAssumption
    <3> HIDE DEF p
    <3> QED
      BY <2>14, <3>1
  <2>17. t \in Listings(list, rows, q)
    BY <1>1, <2>8
  <2> HIDE DEF p, q, rows
  <2>18. ToSet(PageOf(s, p)) \cap ToSet(PageOf(t, q)) = {}
    <3>1. s \in Listings(list, rows, p)
      BY DEF rows
    <3> QED
      BY <2>5, <2>12, <2>14, <2>15, <2>16, <2>17, <3>1, DisjointPages
  <2> QED
    BY <2>8, <2>9, <2>10, <2>18
<1>2. BrowsingInvariant /\ [Next]_vars => [Paged => Disjoint]_vars
  BY <1>1
<1> QED
  BY <1>2, BrowsingInvariantHolds, PTL DEF Spec, PagesDisjoint
=============================================================================
