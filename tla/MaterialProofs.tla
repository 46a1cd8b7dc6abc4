---------------------------- MODULE MaterialProofs ----------------------------
(***************************************************************************)
(* The books of the stock: the reserved and consumed counters of every lot *)
(* agree with the reservations, for every set of orders and lots and with  *)
(* quality requests interleaved statement by statement, only usable        *)
(* material is consumed, and a quarantine comes with its incident.  Stock  *)
(* is conserved as long as quality handles a lot one request at a time,    *)
(* and an order is built from exactly its bill of materials.               *)
(***************************************************************************)
EXTENDS OrderProofs, FunctionTheorems

-----------------------------------------------------------------------------
(* SUMS OF RESERVATIONS *)

\* Total, of a table of reservations given as a value.
Sum(A, rows) == Cardinality(UNION {{a} \X (1..rows[a].quantity) : a \in A})

LEMMA TotalIsSum ==
  ASSUME NEW A
  PROVE  Total(A) = Sum(A, alloc)
BY DEF Total, Pieces, Sum

LEMMA SumType ==
  ASSUME AllocationsTyped, NEW A \in SUBSET Allocation
  PROVE  Sum(A, alloc) \in Nat
BY TotalType, TotalIsSum

LEMMA SumNat ==
  ASSUME NEW A \in SUBSET Allocation, NEW rows, \A a \in A : rows[a].quantity \in Nat
  PROVE  Sum(A, rows) \in Nat
<1>1. IsFiniteSet(A)
  BY DatabaseAssumption, FS_Subset
<1> QED
  BY <1>1, PiecesOfRows, FS_CardinalityType DEF Sum

\* The sum depends on the quantities of the summed reservations only.
LEMMA SumKept ==
  ASSUME NEW A, NEW rows, NEW after, \A a \in A : after[a].quantity = rows[a].quantity
  PROVE  Sum(A, after) = Sum(A, rows)
BY DEF Sum

LEMMA SumEmpty == ASSUME NEW rows PROVE Sum({}, rows) = 0
<1>1. UNION {{a} \X (1..rows[a].quantity) : a \in {}} = {}
  OBVIOUS
<1> QED
  BY <1>1, FS_EmptySet DEF Sum

\* Two separate finite sets are counted one after the other.
LEMMA SeparateCount ==
  ASSUME NEW S, NEW T, IsFiniteSet(S), IsFiniteSet(T), S \cap T = {}
  PROVE  Cardinality(S \cup T) = Cardinality(S) + Cardinality(T)
<1>1. Cardinality(S) \in Nat /\ Cardinality(T) \in Nat /\ Cardinality(S \cap T) = 0
  BY FS_CardinalityType, FS_EmptySet
<1>2. Cardinality(S \cup T) = Cardinality(S) + Cardinality(T) - Cardinality(S \cap T)
  BY FS_Union
<1> QED
  BY <1>1, <1>2

\* Reservations in two separate sets are summed one after the other.
LEMMA SumSplit ==
  ASSUME AllocationsTyped, NEW A \in SUBSET Allocation, NEW B \in SUBSET Allocation, A \cap B = {}
  PROVE  Sum(A \cup B, alloc) = Sum(A, alloc) + Sum(B, alloc)
<1>1. IsFiniteSet(Pieces(A)) /\ IsFiniteSet(Pieces(B))
  BY PiecesFinite DEF AllocationsTyped, AllocationRow, QuantitiesTyped
<1>2. Pieces(A \cup B) = Pieces(A) \cup Pieces(B) /\ Pieces(A) \cap Pieces(B) = {}
  BY DEF Pieces
<1>3. Cardinality(Pieces(A \cup B)) = Cardinality(Pieces(A)) + Cardinality(Pieces(B))
  BY <1>1, <1>2, SeparateCount
<1> QED
  BY <1>3, TotalIsSum DEF Total

LEMMA IntervalCount ==
  ASSUME NEW n \in Nat
  PROVE  IsFiniteSet(1..n) /\ Cardinality(1..n) = n
<1>1. n \in Int /\ 1 \in Int
  OBVIOUS
<1>2. IsFiniteSet(1..n) /\ Cardinality(1..n) = IF 1 > n THEN 0 ELSE n - 1 + 1
  BY <1>1, FS_Interval
<1> QED
  BY <1>2

\* One reservation sums to its quantity.
LEMMA SumSingle ==
  ASSUME NEW a, NEW rows, rows[a].quantity \in Nat
  PROVE  Sum({a}, rows) = rows[a].quantity
<1>1. UNION {{b} \X (1..rows[b].quantity) : b \in {a}} = {a} \X (1..rows[a].quantity)
  OBVIOUS
<1>2. /\ IsFiniteSet(1..rows[a].quantity)
      /\ Cardinality(1..rows[a].quantity) = rows[a].quantity
  BY IntervalCount
<1>3. IsFiniteSet({a}) /\ Cardinality({a}) = 1
  BY FS_Singleton
<1>4. Cardinality({a} \X (1..rows[a].quantity)) = 1 * Cardinality(1..rows[a].quantity)
  BY <1>2, <1>3, FS_Product
<1>5. 1 * rows[a].quantity = rows[a].quantity
  OBVIOUS
<1> QED
  BY <1>1, <1>2, <1>4, <1>5 DEF Sum

\* One more reservation, in a table of which only its row is new.
LEMMA SumExtended ==
  ASSUME AllocationsTyped, NEW A \in SUBSET Allocation, NEW a \in Allocation \ A,
         NEW rows, \A b \in A : rows[b].quantity = alloc[b].quantity,
         rows[a].quantity \in Nat
  PROVE  Sum(A \cup {a}, rows) = Sum(A, alloc) + rows[a].quantity
<1> DEFINE S == UNION {{b} \X (1..rows[b].quantity) : b \in A}
           T == UNION {{b} \X (1..rows[b].quantity) : b \in {a}}
<1>1. S = Pieces(A) /\ IsFiniteSet(Pieces(A))
  <2>1. IsFiniteSet(Pieces(A))
    BY PiecesFinite DEF AllocationsTyped, AllocationRow, QuantitiesTyped
  <2> QED
    BY <2>1 DEF Pieces
<1>2. T = {a} \X (1..rows[a].quantity)
  OBVIOUS
<1>3. IsFiniteSet(T)
  <2>1. IsFiniteSet({a}) /\ IsFiniteSet(1..rows[a].quantity)
    BY IntervalCount, FS_Singleton
  <2>2. IsFiniteSet({a} \X (1..rows[a].quantity))
    BY <2>1, FS_Product
  <2> QED
    BY <1>2, <2>2
<1>4. S \cap T = {}
  OBVIOUS
<1>5. UNION {{b} \X (1..rows[b].quantity) : b \in A \cup {a}} = S \cup T
  OBVIOUS
<1>6. Cardinality(T) = rows[a].quantity
  BY SumSingle DEF Sum
<1> HIDE DEF S, T
<1>7. Cardinality(S \cup T) = Cardinality(S) + Cardinality(T)
  BY <1>1, <1>3, <1>4, SeparateCount
<1>8. Cardinality(S) = Sum(A, alloc)
  BY <1>1, TotalIsSum DEF Total
<1> QED
  BY <1>5, <1>6, <1>7, <1>8 DEF Sum

\* The pieces of the piles of n[l] pieces each, and the pieces of P that go home to l.
PilesOf(L, n) == UNION {{l} \X (1..n[l]) : l \in L}
PartOf(P, home, l) == {p \in P : home[p] = l}

(***************************************************************************)
(* Pieces counted by where they end up: if n[l] of the pieces P go home to *)
(* l, for every l, there are as many pieces in P as in all homes together. *)
(***************************************************************************)
LEMMA Regrouped ==
  ASSUME NEW P, IsFiniteSet(P), NEW L, NEW home \in [P -> L], NEW n \in [L -> Nat],
         \A l \in L : Cardinality(PartOf(P, home, l)) = n[l]
  PROVE  Cardinality(PilesOf(L, n)) = Cardinality(P)
<1> DEFINE Part(l) == {p \in P : home[p] = l}
           Numbering(l) == CHOOSE g : g \in Bijection(Part(l), 1..n[l])
           Whole == UNION {{l} \X (1..n[l]) : l \in L}
           f == [p \in P |-> <<home[p], Numbering(home[p])[p]>>]
<1>1. ASSUME NEW l \in L PROVE Numbering(l) \in Bijection(Part(l), 1..n[l])
  <2>1. IsFiniteSet(Part(l)) /\ Cardinality(Part(l)) = n[l]
    BY FS_Subset DEF PartOf
  <2>2. ExistsBijection(1..n[l], Part(l))
    BY <2>1, FS_CardinalityType
  <2>3. ExistsBijection(Part(l), 1..n[l])
    BY <2>2, Fun_ExistsBijSymmetric
  <2> QED
    BY <2>3 DEF ExistsBijection
<1> HIDE DEF Numbering
<1>2. ASSUME NEW l \in L
      PROVE  /\ Numbering(l) \in [Part(l) -> 1..n[l]]
             /\ \A p, q \in Part(l) : Numbering(l)[p] = Numbering(l)[q] => p = q
             /\ \A k \in 1..n[l] : \E p \in Part(l) : Numbering(l)[p] = k
  <2>1. Numbering(l) \in Bijection(Part(l), 1..n[l])
    BY <1>1
  <2> HIDE DEF Part
  <2> QED
    BY <2>1 DEF Bijection, Injection, Surjection, IsInjective
<1>3. \A p \in P : home[p] \in L /\ p \in Part(home[p])
  OBVIOUS
<1>4. f \in [P -> Whole]
  <2> SUFFICES ASSUME NEW p \in P PROVE f[p] \in Whole
    OBVIOUS
  <2>1. PICK l \in L : l = home[p] /\ p \in Part(l)
    BY <1>3
  <2>2. Numbering(l)[p] \in 1..n[l]
    <3> HIDE DEF Part
    <3> QED
      BY <1>2, <2>1
  <2>3. f[p] = <<l, Numbering(l)[p]>>
    BY <2>1
  <2> QED
    BY <2>2, <2>3
<1>5. ASSUME NEW p \in P, NEW q \in P, f[p] = f[q] PROVE p = q
  <2>1. home[p] = home[q] /\ Numbering(home[p])[p] = Numbering(home[p])[q]
    BY <1>5
  <2>2. q \in Part(home[p])
    BY <2>1
  <2> QED
    BY <1>2, <1>3, <2>1, <2>2
<1>6. ASSUME NEW w \in Whole PROVE \E p \in P : f[p] = w
  <2>1. PICK l \in L : \E k \in 1..n[l] : w = <<l, k>>
    OBVIOUS
  <2> PICK k \in 1..n[l] : w = <<l, k>>
    BY <2>1
  <2>2. PICK p \in Part(l) : Numbering(l)[p] = k
    BY <1>2
  <2> QED
    BY <2>2
<1> HIDE DEF f, Whole
<1>7. f \in Bijection(P, Whole)
  BY <1>4, <1>5, <1>6 DEF Bijection, Injection, Surjection, IsInjective
<1>8. Cardinality(Whole) = Cardinality(P)
  BY <1>7, FS_Bijection DEF ExistsBijection
<1> QED
  BY <1>8 DEF Whole, PilesOf

-----------------------------------------------------------------------------
(* THE BOOKS *)

TakenFrom(o, l) == {a \in HeldBy(o) : alloc[a].lot = l}
FulfilledOn(l) == UNION {FulfilledBy(o, l) : o \in Order}

\* Only a closed reservation was fulfilled.
FulfilledIsClosed ==
  \A a \in Allocation : alloc[a].reason = "FULFILLED" => alloc[a].status = "CLOSED"

Books == ReservedMatchesAllocations /\ GenealogyComplete /\ FulfilledIsClosed

\* Closing the reservations of o takes its part out of each lot's reserved sum.
LEMMA ReservedAfterClosing ==
  ASSUME AllocationsTyped, NEW o \in Order, NEW reason, alloc' = Closed(HeldBy(o), reason),
         NEW l \in Lot
  PROVE  Total(ReservedOn(l))' = Total(ReservedOn(l)) - Taken(o, l)
<1>1. \A a \in Allocation :
        /\ alloc'[a].quantity = alloc[a].quantity /\ alloc'[a].lot = alloc[a].lot
        /\ alloc'[a].status = IF a \in HeldBy(o) THEN "CLOSED" ELSE alloc[a].status
  BY DEF Closed, AllocationsTyped, AllocationRow
<1> DEFINE rest == ReservedOn(l) \ TakenFrom(o, l)
<1>2. ReservedOn(l)' = rest
  BY <1>1 DEF ReservedOn, TakenFrom, HeldBy, Active
<1>3. /\ rest \in SUBSET Allocation /\ TakenFrom(o, l) \in SUBSET Allocation
      /\ rest \cap TakenFrom(o, l) = {} /\ rest \cup TakenFrom(o, l) = ReservedOn(l)
  BY DEF ReservedOn, TakenFrom, HeldBy, Active
<1>4. Total(ReservedOn(l))' = Sum(rest, alloc')
  BY <1>2 DEF Total, Pieces, Sum
<1> HIDE DEF rest
<1>5. Sum(rest, alloc') = Sum(rest, alloc)
  BY <1>1, <1>3, SumKept
<1>6. /\ Total(ReservedOn(l)) = Sum(rest, alloc) + Sum(TakenFrom(o, l), alloc)
      /\ Taken(o, l) = Sum(TakenFrom(o, l), alloc)
      /\ Sum(rest, alloc) \in Nat /\ Sum(TakenFrom(o, l), alloc) \in Nat
  BY <1>3, SumSplit, SumType, TotalIsSum DEF Taken, TakenFrom
<1> QED
  BY <1>4, <1>5, <1>6

\* What was fulfilled stays fulfilled with its quantity, and nothing else is.
FulfilledKept ==
  \A a \in Allocation :
    /\ alloc'[a].reason = "FULFILLED" <=> alloc[a].reason = "FULFILLED"
    /\ alloc[a].reason = "FULFILLED" => alloc'[a] = alloc[a]

LEMMA SameGenealogy ==
  ASSUME GenealogyComplete, FulfilledKept, consumed' = consumed,
         \A l \in Lot : lot'[l].consumed = lot[l].consumed
  PROVE  GenealogyComplete'
<1> SUFFICES ASSUME NEW l \in Lot
             PROVE  /\ \A o \in Order : consumed'[o][l] = Total(FulfilledBy(o, l))'
                    /\ lot'[l].consumed = Total(FulfilledOn(l))'
  BY DEF GenealogyComplete, FulfilledOn
<1>1. \A o \in Order : FulfilledBy(o, l)' = FulfilledBy(o, l)
  BY DEF FulfilledBy, FulfilledKept
<1>2. FulfilledOn(l)' = FulfilledOn(l)
  BY <1>1 DEF FulfilledOn
<1>3. \A a \in FulfilledOn(l) : alloc'[a].quantity = alloc[a].quantity
  BY DEF FulfilledOn, FulfilledBy, FulfilledKept
<1>4. ASSUME NEW A \in SUBSET FulfilledOn(l)
      PROVE  Sum(A, alloc') = Sum(A, alloc)
  BY <1>3, SumKept
<1>5. ASSUME NEW o \in Order PROVE Total(FulfilledBy(o, l))' = Total(FulfilledBy(o, l))
  <2>1. FulfilledBy(o, l) \in SUBSET FulfilledOn(l)
    BY DEF FulfilledOn
  <2> QED
    BY <1>1, <1>4, <2>1 DEF Total, Pieces, Sum
<1>6. Total(FulfilledOn(l))' = Total(FulfilledOn(l))
  BY <1>2, <1>4 DEF Total, Pieces, Sum
<1> QED
  BY <1>5, <1>6 DEF GenealogyComplete, FulfilledOn

\* A step that changes no counter and no reservation keeps the books.
LEMMA SameBooks ==
  ASSUME Books, alloc' = alloc, consumed' = consumed,
         \A l \in Lot : lot'[l].reserved = lot[l].reserved /\ lot'[l].consumed = lot[l].consumed
  PROVE  Books'
<1>1. GenealogyComplete'
  BY SameGenealogy DEF Books, FulfilledKept
<1>2. ReservedMatchesAllocations'
  BY DEF Books, ReservedMatchesAllocations, Total, Pieces, ReservedOn, Active
<1> QED
  BY <1>1, <1>2 DEF Books, FulfilledIsClosed

\* cancel returns what the order had reserved.
LEMMA CancelBooks ==
  ASSUME AllocationsTyped, LotsTyped, Books, NEW o \in Order, Cancel(o) PROVE Books'
<1>1. alloc' = Closed(HeldBy(o), "CANCELLED") /\ lot' = ReservationsReturned(HeldBy(o))
      /\ consumed' = consumed
  BY DEF Cancel, CanCancel
<1>2. \A l \in Lot :
        /\ lot'[l].reserved = lot[l].reserved - Taken(o, l)
        /\ lot'[l].consumed = lot[l].consumed
  BY <1>1 DEF ReservationsReturned, Taken, LotsTyped, LotRow
<1>3. ReservedMatchesAllocations'
  BY <1>1, <1>2, ReservedAfterClosing DEF Books, ReservedMatchesAllocations
<1>4. \A a \in Allocation :
        /\ a \in HeldBy(o) => alloc'[a].status = "CLOSED" /\ alloc'[a].reason = "CANCELLED"
        /\ a \notin HeldBy(o) => alloc'[a] = alloc[a]
  BY <1>1 DEF Closed, AllocationsTyped, AllocationRow
<1>5. FulfilledKept /\ FulfilledIsClosed'
  BY <1>4 DEF FulfilledKept, FulfilledIsClosed, Books, HeldBy, Active
<1>6. GenealogyComplete'
  BY <1>1, <1>2, <1>5, SameGenealogy DEF Books
<1> QED
  BY <1>3, <1>5, <1>6 DEF Books

\* start consumes what the order had reserved.
LEMMA StartBooks ==
  ASSUME AllocationsTyped, LotsTyped, OrdersTyped, Books,
         NEW o \in Order, NEW i \in Route(o), Start(o, i)
  PROVE  Books'
<1>1. /\ alloc' = Closed(HeldBy(o), "FULFILLED") /\ lot' = MaterialsConsumed(o)
      /\ consumed' = [consumed EXCEPT ![o] = RelationsExtended(o)]
  BY DEF Start, CanStart
<1>2. \A l \in Lot :
        /\ lot'[l].reserved = lot[l].reserved - Taken(o, l)
        /\ lot'[l].consumed = lot[l].consumed + Taken(o, l)
  BY <1>1 DEF MaterialsConsumed, LotsTyped, LotRow
<1>3. ReservedMatchesAllocations'
  BY <1>1, <1>2, ReservedAfterClosing DEF Books, ReservedMatchesAllocations
<1>4. \A a \in Allocation :
        /\ a \in HeldBy(o) => /\ alloc'[a].status = "CLOSED" /\ alloc'[a].reason = "FULFILLED"
                              /\ alloc'[a].quantity = alloc[a].quantity
                              /\ alloc'[a].lot = alloc[a].lot /\ alloc'[a].order = alloc[a].order
        /\ a \notin HeldBy(o) => alloc'[a] = alloc[a]
  BY <1>1 DEF Closed, AllocationsTyped, AllocationRow
<1>5. FulfilledIsClosed'
  BY <1>4 DEF FulfilledIsClosed, Books
<1>6. GenealogyComplete'
  <2> SUFFICES ASSUME NEW l \in Lot
               PROVE  /\ \A p \in Order : consumed'[p][l] = Total(FulfilledBy(p, l))'
                      /\ lot'[l].consumed = Total(FulfilledOn(l))'
    BY DEF GenealogyComplete, FulfilledOn
  <2>1. /\ TakenFrom(o, l) \in SUBSET Allocation
        /\ FulfilledOn(l) \in SUBSET Allocation /\ FulfilledBy(o, l) \in SUBSET Allocation
        /\ FulfilledBy(o, l) \subseteq FulfilledOn(l)
    BY DEF TakenFrom, HeldBy, Active, FulfilledOn, FulfilledBy
  <2>2. FulfilledOn(l) \cap TakenFrom(o, l) = {}
    BY DEF Books, FulfilledIsClosed, FulfilledOn, FulfilledBy, TakenFrom, HeldBy, Active
  <2>3. /\ FulfilledBy(o, l)' = FulfilledBy(o, l) \cup TakenFrom(o, l)
        /\ \A p \in Order \ {o} : FulfilledBy(p, l)' = FulfilledBy(p, l)
    BY <1>4 DEF FulfilledBy, TakenFrom, HeldBy, Active, Books, FulfilledIsClosed
  <2>4. FulfilledOn(l)' = FulfilledOn(l) \cup TakenFrom(o, l)
    BY <2>3 DEF FulfilledOn
  <2>5. ASSUME NEW A \in SUBSET Allocation PROVE Sum(A, alloc') = Sum(A, alloc)
    BY <1>4, SumKept
  <2>6. Taken(o, l) = Sum(TakenFrom(o, l), alloc)
    BY TotalIsSum DEF Taken, TakenFrom
  <2>7. Total(FulfilledOn(l))' = Sum(FulfilledOn(l), alloc) + Taken(o, l)
    <3>1. Total(FulfilledOn(l))' = Sum(FulfilledOn(l) \cup TakenFrom(o, l), alloc')
      BY <2>4 DEF Total, Pieces, Sum
    <3>2. FulfilledOn(l) \cup TakenFrom(o, l) \in SUBSET Allocation
      BY <2>1
    <3> QED
      BY <2>1, <2>2, <2>5, <2>6, <3>1, <3>2, SumSplit
  <2>8. Total(FulfilledBy(o, l))' = Sum(FulfilledBy(o, l), alloc) + Taken(o, l)
    <3>1. Total(FulfilledBy(o, l))' = Sum(FulfilledBy(o, l) \cup TakenFrom(o, l), alloc')
      BY <2>3 DEF Total, Pieces, Sum
    <3>2. /\ FulfilledBy(o, l) \cup TakenFrom(o, l) \in SUBSET Allocation
          /\ FulfilledBy(o, l) \cap TakenFrom(o, l) = {}
      BY <2>1, <2>2
    <3> QED
      BY <2>1, <2>5, <2>6, <3>1, <3>2, SumSplit
  <2>9. ASSUME NEW p \in Order PROVE consumed'[p][l] = Total(FulfilledBy(p, l))'
    <3>1. CASE p = o
      <4>1. consumed'[o][l] = consumed[o][l] + Taken(o, l)
        BY <1>1 DEF OrdersTyped, RelationsExtended
      <4> QED
        BY <2>8, <3>1, <4>1, TotalIsSum DEF Books, GenealogyComplete
    <3>2. CASE p # o
      <4>1. consumed'[p][l] = consumed[p][l] /\ FulfilledBy(p, l)' = FulfilledBy(p, l)
        BY <1>1, <2>3, <3>2 DEF OrdersTyped
      <4>2. FulfilledBy(p, l) \in SUBSET Allocation
        BY DEF FulfilledBy
      <4>3. Total(FulfilledBy(p, l))' = Sum(FulfilledBy(p, l), alloc)
        BY <2>5, <4>1, <4>2 DEF Total, Pieces, Sum
      <4> QED
        BY <4>1, <4>3, TotalIsSum DEF Books, GenealogyComplete
    <3> QED
      BY <3>1, <3>2
  <2>10. lot'[l].consumed = Total(FulfilledOn(l))'
    BY <1>2, <2>7, TotalIsSum DEF Books, GenealogyComplete, FulfilledOn
  <2> QED
    BY <2>9, <2>10
<1> QED
  BY <1>3, <1>5, <1>6 DEF Books

\* reserve adds its quantity to the counter of the lot.
LEMMA ReserveBooks ==
  ASSUME AllocationsTyped, LotsTyped, Books, NEW o \in Order, NEW l \in Lot,
         NEW a \in Allocation, NEW quantity \in Nat \ {0}, Reserve(o, l, a, quantity)
  PROVE  Books'
<1>1. /\ lot' = [lot EXCEPT ![l].reserved = @ + quantity]
      /\ alloc' = [alloc EXCEPT ![a] = [status |-> "ACTIVE", order |-> o, lot |-> l,
                                       quantity |-> quantity, reason |-> "NONE"]]
      /\ alloc[a].status = "FREE" /\ consumed' = consumed
  BY DEF Reserve, CanReserve
<1>2. /\ alloc'[a].status = "ACTIVE" /\ alloc'[a].lot = l /\ alloc'[a].quantity = quantity
      /\ alloc'[a].reason = "NONE"
      /\ \A b \in Allocation \ {a} : alloc'[b] = alloc[b]
  BY <1>1 DEF AllocationsTyped
<1>3. FulfilledKept /\ FulfilledIsClosed'
  BY <1>1, <1>2 DEF FulfilledKept, FulfilledIsClosed, Books
<1>4. \A k \in Lot :
        /\ lot'[k].consumed = lot[k].consumed
        /\ lot'[k].reserved = IF k = l THEN lot[k].reserved + quantity ELSE lot[k].reserved
  BY <1>1 DEF LotsTyped, LotRow
<1>5. GenealogyComplete'
  BY <1>1, <1>3, <1>4, SameGenealogy DEF Books
<1>6. ASSUME NEW k \in Lot PROVE lot'[k].reserved = Total(ReservedOn(k))'
  <2>1. ReservedOn(k) \in SUBSET Allocation /\ a \notin ReservedOn(k)
    BY <1>1 DEF ReservedOn, Active
  <2>2. Sum(ReservedOn(k), alloc') = Sum(ReservedOn(k), alloc)
    BY <1>2, <2>1, SumKept
  <2>3. Sum(ReservedOn(k), alloc) = lot[k].reserved
    BY TotalIsSum DEF Books, ReservedMatchesAllocations
  <2>4. CASE k # l
    <3>1. ReservedOn(k)' = ReservedOn(k)
      BY <1>1, <1>2, <2>4 DEF ReservedOn, Active
    <3>2. Total(ReservedOn(k))' = Sum(ReservedOn(k), alloc')
      BY <3>1 DEF Total, Pieces, Sum
    <3> QED
      BY <1>4, <2>2, <2>3, <2>4, <3>2
  <2>5. CASE k = l
    <3>1. ReservedOn(k)' = ReservedOn(k) \cup {a}
      BY <1>1, <1>2, <2>5 DEF ReservedOn, Active
    <3>2. Total(ReservedOn(k))' = Sum(ReservedOn(k) \cup {a}, alloc')
      BY <3>1 DEF Total, Pieces, Sum
    <3>3. Sum(ReservedOn(k) \cup {a}, alloc') = Sum(ReservedOn(k), alloc) + quantity
      BY <1>2, <2>1, SumExtended
    <3> QED
      BY <1>4, <2>3, <2>5, <3>2, <3>3
  <2> QED
    BY <2>4, <2>5
<1> QED
  BY <1>3, <1>5, <1>6 DEF Books, ReservedMatchesAllocations

\* Dissolving a reservation takes its quantity off the counter of the lot.
LEMMA ReleaseReservationBooks ==
  ASSUME AllocationsTyped, LotsTyped, Books, NEW a \in Allocation, ReleaseReservation(a)
  PROVE  Books'
<1>1. /\ lot' = [lot EXCEPT ![alloc[a].lot].reserved = @ - alloc[a].quantity]
      /\ alloc' = [alloc EXCEPT ![a].status = "CLOSED", ![a].reason = "RELEASED"]
      /\ alloc[a].status = "ACTIVE" /\ consumed' = consumed
  BY DEF ReleaseReservation, CanDissolve, ReservationDissolved
<1>2. /\ alloc'[a].status = "CLOSED" /\ alloc'[a].reason = "RELEASED"
      /\ \A b \in Allocation \ {a} : alloc'[b] = alloc[b]
  BY <1>1 DEF AllocationsTyped, AllocationRow
<1>3. FulfilledKept /\ FulfilledIsClosed'
  BY <1>1, <1>2 DEF FulfilledKept, FulfilledIsClosed, Books
<1>4. PICK l \in Lot : l = alloc[a].lot
  BY <1>1 DEF AllocationsTyped, Active
<1>5. \A k \in Lot :
        /\ lot'[k].consumed = lot[k].consumed
        /\ lot'[k].reserved = IF k = l THEN lot[k].reserved - alloc[a].quantity
                              ELSE lot[k].reserved
  BY <1>1, <1>4 DEF LotsTyped, LotRow
<1>6. GenealogyComplete'
  BY <1>1, <1>3, <1>5, SameGenealogy DEF Books
<1>7. ASSUME NEW k \in Lot PROVE lot'[k].reserved = Total(ReservedOn(k))'
  <2> DEFINE rest == ReservedOn(k) \ {a}
  <2>1. ReservedOn(k)' = rest /\ rest \in SUBSET Allocation
    BY <1>2 DEF ReservedOn, Active
  <2>2. Total(ReservedOn(k))' = Sum(rest, alloc')
    BY <2>1 DEF Total, Pieces, Sum
  <2>3. Sum(rest, alloc') = Sum(rest, alloc)
    BY <1>2, <2>1, SumKept
  <2>4. Sum(ReservedOn(k), alloc) = lot[k].reserved
    BY TotalIsSum DEF Books, ReservedMatchesAllocations
  <2>5. CASE k # l
    <3>1. rest = ReservedOn(k)
      BY <1>4, <2>5 DEF ReservedOn
    <3> QED
      BY <1>5, <2>2, <2>3, <2>4, <2>5, <3>1
  <2>6. CASE k = l
    <3>1. /\ rest \cup {a} = ReservedOn(k) /\ rest \cap {a} = {}
          /\ {a} \in SUBSET Allocation
      BY <1>1, <1>4, <2>6 DEF ReservedOn, Active
    <3>2. alloc[a].quantity \in Nat
      BY DEF AllocationsTyped, AllocationRow
    <3> HIDE DEF rest
    <3>3. /\ Sum(ReservedOn(k), alloc) = Sum(rest, alloc) + Sum({a}, alloc)
          /\ Sum(rest, alloc) \in Nat
      BY <2>1, <3>1, SumSplit, SumType
    <3>4. Sum({a}, alloc) = alloc[a].quantity
      BY <3>2, SumSingle
    <3> QED
      BY <1>5, <2>2, <2>3, <2>4, <2>6, <3>2, <3>3, <3>4
  <2> QED
    BY <2>5, <2>6
<1> QED
  BY <1>3, <1>6, <1>7 DEF Books, ReservedMatchesAllocations

\* The statements of the quality requests move neither counter.
LEMMA InspectorStepBooks ==
  ASSUME TypeOK, Books, NEW q \in Inspector, InspectorStep(q) PROVE Books'
<1> USE TypeParts
<1>1. alloc' = alloc /\ consumed' = consumed
  BY DEF InspectorStep, DecideRead, DecideCount, DecideUpdate, RegisterRead, QuarantineUpdate,
         CountIncidents, RegisterCommit, Rollback, productionVars, inventoryVars
<1>2. ASSUME NEW l \in Lot
      PROVE  lot'[l].reserved = lot[l].reserved /\ lot'[l].consumed = lot[l].consumed
  <2>1. lot[l] \in LotRow
    BY DEF LotsTyped
  <2>2. CASE lot' = lot
    BY <2>2
  <2>3. CASE DecideUpdate(q)
    BY <2>1, <2>3 DEF DecideUpdate, Decided, LotsTyped, LotRow
  <2>4. CASE RegisterCommit(q)
    BY <2>1, <2>4 DEF RegisterCommit, LotsTyped, LotRow
  <2> QED
    BY <2>2, <2>3, <2>4
       DEF InspectorStep, DecideRead, DecideCount, RegisterRead, QuarantineUpdate,
           CountIncidents, Rollback, inventoryVars
<1> QED
  BY <1>1, <1>2, SameBooks

LEMMA InitBooks == Init => Books
<1> SUFFICES ASSUME Init PROVE Books
  OBVIOUS
<1>1. \A a \in Allocation : alloc[a].reason = "NONE"
  BY DEF Init, SeedAllocation, FreeRow
<1>2. FulfilledIsClosed
  BY <1>1 DEF FulfilledIsClosed
<1>3. ReservedMatchesAllocations
  BY DEF Init, SeedLot, ReservedMatchesAllocations
<1>4. ASSUME NEW l \in Lot
      PROVE  /\ \A o \in Order : FulfilledBy(o, l) = {}
             /\ UNION {FulfilledBy(o, l) : o \in Order} = {}
             /\ \A o \in Order : consumed[o][l] = 0
             /\ lot[l].consumed = 0
  <2>1. \A o \in Order : FulfilledBy(o, l) = {} /\ consumed[o][l] = 0
    BY <1>1 DEF FulfilledBy, Init
  <2>2. lot[l].consumed = 0
    BY DEF Init, SeedLot
  <2> QED
    BY <2>1, <2>2
<1>5. Total({}) = 0
  BY TotalIsSum, SumEmpty
<1> QED
  BY <1>2, <1>3, <1>4, <1>5 DEF Books, GenealogyComplete

LEMMA NextBooks == TypeOK /\ Books /\ [Next]_vars => Books'
<1> SUFFICES ASSUME TypeOK, Books, [Next]_vars PROVE Books'
  OBVIOUS
<1> USE TypeParts
<1>1. ASSUME NEW o \in Order, OrderStep(o) PROVE Books'
  <2>1. CASE UNCHANGED <<lot, alloc, consumed>>
    BY <2>1, SameBooks
  <2> QED
    BY <1>1, <2>1, OrderStepCases, CancelBooks, StartBooks, ReserveBooks
       DEF Release, CanRelease, Complete, CanComplete, Verdict, CanDecide, Review,
           CanReview, inventoryVars
<1>2. ASSUME NEW a \in Allocation, ReleaseReservation(a) PROVE Books'
  BY <1>2, ReleaseReservationBooks
<1>3. ASSUME NEW l \in Lot, Expire(l) PROVE Books'
  <2>1. alloc' = alloc /\ consumed' = consumed
    BY <1>3 DEF Expire, productionVars
  <2>2. \A k \in Lot : lot'[k].reserved = lot[k].reserved /\ lot'[k].consumed = lot[k].consumed
    BY <1>3 DEF Expire, LotsTyped, LotRow
  <2> QED
    BY <2>1, <2>2, SameBooks
<1>4. ASSUME NEW o \in Order, DueDatePasses(o) PROVE Books'
  BY <1>4, DueDateKeepsRows, SameBooks
<1>5. CASE UNCHANGED vars
  BY <1>5, SameBooks DEF vars
<1> QED
  BY <1>1, <1>2, <1>3, <1>4, <1>5, InspectorStepBooks DEF Next

\* The books, for every interleaving of commands.
THEOREM BooksHold == Spec => []Books
<1>1. TypeInvariant => TypeOK
  BY DEF TypeInvariant
<1> QED
  BY <1>1, InitBooks, NextBooks, TypeInvariantHolds, PTL DEF Spec

(***************************************************************************)
(* The reserved counter of a lot is the sum of its active reservations,    *)
(* whatever reserves, dissolves, cancels and starts are interleaved with   *)
(* each other and with the statements of quality requests.                 *)
(***************************************************************************)
THEOREM ReservedIsSum == Spec => []ReservedMatchesAllocations
BY BooksHold, PTL DEF Books

(***************************************************************************)
(* RULE-06: the CONSUME relations and the consumed counter of a lot carry  *)
(* exactly the reservations start fulfilled from it.                       *)
(***************************************************************************)
THEOREM GenealogyIsComplete == Spec => []GenealogyComplete
BY BooksHold, PTL DEF Books

-----------------------------------------------------------------------------
(* WHAT IS CONSUMED *)

\* What start takes from a lot, it takes from a usable lot.
LEMMA TakenIsUsable ==
  ASSUME AllocationsTyped, NEW o \in Order, NEW l \in Lot, MaterialsConsumable(o),
         Taken(o, l) # 0
  PROVE  Usable(l)
<1>1. CASE TakenFrom(o, l) = {}
  BY <1>1, SumEmpty, TotalIsSum DEF Taken, TakenFrom
<1>2. CASE TakenFrom(o, l) # {}
  BY <1>2 DEF TakenFrom, MaterialsConsumable
<1> QED
  BY <1>1, <1>2

\* One step raises the consumed counter of usable lots only.
LEMMA NextConsumesUsable ==
  ASSUME TypeOK, [Next]_vars, NEW l \in Lot, lot'[l].consumed > lot[l].consumed
  PROVE  Usable(l)
<1> USE TypeParts
<1>1. lot[l] \in LotRow
  BY DEF LotsTyped
<1>2. ~ (lot'[l].consumed = lot[l].consumed)
  BY <1>1 DEF LotRow
<1>3. ASSUME NEW o \in Order, OrderStep(o) PROVE Usable(l)
  <2>1. ASSUME NEW i \in Route(o), Start(o, i) PROVE Usable(l)
    <3>1. lot'[l].consumed = lot[l].consumed + Taken(o, l) /\ MaterialsConsumable(o)
      BY <2>1 DEF Start, CanStart, MaterialsConsumed, LotsTyped, LotRow
    <3>2. Taken(o, l) # 0
      BY <1>1, <1>2, <3>1 DEF LotRow
    <3> QED
      BY <3>1, <3>2, TakenIsUsable
  <2>2. CASE UNCHANGED lot
    BY <1>2, <2>2
  <2>3. CASE Cancel(o)
    BY <1>2, <2>3 DEF Cancel, CanCancel, ReservationsReturned, LotsTyped, LotRow
  <2>4. ASSUME NEW k \in Lot, NEW a \in Allocation, NEW quantity \in Nat,
               Reserve(o, k, a, quantity)
        PROVE  Usable(l)
    BY <1>2, <2>4 DEF Reserve, CanReserve, LotsTyped, LotRow
  <2> QED
    BY <1>3, <2>1, <2>2, <2>3, <2>4, OrderStepCases
       DEF Release, CanRelease, Complete, CanComplete, Verdict, CanDecide, Review,
           CanReview, inventoryVars
<1>4. ASSUME NEW a \in Allocation, ReleaseReservation(a) PROVE Usable(l)
  BY <1>2, <1>4 DEF ReleaseReservation, CanDissolve, ReservationDissolved, LotsTyped,
                    LotRow
<1>5. ASSUME NEW q \in Inspector, InspectorStep(q) PROVE Usable(l)
  <2>1. CASE lot' = lot
    BY <1>2, <2>1
  <2>2. CASE DecideUpdate(q)
    BY <1>1, <1>2, <2>2 DEF DecideUpdate, Decided, LotsTyped, LotRow
  <2>3. CASE RegisterCommit(q)
    BY <1>2, <2>3 DEF RegisterCommit, LotsTyped, LotRow
  <2> QED
    BY <1>5, <2>1, <2>2, <2>3
       DEF InspectorStep, DecideRead, DecideCount, RegisterRead, QuarantineUpdate,
           CountIncidents, Rollback, inventoryVars
<1>6. ASSUME NEW k \in Lot, Expire(k) PROVE Usable(l)
  BY <1>2, <1>6 DEF Expire, LotsTyped, LotRow
<1>7. ASSUME NEW o \in Order, DueDatePasses(o) PROVE Usable(l)
  BY <1>2, <1>7, DueDateKeepsRows
<1>8. CASE UNCHANGED vars
  BY <1>2, <1>8 DEF vars
<1> QED
  BY <1>3, <1>4, <1>5, <1>6, <1>7, <1>8 DEF Next

(***************************************************************************)
(* RULE-03: whatever quality decides and whatever expires between a        *)
(* reservation and the start of its order, start consumes usable lots only *)
(* (the re-check of every lot in process-commands.service.ts).             *)
(***************************************************************************)
THEOREM OnlyUsableConsumed == Spec => OnlyUsableMaterialConsumed
<1>1. TypeOK /\ [Next]_vars =>
        [\A l \in Lot : lot'[l].consumed > lot[l].consumed => Usable(l)]_vars
  BY NextConsumesUsable
<1> QED
  BY <1>1, TypeCorrect, PTL DEF Spec, OnlyUsableMaterialConsumed

-----------------------------------------------------------------------------
(* QUARANTINE *)

\* What a decision in progress is about to write is never a quarantine.
NoDecidedQuarantine ==
  \A q \in Inspector : session[q].target # "QUARANTINED"

LEMMA InitDecided == Init => NoDecidedQuarantine
BY DEF Init, IdleSession, NoDecidedQuarantine

LEMMA NextDecided == TypeOK /\ NoDecidedQuarantine /\ [Next]_vars => NoDecidedQuarantine'
<1> SUFFICES ASSUME TypeOK, NoDecidedQuarantine, [Next]_vars PROVE NoDecidedQuarantine'
  OBVIOUS
<1>1. session \in [Inspector -> SessionRow]
  BY DEF TypeOK
<1>2. CASE session' = session
  BY <1>2 DEF NoDecidedQuarantine
<1>3. ASSUME NEW q \in Inspector, InspectorStep(q) PROVE NoDecidedQuarantine'
  <2>1. CASE Finish(q)
    BY <1>1, <2>1 DEF Finish, IdleSession, NoDecidedQuarantine
  <2>2. ASSUME NEW l \in Lot, NEW target \in {"ACCEPTED", "HOLD", "REJECTED"},
               DecideRead(q, l, target)
        PROVE  NoDecidedQuarantine'
    BY <1>1, <2>2 DEF DecideRead, IdleSession, NoDecidedQuarantine
  <2>3. CASE DecideCount(q)
    BY <1>1, <2>1, <2>3 DEF DecideCount, Advance, SessionRow, NoDecidedQuarantine
  <2>4. ASSUME NEW l \in Lot, RegisterRead(q, l) PROVE NoDecidedQuarantine'
    BY <1>1, <2>4 DEF RegisterRead, IdleSession, NoDecidedQuarantine
  <2>5. CASE QuarantineUpdate(q)
    BY <1>1, <2>5 DEF QuarantineUpdate, SessionRow, NoDecidedQuarantine
  <2>6. CASE CountIncidents(q)
    BY <1>1, <2>6 DEF CountIncidents, SessionRow, NoDecidedQuarantine
  <2> QED
    BY <1>3, <2>1, <2>2, <2>3, <2>4, <2>5, <2>6
       DEF InspectorStep, DecideUpdate, RegisterCommit, Rollback
<1>4. ASSUME NEW o \in Order, OrderStep(o) PROVE session' = session
  BY <1>4, OrderStepCases
     DEF Release, CanRelease, Cancel, CanCancel, Reserve, CanReserve, Start, CanStart,
         Complete, CanComplete, Verdict, CanDecide, Review, CanReview, qualityVars
<1>5. ASSUME NEW a \in Allocation, ReleaseReservation(a) PROVE session' = session
  BY <1>5 DEF ReleaseReservation, CanDissolve, qualityVars
<1>6. ASSUME NEW l \in Lot, Expire(l) PROVE session' = session
  BY <1>6 DEF Expire, qualityVars
<1> QED
  BY <1>2, <1>3, <1>4, <1>5, <1>6, DueDateKeepsRows DEF Next, vars

\* One step quarantines a lot only together with a new incident.
LEMMA NextQuarantine ==
  ASSUME TypeOK, NoDecidedQuarantine, [Next]_vars, NEW l \in Lot,
         lot'[l].disposition = "QUARANTINED", lot[l].disposition # "QUARANTINED"
  PROVE  Cardinality(incidents') = Cardinality(incidents) + 1
<1> USE TypeParts
<1> DEFINE Goal == Cardinality(incidents') = Cardinality(incidents) + 1
<1>1. ~ (lot'[l].disposition = lot[l].disposition)
  OBVIOUS
<1>2. ASSUME NEW o \in Order, OrderStep(o) PROVE Goal
  <2>1. CASE UNCHANGED lot
    BY <1>1, <2>1
  <2>2. CASE Cancel(o)
    BY <1>1, <2>2 DEF Cancel, CanCancel, ReservationsReturned, LotsTyped, LotRow
  <2>3. ASSUME NEW k \in Lot, NEW a \in Allocation, NEW quantity \in Nat,
               Reserve(o, k, a, quantity)
        PROVE  Goal
    BY <1>1, <2>3 DEF Reserve, CanReserve, LotsTyped, LotRow
  <2>4. ASSUME NEW i \in Route(o), Start(o, i) PROVE Goal
    BY <1>1, <2>4 DEF Start, CanStart, MaterialsConsumed, LotsTyped, LotRow
  <2> QED
    BY <1>2, <2>1, <2>2, <2>3, <2>4, OrderStepCases
       DEF Release, CanRelease, Complete, CanComplete, Verdict, CanDecide, Review,
           CanReview, inventoryVars
<1>3. ASSUME NEW a \in Allocation, ReleaseReservation(a) PROVE Goal
  BY <1>1, <1>3 DEF ReleaseReservation, CanDissolve, ReservationDissolved, LotsTyped,
                    LotRow
<1>4. ASSUME NEW q \in Inspector, InspectorStep(q) PROVE Goal
  <2>1. CASE lot' = lot
    BY <1>1, <2>1
  <2>2. CASE DecideUpdate(q)
    <3>1. session[q].target # "QUARANTINED"
      BY DEF NoDecidedQuarantine
    <3> QED
      BY <1>1, <2>2, <3>1 DEF DecideUpdate, Decided, LotsTyped, LotRow
  <2>3. CASE RegisterCommit(q)
    <3> DEFINE number == session[q].counted + 1
    <3>1. number \notin incidents /\ incidents' = incidents \cup {number}
      BY <2>3 DEF RegisterCommit, NumberFree
    <3>2. IsFiniteSet(incidents)
      BY DEF TypeOK
    <3> HIDE DEF number
    <3> QED
      BY <3>1, <3>2, FS_AddElement
  <2> QED
    BY <1>4, <2>1, <2>2, <2>3
       DEF InspectorStep, DecideRead, DecideCount, RegisterRead, QuarantineUpdate,
           CountIncidents, Rollback, inventoryVars
<1>5. ASSUME NEW k \in Lot, Expire(k) PROVE Goal
  BY <1>1, <1>5 DEF Expire, LotsTyped, LotRow
<1>6. ASSUME NEW o \in Order, DueDatePasses(o) PROVE Goal
  BY <1>1, <1>6, DueDateKeepsRows
<1>7. CASE UNCHANGED vars
  BY <1>1, <1>7 DEF vars
<1> QED
  BY <1>2, <1>3, <1>4, <1>5, <1>6, <1>7 DEF Next

(***************************************************************************)
(* No lot is quarantined without the incident that justifies it, although  *)
(* the quarantine is written before the number of the incident is counted  *)
(* and the unique index may refuse that number (register in                *)
(* quality-incidents.service.ts).                                          *)
(***************************************************************************)
THEOREM QuarantineIsExplained == Spec => QuarantineHasIncident
<1>1. TypeOK /\ NoDecidedQuarantine /\ [Next]_vars =>
        [\A l \in Lot :
           lot'[l].disposition = "QUARANTINED" /\ lot[l].disposition # "QUARANTINED" =>
             Cardinality(incidents') = Cardinality(incidents) + 1]_vars
  BY NextQuarantine
<1> QED
  BY <1>1, InitDecided, NextDecided, TypeCorrect, PTL DEF Spec, QuarantineHasIncident

-----------------------------------------------------------------------------
(* THE STOCK OF A LOT *)

\* The quality requests on a lot are handled one after the other.
OneRequestPerLot ==
  \A q, r \in Inspector :
    /\ session[q].pc # "idle" /\ session[r].pc # "idle"
    /\ session[q].lot = session[r].lot
    => q = r

\* The stock columns that only starts and rejections write.
SameStock(l) ==
  /\ lot'[l].onHand = lot[l].onHand
  /\ lot'[l].consumed = lot[l].consumed
  /\ lot'[l].scrapped = lot[l].scrapped

\* A command dissolves promises of the lot, or does not write its row.
Loosened(l) ==
  /\ SameStock(l) /\ lot'[l].disposition = lot[l].disposition
  /\ ReservedOn(l)' \subseteq ReservedOn(l)
  /\ lot'[l].reserved <= lot[l].reserved

\* reserve promises a part of what is available.
Promised(l) ==
  /\ Usable(l)
  /\ SameStock(l) /\ lot'[l].disposition = lot[l].disposition
  /\ lot'[l].reserved <= lot[l].onHand

\* start builds promised pieces into a product.
Built(l, pieces) ==
  /\ Usable(l)
  /\ lot'[l].disposition = lot[l].disposition
  /\ pieces <= lot[l].onHand
  /\ lot'[l].onHand = lot[l].onHand - pieces
  /\ lot'[l].reserved = lot[l].reserved - pieces
  /\ lot'[l].consumed = lot[l].consumed + pieces
  /\ lot'[l].scrapped = lot[l].scrapped

\* A quality request writes its decision or its quarantine.
JudgedBy(q, l) ==
  /\ session[q].lot = l /\ Finish(q)
  /\ alloc' = alloc /\ lot'[l].reserved = lot[l].reserved
  /\ lot'[l].consumed = lot[l].consumed
  /\ \/ /\ session[q].pc = "deciding"
        /\ lot'[l] = Decided(lot[l], session[q].target, session[q].seenOnHand)
     \/ /\ session[q].pc = "inserting"
        /\ SameStock(l) /\ lot'[l].disposition = "QUARANTINED"

\* What one step may do to a lot.
LotMoves(l) ==
  \/ Loosened(l)
  \/ Promised(l)
  \/ \E pieces \in Nat : Built(l, pieces)
  \/ \E q \in Inspector : JudgedBy(q, l)

\* Where neither the row nor the reservations change, nothing moves.
LEMMA NothingMoves ==
  ASSUME LotsTyped, NEW l \in Lot, lot'[l] = lot[l], ReservedOn(l)' \subseteq ReservedOn(l)
  PROVE  Loosened(l)
BY DEF LotsTyped, LotRow, Loosened, SameStock

\* cancel and start close the reservations of their order.
LEMMA ClosingLoosens ==
  ASSUME AllocationsTyped, NEW o \in Order, NEW reason, alloc' = Closed(HeldBy(o), reason),
         NEW l \in Lot
  PROVE  ReservedOn(l)' \subseteq ReservedOn(l) /\ Taken(o, l) \in Nat
<1>1. \A a \in Allocation :
        a \in HeldBy(o) \/ alloc'[a] = alloc[a]
  BY DEF Closed
<1>2. \A a \in HeldBy(o) : alloc'[a].status = "CLOSED"
  BY DEF Closed, HeldBy, Active, AllocationsTyped, AllocationRow
<1>3. {a \in HeldBy(o) : alloc[a].lot = l} \in SUBSET Allocation
  BY DEF HeldBy, Active
<1> QED
  BY <1>1, <1>2, <1>3, TotalType DEF ReservedOn, Active, Taken

\* What the commands on an order do to a lot.
LEMMA OrderStepMoves ==
  ASSUME TypeOK, NEW o \in Order, OrderStep(o), NEW l \in Lot
  PROVE  LotMoves(l)
<1> USE TypeParts
<1>1. lot[l] \in LotRow
  BY DEF LotsTyped
<1>2. CASE UNCHANGED <<lot, alloc>>
  BY <1>2, NothingMoves DEF LotMoves, ReservedOn, Active
<1>3. CASE Cancel(o)
  <2>1. /\ lot' = ReservationsReturned(HeldBy(o))
        /\ alloc' = Closed(HeldBy(o), "CANCELLED")
    BY <1>3 DEF Cancel, CanCancel
  <2>2. ReservedOn(l)' \subseteq ReservedOn(l) /\ Taken(o, l) \in Nat
    BY <2>1, ClosingLoosens
  <2>3. lot'[l] = [lot[l] EXCEPT !.reserved = @ - Taken(o, l)]
    BY <2>1 DEF ReservationsReturned, Taken
  <2> QED
    BY <1>1, <2>2, <2>3 DEF LotMoves, Loosened, SameStock, LotRow
<1>4. ASSUME NEW k \in Lot, NEW a \in Allocation, NEW quantity \in Nat \ {0},
             Reserve(o, k, a, quantity)
      PROVE  LotMoves(l)
  <2>1. /\ lot' = [lot EXCEPT ![k].reserved = @ + quantity]
        /\ \A b \in Allocation \ {a} : alloc'[b] = alloc[b]
        /\ alloc'[a].lot = k
        /\ Usable(k) /\ quantity <= Available(k)
    BY <1>4 DEF Reserve, CanReserve, AllocationsTyped
  <2>2. CASE l # k
    <3>1. lot'[l] = lot[l] /\ ReservedOn(l)' \subseteq ReservedOn(l)
      BY <2>1, <2>2 DEF LotsTyped, ReservedOn, Active
    <3> QED
      BY <3>1, NothingMoves DEF LotMoves
  <2>3. CASE l = k
    <3>1. lot'[l] = [lot[l] EXCEPT !.reserved = @ + quantity]
      BY <2>1, <2>3 DEF LotsTyped
    <3>2. lot[l].reserved + quantity <= lot[l].onHand
      BY <1>1, <2>1, <2>3 DEF Available, LotRow
    <3> QED
      BY <1>1, <2>1, <2>3, <3>1, <3>2 DEF LotMoves, Promised, SameStock, LotRow
  <2> QED
    BY <2>2, <2>3
<1>5. ASSUME NEW i \in Route(o), Start(o, i) PROVE LotMoves(l)
  <2>1. /\ lot' = MaterialsConsumed(o) /\ alloc' = Closed(HeldBy(o), "FULFILLED")
        /\ MaterialsConsumable(o)
    BY <1>5 DEF Start, CanStart
  <2>2. ReservedOn(l)' \subseteq ReservedOn(l) /\ Taken(o, l) \in Nat
    BY <2>1, ClosingLoosens
  <2>3. lot'[l] = [lot[l] EXCEPT !.reserved = @ - Taken(o, l), !.onHand = @ - Taken(o, l),
                                 !.consumed = @ + Taken(o, l)]
    BY <2>1 DEF MaterialsConsumed
  <2>4. CASE Taken(o, l) = 0
    BY <1>1, <2>2, <2>3, <2>4 DEF LotMoves, Loosened, SameStock, LotRow
  <2>5. CASE Taken(o, l) # 0
    <3>1. TakenFrom(o, l) # {}
      BY <2>5, SumEmpty, TotalIsSum DEF Taken, TakenFrom
    <3>2. Usable(l) /\ lot[l].onHand >= Taken(o, l)
      BY <2>1, <3>1 DEF MaterialsConsumable, TakenFrom
    <3>3. Built(l, Taken(o, l))
      BY <1>1, <2>2, <2>3, <3>2 DEF Built, LotRow
    <3> QED
      BY <2>2, <3>3 DEF LotMoves
  <2> QED
    BY <2>4, <2>5
<1> QED
  BY <1>2, <1>3, <1>4, <1>5, OrderStepCases
     DEF Release, CanRelease, Complete, CanComplete, Verdict, CanDecide, Review,
         CanReview, inventoryVars

\* What the other steps do to a lot.
LEMMA NextMoves ==
  ASSUME TypeOK, [Next]_vars, NEW l \in Lot PROVE LotMoves(l)
<1> USE TypeParts
<1>1. lot[l] \in LotRow
  BY DEF LotsTyped
<1>2. ASSUME NEW a \in Allocation, ReleaseReservation(a) PROVE LotMoves(l)
  <2>1. /\ lot' = [lot EXCEPT ![alloc[a].lot].reserved = @ - alloc[a].quantity]
        /\ alloc' = [alloc EXCEPT ![a].status = "CLOSED", ![a].reason = "RELEASED"]
        /\ alloc[a].status = "ACTIVE" /\ alloc[a].quantity \in Nat
    BY <1>2 DEF ReleaseReservation, CanDissolve, ReservationDissolved,
                AllocationsTyped, AllocationRow
  <2>2. ReservedOn(l)' \subseteq ReservedOn(l)
    <3>1. \A b \in Allocation : b # a => alloc'[b] = alloc[b]
      BY <2>1 DEF AllocationsTyped
    <3>2. alloc'[a].status = "CLOSED"
      BY <2>1 DEF AllocationsTyped, AllocationRow
    <3> QED
      BY <3>1, <3>2 DEF ReservedOn, Active
  <2>3. lot'[l] = IF l = alloc[a].lot THEN [lot[l] EXCEPT !.reserved = @ - alloc[a].quantity]
                  ELSE lot[l]
    BY <2>1 DEF LotsTyped
  <2> QED
    BY <1>1, <2>1, <2>2, <2>3 DEF LotMoves, Loosened, SameStock, LotRow
<1>3. ASSUME NEW q \in Inspector, InspectorStep(q) PROVE LotMoves(l)
  <2>1. CASE UNCHANGED <<lot, alloc>>
    BY <2>1, NothingMoves DEF LotMoves, ReservedOn, Active
  <2>2. CASE DecideUpdate(q)
    <3>1. /\ alloc' = alloc /\ session[q].pc = "deciding" /\ Finish(q)
          /\ lot'[l] = IF l = session[q].lot
                       THEN Decided(lot[l], session[q].target, session[q].seenOnHand)
                       ELSE lot[l]
      BY <2>2 DEF DecideUpdate, LotsTyped
    <3>2. CASE l = session[q].lot
      <4>1. lot'[l].reserved = lot[l].reserved /\ lot'[l].consumed = lot[l].consumed
        BY <1>1, <3>1, <3>2 DEF Decided, LotRow
      <4> QED
        BY <3>1, <3>2, <4>1 DEF LotMoves, JudgedBy
    <3>3. CASE l # session[q].lot
      BY <3>1, <3>3, NothingMoves DEF LotMoves, ReservedOn, Active
    <3> QED
      BY <3>2, <3>3
  <2>3. CASE RegisterCommit(q)
    <3>1. /\ alloc' = alloc /\ session[q].pc = "inserting" /\ Finish(q)
          /\ \/ lot'[l] = lot[l]
             \/ /\ l = session[q].lot
                /\ lot'[l] = [lot[l] EXCEPT !.disposition = "QUARANTINED"]
      BY <2>3 DEF RegisterCommit, LotsTyped
    <3>2. CASE lot'[l] = lot[l]
      BY <3>1, <3>2, NothingMoves DEF LotMoves, ReservedOn, Active
    <3>3. CASE l = session[q].lot /\ lot'[l] = [lot[l] EXCEPT !.disposition = "QUARANTINED"]
      BY <1>1, <3>1, <3>3 DEF LotMoves, JudgedBy, SameStock, LotRow
    <3> QED
      BY <3>1, <3>2, <3>3
  <2> QED
    BY <1>3, <2>1, <2>2, <2>3
       DEF InspectorStep, DecideRead, DecideCount, RegisterRead, QuarantineUpdate,
           CountIncidents, Rollback, inventoryVars
<1>4. ASSUME NEW k \in Lot, Expire(k) PROVE LotMoves(l)
  <2>1. /\ alloc' = alloc
        /\ lot'[l] = IF l = k THEN [lot[l] EXCEPT !.expired = TRUE] ELSE lot[l]
    BY <1>4 DEF Expire, LotsTyped
  <2>2. ReservedOn(l)' = ReservedOn(l)
    BY <2>1 DEF ReservedOn, Active
  <2> QED
    BY <1>1, <2>1, <2>2 DEF LotMoves, Loosened, SameStock, LotRow
<1>5. CASE UNCHANGED <<lot, alloc>>
  BY <1>5, NothingMoves DEF LotMoves, ReservedOn, Active
<1> QED
  BY <1>2, <1>3, <1>4, <1>5, OrderStepMoves, DueDateKeepsRows DEF Next, vars

(***************************************************************************)
(* What a quality request has read still holds when it writes: between a   *)
(* request's read and its commit nothing moves a lot that is not accepted, *)
(* unless another quality request on the lot runs at the same time.        *)
(***************************************************************************)
RequestFresh(q) ==
  LET s == session[q] IN
  /\ s.pc # "idle" => s.lot \in Lot /\ lot[s.lot].disposition # "REJECTED"
  /\ s.pc \in {"counting", "deciding"} =>
       /\ lot[s.lot].disposition # "ACCEPTED"
       /\ s.target = "REJECTED" => s.seenOnHand = lot[s.lot].onHand
  /\ s.pc = "deciding" /\ s.target = "REJECTED" => ReservedOn(s.lot) = {}

\* What a step keeps of a lot that is not accepted.
LEMMA UnacceptedRests ==
  ASSUME NEW l \in Lot, LotMoves(l), lot[l].disposition # "ACCEPTED",
         \A q \in Inspector : ~ JudgedBy(q, l)
  PROVE  Loosened(l)
BY DEF LotMoves, Promised, Built, Usable

\* What a step keeps of the disposition when no quality request writes.
LEMMA DispositionRests ==
  ASSUME NEW l \in Lot, LotMoves(l), \A q \in Inspector : ~ JudgedBy(q, l)
  PROVE  lot'[l].disposition = lot[l].disposition
BY DEF LotMoves, Loosened, Promised, Built

\* A request that waits stays fresh.
LEMMA WaitingStaysFresh ==
  ASSUME TypeOK, OneRequestPerLot, NEW q \in Inspector, RequestFresh(q),
         session'[q] = session[q], \A l \in Lot : LotMoves(l)
  PROVE  RequestFresh(q)'
<1>1. CASE session[q].pc = "idle"
  BY <1>1 DEF RequestFresh
<1>2. CASE session[q].pc # "idle"
  <2> PICK l \in Lot : l = session[q].lot
    BY <1>2 DEF RequestFresh
  <2>1. lot[l].disposition # "REJECTED"
    BY <1>2 DEF RequestFresh
  <2>2. ASSUME NEW r \in Inspector, JudgedBy(r, l) PROVE FALSE
    <3>1. session[r].pc # "idle" /\ session[r].lot = session[q].lot
      BY <2>2 DEF JudgedBy
    <3>2. r = q
      BY <1>2, <3>1 DEF OneRequestPerLot
    <3>3. session'[q] = IdleSession
      BY <2>2, <3>2, TypeParts DEF JudgedBy, Finish, SessionsTyped
    <3> QED
      BY <1>2, <3>3 DEF IdleSession
  <2>3. lot'[l].disposition = lot[l].disposition
    BY <2>1, <2>2, DispositionRests
  <2>4. lot[l].disposition # "ACCEPTED" => Loosened(l)
    BY <2>1, <2>2, UnacceptedRests
  <2>5. session[q].pc \in {"counting", "deciding"} =>
          /\ lot[l].disposition # "ACCEPTED"
          /\ session[q].target = "REJECTED" => session[q].seenOnHand = lot[l].onHand
    BY DEF RequestFresh
  <2>6. session[q].pc = "deciding" /\ session[q].target = "REJECTED" => ReservedOn(l) = {}
    BY DEF RequestFresh
  <2>7. /\ session[q].pc \in {"counting", "deciding"} =>
             /\ lot'[l].disposition # "ACCEPTED"
             /\ session[q].target = "REJECTED" => session[q].seenOnHand = lot'[l].onHand
        /\ session[q].pc = "deciding" /\ session[q].target = "REJECTED" => ReservedOn(l)' = {}
    BY <2>3, <2>4, <2>5, <2>6 DEF Loosened, SameStock
  <2>8. session'[q].lot = l /\ ReservedOn(session[q].lot)' = ReservedOn(l)'
    BY DEF ReservedOn, Active
  <2> QED
    BY <2>1, <2>3, <2>7, <2>8 DEF RequestFresh
<1> QED
  BY <1>1, <1>2

\* A request's own statement leaves it fresh, or ends it.
LEMMA AdvancingStaysFresh ==
  ASSUME TypeOK, NEW q \in Inspector, RequestFresh(q), InspectorStep(q)
  PROVE  RequestFresh(q)'
<1> USE TypeParts
<1>1. session \in [Inspector -> SessionRow] /\ session[q] \in SessionRow
  BY DEF SessionsTyped
<1>2. CASE Finish(q)
  <2>1. session'[q] = IdleSession
    BY <1>1, <1>2 DEF Finish
  <2> QED
    BY <2>1 DEF IdleSession, RequestFresh
<1>3. ASSUME NEW l \in Lot, NEW target \in {"ACCEPTED", "HOLD", "REJECTED"},
             DecideRead(q, l, target)
      PROVE  RequestFresh(q)'
  <2>1. /\ session'[q].pc = IF target = "REJECTED" THEN "counting" ELSE "deciding"
        /\ session'[q].lot = l /\ session'[q].target = target
        /\ target = "REJECTED" => session'[q].seenOnHand = lot[l].onHand
    BY <1>1, <1>3 DEF DecideRead, IdleSession
  <2>2. lot[l].disposition \notin {"REJECTED", "ACCEPTED"} /\ lot' = lot
    BY <1>3 DEF DecideRead, DispositionTargets, inventoryVars
  <2> QED
    BY <2>1, <2>2 DEF RequestFresh
<1>4. CASE session[q].pc = "counting" /\ Unreserved(session[q].lot) /\ Advance(q, "deciding")
             /\ lot' = lot /\ alloc' = alloc
  <2>1. /\ session'[q].pc = "deciding" /\ session'[q].lot = session[q].lot
        /\ session'[q].target = session[q].target
        /\ session'[q].seenOnHand = session[q].seenOnHand
    BY <1>1, <1>4 DEF Advance, SessionRow
  <2>2. ReservedOn(session[q].lot)' = {}
    BY <1>4, <2>1 DEF Unreserved, ReservedOn, Active
  <2> QED
    BY <1>4, <2>1, <2>2 DEF RequestFresh
<1>5. ASSUME NEW l \in Lot, RegisterRead(q, l) PROVE RequestFresh(q)'
  <2>1. /\ session'[q].pc \in {"numbering", "quarantining"}
        /\ session'[q].lot = l
    BY <1>1, <1>5 DEF RegisterRead, IdleSession
  <2>2. lot[l].disposition # "REJECTED" /\ lot' = lot
    BY <1>5 DEF RegisterRead, Containable, inventoryVars
  <2> QED
    BY <2>1, <2>2 DEF RequestFresh
<1>6. CASE QuarantineUpdate(q) \/ CountIncidents(q)
  <2>1. /\ session'[q].pc \in {"numbering", "inserting"}
        /\ session'[q].lot = session[q].lot
    BY <1>1, <1>6 DEF QuarantineUpdate, CountIncidents, SessionRow
  <2>2. session[q].pc # "idle" /\ lot' = lot
    BY <1>6 DEF QuarantineUpdate, CountIncidents, inventoryVars
  <2> QED
    BY <2>1, <2>2 DEF RequestFresh
<1> QED
  BY <1>2, <1>3, <1>4, <1>5, <1>6
     DEF InspectorStep, DecideCount, DecideUpdate, RegisterCommit, Rollback, inventoryVars

\* A step of one request, or none, changes the sessions.
LEMMA SessionsOf ==
  ASSUME TypeOK, [Next]_vars
  PROVE  \/ session' = session
         \/ \E q \in Inspector :
              InspectorStep(q) /\ \A r \in Inspector \ {q} : session'[r] = session[r]
<1> USE TypeParts
<1>1. ASSUME NEW q \in Inspector, InspectorStep(q)
      PROVE  \A r \in Inspector \ {q} : session'[r] = session[r]
  BY <1>1 DEF InspectorStep, DecideRead, DecideCount, DecideUpdate, RegisterRead,
     QuarantineUpdate, CountIncidents, RegisterCommit, Rollback, Finish, Advance, SessionsTyped
<1>2. ASSUME NEW o \in Order, OrderStep(o) PROVE session' = session
  BY <1>2, OrderStepCases
     DEF Release, CanRelease, Cancel, CanCancel, Reserve, CanReserve, Start, CanStart,
         Complete, CanComplete, Verdict, CanDecide, Review, CanReview, qualityVars
<1> QED
  BY <1>1, <1>2, DueDateKeepsRows
     DEF Next, ReleaseReservation, CanDissolve, Expire, qualityVars, vars

StockInvariant ==
  /\ \A q \in Inspector : RequestFresh(q)
  /\ NoOverReservation
  /\ LotConservation
  /\ RejectedLotEmpty

\* Every move of a lot keeps its stock in order.
LEMMA MovesKeepStock ==
  ASSUME TypeOK, TypeOK', Books, Books', StockInvariant, NEW l \in Lot, LotMoves(l)
  PROVE  /\ lot'[l].reserved \in 0..lot'[l].onHand
         /\ Received[l] = lot'[l].onHand + lot'[l].consumed + lot'[l].scrapped
         /\ lot'[l].disposition = "REJECTED" => lot'[l].onHand = 0 /\ ReservedOn(l)' = {}
<1> USE TypeParts
<1>1. lot[l] \in LotRow /\ lot'[l] \in LotRow
  BY DEF LotsTyped
<1>2. /\ lot[l].reserved \in 0..lot[l].onHand
      /\ Received[l] = lot[l].onHand + lot[l].consumed + lot[l].scrapped
      /\ lot[l].disposition = "REJECTED" => lot[l].onHand = 0 /\ ReservedOn(l) = {}
  BY DEF StockInvariant, NoOverReservation, LotConservation, RejectedLotEmpty
<1>3. lot'[l].reserved \in Nat
  <2>1. ReservedOn(l)' \in SUBSET Allocation
    BY DEF ReservedOn, Active
  <2>2. \A a \in Allocation : alloc'[a].quantity \in Nat
    BY DEF AllocationsTyped, AllocationRow
  <2>3. Sum(ReservedOn(l)', alloc') \in Nat
    BY <2>1, <2>2, SumNat
  <2>4. lot'[l].reserved = Sum(ReservedOn(l)', alloc')
    BY DEF Books, ReservedMatchesAllocations, Total, Pieces, Sum
  <2> QED
    BY <2>3, <2>4
<1>4. CASE Loosened(l)
  BY <1>1, <1>2, <1>3, <1>4 DEF Loosened, SameStock, LotRow
<1>5. CASE Promised(l)
  BY <1>1, <1>2, <1>3, <1>5 DEF Promised, SameStock, Usable, LotRow
<1>6. CASE \E pieces \in Nat : Built(l, pieces)
  BY <1>1, <1>2, <1>3, <1>6 DEF Built, Usable, LotRow
<1>7. ASSUME NEW q \in Inspector, JudgedBy(q, l)
      PROVE  /\ lot'[l].reserved \in 0..lot'[l].onHand
             /\ Received[l] = lot'[l].onHand + lot'[l].consumed + lot'[l].scrapped
             /\ lot'[l].disposition = "REJECTED" => lot'[l].onHand = 0 /\ ReservedOn(l)' = {}
  <2>1. RequestFresh(q) /\ session[q].lot = l
    BY <1>7 DEF StockInvariant, JudgedBy
  <2>2. ReservedOn(l)' = ReservedOn(l) /\ lot'[l].reserved = lot[l].reserved
    BY <1>7 DEF JudgedBy, ReservedOn, Active
  <2>3. CASE session[q].pc = "deciding" /\ session[q].target = "REJECTED"
    <3>1. ReservedOn(l) = {} /\ session[q].seenOnHand = lot[l].onHand
      BY <2>1, <2>3 DEF RequestFresh
    <3>2. lot[l].reserved = 0
      BY <3>1, SumEmpty, TotalIsSum DEF Books, ReservedMatchesAllocations
    <3>3. lot'[l] = [lot[l] EXCEPT !.disposition = "REJECTED",
                                   !.scrapped = @ + lot[l].onHand, !.onHand = 0]
      BY <1>7, <2>3, <3>1 DEF JudgedBy, Decided
    <3> QED
      BY <1>1, <1>2, <2>2, <3>1, <3>2, <3>3 DEF LotRow
  <2>4. CASE session[q].pc = "deciding" /\ session[q].target # "REJECTED"
    <3>1. lot'[l] = [lot[l] EXCEPT !.disposition = session[q].target]
      BY <1>7, <2>4 DEF JudgedBy, Decided
    <3> QED
      BY <1>1, <1>2, <2>2, <2>4, <3>1 DEF LotRow
  <2>5. CASE SameStock(l) /\ lot'[l].disposition = "QUARANTINED"
    BY <1>1, <1>2, <2>2, <2>5 DEF SameStock, LotRow
  <2> QED
    BY <1>7, <2>3, <2>4, <2>5 DEF JudgedBy
<1> QED
  BY <1>4, <1>5, <1>6, <1>7 DEF LotMoves

LEMMA NextStock ==
  TypeOK /\ TypeOK' /\ Books /\ Books' /\ OneRequestPerLot /\ StockInvariant /\ [Next]_vars
    => StockInvariant'
<1> SUFFICES ASSUME TypeOK, TypeOK', Books, Books', OneRequestPerLot, StockInvariant, [Next]_vars
             PROVE  StockInvariant'
  OBVIOUS
<1>1. \A l \in Lot : LotMoves(l)
  BY NextMoves
<1>2. NoOverReservation' /\ LotConservation' /\ RejectedLotEmpty'
  BY <1>1, MovesKeepStock DEF NoOverReservation, LotConservation, RejectedLotEmpty
<1>3. ASSUME NEW q \in Inspector PROVE RequestFresh(q)'
  <2>1. RequestFresh(q)
    BY DEF StockInvariant
  <2>2. CASE session'[q] = session[q]
    BY <1>1, <2>1, <2>2, WaitingStaysFresh
  <2>3. CASE InspectorStep(q)
    BY <2>1, <2>3, AdvancingStaysFresh
  <2> QED
    BY <2>2, <2>3, SessionsOf
<1> QED
  BY <1>2, <1>3 DEF StockInvariant

\* The active reservations of the seeded database are those of imported orders.
LEMMA SeededReservations ==
  ASSUME Init
  PROVE  /\ \A a \in Active : \E o \in Imported :
              SeedReservation[o].id = a /\ alloc[a].order = o
         /\ \A o \in Imported :
              LET a == SeedReservation[o].id IN
              /\ a \in Active /\ alloc[a].order = o
              /\ alloc[a].lot = SeedReservation[o].lot
              /\ alloc[a].quantity = SeedReservation[o].quantity
<1>1. \A a \in Allocation : alloc[a] = SeedAllocation(a)
  BY DEF Init
<1>2. ASSUME NEW o \in Imported
      PROVE  /\ SeedReservation[o].id \in Allocation
             /\ SeedAllocation(SeedReservation[o].id) =
                  [status |-> "ACTIVE", order |-> o, lot |-> SeedReservation[o].lot,
                   quantity |-> SeedReservation[o].quantity, reason |-> "NONE"]
  <2> DEFINE a == SeedReservation[o].id
             p == CHOOSE p \in Imported : SeedReservation[p].id = a
  <2>1. a \in Allocation
    BY DatabaseAssumption
  <2>2. p \in Imported /\ SeedReservation[p].id = a
    OBVIOUS
  <2>3. p = o
    BY <2>2, DatabaseAssumption
  <2> QED
    BY <2>1, <2>2, <2>3 DEF SeedAllocation, FreeRow
<1>3. ASSUME NEW a \in Active
      PROVE  \E o \in Imported : SeedReservation[o].id = a
  <2> SUFFICES ASSUME ~ \E o \in Imported : SeedReservation[o].id = a PROVE FALSE
    OBVIOUS
  <2>1. a \in Allocation /\ alloc[a].status = "ACTIVE"
    BY DEF Active
  <2>2. SeedAllocation(a) = FreeRow
    BY DEF SeedAllocation
  <2> QED
    BY <1>1, <2>1, <2>2 DEF FreeRow
<1>4. ASSUME NEW o \in Imported
      PROVE  LET a == SeedReservation[o].id IN
             /\ a \in Active /\ alloc[a].order = o
             /\ alloc[a].lot = SeedReservation[o].lot
             /\ alloc[a].quantity = SeedReservation[o].quantity
  <2>1. alloc[SeedReservation[o].id] =
          [status |-> "ACTIVE", order |-> o, lot |-> SeedReservation[o].lot,
           quantity |-> SeedReservation[o].quantity, reason |-> "NONE"]
    BY <1>1, <1>2
  <2> QED
    BY <1>2, <2>1 DEF Active
<1> QED
  BY <1>3, <1>4

\* The seeded reservations of a lot, by the orders that hold them.
LEMMA SeededTotal ==
  ASSUME Init, NEW l \in Lot
  PROVE  LET held == {o \in Imported : SeedReservation[o].lot = l} IN
         /\ ReservedOn(l) = {SeedReservation[o].id : o \in held}
         /\ Total(ReservedOn(l)) =
              Cardinality(UNION {{o} \X (1..SeedReservation[o].quantity) : o \in held})
<1> DEFINE held == {o \in Imported : SeedReservation[o].lot = l}
           P == Pieces(ReservedOn(l))
           home == [p \in P |-> alloc[p[1]].order]
           n == [o \in held |-> SeedReservation[o].quantity]
<1>1. AllocationsTyped
  BY InitTypeOK, TypeParts
<1>2. ReservedOn(l) = {SeedReservation[o].id : o \in held}
  BY SeededReservations DEF ReservedOn
<1>3. IsFiniteSet(P)
  <2>1. ReservedOn(l) \in SUBSET Allocation
    BY DEF ReservedOn, Active
  <2> QED
    BY <1>1, <2>1, PiecesFinite DEF AllocationsTyped, AllocationRow, QuantitiesTyped
<1>4. home \in [P -> held]
  <2> SUFFICES ASSUME NEW p \in P PROVE alloc[p[1]].order \in held
    OBVIOUS
  <2>1. p[1] \in ReservedOn(l)
    BY DEF Pieces
  <2>2. p[1] \in Active /\ alloc[p[1]].lot = l
    BY <2>1 DEF ReservedOn
  <2> QED
    BY <2>2, SeededReservations
<1>5. n \in [held -> Nat]
  BY DatabaseAssumption
<1>6. ASSUME NEW o \in held
      PROVE  Cardinality(PartOf(P, home, o)) = n[o]
  <2> DEFINE a == SeedReservation[o].id
             q == SeedReservation[o].quantity
  <2>1. /\ a \in ReservedOn(l) /\ alloc[a].order = o /\ alloc[a].quantity = q /\ q \in Nat
    BY SeededReservations, DatabaseAssumption DEF ReservedOn
  <2>2. \A b \in ReservedOn(l) : alloc[b].order = o => b = a
    BY SeededReservations DEF ReservedOn
  <2>3. PartOf(P, home, o) = {a} \X (1..q)
    <3> HIDE DEF a, q, held
    <3> QED
      BY <2>1, <2>2 DEF Pieces, PartOf
  <2>4. n[o] = q
    OBVIOUS
  <2>5. q \in Nat /\ 1 * q = q
    BY <2>1
  <2> HIDE DEF a, q, n, P, home
  <2>6. IsFiniteSet({a}) /\ Cardinality({a}) = 1
    BY FS_Singleton
  <2>7. IsFiniteSet(1..q) /\ Cardinality(1..q) = q
    BY <2>5, IntervalCount
  <2>8. Cardinality({a} \X (1..q)) = 1 * q
    <3>1. Cardinality({a} \X (1..q)) = Cardinality({a}) * Cardinality(1..q)
      BY <2>6, <2>7, FS_Product, Zenon
    <3> QED BY <2>6, <2>7, <3>1, Zenon
  <2> QED
    BY <2>3, <2>4, <2>5, <2>8
<1>7. Cardinality(PilesOf(held, n)) = Cardinality(P)
  <2> HIDE DEF P, home, n, held
  <2> QED
    BY <1>3, <1>4, <1>5, <1>6, Regrouped
<1>8. PilesOf(held, n) = UNION {{o} \X (1..SeedReservation[o].quantity) : o \in held}
  BY DEF PilesOf
<1> QED
  BY <1>2, <1>7, <1>8 DEF Total

LEMMA InitStock == Init => StockInvariant
<1> SUFFICES ASSUME Init PROVE StockInvariant
  OBVIOUS
<1>1. \A q \in Inspector : RequestFresh(q)
  BY DEF Init, IdleSession, RequestFresh
<1>2. ASSUME NEW l \in Lot
      PROVE  /\ lot[l].reserved \in 0..lot[l].onHand
             /\ Received[l] = lot[l].onHand + lot[l].consumed + lot[l].scrapped
             /\ lot[l].disposition = "REJECTED" => lot[l].onHand = 0 /\ ReservedOn(l) = {}
  <2> DEFINE held == {o \in Imported : SeedReservation[o].lot = l}
             sum == Cardinality(UNION {{o} \X (1..SeedReservation[o].quantity) : o \in held})
  <2>1. PICK d \in InitialDisposition[l] : lot[l] = SeedLot(l, d)
    BY DEF Init
  <2>2. /\ lot[l].disposition = d /\ lot[l].reserved = Total(ReservedOn(l))
        /\ lot[l].consumed = 0
        /\ lot[l].onHand = IF d = "REJECTED" THEN 0 ELSE Received[l]
        /\ lot[l].scrapped = IF d = "REJECTED" THEN Received[l] ELSE 0
    BY <2>1 DEF SeedLot
  <2>3. Received[l] \in Nat
    BY DatabaseAssumption
  <2>4. ReservedOn(l) = {SeedReservation[o].id : o \in held} /\ Total(ReservedOn(l)) = sum
    BY SeededTotal
  <2>5. Total(ReservedOn(l)) \in Nat
    <3>1. ReservedOn(l) \in SUBSET Allocation
      BY DEF ReservedOn, Active
    <3> QED
      BY <3>1, InitTypeOK, TypeParts, TotalType
  <2>6. CASE held = {}
    <3>1. ReservedOn(l) = {}
      BY <2>4, <2>6
    <3>2. Total(ReservedOn(l)) = 0
      BY <3>1, SumEmpty, TotalIsSum
    <3> QED
      BY <2>2, <2>3, <3>1, <3>2
  <2>7. CASE held # {}
    <3>1. InitialDisposition[l] = {"ACCEPTED"} /\ Received[l] >= sum
      BY <2>7, DatabaseAssumption
    <3>2. d = "ACCEPTED"
      BY <3>1
    <3> HIDE DEF sum
    <3> QED
      BY <2>2, <2>3, <2>4, <2>5, <3>1, <3>2
  <2> QED
    BY <2>6, <2>7
<1> QED
  BY <1>1, <1>2 DEF StockInvariant, NoOverReservation, LotConservation, RejectedLotEmpty

\* The stock of every lot, when quality handles one request per lot at a time.
THEOREM StockHolds == Spec /\ []OneRequestPerLot => []StockInvariant
<1>1. TypeInvariant => TypeOK
  BY DEF TypeInvariant
<1> QED
  BY <1>1, InitStock, NextStock, BooksHold, TypeInvariantHolds, PTL DEF Spec

(***************************************************************************)
(* RULE-02 and RULE-05: however many orders compete for a lot, and however *)
(* a rejection is interleaved with reserve and start, no more than its     *)
(* on-hand quantity is promised (computeAvailableQuantity in reserve, the  *)
(* count of reservations in decide), provided no two quality requests on   *)
(* the lot overlap.                                                        *)
(***************************************************************************)
THEOREM LotsAreNotOverReserved == Spec /\ []OneRequestPerLot => []NoOverReservation
BY StockHolds, PTL DEF StockInvariant

(***************************************************************************)
(* The inventory formula of the domain contract: a rejection scraps what   *)
(* is on hand although it read that quantity two statements earlier,       *)
(* because nothing is built from a lot that is not accepted; only another  *)
(* quality request on the same lot could come between (the run             *)
(* scrapped_twice).                                                        *)
(***************************************************************************)
THEOREM LotsAreConserved == Spec /\ []OneRequestPerLot => []LotConservation
BY StockHolds, PTL DEF StockInvariant

(***************************************************************************)
(* A rejected lot holds no stock and is promised to nobody, although the   *)
(* reservations were counted in an earlier statement than the rejection.   *)
(***************************************************************************)
THEOREM RejectedLotsAreEmpty == Spec /\ []OneRequestPerLot => []RejectedLotEmpty
BY StockHolds, PTL DEF StockInvariant

-----------------------------------------------------------------------------
(* WHAT A REJECTION LEAVES, WHEN REQUESTS OVERLAP *)

\* Nothing is on hand of a rejected lot.
RejectedIsGone == \A l \in Lot : lot[l].disposition = "REJECTED" => lot[l].onHand = 0

\* A rejection takes the stock, and nothing gives a rejected lot stock.
LEMMA NextGone == TypeOK /\ RejectedIsGone /\ [Next]_vars => RejectedIsGone'
<1> SUFFICES ASSUME TypeOK, RejectedIsGone, [Next]_vars, NEW l \in Lot,
                    lot'[l].disposition = "REJECTED"
             PROVE  lot'[l].onHand = 0
  BY DEF RejectedIsGone
<1>1. lot[l] \in LotRow
  BY TypeParts DEF LotsTyped
<1>2. CASE Loosened(l)
  BY <1>2 DEF RejectedIsGone, Loosened, SameStock
<1>3. CASE Promised(l) \/ \E pieces \in Nat : Built(l, pieces)
  BY <1>3 DEF Promised, Built, Usable
<1>4. ASSUME NEW q \in Inspector, JudgedBy(q, l) PROVE lot'[l].onHand = 0
  BY <1>1, <1>4 DEF JudgedBy, Decided, LotRow
<1> QED
  BY <1>2, <1>3, <1>4, NextMoves DEF LotMoves

\* No quality request begins on a rejected lot.
LEMMA RejectedIsLeftAlone ==
  ASSUME TypeOK, [Next]_vars, NEW l \in Lot, lot[l].disposition = "REJECTED", Undisturbed(l)
  PROVE  Undisturbed(l)'
<1>1. CASE session' = session
  BY <1>1 DEF Undisturbed
<1>2. ASSUME NEW q \in Inspector, InspectorStep(q),
             \A r \in Inspector \ {q} : session'[r] = session[r]
      PROVE  Undisturbed(l)'
  <2>1. session \in [Inspector -> SessionRow] /\ session[q] \in SessionRow
    BY TypeParts DEF SessionsTyped
  <2> SUFFICES session'[q].pc # "idle" => session'[q].lot # l
    BY <1>2 DEF Undisturbed
  <2>2. CASE Finish(q)
    BY <2>1, <2>2 DEF Finish, IdleSession
  <2>3. ASSUME NEW k \in Lot, NEW target \in {"ACCEPTED", "HOLD", "REJECTED"},
               DecideRead(q, k, target)
        PROVE  session'[q].lot # l
    <3>1. session'[q].lot = k
      BY <2>1, <2>3 DEF DecideRead, IdleSession
    <3>2. lot[k].disposition # "REJECTED"
      BY <2>3 DEF DecideRead, DispositionTargets
    <3> QED
      BY <3>1, <3>2
  <2>4. ASSUME NEW k \in Lot, RegisterRead(q, k) PROVE session'[q].lot # l
    <3>1. session'[q].lot = k
      BY <2>1, <2>4 DEF RegisterRead, IdleSession
    <3>2. lot[k].disposition # "REJECTED"
      BY <2>4 DEF RegisterRead, Containable
    <3> QED
      BY <3>1, <3>2
  <2>5. CASE session[q].pc # "idle" /\ session'[q].lot = session[q].lot
    BY <2>5 DEF Undisturbed
  <2>6. CASE Advance(q, "deciding") /\ session[q].pc = "counting"
    BY <2>1, <2>5, <2>6 DEF Advance, SessionRow
  <2>7. CASE QuarantineUpdate(q) \/ CountIncidents(q)
    BY <2>1, <2>5, <2>7 DEF QuarantineUpdate, CountIncidents, SessionRow
  <2> QED
    BY <1>2, <2>2, <2>3, <2>4, <2>6, <2>7
       DEF InspectorStep, DecideCount, DecideUpdate, RegisterCommit, Rollback
<1> QED
  BY <1>1, <1>2, SessionsOf

(***************************************************************************)
(* Without any hypothesis on how quality requests overlap: a rejection     *)
(* that no request under way had read the lot before stands for good.  No  *)
(* request can begin on the lot (the transitions of decide, the state that *)
(* register refuses), start does not build it in although a reservation    *)
(* may have been made while the rejection was counted, and nothing of its  *)
(* stock changes any more.  What the overlapping requests themselves may   *)
(* do is shown by the runs rejected_reopened and scrapped_twice.           *)
(***************************************************************************)
THEOREM RejectionsStand == Spec => RejectionStands
<1>1. Init => RejectedIsGone
  BY DEF Init, SeedLot, RejectedIsGone
<1>2. TypeOK /\ RejectedIsGone /\ [Next]_vars =>
        [\A l \in Lot :
           lot[l].disposition = "REJECTED" /\ Undisturbed(l) =>
              /\ lot'[l].disposition = "REJECTED" /\ Undisturbed(l)'
              /\ lot'[l].onHand = 0
              /\ lot'[l].consumed = lot[l].consumed
              /\ lot'[l].scrapped = lot[l].scrapped]_vars
  <2> SUFFICES ASSUME TypeOK, RejectedIsGone, [Next]_vars, NEW l \in Lot,
                      lot[l].disposition = "REJECTED", Undisturbed(l)
               PROVE  /\ lot'[l].disposition = "REJECTED" /\ Undisturbed(l)'
                      /\ lot'[l].onHand = 0
                      /\ lot'[l].consumed = lot[l].consumed
                      /\ lot'[l].scrapped = lot[l].scrapped
    OBVIOUS
  <2>1. \A q \in Inspector : ~ JudgedBy(q, l)
    BY DEF Undisturbed, JudgedBy
  <2>2. Loosened(l)
    BY <2>1, NextMoves, UnacceptedRests
  <2> QED
    BY <2>2, RejectedIsLeftAlone DEF RejectedIsGone, Loosened, SameStock
<1> QED
  BY <1>1, <1>2, NextGone, TypeCorrect, PTL DEF Spec, RejectionStands

-----------------------------------------------------------------------------
(* THE BILL OF MATERIALS *)

\* Fewer reservations hold no more pieces.
LEMMA SumMonotone ==
  ASSUME NEW B \in SUBSET Allocation, NEW A \in SUBSET B, NEW rows,
         \A a \in B : rows[a].quantity \in Nat
  PROVE  Sum(A, rows) <= Sum(B, rows) /\ Sum(A, rows) \in Nat /\ Sum(B, rows) \in Nat
<1> DEFINE S == UNION {{a} \X (1..rows[a].quantity) : a \in A}
           T == UNION {{a} \X (1..rows[a].quantity) : a \in B}
<1>1. S \subseteq T
  OBVIOUS
<1>2. IsFiniteSet(T)
  <2>1. IsFiniteSet(B)
    BY DatabaseAssumption, FS_Subset
  <2> QED
    BY <2>1, PiecesOfRows
<1> HIDE DEF S, T
<1>3. Cardinality(S) <= Cardinality(T)
  BY <1>1, <1>2, FS_Subset
<1>4. Sum(A, rows) \in Nat /\ Sum(B, rows) \in Nat
  BY SumNat
<1> QED
  BY <1>3, <1>4 DEF Sum, S, T

\* A command takes no reservation of p on a new quantity or lot, and adds none.
HoldsNoMore(p) ==
  /\ HeldBy(p)' \subseteq HeldBy(p)
  /\ \A a \in HeldBy(p) : alloc'[a].lot = alloc[a].lot /\ alloc'[a].quantity = alloc[a].quantity

HoldsTheSame(p) == HoldsNoMore(p) /\ HeldBy(p)' = HeldBy(p)

LEMMA HeldTotals ==
  ASSUME AllocationsTyped, NEW p \in Order, HoldsNoMore(p), NEW m \in Material
  PROVE  /\ Total(HeldOfMaterial(p, m))' \in Nat /\ Total(HeldOfMaterial(p, m)) \in Nat
         /\ Total(HeldOfMaterial(p, m))' <= Total(HeldOfMaterial(p, m))
         /\ HoldsTheSame(p) => Total(HeldOfMaterial(p, m))' = Total(HeldOfMaterial(p, m))
<1> DEFINE before == HeldOfMaterial(p, m)
           after == {a \in HeldBy(p)' : MaterialOf[alloc'[a].lot] = m}
<1>1. /\ before \in SUBSET Allocation /\ after \in SUBSET before
      /\ HoldsTheSame(p) => after = before
  BY DEF HoldsNoMore, HoldsTheSame, HeldOfMaterial, HeldBy, Active
<1>2. \A a \in before : alloc'[a].quantity = alloc[a].quantity /\ alloc[a].quantity \in Nat
  BY DEF HoldsNoMore, HeldOfMaterial, HeldBy, Active, AllocationsTyped, AllocationRow
<1>3. Total(HeldOfMaterial(p, m))' = Sum(after, alloc')
  BY DEF HeldOfMaterial, Total, Pieces, Sum
<1>4. Total(HeldOfMaterial(p, m)) = Sum(before, alloc)
  BY TotalIsSum
<1> HIDE DEF before, after
<1>5. Sum(after, alloc') = Sum(after, alloc)
  BY <1>1, <1>2, SumKept
<1>6. /\ Sum(after, alloc) <= Sum(before, alloc)
      /\ Sum(after, alloc) \in Nat /\ Sum(before, alloc) \in Nat
  BY <1>1, <1>2, SumMonotone
<1> QED
  BY <1>1, <1>3, <1>4, <1>5, <1>6

\* The commands on an order leave the reservations of the others as they are, and
\* only reserve adds one to its own.
LEMMA OrderStepHolds ==
  ASSUME TypeOK, NEW o \in Order, OrderStep(o)
  PROVE  /\ \A p \in Order \ {o} : HoldsTheSame(p)
         /\ \/ HoldsNoMore(o)
            \/ \E l \in Lot, a \in Allocation, quantity \in Nat \ {0} : Reserve(o, l, a, quantity)
<1> USE TypeParts
<1>1. CASE alloc' = alloc
  BY <1>1 DEF HoldsTheSame, HoldsNoMore, HeldBy, Active
<1>2. ASSUME NEW reason, alloc' = Closed(HeldBy(o), reason)
      PROVE  HoldsNoMore(o) /\ \A p \in Order \ {o} : HoldsTheSame(p)
  <2>1. ASSUME NEW a \in Allocation
        PROVE  /\ alloc'[a].lot = alloc[a].lot /\ alloc'[a].quantity = alloc[a].quantity
               /\ a \in HeldBy(o) => alloc'[a].status = "CLOSED"
               /\ a \notin HeldBy(o) => alloc'[a] = alloc[a]
    <3>1. alloc[a] \in AllocationRow
      BY DEF AllocationsTyped
    <3>2. CASE a \in HeldBy(o)
      BY <1>2, <3>1, <3>2 DEF Closed, AllocationRow
    <3>3. CASE a \notin HeldBy(o)
      BY <1>2, <3>3 DEF Closed
    <3> QED
      BY <3>2, <3>3
  <2>2. \A p \in Order \ {o} : HeldBy(p)' = HeldBy(p)
    BY OthersReservations
  <2>3. HeldBy(o)' \subseteq HeldBy(o)
    BY <2>1 DEF HeldBy, Active
  <2> QED
    BY <2>1, <2>2, <2>3 DEF HoldsTheSame, HoldsNoMore, HeldBy, Active
<1>3. ASSUME NEW l \in Lot, NEW a \in Allocation, NEW quantity \in Nat \ {0},
             Reserve(o, l, a, quantity)
      PROVE  \A p \in Order \ {o} : HoldsTheSame(p)
  <2>1. alloc[a].status = "FREE" /\ \A b \in Allocation \ {a} : alloc'[b] = alloc[b]
    BY <1>3 DEF Reserve, CanReserve, AllocationsTyped
  <2>2. \A p \in Order \ {o} : HeldBy(p)' = HeldBy(p)
    BY OthersReservations
  <2> QED
    BY <2>1, <2>2 DEF HoldsTheSame, HoldsNoMore, HeldBy, Active
<1> QED
  BY <1>1, <1>2, <1>3, OrderStepCases
     DEF Release, CanRelease, Cancel, CanCancel, Start, CanStart, Complete,
         CanComplete, Verdict, CanDecide, Review, CanReview, inventoryVars

\* The usable reservations cover the demand, so all reservations do.
LEMMA EnoughCovers ==
  ASSUME AllocationsTyped, NEW o \in Order, EnoughMaterial(o), NEW m \in Material
  PROVE  Total(HeldOfMaterial(o, m)) >= Required[o][m]
<1> DEFINE held == HeldOfMaterial(o, m)
           usable == {a \in held : Usable(alloc[a].lot)}
<1>1. held \in SUBSET Allocation /\ usable \in SUBSET held
  BY DEF HeldOfMaterial, HeldBy, Active
<1>2. \A a \in held : alloc[a].quantity \in Nat
  BY <1>1 DEF AllocationsTyped, AllocationRow
<1>3. Total(usable) >= Required[o][m]
  BY DEF EnoughMaterial
<1>4. Required[o][m] \in Nat
  BY DatabaseAssumption
<1> HIDE DEF held, usable
<1>5. Sum(usable, alloc) <= Sum(held, alloc) /\ Sum(usable, alloc) \in Nat /\ Sum(held, alloc) \in Nat
  BY <1>1, <1>2, SumMonotone
<1> QED
  BY <1>3, <1>4, <1>5, TotalIsSum DEF held

LEMMA EnoughCoversNext ==
  ASSUME AllocationsTyped', NEW o \in Order, EnoughMaterial(o)', NEW m \in Material
  PROVE  Total(HeldOfMaterial(o, m))' >= Required[o][m]
<1> DEFINE held == HeldOfMaterial(o, m)'
           usable == {a \in held : Usable(alloc[a].lot)'}
<1>1. held \in SUBSET Allocation /\ usable \in SUBSET held
  BY DEF HeldOfMaterial, HeldBy, Active
<1>2. \A a \in held : alloc'[a].quantity \in Nat
  BY <1>1 DEF AllocationsTyped, AllocationRow
<1>3. Sum(usable, alloc') >= Required[o][m]
  BY DEF EnoughMaterial, Total, Pieces, Sum
<1>4. Required[o][m] \in Nat
  BY DatabaseAssumption
<1>5. Total(HeldOfMaterial(o, m))' = Sum(held, alloc')
  BY DEF Total, Pieces, Sum
<1> HIDE DEF held, usable
<1>6. Sum(usable, alloc') <= Sum(held, alloc') /\ Sum(usable, alloc') \in Nat /\ Sum(held, alloc') \in Nat
  BY <1>1, <1>2, SumMonotone
<1> QED
  BY <1>3, <1>4, <1>5, <1>6

\* The steps of a live order exist.
RowsExist(o) == Live(o) => step[o][1].readiness # "ABSENT"

\* ReadyFullyReserved, at one order.
ReadyCovered(o) ==
  order[o].status = "RELEASED" /\ step[o][1].readiness = "READY" =>
    \A m \in Material : Total(HeldOfMaterial(o, m)) >= Required[o][m]

\* An order with a bill of materials never holds more than the bill asks for.
WithinBill(o) ==
  RequiresMaterial(o) =>
    \A m \in Material : Total(HeldOfMaterial(o, m)) <= Required[o][m]

BuiltAsBilled(o) ==
  RequiresMaterial(o) /\ AnyStarted(step[o]) =>
    \A m \in Material : Cardinality(BuiltIn(o, m)) = Required[o][m]

BillInvariant ==
  /\ LifeInvariant
  /\ \A o \in Order : RowsExist(o) /\ ReadyCovered(o) /\ WithinBill(o) /\ BuiltAsBilled(o)

\* An order that requires nothing is covered by whatever it holds.
LEMMA NothingRequired ==
  ASSUME NEW o \in Order, ~ RequiresMaterial(o), NEW m \in Material
  PROVE  Required[o][m] = 0
<1>1. Required[o][m] \in Nat
  BY DatabaseAssumption
<1> QED
  BY <1>1 DEF RequiresMaterial

\* A refresh of a released order finds its first step READY only if the
\* material suffices.
LEMMA ProjectedFirstRow ==
  ASSUME TypeOK, NEW o \in Order, Live(o), NEW checks, NEW enough \in BOOLEAN,
         MaterialAndFlowProjected(o, checks, enough)
  PROVE  /\ step'[o][1].readiness # "ABSENT"
         /\ /\ RequiresMaterial(o) /\ RowsExist(o) /\ step[o][1].readiness \notin Started
            /\ step'[o][1].readiness = "READY"
            => enough
<1> DEFINE rows == MaterialRefreshed(step[o], RequiresMaterial(o), enough)
<1>1. /\ 1 \in Route(o) /\ RouteLength[o] \in Nat \ {0} /\ Route(o) = 1..RouteLength[o]
      /\ step[o] \in [1..RouteLength[o] -> StepRow]
  BY TypeParts, RouteNonempty DEF OrdersTyped, StepsTyped
<1>2. rows \in [Route(o) -> StepRow] /\ FlowProjected(o, rows, checks)
  BY TypeParts, MaterialRows DEF MaterialAndFlowProjected
<1>3. step'[o] = FlowRefreshed(rows, checks, Planned[o])
  BY <1>2, TypeParts, ProjectedRows DEF Live
<1>4. step'[o][1].readiness # "ABSENT"
  <2> HIDE DEF rows
  <2> QED
    BY <1>1, <1>2, <1>3, RefreshedRowExists
<1>5. ASSUME RequiresMaterial(o), RowsExist(o), step[o][1].readiness \notin Started,
             step'[o][1].readiness = "READY"
      PROVE  enough
  <2> SUFFICES ASSUME enough = FALSE PROVE FALSE
    OBVIOUS
  <2>1. rows = MaterialRefreshed(step[o], TRUE, FALSE)
    BY <1>5 DEF MaterialRefreshed
  <2>2. step[o][1].readiness \notin Started \cup {"ABSENT"}
    BY <1>5 DEF RowsExist
  <2>3. FlowRefreshed(MaterialRefreshed(step[o], TRUE, FALSE), checks, Planned[o])[1].readiness # "READY"
    BY <1>1, <2>2, ShortIsNotReady
  <2> QED
    BY <1>3, <1>5, <2>1, <2>3
<1> QED
  BY <1>4, <1>5

\* start lets the first step of an order with a bill of materials begin only if
\* its reservations cover the bill.
LEMMA StartIsCovered ==
  ASSUME BillInvariant, NEW o \in Order, RequiresMaterial(o), ~ AnyStarted(step[o]),
         NEW i \in Route(o), Start(o, i)
  PROVE  EnoughMaterial(o)
<1> USE TypeParts DEF BillInvariant, LifeInvariant, FlowInvariant, TypeInvariant
<1>1. /\ 1 \in Route(o) /\ RouteLength[o] \in Nat \ {0} /\ Route(o) = 1..RouteLength[o]
      /\ step[o] \in [1..RouteLength[o] -> StepRow]
  BY RouteNonempty DEF OrdersTyped, StepsTyped
<1>2. \A j \in Route(o) : step[o][j].readiness \notin Started
  BY RowsOfRoute DEF OrdersTyped
<1>3. i = 1
  <2>1. PriorComplete(step[o], i)
    BY StartIsGated
  <2> QED
    BY <1>1, <1>2, <2>1 DEF PriorComplete, Started
<1>4. step[o][1].readiness \notin Started \cup {"ABSENT"}
  BY <1>1, <1>2 DEF RowsExist, Live, Start, CanStart, Executable
<1>5. RowsAtStart(o)[1].readiness = "READY"
  BY <1>3 DEF Start, CanStart
<1>6. ASSUME ~ EnoughMaterial(o) PROVE FALSE
  <2>1. MaterialRefreshed(step[o], RequiresMaterial(o), EnoughMaterial(o)) =
          MaterialRefreshed(step[o], TRUE, FALSE)
    BY <1>6 DEF MaterialRefreshed
  <2>2. FlowRefreshed(MaterialRefreshed(step[o], TRUE, FALSE), inspection[o],
                      Planned[o])[1].readiness # "READY"
    BY <1>1, <1>4, ShortIsNotReady
  <2> QED
    BY <1>5, <2>1, <2>2 DEF RowsAtStart
<1> QED
  BY <1>6

\* No command on an order leaves it live without rows.
LEMMA OrderStepRowsExist ==
  ASSUME BillInvariant, TypeOK', NEW o \in Order, OrderStep(o) PROVE RowsExist(o)'
<1> USE TypeParts DEF BillInvariant, LifeInvariant, FlowInvariant, TypeInvariant
<1>1. /\ 1 \in Route(o) /\ RouteLength[o] \in Nat \ {0} /\ Route(o) = 1..RouteLength[o]
  BY RouteNonempty
<1>2. CASE Release(o)
  <2>1. step'[o][1] = ReleasedStep(o, 1)
    BY <1>1, <1>2 DEF Release, CanRelease, OrdersTyped, StepsTyped
  <2>2. ReleasedStep(o, 1).readiness # "ABSENT"
    BY DEF ReleasedStep, NoStep
  <2> QED
    BY <2>1, <2>2 DEF RowsExist
<1>3. CASE Cancel(o)
  BY <1>3 DEF Cancel, CanCancel, OrdersTyped, OrderRow, RowsExist, Live
<1>4. ASSUME Live(o), NEW checks, NEW enough \in BOOLEAN, MaterialAndFlowProjected(o, checks, enough)
      PROVE  RowsExist(o)'
  BY <1>4, ProjectedFirstRow DEF RowsExist
<1>5. ASSUME NEW i \in Route(o), Start(o, i) PROVE RowsExist(o)'
  <2>1. step'[o][i].readiness = "IN_PROGRESS"
    BY <1>5, StartIsGated
  <2>2. CASE i = 1
    BY <2>1, <2>2 DEF RowsExist
  <2>3. CASE i # 1
    <3>1. step[o][1].readiness = "COMPLETED"
      BY <1>1, <1>5, <2>3, StartIsGated DEF PriorComplete
    <3>2. step'[o][1] = step[o][1]
      BY <1>1, <1>5, <2>3, <3>1, StartIsGated DEF Started
    <3> QED
      BY <3>1, <3>2 DEF RowsExist
  <2> QED
    BY <2>2, <2>3
<1>6. ASSUME NEW i \in Route(o), NEW good \in Nat, NEW defect \in Nat, Complete(o, i, good, defect)
      PROVE  RowsExist(o)'
  <2>1. /\ CompletedRows(o, i, good, defect) \in [Route(o) -> StepRow]
        /\ FlowProjected(o, CompletedRows(o, i, good, defect), inspection[o])
        /\ order[o].status = "IN_PROGRESS"
    BY <1>6, CompletedRowsType DEF Complete, CanComplete, CompletedRows
  <2>2. step'[o] = FlowRefreshed(CompletedRows(o, i, good, defect), inspection[o], Planned[o])
    BY <2>1, ProjectedRows
  <2> QED
    BY <1>1, <2>1, <2>2, RefreshedRowExists DEF RowsExist
<1>7. ASSUME NEW l \in Lot, NEW a \in Allocation, NEW quantity \in Nat \ {0}, Reserve(o, l, a, quantity)
      PROVE  RowsExist(o)'
  <2>1. Live(o) /\ MaterialAndFlowProjected(o, inspection[o], EnoughMaterial(o)')
    BY <1>7 DEF Reserve, CanReserve, Reservable, Live
  <2>2. EnoughMaterial(o)' \in BOOLEAN
    BY DEF EnoughMaterial
  <2> QED
    BY <1>4, <2>1, <2>2
<1>8. ASSUME NEW s, NEW verdict, VerdictProjected(o, s, verdict), Eligible(o, s)
      PROVE  RowsExist(o)'
  <2>1. Live(o) /\ MaterialAndFlowProjected(o, inspection[o]', EnoughMaterial(o))
    BY <1>8 DEF VerdictProjected, Eligible, Live
  <2>2. EnoughMaterial(o) \in BOOLEAN
    BY DEF EnoughMaterial
  <2> QED
    BY <1>4, <2>1, <2>2
<1> QED
  BY <1>2, <1>3, <1>5, <1>6, <1>7, <1>8, OrderStepCases DEF Verdict, CanDecide, Review,
                                                            CanReview

\* The commands on an order keep its reservations within its bill of materials:
\* only reserve adds to them, and counts first.
LEMMA OrderStepWithinBill ==
  ASSUME BillInvariant, TypeOK', NEW o \in Order, OrderStep(o) PROVE WithinBill(o)'
<1> USE TypeParts DEF BillInvariant, LifeInvariant, FlowInvariant, TypeInvariant
<1> SUFFICES ASSUME RequiresMaterial(o), NEW m \in Material
             PROVE  Total(HeldOfMaterial(o, m))' <= Required[o][m]
  BY DEF WithinBill
<1>1. Total(HeldOfMaterial(o, m)) <= Required[o][m] /\ Required[o][m] \in Nat
  BY DatabaseAssumption DEF WithinBill
<1>2. CASE HoldsNoMore(o)
  BY <1>1, <1>2, HeldTotals
<1>3. ASSUME NEW l \in Lot, NEW a \in Allocation, NEW quantity \in Nat \ {0}, Reserve(o, l, a, quantity)
      PROVE  Total(HeldOfMaterial(o, m))' <= Required[o][m]
  <2> DEFINE before == HeldOfMaterial(o, m)
  <2>1. /\ alloc[a].status = "FREE"
        /\ alloc'[a] = [status |-> "ACTIVE", order |-> o, lot |-> l, quantity |-> quantity,
                        reason |-> "NONE"]
        /\ \A b \in Allocation \ {a} : alloc'[b] = alloc[b]
    BY <1>3 DEF Reserve, CanReserve, AllocationsTyped
  <2>2. before \in SUBSET Allocation /\ a \notin before
    BY <2>1 DEF HeldOfMaterial, HeldBy, Active
  <2>3. HeldOfMaterial(o, m)' = IF MaterialOf[l] = m THEN before \cup {a} ELSE before
    BY <2>1 DEF HeldOfMaterial, HeldBy, Active
  <2>4. Total(before) = Sum(before, alloc)
    BY TotalIsSum
  <2>5. CASE MaterialOf[l] # m
    <3>1. Total(HeldOfMaterial(o, m))' = Sum(before, alloc')
      BY <2>3, <2>5 DEF Total, Pieces, Sum
    <3>2. Sum(before, alloc') = Sum(before, alloc)
      BY <2>1, <2>2, SumKept
    <3> QED
      BY <1>1, <2>4, <3>1, <3>2
  <2>6. CASE MaterialOf[l] = m
    <3>1. Total(HeldOfMaterial(o, m))' = Sum(before \cup {a}, alloc')
      BY <2>3, <2>6 DEF Total, Pieces, Sum
    <3>2. alloc'[a].quantity = quantity /\ \A b \in before : alloc'[b].quantity = alloc[b].quantity
      BY <2>1, <2>2
    <3>3. Sum(before \cup {a}, alloc') = Sum(before, alloc) + quantity
      <4> HIDE DEF before
      <4> QED
        BY <2>2, <3>2, SumExtended
    <3>4. Total(before) + quantity <= Required[o][m]
      BY <1>3, <2>6 DEF Reserve, CanReserve, WithinRequirement
    <3> QED
      BY <2>4, <3>1, <3>3, <3>4
  <2> QED
    BY <2>5, <2>6
<1> QED
  BY <1>2, <1>3, OrderStepHolds

\* After a refresh that saw the reservations of the next state, a READY first
\* step of a released order is covered by them.
LEMMA RefreshCovers ==
  ASSUME BillInvariant, TypeOK', NEW o \in Order, Refreshed(o), NEW checks,
         NEW enough \in BOOLEAN, MaterialAndFlowProjected(o, checks, enough),
         enough => \A m \in Material : Total(HeldOfMaterial(o, m))' >= Required[o][m]
  PROVE  ReadyCovered(o)'
<1> USE TypeParts DEF BillInvariant, LifeInvariant, FlowInvariant, TypeInvariant
<1> SUFFICES ASSUME order'[o].status = "RELEASED", step'[o][1].readiness = "READY",
                    NEW m \in Material
             PROVE  Total(HeldOfMaterial(o, m))' >= Required[o][m]
  BY DEF ReadyCovered
<1>1. CASE ~ RequiresMaterial(o)
  <2>1. HeldOfMaterial(o, m)' \in SUBSET Allocation
    BY DEF HeldOfMaterial, HeldBy, Active
  <2>2. \A a \in HeldOfMaterial(o, m)' : alloc'[a].quantity \in Nat
    BY <2>1 DEF AllocationsTyped, AllocationRow
  <2>3. Sum(HeldOfMaterial(o, m)', alloc') \in Nat
    BY <2>1, <2>2, SumNat
  <2>4. Total(HeldOfMaterial(o, m))' = Sum(HeldOfMaterial(o, m)', alloc')
    BY DEF Total, Pieces, Sum
  <2> QED
    BY <1>1, <2>3, <2>4, NothingRequired
<1>2. CASE RequiresMaterial(o)
  <2>1. 1 \in Route(o)
    BY RouteNonempty
  <2>2. step[o][1].readiness \notin Started
    <3>1. step'[o][1].readiness \notin Started
      BY DEF Started
    <3> QED
      BY <2>1, <3>1 DEF Refreshed, KeepsStarted
  <2>3. Live(o) /\ RowsExist(o)
    BY DEF Refreshed
  <2>4. enough
    BY <1>2, <2>2, <2>3, ProjectedFirstRow
  <2> QED
    BY <2>4
<1> QED
  BY <1>1, <1>2

\* Every command on a released order whose first step is READY afterwards leaves
\* the step covered by the reservations.
LEMMA OrderStepReady ==
  ASSUME BillInvariant, TypeOK', NEW o \in Order, OrderStep(o) PROVE ReadyCovered(o)'
<1> USE TypeParts DEF BillInvariant, LifeInvariant, FlowInvariant, TypeInvariant
<1>1. CASE Release(o)
  <2>1. 1 \in Route(o) /\ Active' = Active /\ alloc' = alloc
    BY <1>1, RouteNonempty DEF Release, CanRelease, inventoryVars, Active
  <2>2. step'[o][1] = ReleasedStep(o, 1)
    BY <1>1, <2>1 DEF Release, CanRelease, OrdersTyped, StepsTyped
  <2>3. step'[o][1].readiness = "READY" => ~ RequiresMaterial(o)
    BY <2>2 DEF ReleasedStep, NoStep
  <2>4. ASSUME NEW m \in Material PROVE Total(HeldOfMaterial(o, m))' \in Nat
    BY <2>1, HeldTotals DEF HoldsNoMore, HeldBy
  <2> QED
    BY <2>3, <2>4, NothingRequired DEF ReadyCovered
<1>2. CASE Cancel(o)
  BY <1>2 DEF Cancel, CanCancel, OrdersTyped, OrderRow, ReadyCovered
<1>3. CASE \E i \in Route(o) : Start(o, i)
  BY <1>3, StartedStatus DEF ReadyCovered
<1>4. CASE \E i \in Route(o), good, defect \in Nat : Complete(o, i, good, defect)
  BY <1>4, CompletedStatus DEF ReadyCovered
<1>5. ASSUME NEW l \in Lot, NEW a \in Allocation, NEW quantity \in Nat \ {0}, Reserve(o, l, a, quantity)
      PROVE  ReadyCovered(o)'
  <2>1. /\ Live(o) /\ inspection' = inspection
        /\ MaterialAndFlowProjected(o, inspection[o], EnoughMaterial(o)')
    BY <1>5 DEF Reserve, CanReserve, Reservable, Live, inspectionVars
  <2>2. Refreshed(o)
    BY <2>1, MaterialAndFlowRefreshes
  <2>3. EnoughMaterial(o)' => \A m \in Material : Total(HeldOfMaterial(o, m))' >= Required[o][m]
    BY EnoughCoversNext
  <2>4. EnoughMaterial(o)' \in BOOLEAN
    BY DEF EnoughMaterial
  <2> QED
    BY <2>1, <2>2, <2>3, <2>4, RefreshCovers
<1>6. ASSUME NEW s, NEW verdict, VerdictProjected(o, s, verdict), Eligible(o, s), alloc' = alloc
      PROVE  ReadyCovered(o)'
  <2>1. Live(o) /\ MaterialAndFlowProjected(o, inspection'[o], EnoughMaterial(o))
    BY <1>6 DEF VerdictProjected, Eligible, Live
  <2>2. Refreshed(o)
    BY <2>1, MaterialAndFlowRefreshes
  <2>3. \A m \in Material : Total(HeldOfMaterial(o, m))' = Total(HeldOfMaterial(o, m))
    BY <1>6 DEF Total, Pieces, HeldOfMaterial, HeldBy, Active
  <2>4. EnoughMaterial(o) => \A m \in Material : Total(HeldOfMaterial(o, m))' >= Required[o][m]
    BY <2>3, EnoughCovers
  <2>5. EnoughMaterial(o) \in BOOLEAN
    BY DEF EnoughMaterial
  <2> QED
    BY <2>1, <2>2, <2>4, <2>5, RefreshCovers
<1> QED
  BY <1>1, <1>2, <1>3, <1>4, <1>5, <1>6, OrderStepCases DEF Verdict, CanDecide, Review,
                                                            CanReview, inventoryVars

\* An order with a bill of materials that has begun holds nothing.
LEMMA BegunHoldsNothing ==
  ASSUME BillInvariant, NEW o \in Order, RequiresMaterial(o), AnyStarted(step[o])
  PROVE  HeldBy(o) = {}
<1> USE TypeParts DEF BillInvariant, LifeInvariant, FlowInvariant, TypeInvariant
<1>1. o \notin Imported
  BY DatabaseAssumption DEF RequiresMaterial
<1>2. order[o].status # "RELEASED"
  BY StatusByRows DEF OrdersTyped, StatusDerived, Live
<1> QED
  BY <1>1, <1>2 DEF ClaimsJustified, ClaimJustified, HeldBy

\* The first start builds in as many pieces of each material as were held of it.
LEMMA FirstStartBuilds ==
  ASSUME AllocationsTyped, OrdersTyped, NEW o \in Order, \A l \in Lot : consumed[o][l] = 0,
         consumed' = [consumed EXCEPT ![o] = RelationsExtended(o)], NEW m \in Material
  PROVE  Cardinality(BuiltIn(o, m))' = Total(HeldOfMaterial(o, m))
<1> DEFINE held == HeldOfMaterial(o, m)
           P == Pieces(held)
           L == {k \in Lot : MaterialOf[k] = m}
           home == [p \in P |-> alloc[p[1]].lot]
           n == [l \in L |-> Taken(o, l)]
<1>1. held \in SUBSET Allocation /\ \A a \in held : alloc[a].lot \in L
  BY DEF HeldOfMaterial, HeldBy, AllocationsTyped, Active
<1>2. IsFiniteSet(P)
  BY <1>1, PiecesFinite DEF AllocationsTyped, AllocationRow, QuantitiesTyped
<1>3. \A p \in P : p[1] \in held
  BY DEF Pieces
<1>4. home \in [P -> L]
  BY <1>1, <1>3
<1>5. ASSUME NEW l \in L PROVE Taken(o, l) \in Nat
  <2>1. {a \in HeldBy(o) : alloc[a].lot = l} \in SUBSET Allocation
    BY DEF HeldBy, Active
  <2> QED
    BY <2>1, TotalType DEF Taken
<1>6. n \in [L -> Nat]
  BY <1>5
<1>7. ASSUME NEW l \in L PROVE Cardinality(PartOf(P, home, l)) = n[l]
  <2>1. {a \in held : alloc[a].lot = l} = {a \in HeldBy(o) : alloc[a].lot = l}
    BY DEF HeldOfMaterial
  <2>2. PartOf(P, home, l) = Pieces({a \in held : alloc[a].lot = l})
    BY DEF PartOf, Pieces
  <2> QED
    BY <2>1, <2>2 DEF Taken, Total
<1>8. BuiltIn(o, m)' = PilesOf(L, n)
  <2>1. \A l \in L : consumed'[o][l] = n[l]
    BY <1>5 DEF OrdersTyped, RelationsExtended
  <2> QED
    BY <2>1 DEF BuiltIn, PilesOf
<1> HIDE DEF P, L, home, n, held
<1>9. Cardinality(PilesOf(L, n)) = Cardinality(P)
  BY <1>2, <1>4, <1>6, <1>7, Regrouped
<1> QED
  BY <1>8, <1>9 DEF P, held, Total

\* What an order has begun with is exactly its bill, and a later start adds nothing.
LEMMA OrderStepBuilt ==
  ASSUME BillInvariant, TypeOK', NEW o \in Order, OrderStep(o) PROVE BuiltAsBilled(o)'
<1> USE TypeParts DEF BillInvariant, LifeInvariant, FlowInvariant, TypeInvariant
<1> SUFFICES ASSUME RequiresMaterial(o), AnyStarted(step'[o]), NEW m \in Material
             PROVE  Cardinality(BuiltIn(o, m))' = Required[o][m]
  BY DEF BuiltAsBilled
<1>1. CASE consumed'[o] = consumed[o] /\ AnyStarted(step[o])
  <2>1. BuiltIn(o, m)' = BuiltIn(o, m)
    BY <1>1 DEF BuiltIn
  <2> QED
    BY <1>1, <2>1 DEF BuiltAsBilled
<1>2. CASE Release(o)
  <2>1. \A i \in Route(o) : step'[o][i].readiness \notin Started
    BY <1>2 DEF Release, CanRelease, ReleasedStep, NoStep, Started, OrdersTyped,
                StepsTyped
  <2> QED
    BY <2>1, RowsOfRouteNext DEF OrdersTyped
<1>3. CASE Cancel(o)
  BY <1>1, <1>3 DEF Cancel, CanCancel
<1>4. CASE Refreshed(o) /\ consumed' = consumed
  <2>1. AnyStarted(step[o])
    BY <1>4, RowsOfRoute, RowsOfRouteNext DEF Refreshed, KeepsStarted, OrdersTyped
  <2> QED
    BY <1>1, <1>4, <2>1
<1>5. ASSUME NEW i \in Route(o), NEW good \in Nat, NEW defect \in Nat, Complete(o, i, good, defect)
      PROVE  Cardinality(BuiltIn(o, m))' = Required[o][m]
  <2>1. step[o][i].readiness = "IN_PROGRESS" /\ consumed' = consumed
    BY <1>5 DEF Complete, CanComplete
  <2>2. AnyStarted(step[o])
    BY <2>1, RowsOfRoute DEF Started, OrdersTyped
  <2> QED
    BY <1>1, <2>1, <2>2
<1>6. ASSUME NEW i \in Route(o), Start(o, i)
      PROVE  Cardinality(BuiltIn(o, m))' = Required[o][m]
  <2>1. consumed' = [consumed EXCEPT ![o] = RelationsExtended(o)] /\ order[o].status \in Executable
    BY <1>6 DEF Start, CanStart
  <2>2. CASE AnyStarted(step[o])
    <3>1. \A l \in Lot : Taken(o, l) = 0
      <4>1. \A l \in Lot : {a \in HeldBy(o) : alloc[a].lot = l} = {}
        BY <2>2, BegunHoldsNothing
      <4>2. Total({}) = 0
        BY TotalIsSum, SumEmpty
      <4> QED
        BY <4>1, <4>2 DEF Taken
    <3>2. consumed[o] \in [Lot -> Nat]
      BY DEF OrdersTyped
    <3>3. RelationsExtended(o) = consumed[o]
      BY <3>1, <3>2 DEF RelationsExtended
    <3>4. consumed'[o] = consumed[o]
      BY <2>1, <3>3 DEF OrdersTyped
    <3> QED
      BY <1>1, <2>2, <3>4
  <2>3. CASE ~ AnyStarted(step[o])
    <3>1. order[o].status = "RELEASED"
      BY <2>1, <2>3, StatusByRows DEF OrdersTyped, StatusDerived, Live, Executable
    <3>2. \A l \in Lot : consumed[o][l] = 0
      BY <3>1 DEF NothingConsumed
    <3>3. Cardinality(BuiltIn(o, m))' = Total(HeldOfMaterial(o, m))
      BY <2>1, <3>2, FirstStartBuilds
    <3>4. Total(HeldOfMaterial(o, m)) >= Required[o][m]
      BY <1>6, <2>3, StartIsCovered, EnoughCovers
    <3>5. Total(HeldOfMaterial(o, m)) <= Required[o][m]
      BY DEF WithinBill
    <3>6. Total(HeldOfMaterial(o, m)) \in Nat /\ Required[o][m] \in Nat
      <4>1. HeldOfMaterial(o, m) \in SUBSET Allocation
        BY DEF HeldOfMaterial, HeldBy, Active
      <4> QED
        BY <4>1, TotalType, DatabaseAssumption
    <3> QED
      BY <3>3, <3>4, <3>5, <3>6
  <2> QED
    BY <2>2, <2>3
<1> QED
  BY <1>2, <1>3, <1>4, <1>5, <1>6, OrderStepEffect DEF OrderEffect

BillAt(o) == RowsExist(o) /\ ReadyCovered(o) /\ WithinBill(o) /\ BuiltAsBilled(o)

\* Where neither the order nor its reservations change, nor does what it holds.
LEMMA SameBill ==
  ASSUME AllocationsTyped, NEW p \in Order, BillAt(p), HoldsTheSame(p),
         step'[p] = step[p], order'[p] = order[p], consumed'[p] = consumed[p]
  PROVE  BillAt(p)'
<1>1. \A m \in Material : Total(HeldOfMaterial(p, m))' = Total(HeldOfMaterial(p, m))
  BY HeldTotals DEF HoldsTheSame
<1>2. RowsExist(p)' /\ ReadyCovered(p)' /\ WithinBill(p)'
  BY <1>1 DEF BillAt, RowsExist, Live, ReadyCovered, WithinBill
<1>3. BuiltAsBilled(p)'
  <2>1. \A m \in Material : BuiltIn(p, m)' = BuiltIn(p, m)
    BY DEF BuiltIn
  <2> QED
    BY <2>1 DEF BillAt, BuiltAsBilled
<1> QED
  BY <1>2, <1>3 DEF BillAt

\* Dissolving a reservation leaves its order with less and refreshes it.
LEMMA ReleaseReservationBill ==
  ASSUME BillInvariant, TypeOK', NEW a \in Allocation, ReleaseReservation(a), NEW p \in Order
  PROVE  BillAt(p)'
<1> USE TypeParts DEF BillInvariant, LifeInvariant, FlowInvariant, TypeInvariant
<1>1. a \in Active /\ ClaimJustified(a)
  BY DEF ReleaseReservation, CanDissolve, Active, ClaimsJustified
<1>2. PICK o \in Order : o = alloc[a].order
  BY <1>1 DEF AllocationsTyped
<1>3. /\ alloc' = [alloc EXCEPT ![a].status = "CLOSED", ![a].reason = "RELEASED"]
      /\ inspection' = inspection /\ consumed' = consumed
  BY DEF ReleaseReservation, CanDissolve, ReservationDissolved, inspectionVars
<1>4. /\ \A b \in Allocation \ {a} : alloc'[b] = alloc[b]
      /\ alloc'[a].status = "CLOSED" /\ alloc'[a].lot = alloc[a].lot
      /\ alloc'[a].quantity = alloc[a].quantity /\ alloc'[a].order = alloc[a].order
  <2>1. alloc[a] \in AllocationRow
    BY DEF AllocationsTyped
  <2> QED
    BY <1>3, <2>1 DEF AllocationsTyped, AllocationRow
<1>5. MaterialAndFlowProjected(o, inspection[o], EnoughMaterial(o)')
  <2>1. MaterialAndFlowProjected(alloc[a].order, inspection[alloc[a].order],
                                 EnoughMaterial(alloc[a].order)')
    BY DEF ReleaseReservation, CanDissolve, ReservationDissolved
  <2>2. EnoughMaterial(alloc[a].order)' = EnoughMaterial(o)'
    BY <1>2, <1>4
  <2> QED
    BY <1>2, <2>1, <2>2
<1>6. Live(o)
  BY <1>1, <1>2 DEF ClaimJustified, Live
<1>7. Refreshed(o)
  BY <1>5, <1>3, <1>6, MaterialAndFlowRefreshes
<1>8. CASE p # o
  <2>1. HoldsTheSame(p)
    BY <1>2, <1>4, <1>8 DEF HoldsTheSame, HoldsNoMore, HeldBy, Active
  <2>2. step'[p] = step[p] /\ order'[p] = order[p]
    BY <1>5, <1>8, MaterialRows, ProjectedRows DEF MaterialAndFlowProjected
  <2> QED
    BY <1>3, <2>1, <2>2, SameBill DEF BillAt
<1>9. CASE p = o
  <2>1. EnoughMaterial(o)' \in BOOLEAN
    BY DEF EnoughMaterial
  <2>2. RowsExist(o)'
    BY <1>5, <1>6, <2>1, ProjectedFirstRow DEF RowsExist
  <2>3. EnoughMaterial(o)' => \A m \in Material : Total(HeldOfMaterial(o, m))' >= Required[o][m]
    BY EnoughCoversNext
  <2>4. ReadyCovered(o)'
    BY <1>5, <1>7, <2>1, <2>3, RefreshCovers
  <2>5. HoldsNoMore(o)
    BY <1>4 DEF HoldsNoMore, HeldBy, Active
  <2>6. WithinBill(o)'
    <3>1. ASSUME RequiresMaterial(o), NEW m \in Material
          PROVE  Total(HeldOfMaterial(o, m))' <= Required[o][m]
      <4>1. Total(HeldOfMaterial(o, m)) <= Required[o][m] /\ Required[o][m] \in Nat
        BY <3>1, DatabaseAssumption DEF WithinBill
      <4> QED
        BY <2>5, <4>1, HeldTotals
    <3> QED
      BY <3>1 DEF WithinBill
  <2>7. BuiltAsBilled(o)'
    <3>1. AnyStarted(step'[o]) <=> AnyStarted(step[o])
      BY <1>7, RowsOfRoute, RowsOfRouteNext DEF Refreshed, KeepsStarted, OrdersTyped
    <3>2. \A m \in Material : BuiltIn(o, m)' = BuiltIn(o, m)
      BY <1>3 DEF BuiltIn
    <3> QED
      BY <3>1, <3>2 DEF BuiltAsBilled
  <2> QED
    BY <1>9, <2>2, <2>4, <2>6, <2>7 DEF BillAt
<1> QED
  BY <1>8, <1>9

\* The seeded orders: drafts hold nothing, imported ones require nothing.
LEMMA InitBill == Init => BillInvariant
<1> SUFFICES ASSUME Init PROVE BillInvariant
  OBVIOUS
<1>1. LifeInvariant
  BY InitLifeInvariant
<1> USE TypeParts DEF LifeInvariant, FlowInvariant, TypeInvariant
<1>2. ASSUME NEW o \in Order PROVE BillAt(o)
  <2>1. CASE o \in Imported
    <3>1. order[o].status = "IN_PROGRESS" /\ ~ RequiresMaterial(o)
      BY <2>1, DatabaseAssumption DEF Init, RequiresMaterial
    <3>2. step[o][1].readiness = "IN_PROGRESS"
      BY <2>1, ImportedRows
    <3> QED
      BY <3>1, <3>2 DEF BillAt, RowsExist, ReadyCovered, WithinBill, BuiltAsBilled
  <2>2. CASE o \notin Imported
    <3>1. order[o].status = "DRAFT" /\ \A i \in Route(o) : step[o][i] = NoStep
      BY <2>2 DEF Init, SeedStep
    <3>2. ~ AnyStarted(step[o])
      BY <1>1, <3>1, RowsOfRoute DEF OrdersTyped, NoStep, Started
    <3>3. HeldBy(o) = {}
      BY <1>1, <2>2, <3>1 DEF ClaimsJustified, ClaimJustified, HeldBy
    <3>4. ASSUME NEW m \in Material
          PROVE  Total(HeldOfMaterial(o, m)) = 0 /\ Required[o][m] \in Nat
      <4>1. HeldOfMaterial(o, m) = {}
        BY <3>3 DEF HeldOfMaterial
      <4> QED
        BY <4>1, TotalIsSum, SumEmpty, DatabaseAssumption
    <3> QED
      BY <3>1, <3>2, <3>4 DEF BillAt, RowsExist, Live, ReadyCovered, WithinBill, BuiltAsBilled
  <2> QED
    BY <2>1, <2>2
<1> QED
  BY <1>1, <1>2 DEF BillInvariant, BillAt

LEMMA NextBill == BillInvariant /\ [Next]_vars => BillInvariant'
<1> SUFFICES ASSUME BillInvariant, [Next]_vars PROVE BillInvariant'
  OBVIOUS
<1> USE TypeParts DEF LifeInvariant, FlowInvariant, TypeInvariant
<1>1. LifeInvariant' /\ LifeInvariant /\ \A p \in Order : BillAt(p)
  BY NextLifeInvariant DEF BillInvariant, BillAt
<1>2. ASSUME NEW o \in Order, OrderStep(o), NEW p \in Order PROVE BillAt(p)'
  <2>1. CASE p = o
    BY <1>1, <1>2, <2>1, OrderStepRowsExist, OrderStepReady, OrderStepWithinBill, OrderStepBuilt
       DEF BillAt
  <2>2. CASE p # o
    <3>1. /\ step'[p] = step[p] /\ order'[p] = order[p] /\ consumed'[p] = consumed[p]
          /\ HoldsTheSame(p)
      BY <1>1, <1>2, <2>2, OthersUntouched, OthersNotConsumed, OrderStepHolds
    <3> QED
      BY <1>1, <3>1, SameBill
  <2> QED
    BY <2>1, <2>2
<1>3. ASSUME NEW a \in Allocation, ReleaseReservation(a), NEW p \in Order PROVE BillAt(p)'
  BY <1>1, <1>3, ReleaseReservationBill
<1>4. ASSUME UNCHANGED <<order, step, consumed, inspection, alloc>>, NEW p \in Order
      PROVE  BillAt(p)'
  <2>1. HoldsTheSame(p)
    BY <1>4 DEF HoldsTheSame, HoldsNoMore, HeldBy, Active
  <2> QED
    BY <1>1, <1>4, <2>1, SameBill
<1>5. \A p \in Order : BillAt(p)'
  BY <1>2, <1>3, <1>4, StepKinds
<1> QED
  BY <1>1, <1>5 DEF BillInvariant, BillAt

\* What every order holds and has built in, for every interleaving of commands.
THEOREM BillHolds == Spec => []BillInvariant
<1> QED
  BY InitBill, NextBill, PTL DEF Spec

(***************************************************************************)
(* The first step of a released order is READY only while its reservations *)
(* cover the whole demand, however often reserve and release alternate and *)
(* verdicts of the order refresh it in between.                            *)
(***************************************************************************)
THEOREM ReadyIsReserved == Spec => []ReadyFullyReserved
<1>1. BillInvariant => ReadyFullyReserved
  BY DEF BillInvariant, ReadyCovered, ReadyFullyReserved
<1> QED
  BY <1>1, BillHolds, PTL

(***************************************************************************)
(* RULE-26: an order that has begun consumed exactly its snapshotted bill  *)
(* of materials, however its reservations were split over lots, released   *)
(* and made again, and one that has not consumed nothing                   *)
(* (reserve in material-reservations.service.ts, start in                  *)
(* process-commands.service.ts).                                           *)
(***************************************************************************)
THEOREM BillIsConsumed == Spec => []BillOfMaterialsConsumed
<1>1. BillInvariant => BillOfMaterialsConsumed
  <2> SUFFICES ASSUME BillInvariant, NEW o \in Order, RequiresMaterial(o), NEW m \in Material
               PROVE  Cardinality(BuiltIn(o, m)) =
                        IF AnyStarted(step[o]) THEN Required[o][m] ELSE 0
    BY DEF BillOfMaterialsConsumed
  <2> USE TypeParts DEF BillInvariant, LifeInvariant, FlowInvariant, TypeInvariant
  <2>1. CASE AnyStarted(step[o])
    BY <2>1 DEF BuiltAsBilled
  <2>2. CASE ~ AnyStarted(step[o])
    <3>1. order[o].status \in {"DRAFT", "RELEASED", "CANCELLED"}
      BY <2>2, StatusByRows DEF OrdersTyped, OrderRow, StatusDerived, Live
    <3>2. \A l \in Lot : consumed[o][l] = 0
      BY <3>1 DEF NothingConsumed
    <3>3. BuiltIn(o, m) = {}
      BY <3>2 DEF BuiltIn
    <3> QED
      BY <2>2, <3>3, FS_EmptySet
  <2> QED
    BY <2>1, <2>2
<1> QED
  BY <1>1, BillHolds, PTL
=============================================================================
