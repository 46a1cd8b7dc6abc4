----------------------- MODULE ManufacturingFlowProofs -----------------------
(***************************************************************************)
(* Lemmas about the operators of ProductionFlow (what a refresh preserves, *)
(* that a second one changes nothing, what a READY row or a COMPLETED      *)
(* status implies), and type correctness of the composed system, for every *)
(* set of orders, lots and inspectors.                                     *)
(***************************************************************************)
EXTENDS ManufacturingFlow, WellFoundedInduction, FiniteSetTheorems, TLAPS

-----------------------------------------------------------------------------
(* THE REFRESH OF AN ORDER *)

\* A refresh writes codes the schema knows (inspectionReasons).
LEMMA InspectionReasonsType ==
  ASSUME NEW checks, NEW S
  PROVE  InspectionReasons(checks, S) \subseteq FlowReasons
BY DEF InspectionReasons, InspectionReason, FlowReasons

\* refreshMaterialReadiness keeps the rows well formed.
LEMMA MaterialRefreshedType ==
  ASSUME NEW n \in Nat \ {0}, NEW rows \in [1..n -> StepRow],
         NEW required, NEW enough
  PROVE  MaterialRefreshed(rows, required, enough) \in [1..n -> StepRow]
<1> DEFINE reasons == (rows[1].reasons \ MaterialReasons)
                        \cup (IF enough THEN {} ELSE {"MATERIAL_SHORTAGE"})
           readiness == IF reasons = {} THEN "READY" ELSE "BLOCKED"
<1>1. 1 \in 1..n /\ rows[1] \in StepRow
  OBVIOUS
<1>2. reasons \in SUBSET ReasonCode
  BY <1>1 DEF StepRow, ReasonCode, MaterialReasons
<1>3. readiness \in Readiness
  BY DEF Readiness
<1> HIDE DEF reasons, readiness
<1>4. [rows EXCEPT ![1].reasons = reasons, ![1].readiness = readiness]
        \in [1..n -> StepRow]
  BY <1>1, <1>2, <1>3 DEF StepRow
<1> QED
  BY <1>4 DEF MaterialRefreshed, reasons, readiness

\* refreshProductionFlow keeps the rows well formed.
LEMMA FlowRefreshedType ==
  ASSUME NEW n \in Nat, NEW rows \in [1..n -> StepRow], NEW checks, NEW planned
  PROVE  FlowRefreshed(rows, checks, planned) \in [1..n -> StepRow]
<1>1. ASSUME NEW i \in 1..n
      PROVE  StepReasons(rows, i, checks, planned) \in SUBSET ReasonCode
  <2>1. rows[i].reasons \in SUBSET ReasonCode
    BY DEF StepRow
  <2>2. NoOutputReasons(rows, i, planned) \subseteq FlowReasons
    BY DEF NoOutputReasons, FlowReasons
  <2> QED
    BY <2>1, <2>2, InspectionReasonsType DEF StepReasons, ReasonCode
<1>2. ASSUME NEW i \in 1..n, NEW reasons
      PROVE  ReadinessOf(rows, i, reasons) \in Readiness
  BY DEF ReadinessOf, Readiness
<1>3. ASSUME NEW i \in 1..n, NEW reasons \in SUBSET ReasonCode, NEW readiness \in Readiness
      PROVE  [rows[i] EXCEPT !.reasons = reasons, !.readiness = readiness] \in StepRow
  BY DEF StepRow
<1>4. DOMAIN rows = 1..n
  OBVIOUS
<1> QED
  BY <1>1, <1>2, <1>3, <1>4 DEF FlowRefreshed

\* The first position of a set of steps exists.
LEMMA FirstOfType ==
  ASSUME NEW S \in SUBSET Nat
  PROVE  /\ FirstOf(S) \in Nat
         /\ S # {} => FirstOf(S) \in S
<1>1. CASE S = {}
  BY <1>1 DEF FirstOf
<1>2. CASE S # {}
  <2> DEFINE Less == OpToRel(<, Nat)
  <2>1. IsWellFoundedOn(Less, Nat)
    BY NatLessThanWellFounded
  <2>2. \A x, y \in Nat : y < x => <<y, x>> \in Less
    BY DEF OpToRel
  <2> HIDE DEF Less
  <2>3. \E x \in S : \A y \in S : ~ (<<y, x>> \in Less)
    BY <1>2, <2>1, WFMin
  <2>4. PICK x \in S : \A y \in S : ~ (<<y, x>> \in Less)
    BY <2>3
  <2>5. ASSUME NEW y \in S PROVE x <= y
    <3>1. ~ (y < x)
      BY <2>2, <2>4
    <3> QED
      BY <3>1
  <2> QED
    BY <1>2, <2>5 DEF FirstOf
<1> QED
  BY <1>1, <1>2

\* The projection onto the order row is well formed.
LEMMA OrderRefreshedType ==
  ASSUME NEW n \in Nat, NEW rows \in [1..n -> StepRow], NEW checks
  PROVE  OrderRefreshed(rows, checks) \in OrderRow
<1>1. DOMAIN rows = 1..n
  OBVIOUS
<1> DEFINE unfinished == {i \in 1..n : rows[i].readiness # "COMPLETED"}
           blocked == {i \in 1..n : rows[i].readiness = "BLOCKED"}
<1>2. unfinished \in SUBSET Nat /\ blocked \in SUBSET Nat
  OBVIOUS
<1>3. FirstOf(unfinished) \in Nat
  BY <1>2, FirstOfType
<1>4. FirstOf(blocked) \in Nat /\ (FirstOf(blocked) # 0 => FirstOf(blocked) \in 1..n)
  <2>1. CASE blocked = {}
    BY <2>1 DEF FirstOf
  <2>2. CASE blocked # {}
    BY <1>2, <2>2, FirstOfType
  <2> QED
    BY <2>1, <2>2
<1>5. StatusOf(rows, checks) \in {"DRAFT", "RELEASED", "IN_PROGRESS", "COMPLETED", "CANCELLED"}
  BY DEF StatusOf
<1> DEFINE Codes == ReasonCode \cup {"RESERVATION_NEEDED", "VERDICT_NEEDED"}
<1>6. BlockedOf(rows, checks) \in [step : Nat, codes : SUBSET Codes]
  <2>1. \A i \in 1..n : rows[i].reasons \in SUBSET Codes
    BY DEF StepRow
  <2>2. BlockedOf(rows, checks) =
          IF FirstOf(blocked) # 0
          THEN [step |-> FirstOf(blocked), codes |-> rows[FirstOf(blocked)].reasons]
          ELSE IF AllCompleted(rows) /\ InspectionReasons(checks, InspectionSpec) # {}
          THEN VerdictNeeded ELSE NotBlocked
    BY <1>1 DEF BlockedOf
  <2>3. VerdictNeeded \in [step : Nat, codes : SUBSET Codes]
    BY DEF VerdictNeeded
  <2>4. NotBlocked \in [step : Nat, codes : SUBSET Codes]
    BY DEF NotBlocked
  <2> HIDE DEF blocked, Codes
  <2> QED
    BY <1>4, <2>1, <2>2, <2>3, <2>4
<1> QED
  BY <1>1, <1>3, <1>5, <1>6 DEF OrderRefreshed, OrderRow

-----------------------------------------------------------------------------
(* STARTED ROWS *)

\* refreshMaterialReadiness touches no row that has begun, and begins none.
LEMMA MaterialRefreshedKeepsStarted ==
  ASSUME NEW n \in Nat \ {0}, NEW rows \in [1..n -> StepRow],
         NEW required, NEW enough, NEW i \in 1..n
  PROVE  LET new == MaterialRefreshed(rows, required, enough)[i] IN
         /\ rows[i].readiness \in Started => new = rows[i]
         /\ rows[i].readiness \notin Started => new.readiness \notin Started
<1>1. 1 \in 1..n /\ rows[1] \in StepRow
  OBVIOUS
<1> QED
  BY <1>1 DEF MaterialRefreshed, Started, StepRow

\* refreshProductionFlow touches no row that has begun, and begins none.
LEMMA FlowRefreshedKeepsStarted ==
  ASSUME NEW n \in Nat, NEW rows \in [1..n -> StepRow], NEW checks, NEW planned,
         NEW i \in 1..n
  PROVE  LET new == FlowRefreshed(rows, checks, planned)[i] IN
         /\ rows[i].readiness \in Started => new = rows[i]
         /\ rows[i].readiness \notin Started => new.readiness \notin Started
<1>1. i \in DOMAIN rows /\ rows[i] \in StepRow
  OBVIOUS
<1>2. CASE rows[i].readiness \in Started
  BY <1>1, <1>2 DEF FlowRefreshed
<1>3. CASE rows[i].readiness \notin Started
  <2> DEFINE reasons == StepReasons(rows, i, checks, planned)
             readiness == ReadinessOf(rows, i, reasons)
  <2>1. readiness \notin Started
    BY DEF ReadinessOf, Started
  <2> HIDE DEF readiness, reasons
  <2>2. FlowRefreshed(rows, checks, planned)[i] =
          [rows[i] EXCEPT !.reasons = reasons, !.readiness = readiness]
    BY <1>1, <1>3 DEF FlowRefreshed, readiness, reasons
  <2>3. FlowRefreshed(rows, checks, planned)[i].readiness = readiness
    BY <1>1, <2>2 DEF StepRow
  <2> QED
    BY <1>3, <2>1, <2>3
<1> QED
  BY <1>2, <1>3

\* A row that a refresh makes READY has its predecessors completed and no
\* open, held or failed gate inspection before it.
LEMMA ReadyIsGated ==
  ASSUME NEW n \in Nat, NEW rows \in [1..n -> StepRow], NEW checks, NEW planned,
         NEW i \in 1..n,
         FlowRefreshed(rows, checks, planned)[i].readiness = "READY"
  PROVE  /\ rows[i].readiness \notin Started
         /\ PriorComplete(rows, i)
         /\ \A s \in GatesBefore(i) : InspectionReason(checks[s]) = "NO_REASON"
<1>1. i \in DOMAIN rows /\ rows[i] \in StepRow
  OBVIOUS
<1>2. rows[i].readiness \notin Started
  BY <1>1 DEF FlowRefreshed, Started
<1> DEFINE reasons == StepReasons(rows, i, checks, planned)
<1>3. ReadinessOf(rows, i, reasons) = "READY"
  <2> HIDE DEF reasons
  <2>1. FlowRefreshed(rows, checks, planned)[i] =
          [rows[i] EXCEPT !.reasons = reasons, !.readiness = ReadinessOf(rows, i, reasons)]
    BY <1>1, <1>2 DEF FlowRefreshed, reasons
  <2> QED
    BY <1>1, <2>1 DEF StepRow
<1>4. reasons = {} /\ PriorComplete(rows, i)
  BY <1>3 DEF ReadinessOf
<1>5. InspectionReasons(checks, GatesBefore(i)) = {}
  BY <1>4 DEF StepReasons
<1> QED
  BY <1>2, <1>4, <1>5 DEF InspectionReasons

-----------------------------------------------------------------------------
(* THE FIRST ROW *)

\* What a refresh makes of a row that has not begun.
LEMMA RefreshedRow ==
  ASSUME NEW n \in Nat, NEW rows \in [1..n -> StepRow], NEW checks, NEW planned,
         NEW i \in 1..n, rows[i].readiness \notin Started
  PROVE  LET new == FlowRefreshed(rows, checks, planned)[i]
             reasons == StepReasons(rows, i, checks, planned)
         IN /\ new.readiness = ReadinessOf(rows, i, reasons)
            /\ new.reasons = reasons
            /\ new.good = rows[i].good /\ new.defect = rows[i].defect
<1> DEFINE reasons == StepReasons(rows, i, checks, planned)
           readiness == ReadinessOf(rows, i, reasons)
<1>1. i \in DOMAIN rows /\ rows[i] \in StepRow
  OBVIOUS
<1> HIDE DEF readiness, reasons
<1>2. FlowRefreshed(rows, checks, planned)[i] =
        [rows[i] EXCEPT !.reasons = reasons, !.readiness = readiness]
  BY <1>1 DEF FlowRefreshed, readiness, reasons
<1>3. /\ FlowRefreshed(rows, checks, planned)[i].readiness = readiness
      /\ FlowRefreshed(rows, checks, planned)[i].reasons = reasons
      /\ FlowRefreshed(rows, checks, planned)[i].good = rows[i].good
      /\ FlowRefreshed(rows, checks, planned)[i].defect = rows[i].defect
  BY <1>1, <1>2 DEF StepRow
<1> QED
  BY <1>3 DEF readiness, reasons

\* Every refreshed row is a row that exists.
LEMMA RefreshedRowExists ==
  ASSUME NEW n \in Nat, NEW rows \in [1..n -> StepRow], NEW checks, NEW planned,
         NEW i \in 1..n
  PROVE  FlowRefreshed(rows, checks, planned)[i].readiness # "ABSENT"
<1>1. CASE rows[i].readiness \in Started
  BY <1>1, FlowRefreshedKeepsStarted DEF Started
<1>2. CASE rows[i].readiness \notin Started
  BY <1>2, RefreshedRow DEF ReadinessOf
<1> QED
  BY <1>1, <1>2

\* A shortage found by refreshMaterialReadiness survives refreshProductionFlow:
\* the first step is not READY while the material does not suffice.
LEMMA ShortIsNotReady ==
  ASSUME NEW n \in Nat \ {0}, NEW rows \in [1..n -> StepRow], NEW checks, NEW planned,
         rows[1].readiness \notin Started \cup {"ABSENT"}
  PROVE  FlowRefreshed(MaterialRefreshed(rows, TRUE, FALSE), checks, planned)[1].readiness # "READY"
<1> DEFINE before == MaterialRefreshed(rows, TRUE, FALSE)
<1>1. 1 \in 1..n /\ rows[1] \in StepRow
  OBVIOUS
<1>2. before \in [1..n -> StepRow] /\ before[1].readiness \notin Started
  BY <1>1, MaterialRefreshedType, MaterialRefreshedKeepsStarted
<1>3. "MATERIAL_SHORTAGE" \in before[1].reasons
  BY <1>1 DEF MaterialRefreshed, StepRow
<1> HIDE DEF before
<1>4. "MATERIAL_SHORTAGE" \in StepReasons(before, 1, checks, planned)
  BY <1>3 DEF StepReasons, FlowReasons
<1>5. FlowRefreshed(before, checks, planned)[1].readiness # "READY"
  BY <1>1, <1>2, <1>4, RefreshedRow DEF ReadinessOf
<1> QED
  BY <1>5 DEF before

-----------------------------------------------------------------------------
(* REFRESHING AGAIN *)

\* Two tables of rows with the same completed steps, of the same output.
SameOutput(rows, other) ==
  \A i \in DOMAIN rows :
    /\ other[i].readiness = "COMPLETED" <=> rows[i].readiness = "COMPLETED"
    /\ rows[i].readiness = "COMPLETED" => other[i].good = rows[i].good

\* They let the same steps begin, as far as the predecessors are concerned.
LEMMA SameOutputSamePriors ==
  ASSUME NEW n \in Nat, NEW rows \in [1..n -> StepRow], NEW other \in [1..n -> StepRow],
         SameOutput(rows, other), NEW i \in 1..n, NEW planned
  PROVE  /\ PriorComplete(other, i) <=> PriorComplete(rows, i)
         /\ NoOutputReasons(other, i, planned) = NoOutputReasons(rows, i, planned)
<1>1. DOMAIN rows = 1..n /\ 1..(i-1) \subseteq 1..n /\ (i # 1 => i - 1 \in 1..n)
  OBVIOUS
<1>2. PriorComplete(other, i) <=> PriorComplete(rows, i)
  BY <1>1 DEF PriorComplete, SameOutput
<1>3. OutputQuantityLimit(other, i, planned) = OutputQuantityLimit(rows, i, planned)
  <2>1. CASE i = 1
    BY <2>1 DEF OutputQuantityLimit
  <2>2. CASE i # 1
    <3>1. /\ other[i-1].readiness = "COMPLETED" <=> rows[i-1].readiness = "COMPLETED"
          /\ rows[i-1].readiness = "COMPLETED" => other[i-1].good = rows[i-1].good
      BY <1>1, <2>2 DEF SameOutput
    <3> QED
      BY <2>2, <3>1 DEF OutputQuantityLimit
  <2> QED
    BY <2>1, <2>2
<1> QED
  BY <1>2, <1>3 DEF NoOutputReasons

\* Rows are current when every row that has not begun carries what a refresh of
\* it would write.
LEMMA CurrentByRows ==
  ASSUME NEW n \in Nat, NEW rows \in [1..n -> StepRow], NEW checks, NEW planned,
         \A i \in 1..n : rows[i].readiness \notin Started =>
           /\ rows[i].reasons = StepReasons(rows, i, checks, planned)
           /\ rows[i].readiness = ReadinessOf(rows, i, rows[i].reasons)
  PROVE  rows = FlowRefreshed(rows, checks, planned)
<1> DEFINE new == FlowRefreshed(rows, checks, planned)
<1>1. new \in [1..n -> StepRow]
  BY FlowRefreshedType
<1>2. ASSUME NEW i \in 1..n PROVE new[i] = rows[i]
  <2>1. CASE rows[i].readiness \in Started
    BY <2>1, FlowRefreshedKeepsStarted
  <2>2. CASE rows[i].readiness \notin Started
    <3>1. /\ new[i].reasons = rows[i].reasons /\ new[i].readiness = rows[i].readiness
          /\ new[i].good = rows[i].good /\ new[i].defect = rows[i].defect
      BY <2>2, RefreshedRow
    <3>2. new[i] \in StepRow /\ rows[i] \in StepRow
      BY <1>1
    <3> QED
      BY <3>1, <3>2 DEF StepRow
  <2> QED
    BY <2>1, <2>2
<1> HIDE DEF new
<1>3. rows = new
  BY <1>1, <1>2
<1> QED
  BY <1>3 DEF new

\* The reasons of a step that are conditions of the flow are written anew.
LEMMA ReasonsAgain ==
  ASSUME NEW rows, NEW other, NEW i, NEW checks, NEW planned,
         other[i].reasons = StepReasons(rows, i, checks, planned),
         NoOutputReasons(other, i, planned) = NoOutputReasons(rows, i, planned)
  PROVE  StepReasons(other, i, checks, planned) = StepReasons(rows, i, checks, planned)
<1>1. NoOutputReasons(rows, i, planned) \subseteq FlowReasons
  BY DEF NoOutputReasons, FlowReasons
<1>2. InspectionReasons(checks, GatesBefore(i)) \subseteq FlowReasons
  BY InspectionReasonsType
<1> QED
  BY <1>1, <1>2 DEF StepReasons

\* refreshProductionFlow, run twice, changes nothing the second time.
LEMMA RefreshedIsCurrent ==
  ASSUME NEW n \in Nat, NEW rows \in [1..n -> StepRow], NEW checks, NEW planned
  PROVE  LET new == FlowRefreshed(rows, checks, planned) IN
         new = FlowRefreshed(new, checks, planned)
<1> DEFINE new == FlowRefreshed(rows, checks, planned)
<1>1. new \in [1..n -> StepRow]
  BY FlowRefreshedType
<1>2. SameOutput(rows, new)
  BY FlowRefreshedKeepsStarted DEF SameOutput, Started
<1>3. ASSUME NEW i \in 1..n, new[i].readiness \notin Started
      PROVE  /\ new[i].reasons = StepReasons(new, i, checks, planned)
             /\ new[i].readiness = ReadinessOf(new, i, new[i].reasons)
  <2>1. rows[i].readiness \notin Started
    BY <1>3, FlowRefreshedKeepsStarted
  <2>2. /\ new[i].reasons = StepReasons(rows, i, checks, planned)
        /\ new[i].readiness = ReadinessOf(rows, i, new[i].reasons)
    BY <2>1, RefreshedRow
  <2> HIDE DEF new
  <2>3. /\ PriorComplete(new, i) <=> PriorComplete(rows, i)
        /\ NoOutputReasons(new, i, planned) = NoOutputReasons(rows, i, planned)
    BY <1>1, <1>2, SameOutputSamePriors
  <2>4. StepReasons(new, i, checks, planned) = StepReasons(rows, i, checks, planned)
    BY <2>2, <2>3, ReasonsAgain
  <2> QED
    BY <2>2, <2>3, <2>4 DEF ReadinessOf
<1> HIDE DEF new
<1>4. new = FlowRefreshed(new, checks, planned)
  BY <1>1, <1>3, CurrentByRows
<1> QED
  BY <1>4 DEF new

\* A step begins; the other rows are left alone.
StepBegins(rows, new, i) ==
  /\ new[i].readiness = "IN_PROGRESS"
  /\ \A j \in DOMAIN rows \ {i} : new[j] = rows[j]

\* Current rows stay current when a READY step begins.
LEMMA BegunIsCurrent ==
  ASSUME NEW n \in Nat, NEW rows \in [1..n -> StepRow], NEW checks, NEW planned,
         rows = FlowRefreshed(rows, checks, planned), NEW i \in 1..n,
         rows[i].readiness = "READY",
         NEW new \in [1..n -> StepRow], StepBegins(rows, new, i)
  PROVE  new = FlowRefreshed(new, checks, planned)
<1>1. SameOutput(rows, new)
  BY DEF SameOutput, StepBegins
<1>2. ASSUME NEW j \in 1..n, new[j].readiness \notin Started
      PROVE  /\ new[j].reasons = StepReasons(new, j, checks, planned)
             /\ new[j].readiness = ReadinessOf(new, j, new[j].reasons)
  <2>1. new[j] = rows[j] /\ rows[j].readiness \notin Started
    BY <1>2 DEF Started, StepBegins
  <2>2. /\ new[j].reasons = StepReasons(rows, j, checks, planned)
        /\ new[j].readiness = ReadinessOf(rows, j, new[j].reasons)
    BY <2>1, RefreshedRow
  <2>3. /\ PriorComplete(new, j) <=> PriorComplete(rows, j)
        /\ NoOutputReasons(new, j, planned) = NoOutputReasons(rows, j, planned)
    BY <1>1, SameOutputSamePriors
  <2>4. StepReasons(new, j, checks, planned) = StepReasons(rows, j, checks, planned)
    BY <2>2, <2>3, ReasonsAgain
  <2> QED
    BY <2>2, <2>3, <2>4 DEF ReadinessOf
<1> QED
  BY <1>2, CurrentByRows

LEMMA FirstIs ==
  ASSUME NEW S \in SUBSET Nat, NEW i \in S, \A j \in S : i <= j
  PROVE  FirstOf(S) = i
<1>1. ASSUME NEW k \in S, \A j \in S : k <= j PROVE k = i
  <2>1. k <= i /\ i <= k /\ k \in Nat /\ i \in Nat
    BY <1>1
  <2> QED
    BY <2>1
<1> QED
  BY <1>1 DEF FirstOf

\* What start writes in the order row: in progress at step i, blocked where it was.
OrderBegins(row, rows, checks, i) ==
  /\ row.status = "IN_PROGRESS"
  /\ row.currentStep = i
  /\ row.blocked = BlockedOf(rows, checks)

\* When a READY step begins, that is what a refresh of the order would write.
LEMMA BegunOrderRow ==
  ASSUME NEW n \in Nat, NEW rows \in [1..n -> StepRow], NEW checks, NEW i \in 1..n,
         rows[i].readiness = "READY", PriorComplete(rows, i),
         NEW new \in [1..n -> StepRow], StepBegins(rows, new, i)
  PROVE  OrderBegins(OrderRefreshed(new, checks), rows, checks, i)
<1> DEFINE unfinished == {j \in 1..n : new[j].readiness # "COMPLETED"}
           blocked == {j \in 1..n : rows[j].readiness = "BLOCKED"}
<1>1. /\ DOMAIN new = 1..n /\ DOMAIN rows = 1..n
      /\ new[i].readiness = "IN_PROGRESS"
      /\ \A j \in 1..n : j # i => new[j] = rows[j]
  BY DEF StepBegins
<1>2. StatusOf(new, checks) = "IN_PROGRESS"
  BY <1>1 DEF StatusOf, AllCompleted, AnyStarted, Started
<1>3. FirstOf(unfinished) = i
  <2>1. unfinished \in SUBSET Nat /\ i \in unfinished
    BY <1>1
  <2>2. ASSUME NEW j \in unfinished PROVE i <= j
    <3>1. j \in 1..n /\ new[j].readiness # "COMPLETED"
      OBVIOUS
    <3>2. j < i => new[j].readiness = "COMPLETED"
      BY <1>1, <3>1 DEF PriorComplete
    <3> QED
      BY <3>1, <3>2
  <2> HIDE DEF unfinished
  <2> QED
    BY <2>1, <2>2, FirstIs
<1>4. BlockedOf(new, checks) = BlockedOf(rows, checks)
  <2>1. {j \in DOMAIN new : new[j].readiness = "BLOCKED"} = blocked
    BY <1>1
  <2>2. {j \in DOMAIN rows : rows[j].readiness = "BLOCKED"} = blocked
    BY <1>1
  <2>3. ~ AllCompleted(new) /\ ~ AllCompleted(rows)
    BY <1>1 DEF AllCompleted
  <2>4. FirstOf(blocked) # 0 => new[FirstOf(blocked)] = rows[FirstOf(blocked)]
    <3>1. blocked \in SUBSET Nat /\ i \notin blocked
      OBVIOUS
    <3>2. blocked # {} => FirstOf(blocked) \in blocked
      BY <3>1, FirstOfType
    <3>3. blocked = {} => FirstOf(blocked) = 0
      BY DEF FirstOf
    <3> QED
      BY <1>1, <3>1, <3>2, <3>3
  <2> HIDE DEF blocked
  <2> QED
    BY <2>1, <2>2, <2>3, <2>4 DEF BlockedOf
<1> QED
  BY <1>1, <1>2, <1>3, <1>4 DEF OrderRefreshed, OrderBegins

-----------------------------------------------------------------------------
(* THE TOTAL OF A SET OF RESERVATIONS *)

QuantitiesTyped == \A a \in Allocation : alloc[a].quantity \in Nat

\* The pieces of finitely many rows of whatever table are finitely many.
LEMMA PiecesOfRows ==
  ASSUME NEW A, IsFiniteSet(A), NEW rows, \A a \in A : rows[a].quantity \in Nat
  PROVE  IsFiniteSet(UNION {{a} \X (1..rows[a].quantity) : a \in A})
<1> DEFINE PiecesOf(a) == {a} \X (1..rows[a].quantity)
           T == {PiecesOf(a) : a \in A}
           f == [a \in A |-> PiecesOf(a)]
<1>1. f \in Surjection(A, T)
  <2> HIDE DEF PiecesOf
  <2> QED
    BY DEF Surjection
<1>2. IsFiniteSet(T)
  <2> HIDE DEF f, T
  <2> QED
    BY <1>1, FS_Surjection
<1>3. \A U \in T : IsFiniteSet(U)
  <2>1. ASSUME NEW a \in A PROVE IsFiniteSet(PiecesOf(a))
    <3>1. rows[a].quantity \in Int
      OBVIOUS
    <3>2. IsFiniteSet(1..rows[a].quantity)
      BY <3>1, FS_Interval
    <3> QED
      BY <3>2, FS_Singleton, FS_Product
  <2> QED
    BY <2>1
<1> HIDE DEF T
<1>4. IsFiniteSet(UNION T)
  BY <1>2, <1>3, FS_UNION
<1> QED
  BY <1>4 DEF T

\* The pieces of any set of reservations can be counted (the sums of the code).
LEMMA PiecesFinite ==
  ASSUME QuantitiesTyped, NEW A \in SUBSET Allocation
  PROVE  IsFiniteSet(Pieces(A)) /\ Total(A) \in Nat
<1>1. IsFiniteSet(A)
  BY DatabaseAssumption, FS_Subset
<1>2. IsFiniteSet(Pieces(A))
  BY <1>1, PiecesOfRows DEF Pieces, QuantitiesTyped
<1> QED
  BY <1>2, FS_CardinalityType DEF Total

-----------------------------------------------------------------------------
(* TYPE CORRECTNESS *)

\* The route of an order is an interval that starts at 1 (PRODUCT_ROUTES).
LEMMA RouteNonempty ==
  ASSUME NEW o \in Order
  PROVE  /\ RouteLength[o] \in Nat \ {0}
         /\ Route(o) = 1..RouteLength[o]
         /\ 1 \in Route(o)
         /\ Route(o) \subseteq Nat
BY DatabaseAssumption DEF Route

StepsTyped ==
  /\ DOMAIN step = Order
  /\ \A o \in Order : step[o] \in [Route(o) -> StepRow]

\* Replacing the rows of one order.
LEMMA StepsReplaced ==
  ASSUME StepsTyped, NEW o \in Order, NEW rows \in [Route(o) -> StepRow],
         step' = [step EXCEPT ![o] = rows]
  PROVE  /\ StepsTyped'
         /\ step'[o] = rows
         /\ \A p \in Order \ {o} : step'[p] = step[p]
BY DEF StepsTyped, Route

\* The refresh that ends a command keeps order and step rows well formed.
LEMMA FlowProjectedType ==
  ASSUME StepsTyped, order \in [Order -> OrderRow],
         NEW o \in Order, NEW rows \in [Route(o) -> StepRow], NEW checks,
         FlowProjected(o, rows, checks)
  PROVE  StepsTyped' /\ order' \in [Order -> OrderRow]
<1>1. FlowRefreshed(rows, checks, Planned[o]) \in [Route(o) -> StepRow]
  BY RouteNonempty, FlowRefreshedType
<1>2. PICK new \in [Route(o) -> StepRow] :
        /\ step' = [step EXCEPT ![o] = new]
        /\ order' = [order EXCEPT ![o] =
             IF order[o].status \notin {"DRAFT", "CANCELLED"}
             THEN OrderRefreshed(new, checks) ELSE @]
  BY <1>1 DEF FlowProjected
<1>3. OrderRefreshed(new, checks) \in OrderRow
  BY RouteNonempty, OrderRefreshedType
<1> QED
  BY <1>2, <1>3, StepsReplaced

\* The two refreshes in sequence keep order and step rows well formed.
LEMMA MaterialAndFlowProjectedType ==
  ASSUME StepsTyped, order \in [Order -> OrderRow],
         NEW o \in Order, NEW checks, NEW enough,
         MaterialAndFlowProjected(o, checks, enough)
  PROVE  StepsTyped' /\ order' \in [Order -> OrderRow]
<1>1. step[o] \in [1..RouteLength[o] -> StepRow]
  BY RouteNonempty DEF StepsTyped
<1>2. MaterialRefreshed(step[o], RequiresMaterial(o), enough) \in [Route(o) -> StepRow]
  BY <1>1, RouteNonempty, MaterialRefreshedType
<1> QED
  BY <1>2, FlowProjectedType DEF MaterialAndFlowProjected

\* The seeded database is well formed.
LEMMA InitTypeOK == Init => TypeOK
<1> SUFFICES ASSUME Init PROVE TypeOK
  OBVIOUS
<1> USE DatabaseAssumption
<1>1. order \in [Order -> OrderRow]
  BY DEF Init, OrderRow, NotBlocked, ReasonCode, FlowReasons
<1>2. \A o \in Order, i \in Nat : SeedStep(o, i) \in StepRow
  BY DEF SeedStep, NoStep, StepRow, Readiness, ReasonCode, FlowReasons, Quantity, Null
<1>3. DOMAIN step = Order /\ \A o \in Order : step[o] \in [Route(o) -> StepRow]
  BY <1>2, RouteNonempty DEF Init
<1>4. inspection \in [Order -> [InspectionSpec -> CheckRow]]
  <2>1. \A o \in Order, s \in InspectionSpec : SeedCheck(o, s) \in CheckRow
    BY DEF SeedCheck, NoCheck, CheckRow
  <2> QED
    BY <2>1 DEF Init
<1>5. decisions \in [Order -> [InspectionSpec -> SUBSET DecisionRow]]
  BY DEF Init
<1>6. ASSUME NEW a \in Allocation
      PROVE  /\ SeedAllocation(a) \in AllocationRow
             /\ SeedAllocation(a).status = "ACTIVE" =>
                  SeedAllocation(a).order \in Order /\ SeedAllocation(a).lot \in Lot
  <2>1. CASE \E o \in Imported : SeedReservation[o].id = a
    <3> DEFINE o == CHOOSE o \in Imported : SeedReservation[o].id = a
    <3>1. o \in Imported
      BY <2>1
    <3> HIDE DEF o
    <3>2. o \in Order /\ SeedReservation[o].lot \in Lot /\ SeedReservation[o].quantity \in Nat
      BY <3>1
    <3>3. SeedAllocation(a) =
            [FreeRow EXCEPT !.status = "ACTIVE", !.order = o,
                            !.lot = SeedReservation[o].lot,
                            !.quantity = SeedReservation[o].quantity]
      BY <2>1 DEF SeedAllocation, o
    <3>4. SeedAllocation(a) =
            [status |-> "ACTIVE", order |-> o, lot |-> SeedReservation[o].lot,
             quantity |-> SeedReservation[o].quantity, reason |-> "NONE"]
      BY <3>3 DEF FreeRow
    <3> QED
      BY <3>2, <3>4 DEF AllocationRow
  <2>2. CASE ~ \E o \in Imported : SeedReservation[o].id = a
    BY <2>2 DEF SeedAllocation, FreeRow, AllocationRow
  <2> QED
    BY <2>1, <2>2
<1>7. /\ alloc \in [Allocation -> AllocationRow]
      /\ \A a \in Active : alloc[a].order \in Order /\ alloc[a].lot \in Lot
  BY <1>6 DEF Init, Active
<1>8. lot \in [Lot -> LotRow]
  <2>1. \A l \in Lot : Total(ReservedOn(l)) \in Nat
    BY <1>7, PiecesFinite DEF QuantitiesTyped, AllocationRow, ReservedOn, Active
  <2>2. ASSUME NEW l \in Lot, NEW d \in Disposition
        PROVE  SeedLot(l, d) \in LotRow
    BY <2>1 DEF SeedLot, LotRow
  <2>3. PICK d \in [Lot -> Disposition] : lot = [l \in Lot |-> SeedLot(l, d[l])]
    BY DEF Init
  <2> QED
    BY <2>2, <2>3
<1>9. consumed \in [Order -> [Lot -> Nat]]
  BY DEF Init
<1>10. incidents \subseteq Nat /\ IsFiniteSet(incidents)
  BY FS_EmptySet DEF Init
<1>11. /\ session \in [Inspector -> SessionRow]
       /\ \A q \in Inspector : session[q].pc = "idle"
  BY DEF Init, IdleSession, SessionRow
<1>12. overdue \subseteq DueSoon
  BY DEF Init
<1> QED
  BY <1>1, <1>3, <1>4, <1>5, <1>7, <1>8, <1>9, <1>10, <1>11, <1>12 DEF TypeOK

\* TypeOK by table, to name the part an action disturbs.
OrdersTyped == order \in [Order -> OrderRow] /\ StepsTyped /\ consumed \in [Order -> [Lot -> Nat]]
ChecksTyped ==
  /\ inspection \in [Order -> [InspectionSpec -> CheckRow]]
  /\ decisions \in [Order -> [InspectionSpec -> SUBSET DecisionRow]]
LotsTyped == lot \in [Lot -> LotRow]
AllocationsTyped ==
  /\ alloc \in [Allocation -> AllocationRow]
  /\ \A a \in Active : alloc[a].order \in Order /\ alloc[a].lot \in Lot
IncidentsTyped == incidents \subseteq Nat /\ IsFiniteSet(incidents)
CalendarTyped == overdue \subseteq DueSoon
Targeted(s) == s.pc \in {"counting", "deciding"} => s.target \in Disposition
SessionsTyped ==
  /\ session \in [Inspector -> SessionRow]
  /\ \A q \in Inspector : Targeted(session[q])

\* TypeOK is the conjunction of its tables, in this state and in the next.
LEMMA TypeParts ==
  /\ TypeOK <=> /\ OrdersTyped /\ ChecksTyped /\ LotsTyped
                /\ AllocationsTyped /\ IncidentsTyped /\ SessionsTyped /\ CalendarTyped
  /\ TypeOK' <=> /\ OrdersTyped' /\ ChecksTyped' /\ LotsTyped'
                 /\ AllocationsTyped' /\ IncidentsTyped' /\ SessionsTyped' /\ CalendarTyped'
BY DEF TypeOK, OrdersTyped, StepsTyped, ChecksTyped, LotsTyped, AllocationsTyped,
       IncidentsTyped, SessionsTyped, CalendarTyped, Targeted

\* A table that a command leaves alone stays well formed.
LEMMA UnchangedParts ==
  /\ OrdersTyped /\ UNCHANGED productionVars => OrdersTyped'
  /\ ChecksTyped /\ UNCHANGED inspectionVars => ChecksTyped'
  /\ LotsTyped /\ UNCHANGED lot => LotsTyped'
  /\ AllocationsTyped /\ UNCHANGED alloc => AllocationsTyped'
  /\ IncidentsTyped /\ UNCHANGED incidents => IncidentsTyped'
  /\ SessionsTyped /\ UNCHANGED session => SessionsTyped'
  /\ CalendarTyped /\ UNCHANGED overdue => CalendarTyped'
BY DEF OrdersTyped, StepsTyped, ChecksTyped, LotsTyped, AllocationsTyped, IncidentsTyped,
       SessionsTyped, CalendarTyped, productionVars, inspectionVars, Active

\* Any set of reservations of a well-formed table has a natural total.
LEMMA TotalType ==
  ASSUME AllocationsTyped, NEW A \in SUBSET Allocation
  PROVE  Total(A) \in Nat
BY PiecesFinite DEF AllocationsTyped, QuantitiesTyped, AllocationRow

\* Closing reservations keeps the table well formed.
LEMMA ClosedType ==
  ASSUME AllocationsTyped, NEW A, NEW reason \in {"FULFILLED", "CANCELLED"},
         alloc' = Closed(A, reason)
  PROVE  AllocationsTyped'
<1>1. ASSUME NEW a \in Allocation
      PROVE  /\ alloc'[a] \in AllocationRow
             /\ alloc'[a].status = "ACTIVE" => alloc'[a] = alloc[a]
  <2>1. alloc[a] \in AllocationRow
    BY DEF AllocationsTyped
  <2>2. alloc'[a] = IF a \in A THEN [alloc[a] EXCEPT !.status = "CLOSED", !.reason = reason]
                    ELSE alloc[a]
    BY DEF Closed
  <2>3. /\ [alloc[a] EXCEPT !.status = "CLOSED", !.reason = reason] \in AllocationRow
        /\ [alloc[a] EXCEPT !.status = "CLOSED", !.reason = reason].status = "CLOSED"
    BY <2>1 DEF AllocationRow
  <2> QED
    BY <2>1, <2>2, <2>3
<1>2. alloc' \in [Allocation -> AllocationRow]
  BY <1>1 DEF Closed
<1> QED
  BY <1>1, <1>2 DEF AllocationsTyped, Active

-----------------------------------------------------------------------------
(* ONE LEMMA PER COMMAND *)

\* release writes well-formed rows.
LEMMA ReleaseType ==
  ASSUME TypeOK, NEW o \in Order, Release(o) PROVE TypeOK'
<1> USE TypeParts
<1>1. StepsTyped'
  <2>1. \A i \in Route(o) : ReleasedStep(o, i) \in StepRow
    BY DEF ReleasedStep, NoStep, StepRow, Readiness, ReasonCode, MaterialReasons, Quantity, Null
  <2>2. [i \in Route(o) |-> ReleasedStep(o, i)] \in [Route(o) -> StepRow]
    BY <2>1
  <2> QED
    BY <2>2, StepsReplaced DEF Release, CanRelease, OrdersTyped
<1>2. OrdersTyped'
  <2>1. [status |-> "RELEASED", currentStep |-> 1, blocked |-> ReservationNeeded] \in OrderRow
    BY DEF OrderRow, ReservationNeeded
  <2> QED
    BY <1>1, <2>1 DEF OrdersTyped, Release, CanRelease
<1>3. ChecksTyped'
  BY DEF ChecksTyped, Release, CanRelease, CheckRow, NoCheck
<1> QED
  BY <1>2, <1>3, UnchangedParts DEF Release, CanRelease, inventoryVars, qualityVars

\* cancel writes well-formed rows.
LEMMA CancelType ==
  ASSUME TypeOK, NEW o \in Order, Cancel(o) PROVE TypeOK'
<1> USE TypeParts
<1>1. OrdersTyped'
  BY DEF OrdersTyped, StepsTyped, Cancel, CanCancel, OrderRow, NotBlocked
<1>2. ChecksTyped'
  <2>1. \A s \in InspectionSpec : inspection[o][s] \in CheckRow
    BY DEF ChecksTyped
  <2>2. \A check \in CheckRow : [check EXCEPT !.execution = "CANCELLED"] \in CheckRow
    BY DEF CheckRow
  <2>3. OpenChecksCancelled(o) \in [InspectionSpec -> CheckRow]
    BY <2>1, <2>2 DEF OpenChecksCancelled
  <2> QED
    BY <2>3 DEF ChecksTyped, Cancel, CanCancel
<1>3. LotsTyped'
  <2>1. \A l \in Lot : Total({a \in HeldBy(o) : alloc[a].lot = l}) \in Nat
    BY TotalType DEF HeldBy, Active
  <2> QED
    BY <2>1 DEF LotsTyped, Cancel, CanCancel, ReservationsReturned, LotRow
<1>4. AllocationsTyped'
  BY ClosedType DEF Cancel, CanCancel
<1> QED
  BY <1>1, <1>2, <1>3, <1>4, UnchangedParts DEF Cancel, CanCancel, qualityVars

\* reserve writes well-formed rows.
LEMMA ReserveType ==
  ASSUME TypeOK, NEW o \in Order, NEW l \in Lot, NEW a \in Allocation,
         NEW quantity \in Nat, Reserve(o, l, a, quantity)
  PROVE  TypeOK'
<1> USE TypeParts
<1>1. OrdersTyped'
  BY MaterialAndFlowProjectedType DEF Reserve, CanReserve, OrdersTyped
<1>2. LotsTyped'
  BY DEF Reserve, CanReserve, LotsTyped, LotRow
<1>3. AllocationsTyped'
  BY DEF Reserve, CanReserve, AllocationsTyped, AllocationRow, Active
<1> QED
  BY <1>1, <1>2, <1>3, UnchangedParts DEF Reserve, CanReserve, inspectionVars,
                                          qualityVars

\* The release of a reservation writes well-formed rows.
LEMMA ReleaseReservationType ==
  ASSUME TypeOK, NEW a \in Allocation, ReleaseReservation(a) PROVE TypeOK'
<1> USE TypeParts
<1>1. alloc[a].order \in Order /\ alloc[a].lot \in Lot /\ alloc[a] \in AllocationRow
  BY DEF ReleaseReservation, CanDissolve, AllocationsTyped, Active
<1>2. OrdersTyped'
  BY <1>1, MaterialAndFlowProjectedType DEF ReleaseReservation, CanDissolve,
                                            ReservationDissolved, OrdersTyped
<1>3. LotsTyped'
  BY <1>1 DEF ReleaseReservation, CanDissolve, ReservationDissolved, LotsTyped, LotRow,
              AllocationRow
<1>4. AllocationsTyped'
  BY <1>1 DEF ReleaseReservation, CanDissolve, ReservationDissolved, AllocationsTyped,
              AllocationRow, Active
<1> QED
  BY <1>2, <1>3, <1>4, UnchangedParts DEF ReleaseReservation, CanDissolve,
                                          inspectionVars, qualityVars

\* The passing of an expiry date leaves well-formed rows.
LEMMA ExpireType ==
  ASSUME TypeOK, NEW l \in Lot, Expire(l) PROVE TypeOK'
<1>1. LotsTyped'
  BY TypeParts DEF Expire, LotsTyped, LotRow
<1> QED
  BY <1>1, TypeParts, UnchangedParts DEF Expire, qualityVars

\* A due date that passes changes no row.
LEMMA DueDateKeepsRows ==
  ASSUME NEW o \in Order, DueDatePasses(o)
  PROVE  UNCHANGED <<order, step, inspection, decisions, lot, alloc, consumed, incidents, session>>
BY DEF DueDatePasses, productionVars, inspectionVars, inventoryVars, qualityVars

\* The calendar stays within the drafts it is followed for.
LEMMA DueDateType ==
  ASSUME TypeOK, NEW o \in Order, DueDatePasses(o) PROVE TypeOK'
<1>1. CalendarTyped'
  BY TypeParts DEF DueDatePasses, CalendarTyped
<1> QED
  BY <1>1, DueDateKeepsRows, TypeParts, UnchangedParts DEF productionVars, inspectionVars

\* start writes well-formed rows.
LEMMA StartType ==
  ASSUME TypeOK, NEW o \in Order, NEW i \in Route(o), Start(o, i) PROVE TypeOK'
<1> USE TypeParts
<1> DEFINE rows == RowsAtStart(o)
<1>1. rows \in [Route(o) -> StepRow]
  <2>1. step[o] \in [1..RouteLength[o] -> StepRow]
    BY RouteNonempty DEF OrdersTyped, StepsTyped
  <2>2. MaterialRefreshed(step[o], RequiresMaterial(o), EnoughMaterial(o))
          \in [1..RouteLength[o] -> StepRow]
    BY <2>1, RouteNonempty, MaterialRefreshedType
  <2> QED
    BY <2>2, RouteNonempty, FlowRefreshedType DEF RowsAtStart
<1> HIDE DEF rows
<1>2. OrdersTyped'
  <2>1. [rows EXCEPT ![i].readiness = "IN_PROGRESS"] \in [Route(o) -> StepRow]
    BY <1>1 DEF StepRow, Readiness
  <2>2. StepsTyped'
    BY <2>1, StepsReplaced DEF Start, CanStart, OrdersTyped, rows
  <2>3. OrderRefreshed(rows, inspection[o]) \in OrderRow
    BY <1>1, RouteNonempty, OrderRefreshedType
  <2>4. \A row \in OrderRow :
          [row EXCEPT !.status = "IN_PROGRESS", !.currentStep = i] \in OrderRow
    BY RouteNonempty DEF OrderRow
  <2>5. order' \in [Order -> OrderRow]
    BY <2>3, <2>4 DEF Start, CanStart, OrdersTyped, rows
  <2>6. \A l \in Lot : Taken(o, l) \in Nat
    BY TotalType DEF Taken, HeldBy, Active
  <2>7. RelationsExtended(o) \in [Lot -> Nat]
    BY <2>6 DEF RelationsExtended, OrdersTyped
  <2> QED
    BY <2>2, <2>5, <2>7 DEF OrdersTyped, Start, CanStart
<1>3. LotsTyped'
  <2>1. \A l \in Lot : Taken(o, l) \in Nat
    BY TotalType DEF Taken, HeldBy, Active
  <2>2. \A row \in LotRow, n \in Nat :
          [row EXCEPT !.reserved = @ - n, !.onHand = @ - n, !.consumed = @ + n] \in LotRow
    <3> SUFFICES ASSUME NEW row \in LotRow, NEW n \in Nat
                 PROVE  [row EXCEPT !.reserved = @ - n, !.onHand = @ - n,
                                    !.consumed = @ + n] \in LotRow
      OBVIOUS
    <3>1. row.reserved - n \in Int /\ row.onHand - n \in Int /\ row.consumed + n \in Int
      BY DEF LotRow
    <3>2. \A r \in LotRow, k \in Int :
            /\ [r EXCEPT !.reserved = k] \in LotRow
            /\ [r EXCEPT !.onHand = k] \in LotRow
            /\ [r EXCEPT !.consumed = k] \in LotRow
      BY DEF LotRow
    <3> QED
      BY <3>1, <3>2
  <2> QED
    BY <2>1, <2>2 DEF LotsTyped, Start, CanStart, MaterialsConsumed
<1>4. AllocationsTyped'
  BY ClosedType DEF Start, CanStart
<1> QED
  BY <1>2, <1>3, <1>4, UnchangedParts DEF Start, CanStart, inspectionVars, qualityVars

\* The rows complete writes before it refreshes them.
CompletedRows(o, i, good, defect) ==
  [step[o] EXCEPT ![i].readiness = "COMPLETED", ![i].good = good, ![i].defect = defect]

\* The rows complete refreshes are well formed.
LEMMA CompletedRowsType ==
  ASSUME OrdersTyped, NEW o \in Order, NEW i \in Route(o), NEW good \in Nat, NEW defect \in Nat
  PROVE  CompletedRows(o, i, good, defect) \in [Route(o) -> StepRow]
<1>1. \A r \in StepRow :
        /\ [r EXCEPT !.readiness = "COMPLETED"] \in StepRow
        /\ [r EXCEPT !.good = good] \in StepRow
        /\ [r EXCEPT !.defect = defect] \in StepRow
  BY DEF StepRow, Readiness, Quantity
<1> QED
  BY <1>1 DEF OrdersTyped, StepsTyped, CompletedRows

\* complete writes well-formed rows.
LEMMA CompleteType ==
  ASSUME TypeOK, NEW o \in Order, NEW i \in Route(o),
         NEW good \in Nat, NEW defect \in Nat, Complete(o, i, good, defect)
  PROVE  TypeOK'
<1> USE TypeParts
<1>1. OrdersTyped'
  BY CompletedRowsType, FlowProjectedType DEF Complete, CanComplete, CompletedRows,
                                              OrdersTyped
<1> QED
  BY <1>1, UnchangedParts DEF Complete, CanComplete, inspectionVars, inventoryVars,
                              qualityVars

\* The verdict of an inspection row, whatever its author.
LEMMA VerdictProjectedType ==
  ASSUME TypeOK, NEW o \in Order, NEW s \in InspectionSpec,
         NEW verdict \in {"PASS", "FAIL", "HOLD"}, VerdictProjected(o, s, verdict)
  PROVE  /\ StepsTyped' /\ order' \in [Order -> OrderRow]
         /\ inspection' \in [Order -> [InspectionSpec -> CheckRow]]
<1>1. inspection' \in [Order -> [InspectionSpec -> CheckRow]]
  BY TypeParts DEF VerdictProjected, ChecksTyped, CheckRow
<1> QED
  BY <1>1, TypeParts, MaterialAndFlowProjectedType DEF VerdictProjected, OrdersTyped

\* A first verdict writes well-formed rows.
LEMMA VerdictType ==
  ASSUME TypeOK, NEW o \in Order, NEW s \in InspectionSpec,
         NEW verdict \in {"PASS", "FAIL", "HOLD"}, Verdict(o, s, verdict)
  PROVE  TypeOK'
<1> USE TypeParts
<1>1. OrdersTyped'
  BY VerdictProjectedType DEF Verdict, CanDecide, OrdersTyped
<1>2. ChecksTyped'
  <2>1. [sequence |-> 1, phase |-> "INITIAL", verdict |-> verdict] \in DecisionRow
    BY DEF DecisionRow
  <2> QED
    BY <2>1, VerdictProjectedType DEF Verdict, CanDecide, ChecksTyped
<1> QED
  BY <1>1, <1>2, UnchangedParts DEF Verdict, CanDecide, inventoryVars, qualityVars

\* The quality transactions change the lots, the incidents and the sessions.
LEMMA SessionReplaced ==
  ASSUME SessionsTyped, NEW q \in Inspector, NEW row \in SessionRow, Targeted(row),
         session' = [session EXCEPT ![q] = row]
  PROVE  SessionsTyped'
BY DEF SessionsTyped

\* The end of a quality transaction leaves well-formed sessions.
LEMMA FinishType ==
  ASSUME SessionsTyped, NEW q \in Inspector, Finish(q) PROVE SessionsTyped'
<1>1. IdleSession \in SessionRow /\ Targeted(IdleSession)
  BY DEF IdleSession, SessionRow, Targeted
<1> QED
  BY <1>1, SessionReplaced DEF Finish

\* decide: the read of the lot.
LEMMA DecideReadType ==
  ASSUME TypeOK, NEW q \in Inspector, NEW l \in Lot,
         NEW target \in {"ACCEPTED", "HOLD", "REJECTED"}, DecideRead(q, l, target)
  PROVE  TypeOK'
<1> USE TypeParts
<1> DEFINE row == [IdleSession EXCEPT
                     !.pc = IF target = "REJECTED" THEN "counting" ELSE "deciding",
                     !.lot = l, !.target = target,
                     !.seenOnHand = IF target = "REJECTED" THEN lot[l].onHand ELSE 0]
<1>1. lot[l].onHand \in Int
  BY DEF LotsTyped, LotRow
<1>2. \A r \in SessionRow :
        /\ \A pc \in {"counting", "deciding"} : [r EXCEPT !.pc = pc] \in SessionRow
        /\ [r EXCEPT !.lot = l] \in SessionRow
        /\ /\ [r EXCEPT !.target = target] \in SessionRow
           /\ [r EXCEPT !.target = target].target = target
        /\ \A k \in Int : /\ [r EXCEPT !.seenOnHand = k] \in SessionRow
                          /\ [r EXCEPT !.seenOnHand = k].target = r.target
  BY DEF SessionRow, Disposition
<1>3. row \in SessionRow /\ Targeted(row)
  <2>1. IdleSession \in SessionRow
    BY DEF IdleSession, SessionRow
  <2> DEFINE pc == IF target = "REJECTED" THEN "counting" ELSE "deciding"
             seen == IF target = "REJECTED" THEN lot[l].onHand ELSE 0
             r1 == [IdleSession EXCEPT !.pc = pc]
             r2 == [r1 EXCEPT !.lot = l]
             r3 == [r2 EXCEPT !.target = target]
             r4 == [r3 EXCEPT !.seenOnHand = seen]
  <2>2. pc \in {"counting", "deciding"} /\ seen \in Int
    BY <1>1
  <2> HIDE DEF pc, seen
  <2>3. r1 \in SessionRow
    BY <1>2, <2>1, <2>2
  <2> HIDE DEF r1
  <2>4. r2 \in SessionRow
    BY <1>2, <2>3
  <2> HIDE DEF r2
  <2>5. r3 \in SessionRow /\ r3.target = target
    BY <1>2, <2>4
  <2> HIDE DEF r3
  <2>6. r4 \in SessionRow /\ r4.target = target
    BY <1>2, <2>2, <2>5
  <2>7. row = r4
    BY DEF pc, seen, r1, r2, r3
  <2> QED
    BY <2>6, <2>7 DEF Targeted, Disposition
<1>4. SessionsTyped'
  BY <1>3, SessionReplaced DEF DecideRead
<1> QED
  BY <1>4, UnchangedParts DEF DecideRead, inventoryVars

\* decide: the count of the active reservations.
LEMMA DecideCountType ==
  ASSUME TypeOK, NEW q \in Inspector, DecideCount(q) PROVE TypeOK'
<1> USE TypeParts
<1>1. session[q] \in SessionRow /\ Targeted(session[q])
  BY DEF SessionsTyped
<1>2. Advance(q, "deciding") => SessionsTyped'
  <2> DEFINE row == [session[q] EXCEPT !.pc = "deciding"]
  <2>1. row \in SessionRow /\ (session[q].pc = "counting" => Targeted(row))
    BY <1>1 DEF SessionRow, Targeted
  <2> QED
    BY <2>1, SessionReplaced DEF Advance, DecideCount
<1> QED
  BY <1>2, FinishType, UnchangedParts DEF DecideCount, inventoryVars

\* decide: the update of the lot.
LEMMA DecideUpdateType ==
  ASSUME TypeOK, NEW q \in Inspector, DecideUpdate(q) PROVE TypeOK'
<1> USE TypeParts
<1> DEFINE s == session[q]
<1>1. s.seenOnHand \in Int /\ s.target \in Disposition
  BY DEF SessionsTyped, SessionRow, Targeted, DecideUpdate
<1>2. \A row \in LotRow : Decided(row, s.target, s.seenOnHand) \in LotRow
  <2> SUFFICES ASSUME NEW row \in LotRow
               PROVE  Decided(row, s.target, s.seenOnHand) \in LotRow
    OBVIOUS
  <2>1. row.scrapped + s.seenOnHand \in Int
    BY <1>1 DEF LotRow
  <2>2. \A r \in LotRow, k \in Int, d \in Disposition :
          /\ [r EXCEPT !.disposition = d] \in LotRow
          /\ [r EXCEPT !.scrapped = k] \in LotRow
          /\ [r EXCEPT !.onHand = k] \in LotRow
    BY DEF LotRow
  <2> DEFINE r1 == [row EXCEPT !.disposition = s.target]
             r2 == [r1 EXCEPT !.scrapped = row.scrapped + s.seenOnHand]
  <2>3. r1 \in LotRow /\ r1.scrapped = row.scrapped
    BY <1>1, <2>2 DEF LotRow
  <2> HIDE DEF r1
  <2>4. r2 \in LotRow
    BY <2>1, <2>2, <2>3, <1>1
  <2> HIDE DEF r2
  <2>5. [r2 EXCEPT !.onHand = 0] \in LotRow
    BY <2>4 DEF LotRow
  <2> QED
    BY <2>3, <2>5 DEF Decided, r1, r2
<1>3. LotsTyped'
  BY <1>2 DEF DecideUpdate, LotsTyped
<1> QED
  BY <1>3, FinishType, UnchangedParts DEF DecideUpdate

\* register: the read of the lot.
LEMMA RegisterReadType ==
  ASSUME TypeOK, NEW q \in Inspector, NEW l \in Lot, RegisterRead(q, l) PROVE TypeOK'
<1> USE TypeParts
<1> DEFINE row == [IdleSession EXCEPT
              !.pc = IF lot[l].disposition = "QUARANTINED" THEN "numbering" ELSE "quarantining",
              !.lot = l]
<1>1. row \in SessionRow /\ Targeted(row)
  <2>1. IdleSession \in SessionRow
    BY DEF IdleSession, SessionRow
  <2>2. \A r \in SessionRow, pc \in {"numbering", "quarantining"} :
          LET r1 == [r EXCEPT !.pc = pc] IN
          r1 \in SessionRow /\ r1.pc = pc
    BY DEF SessionRow
  <2>3. \A r \in SessionRow :
          LET r1 == [r EXCEPT !.lot = l] IN
          r1 \in SessionRow /\ r1.pc = r.pc
    BY DEF SessionRow
  <2>4. row \in SessionRow /\ row.pc \in {"numbering", "quarantining"}
    BY <2>1, <2>2, <2>3
  <2> QED
    BY <2>4 DEF Targeted
<1>2. SessionsTyped'
  BY <1>1, SessionReplaced DEF RegisterRead
<1> QED
  BY <1>2, UnchangedParts DEF RegisterRead, inventoryVars

\* register: the update that takes the row lock.
LEMMA QuarantineUpdateType ==
  ASSUME TypeOK, NEW q \in Inspector, QuarantineUpdate(q) PROVE TypeOK'
<1> USE TypeParts
<1> DEFINE row == [session[q] EXCEPT !.pc = "numbering", !.holdsLock = TRUE]
<1>1. row \in SessionRow /\ Targeted(row)
  BY DEF SessionsTyped, SessionRow, Targeted
<1>2. SessionsTyped'
  BY <1>1, SessionReplaced DEF QuarantineUpdate, SessionsTyped
<1> QED
  BY <1>2, UnchangedParts DEF QuarantineUpdate, inventoryVars

\* register: the count that gives the incident number.
LEMMA CountIncidentsType ==
  ASSUME TypeOK, NEW q \in Inspector, CountIncidents(q) PROVE TypeOK'
<1> USE TypeParts
<1> DEFINE row == [session[q] EXCEPT !.pc = "inserting", !.counted = Cardinality(incidents)]
<1>1. Cardinality(incidents) \in Nat
  BY FS_CardinalityType DEF IncidentsTyped
<1>2. row \in SessionRow /\ Targeted(row)
  BY <1>1 DEF SessionsTyped, SessionRow, Targeted
<1>3. SessionsTyped'
  BY <1>2, SessionReplaced DEF CountIncidents, SessionsTyped
<1> QED
  BY <1>3, UnchangedParts DEF CountIncidents, inventoryVars

\* register: the insert and the commit.
LEMMA RegisterCommitType ==
  ASSUME TypeOK, NEW q \in Inspector, RegisterCommit(q) PROVE TypeOK'
<1> USE TypeParts
<1>1. session[q].counted + 1 \in Nat
  BY DEF SessionsTyped, SessionRow
<1>2. IncidentsTyped'
  BY <1>1, FS_AddElement DEF RegisterCommit, IncidentsTyped
<1>3. LotsTyped'
  BY DEF RegisterCommit, LotsTyped, LotRow, Disposition
<1> QED
  BY <1>2, <1>3, FinishType, UnchangedParts DEF RegisterCommit

\* Every statement of a quality transaction leaves well-formed tables.
LEMMA InspectorStepType ==
  ASSUME TypeOK, NEW q \in Inspector, InspectorStep(q) PROVE TypeOK'
<1>1. CASE Rollback(q)
  BY <1>1, TypeParts, FinishType, UnchangedParts DEF Rollback, inventoryVars
<1> QED
  BY <1>1, DecideReadType, DecideCountType, DecideUpdateType, RegisterReadType,
     QuarantineUpdateType, CountIncidentsType, RegisterCommitType DEF InspectorStep

-----------------------------------------------------------------------------
(* THE DECISIONS OF AN INSPECTION *)

(***************************************************************************)
(* What the append-only decisions of one inspection can be: none yet, or   *)
(* none because the hold was imported; one first decision; or a hold and   *)
(* the review that ended it.                                               *)
(***************************************************************************)
NotDecided(check, history) ==
  /\ history = {}
  /\ check.verdict = (IF check.execution = "COMPLETED" THEN "HOLD" ELSE "NONE")

DecidedOnce(check, history) ==
  \E d \in DecisionRow :
    /\ history = {d}
    /\ d.sequence = 1 /\ d.phase = "INITIAL"
    /\ check = [execution |-> "COMPLETED", verdict |-> d.verdict]

DecidedTwice(check, history) ==
  \E d, e \in DecisionRow :
    /\ history = {d, e}
    /\ d.sequence = 1 /\ d.phase # "HOLD_REVIEW" /\ d.verdict = "HOLD"
    /\ e.sequence = 2 /\ e.phase = "HOLD_REVIEW" /\ e.verdict \in {"PASS", "FAIL"}
    /\ check = [execution |-> "COMPLETED", verdict |-> e.verdict]

HistoryShape ==
  \A o \in Order, s \in InspectionSpec :
    \/ NotDecided(inspection[o][s], decisions[o][s])
    \/ DecidedOnce(inspection[o][s], decisions[o][s])
    \/ DecidedTwice(inspection[o][s], decisions[o][s])

\* A draft has no steps, no inspections and no decisions.
DraftUntouched ==
  \A o \in Order : order[o].status = "DRAFT" =>
    /\ step[o] = [i \in Route(o) |-> NoStep]
    /\ \A s \in InspectionSpec : inspection[o][s] = NoCheck /\ decisions[o][s] = {}

\* The shape of the decisions is what DecisionsExplainVerdict says of them.
LEMMA ShapeExplainsVerdict == TypeOK /\ HistoryShape => DecisionsExplainVerdict
<1> SUFFICES ASSUME TypeOK, HistoryShape, NEW o \in Order, NEW s \in InspectionSpec
             PROVE  LET history == decisions[o][s]
                        last == Cardinality(history)
                    IN
                    /\ Sequences(o, s) = 1..last
                    /\ \A d \in history :
                         /\ d.phase = "HOLD_REVIEW" <=> d.sequence > 1
                         /\ d.sequence < last => d.verdict = "HOLD"
                         /\ d.sequence = last =>
                              inspection[o][s] =
                                [execution |-> "COMPLETED", verdict |-> d.verdict]
                    /\ history = {} => inspection[o][s].verdict \in {"NONE", "HOLD"}
  BY DEF DecisionsExplainVerdict
<1> DEFINE history == decisions[o][s]
           check == inspection[o][s]
<1>1. CASE NotDecided(check, history)
  <2>1. Cardinality(history) = 0 /\ Sequences(o, s) = {}
    BY <1>1, FS_EmptySet DEF NotDecided, Sequences
  <2> QED
    BY <1>1, <2>1 DEF NotDecided
<1>2. CASE DecidedOnce(check, history)
  <2>1. PICK d \in DecisionRow :
          /\ history = {d}
          /\ d.sequence = 1 /\ d.phase = "INITIAL"
          /\ check = [execution |-> "COMPLETED", verdict |-> d.verdict]
    BY <1>2 DEF DecidedOnce
  <2>2. Cardinality(history) = 1
    BY <2>1, FS_Singleton
  <2>3. Sequences(o, s) = 1..1
    BY <2>1 DEF Sequences
  <2> QED
    BY <2>1, <2>2, <2>3
<1>3. CASE DecidedTwice(check, history)
  <2>1. PICK d, e \in DecisionRow :
          /\ history = {d, e}
          /\ d.sequence = 1 /\ d.phase # "HOLD_REVIEW" /\ d.verdict = "HOLD"
          /\ e.sequence = 2 /\ e.phase = "HOLD_REVIEW" /\ e.verdict \in {"PASS", "FAIL"}
          /\ check = [execution |-> "COMPLETED", verdict |-> e.verdict]
    BY <1>3 DEF DecidedTwice
  <2>2. Cardinality(history) = 2
    <3>1. e \notin {d}
      BY <2>1
    <3>2. IsFiniteSet({d}) /\ Cardinality({d}) = 1
      BY FS_Singleton
    <3>3. Cardinality({d} \cup {e}) = 2
      <4>1. Cardinality({d} \cup {e}) =
              IF e \in {d} THEN Cardinality({d}) ELSE Cardinality({d}) + 1
        BY ONLY <3>2, FS_AddElement
      <4> QED
        BY ONLY <3>1, <3>2, <4>1
    <3>4. history = {d} \cup {e}
      BY <2>1
    <3> QED
      BY ONLY <3>3, <3>4
  <2>3. Sequences(o, s) = 1..2
    BY <2>1 DEF Sequences
  <2> QED
    BY <2>1, <2>2, <2>3
<1> QED
  BY <1>1, <1>2, <1>3 DEF HistoryShape

\* A decided inspection is completed, after a review with a pass or a fail.
LEMMA DecidedIsCompleted ==
  ASSUME NEW check, NEW history
  PROVE  /\ DecidedOnce(check, history) => check.execution = "COMPLETED"
         /\ DecidedTwice(check, history) =>
              check.execution = "COMPLETED" /\ check.verdict \in {"PASS", "FAIL"}
<1>1. ASSUME DecidedOnce(check, history) PROVE check.execution = "COMPLETED"
  <2>1. PICK d \in DecisionRow : check = [execution |-> "COMPLETED", verdict |-> d.verdict]
    BY <1>1 DEF DecidedOnce
  <2> QED
    BY <2>1
<1>2. ASSUME DecidedTwice(check, history)
      PROVE  check.execution = "COMPLETED" /\ check.verdict \in {"PASS", "FAIL"}
  <2>1. PICK e \in DecisionRow :
          /\ e.verdict \in {"PASS", "FAIL"}
          /\ check = [execution |-> "COMPLETED", verdict |-> e.verdict]
    BY <1>2 DEF DecidedTwice
  <2> QED
    BY <2>1
<1> QED
  BY <1>1, <1>2

\* A first verdict turns an undecided inspection into one decided once.
LEMMA VerdictShape ==
  ASSUME TypeOK, HistoryShape, NEW o \in Order, NEW s \in InspectionSpec,
         NEW verdict \in {"PASS", "FAIL", "HOLD"}, Verdict(o, s, verdict)
  PROVE  HistoryShape'
<1> DEFINE d == [sequence |-> 1, phase |-> "INITIAL", verdict |-> verdict]
<1> USE TypeParts DEF ChecksTyped
<1>1. NotDecided(inspection[o][s], decisions[o][s])
  BY DecidedIsCompleted DEF HistoryShape, Verdict, CanDecide, Undecided
<1>2. /\ decisions' = [decisions EXCEPT ![o][s] = {d}]
      /\ inspection' = [inspection EXCEPT ![o][s] =
           [execution |-> "COMPLETED", verdict |-> verdict]]
  BY <1>1 DEF Verdict, CanDecide, VerdictProjected, NotDecided
<1>3. DecidedOnce(inspection'[o][s], decisions'[o][s])
  <2>1. d \in DecisionRow
    BY DEF DecisionRow
  <2> QED
    BY <1>2, <2>1 DEF DecidedOnce
<1>4. \A p \in Order, r \in InspectionSpec :
        p # o \/ r # s => inspection'[p][r] = inspection[p][r] /\ decisions'[p][r] = decisions[p][r]
  BY <1>2
<1> QED
  BY <1>3, <1>4 DEF HistoryShape

\* A review turns a hold, imported or recorded, into an inspection decided twice.
LEMMA ReviewShape ==
  ASSUME TypeOK, HistoryShape, NEW o \in Order, NEW s \in InspectionSpec,
         NEW verdict \in {"PASS", "FAIL"}, Review(o, s, verdict)
  PROVE  /\ decisions' \in [Order -> [InspectionSpec -> SUBSET DecisionRow]]
         /\ HistoryShape'
<1> DEFINE history == decisions[o][s]
           e == [sequence |-> 2, phase |-> "HOLD_REVIEW", verdict |-> verdict]
<1> USE TypeParts DEF ChecksTyped
<1>1. inspection[o][s].execution = "COMPLETED" /\ inspection[o][s].verdict = "HOLD"
  BY DEF Review, CanReview, Held
<1>2. PICK d \in DecisionRow :
        /\ d.sequence = 1 /\ d.phase # "HOLD_REVIEW" /\ d.verdict = "HOLD"
        /\ History(o, s) = {d}
        /\ NextSequence(o, s) = 2
  <2>1. CASE NotDecided(inspection[o][s], history)
    <3>1. LegacyHold \in DecisionRow
      BY DEF LegacyHold, DecisionRow
    <3> QED
      BY <2>1, <3>1 DEF NotDecided, History, NextSequence, LegacyHold
  <2>2. CASE DecidedOnce(inspection[o][s], history)
    <3>1. PICK d \in DecisionRow :
            /\ history = {d}
            /\ d.sequence = 1 /\ d.phase = "INITIAL"
            /\ inspection[o][s] = [execution |-> "COMPLETED", verdict |-> d.verdict]
      BY <2>2 DEF DecidedOnce
    <3>2. Sequences(o, s) = {1}
      BY <3>1 DEF Sequences
    <3>3. LatestSequence(o, s) = 1
      BY <3>2 DEF LatestSequence
    <3> QED
      BY <1>1, <3>1, <3>3 DEF History, NextSequence
  <2>3. ~ DecidedTwice(inspection[o][s], history)
    BY <1>1, DecidedIsCompleted
  <2> QED
    BY <2>1, <2>2, <2>3 DEF HistoryShape
<1>3. e \in DecisionRow
  BY DEF DecisionRow
<1>4. /\ decisions' = [decisions EXCEPT ![o][s] = {d, e}]
      /\ inspection' = [inspection EXCEPT ![o][s] =
           [execution |-> "COMPLETED", verdict |-> verdict]]
  <2>1. /\ decisions' = [decisions EXCEPT ![o][s] = History(o, s) \cup {e}]
        /\ VerdictProjected(o, s, verdict)
    BY <1>2 DEF Review, CanReview
  <2> QED
    BY <1>2, <2>1 DEF VerdictProjected
<1>5. DecidedTwice(inspection'[o][s], decisions'[o][s])
  BY <1>2, <1>3, <1>4 DEF DecidedTwice
<1>6. \A p \in Order, r \in InspectionSpec :
        p # o \/ r # s => inspection'[p][r] = inspection[p][r] /\ decisions'[p][r] = decisions[p][r]
  BY <1>4
<1>7. HistoryShape'
  BY <1>5, <1>6 DEF HistoryShape
<1>8. decisions' \in [Order -> [InspectionSpec -> SUBSET DecisionRow]]
  BY <1>2, <1>3, <1>4
<1> QED
  BY <1>7, <1>8

\* A review writes well-formed rows.
LEMMA ReviewType ==
  ASSUME TypeOK, HistoryShape, NEW o \in Order, NEW s \in InspectionSpec,
         NEW verdict \in {"PASS", "FAIL"}, Review(o, s, verdict)
  PROVE  TypeOK'
<1>1. VerdictProjected(o, s, verdict) /\ consumed' = consumed
  BY DEF Review, CanReview
<1>2. /\ StepsTyped' /\ order' \in [Order -> OrderRow]
      /\ inspection' \in [Order -> [InspectionSpec -> CheckRow]]
  BY <1>1, VerdictProjectedType
<1>3. OrdersTyped' /\ ChecksTyped'
  BY <1>1, <1>2, TypeParts, ReviewShape DEF OrdersTyped, ChecksTyped
<1> QED
  BY <1>3, TypeParts, UnchangedParts DEF Review, CanReview, inventoryVars, qualityVars

\* cancel touches open inspections only, which have no decision.
LEMMA CancelShape ==
  ASSUME TypeOK, HistoryShape, NEW o \in Order, Cancel(o) PROVE HistoryShape'
<1> USE TypeParts DEF ChecksTyped
<1>1. ASSUME NEW p \in Order, NEW s \in InspectionSpec
      PROVE  \/ inspection'[p][s] = inspection[p][s]
             \/ /\ inspection[p][s].execution \in {"PENDING", "IN_PROGRESS"}
                /\ inspection'[p][s] = [inspection[p][s] EXCEPT !.execution = "CANCELLED"]
  BY DEF Cancel, CanCancel, OpenChecksCancelled
<1>2. ASSUME NEW p \in Order, NEW s \in InspectionSpec,
             inspection[p][s].execution \in {"PENDING", "IN_PROGRESS"},
             inspection'[p][s] = [inspection[p][s] EXCEPT !.execution = "CANCELLED"]
      PROVE  NotDecided(inspection'[p][s], decisions[p][s])
  <2>1. NotDecided(inspection[p][s], decisions[p][s])
    BY <1>2, DecidedIsCompleted DEF HistoryShape
  <2>2. inspection[p][s] \in CheckRow
    OBVIOUS
  <2> QED
    BY <1>2, <2>1, <2>2 DEF NotDecided, CheckRow
<1> QED
  BY <1>1, <1>2 DEF HistoryShape, Cancel, CanCancel

\* release creates inspections without decisions.
LEMMA ReleaseShape ==
  ASSUME TypeOK, HistoryShape, DraftUntouched, NEW o \in Order, Release(o)
  PROVE  HistoryShape'
<1> USE TypeParts DEF ChecksTyped
<1>1. \A s \in InspectionSpec : decisions[o][s] = {}
  BY DEF DraftUntouched, Release, CanRelease
<1>2. \A s \in InspectionSpec : NotDecided(inspection'[o][s], decisions'[o][s])
  BY <1>1 DEF NotDecided, Release, CanRelease, NoCheck
<1>3. \A p \in Order \ {o} : inspection'[p] = inspection[p] /\ decisions'[p] = decisions[p]
  BY DEF Release, CanRelease
<1> QED
  BY <1>2, <1>3 DEF HistoryShape

-----------------------------------------------------------------------------
(* DRAFTS *)

\* What the refresh at the end of a command leaves in the rows.
LEMMA ProjectedRows ==
  ASSUME OrdersTyped, NEW o \in Order, NEW rows \in [Route(o) -> StepRow], NEW checks,
         FlowProjected(o, rows, checks)
  PROVE  /\ \A p \in Order \ {o} : step'[p] = step[p] /\ order'[p] = order[p]
         /\ order[o].status \in {"DRAFT", "CANCELLED"} =>
              step'[o] = rows /\ order'[o] = order[o]
         /\ order[o].status \notin {"DRAFT", "CANCELLED"} =>
              /\ step'[o] = FlowRefreshed(rows, checks, Planned[o])
              /\ order'[o] = OrderRefreshed(step'[o], checks)
         /\ order'[o].status = "DRAFT" <=> order[o].status = "DRAFT"
<1>1. FlowRefreshed(rows, checks, Planned[o]) \in [Route(o) -> StepRow]
  BY RouteNonempty, FlowRefreshedType
<1>2. CASE order[o].status \in {"DRAFT", "CANCELLED"}
  BY <1>2 DEF FlowProjected, OrdersTyped, StepsTyped
<1>3. CASE order[o].status \notin {"DRAFT", "CANCELLED"}
  <2>1. /\ step' = [step EXCEPT ![o] = FlowRefreshed(rows, checks, Planned[o])]
        /\ order' = [order EXCEPT ![o] =
             OrderRefreshed(FlowRefreshed(rows, checks, Planned[o]), checks)]
    BY <1>3 DEF FlowProjected
  <2>2. \A new : OrderRefreshed(new, checks).status # "DRAFT"
    BY DEF OrderRefreshed, StatusOf
  <2> QED
    BY <1>3, <2>1, <2>2 DEF OrdersTyped, StepsTyped
<1> QED
  BY <1>2, <1>3

\* The row of an order that was not refreshed or is no draft leaves drafts alone.
LEMMA DraftsKept ==
  ASSUME DraftUntouched, NEW o \in Order,
         order'[o].status # "DRAFT",
         \A p \in Order \ {o} :
           /\ order'[p] = order[p] /\ step'[p] = step[p]
           /\ inspection'[p] = inspection[p] /\ decisions'[p] = decisions[p]
  PROVE  DraftUntouched'
BY DEF DraftUntouched

\* The rows the material refresh hands to the flow refresh.
LEMMA MaterialRows ==
  ASSUME OrdersTyped, NEW o \in Order, NEW enough
  PROVE  MaterialRefreshed(step[o], RequiresMaterial(o), enough) \in [Route(o) -> StepRow]
<1>1. step[o] \in [1..RouteLength[o] -> StepRow]
  BY RouteNonempty DEF OrdersTyped, StepsTyped
<1> QED
  BY <1>1, RouteNonempty, MaterialRefreshedType

\* A command that refreshes an order that is no draft leaves drafts alone.
LEMMA RefreshKeepsDrafts ==
  ASSUME TypeOK, DraftUntouched, NEW o \in Order, order[o].status # "DRAFT",
         NEW checks, NEW rows \in [Route(o) -> StepRow],
         FlowProjected(o, rows, checks),
         \A p \in Order \ {o} :
           inspection'[p] = inspection[p] /\ decisions'[p] = decisions[p]
  PROVE  DraftUntouched'
<1>1. /\ \A p \in Order \ {o} : step'[p] = step[p] /\ order'[p] = order[p]
      /\ order'[o].status # "DRAFT"
  BY ProjectedRows, TypeParts
<1> QED
  BY <1>1, DraftsKept

\* The commands on one order, with the quantities a client may send.
LEMMA OrderStepCases ==
  ASSUME TypeOK, NEW o \in Order, OrderStep(o)
  PROVE  \/ Release(o)
         \/ Cancel(o)
         \/ \E l \in Lot, a \in Allocation, quantity \in Nat \ {0} : Reserve(o, l, a, quantity)
         \/ \E i \in Route(o) : Start(o, i)
         \/ \E i \in Route(o), good, defect \in Nat :
              good <= Planned[o] /\ defect <= Planned[o] /\ Complete(o, i, good, defect)
         \/ \E s \in InspectionSpec, verdict \in {"PASS", "FAIL", "HOLD"} : Verdict(o, s, verdict)
         \/ \E s \in InspectionSpec, verdict \in {"PASS", "FAIL"} : Review(o, s, verdict)
<1>1. SpecsOf[o] \subseteq InspectionSpec /\ Planned[o] \in Nat
  BY DatabaseAssumption
<1>2. \A l \in Lot : 1..lot[l].onHand \subseteq Nat \ {0}
  BY TypeParts DEF LotsTyped, LotRow
<1> QED
  BY <1>1, <1>2 DEF OrderStep

\* No command but release gives a draft steps, inspections or decisions.
LEMMA OrderStepDraft ==
  ASSUME TypeOK, DraftUntouched, NEW o \in Order, OrderStep(o) PROVE DraftUntouched'
<1> USE TypeParts DEF ChecksTyped
<1>1. CASE Release(o)
  BY <1>1, DraftsKept DEF Release, CanRelease, OrdersTyped, StepsTyped
<1>2. CASE Cancel(o)
  <2>1. order'[o].status = "CANCELLED"
    BY <1>2 DEF Cancel, CanCancel, OrdersTyped, OrderRow
  <2> QED
    BY <1>2, <2>1, DraftsKept DEF Cancel, CanCancel, OrdersTyped
<1>3. ASSUME NEW l \in Lot, NEW a \in Allocation, NEW quantity \in Nat,
             Reserve(o, l, a, quantity)
      PROVE  DraftUntouched'
  <2>1. order[o].status # "DRAFT" /\ UNCHANGED <<inspection, decisions>>
    BY <1>3 DEF Reserve, CanReserve, inspectionVars, Reservable
  <2>2. FlowProjected(o, MaterialRefreshed(step[o], RequiresMaterial(o), EnoughMaterial(o)'),
                      inspection[o])
    BY <1>3 DEF Reserve, CanReserve, MaterialAndFlowProjected
  <2> QED
    BY <2>1, <2>2, MaterialRows, RefreshKeepsDrafts
<1>4. ASSUME NEW i \in Route(o), Start(o, i) PROVE DraftUntouched'
  <2>1. order'[o].status = "IN_PROGRESS"
    <3>1. OrderRefreshed(RowsAtStart(o), inspection[o]) =
            [status |-> StatusOf(RowsAtStart(o), inspection[o]),
             currentStep |-> OrderRefreshed(RowsAtStart(o), inspection[o]).currentStep,
             blocked |-> BlockedOf(RowsAtStart(o), inspection[o])]
      BY DEF OrderRefreshed
    <3> QED
      BY <1>4, <3>1 DEF Start, CanStart, OrdersTyped
  <2> QED
    BY <1>4, <2>1, DraftsKept DEF Start, CanStart, OrdersTyped, StepsTyped,
                                  inspectionVars
<1>5. ASSUME NEW i \in Route(o), NEW good \in Nat, NEW defect \in Nat,
             Complete(o, i, good, defect)
      PROVE  DraftUntouched'
  <2>1. order[o].status # "DRAFT" /\ UNCHANGED <<inspection, decisions>>
    BY <1>5 DEF Complete, CanComplete, inspectionVars
  <2>2. FlowProjected(o, CompletedRows(o, i, good, defect), inspection[o])
    BY <1>5 DEF Complete, CanComplete, CompletedRows
  <2> QED
    BY <2>1, <2>2, CompletedRowsType, RefreshKeepsDrafts
<1>6. ASSUME NEW s \in InspectionSpec, NEW verdict, Eligible(o, s),
             VerdictProjected(o, s, verdict),
             \A p \in Order \ {o} : decisions'[p] = decisions[p]
      PROVE  DraftUntouched'
  <2>1. /\ order[o].status # "DRAFT"
        /\ \A p \in Order \ {o} : inspection'[p] = inspection[p]
    BY <1>6 DEF Eligible, VerdictProjected
  <2>2. FlowProjected(o, MaterialRefreshed(step[o], RequiresMaterial(o), EnoughMaterial(o)),
                      inspection'[o])
    BY <1>6 DEF VerdictProjected, MaterialAndFlowProjected
  <2> QED
    BY <1>6, <2>1, <2>2, MaterialRows, RefreshKeepsDrafts
<1>7. ASSUME NEW s \in InspectionSpec, NEW verdict,
             Verdict(o, s, verdict) \/ Review(o, s, verdict)
      PROVE  DraftUntouched'
  BY <1>6, <1>7 DEF Verdict, CanDecide, Review, CanReview
<1> QED
  BY <1>1, <1>2, <1>3, <1>4, <1>5, <1>7, OrderStepCases

\* The release of a reservation does not refresh a draft.
LEMMA ReleaseReservationDraft ==
  ASSUME TypeOK, DraftUntouched, NEW a \in Allocation, ReleaseReservation(a)
  PROVE  DraftUntouched'
<1> USE TypeParts DEF ChecksTyped
<1> DEFINE o == alloc[a].order
           rows == MaterialRefreshed(step[o], RequiresMaterial(o), EnoughMaterial(o)')
<1>1. o \in Order
  BY DEF ReleaseReservation, CanDissolve, AllocationsTyped, Active
<1>2. FlowProjected(o, rows, inspection[o]) /\ UNCHANGED <<inspection, decisions>>
  BY DEF ReleaseReservation, CanDissolve, ReservationDissolved,
         MaterialAndFlowProjected, inspectionVars
<1>3. rows \in [Route(o) -> StepRow]
  BY <1>1, MaterialRows
<1>4. CASE order[o].status = "DRAFT"
  <2>1. step[o][1].readiness = "ABSENT"
    <3> HIDE DEF o, rows
    <3>1. step[o] = [i \in Route(o) |-> NoStep]
      BY <1>1, <1>4 DEF DraftUntouched
    <3>2. step[o][1] = NoStep
      BY <1>1, <3>1, RouteNonempty
    <3> QED
      BY <3>2 DEF NoStep
  <2>2. rows = step[o]
    BY <2>1 DEF MaterialRefreshed
  <2> HIDE DEF o, rows
  <2>3. \A p \in Order : step'[p] = step[p] /\ order'[p] = order[p]
    BY <1>1, <1>2, <1>3, <1>4, <2>2, ProjectedRows
  <2> QED
    BY <1>2, <2>3 DEF DraftUntouched
<1>5. CASE order[o].status # "DRAFT"
  <2> HIDE DEF o, rows
  <2> QED
    BY <1>1, <1>2, <1>3, <1>5, RefreshKeepsDrafts
<1> QED
  BY <1>4, <1>5

-----------------------------------------------------------------------------
(* THE THEOREM *)

TypeInvariant == TypeOK /\ HistoryShape /\ DraftUntouched

\* The seeded database satisfies the invariant.
LEMMA InitTypeInvariant == Init => TypeInvariant
<1> SUFFICES ASSUME Init PROVE TypeInvariant
  OBVIOUS
<1>1. TypeOK
  BY InitTypeOK
<1>2. HistoryShape
  BY DEF HistoryShape, NotDecided, Init, SeedCheck, NoCheck
<1>3. DraftUntouched
  <2>1. ASSUME NEW o \in Order, order[o].status = "DRAFT" PROVE o \notin Imported
    BY <2>1 DEF Init
  <2>2. \A o \in Order \ Imported : step[o] = [i \in Route(o) |-> NoStep]
    BY DEF Init, SeedStep
  <2>3. \A o \in Order \ Imported, s \in InspectionSpec :
          inspection[o][s] = NoCheck /\ decisions[o][s] = {}
    BY DEF Init, SeedCheck
  <2> QED
    BY <2>1, <2>2, <2>3 DEF DraftUntouched
<1> QED
  BY <1>1, <1>2, <1>3 DEF TypeInvariant

\* The commands on an order preserve the invariant.
LEMMA OrderStepTypeInvariant ==
  ASSUME TypeInvariant, NEW o \in Order, OrderStep(o) PROVE TypeInvariant'
<1> USE DEF TypeInvariant
<1>1. TypeOK'
  BY OrderStepCases, ReleaseType, CancelType, ReserveType, StartType, CompleteType,
     VerdictType, ReviewType
<1>2. HistoryShape'
  <2>1. UNCHANGED inspectionVars => HistoryShape'
    BY DEF HistoryShape, inspectionVars
  <2> QED
    BY <2>1, OrderStepCases, ReleaseShape, CancelShape, VerdictShape, ReviewShape
       DEF Reserve, CanReserve, Start, CanStart, Complete, CanComplete
<1> QED
  BY <1>1, <1>2, OrderStepDraft

\* Every step preserves the invariant.
LEMMA NextTypeInvariant == TypeInvariant /\ [Next]_vars => TypeInvariant'
<1> SUFFICES ASSUME TypeInvariant, [Next]_vars PROVE TypeInvariant'
  OBVIOUS
<1> USE DEF TypeInvariant
<1>1. ASSUME UNCHANGED <<productionVars, inspectionVars>> PROVE HistoryShape' /\ DraftUntouched'
  BY <1>1 DEF HistoryShape, DraftUntouched, productionVars, inspectionVars
<1>2. ASSUME NEW a \in Allocation, ReleaseReservation(a) PROVE TypeInvariant'
  <2>1. HistoryShape'
    BY <1>2 DEF ReleaseReservation, CanDissolve, HistoryShape, inspectionVars
  <2> QED
    BY <1>2, <2>1, ReleaseReservationType, ReleaseReservationDraft
<1>3. ASSUME NEW l \in Lot, Expire(l) PROVE TypeInvariant'
  BY <1>1, <1>3, ExpireType DEF Expire
<1>4. ASSUME NEW q \in Inspector, InspectorStep(q) PROVE TypeInvariant'
  <2>1. UNCHANGED <<productionVars, inspectionVars>>
    BY <1>4 DEF InspectorStep, DecideRead, DecideCount, DecideUpdate, RegisterRead,
       QuarantineUpdate, CountIncidents, RegisterCommit, Rollback
  <2> QED
    BY <1>1, <1>4, <2>1, InspectorStepType
<1>5. ASSUME NEW o \in Order, DueDatePasses(o) PROVE TypeInvariant'
  BY <1>1, <1>5, DueDateKeepsRows, DueDateType DEF productionVars, inspectionVars
<1>6. CASE UNCHANGED vars
  <2>1. UNCHANGED <<productionVars, inspectionVars>>
    BY <1>6 DEF vars, productionVars, inspectionVars
  <2>2. TypeOK'
    BY <1>6, TypeParts, UnchangedParts DEF vars, productionVars, inspectionVars
  <2> QED
    BY <1>1, <2>1, <2>2
<1> QED
  BY <1>2, <1>3, <1>4, <1>5, <1>6, OrderStepTypeInvariant DEF Next

(***************************************************************************)
(* Every reachable state of the composed system is well formed, and the    *)
(* decisions of every inspection are none, one, or a hold and its review.  *)
(***************************************************************************)
THEOREM TypeInvariantHolds == Spec => []TypeInvariant
<1> QED
  BY InitTypeInvariant, NextTypeInvariant, PTL DEF Spec

(***************************************************************************)
(* Type correctness: every row the commands of work-orders, process-       *)
(* executions, inspections, material-reservations and material-lots write  *)
(* fits the schema.                                                        *)
(***************************************************************************)
THEOREM TypeCorrect == Spec => []TypeOK
<1>1. TypeInvariant => TypeOK
  BY DEF TypeInvariant
<1> QED
  BY <1>1, TypeInvariantHolds, PTL

(***************************************************************************)
(* The verdict on every inspection row is the last of its append-only,     *)
(* gapless decisions (verdict and review in inspection-verdict.service.ts).*)
(***************************************************************************)
THEOREM VerdictsExplained == Spec => []DecisionsExplainVerdict
<1>1. TypeInvariant => DecisionsExplainVerdict
  BY ShapeExplainsVerdict DEF TypeInvariant
<1> QED
  BY <1>1, TypeInvariantHolds, PTL
=============================================================================
