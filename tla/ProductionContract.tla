-------------------------- MODULE ProductionContract --------------------------
(***************************************************************************)
(* What the plant promises of a work order, told without the rows it is    *)
(* kept in: the course of an order from its draft to its completion, the   *)
(* work on its steps, the outcomes of its inspections, and the material    *)
(* it has claimed.  Readiness, block reasons, the current step, counters   *)
(* of lots, transactions and the quality control of lots have no place     *)
(* here; CommandContract says how the commands implement it.               *)
(***************************************************************************)
EXTENDS Naturals

CONSTANTS
    Order,
    Length,      \* Length[o]: steps of the route of o
    Check,       \* inspection specifications
    ChecksOf,    \* ChecksOf[o]: those o must pass
    Gate,        \* Gate[s]: "ROUTE_ADVANCE" or "LOT_COMPLETE"
    StepOf,      \* StepOf[s]: the step a gate inspection belongs to
    Claim,       \* names of the claims on material
    TakenOver    \* orders taken over in mid-production

VARIABLES
    status,      \* status[o]
    work,        \* work[o][i]: "waiting", "begun" or "done"
    outcome,     \* outcome[o][s]: "open", or the verdict in force
    claims       \* claims[o]: the claims on material o holds

contractVars == <<status, work, outcome, claims>>

Steps(o) == 1..Length[o]

Init ==
    /\ status = [o \in Order |-> IF o \in TakenOver THEN "IN_PROGRESS" ELSE "DRAFT"]
    /\ work = [o \in Order |-> [i \in Steps(o) |->
                 IF o \in TakenOver /\ i = 1 THEN "begun" ELSE "waiting"]]
    /\ outcome \in [Order -> [Check -> {"open", "HOLD"}]]
    /\ claims \in [Order -> SUBSET Claim]
    /\ \A o \in Order \ TakenOver :
         claims[o] = {} /\ \A s \in Check : outcome[o][s] = "open"

-----------------------------------------------------------------------------

\* An order is completed as soon as all its work is done and all its checks passed.
Settled(o, works, outcomes) ==
    IF /\ \A i \in Steps(o) : works[i] = "done"
       /\ \A s \in ChecksOf[o] : outcomes[s] = "PASS"
    THEN "COMPLETED" ELSE "IN_PROGRESS"

Release(o) ==
    /\ status[o] = "DRAFT"
    /\ status' = [status EXCEPT ![o] = "RELEASED"]
    /\ UNCHANGED <<work, outcome, claims>>

\* Only an order nobody has worked on is cancelled, and it keeps no claim.
Cancel(o) ==
    /\ status[o] \in {"DRAFT", "RELEASED"}
    /\ \A i \in Steps(o) : work[o][i] = "waiting"
    /\ status' = [status EXCEPT ![o] = "CANCELLED"]
    /\ claims' = [claims EXCEPT ![o] = {}]
    /\ UNCHANGED <<work, outcome>>

\* Material is claimed before the work begins, and given back until it is used.
Allot(o, C) ==
    /\ \/ status[o] = "RELEASED"
       \/ status[o] = "IN_PROGRESS" /\ C \subseteq claims[o]
    /\ claims' = [claims EXCEPT ![o] = C]
    /\ UNCHANGED <<status, work, outcome>>

\* The work advances along the route and past each gate; it uses up all claims.
Begin(o, i) ==
    /\ status[o] \in {"RELEASED", "IN_PROGRESS"}
    /\ work[o][i] = "waiting"
    /\ \A j \in 1..(i-1) : work[o][j] = "done"
    /\ \A s \in ChecksOf[o] :
         Gate[s] = "ROUTE_ADVANCE" /\ StepOf[s] \in 1..(i-1) => outcome[o][s] = "PASS"
    /\ status' = [status EXCEPT ![o] = "IN_PROGRESS"]
    /\ work' = [work EXCEPT ![o][i] = "begun"]
    /\ claims' = [claims EXCEPT ![o] = {}]
    /\ UNCHANGED outcome

Finish(o, i) ==
    /\ status[o] = "IN_PROGRESS"
    /\ work[o][i] = "begun"
    /\ work' = [work EXCEPT ![o][i] = "done"]
    /\ status' = [status EXCEPT ![o] = Settled(o, work'[o], outcome[o])]
    /\ UNCHANGED <<outcome, claims>>

\* A check is decided on work there is, and again only after a hold.
Decide(o, s, verdict) ==
    /\ status[o] = "IN_PROGRESS"
    /\ \/ outcome[o][s] = "open"
       \/ outcome[o][s] = "HOLD" /\ verdict # "HOLD"
    /\ IF Gate[s] = "LOT_COMPLETE" THEN \A i \in Steps(o) : work[o][i] = "done"
       ELSE StepOf[s] \in Steps(o) /\ work[o][StepOf[s]] # "waiting"
    /\ outcome' = [outcome EXCEPT ![o][s] = verdict]
    /\ status' = [status EXCEPT ![o] = Settled(o, work[o], outcome'[o])]
    /\ UNCHANGED <<work, claims>>

Course(o) ==
    \/ Release(o)
    \/ Cancel(o)
    \/ \E C \in SUBSET Claim : Allot(o, C)
    \/ \E i \in Steps(o) : Begin(o, i) \/ Finish(o, i)
    \/ \E s \in ChecksOf[o], verdict \in {"PASS", "FAIL", "HOLD"} : Decide(o, s, verdict)

Next == \E o \in Order : Course(o)

Spec == Init /\ [][Next]_contractVars
=============================================================================
