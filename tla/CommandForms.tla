----------------------------- MODULE CommandForms -----------------------------
(***************************************************************************)
(* The pages of the web client that send manufacturing commands, over the  *)
(* server of ManufacturingFlow.                                            *)
(*                                                                         *)
(* One user with every permission works on one page at a time while other  *)
(* users do what they like.  A page reads a detail (useLoadState: the old  *)
(* detail stays while it is read again), decides from it which commands to *)
(* offer, and keeps the local state of its form as long as React keeps the *)
(* form mounted; one form is in use at a time.  A reading, and a command   *)
(* on the server, is one step; its answer is a step of its own and may be  *)
(* lost.  The order in which readings answer is the subject of             *)
(* ClientReads.                                                            *)
(***************************************************************************)
EXTENDS ManufacturingFlow

CONSTANTS
    LotRank,        \* place of a lot in the list: receivedAt descending, then lotNumber
    LotPageSize     \* DEFAULT_PAGE_SIZE of the list of lots

ASSUME FormsAssumption ==
    /\ LotRank \in [Lot -> Nat]
    /\ \A l, k \in Lot : LotRank[l] = LotRank[k] => l = k
    /\ LotPageSize \in Nat \ {0}

VARIABLES
    page,    \* the page on the screen
    view,    \* its useLoadState: phase and the detail last read
    due,     \* a reading of the detail is under way
    form,    \* the local state of the form or dialog that is mounted
    call     \* the command under way

clientVars == <<page, view, due, form, call>>
formVars == <<vars, clientVars>>

Page(at, o, item) == [at |-> at, order |-> o, item |-> item]

\* The pages a user can have open: those of records that exist.
Pages ==
    {Page(at, o, 0) : at \in {"order", "reservations", "queue", "inspections"}, o \in Order}
      \cup (UNION {{Page("process", o, i) : i \in {j \in Route(o) : step[o][j] # NoStep}} :
                     o \in Order})
      \cup (UNION {{Page("inspection", o, s) :
                      s \in {t \in SpecsOf[o] : inspection[o][t] # NoCheck}} : o \in Order})

-----------------------------------------------------------------------------
(* WHAT THE SERVER ANSWERS TO A READING *)

\* WorkOrdersService.detail
OrderDetail(o) == order[o].status

\* ProcessExecutionsService.detail, also the rows of its list
StepDetail(o, i) ==
    [readiness |-> step[o][i].readiness,
     limit |-> OutputQuantityLimit(step[o], i, Planned[o])]

\* InspectionsService.detail
InspectionDetail(o, s) ==
    [undecided |-> Undecided(inspection[o][s]),
     held |-> Held(inspection[o][s]),
     eligible |-> Eligible(o, s)]

Detail(p) ==
    CASE p.at \in {"order", "reservations"} -> OrderDetail(p.order)
      [] p.at = "process" -> StepDetail(p.order, p.item)
      [] p.at = "inspection" -> InspectionDetail(p.order, p.item)
      [] p.at = "queue" -> [i \in Route(p.order) |-> StepDetail(p.order, i)]
      [] p.at = "inspections" -> {s \in SpecsOf[p.order] : Undecided(inspection[p.order][s])}

\* MaterialReservationsService.list, the active rows
ReservationRows(o) ==
    {[row |-> a, lot |-> alloc[a].lot, quantity |-> alloc[a].quantity] : a \in HeldBy(o)}

\* The panel reads one page of the lots with availability=available, of any material.
OnFirstPage(l) ==
    /\ Available(l) > 0
    /\ Cardinality({k \in Lot : Available(k) > 0 /\ LotRank[k] < LotRank[l]}) < LotPageSize

\* What that page says is available; 0: the lot is not on it.
AvailableLots == [l \in Lot |-> IF OnFirstPage(l) THEN Available(l) ELSE 0]
NoLots == [l \in Lot |-> 0]

-----------------------------------------------------------------------------
(* THE FORMS *)

NoForm == [kind |-> "none", pending |-> FALSE, target |-> 0, limit |-> Null,
           verdict |-> "PASS", rows |-> {}, lots |-> NoLots, reading |-> {}]

ReservationForm == [NoForm EXCEPT !.kind = "reservation", !.reading = {"rows", "lots"}]
CompletionForm(i, limit) ==
    [NoForm EXCEPT !.kind = "completion", !.target = i, !.limit = limit]
VerdictForm(s) == [NoForm EXCEPT !.kind = "verdict", !.target = s]

\* The form the inspection page renders: one component for both purposes.
VerdictOnly(d) == d.eligible /\ d.undecided                            \* mutant
VerdictOrReview(d) == d.eligible /\ (d.undecided \/ d.held)
IsReview(p, d) == p.at = "inspection" /\ d.held

\* The form page p renders by itself when it shows detail d.
FormOn(p, d) ==
    CASE p.at \in {"order", "reservations"} -> ReservationForm
      [] p.at = "process" /\ d.readiness = "IN_PROGRESS" -> CompletionForm(p.item, d.limit)
      [] p.at = "inspection" /\ VerdictOrReview(d) -> VerdictForm(p.item)
      [] OTHER -> NoForm

IsDialog(p, f) == p.at \in {"queue", "inspections"} /\ f.kind \in {"completion", "verdict"}

\* A form stays mounted, with its state, as long as the page renders it.
FormKept(p, d, f) ==
    \/ IsDialog(p, f)
    \/ f.kind = "start" /\ d[f.target].readiness = "READY"
    \/ f.kind # "none" /\ f.kind = FormOn(p, d).kind

Rendered(p, d, f) == IF FormKept(p, d, f) THEN f ELSE FormOn(p, d)

-----------------------------------------------------------------------------
(* WHAT A PAGE OFFERS *)

NoCommand == [do |-> "nothing", order |-> NoOrder, item |-> 0, arg |-> 0]
Command(do, o, item, arg) == [do |-> do, order |-> o, item |-> item, arg |-> arg]

OrderCommands(o, d) ==
    {c \in {Command("release", o, 0, 0), Command("cancel", o, 0, 0)} :
       d = "DRAFT" \/ (d = "RELEASED" /\ c.do = "cancel")}

\* The panel's own sum of what is reserved of material m, in pieces like Total.
ReservedInRows(f, m) ==
    LET rows == {r \in f.rows : MaterialOf[r.lot] = m} IN
    Cardinality(UNION {{r} \X (1..r.quantity) : r \in rows})

\* maxQuantity of lot l
MaxOfLot(o, f, l) == f.lots[l]                                        \* mutant

MaxQuantity(o, f, l) ==
    LET m == MaterialOf[l]
        missing == Required[o][m] - ReservedInRows(f, m)
    IN
    IF ~RequiresMaterial(o) \/ f.lots[l] <= missing THEN f.lots[l]
    ELSE IF missing > 0 THEN missing ELSE 0

ReservationCommands(o, d, f) ==
    {Command("dissolve", o, r.row, 0) : r \in f.rows}
      \cup IF d # "RELEASED" THEN {}
           ELSE UNION {{Command("reserve", o, l, n) : n \in 1..MaxQuantity(o, f, l)} : l \in Lot}

\* The quantities account for the whole input, which is positive.
CompletionCommands(o, i, limit) ==
    {Command("complete", o, i, <<good, limit - good>>) :
       good \in IF limit = Null \/ limit = 0 THEN {} ELSE 0..limit}

StartCommands(o, d) ==
    {Command("start", o, i, 0) : i \in {j \in DOMAIN d : d[j].readiness = "READY"}}

VerdictCommands(p, d, f) ==
    {Command(IF IsReview(p, d) THEN "review" ELSE "verdict", p.order, f.target, f.verdict)}

Offered(p, d, f) ==
    CASE p.at = "order" -> OrderCommands(p.order, d) \cup ReservationCommands(p.order, d, f)
      [] p.at = "reservations" -> ReservationCommands(p.order, d, f)
      [] p.at \in {"process", "queue"} /\ f.kind = "completion" ->
           CompletionCommands(p.order, f.target, f.limit)
      [] p.at = "queue" /\ f.kind # "completion" -> StartCommands(p.order, d)
      [] p.at \in {"inspection", "inspections"} /\ f.kind = "verdict" ->
           VerdictCommands(p, d, f)
      [] OTHER -> {}

-----------------------------------------------------------------------------
(* THE SERVER'S ANSWER TO A COMMAND *)

WorkOrderCommand(c) ==
    \/ c.do = "release" /\ Release(c.order)
    \/ c.do = "cancel" /\ Cancel(c.order)

MaterialCommand(c) ==
    \/ c.do = "reserve" /\ \E a \in Allocation : Reserve(c.order, c.item, a, c.arg)
    \/ c.do = "dissolve" /\ ReleaseReservation(c.item)

ProcessCommand(c) ==
    \/ c.do = "start" /\ Start(c.order, c.item)
    \/ c.do = "complete" /\ Complete(c.order, c.item, c.arg[1], c.arg[2])

InspectionCommand(c) ==
    \/ c.do = "verdict" /\ Verdict(c.order, c.item, c.arg)
    \/ c.do = "review" /\ c.arg # "HOLD" /\ Review(c.order, c.item, c.arg)

ServerDoes(c) ==
    WorkOrderCommand(c) \/ MaterialCommand(c) \/ ProcessCommand(c) \/ InspectionCommand(c)

\* Such a command is refused for no reason of its own.
Accepts(c) ==
    \/ c.do = "release" /\ CanRelease(c.order)
    \/ c.do = "cancel" /\ CanCancel(c.order)
    \/ c.do = "reserve" /\ CanReserve(c.order, c.item, c.arg)
    \/ c.do = "dissolve" /\ CanDissolve(c.item)
    \/ c.do = "start" /\ CanStart(c.order, c.item)
    \/ c.do = "complete" /\ CanComplete(c.order, c.item, c.arg[1], c.arg[2])
    \/ c.do = "verdict" /\ CanDecide(c.order, c.item)
    \/ c.do = "review" /\ c.arg # "HOLD" /\ CanReview(c.order, c.item)

NoCall == [command |-> NoCommand, state |-> "none"]

-----------------------------------------------------------------------------
(* STEPS OF THE CLIENT *)

FormsInit ==
    /\ Init
    /\ page \in {p \in Pages : p.at = "order"}
    /\ view = [phase |-> "loading", detail |-> {}]
    /\ due = TRUE
    /\ form = NoForm
    /\ call = NoCall

\* Leaving a page unmounts it.  A command under way is then answered to nobody
\* and is one of the commands of others.
Open(p) ==
    /\ p # page
    /\ page' = p
    /\ view' = [phase |-> "loading", detail |-> {}]
    /\ due' = TRUE
    /\ form' = NoForm
    /\ call' = NoCall
    /\ UNCHANGED vars

Read ==
    /\ due
    /\ due' = FALSE
    /\ view' = [phase |-> "shown", detail |-> Detail(page)]
    /\ form' = Rendered(page, Detail(page), form)
    /\ UNCHANGED <<vars, page, call>>

\* The error takes the place of the detail and of its form, not of a dialog.
ReadFails ==
    /\ due
    /\ due' = FALSE
    /\ view' = [phase |-> "error", detail |-> {}]
    /\ form' = IF IsDialog(page, form) THEN form ELSE NoForm
    /\ UNCHANGED <<vars, page, call>>

Retry ==
    /\ view.phase = "error" /\ ~due
    /\ page.at \in {"order", "inspection", "queue", "inspections"}
    /\ view' = [phase |-> "loading", detail |-> {}]
    /\ due' = TRUE
    /\ UNCHANGED <<vars, page, form, call>>

\* The reservation panel reads its rows and the available lots once, when mounted.
ReadRows(ok) ==
    /\ "rows" \in form.reading
    /\ form' = [form EXCEPT !.reading = @ \ {"rows"},
                           !.rows = IF ok THEN ReservationRows(page.order) ELSE {}]
    /\ UNCHANGED <<vars, page, view, due, call>>

ReadLots(ok) ==
    /\ "lots" \in form.reading
    /\ form' = [form EXCEPT !.reading = @ \ {"lots"},
                           !.lots = IF ok THEN AvailableLots ELSE NoLots]
    /\ UNCHANGED <<vars, page, view, due, call>>

\* A completion or a verdict is entered in a dialog of the list.
OpenDialog ==
    /\ view.phase = "shown" /\ form.kind = "none"
    /\ \/ /\ page.at = "queue"
          /\ \E i \in DOMAIN view.detail :
               /\ view.detail[i].readiness = "IN_PROGRESS"
               /\ form' = CompletionForm(i, view.detail[i].limit)
       \/ /\ page.at = "inspections"
          /\ \E s \in view.detail : form' = VerdictForm(s)
    /\ UNCHANGED <<vars, page, view, due, call>>

Choose(verdict) ==
    /\ form.kind = "verdict" /\ ~form.pending
    /\ verdict # form.verdict
    /\ view.phase = "shown" /\ IsReview(page, view.detail) => verdict # "HOLD"
    /\ form' = [form EXCEPT !.verdict = verdict]
    /\ UNCHANGED <<vars, page, view, due, call>>

\* onDone of a form: a page reads its detail again, a list also closes the dialog.
Done ==
    /\ due' = TRUE
    /\ form' = IF IsDialog(page, form) THEN NoForm ELSE form
    /\ UNCHANGED <<page, view>>

Dismiss ==
    /\ form.kind \in {"completion", "verdict"}
    /\ form.kind = "verdict" => ~form.pending
    /\ Done
    /\ UNCHANGED <<vars, call>>

\* The sheet around a dialog closes at any time, and nothing is read again.
CloseSheet ==
    /\ IsDialog(page, form)
    /\ form' = NoForm
    /\ UNCHANGED <<vars, page, view, due, call>>

Submit(c) ==
    /\ view.phase = "shown" /\ ~form.pending /\ call = NoCall
    /\ c \in Offered(page, view.detail, form)
    /\ c.do = "reserve" => \E a \in Allocation : alloc[a].status = "FREE"
    /\ call' = [command |-> c, state |-> "sent"]
    /\ form' = CASE c.do = "start" ->
                      [NoForm EXCEPT !.kind = "start", !.target = c.item, !.pending = TRUE]
                 [] c.do \in {"release", "cancel"} -> form
                 [] OTHER -> [form EXCEPT !.pending = TRUE]
    /\ UNCHANGED <<vars, page, view, due>>

Execute ==
    /\ call.state = "sent"
    /\ \E c \in {call.command} : ServerDoes(c)
    /\ call' = [call EXCEPT !.state = "done"]
    /\ UNCHANGED <<page, view, due, form>>

\* release and cancel answer with the detail, which replaces the one shown.
Replaced ==
    /\ view' = [phase |-> "shown", detail |-> Detail(page)]
    /\ form' = Rendered(page, Detail(page), form)
    /\ UNCHANGED <<page, due>>

\* reserve and dissolve answer with the rows; only the order page reads again.
RowsReplaced ==
    /\ form' = IF form.kind # "reservation" THEN form
               ELSE [form EXCEPT !.rows = ReservationRows(page.order), !.pending = FALSE]
    /\ due' = (due \/ page.at = "order")
    /\ UNCHANGED <<page, view>>

Answered ==
    /\ call.state = "done"
    /\ call' = NoCall
    /\ CASE call.command.do \in {"release", "cancel"} -> Replaced
         [] call.command.do \in {"reserve", "dissolve"} -> RowsReplaced
         [] OTHER -> Done
    /\ UNCHANGED vars

PendingKept == form                                                   \* mutant
PendingCleared == [form EXCEPT !.pending = FALSE]

\* The server refuses the command, or the request or its answer is lost.
Failed ==
    /\ call # NoCall
    /\ call' = NoCall
    /\ form' = IF form.kind = "start" THEN NoForm ELSE PendingCleared
    /\ UNCHANGED <<vars, page, view, due>>

Client ==
    \/ \E p \in Pages : Open(p)
    \/ Read \/ ReadFails \/ Retry
    \/ \E ok \in BOOLEAN : ReadRows(ok) \/ ReadLots(ok)
    \/ OpenDialog \/ Dismiss \/ CloseSheet
    \/ \E verdict \in {"PASS", "FAIL", "HOLD"} : Choose(verdict)
    \/ view.phase = "shown" /\ \E c \in Offered(page, view.detail, form) : Submit(c)
    \/ Execute \/ Answered \/ Failed

Others == Next /\ UNCHANGED clientVars

FormsNext == Client \/ Others

FormsSpec == FormsInit /\ [][FormsNext]_formVars

-----------------------------------------------------------------------------
(* THE CONTRACT BETWEEN FORMS AND COMMANDS *)

\* Everything on the screen is what the server would answer now.
UpToDate ==
    /\ view.phase = "shown" /\ view.detail = Detail(page)
    /\ form.kind = "reservation" =>
         form.rows = ReservationRows(page.order) /\ form.lots = AvailableLots
    /\ IsDialog(page, form) =>
         IF page.at = "queue" THEN Detail(page)[form.target].readiness = "IN_PROGRESS"
         ELSE form.target \in Detail(page)

\* READY was derived before a reserved lot expired.
LotsExpired(o) == \E a \in HeldBy(o) : ~Usable(alloc[a].lot)

\* A form opened for a verdict serves the review of the hold it recorded.
HeldFormKept ==
    page.at = "inspection" /\ form.kind = "verdict" /\ form.verdict = "HOLD"
      /\ view.phase = "shown" /\ view.detail.held

(***************************************************************************)
(* Pages repeat the guards of the server in their own words: the status of *)
(* the order, the quantity still missing and available, the input of a     *)
(* step, the eligibility of an inspection.  Whatever a page offers while   *)
(* what it shows is up to date, the server accepts, and the local state a  *)
(* form kept from before does not change that.  Known exceptions: release, *)
(* offered for every draft, also one that is overdue (the page shows that  *)
(* it is), has no route or no published BOM, or a gate that is not on its  *)
(* route; a READY row that outlived its reserved lot or its cancelled      *)
(* order; and the list of inspections, which offers a verdict by the       *)
(* execution status alone.  A lot locked by an open quality transaction    *)
(* delays a command and is no reason to refuse it.                         *)
(***************************************************************************)
OfferedIsAccepted ==
    UpToDate /\ ~HeldFormKept /\ (\A l \in Lot : ~Locked(l)) =>
        \A c \in Offered(page, view.detail, form) :
            \/ Accepts(c)
            \/ c.do = "release" /\ ~ReleasePrepared(c.order)
            \/ c.do = "start" /\ (LotsExpired(c.order) \/ order[c.order].status = "CANCELLED")
            \/ page.at = "inspections" /\ ~Eligible(c.order, c.item)

Commands(o) ==
    {Command("release", o, 0, 0), Command("cancel", o, 0, 0)}
      \cup (UNION {{Command("reserve", o, l, n) : n \in 1..lot[l].onHand} : l \in Lot})
      \cup {Command("dissolve", o, a, 0) : a \in HeldBy(o)}
      \cup {Command("start", o, i, 0) : i \in Route(o)}
      \cup {Command("complete", o, i, <<good, defect>>) :
               i \in Route(o), good \in 0..Planned[o], defect \in 0..Planned[o]}
      \cup {Command("verdict", o, s, verdict) : s \in SpecsOf[o],
               verdict \in {"PASS", "FAIL", "HOLD"}}
      \cup {Command("review", o, s, verdict) : s \in SpecsOf[o], verdict \in {"PASS", "FAIL"}}

FreshForm(p, verdict) ==
    [FormOn(p, Detail(p)) EXCEPT !.rows = ReservationRows(p.order), !.lots = AvailableLots,
                                 !.verdict = verdict]

OfferedSomewhere(c) ==
    \E p \in Pages, verdict \in {"PASS", "FAIL", "HOLD"} :
        c \in Offered(p, Detail(p), FreshForm(p, verdict))

\* The first row says that reserved material is unusable, and it is usable again.
MaterialRecovered(o) ==
    step[o][1].readiness = "BLOCKED" /\ step[o][1].reasons \cap MaterialReasons # {}
      /\ EnoughMaterial(o)

(***************************************************************************)
(* The other way round: when a user turns to an order, each command the    *)
(* server accepts from anybody is also offered by some page that could be  *)
(* opened instead, so no order waits for a command nobody can give.  There *)
(* are two exceptions.  A first step blocked by material under quality     *)
(* control: after the lot was accepted again the server would start the    *)
(* step, and no page offers that before the rows are derived again.  And a *)
(* lot beyond the first page of available lots: the panel does not page,   *)
(* so nobody can reserve it while enough others come before it.            *)
(***************************************************************************)
AcceptedIsOffered ==
    [][view.phase = "loading" /\ page.at = "order" =>
         \A o \in Order : \A c \in Commands(o) :
            ServerDoes(c) =>
               \/ OfferedSomewhere(c)
               \/ c.do = "start" /\ MaterialRecovered(o)
               \/ c.do = "reserve" /\ ~OnFirstPage(c.item)]_formVars

(***************************************************************************)
(* A form that was sent does not stay locked: once its answer, its failure *)
(* and the reading they cause have arrived, it is unmounted or usable      *)
(* again, although no form clears `pending` on success.  The exception is  *)
(* HoldsReviewable below.                                                  *)
(***************************************************************************)
PendingEnds ==
    form.pending => call # NoCall \/ due \/ HeldFormKept

(***************************************************************************)
(* A command whose answer is late or lost may be sent again by its user.   *)
(* Once it took effect the server refuses it, whatever others did since;   *)
(* only a reservation can be made twice.                                   *)
(***************************************************************************)
RetryRefused ==
    [][call.state = "done" /\ call.command.do # "reserve" =>
         \A c \in {call.command} : ~ServerDoes(c)]_formVars

(***************************************************************************)
(* "After a verdict only a held inspection can be reviewed further"        *)
(* (InspectionVerdictPanel.tsx): the page that shows a reviewable hold,    *)
(* with nothing under way, has a review form that can be used.             *)
(***************************************************************************)
HoldsReviewable ==
    page.at = "inspection" /\ view.phase = "shown" /\ ~due /\ call = NoCall =>
        (view.detail.held /\ view.detail.eligible => ~form.pending)
=============================================================================
