# Verification of the sensor manufacturing MES

TLA+ models of the API server (`src/apps/api`) and of the web client
(`src/apps/web`), the runs that check them with TLC and the theorems TLAPS
proves about them.  The system is a small manufacturing execution system: work
orders go over a route of process steps, consume material lots that were
reserved for them, and are gated by inspections and by quality decisions on the
lots.  Users in five roles work with it in browsers.

Contents

1. The system and its parts
2. The modules, and how they correspond to the code
3. How the code executes, and what that means for the model
4. What the runs check
5. What is proved
6. Where documentation and code disagree
7. What is abstracted and what is not modelled
8. What could come next


## 1. The system and its parts

One Node process serves REST commands from one PostgreSQL database.  Several
clients send commands at the same time; there are no background jobs, queues or
timers on the server.  All interaction between its components goes through the
tables.  The client is a single-page application: several parts of a page, and
several tabs, share the session cookie, and the parts of a page share requests.

| Component | State | Operations | Hard behaviour | What makes it correct |
|---|---|---|---|---|
| Production flow, `process-executions/production-flow.ts` | derived columns of `ProcessStepExecution` and `WorkOrder` | `refreshMaterialReadiness`, `refreshProductionFlow`, `productionTransaction` | cached state, rewritten by every command | caches are current, status never runs backwards, an order is completed by the very command that does the last thing missing |
| Work orders, `work-orders/` | `WorkOrder`, its requirements, steps and inspections | `create`, `release`, `cancel`, `list`, `detail` | numbering races, audit written outside the transaction | nothing is left behind by a cancel |
| Material reservations, `material-reservations/` | `MaterialAllocation`, `MaterialLot.reservedQuantity` | `reserve`, `release`, `list` | orders compete for a lot, lots expire | counters equal rows, no over-reservation |
| Process commands, `process-executions/process-commands.service.ts` | step results, `MaterialLot` counters, `LotRelation` | `start`, `complete` | stale readiness, material that went bad after it was reserved | gates, quantity balance, exact bill of materials, complete genealogy |
| Inspections, `inspections/` | `Inspection`, `InspectionDecision` | `verdict`, `review`, `list`, `detail` | late reviews, holds imported without decisions | decisions are append-only, explain the verdict, and are final |
| Lot disposition, `material-lots/material-lot-disposition.service.ts` | `MaterialLot` | `decide` | check and update in different statements of a READ COMMITTED transaction | rejected is final, scrapped once, never under a live reservation |
| Quality incidents, `quality-incidents/` | `QualityIncident`, `MaterialLot.disposition` | `register`, `list` | number races, crash between quarantine and incident | a quarantine has its incident |
| Users and sessions, `auth/`, `admin-users/` | `User`, `Session` | `login`, `logout`, `changeAccess` | login against a change of roles, two administrators against each other | no session outlives its access, one administrator remains |
| List services: work orders, lots, queue, inspections, incidents, BOMs, traceability, audit events | none | parse, select, order, page | contract drift between two programs, rows and total read apart | every condition arrives, pages are disjoint |
| Dashboard | none | counters | conditions of the lists written a second time | the number is the number of rows the list shows |
| Client requests, `shared/api`, `use-load-state.ts` | pending reads, load states | shared reads, commands, login and logout | answers out of order, reads begun before a command, aborts | a page shows an answer to its own query, not from before its own command or session, and always some answer |
| Client lists, `use-query-draft.ts`, list pages | URL history, filter bar | edit, submit, sort, page, back | input while a navigation is under way | what was submitted is what is shown |
| Client navigation and guided tour, `app/`, `widgets/app-shell` | route, session of the page, tour | navigate, log in, switch role, tour | the session changes in another tab, the tour moves by itself | pages load whole, nobody is led to a refusal, work is not left behind |
| Client command pages | readings, forms | submit commands | stale readings, forms that keep their state, lost answers | pages offer what the server accepts, and all of it |
| Seed, `prisma/seed.ts` | all tables | seeding | running on a database in use | |

How the commands meet: `release` creates the rows `reserve`, `start` and
`verdict` work on; `reserve`, `release` (of a reservation), `start`, `complete`,
`verdict` and `review` all end in the refresh of production flow; `decide` and
`register` change lots that reservations refer to, and refresh nothing.
`PROJECT.json` lists every hazard with its line and the property that covers it.


## 2. The modules, and how they correspond to the code

```
ProductionContract        what is promised of an order (abstract)
ProductionFlow            pure operators over the rows of one order
  MesDatabase             tables, seeded states, shared queries, TypeOK
    WorkOrders            release, cancel
      ProcessCommands     start, complete
    MaterialReservations  reserve, release a reservation, expiry
    Inspections           verdict, review
    QualityControl        decide, register (statement by statement)
      ManufacturingFlow   all commands composed, and the properties
        CommandContract   the refinement of ProductionContract
        CommandForms      the pages that send the commands
        MC*               instances for TLC
        ManufacturingFlowProofs, OrderProofs, MaterialProofs, CommandProofs
UserAccess                logins, sessions, changes of access (tables of its own)
  UserAccessProofs        its theorems
ClientReads               shared reads of one tab
  ClientReadsProofs       its theorems
ListQueries               eight lists: what pages send, services accept and select
  ListBrowsing            one list page in use
    ListBrowsingProofs    its theorems
AccessTables              permissions, routes, links, menu, stops of the tour
  ClientAccess            one tab moving through the client
    ClientAccessProofs    its theorems
```

`ProductionFlow` translates the three helpers of `production-flow.ts` as
operators over the rows of one order.  An order has exactly one, unsplit,
production lot, so the filters of the code on the lot number select all of its
rows.  `FlowRefreshed` is the loop over the steps; `OrderRefreshed` the
projection onto the order row.

`MesDatabase` declares one variable per table: `order`, `step`, `inspection`,
`decisions`, `lot`, `alloc`, `consumed` (the CONSUME relations, by production
lot and material lot), `incidents`, and `session`, the progress of the open
READ COMMITTED transactions.  One more, `overdue`, is the calendar: the drafts
whose due date lies before today.  `Init` is the seeded database.

| Code | Model |
|---|---|
| `WorkOrdersService.release`, `cancel` | `Release(o)`, `Cancel(o)` |
| `MaterialReservationsService.reserve`, `release` | `Reserve(o, l, a, quantity)`, `ReleaseReservation(a)` |
| `ProcessCommandsService.start`, `complete` | `Start(o, i)`, `Complete(o, i, good, defect)` |
| `InspectionVerdictService.verdict`, `review` | `Verdict(o, s, verdict)`, `Review(o, s, verdict)` |
| `MaterialLotDispositionService.decide` | `DecideRead`, `DecideCount`, `DecideUpdate` |
| `QualityIncidentsService.register`, `quarantineMaterialLot` | `RegisterRead`, `QuarantineUpdate`, `CountIncidents`, `RegisterCommit` |
| a transaction that ends without effect | `Rollback` |
| the clock passing `expiresAt` | `Expire(l)` |
| today passing the `dueDate` of a draft | `DueDatePasses(o)` |

`UserAccess` shares no table with the manufacturing commands.  Its variables
are `access` (`User.isActive` and the `UserRole` rows), `version`
(`User.updatedAt`), `session`, `audit` (the USER_ACCESS_CHANGED rows), and, per
browser, `cookie`, the `users` an administrator has listed, the `page` (the sheet
of the user that is open, and whether it went stale) and the `request` in flight.

| Code | Model |
|---|---|
| `AuthService.login`: reading the account; its transaction | `LoginRead(c, u)`; `LoginCommit(c, t, answered)` |
| `AuthController.logout` | `Logout(c)` |
| `AuthService.authenticateRequest`, `PermissionGuard` for USER_MANAGE | `Accepted(t)`, `Administers(t)` |
| a session passing `expiresAt` | `Expire(t)` |
| `AdminUsersService.list`, the load of `AdminUsersPage` | `ReadUsers(c)` |
| `UserAccessSheet`: opened and closed; the answer to a change | `OpenSheet(c, row)`, `CloseSheet(c)`; `SheetAnswered(c, answer)`, `TurnedAway(c)` |
| `changeAccess`: the guards; its transaction | `ChangeRequest(c, role, active)`; `ChangeCommit(c, answer)` |
| a request that ends without effect | `Refuse(c, answer)` |

`ProductionContract` says what an order promises without the rows it is kept in:
its status, the work on its steps, the outcomes of its inspections and its claims
on material.  Readiness, block reasons, counters and quality control do not
occur in it.  `CommandContract` reads these four off the tables (`StatusView`,
`WorkView`, `OutcomeView`, `ClaimView`) and states that every behaviour of the
commands is one of the contract.

`ClientReads` models one tab.  `entry` and `pending` are the pending reads and
the index of `in-flight.ts`, `initial` the request `session-bootstrap.js` starts,
`view` the load state of each part of the page, `command` and `auth` what the tab
has sent.  The server is a version and a session; an answer is the pair it was
computed under.

| Code | Model |
|---|---|
| the effect of `useLoadState`, `sharePendingRead`, its `release` | `Effect(v)`, `Joined`, `EntriesAfterRelease` |
| `sendJson`, `takeInitialRequest`, its expiry | `Send(e)`, `InitialExpires` |
| a promise that settles | `Arrive(e)`, `Fail(e)`, `AbortArrives(e)` |
| `requestJson` of a mutation, `reload`, `replace` | `SendCommand(v)`, `AnswerCommand(v)`, `RefuseCommand(v)` |
| login, logout, switch of the role | `SendAuth`, `AnswerAuth`, `RefuseAuth` |

`ListQueries` is a contract between two programs: for each list the query its
service accepts (`WorkOrdersQuery`, ...), the condition it selects by
(`WorkOrderMatches`, ...), the order it returns (`Precedes`), what the page
offers (`Columns`, `Offered`) and what its search model sends (`Sent`).
`ListBrowsing` uses it: `url` and `applied` are the address and the query the
page renders, `edit` is `use-query-draft.ts`, `load` and `shown` the request and
the result.

| Code | Model |
|---|---|
| the router: push, commit after `beforeLoad`, back | `Navigate`, `Arrive`, `Traverse` |
| filter bar: edit, submit, reset | `Edit`, `Submit`, `Reset` |
| `data-table.tsx`, `pagination.tsx`, page size | `ChangeSort`, `ChangePage`, `ChangeSize` |
| a list service | `Refuse`, `ReadRows`, `ReadTotal` |
| other users | `Write` |

`AccessTables` holds the tables the two programs must agree on: `Granted`
(permissions of the roles), `Routes` (what the route requires, what the page
links to, what its requests require), `MenuPermission`, `PostLoginPath`, `Guide`
and `Stops`.  `ClientAccess` moves one tab over them.

| Code | Model |
|---|---|
| a click, the address bar, popstate | `Follow`, `OpenAddress`, `GoBack` |
| `beforeLoad` of `_authenticated.tsx`; the permission of the route | `Guard`; `Commit` (`ShowLogin`, `Redirect`, `ShowPage`) |
| the login page, `SwitchRoleButton` | `Login`, `FindSession`, `SwitchRole` |
| another tab; expiry and revocation | `LoginElsewhere`, `SessionEnds` |
| an editor and `navigation-safety.ts` | `Edit`, `SendCommand`, `AnswerCommand` |
| `RoleOnboarding.tsx`, `tour-target.ts` | `BeginTour`, `OpenStop`, `TakeRow`, `Settle`, `MoveTour`, `PauseTour`, `FinishTour` |

`CommandForms` puts a user in front of `ManufacturingFlow`: `page`, `view` and
`due` are the page, the detail it last read and whether it is reading it again,
`form` the state of the form React keeps mounted, `call` the command under way.
`Offered` is what the page lets the user send, `ServerDoes` the command on the
server, `Accepts` that the server takes it: the guard of the command
(`CanRelease`, `CanCancel`, `CanReserve`, `CanDissolve`, `CanStart`, `CanComplete`,
`CanDecide`, `CanReview`), an operator of its own beside the action that starts
with it, so what pages and server disagree on is a formula over states.
`ReleasePrepared` is what `release` asks beyond the draft: a due date that has not
passed, a route, a published BOM, gates on the route.  No page asks for these.  The
reservation panel reads one page of the lots that have something available
(`OnFirstPage`): `LotRank` is the order of the list, `LotPageSize` its default page.

Operators marked `mutant` are deliberately wrong variants of the operator below
them: a forgotten refresh, a dropped check, a counter that is not decremented.
No specification uses them; they are substituted one at a time to see that the
properties notice.


## 3. How the code executes, and what that means for the model

*Serializable commands.*  Everything in `productionTransaction` runs at
isolation level SERIALIZABLE, so committed commands are equivalent to some
serial order and each is ONE action: guard from its conditions and early
returns, effects from all its writes, the refresh at its end included.  A
command that throws rolls back and is not an action.  A serialization failure
(P2034) is reported to the client and not retried.

*READ COMMITTED commands.*  `decide` and `register` run at the default
isolation level and read without row locks.  Every statement sees the latest
committed rows, so they are one action per statement, with what was read kept
in `session`.  An update, the audit row and the commit are merged: the row lock
is held and nothing in between reads shared state.  `register` updates the lot
before it counts and inserts, so the lock on the lot is held over two further
actions (`holdsLock`); other writers of that lot wait, and a serializable
command that waited would fail, so it takes effect only on unlocked rows.
What `register` wrote is invisible to others until `RegisterCommit`.

*A serializable command and a quality decision.*  A serializable command that
reads a lot, while a READ COMMITTED transaction commits an update of it, either
is placed before that transaction in the serial order, or writes the same row
and is aborted.  Both are behaviours of the model with the command as one
action before the update, or not at all.

*Changes of access.*  `changeAccess` takes an advisory lock and is SERIALIZABLE.
The lock alone would not do: the snapshot is taken when the first statement
begins, before the lock is granted.  But two administrators who demote each
other read what the other writes, and the database aborts one (P2034), so
committed changes are one action each.  Logins and logouts are READ COMMITTED
and a change may not see one that commits after its snapshot; it is then as if
the change came first.  For a login this needs that the role it stored is still
assigned: the foreign key of `Session` makes the database refuse or delete a
session without its `UserRole` row.

*Requests in flight.*  The guards accept a request some time before its
transaction runs, and `login` verifies the password between reading the account
and creating the session, so both are two actions with anything in between.  A
browser has one request at a time; two requests at a time are two browsers.
The answer to a login may be lost, which leaves a session nobody has a cookie
of.  Revoked, expired and deleted sessions are all ENDED: none of them is ever
accepted again.

*Failures.*  `Rollback` covers the process or the connection dying, Prisma's
transaction timeout and the unique index refusing an incident number.

*Start.*  The code consumes the reservations of the order one at a time,
checking each lot as it goes.  All checks pass exactly when each lot covers the
sum of the order's reservations on it, which is how `MaterialsConsumable`
states it.

*Totals.*  Demo inventory is counted in pieces, and the total of a set of
reservations is the number of pieces they hold (`Total`).  This definition
needs no recursion, so it can be proved about.

*The client.*  A step of `ClientReads` is one task of the event loop with the
microtasks it queues; React flushes the effects of one change before it renders
the next, so nothing navigates over a due effect.  StrictMode's double effects
and other tabs are left out.  A view that goes from A to B and back to A shows
the old result of A until the new load has arrived; that is what the code does
(key and reload are equal again), and no property forbids it.  In `ListBrowsing`
and `ClientAccess` the address changes at once and the page follows when the
guard has fetched the session; until then everything on it acts on what it was
rendered with.  The codec of the router that turns a query into an address and
back is external and taken as faithful.  The dashboard reads several tables in
one READ COMMITTED transaction; its counters are compared with the lists on the
same rows.

*Forms.*  One user sends one command at a time.  Leaving a page makes the
command under way one of the commands of others.  `Failed` covers a refusal, a
lost request and a lost answer: after it the command may or may not have taken
effect.  A reading is one step; how readings race is the subject of
`ClientReads`.

*Fairness.*  None for users, and none for the commands of the server: clients may
stop sending at any time, and a step without good output or a failed inspection
stops an order for good.  Deadlock is therefore no error in any run.  The
liveness properties of the client assume what its platform does by itself:

| Module | Weak fairness of | Because |
|---|---|---|
| `ClientReads` | `Effect`, and `Send`, `ServerReads`, `Arrive`, `AbortArrives` | React runs effects, the event loop runs what is queued, and fetch answers or fails. Commands owe no answer. |
| `ListBrowsing` | `Arrive`, and `Refuse`, `ReadRows`, `ReadTotal`, `Deliver` | the router commits what it navigates to, the service answers |
| `ClientAccess` | `Guard`, `Commit`, and `Settle`, `OpenStop`, `TakeRow(FALSE)` | the guard is answered, the router commits, the six-second timer of `waitForTourTarget` fires. That a row ever appears is not assumed. |


## 4. What the runs check

Common to the runs over `ManufacturingFlow`: allocation rows are a finite pool
(`Allocation`), each used once; incidents are bounded by `MaxIncidents`.
Symmetry is used over allocations and inspectors, which no property or constant
distinguishes.

| Run | Instance | Checks |
|---|---|---|
| `order_flow` | one order, three steps, two gate inspections and a final one, one lot, 2 allocations, two inspectors, 2 incidents, a due date that may pass | `StartedStepGated`, `QuantityChain`, `ReservedMatchesAllocations`, `QuarantineHasIncident`, `RejectionStands`, and the refinement `ContractKept` |
| `inventory` | two orders, three lots of four pieces, two materials, 4 allocations, one lot expires | `NoOverReservation`, `BillOfMaterialsConsumed`, `GenealogyComplete`, `ReadyFullyReserved` |
| `quality_control` | an order seeded in mid-production with a hold and a reservation, a new order, two lots (one perishable, one pending or rejected), one inspector, one incident | `LotConservation`, `RejectedLotEmpty`, `DerivedRowsCurrent`, `DecisionsExplainVerdict`, `OnlyUsableMaterialConsumed` |
| `user_access` | two users, one seeded as administrator, the other with two roles or none; two browsers, two sessions, two changes of access per user | `AdministratorRemains`, `AcceptedSessionsJustified`, `AuditExplainsAccess`, `ChangesByAdministrators`, `ChangesReplaceWhatWasSeen`, `ChangeSignsOut` |
| `client_reads` | two parts of a page, one of which replaces and one of which loads two keys, two pending reads, one command, one authentication, one reload, three moves | `WaitingReadAlive`, `AnsweredCommandsShown`, `ShownDataMatchesQuery`, `NoOldSessionData`, liveness `EveryLoadSettles` |
| `list_browsing` | each of the eight lists with three rows and a version another user writes; all columns, all filters of the code, page sizes 1 and 2, two moves, one edit, one write | `ShownRowsMatch`, `SubmittedKept`, `RefusalsKnown`, `CountersMatchLists`, `PagesDisjoint`, liveness `ScreenFollowsUrl` |
| `client_access` | all roles, pages and stops of the code; two sessions, one move of the user, tours without bound in the first session | `RenderedPagesReadable`, `NoDeadEnd`, `TourLeavesWorkAlone`, liveness `TourSettles` |
| `command_forms` | one order of one piece over two steps, a gate and a final inspection, two lots of which one expires, 2 allocations, pages of one lot, a due date that may pass | `OfferedIsAccepted`, `AcceptedIsOffered`, `PendingEnds`, `RetryRefused` |
| `rejected_reopened`, `scrapped_twice` | one order, one lot, two inspectors | one statement each, violated (section 6) |
| `audit_filter_refused` | the list of audit events, one move, one edit | one statement, violated (section 6) |
| `held_review_stuck` | the instance of `command_forms` | one statement, violated (section 6) |

Why these bounds.  *Three steps*: the smallest route on which "all earlier
steps" differs from "the previous step", for completion and for gates, and on
which an order can be blocked twice.  *Two orders on three lots of two
materials*: a demand of two pieces can be split over lots or taken from one, by
one or two allocations; the order without a bill of materials competes for
everything.  *Four allocations*: the three a full reservation may need and one
to have been released before.  *Two inspectors*: every race of `decide` and
`register` is between two; three would only repeat them.  *Two users, two
browsers*: the smallest instance in which two administrators act on each other,
or one acts while the other logs in; *two sessions*: both are signed in, or one
signed out and in again (the theorems about it hold for any number); *two changes
each*: access is taken away and given back while a request from before is in
flight.  *Two parts of a page, two pending reads*: one
joins, leaves or outlives the read of the other; three moves are leaving,
coming back and reloading.  *Three rows and two page sizes*: two of them share a
rank, so an order needs its tie-break, and there are up to three pages; two moves are
a submit and a change of the page, or a submit and the way back.  *Two sessions*:
the cookie changes role under the tab once.  *One piece, two steps*: every form
and every command occurs, with a gate between the steps; a lot that expires and a
larger one make the bound of the quantity matter both ways.

What they show.  In `order_flow` every sequence of commands on an order, with
every split of every result and two quality requests in flight, is a behaviour
of the contract: no step begins early, closed orders stay closed, and an order
is completed by the last result or the last verdict, whichever comes last.  A
rejection stands once no request that read the lot before is under way
(`RejectionStands`), although the races of section 6 are in this run.  In
`inventory` stock, rows, readiness and genealogy agree through every history of
reserving, releasing and starting.  In `quality_control`, with one quality
request in flight, statement by statement against the production commands,
stock is conserved, a rejected lot is empty and unreserved, no unusable stock
is ever consumed and every cached row is what a refresh would compute.
`DerivedRowsCurrent` exempts an order that was just released, whose later steps
say WAITING although a refresh could say something else, and which no command
has refreshed yet.  `LotConservation`, `RejectedLotEmpty` and
`NoOverReservation` are checked with at most one quality request: with two,
`LotConservation` fails (section 6), and a lot accepted, reserved and rejected
between the statements of a rejection is not excluded either, by the same
missing lock.

In `client_reads` a page never shows an answer to another query, an answer from
before a command it has seen answered, or one from an earlier session.
`AnsweredCommandsShown` is about pages that reload: one that replaces what it
shows by the answer of its command can be overwritten by a load in flight, and,
because `replace` stores the answer under the query rendered by then
(`use-load-state.ts:85-88`), the answer of a command on one record can appear
under another; the instance therefore keeps such a page to one record.  In
`list_browsing` conditions arrive whole at the service, nothing submitted is
lost by navigating meanwhile, pages of an unchanged table share no row (except
in the list of audit events, whose order has no unique last column), and the
numbers of the dashboard are those of the lists.  They differ by a lot that
expires at this very instant (`<=` there, `<` here).  In `client_access` every
page a route lets through can load all it asks for, except that the page of the
reservations shows a refused list as an empty one, and the tour neither takes
the page away from unsaved input nor hangs.  In `command_forms` whatever an
up-to-date page offers is accepted, and whatever the server accepts some page
offers.  Its exceptions are written into the properties: the release of a draft that is
overdue (the page says so and offers it), has no route or no published BOM, or a gate
off its route, a READY row that outlived its reserved lot or its cancelled order,
the list of inspections, which offers a verdict by the execution status alone,
and a held form (section 6); a lot locked by an open quality transaction only
delays a command.  That a form is still waiting for an earlier answer is no
exception: what it would send is accepted even then.  A command
that took effect is refused when it is sent again, only a reservation is made a
second time.  `AcceptedIsOffered` and `RetryRefused` are stated of the steps that
others take: every command there is is also one of theirs, so a command the
server accepts is a step the property meets.  `AcceptedIsOffered` is evaluated when
the page of an order is being loaded, the offers do not depend on what the user
has open.  It has an exception that the proof brought up: a shortage recorded while
a reserved lot was under quality control stays in the row of the first step after
the lot was accepted again; `start` computes it anew and would run, but the queue
offers it only after the next command on the order refreshed the row.  The other exception is a
lot behind the first page of available lots: the panel has no paging, so nobody can
reserve it while a page of others comes before it.  The page has 20 lots; the run has
two lots and pages of one, so the larger one is behind the page until the other has
expired or is taken.


## 5. What is proved

TLC checks the instances above; the theorems hold for every set of orders,
routes of every length, every set of inspections, lots, reservations and
inspectors, and every quantity; those of `UserAccess` for every set of users,
roles, browsers and sessions, those of `ClientReads` for every set of views, keys
and pending reads and any number of commands, those of `ListBrowsing` for tables
and histories of every length and every page size, those of `ClientAccess` for
any number of sessions, roles that log in and moves.  They assume what `FlowAssumption`,
`DatabaseAssumption` and `AccessAssumption` say of the constants (positive
planned quantities and routes, one user seeded as administrator, specifications
that belong to the known ones, a finite pool of allocations, and seeded
reservations that fit the seeded lots, and a gate at the first step of every order
imported in mid-production, which is what holds the seeded one, and that `Producible`
and `DueSoon` are sets of orders), `FormsAssumption` (no two lots share a place in
the list, a page has room for one), and those of the
client that the marks
for "no key" and "no entry" are neither (`KeyAssumption`, `EntryAssumption`,
`ViewAssumption`), that ids are keys of the finite tables and that a page opens
with a query its search model can read (`BrowsingAssumption`, `MaxPageSizeAssumption`); TLC evaluates each in the runs of its module.

| Theorem | Says | Argument |
|---|---|---|
| `TypeInvariantHolds`, `TypeCorrect` (ManufacturingFlowProofs) | `TypeOK` | `TypeOK` is not inductive: the number of a review is one more than the latest decision, which exists only if the decisions are gapless.  `HistoryShape` says what the decisions of an inspection can be: none, one, or a hold and its review.  `DraftUntouched` says a draft has none, which `release` relies on. |
| `VerdictsExplained` | `DecisionsExplainVerdict` | follows from `HistoryShape` |
| `VerdictsAreFinal` (OrderProofs) | `VerdictsFinal` | an inspection that is open or held has no final verdict, by `HistoryShape`; cancel touches open ones only |
| `FlowInvariantHolds`, `StepsAreGated`, `QuantitiesAddUp` | `StartedStepGated`, `QuantityChain` | A refresh changes no row that has begun and begins none (`MaterialRefreshedKeepsStarted`, `FlowRefreshedKeepsStarted`); a row it makes READY has its predecessors completed and no reason left (`ReadyIsGated`).  That no reason means PASS needs `ChecksOpened`: the inspections of a live order exist and are not cancelled.  Passes survive by `ChecksAdvance`.  The quantity chain needs that good output never exceeds the plan, so that the limit of a step is the output of its predecessor. |
| `LifeInvariantHolds`, `CompletedIsJustified`, `ReservationsEndAtStart`, `CancelledIsClean`, `StatusOnlyAdvances`, `ClosedIsFrozen` (OrderProofs) | `CompletedOrderJustified`, `ReservationsOnlyBeforeStart`, `CancelledOrderClean`, `StatusAdvances`, `ClosedOrderFrozen` | The status of a live order is what a refresh derives from its rows (`StatusDerived`), and a refresh begins and ends no step, so it keeps RELEASED and cannot reopen.  Releasing a reservation asks for no status of its order; that it never touches a closed one needs `ClaimsJustified`: an active reservation belongs to a released order, or is the seeded one of an imported order whose second step has not begun (its first start fulfils it, so the order cannot complete with it).  A cancelled order never executed a step: `cancel` asks for that, and nothing starts a step of a closed order (`CancelledIdle`). |
| `CommandsKeepContract` (CommandProofs) | `ContractKept`: `Spec` implements `ProductionContract` | Under `LifeInvariant` each command maps to one step of the contract or to a stutter: a refresh changes no abstract value but the status, and that by `Settled`, because `StatusDerived` holds before and after.  `ChecksBelong` (an order has inspections of its own specifications only) makes the two "all passed" agree. |
| `BooksHold`, `ReservedIsSum`, `GenealogyIsComplete` (MaterialProofs) | `ReservedMatchesAllocations`, `GenealogyComplete` | The total of a set of reservations is the number of pieces they hold, so adding or removing one adds or removes its quantity (lemmas on `Sum`).  The two hold together, and with quality requests interleaved: those write dispositions and stock on hand, never the reserved or consumed counter. |
| `OnlyUsableConsumed`, `QuarantineIsExplained` (MaterialProofs) | `OnlyUsableMaterialConsumed`, `QuarantineHasIncident` | Only `start` consumes, and it checks each lot again.  Only `RegisterCommit` shows a quarantine, and it inserts the incident; a transaction of `decide` never carries a quarantine (`NoDecidedQuarantine`). |
| `AccessInvariantHolds`, `AccessTypeCorrect`, `AdministratorAlwaysRemains`, `SessionsAreJustified`, `AuditIsComplete` (UserAccessProofs) | `TypeOK`, `AdministratorRemains`, `AcceptedSessionsJustified`, `AuditExplainsAccess` of `UserAccess` | `AcceptedSessionsJustified` is not inductive: the role of a session may go while its user is disabled and the user be enabled again.  `SessionsAssigned` says it of every open session, accepted or not; a change ends all sessions of its user (`ChangeEndsSessions`) and a login commits only in an assigned role. |
| `LotsAreNotOverReserved`, `LotsAreConserved`, `RejectedLotsAreEmpty` (MaterialProofs), each under `[]OneRequestPerLot` | `NoOverReservation`, `LotConservation`, `RejectedLotEmpty` | False as they stand: two quality requests on one lot break them, the first as the run `scrapped_twice` shows.  The hypothesis, that no two of them are in flight on the same lot, excludes those races and nothing else; the other commands stay interleaved with the statements of a request.  `StockInvariant` relates a request to what it read (`RequestFresh`): while it is in flight nothing is built from a lot that was not accepted, and the rejection's count of reservations cannot be outrun, because `reserve` asks for an accepted lot. |
| `RejectionsStand` (MaterialProofs), without that hypothesis | `RejectionStands` | Only a request moves the disposition of a lot, and none begins on a rejected one (`RejectedIsLeftAlone`).  Nothing is on hand of a rejected lot, reopened lots and lots scrapped twice included, because every rejection writes zero and nothing adds to it (`RejectedIsGone`); so nothing can be consumed from it even by reservations that outlived the rejection. |
| `ReadyIsReserved`, `BillIsConsumed` (MaterialProofs) | `ReadyFullyReserved`, `BillOfMaterialsConsumed` | `BillInvariant`: of every material an order with requirements holds at most what it requires (`WithinBill`), a READY first step means it holds all of it (`ReadyCovered`), and an order that began has built in exactly that (`BuiltAsBilled`).  Sums over reservations split and merge by lot and material (`SumMonotone`, `HeldTotals`). |
| `DerivedRowsAreCurrent` (OrderProofs) | `DerivedRowsCurrent` | `refreshProductionFlow` is idempotent (`RefreshedIsCurrent`), although it reads the rows it has already written in the same loop: the reasons and priors of a row depend on begun rows only (`SameOutputSamePriors`).  `start` writes the order and one step by hand; that this equals a refresh needs that the row was READY and hence the first unfinished one (`BegunIsCurrent`, `BegunOrderRow`). |
| `OnlyAdministratorsChange`, `ChangesSignOut` | `ChangesByAdministrators`, `ChangeSignsOut` | The session is checked again in the step that writes the audit row (`AuditedChange`), and by `SessionsAssigned` its user is an administrator. |
| `NothingIsOverwrittenUnseen` (UserAccessProofs) | `ChangesReplaceWhatWasSeen` | A version names one state of access: it grows with every change (`NextVersion`), so a row that was listed, or a sheet opened from it, with the present version shows the present access, however old it is. |
| `ReadsTyped`, `WaitingReadsLive` (ClientReadsProofs) | `TypeOK`, `WaitingReadAlive` of `ClientReads` | A view may join whatever the index names, so the index must name reads of its own key (`IndexNamesReads`).  A read is orphaned only when no view waits for it (`EffectOnEntries`), and an entry that is started is one nobody names. |
| `SessionsAreKept`, `CommandsAreShown` | `NoOldSessionData`, `AnsweredCommandsShown` | The document's own request is gone before a session or a version can change.  Every answer to a command empties the index, so what is still in it is as new as the tab's knowledge (`IndexedReadsCurrent`); every authentication command revokes all reads. |
| `ShownIsAsked` | `ShownDataMatchesQuery`, if `OneRecordEach` | A result is stored under the query of the effect that waited for it.  The hypothesis is needed: a page that replaces what it shows by the answer of a command would store it under another record (section 4). |
| `BrowsingInvariantHolds`, `BrowsingTyped`, `ShownRowsMatchQuery`, `SubmittedIsKept`, `RefusalsAreKnown` (ListBrowsingProofs) | `TypeOK`, `ShownRowsMatch`, `SubmittedKept`, `RefusalsKnown` of `ListBrowsing` | What is loaded or shown was read from some version of the table, although the table has moved on since (`VersionsKnown` keeps the versions).  A query reaches its service whole because the tables agree, list by list (`AxesCarried`, `SortsCarried`, `ValuesAccepted`, `TextsAccepted`).  `SubmittedKept` is not inductive: what was submitted must be in the bar, and what the router goes to next must leave it there (`AskedInBar`). |
| `PagesShareNoRow` | `PagesDisjoint` | The position of a row in a listing is the number of rows before it (`PositionOf`), and the order of seven lists is total (`OrderIsTotal`), so two listings of the same rows put each row at the same place and the windows of two pages do not overlap (`WindowsOrdered`). |
| `CountersAreListed` | `CountersMatchLists` | Each counter and the query of its list select by equivalent conditions; no property of the rows is needed. |
| `AccessInvariantHolds`, `AccessTyped`, `NobodyIsLedAstray` (ClientAccessProofs) | `TypeOK`, `NoDeadEnd` of `ClientAccess` | Sessions are only added and the cookie names the latest or none, so a guard never sees an older session than the one a page was offered to (`GuardsCurrent`).  What is offered is open to the session it is offered to (`OffersPermitted`: `MenuIsOpen`, `LinksAreOpen`, `LandingIsOpen`, `PostLoginIsOpen`, `StopsAreOpen`, lemmas on the tables for every role and page), so who is turned away has another session by now (`DeadEndsOutdated`). |
| `PagesAreReadable` | `RenderedPagesReadable` | A page commits under the session its guard saw (`OpenPagesPermitted`), and what an open page reads its role may read (`OpenPagesAreRead`), because a permission to do something comes with the permissions to look at it (`PermissionsImply`). |
| `TourKeepsWork` | `TourLeavesWorkAlone` | A tour keeps running only in the shell of its role; every commit that leaves a page clears its editor, and consent outlives only the input it was given for. |
| `FormsKept`, `FormsRunThePlant` (CommandProofs) | `FormsSpec` implements `Spec` | What a form can send names an existing order, step, inspection, lot or reservation (`OfferedSends`), whatever old detail it was derived from, and a quantity within the bounds of `Next` (`ReservedQuantity`, `CompletedQuantities`); so each command of a page is one of the plant, and all theorems above hold under the pages. |
| `PendingFormsEnd` (CommandProofs) | `PendingEnds` | `PendingExplained`: a form that waits was sent, and either its command is under way (`SentBy`) or the command took effect (`Served`) and a reading is due.  That reading unmounts the form, because the step or inspection has moved on by then and never comes back (`OrdersAdvance`, by the contract), or finds the hold it recorded (`ReadAfterAnswer`). |
| `RetriesAreRefused` (CommandProofs) | `RetryRefused` | `AnswerTrue`: what an executed command did (`Took`) still holds when its answer arrives, since the contract never takes back a status, a begun or finished step or a verdict, and a closed reservation stays closed.  A command needs the opposite of its own effect (`TakesEffect`), so the second one is refused. |
| `WhatIsAcceptedIsOffered`, `RowsAreKnown` (CommandProofs) | `AcceptedIsOffered` | The panel's sum over its rows is the server's sum over allocations (`RowsCount`, by a bijection of their pieces).  `start` derives the rows anew, pages show the stored ones: `RowsKnown` (stored rows are those of `release` or what a refresh would write) leaves as the only difference a first row whose shortage is outdated (`StartShown`).  A reservation is offered for the lots of the first page and no others, whatever their order and the size of a page. |
| `WhatIsOfferedIsAccepted`, `ScreensAreKnown` (CommandProofs), the first under `[]OneRequestPerLot` | `OfferedIsAccepted` | A page that shows what is still offers from stored rows, a form opened earlier and its own sums.  A draft may be refused its release for `ReleasePrepared` only.  The output limit a form knows is that of a step that had begun (`ScreenKnown`), and it is final, because rows of completed steps are never rewritten (`LimitKept`).  A READY row is READY again when `start` derives it anew, as long as the lots held are usable (`ReadyAgain`, `ReadyMaterialKept`).  What an order holds of a lot is part of what is reserved, and that is on hand (`HeldIsConsumable`): this is where over-reservation must be excluded, hence the hypothesis.  A step under way belongs to an order in progress (`BegunStepOrder`), because a cancelled order never executed anything. |

Every theorem goes the same way: the initial states satisfy the invariant, one
lemma per command shows that it preserves it, and the last step combines the
two with temporal logic.  `ManufacturingFlowProofs` also has the lemmas on the
pure operators, among them that the first element of a set of positions exists
(`FirstOfType`, from well-foundedness of the naturals).  Some proved properties
(`VerdictsFinal`, `CompletedOrderJustified`, `CancelledOrderClean`,
`ReservationsOnlyBeforeStart`, `StatusAdvances`, `ClosedOrderFrozen` and the five `TypeOK`) have no run of their
own: `ContractKept` and the theorems cover them.

Every invariant and every action property that a passing run checks is stated by
a theorem.  Only model-checked are the liveness properties `EveryLoadSettles`,
`ScreenFollowsUrl` and `TourSettles`, because fairness is out of the reach of the
prover, and the four statements of section 6, which are false.


## 6. Where documentation and code disagree

Each of these runs checks one statement of the documentation, a comment or a
message of the code, and finds a behaviour of the code that violates it.

- `rejected_reopened`: REJECTED is documented as final.  `decide` checks the
  transition against the disposition it read and updates without a condition,
  so a decision checked before a rejection commits can move the lot on after it.
  What is left of the statement is `RejectionStands` (section 4).
- `scrapped_twice`: on hand, consumed and scrapped add up to what was received.
  A rejection adds the stock it READ to the scrapped quantity; two concurrent
  rejections scrap the same pieces twice.
- `audit_filter_refused`: the actions of the audit contract are to be extended
  together with the commands.  Three that the commands write and the page
  offers are missing, and choosing one is answered 400.
- `held_review_stuck`: a held inspection can be reviewed.  The form that
  recorded the hold never clears `pending`, and the page renders the same form
  for the review, so it stays locked until the page is opened again.

Read in the code while modelling, without a run of its own: `cancel` leaves a
READY first step READY, where RULE-10 of the domain contract closes the waiting
steps too; READY is a column, where the domain contract says it is not stored
(`start` checks again, so no such material is consumed); resetting the filter bar
while a navigation is under way acts on the query still rendered; the address of
a record is not returned to after a login, because `session-policy.ts` knows
addresses of lists only; resuming a paused tour discards input with consent
given earlier.


## 7. What is abstracted and what is not modelled

Abstracted in the modelled commands: `progressPercent` (a function of the same
rows), texts and labels, audit rows, trace nodes (implied by `consumed`),
timestamps, and request validation (only valid requests are enumerated).  `release`
compares the due date before its transaction; the two are one step, as nothing else
reads that date, and of an order that is no draft the date is not followed.  That a
product has a route and a published BOM is the constant `Producible`: the runs take
it for granted, the theorems hold for either value.  The selection and arithmetic of the bill of
materials is the constant `Required`: pieces per order, already rounded up.
Orders without requirements (the code branches on their number) are orders whose
`Required` is zero.  The incident number, a count plus a fixed offset, is the
count plus one; the seeded numbers lie below it.  Incidents on production lots
change no other table and are left out.  An imported order has the shape of the
seeded WO-2026-098: only two of its steps are recorded.  In `UserAccess` a
password is right or wrong, tokens are identifiers nobody guesses, and the
history of access is read by nobody.  `receive` of new lots does not exist in
the code: lots come from the seed.

Abstracted in the client: a text to search for is one of four lengths and a row
is named by the shortest or not; dates are classes (past, today, this week);
other columns are ranks.  A page stands for all its records, an address for all
its search parameters; that a record is missing is a choice.  Placement,
animation and texts of the overlay of the tour are left out, its invitation and
its closed state are both "off", and the consent to leave unsaved input is kept
while that input remains.  Roles stand for one user each.  The dialogs for lot
disposition, incidents, new orders and users are not in `CommandForms`.

Not modelled, with the reason, in `PROJECT.json` under `components`: server
bootstrap and deployment (no state of the program), creation of orders, row
locks inside serializable commands, seeding a database in use, the walk of the
genealogy and the calendar of the dashboard (pure reads over data the models
keep as ranks or relations), and the rows of the audit log written by
manufacturing commands.


## 8. What could come next

1. `create`, with its number computed outside the insert and the audit row
   written after the commit.
2. Row locks of serializable commands (two starts on the same lots), and the
   remaining dialogs in `CommandForms`.
3. Pages that replace what they show by the answer of a command, over several
   records, once the code says what they promise.
