# Verification of the CMMS

TLA+ models of the maintenance management system in `src/backend` (NestJS,
Prisma, MySQL) and of the session its web frontend keeps, TLC runs that check
them on small instances, and TLAPS proofs for instances of any size.

    tlc -workers 2 -config Races.cfg MCRaces                 # any run
    tlapm AdministrationProofs.tla                           # the proofs
    tlapm InventoryProofs.tla                                # of each component
    tlapm SchedulesProofs.tla
    tlapm FabricationProofs.tla
    tlapm FieldProofs.tla
    tlapm ClientSessionProofs.tla
    tlapm OeeProofs.tla
    tlapm RecordsProofs.tla                                  # the longest

`PROJECT.json` is the index: components, runs, the source lines each
definition stands for, hazards, mutants, theorems and findings. A definition
whose name begins with `Fault` is the mutated form of the one that follows it:
a plausible bug, with which TLC must find the property violated.

## 1. The system

A factory reports defects of its equipment (*maintenance requests*), a manager
approves them, technicians carry out *work orders*, clock in and out of them,
use up *spare parts*, fill in *checklists*, hand the work over and have it
accepted. Preventive *schedules* generate orders of their own. A workshop makes
parts (*fabrication orders*). Operators read *utility meters* and write *shift
sheets* of their machines. The backend is one Node process or several, with all
state in one MySQL database. Each HTTP call is one handler; handlers interleave
at every `await`, and about half of them run in a Prisma interactive
transaction.

### Components

| Component (under `src/backend/src/modules`) | State | Operations | Correct when |
|---|---|---|---|
| `requests/requests.service.ts` | `MaintenanceRequest`: status, version, priority, equipment | create, findOne (closes stale requests), approve (opens the order), reject, returnRequest, resubmitRequest, cancelRequest (cascades to orders), update, delete | one order per approved request; closed exactly when its order is accepted; a decision is made once |
| `work-orders/work-orders.service.ts` | `WorkOrder`: status, version, request, classification, lines of material | create, assign, classify, start, pause, resume, complete, escalate, handover, QA, reopen, verify, close, cancel, addItem, remove | orders follow the transition table; nothing moves an order behind the back of its version |
| `work-orders/work-order-state-machine.ts` | none | the transition table | |
| the same service, work sessions | `WorkOrderWorkSession`, `actualHours` | startWorkSession, stopWorkSession | one running session per technician; hours are those of the sessions |
| `equipment/equipment-status.service.ts` | `Equipment.status` (derived) | calculateAndSetStatus, syncAllEquipmentStatuses | the status is the one the open requests and orders call for; equipment out of service stays so |
| `equipment/equipment.service.ts` | `Equipment` | create, update, remove | |
| `inventory/inventory.service.ts` | `InventoryItem`: quantity, version; `InventoryTransaction` | update, adjustStock, adjustIn, adjustOut, createReceipt, directIssue, materialReturn; and `complete` above | stock = opening stock + ledger; a retried movement is booked once; material is issued once |
| `schedules/schedules.service.ts` | `MaintenanceSchedule`: nextDueDate, nextDueMeter, version, status | create, update, activate, pause, complete, cancel (cascade), generateWorkOrder, processDueSchedules (boot, every 6 h, on demand) | each due date gets its order, once and in turn; a cancelled schedule has no unfinished order |
| `fabrication/fabrication.service.ts` | `FabricationOrder`, lines, sessions, logs; stock and ledger | create, update (status, hours, lines), remove, sessions, progress logs | hours are those of the logs; nobody is clocked in on a finished order; material is issued once |
| `checklist-executions` | execution with its items, version | create, updateItem, complete, cancel | an item changes only with the version of its execution; the result is what the items say |
| `users/user-merge.service.ts` | accounts and every reference to them | preview (fingerprint), confirm (SERIALIZABLE) | a merge does what its preview showed, leaves nothing behind, and lasts |
| `utilities/utilities.service.ts` | `UtilityReading`: value, previous value, consumption; `lastReadingValue` | syncEvnReadings, recordReading, updateReading, voidReading, baselines, recalculateReadings | every reading continues the one before; the meter shows the latest |
| `equipment/oee-*.ts` | `OeeRecord`, operating hours of a machine | submitOeeRecord, voidRecord, reports | a minute is counted once |
| `auth/browser-session.service.ts` | `BrowserSession`: refresh token of HRM | open, refresh, logout, inspect | nobody shows HRM a token that was exchanged |
| `users`, roles, `settings` | accounts, permissions | CRUD, synchronisation with HRM | |
| `src/frontend`: `utils/authStorage.ts`, `services/api.ts` (its first 218 lines), `hooks/usePermissions.ts`, `services/catalogCache.ts` | access token in shared cookies; its owner in localStorage; profile, catalogues and revision of each tab | login, restore, refresh, logout, verification, caching; another tab and the HRM portal change the token meanwhile | nobody acts, or is shown, as anybody but the owner of the token |
| operation logs, `analytics`, `mcp`, `notifications`, `mail`, `attachments`, the rest of the frontends | | reports, listeners after the commit, files | |

### How they interact

* `approve` and work-order `create` insert orders; `updateStatusTransaction`,
  the one function behind every order handler, writes back to the linked
  request (closes or reopens it) and then recalculates the equipment.
* Every request and order handler that changes anything ends with
  `calculateAndSetStatus`, which reads requests and orders of the equipment.
* `complete` of an order also takes its material from the stock; so does the
  completion of a fabrication order.
* Schedules insert orders and cancel them; closing an order touches its schedule
  *after* the transaction, in a field on which nothing depends.
* Shift sheets raise the operating hours by which metered schedules come due.
* Clocking in puts an order to work by writing its status directly, with
  neither a version nor a transition.
* Merging moves every reference from one account to another.
* The tabs of a browser share cookies and localStorage with each other and with
  the HRM portal, and the session at the server with each other.
* Notifications are events emitted after the commit, with no way back.

### What is hard

1. **Snapshots.** Under InnoDB's REPEATABLE READ, which the deployment uses by
   default, plain reads of a transaction see the snapshot of its first read.
   Two handlers may both pass their checks on the same rows. What they may rely
   on at commit is only what the `WHERE` of an `UPDATE` or a unique index says.
2. **Versions.** Most writes are conditional on `{ id, version }`, several are
   not (`reject`, `findOne`, the cascades, `applyStatus`, `createReceipt`,
   `directIssue`, `startWorkSession`), and some conditional writes rely on
   versions that another writer forgets to move (`approve`, `complete` on items,
   `startWorkSession` on orders).
3. **Derived state** (equipment status, hours of an order, the chain of
   readings) is computed by each handler from what it sees, and written by id.
4. **Retries**: clients send a movement again under one `clientTransactionId`;
   timers, people and restarts all try to generate what is due.
5. **Cycles of the protocol**: complete, reopen, complete again; pause for
   months and resume; move a reading and move it back.
6. **No transaction at all**: work sessions, fabrication, half of the meters.
   Every statement is a step and a server that stops leaves a call half done.
7. **Another party**: HRM exchanges tokens, and its answer may not arrive.

`PROJECT.json` lists the hazards at their lines, with the properties that cover
them or the reason why none does.

## 2. What is modelled

| Module | Models | EXTENDS |
|---|---|---|
| `Lifecycle` | statuses, the transition table, the rule for the status of equipment: pure definitions | |
| `Maintenance` | requests, orders and equipment under concurrent handlers | `Lifecycle` |
| `MCMaintenance` | instances for TLC: VIEW, symmetry, sets of handlers | `Maintenance` |
| `Administration` | what administrators do to the same rows: edits, deletions, synchronisation | `Maintenance` |
| `MCRaces` | three of these instances in one run | `MCMaintenance` |
| `MCAdministration` | instances for TLC | `Administration`, `MCMaintenance` |
| `AdministrationProofs` | theorems about `Maintenance` and `Administration` | `Administration`, `TLAPS` |
| `Inventory` | stock, ledger, retries and the completions that issue material | |
| `MCInventory` | instances for TLC | `Inventory` |
| `InventoryProofs` | theorems | `Inventory`, `TLAPS` |
| `Calendar` | abstract specification: what preventive maintenance promises of due dates | |
| `Schedules` | schedules, their orders, timers, restarts | `Lifecycle` |
| `MCSchedules` | instances for TLC | `Schedules` |
| `SchedulesProofs` | theorems, the refinement among them | `Schedules`, `TLAPS` |
| `MonthlyDates` | the due dates of schedules that repeat by months | |
| `WorkSessions` | technicians clocking in and out of work orders | `Lifecycle` |
| `Fabrication` | fabrication orders, their sessions, logs, lines and issues | |
| `FabricationProofs` | theorems | `Fabrication`, `TLAPS` |
| `Checklists` | checklists and the screens they are filled in on | |
| `FieldWork` | checklists, work sessions and fabrication in one specification | `Checklists` |
| `FieldProofs` | theorems about all three | `FieldWork`, `TLAPS` |
| `MCField` | instances for TLC | `FieldWork` |
| `UserMerge` | merging of accounts, and what writes accounts meanwhile | |
| `Meters` | the readings of a utility meter | |
| `Oee` | shift sheets of a machine, their minutes and their locks | |
| `OeeProofs` | theorems, the arithmetic of intervals among them | `Oee`, `TLAPS` |
| `BrowserSessions` | refresh tokens between tabs, server and HRM | |
| `ClientSession` | the session as the tabs of one browser see it | |
| `ClientSessionProofs` | theorems | `ClientSession`, `TLAPS` |
| `MCClientSession` | an instance for TLC, one answer out at a time | `ClientSession` |
| `Records` | accounts, meters, browser sessions, tabs and monthly dates in one specification | `UserMerge` |
| `RecordsProofs` | theorems about all of them | `Records`, `TLAPS` |
| `MCRecords` | instances for TLC, and shift sheets beside the records | `Records`, `Oee` |

`FieldWork` and `Records` put components side by side that share no table, so
that no step of one can matter to another: their variable `focus` says which
one an execution runs, and the others rest. `FieldWork` takes `Fabrication`
through `FabricationProofs` and `Records` takes `ClientSession` through
`ClientSessionProofs`, so that their theorems are at hand. (`Fabrication`
runs in `MCField` with two sets of workloads, the clock and the store, and
`ClientSession` in `Records` twice, with one tab and with two.) `Oee` joins them
in `MCRecords` only, twice as well: with one sheet of many shapes and with a few
sheets of several people.

### Transactions in two steps

In the modules whose handlers are transactions (`Maintenance`, `Inventory`,
`Schedules`, `Checklists`) a transaction is a record in `open`. Its first step
(`Approve`, `BeginUpdate`, `generateWorkOrder`, ...) takes the snapshot and
makes the checks of the handler *on the snapshot*; its second one (`Commit...`)
evaluates the conditional writes *on the current rows* and commits. Any other
handler may start, commit or roll back in between; this is all the interleaving
that can matter, since writes of a transaction are invisible to others until it
commits. A check that fails and a conditional write that matches nothing roll
back. In `Maintenance` and `Inventory` `Rollback` is always possible, which also
covers permissions, deadlocks and lost connections; in `Schedules`, where
progress is claimed, `Fail` is possible only when the code fails, and `Restart`
is a step of its own. Rows read after the transaction wrote them show its own
writes (`Seen`). Handlers that read and write one row under its version
(`activate`, `pause`, `update` of `Schedules`) are one action.

`approve` is special: its conditional UPDATE comes *before* its snapshot and
locks the row, so the row is locked from its first step (`Unlocked`). `findOne`,
`startWorkSession` and `InventoryService.update` are not transactions: two steps
again, one that reads, one that writes by id or by version. `addItem` and the
edit of equipment are single steps.

Where a transaction takes a row lock before it reads (`syncEvnReadings`,
`confirm` of a merge, which is SERIALIZABLE) it is one action; where it calls
HRM under the lock (`BrowserSessions`), or reads before it locks (`Oee`,
`updateReading`), the lock is a variable or the read a step of its own.

Where there is no transaction (`WorkSessions`, `Fabrication`, part of `Meters`,
`UserMerge` but for `confirm`) each statement is a step, on the rows as they are
by then, with what the call read before. `Restart` forgets what was left to do.

Assumed of the environment, from how the code uses it: `updateMany` with a
version in its `where` is one conditional UPDATE on the committed row; unique
indexes are enforced at commit; a lock is held until the transaction ends.

### Correspondence

`Maintenance`: `req`, `wo` and `eq` are the tables, reduced to status, version,
references, urgency (`priority` HIGH or URGENT) and "already classified".
Identifiers of rows not inserted yet have the status `"NONE"`. An action is
named for its handler; the handlers that share `updateStatusTransaction` share
`BeginUpdate` and `CommitUpdate`. `Handlers` says which of them an instance
offers, so that a run can leave room for two orders or two pieces of data where
it needs them. Permissions, texts, logs, histories, dates and notifications are
left out: a refused call changes nothing. `Edits` are the statuses that an
administrator may set by hand in an instance. Nothing makes the equipment of an
order opened by hand that of its request: an instance without `"linkOrder"` in
`Handlers` leaves orders by hand for requests out. The branch of
`updateStatusTransaction` that reopens a closed request (`ReopensRequest`) is
part of `CommitUpdate`. The theorems imply that no handler of the model takes
it: a request has at most one order, that of a closed request is accepted, and
an accepted order never goes back to IN_PROGRESS.

`startWorkSession` (`StartWorkSession`, `CommitStartWorkSession`) reads the
status of an order, and several statements later writes IN_PROGRESS by id: no
version, no transition, no recalculation. Between the two anything may happen to
the order. If it was over by then, the write *revives* it: the field `revived` of
a row is a history that nothing in the program reads, set by `ClockedIn` of
`Lifecycle` and never reset, so that the properties can say of which orders they
speak. Other handlers write an order without its version too, in columns that
the model leaves out: the assigned technician (line 93), the costs (1502), and
the hours and dates of work sessions (1708, 1818).

`Administration` composes `Maintenance` with the handlers that do not fit its
two steps. `update` of a request is a read with its checks (`UpdateRequest`), a
write by id (`WriteRequest`) and one or two recalculations, which `due` lists;
outside a transaction a recalculation is itself three reads and a write
(`StartRecalculation`, `ReadRequests`, `ReadOrders`, `WriteStatus`), and the
synchronisation of all equipment is the same four with no equipment named. Of
the queries of one recalculation the two on requests are one step and the two on
orders another, in the order of `syncAllEquipmentStatuses`. `delete` reads the
request with its order, and only then begins its transaction (`BeginDeletion`),
which takes a newer snapshot; `remove` deletes an order in any status. A deleted
row keeps a version above 0, so that its identifier is not given out again, as
a uuid is not. A statement that runs in no transaction (`Unprotected`) does not
fail in the model: an edit or a synchronisation that stops half way leaves
statuses as they were.

`Inventory`: `stock` is `InventoryItem`, `ledger` the opening stock plus the
signed rows of `InventoryTransaction`, `keyed` the number of rows per
`clientTransactionId`, `orders` the work orders as far as the stock depends on
them, `issues` how often the material of an order was issued (a history of the
ISSUE rows). The change a transaction makes is a function on the items it
touches. Three ways to write the quantity are told apart: the computed sum under
a version check (`CommitAdjust`, `CommitUpdate`), the computed sum by id
(`CommitMovement`), and the decrement of the row as it is (`CommitComplete`).
`update` books no row of the ledger although its form includes the quantity. The
write of `startWorkSession` is one step here (`WriteInProgress`): the orders of
this module are under way, so that who still writes read the order before.
`materialReturn` is left out: it adds up ISSUE rows that name the line of the
order, and no handler writes such a row, so that it refuses every call.

`Schedules`: `schedules` are the rows with status, version, `autoGenerate`,
`start`, and `dueDate` or `dueMeter`; `orders` the set of orders they generated,
each with its code, generation key, `scheduledDueDate` and status; `issued` the
GENERATE_WORK_ORDER rows of the history. Dates are days, and a key made of the
present millisecond (`force`, no date) is `"UNIQUE"`. `Collide` is the unique
indexes of the orders. `generateWorkOrder`, `complete` and `cancel` are
transactions of two steps; a caller whose key exists gets that order back and
nothing is written, which is no step. `TimerScan` is the query of
processDueSchedules, `Process` one round of its loop; `processDue` is the same
query for a date that a caller names. `clockIns` are the orders that a
technician has read and is about to write IN_PROGRESS to (`startWorkSession`,
`WriteInProgress`); a cancellation in between is overwritten, and the order is
revived as in `Maintenance`. `Tick` and `Run` move the clock and the meter.
`ToggleEquipment` and `ToggleCreator` make a generation be refused.
`remove` of a schedule refuses every call, and `onWorkOrderClosed` is called by
nobody.

`MonthlyDates`: the branches of `calculateNextDueDate` and
`projectNextFutureDueDate` for months, with the anchor day, and the loop after
the jump. Months count from January of a year before a leap year, so that
fifteen of them hold a short and a long February.

`WorkSessions`: `wo` are status and `actualHours`, `sessions` the sessions.
`Finish`, `Sum`, `Record`, `Look`, `Create`, `Resume` are the statements of the
two handlers in their order, the last of which is the write of IN_PROGRESS;
`Transition` stands for the handlers of `Maintenance`.

`Fabrication`: a call is the list of the statements it has yet to make
(`call[c].todo`), each an action. A statement whose row is gone aborts the
call, and so does one that the database refuses (`Fail`), with one exception:
`update` catches the failure of each session that it stops, writes it to the
console and goes on (337-348). Then the rest of that stop is left out
(`SkipStop`) and the materials and the status of the order are written all the
same; `missed` are the sessions that stay open by that.
`clashed` marks the orders on which a call that puts values in place of others
(`update`, `remove`, `deleteProgressLog`) overlapped another call, and `written`
those whose hours `update` wrote over; the properties except them.

`Checklists`: `screen` is what a client sees, and so the version he sends.

`UserMerge`: `docs` stands for every table that refers to an account,
`running` for the sessions that block a merge, `late` for rows that a handler
which had read an account wrote after the merge.

`Meters`: one meter; readings are chained by time and then by identifier. A
consumption of `None` is "not calculated" or "the meter went backwards".
`syncEvnReadings` looks for the reading of a value by the cycle, if the value
names one (`timed`), and else for any live reading within two minutes (`Nearby`,
`Window`), whichever the query returns first, so that one value may go to a
reading of before it; the recalculation starts at the time of the first value.
`mended` is a history: from when on the last synchronisation has made the chain
right (0: everywhere), which is the first value if some value went to an earlier
reading.

`Oee`: the sheets are sequences of rows with their times; the operators carry
the names of `oee-calculations.ts` and `oee-time-allocation.ts`. Minutes are
scaled: the day of the instances has 12 units of two hours, with the three
shifts of the plant, the last past midnight. What the code pushes to an array in
a loop is a fold (`Join`, `Cut`) or a sequence of sequences laid end to end; the
stable sort is `Sorted`, which puts each interval at its rank. The theorems hold
for the minutes of the code as well: the length of the day, of an hour and the
windows of the shifts are constants.

`BrowserSessions`: `hrm` is the token HRM takes (0: none yet, -1: revoked),
modelled from how `hrm-identity.service.ts` uses it; `lost` the sessions whose
new token did not reach the row.

`ClientSession`: `cookies` are the tokens under the names of the shared cookies,
`handoff` that of a refresh cookie of the portal, `binding` and `marked` the two
entries of localStorage, `server` whose session the server keeps for the
browser, `tab[t]` what a tab keeps in memory: `seen` is `lastSnapshot`,
`revision` that of `authStorage`, `csrf` the owner of `cookieSession`, `pending`
the token of `pendingRefresh`, `user` and `phase` the state of
`usePermissions`, `shownAt` its `sessionVersion`. `calls` are the requests whose
answers are out. A step of a tab is one task of its event loop with the
microtasks it leaves: `Settles` is how all of them end, with `readSession`, and,
if the session has changed, with the listeners that `notify` wakes up (profile,
cookie session and catalogues are dropped, the profile is loaded again). So no
other tab comes between the reads and the writes of one task. A token is a
number, `issued` its owner; a session of the server is reduced to its owner,
since `BrowserSessions` has the rest. The page that asks for a name and a password
sends them (`Login`) and saves the token of the answer whenever it comes
(`LoginArrives`), with no look at what has happened to the session. An answer may come at any time or never
(`Lost`, which is also every refusal that has no other effect). Left out: the
five minutes for which answers are kept, the sending again of a request after a
401 and a refresh (nobody waits for its answer any more), and the tokens that a
local development host finds in localStorage.

## 3. What is checked

Deadlock is not checked: users may stop calling at any time, and an instance
stops when its identifiers, calls or days are used up.

| Run | Instance | Properties |
|---|---|---|
| `Races` | 2 clients, 1 request, 1 order: all request handlers with the main order handlers; or all order handlers, approve and cancelRequest; or the handlers that open and close work, and equipment that may be taken out of service at any time | `TypeOK`, `VersionIdentifiesOrder`, `ClosedRequestHasAcceptedOrder`, `AcceptanceClosesRequest`, `LegalTransitions`, `UndisturbedRecalculationIsRight` |
| `ApproveRaces` | 2 clients, 1 request, room for 2 orders, the handlers that open and drop orders, edits and deletions of the request | `ApprovedRequestHasOneOrder`, `LinkedRequestsExist` |
| `OneAtATime` | 1 client, 2 requests, 2 orders, 2 pieces of equipment, all handlers but classify, edits, deletions, synchronisation | `EquipmentMatchesWork` |
| `StockRaces` | 2 clients, 2 items, 1 order, 1 identifier, all handlers | `TypeOK`, `VersionIdentifiesStock`, `RetryBookedOnce`, `BooksWhatItMoves`, `OneIssuePerCompletion` |
| `ScheduleRaces` | 1 schedule (dated or metered), 2 timers, 4 calls of any handler, 2 days | `TypeOK`, `CancelledLeavesNoWork`, `DueDatesNeverGoBack` |
| `ScheduleTimer` | 1 schedule, 2 timers, 3 calls, 1 restart, 2 days, 1 hour, the handlers that leave dates to the service; fairness | `NextOrderFits`, `DueDatesAreServed`, `MetersAreServed`, `ImplementsCalendar` |
| `FieldRaces` | 2 technicians; checklists of 0 or 2 items; 2 orders with sessions, 4 calls, 1 restart; 2 fabrication orders, 1 item, 3 calls, 1 restart or failing statement | `FieldTypes`, `CompletedIsRight`, `NothingUnseen`, `OneRunningSession`, `HoursAreWorked`, `HoursMatchLogs`, `ClosedOrdersAreQuiet`, `IssuedOnce` |
| `RecordRaces` | 3 accounts, one of each kind, 4 calls; 1 meter, 2 values, up to 3 readings, 2 calls, batches of up to 2 values, readings up to one instant apart count as one; 1 sheet of one or two stretches between three times of a day, with every break or none, in 3 shifts, or 2 people, 2 days and 2 of 3 sheets whose runs and stops meet; 2 tabs, 2 sessions, 5 calls, 1 failure of HRM; 1 tab, 2 people, 2 tokens, 2 acts, or 2 tabs, 2 people, 2 tokens; months, with starts on two days of theirs | `RecordTypes`, `NoChains`, `NothingLeftBehind`, `MergedStays`, `ReadingsKept`, `RunsNeverOverlap`, `MinutesCountOnce`, `TokensAreCurrent`, `IdentityIsTrue`, `NobodyTakesOver`, `MonthsAreRegular` |
| `ReissuedStock` | 1 item, 1 order | violates `MaterialIssuedOnce` |
| `LateEdit` | 2 clients, 1 request, 1 order, 2 pieces of equipment; create, approve, update | violates `RequestWithOrderIsLocked` |
| `MeterStall` | 1 metered schedule, 1 timer, 2 calls, 2 hours; fairness | violates `MetersAreServed` |
| `RestoreRace` | 1 tab, 2 people, 3 tokens, 2 acts, one answer out at a time: no late answer is needed | violates `RenewedByOneself` |

**Why these bounds.** A conflict is between a transaction that has read and one
that commits, and the second may be followed by any number of further ones of
the same client: two clients suffice for it. One identifier of each kind, or two
where two rows can compete (`ApproveRaces`, `OneAtATime`, the items of
`StockRaces`, the accounts of `RecordRaces`), is what the properties quantify
over. With `Amounts = {1}` and `MaxStock = 2` an item may be empty, run out
under two takers, and be refilled; `MaxLine = 1` allows orders with and without
material. Schedules do not interact except through the code of their orders
(the count plus one), which one schedule with two timers makes collide as well.
Four calls reach: activate, generate against timer, cancel against both. Three
accounts are the shortest chain of merges. On a meter with the instants 0, 1, 2
and a `Window` of 1 a value may meet the reading before it, after it or at its
time, and two readings at once; a second value in the batch (`MaxBatch`) is
enough for one that comes after the recalculation's start and goes to a reading
of before it. In `ClientSession` a person has to be
followed by another (two tokens), while what the first asked for is out (one
act, and one that answers or asks again); a second tab is needed to notice a
change first. Two stretches with ends at three times of a day meet, contain each
other, lie apart, are empty and pass midnight in either order; two sheets suffice
to overlap and to share time. What small instances cannot show, the theorems do
where there are some.

Versions, ledger and counters of `Maintenance` and `Inventory` grow without
bound. `VIEW` drops them and reduces each snapshot to what it can still
influence: whether each row has moved since, what the recalculation would read
in it, and nothing at all for a transaction whose conditional write can no
longer match (versions never come back, so it can only roll back). The other
modules bound the number of calls, or the version (`MaxVersion`). Symmetry is
over clients, timers, requests, orders and items, which no definition
distinguishes, and is used for safety only.

**Fairness** (`FairSpec` of `Schedules`): weak fairness of each timer's scan and
of its loop, because `setInterval` keeps firing and a loop goes on after an
error; weak fairness of "some open transaction commits or fails", because the
database ends every transaction. Nothing is assumed of people, and nothing of
`processDue` with a date they name. Where `ScheduleTimer` claims that an order
comes, a person may still prevent it by stopping the schedule, its automatic
generation, its equipment or its creator; each of them is in the property.
`BatchSize` is not below the number of schedules in these instances: the query
that fills a batch has no order that would promise a schedule its turn.

What each property is about:

* `VersionIdentifiesOrder`, `VersionIdentifiesStock`: what a conditional write
  may conclude from an unmoved version. For items this holds only as long as no
  order has moved, because `complete` takes stock without a new version. For
  orders it is weaker than what the check is used for: one writer,
  `startWorkSession`, forgets the version. The property says that this is all that
  can have happened, and to which rows: those that a technician may clock in on,
  or that a clock-in had revived.
* `LegalTransitions`: the check is made on the snapshot, the claim is about the
  rows as written, the cascade of `cancelRequest` by id included. Clock-ins add
  two moves, PENDING to IN_PROGRESS and, by an assignment that read the order
  before, IN_PROGRESS to ASSIGNED (`ClockInTransition`). Of an order that a late
  clock-in revived nothing is claimed: that a cancelled order stays cancelled is
  false of the code (below). For all others it is claimed.
* `ClosedRequestHasAcceptedOrder` and `AcceptanceClosesRequest`: the two
  directions between requests and orders. The second excepts rejected requests:
  `reject` may turn a closed request into a rejected one (below). Both except
  revived orders: a clock-in that comes after the acceptance of an order undoes
  it, and what it puts back to work may be cancelled, or accepted again. And the
  models leave out a failure of the closing statement, which the code swallows.
* `ApprovedRequestHasOneOrder`: two approvals, or an approval and an order by
  hand; the unique index on `requestId` carries it.
* `LinkedRequestsExist`: a deletion against an approval, which relies on the
  lock it holds, and against an order by hand, which looks at the request again
  as it commits.
* `UndisturbedRecalculationIsRight`: the recalculation is the last thing a
  handler does and sees all it wrote. Overlapping handlers do break the status
  (below), so it speaks of handlers that overlapped no other.
* `EquipmentMatchesWork`: no sequence of handlers, one after the other, leaves a
  wrong status, whichever edits, deletions and synchronisations are in it, and
  whichever equipment a request is moved to. Its run has one client, no
  `"linkOrder"` and no edits by hand, without which it does not hold (below).
* `RetryBookedOnce`, `OneIssuePerCompletion`, `BooksWhatItMoves`: retries,
  double completions, and what a handler owes the ledger.
* `CancelledLeavesNoWork`: an order generated while cancel listed the others
  makes cancel fail on the version; one removed makes its UPDATE fail. The order
  of a technician who was clocking in meanwhile is revived, and is the only kind
  that goes on (`Outstanding`; below). That the cascade does not touch an order
  that got on in between is not claimed: it may cancel one that was accepted
  meanwhile.
* `DueDatesNeverGoBack`: for any mix of handlers, dates chosen by callers
  included.
* `NextOrderFits`: a schedule never gets into a state where each generation
  meets a unique index or an existing key, which would stop it for ever.
* `DueDatesAreServed`, `MetersAreServed`: what is due gets its order under
  fairness, through restarts and lost races.
* `ImplementsCalendar`: the schedules refine `Calendar`, with
  `next <- dueDate`. In `Calendar` a date is issued, passed over, or planned
  anew before the first order, and that is all.
* `MonthsAreRegular`: however many orders and pauses lie behind, the date is the
  one that counting from the first gives; the reference definition is a minimum
  over all occurrences.
* `OneRunningSession`, `HoursAreWorked`: work sessions and fabrication, between
  any two statements and after a restart there.
* `HoursMatchLogs`, `ClosedOrdersAreQuiet`, `IssuedOnce`: fabrication without
  transactions keeps its promises as long as no call that rewrites an order
  overlaps another on it. The sessions that an `update` failed to stop are
  excepted from the second one by name (`missed`): no other session is left open
  on a closed order, whichever statement fails and wherever the server stops.
* `CompletedIsRight`, `NothingUnseen`: a checklist is changed only by somebody
  whose screen shows it as it is.
* `NoChains`, `NothingLeftBehind`, `MergedStays`: merges against each other,
  against the synchronisation with HRM and against handlers that read an account
  before.
* `ReadingsKept`: which calls keep the chain of readings and the value of the
  meter, and under what they read. A synchronisation keeps the chain from its
  first value on (`ChainFrom(readings', mended')`), and all of it when no value
  went to an earlier reading; it keeps the value of the meter unless the only
  readings left to recalculate lie before that (below).
* `RunsNeverOverlap`: submissions side by side under the lock; the runs of sheets
  that count stay apart.
* `MinutesCountOnce` has three parts. `RunMinutesAreRight`: the interval
  arithmetic, which merges, cuts and moves, against counting minutes on the clock
  one by one. `HoursAddUp`: the hours of the machine are those of all the sheets
  it ever had, voided ones included. `SharesAddUp`: dividing shared time loses none
  and gives none twice.
* `TokensAreCurrent`: tabs that refresh, log in and log out at once.
* `IdentityIsTrue`: what localStorage says of the owner of a token is true; and a
  tab that knows of the latest change lets nobody act, and offers no catalogue,
  but for the owner of the token that it sends. Until a tab looks again, for a
  second at most, it shows what it showed; its calls carry the old token or find
  out before they are sent.
* `NobodyTakesOver`: a late refresh, logout, profile or refusal of one person
  never replaces or removes the token of another. Two calls are excepted, which
  belong to no session: `restoreBrowserSession` asks for nobody in particular, and
  a name and a password are sent to replace whoever is there (below).

### What does not hold

Four runs violate a claim that the repository makes; TLC prints the events.

| Run | Claim | What happens |
|---|---|---|
| `ReissuedStock` | reopening and completing again issues nothing twice | `complete` issues every line each time, and the index the design names is not in the schema |
| `LateEdit` | a request that has become a work order is locked and cannot be edited (`requests.service.ts:913`) | `update` checks this on a read of its own and writes by id, in no transaction: an approval in between opens an order for equipment that the request then no longer names |
| `MeterStall` | a schedule by running hours generates its orders by batch | `update` gives a metered draft a due date (line 625); all its orders then carry this date, and the unique index on `[scheduleId, scheduledDueDate]` refuses every one but the first, at every scan |
| `RestoreRace` | who comes from the portal without a refresh token signs in again when the token expires, and is not renewed by the session of somebody else (`docs/http-only-browser-sessions.md:21`) | `LoginPage` calls `restoreBrowserSession`, which asks the server for its session without naming anybody: the browser goes on as the person who signed in there before |

Other behaviour that a reader of the code should know of. It follows from the
definitions of the models; the properties above are stated so as to except it.

Requests, orders, equipment, stock:

* `approve` leaves the version of the request alone, so that a return that
  overlapped it still matches, and a request with an order is returned.
* `reject` updates by id alone after its check.
* `applyStatus` writes by id after reading an older snapshot: DISCOMMISSIONED
  equipment may be put back.
* Two transactions on one piece of equipment do not see each other, and the
  last commit may leave it OPERATIONAL with open work. So may a synchronisation,
  or the recalculation of an edit, that a handler overtakes between its reads
  and its write.
* An order by hand may name a request about other equipment. Closing it closes
  the request and recalculates the equipment of the order only.
* `remove` deletes the order of a request and leaves the request as it is:
  APPROVED with no order, or CLOSED with none that was accepted. The properties
  about requests and their orders are therefore stated for `Spec`, and for
  `AdminSpec` without `"removeOrder"`.
* `delete` of a request only unlinks an order that was opened after it read the
  request.
* `startWorkSession` writes IN_PROGRESS by id (1746-1755), from a status it read
  several statements before, without a version. An order that was cancelled in
  between runs again, with its request cancelled; one that was carried through
  and accepted is open again, with its request closed. Its version has not
  moved, so that a handler which read the order before passes its check: an
  assignment takes an order back that is already at work. PENDING becomes
  IN_PROGRESS without an assignment, which the table does not have.
* `complete` decrements the stock without a new version of the item; an
  adjustment that overlapped it writes the old sum back.
* The write that closes the request of an accepted order is in a `try` that
  only warns: when that statement fails, the request stays open.

Schedules:

* A technician who was clocking in on an order while `cancel` cancelled it sets
  it IN_PROGRESS: the cancelled schedule has an unfinished order.
* `complete` looks for unfinished orders with a list that omits ON_HOLD
  (432-437), so a schedule may be completed over an order on hold.
* Changing the kind of frequency leaves the target of the other kind: a dated
  schedule made metered has no target and never comes due.
* A generation that finds its key returns the order without moving the due date
  on. The theorem says that no schedule used with discipline gets there; one
  whose caller names a date of his own may.
* The code of an order is the number of orders plus one, also after a removal.

Work sessions: two calls of the same technician at once create two sessions (the
instances let a technician make one call at a time; `"doubleClick"` in
`Handlers` lets him make two).

Fabrication:

* When stopping a session fails, `update` writes the error to the console
  (345-347) and closes the order all the same: a comment (327) says that all open
  sessions are stopped, and this one stays open, with somebody clocked in on a
  finished order.
* An order completed with no hours gets those of the clock since its start
  (292-299), although a comment there says that hours are logged by sessions
  only and entered by hand by administrators only.
* Two creations at once take the same code, and the unique index refuses one.
* Of two lines with the same item only the first is issued.
* The stock is written as an absolute number, so that two issues at once lose
  one; a server that stops between the stock and the ledger row makes the next
  completion lower the stock again. This is why `IssuedOnce` is about the rows
  of the ledger.
* `deleteProgressLog` reads the hours and writes the difference: an increment in
  between is lost. Two stops of one session log its hours twice.

Meters: `setBaselineReading` changes the latest reading whatever came before it;
`setPeriodBaseline` writes the baseline before it refuses the current value;
`recordReading` and `recalculateReadings` take no lock, and the latter stores 0
for a meter that went backwards where the locked recalculation stores null;
`recalculatePointTimeline` returns early, and leaves the meter alone, when no
reading is left from its date on; `updateReading` writes back the time it read
before the lock. `syncEvnReadings` gives a value to a live reading up to two
minutes away (1052-1064), but recalculates from the time of its first value
(1025, 1106): when the reading was taken before that, its consumption stays what
its old value gave, and when no reading comes after it, so does
`lastReadingValue`.

Shift sheets: times half a day from the middle of the shift may be taken for
either day; `voidRecord` leaves the hours of the record counted; the equipment
is read before it is locked.

Browser sessions: when the answer of HRM is lost, or the new token cannot be
verified, or the transaction exceeds its 20 seconds, the row keeps a token that
HRM does not take any more. Two logins at once leave a row that no cookie names.

Tabs:

* When a tab gets the focus while the profile of a new person is being loaded,
  or could not be loaded, `check` sets `loading` to false as long as there is a
  user at all: the content of the person before appears again, disabled, until
  the answer arrives. `docs/hrm-auth-implementation-status.md:28` says that
  forms are hidden before the new person is verified. `ShownIsTrue` therefore
  speaks of the phase in which one can act.
* A refresh that ends while `logoutSession` waits for the server saves a token
  and starts a new revision, for which the `finally` of the logout does nothing:
  the person is left signed in with the new token until it expires, although
  `docs/http-only-browser-sessions.md:12` says that the token is cleared.
* The answer to a name and a password is saved whenever it comes
  (`LoginPage.tsx:87-106`): if somebody else has signed in meanwhile, in the
  portal or in another tab, his token is replaced. All tabs notice.
* The answer of `POST /auth/session` sets the cookie of the server session even
  when the tab no longer wants it (`AdoptionArrives`): the server may keep the
  session of somebody else than the owner of the token. Every use compares the
  two, but `restoreBrowserSession`.

Accounts: a handler that read an account before the merge may enter it in a row
afterwards (`late`).

## 4. What is proved

For any number of requests, orders, items, identifiers, equipment, schedules,
timers, checklists, technicians, accounts, tabs and clients, any set of
handlers, and any bound. Assumed are only the named `ASSUME`s of the modules,
and hypotheses that the theorems name:

* the null reference is no identifier, urgency is a flag, amounts and intervals
  are positive, leads and bounds are natural numbers;
* `FieldConstants`, and `Sane` for `Fabrication` by itself: there are finitely
  many orders, clients and session identifiers, `None` is no order, number or
  status, and workloads name statuses, lines and quantities. Finiteness is what
  makes a sum of hours a number;
* `NoneIsApart` in `ClientSessionProofs`: `None` is no person, no number and no
  flag;
* `RecordConstants`: the same of the clients of `Records`; identifiers, values,
  anchors and bounds are natural numbers, and the readings of a meter are
  finitely many;
* `SheetConstants` in `Oee`: rows and figures are such as `validateTimeRows` and
  the DTO let pass (times of one day, each kind of row once, numbers that are not
  negative), shifts end after they start, and the middles of any two lie no more
  than a day apart: with the shifts of `standardShiftWindow` it is 16 hours. This is
  why a sheet need not be compared with those of three days before or after it;
* `Disciplined` and `Steady` in `SchedulesProofs`, `Serial` in
  `AdministrationProofs`: which handlers people call, and how many people. The
  properties do not hold without (3., "What does not hold"), and the runs that
  check them have instances of this kind.

| Module | Theorem | |
|---|---|---|
| `AdministrationProofs` | `TypeCorrect` | `[]TypeOK` |
| | `VersionCheckSuffices` | `[]VersionIdentifiesOrder` |
| | `ClosedMeansAccepted` | `[]ClosedRequestHasAcceptedOrder` |
| | `AcceptanceMeansClosed` | `[]AcceptanceClosesRequest` |
| | `ApprovedMeansOneOrder` | `[]ApprovedRequestHasOneOrder` |
| | `OrdersFollowTheTable` | `LegalTransitions` |
| | `RecalculationIsRight` | `UndisturbedRecalculationIsRight` |
| | `NoLinkToADeletedRequest` | `[]LinkedRequestsExist`, with administrators at work as well (`AdminSpec`) |
| | `StatusMatchesWork` | `[]EquipmentMatchesWork` for one client (`Serial`), administrators included |
| `InventoryProofs` | `TypeCorrect` | `[]TypeOK` |
| | `VersionCheckSuffices` | `[]VersionIdentifiesStock` |
| | `RetriesBookOnce` | `[]RetryBookedOnce` |
| | `IssuesFollowCompletions` | `OneIssuePerCompletion` |
| | `HandlersBookWhatTheyMove` | `BooksWhatItMoves` |
| | `AdjustmentsKeepTheBooks` | if only the handlers with a version check move stock, stock and ledger agree |
| | `CompletionsKeepTheBooks` | if only completions move stock, they agree: stock is lost only when both overlap |
| `SchedulesProofs` | `TypeCorrect` | `[]TypeOK` |
| | `CancellationIsComplete` | `[]CancelledLeavesNoWork` |
| | `DueDatesAdvance` | `DueDatesNeverGoBack` |
| | `SchedulesImplementCalendar` | `ImplementsCalendar`, if nobody names a date or changes the kind or the start (`Disciplined`) |
| | `EachDateOnceInTurn` | `[]EachOnceInTurn` of `Calendar`: hence each due date is issued once and in turn |
| | `NextOrderAlwaysFits` | `[]NextOrderFits`, if orders are not removed either (`Steady`) |
| `FabricationProofs` | `TypeCorrect` | `[]TypeOK` |
| | `OneSessionRuns` | `[]OneRunningSession` |
| | `HoursAreLogged` | `[]HoursMatchLogs` |
| | `ClosedIsQuiet` | `[]ClosedOrdersAreQuiet` |
| | `IssuesOnce` | `[]IssuedOnce` |
| `FieldProofs` | `FieldTypeCorrect` | `[]FieldTypes` |
| | `NobodyWorksTwice` | `[]OneRunningSession`, of work orders and of fabrication orders |
| | `HoursAreCovered` | `[]HoursAreWorked` |
| | `HoursAreLogged`, `ClosedIsQuiet`, `IssuesOnce` | those of `FabricationProofs`, of the whole |
| | `CompletedStaysRight` | `[]CompletedIsRight` |
| | `NobodyChangesUnseen` | `NothingUnseen` |
| `ClientSessionProofs` | `TypesAreKept` | `[]TypeOK` |
| | `NobodyIsMistaken` | `[]IdentityIsTrue` |
| | `NoLateTakeover` | `NobodyTakesOver` |
| `OeeProofs` | `SheetsKeepTheirTypes` | `[]OeeTypeOK` |
| | `NoMinuteRunsTwice` | `[]RunsNeverOverlap` |
| | `RunTimesAreTrue`, `HoursAreOfAllSheets`, `NoShareIsLost` | `[]RunMinutesAreRight`, `[]HoursAddUp`, `[]SharesAddUp` |
| | `EveryMinuteCountsOnce` | `[]MinutesCountOnce`, which is the three of them |
| `RecordsProofs` | `TypeCorrect`, `MergesFormNoChains`, `MergesLeaveNothingBehind`, `MergesLast` | of `UserMerge` by itself: `[]TypeOK`, `[]NoChains`, `[]NothingLeftBehind`, `MergedStays` |
| | `RecordTypeCorrect` | `[]RecordTypes`, of everything in `Records` |
| | `NoChainsForm`, `NothingStaysBehind`, `MergedForGood` | those of `UserMerge`, of the whole |
| | `ReadingsAreKept` | `ReadingsKept` |
| | `TokensStayCurrent` | `[]TokensAreCurrent` |
| | `IdentityStaysTrue`, `NobodyTakesOverEver` | `[]IdentityIsTrue`, `NobodyTakesOver`: those of `ClientSessionProofs`, of the whole |
| | `MonthsStayRegular` | `[]MonthsAreRegular` |

**The arguments.** None of these is inductive as it stands: what a transaction
will write depends on what it read, and what a call has still to do on what it
has done. Each proof module defines an invariant that says what a transaction
or call in flight may rely on, has one lemma per handler, statement or commit,
and one that joins them.

* `AdministrationProofs`, `InventoryProofs`: `Arguments` (what the checks of a
  transaction established on its snapshot: a fact about the transaction alone,
  that no step changes) and `Trails` (how far the rows can have moved from its
  snapshot: versions only grow, an unmoved version means an unmoved row but for a
  clock-in, an order once accepted stays accepted unless a clock-in revived it).
  At commit the conditional write gives
  "the version has not moved", `Trails` turns this into "the row has not moved",
  and with `Arguments` the check made on the snapshot holds for the row as
  written. Two trails are less obvious. `cancelRequest` cancels by id the orders
  it read, and return and resubmit move a request that had no accepted order;
  `AcceptanceTrail` says that if an order of the request has been accepted
  since, the request has a new version (the acceptance closed it), so that none
  of the three commits. What the theorems except of clock-ins, the trails
  except as well: the change that `SameButClockedIn` allows, and orders with the
  mark `revived`, which once set stays. In `Inventory` a clock-in moves the status
  of an order without its version, and nothing else. There an item may move without its version, but
  only in the step that gives an order a new version (`ItemsMoveVisibly`), hence
  the condition in `VersionIdentifiesStock`.
* `RecalculationIsRight` needs the types only, and a look at each commit: what
  the recalculation reads (`Seen`) is the table as the commit leaves it.
* With the administrators, `Holds` says that the request of an approval in
  flight exists. Only a deletion could make that false; it waits for the lock,
  and each client has one transaction, so that none of them is an approval of
  the same request. A deletion cuts all links to its request, every other step
  keeps requests and links (`Grows`), and an order is inserted for a request
  that exists.
* `StatusMatchesWork`: at every moment the status of a piece of equipment is the
  one the rows call for, or a recalculation of it is listed in `due` or under way
  (`Stale`, `Matched`). A handler recalculates one piece of equipment; that no
  other is affected (`Quiet`) is because the request and the order that it writes
  name the same one (`LinksAreRight`), which is why orders by hand for requests
  are excluded. The same invariant says why `findOne` needs no recalculation: an
  order is accepted only together with the closing of its request.
* `SchedulesProofs`: `OpenRight` says that an open transaction whose version is
  current read what is there: generation writes what follows from the row, and
  cancel has listed every unfinished order, but revived ones
  (`Outstanding`). `BatchRight` says the same of what a
  timer read. `DraftsIssuedNothing` and `KindsTell` (a dated schedule has a date,
  a metered one has none) are what the refinement needs: every step of
  `Schedules` is then a step of `Calendar` or a stutter, shown handler by
  handler. For `NextOrderAlwaysFits` the invariant `FInv` adds that every order
  lies behind what is due next: by date, by meter target, and by code.
  That a calendar issues each date once, whoever implements it, is by
  `AllBehind`: what was issued lies before what comes next, and each of its four
  steps keeps it so.
* `FabricationProofs`: there are no transactions, so the invariant is about the
  statements that a call has still to make: in which order they come
  (`CallsAreOrderly`), and what their presence promises: whoever is to clock in
  stops what he is clocked in to before (`OpensAreSafe`), whoever is to close an
  order stops its sessions before, but for those whose stop failed and was passed
  over, which are `missed` from then on (`WritesAreSafe`), what is to be entered in the
  ledger is not there (`IssuesAreNew`). All but the first are promises about
  orders that are not `clashed`. For hours, statements to come are debts
  (`Debts`): a session that is logged but not counted owes its hours, and so does
  a log whose hours were taken off before its row. Hours and debts never exceed
  the logs, and equal them until a server stops (`Balanced`); at rest nobody owes
  anything. This needs that identifiers of logs are not given out again: `last`
  never goes back when a log is deleted.
* What sums do when a summand comes, goes or changes is proved from the recursive
  function behind `MapThenSumSet`. The library's induction principle cannot be
  used; instead each lemma looks at a smallest subset for which it fails
  (`LeastSubset`), which is first-order.
* `FieldProofs`: a version of a checklist stands for all that a caller saw with
  it, on his screen and in his transaction. For work sessions, `Knows` says what
  a call in flight knows: a technician has one call, so what it read of his own
  sessions is still so, while the sum that it read of an order's sessions may
  have grown since, never shrunk. `FieldInv` joins the invariants of the three,
  each for the executions in which it runs.
* `ClientSessionProofs`: the invariant is about every tab, up to date or not. What
  a tab shows belongs to the owner of the token it has seen (`EntryRight`); if
  that token is alone in the cookies, localStorage binds it (`Bound`); and in the
  revision in which a call was made, the token that it carries, or the person for
  whom it asks, is that of the tab (`CallRight`). `Reading` says that a tab that is
  up to date with one token finds it alone in the cookies. Together they make the
  comparison in `Same`, of a revision and a look, a comparison of persons
  (`OwnSession`), which no answer that changes the tokens escapes
  (`OnlyInItsSession`). All steps of tabs end in `Settles`, hence one lemma for
  what it leaves (`Settling`), two for what it begins (`Waiting`, `Loading`), and a
  few lines per handler.
* `OeeProofs`: a list of intervals stands for a set of minutes, and each
  operation of the code does to the set what its name says: merging keeps it
  (and leaves stretches that do not touch), subtracting takes minutes
  away, clipping intersects, moving by days shifts. The length of stretches that
  do not touch is the number of their minutes, so that `duration` counts each
  minute once, whatever order and overlap the rows had; and the comparison
  `Overlaps` sees every minute that two runs have in common, because times that
  were moved to their shift lie within two days of each other. For
  `RunTimesAreTrue` the minutes of a row on the clock are compared with its
  interval on the time line: within half a day of the middle of the shift no two
  minutes of the time line are the same on the clock. For `NoShareIsLost` each
  segment between neighbouring points is covered by all of its minutes or by
  none, its parts add up to its length (`Parts` is divided by any number of
  records), and the sum over the records is followed from each set of segments
  to one with a segment more (`OneStretchMore`).
  The folds of the code are followed from their recursive definition, position by
  position (`StepByStep`). The invariant `SheetInv` of the transactions: who is
  between check and commit holds the lock of the machine (`OneWrites`), so that
  nobody else commits, and what his sheet was compared with is what there is.
* `RecordsProofs` has an invariant for each component, and `RecordInv` joins them:
  * *Accounts* (`IInv`): previews are of two different accounts (`Distinct`), a
    merged account is retired (`MergedRetired`), and the fingerprint of a preview
    that still matches covers every row.
  * *Meters* (`MeterInv`): what a call keeps of the readings that it saw names
    readings that there are (`TaskRight`): they are voided, never deleted. The
    property is about steps, and the work is in the recalculation: it goes down
    the chain from the reading that was touched, and what lies before stays
    intact because nothing from there on is looked at (`IntactBelow`,
    `RecalculatedIntact`). A batch of `syncEvnReadings` recalculates once, from
    the time of its first value: from there on the chain is right whatever the
    values matched (`Carries`, `BeforeBatch`). A value that matched an earlier
    reading within the window leaves the chain stale before that time; `mended`
    says from when on it is right.
  * *Browser sessions* (`BrowserInv`): a row is locked by the call that is past its
    lock, and by no other (`CallRight`); unless somebody is at work on it or an
    answer got lost, it keeps the token that HRM takes (`RowRight`).
  * *Monthly dates* (`MonthInv`): the next date is the one that counting from the
    first gives, because setting the day to the anchor twice is as setting it once
    (`DatedTwice`). For the pause, `Projected` shows that the division lands in
    the month in question or in the last before it, that no date before has yet
    to come, and that the loop takes one step at most.
* What goes on step by step (the loop of `MonthlyDates`, the rows of a batch) is
  proved with `StepByStep` and `Iteration`, induction over the numbers up to a
  bound with a set in place of the predicate that the library's induction takes.

**Only model-checked:** `DueDatesAreServed` and `MetersAreServed`, liveness under
fairness, which is out of the prover's reach; and the four violations, which
nobody can prove.

## 5. What is not modelled, and why

* **Equipment and schedules together**: an order that a schedule generates does
  not recalculate its equipment. A composition of `Maintenance` and `Schedules`
  would show it; both are at the limit of what TLC explores in minutes.
* **Execution logs and histories**, operation logs: rows that are added and
  reviewed one by one, by one statement each.
* **Working hours** (`calculateWorkingMinutes`) in work sessions: an hour is an
  hour of the clock. In `Fabrication` the office hours are a constant.
* **OEE**: the placement of records that have no times, the configuration, and
  the averages and percentages, which follow from the minutes by one division.
* **Meters**: points, system status and the reports; the batches call a modelled
  handler per item.
* **Browser sessions**: expiry, the throttle, the details of cookies.
* **Permissions**: a refused call changes nothing, and the models let everybody
  call everything.
* **Notifications, mail, gateway, attachments, analytics, feedbacks, settings,
  health, MCP server**: listeners after the commit, files and read-only reports;
  no state that the models share.
* **The rest of the frontend, the mobile app**: clients of the HTTP interface,
  whose calls the models let come in any order.

The definitions map to some 7,200 of the repository's 84,571 lines. Well over
half of the rest is the user interface, and of the backend's the larger part is
DTOs, reports, formatting and message texts, which keep no state and share none.
