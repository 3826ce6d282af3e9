# Verification of the Wafi logistics platform

TLA+ models, TLC configurations and TLAPS proofs for this repository: a NestJS API (`src/apps/api/src`)
with a BullMQ worker over PostgreSQL through Prisma, and the React console in front of it
(`src/apps/web/src`). Line numbers refer to the files as they are in the repository; paths in the text
leave out `src/`.

## How the system runs

Every command is one handler of the API or of the worker, and nearly every handler is one Prisma
interactive transaction. PostgreSQL runs it at READ COMMITTED (no isolation level is set except where
configuration versions and KPI figures ask for Serializable), so

* each statement sees what was committed when that statement started: two reads in one handler can
  see different states, and what was read may be out of date when it is used;
* `updateMany({ where: { id, status: X } })` re-evaluates its condition on the newest version of the
  row, after waiting for a transaction that has updated it: it is the code's compare-and-set, and
  `count === 0` is its failure;
* `pg_advisory_xact_lock(hashtextextended(key, 0))` is a mutual exclusion among the handlers that
  use the same key, held until the transaction ends; nothing else respects it;
* a refused check, a lost connection, Prisma's transaction timeout, a crash of the process or a
  deadlock abort leave nothing behind.

The modules keep exactly this: **a request is a transaction, split where another one can commit in
between**. The entry of `inflight` for a request holds the local variables the code will still use,
the locks it has taken and the rows it has written but not committed. A step named `Read...` is
lock, first read and the checks on it; a middle step is a later read whose answer is acted upon; a
step named `Commit...` is the conditional update and all the writes that go with it. They are one
step because the first write locks the row that decides, and nobody sees any of them before the
commit. A request that a check refuses has written nothing, and is a step that is not taken.
`Rollback` (`Abort...` in `MissionClosure`) may end any request at any point.

In the modules that extend `Transactions`, a request is served once: `Waiting`, then what it remembers, then
`Answered`. A client that repeats a request is another request. In the first four (`MissionLifecycle`,
`OperationalExceptions`, `AlertDelivery`, `MissionClosure`) a request is a slot that serves one handler after the
other for ever.

The console is a single page at a time in a browser tab: effects that start loads, handlers that send forms, timers,
and answers that arrive in any order. There a step is what runs between two `await`s.

## Inventory

| Component | State | Operations | Talks to | What is hard | What makes it correct |
|---|---|---|---|---|---|
| Missions (`missions`) | `missions`, `mission_stops`, `mission_assignments`, `mission_events`, `portal_notifications` | create, update, assign, transition, addStop, updateStop | closure requirements, rule evaluator, exceptions, notifications | status moved by two requests, checks on snapshots, four different locks | the transition matrix, a crew while underway, times in order and final, one timeline, one notification |
| Stop execution (`mission-stops`) | `mission_stops` | arrive, startUnloading, complete | rule evaluator | no lock: conditional updates only; counting of earlier stops | stages in order, evidence kept |
| Rule evaluation (`rule-evaluator`, `rule-reevaluation`) | `operational_exceptions`, `alerts` | evaluate on LOADING, DEPARTED, arrival, completion; re-evaluate | mission and stop handlers, jobs | detections race with each other and with resolutions, and write by id what they found open; facts read outside the transaction | one open exception per rule and target, one per occurrence |
| Route deviations (`route-deviations`) | `operational_exceptions` | start, recover | missions (shared lock) | start races with the closing | none open in a closed mission |
| Exception workflow (`exceptions`) | `operational_exceptions`, `root_causes`, `decisions`, `corrective_actions`, evidence | assign, severity, resolve, root cause, decision, action, evidence | evaluator, closing | user, recovery and closing resolve the same row; parents read before the transaction | a resolution is final and has one author; the audit replays |
| Alerts (`alert-operations`) | `alerts`, `alert_delivery_attempts`, `alert_escalations` | mark read, record attempt, escalate due | exceptions, users, jobs | repeated requests; lists of alerts and managers read before the locks | attempts numbered, at most two; one escalation, of an open exception, in the end |
| Closure policies (`closure-policies`) | `closure_policies`, requirements | save version, approve, activate, deactivate, assertSatisfied | missions, documents | saving and moving use different locks; updates by id; the mission's client may change under a closing | versions move forward, approved by another than the author; a stage is closed under an activated version |
| Documents and waybills (`documents`) | `documents`, files, waybills | upload, replace, verify, scan; issue, upgrade, verify, share | storage, closure requirements | file and row are not atomic; a scan after the verdict | a row has its file; a verdict is another's and after a scan; one waybill |
| Master data (`clients` ... `routes`) | clients, carriers, warehouses, branches, drivers, vehicles, routes | create, update, archive | missions | writes by id after a check outside the transaction | references stay within their owner; archived rows come back by overlap only |
| Contracts (`contracts`) | `contracts`, parties | create, transition, expireDue | missions, jobs | expiry in batches against manual transitions | the matrix, the audit; batches do not deadlock |
| Users, roles (`users`, `roles`) | `users`, `roles`, grants, driver links | create, portal accounts, status, password, link, roles, permissions | all (guards) | read-then-write by id; portal provisioning without the role's lock | no audited change is lost; a link passes by overlap only |
| Sessions (`auth`) | `refresh_sessions` | login, refresh, logout | users | a token presented twice; logins overlapping a deactivation | a session is exchanged once; what a deactivation or a new password ends |
| Rule and KPI configuration | `rule_configurations`, `kpi_configurations` | create version | evaluator, KPI engine | overlapping effective periods | one effective version at any time |
| KPI snapshots and results | `kpi_fact_snapshots`, `kpi_results` | snapshot, calculate, publish | jobs, missions, exceptions, documents | facts as of a cutoff in the past, judged by stamps that are older than the commits; serializable reads before the lock | what a cutoff fixes; one result |
| Support (`support`) | `support_tickets`, assignments, messages | create, message, assign | users, documents | assignment in three statements without a lock | the assignee has the last open assignment, up to overlaps; who takes part in a conversation |
| Jobs (`jobs`, `worker.ts`) | BullMQ queue | the periodic re-evaluation, alert escalation, contract expiry | every service above | attempts, backoff, one job for all organizations | every due alert is escalated in the end |
| Web console (`features/*`) | what each page shows | loads, choices, forms, pagers | API client, session | answers out of order, stale closures, permissions written down twice | a settled page shows the current answer; a form on offer is not refused |
| Browser session (`session-provider`) | tokens, renewal timer, refresh cookie | restore, renew, sign in, sign out | the API's sessions | a renewal in flight at a sign-out, calls that are lost | the screen agrees with the server's sessions, and none is left behind unaccounted |
| Routes and guards | - | permissions of every route | all | the same permission named in two programs | see Web console |
| Throttle, geography, read models, platform, web shell, packages, schema | none of their own that others depend on | - | - | - | - |

`PROJECT.json` lists the same parts with their files and what of each is modelled, and under
`hazards` the places in the code that are hard to test, each at its line with the properties that
watch it.

## Modules

| Module | Role |
|---|---|
| `MissionPolicy` | statuses of missions and stops, the transition matrix (`mission-transition.policy.ts`) |
| `MissionLifecycle` | a mission, its stops and its assignment history under concurrent requests |
| `MissionProtocol` | abstract specification: the same workflow with atomic operations |
| `OperationalExceptions` | the exceptions of a mission: detected, deviated, resolved, closed |
| `ExceptionRegister` | abstract specification: a register of exceptions with atomic operations |
| `AlertDelivery` | the alerts of exceptions: delivery attempts and escalation, by users and by the job |
| `AlertPromise` | abstract specification: two attempts at most, one escalation, atomically |
| `ClosurePolicies`, `Documents` | the versions of a client's closure policies; the files, rows, scans and verdicts of documents |
| `MissionClosure` | their composition with the closing transitions of a mission |
| `Transactions` | requests that run one handler each, and advisory locks; extended by the following |
| `MasterData`, `Contracts` | what missions are planned with |
| `MissionPlanning` | their composition with a mission's plan, crew, stops and waybill |
| `Users`, `Sessions` | accounts, roles and links; logins, refreshes and logouts over them |
| `KpiEngine` | the seven components and the score of a mission, a pure calculation |
| `Scoring` | configuration versions, snapshots as of a cutoff, results and their publication |
| `Support`, `FollowUp` | tickets; composed with what people do about an exception |
| `ApiRoutes` | the permissions each route asks for, and the guard |
| `ApiClient` | the route each function of the console's client calls |
| `Pages` | tables: what each page loads and when, what its forms send |
| `BrowserSession` | the session of a tab against the server's |
| `Console` | the composition of the last four: a user at a page |
| `..._proofs` | theorems: `MissionLifecycle`, `OperationalExceptions`, `AlertDelivery`, `MissionClosure`, `MissionPlanning`, `Scoring`, `Sessions`, `Console` (with `BrowserSession` and `FollowUp`) |
| `MC...` | values and symmetry for TLC |

### MissionLifecycle

| Code | Steps |
|---|---|
| `MissionsService.transition` | `ReadTransition` (lock for OPERATIONALLY_CLOSED, row, matrix, crew, departure time), `CheckDelivery` (the stops, the second SELECT of the include), `CommitTransition` (conditional update, event, notification), `LoseTransition` (count 0) |
| `MissionsService.assign` | `ReadAssign` (lock, current crew), `CommitAssign` (end the open history rows, new row, mission) |
| `addStop`, `updateStop` | `ReadAddStop` / `ReadUpdateStop` (lock, is the sequence free), `CommitAddStop` / `CommitUpdateStop` |
| `arrive` | `ReadArrive`, `CheckArrive` (count of uncompleted lower sequences), `CommitArrive`, `LoseStopCommand` |
| `startUnloading`, `complete` | `ReadUnload` / `ReadComplete`, `CommitUnload` / `CommitComplete`, `LoseStopCommand` |

A crew stands for the triple carrier, vehicle, driver that passed the ACTIVE checks; a time for an
`occurredAt`, which clients choose freely. The `ahead` field of an arrival in flight is a history
variable, which the inductive invariant speaks of: the code keeps only that its count was zero.

### OperationalExceptions

A *candidate* is a rule with its target (the mission or a stop), and its *fact* is what the rows say
of it relative to the rule's configuration: pending, due, met, breach or unscheduled. Dates,
thresholds and tolerances are thereby abstracted to the one comparison the evaluator makes; a
disabled rule is a candidate that is always met. The configuration of a rule does not change during
a behaviour.

| Code | Steps |
|---|---|
| the handlers that record LOADING, DEPARTED, an arrival, a completion, and evaluate their rules | `BeginEvent` (the row they update keeps others away), the evaluation, `CommitEvaluation` |
| `reevaluate` | `BeginSweep` (reads mission and stops outside the transaction), the evaluation, `CommitEvaluation` |
| the evaluation: `evaluateTimeRule`, `evaluateQuantityRule`, `recordMissingData`, `upsertException` | per candidate `Pass`, or under the lock of the active key `DetectOwn`, `DetectFound` then `UpdateFound`, `DetectReplay`, `DetectNew` |
| `RouteDeviationsService.start` / `recover` | `ReadDeviation`, `CommitDeviation` / `ReadRecovery`, `CommitResolution` |
| `ExceptionsService.resolve` | `ReadResolution`, `CommitResolution` |
| `transition` to OPERATIONALLY_CLOSED, `closeActiveExceptions` | `ReadClose`, `ListOpen`, `CommitClose` |
| the clock, and the statuses exceptions depend on | `Elapse`, `Deliver`, `Cancel` |

An evaluation that found an exception open (`DetectFound`) writes its detection to it by id (`UpdateFound`): the row's
lock is waited for, the row is this transaction's until its commit, and what is written is kept in `updates` until then.
The status is not looked at again, so that a row resolved meanwhile gets the detection's columns, which the `detected` field
stands for, and stays resolved.

That a stop's operations may still be recorded after the mission is delivered is not an
accident of the model: the stop commands do not look at the mission (see the finding on delivery).

### AlertDelivery

| Code | Steps |
|---|---|
| `recordDeliveryAttempt` | `ReadAttempts` (lock, row with its attempts, the checks), `CommitAttempt` (insert, update of the alert), `AbortDelivery` |
| `escalateDue`: the two queries outside any transaction | `ListDue` (the first `Limit` alerts due), `NoManagers` or `ListManagers` |
| `escalateDue`: the transaction of each candidate | `Claim` (lock and conditional update; a count of 0 goes on to the next), `CommitEscalation` |
| a job that throws or a worker that dies | `FailSweep` |
| exceptions opened and resolved, users and roles, the clock | `Raise`, `Resolve`, `ChangeManager`, `Tick` |

Each execution of `escalateDue` is a *sweep*: the job's sweeps (`Jobs`) take place at the current
time, a user's at any time, since `evaluatedAt` is in the request. `attemptedAt` is chosen by the
client, too. A repeated attempt that is already recorded is answered without a write and is not a
step. 0 stands for null in columns of time.

### ClosurePolicies, Documents, MissionClosure

| Code | Steps |
|---|---|
| `ClosurePoliciesService.save` | `ReadLatest` (lock of the stage, the latest is no draft), `CommitVersion` (the unique version) |
| `approve`, `activate`, `deactivate` | `ReadPolicy` (lock of the one version, the move), `RetireOthers` for an activation, `CommitMove` (by id) |
| `DocumentsService.upload` | `ReadReplaced`, `Put` (the file), `CommitUpload`, or `FailUpload` / `LoseAnswer` and the catch `DeleteFile`; `CrashUpload` |
| `verify`, `recordMalwareScan` | `ReadVerification`, `CommitVerification`; `RecordScan` (by id, under no lock) |
| `transition` to OPERATIONALLY_CLOSED and ACCOUNTING_READY, with `assertSatisfied` | `ReadMission`, `ReadActivePolicy`, `ReadDocuments`, `CommitClosing` |
| `addStop`, and `update` with another client, meanwhile | `AddStop`, `UpdateMission` |

A *stage* is a client with the kind of closing. A closing goes by the client it has read with the mission: `update` asks for no
status and waits for no lock of a transition, so that the mission can be another client's when the closing commits. `applied`
keeps, for each kind passed, the policy version and, as history, the stops and the client its closing had read.

`RetireOthers` is as strict as it is because of the schema: the `updateMany` (`closure-policies.service.ts:121`) sets
`status` and `isActive` and leaves `activatedBy` and `activatedAt`, which the table's
`closure_policies_activation_check` refuses. So an activation fails while another version is ACTIVE, and the active
one must be deactivated first (which `docs/phase-3-closure-policies.md:12` also says).
Two versions that are activated concurrently see no active version each, and both become ACTIVE: `ReadActivePolicy`
takes either, as `findFirst` may.

### MasterData, Contracts, MissionPlanning

| Code | Steps |
|---|---|
| create, update, archive of clients, carriers, warehouses, branches, vehicles, drivers; create of routes | `Create...`/`CommitCreate`, `Update...`/`CommitUpdate`, `Archive...`/`CommitArchive` for each kind, `CreateRoute`/`CommitRoute`: checks in statements of their own, then a write by id |
| `ContractsService.create`, `transition`, `expireDue` | a signing and `CommitSigning`; `ReadContract` (lock), `CommitContract`; `ListDueContracts`, then `ExpireNext` locks and writes one contract after the other, and `CommitExpiry` |
| `MissionsService.create`, `update`, `assign`, `addStop` | `CreateMission`/`CommitMission`, `ReadMission`/`CommitReplan`, `ReadCrew`/`CommitCrew`, `ReadBranch`/`CommitStop`: checks row by row, then the write, each under the operation's own lock |
| `WaybillsService.issue`, `verify`, `share` | `ReadWaybill`/`CommitIssue` (issue or upgrade under the lock), `ReadShared`/`CommitShare`; `Verification` is what the public route answers |

Rows are one client, carrier, warehouse... of each kind, with a second client to change to. `clientsHad` and `crewsHad`
are history variables, and so is `archived`. The plan keeps only what the checks relate: client, warehouse, route,
contract and loading time.

### Users, Sessions

| Code | Steps |
|---|---|
| create, portal accounts, `linkDriver`, roles, permissions, `updateStatus`, `changePassword` | one read and one commit each; the latter two also list the open sessions and revoke them (`ListSessions`, `CommitRevocation`) |
| `AuthService.login` | `ReadUser`, `RecordLogin` (which waits for the user's row), `IssueTokens` |
| `refresh` | `ReadSession`, `Consume` (the conditional update), `CommitRefresh` |
| `logout`, the end of a session's time | `Logout`, `Expire` |

`by` and `overlapping` are history variables: which requests made a session, and which were under way when the user
was deactivated or the password changed. They say exactly which sessions outlive a deactivation.

### KpiEngine, Scoring

`KpiEngine` is `kpi-engine.ts` as operators: seven weighted components, the score in basis points, missing facts left
out of the weight. A mission's score is written over a common denominator (`Whole`, `Earned`), which is the code's sum of
quotients without its float's rounding, and needs no fold over the components. The arrival and the departure of the vehicle
are looked up as events of the types VEHICLE_ARRIVED and DEPARTED (`kpi-engine.ts:76`, `161`). The program writes none: its
types are those of `mission.constants.ts:19`, and a change of status is MISSION_STATUS_CHANGED. So VEHICLE_ARRIVAL is never
known and ROUTE_COMPLIANCE never applies, and with no provider of other facts only LOADING_DEPARTURE, DELIVERY_ARRIVAL and
POD_DOCUMENT ever count. `EventTypes` lists what the modelled changes write.

`Scoring` has `CreateConfiguration`/`LockVersions`/`CommitConfiguration` for both kinds of configuration,
`CreateSnapshot`/`TakeLock`/`CommitSnapshot`, `Calculate`/`TakeLock`/`CommitResult` and `ReadResult`/`Publish`. A
serializable transaction reads before it waits for its lock, so its row is fixed at the first step; only the unique key
refuses it later.

| Code, of other components | Steps |
|---|---|
| `transition`, route deviations `start` and `recover` | `Transition`, `StartDeviation`, `ResolveDeviation`: the UPDATE with its stamp (`missions.service.ts:391`), kept in `uncommitted`; then `Commit` (`missions.service.ts:481`) or `Undo` |
| an arrival at a stop, a proof of delivery uploaded, a verdict on it | `Arrive`, `UploadDocument`, `VerifyDocument`, in one step: no check of a snapshot looks at their stamps |

A snapshot judges committed rows by their stamps (`Unchanged`: the mission's `updatedAt`, an exception's `updatedAt`,
`lastDetectedAt` and `resolvedAt`), and takes from them what the cutoff shows (`Captured`: events by `occurredAt`, documents
by `createdAt`, verdicts and stop times as they are). A change stamped and not committed when a snapshot reads is `missed`
by it, a history field. Left out are the writes of rule evaluations and users to exceptions, changes of the schedule
and the crew, and clocks of several processes that differ.

### Support, FollowUp

`Support` has create, message and assign. An assignment looks for the open rows (`ListOpenAssignments`), ends those that still
are (`EndAssignments`, which waits for other transactions' rows), creates its row (`CreateAssignment`, `support.service.ts:56`: the
place in the history, `assignedAt`) and updates the ticket (`CommitAssignment`, line 57, which waits for another one's
update). With no open row nothing makes two assignments wait before the last step, so the order of the history and that of
the commits may differ. `seen` is a history field of the row. Who may read a ticket is `ticketWhere` (`MayRead`): a grant of `support.read` for the
organization or the ticket's client, linked to a driver or not, and without any grant the driver's own tickets. The
assignee may be any active user. `FollowUp` adds the exception's assign, changeSeverity and resolve under
its lock; recovery and the closing, which resolve it under other locks; root causes with their parents, decisions,
actions and their completion, evidence, and marking an alert read.

### ApiRoutes, ApiClient, Pages, BrowserSession, Console

`ApiRoutes` transcribes the `@RequirePermissions` of every controller, and `ApiClient` the routes the console's client
calls. `Pages` gives each page its *loads* (an effect: the calls it makes, the choices its query is about, the signals
of its dependency array, what it does when a newer one starts) and its *forms* (the call, the permission it is shown
under, what it reloads when it succeeds), and the panel's *pagers*, which load one more page of a mission's events or
documents until the panel is loaded again. `Console` runs them: a load is started by an effect, answered by the server
with the version its data has by then, and shown when the answer arrives, unless the page has dropped it; a form is
sent, accepted or refused by the guard, and what it reloads starts again. A load that is dropped clears the page's busy flag
all the same when it ends (`exception-workspace.tsx:77`). `BrowserSession` runs restore, renewal,
sign-in and sign-out against the cookie as it is when a call is sent, and against a server that exchanges a refresh
token once. Three history variables tell what went wrong: `overtaken` (a sign-out ended before a call that was fetching tokens),
`cut` (so it did, or a call was lost, and no session was established since), and `abandoned` (tokens of answers that were lost, or
that another call's answer took from the cookie).

## What is checked

| Run | Bounds | Shows |
|---|---|---|
| `mission` | 2 requests; one of two instances, chosen at the start: 1 stop at 1 sequence with 2 crews and 2 times, or 2 stops and 3 sequences with 1 crew and 1 time; 2 history rows | a mission beyond DRAFT keeps a crew and an honest history (`CrewAccounted`), recorded times are in order and final, the timeline replays to the status, the delivery is notified once, a delivered mission has a completed stop, the inductive invariant of the proofs holds (with it the types and the unique sequences), and every step implements `MissionProtocol` |
| `mission_delivery` | 2 requests, 2 stops | counterexample: see the next section |
| `mission_arrival` | 2 requests, 2 stops, 2 sequences | counterexample: see the next section |
| `exceptions` | 2 requests; loading and departure, which share the missing-data exception, and a stop's quantity rule; 1 deviation time; 2 exceptions | one exception of an occurrence, none of a deviation open in a closed mission, the closing accounts for what it listed, resolutions are final but for the columns of a detection that an evaluation under way writes by id (`ResolutionFinal`), and every step implements `ExceptionRegister` |
| `alerts_alert` | 1 alert, 2 users, 2 delivery requests, a user's and the job's sweep, times 1 to 3, 1 failure | attempts and status agree, no escalation after the resolution, and every step implements `AlertPromise` |
| `alerts_due` | 2 alerts, a sweep takes 1, 1 delivery request, 2 times, 1 failure | every due alert of an open exception is escalated in the end |
| `closure` | 2 policy requests, 1 document request, 1 closing; 2 versions, 1 document, 2 stops, 2 users; 2 clients, one with policies of one kind | only the latest version is a draft, versions are kept, rows and files agree up to crashes and lost answers, a mission is closed under an activated version of its client's policy that another than its author approved, on documents judged by another than their uploader, although it may be given another client before the commit |
| `planning` | any 2 requests from 5 starting points (no mission, one in DRAFT, one being delivered without and with an old waybill, one delivered); 3 contracts, 2 or 3 rows of each kind; `EndOfTime = 1` | contracts follow their audit, two expiries do not deadlock, a mission's plan, crew and stops stay consistent, there is one waybill, and archived rows come back only by an overlapping update |
| `identity` | any 3 requests, 3 users, 3 roles, 2 passwords, 1 driver, 1 client | no administrator's change to a role is lost from its audit, a deactivation and a new password end all sessions but those of requests under way, a session is exchanged once, a driver's account passes by overlap only |
| `scoring` | any 2 requests, 2 times; one of two instances, chosen at the start: configurations from 6 starting points, or 2 changes of a mission, with their stamps and commits, from 4, with results calculated as of the later time | one configuration effective at a time, what a cutoff fixes, one result of a snapshot, and no full marks lost to missing facts |
| `followup` | any 3 requests on one exception with a decision and an action, and two tickets of two clients; 3 users: one reads every ticket, one those of a client and is linked to a driver, one is a driver | the audit tells the exception's story, and which assignments stay open beside the assignee's or come after it in the history |
| `console` | every page; a user with everything, users without one permission each, and the two portal accounts; 2 events, 5 on the client portal's page; 3 values of a choice | a settled page shows the answer to its choices with its own changes, no form on offer is refused (but the listed ones), and what the session of a settled tab and the server's have to do with each other, whatever overlapped or was lost |

Why the bounds are enough to be interesting. Every property of the API is about what one transaction has read while another
commits, and a transaction meets the others only through rows and locks: two requests give every pair, and where one more
is needed to show the damage (a change of password, an old login, a refresh of it; two assignments and a resolution)
there are three. Requests served once need starting points in the middle of a story, which `Starts`, `Rows`, `Ticket`
and the like give. Two times give an earlier and a later one for every comparison; two crews and two history rows give a
change of crew; three sequences for two stops give a free one to move to; two rows let an exception be resolved and
opened again. `EndOfTime`, `MaxVersions`, `MaxExceptions`, `MaxAssignments`, `MaxTime`, `MaxFailures`, `MaxChanges`
and `MaxEvents` are the bounds; the theorems hold for every value of those of their modules. `Permutations` of
interchangeable requests, users, stops and crews are declared as symmetry; no liveness property is checked under symmetry.

Four runs bound more than their constants do. `mission` and `scoring` explore the sum of two instances where their product
would say no more: no property relates two crews to two sequences, or the creation of a configuration to a change of a mission's facts.
`closure` does not follow a closing that will be refused for want of a policy, and gives the mission the other client only between what
a closing has read and its commit (`Followed`). `console` has the two numbers of events.

In `AlertDelivery` one alert is enough for the safety properties: requests meet at one alert, its row
and its lock. Three times give a first attempt, a retry that is due and one that is too early. Two alerts and a
limit of one are the smallest case in which a sweep leaves a due alert out.

In `Console` an event is what the user, a timer or the network does: a choice, a form, a timer that fires, a
sign-in or sign-out, a lost call. Answers are no events: all orders of all calls that two events and the page's own
effects start are explored. Two events are a form or a choice that overlaps another, or a renewal; the stories of the session need up to five (a sign-in, two
renewals, a sign-out, a lost call), which are explored on a page with little to load. One page is open at a time.

Deadlock is checked except in `closure` and `console`, where the system may stop with nothing left to do. Each module has a
type invariant. They are proved, as a theorem or as a part of the inductive invariant, but for that of `Scoring`, whose aggregate score
is a fold over missions; those that no run lists as a property hold in TLC on the same instances.

Fairness is assumed in `alerts_due` only (`FairSpec`). The clock advances. The job lists at the current time again and
again: `jobs.service.ts` schedules it every minute. Between its statements a sweep goes on, and a delivery ends, because
Prisma bounds a transaction's time: weak fairness. A sweep gets an alert's lock although deliveries may take it again
and again: strong fairness, because PostgreSQL queues the waiters for a lock. A user's sweep need not happen. Failures
are finitely many (`MaxFailures`), and managers may come and go, but from some time on there must be one: without, the
code leaves the alert due. No other liveness property is stated: a request may always be abandoned by its client.

## What the models show of the code

### Where code and documentation disagree

* **Delivery** (`missions.service.ts:371`, the run `mission_delivery`): the stops are checked in a read of their own;
  `addStop`, which does not ask for the mission's status, can commit a new stop before the update. The mission is
  DELIVERED with a pending stop.

* **Arrival order** (`mission-stop-operations.service.ts:29`, the run `mission_arrival`): the lower sequences are counted in one
  statement, the stop arrives in another; a stop planned at, or moved to, a lower sequence in between
  is overtaken, whereas `README.md:162` says "A stop cannot arrive until every lower sequence is completed."

The following are visible in the modules' actions and have no run of their own.

* **Detection of a resolved exception** (`rule-evaluator.service.ts:223`): found open under the key's
  lock, updated by id. `resolve` takes a different lock: the evaluation overwrites the facts, the context and
  `lastDetectedAt` of a row resolved meanwhile, and opens nothing, whereas `docs/phase-5-operational-intelligence-foundation.md:42`
  (and `docs/phase-5-acceptance.md:12`) says "a later qualifying event creates a new record". `ResolutionFinal` is what remains
  true: the resolution stays, and an evaluation that looks after it does not find the row.
* **Repeated re-evaluation** (`rule-evaluator.service.ts:234`): loading and departure that are both
  overdue share one missing-data exception, which records the occurrence of the first only. Once it is
  resolved, the same re-evaluation opens an exception for the second. This takes no concurrency.
* **Repeated deviation** (`route-deviations.service.ts:46`): the same start, sent again after recovery,
  opens a second incident; the occurrence key is written but never looked up.
* **Closing** (`missions.service.ts:647`): a re-evaluation that commits after the open exceptions were
  listed leaves an open exception in a closed mission. And the documents a closing has checked can be rejected before
  it commits; hence `ClosureEvidenced` speaks of documents that were judged, not of documents that are verified.
* **Resolution** (`exceptions.service.ts`): resolving asks for neither a root cause nor proof, which
  `docs/production-business-decisions-v1.md` (section 4.7) lists.
* **Escalation**: `docs/production-business-decisions-v1.md:124`, "A second failure marks delivery failed and escalates to
  the fallback owner": the code marks it failed and leaves escalation to the time of the event. Line 125, `HIGH` "after
  60 minutes": every alert is due after 14 minutes (`rule-evaluator.service.ts:283`, `route-deviations.service.ts:67`).
* **Scores**: `docs/production-business-decisions-v1.md:135`, "Cancelled missions are excluded": the engine does not look at a
  mission's status. And two of the seven components wait for events that nobody writes (see `KpiEngine` above).
* **Sign-out**: `docs/phase-4-control-tower-frontend.md:31`, "sign-out revokes the server session and clears the cookie": a
  renewal that is answered after the sign-out it overlapped sets the cookie to the token it got, and signs the tab in again.
* **Tickets**: two assignments of a ticket without an open one can leave as assignee another user than the last of the
  history (`support.service.ts:56`, `57`, `84`).
* **Client portal** (`users.service.ts:134`): a client portal account gets its grant with the scope CLIENT, and
  `PermissionsGuard` counts grants of the scope ORGANIZATION only. Every guarded route answers 403 to it, and the
  services' filters for one client (`control-tower.service.ts:224`, `missions.service.ts:486`, `documents.service.ts:280`,
  `waybills.service.ts:155`, `support.service.ts:66`) are out of reach, whereas the role is described as "Read-only access to
  one client portal" and `docs/phase-4-acceptance.md:34` accepts it.

### What the properties had to leave room for

Each of these shows as a clause of a property, which states the most that holds.

* Two versions of a closure policy activated at the same time can both be ACTIVE.
* A row whose commit was never answered loses its file to the upload's catch (`unanswered`), and two replacements of one
  document get the same version.
* An update that overlaps an archive brings the row back (`RevivedByOverlapOnly`). A mission's client may change while its
  stops stay at the old client's branches (`clientsHad`); or while it is closed, under the policy of the client it had.
* A scan that finds a document infected after its verification leaves the verdict, and the document in evidence
  (`ClosureEvidenced`).
* Two administrators can deactivate each other. `linkDriver` and `createDriverPortalUser` overwrite a link by id
  (`LinkTakenByOverlapOnly`). Creating a portal account writes permissions of the portal's role without the role's lock
  and without audit (`Portal`).
* A login with the old password that overlaps a change of it lives on through its refreshes (`SessionsEnded`).
* Two snapshots of an earlier cutoff can differ in stop times, in the events of stops and in proofs of delivery, which change
  without an update of the mission's row; and in everything, if one was taken while a change stamped by the cutoff was
  not committed (`missed`, `CutoffKept`): the stamp is that of the UPDATE, and the commit follows after the rule evaluation.
  The cutoff may lie in the future. A result is a function of its snapshot, so that a second version is
  never written; publishing has no condition, so that of two overlapping ones the second replaces who published and when.
* Two overlapping assignments of a ticket leave two open, or an assignee who is not the last of the history
  (`AssigneeOnRecord`).
* In the console, some panes are not brought up to date (`Unrefreshed`): the timeline of an exception when another
  exception is chosen, the workflow of the driver's panel after its transitions, a waybill that an answer
  read before its issue overwrites, and the pages of a mission's events and documents, which a reload of the panel puts
  back to the first. A page that is being fetched when the panel reloads is dropped and leaves its pager disabled
  (`mission-detail-panel.tsx:78`, `150`: nothing resets `eventsLoading`). Four pages show their forms to whoever may read them, and the portal account forms do
  not ask for the right to assign roles (`LooselyOffered`). The mission panel of a user without `document.read`, and the
  workflow of one without the reads of carriers, warehouses, contracts, routes, branches and exceptions, stay empty;
  the driver portal account cannot open a mission's panel, which asks for `mission.read`.
* A call that fetches tokens and is answered after a sign-out restores a session that was signed out of, or shows one that
  has ended, until the tab next starts a restore or a sign-in with nothing under way (`overtaken`); a sign-out whose call is lost leaves the
  cookie's session (`cut`); a lost answer, or a second sign-out's that clears the cookie of a new sign-in, leaves a
  session on the server that no cookie holds (`abandoned`). Two tabs share one cookie, and the second renewal is refused; one tab is modelled.

## What is proved

`MissionLifecycle_proofs`, for every value of the constants that satisfies the assumptions (sequences
and times are positive, `NoCrew` is no crew):

* `TypeCorrect`: rows and intents keep their types.
* `Inductive`: `IndInv` is an invariant. What makes the safety properties inductive is not the rows but
  what a request in flight *still knows* when it commits. A transition knows that its target follows
  the status it read, that the crew it saw is still some crew (crews are replaced, never removed),
  that a completed stop is still completed, that its time is not before the loading time (which, once
  the mission is past loading, no transition can write again). An assignment knows that the crew still
  differs, because it holds the lock; a planned sequence is still free, for the same reason; a stop
  command's stop has passed the stage its time was compared with. `LocksExclusive` and
  `TimesMatchStatus` carry these facts from one step to the next.
* From it `CrewSafe`, `TimesSafe`, `SequencesSafe`, `NotificationSafe`, `EvidenceSafe`, and the action
  properties `MatrixObeyed`, `TimelineComplete`, `TimesFinal`.
* `Implements`: `MissionLifecycle` implements `MissionProtocol`; every commit is one atomic operation
  of the protocol, every other step a stutter.
* `ProtocolAccountable` and `ProtocolKeeps`: what the protocol comes to by itself, with no request in flight anywhere: a mission
  under way has a crew, a delivered one has a completed stop and was notified exactly once, and no step gives up a
  stop or takes back a completed one. By the refinement the handlers promise the same (`WorkflowAccountable`).

`OperationalExceptions_proofs`, for every set of requests and candidates, every order of evaluation and
every number of rows:

* `Inductive`: again what the requests in flight know. An evaluation's uncommitted exceptions have keys it
  has locked, pairwise distinct, with nothing open under them and no resolved exception of the same
  occurrence: another commit can open something under a key only while it holds the key's lock, and can
  turn an exception into a resolved one only if it was open. A deviation being started holds the
  mission's lock, which the closing holds too, so the mission is not closed and has no open deviation. A
  closing has listed every deviation still open. What an evaluation has found, and may write by id, has a key it has locked
  (`UpdatesKnow`). `LocksExclusive` carries it.
* From it `OneOpenSafe`, `OccurrenceSafe`, `ClosedSafe`, `ClosureSafe` and the action property `Final`: of a resolved exception only the
  columns of a detection change, by the commit of an evaluation that had found it open, and no evaluation finds it any more.
  `OneOpenSafe` does not use the unique index of `active_key`: the locks alone keep any handler from failing
  on it.
* `Implements`: `OperationalExceptions` implements `ExceptionRegister`.
* `RegisterAccountable`: the register's atomic operations by themselves keep one open exception of a key and, of a key that
  evaluations use, one exception of an occurrence; an exception is resolved just when somebody resolved it.
  `HandlersAccountable` is the same of the handlers, by the refinement.

`AlertDelivery_proofs`, for every set of alerts, users, requests and sweeps, every limit and interval:

* `Inductive`: behind its lock a delivery has read the attempts as they still are, and its number is the next;
  a sweep that has updated an alert found it due and not escalated, and has recipients. `LocksExclusive` keeps both from
  being overtaken, `RetryRecorded` makes the stored `nextAttemptAt` the interval that `AttemptsAccounted` speaks of,
  `NothingBefore` lets an alert be created.
* From it `AttemptsSafe`, and the action property `ResolvedQuiet`; and `RepeatsSafe` and `EscalationSafe`, which no run
  lists (the refinement of `AlertPromise` says as much on the small instance).
* `Implements`: `AlertDelivery` implements `AlertPromise`.
* `PromiseModerate`: the promise's atomic operations keep within two attempts and one escalation, and keep what they
  recorded; `RequestsModerate` is the same of the requests and the sweeps, by the refinement.

`MissionClosure_proofs`, for every set of users, documents, stops, requirements and requests and every number of
versions:

* `InductiveInvariant`: `IInv` has a part for each of the three modules. `PolicyInv` says that behind its lock a move
  has read the version as it still is, and that a saving's stage has no draft (nothing but a saving makes one).
  `DocumentInv` says that an upload's document is its own, its file is there once stored, and a verdict's
  document was uploaded by another user and scanned. Their lemmas `PolicyStep` and `DocumentStep` also say what
  every step *keeps* (`PolicyKept`, `DocumentKept`): a version that was activated stays ACTIVE or RETIRED with its requirements,
  evidence stays evidence. `ClosingInv` needs no more than that: what a closing has read (`ClosingSound`) is right,
  in this sense, until it commits, whatever overlaps it, and stays right of the kinds of closing passed (`KindSound`). It is about the
  client the closing has read, and so a change of the mission's client cannot disturb it.
* From it `TypesSafe`, `DraftsSafe`, `FilesSafe`, `ClosingLawful`, `ClosingProven`, and the action property
  `VersionsKept`.

`MissionPlanning_proofs`, for every set of rows, contracts, requests and times, and every starting point that is consistent
itself (`StartsAssumption`, `SignedAssumption`, `ExistingAssumption`, `RouteStopsAssumption`; `OrderAssumption`: the query that lists due contracts
orders all of them):

* `IInv` is `RequestsInv` (no two requests hold one lock) with a part for each module. `MasterInv`: rows keep their type and owner, a
  route's stops are its client's branches, and an update has read the row it writes (`MasterSound`); an archived row
  comes back only by one that read it before. `ContractInv`: behind its lock a move of a contract knows the status as it still is,
  and an expiry has locked what it updated, so that each audited change starts where the last one ended. `PlanningInv`: a
  mission fits the clients and crews it has had (`MissionFits`), so do its stops (`VisitFits`) and its waybills (`WaybillsFit`), and
  what a request under way has read fits them as well (`PlanningSound`). The parts meet in what every step *keeps*
  (`MastersStand`, `ContractsStand`, `HistoriesGrow`): nobody removes a row or changes its owner, a contract's parties or its
  period, so that what planning found once is never withdrawn. Lemma by lemma, an action of one module leaves the
  parts of the others.
* From it `PlanningSafe`, `WaybillSafe`, `ContractSafe` and the action property `RevivedSafe`.
* `ExpirySafe`: two expiries do not wait for each other, since each holds a prefix of one order. How many contracts there are and how
  many a job takes does not matter; that both list by one order does.
* `TypesSafe`: `TypeInv` adds to the types of the rows what a request under way remembers of them (`Known`), since that is what it
  writes.

`Scoring_proofs`, for every set of keys, requests, missions and times (`ClockAssumption`: the bound on the clock is a
number; `VersionsAssumption`: the versions at the start are in order and do not overlap; `StartsAssumption`: what there is at the
start was taken when the clock started, and computed from what was captured; `StopsAssumption`: a mission's stops are finitely many):

* `PeriodsSafe`: the invariant `IInv` adds to `PeriodsDisjoint` that a key's versions are numbered in order
  (`Versioned`) and that a request behind the key's lock has read all of them, so that its version is the next and its
  period overlaps none (`ConfiguringSound`); `KeysLocked` keeps a second request from getting there.
  `NextVersion` then appends the version.
* `CutoffSafe`: `CutoffInv` says of every row, stored or about to be, that was taken after its cutoff, that for the missions of which it
  missed nothing every change still uncommitted is stamped later, and what it has captured is what its cutoff would show of
  the mission now, if the mission would be captured at all (`Kept`); and of every two of one cutoff that they agree (`Alike`). A change is written with
  a stamp no earlier than now (`WriteKeeps`), and everything it replaces that a snapshot looks at carries the stamp (`Stamped`):
  so its commit (`CommitKeeps`) either leaves what a cutoff shows, or takes the mission out of it.
* `ResultsSafe`: a result is that of its snapshot and there is one version of it (`ResultFollows`; `ResultInv` has the same of what a
  request is about to write), and a mission in which nothing known is amiss loses nothing. The second half is arithmetic:
  with every component it knows at full marks, a mission has earned its applicable weight (`ScoreFacts`, from `Average` and
  `ComponentsOf`), because missing facts leave the weight as well as the sum.
* `ScoresSafe`: a score of a mission never divides by zero and is never beyond 100 percent, whatever the facts.

`Sessions_proofs`, for every finite set of accounts (`AccountsAssumption`), every set of roles that includes the two
portals' (`RolesAssumption`), every set of requests, any number of sessions:

* `RefreshOnce`: `IInv` says that a refresh which has consumed its token holds the lock of the session's row, so that
  nobody revokes the session or adds a second one from it before its commit (`RefreshSound`), and that no two refreshes hold
  one session (`TokensDistinct`). `ExchangedOnce` is about steps, and each action's lemma shows both.
* `EndingSafe`: `EndInv` says that whatever can still make a session for an account that was deactivated or has a new password
  (a login that saw the old row, a refresh of such a session) is in `overlapping` of its user, and that a revocation has
  listed every other session (`AccountSound`).
* `LinksSafe`: who overwrites another account's link has read the driver as linked to nobody or to its own user (`LinkInv`).
* `AuditSafe`: `AuditInv` says that behind the role's lock a request knows the permissions as they still are, but for those
  of a portal, and so continues the audit where it ended (`RoleSound`, `RolesLocked`; `ChainGrows` appends).
* `TypesSafe`: `TypeInv` adds to the types of the rows what a request under way remembers of them (`Known`). `RolesAssumption`
  also says that the assignments there are at the start are of the model's accounts and roles.

`Console_proofs`, what users see and do, in three parts. For every page, every user the tables give, any number of events and
any values of the choices:

* `ScreenSafe`: whatever overlaps and whatever is lost. `NoneForgotten`: a token the server would renew is in the cookie, on
  its way to it in a granted call, or abandoned. `SignedOff`: a tab that is not signed in has no renewal to come, and the
  cookie's session has ended unless there was a cut or tokens are being fetched. `InOrder` holds until a sign-out overtakes: at most one
  call fetches tokens, it carries the cookie as it is, and what it brings is live or being signed out of; once the tab has
  started afresh it holds again. A page's own steps change none of it.
* `TokensSafe`: the session's variables keep their types; no token that the server would renew, or that a call carries or
  brings, is one the server has not issued.
* `PanesSafe`: `PaneInv` says of a load that its requests, at most the last run's, ask for the choices as they are and that an answer on its
  way knows every change the page was told of (`Fresh`); and that without a request the load has failed, waits for
  something, or shows such an answer. `RunWoken` and `RunOthers` are the two sides of every signal: what it wakes asks again, and what it
  does not wake had no reason to. That a change wakes the panes it shows in is a fact of the tables,
  `ChangesReload`, and the hypothesis of the theorem; TLC evaluates it.
* `FormsSafe`: likewise from `FormsAskEnough`, that a form is shown under all its route requires. The rest is not in the tables:
  the account has its permissions for the whole organization or else could fill no form, because no load that fills
  one has ever been answered (`AllowedInv`).

And for `FollowUp` (`FollowUpSpec`), for every set of requests, users, tickets, exceptions and actions:

* `AssigneeSafe`: an assignment lists the open rows before it adds its own, and whatever it has not listed came later; its place in
  the history is after every row there was when it looked (`AssignmentSound`, `Succession`). So the last row to be committed is open
  and its assignee the ticket's, and a row open besides, or later in the history, overlapped it.
* `FollowUpSafe`: behind its lock a change knows the value it will write down as the old one (`ChangeSound`). Closings and
  recoveries take other locks and write the status alone, when it is still OPEN; `Replays` is kept for each column apart.
* `ConversationsSafe`: what is said on a ticket is said by its driver or by somebody whose `support.read` covers its client, an
  internal note never by the driver, and
  an image on it is of the ticket's mission, which is one of the driver's: a request under way has checked the ticket and
  the document it refers to, and a ticket never changes its driver or its mission (`AssignedAssumption`: the tickets at
  the start were so).
* `LinksSafe`: no root cause, action or subcategory refers to a row that is not there, and no category is below itself, although
  two may be created at a time: a request has read the parent before the child is there, and rows are not removed
  (`DecidedAssumption`, `UndertakenAssumption`: what was undertaken before the start had been decided).
* `FollowUpTypes`: every row has the columns of its table.

Only model-checked: the two counterexamples, which need no proof; `EveryDueEscalated`, a liveness property; and, with `Scoring`'s
type invariant, the range of a result's aggregate score, which is what a fold over its missions computes. Liveness and ENABLED, induction over data and what
recursive definitions compute are beyond the prover and will stay with TLC.

A reader of the proofs should know one thing of the notation: where `UNION` or `SUBSET` meets another operator of the same
precedence, the modules have parentheses, because TLC and TLAPS read the expression differently without.

## What is not modelled

* The choice of a rule's configuration in an evaluation (abstracted to facts; that one is effective at a time is in
  `Scoring`), dates and thresholds, quantities, texts: no property here tells them apart. Audit rows are modelled
  where a property replays them (contracts, roles, exceptions, actions) and are otherwise left out: they are written in the
  transaction of the change they describe.
* Deadlocks of rows and locks other than the expiries': a cycle of waiting transactions is broken by PostgreSQL, which
  is a `Rollback`.
* Organizations: every query carries the principal's `organizationId`; the models are of one.
* The queue and the order in which the periodic re-evaluation takes missions: which missions a job takes is a query
  bound, and the re-evaluations it starts are those of `OperationalExceptions`, which may repeat at any time.
* The throttle, geography, read models, platform, web shell, shared packages and the schema itself, for the reasons
  `PROJECT.json` gives. Of the console: fields, error banners, paging controls, printing and downloads, several tabs
  and other users' changes.

## Plan

The modules of the plan are written, and every safety property of the runs is proved. What could follow, in order of worth:

1. The liveness of deliveries: a due retry can only be sent by a request, so that a statement worth making needs an account of who
   asks again, which the repository does not give.
2. The range of the aggregate score, should a prover come to do induction over data.
