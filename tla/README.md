# Verification of mini-cicd

mini-cicd is a single-node CI/CD server: a Go process with one SQLite database
(`src/apps/server`) and a React client (`src/apps/web`).  A push, a schedule or a
person creates a *deployment*, a snapshot of a project at a commit; a worker of
the runner claims it, checks the commit out, runs its build and deploy steps as
shell processes and settles it; two outboxes tell the outside world.  These TLA+
modules model what those parts do to each other and to the tables they share, how
a log gets from a step to a browser, and what the pages of the client read, write
and show.  TLC checks them on small instances, and TLAPS proves every safety
property of them for every instance.

Paths below are relative to `src/apps/server/internal/`, those that start with
`docs/` to `src/`, and `App.tsx`, `api.ts` and `main.tsx` are in
`src/apps/web/src/`.

## 1. Inventory

| Component | State | Operations | Hard behaviour | Correct when |
|---|---|---|---|---|
| Deployment service (`deployment/`) | `deployments`, `deployment_steps`, `deployment_approvals`, `project_locks` | create, rollback, approve, reject, cancel, claim, finish | transactions of handlers and workers in any order | one deployment in progress per project; locks agree with rows; settled is final; nothing but a rollback claimed without its approvals |
| Handlers (`server/deployments.go`) | none between requests | create with options, redeploy, rollback, review, cancel | creation and options are two transactions | options are stored before the start; only older deployments are superseded |
| Runner (`runner/`) | workers, contexts, process groups, the wake-up channel | scan, run, runStep, stopAndWait, health check, recover | exit, log failure, cancellation and timeout at once; processes that ignore signals; crashes | steps in order; every run ends; no process under a settled deployment |
| Webhook intake (`server/webhook.go`) | `webhook_deliveries`, one goroutine per push | receive, create, link, recover | repeated deliveries, crash between the two writes | accepted pushes are deployed, once |
| Schedules (`server/schedules.go`) | `deployment_schedules`, one goroutine | pause, resume, delete, run what is due | advance and create are two transactions | a slot runs once at most |
| Notifications (`notification/`) | `notification_deliveries`, one goroutine | trigger, claim, POST, record | lost answers, stop in the middle, several channels | delivered was received; attempts are bounded; nothing is forgotten |
| Commit status (`providerstatus/`) | `commit_status_deliveries`, one goroutine and those of `Wake` | insert, trigger, claim, POST, record, retry | two goroutines on one table | one sender per row; as above |
| Maintenance (`maintenance/`) | files and rows past retention | delete deployments, logs, workspaces, audit; back up | select first, delete later; others refer to the rows | nothing in use disappears |
| Artifacts (`artifact/`, `runner.go`) | files, the `artifact_*` columns | save, prune, restore | pruning against a new rollback | the version of an active rollback stays |
| Log store (`logstore/`) and its stream (`server/deployments.go`) | file, sequence, subscribers, one mutex, one handler per viewer | open, write, publish, subscribe, read back, close; replay and follow | slow subscribers, the size limit, unreadable lines, reconnection | numbered without gap; a page gets each entry once, in order, and in the end all; viewers do not hinder writers |
| Accounts and sessions (`auth/`, `server/server.go`, `server/account.go`) | `users`, `sessions`, the cookie | status, setup, login, logout, check, end a session, change the password | two setups at once; tabs that share a cookie | one owner; whoever is let in gets to the shell |
| Web interface (`App.tsx`, `api.ts`, `main.tsx`) | the query cache, forms, the page, the `EventSource` | read, poll, write and refresh; log in and out; follow a log | answers that are late, lost or cancelled; writes during reads; hidden and left pages | data never goes back; what is written is shown; polling catches up |
| Isolated runner (`runneripc/`) | a mutex, the process of the command | run a command of a client | clients that disconnect while they wait | an abandoned command does not run |
| Pipeline cache (`pipelinecache/`) | directories | restore, save, evict | failure halfway | a hit is a complete entry |
| Backup (`database/backup.go`) | files | back up, restore | crash between two renames | a database is always in place |
| Projects, variables, secrets | rows | sequential handlers | what the editor sends and the decoder takes | an edit is accepted |
| Git, workspace, application, configuration | files or nothing | run programs, parse | – | – |

How they interact: every part reads and writes the one database, which is opened
with a single connection, so each transaction (or single statement) is atomic
and they are totally ordered.  Beside the tables there are three kinds of
messages: the wake-up channel of the runner (one slot, dropped when full, with a
scan every second behind it), the contexts (`CancelByID`, the stops of the
managers) and the processes' exits.  Triggers of the database fill the outboxes
in the transaction that changes a status.  Deleting a deployment cascades to its
steps, reviews, variables and outbox rows, and is refused while a rollback
refers to it.  The client talks to the server by requests of its own and by one
event stream per page of a deployment; it hears of a change only when it asks.

What is hard to test is listed, line by line, under `hazards` in `PROJECT.json`.

## 2. Modules

| Module | What it is |
|---|---|
| `ProjectQueue` | what the queue promises: wait, be worked on, settle; one per project; what was asked to stop is no success; what waits is given up only within its own project, and a restart ends what was in progress and nothing else |
| `AtLeastOnce` | what a table of accepted work promises: it is called kept after each of its targets was served, is given up only after as many attempts as the limit, and is not taken up again unless its owner asks, who gives it all its attempts again |
| `LogFeed` | what the stream of a log promises: at place n a page shows entry n of the log it looks at |
| `Deployments` | the service, the handlers' transactions, the workers' transactions, recovery, retention; implements `ProjectQueue` |
| `Runner` | extends `Deployments` with the runner's control flow, processes and contexts; implements `Deployments` |
| `Outbox` | both outboxes with their managers; implements `AtLeastOnce` |
| `Intake` | webhooks and schedules; its webhooks implement `AtLeastOnce` |
| `LogStream` | the writer of a log, the handler of its stream, and the page that shows it; implements `LogFeed` |
| `Panels` | a panel of the client, its query and its writes, and the resource of the server it shows |
| `Gate` | setup, login, logout and sessions, as the tabs of browsers use them |
| `MCDeployments`, `MCRunner`, `MCOutbox`, `MCIntake`, `MCLogStream`, `MCPanels`, `MCGate` | the sets the configurations choose from, and the symmetry |
| `DeploymentsProofs`, `QueueProofs`, `RunnerProofs`, `OutboxProofs`, `IntakeProofs`, `LogProofs`, `PanelProofs`, `GateProofs` | theorems |

**Deployments.**  `dep[d]` is the row of deployment `d` with its steps and
reviews, `lock[p]` the row of `project_locks`.  Each action is one transaction.
What handlers and workers do in several is several actions: a request that asks
for options is `Create` and then `ApplyOptions` or `LoseOptions`, with
`optionsDue[d]` naming the project such a request is about, also when retention
deletes `d` in between (`cancelPrevious` then still cancels the project's others);
`environment` is what the environment of a row requires, `required` what the row
does, which for a rollback is nothing; a worker is `Claim`, then any statements
of `run()` (`MarkRunning`, `RecordStep`, `SaveArtifact`, `PruneArtifact`), then
`Finish`, with `executing[w]` in between.  `ClaimWithoutReading` and
`FinishFails` are the two failures of a statement that nobody repeats, for the
database or because `Stop` has ended its context between the commit of a claim and
the read behind it (`deployment.go:394-398`), and `faults` counts them; `Restart` is the death
of the process at any point and `recover()` of the next, `RestartWithoutRecovery`
the same when `recover()`'s transaction fails, which `faults` counts too.  Here a worker may end a run with
any outcome at any time; `Runner` says which.

**Runner.**  `job[w]` is where worker `w` is in `run()` and `runStep()`, `proc[d]`
the process group started last for `d`: the shell that leads it, whose exit
`cmd.Wait` awaits, and a child that has given its output away.  `ctx` is what
`ctx.Err()` says; `CancelContext` is both `CancelByID` and the watcher's poll.
The `select` of `runStep` is `WaitFires` and `StopStep`, which may both be
enabled; `stopAndWait` is `Stopped` and `StopUnconfirmed`.  Every error `run()`
returns from a statement of its own, once it has prepared, is `RunFails`.  `Runner` uses the
actions of `Deployments` for every statement, so `ImplementsService`, that its
behaviours are behaviours of `Deployments`, carries every invariant of the latter
over.

**Outbox.**  The two managers run the same loop, so `Drain` is a set: the
notification loop, the commit status loop, and goroutines started by `Wake`.
`Claim` is the transaction of `claim`, `Post` one POST with an independent choice
of whether it arrives and whether a 2xx comes back, `Record` the update of the
row.  The differences are in the code and in the model: the notification manager
sends to every channel and starts over when one fails, and it writes with its own
context, so after a stop its row stays `delivering`; the commit status manager
writes without a context.  `Restart` is the requeueing of both `Start` functions.
`got` counts what the receivers saw.  `PhaseOf` maps a row to its phase in
`AtLeastOnce`, where a target is a channel and is served when it receives a POST: a
goroutine may still send what retention has deleted (`Busy`), and nothing that is
delivered or failed.  Its `tries` are the row's `attempts`, which `Claim` counts, its
`Limit` is the attempt limit, and its `renewals` are the owner's retries, which alone
set the attempts of a failed row back.

**Intake.**  `Receive` is the handler up to its answer, `task[i]` the goroutine
of `startWebhook`, `Start` the recovery in `New`.  `CreateAtCommit` is the commit
of `createResolved`, `LinkDelivery` the separate update of the delivery; a stop
or a crash may come in between.  The errors of these updates are ignored
(`ResultIsLost`), and so are those of the recovery, which misses the rows it does not
read (`Start`); `lost` are the deliveries this process dropped so.  `TakeDue` advances a schedule, `CreateScheduled`
creates its deployment, and any failure in between ends the tick (`EndTick`).
`PhaseOf` maps a delivery to `AtLeastOnce`: its one target is a deployment, and linking
it is keeping the promise; it has no attempts to count, and is never given up.  `made` counts the deployments created for it; that it may
exceed one is `RepeatsAreInterruptions`, and none is created after the link.

**LogStream.**  `writer[d]` is the `Writer` of `d` and the status of its run,
`file[d]` its file.  `WriteEntry` is `WriteStep` up to `publish`, which is an
action of its own (`Publish`) because the writer takes the store's mutex only
there: a viewer may subscribe or read the file in between.  `conn[c]` is one
request: `FindDeployment`, `Subscribe`, `ReadHistory`, then `Forward` until
`LeaveLoop`, then the deferred `Unsubscribe`, whose second close of a dropped
channel panics and leaves the mutex locked (`stuck`).  `FindFails` is the error
answer of a request without a session or a row, `LoopFails` a failed read of the
ticker, which ends the stream.  What the handler has sent
and the page has not received is `wire`.  `source`, `lastId` and `shown` are the
page's `EventSource`, its last event id and the lines; `Connect` is the first
request and every reconnection, `SeeEnd` the end of a response, and an error
status is final.  `OpenPage` mounts the page anew and `FollowLink` does not: the
route of the two deployments is the same.  `LogFeed` has none of this, only the files,
the pages and their lines; it says of `FollowLink` that the old lines stay.

**Panels.**  A behaviour is about one panel, chosen at the start from the panels
of `App.tsx`: how it polls, how often a fetch is retried, and what it does after a
write.  `fetch` is the fetch of its query that counts and `stray` one that a refresh
cancelled.  The library of queries is external and is modelled by what the pages
rely on: a mount and a timer join a fetch that is under way (`Join`), an
invalidation replaces it unless it is the first of its query (`Refresh`), a failed
fetch leaves the data (`ArriveBroken`).  Answers are computed and arrive in two
steps, and so are writes: `Submit`, `Apply` or `Refuse`, then `Acknowledge` or
`Reject`.  The fields of the editor's form are kept as three groups.

**Gate.**  `View` is the component `App`: what a tab shows by the two queries it
holds.  `form` is `AuthForm` with its request, `logout` the button of the shell;
`cookie[b]` is shared by the tabs of browser `b` and replaced by the answers in the
order they arrive.  `Setup` counts and inserts in one transaction.  Sessions end by
`Expire`, `DeleteSession`, `ChangePassword` and `EndSession`.

## 3. What is checked

Every passing run is checked by mutation: for each property one definition is
changed as a plausible bug would change it, and TLC must find the property
violated.

| Run | Instance | Shows |
|---|---|---|
| `dep_queue` | 2 projects, 3 deployments, 2 workers, 1 failed statement, no steps | `OneActivePerProject`, `LocksMatchRows`, `ExecutionIsExclusive`, `NoOrphan`, and the tables implement the abstract queue |
| `dep_rows` | 1 project, 2 deployments, 1 worker, 2 reviewers, thresholds 0–2, 2 priorities, 1 deploy step | `ApprovalGate`, `RollbackSourceKept` |
| `dep_live` | 1 project, 2 deployments, 2 workers, fair, no failed statement | `ApprovedIsTaken`, `CancellingSettles` |
| `run_steps` | 1 deployment, a build and a deploy step, 1 failed statement, fair | `StepsInOrder`, `OnlyFailuresLeaveProcess`, `ImplementsService`, `RunsEnd` |
| `outbox` | 1 deployment, 2 channels, 1 goroutine of `Wake`, 2 attempts, 1 retry, 1 restart, fair | `OneSender`, `PostsArePaid`, `ImplementsPromise`, `EntriesSettle` |
| `intake` | 2 deliveries, 1 schedule with 2 slots, 2 ends of the process, fair | `NoneForgotten`, `RepeatsAreInterruptions`, `SlotsRunOnce`, `ImplementsPromise`, `AcceptedSettles` |
| `log_stream` | 2 logs of 2 bytes, entries of 1 and 2, lines of 1 readable, 1 page with one request at a time, a channel of 1, 2 pages opened or left, connections broken, reads failed or restarts, fair | `Numbered`, `NothingTwice`, `ImplementsFeed`, `PageCatchesUp` |
| `panels` | every panel, 2 writes, 2 changes, 1 failed request, 1 page left, reloaded or hidden, fair | `WritesAreCovered`, `NeverOlder`, `WritesShow`, `PollingCatchesUp` |
| `gate` | 2 tabs of 1 or 2 browsers, 2 sessions, 1 reload or ended session, 1 failed request, fair | one owner (in `GateTypeOK`), `LogoutIsLocal`, `LoginLeadsToShell`, `FormComesBack` |
| `run_tree` (fails) | 1 deployment with a build step | `CancelledTreeIsGone` is violated |
| `log_hang` (fails) | 1 log of 2 bytes, 1 page, a channel of 1, 1 page opened, fair | `LogsEnd` is violated |
| `console_edit` (fails) | 1 write, 1 change | `EditsAreAccepted` is violated |

Most of these runs also check the type invariant of their module; `GateTypeOK`
contains `OneOwner`.  Two more invariants are theorems only: `NoGap`
(`LogProofs`) and `DeliveredWasReceived` (`OutboxProofs`), which are
what `ImplementsFeed` and `ImplementsPromise` say of a state, and these say more.

Bounds.  Two workers and two projects are what the mutual exclusion needs: two
claims of one project, and a claim that must not be hindered by another's.  The
third deployment lets a project have one in progress, one settled and one
waiting, so that a lock may name the wrong one.  Reviews, priorities and rollbacks
relate at most two deployments and do not depend on a second worker, which is why
they are a run of their own.  Two steps of different phases are enough for
`StepsInOrder`, which is about neighbours, and for saving artifacts between the
phases.  One drain of each table and one more on the shared table is the least
number that can collide; the attempt limit is 2 instead of 5 because the
only thing compared with it is a counter.  Deployments do not share outbox rows
except through the order of ids, and one deployment has up to two rows in a table;
`EachAlone` checks the two tables side by side as alternatives because no drain
works on both.  Two ends of the process let a delivery be interrupted, recovered
and interrupted again.  A channel of one entry is full as soon as the handler
is one entry behind, and a limit of two bytes lets a file hold entries, the mark and
an entry after the mark.  The mutual behaviour of two viewers is their channels
only, which `Publish` treats alike, and the mutex; a request that was given up
keeps its connection until its handler has noticed, so a page waits for it in this
instance, while the theorems of `LogProofs` hold for any number of connections.
Two writes of a panel may overlap and overtake each other's answers, and a third
would meet what the second meets.  Two tabs share a cookie or do not, and two
sessions are enough to replace one by another.  `faults`, `retries`, `restarts`, `ends`, `slots`, `moves`, `loads`,
`made`, the changes of a panel's resource and the number of deployments are the
bounded counters; each is a guard with a named
constant.  `CHECK_DEADLOCK FALSE` is set because a bounded system whose
deployments are all used up and settled has nothing left to do.  Symmetry is used
in the runs of `Deployments` without fairness only, over projects, users and
workers, none of which is ordered or singled out.

Fairness.  Workers: weak fairness of `Claim` (the queue is scanned every second,
wake-ups or not) and of `Finish` (`run()` always returns, which `RunsEnd` checks
of the detailed model); in `Runner`, of a worker's own next step, because its
statements return and every wait has a timeout.  One of them may not: a `WriteStep`
after the hang that `log_hang` shows blocks for ever, and its worker with it, so
`RunsEnd`, and `Finish`'s fairness with it, speak of runs that do not meet that hang.  No process is assumed to exit,
nobody to cancel, no stop to come.  Outbox: the loops scan every two seconds and
a POST has a ten second timeout.  Intake: the commands of git end or are ended
by their context, the scheduler scans every 15 seconds, `Close` waits for the
goroutines.  Nobody is assumed to start a server that is down, and a stop counts
as an excuse in `EntriesSettle` and `AcceptedSettles`.  Log: a run publishes what it
has written and ends, handlers have a ticker of 15 seconds, and an `EventSource`
reconnects by itself; nobody has to write a line, or to open or leave a page, and no
read has to fail.  `PageCatchesUp` excepts a page whose stream the server refused,
which is final for an `EventSource`, and a store that hangs: since a dropped channel
ends in that hang as soon as its handler leaves, the property shows that broken
connections, failed reads and restarts lose nothing, and of slow pages only that
their lines are right (`ImplementsFeed`, `NothingTwice`).
`log_hang` is checked under the same fairness, so its counterexample is not a run
that merely stops.  Client: timers fire while their window is visible, and a
request that is not lost is answered; nobody has to open a page, press a button,
write, or show a hidden window again, and a page that is left or hidden is an
excuse in `WritesShow` and `PollingCatchesUp`.  `WritesAreCovered` and `WritesShow` are
about panels that refresh after a write and had their data when it was answered: a
panel that does not refresh owes nothing, and a write during the first load joins it.

## 4. Disagreements

Three are runs that must fail, with the smallest instance that shows them.

- `run_tree`: `docs/requirements.md:367` wants the process tree confirmed gone;
  `stopAndWait` is satisfied with the shell's exit.
- `log_hang`: `docs/requirements.md:858` and `:556` say that a log does not block
  the process it is written by.  `publish` closes the channel of a subscriber that
  is full, the handler's `unsubscribe` closes it again while it holds the mutex, and
  the panic leaves the mutex locked: no log is written, opened or closed any more.
- `console_edit`: `docs/requirements.md:841` lets projects be edited; the editor
  sends back every field of the answer (`App.tsx:42`), and the server refuses those
  that are no input.

Others need one step out of order, or follow from a statement or a constraint
alone, and have no run.

Service and runner.  `cancelPrevious` says "superseded by newer deployment" and
cancels every other queued deployment of the project; its transaction comes after
the insert's, so a slow request cancels deployments newer than its own.  Priority
and parameters (`docs/pipeline-config.md:200-202`) are stored after the deployment
can be claimed, and a worker may start it without them.  `docs/requirements.md:321`
and `:475` release the lock on every way out; after a failed statement in `Claim`'s
read or in `Finish` it stays until the next start.  `:549` fails a deployment whose
log cannot be written; when the exit is selected first, the copy's error is
dropped.  A rollback into a protected environment is inserted as approved with no approvals
required (`deployment.go:153-161`) and is claimed without any, against
`docs/pipeline-config.md:152`: `ApprovalGate` says what remains, that its source is of
the same environment and had passed the gate, or is a rollback itself.  With the single owner that the setup can create,
a threshold of two reviews is never reached (`:157`).  A step may start after the
deployment became cancelling (`docs/requirements.md:369`).  Step rows that were
running stay so after a restart (`:304`), and the lock is released while a process
of the deployment may live on (`:489`).

Intake and outboxes.  `docs/requirements.md:496` and `:508` want one deployment per
event, through recoveries; a process that ends between the deployment's commit and
the update of the delivery deploys it again, and `RepeatsAreInterruptions` says that
this is the only way.  A stop during `git cat-file` or `merge-base` rejects an
accepted push for good, and its redelivery is then a duplicate.  Attempts may exceed
five, once for each end of the process between a claim and its result when the last
attempt was it (`docs/pipeline-config.md:104`, `:180`).  A `queued` commit status in
backoff is posted after the terminal one.

Logs and client.  After the truncation mark an entry that still fits is appended
(`docs/requirements.md:541`, `:556` write the mark last).  A line longer than the
scanner's buffer makes every stream of its log fail for good (`:546`).  A page that
follows the link to another deployment keeps the lines of the first (`:674`).  A
status request that fails leaves no data, and no data shows the setup form
(`App.tsx:16`) of a server that has an owner; `docs/requirements.md:115` shows it
when no user exists.  Whoever logs out with a session that has expired gets an error
that nobody handles and stays in the shell (`StayIn`).  A write that is answered
during the first load of a list joins that load, whose answer may be older, and a
list that does not poll stays stale.  The panel of an application shows the output
of the last action instead of the status it has refreshed.

## 5. What is proved

The theorems hold for every value of the constants that satisfies the named
assumptions: `BoundsAssumption`, `PipelineAssumption` and `ConstantAssumption`
(bounds are naturals, steps are numbered from 1 on, as `deployment.go` numbers
them, `NoProject` is no project, 0 is a priority),
`ArtifactAssumption`, `OutboxAssumption` and `IntakeAssumption` (bounds are
naturals, the goroutines of `Wake` are not the loops), `LogAssumption` (sizes are
positive, the special values are not connections or deployments),
`PanelsAssumption` and `GateAssumption` (bounds are naturals).  TLC evaluates them
in the runs.

| Theorem | Property | Argument |
|---|---|---|
| `DeploymentsProofs!TypeCorrect` | `TypeOK` | inductive |
| `DeploymentsProofs!LocksCorrect` | `LocksMatchRows`, `ExecutionIsExclusive` | with `TypeOK` and `ProjectKnown` the inductive invariant `SafeInv` |
| `DeploymentsProofs!ExclusiveExecution` | `ExecutionIsExclusive` | part of `SafeInv` |
| `DeploymentsProofs!NobodyIsOrphaned` | `NoOrphan` | `Finish` settles exactly what its worker executed, by `SafeInv`; a claim brings its worker with it |
| `DeploymentsProofs!MutualExclusion` | `OneActivePerProject` | follows from `LocksMatchRows`; it is not inductive by itself, because a claim looks at the lock and not at the rows |
| `QueueProofs!QueueRefinement` | `ImplementsQueue` | under `SafeInv` each step maps to a step of the queue or a stutter; `OneActivePerProject` is what `TakeUp`'s guard needs |
| `DeploymentsProofs!ApprovalGateHolds` | `ApprovalGate` | `GateInv`: the threshold and the rejections also of queued rows, since a row's threshold is its environment's unless it is a rollback; one lemma, `StepIsRowChange`, says what any step does to a row, and this theorem and the next rest on it.  The half about rollbacks needs the next: a source that succeeded had been claimed |
| `DeploymentsProofs!RollbackSourceHolds` | `RollbackSourceKept` | `SourceInv`, the source's project and environment with its status: no step changes the status of a row that succeeded except the deletion, which the reference forbids, and none the project or environment of a row |
| `OutboxProofs!OutboxTyped` | `OutboxTypeOK` | inductive |
| `OutboxProofs!SenderIsAlone` | `OneSender` | needs that a row comes into being once (`RowsAreCreated`, `HeldAreCreated`): else retention could delete a row at work and a trigger bring it back for a second goroutine |
| `OutboxProofs!DeliveredIsTrue` | `DeliveredWasReceived` (no run) | needs how far the goroutine that holds a row has got (`PassedReceived`) |
| `OutboxProofs!OutboxKeepsPromise` | `ImplementsPromise` | each step maps to one of `AtLeastOnce` or a stutter, under `PromiseInv`: `ReceiptInv` is what `Keep` needs, `OneSender` says that what is sent is owed or withdrawn, `AttemptsAgree` that a goroutine which gives up has read the row's own count and so has the limit behind it, and `LostArePruned` that a row a goroutine holds and that is gone went with its deployment |
| `OutboxProofs!PostsPaidFor` | `PostsArePaid` | a ledger, `PayInv`: what the limit, the retries and the ends of the process grant covers what was sent, what a row has left, and what a goroutine may still send |
| `RunnerProofs!RunnerTyped` | `RunnerTypeOK` | part of `RunInv` |
| `RunnerProofs!RunnerRefines` | `ImplementsService` | under `RunInv` every step is one of `Deployments` or a stutter |
| `RunnerProofs!OrderHolds` | `StepsInOrder` | `RunInv` says for each place in `run()` and `runStep()` which steps are done, which is at work and which are untouched |
| `RunnerProofs!ProcessesAccounted` | `OnlyFailuresLeaveProcess` | `RunInv` says at which places a shell may be alive |
| `RunnerProofs!RunnerExcludes` | `OneActivePerProject` | of the runner, by the refinement; the other theorems about `Deployments` carry over the same way |
| `RunnerProofs!RunnerIsQueue` | `ImplementsQueue` | of the runner: two refinements in a row |
| `RunnerProofs!RunnerKeepsGate` | `ApprovalGate`, `NoOrphan` | of the runner, by the refinement; rollbacks are excepted as there |
| `RunnerProofs!StraysHaveFailed` | (no run) | of two living shells of one project one belongs to a failed deployment; from `OnlyFailuresLeaveProcess`, `OneActivePerProject` and that a deleted row has no project |
| `IntakeProofs!IntakeTyped` | `IntakeTypeOK` | inductive |
| `IntakeProofs!NothingForgotten` | `NoneForgotten` | a goroutine that ends without linking or rejecting does so only in a process that is closing, or is lost to an ignored error |
| `IntakeProofs!RepeatsBounded` | `RepeatsAreInterruptions` | an account of creations against ends of the process, `Account` |
| `IntakeProofs!IntakeKeepsPromise` | `ImplementsPromise` | `Account` also says that a goroutine about to link has created its deployment, and that what is linked was accepted; no goroutine is left for it (`IntakeInv`) |
| `IntakeProofs!SlotsAtMostOnce` | `SlotsRunOnce` | an account of slots: due, being created, created, `SlotAccount` |
| `LogProofs!LogTyped` | `LogTypeOK` | part of `LogInv` |
| `LogProofs!LogNumbered` | `Numbered` | the writer's sequence is the length of its file |
| `LogProofs!ShownWithoutGap` | `NoGap` (no run) | `LogInv`: what is on the wire and in the channel are chunks of the file, and nothing is missing between what was sent and what will come (`Joined`) unless the channel was dropped |
| `LogProofs!FeedRefinement` | `ImplementsFeed` | under `LogInv` each step maps to one of `LogFeed` or a stutter: a line a page takes is the next of the file it looks at, since the wire continues the last event id, and lines that stayed from another deployment hide the numbers they have: whatever deployment a line is of, its place on the page is its place in that file (`ShownInv`) |
| `LogProofs!SentOnce` | `NothingTwice` | the wire continues the last event id (`SourceInv`) |
| `PanelProofs!PanelsTyped` | `PanelsTypeOK` | inductive |
| `PanelProofs!NeverOlderHolds` | `NeverOlder` | an answer on its way is not older than the data (`AnswerIsNewer`): only one fetch counts |
| `PanelProofs!WritesCovered` | `WritesAreCovered` | `CoverInv`: with `PanelInv`, that a write in flight is not newer than the resource (`WritesAreOld`), that failures are paid for by retries (`RetriesArePaid`) and that what a panel is owed was answered (`OwedIsDone`) |
| `GateProofs!GateTyped` | `GateTypeOK` | inductive |
| `GateProofs!OwnerIsOne` | `OneOwner` | part of `GateTypeOK`: the count and the insert are one step |
| `GateProofs!LogoutStaysLocal` | `LogoutIsLocal` | an action property from `ApartInv`: every session a tab, an answer or a logout knows was made (`KnownAreMade`) and belongs to one browser (`SessionsStayApart`); a new session is one that nobody knows |
| `GateProofs!BrowsersStayApart` | (no run) | `ApartInv` itself: no session is ever known to two browsers |

`RunInv` contains the properties it is to show because they are not inductive alone:
a step that starts is in order only if the worker's place says that those before it
have succeeded, and a report of success leaves no shell only if the place before it
did not.  `LogInv` is needed because a page sees only what comes off the wire:
that it is the next entry depends on the handler having joined its replay to its
channel while the writer went on.  `CoverInv` counts failures: the refresh after a
write survives as long as the query has a retry left, and only the account of retries
against `faults` says when it has.  `ApartInv` is needed because a session is known
not only by cookies but also by the queries, forms and logouts on their way.

Model-checked only: the liveness properties, `ApprovedIsTaken`, `CancellingSettles`,
`RunsEnd`, `EntriesSettle`, `AcceptedSettles`, `PageCatchesUp`, `WritesShow`,
`PollingCatchesUp`, `LoginLeadsToShell` and `FormComesBack` (the prover has no rule for
fairness here).  Every other property of a passing run is a theorem.  The three properties that are expected to fail are refuted by TLC.

## 6. Abstractions

- A commit, a message, a configuration or a command is not modelled; what they
  decide (does a push fit, does a pipeline have build steps, does a step write a
  child that stays) is a choice.
- `queued_at` is the order of insertion, that is of ids.  The code compares
  texts whose trailing zeros are cut.
- Retention in the model may delete any settled deployment; the code keeps the
  newest of each project.  It also removes the logs of deployments settled long ago
  (`maintenance.go:176`, `:243`, `logstore.go:54-61`), which no action of `LogStream`
  does: what its properties say of a settled log they say of the time before that.
- Errors of the database are modelled where they leave something behind that
  nobody repairs (`FinishFails`, `ClaimWithoutReading`, `RestartWithoutRecovery`,
  `ResultIsLost`, `Start`) or end something (`RunFails`, `FindFails`, `LoopFails`).
  The writes of results in `Outbox`, whose errors the code ignores, are assumed to
  succeed unless the context is over, and so are those of step rows.
- A write that the file of a log takes in part (`logstore.go:102-105`) is no change:
  the run fails there, and what the part does to the line after it is not modelled.
- `EndSession` is one step: a logout's session is read (`server.go:352`) and then
  deleted (`server.go:333`).  If it ends in between for another reason, the answer and
  what is left are those of a logout that came just before that end.
- A deleted schedule is one that stays paused.  The clock is not modelled: a
  schedule comes due, a backoff passes and a timeout fires whenever they like.
- The health check and the cache are outcomes of a step of `run()`; the remote
  endpoint is not modelled.
- A line of a log is its number and its size; the limit, the mark and the longest
  readable line are bytes of the same small scale.  Redaction changes no number.
- Panels do not share queries in the model: two panels of one query see the same
  data, and a write of one that refreshes another's is a `Change` to the latter.
  A write that a reload has abandoned and that still reaches the server is a
  `Change` as well.
- The fetching library, the browser and the network are external and modelled from
  how `App.tsx`, `api.ts` and `main.tsx` use them.
- Passwords and tokens are what they decide.  The limit on failed logins is a denial.

### Not modelled

`PROJECT.json` lists every component with its status.  The reasons are of four
kinds.  No state that others race for: parsers and validators, git, secrets, routing,
read-only queries, the layout of the client.  Files whose contents decide, beside
tables that do not know them: the versions an artifact directory holds while
`pruneArtifacts` lists and removes them, a cache entry half copied, a backup between
two renames.  A second process: the isolated runner, which to `Runner` is a process
that starts, ends or does not end; that a command whose client has left still waits
for the mutex is a hazard of its own.  Texts: the order of `queued_at` as RFC 3339
text, and the deployment window.

## 7. What could follow

1. `Artifacts`: pruning in two steps against rollbacks, with the files, on top of
   `Deployments`.
2. `RunnerIPC`: commands of several clients, the mutex, disconnects and timeouts.
3. Restore and the cache: crashes between two renames, partial entries.
4. `QueueOrder` and the deployment window: pure operators against reference
   definitions.
5. A provider's view of commit statuses in `Outbox`.

The modules that are proved about use no RECURSIVE operator; types avoid set
comprehensions, since the prover handles membership in a plain function set best.
