# A model of multica: scheduling, dispatch, and what the clients are shown

Multica runs coding agents for issues, chats and schedules. A Go server keeps
the work in PostgreSQL; daemons on developers' machines poll it, run agents and
report back; web, desktop and mobile clients watch. This directory models its
two hard parts. On the server several processes share rows of a table: who may
run a scheduled job, how a webhook or a schedule becomes one task and no more,
which daemon gets it, and how the daemon learns that there is a task to get. In
the clients several asynchronous procedures share one session, one cache or one
local process: which token a phone carries, whether its socket comes back and
its lists catch up, whether an optimistic update ends as the server's state, and
whose credentials the desktop's daemon runs with.

Contents: [inventory](#inventory) · [modules](#modules-and-the-code) ·
[runs](#what-the-runs-check) · [bounds](#bounds) · [fairness](#fairness) ·
[proofs](#what-is-proved) · [divergences](#where-code-and-text-disagree) ·
[limits](#what-the-models-leave-out) · [plan](#plan) · [use](#running-it)

Paths below are relative to the repository; `service/` stands for
`server/internal/service/` and so on where no other directory could be meant.

## Inventory

The repository is a monorepo of about 6000 files: the Go server, command line
and daemon under `server/`, the shared TypeScript packages under `packages/`,
the web, desktop and documentation apps and a React Native client under `apps/`.
The protocols between processes live in `server/internal`.

| Component | State it keeps | Operations | What is hard | What makes it correct | Here |
|---|---|---|---|---|---|
| Cron scheduler, `scheduler/` | table `sys_cron_executions` (lock and audit log); per instance the clock reading, plan list and claim of a tick | `Manager.RunOnce`: sweep stale rows, plan, claim by insert / steal / retry, run the handler with a heartbeat, write the verdict | every instance ticks alone; clock readings are old when used; a process dies anywhere; a terminal write arrives after the lease is lost | one handler per plan inside a lease; bounded attempts; success final; nothing due is lost | `CronScheduler`, `PlanLedger` |
| Agent task queue, `service/task.go`, `pkg/db/queries/agent.sql`, `cmd/server/runtime_sweeper.go` | table `agent_task_queue`, its unique index of pending rows, runtime status | enqueue, fallback, cancel, rerun, promote, reclaim, claim, requeue, lease, wait, start, complete, fail, recover orphans, three sweeps | a poll is several statements; lost answers and redelivery; late reports; the link or the daemon gone; retries from four places | one active row per (issue, agent); agent limit; one execution; outcomes final; one retry; nothing in flight for ever | `TaskQueue`, `TaskLedger` |
| Claim path, `service/empty_claim_cache.go`, `daemonws/hub.go`, `daemon/daemon.go` | Redis version and verdict per runtime, hub connections, the poller's slots and wakeup channel | bump, wake, batch claim, mark empty, poller loop, reconnect catch-up | a cached "nothing there" against an insert; hints lost while a socket is down; calls given up on that go on claiming | an announced row is visible; slots never overfilled; no wakeup lost; every row is run | `ClaimPath` |
| Autopilot dispatch, `service/autopilot.go` | `autopilot_run` with unique (trigger, planned_at) and unique delivery | dispatch for a plan / delivery / click, recovery of partial runs, sync from task | a crash between the transactions of one dispatch | one task per occurrence, and at least one if it is recorded as a success | `AutopilotDispatch` |
| Webhook worker, `handler/webhook_delivery_worker.go` | `webhook_delivery` with a lease | claim, defer, retry, complete | a dispatch longer than the lease; ingress, worker and a pause around one delivery | what was accepted is kept; a delivery is settled, within five attempts | `AutopilotDispatch` |
| Claim transport, `daemon/wsrpc.go` | pending calls, connection generation, safety window | WebSocket call, cancel of an unsent frame, HTTP fallback | an answer that may or may not have been produced | no slot claimed for twice, no poller stuck | planned (answers that get lost are in `ClaimPath`) |
| Channel engine, `integrations/channel/engine/` | connection lease per installation; debounce windows | supervise, renew, release; schedule, fire, drain | a renewal that errs; timers against re-arming and shutdown | one connection per installation; each batch fires once | planned |
| Daemon helpers, `daemon/{reconcile,local_directory,auto_update,gc}.go` | broadcast channel, path locks, update barrier | notify, acquire, release, drain | goroutines that outlive their caller | no signal lost, no path shared | planned |
| Realtime delivery, `realtime/`, `events/bus.go` | rooms, duplicate filter, Redis streams | subscribe, publish, replay | the same event by two ways | a subscribed client sees every event | candidate; the end of it that a phone sees is in `RealtimeClient` |
| Mobile session, `apps/mobile/data/auth-store.ts`, `app/_layout.tsx`, `lib/session-renewal.ts` | token in the Keychain, token of the requests, user | launch, login, sign-out, 401, sliding renewal, `setUser` after an edit of the profile | procedures that await between two writes; kills; a late answer about an older session | the three copies agree; a live session ends by its user only; an expired one ends | `SessionStore` |
| Mobile realtime, `apps/mobile/data/realtime/` | socket, timers, AppState, cached list | connect, pause, resume, heartbeat, reconnect, refetch | half-open sockets; the gap between acknowledgement and registration; events during a request | one attempt at a time; foreground is connected; the list catches up | `RealtimeClient` |
| Issue cache, `packages/core/issues/` | bucketed lists with totals, details, marks | optimistic update, success, rollback, event, refetch, reconnect; on the server read, commit, publish | answer and echo in either order; a card beyond the loaded window; old base for a change; a row that is written and announced in two steps | totals and card end as the server's or are refetched | `IssueCache` |
| Desktop daemon manager, `apps/desktop/src/main/daemon-manager.ts` | profile token and its owner, status shown, operation guard | poll, start, stop, restart, sync token, clear, re-authenticate, quit | procedures nothing serialises; a process that outlives the app; steps that fail or are refused; half-written files | nobody runs with another's credentials; what runs is shown | `DesktopDaemon` |
| Mobile queries and mutations, web chat, inbox, projects and members caches | query caches | optimistic writes and event handlers, one file each | like the issue cache, smaller | the same | planned |
| HTTP handlers, authentication, integrations, user interface, command line | relational rows, view state | one request, one transaction | permissions, formats | — | not modelled |

How the modelled ones meet: the cron scheduler, like a webhook worker, calls the
autopilot dispatch, which inserts a row into the task queue (as do users,
comments and chats). Every insert owes a *notice* (bump of the Redis version,
then a hint over the WebSocket). The daemon's poller calls
`ClaimTasksForRuntimes`, which promotes due rows, redelivers stale dispatches,
asks the cache, selects and claims; the daemon runs what it gets and reports;
the sweeper of every server instance fails what nobody will report on any more,
and failing may insert a retry. What the server changes it tells the clients as
frames over their sockets; a client patches what it can be sure of and refetches
the rest, and after a lost socket refetches everything. All requests carry the
session's token, and the desktop hands a token minted in that session to the
local daemon, which is the machine that polls.

The hazards found on the way are listed in `PROJECT.json`, each with its line
and the properties that cover it, or the reason none does.

## Modules and the code

| Module | Models | Lines that matter |
|---|---|---|
| `PlanLedger` | abstract: what a row of `sys_cron_executions` promises | — |
| `CronScheduler` | the Manager loop and its statements | `scheduler/manager.go`, `db_ops.go`, `jobs_autopilot.go` |
| `MCCronScheduler` | instances of it | — |
| `CronSchedulerProofs` | theorems about it | — |
| `TaskLedger` | abstract: what the rows of `agent_task_queue` promise together | — |
| `TaskQueue` | the table, its handlers and sweepers, the daemons | `agent.sql`, `service/task.go`, `runtime_sweeper.go`, `daemon/daemon.go` |
| `MCTaskQueue`, `TaskQueueProofs` | instances and theorems | — |
| `ClaimPath` | cache, notices, claim call, poller | `empty_claim_cache.go`, `service/task.go`, `daemonws/hub.go`, `daemon/daemon.go` |
| `MCClaimPath`, `ClaimPathProofs` | instances and theorems | — |
| `AutopilotDispatch` | one occurrence on its way from webhook, replay or plan to a task | `service/autopilot.go`, `handler/autopilot_webhook.go`, `webhook_delivery.go`, `webhook_delivery_worker.go`, `autopilot.sql`, `webhook_delivery.sql` |
| `MCAutopilotDispatch`, `AutopilotDispatchProofs` | instances and theorems | — |
| `SessionStore` | the mobile session and the procedures that write it | `auth-store.ts`, `_layout.tsx`, `session-renewal.ts`, `secure-storage.ts`, `more/settings/profile.tsx` |
| `MCSessionStore`, `SessionStoreProofs` | instances and theorems | — |
| `RealtimeClient` | the mobile socket, its provider, one query | `ws-client.ts`, `realtime-provider.tsx`, `use-inbox-realtime.ts`, `hub.go` |
| `MCRealtimeClient`, `RealtimeClientProofs` | instances and theorems | — |
| `IssueCache` | one issue in one list and its detail, and the server's update of it | `cache-coordinator.ts`, `cache-helpers.ts`, `surface/membership.ts`, `mutations.ts`, `ws-updaters.ts`, `use-realtime-sync.ts`; `handler/issue.go`, `issue.sql`, `hub.go` |
| `MCIssueCache`, `IssueCacheProofs` | instances and theorems | — |
| `DesktopDaemon` | the daemon in the hands of the desktop app | `daemon-manager.ts`, `daemon-auth-probe.ts`, `daemon-login-sync.ts`, `App.tsx` |
| `MCDesktopDaemon`, `DesktopDaemonProofs` | instances and theorems | — |

In the server's modules one action is one SQL statement, one Redis command or
one step between two of them, in the clients' the code between two awaits; what
a process remembers from one step to the next is a variable, so that it can be
stale. `PROJECT.json` ("map") names the lines each definition stands for.
Operators called `Op_Slip`, each placed in front of `Op`, are that operator with
a plausible mistake; no specification uses them, and the mutants of
`PROJECT.json` substitute them to show that a property notices.

**CronScheduler.** `exec` is the table, keyed by plan time (one job and one
scope; the other jobs of a tick are time that passes). `pc`, `tickNow`, `due`,
`held`, `beating`, `result` are the locals of one Manager: `Tick` takes the one
clock reading of `RunOnce`; `MarkStale` is `sweepStale`; `Plan` computes the
plans of the tick for `latest_only`, `every_plan` or the autopilot hook (`Mode`);
`ClaimInsert`, `ClaimSteal` and `ClaimConflict` are the branches of `tryClaim`;
`Heartbeat`, `HandlerReturns`, `Finish` and `Release` are the handler with its
heartbeat goroutine and its terminal write. `Crash`, `Restart` and the `...Error`
actions are the failures of a process or a round trip: a claim that errs may have
been committed all the same, and then nobody owns the lease it wrote (in
`PlanLedger`: an attempt by `Nobody`). A lease token is a number that grows per
row; the database clock is `now`.

**TaskQueue.** `status` and the columns next to it are the table; a row belongs
to a *lane*, its (issue, agent) pair. `stage` is how far a runtime's poll has got
(`PollPromote`, `PollReclaim`, `PollClaim`), `held` the claims that are committed
and not answered, `copies` what daemons hold and how far each copy has got
(prepare, wait, run, report). `Deliver`, `LoseAnswer` and `Requeue` are the three
ends of a claim; `Start` ... `GiveUp` the daemon's task loop; `Cut`, `Crash`,
`Mend` and `Restart` the link and the daemon (`Restart` includes
recover-orphans); `SweepOffline`, `SweepStale` and `ExpireQueued` the sweeper,
with `orphans` the rows a sweep failed and `HandleFailedTasks` has not reached.
Clocks are steps: `Lapse` is a prepare lease running out, `FireTimePasses` a
`fire_at` coming due. `dispatched_at` is the number of the dispatch. `TaskLedger`
is the same table seen by someone who knows nothing of polls, copies and sweeps:
`Phase` maps queued and deferred rows to "open", the three active statuses to
"held" and the rest to their outcome.

**ClaimPath.** `version` and `verdict` are the two Redis keys of a runtime,
`notices` the calls of `notifyRuntimeMayHaveWork` under way (first `Bump`, then
`Wake`). A claim call goes through `Promote`, `Reclaim`, `CheckHit`/`CheckMiss`
and `ReadVersion` for each runtime, `List`, `Mark`, `ClaimAgent` and `Answer`;
`LoseCall` and `Abandon` are a server that dies and a daemon that gives up while
the server goes on. `poller`, `nudge` and `link` are the batch poller, its
one-place wakeup channel and its socket. `told` is a history variable: the
queued rows whose runtime was bumped since they became queued.

**AutopilotDispatch.** A behaviour follows one occurrence, which comes in by
`entry`: ingress (a webhook), replay or plan. `status`, `attempts`, `lease` and
`live` are the row of its delivery, or of its plan as `PlanLedger` has it;
`runs`, `issues` and `tasks` what has been created for it. A run that is
`anchored` is the one a lookup by delivery id or planned time finds. `me` says
which statement each process is at, with what it has read and decided: the
`Workers`, and `Front`, which is the request's handler or the attempt at the plan
(one process for all attempts: that they do not overlap is assumed here).
`Dispatch` is `dispatchAutopilotRun` in whatever process; `Process` the worker's
way to it and from it, with `Resume`, `Find` and `Repair` for a run that is there
already; `PlanAttempt` the scheduler's, with `LookUp` and `Recover`. `QueryFails`
lets any statement fail, `Crash` any process die between two; `Outcome` ends
tasks and closes issues, with the listeners that end the run, or are lost before
they do. `answer`, `early` and `shared` are history: what the sender was told,
whether the trigger was off before that, and whether a lease was outlived by its
worker.

**SessionStore.** `keychain`, `memory` and `user` are the three copies of the
session; `boot`, `login`, `leaving`, `refused` and `renewal` say between which
two awaits the launch, a login, a sign-out, the 401 handler and the renewal
stand, with the token each carries. `requests` are the tokens of requests in
flight, since a 401 says nothing of which session it is about; `ProfileSaved` is
the answer to one that edits the profile, whose user `setUser` puts into the
store. `Kill` may come anywhere and keeps the Keychain. `late` records that a
procedure has written over a session it did not set out with.

**RealtimeClient.** `TokenRead` connects, or returns early without a token (the
provider is then "bare"). `sock` is the socket as the client sees it and `peer`
what the server holds for it: a half-open socket is one whose `peer` is "none".
`wire` carries the acknowledgement and the versions announced. `provider`, `app`,
`net` and `seen` are the provider and the phone's signals, `timer` and `waiting`
the reconnect timer and the pong that is due, `cached`, `stale`, `fetch` and
`answer` the query. The list is its version. `missed` records a change nobody
told this cache of.

**IssueCache.** On the server an update is three steps: `Read` (what the handler
calls `prevIssue`), `CommitOwn` or `CommitOther`, and `Publish`, which sends what
is `pending` in any order: the event to a registered socket, the answer to the
client that asked. A socket is open once it is acknowledged, when `Reconnect`
refetches, and hears events after `Register` only. `list` is one card and the
totals of the buckets, `window` the buckets that have loaded it, `filter` which
list it is. `Apply` is the rules table (`ApplyToCard`, `ApplyToTotals`), used by
`Mutate`, `Succeed` and `OnIssueUpdated`; `Fail` puts the snapshots back. `wire`
is delivered in an order in which only events keep theirs; what a cancelled or
restarted request leaves of it is `Kept`. `crossed` and `misled` are history,
until the next reconnect reads everything again: two updates, an update and a
reading, or an event and a registration have met, and an event's flags left out
an unassignment.

**DesktopDaemon.** `daemon` is the process, with the owner of the token it has
loaded; `config` and `sidecar` the profile's token and the user id beside it;
`polls`, `ops` and `procs` what is under way of `pollOnce`, of start, stop and
restart, and of the renderer's procedures (login, logout, re-authentication).
Nothing in the code keeps those apart - the effect in `App.tsx` is not cancelled
and the IPC handlers run side by side - so any may begin while others wait:
`Commence` takes a free slot, `Proceed` and `Return` move one procedure on,
`Passes` changes the session under all of them. `Filing` is a procedure that has
files to write yet. `lapses` records where the code goes on although credentials
are left: "overlap" (the session changed under a filing procedure), "token"
(none could be minted), "daemon" (a stop failed or was refused, or a quit or a
second procedure came between).

## What the runs check

| Run | Instance | Properties | Shows |
|---|---|---|---|
| `cron_every_plan` | 2 runners, 4 plans, cap and window 2, 2 attempts, 1 crash, 1 database error; 2.46 M states | `TypeOK` `LeaseExclusive` `LeaseCoversRun` `NoGap` `VerdictRecorded` `ImplementsLedger` | leases exclude handlers, a verdict given in time is kept, the table implements `PlanLedger`; until a database call fails no plan inside the window is skipped |
| `cron_live` | 2 runners, autopilot hook, 1 crash, fair; 0.59 M | `AbandonedLeaseClosed` `NewestPlanSettles` | an orphaned lease is closed, the newest occurrence ends |
| `queue_claims` | 2 rows, 2 dispatches each; 1.65 M | `TypeOK` `WithinCapacity` `LaneExclusive` `OneExecution` `DeliveredIsNotQueued` `ImplementsLedger` | lanes and limits are kept; redelivery and rollback never make a second execution; the table implements `TaskLedger` (outcomes stay, one retry in the same lane) |
| `queue_live` | 1 request and its retries (3 rows, one of them dispatched twice), fair; 0.13 M | `RetriedOnce` `InFlightSettles` | one retry per failure; everything in flight is settled, through lost answers, a redelivery and a rollback |
| `queue_promote` | small | `PromotionNeverConflicts` | the divergence below |
| `claim_races` | 2 rows, 2 slots, 2 calls, 1 fault; 4.0 M | `ToldIsVisible` `ClaimsFitSlots` `NotifiedIsServed` | no verdict hides an announced row, slots are kept, no wakeup is lost |
| `claim_live` | 1 row, 2 runtimes here and 1 elsewhere, 2 faults, fair; 0.39 M | `QueuedIsDone` `ImplementsLedger` | whatever is lost, a row queued on this machine is run; the path implements `TaskLedger` (no redelivery, sweep or rollback revives what is done) |
| `autopilot_once` | ingress, replay or plan with 2 workers, 2 dispatches, 2 attempts, 2 faults (1 for a replay), fair; 0.86 M | `OneTask` `DoneHasWork` `AcceptedIsKept` `PlanKeepsLedger` `DeliverySettles` | an occurrence becomes one task; what is settled as dispatched has its work; an accepted event is not dropped; every delivery is settled; a plan's row makes no step `PlanLedger` does not have |
| `session_kept` | 2 accounts, 2 tokens each, 1 kill, fair; 1.30 M | `TypeOK` `InStep` `SessionKept` `ExpiredSessionEnds` | the copies of the session agree at rest, a live one is lost by a sign-out only, a dead one ends |
| `realtime_mirror` | 2 changes, 3 faults, 2 visits, fair; 0.27 M | `OneAttempt` `CaughtUp` `Reconnects` | socket or timer and never both; the list catches up with what it was not told; the client is connected in the end |
| `issue_mirror` | 1 update and 2 changes by others of which two are begun, 1 lost socket, every list and window, fair; 2.31 M | `TypeOK` `ListMirrors` `DetailMirrors` `Converges` | totals, card and detail end as the server's in whatever order answer, echo, events and refetches arrive, but for the named crossings and misleading events, which a reconnect mends |
| `desktop_sessions` | 2 users, 1 poll, 2 procedures at once, 2 events (sessions, buttons, faults), fair; 3.69 M | `TokenIsOwners` `OwnDaemon` `RunningIsShown` | whatever procedures run side by side, no token and no daemon of an earlier session is left but after the named lapses; a daemon that runs is shown as running |

The properties are stated where the source makes or implies the promise, and
each passing one is broken by a mutant of a mapped definition under the same
configuration. What is proved and adds nothing to a run is not repeated there:
`LeaseInv`, `TerminalIsFinal` (part of `ImplementsLedger`), `RenewalIsNoLogin`,
`ForegroundIsActive` and the type invariants of `ClaimPath`, `AutopilotDispatch`,
`RealtimeClient` and `DesktopDaemon` are theorems only. The planner `every_plan`
is the one of the three that keeps more than the newest plan, which is why the
safety run has it; no job registered today uses it. The task-usage rollup uses
`latest_only` (`jobs_task_usage.go:41`), which the theorems cover, as they hold
for every `Mode`; the autopilot job's hook has the live run.

*What the history variables exempt.* The properties of the clients and three of
the dispatch hold except where the code itself gives up, and each exemption is
one variable that names the moments: `late` (a procedure wrote over a session it
did not set out with), `missed` (a change before the first acknowledgement,
between acknowledgement and registration, or between two visits within
`staleTime`), `crossed` (a handler read the issue before another update was
committed; an uncommitted update met another writer or a detail being read;
announcements overtook each other or were overtaken by a reading; an event fell
between acknowledgement and registration; a failed update had been committed or
disturbed), `misled` (an event's flags left out an unassignment the list is
filtered by), `lapses` (above), `shared` (a worker claimed while another was at
the delivery) and `early` (the trigger was off before the sender had its answer).
The properties therefore say that the models know no *other* ways; the ways there
are stand under [divergences](#where-code-and-text-disagree).

## Bounds

*Cron.* Two runners: every conflict over a row is between two of them, and a
third adds only another loser of the same compare-and-swap. Two attempts (first
and last), `RunTimeout` 1 < `StaleTimeout` 2, and a horizon that lets a lease
expire, be swept, back off and be retried. `cron_every_plan` has four plans, one
of them recorded before the start, so that the cap, the window and a cursor that
moved meanwhile all bite. One crash and one failed round trip at a time of TLC's
choosing; `NoGap` speaks of the states before the latter (`dbErrors = 0`).

*Queue.* `MaxRoots` counts rows made by users, `MaxClaims` dispatches of each row
(a row redelivered twice repeats the first redelivery). Two rows suffice for a
property about pairs; capacity 1 for the limit, 2 for the lane so that the limit
does not mask it; three rows for a chain up to the deferred third attempt. In
`queue_live` one of the three (`FirstTwice`) may be dispatched twice, so that
lost answers, redelivery and the rollback of a claim happen on the way, and
`LastIsLast` keeps `t3` for last, as rows are interchangeable and symmetry is
unsound for liveness.

*Claim path.* Two rows of one agent with room for both, two slots, and two calls
so that an abandoned one overlaps its successor; `MaxFaults` failures of Redis,
a statement, a call or a server. A wakeup missed between the upgrade answer and
the hub's registration counts as a fault but is not bounded. Versions need no
bound: a row is bumped a bounded number of times. `ImplementsLedger` stands with
the smaller instance of `claim_live`, where a row can already be swept while an
answer holds it; it was checked on the instance of `claim_races` too.

*Autopilot.* Two workers: one that has outlived its lease and one that takes
over, or one next to ingress. Two dispatches and two attempts (first and last)
instead of `webhookWorkerMaxAttempts` five and the job's own limit, so that the
last one is reached within the faults. `MaxFaults` two counts crashes, failed
statements, lost listeners, outlived leases and switches of the trigger
together: a crash, and one more while the retry repairs it. A replay has
`MaxReplayFaults` one: its handler and the workers dispatch at once without
knowing of each other, so that more runs, issues and tasks come about than in
the other entries and every fault multiplies them.

*Session.* Two accounts with two tokens each: a login as another user, a renewal
within one session and a stale answer about an earlier one; one kill, which can
fall between any two writes. *Realtime.* Three versions (one cached, one read by
a request in flight, one announced), three faults (a silent loss, a failed dial
and a failed request together), two visits. *Issue cache.* Two buckets, which
are alike, so the issue begins in `First`. At most two updates are begun, this
client's and another's or two of others (`Bound`), and their readings, commits,
announcements, answers and refetches fall around each other in every order;
after a crossing only what becomes of it when the socket is lost is followed
(`Mending`): until then the list is known to be wrong and more of the same
teaches nothing. *Desktop.* Two users, two procedures at once and two events in
all: a login and the logout, switch, repeated sync or re-authentication that
runs beside it, or either with a button, quit, crash, revoked token or failed
call, at any moment. The launch costs no event. Of each kind of operation on
the daemon one is under way: a second restart or auto-start waits for the first,
where the code starts it at once.

The proofs remove the bounds on users, tokens, polls, procedures, updates and
events for the properties they cover, but not that on operations of one kind.

## Fairness

*Cron* (`FairSpec`): the clock goes on; every step of a live Manager is weakly
fair, as `Run` is a ticker loop, `RunTimeout` cancels the handler's context and
the process supervisor restarts a dead process. Heartbeats and failures have none.

*Queue* (`LiveSpec`): leases run out and the sweeper runs every 30 seconds
(`Lapse`, `SweepStale`, `ExpireQueued`, `SweepOffline`); preparation and agent
runs are bounded by timeouts (`Progress`); terminal reports are repeated with
backoff, so a report that is possible again and again gets through (strong
fairness of `Report`). Polls need no fairness: a queued row nobody polls for
expires. What the bound `MaxClaims` stands for here is an assumption: every
redelivery writes `dispatched_at` anew (`agent.sql:744-746`), so a row whose
answers are lost for ever is redelivered for ever, and no sweep may fail it.
`InFlightSettles` is about rows of which only finitely many answers are lost.
`SweepOffline` being fair assumes that the server does not die every single time
between `MarkRuntimesOfflineByIDs` and `FailTasksForOfflineRuntimes`; after one
such crash its rows wait until the runtime is listed again.

*Claim path* (`LiveSpec`): notices and calls run on (each is a goroutine on a
live server; the death of one is `LoseNotice` or `LoseCall`, bounded), the
poller loop goes on (`PollInterval` is its fallback), an accepted socket is
registered, runs end, the sweeper sweeps, and a verdict expires with its TTL.
Nothing is assumed of the socket: it may stay down for ever. The TTL is what
repairs a bump that failed, so `Expire_Never` breaks `QueuedIsDone`.

*Autopilot* (`LiveSpec`): a worker goes on with what it has claimed and polls
(`runLoop` looks at the queue every second, and the process supervisor restarts
a dead server); a deferral cannot be the answer for ever, because the trigger's
budget refills (strong fairness of `Load`); a lease runs out with the clock.
An attempt at a plan has none, and `DeliverySettles` says nothing of plans: the
scheduler passes over a failed one in backoff when a newer is due and asks for
none of a disabled trigger. Neither the request's handler nor users, agents or
switches have any: a delivery
whose handler died right after storing it is the workers' to settle.

*Session* (`LiveSpec`): what a procedure awaits is answered in the end (launch,
login, sign-out, 401, renewal), the screens keep asking (`Request`), and a
request with a dead token that is sent again and again is once answered 401
(strong fairness). Nothing says that a renewal is granted.

*Realtime*: a dialled socket opens or fails, frames arrive, timers fire, the
server acknowledges, registers or refuses, and the Keychain answers
(`TokenRead`). The network, AppState and the user have no fairness: `Reconnects`
assumes that they stay put.

*Issue cache* (`LiveSpec`): something of what is under way goes on (`Progress`:
a handler that has this client's request, an announcement, a request, a message,
the dialling and registration of a socket). One weak fairness for all of them is
enough, as each can be done finitely often. `Fail`, `Drop` and the updates of
others have none.

*Desktop* (`LiveSpec`): the interval keeps polling and a poll that was answered
is gone on with. Nothing else is assumed; `RunningIsShown` speaks of a daemon
that is left alone.

## What is proved

Eight modules hold theorems; TLAPS checks them for any number of instances,
plans, rows, agents, runtimes and calls and for any values of the bounds, from
the named assumptions on constants only (finite sets, `None` outside them,
`RunTimeout < StaleTimeout` as `JobSpec.validate` demands, and the like). The
invariants the proofs rest on were first checked by TLC.

**CronSchedulerProofs.** `TypeCorrect` first. The inductive invariant
`LeaseIInv` behind the lease theorems has three more parts. `LeaseInv`: a busy
runner owns its row, which then expires exactly when the runner believes it
does, or its lease has run out. `TickBehind`: no clock reading is ahead of the
clock, so an expiry judged by an old reading is a real one. `TokensDistinct`: no
two claims on a row carry one token. `LeaseExclusive` alone is not inductive: it
says nothing of a runner whose row was taken, nor of readings that are too old.
From `LeaseIInv` follow `LeaseFences`, `LeaseIsExclusive`, `LeaseCoversFreshRun`
and `VerdictsAreRecorded`. `NoPlanIsSkipped` (`NoGap`) adds `InTurn`: what is
left of a runner's tick leaves out no open plan older than one it still holds,
where a plan is open while it is inside the window, newer than the history and
without a row. `NoGap` alone is not inductive: it speaks of the rows and not of
the lists the next claims are taken from. `SchedulerImplementsLedger` maps the
owner of a row to the runner whose claim carries its token, or to nobody when the
answer to the claim was lost (`LostClaim`), and each step to a step of
`PlanLedger` or a stutter.

**TaskQueueProofs.** `OutcomesAreFinal`, `LanesAreExclusive` and `CapacityIsKept`
rest on typing and a lemma on the *life of a row* (`RowStep`, `RowNext`): in one
step a row changes its status only along one of a fixed list of edges, and only
the claim makes a row active, under the lane's and the agent's guards.
`ExecutedOnce` is inductive with typing. `RollbackIsFenced` needs `DispatchInv`:
a row never dispatched has claim number 0, the numbers in `held` and in `copies`
are at most their row's, no dispatch is both held and delivered, and a row whose
latest dispatch is still held is not queued either. `DeliveredIsNotQueued` by
itself is not inductive, since delivering a held claim could break it.
`FailuresAreRetriedOnce` uses `RetryInv`: what awaits `HandleFailedTasks` is
failed and has no child yet, and a row not inserted has no parent.
`QueueImplementsLedger` maps every action to a step of `TaskLedger` or a stutter:
inserts to `Request`, a claim to `HandOut` (the claim query's guard is the
lane's), a rollback to `GiveBack`, whatever settles rows - a report, a sweep, a
cancelled lane, the fallbacks a start calls off - to one `Close`, and both ways
to a child, with its failure or after it, to `Retry`. The last needs `RetryInv`:
that the parent has no child yet and that its attempts end below the ledger's
`MaxTries`.

**ClaimPathProofs.** `AnnouncedRowsAreVisible`: the invariant adds to
`ToldIsVisible` that neither a verdict nor a version a call has read exceeds the
version, and that a call about to write a verdict for a runtime with an
announced row holds an *older* version - reading before the `SELECT` is what
gives the last part (`CacheInv`). `SlotsAreNotOverfilled` (`SlotsInv`): the
quota of the call the daemon waits for fits beside the rows it holds, which only
that call's answer can increase; a call's answer keeps within its quota and
consists of dispatched rows nobody holds; and the answers of all calls are
disjoint, because a row is claimed once and redelivered only when it is in no
answer. `AnnouncedRowsAreServed` (`NotifiedIsServed`) builds on both. `Served`:
as long as nothing has failed, an announced row of a waiting agent - one of this
machine that could run a row and runs none - has something `Coming`: a token in
the channel, a notice that has not returned, a socket whose dialling will nudge,
a slot whose release will, a poller about to claim, or a call under way that
`Reaches` the row's agent, because its runtime still has no verdict, or because
its answer will be full and is followed by another call. That a cached verdict
cannot take the runtime out of the call is `ToldIsVisible`; that a full answer
is no more than full is `SlotsInv`. `PathImplementsLedger`: the rows of
`ClaimPath`, which leaves out what `TaskQueue` says of lanes and retries, follow
the same `TaskLedger`. Every step but one is guarded by the row's own status;
`FinalizeFails` is not, and gives back a row that is still handed out only
because of `Answers` in `SlotsInv`: what is in an answer is dispatched, held by
nobody and in no other answer.

**AutopilotDispatchProofs.** Every theorem rests on `TypeOK` and `Places`: which
steps a worker, a request and a plan's attempt can be at, by how the occurrence
came in. `AcceptedDeliveriesAreKept` adds `Kept`: an accepted delivery has its
run, and while nothing was switched off before the answer the trigger is on,
every worker that has read it has read it on, and nobody is about to write
"ignored". `AcceptedIsKept` alone knows nothing of a worker on its way to that
verdict. `OneTaskPerRun` and `DispatchedHasWork` share one invariant, `WorkInv`,
since neither property survives a step by itself: that a second task is not
inserted depends on what the process read some statements earlier. Its parts:
`Rows` (a task belongs to a run, a run's issue exists, a webhook has one run, a
completed run has an issue or a task), `Owns` and `InMode` (a process works on a
run of its own kind of dispatch), `Once` (one task per run, for that run's
issue), `Alone` (no two workers at the delivery), `Holds` (what each step takes
for granted: before an enqueue or an insert the run has no task, and what the
process enqueues for is that run's issue) and `Accounts` (a verdict "dispatched"
is carried only when it is accounted for); the last four unless `shared`.
`PlanImplementsLedger`: the plan's row, as this module moves it, makes no step
that `PlanLedger` does not have. `CronScheduler` implements the same ledger, which
ties the two accounts of a row together; that attempts do not overlap does not
follow from it and is an assumption here (see the limits). Its invariant `PlanInv`
says that the attempt under way owns the row, is one of `MaxAttempts`, and has a
verdict whenever it is about to write one. For workers the theorems hold for any
number of them and of attempts and faults; the plan's exemptions stand in
`DoneHasWork` itself.

**SessionStoreProofs.** `CopiesStayInStep` needs more than `InStep`, which says
nothing while a procedure is halfway: `Shape` (what each point of the launch has
and has not written yet, and that no request is out before it is over) and,
until something was `late`, `Together` (request token and Keychain agree unless
a named procedure stands between the two writes; a signed-in user owns the
Keychain's token; the launch asks with a token of the same owner; nobody signs
in over a user). `LiveSessionIsKept` rests on `Genuine`: every token in the
Keychain, in a renewal or in the launch is one the server has issued, so that a
fresh token is no older one, and a refused launch holds a dead one.
`RenewalBeginsNoSession` follows action by action from typing, with `Carried`: a
renewal's new token has the old one's owner.

**RealtimeClientProofs.** `Agree` strengthens `OneAttempt` and
`ForegroundIsActive` by what the callbacks assume of each other (a socket still
dialling has no peer, frames need an acknowledgement, only an open socket awaits
a pong) and is inductive. For `ListCatchesUp` the invariant `Kept` says that,
unless a change was `missed`, the list is `Known` - cached, or read by the
request in flight, at the server's version, or marked - or a refetch is `Owed`
by a reconnect that has not been acknowledged or by a frame that has not
arrived.

**DesktopDaemonProofs.** `TokensAreTheUsers` and `DaemonsAreTheUsers` hold for
any number of procedures running side by side. `Owned` is `TypeOK` with five
parts. `Dead`: an app that does not run has nothing under way. `Shape`: what a
procedure has found out it has forgotten when it is over. `About`, until the
session changes under a filing procedure: every procedure is about the session
there is, and one that will write has seen the mark of another user that is left.
`Tokens`, unless minting failed or that happened: a token of someone else's on
disk is marked with an id that is not the session's (`Marked`), so that the next
sync neither reuses it nor forgets that the user has changed, and whatever of
the two files is not the session's yet has a procedure on its way to it
(`Owed`). `Daemons`, without lapses: a daemon with another owner than the session
always has something coming that stops it - a stop under way, a logout not yet
through, a sync that will find the stale mark or has found it, or, with the app
gone, the mark itself. The last is why a quit between any two writes of one
session does no harm. `OwnDaemon` and `TokenIsOwners` speak of states at rest and
are not inductive.

**IssueCacheProofs.** `ListEndsAsServer` and `DetailEndsAsServer` hold for any
buckets, lists, windows and numbers of updates. First the rules table by itself:
`ApplyMirrors` shows that a list which mirrors an issue before a change mirrors
it after, or is marked to be read again, provided the flags name what changed
and the base is the issue before or unknown. The invariant then has to keep that
proviso through every order of delivery. `ListMirrors` speaks of an empty wire
only, so it is not inductive; `Tracks` speaks of all the client still has to
hear, `Ahead`: what is on the wire and, behind it, what the server has committed
and not yet sent. Publishing the first of the latter leaves it as it is; a commit
adds to its end; a reading that finds something unsent is a crossing. For a
connected client with nothing crossed there is a `Chain`: one issue `st[i]` at
each place, changed by events alone, shown by every event, list and detail that
follows, and at the last place the server's; an event's flags name what it
changed (`Tells`) unless the list is misled. `Answers`: the answer to an update
shows it too, or what it spoils is read again behind it. List and detail mirror
`st[0]`, the issue where the wire begins, or are read again (`ListFollows`,
`DetailFollows`); a marked update counts as read again once its answer arrives
(`Marked`). `Judged`: no detail waits behind an event, so the base an event is
judged against is never newer than the event. While an update is sent, nothing
else is under way, and both its snapshot and what it shows mirror (`Shown`),
which is why the rollback may put the snapshot back. `Wired` says what cannot be
on its way: events on a socket that is not registered, and answers older than
the request that is due. A delivered message takes a place, a request that
starts over takes several out (`ChainKept`, over the ranks by which `Kept` is
defined). `FlagsTell` is the one place where it matters that `UpdateIssue`
compares with what it read, and with what `null` leaves out.

Model-checked only: all liveness: `AbandonedLeaseClosed`, `NewestPlanSettles`,
`InFlightSettles`, `QueuedIsDone`, `DeliverySettles`, `ExpiredSessionEnds`,
`Reconnects`, `Converges`, `RunningIsShown`. Liveness under fairness, `ENABLED`,
and what recursive definitions compute are outside what this prover does; no
module declares a recursive operator.

## Where code and text disagree

One is a run in which TLC finds the text violated by the code as it stands:

* `queue_promote` - `agent.sql:539-542` says a due row is promoted by the next
  poll; the promotion violates the unique index of pending rows, and every poll
  of the runtime fails at its first statement until the follow-up is gone.

Seen while modelling the server, with no run of their own:

* `jobs_autopilot.go:254-256` wants no `FAILED` occurrence with attempts left to
  be passed over; the hook does pass over one whose backoff is still running when
  a newer occurrence is due. `NewestPlanSettles` is about the newest only.
* `spec.go:131-132` lets one think that a handler inside its `RunTimeout` keeps
  its lease; claims are stamped with the clock reading of the start of the tick
  (`manager.go:186`), so after a long earlier handler a lease is born expired.
  `LeaseCoversRun` states what does hold.
* `handler/daemon.go:4076-4082` says repeated reports land; the retry child's
  insert (`task.go:4102`) hits the unique index when a follow-up is queued, and
  takes the recorded failure down with it each time.
* `spec.go:154-156` says an empty backoff slice disables retry; `retryDelay`
  returns 0 for it, which makes a failed row retryable at once.
* `spec.go:144-147` says a stale row without `AllowStaleReentry` needs manual
  repair; the sweep (`db_ops.go:131`) leaves `next_retry_at` as it is, and the
  retry branch takes the row like any other failed one.
* The comment of `HandleFailedTasks` counts `FailTask` among its callers; it is
  not one.
* A batch claim takes at most one row of each agent (`task.go:3344-3354`), and
  a poller with slots left then sleeps for `PollInterval`
  (`daemon.go:4790-4797`): the agent's next rows wait that long although agent
  and machine have room. `NotifiedIsServed` therefore promises only that an
  agent with announced work runs *something*.

Seen while modelling the dispatch; the exempting variable is in brackets:

* A replay stores its delivery as `queued`, claimable at once, and dispatches it
  in the handler without the delivery's id (`webhook_delivery.go:286-327`). A
  worker that claims it meanwhile dispatches it too: two runs, each with a task,
  where `autopilots.mdx:125` speaks of "a new delivery and run". `OneTask` counts
  the tasks of one run there.
* `autopilot.go:328-334` says that two attempts at one plan cannot produce two
  successful runs. When a `run_only` attempt dies between the insert of its task
  and the link, the next gives the run up (`autopilot.go:400`) and creates
  another with a task of its own; both tasks run, and the listener completes the
  given-up run from its task. Only deliveries look for the task first.
* When an attempt at a plan dies between the commit of issue and run and the
  enqueue, the next finds the run complete and records a success without a task;
  and as a failed run is complete too, so does the attempt that follows a failed
  dispatch. `DoneHasWork` names both; deliveries have a repair for the first.
* The worker's comment (`webhook_delivery_worker.go:168-171`) calls an admission
  durable once the sender has its answer [`early`]. A worker that looked for the
  run before ingress inserted it, with the trigger switched off before the
  answer, still drops the accepted delivery as ignored.
* `webhook_delivery.sql:68-70` calls the unique index the final protection
  against duplicates when a lease is outlived [`shared`]. It keeps the run
  single; both workers may create an issue and a task for it.
* No update of a run looks at the status it replaces: a link that comes after the
  listener's verdict sets a completed run back to running, and an enqueue that
  runs into a queued task marks a run failed whose task is at work.

Seen while modelling the clients; the exempting variable is in brackets:

* Mobile session [`late`]: a renewal that was granted before a sign-out stores
  its token after it (`session-renewal.ts:62`), so that the next launch is signed
  in again; an edit of the profile that is answered after a sign-out, a 401 or
  another login puts its user back into the store (`profile.tsx:66,82-86`,
  `auth-store.ts:78`), so that the screens show an account whose token is gone; a
  401 to a request of the old session, or to a renewal without a token, signs the
  next one out (`_layout.tsx:77`). `_layout.tsx:101-104` says that a renewal must
  not race `getMe`; a touch during the launch makes one that does. The sign-out
  of the settings screen does not clear the query cache as the 401 handler does.
* Mobile realtime [`missed`]: `hub.go` acknowledges a client before it registers
  it, and what changes between the two is announced to nobody and refetched by
  nobody, although the comment at `onReconnect` counts the acknowledgement as the
  moment from which events come. A link lost in silence between the auth frame
  and its acknowledgement is never noticed, for the heartbeat starts with the
  acknowledgement. `ws-client.ts:251-253` says that a fresh token reaches the
  client by a remount; a session renewed in place leaves the client with the old
  token until then. `use-issues-realtime.ts:63` invalidates the list alone.
* Issue cache [`misled`]: an update that unassigns by an explicit `null` is
  published with `assignee_changed: false` (`issue.go:3098-3099`), although
  `ws-updaters.ts:173-175` calls the flags authoritative and takes the `false`
  (183-184); a list of that assignee keeps the card and counts it until the next
  reconnect.
* Issue cache [`crossed`]: `UpdateIssue` reads the issue, commits and publishes
  in three steps (`issue.go:2879,3082,3119`). Two updates may be announced in the
  reverse of the order they were committed in; one that does not name the
  assignee writes back the one it has read (2904-2913), undoing another; its
  flags compare with what it has read. The hub acknowledges a web client before
  it registers it too, and the client refetches at the acknowledgement
  (`packages/core/api/ws-client.ts:91-100,182-196`, `hub.go:835-869`): a change
  between that reading and the registration is announced to nobody. Of two
  updates of this client that overlap, or one that meets another client's, the
  second moves a total the first has moved already and leaves it wrong until a
  refetch; `onMutate`'s cancelled requests drop the refetch of a reconnect; a
  rollback also undoes what events brought since.
* Desktop daemon [`lapses`: "overlap"]: nothing serialises the procedures of the
  renderer. A logout or a switch of the account while `syncToken` awaits
  `mintPat` (`daemon-manager.ts:674`) clears token and mark and stops the daemon;
  then the sync writes the token and the id of the earlier user (684-687), and
  auto-start runs a daemon with them, for nobody or for another user.
* Desktop daemon [`lapses`]: `App.tsx:348-350` promises that a login as another
  user never inherits the daemon's credentials. Beside the overlap it can when
  the stop of a logout is refused because a button's operation is under way, when
  a stop fails (the state is set to stopped all the same) or the command line
  gives up waiting for it, when the app quits between the write of the token and
  the restart, when a re-authentication drops the mark of the last user under a
  sync, or when no token could be minted for the new user (then the old one stays
  on disk too). `before-quit` (`daemon-manager.ts:1242-1261`) calls
  `preventDefault` after an await, when the event has passed, so an automatic
  stop may not get through.

## What the models leave out

*Cron:* other jobs and scopes (time in a tick), result payloads, metrics, a
failing `dbNow`. `NoGap` holds only without database errors: under `every_plan`
a claim that errs is skipped for good once a newer plan of the tick is claimed.

*Queue:* the lanes of chat sessions and quick-creates, deferred channel-media
tasks, comment plans and receipts, sessions, the issue-status rollback and
agent-status reconciliation, deletion of runtimes and rows, priorities (a claim
takes any row it may). `InFlightSettles` is checked with finitely many dispatches
of a row (see [fairness](#fairness)) and with `LossyReports` FALSE: the daemon
drops a terminal report after six attempts and leaves the row running on purpose
(`daemon.go:5424-5432`). A deferred row whose runtime never polls again stays
deferred. A retry is lost if the server dies between a sweep and
`HandleFailedTasks` (`ServerCrash`).

*Claim path:* the list at the head of `ClaimPath`. Its rows have an issue each;
lanes are `TaskQueue`'s matter. Rows moved by `mergeLegacyRuntime` get neither
bump nor hint and wait for the TTL. A row is not redelivered as long as a call
has it in its answer: the code keeps the two apart by a time window and a lease
(`task.go:165-170`, `agent.sql:776-777`), which this module, having no clock,
takes to be long enough; `TaskQueue` redelivers held claims at any time.

*Autopilot:* the manual trigger, resends (a delivery recognised by its key), an
error that ends a request before its delivery is stored, signatures and event
filters (a rejected delivery is never queued), delays (what is queued may be
claimed, and a lease may run out, at any time), the trigger's budget (a claim may
be deferred at any time), who may invoke an agent and squads (ready or not, as
TLC chooses), the failure monitor's pause (`Switch`), subscribers and
attribution. Attempts at one plan that overlap (a handler that has outlived its
lease next to the attempt that took over) and an issue that is reopened after it
was set aside. Occurrences meet in one place only, the guard against issues of the
same title, which finds one or not as TLC chooses (`Duplicate`). Tasks are queued
or ended; what is between is `TaskQueue`'s.

*Session:* a Keychain that fails, several accounts at once, deep links; time (a
touch may ask at any time). What the server does is modelled from what the client
makes of its answers. *Realtime:* one query of the many; back-off delays
(a timer that is set may fire). A refetch that fails leaves its mark.

*Issue cache:* one issue and one list; flat and table windows, children, inbox
rows, projects, sorting, creates, deletes and batches; refetches that fail. The
model begins with a registered socket: what is lost around the first connection,
at which nothing is refetched, is not in it. Of the writers of an issue there is
`UpdateIssue` alone, and it always announces what it has committed: a server that
dies between the two is left out, and a request it refuses is one that has
changed nothing.

*Desktop:* setting up the command line, versions (a restart for one is made at
will), daemons of another system, more than one renderer window, file writes that
fail; of the command line itself only the outcome. A daemon that is told to stop
is silent at once and counts as gone, although its process goes on with the tasks
in flight, and its old token, for up to 30 seconds (`daemon.go:4648-4662`). A
token is told by its owner, so that a fresh one and a revoked one of the same
user are the same token, accepted again. A user whom a late answer puts back into
the store, as on the phone, would be a `Login` here.

## Not modelled

The repository's implementation is for the most part user interface (screens,
components, editors, landing pages, translations), request and response schemas
and API wrappers of a few lines each. These compute a view from one input, or
send one request: there is no order, failure or sharing in them for a model to
vary, and what they promise is layout and wording. The share of the code the map
covers is therefore small and will stay so; the models cover where the state of
several processes or procedures meets. The adapters to outside services and the
HTTP handlers are one transaction per request.

See also the components in `PROJECT.json` with status
`not_modelled`, each with its reason; those that do have state worth a model are
in the plan.

## Plan

Written so far, in this order: `CronScheduler` with `PlanLedger` (the lease
everything periodic depends on), `TaskQueue` (the state every client sees),
`ClaimPath` (how the two ends meet), then the clients: `SessionStore`,
`RealtimeClient`, `IssueCache`, `DesktopDaemon`, then `AutopilotDispatch` in
front of the queue, `TaskLedger`, and the proofs of all of them.

What is left, most important first:

1. The mobile mutations (`apps/mobile/data/mutations/`) on top of the cache of
   `RealtimeClient`, with creates and deletes, and those of `IssueCache`.
2. `ClaimTransport`: the cancelable frame, connection generations and safety
   window of `daemon/wsrpc.go`, implementing the lost-or-answered call that
   `ClaimPath` assumes.
3. `ChannelLease` and `PendingBatcher`: the supervisor's lease with renewals that
   err; windows, re-arming and drain.
4. Issue status: the rollback of `HandleFailedTasks` against users and retries.
5. `LocalPathLock` and `ReconcileSignal` of the daemon.

Every safety invariant and action property of the runs that pass is a theorem.
Worth proving next: a ledger of occurrences that `AutopilotDispatch` implements
for deliveries, as it implements `PlanLedger` for plans.

## Running it

    tlc -workers 2 -config CronEveryPlan.cfg MCCronScheduler.tla
    tlapm CronSchedulerProofs.tla

The configuration of each run is named in `PROJECT.json`; none takes more than
three minutes on two cores. `CHECK_DEADLOCK FALSE` appears where a model may
stop: the cron clock ends at `Horizon`; a user of `issue_mirror` who has made
every change, and everything has arrived, is at rest; so are a desktop app that
has quit after the last event and an occurrence whose delivery is settled, whose
tasks have ended and whose issues are closed. The runs of the queue, of the
claim path, of the session and of the mobile socket check for deadlock.
