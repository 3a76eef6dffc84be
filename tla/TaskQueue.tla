----------------------------- MODULE TaskQueue -----------------------------
(***************************************************************************)
(* The agent task queue: the table agent_task_queue, the HTTP handlers and *)
(* sweepers that move its rows, and the daemons that claim and run them.   *)
(*                                                                         *)
(* A row belongs to a LANE, the (issue, agent) pair the claim query        *)
(* serializes on and the unique index of pending rows covers.  A daemon    *)
(* polls for the rows of its RUNTIME.  A poll is three statements in a     *)
(* row - promote due deferred rows, redeliver stale dispatches, claim -    *)
(* and between any two of them other requests run, so `stage' keeps how    *)
(* far each poll has got.  A claim commits before its answer is built      *)
(* (`held'), and the answer may be lost; what arrives at a daemon is a     *)
(* COPY of the task, and one row may have several copies.                  *)
(*                                                                         *)
(* Abstracted: priorities and creation times (a claim picks any row it may *)
(* take), clocks (a deadline passing is a step of its own), the comment    *)
(* plan and receipts, sessions, the empty-claim cache, wakeups and events; *)
(* the lanes of chat sessions and quick-creates, which have no such index. *)
(*                                                                         *)
(* An operator named Op_Slip, placed just before Op, is a variant of Op    *)
(* with one plausible mistake; no specification uses it.                   *)
(***************************************************************************)
EXTENDS Naturals, FiniteSets

CONSTANTS
    Tasks,           \* row identities
    Lanes,           \* serialization keys
    Agents, AgentOf, \* the agent of each lane
    Cap,             \* agent -> max_concurrent_tasks
    Runtimes,        \* daemons, one per runtime row
    Reasons,         \* failure classes a run may end with
    ColumnBudget,    \* default of the column max_attempts
    NetworkAttempts, \* providerNetworkMaxAttempts
    LossyReports,    \* may terminal reports and orphan recovery be lost?
    MaxRoots,        \* bound: rows created by users
    MaxClaims,       \* bound: dispatches of each row
    None

FailureClasses == {"infra", "network", "fatal"}

ASSUME RowsAssumption == IsFiniteSet(Tasks) /\ None \notin Tasks
ASSUME LanesAssumption ==
    None \notin Lanes /\ AgentOf \in [Lanes -> Agents] /\ Cap \in [Agents -> Nat]
ASSUME RuntimesAssumption == None \notin Runtimes
ASSUME BudgetAssumption == ColumnBudget \in Nat /\ NetworkAttempts \in Nat
ASSUME ReasonsAssumption == Reasons \subseteq FailureClasses
ASSUME BoundsAssumption ==
    LossyReports \in BOOLEAN /\ MaxRoots \in Nat /\ MaxClaims \in [Tasks -> Nat]

VARIABLES
    status,     \* task -> status column; "free" for a row not inserted yet
    lane, home, attempt, budget, retryOf, escalates,
                \* task -> columns fixed by the INSERT: (issue, agent),
                \* runtime_id, attempt, max_attempts, retry_of_task_id,
                \* escalation_for_task_id
    reason,     \* task -> failure_reason, None until the row fails
    due,        \* task -> has fire_at passed?
    claim,      \* task -> how often the row was dispatched; while the row is
                \* dispatched this number stands for dispatched_at
    lapsed,     \* task -> prepare lease over and recovery window past?
    held,       \* claims a handler has committed but not answered
    copies,     \* what the daemons hold: a delivered claim and its progress
    orphans,    \* rows a sweep failed and HandleFailedTasks has not reached
    stage,      \* runtime -> next statement of its poll
    daemon      \* runtime -> "up", "cut" (alive, unreachable), "dead"

planned  == <<lane, home, attempt, budget, retryOf, escalates>>
columns  == <<planned, status, reason, due, claim, lapsed>>
vars     == <<columns, held, copies, orphans, stage, daemon>>

Active   == {"dispatched", "running", "waiting"}
Terminal == {"completed", "failed", "cancelled"}
Statuses == {"free", "queued", "deferred"} \cup Active \cup Terminal

Claims == [task : Tasks, claim : Nat]
Copies == [task : Tasks, claim : Nat,
           at : {"prepare", "run", "complete", "fail"}, why : FailureClasses]

Free == {t \in Tasks : status[t] = "free"}
Of(r, S) == {t \in Tasks : home[t] = r /\ status[t] \in S}

\* The rows idx_one_pending_task_per_issue_agent_v2 covers for a lane.
Pending(l) == {t \in Tasks : lane[t] = l /\ status[t] \in {"queued", "dispatched"}}

\* CountRunningTasks: the rows that use up an agent's capacity.
Busy(a) == {t \in Tasks : /\ status[t] \in Active
                          /\ lane[t] \in Lanes /\ AgentOf[lane[t]] = a}

HasRoom_WaiterIsIdle(a) == Cardinality({t \in Busy(a) : status[t] # "waiting"}) < Cap[a]

HasRoom(a) == Cardinality(Busy(a)) < Cap[a]

-----------------------------------------------------------------------------
(* Retry policy.                                                           *)

\* retryAttemptCeiling: a budget of one is never raised.
Ceiling(why, b) ==
    IF b > 1 /\ why = "network" /\ b < NetworkAttempts THEN NetworkAttempts ELSE b

\* retryEligible, with retryableReasons split in two classes.
RetryEligible(t, why) ==
    why \in {"infra", "network"} /\ attempt[t] < Ceiling(why, budget[t])

\* retryDelayForAttempt: only the network class's last attempt waits.
Delayed(t, why) == why = "network" /\ attempt[t] + 1 >= NetworkAttempts

-----------------------------------------------------------------------------
(* Writing rows.                                                           *)

\* The columns an INSERT sets on the unused row t.
Insert(t, l, r, a, b, parent, primary) ==
    /\ lane'      = [lane EXCEPT ![t] = l]
    /\ home'      = [home EXCEPT ![t] = r]
    /\ attempt'   = [attempt EXCEPT ![t] = a]
    /\ budget'    = [budget EXCEPT ![t] = b]
    /\ retryOf'   = [retryOf EXCEPT ![t] = parent]
    /\ escalates' = [escalates EXCEPT ![t] = primary]

InsertChild_NoRuntime(n, t, why) ==
    /\ n \in Free
    /\ Delayed(t, why) \/ Pending(lane[t]) \subseteq {t}
    /\ Insert(n, lane[t], None, attempt[t] + 1, Ceiling(why, budget[t]), t, None)

\* CreateRetryTask: the child n of the failed row t.  A queued child needs the
\* lane's pending slot; a deferred one is outside the unique index.
InsertChild(n, t, why) ==
    /\ n \in Free
    /\ Delayed(t, why) \/ Pending(lane[t]) \subseteq {t}
    /\ Insert(n, lane[t], home[t], attempt[t] + 1, Ceiling(why, budget[t]), t, None)

ChildStatus(t, why) == IF Delayed(t, why) THEN "deferred" ELSE "queued"

\* A bulk UPDATE that fails the rows S; HandleFailedTasks gets what it returns.
FailRows(S, why) ==
    /\ status'  = [t \in Tasks |-> IF t \in S THEN "failed" ELSE status[t]]
    /\ reason'  = [t \in Tasks |-> IF t \in S THEN why ELSE reason[t]]
    /\ lapsed'  = [t \in Tasks |-> t \notin S /\ lapsed[t]]
    /\ orphans' = orphans \cup S

-----------------------------------------------------------------------------
(* Requests of users and other parts of the server.                        *)

\* EnqueueTaskForIssue and its siblings.  The callers' HasPending checks and
\* the unique index refuse the same rows.
Enqueue(t, l, r) ==
    /\ t \in Free
    /\ Cardinality({u \in Tasks : status[u] # "free" /\ retryOf[u] = None}) < MaxRoots
    /\ Pending(l) = {}
    /\ Insert(t, l, r, 1, ColumnBudget, None, None)
    /\ status' = [status EXCEPT ![t] = "queued"]
    /\ UNCHANGED <<reason, due, claim, lapsed, held, copies, orphans, stage, daemon>>

\* EnqueueDeferredAssigneeFallback: the assignee is woken later, unless the
\* agent of the primary row p starts first.
EnqueueFallback(t, l, r, p) ==
    /\ t \in Free
    /\ Cardinality({u \in Tasks : status[u] # "free" /\ retryOf[u] = None}) < MaxRoots
    /\ status[p] # "free" /\ lane[p] # l /\ escalates[p] = None /\ retryOf[p] = None
    /\ \A u \in Tasks : escalates[u] # p
    /\ Insert(t, l, r, 1, ColumnBudget, None, p)
    /\ status' = [status EXCEPT ![t] = "deferred"]
    /\ UNCHANGED <<reason, due, claim, lapsed, held, copies, orphans, stage, daemon>>

\* CancelTask, and the server's own cancellations of one row.
Cancel(t) ==
    /\ status[t] \in {"queued", "deferred"} \cup Active
    /\ status' = [status EXCEPT ![t] = "cancelled"]
    /\ lapsed' = [lapsed EXCEPT ![t] = FALSE]
    /\ UNCHANGED <<planned, reason, due, claim, held, copies, orphans, stage, daemon>>

\* CancelAgentTasksByIssueAndAgent, the first half of a manual rerun; the other
\* half is Enqueue, and other requests run in between.
CancelLane(l) ==
    LET S == {t \in Tasks : lane[t] = l /\ status[t] \in {"queued", "deferred"} \cup Active}
    IN  /\ S # {}
        /\ status' = [t \in Tasks |-> IF t \in S THEN "cancelled" ELSE status[t]]
        /\ lapsed' = [t \in Tasks |-> t \notin S /\ lapsed[t]]
        /\ UNCHANGED <<planned, reason, due, claim, held, copies, orphans, stage, daemon>>

-----------------------------------------------------------------------------
(* The claim poll of a runtime.                                            *)

\* fire_at passes.
FireTimePasses(t) ==
    /\ status[t] = "deferred" /\ ~due[t]
    /\ due' = [due EXCEPT ![t] = TRUE]
    /\ UNCHANGED <<planned, status, reason, claim, lapsed, held, copies, orphans, stage, daemon>>

DueRows(r) == {t \in Of(r, {"deferred"}) : due[t]}

\* The one UPDATE that promotes all due rows of r would break the unique index.
PromotionConflicts(r) ==
    \E t \in DueRows(r) :
        Pending(lane[t]) # {} \/ \E u \in DueRows(r) : u # t /\ lane[u] = lane[t]

\* PromoteDueDeferredTasksForRuntime.  On a conflict the request fails here: it
\* changes nothing and the daemon polls again.
PollPromote(r) ==
    /\ daemon[r] = "up" /\ stage[r] = "idle"
    /\ ~PromotionConflicts(r)
    /\ status' = [t \in Tasks |-> IF t \in DueRows(r) THEN "queued" ELSE status[t]]
    /\ stage' = [stage EXCEPT ![r] = "reclaim"]
    /\ UNCHANGED <<planned, reason, due, claim, lapsed, held, copies, orphans, daemon>>

Reclaimable(r) == {t \in Of(r, {"dispatched"}) : lapsed[t] /\ claim[t] < MaxClaims[t]}

\* ReclaimStaleDispatchedTaskForRuntime: redeliver a dispatch nobody started.
\* A batch poll goes on; the poll of one runtime ends with the first (PollDone).
PollReclaim(r, t) ==
    /\ stage[r] = "reclaim"
    /\ t \in Reclaimable(r)
    /\ claim'  = [claim EXCEPT ![t] = @ + 1]
    /\ lapsed' = [lapsed EXCEPT ![t] = FALSE]
    /\ held'   = held \cup {[task |-> t, claim |-> claim[t] + 1]}
    /\ UNCHANGED <<planned, status, reason, due, copies, orphans, stage, daemon>>

PollNothingToReclaim(r) ==
    /\ stage[r] = "reclaim" /\ Reclaimable(r) = {}
    /\ stage' = [stage EXCEPT ![r] = "claim"]
    /\ UNCHANGED <<columns, held, copies, orphans, daemon>>

Claimable_IgnoresWaiter(t) ==
    /\ status[t] = "queued"
    /\ \A u \in Tasks : lane[u] = lane[t] => status[u] \notin {"dispatched", "running"}

\* The rows ClaimAgentTask may pick.
Claimable(t) ==
    /\ status[t] = "queued"
    /\ \A u \in Tasks : lane[u] = lane[t] => status[u] \notin Active

\* ClaimTask for the agent of a candidate c of runtime r: under the agent's row
\* lock, capacity and then any row of that agent the claim query accepts - which
\* may live on another runtime.  Such a row stays dispatched with no answer.
PollClaim(r, c, t) ==
    /\ stage[r] = "claim"
    /\ c \in Of(r, {"queued"})
    /\ Claimable(t) /\ claim[t] < MaxClaims[t]
    /\ AgentOf[lane[t]] = AgentOf[lane[c]]
    /\ HasRoom(AgentOf[lane[t]])
    /\ status' = [status EXCEPT ![t] = "dispatched"]
    /\ claim'  = [claim EXCEPT ![t] = @ + 1]
    /\ lapsed' = [lapsed EXCEPT ![t] = FALSE]
    /\ held' = IF home[t] = r THEN held \cup {[task |-> t, claim |-> claim[t] + 1]} ELSE held
    /\ UNCHANGED <<planned, reason, due, copies, orphans, stage, daemon>>

\* The poll has what it came for, or a statement failed, or no agent is left.
PollDone(r) ==
    /\ stage[r] # "idle"
    /\ stage' = [stage EXCEPT ![r] = "idle"]
    /\ UNCHANGED <<columns, held, copies, orphans, daemon>>

-----------------------------------------------------------------------------
(* Answering a claim.                                                      *)

\* FinalizeTaskClaim succeeds and the response arrives.
Deliver(c) ==
    /\ c \in held /\ daemon[home[c.task]] = "up"
    /\ held' = held \ {c}
    /\ copies' = copies \cup {[task |-> c.task, claim |-> c.claim, at |-> "prepare", why |-> "fatal"]}
    /\ UNCHANGED <<columns, orphans, stage, daemon>>

\* The response is lost.
LoseAnswer(c) ==
    /\ c \in held
    /\ held' = held \ {c}
    /\ UNCHANGED <<columns, copies, orphans, stage, daemon>>

Requeue_AnyClaim(c) ==
    /\ c \in held
    /\ held' = held \ {c}
    /\ status[c.task] = "dispatched"
    /\ status' = [status EXCEPT ![c.task] = "queued"]
    /\ lapsed' = [lapsed EXCEPT ![c.task] = FALSE]
    /\ UNCHANGED <<planned, reason, due, claim, copies, orphans, stage, daemon>>

\* FinalizeTaskClaim fails: RequeueTaskAfterClaimFailure gives back exactly this
\* dispatch.  When the row has moved on the CAS misses, which is LoseAnswer.
Requeue(c) ==
    /\ c \in held
    /\ held' = held \ {c}
    /\ status[c.task] = "dispatched" /\ claim[c.task] = c.claim
    /\ status' = [status EXCEPT ![c.task] = "queued"]
    /\ lapsed' = [lapsed EXCEPT ![c.task] = FALSE]
    /\ UNCHANGED <<planned, reason, due, claim, copies, orphans, stage, daemon>>

-----------------------------------------------------------------------------
(* The daemon's side of a delivered task.  Every call needs the link.       *)

At(c, s) == c \in copies /\ c.at = s
Reach(c) == daemon[home[c.task]] = "up"
Becomes(c, d) == copies' = (copies \ {c}) \cup {d}
Reporting(c, why) == [c EXCEPT !.at = "fail", !.why = why]

Lapse_FirstClaim(t) ==
    /\ status[t] = "dispatched" /\ ~lapsed[t] /\ claim[t] = 1
    /\ lapsed' = [lapsed EXCEPT ![t] = TRUE]
    /\ UNCHANGED <<planned, status, reason, due, claim, held, copies, orphans, stage, daemon>>

\* The prepare lease runs out and the claim recovery window passes.
Lapse(t) ==
    /\ status[t] = "dispatched" /\ ~lapsed[t]
    /\ lapsed' = [lapsed EXCEPT ![t] = TRUE]
    /\ UNCHANGED <<planned, status, reason, due, claim, held, copies, orphans, stage, daemon>>

\* ExtendTaskPrepareLease: any live copy keeps the row from being redelivered.
Extend(c) ==
    /\ At(c, "prepare") /\ Reach(c)
    /\ status[c.task] = "dispatched" /\ lapsed[c.task]
    /\ lapsed' = [lapsed EXCEPT ![c.task] = FALSE]
    /\ UNCHANGED <<planned, status, reason, due, claim, held, copies, orphans, stage, daemon>>

\* MarkTaskWaitingLocalDirectory; a refusal is logged and ignored.
Wait(c) ==
    /\ At(c, "prepare") /\ Reach(c)
    /\ status[c.task] = "dispatched"
    /\ status' = [status EXCEPT ![c.task] = "waiting"]
    /\ lapsed' = [lapsed EXCEPT ![c.task] = FALSE]
    /\ UNCHANGED <<planned, reason, due, claim, held, copies, orphans, stage, daemon>>

\* The fallbacks StartTask calls off once the primary row t has started.
Fallbacks(t) ==
    {u \in Tasks : escalates[u] = t /\ status[u] \in {"deferred", "queued", "dispatched", "waiting"}}

StartRow_Replay(t, S) ==
    /\ status[t] \in {"dispatched", "waiting", "running"}
    /\ S \in {{}, Fallbacks(t)}
    /\ status' = [u \in Tasks |-> IF u = t THEN "running" ELSE IF u \in S THEN "cancelled" ELSE status[u]]
    /\ lapsed' = [u \in Tasks |-> u \notin S \cup {t} /\ lapsed[u]]

\* StartTask: any copy may start a row that is dispatched or waiting, whichever
\* claim it came from.  Calling off the fallbacks S is best effort.
StartRow(t, S) ==
    /\ status[t] \in {"dispatched", "waiting"}
    /\ S \in {{}, Fallbacks(t)}
    /\ status' = [u \in Tasks |-> IF u = t THEN "running" ELSE IF u \in S THEN "cancelled" ELSE status[u]]
    /\ lapsed' = [u \in Tasks |-> u \notin S \cup {t} /\ lapsed[u]]

Start(c, S) ==
    /\ At(c, "prepare") /\ Reach(c)
    /\ StartRow(c.task, S)
    /\ Becomes(c, [c EXCEPT !.at = "run"])
    /\ UNCHANGED <<planned, reason, due, claim, held, orphans, stage, daemon>>

\* The row started but the daemon never learns it, and reports a failure.
StartUnanswered(c, S, why) ==
    /\ At(c, "prepare") /\ Reach(c)
    /\ why \in Reasons
    /\ StartRow(c.task, S)
    /\ Becomes(c, Reporting(c, why))
    /\ UNCHANGED <<planned, reason, due, claim, held, orphans, stage, daemon>>

\* StartTask refused, or the preparation failed before it.
PrepareFails(c, why) ==
    /\ At(c, "prepare")
    /\ why \in Reasons
    /\ Becomes(c, Reporting(c, why))
    /\ UNCHANGED <<columns, held, orphans, stage, daemon>>

AgentSucceeds(c) ==
    /\ At(c, "run")
    /\ Becomes(c, [c EXCEPT !.at = "complete"])
    /\ UNCHANGED <<columns, held, orphans, stage, daemon>>

AgentFails(c, why) ==
    /\ At(c, "run")
    /\ why \in Reasons
    /\ Becomes(c, Reporting(c, why))
    /\ UNCHANGED <<columns, held, orphans, stage, daemon>>

\* watchTaskCancellation and the final check: the row is over, drop the copy.
Interrupt(c) ==
    /\ c \in copies /\ c.at # "fail" /\ Reach(c)
    /\ status[c.task] \in Terminal
    /\ copies' = copies \ {c}
    /\ UNCHANGED <<columns, held, orphans, stage, daemon>>

\* CompleteTask: only a running row completes; anything else is taken as
\* already finalized.
ReportComplete(c) ==
    /\ At(c, "complete") /\ Reach(c)
    /\ copies' = copies \ {c}
    /\ status' = IF status[c.task] = "running"
                 THEN [status EXCEPT ![c.task] = "completed"] ELSE status
    /\ UNCHANGED <<planned, reason, due, claim, lapsed, held, orphans, stage, daemon>>

\* FailTask of a row that is already over.
ReportTooLate(c) ==
    /\ At(c, "fail") /\ Reach(c)
    /\ status[c.task] \notin Active
    /\ copies' = copies \ {c}
    /\ UNCHANGED <<columns, held, orphans, stage, daemon>>

ReportFail_AnyStatus(c) ==
    /\ At(c, "fail") /\ Reach(c)
    /\ status[c.task] # "free" /\ ~RetryEligible(c.task, c.why)
    /\ copies' = copies \ {c}
    /\ status' = [status EXCEPT ![c.task] = "failed"]
    /\ reason' = [reason EXCEPT ![c.task] = c.why]
    /\ lapsed' = [lapsed EXCEPT ![c.task] = FALSE]
    /\ UNCHANGED <<planned, due, claim, held, orphans, stage, daemon>>

\* FailTask without a retry.
ReportFail(c) ==
    /\ At(c, "fail") /\ Reach(c)
    /\ status[c.task] \in Active /\ ~RetryEligible(c.task, c.why)
    /\ copies' = copies \ {c}
    /\ status' = [status EXCEPT ![c.task] = "failed"]
    /\ reason' = [reason EXCEPT ![c.task] = c.why]
    /\ lapsed' = [lapsed EXCEPT ![c.task] = FALSE]
    /\ UNCHANGED <<planned, due, claim, held, orphans, stage, daemon>>

ReportFailAndRetry_AlsoHandled(c, n) ==
    /\ At(c, "fail") /\ Reach(c)
    /\ status[c.task] \in Active /\ RetryEligible(c.task, c.why)
    /\ InsertChild(n, c.task, c.why)
    /\ copies' = copies \ {c}
    /\ status' = [status EXCEPT ![c.task] = "failed", ![n] = ChildStatus(c.task, c.why)]
    /\ reason' = [reason EXCEPT ![c.task] = c.why]
    /\ lapsed' = [lapsed EXCEPT ![c.task] = FALSE]
    /\ orphans' = orphans \cup {c.task}
    /\ UNCHANGED <<due, claim, held, stage, daemon>>

\* FailTask with a retry: the failure and the child n in one transaction.
ReportFailAndRetry(c, n) ==
    /\ At(c, "fail") /\ Reach(c)
    /\ status[c.task] \in Active /\ RetryEligible(c.task, c.why)
    /\ InsertChild(n, c.task, c.why)
    /\ copies' = copies \ {c}
    /\ status' = [status EXCEPT ![c.task] = "failed", ![n] = ChildStatus(c.task, c.why)]
    /\ reason' = [reason EXCEPT ![c.task] = c.why]
    /\ lapsed' = [lapsed EXCEPT ![c.task] = FALSE]
    /\ UNCHANGED <<due, claim, held, orphans, stage, daemon>>

\* The retry child does not fit, so the whole transaction of FailTask is rolled
\* back and the daemon is told to try again.
RollsBack(c) ==
    /\ At(c, "fail") /\ status[c.task] \in Active /\ RetryEligible(c.task, c.why)
    /\ ~Delayed(c.task, c.why) /\ ~(Pending(lane[c.task]) \subseteq {c.task})

\* The daemon's six attempts are used up: it drops the report.
GiveUp(c) ==
    /\ LossyReports
    /\ c \in copies /\ c.at \in {"complete", "fail"}
    /\ daemon[home[c.task]] = "cut" \/ RollsBack(c)
    /\ copies' = copies \ {c}
    /\ UNCHANGED <<columns, held, orphans, stage, daemon>>

-----------------------------------------------------------------------------
(* Faults, sweeps and the retry they lead to.                              *)

Cut(r) ==
    /\ daemon[r] = "up"
    /\ daemon' = [daemon EXCEPT ![r] = "cut"]
    /\ UNCHANGED <<columns, held, copies, orphans, stage>>

\* A heartbeat gets through again.  Nothing is recovered: the copies live on.
Mend(r) ==
    /\ daemon[r] = "cut"
    /\ daemon' = [daemon EXCEPT ![r] = "up"]
    /\ UNCHANGED <<columns, held, copies, orphans, stage>>

Crash(r) ==
    /\ daemon[r] # "dead"
    /\ daemon' = [daemon EXCEPT ![r] = "dead"]
    /\ copies' = {c \in copies : home[c.task] # r}
    /\ UNCHANGED <<columns, held, orphans, stage>>

\* The daemon registers again and reports its orphans; that report may be lost.
Restart(r) ==
    /\ daemon[r] = "dead"
    /\ daemon' = [daemon EXCEPT ![r] = "up"]
    /\ \/ FailRows(Of(r, Active), "infra")
       \/ LossyReports /\ UNCHANGED <<status, reason, lapsed, orphans>>
    /\ UNCHANGED <<planned, due, claim, held, copies, stage>>

\* sweepStaleRuntimes: the runtime goes offline and its rows fail.
SweepOffline(r) ==
    /\ daemon[r] # "up" /\ Of(r, Active) # {}
    /\ FailRows(Of(r, Active), "infra")
    /\ UNCHANGED <<planned, due, claim, held, copies, stage, daemon>>

\* FailStaleTasks: no live lease, or running on a runtime without heartbeat.
SweepStale(t) ==
    /\ \/ status[t] = "dispatched" /\ lapsed[t]
       \/ status[t] = "running" /\ daemon[home[t]] # "up"
    /\ FailRows({t}, "infra")
    /\ UNCHANGED <<planned, due, claim, held, copies, stage, daemon>>

\* ExpireStaleQueuedTasks
ExpireQueued(t) ==
    /\ status[t] = "queued"
    /\ FailRows({t}, "fatal")
    /\ UNCHANGED <<planned, due, claim, held, copies, stage, daemon>>

\* HandleFailedTasks reaches t and MaybeRetryFailedTask inserts the child n.
Retry(t, n) ==
    /\ t \in orphans /\ status[t] = "failed"
    /\ RetryEligible(t, reason[t])
    /\ InsertChild(n, t, reason[t])
    /\ status' = [status EXCEPT ![n] = ChildStatus(t, reason[t])]
    /\ orphans' = orphans \ {t}
    /\ UNCHANGED <<reason, due, claim, lapsed, held, copies, stage, daemon>>

\* ... or leaves it failed: not eligible, or the insert was refused.
LeaveFailed(t) ==
    /\ t \in orphans
    /\ \/ ~RetryEligible(t, reason[t])
       \/ ~Delayed(t, reason[t]) /\ Pending(lane[t]) # {}
    /\ orphans' = orphans \ {t}
    /\ UNCHANGED <<columns, held, copies, stage, daemon>>

\* The server restarts: requests and sweeps in progress are gone.
ServerCrash ==
    /\ held # {} \/ orphans # {} \/ \E r \in Runtimes : stage[r] # "idle"
    /\ held' = {} /\ orphans' = {}
    /\ stage' = [r \in Runtimes |-> "idle"]
    /\ UNCHANGED <<columns, copies, daemon>>

-----------------------------------------------------------------------------
Init ==
    /\ status = [t \in Tasks |-> "free"]
    /\ lane = [t \in Tasks |-> None] /\ home = [t \in Tasks |-> None]
    /\ attempt = [t \in Tasks |-> 0] /\ budget = [t \in Tasks |-> 0]
    /\ retryOf = [t \in Tasks |-> None] /\ escalates = [t \in Tasks |-> None]
    /\ reason = [t \in Tasks |-> None]
    /\ due = [t \in Tasks |-> FALSE] /\ lapsed = [t \in Tasks |-> FALSE]
    /\ claim = [t \in Tasks |-> 0]
    /\ held = {} /\ copies = {} /\ orphans = {}
    /\ stage = [r \in Runtimes |-> "idle"]
    /\ daemon = [r \in Runtimes |-> "up"]

Users ==
    \/ \E t \in Tasks, l \in Lanes, r \in Runtimes :
           \/ Enqueue(t, l, r)
           \/ \E p \in Tasks : EnqueueFallback(t, l, r, p)
    \/ \E t \in Tasks : Cancel(t)
    \/ \E l \in Lanes : CancelLane(l)

Poll(r) ==
    \/ PollPromote(r) \/ PollNothingToReclaim(r) \/ PollDone(r)
    \/ \E t \in Tasks : PollReclaim(r, t) \/ \E c \in Tasks : PollClaim(r, c, t)

Answer(c) == Deliver(c) \/ LoseAnswer(c) \/ Requeue(c)

\* The steps that bring a copy closer to its report.
Progress(c) ==
    \/ AgentSucceeds(c)
    \/ \E S \in SUBSET Tasks : Start(c, S)
    \/ \E why \in FailureClasses : PrepareFails(c, why) \/ AgentFails(c, why)

Work(c) ==
    \/ Progress(c) \/ Wait(c) \/ Extend(c) \/ Interrupt(c)
    \/ \E S \in SUBSET Tasks, why \in FailureClasses : StartUnanswered(c, S, why)

Report(c) ==
    \/ ReportComplete(c) \/ ReportTooLate(c) \/ ReportFail(c)
    \/ \E n \in Tasks : ReportFailAndRetry(c, n)

Sweep == \E t \in Tasks : SweepStale(t) \/ ExpireQueued(t)

HandleFailed(t) == LeaveFailed(t) \/ \E n \in Tasks : Retry(t, n)

Clock == \E t \in Tasks : FireTimePasses(t) \/ Lapse(t)

Faults ==
    \/ \E r \in Runtimes : Cut(r) \/ Mend(r) \/ Crash(r) \/ Restart(r) \/ SweepOffline(r)
    \/ ServerCrash
    \/ \E c \in copies : GiveUp(c)

Next ==
    \/ Users \/ Sweep \/ Clock \/ Faults
    \/ \E r \in Runtimes : Poll(r)
    \/ \E c \in held : Answer(c)
    \/ \E c \in copies : Work(c) \/ Report(c)
    \/ \E t \in Tasks : HandleFailed(t)

Spec == Init /\ [][Next]_vars

\* What is going to happen: deadlines pass, the sweeper runs every 30 seconds,
\* a preparation and an agent are each bounded by a timeout, and a report is
\* repeated, so it gets through if the link is up again and again.  Nothing is
\* assumed of the answer to a claim but what MaxClaims says: that it is lost, or
\* the claim rolled back, finitely often.
Fairness ==
    /\ \A t \in Tasks :
        /\ WF_vars(Lapse(t)) /\ WF_vars(SweepStale(t)) /\ WF_vars(ExpireQueued(t))
        /\ WF_vars(\E c \in copies : c.task = t /\ Progress(c))
        /\ SF_vars(\E c \in copies : c.task = t /\ Report(c))
    /\ \A r \in Runtimes : WF_vars(SweepOffline(r))

LiveSpec == Spec /\ Fairness

-----------------------------------------------------------------------------
(* Properties.                                                             *)

\* Every variable has its type.
TypeOK ==
    /\ status \in [Tasks -> Statuses]
    /\ lane \in [Tasks -> Lanes \cup {None}]
    /\ home \in [Tasks -> Runtimes \cup {None}]
    /\ attempt \in [Tasks -> Nat] /\ budget \in [Tasks -> Nat]
    /\ retryOf \in [Tasks -> Tasks \cup {None}]
    /\ escalates \in [Tasks -> Tasks \cup {None}]
    /\ reason \in [Tasks -> FailureClasses \cup {None}]
    /\ due \in [Tasks -> BOOLEAN] /\ lapsed \in [Tasks -> BOOLEAN]
    /\ claim \in [Tasks -> Nat]
    /\ held \subseteq Claims /\ copies \subseteq Copies
    /\ orphans \subseteq Tasks
    /\ stage \in [Runtimes -> {"idle", "reclaim", "claim"}]
    /\ daemon \in [Runtimes -> {"up", "cut", "dead"}]
    /\ \A t \in Tasks : status[t] # "free" => lane[t] \in Lanes /\ home[t] \in Runtimes

\* Per-(issue, agent) serialization: whatever polls, redeliveries, rollbacks
\* and promotions interleave, an agent holds at most one dispatched, running or
\* waiting row of a lane.
LaneExclusive ==
    \A t, u \in Tasks :
        t # u /\ lane[t] = lane[u] => status[t] \notin Active \/ status[u] \notin Active

\* max_concurrent_tasks holds although waiting rows resume without asking and
\* an agent's rows are claimed by the polls of several runtimes.
WithinCapacity == \A a \in Agents : Cardinality(Busy(a)) <= Cap[a]

\* One row is executed at most once at a time, and only while it is running or
\* already over: neither redelivery nor rollback makes a second execution.
OneExecution ==
    /\ \A c \in copies : c.at = "run" => status[c.task] \in {"running"} \cup Terminal
    /\ \A c, d \in copies : c.at = "run" /\ d.at = "run" /\ c.task = d.task => c = d

\* A failed finalization takes back only its own dispatch: a row whose latest
\* dispatch reached a daemon is not queued behind that daemon's back.
DeliveredIsNotQueued ==
    \A c \in copies : claim[c.task] = c.claim => status[c.task] # "queued"

\* A failure is retried at most once, by the report or by a sweep, and a chain
\* of retries ends within the widest attempt ceiling.
RetriedOnce ==
    /\ \A n, m \in Tasks : retryOf[n] = retryOf[m] /\ retryOf[n] # None => n = m
    /\ \A n \in Tasks : retryOf[n] # None => status[retryOf[n]] = "failed"
    /\ \A n \in Tasks : /\ status[n] # "free" => attempt[n] >= 1
                        /\ attempt[n] <= 1 \/ attempt[n] <= budget[n]
                        /\ budget[n] <= ColumnBudget \/ budget[n] <= NetworkAttempts

\* A settled row keeps its outcome: late reports, sweeps, cancellations and
\* promotions never revive or relabel it.
TerminalIsFinal ==
    [][\A t \in Tasks : status[t] \in Terminal => status'[t] = status[t]]_vars

\* Whatever crashes, is cut off, is redelivered or rolled back, a row that is
\* queued, dispatched, waiting or running is settled in the end, provided that
\* terminal reports are not dropped for good and that a row is dispatched
\* finitely often: a redelivery writes dispatched_at anew
\* (ReclaimStaleDispatchedTaskForRuntime), so a row whose answers are all lost
\* is polled again before any sweep may fail it, for ever.
InFlightSettles ==
    \A t \in Tasks : status[t] \in {"queued"} \cup Active ~> status[t] \in Terminal

\* What CreateRetryTask promises of a deferred row: once its time has come, the
\* next poll can flip it to queued.
PromotionNeverConflicts == \A r \in Runtimes : ~PromotionConflicts(r)

-----------------------------------------------------------------------------
(* The queue implements the ledger: deferred rows are open like queued     *)
(* ones, and a row is handed out as long as it holds its lane.             *)

Phase(t) ==
    IF status[t] = "free" THEN "none"
    ELSE IF status[t] \in {"queued", "deferred"} THEN "open"
    ELSE IF status[t] \in Active THEN "held" ELSE status[t]

Ledger == INSTANCE TaskLedger WITH
    Rows <- Tasks,
    MaxTries <- IF NetworkAttempts > ColumnBudget THEN NetworkAttempts ELSE ColumnBudget,
    phase <- [t \in Tasks |-> Phase(t)],
    tries <- attempt,
    parent <- retryOf

\* Every behaviour of polls, redeliveries, rollbacks, reports, sweeps and crashes
\* is one of the ledger: a lane has one row handed out, outcomes stay, a failed
\* row gets one retry in its lane, and a chain of retries is bounded.
ImplementsLedger == Ledger!Spec

=============================================================================
