-------------------------- MODULE AutopilotDispatch --------------------------
(***************************************************************************)
(* How one occurrence of an autopilot becomes work: a webhook delivery     *)
(* (the ingress handler, the leased queue and its workers), the replay of  *)
(* a delivery, or a planned time of a schedule, each dispatched as a run   *)
(* that creates an issue with a task, or a task alone                      *)
(* (internal/service/autopilot.go, internal/handler/autopilot_webhook.go,  *)
(* webhook_delivery.go and webhook_delivery_worker.go).                    *)
(*                                                                         *)
(* A behaviour follows one occurrence. Its process Front is the request    *)
(* handler, or the scheduler's handler for a plan. One process stands for  *)
(* all attempts at a plan, and status for the plan's row: an attempt that  *)
(* outlives its lease and meets the next (CronScheduler) is left out. One  *)
(* step of a process is one statement or transaction; reads of a row one   *)
(* right after the other are one step. Delays are left out: what is queued *)
(* may be claimed, and a lease that may have run out may be taken.         *)
(***************************************************************************)
EXTENDS Naturals, Sequences

CONSTANTS
    Workers,        \* the webhook workers of all server processes
    Front,          \* the request handler, or the scheduler's handler
    None,
    MaxDispatches,  \* webhookWorkerMaxAttempts
    MaxAttempts,    \* MaxAttempts of the autopilot job
    MaxFaults,      \* bound: crashes, failed statements, outlived leases and
                    \* switches of the trigger
    MaxReplayFaults \* the same, for a replay

ASSUME DispatchAssumption ==
    /\ Front \notin Workers
    /\ None \notin Workers \cup {Front}
    /\ MaxDispatches \in Nat \ {0} /\ MaxAttempts \in Nat \ {0} /\ MaxFaults \in Nat
    /\ MaxReplayFaults \in Nat

VARIABLES
    entry,     \* how the occurrence comes in: ingress, replay or plan
    mode,      \* execution_mode of the autopilot
    active,    \* is the trigger enabled and its autopilot active
    status,    \* the row of the delivery, or of the plan
    attempts,  \* its dispatch_attempts, or the plan's attempt
    lease,     \* who holds its lease
    live,      \* has that lease not run out
    runs,      \* autopilot_run rows of the occurrence
    issues,    \* the issues created for it: "open" (todo or in_progress) or not
    tasks,     \* agent_task_queue rows created for it
    me,        \* what each process is doing
    answer,    \* what the sender of the webhook was told
    early,     \* was the trigger off before the answer was given (history)
    shared,    \* did a worker claim while another was at the delivery (history)
    faults

row  == <<status, attempts, lease, live>>
work == <<runs, issues, tasks>>
told == <<answer, early, shared>>
vars == <<entry, mode, active, row, work, me, told, faults>>

Bound == IF entry = "replay" THEN MaxReplayFaults ELSE MaxFaults
Faulty == faults < Bound /\ faults' = faults + 1

Procs == Workers \cup {Front}

Doing(s, r, i, o) ==
    [at |-> s, run |-> r, issue |-> i, task |-> 0, on |-> FALSE, out |-> o]

Idle == Doing("idle", 0, 0, "none")

Steps == {"idle", "load", "check", "recover", "persist", "decide", "insert", "find",
          "relink", "issue", "enqueue", "task", "link", "repair", "reenqueue", "skip",
          "fail", "finish"}

RunStates  == {"issue_created", "running", "completed", "failed", "skipped"}
TaskStates == {"queued", "ended"}
Outs == {"none", "dispatched", "ignored", "failed", "retry"}

Run  == [status : RunStates, issue : Nat, task : Nat, anchored : BOOLEAN]
Task == [run : Nat, issue : Nat, state : TaskStates]
Work == [at : Steps, run : Nat, issue : Nat, task : Nat, on : BOOLEAN, out : Outs]

TypeOK ==
    /\ entry \in {"ingress", "replay", "plan"}
    /\ mode \in {"create_issue", "run_only"}
    /\ active \in BOOLEAN
    /\ status \in {"none", "queued", "dispatched", "ignored", "failed"}
    /\ attempts \in Nat
    /\ lease \in Procs \cup {None} /\ live \in BOOLEAN
    /\ runs \in Seq(Run)
    /\ issues \in Seq({"open", "closed"})
    /\ tasks \in Seq(Task)
    /\ me \in [Procs -> Work]
    /\ answer \in {"none", "accepted", "skipped", "ignored", "error"}
    /\ early \in BOOLEAN /\ shared \in BOOLEAN
    /\ faults \in 0..Bound

Init ==
    /\ entry \in {"ingress", "replay", "plan"}
    /\ mode \in {"create_issue", "run_only"}
    /\ active \in BOOLEAN
    /\ status = IF entry = "plan" THEN "queued" ELSE "none"
    /\ attempts = 0 /\ lease = None /\ live = FALSE
    /\ runs = <<>> /\ issues = <<>> /\ tasks = <<>>
    /\ me = [p \in Procs |-> Idle]
    /\ answer = "none" /\ early = ~active /\ shared = FALSE
    /\ faults = 0

-----------------------------------------------------------------------------
(* Runs                                                                    *)

\* isAutopilotRunComplete.
Complete(run) ==
    \/ run.status \in {"completed", "failed", "skipped"}
    \/ run.status = "issue_created" /\ run.issue # 0
    \/ run.status = "running" /\ run.task # 0

\* The run with the delivery's id, or with the plan's trigger and time.
Anchored == {r \in DOMAIN runs : runs[r].anchored}

\* A replay is dispatched by its handler without the delivery's id.
Anchors(p) == p \in Workers \/ entry # "replay"

Initial == IF mode = "run_only" THEN "running" ELSE "issue_created"

NewRun(p, s) ==
    runs' = Append(runs, [status |-> s, issue |-> 0, task |-> 0, anchored |-> Anchors(p)])

SetStatus(r, s) == runs' = [runs EXCEPT ![r] = [@ EXCEPT !.status = s]]
LinkIssue(r, i) == runs' = [runs EXCEPT ![r] = [@ EXCEPT !.status = "issue_created", !.issue = i]]
LinkTask(r, t)  == runs' = [runs EXCEPT ![r] = [@ EXCEPT !.status = "running", !.task = t]]

NewTask(p) ==
    tasks' = Append(tasks, [run |-> me[p].run, issue |-> me[p].issue, state |-> "queued"])

\* idx_one_pending_task_per_issue_agent: one queued task of an agent per issue.
Pending(i) == \E t \in DOMAIN tasks : tasks[t].issue = i /\ tasks[t].state = "queued"

Goto(p, s)     == me' = [me EXCEPT ![p].at = s]
Conclude(p, o) == me' = [me EXCEPT ![p] = Doing("finish", 0, 0, o)]
Finish(p)      == Conclude(p, me[p].out)
Leave(p)       == me' = [me EXCEPT ![p] = Idle]

-----------------------------------------------------------------------------
(* Dispatching a run, in any process: dispatchAutopilotRun                 *)

\* The run of p is r; what is left of its dispatch begins.
Begin(p, r) ==
    LET first == IF mode = "create_issue" THEN "issue"
                 ELSE IF p \in Workers THEN "find" ELSE "task"
    IN me' = [me EXCEPT ![p] = Doing(first, r, 0, "dispatched")]

\* dispatchCreateIssue, its transaction: the issue and the run that names it.
CreateIssue(p) ==
    /\ me[p].at = "issue"
    /\ issues' = Append(issues, "open")
    /\ LinkIssue(me[p].run, Len(issues) + 1)
    /\ me' = [me EXCEPT ![p].at = "enqueue", ![p].issue = Len(issues) + 1]
    /\ UNCHANGED <<entry, mode, active, row, tasks, told, faults>>

\* It finds an issue of this autopilot with the same title, a minute old at
\* most: one of another occurrence, or one of this one.
Duplicate(p) ==
    /\ me[p].at = "issue"
    /\ Goto(p, "skip")
    /\ UNCHANGED <<entry, mode, active, row, work, told, faults>>

\* EnqueueTaskForIssue, at the end of a dispatch and as its repair.
Enqueue(p) ==
    /\ me[p].at \in {"enqueue", "reenqueue"}
    /\ ~Pending(me[p].issue)
    /\ NewTask(p)
    /\ Finish(p)
    /\ UNCHANGED <<entry, mode, active, row, runs, issues, told, faults>>

\* dispatchRunOnly: the task, or a skip when the agent is no longer ready ...
CreateTask(p) ==
    /\ me[p].at = "task"
    /\ NewTask(p)
    /\ me' = [me EXCEPT ![p].at = "link", ![p].task = Len(tasks) + 1]
    /\ UNCHANGED <<entry, mode, active, row, runs, issues, told, faults>>

NotReady(p) ==
    /\ me[p].at = "task"
    /\ Goto(p, "skip")
    /\ UNCHANGED <<entry, mode, active, row, work, told, faults>>

\* ... and then, as on repair, the link to it. No UPDATE of a run looks at the
\* status it replaces.
Link(p) ==
    /\ me[p].at \in {"link", "relink"}
    /\ LinkTask(me[p].run, me[p].task)
    /\ Finish(p)
    /\ UNCHANGED <<entry, mode, active, row, issues, tasks, told, faults>>

\* handleDispatchSkip and failRun.
SkipRun(p) ==
    /\ me[p].at = "skip"
    /\ SetStatus(me[p].run, "skipped")
    /\ Finish(p)
    /\ UNCHANGED <<entry, mode, active, row, issues, tasks, told, faults>>

FailRun(p) ==
    /\ me[p].at = "fail"
    /\ SetStatus(me[p].run, "failed")
    /\ Conclude(p, "failed")
    /\ UNCHANGED <<entry, mode, active, row, issues, tasks, told, faults>>

\* What a process does when a statement fails at step s.
OnError(p, s) ==
    \/ s \in {"issue", "enqueue", "task", "skip"} /\ Goto(p, "fail")
    \/ s = "link" /\ Finish(p)
    \/ s \in {"find", "relink", "repair", "reenqueue", "recover", "fail"} /\ Conclude(p, "failed")
    \/ s \in {"load", "check", "insert"} /\ Conclude(p, IF p \in Workers THEN "retry" ELSE "failed")

\* The insert of a task runs into one that is queued for the issue already.
Conflict(p) ==
    /\ me[p].at \in {"enqueue", "reenqueue"}
    /\ Pending(me[p].issue)
    /\ OnError(p, me[p].at)
    /\ UNCHANGED <<entry, mode, active, row, work, told, faults>>

Dispatch(p) ==
    \/ CreateIssue(p) \/ Duplicate(p) \/ Enqueue(p) \/ CreateTask(p) \/ NotReady(p)
    \/ Link(p) \/ SkipRun(p) \/ FailRun(p) \/ Conflict(p)

-----------------------------------------------------------------------------
(* The webhook worker: ProcessNext                                         *)

\* ClaimQueuedWebhookDelivery.
Claim_Free(w) ==
    /\ entry # "plan" /\ status = "queued" /\ lease = None
    /\ me[w].at = "idle"
    /\ lease' = w /\ live' = TRUE
    /\ Goto(w, "load")
    /\ UNCHANGED <<entry, mode, active, status, attempts, work, told, faults>>
Claim(w) ==
    /\ entry # "plan" /\ status = "queued" /\ ~live
    /\ me[w].at = "idle"
    /\ lease' = w /\ live' = TRUE
    /\ shared' = (shared \/ \E v \in Workers \ {w} : me[v].at # "idle")
    /\ Goto(w, "load")
    /\ UNCHANGED <<entry, mode, active, status, attempts, work, answer, early, faults>>

\* The trigger's budget is spent: DeferClaimedWebhookDelivery.
Defer(w) ==
    /\ me[w].at = "load"
    /\ IF lease = w /\ status = "queued"
       THEN lease' = None /\ live' = FALSE
       ELSE UNCHANGED <<lease, live>>
    /\ Leave(w)
    /\ UNCHANGED <<entry, mode, active, status, attempts, work, told, faults>>

Load(w) ==
    /\ me[w].at = "load"
    /\ me' = [me EXCEPT ![w].at = "check", ![w].on = active]
    /\ UNCHANGED <<entry, mode, active, row, work, told, faults>>

\* DispatchAutopilotForWebhookDelivery with a run that exists.
Settled(r) == IF runs[r].status = "failed" THEN "failed" ELSE "dispatched"

Resume_NoRepair(w, r) ==
    \/ ~Complete(runs[r]) /\ Begin(w, r)
    \/ Complete(runs[r]) /\ Conclude(w, Settled(r))
Resume(w, r) ==
    \/ /\ ~Complete(runs[r])
       /\ Begin(w, r)
    \/ /\ Complete(runs[r]) /\ runs[r].issue # 0
       /\ me' = [me EXCEPT ![w] = Doing("repair", r, runs[r].issue, Settled(r))]
    \/ /\ Complete(runs[r]) /\ runs[r].issue = 0
       /\ Conclude(w, Settled(r))

\* Only a delivery without a run is held against the state of its trigger.
Check_StateFirst(w) ==
    /\ me[w].at = "check"
    /\ \/ ~me[w].on /\ Conclude(w, "ignored")
       \/ me[w].on /\ \E r \in Anchored : Resume(w, r)
       \/ me[w].on /\ Anchored = {} /\ Goto(w, "insert")
    /\ UNCHANGED <<entry, mode, active, row, work, told, faults>>
Check(w) ==
    /\ me[w].at = "check"
    /\ \/ \E r \in Anchored : Resume(w, r)
       \/ Anchored = {} /\ me[w].on /\ Goto(w, "insert")
       \/ Anchored = {} /\ ~me[w].on /\ Conclude(w, "ignored")
    /\ UNCHANGED <<entry, mode, active, row, work, told, faults>>

\* A task of the run may have been committed without its link.
Find_Nothing(w) ==
    /\ me[w].at = "find"
    /\ Goto(w, "task")
    /\ UNCHANGED <<entry, mode, active, row, work, told, faults>>
Find(w) ==
    /\ me[w].at = "find"
    /\ \/ \E t \in DOMAIN tasks :
             /\ tasks[t].run = me[w].run
             /\ me' = [me EXCEPT ![w].at = "relink", ![w].task = t]
       \/ /\ \A t \in DOMAIN tasks : tasks[t].run # me[w].run
          /\ Goto(w, "task")
    /\ UNCHANGED <<entry, mode, active, row, work, told, faults>>

\* ensureWebhookCreateIssueTask.
Repair(w) ==
    /\ me[w].at = "repair"
    /\ IF \/ \E t \in DOMAIN tasks : tasks[t].issue = me[w].issue
          \/ issues[me[w].issue] = "closed"
       THEN Finish(w)
       ELSE Goto(w, "reenqueue")
    /\ UNCHANGED <<entry, mode, active, row, work, told, faults>>

\* CompleteClaimedWebhookDelivery and retryOrFail: nothing happens to a row
\* that another worker has claimed since, or that is settled.
Verdict(w) ==
    IF me[w].out # "retry" THEN me[w].out
    ELSE IF attempts + 1 >= MaxDispatches THEN "failed" ELSE "queued"

FinishDelivery(w) ==
    /\ me[w].at = "finish"
    /\ IF lease = w /\ status = "queued"
       THEN /\ status' = Verdict(w)
            /\ attempts' = attempts + 1
            /\ lease' = None /\ live' = FALSE
       ELSE UNCHANGED row
    /\ Leave(w)
    /\ UNCHANGED <<entry, mode, active, work, told, faults>>

Process(w) ==
    \/ Claim(w) \/ Defer(w) \/ Load(w) \/ Check(w) \/ Find(w) \/ Repair(w)
    \/ FinishDelivery(w)

-----------------------------------------------------------------------------
(* AdmitAutopilotWebhookDelivery and dispatchAutopilot                     *)

\* The insert of a run: skipped, as shouldSkipDispatch decides, or begun.
\* Ingress leaves the rest to the workers and answers.
Admit(p, s) ==
    /\ me[p].at = "insert"
    /\ Anchors(p) => Anchored = {}
    /\ NewRun(p, s)
    /\ IF p = Front /\ entry = "ingress"
       THEN /\ answer' = IF s = "skipped" THEN "skipped" ELSE "accepted"
            /\ Leave(p)
       ELSE /\ UNCHANGED answer
            /\ IF s = "skipped" THEN Conclude(p, "dispatched") ELSE Begin(p, Len(runs) + 1)
    /\ UNCHANGED <<entry, mode, active, row, issues, tasks, early, shared, faults>>

\* The lookup before it, or the unique index, finds a run that is there.
Reuse(p) ==
    /\ me[p].at = "insert" /\ (p = Front => entry = "ingress")
    /\ \E r \in Anchored :
          IF p = Front
          THEN /\ answer' = IF runs[r].status = "skipped" THEN "skipped" ELSE "accepted"
               /\ Leave(p)
          ELSE UNCHANGED answer /\ Resume(p, r)
    /\ UNCHANGED <<entry, mode, active, row, work, early, shared, faults>>

Admission(p) == Reuse(p) \/ \E s \in {"skipped", Initial} : Admit(p, s)

-----------------------------------------------------------------------------
(* The request handlers: HandleAutopilotWebhook, ReplayAutopilotDelivery   *)

\* The trigger is read before the delivery is stored; a replay needs it on.
Receive ==
    /\ entry # "plan" /\ status = "none"
    /\ me[Front].at = "idle" /\ answer = "none"
    /\ entry = "replay" => active
    /\ me' = [me EXCEPT ![Front].at = "persist", ![Front].on = active]
    /\ UNCHANGED <<entry, mode, active, row, work, told, faults>>

\* From here on the workers see the delivery, the one of a replay included.
Persist ==
    /\ me[Front].at = "persist"
    /\ status' = "queued"
    /\ Goto(Front, IF me[Front].on THEN "insert" ELSE "decide")
    /\ UNCHANGED <<entry, mode, active, attempts, lease, live, work, told, faults>>

\* finaliseDeliveryTerminal, whatever a worker has made of the row.
Ignore ==
    /\ me[Front].at = "decide"
    /\ status' = "ignored"
    /\ answer' = "ignored"
    /\ Leave(Front)
    /\ UNCHANGED <<entry, mode, active, attempts, lease, live, work, early, shared, faults>>

\* finaliseDeliveryWithRun.
FinishReplay ==
    /\ entry = "replay" /\ me[Front].at = "finish"
    /\ status' = me[Front].out
    /\ Leave(Front)
    /\ UNCHANGED <<entry, mode, active, attempts, lease, live, work, told, faults>>

Request == Receive \/ Persist \/ Ignore \/ FinishReplay

-----------------------------------------------------------------------------
(* The scheduler's handler: autopilotHandler, DispatchAutopilotForPlan     *)

StartAttempt ==
    /\ entry = "plan" /\ status = "queued" /\ lease = None
    /\ attempts' = attempts + 1
    /\ lease' = Front
    /\ Goto(Front, "load")
    /\ UNCHANGED <<entry, mode, active, status, live, work, told, faults>>

LoadPlan ==
    /\ me[Front].at = "load"
    /\ IF active THEN Goto(Front, "check") ELSE Conclude(Front, "ignored")
    /\ UNCHANGED <<entry, mode, active, row, work, told, faults>>

LookUp ==
    /\ me[Front].at = "check"
    /\ \/ \E r \in Anchored :
             \/ Complete(runs[r]) /\ Conclude(Front, "dispatched")
             \/ /\ ~Complete(runs[r])
                /\ me' = [me EXCEPT ![Front].at = "recover", ![Front].run = r]
       \/ Anchored = {} /\ Goto(Front, "insert")
    /\ UNCHANGED <<entry, mode, active, row, work, told, faults>>

\* RecoverPartialAutopilotRun: the run is given up and frees the plan.
Recover ==
    /\ me[Front].at = "recover"
    /\ runs' = [runs EXCEPT ![me[Front].run] =
                   [@ EXCEPT !.status = "failed", !.anchored = FALSE]]
    /\ Goto(Front, "insert")
    /\ UNCHANGED <<entry, mode, active, row, issues, tasks, told, faults>>

\* A failed attempt, as reported or as found by the sweep of stale leases.
Release_Unbounded ==
    status' = "queued" /\ lease' = None /\ UNCHANGED <<attempts, live>>
Release ==
    /\ status' = IF attempts < MaxAttempts THEN "queued" ELSE "failed"
    /\ lease' = None
    /\ UNCHANGED <<attempts, live>>

FinishPlan ==
    /\ entry = "plan" /\ me[Front].at = "finish"
    /\ IF me[Front].out = "failed"
       THEN Release
       ELSE status' = me[Front].out /\ lease' = None /\ UNCHANGED <<attempts, live>>
    /\ Leave(Front)
    /\ UNCHANGED <<entry, mode, active, work, told, faults>>

PlanAttempt == StartAttempt \/ LoadPlan \/ LookUp \/ Recover \/ FinishPlan

-----------------------------------------------------------------------------
(* What becomes of the work, and what else happens                         *)

\* A run that a listener may still end.
Open(r) == runs[r].status \in {"issue_created", "running"}

\* SyncRunFromTask, or SyncRunFromLinkedIssueTask once no task is active.
Synced(t, s) ==
    [r \in DOMAIN runs |->
        IF \/ tasks[t].issue = 0 /\ r = tasks[t].run
           \/ /\ tasks[t].issue # 0 /\ runs[r].issue = tasks[t].issue /\ Open(r)
              /\ s = "failed"
              /\ \A u \in DOMAIN tasks \ {t} :
                    tasks[u].issue = tasks[t].issue => tasks[u].state # "queued"
        THEN [runs[r] EXCEPT !.status = s] ELSE runs[r]]

\* A task ends; its listener is lost when the process dies in between.
TaskEnds(t, s) ==
    /\ tasks[t].state = "queued"
    /\ tasks' = [tasks EXCEPT ![t].state = "ended"]
    /\ \/ runs' = Synced(t, s) /\ UNCHANGED faults
       \/ Faulty /\ UNCHANGED runs
    /\ UNCHANGED <<entry, mode, active, row, issues, me, told>>

\* An issue is closed, well or not, which ends its run (SyncRunFromIssue); or it
\* is put back into the backlog, which does not, or the listener is lost.
IssueCloses(i, s) ==
    /\ issues' = [issues EXCEPT ![i] = "closed"]
    /\ \/ runs' = [r \in DOMAIN runs |->
                      IF runs[r].issue = i /\ Open(r) THEN [runs[r] EXCEPT !.status = s]
                      ELSE runs[r]]
       \/ UNCHANGED runs
    /\ UNCHANGED <<entry, mode, active, row, tasks, me, told, faults>>

\* The trigger is disabled or its autopilot paused, or the reverse.
Switch ==
    /\ Faulty
    /\ active' = ~active
    /\ early' = (early \/ (active /\ answer = "none"))
    /\ UNCHANGED <<entry, mode, row, work, me, answer, shared>>

\* Two minutes have passed since the claim: of a worker that is gone, or of one
\* that is still at work.
LeaseExpires ==
    /\ live
    /\ live' = FALSE
    /\ \/ me[lease].at = "idle" /\ UNCHANGED faults
       \/ Faulty
    /\ UNCHANGED <<entry, mode, active, status, attempts, lease, work, me, told>>

Outcome ==
    \/ \E t \in DOMAIN tasks, s \in {"completed", "failed"} : TaskEnds(t, s)
    \/ \E i \in DOMAIN issues, s \in {"completed", "failed"} : IssueCloses(i, s)

\* A statement fails, and its process goes on without it.
QueryFails(p) ==
    /\ Faulty
    /\ \/ /\ OnError(p, me[p].at)
          /\ ~(p = Front /\ entry = "ingress" /\ me[p].at = "insert")
          /\ UNCHANGED <<row, answer>>
       \/ /\ p = Front /\ entry = "ingress" /\ me[p].at \in {"persist", "insert"}
          /\ answer' = "error"
          /\ Leave(p) /\ UNCHANGED row
       \/ /\ p = Front /\ me[p].at = "decide"
          /\ answer' = "ignored"
          /\ Leave(p) /\ UNCHANGED row
    /\ UNCHANGED <<entry, mode, active, work, early, shared>>

\* A process dies, or its last statement fails: its row stays as it is, until
\* the lease has run out.
Crash(p) ==
    /\ me[p].at # "idle"
    /\ Faulty
    /\ IF p = Front /\ entry = "plan" THEN Release ELSE UNCHANGED row
    /\ Leave(p)
    /\ UNCHANGED <<entry, mode, active, work, told>>

-----------------------------------------------------------------------------
Next ==
    \/ \E w \in Workers : Process(w)
    \/ \E p \in Procs : Dispatch(p) \/ Admission(p) \/ QueryFails(p) \/ Crash(p)
    \/ Request \/ PlanAttempt
    \/ Outcome \/ Switch \/ LeaseExpires

Spec == Init /\ [][Next]_vars

\* A worker goes on with what it has claimed and polls every second, the
\* trigger's budget refills, and time passes. Nothing makes the scheduler attempt
\* a plan: it passes over one that is in back-off when a newer one is due, and
\* asks for none while the trigger is off.
Works(w) ==
    Claim(w) \/ Load(w) \/ Check(w) \/ Find(w) \/ Repair(w) \/ FinishDelivery(w)
        \/ Dispatch(w) \/ Admission(w)

Fairness ==
    /\ \A w \in Workers : WF_vars(Works(w)) /\ SF_vars(Load(w))
    /\ WF_vars(LeaseExpires)

LiveSpec == Spec /\ Fairness

-----------------------------------------------------------------------------
(* Properties                                                              *)

\* However often an occurrence is dispatched, resumed and repaired, after
\* crashes and failed statements at any point, a run gets one task, and a
\* delivery has one run.  Two workers on one delivery, which is what an outlived
\* lease leads to, do not keep to it: the index on the delivery's id is for runs.
OneTask ==
    ~shared =>
        /\ \A t, u \in DOMAIN tasks : t # u => tasks[t].run # tasks[u].run
        /\ entry = "ingress" => Len(tasks) <= 1

\* A delivery that is settled as dispatched has a task, or a reason to have
\* none: its run was skipped, or its issue was no longer todo or in_progress when
\* the repair looked.  So has a
\* plan that is recorded as a success, except that DispatchAutopilotForPlan takes
\* an issue without a task, and a run that failed, for done.
Accounted ==
    \/ tasks # <<>>
    \/ \E r \in DOMAIN runs : runs[r].status = "skipped"
    \/ \E i \in DOMAIN issues : issues[i] = "closed"
    \/ /\ entry = "plan"
       /\ \E r \in Anchored : runs[r].issue # 0 \/ runs[r].status = "failed"

DoneHasWork == ~shared /\ status = "dispatched" => Accounted

\* A sender who was told that its event is accepted is not let down by a trigger
\* that is switched off after that: the delivery is never ignored.  (Switched off
\* before the answer it may be: a worker that has looked for the run before
\* ingress inserts it drops the delivery.)
AcceptedIsKept == answer = "accepted" /\ ~early => status # "ignored"

\* Whatever dies or fails on the way, a stored delivery is settled: a dead worker's
\* claim is taken over, a failing dispatch given up after the last attempt, and
\* what the request handler leaves behind when it dies is finished by a worker.  It
\* rests on finitely many faults, and on leases that run out.
DeliverySettles == entry # "plan" /\ status = "queued" ~> status # "queued"


-----------------------------------------------------------------------------
(* The row of a plan implements the ledger that CronScheduler implements,  *)
(* with the scheduler's handler as its one runner.                         *)

Stage ==
    CASE entry # "plan" \/ (status = "queued" /\ lease = None /\ attempts = 0) -> "NONE"
      [] entry = "plan" /\ status = "queued" /\ lease # None -> "RUNNING"
      [] entry = "plan" /\ status = "queued" /\ lease = None /\ attempts # 0 -> "FAILED"
      [] entry = "plan" /\ status = "failed" -> "FAILED"
      [] entry = "plan" /\ status \in {"dispatched", "ignored"} -> "SUCCESS"

Plan == {"plan"}

Ledger == INSTANCE PlanLedger WITH
    Runners <- {Front},
    Plans <- Plan,
    Nobody <- None,
    stage <- [p \in Plan |-> Stage],
    tries <- [p \in Plan |-> IF entry = "plan" THEN attempts ELSE 0],
    owner <- [p \in Plan |-> IF entry = "plan" THEN lease ELSE None]

\* The plan's row as this module abstracts it makes no step that the ledger does
\* not have: at most MaxAttempts attempts, concluded by their owner, and none after
\* a success, whatever fails in the dispatch. (That attempts do not overlap is an
\* assumption here, not a consequence.)
PlanKeepsLedger == Ledger!Spec

=============================================================================
