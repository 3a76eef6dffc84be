--------------------------- MODULE CronScheduler ---------------------------
(***************************************************************************)
(* The database-backed job scheduler of server/internal/scheduler: every   *)
(* app instance runs a Manager that ticks the registered jobs, and the     *)
(* table sys_cron_executions is at once the distributed lock and the audit *)
(* log.  The module models one job and one scope of it, so a row is        *)
(* identified by its plan_time alone; the other jobs and scopes a Manager  *)
(* works through in the same tick appear as time that passes between two   *)
(* steps of the tick.                                                      *)
(*                                                                         *)
(* Each SQL statement is one atomic step.  Everything between two          *)
(* statements (the clock reading a tick starts with, the plans it chose,   *)
(* the claim it holds) is local to a runner and may be stale when used.    *)
(*                                                                         *)
(* An operator with an underscore in its name (Oldest_CutsTheFront) is no  *)
(* part of the model: it is the operator after it with a plausible slip,   *)
(* kept to show that the properties below would catch the slip.            *)
(***************************************************************************)
EXTENDS Integers, FiniteSets

CONSTANTS
    Runners,            \* the app instances that run a Manager
    Plans,              \* canonical plan times: the Cadence grid, or cron occurrences
    Mode,               \* "latest_only", "every_plan", or "hook" (PlansForScope)
    ScheduleDelay,      \* JobSpec.ScheduleDelay
    CatchUpWindow,      \* JobSpec.CatchUpWindow (the hook's replayWindow in mode "hook")
    Lateness,           \* maxAutopilotScheduleLateness, used by the hook only
    Anchor,             \* the hook's cold-start anchor: last_fired_at or created_at
    MaxPlansPerTick,    \* JobSpec.MaxPlansPerTick
    RunTimeout,         \* JobSpec.RunTimeout
    StaleTimeout,       \* JobSpec.StaleTimeout
    AllowStaleReentry,  \* JobSpec.AllowStaleReentry
    MaxAttempts,        \* JobSpec.MaxAttempts
    RetryDelay,         \* attempt -> seconds to wait, JobSpec.retryDelay
    History,            \* plans already recorded as SUCCESS when the model starts
    Start, Horizon,     \* bound: the database clock runs from Start to Horizon
    MaxCrashes,         \* bound: crashes of app instances
    MaxDbErrors         \* bound: failed database round trips

ASSUME PlansAssumption == IsFiniteSet(Plans) /\ Plans \subseteq Nat /\ History \subseteq Plans

\* JobSpec.validate, and a clock that starts late enough for a plan to be due.
ASSUME SpecAssumption ==
    /\ RunTimeout \in Nat /\ StaleTimeout \in Nat
    /\ 0 < RunTimeout /\ RunTimeout < StaleTimeout
    /\ MaxAttempts \in Nat /\ 1 <= MaxAttempts
    /\ RetryDelay \in [1..MaxAttempts -> Nat]
    /\ AllowStaleReentry \in BOOLEAN
    /\ Mode \in {"latest_only", "every_plan", "hook"}
    /\ MaxPlansPerTick \in Nat /\ 1 <= MaxPlansPerTick
    /\ ScheduleDelay \in Nat /\ CatchUpWindow \in Nat
    /\ Lateness \in Nat /\ Anchor \in Int

ASSUME BoundsAssumption ==
    /\ Start \in Nat /\ Horizon \in Nat /\ Start <= Horizon
    /\ MaxCrashes \in Nat /\ MaxDbErrors \in Nat

VARIABLES
    now,      \* the clock of the database, which every runner reads (dbNow)
    exec,     \* sys_cron_executions: plan time -> row
    pc,       \* runner -> where its Manager is in RunOnce
    tickNow,  \* runner -> the clock reading RunOnce took when the tick began
    due,      \* runner -> plans of the current tick not processed yet
    held,     \* runner -> the claim its handler runs under
    beating,  \* runner -> whether the goroutine of runHeartbeats still runs
    result,   \* runner -> outcome of the handler and the clock read after it
    crashes, dbErrors   \* how much of the fault bounds is used

row == <<now, exec>>
local == <<tickNow, due, held, beating, result>>
vars == <<now, exec, pc, tickNow, due, held, beating, result, crashes, dbErrors>>

----------------------------------------------------------------------------
(* Rows and claims.  A row that was never inserted has status NONE.  A     *)
(* lease token is a number the row has not used before (gen_random_uuid is *)
(* compared only within the row, since every guard also names its id).     *)
(* nextRetry = 0 is NULL: COALESCE(next_retry_at, t) <= t holds of it.     *)

Row == [status: {"NONE", "RUNNING", "SUCCESS", "FAILED"},
        attempt: 0..MaxAttempts, token: Nat, staleAfter: Nat, nextRetry: Nat,
        error: {"none", "stale_timeout", "handler_error"}]

NoRow == [status |-> "NONE", attempt |-> 0, token |-> 0, staleAfter |-> 0, nextRetry |-> 0,
          error |-> "none"]
OldRow == [status |-> "SUCCESS", attempt |-> 1, token |-> 1, staleAfter |-> 0, nextRetry |-> 0,
           error |-> "none"]

\* What tryClaim returns to its runner, with the deadline of the handler's
\* context and the time until which the runner knows its lease to be good.
Claim == [plan: Plans, token: Nat, attempt: 1..MaxAttempts, started: Nat, until: Nat]

NoResult == [outcome |-> "none", at |-> 0]
NoClaim == [plan |-> 0, token |-> 0, attempt |-> 0, started |-> 0, until |-> 0]

Recorded == {p \in Plans : exec[p].status # "NONE"}
Busy(r) == pc[r] \in {"run", "finish"}

\* The WHERE clause of heartbeat, finishSuccess and finishFailure: id,
\* lease_token and status = 'RUNNING'.
Owns(r) == /\ Busy(r)
           /\ exec[held[r].plan].status = "RUNNING"
           /\ exec[held[r].plan].token = held[r].token
OwnsPlan(r, p) == Owns(r) /\ held[r].plan = p

----------------------------------------------------------------------------
(* plansForTick                                                            *)

\* The newest plan of a set, as a set: empty only if the set is.
Newest(S) == {p \in S : \A q \in S : q <= p}

\* LatestPlanInfo.RetryEligible, of a stored row.
RetryEligible_LastAttemptLost(p, t) == /\ exec[p].status = "FAILED"
                                       /\ exec[p].attempt + 1 < MaxAttempts
                                       /\ exec[p].nextRetry <= t
RetryEligible(p, t) == /\ exec[p].status = "FAILED"
                       /\ exec[p].attempt < MaxAttempts
                       /\ exec[p].nextRetry <= t

\* Plans up to the horizon now - ScheduleDelay; FloorPlan is the newest of them.
Eligible(t) == {p \in Plans : p <= t - ScheduleDelay}

\* The loop of the every_plan planner: ascending, cut at MaxPlansPerTick.
Oldest_CutsTheFront(S) == {p \in S : Cardinality({q \in S : p < q}) < MaxPlansPerTick}
Oldest(S) == {p \in S : Cardinality({q \in S : q < p}) < MaxPlansPerTick}

\* The cursor looks at the newest row only: it stays on it while it can be
\* retried, and otherwise moves past it.
FromCursor(p, t) ==
    IF Recorded = {} THEN p \in Newest(Eligible(t))
    ELSE \E m \in Newest(Recorded) : IF RetryEligible(m, t) THEN m <= p ELSE m < p

InWindow(p, t) == IF CatchUpWindow = 0 THEN p \in Newest(Eligible(t))
                  ELSE t - CatchUpWindow <= p

EveryPlan(t) == Oldest({p \in Eligible(t) : FromCursor(p, t) /\ InWindow(p, t)})

\* The PlansForScope hook of the autopilot schedule job: the newest row while
\* it can be retried, else the newest occurrence in (anchor, now] unless it
\* is already too late to fire it.
Occurrences(t) == {p \in Plans : /\ p <= t /\ t - CatchUpWindow < p
                                 /\ IF Recorded = {} THEN Anchor < p
                                    ELSE \E m \in Newest(Recorded) : m < p}

HookPlans(t) ==
    LET retry == {p \in Newest(Recorded) : RetryEligible(p, t)}
    IN  IF retry # {} THEN retry
        ELSE {p \in Newest(Occurrences(t)) : t - p <= Lateness}

PlansForTick(t) == CASE Mode = "hook" -> HookPlans(t)
                     [] Mode = "latest_only" -> Newest(Eligible(t))
                     [] Mode = "every_plan" -> EveryPlan(t)

----------------------------------------------------------------------------
Init ==
    /\ now = Start
    /\ exec = [p \in Plans |-> IF p \in History THEN OldRow ELSE NoRow]
    /\ pc = [r \in Runners |-> "idle"]
    /\ tickNow = [r \in Runners |-> 0]
    /\ due = [r \in Runners |-> {}]
    /\ held = [r \in Runners |-> NoClaim]
    /\ beating = [r \in Runners |-> FALSE]
    /\ result = [r \in Runners |-> NoResult]
    /\ crashes = 0
    /\ dbErrors = 0

Advance ==
    /\ now < Horizon
    /\ now' = now + 1
    /\ UNCHANGED <<exec, pc, local, crashes, dbErrors>>

\* RunOnce reads the database clock once, for every job and scope of the tick.
Tick(r) ==
    /\ pc[r] = "idle"
    /\ pc' = [pc EXCEPT ![r] = "sweep"]
    /\ tickNow' = [tickNow EXCEPT ![r] = now]
    /\ UNCHANGED <<row, due, held, beating, result, crashes, dbErrors>>

\* markStaleAsFailed: one UPDATE over the job's rows.  It leaves next_retry_at
\* and the lease token as they are.
Expired_OnlyRetryable(p, t) == /\ exec[p].status = "RUNNING" /\ exec[p].staleAfter < t
                               /\ exec[p].attempt < MaxAttempts
Expired(p, t) == exec[p].status = "RUNNING" /\ exec[p].staleAfter < t

MarkStale(r) ==
    /\ pc[r] = "sweep"
    /\ exec' = [p \in Plans |-> IF Expired(p, tickNow[r])
                                THEN [exec[p] EXCEPT !.status = "FAILED",
                                                    !.error = "stale_timeout"]
                                ELSE exec[p]]
    /\ pc' = [pc EXCEPT ![r] = "plan"]
    /\ UNCHANGED <<now, local, crashes, dbErrors>>

DbError == dbErrors < MaxDbErrors /\ dbErrors' = dbErrors + 1

\* A failed sweep is logged and the job goes on to planning.
MarkStaleError(r) ==
    /\ pc[r] = "sweep"
    /\ DbError
    /\ pc' = [pc EXCEPT ![r] = "plan"]
    /\ UNCHANGED <<row, local, crashes>>

\* The planner reads the newest row, then the tick works through its plans.
EndTick(r) == /\ pc' = [pc EXCEPT ![r] = "idle"]
              /\ tickNow' = [tickNow EXCEPT ![r] = 0]

Plan(r) ==
    /\ pc[r] = "plan"
    /\ LET plans == PlansForTick(tickNow[r]) IN
       IF plans = {} THEN EndTick(r) /\ UNCHANGED due
       ELSE /\ pc' = [pc EXCEPT ![r] = "claim"]
            /\ due' = [due EXCEPT ![r] = plans]
            /\ UNCHANGED tickNow
    /\ UNCHANGED <<row, held, beating, result, crashes, dbErrors>>

\* A failed read of the newest row skips the scope for this tick.
PlanError(r) ==
    /\ pc[r] = "plan"
    /\ DbError
    /\ EndTick(r)
    /\ UNCHANGED <<row, due, held, beating, result, crashes>>

----------------------------------------------------------------------------
(* processPlan: tryClaim with the tick's clock reading, then the handler.  *)

\* The plans of a tick are processed oldest first.
First(r, p) == p \in due[r] /\ \A q \in due[r] : p <= q

\* The plan leaves the tick's list; the last one ends the tick.
DropPlan(r, p) ==
    /\ due' = [due EXCEPT ![r] = @ \ {p}]
    /\ IF due[r] = {p} THEN EndTick(r) ELSE UNCHANGED <<pc, tickNow>>

Leased_ForTheRun(p, attempt, t) ==
    [status |-> "RUNNING", attempt |-> attempt, token |-> exec[p].token + 1,
     staleAfter |-> t + RunTimeout, nextRetry |-> 0, error |-> "none"]
Leased(p, attempt, t) ==
    [status |-> "RUNNING", attempt |-> attempt, token |-> exec[p].token + 1,
     staleAfter |-> t + StaleTimeout, nextRetry |-> 0, error |-> "none"]

\* The claim is granted: the handler's context and the heartbeats start.
Granted(r, p, t) ==
    /\ exec' = [exec EXCEPT ![p] = Leased(p, exec[p].attempt + 1, t)]
    /\ held' = [held EXCEPT ![r] = [plan |-> p, token |-> exec[p].token + 1,
                                    attempt |-> exec[p].attempt + 1,
                                    started |-> now, until |-> t + StaleTimeout]]
    /\ pc' = [pc EXCEPT ![r] = "run"]
    /\ beating' = [beating EXCEPT ![r] = TRUE]
    /\ due' = [due EXCEPT ![r] = @ \ {p}]
    /\ UNCHANGED <<now, tickNow, result, crashes, dbErrors>>

\* INSERT ... ON CONFLICT DO NOTHING wins.
Insertable(p) == exec[p].status = "NONE"

ClaimInsert(r) ==
    /\ pc[r] = "claim"
    /\ \E p \in due[r] : First(r, p) /\ Insertable(p) /\ Granted(r, p, tickNow[r])

\* The UPDATE of the conflict path: retry after FAILED, or steal a stale lease.
Retryable_AnyTerminal(p, t) == exec[p].status \in {"FAILED", "SUCCESS"} /\ exec[p].nextRetry <= t
Retryable(p, t) == exec[p].status = "FAILED" /\ exec[p].nextRetry <= t
Stealable_Unexpired(p, t) == AllowStaleReentry /\ exec[p].status = "RUNNING"
Stealable(p, t) == AllowStaleReentry /\ Expired(p, t)
Reclaimable_NoLimit(p, t) == Retryable(p, t) \/ Stealable(p, t)
Reclaimable(p, t) == /\ exec[p].attempt < MaxAttempts
                     /\ Retryable(p, t) \/ Stealable(p, t)

ClaimSteal(r) ==
    /\ pc[r] = "claim"
    /\ \E p \in due[r] : /\ First(r, p)
                         /\ Reclaimable(p, tickNow[r])
                         /\ Granted(r, p, tickNow[r])

ClaimConflict(r) ==
    /\ pc[r] = "claim"
    /\ \E p \in due[r] : /\ First(r, p)
                         /\ ~ Insertable(p)
                         /\ ~ Reclaimable(p, tickNow[r])
                         /\ DropPlan(r, p)
    /\ UNCHANGED <<row, held, beating, result, crashes, dbErrors>>

\* An error of tryClaim is logged; the loop goes on with the next plan. The
\* statement may have been committed and its answer lost: the row is then leased
\* and nobody has the lease.
ClaimError(r) ==
    /\ pc[r] = "claim"
    /\ DbError
    /\ \E p \in due[r] :
          /\ First(r, p)
          /\ DropPlan(r, p)
          /\ \/ UNCHANGED exec
             \/ /\ Insertable(p) \/ Reclaimable(p, tickNow[r])
                /\ exec' = [exec EXCEPT ![p] = Leased(p, exec[p].attempt + 1, tickNow[r])]
    /\ UNCHANGED <<now, held, beating, result, crashes>>

----------------------------------------------------------------------------
(* runClaimed: heartbeats beside the handler, then the terminal write.     *)

\* One beat of runHeartbeats.  ErrLeaseLost ends the goroutine, not the handler.
Heartbeat_IgnoresLeaseLost(r) ==
    /\ pc[r] = "run"
    /\ beating[r]
    /\ IF Owns(r) THEN exec' = [exec EXCEPT ![held[r].plan].staleAfter = now + StaleTimeout]
                  ELSE UNCHANGED exec
    /\ held' = [held EXCEPT ![r].until = now + StaleTimeout]
    /\ UNCHANGED <<now, pc, tickNow, due, beating, result, crashes, dbErrors>>
Heartbeat(r) ==
    /\ pc[r] = "run"
    /\ beating[r]
    /\ IF Owns(r)
       THEN /\ exec' = [exec EXCEPT ![held[r].plan].staleAfter = now + StaleTimeout]
            /\ held' = [held EXCEPT ![r].until = now + StaleTimeout]
            /\ UNCHANGED beating
       ELSE /\ beating' = [beating EXCEPT ![r] = FALSE]
            /\ UNCHANGED <<exec, held>>
    /\ UNCHANGED <<now, pc, tickNow, due, result, crashes, dbErrors>>

\* The handler returns or panics (recovered as an error); the heartbeats are
\* stopped and the database clock is read for the terminal write.
HandlerReturns(r) ==
    /\ pc[r] = "run"
    /\ \E outcome \in {"ok", "error"} :
         result' = [result EXCEPT ![r] = [outcome |-> outcome, at |-> now]]
    /\ pc' = [pc EXCEPT ![r] = "finish"]
    /\ beating' = [beating EXCEPT ![r] = FALSE]
    /\ UNCHANGED <<row, tickNow, due, held, crashes, dbErrors>>

\* finishSuccess and finishFailure: the row as they leave it.
Succeeded(p) == [exec[p] EXCEPT !.status = "SUCCESS"]

FailedAfter(p, attempt, t) ==
    [exec[p] EXCEPT !.status = "FAILED", !.error = "handler_error",
                    !.nextRetry = IF attempt < MaxAttempts THEN t + RetryDelay[attempt] ELSE 0]

\* The claim is over and the tick goes on with its next plan.
Release(r) ==
    /\ held' = [held EXCEPT ![r] = NoClaim]
    /\ result' = [result EXCEPT ![r] = NoResult]
    /\ IF due[r] = {} THEN EndTick(r)
       ELSE pc' = [pc EXCEPT ![r] = "claim"] /\ UNCHANGED tickNow
    /\ UNCHANGED <<now, due, beating, crashes>>

\* The terminal write, or nothing when the lease was lost (errTerminalIgnored).
Finish(r) ==
    /\ pc[r] = "finish"
    /\ LET p == held[r].plan IN
       exec' = IF ~ Owns(r) THEN exec
               ELSE [exec EXCEPT ![p] = IF result[r].outcome = "ok" THEN Succeeded(p)
                                        ELSE FailedAfter(p, held[r].attempt, result[r].at)]
    /\ Release(r)
    /\ UNCHANGED dbErrors

\* A failed terminal write is logged and never repeated: the row stays RUNNING.
FinishError(r) ==
    /\ pc[r] = "finish"
    /\ DbError
    /\ Release(r)
    /\ UNCHANGED exec

----------------------------------------------------------------------------
\* The process dies: everything local is gone, the row keeps its lease.
Crash(r) ==
    /\ pc[r] # "down"
    /\ crashes < MaxCrashes
    /\ crashes' = crashes + 1
    /\ pc' = [pc EXCEPT ![r] = "down"]
    /\ tickNow' = [tickNow EXCEPT ![r] = 0]
    /\ due' = [due EXCEPT ![r] = {}]
    /\ held' = [held EXCEPT ![r] = NoClaim]
    /\ beating' = [beating EXCEPT ![r] = FALSE]
    /\ result' = [result EXCEPT ![r] = NoResult]
    /\ UNCHANGED <<row, dbErrors>>

Restart(r) ==
    /\ pc[r] = "down"
    /\ pc' = [pc EXCEPT ![r] = "idle"]
    /\ UNCHANGED <<row, local, crashes, dbErrors>>

\* A Manager's own loop: everything but faults and the unforced heartbeat.
Step(r) == \/ Tick(r) \/ MarkStale(r) \/ Plan(r)
           \/ ClaimInsert(r) \/ ClaimSteal(r) \/ ClaimConflict(r)
           \/ HandlerReturns(r) \/ Finish(r) \/ Restart(r)

Fault(r) == \/ MarkStaleError(r) \/ PlanError(r) \/ ClaimError(r)
            \/ FinishError(r) \/ Crash(r)

Next == Advance \/ \E r \in Runners : Step(r) \/ Heartbeat(r) \/ Fault(r)

Spec == Init /\ [][Next]_vars

\* Run ticks forever, a handler's context ends it, a process is restarted and
\* the clock goes on: none of a Manager's own steps is delayed for ever.
FairSpec == Spec /\ WF_vars(Advance) /\ \A r \in Runners : WF_vars(Step(r))

----------------------------------------------------------------------------
(* Properties.                                                             *)

ClockOK == now \in Start..Horizon /\ crashes \in 0..MaxCrashes /\ dbErrors \in 0..MaxDbErrors

RowsOK == /\ exec \in [Plans -> Row]
          /\ \A p \in Plans : exec[p].status = "NONE" => exec[p] = NoRow

RunnersOK ==
    /\ pc \in [Runners -> {"idle", "sweep", "plan", "claim", "run", "finish", "down"}]
    /\ tickNow \in [Runners -> 0..Horizon]
    /\ due \in [Runners -> SUBSET Plans]
    /\ beating \in [Runners -> BOOLEAN]
    /\ result \in [Runners -> [outcome : {"none", "ok", "error"}, at : Nat]]

\* A runner has a claim exactly while it runs a handler or writes its verdict.
ClaimsOK ==
    /\ held \in [Runners -> Claim \cup {NoClaim}]
    /\ \A r \in Runners : IF Busy(r) THEN held[r] \in Claim ELSE held[r] = NoClaim

TypeOK == ClockOK /\ RowsOK /\ RunnersOK /\ ClaimsOK

\* A runner whose lease, as far as it knows, has not run out.
InLease(r) == Busy(r) /\ now <= held[r].until

\* What fences a handler: either it owns its row, which then expires exactly
\* when the runner believes it does, or its lease has run out.
Fenced(r) ==
    \/ Owns(r) /\ exec[held[r].plan].staleAfter = held[r].until
    \/ held[r].until < now

LeaseInv == \A r \in Runners : Busy(r) => Fenced(r)

\* Two runners never work on the same plan inside their leases: whatever the
\* order of stale sweeps, steals, retries, beats and crashes, a handler can
\* overlap another of its plan only after its own lease has run out.  It rests
\* on every expiry being judged by a clock reading that can only be too old.
LeaseExclusive ==
    \A r, s \in Runners :
        r # s /\ InLease(r) /\ InLease(s) => held[r].plan # held[s].plan

\* A handler inside its RunTimeout still owns its row, provided the tick's
\* clock reading was at most StaleTimeout - RunTimeout old when it claimed
\* (SpecAssumption makes that margin positive, as JobSpec.validate does).
FreshClaim(r) == held[r].until - held[r].started >= RunTimeout

LeaseCoversRun ==
    \A r \in Runners :
        pc[r] = "run" /\ FreshClaim(r) /\ now <= held[r].started + RunTimeout => Owns(r)

\* The verdict of a handler that returns inside its lease is what the row
\* keeps: the terminal write of such a handler is never the ignored one.
VerdictRecorded ==
    [][\A r \in Runners :
          Finish(r) /\ InLease(r) =>
              exec'[held[r].plan].status =
                  IF result[r].outcome = "ok" THEN "SUCCESS" ELSE "FAILED"]_vars

\* Under every_plan, no plan newer than the recorded history is skipped while
\* it is inside the catch-up window: once a newer plan has a row, it has one
\* too, or it fell out of the window before its turn came.  Several runners,
\* each with its own old clock reading and cursor, insert into the sequence.
\* A database error in tryClaim does skip a plan: hence dbErrors = 0.
Missed(p, q) == /\ p < q
                /\ q \in Recorded /\ p \notin Recorded
                /\ History # {} /\ \A h \in History : h < p
                /\ p >= now - (IF CatchUpWindow = 0 THEN ScheduleDelay ELSE CatchUpWindow)

NoGap == Mode = "every_plan" /\ dbErrors = 0 => \A p, q \in Plans : ~ Missed(p, q)

\* A lease nobody holds any more (its runner crashed, lost the terminal write
\* or was fenced) does not stay RUNNING: once it expires, a sweep closes it or
\* a steal takes it over.
Abandoned(p) == /\ exec[p].status = "RUNNING"
                /\ exec[p].staleAfter < Horizon
                /\ \A r \in Runners : ~ OwnsPlan(r, p)

AbandonedLeaseClosed == \A p \in Plans : Abandoned(p) ~> ~ Abandoned(p)

\* The newest plan settles, and no planner moves away from it before it does:
\* it succeeds or is out of attempts, unless the end of the modelled time cuts
\* off its backoff or its lease.
Settled(p) == \/ exec[p].status = "SUCCESS"
              \/ exec[p].attempt = MaxAttempts
              \/ exec[p].status = "FAILED" /\ exec[p].nextRetry > Horizon
              \/ exec[p].status = "RUNNING" /\ exec[p].staleAfter >= Horizon

NewestPlanSettles == <>[](\A p \in Newest(Eligible(Horizon)) : Settled(p))

----------------------------------------------------------------------------
(* The scheduler implements the ledger: a row is a plan's stage, and its   *)
(* owner is the runner whose claim carries the row's lease token.          *)

Nobody == "nobody"
Owner(p) == IF \E r \in Runners : OwnsPlan(r, p)
            THEN CHOOSE r \in Runners : OwnsPlan(r, p)
            ELSE Nobody

Ledger == INSTANCE PlanLedger WITH
    stage <- [p \in Plans |-> exec[p].status],
    tries <- [p \in Plans |-> exec[p].attempt],
    owner <- [p \in Plans |-> Owner(p)]

ImplementsLedger == Ledger!Spec

=============================================================================
