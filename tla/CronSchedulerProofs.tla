------------------------ MODULE CronSchedulerProofs ------------------------
(***************************************************************************)
(* Proofs about CronScheduler, for every value of its constants: its type  *)
(* invariant, the lease invariant and what follows from it, and that it    *)
(* implements PlanLedger.                                                  *)
(***************************************************************************)
EXTENDS CronScheduler, FiniteSetTheorems, TLAPS

----------------------------------------------------------------------------
(* Rows, plans and claims.                                                 *)

\* Every planner chooses among the plans.
LEMMA PlannedArePlans == \A t : PlansForTick(t) \subseteq Plans
  BY SpecAssumption DEF PlansForTick, HookPlans, EveryPlan, Oldest, Newest, Eligible,
                        Occurrences, Recorded

\* The three updates of a row: swept, beaten, concluded.
LEMMA SweptRow ==
  ASSUME NEW x \in Row, NEW y, y = [x EXCEPT !.status = "FAILED", !.error = "stale_timeout"]
  PROVE  /\ y \in Row /\ y.status = "FAILED"
         /\ y.token = x.token /\ y.attempt = x.attempt /\ y.staleAfter = x.staleAfter
  BY DEF Row

LEMMA BeatenRow ==
  ASSUME NEW x \in Row, NEW n \in Nat, NEW y, y = [x EXCEPT !.staleAfter = n]
  PROVE  /\ y \in Row /\ y.staleAfter = n
         /\ y.status = x.status /\ y.token = x.token /\ y.attempt = x.attempt
  BY DEF Row

LEMMA ConcludedRow ==
  ASSUME NEW x \in Row, NEW n \in Nat
  PROVE  /\ [x EXCEPT !.status = "FAILED", !.error = "handler_error", !.nextRetry = n] \in Row
         /\ [x EXCEPT !.status = "SUCCESS"] \in Row
  BY DEF Row

LEMMA ClaimRenewed ==
  ASSUME NEW c \in Claim, NEW n \in Nat
  PROVE  /\ [c EXCEPT !.until = n] \in Claim
         /\ [c EXCEPT !.until = n].plan = c.plan
         /\ [c EXCEPT !.until = n].token = c.token
         /\ [c EXCEPT !.until = n].until = n
  BY DEF Claim

\* A runner with a handler or a verdict has a claim on a plan.
LEMMA BusyFacts ==
  ASSUME TypeOK, NEW r \in Runners, Busy(r)
  PROVE  held[r] \in Claim /\ held[r].plan \in Plans /\ now + StaleTimeout \in Nat
<1>1. held[r] \in Claim
  BY DEF TypeOK, ClaimsOK
<1>2. held[r].plan \in Plans
  BY <1>1 DEF Claim
<1>3. now + StaleTimeout \in Nat
  BY SpecAssumption, BoundsAssumption DEF TypeOK, ClockOK
<1> QED
  BY <1>1, <1>2, <1>3

\* What a granted claim found in the row, whichever statement granted it.
LEMMA GrantedClaim ==
  ASSUME TypeOK, NEW r \in Runners, ClaimInsert(r) \/ ClaimSteal(r)
  PROVE  \E p \in due[r] : /\ Granted(r, p, tickNow[r])
                           /\ First(r, p)
                           /\ p \in Plans
                           /\ exec[p].status # "SUCCESS"
                           /\ exec[p].status = "RUNNING" => exec[p].staleAfter < tickNow[r]
                           /\ exec[p].attempt < MaxAttempts
<1>0. due[r] \subseteq Plans
  BY DEF TypeOK, RunnersOK
<1>1. CASE ClaimInsert(r)
  <2>1. PICK p \in due[r] : First(r, p) /\ Insertable(p) /\ Granted(r, p, tickNow[r])
    BY <1>1 DEF ClaimInsert
  <2>2. exec[p] = NoRow
    BY <1>0, <2>1 DEF Insertable, TypeOK, RowsOK
  <2> QED
    BY <1>0, <2>1, <2>2, SpecAssumption DEF NoRow
<1>2. CASE ClaimSteal(r)
  BY <1>0, <1>2 DEF ClaimSteal, Reclaimable, Retryable, Stealable, Expired
<1> QED
  BY <1>1, <1>2

\* What a claim whose statement failed, or whose answer was lost, has done.
LEMMA LostClaim ==
  ASSUME TypeOK, NEW r \in Runners, ClaimError(r)
  PROVE  /\ UNCHANGED <<now, held>> /\ dbErrors' = dbErrors + 1
         /\ \A s \in Runners : Busy(s)' <=> Busy(s)
         /\ \/ UNCHANGED exec
            \/ \E p \in Plans :
                  /\ exec[p].status # "SUCCESS" /\ exec[p].attempt < MaxAttempts
                  /\ exec[p].status = "RUNNING" => exec[p].staleAfter < tickNow[r]
                  /\ exec' = [exec EXCEPT ![p] = Leased(p, exec[p].attempt + 1, tickNow[r])]
                  /\ exec'[p] = Leased(p, exec[p].attempt + 1, tickNow[r])
                  /\ \A q \in Plans \ {p} : exec'[q] = exec[q]
<1>1. due[r] \subseteq Plans
  BY DEF TypeOK, RunnersOK
<1>2. PICK p \in due[r] :
         /\ DropPlan(r, p)
         /\ \/ UNCHANGED exec
            \/ /\ Insertable(p) \/ Reclaimable(p, tickNow[r])
               /\ exec' = [exec EXCEPT ![p] = Leased(p, exec[p].attempt + 1, tickNow[r])]
  BY DEF ClaimError
<1>3. UNCHANGED <<now, held>> /\ dbErrors' = dbErrors + 1 /\ pc[r] = "claim"
  BY DEF ClaimError, DbError
<1>4. \A s \in Runners : Busy(s)' <=> Busy(s)
  BY <1>2, <1>3 DEF DropPlan, EndTick, Busy, TypeOK, RunnersOK
<1>5. CASE UNCHANGED exec
  BY <1>3, <1>4, <1>5
<1>6. CASE /\ Insertable(p) \/ Reclaimable(p, tickNow[r])
           /\ exec' = [exec EXCEPT ![p] = Leased(p, exec[p].attempt + 1, tickNow[r])]
  <2>1. /\ exec[p].status # "SUCCESS" /\ exec[p].attempt < MaxAttempts
        /\ exec[p].status = "RUNNING" => exec[p].staleAfter < tickNow[r]
    <3>1. CASE Insertable(p)
      <4>1. exec[p] = NoRow
        BY <1>1, <3>1 DEF Insertable, TypeOK, RowsOK
      <4> QED
        BY <4>1, SpecAssumption DEF NoRow
    <3>2. CASE Reclaimable(p, tickNow[r])
      BY <3>2 DEF Reclaimable, Retryable, Stealable, Expired
    <3> QED
      BY <1>6, <3>1, <3>2
  <2>2. /\ exec'[p] = Leased(p, exec[p].attempt + 1, tickNow[r])
        /\ \A q \in Plans \ {p} : exec'[q] = exec[q]
    BY <1>1, <1>6 DEF TypeOK, RowsOK
  <2> QED
    BY <1>1, <1>3, <1>4, <1>6, <2>1, <2>2
<1> QED
  BY <1>2, <1>5, <1>6

\* What a terminal write does to its row, and that it leaves the others alone.
LEMMA VerdictWrites ==
  ASSUME TypeOK, NEW r \in Runners, Finish(r), Owns(r)
  PROVE  /\ held[r].plan \in Plans
         /\ \A p \in Plans \ {held[r].plan} : exec'[p] = exec[p]
         /\ exec'[held[r].plan].status = IF result[r].outcome = "ok" THEN "SUCCESS" ELSE "FAILED"
         /\ exec'[held[r].plan].token = exec[held[r].plan].token
         /\ exec'[held[r].plan].attempt = exec[held[r].plan].attempt
<1> DEFINE p == held[r].plan
           n == IF held[r].attempt < MaxAttempts
                THEN result[r].at + RetryDelay[held[r].attempt] ELSE 0
<1>1. p \in Plans /\ exec[p] \in Row /\ n \in Nat
  BY SpecAssumption DEF Owns, TypeOK, ClaimsOK, RowsOK, RunnersOK, Claim
<1>2. exec' = [exec EXCEPT ![p] = IF result[r].outcome = "ok" THEN Succeeded(p)
                                  ELSE FailedAfter(p, held[r].attempt, result[r].at)]
  BY DEF Finish
<1>3. CASE result[r].outcome = "ok"
  <2>1. exec'[p] = [exec[p] EXCEPT !.status = "SUCCESS"]
    BY <1>1, <1>2, <1>3 DEF Succeeded, TypeOK, RowsOK
  <2> QED
    BY <1>1, <1>2, <1>3, <2>1 DEF TypeOK, RowsOK, Row
<1>4. CASE result[r].outcome # "ok"
  <2>1. exec'[p] = [exec[p] EXCEPT !.status = "FAILED", !.error = "handler_error",
                                   !.nextRetry = n]
    BY <1>1, <1>2, <1>4 DEF FailedAfter, TypeOK, RowsOK
  <2> HIDE DEF n
  <2>2. /\ exec'[p].status = "FAILED" /\ exec'[p].token = exec[p].token
        /\ exec'[p].attempt = exec[p].attempt
    BY <1>1, <2>1 DEF Row
  <2> QED
    BY <1>1, <1>2, <1>4, <2>2 DEF TypeOK, RowsOK
<1> QED
  BY <1>3, <1>4

----------------------------------------------------------------------------
(* The type invariant, conjunct by conjunct.                               *)

LEMMA TypeInit == Init => TypeOK
<1> SUFFICES ASSUME Init PROVE TypeOK
  OBVIOUS
<1>1. ClockOK
  BY BoundsAssumption DEF Init, ClockOK
<1>2. RowsOK
  <2>1. NoRow \in Row /\ OldRow \in Row /\ OldRow.status # "NONE"
    BY SpecAssumption DEF NoRow, OldRow, Row
  <2> QED
    BY <2>1 DEF Init, RowsOK
<1>3. RunnersOK
  BY BoundsAssumption DEF Init, RunnersOK, NoResult
<1>4. ClaimsOK
  BY DEF Init, ClaimsOK, Busy
<1> QED
  BY <1>1, <1>2, <1>3, <1>4 DEF TypeOK

LEMMA ClockStep == ClockOK /\ [Next]_vars => ClockOK'
<1> SUFFICES ASSUME ClockOK, [Next]_vars PROVE ClockOK'
  OBVIOUS
<1> USE BoundsAssumption DEF ClockOK, row, local
<1>1. CASE Advance
  BY <1>1 DEF Advance
<1>2. ASSUME NEW r \in Runners, Step(r) \/ Heartbeat(r) PROVE ClockOK'
  BY <1>2 DEF Step, Heartbeat, Tick, MarkStale, Plan, ClaimInsert, ClaimSteal, ClaimConflict,
              HandlerReturns, Finish, Restart, Granted, Release
<1>3. ASSUME NEW r \in Runners, Fault(r) PROVE ClockOK'
  BY <1>3 DEF Fault, MarkStaleError, PlanError, ClaimError, FinishError, Crash, DbError, Release
<1>4. CASE UNCHANGED vars
  BY <1>4 DEF vars
<1> QED
  BY <1>1, <1>2, <1>3, <1>4 DEF Next

LEMMA RowsStep == TypeOK /\ [Next]_vars => RowsOK'
<1> SUFFICES ASSUME TypeOK, [Next]_vars PROVE RowsOK'
  OBVIOUS
<1> USE DEF TypeOK, RowsOK
<1>1. CASE UNCHANGED exec
  BY <1>1
<1>2. ASSUME NEW r \in Runners, MarkStale(r) PROVE RowsOK'
  <2>1. ASSUME NEW p \in Plans
        PROVE  exec'[p] \in Row /\ (exec'[p].status = "NONE" => exec'[p] = NoRow)
    <3>1. CASE Expired(p, tickNow[r])
      <4>1. exec'[p] = [exec[p] EXCEPT !.status = "FAILED", !.error = "stale_timeout"]
        BY <1>2, <3>1 DEF MarkStale
      <4> QED
        BY <4>1, SweptRow
    <3>2. CASE ~ Expired(p, tickNow[r])
      BY <1>2, <3>2 DEF MarkStale
    <3> QED
      BY <3>1, <3>2
  <2> QED
    BY <1>2, <2>1 DEF MarkStale
<1>3. ASSUME NEW r \in Runners, ClaimInsert(r) \/ ClaimSteal(r) PROVE RowsOK'
  <2>1. PICK p \in Plans : /\ Granted(r, p, tickNow[r])
                           /\ exec[p].attempt < MaxAttempts
    BY <1>3, GrantedClaim
  <2>2. tickNow[r] + StaleTimeout \in Nat
    BY SpecAssumption, BoundsAssumption DEF RunnersOK
  <2>3. Leased(p, exec[p].attempt + 1, tickNow[r]) \in Row
    BY <2>1, <2>2, SpecAssumption DEF Leased, Row
  <2>4. Leased(p, exec[p].attempt + 1, tickNow[r]).status # "NONE"
    BY DEF Leased
  <2> QED
    BY <2>1, <2>3, <2>4 DEF Granted
<1>4. ASSUME NEW r \in Runners, Heartbeat(r) PROVE RowsOK'
  <2>1. now + StaleTimeout \in Nat
    BY SpecAssumption, BoundsAssumption DEF ClockOK
  <2>2. \A p \in Plans : exec[p].status = "RUNNING" =>
          /\ [exec[p] EXCEPT !.staleAfter = now + StaleTimeout] \in Row
          /\ [exec[p] EXCEPT !.staleAfter = now + StaleTimeout].status = "RUNNING"
    BY <2>1, BeatenRow
  <2> QED
    BY <1>4, <2>2 DEF Heartbeat, Owns
<1>5. ASSUME NEW r \in Runners, Finish(r) PROVE RowsOK'
  <2>1. Busy(r) /\ held[r] \in Claim
    BY <1>5 DEF Finish, Busy, ClaimsOK
  <2>2. result[r].at + RetryDelay[held[r].attempt] \in Nat
    BY <2>1, SpecAssumption DEF RunnersOK, Claim
  <2>3. FailedAfter(held[r].plan, held[r].attempt, result[r].at) \in Row
    BY <2>1, <2>2, ConcludedRow DEF FailedAfter, Claim
  <2>4. Succeeded(held[r].plan) \in Row
    BY <2>1, <2>2, ConcludedRow DEF Succeeded, Claim
  <2>5. /\ FailedAfter(held[r].plan, held[r].attempt, result[r].at).status # "NONE"
        /\ Succeeded(held[r].plan).status # "NONE"
    BY <2>1 DEF FailedAfter, Succeeded, Claim, Row
  <2> QED
    BY <1>5, <2>3, <2>4, <2>5 DEF Finish
<1>6. ASSUME NEW r \in Runners, ClaimError(r) PROVE RowsOK'
  <2>1. ASSUME NEW p \in Plans, exec[p].attempt < MaxAttempts,
               exec' = [exec EXCEPT ![p] = Leased(p, exec[p].attempt + 1, tickNow[r])]
        PROVE  RowsOK'
    <3>1. tickNow[r] + StaleTimeout \in Nat
      BY SpecAssumption, BoundsAssumption DEF RunnersOK
    <3>2. Leased(p, exec[p].attempt + 1, tickNow[r]) \in Row
      BY <2>1, <3>1, SpecAssumption DEF Leased, Row
    <3>3. Leased(p, exec[p].attempt + 1, tickNow[r]).status # "NONE"
      BY DEF Leased
    <3> QED
      BY <2>1, <3>2, <3>3
  <2> QED
    BY <1>6, <2>1, LostClaim
<1> QED
  BY <1>1, <1>2, <1>3, <1>4, <1>5, <1>6
  DEF Next, Step, Fault, Advance, Tick, Plan, ClaimConflict, HandlerReturns, Restart,
      MarkStaleError, PlanError, FinishError, Crash, row, vars

LEMMA RunnersStep == TypeOK /\ [Next]_vars => RunnersOK'
<1> SUFFICES ASSUME TypeOK, [Next]_vars PROVE RunnersOK'
  OBVIOUS
<1> USE DEF TypeOK, RunnersOK, row, local
<1>1. CASE Advance \/ UNCHANGED vars
  BY <1>1 DEF Advance, vars
<1>2. ASSUME NEW r \in Runners, Tick(r) PROVE RunnersOK'
  BY <1>2, BoundsAssumption DEF Tick, ClockOK
<1>3. ASSUME NEW r \in Runners, MarkStale(r) \/ MarkStaleError(r) PROVE RunnersOK'
  BY <1>3 DEF MarkStale, MarkStaleError
<1>4. ASSUME NEW r \in Runners, Plan(r) \/ PlanError(r) PROVE RunnersOK'
  BY <1>4, PlannedArePlans, BoundsAssumption DEF Plan, PlanError, EndTick
<1>5. ASSUME NEW r \in Runners, ClaimInsert(r) \/ ClaimSteal(r) PROVE RunnersOK'
  <2>1. PICK p \in Plans : Granted(r, p, tickNow[r])
    BY <1>5, GrantedClaim
  <2> QED
    BY <2>1 DEF Granted
<1>6. ASSUME NEW r \in Runners, ClaimConflict(r) \/ ClaimError(r) PROVE RunnersOK'
  BY <1>6, BoundsAssumption DEF ClaimConflict, ClaimError, DropPlan, EndTick
<1>7. ASSUME NEW r \in Runners, Heartbeat(r) PROVE RunnersOK'
  BY <1>7 DEF Heartbeat
<1>8. ASSUME NEW r \in Runners, HandlerReturns(r) PROVE RunnersOK'
  BY <1>8, BoundsAssumption DEF HandlerReturns, ClockOK
<1>9. ASSUME NEW r \in Runners, Finish(r) \/ FinishError(r) PROVE RunnersOK'
  BY <1>9, BoundsAssumption DEF Finish, FinishError, Release, EndTick, NoResult
<1>10. ASSUME NEW r \in Runners, Crash(r) PROVE RunnersOK'
  <2>1. NoResult \in [outcome : {"none", "ok", "error"}, at : Nat] /\ 0 \in 0..Horizon
    BY BoundsAssumption DEF NoResult
  <2> QED
    BY <1>10, <2>1 DEF Crash
<1>11. ASSUME NEW r \in Runners, Restart(r) PROVE RunnersOK'
  BY <1>11 DEF Restart
<1> QED
  BY <1>1, <1>2, <1>3, <1>4, <1>5, <1>6, <1>7, <1>8, <1>9, <1>10, <1>11 DEF Next, Step, Fault

LEMMA ClaimsStep == TypeOK /\ [Next]_vars => ClaimsOK'
<1> SUFFICES ASSUME TypeOK, [Next]_vars PROVE ClaimsOK'
  OBVIOUS
<1> USE DEF TypeOK, RunnersOK, ClaimsOK, row, local, Busy
<1>1. CASE UNCHANGED <<pc, held>>
  BY <1>1
<1>2. ASSUME NEW r \in Runners,
             Tick(r) \/ MarkStale(r) \/ Plan(r) \/ ClaimConflict(r) \/ Restart(r)
      PROVE  ClaimsOK'
  BY <1>2 DEF Tick, MarkStale, Plan, ClaimConflict, Restart, DropPlan, EndTick
<1>3. ASSUME NEW r \in Runners, MarkStaleError(r) \/ PlanError(r) \/ ClaimError(r)
      PROVE  ClaimsOK'
  BY <1>3 DEF MarkStaleError, PlanError, ClaimError, DropPlan, EndTick
<1>4. ASSUME NEW r \in Runners, ClaimInsert(r) \/ ClaimSteal(r) PROVE ClaimsOK'
  <2>1. PICK p \in Plans : /\ Granted(r, p, tickNow[r])
                           /\ exec[p].attempt < MaxAttempts
    BY <1>4, GrantedClaim
  <2>2. [plan |-> p, token |-> exec[p].token + 1, attempt |-> exec[p].attempt + 1,
         started |-> now, until |-> tickNow[r] + StaleTimeout] \in Claim
    BY <2>1, SpecAssumption, BoundsAssumption DEF Claim, RowsOK, Row, ClockOK
  <2> QED
    BY <2>1, <2>2 DEF Granted
<1>5. ASSUME NEW r \in Runners, Heartbeat(r) PROVE ClaimsOK'
  <2>1. held[r] \in Claim
    BY <1>5 DEF Heartbeat
  <2>2. now + StaleTimeout \in Nat
    BY SpecAssumption, BoundsAssumption DEF ClockOK
  <2>3. [held[r] EXCEPT !.until = now + StaleTimeout] \in Claim
    BY <2>1, <2>2, ClaimRenewed
  <2> QED
    BY <1>5, <2>3 DEF Heartbeat
<1>6. ASSUME NEW r \in Runners, HandlerReturns(r) PROVE ClaimsOK'
  BY <1>6 DEF HandlerReturns
<1>7. ASSUME NEW r \in Runners, Finish(r) \/ FinishError(r) PROVE ClaimsOK'
  BY <1>7 DEF Finish, FinishError, Release, EndTick
<1>8. ASSUME NEW r \in Runners, Crash(r) PROVE ClaimsOK'
  BY <1>8 DEF Crash
<1> QED
  BY <1>1, <1>2, <1>3, <1>4, <1>5, <1>6, <1>7, <1>8 DEF Next, Step, Fault, Advance, vars

\* No step writes a value a column, a clock reading or a claim may not have:
\* in particular no plan is attempted more than MaxAttempts times, and a
\* runner has a claim exactly while it is between a grant and its verdict.
THEOREM TypeCorrect == Spec => []TypeOK
<1>1. TypeOK /\ [Next]_vars => TypeOK'
  BY ClockStep, RowsStep, RunnersStep, ClaimsStep DEF TypeOK
<1> QED
  BY <1>1, TypeInit, PTL DEF Spec

----------------------------------------------------------------------------
(* The lease.  LeaseInv alone is not inductive: it needs that a tick's     *)
(* clock reading is never ahead of the clock, and that two claims on one   *)
(* row never carry the same token.                                         *)

TickBehind == \A r \in Runners : tickNow[r] <= now

TokensDistinct ==
    \A r \in Runners : Busy(r) =>
        /\ held[r].token <= exec[held[r].plan].token
        /\ \A s \in Runners \ {r} :
              Busy(s) /\ held[s].plan = held[r].plan => held[s].token # held[r].token

LeaseIInv == TypeOK /\ TickBehind /\ TokensDistinct /\ LeaseInv

LEMMA LeaseInit == Init => TickBehind /\ TokensDistinct /\ LeaseInv
  BY BoundsAssumption DEF Init, TickBehind, TokensDistinct, LeaseInv, Busy

LEMMA TickBehindStep == TypeOK /\ TickBehind /\ [Next]_vars => TickBehind'
<1> SUFFICES ASSUME TypeOK, TickBehind, [Next]_vars PROVE TickBehind'
  OBVIOUS
<1> USE BoundsAssumption DEF TypeOK, ClockOK, RunnersOK, TickBehind, row, local
<1>1. CASE Advance
  BY <1>1 DEF Advance
<1>2. CASE UNCHANGED <<now, tickNow>>
  BY <1>2
<1>3. ASSUME NEW r \in Runners, Tick(r) PROVE TickBehind'
  BY <1>3 DEF Tick
<1>4. ASSUME NEW r \in Runners, EndTick(r), UNCHANGED now PROVE TickBehind'
  BY <1>4 DEF EndTick
<1>5. ASSUME NEW r \in Runners, Crash(r) PROVE TickBehind'
  BY <1>5 DEF Crash
<1> QED
  BY <1>1, <1>2, <1>3, <1>4, <1>5
  DEF Next, Step, Fault, MarkStale, Plan, ClaimInsert, ClaimSteal, ClaimConflict, Granted, DropPlan,
      HandlerReturns, Finish, Restart, Heartbeat, MarkStaleError, PlanError, ClaimError,
      FinishError, Release, vars

\* No runner gets a claim, and no row goes back to an earlier token.
NoNewClaim ==
    /\ \A p \in Plans : exec'[p].token \in {exec[p].token, exec[p].token + 1}
    /\ \A r \in Runners : Busy(r)' => /\ Busy(r)
                                      /\ held'[r].plan = held[r].plan
                                      /\ held'[r].token = held[r].token

\* A beat that found its row: the statement and the runner's view of it.
Beaten(r) ==
    /\ exec' = [exec EXCEPT ![held[r].plan].staleAfter = now + StaleTimeout]
    /\ held' = [held EXCEPT ![r].until = now + StaleTimeout]
    /\ UNCHANGED <<now, pc>>

\* Only a grant makes a claim.
LEMMA OnlyGrantsClaim ==
  ASSUME TypeOK, [Next]_vars
  PROVE  \/ NoNewClaim
         \/ \E r \in Runners : ClaimInsert(r) \/ ClaimSteal(r)
<1> USE DEF NoNewClaim, Busy, row, local
<1>1. CASE UNCHANGED <<exec, held, pc>>
  BY <1>1
<1>2. ASSUME NEW r \in Runners,
             Tick(r) \/ Plan(r) \/ ClaimConflict(r) \/ Restart(r) \/ MarkStaleError(r)
               \/ PlanError(r) \/ HandlerReturns(r)
      PROVE  NoNewClaim
  BY <1>2 DEF Tick, Plan, ClaimConflict, Restart, MarkStaleError, PlanError,
              HandlerReturns, DropPlan, EndTick, TypeOK, RunnersOK
<1>3. ASSUME NEW r \in Runners, MarkStale(r) PROVE NoNewClaim
  <2>1. ASSUME NEW p \in Plans PROVE exec'[p].token = exec[p].token
    <3>1. exec[p] \in Row
      BY DEF TypeOK, RowsOK
    <3>2. \/ exec'[p] = exec[p]
          \/ exec'[p] = [exec[p] EXCEPT !.status = "FAILED", !.error = "stale_timeout"]
      BY <1>3 DEF MarkStale
    <3> QED
      BY <3>1, <3>2, SweptRow
  <2> QED
    BY <1>3, <2>1 DEF MarkStale, TypeOK, RunnersOK
<1>4. ASSUME NEW r \in Runners, Heartbeat(r) PROVE NoNewClaim
  <2>1. CASE Owns(r)
    <3>1. held[r] \in Claim /\ held[r].plan \in Plans /\ now + StaleTimeout \in Nat
      BY <2>1, BusyFacts DEF Owns
    <3>2. Beaten(r)
      BY <1>4, <2>1 DEF Heartbeat, Beaten
    <3>3. ASSUME NEW p \in Plans PROVE exec'[p].token = exec[p].token
      <4>1. exec[p] \in Row
        BY DEF TypeOK, RowsOK
      <4>2. CASE p = held[r].plan
        <5>1. exec'[p] = [exec[p] EXCEPT !.staleAfter = now + StaleTimeout]
          BY <3>2, <4>2 DEF Beaten, TypeOK, RowsOK
        <5> QED
          BY <3>1, <4>1, <5>1, BeatenRow
      <4>3. CASE p # held[r].plan
        BY <3>2, <4>3 DEF Beaten, TypeOK, RowsOK
      <4> QED
        BY <4>2, <4>3
    <3>4. held'[r].plan = held[r].plan /\ held'[r].token = held[r].token
      <4>1. held'[r] = [held[r] EXCEPT !.until = now + StaleTimeout]
        BY <3>2 DEF Beaten, TypeOK, ClaimsOK
      <4> QED
        BY <3>1, <4>1, ClaimRenewed
    <3>5. \A s \in Runners \ {r} : held'[s] = held[s]
      BY <3>2 DEF Beaten, TypeOK, ClaimsOK
    <3> QED
      BY <3>2, <3>3, <3>4, <3>5 DEF Beaten
  <2>2. CASE ~ Owns(r)
    BY <1>4, <2>2 DEF Heartbeat
  <2> QED
    BY <2>1, <2>2
<1>5. ASSUME NEW r \in Runners, Finish(r) \/ FinishError(r) PROVE NoNewClaim
  <2>1. ASSUME NEW p \in Plans PROVE exec'[p].token = exec[p].token
    <3>1. CASE Finish(r) /\ Owns(r)
      BY <3>1, VerdictWrites
    <3>2. CASE ~ (Finish(r) /\ Owns(r))
      BY <1>5, <3>2 DEF Finish, FinishError
    <3> QED
      BY <3>1, <3>2
  <2> QED
    BY <1>5, <2>1 DEF Finish, FinishError, Release, EndTick, TypeOK, RunnersOK, ClaimsOK
<1>6. ASSUME NEW r \in Runners, Crash(r) PROVE NoNewClaim
  BY <1>6 DEF Crash, TypeOK, RunnersOK, ClaimsOK
<1>7. ASSUME NEW r \in Runners, ClaimError(r) PROVE NoNewClaim
  <2>1. \A p \in Plans : exec'[p].token \in {exec[p].token, exec[p].token + 1}
    <3>1. \A p \in Plans : Leased(p, exec[p].attempt + 1, tickNow[r]).token = exec[p].token + 1
      BY DEF Leased
    <3> QED
      BY <1>7, <3>1, LostClaim
  <2>2. UNCHANGED held /\ \A s \in Runners : Busy(s)' <=> Busy(s)
    BY <1>7, LostClaim
  <2> QED
    BY <2>1, <2>2
<1> QED
  BY <1>1, <1>2, <1>3, <1>4, <1>5, <1>6, <1>7 DEF Next, Step, Fault, Advance, vars

\* A grant gives its runner a token the row never had, and changes no other claim.
LEMMA GrantIsFresh ==
  ASSUME TypeOK, NEW r \in Runners, ClaimInsert(r) \/ ClaimSteal(r)
  PROVE  \E p \in Plans :
           /\ exec[p].status # "SUCCESS" /\ exec[p].attempt < MaxAttempts
           /\ exec[p].status = "RUNNING" => exec[p].staleAfter < tickNow[r]
           /\ exec' = [exec EXCEPT ![p] = Leased(p, exec[p].attempt + 1, tickNow[r])]
           /\ held'[r].plan = p
           /\ held'[r].token = exec[p].token + 1
           /\ held'[r].until = tickNow[r] + StaleTimeout
           /\ held'[r].started = now
           /\ \A s \in Runners \ {r} : held'[s] = held[s] /\ (Busy(s)' <=> Busy(s))
           /\ Busy(r)' /\ ~ Busy(r)
           /\ UNCHANGED now
<1>1. PICK p \in Plans : /\ Granted(r, p, tickNow[r])
                         /\ exec[p].status # "SUCCESS" /\ exec[p].attempt < MaxAttempts
                         /\ exec[p].status = "RUNNING" => exec[p].staleAfter < tickNow[r]
  BY GrantedClaim
<1>2. pc[r] = "claim"
  BY DEF ClaimInsert, ClaimSteal
<1>3. /\ held'[r].plan = p /\ held'[r].token = exec[p].token + 1
      /\ held'[r].until = tickNow[r] + StaleTimeout /\ held'[r].started = now
  BY <1>1 DEF Granted, TypeOK, ClaimsOK
<1>4. /\ \A s \in Runners \ {r} : held'[s] = held[s] /\ (Busy(s)' <=> Busy(s))
      /\ Busy(r)' /\ ~ Busy(r)
  BY <1>1, <1>2 DEF Granted, TypeOK, RunnersOK, ClaimsOK, Busy
<1> QED
  BY <1>1, <1>3, <1>4 DEF Granted

LEMMA TokensDistinctStep ==
  TypeOK /\ TokensDistinct /\ [Next]_vars => TokensDistinct'
<1> SUFFICES ASSUME TypeOK, TokensDistinct, [Next]_vars PROVE TokensDistinct'
  OBVIOUS
<1>1. CASE NoNewClaim
  <2>1. \A r \in Runners : Busy(r) => held[r].plan \in Plans /\ held[r].token \in Nat
    BY DEF TypeOK, ClaimsOK, Claim
  <2>2. \A p \in Plans : exec[p].token \in Nat
    BY DEF TypeOK, RowsOK, Row
  <2> QED
    BY <1>1, <2>1, <2>2 DEF NoNewClaim, TokensDistinct
<1>2. ASSUME NEW r \in Runners, ClaimInsert(r) \/ ClaimSteal(r) PROVE TokensDistinct'
  <2>1. PICK p \in Plans :
           /\ exec' = [exec EXCEPT ![p] = Leased(p, exec[p].attempt + 1, tickNow[r])]
           /\ held'[r].plan = p
           /\ held'[r].token = exec[p].token + 1
           /\ \A s \in Runners \ {r} : held'[s] = held[s] /\ (Busy(s)' <=> Busy(s))
    BY <1>2, GrantIsFresh
  <2>2. \A q \in Plans : /\ exec[q].token \in Nat
                         /\ exec'[q].token = IF q = p THEN exec[p].token + 1 ELSE exec[q].token
    BY <2>1 DEF TypeOK, RowsOK, Row, Leased
  <2>3. \A s \in Runners : Busy(s) => held[s].plan \in Plans /\ held[s].token \in Nat
    BY DEF TypeOK, ClaimsOK, Claim
  <2>4. ASSUME NEW s \in Runners \ {r}, Busy(s)
        PROVE  /\ held'[s].token <= exec'[held'[s].plan].token
               /\ held'[s].plan = p => held'[s].token < held'[r].token
    BY <2>1, <2>2, <2>3, <2>4 DEF TokensDistinct
  <2> QED
    BY <2>1, <2>2, <2>3, <2>4 DEF TokensDistinct
<1> QED
  BY <1>1, <1>2, OnlyGrantsClaim

\* Two runners that own their rows work on different plans.
LEMMA OneOwner ==
  ASSUME TokensDistinct, NEW r \in Runners, NEW s \in Runners, r # s, Owns(r), Owns(s)
  PROVE  held[r].plan # held[s].plan
BY DEF TokensDistinct, Owns

\* A claim whose row the step leaves alone stays fenced.
LEMMA FencedKept ==
  ASSUME NEW s \in Runners, Fenced(s), Busy(s)', held'[s] = held[s], UNCHANGED now,
         exec'[held[s].plan] = exec[held[s].plan]
  PROVE  Fenced(s)'
BY DEF Fenced, Owns

LEMMA LeaseInvStep == LeaseIInv /\ [Next]_vars => LeaseInv'
<1> SUFFICES ASSUME LeaseIInv, [Next]_vars, NEW s \in Runners, Busy(s)'
             PROVE  Fenced(s)'
  BY DEF LeaseInv
<1> USE DEF LeaseIInv, row, local
<1>1. Busy(s) => Fenced(s) /\ held[s] \in Claim /\ held[s].plan \in Plans
  BY DEF LeaseInv, TypeOK, ClaimsOK, Claim
<1>2. \A p \in Plans : exec[p] \in Row
  BY DEF TypeOK, RowsOK
<1>3. CASE Advance
  <2>1. Busy(s) /\ held[s] \in Claim /\ UNCHANGED <<held, exec>> /\ now' = now + 1 /\ now \in Nat
    BY <1>1, <1>3, BoundsAssumption DEF Advance, Busy, TypeOK, ClockOK
  <2> QED
    BY <1>1, <2>1 DEF Fenced, Owns, Claim
<1>4. CASE UNCHANGED <<now, exec, held>> /\ Busy(s)
  BY <1>1, <1>4, FencedKept
<1>5. ASSUME NEW r \in Runners, MarkStale(r) PROVE Fenced(s)'
  <2>1. Busy(s) /\ held'[s] = held[s] /\ UNCHANGED now
    BY <1>5 DEF MarkStale, Busy, TypeOK, RunnersOK
  <2>2. CASE Expired(held[s].plan, tickNow[r])
    <3>1. exec[held[s].plan].staleAfter < now
      BY <1>1, <1>2, <2>1, <2>2, BoundsAssumption
      DEF Expired, TickBehind, TypeOK, ClockOK, RunnersOK, Row
    <3>2. held[s].until < now
      BY <1>1, <2>1, <3>1 DEF Fenced
    <3> QED
      BY <2>1, <3>2 DEF Fenced
  <2>3. CASE ~ Expired(held[s].plan, tickNow[r])
    BY <1>1, <1>5, <2>1, <2>3, FencedKept DEF MarkStale
  <2> QED
    BY <2>2, <2>3
<1>6. ASSUME NEW r \in Runners, ClaimInsert(r) \/ ClaimSteal(r) PROVE Fenced(s)'
  <2>1. PICK p \in Plans :
           /\ exec[p].status = "RUNNING" => exec[p].staleAfter < tickNow[r]
           /\ exec' = [exec EXCEPT ![p] = Leased(p, exec[p].attempt + 1, tickNow[r])]
           /\ held'[r].plan = p
           /\ held'[r].token = exec[p].token + 1
           /\ held'[r].until = tickNow[r] + StaleTimeout
           /\ \A z \in Runners \ {r} : held'[z] = held[z] /\ (Busy(z)' <=> Busy(z))
           /\ UNCHANGED now
    BY <1>6, GrantIsFresh
  <2>2. CASE s = r
    <3>1. exec'[p] = Leased(p, exec[p].attempt + 1, tickNow[r])
      BY <2>1 DEF TypeOK, RowsOK
    <3> QED
      BY <2>1, <2>2, <3>1 DEF Fenced, Owns, Leased
  <2>3. CASE s # r /\ held[s].plan # p
    <3>1. Busy(s) /\ held'[s] = held[s] /\ exec'[held[s].plan] = exec[held[s].plan]
      BY <1>1, <2>1, <2>3 DEF TypeOK, RowsOK
    <3> QED
      BY <1>1, <2>1, <3>1, FencedKept
  <2>4. CASE s # r /\ held[s].plan = p
    <3>1. Busy(s) /\ held'[s] = held[s]
      BY <2>1, <2>4
    <3>2. Owns(s) => exec[p].staleAfter < now
      BY <1>2, <2>1, <2>4, BoundsAssumption
      DEF Owns, TickBehind, TypeOK, ClockOK, RunnersOK, Row
    <3>3. held[s].until < now
      BY <1>1, <2>4, <3>1, <3>2 DEF Fenced
    <3> QED
      BY <2>1, <3>1, <3>3 DEF Fenced
  <2> QED
    BY <2>2, <2>3, <2>4
<1>7. ASSUME NEW r \in Runners, Heartbeat(r), Owns(r) PROVE Fenced(s)'
  <2>1. Beaten(r) /\ Busy(s)
    BY <1>7 DEF Heartbeat, Beaten, Busy
  <2>2. held[r] \in Claim /\ held[r].plan \in Plans /\ now + StaleTimeout \in Nat
    BY <1>7, BusyFacts DEF Owns
  <2>3. CASE s = r
    <3>1. exec'[held[r].plan] = [exec[held[r].plan] EXCEPT !.staleAfter = now + StaleTimeout]
      BY <2>1, <2>2 DEF Beaten, TypeOK, RowsOK
    <3>2. held'[r] = [held[r] EXCEPT !.until = now + StaleTimeout]
      BY <2>1 DEF Beaten, TypeOK, ClaimsOK
    <3>3. /\ exec'[held[r].plan].staleAfter = now + StaleTimeout
          /\ exec'[held[r].plan].status = exec[held[r].plan].status
          /\ exec'[held[r].plan].token = exec[held[r].plan].token
      BY <1>2, <2>2, <3>1, BeatenRow
    <3>4. /\ held'[r].plan = held[r].plan /\ held'[r].token = held[r].token
          /\ held'[r].until = now + StaleTimeout
      BY <2>2, <3>2, ClaimRenewed
    <3> QED
      BY <1>7, <2>3, <3>3, <3>4 DEF Fenced, Owns
  <2>4. CASE s # r
    <3>1. held'[s] = held[s] /\ UNCHANGED now
      BY <2>1, <2>4 DEF Beaten, TypeOK, ClaimsOK
    <3>2. CASE held[s].plan # held[r].plan
      <4>1. exec'[held[s].plan] = exec[held[s].plan]
        BY <1>1, <2>1, <3>2 DEF Beaten, TypeOK, RowsOK
      <4> QED
        BY <1>1, <2>1, <3>1, <4>1, FencedKept
    <3>3. CASE held[s].plan = held[r].plan
      <4>1. held[s].until < now
        BY <1>1, <1>7, <2>1, <2>4, <3>3, OneOwner DEF Fenced
      <4> QED
        BY <3>1, <4>1 DEF Fenced
    <3> QED
      BY <3>2, <3>3
  <2> QED
    BY <2>3, <2>4
<1>8. ASSUME NEW r \in Runners, Finish(r), Owns(r) PROVE Fenced(s)'
  <2>1. s # r /\ Busy(s) /\ held'[s] = held[s] /\ UNCHANGED now
    BY <1>8 DEF Finish, Release, EndTick, Busy, TypeOK, RunnersOK, ClaimsOK
  <2>2. CASE held[s].plan # held[r].plan
    <3>1. exec'[held[s].plan] = exec[held[s].plan]
      BY <1>1, <1>8, <2>1, <2>2, VerdictWrites
    <3> QED
      BY <1>1, <2>1, <3>1, FencedKept
  <2>3. CASE held[s].plan = held[r].plan
    <3>1. held[s].until < now
      BY <1>1, <1>8, <2>1, <2>3, OneOwner DEF Fenced
    <3> QED
      BY <2>1, <3>1 DEF Fenced
  <2> QED
    BY <2>2, <2>3
<1>9. ASSUME NEW r \in Runners,
             (Finish(r) /\ ~ Owns(r)) \/ FinishError(r) \/ Crash(r)
      PROVE  Fenced(s)'
  <2>1. Busy(s) /\ held'[s] = held[s] /\ UNCHANGED <<now, exec>>
    BY <1>9 DEF Finish, FinishError, Crash, Release, EndTick, Busy, TypeOK, RunnersOK, ClaimsOK
  <2> QED
    BY <1>1, <2>1, FencedKept
<1>10. ASSUME NEW r \in Runners,
              \/ Tick(r) \/ Plan(r) \/ ClaimConflict(r) \/ Restart(r)
              \/ MarkStaleError(r) \/ PlanError(r)
              \/ HandlerReturns(r) \/ (Heartbeat(r) /\ ~ Owns(r))
       PROVE  Fenced(s)'
  <2>1. UNCHANGED <<now, exec, held>> /\ Busy(s)
    BY <1>10
    DEF Tick, Plan, ClaimConflict, Restart, MarkStaleError, PlanError,
        HandlerReturns, Heartbeat, DropPlan, EndTick, Busy, TypeOK, RunnersOK
  <2> QED
    BY <1>4, <2>1
<1>11. CASE UNCHANGED vars
  BY <1>4, <1>11 DEF vars, Busy
<1>12. ASSUME NEW r \in Runners, ClaimError(r) PROVE Fenced(s)'
  <2>1. Busy(s) /\ held'[s] = held[s] /\ UNCHANGED now
    BY <1>12, LostClaim
  <2>2. CASE exec'[held[s].plan] = exec[held[s].plan]
    BY <1>1, <2>1, <2>2, FencedKept
  <2>3. CASE exec'[held[s].plan] # exec[held[s].plan]
    <3>1. exec[held[s].plan].status = "RUNNING" => exec[held[s].plan].staleAfter < tickNow[r]
      BY <1>1, <1>12, <2>1, <2>3, LostClaim
    <3>2. Owns(s) => exec[held[s].plan].staleAfter < now
      BY <1>1, <1>2, <2>1, <3>1, BoundsAssumption
      DEF Owns, TickBehind, TypeOK, ClockOK, RunnersOK, Row
    <3>3. held[s].until < now
      BY <1>1, <2>1, <3>2 DEF Fenced
    <3> QED
      BY <2>1, <3>3 DEF Fenced
  <2> QED
    BY <2>2, <2>3
<1> QED
  BY <1>3, <1>5, <1>6, <1>7, <1>8, <1>9, <1>10, <1>11, <1>12 DEF Next, Step, Fault

LEMMA LeaseStep == LeaseIInv /\ [Next]_vars => LeaseIInv'
BY ClockStep, RowsStep, RunnersStep, ClaimsStep, TickBehindStep, TokensDistinctStep,
   LeaseInvStep DEF LeaseIInv, TypeOK

\* Everything the lease theorems rest on holds in every reachable state.
LEMMA LeaseInvariant == Spec => []LeaseIInv
<1>1. Init => LeaseIInv
  BY TypeInit, LeaseInit DEF LeaseIInv
<1> QED
  BY <1>1, LeaseStep, PTL DEF Spec

\* A handler is always fenced: it owns its row, which expires exactly when
\* the runner believes, or its lease has run out.
THEOREM LeaseFences == Spec => []LeaseInv
BY LeaseInvariant, PTL DEF LeaseIInv

\* A runner inside its lease owns its row.
LEMMA InLeaseOwns ==
  ASSUME LeaseIInv, NEW r \in Runners, InLease(r)
  PROVE  Owns(r)
BY BoundsAssumption DEF LeaseIInv, LeaseInv, Fenced, InLease, TypeOK, ClockOK, ClaimsOK, Claim

\* No two runners, inside their leases, work on one plan.
THEOREM LeaseIsExclusive == Spec => []LeaseExclusive
<1>1. LeaseIInv => LeaseExclusive
  <2> SUFFICES ASSUME LeaseIInv, NEW r \in Runners, NEW s \in Runners,
                      r # s, InLease(r), InLease(s)
               PROVE  held[r].plan # held[s].plan
    BY DEF LeaseExclusive
  <2>1. Owns(r) /\ Owns(s)
    BY InLeaseOwns
  <2> QED
    BY <2>1, OneOwner DEF LeaseIInv
<1> QED
  BY <1>1, LeaseInvariant, PTL

\* A handler within its RunTimeout owns its row, if the clock reading its tick
\* started with was fresh enough when it claimed.
THEOREM LeaseCoversFreshRun == Spec => []LeaseCoversRun
<1>1. LeaseIInv => LeaseCoversRun
  <2> SUFFICES ASSUME LeaseIInv, NEW r \in Runners,
                      pc[r] = "run", FreshClaim(r), now <= held[r].started + RunTimeout
               PROVE  Owns(r)
    BY DEF LeaseCoversRun
  <2>1. Busy(r) /\ held[r] \in Claim /\ now \in Nat
    BY BoundsAssumption DEF Busy, LeaseIInv, TypeOK, ClockOK, ClaimsOK
  <2>2. now <= held[r].until
    BY <2>1, SpecAssumption DEF FreshClaim, Claim
  <2> QED
    BY <2>1, <2>2, InLeaseOwns DEF InLease
<1> QED
  BY <1>1, LeaseInvariant, PTL

\* The verdict of a handler that ends inside its lease reaches the row.
THEOREM VerdictsAreRecorded == Spec => VerdictRecorded
<1> DEFINE Recording(r) ==
             Finish(r) /\ InLease(r) =>
                 exec'[held[r].plan].status =
                     IF result[r].outcome = "ok" THEN "SUCCESS" ELSE "FAILED"
<1>1. LeaseIInv => \A r \in Runners : Recording(r)
  BY InLeaseOwns, VerdictWrites DEF LeaseIInv
<1>2. LeaseIInv => [\A r \in Runners : Recording(r)]_vars
  BY <1>1
<1> QED
  BY <1>2, LeaseInvariant, PTL DEF VerdictRecorded

----------------------------------------------------------------------------
(* The refinement of PlanLedger.  Every step of the scheduler is a step of *)
(* the ledger or leaves stage, tries and owner alone.                      *)

\* With distinct tokens, Owner is the one runner that owns the plan's row.
LEMMA OwnerIsUnique ==
  ASSUME TokensDistinct, NEW p \in Plans
  PROVE  /\ \A r \in Runners : OwnsPlan(r, p) => Owner(p) = r
         /\ (\A r \in Runners : ~ OwnsPlan(r, p)) => Owner(p) = Nobody
<1>1. ASSUME NEW r \in Runners, OwnsPlan(r, p) PROVE Owner(p) = r
  <2>1. \A s \in Runners : OwnsPlan(s, p) => s = r
    BY <1>1, OneOwner DEF OwnsPlan
  <2> QED
    BY <1>1, <2>1 DEF Owner
<1> QED
  BY <1>1 DEF Owner

LEMMA OwnerIsUniqueNext ==
  ASSUME TokensDistinct', NEW p \in Plans
  PROVE  /\ \A r \in Runners : OwnsPlan(r, p)' => Owner(p)' = r
         /\ (\A r \in Runners : ~ OwnsPlan(r, p)') => Owner(p)' = Nobody
<1>1. ASSUME NEW r \in Runners, OwnsPlan(r, p)' PROVE Owner(p)' = r
  <2>1. \A s \in Runners : OwnsPlan(s, p)' => s = r
    BY <1>1 DEF TokensDistinct, Owns, OwnsPlan
  <2> QED
    BY <1>1, <2>1 DEF Owner
<1> QED
  BY <1>1 DEF Owner

\* The owners of a plan whose claims the step leaves alone.
LEMMA OwnerKept ==
  ASSUME TokensDistinct, TokensDistinct', NEW p \in Plans,
         \A r \in Runners : OwnsPlan(r, p)' <=> OwnsPlan(r, p)
  PROVE  Owner(p)' = Owner(p)
<1>1. CASE \E r \in Runners : OwnsPlan(r, p)
  BY <1>1, OwnerIsUnique, OwnerIsUniqueNext
<1>2. CASE \A r \in Runners : ~ OwnsPlan(r, p)
  BY <1>2, OwnerIsUnique, OwnerIsUniqueNext
<1> QED
  BY <1>1, <1>2

\* A step that changes no stage, no attempt and no ownership is a stutter.
LEMMA LedgerStutters ==
  ASSUME LeaseIInv, LeaseIInv',
         \A p \in Plans : exec'[p].status = exec[p].status /\ exec'[p].attempt = exec[p].attempt,
         \A r \in Runners, p \in Plans : OwnsPlan(r, p)' <=> OwnsPlan(r, p)
  PROVE  UNCHANGED Ledger!vars
<1>1. \A p \in Plans : Owner(p)' = Owner(p)
  BY OwnerKept DEF LeaseIInv
<1> QED
  BY <1>1 DEF Ledger!vars

\* A claim of the runner r on plan p is gone and the plan's row is as it was.
LEMMA LedgerAbandons ==
  ASSUME LeaseIInv, LeaseIInv', NEW r \in Runners, UNCHANGED exec, ~ Busy(r)',
         \A s \in Runners \ {r} : held'[s] = held[s] /\ (Busy(s)' <=> Busy(s))
  PROVE  [Ledger!Next]_(Ledger!vars)
<1>1. \A s \in Runners \ {r}, p \in Plans : OwnsPlan(s, p)' <=> OwnsPlan(s, p)
  BY DEF OwnsPlan, Owns
<1>2. \A p \in Plans : ~ OwnsPlan(r, p)'
  BY DEF OwnsPlan, Owns
<1>3. CASE Owns(r)
  <2>1. PICK p \in Plans : OwnsPlan(r, p) /\ exec[p].status = "RUNNING"
    BY <1>3 DEF OwnsPlan, Owns, LeaseIInv, TypeOK, ClaimsOK, Claim
  <2>2. held[r].plan = p /\ \A s \in Runners \ {r} : ~ OwnsPlan(s, p)
    BY <2>1, OneOwner DEF OwnsPlan, LeaseIInv
  <2>3. \A q \in Plans \ {p} : Owner(q)' = Owner(q)
    <3>1. \A s \in Runners, q \in Plans \ {p} : OwnsPlan(s, q)' <=> OwnsPlan(s, q)
      BY <1>1, <1>2, <2>2 DEF OwnsPlan
    <3> QED
      BY <3>1, OwnerKept DEF LeaseIInv
  <2>5. Owner(p)' = Nobody
    BY <1>1, <1>2, <2>2, OwnerIsUniqueNext DEF LeaseIInv
  <2>6. Ledger!Abandon(p)
    BY <2>1, <2>3, <2>5 DEF Ledger!Abandon
  <2> QED
    BY <2>1, <2>6 DEF Ledger!Next
<1>4. CASE ~ Owns(r)
  BY <1>1, <1>2, <1>4, LedgerStutters DEF OwnsPlan
<1> QED
  BY <1>3, <1>4

LEMMA LedgerStep == LeaseIInv /\ LeaseIInv' /\ [Next]_vars => [Ledger!Next]_(Ledger!vars)
<1> SUFFICES ASSUME LeaseIInv, LeaseIInv', [Next]_vars
             PROVE  [Ledger!Next]_(Ledger!vars)
  OBVIOUS
<1> USE DEF row, local
<1>0. TypeOK /\ TokensDistinct /\ TokensDistinct'
  BY DEF LeaseIInv
<1>1. ASSUME UNCHANGED <<exec, held>>, \A r \in Runners : Busy(r)' <=> Busy(r)
      PROVE  UNCHANGED Ledger!vars
  BY <1>1, LedgerStutters DEF OwnsPlan, Owns
<1>2. CASE Advance \/ UNCHANGED vars
  BY <1>1, <1>2 DEF Advance, Busy, vars
<1>3. ASSUME NEW r \in Runners,
             \/ Tick(r) \/ Plan(r) \/ ClaimConflict(r) \/ Restart(r)
             \/ MarkStaleError(r) \/ PlanError(r)
             \/ HandlerReturns(r) \/ (Heartbeat(r) /\ ~ Owns(r))
      PROVE  UNCHANGED Ledger!vars
  <2>1. UNCHANGED <<exec, held>> /\ \A s \in Runners : Busy(s)' <=> Busy(s)
    BY <1>3, <1>0
    DEF Tick, Plan, ClaimConflict, Restart, MarkStaleError, PlanError,
        HandlerReturns, Heartbeat, DropPlan, EndTick, Busy, TypeOK, RunnersOK
  <2> QED
    BY <1>1, <2>1
<1>4. ASSUME NEW r \in Runners, MarkStale(r) PROVE [Ledger!Next]_(Ledger!vars)
  <2>0. PICK S \in SUBSET Plans : S = {p \in Plans : Expired(p, tickNow[r])}
    OBVIOUS
  <2>1. \A s \in Runners : held'[s] = held[s] /\ (Busy(s)' <=> Busy(s))
    BY <1>0, <1>4 DEF MarkStale, Busy, TypeOK, RunnersOK
  <2>2. ASSUME NEW p \in S
        PROVE  /\ exec'[p].status = "FAILED" /\ exec'[p].attempt = exec[p].attempt
               /\ exec[p].status = "RUNNING"
    <3>1. exec[p] \in Row
      BY <1>0, <2>0 DEF TypeOK, RowsOK
    <3>2. exec'[p] = [exec[p] EXCEPT !.status = "FAILED", !.error = "stale_timeout"]
      BY <1>4, <2>0 DEF MarkStale
    <3>3. exec'[p].status = "FAILED" /\ exec'[p].attempt = exec[p].attempt
      BY <3>1, <3>2, SweptRow
    <3> QED
      BY <2>0, <3>3 DEF Expired
  <2>3. \A p \in Plans \ S : exec'[p] = exec[p]
    BY <1>4, <2>0 DEF MarkStale
  <2>5. \A p \in S : Owner(p)' = Nobody
    <3>1. \A z \in Runners, p \in S : ~ OwnsPlan(z, p)'
      BY <2>2 DEF OwnsPlan, Owns
    <3> QED
      BY <1>0, <3>1, OwnerIsUniqueNext
  <2>6. \A p \in Plans \ S : Owner(p)' = Owner(p)
    <3>1. \A z \in Runners, p \in Plans \ S : OwnsPlan(z, p)' <=> OwnsPlan(z, p)
      BY <2>1, <2>3 DEF OwnsPlan, Owns
    <3> QED
      BY <1>0, <3>1, OwnerKept
  <2>7. Ledger!Expire(S)
    BY <2>2, <2>3, <2>5, <2>6 DEF Ledger!Expire
  <2>8. Ledger!Next
    BY <2>7 DEF Ledger!Next
  <2> QED
    BY <2>8
<1>5. ASSUME NEW r \in Runners, ClaimInsert(r) \/ ClaimSteal(r)
      PROVE  [Ledger!Next]_(Ledger!vars)
  <2>1. PICK p \in Plans :
           /\ exec[p].status # "SUCCESS" /\ exec[p].attempt < MaxAttempts
           /\ exec' = [exec EXCEPT ![p] = Leased(p, exec[p].attempt + 1, tickNow[r])]
           /\ held'[r].plan = p
           /\ held'[r].token = exec[p].token + 1
           /\ \A s \in Runners \ {r} : held'[s] = held[s] /\ (Busy(s)' <=> Busy(s))
           /\ Busy(r)' /\ ~ Busy(r)
    BY <1>0, <1>5, GrantIsFresh
  <2>2. /\ exec'[p] = Leased(p, exec[p].attempt + 1, tickNow[r])
        /\ \A q \in Plans \ {p} : exec'[q] = exec[q]
    BY <1>0, <2>1 DEF TypeOK, RowsOK
  <2>3. /\ exec'[p].status = "RUNNING" /\ exec'[p].attempt = exec[p].attempt + 1
        /\ exec'[p].token = exec[p].token + 1
    BY <2>2 DEF Leased
  <2>4. \A q \in Plans \ {p} : Owner(q)' = Owner(q)
    <3>1. \A s \in Runners, q \in Plans \ {p} : OwnsPlan(s, q)' <=> OwnsPlan(s, q)
      BY <2>1, <2>2 DEF OwnsPlan, Owns
    <3> QED
      BY <1>0, <3>1, OwnerKept
  <2>5. Owner(p)' = r
    <3>1. OwnsPlan(r, p)'
      BY <2>1, <2>3 DEF OwnsPlan, Owns
    <3> QED
      BY <1>0, <3>1, OwnerIsUniqueNext
  <2>6. \A q \in Plans : /\ exec'[q].status = IF q = p THEN "RUNNING" ELSE exec[q].status
                         /\ exec'[q].attempt = IF q = p THEN exec[p].attempt + 1
                                                        ELSE exec[q].attempt
    BY <2>2, <2>3
  <2>7. Ledger!Attempt(p, r)
    <3>1. [q \in Plans |-> exec'[q].status]
            = [[q \in Plans |-> exec[q].status] EXCEPT ![p] = "RUNNING"]
      BY <2>6
    <3>2. [q \in Plans |-> exec'[q].attempt]
            = [[q \in Plans |-> exec[q].attempt] EXCEPT ![p] = @ + 1]
      BY <2>6
    <3>3. [q \in Plans |-> Owner(q)'] = [[q \in Plans |-> Owner(q)] EXCEPT ![p] = r]
      BY <2>4, <2>5
    <3> QED
      BY <2>1, <3>1, <3>2, <3>3 DEF Ledger!Attempt
  <2>8. Ledger!Next
    BY <2>7 DEF Ledger!Next
  <2> QED
    BY <2>8
<1>6. ASSUME NEW r \in Runners, Heartbeat(r), Owns(r) PROVE UNCHANGED Ledger!vars
  <2>1. Beaten(r) /\ \A s \in Runners : Busy(s)' <=> Busy(s)
    BY <1>6 DEF Heartbeat, Beaten, Busy
  <2>2. held[r] \in Claim /\ held[r].plan \in Plans /\ now + StaleTimeout \in Nat
    BY <1>0, <1>6, BusyFacts DEF Owns
  <2>3. exec[held[r].plan] \in Row
    BY <1>0, <2>2 DEF TypeOK, RowsOK
  <2>4. exec'[held[r].plan] = [exec[held[r].plan] EXCEPT !.staleAfter = now + StaleTimeout]
    BY <1>0, <2>1, <2>2 DEF Beaten, TypeOK, RowsOK
  <2>5. \A p \in Plans \ {held[r].plan} : exec'[p] = exec[p]
    BY <1>0, <2>1 DEF Beaten, TypeOK, RowsOK
  <2>6. \A p \in Plans : /\ exec'[p].status = exec[p].status
                         /\ exec'[p].attempt = exec[p].attempt
                         /\ exec'[p].token = exec[p].token
    BY <2>2, <2>3, <2>4, <2>5, BeatenRow
  <2>7. held'[r] = [held[r] EXCEPT !.until = now + StaleTimeout]
    BY <1>0, <2>1 DEF Beaten, TypeOK, ClaimsOK
  <2>8. held'[r].plan = held[r].plan /\ held'[r].token = held[r].token
    BY <2>2, <2>7, ClaimRenewed
  <2>9. \A s \in Runners \ {r} : held'[s] = held[s]
    BY <1>0, <2>1 DEF Beaten, TypeOK, ClaimsOK
  <2>10. \A s \in Runners : held'[s].plan = held[s].plan /\ held'[s].token = held[s].token
    BY <2>8, <2>9
  <2>11. \A s \in Runners : Busy(s) => held[s].plan \in Plans
    BY <1>0 DEF TypeOK, ClaimsOK, Claim
  <2>12. \A s \in Runners, p \in Plans : OwnsPlan(s, p)' <=> OwnsPlan(s, p)
    BY <2>1, <2>6, <2>10, <2>11 DEF OwnsPlan, Owns
  <2> QED
    BY <2>6, <2>12, LedgerStutters
<1>7. ASSUME NEW r \in Runners, Finish(r), Owns(r) PROVE [Ledger!Next]_(Ledger!vars)
  <2> DEFINE verdict == IF result[r].outcome = "ok" THEN "SUCCESS" ELSE "FAILED"
  <2>1. PICK p \in Plans :
           /\ held[r].plan = p /\ exec[p].status = "RUNNING"
           /\ \A q \in Plans \ {p} : exec'[q] = exec[q]
           /\ exec'[p].status = verdict
           /\ exec'[p].attempt = exec[p].attempt
    BY <1>0, <1>7, VerdictWrites DEF Owns
  <2>2. /\ ~ Busy(r)'
        /\ \A s \in Runners \ {r} : held'[s] = held[s] /\ (Busy(s)' <=> Busy(s))
    BY <1>0, <1>7 DEF Finish, Release, EndTick, Busy, TypeOK, RunnersOK, ClaimsOK
  <2>3. OwnsPlan(r, p) /\ \A s \in Runners \ {r} : ~ OwnsPlan(s, p)
    BY <1>0, <1>7, <2>1, OneOwner DEF OwnsPlan
  <2>4. \A q \in Plans \ {p} : Owner(q)' = Owner(q)
    <3>1. \A s \in Runners, q \in Plans \ {p} : OwnsPlan(s, q)' <=> OwnsPlan(s, q)
      BY <2>1, <2>2 DEF OwnsPlan, Owns
    <3> QED
      BY <1>0, <3>1, OwnerKept
  <2>5. Owner(p) = r
    BY <1>0, <2>3, OwnerIsUnique
  <2>6. Owner(p)' = Nobody
    <3>1. \A s \in Runners : ~ OwnsPlan(s, p)'
      BY <2>1 DEF OwnsPlan, Owns
    <3> QED
      BY <1>0, <3>1, OwnerIsUniqueNext
  <2>7. Ledger!Conclude(p, r)
    BY <2>1, <2>4, <2>5, <2>6 DEF Ledger!Conclude
  <2>8. Ledger!Next
    BY <2>7 DEF Ledger!Next
  <2> QED
    BY <2>8
<1>8. ASSUME NEW r \in Runners,
             (Finish(r) /\ ~ Owns(r)) \/ FinishError(r) \/ Crash(r)
      PROVE  [Ledger!Next]_(Ledger!vars)
  <2>1. /\ UNCHANGED exec /\ ~ Busy(r)'
        /\ \A s \in Runners \ {r} : held'[s] = held[s] /\ (Busy(s)' <=> Busy(s))
    BY <1>0, <1>8 DEF Finish, FinishError, Crash, Release, EndTick, Busy, TypeOK, RunnersOK, ClaimsOK
  <2> QED
    BY <2>1, LedgerAbandons
<1>9. ASSUME NEW r \in Runners, ClaimError(r) PROVE [Ledger!Next]_(Ledger!vars)
  <2>1. UNCHANGED held /\ \A s \in Runners : Busy(s)' <=> Busy(s)
    BY <1>0, <1>9, LostClaim
  <2>2. CASE UNCHANGED exec
    BY <1>1, <2>1, <2>2
  <2>3. CASE ~ UNCHANGED exec
    <3>1. PICK p \in Plans :
             /\ exec[p].status # "SUCCESS" /\ exec[p].attempt < MaxAttempts
             /\ exec'[p] = Leased(p, exec[p].attempt + 1, tickNow[r])
             /\ \A q \in Plans \ {p} : exec'[q] = exec[q]
      BY <1>0, <1>9, <2>3, LostClaim
    <3>2. /\ exec'[p].status = "RUNNING" /\ exec'[p].attempt = exec[p].attempt + 1
          /\ exec'[p].token = exec[p].token + 1
      BY <3>1 DEF Leased
    <3>3. \A q \in Plans \ {p} : Owner(q)' = Owner(q)
      <4>1. \A s \in Runners, q \in Plans \ {p} : OwnsPlan(s, q)' <=> OwnsPlan(s, q)
        BY <2>1, <3>1 DEF OwnsPlan, Owns
      <4> QED
        BY <1>0, <4>1, OwnerKept
    <3>4. Owner(p)' = Nobody
      <4>1. ASSUME NEW s \in Runners, OwnsPlan(s, p)' PROVE FALSE
        <5>1. Busy(s) /\ held[s].plan = p /\ held[s].token = exec[p].token + 1
          BY <2>1, <3>2, <4>1 DEF OwnsPlan, Owns
        <5>2. held[s].token <= exec[p].token
          BY <1>0, <5>1 DEF TokensDistinct
        <5>3. exec[p].token \in Nat
          BY <1>0 DEF TypeOK, RowsOK, Row
        <5> QED
          BY <5>1, <5>2, <5>3
      <4> QED
        BY <1>0, <4>1, OwnerIsUniqueNext
    <3>5. [q \in Plans |-> exec'[q].status]
            = [[q \in Plans |-> exec[q].status] EXCEPT ![p] = "RUNNING"]
      BY <3>1, <3>2
    <3>6. [q \in Plans |-> exec'[q].attempt]
            = [[q \in Plans |-> exec[q].attempt] EXCEPT ![p] = @ + 1]
      BY <3>1, <3>2
    <3>7. [q \in Plans |-> Owner(q)'] = [[q \in Plans |-> Owner(q)] EXCEPT ![p] = Nobody]
      BY <3>3, <3>4
    <3>8. Ledger!Attempt(p, Nobody)
      BY <3>1, <3>5, <3>6, <3>7 DEF Ledger!Attempt
    <3> QED
      BY <3>8 DEF Ledger!Next
  <2> QED
    BY <2>2, <2>3
<1> QED
  BY <1>2, <1>3, <1>4, <1>5, <1>6, <1>7, <1>8, <1>9 DEF Next, Step, Fault

\* The scheduler implements the ledger: at most MaxAttempts attempts of a plan,
\* each concluded at most once and only by its owner, and a success is final.
THEOREM SchedulerImplementsLedger == Spec => ImplementsLedger
<1>1. Init => Ledger!Init
  <2> SUFFICES ASSUME Init PROVE Ledger!Init
    OBVIOUS
  <2>1. \A p \in Plans : /\ exec[p].status \in {"NONE", "SUCCESS"}
                         /\ exec[p].attempt = IF exec[p].status = "NONE" THEN 0 ELSE 1
    BY DEF Init, NoRow, OldRow
  <2>2. \A p \in Plans : Owner(p) = Nobody
    BY DEF Init, Owner, OwnsPlan, Owns, Busy
  <2> QED
    BY <2>1, <2>2 DEF Ledger!Init
<1> QED
  BY <1>1, LedgerStep, LeaseInvariant, PTL DEF Spec, Ledger!Spec, ImplementsLedger

-----------------------------------------------------------------------------
(* No plan is skipped under every_plan.  NoGap alone is not inductive: a    *)
(* runner may hold a plan whose older neighbour has no row, provided the    *)
(* neighbour comes first in the same tick.                                  *)

Reach == IF CatchUpWindow = 0 THEN ScheduleDelay ELSE CatchUpWindow

\* A plan newer than the history, in the window and without a row.
Open(p) == /\ exec[p].status = "NONE"
           /\ History # {} /\ \A h \in History : h < p
           /\ p >= now - Reach

\* What a tick still has to do leaves out no open plan.
InTurn == \A r \in Runners : \A q \in due[r], p \in Plans : p < q /\ Open(p) => p \in due[r]

HistoryKept == \A h \in History : exec[h].status # "NONE"

GapInv == /\ LeaseIInv /\ HistoryKept
          /\ Mode = "every_plan" /\ dbErrors = 0 => NoGap /\ InTurn

LEMMA MissedIsOpen ==
  ASSUME NEW p \in Plans, NEW q \in Plans
  PROVE  Missed(p, q) <=> p < q /\ exec[q].status # "NONE" /\ Open(p)
BY DEF Missed, Open, Recorded, Reach

\* Only an insertion changes which plans have a row, heard of or not.
LEMMA RowsStay ==
  ASSUME TypeOK, [Next]_vars, \A r \in Runners : ~ ClaimInsert(r) /\ ~ ClaimError(r)
  PROVE  \A p \in Plans : exec'[p].status = "NONE" <=> exec[p].status = "NONE"
<1> USE DEF TypeOK, RowsOK
<1>1. CASE UNCHANGED exec
  BY <1>1
<1>2. ASSUME NEW r \in Runners, MarkStale(r)
      PROVE  \A p \in Plans : exec'[p].status = "NONE" <=> exec[p].status = "NONE"
  <2> SUFFICES ASSUME NEW p \in Plans
               PROVE  exec'[p].status = "NONE" <=> exec[p].status = "NONE"
    OBVIOUS
  <2>1. CASE Expired(p, tickNow[r])
    <3>1. exec'[p].status = "FAILED"
      BY <1>2, <2>1, SweptRow DEF MarkStale
    <3> QED
      BY <2>1, <3>1 DEF Expired
  <2>2. CASE ~ Expired(p, tickNow[r])
    BY <1>2, <2>2 DEF MarkStale
  <2> QED
    BY <2>1, <2>2
<1>3. ASSUME NEW r \in Runners, ClaimSteal(r)
      PROVE  \A p \in Plans : exec'[p].status = "NONE" <=> exec[p].status = "NONE"
  <2>1. PICK p \in due[r] : Reclaimable(p, tickNow[r]) /\ Granted(r, p, tickNow[r])
    BY <1>3 DEF ClaimSteal
  <2>2. p \in Plans
    BY DEF RunnersOK
  <2>3. exec[p].status # "NONE"
    BY <2>1 DEF Reclaimable, Retryable, Stealable, Expired
  <2> QED
    BY <2>1, <2>2, <2>3 DEF Granted, Leased
<1>4. ASSUME NEW r \in Runners, Heartbeat(r)
      PROVE  \A p \in Plans : exec'[p].status = "NONE" <=> exec[p].status = "NONE"
  <2>1. CASE Owns(r)
    <3>1. held[r].plan \in Plans /\ now + StaleTimeout \in Nat
      BY <2>1, BusyFacts DEF Owns
    <3>2. exec' = [exec EXCEPT ![held[r].plan].staleAfter = now + StaleTimeout]
      BY <1>4, <2>1 DEF Heartbeat
    <3> QED
      BY <3>1, <3>2
  <2>2. CASE ~ Owns(r)
    BY <1>4, <2>2 DEF Heartbeat
  <2> QED
    BY <2>1, <2>2
<1>5. ASSUME NEW r \in Runners, Finish(r)
      PROVE  \A p \in Plans : exec'[p].status = "NONE" <=> exec[p].status = "NONE"
  <2>1. CASE Owns(r)
    BY <1>5, <2>1, VerdictWrites DEF Owns
  <2>2. CASE ~ Owns(r)
    BY <1>5, <2>2 DEF Finish
  <2> QED
    BY <2>1, <2>2
<1> QED
  BY <1>1, <1>2, <1>3, <1>4, <1>5
     DEF Next, Step, Fault, vars, row, Advance, Tick, Plan, ClaimConflict, HandlerReturns,
         Restart, MarkStaleError, PlanError, FinishError, Crash, EndTick

\* A row that a lost claim inserted stays inserted.
LEMMA LostClaimKeepsRows ==
  ASSUME TypeOK, NEW r \in Runners, ClaimError(r), NEW p \in Plans, exec'[p].status = "NONE"
  PROVE  exec[p].status = "NONE"
<1>1. Leased(p, exec[p].attempt + 1, tickNow[r]).status # "NONE"
  BY DEF Leased
<1> QED
  BY <1>1, LostClaim

LEMMA InsertedRow ==
  ASSUME TypeOK, NEW r \in Runners, ClaimInsert(r)
  PROVE  \E p \in due[r] :
            /\ p \in Plans /\ First(r, p) /\ now' = now /\ dbErrors' = dbErrors
            /\ due' = [due EXCEPT ![r] = @ \ {p}]
            /\ exec'[p].status = "RUNNING"
            /\ \A q \in Plans \ {p} : exec'[q] = exec[q]
<1>1. PICK p \in due[r] : First(r, p) /\ Granted(r, p, tickNow[r])
  BY DEF ClaimInsert
<1>2. p \in Plans
  BY DEF TypeOK, RunnersOK
<1>3. exec'[p].status = "RUNNING" /\ \A q \in Plans \ {p} : exec'[q] = exec[q]
  BY <1>1, <1>2 DEF Granted, Leased, TypeOK, RowsOK
<1> QED
  BY <1>1, <1>2, <1>3 DEF Granted

LEMMA HistoryStep == TypeOK /\ HistoryKept /\ [Next]_vars => HistoryKept'
<1> SUFFICES ASSUME TypeOK, HistoryKept, [Next]_vars PROVE HistoryKept'
  OBVIOUS
<1> USE PlansAssumption DEF HistoryKept
<1>1. CASE \A r \in Runners : ~ ClaimInsert(r) /\ ~ ClaimError(r)
  BY <1>1, RowsStay
<1>2. ASSUME NEW r \in Runners, ClaimInsert(r) PROVE HistoryKept'
  BY <1>2, InsertedRow
<1>3. ASSUME NEW r \in Runners, ClaimError(r) PROVE HistoryKept'
  BY <1>3, LostClaimKeepsRows
<1> QED
  BY <1>1, <1>2, <1>3

\* A plan that is open was open before: rows stay and the window only moves on.
LEMMA OpenBefore ==
  ASSUME TypeOK, [Next]_vars, NEW p \in Plans, Open(p)'
  PROVE  Open(p)
<1>1. exec[p].status = "NONE"
  <2>1. CASE \A r \in Runners : ~ ClaimInsert(r) /\ ~ ClaimError(r)
    BY <2>1, RowsStay DEF Open
  <2>2. ASSUME NEW r \in Runners, ClaimInsert(r) PROVE exec[p].status = "NONE"
    BY <2>2, InsertedRow DEF Open
  <2>3. ASSUME NEW r \in Runners, ClaimError(r) PROVE exec[p].status = "NONE"
    BY <2>3, LostClaimKeepsRows DEF Open
  <2> QED
    BY <2>1, <2>2, <2>3
<1>2. now \in Nat /\ now' \in Nat /\ now <= now'
  <2>1. now' = now \/ now' = now + 1
    BY DEF Next, Step, Fault, vars, row, Advance, Tick, MarkStale, Plan, ClaimInsert, ClaimSteal,
           ClaimConflict, Granted, Heartbeat, HandlerReturns, Finish, FinishError, Release,
           Restart, MarkStaleError, PlanError, ClaimError, Crash
  <2> QED
    BY <2>1, BoundsAssumption DEF TypeOK, ClockOK
<1>3. Reach \in Nat /\ p \in Nat
  BY SpecAssumption, PlansAssumption DEF Reach
<1>4. History # {} /\ (\A h \in History : h < p) /\ p >= now' - Reach
  BY DEF Open, Reach
<1>5. p >= now - Reach
  <2>1. ASSUME NEW n \in Nat, NEW m \in Nat, NEW w \in Nat, NEW x \in Nat,
               n <= m, x >= m - w
        PROVE  x >= n - w
    BY <2>1
  <2> QED
    BY <1>2, <1>3, <1>4, <2>1
<1> QED
  BY <1>1, <1>4, <1>5 DEF Open

\* What the planner of every_plan chooses is in turn.
LEMMA PlannedInTurn ==
  ASSUME GapInv, Mode = "every_plan", dbErrors = 0, NEW r \in Runners,
         NEW q \in PlansForTick(tickNow[r]), NEW p \in Plans, p < q, Open(p)
  PROVE  p \in PlansForTick(tickNow[r])
<1> DEFINE t == tickNow[r]
           S == {x \in Eligible(t) : FromCursor(x, t) /\ InWindow(x, t)}
<1>1. PlansForTick(t) = Oldest(S)
  BY DEF PlansForTick, EveryPlan
<1>2. q \in S /\ q \in Plans /\ q \in Nat /\ p \in Nat
  BY <1>1, PlansAssumption DEF Oldest, Eligible
<1>3. t \in Nat /\ now \in Nat /\ t <= now
  BY BoundsAssumption DEF GapInv, LeaseIInv, TypeOK, ClockOK, RunnersOK, TickBehind
<1>4. p \in Eligible(t) /\ q <= t - ScheduleDelay
  BY <1>2, <1>3, SpecAssumption DEF Eligible
<1>5. FromCursor(p, t)
  <2>1. Recorded # {}
    BY PlansAssumption DEF Open, GapInv, HistoryKept, Recorded
  <2>2. PICK m \in Newest(Recorded) : IF RetryEligible(m, t) THEN m <= q ELSE m < q
    BY <1>2, <2>1 DEF FromCursor
  <2>3. m \in Plans /\ m \in Nat /\ exec[m].status # "NONE"
    BY <2>2, PlansAssumption DEF Newest, Recorded
  <2>4. p # m
    BY <2>3 DEF Open
  <2>5. ~ (p < m)
    BY <2>3, MissedIsOpen DEF GapInv, NoGap
  <2>6. m < p
    BY <1>2, <2>3, <2>4, <2>5
  <2> QED
    BY <1>2, <2>1, <2>2, <2>3, <2>6 DEF FromCursor
<1>6. InWindow(p, t)
  <2>1. CASE CatchUpWindow = 0
    BY <1>2, <1>3, <1>4, <2>1, SpecAssumption DEF Open, Reach
  <2>2. CASE CatchUpWindow # 0
    BY <1>2, <1>3, <2>2, SpecAssumption DEF Open, Reach, InWindow
  <2> QED
    BY <2>1, <2>2
<1>7. p \in S
  BY <1>4, <1>5, <1>6
<1>8. Cardinality({x \in S : x < p}) < MaxPlansPerTick
  <2>1. IsFiniteSet(S) /\ S \subseteq Nat
    BY PlansAssumption, FS_Subset DEF Eligible
  <2>2. {x \in S : x < p} \subseteq {x \in S : x < q}
    BY <1>2, <2>1
  <2>3. IsFiniteSet({x \in S : x < q})
    BY <2>1, FS_Subset
  <2>4. /\ Cardinality({x \in S : x < p}) <= Cardinality({x \in S : x < q})
        /\ Cardinality({x \in S : x < q}) \in Nat
        /\ Cardinality({x \in S : x < p}) \in Nat
    BY <2>2, <2>3, FS_Subset, FS_CardinalityType
  <2>5. Cardinality({x \in S : x < q}) < MaxPlansPerTick
    BY <1>1 DEF Oldest
  <2> QED
    BY <2>4, <2>5, SpecAssumption
<1> QED
  BY <1>1, <1>7, <1>8 DEF Oldest

LEMMA GapStep == GapInv /\ [Next]_vars => GapInv'
<1> SUFFICES ASSUME GapInv, [Next]_vars, Mode = "every_plan", dbErrors' = 0
             PROVE  NoGap' /\ InTurn'
  BY LeaseStep, HistoryStep DEF GapInv, LeaseIInv
<1>1. TypeOK
  BY DEF GapInv, LeaseIInv
<1>2. dbErrors = 0 /\ dbErrors' = dbErrors
  <2>1. dbErrors' = dbErrors \/ dbErrors' = dbErrors + 1
    BY DEF Next, Step, Fault, vars, Advance, Tick, MarkStale, Plan, ClaimInsert, ClaimSteal,
           ClaimConflict, Granted, Heartbeat, HandlerReturns, Finish, FinishError, Release,
           Restart, MarkStaleError, PlanError, ClaimError, Crash, DbError
  <2> QED
    BY <1>1, <2>1, BoundsAssumption DEF TypeOK, ClockOK
<1>3. NoGap /\ InTurn
  BY <1>2 DEF GapInv
<1>4. CASE \A r \in Runners : ~ ClaimInsert(r)
  <2>0. \A r \in Runners : ~ ClaimInsert(r) /\ ~ ClaimError(r)
    BY <1>1, <1>2, <1>4, BoundsAssumption DEF ClaimError, DbError, TypeOK, ClockOK
  <2>1. \A p, q \in Plans : Missed(p, q)' => Missed(p, q)
    BY <1>1, <2>0, RowsStay, OpenBefore, MissedIsOpen DEF Missed, Recorded, Open, Reach
  <2>2. NoGap'
    BY <1>2, <1>3, <2>1 DEF NoGap
  <2>3. ASSUME NEW r \in Runners, due'[r] \subseteq due[r],
               \A p \in due[r] \ due'[r] : due'[r] = {} \/ exec[p].status # "NONE"
        PROVE  \A q \in due'[r], p \in Plans : p < q /\ Open(p)' => p \in due'[r]
    BY <1>1, <1>3, <2>3, OpenBefore DEF InTurn, Open
  <2>4. ASSUME NEW r \in Runners, Plan(r) PROVE InTurn'
    <3>1. /\ \A s \in Runners \ {r} : due'[s] = due[s]
          /\ due'[r] = due[r] \/ due'[r] = PlansForTick(tickNow[r])
      BY <1>1, <2>4 DEF Plan, TypeOK, RunnersOK
    <3>2. \A q \in due'[r], p \in Plans : p < q /\ Open(p)' => p \in due'[r]
      BY <1>1, <1>2, <1>3, <3>1, OpenBefore, PlannedInTurn DEF InTurn
    <3> QED
      BY <1>1, <1>3, <3>1, <3>2, OpenBefore DEF InTurn
  <2>5. ASSUME NEW r \in Runners, ClaimConflict(r) PROVE InTurn'
    <3>1. PICK p \in due[r] : ~ Insertable(p) /\ DropPlan(r, p)
      BY <2>5 DEF ClaimConflict
    <3>2. due' = [due EXCEPT ![r] = due[r] \ {p}] /\ exec[p].status # "NONE"
      BY <3>1 DEF DropPlan, Insertable
    <3> QED
      BY <1>1, <2>3, <3>2 DEF InTurn, TypeOK, RunnersOK
  <2>6. ASSUME NEW r \in Runners, ClaimSteal(r) PROVE InTurn'
    <3>1. PICK p \in due[r] : Reclaimable(p, tickNow[r]) /\ Granted(r, p, tickNow[r])
      BY <2>6 DEF ClaimSteal
    <3>2. due' = [due EXCEPT ![r] = due[r] \ {p}] /\ exec[p].status # "NONE"
      BY <3>1 DEF Granted, Reclaimable, Retryable, Stealable, Expired
    <3> QED
      BY <1>1, <2>3, <3>2 DEF InTurn, TypeOK, RunnersOK
  <2>7. ASSUME NEW r \in Runners, Crash(r) PROVE InTurn'
    BY <1>1, <2>3, <2>7 DEF Crash, InTurn, TypeOK, RunnersOK
  <2>8. ASSUME UNCHANGED due PROVE InTurn'
    BY <1>1, <1>3, <2>8, OpenBefore DEF InTurn
  <2>9. ~ DbError
    BY <1>2 DEF DbError
  <2>10. InTurn'
    BY <1>4, <2>4, <2>5, <2>6, <2>7, <2>8, <2>9
       DEF Next, Step, Fault, vars, local, Advance, Tick, MarkStale, Heartbeat, HandlerReturns,
           Finish, FinishError, Release, Restart, MarkStaleError, PlanError, ClaimError
  <2> QED
    BY <2>2, <2>10
<1>5. ASSUME NEW r \in Runners, ClaimInsert(r) PROVE NoGap' /\ InTurn'
  <2>1. PICK n \in due[r] :
            /\ n \in Plans /\ First(r, n) /\ due' = [due EXCEPT ![r] = @ \ {n}]
            /\ exec'[n].status = "RUNNING"
            /\ \A q \in Plans \ {n} : exec'[q] = exec[q]
    BY <1>1, <1>5, InsertedRow
  <2>2. ASSUME NEW p \in Plans, NEW q \in Plans, Missed(p, q)' PROVE FALSE
    <3>1. p < q /\ exec'[q].status # "NONE" /\ Open(p)'
      BY <2>2 DEF Missed, Open, Recorded, Reach
    <3>2. Open(p) /\ p # n
      BY <1>1, <2>1, <3>1, OpenBefore DEF Open
    <3>3. CASE q = n
      <4>1. p \in due[r] /\ n <= p
        BY <1>3, <2>1, <3>1, <3>2, <3>3 DEF InTurn, First
      <4> QED
        BY <3>1, <3>3, <4>1, PlansAssumption
    <3>4. CASE q # n
      BY <1>2, <1>3, <2>1, <3>1, <3>2, <3>4, MissedIsOpen DEF NoGap
    <3> QED
      BY <3>3, <3>4
  <2>3. InTurn'
    <3>1. \A p \in Plans : Open(p)' => Open(p) /\ p # n
      BY <1>1, <2>1, OpenBefore DEF Open
    <3> QED
      BY <1>1, <1>3, <2>1, <3>1 DEF InTurn, TypeOK, RunnersOK
  <2> QED
    BY <2>2, <2>3 DEF NoGap
<1> QED
  BY <1>4, <1>5

\* Under every_plan and without database errors, no plan inside the window is
\* skipped: for any number of runners, plans, crashes and stale readings.
THEOREM NoPlanIsSkipped == Spec => []NoGap
<1>1. Init => GapInv
  <2> SUFFICES ASSUME Init PROVE GapInv
    OBVIOUS
  <2>1. LeaseIInv
    BY TypeInit, LeaseInit DEF LeaseIInv
  <2>2. \A p \in Plans : exec[p].status = "NONE" <=> p \notin History
    BY DEF Init, NoRow, OldRow
  <2>3. HistoryKept
    BY <2>2, PlansAssumption DEF HistoryKept
  <2>4. InTurn
    BY DEF Init, InTurn
  <2>5. NoGap
    BY <2>2, PlansAssumption DEF NoGap, Missed, Recorded
  <2> QED
    BY <2>1, <2>3, <2>4, <2>5 DEF GapInv
<1>2. GapInv => NoGap
  BY DEF GapInv, NoGap
<1> QED
  BY <1>1, <1>2, GapStep, PTL DEF Spec

=============================================================================
