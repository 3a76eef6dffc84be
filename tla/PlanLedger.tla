----------------------------- MODULE PlanLedger -----------------------------
(***************************************************************************)
(* What sys_cron_executions promises about a plan, whatever the runners,   *)
(* clocks and crashes do: a plan is attempted at most MaxAttempts times,   *)
(* at most one runner owns the current attempt, only that owner concludes  *)
(* it, an attempt that lost its owner can only be closed as failed or      *)
(* taken over by a new one, and a success is final.                        *)
(***************************************************************************)
EXTENDS Naturals

CONSTANTS Runners, Plans, MaxAttempts, Nobody

VARIABLES
    stage,   \* plan -> "NONE", "RUNNING", "FAILED" or "SUCCESS"
    tries,   \* plan -> how many attempts were started
    owner    \* plan -> the runner that may conclude the current attempt

vars == <<stage, tries, owner>>

Init == /\ stage \in [Plans -> {"NONE", "SUCCESS"}]
        /\ tries = [p \in Plans |-> IF stage[p] = "NONE" THEN 0 ELSE 1]
        /\ owner = [p \in Plans |-> Nobody]

\* A new attempt: of a plan never tried, of a failed one, or over a lost lease;
\* nobody's, when the runner that started it never learns that it did.
Attempt(p, r) ==
    /\ stage[p] # "SUCCESS"
    /\ tries[p] < MaxAttempts
    /\ stage' = [stage EXCEPT ![p] = "RUNNING"]
    /\ tries' = [tries EXCEPT ![p] = @ + 1]
    /\ owner' = [owner EXCEPT ![p] = r]

Conclude(p, r) ==
    /\ stage[p] = "RUNNING"
    /\ owner[p] = r
    /\ \E verdict \in {"FAILED", "SUCCESS"} : stage' = [stage EXCEPT ![p] = verdict]
    /\ owner' = [owner EXCEPT ![p] = Nobody]
    /\ UNCHANGED tries

\* The owner is gone without a verdict: it crashed, or could not write it.
Abandon(p) ==
    /\ stage[p] = "RUNNING"
    /\ owner' = [owner EXCEPT ![p] = Nobody]
    /\ UNCHANGED <<stage, tries>>

\* One statement closes every attempt in a set as failed.
Expire(S) ==
    /\ \A p \in S : stage[p] = "RUNNING"
    /\ stage' = [p \in Plans |-> IF p \in S THEN "FAILED" ELSE stage[p]]
    /\ owner' = [p \in Plans |-> IF p \in S THEN Nobody ELSE owner[p]]
    /\ UNCHANGED tries

Next == \/ \E p \in Plans, r \in Runners : Attempt(p, r) \/ Conclude(p, r)
        \/ \E p \in Plans : Attempt(p, Nobody) \/ Abandon(p)
        \/ \E S \in SUBSET Plans : Expire(S)

Spec == Init /\ [][Next]_vars

=============================================================================
