----------------------------- MODULE TaskLedger -----------------------------
(***************************************************************************)
(* What agent_task_queue promises about its rows, whatever polls, reports, *)
(* sweeps and crashes do.  A row is open until it is handed out; of a lane *)
(* one row is handed out at a time; a row that is handed out is given back *)
(* or closed; a closed row keeps its outcome.  A failed row is retried     *)
(* once, in its own lane, and a chain of retries has MaxTries rows at most.*)
(***************************************************************************)
EXTENDS Naturals

CONSTANTS Rows, Lanes, MaxTries, None

VARIABLES
    phase,   \* row -> "none", "open", "held", or its outcome
    lane,    \* row -> the (issue, agent) pair it is for
    tries,   \* row -> how many rows its chain has had, with it
    parent   \* row -> the row it is the retry of

vars == <<phase, lane, tries, parent>>

Outcomes == {"completed", "failed", "cancelled"}

Init ==
    /\ phase = [t \in Rows |-> "none"]
    /\ lane = [t \in Rows |-> None]
    /\ tries = [t \in Rows |-> 0]
    /\ parent = [t \in Rows |-> None]

Write(n, l, k, p) ==
    /\ phase[n] = "none"
    /\ lane' = [lane EXCEPT ![n] = l]
    /\ tries' = [tries EXCEPT ![n] = k]
    /\ parent' = [parent EXCEPT ![n] = p]

Request(n, l) ==
    /\ Write(n, l, 1, None)
    /\ phase' = [phase EXCEPT ![n] = "open"]

HandOut(t) ==
    /\ phase[t] = "open"
    /\ \A u \in Rows : lane[u] = lane[t] => phase[u] # "held"
    /\ phase' = [phase EXCEPT ![t] = "held"]
    /\ UNCHANGED <<lane, tries, parent>>

GiveBack(t) ==
    /\ phase[t] = "held"
    /\ phase' = [phase EXCEPT ![t] = "open"]
    /\ UNCHANGED <<lane, tries, parent>>

Unsettled == {t \in Rows : phase[t] \in {"open", "held"}}

\* One statement closes all rows of S; only what is handed out completes.
Close(S, outcome) ==
    /\ outcome = "completed" => \A t \in S : phase[t] = "held"
    /\ phase' = [t \in Rows |-> IF t \in S THEN outcome ELSE phase[t]]
    /\ UNCHANGED <<lane, tries, parent>>

\* The retry n of t, which has failed or fails in the same transaction.
Retry(t, n) ==
    /\ n # t
    /\ phase[t] \in {"failed", "held"}
    /\ \A u \in Rows : parent[u] # t
    /\ tries[t] < MaxTries
    /\ Write(n, lane[t], tries[t] + 1, t)
    /\ phase' = [phase EXCEPT ![t] = "failed", ![n] = "open"]

\* Every step moves some row t, and perhaps others with it.
Next ==
    \E t \in Rows :
        /\ phase'[t] # phase[t]
        /\ \/ HandOut(t) \/ GiveBack(t)
           \/ \E l \in Lanes : Request(t, l)
           \/ \E u \in Rows : Retry(u, t)
           \/ \E S \in SUBSET Unsettled, outcome \in Outcomes : t \in S /\ Close(S, outcome)

Spec == Init /\ [][Next]_vars

=============================================================================
