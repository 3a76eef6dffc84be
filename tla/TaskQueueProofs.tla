-------------------------- MODULE TaskQueueProofs --------------------------
(***************************************************************************)
(* Proofs about TaskQueue, for every value of its constants.               *)
(***************************************************************************)
EXTENDS TaskQueue, FiniteSetTheorems, TLAPS

-----------------------------------------------------------------------------
(* Copies and inserted rows.                                               *)

\* What the steps of a daemon make of a copy.
LEMMA CopyMoves ==
  ASSUME NEW c \in Copies
  PROVE  /\ c.task \in Tasks /\ c.claim \in Nat
         /\ \A s \in {"run", "complete"} :
              /\ [c EXCEPT !.at = s] \in Copies
              /\ [c EXCEPT !.at = s].at = s
              /\ [c EXCEPT !.at = s].task = c.task
              /\ [c EXCEPT !.at = s].claim = c.claim
         /\ \A why \in FailureClasses :
              /\ Reporting(c, why) \in Copies
              /\ Reporting(c, why).at = "fail"
              /\ Reporting(c, why).task = c.task
              /\ Reporting(c, why).claim = c.claim
  BY DEF Copies, Reporting

\* An insert sets the columns of one row and types them.
LEMMA Inserted ==
  ASSUME TypeOK, NEW t \in Tasks, NEW l \in Lanes, NEW r \in Runtimes,
         NEW a \in Nat, NEW b \in Nat, NEW parent, NEW primary,
         parent \in Tasks \cup {None}, primary \in Tasks \cup {None},
         Insert(t, l, r, a, b, parent, primary)
  PROVE  /\ lane' \in [Tasks -> Lanes \cup {None}] /\ home' \in [Tasks -> Runtimes \cup {None}]
         /\ attempt' \in [Tasks -> Nat] /\ budget' \in [Tasks -> Nat]
         /\ retryOf' \in [Tasks -> Tasks \cup {None}]
         /\ escalates' \in [Tasks -> Tasks \cup {None}]
         /\ lane'[t] = l /\ home'[t] = r /\ attempt'[t] = a /\ budget'[t] = b
         /\ retryOf'[t] = parent
         /\ \A u \in Tasks \ {t} :
              /\ lane'[u] = lane[u] /\ home'[u] = home[u] /\ attempt'[u] = attempt[u]
              /\ budget'[u] = budget[u] /\ retryOf'[u] = retryOf[u]
  BY DEF TypeOK, Insert

LEMMA CeilingBounds ==
  ASSUME NEW b \in Nat, NEW why
  PROVE  /\ Ceiling(why, b) \in Nat
         /\ Ceiling(why, b) = b \/ Ceiling(why, b) = NetworkAttempts
  BY BudgetAssumption DEF Ceiling

\* A retry child sits beside its parent, one attempt later.
LEMMA InsertedChild ==
  ASSUME TypeOK, NEW n \in Tasks, NEW t \in Tasks, NEW why,
         status[t] # "free", InsertChild(n, t, why)
  PROVE  /\ lane' \in [Tasks -> Lanes \cup {None}] /\ home' \in [Tasks -> Runtimes \cup {None}]
         /\ attempt' \in [Tasks -> Nat] /\ budget' \in [Tasks -> Nat]
         /\ retryOf' \in [Tasks -> Tasks \cup {None}]
         /\ escalates' \in [Tasks -> Tasks \cup {None}]
         /\ status[n] = "free" /\ n # t
         /\ lane'[n] = lane[t] /\ home'[n] = home[t] /\ attempt'[n] = attempt[t] + 1
         /\ budget'[n] = Ceiling(why, budget[t]) /\ retryOf'[n] = t
         /\ \A u \in Tasks \ {n} :
              /\ lane'[u] = lane[u] /\ home'[u] = home[u] /\ attempt'[u] = attempt[u]
              /\ budget'[u] = budget[u] /\ retryOf'[u] = retryOf[u]
<1>1. /\ status[n] = "free"
      /\ Insert(n, lane[t], home[t], attempt[t] + 1, Ceiling(why, budget[t]), t, None)
  BY DEF InsertChild, Free
<1>2. /\ lane[t] \in Lanes /\ home[t] \in Runtimes
      /\ attempt[t] + 1 \in Nat /\ Ceiling(why, budget[t]) \in Nat
  BY CeilingBounds DEF TypeOK
<1> QED
  BY <1>1, <1>2, Inserted

-----------------------------------------------------------------------------
(* Types.                                                                  *)

LEMMA TypeInit == Init => TypeOK
  BY DEF Init, TypeOK, Statuses

LEMMA TypeUsers ==
  ASSUME TypeOK, Users
  PROVE  TypeOK'
<1>1. ASSUME NEW t \in Tasks, NEW l \in Lanes, NEW r \in Runtimes, Enqueue(t, l, r)
      PROVE  TypeOK'
  <2>1. t \in Free /\ Insert(t, l, r, 1, ColumnBudget, None, None)
    BY <1>1 DEF Enqueue
  <2> QED
    BY <1>1, <2>1, Inserted, BudgetAssumption DEF Enqueue, TypeOK, Statuses
<1>2. ASSUME NEW t \in Tasks, NEW l \in Lanes, NEW r \in Runtimes, NEW p \in Tasks,
             EnqueueFallback(t, l, r, p)
      PROVE  TypeOK'
  <2>1. t \in Free /\ Insert(t, l, r, 1, ColumnBudget, None, p)
    BY <1>2 DEF EnqueueFallback
  <2>2. /\ lane' \in [Tasks -> Lanes \cup {None}] /\ home' \in [Tasks -> Runtimes \cup {None}]
        /\ attempt' \in [Tasks -> Nat] /\ budget' \in [Tasks -> Nat]
        /\ retryOf' \in [Tasks -> Tasks \cup {None}]
        /\ escalates' \in [Tasks -> Tasks \cup {None}]
        /\ lane'[t] = l /\ home'[t] = r
        /\ \A u \in Tasks \ {t} : lane'[u] = lane[u] /\ home'[u] = home[u]
    BY <2>1, Inserted, BudgetAssumption
  <2> QED
    BY <1>2, <2>2 DEF EnqueueFallback, TypeOK, Statuses
<1>3. ASSUME NEW t \in Tasks, Cancel(t)
      PROVE  TypeOK'
  BY <1>3 DEF Cancel, TypeOK, planned, Statuses, Active, Terminal
<1>4. ASSUME NEW l \in Lanes, CancelLane(l)
      PROVE  TypeOK'
  BY <1>4 DEF CancelLane, TypeOK, planned, Statuses, Active, Terminal
<1> QED
  BY <1>1, <1>2, <1>3, <1>4 DEF Users

LEMMA TypePoll ==
  ASSUME TypeOK, NEW r \in Runtimes, Poll(r)
  PROVE  TypeOK'
<1>1. CASE PollPromote(r)
  BY <1>1 DEF PollPromote, DueRows, Of, TypeOK, planned, Statuses
<1>2. CASE PollNothingToReclaim(r) \/ PollDone(r)
  BY <1>2 DEF PollNothingToReclaim, PollDone, TypeOK, planned, columns
<1>3. ASSUME NEW t \in Tasks, PollReclaim(r, t)
      PROVE  TypeOK'
  BY <1>3 DEF PollReclaim, TypeOK, planned, Claims
<1>4. ASSUME NEW c \in Tasks, NEW t \in Tasks, PollClaim(r, c, t)
      PROVE  TypeOK'
  BY <1>4 DEF PollClaim, Claimable, TypeOK, planned, Claims, Statuses, Active
<1> QED
  BY <1>1, <1>2, <1>3, <1>4 DEF Poll

LEMMA TypeAnswer ==
  ASSUME TypeOK, NEW c \in held, Answer(c)
  PROVE  TypeOK'
<1>1. c \in Claims
  BY DEF TypeOK
<1>2. CASE Deliver(c)
  BY <1>1, <1>2 DEF Deliver, TypeOK, planned, columns, Claims, Copies, FailureClasses
<1>3. CASE LoseAnswer(c)
  BY <1>3 DEF LoseAnswer, TypeOK, planned, columns
<1>4. CASE Requeue(c)
  BY <1>1, <1>4 DEF Requeue, TypeOK, planned, Claims, Statuses
<1> QED
  BY <1>2, <1>3, <1>4 DEF Answer

LEMMA TypeWork ==
  ASSUME TypeOK, NEW c \in copies, Work(c)
  PROVE  TypeOK'
<1>1. c \in Copies
  BY DEF TypeOK
<1>2. ASSUME NEW S \in SUBSET Tasks, StartRow(c.task, S)
      PROVE  /\ status' \in [Tasks -> Statuses] /\ lapsed' \in [Tasks -> BOOLEAN]
             /\ \A t \in Tasks : status[t] = "free" => status'[t] = "free"
  <2>1. \A t \in S : status[t] # "free"
    BY <1>2 DEF StartRow, Fallbacks
  <2> QED
    BY <1>2, <2>1 DEF StartRow, TypeOK, Statuses, Active, Terminal
<1>3. ASSUME NEW S \in SUBSET Tasks, Start(c, S)
      PROVE  TypeOK'
  <2>1. StartRow(c.task, S)
    BY <1>3 DEF Start
  <2>2. /\ status' \in [Tasks -> Statuses] /\ lapsed' \in [Tasks -> BOOLEAN]
        /\ \A t \in Tasks : status[t] = "free" => status'[t] = "free"
    BY <1>2, <2>1
  <2>3. copies' \subseteq Copies
    BY <1>1, <1>3, CopyMoves DEF Start, Becomes, TypeOK
  <2> QED
    BY <2>2, <2>3, <1>3 DEF Start, TypeOK, planned
<1>4. ASSUME NEW S \in SUBSET Tasks, NEW why \in FailureClasses, StartUnanswered(c, S, why)
      PROVE  TypeOK'
  <2>1. StartRow(c.task, S)
    BY <1>4 DEF StartUnanswered
  <2>2. /\ status' \in [Tasks -> Statuses] /\ lapsed' \in [Tasks -> BOOLEAN]
        /\ \A t \in Tasks : status[t] = "free" => status'[t] = "free"
    BY <1>2, <2>1
  <2>3. copies' \subseteq Copies
    BY <1>1, <1>4, CopyMoves DEF StartUnanswered, Becomes, TypeOK
  <2> QED
    BY <2>2, <2>3, <1>4 DEF StartUnanswered, TypeOK, planned
<1>5. ASSUME NEW why \in FailureClasses, PrepareFails(c, why) \/ AgentFails(c, why)
      PROVE  TypeOK'
  BY <1>1, <1>5, CopyMoves DEF PrepareFails, AgentFails, Becomes, TypeOK, planned, columns
<1>6. CASE AgentSucceeds(c)
  BY <1>1, <1>6, CopyMoves DEF AgentSucceeds, Becomes, TypeOK, planned, columns
<1>7. CASE Wait(c)
  BY <1>1, <1>7, CopyMoves DEF Wait, TypeOK, planned, Statuses, Active
<1>8. CASE Extend(c)
  BY <1>1, <1>8, CopyMoves DEF Extend, TypeOK, planned
<1>9. CASE Interrupt(c)
  BY <1>9 DEF Interrupt, TypeOK, planned, columns
<1> QED
  BY <1>3, <1>4, <1>5, <1>6, <1>7, <1>8, <1>9 DEF Work, Progress

LEMMA TypeReport ==
  ASSUME TypeOK, NEW c \in copies, Report(c)
  PROVE  TypeOK'
<1>1. c \in Copies /\ c.task \in Tasks /\ c.why \in FailureClasses
  BY DEF TypeOK, Copies
<1>2. CASE ReportComplete(c)
  BY <1>1, <1>2 DEF ReportComplete, TypeOK, planned, Statuses, Terminal
<1>3. CASE ReportTooLate(c)
  BY <1>3 DEF ReportTooLate, TypeOK, planned, columns
<1>4. CASE ReportFail(c)
  BY <1>1, <1>4 DEF ReportFail, TypeOK, planned, Statuses, Active, Terminal
<1>5. ASSUME NEW n \in Tasks, ReportFailAndRetry(c, n)
      PROVE  TypeOK'
  <2>1. status[c.task] # "free" /\ InsertChild(n, c.task, c.why)
    BY <1>5 DEF ReportFailAndRetry, Active
  <2>2. status' = [status EXCEPT ![c.task] = "failed", ![n] = ChildStatus(c.task, c.why)]
    BY <1>5 DEF ReportFailAndRetry
  <2>3. /\ status' \in [Tasks -> Statuses]
        /\ \A u \in Tasks \ {n} : status[u] = "free" => status'[u] = "free"
    BY <1>1, <2>1, <2>2 DEF ChildStatus, TypeOK, Statuses, Terminal
  <2>4. /\ lane' \in [Tasks -> Lanes \cup {None}] /\ home' \in [Tasks -> Runtimes \cup {None}]
        /\ attempt' \in [Tasks -> Nat] /\ budget' \in [Tasks -> Nat]
        /\ retryOf' \in [Tasks -> Tasks \cup {None}]
        /\ escalates' \in [Tasks -> Tasks \cup {None}]
        /\ lane'[n] = lane[c.task] /\ home'[n] = home[c.task]
        /\ \A u \in Tasks \ {n} : lane'[u] = lane[u] /\ home'[u] = home[u]
    BY <1>1, <2>1, InsertedChild
  <2>5. \A u \in Tasks : status'[u] # "free" => lane'[u] \in Lanes /\ home'[u] \in Runtimes
    BY <1>1, <2>1, <2>3, <2>4 DEF TypeOK
  <2> QED
    BY <1>1, <1>5, <2>3, <2>4, <2>5 DEF ReportFailAndRetry, TypeOK
<1> QED
  BY <1>2, <1>3, <1>4, <1>5 DEF Report

\* A bulk failure is well typed, and leaves free rows free.
LEMMA TypeFailRows ==
  ASSUME TypeOK, NEW S \in SUBSET {t \in Tasks : status[t] # "free"},
         NEW why \in FailureClasses, FailRows(S, why),
         UNCHANGED <<planned, due, claim, held, stage>>, copies' \subseteq Copies,
         daemon' \in [Runtimes -> {"up", "cut", "dead"}]
  PROVE  TypeOK'
  BY DEF FailRows, TypeOK, planned, Statuses, Terminal

LEMMA TypeFaults ==
  ASSUME TypeOK, Faults
  PROVE  TypeOK'
<1>1. ASSUME NEW r \in Runtimes, Cut(r) \/ Mend(r) \/ Crash(r)
      PROVE  TypeOK'
  BY <1>1 DEF Cut, Mend, Crash, TypeOK, planned, columns
<1>2. \A r \in Runtimes : Of(r, Active) \in SUBSET {t \in Tasks : status[t] # "free"}
  BY DEF Of, Active
<1>3. ASSUME NEW r \in Runtimes, Restart(r)
      PROVE  TypeOK'
  <2>1. CASE FailRows(Of(r, Active), "infra")
    BY <1>2, <1>3, <2>1, TypeFailRows DEF Restart, TypeOK, FailureClasses
  <2>2. CASE UNCHANGED <<status, reason, lapsed, orphans>>
    BY <1>3, <2>2 DEF Restart, TypeOK, planned
  <2> QED
    BY <1>3, <2>1, <2>2 DEF Restart
<1>4. ASSUME NEW r \in Runtimes, SweepOffline(r)
      PROVE  TypeOK'
  BY <1>2, <1>4, TypeFailRows DEF SweepOffline, TypeOK, FailureClasses
<1>5. CASE ServerCrash
  BY <1>5 DEF ServerCrash, TypeOK, planned, columns
<1>6. ASSUME NEW c \in copies, GiveUp(c)
      PROVE  TypeOK'
  BY <1>6 DEF GiveUp, TypeOK, planned, columns
<1> QED
  BY <1>1, <1>3, <1>4, <1>5, <1>6 DEF Faults

LEMMA TypeSweep ==
  ASSUME TypeOK, Sweep
  PROVE  TypeOK'
<1>1. ASSUME NEW t \in Tasks, SweepStale(t)
      PROVE  TypeOK'
  <2>1. {t} \in SUBSET {u \in Tasks : status[u] # "free"}
    BY <1>1 DEF SweepStale
  <2> QED
    BY <1>1, <2>1, TypeFailRows DEF SweepStale, TypeOK, FailureClasses
<1>2. ASSUME NEW t \in Tasks, ExpireQueued(t)
      PROVE  TypeOK'
  <2>1. {t} \in SUBSET {u \in Tasks : status[u] # "free"}
    BY <1>2 DEF ExpireQueued
  <2> QED
    BY <1>2, <2>1, TypeFailRows DEF ExpireQueued, TypeOK, FailureClasses
<1> QED
  BY <1>1, <1>2 DEF Sweep

LEMMA TypeHandleFailed ==
  ASSUME TypeOK, NEW t \in Tasks, HandleFailed(t)
  PROVE  TypeOK'
<1>1. CASE LeaveFailed(t)
  BY <1>1 DEF LeaveFailed, TypeOK, planned, columns
<1>2. ASSUME NEW n \in Tasks, Retry(t, n)
      PROVE  TypeOK'
  <2>1. status[t] # "free" /\ InsertChild(n, t, reason[t])
    BY <1>2 DEF Retry
  <2>2. /\ lane' \in [Tasks -> Lanes \cup {None}] /\ home' \in [Tasks -> Runtimes \cup {None}]
        /\ attempt' \in [Tasks -> Nat] /\ budget' \in [Tasks -> Nat]
        /\ retryOf' \in [Tasks -> Tasks \cup {None}]
        /\ escalates' \in [Tasks -> Tasks \cup {None}]
        /\ lane'[n] = lane[t] /\ home'[n] = home[t]
        /\ \A u \in Tasks \ {n} : lane'[u] = lane[u] /\ home'[u] = home[u]
    BY <2>1, InsertedChild
  <2>3. /\ status' \in [Tasks -> Statuses]
        /\ \A u \in Tasks \ {n} : status'[u] = status[u]
    BY <1>2 DEF Retry, ChildStatus, TypeOK, Statuses
  <2>4. \A u \in Tasks : status'[u] # "free" => lane'[u] \in Lanes /\ home'[u] \in Runtimes
    BY <2>1, <2>2, <2>3 DEF TypeOK
  <2> QED
    BY <1>2, <2>2, <2>3, <2>4 DEF Retry, TypeOK
<1> QED
  BY <1>1, <1>2 DEF HandleFailed

LEMMA TypeStep == TypeOK /\ [Next]_vars => TypeOK'
<1> SUFFICES ASSUME TypeOK, [Next]_vars
             PROVE  TypeOK'
  OBVIOUS
<1>1. CASE Clock
  BY <1>1 DEF Clock, FireTimePasses, Lapse, TypeOK, planned
<1>2. CASE UNCHANGED vars
  BY <1>2 DEF vars, columns, planned, TypeOK
<1>3. ASSUME NEW c \in copies, Work(c) \/ Report(c)
      PROVE  TypeOK'
  BY <1>3, TypeWork, TypeReport
<1> QED
  BY <1>1, <1>2, <1>3, TypeUsers, TypePoll, TypeAnswer, TypeFaults, TypeSweep, TypeHandleFailed
     DEF Next

\* The rows, the claims in flight and the copies at the daemons keep their
\* shape: no step writes a row that was not inserted or a column out of range.
THEOREM TypeCorrect == Spec => []TypeOK
  BY TypeInit, TypeStep, PTL DEF Spec

-----------------------------------------------------------------------------
(* The life of a row: what any step of the system may do to it.            *)

\* The claim query took t, for an agent with room, and touched no other row.
Granted(t) ==
    /\ Claimable(t) /\ HasRoom(AgentOf[lane[t]])
    /\ \A u \in Tasks \ {t} : status'[u] = status[u]

RowStep(t) ==
    /\ status[t] \in Terminal => status'[t] = status[t]
    /\ status[t] = "running" => status'[t] \in {"running"} \cup Terminal
    /\ status[t] # "free" => /\ status'[t] # "free"
                             /\ lane'[t] = lane[t] /\ attempt'[t] = attempt[t]
                             /\ budget'[t] = budget[t] /\ retryOf'[t] = retryOf[t]
    /\ status'[t] \in Active => status[t] \in Active \/ Granted(t)

\* A step that leaves the statuses and the planned columns alone.
LEMMA RowIdle ==
  ASSUME NEW t \in Tasks, UNCHANGED <<planned, status>>
  PROVE  RowStep(t)
  BY DEF RowStep, planned

LEMMA RowUsers ==
  ASSUME TypeOK, Users, NEW t \in Tasks
  PROVE  RowStep(t)
<1>1. ASSUME NEW n \in Tasks, NEW l \in Lanes, NEW r \in Runtimes, NEW p \in Tasks,
             Enqueue(n, l, r) \/ EnqueueFallback(n, l, r, p)
      PROVE  RowStep(t)
  <2>1. /\ status[n] = "free"
        /\ status' = [status EXCEPT ![n] = "queued"] \/ status' = [status EXCEPT ![n] = "deferred"]
        /\ \E q \in {None, p} : Insert(n, l, r, 1, ColumnBudget, None, q)
    BY <1>1 DEF Enqueue, EnqueueFallback, Free
  <2>2. \A u \in Tasks \ {n} : /\ lane'[u] = lane[u] /\ attempt'[u] = attempt[u]
                               /\ budget'[u] = budget[u] /\ retryOf'[u] = retryOf[u]
    BY <2>1 DEF Insert, TypeOK
  <2> QED
    BY <2>1, <2>2 DEF RowStep, TypeOK, Active, Terminal
<1>2. ASSUME NEW u \in Tasks, Cancel(u)
      PROVE  RowStep(t)
  BY <1>2 DEF Cancel, RowStep, TypeOK, planned, Active, Terminal
<1>3. ASSUME NEW l \in Lanes, CancelLane(l)
      PROVE  RowStep(t)
  BY <1>3 DEF CancelLane, RowStep, TypeOK, planned, Active, Terminal
<1>4. CASE \E n \in Tasks, l \in Lanes, r \in Runtimes :
              Enqueue(n, l, r) \/ \E p \in Tasks : EnqueueFallback(n, l, r, p)
  BY <1>1, <1>4
<1> QED
  BY <1>2, <1>3, <1>4 DEF Users

LEMMA RowPoll ==
  ASSUME TypeOK, NEW r \in Runtimes, Poll(r), NEW t \in Tasks
  PROVE  RowStep(t)
<1>1. CASE PollPromote(r)
  BY <1>1 DEF PollPromote, DueRows, Of, RowStep, TypeOK, planned, Active, Terminal
<1>2. CASE PollNothingToReclaim(r) \/ PollDone(r)
  BY <1>2, RowIdle DEF PollNothingToReclaim, PollDone, columns
<1>3. ASSUME NEW u \in Tasks, PollReclaim(r, u)
      PROVE  RowStep(t)
  BY <1>3, RowIdle DEF PollReclaim
<1>4. ASSUME NEW c \in Tasks, NEW u \in Tasks, PollClaim(r, c, u)
      PROVE  RowStep(t)
  <2>1. /\ Claimable(u) /\ HasRoom(AgentOf[lane[u]])
        /\ status' = [status EXCEPT ![u] = "dispatched"] /\ UNCHANGED planned
    BY <1>4 DEF PollClaim
  <2>2. Granted(u)
    BY <2>1 DEF Granted, TypeOK
  <2> QED
    BY <2>1, <2>2 DEF Claimable, RowStep, TypeOK, planned, Active, Terminal
<1> QED
  BY <1>1, <1>2, <1>3, <1>4 DEF Poll

LEMMA RowAnswer ==
  ASSUME TypeOK, NEW c \in held, Answer(c), NEW t \in Tasks
  PROVE  RowStep(t)
<1>1. CASE Deliver(c) \/ LoseAnswer(c)
  BY <1>1, RowIdle DEF Deliver, LoseAnswer, columns
<1>2. CASE Requeue(c)
  BY <1>2 DEF Requeue, RowStep, TypeOK, planned, Active, Terminal
<1> QED
  BY <1>1, <1>2 DEF Answer

LEMMA RowWork ==
  ASSUME TypeOK, NEW c \in copies, Work(c), NEW t \in Tasks
  PROVE  RowStep(t)
<1>1. ASSUME NEW S \in SUBSET Tasks, StartRow(c.task, S), UNCHANGED planned
      PROVE  RowStep(t)
  BY <1>1 DEF StartRow, Fallbacks, RowStep, TypeOK, planned, Active, Terminal
<1>2. ASSUME NEW S \in SUBSET Tasks, NEW why \in FailureClasses,
             Start(c, S) \/ StartUnanswered(c, S, why)
      PROVE  RowStep(t)
  <2>1. StartRow(c.task, S) /\ UNCHANGED planned
    BY <1>2 DEF Start, StartUnanswered
  <2> QED
    BY <1>1, <2>1
<1>3. ASSUME NEW why \in FailureClasses,
             PrepareFails(c, why) \/ AgentFails(c, why) \/ AgentSucceeds(c)
                \/ Extend(c) \/ Interrupt(c)
      PROVE  RowStep(t)
  BY <1>3, RowIdle DEF PrepareFails, AgentFails, AgentSucceeds, Extend, Interrupt, columns
<1>4. CASE Wait(c)
  BY <1>4 DEF Wait, RowStep, TypeOK, planned, Active, Terminal
<1>5. CASE Progress(c)
  <2>1. CASE \E S \in SUBSET Tasks : Start(c, S)
    BY <1>2, <2>1 DEF FailureClasses
  <2> QED
    BY <1>3, <1>5, <2>1 DEF Progress, FailureClasses
<1>6. CASE Extend(c) \/ Interrupt(c)
  BY <1>3, <1>6 DEF FailureClasses
<1> QED
  BY <1>2, <1>4, <1>5, <1>6 DEF Work

LEMMA RowReport ==
  ASSUME TypeOK, NEW c \in copies, Report(c), NEW t \in Tasks
  PROVE  RowStep(t)
<1>1. c.task \in Tasks
  BY DEF TypeOK, Copies
<1>2. CASE ReportComplete(c)
  BY <1>1, <1>2 DEF ReportComplete, RowStep, TypeOK, planned, Active, Terminal
<1>3. CASE ReportTooLate(c)
  BY <1>3, RowIdle DEF ReportTooLate, columns
<1>4. CASE ReportFail(c)
  BY <1>1, <1>4 DEF ReportFail, RowStep, TypeOK, planned, Active, Terminal
<1>5. ASSUME NEW n \in Tasks, ReportFailAndRetry(c, n)
      PROVE  RowStep(t)
  <2>1. status[c.task] \in Active /\ status[c.task] # "free" /\ InsertChild(n, c.task, c.why)
    BY <1>5 DEF ReportFailAndRetry, Active
  <2>2. /\ status[n] = "free"
        /\ \A u \in Tasks \ {n} : /\ lane'[u] = lane[u] /\ attempt'[u] = attempt[u]
                                  /\ budget'[u] = budget[u] /\ retryOf'[u] = retryOf[u]
    BY <1>1, <2>1, InsertedChild
  <2>3. status' = [status EXCEPT ![c.task] = "failed", ![n] = ChildStatus(c.task, c.why)]
    BY <1>5 DEF ReportFailAndRetry
  <2> QED
    BY <1>1, <2>1, <2>2, <2>3 DEF ChildStatus, RowStep, TypeOK, Active, Terminal
<1> QED
  BY <1>2, <1>3, <1>4, <1>5 DEF Report

\* A bulk failure of rows that are queued or active.
LEMMA RowFailRows ==
  ASSUME TypeOK, NEW S, \A u \in S : status[u] \in {"queued"} \cup Active,
         NEW why, FailRows(S, why), UNCHANGED planned, NEW t \in Tasks
  PROVE  RowStep(t)
  BY DEF FailRows, RowStep, TypeOK, planned, Active, Terminal

LEMMA RowFaults ==
  ASSUME TypeOK, Faults, NEW t \in Tasks
  PROVE  RowStep(t)
<1>1. ASSUME NEW r \in Runtimes, Cut(r) \/ Mend(r) \/ Crash(r)
      PROVE  RowStep(t)
  BY <1>1, RowIdle DEF Cut, Mend, Crash, columns
<1>2. ASSUME NEW r \in Runtimes, FailRows(Of(r, Active), "infra"), UNCHANGED planned
      PROVE  RowStep(t)
  <2>1. \A u \in Of(r, Active) : status[u] \in {"queued"} \cup Active
    BY DEF Of
  <2> QED
    BY <1>2, <2>1, RowFailRows
<1>3. ASSUME NEW r \in Runtimes, Restart(r) \/ SweepOffline(r)
      PROVE  RowStep(t)
  <2>1. CASE UNCHANGED status
    BY <1>3, <2>1, RowIdle DEF Restart, SweepOffline
  <2> QED
    BY <1>2, <1>3, <2>1 DEF Restart, SweepOffline
<1>4. CASE ServerCrash
  BY <1>4, RowIdle DEF ServerCrash, columns
<1>5. ASSUME NEW c \in copies, GiveUp(c)
      PROVE  RowStep(t)
  BY <1>5, RowIdle DEF GiveUp, columns
<1> QED
  BY <1>1, <1>3, <1>4, <1>5 DEF Faults

LEMMA RowSweep ==
  ASSUME TypeOK, Sweep, NEW t \in Tasks
  PROVE  RowStep(t)
<1>1. PICK u \in Tasks : SweepStale(u) \/ ExpireQueued(u)
  BY DEF Sweep
<1>2. /\ status[u] \in {"queued"} \cup Active /\ UNCHANGED planned
      /\ FailRows({u}, "infra") \/ FailRows({u}, "fatal")
  BY <1>1 DEF SweepStale, ExpireQueued, Active
<1> QED
  BY <1>2, RowFailRows

LEMMA RowHandleFailed ==
  ASSUME TypeOK, NEW u \in Tasks, HandleFailed(u), NEW t \in Tasks
  PROVE  RowStep(t)
<1>1. CASE LeaveFailed(u)
  BY <1>1, RowIdle DEF LeaveFailed, columns
<1>2. ASSUME NEW n \in Tasks, Retry(u, n)
      PROVE  RowStep(t)
  <2>1. status[u] # "free" /\ InsertChild(n, u, reason[u])
    BY <1>2 DEF Retry
  <2>2. /\ status[n] = "free"
        /\ \A v \in Tasks \ {n} : /\ lane'[v] = lane[v] /\ attempt'[v] = attempt[v]
                                  /\ budget'[v] = budget[v] /\ retryOf'[v] = retryOf[v]
    BY <2>1, InsertedChild
  <2>3. status' = [status EXCEPT ![n] = ChildStatus(u, reason[u])]
    BY <1>2 DEF Retry
  <2> QED
    BY <2>2, <2>3 DEF ChildStatus, RowStep, TypeOK, Active, Terminal
<1> QED
  BY <1>1, <1>2 DEF HandleFailed

LEMMA RowNext ==
  ASSUME TypeOK, [Next]_vars, NEW t \in Tasks
  PROVE  RowStep(t)
<1>1. CASE Clock
  BY <1>1, RowIdle DEF Clock, FireTimePasses, Lapse
<1>2. CASE UNCHANGED vars
  BY <1>2, RowIdle DEF vars, columns
<1> QED
  BY <1>1, <1>2, RowUsers, RowPoll, RowAnswer, RowWork, RowReport, RowFaults, RowSweep,
     RowHandleFailed DEF Next

-----------------------------------------------------------------------------
(* What the life of a row implies.                                         *)

\* A settled row keeps its outcome through every report, sweep, cancellation
\* and promotion: the CAS guards of the queries do not overlap.
THEOREM OutcomesAreFinal == Spec => TerminalIsFinal
<1>1. TypeOK /\ [Next]_vars => [\A t \in Tasks : status[t] \in Terminal => status'[t] = status[t]]_vars
  BY RowNext DEF RowStep
<1> QED
  BY <1>1, TypeCorrect, PTL DEF Spec, TerminalIsFinal

LEMMA LaneStep == TypeOK /\ LaneExclusive /\ [Next]_vars => LaneExclusive'
<1> SUFFICES ASSUME TypeOK, LaneExclusive, [Next]_vars,
                    NEW t \in Tasks, NEW u \in Tasks, t # u, lane'[t] = lane'[u],
                    status'[t] \in Active, status'[u] \in Active
             PROVE  FALSE
  BY DEF LaneExclusive
<1>1. RowStep(t) /\ RowStep(u)
  BY RowNext
<1>2. ASSUME NEW x \in {t, u}, NEW y \in {t, u}, x # y, Granted(x)
      PROVE  FALSE
  <2>1. status'[y] = status[y]
    BY <1>2 DEF Granted
  <2>2. lane'[x] = lane[x] /\ lane'[y] = lane[y]
    BY <1>1, <1>2, <2>1 DEF RowStep, Granted, Claimable, Active
  <2> QED
    BY <1>2, <2>1, <2>2 DEF Granted, Claimable
<1>3. status[t] \in Active /\ status[u] \in Active
  BY <1>1, <1>2 DEF RowStep
<1>4. lane'[t] = lane[t] /\ lane'[u] = lane[u]
  BY <1>1, <1>3 DEF RowStep, Active
<1> QED
  BY <1>3, <1>4 DEF LaneExclusive

\* The claim query serializes each (issue, agent) pair: however polls, retries
\* and redeliveries interleave, at most one of its rows is active.
THEOREM LanesAreExclusive == Spec => []LaneExclusive
<1>1. Init => LaneExclusive
  BY DEF Init, LaneExclusive, Active
<1> QED
  BY <1>1, LaneStep, TypeCorrect, PTL DEF Spec

LEMMA BusyFinite == \A a : IsFiniteSet(Busy(a)) /\ Cardinality(Busy(a)) \in Nat
<1> SUFFICES ASSUME NEW a
             PROVE  IsFiniteSet(Busy(a)) /\ Cardinality(Busy(a)) \in Nat
  OBVIOUS
<1>1. Busy(a) \in SUBSET Tasks
  BY DEF Busy
<1> QED
  BY <1>1, RowsAssumption, FS_Subset, FS_CardinalityType

LEMMA CapacityStep == TypeOK /\ WithinCapacity /\ [Next]_vars => WithinCapacity'
<1> SUFFICES ASSUME TypeOK, WithinCapacity, [Next]_vars, NEW a \in Agents
             PROVE  Cardinality(Busy(a)') <= Cap[a]
  BY DEF WithinCapacity
<1>1. Cap[a] \in Nat /\ Cardinality(Busy(a)) <= Cap[a]
  BY LanesAssumption DEF WithinCapacity
<1>2. CASE \E t \in Busy(a)' : Granted(t)
  <2>1. PICK t \in Busy(a)' : Granted(t)
    BY <1>2
  <2>2. t \in Tasks /\ lane'[t] = lane[t] /\ AgentOf[lane[t]] = a
    BY <2>1, RowNext DEF Busy, RowStep, Granted, Claimable
  <2>3. Busy(a)' \subseteq Busy(a) \cup {t}
    <3> SUFFICES ASSUME NEW u \in Busy(a)', u # t
                 PROVE  u \in Busy(a)
      OBVIOUS
    <3>1. u \in Tasks /\ RowStep(u) /\ status[u] = status'[u]
      BY <2>1, RowNext DEF Busy, Granted
    <3>2. lane'[u] = lane[u]
      BY <3>1 DEF Busy, RowStep, Active
    <3> QED
      BY <3>1, <3>2 DEF Busy
  <2>4. Cardinality(Busy(a)) < Cap[a]
    BY <2>1, <2>2 DEF Granted, HasRoom
  <2>5. IsFiniteSet(Busy(a) \cup {t}) /\ Cardinality(Busy(a) \cup {t}) <= Cardinality(Busy(a)) + 1
    <3>1. IsFiniteSet(Busy(a)) /\ Cardinality(Busy(a)) \in Nat
      BY BusyFinite
    <3>2. /\ IsFiniteSet(Busy(a) \cup {t})
          /\ Cardinality(Busy(a) \cup {t})
               = IF t \in Busy(a) THEN Cardinality(Busy(a)) ELSE Cardinality(Busy(a)) + 1
      BY <3>1, FS_AddElement
    <3> QED
      BY <3>1, <3>2
  <2>6. Cardinality(Busy(a)') <= Cardinality(Busy(a) \cup {t})
    BY <2>3, <2>5, FS_Subset
  <2>7. Cardinality(Busy(a)') \in Nat /\ Cardinality(Busy(a) \cup {t}) \in Nat
    BY <2>3, <2>5, FS_Subset, FS_CardinalityType
  <2> QED
    BY <1>1, <2>4, <2>5, <2>6, <2>7, BusyFinite
<1>3. CASE ~ \E t \in Busy(a)' : Granted(t)
  <2>1. Busy(a)' \subseteq Busy(a)
    <3> SUFFICES ASSUME NEW u \in Busy(a)'
                 PROVE  u \in Busy(a)
      OBVIOUS
    <3>1. u \in Tasks /\ RowStep(u) /\ status[u] \in Active
      BY <1>3, RowNext DEF Busy, RowStep
    <3>2. lane'[u] = lane[u]
      BY <3>1 DEF RowStep, Active
    <3> QED
      BY <3>1, <3>2 DEF Busy
  <2>2. Cardinality(Busy(a)') <= Cardinality(Busy(a)) /\ Cardinality(Busy(a)') \in Nat
    BY <2>1, BusyFinite, FS_Subset, FS_CardinalityType
  <2> QED
    BY <1>1, <2>2, BusyFinite
<1> QED
  BY <1>2, <1>3

\* The agent's row lock around the count and the claim keeps every agent within
\* max_concurrent_tasks, for any number of lanes, runtimes and rows.
THEOREM CapacityIsKept == Spec => []WithinCapacity
<1>1. Init => WithinCapacity
  <2> SUFFICES ASSUME Init, NEW a \in Agents
               PROVE  Cardinality(Busy(a)) <= Cap[a]
    BY DEF WithinCapacity
  <2>1. Busy(a) = {}
    BY DEF Init, Busy, Active
  <2> QED
    BY <2>1, FS_EmptySet, LanesAssumption
<1> QED
  BY <1>1, CapacityStep, TypeCorrect, PTL DEF Spec

-----------------------------------------------------------------------------
(* Executions.                                                             *)

Executions == {c \in copies : c.at = "run"}

\* An execution begins only by starting a row that is dispatched or waiting.
ExecutionStep ==
    \/ Executions' \subseteq Executions
    \/ \E x : /\ x.task \in Tasks /\ Executions' \subseteq Executions \cup {x}
              /\ status[x.task] \in {"dispatched", "waiting"}
              /\ status'[x.task] = "running"

LEMMA ExecutionIdle ==
  ASSUME copies' \subseteq copies
  PROVE  ExecutionStep
  BY DEF ExecutionStep, Executions

LEMMA ExecutionWork ==
  ASSUME TypeOK, NEW c \in copies, Work(c)
  PROVE  ExecutionStep
<1>1. c \in Copies /\ c.task \in Tasks
  BY DEF TypeOK, Copies
<1>2. ASSUME NEW d, Becomes(c, d), d.at # "run"
      PROVE  ExecutionStep
  BY <1>2 DEF Becomes, ExecutionStep, Executions
<1>3. ASSUME NEW S \in SUBSET Tasks, Start(c, S)
      PROVE  ExecutionStep
  <2>1. PICK x : x = [c EXCEPT !.at = "run"]
    OBVIOUS
  <2>2. x.task = c.task
    BY <1>1, <2>1, CopyMoves
  <2>3. Executions' \subseteq Executions \cup {x}
    BY <1>3, <2>1 DEF Start, Becomes, Executions
  <2>4. status[c.task] \in {"dispatched", "waiting"} /\ status'[c.task] = "running"
    BY <1>1, <1>3 DEF Start, StartRow
  <2> QED
    BY <1>1, <2>2, <2>3, <2>4 DEF ExecutionStep
<1>4. ASSUME NEW S \in SUBSET Tasks, NEW why \in FailureClasses, StartUnanswered(c, S, why)
      PROVE  ExecutionStep
  BY <1>1, <1>2, <1>4, CopyMoves DEF StartUnanswered
<1>5. ASSUME NEW why \in FailureClasses, PrepareFails(c, why) \/ AgentFails(c, why)
      PROVE  ExecutionStep
  BY <1>1, <1>2, <1>5, CopyMoves DEF PrepareFails, AgentFails
<1>6. CASE AgentSucceeds(c)
  BY <1>1, <1>2, <1>6, CopyMoves DEF AgentSucceeds
<1>7. CASE Wait(c) \/ Extend(c) \/ Interrupt(c)
  BY <1>7, ExecutionIdle DEF Wait, Extend, Interrupt
<1> QED
  BY <1>3, <1>4, <1>5, <1>6, <1>7 DEF Work, Progress

LEMMA ExecutionNext ==
  ASSUME TypeOK, [Next]_vars
  PROVE  ExecutionStep
<1>1. CASE Users
  BY <1>1, ExecutionIdle DEF Users, Enqueue, EnqueueFallback, Cancel, CancelLane
<1>2. CASE Sweep
  BY <1>2, ExecutionIdle DEF Sweep, SweepStale, ExpireQueued
<1>3. CASE Clock \/ UNCHANGED vars
  BY <1>3, ExecutionIdle DEF Clock, FireTimePasses, Lapse, vars
<1>4. CASE Faults
  BY <1>4, ExecutionIdle DEF Faults, Cut, Mend, Crash, Restart, SweepOffline, ServerCrash, GiveUp
<1>5. ASSUME NEW r \in Runtimes, Poll(r)
      PROVE  ExecutionStep
  BY <1>5, ExecutionIdle
     DEF Poll, PollPromote, PollNothingToReclaim, PollDone, PollReclaim, PollClaim
<1>6. ASSUME NEW c \in held, Answer(c)
      PROVE  ExecutionStep
  <2>1. CASE Deliver(c)
    BY <2>1 DEF Deliver, ExecutionStep, Executions
  <2> QED
    BY <1>6, <2>1, ExecutionIdle DEF Answer, LoseAnswer, Requeue
<1>7. ASSUME NEW c \in copies, Report(c)
      PROVE  ExecutionStep
  BY <1>7, ExecutionIdle
     DEF Report, ReportComplete, ReportTooLate, ReportFail, ReportFailAndRetry
<1>8. ASSUME NEW t \in Tasks, HandleFailed(t)
      PROVE  ExecutionStep
  BY <1>8, ExecutionIdle DEF HandleFailed, LeaveFailed, Retry
<1> QED
  BY <1>1, <1>2, <1>3, <1>4, <1>5, <1>6, <1>7, <1>8, ExecutionWork DEF Next

LEMMA ExecutionPreserved == TypeOK /\ OneExecution /\ [Next]_vars => OneExecution'
<1> SUFFICES ASSUME TypeOK, OneExecution, [Next]_vars
             PROVE  OneExecution'
  OBVIOUS
<1>1. \A c \in Executions :
        /\ c.task \in Tasks /\ status[c.task] \in {"running"} \cup Terminal
        /\ \A d \in Executions : c.task = d.task => c = d
  BY DEF OneExecution, Executions, TypeOK, Copies
<1>2. \A c \in Executions : status'[c.task] \in {"running"} \cup Terminal
  BY <1>1, RowNext DEF RowStep
<1>3. /\ \A c \in Executions' : status'[c.task] \in {"running"} \cup Terminal
      /\ \A c, d \in Executions' : c.task = d.task => c = d
  <2>1. CASE Executions' \subseteq Executions
    BY <1>1, <1>2, <2>1
  <2>2. CASE ~(Executions' \subseteq Executions)
    <3>1. PICK x : /\ x.task \in Tasks /\ Executions' \subseteq Executions \cup {x}
                   /\ status[x.task] \in {"dispatched", "waiting"}
                   /\ status'[x.task] = "running"
      BY <2>2, ExecutionNext DEF ExecutionStep
    <3>2. \A c \in Executions : c.task # x.task
      BY <1>1, <3>1 DEF Terminal
    <3> QED
      BY <1>1, <1>2, <3>1, <3>2
  <2> QED
    BY <2>1, <2>2
<1> QED
  BY <1>3 DEF OneExecution, Executions

\* StartTask's CAS on the status is enough: however often a row is redelivered
\* or requeued, only one copy of it gets to run.
THEOREM ExecutedOnce == Spec => []OneExecution
<1>1. Init => OneExecution
  BY DEF Init, OneExecution
<1> QED
  BY <1>1, ExecutionPreserved, TypeCorrect, PTL DEF Spec

-----------------------------------------------------------------------------
(* Dispatches: claims in flight, claims delivered, and the row's own count. *)

Unclaimed == {"free", "deferred"}

\* Every dispatch is in one place, and no newer than the row knows; a row that
\* was never dispatched has none; a claim still in its handler's hands is on a
\* row that is not queued, unless it was superseded.
DispatchInv ==
    /\ \A t \in Tasks : status[t] \in Unclaimed => claim[t] = 0
    /\ \A h \in held : h.claim # 0 /\ h.claim <= claim[h.task]
    /\ \A c \in copies : c.claim # 0 /\ c.claim <= claim[c.task]
    /\ \A h \in held, c \in copies : h.task = c.task => h.claim # c.claim
    /\ \A h \in held : claim[h.task] = h.claim => status[h.task] # "queued"
    /\ DeliveredIsNotQueued

\* A step that dispatches nothing, delivers nothing and gives nothing back.
DispatchQuiet ==
    /\ claim' = claim /\ held' \subseteq held
    /\ \A c \in copies' : \E d \in copies : d.task = c.task /\ d.claim = c.claim
    /\ \A t \in Tasks : /\ status'[t] \in Unclaimed => status[t] \in Unclaimed
                        /\ status'[t] = "queued" => status[t] \in Unclaimed \cup {"queued"}

\* Statuses a step may set without touching the dispatches.
LEMMA QuietSteps ==
  ASSUME TypeOK, [Next]_vars
  PROVE  \/ DispatchQuiet
         \/ \E r \in Runtimes, t \in Tasks : PollReclaim(r, t)
         \/ \E r \in Runtimes, c \in Tasks, t \in Tasks : PollClaim(r, c, t)
         \/ \E c \in held : Deliver(c) \/ Requeue(c)
<1>1. CASE Users
  BY <1>1 DEF Users, Enqueue, EnqueueFallback, Cancel, CancelLane, Free,
              DispatchQuiet, Unclaimed, TypeOK
<1>2. ASSUME NEW S, \A t \in S : status[t] # "free", NEW why, FailRows(S, why),
             claim' = claim, held' = held, copies' = copies
      PROVE  DispatchQuiet
  BY <1>2 DEF FailRows, DispatchQuiet, Unclaimed, TypeOK
<1>3. CASE Sweep
  <2>1. PICK t \in Tasks : SweepStale(t) \/ ExpireQueued(t)
    BY <1>3 DEF Sweep
  <2>2. FailRows({t}, "infra") \/ FailRows({t}, "fatal")
    BY <2>1 DEF SweepStale, ExpireQueued
  <2>3. \A u \in {t} : status[u] # "free"
    BY <2>1 DEF SweepStale, ExpireQueued
  <2>4. claim' = claim /\ held' = held /\ copies' = copies
    BY <2>1 DEF SweepStale, ExpireQueued
  <2> QED
    BY <1>2, <2>2, <2>3, <2>4
<1>4. CASE Clock \/ UNCHANGED vars
  BY <1>4 DEF Clock, FireTimePasses, Lapse, vars, columns, DispatchQuiet, Unclaimed
<1>5. CASE Faults
  <2>1. ASSUME NEW r \in Runtimes, FailRows(Of(r, Active), "infra"),
               claim' = claim, held' = held, copies' = copies
        PROVE  DispatchQuiet
    <3>1. \A t \in Of(r, Active) : status[t] # "free"
      BY DEF Of, Active
    <3> QED
      BY <1>2, <2>1, <3>1
  <2>2. ASSUME NEW r \in Runtimes, Restart(r) \/ SweepOffline(r)
        PROVE  DispatchQuiet
    <3>1. claim' = claim /\ held' = held /\ copies' = copies
      BY <2>2 DEF Restart, SweepOffline
    <3>2. CASE status' = status
      BY <3>1, <3>2 DEF DispatchQuiet, Unclaimed
    <3> QED
      BY <2>1, <2>2, <3>1, <3>2 DEF Restart, SweepOffline
  <2>3. ASSUME NEW r \in Runtimes, Cut(r) \/ Mend(r) \/ Crash(r)
        PROVE  DispatchQuiet
    BY <2>3 DEF Cut, Mend, Crash, columns, DispatchQuiet, Unclaimed
  <2>4. CASE ServerCrash
    BY <2>4 DEF ServerCrash, columns, DispatchQuiet, Unclaimed
  <2>5. ASSUME NEW c \in copies, GiveUp(c)
        PROVE  DispatchQuiet
    BY <2>5 DEF GiveUp, columns, DispatchQuiet, Unclaimed
  <2> QED
    BY <1>5, <2>2, <2>3, <2>4, <2>5 DEF Faults
<1>6. ASSUME NEW r \in Runtimes,
             PollPromote(r) \/ PollNothingToReclaim(r) \/ PollDone(r)
      PROVE  DispatchQuiet
  BY <1>6 DEF PollPromote, PollNothingToReclaim, PollDone, DueRows, Of, columns,
              DispatchQuiet, Unclaimed, TypeOK
<1>7. ASSUME NEW c \in held, LoseAnswer(c)
      PROVE  DispatchQuiet
  BY <1>7 DEF LoseAnswer, columns, DispatchQuiet, Unclaimed
<1>8. ASSUME NEW c \in copies, Work(c)
      PROVE  DispatchQuiet
  <2>1. c \in Copies /\ c.task \in Tasks
    BY DEF TypeOK, Copies
  <2>2. ASSUME NEW d, Becomes(c, d), d.task = c.task, d.claim = c.claim
        PROVE  \A e \in copies' : \E f \in copies : f.task = e.task /\ f.claim = e.claim
    BY <2>2 DEF Becomes
  <2>3. ASSUME NEW S \in SUBSET Tasks, StartRow(c.task, S)
        PROVE  \A t \in Tasks : /\ status'[t] \in Unclaimed => status[t] \in Unclaimed
                                /\ status'[t] = "queued" => status[t] = "queued"
    BY <2>3 DEF StartRow, Unclaimed
  <2>4. ASSUME NEW S \in SUBSET Tasks, Start(c, S)
        PROVE  DispatchQuiet
    <3>1. StartRow(c.task, S) /\ claim' = claim /\ held' = held
      BY <2>4 DEF Start
    <3>2. \A e \in copies' : \E f \in copies : f.task = e.task /\ f.claim = e.claim
      BY <2>1, <2>2, <2>4, CopyMoves DEF Start
    <3> QED
      BY <2>3, <3>1, <3>2 DEF DispatchQuiet
  <2>5. ASSUME NEW S \in SUBSET Tasks, NEW why \in FailureClasses, StartUnanswered(c, S, why)
        PROVE  DispatchQuiet
    <3>1. StartRow(c.task, S) /\ claim' = claim /\ held' = held
      BY <2>5 DEF StartUnanswered
    <3>2. \A e \in copies' : \E f \in copies : f.task = e.task /\ f.claim = e.claim
      BY <2>1, <2>2, <2>5, CopyMoves DEF StartUnanswered
    <3> QED
      BY <2>3, <3>1, <3>2 DEF DispatchQuiet
  <2>6. ASSUME NEW why \in FailureClasses,
               PrepareFails(c, why) \/ AgentFails(c, why) \/ AgentSucceeds(c)
        PROVE  DispatchQuiet
    <3>1. claim' = claim /\ held' = held /\ status' = status
      BY <2>6 DEF PrepareFails, AgentFails, AgentSucceeds, columns
    <3>2. \A e \in copies' : \E f \in copies : f.task = e.task /\ f.claim = e.claim
      BY <2>1, <2>2, <2>6, CopyMoves DEF PrepareFails, AgentFails, AgentSucceeds
    <3> QED
      BY <3>1, <3>2 DEF DispatchQuiet, Unclaimed
  <2>7. CASE Wait(c) \/ Extend(c) \/ Interrupt(c)
    BY <2>1, <2>7 DEF Wait, Extend, Interrupt, columns, DispatchQuiet, Unclaimed, TypeOK
  <2>8. CASE Progress(c)
    BY <2>4, <2>6, <2>8 DEF Progress, FailureClasses
  <2> QED
    BY <1>8, <2>5, <2>7, <2>8 DEF Work
<1>9. ASSUME NEW c \in copies, Report(c)
      PROVE  DispatchQuiet
  <2>1. c.task \in Tasks
    BY DEF TypeOK, Copies
  <2>2. CASE ReportComplete(c) \/ ReportTooLate(c) \/ ReportFail(c)
    BY <2>1, <2>2 DEF ReportComplete, ReportTooLate, ReportFail, columns,
                      DispatchQuiet, Unclaimed, TypeOK
  <2>3. ASSUME NEW n \in Tasks, ReportFailAndRetry(c, n)
        PROVE  DispatchQuiet
    BY <2>1, <2>3 DEF ReportFailAndRetry, InsertChild, Free, DispatchQuiet, Unclaimed, TypeOK
  <2> QED
    BY <1>9, <2>2, <2>3 DEF Report
<1>10. ASSUME NEW t \in Tasks, HandleFailed(t)
       PROVE  DispatchQuiet
  BY <1>10 DEF HandleFailed, LeaveFailed, Retry, InsertChild, Free, columns,
               DispatchQuiet, Unclaimed, TypeOK
<1> QED
  BY <1>1, <1>3, <1>4, <1>5, <1>6, <1>7, <1>8, <1>9, <1>10 DEF Next, Poll, Answer

LEMMA DispatchStep == TypeOK /\ DispatchInv /\ [Next]_vars => DispatchInv'
<1> SUFFICES ASSUME TypeOK, DispatchInv, [Next]_vars
             PROVE  DispatchInv'
  OBVIOUS
<1>1. /\ \A t \in Tasks : claim[t] \in Nat
      /\ \A h \in held : h \in Claims /\ h.task \in Tasks /\ h.claim \in Nat
      /\ \A c \in copies : c \in Copies /\ c.task \in Tasks /\ c.claim \in Nat
  BY DEF TypeOK, Claims, Copies
<1>2. CASE DispatchQuiet
  BY <1>1, <1>2 DEF DispatchQuiet, DispatchInv, DeliveredIsNotQueued, Unclaimed
<1>3. ASSUME NEW t \in Tasks, status[t] \notin Unclaimed,
             claim' = [claim EXCEPT ![t] = @ + 1],
             status'[t] = "dispatched", \A u \in Tasks \ {t} : status'[u] = status[u],
             \A h \in held' : h \in held \/ (h.task = t /\ h.claim = claim[t] + 1),
             copies' = copies
      PROVE  DispatchInv'
  <2>1. /\ claim'[t] = claim[t] + 1 /\ \A u \in Tasks \ {t} : claim'[u] = claim[u]
    BY <1>3 DEF TypeOK
  <2>2. \A h \in held' : h \in held \/ (h.task = t /\ h.claim = claim[t] + 1)
    BY <1>3
  <2>3. \A u \in Tasks : status'[u] \in Unclaimed => claim'[u] = 0
    BY <1>3, <2>1 DEF DispatchInv, Unclaimed
  <2>4. /\ \A h \in held' : h.claim # 0 /\ h.claim <= claim'[h.task]
        /\ \A c \in copies' : c.claim # 0 /\ c.claim <= claim'[c.task]
    BY <1>1, <1>3, <2>1, <2>2 DEF DispatchInv
  <2>5. \A h \in held', c \in copies' : h.task = c.task => h.claim # c.claim
    BY <1>1, <1>3, <2>2 DEF DispatchInv
  <2>6. \A h \in held' : claim'[h.task] = h.claim => status'[h.task] # "queued"
    BY <1>1, <1>3, <2>1, <2>2 DEF DispatchInv
  <2>7. \A c \in copies' : claim'[c.task] = c.claim => status'[c.task] # "queued"
    BY <1>1, <1>3, <2>1 DEF DispatchInv, DeliveredIsNotQueued
  <2> QED
    BY <2>3, <2>4, <2>5, <2>6, <2>7 DEF DispatchInv, DeliveredIsNotQueued
<1>4. ASSUME NEW r \in Runtimes, NEW t \in Tasks, PollReclaim(r, t)
      PROVE  DispatchInv'
  <2>1. status[t] = "dispatched" /\ status' = status
    BY <1>4 DEF PollReclaim, Reclaimable, Of
  <2>2. PICK x : x = [task |-> t, claim |-> claim[t] + 1]
    OBVIOUS
  <2>3. x.task = t /\ x.claim = claim[t] + 1 /\ held' = held \cup {x}
    BY <1>4, <2>2 DEF PollReclaim
  <2>4. claim' = [claim EXCEPT ![t] = @ + 1] /\ copies' = copies
    BY <1>4 DEF PollReclaim
  <2> QED
    BY <1>3, <2>1, <2>3, <2>4 DEF Unclaimed
<1>5. ASSUME NEW r \in Runtimes, NEW c \in Tasks, NEW t \in Tasks, PollClaim(r, c, t)
      PROVE  DispatchInv'
  <2>1. /\ status[t] = "queued" /\ status'[t] = "dispatched"
        /\ \A u \in Tasks \ {t} : status'[u] = status[u]
    BY <1>5 DEF PollClaim, Claimable, TypeOK
  <2>2. PICK x : x = [task |-> t, claim |-> claim[t] + 1]
    OBVIOUS
  <2>3. x.task = t /\ x.claim = claim[t] + 1 /\ held' \subseteq held \cup {x}
    BY <1>5, <2>2 DEF PollClaim
  <2>4. claim' = [claim EXCEPT ![t] = @ + 1] /\ copies' = copies
    BY <1>5 DEF PollClaim
  <2> QED
    BY <1>3, <2>1, <2>3, <2>4 DEF Unclaimed
<1>6. ASSUME NEW c \in held, Deliver(c)
      PROVE  DispatchInv'
  <2>1. /\ claim' = claim /\ status' = status /\ held' = held \ {c}
        /\ \A d \in copies' : d \in copies \/ (d.task = c.task /\ d.claim = c.claim)
    BY <1>6 DEF Deliver, columns
  <2>2. \A h \in held' : h.task = c.task => h.claim # c.claim
    BY <1>1, <2>1 DEF Claims
  <2> QED
    BY <1>1, <2>1, <2>2 DEF DispatchInv, DeliveredIsNotQueued
<1>7. ASSUME NEW c \in held, Requeue(c)
      PROVE  DispatchInv'
  <2>1. /\ claim' = claim /\ copies' = copies /\ held' = held \ {c}
        /\ claim[c.task] = c.claim /\ status[c.task] = "dispatched"
        /\ status'[c.task] = "queued" /\ \A u \in Tasks \ {c.task} : status'[u] = status[u]
    BY <1>1, <1>7 DEF Requeue, TypeOK
  <2>2. \A h \in held' : h.task = c.task => h.claim # c.claim
    BY <1>1, <2>1 DEF Claims
  <2> QED
    BY <1>1, <2>1, <2>2 DEF DispatchInv, DeliveredIsNotQueued, Unclaimed
<1> QED
  BY <1>2, <1>4, <1>5, <1>6, <1>7, QuietSteps

\* The CAS on dispatched_at in RequeueTaskAfterClaimFailure is what makes a
\* rollback safe: a row whose latest dispatch has reached a daemon is never put
\* back in the queue, whatever other handlers still hold.
THEOREM RollbackIsFenced == Spec => []DeliveredIsNotQueued
<1>1. Init => DispatchInv
  BY DEF Init, DispatchInv, DeliveredIsNotQueued
<1>2. DispatchInv => DeliveredIsNotQueued
  BY DEF DispatchInv
<1> QED
  BY <1>1, <1>2, DispatchStep, TypeCorrect, PTL DEF Spec

-----------------------------------------------------------------------------
(* Retries.                                                                *)

AttemptsBounded(n) ==
    /\ status[n] # "free" => attempt[n] >= 1
    /\ attempt[n] <= 1 \/ attempt[n] <= budget[n]
    /\ budget[n] <= ColumnBudget \/ budget[n] <= NetworkAttempts

\* A parent is failed and no sweep's result any more; what a sweep failed and
\* HandleFailedTasks has not reached has no child yet.
RetryInv ==
    /\ \A n \in Tasks : status[n] = "free" => retryOf[n] = None /\ attempt[n] = 0 /\ budget[n] = 0
    /\ \A n \in Tasks : retryOf[n] # None => /\ status[retryOf[n]] = "failed"
                                             /\ retryOf[n] \notin orphans
    /\ \A t \in orphans : status[t] = "failed"
    /\ \A n, m \in Tasks : retryOf[n] = retryOf[m] /\ retryOf[n] # None => n = m
    /\ \A n \in Tasks : AttemptsBounded(n)

\* A step that makes no retry: it may insert a first attempt and fail rows.
RetryQuiet ==
    /\ \A n \in Tasks : \/ /\ retryOf'[n] = retryOf[n] /\ attempt'[n] = attempt[n]
                           /\ budget'[n] = budget[n]
                           /\ status[n] = "free" => status'[n] = "free"
                        \/ /\ status[n] = "free" /\ status'[n] # "free" /\ retryOf'[n] = None
                           /\ attempt'[n] = 1 /\ budget'[n] = ColumnBudget
    /\ \A t \in orphans' : \/ t \in orphans
                           \/ status[t] \in {"queued"} \cup Active /\ status'[t] = "failed"

\* A step that makes n the retry of t, whose failure it settles.
RetryMade(n, t) ==
    /\ status[n] = "free" /\ status'[n] # "free" /\ n # t
    /\ status[t] \in Active \/ t \in orphans
    /\ status'[t] = "failed"
    /\ orphans' = orphans \ {t}
    /\ retryOf'[n] = t /\ attempt'[n] = attempt[t] + 1
    /\ \E why : RetryEligible(t, why) /\ budget'[n] = Ceiling(why, budget[t])
    /\ \A u \in Tasks \ {n} : /\ retryOf'[u] = retryOf[u] /\ attempt'[u] = attempt[u]
                              /\ budget'[u] = budget[u]
                              /\ status[u] = "free" => status'[u] = "free"

\* Steps that leave the planned columns and orphans alone and insert nothing.
LEMMA RetryIdle ==
  ASSUME UNCHANGED planned, orphans' \subseteq orphans,
         \A t \in Tasks : status[t] = "free" => status'[t] = "free"
  PROVE  RetryQuiet
  BY DEF RetryQuiet, planned

LEMMA RetryUsers ==
  ASSUME TypeOK, Users
  PROVE  RetryQuiet
<1>1. ASSUME NEW n \in Tasks, NEW l \in Lanes, NEW r \in Runtimes, NEW p \in Tasks,
             Enqueue(n, l, r) \/ EnqueueFallback(n, l, r, p)
      PROVE  RetryQuiet
  <2>1. /\ status[n] = "free" /\ orphans' = orphans
        /\ status' = [status EXCEPT ![n] = "queued"] \/ status' = [status EXCEPT ![n] = "deferred"]
        /\ \E q \in {None, p} : Insert(n, l, r, 1, ColumnBudget, None, q)
    BY <1>1 DEF Enqueue, EnqueueFallback, Free
  <2>2. /\ retryOf'[n] = None /\ attempt'[n] = 1 /\ budget'[n] = ColumnBudget
        /\ \A u \in Tasks \ {n} : /\ retryOf'[u] = retryOf[u] /\ attempt'[u] = attempt[u]
                                  /\ budget'[u] = budget[u]
    BY <2>1 DEF Insert, TypeOK
  <2> QED
    BY <2>1, <2>2 DEF RetryQuiet, TypeOK
<1>2. CASE \E n \in Tasks, l \in Lanes, r \in Runtimes :
              Enqueue(n, l, r) \/ \E p \in Tasks : EnqueueFallback(n, l, r, p)
  BY <1>1, <1>2
<1>3. CASE (\E t \in Tasks : Cancel(t)) \/ \E l \in Lanes : CancelLane(l)
  BY <1>3, RetryIdle DEF Cancel, CancelLane, TypeOK, Active
<1> QED
  BY <1>2, <1>3 DEF Users

LEMMA RetryFailRows ==
  ASSUME TypeOK, NEW S, \A u \in S : status[u] \in {"queued"} \cup Active,
         S \subseteq Tasks, NEW why, FailRows(S, why), UNCHANGED planned
  PROVE  RetryQuiet
  BY DEF FailRows, RetryQuiet, TypeOK, planned, Active

LEMMA RetryNext ==
  ASSUME TypeOK, RetryInv, [Next]_vars
  PROVE  RetryQuiet \/ \E n, t \in Tasks : RetryMade(n, t)
<1>1. CASE Sweep
  <2>1. PICK t \in Tasks : SweepStale(t) \/ ExpireQueued(t)
    BY <1>1 DEF Sweep
  <2>2. /\ FailRows({t}, "infra") \/ FailRows({t}, "fatal")
        /\ UNCHANGED planned /\ status[t] \in {"queued"} \cup Active
    BY <2>1 DEF SweepStale, ExpireQueued, Active
  <2> QED
    BY <2>2, RetryFailRows
<1>2. CASE Clock \/ UNCHANGED vars
  BY <1>2, RetryIdle DEF Clock, FireTimePasses, Lapse, vars, columns
<1>3. CASE Faults
  <2>1. ASSUME NEW r \in Runtimes, FailRows(Of(r, Active), "infra"), UNCHANGED planned
        PROVE  RetryQuiet
    <3>1. /\ \A u \in Of(r, Active) : status[u] \in {"queued"} \cup Active
          /\ Of(r, Active) \subseteq Tasks
      BY DEF Of
    <3> QED
      BY <2>1, <3>1, RetryFailRows
  <2>2. ASSUME NEW r \in Runtimes, Restart(r) \/ SweepOffline(r)
        PROVE  RetryQuiet
    <3>1. CASE UNCHANGED <<status, orphans>>
      BY <2>2, <3>1, RetryIdle DEF Restart, SweepOffline
    <3> QED
      BY <2>1, <2>2, <3>1 DEF Restart, SweepOffline
  <2> QED
    BY <1>3, <2>2, RetryIdle DEF Faults, Cut, Mend, Crash, ServerCrash, GiveUp, columns
<1>4. ASSUME NEW r \in Runtimes, Poll(r)
      PROVE  RetryQuiet
  <2>1. UNCHANGED <<planned, orphans>>
    BY <1>4 DEF Poll, PollPromote, PollNothingToReclaim, PollDone, PollReclaim, PollClaim, columns
  <2>2. \A t \in Tasks : status[t] = "free" => status'[t] = "free"
    BY <1>4 DEF Poll, PollPromote, PollNothingToReclaim, PollDone, PollReclaim, PollClaim, columns,
                DueRows, Of, Claimable, TypeOK
  <2> QED
    BY <2>1, <2>2, RetryIdle
<1>5. ASSUME NEW c \in held, Answer(c)
      PROVE  RetryQuiet
  BY <1>5, RetryIdle DEF Answer, Deliver, LoseAnswer, Requeue, columns, TypeOK
<1>6. ASSUME NEW c \in copies, Work(c)
      PROVE  RetryQuiet
  <2>1. UNCHANGED <<planned, orphans>>
    BY <1>6 DEF Work, Progress, Start, StartUnanswered, PrepareFails, AgentFails, AgentSucceeds,
                Wait, Extend, Interrupt, columns
  <2>2. ASSUME NEW S \in SUBSET Tasks, StartRow(c.task, S)
        PROVE  \A t \in Tasks : status[t] = "free" => status'[t] = "free"
    BY <2>2 DEF StartRow, Fallbacks
  <2>3. ASSUME NEW t \in Tasks, status[t] = "free"
        PROVE  status'[t] = "free"
    <3>1. CASE \E S \in SUBSET Tasks : StartRow(c.task, S)
      BY <2>2, <2>3, <3>1
    <3>2. CASE status' = status
      BY <2>3, <3>2
    <3>3. CASE Wait(c)
      BY <2>3, <3>3 DEF Wait, TypeOK
    <3> QED
      BY <1>6, <3>1, <3>2, <3>3
         DEF Work, Progress, Start, StartUnanswered, PrepareFails, AgentFails, AgentSucceeds,
             Extend, Interrupt, columns
  <2> QED
    BY <2>1, <2>3, RetryIdle
<1>7. ASSUME NEW c \in copies, Report(c)
      PROVE  RetryQuiet \/ \E n, t \in Tasks : RetryMade(n, t)
  <2>1. c.task \in Tasks
    BY DEF TypeOK, Copies
  <2>2. CASE ReportComplete(c) \/ ReportTooLate(c) \/ ReportFail(c)
    BY <2>1, <2>2, RetryIdle DEF ReportComplete, ReportTooLate, ReportFail, columns, TypeOK, Active
  <2>3. ASSUME NEW n \in Tasks, ReportFailAndRetry(c, n)
        PROVE  RetryMade(n, c.task)
    <3>1. /\ status[c.task] \in Active /\ RetryEligible(c.task, c.why)
          /\ InsertChild(n, c.task, c.why) /\ orphans' = orphans
          /\ status' = [status EXCEPT ![c.task] = "failed", ![n] = ChildStatus(c.task, c.why)]
      BY <2>3 DEF ReportFailAndRetry
    <3>2. status[c.task] # "free" /\ c.task \notin orphans
      BY <3>1 DEF RetryInv, Active
    <3>3. /\ status[n] = "free" /\ n # c.task
          /\ attempt'[n] = attempt[c.task] + 1
          /\ budget'[n] = Ceiling(c.why, budget[c.task]) /\ retryOf'[n] = c.task
          /\ \A u \in Tasks \ {n} : /\ attempt'[u] = attempt[u] /\ budget'[u] = budget[u]
                                    /\ retryOf'[u] = retryOf[u]
      BY <2>1, <3>1, <3>2, InsertedChild
    <3>4. /\ status'[c.task] = "failed" /\ status'[n] # "free"
          /\ \A u \in Tasks \ {n} : status[u] = "free" => status'[u] = "free"
      BY <2>1, <3>1, <3>2, <3>3 DEF ChildStatus, TypeOK
    <3> QED
      BY <3>1, <3>2, <3>3, <3>4 DEF RetryMade
  <2> QED
    BY <1>7, <2>1, <2>2, <2>3 DEF Report
<1>8. ASSUME NEW t \in Tasks, HandleFailed(t)
      PROVE  RetryQuiet \/ \E n, u \in Tasks : RetryMade(n, u)
  <2>1. CASE LeaveFailed(t)
    BY <2>1, RetryIdle DEF LeaveFailed, columns
  <2>2. ASSUME NEW n \in Tasks, Retry(t, n)
        PROVE  RetryMade(n, t)
    <3>1. /\ t \in orphans /\ status[t] = "failed" /\ RetryEligible(t, reason[t])
          /\ InsertChild(n, t, reason[t]) /\ orphans' = orphans \ {t}
          /\ status' = [status EXCEPT ![n] = ChildStatus(t, reason[t])]
      BY <2>2 DEF Retry
    <3>2. /\ status[n] = "free" /\ n # t
          /\ attempt'[n] = attempt[t] + 1
          /\ budget'[n] = Ceiling(reason[t], budget[t]) /\ retryOf'[n] = t
          /\ \A u \in Tasks \ {n} : /\ attempt'[u] = attempt[u] /\ budget'[u] = budget[u]
                                    /\ retryOf'[u] = retryOf[u]
      BY <3>1, InsertedChild
    <3>3. /\ status'[n] # "free" /\ \A u \in Tasks \ {n} : status'[u] = status[u]
      BY <3>1 DEF ChildStatus, TypeOK
    <3> QED
      BY <3>1, <3>2, <3>3 DEF RetryMade
  <2> QED
    BY <1>8, <2>1, <2>2 DEF HandleFailed
<1> QED
  BY <1>1, <1>2, <1>3, <1>4, <1>5, <1>6, <1>7, <1>8, RetryUsers DEF Next

LEMMA RetryStep == TypeOK /\ RetryInv /\ [Next]_vars => RetryInv'
<1> SUFFICES ASSUME TypeOK, RetryInv, [Next]_vars
             PROVE  RetryInv'
  OBVIOUS
<1>1. \A t \in Tasks : status[t] = "failed" => status'[t] = "failed"
  BY RowNext DEF RowStep, Terminal
<1>2. /\ \A t \in Tasks : attempt[t] \in Nat /\ budget[t] \in Nat
      /\ \A t \in Tasks : retryOf[t] \in Tasks \cup {None}
      /\ ColumnBudget \in Nat /\ NetworkAttempts \in Nat /\ None \notin Tasks
  BY BudgetAssumption, RowsAssumption DEF TypeOK
<1>3. \A t \in Tasks : status[t] # "free" => status'[t] # "free"
  BY RowNext DEF RowStep
<1>4. \A t \in orphans : t \in Tasks
  BY DEF TypeOK
<1>5. CASE RetryQuiet
  <2>1. \A n \in Tasks : retryOf'[n] # None => retryOf'[n] = retryOf[n]
    BY <1>5 DEF RetryQuiet
  <2>2. \A t \in orphans' : status'[t] = "failed"
    BY <1>1, <1>4, <1>5 DEF RetryQuiet, RetryInv
  <2>3. \A n \in Tasks : retryOf'[n] # None => /\ status'[retryOf'[n]] = "failed"
                                               /\ retryOf'[n] \notin orphans'
    BY <1>1, <1>2, <1>5, <2>1 DEF RetryQuiet, RetryInv, Active
  <2>4. \A n, m \in Tasks : retryOf'[n] = retryOf'[m] /\ retryOf'[n] # None => n = m
    BY <2>1 DEF RetryInv
  <2>5. \A n \in Tasks : AttemptsBounded(n)'
    BY <1>2, <1>3, <1>5 DEF RetryQuiet, RetryInv, AttemptsBounded
  <2>6. \A n \in Tasks :
          status'[n] = "free" => retryOf'[n] = None /\ attempt'[n] = 0 /\ budget'[n] = 0
    BY <1>3, <1>5 DEF RetryQuiet, RetryInv
  <2> QED
    BY <2>2, <2>3, <2>4, <2>5, <2>6 DEF RetryInv
<1>6. ASSUME NEW n \in Tasks, NEW t \in Tasks, RetryMade(n, t)
      PROVE  RetryInv'
  <2>1. \A m \in Tasks : retryOf[m] # t
    BY <1>2, <1>6 DEF RetryMade, RetryInv, Active
  <2>2. \A u \in orphans' : status'[u] = "failed"
    BY <1>1, <1>4, <1>6 DEF RetryMade, RetryInv
  <2>3. \A m \in Tasks : retryOf'[m] # None => /\ status'[retryOf'[m]] = "failed"
                                               /\ retryOf'[m] \notin orphans'
    BY <1>1, <1>2, <1>6 DEF RetryMade, RetryInv
  <2>4. \A k, m \in Tasks : retryOf'[k] = retryOf'[m] /\ retryOf'[k] # None => k = m
    BY <1>6, <2>1 DEF RetryMade, RetryInv
  <2>5. AttemptsBounded(n)'
    <3>1. PICK why : RetryEligible(t, why) /\ budget'[n] = Ceiling(why, budget[t])
      BY <1>6 DEF RetryMade
    <3>2. attempt'[n] = attempt[t] + 1 /\ attempt[t] < budget'[n] /\ budget'[n] \in Nat
      BY <1>2, <1>6, <3>1, CeilingBounds DEF RetryMade, RetryEligible
    <3>3. budget'[n] <= ColumnBudget \/ budget'[n] <= NetworkAttempts
      BY <1>2, <3>1, CeilingBounds DEF RetryInv, AttemptsBounded
    <3> QED
      BY <1>2, <3>2, <3>3 DEF AttemptsBounded
  <2>6. \A m \in Tasks \ {n} : AttemptsBounded(m)'
    BY <1>2, <1>6 DEF RetryMade, RetryInv, AttemptsBounded
  <2>7. \A m \in Tasks :
          status'[m] = "free" => retryOf'[m] = None /\ attempt'[m] = 0 /\ budget'[m] = 0
    BY <1>3, <1>6 DEF RetryMade, RetryInv
  <2> QED
    BY <2>2, <2>3, <2>4, <2>5, <2>6, <2>7 DEF RetryInv
<1> QED
  BY <1>5, <1>6, RetryNext

\* Reports, orphan recovery and sweeps may all see one failure: it gets one
\* child at most, and chains end within the column's or the network's ceiling.
THEOREM FailuresAreRetriedOnce == Spec => []RetriedOnce
<1>1. Init => RetryInv
  BY BudgetAssumption DEF Init, RetryInv, AttemptsBounded
<1>2. RetryInv => RetriedOnce
  BY DEF RetryInv, RetriedOnce, AttemptsBounded
<1> QED
  BY <1>1, <1>2, RetryStep, TypeCorrect, PTL DEF Spec

-----------------------------------------------------------------------------
(* The queue implements the ledger.                                        *)

\* The phase of a row, from its status.
LEMMA PhaseFacts ==
  ASSUME NEW t \in Tasks
  PROVE  /\ status[t] = "free" => Phase(t) = "none"
         /\ status[t] \in {"queued", "deferred"} => Phase(t) = "open"
         /\ status[t] \in Active => Phase(t) = "held"
         /\ status[t] \in Terminal => Phase(t) = status[t]
         /\ status'[t] \in {"queued", "deferred"} => Phase(t)' = "open"
         /\ status'[t] \in Active => Phase(t)' = "held"
         /\ status'[t] \in Terminal => Phase(t)' = status'[t]
         /\ status'[t] = status[t] => Phase(t)' = Phase(t)
  BY DEF Phase, Active, Terminal

\* A step of the queue, seen in the ledger.
LedgerStep == [Ledger!Next]_(Ledger!vars)

\* A step that keeps every row in its phase is none of the ledger.
LEMMA LedgerIdle ==
  ASSUME UNCHANGED planned, \A t \in Tasks : Phase(t)' = Phase(t)
  PROVE  LedgerStep
  BY DEF LedgerStep, Ledger!vars, planned

\* A statement that settles the rows S with one outcome closes them.
LEMMA LedgerCloses ==
  ASSUME UNCHANGED planned, NEW S \in SUBSET Tasks, NEW v \in Terminal,
         \A t \in S : status[t] \in {"queued", "deferred"} \cup Active,
         v = "completed" => \A t \in S : status[t] \in Active,
         \A t \in S : status'[t] = v,
         \A t \in Tasks \ S : Phase(t)' = Phase(t)
  PROVE  LedgerStep
<1>1. /\ \A t \in S : Phase(t) \in {"open", "held"} /\ Phase(t)' = v
      /\ v = "completed" => \A t \in S : Phase(t) = "held"
  BY PhaseFacts DEF Active, Terminal
<1>2. CASE S = {}
  BY <1>2, LedgerIdle
<1>3. ASSUME NEW t \in S
      PROVE  LedgerStep
  <2>1. Ledger!Close(S, v)
    BY <1>1 DEF Ledger!Close, planned
  <2>2. Phase(t)' # Phase(t)
    BY <1>1 DEF Terminal
  <2>3. S \in SUBSET Ledger!Unsettled /\ v \in Ledger!Outcomes
    BY <1>1 DEF Ledger!Unsettled, Ledger!Outcomes, Terminal
  <2> QED
    BY <2>1, <2>2, <2>3 DEF LedgerStep, Ledger!Next
<1> QED
  BY <1>2, <1>3

\* The same for a single row.
LEMMA LedgerClosesRow ==
  ASSUME UNCHANGED planned, NEW t \in Tasks, NEW v \in Terminal,
         status[t] \in {"queued", "deferred"} \cup Active,
         v = "completed" => status[t] \in Active,
         status'[t] = v, \A u \in Tasks \ {t} : status'[u] = status[u]
  PROVE  LedgerStep
<1>1. \A u \in Tasks \ {t} : Phase(u)' = Phase(u)
  BY PhaseFacts
<1>2. PICK S \in SUBSET Tasks : S = {t}
  OBVIOUS
<1>3. \A u \in S : u = t
  BY <1>2
<1>4. \A u \in Tasks \ S : Phase(u)' = Phase(u)
  BY <1>1, <1>2
<1> QED
  BY <1>3, <1>4, LedgerCloses

\* One row changes its phase and nothing is written.
LEMMA LedgerMoves ==
  ASSUME UNCHANGED planned, NEW t \in Tasks, \A u \in Tasks \ {t} : status'[u] = status[u],
         \/ /\ status[t] = "queued" /\ status'[t] \in Active
            /\ \A u \in Tasks : lane[u] = lane[t] => status[u] \notin Active
         \/ status[t] \in Active /\ status'[t] = "queued",
         TypeOK
  PROVE  LedgerStep
<1>1. \A u \in Tasks \ {t} : Phase(u)' = Phase(u)
  BY PhaseFacts
<1>2. CASE status[t] \in Active
  <2>1. Phase(t) = "held" /\ Phase(t)' = "open"
    BY <1>2, PhaseFacts DEF Active
  <2>2. Ledger!GiveBack(t)
    BY <1>1, <2>1 DEF Ledger!GiveBack, planned
  <2> QED
    BY <2>1, <2>2 DEF LedgerStep, Ledger!Next
<1>3. CASE status[t] = "queued"
  <2>1. Phase(t) = "open" /\ Phase(t)' = "held"
    BY <1>3, PhaseFacts DEF Active
  <2>2. \A u \in Tasks : lane[u] = lane[t] => Phase(u) # "held"
    BY <1>3 DEF Phase, Active, TypeOK, Statuses, Terminal
  <2>3. Ledger!HandOut(t)
    BY <1>1, <2>1, <2>2 DEF Ledger!HandOut, planned
  <2> QED
    BY <2>1, <2>3 DEF LedgerStep, Ledger!Next
<1> QED
  BY <1>2, <1>3

\* An insert beside a failed or failing parent is the ledger's Retry.
LEMMA LedgerRetries ==
  ASSUME TypeOK, RetryInv, NEW t \in Tasks, NEW n \in Tasks, NEW why,
         status[t] \in Active \/ t \in orphans,
         RetryEligible(t, why), InsertChild(n, t, why),
         status'[t] = "failed", status'[n] = ChildStatus(t, why),
         \A u \in Tasks \ {n, t} : status'[u] = status[u]
  PROVE  LedgerStep
<1>1. status[t] # "free" /\ status[t] \in {"failed"} \cup Active
  BY DEF RetryInv, Active
<1>2. status[n] = "free" /\ n # t
  BY <1>1, InsertedChild
<1>3. /\ lane' = [lane EXCEPT ![n] = lane[t]]
      /\ attempt' = [attempt EXCEPT ![n] = attempt[t] + 1]
      /\ retryOf' = [retryOf EXCEPT ![n] = t]
  BY DEF InsertChild, Insert
<1>4. \A m \in Tasks : retryOf[m] # t
  BY RowsAssumption DEF RetryInv, Active
<1>5. attempt[t] < Ceiling(why, budget[t]) /\ attempt[t] \in Nat /\ budget[t] \in Nat
  BY DEF RetryEligible, TypeOK
<1>6. attempt[t] < IF NetworkAttempts > ColumnBudget THEN NetworkAttempts ELSE ColumnBudget
  BY <1>5, BudgetAssumption, CeilingBounds DEF RetryInv, AttemptsBounded
<1>7. /\ Phase(n) = "none" /\ Phase(n)' = "open"
      /\ Phase(t) \in {"failed", "held"} /\ Phase(t)' = "failed"
      /\ \A u \in Tasks \ {n, t} : Phase(u)' = Phase(u)
  BY <1>1, <1>2, PhaseFacts DEF ChildStatus, Terminal
<1>8. Ledger!Write(n, lane[t], attempt[t] + 1, t)
  BY <1>3, <1>7 DEF Ledger!Write
<1>9. Ledger!Retry(t, n)
  BY <1>2, <1>4, <1>6, <1>7, <1>8 DEF Ledger!Retry
<1> QED
  BY <1>7, <1>9 DEF LedgerStep, Ledger!Next

LEMMA LedgerUsers ==
  ASSUME TypeOK, Users
  PROVE  LedgerStep
<1>1. ASSUME NEW n \in Tasks, NEW l \in Lanes, NEW r \in Runtimes, NEW p \in Tasks,
             Enqueue(n, l, r) \/ EnqueueFallback(n, l, r, p)
      PROVE  LedgerStep
  <2>1. /\ status[n] = "free"
        /\ status' = [status EXCEPT ![n] = "queued"] \/ status' = [status EXCEPT ![n] = "deferred"]
        /\ \E q \in {None, p} : Insert(n, l, r, 1, ColumnBudget, None, q)
    BY <1>1 DEF Enqueue, EnqueueFallback, Free
  <2>2. /\ lane' = [lane EXCEPT ![n] = l] /\ attempt' = [attempt EXCEPT ![n] = 1]
        /\ retryOf' = [retryOf EXCEPT ![n] = None]
    BY <2>1 DEF Insert
  <2>3. /\ status'[n] \in {"queued", "deferred"}
        /\ \A u \in Tasks \ {n} : status'[u] = status[u]
    BY <2>1 DEF TypeOK
  <2>4. /\ Phase(n) = "none" /\ Phase(n)' = "open"
        /\ \A u \in Tasks \ {n} : Phase(u)' = Phase(u)
    BY <2>1, <2>3, PhaseFacts
  <2>5. Ledger!Request(n, l)
    BY <2>2, <2>4 DEF Ledger!Request, Ledger!Write
  <2> QED
    BY <2>4, <2>5 DEF LedgerStep, Ledger!Next
<1>2. CASE \E n \in Tasks, l \in Lanes, r \in Runtimes :
              Enqueue(n, l, r) \/ \E p \in Tasks : EnqueueFallback(n, l, r, p)
  BY <1>1, <1>2
<1>3. ASSUME NEW t \in Tasks, Cancel(t)
      PROVE  LedgerStep
  <2>1. /\ UNCHANGED planned /\ status[t] \in {"queued", "deferred"} \cup Active
        /\ status'[t] = "cancelled" /\ \A u \in Tasks \ {t} : status'[u] = status[u]
    BY <1>3 DEF Cancel, TypeOK
  <2> QED
    BY <2>1, LedgerClosesRow DEF Terminal
<1>4. ASSUME NEW l \in Lanes, CancelLane(l)
      PROVE  LedgerStep
  <2> DEFINE S == {t \in Tasks : lane[t] = l /\ status[t] \in {"queued", "deferred"} \cup Active}
  <2>1. /\ UNCHANGED planned /\ \A t \in S : status'[t] = "cancelled"
        /\ \A t \in Tasks \ S : status'[t] = status[t]
    BY <1>4 DEF CancelLane
  <2>2. \A u \in Tasks \ S : Phase(u)' = Phase(u)
    BY <2>1, PhaseFacts
  <2> QED
    BY <2>1, <2>2, LedgerCloses DEF Terminal
<1> QED
  BY <1>2, <1>3, <1>4 DEF Users

LEMMA LedgerPoll ==
  ASSUME TypeOK, NEW r \in Runtimes, Poll(r)
  PROVE  LedgerStep
<1>1. CASE PollPromote(r)
  <2>1. UNCHANGED planned /\ \A t \in Tasks : \/ status'[t] = status[t]
                                              \/ status[t] = "deferred" /\ status'[t] = "queued"
    BY <1>1 DEF PollPromote, DueRows, Of
  <2> QED
    BY <2>1, PhaseFacts, LedgerIdle
<1>2. CASE UNCHANGED <<planned, status>>
  BY <1>2, PhaseFacts, LedgerIdle
<1>3. ASSUME NEW c \in Tasks, NEW t \in Tasks, PollClaim(r, c, t)
      PROVE  LedgerStep
  <2>1. /\ UNCHANGED planned /\ status[t] = "queued" /\ status'[t] \in Active
        /\ \A u \in Tasks \ {t} : status'[u] = status[u]
        /\ \A u \in Tasks : lane[u] = lane[t] => status[u] \notin Active
    BY <1>3 DEF PollClaim, Claimable, TypeOK, Active
  <2> QED
    BY <2>1, LedgerMoves
<1> QED
  BY <1>1, <1>2, <1>3 DEF Poll, PollNothingToReclaim, PollDone, PollReclaim, columns

LEMMA LedgerAnswer ==
  ASSUME TypeOK, NEW c \in held, Answer(c)
  PROVE  LedgerStep
<1>1. c.task \in Tasks
  BY DEF TypeOK, Claims
<1>2. CASE Requeue(c)
  <2>1. /\ UNCHANGED planned /\ status[c.task] \in Active /\ status'[c.task] = "queued"
        /\ \A u \in Tasks \ {c.task} : status'[u] = status[u]
    BY <1>1, <1>2 DEF Requeue, TypeOK, Active
  <2> QED
    BY <1>1, <2>1, LedgerMoves
<1> QED
  BY <1>2, PhaseFacts, LedgerIdle DEF Answer, Deliver, LoseAnswer, columns

LEMMA LedgerWork ==
  ASSUME TypeOK, NEW c \in copies, Work(c)
  PROVE  LedgerStep
<1>1. c.task \in Tasks /\ UNCHANGED planned
  BY DEF TypeOK, Copies, Work, Progress, Start, StartUnanswered, PrepareFails, AgentFails,
         AgentSucceeds, Wait, Extend, Interrupt, columns
<1>2. ASSUME NEW S \in SUBSET Tasks, StartRow(c.task, S)
      PROVE  LedgerStep
  <2> DEFINE D == S \ {c.task}
  <2>1. /\ status[c.task] \in Active /\ status'[c.task] \in Active
        /\ \A u \in D : status'[u] = "cancelled"
        /\ \A u \in Tasks \ (D \cup {c.task}) : status'[u] = status[u]
    BY <1>1, <1>2 DEF StartRow, Active
  <2>2. \A u \in D : status[u] \in {"queued", "deferred"} \cup Active
    BY <1>2 DEF StartRow, Fallbacks, Active
  <2>3. \A u \in Tasks \ D : Phase(u)' = Phase(u)
    BY <1>1, <2>1, PhaseFacts
  <2> QED
    BY <1>1, <2>1, <2>2, <2>3, LedgerCloses DEF Terminal
<1>3. CASE Wait(c)
  <2>1. /\ status[c.task] \in Active /\ status'[c.task] \in Active
        /\ \A u \in Tasks \ {c.task} : status'[u] = status[u]
    BY <1>1, <1>3 DEF Wait, TypeOK, Active
  <2> QED
    BY <1>1, <2>1, PhaseFacts, LedgerIdle
<1>4. CASE status' = status
  BY <1>1, <1>4, PhaseFacts, LedgerIdle
<1> QED
  BY <1>2, <1>3, <1>4
     DEF Work, Progress, Start, StartUnanswered, PrepareFails, AgentFails, AgentSucceeds,
         Extend, Interrupt, columns

LEMMA LedgerReport ==
  ASSUME TypeOK, RetryInv, NEW c \in copies, Report(c)
  PROVE  LedgerStep
<1>1. c.task \in Tasks
  BY DEF TypeOK, Copies
<1>2. ASSUME UNCHANGED planned, NEW v \in {"completed", "failed"}, status[c.task] \in Active,
             status' = [status EXCEPT ![c.task] = v]
      PROVE  LedgerStep
  <2>1. status'[c.task] = v /\ \A u \in Tasks \ {c.task} : status'[u] = status[u]
    BY <1>1, <1>2 DEF TypeOK
  <2> QED
    BY <1>1, <1>2, <2>1, LedgerClosesRow DEF Terminal
<1>3. CASE ReportComplete(c)
  <2>1. CASE status[c.task] = "running"
    BY <1>2, <1>3, <2>1 DEF ReportComplete, Active
  <2>2. CASE status[c.task] # "running"
    BY <1>3, <2>2, PhaseFacts, LedgerIdle DEF ReportComplete
  <2> QED
    BY <2>1, <2>2
<1>4. CASE ReportTooLate(c)
  BY <1>4, PhaseFacts, LedgerIdle DEF ReportTooLate, columns
<1>5. CASE ReportFail(c)
  BY <1>2, <1>5 DEF ReportFail
<1>6. ASSUME NEW n \in Tasks, ReportFailAndRetry(c, n)
      PROVE  LedgerStep
  <2>1. /\ status[c.task] \in Active /\ RetryEligible(c.task, c.why)
        /\ InsertChild(n, c.task, c.why)
        /\ status' = [status EXCEPT ![c.task] = "failed", ![n] = ChildStatus(c.task, c.why)]
    BY <1>6 DEF ReportFailAndRetry
  <2>2. n # c.task
    BY <1>1, <2>1, InsertedChild DEF Active
  <2>3. /\ status'[c.task] = "failed" /\ status'[n] = ChildStatus(c.task, c.why)
        /\ \A u \in Tasks \ {n, c.task} : status'[u] = status[u]
    BY <1>1, <2>1, <2>2 DEF TypeOK
  <2> QED
    BY <1>1, <2>1, <2>3, LedgerRetries
<1> QED
  BY <1>3, <1>4, <1>5, <1>6 DEF Report

\* A bulk failure closes what it fails.
LEMMA LedgerFailRows ==
  ASSUME UNCHANGED planned, NEW S \in SUBSET Tasks, NEW why, FailRows(S, why),
         \A t \in S : status[t] \in {"queued", "deferred"} \cup Active
  PROVE  LedgerStep
<1>1. /\ \A t \in S : status'[t] = "failed"
      /\ \A t \in Tasks \ S : status'[t] = status[t]
  BY DEF FailRows
<1>2. \A t \in Tasks \ S : Phase(t)' = Phase(t)
  BY <1>1, PhaseFacts
<1> QED
  BY <1>1, <1>2, LedgerCloses DEF Terminal

LEMMA LedgerSweep ==
  ASSUME Sweep
  PROVE  LedgerStep
<1>1. PICK t \in Tasks : SweepStale(t) \/ ExpireQueued(t)
  BY DEF Sweep
<1>2. /\ FailRows({t}, "infra") \/ FailRows({t}, "fatal")
      /\ status[t] \in {"queued", "deferred"} \cup Active
  BY <1>1 DEF SweepStale, ExpireQueued, Active
<1>3. UNCHANGED planned
  BY <1>1 DEF SweepStale, ExpireQueued
<1> QED
  BY <1>2, <1>3, LedgerFailRows

LEMMA LedgerFaults ==
  ASSUME Faults
  PROVE  LedgerStep
<1>1. ASSUME NEW r \in Runtimes, FailRows(Of(r, Active), "infra"), UNCHANGED planned
      PROVE  LedgerStep
  <2>1. /\ Of(r, Active) \in SUBSET Tasks
        /\ \A t \in Of(r, Active) : status[t] \in {"queued", "deferred"} \cup Active
    BY DEF Of
  <2> QED
    BY <1>1, <2>1, LedgerFailRows
<1>2. CASE UNCHANGED <<planned, status>>
  BY <1>2, PhaseFacts, LedgerIdle
<1> QED
  BY <1>1, <1>2 DEF Faults, Cut, Mend, Crash, Restart, SweepOffline, ServerCrash, GiveUp, columns

LEMMA LedgerHandleFailed ==
  ASSUME TypeOK, RetryInv, NEW t \in Tasks, HandleFailed(t)
  PROVE  LedgerStep
<1>1. CASE LeaveFailed(t)
  BY <1>1, PhaseFacts, LedgerIdle DEF LeaveFailed, columns
<1>2. ASSUME NEW n \in Tasks, Retry(t, n)
      PROVE  LedgerStep
  <2>1. /\ t \in orphans /\ status[t] = "failed" /\ RetryEligible(t, reason[t])
        /\ InsertChild(n, t, reason[t])
        /\ status' = [status EXCEPT ![n] = ChildStatus(t, reason[t])]
    BY <1>2 DEF Retry
  <2>2. n # t
    BY <2>1, InsertedChild
  <2>3. /\ status'[n] = ChildStatus(t, reason[t]) /\ status'[t] = "failed"
        /\ \A u \in Tasks \ {n, t} : status'[u] = status[u]
    BY <2>1, <2>2 DEF TypeOK
  <2> QED
    BY <2>1, <2>3, LedgerRetries
<1> QED
  BY <1>1, <1>2 DEF HandleFailed

LEMMA LedgerNext == TypeOK /\ RetryInv /\ [Next]_vars => [Ledger!Next]_(Ledger!vars)
<1> SUFFICES ASSUME TypeOK, RetryInv, [Next]_vars
             PROVE  LedgerStep
  BY DEF LedgerStep
<1>1. CASE Clock \/ UNCHANGED vars
  BY <1>1, PhaseFacts, LedgerIdle DEF Clock, FireTimePasses, Lapse, vars, columns
<1>2. ASSUME NEW c \in copies, Work(c) \/ Report(c)
      PROVE  LedgerStep
  BY <1>2, LedgerWork, LedgerReport
<1> QED
  BY <1>1, <1>2, LedgerUsers, LedgerSweep, LedgerFaults, LedgerPoll, LedgerAnswer,
     LedgerHandleFailed DEF Next

\* The queue implements the ledger: whatever polls, reports, sweeps and crashes
\* interleave, a lane has one row handed out, an outcome stays, and a failed row
\* gets one retry in its lane, within the widest attempt ceiling.
THEOREM QueueImplementsLedger == Spec => ImplementsLedger
<1>1. Init => Ledger!Init
  BY DEF Init, Ledger!Init, Phase
<1>2. Init => RetryInv
  BY BudgetAssumption DEF Init, RetryInv, AttemptsBounded
<1> QED
  BY <1>1, <1>2, LedgerNext, RetryStep, TypeCorrect, PTL DEF Spec, Ledger!Spec, ImplementsLedger
=============================================================================
