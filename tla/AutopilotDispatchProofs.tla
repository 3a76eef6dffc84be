---------------------- MODULE AutopilotDispatchProofs ----------------------
(***************************************************************************)
(* Proofs about AutopilotDispatch, for every value of its constants.       *)
(***************************************************************************)
EXTENDS AutopilotDispatch, TLAPS

-----------------------------------------------------------------------------
(* Sequences.                                                              *)

LEMMA Appending ==
  ASSUME NEW S, NEW s \in Seq(S), NEW e \in S
  PROVE  /\ Append(s, e) \in Seq(S)
         /\ Len(Append(s, e)) = Len(s) + 1
         /\ DOMAIN s = 1..Len(s) /\ Len(s) \in Nat
         /\ DOMAIN Append(s, e) = DOMAIN s \cup {Len(s) + 1}
         /\ Len(s) + 1 \notin DOMAIN s
         /\ Append(s, e)[Len(s) + 1] = e
         /\ \A i \in DOMAIN s : Append(s, e)[i] = s[i]
         /\ Append(s, e) # <<>>
OBVIOUS

LEMMA Mapping ==
  ASSUME NEW S, NEW s \in Seq(S), NEW g \in [DOMAIN s -> S]
  PROVE  g \in Seq(S) /\ Len(g) = Len(s) /\ DOMAIN g = DOMAIN s
OBVIOUS

-----------------------------------------------------------------------------
(* The invariants.                                                         *)

\* Where the processes can be, by how the occurrence came in.
Places ==
    /\ \A w \in Workers : me[w].at \notin {"persist", "decide", "recover"}
    /\ me[Front].at \notin {"find", "relink", "repair", "reenqueue"}
    /\ me[Front].out # "retry"
    /\ entry # "plan" => me[Front].at \notin {"load", "check", "recover"}
    /\ entry = "plan" =>
          /\ \A w \in Workers : me[w].at = "idle"
          /\ me[Front].at \notin {"persist", "decide"}
          /\ me[Front].at # "idle" => status = "queued"
          /\ answer = "none"
    /\ entry = "ingress" => me[Front].at \in {"idle", "persist", "decide", "insert"}

\* An accepted delivery has its run, and nobody is about to ignore it.
Kept ==
    /\ entry = "ingress" /\ me[Front].at # "idle" => answer = "none"
    /\ answer = "accepted" => entry = "ingress" /\ Anchored # {}
    /\ ~early /\ answer = "none" =>
          /\ active
          /\ \A w \in Workers : me[w].at = "check" => me[w].on
    /\ ~early /\ answer \in {"none", "accepted"} =>
          /\ status # "ignored"
          /\ \A p \in Procs : me[p].out # "ignored"

\* The steps of a process that has a run.
Running == {"find", "relink", "issue", "enqueue", "task", "link", "repair",
            "reenqueue", "skip", "fail", "recover"}

OfIssue == {"issue", "enqueue", "repair", "reenqueue"}
OfTask  == {"find", "task", "link", "relink"}
Linked  == {"enqueue", "repair", "reenqueue"}
Before  == {"issue", "enqueue", "reenqueue", "task"}
Unspent == {"issue", "enqueue", "find", "task", "skip", "fail"}

\* How a process stands to its run.
Owns(p) ==
    me[p].at \in Running =>
        /\ me[p].run \in DOMAIN runs
        /\ p \in Workers => runs[me[p].run].anchored
        /\ p = Front /\ entry = "replay" => ~runs[me[p].run].anchored

InMode(p) ==
    /\ me[p].at \in OfIssue => mode = "create_issue"
    /\ me[p].at \in OfTask => mode = "run_only"
    /\ me[p].at \in Linked => me[p].issue \in DOMAIN issues
    /\ me[p].at \in {"link", "relink"} => tasks # <<>>

Holds(p) ==
    /\ me[p].at \in Linked => me[p].issue = runs[me[p].run].issue
    /\ me[p].at \in Before => \A t \in DOMAIN tasks : tasks[t].run # me[p].run
    /\ me[p].at \in Unspent => runs[me[p].run].status # "skipped"

Accounts(p) == me[p].at = "finish" /\ me[p].out = "dispatched" => Accounted

\* The rows.
Rows ==
    /\ \A t \in DOMAIN tasks : tasks[t].run \in DOMAIN runs
    /\ mode = "run_only" => \A r \in DOMAIN runs : runs[r].issue = 0
    /\ mode = "create_issue" => \A r \in DOMAIN runs : runs[r].status # "running"
    /\ entry = "ingress" => Len(runs) <= 1 /\ \A r \in DOMAIN runs : runs[r].anchored
    /\ \A r \in DOMAIN runs :
          /\ runs[r].issue # 0 => runs[r].issue \in DOMAIN issues
          /\ runs[r].status = "completed" => tasks # <<>> \/ runs[r].issue # 0
          /\ runs[r].task # 0 => tasks # <<>>

Once ==
    /\ \A t, u \in DOMAIN tasks : t # u => tasks[t].run # tasks[u].run
    /\ mode = "create_issue" =>
          \A t \in DOMAIN tasks :
             tasks[t].issue = runs[tasks[t].run].issue /\ tasks[t].issue # 0

Alone == \A v, w \in Workers : me[v].at # "idle" /\ me[w].at # "idle" => v = w

WorkInv ==
    /\ Rows
    /\ \A p \in Procs : Owns(p) /\ InMode(p)
    /\ ~shared =>
          /\ Alone /\ Once
          /\ \A p \in Procs : Holds(p) /\ Accounts(p)
          /\ status = "dispatched" => Accounted

-----------------------------------------------------------------------------
(* Types.                                                                  *)

MeTyped   == me \in [Procs -> Work]
WorkTyped == runs \in Seq(Run) /\ issues \in Seq({"open", "closed"}) /\ tasks \in Seq(Task)

LEMMA InitTyped == Init => TypeOK
<1> SUFFICES ASSUME Init PROVE TypeOK
  OBVIOUS
<1>1. me \in [Procs -> Work]
  BY DEF Init, Idle, Doing, Work, Steps, Outs
<1>2. faults \in 0..Bound
  BY DispatchAssumption DEF Init, Bound
<1>3. runs \in Seq(Run) /\ issues \in Seq({"open", "closed"}) /\ tasks \in Seq(Task)
  BY DEF Init
<1> QED
  BY <1>1, <1>2, <1>3 DEF Init, TypeOK

\* How a process moves: it takes a new record, or fields of the one it has.
Others(p) == \A q \in Procs : q # p => me'[q] = me[q]

LEMMA Fresh ==
  ASSUME NEW s \in Steps, NEW r \in Nat, NEW i \in Nat, NEW o \in Outs
  PROVE  /\ Doing(s, r, i, o) \in Work
         /\ Doing(s, r, i, o).at = s /\ Doing(s, r, i, o).run = r
         /\ Doing(s, r, i, o).issue = i /\ Doing(s, r, i, o).out = o
BY DEF Doing, Work

LEMMA Taken ==
  ASSUME MeTyped, NEW p \in Procs, NEW m \in Work, me' = [me EXCEPT ![p] = m]
  PROVE  MeTyped' /\ me'[p] = m /\ Others(p)
BY DEF MeTyped, Others

LEMMA Moved ==
  ASSUME MeTyped, NEW p \in Procs, NEW s \in Steps, Goto(p, s)
  PROVE  /\ MeTyped' /\ Others(p)
         /\ me'[p].at = s /\ me'[p].run = me[p].run /\ me'[p].issue = me[p].issue
         /\ me'[p].on = me[p].on /\ me'[p].out = me[p].out /\ me'[p].task = me[p].task
<1>1. me' \in [Procs -> Work]
  BY DEF MeTyped, Goto, Work
<1> QED
  BY <1>1 DEF MeTyped, Goto, Work, Others

LEMMA MovedIssue ==
  ASSUME MeTyped, NEW p \in Procs, NEW s \in Steps, NEW i \in Nat,
         me' = [me EXCEPT ![p].at = s, ![p].issue = i]
  PROVE  /\ MeTyped' /\ Others(p)
         /\ me'[p].at = s /\ me'[p].run = me[p].run /\ me'[p].issue = i
         /\ me'[p].on = me[p].on /\ me'[p].out = me[p].out /\ me'[p].task = me[p].task
<1>1. me' \in [Procs -> Work]
  BY DEF MeTyped, Work
<1> QED
  BY <1>1 DEF MeTyped, Work, Others

LEMMA MovedTask ==
  ASSUME MeTyped, NEW p \in Procs, NEW s \in Steps, NEW t \in Nat,
         me' = [me EXCEPT ![p].at = s, ![p].task = t]
  PROVE  /\ MeTyped' /\ Others(p)
         /\ me'[p].at = s /\ me'[p].run = me[p].run /\ me'[p].issue = me[p].issue
         /\ me'[p].on = me[p].on /\ me'[p].out = me[p].out /\ me'[p].task = t
<1>1. me' \in [Procs -> Work]
  BY DEF MeTyped, Work
<1> QED
  BY <1>1 DEF MeTyped, Work, Others

LEMMA MovedRun ==
  ASSUME MeTyped, NEW p \in Procs, NEW s \in Steps, NEW r \in Nat,
         me' = [me EXCEPT ![p].at = s, ![p].run = r]
  PROVE  /\ MeTyped' /\ Others(p)
         /\ me'[p].at = s /\ me'[p].run = r /\ me'[p].issue = me[p].issue
         /\ me'[p].on = me[p].on /\ me'[p].out = me[p].out /\ me'[p].task = me[p].task
<1>1. me' \in [Procs -> Work]
  BY DEF MeTyped, Work
<1> QED
  BY <1>1 DEF MeTyped, Work, Others

LEMMA MovedOn ==
  ASSUME MeTyped, NEW p \in Procs, NEW s \in Steps, NEW b \in BOOLEAN,
         me' = [me EXCEPT ![p].at = s, ![p].on = b]
  PROVE  /\ MeTyped' /\ Others(p)
         /\ me'[p].at = s /\ me'[p].run = me[p].run /\ me'[p].issue = me[p].issue
         /\ me'[p].on = b /\ me'[p].out = me[p].out /\ me'[p].task = me[p].task
<1>1. me' \in [Procs -> Work]
  BY DEF MeTyped, Work
<1> QED
  BY <1>1 DEF MeTyped, Work, Others

\* What happens to the rows of runs.
Rewritten == runs' \in Seq(Run) /\ Len(runs') = Len(runs) /\ DOMAIN runs' = DOMAIN runs

Kin(x, y) == x.issue = y.issue /\ x.task = y.task /\ x.anchored = y.anchored

LEMMA StatusSet ==
  ASSUME runs \in Seq(Run), NEW r, NEW s \in RunStates, SetStatus(r, s)
  PROVE  /\ Rewritten
         /\ \A q \in DOMAIN runs : q # r => runs'[q] = runs[q]
         /\ r \in DOMAIN runs => runs'[r].status = s /\ Kin(runs'[r], runs[r])
<1> DEFINE e == [runs[r] EXCEPT !.status = s]
<1>1. ASSUME r \in DOMAIN runs
      PROVE  e \in Run /\ e.status = s /\ Kin(e, runs[r])
  <2>1. runs[r] \in Run
    BY <1>1
  <2> QED
    BY <2>1 DEF Run, RunStates, Kin
<1>2. runs' = [runs EXCEPT ![r] = e]
  BY DEF SetStatus
<1> HIDE DEF e
<1>3. runs \in [DOMAIN runs -> Run]
  OBVIOUS
<1>4. runs' \in [DOMAIN runs -> Run]
  BY <1>1, <1>2, <1>3
<1>5. Rewritten
  BY <1>4, Mapping DEF Rewritten
<1> QED
  BY <1>1, <1>2, <1>3, <1>5

LEMMA IssueLinked ==
  ASSUME runs \in Seq(Run), NEW r, NEW i \in Nat, LinkIssue(r, i)
  PROVE  /\ Rewritten
         /\ \A q \in DOMAIN runs : q # r => runs'[q] = runs[q]
         /\ r \in DOMAIN runs => 
               /\ runs'[r].status = "issue_created" /\ runs'[r].issue = i
               /\ runs'[r].task = runs[r].task /\ runs'[r].anchored = runs[r].anchored
<1> DEFINE e == [runs[r] EXCEPT !.status = "issue_created", !.issue = i]
<1>1. ASSUME r \in DOMAIN runs
      PROVE  e \in Run /\ e.status = "issue_created" /\ e.issue = i
             /\ e.task = runs[r].task /\ e.anchored = runs[r].anchored
  <2>1. runs[r] \in Run
    BY <1>1
  <2> QED
    BY <2>1 DEF Run, RunStates, Kin
<1>2. runs' = [runs EXCEPT ![r] = e]
  BY DEF LinkIssue
<1> HIDE DEF e
<1>3. runs \in [DOMAIN runs -> Run]
  OBVIOUS
<1>4. runs' \in [DOMAIN runs -> Run]
  BY <1>1, <1>2, <1>3
<1>5. Rewritten
  BY <1>4, Mapping DEF Rewritten
<1> QED
  BY <1>1, <1>2, <1>3, <1>5

LEMMA TaskLinked ==
  ASSUME runs \in Seq(Run), NEW r, NEW t \in Nat, LinkTask(r, t)
  PROVE  /\ Rewritten
         /\ \A q \in DOMAIN runs : q # r => runs'[q] = runs[q]
         /\ r \in DOMAIN runs => 
               /\ runs'[r].status = "running" /\ runs'[r].task = t
               /\ runs'[r].issue = runs[r].issue /\ runs'[r].anchored = runs[r].anchored
<1> DEFINE e == [runs[r] EXCEPT !.status = "running", !.task = t]
<1>1. ASSUME r \in DOMAIN runs
      PROVE  e \in Run /\ e.status = "running" /\ e.task = t
             /\ e.issue = runs[r].issue /\ e.anchored = runs[r].anchored
  <2>1. runs[r] \in Run
    BY <1>1
  <2> QED
    BY <2>1 DEF Run, RunStates, Kin
<1>2. runs' = [runs EXCEPT ![r] = e]
  BY DEF LinkTask
<1> HIDE DEF e
<1>3. runs \in [DOMAIN runs -> Run]
  OBVIOUS
<1>4. runs' \in [DOMAIN runs -> Run]
  BY <1>1, <1>2, <1>3
<1>5. Rewritten
  BY <1>4, Mapping DEF Rewritten
<1> QED
  BY <1>1, <1>2, <1>3, <1>5

LEMMA RunGivenUp ==
  ASSUME runs \in Seq(Run), NEW r, r = me[Front].run, Recover
  PROVE  /\ Rewritten
         /\ \A q \in DOMAIN runs : q # r => runs'[q] = runs[q]
         /\ r \in DOMAIN runs => 
               /\ runs'[r].status = "failed" /\ ~runs'[r].anchored
               /\ runs'[r].issue = runs[r].issue /\ runs'[r].task = runs[r].task
<1> DEFINE e == [runs[r] EXCEPT !.status = "failed", !.anchored = FALSE]
<1>1. ASSUME r \in DOMAIN runs
      PROVE  e \in Run /\ e.status = "failed" /\ ~e.anchored
             /\ e.issue = runs[r].issue /\ e.task = runs[r].task
  <2>1. runs[r] \in Run
    BY <1>1
  <2> QED
    BY <2>1 DEF Run, RunStates, Kin
<1>2. runs' = [runs EXCEPT ![r] = e]
  BY DEF Recover
<1> HIDE DEF e
<1>3. runs \in [DOMAIN runs -> Run]
  OBVIOUS
<1>4. runs' \in [DOMAIN runs -> Run]
  BY <1>1, <1>2, <1>3
<1>5. Rewritten
  BY <1>4, Mapping DEF Rewritten
<1> QED
  BY <1>1, <1>2, <1>3, <1>5

LEMMA StatusOf ==
  ASSUME runs \in Seq(Run), NEW q \in DOMAIN runs, NEW s \in RunStates
  PROVE  LET e == [runs[q] EXCEPT !.status = s]
         IN  e \in Run /\ e.status = s /\ Kin(e, runs[q]) /\ runs[q] \in Run
<1>1. runs[q] \in Run
  OBVIOUS
<1> QED
  BY <1>1 DEF Run, RunStates, Kin

\* What a listener leaves of a run: at most its status changes, to an end.
LEMMA ClosingIssue ==
  ASSUME runs \in Seq(Run), NEW i, NEW s \in {"completed", "failed"}, IssueCloses(i, s)
  PROVE  /\ Rewritten
         /\ \A q \in DOMAIN runs :
               \/ runs'[q] = runs[q]
               \/ runs'[q].status = s /\ Kin(runs'[q], runs[q]) /\ runs[q].issue = i
<1> DEFINE F(q) == IF runs[q].issue = i /\ Open(q) THEN [runs[q] EXCEPT !.status = s]
                   ELSE runs[q]
<1>1. runs' = [q \in DOMAIN runs |-> F(q)] \/ runs' = runs
  BY DEF IssueCloses
<1>2. ASSUME NEW q \in DOMAIN runs
      PROVE  /\ F(q) \in Run /\ runs[q] \in Run
             /\ \/ F(q) = runs[q]
                \/ F(q).status = s /\ Kin(F(q), runs[q]) /\ runs[q].issue = i
  BY StatusOf DEF RunStates
<1> HIDE DEF F
<1>3. runs' \in [DOMAIN runs -> Run]
  <2>1. CASE runs' = [q \in DOMAIN runs |-> F(q)]
    BY <2>1, <1>2
  <2>2. CASE runs' = runs
    BY <2>2
  <2> QED
    BY <1>1, <2>1, <2>2
<1>4. Rewritten
  BY <1>3, Mapping DEF Rewritten
<1> QED
  BY <1>1, <1>2, <1>4

LEMMA EndingTask ==
  ASSUME runs \in Seq(Run), NEW t, NEW s \in {"completed", "failed"}, TaskEnds(t, s)
  PROVE  /\ Rewritten
         /\ \A q \in DOMAIN runs :
               runs'[q] = runs[q] \/ (runs'[q].status = s /\ Kin(runs'[q], runs[q]))
<1>1. CASE UNCHANGED runs
  BY <1>1 DEF Rewritten
<1>2. CASE runs' = Synced(t, s)
  <2> DEFINE P(q) == \/ tasks[t].issue = 0 /\ q = tasks[t].run
                     \/ /\ tasks[t].issue # 0 /\ runs[q].issue = tasks[t].issue /\ Open(q)
                        /\ s = "failed"
                        /\ \A u \in DOMAIN tasks \ {t} :
                              tasks[u].issue = tasks[t].issue => tasks[u].state # "queued"
             F(q) == IF P(q) THEN [runs[q] EXCEPT !.status = s] ELSE runs[q]
  <2>1. runs' = [q \in DOMAIN runs |-> F(q)]
    BY <1>2 DEF Synced
  <2> HIDE DEF P
  <2>2. ASSUME NEW q \in DOMAIN runs
        PROVE  /\ F(q) \in Run
               /\ F(q) = runs[q] \/ (F(q).status = s /\ Kin(F(q), runs[q]))
    BY StatusOf DEF RunStates
  <2> HIDE DEF F
  <2>3. runs' \in [DOMAIN runs -> Run]
    BY <2>1, <2>2
  <2>4. Rewritten
    BY <2>3, Mapping DEF Rewritten
  <2> QED
    BY <2>1, <2>2, <2>4
<1> QED
  BY <1>1, <1>2 DEF TaskEnds

\* The moves by the names of the module.
Keeps(p, s) ==
    /\ MeTyped' /\ Others(p)
    /\ me'[p].at = s /\ me'[p].run = me[p].run /\ me'[p].issue = me[p].issue
    /\ me'[p].on = me[p].on /\ me'[p].out = me[p].out
Starts(p, s, r, i, o) ==
    /\ MeTyped' /\ Others(p)
    /\ me'[p].at = s /\ me'[p].run = r /\ me'[p].issue = i /\ me'[p].out = o
Ends(p, o) == Starts(p, "finish", 0, 0, o)
Left(p) == Starts(p, "idle", 0, 0, "none")

First(p) == IF mode = "create_issue" THEN "issue" ELSE IF p \in Workers THEN "find" ELSE "task"

LEMMA MovesOf ==
  ASSUME TypeOK, NEW p \in Procs
  PROVE  /\ \A s \in Steps : Goto(p, s) => Keeps(p, s)
         /\ \A o \in Outs : Conclude(p, o) => Ends(p, o)
         /\ Finish(p) => Ends(p, me[p].out)
         /\ Leave(p) => Left(p)
         /\ \A r \in Nat : Begin(p, r) => Starts(p, First(p), r, 0, "dispatched")
<1>1. MeTyped /\ me[p] \in Work
  BY DEF TypeOK, MeTyped
<1>2. \A s \in Steps : Goto(p, s) => Keeps(p, s)
  BY <1>1, Moved DEF Keeps
<1>3. ASSUME NEW s \in Steps, NEW r \in Nat, NEW i \in Nat, NEW o \in Outs,
             me' = [me EXCEPT ![p] = Doing(s, r, i, o)]
      PROVE  Starts(p, s, r, i, o)
  <2>1. Doing(s, r, i, o) \in Work
    BY Fresh
  <2>2. MeTyped' /\ Others(p) /\ me'[p] = Doing(s, r, i, o)
    BY <1>1, <1>3, <2>1, Taken
  <2> QED
    BY <2>2, Fresh DEF Starts
<1>4. ASSUME NEW o \in Outs, Conclude(p, o) PROVE Ends(p, o)
  BY <1>3, <1>4 DEF Conclude, Ends, Steps
<1>5. Finish(p) => Ends(p, me[p].out)
  BY <1>1, <1>4 DEF Finish, Work
<1>6. Leave(p) => Left(p)
  BY <1>3 DEF Leave, Left, Idle, Steps, Outs
<1>7. ASSUME NEW r \in Nat, Begin(p, r) PROVE Starts(p, First(p), r, 0, "dispatched")
  BY <1>3, <1>7 DEF Begin, First, Steps, Outs
<1> QED
  BY <1>2, <1>4, <1>5, <1>6, <1>7

LEMMA Errs ==
  ASSUME TypeOK, NEW p \in Procs, OnError(p, me[p].at)
  PROVE  /\ MeTyped' /\ Others(p)
         /\ me[p].at \notin {"idle", "persist", "decide", "finish"}
         /\ \/ /\ me[p].at \in {"issue", "enqueue", "task", "skip"}
               /\ Keeps(p, "fail")
            \/ me[p].at = "link" /\ Ends(p, me[p].out)
            \/ me[p].at # "link" /\ Ends(p, "failed")
            \/ /\ me[p].at \in {"load", "check", "insert"} /\ p \in Workers
               /\ Ends(p, "retry")
<1>1. "fail" \in Steps /\ "failed" \in Outs /\ "retry" \in Outs
  BY DEF Steps, Outs
<1> QED
  BY <1>1, MovesOf DEF OnError, Keeps, Ends, Starts

\* Every step of a process, and the rest of the steps.
Act(p) ==
    \/ p \in Workers /\ Process(p)
    \/ Dispatch(p) \/ Admission(p) \/ QueryFails(p) \/ Crash(p)
    \/ p = Front /\ (Request \/ PlanAttempt)

Elsewhere == Outcome \/ Switch \/ LeaseExpires

LEMMA Actors == Next => Elsewhere \/ \E p \in Procs : Act(p)
BY DEF Next, Act, Elsewhere, Procs

LEMMA CheckMoves ==
  ASSUME TypeOK, NEW p \in Procs, NEW r \in DOMAIN runs, Resume(p, r)
  PROVE  \/ ~Complete(runs[r]) /\ Starts(p, First(p), r, 0, "dispatched")
         \/ /\ Complete(runs[r]) /\ runs[r].issue # 0
            /\ Starts(p, "repair", r, runs[r].issue, Settled(r))
         \/ Complete(runs[r]) /\ runs[r].issue = 0 /\ Ends(p, Settled(r))
<1>1. r \in Nat /\ runs[r] \in Run /\ Settled(r) \in Outs
  BY DEF TypeOK, Settled, Outs
<1>2. CASE ~Complete(runs[r]) /\ Begin(p, r)
  BY <1>1, <1>2, MovesOf
<1>3. CASE Complete(runs[r]) /\ runs[r].issue # 0
           /\ me' = [me EXCEPT ![p] = Doing("repair", r, runs[r].issue, Settled(r))]
  <2>1. "repair" \in Steps /\ runs[r].issue \in Nat /\ MeTyped
    BY <1>1 DEF Steps, Run, TypeOK, MeTyped
  <2>2. Doing("repair", r, runs[r].issue, Settled(r)) \in Work
    BY <1>1, <2>1, Fresh
  <2>3. MeTyped' /\ Others(p) /\ me'[p] = Doing("repair", r, runs[r].issue, Settled(r))
    BY <1>3, <2>1, <2>2, Taken
  <2> QED
    BY <1>1, <1>3, <2>1, <2>3, Fresh DEF Starts
<1>4. CASE Complete(runs[r]) /\ runs[r].issue = 0 /\ Conclude(p, Settled(r))
  BY <1>1, <1>4, MovesOf
<1> QED
  BY <1>2, <1>3, <1>4 DEF Resume

LEMMA FindMoves ==
  ASSUME TypeOK, NEW w \in Workers, Find(w)
  PROVE  \/ Keeps(w, "relink") /\ tasks # <<>>
         \/ Keeps(w, "task") /\ \A t \in DOMAIN tasks : tasks[t].run # me[w].run
<1>1. MeTyped /\ w \in Procs /\ DOMAIN tasks \subseteq Nat /\ {"relink", "task"} \subseteq Steps
  BY DEF TypeOK, MeTyped, Procs, Steps
<1>2. ASSUME NEW t \in DOMAIN tasks, me' = [me EXCEPT ![w].at = "relink", ![w].task = t]
      PROVE  Keeps(w, "relink") /\ tasks # <<>>
  <2>1. tasks # <<>>
    OBVIOUS
  <2> QED
    BY <1>1, <1>2, <2>1, MovedTask DEF Keeps
<1> QED
  BY <1>1, <1>2, MovesOf DEF Find

LEMMA LookUpMoves ==
  ASSUME TypeOK, LookUp
  PROVE  \/ \E r \in Anchored :
               \/ Complete(runs[r]) /\ Ends(Front, "dispatched")
               \/ ~Complete(runs[r]) /\ me'[Front].at = "recover" /\ me'[Front].run = r
                  /\ me'[Front].out = me[Front].out /\ MeTyped' /\ Others(Front)
         \/ Anchored = {} /\ Keeps(Front, "insert")
<1>1. /\ MeTyped /\ Front \in Procs /\ DOMAIN runs \subseteq Nat
      /\ {"recover", "insert"} \subseteq Steps /\ "dispatched" \in Outs
  BY DEF TypeOK, MeTyped, Procs, Steps, Outs
<1>2. ASSUME NEW r \in Anchored, me' = [me EXCEPT ![Front].at = "recover", ![Front].run = r]
      PROVE  /\ me'[Front].at = "recover" /\ me'[Front].run = r
             /\ me'[Front].out = me[Front].out /\ MeTyped' /\ Others(Front)
  BY <1>1, <1>2, MovedRun DEF Anchored
<1> QED
  BY <1>1, <1>2, MovesOf DEF LookUp

LEMMA MeMoves ==
  ASSUME TypeOK, NEW p \in Procs, Act(p)
  PROVE  MeTyped' /\ Others(p)
<1> USE DEF Keeps, Starts, Ends, Left
<1>1. /\ MeTyped
      /\ \A s \in Steps : Goto(p, s) => MeTyped' /\ Others(p)
      /\ \A o \in Outs : Conclude(p, o) => MeTyped' /\ Others(p)
      /\ Finish(p) => MeTyped' /\ Others(p)
      /\ Leave(p) => MeTyped' /\ Others(p)
      /\ \A r \in Nat : Begin(p, r) => MeTyped' /\ Others(p)
  BY MovesOf DEF TypeOK, MeTyped
<1>2. Len(issues) + 1 \in Nat /\ Len(tasks) + 1 \in Nat /\ Len(runs) + 1 \in Nat
  BY DEF TypeOK
<1>3. Anchored \subseteq DOMAIN runs /\ DOMAIN runs \subseteq Nat /\ DOMAIN tasks \subseteq Nat
  BY DEF Anchored, TypeOK
<1>4. OnError(p, me[p].at) => MeTyped' /\ Others(p)
  BY Errs
<1>5. CASE p \in Workers /\ Process(p)
  <2>1. CASE Claim(p)
    BY <1>1, <2>1 DEF Claim, Steps
  <2>2. CASE Defer(p)
    BY <1>1, <2>2 DEF Defer
  <2>3. CASE Load(p)
    BY <1>1, <2>3, MovedOn DEF Load, Steps, TypeOK
  <2>4. CASE Check(p)
    BY <1>1, <1>3, <2>4, CheckMoves DEF Check, Steps, Outs
  <2>5. CASE Find(p)
    BY <1>1, <1>3, <2>5, MovedTask DEF Find, Steps
  <2>6. CASE Repair(p)
    BY <1>1, <2>6 DEF Repair, Steps
  <2>7. CASE FinishDelivery(p)
    BY <1>1, <2>7 DEF FinishDelivery
  <2> QED
    BY <1>5, <2>1, <2>2, <2>3, <2>4, <2>5, <2>6, <2>7 DEF Process
<1>6. CASE Dispatch(p)
  <2>1. CASE CreateIssue(p)
    BY <1>1, <1>2, <2>1, MovedIssue DEF CreateIssue, Steps
  <2>2. CASE CreateTask(p)
    BY <1>1, <1>2, <2>2, MovedTask DEF CreateTask, Steps
  <2>3. CASE Conflict(p)
    BY <1>4, <2>3 DEF Conflict
  <2>4. CASE Duplicate(p) \/ Enqueue(p) \/ NotReady(p) \/ Link(p) \/ SkipRun(p) \/ FailRun(p)
    BY <1>1, <2>4 DEF Duplicate, Enqueue, NotReady, Link, SkipRun, FailRun, Steps, Outs
  <2> QED
    BY <1>6, <2>1, <2>2, <2>3, <2>4 DEF Dispatch
<1>7. CASE Admission(p)
  <2>1. CASE Reuse(p)
    BY <1>1, <1>3, <2>1, CheckMoves DEF Reuse
  <2>2. ASSUME NEW s \in {"skipped", Initial}, Admit(p, s) PROVE MeTyped' /\ Others(p)
    BY <1>1, <1>2, <2>2 DEF Admit, Outs
  <2> QED
    BY <1>7, <2>1, <2>2 DEF Admission
<1>8. CASE QueryFails(p) \/ Crash(p)
  BY <1>1, <1>4, <1>8 DEF QueryFails, Crash
<1>9. CASE p = Front /\ Request
  <2>1. CASE Receive
    BY <1>1, <1>9, <2>1, MovedOn DEF Receive, Steps, TypeOK
  <2>2. CASE Persist \/ Ignore \/ FinishReplay
    BY <1>1, <1>9, <2>2 DEF Persist, Ignore, FinishReplay, Steps
  <2> QED
    BY <1>9, <2>1, <2>2 DEF Request
<1>10. CASE p = Front /\ PlanAttempt
  <2>1. CASE LookUp
    BY <1>1, <1>3, <1>10, <2>1, MovedRun DEF LookUp, Steps, Outs
  <2>2. CASE StartAttempt \/ LoadPlan \/ Recover \/ FinishPlan
    BY <1>1, <1>10, <2>2 DEF StartAttempt, LoadPlan, Recover, FinishPlan, Steps, Outs
  <2> QED
    BY <1>10, <2>1, <2>2 DEF PlanAttempt
<1> QED
  BY <1>5, <1>6, <1>7, <1>8, <1>9, <1>10 DEF Act

\* The steps that write a run, an issue or a task.
Writes(p) ==
    \/ CreateIssue(p) \/ Enqueue(p) \/ CreateTask(p) \/ Link(p) \/ SkipRun(p) \/ FailRun(p)
    \/ \E s \in {"skipped", Initial} : Admit(p, s)
    \/ p = Front /\ Recover

LEMMA Writers ==
  ASSUME NEW p \in Procs, Act(p)
  PROVE  Writes(p) \/ UNCHANGED <<runs, issues, tasks>>
<1>1. CASE p \in Workers /\ Process(p)
  BY <1>1 DEF Process, Claim, Defer, Load, Check, Find, Repair, FinishDelivery, work
<1>2. CASE Dispatch(p)
  BY <1>2 DEF Dispatch, Writes, Duplicate, NotReady, Conflict, work
<1>3. CASE Admission(p)
  BY <1>3 DEF Admission, Writes, Reuse, work
<1>4. CASE QueryFails(p) \/ Crash(p)
  BY <1>4 DEF QueryFails, Crash, work
<1>5. CASE p = Front /\ Request
  BY <1>5 DEF Request, Receive, Persist, Ignore, FinishReplay, work
<1>6. CASE p = Front /\ PlanAttempt
  BY <1>6 DEF PlanAttempt, Writes, StartAttempt, LoadPlan, LookUp, FinishPlan, work
<1> QED
  BY <1>1, <1>2, <1>3, <1>4, <1>5, <1>6 DEF Act

\* A new row.
LEMMA RunAdded ==
  ASSUME WorkTyped, NEW p, NEW s \in {"skipped", Initial}, NewRun(p, s)
  PROVE  LET n == Len(runs) + 1 IN
         /\ runs' \in Seq(Run) /\ Len(runs') = n
         /\ n \notin DOMAIN runs /\ DOMAIN runs' = DOMAIN runs \cup {n}
         /\ \A q \in DOMAIN runs : runs'[q] = runs[q]
         /\ runs'[n].status = s /\ runs'[n].issue = 0 /\ runs'[n].task = 0
         /\ runs'[n].anchored = Anchors(p)
<1> DEFINE e == [status |-> s, issue |-> 0, task |-> 0, anchored |-> Anchors(p)]
<1>1. e \in Run
  <2>1. Anchors(p) \in BOOLEAN
    BY DEF Anchors
  <2> QED
    BY <2>1 DEF Run, RunStates, Initial
<1>2. runs' = Append(runs, e) /\ runs \in Seq(Run)
  BY DEF NewRun, WorkTyped
<1>3. e.status = s /\ e.issue = 0 /\ e.task = 0 /\ e.anchored = Anchors(p)
  OBVIOUS
<1> HIDE DEF e
<1> QED
  BY <1>1, <1>2, <1>3, Appending

LEMMA TaskAdded ==
  ASSUME WorkTyped, MeTyped, NEW p \in Procs, NewTask(p)
  PROVE  LET n == Len(tasks) + 1 IN
         /\ tasks' \in Seq(Task)
         /\ n \notin DOMAIN tasks /\ DOMAIN tasks' = DOMAIN tasks \cup {n}
         /\ \A q \in DOMAIN tasks : tasks'[q] = tasks[q]
         /\ tasks'[n].run = me[p].run /\ tasks'[n].issue = me[p].issue
         /\ tasks' # <<>>
<1> DEFINE e == [run |-> me[p].run, issue |-> me[p].issue, state |-> "queued"]
<1>1. e \in Task
  BY DEF Task, TaskStates, MeTyped, Work
<1>2. tasks' = Append(tasks, e) /\ tasks \in Seq(Task)
  BY DEF NewTask, WorkTyped
<1>3. e.run = me[p].run /\ e.issue = me[p].issue
  OBVIOUS
<1> HIDE DEF e
<1> QED
  BY <1>1, <1>2, <1>3, Appending

LEMMA IssueAdded ==
  ASSUME WorkTyped, issues' = Append(issues, "open")
  PROVE  /\ issues' \in Seq({"open", "closed"})
         /\ Len(issues) + 1 \notin DOMAIN issues
         /\ DOMAIN issues' = DOMAIN issues \cup {Len(issues) + 1}
         /\ \A i \in DOMAIN issues : issues'[i] = issues[i]
BY Appending DEF WorkTyped

\* A row that changes.
LEMMA TaskEnded ==
  ASSUME WorkTyped, NEW t \in DOMAIN tasks, tasks' = [tasks EXCEPT ![t].state = "ended"]
  PROVE  /\ tasks' \in Seq(Task) /\ DOMAIN tasks' = DOMAIN tasks
         /\ \A u \in DOMAIN tasks :
               tasks'[u].run = tasks[u].run /\ tasks'[u].issue = tasks[u].issue
<1>1. tasks \in Seq(Task) /\ tasks \in [DOMAIN tasks -> Task]
  BY DEF WorkTyped
<1>2. tasks' \in [DOMAIN tasks -> Task]
  BY <1>1 DEF Task, TaskStates
<1>3. tasks' \in Seq(Task) /\ DOMAIN tasks' = DOMAIN tasks
  BY <1>1, <1>2, Mapping
<1> QED
  BY <1>1, <1>3 DEF Task

LEMMA IssueClosed ==
  ASSUME WorkTyped, NEW i \in DOMAIN issues, issues' = [issues EXCEPT ![i] = "closed"]
  PROVE  /\ issues' \in Seq({"open", "closed"}) /\ DOMAIN issues' = DOMAIN issues
         /\ issues'[i] = "closed"
<1>1. issues \in Seq({"open", "closed"}) /\ issues \in [DOMAIN issues -> {"open", "closed"}]
  BY DEF WorkTyped
<1>2. issues' \in [DOMAIN issues -> {"open", "closed"}]
  BY <1>1
<1>3. issues' \in Seq({"open", "closed"}) /\ DOMAIN issues' = DOMAIN issues
  BY <1>1, <1>2, Mapping
<1> QED
  BY <1>1, <1>3

LEMMA RowsTyped ==
  ASSUME TypeOK, [Next]_vars
  PROVE  WorkTyped'
<1>1. WorkTyped /\ MeTyped /\ runs \in Seq(Run)
  BY DEF TypeOK, WorkTyped, MeTyped
<1>2. CASE UNCHANGED <<runs, issues, tasks>>
  BY <1>1, <1>2 DEF WorkTyped
<1>3. ASSUME NEW p \in Procs, Writes(p) PROVE WorkTyped'
  <2>1. CASE CreateIssue(p)
    <3>1. Len(issues) + 1 \in Nat
      BY <1>1 DEF WorkTyped
    <3>2. runs' \in Seq(Run)
      BY <1>1, <2>1, <3>1, IssueLinked DEF CreateIssue, Rewritten
    <3> QED
      BY <1>1, <2>1, <3>2, IssueAdded DEF CreateIssue, WorkTyped
  <2>2. CASE Enqueue(p) \/ CreateTask(p)
    BY <1>1, <2>2, TaskAdded DEF Enqueue, CreateTask, WorkTyped
  <2>3. CASE Link(p)
    <3>1. me[p].task \in Nat
      BY <1>1 DEF MeTyped, Work
    <3> QED
      BY <1>1, <2>3, <3>1, TaskLinked DEF Link, WorkTyped, Rewritten
  <2>4. CASE SkipRun(p) \/ FailRun(p)
    BY <1>1, <2>4, StatusSet DEF SkipRun, FailRun, WorkTyped, Rewritten, RunStates
  <2>5. ASSUME NEW s \in {"skipped", Initial}, Admit(p, s) PROVE WorkTyped'
    BY <1>1, <2>5, RunAdded DEF Admit, WorkTyped
  <2>6. CASE Recover
    BY <1>1, <2>6, RunGivenUp DEF Recover, WorkTyped, Rewritten
  <2> QED
    BY <1>3, <2>1, <2>2, <2>3, <2>4, <2>5, <2>6 DEF Writes
<1>4. CASE Outcome
  <2>1. ASSUME NEW t \in DOMAIN tasks, NEW s \in {"completed", "failed"}, TaskEnds(t, s)
        PROVE  WorkTyped'
    BY <1>1, <2>1, EndingTask, TaskEnded DEF TaskEnds, WorkTyped, Rewritten
  <2>2. ASSUME NEW i \in DOMAIN issues, NEW s \in {"completed", "failed"}, IssueCloses(i, s)
        PROVE  WorkTyped'
    BY <1>1, <2>2, ClosingIssue, IssueClosed DEF IssueCloses, WorkTyped, Rewritten
  <2> QED
    BY <1>4, <2>1, <2>2 DEF Outcome
<1>5. CASE Switch \/ LeaseExpires \/ UNCHANGED vars
  BY <1>2, <1>5 DEF Switch, LeaseExpires, vars, work
<1> QED
  BY <1>2, <1>3, <1>4, <1>5, Actors, Writers DEF Elsewhere

\* The rest of the state.
RowTyped ==
    /\ status \in {"none", "queued", "dispatched", "ignored", "failed"}
    /\ attempts \in Nat
    /\ lease \in Procs \cup {None} /\ live \in BOOLEAN

ToldTyped ==
    /\ answer \in {"none", "accepted", "skipped", "ignored", "error"}
    /\ early \in BOOLEAN /\ shared \in BOOLEAN

LEMMA FaultsTyped ==
  ASSUME TypeOK, entry' = entry, Faulty \/ UNCHANGED faults
  PROVE  faults' \in (0..Bound)'
<1>1. Bound \in Nat /\ Bound' = Bound
  BY DispatchAssumption DEF Bound
<1> QED
  BY <1>1 DEF TypeOK, Faulty

LEMMA Static ==
  ASSUME [Next]_vars
  PROVE  /\ entry' = entry /\ mode' = mode
         /\ active' = active \/ Switch
         /\ Faulty \/ UNCHANGED faults
<1>1. ASSUME NEW p \in Procs, Act(p)
      PROVE  UNCHANGED <<entry, mode, active>> /\ (Faulty \/ UNCHANGED faults)
  <2>1. CASE p \in Workers /\ Process(p)
    BY <2>1 DEF Process, Claim, Defer, Load, Check, Find, Repair, FinishDelivery
  <2>2. CASE Dispatch(p)
    BY <2>2 DEF Dispatch, CreateIssue, Duplicate, Enqueue, CreateTask, NotReady, Link,
                SkipRun, FailRun, Conflict
  <2>3. CASE Admission(p)
    BY <2>3 DEF Admission, Admit, Reuse
  <2>4. CASE QueryFails(p) \/ Crash(p)
    BY <2>4 DEF QueryFails, Crash
  <2>5. CASE p = Front /\ Request
    BY <2>5 DEF Request, Receive, Persist, Ignore, FinishReplay
  <2>6. CASE p = Front /\ PlanAttempt
    BY <2>6 DEF PlanAttempt, StartAttempt, LoadPlan, LookUp, Recover, FinishPlan
  <2> QED
    BY <1>1, <2>1, <2>2, <2>3, <2>4, <2>5, <2>6 DEF Act
<1>2. CASE Elsewhere \/ UNCHANGED vars
  BY <1>2 DEF Elsewhere, Outcome, TaskEnds, IssueCloses, Switch, LeaseExpires, vars
<1> QED
  BY <1>1, <1>2, Actors

LEMMA RowMoves ==
  ASSUME TypeOK, Places, [Next]_vars
  PROVE  RowTyped'
<1>1. RowTyped /\ MeTyped /\ \A p \in Procs : me[p].out \in Outs
  BY DEF TypeOK, RowTyped, MeTyped, Work
<1> USE DEF RowTyped, row
<1>2. ASSUME NEW p \in Procs, Act(p) PROVE RowTyped'
  <2>1. CASE p \in Workers /\ Process(p)
    <3>1. CASE FinishDelivery(p)
      <4>1. me[p].out \in Outs
        BY <1>1
      <4>2. CASE lease = p /\ status = "queued"
        <5>1. /\ attempts' = attempts + 1 /\ lease' = None /\ live' = FALSE
          BY <3>1, <4>2 DEF FinishDelivery
        <5>2. attempts' \in Nat
          BY <1>1, <5>1
        <5>3. status' \in {me[p].out, "failed", "queued"} \ {"retry"}
          BY <3>1, <4>2 DEF FinishDelivery, Verdict
        <5>4. status' \in {"none", "queued", "dispatched", "ignored", "failed"}
          BY <4>1, <5>3 DEF Outs
        <5> QED
          BY <5>1, <5>2, <5>4
      <4>3. CASE ~(lease = p /\ status = "queued")
        BY <1>1, <3>1, <4>3 DEF FinishDelivery
      <4> QED
        BY <4>2, <4>3
    <3> QED
      BY <1>1, <2>1, <3>1 DEF Process, Claim, Defer, Load, Check, Find, Repair
  <2>2. CASE Dispatch(p)
    BY <1>1, <2>2 DEF Dispatch, CreateIssue, Duplicate, Enqueue, CreateTask, NotReady, Link,
                SkipRun, FailRun, Conflict
  <2>3. CASE Admission(p)
    BY <1>1, <2>3 DEF Admission, Admit, Reuse
  <2>4. CASE QueryFails(p) \/ Crash(p)
    BY <1>1, <2>4 DEF QueryFails, Crash, Release
  <2>5. CASE p = Front /\ Request
    <3>1. me[Front].out # "retry" /\ me[Front].out \in Outs
      BY <1>1 DEF Places, Procs
    <3> QED
      BY <1>1, <2>5, <3>1 DEF Request, Receive, Persist, Ignore, FinishReplay, Outs
  <2>6. CASE p = Front /\ PlanAttempt
    <3>1. me[Front].out # "retry" /\ me[Front].out \in Outs
      BY <1>1 DEF Places, Procs
    <3> QED
      BY <1>1, <2>6, <3>1
         DEF PlanAttempt, StartAttempt, LoadPlan, LookUp, Recover, FinishPlan, Release,
             Outs, Procs
  <2> QED
    BY <1>2, <2>1, <2>2, <2>3, <2>4, <2>5, <2>6 DEF Act
<1>3. CASE Elsewhere \/ UNCHANGED vars
  BY <1>1, <1>3 DEF Elsewhere, Outcome, TaskEnds, IssueCloses, Switch, LeaseExpires, vars
<1> QED
  BY <1>2, <1>3, Actors

LEMMA ToldMoves ==
  ASSUME TypeOK, [Next]_vars
  PROVE  ToldTyped'
<1>1. ToldTyped
  BY DEF TypeOK, ToldTyped
<1> USE DEF ToldTyped, told
<1>2. ASSUME NEW p \in Procs, Act(p) PROVE ToldTyped'
  <2>1. CASE p \in Workers /\ Process(p)
    BY <1>1, <2>1 DEF Process, Claim, Defer, Load, Check, Find, Repair, FinishDelivery
  <2>2. CASE Dispatch(p)
    BY <1>1, <2>2 DEF Dispatch, CreateIssue, Duplicate, Enqueue, CreateTask, NotReady, Link,
                SkipRun, FailRun, Conflict
  <2>3. CASE Admission(p)
    BY <1>1, <2>3 DEF Admission, Admit, Reuse
  <2>4. CASE QueryFails(p) \/ Crash(p)
    BY <1>1, <2>4 DEF QueryFails, Crash
  <2>5. CASE p = Front /\ Request
    BY <1>1, <2>5 DEF Request, Receive, Persist, Ignore, FinishReplay
  <2>6. CASE p = Front /\ PlanAttempt
    BY <1>1, <2>6 DEF PlanAttempt, StartAttempt, LoadPlan, LookUp, Recover, FinishPlan
  <2> QED
    BY <1>2, <2>1, <2>2, <2>3, <2>4, <2>5, <2>6 DEF Act
<1>3. CASE Elsewhere \/ UNCHANGED vars
  BY <1>1, <1>3 DEF Elsewhere, Outcome, TaskEnds, IssueCloses, Switch, LeaseExpires, vars
<1> QED
  BY <1>2, <1>3, Actors

LEMMA TypedStep ==
  ASSUME TypeOK, Places, [Next]_vars
  PROVE  TypeOK'
<1>1. MeTyped'
  <2>1. CASE \E p \in Procs : Act(p)
    BY <2>1, MeMoves
  <2>2. CASE Elsewhere \/ UNCHANGED vars
    BY <2>2 DEF Elsewhere, Outcome, TaskEnds, IssueCloses, Switch, LeaseExpires, vars,
                TypeOK, MeTyped
  <2> QED
    BY <2>1, <2>2, Actors
<1>2. active' \in BOOLEAN
  BY Static DEF TypeOK, Switch
<1>3. /\ RowTyped' /\ WorkTyped' /\ ToldTyped'
      /\ entry' \in {"ingress", "replay", "plan"} /\ mode' \in {"create_issue", "run_only"}
  BY Static, RowMoves, RowsTyped, ToldMoves DEF TypeOK
<1>4. faults' \in (0..Bound)'
  BY Static, FaultsTyped
<1> QED
  BY <1>1, <1>2, <1>3, <1>4 DEF TypeOK, RowTyped, WorkTyped, MeTyped, ToldTyped

-----------------------------------------------------------------------------
(* Places.                                                                 *)

LEMMA InitPlaces == Init => Places
<1> SUFFICES ASSUME Init PROVE Places
  OBVIOUS
<1>1. \A p \in Procs : me[p].at = "idle" /\ me[p].out = "none"
  BY DEF Init, Idle, Doing
<1> QED
  BY <1>1 DEF Init, Places, Procs

LEMMA WorkerPlaces ==
  ASSUME TypeOK, Places, NEW w \in Workers, Act(w)
  PROVE  entry # "plan" /\ me'[w].at \notin {"persist", "decide", "recover"}
<1>1. w \in Procs /\ w # Front
  BY DispatchAssumption DEF Procs
<1>2. /\ me[w].at \notin {"persist", "decide", "recover"}
      /\ entry = "plan" => me[w].at = "idle"
  BY DEF Places
<1>3. Anchored \subseteq DOMAIN runs /\ DOMAIN runs \subseteq Nat /\ DOMAIN tasks \subseteq Nat
  BY DEF Anchored, TypeOK
<1>4. Len(issues) + 1 \in Nat /\ Len(tasks) + 1 \in Nat /\ Len(runs) + 1 \in Nat
  BY DEF TypeOK
<1>5. MeTyped /\ me[w] \in Work
  BY <1>1 DEF TypeOK, MeTyped
<1> USE DEF Keeps, Starts, Ends, Left, First
<1>6. CASE Process(w)
  <2>1. CASE Claim(w)
    BY <1>1, <2>1, MovesOf DEF Claim, Steps
  <2>2. CASE Load(w)
    BY <1>1, <1>2, <1>5, <2>2, MovedOn DEF Load, Steps, TypeOK
  <2>3. CASE Check(w)
    BY <1>1, <1>2, <1>3, <2>3, MovesOf, CheckMoves DEF Check, Steps, Outs
  <2>4. CASE Find(w)
    BY <1>1, <1>2, <2>4, FindMoves DEF Find
  <2>5. CASE Repair(w)
    BY <1>1, <1>2, <2>5, MovesOf DEF Repair, Steps
  <2>6. CASE Defer(w) \/ FinishDelivery(w)
    BY <1>1, <1>2, <2>6, MovesOf DEF Defer, FinishDelivery
  <2> QED
    BY <1>6, <2>1, <2>2, <2>3, <2>4, <2>5, <2>6 DEF Process
<1>7. CASE Dispatch(w)
  <2>1. CASE CreateIssue(w)
    BY <1>1, <1>2, <1>4, <1>5, <2>1, MovedIssue DEF CreateIssue, Steps
  <2>2. CASE CreateTask(w)
    BY <1>1, <1>2, <1>4, <1>5, <2>2, MovedTask DEF CreateTask, Steps
  <2>3. CASE Conflict(w)
    BY <1>1, <1>2, <2>3, Errs DEF Conflict
  <2>4. CASE Duplicate(w) \/ NotReady(w)
    BY <1>1, <1>2, <2>4, MovesOf DEF Duplicate, NotReady, Steps
  <2>5. CASE Enqueue(w) \/ Link(w) \/ SkipRun(w) \/ FailRun(w)
    BY <1>1, <1>2, <2>5, MovesOf DEF Enqueue, Link, SkipRun, FailRun, Outs
  <2> QED
    BY <1>7, <2>1, <2>2, <2>3, <2>4, <2>5 DEF Dispatch
<1>8. CASE Admission(w)
  <2>1. CASE Reuse(w)
    BY <1>1, <1>2, <1>3, <2>1, CheckMoves DEF Reuse
  <2>2. ASSUME NEW s \in {"skipped", Initial}, Admit(w, s)
        PROVE  entry # "plan" /\ me'[w].at \notin {"persist", "decide", "recover"}
    BY <1>1, <1>2, <1>4, <2>2, MovesOf DEF Admit, Outs
  <2> QED
    BY <1>8, <2>1, <2>2 DEF Admission
<1>9. CASE QueryFails(w) \/ Crash(w)
  BY <1>1, <1>2, <1>9, MovesOf, Errs DEF QueryFails, Crash
<1> QED
  BY <1>1, <1>6, <1>7, <1>8, <1>9 DEF Act

\* What Places says of the front.
FrontPlaces ==
    /\ me[Front].at \notin {"find", "relink", "repair", "reenqueue"}
    /\ me[Front].out # "retry"
    /\ entry # "plan" => me[Front].at \notin {"load", "check", "recover"}
    /\ entry = "plan" =>
          /\ me[Front].at \notin {"persist", "decide"}
          /\ me[Front].at # "idle" => status = "queued"
          /\ answer = "none"
    /\ entry = "ingress" => me[Front].at \in {"idle", "persist", "decide", "insert"}

LEMMA FrontMoves ==
  ASSUME TypeOK, Places, Act(Front)
  PROVE  FrontPlaces'
<1>1. Front \in Procs /\ Front \notin Workers /\ FrontPlaces
  BY DispatchAssumption DEF Procs, Places, FrontPlaces
<1>2. Anchored \subseteq DOMAIN runs /\ DOMAIN runs \subseteq Nat /\ DOMAIN tasks \subseteq Nat
  BY DEF Anchored, TypeOK
<1>3. Len(issues) + 1 \in Nat /\ Len(tasks) + 1 \in Nat /\ Len(runs) + 1 \in Nat
  BY DEF TypeOK
<1>4. MeTyped /\ me[Front] \in Work
  BY <1>1 DEF TypeOK, MeTyped
<1> USE DEF Keeps, Starts, Ends, Left, First, FrontPlaces, row, told
<1>5. CASE Dispatch(Front)
  <2>1. CASE CreateIssue(Front)
    BY <1>1, <1>3, <1>4, <2>1, MovedIssue DEF CreateIssue, Steps
  <2>2. CASE CreateTask(Front)
    BY <1>1, <1>3, <1>4, <2>2, MovedTask DEF CreateTask, Steps
  <2>3. CASE Conflict(Front)
    BY <1>1, <2>3, Errs DEF Conflict
  <2>4. CASE Duplicate(Front) \/ NotReady(Front)
    BY <1>1, <2>4, MovesOf DEF Duplicate, NotReady, Steps
  <2>5. CASE Enqueue(Front) \/ Link(Front) \/ SkipRun(Front) \/ FailRun(Front)
    BY <1>1, <2>5, MovesOf DEF Enqueue, Link, SkipRun, FailRun, Outs
  <2> QED
    BY <1>5, <2>1, <2>2, <2>3, <2>4, <2>5 DEF Dispatch
<1>6. CASE Admission(Front)
  <2>1. CASE Reuse(Front)
    BY <1>1, <2>1, MovesOf DEF Reuse
  <2>2. ASSUME NEW s \in {"skipped", Initial}, Admit(Front, s) PROVE FrontPlaces'
    BY <1>1, <1>3, <2>2, MovesOf DEF Admit, Outs
  <2> QED
    BY <1>6, <2>1, <2>2 DEF Admission
<1>7. CASE QueryFails(Front) \/ Crash(Front)
  BY <1>1, <1>7, MovesOf, Errs DEF QueryFails, Crash
<1>8. CASE Request
  <2>1. CASE Receive
    BY <1>1, <1>4, <2>1, MovedOn DEF Receive, Steps, TypeOK
  <2>2. CASE Persist \/ Ignore \/ FinishReplay
    BY <1>1, <2>2, MovesOf DEF Persist, Ignore, FinishReplay, Steps
  <2> QED
    BY <1>8, <2>1, <2>2 DEF Request
<1>9. CASE PlanAttempt
  <2>1. CASE LookUp
    BY <1>1, <2>1, LookUpMoves DEF LookUp
  <2>2. CASE StartAttempt \/ LoadPlan \/ Recover \/ FinishPlan
    BY <1>1, <2>2, MovesOf DEF StartAttempt, LoadPlan, Recover, FinishPlan, Steps, Outs
  <2> QED
    BY <1>9, <2>1, <2>2 DEF PlanAttempt
<1> QED
  BY <1>1, <1>5, <1>6, <1>7, <1>8, <1>9 DEF Act

LEMMA PlacesStep ==
  ASSUME TypeOK, Places, [Next]_vars
  PROVE  Places'
<1>1. entry' = entry /\ Workers \subseteq Procs /\ Front \in Procs /\ Front \notin Workers
  BY Static, DispatchAssumption DEF Procs
<1>2. ASSUME NEW w \in Workers, Act(w) PROVE Places'
  <2>1. Others(w) /\ entry # "plan" /\ me'[w].at \notin {"persist", "decide", "recover"}
    BY <1>1, <1>2, WorkerPlaces, MeMoves
  <2> QED
    BY <1>1, <2>1 DEF Places, Others
<1>3. CASE Act(Front)
  <2>1. Others(Front) /\ FrontPlaces'
    BY <1>1, <1>3, FrontMoves, MeMoves
  <2> QED
    BY <1>1, <2>1 DEF Places, Others, FrontPlaces
<1>4. CASE Elsewhere \/ UNCHANGED vars
  BY <1>4 DEF Elsewhere, Outcome, TaskEnds, IssueCloses, Switch, LeaseExpires, vars, Places,
              row, told
<1> QED
  BY <1>2, <1>3, <1>4, Actors DEF Procs

\* Every reachable state is well typed: rows, runs, issues and tasks are ones the
\* tables can hold, and each process is at a statement the code has.
THEOREM TypeCorrect == Spec => []TypeOK
<1>1. Init => TypeOK /\ Places
  BY InitTyped, InitPlaces
<1>2. TypeOK /\ Places /\ [Next]_vars => TypeOK' /\ Places'
  BY TypedStep, PlacesStep
<1> QED
  BY <1>1, <1>2, PTL DEF Spec

-----------------------------------------------------------------------------
(* An accepted delivery.                                                   *)

\* No run goes away, and only a plan gives one up.
LEMMA RunsStay ==
  ASSUME TypeOK, Places, [Next]_vars, NEW r \in DOMAIN runs
  PROVE  r \in DOMAIN runs' /\ (entry # "plan" => runs'[r].anchored = runs[r].anchored)
<1>1. WorkTyped /\ MeTyped /\ runs \in Seq(Run)
  BY DEF TypeOK, WorkTyped, MeTyped
<1> DEFINE Goal == r \in DOMAIN runs' /\ (entry # "plan" => runs'[r].anchored = runs[r].anchored)
<1>2. ASSUME NEW p \in Procs, Writes(p) PROVE Goal
  <2>1. CASE CreateIssue(p)
    <3>1. Len(issues) + 1 \in Nat
      BY <1>1 DEF WorkTyped
    <3> QED
      BY <1>1, <2>1, <3>1, IssueLinked DEF CreateIssue, Rewritten
  <2>2. CASE Enqueue(p) \/ CreateTask(p)
    BY <2>2 DEF Enqueue, CreateTask
  <2>3. CASE Link(p)
    <3>1. me[p].task \in Nat
      BY <1>1 DEF MeTyped, Work
    <3> QED
      BY <1>1, <2>3, <3>1, TaskLinked DEF Link, Rewritten
  <2>4. CASE SkipRun(p) \/ FailRun(p)
    BY <1>1, <2>4, StatusSet DEF SkipRun, FailRun, Rewritten, RunStates, Kin
  <2>5. ASSUME NEW s \in {"skipped", Initial}, Admit(p, s) PROVE Goal
    BY <1>1, <2>5, RunAdded DEF Admit
  <2>6. CASE Recover
    BY <1>1, <2>6, RunGivenUp DEF Recover, Rewritten, Places
  <2> QED
    BY <1>2, <2>1, <2>2, <2>3, <2>4, <2>5, <2>6 DEF Writes
<1>3. CASE Outcome
  <2>1. ASSUME NEW t \in DOMAIN tasks, NEW s \in {"completed", "failed"}, TaskEnds(t, s)
        PROVE  Goal
    BY <1>1, <2>1, EndingTask DEF Rewritten, Kin
  <2>2. ASSUME NEW i \in DOMAIN issues, NEW s \in {"completed", "failed"}, IssueCloses(i, s)
        PROVE  Goal
    BY <1>1, <2>2, ClosingIssue DEF Rewritten, Kin
  <2> QED
    BY <1>3, <2>1, <2>2 DEF Outcome
<1>4. CASE UNCHANGED <<runs, issues, tasks>>
  BY <1>4
<1>5. CASE Switch \/ LeaseExpires \/ UNCHANGED vars
  BY <1>5 DEF Switch, LeaseExpires, vars, work
<1> QED
  BY <1>2, <1>3, <1>4, <1>5, Actors, Writers DEF Elsewhere

LEMMA AnchoredStays ==
  ASSUME TypeOK, Places, [Next]_vars, entry # "plan", Anchored # {}
  PROVE  Anchored' # {}
BY RunsStay DEF Anchored

LEMMA InitKept == Init => Kept
<1> SUFFICES ASSUME Init PROVE Kept
  OBVIOUS
<1>1. \A p \in Procs : me[p].at = "idle" /\ me[p].out = "none"
  BY DEF Init, Idle, Doing
<1>2. \A p \in Workers : p \in Procs
  BY DEF Procs
<1> QED
  BY <1>1, <1>2 DEF Init, Kept

\* A worker leaves the answer alone, and ignores a delivery only if it has seen
\* the trigger off and no run.
LEMMA WorkerKeeps ==
  ASSUME TypeOK, NEW w \in Workers, Act(w)
  PROVE  /\ UNCHANGED <<answer, early, active>>
         /\ me'[w].at = "check" => me'[w].on = active
         /\ status' = "ignored" => status = "ignored" \/ me[w].out = "ignored"
         /\ me'[w].out = "ignored" =>
               me[w].out = "ignored" \/ (me[w].at = "check" /\ Anchored = {} /\ ~me[w].on)
<1>1. w \in Procs /\ w # Front
  BY DispatchAssumption DEF Procs
<1>2. Anchored \subseteq DOMAIN runs /\ DOMAIN runs \subseteq Nat /\ DOMAIN tasks \subseteq Nat
  BY DEF Anchored, TypeOK
<1>3. Len(issues) + 1 \in Nat /\ Len(tasks) + 1 \in Nat /\ Len(runs) + 1 \in Nat
  BY DEF TypeOK
<1>4. MeTyped /\ me[w] \in Work
  BY <1>1 DEF TypeOK, MeTyped
<1> DEFINE Goal ==
         /\ UNCHANGED <<answer, early, active>>
         /\ me'[w].at = "check" => me'[w].on = active
         /\ status' = "ignored" => status = "ignored" \/ me[w].out = "ignored"
         /\ me'[w].out = "ignored" =>
               me[w].out = "ignored" \/ (me[w].at = "check" /\ Anchored = {} /\ ~me[w].on)
<1> USE DEF Keeps, Starts, Ends, Left, First, row, told
<1>5. CASE Process(w)
  <2>1. CASE Claim(w)
    BY <1>1, <2>1, MovesOf DEF Claim, Steps
  <2>2. CASE Load(w)
    BY <1>1, <1>4, <2>2, MovedOn DEF Load, Steps, TypeOK
  <2>3. CASE Check(w)
    BY <1>1, <1>2, <2>3, MovesOf, CheckMoves DEF Check, Steps, Outs, Settled
  <2>4. CASE Find(w)
    BY <1>1, <2>4, FindMoves DEF Find
  <2>5. CASE Repair(w)
    BY <1>1, <2>5, MovesOf DEF Repair, Steps
  <2>6. CASE Defer(w)
    BY <1>1, <2>6, MovesOf DEF Defer
  <2>7. CASE FinishDelivery(w)
    <3>1. status' = "ignored" => status = "ignored" \/ me[w].out = "ignored"
      BY <2>7 DEF FinishDelivery, Verdict
    <3>2. UNCHANGED <<answer, early, active>> /\ Left(w)
      BY <1>1, <2>7, MovesOf DEF FinishDelivery
    <3> QED
      BY <3>1, <3>2
  <2> QED
    BY <1>5, <2>1, <2>2, <2>3, <2>4, <2>5, <2>6, <2>7 DEF Process
<1>6. CASE Dispatch(w)
  <2>1. CASE CreateIssue(w)
    BY <1>1, <1>3, <1>4, <2>1, MovedIssue DEF CreateIssue, Steps
  <2>2. CASE CreateTask(w)
    BY <1>1, <1>3, <1>4, <2>2, MovedTask DEF CreateTask, Steps
  <2>3. CASE Conflict(w)
    BY <1>1, <2>3, Errs DEF Conflict
  <2>4. CASE Duplicate(w) \/ NotReady(w)
    BY <1>1, <2>4, MovesOf DEF Duplicate, NotReady, Steps
  <2>5. CASE Enqueue(w) \/ Link(w) \/ SkipRun(w) \/ FailRun(w)
    BY <1>1, <2>5, MovesOf DEF Enqueue, Link, SkipRun, FailRun, Outs
  <2> QED
    BY <1>6, <2>1, <2>2, <2>3, <2>4, <2>5 DEF Dispatch
<1>7. CASE Admission(w)
  <2>1. CASE Reuse(w)
    BY <1>1, <1>2, <2>1, CheckMoves DEF Reuse, Settled
  <2>2. ASSUME NEW s \in {"skipped", Initial}, Admit(w, s) PROVE Goal
    BY <1>1, <1>3, <2>2, MovesOf DEF Admit, Outs
  <2> QED
    BY <1>7, <2>1, <2>2 DEF Admission
<1>8. CASE QueryFails(w) \/ Crash(w)
  BY <1>1, <1>8, MovesOf, Errs DEF QueryFails, Crash
<1> QED
  BY <1>1, <1>5, <1>6, <1>7, <1>8 DEF Act

LEMMA WorkerKept ==
  ASSUME TypeOK, Places, Kept, [Next]_vars, NEW w \in Workers, Act(w)
  PROVE  Kept'
<1>1. Workers \subseteq Procs /\ Front \in Procs /\ w # Front
  BY DispatchAssumption DEF Procs
<1>2. entry' = entry /\ entry # "plan"
  BY Static, WorkerPlaces
<1>3. Others(w)
  BY <1>1, MeMoves
<1>4. Anchored # {} => Anchored' # {}
  BY <1>2, AnchoredStays
<1>5. (entry = "ingress" /\ me[Front].at # "idle" => answer = "none")'
  BY <1>1, <1>2, <1>3, WorkerKeeps DEF Kept, Others
<1>6. (answer = "accepted" => entry = "ingress" /\ Anchored # {})'
  BY <1>2, <1>4, WorkerKeeps DEF Kept
<1>7. (~early /\ answer = "none" =>
          active /\ \A v \in Workers : me[v].at = "check" => me[v].on)'
  BY <1>1, <1>3, WorkerKeeps DEF Kept, Others
<1>8. (~early /\ answer \in {"none", "accepted"} =>
          status # "ignored" /\ \A p \in Procs : me[p].out # "ignored")'
  <2>1. SUFFICES ASSUME ~early, answer \in {"none", "accepted"}
                 PROVE  status' # "ignored" /\ \A p \in Procs : me'[p].out # "ignored"
    BY WorkerKeeps
  <2>2. status # "ignored" /\ \A p \in Procs : me[p].out # "ignored"
    BY <2>1 DEF Kept
  <2>3. ~(me[w].at = "check" /\ Anchored = {} /\ ~me[w].on)
    BY <2>1 DEF Kept
  <2> QED
    BY <1>1, <1>3, <2>2, <2>3, WorkerKeeps DEF Others
<1> QED
  BY <1>5, <1>6, <1>7, <1>8 DEF Kept

\* The front gives the answer, and has not given it while it is still at work.
LEMMA FrontKeeps ==
  ASSUME TypeOK, Places, Kept, [Next]_vars, Act(Front)
  PROVE  /\ early' = early /\ active' = active
         /\ entry = "ingress" /\ me'[Front].at # "idle" => answer' = "none"
         /\ answer' = "none" => answer = "none"
         /\ answer' = "accepted" =>
               entry = "ingress" /\ Anchored' # {} /\ answer \in {"none", "accepted"}
         /\ ~early /\ answer' \in {"none", "accepted"} =>
               status' # "ignored" /\ me'[Front].out # "ignored"
<1>1. Front \in Procs /\ Front \notin Workers /\ entry' = entry
  BY Static, DispatchAssumption DEF Procs
<1>2. Anchored \subseteq DOMAIN runs /\ DOMAIN runs \subseteq Nat /\ DOMAIN tasks \subseteq Nat
  BY DEF Anchored, TypeOK
<1>3. Len(issues) + 1 \in Nat /\ Len(tasks) + 1 \in Nat /\ Len(runs) + 1 \in Nat
  BY DEF TypeOK
<1>4. MeTyped /\ me[Front] \in Work
  BY <1>1 DEF TypeOK, MeTyped
<1>5. /\ entry = "ingress" /\ me[Front].at # "idle" => answer = "none"
      /\ answer = "accepted" => entry = "ingress" /\ Anchored' # {}
      /\ ~early /\ answer \in {"none", "accepted"} =>
            status # "ignored" /\ me[Front].out # "ignored"
  BY <1>1, AnchoredStays DEF Kept
<1>6. FrontPlaces /\ (~early /\ answer = "none" => active)
  BY DEF Places, FrontPlaces, Kept
<1> DEFINE Goal ==
         /\ early' = early /\ active' = active
         /\ entry = "ingress" /\ me'[Front].at # "idle" => answer' = "none"
         /\ answer' = "none" => answer = "none"
         /\ answer' = "accepted" =>
               entry = "ingress" /\ Anchored' # {} /\ answer \in {"none", "accepted"}
         /\ ~early /\ answer' \in {"none", "accepted"} =>
               status' # "ignored" /\ me'[Front].out # "ignored"
<1> USE DEF Keeps, Starts, Ends, Left, First, FrontPlaces, row, told
<1>7. CASE Dispatch(Front)
  <2>1. CASE CreateIssue(Front)
    BY <1>1, <1>3, <1>4, <1>5, <1>6, <2>1, MovedIssue DEF CreateIssue, Steps
  <2>2. CASE CreateTask(Front)
    BY <1>1, <1>3, <1>4, <1>5, <1>6, <2>2, MovedTask DEF CreateTask, Steps
  <2>3. CASE Conflict(Front)
    BY <1>1, <1>5, <1>6, <2>3, Errs DEF Conflict
  <2>4. CASE Duplicate(Front) \/ NotReady(Front)
    BY <1>1, <1>5, <1>6, <2>4, MovesOf DEF Duplicate, NotReady, Steps
  <2>5. CASE Enqueue(Front) \/ Link(Front) \/ SkipRun(Front) \/ FailRun(Front)
    BY <1>1, <1>5, <1>6, <2>5, MovesOf DEF Enqueue, Link, SkipRun, FailRun, Outs
  <2> QED
    BY <1>7, <2>1, <2>2, <2>3, <2>4, <2>5 DEF Dispatch
<1>8. CASE Admission(Front)
  <2>1. CASE Reuse(Front)
    <3>1. answer = "none" /\ entry = "ingress" /\ Anchored # {}
      BY <1>5, <2>1 DEF Reuse
    <3>2. Left(Front) /\ UNCHANGED <<status, early, active>>
      BY <1>1, <2>1, MovesOf DEF Reuse
    <3>3. answer' \in {"skipped", "accepted"} /\ Anchored' # {}
      BY <1>1, <2>1, <3>1, AnchoredStays DEF Reuse
    <3> QED
      BY <1>5, <3>1, <3>2, <3>3
  <2>2. ASSUME NEW s \in {"skipped", Initial}, Admit(Front, s) PROVE Goal
    <3>1. UNCHANGED <<status, early, active>>
      BY <2>2 DEF Admit
    <3>2. CASE entry = "ingress"
      <4>1. answer = "none" /\ Left(Front) /\ answer' \in {"skipped", "accepted"}
        BY <1>1, <1>5, <2>2, <3>2, MovesOf DEF Admit
      <4>2. Anchors(Front) /\ WorkTyped
        BY <3>2 DEF Anchors, TypeOK, WorkTyped
      <4>3. Anchored' # {}
        BY <2>2, <4>2, RunAdded DEF Admit, Anchored
      <4> QED
        BY <1>5, <3>1, <3>2, <4>1, <4>3
    <3>3. CASE entry # "ingress"
      BY <1>1, <1>3, <1>5, <2>2, <3>1, <3>3, MovesOf DEF Admit, Outs
    <3> QED
      BY <3>2, <3>3
  <2> QED
    BY <1>8, <2>1, <2>2 DEF Admission
<1>9. CASE QueryFails(Front)
  BY <1>1, <1>5, <1>6, <1>9, MovesOf, Errs DEF QueryFails
<1>10. CASE Crash(Front)
  BY <1>1, <1>5, <1>6, <1>10, MovesOf DEF Crash, Release
<1>11. CASE Request
  <2>1. CASE Receive
    <3>1. "persist" \in Steps /\ active \in BOOLEAN
      BY DEF Steps, TypeOK
    <3>2. me'[Front].out = me[Front].out
      BY <1>1, <1>4, <2>1, <3>1, MovedOn DEF Receive
    <3> QED
      BY <1>5, <1>6, <2>1, <3>2 DEF Receive
  <2>2. CASE Persist
    BY <1>1, <1>5, <1>6, <2>2, MovesOf DEF Persist, Steps
  <2>3. CASE Ignore \/ FinishReplay
    BY <1>1, <1>5, <1>6, <2>3, MovesOf DEF Ignore, FinishReplay
  <2> QED
    BY <1>11, <2>1, <2>2, <2>3 DEF Request
<1>12. CASE PlanAttempt
  <2>1. CASE LookUp
    BY <1>1, <1>5, <1>6, <2>1, LookUpMoves DEF LookUp
  <2>2. CASE LoadPlan
    BY <1>1, <1>5, <1>6, <2>2, MovesOf DEF LoadPlan, Steps, Outs
  <2>3. CASE StartAttempt \/ Recover \/ FinishPlan
    BY <1>1, <1>5, <1>6, <2>3, MovesOf DEF StartAttempt, Recover, FinishPlan, Release, Steps
  <2> QED
    BY <1>12, <2>1, <2>2, <2>3 DEF PlanAttempt
<1> QED
  BY <1>1, <1>7, <1>8, <1>9, <1>10, <1>11, <1>12 DEF Act

LEMMA KeptStep ==
  ASSUME TypeOK, Places, Kept, [Next]_vars
  PROVE  Kept'
<1>1. entry' = entry /\ Workers \subseteq Procs /\ Front \in Procs /\ Front \notin Workers
  BY Static, DispatchAssumption DEF Procs
<1>2. ASSUME NEW w \in Workers, Act(w) PROVE Kept'
  BY <1>2, WorkerKept
<1>3. CASE Act(Front)
  <2>1. Others(Front)
    BY <1>1, <1>3, MeMoves
  <2>2. (~early /\ answer = "none" =>
            active /\ \A v \in Workers : me[v].at = "check" => me[v].on)'
    BY <1>1, <1>3, <2>1, FrontKeeps DEF Kept, Others
  <2>3. (~early /\ answer \in {"none", "accepted"} =>
            status # "ignored" /\ \A p \in Procs : me[p].out # "ignored")'
    <3>1. ~early /\ answer' \in {"none", "accepted"} => answer \in {"none", "accepted"}
      BY <1>3, FrontKeeps
    <3> QED
      BY <1>1, <1>3, <2>1, <3>1, FrontKeeps DEF Kept, Others
  <2> QED
    BY <1>1, <1>3, <2>2, <2>3, FrontKeeps DEF Kept
<1>4. CASE Switch
  <2>1. early' = (early \/ (active /\ answer = "none")) /\ answer' = answer
        /\ UNCHANGED <<status, me, runs>>
    BY <1>4 DEF Switch, row, work
  <2> QED
    BY <1>1, <2>1 DEF Kept, Anchored
<1>5. CASE Outcome \/ LeaseExpires \/ UNCHANGED vars
  <2>1. UNCHANGED <<status, me, answer, early, active>>
    BY <1>5 DEF Outcome, TaskEnds, IssueCloses, LeaseExpires, vars, row, told
  <2>2. entry # "plan" /\ Anchored # {} => Anchored' # {}
    BY AnchoredStays
  <2> QED
    BY <1>1, <2>1, <2>2 DEF Kept
<1> QED
  BY <1>2, <1>3, <1>4, <1>5, Actors DEF Procs, Elsewhere

\* A sender who was told that its event is accepted, with the trigger on until
\* then, has a delivery that is never ignored: no worker that looked for the run
\* before ingress inserted it drops the delivery, whoever switches the trigger off
\* afterwards and however many workers there are.
THEOREM AcceptedDeliveriesAreKept == Spec => []AcceptedIsKept
<1>1. Init => TypeOK /\ Places /\ Kept
  BY InitTyped, InitPlaces, InitKept
<1>2. TypeOK /\ Places /\ Kept /\ [Next]_vars => TypeOK' /\ Places' /\ Kept'
  BY TypedStep, PlacesStep, KeptStep
<1>3. Kept => AcceptedIsKept
  BY DEF Kept, AcceptedIsKept
<1> QED
  BY <1>1, <1>2, <1>3, PTL DEF Spec

-----------------------------------------------------------------------------
(* Runs, issues and tasks.                                                 *)

LEMMA InitWork == Init => WorkInv
<1> SUFFICES ASSUME Init PROVE WorkInv
  OBVIOUS
<1>1. \A p \in Procs : me[p].at = "idle"
  BY DEF Init, Idle, Doing
<1>2. runs = <<>> /\ issues = <<>> /\ tasks = <<>> /\ status # "dispatched"
  BY DEF Init
<1>3. Rows
  BY <1>2 DEF Rows
<1>4. \A p \in Procs : Owns(p) /\ InMode(p) /\ Holds(p) /\ Accounts(p)
  BY <1>1 DEF Owns, InMode, Holds, Accounts, Running, OfIssue, OfTask, Linked, Before, Unspent
<1>5. Alone /\ Once
  BY <1>1, <1>2 DEF Alone, Once, Procs
<1> QED
  BY <1>2, <1>3, <1>4, <1>5 DEF WorkInv

\* No two processes have one run in hand.
LEMMA Apart ==
  ASSUME Places, WorkInv, ~shared, NEW p \in Procs, NEW q \in Procs, p # q,
         me[p].at \in Running, me[q].at \in Running, TypeOK
  PROVE  me[p].run # me[q].run
<1>1. Owns(p) /\ Owns(q) /\ Alone
  BY DEF WorkInv
<1>2. CASE p \in Workers /\ q \in Workers
  BY <1>1, <1>2 DEF Alone, Running
<1>3. CASE p = Front /\ q \in Workers
  BY <1>1, <1>3 DEF Owns, Places, Running, TypeOK
<1>4. CASE q = Front /\ p \in Workers
  BY <1>1, <1>4 DEF Owns, Places, Running, TypeOK
<1> QED
  BY <1>2, <1>3, <1>4 DEF Procs

\* A step that leaves the rows of work alone.
LEMMA OnlyMoves ==
  ASSUME TypeOK, WorkInv, NEW p \in Procs, Others(p),
         UNCHANGED <<entry, mode, runs, issues, tasks>>,
         shared => shared',
         Owns(p)', InMode(p)',
         ~shared' => /\ Alone' /\ Holds(p)' /\ Accounts(p)'
                     /\ status' = "dispatched" => Accounted
  PROVE  WorkInv'
<1>1. Rows' /\ (~shared' => Once')
  BY DEF WorkInv, Rows, Once
<1>2. \A q \in Procs : Owns(q)' /\ InMode(q)'
  BY DEF WorkInv, Owns, InMode, Others
<1>3. Accounted' = Accounted
  BY DEF Accounted, Anchored
<1>4. ASSUME ~shared', NEW q \in Procs PROVE Holds(q)' /\ Accounts(q)'
  <2>1. CASE q = p
    BY <1>4, <2>1
  <2>2. CASE q # p
    <3>1. me'[q] = me[q] /\ Holds(q) /\ Accounts(q)
      BY <1>4, <2>2 DEF WorkInv, Others
    <3> QED
      BY <1>3, <3>1 DEF Holds, Accounts
  <2> QED
    BY <2>1, <2>2
<1> QED
  BY <1>1, <1>2, <1>3, <1>4 DEF WorkInv

\* A process without a run in hand holds to everything but, at the end, its account.
LEMMA Free ==
  ASSUME NEW p \in Procs, me'[p].at \notin Running
  PROVE  Owns(p)' /\ InMode(p)' /\ Holds(p)'
BY DEF Owns, InMode, Holds, Running, OfIssue, OfTask, Linked, Before, Unspent

\* A busy process is as alone after its step as it was before.
LEMMA StaysAlone ==
  ASSUME NEW p \in Procs, Alone, Others(p), p \in Workers => me[p].at # "idle"
  PROVE  Alone'
BY DEF Alone, Others, Procs

\* What DispatchAutopilotForWebhookDelivery does with the run of its delivery.
LEMMA Resumed ==
  ASSUME TypeOK, WorkInv, NEW w \in Workers, NEW r \in Anchored, Resume(w, r),
         UNCHANGED <<entry, mode, runs, issues, tasks>>
  PROVE  /\ Owns(w)' /\ InMode(w)'
         /\ ~shared => Holds(w)' /\ Accounts(w)'
<1>1. w \in Procs /\ w # Front /\ r \in DOMAIN runs /\ runs[r].anchored /\ runs[r] \in Run
  BY DispatchAssumption DEF Procs, Anchored, TypeOK
<1>2. Rows /\ (~shared => Once)
  BY DEF WorkInv
<1> USE DEF Starts, Ends, First
<1>3. CASE ~Complete(runs[r]) /\ Starts(w, First(w), r, 0, "dispatched")
  <2>1. runs[r].status # "skipped" /\ (mode = "create_issue" => runs[r].issue = 0)
    BY <1>1, <1>2, <1>3 DEF Complete, Rows, Run, RunStates
  <2>2. ~shared /\ mode = "create_issue" => \A t \in DOMAIN tasks : tasks[t].run # r
    BY <1>2, <2>1 DEF Once
  <2>3. me'[w].at = (IF mode = "create_issue" THEN "issue" ELSE "find")
    BY <1>3
  <2>4. Owns(w)'
    BY <1>1, <1>3 DEF Owns
  <2>5. InMode(w)'
    BY <1>3, <2>3 DEF InMode, OfIssue, OfTask, Linked, TypeOK
  <2>6. ~shared => Holds(w)' /\ Accounts(w)'
    BY <1>3, <2>1, <2>2, <2>3 DEF Holds, Accounts, Linked, Before
  <2> QED
    BY <2>4, <2>5, <2>6
<1>4. CASE Complete(runs[r]) /\ runs[r].issue # 0
           /\ Starts(w, "repair", r, runs[r].issue, Settled(r))
  <2>1. mode = "create_issue" /\ runs[r].issue \in DOMAIN issues
    BY <1>1, <1>2, <1>4 DEF Rows, TypeOK
  <2> QED
    BY <1>1, <1>4, <2>1
       DEF Owns, InMode, Holds, Accounts, OfTask, Before, Unspent
<1>5. CASE Complete(runs[r]) /\ runs[r].issue = 0 /\ Ends(w, Settled(r))
  <2>1. Settled(r) = "dispatched" => Accounted
    BY <1>1, <1>2, <1>5 DEF Settled, Complete, Rows, Accounted
  <2>2. Accounted' = Accounted
    BY DEF Accounted, Anchored
  <2>3. me'[w].at \notin Running
    BY <1>5 DEF Running
  <2> QED
    BY <1>1, <1>5, <2>1, <2>2, <2>3, Free DEF Accounts
<1> QED
  BY <1>1, <1>3, <1>4, <1>5, CheckMoves

\* A step on which a process only leaves a run, or ends without an account.
LEMMA LetsGo ==
  ASSUME TypeOK, WorkInv, NEW p \in Procs, Others(p),
         UNCHANGED <<entry, mode, runs, issues, tasks, shared>>,
         me[p].at # "idle" \/ p = Front,
         me'[p].at \notin Running,
         me'[p].at = "finish" /\ me'[p].out = "dispatched" => Accounted \/ shared,
         status' = "dispatched" =>
            status = "dispatched" \/ (me[p].at = "finish" /\ me[p].out = "dispatched")
  PROVE  WorkInv'
<1>1. Owns(p)' /\ InMode(p)' /\ Holds(p)'
  BY Free
<1>2. Accounted' = Accounted
  BY DEF Accounted, Anchored
<1>3. ASSUME ~shared PROVE Alone' /\ Accounts(p)' /\ (status' = "dispatched" => Accounted)
  <2>1. Alone /\ Accounts(p) /\ (status = "dispatched" => Accounted)
    BY <1>3 DEF WorkInv
  <2>2. Alone'
    <3>1. CASE me[p].at # "idle"
      BY <2>1, <3>1, StaysAlone
    <3>2. CASE p = Front
      BY <2>1, <3>2, StaysAlone, DispatchAssumption
    <3> QED
      BY <3>1, <3>2
  <2> QED
    BY <1>2, <1>3, <2>1, <2>2 DEF Accounts
<1> QED
  BY <1>1, <1>3, OnlyMoves

\* A step on which it goes on with its run, or takes one.
LEMMA GoesOn ==
  ASSUME TypeOK, WorkInv, NEW p \in Procs, Others(p),
         UNCHANGED <<entry, mode, runs, issues, tasks, shared, status>>,
         me[p].at # "idle",
         Owns(p)', InMode(p)', ~shared => Holds(p)' /\ Accounts(p)'
  PROVE  WorkInv'
<1>1. ASSUME ~shared PROVE Alone' /\ (status' = "dispatched" => Accounted)
  BY <1>1, StaysAlone DEF WorkInv
<1> QED
  BY <1>1, OnlyMoves

LEMMA WorkerSteps ==
  ASSUME TypeOK, WorkInv, NEW w \in Workers, Process(w)
  PROVE  WorkInv'
<1>1. w \in Procs /\ Act(w) /\ w # Front
  BY DispatchAssumption DEF Procs, Act
<1>2. Others(w)
  BY <1>1, MeMoves
<1>3. Owns(w) /\ InMode(w) /\ (~shared => Holds(w) /\ Accounts(w) /\ Once) /\ Rows
  BY <1>1 DEF WorkInv
<1> USE DEF Keeps, Starts, Ends, Left, row, work, told
<1>4. CASE Claim(w)
  <2>1. Keeps(w, "load") /\ UNCHANGED <<entry, mode, runs, issues, tasks, status>>
    BY <1>1, <1>4, MovesOf DEF Claim, Steps
  <2>2. shared' = (shared \/ \E v \in Workers \ {w} : me[v].at # "idle")
    BY <1>4 DEF Claim
  <2>3. Owns(w)' /\ InMode(w)' /\ Holds(w)'
    BY <1>1, <2>1, Free DEF Running
  <2>4. ASSUME ~shared'
        PROVE  Alone' /\ Accounts(w)' /\ (status' = "dispatched" => Accounted)
    <3>1. ~shared /\ \A v \in Workers \ {w} : me[v].at = "idle"
      BY <2>2, <2>4
    <3>2. Alone'
      BY <1>2, <3>1 DEF Alone, Others, Procs
    <3> QED
      BY <2>1, <3>1, <3>2 DEF Accounts, WorkInv
  <2> QED
    BY <1>1, <1>2, <2>1, <2>2, <2>3, <2>4, OnlyMoves
<1>5. CASE Defer(w)
  BY <1>1, <1>2, <1>5, MovesOf, LetsGo DEF Defer, Running
<1>6. CASE Load(w)
  <2>1. me'[w].at = "check"
    BY <1>1, <1>6, MovedOn DEF Load, Steps, TypeOK, MeTyped
  <2> QED
    BY <1>1, <1>2, <1>6, <2>1, LetsGo DEF Load, Running
<1>7. CASE Check(w)
  <2>1. UNCHANGED <<entry, mode, runs, issues, tasks, shared, status>> /\ me[w].at = "check"
    BY <1>7 DEF Check
  <2>2. CASE \E r \in Anchored : Resume(w, r)
    BY <1>1, <1>2, <2>1, <2>2, Resumed, GoesOn
  <2>3. CASE Goto(w, "insert") \/ Conclude(w, "ignored")
    <3>1. me'[w].at \in {"insert", "finish"} /\ (me'[w].at = "finish" => me'[w].out = "ignored")
      BY <1>1, <2>3, MovesOf DEF Steps, Outs
    <3> QED
      BY <1>1, <1>2, <2>1, <3>1, LetsGo DEF Running
  <2> QED
    BY <1>7, <2>2, <2>3 DEF Check
<1>8. CASE Find(w)
  <2>1. UNCHANGED <<entry, mode, runs, issues, tasks, shared, status>> /\ me[w].at = "find"
    BY <1>8 DEF Find
  <2>2. /\ me'[w].run = me[w].run
        /\ \/ me'[w].at = "relink" /\ tasks # <<>>
           \/ me'[w].at = "task" /\ \A t \in DOMAIN tasks : tasks[t].run # me[w].run
    BY <1>8, FindMoves
  <2>3. me[w].run \in DOMAIN runs /\ runs[me[w].run].anchored /\ mode = "run_only"
    BY <1>3, <2>1 DEF Owns, InMode, Running, OfTask
  <2>4. ~shared => runs[me[w].run].status # "skipped"
    BY <1>3, <2>1 DEF Holds, Unspent
  <2>5. Owns(w)' /\ InMode(w)'
    BY <1>1, <2>1, <2>2, <2>3 DEF Owns, InMode, OfIssue, OfTask, Linked
  <2>6. ~shared => Holds(w)' /\ Accounts(w)'
    BY <2>1, <2>2, <2>4 DEF Holds, Accounts, Linked, Before, Unspent
  <2> QED
    BY <1>1, <1>2, <2>1, <2>5, <2>6, GoesOn
<1>9. CASE Repair(w)
  <2>1. UNCHANGED <<entry, mode, runs, issues, tasks, shared, status>> /\ me[w].at = "repair"
    BY <1>9 DEF Repair
  <2>2. /\ me[w].run \in DOMAIN runs /\ runs[me[w].run].anchored /\ mode = "create_issue"
        /\ me[w].issue \in DOMAIN issues
        /\ ~shared => me[w].issue = runs[me[w].run].issue
    BY <1>3, <2>1 DEF Owns, InMode, Holds, Running, OfIssue, Linked
  <2>3. CASE /\ Finish(w)
             /\ \/ \E t \in DOMAIN tasks : tasks[t].issue = me[w].issue
                \/ issues[me[w].issue] = "closed"
    <3>1. Accounted
      BY <2>2, <2>3 DEF Accounted
    <3>2. Ends(w, me[w].out)
      BY <1>1, <2>3, MovesOf
    <3> QED
      BY <1>1, <1>2, <2>1, <3>1, <3>2, LetsGo DEF Running
  <2>4. CASE Goto(w, "reenqueue") /\ \A t \in DOMAIN tasks : tasks[t].issue # me[w].issue
    <3>1. Keeps(w, "reenqueue")
      BY <1>1, <2>4, MovesOf DEF Steps
    <3>2. ~shared => \A t \in DOMAIN tasks : tasks[t].run # me[w].run
      BY <1>3, <2>2, <2>4 DEF Once
    <3>3. Owns(w)' /\ InMode(w)'
      BY <1>1, <2>1, <2>2, <3>1 DEF Owns, InMode, OfTask
    <3>4. ~shared => Holds(w)' /\ Accounts(w)'
      BY <2>1, <2>2, <3>1, <3>2 DEF Holds, Accounts, Unspent
    <3> QED
      BY <1>1, <1>2, <2>1, <3>3, <3>4, GoesOn
  <2> QED
    BY <1>9, <2>3, <2>4 DEF Repair
<1>10. CASE FinishDelivery(w)
  <2>1. /\ UNCHANGED <<entry, mode, runs, issues, tasks, shared>> /\ me[w].at = "finish"
        /\ Left(w)
    BY <1>1, <1>10, MovesOf DEF FinishDelivery
  <2>2. status' = "dispatched" => status = "dispatched" \/ me[w].out = "dispatched"
    BY <1>10 DEF FinishDelivery, Verdict
  <2> QED
    BY <1>1, <1>2, <2>1, <2>2, LetsGo DEF Running
<1> QED
  BY <1>4, <1>5, <1>6, <1>7, <1>8, <1>9, <1>10 DEF Process

\* A failed statement, and a conflict, which is one.
LEMMA ErrorSteps ==
  ASSUME TypeOK, WorkInv, NEW p \in Procs, OnError(p, me[p].at),
         UNCHANGED <<entry, mode, runs, issues, tasks, shared, status>>
  PROVE  WorkInv'
<1>1. Others(p) /\ me[p].at # "idle"
  BY Errs
<1>2. Owns(p) /\ InMode(p) /\ (~shared => Holds(p))
  BY DEF WorkInv
<1> USE DEF Keeps, Starts, Ends
<1>3. CASE me[p].at \in {"issue", "enqueue", "task", "skip"} /\ Keeps(p, "fail")
  <2>1. /\ me[p].run \in DOMAIN runs
        /\ p \in Workers => runs[me[p].run].anchored
        /\ p = Front /\ entry = "replay" => ~runs[me[p].run].anchored
        /\ ~shared => runs[me[p].run].status # "skipped"
    BY <1>2, <1>3 DEF Owns, Holds, Running, Unspent
  <2>2. Owns(p)' /\ InMode(p)'
    BY <1>3, <2>1 DEF Owns, InMode, OfIssue, OfTask, Linked
  <2>3. ~shared => Holds(p)' /\ Accounts(p)'
    BY <1>3, <2>1 DEF Holds, Accounts, Linked, Before
  <2> QED
    BY <1>1, <2>2, <2>3, GoesOn
<1>4. CASE me[p].at = "link" /\ Ends(p, me[p].out)
  <2>1. Accounted
    BY <1>2, <1>4 DEF InMode, Accounted
  <2> QED
    BY <1>1, <1>4, <2>1, LetsGo DEF Running
<1>5. CASE Ends(p, "failed") \/ Ends(p, "retry")
  BY <1>1, <1>5, LetsGo DEF Running
<1> QED
  BY <1>3, <1>4, <1>5, Errs

LEMMA FaultSteps ==
  ASSUME TypeOK, Places, WorkInv, NEW p \in Procs, QueryFails(p) \/ Crash(p)
  PROVE  WorkInv'
<1> USE DEF work, told, row
<1>1. UNCHANGED <<entry, mode, runs, issues, tasks, shared>> /\ Others(p)
  <2>1. Act(p)
    BY DEF Act
  <2> QED
    BY <2>1, MeMoves DEF QueryFails, Crash
<1>2. ASSUME me[p].at # "idle" \/ p = Front, Left(p),
             status' # "dispatched" \/ status' = status
      PROVE  WorkInv'
  BY <1>1, <1>2, LetsGo DEF Left, Starts, Running
<1>3. ASSUME OnError(p, me[p].at), UNCHANGED row PROVE WorkInv'
  BY <1>1, <1>3, ErrorSteps
<1>4. CASE Crash(p)
  <2>1. Left(p) /\ me[p].at # "idle"
    BY <1>4, MovesOf DEF Crash
  <2>2. status' # "dispatched" \/ status' = status
    BY <1>4 DEF Crash, Release
  <2> QED
    BY <1>2, <2>1, <2>2
<1>5. CASE QueryFails(p)
  <2>1. \/ OnError(p, me[p].at) /\ UNCHANGED row
        \/ p = Front /\ Leave(p) /\ UNCHANGED row
    BY <1>5 DEF QueryFails
  <2>2. CASE p = Front /\ Leave(p) /\ UNCHANGED row
    BY <1>2, <2>2, MovesOf
  <2> QED
    BY <1>3, <2>1, <2>2
<1> QED
  BY <1>4, <1>5

LEMMA SkipSteps ==
  ASSUME TypeOK, WorkInv, NEW p \in Procs, Duplicate(p) \/ NotReady(p) \/ Conflict(p)
  PROVE  WorkInv'
<1> USE DEF work, told, row
<1>1. UNCHANGED <<entry, mode, runs, issues, tasks, shared, status>>
  BY DEF Duplicate, NotReady, Conflict
<1>2. CASE Conflict(p)
  BY <1>1, <1>2, ErrorSteps DEF Conflict
<1>3. CASE Duplicate(p) \/ NotReady(p)
  <2>1. Keeps(p, "skip") /\ me[p].at \in {"issue", "task"}
    BY <1>3, MovesOf DEF Duplicate, NotReady, Steps
  <2>2. /\ me[p].run \in DOMAIN runs
        /\ p \in Workers => runs[me[p].run].anchored
        /\ p = Front /\ entry = "replay" => ~runs[me[p].run].anchored
        /\ ~shared => runs[me[p].run].status # "skipped"
    BY <2>1 DEF WorkInv, Owns, Holds, Running, Unspent
  <2>3. Owns(p)' /\ InMode(p)'
    BY <1>1, <2>1, <2>2 DEF Keeps, Owns, InMode, OfIssue, OfTask, Linked
  <2>4. ~shared => Holds(p)' /\ Accounts(p)'
    BY <1>1, <2>1, <2>2 DEF Keeps, Holds, Accounts, Linked, Before
  <2> QED
    BY <1>1, <2>1, <2>3, <2>4, GoesOn DEF Keeps
<1> QED
  BY <1>2, <1>3

LEMMA ReuseSteps ==
  ASSUME TypeOK, WorkInv, NEW p \in Procs, Reuse(p)
  PROVE  WorkInv'
<1> USE DEF work, row
<1>1. /\ UNCHANGED <<entry, mode, runs, issues, tasks, shared, status>> /\ me[p].at = "insert"
      /\ Others(p)
  <2>1. Act(p)
    BY DEF Act, Admission
  <2> QED
    BY <2>1, MeMoves DEF Reuse
<1>2. CASE p = Front
  <2>1. Left(p)
    BY <1>2, MovesOf DEF Reuse
  <2> QED
    BY <1>1, <2>1, LetsGo DEF Left, Starts, Running
<1>3. CASE p # Front
  <2>1. p \in Workers /\ \E r \in Anchored : Resume(p, r)
    BY <1>3 DEF Reuse, Procs
  <2> QED
    BY <1>1, <2>1, Resumed, GoesOn
<1> QED
  BY <1>2, <1>3

LEMMA RequestSteps ==
  ASSUME TypeOK, WorkInv, Request
  PROVE  WorkInv'
<1> USE DEF work, told, row
<1>1. Front \in Procs /\ Act(Front)
  BY DEF Act, Procs
<1>2. UNCHANGED <<entry, mode, runs, issues, tasks, shared>> /\ Others(Front)
  BY <1>1, MeMoves DEF Request, Receive, Persist, Ignore, FinishReplay
<1>3. CASE Receive
  <2>1. me'[Front].at = "persist"
    BY <1>1, <1>3, MovedOn DEF Receive, Steps, TypeOK, MeTyped
  <2> QED
    BY <1>1, <1>2, <1>3, <2>1, LetsGo DEF Receive, Running
<1>4. CASE Persist
  <2>1. me'[Front].at \in {"insert", "decide"}
    BY <1>1, <1>4, MovesOf DEF Persist, Steps, Keeps
  <2> QED
    BY <1>1, <1>2, <1>4, <2>1, LetsGo DEF Persist, Running
<1>5. CASE Ignore \/ FinishReplay
  <2>1. Left(Front)
    BY <1>1, <1>5, MovesOf DEF Ignore, FinishReplay
  <2> QED
    BY <1>1, <1>2, <1>5, <2>1, LetsGo DEF Ignore, FinishReplay, Left, Starts, Running
<1> QED
  BY <1>3, <1>4, <1>5 DEF Request

LEMMA PlanSteps ==
  ASSUME TypeOK, Places, WorkInv, PlanAttempt, ~Recover
  PROVE  WorkInv'
<1> USE DEF work, told, row
<1>1. Front \in Procs /\ Front \notin Workers /\ Act(Front)
  BY DispatchAssumption DEF Act, Procs
<1>2. UNCHANGED <<entry, mode, runs, issues, tasks, shared>> /\ Others(Front)
  BY <1>1, MeMoves DEF PlanAttempt, StartAttempt, LoadPlan, LookUp, FinishPlan
<1>3. CASE StartAttempt
  <2>1. Keeps(Front, "load")
    BY <1>1, <1>3, MovesOf DEF StartAttempt, Steps
  <2> QED
    BY <1>1, <1>2, <1>3, <2>1, LetsGo DEF StartAttempt, Keeps, Running
<1>4. CASE LoadPlan
  <2>1. Keeps(Front, "check") \/ Ends(Front, "ignored")
    BY <1>1, <1>4, MovesOf DEF LoadPlan, Steps, Outs
  <2> QED
    BY <1>1, <1>2, <1>4, <2>1, LetsGo DEF LoadPlan, Keeps, Ends, Starts, Running
<1>5. CASE LookUp
  <2>1. me[Front].at = "check" /\ entry = "plan" /\ status' = status
    BY <1>5 DEF LookUp, Places
  <2>2. ASSUME NEW r \in Anchored, Complete(runs[r]), Ends(Front, "dispatched")
        PROVE  WorkInv'
    <3>1. r \in DOMAIN runs /\ runs[r] \in Run
      BY DEF Anchored, TypeOK
    <3>2. /\ runs[r].status = "completed" => tasks # <<>> \/ runs[r].issue # 0
          /\ runs[r].task # 0 => tasks # <<>>
      BY <3>1 DEF WorkInv, Rows
    <3>3. Accounted
      BY <2>1, <2>2, <3>1, <3>2 DEF Complete, Accounted
    <3> QED
      BY <1>1, <1>2, <2>1, <2>2, <3>3, LetsGo DEF Ends, Starts, Running
  <2>3. ASSUME NEW r \in Anchored, me'[Front].at = "recover", me'[Front].run = r
        PROVE  WorkInv'
    <3>1. r \in DOMAIN runs
      BY DEF Anchored
    <3>2. Owns(Front)' /\ InMode(Front)'
      BY <1>1, <1>2, <2>1, <2>3, <3>1 DEF Owns, InMode, OfIssue, OfTask, Linked
    <3>3. Holds(Front)' /\ Accounts(Front)'
      BY <2>3 DEF Holds, Accounts, Linked, Before, Unspent
    <3> QED
      BY <1>1, <1>2, <2>1, <3>2, <3>3, GoesOn
  <2>4. CASE Keeps(Front, "insert")
    BY <1>1, <1>2, <2>1, <2>4, LetsGo DEF Keeps, Running
  <2> QED
    BY <1>5, <2>2, <2>3, <2>4, LookUpMoves
<1>6. CASE FinishPlan
  <2>1. Left(Front) /\ me[Front].at = "finish"
    BY <1>1, <1>6, MovesOf DEF FinishPlan
  <2>2. status' = "dispatched" => me[Front].out = "dispatched"
    BY <1>6 DEF FinishPlan, Release
  <2> QED
    BY <1>1, <1>2, <2>1, <2>2, LetsGo DEF Left, Starts, Running
<1> QED
  BY <1>3, <1>4, <1>5, <1>6 DEF PlanAttempt

\* A process in the midst of a dispatch writes its run, an issue or a task of it,
\* and no row of another.
LEMMA Written ==
  ASSUME TypeOK, Places, WorkInv, NEW p \in Procs, Others(p), me[p].at \in Running,
         UNCHANGED <<entry, mode, shared, status>>,
         DOMAIN runs' = DOMAIN runs, DOMAIN issues \subseteq DOMAIN issues',
         \A r \in DOMAIN runs :
            /\ r # me[p].run => runs'[r] = runs[r]
            /\ runs'[r].anchored = runs[r].anchored,
         tasks # <<>> => tasks' # <<>>,
         \A t \in DOMAIN tasks' :
            tasks'[t].run = me[p].run \/ (t \in DOMAIN tasks /\ tasks'[t] = tasks[t]),
         Rows', InMode(p)', me'[p].at \in Running => me'[p].run = me[p].run,
         ~shared => /\ Once' /\ Holds(p)' /\ Accounts(p)'
                    /\ Accounted => Accounted'
  PROVE  WorkInv'
<1>1. \A q \in Procs : Owns(q) /\ InMode(q)
  BY DEF WorkInv
<1>2. Owns(p)'
  BY <1>1 DEF Owns
<1>3. ASSUME NEW q \in Procs, q # p PROVE Owns(q)' /\ InMode(q)'
  <2>1. me'[q] = me[q] /\ Owns(q) /\ InMode(q)
    BY <1>1, <1>3 DEF Others
  <2>2. Owns(q)'
    BY <2>1 DEF Owns
  <2>3. InMode(q)'
    BY <2>1 DEF InMode
  <2> QED
    BY <2>2, <2>3
<1>4. ASSUME ~shared, NEW q \in Procs, q # p PROVE Holds(q)' /\ Accounts(q)'
  <2>1. me'[q] = me[q] /\ Holds(q) /\ Accounts(q) /\ Owns(q)
    BY <1>4 DEF Others, WorkInv
  <2>2. Accounts(q)'
    BY <1>4, <2>1 DEF Accounts
  <2>3. CASE me[q].at \in Running
    <3>1. me[q].run # me[p].run /\ me[q].run \in DOMAIN runs
      BY <1>4, <2>1, <2>3, Apart DEF Owns
    <3>2. runs'[me[q].run] = runs[me[q].run]
      BY <3>1
    <3>3. \A t \in DOMAIN tasks' :
             tasks'[t].run = me[q].run => t \in DOMAIN tasks /\ tasks[t].run = me[q].run
      BY <3>1
    <3> QED
      BY <2>1, <2>2, <3>2, <3>3 DEF Holds
  <2>4. CASE me[q].at \notin Running
    BY <2>1, <2>2, <2>4 DEF Holds, Running, Linked, Before, Unspent
  <2> QED
    BY <2>3, <2>4
<1>5. ~shared => Alone' /\ (status' = "dispatched" => Accounted')
  BY StaysAlone DEF WorkInv, Running
<1> QED
  BY <1>2, <1>3, <1>4, <1>5 DEF WorkInv

LEMMA CreateIssueSteps ==
  ASSUME TypeOK, Places, WorkInv, NEW p \in Procs, CreateIssue(p)
  PROVE  WorkInv'
<1> DEFINE r == me[p].run
           n == Len(issues) + 1
<1> USE DEF work, told, row
<1>1. WorkTyped /\ MeTyped /\ runs \in Seq(Run) /\ n \in Nat \ {0} /\ Rows
      /\ me[p].at = "issue"
  BY DEF TypeOK, WorkTyped, MeTyped, WorkInv, CreateIssue
<1>2. /\ MeTyped' /\ Others(p)
      /\ me'[p].at = "enqueue" /\ me'[p].run = r /\ me'[p].issue = n
  BY <1>1, MovedIssue DEF CreateIssue, Steps
<1>3. r \in DOMAIN runs /\ mode = "create_issue"
      /\ (~shared => /\ \A t \in DOMAIN tasks : tasks[t].run # r
                     /\ runs[r].status # "skipped" /\ Once)
  BY <1>1 DEF WorkInv, Owns, InMode, Holds, Running, OfIssue, Before, Unspent
<1>4. /\ Rewritten
      /\ \A q \in DOMAIN runs : q # r => runs'[q] = runs[q]
      /\ runs'[r].status = "issue_created" /\ runs'[r].issue = n
      /\ runs'[r].task = runs[r].task /\ runs'[r].anchored = runs[r].anchored
  BY <1>1, <1>3, IssueLinked DEF CreateIssue
<1>5. /\ DOMAIN issues' = DOMAIN issues \cup {n}
      /\ \A i \in DOMAIN issues : issues'[i] = issues[i]
  BY <1>1, IssueAdded DEF CreateIssue
<1>6. UNCHANGED <<entry, mode, shared, status, tasks>>
  BY DEF CreateIssue
<1> HIDE DEF r, n
<1>7. Rows'
  BY <1>1, <1>3, <1>4, <1>5, <1>6 DEF Rows, Rewritten
<1>8. InMode(p)'
  BY <1>2, <1>3, <1>5, <1>6 DEF InMode, OfTask
<1>9. ASSUME ~shared PROVE Once' /\ Holds(p)' /\ Accounts(p)' /\ (Accounted => Accounted')
  <2>1. Once'
    BY <1>1, <1>3, <1>4, <1>6, <1>9 DEF Once, Rows
  <2>2. Holds(p)' /\ Accounts(p)'
    BY <1>2, <1>3, <1>4, <1>6, <1>9 DEF Holds, Accounts
  <2>3. Accounted => Accounted'
    <3>1. ASSUME NEW q \in DOMAIN runs, runs[q].status = "skipped"
          PROVE  q \in DOMAIN runs' /\ runs'[q].status = "skipped"
      BY <1>3, <1>4, <1>9, <3>1 DEF Rewritten
    <3>2. ASSUME NEW i \in DOMAIN issues, issues[i] = "closed"
          PROVE  i \in DOMAIN issues' /\ issues'[i] = "closed"
      BY <1>5, <3>2
    <3>3. ASSUME NEW q \in Anchored, runs[q].issue # 0 \/ runs[q].status = "failed"
          PROVE  q \in Anchored' /\ (runs'[q].issue # 0 \/ runs'[q].status = "failed")
      <4>1. q \in DOMAIN runs /\ runs[q].anchored
        BY DEF Anchored
      <4>2. q \in DOMAIN runs' /\ runs'[q].anchored
        BY <1>4, <4>1 DEF Rewritten
      <4> QED
        BY <1>1, <1>4, <3>3, <4>1, <4>2 DEF Anchored
    <3> QED
      BY <1>6, <3>1, <3>2, <3>3 DEF Accounted
  <2> QED
    BY <2>1, <2>2, <2>3
<1>10. me[p].at \in Running /\ DOMAIN runs' = DOMAIN runs
       /\ \A q \in DOMAIN runs : runs'[q].anchored = runs[q].anchored
  BY <1>1, <1>4 DEF Running, Rewritten
<1> QED
  BY <1>2, <1>4, <1>5, <1>6, <1>7, <1>8, <1>9, <1>10, Written DEF r

\* A run gets a task only when it has none.
LEMMA TaskSteps ==
  ASSUME TypeOK, Places, WorkInv, NEW p \in Procs, Enqueue(p) \/ CreateTask(p)
  PROVE  WorkInv'
<1> DEFINE r == me[p].run
           n == Len(tasks) + 1
<1> USE DEF work, told, row
<1>1. WorkTyped /\ MeTyped /\ Rows /\ n \in Nat /\ DOMAIN issues \subseteq Nat \ {0}
      /\ me[p].at \in {"enqueue", "reenqueue", "task"}
  BY DEF TypeOK, WorkTyped, MeTyped, WorkInv, Enqueue, CreateTask
<1>2. /\ Others(p)
      /\ \/ /\ CreateTask(p) /\ me[p].at = "task"
            /\ me'[p].at = "link" /\ me'[p].run = r
         \/ Enqueue(p) /\ me[p].at # "task" /\ Ends(p, me[p].out)
  <2>1. CASE CreateTask(p)
    BY <1>1, <2>1, MovedTask DEF CreateTask, Steps
  <2>2. CASE Enqueue(p)
    BY <2>2, MovesOf DEF Enqueue, Ends, Starts
  <2> QED
    BY <2>1, <2>2
<1>3. r \in DOMAIN runs
      /\ (me[p].at = "task" => mode = "run_only")
      /\ (me[p].at # "task" => mode = "create_issue" /\ me[p].issue \in DOMAIN issues)
      /\ (~shared => /\ \A t \in DOMAIN tasks : tasks[t].run # r
                     /\ me[p].at # "task" => me[p].issue = runs[r].issue
                     /\ Once)
  BY <1>1 DEF WorkInv, Owns, InMode, Holds, Running, OfIssue, OfTask, Linked, Before
<1>4. /\ n \notin DOMAIN tasks /\ DOMAIN tasks' = DOMAIN tasks \cup {n}
      /\ \A t \in DOMAIN tasks : tasks'[t] = tasks[t]
      /\ tasks'[n].run = r /\ tasks'[n].issue = me[p].issue
      /\ tasks' # <<>>
  BY <1>1, TaskAdded DEF Enqueue, CreateTask
<1>5. UNCHANGED <<entry, mode, shared, status, runs, issues>>
  BY DEF Enqueue, CreateTask
<1> HIDE DEF r, n
<1>6. Rows'
  BY <1>1, <1>3, <1>4, <1>5 DEF Rows
<1>7. InMode(p)'
  BY <1>1, <1>2, <1>3, <1>4, <1>5 DEF InMode, OfIssue, OfTask, Linked, Ends, Starts
<1>8. Accounted'
  BY <1>4 DEF Accounted
<1>9. ASSUME ~shared PROVE Once' /\ Holds(p)' /\ Accounts(p)'
  <2>1. \A t, u \in DOMAIN tasks' : t # u => tasks'[t].run # tasks'[u].run
    BY <1>3, <1>4, <1>9 DEF Once
  <2>2. mode = "create_issue" =>
           \A t \in DOMAIN tasks' :
              tasks'[t].issue = runs[tasks'[t].run].issue /\ tasks'[t].issue # 0
    BY <1>1, <1>3, <1>4, <1>9 DEF Once
  <2>3. Holds(p)' /\ Accounts(p)'
    BY <1>2, <1>8 DEF Holds, Accounts, Linked, Before, Unspent, Ends, Starts
  <2> QED
    BY <1>5, <2>1, <2>2, <2>3 DEF Once
<1>10. me[p].at \in Running /\ (me'[p].at \in Running => me'[p].run = me[p].run)
  BY <1>1, <1>2 DEF Running, Ends, Starts, r
<1> QED
  BY <1>2, <1>4, <1>5, <1>6, <1>7, <1>8, <1>9, <1>10, Written DEF r

\* The end of a dispatch: its run is linked to its task, skipped or failed.
LEMMA EndSteps ==
  ASSUME TypeOK, Places, WorkInv, NEW p \in Procs, Link(p) \/ SkipRun(p) \/ FailRun(p)
  PROVE  WorkInv'
<1> DEFINE r == me[p].run
<1> USE DEF work, told, row
<1>1. WorkTyped /\ MeTyped /\ Rows /\ runs \in Seq(Run) /\ me[p].task \in Nat
      /\ me[p].at \in {"link", "relink", "skip", "fail"}
  BY DEF TypeOK, WorkTyped, MeTyped, WorkInv, Link, SkipRun, FailRun, Work
<1>2. /\ Others(p) /\ me'[p].at = "finish"
      /\ me'[p].out = "dispatched" => ~FailRun(p)
  <2>1. CASE FailRun(p)
    BY <2>1, MovesOf DEF FailRun, Ends, Starts, Outs
  <2>2. CASE Link(p) \/ SkipRun(p)
    <3>1. Ends(p, me[p].out) /\ ~FailRun(p)
      BY <2>2, MovesOf DEF Link, SkipRun, FailRun
    <3> QED
      BY <3>1 DEF Ends, Starts
  <2> QED
    BY <2>1, <2>2
<1>3. r \in DOMAIN runs
      /\ (me[p].at \in {"link", "relink"} => mode = "run_only" /\ tasks # <<>>)
      /\ (~shared => /\ me[p].at = "fail" => runs[r].status # "skipped"
                     /\ Once)
  BY <1>1 DEF WorkInv, Owns, InMode, Holds, Running, OfTask, Unspent
<1>4. UNCHANGED <<entry, mode, shared, status, issues, tasks>>
  BY DEF Link, SkipRun, FailRun
<1>5. /\ Rewritten
      /\ \A q \in DOMAIN runs : q # r => runs'[q] = runs[q]
      /\ runs'[r].issue = runs[r].issue /\ runs'[r].anchored = runs[r].anchored
      /\ \/ /\ me[p].at \in {"link", "relink"} /\ runs'[r].status = "running"
         \/ /\ me[p].at = "skip" /\ runs'[r].status = "skipped"
            /\ runs'[r].task = runs[r].task
         \/ /\ me[p].at = "fail" /\ runs'[r].status = "failed"
            /\ runs'[r].task = runs[r].task
  BY <1>1, <1>3, TaskLinked, StatusSet DEF Link, SkipRun, FailRun, RunStates, Kin
<1>6. FailRun(p) <=> me[p].at = "fail"
  BY DEF Link, SkipRun, FailRun
<1> HIDE DEF r
<1>7. Rows'
  BY <1>1, <1>3, <1>4, <1>5 DEF Rows, Rewritten
<1>8. InMode(p)' /\ Holds(p)'
  BY <1>2 DEF InMode, Holds, OfIssue, OfTask, Linked, Before, Unspent
<1>9. ASSUME ~shared PROVE Once' /\ Accounts(p)' /\ (Accounted => Accounted')
  <2>1. Once'
    BY <1>1, <1>3, <1>4, <1>5, <1>9 DEF Once, Rows
  <2>2. CASE me[p].at \in {"link", "relink"}
    BY <1>3, <1>4, <2>1, <2>2 DEF Accounted, Accounts
  <2>3. CASE me[p].at = "skip"
    <3>1. r \in DOMAIN runs' /\ runs'[r].status = "skipped"
      BY <1>3, <1>5, <2>3 DEF Rewritten
    <3> QED
      BY <2>1, <3>1 DEF Accounted, Accounts
  <2>4. CASE me[p].at = "fail"
    <3>1. runs'[r].status = "failed"
      BY <1>5, <2>4
    <3>2. ASSUME NEW q \in DOMAIN runs, runs[q].status = "skipped"
          PROVE  q \in DOMAIN runs' /\ runs'[q].status = "skipped"
      BY <1>3, <1>5, <1>9, <2>4, <3>2 DEF Rewritten
    <3>3. ASSUME NEW q \in Anchored, runs[q].issue # 0 \/ runs[q].status = "failed"
          PROVE  q \in Anchored' /\ (runs'[q].issue # 0 \/ runs'[q].status = "failed")
      BY <1>5, <3>1, <3>3 DEF Anchored, Rewritten
    <3>4. Accounted => Accounted'
      BY <1>4, <3>2, <3>3 DEF Accounted
    <3> QED
      BY <1>2, <1>6, <2>1, <2>4, <3>4 DEF Accounts
  <2> QED
    BY <1>1, <2>2, <2>3, <2>4
<1>10. me[p].at \in Running /\ me'[p].at \notin Running /\ DOMAIN runs' = DOMAIN runs
       /\ \A q \in DOMAIN runs : runs'[q].anchored = runs[q].anchored
  BY <1>1, <1>2, <1>5 DEF Running, Rewritten
<1> QED
  BY <1>2, <1>4, <1>5, <1>7, <1>8, <1>9, <1>10, Written DEF r

LEMMA AdmitSteps ==
  ASSUME TypeOK, WorkInv, NEW p \in Procs, NEW s \in {"skipped", Initial}, Admit(p, s)
  PROVE  WorkInv'
<1> DEFINE n == Len(runs) + 1
<1> USE DEF row
<1>1. WorkTyped /\ Rows /\ n \in Nat /\ DOMAIN runs \subseteq Nat
      /\ \A q \in Procs : Owns(q) /\ InMode(q)
  BY DEF TypeOK, WorkTyped, WorkInv
<1>2. Others(p) /\ me[p].at = "insert"
  <2>1. Act(p)
    BY DEF Act, Admission
  <2> QED
    BY <2>1, MeMoves DEF Admit
<1>3. \/ Left(p)
      \/ s = "skipped" /\ Ends(p, "dispatched")
      \/ s # "skipped" /\ Starts(p, First(p), n, 0, "dispatched")
  BY <1>1, MovesOf DEF Admit, Outs
<1>4. /\ n \notin DOMAIN runs /\ DOMAIN runs' = DOMAIN runs \cup {n} /\ Len(runs') = n
      /\ \A q \in DOMAIN runs : runs'[q] = runs[q]
      /\ runs'[n].status = s /\ runs'[n].issue = 0 /\ runs'[n].task = 0
      /\ runs'[n].anchored = Anchors(p)
  BY <1>1, RunAdded DEF Admit
<1>5. UNCHANGED <<entry, mode, shared, status, issues, tasks>>
  BY DEF Admit
<1>6. entry = "ingress" => n = 1 /\ Anchors(p)
  <2>1. ASSUME entry = "ingress" PROVE DOMAIN runs = {} /\ Anchors(p)
    BY <1>1, <2>1 DEF Admit, Anchors, Anchored, Rows
  <2>2. DOMAIN runs = {} => Len(runs) = 0
    BY DEF TypeOK
  <2> QED
    BY <2>1, <2>2
<1>7. s # "skipped" => s = Initial
  OBVIOUS
<1>8. p = Front => p \notin Workers
  BY DispatchAssumption
<1> HIDE DEF n
<1>9. Rows'
  <2>1. mode = "create_issue" => \A q \in DOMAIN runs' : runs'[q].status # "running"
    BY <1>1, <1>4, <1>7 DEF Rows, Initial
  <2>2. \A q \in DOMAIN runs' : runs'[q].status = "completed" => q \in DOMAIN runs
    BY <1>4, <1>7 DEF Initial
  <2>3. entry = "ingress" => Len(runs') <= 1 /\ \A q \in DOMAIN runs' : runs'[q].anchored
    <3>1. entry = "ingress" => runs'[n].anchored
      BY <1>4, <1>6
    <3>2. entry = "ingress" => \A q \in DOMAIN runs : runs'[q].anchored
      BY <1>1, <1>4 DEF Rows
    <3>3. entry = "ingress" => Len(runs') <= 1
      BY <1>4, <1>6
    <3> QED
      BY <1>4, <3>1, <3>2, <3>3
  <2> QED
    BY <1>1, <1>4, <1>5, <2>1, <2>2, <2>3 DEF Rows
<1>10. ASSUME NEW q \in Procs PROVE Owns(q)' /\ InMode(q)'
  <2>1. CASE q # p
    <3>1. me'[q] = me[q] /\ Owns(q) /\ InMode(q)
      BY <1>1, <1>2, <2>1 DEF Others
    <3>2. Owns(q)'
      BY <1>4, <1>5, <3>1 DEF Owns
    <3>3. InMode(q)'
      BY <1>5, <3>1 DEF InMode
    <3> QED
      BY <3>2, <3>3
  <2>2. CASE q = p /\ Starts(p, First(p), n, 0, "dispatched")
    <3>1. Owns(q)'
      BY <1>4, <1>5, <1>8, <2>2 DEF Owns, Starts, Anchors
    <3>2. InMode(q)'
      BY <1>5, <2>2 DEF InMode, Starts, First, OfIssue, OfTask, Linked, TypeOK
    <3> QED
      BY <3>1, <3>2
  <2>3. CASE q = p /\ (Left(p) \/ Ends(p, "dispatched"))
    BY <2>3, Free DEF Left, Ends, Starts, Running
  <2> QED
    BY <1>3, <2>1, <2>2, <2>3
<1>11. ASSUME ~shared
       PROVE  /\ Alone' /\ Once'
              /\ \A q \in Procs : Holds(q)' /\ Accounts(q)'
              /\ status' = "dispatched" => Accounted'
  <2>1. Alone /\ Once /\ (status = "dispatched" => Accounted)
        /\ \A q \in Procs : Holds(q) /\ Accounts(q)
    BY <1>11 DEF WorkInv
  <2>2. Alone'
    BY <1>2, <2>1, StaysAlone
  <2>3. Once'
    BY <1>1, <1>4, <1>5, <2>1 DEF Once, Rows
  <2>4. Accounted => Accounted'
    <3>1. Anchored \subseteq Anchored' /\ Anchored \subseteq DOMAIN runs
      BY <1>4 DEF Anchored
    <3> QED
      BY <1>4, <1>5, <3>1 DEF Accounted
  <2>5. ASSUME NEW q \in Procs PROVE Holds(q)' /\ Accounts(q)'
    <3>1. CASE q # p
      <4>1. me'[q] = me[q] /\ Owns(q) /\ Holds(q) /\ Accounts(q)
        BY <1>1, <1>2, <2>1, <3>1 DEF Others
      <4>2. me[q].at \in Running => runs'[me[q].run] = runs[me[q].run]
        BY <1>4, <4>1 DEF Owns
      <4>3. Holds(q)'
        BY <1>5, <4>1, <4>2 DEF Holds, Running, Linked, Before, Unspent
      <4> QED
        BY <2>4, <4>1, <4>3 DEF Accounts
    <3>2. CASE q = p /\ s # "skipped" /\ Starts(p, First(p), n, 0, "dispatched")
      <4>1. \A t \in DOMAIN tasks : tasks[t].run # n
        BY <1>1, <1>4 DEF Rows
      <4>2. me'[p].at \in {"issue", "find", "task"} /\ me'[p].run = n
        BY <3>2 DEF Starts, First
      <4> QED
        BY <1>4, <1>5, <3>2, <4>1, <4>2 DEF Holds, Accounts, Linked
    <3>3. CASE q = p /\ Left(p)
      <4>1. me'[q].at = "idle"
        BY <3>3 DEF Left, Starts
      <4> QED
        BY <4>1, Free DEF Accounts, Running
    <3>4. CASE q = p /\ s = "skipped" /\ Ends(p, "dispatched")
      <4>1. n \in DOMAIN runs' /\ runs'[n].status = "skipped"
        BY <1>4, <3>4
      <4>2. Accounted' /\ me'[q].at = "finish"
        BY <3>4, <4>1 DEF Accounted, Ends, Starts
      <4> QED
        BY <4>2, Free DEF Accounts, Running
    <3> QED
      BY <1>3, <3>1, <3>2, <3>3, <3>4
  <2> QED
    BY <1>5, <2>1, <2>2, <2>3, <2>4, <2>5
<1> QED
  BY <1>5, <1>9, <1>10, <1>11 DEF WorkInv

\* A plan's attempt gives up the run of an earlier one; nobody else is at work.
LEMMA RecoverSteps ==
  ASSUME TypeOK, Places, WorkInv, Recover
  PROVE  WorkInv'
<1> DEFINE r == me[Front].run
<1> USE DEF row, told
<1>1. WorkTyped /\ MeTyped /\ runs \in Seq(Run) /\ Rows /\ me[Front].at = "recover"
      /\ Front \in Procs /\ Front \notin Workers
  BY DispatchAssumption DEF TypeOK, WorkTyped, MeTyped, WorkInv, Recover, Procs
<1>2. entry = "plan" /\ status = "queued" /\ \A w \in Workers : me[w].at = "idle"
  BY <1>1 DEF Places
<1>3. Keeps(Front, "insert")
  BY <1>1, MovesOf DEF Recover, Steps
<1>4. UNCHANGED <<entry, mode, shared, status, issues, tasks>>
  BY DEF Recover
<1>5. r \in DOMAIN runs
  BY <1>1 DEF WorkInv, Owns, Running
<1>6. /\ Rewritten
      /\ \A q \in DOMAIN runs : q # r => runs'[q] = runs[q]
      /\ runs'[r].status = "failed"
      /\ runs'[r].issue = runs[r].issue /\ runs'[r].task = runs[r].task
  BY <1>1, <1>5, RunGivenUp
<1> HIDE DEF r
<1>7. Rows'
  BY <1>1, <1>2, <1>4, <1>5, <1>6 DEF Rows, Rewritten
<1>8. \A q \in Procs : me'[q].at \in {"idle", "insert"}
  BY <1>2, <1>3 DEF Keeps, Others, Procs
<1>9. \A q \in Procs : Owns(q)' /\ InMode(q)' /\ Holds(q)' /\ Accounts(q)'
  BY <1>8, Free DEF Accounts, Running
<1>10. ~shared => Alone' /\ Once'
  <2>1. ASSUME ~shared PROVE Once'
    BY <1>1, <1>4, <1>5, <1>6, <2>1 DEF WorkInv, Once, Rows
  <2>2. Alone'
    BY <1>2, <1>3, <1>1 DEF Alone, Keeps, Others, Procs
  <2> QED
    BY <2>1, <2>2
<1> QED
  BY <1>2, <1>4, <1>7, <1>9, <1>10 DEF WorkInv

\* What becomes of tasks and issues changes the status of runs only, and accounts
\* for a delivery.
LEMMA OutcomeSteps ==
  ASSUME TypeOK, WorkInv, Outcome
  PROVE  WorkInv'
<1> USE DEF row, told
<1>1. WorkTyped /\ Rows /\ runs \in Seq(Run)
  BY DEF TypeOK, WorkTyped, WorkInv
<1>2. UNCHANGED <<entry, mode, shared, status, me>>
  BY DEF Outcome, TaskEnds, IssueCloses
<1> DEFINE Same ==
         /\ Rewritten
         /\ DOMAIN tasks' = DOMAIN tasks /\ DOMAIN issues' = DOMAIN issues
         /\ \A t \in DOMAIN tasks :
               tasks'[t].run = tasks[t].run /\ tasks'[t].issue = tasks[t].issue
         /\ \A q \in DOMAIN runs :
               \/ runs'[q] = runs[q]
               \/ /\ runs'[q].status \in {"completed", "failed"} /\ Kin(runs'[q], runs[q])
                  /\ tasks # <<>> \/ runs[q].issue # 0
         /\ Accounted' /\ (tasks # <<>> => tasks' # <<>>)
<1>3. Same
  <2>1. ASSUME NEW t \in DOMAIN tasks, NEW s \in {"completed", "failed"}, TaskEnds(t, s)
        PROVE  Same
    <3>1. /\ Rewritten
          /\ \A q \in DOMAIN runs :
                runs'[q] = runs[q] \/ (runs'[q].status = s /\ Kin(runs'[q], runs[q]))
      BY <1>1, <2>1, EndingTask
    <3>2. /\ DOMAIN tasks' = DOMAIN tasks
          /\ \A u \in DOMAIN tasks :
                tasks'[u].run = tasks[u].run /\ tasks'[u].issue = tasks[u].issue
      BY <1>1, <2>1, TaskEnded DEF TaskEnds
    <3>3. tasks # <<>> /\ tasks' # <<>>
      BY <3>2
    <3>4. issues' = issues
      BY <2>1 DEF TaskEnds
    <3> QED
      BY <3>1, <3>2, <3>3, <3>4 DEF Accounted
  <2>2. ASSUME NEW i \in DOMAIN issues, NEW s \in {"completed", "failed"}, IssueCloses(i, s)
        PROVE  Same
    <3>1. /\ Rewritten
          /\ \A q \in DOMAIN runs :
                \/ runs'[q] = runs[q]
                \/ runs'[q].status = s /\ Kin(runs'[q], runs[q]) /\ runs[q].issue = i
      BY <1>1, <2>2, ClosingIssue
    <3>2. DOMAIN issues' = DOMAIN issues /\ issues'[i] = "closed" /\ i # 0
      BY <1>1, <2>2, IssueClosed DEF IssueCloses, WorkTyped
    <3>3. tasks' = tasks
      BY <2>2 DEF IssueCloses
    <3>4. Accounted'
      BY <3>2 DEF Accounted
    <3> QED
      BY <3>1, <3>2, <3>3, <3>4
  <2> QED
    BY <2>1, <2>2 DEF Outcome
<1>4. Rows'
  <2>1. mode = "create_issue" => \A q \in DOMAIN runs' : runs'[q].status # "running"
    BY <1>1, <1>3 DEF Rows, Rewritten
  <2>2. \A q \in DOMAIN runs : runs'[q].issue = runs[q].issue /\ runs'[q].task = runs[q].task
                               /\ runs'[q].anchored = runs[q].anchored
    BY <1>3 DEF Kin
  <2>3. \A q \in DOMAIN runs :
           runs'[q].status = "completed" => tasks' # <<>> \/ runs[q].issue # 0
    BY <1>1, <1>3 DEF Rows
  <2> QED
    BY <1>1, <1>2, <1>3, <2>1, <2>2, <2>3 DEF Rows, Rewritten
<1>5. ASSUME NEW q \in Procs PROVE Owns(q)' /\ InMode(q)'
  <2>1. Owns(q) /\ InMode(q)
    BY DEF WorkInv
  <2>2. Owns(q)'
    BY <1>2, <1>3, <2>1 DEF Owns, Rewritten, Kin
  <2>3. InMode(q)'
    BY <1>2, <1>3, <2>1 DEF InMode
  <2> QED
    BY <2>2, <2>3
<1>6. ASSUME ~shared PROVE Alone' /\ Once' /\ \A q \in Procs : Holds(q)' /\ Accounts(q)'
  <2>1. Alone /\ Once /\ \A q \in Procs : Holds(q)
    BY <1>6 DEF WorkInv
  <2>2. Alone'
    BY <1>2, <2>1 DEF Alone
  <2>3. Once'
    <3>1. \A q \in DOMAIN runs : runs'[q].issue = runs[q].issue
      BY <1>3 DEF Kin
    <3> QED
      BY <1>1, <1>2, <1>3, <2>1, <3>1 DEF Once, Rows
  <2>4. ASSUME NEW q \in Procs PROVE Holds(q)' /\ Accounts(q)'
    <3>1. Accounts(q)'
      BY <1>3 DEF Accounts
    <3>2. Holds(q) /\ Owns(q)
      BY <2>1 DEF WorkInv
    <3>3. me[q].at \in Running =>
             /\ runs'[me[q].run].issue = runs[me[q].run].issue
             /\ runs[me[q].run].status # "skipped" => runs'[me[q].run].status # "skipped"
      BY <1>3, <3>2 DEF Owns, Kin
    <3>4. Holds(q)'
      BY <1>2, <1>3, <3>2, <3>3 DEF Holds, Running, Linked, Before, Unspent
    <3> QED
      BY <3>1, <3>4
  <2> QED
    BY <2>2, <2>3, <2>4
<1> QED
  BY <1>2, <1>3, <1>4, <1>5, <1>6 DEF WorkInv

LEMMA WorkSame ==
  ASSUME WorkInv, UNCHANGED <<entry, mode, status, runs, issues, tasks, me, shared>>
  PROVE  WorkInv'
<1>1. Rows' /\ (~shared => Once')
  BY DEF WorkInv, Rows, Once
<1>2. Accounted' = Accounted
  BY DEF Accounted, Anchored
<1>3. \A p \in Procs : Owns(p)' /\ InMode(p)'
  BY DEF WorkInv, Owns, InMode
<1>4. ~shared => Alone' /\ \A p \in Procs : Holds(p)' /\ Accounts(p)'
  BY <1>2 DEF WorkInv, Alone, Holds, Accounts
<1> QED
  BY <1>1, <1>2, <1>3, <1>4 DEF WorkInv

LEMMA WorkStep ==
  ASSUME TypeOK, Places, WorkInv, [Next]_vars
  PROVE  WorkInv'
<1>1. ASSUME NEW p \in Procs, Act(p) PROVE WorkInv'
  <2>1. CASE Dispatch(p)
    BY <2>1, CreateIssueSteps, TaskSteps, EndSteps, SkipSteps DEF Dispatch
  <2>2. CASE Admission(p)
    BY <2>2, ReuseSteps, AdmitSteps DEF Admission
  <2>3. CASE QueryFails(p) \/ Crash(p)
    BY <2>3, FaultSteps
  <2>4. CASE p \in Workers /\ Process(p)
    BY <2>4, WorkerSteps
  <2>5. CASE Request \/ PlanAttempt
    BY <2>5, RequestSteps, PlanSteps, RecoverSteps
  <2> QED
    BY <1>1, <2>1, <2>2, <2>3, <2>4, <2>5 DEF Act
<1>2. CASE Outcome
  BY <1>2, OutcomeSteps
<1>3. CASE Switch \/ LeaseExpires \/ UNCHANGED vars
  <2>1. UNCHANGED <<entry, mode, status, runs, issues, tasks, me, shared>>
    BY <1>3 DEF Switch, LeaseExpires, vars, row, work, told
  <2> QED
    BY <2>1, WorkSame
<1> QED
  BY <1>1, <1>2, <1>3, Actors DEF Elsewhere

\* Whatever dies, fails or is repaired while a webhook delivery, a replay or a plan
\* is dispatched, a run never gets a second task, and a delivery of the ingress
\* never gets a second task at all, as long as no two workers are at it together.
THEOREM OneTaskPerRun == Spec => []OneTask
<1>1. Init => TypeOK /\ Places /\ WorkInv
  BY InitTyped, InitPlaces, InitWork
<1>2. TypeOK /\ Places /\ WorkInv /\ [Next]_vars => TypeOK' /\ Places' /\ WorkInv'
  BY TypedStep, PlacesStep, WorkStep
<1>3. TypeOK /\ WorkInv => OneTask
  <2>1. SUFFICES ASSUME TypeOK, WorkInv, ~shared PROVE OneTask
    BY DEF OneTask
  <2>2. \A t, u \in DOMAIN tasks : t # u => tasks[t].run # tasks[u].run
    BY <2>1 DEF WorkInv, Once
  <2>3. ASSUME entry = "ingress" PROVE Len(tasks) <= 1
    <3>1. /\ \A t \in DOMAIN tasks : tasks[t].run \in DOMAIN runs
          /\ Len(runs) <= 1
      BY <2>1, <2>3 DEF WorkInv, Rows
    <3>2. \A q \in DOMAIN runs : q = 1
      BY <2>1, <3>1 DEF TypeOK
    <3>3. ~(1 \in DOMAIN tasks /\ 2 \in DOMAIN tasks)
      BY <2>2, <3>1, <3>2
    <3> QED
      BY <2>1, <3>3 DEF TypeOK
  <2> QED
    BY <2>2, <2>3 DEF OneTask
<1> QED
  BY <1>1, <1>2, <1>3, PTL DEF Spec

\* A delivery or a plan recorded as dispatched is accounted for: by a task, a skipped
\* run or a closed issue, or, for a plan, by an issue that was left without a task or
\* a run that failed, which the code takes for done.
THEOREM DispatchedHasWork == Spec => []DoneHasWork
<1>1. Init => TypeOK /\ Places /\ WorkInv
  BY InitTyped, InitPlaces, InitWork
<1>2. TypeOK /\ Places /\ WorkInv /\ [Next]_vars => TypeOK' /\ Places' /\ WorkInv'
  BY TypedStep, PlacesStep, WorkStep
<1>3. WorkInv => DoneHasWork
  BY DEF WorkInv, DoneHasWork
<1> QED
  BY <1>1, <1>2, <1>3, PTL DEF Spec


-----------------------------------------------------------------------------
(* The ledger of the plan.                                                 *)

\* The attempt that runs is the one that owns the plan, and it reports an outcome.
Reports ==
    /\ me[Front].at \in {"issue", "enqueue", "task", "link", "skip"}
          => me[Front].out = "dispatched"
    /\ me[Front].at = "finish" => me[Front].out \in {"dispatched", "ignored", "failed"}

Attempted ==
    /\ status \in {"queued", "dispatched", "ignored", "failed"}
    /\ lease = IF me[Front].at = "idle" THEN None ELSE Front
    /\ me[Front].at # "idle" => attempts \in 1..MaxAttempts
    /\ me[Front].at = "idle" /\ status = "queued" => attempts < MaxAttempts

PlanInv == entry = "plan" => Reports /\ Attempted

\* What a step of the attempt does to the plan: it goes on, begins or ends.
GoesOnAttempt ==
    /\ UNCHANGED <<status, attempts, lease>>
    /\ me[Front].at # "idle" /\ me'[Front].at # "idle"
    /\ Reports'

BeginsAttempt ==
    /\ StartAttempt
    /\ me'[Front].at = "load"

EndsAttempt ==
    /\ me[Front].at # "idle" /\ me'[Front].at = "idle"
    /\ UNCHANGED attempts /\ lease' = None
    /\ \/ status' = IF attempts < MaxAttempts THEN "queued" ELSE "failed"
       \/ status' \in {"dispatched", "ignored"}

LEMMA PlanMoves ==
  ASSUME TypeOK, Places, entry = "plan", Reports, Act(Front)
  PROVE  GoesOnAttempt \/ BeginsAttempt \/ EndsAttempt
<1>1. /\ Front \in Procs /\ Front \notin Workers
      /\ me[Front].at \notin {"find", "relink", "repair", "reenqueue", "persist", "decide"}
  BY DispatchAssumption DEF Procs, Places
<1>2. Len(issues) + 1 \in Nat /\ Len(tasks) + 1 \in Nat /\ Len(runs) + 1 \in Nat
  BY DEF TypeOK
<1>3. MeTyped /\ me[Front] \in Work
  BY <1>1 DEF TypeOK, MeTyped
<1> USE DEF Keeps, Starts, Ends, Left, First, row, Reports
<1>4. CASE Dispatch(Front)
  <2>1. CASE CreateIssue(Front)
    BY <1>1, <1>2, <1>3, <2>1, MovedIssue DEF CreateIssue, Steps, GoesOnAttempt
  <2>2. CASE CreateTask(Front)
    BY <1>1, <1>2, <1>3, <2>2, MovedTask DEF CreateTask, Steps, GoesOnAttempt
  <2>3. CASE Conflict(Front)
    BY <1>1, <2>3, Errs DEF Conflict, GoesOnAttempt
  <2>4. CASE Duplicate(Front) \/ NotReady(Front)
    <3>1. Keeps(Front, "skip") /\ me[Front].at \in {"issue", "task"}
      BY <1>1, <2>4, MovesOf DEF Duplicate, NotReady, Steps
    <3> QED
      BY <1>1, <2>4, <3>1 DEF Duplicate, NotReady, GoesOnAttempt
  <2>5. CASE Enqueue(Front) \/ Link(Front) \/ SkipRun(Front) \/ FailRun(Front)
    <3>1. \/ Ends(Front, me[Front].out) /\ me[Front].at \in {"enqueue", "link", "skip"}
          \/ Ends(Front, "failed") /\ me[Front].at = "fail"
      BY <1>1, <2>5, MovesOf DEF Enqueue, Link, SkipRun, FailRun, Outs
    <3> QED
      BY <1>1, <2>5, <3>1 DEF Enqueue, Link, SkipRun, FailRun, GoesOnAttempt
  <2> QED
    BY <1>4, <2>1, <2>2, <2>3, <2>4, <2>5 DEF Dispatch
<1>5. CASE Admission(Front)
  <2>1. ASSUME NEW s \in {"skipped", Initial}, Admit(Front, s) PROVE GoesOnAttempt
    <3>1. \/ Ends(Front, "dispatched")
          \/ Starts(Front, First(Front), Len(runs) + 1, 0, "dispatched")
      BY <1>1, <1>2, <2>1, MovesOf DEF Admit, Outs
    <3> QED
      BY <1>1, <2>1, <3>1 DEF Admit, GoesOnAttempt
  <2> QED
    BY <1>5, <2>1 DEF Admission, Reuse
<1>6. CASE QueryFails(Front)
  <2>1. OnError(Front, me[Front].at) /\ UNCHANGED row
    BY <1>1, <1>6 DEF QueryFails
  <2> QED
    BY <1>1, <2>1, Errs DEF GoesOnAttempt
<1>7. CASE Crash(Front)
  BY <1>1, <1>7, MovesOf DEF Crash, Release, EndsAttempt
<1>8. CASE PlanAttempt
  <2>1. CASE StartAttempt
    BY <1>1, <2>1, MovesOf DEF StartAttempt, Steps, BeginsAttempt
  <2>2. CASE LookUp
    BY <1>1, <2>2, LookUpMoves DEF LookUp, GoesOnAttempt
  <2>3. CASE LoadPlan \/ Recover
    BY <1>1, <2>3, MovesOf DEF LoadPlan, Recover, Steps, Outs, GoesOnAttempt
  <2>4. CASE FinishPlan
    BY <1>1, <2>4, MovesOf DEF FinishPlan, Release, EndsAttempt
  <2> QED
    BY <1>8, <2>1, <2>2, <2>3, <2>4 DEF PlanAttempt
<1>9. CASE Request
  BY <1>1, <1>9 DEF Request, Receive, Persist, Ignore, FinishReplay
<1> QED
  BY <1>1, <1>4, <1>5, <1>6, <1>7, <1>8, <1>9 DEF Act

\* The rest of the steps leave the plan to its attempt.
LEMMA PlanStays ==
  ASSUME TypeOK, Places, entry = "plan", Elsewhere \/ UNCHANGED vars
  PROVE  UNCHANGED <<status, attempts, lease, me>>
BY DEF Elsewhere, Outcome, TaskEnds, IssueCloses, Switch, LeaseExpires, vars, row

LEMMA AttemptMoves ==
  ASSUME TypeOK, Places, entry = "plan", PlanInv, [Next]_vars
  PROVE  GoesOnAttempt \/ BeginsAttempt \/ EndsAttempt \/ UNCHANGED <<status, attempts, lease, me>>
<1>1. \A w \in Workers : w \in Procs /\ ~Act(w)
  BY WorkerPlaces DEF Procs
<1> QED
  BY <1>1, PlanMoves, PlanStays, Actors DEF PlanInv, Procs

LEMMA PlanInvStep ==
  ASSUME TypeOK, Places, PlanInv, [Next]_vars
  PROVE  PlanInv'
<1> SUFFICES ASSUME entry = "plan" PROVE Reports' /\ Attempted'
  BY Static DEF PlanInv
<1>1. /\ Attempted /\ Reports /\ MaxAttempts \in Nat \ {0} /\ attempts \in Nat
      /\ me[Front].at # "idle" => status = "queued"
  BY DispatchAssumption DEF PlanInv, TypeOK, Places
<1>2. CASE GoesOnAttempt
  BY <1>1, <1>2 DEF GoesOnAttempt, Attempted
<1>3. CASE BeginsAttempt
  <2>1. me[Front].at = "idle"
    BY <1>1, <1>3, DispatchAssumption DEF BeginsAttempt, StartAttempt, Attempted
  <2> QED
    BY <1>1, <1>3, <2>1 DEF BeginsAttempt, StartAttempt, Attempted, Reports
<1>4. CASE EndsAttempt
  BY <1>1, <1>4 DEF EndsAttempt, Attempted, Reports
<1>5. CASE UNCHANGED <<status, attempts, lease, me>>
  BY <1>1, <1>5 DEF Attempted, Reports
<1> QED
  BY <1>2, <1>3, <1>4, <1>5, AttemptMoves

LEMMA InitPlanInv == Init => PlanInv
<1> SUFFICES ASSUME Init PROVE PlanInv
  OBVIOUS
<1>1. me[Front].at = "idle"
  BY DEF Init, Idle, Doing, Procs
<1> QED
  BY <1>1, DispatchAssumption DEF Init, PlanInv, Reports, Attempted

LedgerStep == [Ledger!Next]_(Ledger!vars)

\* Of an occurrence that is no plan the ledger sees nothing.
LEMMA NoPlan ==
  ASSUME entry # "plan", entry' = entry
  PROVE  LedgerStep
<1>1. Stage = "NONE" /\ Stage' = "NONE"
  BY DEF Stage
<1> QED
  BY <1>1 DEF LedgerStep, Ledger!vars

LEMMA LedgerStepOfPlan ==
  ASSUME TypeOK, Places, PlanInv, entry = "plan", entry' = entry, PlanInv',
         GoesOnAttempt \/ BeginsAttempt \/ EndsAttempt \/ UNCHANGED <<status, attempts, lease, me>>
  PROVE  LedgerStep
<1>1. /\ Attempted /\ Reports /\ MaxAttempts \in Nat \ {0} /\ attempts \in Nat /\ None # Front
      /\ me[Front].at # "idle" => status = "queued"
  BY DispatchAssumption DEF PlanInv, TypeOK, Places, Procs
<1>2. CASE GoesOnAttempt \/ UNCHANGED <<status, attempts, lease, me>>
  <2>1. Stage' = Stage /\ attempts' = attempts /\ lease' = lease
    BY <1>2 DEF GoesOnAttempt, Stage
  <2> QED
    BY <2>1 DEF LedgerStep, Ledger!vars
<1>3. CASE BeginsAttempt
  <2>1. /\ Stage \in {"NONE", "FAILED"} /\ Stage' = "RUNNING"
        /\ attempts < MaxAttempts /\ attempts' = attempts + 1 /\ lease' = Front
    BY <1>1, <1>3 DEF BeginsAttempt, StartAttempt, Stage, Attempted
  <2>2. Ledger!Attempt("plan", Front)
    BY <2>1 DEF Ledger!Attempt, Plan
  <2> QED
    BY <2>2 DEF LedgerStep, Ledger!Next, Plan
<1>4. CASE EndsAttempt
  <2>1. /\ Stage = "RUNNING" /\ Stage' \in {"FAILED", "SUCCESS"}
        /\ attempts' = attempts /\ lease = Front /\ lease' = None
    BY <1>1, <1>4 DEF EndsAttempt, Stage, Attempted
  <2>2. Ledger!Conclude("plan", Front)
    BY <2>1 DEF Ledger!Conclude, Plan
  <2> QED
    BY <2>2 DEF LedgerStep, Ledger!Next, Plan
<1> QED
  BY <1>2, <1>3, <1>4

\* A plan's attempts, as this module has them, are attempts the scheduler can
\* make: CronScheduler implements the same ledger (autopilot_schedule.go).
THEOREM PlanImplementsLedger == Spec => PlanKeepsLedger
<1>1. Init => Ledger!Init
  <2> SUFFICES ASSUME Init PROVE Ledger!Init
    OBVIOUS
  <2>1. Stage = "NONE" /\ attempts = 0 /\ lease = None
    BY DEF Init, Stage
  <2> QED
    BY <2>1 DEF Ledger!Init
<1>2. TypeOK /\ Places /\ PlanInv /\ [Next]_vars => LedgerStep
  BY Static, AttemptMoves, PlanInvStep, LedgerStepOfPlan, NoPlan
<1>3. Init => TypeOK /\ Places /\ PlanInv
  BY InitTyped, InitPlaces, InitPlanInv
<1>4. TypeOK /\ Places /\ PlanInv /\ [Next]_vars => TypeOK' /\ Places' /\ PlanInv'
  BY TypedStep, PlacesStep, PlanInvStep
<1> QED
  BY <1>1, <1>2, <1>3, <1>4, PTL DEF Spec, PlanKeepsLedger, Ledger!Spec, LedgerStep

=============================================================================
