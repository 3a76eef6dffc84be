----------------------------- MODULE ClaimPath -----------------------------
(***************************************************************************)
(* How a queued row of agent_task_queue gets from its INSERT to a slot of  *)
(* a daemon: the version-tagged cache of "this runtime has nothing         *)
(* queued" (EmptyClaimCache), the bump and the wakeup every enqueue owes,  *)
(* the machine-level claim call (ClaimTasksForRuntimes), and the daemon's  *)
(* batch poller with its slots and its one-place wakeup channel.           *)
(*                                                                         *)
(* One daemon hosts Runtimes; Elsewhere is a runtime of another machine on *)
(* which an agent may still have rows.  A claim call is a sequence of      *)
(* statements and Redis commands, each a step; a call the daemon has given *)
(* up on still runs to its end.                                            *)
(*                                                                         *)
(* Abstracted: clocks (TTLs and poll intervals are steps that may happen   *)
(* at any time), priorities, the lanes of TaskQueue (each row here has an  *)
(* issue of its own, so only the agent's limit blocks it), the transport   *)
(* of a call (WebSocket or HTTP), the auto-update barrier, cancellation,   *)
(* the other machine's own claims, mergeLegacyRuntime, the death of this   *)
(* daemon and the expiry of version keys after 24 hours.                   *)
(*                                                                         *)
(* An operator named Op_Slip, placed just before Op, is a variant of Op    *)
(* with one plausible mistake; no specification uses it.                   *)
(***************************************************************************)
EXTENDS Naturals, FiniteSets

CONSTANTS
    Rows,            \* row identities
    Agents, AgentOf, \* the agent of each row
    Room,            \* agent -> max_concurrent_tasks
    Runtimes,        \* the runtimes of the daemon
    Elsewhere,       \* runtimes of other daemons
    Calls,           \* claim calls the server may be executing
    Slots,           \* the daemon's MaxConcurrentTasks
    MaxFaults,       \* bound: failures of Redis, of calls and of servers
    None

ASSUME RowsAssumption ==
    /\ IsFiniteSet(Rows) /\ IsFiniteSet(Runtimes)
    /\ AgentOf \in [Rows -> Agents] /\ Room \in [Agents -> Nat]
ASSUME NoneAssumption == None \notin Nat \cup Calls \cup Runtimes \cup Elsewhere
ASSUME ElsewhereAssumption == Elsewhere \cap Runtimes = {}
ASSUME CallersAssumption == {"enqueue", "report"} \cap Calls = {}
ASSUME BoundsAssumption == Slots \in Nat /\ MaxFaults \in Nat \ {0}

VARIABLES
    row,        \* row -> status column; "none" before the INSERT
    home,       \* row -> runtime_id
    version,    \* runtime -> invalidation counter in Redis, 0 if missing
    verdict,    \* runtime -> version of its "empty" verdict, None if no key
    told,       \* history: queued rows whose runtime was bumped since
    notices,    \* notifyRuntimeMayHaveWork calls that have not returned
    at,         \* call -> next statement, "idle" if the server runs none
    todo,       \* call -> runtimes whose verdict it has not asked for
    missed,     \* call -> runtime without a verdict, version not read yet
    seen,       \* call -> runtime -> version read before the SELECT
    agents,     \* call -> agents it will still claim for
    got,        \* call -> rows it has reclaimed or claimed
    quota,      \* call -> max_tasks
    poller,     \* "ready", "blocked" (no slot), "calling" or "asleep"
    current,    \* the call the poller waits for
    nudge,      \* is there a token in the wakeup channel?
    link,       \* the daemon's WebSocket: "down", "dialled" or "up"
    holds,      \* rows that occupy a slot of the daemon
    faults      \* number of failures so far

table  == <<row, home>>
redis  == <<version, verdict, told>>
calls  == <<at, todo, missed, seen, agents, got, quota>>
daemon == <<poller, current, nudge, link, holds>>
vars   == <<table, redis, notices, calls, daemon, faults>>

Homes    == Runtimes \cup Elsewhere
Versions == Nat \cup {None}

\* A row's notice: who owes it, for which runtime, and what comes next.
Notices == [row : Rows, by : Calls \cup {"enqueue", "report"}, run : Homes,
            next : {"bump", "wake"}]

Owed(t, who, r) == [row |-> t, by |-> who, run |-> r, next |-> "bump"]
OwedBy(c) == {n \in notices : n.by = c}

Queued(r) == {t \in Rows : row[t] = "queued" /\ home[t] = r}
Busy(a)   == {t \in Rows : row[t] = "dispatched" /\ AgentOf[t] = a}
HasRoom(a) == Cardinality(Busy(a)) < Room[a]

Stranded_NoWindow == {t \in Rows : row[t] = "dispatched" /\ t \notin holds}

\* Dispatched rows whose answer was lost: the ones a later call redelivers. The
\* code asks two clocks: the lease is over, and the dispatch is older than the
\* time a claim and a start may take (claimResponseRecoveryWindow). Assumed here
\* is what they are meant to ensure, that no call and no daemon has the row by
\* then; TaskQueue, where a lease may run out at any time, does without.
Stranded == {t \in Rows : /\ row[t] = "dispatched" /\ t \notin holds
                          /\ \A c \in Calls : t \notin got[c]}

\* The slots the poller takes before it claims.
Free == Slots - Cardinality(holds)

\* At most MaxFaults things go wrong.  (Only a hint missed by a new socket
\* is not held back by the bound: see WakeMisses.)
Fault == faults < MaxFaults /\ faults' = faults + 1

-----------------------------------------------------------------------------
(* Rows appear and finish; each change owes the runtime a notice.          *)

Enqueue(t, r) ==
    /\ row[t] = "none"
    /\ row'  = [row EXCEPT ![t] = "queued"]
    /\ home' = [home EXCEPT ![t] = r]
    /\ notices' = notices \cup {Owed(t, "enqueue", r)}
    /\ UNCHANGED <<redis, calls, daemon, faults>>

EnqueueDeferred(t, r) ==
    /\ row[t] = "none"
    /\ row'  = [row EXCEPT ![t] = "deferred"]
    /\ home' = [home EXCEPT ![t] = r]
    /\ UNCHANGED <<redis, notices, calls, daemon, faults>>

\* The terminal report of a row's run.
Complete(t) ==
    /\ t \in holds /\ row[t] = "dispatched"
    /\ row' = [row EXCEPT ![t] = "done"]
    /\ notices' = notices \cup {Owed(t, "report", home[t])}
    /\ UNCHANGED <<home, redis, calls, daemon, faults>>

\* Once the report is through, the goroutine returns its slot and wakes the
\* poller, in this order.
Release(t) ==
    /\ t \in holds /\ row[t] = "done"
    /\ holds' = holds \ {t}
    /\ nudge' = TRUE
    /\ UNCHANGED <<table, redis, notices, calls, poller, current, link, faults>>

\* The sweeper fails a row that stays dispatched and is not redelivered.
Sweep(t) ==
    /\ t \in Stranded
    /\ row' = [row EXCEPT ![t] = "done"]
    /\ notices' = notices \cup {Owed(t, "report", home[t])}
    /\ UNCHANGED <<home, redis, calls, daemon, faults>>

-----------------------------------------------------------------------------
(* notifyRuntimeMayHaveWork: bump, then wake the daemon.                   *)

Later(n) == (notices \ {n}) \cup {[n EXCEPT !.next = "wake"]}

Bump(n) ==
    /\ n.next = "bump"
    /\ version' = [version EXCEPT ![n.run] = @ + 1]
    /\ told' = told \cup Queued(n.run)
    /\ notices' = Later(n)
    /\ UNCHANGED <<table, verdict, calls, daemon, faults>>

\* A Redis error is logged and swallowed.
BumpFails(n) ==
    /\ n.next = "bump" /\ Fault
    /\ notices' = Later(n)
    /\ UNCHANGED <<table, redis, calls, daemon>>

\* The hint reaches the poller if the socket is up, and is lost if it is
\* down.  Tokens beyond the first are dropped.
Wake(n) ==
    /\ n.next = "wake" /\ link # "dialled"
    /\ notices' = notices \ {n}
    /\ nudge' = (nudge \/ (link = "up" /\ n.run \in Runtimes))
    /\ UNCHANGED <<table, redis, calls, poller, current, link, holds, faults>>

\* The daemon takes its new socket for connected, the hub does not know it
\* yet.
WakeMisses(n) ==
    /\ n.next = "wake" /\ link = "dialled"
    /\ notices' = notices \ {n}
    /\ faults' = IF faults < MaxFaults THEN faults + 1 ELSE faults
    /\ UNCHANGED <<table, redis, calls, daemon>>

\* The server dies between the commit and the wakeup.
LoseNotice(n) ==
    /\ n.by \notin Calls /\ Fault
    /\ notices' = notices \ {n}
    /\ UNCHANGED <<table, redis, calls, daemon>>

Expire_Never(r) == verdict[r] # None /\ UNCHANGED vars

\* EmptyClaimCacheTTL runs out.
Expire(r) ==
    /\ verdict[r] # None
    /\ verdict' = [verdict EXCEPT ![r] = None]
    /\ UNCHANGED <<table, version, told, notices, calls, daemon, faults>>

-----------------------------------------------------------------------------
(* The daemon: the batch poller and its socket.                            *)

Reset(c, stage, runtimes, max) ==
    /\ at'     = [at EXCEPT ![c] = stage]
    /\ todo'   = [todo EXCEPT ![c] = runtimes]
    /\ missed' = [missed EXCEPT ![c] = None]
    /\ seen'   = [seen EXCEPT ![c] = [r \in Runtimes |-> None]]
    /\ agents' = [agents EXCEPT ![c] = {}]
    /\ got'    = [got EXCEPT ![c] = {}]
    /\ quota'  = [quota EXCEPT ![c] = max]

\* Take all free slots and ask for as many rows.
StartCall(c) ==
    /\ poller = "ready" /\ Free > 0 /\ at[c] = "idle"
    /\ poller' = "calling" /\ current' = c
    /\ Reset(c, "promote", Runtimes, Free)
    /\ UNCHANGED <<table, redis, notices, nudge, link, holds, faults>>

Move(from, to) ==
    /\ poller = from /\ poller' = to
    /\ UNCHANGED <<table, redis, notices, calls, current, link, holds, faults>>

Block      == Free = 0 /\ Move("ready", "blocked") /\ UNCHANGED nudge
Unblock    == Free > 0 /\ Move("blocked", "ready") /\ UNCHANGED nudge
WakeBlocked == nudge /\ nudge' = FALSE /\ Move("blocked", "ready")
WakeAsleep == nudge /\ nudge' = FALSE /\ Move("asleep", "ready")

\* taskSlotWaitTimeout, and PollInterval or the capacity backoff.
Doze == Move("blocked", "asleep") /\ UNCHANGED nudge
Tick == Move("asleep", "ready") /\ UNCHANGED nudge

Break ==
    /\ link # "down" /\ link' = "down"
    /\ UNCHANGED <<table, redis, notices, calls, poller, current, nudge, holds, faults>>

Dial_NoCatchUp ==
    /\ link = "down" /\ link' = "dialled"
    /\ UNCHANGED <<table, redis, notices, calls, poller, current, nudge, holds, faults>>

\* What happened while the socket was down is caught up with by one claim.
Dial ==
    /\ link = "down" /\ link' = "dialled"
    /\ nudge' = TRUE
    /\ UNCHANGED <<table, redis, notices, calls, poller, current, holds, faults>>

Register ==
    /\ link = "dialled" /\ link' = "up"
    /\ UNCHANGED <<table, redis, notices, calls, poller, current, nudge, holds, faults>>

\* A timeout, or a connection lost with the request: the daemon goes on, and
\* so does the call.
Abandon ==
    /\ poller = "calling" /\ Fault
    /\ poller' = "asleep" /\ current' = None
    /\ UNCHANGED <<table, redis, notices, calls, nudge, link, holds>>

-----------------------------------------------------------------------------
(* ClaimTasksForRuntimes and its handler, statement by statement.          *)

Stage(c, from, to) == at[c] = from /\ at' = [at EXCEPT ![c] = to]

\* Promoted rows are announced by the call itself, before it goes on.
Promote(c, due) ==
    /\ Stage(c, "promote", "reclaim")
    /\ \A t \in due : row[t] = "deferred" /\ home[t] \in Runtimes
    /\ row' = [t \in Rows |-> IF t \in due THEN "queued" ELSE row[t]]
    /\ notices' = notices \cup {Owed(t, c, home[t]) : t \in due}
    /\ UNCHANGED <<home, redis, todo, missed, seen, agents, got, quota, daemon, faults>>

\* Redeliver rows whose recovery window is over; a full batch is the answer.
Reclaim(c, stale) ==
    /\ OwedBy(c) = {} /\ Cardinality(stale) <= quota[c]
    /\ \A t \in stale : t \in Stranded /\ home[t] \in Runtimes
    /\ Stage(c, "reclaim", IF Cardinality(stale) = quota[c] THEN "answer" ELSE "check")
    /\ got' = [got EXCEPT ![c] = stale]
    /\ UNCHANGED <<table, redis, notices, todo, missed, seen, agents, quota, daemon, faults>>

\* IsEmpty holds: the runtime is left out of this call.
CheckHit(c, r) ==
    /\ at[c] = "check" /\ r \in todo[c] /\ missed[c] = None
    /\ verdict[r] = version[r]
    /\ todo' = [todo EXCEPT ![c] = @ \ {r}]
    /\ UNCHANGED <<table, redis, notices, at, missed, seen, agents, got, quota, daemon, faults>>

\* It does not hold, or Redis cannot say.
CheckMiss(c, r) ==
    /\ at[c] = "check" /\ r \in todo[c] /\ missed[c] = None
    /\ \/ verdict[r] # version[r] /\ UNCHANGED faults
       \/ verdict[r] = version[r] /\ Fault
    /\ todo'   = [todo EXCEPT ![c] = @ \ {r}]
    /\ missed' = [missed EXCEPT ![c] = r]
    /\ UNCHANGED <<table, redis, notices, at, seen, agents, got, quota, daemon>>

\* CurrentVersion, 0 after a Redis error.
ReadVersion(c) ==
    /\ at[c] = "check" /\ missed[c] # None
    /\ \/ seen' = [seen EXCEPT ![c][missed[c]] = version[missed[c]]] /\ UNCHANGED faults
       \/ seen' = [seen EXCEPT ![c][missed[c]] = 0] /\ Fault
    /\ missed' = [missed EXCEPT ![c] = None]
    /\ UNCHANGED <<table, redis, notices, at, todo, agents, got, quota, daemon>>

\* The candidate SELECT over the runtimes without a verdict.  From here on
\* seen keeps the versions of those that turned out empty.
List(c) ==
    LET asked == {r \in Runtimes : seen[c][r] # None} IN
    /\ todo[c] = {} /\ missed[c] = None
    /\ Stage(c, "check", IF asked = {} THEN "answer" ELSE "mark")
    /\ agents' = [agents EXCEPT ![c] = {AgentOf[t] : t \in UNION {Queued(r) : r \in asked}}]
    /\ seen' = [seen EXCEPT ![c] = [r \in Runtimes |->
                  IF Queued(r) = {} THEN seen[c][r] ELSE None]]
    /\ UNCHANGED <<table, redis, notices, todo, missed, got, quota, daemon, faults>>

Marked(c, r) ==
    /\ at[c] = "mark" /\ seen[c][r] # None
    /\ seen' = [seen EXCEPT ![c][r] = None]
    /\ UNCHANGED <<table, version, told, notices, at, todo, missed, agents, got, quota, daemon>>

Mark_VersionReadLate(c, r) ==
    Marked(c, r) /\ verdict' = [verdict EXCEPT ![r] = version[r]] /\ UNCHANGED faults

\* MarkEmpty with the version read before the SELECT.
Mark(c, r) ==
    Marked(c, r) /\ verdict' = [verdict EXCEPT ![r] = seen[c][r]] /\ UNCHANGED faults

MarkFails(c, r) == Marked(c, r) /\ UNCHANGED verdict /\ Fault

QuotaLeft_OneMore(c) == Cardinality(got[c]) <= quota[c]

QuotaLeft(c) == Cardinality(got[c]) < quota[c]

Claiming(c, a) ==
    /\ at[c] = "mark" /\ (\A r \in Runtimes : seen[c][r] = None)
    /\ a \in agents[c] /\ QuotaLeft(c)
    /\ agents' = [agents EXCEPT ![c] = @ \ {a}]
    /\ UNCHANGED <<home, version, verdict, notices, at, todo, missed, seen, quota, daemon, faults>>

\* ClaimTask picks a row by agent; one of another machine is left dispatched
\* and out of the answer.
ClaimAgent(c, a, t) ==
    /\ Claiming(c, a)
    /\ HasRoom(a) /\ row[t] = "queued" /\ AgentOf[t] = a
    /\ row'  = [row EXCEPT ![t] = "dispatched"]
    /\ told' = told \ {t}
    /\ got'  = IF home[t] \in Runtimes THEN [got EXCEPT ![c] = @ \cup {t}] ELSE got

\* No capacity, or nothing queued any more.
ClaimNothing(c, a) ==
    /\ Claiming(c, a)
    /\ ~HasRoom(a) \/ (\A t \in Rows : AgentOf[t] = a => row[t] # "queued")
    /\ UNCHANGED <<row, told, got>>

EndClaims(c) ==
    /\ Stage(c, "mark", "answer")
    /\ \A r \in Runtimes : seen[c][r] = None
    /\ agents[c] = {} \/ ~QuotaLeft(c)
    /\ UNCHANGED <<table, redis, notices, todo, missed, seen, agents, got, quota, daemon, faults>>

\* A statement fails: what is claimed already is the answer.
CallFails(c) ==
    /\ OwedBy(c) = {} /\ Fault
    /\ \/ Stage(c, "promote", "answer")
       \/ Stage(c, "reclaim", "answer")
       \/ Stage(c, "check", "answer") /\ todo[c] = {} /\ missed[c] = None
       \/ Stage(c, "mark", "answer") /\ agents[c] # {}
    /\ UNCHANGED <<table, redis, notices, todo, missed, seen, agents, got, quota, daemon>>

\* FinalizeTaskClaim fails. The claim is rolled back and announced, unless that
\* fails as well and the row is left to a redelivery.
FinalizeFails(c, t) ==
    /\ at[c] = "answer" /\ t \in got[c] /\ Fault
    /\ got' = [got EXCEPT ![c] = @ \ {t}]
    /\ \/ row' = [row EXCEPT ![t] = "queued"] /\ notices' = notices \cup {Owed(t, c, home[t])}
       \/ UNCHANGED <<row, notices>>
    /\ UNCHANGED <<home, redis, at, todo, missed, seen, agents, quota, daemon>>

\* The poller starts what it got.  A full batch is followed by another call.
Answer(c) ==
    /\ at[c] = "answer" /\ OwedBy(c) = {}
    /\ Reset(c, "idle", {}, 0)
    /\ IF current = c
       THEN /\ holds' = holds \cup got[c]
            /\ poller' = IF Cardinality(got[c]) = quota[c] THEN "ready" ELSE "asleep"
            /\ current' = None
       ELSE UNCHANGED <<holds, poller, current>>
    /\ UNCHANGED <<table, redis, notices, nudge, link, faults>>

\* The server executing the call dies.
LoseCall(c) ==
    /\ at[c] # "idle" /\ Fault
    /\ Reset(c, "idle", {}, 0)
    /\ notices' = notices \ OwedBy(c)
    /\ IF current = c THEN poller' = "asleep" /\ current' = None
                      ELSE UNCHANGED <<poller, current>>
    /\ UNCHANGED <<table, redis, nudge, link, holds>>

-----------------------------------------------------------------------------
Init ==
    /\ row = [t \in Rows |-> "none"] /\ home = [t \in Rows |-> None]
    /\ version = [r \in Homes |-> 0] /\ verdict = [r \in Homes |-> None]
    /\ told = {} /\ notices = {}
    /\ at = [c \in Calls |-> "idle"]
    /\ todo = [c \in Calls |-> {}] /\ missed = [c \in Calls |-> None]
    /\ seen = [c \in Calls |-> [r \in Runtimes |-> None]]
    /\ agents = [c \in Calls |-> {}] /\ got = [c \in Calls |-> {}]
    /\ quota = [c \in Calls |-> 0]
    /\ poller = "ready" /\ current = None /\ nudge = FALSE /\ link = "up"
    /\ holds = {} /\ faults = 0

RowStep(t) ==
    \/ \E r \in Homes : Enqueue(t, r) \/ EnqueueDeferred(t, r)
    \/ Complete(t) \/ Release(t) \/ Sweep(t)

Announce == \E n \in notices : Bump(n) \/ Wake(n) \/ WakeMisses(n)

Announced ==
    \/ Announce
    \/ \E n \in notices : BumpFails(n) \/ LoseNotice(n)

PollerStep ==
    \/ \E c \in Calls : StartCall(c)
    \/ Block \/ Unblock \/ WakeBlocked \/ WakeAsleep \/ Doze \/ Tick

LinkStep == Break \/ Dial \/ Register

\* What a call does when nothing stops it.
CallStep(c) ==
    \/ \E due \in SUBSET {t \in Rows : row[t] = "deferred"} : Promote(c, due)
    \/ \E stale \in SUBSET Stranded : Reclaim(c, stale)
    \/ \E r \in Runtimes : CheckHit(c, r) \/ CheckMiss(c, r) \/ Mark(c, r)
    \/ ReadVersion(c) \/ List(c) \/ EndClaims(c) \/ Answer(c)
    \/ \E a \in agents[c] : ClaimNothing(c, a) \/ \E t \in Rows : ClaimAgent(c, a, t)

CallTrouble(c) ==
    \/ CallFails(c) \/ LoseCall(c)
    \/ \E r \in Runtimes : MarkFails(c, r)
    \/ \E t \in got[c] : FinalizeFails(c, t)

Next ==
    \/ \E t \in Rows : RowStep(t)
    \/ Announced \/ PollerStep \/ LinkStep \/ Abandon
    \/ \E r \in Runtimes : Expire(r)
    \/ \E c \in Calls : CallStep(c) \/ CallTrouble(c)

Spec == Init /\ [][Next]_vars

\* Runs end, the sweeper sweeps, keys expire, sockets are accepted, and
\* neither the poller nor a call stops halfway.
LiveSpec ==
    /\ Spec
    /\ WF_vars(Announce) /\ WF_vars(PollerStep) /\ WF_vars(Register)
    /\ \A t \in Rows : WF_vars(Complete(t)) /\ WF_vars(Release(t)) /\ WF_vars(Sweep(t))
    /\ \A r \in Runtimes : WF_vars(Expire(r))
    /\ \A c \in Calls : WF_vars(CallStep(c))

-----------------------------------------------------------------------------
(* Properties                                                              *)

Stages == {"idle", "promote", "reclaim", "check", "mark", "answer"}

\* Every variable has its type; in particular no call is asked for more rows
\* than the daemon has slots.
TypeOK ==
    /\ row \in [Rows -> {"none", "deferred", "queued", "dispatched", "done"}]
    /\ home \in [Rows -> Homes \cup {None}]
    /\ version \in [Homes -> Nat] /\ verdict \in [Homes -> Versions]
    /\ told \in SUBSET Rows /\ notices \in SUBSET Notices
    /\ at \in [Calls -> Stages]
    /\ todo \in [Calls -> SUBSET Runtimes] /\ missed \in [Calls -> Runtimes \cup {None}]
    /\ seen \in [Calls -> [Runtimes -> Versions]]
    /\ agents \in [Calls -> SUBSET Agents] /\ got \in [Calls -> SUBSET Rows]
    /\ quota \in [Calls -> 0..Slots]
    /\ poller \in {"ready", "blocked", "calling", "asleep"}
    /\ current \in Calls \cup {None}
    /\ nudge \in BOOLEAN /\ link \in {"down", "dialled", "up"}
    /\ holds \in SUBSET Rows /\ faults \in 0..MaxFaults

\* An "empty" verdict never hides a row whose enqueue has bumped the
\* runtime: whichever calls were between their SELECT and their MarkEmpty,
\* the next IsEmpty of that runtime fails (empty_claim_cache.go: version read
\* before the SELECT, Bump after the INSERT).
ToldIsVisible ==
    \A t \in told : row[t] = "queued" /\
        (home[t] \in Runtimes => verdict[home[t]] # version[home[t]])

\* The daemon is never given more rows than it has slots, with calls it gave
\* up on still claiming and slots coming free while a call is under way; and
\* no row is in two answers.
ClaimsFitSlots ==
    /\ Cardinality(holds) <= Slots
    /\ current # None => Cardinality(holds \cup got[current]) <= Slots
    /\ \A c \in Calls : Cardinality(got[c]) <= quota[c] /\ got[c] \cap holds = {}
    /\ \A c, d \in Calls : c # d => got[c] \cap got[d] = {}

\* Nothing is under way: no notice, no token, no call, and the poller sleeps
\* until PollInterval with a slot to spare.
Quiet ==
    /\ notices = {} /\ ~nudge /\ link = "up" /\ poller = "asleep" /\ Free > 0
    /\ \A c \in Calls : at[c] = "idle"

\* An agent of this machine.
Local(a) == \A t \in Rows : AgentOf[t] = a => home[t] \in Runtimes \cup {None}

\* No wakeup is lost between an enqueue, the hub, the one-place channel and
\* the poller: unless something failed, the poller never falls asleep over a
\* queued row whose agent runs nothing.
NotifiedIsServed ==
    faults = 0 /\ Quiet =>
        \A t \in told : Local(AgentOf[t]) /\ HasRoom(AgentOf[t]) => Busy(AgentOf[t]) # {}

\* A row queued on this machine is done in the end, whatever notice, verdict,
\* answer or server was lost.
QueuedIsDone ==
    \A t \in Rows :
        (row[t] = "queued" /\ home[t] \in Runtimes) ~> (row[t] = "done")

-----------------------------------------------------------------------------
(* The path implements the ledger that TaskQueue implements. Each row has  *)
(* a lane of its own here and no retry; which outcome closed it is not     *)
(* kept.                                                                   *)

Phase(t) ==
    CASE row[t] = "none" -> "none"
      [] row[t] \in {"queued", "deferred"} -> "open"
      [] row[t] = "dispatched" -> "held"
      [] row[t] = "done" -> "completed"

Ledger == INSTANCE TaskLedger WITH
    Lanes <- Rows,
    MaxTries <- 1,
    phase <- [t \in Rows |-> Phase(t)],
    lane <- [t \in Rows |-> IF row[t] = "none" THEN None ELSE t],
    tries <- [t \in Rows |-> IF row[t] = "none" THEN 0 ELSE 1],
    parent <- [t \in Rows |-> None]

\* Whatever becomes of notices, calls and answers, a row is open, handed out and
\* closed as the ledger has it: no call rolls back a row that has been finished,
\* swept or claimed by another call since, and what is done is not handed out
\* again (daemon.go, ClaimTasksForRuntimes; task.go, rollbackTaskClaim).
ImplementsLedger == Ledger!Spec

=============================================================================
