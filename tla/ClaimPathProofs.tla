-------------------------- MODULE ClaimPathProofs --------------------------
(***************************************************************************)
(* Proofs about ClaimPath, for every value of its constants.               *)
(***************************************************************************)
EXTENDS ClaimPath, FiniteSetTheorems, TLAPS

-----------------------------------------------------------------------------
(* Types.                                                                  *)

\* A row that was inserted has a runtime, and only such rows are claimed.
Placed ==
    \A t \in Rows : /\ row[t] # "none" => home[t] \in Homes
                    /\ \A c \in Calls : t \in got[c] => row[t] # "none"

Typed == TypeOK /\ Placed

LEMMA NoticeTyped ==
  ASSUME NEW t \in Rows, NEW who \in Calls \cup {"enqueue", "report"}, NEW r \in Homes
  PROVE  Owed(t, who, r) \in Notices
  BY DEF Owed, Notices

LEMMA LaterTyped ==
  ASSUME notices \in SUBSET Notices, NEW n \in notices
  PROVE  Later(n) \in SUBSET Notices
<1>1. [n EXCEPT !.next = "wake"] \in Notices
  BY DEF Notices
<1> QED
  BY <1>1 DEF Later

LEMMA FreeBounds ==
  ASSUME TypeOK
  PROVE  /\ Cardinality(holds) \in Nat /\ Free \in Int /\ Free <= Slots
         /\ Free > 0 => Free \in 0..Slots
<1>1. IsFiniteSet(holds)
  BY RowsAssumption, FS_Subset DEF TypeOK
<1>2. Cardinality(holds) \in Nat
  BY <1>1, FS_CardinalityType
<1> QED
  BY <1>2, BoundsAssumption DEF Free

LEMMA ResetTyped ==
  ASSUME TypeOK, NEW c \in Calls, NEW stage \in Stages, NEW rs \in SUBSET Runtimes,
         NEW max \in 0..Slots, Reset(c, stage, rs, max)
  PROVE  /\ at' \in [Calls -> Stages]
         /\ todo' \in [Calls -> SUBSET Runtimes] /\ missed' \in [Calls -> Runtimes \cup {None}]
         /\ seen' \in [Calls -> [Runtimes -> Versions]]
         /\ agents' \in [Calls -> SUBSET Agents] /\ got' \in [Calls -> SUBSET Rows]
         /\ quota' \in [Calls -> 0..Slots]
         /\ \A d \in Calls : got'[d] = IF d = c THEN {} ELSE got[d]
  BY DEF TypeOK, Reset, Versions

LEMMA InitTyped == Init => Typed
<1> SUFFICES ASSUME Init PROVE Typed
  OBVIOUS
<1>1. TypeOK
  <2>1. /\ 0 \in 0..Slots /\ 0 \in 0..MaxFaults /\ "idle" \in Stages
        /\ None \in Versions /\ 0 \in Nat
    BY BoundsAssumption DEF Versions, Stages
  <2>2. /\ seen \in [Calls -> [Runtimes -> Versions]] /\ version \in [Homes -> Nat]
        /\ verdict \in [Homes -> Versions] /\ quota \in [Calls -> 0..Slots]
        /\ at \in [Calls -> Stages]
    BY <2>1 DEF Init
  <2> QED
    BY <2>1, <2>2 DEF Init, TypeOK
<1>2. Placed
  BY DEF Init, Placed
<1> QED
  BY <1>1, <1>2 DEF Typed

LEMMA RowStepTyped ==
  ASSUME Typed, NEW t \in Rows, RowStep(t)
  PROVE  Typed'
<1> USE DEF Typed, table, redis, calls, daemon
<1>1. ASSUME NEW r \in Homes, Enqueue(t, r)
      PROVE  Typed'
  <2>1. notices' \in SUBSET Notices
    <3>1. Owed(t, "enqueue", r) \in Notices
      BY NoticeTyped
    <3> QED
      BY <1>1, <3>1 DEF Enqueue, TypeOK
  <2>2. TypeOK'
    BY <1>1, <2>1 DEF Enqueue, TypeOK
  <2>3. Placed'
    BY <1>1 DEF Enqueue, TypeOK, Placed
  <2> QED
    BY <2>2, <2>3
<1>2. ASSUME NEW r \in Homes, EnqueueDeferred(t, r)
      PROVE  Typed'
  <2>2. TypeOK'
    BY <1>2 DEF EnqueueDeferred, TypeOK
  <2>3. Placed'
    BY <1>2 DEF EnqueueDeferred, TypeOK, Placed
  <2> QED
    BY <2>2, <2>3
<1>3. CASE Complete(t)
  <2>1. notices' \in SUBSET Notices
    <3>1. home[t] \in Homes
      BY <1>3 DEF Complete, Placed
    <3>2. Owed(t, "report", home[t]) \in Notices
      BY <3>1, NoticeTyped
    <3> QED
      BY <1>3, <3>2 DEF Complete, TypeOK
  <2>2. TypeOK'
    BY <1>3, <2>1 DEF Complete, TypeOK
  <2>3. Placed'
    BY <1>3 DEF Complete, TypeOK, Placed
  <2> QED
    BY <2>2, <2>3
<1>4. CASE Release(t)
  BY <1>4 DEF Release, TypeOK, Placed
<1>5. CASE Sweep(t)
  <2>1. row[t] # "none"
    BY <1>5 DEF Sweep, Stranded
  <2>2. notices' \in SUBSET Notices
    <3>1. home[t] \in Homes
      BY <2>1 DEF Placed
    <3>2. Owed(t, "report", home[t]) \in Notices
      BY <3>1, NoticeTyped
    <3> QED
      BY <1>5, <3>2 DEF Sweep, TypeOK
  <2>3. TypeOK'
    BY <1>5, <2>2 DEF Sweep, TypeOK
  <2>4. Placed'
    BY <1>5, <2>1 DEF Sweep, TypeOK, Placed
  <2> QED
    BY <2>3, <2>4
<1> QED
  BY <1>1, <1>2, <1>3, <1>4, <1>5 DEF RowStep

LEMMA AnnouncedTyped ==
  ASSUME Typed, Announced
  PROVE  Typed'
<1> USE DEF Typed, table, redis, calls, daemon
<1> PICK n \in notices : Bump(n) \/ Wake(n) \/ WakeMisses(n) \/ BumpFails(n) \/ LoseNotice(n)
  BY DEF Announced, Announce
<1>0. Later(n) \in SUBSET Notices /\ n.run \in Homes
  BY LaterTyped DEF TypeOK, Notices
<1>1. CASE Bump(n)
  BY <1>0, <1>1 DEF Bump, TypeOK, Placed, Queued
<1>2. CASE Wake(n)
  BY <1>2 DEF Wake, TypeOK, Placed
<1>3. CASE WakeMisses(n)
  BY <1>3, BoundsAssumption DEF WakeMisses, TypeOK, Placed
<1>4. CASE BumpFails(n)
  BY <1>0, <1>4, BoundsAssumption DEF BumpFails, Fault, TypeOK, Placed
<1>5. CASE LoseNotice(n)
  BY <1>5, BoundsAssumption DEF LoseNotice, Fault, TypeOK, Placed
<1> QED
  BY <1>1, <1>2, <1>3, <1>4, <1>5

LEMMA DaemonTyped ==
  ASSUME Typed, PollerStep \/ LinkStep \/ Abandon \/ (\E r \in Runtimes : Expire(r))
  PROVE  Typed'
<1> USE DEF Typed, table, redis, calls, daemon
<1>1. ASSUME NEW c \in Calls, StartCall(c)
      PROVE  Typed'
  <2>1. Free \in 0..Slots /\ "promote" \in Stages /\ Runtimes \in SUBSET Runtimes
    BY <1>1, FreeBounds DEF StartCall, Stages
  <2>2. Reset(c, "promote", Runtimes, Free)
    BY <1>1 DEF StartCall
  <2> HIDE DEF Typed
  <2>3. TypeOK /\ Placed
    BY DEF Typed
  <2>4. /\ at' \in [Calls -> Stages]
        /\ todo' \in [Calls -> SUBSET Runtimes] /\ missed' \in [Calls -> Runtimes \cup {None}]
        /\ seen' \in [Calls -> [Runtimes -> Versions]]
        /\ agents' \in [Calls -> SUBSET Agents] /\ got' \in [Calls -> SUBSET Rows]
        /\ quota' \in [Calls -> 0..Slots]
        /\ \A d \in Calls : got'[d] = IF d = c THEN {} ELSE got[d]
    BY <2>1, <2>2, <2>3, ResetTyped
  <2>5. /\ UNCHANGED <<table, redis, notices, nudge, link, holds, faults>>
        /\ poller' = "calling" /\ current' = c
    BY <1>1 DEF StartCall
  <2>6. TypeOK'
    BY <2>3, <2>4, <2>5 DEF TypeOK
  <2>7. Placed'
    BY <2>3, <2>4, <2>5 DEF Placed
  <2> QED
    BY <2>6, <2>7 DEF Typed
<1>2. CASE Block \/ Unblock \/ WakeBlocked \/ WakeAsleep \/ Doze \/ Tick
  BY <1>2 DEF Block, Unblock, WakeBlocked, WakeAsleep, Doze, Tick, Move, TypeOK, Placed
<1>3. CASE LinkStep
  BY <1>3 DEF LinkStep, Break, Dial, Register, TypeOK, Placed
<1>4. CASE Abandon
  BY <1>4, BoundsAssumption DEF Abandon, Fault, TypeOK, Placed
<1>5. ASSUME NEW r \in Runtimes, Expire(r)
      PROVE  Typed'
  BY <1>5 DEF Expire, TypeOK, Placed, Versions, Homes
<1> QED
  BY <1>1, <1>2, <1>3, <1>4, <1>5 DEF PollerStep

LEMMA PromoteTyped ==
  ASSUME Typed, NEW c \in Calls, NEW due \in SUBSET Rows, Promote(c, due)
  PROVE  Typed'
<1> USE DEF Typed, table, redis, calls, daemon
<1>1. notices' \in SUBSET Notices
  <2> SUFFICES ASSUME NEW t \in due PROVE Owed(t, c, home[t]) \in Notices
    BY DEF Promote, TypeOK
  <2>1. home[t] \in Homes
    BY DEF Promote, Homes
  <2> QED
    BY <2>1, NoticeTyped
<1>2. at' \in [Calls -> Stages]
  BY DEF Promote, Stage, TypeOK, Stages
<1>3. TypeOK'
  BY <1>1, <1>2 DEF Promote, TypeOK
<1>4. Placed'
  BY DEF Promote, TypeOK, Placed
<1> QED
  BY <1>3, <1>4

LEMMA ReclaimTyped ==
  ASSUME Typed, NEW c \in Calls, NEW stale \in SUBSET Rows, Reclaim(c, stale)
  PROVE  Typed'
<1> USE DEF Typed, table, redis, calls, daemon
<1>1. at' \in [Calls -> Stages]
  BY DEF Reclaim, Stage, TypeOK, Stages
<1>2. TypeOK'
  BY <1>1 DEF Reclaim, TypeOK
<1>3. Placed'
  BY DEF Reclaim, TypeOK, Placed, Stranded
<1> QED
  BY <1>2, <1>3

LEMMA SeenTyped ==
  ASSUME seen \in [Calls -> [Runtimes -> Versions]],
         NEW c \in Calls, NEW r \in Runtimes, NEW v \in Versions,
         seen' = [seen EXCEPT ![c][r] = v]
  PROVE  seen' \in [Calls -> [Runtimes -> Versions]]
  OBVIOUS

LEMMA CacheTyped ==
  ASSUME Typed, NEW c \in Calls, NEW r \in Runtimes,
         \/ CheckHit(c, r) \/ CheckMiss(c, r) \/ ReadVersion(c)
         \/ Mark(c, r) \/ MarkFails(c, r)
  PROVE  Typed'
<1> USE DEF Typed, table, redis, calls, daemon
<1>0. /\ 0 \in Versions /\ None \in Versions /\ r \in Homes
      /\ \A q \in Runtimes : q \in Homes /\ version[q] \in Versions
  BY DEF Versions, Homes, TypeOK
<1>1. CASE CheckHit(c, r)
  BY <1>1 DEF CheckHit, TypeOK, Placed
<1>2. CASE CheckMiss(c, r)
  BY <1>2, BoundsAssumption DEF CheckMiss, Fault, TypeOK, Placed
<1>3. CASE ReadVersion(c)
  <2>1. missed[c] \in Runtimes
    BY <1>3 DEF ReadVersion, TypeOK
  <2>2. seen' \in [Calls -> [Runtimes -> Versions]]
    <3>1. PICK v \in Versions : seen' = [seen EXCEPT ![c][missed[c]] = v]
      BY <1>0, <1>3, <2>1 DEF ReadVersion
    <3> QED
      BY <2>1, <3>1, SeenTyped DEF TypeOK
  <2>3. faults' \in 0..MaxFaults
    BY <1>3, BoundsAssumption DEF ReadVersion, Fault, TypeOK
  <2> QED
    BY <1>3, <2>2, <2>3 DEF ReadVersion, TypeOK, Placed
<1>4. CASE Mark(c, r) \/ MarkFails(c, r)
  <2>1. seen' \in [Calls -> [Runtimes -> Versions]]
    <3>1. seen' = [seen EXCEPT ![c][r] = None]
      BY <1>4 DEF Mark, MarkFails, Marked
    <3> QED
      BY <1>0, <3>1, SeenTyped DEF TypeOK
  <2>2. verdict' \in [Homes -> Versions]
    BY <1>0, <1>4 DEF Mark, MarkFails, Marked, TypeOK
  <2>3. faults' \in 0..MaxFaults
    BY <1>4, BoundsAssumption DEF Mark, MarkFails, Fault, TypeOK
  <2>4. UNCHANGED <<table, version, told, notices, at, todo, missed, agents, got, quota, daemon>>
    BY <1>4 DEF Mark, MarkFails, Marked
  <2>5. TypeOK'
    BY <2>1, <2>2, <2>3, <2>4 DEF TypeOK
  <2>6. Placed'
    BY <2>4 DEF Placed
  <2> QED
    BY <2>5, <2>6
<1> QED
  BY <1>1, <1>2, <1>3, <1>4

LEMMA ListTyped ==
  ASSUME Typed, NEW c \in Calls, List(c)
  PROVE  Typed'
<1> USE DEF Typed, table, redis, calls, daemon
<1>1. at' \in [Calls -> Stages]
  BY DEF List, Stage, TypeOK, Stages
<1>2. agents' \in [Calls -> SUBSET Agents]
  <2> DEFINE asked == {r \in Runtimes : seen[c][r] # None}
             found == UNION {Queued(r) : r \in asked}
             whose == {AgentOf[t] : t \in found}
  <2>1. found \in SUBSET Rows
    BY DEF Queued
  <2>2. whose \in SUBSET Agents
    <3>1. \A t \in Rows : AgentOf[t] \in Agents
      BY RowsAssumption
    <3> QED
      BY <2>1, <3>1
  <2>3. agents' = [agents EXCEPT ![c] = whose]
    BY DEF List
  <2> HIDE DEF whose
  <2> QED
    BY <2>2, <2>3 DEF TypeOK
<1>3. seen' \in [Calls -> [Runtimes -> Versions]]
  <2> DEFINE kept == [r \in Runtimes |-> IF Queued(r) = {} THEN seen[c][r] ELSE None]
  <2>1. kept \in [Runtimes -> Versions]
    BY DEF TypeOK, Versions
  <2>2. seen' = [seen EXCEPT ![c] = kept]
    BY DEF List
  <2> HIDE DEF kept
  <2> QED
    BY <2>1, <2>2 DEF TypeOK
<1>4. TypeOK'
  BY <1>1, <1>2, <1>3 DEF List, TypeOK
<1>5. Placed'
  BY DEF List, Placed
<1> QED
  BY <1>4, <1>5

LEMMA ClaimTyped ==
  ASSUME Typed, NEW c \in Calls, NEW a, NEW t \in Rows,
         ClaimNothing(c, a) \/ ClaimAgent(c, a, t)
  PROVE  Typed'
<1> USE DEF Typed, table, redis, calls, daemon
<1>1. /\ agents' \in [Calls -> SUBSET Agents]
      /\ UNCHANGED <<home, version, verdict, notices, at, todo, missed, seen, quota, daemon, faults>>
  BY DEF ClaimNothing, ClaimAgent, Claiming, TypeOK
<1>2. /\ row' \in [Rows -> {"none", "deferred", "queued", "dispatched", "done"}]
      /\ told' \in SUBSET Rows /\ got' \in [Calls -> SUBSET Rows]
  <2>1. CASE ClaimNothing(c, a)
    BY <2>1 DEF ClaimNothing, TypeOK
  <2>2. CASE ClaimAgent(c, a, t)
    <3>1. row' \in [Rows -> {"none", "deferred", "queued", "dispatched", "done"}]
      BY <2>2 DEF ClaimAgent, TypeOK
    <3>2. told' \in SUBSET Rows /\ got' \in [Calls -> SUBSET Rows]
      BY <2>2 DEF ClaimAgent, TypeOK
    <3> QED
      BY <3>1, <3>2
  <2> QED
    BY <2>1, <2>2
<1>3. TypeOK'
  BY <1>1, <1>2 DEF TypeOK
<1>4. \A u \in Rows : /\ row'[u] = row[u] \/ (u = t /\ row[u] = "queued" /\ row'[u] = "dispatched")
                      /\ \A d \in Calls : u \in got'[d] => u \in got[d] \/ (u = t /\ row'[u] = "dispatched")
  BY DEF ClaimNothing, ClaimAgent, TypeOK
<1>5. Placed'
  BY <1>1, <1>4 DEF Placed
<1> QED
  BY <1>3, <1>5

LEMMA EndTyped ==
  ASSUME Typed, NEW c \in Calls,
         EndClaims(c) \/ CallFails(c) \/ Answer(c) \/ LoseCall(c)
         \/ (\E t \in got[c] : FinalizeFails(c, t))
  PROVE  Typed'
<1> USE DEF Typed, table, redis, calls, daemon
<1>1. CASE EndClaims(c) \/ CallFails(c)
  <2>1. /\ at' \in [Calls -> Stages]
        /\ UNCHANGED <<table, redis, notices, todo, missed, seen, agents, got, quota, daemon>>
    BY <1>1 DEF EndClaims, CallFails, Stage, TypeOK, Stages
  <2>2. faults' \in 0..MaxFaults
    BY <1>1, BoundsAssumption DEF EndClaims, CallFails, Fault, TypeOK
  <2>3. TypeOK'
    BY <2>1, <2>2 DEF TypeOK
  <2>4. Placed'
    BY <2>1 DEF Placed
  <2> QED
    BY <2>3, <2>4
<1>2. CASE Answer(c) \/ LoseCall(c)
  <2>1. Reset(c, "idle", {}, 0)
    BY <1>2 DEF Answer, LoseCall
  <2>2. "idle" \in Stages /\ 0 \in 0..Slots
    BY BoundsAssumption DEF Stages
  <2> HIDE DEF Typed
  <2>3. TypeOK /\ Placed
    BY DEF Typed
  <2>4. /\ at' \in [Calls -> Stages]
        /\ todo' \in [Calls -> SUBSET Runtimes] /\ missed' \in [Calls -> Runtimes \cup {None}]
        /\ seen' \in [Calls -> [Runtimes -> Versions]]
        /\ agents' \in [Calls -> SUBSET Agents] /\ got' \in [Calls -> SUBSET Rows]
        /\ quota' \in [Calls -> 0..Slots]
        /\ \A d \in Calls : got'[d] = IF d = c THEN {} ELSE got[d]
    BY <2>1, <2>2, <2>3, ResetTyped
  <2>5. /\ UNCHANGED <<table, redis, nudge, link>>
        /\ notices' \in SUBSET Notices /\ faults' \in 0..MaxFaults
        /\ holds' \in SUBSET Rows /\ current' \in Calls \cup {None}
        /\ poller' \in {"ready", "blocked", "calling", "asleep"}
    BY <1>2, <2>3, BoundsAssumption DEF Answer, LoseCall, Fault, TypeOK
  <2>6. TypeOK'
    BY <2>3, <2>4, <2>5 DEF TypeOK
  <2>7. Placed'
    BY <2>3, <2>4, <2>5 DEF Placed
  <2> QED
    BY <2>6, <2>7 DEF Typed
<1>3. ASSUME NEW t \in got[c], FinalizeFails(c, t)
      PROVE  Typed'
  <2>1. t \in Rows /\ home[t] \in Homes
    BY DEF TypeOK, Placed
  <2>2. Owed(t, c, home[t]) \in Notices
    BY <2>1, NoticeTyped
  <2>3. TypeOK'
    BY <1>3, <2>1, <2>2, BoundsAssumption DEF FinalizeFails, Fault, TypeOK
  <2>4. Placed'
    BY <1>3, <2>1 DEF FinalizeFails, TypeOK, Placed
  <2> QED
    BY <2>3, <2>4
<1> QED
  BY <1>1, <1>2, <1>3

LEMMA CallTyped ==
  ASSUME Typed, NEW c \in Calls, CallStep(c) \/ CallTrouble(c)
  PROVE  Typed'
<1>1. Stranded \in SUBSET Rows
  BY DEF Stranded
<1>2. ASSUME NEW due \in SUBSET {t \in Rows : row[t] = "deferred"}, Promote(c, due)
      PROVE  Typed'
  BY <1>2, PromoteTyped
<1>3. ASSUME NEW stale \in SUBSET Stranded, Reclaim(c, stale)
      PROVE  Typed'
  BY <1>1, <1>3, ReclaimTyped
<1>4. ASSUME NEW r \in Runtimes,
             CheckHit(c, r) \/ CheckMiss(c, r) \/ Mark(c, r) \/ MarkFails(c, r)
      PROVE  Typed'
  BY <1>4, CacheTyped
<1>5. CASE ReadVersion(c)
  <2>1. missed[c] \in Runtimes
    BY <1>5 DEF ReadVersion, Typed, TypeOK
  <2> QED
    BY <1>5, <2>1, CacheTyped
<1>6. CASE List(c)
  BY <1>6, ListTyped
<1>7. CASE EndClaims(c) \/ Answer(c) \/ CallFails(c) \/ LoseCall(c)
           \/ (\E t \in got[c] : FinalizeFails(c, t))
  BY <1>7, EndTyped
<1>8. ASSUME NEW a \in agents[c], ClaimNothing(c, a)
      PROVE  Typed'
  <2>1. CASE Rows = {}
    BY <1>8, <2>1 DEF ClaimNothing, Claiming, Typed, TypeOK, Placed, daemon
  <2>2. CASE Rows # {}
    BY <1>8, <2>2, ClaimTyped
  <2> QED
    BY <2>1, <2>2
<1>9. ASSUME NEW a \in agents[c], NEW t \in Rows, ClaimAgent(c, a, t)
      PROVE  Typed'
  BY <1>9, ClaimTyped
<1> QED
  BY <1>2, <1>3, <1>4, <1>5, <1>6, <1>7, <1>8, <1>9 DEF CallStep, CallTrouble

LEMMA StutterTyped == Typed /\ UNCHANGED vars => Typed'
  BY DEF Typed, TypeOK, Placed, vars, table, redis, calls, daemon

LEMMA NextTyped == Typed /\ [Next]_vars => Typed'
  BY RowStepTyped, AnnouncedTyped, DaemonTyped, CallTyped, StutterTyped DEF Next

\* Every row, counter, notice, call and slot keeps its type, and a call never
\* asks for more rows than the daemon has slots.
THEOREM TypeCorrect == Spec => []TypeOK
<1>1. Typed => TypeOK
  BY DEF Typed
<1> QED
  BY InitTyped, NextTyped, <1>1, PTL DEF Spec

-----------------------------------------------------------------------------
(* The cache.  A verdict and a version that a call has sampled are never   *)
(* ahead of the counter, and a call that is about to mark a runtime with   *)
(* an announced row would mark it with a version that is already behind.   *)

Sampled ==
    /\ \A r \in Homes : verdict[r] # None => verdict[r] <= version[r]
    /\ \A c \in Calls, r \in Runtimes : seen[c][r] # None => seen[c][r] <= version[r]

MarksAreStale ==
    \A c \in Calls, t \in told :
        at[c] = "mark" /\ home[t] \in Runtimes => seen[c][home[t]] # version[home[t]]

CacheInv == Typed /\ ToldIsVisible /\ Sampled /\ MarksAreStale

\* Steps that leave Redis alone: they may forget announced rows and sampled
\* versions, and list only runtimes without announced rows as empty.
LEMMA CacheFrame ==
  ASSUME CacheInv, Typed', UNCHANGED <<version, verdict>>,
         told' \subseteq told,
         \A t \in told' : row'[t] = "queued" /\ home'[t] = home[t],
         \A c \in Calls, r \in Runtimes : seen'[c][r] = seen[c][r] \/ seen'[c][r] = None,
         \A c \in Calls : \/ at'[c] = "mark" => at[c] = "mark"
                          \/ \A t \in told : home[t] \in Runtimes => seen'[c][home[t]] = None
  PROVE  CacheInv'
<1> USE DEF CacheInv
<1>0. \A r \in Runtimes : r \in Homes /\ version[r] \in Nat /\ version[r] # None
  BY NoneAssumption DEF Homes, Typed, TypeOK
<1>1. ToldIsVisible'
  BY DEF ToldIsVisible
<1>2. Sampled'
  BY DEF Sampled
<1>3. MarksAreStale'
  BY <1>0 DEF MarksAreStale
<1> QED
  BY <1>1, <1>2, <1>3

LEMMA InitCache == Init => CacheInv
<1> SUFFICES ASSUME Init PROVE CacheInv
  OBVIOUS
<1>1. Typed
  BY InitTyped
<1>2. ToldIsVisible /\ Sampled /\ MarksAreStale
  BY NoneAssumption DEF Init, ToldIsVisible, Sampled, MarksAreStale
<1> QED
  BY <1>1, <1>2 DEF CacheInv

LEMMA RowStepCache ==
  ASSUME CacheInv, Typed', NEW t \in Rows, RowStep(t)
  PROVE  CacheInv'
<1>0. told \in SUBSET Rows /\ (\A u \in told : row[u] = "queued")
  BY DEF CacheInv, Typed, TypeOK, ToldIsVisible
<1>1. UNCHANGED <<version, verdict, told, seen, at>>
  BY DEF RowStep, Enqueue, EnqueueDeferred, Complete, Release, Sweep, redis, calls, table
<1>2. \A u \in told : u # t => row'[u] = row[u] /\ home'[u] = home[u]
  BY <1>0 DEF RowStep, Enqueue, EnqueueDeferred, Complete, Release, Sweep, table,
              CacheInv, Typed, TypeOK
<1>3. t \in told => row'[t] = "queued" /\ home'[t] = home[t]
  BY <1>0 DEF RowStep, Enqueue, EnqueueDeferred, Complete, Release, Sweep, Stranded, table
<1> QED
  BY <1>0, <1>1, <1>2, <1>3, CacheFrame

LEMMA BumpCache ==
  ASSUME CacheInv, Typed', NEW n \in notices, Bump(n)
  PROVE  CacheInv'
<1> USE DEF CacheInv
<1>0. /\ n.run \in Homes /\ (\A r \in Homes : version[r] \in Nat)
      /\ (\A r \in Runtimes : r \in Homes) /\ None \notin Nat
  BY NoneAssumption DEF Typed, TypeOK, Notices, Homes
<1>1. /\ version' = [version EXCEPT ![n.run] = @ + 1]
      /\ told' = told \cup Queued(n.run)
      /\ UNCHANGED <<row, home, verdict, at, seen>>
  BY DEF Bump, table, calls
<1>2. \A r \in Homes : /\ version'[r] = IF r = n.run THEN version[r] + 1 ELSE version[r]
                       /\ version'[r] >= version[r]
  BY <1>0, <1>1 DEF Typed, TypeOK
<1>3. \A t \in told' : /\ row[t] = "queued"
                       /\ t \in told \/ home[t] = n.run
  BY <1>1 DEF ToldIsVisible, Queued
<1>4. \A r \in Homes : verdict[r] = None \/ (verdict[r] \in Nat /\ verdict[r] <= version[r])
  BY DEF Sampled, Typed, TypeOK, Versions
<1>5. \A c \in Calls, r \in Runtimes :
          seen[c][r] = None \/ (seen[c][r] \in Nat /\ seen[c][r] <= version[r])
  BY DEF Sampled, Typed, TypeOK, Versions
<1>6. ToldIsVisible'
  BY <1>0, <1>1, <1>2, <1>3, <1>4 DEF ToldIsVisible
<1>7. Sampled'
  BY <1>0, <1>1, <1>2, <1>4, <1>5 DEF Sampled
<1>8. MarksAreStale'
  BY <1>0, <1>1, <1>2, <1>3, <1>5 DEF MarksAreStale
<1> QED
  BY <1>6, <1>7, <1>8

LEMMA AnnouncedCache ==
  ASSUME CacheInv, Typed', Announced
  PROVE  CacheInv'
<1> PICK n \in notices : Bump(n) \/ Wake(n) \/ WakeMisses(n) \/ BumpFails(n) \/ LoseNotice(n)
  BY DEF Announced, Announce
<1>1. CASE Wake(n) \/ WakeMisses(n) \/ BumpFails(n) \/ LoseNotice(n)
  <2>1. UNCHANGED <<row, home, version, verdict, told, seen, at>>
    BY <1>1 DEF Wake, WakeMisses, BumpFails, LoseNotice, table, redis, calls
  <2> QED
    BY <2>1, CacheFrame DEF CacheInv, ToldIsVisible
<1> QED
  BY <1>1, BumpCache

LEMMA DaemonCache ==
  ASSUME CacheInv, Typed', PollerStep \/ LinkStep \/ Abandon \/ (\E r \in Runtimes : Expire(r))
  PROVE  CacheInv'
<1>1. ASSUME NEW c \in Calls, StartCall(c)
      PROVE  CacheInv'
  <2>1. UNCHANGED <<row, home, version, verdict, told>>
    BY <1>1 DEF StartCall, table, redis
  <2>2. \A d \in Calls : /\ at'[d] = "mark" => at[d] = "mark"
                         /\ \A r \in Runtimes : seen'[d][r] = seen[d][r] \/ seen'[d][r] = None
    BY <1>1 DEF StartCall, Reset, CacheInv, Typed, TypeOK
  <2> QED
    BY <2>1, <2>2, CacheFrame DEF CacheInv, ToldIsVisible
<1>2. CASE \/ Block \/ Unblock \/ WakeBlocked \/ WakeAsleep \/ Doze \/ Tick
           \/ LinkStep \/ Abandon
  <2>1. UNCHANGED <<row, home, version, verdict, told, seen, at>>
    BY <1>2 DEF Block, Unblock, WakeBlocked, WakeAsleep, Doze, Tick, Move,
                LinkStep, Break, Dial, Register, Abandon, table, redis, calls
  <2> QED
    BY <2>1, CacheFrame DEF CacheInv, ToldIsVisible
<1>3. ASSUME NEW q \in Runtimes, Expire(q)
      PROVE  CacheInv'
  <2>1. UNCHANGED <<row, home, version, told, seen, at>>
    BY <1>3 DEF Expire, table, calls
  <2>2. \A r \in Homes : verdict'[r] = verdict[r] \/ verdict'[r] = None
    BY <1>3 DEF Expire, CacheInv, Typed, TypeOK
  <2>3. \A r \in Runtimes : r \in Homes /\ version[r] # None
    BY NoneAssumption DEF CacheInv, Typed, TypeOK, Homes
  <2> QED
    BY <2>1, <2>2, <2>3 DEF CacheInv, ToldIsVisible, Sampled, MarksAreStale
<1> QED
  BY <1>1, <1>2, <1>3 DEF PollerStep

LEMMA ReadCache ==
  ASSUME CacheInv, Typed', NEW c \in Calls, ReadVersion(c)
  PROVE  CacheInv'
<1> USE DEF CacheInv
<1>1. UNCHANGED <<row, home, version, verdict, told, at>> /\ at[c] = "check"
  BY DEF ReadVersion, table, redis
<1>2. \A r \in Runtimes : version[r] \in Nat
  BY DEF Typed, TypeOK, Homes
<1>3. \A d \in Calls, r \in Runtimes :
          \/ seen'[d][r] = seen[d][r]
          \/ d = c /\ seen'[d][r] \in Nat /\ seen'[d][r] <= version[r]
  <2>1. missed[c] \in Runtimes
    BY DEF ReadVersion, Typed, TypeOK
  <2>2. PICK v \in Nat : /\ seen' = [seen EXCEPT ![c][missed[c]] = v]
                         /\ v <= version[missed[c]]
    BY <1>2, <2>1 DEF ReadVersion
  <2> QED
    BY <2>1, <2>2 DEF Typed, TypeOK
<1>4. Sampled'
  BY <1>1, <1>2, <1>3 DEF Sampled
<1>5. MarksAreStale' /\ ToldIsVisible'
  BY <1>1, <1>3 DEF MarksAreStale, ToldIsVisible
<1> QED
  BY <1>4, <1>5

LEMMA MarkCache ==
  ASSUME CacheInv, Typed', NEW c \in Calls, NEW r \in Runtimes, Mark(c, r) \/ MarkFails(c, r)
  PROVE  CacheInv'
<1> USE DEF CacheInv
<1>1. UNCHANGED <<row, home, version, told, at>> /\ at[c] = "mark"
  BY DEF Mark, MarkFails, Marked, table
<1>2. /\ r \in Homes /\ (\A q \in Runtimes : q \in Homes /\ version[q] \in Nat /\ version[q] # None)
  BY NoneAssumption DEF Typed, TypeOK, Homes
<1>3. \A d \in Calls, q \in Runtimes : seen'[d][q] = seen[d][q] \/ seen'[d][q] = None
  <2>1. seen' = [seen EXCEPT ![c][r] = None]
    BY DEF Mark, MarkFails, Marked
  <2>2. seen \in [Calls -> [Runtimes -> Versions]]
    BY DEF Typed, TypeOK
  <2> QED
    BY <2>1, <2>2
<1>4. /\ seen[c][r] # None
      /\ \A q \in Homes : verdict'[q] = verdict[q] \/ (q = r /\ verdict'[q] = seen[c][r])
  BY <1>2 DEF Mark, MarkFails, Marked, Typed, TypeOK
<1>5. Sampled'
  BY <1>1, <1>2, <1>3, <1>4 DEF Sampled
<1>6. MarksAreStale'
  BY <1>1, <1>2, <1>3 DEF MarksAreStale
<1>7. ToldIsVisible'
  BY <1>1, <1>2, <1>4 DEF ToldIsVisible, MarksAreStale
<1> QED
  BY <1>5, <1>6, <1>7

LEMMA ListCache ==
  ASSUME CacheInv, Typed', NEW c \in Calls, List(c)
  PROVE  CacheInv'
<1>1. UNCHANGED <<row, home, version, verdict, told>>
  BY DEF List, table, redis
<1>2. \A t \in told : home[t] \in Runtimes => Queued(home[t]) # {}
  BY DEF CacheInv, ToldIsVisible, Queued, Typed, TypeOK
<1>3. \A r \in Runtimes : seen'[c][r] = IF Queued(r) = {} THEN seen[c][r] ELSE None
  BY DEF List, CacheInv, Typed, TypeOK
<1>4. \A d \in Calls \ {c} : at'[d] = at[d] /\ seen'[d] = seen[d]
  BY DEF List, Stage, CacheInv, Typed, TypeOK
<1>5. \A d \in Calls, r \in Runtimes : seen'[d][r] = seen[d][r] \/ seen'[d][r] = None
  BY <1>3, <1>4
<1>6. \A d \in Calls : \/ at'[d] = "mark" => at[d] = "mark"
                       \/ \A t \in told : home[t] \in Runtimes => seen'[d][home[t]] = None
  BY <1>2, <1>3, <1>4
<1> QED
  BY <1>1, <1>5, <1>6, CacheFrame DEF CacheInv, ToldIsVisible

LEMMA CallCache ==
  ASSUME CacheInv, Typed', NEW c \in Calls, CallStep(c) \/ CallTrouble(c)
  PROVE  CacheInv'
<1>0. told \in SUBSET Rows /\ (\A u \in told : row[u] = "queued")
  BY DEF CacheInv, Typed, TypeOK, ToldIsVisible
<1>1. ASSUME NEW due \in SUBSET {t \in Rows : row[t] = "deferred"}, Promote(c, due)
      PROVE  CacheInv'
  <2>1. UNCHANGED <<home, version, verdict, told, seen>>
    BY <1>1 DEF Promote, redis
  <2>2. \A u \in told : row'[u] = "queued"
    BY <1>0, <1>1 DEF Promote
  <2>3. \A d \in Calls : at'[d] = "mark" => at[d] = "mark"
    BY <1>1 DEF Promote, Stage, CacheInv, Typed, TypeOK
  <2> QED
    BY <2>1, <2>2, <2>3, CacheFrame
<1>2. ASSUME NEW stale \in SUBSET Stranded, Reclaim(c, stale)
      PROVE  CacheInv'
  <2>1. UNCHANGED <<row, home, version, verdict, told, seen>>
    BY <1>2 DEF Reclaim, redis, table
  <2>2. \A d \in Calls : at'[d] = "mark" => at[d] = "mark"
    BY <1>2 DEF Reclaim, Stage, CacheInv, Typed, TypeOK
  <2> QED
    BY <1>0, <2>1, <2>2, CacheFrame
<1>3. ASSUME NEW r \in Runtimes, CheckHit(c, r) \/ CheckMiss(c, r)
      PROVE  CacheInv'
  <2>1. UNCHANGED <<row, home, version, verdict, told, seen, at>>
    BY <1>3 DEF CheckHit, CheckMiss, redis, table
  <2> QED
    BY <1>0, <2>1, CacheFrame
<1>4. ASSUME NEW r \in Runtimes, Mark(c, r) \/ MarkFails(c, r)
      PROVE  CacheInv'
  BY <1>4, MarkCache
<1>5. ASSUME NEW a, ClaimNothing(c, a) \/ (\E t \in Rows : ClaimAgent(c, a, t))
      PROVE  CacheInv'
  <2>1. UNCHANGED <<home, version, verdict, seen, at>>
    BY <1>5 DEF ClaimNothing, ClaimAgent, Claiming
  <2>2. told' \subseteq told /\ (\A u \in told' : row'[u] = row[u])
    BY <1>0, <1>5 DEF ClaimNothing, ClaimAgent, CacheInv, Typed, TypeOK
  <2> QED
    BY <1>0, <2>1, <2>2, CacheFrame
<1>6. CASE EndClaims(c) \/ CallFails(c)
  <2>1. UNCHANGED <<row, home, version, verdict, told, seen>>
    BY <1>6 DEF EndClaims, CallFails, redis, table
  <2>2. \A d \in Calls : at'[d] = "mark" => at[d] = "mark"
    BY <1>6 DEF EndClaims, CallFails, Stage, CacheInv, Typed, TypeOK
  <2> QED
    BY <1>0, <2>1, <2>2, CacheFrame
<1>7. CASE Answer(c) \/ LoseCall(c)
  <2>1. UNCHANGED <<row, home, version, verdict, told>> /\ Reset(c, "idle", {}, 0)
    BY <1>7 DEF Answer, LoseCall, redis, table
  <2>2. \A d \in Calls : /\ at'[d] = "mark" => at[d] = "mark"
                         /\ \A r \in Runtimes : seen'[d][r] = seen[d][r] \/ seen'[d][r] = None
    BY <2>1 DEF Reset, CacheInv, Typed, TypeOK
  <2> QED
    BY <1>0, <2>1, <2>2, CacheFrame
<1>8. ASSUME NEW t \in got[c], FinalizeFails(c, t)
      PROVE  CacheInv'
  <2>1. UNCHANGED <<home, version, verdict, told, seen, at>>
    BY <1>8 DEF FinalizeFails, redis
  <2>2. \A u \in told : row'[u] = "queued"
    BY <1>0, <1>8 DEF FinalizeFails, CacheInv, Typed, TypeOK
  <2> QED
    BY <2>1, <2>2, CacheFrame
<1> QED
  BY <1>1, <1>2, <1>3, <1>4, <1>5, <1>6, <1>7, <1>8, ReadCache, ListCache
     DEF CallStep, CallTrouble

LEMMA StutterCache == CacheInv /\ Typed' /\ UNCHANGED vars => CacheInv'
  BY DEF CacheInv, ToldIsVisible, Sampled, MarksAreStale, vars, table, redis, calls, daemon

LEMMA CacheStep == CacheInv /\ [Next]_vars => CacheInv'
<1> SUFFICES ASSUME CacheInv, [Next]_vars PROVE CacheInv'
  OBVIOUS
<1>1. Typed'
  BY NextTyped DEF CacheInv
<1> QED
  BY <1>1, RowStepCache, AnnouncedCache, DaemonCache, CallCache, StutterCache DEF Next

\* However many calls, enqueues and failures of Redis interleave with the
\* version read, the SELECT and MarkEmpty, no verdict hides an announced row.
THEOREM AnnouncedRowsAreVisible == Spec => []ToldIsVisible
<1>1. CacheInv => ToldIsVisible
  BY DEF CacheInv
<1> QED
  BY InitCache, CacheStep, <1>1, PTL DEF Spec

-----------------------------------------------------------------------------
(* Slots.  The poller claims into slots that stay free until the answer.   *)

Reserved == current # None => Cardinality(holds) + quota[current] <= Slots

Held == /\ Cardinality(holds) <= Slots
        /\ \A t \in holds : row[t] \in {"dispatched", "done"}

Answers ==
    \A c \in Calls :
        /\ Cardinality(got[c]) <= quota[c]
        /\ \A t \in got[c] : row[t] = "dispatched" /\ t \notin holds
        /\ \A d \in Calls \ {c} : got[c] \cap got[d] = {}

SlotsInv == Typed /\ Reserved /\ Held /\ Answers

LEMMA SetsAreFinite ==
  ASSUME Typed
  PROVE  /\ IsFiniteSet(holds) /\ Cardinality(holds) \in Nat
         /\ \A c \in Calls : IsFiniteSet(got[c]) /\ Cardinality(got[c]) \in Nat
         /\ \A S \in SUBSET Rows : IsFiniteSet(S) /\ Cardinality(S) \in Nat
<1>1. \A S \in SUBSET Rows : IsFiniteSet(S) /\ Cardinality(S) \in Nat
  BY RowsAssumption, FS_Subset, FS_CardinalityType
<1> QED
  BY <1>1 DEF Typed, TypeOK

LEMMA SlotsSuffice == SlotsInv => ClaimsFitSlots
<1> SUFFICES ASSUME SlotsInv PROVE ClaimsFitSlots
  OBVIOUS
<1>1. ASSUME current # None
      PROVE  Cardinality(holds \cup got[current]) <= Slots
  <2>1. current \in Calls
    BY <1>1 DEF SlotsInv, Typed, TypeOK
  <2>2. /\ IsFiniteSet(holds) /\ IsFiniteSet(got[current])
        /\ Cardinality(holds) \in Nat /\ Cardinality(got[current]) \in Nat
        /\ Cardinality(holds \cap got[current]) \in Nat
        /\ quota[current] \in Nat
    BY <2>1, SetsAreFinite, FS_Subset, FS_CardinalityType, BoundsAssumption
       DEF SlotsInv, Typed, TypeOK
  <2>3. Cardinality(holds \cup got[current])
          = Cardinality(holds) + Cardinality(got[current]) - Cardinality(holds \cap got[current])
    BY <2>2, FS_Union
  <2>4. Cardinality(got[current]) <= quota[current]
    BY <2>1 DEF SlotsInv, Answers
  <2>5. Cardinality(holds) + quota[current] <= Slots
    BY <1>1 DEF SlotsInv, Reserved
  <2> QED
    BY <2>2, <2>3, <2>4, <2>5, BoundsAssumption
<1>2. \A c \in Calls : got[c] \cap holds = {}
  BY DEF SlotsInv, Answers
<1>3. \A c, d \in Calls : c # d => got[c] \cap got[d] = {}
  BY DEF SlotsInv, Answers
<1> QED
  BY <1>1, <1>2, <1>3 DEF SlotsInv, Answers, Held, ClaimsFitSlots

\* Steps that hand over no row and reserve nothing.
LEMMA SlotsFrame ==
  ASSUME SlotsInv, Typed', UNCHANGED <<holds, got, quota>>,
         current' = current \/ current' = None,
         \A t \in Rows : \/ row'[t] = row[t]
                         \/ t \notin holds /\ \A c \in Calls : t \notin got[c]
  PROVE  SlotsInv'
<1>1. holds \in SUBSET Rows /\ \A c \in Calls : got[c] \in SUBSET Rows
  BY DEF SlotsInv, Typed, TypeOK
<1> QED
  BY <1>1 DEF SlotsInv, Reserved, Held, Answers

LEMMA InitSlots == Init => SlotsInv
<1> SUFFICES ASSUME Init PROVE SlotsInv
  OBVIOUS
<1>1. Typed
  BY InitTyped
<1>2. Cardinality({}) = 0
  BY FS_EmptySet
<1> QED
  BY <1>1, <1>2, BoundsAssumption DEF Init, SlotsInv, Reserved, Held, Answers

LEMMA RowStepSlots ==
  ASSUME SlotsInv, Typed', NEW t \in Rows, RowStep(t)
  PROVE  SlotsInv'
<1>0. /\ row \in [Rows -> {"none", "deferred", "queued", "dispatched", "done"}]
      /\ holds \in SUBSET Rows /\ \A c \in Calls : got[c] \in SUBSET Rows
  BY DEF SlotsInv, Typed, TypeOK
<1>1. CASE \/ \E r \in Homes : Enqueue(t, r) \/ EnqueueDeferred(t, r)
           \/ Sweep(t)
  <2>1. UNCHANGED <<holds, got, quota, current>>
    BY <1>1 DEF Enqueue, EnqueueDeferred, Sweep, calls, daemon
  <2>2. t \notin holds /\ \A c \in Calls : t \notin got[c]
    BY <1>1 DEF Enqueue, EnqueueDeferred, Sweep, Stranded, SlotsInv, Held, Answers
  <2>3. \A u \in Rows \ {t} : row'[u] = row[u]
    BY <1>0, <1>1 DEF Enqueue, EnqueueDeferred, Sweep
  <2> QED
    BY <2>1, <2>2, <2>3, SlotsFrame
<1>2. CASE Complete(t)
  <2>1. UNCHANGED <<holds, got, quota, current>> /\ t \in holds
    BY <1>2 DEF Complete, calls, daemon
  <2>2. row'[t] = "done" /\ \A u \in Rows \ {t} : row'[u] = row[u]
    BY <1>0, <1>2 DEF Complete
  <2>3. \A c \in Calls : t \notin got[c]
    BY <2>1 DEF SlotsInv, Answers
  <2> QED
    BY <1>0, <2>1, <2>2, <2>3 DEF SlotsInv, Reserved, Held, Answers
<1>3. CASE Release(t)
  <2>1. UNCHANGED <<row, got, quota, current>> /\ holds' = holds \ {t} /\ t \in holds
    BY <1>3 DEF Release, calls, table
  <2>2. Cardinality(holds') <= Cardinality(holds) /\ Cardinality(holds') \in Nat
    <3>1. IsFiniteSet(holds) /\ holds' \subseteq holds
      BY <2>1, SetsAreFinite DEF SlotsInv
    <3> QED
      BY <3>1, FS_Subset, FS_CardinalityType
  <2>3. Cardinality(holds) \in Nat /\ \A c \in Calls : quota[c] \in Nat
    BY SetsAreFinite, BoundsAssumption DEF SlotsInv, Typed, TypeOK
  <2>4. current # None => current \in Calls
    BY DEF SlotsInv, Typed, TypeOK
  <2>5. Reserved'
    BY <2>1, <2>2, <2>3, <2>4, BoundsAssumption DEF SlotsInv, Reserved
  <2>6. Held'
    BY <2>1, <2>2, <2>3, BoundsAssumption DEF SlotsInv, Held
  <2>7. Answers'
    BY <2>1 DEF SlotsInv, Answers
  <2> QED
    BY <2>5, <2>6, <2>7 DEF SlotsInv
<1> QED
  BY <1>1, <1>2, <1>3 DEF RowStep

LEMMA DaemonSlots ==
  ASSUME SlotsInv, Typed',
         Announced \/ PollerStep \/ LinkStep \/ Abandon \/ (\E r \in Runtimes : Expire(r))
  PROVE  SlotsInv'
<1>1. ASSUME NEW c \in Calls, StartCall(c)
      PROVE  SlotsInv'
  <2>1. /\ UNCHANGED <<row, holds>> /\ current' = c /\ Reset(c, "promote", Runtimes, Free)
    BY <1>1 DEF StartCall, table
  <2>2. \A d \in Calls : /\ got'[d] = IF d = c THEN {} ELSE got[d]
                         /\ quota'[d] = IF d = c THEN Free ELSE quota[d]
    BY <2>1 DEF Reset, SlotsInv, Typed, TypeOK
  <2>3. Free > 0 /\ Cardinality(holds) \in Nat
    BY <1>1, SetsAreFinite DEF StartCall, SlotsInv
  <2>4. Reserved'
    BY <2>1, <2>2, <2>3, BoundsAssumption DEF Reserved, Free
  <2>5. Held'
    BY <2>1 DEF SlotsInv, Held
  <2>6. Answers'
    <3>1. Cardinality({}) = 0
      BY FS_EmptySet
    <3> QED
      BY <2>1, <2>2, <2>3, <3>1, BoundsAssumption DEF SlotsInv, Answers, Free
  <2> QED
    BY <2>4, <2>5, <2>6 DEF SlotsInv
<1>2. CASE \/ Block \/ Unblock \/ WakeBlocked \/ WakeAsleep \/ Doze \/ Tick
           \/ LinkStep \/ Abandon \/ Announced \/ (\E r \in Runtimes : Expire(r))
  <2>1. UNCHANGED <<row, holds, got, quota>> /\ (current' = current \/ current' = None)
    BY <1>2 DEF Block, Unblock, WakeBlocked, WakeAsleep, Doze, Tick, Move,
                LinkStep, Break, Dial, Register, Abandon, Expire, Announced, Announce,
                Bump, Wake, WakeMisses, BumpFails, LoseNotice, table, calls, daemon
  <2> QED
    BY <2>1, SlotsFrame
<1> QED
  BY <1>1, <1>2 DEF PollerStep

\* A batch of redelivered rows is a first answer.
LEMMA ReclaimSlots ==
  ASSUME SlotsInv, Typed', NEW c \in Calls, NEW stale \in SUBSET Stranded, Reclaim(c, stale)
  PROVE  SlotsInv'
<1>1. UNCHANGED <<row, holds, quota, current>>
  BY DEF Reclaim, table, daemon
<1>2. \A d \in Calls : got'[d] = IF d = c THEN stale ELSE got[d]
  BY DEF Reclaim, SlotsInv, Typed, TypeOK
<1>3. /\ Cardinality(stale) <= quota[c]
      /\ \A t \in stale : /\ row[t] = "dispatched" /\ t \notin holds
                          /\ \A d \in Calls : t \notin got[d]
  BY DEF Reclaim, Stranded
<1>4. Answers'
  BY <1>1, <1>2, <1>3 DEF SlotsInv, Answers
<1> QED
  BY <1>1, <1>4 DEF SlotsInv, Reserved, Held

\* One more row, while the batch is not full.
LEMMA ClaimSlots ==
  ASSUME SlotsInv, Typed', NEW c \in Calls, NEW a,
         ClaimNothing(c, a) \/ (\E t \in Rows : ClaimAgent(c, a, t))
  PROVE  SlotsInv'
<1>1. UNCHANGED <<holds, quota, current>>
  BY DEF ClaimNothing, ClaimAgent, Claiming, daemon
<1>2. CASE ClaimNothing(c, a)
  BY <1>1, <1>2, SlotsFrame DEF ClaimNothing
<1>3. ASSUME NEW t \in Rows, ClaimAgent(c, a, t)
      PROVE  SlotsInv'
  <2>1. /\ row[t] = "queued" /\ row'[t] = "dispatched"
        /\ \A u \in Rows \ {t} : row'[u] = row[u]
    BY <1>3 DEF ClaimAgent, SlotsInv, Typed, TypeOK
  <2>2. t \notin holds /\ \A d \in Calls : t \notin got[d]
    BY <2>1 DEF SlotsInv, Held, Answers
  <2>3. CASE got' = got
    BY <1>1, <2>1, <2>2, <2>3, SlotsFrame
  <2>4. CASE got' = [got EXCEPT ![c] = @ \cup {t}]
    <3>1. \A d \in Calls : got'[d] = IF d = c THEN got[c] \cup {t} ELSE got[d]
      BY <2>4 DEF SlotsInv, Typed, TypeOK
    <3>2. IsFiniteSet(got[c]) /\ Cardinality(got[c]) \in Nat /\ quota[c] \in Nat
      BY SetsAreFinite, BoundsAssumption DEF SlotsInv, Typed, TypeOK
    <3>3. Cardinality(got[c] \cup {t}) = Cardinality(got[c]) + 1
      BY <2>2, <3>2, FS_AddElement
    <3>4. Cardinality(got[c]) < quota[c]
      BY <1>3 DEF ClaimAgent, Claiming, QuotaLeft
    <3>5. \A d \in Calls : Cardinality(got'[d]) <= quota'[d]
      BY <1>1, <3>1, <3>2, <3>3, <3>4 DEF SlotsInv, Answers
    <3>6. holds \in SUBSET Rows /\ \A d \in Calls : got[d] \in SUBSET Rows
      BY DEF SlotsInv, Typed, TypeOK
    <3>7. Answers'
      <4>1. \A d \in Calls : \A u \in got'[d] : row'[u] = "dispatched" /\ u \notin holds'
        BY <1>1, <2>1, <2>2, <3>1, <3>6 DEF SlotsInv, Answers
      <4>2. \A d, e \in Calls : d # e => got'[d] \cap got'[e] = {}
        BY <2>2, <3>1 DEF SlotsInv, Answers
      <4> QED
        BY <3>5, <4>1, <4>2 DEF Answers
    <3>8. Held'
      BY <1>1, <2>1, <2>2, <3>6 DEF SlotsInv, Held
    <3> QED
      BY <1>1, <3>7, <3>8 DEF SlotsInv, Reserved
  <2> QED
    BY <1>3, <2>3, <2>4 DEF ClaimAgent
<1> QED
  BY <1>2, <1>3

\* The answer turns reserved slots into held ones, or strands its rows.
LEMMA AnswerSlots ==
  ASSUME SlotsInv, Typed', NEW c \in Calls, Answer(c) \/ LoseCall(c)
  PROVE  SlotsInv'
<1>1. UNCHANGED row /\ Reset(c, "idle", {}, 0)
  BY DEF Answer, LoseCall, table
<1>2. \A d \in Calls : /\ got'[d] = IF d = c THEN {} ELSE got[d]
                       /\ quota'[d] = IF d = c THEN 0 ELSE quota[d]
  BY <1>1 DEF Reset, SlotsInv, Typed, TypeOK
<1>3. Cardinality({}) = 0
  BY FS_EmptySet
<1>4. CASE holds' = holds /\ current' \in {current, None} /\ current' # c
  <2>1. Answers'
    BY <1>1, <1>2, <1>3, <1>4 DEF SlotsInv, Answers
  <2>2. Reserved'
    BY <1>2, <1>4 DEF SlotsInv, Typed, TypeOK, Reserved
  <2>3. Held'
    BY <1>1, <1>4 DEF SlotsInv, Held
  <2> QED
    BY <2>1, <2>2, <2>3 DEF SlotsInv
<1>5. CASE holds' = holds \cup got[c] /\ current = c /\ current' = None
  <2>1. Cardinality(holds') <= Slots
    <3>1. current # None
      BY <1>5, NoneAssumption
    <3> QED
      BY <1>5, <3>1, SlotsSuffice DEF ClaimsFitSlots
  <2>2. Held'
    BY <1>1, <1>5, <2>1 DEF SlotsInv, Held, Answers
  <2>3. Answers'
    BY <1>1, <1>2, <1>3, <1>5 DEF SlotsInv, Answers
  <2>4. Reserved'
    BY <1>5 DEF Reserved
  <2> QED
    BY <2>2, <2>3, <2>4 DEF SlotsInv
<1> QED
  BY <1>4, <1>5, NoneAssumption DEF Answer, LoseCall

LEMMA CallSlots ==
  ASSUME SlotsInv, Typed', NEW c \in Calls, CallStep(c) \/ CallTrouble(c)
  PROVE  SlotsInv'
<1>0. holds \in SUBSET Rows /\ \A d \in Calls : got[d] \in SUBSET Rows
  BY DEF SlotsInv, Typed, TypeOK
<1>1. ASSUME NEW due \in SUBSET {t \in Rows : row[t] = "deferred"}, Promote(c, due)
      PROVE  SlotsInv'
  <2>1. UNCHANGED <<holds, got, quota, current>>
    BY <1>1 DEF Promote, daemon
  <2>2. \A t \in Rows : row'[t] = row[t] \/ row[t] = "deferred"
    BY <1>1 DEF Promote
  <2> QED
    BY <2>1, <2>2, SlotsFrame DEF SlotsInv, Held, Answers
<1>2. CASE \/ ReadVersion(c) \/ List(c) \/ EndClaims(c) \/ CallFails(c)
           \/ (\E r \in Runtimes : CheckHit(c, r) \/ CheckMiss(c, r)
                                   \/ Mark(c, r) \/ MarkFails(c, r))
  <2>1. UNCHANGED <<row, holds, got, quota, current>>
    BY <1>2 DEF ReadVersion, List, EndClaims, CallFails, CheckHit, CheckMiss,
                Mark, MarkFails, Marked, table, daemon
  <2> QED
    BY <2>1, SlotsFrame
<1>3. ASSUME NEW t \in got[c], FinalizeFails(c, t)
      PROVE  SlotsInv'
  <2>1. UNCHANGED <<holds, quota, current>>
    BY <1>3 DEF FinalizeFails, daemon
  <2>2. /\ \A d \in Calls : got'[d] = IF d = c THEN got[c] \ {t} ELSE got[d]
        /\ \A u \in Rows \ {t} : row'[u] = row[u]
    BY <1>3 DEF FinalizeFails, SlotsInv, Typed, TypeOK
  <2>3. t \notin holds /\ \A d \in Calls : t \notin got'[d]
    BY <2>2 DEF SlotsInv, Answers
  <2>4. \A d \in Calls : Cardinality(got'[d]) <= quota'[d]
    <3>0. \A d \in Calls : quota[d] \in Nat
      BY BoundsAssumption DEF SlotsInv, Typed, TypeOK
    <3>1. \A d \in Calls : got'[d] \subseteq got[d]
      BY <2>2
    <3>2. \A d \in Calls : IsFiniteSet(got[d]) /\ Cardinality(got[d]) \in Nat
      BY SetsAreFinite DEF SlotsInv
    <3>3. ASSUME NEW d \in Calls
          PROVE  Cardinality(got'[d]) <= Cardinality(got[d]) /\ Cardinality(got'[d]) \in Nat
      <4>1. got'[d] \in SUBSET got[d] /\ IsFiniteSet(got[d])
        BY <3>1, <3>2
      <4>2. IsFiniteSet(got'[d]) /\ Cardinality(got'[d]) <= Cardinality(got[d])
        BY <4>1, FS_Subset
      <4> QED
        BY <4>2, FS_CardinalityType
    <3> QED
      BY <2>1, <3>0, <3>2, <3>3 DEF SlotsInv, Answers
  <2>5. Answers'
    BY <1>0, <2>1, <2>2, <2>3, <2>4 DEF SlotsInv, Answers
  <2>6. Held' /\ Reserved'
    BY <1>0, <2>1, <2>2, <2>3 DEF SlotsInv, Held, Reserved
  <2> QED
    BY <2>5, <2>6 DEF SlotsInv
<1> QED
  BY <1>1, <1>2, <1>3, ReclaimSlots, ClaimSlots, AnswerSlots DEF CallStep, CallTrouble

LEMMA SlotsStep == SlotsInv /\ [Next]_vars => SlotsInv'
<1>1. SlotsInv /\ UNCHANGED vars /\ Typed' => SlotsInv'
  BY DEF SlotsInv, Reserved, Held, Answers, vars, table, calls, daemon
<1> SUFFICES ASSUME SlotsInv, [Next]_vars PROVE SlotsInv'
  OBVIOUS
<1>2. Typed'
  BY NextTyped DEF SlotsInv
<1> QED
  BY <1>1, <1>2, RowStepSlots, DaemonSlots, CallSlots DEF Next

\* What is held and what the awaited call has got never exceed the slots, for
\* any number of calls that were given up on and go on claiming.
THEOREM SlotsAreNotOverfilled == Spec => []ClaimsFitSlots
  BY InitSlots, SlotsStep, SlotsSuffice, PTL DEF Spec

-----------------------------------------------------------------------------
(* Wakeups.  As long as nothing fails, an idle agent with an announced row  *)
(* has something coming that makes the poller claim for it.                 *)

\* A row that was not inserted has no runtime yet.
Unplaced == \A t \in Rows : row[t] = "none" => home[t] = None

\* An agent of this machine that could run a row and runs none.
Waiting(a) == Local(a) /\ HasRoom(a) /\ Busy(a) = {}

\* The call will claim for the row's agent, or its answer will be full and
\* another call follows.
Reaches(c, t) ==
    \/ at[c] \in {"promote", "reclaim"} /\ todo[c] = Runtimes
    \/ at[c] = "check" /\ \/ home[t] \in todo[c] \/ missed[c] = home[t]
                          \/ seen[c][home[t]] # None
    \/ at[c] = "mark" /\ AgentOf[t] \in agents[c]
    \/ at[c] \in {"mark", "answer"} /\ ~ QuotaLeft(c)

\* What makes the poller start a call, or the call that is under way.
Coming(t) ==
    \/ nudge \/ link = "down" \/ poller = "ready" \/ Free <= 0
    \/ \E n \in notices : n.run \in Runtimes
    \/ poller = "calling" /\ current \in Calls /\ Reaches(current, t)

\* The poller waits while it has a call to wait for.
Awaited == current # None => poller = "calling"

Served == \A t \in told : Waiting(AgentOf[t]) => Coming(t)

ServedInv == CacheInv /\ SlotsInv /\ Unplaced /\ Awaited /\ (faults = 0 => Served)

LEMMA ServedSuffices == ServedInv => NotifiedIsServed
<1> SUFFICES ASSUME ServedInv, faults = 0, Quiet, NEW t \in told,
                    Local(AgentOf[t]), HasRoom(AgentOf[t]), Busy(AgentOf[t]) = {}
             PROVE  FALSE
  BY DEF NotifiedIsServed
<1>1. Coming(t)
  BY DEF ServedInv, Served, Waiting
<1>2. Free \in Int
  BY FreeBounds DEF ServedInv, CacheInv, Typed
<1> QED
  BY <1>1, <1>2 DEF Quiet, Coming

LEMMA InitServed == Init => ServedInv
<1> SUFFICES ASSUME Init PROVE ServedInv
  OBVIOUS
<1>1. Unplaced /\ Awaited /\ Served
  BY DEF Init, Unplaced, Awaited, Served
<1> QED
  BY <1>1, InitCache, InitSlots DEF ServedInv

\* An announced row is queued at a runtime; if its agent is of this machine,
\* at one the daemon hosts, without a valid verdict.
LEMMA WaitingRow ==
  ASSUME ServedInv, NEW t \in told
  PROVE  /\ t \in Rows /\ row[t] = "queued" /\ home[t] \in Homes
         /\ Waiting(AgentOf[t]) => home[t] \in Runtimes /\ verdict[home[t]] # version[home[t]]
<1>1. t \in Rows /\ row[t] = "queued" /\ home[t] \in Homes
  BY DEF ServedInv, CacheInv, Typed, TypeOK, Placed, ToldIsVisible
<1>2. home[t] # None
  BY <1>1, NoneAssumption DEF Homes
<1> QED
  BY <1>1, <1>2 DEF ServedInv, CacheInv, ToldIsVisible, Waiting, Local

\* A step that neither starts nor ends a run of the agent finds it waiting if
\* it leaves it waiting.
LEMMA StillWaiting ==
  ASSUME NEW a, Waiting(a)',
         \A u \in Rows : AgentOf[u] = a => (row'[u] = "dispatched" <=> row[u] = "dispatched"),
         \A u \in Rows : home'[u] = home[u] \/ home[u] = None
  PROVE  Waiting(a)
<1>1. Busy(a)' = Busy(a)
  BY DEF Busy
<1>2. HasRoom(a)' = HasRoom(a)
  BY <1>1 DEF HasRoom
<1>3. Local(a)
  BY DEF Waiting, Local
<1> QED
  BY <1>1, <1>2, <1>3 DEF Waiting

\* What is coming stays so while daemon and calls are left alone.
LEMMA StillComing ==
  ASSUME NEW t, Coming(t), home'[t] = home[t], UNCHANGED calls,
         UNCHANGED <<poller, current, link, holds>>, nudge => nudge',
         \/ \A n \in notices \ notices' : n.run \notin Runtimes
         \/ nudge'
  PROVE  Coming(t)'
<1>1. Free' = Free
  BY DEF Free
<1>2. \A c : Reaches(c, t)' <=> Reaches(c, t)
  BY DEF Reaches, QuotaLeft, calls
<1> QED
  BY <1>1, <1>2 DEF Coming

LEMMA RowStepServed ==
  ASSUME ServedInv, NEW t \in Rows, RowStep(t)
  PROVE  Unplaced' /\ (faults' = 0 => Served')
<1> USE DEF table, redis, calls, daemon
<1>0. Typed
  BY DEF ServedInv, CacheInv
<1>1. Unplaced'
  <2>1. \A u \in Rows : row'[u] # row[u] => row'[u] # "none"
    BY <1>0 DEF RowStep, Enqueue, EnqueueDeferred, Complete, Release, Sweep, Typed, TypeOK
  <2>2. \A u \in Rows : home'[u] # home[u] => row'[u] # "none"
    BY <1>0 DEF RowStep, Enqueue, EnqueueDeferred, Complete, Release, Sweep, Typed, TypeOK
  <2> QED
    BY <2>1, <2>2 DEF ServedInv, Unplaced
<1>2. UNCHANGED <<told, faults, poller, current, link>> /\ UNCHANGED calls
  BY DEF RowStep, Enqueue, EnqueueDeferred, Complete, Release, Sweep
<1>3. \A u \in Rows : home'[u] = home[u] \/ home[u] = None
  BY <1>0 DEF RowStep, Enqueue, EnqueueDeferred, Complete, Release, Sweep,
              Typed, TypeOK, ServedInv, Unplaced
<1> SUFFICES ASSUME faults' = 0, NEW u \in told, Waiting(AgentOf[u])'
             PROVE  Coming(u)'
  BY <1>1, <1>2 DEF Served
<1>4. u \in Rows /\ home[u] \in Homes /\ home'[u] = home[u]
  BY <1>3, WaitingRow, NoneAssumption DEF Homes
<1>5. CASE Release(t)
  BY <1>5 DEF Release, Coming
<1>6. CASE (Complete(t) \/ Sweep(t)) /\ AgentOf[t] = AgentOf[u]
  <2>1. home[t] \in Homes /\ home'[t] = home[t]
    BY <1>0, <1>6 DEF Complete, Sweep, Stranded, Typed, Placed
  <2>2. home[t] \in Runtimes
    BY <1>6, <2>1, NoneAssumption DEF Waiting, Local, Homes
  <2>3. Owed(t, "report", home[t]) \in notices'
    BY <1>6 DEF Complete, Sweep
  <2> QED
    BY <2>2, <2>3 DEF Coming, Owed
<1>7. CASE ~ Release(t) /\ ~ ((Complete(t) \/ Sweep(t)) /\ AgentOf[t] = AgentOf[u])
  <2>1. \A v \in Rows : AgentOf[v] = AgentOf[u] =>
                          (row'[v] = "dispatched" <=> row[v] = "dispatched")
    BY <1>0, <1>7 DEF RowStep, Enqueue, EnqueueDeferred, Complete, Sweep, Typed, TypeOK
  <2>2. Coming(u)
    BY <1>2, <1>3, <2>1, StillWaiting DEF ServedInv, Served
  <2>3. notices \subseteq notices' /\ UNCHANGED <<nudge, holds>>
    BY <1>7 DEF RowStep, Enqueue, EnqueueDeferred, Complete, Sweep
  <2> QED
    BY <1>2, <1>4, <2>2, <2>3, StillComing
<1> QED
  BY <1>5, <1>6, <1>7

LEMMA AnnouncedServed ==
  ASSUME ServedInv, Announced
  PROVE  Unplaced' /\ (faults' = 0 => Served')
<1> USE DEF table, redis, calls, daemon
<1> PICK n \in notices : Bump(n) \/ Wake(n) \/ WakeMisses(n) \/ BumpFails(n) \/ LoseNotice(n)
  BY DEF Announced, Announce
<1>0. Typed
  BY DEF ServedInv, CacheInv
<1>1. /\ UNCHANGED <<row, home, poller, current, link, holds>> /\ UNCHANGED calls
      /\ nudge => nudge'
  <2>1. CASE Wake(n)
    BY <1>0, <2>1 DEF Wake, Typed, TypeOK
  <2>2. CASE Bump(n) \/ WakeMisses(n) \/ BumpFails(n) \/ LoseNotice(n)
    BY <2>2 DEF Bump, WakeMisses, BumpFails, LoseNotice
  <2> QED
    BY <2>1, <2>2
<1>2. Unplaced'
  BY <1>1 DEF ServedInv, Unplaced
<1>3. ASSUME faults' = 0
      PROVE  faults = 0 /\ (Bump(n) \/ Wake(n))
  BY <1>0, <1>3, BoundsAssumption
     DEF Bump, Wake, WakeMisses, BumpFails, LoseNotice, Fault, Typed, TypeOK
<1> SUFFICES ASSUME faults' = 0, NEW u \in told', Waiting(AgentOf[u])'
             PROVE  Coming(u)'
  BY <1>2 DEF Served
<1>4. Waiting(AgentOf[u])
  BY <1>1, StillWaiting
<1>5. CASE u \in told
  <2>1. Coming(u)
    BY <1>3, <1>4, <1>5 DEF ServedInv, Served
  <2>2. CASE Bump(n)
    <3>1. [n EXCEPT !.next = "wake"] \in notices' /\ [n EXCEPT !.next = "wake"].run = n.run
      BY <1>0, <2>2 DEF Bump, Later, Typed, TypeOK, Notices
    <3> QED
      BY <1>1, <2>1, <2>2, <3>1, StillComing DEF Bump, Later, Coming
  <2>3. CASE Wake(n) /\ (n.run \in Runtimes => link = "up")
    BY <1>1, <2>1, <2>3, StillComing DEF Wake
  <2>4. CASE Wake(n) /\ link = "down"
    BY <1>1, <2>4 DEF Coming
  <2> QED
    BY <1>0, <1>3, <2>2, <2>3, <2>4 DEF Wake, Typed, TypeOK
<1>6. CASE u \notin told
  <2>1. Bump(n) /\ u \in Queued(n.run)
    BY <1>3, <1>6 DEF Bump, Wake
  <2>2. home[u] = n.run /\ n.run \in Homes /\ u \in Rows
    BY <1>0, <2>1 DEF Queued, Typed, TypeOK, Notices
  <2>3. n.run \in Runtimes
    BY <1>4, <2>2, NoneAssumption DEF Waiting, Local, Homes
  <2>4. [n EXCEPT !.next = "wake"] \in notices' /\ [n EXCEPT !.next = "wake"].run = n.run
    BY <1>0, <2>1 DEF Bump, Later, Typed, TypeOK, Notices
  <2> QED
    BY <2>3, <2>4 DEF Coming
<1> QED
  BY <1>5, <1>6

\* Steps that leave rows and announcements alone.
LEMMA ServedFrame ==
  ASSUME ServedInv, UNCHANGED <<row, home, told>>, faults' = 0 => faults = 0,
         faults' = 0 => \A t \in told : Waiting(AgentOf[t]) /\ Coming(t) => Coming(t)'
  PROVE  Unplaced' /\ (faults' = 0 => Served')
<1>1. Unplaced'
  BY DEF ServedInv, Unplaced
<1>2. ASSUME faults' = 0, NEW t \in told, Waiting(AgentOf[t])'
      PROVE  Coming(t)'
  <2>1. Waiting(AgentOf[t])
    BY <1>2, StillWaiting
  <2> QED
    BY <1>2, <2>1 DEF ServedInv, Served
<1> QED
  BY <1>1, <1>2 DEF Served

LEMMA DaemonServed ==
  ASSUME ServedInv, PollerStep \/ LinkStep \/ Abandon \/ (\E r \in Runtimes : Expire(r))
  PROVE  Unplaced' /\ (faults' = 0 => Served')
<1> USE DEF table, redis, calls, daemon
<1>0. Typed
  BY DEF ServedInv, CacheInv
<1>1. ASSUME NEW c \in Calls, StartCall(c)
      PROVE  Unplaced' /\ (faults' = 0 => Served')
  <2>1. UNCHANGED <<row, home, told, faults>>
    BY <1>1 DEF StartCall
  <2>2. poller' = "calling" /\ current' = c /\ at'[c] = "promote" /\ todo'[c] = Runtimes
    BY <1>0, <1>1 DEF StartCall, Reset, Typed, TypeOK
  <2>3. \A t \in told : Coming(t)'
    BY <2>2 DEF Coming, Reaches
  <2> QED
    BY <2>1, <2>3, ServedFrame
<1>2. CASE Unblock \/ WakeBlocked \/ WakeAsleep \/ Tick
  <2>1. poller' = "ready" /\ UNCHANGED <<row, home, told, faults>>
    BY <1>2 DEF Unblock, WakeBlocked, WakeAsleep, Tick, Move
  <2> QED
    BY <2>1, ServedFrame DEF Coming
<1>3. CASE Block
  <2>1. Free' <= 0 /\ UNCHANGED <<row, home, told, faults>>
    BY <1>3 DEF Block, Move, Free
  <2> QED
    BY <2>1, ServedFrame DEF Coming
<1>4. CASE Doze \/ Break \/ Dial \/ Register
  <2>1. /\ UNCHANGED <<row, home, told, faults, notices, holds, current>> /\ UNCHANGED calls
        /\ nudge => nudge'
        /\ link = "down" => link' = "down" \/ nudge'
        /\ poller = "blocked" \/ poller' = poller
    BY <1>4 DEF Doze, Move, Break, Dial, Register
  <2>2. Free' = Free /\ \A c, t : home'[t] = home[t] /\ (Reaches(c, t)' <=> Reaches(c, t))
    BY <2>1 DEF Free, Reaches, QuotaLeft
  <2>3. \A t \in told : Coming(t) => Coming(t)'
    BY <2>1, <2>2 DEF Coming
  <2> QED
    BY <2>1, <2>3, ServedFrame
<1>5. CASE Abandon
  <2>1. faults' # 0 /\ UNCHANGED <<row, home, told>>
    BY <1>0, <1>5 DEF Abandon, Fault, Typed, TypeOK
  <2> QED
    BY <2>1, ServedFrame
<1>6. ASSUME NEW r \in Runtimes, Expire(r)
      PROVE  Unplaced' /\ (faults' = 0 => Served')
  <2>1. /\ UNCHANGED <<row, home, told, faults, poller, current, link, holds, nudge, notices>>
        /\ UNCHANGED calls
    BY <1>6 DEF Expire
  <2>2. \A t \in told : Coming(t) => Coming(t)'
    BY <2>1, StillComing
  <2> QED
    BY <2>1, <2>2, ServedFrame
<1> QED
  BY <1>1, <1>2, <1>3, <1>4, <1>5, <1>6 DEF PollerStep, LinkStep

\* A step of a call that is not the awaited one, or that keeps its promise.
LEMMA CallComing ==
  ASSUME NEW t, Coming(t), UNCHANGED <<poller, current, nudge, link, holds>>,
         notices \subseteq notices',
         poller = "calling" /\ current \in Calls /\ Reaches(current, t) => Reaches(current, t)'
  PROVE  Coming(t)'
<1>1. Free' = Free
  BY DEF Free
<1> QED
  BY <1>1 DEF Coming

\* Steps up to the candidate SELECT.
LEMMA CheckServed ==
  ASSUME ServedInv, NEW c \in Calls, NEW r \in Runtimes,
         \/ CheckHit(c, r) \/ CheckMiss(c, r) \/ ReadVersion(c)
         \/ \E stale \in SUBSET Stranded : Reclaim(c, stale)
  PROVE  Unplaced' /\ (faults' = 0 => Served')
<1> USE DEF table, redis, calls, daemon
<1>0. Typed
  BY DEF ServedInv, CacheInv
<1>1. /\ UNCHANGED <<row, home, told, notices, quota>> /\ UNCHANGED daemon
      /\ faults' = 0 => faults = 0
  BY <1>0 DEF CheckHit, CheckMiss, ReadVersion, Reclaim, Fault, Typed, TypeOK
<1> SUFFICES ASSUME faults' = 0, NEW t \in told, Waiting(AgentOf[t]), Coming(t),
                    NEW d \in Calls, Reaches(d, t)
             PROVE  Reaches(d, t)'
  <2>1. notices \subseteq notices' /\ UNCHANGED <<poller, current, nudge, link, holds>>
    BY <1>1
  <2>2. ASSUME faults' = 0, NEW t \in told, Waiting(AgentOf[t]), Coming(t)
        PROVE  Coming(t)'
    <3>1. poller = "calling" /\ current \in Calls /\ Reaches(current, t)
            => Reaches(current, t)'
      BY <2>1, <2>2
    <3> QED
      BY <2>1, <2>2, <3>1, CallComing
  <2> QED
    BY <1>1, <2>2, ServedFrame
<1>2. /\ home[t] \in Runtimes /\ verdict[home[t]] # version[home[t]] /\ home'[t] = home[t]
  BY <1>1, WaitingRow
<1>3. CASE d # c
  <2>1. /\ at'[d] = at[d] /\ todo'[d] = todo[d] /\ missed'[d] = missed[d] /\ seen'[d] = seen[d]
        /\ agents'[d] = agents[d] /\ got'[d] = got[d]
    BY <1>0, <1>3 DEF CheckHit, CheckMiss, ReadVersion, Reclaim, Stage, Typed, TypeOK
  <2> QED
    BY <1>1, <2>1 DEF Reaches, QuotaLeft
<1>4. CASE d = c /\ CheckHit(c, r)
  <2>1. home[t] # r /\ at[c] = "check" /\ UNCHANGED <<at, missed, seen>>
        /\ todo'[c] = todo[c] \ {r}
    BY <1>0, <1>2, <1>4 DEF CheckHit, Typed, TypeOK
  <2> QED
    BY <1>2, <1>4, <2>1 DEF Reaches
<1>5. CASE d = c /\ CheckMiss(c, r)
  <2>1. at[c] = "check" /\ UNCHANGED <<at, seen>>
        /\ todo'[c] = todo[c] \ {r} /\ missed'[c] = r /\ missed[c] = None
    BY <1>0, <1>5 DEF CheckMiss, Typed, TypeOK
  <2>2. home[t] # None
    BY <1>2, NoneAssumption
  <2> QED
    BY <1>2, <1>5, <2>1, <2>2 DEF Reaches
<1>6. CASE d = c /\ ReadVersion(c)
  <2>1. missed[c] \in Runtimes /\ version[missed[c]] \in Nat
    BY <1>0, <1>6 DEF ReadVersion, Typed, TypeOK, Homes
  <2>2. at[c] = "check" /\ UNCHANGED <<at, todo>>
    BY <1>6 DEF ReadVersion
  <2>3. /\ seen'[c][missed[c]] # None
        /\ \A q \in Runtimes : q # missed[c] => seen'[c][q] = seen[c][q]
    BY <1>0, <1>6, <2>1, NoneAssumption DEF ReadVersion, Typed, TypeOK
  <2> QED
    BY <1>2, <1>6, <2>2, <2>3 DEF Reaches
<1>7. ASSUME d = c, NEW stale \in SUBSET Stranded, Reclaim(c, stale)
      PROVE  Reaches(d, t)'
  <2>1. /\ at[c] = "reclaim" /\ todo' = todo /\ got'[c] = stale /\ quota' = quota
        /\ at'[c] = IF Cardinality(stale) = quota[c] THEN "answer" ELSE "check"
    BY <1>0, <1>7 DEF Reclaim, Stage, Typed, TypeOK
  <2>2. todo[c] = Runtimes
    BY <1>7, <2>1 DEF Reaches
  <2>3. CASE Cardinality(stale) = quota[c]
    <3>1. quota[c] \in Nat
      BY <1>0, BoundsAssumption DEF Typed, TypeOK
    <3>2. ~ QuotaLeft(c)'
      BY <2>1, <2>3, <3>1 DEF QuotaLeft
    <3> QED
      BY <1>7, <2>1, <2>3, <3>2 DEF Reaches
  <2>4. CASE Cardinality(stale) # quota[c]
    BY <1>2, <1>7, <2>1, <2>2, <2>4 DEF Reaches
  <2> QED
    BY <2>3, <2>4
<1> QED
  BY <1>3, <1>4, <1>5, <1>6, <1>7

LEMMA PromoteServed ==
  ASSUME ServedInv, NEW c \in Calls, NEW due \in SUBSET Rows, Promote(c, due)
  PROVE  Unplaced' /\ (faults' = 0 => Served')
<1> USE DEF table, redis, calls, daemon
<1>0. Typed
  BY DEF ServedInv, CacheInv
<1>1. /\ \A u \in Rows : row'[u] = IF u \in due THEN "queued" ELSE row[u]
      /\ \A u \in due : row[u] = "deferred"
      /\ UNCHANGED <<home, told, faults>>
      /\ UNCHANGED <<todo, missed, seen, agents, got, quota>>
      /\ UNCHANGED <<poller, current, nudge, link, holds>> /\ notices \subseteq notices'
      /\ at[c] = "promote" /\ at' = [at EXCEPT ![c] = "reclaim"]
  BY DEF Promote, Stage
<1>2. Unplaced'
  BY <1>1 DEF ServedInv, Unplaced
<1>3. ASSUME faults' = 0, NEW t \in told, Waiting(AgentOf[t])'
      PROVE  Coming(t)'
  <2>1. \A u \in Rows : row'[u] = "dispatched" <=> row[u] = "dispatched"
    BY <1>1
  <2>2. Coming(t)
    BY <1>1, <1>3, <2>1, StillWaiting DEF ServedInv, Served
  <2>3. ASSUME NEW d \in Calls, Reaches(d, t)
        PROVE  Reaches(d, t)'
    <3>1. at'[d] = IF d = c THEN "reclaim" ELSE at[d]
      BY <1>0, <1>1 DEF Typed, TypeOK
    <3> QED
      BY <1>1, <2>3, <3>1 DEF Reaches, QuotaLeft
  <2> QED
    BY <1>1, <2>2, <2>3, CallComing
<1> QED
  BY <1>1, <1>2, <1>3 DEF Served

\* A runtime of an announced row is among the asked, so its agents are found.
LEMMA ListServed ==
  ASSUME ServedInv, NEW c \in Calls, List(c)
  PROVE  Unplaced' /\ (faults' = 0 => Served')
<1> USE DEF table, redis, calls, daemon
<1>0. Typed
  BY DEF ServedInv, CacheInv
<1> DEFINE asked == {r \in Runtimes : seen[c][r] # None}
           found == {AgentOf[t] : t \in UNION {Queued(r) : r \in asked}}
<1>1. /\ UNCHANGED <<row, home, told, faults, notices, quota, got, todo, missed>>
      /\ UNCHANGED <<poller, current, nudge, link, holds>>
      /\ at[c] = "check" /\ todo[c] = {} /\ missed[c] = None
      /\ at' = [at EXCEPT ![c] = IF asked = {} THEN "answer" ELSE "mark"]
      /\ agents' = [agents EXCEPT ![c] = found]
      /\ \A d \in Calls : d # c => seen'[d] = seen[d]
  BY <1>0 DEF List, Stage, Typed, TypeOK
<1>2. ASSUME NEW t \in told, Waiting(AgentOf[t]), NEW d \in Calls, Reaches(d, t)
      PROVE  Reaches(d, t)'
  <2>1. t \in Rows /\ row[t] = "queued" /\ home[t] \in Runtimes
    BY <1>2, WaitingRow
  <2>2. CASE d = c
    <3>1. seen[c][home[t]] # None
      BY <1>1, <1>2, <2>1, <2>2, NoneAssumption DEF Reaches
    <3>2. home[t] \in asked /\ t \in Queued(home[t])
      BY <2>1, <3>1 DEF Queued
    <3>3. AgentOf[t] \in found
      BY <3>2
    <3> HIDE DEF found
    <3>4. at'[c] = "mark" /\ agents'[c] = found
      BY <1>0, <1>1, <3>2 DEF Typed, TypeOK
    <3> QED
      BY <2>2, <3>3, <3>4 DEF Reaches
  <2>3. CASE d # c
    <3> HIDE DEF asked, found
    <3>1. at'[d] = at[d] /\ agents'[d] = agents[d]
      BY <1>0, <1>1, <2>3 DEF Typed, TypeOK
    <3> QED
      BY <1>1, <1>2, <2>3, <3>1 DEF Reaches, QuotaLeft
  <2> QED
    BY <2>2, <2>3
<1>3. \A t \in told : Waiting(AgentOf[t]) /\ Coming(t) => Coming(t)'
  <2> TAKE t \in told
  <2>1. notices \subseteq notices' /\ UNCHANGED <<poller, current, nudge, link, holds>>
    BY <1>1
  <2> QED
    BY <1>2, <2>1, CallComing
<1> QED
  BY <1>1, <1>3, ServedFrame

\* A waiting agent that is up for its turn gets a row, or the call is full.
LEMMA ClaimServed ==
  ASSUME ServedInv, NEW c \in Calls, NEW a, NEW t \in Rows,
         ClaimNothing(c, a) \/ ClaimAgent(c, a, t)
  PROVE  Unplaced' /\ (faults' = 0 => Served')
<1> USE DEF table, redis, calls, daemon
<1>0. Typed
  BY DEF ServedInv, CacheInv
<1>1. /\ UNCHANGED <<home, faults, notices, at, todo, missed, seen, quota>>
      /\ UNCHANGED <<poller, current, nudge, link, holds>>
      /\ at[c] = "mark" /\ QuotaLeft(c) /\ agents' = [agents EXCEPT ![c] = @ \ {a}]
      /\ told' \subseteq told
      /\ \A d \in Calls : d # c => got'[d] = got[d]
  BY <1>0 DEF ClaimNothing, ClaimAgent, Claiming, Typed, TypeOK
<1>2. \A u \in Rows : row'[u] = row[u] \/ (u = t /\ row[u] = "queued" /\ row'[u] = "dispatched")
  BY <1>0 DEF ClaimNothing, ClaimAgent, Typed, TypeOK
<1>3. Unplaced'
  BY <1>1, <1>2 DEF ServedInv, Unplaced
<1>4. ASSUME faults' = 0, NEW u \in told', Waiting(AgentOf[u])'
      PROVE  Coming(u)'
  <2>0. u \in told /\ u \in Rows /\ row[u] = "queued"
    BY <1>1, <1>4, WaitingRow
  <2>1. AgentOf[u] # a
    <3>1. CASE ClaimAgent(c, a, t)
      <4>1. AgentOf[t] = a /\ row'[t] = "dispatched"
        BY <1>0, <3>1 DEF ClaimAgent, Typed, TypeOK
      <4> QED
        BY <1>4, <4>1 DEF Waiting, Busy
    <3>2. CASE ClaimNothing(c, a)
      <4>1. UNCHANGED row
        BY <3>2 DEF ClaimNothing
      <4>2. Waiting(AgentOf[u])
        BY <1>1, <1>4, <4>1, StillWaiting
      <4> QED
        BY <2>0, <3>2, <4>2 DEF ClaimNothing, Waiting
    <3> QED
      BY <3>1, <3>2
  <2>2. \A v \in Rows : AgentOf[v] = AgentOf[u] => row'[v] = row[v]
    BY <2>1, <1>0 DEF ClaimNothing, ClaimAgent, Typed, TypeOK
  <2>3. Coming(u)
    BY <1>1, <1>4, <2>0, <2>2, StillWaiting DEF ServedInv, Served
  <2>4. ASSUME NEW d \in Calls, Reaches(d, u)
        PROVE  Reaches(d, u)'
    <3>1. CASE d = c
      <4>1. AgentOf[u] \in agents[c]
        BY <1>1, <2>4, <3>1 DEF Reaches
      <4>2. AgentOf[u] \in agents'[c] /\ at'[c] = "mark"
        BY <1>0, <1>1, <2>1, <4>1 DEF Typed, TypeOK
      <4> QED
        BY <3>1, <4>2 DEF Reaches
    <3>2. CASE d # c
      <4>1. agents'[d] = agents[d]
        BY <1>0, <1>1, <3>2 DEF Typed, TypeOK
      <4> QED
        BY <1>1, <2>4, <3>2, <4>1 DEF Reaches, QuotaLeft
    <3> QED
      BY <3>1, <3>2
  <2>5. notices \subseteq notices' /\ UNCHANGED <<poller, current, nudge, link, holds>>
    BY <1>1
  <2> QED
    BY <2>3, <2>4, <2>5, CallComing
<1> QED
  BY <1>3, <1>4 DEF Served

LEMMA AnswerServed ==
  ASSUME ServedInv, NEW c \in Calls, Answer(c)
  PROVE  Unplaced' /\ (faults' = 0 => Served')
<1> USE DEF table, redis, calls, daemon
<1>0. Typed
  BY DEF ServedInv, CacheInv
<1>1. UNCHANGED <<row, home, told, faults, notices, nudge, link>> /\ at[c] = "answer"
  BY DEF Answer
<1>2. \A d \in Calls : d # c => /\ at'[d] = at[d] /\ todo'[d] = todo[d] /\ seen'[d] = seen[d]
                                /\ missed'[d] = missed[d] /\ agents'[d] = agents[d]
                                /\ got'[d] = got[d] /\ quota'[d] = quota[d]
  BY <1>0 DEF Answer, Reset, Typed, TypeOK
<1>3. CASE current # c
  <2>1. UNCHANGED <<holds, poller, current>>
    BY <1>3 DEF Answer
  <2>2. ASSUME NEW t \in told, Coming(t)
        PROVE  Coming(t)'
    <3>1. poller = "calling" /\ current \in Calls /\ Reaches(current, t)
            => Reaches(current, t)'
      BY <1>1, <1>2, <1>3, <2>1 DEF Reaches, QuotaLeft
    <3>2. notices \subseteq notices' /\ UNCHANGED <<poller, current, nudge, link, holds>>
      BY <1>1, <2>1
    <3> QED
      BY <2>2, <3>1, <3>2, CallComing
  <2> QED
    BY <1>1, <2>2, ServedFrame
<1>4. CASE current = c
  <2>1. /\ holds' = holds \cup got[c]
        /\ poller' = IF Cardinality(got[c]) = quota[c] THEN "ready" ELSE "asleep"
    BY <1>4 DEF Answer
  <2>2. Cardinality(got[c]) \in Nat /\ quota[c] \in Nat /\ Cardinality(got[c]) <= quota[c]
    BY SetsAreFinite, <1>0, BoundsAssumption DEF ServedInv, SlotsInv, Answers, Typed, TypeOK
  <2>3. Free <= 0 => Free' <= 0
    <3>1. holds' \in SUBSET Rows /\ holds \subseteq holds'
      BY <1>0, <2>1 DEF Typed, TypeOK
    <3>2. IsFiniteSet(holds') /\ Cardinality(holds') \in Nat
      BY <1>0, <3>1, SetsAreFinite
    <3>3. Cardinality(holds) <= Cardinality(holds') /\ Cardinality(holds) \in Nat
      BY <1>0, <3>1, <3>2, FS_Subset, SetsAreFinite
    <3> QED
      BY <3>2, <3>3, BoundsAssumption DEF Free
  <2>4. Free \in Int
    BY <1>0, FreeBounds DEF Typed
  <2>5. ASSUME NEW t \in told, Coming(t)
        PROVE  Coming(t)'
    <3>1. CASE nudge \/ link = "down" \/ Free <= 0 \/ (\E n \in notices : n.run \in Runtimes)
      BY <1>1, <2>3, <3>1 DEF Coming
    <3>2. CASE Reaches(current, t)
      <4>1. ~ QuotaLeft(c)
        BY <1>1, <1>4, <3>2 DEF Reaches
      <4>2. poller' = "ready"
        BY <2>1, <2>2, <4>1 DEF QuotaLeft
      <4> QED
        BY <4>2 DEF Coming
    <3>3. poller # "ready"
      BY <1>4, NoneAssumption DEF ServedInv, Awaited
    <3> QED
      BY <2>5, <3>1, <3>2, <3>3 DEF Coming
  <2> QED
    BY <1>1, <2>5, ServedFrame
<1> QED
  BY <1>3, <1>4

LEMMA CallServed ==
  ASSUME ServedInv, NEW c \in Calls, CallStep(c) \/ CallTrouble(c)
  PROVE  Unplaced' /\ (faults' = 0 => Served')
<1> USE DEF table, redis, calls, daemon
<1>0. Typed
  BY DEF ServedInv, CacheInv
<1>1. ASSUME NEW r \in Runtimes, Mark(c, r)
      PROVE  Unplaced' /\ (faults' = 0 => Served')
  <2>1. /\ UNCHANGED <<row, home, told, notices, at, todo, missed, agents, got, quota, faults>>
        /\ UNCHANGED <<poller, current, nudge, link, holds>>
        /\ at[c] = "mark" /\ \A d \in Calls : d # c => seen'[d] = seen[d]
    BY <1>0, <1>1 DEF Mark, Marked, Typed, TypeOK
  <2>2. ASSUME NEW t \in told, Coming(t)
        PROVE  Coming(t)'
    <3>1. poller = "calling" /\ current \in Calls /\ Reaches(current, t)
            => Reaches(current, t)'
      BY <2>1 DEF Reaches, QuotaLeft
    <3> QED
      BY <2>1, <2>2, <3>1, CallComing
  <2> QED
    BY <2>1, <2>2, ServedFrame
<1>2. CASE EndClaims(c)
  <2>1. /\ UNCHANGED <<row, home, told, notices, todo, missed, seen, agents, got, quota, faults>>
        /\ UNCHANGED <<poller, current, nudge, link, holds>>
        /\ at[c] = "mark" /\ at'[c] = "answer" /\ (agents[c] = {} \/ ~ QuotaLeft(c))
        /\ \A d \in Calls : d # c => at'[d] = at[d]
    BY <1>0, <1>2 DEF EndClaims, Stage, Typed, TypeOK
  <2>2. ASSUME NEW t \in told, Coming(t)
        PROVE  Coming(t)'
    <3>1. poller = "calling" /\ current \in Calls /\ Reaches(current, t)
            => Reaches(current, t)'
      BY <2>1 DEF Reaches, QuotaLeft
    <3> QED
      BY <2>1, <2>2, <3>1, CallComing
  <2> QED
    BY <2>1, <2>2, ServedFrame
<1>3. CASE CallTrouble(c)
  <2>1. Fault
    BY <1>3 DEF CallTrouble, CallFails, LoseCall, MarkFails, FinalizeFails
  <2>2. faults' # 0
    BY <1>0, <2>1 DEF Fault, Typed, TypeOK
  <2>3. UNCHANGED home
    BY <1>3 DEF CallTrouble, CallFails, LoseCall, MarkFails, Marked, FinalizeFails
  <2>4. \A u \in Rows : row'[u] = row[u] \/ row'[u] = "queued"
    BY <1>0, <1>3 DEF CallTrouble, CallFails, LoseCall, MarkFails, Marked, FinalizeFails,
                      Typed, TypeOK
  <2> QED
    BY <2>2, <2>3, <2>4 DEF ServedInv, Unplaced
<1>4. CASE \/ \E r \in Runtimes : CheckHit(c, r) \/ CheckMiss(c, r)
           \/ \E stale \in SUBSET Stranded : Reclaim(c, stale)
           \/ ReadVersion(c)
  <2>1. CASE \E r \in Runtimes : CheckHit(c, r) \/ CheckMiss(c, r)
    BY <2>1, CheckServed
  <2>2. CASE Runtimes # {}
    BY <1>4, <2>2, CheckServed
  <2>3. CASE Runtimes = {}
    <3>1. told' = told /\ UNCHANGED <<row, home>>
      BY <1>4 DEF CheckHit, CheckMiss, ReadVersion, Reclaim
    <3>2. \A u \in told : ~ Waiting(AgentOf[u])
      BY <2>3, WaitingRow
    <3>3. faults' = 0 => faults = 0
      BY <1>0, <1>4 DEF CheckHit, CheckMiss, ReadVersion, Reclaim, Fault, Typed, TypeOK
    <3> QED
      BY <3>1, <3>2, <3>3, ServedFrame
  <2> QED
    BY <2>1, <2>2, <2>3
<1>5. ASSUME NEW due \in SUBSET {t \in Rows : row[t] = "deferred"}, Promote(c, due)
      PROVE  Unplaced' /\ (faults' = 0 => Served')
  BY <1>5, PromoteServed
<1>6. ASSUME NEW a \in agents[c], ClaimNothing(c, a)
      PROVE  Unplaced' /\ (faults' = 0 => Served')
  <2>1. CASE Rows # {}
    BY <1>6, <2>1, ClaimServed
  <2>2. CASE Rows = {}
    <3>1. told' = {} /\ Unplaced'
      BY <1>0, <1>6, <2>2 DEF ClaimNothing, Typed, TypeOK, Unplaced
    <3> QED
      BY <3>1 DEF Served
  <2> QED
    BY <2>1, <2>2
<1> QED
  BY <1>1, <1>2, <1>3, <1>4, PromoteServed, ListServed, ClaimServed, AnswerServed,
     <1>5, <1>6 DEF CallStep

LEMMA AwaitedStep ==
  ASSUME ServedInv, [Next]_vars
  PROVE  Awaited'
<1> USE DEF table, redis, calls, daemon
<1>1. CASE UNCHANGED <<poller, current>>
  BY <1>1 DEF ServedInv, Awaited
<1>2. CASE current' = None
  BY <1>2 DEF Awaited
<1>3. ASSUME NEW c \in Calls, StartCall(c)
      PROVE  Awaited'
  BY <1>3 DEF StartCall, Awaited
<1>4. ASSUME NEW from \in {"ready", "blocked", "asleep"}, NEW to, Move(from, to)
      PROVE  Awaited'
  BY <1>4 DEF Move, ServedInv, Awaited
<1>5. ASSUME NEW t \in Rows, RowStep(t)
      PROVE  UNCHANGED <<poller, current>>
  BY <1>5 DEF RowStep, Enqueue, EnqueueDeferred, Complete, Release, Sweep
<1>6. ASSUME Announced
      PROVE  UNCHANGED <<poller, current>>
  BY <1>6 DEF Announced, Announce, Bump, Wake, WakeMisses, BumpFails, LoseNotice
<1>7. ASSUME PollerStep
      PROVE  Awaited'
  BY <1>3, <1>4, <1>7 DEF PollerStep, Block, Unblock, WakeBlocked, WakeAsleep, Doze, Tick
<1>8. ASSUME LinkStep \/ (\E r \in Runtimes : Expire(r))
      PROVE  UNCHANGED <<poller, current>>
  BY <1>8 DEF LinkStep, Break, Dial, Register, Expire
<1>9. ASSUME Abandon
      PROVE  current' = None
  BY <1>9 DEF Abandon
<1>10. ASSUME NEW c \in Calls, CallStep(c) \/ CallTrouble(c)
       PROVE  UNCHANGED <<poller, current>> \/ current' = None
  <2>1. CASE Answer(c) \/ LoseCall(c)
    BY <2>1 DEF Answer, LoseCall
  <2>2. CASE CallStep(c) /\ ~ Answer(c)
    BY <2>2 DEF CallStep, Promote, Reclaim, CheckHit, CheckMiss, Mark, Marked, ReadVersion,
                List, EndClaims, ClaimNothing, ClaimAgent, Claiming
  <2>3. CASE CallTrouble(c) /\ ~ LoseCall(c)
    BY <2>3 DEF CallTrouble, CallFails, MarkFails, Marked, FinalizeFails
  <2> QED
    BY <1>10, <2>1, <2>2, <2>3
<1>11. ASSUME UNCHANGED vars
       PROVE  UNCHANGED <<poller, current>>
  BY <1>11 DEF vars
<1> QED
  BY <1>1, <1>2, <1>5, <1>6, <1>7, <1>8, <1>9, <1>10, <1>11 DEF Next

\* Unless something failed, the poller never falls asleep over an announced row
\* of an idle agent: for any number of rows, agents, runtimes and calls.
THEOREM AnnouncedRowsAreServed == Spec => []NotifiedIsServed
<1>1. ServedInv /\ [Next]_vars => Unplaced' /\ (faults' = 0 => Served')
  <2> SUFFICES ASSUME ServedInv, [Next]_vars PROVE Unplaced' /\ (faults' = 0 => Served')
    OBVIOUS
  <2>1. CASE UNCHANGED vars
    <3>1. /\ UNCHANGED <<row, home, told, faults, notices, poller, current, link, holds, nudge>>
          /\ UNCHANGED calls
      BY <2>1 DEF vars, table, redis, daemon
    <3>2. \A t \in told : Coming(t) => Coming(t)'
      BY <3>1, StillComing
    <3> QED
      BY <3>1, <3>2, ServedFrame
  <2> QED
    BY <2>1, RowStepServed, AnnouncedServed, DaemonServed, CallServed DEF Next
<1>2. CacheInv /\ SlotsInv /\ [Next]_vars => CacheInv' /\ SlotsInv'
  BY CacheStep, SlotsStep
<1>3. ServedInv /\ [Next]_vars => ServedInv'
  BY <1>1, <1>2, AwaitedStep DEF ServedInv
<1> QED
  BY InitServed, <1>3, ServedSuffices, PTL DEF Spec

-----------------------------------------------------------------------------
(* The ledger of the rows.                                                 *)

LedgerStep == [Ledger!Next]_(Ledger!vars)

RowStates == {"none", "deferred", "queued", "dispatched", "done"}

\* A step that changes no row's phase is none of the ledger.
LEMMA LedgerIdle ==
  ASSUME \A t \in Rows : Phase(t)' = Phase(t) /\ (row'[t] = "none" <=> row[t] = "none")
  PROVE  LedgerStep
BY DEF LedgerStep, Ledger!vars

\* The steps of one row: it appears, is handed out, given back, or closed.
LEMMA LedgerMoves ==
  ASSUME row \in [Rows -> RowStates], NEW t \in Rows, NEW v \in RowStates,
         row' = [row EXCEPT ![t] = v],
         \/ row[t] = "none" /\ v \in {"queued", "deferred"}
         \/ row[t] = "queued" /\ v = "dispatched"
         \/ row[t] = "dispatched" /\ v \in {"queued", "done"}
  PROVE  LedgerStep
<1>1. /\ row'[t] = v /\ v # "none"
      /\ \A u \in Rows : u # t => row'[u] = row[u]
  OBVIOUS
<1>2. \A u \in Rows : u # t => Phase(u)' = Phase(u)
  BY <1>1 DEF Phase
<1>3. SUFFICES Phase(t)' # Phase(t) /\
               \/ Ledger!Request(t, t) \/ Ledger!HandOut(t) \/ Ledger!GiveBack(t)
               \/ Ledger!Close({t}, "completed") /\ Phase(t) = "held"
  <2>1. {t} \in SUBSET Ledger!Unsettled \/ Phase(t) # "held"
    BY DEF Ledger!Unsettled
  <2>2. "completed" \in Ledger!Outcomes
    BY DEF Ledger!Outcomes
  <2> QED
    BY <1>3, <2>1, <2>2 DEF LedgerStep, Ledger!Next
<1>4. CASE row[t] = "none" /\ v \in {"queued", "deferred"}
  <2>1. Phase(t) = "none" /\ Phase(t)' = "open"
    BY <1>1, <1>4 DEF Phase
  <2>2. Ledger!Request(t, t)
    BY <1>1, <1>2, <1>4, <2>1 DEF Ledger!Request, Ledger!Write
  <2> QED
    BY <2>1, <2>2
<1>5. CASE row[t] = "queued" /\ v = "dispatched"
  <2>1. Phase(t) = "open" /\ Phase(t)' = "held"
    BY <1>1, <1>5 DEF Phase
  <2>2. \A u \in Rows : (IF row[u] = "none" THEN None ELSE u) = t => Phase(u) # "held"
    BY <2>1 DEF Phase
  <2>3. Ledger!HandOut(t)
    BY <1>1, <1>2, <1>5, <2>1, <2>2 DEF Ledger!HandOut
  <2> QED
    BY <2>1, <2>3
<1>6. CASE row[t] = "dispatched" /\ v = "queued"
  <2>1. Phase(t) = "held" /\ Phase(t)' = "open"
    BY <1>1, <1>6 DEF Phase
  <2>2. Ledger!GiveBack(t)
    BY <1>1, <1>2, <1>6, <2>1 DEF Ledger!GiveBack
  <2> QED
    BY <2>1, <2>2
<1>7. CASE row[t] = "dispatched" /\ v = "done"
  <2>1. Phase(t) = "held" /\ Phase(t)' = "completed"
    BY <1>1, <1>7 DEF Phase
  <2>2. Ledger!Close({t}, "completed")
    BY <1>1, <1>2, <1>7, <2>1 DEF Ledger!Close
  <2> QED
    BY <2>1, <2>2
<1> QED
  BY <1>4, <1>5, <1>6, <1>7

\* Only these steps write a row. That what a call rolls back is dispatched still,
\* is what Answers says.
LEMMA LedgerSteps ==
  ASSUME SlotsInv, [Next]_vars
  PROVE  LedgerStep
<1>1. /\ row \in [Rows -> RowStates] /\ holds \in SUBSET Rows
      /\ \A c \in Calls : got[c] \in SUBSET Rows
  BY DEF SlotsInv, Typed, TypeOK, RowStates
<1>2. CASE UNCHANGED row
  <2>1. \A t \in Rows : Phase(t)' = Phase(t)
    BY <1>2 DEF Phase
  <2> QED
    BY <1>2, <2>1, LedgerIdle
<1>3. ASSUME NEW t \in Rows, RowStep(t)
      PROVE  LedgerStep
  <2>1. CASE \E r \in Homes : Enqueue(t, r) \/ EnqueueDeferred(t, r)
    BY <1>1, <2>1, LedgerMoves DEF Enqueue, EnqueueDeferred, RowStates
  <2>2. CASE Complete(t) \/ Sweep(t)
    <3>1. row[t] = "dispatched" /\ row' = [row EXCEPT ![t] = "done"]
      BY <2>2 DEF Complete, Sweep, Stranded
    <3> QED
      BY <1>1, <3>1, LedgerMoves DEF RowStates
  <2>3. CASE Release(t)
    BY <1>2, <2>3 DEF Release, table
  <2> QED
    BY <1>3, <2>1, <2>2, <2>3 DEF RowStep
<1>4. ASSUME NEW c \in Calls, NEW due \in SUBSET {t \in Rows : row[t] = "deferred"},
             Promote(c, due)
      PROVE  LedgerStep
  <2>1. \A t \in Rows : row'[t] = row[t] \/ (row[t] = "deferred" /\ row'[t] = "queued")
    BY <1>4 DEF Promote
  <2>2. \A t \in Rows : Phase(t)' = Phase(t)
    BY <2>1 DEF Phase
  <2> QED
    BY <2>1, <2>2, LedgerIdle
<1>5. ASSUME NEW c \in Calls, NEW a, NEW t \in Rows, ClaimAgent(c, a, t)
      PROVE  LedgerStep
  BY <1>1, <1>5, LedgerMoves DEF ClaimAgent, RowStates
<1>6. ASSUME NEW c \in Calls, NEW t \in got[c], FinalizeFails(c, t)
      PROVE  LedgerStep
  <2>1. t \in Rows /\ row[t] = "dispatched"
    BY <1>1 DEF SlotsInv, Answers
  <2>2. CASE row' = [row EXCEPT ![t] = "queued"]
    BY <1>1, <2>1, <2>2, LedgerMoves DEF RowStates
  <2>3. CASE UNCHANGED row
    BY <1>2, <2>3
  <2> QED
    BY <1>6, <2>2, <2>3 DEF FinalizeFails
<1>7. ASSUME NEW c \in Calls, CallStep(c)
      PROVE  LedgerStep
  <2>1. \/ \E due \in SUBSET {t \in Rows : row[t] = "deferred"} : Promote(c, due)
        \/ \E a \in agents[c], t \in Rows : ClaimAgent(c, a, t)
        \/ UNCHANGED row
    BY <1>7 DEF CallStep, Reclaim, CheckHit, CheckMiss, Mark, Marked, ReadVersion, List,
                EndClaims, Answer, ClaimNothing, table
  <2> QED
    BY <1>2, <1>4, <1>5, <2>1
<1>8. ASSUME NEW c \in Calls, CallTrouble(c)
      PROVE  LedgerStep
  <2>1. (\E t \in got[c] : FinalizeFails(c, t)) \/ UNCHANGED row
    BY <1>8 DEF CallTrouble, CallFails, LoseCall, MarkFails, Marked, table
  <2> QED
    BY <1>2, <1>6, <2>1
<1>9. CASE Announced
  BY <1>2, <1>9 DEF Announced, Announce, Bump, Wake, WakeMisses, BumpFails, LoseNotice, table
<1>10. CASE PollerStep \/ LinkStep \/ Abandon
  BY <1>2, <1>10 DEF PollerStep, StartCall, Block, Unblock, WakeBlocked, WakeAsleep, Doze,
        Tick, Move, LinkStep, Break, Dial, Register, Abandon, table
<1>11. CASE (\E r \in Runtimes : Expire(r)) \/ UNCHANGED vars
  BY <1>2, <1>11 DEF Expire, vars, table
<1> QED
  BY <1>3, <1>7, <1>8, <1>9, <1>10, <1>11 DEF Next

\* Polls, redeliveries, rollbacks and answers that nobody waits for leave the rows
\* to the ledger of TaskQueue: a row handed out is given back or closed, and what
\* is closed stays so, whichever calls still hold it.
THEOREM PathImplementsLedger == Spec => ImplementsLedger
<1>1. Init => Ledger!Init
  <2> SUFFICES ASSUME Init PROVE Ledger!Init
    OBVIOUS
  <2>1. \A t \in Rows : row[t] = "none" /\ Phase(t) = "none"
    BY DEF Init, Phase
  <2> QED
    BY <2>1 DEF Ledger!Init
<1> QED
  BY <1>1, InitSlots, SlotsStep, LedgerSteps, PTL
     DEF Spec, ImplementsLedger, Ledger!Spec, LedgerStep

=============================================================================
