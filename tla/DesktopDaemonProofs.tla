------------------------ MODULE DesktopDaemonProofs ------------------------
(***************************************************************************)
(* Proofs about DesktopDaemon, for every value of its constants.           *)
(***************************************************************************)
EXTENDS DesktopDaemon, TLAPS

-----------------------------------------------------------------------------
(* Types.                                                                  *)

\* The conjuncts of TypeOK, by what they are about.
OutsideTyped ==
    /\ daemon \in [at : Health, owner : Owner]
    /\ config \in Owner /\ sidecar \in Owner
    /\ revoked \in SUBSET Users
    /\ session \in Owner
    /\ alive \in BOOLEAN

ViewTyped ==
    /\ current \in Shown /\ expired \in BOOLEAN /\ due \in BOOLEAN
    /\ polls \in [Pollers -> [at : {"idle", "seen", "probing"}, seen : Health]]

OpsTyped == ops \in [Slots -> [at : OpSteps, again : BOOLEAN]]

ProcSteps == {"idle", "clear", "unmark", "stop", "sync", "mint", "write", "mark",
              "switch", "auto"}
ProcTyped ==
    procs \in [Procs -> [at : ProcSteps, why : {"login", "logout", "reauth"}, user : Owner,
                         tok : Owner, changed : BOOLEAN]]

TallyTyped ==
    /\ lapses \in SUBSET Lapses
    /\ count \in 0..MaxEvents

LEMMA CountTyped ==
  ASSUME TypeOK, Event \/ count' = count
  PROVE  count' \in 0..MaxEvents
BY DesktopAssumption DEF Event, TypeOK

LEMMA InitTyped == Init => TypeOK
<1> SUFFICES ASSUME Init PROVE TypeOK
  OBVIOUS
<1>1. 0 \in 0..MaxEvents
  BY DesktopAssumption
<1>2. First \in Owner /\ None \in Owner
  BY DesktopAssumption DEF Owner
<1>3. OutsideTyped
  <2>1. daemon \in [at : Health, owner : Owner]
    BY <1>2 DEF Init, Health
  <2> QED
    BY <1>2, <2>1 DEF Init, OutsideTyped
<1>4. ViewTyped
  BY DEF Init, ViewTyped, Health, Shown, NoPoll
<1>5. OpsTyped
  BY DEF Init, OpsTyped, NoOp, OpSteps
<1>6. ProcTyped
  BY <1>2 DEF Init, ProcTyped, ProcSteps, NoProc
<1>7. TallyTyped
  BY <1>1 DEF Init, TallyTyped
<1> QED
  BY <1>3, <1>4, <1>5, <1>6, <1>7
     DEF TypeOK, OutsideTyped, ViewTyped, OpsTyped, ProcTyped, ProcSteps, TallyTyped

\* What the operations do with their slot.
LEMMA OpsMove ==
  ASSUME TypeOK, NEW s \in Slots, NEW step \in OpSteps, NEW again \in BOOLEAN,
         \/ Begin(s, step, again) \/ Goto(s, step) \/ End(s) \/ ops' = ops
         \/ ops' = [t \in Slots |-> NoOp]
  PROVE  OpsTyped'
<1>1. NoOp \in [at : OpSteps, again : BOOLEAN]
  BY DEF NoOp, OpSteps
<1>2. CASE Begin(s, step, again)
  BY <1>2 DEF Begin, TypeOK, OpsTyped
<1>3. CASE Goto(s, step)
  BY <1>3 DEF Goto, TypeOK, OpsTyped
<1>4. CASE End(s)
  BY <1>4, <1>1 DEF End, TypeOK, OpsTyped
<1>5. CASE ops' = ops
  BY <1>5 DEF TypeOK, OpsTyped
<1>6. CASE ops' = [t \in Slots |-> NoOp]
  BY <1>6, <1>1 DEF OpsTyped
<1> QED
  BY <1>2, <1>3, <1>4, <1>5, <1>6

\* And the procedures with theirs.
LEMMA ProcsMove ==
  ASSUME TypeOK, NEW c \in Procs, NEW step \in ProcSteps, NEW user \in Owner,
         NEW why \in {"login", "logout", "reauth"},
         \/ Proceed(c, step) \/ Return(c) \/ Commence(c, step, why, user)
         \/ procs' = [procs EXCEPT ![c] = Proc(step, why, user)]
         \/ procs' = [d \in Procs |-> NoProc] \/ procs' = procs
  PROVE  ProcTyped'
<1>1. /\ NoProc \in [at : ProcSteps, why : {"login", "logout", "reauth"}, user : Owner,
                     tok : Owner, changed : BOOLEAN]
      /\ Proc(step, why, user)
            \in [at : ProcSteps, why : {"login", "logout", "reauth"}, user : Owner,
                 tok : Owner, changed : BOOLEAN]
  BY DEF NoProc, Proc, ProcSteps, Owner
<1>2. ProcTyped
  BY DEF TypeOK, ProcTyped, ProcSteps
<1>3. CASE Proceed(c, step)
  BY <1>2, <1>3 DEF Proceed, ProcTyped
<1>4. CASE Return(c)
  BY <1>1, <1>2, <1>4 DEF Return, ProcTyped
<1>5. CASE procs' = [procs EXCEPT ![c] = Proc(step, why, user)]
  BY <1>1, <1>2, <1>5 DEF ProcTyped
<1>6. CASE procs' = [d \in Procs |-> NoProc]
  BY <1>1, <1>6 DEF ProcTyped
<1>7. CASE procs' = procs
  BY <1>2, <1>7 DEF ProcTyped
<1> QED
  BY <1>3, <1>4, <1>5, <1>6, <1>7 DEF Commence

LEMMA PollingTyped ==
  ASSUME TypeOK, NEW p \in Pollers, Polling(p)
  PROVE  TypeOK'
<1>1. OutsideTyped'
  BY DEF Polling, PollAnswer, PollRunning, PollNotRunning, PollProbe, PollProbed, files,
         view, tally, TypeOK, OutsideTyped
<1>2. ViewTyped'
  <2>1. CASE PollAnswer(p)
    BY <2>1 DEF PollAnswer, view, TypeOK, ViewTyped, Shown, Health
  <2>2. CASE PollRunning(p)
    BY <2>2 DEF PollRunning, NoPoll, view, TypeOK, ViewTyped, Shown, Health
  <2>3. CASE PollNotRunning(p)
    BY <2>3
       DEF PollNotRunning, NotRunning, NoPoll, view, TypeOK, ViewTyped, Shown, Health
  <2>4. CASE PollProbe(p)
    BY <2>4 DEF PollProbe, MayProbe, view, TypeOK, ViewTyped, Shown, Health
  <2>5. CASE PollProbed(p)
    BY <2>5
       DEF PollProbed, NotRunning, NoPoll, Rejected, view, TypeOK, ViewTyped, Shown,
           Health
  <2> QED
    BY <2>1, <2>2, <2>3, <2>4, <2>5 DEF Polling
<1>3. OpsTyped'
  BY DEF Polling, PollAnswer, PollRunning, PollNotRunning, PollProbe, PollProbed,
         TypeOK, OpsTyped
<1>4. ProcTyped'
  BY DEF Polling, PollAnswer, PollRunning, PollNotRunning, PollProbe, PollProbed,
         TypeOK, ProcTyped, ProcSteps
<1>5. TallyTyped'
  <2>1. Event \/ count' = count
    BY DEF Polling, PollAnswer, PollRunning, PollNotRunning, PollProbe, PollProbed,
           tally
  <2>2. lapses' \in SUBSET Lapses
    BY DEF Polling, PollAnswer, PollRunning, PollNotRunning, PollProbe, PollProbed,
           tally, TypeOK, Lapses
  <2> QED
    BY <2>1, <2>2, CountTyped DEF TallyTyped
<1> QED
  BY <1>1, <1>2, <1>3, <1>4, <1>5
     DEF TypeOK, OutsideTyped, ViewTyped, OpsTyped, ProcTyped, ProcSteps, TallyTyped

LEMMA OperatingTyped ==
  ASSUME TypeOK, NEW s \in Slots, Operating(s)
  PROVE  TypeOK'
<1>1. OutsideTyped'
  <2>1. CASE StopActs(s)
    BY <2>1 DEF StopActs, files, TypeOK, OutsideTyped, Owner, Health
  <2>2. CASE Spawn(s)
    BY <2>2 DEF Spawn, files, TypeOK, OutsideTyped, Owner, Health
  <2>3. CASE UNCHANGED <<daemon, config, sidecar, revoked, session, alive>>
    BY <2>3 DEF TypeOK, OutsideTyped
  <2> QED
    BY <2>1, <2>2, <2>3
       DEF Operating, Stop, StopReturns, StopFails, Look, FoundAlive, Start,
           SpawnReturns, SpawnFails, files
<1>2. ViewTyped'
  <2>1. CASE Stop(s)
    BY <2>1 DEF Stop, view, TypeOK, ViewTyped, Shown, Health
  <2>2. CASE StopReturns(s)
    BY <2>2 DEF StopReturns, view, TypeOK, ViewTyped, Shown, Health
  <2>3. CASE StopFails(s)
    BY <2>3 DEF StopFails, view, TypeOK, ViewTyped, Shown, Health
  <2>4. CASE Start(s)
    BY <2>4 DEF Start, view, TypeOK, ViewTyped, Shown, Health
  <2>5. CASE SpawnFails(s)
    BY <2>5 DEF SpawnFails, view, TypeOK, ViewTyped, Shown, Health
  <2>6. CASE UNCHANGED <<current, expired, due, polls>>
    BY <2>6 DEF TypeOK, ViewTyped
  <2> QED
    BY <2>1, <2>2, <2>3, <2>4, <2>5, <2>6
       DEF Operating, StopActs, Look, FoundAlive, Spawn, SpawnReturns, view
<1>3. OpsTyped'
  <2>1. CASE Stop(s)
    BY <2>1, OpsMove DEF Stop, OpSteps, Slots
  <2>2. CASE StopActs(s)
    BY <2>2, OpsMove DEF StopActs, OpSteps, Slots
  <2>3. CASE StopReturns(s)
    BY <2>3, OpsMove DEF StopReturns, OpSteps, Slots
  <2>4. CASE StopFails(s)
    BY <2>4, OpsMove DEF StopFails, OpSteps, Slots
  <2>5. CASE Look(s)
    BY <2>5, OpsMove DEF Look, OpSteps, Slots
  <2>6. CASE FoundAlive(s)
    BY <2>6, OpsMove DEF FoundAlive, OpSteps, Slots
  <2>7. CASE Start(s)
    BY <2>7, OpsMove DEF Start, OpSteps, Slots
  <2>8. CASE Spawn(s)
    BY <2>8, OpsMove DEF Spawn, OpSteps, Slots
  <2>9. CASE SpawnReturns(s)
    BY <2>9, OpsMove DEF SpawnReturns, OpSteps, Slots
  <2>10. CASE SpawnFails(s)
    BY <2>10, OpsMove DEF SpawnFails, OpSteps, Slots
  <2> QED
    BY <2>1, <2>2, <2>3, <2>4, <2>5, <2>6, <2>7, <2>8, <2>9, <2>10 DEF Operating
<1>4. ProcTyped'
  BY DEF Operating, Stop, StopActs, StopReturns, StopFails, Look, FoundAlive, Start,
         Spawn, SpawnReturns, SpawnFails, TypeOK, ProcTyped, ProcSteps
<1>5. TallyTyped'
  <2>1. Event \/ count' = count
    BY DEF Operating, Stop, StopActs, StopReturns, StopFails, Look, FoundAlive, Start,
           Spawn, SpawnReturns, SpawnFails, tally
  <2>2. lapses' \in SUBSET Lapses
    BY DEF Operating, Stop, StopActs, StopReturns, StopFails, Look, FoundAlive, Start,
           Spawn, SpawnReturns, SpawnFails, tally, TypeOK, Lapses
  <2> QED
    BY <2>1, <2>2, CountTyped DEF TallyTyped
<1> QED
  BY <1>1, <1>2, <1>3, <1>4, <1>5
     DEF TypeOK, OutsideTyped, ViewTyped, OpsTyped, ProcTyped, ProcSteps, TallyTyped

LEMMA CarryingTyped ==
  ASSUME TypeOK, NEW c \in Procs, Carrying(c)
  PROVE  TypeOK'
<1>p. /\ procs[c].at \in ProcSteps /\ procs[c].why \in {"login", "logout", "reauth"}
      /\ procs[c].user \in Owner /\ procs[c].tok \in Owner /\ procs[c].changed \in BOOLEAN
  BY DEF TypeOK, ProcSteps
<1>n. None \in Owner
  BY DEF Owner
<1>1. OutsideTyped'
  <2>1. CASE ClearConfig(c)
    BY <2>1, <1>n DEF ClearConfig, files, TypeOK, OutsideTyped
  <2>2. CASE ClearSidecar(c)
    BY <2>2, <1>n DEF ClearSidecar, files, TypeOK, OutsideTyped
  <2>3. CASE Mint(c)
    BY <2>3 DEF Mint, files, TypeOK, OutsideTyped
  <2>4. CASE SessionInvalid(c)
    BY <2>4, <1>n DEF SessionInvalid, Passes, files, TypeOK, OutsideTyped
  <2>5. CASE WriteConfig(c)
    BY <2>5, <1>p DEF WriteConfig, files, TypeOK, OutsideTyped
  <2>6. CASE WriteSidecar(c)
    BY <2>6, <1>p DEF WriteSidecar, files, TypeOK, OutsideTyped
  <2>7. CASE UNCHANGED <<daemon, config, sidecar, revoked, session, alive>>
    BY <2>7 DEF TypeOK, OutsideTyped
  <2> QED
    BY <2>1, <2>2, <2>3, <2>4, <2>5, <2>6, <2>7
       DEF Carrying, LogoutStops, SyncReads, MintFails, SwitchUser, BringUp, files
<1>2. ViewTyped'
  BY DEF Carrying, ClearConfig, ClearSidecar, LogoutStops, SyncReads, Mint, MintFails,
         SessionInvalid, WriteConfig, WriteSidecar, SwitchUser, BringUp, view, TypeOK,
         ViewTyped
<1>3. OpsTyped'
  <2>1. CASE LogoutStops(c)
    BY <2>1, OpsMove DEF LogoutStops, OpSteps, Slots
  <2>2. CASE SwitchUser(c)
    BY <2>2, OpsMove DEF SwitchUser, OpSteps, Slots
  <2>3. CASE BringUp(c)
    BY <2>3, OpsMove DEF BringUp, OpSteps, Slots
  <2>4. CASE UNCHANGED ops
    BY <2>4 DEF TypeOK, OpsTyped
  <2> QED
    BY <2>1, <2>2, <2>3, <2>4
       DEF Carrying, ClearConfig, ClearSidecar, SyncReads, Mint, MintFails,
           SessionInvalid, WriteConfig, WriteSidecar
<1>4. ProcTyped'
  <2>t. ProcTyped
    BY DEF TypeOK, ProcTyped, ProcSteps
  <2>1. CASE ClearConfig(c)
    BY <2>1, <1>n, ProcsMove DEF ClearConfig, ProcSteps
  <2>2. CASE ClearSidecar(c)
    BY <2>2, <1>n, ProcsMove DEF ClearSidecar, ProcSteps
  <2>3. CASE LogoutStops(c)
    BY <2>3, <1>n, ProcsMove DEF LogoutStops, ProcSteps
  <2>4. CASE SyncReads(c)
    <3> DEFINE at == IF sidecar = procs[c].user /\ config # None THEN "write" ELSE "mint"
               tok == IF sidecar = procs[c].user /\ config # None THEN config ELSE None
               changed == sidecar # None /\ sidecar # procs[c].user
    <3>1. at \in ProcSteps /\ tok \in Owner /\ changed \in BOOLEAN
      BY <1>n DEF TypeOK, ProcSteps
    <3>2. procs' = [procs EXCEPT ![c].at = at, ![c].tok = tok, ![c].changed = changed]
      BY <2>4 DEF SyncReads
    <3> HIDE DEF at, tok, changed
    <3> QED
      BY <2>t, <3>1, <3>2 DEF ProcTyped
  <2>5. CASE Mint(c)
    BY <2>5, <2>t, <1>p DEF Mint, ProcTyped, ProcSteps
  <2>6. CASE MintFails(c)
    BY <2>6, <1>n, ProcsMove DEF MintFails, ProcSteps
  <2>7. CASE SessionInvalid(c)
    BY <2>7, <1>n, ProcsMove DEF SessionInvalid, ProcSteps
  <2>8. CASE WriteConfig(c)
    BY <2>8, <2>t, <1>n DEF WriteConfig, ProcTyped, ProcSteps
  <2>9. CASE WriteSidecar(c)
    <3> DEFINE at == IF procs[c].changed THEN "switch" ELSE "auto"
    <3>1. at \in ProcSteps
      BY DEF ProcSteps
    <3>2. procs' = [procs EXCEPT ![c].at = at, ![c].user = None, ![c].changed = FALSE]
      BY <2>9 DEF WriteSidecar
    <3> HIDE DEF at
    <3> QED
      BY <2>t, <3>1, <3>2, <1>n DEF ProcTyped
  <2>10. CASE SwitchUser(c)
    BY <2>10, <1>n, ProcsMove DEF SwitchUser, ProcSteps
  <2>11. CASE BringUp(c)
    BY <2>11, <1>n, ProcsMove DEF BringUp, ProcSteps
  <2> QED
    BY <2>1, <2>2, <2>3, <2>4, <2>5, <2>6, <2>7, <2>8, <2>9, <2>10, <2>11 DEF Carrying
<1>5. TallyTyped'
  <2>1. Event \/ count' = count
    BY DEF Carrying, ClearConfig, ClearSidecar, LogoutStops, SyncReads, Mint, MintFails,
           SessionInvalid, WriteConfig, WriteSidecar, SwitchUser, BringUp, tally
  <2>2. lapses' \in SUBSET Lapses
    BY DEF Carrying, ClearConfig, ClearSidecar, LogoutStops, SyncReads, Mint, MintFails,
           SessionInvalid, Passes, WriteConfig, WriteSidecar, SwitchUser, BringUp,
           tally, TypeOK, Lapses
  <2> QED
    BY <2>1, <2>2, CountTyped DEF TallyTyped
<1> QED
  BY <1>1, <1>2, <1>3, <1>4, <1>5
     DEF TypeOK, OutsideTyped, ViewTyped, OpsTyped, ProcTyped, ProcSteps, TallyTyped

LEMMA AutoStartTyped ==
  ASSUME TypeOK, AutoStart
  PROVE  TypeOK'
<1>1. OutsideTyped' /\ ProcTyped'
  BY DEF AutoStart, files, TypeOK, OutsideTyped, ProcTyped, ProcSteps
<1>2. ViewTyped'
  BY DEF AutoStart, MayProbe, Rejected, TypeOK, ViewTyped, Shown, Health
<1>3. OpsTyped'
  BY OpsMove DEF AutoStart, OpSteps, Slots
<1>4. TallyTyped'
  BY CountTyped DEF AutoStart, TypeOK, TallyTyped
<1> QED
  BY <1>1, <1>2, <1>3, <1>4
     DEF TypeOK, OutsideTyped, ViewTyped, OpsTyped, ProcTyped, ProcSteps, TallyTyped

LEMMA AskingTyped ==
  ASSUME TypeOK, Asking
  PROVE  TypeOK'
<1>n. None \in Owner /\ session \in Owner
  BY DEF Owner, TypeOK
<1>1. OutsideTyped'
  <2>1. CASE Launch
    BY <2>1, <1>n DEF Launch, files, TypeOK, OutsideTyped
  <2>2. CASE Logout
    BY <2>2, <1>n DEF Logout, Passes, files, TypeOK, OutsideTyped
  <2>3. CASE Quit
    <3>1. daemon' \in [at : Health, owner : Owner]
      BY <2>3 DEF Quit, TypeOK, Owner, Health
    <3> QED
      BY <2>3, <3>1 DEF Quit, TypeOK, OutsideTyped, files
  <2>4. CASE \E u \in Users : Login(u)
    BY <2>4 DEF Login, Passes, files, TypeOK, OutsideTyped, Owner
  <2>5. CASE UNCHANGED <<daemon, config, sidecar, revoked, session, alive>>
    BY <2>5 DEF TypeOK, OutsideTyped
  <2> QED
    BY <2>1, <2>2, <2>3, <2>4, <2>5 DEF Asking, Click, Reauthenticate, files
<1>2. ViewTyped'
  <2>1. CASE Launch
    BY <2>1 DEF Launch, view, TypeOK, ViewTyped, Shown, Health
  <2>2. CASE Quit
    BY <2>2 DEF Quit, NoPoll, view, TypeOK, ViewTyped, Shown, Health
  <2>3. CASE UNCHANGED <<current, expired, due, polls>>
    BY <2>3 DEF TypeOK, ViewTyped
  <2> QED
    BY <2>1, <2>2, <2>3 DEF Asking, Click, Logout, Reauthenticate, Login, view
<1>3. OpsTyped'
  <2>1. CASE Click
    BY <2>1, OpsMove DEF Click, OpSteps, Slots
  <2>2. CASE Quit
    BY <2>2, OpsMove DEF Quit, OpSteps, Slots
  <2>3. CASE UNCHANGED ops
    BY <2>3 DEF TypeOK, OpsTyped
  <2> QED
    BY <2>1, <2>2, <2>3 DEF Asking, Launch, Logout, Reauthenticate, Login
<1>4. ProcTyped'
  <2>0. 1 \in Procs
    BY DesktopAssumption DEF Procs
  <2>1. CASE Launch
    BY <2>0, <2>1, <1>n, ProcsMove DEF Launch, ProcSteps
  <2>2. CASE Logout
    BY <2>2, <1>n, ProcsMove DEF Logout, ProcSteps
  <2>3. CASE Reauthenticate
    BY <2>3, <1>n, ProcsMove DEF Reauthenticate, ProcSteps
  <2>4. CASE Quit
    BY <2>0, <2>4, <1>n, ProcsMove DEF Quit, ProcSteps
  <2>5. CASE \E u \in Users : Login(u)
    BY <2>5, ProcsMove DEF Login, ProcSteps, Owner
  <2>6. CASE UNCHANGED procs
    BY <2>6 DEF TypeOK, ProcTyped, ProcSteps
  <2> QED
    BY <2>1, <2>2, <2>3, <2>4, <2>5, <2>6 DEF Asking, Click
<1>5. TallyTyped'
  <2>1. Event \/ count' = count
    BY DEF Asking, Click, Launch, Logout, Reauthenticate, Quit, Login
  <2>2. lapses' \in SUBSET Lapses
    BY DEF Asking, Click, Launch, Logout, Reauthenticate, Quit, Login, Passes, TypeOK,
           Lapses
  <2> QED
    BY <2>1, <2>2, CountTyped DEF TallyTyped
<1> QED
  BY <1>1, <1>2, <1>3, <1>4, <1>5
     DEF TypeOK, OutsideTyped, ViewTyped, OpsTyped, ProcTyped, ProcSteps, TallyTyped

LEMMA DaemonTyped ==
  ASSUME TypeOK, Daemon
  PROVE  TypeOK'
<1>1. OutsideTyped'
  <2>1. CASE Boots
    BY <2>1 DEF Boots, files, TypeOK, OutsideTyped, Owner, Health
  <2>2. CASE Crash
    BY <2>2 DEF Crash, files, TypeOK, OutsideTyped, Owner, Health
  <2>3. CASE \E u \in Users : Revoke(u)
    BY <2>3 DEF Revoke, files, TypeOK, OutsideTyped, Owner, Health
  <2> QED
    BY <2>1, <2>2, <2>3 DEF Daemon
<1>2. ViewTyped'
  BY DEF Daemon, Boots, Crash, Revoke, view, files, tally, TypeOK, ViewTyped
<1>3. OpsTyped'
  BY DEF Daemon, Boots, Crash, Revoke, TypeOK, OpsTyped
<1>4. ProcTyped'
  BY DEF Daemon, Boots, Crash, Revoke, TypeOK, ProcTyped, ProcSteps
<1>5. TallyTyped'
  <2>1. Event \/ count' = count
    BY DEF Daemon, Boots, Crash, Revoke, tally
  <2>2. lapses' \in SUBSET Lapses
    BY DEF Daemon, Boots, Crash, Revoke, tally, TypeOK, Lapses
  <2> QED
    BY <2>1, <2>2, CountTyped DEF TallyTyped
<1> QED
  BY <1>1, <1>2, <1>3, <1>4, <1>5
     DEF TypeOK, OutsideTyped, ViewTyped, OpsTyped, ProcTyped, ProcSteps, TallyTyped

LEMMA StepTyped == TypeOK /\ [Next]_vars => TypeOK'
<1> SUFFICES ASSUME TypeOK, [Next]_vars PROVE TypeOK'
  OBVIOUS
<1>1. CASE UNCHANGED vars
  BY <1>1 DEF vars, files, view, tally, TypeOK
<1>2. CASE Next
  BY <1>2, PollingTyped, OperatingTyped, CarryingTyped, AutoStartTyped, AskingTyped,
     DaemonTyped DEF Next
<1> QED
  BY <1>1, <1>2

\* Every reachable state is well typed: the bounds are kept and a procedure is
\* one the code has.
THEOREM TypeCorrect == Spec => []TypeOK
BY InitTyped, StepTyped, PTL DEF Spec

-----------------------------------------------------------------------------
(* Whose token is on disk, and whose the daemon has loaded.                *)

\* Nothing is under way in an app that does not run, and what a procedure has
\* found out it has forgotten when it is over.
Dead == ~alive => OpsIdle /\ \A c \in Procs : procs[c].at = "idle"
Shape == \A c \in Procs :
    /\ procs[c].changed => procs[c].at \in {"mint", "write", "mark"}
    /\ procs[c].at = "stop" => procs[c].why = "logout"

Stale == sidecar \notin {None, session}

\* A procedure that writes is about the session there is, and has seen the mark
\* of another user that is left.
AboutOf(c) ==
    /\ procs[c].at \in {"sync", "mint", "write", "mark"} =>
          procs[c].user = session /\ session # None
    /\ procs[c].at \in {"clear", "unmark"} =>
          \/ procs[c].why = "logout" /\ session = None
          \/ procs[c].why = "reauth" /\ session # None /\ procs[c].user = session
    /\ procs[c].at \in {"mint", "write", "mark"} /\ Stale => procs[c].changed
About == "overlap" \notin lapses => \A c \in Procs : AboutOf(c)

\* What the files hold: a token of someone else's is marked as such, and a
\* procedure is on its way to replace it.
FiledOf(c) ==
    /\ procs[c].at \in {"unmark", "mark"} => config \in {None, session}
    /\ procs[c].at = "write" => procs[c].tok = session
Marked == session # None /\ config \notin {None, session} => Stale
Owed ==
    /\ alive /\ session = None /\ config # None =>
          \E c \in Procs : procs[c].at = "clear" /\ procs[c].why = "logout"
    /\ alive /\ session # None /\ config # session =>
          \E c \in Procs : procs[c].at \in {"unmark", "sync", "mint", "write"}
    /\ alive /\ session # None /\ sidecar # session =>
          \E c \in Procs : procs[c].at \in {"unmark", "sync", "mint", "write", "mark"}
Tokens == lapses \cap {"token", "overlap"} = {} =>
    Marked /\ Owed /\ \A c \in Procs : FiledOf(c)

\* A daemon with another owner than the session is about to be stopped, and the
\* mark that tells a sync to do it is not dropped before.
Stopping == \E s \in Slots : ops[s].at \in {"stop", "stopping"}
Ends(c) == \/ procs[c].why = "logout" /\ procs[c].at \in {"clear", "unmark", "stop"}
           \/ procs[c].at = "sync" /\ Stale
           \/ procs[c].changed \/ procs[c].at = "switch"
Answered ==
    /\ daemon.at # "down" => daemon.owner \in Users
    /\ daemon.at # "down" /\ daemon.owner # session =>
        \/ Stopping \/ \E c \in Procs : Ends(c)
        \/ ~alive /\ (session = None \/ Stale)
    /\ \A c \in Procs :
          procs[c].at \in {"clear", "unmark"} /\ procs[c].why = "reauth" => ~Stale
Daemons == lapses = {} => Answered

Owned == TypeOK /\ Dead /\ Shape /\ About /\ Tokens /\ Daemons

LEMMA InitOwned == Init => Owned
<1> SUFFICES ASSUME Init PROVE Owned
  OBVIOUS
<1>1. TypeOK
  BY InitTyped
<1>2. Dead /\ Shape /\ About
  BY DEF Init, Dead, Shape, About, AboutOf, OpsIdle, NoOp, NoProc
<1>3. Tokens
  BY DEF Init, Tokens, Marked, Owed, FiledOf, Stale, NoProc
<1>4. Answered
  <2>1. daemon.at = "down" \/ daemon.owner = session
    BY DEF Init
  <2>2. daemon.at # "down" => daemon.owner \in Users
    BY DesktopAssumption DEF Init
  <2>3. \A c \in Procs : procs[c].at = "idle"
    BY DEF Init, NoProc
  <2> QED
    BY <2>1, <2>2, <2>3 DEF Answered
<1> QED
  BY <1>1, <1>2, <1>3, <1>4 DEF Owned, Daemons

\* Where neither the files nor the session nor a procedure changes, nothing of
\* what is known of them does.
LEMMA Frame ==
  ASSUME Owned, UNCHANGED <<config, sidecar, session, alive, procs>>,
         lapses \subseteq lapses'
  PROVE  Shape' /\ About' /\ Tokens'
<1>1. Shape'
  BY DEF Owned, Shape
<1>2. About'
  BY DEF Owned, About, AboutOf, Stale
<1>3. Tokens'
  BY DEF Owned, Tokens, Marked, Owed, FiledOf, Stale
<1> QED
  BY <1>1, <1>2, <1>3

\* The other procedures are as they were.
LEMMA Others ==
  ASSUME TypeOK, NEW c \in Procs, NEW p, procs' = [procs EXCEPT ![c] = p]
  PROVE  procs'[c] = p /\ \A d \in Procs : d # c => procs'[d] = procs[d]
BY DEF TypeOK

LEMMA PollingOwned ==
  ASSUME Owned, NEW p \in Pollers, Polling(p)
  PROVE  Dead' /\ Shape' /\ About' /\ Tokens' /\ Daemons'
<1>1. UNCHANGED <<daemon, session, sidecar, alive, procs, ops, lapses, config>>
  BY DEF Polling, PollAnswer, PollRunning, PollNotRunning, PollProbe, PollProbed, files,
         tally
<1>2. Dead' /\ Daemons'
  BY <1>1 DEF Owned, Dead, OpsIdle, Daemons, Answered, Ends, Stopping, Stale
<1> QED
  BY <1>1, <1>2, Frame

LEMMA DaemonOwned ==
  ASSUME Owned, Daemon
  PROVE  Dead' /\ Shape' /\ About' /\ Tokens' /\ Daemons'
<1>1. UNCHANGED <<session, sidecar, alive, procs, ops, lapses, config>>
  BY DEF Daemon, Boots, Crash, Revoke, files, tally
<1>2. daemon'.at = "down" \/ (daemon'.owner = daemon.owner /\ daemon.at # "down")
      \/ daemon' = daemon
  BY DEF Daemon, Boots, Crash, Revoke, Owned, TypeOK
<1>3. Dead' /\ Daemons'
  BY <1>1, <1>2 DEF Owned, Dead, OpsIdle, Daemons, Answered, Ends, Stopping, Stale
<1> QED
  BY <1>1, <1>3, Frame

\* The operations, which leave the files and the procedures alone.
LEMMA OperatingDead ==
  ASSUME Owned, NEW s \in Slots, Operating(s)
  PROVE  Dead'
<1>1. ops[s].at # "idle"
  BY DEF Operating, Stop, StopActs, StopReturns, StopFails, Look, FoundAlive, Start,
         Spawn, SpawnReturns, SpawnFails
<1>2. alive
  BY <1>1 DEF Owned, Dead, OpsIdle
<1>3. alive' = alive
  BY DEF Operating, Stop, StopActs, StopReturns, StopFails, Look, FoundAlive, Start,
         Spawn, SpawnReturns, SpawnFails
<1> QED
  BY <1>2, <1>3 DEF Dead

LEMMA OperatingKept ==
  ASSUME Owned, NEW s \in Slots, Operating(s)
  PROVE  Shape' /\ About' /\ Tokens'
BY Frame
   DEF Operating, Stop, StopActs, StopReturns, StopFails, Look, FoundAlive, Start,
       Spawn, SpawnReturns, SpawnFails, files, tally

\* An operation that neither stops the daemon nor loses its own stop leaves what
\* is known of the daemon.
LEMMA DaemonsFrame ==
  ASSUME Owned, UNCHANGED <<session, sidecar, alive, procs>>, lapses \subseteq lapses',
         \/ lapses' # {}
         \/ daemon'.at = "down"
         \/ daemon' = daemon /\ (Stopping => Stopping')
  PROVE  Daemons'
BY DEF Owned, Daemons, Answered, Ends, Stale

LEMMA OperatingDaemons ==
  ASSUME Owned, NEW s \in Slots, Operating(s)
  PROVE  Daemons'
<1>k. UNCHANGED <<session, sidecar, alive, procs>> /\ lapses \subseteq lapses'
  BY DEF Operating, Stop, StopActs, StopReturns, StopFails, Look, FoundAlive, Start,
         Spawn, SpawnReturns, SpawnFails, files, tally
<1>t. ops \in [Slots -> [at : OpSteps, again : BOOLEAN]]
  BY DEF Owned, TypeOK
<1>1. CASE Stop(s)
  BY <1>1, <1>k, <1>t, DaemonsFrame DEF Stop, Goto, Stopping
<1>2. CASE StopActs(s)
  BY <1>2, <1>k, DaemonsFrame DEF StopActs
<1>3. CASE StopReturns(s)
  BY <1>3, <1>k, <1>t, DaemonsFrame DEF StopReturns, Begin, End, NoOp, Stopping
<1>4. CASE StopFails(s)
  BY <1>4, <1>k, DaemonsFrame DEF StopFails
<1>5. CASE Look(s)
  BY <1>5, <1>k, <1>t, DaemonsFrame DEF Look, Goto, Stopping
<1>6. CASE FoundAlive(s)
  BY <1>6, <1>k, <1>t, DaemonsFrame DEF FoundAlive, End, NoOp, Stopping
<1>7. CASE Start(s)
  BY <1>7, <1>k, <1>t, DaemonsFrame DEF Start, Goto, Stopping
<1>8. CASE Spawn(s)
  <2>1. alive /\ ops[s].at = "spawn"
    BY <1>8 DEF Spawn, Owned, Dead, OpsIdle
  <2>2. CASE daemon.at = "down" /\ config # None
    <3>1. daemon'.owner = config /\ config \in Users
      BY <1>8, <2>2 DEF Spawn, Owned, TypeOK, Owner
    <3>2. ASSUME lapses = {}, config # session
          PROVE  \E c \in Procs : Ends(c)
      <4>0. Marked /\ Owed /\ (\A c \in Procs : FiledOf(c)) /\ \A c \in Procs : AboutOf(c)
        BY <3>2 DEF Owned, Tokens, About
      <4>1. CASE session = None
        BY <2>1, <2>2, <4>0, <4>1 DEF Owed, Ends
      <4>2. CASE session # None
        <5>1. Stale
          BY <2>2, <3>2, <4>0, <4>2 DEF Marked
        <5>2. PICK c \in Procs : procs[c].at \in {"unmark", "sync", "mint", "write"}
          BY <2>1, <3>2, <4>0, <4>2 DEF Owed
        <5>3. procs[c].at # "unmark"
          BY <2>2, <3>2, <4>0 DEF FiledOf
        <5> QED
          BY <4>0, <5>1, <5>2, <5>3 DEF AboutOf, Ends
      <4> QED
        BY <4>1, <4>2
    <3>3. (\A c \in Procs : Ends(c)' <=> Ends(c)) /\ (Stale' <=> Stale)
      BY <1>k DEF Ends, Stale
    <3>4. lapses' = lapses
      BY <1>8 DEF Spawn, tally
    <3> QED
      BY <1>k, <3>1, <3>2, <3>3, <3>4 DEF Owned, Daemons, Answered
  <2>3. CASE ~(daemon.at = "down" /\ config # None)
    BY <1>8, <1>k, <1>t, <2>1, <2>3, DaemonsFrame DEF Spawn, Goto, Stopping
  <2> QED
    BY <2>2, <2>3
<1>9. CASE SpawnReturns(s)
  BY <1>9, <1>k, <1>t, DaemonsFrame DEF SpawnReturns, End, NoOp, Stopping
<1>10. CASE SpawnFails(s)
  BY <1>10, <1>k, <1>t, DaemonsFrame DEF SpawnFails, End, NoOp, Stopping
<1> QED
  BY <1>1, <1>2, <1>3, <1>4, <1>5, <1>6, <1>7, <1>8, <1>9, <1>10 DEF Operating

LEMMA AutoStartOwned ==
  ASSUME Owned, AutoStart
  PROVE  Dead' /\ Shape' /\ About' /\ Tokens' /\ Daemons'
<1>1. UNCHANGED <<daemon, config, sidecar, session, alive, procs, lapses>>
  BY DEF AutoStart, files
<1>2. ops["auto"].at = "check" /\ ops \in [Slots -> [at : OpSteps, again : BOOLEAN]]
  BY DEF AutoStart, Owned, TypeOK
<1>3. Stopping => Stopping'
  BY <1>2 DEF AutoStart, Begin, Goto, End, NoOp, Stopping
<1>4. alive
  BY <1>2 DEF Owned, Dead, OpsIdle, Slots
<1> QED
  BY <1>1, <1>3, <1>4, Frame, DaemonsFrame DEF Dead

-----------------------------------------------------------------------------
(* The procedures, step by step.                                           *)

LEMMA ClearConfigOwned ==
  ASSUME Owned, NEW c \in Procs, ClearConfig(c)
  PROVE  Shape' /\ About' /\ Tokens' /\ Daemons'
<1>1. /\ procs[c].at = "clear" /\ config' = None
      /\ UNCHANGED <<daemon, sidecar, session, alive, ops, lapses>>
  BY DEF ClearConfig, tally
<1>2. /\ procs'[c] = [procs[c] EXCEPT !.at = "unmark"]
      /\ \A d \in Procs : d # c => procs'[d] = procs[d]
  BY Others DEF ClearConfig, Proceed, Owned
<1>t. procs[c] \in [at : ProcSteps, why : {"login", "logout", "reauth"}, user : Owner,
                   tok : Owner, changed : BOOLEAN]
  BY DEF Owned, TypeOK, ProcSteps
<1>3. Shape'
  BY <1>1, <1>2, <1>t DEF Owned, Shape
<1>4. About'
  BY <1>1, <1>2, <1>t DEF Owned, About, AboutOf, Stale
<1>5. Tokens'
  BY <1>1, <1>2, <1>t DEF Owned, About, AboutOf, Tokens, Marked, Owed, FiledOf, Stale
<1>6. Daemons'
  BY <1>1, <1>2, <1>t DEF Owned, Daemons, Answered, Ends, Stopping, Stale
<1> QED
  BY <1>3, <1>4, <1>5, <1>6

LEMMA ClearSidecarOwned ==
  ASSUME Owned, NEW c \in Procs, ClearSidecar(c)
  PROVE  Shape' /\ About' /\ Tokens' /\ Daemons'
<1>1. /\ procs[c].at = "unmark" /\ sidecar' = None
      /\ UNCHANGED <<daemon, config, session, alive, ops, lapses>>
  BY DEF ClearSidecar, tally
<1> DEFINE at == IF procs[c].why = "logout" THEN "stop" ELSE "sync"
<1>2. /\ procs'[c] = [procs[c] EXCEPT !.at = at]
      /\ \A d \in Procs : d # c => procs'[d] = procs[d]
  <2>1. procs' = [procs EXCEPT ![c].at = at]
    BY DEF ClearSidecar, Proceed
  <2> HIDE DEF at
  <2> QED
    BY <2>1 DEF Owned, TypeOK
<1>t. procs[c] \in [at : ProcSteps, why : {"login", "logout", "reauth"}, user : Owner,
                   tok : Owner, changed : BOOLEAN]
  BY DEF Owned, TypeOK, ProcSteps
<1>3. Shape'
  BY <1>1, <1>2, <1>t DEF Owned, Shape
<1>4. About'
  BY <1>1, <1>2, <1>t DEF Owned, About, AboutOf, Stale
<1>5. Tokens'
  BY <1>1, <1>2, <1>t DEF Owned, About, AboutOf, Tokens, Marked, Owed, FiledOf, Stale
<1>6. Daemons'
  BY <1>1, <1>2, <1>t DEF Owned, About, AboutOf, Daemons, Answered, Ends, Stopping, Stale
<1> QED
  BY <1>3, <1>4, <1>5, <1>6

LEMMA LogoutStopsOwned ==
  ASSUME Owned, NEW c \in Procs, LogoutStops(c)
  PROVE  Shape' /\ About' /\ Tokens' /\ Daemons'
<1>1. /\ procs[c].at = "stop"
      /\ UNCHANGED <<daemon, config, sidecar, session, alive>>
      /\ lapses' # {} \/ (lapses' = lapses /\ Stopping')
      /\ lapses \subseteq lapses'
      /\ {"token", "overlap"} \cap lapses' = {"token", "overlap"} \cap lapses
  <2>1. ops \in [Slots -> [at : OpSteps, again : BOOLEAN]] /\ "guarded" \in Slots
    BY DEF Owned, TypeOK, Slots
  <2>2. CASE ops["guarded"].at = "idle"
    BY <2>1, <2>2 DEF LogoutStops, files, Begin, Stopping
  <2>3. CASE ops["guarded"].at # "idle"
    BY <2>3 DEF LogoutStops, files
  <2> QED
    BY <2>2, <2>3
<1>2. procs'[c] = NoProc /\ \A d \in Procs : d # c => procs'[d] = procs[d]
  BY Others DEF LogoutStops, Return, Owned
<1>3. Shape'
  BY <1>1, <1>2 DEF Owned, Shape, NoProc
<1>4. About'
  BY <1>1, <1>2 DEF Owned, About, AboutOf, Stale, NoProc
<1>5. Tokens'
  BY <1>1, <1>2 DEF Owned, Tokens, Marked, Owed, FiledOf, Stale, NoProc
<1>6. Daemons'
  BY <1>1, <1>2 DEF Owned, Daemons, Answered, Stale, NoProc
<1> QED
  BY <1>3, <1>4, <1>5, <1>6

LEMMA SyncReadsOwned ==
  ASSUME Owned, NEW c \in Procs, SyncReads(c)
  PROVE  Shape' /\ About' /\ Tokens' /\ Daemons'
<1>1. /\ procs[c].at = "sync"
      /\ UNCHANGED <<daemon, config, sidecar, session, alive, ops, lapses>>
  BY DEF SyncReads, files, tally
<1>2. /\ \/ /\ sidecar = procs[c].user /\ config # None
            /\ procs'[c].at = "write" /\ procs'[c].tok = config
         \/ procs'[c].at = "mint"
      /\ procs'[c].user = procs[c].user /\ procs'[c].why = procs[c].why
      /\ procs'[c].changed <=> (sidecar # None /\ sidecar # procs[c].user)
      /\ \A d \in Procs : d # c => procs'[d] = procs[d]
  BY DEF SyncReads, Owned, TypeOK
<1>3. Shape'
  BY <1>1, <1>2 DEF Owned, Shape
<1>4. About'
  BY <1>1, <1>2 DEF Owned, About, AboutOf, Stale
<1>5. Tokens'
  BY <1>1, <1>2 DEF Owned, About, AboutOf, Tokens, Marked, Owed, FiledOf, Stale
<1>6. Daemons'
  <2> SUFFICES ASSUME lapses = {} PROVE Answered'
    BY <1>1 DEF Daemons
  <2>1. Answered /\ AboutOf(c)
    BY DEF Owned, About, Daemons
  <2>2. \A d \in Procs : Ends(d) => Ends(d)'
    <3>1. Ends(c) => Stale
      BY <1>1 DEF Ends, Owned, Shape
    <3>2. Stale => procs'[c].changed
      BY <1>1, <1>2, <2>1 DEF AboutOf, Stale
    <3> QED
      BY <1>1, <1>2, <3>1, <3>2 DEF Ends, Stale
  <2> QED
    BY <1>1, <1>2, <2>1, <2>2 DEF Answered, Stopping, Stale
<1> QED
  BY <1>3, <1>4, <1>5, <1>6

LEMMA MintOwned ==
  ASSUME Owned, NEW c \in Procs, Mint(c)
  PROVE  Shape' /\ About' /\ Tokens' /\ Daemons'
<1>1. /\ procs[c].at = "mint"
      /\ UNCHANGED <<daemon, config, sidecar, session, alive, ops, lapses>>
  BY DEF Mint, files, tally
<1>2. /\ procs'[c] = [procs[c] EXCEPT !.at = "write", !.tok = procs[c].user]
      /\ \A d \in Procs : d # c => procs'[d] = procs[d]
  BY DEF Mint, Owned, TypeOK
<1>t. procs[c] \in [at : ProcSteps, why : {"login", "logout", "reauth"}, user : Owner,
                   tok : Owner, changed : BOOLEAN]
  BY DEF Owned, TypeOK, ProcSteps
<1>3. Shape'
  BY <1>1, <1>2, <1>t DEF Owned, Shape
<1>4. About'
  BY <1>1, <1>2, <1>t DEF Owned, About, AboutOf, Stale
<1>5. Tokens'
  <2> SUFFICES ASSUME lapses \cap {"token", "overlap"} = {}
               PROVE  Marked' /\ Owed' /\ \A d \in Procs : FiledOf(d)'
    BY <1>1 DEF Tokens
  <2>1. Marked /\ Owed /\ (\A d \in Procs : FiledOf(d)) /\ AboutOf(c)
    BY DEF Owned, Tokens, About
  <2>2. Marked'
    BY <1>1, <1>2, <1>t, <2>1 DEF Marked, AboutOf, FiledOf, Stale
  <2>3. Owed'
    BY <1>1, <1>2, <1>t, <2>1 DEF Owed, AboutOf, FiledOf
  <2>4. ASSUME NEW d \in Procs PROVE FiledOf(d)'
    BY <1>1, <1>2, <1>t, <2>1 DEF AboutOf, FiledOf
  <2> QED
    BY <2>2, <2>3, <2>4
<1>6. Daemons'
  BY <1>1, <1>2, <1>t DEF Owned, About, AboutOf, Daemons, Answered, Ends, Stopping, Stale
<1> QED
  BY <1>3, <1>4, <1>5, <1>6

LEMMA MintFailsOwned ==
  ASSUME Owned, NEW c \in Procs, MintFails(c)
  PROVE  Shape' /\ About' /\ Tokens' /\ Daemons'
<1>1. /\ UNCHANGED <<config, sidecar, session, alive>>
      /\ "token" \in lapses' /\ lapses \subseteq lapses'
  BY DEF MintFails, files
<1>2. procs'[c] = NoProc /\ \A d \in Procs : d # c => procs'[d] = procs[d]
  BY Others DEF MintFails, Return, Owned
<1>3. Shape'
  BY <1>1, <1>2 DEF Owned, Shape, NoProc
<1>4. About'
  BY <1>1, <1>2 DEF Owned, About, AboutOf, Stale, NoProc
<1> QED
  BY <1>1, <1>3, <1>4 DEF Tokens, Daemons

LEMMA WriteConfigOwned ==
  ASSUME Owned, NEW c \in Procs, WriteConfig(c)
  PROVE  Shape' /\ About' /\ Tokens' /\ Daemons'
<1>1. /\ procs[c].at = "write" /\ config' = procs[c].tok
      /\ UNCHANGED <<daemon, sidecar, session, alive, ops, lapses>>
  BY DEF WriteConfig, tally
<1>2. /\ procs'[c] = [procs[c] EXCEPT !.at = "mark", !.tok = None]
      /\ \A d \in Procs : d # c => procs'[d] = procs[d]
  BY DEF WriteConfig, Owned, TypeOK
<1>t. procs[c] \in [at : ProcSteps, why : {"login", "logout", "reauth"}, user : Owner,
                   tok : Owner, changed : BOOLEAN]
  BY DEF Owned, TypeOK, ProcSteps
<1>3. Shape'
  BY <1>1, <1>2, <1>t DEF Owned, Shape
<1>4. About'
  BY <1>1, <1>2, <1>t DEF Owned, About, AboutOf, Stale
<1>5. Tokens'
  <2> SUFFICES ASSUME lapses \cap {"token", "overlap"} = {}
               PROVE  Marked' /\ Owed' /\ \A d \in Procs : FiledOf(d)'
    BY <1>1 DEF Tokens
  <2>1. Marked /\ Owed /\ (\A d \in Procs : FiledOf(d)) /\ AboutOf(c)
    BY DEF Owned, Tokens, About
  <2>2. Marked'
    BY <1>1, <1>2, <1>t, <2>1 DEF Marked, AboutOf, FiledOf, Stale
  <2>3. Owed'
    BY <1>1, <1>2, <1>t, <2>1 DEF Owed, AboutOf, FiledOf
  <2>4. ASSUME NEW d \in Procs PROVE FiledOf(d)'
    BY <1>1, <1>2, <1>t, <2>1 DEF AboutOf, FiledOf
  <2> QED
    BY <2>2, <2>3, <2>4
<1>6. Daemons'
  BY <1>1, <1>2, <1>t DEF Owned, Daemons, Answered, Ends, Stopping, Stale
<1> QED
  BY <1>3, <1>4, <1>5, <1>6

LEMMA WriteSidecarOwned ==
  ASSUME Owned, NEW c \in Procs, WriteSidecar(c)
  PROVE  Shape' /\ About' /\ Tokens' /\ Daemons'
<1>1. /\ procs[c].at = "mark" /\ sidecar' = procs[c].user
      /\ UNCHANGED <<daemon, config, session, alive, ops, lapses>>
  BY DEF WriteSidecar, tally
<1>2. /\ procs'[c].at = IF procs[c].changed THEN "switch" ELSE "auto"
      /\ procs'[c].why = procs[c].why /\ procs'[c].changed = FALSE
      /\ \A d \in Procs : d # c => procs'[d] = procs[d]
  BY DEF WriteSidecar, Owned, TypeOK
<1>3. Shape'
  BY <1>1, <1>2 DEF Owned, Shape
<1>4. About'
  BY <1>1, <1>2 DEF Owned, About, AboutOf, Stale
<1>5. Tokens'
  BY <1>1, <1>2 DEF Owned, About, AboutOf, Tokens, Marked, Owed, FiledOf, Stale
<1>6. Daemons'
  BY <1>1, <1>2 DEF Owned, About, AboutOf, Daemons, Answered, Ends, Stopping, Stale
<1> QED
  BY <1>3, <1>4, <1>5, <1>6

LEMMA SwitchUserOwned ==
  ASSUME Owned, NEW c \in Procs, SwitchUser(c)
  PROVE  Shape' /\ About' /\ Tokens' /\ Daemons'
<1>1. /\ procs[c].at = "switch" /\ (daemon.at = "down" \/ Stopping')
      /\ UNCHANGED <<daemon, config, sidecar, session, alive, lapses>>
  BY DEF SwitchUser, Begin, Stopping, files, tally, Owned, TypeOK, Slots
<1>2. /\ procs'[c] = [procs[c] EXCEPT !.at = "auto"]
      /\ \A d \in Procs : d # c => procs'[d] = procs[d]
  BY Others DEF SwitchUser, Proceed, Owned
<1>t. procs[c] \in [at : ProcSteps, why : {"login", "logout", "reauth"}, user : Owner,
                   tok : Owner, changed : BOOLEAN]
  BY DEF Owned, TypeOK, ProcSteps
<1>3. Shape'
  BY <1>1, <1>2, <1>t DEF Owned, Shape
<1>4. About'
  BY <1>1, <1>2, <1>t DEF Owned, About, AboutOf, Stale
<1>5. Tokens'
  BY <1>1, <1>2, <1>t DEF Owned, Tokens, Marked, Owed, FiledOf, Stale
<1>6. Daemons'
  BY <1>1, <1>2, <1>t DEF Owned, Daemons, Answered, Stale
<1> QED
  BY <1>3, <1>4, <1>5, <1>6

LEMMA BringUpOwned ==
  ASSUME Owned, NEW c \in Procs, BringUp(c)
  PROVE  Shape' /\ About' /\ Tokens' /\ Daemons'
<1>1. /\ procs[c].at = "auto" /\ (Stopping => Stopping')
      /\ UNCHANGED <<daemon, config, sidecar, session, alive, lapses>>
  BY DEF BringUp, Begin, Stopping, files, tally, Owned, TypeOK, Slots
<1>2. procs'[c] = NoProc /\ \A d \in Procs : d # c => procs'[d] = procs[d]
  BY Others DEF BringUp, Return, Owned
<1>3. Shape'
  BY <1>1, <1>2 DEF Owned, Shape, NoProc
<1>4. About'
  BY <1>1, <1>2 DEF Owned, About, AboutOf, Stale, NoProc
<1>5. Tokens'
  BY <1>1, <1>2 DEF Owned, Tokens, Marked, Owed, FiledOf, Stale, NoProc
<1>6. ~procs[c].changed
  BY <1>1 DEF Owned, Shape
<1>7. Daemons'
  BY <1>1, <1>2, <1>6 DEF Owned, Daemons, Answered, Ends, Stale, NoProc
<1> QED
  BY <1>3, <1>4, <1>5, <1>7

\* A session that is found dead: with another procedure at the files, all that
\* is promised is given up, otherwise a logout has begun.
LEMMA SessionInvalidOwned ==
  ASSUME Owned, NEW c \in Procs, SessionInvalid(c)
  PROVE  Shape' /\ About' /\ Tokens' /\ Daemons'
<1>1. /\ procs[c].at = "mint" /\ session' = None
      /\ UNCHANGED <<daemon, config, sidecar, alive, ops>>
      /\ lapses \subseteq lapses'
      /\ \/ "overlap" \in lapses'
         \/ lapses' = lapses /\ (session # None => \A d \in Procs \ {c} : ~Filing(d))
  BY DEF SessionInvalid, Passes, files
<1>2. /\ procs'[c] = Proc("clear", "logout", None)
      /\ \A d \in Procs : d # c => procs'[d] = procs[d]
  BY Others DEF SessionInvalid, Owned
<1>3. Shape'
  BY <1>1, <1>2 DEF Owned, Shape, Proc
<1>4. "overlap" \in lapses' \/ (session # None /\ lapses' = lapses /\ "overlap" \notin lapses)
  BY <1>1 DEF Owned, About, AboutOf
<1>5. About'
  BY <1>1, <1>2, <1>4 DEF About, AboutOf, Filing, Proc
<1>6. Tokens'
  BY <1>1, <1>2, <1>4 DEF Tokens, Marked, Owed, FiledOf, Filing, Proc
<1>7. Daemons'
  BY <1>1, <1>2, <1>4 DEF Owned, Daemons, Answered, Ends, Filing, Proc
<1> QED
  BY <1>3, <1>5, <1>6, <1>7

LEMMA CarryingOwned ==
  ASSUME Owned, NEW c \in Procs, Carrying(c)
  PROVE  Dead' /\ Shape' /\ About' /\ Tokens' /\ Daemons'
<1>1. procs[c].at # "idle"
  BY DEF Carrying, ClearConfig, ClearSidecar, LogoutStops, SyncReads, Mint, MintFails,
         SessionInvalid, WriteConfig, WriteSidecar, SwitchUser, BringUp
<1>2. alive' = alive
  BY DEF Carrying, ClearConfig, ClearSidecar, LogoutStops, SyncReads, Mint, MintFails,
         SessionInvalid, WriteConfig, WriteSidecar, SwitchUser, BringUp
<1>3. Dead'
  BY <1>1, <1>2 DEF Owned, Dead
<1> QED
  BY <1>3, ClearConfigOwned, ClearSidecarOwned, LogoutStopsOwned, SyncReadsOwned,
     MintOwned, MintFailsOwned, SessionInvalidOwned, WriteConfigOwned,
     WriteSidecarOwned, SwitchUserOwned, BringUpOwned DEF Carrying

-----------------------------------------------------------------------------
(* Where the session changes.                                              *)

LEMMA ClickOwned ==
  ASSUME Owned, Click
  PROVE  Dead' /\ Shape' /\ About' /\ Tokens' /\ Daemons'
<1>1. /\ alive /\ (Stopping => Stopping')
      /\ UNCHANGED <<daemon, config, sidecar, session, alive, procs, lapses>>
  BY DEF Click, Begin, Stopping, files, Owned, TypeOK, Slots
<1> QED
  BY <1>1, Frame, DaemonsFrame DEF Dead

LEMMA LaunchOwned ==
  ASSUME Owned, Launch
  PROVE  Dead' /\ Shape' /\ About' /\ Tokens' /\ Daemons'
<1>0. 1 \in Procs
  BY DesktopAssumption DEF Procs
<1>1. /\ ~alive /\ alive'
      /\ UNCHANGED <<daemon, config, sidecar, ops, lapses>>
      /\ \A d \in Procs : procs[d].at = "idle"
  BY DEF Launch, files, Owned, Dead
<1>2. \A d \in Procs : d # 1 => procs'[d] = procs[d]
  BY <1>0, Others DEF Launch, Commence, Owned
<1>3. \/ session # None /\ session' = session /\ procs'[1] = Proc("sync", "login", session)
      \/ session' = None /\ procs'[1] = Proc("clear", "logout", None)
  BY <1>0, Others DEF Launch, Commence, Owned
<1>4. Dead' /\ Shape'
  BY <1>1, <1>2, <1>3 DEF Owned, Dead, Shape, Proc
<1>5. About'
  BY <1>1, <1>2, <1>3 DEF About, AboutOf, Proc
<1>6. Tokens'
  BY <1>0, <1>1, <1>2, <1>3 DEF Owned, Tokens, Marked, Owed, FiledOf, Stale, Proc
<1>7. Daemons'
  <2>1. CASE session' = None /\ procs'[1] = Proc("clear", "logout", None)
    BY <1>0, <1>1, <1>2, <2>1 DEF Owned, Daemons, Answered, Ends, Stale, Proc
  <2>2. CASE session # None /\ session' = session /\ procs'[1] = Proc("sync", "login", session)
    BY <1>0, <1>1, <1>2, <2>2
       DEF Owned, Shape, Daemons, Answered, Ends, Stopping, Stale, Proc
  <2> QED
    BY <1>3, <2>1, <2>2
<1> QED
  BY <1>4, <1>5, <1>6, <1>7

\* A session that gives way to another.
LEMMA PassesLapse ==
  ASSUME Owned, NEW u \in Owner, Passes(u, Procs)
  PROVE  /\ session' = u /\ lapses \subseteq lapses'
         /\ \/ "overlap" \in lapses'
            \/ lapses' = lapses /\ (u # session => \A d \in Procs : ~Filing(d))
BY DEF Passes

LEMMA LoginOwned ==
  ASSUME Owned, NEW u \in Users, Login(u)
  PROVE  Dead' /\ Shape' /\ About' /\ Tokens' /\ Daemons'
<1>u. u \in Owner /\ u # None
  BY DesktopAssumption DEF Owner
<1>1. PICK c \in Procs : Commence(c, "sync", "login", u)
  BY DEF Login
<1>2. /\ procs[c].at = "idle" /\ procs'[c] = Proc("sync", "login", u)
      /\ \A d \in Procs : d # c => procs'[d] = procs[d]
  BY <1>1, Others DEF Commence, Free, Owned
<1>3. /\ session' = u /\ lapses \subseteq lapses'
      /\ \/ "overlap" \in lapses'
         \/ lapses' = lapses /\ (u # session => \A d \in Procs : ~Filing(d))
  BY <1>u, PassesLapse DEF Login
<1>4. alive /\ UNCHANGED <<daemon, config, sidecar, alive, ops>>
  BY DEF Login, files
<1>5. Dead' /\ Shape'
  BY <1>2, <1>4 DEF Owned, Dead, Shape, Proc
<1>6. About'
  BY <1>2, <1>3, <1>4, <1>u DEF Owned, About, AboutOf, Filing, Stale, Proc
<1>7. Tokens'
  <2>1. CASE u = session
    BY <1>2, <1>3, <1>4, <1>u, <2>1
       DEF Owned, Tokens, Marked, Owed, FiledOf, Stale, Proc
  <2>2. CASE u # session
    BY <1>2, <1>3, <1>4, <1>u, <2>2
       DEF Owned, Tokens, Marked, Owed, FiledOf, Filing, Stale, Proc
  <2> QED
    BY <2>1, <2>2
<1>8. Daemons'
  <2>1. CASE u = session
    BY <1>2, <1>3, <1>4, <1>u, <2>1
       DEF Owned, Shape, Daemons, Answered, Ends, Stopping, Stale, Proc
  <2>2. CASE u # session
    <3> SUFFICES ASSUME lapses' = {} PROVE Answered'
      BY DEF Daemons
    <3>1. lapses = {} /\ Answered /\ Owed /\ \A d \in Procs : ~Filing(d)
      BY <1>3, <2>2 DEF Owned, Daemons, Tokens
    <3>2. ASSUME daemon.at # "down", daemon.owner # u
          PROVE  Stopping' \/ \E d \in Procs : Ends(d)'
      <4>1. CASE daemon.owner = session
        <5>1. session # None
          BY <3>1, <3>2, <4>1, DesktopAssumption DEF Answered
        <5>2. sidecar = session
          BY <1>4, <3>1, <5>1 DEF Owed, Filing
        <5> QED
          BY <1>2, <1>3, <1>4, <2>2, <5>1, <5>2 DEF Ends, Stale, Proc
      <4>2. CASE daemon.owner # session
        <5>1. CASE Stopping
          BY <1>4, <5>1 DEF Stopping
        <5>2. CASE \E d \in Procs : Ends(d)
          <6>1. PICK d \in Procs : Ends(d)
            BY <5>2
          <6>2. d # c /\ procs'[d] = procs[d] /\ procs[d].at \in {"stop", "switch"}
                /\ (procs[d].at = "stop" => procs[d].why = "logout")
            BY <1>2, <3>1, <6>1 DEF Ends, Filing, Owned, Shape
          <6> QED
            BY <6>2 DEF Ends
        <5> QED
          BY <1>4, <3>1, <3>2, <4>2, <5>1, <5>2 DEF Answered
      <4> QED
        BY <4>1, <4>2
    <3>3. \A d \in Procs : procs'[d].at \notin {"clear", "unmark"}
      BY <1>2, <3>1 DEF Filing, Proc
    <3> QED
      BY <1>3, <1>4, <3>1, <3>2, <3>3 DEF Answered
  <2> QED
    BY <2>1, <2>2
<1> QED
  BY <1>5, <1>6, <1>7, <1>8

LEMMA LogoutOwned ==
  ASSUME Owned, Logout
  PROVE  Dead' /\ Shape' /\ About' /\ Tokens' /\ Daemons'
<1>1. PICK c \in Procs : Commence(c, "clear", "logout", None)
  BY DEF Logout
<1>2. /\ procs[c].at = "idle" /\ procs'[c] = Proc("clear", "logout", None)
      /\ \A d \in Procs : d # c => procs'[d] = procs[d]
  BY <1>1, Others DEF Commence, Free, Owned
<1>3. /\ session' = None /\ lapses \subseteq lapses'
      /\ \/ "overlap" \in lapses'
         \/ lapses' = lapses /\ \A d \in Procs : ~Filing(d)
  BY PassesLapse DEF Logout, Owner
<1>4. alive /\ UNCHANGED <<daemon, config, sidecar, alive, ops>>
  BY DEF Logout, files
<1>5. Dead' /\ Shape'
  BY <1>2, <1>4 DEF Owned, Dead, Shape, Proc
<1>6. About'
  BY <1>2, <1>3 DEF About, AboutOf, Filing, Proc
<1>7. Tokens'
  BY <1>2, <1>3 DEF Tokens, Marked, Owed, FiledOf, Filing, Proc
<1>8. Daemons'
  BY <1>2, <1>3, <1>4 DEF Owned, Daemons, Answered, Ends, Filing, Proc
<1> QED
  BY <1>5, <1>6, <1>7, <1>8

LEMMA ReauthenticateOwned ==
  ASSUME Owned, Reauthenticate
  PROVE  Dead' /\ Shape' /\ About' /\ Tokens' /\ Daemons'
<1>1. PICK c \in Procs : Commence(c, "clear", "reauth", session)
  BY DEF Reauthenticate
<1>2. /\ procs[c].at = "idle" /\ procs'[c] = Proc("clear", "reauth", session)
      /\ \A d \in Procs : d # c => procs'[d] = procs[d]
  BY <1>1, Others DEF Commence, Free, Owned
<1>3. /\ alive /\ session # None /\ lapses \subseteq lapses'
      /\ lapses' \cap {"token", "overlap"} = lapses \cap {"token", "overlap"}
      /\ \/ lapses' # {}
         \/ lapses' = lapses /\ \A d \in Procs : ~Filing(d)
      /\ UNCHANGED <<daemon, config, sidecar, session, alive, ops>>
  BY DEF Reauthenticate, files
<1>4. Dead' /\ Shape'
  BY <1>2, <1>3 DEF Owned, Dead, Shape, Proc
<1>5. About'
  BY <1>2, <1>3 DEF Owned, About, AboutOf, Stale, Proc
<1>6. Tokens'
  BY <1>2, <1>3 DEF Owned, Tokens, Marked, Owed, FiledOf, Stale, Proc
<1>7. Daemons'
  <2> SUFFICES ASSUME lapses' = {} PROVE Answered'
    BY DEF Daemons
  <2>1. lapses = {} /\ Answered /\ Owed /\ \A d \in Procs : ~Filing(d)
    BY <1>3 DEF Owned, Daemons, Tokens
  <2>2. ~Stale
    BY <1>3, <2>1 DEF Owed, Filing, Stale
  <2>3. (\E d \in Procs : Ends(d)) => \E d \in Procs : Ends(d)'
    BY <1>2, <1>3, <2>2 DEF Ends, Stale, Owned, Shape
  <2> QED
    BY <1>3, <2>1, <2>2, <2>3 DEF Answered, Stopping, Stale
<1> QED
  BY <1>4, <1>5, <1>6, <1>7

LEMMA QuitOwned ==
  ASSUME Owned, Quit
  PROVE  Dead' /\ Shape' /\ About' /\ Tokens' /\ Daemons'
<1>1. /\ alive /\ ~alive' /\ UNCHANGED <<config, sidecar, session>>
      /\ lapses \subseteq lapses'
      /\ lapses' \cap {"token", "overlap"} = lapses \cap {"token", "overlap"}
      /\ daemon' = daemon \/ daemon'.at = "down"
      /\ \A d \in Procs : procs'[d] = NoProc
      /\ \A s \in Slots : ops'[s] = NoOp
  BY DEF Quit, files
<1>2. Dead' /\ Shape' /\ About'
  BY <1>1 DEF Dead, OpsIdle, Shape, About, AboutOf, NoProc, NoOp
<1>3. Tokens'
  BY <1>1 DEF Owned, Tokens, Marked, Owed, FiledOf, Stale, NoProc
<1>4. Daemons'
  <2> SUFFICES ASSUME lapses' = {} PROVE Answered'
    BY DEF Daemons
  <2>1. lapses = {} /\ Answered /\ \A d \in Procs : AboutOf(d)
    BY <1>1 DEF Owned, Daemons, About
  <2>2. /\ ~Stopping
        /\ \A d \in Procs : /\ ~procs[d].changed /\ procs[d].at # "switch"
                            /\ procs[d].at = "stop" => session = None
    BY DEF Quit, Stopping
  <2>3. (\E d \in Procs : Ends(d)) => session = None \/ Stale
    BY <2>1, <2>2 DEF Ends, AboutOf
  <2> QED
    BY <1>1, <2>1, <2>2, <2>3 DEF Answered, Stale, NoProc
<1> QED
  BY <1>2, <1>3, <1>4

LEMMA StepOwned == Owned /\ [Next]_vars => Owned'
<1> SUFFICES ASSUME Owned, [Next]_vars PROVE Owned'
  OBVIOUS
<1>1. TypeOK'
  BY StepTyped DEF Owned
<1>2. CASE UNCHANGED vars
  <2>1. UNCHANGED <<daemon, session, sidecar, alive, procs, ops, lapses, config>>
    BY <1>2 DEF vars, files, tally
  <2>2. Dead' /\ Daemons'
    BY <2>1 DEF Owned, Dead, OpsIdle, Daemons, Answered, Ends, Stopping, Stale
  <2> QED
    BY <1>1, <2>1, <2>2, Frame DEF Owned
<1>3. CASE Next
  <2>1. Dead' /\ Shape' /\ About' /\ Tokens' /\ Daemons'
    BY <1>3, PollingOwned, OperatingDead, OperatingKept, OperatingDaemons, CarryingOwned,
       AutoStartOwned, DaemonOwned, ClickOwned, LaunchOwned, LogoutOwned,
       ReauthenticateOwned, QuitOwned, LoginOwned
       DEF Next, Asking
  <2> QED
    BY <1>1, <2>1 DEF Owned
<1> QED
  BY <1>2, <1>3

LEMMA AlwaysOwned == Spec => []Owned
BY InitOwned, StepOwned, PTL DEF Spec

\* No token outlives the session it was minted in, or is written for another
\* user than its owner, for any number of users, polls, procedures and logins;
\* but where a session changes under a procedure that still writes, or none
\* could be minted.
THEOREM TokensAreTheUsers == Spec => []TokenIsOwners
<1>1. Owned => TokenIsOwners
  BY DEF Owned, Tokens, Owed, FiledOf, About, AboutOf, TokenIsOwners, Quiet
<1> QED
  BY <1>1, AlwaysOwned, PTL

\* Until one of the lapses named, a daemon with the credentials of an earlier
\* session is about to be stopped in every state, so that it is gone once the
\* app is at rest.
THEOREM DaemonsAreTheUsers == Spec => []OwnDaemon
<1>1. Owned => OwnDaemon
  <2> SUFFICES ASSUME Owned, Quiet, daemon.at # "down", lapses = {}
               PROVE  daemon.owner = session
    BY DEF OwnDaemon
  <2>1. ~Stopping /\ alive
    BY DEF Quiet, OpsIdle, Stopping
  <2>2. \A c \in Procs : ~Ends(c)
    BY DEF Quiet, Owned, Shape, Ends
  <2> QED
    BY <2>1, <2>2 DEF Owned, Daemons, Answered
<1> QED
  BY <1>1, AlwaysOwned, PTL
=============================================================================
