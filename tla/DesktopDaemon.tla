---------------------------- MODULE DesktopDaemon ----------------------------
(***************************************************************************)
(* The local daemon in the hands of the desktop app                        *)
(* (apps/desktop/src/main/daemon-manager.ts): the poll of its /health that *)
(* decides what the user is shown, the starts, stops and restarts that     *)
(* spawn the CLI, and the procedures that bring its credentials in line    *)
(* with the session: a login (daemon-login-sync.ts), a logout              *)
(* (handleDaemonLogout in App.tsx), a re-authentication. Nothing keeps     *)
(* these procedures apart: one begun while another awaits runs beside it.  *)
(*                                                                         *)
(* The main process runs one callback at a time and switches at an await,  *)
(* so an action is the code between two awaits. The daemon is a process of *)
(* its own that outlives the app. A token is told by its owner; setting up *)
(* the CLI, a daemon of another system (daemon-os.ts), and the versions    *)
(* compared by version-decision.ts are left out, a restart for a version   *)
(* is made at will. Of the CLI (cmd_daemon.go) only the outcome is kept.   *)
(***************************************************************************)
EXTENDS Naturals

CONSTANTS
    Users,      \* accounts
    None,       \* nobody
    First,      \* who is signed in, and was when the profile was last written
    Pollers,    \* status polls that may be under way at once
    MaxProcs,   \* bound: procedures under way at once
    MaxEvents   \* bound: logins, logouts, account switches, syncs repeated for a
                \* user who was edited, re-authentications, buttons, restarts for a
                \* version, quits, crashes, revoked tokens, failed calls together

ASSUME DesktopAssumption ==
    /\ None \notin Users /\ First \in Users \cup {None}
    /\ MaxProcs \in Nat \ {0} /\ MaxEvents \in Nat

Owner  == Users \cup {None}
Health == {"down", "starting", "running"}
Shown  == {"stopped", "starting", "running", "stopping", "auth_expired"}

\* Who may drive the CLI at once: a button and the stop of a logout share
\* operationInProgress (withGuard), the others do not ask for it. Of each kind
\* one is under way (bound): a second restart or auto-start waits for the first.
Slots == {"guarded", "switch", "auto"}

\* The renderer's procedures, as the main process carries them out.
Procs == 1..MaxProcs

\* Where the code goes on although an earlier session's credentials are or may
\* be left. "overlap": the session changed while a procedure of the last one
\* had files to write, which it then writes. "token": none was minted. "daemon":
\* a stop failed or was refused by the guard, the app quit before a stop or the
\* restart for a new user, or a re-authentication dropped the mark of the last
\* user under a sync.
Lapses == {"daemon", "token", "overlap"}

VARIABLES
    daemon,   \* what /health answers, and the owner of the token it loaded (one
              \* told to stop is silent at once, and gone when its tasks are)
    config,   \* owner of the token in the profile's config.json
    sidecar,  \* the user id beside it
    revoked,  \* users whose token the server rejects
    session,  \* the signed-in user
    alive,    \* does the app run
    current,  \* currentState
    expired,  \* authExpired
    due,      \* is a probe of the token still due (startingSince, authProbeDone)
    polls,    \* pollOnce
    ops,      \* start, stop and restart
    procs,    \* the renderer's procedures
    lapses,   \* what the procedures left undone, and told nobody (history)
    count     \* of the bounds

files  == <<config, sidecar>>
view   == <<current, expired, due>>
tally  == <<lapses, count>>
vars   == <<daemon, files, revoked, session, alive, view, polls, ops, procs, tally>>

NoOp     == [at |-> "idle", again |-> FALSE]
NoPoll   == [at |-> "idle", seen |-> "down"]
NoProc   == [at |-> "idle", why |-> "login", user |-> None, tok |-> None, changed |-> FALSE]
OpSteps  == {"idle", "check", "stop", "stopping", "stopped", "look", "alive", "absent",
             "spawn", "booting", "failed"}

TypeOK ==
    /\ daemon \in [at : Health, owner : Owner]
    /\ config \in Owner /\ sidecar \in Owner
    /\ revoked \in SUBSET Users
    /\ session \in Owner
    /\ alive \in BOOLEAN
    /\ current \in Shown /\ expired \in BOOLEAN /\ due \in BOOLEAN
    /\ polls \in [Pollers -> [at : {"idle", "seen", "probing"}, seen : Health]]
    /\ ops \in [Slots -> [at : OpSteps, again : BOOLEAN]]
    /\ procs \in [Procs -> [at : {"idle", "clear", "unmark", "stop", "sync", "mint",
                                  "write", "mark", "switch", "auto"},
                            why : {"login", "logout", "reauth"}, user : Owner,
                            tok : Owner, changed : BOOLEAN]]
    /\ lapses \in SUBSET Lapses
    /\ count \in 0..MaxEvents

\* The app has not been launched; its last session left a daemon or none.
Init ==
    /\ \/ daemon = [at |-> "down", owner |-> None]
       \/ First # None /\ daemon = [at |-> "running", owner |-> First]
    /\ config = First /\ sidecar = First
    /\ revoked = {}
    /\ session = First
    /\ alive = FALSE
    /\ current = "stopped" /\ expired = FALSE /\ due = FALSE
    /\ polls = [p \in Pollers |-> NoPoll]
    /\ ops = [s \in Slots |-> NoOp]
    /\ procs = [c \in Procs |-> NoProc]
    /\ lapses = {}
    /\ count = 0

Event ==
    /\ count < MaxEvents
    /\ count' = count + 1

OpsIdle == \A s \in Slots : ops[s].at = "idle"

-----------------------------------------------------------------------------
(* pollOnce and fetchHealth                                                *)

\* A poll, sent by the interval or by a start, is answered by /health, or
\* nobody answers; what follows in fetchHealth waits for its turn.
PollAnswer(p) ==
    /\ alive /\ polls[p].at = "idle"
    /\ polls' = [polls EXCEPT ![p] = [at |-> "seen", seen |-> daemon.at]]
    /\ UNCHANGED <<daemon, files, revoked, session, alive, view, ops, procs, tally>>

\* What fetchHealth reports of a daemon that does not run.
NotRunning(seen, exp) ==
    IF exp THEN "auth_expired"
    ELSE IF seen = "starting" \/ current = "starting" THEN "starting" ELSE "stopped"

PollRunning_KeepsVerdict(p) ==
    /\ polls[p].at = "seen" /\ polls[p].seen = "running"
    /\ current' = (IF expired THEN "auth_expired" ELSE "running")
    /\ polls' = [polls EXCEPT ![p] = NoPoll]
    /\ UNCHANGED <<daemon, files, revoked, session, alive, expired, due, ops, procs, tally>>
PollRunning(p) ==
    /\ polls[p].at = "seen" /\ polls[p].seen = "running"
    /\ current' = "running" /\ expired' = FALSE /\ due' = FALSE
    /\ polls' = [polls EXCEPT ![p] = NoPoll]
    /\ UNCHANGED <<daemon, files, revoked, session, alive, ops, procs, tally>>

MayProbe == current = "starting" /\ ~expired /\ due

\* No probe is due: it was made, or the grace period is not over.
PollNotRunning(p) ==
    /\ polls[p].at = "seen" /\ polls[p].seen # "running"
    /\ current' = NotRunning(polls[p].seen, expired)
    /\ polls' = [polls EXCEPT ![p] = NoPoll]
    /\ UNCHANGED <<daemon, files, revoked, session, alive, expired, due, ops, procs, tally>>

PollProbe(p) ==
    /\ polls[p].at = "seen" /\ polls[p].seen # "running" /\ MayProbe
    /\ due' = FALSE
    /\ polls' = [polls EXCEPT ![p].at = "probing"]
    /\ UNCHANGED <<daemon, files, revoked, session, alive, current, expired, ops, procs, tally>>

Rejected(owner) == owner = None \/ owner \in revoked

\* probeTokenValidity answers: a verdict, or nothing it could conclude from.
PollProbed(p) ==
    /\ polls[p].at = "probing"
    /\ \/ expired' = (expired \/ Rejected(config)) /\ UNCHANGED count
       \/ Event /\ UNCHANGED expired
    /\ current' = NotRunning(polls[p].seen, expired')
    /\ polls' = [polls EXCEPT ![p] = NoPoll]
    /\ UNCHANGED <<daemon, files, revoked, session, alive, due, ops, procs, lapses>>

-----------------------------------------------------------------------------
(* stopDaemon, startDaemon, restartDaemon                                  *)

Begin(s, step, again) == ops' = [ops EXCEPT ![s] = [at |-> step, again |-> again]]
Goto(s, step) == ops' = [ops EXCEPT ![s].at = step]
End(s) == ops' = [ops EXCEPT ![s] = NoOp]

\* The checks before a stop are through: the CLI is called.
Stop(s) ==
    /\ ops[s].at = "stop"
    /\ Goto(s, "stopping")
    /\ current' = "stopping" /\ expired' = FALSE /\ due' = FALSE
    /\ UNCHANGED <<daemon, files, revoked, session, alive, polls, procs, tally>>

StopActs(s) ==
    /\ ops[s].at = "stopping"
    /\ daemon' = [at |-> "down", owner |-> None]
    /\ Goto(s, "stopped")
    /\ UNCHANGED <<files, revoked, session, alive, view, polls, procs, tally>>

\* The CLI is done; a restart goes on with the start.
StopReturns(s) ==
    /\ ops[s].at = "stopped"
    /\ current' = "stopped"
    /\ IF ops[s].again THEN Begin(s, "look", FALSE) ELSE End(s)
    /\ UNCHANGED <<daemon, files, revoked, session, alive, expired, due, polls, procs, tally>>

\* It fails: the state is set all the same, a restart ends here. Or the CLI no
\* longer waits for a daemon that goes on, and says nothing of it.
StopFails(s) ==
    /\ ops[s].at = "stopping" /\ Event
    /\ \/ current' = "stopped" /\ End(s)
       \/ Goto(s, "stopped") /\ UNCHANGED current
    /\ lapses' = lapses \cup {"daemon"}
    /\ UNCHANGED <<daemon, files, revoked, session, alive, expired, due, polls, procs>>

\* startDaemon asks /health first.
Look(s) ==
    /\ ops[s].at = "look"
    /\ Goto(s, IF daemon.at = "down" THEN "absent" ELSE "alive")
    /\ UNCHANGED <<daemon, files, revoked, session, alive, view, polls, procs, tally>>

\* A daemon is up or booting: nothing is spawned.
FoundAlive(s) ==
    /\ ops[s].at = "alive"
    /\ End(s)
    /\ UNCHANGED <<daemon, files, revoked, session, alive, view, polls, procs, tally>>

Start(s) ==
    /\ ops[s].at = "absent"
    /\ current' = "starting" /\ expired' = FALSE /\ due' = TRUE
    /\ Goto(s, "spawn")
    /\ UNCHANGED <<daemon, files, revoked, session, alive, polls, procs, tally>>

\* The CLI spawns a daemon, unless one runs or there is no token to load.
Spawn(s) ==
    /\ ops[s].at = "spawn"
    /\ IF daemon.at = "down" /\ config # None
       THEN daemon' = [at |-> "starting", owner |-> config] /\ Goto(s, "booting")
       ELSE Goto(s, "failed") /\ UNCHANGED daemon
    /\ UNCHANGED <<files, revoked, session, alive, view, polls, procs, tally>>

\* The CLI waited for the daemon to be ready, in vain perhaps.
SpawnReturns(s) ==
    /\ ops[s].at = "booting" /\ daemon.at # "down"
    /\ End(s)
    /\ UNCHANGED <<daemon, files, revoked, session, alive, view, polls, procs, tally>>

\* The daemon died early, or was not spawned.
SpawnFails(s) ==
    /\ ops[s].at = "failed" \/ (ops[s].at = "booting" /\ daemon.at = "down")
    /\ current' = "stopped"
    /\ End(s)
    /\ UNCHANGED <<daemon, files, revoked, session, alive, expired, due, polls, procs, tally>>

\* A button of the runtime card: refused while another is carried out.
Click ==
    /\ alive /\ session # None /\ ops["guarded"].at = "idle"
    /\ Event
    /\ \/ Begin("guarded", "look", FALSE)
       \/ \E again \in BOOLEAN : Begin("guarded", "stop", again)
    /\ UNCHANGED <<daemon, files, revoked, session, alive, view, polls, procs, lapses>>

\* autoStart asks fetchHealth, which clears a verdict or probes as it does for
\* a poll; a daemon that runs is restarted when its version differs, otherwise
\* it is started.
AutoStart ==
    /\ ops["auto"].at = "check"
    /\ IF daemon.at = "running"
       THEN /\ expired' = FALSE /\ due' = FALSE
            /\ \/ End("auto") /\ UNCHANGED count
               \/ Begin("auto", "stop", TRUE) /\ Event
       ELSE /\ \/ UNCHANGED <<expired, due>>
               \/ MayProbe /\ due' = FALSE /\ expired' = Rejected(config)
            /\ Goto("auto", "look") /\ UNCHANGED count
    /\ UNCHANGED <<daemon, files, revoked, session, alive, current, polls, procs, lapses>>

-----------------------------------------------------------------------------
(* syncToken, clearToken, reauthenticate and what the renderer awaits      *)

Proc(at, why, user) ==
    [at |-> at, why |-> why, user |-> user, tok |-> None, changed |-> FALSE]

\* A procedure is begun; the slots are taken in their order.
Free(c) == procs[c].at = "idle" /\ \A d \in Procs : d < c => procs[d].at # "idle"
Commence(c, at, why, user) ==
    Free(c) /\ procs' = [procs EXCEPT ![c] = Proc(at, why, user)]

\* A procedure that has files to write yet.
Filing(c) == procs[c].at \in {"clear", "unmark", "sync", "mint", "write", "mark"}

\* The session changes, whatever the procedures of the last are at: none is
\* called off.
Passes(u, others) ==
    /\ session' = u
    /\ lapses' = IF u # session /\ \E d \in others : Filing(d)
                 THEN lapses \cup {"overlap"} ELSE lapses

\* The app is launched: a stored session is restored and synced. Without one,
\* or if the server cannot be asked for its user, onLogout is called.
Launch ==
    /\ ~alive /\ alive' = TRUE
    /\ current' = "stopped" /\ expired' = FALSE /\ due' = FALSE
    /\ \/ session # None /\ Commence(1, "sync", "login", session)
          /\ UNCHANGED <<session, count>>
       \/ session # None /\ Event /\ session' = None /\ Commence(1, "clear", "logout", None)
       \/ session = None /\ Commence(1, "clear", "logout", None)
          /\ UNCHANGED <<session, count>>
    /\ UNCHANGED <<daemon, files, revoked, polls, ops, lapses>>

\* A login, a switch to another account by a deep link, or the same user once
\* more: the effect runs whenever the user of the store is replaced.
Login(u) ==
    /\ alive /\ Event
    /\ Passes(u, Procs)
    /\ \E c \in Procs : Commence(c, "sync", "login", u)
    /\ UNCHANGED <<daemon, files, revoked, alive, view, polls, ops>>

Logout ==
    /\ alive /\ session # None /\ Event
    /\ Passes(None, Procs)
    /\ \E c \in Procs : Commence(c, "clear", "logout", None)
    /\ UNCHANGED <<daemon, files, revoked, alive, view, polls, ops>>

\* The button of the prompt that auth_expired shows.
Reauthenticate ==
    /\ alive /\ session # None /\ current = "auth_expired" /\ Event
    /\ \E c \in Procs : Commence(c, "clear", "reauth", session)
    /\ lapses' = IF \E d \in Procs : Filing(d) THEN lapses \cup {"daemon"} ELSE lapses
    /\ UNCHANGED <<daemon, files, revoked, session, alive, view, polls, ops>>

\* Procedure c goes on at the next step, or is over.
Proceed(c, at) == procs' = [procs EXCEPT ![c].at = at]
Return(c) == procs' = [procs EXCEPT ![c] = NoProc]

ClearConfig_KeepsToken(c) ==
    /\ procs[c].at = "clear"
    /\ Proceed(c, "unmark")
    /\ UNCHANGED <<daemon, files, revoked, session, alive, view, polls, ops, tally>>
ClearConfig(c) ==
    /\ procs[c].at = "clear"
    /\ config' = None
    /\ Proceed(c, "unmark")
    /\ UNCHANGED <<daemon, sidecar, revoked, session, alive, view, polls, ops, tally>>

ClearSidecar(c) ==
    /\ procs[c].at = "unmark"
    /\ sidecar' = None
    /\ Proceed(c, IF procs[c].why = "logout" THEN "stop" ELSE "sync")
    /\ UNCHANGED <<daemon, config, revoked, session, alive, view, polls, ops, tally>>

\* The last step of a logout, refused while a button's operation goes on.
LogoutStops(c) ==
    /\ procs[c].at = "stop"
    /\ IF ops["guarded"].at = "idle"
       THEN Begin("guarded", "stop", FALSE) /\ UNCHANGED lapses
       ELSE lapses' = lapses \cup {"daemon"} /\ UNCHANGED ops
    /\ Return(c)
    /\ UNCHANGED <<daemon, files, revoked, session, alive, view, polls, count>>

\* The cached token is reused for the user it is marked with. What is read here
\* is not read again after the mint.
SyncReads(c) ==
    /\ procs[c].at = "sync"
    /\ LET reuse == sidecar = procs[c].user /\ config # None
       IN  procs' = [procs EXCEPT
               ![c].at = IF reuse THEN "write" ELSE "mint",
               ![c].tok = IF reuse THEN config ELSE None,
               ![c].changed = sidecar # None /\ sidecar # procs[c].user]
    /\ UNCHANGED <<daemon, files, revoked, session, alive, view, polls, ops, tally>>

Mint(c) ==
    /\ procs[c].at = "mint"
    /\ revoked' = revoked \ {procs[c].user}
    /\ procs' = [procs EXCEPT ![c].at = "write", ![c].tok = procs[c].user]
    /\ UNCHANGED <<daemon, files, session, alive, view, polls, ops, tally>>

\* The procedure ends: neither files nor daemon are touched.
MintFails(c) ==
    /\ procs[c].at = "mint" /\ Event
    /\ Return(c)
    /\ lapses' = lapses \cup {"token"}
    /\ UNCHANGED <<daemon, files, revoked, session, alive, view, polls, ops>>

\* A re-authentication is answered 401: the session itself is dead, and whoever
\* is signed in by now is signed out.
SessionInvalid(c) ==
    /\ procs[c].at = "mint" /\ procs[c].why = "reauth"
    /\ Passes(None, Procs \ {c})
    /\ procs' = [procs EXCEPT ![c] = Proc("clear", "logout", None)]
    /\ UNCHANGED <<daemon, files, revoked, alive, view, polls, ops, count>>

\* The token is written, whoever is signed in by now.
WriteConfig(c) ==
    /\ procs[c].at = "write"
    /\ config' = procs[c].tok
    /\ procs' = [procs EXCEPT ![c].at = "mark", ![c].tok = None]
    /\ UNCHANGED <<daemon, sidecar, revoked, session, alive, view, polls, ops, tally>>

WriteSidecar(c) ==
    /\ procs[c].at = "mark"
    /\ sidecar' = procs[c].user
    /\ procs' = [procs EXCEPT ![c].at = IF procs[c].changed THEN "switch" ELSE "auto",
                              ![c].user = None, ![c].changed = FALSE]
    /\ UNCHANGED <<daemon, config, revoked, session, alive, view, polls, ops, tally>>

\* The user has changed: a daemon that is up is restarted, nobody waits for it.
SwitchUser_OnlyRunning(c) ==
    /\ procs[c].at = "switch"
    /\ ops["switch"].at = "idle"
    /\ IF daemon.at = "running" THEN Begin("switch", "stop", TRUE) ELSE UNCHANGED ops
    /\ Proceed(c, "auto")
    /\ UNCHANGED <<daemon, files, revoked, session, alive, view, polls, tally>>
SwitchUser(c) ==
    /\ procs[c].at = "switch"
    /\ ops["switch"].at = "idle"
    /\ IF daemon.at # "down" THEN Begin("switch", "stop", TRUE) ELSE UNCHANGED ops
    /\ Proceed(c, "auto")
    /\ UNCHANGED <<daemon, files, revoked, session, alive, view, polls, tally>>

\* A login starts the daemon, unless the preferences say no; a
\* re-authentication restarts it.
BringUp(c) ==
    /\ procs[c].at = "auto"
    /\ IF procs[c].why = "reauth"
       THEN ops["switch"].at = "idle" /\ Begin("switch", "stop", TRUE)
       ELSE \/ ops["auto"].at = "idle" /\ Begin("auto", "check", FALSE)
            \/ UNCHANGED ops
    /\ Return(c)
    /\ UNCHANGED <<daemon, files, revoked, session, alive, view, polls, tally>>

-----------------------------------------------------------------------------
(* The daemon, the server, and the app's end                               *)

\* Preflight: a token the server rejects ends it.
Boots ==
    /\ daemon.at = "starting"
    /\ daemon' = IF daemon.owner \in revoked THEN [at |-> "down", owner |-> None]
                 ELSE [daemon EXCEPT !.at = "running"]
    /\ UNCHANGED <<files, revoked, session, alive, view, polls, ops, procs, tally>>

Crash ==
    /\ daemon.at # "down" /\ Event
    /\ daemon' = [at |-> "down", owner |-> None]
    /\ UNCHANGED <<files, revoked, session, alive, view, polls, ops, procs, lapses>>

Revoke(u) ==
    /\ u \notin revoked /\ config = u /\ Event
    /\ revoked' = revoked \cup {u}
    /\ UNCHANGED <<daemon, files, session, alive, view, polls, ops, procs, lapses>>

\* The app quits or dies: the files stay as they are, and the daemon does too
\* unless autoStop got through to it (before-quit asks for more time only after
\* the event has passed).
Quit ==
    /\ alive /\ Event
    /\ alive' = FALSE
    /\ daemon' \in {daemon, [at |-> "down", owner |-> None]}
    /\ lapses' = IF \/ \E c \in Procs : \/ procs[c].changed \/ procs[c].at = "switch"
                                        \/ procs[c].at = "stop" /\ session # None
                    \/ \E s \in Slots : ops[s].at \in {"stop", "stopping"}
                 THEN lapses \cup {"daemon"} ELSE lapses
    /\ polls' = [p \in Pollers |-> NoPoll]
    /\ ops' = [s \in Slots |-> NoOp]
    /\ procs' = [c \in Procs |-> NoProc]
    /\ UNCHANGED <<files, revoked, session, view>>

-----------------------------------------------------------------------------

Polling(p) == PollAnswer(p) \/ PollRunning(p) \/ PollNotRunning(p)
                  \/ PollProbe(p) \/ PollProbed(p)
Operating(s) == Stop(s) \/ StopActs(s) \/ StopReturns(s) \/ StopFails(s) \/ Look(s)
                    \/ FoundAlive(s) \/ Start(s) \/ Spawn(s) \/ SpawnReturns(s)
                    \/ SpawnFails(s)
Carrying(c) == ClearConfig(c) \/ ClearSidecar(c) \/ LogoutStops(c) \/ SyncReads(c)
                   \/ Mint(c) \/ MintFails(c) \/ SessionInvalid(c) \/ WriteConfig(c)
                   \/ WriteSidecar(c) \/ SwitchUser(c) \/ BringUp(c)
Asking == Click \/ Launch \/ Logout \/ Reauthenticate \/ Quit
              \/ \E u \in Users : Login(u)
Daemon == Boots \/ Crash \/ \E u \in Users : Revoke(u)

Next ==
    \/ \E p \in Pollers : Polling(p)
    \/ \E s \in Slots : Operating(s)
    \/ \E c \in Procs : Carrying(c)
    \/ AutoStart \/ Asking \/ Daemon

Spec == Init /\ [][Next]_vars

\* The interval keeps polling, and a poll that was answered is gone on with. No
\* more is needed: what the property waits for is that all else is left alone.
LiveSpec == Spec /\ \A p \in Pollers : WF_vars(Polling(p))

-----------------------------------------------------------------------------

Quiet == alive /\ OpsIdle /\ \A c \in Procs : procs[c].at = "idle"

\* The token on disk never outlives the session it was minted in, and is
\* reused for nobody but its owner (syncToken: "a previous user's PAT would be
\* used by a new session"), whatever was cached, revoked or half written when
\* the app last quit, and however the syncs and re-authentications of one
\* session run into each other. Not so once none could be minted for a new user,
\* or once the session changed under a procedure that was writing: syncToken
\* writes what it minted, whoever is signed in by then.
TokenIsOwners ==
    lapses \cap {"token", "overlap"} = {} =>
        /\ Quiet => config = session
        /\ \A c \in Procs : procs[c].at = "mark" => config \in {None, procs[c].user}

\* Nor does a daemon that answers go on with the credentials of an earlier
\* session: a login finds none that it has not restarted (App.tsx: "a subsequent
\* login as a different user never inherits the previous user's ...
\* credentials"), whatever buttons, polls, starts and restarts a change of the
\* session meets. The named lapses are the ways this model has for it to fail.
OwnDaemon == Quiet /\ daemon.at # "down" /\ lapses = {} => daemon.owner = session

\* A daemon that runs and is left alone is shown as running, whatever polls
\* and operations were under way when it came up, and however often its login
\* had been found expired.
RunningIsShown ==
    <>[](alive /\ daemon.at = "running" /\ OpsIdle) => <>[](current = "running")
=============================================================================
