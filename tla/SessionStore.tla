---------------------------- MODULE SessionStore ----------------------------
(***************************************************************************)
(* The signed-in session of the mobile client: the token in the Keychain   *)
(* (apps/mobile/data/secure-storage.ts), the copy every request carries    *)
(* (ApiClient.token), the user the screens are gated on (auth-store.ts),   *)
(* and the asynchronous procedures that write them: the launch, a login,   *)
(* a sign-out, the handler of a 401 (app/_layout.tsx), the sliding renewal *)
(* (lib/session-renewal.ts), and the screens that edit the profile and     *)
(* put the user of the answer into the store (setUser).                    *)
(*                                                                         *)
(* JavaScript runs one procedure at a time and switches at an await, so an *)
(* action is the code from one await to the next and the procedures        *)
(* interleave at their awaits. The process may be killed at each of them;  *)
(* the Keychain survives. Time is left out: a touch may ask for a renewal  *)
(* whenever the schedule allows one, which is any time at all.             *)
(***************************************************************************)
EXTENDS Naturals

CONSTANTS
    Users,     \* accounts that may sign in on this phone
    None,      \* no token, no user
    MaxTokens, \* bound: tokens the server issues to one account
    MaxKills   \* bound: kills of the process

ASSUME SessionAssumption ==
    /\ None \notin Users
    /\ MaxTokens \in Nat \ {0} /\ MaxKills \in Nat

Token == [owner : Users, gen : 1..MaxTokens]

ASSUME NoneIsNoToken == None \notin Token

VARIABLES
    issued,    \* issued[u]: tokens the server has given to u
    valid,     \* tokens the server accepts
    keychain,  \* the token in SecureStore
    memory,    \* ApiClient.token
    user,      \* useAuthStore's user
    boot,      \* where the launch stands, and the token getMe carries
    renewal,   \* the renewal in flight (inFlight): the token it carries, the new one
    login,     \* verifyCode and the token it was given
    leaving,   \* the sign-out the user asked for
    refused,   \* the 401 handler; signingOutRef is refused # "idle"
    requests,  \* tokens of the requests the screens have in flight
    late,      \* has a procedure written over a session it did not set out with
    kills      \* kills so far (late and kills are history)

server  == <<issued, valid>>
session == <<keychain, memory, user>>
history == <<late, kills>>
vars    == <<server, session, boot, renewal, login, leaving, refused, requests, history>>

Alive == boot.at # "dead"

TypeOK ==
    /\ issued \in [Users -> 0..MaxTokens]
    /\ valid \in SUBSET Token
    /\ keychain \in Token \cup {None}
    /\ memory \in Token \cup {None}
    /\ user \in Users \cup {None}
    /\ boot \in [at : {"dead", "reading", "asking", "refused", "clearing", "up"},
                 tok : Token \cup {None}]
    /\ renewal \in [at : {"idle", "asked", "granted", "committed"},
                    old : Token \cup {None}, tok : Token \cup {None}]
    /\ login \in [at : {"idle", "asked", "stored"}, tok : Token \cup {None}]
    /\ leaving \in {"idle", "workspace", "cleared"}
    /\ refused \in {"idle", "cleared", "workspace"}
    /\ requests \in SUBSET (Token \cup {None})
    /\ late \in BOOLEAN
    /\ kills \in 0..MaxKills

At(step)  == [at |-> step, tok |-> None]
NoRenewal == [at |-> "idle", old |-> None, tok |-> None]
First(u) == [owner |-> u, gen |-> 1]

\* The app is not running; the phone holds no token or one it still may use.
Init ==
    /\ issued = [u \in Users |-> 1]
    /\ valid = {First(u) : u \in Users}
    /\ keychain \in valid \cup {None}
    /\ memory = None /\ user = None
    /\ boot = At("dead")
    /\ renewal = NoRenewal /\ login = At("idle")
    /\ leaving = "idle" /\ refused = "idle"
    /\ requests = {}
    /\ late = FALSE /\ kills = 0

\* The Keychain should hold tok for what a procedure does next; it is late
\* when another has replaced it meanwhile.
Expects(tok) == late' = (late \/ keychain # tok)

-----------------------------------------------------------------------------
(* The server                                                              *)

\* A new token for u, accepted from now on.
Issues(u, tok) ==
    /\ issued[u] < MaxTokens
    /\ tok = [owner |-> u, gen |-> issued[u] + 1]
    /\ issued' = [issued EXCEPT ![u] = @ + 1]
    /\ valid' = valid \cup {tok}

\* A token reaches its expiry or is revoked.
Expire(t) ==
    /\ t \in valid
    /\ valid' = valid \ {t}
    /\ UNCHANGED <<issued, session, boot, renewal, login, leaving, refused, requests, history>>

-----------------------------------------------------------------------------
(* The 401 handler: onUnauthorized in app/_layout.tsx                      *)

\* Up to its first await: unless it already runs, the Keychain is cleared,
\* whatever token tok the request carried.
Unauthorized(tok) ==
    IF refused = "idle"
    THEN /\ refused' = "cleared" /\ keychain' = None
         /\ late' = (late \/ keychain \notin {tok, None})
    ELSE UNCHANGED <<refused, keychain, late>>

\* logout() goes on, then the workspace and the query cache are cleared.
RefusedLogout ==
    /\ refused = "cleared"
    /\ memory' = None /\ user' = None /\ Expects(None)
    /\ refused' = "workspace"
    /\ UNCHANGED <<server, keychain, boot, renewal, login, leaving, requests, kills>>

RefusedDone_NeverReset ==
    /\ refused = "workspace"
    /\ UNCHANGED vars
RefusedDone ==
    /\ refused = "workspace"
    /\ refused' = "idle"
    /\ UNCHANGED <<server, session, boot, renewal, login, leaving, requests, history>>

-----------------------------------------------------------------------------
(* Sliding renewal: lib/session-renewal.ts                                 *)

\* renewSessionNow: a check in flight is joined, another is sent with the
\* token of the moment.
RenewNow_AsUser ==
    renewal' = IF renewal.at # "idle" THEN renewal
               ELSE [at |-> "asked", old |-> user, tok |-> None]
RenewNow ==
    renewal' = IF renewal.at # "idle" THEN renewal
               ELSE [at |-> "asked", old |-> memory, tok |-> None]

\* A touch or a return to the foreground (maybeRenewSession).
Touch ==
    /\ Alive /\ renewal.at = "idle"
    /\ RenewNow
    /\ UNCHANGED <<server, session, boot, login, leaving, refused, requests, history>>

\* The server renews: a token inside its window is replaced by a new one.
RenewalGranted ==
    /\ renewal.at = "asked" /\ renewal.old \in valid
    /\ \E tok \in Token :
          /\ Issues(renewal.old.owner, tok)
          /\ renewal' = [renewal EXCEPT !.at = "granted", !.tok = tok]
    /\ UNCHANGED <<session, boot, login, leaving, refused, requests, history>>

\* Nothing to renew yet, or the request failed: the session is left alone.
RenewalNothing ==
    /\ renewal.at \in {"asked", "granted"}
    /\ renewal' = NoRenewal
    /\ UNCHANGED <<server, session, boot, login, leaving, refused, requests, history>>

\* 401: the ApiClient calls the handler, the renewal only notes a failure.
RenewalRefused ==
    /\ renewal.at = "asked" /\ renewal.old \notin valid
    /\ renewal' = NoRenewal
    /\ Unauthorized(renewal.old)
    /\ UNCHANGED <<server, memory, user, boot, login, leaving, requests, kills>>

\* commitRenewedToken is called with the answer's token.
RenewalCommit ==
    /\ renewal.at = "granted"
    /\ keychain' = renewal.tok /\ Expects(renewal.old)
    /\ renewal' = [renewal EXCEPT !.at = "committed"]
    /\ UNCHANGED <<server, memory, user, boot, login, leaving, refused, requests, kills>>

\* The write is done: the token is adopted in memory.
RenewalAdopt_DiskOnly ==
    /\ renewal.at = "committed"
    /\ renewal' = NoRenewal
    /\ UNCHANGED <<server, session, boot, login, leaving, refused, requests, history>>
RenewalAdopt ==
    /\ renewal.at = "committed"
    /\ memory' = renewal.tok /\ Expects(renewal.tok)
    /\ renewal' = NoRenewal
    /\ UNCHANGED <<server, keychain, user, boot, login, leaving, refused, requests, kills>>

-----------------------------------------------------------------------------
(* Launch: AuthInitializer and useAuthStore.initialize                     *)

Launch ==
    /\ boot.at = "dead"
    /\ boot' = At("reading")
    /\ UNCHANGED <<server, session, renewal, login, leaving, refused, requests, history>>

\* getToken answers: without a token the launch is over and the check for a
\* renewal is sent at once; with one, getMe is asked.
BootRead ==
    /\ boot.at = "reading"
    /\ IF keychain = None
       THEN boot' = At("up") /\ RenewNow /\ UNCHANGED memory
       ELSE /\ boot' = [at |-> "asking", tok |-> keychain]
            /\ memory' = keychain /\ UNCHANGED renewal
    /\ UNCHANGED <<server, keychain, user, login, leaving, refused, requests, history>>

\* getMe answers with the user.
BootAccepted ==
    /\ boot.at = "asking" /\ boot.tok \in valid
    /\ user' = boot.tok.owner /\ late' = (late \/ keychain = None)
    /\ boot' = At("up") /\ RenewNow
    /\ UNCHANGED <<server, keychain, memory, login, leaving, refused, requests, kills>>

\* getMe fails in any other way than a 401: the token is kept.
BootUnreachable_Clears ==
    /\ boot.at = "asking"
    /\ user' = None /\ keychain' = None
    /\ boot' = At("up") /\ RenewNow
    /\ UNCHANGED <<server, memory, login, leaving, refused, requests, history>>
BootUnreachable ==
    /\ boot.at = "asking"
    /\ user' = None
    /\ boot' = At("up") /\ RenewNow
    /\ UNCHANGED <<server, keychain, memory, login, leaving, refused, requests, history>>

\* getMe answers 401: the ApiClient calls the handler.
BootRefused ==
    /\ boot.at = "asking" /\ boot.tok \notin valid
    /\ boot' = [boot EXCEPT !.at = "refused"]
    /\ Unauthorized(boot.tok)
    /\ UNCHANGED <<server, memory, user, renewal, login, leaving, requests, kills>>

\* The error reaches initialize, which clears the token as well.
BootClear ==
    /\ boot.at = "refused"
    /\ boot' = At("clearing")
    /\ keychain' = None
    /\ late' = (late \/ keychain \notin {boot.tok, None})
    /\ UNCHANGED <<server, memory, user, renewal, login, leaving, refused, requests, kills>>

BootCleared ==
    /\ boot.at = "clearing"
    /\ memory' = None /\ user' = None /\ Expects(None)
    /\ boot' = At("up")
    /\ renewal' = IF renewal.at # "idle" THEN renewal
                  ELSE [at |-> "asked", old |-> None, tok |-> None]
    /\ UNCHANGED <<server, keychain, login, leaving, refused, requests, kills>>

-----------------------------------------------------------------------------
(* Login, sign-out, and the requests of the screens                        *)

LoginAsk ==
    /\ boot.at = "up" /\ user = None /\ login.at = "idle"
    /\ login' = At("asked")
    /\ UNCHANGED <<server, session, boot, renewal, leaving, refused, requests, history>>

\* verifyCode answers and its token is written to the Keychain.
LoginStore ==
    /\ login.at = "asked"
    /\ \E u \in Users, tok \in Token :
          /\ Issues(u, tok)
          /\ keychain' = tok
          /\ login' = [at |-> "stored", tok |-> tok]
    /\ UNCHANGED <<memory, user, boot, renewal, leaving, refused, requests, history>>

LoginFail ==
    /\ login.at = "asked"
    /\ login' = At("idle")
    /\ UNCHANGED <<server, session, boot, renewal, leaving, refused, requests, history>>

LoginDone ==
    /\ login.at = "stored"
    /\ memory' = login.tok /\ user' = login.tok.owner /\ Expects(login.tok)
    /\ login' = At("idle")
    /\ UNCHANGED <<server, keychain, boot, renewal, leaving, refused, requests, kills>>

\* The sign-out of the settings screen: the workspace, then logout().
SignOut ==
    /\ boot.at = "up" /\ user # None /\ leaving = "idle"
    /\ leaving' = "workspace"
    /\ UNCHANGED <<server, session, boot, renewal, login, refused, requests, history>>

SignOutClear ==
    /\ leaving = "workspace"
    /\ keychain' = None
    /\ late' = (late \/ (user = None /\ keychain # None))
    /\ leaving' = "cleared"
    /\ UNCHANGED <<server, memory, user, boot, renewal, login, refused, requests, kills>>

SignOutDone ==
    /\ leaving = "cleared"
    /\ memory' = None /\ user' = None /\ Expects(None)
    /\ leaving' = "idle"
    /\ UNCHANGED <<server, keychain, boot, renewal, login, refused, requests, kills>>

\* A screen reads, or edits the profile: the request carries the token of the
\* moment.
Request ==
    /\ boot.at = "up" /\ user # None
    /\ requests' = requests \cup {memory}
    /\ UNCHANGED <<server, session, boot, renewal, login, leaving, refused, history>>

\* An answer with data, or no answer at all: nothing of this module changes.
RequestAnswered(t) ==
    /\ t \in requests
    /\ requests' = requests \ {t}
    /\ UNCHANGED <<server, session, boot, renewal, login, leaving, refused, history>>

\* The answer to an edit of the profile is a user, and setUser puts it into the
\* store whoever is signed in by then. The token may have expired since.
ProfileSaved(t) ==
    /\ t \in requests /\ t # None
    /\ requests' = requests \ {t}
    /\ user' = t.owner /\ late' = (late \/ user # t.owner)
    /\ UNCHANGED <<server, keychain, memory, boot, renewal, login, leaving, refused, kills>>

RequestRefused(t) ==
    /\ t \in requests /\ t \notin valid
    /\ requests' = requests \ {t}
    /\ Unauthorized(t)
    /\ UNCHANGED <<server, memory, user, boot, renewal, login, leaving, kills>>

\* The system kills the process: only the Keychain is left.
Kill ==
    /\ Alive /\ kills < MaxKills
    /\ kills' = kills + 1
    /\ boot' = At("dead")
    /\ memory' = None /\ user' = None
    /\ renewal' = NoRenewal /\ login' = At("idle")
    /\ leaving' = "idle" /\ refused' = "idle"
    /\ requests' = {}
    /\ UNCHANGED <<server, keychain, late>>

-----------------------------------------------------------------------------

Boot == Launch \/ BootRead \/ BootAccepted \/ BootUnreachable \/ BootRefused
            \/ BootClear \/ BootCleared
Renew == Touch \/ RenewalGranted \/ RenewalNothing \/ RenewalRefused
            \/ RenewalCommit \/ RenewalAdopt
Leave == SignOut \/ SignOutClear \/ SignOutDone \/ RefusedLogout \/ RefusedDone
Enter == LoginAsk \/ LoginStore \/ LoginFail \/ LoginDone

Next ==
    \/ Boot \/ Renew \/ Leave \/ Enter
    \/ Request \/ Kill
    \/ \E t \in Token : Expire(t)
    \/ \E t \in Token \cup {None} : RequestAnswered(t) \/ ProfileSaved(t) \/ RequestRefused(t)

Spec == Init /\ [][Next]_vars

\* Procedures go on after an await, screens keep reading, and a server that is
\* asked again and again answers at last.
LiveSpec ==
    /\ Spec
    /\ WF_vars(BootRead \/ BootUnreachable \/ BootClear \/ BootCleared)
    /\ WF_vars(RenewalNothing \/ RenewalCommit) /\ WF_vars(RenewalAdopt)
    /\ WF_vars(LoginFail) /\ WF_vars(LoginDone)
    /\ WF_vars(SignOutClear) /\ WF_vars(SignOutDone)
    /\ WF_vars(RefusedLogout) /\ WF_vars(RefusedDone)
    /\ WF_vars(Request)
    /\ SF_vars(RequestRefused(memory))

-----------------------------------------------------------------------------

\* No procedure stands between two writes of the session.
Settled ==
    /\ boot.at = "up" /\ renewal.at # "committed" /\ login.at # "stored"
    /\ leaving # "cleared" /\ refused # "cleared"

\* Whenever no procedure is halfway, the requests carry the token a relaunch
\* would find, and a signed-in user is the one that token speaks for: the
\* writers of auth-store.ts, session-renewal.ts and _layout.tsx and the callers
\* of setUser leave the three copies of the session in step however their awaits
\* interleave, until one of them writes over a session that has changed under
\* it. None of them looks: a renewal or an edit of the profile that is answered
\* after a sign-out puts the old token, or the old user, back (late).
InStep ==
    Settled /\ ~late =>
        /\ memory = keychain
        /\ user # None => keychain # None /\ keychain.owner = user

\* A token the server accepts leaves the phone only because its user signs
\* out: a renewal that fails, a launch without a network and a repeated 401
\* never end a session (session-renewal.ts: offline and 5xx leave the current
\* session untouched). A 401 to an older token is the exception.
SessionKept ==
    [][keychain # None /\ keychain' = None =>
          leaving = "workspace" \/ keychain \notin valid \/ late']_vars

\* A phone without a token gets one through a login only: a renewal "must
\* never look like a login" (session-renewal.ts), and is one only if it
\* outlives its session.
RenewalIsNoLogin ==
    [][keychain = None /\ keychain' # None => login.at = "asked" \/ late']_vars

\* A session whose token has expired comes to an end, or is saved by a token
\* the server accepts: the 401 handler is never stuck behind signingOutRef.
ExpiredSessionEnds ==
    (user # None /\ memory \notin valid) ~> (user = None \/ memory \in valid)
=============================================================================
