--------------------------- MODULE RealtimeClient ---------------------------
(***************************************************************************)
(* The realtime connection of the mobile client and one query it keeps     *)
(* fresh: the socket with its reconnect timer and heartbeat                *)
(* (apps/mobile/data/realtime/ws-client.ts), the provider that drives it   *)
(* from AppState and NetInfo (realtime-provider.tsx), and the cached list  *)
(* of a hook that handles its events (use-inbox-realtime.ts). The server   *)
(* of a socket is hub.go's HandleWebSocket; the query cache is TanStack    *)
(* Query, modelled from how query-client.ts sets it up.                    *)
(*                                                                         *)
(* A socket is half-open when the client holds one whose peer is gone and  *)
(* nothing has told the client so. Delays are left out: a timer that is    *)
(* set may fire.                                                           *)
(***************************************************************************)
EXTENDS Naturals, Sequences

CONSTANTS
    MaxVersion,  \* bound: changes of the list on the server, plus one
    MaxFaults,   \* bound: lost links, closed sockets and failed requests
    MaxVisits    \* bound: times the workspace is entered

ASSUME RealtimeAssumption ==
    /\ MaxVersion \in Nat \ {0} /\ MaxFaults \in Nat /\ MaxVisits \in Nat

VARIABLES
    provider,  \* RealtimeProvider: off, awaiting the token, on, or bare (no token)
    state,     \* WSClient.state
    sock,      \* the socket as the client sees it
    peer,      \* what the server holds for that socket
    wire,      \* frames on their way to the client: Ack, or a version
    timer,     \* is reconnectTimer set
    waiting,   \* awaitingPong
    before,    \* hasConnectedBefore
    refused,   \* has the token of the client expired
    app,       \* AppState
    net,       \* is the phone on a network
    seen,      \* lastConnectedRef: what NetInfo last reported
    version,   \* the list on the server
    cached,    \* the list in the cache, or Nothing
    stale,     \* invalidated, or older than staleTime
    fetch,     \* the request of the list: none, asked, or read by the server
    answer,    \* the version it read
    missed,    \* did the list change with nobody to tell this cache (history)
    faults,
    visits

client  == <<state, sock, peer, wire, timer, waiting, before>>
phone   == <<app, net, seen>>
query   == <<cached, stale, fetch, answer>>
bounds  == <<missed, faults, visits>>
vars    == <<provider, client, refused, phone, version, query, bounds>>

Versions == 1..MaxVersion
Ack      == 0
Nothing  == 0

TypeOK ==
    /\ provider \in {"off", "token", "on", "bare"}
    /\ state \in {"idle", "active", "paused"}
    /\ sock \in {"none", "dialing", "open", "authed"}
    /\ peer \in {"none", "waiting", "acked", "registered"}
    /\ wire \in Seq({Ack} \cup Versions)
    /\ timer \in BOOLEAN /\ waiting \in BOOLEAN /\ before \in BOOLEAN
    /\ refused \in BOOLEAN
    /\ app \in {"active", "inactive", "background"}
    /\ net \in BOOLEAN /\ seen \in {"unknown", "online", "offline"}
    /\ version \in Versions
    /\ cached \in Versions \cup {Nothing}
    /\ stale \in BOOLEAN
    /\ fetch \in {"none", "asked", "read"}
    /\ answer \in Versions \cup {Nothing}
    /\ missed \in BOOLEAN
    /\ faults \in 0..MaxFaults /\ visits \in 0..MaxVisits

Init ==
    /\ provider = "off"
    /\ state = "idle" /\ sock = "none" /\ peer = "none" /\ wire = <<>>
    /\ timer = FALSE /\ waiting = FALSE /\ before = FALSE
    /\ refused = FALSE
    /\ app = "active" /\ net \in BOOLEAN /\ seen = "unknown"
    /\ version = 1
    /\ cached = Nothing /\ stale = FALSE
    /\ fetch = "none" /\ answer = Nothing
    /\ missed = FALSE /\ faults = 0 /\ visits = 0

-----------------------------------------------------------------------------
(* The query cache (TanStack Query as query-client.ts configures it)       *)

\* invalidateQueries: the data is stale and read again; a request in flight is
\* started over, unless it is the first one.
Invalidate ==
    /\ stale' = TRUE
    /\ IF fetch = "none" \/ cached # Nothing
       THEN fetch' = "asked" /\ answer' = Nothing
       ELSE UNCHANGED <<fetch, answer>>
    /\ UNCHANGED cached

\* A mount, a focus or the return of the network: data that is missing, was
\* invalidated or, as old says, has grown older than staleTime is read again.
Revisit(old) ==
    /\ stale' = (stale \/ old)
    /\ fetch' = IF fetch = "none" /\ (stale' \/ cached = Nothing)
                THEN "asked" ELSE fetch
    /\ UNCHANGED <<cached, answer>>

\* The server reads the list for the request, and whatever was missed with it.
FetchRead ==
    /\ fetch = "asked" /\ net
    /\ fetch' = "read" /\ answer' = version
    /\ missed' = FALSE
    /\ UNCHANGED <<provider, client, refused, phone, version, cached, stale, faults, visits>>

FetchDone ==
    /\ fetch = "read" /\ net
    /\ cached' = answer
    /\ stale' = FALSE
    /\ fetch' = "none" /\ answer' = Nothing
    /\ UNCHANGED <<provider, client, refused, phone, version, bounds>>

\* The request and its one retry fail: the data stays as it was.
FetchFailed ==
    /\ fetch # "none" /\ faults < MaxFaults
    /\ fetch' = "none" /\ answer' = Nothing
    /\ faults' = faults + 1
    /\ UNCHANGED <<provider, client, refused, phone, version, cached, stale, missed, visits>>

-----------------------------------------------------------------------------
(* WSClient: apps/mobile/data/realtime/ws-client.ts                        *)

\* teardownSocket: the handlers are detached, nothing of it is heard again.
Teardown == peer' = "none" /\ wire' = <<>> /\ waiting' = FALSE

\* openSocket, after whatever was there is gone.
OpenSocket == Teardown /\ sock' = "dialing" /\ timer' = FALSE

\* scheduleReconnect, after the socket is gone.
ScheduleReconnect == Teardown /\ sock' = "none" /\ timer' = TRUE

Connect ==
    IF state = "active"
    THEN UNCHANGED <<state, sock, peer, wire, timer, waiting>>
    ELSE state' = "active" /\ OpenSocket

Disconnect ==
    /\ state' = "idle"
    /\ Teardown /\ sock' = "none" /\ timer' = FALSE
    /\ before' = FALSE

Pause_KeepsTimer ==
    IF state # "active"
    THEN UNCHANGED client
    ELSE /\ state' = "paused"
         /\ Teardown /\ sock' = "none"
         /\ UNCHANGED <<timer, before>>
Pause_AsDisconnect ==
    IF state # "active"
    THEN UNCHANGED client
    ELSE /\ state' = "paused"
         /\ Teardown /\ sock' = "none" /\ timer' = FALSE
         /\ before' = FALSE
Pause ==
    IF state # "active"
    THEN UNCHANGED client
    ELSE /\ state' = "paused"
         /\ Teardown /\ sock' = "none" /\ timer' = FALSE
         /\ UNCHANGED before

\* resume() and then forceReconnect(): paused or active, a fresh socket.
ResumeAndForce ==
    IF state = "idle"
    THEN UNCHANGED client
    ELSE state' = "active" /\ OpenSocket /\ UNCHANGED before

ForceReconnect ==
    IF state # "active"
    THEN UNCHANGED client
    ELSE OpenSocket /\ UNCHANGED <<state, before>>

\* onopen: the auth frame is sent.
SocketOpens ==
    /\ sock = "dialing" /\ net
    /\ sock' = "open" /\ peer' = "waiting"
    /\ UNCHANGED <<provider, state, wire, timer, waiting, before, refused, phone,
                   version, query, bounds>>

\* onclose of the socket we hold.
OnClose ==
    /\ IF state = "active"
       THEN ScheduleReconnect
       ELSE Teardown /\ sock' = "none" /\ UNCHANGED timer
    /\ UNCHANGED <<state, before>>

\* A dial that finds no network.
DialFails ==
    /\ sock = "dialing" /\ ~net
    /\ OnClose
    /\ UNCHANGED <<provider, refused, phone, version, query, bounds>>

\* A socket is reset, or the server goes away.
SocketCloses ==
    /\ sock # "none" /\ faults < MaxFaults
    /\ faults' = faults + 1
    /\ OnClose
    /\ UNCHANGED <<provider, refused, phone, version, query, missed, visits>>

\* auth_ack: onAuthenticated. The heartbeat starts with a ping, and on every
\* connection but the first of this client the queries are invalidated.
AckArrives ==
    /\ sock = "open" /\ wire # <<>> /\ Head(wire) = Ack
    /\ wire' = Tail(wire)
    /\ sock' = "authed" /\ waiting' = TRUE
    /\ IF before THEN Invalidate ELSE UNCHANGED query
    /\ before' = TRUE
    /\ UNCHANGED <<provider, state, peer, timer, refused, phone, version, bounds>>

\* An event: its handler invalidates the list.
EventArrives ==
    /\ sock = "authed" /\ wire # <<>> /\ Head(wire) # Ack
    /\ wire' = Tail(wire)
    /\ Invalidate
    /\ UNCHANGED <<provider, state, sock, peer, timer, waiting, before, refused,
                   phone, version, bounds>>

\* sendHeartbeat, every 25 seconds.
HeartbeatDue ==
    /\ sock = "authed" /\ ~waiting
    /\ waiting' = TRUE
    /\ UNCHANGED <<provider, state, sock, peer, wire, timer, before, refused, phone,
                   version, query, bounds>>

PongArrives ==
    /\ sock = "authed" /\ waiting /\ peer = "registered"
    /\ waiting' = FALSE
    /\ UNCHANGED <<provider, state, sock, peer, wire, timer, before, refused, phone,
                   version, query, bounds>>

\* No pong within 10 seconds: reconnectAfterHeartbeatFailure. It may be late
\* on a link that is not lost.
PongLate_NoReconnect ==
    /\ waiting
    /\ \/ peer = "none" /\ UNCHANGED faults
       \/ peer # "none" /\ faults < MaxFaults /\ faults' = faults + 1
    /\ Teardown /\ sock' = "none"
    /\ UNCHANGED <<provider, state, timer, before, refused, phone, version, query, missed, visits>>
PongLate ==
    /\ waiting
    /\ \/ peer = "none" /\ UNCHANGED faults
       \/ peer # "none" /\ faults < MaxFaults /\ faults' = faults + 1
    /\ ScheduleReconnect
    /\ UNCHANGED <<provider, state, before, refused, phone, version, query, missed, visits>>

TimerFires ==
    /\ timer
    /\ IF state = "active"
       THEN OpenSocket
       ELSE timer' = FALSE /\ UNCHANGED <<sock, peer, wire, waiting>>
    /\ UNCHANGED <<provider, state, before, refused, phone, version, query, bounds>>

-----------------------------------------------------------------------------
(* RealtimeProvider                                                        *)

\* The layout of a workspace mounts, its screens with it. Data of an earlier
\* visit that is younger than staleTime is taken as it is.
Enter ==
    /\ provider = "off" /\ visits < MaxVisits
    /\ provider' = "token"
    /\ visits' = visits + 1
    /\ \E old \in BOOLEAN :
          /\ Revisit(old)
          /\ missed' = (missed \/ (~old /\ ~stale /\ cached \notin {version, Nothing}))
    /\ UNCHANGED <<client, refused, phone, version, faults>>

\* getToken answers: a client is built with that token and connects. Without a
\* token there is none, and nothing else asks for it.
TokenRead ==
    /\ provider = "token"
    /\ \/ /\ provider' = "on"
          /\ Connect /\ before' = FALSE
          /\ refused' = FALSE
          /\ seen' = "unknown"
       \/ provider' = "bare" /\ UNCHANGED <<client, refused, seen>>
    /\ UNCHANGED <<app, net, version, query, bounds>>

\* The workspace is left, or the user signed out: the cleanup of the effect.
\* The requests of the screens are aborted.
Leave ==
    /\ provider # "off"
    /\ provider' = "off"
    /\ IF provider = "on" THEN Disconnect ELSE UNCHANGED client
    /\ fetch' = "none" /\ answer' = Nothing
    /\ UNCHANGED <<refused, phone, version, cached, stale, bounds>>

\* AppState "active": a fresh socket, and the queries see a focus.
Foreground ==
    /\ app # "active"
    /\ app' = "active"
    /\ IF provider = "on" THEN ResumeAndForce ELSE UNCHANGED client
    /\ IF provider = "off" THEN UNCHANGED query ELSE \E old \in BOOLEAN : Revisit(old)
    /\ UNCHANGED <<provider, refused, net, seen, version, bounds>>

Background ==
    /\ app # "background"
    /\ app' = "background"
    /\ IF provider = "on" THEN Pause ELSE UNCHANGED client
    /\ UNCHANGED <<provider, refused, net, seen, version, query, bounds>>

\* AppState "inactive" is ignored.
Inactive ==
    /\ app = "active"
    /\ app' = "inactive"
    /\ UNCHANGED <<provider, client, refused, net, seen, version, query, bounds>>

\* NetInfo reports: on the edge from offline to online, a fresh socket, and
\* the queries see the network return.
NetInfo ==
    /\ provider = "on"
    /\ seen # (IF net THEN "online" ELSE "offline")
    /\ seen' = IF net THEN "online" ELSE "offline"
    /\ IF seen = "offline"
       THEN ForceReconnect /\ \E old \in BOOLEAN : Revisit(old)
       ELSE UNCHANGED <<client, query>>
    /\ UNCHANGED <<provider, refused, app, net, version, bounds>>

-----------------------------------------------------------------------------
(* The network, and the server's end of a socket (hub.go)                  *)

\* The link of the socket is lost and the client is not told.
LinkLost ==
    /\ peer # "none" /\ faults < MaxFaults
    /\ peer' = "none" /\ wire' = <<>>
    /\ faults' = faults + 1
    /\ UNCHANGED <<provider, state, sock, timer, waiting, before, refused, phone,
                   version, query, missed, visits>>

NetDown ==
    /\ net /\ faults < MaxFaults
    /\ net' = FALSE
    /\ peer' = "none" /\ wire' = <<>>
    /\ faults' = faults + 1
    /\ UNCHANGED <<provider, state, sock, timer, waiting, before, refused, app, seen,
                   version, query, missed, visits>>

NetUp ==
    /\ ~net
    /\ net' = TRUE
    /\ UNCHANGED <<provider, client, refused, app, seen, version, query, bounds>>

\* firstMessageAuth accepts the token: auth_ack is written.
ServerAcks ==
    /\ peer = "waiting" /\ ~refused
    /\ peer' = "acked" /\ wire' = Append(wire, Ack)
    /\ UNCHANGED <<provider, state, sock, timer, waiting, before, refused, phone,
                   version, query, bounds>>

\* Only then is the connection registered, and gets events from now on.
ServerRegisters ==
    /\ peer = "acked"
    /\ peer' = "registered"
    /\ UNCHANGED <<provider, state, sock, wire, timer, waiting, before, refused, phone,
                   version, query, bounds>>

\* It does not: an error frame, which the client drops, and a close.
ServerRefuses ==
    /\ peer = "waiting" /\ refused
    /\ OnClose
    /\ UNCHANGED <<provider, refused, phone, version, query, bounds>>

\* Is something to come that tells this cache of a change: a request that the
\* server has yet to read; the event, or the refetch of the next auth_ack if
\* the socket does not live to deliver it. No refetch comes with the first
\* auth_ack, no event before the registration that follows an auth_ack, and
\* neither starts the first request over.
Told ==
    IF cached = Nothing
    THEN fetch # "read"
    ELSE fetch = "asked" \/ (before /\ ~(sock = "authed" /\ peer = "acked"))

\* The list changes and its event is sent to a registered connection.
Change ==
    /\ version < MaxVersion
    /\ version' = version + 1
    /\ wire' = IF peer = "registered" THEN Append(wire, version') ELSE wire
    /\ missed' = (missed \/ ~Told)
    /\ UNCHANGED <<provider, state, sock, peer, timer, waiting, before, refused, phone,
                   query, faults, visits>>

\* The token the client was built with expires. The session may have been
\* renewed in place (session-renewal.ts), which this client does not learn of.
TokenExpires ==
    /\ provider = "on" /\ ~refused
    /\ refused' = TRUE
    /\ UNCHANGED <<provider, client, phone, version, query, bounds>>

\* It has not been: a request of any screen is answered 401, and the handler
\* of _layout.tsx signs the user out.
SessionEnds == refused /\ Leave

-----------------------------------------------------------------------------

Socket   == SocketOpens \/ DialFails \/ SocketCloses \/ AckArrives \/ EventArrives
               \/ HeartbeatDue \/ PongArrives \/ PongLate \/ TimerFires
Lifetime == Enter \/ TokenRead \/ Leave \/ SessionEnds \/ TokenExpires
Signals  == Foreground \/ Background \/ Inactive \/ NetInfo
               \/ LinkLost \/ NetDown \/ NetUp
Server   == ServerAcks \/ ServerRegisters \/ ServerRefuses \/ Change
Requests == FetchRead \/ FetchDone \/ FetchFailed

Next == Socket \/ Lifetime \/ Signals \/ Server \/ Requests

Spec == Init /\ [][Next]_vars

\* Timers fire, frames arrive, dials are decided, the server answers, and a
\* screen that is open keeps asking: what the network and the user do is left
\* to them.
LiveSpec ==
    /\ Spec
    /\ WF_vars(SocketOpens) /\ WF_vars(DialFails)
    /\ WF_vars(AckArrives) /\ WF_vars(EventArrives)
    /\ WF_vars(HeartbeatDue) /\ WF_vars(PongLate) /\ WF_vars(TimerFires)
    /\ WF_vars(ServerAcks) /\ WF_vars(ServerRegisters) /\ WF_vars(ServerRefuses)
    /\ WF_vars(TokenRead)

-----------------------------------------------------------------------------

\* A client that wants to be connected holds a socket or a timer that will
\* dial one, never both and never neither; one that does not holds nothing,
\* so no timer revives it in the background or after a sign-out: the paths of
\* ws-client.ts that open, close and reschedule agree on this.
OneAttempt ==
    IF state = "active" THEN timer <=> sock = "none" ELSE ~timer /\ sock = "none"

\* A foreground provider that is up drives an active client: no order of
\* AppState events, token answers and unmounts leaves it paused in the hand of
\* the user (realtime-provider.tsx).
ForegroundIsActive ==
    /\ provider = "on" /\ app = "active" => state = "active"
    /\ provider # "on" => state = "idle"

\* Connected, with no event and no request on its way, the list shown is the
\* server's, or is marked for the next refetch: what happened while the socket
\* was down, half-open or being replaced is caught up with (the comment at
\* onReconnect in ws-client.ts). What is missed for good is a change before the
\* first auth_ack or between an auth_ack and the registration that follows it,
\* and one between two visits within staleTime.
CaughtUp ==
    sock = "authed" /\ peer = "registered" /\ wire = <<>> /\ fetch = "none"
        /\ cached # Nothing
    => cached = version \/ stale \/ missed

\* A user who stays in the foreground on a network that holds is connected:
\* a half-open socket, a failed dial and a missed NetInfo edge are recovered
\* from (the heartbeat of ws-client.ts), all but a link lost in silence between
\* the auth frame and its acknowledgement, when no heartbeat runs yet.
Reconnects ==
    <>[](provider = "on" /\ app = "active" /\ net /\ ~refused)
        => \/ <>[](sock = "authed" /\ peer = "registered")
           \/ <>[](sock = "open" /\ peer = "none")
=============================================================================
