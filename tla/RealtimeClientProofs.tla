------------------------ MODULE RealtimeClientProofs ------------------------
(***************************************************************************)
(* Proofs about RealtimeClient, for every value of its bounds.             *)
(***************************************************************************)
EXTENDS RealtimeClient, TLAPS

-----------------------------------------------------------------------------
(* Types.                                                                  *)

\* The conjuncts of TypeOK by the part of the system they are about.
Frames == Seq({Ack} \cup Versions)

ConnTyped ==
    /\ provider \in {"off", "token", "on", "bare"}
    /\ state \in {"idle", "active", "paused"}
    /\ sock \in {"none", "dialing", "open", "authed"}
    /\ peer \in {"none", "waiting", "acked", "registered"}
    /\ timer \in BOOLEAN /\ waiting \in BOOLEAN /\ before \in BOOLEAN
    /\ refused \in BOOLEAN

PhoneTyped ==
    /\ app \in {"active", "inactive", "background"}
    /\ net \in BOOLEAN /\ seen \in {"unknown", "online", "offline"}
    /\ faults \in 0..MaxFaults /\ visits \in 0..MaxVisits

CacheTyped ==
    /\ version \in Versions
    /\ cached \in Versions \cup {Nothing}
    /\ stale \in BOOLEAN
    /\ fetch \in {"none", "asked", "read"}
    /\ answer \in Versions \cup {Nothing}
    /\ missed \in BOOLEAN

LEMMA TypeParts == TypeOK <=> wire \in Frames /\ ConnTyped /\ PhoneTyped /\ CacheTyped
  BY DEF TypeOK, Frames, ConnTyped, PhoneTyped, CacheTyped

LEMMA TornTyped == ASSUME NEW w, w = <<>> PROVE w \in Frames
  BY DEF Frames

LEMMA TakenTyped ==
  ASSUME TypeOK, wire # <<>>
  PROVE  Tail(wire) \in Frames
  BY DEF TypeOK, Frames

LEMMA InitTyped == Init => TypeOK
<1> SUFFICES ASSUME Init PROVE TypeOK
  OBVIOUS
<1>1. wire \in Frames
  BY TornTyped DEF Init
<1>2. ConnTyped
  BY DEF Init, ConnTyped
<1>3. PhoneTyped
  BY RealtimeAssumption DEF Init, PhoneTyped
<1>4. CacheTyped
  <2>1. version \in Versions
    BY RealtimeAssumption DEF Init, Versions
  <2> QED
    BY <2>1 DEF Init, CacheTyped
<1> QED
  BY <1>1, <1>2, <1>3, <1>4, TypeParts

LEMMA SocketTyped ==
  ASSUME TypeOK, Socket
  PROVE  TypeOK'
<1> USE DEF phone, query, bounds, client, Socket, SocketOpens, DialFails,
            SocketCloses, AckArrives, EventArrives, HeartbeatDue, PongArrives,
            PongLate, TimerFires, Invalidate, OnClose, ScheduleReconnect, OpenSocket,
            Teardown
<1>1. wire' \in Frames
  <2>1. \/ wire' = <<>> \/ wire' = wire
        \/ wire # <<>> /\ wire' = Tail(wire)
    OBVIOUS
  <2> QED
    BY <2>1, TornTyped, TakenTyped, TypeParts
<1>2. ConnTyped'
  BY DEF ConnTyped, TypeOK
<1>3. PhoneTyped'
  BY RealtimeAssumption DEF PhoneTyped, TypeOK
<1>4. CacheTyped'
  BY RealtimeAssumption DEF CacheTyped, TypeOK
<1> QED
  BY <1>1, <1>2, <1>3, <1>4 DEF TypeOK, Frames, ConnTyped, PhoneTyped, CacheTyped

LEMMA LifetimeTyped ==
  ASSUME TypeOK, Lifetime
  PROVE  TypeOK'
<1> USE DEF phone, query, bounds, client, Lifetime, Enter, TokenRead, Leave,
            SessionEnds, TokenExpires, Connect, Disconnect, OpenSocket, Teardown,
            Revisit
<1>1. wire' \in Frames
  <2>1. wire' = <<>> \/ wire' = wire
    OBVIOUS
  <2> QED
    BY <2>1, TornTyped, TypeParts
<1>2. ConnTyped'
  BY DEF ConnTyped, TypeOK
<1>3. PhoneTyped'
  BY RealtimeAssumption DEF PhoneTyped, TypeOK
<1>4. CacheTyped'
  BY RealtimeAssumption DEF CacheTyped, TypeOK
<1> QED
  BY <1>1, <1>2, <1>3, <1>4 DEF TypeOK, Frames, ConnTyped, PhoneTyped, CacheTyped

LEMMA SignalsTyped ==
  ASSUME TypeOK, Signals
  PROVE  TypeOK'
<1> USE DEF phone, query, bounds, client, Signals, Foreground, Background, Inactive,
            NetInfo, LinkLost, NetDown, NetUp, ResumeAndForce, Pause, ForceReconnect,
            OpenSocket, Teardown, Revisit
<1>1. wire' \in Frames
  <2>1. wire' = <<>> \/ wire' = wire
    OBVIOUS
  <2> QED
    BY <2>1, TornTyped, TypeParts
<1>2. ConnTyped'
  BY DEF ConnTyped, TypeOK
<1>3. faults' \in 0..MaxFaults /\ visits' \in 0..MaxVisits
  BY RealtimeAssumption DEF TypeOK
<1>4. PhoneTyped'
  BY <1>3 DEF PhoneTyped, TypeOK
<1>5. CacheTyped'
  BY DEF CacheTyped, TypeOK
<1> QED
  BY <1>1, <1>2, <1>4, <1>5 DEF TypeOK, Frames, ConnTyped, PhoneTyped, CacheTyped

LEMMA ServerTyped ==
  ASSUME TypeOK, Server
  PROVE  TypeOK'
<1> USE DEF phone, query, bounds, client
<1>0. version' \in Versions
  <2>1. CASE Change
    BY <2>1, RealtimeAssumption DEF Change, TypeOK, Versions
  <2> QED
    BY <2>1 DEF Server, ServerAcks, ServerRegisters, ServerRefuses, TypeOK
<1>1. wire' \in Frames
  <2>1. CASE Change
    BY <1>0, <2>1 DEF Change, TypeOK, Frames
  <2>2. CASE ServerAcks \/ ServerRegisters
    BY <2>2 DEF ServerAcks, ServerRegisters, TypeOK, Frames
  <2>3. CASE ServerRefuses
    <3>1. wire' = <<>>
      BY <2>3 DEF ServerRefuses, OnClose, ScheduleReconnect, Teardown
    <3> QED
      BY <3>1, TornTyped
  <2> QED
    BY <2>1, <2>2, <2>3 DEF Server
<1>2. ConnTyped'
  BY DEF ConnTyped, TypeOK, Server, ServerAcks, ServerRegisters, ServerRefuses,
         Change, OnClose,
         ScheduleReconnect, Teardown
<1>3. PhoneTyped'
  BY RealtimeAssumption
     DEF PhoneTyped, TypeOK, Server, ServerAcks, ServerRegisters, ServerRefuses,
         Change, OnClose,
         ScheduleReconnect, Teardown
<1>4. CacheTyped'
  BY <1>0
     DEF CacheTyped, TypeOK, Server, ServerAcks, ServerRegisters, ServerRefuses,
         Change, OnClose,
         ScheduleReconnect, Teardown
<1> QED
  BY <1>1, <1>2, <1>3, <1>4 DEF TypeOK, Frames, ConnTyped, PhoneTyped, CacheTyped

LEMMA RequestsTyped ==
  ASSUME TypeOK, Requests
  PROVE  TypeOK'
<1> USE DEF phone, query, bounds, client
<1>1. wire' \in Frames
  BY DEF Requests, FetchRead, FetchDone, FetchFailed, TypeOK, Frames
<1>2. ConnTyped'
  BY DEF ConnTyped, TypeOK, Requests, FetchRead, FetchDone, FetchFailed
<1>3. PhoneTyped'
  BY RealtimeAssumption
     DEF PhoneTyped, TypeOK, Requests, FetchRead, FetchDone, FetchFailed
<1>4. CacheTyped'
  BY RealtimeAssumption
     DEF CacheTyped, TypeOK, Requests, FetchRead, FetchDone, FetchFailed
<1> QED
  BY <1>1, <1>2, <1>3, <1>4 DEF TypeOK, Frames, ConnTyped, PhoneTyped, CacheTyped

LEMMA NextTyped == TypeOK /\ [Next]_vars => TypeOK'
<1>1. TypeOK /\ UNCHANGED vars => TypeOK'
  BY DEF TypeOK, vars, phone, query, bounds, client
<1> QED
  BY <1>1, SocketTyped, LifetimeTyped, SignalsTyped, ServerTyped, RequestsTyped DEF Next

\* Socket, timer, provider and cache stay well typed: no frame is read from a
\* socket that carries none and no fault exceeds its bound.
THEOREM TypeCorrect == Spec => []TypeOK
  BY InitTyped, NextTyped, PTL DEF Spec

-----------------------------------------------------------------------------
(* The socket, its timer and the provider agree.                           *)

\* What the three say of each other. A ping is awaited on an authenticated
\* socket only, a client that has been torn down remembers no connection, and
\* frames come from a server that has acknowledged.
Agree ==
    /\ OneAttempt /\ ForegroundIsActive
    /\ provider = "on" => state # "idle"
    /\ waiting => sock = "authed"
    /\ sock = "authed" => before /\ peer # "waiting"
    /\ sock = "dialing" => peer = "none"
    /\ peer \in {"none", "waiting"} => wire = <<>>
    /\ state = "idle" => ~before

ConnInv == TypeOK /\ Agree

LEMMA InitConn == Init => ConnInv
  BY InitTyped DEF Init, ConnInv, Agree, OneAttempt, ForegroundIsActive

LEMMA SocketConn ==
  ASSUME ConnInv, Socket
  PROVE  Agree'
<1> USE DEF ConnInv, Agree, OneAttempt, ForegroundIsActive, phone, query, bounds, client
<1>1. CASE SocketOpens \/ HeartbeatDue \/ PongArrives
  BY <1>1 DEF SocketOpens, HeartbeatDue, PongArrives
<1>2. CASE DialFails \/ SocketCloses
  BY <1>2 DEF DialFails, SocketCloses, OnClose, ScheduleReconnect, Teardown
<1>3. CASE AckArrives
  BY <1>3 DEF AckArrives
<1>4. CASE EventArrives
  BY <1>4 DEF EventArrives
<1>5. CASE PongLate
  BY <1>5 DEF PongLate, ScheduleReconnect, Teardown
<1>6. CASE TimerFires
  BY <1>6 DEF TimerFires, OpenSocket, Teardown
<1> QED
  BY <1>1, <1>2, <1>3, <1>4, <1>5, <1>6 DEF Socket

LEMMA LifetimeConn ==
  ASSUME ConnInv, Lifetime
  PROVE  Agree'
<1> USE DEF ConnInv, Agree, OneAttempt, ForegroundIsActive, phone, query, bounds, client
<1>1. CASE Enter \/ TokenExpires
  BY <1>1 DEF Enter, TokenExpires
<1>2. CASE TokenRead
  BY <1>2 DEF TokenRead, Connect, OpenSocket, Teardown, TypeOK
<1>3. CASE Leave \/ SessionEnds
  BY <1>3 DEF Leave, SessionEnds, Disconnect, Teardown
<1> QED
  BY <1>1, <1>2, <1>3 DEF Lifetime

LEMMA SignalsConn ==
  ASSUME ConnInv, Signals
  PROVE  Agree'
<1> USE DEF ConnInv, Agree, OneAttempt, ForegroundIsActive, phone, query, bounds, client
<1>1. CASE Foreground
  BY <1>1 DEF Foreground, ResumeAndForce, OpenSocket, Teardown
<1>2. CASE Background
  BY <1>2 DEF Background, Pause, Teardown
<1>3. CASE Inactive \/ NetUp \/ LinkLost \/ NetDown
  BY <1>3 DEF Inactive, NetUp, LinkLost, NetDown
<1>4. CASE NetInfo
  BY <1>4 DEF NetInfo, ForceReconnect, OpenSocket, Teardown
<1> QED
  BY <1>1, <1>2, <1>3, <1>4 DEF Signals

LEMMA ServerConn ==
  ASSUME ConnInv, Server \/ Requests
  PROVE  Agree'
<1> USE DEF ConnInv, Agree, OneAttempt, ForegroundIsActive, phone, query, bounds, client
<1>1. CASE ServerAcks \/ ServerRegisters \/ Change
  BY <1>1 DEF ServerAcks, ServerRegisters, Change
<1>2. CASE ServerRefuses
  BY <1>2 DEF ServerRefuses, OnClose, ScheduleReconnect, Teardown
<1>3. CASE Requests
  BY <1>3 DEF Requests, FetchRead, FetchDone, FetchFailed
<1> QED
  BY <1>1, <1>2, <1>3 DEF Server

LEMMA NextConn == ConnInv /\ [Next]_vars => ConnInv'
<1> SUFFICES ASSUME ConnInv, [Next]_vars PROVE ConnInv'
  OBVIOUS
<1>1. TypeOK'
  BY NextTyped DEF ConnInv
<1>2. UNCHANGED vars => Agree'
  BY DEF ConnInv, Agree, OneAttempt, ForegroundIsActive, vars, client, phone
<1> QED
  BY <1>1, <1>2, SocketConn, LifetimeConn, SignalsConn, ServerConn DEF Next, ConnInv

LEMMA ConnHolds == Spec => []ConnInv
  BY InitConn, NextConn, PTL DEF Spec

\* An active client has a socket or a timer and never both, any other has
\* neither, in every order of closes, missed pongs, pauses and sign-outs.
THEOREM OneAttemptAtATime == Spec => []OneAttempt
<1>1. ConnInv => OneAttempt
  BY DEF ConnInv, Agree
<1> QED
  BY <1>1, ConnHolds, PTL

\* A provider that is up in the foreground drives an active client, one that
\* is not up an idle one.
THEOREM ForegroundDrivesActive == Spec => []ForegroundIsActive
<1>1. ConnInv => ForegroundIsActive
  BY DEF ConnInv, Agree
<1> QED
  BY <1>1, ConnHolds, PTL

-----------------------------------------------------------------------------
(* The cached list catches up.                                             *)

\* The connection will tell the cache of what it does not know: a frame is on
\* its way, or the next auth_ack brings a refetch.
Owed ==
    /\ before
    /\ sock = "authed" => peer # "acked" /\ (peer = "registered" => wire # <<>>)

\* Nothing is lost unless `missed` says so: what the cache holds, or the
\* request in flight is about to write, is the server's list, is marked, or
\* something will tell the cache.
Known ==
    IF fetch = "read" THEN answer = version \/ Owed
    ELSE cached = Nothing \/ stale \/ cached = version \/ Owed

Kept ==
    /\ provider = "off" => fetch = "none"
    /\ fetch # "none" => cached = Nothing \/ stale
    /\ cached = Nothing /\ fetch = "read" /\ ~missed => answer = version
    /\ provider # "off" /\ ~missed => fetch = "asked" \/ Known

CatchInv == ConnInv /\ Kept

LEMMA InitCatch == Init => CatchInv
  BY InitConn DEF Init, CatchInv, Kept

\* Whatever ends a socket leaves to the next auth_ack what this one owed.
LEMMA SocketCatch ==
  ASSUME CatchInv, Socket
  PROVE  Kept'
<1> USE DEF CatchInv, Kept, Known, Owed, phone, query, bounds, client
<1>0. sock # "none" => provider = "on" /\ state = "active"
  BY DEF ConnInv, Agree, OneAttempt, ForegroundIsActive, TypeOK
<1>1. CASE SocketOpens \/ HeartbeatDue \/ PongArrives
  BY <1>1 DEF SocketOpens, HeartbeatDue, PongArrives
<1>2. CASE DialFails \/ SocketCloses
  BY <1>2 DEF DialFails, SocketCloses, OnClose, ScheduleReconnect, Teardown
<1>3. CASE AckArrives
  <2>1. CASE before
    BY <1>0, <1>3, <2>1 DEF AckArrives, Invalidate, ConnInv, TypeOK
  <2>2. CASE ~before
    BY <1>3, <2>2 DEF AckArrives
  <2> QED
    BY <2>1, <2>2
<1>4. CASE EventArrives
  BY <1>0, <1>4 DEF EventArrives, Invalidate, ConnInv, TypeOK
<1>5. CASE PongLate
  BY <1>5 DEF PongLate, ScheduleReconnect, Teardown
<1>6. CASE TimerFires
  BY <1>6 DEF TimerFires, OpenSocket, Teardown
<1> QED
  BY <1>1, <1>2, <1>3, <1>4, <1>5, <1>6 DEF Socket

\* A client that is built or torn down owes nothing; entering reads the list
\* again or takes note that it does not.
LEMMA LifetimeCatch ==
  ASSUME CatchInv, Lifetime
  PROVE  Kept'
<1> USE DEF CatchInv, Kept, Known, Owed, phone, query, bounds, client
<1>1. CASE Enter
  BY <1>1 DEF Enter, Revisit
<1>2. CASE TokenRead
  BY <1>2 DEF TokenRead, ConnInv, Agree, ForegroundIsActive
<1>3. CASE Leave \/ SessionEnds
  BY <1>3 DEF Leave, SessionEnds
<1>4. CASE TokenExpires
  BY <1>4 DEF TokenExpires
<1> QED
  BY <1>1, <1>2, <1>3, <1>4 DEF Lifetime

LEMMA SignalsCatch ==
  ASSUME CatchInv, Signals
  PROVE  Kept'
<1> USE DEF CatchInv, Kept, Known, Owed, phone, query, bounds, client
<1>1. CASE Foreground
  BY <1>1 DEF Foreground, ResumeAndForce, OpenSocket, Teardown, Revisit
<1>2. CASE Background
  BY <1>2 DEF Background, Pause, Teardown
<1>3. CASE Inactive \/ NetUp \/ LinkLost \/ NetDown
  BY <1>3 DEF Inactive, NetUp, LinkLost, NetDown
<1>4. CASE NetInfo
  BY <1>4 DEF NetInfo, ForceReconnect, OpenSocket, Teardown, Revisit
<1> QED
  BY <1>1, <1>2, <1>3, <1>4 DEF Signals

LEMMA ServerCatch ==
  ASSUME CatchInv, Server
  PROVE  Kept'
<1> USE DEF CatchInv, Kept, Known, Owed, phone, query, bounds, client
<1>1. CASE ServerAcks \/ ServerRegisters
  BY <1>1 DEF ServerAcks, ServerRegisters, ConnInv, Agree
<1>2. CASE ServerRefuses
  BY <1>2 DEF ServerRefuses, OnClose, ScheduleReconnect, Teardown
<1>3. CASE Change
  <2>1. peer = "registered" => wire' # <<>>
    BY <1>3 DEF Change, ConnInv, TypeOK
  <2>2. missed' \/ Told
    BY <1>3 DEF Change, ConnInv, TypeOK
  <2>3. Told => \/ fetch = "asked"
                \/ cached = Nothing /\ fetch # "read"
                \/ cached # Nothing /\ before /\ ~(sock = "authed" /\ peer = "acked")
    BY DEF Told
  <2> QED
    BY <1>3, <2>1, <2>2, <2>3 DEF Change
<1> QED
  BY <1>1, <1>2, <1>3 DEF Server

\* An answer is written only while something is still owed for what it lacks.
LEMMA RequestsCatch ==
  ASSUME CatchInv, Requests
  PROVE  Kept'
<1> USE DEF CatchInv, Kept, Known, Owed, phone, query, bounds, client
<1>1. CASE FetchRead
  BY <1>1 DEF FetchRead
<1>2. CASE FetchDone
  BY <1>2 DEF FetchDone
<1>3. CASE FetchFailed
  BY <1>3 DEF FetchFailed
<1> QED
  BY <1>1, <1>2, <1>3 DEF Requests

LEMMA NextCatch == CatchInv /\ [Next]_vars => CatchInv'
<1> SUFFICES ASSUME CatchInv, [Next]_vars PROVE CatchInv'
  OBVIOUS
<1>1. ConnInv'
  BY NextConn DEF CatchInv
<1>2. UNCHANGED vars => Kept'
  BY DEF CatchInv, Kept, Known, Owed, vars, client, query, bounds
<1> QED
  BY <1>1, <1>2, SocketCatch, LifetimeCatch, SignalsCatch, ServerCatch, RequestsCatch
     DEF Next, CatchInv

\* Once a connection is up and quiet, the list shown is the server's, or is
\* marked, or changed at one of the named moments: for any number of changes,
\* lost links, failed requests and visits.
THEOREM ListCatchesUp == Spec => []CaughtUp
<1>1. CatchInv => CaughtUp
  BY DEF CatchInv, Kept, Known, Owed, CaughtUp, ConnInv, Agree, OneAttempt,
         ForegroundIsActive, TypeOK
<1> QED
  BY <1>1, InitCatch, NextCatch, PTL DEF Spec
=============================================================================
