-------------------------- MODULE SessionLifecycle --------------------------
(***************************************************************************)
(* The session side of src/cpp: Session (Session.h, Session.cpp) and the   *)
(* socket-closed handler (handlers_network_4session.h), composed with the  *)
(* ServerBalancer registry that the handler unregisters logic servers      *)
(* from.                                                                   *)
(*                                                                         *)
(* A connection c is one Session object.  Who is on the other end is fixed *)
(* when it connects: ConnType[c] is "server" (a logic server with id       *)
(* ConnServer[c]) or "user".  Two connections may carry the same server    *)
(* id: a logic server that restarts and reconnects.                        *)
(*                                                                         *)
(* onClose() only posts notify_socket_closed (notifyNetMsg); the handler   *)
(* processes it later, so a close is two steps, OnClose and                *)
(* HandleSocketClosed, and other steps may run between them.               *)
(*                                                                         *)
(* Not in the repository, and taken from the spec (section 2 and the       *)
(* lifecycle events, "register(target) on connect"): the SessionManager    *)
(* that calls init() and inserts the session, and the logic-server         *)
(* registration handler that calls registerServer.                         *)
(***************************************************************************)
EXTENDS Integers, FiniteSets

CONSTANTS
    Conns,        \* Session objects (their session instant ids)
    ConnType,     \* ConnType[c] \in {"server", "user"}
    ConnServer,   \* ConnServer[c]: the logic server id a server session carries
    ServerIds, None, Crash

ASSUME ConnType \in [Conns -> {"server", "user"}]
ASSUME ConnServer \in [Conns -> ServerIds]

VARIABLES
    sstate,     \* m_session_state, or "absent" before construction
    sock,       \* the socket: "none", "connected", "started", "closed"
    stype,      \* m_session_type ("none" until setSessionType)
    baseSocket, \* m_base_socket != nullptr
    asio,       \* m_base_socket->asioSocket() != nullptr
    mgr,        \* m_session_manager != nullptr
    initRes,    \* what init() returned: "none", "ok", "fail"
    managed,    \* the sessions the SessionManager holds
    pending,    \* sessions whose notify_socket_closed is not handled yet
    regTried,   \* server sessions that have called registerServer
    logicId,    \* m_logic_server_id (uint16_t)
    objects, busy, users, dedicated, ret   \* the ServerBalancer

sbVars == <<objects, busy, users, dedicated, ret>>
sessVars == <<sstate, sock, stype, baseSocket, asio, mgr, initRes, managed,
              pending, regTried, logicId>>
vars == <<sessVars, sbVars>>

\* The registry: a ServerBalancer with no user counts to speak of (every
\* object reports 0 users, under a base line of 1).
SB == INSTANCE ServerBalancer WITH MaxUsers <- 0, BaseFillUserCount <- 1,
                                   SettableLevels <- {}

\* session_state_e::type (Session.h 6-16)
SessionStates == {"session_closed", "session_init", "session_established",
                  "session_certified", "session_logged_out"}

-----------------------------------------------------------------------------
Init ==
    /\ sstate = [c \in Conns |-> "absent"]
    /\ sock = [c \in Conns |-> "none"]
    /\ stype = [c \in Conns |-> "none"]
    /\ baseSocket = [c \in Conns |-> FALSE]
    /\ asio = [c \in Conns |-> FALSE]
    /\ mgr = [c \in Conns |-> FALSE]
    /\ initRes = [c \in Conns |-> "none"]
    /\ managed = {}
    /\ pending = {}
    /\ regTried = {}
    /\ logicId = [c \in Conns |-> 0]
    /\ SB!Init

\* setSocket(socket): m_base_socket = socket, with the session itself.
SetSocket(c) == baseSocket' = [baseSocket EXCEPT ![c] = TRUE]

\* Session(instant_id, io_context, sock, logger): setSocket(this), so the
\* base socket is set; the tcp socket passed in may be empty.
Construct(c) ==
    /\ sstate[c] = "absent"
    /\ sstate' = [sstate EXCEPT ![c] = "session_init"]
    /\ sock' = [sock EXCEPT ![c] = "connected"]
    /\ SetSocket(c)
    /\ \E a \in BOOLEAN : asio' = [asio EXCEPT ![c] = a]
    /\ UNCHANGED <<logicId, stype, mgr, initRes, managed, pending, regTried, sbVars>>

\* Session(void): no socket at all, m_base_socket stays nullptr.
ConstructDefault(c) ==
    /\ sstate[c] = "absent"
    /\ sstate' = [sstate EXCEPT ![c] = "session_init"]
    /\ UNCHANGED <<logicId, sock, stype, baseSocket, asio, mgr, initRes, managed,
                   pending, regTried, sbVars>>

\* init(session_manager) and afterInitSession(): fail at once without a
\* base socket; with a tcp socket, mark the session established, then
\* return early, before the manager pointer is stored, if setSocketOptions
\* fails (optionsOk is its result).
InitSession(c, optionsOk) ==
    /\ sstate[c] # "absent" /\ initRes[c] = "none"
    /\ LET ok == baseSocket[c] /\ (asio[c] => optionsOk) IN
       /\ initRes' = [initRes EXCEPT ![c] = IF ok THEN "ok" ELSE "fail"]
       /\ mgr' = [mgr EXCEPT ![c] = ok]
    /\ sstate' = IF baseSocket[c] /\ asio[c]
                 THEN [sstate EXCEPT ![c] = "session_established"] ELSE sstate
    /\ UNCHANGED <<logicId, sock, stype, baseSocket, asio, managed, pending, regTried,
                   sbVars>>

\* The SessionManager inserts a session whose init() succeeded, then calls
\* afterAddToManager(): setSockState(CONNECTED) and startSocket, which
\* starts the reads that end in onClose().
AfterAddToManager(c) ==
    /\ initRes[c] = "ok" /\ sock[c] = "connected"
    /\ managed' = managed \cup {c}
    /\ sock' = [sock EXCEPT ![c] = "started"]
    /\ UNCHANGED <<logicId, sstate, stype, baseSocket, asio, mgr, initRes, pending,
                   regTried, sbVars>>

\* setSessionType, called once the peer has said who it is.
SetSessionType(c) ==
    /\ sock[c] = "started" /\ stype[c] = "none"
    /\ stype' = [stype EXCEPT ![c] = ConnType[c]]
    /\ UNCHANGED <<logicId, sstate, sock, baseSocket, asio, mgr, initRes, managed,
                   pending, regTried, sbVars>>

\* setCertified: setSessionState(session_certified), with no check of the
\* current state.
SetCertified(c) ==
    /\ sock[c] = "started"
    /\ sstate' = [sstate EXCEPT ![c] = "session_certified"]
    /\ UNCHANGED <<logicId, sock, stype, baseSocket, asio, mgr, initRes, managed,
                   pending, regTried, sbVars>>

\* A logic server session registers its server id; registerServer rejects
\* an id already registered, and nothing retries.
RegisterLogicServer(c) ==
    /\ sock[c] = "started" /\ stype[c] = "server" /\ c \notin regTried
    /\ regTried' = regTried \cup {c}
    /\ IF SB!FindObject(ConnServer[c]) THEN UNCHANGED sbVars
                                       ELSE SB!RegisterServer(ConnServer[c], 0)
    /\ UNCHANGED <<logicId, sstate, sock, stype, baseSocket, asio, mgr, initRes,
                   managed, pending>>

\* onClose(): mark the session closed, post notify_socket_closed with its
\* session id, and remove it from the manager if init() stored one.
OnClose(c) ==
    /\ sock[c] = "started"
    /\ sock' = [sock EXCEPT ![c] = "closed"]
    /\ sstate' = [sstate EXCEPT ![c] = "session_closed"]
    /\ pending' = pending \cup {c}
    /\ managed' = IF mgr[c] THEN managed \ {c} ELSE managed
    /\ UNCHANGED <<logicId, stype, baseSocket, asio, mgr, initRes, regTried, sbVars>>

\* network_notify_socket_closed_4session::process(): for a server session,
\* unregisterServer(server_id) and notifyUnregisterServer; for a user
\* session, req_client_unregister to its logic server; then
\* deleteUserBySessionId.  The session type is read when the notification
\* is handled.  Messages to other servers and the user manager are outside
\* the model.
HandleSocketClosed(c) ==
    /\ c \in pending
    /\ pending' = pending \ {c}
    /\ IF stype[c] = "server" THEN SB!UnregisterServer(ConnServer[c])
                              ELSE UNCHANGED sbVars
    /\ UNCHANGED <<logicId, sstate, sock, stype, baseSocket, asio, mgr, initRes,
                   managed, regTried>>

\* network_notify_user_session_info::process(): a logic server reports the
\* ids of a client session, looked up by its channel session id; the
\* handler fails (and reports the error back) when the SessionManager no
\* longer holds the session, e.g. because it closed meanwhile.  The int32_t
\* logic server id is stored as uint16_t.  The zone, community, guild and
\* user ids are copied the same way and are left out.
UserSessionInfo(c, lid) ==
    /\ c \in managed
    /\ logicId' = [logicId EXCEPT ![c] = SB!UInt16(lid)]
    /\ UNCHANGED <<sstate, sock, stype, baseSocket, asio, mgr, initRes,
                   managed, pending, regTried, sbVars>>

\* A session is placed by alloc() (empty-registry alloc is checked in the
\* ServerBalancer runs).
Alloc ==
    /\ SB!AllocDedicated \/ SB!AllocSorted
    /\ UNCHANGED sessVars

Next ==
    \/ \E c \in Conns :
          \/ Construct(c) \/ ConstructDefault(c)
          \/ \E o \in BOOLEAN : InitSession(c, o)
          \/ AfterAddToManager(c) \/ SetSessionType(c) \/ SetCertified(c)
          \/ RegisterLogicServer(c) \/ OnClose(c) \/ HandleSocketClosed(c)
          \/ \E s \in ServerIds : UserSessionInfo(c, s)
    \/ Alloc

\* The handler thread processes every posted notification.  Peers, the
\* manager and alloc callers are not obliged to do anything.
Fairness == \A c \in Conns : WF_vars(HandleSocketClosed(c))

Spec == Init /\ [][Next]_vars /\ Fairness

-----------------------------------------------------------------------------
(* Properties                                                              *)

TypeOK ==
    /\ sstate \in [Conns -> SessionStates \cup {"absent"}]
    /\ sock \in [Conns -> {"none", "connected", "started", "closed"}]
    /\ stype \in [Conns -> {"none", "server", "user"}]
    /\ initRes \in [Conns -> {"none", "ok", "fail"}]
    /\ managed \subseteq Conns /\ pending \subseteq Conns
    /\ regTried \subseteq Conns
    /\ logicId \in [Conns -> 0..(2^16 - 1)]
    /\ SB!TypeOK

\* Server ids with a session that is still open, or whose close has not
\* been handled yet.
LiveServers ==
    { ConnServer[c] : c \in { d \in Conns : stype[d] = "server"
                                           /\ (sock[d] = "started"
                                               \/ d \in pending) } }

\* The dedicated object, which alloc() hands out without sorting, is always
\* a logic server that is still connected or whose disconnect is still on
\* its way: the close handler's unregisterServer resets it.
DedicatedOnlyLive == dedicated # None => dedicated \in LiveServers

\* A logic server whose every connection has closed is eventually removed
\* from the balancer by the close handler.
AllClosed(s) ==
    \A c \in Conns : ConnType[c] = "server" /\ ConnServer[c] = s
                        => sock[c] = "closed"
DisconnectedServerUnregistered ==
    \A s \in ServerIds : AllClosed(s) ~> ~SB!FindObject(s)

\* Spec section 2: a logic server is registered on connect and unregistered
\* on disconnect.  So once every close has been handled, each server
\* session that is open and has registered finds its server id registered.
ConnectedServerRegistered ==
    pending = {} =>
        \A c \in regTried : sock[c] = "started" => SB!FindObject(ConnServer[c])

=============================================================================
