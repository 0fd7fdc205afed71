CONSTANTS
    c1 = c1
    c2 = c2
    c3 = c3
    Conns <- MCConns
    ConnType <- MCConnType
    ConnServer <- MCConnServer
    ServerIds <- MCServerIds
    None = None
    Crash = Crash
SPECIFICATION Spec
\* Every session may close and have its close handled, after which the
\* process has nothing left to do.
CHECK_DEADLOCK FALSE
INVARIANTS
    TypeOK
    DedicatedOnlyLive
PROPERTIES
    DisconnectedServerUnregistered
