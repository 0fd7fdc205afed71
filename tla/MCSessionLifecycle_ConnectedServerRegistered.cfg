CONSTANTS
    c1 = c1
    c2 = c2
    c3 = c3
    Conns <- MCConns
    ConnType <- MCConnType
    ConnServer <- MCConnServer
    ServerIds <- MCServerIds
    None = None
    Crash = Crash
SPECIFICATION Spec
CHECK_DEADLOCK FALSE
INVARIANT
    ConnectedServerRegistered
