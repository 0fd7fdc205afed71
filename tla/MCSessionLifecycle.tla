------------------------- MODULE MCSessionLifecycle -------------------------
(***************************************************************************)
(* SessionLifecycle for TLC: logic server 1 connects twice (a restart and  *)
(* reconnect), and one user session is routed to it.  ConnServer of the   *)
(* user session names its logic server, so a close handler that took it   *)
(* for a server session would unregister server 1.                         *)
(***************************************************************************)
EXTENDS SessionLifecycle, TLC

CONSTANTS c1, c2, c3

MCConns == {c1, c2, c3}
MCConnType == (c1 :> "server" @@ c2 :> "server" @@ c3 :> "user")
MCConnServer == (c1 :> 1 @@ c2 :> 1 @@ c3 :> 1)
MCServerIds == {1}

=============================================================================
