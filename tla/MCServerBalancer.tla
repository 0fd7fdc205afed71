------------------------- MODULE MCServerBalancer --------------------------
(***************************************************************************)
(* ServerBalancer instantiated for TLC: three servers, user counts 0..2    *)
(* around a base line of 2 (below, just below, at it), and the levels a    *)
(* classifier reports.  BUSY_FATAL is left out of the settable levels: the *)
(* balancer treats it exactly as BUSY_ERROR (both are below BUSY_WARN).    *)
(***************************************************************************)
EXTENDS ServerBalancer

MCServerIds == {1, 2, 3}
MCSettableLevels == {BUSY_ERROR, BUSY_WARN, BUSY_IDLE}

=============================================================================
