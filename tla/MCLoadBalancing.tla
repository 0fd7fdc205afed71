--------------------------- MODULE MCLoadBalancing ---------------------------
(***************************************************************************)
(* LoadBalancing for TLC: the spec's VALUE thresholds with a window of     *)
(* two samples, one setup() call, and loads that reach every tier.         *)
(***************************************************************************)
EXTENDS LoadBalancing, TLC

MCParams ==
    {[decideType |-> 0, sampleCount |-> 2, useLog |-> TRUE,
      busy |-> (BUSY_FATAL :> 100 @@ BUSY_ERROR :> 70 @@ BUSY_WARN :> 50
                @@ BUSY_IDLE :> 0),
      toGood |-> (BUSY_FATAL :> 60 @@ BUSY_ERROR :> 40 @@ BUSY_WARN :> 20)]}

\* Averages 0, 20, 40, 70, 90 and 140 over a window of two.
MCSamples == {0, 40, 140}

=============================================================================
