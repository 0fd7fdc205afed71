---------------------------- MODULE MCBusyLevel ----------------------------
(***************************************************************************)
(* BusyLevel instantiated for TLC.  The thresholds of the VALUE            *)
(* configuration are the worked scenario of spec section 8 (FATAL value    *)
(* 100); the PERCENT configuration gives FATAL 100 and fractions in        *)
(* hundredths.  A window of two samples drawn from {0, 10, 40, 80, 140}    *)
(* gives averages in every band and on both sides of every recovery bound  *)
(* of both configurations; a steady 10 flaps between IDLE and WARN under   *)
(* the VALUE thresholds (idleBound 0, warnToIdle 20) and settles under the *)
(* PERCENT ones.                                                           *)
(***************************************************************************)
EXTENDS BusyLevel

SpecValueParam ==
    [decideType |-> VALUE, sampleCount |-> 2, useLog |-> TRUE,
     busy |-> (BUSY_FATAL :> 100 @@ BUSY_ERROR :> 70 @@ BUSY_WARN :> 50
               @@ BUSY_IDLE :> 0),
     toGood |-> (BUSY_FATAL :> 60 @@ BUSY_ERROR :> 40 @@ BUSY_WARN :> 20)]

PercentParam ==
    [decideType |-> PERCENT, sampleCount |-> 2, useLog |-> FALSE,
     busy |-> (BUSY_FATAL :> 100 @@ BUSY_ERROR :> 80 @@ BUSY_WARN :> 60
               @@ BUSY_IDLE :> 10),
     toGood |-> (BUSY_FATAL :> 50 @@ BUSY_ERROR :> 30 @@ BUSY_WARN :> 5)]

\* Recovery from FATAL below the WARN entry bound, one-sample window.
LowFatalRecoveryParam ==
    [decideType |-> VALUE, sampleCount |-> 1, useLog |-> TRUE,
     busy |-> (BUSY_FATAL :> 100 @@ BUSY_ERROR :> 70 @@ BUSY_WARN :> 50
               @@ BUSY_IDLE :> 0),
     toGood |-> (BUSY_FATAL :> 20 @@ BUSY_ERROR :> 20 @@ BUSY_WARN :> 20)]

MCParams == {SpecValueParam, PercentParam}
MCSamples == {0, 10, 40, 80, 140}

\* Loads for the race: one below the WARN entry bound, one above ERROR.
RaceSamples == {40, 140}
RaceParams == {LowFatalRecoveryParam}

\* Two threads: a load that drives the level to FATAL, and no load.
RecoverySamples == {0, 140}
RecoveryParams == {SpecValueParam}

=============================================================================
