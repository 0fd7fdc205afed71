--------------------------- MODULE LoadBalancing ---------------------------
(***************************************************************************)
(* Tier propagation: one server's BusyLevel classifier, the reporting      *)
(* threads that call its decide(), and the ServerBalancer entry the        *)
(* classifier's level is copied into.                                      *)
(*                                                                         *)
(* The forwarding code is not in the repository.  Spec sections 2 and 6:   *)
(* the caller of decide() calls setTier(key, tier), i.e.                   *)
(* changeServerBusyLevel(server_id, currentBusyLevel()), whenever decide() *)
(* returns true.  decide() returns only a boolean, so the caller reads the *)
(* level again (ReadLevel) and then calls the balancer (ApplyLevel): two   *)
(* steps, with nothing holding the classifier between them.                *)
(*                                                                         *)
(* The classifier belongs to the balance target (spec section 2), so both  *)
(* start together: the server is registered at BUSY_IDLE and the           *)
(* classifier is freshly constructed.  The server may disconnect, and its  *)
(* reporting threads may still be deciding and forwarding after that.      *)
(***************************************************************************)
EXTENDS Integers, Sequences, BusyLevelType

CONSTANTS
    Threads, Samples, Params, MaxDatas, MaxSetups,  \* of the classifier
    Server,     \* the int32_t server id of the balance target
    None, Crash

VARIABLES
    datas, sampleCount, decideMethod, useLog, busyValue, toGoodValue, level,
    recentAvg, outlier, pc, avg, backup, next, sample, setupPc, setupParam,
    setups, refLevel,
    decided,    \* decided[t]: what t's last decide() returned (BusyLevel's ret)
    objects, busy, users, dedicated,
    allocRet,   \* the balancer's last alloc() result (ServerBalancer's ret)
    fwd,        \* fwd[t]: "none", or where t is in forwarding a change
    fwdLevel    \* fwdLevel[t]: the level t read to forward

BL == INSTANCE BusyLevel WITH ret <- decided
SB == INSTANCE ServerBalancer WITH ret <- allocRet, ServerIds <- {Server},
                                   MaxUsers <- 0, BaseFillUserCount <- 0,
                                   SettableLevels <- {}

blVars == <<datas, sampleCount, decideMethod, useLog, busyValue, toGoodValue,
            level, recentAvg, outlier, pc, avg, backup, next, sample, setupPc,
            setupParam, setups, refLevel, decided>>
sbVars == <<objects, busy, users, dedicated, allocRet>>
vars == <<blVars, sbVars, fwd, fwdLevel>>

-----------------------------------------------------------------------------
\* A constructed classifier, and the registry registerServer leaves after
\* the server connects: its object alone, at BUSY_IDLE.
Init ==
    /\ BL!Init
    /\ objects = <<Server>>
    /\ busy = [s \in {Server} |-> BUSY_IDLE]
    /\ users = [s \in {Server} |-> 0]
    /\ dedicated = None
    /\ allocRet = None
    /\ fwd = [t \in Threads |-> "none"]
    /\ fwdLevel = [t \in Threads |-> BUSY_IDLE]

\* Steps of the classifier alone; a thread starts a decide() only once it
\* has forwarded the previous change.
Classifier ==
    /\ \/ \E p \in Params : BL!Setup(p)
       \/ BL!SetupStep
       \/ \E v \in Samples : BL!SetOutlier(v)
       \/ \E t \in Threads :
             /\ fwd[t] = "none"
             /\ \/ BL!DecideInvalid(t)
                \/ \E v \in Samples : BL!DecidePush(t, v)
       \/ \E t \in Threads : BL!DecideClassify(t)
    /\ UNCHANGED <<sbVars, fwd, fwdLevel>>

\* decide() returns; the caller goes on to forward the level if it changed.
Commit(t) ==
    /\ BL!DecideCommit(t)
    /\ fwd' = [fwd EXCEPT ![t] = IF decided'[t] THEN "read" ELSE "none"]
    /\ UNCHANGED <<sbVars, fwdLevel>>

\* The caller forwarding the level decide() started from.
ReadLevelBackup(t) ==
    /\ fwd[t] = "read"
    /\ fwdLevel' = [fwdLevel EXCEPT ![t] = backup[t]]
    /\ fwd' = [fwd EXCEPT ![t] = "apply"]
    /\ UNCHANGED <<blVars, sbVars>>

\* currentBusyLevel(): the caller reads the classifier's level.
ReadLevel(t) ==
    /\ fwd[t] = "read"
    /\ fwdLevel' = [fwdLevel EXCEPT ![t] = level]
    /\ fwd' = [fwd EXCEPT ![t] = "apply"]
    /\ UNCHANGED <<blVars, sbVars>>

\* changeServerBusyLevel(server_id, level): a no-op when no object is
\* registered under the (truncated) id.
ApplyLevel(t) ==
    /\ fwd[t] = "apply"
    /\ \/ SB!ChangeServerBusyLevel(Server, fwdLevel[t])
       \/ ~SB!FindObject(SB!UInt16(Server)) /\ UNCHANGED sbVars
    /\ fwd' = [fwd EXCEPT ![t] = "none"]
    /\ UNCHANGED <<blVars, fwdLevel>>

\* The server disconnects and the close handler unregisters it; the
\* reporting threads may still be running decide() or forwarding.
Disconnect ==
    /\ SB!UnregisterServer(Server)
    /\ UNCHANGED <<blVars, fwd, fwdLevel>>

Next ==
    \/ Classifier
    \/ Disconnect
    \/ \E t \in Threads : Commit(t) \/ ReadLevel(t) \/ ApplyLevel(t)

\* The reporting threads are fair as in BusyLevel, and a started
\* forwarding finishes.
Fairness ==
    /\ WF_vars(BL!SetupStep /\ UNCHANGED <<sbVars, fwd, fwdLevel>>)
    /\ \A t \in Threads :
        /\ WF_vars(fwd[t] = "none" /\ \E v \in Samples : BL!DecidePush(t, v)
                   /\ UNCHANGED <<sbVars, fwd, fwdLevel>>)
        /\ WF_vars(BL!DecideClassify(t) /\ UNCHANGED <<sbVars, fwd, fwdLevel>>)
        /\ WF_vars(Commit(t))
        /\ WF_vars(ReadLevel(t))
        /\ WF_vars(ApplyLevel(t))

Spec == Init /\ [][Next]_vars /\ Fairness

-----------------------------------------------------------------------------
(* Properties                                                              *)

TypeOK ==
    /\ BL!TypeOK
    /\ SB!TypeOK
    /\ fwd \in [Threads -> {"none", "read", "apply"}]
    /\ fwdLevel \in [Threads -> BusyLevels]

\* No decide() or forwarding in progress.
Quiet == \A t \in Threads : pc[t] = "idle" /\ fwd[t] = "none"

\* Spec section 3: a target's tier mirrors its classifier's current tier.
\* Whenever the server is registered and no decide() and no forwarding is
\* under way, the balancer's level for the server is the classifier's.
MirrorsWhenQuiet == Quiet /\ SB!FindObject(Server) => busy[Server] = level

\* Once the classifier's level stays put while the server stays
\* registered, the balancer eventually holds it for good: every change
\* decide() reports reaches changeServerBusyLevel.
BalancerFollows ==
    \A l \in BusyLevels :
        <>[](level = l /\ SB!FindObject(Server)) => <>[](busy[Server] = l)

=============================================================================
