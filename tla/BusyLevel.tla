----------------------------- MODULE BusyLevel -----------------------------
(***************************************************************************)
(* The congestion classifier BusyLevel of src/cpp/BusyLevel.{h,cpp}.       *)
(*                                                                         *)
(* decide() is called by several reporting threads.  Only the sample list  *)
(* is under m_datas_mutex; the busy-level switch reads and writes          *)
(* m_current_busy_level with no lock.  A call is therefore three steps of  *)
(* its thread:                                                             *)
(*   DecidePush     lines 69-88    push, evict, average (under the lock)   *)
(*   DecideClassify lines 90-203   log flush, read the level, run the      *)
(*                                 switch on it                            *)
(*   DecideCommit   lines 149-206  store the new level, return changed     *)
(* Another thread's steps may fall between them.                           *)
(*                                                                         *)
(* Samples and thresholds are floats in the code; here they are integers   *)
(* and an average total/N is kept as the exact fraction [num, den], so a   *)
(* comparison is exact (float rounding is not modelled).  IEEE division by *)
(* zero is kept: total/0 is +inf when total > 0 and NaN when it is 0.  In  *)
(* PERCENT mode a configured fraction is given in hundredths (0.8 is 80).  *)
(* refLevel is a history variable of the properties, not state of the     *)
(* program.                                                                *)
(***************************************************************************)
EXTENDS Integers, Sequences, SequencesExt, BusyLevelType

CONSTANTS
    Threads,   \* reporting threads calling decide()
    Samples,   \* load values passed to decide() and setOutlier()
    Params,    \* BusyLevelParam records setup() may be called with
    MaxDatas,  \* bound on the sample list, for TLC (the code has none)
    MaxSetups  \* bound on the setup() calls (spec section 3: configured once)

VALUE   == 0   \* decide_method_e::VALUE
PERCENT == 1   \* decide_method_e::PERCENT

\* sample[t] of a thread with no decide() in progress.
NoCall == -1

\* DEFAULT_BUSYLEVEL_DATA_MAX_COUNT of the constructor.
DefaultSampleCount == 20

\* The levels a configured value exists for (m_busyValue / m_toGoodValue).
ValueLevels == {BUSY_FATAL, BUSY_ERROR, BUSY_WARN, BUSY_IDLE}
ToGoodLevels == {BUSY_FATAL, BUSY_ERROR, BUSY_WARN}

ASSUME Samples \subseteq Nat
ASSUME MaxDatas \in Nat \ {0}
ASSUME MaxSetups \in Nat
ASSUME \A p \in Params :
    /\ p.decideType \in {VALUE, PERCENT}
    /\ p.sampleCount \in Nat
    /\ p.useLog \in BOOLEAN
    /\ p.busy \in [ValueLevels -> Nat]
    /\ p.toGood \in [ToGoodLevels -> Nat]

VARIABLES
    datas,         \* m_datas
    sampleCount,   \* m_sample_count
    decideMethod,  \* m_decide_method
    useLog,        \* m_useLog
    busyValue,     \* m_busyValue
    toGoodValue,   \* m_toGoodValue
    level,         \* m_current_busy_level
    recentAvg,     \* m_recent_average_value
    outlier,       \* m_outlier
    pc,            \* pc[t]: where thread t is in decide()
    avg,           \* avg[t]: local averageValue
    backup,        \* backup[t]: local backupBusyLevel
    next,          \* next[t]: the level the switch computed
    ret,           \* ret[t]: what t's last decide() returned
    sample,        \* sample[t]: the value of t's decide() in progress
    setupPc,       \* the next setter call of a running setup(), 0 if none
    setupParam,    \* the BusyLevelParam that setup() is applying
    setups,        \* how many setup() calls have started
    refLevel       \* history: spec table applied to every classified average

vars == <<datas, sampleCount, decideMethod, useLog, busyValue, toGoodValue,
          level, recentAvg, outlier, pc, avg, backup, next, ret, sample,
          setupPc, setupParam, setups, refLevel>>

\* BusyLevelParam as setup() reads it: m_decideType is a uchar_t cast to
\* decide_method_e (any value other than PERCENT classifies as VALUE), the
\* four entry values and three recovery values are keyed by level.  The
\* log interval and the session/fatal action flags are never read by
\* decide() and are left out.
BusyLevelParam ==
    [decideType : 0..255, sampleCount : Int, useLog : BOOLEAN,
     busy : [ValueLevels -> Int], toGood : [ToGoodLevels -> Int]]

ASSUME Params \subseteq BusyLevelParam

\* The configuration fields setup() writes and decide() reads.
configVars == <<sampleCount, decideMethod, useLog, busyValue, toGoodValue>>

-----------------------------------------------------------------------------
(* Arithmetic on averages and bounds                                       *)

\* totalValue / m_sample_count as a fraction.
Average(list, n) == [num |-> FoldSeq(LAMBDA x, y : x + y, 0, list), den |-> n]

\* a > b for an average a and a bound b (b.den > 0), with IEEE semantics
\* for a.den = 0: +inf is above every bound, NaN above none.
Gt(a, b) == IF a.den = 0 THEN a.num > 0
                         ELSE a.num * b.den > b.num * a.den

\* a <= b: false for +inf and for NaN.
Leq(a, b) == a.den # 0 /\ a.num * b.den <= b.num * a.den

\* isValid(): the FATAL value must be configured.
IsValid == busyValue[BUSY_FATAL] # 0

\* A configured value as the bound the switch uses (lines 111-139): scaled
\* by the FATAL value in PERCENT mode, used as is otherwise.
Scaled(v) == IF decideMethod = PERCENT
             THEN [num |-> busyValue[BUSY_FATAL] * v, den |-> 100]
             ELSE [num |-> v, den |-> 1]
BusyBound(l) == Scaled(busyValue[l])
ToIdleBound(l) == Scaled(toGoodValue[l])

-----------------------------------------------------------------------------
(* The busy-level switch, lines 143-203                                    *)

\* case BUSY_IDLE (lines 145-160): escalate to the band of the average.
IdleCase(a) ==
    IF Gt(a, BusyBound(BUSY_ERROR)) THEN BUSY_FATAL
    ELSE IF Gt(a, BusyBound(BUSY_WARN)) /\ Leq(a, BusyBound(BUSY_ERROR))
         THEN BUSY_ERROR
    ELSE IF Gt(a, BusyBound(BUSY_IDLE)) /\ Leq(a, BusyBound(BUSY_WARN))
         THEN BUSY_WARN
    ELSE BUSY_IDLE

\* case BUSY_WARN recovering at the WARN entry value instead of its
\* to-good value.
WarnCaseRecoverAtEntry(a) ==
    IF Gt(a, BusyBound(BUSY_ERROR)) THEN BUSY_FATAL
    ELSE IF Gt(a, BusyBound(BUSY_WARN)) /\ Leq(a, BusyBound(BUSY_ERROR))
         THEN BUSY_ERROR
    ELSE IF Leq(a, BusyBound(BUSY_WARN)) THEN BUSY_IDLE
    ELSE BUSY_WARN

\* case BUSY_WARN (lines 162-177): escalate, or recover to IDLE.
WarnCase(a) ==
    IF Gt(a, BusyBound(BUSY_ERROR)) THEN BUSY_FATAL
    ELSE IF Gt(a, BusyBound(BUSY_WARN)) /\ Leq(a, BusyBound(BUSY_ERROR))
         THEN BUSY_ERROR
    ELSE IF Leq(a, ToIdleBound(BUSY_WARN)) THEN BUSY_IDLE
    ELSE BUSY_WARN

\* case BUSY_ERROR recovering at the WARN to-good value.
ErrorCaseWarnToIdle(a) ==
    IF Gt(a, BusyBound(BUSY_ERROR)) THEN BUSY_FATAL
    ELSE IF Leq(a, ToIdleBound(BUSY_WARN)) THEN BUSY_IDLE
    ELSE BUSY_ERROR

\* case BUSY_ERROR (lines 179-190): escalate to FATAL, or recover to IDLE;
\* there is no step down to WARN.
ErrorCase(a) ==
    IF Gt(a, BusyBound(BUSY_ERROR)) THEN BUSY_FATAL
    ELSE IF Leq(a, ToIdleBound(BUSY_ERROR)) THEN BUSY_IDLE
    ELSE BUSY_ERROR

\* case BUSY_FATAL (lines 192-199): only recovery to IDLE.
FatalCase(a) ==
    IF Leq(a, ToIdleBound(BUSY_FATAL)) THEN BUSY_IDLE ELSE BUSY_FATAL

\* The level the switch (lines 143-203) leaves after reading cur with
\* average a.  Other levels (SHUTDOWN, INTERNAL_BUSY_IDLE) hit "default".
Transition(cur, a) ==
    CASE cur = BUSY_IDLE  -> IdleCase(a)
      [] cur = BUSY_WARN  -> WarnCase(a)
      [] cur = BUSY_ERROR -> ErrorCase(a)
      [] cur = BUSY_FATAL -> FatalCase(a)
      [] OTHER            -> cur

-----------------------------------------------------------------------------
(* The transition table of spec section 4.1, as a reference.  Tiers are    *)
(* ranked IDLE < WARN < ERROR < FATAL; an average's band is the highest    *)
(* tier whose entry bound it exceeds.  A band above the current tier is    *)
(* entered directly; otherwise a tier other than IDLE falls back to IDLE   *)
(* at or below its recovery bound.                                         *)

Rank == [l \in ClassifierLevels |->
            CASE l = BUSY_IDLE -> 0 [] l = BUSY_WARN -> 1
              [] l = BUSY_ERROR -> 2 [] l = BUSY_FATAL -> 3]

EntryBound == [l \in {BUSY_WARN, BUSY_ERROR, BUSY_FATAL} |->
                  CASE l = BUSY_WARN  -> BusyBound(BUSY_IDLE)
                    [] l = BUSY_ERROR -> BusyBound(BUSY_WARN)
                    [] l = BUSY_FATAL -> BusyBound(BUSY_ERROR)]

Band(a) ==
    LET above == {BUSY_IDLE} \cup {l \in DOMAIN EntryBound : Gt(a, EntryBound[l])}
    IN  CHOOSE l \in above : \A m \in above : Rank[m] <= Rank[l]

RefTable(cur, a) ==
    IF Rank[Band(a)] > Rank[cur] THEN Band(a)
    ELSE IF cur # BUSY_IDLE /\ Leq(a, ToIdleBound(cur)) THEN BUSY_IDLE
    ELSE cur

-----------------------------------------------------------------------------
(* Operations                                                              *)

\* The state the constructor (BusyLevel.cpp lines 12-35) leaves, with the
\* current level drawn from initialLevels: VALUE mode, 20 samples, every
\* threshold 0 (so not valid until setup).
Constructed(initialLevels) ==
    /\ datas = <<>>
    /\ sampleCount = DefaultSampleCount
    /\ decideMethod = VALUE
    /\ useLog = TRUE
    /\ busyValue = [l \in ValueLevels |-> 0]
    /\ toGoodValue = [l \in ToGoodLevels |-> 0]
    /\ level \in initialLevels
    /\ recentAvg = [num |-> 0, den |-> 1]
    /\ outlier = 0
    /\ pc = [t \in Threads |-> "idle"]
    /\ avg = [t \in Threads |-> [num |-> 0, den |-> 1]]
    /\ backup = [t \in Threads |-> BUSY_IDLE]
    /\ next = [t \in Threads |-> BUSY_IDLE]
    /\ ret = [t \in Threads |-> FALSE]
    /\ sample = [t \in Threads |-> NoCall]
    /\ setupPc = 0
    /\ setupParam \in Params
    /\ setups = 0
    /\ refLevel = BUSY_IDLE

\* The constructor with m_current_busy_level left uninitialised.
InitLevelUninitialised == Constructed(BusyLevels \cup {0})

\* The constructor: m_current_busy_level = BUSY_IDLE.
Init == Constructed({BUSY_IDLE})

\* The public setters, each one unlocked store into the configuration.
SetSampleCount(n) ==
    /\ sampleCount' = n
    /\ UNCHANGED <<decideMethod, useLog, busyValue, toGoodValue>>
SetDecideType(m) ==
    /\ decideMethod' = m
    /\ UNCHANGED <<sampleCount, useLog, busyValue, toGoodValue>>
SetLog(u) ==
    /\ useLog' = u
    /\ UNCHANGED <<sampleCount, decideMethod, busyValue, toGoodValue>>
SetBusyValue(l, v) ==
    /\ busyValue' = [busyValue EXCEPT ![l] = v]
    /\ UNCHANGED <<sampleCount, decideMethod, useLog, toGoodValue>>
SetToGoodValue(l, v) ==
    /\ toGoodValue' = [toGoodValue EXCEPT ![l] = v]
    /\ UNCHANGED <<sampleCount, decideMethod, useLog, busyValue>>

\* setup(param) is ten setter calls, in this order (lines 44-55); the
\* useSessionAction/useFatalAction stores after them are never read.
SetupCalls == 10
SetupCall(i, p) ==
    CASE i = 1 -> SetSampleCount(p.sampleCount)
      [] i = 2 -> SetDecideType(p.decideType)
      [] i = 3 -> SetLog(p.useLog)
      [] i = 4 -> SetBusyValue(BUSY_FATAL, p.busy[BUSY_FATAL])
      [] i = 5 -> SetBusyValue(BUSY_ERROR, p.busy[BUSY_ERROR])
      [] i = 6 -> SetBusyValue(BUSY_WARN, p.busy[BUSY_WARN])
      [] i = 7 -> SetBusyValue(BUSY_IDLE, p.busy[BUSY_IDLE])
      [] i = 8 -> SetToGoodValue(BUSY_FATAL, p.toGood[BUSY_FATAL])
      [] i = 9 -> SetToGoodValue(BUSY_ERROR, p.toGood[BUSY_ERROR])
      [] i = 10 -> SetToGoodValue(BUSY_WARN, p.toGood[BUSY_WARN])

\* setup(param) is called (by one configuring thread at a time) and makes
\* its first setter call; the sample list and the level are kept.
Setup(p) ==
    /\ setupPc = 0 /\ setups < MaxSetups
    /\ SetupCall(1, p)
    /\ setupPc' = 2
    /\ setupParam' = p
    /\ setups' = setups + 1
    /\ UNCHANGED <<datas, level, recentAvg, outlier, pc, avg, backup, next,
                   ret, sample, refLevel>>

\* The next setter call of the running setup(); decide() steps of other
\* threads may fall between any two of them.
SetupStep ==
    /\ setupPc # 0
    /\ SetupCall(setupPc, setupParam)
    /\ setupPc' = IF setupPc = SetupCalls THEN 0 ELSE setupPc + 1
    /\ UNCHANGED <<datas, level, recentAvg, outlier, pc, avg, backup, next,
                   ret, sample, setupParam, setups, refLevel>>

\* decide() before setup (lines 63-67): not valid, return false.
DecideInvalid(t) ==
    /\ pc[t] = "idle"
    /\ ~IsValid
    /\ ret' = [ret EXCEPT ![t] = FALSE]
    /\ UNCHANGED <<datas, sample, configVars, level, recentAvg, outlier, pc,
                   avg, backup, next, setupPc, setupParam, setups, refLevel>>

\* The eviction dropping the newest entry (pop_back) instead of the oldest.
EvictPopBack(pushed) ==
    IF Len(pushed) = sampleCount + 1 THEN SubSeq(pushed, 1, sampleCount)
    ELSE pushed

\* After push_back: pop_front only when the list has exactly
\* m_sample_count + 1 entries (lines 75-79).
Evict(pushed) ==
    IF Len(pushed) = sampleCount + 1 THEN Tail(pushed) ELSE pushed

\* decide(), the block under m_datas_mutex (lines 69-88): push_back,
\* evict, and divide the total by m_sample_count, not by the list length.
DecidePush(t, v) ==
    /\ pc[t] = "idle"
    /\ IsValid
    /\ Len(datas) < MaxDatas
    /\ datas' = Evict(Append(datas, v))
    /\ avg' = [avg EXCEPT ![t] = Average(datas', sampleCount)]
    /\ recentAvg' = Average(datas', sampleCount)
    /\ sample' = [sample EXCEPT ![t] = v]
    /\ pc' = [pc EXCEPT ![t] = "classify"]
    /\ UNCHANGED <<configVars, level, outlier, backup, next, ret, setupPc,
                   setupParam, setups, refLevel>>

\* decide(), lines 90-203 up to the store: when logging and the interval
\* has elapsed (time is not modelled, so either may hold) the outlier is
\* logged and reset under m_outlier_mutex; then backupBusyLevel and the
\* switch read m_current_busy_level, unlocked, and the thresholds of the
\* current configuration.
DecideClassify(t) ==
    /\ pc[t] = "classify"
    /\ \/ useLog /\ outlier' = 0
       \/ UNCHANGED outlier
    /\ backup' = [backup EXCEPT ![t] = level]
    /\ next' = [next EXCEPT ![t] = Transition(level, avg[t])]
    /\ refLevel' = RefTable(refLevel, avg[t])
    /\ pc' = [pc EXCEPT ![t] = "commit"]
    /\ UNCHANGED <<datas, sample, configVars, level, recentAvg, avg, ret,
                   setupPc, setupParam, setups>>

\* decide(), the assignment in the branch taken (if any) and line 206:
\* changed = (backupBusyLevel != m_current_busy_level).
DecideCommit(t) ==
    /\ pc[t] = "commit"
    /\ level' = IF next[t] # backup[t] THEN next[t] ELSE level
    /\ ret' = [ret EXCEPT ![t] = backup[t] # level']
    /\ pc' = [pc EXCEPT ![t] = "idle"]
    /\ sample' = [sample EXCEPT ![t] = NoCall]
    /\ UNCHANGED <<datas, configVars, recentAvg, outlier, avg, backup, next,
                   setupPc, setupParam, setups, refLevel>>

\* setOutlier (lines 209-213): running maximum under m_outlier_mutex.
SetOutlier(v) ==
    /\ outlier' = IF v > outlier THEN v ELSE outlier
    /\ UNCHANGED <<datas, sample, configVars, level, recentAvg, pc, avg, backup,
                   next, ret, setupPc, setupParam, setups, refLevel>>

Next ==
    \/ \E p \in Params : Setup(p)
    \/ SetupStep
    \/ \E t \in Threads :
          \/ DecideInvalid(t)
          \/ \E v \in Samples : DecidePush(t, v)
          \/ DecideClassify(t)
          \/ DecideCommit(t)
    \/ \E v \in Samples : SetOutlier(v)

Spec == Init /\ [][Next]_vars

\* The monitor loop (spec section 2) calls decide() on every thread
\* periodically, and a call that has started runs to its end, setup()'s
\* ten setter calls included; whether setup() and setOutlier() are called
\* at all is up to their callers.
Fairness ==
    /\ WF_vars(SetupStep)
    /\ \A t \in Threads :
        /\ WF_vars(\E v \in Samples : DecidePush(t, v))
        /\ WF_vars(DecideClassify(t))
        /\ WF_vars(DecideCommit(t))

LiveSpec == Spec /\ Fairness

-----------------------------------------------------------------------------
(* Properties                                                              *)

\* Types of the classifier's fields and of each thread's locals.
TypeOK ==
    /\ datas \in Seq(Samples)
    /\ level \in ClassifierLevels
    /\ refLevel \in ClassifierLevels
    /\ outlier \in Samples \cup {0}
    /\ pc \in [Threads -> {"idle", "classify", "commit"}]
    /\ backup \in [Threads -> ClassifierLevels]
    /\ next \in [Threads -> ClassifierLevels]
    /\ ret \in [Threads -> BOOLEAN]
    /\ sample \in [Threads -> Samples \cup {NoCall}]
    /\ setupPc \in 0..SetupCalls
    /\ setups \in 0..MaxSetups

\* Spec section 4.1: whenever no decide() is in progress, the current level
\* is what the section 4.1 transition table gives when applied, one call at
\* a time, to the averages the calls computed.
ConformsToTable == (\A t \in Threads : pc[t] = "idle") => level = refLevel

\* Spec section 8, hysteresis: the level leaves BUSY_FATAL only through the
\* FATAL recovery test, i.e. by a decide() whose switch read BUSY_FATAL.
FatalHysteresis ==
    [][\A t \in Threads :
         DecideCommit(t) /\ level = BUSY_FATAL /\ level' # BUSY_FATAL
            => backup[t] = BUSY_FATAL]_vars

\* The configuration decide() classifies with, and the one a whole setup(p)
\* installs.
Config == [n |-> sampleCount, method |-> decideMethod, busy |-> busyValue,
           toGood |-> toGoodValue]
ConfigOf(p) == [n |-> p.sampleCount, method |-> p.decideType, busy |-> p.busy,
                toGood |-> p.toGood]

\* Spec section 4.1: configure() replaces the configuration, and a sample taken
\* before it is configured is a no-op.  So a decide() that gets past the
\* isValid() gate classifies with a configuration some setup() call
\* installed as a whole, never with one that is half written.
ClassifiesWholeConfig ==
    \A t \in Threads :
        pc[t] = "classify" => Config \in {ConfigOf(p) : p \in Params}

\* A sample of no load at all.
NoLoad == 0

\* Spec section 4.1, recovery: once every reporting thread only reports no
\* load, each tier other than IDLE falls back to IDLE and the level stays
\* there, whatever the level and the sample list held when the load
\* stopped and however the threads interleave.
RecoversWhenIdle ==
    <>[](\A t \in Threads : sample[t] \in {NoCall, NoLoad})
        => <>[](level = BUSY_IDLE)

\* A steady load v fills the window with v, so every average is v.  The
\* spec's table then keeps re-entering and leaving one tier when the band
\* of v is a tier whose recovery bound v does not exceed: with the
\* documented idleBound = 0 and a positive warnToIdle, every load in
\* (0, warnToIdle] (spec section 4.1 calls this a sharp edge).
FlapsAt(v) ==
    LET a == [num |-> v, den |-> 1]
    IN  Band(a) # BUSY_IDLE /\ Leq(a, ToIdleBound(Band(a)))

\* Spec section 1, hysteresis against tier flapping: once setup() has
\* finished with a valid configuration and every decide() reports the same
\* load v outside that documented band, the level eventually stops
\* changing, whatever level and samples it started from.  The recovery
\* tests of the switch (lines 162-199) must sit below the entry tests.
SettlesUnderSteadyLoad ==
    \A v \in Samples :
        <>[](/\ IsValid /\ setupPc = 0 /\ ~FlapsAt(v)
             /\ \A t \in Threads : sample[t] \in {NoCall, v})
            => \E l \in ClassifierLevels : <>[](level = l)

\* A sample above the ERROR entry bound: a window full of them is FATAL.
FatalLoad(v) == Gt([num |-> v, den |-> 1], BusyBound(BUSY_ERROR))

\* Spec section 4.1, escalation: once setup() has finished with a valid
\* configuration and every thread only reports loads above the ERROR entry
\* bound, the level reaches FATAL and stays there.
EscalatesUnderLoad ==
    <>[](/\ IsValid /\ setupPc = 0
         /\ \A t \in Threads : sample[t] = NoCall \/ FatalLoad(sample[t]))
        => <>[](level = BUSY_FATAL)

====
