# TLA+ models of the busy-level classifier and the game-server balancer

This directory models the admission-control core of `src/cpp`: the congestion
classifier `BusyLevel`, which turns load samples into a busy level; the placement
allocator `ServerBalancer`, which picks the game server for a new session; and the
session lifecycle (`Session` and the socket-closed handler), composed with the
allocator it unregisters servers from; and the propagation of a classifier's
level into the allocator (`LoadBalancing`). It also records what is not modelled yet,
and in what order it will be.

## 1. Inventory

| Component | Source | State it keeps | Operations that change state |
|---|---|---|---|
| `BusyLevel_e` | `BusyLevel.h` 17-53 | enum with values `SHUTDOWN=1, INTERNAL_BUSY_IDLE=2, BUSY_FATAL=3, BUSY_ERROR=4, BUSY_WARN=5, BUSY_IDLE=6` | none |
| Congestion classifier `BusyLevel` | `BusyLevel.h` 98-210, `BusyLevel.cpp` | sample list `m_datas`, `m_sample_count`, method VALUE/PERCENT, thresholds `m_busyValue[]` and `m_toGoodValue[]`, `m_current_busy_level`, `m_recent_average_value`, `m_outlier`, log timer, two spin mutexes | constructor, `setup`, the setters, `decide`, `setOutlier` |
| Placement allocator `ServerBalancer<BALANCE_OBJECT>` | `ServerBalancer.h` | vector `m_balance_objects`, sticky `m_dedicated_object`, `m_base_fill_user_count` (200) | `registerServer`, `unregisterServer`, `changeServerBusyLevel`, `alloc` |
| Balance object (server record) | not in the repository | `balanceKeyServerId`, `balanceKeyUserCount`, `m_busy_level` | the user count changes as sessions come and go |
| `Session` | `Session.h`, `Session.cpp` | session state (init, established, certified, closed, logged out), ids, manager pointer | `init`, `setCertified`, `onClose`, `afterAddToManager`, the setters |
| Session handlers | `handlers_network_4session.h` | none of their own | socket closed: `unregisterServer` plus a notice, or a request to the logic server, plus `deleteUserBySessionId`. Session info: copies ids into a session |
| Monitor loop and propagation | not in the repository (spec section 2) | none | calls `decide()`, and on `true` calls `changeServerBusyLevel` |

How the parts interact:
- The monitor loop (spec section 2) feeds each server's `BusyLevel` with samples from several reporting threads.
- A changed level is passed to `ServerBalancer::changeServerBusyLevel`.
- The session-routing path calls `alloc()` for each new session.
- When a logic server's session closes, the handler calls `unregisterServer(server_id)`.
- Everything is in-memory shared state behind synchronous calls. `BusyLevel` locks only its sample list and its outlier. `ServerBalancer` has no lock of its own and relies on its callers.

What makes the code hard:
- `decide()` updates `m_current_busy_level` with no lock while several threads call it.
- `setup()` can lower the window while the list is full, and the eviction test only checks for an exact size.
- The window size can be 0: the division then gives IEEE NaN or +inf.
- The sticky object can become stale in two ways: its level changes, or its server disconnects.
- `front()` is called on an empty vector.
- The enum's numeric order is the reverse of the tier order the spec describes.
- A close notification can race a reconnect of the same server id.

Properties that make each component correct:
- Classifier:
  - the level follows the spec's transition table (section 4.1);
  - FATAL is left only through its recovery test;
  - the window stays within its capacity;
  - once the load drops, the level eventually recovers to IDLE, and under a sustained overload it reaches FATAL;
  - `decide()` classifies with a whole configuration, never half of one.
- Allocator:
  - ids stay unique;
  - alloc never returns an unregistered server, or one below `BUSY_WARN`;
  - the choice does not depend on the vector's order;
  - an empty registry gives "none";
  - the choice follows the policy in the header comment.
- Composition:
  - the balancer's copy of a level eventually equals the classifier's;
  - a closing session unregisters only its own registration;
  - the session manager never holds a closed session, and the sticky object is always a server that is still connected.

## 2. Modules

| Module | Models | Notes |
|---|---|---|
| `BusyLevelType` | `BusyLevel_e` | The enumerators with their numeric values, and the aliases (`BUSY_IDLE`, `BUSY_FATAL`...) the code uses; a comment says why the order matters. |
| `BusyLevel` | `BusyLevel` class | Variables are the class fields plus each thread's locals (`pc`, `avg`, `backup`, `next`, `ret`). `Params` ranges over `BusyLevelParam`, the struct as `setup()` reads it (a `uchar_t` decide type, the entry and recovery values by level). `decide()` is split into `DecidePush` (the `m_datas_mutex` block, `BusyLevel.cpp` 69-88), `DecideClassify` (log flush, threshold copy, unlocked read of the level and the switch, 90-203) and `DecideCommit` (the store in the branch taken and the `return` at 206). `setup()` is `Setup` (its first setter call) followed by nine `SetupStep`s, one per setter call in the order of `BusyLevel.cpp` 44-55 (`SetupCall`); the setters themselves (`SetSampleCount`, `SetDecideType`, `SetLog`, `SetBusyValue`, `SetToGoodValue`) are operators on one field each. `SetOutlier` and `DecideInvalid` are the other actions. `sample[t]` is the value of thread `t`'s call in progress (`NoCall` between calls), so that liveness properties can speak about the load being reported. `Transition` is the code's switch, one operator per `case`. `RefTable` is the spec's table written independently, as bands and ranks. `refLevel` and `lastDecide` are history variables used only by the properties. |
| `ServerBalancer` | `ServerBalancer` | Variables: `objects` (the vector, in order), `busy` and `users` (fields of the registered objects), `dedicated` and `ret`. `alloc()` is three actions: `AllocDedicated` (the sticky shortcut), `AllocEmpty` (the `front()` of an empty vector) and `AllocSorted` (both in-place sorts and the `BUSY_WARN` gate). `SortResults` gives every order `std::sort` may produce for a comparator. `SetUserCount` is the environment (the balance object's count, not in the repository). `AB` is the refinement mapping onto `AbstractBalancer`: the set of ids in the vector, each with its level and user count; order and the dedicated object are hidden, and a crashed `alloc()` reads as NoneEligible. |
| `AbstractBalancer` | spec section 4.2 (the allocator's contract) | `reg` (a set of keys), `tier` and `pop` (functions on `reg`), `ret`. `Register` adds one key at IDLE, `Unregister` removes one key, `SetTier` and `SetPop` change one registered key, and `Allocate` leaves the registry alone and answers a key of `reg` or None. The WARN admission rule is not part of it: the code breaks it (`sb_alloc_warm`, `sb_spec_tier_order`). |
| `SessionLifecycle` | `Session`, `handlers_network_4session.h` (socket closed) | Per connection: `sstate` (`m_session_state`), `sock` (none, connected, started, closed), `stype`, `baseSocket`, `asio`, `mgr` (the manager pointer `init()` stores), `initRes`. Shared: `managed` (the SessionManager's set), `pending` (posted `notify_socket_closed` messages not yet handled), `regTried`, and the `ServerBalancer` variables through `SB == INSTANCE ServerBalancer`. Actions: `Construct` (through `SetSocket`, `setSocket(this)`), `ConstructDefault`, `InitSession` (both early returns), `AfterAddToManager`, `SetSessionType`, `SetCertified`, `RegisterLogicServer` (spec-modelled), `OnClose`, `HandleSocketClosed` (calls `SB!UnregisterServer`), `UserSessionInfo` (the session-info handler: a lookup in the manager, the logic server id stored as `uint16_t`), and `Alloc` (the balancer's `alloc()`). A close is two steps: `onClose()` posts, the handler runs later. |
| `LoadBalancing` | tier propagation (spec sections 2 and 6, not in the repository) composed with `BusyLevel` and `ServerBalancer` | `BL == INSTANCE BusyLevel WITH ret <- decided` and `SB == INSTANCE ServerBalancer WITH ret <- allocRet`, sharing the other variables by name; one server `Server`, registered at start. `fwd[t]` and `fwdLevel[t]` are the reporting thread's forwarding of a change. Actions: `Classifier` (the classifier's steps; a thread starts a `decide()` only after forwarding the last change), `Commit` (`decide()` returns; forward on `true`), `ReadLevel` (`currentBusyLevel()`), `ApplyLevel` (`changeServerBusyLevel`, a no-op for an unknown id), `Disconnect` (the close handler's `unregisterServer`). |
| `MCBusyLevel`, `MCServerBalancer`, `MCSessionLifecycle`, `MCLoadBalancing` | — | Constants for TLC. |

Data abstraction:
- Samples and thresholds are small integers. An average `total/N` is the exact fraction `[num, den]`, so float rounding is not modelled.
- Division by zero keeps its IEEE result: +inf when the total is positive, NaN when it is 0.
- PERCENT fractions are given in hundredths.
- Time is not modelled: "the log interval has elapsed" is a free choice in each `DecideClassify`.
- `AllocEmpty` models the undefined behaviour of `front()` on an empty vector in two ways: "returns empty" or "process dies". A dead process restarts with an empty registry, because nothing is persisted.

## 3. Runs

| Run | Expect | Bounds | What it shows |
|---|---|---|---|
| `sb_core` | pass | servers {1,2,3}; users 0..2; base line 2; levels {ERROR, WARN, IDLE}; 63k states | Ids stay unique (`UniqueServerIds`). The sorted choice is the same whatever order the vector is in (`AllocChoiceUnique`). `ServerBalancer` implements `AbstractBalancer` (`ImplementsAbstractBalancer`, the abstract `Spec` as a PROPERTY under the mapping `AB`): every call changes only its own server's entry, and `alloc` leaves the registry alone and never returns an unregistered server; the latter relies on the unconditional `m_dedicated_object.reset()`. |
| `sb_alloc_warm` | violation | same | `AllocReturnsWarm` fails: the dedicated shortcut hands out a server that has since dropped to `BUSY_ERROR`. |
| `sb_alloc_empty` | violation | same | `AllocEmptyIsNone` fails: `front()` of an empty vector. |
| `sb_spec_tier_order` | violation | same | `AllocSpecTierOrder` fails: the code prefers IDLE servers, which the spec's tier order forbids. |
| `bl_sequential` | pass | 1 thread; samples {0,10,40,80,140}; window 2; the spec's VALUE thresholds and a PERCENT configuration, switched at will; fairness as below; 147k states | `ConformsToTable`: the code's switch agrees with the spec's table on every average, including recovery, skipped tiers and PERCENT scaling. `SettlesUnderSteadyLoad`: under a steady load the level eventually stops changing, from any level and window, unless the load lies in the band spec section 4.1 documents as intended flapping (`FlapsAt`: above the entry bound of a tier and at or below that tier's recovery bound). A steady 10 is in that band under the VALUE thresholds, and the property without the exclusion fails there; under the PERCENT thresholds 10 settles. |
| `bl_threads` | pass | 2 threads; samples {0,140}; the spec's VALUE thresholds, window 2; one `setup()` interleaved with `decide()`; 228k states, about 90 s | `EscalatesUnderLoad`: once only overload is reported, the level reaches FATAL for good. `RecoversWhenIdle`: once only 0 is reported, it returns to IDLE for good, whatever stale store the unlocked commit made. |
| `bl_race` | violation | 2 threads; samples {40,140}; window 1 | `FatalHysteresis` fails: a thread that read IDLE stores WARN over the FATAL another thread just stored. |
| `bl_torn_setup` | violation | 1 thread; samples {40,140}; one `setup()` | `ClassifiesWholeConfig` fails: after `setBusyValue(FATAL)` `isValid()` passes, and a `decide()` classifies with ERROR, WARN and IDLE bounds still 0. |
| `sl_core` | pass | connections c1, c2 (server 1, so a reconnect) and c3 (user); 206k states | `DedicatedOnlyLive`: the sticky object is always a server with an open or not yet handled connection (so it tolerates the window between `onClose()` and the handler, hazard at `handlers_network_4session.h:46`). `DisconnectedServerUnregistered`: a server whose server connections have all closed is eventually unregistered. Deadlock is not checked: every connection eventually closes for good. |
| `lb_core` | pass | 1 reporting thread (the monitor loop of spec section 2); samples {0,40,140}; the spec's VALUE thresholds, window 2; one `setup()`; server 1, which may disconnect; 8k states | `MirrorsWhenQuiet`: whenever the server is registered and nothing is in flight, the balancer's level is the classifier's. `BalancerFollows`: a level that stays put reaches the balancer for good. |
| `lb_stale_forward` | violation | same, 2 reporting threads (spec section 5) | `MirrorsWhenQuiet` fails: t2's `decide()` stores FATAL and t2 reads it; t1 stores IDLE and forwards IDLE; then t2's FATAL reaches the balancer. The classifier says IDLE, the balancer FATAL, and no later `decide()` reports a change. |
| `sl_stale_close` | violation | same | `ConnectedServerRegistered` fails: c1 registers server 1, c2 (a second connection of server 1, whose registration never took) closes, and its handler unregisters server 1 while c1 is still open. |

Why these bounds are enough:
- Three servers with counts 0, 1 and 2 against a base line of 2 give every relation the comparators and the `NotExist` test distinguish: below, equal to and at the line, and ties on level and on count.
- `BUSY_FATAL` behaves in the balancer exactly as `BUSY_ERROR`.
- The classifier's samples give averages in every band and on both sides of every recovery bound of both configurations.
- Two threads are enough for a lost update. A window of 2 is enough for eviction.
- `changeServerBusyLevel` looks the id up modulo 2^16 (`UInt16`). Every run uses ids below 2^16; the `lb_core` cfg with `Server = 65537` violates `MirrorsWhenQuiet`, because the forwarded level never reaches the object.
- `MaxDatas` (3) caps the list only for TLC. No kept run reaches it: every run keeps one window size of at most 2, and the list never grows past its window.
- `MaxSetups` caps the number of `setup()` calls: 1 where the spec's "configured once" is the case under study, 2 in the runs about reconfiguration.
- Three connections, two of them of the same logic server, are the smallest set with a reconnect and a user session; one server id is enough, since the handler's hazard is about one id.

Fairness:
- `BusyLevel`: weak fairness of each thread's three `decide()` steps and of `SetupStep`. The monitor loop calls `decide()` periodically (spec section 2), and a call that has started, of `decide()` or of `setup()`, runs to its end: none of them blocks except on a spin mutex. Whether `setup()` and `setOutlier()` are called at all is left to their callers, so they carry no fairness.
- `LoadBalancing`: the same fairness for the classifier's steps, and weak fairness of `Commit`, `ReadLevel` and `ApplyLevel`: the monitor loop forwards a reported change before it samples again. `Disconnect` is up to the peer and not fair.
- `SessionLifecycle`: weak fairness of `HandleSocketClosed` for each connection. The handler thread processes every posted notification. Peers, the manager and `alloc()` callers are not obliged to act.

Every property of a passing run has a mutant in `PROJECT.json`: a plausible bug in the mapped code that TLC then catches. Examples are a missing duplicate check, a missing `reset()` of the dedicated object, a dropped id tie-break, the ERROR case recovering at the WARN bound, an eviction of the newest sample, an uninitialised level, and an `unregisterServer` that does not erase.

## 4. Plan

Done so far: `BusyLevelType`, `ServerBalancer` with its refinement of `AbstractBalancer`, `BusyLevel` (with `setup()` split into its setter calls and liveness under fairness) `SessionLifecycle` (with the session-info handler) and `LoadBalancing`, with the runs above. Next, in order:
1. **Tier admission in the contract.** An `AbstractBalancer` whose `Allocate` also requires a tier at WARN or above fails on the dedicated shortcut (the finding of `sb_alloc_warm`); it would need a run slot of its own.
2. **`alloc()` in the composition.** Add `alloc()` and several servers to `LoadBalancing`, to check what a stale forward means for placement.

## 5. Not modelled

- Packet header stamping (`touchHeader`), socket options, address lookup and logging text: formatting and I/O.
- `toString`, `balanceObjects`, `serverCount`, `currentBusyLevel` and the other accessors: they only read, and appear in the model as operators or variables.
- `m_use_session_action` and `m_use_fatal_action`: stored by `setup()` and never read in the repository.
- The monitor loop and the `BALANCE_OBJECT` type: not in the repository. Their behaviour is taken from the spec (`SetUserCount` is marked spec-modelled).
- The SessionManager, the user manager and the logic-server registration handler: not in the repository. `RegisterLogicServer` is modelled from spec section 2; the manager inserts a session only after `init()` succeeded.
- A zero window (`BusyLevelParam`'s default `m_sampleCount`, which `isValid()` accepts): the average is NaN or +inf and the level never moves. The model keeps both results, but no run configures a zero window, so no property checks that branch (hazard at `BusyLevel.cpp:87`).
- A second `setup()` with a smaller window: the exact-size eviction test never shrinks the list again (hazard at `BusyLevel.cpp:76`). The model keeps this: a configuration with windows 2 then 1 and `MaxSetups` 2 lets the list outgrow its window, against spec section 8, which bounds it by the window after any sequence of calls, and section 4.1, which lets `configure` keep the old samples. The kept runs all use one window size, and no run slot is left for this finding.
- `notifyServerShutdownToUsers`: its only call in the close handler is commented out, so it never runs.
- `setClientAddress` and `changeZoneServerId`: plain stores that no modelled step reads.
- The fallback sort's choice against the header comment (hazard at `ServerBalancer.h:152`): the comment does not say how its three criteria combine.
- The close handler's `game_user` dereference (hazard at `handlers_network_4session.h:72`): `GameSession` and `GameUser` are not in the repository.
- Flapping between IDLE and WARN under a steady load at or below `warnToIdle`: spec section 4.1 itself flags this edge of `idleBound = 0` as intended, so `SettlesUnderSteadyLoad` excludes that band rather than reporting it.
- The unlocked read of the log timer in `decide()` (`BusyLevel.cpp:93`): two threads may both flush the log. Log output and the clock are not modelled, and no decision reads them.
