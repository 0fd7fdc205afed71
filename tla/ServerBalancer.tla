--------------------------- MODULE ServerBalancer ---------------------------
(***************************************************************************)
(* ServerBalancer<BALANCE_OBJECT> of src/cpp/ServerBalancer.h: the         *)
(* registry of game servers (m_balance_objects), the dedicated ("sticky")  *)
(* object, and alloc(), which picks the server a new session goes to.      *)
(*                                                                         *)
(* A balance object is identified by its server id; busy[s] and users[s]   *)
(* are the busyLevel() and balanceKeyUserCount() of the object registered  *)
(* under id s.  Every public member function is one atomic action: the     *)
(* class has no lock of its own and relies on its caller to serialise the  *)
(* calls.                                                                  *)
(***************************************************************************)
EXTENDS Integers, Sequences, SequencesExt, FiniteSets, BusyLevelType

CONSTANTS
    ServerIds,          \* server ids that may register (integers: sorted by id)
    MaxUsers,           \* largest user count a balance object reports
    BaseFillUserCount,  \* m_base_fill_user_count (200 in the code)
    SettableLevels,     \* levels changeServerBusyLevel is called with
    None,               \* an empty boost::shared_ptr
    Crash               \* alloc() dereferenced front() of an empty vector

ASSUME ServerIds \subseteq Nat /\ ServerIds # {}
ASSUME MaxUsers \in Nat /\ BaseFillUserCount \in 0..MaxUsers
ASSUME SettableLevels \subseteq BusyLevels

\* busy level of an id with no registered object (the balancer never reads it)
NoLevel == 0

VARIABLES
    objects,    \* m_balance_objects, in vector order
    busy,       \* busy[s]: m_busy_level of the object registered as s
    users,      \* users[s]: balanceKeyUserCount() of that object
    dedicated,  \* m_dedicated_object
    ret         \* the value the last alloc() returned

vars == <<objects, busy, users, dedicated, ret>>

Registered == Range(objects)

-----------------------------------------------------------------------------
(* Helpers                                                                 *)

\* findObject(server_id, _): is an object with this id registered?
FindObject(s) == s \in Registered

\* allBusyLevelUnder(l): no registered object has a level above l.
AllBusyLevelUnder(l) == \A s \in Registered : busy[s] <= l

\* First comparator of alloc(): larger busy level first, then MORE users,
\* then smaller server id.
PrimaryBeforeNoIdTieBreak(a, b) ==
    \/ busy[a] > busy[b]
    \/ busy[a] = busy[b] /\ users[a] > users[b]
PrimaryBefore(a, b) ==
    \/ busy[a] > busy[b]
    \/ busy[a] = busy[b] /\ users[a] > users[b]
    \/ busy[a] = busy[b] /\ users[a] = users[b] /\ a < b

\* Second comparator: larger busy level first, then FEWER users, then
\* smaller server id.
SecondaryBefore(a, b) ==
    \/ busy[a] > busy[b]
    \/ busy[a] = busy[b] /\ users[a] < users[b]
    \/ busy[a] = busy[b] /\ users[a] = users[b] /\ a < b

\* The comparators as the sets of pairs <<a, b>> they put a before b.
PrimaryOrder == { ab \in ServerIds \X ServerIds : PrimaryBefore(ab[1], ab[2]) }
SecondaryOrder ==
    { ab \in ServerIds \X ServerIds : SecondaryBefore(ab[1], ab[2]) }

\* The orders std::sort may leave the vector in: the permutations of seq in
\* which no element is preceded by one the comparator puts after it.  For a
\* strict total order there is exactly one.
SortResults(seq, before) ==
    { p \in [1..Len(seq) -> Range(seq)] :
        /\ Range(p) = Range(seq)
        /\ \A i, j \in 1..Len(seq) : i < j => <<p[j], p[i]>> \notin before }

\* alloc()'s test of the first candidate (line 133): nothing productive
\* found, either not warm enough or already filled to the base line.
NotExist(s) == busy[s] < BUSY_WARN \/ users[s] >= BaseFillUserCount

-----------------------------------------------------------------------------
(* Operations                                                              *)

Init ==
    /\ objects = <<>>
    /\ busy = [s \in ServerIds |-> NoLevel]
    /\ users = [s \in ServerIds |-> 0]
    /\ dedicated = None
    /\ ret = None

\* The value an int32_t server id takes when passed as a uint16_t.
UInt16(s) == s % 2^16

\* changeServerBusyLevel(uint16_t server_id, level): set the level of the
\* object registered under the truncated id; an unknown id is a no-op.
ChangeServerBusyLevel(s, l) ==
    /\ FindObject(UInt16(s))
    /\ busy' = [busy EXCEPT ![UInt16(s)] = l]
    /\ UNCHANGED <<objects, users, dedicated, ret>>

\* registerServer without setBusyLevel(BUSY_IDLE).
RegisterServerNoInitLevel(s, n) ==
    /\ ~FindObject(s)
    /\ users' = [users EXCEPT ![s] = n]
    /\ objects' = Append(objects, s)
    /\ UNCHANGED <<busy, dedicated, ret>>

\* registerServer without the duplicate check.
RegisterServerNoDupCheck(s, n) ==
    /\ busy' = [busy EXCEPT ![s] = BUSY_IDLE]
    /\ users' = [users EXCEPT ![s] = n]
    /\ objects' = Append(objects, s)
    /\ UNCHANGED <<dedicated, ret>>

\* registerServer: a new object with id s and user count n; fails, changing
\* nothing, when the id is already registered; otherwise set BUSY_IDLE and
\* push_back.
RegisterServer(s, n) ==
    /\ ~FindObject(s)
    /\ busy' = [busy EXCEPT ![s] = BUSY_IDLE]
    /\ users' = [users EXCEPT ![s] = n]
    /\ objects' = Append(objects, s)
    /\ UNCHANGED <<dedicated, ret>>

\* unregisterServer without m_dedicated_object.reset().
UnregisterServerKeepDedicated(s) ==
    /\ objects' = SelectSeq(objects, LAMBDA o : o # s)
    /\ busy' = [busy EXCEPT ![s] = NoLevel]
    /\ UNCHANGED <<users, dedicated, ret>>

\* unregisterServer with std::remove_if but without the erase: the vector
\* keeps its length and the server stays in it.
UnregisterServerNoErase(s) ==
    /\ dedicated' = None
    /\ UNCHANGED <<objects, busy, users, ret>>

\* unregisterServer: remove_if + erase of the object with id s (ids are
\* unique, so erase(it) removes the one element remove_if moved to the
\* tail), then reset the dedicated object unconditionally.
UnregisterServer(s) ==
    /\ objects' = SelectSeq(objects, LAMBDA o : o # s)
    /\ busy' = [busy EXCEPT ![s] = IF FindObject(s) THEN NoLevel ELSE @]
    /\ dedicated' = None
    /\ UNCHANGED <<users, ret>>

\* The balance object's user count changes as sessions join and leave the
\* game server (driven by that server's reports, not by the balancer).
SetUserCount(s, n) ==
    /\ FindObject(s)
    /\ users' = [users EXCEPT ![s] = n]
    /\ UNCHANGED <<objects, busy, dedicated, ret>>

\* alloc(), lines 91-94: the dedicated object is returned while its user
\* count is under the base line, without sorting and without looking at its
\* busy level.
AllocDedicated ==
    /\ dedicated # None
    /\ users[dedicated] < BaseFillUserCount
    /\ ret' = dedicated
    /\ UNCHANGED <<objects, busy, users, dedicated>>

\* alloc() with no usable dedicated object and an empty vector: the sort is
\* a no-op and front() (line 125) reads past the end before the null check
\* at line 127.  Undefined behaviour: the null check may see an empty
\* pointer and return None, or the process dies; a dead process restarts
\* with an empty registry, since nothing is persisted.
AllocEmpty ==
    /\ ~(dedicated # None /\ users[dedicated] < BaseFillUserCount)
    /\ objects = <<>>
    /\ \/ /\ ret' = None
          /\ UNCHANGED <<objects, busy, users, dedicated>>
       \/ /\ ret' = Crash
          /\ objects' = <<>>
          /\ busy' = [s \in ServerIds |-> NoLevel]
          /\ dedicated' = None
          /\ UNCHANGED users

\* alloc(), lines 96-178: sort by the first comparator; if the front is not
\* productive sort again by the second; the front is returned, and becomes
\* the dedicated object, only when its busy level is at least BUSY_WARN.
\* Both sorts are in place: the vector keeps the last order.
AllocSorted ==
    /\ ~(dedicated # None /\ users[dedicated] < BaseFillUserCount)
    /\ objects # <<>>
    /\ \E first \in SortResults(objects, PrimaryOrder) :
       \E sorted \in IF NotExist(first[1])
                     THEN SortResults(first, SecondaryOrder)
                     ELSE {first} :
          /\ objects' = sorted
          /\ \/ /\ busy[sorted[1]] < BUSY_WARN
                /\ ret' = None
                /\ UNCHANGED dedicated
             \/ /\ busy[sorted[1]] >= BUSY_WARN
                /\ ret' = sorted[1]
                /\ dedicated' = sorted[1]
    /\ UNCHANGED <<busy, users>>

Alloc == AllocDedicated \/ AllocEmpty \/ AllocSorted

Next ==
    \/ \E s \in ServerIds, l \in SettableLevels : ChangeServerBusyLevel(s, l)
    \/ \E s \in ServerIds, n \in 0..MaxUsers : RegisterServer(s, n)
    \/ \E s \in ServerIds : UnregisterServer(s)
    \/ \E s \in ServerIds, n \in 0..MaxUsers : SetUserCount(s, n)
    \/ Alloc

Spec == Init /\ [][Next]_vars

-----------------------------------------------------------------------------
(* Properties                                                              *)

\* Every registered object has a real busy level, the vector holds only
\* known ids, and the dedicated object and the result are ids or empty.
TypeOK ==
    /\ objects \in Seq(ServerIds)
    /\ \A s \in Registered : busy[s] \in BusyLevels
    /\ users \in [ServerIds -> 0..MaxUsers]
    /\ dedicated \in ServerIds \cup {None}
    /\ ret \in ServerIds \cup {None, Crash}

\* registerServer's duplicate check keeps server ids unique in the vector,
\* which unregisterServer's single-element erase(it) depends on.
UniqueServerIds == IsInjective(objects)

\* The refinement mapping onto the allocator's contract: the registry is
\* the set of ids in the vector, each with its level and user count; the
\* vector order and the dedicated object are hidden.  The crash of alloc()
\* (reachable only with an empty registry, and reported by sb_alloc_empty)
\* is seen as NoneEligible.
AB == INSTANCE AbstractBalancer WITH
        Keys <- ServerIds, Tiers <- BusyLevels, Pops <- 0..MaxUsers,
        Idle <- BUSY_IDLE,
        reg <- Registered,
        tier <- [s \in Registered |-> busy[s]],
        pop <- [s \in Registered |-> users[s]],
        ret <- IF ret = Crash THEN None ELSE ret

\* ServerBalancer implements the contract of spec section 4.2: every
\* registerServer adds only its own id at BUSY_IDLE, every unregisterServer
\* removes only its own id, a level change touches one registered server,
\* and alloc() leaves the registry as it was and never hands out a server
\* that is no longer registered (the dedicated object must not outlive an
\* unregisterServer of that server).
ImplementsAbstractBalancer == AB!Spec

\* The server alloc() picks by sorting is determined by the registry's
\* contents, not by the order the vector happens to be in (the comparators
\* break every tie by server id).
AllocChoices ==
    { sorted[1] : sorted \in UNION
        { IF NotExist(first[1]) THEN SortResults(first, SecondaryOrder)
                                ELSE {first}
          : first \in SortResults(objects, PrimaryOrder) } }
AllocChoiceUnique == objects # <<>> => Cardinality(AllocChoices) = 1

\* The comment at line 168 and spec section 8: alloc() never returns a
\* server whose busy level is below BUSY_WARN (ERROR or FATAL).
AllocReturnsWarm ==
    [][Alloc => (ret' \in ServerIds => busy[ret'] >= BUSY_WARN)]_vars

\* Spec section 8: alloc() on an empty registry returns "none eligible".
AllocEmptyIsNone ==
    [][Alloc /\ objects = <<>> => ret' = None]_vars

\* Spec sections 3 and 4.2 order the tiers IDLE < WARN < ERROR < FATAL and
\* admit only servers at WARN or above: alloc() never returns an IDLE one.
AllocSpecTierOrder ==
    [][Alloc => (ret' \in ServerIds => busy[ret'] # BUSY_IDLE)]_vars

=============================================================================
