-------------------------- MODULE AbstractBalancer --------------------------
(***************************************************************************)
(* What the placement allocator promises its callers (spec sections 3 and  *)
(* 4.2), with the vector order, the sticky cache and the two sorts left    *)
(* out: a registry of targets unique by key, each with a tier and a        *)
(* population, and allocate(), which leaves the registry alone and answers *)
(* a registered target or NoneEligible.                                    *)
(*                                                                         *)
(* The spec's admission rule (only tiers at WARN or above) is not part of  *)
(* this contract: the code breaks it through the sticky shortcut and       *)
(* through its tier order, which the runs sb_alloc_warm and                *)
(* sb_spec_tier_order report on their own.                                 *)
(***************************************************************************)
LOCAL INSTANCE Functions

CONSTANTS
    Keys,     \* target keys (server ids)
    Tiers,    \* the tiers a target may be at
    Pops,     \* the population counts a target may report
    Idle,     \* the tier register() starts a target at
    None      \* NoneEligible

ASSUME Idle \in Tiers /\ None \notin Keys

VARIABLES
    reg,      \* the keys of the registered targets
    tier,     \* tier[k] for k \in reg
    pop,      \* pop[k] for k \in reg
    ret       \* what the last allocate() answered

vars == <<reg, tier, pop, ret>>

Init ==
    /\ reg = {}
    /\ tier = [k \in {} |-> Idle]
    /\ pop = [k \in {} |-> 0]
    /\ ret = None

\* register(target): a new key joins at the initial tier; a duplicate key
\* is rejected and changes nothing.
Register(k, n) ==
    /\ k \notin reg
    /\ reg' = reg \cup {k}
    /\ tier' = [x \in reg' |-> IF x = k THEN Idle ELSE tier[x]]
    /\ pop' = [x \in reg' |-> IF x = k THEN n ELSE pop[x]]
    /\ UNCHANGED ret

\* unregister(key): the target with this key, and only it, leaves.
Unregister(k) ==
    /\ k \in reg
    /\ reg' = reg \ {k}
    /\ tier' = Restrict(tier, reg')
    /\ pop' = Restrict(pop, reg')
    /\ UNCHANGED ret

\* setTier(key, tier) of a registered key changes that target's tier alone.
SetTier(k, t) ==
    /\ k \in reg
    /\ tier' = [tier EXCEPT ![k] = t]
    /\ UNCHANGED <<reg, pop, ret>>

\* A target's population changes as sessions join and leave it.
SetPop(k, n) ==
    /\ k \in reg
    /\ pop' = [pop EXCEPT ![k] = n]
    /\ UNCHANGED <<reg, tier, ret>>

\* allocate(): a registered target or NoneEligible; the registry is left
\* as it was.
Allocate ==
    /\ ret' \in reg \cup {None}
    /\ UNCHANGED <<reg, tier, pop>>

Next ==
    \/ \E k \in Keys, n \in Pops : Register(k, n) \/ SetPop(k, n)
    \/ \E k \in Keys : Unregister(k)
    \/ \E k \in Keys, t \in Tiers : SetTier(k, t)
    \/ Allocate

Spec == Init /\ [][Next]_vars

=============================================================================
