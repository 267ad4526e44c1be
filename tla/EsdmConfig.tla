----------------------------- MODULE EsdmConfig -----------------------------
(***************************************************************************)
(* The runtime configuration of the ESDM (esdm_config.c, part_002 lines   *)
(* 1-235): the esdm_config record, its clamped setters, the test-mode     *)
(* setters, the FIPS switch, the node helpers and esdm_config_init.        *)
(*                                                                         *)
(* Values are uint32_t in the code.  The model keeps them as W-bit words: *)
(* MaxU32 stands for 0xffffffff, the default of esdm_max_nodes.  The      *)
(* compile-time defaults (ESDM_*_ENTROPY_RATE, ESDM_DRNG_MAX_WITHOUT_     *)
(* RESEED) come from headers outside src/ and are constants.               *)
(***************************************************************************)
EXTENDS Integers, FiniteSets

CONSTANTS
    W,              \* word width of the model's uint32_t
    SecStrength,    \* ESDM_DRNG_SECURITY_STRENGTH_BITS
    DefaultRate,    \* [Sources -> Nat]: ESDM_{CPU,JENT,KERNEL_RNG,SCHED}_
                    \*   ENTROPY_RATE
    MaxWoReseed,    \* ESDM_DRNG_MAX_WITHOUT_RESEED
    FipsEnv,        \* what fips_enabled() reports for the system
    TestMode,       \* built with ESDM_TESTMODE?
    Vals,           \* the arguments the setters are called with
    NodeVals,       \* the arguments of esdm_config_max_nodes_set
    Cpus,           \* number of CPUs the system can have online
    MaxCalls        \* bound on setter calls

Sources == {"cpu", "jent", "krng", "sched"}
MaxU32 == 2^W - 1
U32 == 0 .. MaxU32
FipsModes == {"unset", "enabled", "disabled"}

ASSUME
    /\ DefaultRate \in [Sources -> U32]
    /\ SecStrength \in U32 /\ MaxWoReseed \in U32
    /\ Vals \subseteq U32 /\ NodeVals \subseteq U32
    /\ FipsEnv \in BOOLEAN /\ TestMode \in BOOLEAN

VARIABLES
    rate,           \* esdm_es_{cpu,jent,krng,sched}_entropy_rate_bits
    maxWoReseed,    \* esdm_drng_max_wo_reseed
    maxNodes,       \* esdm_max_nodes
    forceFips,      \* force_fips
    addEntropy,     \* calls of esdm_es_add_entropy (the entropy event)
    calls,          \* setter calls so far
    inited,         \* esdm_config_init has run
    userJent        \* ghost: the last value given to the Jitter setter,
                    \*   or -1 if it was never called

vars == <<rate, maxWoReseed, maxNodes, forceFips, addEntropy, calls,
          inited, userJent>>

U32Min(a, b) == IF a < b THEN a ELSE b

\* esdm_config_entropy_rate_max: clamp to the security strength.
esdm_config_entropy_rate_max(val) == U32Min(SecStrength, val)

\* esdm_config_fips_enabled: the forced mode if set, the system's otherwise.
esdm_config_fips_enabled == IF forceFips = "unset" THEN FipsEnv
                                                    ELSE forceFips = "enabled"

\* esdm_config_online_nodes, given what esdm_online_nodes() returns.
esdm_config_online_nodes(online) == U32Min(online, maxNodes)

\* Mutant: the remainder by esdm_max_nodes is left out.
CurrNodeUnreduced(curr) == curr

\* esdm_config_curr_node, given what esdm_curr_node() returns.  A
\* remainder by 0 traps (SIGFPE); the model yields -1 for it.
esdm_config_curr_node(curr) == IF maxNodes = 0 THEN -1 ELSE curr % maxNodes

\* The static initialiser of esdm_config.
Init ==
    /\ rate = DefaultRate
    /\ maxWoReseed = MaxWoReseed
    /\ maxNodes = MaxU32
    /\ forceFips = "unset"
    /\ addEntropy = 0
    /\ calls = 0
    /\ inited = FALSE
    /\ userJent = -1

-----------------------------------------------------------------------------
\* Mutant: the setter stores the value unclamped.
RateSetNoClamp(s, v) ==
    /\ calls < MaxCalls
    /\ calls' = calls + 1
    /\ rate' = [rate EXCEPT ![s] = v]
    /\ addEntropy' = addEntropy + 1
    /\ userJent' = IF s = "jent" THEN v ELSE userJent
    /\ UNCHANGED <<maxWoReseed, maxNodes, forceFips, inited>>

\* esdm_config_es_{cpu,jent,krng,sched}_entropy_rate_set: clamp, store,
\* and signal the entropy sources that the rate changed.
RateSet(s, v) ==
    /\ calls < MaxCalls
    /\ calls' = calls + 1
    /\ rate' = [rate EXCEPT ![s] = esdm_config_entropy_rate_max(v)]
    /\ addEntropy' = addEntropy + 1
    /\ userJent' = IF s = "jent" THEN v ELSE userJent
    /\ UNCHANGED <<maxWoReseed, maxNodes, forceFips, inited>>

\* esdm_config_force_fips_set.
ForceFipsSet(f) ==
    /\ calls < MaxCalls
    /\ calls' = calls + 1
    /\ forceFips' = f
    /\ UNCHANGED <<rate, maxWoReseed, maxNodes, addEntropy, inited, userJent>>

\* esdm_config_drng_max_wo_reseed_set (ESDM_TESTMODE only).
MaxWoReseedSet(v) ==
    /\ TestMode /\ calls < MaxCalls
    /\ calls' = calls + 1
    /\ maxWoReseed' = v
    /\ UNCHANGED <<rate, maxNodes, forceFips, addEntropy, inited, userJent>>

\* esdm_config_max_nodes_set (ESDM_TESTMODE only).
MaxNodesSet(v) ==
    /\ TestMode /\ calls < MaxCalls
    /\ calls' = calls + 1
    /\ maxNodes' = v
    /\ UNCHANGED <<rate, maxWoReseed, forceFips, addEntropy, inited,
                   userJent>>

\* Mutant: init looks only at the forced FIPS mode, not at the system's.
ConfigInitIgnoresEnv ==
    /\ ~inited
    /\ inited' = TRUE
    /\ LET clamped == [s \in Sources |-> esdm_config_entropy_rate_max(rate[s])]
           upgrade == /\ forceFips = "enabled"
                      /\ DefaultRate["jent"] > 0
                      /\ clamped["jent"] = DefaultRate["jent"]
       IN /\ rate' = IF upgrade
                     THEN [clamped EXCEPT !["jent"] =
                              esdm_config_entropy_rate_max(SecStrength)]
                     ELSE clamped
          /\ addEntropy' = IF upgrade THEN addEntropy + 1 ELSE addEntropy
    /\ UNCHANGED <<maxWoReseed, maxNodes, forceFips, calls, userJent>>

\* esdm_config_init: clamp the four rates without an entropy event; in
\* FIPS mode raise a Jitter rate still at its default (and the default
\* positive) to full entropy through the setter, which signals the event.
ConfigInit ==
    /\ ~inited
    /\ inited' = TRUE
    /\ LET clamped == [s \in Sources |-> esdm_config_entropy_rate_max(rate[s])]
           upgrade == /\ esdm_config_fips_enabled
                      /\ DefaultRate["jent"] > 0
                      /\ clamped["jent"] = DefaultRate["jent"]
       IN /\ rate' = IF upgrade
                     THEN [clamped EXCEPT !["jent"] =
                              esdm_config_entropy_rate_max(SecStrength)]
                     ELSE clamped
          /\ addEntropy' = IF upgrade THEN addEntropy + 1 ELSE addEntropy
    /\ UNCHANGED <<maxWoReseed, maxNodes, forceFips, calls, userJent>>

\* The configuration is initialised and every call has been made.
Done ==
    /\ inited /\ calls = MaxCalls
    /\ UNCHANGED vars

Next ==
    \/ \E s \in Sources, v \in Vals : RateSet(s, v)
    \/ \E f \in FipsModes : ForceFipsSet(f)
    \/ \E v \in Vals : MaxWoReseedSet(v)
    \/ \E v \in NodeVals : MaxNodesSet(v)
    \/ ConfigInit
    \/ Done

Spec == Init /\ [][Next]_vars

-----------------------------------------------------------------------------
\* The rates are clamped to [0, SECURITY_STRENGTH_BITS] (spec.md 4.I).
TypeOK ==
    /\ rate \in [Sources -> 0 .. SecStrength]
    /\ maxWoReseed \in U32 /\ maxNodes \in U32
    /\ forceFips \in FipsModes
    /\ addEntropy \in 0 .. MaxCalls + 1
    /\ calls \in 0 .. MaxCalls
    /\ inited \in BOOLEAN
    /\ userJent \in U32 \cup {-1}

\* esdm_drng_node_instance and esdm_drng_get_sleep index the node array,
\* which has esdm_config_online_nodes() entries, with
\* esdm_config_curr_node(): for every CPU the system can run on and every
\* number of online CPUs above it, the index is inside the array.
NodeIndexInArray ==
    \A online \in 1 .. Cpus, curr \in 0 .. Cpus - 1 :
        curr < online =>
            esdm_config_curr_node(curr) \in 0 .. esdm_config_online_nodes(online) - 1

\* esdm_config_init in FIPS mode gives the Jitter RNG full entropy when its
\* rate was left at a positive default, and keeps a rate the user set to
\* a different value (spec.md 4.I and the comment above part_002:227).
JitterRateAtInit ==
    [][ConfigInit =>
         /\ (/\ esdm_config_fips_enabled /\ DefaultRate["jent"] > 0
             /\ userJent = -1)
                => rate'["jent"] = esdm_config_entropy_rate_max(SecStrength)
         /\ (/\ userJent # -1
             /\ esdm_config_entropy_rate_max(userJent) # DefaultRate["jent"])
                => rate'["jent"] = esdm_config_entropy_rate_max(userJent)
      ]_vars
====
