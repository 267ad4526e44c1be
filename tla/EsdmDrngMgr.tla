---------------------------- MODULE EsdmDrngMgr ----------------------------
(***************************************************************************)
(* The ESDM DRNG manager (esdm_drng_mgr.c, src/unnamed/part_002 lines     *)
(* 235-859): the initial DRNG and the per-node DRNGs, the generate path    *)
(* esdm_drng_get with its must_reseed / pool-trylock / seed interlock, the *)
(* seeding work esdm_drng_seed_work, esdm_drng_force_reseed, esdm_reset    *)
(* and the lazy esdm_drng_mgr_initalize.                                   *)
(*                                                                         *)
(* Actors: the RPC worker threads (Threads) that call                      *)
(* esdm_get_random_bytes{,_min,_full}, the seeding worker (Worker) that    *)
(* the entropy-source manager starts after it took the pool lock, and the  *)
(* reset thread (Resetter) started by esdm_reset.  esdm_drng_force_reseed  *)
(* and the clock are environment steps.                                    *)
(*                                                                         *)
(* The entropy-source manager (esdm_es_mgr.c) is not among the sources:    *)
(* the seed buffer is abstracted to the entropy it credits (None, Min,     *)
(* Full), and esdm_init_ops / esdm_reset_state / esdm_unset_fully_seeded / *)
(* esdm_pool_trylock are modelled from spec.md sections 4.C, 4.F and 4.G.  *)
(***************************************************************************)
EXTENDS Integers, FiniteSets, FiniteSetsExt

CONSTANTS
    Threads,          \* RPC worker threads calling the generate interfaces
    Worker,           \* the seeding worker (esdm_drng_seed_work)
    Resetter,         \* the thread started by esdm_reset
    InitDrng,         \* esdm_drng_init, the initial DRNG
    NoOne,            \* owner of a free lock
    NumNodes,         \* number of online nodes
    NodeArray,        \* does esdm_drng_get_instances() return a node array?
    RESEED_THRESH,    \* ESDM_DRNG_RESEED_THRESH
    MAX_WO_RESEED,    \* esdm_config_drng_max_wo_reseed()
    RESEED_MAX_TIME,  \* esdm_drng_reseed_max_time
    NODE_STAGGER,     \* the 60 s per node of the anti-storm stagger
    MaxTime,          \* bound on the clock
    MaxChunks,        \* bound on DRNG_MAX_REQSIZE chunks of one request
    MaxCalls,         \* bound on the calls of each thread
    MaxSeedWork,      \* bound on the starts of the seeding worker
    MaxRounds,        \* bound on the esdm_es_reseed_wanted() loop
    MaxResets,        \* bound on esdm_reset() calls
    MaxForces,        \* bound on esdm_drng_force_reseed() calls
    MaxFinalize,      \* bound on esdm_drng_mgr_finalize() calls
    SeedMayFail,      \* may drng_cb->drng_seed return < 0?
    GenMayFail,       \* may drng_cb->drng_generate return <= 0?
    SelftestMayFail,  \* may the hash or DRBG self test fail?
    AllocMayFail      \* may drng_cb->drng_alloc fail?

Nodes == 0 .. NumNodes - 1
NodeDrngs == IF NodeArray THEN Nodes ELSE {}
Drngs == {InitDrng} \cup NodeDrngs
Actors == Threads \cup {Worker, Resetter}

ASSUME
    /\ NumNodes \in Nat \ {0}
    /\ InitDrng \notin Nodes
    /\ NoOne \notin Actors
    /\ Worker # Resetter /\ {Worker, Resetter} \cap Threads = {}
    /\ RESEED_THRESH \in Nat \ {0}
    \* BUILD_BUG_ON(ESDM_DRNG_MAX_WITHOUT_RESEED < ESDM_DRNG_RESEED_THRESH)
    /\ MAX_WO_RESEED >= RESEED_THRESH

\* Entropy credited by one seed buffer (esdm_fill_seed_buffer): nothing,
\* at least ESDM_MIN_SEED_ENTROPY_BITS, or a full seed.
EntNone == 0
EntMin  == 1
EntFull == 2
EntLevels == {EntNone, EntMin, EntFull}

\* Global ESDM state of spec.md section 4.G.
Uninit == 0
MinSeeded == 1
FullySeeded == 2
Operational == 3

VARIABLES
    avail,       \* esdm_avail
    drng,        \* the esdm_drng records
    lockOwner,   \* drng->lock of every DRNG
    poolOwner,   \* the entropy pool lock (esdm_pool_trylock)
    inCb,        \* actors inside a drng_cb callback of a DRNG
    esdmState,   \* global seeding state (esdm_init_ops / esdm_reset_state)
    now,         \* time(NULL)
    pc,          \* program counter of every actor
    node,        \* esdm_config_curr_node() seen by a thread
    tgt,         \* the DRNG a thread or the worker operates on
    chunks,      \* chunks of the request a thread still has to generate
    seedLvl,     \* entropy credited by the actor's seed buffer
    calls,       \* calls started per thread
    wkIdx,       \* node the worker's for_each_online_node loop is at
    rsIdx,       \* node the reset thread's loop is at
    budget,      \* remaining worker starts, resets and forced reseeds
    rounds,      \* iterations of the worker's reseed-wanted loop
    allocs,      \* drng_alloc calls on the initial DRNG
    selftestFailed, \* a self test of esdm_drng_mgr_selftest failed
    owed         \* DRNGs whose reseed was refused or failed, not yet reseeded

vars == <<avail, drng, lockOwner, poolOwner, inCb, esdmState, now, pc, node, tgt, chunks, seedLvl, calls, wkIdx, rsIdx, budget, rounds,
          allocs, selftestFailed, owed>>

-----------------------------------------------------------------------------
(* Helpers of esdm_drng_mgr.c                                              *)

\* esdm_time_after_now(base) > 0: time(NULL) is strictly after base.
esdm_time_after_now(base) == now > base

\* esdm_drng_reset: counters back to the ceiling, not fully seeded, reseed.
esdm_drng_reset(r) ==
    [r EXCEPT !.requests = RESEED_THRESH, !.rsfs = 0, !.lastSeeded = now,
              !.fully = FALSE, !.force = TRUE]

\* Mutant: requests is restored one above the threshold.
InjectOkOffByOne(r, full) ==
    [r EXCEPT !.rsfs = IF full THEN 0 ELSE @ + (RESEED_THRESH - r.requests),
              !.lastSeeded = now, !.requests = RESEED_THRESH + 1,
              !.force = FALSE, !.fully = @ \/ full]

\* The successful branch of esdm_drng_inject for a seed that is (full) or
\* is not a full seed: the generate calls since the last seeding (gc) are
\* accumulated unless the seed is full.
InjectOk(r, full) ==
    [r EXCEPT !.rsfs = IF full THEN 0 ELSE @ + (RESEED_THRESH - r.requests),
              !.lastSeeded = now, !.requests = RESEED_THRESH,
              !.force = FALSE, !.fully = @ \/ full]

\* esdm_drng_inject: the drng_seed callback returns ok or fails; a failure
\* latches force_reseed.
esdm_drng_inject(r, full, ok) ==
    IF ok THEN InjectOk(r, full) ELSE [r EXCEPT !.force = TRUE]

SeedResults == IF SeedMayFail THEN BOOLEAN ELSE {TRUE}
GenResults == IF GenMayFail THEN BOOLEAN ELSE {TRUE}

\* esdm_init_ops (spec 4.G): the global state advances with the entropy the
\* seed buffer credited; a full seed makes the ESDM operational.
esdm_init_ops(lvl) ==
    esdmState' = CASE lvl = EntFull -> Operational
                   [] lvl = EntMin  -> Max({esdmState, MinSeeded})
                   [] OTHER         -> esdmState

\* esdm_drng_must_reseed after atomic_dec_and_test(&drng->requests).
esdm_drng_must_reseed(r) ==
    \/ r.requests - 1 = 0
    \/ r.force
    \/ esdm_time_after_now(r.lastSeeded + RESEED_MAX_TIME)

\* esdm_drng_node_instance(): the node's DRNG if the array exists.
esdm_drng_node_instance(n) == IF NodeArray THEN n ELSE InitDrng

\* Bookkeeping of the owed reseeds: a reseed that was refused or failed is
\* owed until a seed of the DRNG succeeds or the DRNG is reset.
Owe(d) == owed' = owed \cup {d}
Paid(d, ok) == owed' = IF ok THEN owed \ {d} ELSE owed \cup {d}

-----------------------------------------------------------------------------
Init ==
    /\ avail = FALSE
    \* ESDM_DRNG_STATE_INIT for the initial DRNG; the node DRNGs were
    \* allocated and reset by the node manager before any caller sees them.
    /\ drng = [d \in Drngs |->
                 [requests |-> RESEED_THRESH, rsfs |-> 0, lastSeeded |-> 0,
                  fully |-> FALSE, force |-> TRUE, drbg |-> d # InitDrng]]
    /\ lockOwner = [d \in Drngs |-> NoOne]
    /\ poolOwner = NoOne
    /\ inCb = [d \in Drngs |-> {}]
    /\ esdmState = Uninit
    /\ now = 0
    /\ pc = [a \in Actors |-> "idle"]
    /\ node = [t \in Threads |-> 0]
    /\ tgt = [a \in Threads \cup {Worker} |-> InitDrng]
    /\ chunks = [t \in Threads |-> 0]
    /\ seedLvl = [a \in Threads \cup {Worker} |-> EntNone]
    /\ calls = [t \in Threads |-> 0]
    /\ wkIdx = 0
    /\ rsIdx = 0
    /\ budget = [w \in {"work", "reset", "force", "fini"} |->
                   CASE w = "work" -> MaxSeedWork
                     [] w = "reset" -> MaxResets
                     [] w = "force" -> MaxForces
                     [] OTHER -> MaxFinalize]
    /\ rounds = 0
    /\ allocs = 0
    /\ selftestFailed = FALSE
    /\ owed = {}

-----------------------------------------------------------------------------
(* RPC worker threads: esdm_get_random_bytes{,_min,_full}                  *)

\* A thread calls one of the three interfaces for a request of n chunks.
\* esdm_get_random_bytes_full first sleeps while not operational,
\* esdm_get_random_bytes_min while not minimally seeded
\* (esdm_drng_sleep_while_nonoperational / _non_min_seeded).
StartCall(t) ==
    /\ pc[t] = "idle"
    /\ calls[t] < MaxCalls
    /\ \E a \in {"plain", "min", "full"}, n \in 1 .. MaxChunks :
          /\ chunks' = [chunks EXCEPT ![t] = n]
          /\ pc' = [pc EXCEPT ![t] = CASE a = "full" -> "wait_oper"
                                        [] a = "min"  -> "wait_min"
                                        [] OTHER      -> "select"]
    /\ calls' = [calls EXCEPT ![t] = @ + 1]
    /\ UNCHANGED <<avail, drng, lockOwner, poolOwner, inCb, esdmState, now,
                   node, tgt, seedLvl, wkIdx, rsIdx, budget, rounds, allocs,
                   selftestFailed, owed>>

\* thread_wait_event(&esdm_init_wait, cond): proceeds once cond holds.
SleepWhile(t) ==
    /\ \/ pc[t] = "wait_oper" /\ esdmState = Operational
       \/ pc[t] = "wait_min" /\ esdmState >= MinSeeded
    /\ pc' = [pc EXCEPT ![t] = "select"]
    /\ UNCHANGED <<avail, drng, lockOwner, poolOwner, inCb, esdmState, now,
                   node, tgt, chunks, seedLvl, calls, wkIdx, rsIdx,
                   budget, rounds, allocs, selftestFailed, owed>>

\* esdm_drng_get_sleep: the node's DRNG serves the request only if it is
\* fully seeded, otherwise the initial DRNG does.
GetSleepSelect(t) ==
    /\ pc[t] = "select"
    /\ \E n \in Nodes :
          /\ node' = [node EXCEPT ![t] = n]
          /\ tgt' = [tgt EXCEPT ![t] =
                        IF NodeArray /\ drng[n].fully THEN n ELSE InitDrng]
    /\ pc' = [pc EXCEPT ![t] = "init"]
    /\ UNCHANGED <<avail, drng, lockOwner, poolOwner, inCb, esdmState, now,
                   chunks, seedLvl, calls, wkIdx, rsIdx, budget, rounds,
                   allocs, selftestFailed, owed>>

\* esdm_drng_mgr_initalize, up to the unlock of the initial DRNG: nothing
\* to do if available; otherwise, under the lock of the initial DRNG, the
\* availability is checked again and the DRBG allocated and reset
\* (esdm_drng_alloc_common).  esdm_avail is only set after the unlock.
\* A failed drng_alloc skips the reset, and CKINT returns the error to the
\* caller after the unlock.
MgrInitialize(t) ==
    /\ pc[t] = "init"
    /\ \/ /\ avail
          /\ pc' = [pc EXCEPT ![t] = "get"]
          /\ UNCHANGED <<drng, allocs>>
       \/ /\ ~avail /\ lockOwner[InitDrng] = NoOne
          /\ allocs' = allocs + 1
          /\ \E ok \in IF AllocMayFail THEN BOOLEAN ELSE {TRUE} :
                IF ok
                THEN /\ drng' = [drng EXCEPT ![InitDrng] =
                                   esdm_drng_reset([@ EXCEPT !.drbg = TRUE])]
                     /\ pc' = [pc EXCEPT ![t] = "avail_set"]
                ELSE /\ pc' = [pc EXCEPT ![t] = "idle"]
                     /\ UNCHANGED drng
    /\ UNCHANGED <<avail, lockOwner, poolOwner, inCb, esdmState, now, node, tgt, chunks, seedLvl, calls, wkIdx, rsIdx, budget,
                   rounds, selftestFailed, owed>>

\* The rest of esdm_drng_mgr_initalize: atomic_set(&esdm_avail, 1), then
\* esdm_drng_mgr_selftest on the node instance (the DRBG self test runs
\* under its lock).  A failed self test is returned to the caller.
MgrSelftest(t) ==
    /\ pc[t] = "avail_set"
    /\ lockOwner[esdm_drng_node_instance(node[t])] = NoOne
    /\ avail' = TRUE
    /\ \E ok \in IF SelftestMayFail THEN BOOLEAN ELSE {TRUE} :
          /\ pc' = [pc EXCEPT ![t] = IF ok THEN "get" ELSE "idle"]
          /\ selftestFailed' = (selftestFailed \/ ~ok)
    /\ UNCHANGED <<drng, lockOwner, poolOwner, inCb, esdmState, now, node, tgt, chunks, seedLvl, calls, wkIdx, rsIdx, budget,
                   rounds, allocs, owed>>

\* esdm_drng_get entry: a DRNG that generated more than
\* drng_max_wo_reseed times since its last full seed is no longer fully
\* seeded (esdm_unset_fully_seeded).  avail is set here.
DrngGet(t) ==
    /\ pc[t] = "get"
    /\ LET d == tgt[t] IN
         drng' = [drng EXCEPT ![d].fully =
                    IF drng[d].rsfs > MAX_WO_RESEED THEN FALSE ELSE @]
    /\ pc' = [pc EXCEPT ![t] = "must"]
    /\ UNCHANGED <<avail, lockOwner, poolOwner, inCb, esdmState, now, node, tgt, chunks, seedLvl, calls, wkIdx, rsIdx, budget,
                   rounds, allocs, selftestFailed, owed>>

\* Mutant: the result of esdm_pool_trylock() read the wrong way round
\* (nonzero taken as "acquired").
DrngGetTrylockInverted(t) ==
    /\ pc[t] = "must"
    /\ LET d == tgt[t]
           must == esdm_drng_must_reseed(drng[d])
       IN /\ \/ /\ ~must
                /\ drng' = [drng EXCEPT ![d].requests = @ - 1]
                /\ pc' = [pc EXCEPT ![t] = "gen"]
                /\ UNCHANGED <<poolOwner, owed>>
             \/ /\ must /\ poolOwner = NoOne
                /\ drng' = [drng EXCEPT ![d].requests = @ - 1,
                                         ![d].force = TRUE]
                /\ pc' = [pc EXCEPT ![t] = "gen"]
                /\ Owe(d)
                /\ UNCHANGED poolOwner
             \/ /\ must /\ poolOwner # NoOne
                /\ drng' = [drng EXCEPT ![d].requests = @ - 1]
                /\ poolOwner' = t
                /\ pc' = [pc EXCEPT ![t] = "seed_fill"]
                /\ UNCHANGED owed
    /\ UNCHANGED <<avail, lockOwner, inCb, esdmState, now, node, tgt,
                   chunks, seedLvl, calls, wkIdx, rsIdx, budget, rounds,
                   allocs, selftestFailed>>

\* Loop head of esdm_drng_get: esdm_drng_must_reseed decrements requests;
\* if a reseed is due and the pool lock is taken, force_reseed is set and
\* the chunk is generated anyway; if the lock is free, this thread seeds.
DrngGetMustReseed(t) ==
    /\ pc[t] = "must"
    /\ LET d == tgt[t]
           must == esdm_drng_must_reseed(drng[d])
       IN /\ \/ /\ ~must
                /\ drng' = [drng EXCEPT ![d].requests = @ - 1]
                /\ pc' = [pc EXCEPT ![t] = "gen"]
                /\ UNCHANGED <<poolOwner, owed>>
             \/ /\ must /\ poolOwner # NoOne
                /\ drng' = [drng EXCEPT ![d].requests = @ - 1,
                                         ![d].force = TRUE]
                /\ pc' = [pc EXCEPT ![t] = "gen"]
                /\ Owe(d)
                /\ UNCHANGED poolOwner
             \/ /\ must /\ poolOwner = NoOne
                /\ drng' = [drng EXCEPT ![d].requests = @ - 1]
                /\ poolOwner' = t
                /\ pc' = [pc EXCEPT ![t] = "seed_fill"]
                /\ UNCHANGED owed
    /\ UNCHANGED <<avail, lockOwner, inCb, esdmState, now, node, tgt,
                   chunks, seedLvl, calls, wkIdx, rsIdx, budget, rounds,
                   allocs, selftestFailed>>

\* esdm_drng_seed, avail branch, first half: esdm_fill_seed_buffer fills
\* the seed buffer with whatever entropy the sources credit.
SeedFill(t) ==
    /\ pc[t] = "seed_fill"
    /\ \E lvl \in EntLevels : seedLvl' = [seedLvl EXCEPT ![t] = lvl]
    /\ pc' = [pc EXCEPT ![t] = "seed_inject"]
    /\ UNCHANGED <<avail, drng, lockOwner, poolOwner, inCb, esdmState, now,
                   node, tgt, chunks, calls, wkIdx, rsIdx, budget, rounds,
                   allocs, selftestFailed, owed>>

\* esdm_drng_inject returns at once while drng->drng is NULL, and
\* otherwise enters drng_cb->drng_seed.  On this path the caller holds the
\* pool lock but not drng->lock.
SeedInjectBegin(t) ==
    /\ pc[t] = "seed_inject"
    /\ inCb' = IF drng[tgt[t]].drbg THEN [inCb EXCEPT ![tgt[t]] = @ \cup {t}]
                                   ELSE inCb
    /\ pc' = [pc EXCEPT ![t] = "seed_inject_end"]
    /\ UNCHANGED <<avail, drng, lockOwner, poolOwner, esdmState, now, node, tgt, chunks, seedLvl, calls, wkIdx, rsIdx, budget,
                   rounds, allocs, selftestFailed, owed>>

\* drng_seed returns and esdm_drng_inject books the result (nothing if it
\* returned early), esdm_init_ops advances the state with the seed buffer,
\* and esdm_drng_get releases the pool lock (esdm_pool_unlock).
SeedInjectEnd(t) ==
    /\ pc[t] = "seed_inject_end"
    /\ LET d == tgt[t] IN
         \/ /\ t \in inCb[d]
            /\ \E ok \in SeedResults :
                  /\ drng' = [drng EXCEPT ![d] =
                                esdm_drng_inject(@, seedLvl[t] = EntFull, ok)]
                  /\ inCb' = [inCb EXCEPT ![d] = @ \ {t}]
                  /\ Paid(d, ok)
         \/ /\ t \notin inCb[d]
            /\ UNCHANGED <<drng, inCb, owed>>
    /\ esdm_init_ops(seedLvl[t])
    /\ seedLvl' = [seedLvl EXCEPT ![t] = EntNone]
    /\ poolOwner' = NoOne
    /\ pc' = [pc EXCEPT ![t] = "gen"]
    /\ UNCHANGED <<avail, lockOwner, now, node, tgt, chunks,
                   calls, wkIdx, rsIdx, budget, rounds, allocs, selftestFailed>>

\* One chunk: drng_cb->drng_generate under drng->lock.
GenLock(t) ==
    /\ pc[t] = "gen"
    /\ lockOwner[tgt[t]] = NoOne
    /\ lockOwner' = [lockOwner EXCEPT ![tgt[t]] = t]
    /\ inCb' = [inCb EXCEPT ![tgt[t]] = @ \cup {t}]
    /\ pc' = [pc EXCEPT ![t] = "gen_end"]
    /\ UNCHANGED <<avail, drng, poolOwner, esdmState, now, node, tgt,
                   chunks, seedLvl, calls, wkIdx, rsIdx, budget, rounds,
                   allocs, selftestFailed, owed>>

\* Mutant: a failed drng_generate is retried (continue) instead of
\* ending the call with -EFAULT.
GenEndRetriesOnError(t) ==
    /\ pc[t] = "gen_end"
    /\ lockOwner' = [lockOwner EXCEPT ![tgt[t]] = NoOne]
    /\ inCb' = [inCb EXCEPT ![tgt[t]] = @ \ {t}]
    /\ \E ok \in GenResults :
          CASE ~ok -> UNCHANGED chunks /\ pc' = [pc EXCEPT ![t] = "gen"]
            [] ok /\ chunks[t] > 1 ->
                 /\ chunks' = [chunks EXCEPT ![t] = @ - 1]
                 /\ pc' = [pc EXCEPT ![t] = "must"]
            [] OTHER -> /\ chunks' = [chunks EXCEPT ![t] = 0]
                        /\ pc' = [pc EXCEPT ![t] = "idle"]
    /\ UNCHANGED <<avail, drng, poolOwner, esdmState, now, node, tgt,
                   seedLvl, calls, wkIdx, rsIdx, budget, rounds, allocs,
                   selftestFailed, owed>>

\* drng_generate returns and the lock is released; a result <= 0 ends the
\* call with -EFAULT, otherwise the loop goes on while output remains.
GenEnd(t) ==
    /\ pc[t] = "gen_end"
    /\ lockOwner' = [lockOwner EXCEPT ![tgt[t]] = NoOne]
    /\ inCb' = [inCb EXCEPT ![tgt[t]] = @ \ {t}]
    /\ \E ok \in GenResults :
          IF ok /\ chunks[t] > 1
          THEN /\ chunks' = [chunks EXCEPT ![t] = @ - 1]
               /\ pc' = [pc EXCEPT ![t] = "must"]
          ELSE /\ chunks' = [chunks EXCEPT ![t] = 0]
               /\ pc' = [pc EXCEPT ![t] = "idle"]
    /\ UNCHANGED <<avail, drng, poolOwner, esdmState, now, node, tgt,
                   seedLvl, calls, wkIdx, rsIdx, budget, rounds, allocs,
                   selftestFailed, owed>>

-----------------------------------------------------------------------------
(* The seeding worker: esdm_drng_seed_work, started with the pool lock held *)

\* The entropy-source manager took the pool lock and runs the seed work.
SeedWorkStart ==
    /\ pc[Worker] = "idle"
    /\ budget["work"] > 0
    /\ poolOwner = NoOne
    /\ poolOwner' = Worker
    /\ budget' = [budget EXCEPT !["work"] = @ - 1]
    /\ rounds' = 0
    /\ wkIdx' = 0
    /\ pc' = [pc EXCEPT ![Worker] = "wk_scan"]
    /\ UNCHANGED <<avail, drng, lockOwner, inCb, esdmState, now, node,
                   tgt, chunks, seedLvl, calls, rsIdx, allocs, selftestFailed,
                   owed>>

\* __esdm_drng_seed_work: with a node array, the first node DRNG that is
\* not fully seeded (checked under its lock) is seeded and the scan ends;
\* without one, the initial DRNG is seeded unless it is fully seeded.
\* If nothing needs seeding, esdm_pool_all_nodes_seeded(true) follows.
SeedWorkScan ==
    /\ pc[Worker] = "wk_scan"
    /\ IF NodeArray
       THEN LET n == wkIdx IN
            /\ lockOwner[n] = NoOne
            /\ IF ~drng[n].fully
               THEN /\ lockOwner' = [lockOwner EXCEPT ![n] = Worker]
                    /\ tgt' = [tgt EXCEPT ![Worker] = n]
                    /\ pc' = [pc EXCEPT ![Worker] = "wk_fill"]
                    /\ UNCHANGED wkIdx
               ELSE /\ UNCHANGED <<lockOwner, tgt>>
                    /\ IF n + 1 < NumNodes
                       THEN /\ wkIdx' = n + 1
                            /\ UNCHANGED pc
                       ELSE /\ pc' = [pc EXCEPT ![Worker] = "wk_out"]
                            /\ UNCHANGED wkIdx
       ELSE /\ UNCHANGED wkIdx
            /\ IF drng[InitDrng].fully
               THEN /\ pc' = [pc EXCEPT ![Worker] = "wk_out"]
                    /\ UNCHANGED <<lockOwner, tgt>>
               ELSE /\ lockOwner[InitDrng] = NoOne
                    /\ lockOwner' = [lockOwner EXCEPT ![InitDrng] = Worker]
                    /\ tgt' = [tgt EXCEPT ![Worker] = InitDrng]
                    /\ pc' = [pc EXCEPT ![Worker] = "wk_fill"]
    /\ UNCHANGED <<avail, drng, poolOwner, inCb, esdmState, now, node,
                   chunks, seedLvl, calls, rsIdx, budget, rounds, allocs,
                   selftestFailed, owed>>

\* esdm_drng_seed_work_one: after esdm_drng_seed a fully seeded DRNG gets
\* its last_seeded pushed node * 60 s into the future (reseed storm).
StaggerNode(r, d) ==
    IF r.fully
    THEN [r EXCEPT !.lastSeeded = @ + (IF d = InitDrng THEN 0 ELSE d) * NODE_STAGGER]
    ELSE r

\* esdm_drng_seed from the worker: if the ESDM is available, the seed
\* buffer is filled; otherwise no DRNG is seeded (the atomic DRNG path),
\* and esdm_drng_seed_work_one ends, unlocking the DRNG.
SeedWorkFill ==
    /\ pc[Worker] = "wk_fill"
    /\ IF avail
       THEN /\ \E lvl \in EntLevels : seedLvl' = [seedLvl EXCEPT ![Worker] = lvl]
            /\ pc' = [pc EXCEPT ![Worker] = "wk_inject"]
            /\ UNCHANGED <<drng, lockOwner>>
       ELSE /\ drng' = [drng EXCEPT ![tgt[Worker]] = StaggerNode(@, tgt[Worker])]
            /\ lockOwner' = [lockOwner EXCEPT ![tgt[Worker]] = NoOne]
            /\ pc' = [pc EXCEPT ![Worker] = "wk_out"]
            /\ UNCHANGED seedLvl
    /\ UNCHANGED <<avail, poolOwner, inCb, esdmState, now, node, tgt,
                   chunks, calls, wkIdx, rsIdx, budget, rounds, allocs,
                   selftestFailed, owed>>

\* esdm_drng_inject returns at once while drng->drng is NULL, and
\* otherwise enters drng_seed, here with drng->lock held.
SeedWorkInjectBegin ==
    /\ pc[Worker] = "wk_inject"
    /\ inCb' = IF drng[tgt[Worker]].drbg
               THEN [inCb EXCEPT ![tgt[Worker]] = @ \cup {Worker}]
               ELSE inCb
    /\ pc' = [pc EXCEPT ![Worker] = "wk_inject_end"]
    /\ UNCHANGED <<avail, drng, lockOwner, poolOwner, esdmState, now, node, tgt, chunks, seedLvl, calls, wkIdx, rsIdx, budget,
                   rounds, allocs, selftestFailed, owed>>

\* drng_seed returns: the inject is booked (nothing if it returned early),
\* esdm_init_ops runs, the node stagger is applied and the DRNG's lock
\* released.
SeedWorkInjectEnd ==
    /\ pc[Worker] = "wk_inject_end"
    /\ LET d == tgt[Worker] IN
         /\ lockOwner' = [lockOwner EXCEPT ![d] = NoOne]
         /\ \/ /\ Worker \in inCb[d]
               /\ \E ok \in SeedResults :
                     /\ drng' = [drng EXCEPT ![d] =
                           StaggerNode(esdm_drng_inject(@, seedLvl[Worker] = EntFull, ok), d)]
                     /\ inCb' = [inCb EXCEPT ![d] = @ \ {Worker}]
                     /\ Paid(d, ok)
            \/ /\ Worker \notin inCb[d]
               /\ drng' = [drng EXCEPT ![d] = StaggerNode(@, d)]
               /\ UNCHANGED <<inCb, owed>>
    /\ esdm_init_ops(seedLvl[Worker])
    /\ seedLvl' = [seedLvl EXCEPT ![Worker] = EntNone]
    /\ pc' = [pc EXCEPT ![Worker] = "wk_out"]
    /\ UNCHANGED <<avail, poolOwner, now, node, tgt, chunks,
                   calls, wkIdx, rsIdx, budget, rounds, allocs, selftestFailed>>

\* Mutant: the loop ends without esdm_pool_unlock().
SeedWorkLoopNoUnlock ==
    /\ pc[Worker] = "wk_out"
    /\ \/ /\ rounds < MaxRounds
          /\ rounds' = rounds + 1
          /\ wkIdx' = 0
          /\ pc' = [pc EXCEPT ![Worker] = "wk_scan"]
       \/ /\ pc' = [pc EXCEPT ![Worker] = "idle"]
          /\ UNCHANGED <<rounds, wkIdx>>
    /\ UNCHANGED <<avail, drng, lockOwner, poolOwner, inCb, esdmState, now,
                   node, tgt, chunks, seedLvl, calls, rsIdx, budget, allocs,
                   selftestFailed, owed>>

\* _esdm_drng_seed_work: the work repeats while esdm_es_reseed_wanted();
\* then the pool lock is released.
SeedWorkLoop ==
    /\ pc[Worker] = "wk_out"
    /\ \/ /\ rounds < MaxRounds
          /\ rounds' = rounds + 1
          /\ wkIdx' = 0
          /\ pc' = [pc EXCEPT ![Worker] = "wk_scan"]
          /\ UNCHANGED poolOwner
       \/ /\ poolOwner' = NoOne
          /\ pc' = [pc EXCEPT ![Worker] = "idle"]
          /\ UNCHANGED <<rounds, wkIdx>>
    /\ UNCHANGED <<avail, drng, lockOwner, inCb, esdmState, now, node,
                   tgt, chunks, seedLvl, calls, rsIdx, budget, allocs,
                   selftestFailed, owed>>

-----------------------------------------------------------------------------
(* esdm_reset, esdm_drng_force_reseed and the clock                        *)

\* esdm_reset starts the thread _esdm_reset.
ResetStart ==
    /\ pc[Resetter] = "idle"
    /\ budget["reset"] > 0
    /\ budget' = [budget EXCEPT !["reset"] = @ - 1]
    /\ rsIdx' = 0
    /\ pc' = [pc EXCEPT ![Resetter] = "rs_inst"]
    /\ UNCHANGED <<avail, drng, lockOwner, poolOwner, inCb, esdmState, now,
                   node, tgt, chunks, seedLvl, calls, wkIdx, rounds,
                   allocs, selftestFailed, owed>>

\* _esdm_reset: every node DRNG, or the initial DRNG if there is no node
\* array, is reset under its lock, one after the other.  The pool lock is
\* not taken.
ResetInstance ==
    /\ pc[Resetter] = "rs_inst"
    /\ LET d == IF NodeArray THEN rsIdx ELSE InitDrng IN
         /\ lockOwner[d] = NoOne
         /\ drng' = [drng EXCEPT ![d] = esdm_drng_reset(@)]
         /\ owed' = owed \ {d}
    /\ IF NodeArray /\ rsIdx + 1 < NumNodes
       THEN /\ rsIdx' = rsIdx + 1
            /\ UNCHANGED pc
       ELSE /\ pc' = [pc EXCEPT ![Resetter] = "rs_state"]
            /\ UNCHANGED rsIdx
    /\ UNCHANGED <<avail, lockOwner, poolOwner, inCb, esdmState, now, node, tgt, chunks, seedLvl, calls, wkIdx, budget, rounds,
                   allocs, selftestFailed>>

\* The end of _esdm_reset: esdm_drng_atomic_reset, the entropy threshold
\* back to ESDM_INIT_ENTROPY_BITS, and esdm_reset_state.
ResetState ==
    /\ pc[Resetter] = "rs_state"
    /\ esdmState' = Uninit
    /\ pc' = [pc EXCEPT ![Resetter] = "idle"]
    /\ UNCHANGED <<avail, drng, lockOwner, poolOwner, inCb, now, node,
                   tgt, chunks, seedLvl, calls, wkIdx, rsIdx, budget, rounds,
                   allocs, selftestFailed, owed>>

\* esdm_drng_force_reseed (no lock taken): only the initial DRNG if there
\* is no node array or the initial DRNG generated more than
\* ESDM_DRNG_RESEED_THRESH times since its last full seed; otherwise every
\* node DRNG.  force_reseed is set to the DRNG's fully_seeded flag.
esdm_drng_force_reseed ==
    /\ budget["force"] > 0
    /\ budget' = [budget EXCEPT !["force"] = @ - 1]
    /\ IF ~NodeArray \/ drng[InitDrng].rsfs > RESEED_THRESH
       THEN drng' = [drng EXCEPT ![InitDrng].force = drng[InitDrng].fully]
       ELSE drng' = [d \in Drngs |->
                       IF d \in NodeDrngs
                       THEN [drng[d] EXCEPT !.force = drng[d].fully]
                       ELSE drng[d]]
    /\ UNCHANGED <<avail, lockOwner, poolOwner, inCb, esdmState, now, pc, node, tgt, chunks, seedLvl, calls, wkIdx, rsIdx, rounds,
                   allocs, selftestFailed, owed>>

\* esdm_drng_mgr_finalize, called once by the shutdown of the ESDM: under
\* the lock of the initial DRNG its DRBG state is deallocated and
\* drng->drng set to NULL.  esdm_avail is left set, and the node DRNGs are
\* not touched.
Finalize ==
    /\ budget["fini"] > 0
    /\ lockOwner[InitDrng] = NoOne
    /\ drng' = [drng EXCEPT ![InitDrng].drbg = FALSE]
    /\ budget' = [budget EXCEPT !["fini"] = @ - 1]
    /\ UNCHANGED <<avail, lockOwner, poolOwner, inCb, esdmState, now, pc, node, tgt, chunks, seedLvl, calls, wkIdx, rsIdx,
                   rounds, allocs, selftestFailed, owed>>

\* Wall-clock time advances.
Tick ==
    /\ now < MaxTime
    /\ now' = now + 1
    /\ UNCHANGED <<avail, drng, lockOwner, poolOwner, inCb, esdmState, pc, node, tgt, chunks, seedLvl, calls, wkIdx, rsIdx, budget,
                   rounds, allocs, selftestFailed, owed>>

\* Every bounded caller has finished; threads may still sleep in
\* thread_wait_event for a state that no further seeding brings.
Stopped ==
    /\ \A t \in Threads :
          \/ pc[t] = "idle" /\ calls[t] = MaxCalls
          \/ pc[t] \in {"wait_oper", "wait_min"}
    /\ pc[Worker] = "idle" /\ pc[Resetter] = "idle"
    /\ \A w \in DOMAIN budget : budget[w] = 0
    /\ now = MaxTime
    /\ UNCHANGED vars

-----------------------------------------------------------------------------
Thread(t) ==
    \/ StartCall(t)
    \/ SleepWhile(t)
    \/ GetSleepSelect(t)
    \/ MgrInitialize(t)
    \/ MgrSelftest(t)
    \/ DrngGet(t)
    \/ DrngGetMustReseed(t)
    \/ SeedFill(t)
    \/ SeedInjectBegin(t)
    \/ SeedInjectEnd(t)
    \/ GenLock(t)
    \/ GenEnd(t)

\* The steps of a call after it was made (the caller's choice to call is
\* not required to happen).
ThreadProgress(t) == Thread(t) /\ pc[t] # "idle"

SeedWork ==
    \/ SeedWorkStart
    \/ SeedWorkScan
    \/ SeedWorkFill
    \/ SeedWorkInjectBegin
    \/ SeedWorkInjectEnd
    \/ SeedWorkLoop

Reset == ResetStart \/ ResetInstance \/ ResetState

Next ==
    \/ \E t \in Threads : Thread(t)
    \/ SeedWork
    \/ Reset
    \/ esdm_drng_force_reseed
    \/ Finalize
    \/ Tick
    \/ Stopped

\* Threads are scheduled by the OS: a runnable thread eventually runs.
\* Nobody is obliged to call, to reset, to force a reseed or to deliver
\* entropy, and time need not pass.
Fairness ==
    /\ \A t \in Threads : WF_vars(ThreadProgress(t))
    /\ WF_vars(SeedWork /\ pc[Worker] # "idle")
    /\ WF_vars(ResetInstance \/ ResetState)

Spec == Init /\ [][Next]_vars
FairSpec == Spec /\ Fairness

-----------------------------------------------------------------------------
(* Properties                                                              *)

ThreadPcs == {"idle", "wait_oper", "wait_min", "select", "init", "avail_set",
              "get", "must", "seed_fill", "seed_inject", "seed_inject_end",
              "gen", "gen_end"}
WorkerPcs == {"idle", "wk_scan", "wk_fill", "wk_inject", "wk_inject_end",
              "wk_out"}
ResetPcs == {"idle", "rs_inst", "rs_state"}

TypeOK ==
    /\ avail \in BOOLEAN
    /\ \A d \in Drngs :
          /\ drng[d].requests \in Int /\ drng[d].requests <= RESEED_THRESH
          /\ drng[d].rsfs \in Nat
          /\ drng[d].lastSeeded \in Nat
          /\ drng[d].fully \in BOOLEAN /\ drng[d].force \in BOOLEAN
          /\ drng[d].drbg \in BOOLEAN
    /\ lockOwner \in [Drngs -> Actors \cup {NoOne}]
    /\ poolOwner \in Threads \cup {Worker, NoOne}
    /\ inCb \in [Drngs -> SUBSET (Threads \cup {Worker})]
    /\ esdmState \in Uninit .. Operational
    /\ now \in 0 .. MaxTime
    /\ \A t \in Threads : pc[t] \in ThreadPcs
    /\ pc[Worker] \in WorkerPcs /\ pc[Resetter] \in ResetPcs
    /\ tgt \in [Threads \cup {Worker} -> Drngs]
    /\ node \in [Threads -> Nodes]
    /\ chunks \in [Threads -> 0 .. MaxChunks]
    /\ seedLvl \in [Threads \cup {Worker} -> EntLevels]
    /\ owed \subseteq Drngs

SeedingPcs == {"seed_fill", "seed_inject", "seed_inject_end",
               "wk_fill", "wk_inject", "wk_inject_end"}

\* Spec 5 / 8.5: at most one reseed is in flight in the whole ESDM.  The
\* generate path seeds only when esdm_pool_trylock() reports the lock
\* was free, and the seeding worker runs only with the pool lock held.
SingleSeedInFlight ==
    Cardinality({a \in Threads \cup {Worker} : pc[a] \in SeedingPcs}) <= 1

\* The pool lock as spec.md sections 5 and 8 describe it (PoolLock): one
\* holder at a time, only the holder reseeds (the generate path after
\* esdm_pool_trylock() reported it free, the worker after the
\* entropy-source manager took it), and every holder gives it back.  A
\* leaked pool lock would silently stop all reseeding, because generators
\* that find it taken only set force_reseed.
Pool == INSTANCE PoolLock WITH
          Holders <- Threads \cup {Worker},
          holder <- poolOwner,
          seeding <- {a \in Threads \cup {Worker} : pc[a] \in SeedingPcs}

PoolLockRefined == Pool!FairSpec

RunningPcs == ThreadPcs \ {"idle", "wait_oper", "wait_min"}

\* A call of esdm_get_random_bytes* that is past its sleep returns: the
\* DRNG locks, the pool lock and the seeding worker never block it forever.
CallsReturn == \A t \in Threads : (pc[t] \in RunningPcs) ~> (pc[t] = "idle")

\* Spec 5: within one DRNG instance, seed and generate calls are
\* serialised by the instance lock: at most one actor is inside a
\* drng_seed or drng_generate callback of one DRBG state.
DrbgCallbacksExclusive == \A d \in Drngs : Cardinality(inCb[d]) <= 1

\* The DRBG of the initial DRNG is allocated once
\* (esdm_drng_mgr_initalize is idempotent).
InitDrngAllocatedOnce == allocs <= 1

\* Spec 4.E / 7: a failed self test is fatal and the ESDM does not become
\* available, so no DRNG generates random bytes after it.
NoOutputAfterFailedSelftest ==
    selftestFailed => \A t \in Threads : pc[t] # "gen_end"

\* Spec 7: when a reseed was refused (pool lock taken) or failed,
\* force_reseed stays latched until the DRNG is seeded, so the next
\* generate retries it.
ReseedRequestLatched == \A d \in owed : drng[d].force

\* A drng_cb callback runs only on an allocated DRBG state.
FreedDrbgUnused == \A d \in Drngs : inCb[d] # {} => drng[d].drbg
====
