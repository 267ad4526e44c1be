------------------------------- MODULE PoolLock -------------------------------
(***************************************************************************)
(* What the ESDM's global pool lock promises (spec.md sections 5 and 8):  *)
(* one actor at a time holds it, only the holder reseeds a DRNG, and a    *)
(* holder gives it back.  Whoever takes the lock may start reseeding at   *)
(* once, and may stop and start again while it holds it.                  *)
(***************************************************************************)
CONSTANTS
    Holders,    \* the actors that take the pool lock
    NoOne       \* the lock is free

VARIABLES
    holder,     \* who holds the pool lock, or NoOne
    seeding     \* the actors that are reseeding a DRNG

avars == <<holder, seeding>>

Init == holder = NoOne /\ seeding = {}

\* The free lock is taken, and the taker may begin a reseed in the same
\* step.
Acquire(a) ==
    /\ holder = NoOne
    /\ holder' = a
    /\ seeding' \in {{}, {a}}

\* The holder begins or ends a reseed.
Seed(a) ==
    /\ holder = a
    /\ seeding' \in {{}, {a}}
    /\ UNCHANGED holder

\* The holder gives the lock back; a reseed it was doing ends with it.
Release(a) ==
    /\ holder = a
    /\ holder' = NoOne
    /\ seeding' = {}

Next == \E a \in Holders : Acquire(a) \/ Seed(a) \/ Release(a)

Spec == Init /\ [][Next]_avars

\* Every holder eventually gives the lock back.
FairSpec == Spec /\ \A a \in Holders : WF_avars(Release(a))
====
