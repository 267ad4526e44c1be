---------------------------- MODULE EsdmCusePoll ----------------------------
(***************************************************************************)
(* The poll support of the CUSE device frontend (cuse_device.c lines      *)
(* 700-813): esdm_cuse_poll, called by libfuse for a poll(2) on an open   *)
(* /dev/random file, answers with the current readiness and, if nothing   *)
(* is ready, parks the kernel's poll handle in the table esdm_cuse_polls; *)
(* the thread esdm_cuse_poll_checker scans the table under                *)
(* esdm_cuse_ph_lock, notifies and frees every handle whose events became *)
(* ready, and then sleeps on the status semaphore until the daemon posts  *)
(* it.                                                                     *)
(*                                                                         *)
(* The daemon side (update of the shared status record and the post of   *)
(* the semaphore) is not under src/ and is modelled from spec.md section  *)
(* 4.H: every state change updates the record and posts once.             *)
(***************************************************************************)
EXTENDS Integers, FiniteSets, FiniteSetsExt

CONSTANTS
    Files,        \* open files of the device that poll
    FH,           \* fi->fh of every open file (esdm_cuse_open leaves it)
    NumSlots,     \* ESDM_CUSE_MAX_PH
    MaxPolls,     \* bound on the poll requests of each file
    MaxPosts,     \* bound on the daemon's status changes
    NoPh          \* a NULL struct fuse_pollhandle pointer

ASSUME
    /\ NumSlots \in Nat \ {0}
    /\ FH \in [Files -> Nat]
    /\ MaxPolls \in Nat /\ MaxPosts \in Nat

Slots == 1 .. NumSlots

\* A poll handle the kernel hands over: the file and the number of its poll.
Handles == Files \X (1 .. MaxPolls)

\* The two readiness events: POLLIN|POLLRDNORM and POLLOUT|POLLWRNORM.
Events == {"in", "out"}

EmptySlot == [fh |-> 0, ph |-> NoPh, ev |-> {}]

VARIABLES
    shm,          \* esdm_cuse_shm_status: operational, need_entropy
    sem,          \* value of the status semaphore
    slots,        \* esdm_cuse_polls
    lockHeld,     \* esdm_cuse_ph_lock held by the checker thread
    pc,           \* program counter of the poll request of each file
    req,          \* the pending request: its events and its handle
    npolls,       \* poll requests made per file
    cpc,          \* program counter of esdm_cuse_poll_checker
    ci,           \* slot the checker's scan is at
    posts,        \* status changes made by the daemon
    notified,     \* handles passed to fuse_notify_poll
    destroyed,    \* fuse_pollhandle_destroy calls per handle
    zombie,       \* handles notified after they were destroyed
    silent,       \* <<handle, file>>: the poll of file freed the handle unnotified
    replies       \* replies sent to each file's current request

vars == <<shm, sem, slots, lockHeld, pc, req, npolls, cpc, ci, posts,
          notified, destroyed, zombie, silent, replies>>

-----------------------------------------------------------------------------
\* esdm_cuse_set_pollmask: the events the status makes ready, restricted to
\* the requested ones.
esdm_cuse_set_pollmask(ev) ==
    LET ready == (IF shm.operational THEN {"in"} ELSE {})
                   \cup (IF shm.need_entropy THEN {"out"} ELSE {})
    IN ready \cap ev

\* fuse_notify_poll followed by fuse_pollhandle_destroy on handle h.
NotifyDestroy(h) ==
    /\ notified' = notified \cup {h}
    /\ destroyed' = [destroyed EXCEPT ![h] = @ + 1]
    /\ zombie' = IF destroyed[h] > 0 THEN zombie \cup {h} ELSE zombie

Init ==
    /\ shm = [operational |-> FALSE, need_entropy |-> FALSE]
    /\ sem = 0
    /\ slots = [i \in Slots |-> EmptySlot]
    /\ lockHeld = FALSE
    /\ pc = [f \in Files |-> "idle"]
    /\ req = [f \in Files |-> [ev |-> {}, ph |-> NoPh]]
    /\ npolls = [f \in Files |-> 0]
    /\ cpc = "clear"
    /\ ci = 1
    /\ posts = 0
    /\ notified = {}
    /\ destroyed = [h \in Handles |-> 0]
    /\ zombie = {}
    /\ silent = {}
    /\ replies = [f \in Files |-> 0]

-----------------------------------------------------------------------------
(* esdm_cuse_poll                                                          *)

\* Up to the lock: poll_events 0 is refused with EINVAL; otherwise the
\* current mask is replied.  Without a handle the call ends; with a ready
\* mask the handle is notified and freed at once; else it is registered.
PollStart(f) ==
    /\ pc[f] = "idle"
    /\ npolls[f] < MaxPolls
    /\ npolls' = [npolls EXCEPT ![f] = @ + 1]
    /\ replies' = [replies EXCEPT ![f] = 1]
    /\ \E ev \in SUBSET Events, hasPh \in BOOLEAN :
         LET h == <<f, npolls[f] + 1>>
             mask == esdm_cuse_set_pollmask(ev)
         IN \/ /\ ev = {} \/ ~hasPh
               /\ UNCHANGED <<pc, req, notified, destroyed, zombie>>
            \/ /\ ev # {} /\ hasPh /\ mask # {}
               /\ NotifyDestroy(h)
               /\ UNCHANGED <<pc, req>>
            \/ /\ ev # {} /\ hasPh /\ mask = {}
               /\ pc' = [pc EXCEPT ![f] = "register"]
               /\ req' = [req EXCEPT ![f] = [ev |-> ev, ph |-> h]]
               /\ UNCHANGED <<notified, destroyed, zombie>>
    /\ UNCHANGED <<shm, sem, slots, lockHeld, cpc, ci, posts, silent>>

\* The first slot that is free or holds a handle of the same fi->fh: the
\* loop skips every other occupied slot and breaks there.
FirstSlot(fh) ==
    LET cand == {i \in Slots : slots[i].ph = NoPh \/ slots[i].fh = fh}
    IN IF cand = {} THEN 0 ELSE Min(cand)

\* Under esdm_cuse_ph_lock: a handle of the same fh in that slot is freed
\* and replaced by the new one; with no such slot the request is answered
\* a second time, with EBUSY.
PollRegister(f) ==
    /\ pc[f] = "register"
    /\ ~lockHeld
    /\ LET i == FirstSlot(FH[f])
           h == req[f].ph
       IN IF i = 0
          THEN /\ replies' = [replies EXCEPT ![f] = @ + 1]
               /\ UNCHANGED <<slots, destroyed, zombie, silent>>
          ELSE LET old == slots[i].ph IN
               /\ slots' = [slots EXCEPT ![i] =
                              [fh |-> FH[f], ph |-> h, ev |-> req[f].ev]]
               /\ IF slots[i].fh = FH[f] /\ old # NoPh
                  THEN /\ destroyed' = [destroyed EXCEPT ![old] = @ + 1]
                       /\ zombie' = IF destroyed[old] > 0
                                    THEN zombie \cup {old} ELSE zombie
                       /\ silent' = IF old \in notified THEN silent
                                    ELSE silent \cup {<<old, f>>}
                  ELSE UNCHANGED <<destroyed, zombie, silent>>
               /\ UNCHANGED replies
    /\ pc' = [pc EXCEPT ![f] = "idle"]
    /\ UNCHANGED <<shm, sem, lockHeld, req, npolls, cpc, ci, posts, notified>>

-----------------------------------------------------------------------------
(* esdm_cuse_poll_checker                                                  *)

\* The thread first cleans out the table, without taking the lock.
CheckerClear ==
    /\ cpc = "clear"
    /\ slots' = [i \in Slots |-> EmptySlot]
    /\ cpc' = "lock"
    /\ UNCHANGED <<shm, sem, lockHeld, pc, req, npolls, ci, posts, notified,
                   destroyed, zombie, silent, replies>>

CheckerLock ==
    /\ cpc = "lock"
    /\ lockHeld' = TRUE
    /\ ci' = 1
    /\ cpc' = "scan"
    /\ UNCHANGED <<shm, sem, slots, pc, req, npolls, posts, notified,
                   destroyed, zombie, silent, replies>>

\* Mutant: the scan runs one slot past the table (i <= ESDM_CUSE_MAX_PH).
CheckerSlotPastEnd ==
    /\ cpc = "scan"
    /\ LET s == slots[ci] IN
         IF s.ph # NoPh /\ esdm_cuse_set_pollmask(s.ev) # {}
         THEN /\ NotifyDestroy(s.ph)
              /\ slots' = [slots EXCEPT ![ci] = EmptySlot]
         ELSE UNCHANGED <<slots, notified, destroyed, zombie>>
    /\ IF ci <= NumSlots
       THEN /\ ci' = ci + 1
            /\ UNCHANGED <<cpc, lockHeld>>
       ELSE /\ lockHeld' = FALSE
            /\ cpc' = "down"
            /\ UNCHANGED ci
    /\ UNCHANGED <<shm, sem, pc, req, npolls, posts, silent, replies>>

\* Mutant: the notified handle is freed but its slot is not cleared.
CheckerSlotKeepsHandle ==
    /\ cpc = "scan"
    /\ LET s == slots[ci] IN
         IF s.ph # NoPh /\ esdm_cuse_set_pollmask(s.ev) # {}
         THEN NotifyDestroy(s.ph)
         ELSE UNCHANGED <<notified, destroyed, zombie>>
    /\ IF ci < NumSlots
       THEN /\ ci' = ci + 1
            /\ UNCHANGED <<cpc, lockHeld>>
       ELSE /\ lockHeld' = FALSE
            /\ cpc' = "down"
            /\ UNCHANGED ci
    /\ UNCHANGED <<shm, sem, slots, pc, req, npolls, posts, silent, replies>>

\* Mutant: the thread goes to sem_wait without unlocking esdm_cuse_ph_lock.
CheckerSlotNoUnlock ==
    /\ cpc = "scan"
    /\ LET s == slots[ci] IN
         IF s.ph # NoPh /\ esdm_cuse_set_pollmask(s.ev) # {}
         THEN /\ NotifyDestroy(s.ph)
              /\ slots' = [slots EXCEPT ![ci] = EmptySlot]
         ELSE UNCHANGED <<slots, notified, destroyed, zombie>>
    /\ IF ci < NumSlots
       THEN ci' = ci + 1 /\ UNCHANGED cpc
       ELSE cpc' = "down" /\ UNCHANGED ci
    /\ UNCHANGED <<shm, sem, lockHeld, pc, req, npolls, posts, silent, replies>>

\* One slot of the scan: a parked handle whose events are now ready is
\* notified, freed and its slot cleared.  After the last slot the lock is
\* released and the thread goes to sem_wait.
CheckerSlot ==
    /\ cpc = "scan"
    /\ LET s == slots[ci] IN
         IF s.ph # NoPh /\ esdm_cuse_set_pollmask(s.ev) # {}
         THEN /\ NotifyDestroy(s.ph)
              /\ slots' = [slots EXCEPT ![ci] = EmptySlot]
         ELSE UNCHANGED <<slots, notified, destroyed, zombie>>
    /\ IF ci < NumSlots
       THEN /\ ci' = ci + 1
            /\ UNCHANGED <<cpc, lockHeld>>
       ELSE /\ lockHeld' = FALSE
            /\ cpc' = "down"
            /\ UNCHANGED ci
    /\ UNCHANGED <<shm, sem, pc, req, npolls, posts, silent, replies>>

\* esdm_cuse_shm_status_down: sem_wait blocks until the daemon posts.
CheckerDown ==
    /\ cpc = "down"
    /\ sem > 0
    /\ sem' = sem - 1
    /\ cpc' = "lock"
    /\ UNCHANGED <<shm, slots, lockHeld, pc, req, npolls, ci, posts, notified,
                   destroyed, zombie, silent, replies>>

-----------------------------------------------------------------------------
(* The ESDM daemon (spec.md 4.H)                                           *)

\* A state change rewrites the status record and posts the semaphore once.
StatusChange ==
    /\ posts < MaxPosts
    /\ posts' = posts + 1
    /\ \E op, ne \in BOOLEAN :
         /\ [operational |-> op, need_entropy |-> ne] # shm
         /\ shm' = [operational |-> op, need_entropy |-> ne]
    /\ sem' = sem + 1
    /\ UNCHANGED <<slots, lockHeld, pc, req, npolls, cpc, ci, notified,
                   destroyed, zombie, silent, replies>>

\* Nothing is left to do: every file made its polls, the daemon changes no
\* more state and the checker sleeps in sem_wait.
Done ==
    /\ \A f \in Files : pc[f] = "idle" /\ npolls[f] = MaxPolls
    /\ posts = MaxPosts
    /\ cpc = "down" /\ sem = 0
    /\ UNCHANGED vars

Checker == CheckerClear \/ CheckerLock \/ CheckerSlot \/ CheckerDown

Next ==
    \/ \E f \in Files : PollStart(f) \/ PollRegister(f)
    \/ Checker
    \/ StatusChange
    \/ Done

\* libfuse runs a started request to its end and the OS schedules the
\* checker thread; nobody is obliged to poll, and the daemon need not
\* change state.
Fairness ==
    /\ \A f \in Files : WF_vars(PollRegister(f))
    /\ WF_vars(Checker)

Spec == Init /\ [][Next]_vars
FairSpec == Spec /\ Fairness
-----------------------------------------------------------------------------
(* Properties                                                              *)

TypeOK ==
    /\ shm \in [operational : BOOLEAN, need_entropy : BOOLEAN]
    /\ sem \in 0 .. MaxPosts
    /\ slots \in [Slots -> [fh : {0} \cup {FH[f] : f \in Files},
                            ph : Handles \cup {NoPh}, ev : SUBSET Events]]
    /\ lockHeld \in BOOLEAN
    /\ pc \in [Files -> {"idle", "register"}]
    /\ cpc \in {"clear", "lock", "scan", "down"} /\ ci \in Slots
    /\ notified \subseteq Handles /\ destroyed \in [Handles -> Nat]

\* A poll handle is freed at most once and never notified after it was
\* freed: the checker and esdm_cuse_poll both free handles from the table
\* and each clears the slot under esdm_cuse_ph_lock.
NoUseAfterDestroy ==
    /\ \A h \in Handles : destroyed[h] <= 1
    /\ zombie = {}

\* A poll(2) call that reached the table lock returns: the checker never
\* keeps esdm_cuse_ph_lock while it sleeps on the semaphore.
PollCallsReturn == \A f \in Files : (pc[f] = "register") ~> (pc[f] = "idle")

\* esdm_cuse_poll frees a parked handle without notifying it only when it
\* is replaced by a newer poll of the same open file (the fh match).
ReplacesOnlyOwnHandle == \A x \in silent : x[1][1] = x[2]

\* The handle is parked in the table, not yet notified nor freed.
Parked(h) ==
    /\ \E i \in Slots : slots[i].ph = h
    /\ h \notin notified /\ destroyed[h] = 0

====
