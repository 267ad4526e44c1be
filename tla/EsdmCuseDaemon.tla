--------------------------- MODULE EsdmCuseDaemon ---------------------------
(***************************************************************************)
(* The life cycle of the CUSE daemon (cuse_device.c lines 49-326 and      *)
(* 819-1000):                                                              *)
(*  - main_common parses the options, stores the bind-mount paths,        *)
(*    initialises the dispatchers and the thread group, installs the      *)
(*    termination signal handler and runs cuse_lowlevel_main;             *)
(*  - libfuse calls esdm_cuse_init_done after it replied to CUSE INIT:    *)
(*    bind mount, status semaphore, privilege drop, status shared memory, *)
(*    poll checker thread; a failure terminates and exits;                *)
(*  - esdm_cuse_term tears everything down, from main_common when the     *)
(*    session ends and from esdm_cuse_sig_handler on the thread a signal  *)
(*    is delivered to.                                                     *)
(* The poll checker thread and the FUSE poll requests appear only through *)
(* what they read: the shared status record (EsdmCusePoll models their    *)
(* work).  CKINT and CKINT_LOG jump to "out" on a negative value, and     *)
(* thread_release(true, true) cancels the threads of the group; both are  *)
(* outside src/.                                                           *)
(***************************************************************************)
EXTENDS Naturals

CONSTANTS
    HasTarget,      \* main_common is given a bind-mount target
    MayFail,        \* may the set-up calls (parse, strdup, dispatchers,
                    \*   mount, sem_open, shmget/shmat, thread_start) fail?
    UmountMayFail,  \* may umount stay EBUSY for MAX_WAIT_SEC tries?
    MaySignal,      \* may a termination signal arrive?
    Handlers        \* the runs of esdm_cuse_sig_handler, one per signal

\* The handler stays installed for every termination signal until its
\* esdm_cuse_term has returned, so a second, different signal runs a second
\* handler while the first tears down.
Actors == {"main"} \cup Handlers

\* The steps of esdm_cuse_term and the two bind-mount path strings.
TermPcs == {"t_flag", "t_shm", "t_sem", "t_umount", "t_free", "t_null"}
Strs == {"null", "live", "freed"}

VARIABLES
    pc,         \* program counter of the main thread and of every handler
    str,        \* mount_src and mount_dst: NULL, allocated, freed
    mounted,    \* the bind mount exists
    semOpen,    \* esdm_cuse_semid != SEM_FAILED
    shmAtt,     \* esdm_cuse_shm_status attached
    shmId,      \* esdm_cuse_shmid >= 0
    sigOn,      \* esdm_cuse_sig_handler installed
    spawning,   \* the thread group still starts threads
    checker,    \* the poll checker thread: "none", "running", "killed"
    session,    \* the CUSE session serves requests
    exited,     \* the process has ended
    doubleFree, \* ghost: a path string was freed twice
    uaf,        \* ghost: a freed path string was used
    staleRead   \* ghost: a FUSE poll read the status while it was detached

vars == <<pc, str, mounted, semOpen, shmAtt, shmId, sigOn, spawning, checker,
          session, exited, doubleFree, uaf, staleRead>>

\* A set-up call: its success, and its failure where failures are allowed.
Outcomes == IF MayFail THEN BOOLEAN ELSE {TRUE}

Init ==
    /\ pc = [a \in Actors |-> IF a = "main" THEN "parse" ELSE "idle"]
    /\ str = "null"
    /\ mounted = FALSE /\ semOpen = FALSE /\ shmAtt = FALSE /\ shmId = FALSE
    /\ sigOn = FALSE /\ spawning = TRUE /\ checker = "none"
    /\ session = FALSE /\ exited = FALSE
    /\ doubleFree = FALSE /\ uaf = FALSE /\ staleRead = FALSE

\* Where the main thread goes on a failure: esdm_cuse_term at "out".
MainTerm(next) == pc' = [pc EXCEPT !["main"] = next]

Live == ~exited

\* esdm_cuse_install_sig_handler: one handler for every termination signal.
esdm_cuse_install_sig_handler == sigOn' = TRUE

\* esdm_cuse_bind_mount succeeds: the paths are set and mount and relabel
\* succeed.
esdm_cuse_bind_mount(ok) == ok /\ str # "null"

-----------------------------------------------------------------------------
(* main_common                                                             *)

\* fuse_opt_parse fails: "goto out"; a target's strdup fails: return
\* -errno without esdm_cuse_term; otherwise the paths are allocated.
Parse ==
    /\ Live /\ pc["main"] = "parse"
    /\ \E ok \in Outcomes, dup \in Outcomes :
         \/ /\ ~ok /\ MainTerm("t_flag") /\ UNCHANGED <<str, exited>>
         \/ /\ ok /\ HasTarget /\ ~dup
            /\ exited' = TRUE /\ UNCHANGED <<pc, str>>
         \/ /\ ok /\ (dup \/ ~HasTarget)
            /\ str' = IF HasTarget THEN "live" ELSE "null"
            /\ MainTerm("disp") /\ UNCHANGED exited
    /\ UNCHANGED <<mounted, semOpen, shmAtt, shmId, sigOn, spawning, checker,
                   session, doubleFree, uaf, staleRead>>

\* esdm_disp_init_unpriv, esdm_disp_init_priv and thread_init; then the
\* handler is installed and cuse_lowlevel_main starts the session.
DispInit ==
    /\ Live /\ pc["main"] = "disp"
    /\ \E ok \in Outcomes :
         IF ok THEN /\ esdm_cuse_install_sig_handler /\ session' = TRUE
                    /\ MainTerm("id_mount")
               ELSE /\ MainTerm("t_flag") /\ UNCHANGED <<sigOn, session>>
    /\ UNCHANGED <<str, mounted, semOpen, shmAtt, shmId, spawning, checker,
                   exited, doubleFree, uaf, staleRead>>

\* cuse_lowlevel_main returns: the session ended; esdm_cuse_term follows.
SessionEnd ==
    /\ Live /\ pc["main"] = "serve"
    /\ session' = FALSE
    /\ MainTerm("t_flag")
    /\ UNCHANGED <<str, mounted, semOpen, shmAtt, shmId, sigOn, spawning,
                   checker, exited, doubleFree, uaf, staleRead>>

-----------------------------------------------------------------------------
(* esdm_cuse_init_done; a failure runs esdm_cuse_term and exit(-ret)      *)

\* chmod(mount_src), then esdm_cuse_bind_mount: -EFAULT without the
\* paths; mount, then the SELinux relabel, whose failure umounts again.
\* Paths a racing esdm_cuse_term freed are used: any outcome.
IdMount ==
    /\ Live /\ pc["main"] = "id_mount"
    /\ \E ok \in Outcomes :
         IF esdm_cuse_bind_mount(ok)
         THEN /\ mounted' = TRUE /\ MainTerm("id_sem")
         ELSE /\ MainTerm("t_flag") /\ UNCHANGED mounted
    /\ uaf' = (uaf \/ str = "freed")
    /\ UNCHANGED <<str, semOpen, shmAtt, shmId, sigOn, spawning, checker,
                   session, exited, doubleFree, staleRead>>

\* esdm_cuse_shm_status_create_sem: sem_open(O_CREAT).
IdSem ==
    /\ Live /\ pc["main"] = "id_sem"
    /\ \E ok \in Outcomes :
         IF ok THEN semOpen' = TRUE /\ MainTerm("id_shm")
               ELSE UNCHANGED semOpen /\ MainTerm("t_flag")
    /\ UNCHANGED <<str, mounted, shmAtt, shmId, sigOn, spawning, checker,
                   session, exited, doubleFree, uaf, staleRead>>

\* esdm_cuse_drop_privileges, then esdm_cuse_shm_status_create_shm:
\* shmget fails; shmat fails and the id is closed again; the version does
\* not match and the segment stays attached; or it is attached.
IdShm ==
    /\ Live /\ pc["main"] = "id_shm"
    /\ \E ok \in Outcomes, version \in Outcomes :
         IF ok THEN /\ shmId' = TRUE /\ shmAtt' = TRUE
                    /\ MainTerm(IF version THEN "id_thread" ELSE "t_flag")
               ELSE /\ UNCHANGED <<shmId, shmAtt>> /\ MainTerm("t_flag")
    /\ UNCHANGED <<str, mounted, semOpen, sigOn, spawning, checker, session,
                   exited, doubleFree, uaf, staleRead>>

\* thread_start(esdm_cuse_poll_checker): refused once thread_stop_spawning
\* ran.
IdThread ==
    /\ Live /\ pc["main"] = "id_thread"
    /\ \E ok \in Outcomes :
         IF ok /\ spawning
         THEN /\ checker' = "running" /\ MainTerm("serve")
         ELSE /\ UNCHANGED checker /\ MainTerm("t_flag")
    /\ UNCHANGED <<str, mounted, semOpen, shmAtt, shmId, sigOn, spawning,
                   session, exited, doubleFree, uaf, staleRead>>

-----------------------------------------------------------------------------
(* esdm_cuse_term, on the main thread or on a handler's thread             *)

Goto(a, from, to) == pc[a] = from /\ pc' = [pc EXCEPT ![a] = to]

\* Mutant: esdm_cuse_term omits thread_release, the checker runs on.
TFlagNoRelease(a) ==
    /\ Live /\ Goto(a, "t_flag", "t_shm")
    /\ spawning' = FALSE
    /\ UNCHANGED <<str, mounted, semOpen, shmAtt, shmId, sigOn, session,
                   exited, doubleFree, uaf, staleRead, checker>>

\* Mutant: thread_release waits for the checker instead of cancelling it,
\* and the checker, blocked in sem_wait, never comes back.
TFlagJoin(a) ==
    /\ Live /\ checker # "running" /\ Goto(a, "t_flag", "t_shm")
    /\ spawning' = FALSE
    /\ UNCHANGED <<str, mounted, semOpen, shmAtt, shmId, sigOn, session,
                   exited, doubleFree, uaf, staleRead, checker>>

\* Set the shutdown flag, thread_stop_spawning, and thread_release(true,
\* true) cancels the poll checker; the dispatchers are released.
TFlag(a) ==
    /\ Live /\ Goto(a, "t_flag", "t_shm")
    /\ spawning' = FALSE
    /\ checker' = IF checker = "running" THEN "killed" ELSE checker
    /\ UNCHANGED <<str, mounted, semOpen, shmAtt, shmId, sigOn, session,
                   exited, doubleFree, uaf, staleRead>>

\* esdm_cuse_shm_status_close_shm: shmdt and IPC_RMID.
TShm(a) ==
    /\ Live /\ Goto(a, "t_shm", "t_sem")
    /\ shmAtt' = FALSE /\ shmId' = FALSE
    /\ UNCHANGED <<str, mounted, semOpen, sigOn, spawning, checker, session,
                   exited, doubleFree, uaf, staleRead>>

\* esdm_cuse_shm_status_close_sem: sem_close.
TSem(a) ==
    /\ Live /\ Goto(a, "t_sem", "t_umount")
    /\ semOpen' = FALSE
    /\ UNCHANGED <<str, mounted, shmAtt, shmId, sigOn, spawning, checker,
                   session, exited, doubleFree, uaf, staleRead>>

\* esdm_cuse_bind_unmount up to the frees: nothing without mount_dst; a
\* failed raise_privilege_transient returns; umount retried while EBUSY,
\* at most MAX_WAIT_SEC times.  A freed, non-NULL mount_dst is used.
TUmount(a) ==
    /\ Live /\ pc[a] = "t_umount"
    /\ \E raised \in Outcomes, gone \in IF UmountMayFail THEN BOOLEAN
                                                        ELSE {TRUE} :
         /\ pc' = [pc EXCEPT ![a] = IF str = "null" \/ ~raised THEN "t_exit"
                                                             ELSE "t_free"]
         /\ mounted' = (mounted /\ ~(str # "null" /\ raised /\ gone))
    /\ uaf' = (uaf \/ str = "freed")
    /\ UNCHANGED <<str, semOpen, shmAtt, shmId, sigOn, spawning, checker,
                   session, exited, doubleFree, staleRead>>

\* free(mount_src); free(mount_dst): a string already freed is freed again.
TFree(a) ==
    /\ Live /\ Goto(a, "t_free", "t_null")
    /\ str' = IF str = "null" THEN "null" ELSE "freed"
    /\ doubleFree' = (doubleFree \/ str = "freed")
    /\ UNCHANGED <<mounted, semOpen, shmAtt, shmId, sigOn, spawning, checker,
                   session, exited, uaf, staleRead>>

\* mount_src = NULL; mount_dst = NULL.
TNull(a) ==
    /\ Live /\ Goto(a, "t_null", "t_exit")
    /\ str' = "null"
    /\ UNCHANGED <<mounted, semOpen, shmAtt, shmId, sigOn, spawning, checker,
                   session, exited, doubleFree, uaf, staleRead>>

\* esdm_cuse_term returned: the handler resets the signals and calls
\* exit(sig), init_done calls exit(-ret), main_common returns.
TExit(a) ==
    /\ Live /\ Goto(a, "t_exit", "done")
    /\ exited' = TRUE
    /\ UNCHANGED <<str, mounted, semOpen, shmAtt, shmId, sigOn, spawning,
                   checker, session, doubleFree, uaf, staleRead>>

-----------------------------------------------------------------------------
(* Signals and requests from outside                                       *)

\* A termination signal: esdm_cuse_sig_handler once installed, the
\* default action, which ends the process, before.
Signal(h) ==
    /\ Live /\ MaySignal /\ pc[h] = "idle"
    /\ IF sigOn THEN Goto(h, "idle", "t_flag") /\ UNCHANGED exited
                ELSE exited' = TRUE /\ UNCHANGED pc
    /\ UNCHANGED <<str, mounted, semOpen, shmAtt, shmId, sigOn, spawning,
                   checker, session, doubleFree, uaf, staleRead>>

\* A FUSE poll request: esdm_cuse_set_pollmask reads esdm_cuse_shm_status.
Poll ==
    /\ Live /\ session /\ ~staleRead /\ ~shmAtt
    /\ staleRead' = TRUE
    /\ UNCHANGED <<pc, str, mounted, semOpen, shmAtt, shmId, sigOn, spawning,
                   checker, session, exited, doubleFree, uaf>>

Term(a) == TFlag(a) \/ TShm(a) \/ TSem(a) \/ TUmount(a) \/ TFree(a)
           \/ TNull(a) \/ TExit(a)

\* The process has ended, a daemon without signals serves for ever, or the
\* poll checker waits for the server's posts (EsdmCusePoll models them).
Done == (exited \/ pc["main"] = "serve" \/ checker = "running")
        /\ UNCHANGED vars

Next ==
    \/ Parse \/ DispInit \/ SessionEnd
    \/ IdMount \/ IdSem \/ IdShm \/ IdThread
    \/ \E a \in Actors : Term(a)
    \/ \E h \in Handlers : Signal(h)
    \/ Poll
    \/ Done

\* Every thread runs on while it can; a signal and the end of the session
\* come from outside and need not come.
Fairness ==
    /\ WF_vars(Parse) /\ WF_vars(DispInit)
    /\ WF_vars(IdMount) /\ WF_vars(IdSem) /\ WF_vars(IdShm) /\ WF_vars(IdThread)
    /\ \A a \in Actors : WF_vars(Term(a))

Spec == Init /\ [][Next]_vars /\ Fairness

-----------------------------------------------------------------------------
(* Properties                                                              *)

TypeOK ==
    /\ pc \in [Actors -> {"parse", "disp", "id_mount", "id_sem", "id_shm",
                          "id_thread", "serve", "idle", "t_exit", "done"}
                         \cup TermPcs]
    /\ str \in Strs /\ checker \in {"none", "running", "killed"}
    /\ {mounted, semOpen, shmAtt, shmId, sigOn, spawning, session, exited,
        doubleFree, uaf, staleRead} \subseteq BOOLEAN

\* The poll checker thread waits on the status semaphore and reads the
\* status memory for as long as it runs: esdm_cuse_term must stop it
\* (thread_stop_spawning, thread_release) before close_shm and close_sem,
\* and init_done must not start it after a signal's esdm_cuse_term.
CheckerUsesLiveShm ==
    (checker = "running" /\ ~exited) => shmAtt /\ semOpen

\* Once esdm_cuse_term has begun, on either thread, the process ends: no
\* step of the tear-down waits for a thread that does not come back.
TermEnds == \A a \in Actors : (pc[a] \in TermPcs) ~> exited

\* esdm_cuse_term frees the bind-mount paths at most once and never uses
\* them freed (the handler's and main_common's esdm_cuse_term overlap).
PathsFreedOnce == ~doubleFree /\ ~uaf

\* No FUSE poll reads the status memory while it is not attached.
NoStaleStatusRead == ~staleRead

\* "Catch all termination signals to ensure the bind mount is removed":
\* the process never ends with the bind mount in place.
MountRemovedAtExit == exited => ~mounted
====
