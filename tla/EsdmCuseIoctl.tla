--------------------------- MODULE EsdmCuseIoctl ---------------------------
(***************************************************************************)
(* The request handlers of the CUSE device frontend (cuse_device.c lines  *)
(* 332-698): esdm_cuse_read_internal, esdm_cuse_write_internal and        *)
(* esdm_cuse_ioctl with the privilege helpers and esdm_cuse_fips_enabled. *)
(*                                                                         *)
(* libfuse serves requests from several worker threads (Workers); each    *)
(* handles one request at a time.  The privilege helpers                  *)
(* (raise_privilege_transient / drop_privileges_transient) change the     *)
(* effective uid of the whole process, so they are one shared variable    *)
(* euid.  The RPC calls to the ESDM server (esdm_invoke) return 0 or an   *)
(* error; the kernel RNG ioctls on backend_fd need an effective uid of 0  *)
(* (CAP_SYS_ADMIN) at the time they are made.                             *)
(***************************************************************************)
EXTENDS Integers, FiniteSets

CONSTANTS
    Workers,        \* libfuse worker threads
    MaxReq,         \* bound on the requests each worker serves
    Uids,           \* caller uids (fuse_req_ctx(req)->uid); 0 is root
    HasFallback,    \* fallback_fd > -1 (ESDM_CUSE_RANDOM / _URANDOM given)
    RpcMayFail,     \* may an esdm_invoke call return an error?
    ReplyMayFail,   \* may fuse_reply_buf fail (request gone in the kernel)?
    ForceFipsEnv,   \* is ESDM_SERVER_FORCE_FIPS set?
    FipsFile        \* /proc/sys/crypto/fips_enabled: "absent",
                    \* "unreadable", "empty", "0" or "1"

ASSUME
    /\ 0 \in Uids
    /\ FipsFile \in {"absent", "unreadable", "empty", "0", "1"}

EINTR == 4        \* the RPC disconnect error of spec.md section 7
EPERM == 1
WrSize == 1       \* size of a write request


\* The ioctl commands; "compat" is any command with FUSE_IOCTL_COMPAT set,
\* "info" is the ESDM-specific command 42, "unknown" the default case.
IoctlKinds == {"getentcnt", "addtoentcnt", "addentropy", "clearpool",
               "reseed", "info", "compat", "unknown"}
PrivKinds == {"addtoentcnt", "addentropy", "clearpool", "reseed"}
\* The commands whose in/out buffer size is checked first.
NeedsBuf == {"getentcnt", "addtoentcnt", "addentropy", "info"}
Kinds == {"read", "write"} \cup IoctlKinds

\* A request: the worker and the number of its request.
Reqs == Workers \X (1 .. MaxReq)

RpcResults == IF RpcMayFail THEN {0, -EINTR} ELSE {0}
SendResults == IF ReplyMayFail THEN {0, -EINTR} ELSE {0}
Outcomes == {"none", "data", "ok", "err", "eperm", "retry"}
FipsCache == {"A", "byte1", "0", "1"}

VARIABLES
    euid,           \* effective uid of the CUSE daemon process
    fipsflag,       \* the static cache of esdm_cuse_fips_enabled
    pc,             \* program counter of each worker
    nreq,           \* requests received per worker
    info,           \* each request: kind, caller uid, buffer size right
    ret,            \* the ioctl handler's ret, per worker
    esdmDone,       \* requests the ESDM server carried out
    kernelDone,     \* requests the kernel RNG (backend_fd) carried out
    replies,        \* number of fuse_reply_* calls per request
    outcome,        \* the last reply of each request
    fipsSeen        \* values esdm_cuse_fips_enabled returned

vars == <<euid, fipsflag, pc, nreq, info, ret, esdmDone, kernelDone,
          replies, outcome, fipsSeen>>

\* The request worker w is serving.
Me(w) == <<w, nreq[w]>>

\* One fuse_reply_* call for request r.
Reply(r, what) ==
    /\ replies' = [replies EXCEPT ![r] = @ + 1]
    /\ outcome' = [outcome EXCEPT ![r] = what]

-----------------------------------------------------------------------------
\* esdm_cuse_fips_enabled: the pair of its result and the new cache.  The
\* cache starts as 'A'; the environment variable stores the byte 1 (not
\* the character '1'), a read of the file stores the character read.  A
\* missing file, an empty one and an unreadable one leave the cache at
\* 'A'; the last returns -EIO from a bool function, that is true.
esdm_cuse_fips_enabled(flag) ==
    IF flag # "A" THEN <<flag = "1", flag>>
    ELSE IF ForceFipsEnv THEN <<FALSE, "byte1">>
    ELSE CASE FipsFile = "absent"     -> <<FALSE, "A">>
           [] FipsFile = "unreadable" -> <<TRUE, "A">>
           [] FipsFile = "empty"      -> <<FALSE, "A">>
           [] OTHER                   -> <<FipsFile = "1", FipsFile>>

\* esdm_cuse_client_privileged: the caller is root.
esdm_cuse_client_privileged(r) == info[r].uid = 0

Init ==
    \* esdm_cuse_init_done dropped the privileges before requests arrive.
    /\ euid = "nobody"
    /\ fipsflag = "A"
    /\ pc = [w \in Workers |-> "idle"]
    /\ nreq = [w \in Workers |-> 0]
    /\ info = [r \in Reqs |-> [kind |-> "read", uid |-> 0, bufOk |-> TRUE]]
    /\ ret = [w \in Workers |-> 0]
    /\ esdmDone = {}
    /\ kernelDone = {}
    /\ replies = [r \in Reqs |-> 0]
    /\ outcome = [r \in Reqs |-> "none"]
    /\ fipsSeen = {}

-----------------------------------------------------------------------------
\* libfuse hands a new request to an idle worker.
Receive(w) ==
    /\ pc[w] = "idle"
    /\ nreq[w] < MaxReq
    /\ nreq' = [nreq EXCEPT ![w] = @ + 1]
    /\ \E k \in Kinds, u \in Uids :
       \E b \in (IF k \in NeedsBuf THEN BOOLEAN ELSE {TRUE}) :
         /\ info' = [info EXCEPT ![<<w, nreq[w] + 1>>] =
                        [kind |-> k, uid |-> u, bufOk |-> b]]
         /\ pc' = [pc EXCEPT ![w] = IF k \in {"read", "write"} THEN k
                                                             ELSE "ioctl"]
    /\ ret' = [ret EXCEPT ![w] = 0]
    /\ UNCHANGED <<euid, fipsflag, esdmDone, kernelDone, replies, outcome,
                   fipsSeen>>

\* esdm_cuse_read_internal: the RPC get, on an error the read of the
\* fallback device, then fuse_reply_buf; a negative ret at "out" is
\* answered with fuse_reply_err, also when it is the result of
\* fuse_reply_buf, which has already replied to and freed the request.
ReadHandler(w) ==
    /\ pc[w] = "read"
    /\ \E rpc \in RpcResults, fb \in {1, -1}, sent \in SendResults :
         LET got == IF rpc < 0 /\ HasFallback THEN fb ELSE rpc
         IN \/ /\ got < 0
               /\ Reply(Me(w), "err")
            \/ /\ got >= 0 /\ sent = 0
               /\ Reply(Me(w), "data")
            \/ /\ got >= 0 /\ sent < 0
               /\ replies' = [replies EXCEPT ![Me(w)] = @ + 2]
               /\ outcome' = [outcome EXCEPT ![Me(w)] = "err"]
    /\ pc' = [pc EXCEPT ![w] = "idle"]
    /\ UNCHANGED <<euid, fipsflag, nreq, info, ret, esdmDone, kernelDone,
                   fipsSeen>>

\* esdm_cuse_write_internal: a nonzero RPC result is replaced by the size,
\* so the fallback write and fuse_reply_err are taken only for a negative
\* ret that cannot arise.
WriteHandler(w) ==
    /\ pc[w] = "write"
    /\ \E rpc \in RpcResults :
         LET r1 == IF rpc # 0 THEN WrSize ELSE rpc
         IN /\ esdmDone' = IF rpc = 0 THEN esdmDone \cup {Me(w)}
                                      ELSE esdmDone
            /\ kernelDone' = IF r1 < 0 /\ HasFallback
                             THEN kernelDone \cup {Me(w)} ELSE kernelDone
            /\ Reply(Me(w), IF r1 < 0 /\ ~HasFallback THEN "err" ELSE "ok")
    /\ pc' = [pc EXCEPT ![w] = "idle"]
    /\ UNCHANGED <<euid, fipsflag, nreq, info, ret, fipsSeen>>

\* Mutant: the unprivileged caller is not refused; the raise does nothing
\* for it, and it goes on to the privileged RPC.
IoctlDispatchNoUidCheck(w) ==
    /\ pc[w] = "ioctl"
    /\ LET c == info[Me(w)] IN
       \/ /\ c.kind \in {"compat", "unknown"}
          /\ Reply(Me(w), "err")
          /\ pc' = [pc EXCEPT ![w] = "idle"]
          /\ UNCHANGED euid
       \/ /\ c.kind \in NeedsBuf /\ ~c.bufOk
          /\ Reply(Me(w), "retry")
          /\ pc' = [pc EXCEPT ![w] = "idle"]
          /\ UNCHANGED euid
       \/ /\ c.kind = "info" /\ c.bufOk
          /\ Reply(Me(w), "data")
          /\ pc' = [pc EXCEPT ![w] = "idle"]
          /\ UNCHANGED euid
       \/ /\ c.kind = "getentcnt" /\ c.bufOk
          /\ pc' = [pc EXCEPT ![w] = "getent"]
          /\ UNCHANGED <<euid, replies, outcome>>
       \/ /\ c.kind \in PrivKinds /\ c.bufOk
          /\ euid' = IF esdm_cuse_client_privileged(Me(w)) THEN "root" ELSE euid
          /\ pc' = [pc EXCEPT ![w] = "priv_rpc"]
          /\ UNCHANGED <<replies, outcome>>
    /\ UNCHANGED <<fipsflag, nreq, info, ret, esdmDone, kernelDone,
                   fipsSeen>>

\* esdm_cuse_ioctl up to the RPC: ENOSYS for compat calls, EINVAL for an
\* unknown command, the buffer retries (RNDADDENTROPY also answers a
\* negative buf_size with EINVAL), the status info of command 42, and for
\* the privileged commands the uid check followed by
\* esdm_cuse_raise_privilege.
IoctlDispatch(w) ==
    /\ pc[w] = "ioctl"
    /\ LET c == info[Me(w)] IN
       \/ /\ c.kind \in {"compat", "unknown"}
          /\ Reply(Me(w), "err")
          /\ pc' = [pc EXCEPT ![w] = "idle"]
          /\ UNCHANGED euid
       \/ /\ c.kind \in NeedsBuf /\ ~c.bufOk
          /\ \E o \in (IF c.kind = "addentropy" THEN {"retry", "err"}
                                                ELSE {"retry"}) :
               Reply(Me(w), o)
          /\ pc' = [pc EXCEPT ![w] = "idle"]
          /\ UNCHANGED euid
       \/ /\ c.kind = "info" /\ c.bufOk
          /\ Reply(Me(w), "data")
          /\ pc' = [pc EXCEPT ![w] = "idle"]
          /\ UNCHANGED euid
       \/ /\ c.kind = "getentcnt" /\ c.bufOk
          /\ pc' = [pc EXCEPT ![w] = "getent"]
          /\ UNCHANGED <<euid, replies, outcome>>
       \/ /\ c.kind \in PrivKinds /\ c.bufOk
          /\ ~esdm_cuse_client_privileged(Me(w))
          /\ Reply(Me(w), "eperm")
          /\ pc' = [pc EXCEPT ![w] = "idle"]
          /\ UNCHANGED euid
       \/ /\ c.kind \in PrivKinds /\ c.bufOk
          /\ esdm_cuse_client_privileged(Me(w))
          /\ euid' = "root"
          /\ pc' = [pc EXCEPT ![w] = "priv_rpc"]
          /\ UNCHANGED <<replies, outcome>>
    /\ UNCHANGED <<fipsflag, nreq, info, ret, esdmDone, kernelDone,
                   fipsSeen>>

\* RNDGETENTCNT with an output buffer: the unprivileged RPC and its reply.
GetEntCnt(w) ==
    /\ pc[w] = "getent"
    /\ \E rpc \in RpcResults :
         Reply(Me(w), IF rpc = 0 THEN "data" ELSE "err")
    /\ pc' = [pc EXCEPT ![w] = "idle"]
    /\ UNCHANGED <<euid, fipsflag, nreq, info, ret, esdmDone, kernelDone,
                   fipsSeen>>

\* Mutant: a failed RPC returns at once, before the privileges are dropped.
PrivRpcNoDropOnError(w) ==
    /\ pc[w] = "priv_rpc"
    /\ IF info[Me(w)].kind = "addentropy"
       THEN LET f == esdm_cuse_fips_enabled(fipsflag) IN
            /\ fipsflag' = f[2]
            /\ fipsSeen' = fipsSeen \cup {f[1]}
       ELSE UNCHANGED <<fipsflag, fipsSeen>>
    /\ \E rpc \in RpcResults :
         /\ ret' = [ret EXCEPT ![w] = rpc]
         /\ esdmDone' = IF rpc = 0 THEN esdmDone \cup {Me(w)} ELSE esdmDone
         /\ pc' = [pc EXCEPT ![w] = IF rpc = 0 THEN "priv_kernel" ELSE "idle"]
         /\ IF rpc = 0 THEN UNCHANGED <<replies, outcome>>
                       ELSE Reply(Me(w), "err")
    /\ UNCHANGED <<euid, nreq, info, kernelDone>>

\* The privileged RPC (esdm_rpcc_rnd_add_to_ent_cnt, _add_entropy,
\* _clear_pool, _reseed_crng); RNDADDENTROPY first asks
\* esdm_cuse_fips_enabled whether to credit the caller's entropy count.
PrivRpc(w) ==
    /\ pc[w] = "priv_rpc"
    /\ IF info[Me(w)].kind = "addentropy"
       THEN LET f == esdm_cuse_fips_enabled(fipsflag) IN
            /\ fipsflag' = f[2]
            /\ fipsSeen' = fipsSeen \cup {f[1]}
       ELSE UNCHANGED <<fipsflag, fipsSeen>>
    /\ \E rpc \in RpcResults :
         /\ ret' = [ret EXCEPT ![w] = rpc]
         /\ esdmDone' = IF rpc = 0 THEN esdmDone \cup {Me(w)} ELSE esdmDone
         /\ pc' = [pc EXCEPT ![w] = IF rpc = 0 THEN "priv_kernel"
                                               ELSE "priv_drop"]
    /\ UNCHANGED <<euid, nreq, info, kernelDone, replies, outcome>>

\* The same command on the kernel RNG through backend_fd; it fails with
\* EPERM unless the process has euid 0 at this moment.
PrivKernel(w) ==
    /\ pc[w] = "priv_kernel"
    /\ IF euid = "root"
       THEN /\ kernelDone' = kernelDone \cup {Me(w)}
            /\ UNCHANGED ret
       ELSE /\ ret' = [ret EXCEPT ![w] = -EPERM]
            /\ UNCHANGED kernelDone
    /\ pc' = [pc EXCEPT ![w] = "priv_drop"]
    /\ UNCHANGED <<euid, fipsflag, nreq, info, esdmDone, replies, outcome,
                   fipsSeen>>

\* drop_privileges_transient, then fuse_reply_err or fuse_reply_ioctl.
PrivDrop(w) ==
    /\ pc[w] = "priv_drop"
    /\ euid' = "nobody"
    /\ Reply(Me(w), CASE ret[w] = 0      -> "ok"
                      [] ret[w] = -EPERM -> "eperm"
                      [] OTHER           -> "err")
    /\ pc' = [pc EXCEPT ![w] = "idle"]
    /\ UNCHANGED <<fipsflag, nreq, info, ret, esdmDone, kernelDone,
                   fipsSeen>>

\* Every worker has served its requests.
Done ==
    /\ \A w \in Workers : pc[w] = "idle" /\ nreq[w] = MaxReq
    /\ UNCHANGED vars

Worker(w) ==
    \/ Receive(w)
    \/ ReadHandler(w)
    \/ WriteHandler(w)
    \/ IoctlDispatch(w)
    \/ GetEntCnt(w)
    \/ PrivRpc(w)
    \/ PrivKernel(w)
    \/ PrivDrop(w)

Next == (\E w \in Workers : Worker(w)) \/ Done

Spec == Init /\ [][Next]_vars

-----------------------------------------------------------------------------
TypeOK ==
    /\ euid \in {"root", "nobody"}
    /\ fipsflag \in FipsCache
    /\ pc \in [Workers -> {"idle", "read", "write", "ioctl", "getent",
                           "priv_rpc", "priv_kernel", "priv_drop"}]
    /\ nreq \in [Workers -> 0 .. MaxReq]
    /\ info \in [Reqs -> [kind : Kinds, uid : Uids, bufOk : BOOLEAN]]
    /\ esdmDone \subseteq Reqs /\ kernelDone \subseteq Reqs
    /\ replies \in [Reqs -> 0 .. 2]
    /\ outcome \in [Reqs -> Outcomes]
    /\ fipsSeen \subseteq BOOLEAN

\* Requests between esdm_cuse_raise_privilege and the reply.
Privileged == {w \in Workers : pc[w] \in {"priv_rpc", "priv_kernel",
                                          "priv_drop"}}

\* Every path of a privileged ioctl drops the raised privileges again: when
\* no worker is inside a privileged command the daemon runs as "nobody".
PrivilegeNotLeaked == Privileged = {} => euid = "nobody"

\* Only a root caller's privileged ioctl changes the ESDM server or the
\* kernel RNG (the esdm_cuse_client_privileged check before the RPC).
PrivilegedOpsOnlyForRoot ==
    \A r \in esdmDone \cup kernelDone :
        info[r].kind \in PrivKinds => info[r].uid = 0

\* esdm_cuse_ioctl raises the privileges of a root caller so that the
\* kernel accepts the command: a root caller is never refused with EPERM.
RootNeverRefused ==
    \A r \in Reqs : outcome[r] = "eperm" => info[r].uid # 0
====
