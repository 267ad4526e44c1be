---------------------------- MODULE EsdmRpcClient ----------------------------
(***************************************************************************)
(* The RPC client calls of src/service-rpc/client and the server handler  *)
(* of src/service-rpc/server.  Two generations of the client are in the   *)
(* sources:                                                                *)
(*  - the dispatcher clients (esdm_rpc_rnd_add_entropy_c.c): borrow a     *)
(*    dispatcher, send the request, run the dispatcher until the closure  *)
(*    has set is_done, return buffer.ret, give the dispatcher back;       *)
(*  - the connection clients (esdm_rpc_rnd_reseed_crng_c.c,               *)
(*    esdm_rpc_get_min_reseed_secs_c.c): borrow a connection, invoke the  *)
(*    method, which calls the closure before it returns or returns        *)
(*    without it, and return buffer.ret (preset to -ETIMEDOUT).           *)
(* The borrow and give-back helpers (esdm_disp_get_priv, esdm_rpcc_get_   *)
(* priv_service, ...) are not under src/: each pool is a count of         *)
(* borrows, a get may fail without borrowing, and a give-back of NULL     *)
(* does nothing.  The ESDM server answers each request once, or the       *)
(* connection breaks and the closure gets no response (spec.md 7: -EINTR).*)
(***************************************************************************)
EXTENDS Integers, FiniteSets

CONSTANTS
    Clients,        \* client threads
    Ops,            \* the client calls in use, a subset of AllOps
    MaxCalls,       \* bound on calls per client
    ServerRets,     \* the ret values the server's handlers answer with
    ReseedMaxTime,  \* esdm_get_reseed_max_time() on the server
    GetMayFail,     \* may borrowing a dispatcher or connection fail?
    MayDisconnect,  \* may the connection break during a call?
    MayTimeOut      \* may a connection's invoke return without a closure?

ETIMEDOUT == 110
EINTR == 4
ENOENT == 2       \* the error of a failed borrow

\* add_entropy and reseed_old are the dispatcher clients of
\* esdm_rpc_rnd_add_entropy_c.c; reseed_new and min_reseed the connection
\* clients of esdm_rpc_rnd_reseed_crng_c.c and ..._get_min_reseed_secs_c.c.
AllOps == {"add_entropy", "reseed_old", "reseed_new", "min_reseed"}
DispOps == {"add_entropy", "reseed_old"}
Pools == {"disp_priv", "disp_unpriv", "conn_priv", "conn_unpriv"}

\* The pool a call borrows from, and the pool it gives back to.
GetPool(op) == CASE op \in DispOps      -> "disp_priv"
                 [] op = "reseed_new"   -> "conn_priv"
                 [] op = "min_reseed"   -> "conn_unpriv"

ASSUME Ops \subseteq AllOps /\ 0 \in ServerRets

NoVal == -1000    \* no value yet
Garbage == -2000  \* an uninitialised stack value
\* A new call's stack buffer before it is set.
FreshBuf == [done |-> FALSE, ret |-> Garbage, seconds |-> Garbage]
NoResp == [kind |-> "none", ret |-> NoVal, seconds |-> NoVal]

VARIABLES
    pc,             \* program counter of each client
    op,             \* the call a client is making
    buf,            \* the call's stack buffer: [done, ret, seconds]
    held,           \* the pool a client holds a borrow of, or "none"
    ref,            \* borrows per pool
    req,            \* clients whose request the server has not handled
    resp,           \* the response on its way to each client: kind "none",
                    \*   "null" (broken connection) or "resp"
    ncalls,         \* calls made per client
    result,         \* what the last call returned (ret, *seconds)
    srvRet          \* ghost: the server's answer to the current call

vars == <<pc, op, buf, held, ref, req, resp, ncalls, result, srvRet>>

Init ==
    /\ pc = [c \in Clients |-> "idle"]
    /\ op = [c \in Clients |-> "add_entropy"]
    /\ buf = [c \in Clients |-> FreshBuf]
    /\ held = [c \in Clients |-> "none"]
    /\ ref = [p \in Pools |-> 0]
    /\ req = {}
    /\ resp = [c \in Clients |-> NoResp]
    /\ ncalls = [c \in Clients |-> 0]
    /\ result = [c \in Clients |-> [ret |-> NoVal, seconds |-> NoVal]]
    /\ srvRet = [c \in Clients |-> NoVal]

\* Give back a borrow of pool p (nothing for NULL, p = "none").
PutPool(p) == IF p = "none" THEN ref ELSE [ref EXCEPT ![p] = @ - 1]

-----------------------------------------------------------------------------
\* The start of each client call: the borrow (esdm_disp_get_priv or
\* CKINT(esdm_rpcc_get_*_service)), then the buffer preset and the request.
\* A failed borrow returns its error at once; esdm_rpcc_rnd_reseed_crng_int
\* first gives back its NULL connection at "out".
Call(c, o) ==
    /\ pc[c] = "idle" /\ ncalls[c] < MaxCalls
    /\ ncalls' = [ncalls EXCEPT ![c] = @ + 1]
    /\ op' = [op EXCEPT ![c] = o]
    /\ srvRet' = [srvRet EXCEPT ![c] = NoVal]
    /\ resp' = [resp EXCEPT ![c] = NoResp]
    /\ \/ /\ GetMayFail
          /\ result' = [result EXCEPT ![c] = [ret |-> -ENOENT, seconds |-> NoVal]]
          /\ buf' = [buf EXCEPT ![c] = FreshBuf]
          /\ UNCHANGED <<pc, held, ref, req>>
       \/ /\ ref' = [ref EXCEPT ![GetPool(o)] = @ + 1]
          /\ held' = [held EXCEPT ![c] = GetPool(o)]
          /\ buf' = [buf EXCEPT ![c] = [done |-> FALSE, ret |-> -ETIMEDOUT,
                                        seconds |-> Garbage]]
          /\ req' = req \cup {c}
          /\ pc' = [pc EXCEPT ![c] = IF o \in DispOps THEN "dispatch"
                                                      ELSE "invoke"]
          /\ UNCHANGED result

\* Mutant: the closure reads the response without checking it for NULL.
ClosureNoNullCheck(b, o, r) ==
    [b EXCEPT !.ret = r.ret, !.done = TRUE,
              !.seconds = IF o = "min_reseed" THEN r.seconds ELSE @]

\* Mutant: on a NULL response the callback only sets is_done.
RetClosureNullKeepsRet(b, r) ==
    [b EXCEPT !.ret = IF r.kind = "null" THEN @ ELSE r.ret, !.done = TRUE]

\* esdm_rpcc_rnd_add_entropy_cb and the two esdm_rpcc_rnd_reseed_crng_cb:
\* ret from the response, or -EINTR for NULL (esdm_rpcc_error_check in the
\* connection client), then is_done.
RetClosure(b, r) ==
    [b EXCEPT !.ret = IF r.kind = "null" THEN -EINTR ELSE r.ret, !.done = TRUE]

\* Mutant: the callback does not copy response->seconds.
MinReseedClosureNoSeconds(b, r) ==
    [b EXCEPT !.ret = IF r.kind = "null" THEN -EINTR ELSE r.ret, !.done = TRUE]

\* esdm_rpcc_get_min_reseed_secs_cb: -EINTR for NULL and return, else ret
\* and seconds.  The buffer has no is_done; done records that it ran.
MinReseedClosure(b, r) ==
    IF r.kind = "null"
    THEN [b EXCEPT !.ret = -EINTR, !.done = TRUE]
    ELSE [b EXCEPT !.ret = r.ret, !.seconds = r.seconds, !.done = TRUE]

\* The callback each call passes with its buffer, for a response r or NULL.
Closure(b, o, r) ==
    IF o = "min_reseed" THEN MinReseedClosure(b, r) ELSE RetClosure(b, r)

\* The dispatcher clients: protobuf_c_rpc_dispatch_run delivers the
\* response or, on a broken connection, the NULL response to the closure.
DispatchRun(c) ==
    /\ pc[c] = "dispatch" /\ ~buf[c].done
    /\ resp[c].kind # "none"
    /\ buf' = [buf EXCEPT ![c] = Closure(@, op[c], resp[c])]
    /\ UNCHANGED <<pc, op, held, ref, req, resp, ncalls, result, srvRet>>

\* The end of esdm_rpcc_rnd_add_entropy once is_done is set: ret =
\* buffer.ret, then esdm_disp_put_priv on the borrowed dispatcher.
AddEntropyReturn(c) ==
    /\ pc[c] = "dispatch" /\ buf[c].done /\ op[c] = "add_entropy"
    /\ ref' = PutPool(held[c])
    /\ held' = [held EXCEPT ![c] = "none"]
    /\ result' = [result EXCEPT ![c] = [ret |-> buf[c].ret, seconds |-> NoVal]]
    /\ pc' = [pc EXCEPT ![c] = "idle"]
    /\ UNCHANGED <<op, buf, req, resp, ncalls, srvRet>>

\* The end of the dispatcher esdm_rpcc_rnd_reseed_crng: ret = buffer.ret,
\* then esdm_disp_put_unpriv, although the dispatcher came from
\* esdm_disp_get_priv.
ReseedCrngReturn(c) ==
    /\ pc[c] = "dispatch" /\ buf[c].done /\ op[c] = "reseed_old"
    /\ ref' = [ref EXCEPT !["disp_unpriv"] = @ - 1]
    /\ held' = [held EXCEPT ![c] = "none"]
    /\ result' = [result EXCEPT ![c] = [ret |-> buf[c].ret, seconds |-> NoVal]]
    /\ pc' = [pc EXCEPT ![c] = "idle"]
    /\ UNCHANGED <<op, buf, req, resp, ncalls, srvRet>>

\* The end of a connection client call on buffer b: ret = buffer.ret;
\* get_min_reseed_secs copies buffer.seconds to *seconds and returns
\* without giving its connection back, reseed_crng_int gives it back.
InvokeReturn(c, b) ==
    /\ result' = [result EXCEPT ![c] =
                    [ret |-> b.ret,
                     seconds |-> IF op[c] = "min_reseed" THEN b.seconds
                                                        ELSE NoVal]]
    /\ buf' = [buf EXCEPT ![c] = b]
    /\ ref' = IF op[c] = "min_reseed" THEN ref ELSE PutPool(held[c])
    /\ held' = [held EXCEPT ![c] = "none"]
    /\ pc' = [pc EXCEPT ![c] = "idle"]

\* The connection clients: the invoke returns after the closure ran on the
\* response or on NULL.
Invoke(c) ==
    /\ pc[c] = "invoke" /\ resp[c].kind # "none"
    /\ InvokeReturn(c, Closure(buf[c], op[c], resp[c]))
    /\ UNCHANGED <<op, req, resp, ncalls, srvRet>>

\* The invoke returns without calling the closure; a request the server
\* has not handled yet is abandoned.
InvokeTimeout(c) ==
    /\ MayTimeOut
    /\ pc[c] = "invoke"
    /\ InvokeReturn(c, buf[c])
    /\ req' = req \ {c}
    /\ UNCHANGED <<op, resp, ncalls, srvRet>>

-----------------------------------------------------------------------------
\* Mutant: the request stays pending after the server handled it.
ServeKeepsRequest(c) ==
    /\ c \in req
    /\ \E r \in (IF op[c] = "min_reseed" THEN {0} ELSE ServerRets) :
         /\ resp' = [resp EXCEPT ![c] = [kind |-> "resp", ret |-> r,
                                          seconds |-> ReseedMaxTime]]
         /\ srvRet' = [srvRet EXCEPT ![c] = r]
    /\ UNCHANGED <<pc, op, buf, held, ref, req, ncalls, result>>

\* The server answers a request: esdm_rpc_get_min_reseed_secs answers
\* ret 0 with esdm_get_reseed_max_time(); the other handlers are not under
\* src/ and answer one of ServerRets.
Serve(c) ==
    /\ c \in req
    /\ \E r \in (IF op[c] = "min_reseed" THEN {0} ELSE ServerRets) :
         /\ resp' = [resp EXCEPT ![c] = [kind |-> "resp", ret |-> r,
                                          seconds |-> ReseedMaxTime]]
         /\ srvRet' = [srvRet EXCEPT ![c] = r]
    /\ req' = req \ {c}
    /\ UNCHANGED <<pc, op, buf, held, ref, ncalls, result>>

\* The connection breaks before the response reached the client, whether
\* or not the server has handled the request: the closure gets NULL.
Disconnect(c) ==
    /\ MayDisconnect
    /\ pc[c] \in {"dispatch", "invoke"} /\ ~buf[c].done
    /\ resp[c].kind # "null"
    /\ resp' = [resp EXCEPT ![c] = [NoResp EXCEPT !.kind = "null"]]
    /\ req' = req \ {c}
    /\ UNCHANGED <<pc, op, buf, held, ref, ncalls, result, srvRet>>

\* Every client has made its calls.
Done ==
    /\ \A c \in Clients : pc[c] = "idle" /\ ncalls[c] = MaxCalls
    /\ UNCHANGED vars

Client(c) ==
    \/ \E o \in Ops : Call(c, o)
    \/ DispatchRun(c)
    \/ AddEntropyReturn(c)
    \/ ReseedCrngReturn(c)
    \/ Invoke(c)
    \/ InvokeTimeout(c)

Next ==
    \/ \E c \in Clients : Client(c) \/ Serve(c) \/ Disconnect(c)
    \/ Done

Spec == Init /\ [][Next]_vars

\* A client thread keeps running its call, and the ESDM server's workers
\* eventually handle every request they received.
FairSpec ==
    /\ Spec
    /\ \A c \in Clients : /\ WF_vars(DispatchRun(c) \/ AddEntropyReturn(c)
                                    \/ ReseedCrngReturn(c) \/ Invoke(c))
                         /\ WF_vars(Serve(c))

-----------------------------------------------------------------------------
\* The values a call's buffer and its caller can see: a closure stores
\* only the server's ret or -EINTR, and seconds only from a response.
Rets == ServerRets \cup {-ETIMEDOUT, -EINTR}

TypeOK ==
    /\ pc \in [Clients -> {"idle", "dispatch", "invoke"}]
    /\ op \in [Clients -> AllOps]
    /\ buf \in [Clients -> [done : BOOLEAN, ret : Rets \cup {Garbage},
                            seconds : {Garbage, ReseedMaxTime}]]
    /\ held \in [Clients -> Pools \cup {"none"}]
    /\ ref \in [Pools -> Int]
    /\ req \subseteq Clients
    /\ ncalls \in [Clients -> 0 .. MaxCalls]
    /\ result \in [Clients -> [ret : Rets \cup {-ENOENT, NoVal},
                               seconds : {NoVal, Garbage, ReseedMaxTime}]]

\* A call whose closure ran returns what the closure was given: the
\* server's ret, or -EINTR for a broken connection (the dispatcher loop
\* and the invoke both read buffer.ret only after the closure).
ReturnsServerAnswer ==
    \A c \in Clients :
        pc[c] = "idle" /\ buf[c].done =>
            result[c].ret = IF resp[c].kind = "null" THEN -EINTR ELSE srvRet[c]

\* get_min_reseed_secs returns the server's seconds whenever it returns 0.
SecondsOnSuccess ==
    \A c \in Clients :
        pc[c] = "idle" /\ op[c] = "min_reseed" /\ result[c].ret = 0 =>
            result[c].seconds = ReseedMaxTime

\* Both client generations implement the abstract call of RpcCall: a
\* call is refused or sends one request, the server executes it at most
\* once, and the call returns the server's answer or -EINTR/-ETIMEDOUT,
\* and every call returns.  A call is busy from its request to its return.
Abs == INSTANCE RpcCall WITH
         status <- [c \in Clients |-> IF pc[c] = "idle" THEN "idle" ELSE "busy"],
         served <- srvRet,
         ret <- [c \in Clients |-> result[c].ret],
         Answers <- ServerRets,
         TransportErrs <- {-EINTR, -ETIMEDOUT},
         RefusedErr <- -ENOENT,
         None <- NoVal

RpcCallRefined == Abs!FairSpec

\* Every dispatcher or connection a call borrows goes back to the pool it
\* came from when the call returns (esdm_disp_put_priv after
\* esdm_disp_get_priv, esdm_rpcc_put_priv_service after ..._get_priv_
\* service): each pool's count is the number of calls in progress that
\* borrowed from it.
BorrowsReturned ==
    \A p \in Pools :
        ref[p] = Cardinality({c \in Clients : pc[c] # "idle" /\ held[c] = p})
====
