------------------------------- MODULE RpcCall -------------------------------
(***************************************************************************)
(* What an ESDM RPC client call promises its caller, whatever the client  *)
(* generation: a call either is refused before a request is sent (the     *)
(* borrow failed), or sends one request, which the server executes at     *)
(* most once, and returns the server's answer or a transport error        *)
(* (-EINTR for a broken connection, -ETIMEDOUT when no answer came).  A   *)
(* request may be executed although the call reports a transport error.  *)
(***************************************************************************)
EXTENDS Integers

CONSTANTS
    Clients,        \* client threads
    Answers,        \* the ret values the server may answer with
    TransportErrs,  \* the errors a call returns without an answer
    RefusedErr,     \* the error of a call refused before it sends
    None            \* no answer (yet)

VARIABLES
    status,         \* "idle" or "busy" per client
    served,         \* the server's answer to the current request, or None
    ret             \* what the client's last call returned

avars == <<status, served, ret>>

Init ==
    /\ status = [c \in Clients |-> "idle"]
    /\ served = [c \in Clients |-> None]
    /\ ret \in [Clients -> {None}]

\* The call starts and sends its request.
Begin(c) ==
    /\ status[c] = "idle"
    /\ status' = [status EXCEPT ![c] = "busy"]
    /\ served' = [served EXCEPT ![c] = None]
    /\ UNCHANGED ret

\* The call returns at once, without sending.
Refuse(c) ==
    /\ status[c] = "idle"
    /\ served' = [served EXCEPT ![c] = None]
    /\ ret' = [ret EXCEPT ![c] = RefusedErr]
    /\ UNCHANGED status

\* The server executes the request: once.
Execute(c) ==
    /\ status[c] = "busy" /\ served[c] = None
    /\ \E a \in Answers : served' = [served EXCEPT ![c] = a]
    /\ UNCHANGED <<status, ret>>

\* The call returns the answer, if there is one, or a transport error.
Finish(c) ==
    /\ status[c] = "busy"
    /\ \E r \in TransportErrs \cup (IF served[c] = None THEN {} ELSE {served[c]}) :
         ret' = [ret EXCEPT ![c] = r]
    /\ status' = [status EXCEPT ![c] = "idle"]
    /\ UNCHANGED served

Next == \E c \in Clients : Begin(c) \/ Refuse(c) \/ Execute(c) \/ Finish(c)

Spec == Init /\ [][Next]_avars

\* Every call the caller makes returns.
FairSpec == Spec /\ \A c \in Clients : WF_avars(Finish(c))
====
