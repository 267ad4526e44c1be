--------------------------- MODULE MC_EsdmRpcClient ---------------------------
(* Model-checking instance of EsdmRpcClient: two client threads.          *)
EXTENDS EsdmRpcClient, TLC

\* The handlers answer success or -EINVAL.
McServerRets == {0, -22}

ClientSymmetry == Permutations(Clients)
====
