-------------------------- MODULE MC_EsdmCuseIoctl --------------------------
(* Model-checking instance of EsdmCuseIoctl: two worker threads, a root and *)
(* an unprivileged caller.                                                 *)
EXTENDS EsdmCuseIoctl, TLC

WorkerSymmetry == Permutations(Workers)
====
