-------------------------- MODULE MC_EsdmDrngMgr --------------------------
(* Model-checking instance of EsdmDrngMgr.  The constants are given in    *)
(* the .cfg files; the RPC worker threads are interchangeable, so safety  *)
(* runs may use ThreadSymmetry.                                           *)
EXTENDS EsdmDrngMgr, TLC

ThreadSymmetry == Permutations(Threads)
====
