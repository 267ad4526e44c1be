---------------------------- MODULE MC_EsdmConfig ----------------------------
(* Model-checking instance of EsdmConfig with 4-bit words: the security    *)
(* strength is 8 bits, the Jitter default a quarter of it.                 *)
EXTENDS EsdmConfig

McDefaultRate == [s \in Sources |-> IF s = "jent" THEN 2
                                    ELSE IF s = "krng" THEN 0 ELSE 1]
====
