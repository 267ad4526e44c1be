------------------------- MODULE MC_EsdmCuseDaemon -------------------------
(* The daemon's life cycle with every set-up call allowed to fail, an     *)
(* umount that may stay busy, and two termination signals.                *)
EXTENDS EsdmCuseDaemon
====
