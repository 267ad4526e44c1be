-------------------------- MODULE MC_EsdmCusePoll --------------------------
(* Model-checking instance of EsdmCusePoll.  libfuse's do_open zeroes the *)
(* struct fuse_file_info and esdm_cuse_open replies it unchanged, so      *)
(* fi->fh is 0 for every open file of the device.                         *)
EXTENDS EsdmCusePoll

FhFromOpen == [f \in Files |-> 0]
====
