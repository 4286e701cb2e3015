------------------------------ MODULE Executable ------------------------------
(***************************************************************************)
(* The small programs of the repository run one at a time.  Each module    *)
(* that models some of them reads here which one runs; its own processes   *)
(* stay "off" in the runs of all others.                                   *)
(***************************************************************************)
VARIABLE program     \* the executable, named as its source file
=============================================================================
