---------------------------- MODULE MCKernelSync ----------------------------
(* KernelSync on small instances; the .cfg files give the constants.        *)
EXTENDS KernelSync
=============================================================================
