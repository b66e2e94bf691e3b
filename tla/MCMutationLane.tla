---------------------------- MODULE MCMutationLane ----------------------------
(* A small instance of MutationLane; MCMutationLane.cfg names its callers. *)
EXTENDS MutationLane
===============================================================================
