------------------------------ MODULE MCFlows ------------------------------
(***************************************************************************)
(* Flows on small carousels, for TLC.  Two slots let a job go wrong next   *)
(* to a slot that is right, or be followed by a job of the other slot; the *)
(* state is finite without any bound, since nothing in Flows counts beyond *)
(* TRIES.                                                                  *)
(***************************************************************************)
EXTENDS Flows

AllButSlow == FaultKinds \ {"slow"}
AllButCrash == FaultKinds \ {"crash"}
=============================================================================
