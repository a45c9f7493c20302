---------------------------- MODULE MCCatalogue ----------------------------
(***************************************************************************)
(* Catalogue for TLC.  Two requests race each other and the job; MAX_ID    *)
(* bounds the row ids.                                                     *)
(***************************************************************************)
EXTENDS Catalogue, TLC

Alike == Permutations(Requests) \cup Permutations(Slots)
=============================================================================
