------------------------------- MODULE MCWire -------------------------------
(***************************************************************************)
(* Wire for TLC.  Ids wrap around after three, and three reports can lie   *)
(* unread: enough for reports of two commands and one before them.         *)
(***************************************************************************)
EXTENDS Wire

AllFaults == FaultKinds
=============================================================================
