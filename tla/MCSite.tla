------------------------------- MODULE MCSite -------------------------------
(***************************************************************************)
(* Site with two rows, one of them of the old type Data, two requests and  *)
(* three names for art.                                                    *)
(***************************************************************************)
EXTENDS Site, TLC

\* Requests and names are interchangeable, and every property is of safety.
Symmetry == Permutations(Requests) \cup Permutations(Stems)
=============================================================================
