(* A start that dies between the two ALTERs leaves a database nothing opens. *)
CONSTANTS
    Discs = {1, 2}
    DataDiscs = {1}
    Categories = {"none", "Software"}

SPECIFICATION StartSpec

INVARIANT AlwaysStarts
