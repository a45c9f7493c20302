(* A delete that has checked before the job is submitted. *)
CONSTANTS
    Slots = {s1}
    Requests = {r1, r2}
    None = None
    MAX_ID = 1

SPECIFICATION Spec

INVARIANT EveryActionLogged
