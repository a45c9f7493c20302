(* A host that is kept from reading mispairs a reply. *)
CONSTANTS
    IDS = 3
    LAG = 3
    Faults = {"starved"}

SPECIFICATION Spec

INVARIANT AckMeansHeard
