(* A unit that leaves the bus while it takes a disc in leaves it without a row. *)
CONSTANTS
    SLOT_MAX = 1
    TRIES = 3
    Faults = {"unplug"}

SPECIFICATION Spec

PROPERTY NeverLosesTrack
