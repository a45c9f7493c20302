(* A host that keeps up with the unit; everything else may go wrong: the      *)
(* catalogue and the carousel on two slots.                                   *)
CONSTANTS
    SLOT_MAX = 2
    TRIES = 2
    Faults <- AllButSlow

SPECIFICATION Spec

INVARIANTS
    TypeOK
    Tracked
    NoDoubleLoad
    PresentedNeverTurned
    ResetIsHome
PROPERTY CustodySpec
