(* A process that lives, whatever else goes wrong: its jobs end, and a load   *)
(* gets its row.                                                              *)
CONSTANTS
    SLOT_MAX = 1
    TRIES = 3
    Faults <- AllButCrash

SPECIFICATION FairSpec

PROPERTIES
    JobEnds
    StepsRunOut
    LoadedGetsRecorded
