(* Two jobs, a one-off, the keeper and a unit that comes and goes, over a      *)
(* carousel of one slot; a unit may stay busy past the end of a wait.          *)
CONSTANTS
    Jobs = {j1, j2}
    Claims = {c1}
    Keeper = keeper
    Nobody = nobody
    KEEP = 1
    Faults = {"unplug", "deaf"}
    SLOT_MAX = 1
    TRIES = 1
    FlowFaults = {"stall", "unplug"}

SPECIFICATION StationFairSpec

INVARIANTS
    TypeOK
    OneJob
    RunningTracked
PROPERTIES
    Implements
    OnlyOwnerMoves
    AcceptedJobEnds
    KeeperRestores
    ErrorGoes
