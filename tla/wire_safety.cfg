(* A host that gets to read: every reply is paired. *)
CONSTANTS
    IDS = 3
    LAG = 3
    Faults = {}

SPECIFICATION Spec

INVARIANTS
    TypeOK
    PairedReply
PROPERTY ExchangeSpec
