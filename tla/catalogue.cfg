(* Two requests and a job over two slots. *)
CONSTANTS
    Slots = {s1, s2}
    Requests = {r1, r2}
    None = None
    MAX_ID = 3

SPECIFICATION Spec
SYMMETRY Alike

INVARIANTS
    TypeOK
    JobOwnsItsRow
    AddsAreLogged
