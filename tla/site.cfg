(* A process that starts, serves edits and deletes, stops anywhere, restarts. *)
CONSTANTS
    Discs = {1, 2}
    DataDiscs = {1}
    Categories = {"none", "Software"}
    Requests = {r1, r2}
    Stems = {s1, s2, s3}
    MAX_ID = 2
    None = None
    Absent = Absent

SPECIFICATION SiteSpec
SYMMETRY Symmetry

INVARIANTS
    SiteTypeOK
    RefusedIsMarred
    KeyIsWhole
    ArtIsThere
    NoStrayFiles
PROPERTIES
    DataCarried
    NeverReclassified
