------------------------------ MODULE Custody ------------------------------
(***************************************************************************)
(* Who may do what about the discs in the carousel, whatever happens to a  *)
(* job half way.  At most one job has a slot.  A disc leaves or comes back *)
(* only because the job that had the slot set it in motion, be that job    *)
(* over by then or not.  A job writes its slot's line in the book last,    *)
(* once, and only what is so: stored with the disc in the slot, out with   *)
(* the slot empty.  People may write anything at any time.                 *)
(***************************************************************************)
CONSTANTS Slots, None

VARIABLES
    shelf,      \* the slots that hold a disc
    book,       \* for each slot: free, stored, or out
    job,        \* the slot a job has and has not written about yet, or None
    leaving,    \* the slot a disc is being brought out of, or None
    coming      \* the slot something is being brought into, or None

custodyVars == <<shelf, book, job, leaving, coming>>

Rows  == {"free", "stored", "out"}
Still == leaving = None /\ coming = None

Init ==
    /\ shelf \in SUBSET Slots
    /\ book \in [Slots -> Rows]
    /\ job = None
    /\ Still

Take(s) ==
    /\ job = None
    /\ job' = s
    /\ UNCHANGED <<shelf, book, leaving, coming>>

\* The job ends with nothing to write.
Drop ==
    /\ job' = None
    /\ UNCHANGED <<shelf, book, leaving, coming>>

SendOut(s) ==
    /\ job = s /\ Still /\ s \in shelf
    /\ leaving' = s
    /\ UNCHANGED <<shelf, book, job, coming>>

BringIn(s) ==
    /\ job = s /\ Still
    /\ coming' = s
    /\ UNCHANGED <<shelf, book, job, leaving>>

Leave(s) ==
    /\ leaving = s
    /\ leaving' = None
    /\ shelf' = shelf \ {s}
    /\ UNCHANGED <<book, job, coming>>

\* Or a hand has taken the disc on its way in.
Come(s) ==
    /\ coming = s
    /\ coming' = None
    /\ shelf' \in {shelf, shelf \cup {s}}
    /\ UNCHANGED <<book, job, leaving>>

Write(s, row) ==
    /\ job = s /\ Still
    /\ row = IF s \in shelf THEN "stored" ELSE "out"
    /\ book' = [book EXCEPT ![s] = row]
    /\ job' = None
    /\ UNCHANGED <<shelf, leaving, coming>>

Correct(s, row) ==
    /\ book' = [book EXCEPT ![s] = row]
    /\ UNCHANGED <<shelf, job, leaving, coming>>

Next ==
    \/ Drop
    \/ \E s \in Slots :
        \/ Take(s) \/ SendOut(s) \/ BringIn(s) \/ Leave(s) \/ Come(s)
        \/ \E row \in Rows : Write(s, row) \/ Correct(s, row)

Spec == Init /\ [][Next]_custodyVars
=============================================================================
