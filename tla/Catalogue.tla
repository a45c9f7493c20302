----------------------------- MODULE Catalogue -----------------------------
(***************************************************************************)
(* The catalogue under concurrent requests and a running job: the routes   *)
(* of src/app.py and the flows' writes (flows.py, device.py) over one      *)
(* SQLite database (catalog/db.py).                                        *)
(*                                                                         *)
(* A request reads a row, asks whether a job is using it, and then writes: *)
(* three steps, with anything in between.  A write is one transaction.  A  *)
(* row id that was the largest is given out again once its row is gone.    *)
(*                                                                         *)
(* Where discs really are is Flows; here a job has moved one or has not.   *)
(***************************************************************************)
EXTENDS Naturals

CONSTANTS
    Slots,
    Requests,   \* the request threads
    None,       \* NULL, and no row
    MAX_ID      \* a bound: no row gets a larger id

ASSUME MaxIdAssumption == MAX_ID \in Nat

VARIABLES
    disc,       \* the row of each id, or None
    rpc,        \* where each request is
    held,       \* what it is about, as it read it
    job,        \* the job submitted last
    jpc,        \* where it is
    place,      \* the slot it has the carousel turn to
    found,      \* what came of that, None before
    logged,     \* whether it has left an event
    raced       \* history: whether it was submitted on a look now out of date,
                \* or beside a request that no longer asks about it

jobVars == <<job, jpc, place, found, logged, raced>>
vars == <<disc, rpc, held, jobVars>>

Ids      == 1 .. MAX_ID
Statuses == {"stored", "out"}
Rows     == [slot : Slots, status : Statuses]
Loads    == {"add", "return"}
JobKinds == Loads \cup {"eject", "reset"}
Marks    == Statuses
Guarded  == Marks \cup {"delete", "manual"}     \* the routes that ask job_using
Acts     == JobKinds \cup Guarded
Finds    == {"nothing", "taken", "loaded", "error"}

ASSUME NoneAssumption ==
    None \notin Slots \cup Nat \cup Rows \cup Acts \cup Finds

\* What a request is about: a row, a slot, or nothing.
Errands == [act : Acts \cup {None}, id : Ids \cup {None},
            slot : Slots \cup {None}]
Errand(act, i, s) == [act |-> act, id |-> i, slot |-> s]
NoErrand == Errand(None, None, None)

\* The table, and its UNIQUE slots.
TableOK ==
    /\ disc \in [Ids -> Rows \cup {None}]
    /\ \A i, k \in Ids : disc[i] # None /\ disc[k] # None /\ i # k
                         => disc[i].slot # disc[k].slot

TypeOK ==
    /\ TableOK
    /\ rpc \in [Requests -> {"idle", "read", "checked"}]
    /\ held \in [Requests -> Errands]
    /\ job \in [kind : JobKinds \cup {None}, id : Ids \cup {None},
                slot : Slots \cup {None}]
    /\ jpc \in {"none", "accepted", "moving", "recording", "failing", "watch",
                "over"}
    /\ place \in Slots \cup {None}
    /\ found \in Finds \cup {None}
    /\ logged \in BOOLEAN
    /\ raced \in BOOLEAN

NoJob == [kind |-> None, id |-> None, slot |-> None]

Init ==
    /\ disc = [i \in Ids |-> None]
    /\ rpc = [r \in Requests |-> "idle"]
    /\ held = [r \in Requests |-> NoErrand]
    /\ job = NoJob
    /\ jpc = "none"
    /\ place = None
    /\ found = None
    /\ logged = FALSE
    /\ raced = FALSE

-----------------------------------------------------------------------------
(* The database.                                                            *)

Exists(i) == i # None /\ disc[i] # None
Taken(s)  == \E i \in Ids : Exists(i) /\ disc[i].slot = s

\* One past the largest id there is.
New(i) ==
    /\ \A k \in Ids : Exists(k) => k < i
    /\ i > 1 => Exists(i - 1)

\* create_disc, of a slot that is not taken; one that is is an IntegrityError.
Create(s) ==
    \E i \in Ids :
        New(i) /\ disc' = [disc EXCEPT ![i] = [slot |-> s, status |-> "stored"]]

\* mark_out, mark_stored: an event of a row that is not there is an
\* IntegrityError, and undoes the update with it.
Mark(i, status) ==
    disc' = [disc EXCEPT ![i] = [slot |-> disc[i].slot, status |-> status]]
Loggable(i) == i = None \/ Exists(i)

-----------------------------------------------------------------------------
(* Requests.                                                                *)

At(r, l) == rpc[r] = l
To(r, l) == rpc' = [rpc EXCEPT ![r] = l]

\* The request is answered, with an error or without.
Answered(r) ==
    /\ To(r, "idle")
    /\ held' = [held EXCEPT ![r] = NoErrand]

\* The pages of a disc.  What a page refuses by the status it has read, now or
\* later, changes nothing.
Read(r, act, i) ==
    /\ At(r, "idle") /\ Exists(i)
    /\ act = "eject" => disc[i].status = "stored"
    /\ act = "return" => disc[i].status = "out"
    /\ act \in Marks => disc[i].status # act
    /\ held' = [held EXCEPT ![r] = Errand(act, i, disc[i].slot)]
    /\ To(r, "read")
    /\ UNCHANGED <<disc, jobVars>>

\* add() and reconcile_manual() look at a slot, device_reset() at nothing.
ReadSlot(r, act, s) ==
    /\ At(r, "idle")
    /\ s # None => ~Taken(s)
    /\ held' = [held EXCEPT ![r] = Errand(act, None, s)]
    /\ To(r, "read")
    /\ UNCHANGED <<disc, jobVars>>

Running == jpc \notin {"none", "over"}

\* Mutant: a job is only known by its disc.
JobUsingDisc(i, s) == Running /\ i # None /\ job.id = i

\* job_using()
JobUsing(i, s) ==
    /\ Running
    /\ \/ i # None /\ job.id = i
       \/ s # None /\ job.slot = s

Check(r) ==
    /\ At(r, "read") /\ held[r].act \in Guarded
    /\ IF JobUsing(held[r].id, held[r].slot)
         THEN Answered(r)
         ELSE To(r, "checked") /\ UNCHANGED held
    /\ UNCHANGED <<disc, jobVars>>

\* _correct: the row may have gone since.
Correct(r) ==
    /\ At(r, "checked") /\ held[r].act \in Marks
    /\ IF Exists(held[r].id)
         THEN Mark(held[r].id, held[r].act)
         ELSE UNCHANGED disc
    /\ Answered(r)
    /\ UNCHANGED jobVars

\* Mutant: a schema without UNIQUE.
ManualAnyway(r) ==
    /\ At(r, "checked") /\ held[r].act = "manual"
    /\ Create(held[r].slot)
    /\ Answered(r)
    /\ UNCHANGED jobVars

Manual(r) ==
    /\ At(r, "checked") /\ held[r].act = "manual"
    /\ IF Taken(held[r].slot) THEN UNCHANGED disc ELSE Create(held[r].slot)
    /\ Answered(r)
    /\ UNCHANGED jobVars

\* disc_delete
Delete(r) ==
    /\ At(r, "checked") /\ held[r].act = "delete"
    /\ disc' = [disc EXCEPT ![held[r].id] = None]
    /\ Answered(r)
    /\ UNCHANGED jobVars

\* An exception: the database stays locked.
Die(r) ==
    /\ ~At(r, "idle")
    /\ Answered(r)
    /\ UNCHANGED <<disc, jobVars>>

\* What the request has read is no longer so.
Stale(r) ==
    \/ held[r].id # None /\ ~(/\ Exists(held[r].id)
                              /\ disc[held[r].id].slot = held[r].slot)
    \/ held[r].act = "add" /\ Taken(held[r].slot)

\* q has passed its check and is about to write the row, or take the slot, that
\* r is about.
Meets(q, r) ==
    /\ At(q, "checked")
    /\ \/ held[r].id # None /\ held[q].id = held[r].id
       \/ held[r].act = "add" /\ held[q].slot = held[r].slot

\* start_job: refused if the unit is busy.
Submit(r) ==
    /\ At(r, "read") /\ held[r].act \in JobKinds
    /\ IF Running
         THEN UNCHANGED jobVars
         ELSE /\ job' = [kind |-> held[r].act, id |-> held[r].id,
                         slot |-> held[r].slot]
              /\ jpc' = "accepted"
              /\ place' = None
              /\ found' = None
              /\ logged' = FALSE
              /\ raced' = (Stale(r) \/ \E q \in Requests : Meets(q, r))
    /\ Answered(r)
    /\ UNCHANGED disc

-----------------------------------------------------------------------------
(* The job.                                                                 *)

\* Once it has written, the slot is no longer its business.
JobTo(l) ==
    /\ jpc' = l
    /\ IF l = "recording" THEN UNCHANGED <<place, raced>>
                          ELSE place' = None /\ raced' = FALSE
    /\ UNCHANGED job

\* Of a job that is over, only what it was and what came of it matters.
End ==
    /\ jpc' = "over"
    /\ job' = [kind |-> job.kind, id |-> None, slot |-> None]
    /\ place' = None
    /\ raced' = FALSE

Beside == UNCHANGED <<rpc, held>>

\* A unit that cannot be opened, or a disc that run_eject no longer finds.
CannotBegin ==
    /\ jpc = "accepted"
    /\ End
    /\ UNCHANGED <<disc, found, logged>> /\ Beside

\* run_eject reads the row for itself, run_add takes the request's word.
Begin ==
    /\ jpc = "accepted"
    /\ job.kind = "eject" => Exists(job.id)
    /\ jpc' = "moving"
    /\ place' = IF job.kind = "eject" THEN disc[job.id].slot ELSE job.slot
    /\ UNCHANGED <<disc, job, found, logged, raced>> /\ Beside

Outcomes ==
    {"nothing", "error"} \cup IF job.kind = "eject" THEN {"taken"}
                              ELSE IF job.kind \in Loads THEN {"loaded"} ELSE {}

\* The carousel turns, and whatever comes of it does.
Drive ==
    /\ jpc = "moving"
    /\ found' \in Outcomes
    /\ JobTo(IF found' = "error" THEN "failing" ELSE "recording")
    /\ UNCHANGED <<disc, logged>> /\ Beside

Written == logged' = TRUE /\ UNCHANGED found /\ Beside
Failed  == JobTo("failing") /\ UNCHANGED <<disc, found, logged>> /\ Beside

\* mark_out
RecordTaken ==
    /\ jpc = "recording" /\ found = "taken"
    /\ IF Exists(job.id)
         THEN Mark(job.id, "out") /\ End /\ Written
         ELSE Failed

\* mark_stored or create_disc
RecordLoaded ==
    /\ jpc = "recording" /\ found = "loaded"
    /\ \/ /\ job.kind = "return" /\ Exists(job.id)
          /\ Mark(job.id, "stored") /\ JobTo("watch") /\ Written
       \/ /\ job.kind = "add" /\ ~Taken(place)
          /\ Create(place) /\ JobTo("watch") /\ Written
       \/ /\ IF job.kind = "add" THEN Taken(place) ELSE ~Exists(job.id)
          /\ Failed

\* Every other end of a flow is an event.
RecordEvent ==
    /\ jpc = "recording" /\ found = "nothing"
    /\ IF Loggable(job.id)
         THEN End /\ Written /\ UNCHANGED disc
         ELSE Failed

\* Mutant: a failure is logged with the job's disc or not at all.
LogFailureOfADisc ==
    /\ jpc = "failing"
    /\ logged' = (logged \/ Exists(job.id))
    /\ End
    /\ UNCHANGED <<disc, found>> /\ Beside

\* _log_failure swallows what goes wrong with it.
LogFailure ==
    /\ jpc = "failing"
    /\ logged' = (logged \/ Loggable(job.id))
    /\ End
    /\ UNCHANGED <<disc, found>> /\ Beside

Watched ==
    /\ jpc = "watch"
    /\ End
    /\ UNCHANGED <<disc, found, logged>> /\ Beside

-----------------------------------------------------------------------------
\* The process stops, with every request and the job.
Crash ==
    /\ rpc' = [r \in Requests |-> "idle"]
    /\ held' = [r \in Requests |-> NoErrand]
    /\ job' = NoJob
    /\ jpc' = "none"
    /\ place' = None
    /\ found' = None
    /\ logged' = FALSE
    /\ raced' = FALSE
    /\ UNCHANGED disc

Request(r) ==
    \/ \E act \in Acts \ {"add", "manual", "reset"}, i \in Ids : Read(r, act, i)
    \/ \E act \in {"add", "manual"}, s \in Slots : ReadSlot(r, act, s)
    \/ ReadSlot(r, "reset", None)
    \/ Check(r) \/ Correct(r) \/ Manual(r) \/ Delete(r)
    \/ Die(r) \/ Submit(r)

Job == \/ CannotBegin \/ Begin \/ Drive \/ RecordTaken \/ RecordLoaded
       \/ RecordEvent \/ LogFailure \/ Watched

Next == (\E r \in Requests : Request(r)) \/ Job \/ Crash

Spec == Init /\ [][Next]_vars

-----------------------------------------------------------------------------
(* Properties.                                                              *)

\* What job_using() is for (app.py:97-102): a job that was not raced works on
\* the slot of a row that stays where it is, or on a slot that stays free, until
\* it writes.  So its own final write does not fail.
JobOwnsItsRow ==
    jpc \in {"moving", "recording"} /\ ~raced =>
        CASE job.kind = "reset" -> TRUE
          [] job.kind = "add"   -> ~Taken(place)
          [] OTHER              -> Exists(job.id) /\ disc[job.id].slot = place

\* A load of a new disc always leaves an event, even if a row came in its way
\* (device.py:192-200).
AddsAreLogged ==
    jpc = "over" /\ job.kind = "add" /\ found # None => logged

\* What README.md:348-349 says: every hardware action leaves an event.  It is
\* not so of a job whose row was deleted after the check.
EveryActionLogged == jpc = "over" /\ found # None => logged
=============================================================================
