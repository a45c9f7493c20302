-------------------------- MODULE CatalogueProofs --------------------------
(***************************************************************************)
(* Proofs about Catalogue, for any slots, any number of requests and any   *)
(* bound on the row ids.                                                   *)
(*                                                                         *)
(* job_using() is asked once, and its answer used later.  It still holds   *)
(* then, unless a job was submitted in between: that is what raced says,   *)
(* and what makes the invariant inductive.                                 *)
(***************************************************************************)
EXTENDS Catalogue, TLAPS

\* What a request carries, by what it is for.
Paired == Marks \cup {"delete", "eject", "return"}

HeldShape ==
    \A r \in Requests :
        /\ rpc[r] # "idle" =>
              /\ held[r].act \in Acts
              /\ held[r].act \in Paired =>
                    held[r].id \in Ids /\ held[r].slot \in Slots
              /\ held[r].act \in {"add", "manual"} =>
                    held[r].id = None /\ held[r].slot \in Slots
        /\ rpc[r] = "checked" => held[r].act \in Guarded

Active == {"accepted", "moving", "recording"}

JobShape ==
    /\ job.kind = "add" => job.id = None
    /\ jpc \in Active =>
          /\ job.kind \in JobKinds
          /\ job.kind = "add" => job.slot \in Slots
          /\ job.kind \in {"eject", "return"} =>
                job.id \in Ids /\ job.slot \in Slots
    /\ jpc \in {"moving", "recording"} /\ job.kind = "add" => place = job.slot

\* A job submitted on a check that was up to date stays undisturbed, because no
\* request that has passed its own check is about the same row or slot.
Undisturbed ==
    ~raced /\ jpc \in Active =>
        /\ job.kind = "add" =>
              /\ ~Taken(job.slot)
              /\ \A r \in Requests : rpc[r] = "checked" =>
                    held[r].slot # job.slot
        /\ job.kind \in {"eject", "return"} =>
              /\ Exists(job.id) /\ disc[job.id].slot = job.slot
              /\ jpc # "accepted" => place = job.slot
              /\ \A r \in Requests : rpc[r] = "checked" =>
                    held[r].id # job.id

Logs ==
    /\ jpc = "accepted" => found = None
    /\ jpc = "watch" => logged

IInv == TypeOK /\ HeldShape /\ JobShape /\ Undisturbed /\ Logs /\ AddsAreLogged

-----------------------------------------------------------------------------
(* What the writes do to the table.                                        *)

\* A mark changes no slot, and no row comes or goes (db.py:256-277).
LEMMA MarkKeeps ==
    ASSUME TableOK, NEW i \in Ids, disc[i] # None,
           NEW status \in Statuses, Mark(i, status)
    PROVE  /\ TableOK'
           /\ \A k \in Ids : (disc'[k] = None) <=> (disc[k] = None)
           /\ \A k \in Ids : disc[k] # None => disc'[k].slot = disc[k].slot
<1> DEFINE row == [slot |-> disc[i].slot, status |-> status]
<1>1. disc[i] \in Rows /\ row \in Rows /\ row.slot = disc[i].slot
  BY DEF TableOK, Rows
<1>2. row # None
  BY <1>1, NoneAssumption
<1>3. /\ disc' \in [Ids -> Rows \cup {None}]
      /\ disc'[i] = row
      /\ \A k \in Ids : k # i => disc'[k] = disc[k]
  BY <1>1 DEF TableOK, Mark
<1> HIDE DEF row
<1> QED
  BY <1>1, <1>2, <1>3 DEF TableOK

\* A new row has an id that no row has, and leaves the others as they are
\* (db.py:207-238).
LEMMA CreateAdds ==
    ASSUME TableOK, NEW s \in Slots, ~Taken(s), Create(s)
    PROVE  /\ TableOK'
           /\ \A k \in Ids : disc[k] # None => disc'[k] = disc[k]
           /\ \A k \in Ids : disc'[k] # None /\ disc[k] = None
                             => disc'[k].slot = s
<1> DEFINE row == [slot |-> s, status |-> "stored"]
<1>1. PICK i \in Ids : New(i) /\ disc' = [disc EXCEPT ![i] = row]
  BY DEF Create
<1>2. disc[i] = None
  BY <1>1, NoneAssumption DEF New, Exists, Ids
<1>3. row \in Rows /\ row.slot = s
  BY DEF Rows, Statuses
<1>4. /\ disc' \in [Ids -> Rows \cup {None}]
      /\ disc'[i] = row
      /\ \A k \in Ids : k # i => disc'[k] = disc[k]
  BY <1>1, <1>3 DEF TableOK
<1>5. \A k \in Ids : disc[k] # None => disc[k].slot # s
  BY NoneAssumption DEF Taken, Exists, Ids
<1> HIDE DEF row
<1> QED
  BY <1>2, <1>3, <1>4, <1>5 DEF TableOK

\* A delete leaves the other rows as they are (db.py:280-291).
LEMMA DeleteKeeps ==
    ASSUME TableOK, NEW i \in Ids, disc' = [disc EXCEPT ![i] = None]
    PROVE  /\ TableOK'
           /\ \A k \in Ids : k # i => disc'[k] = disc[k]
           /\ disc'[i] = None
BY DEF TableOK

\* Taken and Exists, in terms of the table alone.
LEMMA TableReads ==
    /\ \A s : Taken(s) <=> \E k \in Ids : disc[k] # None /\ disc[k].slot = s
    /\ \A k \in Ids : Exists(k) <=> disc[k] # None
    /\ None \notin Ids
BY NoneAssumption DEF Taken, Exists, Ids

-----------------------------------------------------------------------------
(* Requests.                                                               *)

\* An answer ends one request and leaves the others where they are.
LEMMA AnswerKeeps ==
    ASSUME TypeOK, HeldShape, NEW r \in Requests, Answered(r)
    PROVE  /\ rpc' \in [Requests -> {"idle", "read", "checked"}]
           /\ held' \in [Requests -> Errands]
           /\ HeldShape'
           /\ \A q \in Requests : rpc'[q] = "checked" =>
                 rpc[q] = "checked" /\ held'[q] = held[q]
<1>1. NoErrand \in Errands
  BY DEF NoErrand, Errand, Errands
<1>2. /\ rpc' \in [Requests -> {"idle", "read", "checked"}]
      /\ held' \in [Requests -> Errands]
      /\ rpc'[r] = "idle"
      /\ \A q \in Requests : q # r => rpc'[q] = rpc[q] /\ held'[q] = held[q]
  BY <1>1 DEF TypeOK, Answered, To
<1> QED
  BY <1>2 DEF HeldShape

\* The job does not notice a step that keeps the rows and slots it works on,
\* and lets no request through to a write of them.
LEMMA JobUndisturbed ==
    ASSUME IInv, UNCHANGED jobVars, TableOK',
           rpc' \in [Requests -> {"idle", "read", "checked"}],
           held' \in [Requests -> Errands],
           HeldShape',
           ~raced /\ jpc \in Active /\ job.kind = "add" =>
               /\ \A k \in Ids : disc'[k] # None => disc'[k].slot # job.slot
               /\ \A q \in Requests : rpc'[q] = "checked" =>
                     held'[q].slot # job.slot,
           ~raced /\ jpc \in Active /\ job.kind \in {"eject", "return"} =>
               /\ disc'[job.id] # None
               /\ disc'[job.id].slot = disc[job.id].slot
               /\ \A q \in Requests : rpc'[q] = "checked" =>
                     held'[q].id # job.id
    PROVE  IInv'
<1>1. TypeOK'
  BY DEF IInv, TypeOK, jobVars
<1>2. JobShape' /\ Logs' /\ AddsAreLogged'
  BY DEF IInv, JobShape, Logs, AddsAreLogged, jobVars
<1>3. Undisturbed'
  <2>1. SUFFICES ASSUME ~raced, jpc \in Active
                 PROVE  /\ job.kind = "add" =>
                             /\ ~Taken(job.slot)'
                             /\ \A q \in Requests : rpc'[q] = "checked" =>
                                   held'[q].slot # job.slot
                        /\ job.kind \in {"eject", "return"} =>
                             /\ Exists(job.id)' /\ disc'[job.id].slot = job.slot
                             /\ jpc # "accepted" => place = job.slot
                             /\ \A q \in Requests : rpc'[q] = "checked" =>
                                   held'[q].id # job.id
    BY DEF Undisturbed, jobVars
  <2>2. CASE job.kind = "add"
    BY <2>1, <2>2, NoneAssumption DEF jobVars, Taken, Exists, Ids
  <2>3. CASE job.kind \in {"eject", "return"}
    <3>1. job.id # None
      BY <2>1, <2>3, TableReads DEF IInv, JobShape
    <3>2. job' = job
      BY DEF jobVars
    <3> QED
      BY <2>1, <2>3, <3>1, <3>2 DEF IInv, Undisturbed, Exists
  <2> QED
    BY <2>2, <2>3
<1> QED
  BY <1>1, <1>2, <1>3 DEF IInv

\* What the invariant says of the table, for the lemma above.
LEMMA JobTable ==
    ASSUME IInv
    PROVE  /\ ~raced /\ jpc \in Active /\ job.kind = "add" =>
                /\ \A k \in Ids : disc[k] # None => disc[k].slot # job.slot
                /\ job.slot \in Slots
                /\ \A q \in Requests : rpc[q] = "checked" =>
                      held[q].slot # job.slot
           /\ ~raced /\ jpc \in Active /\ job.kind \in {"eject", "return"} =>
                /\ job.id \in Ids /\ disc[job.id] # None
                /\ \A q \in Requests : rpc[q] = "checked" =>
                      held[q].id # job.id
BY TableReads DEF IInv, Undisturbed, JobShape

\* Reading a row takes a request past no check (app.py:302-341, 260-266,
\* 494-504).
LEMMA ReadPreserves ==
    ASSUME IInv, NEW r \in Requests,
           NEW act \in Acts \ {"add", "manual", "reset"}, NEW i \in Ids,
           Read(r, act, i)
    PROVE  IInv'
<1> DEFINE e == Errand(act, i, disc[i].slot)
<1>1. disc[i].slot \in Slots
  BY TableReads DEF IInv, TypeOK, TableOK, Read, Rows
<1>2. e \in Errands /\ e.act = act /\ e.id = i /\ e.slot = disc[i].slot
  BY <1>1 DEF Errand, Errands
<1>3. /\ rpc' \in [Requests -> {"idle", "read", "checked"}]
      /\ held' \in [Requests -> Errands]
      /\ rpc'[r] = "read" /\ held'[r] = e
      /\ \A q \in Requests : q # r => rpc'[q] = rpc[q] /\ held'[q] = held[q]
  BY <1>2 DEF IInv, TypeOK, Read, To
<1> HIDE DEF e
<1>4. HeldShape'
  BY <1>1, <1>2, <1>3 DEF IInv, HeldShape, Acts, JobKinds, Loads, Guarded, Marks, Statuses
<1>5. disc' = disc /\ UNCHANGED jobVars /\ TableOK'
  BY DEF Read, IInv, TypeOK, TableOK
<1> QED
  BY <1>3, <1>4, <1>5, JobTable, JobUndisturbed

\* Nor does looking at a slot, or at nothing (app.py:344-358, 433-435,
\* 452-470).
LEMMA ReadSlotPreserves ==
    ASSUME IInv, NEW r \in Requests, NEW act, NEW s, ReadSlot(r, act, s),
           \/ act \in {"add", "manual"} /\ s \in Slots
           \/ act = "reset" /\ s = None
    PROVE  IInv'
<1> DEFINE e == Errand(act, None, s)
<1>1. e \in Errands /\ e.act = act /\ e.id = None /\ e.slot = s
  BY DEF Errand, Errands, Acts, JobKinds, Loads, Guarded, Marks, Statuses
<1>2. /\ rpc' \in [Requests -> {"idle", "read", "checked"}]
      /\ held' \in [Requests -> Errands]
      /\ rpc'[r] = "read" /\ held'[r] = e
      /\ \A q \in Requests : q # r => rpc'[q] = rpc[q] /\ held'[q] = held[q]
  BY <1>1 DEF IInv, TypeOK, ReadSlot, To
<1> HIDE DEF e
<1>3. HeldShape'
  BY <1>1, <1>2 DEF IInv, HeldShape, Acts, JobKinds, Loads, Guarded, Marks, Statuses, Paired
<1>4. disc' = disc /\ UNCHANGED jobVars /\ TableOK'
  BY DEF ReadSlot, IInv, TypeOK, TableOK
<1> QED
  BY <1>2, <1>3, <1>4, JobTable, JobUndisturbed

\* job_using() lets no request through to the row or slot of the running job
\* (app.py:97-110).
LEMMA CheckPreserves ==
    ASSUME IInv, NEW r \in Requests, Check(r)
    PROVE  IInv'
<1>1. disc' = disc /\ UNCHANGED jobVars /\ TableOK'
  BY DEF Check, IInv, TypeOK, TableOK
<1>2. CASE JobUsing(held[r].id, held[r].slot)
  <2>1. Answered(r)
    BY <1>2 DEF Check
  <2> QED
    BY <1>1, <2>1, AnswerKeeps, JobTable, JobUndisturbed DEF IInv
<1>3. CASE ~JobUsing(held[r].id, held[r].slot)
  <2>1. /\ held' = held
        /\ rpc' \in [Requests -> {"idle", "read", "checked"}]
        /\ rpc'[r] = "checked"
        /\ \A q \in Requests : q # r => rpc'[q] = rpc[q]
    BY <1>3 DEF Check, To, IInv, TypeOK
  <2>2. held' \in [Requests -> Errands]
    BY <2>1 DEF IInv, TypeOK
  <2>3. held[r].act \in Guarded /\ rpc[r] = "read"
    BY DEF Check, At
  <2>4. HeldShape'
    BY <2>1, <2>3 DEF IInv, HeldShape
  <2>5. /\ held[r].slot \in Slots
        /\ held[r].id \in Ids \cup {None}
    BY <2>3 DEF IInv, HeldShape, Guarded, Paired, TypeOK, Errands
  <2>6. held[r].slot # None
    BY <2>5, NoneAssumption
  <2>7. jpc \in Active => held[r].slot # job.slot
    BY <1>3, <2>6 DEF JobUsing, Running, Active
  <2>8. jpc \in Active /\ job.id \in Ids => held[r].id # job.id
    BY <1>3, TableReads DEF JobUsing, Running, Active
  <2> QED
    BY <1>1, <2>1, <2>2, <2>4, <2>7, <2>8, JobTable, JobUndisturbed
<1> QED
  BY <1>2, <1>3

\* An exception only ends the request.
LEMMA DiePreserves ==
    ASSUME IInv, NEW r \in Requests, Die(r)
    PROVE  IInv'
<1>1. Answered(r) /\ disc' = disc /\ UNCHANGED jobVars /\ TableOK'
  BY DEF Die, IInv, TypeOK, TableOK
<1> QED
  BY <1>1, AnswerKeeps, JobTable, JobUndisturbed DEF IInv

\* A correction moves no row (app.py:494-526).
LEMMA CorrectPreserves ==
    ASSUME IInv, NEW r \in Requests, Correct(r)
    PROVE  IInv'
<1>1. Answered(r) /\ UNCHANGED jobVars
  BY DEF Correct
<1>2. CASE Exists(held[r].id)
  <2>1. held[r].id \in Ids /\ held[r].act \in Statuses
    BY <1>2 DEF Correct, At, IInv, HeldShape, Paired, Marks, Statuses
  <2>2. Mark(held[r].id, held[r].act) /\ disc[held[r].id] # None
    BY <1>2 DEF Correct, Exists
  <2> QED
    BY <1>1, <2>1, <2>2, MarkKeeps, AnswerKeeps, JobTable, JobUndisturbed
    DEF IInv, TypeOK
<1>3. CASE ~Exists(held[r].id)
  <2>1. disc' = disc /\ TableOK'
    BY <1>3 DEF Correct, IInv, TypeOK, TableOK
  <2> QED
    BY <1>1, <2>1, AnswerKeeps, JobTable, JobUndisturbed DEF IInv
<1> QED
  BY <1>2, <1>3

\* A manual entry takes a slot that no undisturbed load is for
\* (app.py:452-480).
LEMMA ManualPreserves ==
    ASSUME IInv, NEW r \in Requests, Manual(r)
    PROVE  IInv'
<1>1. Answered(r) /\ UNCHANGED jobVars /\ rpc[r] = "checked"
  BY DEF Manual, At
<1>2. CASE Taken(held[r].slot)
  <2>1. disc' = disc /\ TableOK'
    BY <1>2 DEF Manual, IInv, TypeOK, TableOK
  <2> QED
    BY <1>1, <2>1, AnswerKeeps, JobTable, JobUndisturbed DEF IInv
<1>3. CASE ~Taken(held[r].slot)
  <2>1. held[r].slot \in Slots
    BY DEF Manual, At, IInv, HeldShape
  <2>2. Create(held[r].slot)
    BY <1>3 DEF Manual
  <2>3. /\ TableOK'
        /\ \A k \in Ids : disc[k] # None => disc'[k] = disc[k]
        /\ \A k \in Ids : disc'[k] # None /\ disc[k] = None
                          => disc'[k].slot = held[r].slot
    BY <1>3, <2>1, <2>2, CreateAdds DEF IInv, TypeOK
  <2> QED
    BY <1>1, <2>3, AnswerKeeps, JobTable, JobUndisturbed DEF IInv
<1> QED
  BY <1>2, <1>3

\* A delete takes away a row that no undisturbed job is about
\* (app.py:260-296).
LEMMA DeletePreserves ==
    ASSUME IInv, NEW r \in Requests, Delete(r)
    PROVE  IInv'
<1>1. Answered(r) /\ UNCHANGED jobVars /\ rpc[r] = "checked"
  BY DEF Delete, At
<1>2. held[r].id \in Ids
  BY DEF Delete, At, IInv, HeldShape, Paired
<1>3. /\ TableOK'
      /\ \A k \in Ids : k # held[r].id => disc'[k] = disc[k]
      /\ disc'[held[r].id] = None
  BY <1>2, DeleteKeeps DEF Delete, IInv, TypeOK
<1> QED
  BY <1>1, <1>2, <1>3, AnswerKeeps, JobTable, JobUndisturbed DEF IInv

\* A submission on a check that still holds starts a job that is undisturbed
\* (app.py:113-120).
LEMMA SubmitPreserves ==
    ASSUME IInv, NEW r \in Requests, Submit(r)
    PROVE  IInv'
<1>1. Answered(r) /\ disc' = disc /\ TableOK'
  BY DEF Submit, IInv, TypeOK, TableOK
<1>2. CASE Running
  <2>1. UNCHANGED jobVars
    BY <1>2 DEF Submit
  <2> QED
    BY <1>1, <2>1, AnswerKeeps, JobTable, JobUndisturbed DEF IInv
<1>3. CASE ~Running
  <2>1. /\ job' = [kind |-> held[r].act, id |-> held[r].id,
                   slot |-> held[r].slot]
        /\ jpc' = "accepted" /\ place' = None /\ found' = None
        /\ logged' = FALSE
        /\ raced' = (Stale(r) \/ \E q \in Requests : Meets(q, r))
    BY <1>3 DEF Submit
  <2>2. /\ rpc[r] = "read" /\ held[r].act \in JobKinds
        /\ held[r].id \in Ids \cup {None} /\ held[r].slot \in Slots \cup {None}
    BY DEF Submit, At, IInv, TypeOK, Errands
  <2>3. /\ job'.kind = held[r].act /\ job'.id = held[r].id
        /\ job'.slot = held[r].slot
    BY <2>1
  <2>4. job' \in [kind : JobKinds \cup {None}, id : Ids \cup {None},
                  slot : Slots \cup {None}]
    BY <2>1, <2>2
  <2>5. raced' \in BOOLEAN
    BY <2>1
  <2>6. TypeOK'
    BY <1>1, <2>1, <2>4, <2>5, AnswerKeeps DEF IInv, TypeOK
  <2>7. JobShape'
    BY <2>1, <2>2, <2>3 DEF IInv, HeldShape, JobShape, Acts, JobKinds, Paired
  <2>8. Logs' /\ AddsAreLogged' /\ HeldShape'
    BY <1>1, <2>1, AnswerKeeps DEF Logs, AddsAreLogged, IInv
  <2>9. Undisturbed'
    <3>1. SUFFICES ASSUME ~raced'
                   PROVE  /\ job'.kind = "add" =>
                               /\ ~Taken(job.slot)'
                               /\ \A q \in Requests : rpc'[q] = "checked" =>
                                     held'[q].slot # job'.slot
                          /\ job'.kind \in {"eject", "return"} =>
                               /\ Exists(job.id)'
                               /\ disc'[job'.id].slot = job'.slot
                               /\ \A q \in Requests : rpc'[q] = "checked" =>
                                     held'[q].id # job'.id
      BY <2>1 DEF Undisturbed
    <3>2. ASSUME NEW q \in Requests, rpc'[q] = "checked"
          PROVE  /\ job'.kind = "add" => held'[q].slot # job'.slot
                 /\ job'.kind \in {"eject", "return"} => held'[q].id # job'.id
      <4>1. ~Meets(q, r)
        BY <2>1, <3>1
      <4>2. rpc[q] = "checked" /\ held'[q] = held[q]
        BY <1>1, <3>2, AnswerKeeps DEF IInv
      <4>3. job'.kind \in {"eject", "return"} => held[r].id # None
        <5>1. held[r].act \in {"eject", "return"} => held[r].id \in Ids
          BY <2>2 DEF IInv, HeldShape, Paired
        <5> QED
          BY <2>3, <5>1, NoneAssumption DEF Ids
      <4> QED
        BY <2>3, <4>1, <4>2, <4>3 DEF Meets, At
    <3>3. ~Stale(r)
      BY <2>1, <3>1
    <3>4. job'.kind = "add" => ~Taken(job.slot)'
      BY <1>1, <2>3, <3>3 DEF Stale, Taken, Exists
    <3>5. job'.kind \in {"eject", "return"} =>
             Exists(job.id)' /\ disc'[job'.id].slot = job'.slot
      BY <1>1, <2>2, <2>3, <3>3, TableReads
      DEF Stale, Exists, IInv, HeldShape, Paired
    <3> QED
      BY <3>2, <3>4, <3>5
  <2> QED
    BY <2>6, <2>7, <2>8, <2>9 DEF IInv
<1> QED
  BY <1>2, <1>3

-----------------------------------------------------------------------------
(* The job.                                                                *)

\* A step of the job leaves the requests what they were.
LEMMA BesideKeeps ==
    ASSUME IInv, Beside
    PROVE  /\ rpc' \in [Requests -> {"idle", "read", "checked"}]
           /\ held' \in [Requests -> Errands]
           /\ HeldShape'
BY DEF IInv, TypeOK, HeldShape, Beside

\* A job may end with whatever came of it, if a load of a new disc is logged.
LEMMA EndPreserves ==
    ASSUME IInv, Beside, End, TableOK',
           found' \in Finds \cup {None}, logged' \in BOOLEAN,
           job.kind = "add" /\ found' # None => logged'
    PROVE  IInv'
<1>1. /\ jpc' = "over" /\ place' = None /\ raced' = FALSE
      /\ job' = [kind |-> job.kind, id |-> None, slot |-> None]
  BY DEF End
<1>2. job.kind \in JobKinds \cup {None}
  BY DEF IInv, TypeOK
<1>3. TypeOK'
  BY <1>1, <1>2, BesideKeeps DEF TypeOK
<1>4. JobShape' /\ Undisturbed' /\ Logs' /\ AddsAreLogged'
  BY <1>1 DEF JobShape, Undisturbed, Logs, AddsAreLogged, Active
<1> QED
  BY <1>3, <1>4, BesideKeeps DEF IInv

\* So may it go on to log a failure or to watch the bay, when its own write is
\* done or given up.
LEMMA LeavePreserves ==
    ASSUME IInv, Beside, TableOK', NEW l \in {"failing", "watch"}, JobTo(l),
           found' \in Finds \cup {None}, logged' \in BOOLEAN,
           l = "watch" => logged'
    PROVE  IInv'
<1>1. jpc' = l /\ place' = None /\ raced' = FALSE /\ job' = job
  BY DEF JobTo
<1>2. TypeOK'
  BY <1>1, BesideKeeps DEF IInv, TypeOK
<1>3. JobShape' /\ Undisturbed' /\ Logs' /\ AddsAreLogged'
  BY <1>1 DEF IInv, JobShape, Undisturbed, Logs, AddsAreLogged, Active
<1> QED
  BY <1>2, <1>3, BesideKeeps DEF IInv

\* While it only moves, an undisturbed job stays so.
LEMMA GoOnPreserves ==
    ASSUME IInv, Beside, disc' = disc, job' = job, raced' = raced,
           logged' = logged, found' \in Finds \cup {None},
           jpc \in Active, jpc' \in {"moving", "recording"},
           place' \in Slots \cup {None},
           job.kind = "add" => place' = job.slot,
           ~raced /\ job.kind \in {"eject", "return"} => place' = job.slot
    PROVE  IInv'
<1>1. TypeOK'
  BY BesideKeeps DEF IInv, TypeOK, TableOK
<1>2. JobShape' /\ Logs' /\ AddsAreLogged'
  BY DEF IInv, JobShape, Logs, AddsAreLogged, Active
<1>3. Undisturbed'
  BY DEF IInv, Undisturbed, Taken, Exists, Active, Beside
<1> QED
  BY <1>1, <1>2, <1>3, BesideKeeps DEF IInv

\* run_eject turns to the slot its own read says, which is the one submitted
\* unless the job was raced; run_add to the one it was given (flows.py:27-36,
\* 101-113).
LEMMA BeginPreserves ==
    ASSUME IInv, Begin
    PROVE  IInv'
<1>1. /\ Beside /\ disc' = disc /\ job' = job /\ raced' = raced
      /\ logged' = logged /\ found' = found
      /\ jpc = "accepted" /\ jpc' = "moving"
  BY DEF Begin
<1>2. job.slot \in Slots \cup {None} /\ found \in Finds \cup {None}
  BY DEF IInv, TypeOK
<1>3. CASE job.kind = "eject"
  <2>1. place' = disc[job.id].slot /\ disc[job.id] # None /\ job.id \in Ids
    BY <1>1, <1>3 DEF Begin, Exists, IInv, JobShape, Active
  <2>2. place' \in Slots
    BY <2>1 DEF IInv, TypeOK, TableOK, Rows
  <2>3. ~raced => place' = job.slot
    BY <1>1, <1>3, <2>1 DEF IInv, Undisturbed, Active
  <2> QED
    BY <1>1, <1>2, <1>3, <2>2, <2>3, GoOnPreserves DEF Active
<1>4. CASE job.kind # "eject"
  <2>1. place' = job.slot
    BY <1>4 DEF Begin
  <2> QED
    BY <1>1, <1>2, <1>4, <2>1, GoOnPreserves DEF Active
<1> QED
  BY <1>3, <1>4

\* The drive keeps the slot only if there is a write still to come.
LEMMA DrivePreserves ==
    ASSUME IInv, Drive
    PROVE  IInv'
<1>1. /\ Beside /\ disc' = disc /\ logged' = logged /\ jpc = "moving"
      /\ found' \in Finds \cup {None}
  BY DEF Drive, Outcomes, Finds
<1>2. TableOK' /\ logged' \in BOOLEAN
  BY <1>1 DEF IInv, TypeOK, TableOK
<1>3. CASE found' = "error"
  BY <1>1, <1>2, <1>3, LeavePreserves DEF Drive
<1>4. CASE found' # "error"
  <2>1. JobTo("recording")
    BY <1>4 DEF Drive
  <2>2. jpc' = "recording" /\ UNCHANGED <<job, place, raced>>
    BY <2>1 DEF JobTo
  <2>3. /\ place' \in Slots \cup {None}
        /\ job.kind = "add" => place' = job.slot
        /\ ~raced /\ job.kind \in {"eject", "return"} => place' = job.slot
    BY <1>1, <2>2 DEF IInv, TypeOK, JobShape, Undisturbed, Active
  <2> QED
    BY <1>1, <2>2, <2>3, GoOnPreserves DEF Active
<1> QED
  BY <1>3, <1>4

\* A write that fails leaves the table alone, and the failure to be logged.
LEMMA FailedPreserves ==
    ASSUME IInv, Failed
    PROVE  IInv'
BY LeavePreserves DEF Failed, IInv, TypeOK, TableOK

\* The write at the end of an eject (db.py:256-265).
LEMMA RecordTakenPreserves ==
    ASSUME IInv, RecordTaken
    PROVE  IInv'
<1>1. CASE Exists(job.id)
  <2>1. Mark(job.id, "out") /\ End /\ logged' = TRUE /\ found' = found /\ Beside
    BY <1>1 DEF RecordTaken, Written
  <2>2. job.id \in Ids /\ disc[job.id] # None
    BY <1>1 DEF Exists, IInv, TypeOK
  <2>3. TableOK'
    BY <2>1, <2>2, MarkKeeps DEF IInv, TypeOK, Statuses
  <2> QED
    BY <2>1, <2>3, EndPreserves DEF IInv, TypeOK
<1>2. CASE ~Exists(job.id)
  BY <1>2, FailedPreserves DEF RecordTaken
<1> QED
  BY <1>1, <1>2

\* The write at the end of a load (flows.py:137-143).
LEMMA RecordLoadedPreserves ==
    ASSUME IInv, RecordLoaded
    PROVE  IInv'
<1>1. CASE job.kind = "return" /\ Exists(job.id) /\ Mark(job.id, "stored")
           /\ JobTo("watch") /\ Written
  <2>1. job.id \in Ids /\ disc[job.id] # None
    BY <1>1 DEF Exists, IInv, TypeOK
  <2>2. TableOK'
    BY <1>1, <2>1, MarkKeeps DEF IInv, TypeOK, Statuses
  <2> QED
    BY <1>1, <2>2, LeavePreserves DEF Written, IInv, TypeOK
<1>2. CASE job.kind = "add" /\ ~Taken(place) /\ Create(place)
           /\ JobTo("watch") /\ Written
  <2>1. place \in Slots
    BY <1>2 DEF RecordLoaded, IInv, JobShape, Active
  <2>2. TableOK'
    BY <1>2, <2>1, CreateAdds DEF IInv, TypeOK
  <2> QED
    BY <1>2, <2>2, LeavePreserves DEF Written, IInv, TypeOK
<1>3. CASE Failed
  BY <1>3, FailedPreserves
<1> QED
  BY <1>1, <1>2, <1>3 DEF RecordLoaded

\* The steps that end a job without a write to the table.  A load of a new disc
\* has no row its event could miss (device.py:192-200).
LEMMA EndingPreserves ==
    ASSUME IInv, CannotBegin \/ RecordEvent \/ LogFailure \/ Watched
    PROVE  IInv'
<1>1. ASSUME Beside, End, disc' = disc, found' = found, logged' \in BOOLEAN,
             job.kind = "add" /\ found # None => logged'
      PROVE  IInv'
  <2>1. TableOK'
    BY <1>1 DEF IInv, TypeOK, TableOK
  <2> QED
    BY <1>1, <2>1, EndPreserves DEF IInv, TypeOK
<1>2. CASE CannotBegin
  BY <1>1, <1>2 DEF CannotBegin, IInv, TypeOK, Logs
<1>3. CASE RecordEvent
  <2>1. CASE Loggable(job.id)
    BY <1>1, <1>3, <2>1 DEF RecordEvent, Written
  <2>2. CASE ~Loggable(job.id)
    BY <1>3, <2>2, FailedPreserves DEF RecordEvent
  <2> QED
    BY <2>1, <2>2
<1>4. CASE LogFailure
  <2>1. job.kind = "add" => Loggable(job.id)
    BY DEF IInv, JobShape, Loggable
  <2> QED
    BY <1>1, <1>4, <2>1 DEF LogFailure, IInv, TypeOK
<1>5. CASE Watched
  BY <1>1, <1>5 DEF Watched, IInv, TypeOK, Logs
<1> QED
  BY <1>2, <1>3, <1>4, <1>5

\* A restart forgets every request and the job, and keeps the table.
LEMMA CrashPreserves ==
    ASSUME IInv, Crash
    PROVE  IInv'
<1>1. NoErrand \in Errands
  BY DEF NoErrand, Errand, Errands
<1>2. NoJob \in [kind : JobKinds \cup {None}, id : Ids \cup {None},
                 slot : Slots \cup {None}]
      /\ NoJob.id = None
  BY DEF NoJob
<1>3. TypeOK'
  BY <1>1, <1>2 DEF Crash, IInv, TypeOK, TableOK
<1>4. HeldShape' /\ JobShape' /\ Undisturbed' /\ Logs' /\ AddsAreLogged'
  BY <1>2
  DEF Crash, HeldShape, JobShape, Undisturbed, Logs, AddsAreLogged, Active
<1> QED
  BY <1>3, <1>4 DEF IInv

-----------------------------------------------------------------------------
(* The invariant.                                                          *)

\* It holds of an empty catalogue with nothing running.
LEMMA Initial == Init => IInv
<1> SUFFICES ASSUME Init PROVE IInv
  OBVIOUS
<1>1. NoErrand \in Errands /\ NoJob.id = None
      /\ NoJob \in [kind : JobKinds \cup {None}, id : Ids \cup {None},
                    slot : Slots \cup {None}]
  BY DEF NoErrand, Errand, Errands, NoJob
<1>2. TypeOK
  BY <1>1 DEF Init, TypeOK, TableOK
<1>3. HeldShape /\ JobShape /\ Undisturbed /\ Logs /\ AddsAreLogged
  BY <1>1
  DEF Init, HeldShape, JobShape, Undisturbed, Logs, AddsAreLogged, Active
<1> QED
  BY <1>2, <1>3 DEF IInv

\* Every step of a request, of the job and of the process keeps it.
LEMMA Inductive == IInv /\ [Next]_vars => IInv'
<1> SUFFICES ASSUME IInv, [Next]_vars PROVE IInv'
  OBVIOUS
<1>1. ASSUME NEW r \in Requests, Request(r) PROVE IInv'
  BY <1>1, ReadPreserves, ReadSlotPreserves, CheckPreserves, CorrectPreserves,
     ManualPreserves, DeletePreserves, DiePreserves, SubmitPreserves
  DEF Request
<1>2. CASE Job
  BY <1>2, BeginPreserves, DrivePreserves, RecordTakenPreserves,
     RecordLoadedPreserves, EndingPreserves DEF Job
<1>3. CASE Crash
  BY <1>3, CrashPreserves
<1>4. CASE UNCHANGED vars
  <2>1. UNCHANGED <<disc, rpc, held, job, jpc, place, found, logged, raced>>
    BY <1>4 DEF vars, jobVars
  <2> QED
    BY <2>1 DEF IInv, TypeOK, TableOK, HeldShape, JobShape, Undisturbed, Logs,
                AddsAreLogged, Taken, Exists
<1> QED
  BY <1>1, <1>2, <1>3, <1>4 DEF Next

\* An undisturbed job that moves or writes has its row, or its free slot.
LEMMA InvariantOwns == IInv => JobOwnsItsRow
<1> SUFFICES ASSUME IInv, jpc \in {"moving", "recording"}, ~raced
             PROVE  JobOwnsItsRow
  BY DEF JobOwnsItsRow
<1>1. job.kind \in JobKinds
  BY DEF IInv, JobShape, Active
<1>2. job.kind = "add" => ~Taken(place)
  BY DEF IInv, JobShape, Undisturbed, Active
<1>3. job.kind \in {"eject", "return"} =>
         Exists(job.id) /\ disc[job.id].slot = place
  BY DEF IInv, Undisturbed, Active
<1> QED
  BY <1>1, <1>2, <1>3 DEF JobOwnsItsRow, JobKinds, Loads

\* The catalogue always has one row a slot at most, whatever requests and the
\* job do to it together.
THEOREM TypeCorrect == Spec => []TypeOK
<1>1. IInv => TypeOK
  BY DEF IInv
<1> QED
  BY Initial, Inductive, <1>1, PTL DEF Spec

\* job_using() does what it is for: a job that was submitted on a check that
\* still held works on a row that stays where it is, or on a slot that stays
\* free, until its own final write (app.py:97-102).
THEOREM JobKeepsItsRow == Spec => []JobOwnsItsRow
BY Initial, Inductive, InvariantOwns, PTL DEF Spec

\* A load of a new disc leaves an event, whatever rows come in its way.
THEOREM AddsAlwaysLogged == Spec => []AddsAreLogged
<1>1. IInv => AddsAreLogged
  BY DEF IInv
<1> QED
  BY Initial, Inductive, <1>1, PTL DEF Spec
=============================================================================
