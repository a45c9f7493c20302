------------------------------- MODULE Flows -------------------------------
(***************************************************************************)
(* The hardware flows (src/discstakka/flows.py) over the protocol          *)
(* operations they call (src/discstakka/protocol.py), run by the one       *)
(* worker thread against the unit of Carousel, next to the catalogue rows  *)
(* the flows write.                                                        *)
(*                                                                         *)
(* A step of the worker is one exchange with the unit, or one wait seen to *)
(* its end; the unit and the hand move between any two of them.  A wait is *)
(* a polling loop: a poll that does not decide it changes nothing and is   *)
(* no step.                                                                *)
(*                                                                         *)
(* A disc is named by its slot: no operation ever changes the slot of a    *)
(* row.                                                                    *)
(***************************************************************************)
EXTENDS Carousel

CONSTANTS
    TRIES,      \* how often require() sends a command before it gives up
    Faults      \* what may go wrong, a subset of FaultKinds

\*   blip     the unit goes busy just as a command is on its way
\*   late     a hand feeds a disc in when nobody asked for one
\*   slow     the host misses the unit's timers: DISC_WAITING goes by unseen,
\*            or the firmware gives up before the accept is sent
\*   stall    the unit stays busy past the end of a wait
\*   silent   an exchange fails although the unit is there
\*   unplug   the unit leaves the bus, and may have forgotten its position
\*   crash    the process stops
\*   people   the catalogue is corrected by hand, rightly or not
\*   race     a row changes between a request's look at it and its submit, or
\*            a request that asked job_using before a job was submitted writes
\*            the job's row while it runs (Catalogue has those requests step by
\*            step)
FaultKinds ==
    {"blip", "late", "slow", "stall", "silent", "unplug", "crash", "people",
     "race"}

ASSUME TriesAssumption == TRIES \in Nat \ {0}
ASSUME FaultsAssumption == Faults \subseteq FaultKinds

VARIABLES
    catalogue,  \* for each slot: free, or its row's status
    link,       \* whether the open handle reaches the unit
    pc,         \* where the worker is
    task,       \* what kind of job it runs
    slot,       \* the slot of the job; HOME when it has none
    result,     \* what the flow has found out, known before it parks
    tries,      \* unanswered sends of the command being required
    doubtful    \* history: the slots that may hold, or get, a disc the
                \* catalogue does not call stored, through a load given up
                \* after the unit obeyed, a correction or a race

jobVars == <<task, slot, result>>
hostVars == <<catalogue, link, pc, task, slot, result, tries, doubtful>>
vars == <<unitVars, hostVars>>

Rows    == {"free", "stored", "out"}
Tasks   == {"none", "reset", "eject", "add", "return"}
Results == {"none", "reset", "missing", "taken", "restored", "absent", "loaded"}

MovePcs  == {"move_wait", "move_check", "home_check", "home_wait", "home_send",
             "home_settle", "home_confirm", "move_send", "move_settle"}
EjectPcs == {"look", "take", "retract_send", "retract_settle", "retract_look"}
AddPcs   == {"insert", "ingest_wait", "accept_send", "accept_settle"}
TalkPcs  == MovePcs \cup EjectPcs \cup AddPcs
Pcs      == TalkPcs \cup {"idle", "open", "record", "watch"}

HostTypeOK ==
    /\ catalogue \in [Slots -> Rows]
    /\ link \in {"up", "down"}
    /\ pc \in Pcs
    /\ task \in Tasks
    /\ slot \in Places
    /\ result \in Results
    /\ tries \in 0 .. TRIES - 1
    /\ doubtful \subseteq Slots

TypeOK == UnitTypeOK /\ HostTypeOK

\* The catalogue may have been left wrong about any slot.
Init ==
    /\ UnitInit
    /\ catalogue \in [Slots -> Rows]
    /\ link = "down"
    /\ pc = "idle"
    /\ task = "none"
    /\ slot = HOME
    /\ result = "none"
    /\ tries = 0
    /\ doubtful = {s \in occupied : catalogue[s] # "stored"}

-----------------------------------------------------------------------------
(* Jobs begin and end.                                                      *)

Idle == pc = "idle"

Begin(kind, s) ==
    /\ Idle
    /\ pc' = "open"
    /\ task' = kind
    /\ slot' = s
    /\ UNCHANGED <<unitVars, catalogue, link, result, tries>>

\* A request has seen "row" in the slot, and submits a job on the strength of it.
Start(kind, s, row) ==
    /\ Begin(kind, s)
    /\ \/ catalogue[s] = row /\ UNCHANGED doubtful
       \/ /\ "race" \in Faults /\ catalogue[s] # row
          /\ doubtful' = doubtful \cup {s}

StartReset == Begin("reset", HOME) /\ UNCHANGED doubtful
StartEject(s) == Start("eject", s, "stored")
StartReturn(s) == Start("return", s, "out")
\* Mutant: add() without "already spoken for" (app.py:352).
StartAddAnywhere(s) == Begin("add", s) /\ UNCHANGED doubtful

StartAdd(s) == Start("add", s, "free")

\* The job is over, whatever became of it.
Over ==
    /\ pc' = "idle"
    /\ task' = "none"
    /\ slot' = HOME
    /\ result' = "none"
    /\ tries' = 0

\* The unit has been told to take the disc in and no row says so yet.
Loading ==
    \/ pc = "accept_settle"
    \/ result = "loaded" /\ pc # "watch"

GiveUp ==
    /\ Over
    /\ doubtful' = IF Loading THEN doubtful \cup {slot} ELSE doubtful
    /\ UNCHANGED catalogue

\* park() swallows every DeviceError and the flow goes on to its record;
\* anywhere else the error ends the job.
Parking == pc \in MovePcs /\ result # "none"

\* Mutant: park() lets its error out, and the job ends there.
DeviceFailsAnywhere == GiveUp

DeviceFails ==
    \/ /\ Parking
       /\ pc' = "record"
       /\ tries' = 0
       /\ UNCHANGED <<jobVars, catalogue, doubtful>>
    \/ ~Parking /\ GiveUp

-----------------------------------------------------------------------------
(* The shapes every exchange has.                                           *)

At(l) == pc = l /\ link = "up"

Goto(l) ==
    /\ pc' = l
    /\ UNCHANGED <<jobVars, catalogue, link, tries, doubtful>>

Park(found) ==
    /\ pc' = "move_wait"
    /\ result' = found
    /\ UNCHANGED <<task, slot, catalogue, link, tries, doubtful>>

\* wait_idle() at "l", successful
WaitIdle(l) == At(l) /\ ~Busy

\* Mutant: one attempt too many.
UnheardOneMore(error) ==
    /\ IF tries + 1 <= TRIES
         THEN /\ tries' = tries + 1
              /\ UNCHANGED <<pc, jobVars, catalogue, doubtful>>
         ELSE error
    /\ UNCHANGED <<unitVars, link>>

\* Mutant: attempts without end.
UnheardForever(error) ==
    /\ tries' = (tries + 1) % TRIES
    /\ UNCHANGED <<pc, jobVars, catalogue, doubtful, unitVars, link>>

\* require(): a command nobody heard is sent again, and the wait_idle in
\* between decides nothing; after the last attempt it is an error.
Unheard(error) ==
    /\ IF tries + 1 < TRIES
         THEN /\ tries' = tries + 1
              /\ UNCHANGED <<pc, jobVars, catalogue, doubtful>>
         ELSE error
    /\ UNCHANGED <<unitVars, link>>

Heard(l) ==
    /\ pc' = l
    /\ tries' = 0
    /\ UNCHANGED <<jobVars, catalogue, link, doubtful>>

\* Mutant: a move never acknowledged is taken for one that was.
RequireMoveTrusting(p, eject, l) ==
    \/ HearsMove(p) /\ SetPos(p, eject) /\ Heard(l)
    \/ ~HearsMove(p) /\ Unheard(/\ pc' = l
                               /\ tries' = 0
                               /\ UNCHANGED <<jobVars, catalogue, doubtful>>)

RequireMove(p, eject, l) ==
    \/ HearsMove(p) /\ SetPos(p, eject) /\ Heard(l)
    \/ ~HearsMove(p) /\ Unheard(DeviceFails)

-----------------------------------------------------------------------------
(* The worker: DeviceController._run_owned opens the unit and runs a flow.  *)

\* An eject reads its row again first, and fails if it is gone.
RowGone == task = "eject" /\ catalogue[slot] = "free"

Open ==
    /\ pc = "open"
    /\ IF link = "up" /\ ~RowGone THEN Goto("move_wait")
                                  ELSE GiveUp /\ UNCHANGED link
    /\ UNCHANGED unitVars

(* DiscStakka.move_to, and with it park() and reset(): the latter's error   *)
(* clearing aside, a reset is a move to home.                               *)

Destination == IF task = "reset" \/ result # "none" THEN HOME ELSE slot
Ejecting    == task = "eject" /\ result = "none"

MoveWait == WaitIdle("move_wait") /\ Goto("move_check") /\ UNCHANGED unitVars

\* Mutant: a move that does not look at the bay.
MoveCheckBlind ==
    /\ At("move_check")
    /\ Goto(IF Destination = HOME THEN "move_send" ELSE "home_check")
    /\ UNCHANGED unitVars

MoveCheck ==
    /\ At("move_check")
    /\ IF bay # "empty"
         THEN DeviceFails /\ UNCHANGED link
         ELSE Goto(IF Destination = HOME THEN "move_send" ELSE "home_check")
    /\ UNCHANGED unitVars

HomeCheck ==
    /\ At("home_check")
    /\ Goto(IF homed THEN "move_send" ELSE "home_wait")
    /\ UNCHANGED unitVars

HomeWait == WaitIdle("home_wait") /\ Goto("home_send") /\ UNCHANGED unitVars

HomeSend == At("home_send") /\ RequireMove(HOME, FALSE, "home_settle")

HomeSettle ==
    WaitIdle("home_settle") /\ Goto("home_confirm") /\ UNCHANGED unitVars

HomeConfirm ==
    /\ At("home_confirm")
    /\ IF homed THEN Goto("move_send") ELSE DeviceFails /\ UNCHANGED link
    /\ UNCHANGED unitVars

MoveSend ==
    At("move_send") /\ RequireMove(Destination, Ejecting, "move_settle")

\* reset() is a move of its own, with nothing left to find out.
HomeReached ==
    /\ pc' = "record"
    /\ result' = "reset"
    /\ UNCHANGED <<task, slot, catalogue, link, tries, doubtful>>

MoveSettle ==
    /\ WaitIdle("move_settle")
    /\ \/ result # "none" /\ Goto("record")
       \/ result = "none" /\ task = "reset" /\ HomeReached
       \/ Ejecting /\ Goto("look")
       \/ result = "none" /\ task \in {"add", "return"} /\ Goto("insert")
    /\ UNCHANGED unitVars

(* run_eject, once the carousel has stopped                                 *)

Look ==
    /\ At("look")
    /\ IF bay = "empty" THEN Park("missing") ELSE Goto("take")
    /\ UNCHANGED unitVars

WaitForTake ==
    At("take") /\ bay = "empty" /\ Park("taken") /\ UNCHANGED unitVars

\* The window closes.  The wait_idle before the retract decides nothing.
NotTaken ==
    At("take") /\ bay # "empty" /\ Goto("retract_send") /\ UNCHANGED unitVars

\* An unanswered retract is no error: the bay sensor decides.
Unanswered ==
    /\ pc' = "retract_settle"
    /\ tries' = 0
    /\ UNCHANGED <<jobVars, catalogue, doubtful>>

RetractSend ==
    /\ At("retract_send")
    /\ \/ ~Busy /\ Retract /\ Heard("retract_settle")
       \/ Busy /\ Unheard(Unanswered)
       \/ "silent" \in Faults /\ Unanswered /\ UNCHANGED <<unitVars, link>>

RetractSettle ==
    WaitIdle("retract_settle") /\ Goto("retract_look") /\ UNCHANGED unitVars

RetractLook ==
    /\ At("retract_look")
    /\ IF bay = "empty" THEN Park("restored") ELSE GiveUp /\ UNCHANGED link
    /\ UNCHANGED unitVars

(* run_add, once the carousel has stopped                                   *)

WaitForInsert ==
    At("insert") /\ mouth = "waiting" /\ Goto("ingest_wait")
    /\ UNCHANGED unitVars

NotInserted ==
    At("insert") /\ mouth # "waiting" /\ Park("absent") /\ UNCHANGED unitVars

IngestWait ==
    WaitIdle("ingest_wait") /\ Goto("accept_send") /\ UNCHANGED unitVars

AcceptSend ==
    /\ At("accept_send")
    /\ \/ ~Busy /\ AcceptDisc /\ Heard("accept_settle")
       \/ Busy /\ Unheard(DeviceFails)

AcceptSettle ==
    WaitIdle("accept_settle") /\ Park("loaded") /\ UNCHANGED unitVars

(* What the flows write                                                     *)

\* create_disc needs the slot free (schema.sql: UNIQUE); mark_stored and
\* mark_out log an event, which needs the row (schema.sql: REFERENCES).
Writable == catalogue[slot] = "free" <=> task = "add"

\* Mutant: a return that forgets mark_stored.
RecordLoadedIfNew ==
    /\ pc = "record" /\ result = "loaded" /\ Writable
    /\ catalogue' = IF task = "add" THEN [catalogue EXCEPT ![slot] = "stored"]
                                   ELSE catalogue
    /\ doubtful' = doubtful \ {slot}
    /\ pc' = "watch"
    /\ UNCHANGED <<unitVars, link, jobVars, tries>>

\* create_disc or mark_stored; the job then watches the unit for a while.
RecordLoaded ==
    /\ pc = "record" /\ result = "loaded" /\ Writable
    /\ catalogue' = [catalogue EXCEPT ![slot] = "stored"]
    /\ doubtful' = doubtful \ {slot}
    /\ pc' = "watch"
    /\ UNCHANGED <<unitVars, link, jobVars, tries>>

\* Mutant: mark_out for every disc not taken in time as well.
RecordTakenOrNot ==
    /\ pc = "record" /\ result \in {"taken", "restored"} /\ Writable
    /\ catalogue' = [catalogue EXCEPT ![slot] = "out"]
    /\ Over
    /\ UNCHANGED <<unitVars, link, doubtful>>

\* mark_out
RecordTaken ==
    /\ pc = "record" /\ result = "taken" /\ Writable
    /\ catalogue' = [catalogue EXCEPT ![slot] = "out"]
    /\ Over
    /\ UNCHANGED <<unitVars, link, doubtful>>

\* The database refuses the write, which ends the job.
Refused ==
    /\ pc = "record" /\ result \in {"loaded", "taken"} /\ ~Writable
    /\ GiveUp
    /\ UNCHANGED <<unitVars, link>>

\* Every other end of a flow only logs an event, and is the end even if the
\* event is refused.
RecordNothing ==
    /\ pc = "record" /\ result \notin {"loaded", "taken"}
    /\ Over
    /\ UNCHANGED <<unitVars, link, catalogue, doubtful>>

\* Ten seconds have passed, or the unit was lost: a success either way.
Watched ==
    /\ pc = "watch"
    /\ Over
    /\ UNCHANGED <<unitVars, link, catalogue, doubtful>>

(* Errors                                                                   *)

WaitPcs == {"move_wait", "home_wait", "home_settle", "move_settle",
            "retract_settle", "ingest_wait", "accept_settle"}

WaitIdleExpires ==
    /\ "stall" \in Faults
    /\ pc \in WaitPcs /\ link = "up" /\ Busy
    /\ DeviceFails
    /\ UNCHANGED <<unitVars, link>>

\* NotConnected, or a unit that says nothing
ExchangeFails ==
    /\ pc \in TalkPcs
    /\ link = "down" \/ "silent" \in Faults
    /\ DeviceFails
    /\ UNCHANGED <<unitVars, link>>

Worker ==
    \/ Open \/ MoveWait \/ MoveCheck \/ HomeCheck \/ HomeWait \/ HomeSend
    \/ HomeSettle \/ HomeConfirm \/ MoveSend \/ MoveSettle
    \/ Look \/ WaitForTake \/ NotTaken
    \/ RetractSend \/ RetractSettle \/ RetractLook
    \/ WaitForInsert \/ NotInserted \/ IngestWait \/ AcceptSend \/ AcceptSettle
    \/ RecordLoaded \/ RecordTaken \/ Refused \/ RecordNothing \/ Watched
    \/ WaitIdleExpires \/ ExchangeFails

-----------------------------------------------------------------------------
(* Everything else that moves.                                              *)

\* A host that keeps polling sees the disc at the mouth, and sends its accept
\* well before the firmware gives up (1.5 s and 10 s against polls of 0.15 s).
DrawOff == ("slow" \in Faults \/ pc # "insert") /\ DiscDrawnOff
Expire  == /\ "slow" \in Faults \/ pc \notin {"ingest_wait", "accept_send"}
           /\ AckExpired

Unit ==
    /\ Arrive \/ BackInSlot \/ DiscStored \/ DrawOff \/ DiscSettled \/ Expire
       \/ Quiet \/ ("blip" \in Faults /\ Blip)
    /\ UNCHANGED hostVars

Hand ==
    /\ \/ ("late" \in Faults \/ pc = "insert") /\ InsertDisc
       \/ TakeDisc
    /\ UNCHANGED hostVars

\* The handle no longer reaches the unit, or never did: a unit that is not open
\* may still leave the bus.
Unplug ==
    /\ "unplug" \in Faults
    /\ link' = "down"
    /\ homed' \in {homed, FALSE}
    /\ UNCHANGED <<position, motion, target, mouth, bay, stirring, occupied,
                   catalogue, pc, task, slot, result, tries, doubtful>>

\* A fresh handle, opened by the keeper or by the next job, never by a job
\* that has begun to use the old one.
Replug ==
    /\ link = "down" /\ pc \in {"idle", "open"}
    /\ link' = "up"
    /\ UNCHANGED <<unitVars, catalogue, pc, task, slot, result, tries, doubtful>>

Crash ==
    /\ "crash" \in Faults /\ ~Idle
    /\ GiveUp
    /\ UNCHANGED <<unitVars, link>>

\* Nothing the unit does, or a job may yet have it do, concerns the slot.
Settled(s) ==
    /\ slot # s
    /\ ~(motion = "eject" /\ target = s)
    /\ ~(motion \in {"retract", "accept"} /\ position = s)

\* The catalogue's corrections by hand.  None of them looks at the unit, and
\* job_using keeps them off the row of a job they know of.  A correction settles
\* a slot if it leaves no disc there without a row that says so.
Rewrite(s, row) ==
    /\ slot # s \/ "race" \in Faults
    /\ catalogue[s] # row
    /\ catalogue' = [catalogue EXCEPT ![s] = row]
    /\ doubtful' = IF Settled(s) /\ (s \in occupied => row = "stored")
                     THEN doubtful \ {s} ELSE doubtful \cup {s}
    /\ UNCHANGED <<unitVars, link, pc, jobVars, tries>>

\* disc_delete frees the slot and ejects nothing.
Delete(s) == Rewrite(s, "free")

\* reconcile_manual
Manual(s) == catalogue[s] = "free" /\ Rewrite(s, "stored")

\* disc_mark_out and disc_mark_stored
Correct(s, row) == catalogue[s] # "free" /\ Rewrite(s, row)

Corrections ==
    /\ "people" \in Faults
    /\ \E s \in Slots :
          Delete(s) \/ Manual(s) \/ \E row \in {"stored", "out"} : Correct(s, row)

Submit == StartReset \/ \E s \in Slots :
                          StartEject(s) \/ StartReturn(s) \/ StartAdd(s)

Next ==
    \/ Submit \/ Worker \/ Unit \/ Hand \/ Unplug \/ Replug \/ Crash
    \/ Corrections

Spec == Init /\ [][Next]_vars

\* The worker thread never blocks for good: every read has a timeout and every
\* loop a deadline.
FairSpec == Spec /\ WF_vars(Worker)

-----------------------------------------------------------------------------
(* Properties.                                                              *)

\* A disc in a slot has a row that says so.  The catalogue is only ever behind
\* while a load is between the unit's answer and its row (flows.py:129-143), and
\* where a given-up load, a correction or a race has left it so.
Tracked ==
    \A s \in occupied :
        \/ s \in Slots /\ catalogue[s] = "stored"
        \/ Loading /\ slot = s
        \/ s \in doubtful

\* No disc is ever driven into a slot that holds one already, a doubtful slot
\* apart: the slot a load was asked for is where the carousel stands when the
\* unit obeys, and nothing has put a disc there since the catalogue was asked
\* (app.py:352, flows.py:101-131).
NoDoubleLoad == motion = "accept" => position \notin occupied \ doubtful

\* The carousel never turns under a disc the unit itself has presented, whoever
\* failed, crashed or was unplugged in between (protocol.py:406-410).
PresentedNeverTurned == motion \in Turns => bay # "ours"

\* "Unit reset. Carousel is at home." (flows.py:24) is only said of one that is.
ResetIsHome == pc = "record" /\ result = "reset" => position = HOME

\* A load that ends in a row has put a disc in: the unit obeyed the accept it
\* answered (flows.py:104-107).  Needs a host that keeps up with the unit.
LoadedIsIn == result = "loaded" => slot \in occupied

\* The flows implement Custody: the job has its slot until its row is written,
\* and a slot is on its way out or in with the motion that serves it.
Custodian == INSTANCE Custody WITH
    None    <- HOME,
    shelf   <- occupied,
    book    <- catalogue,
    job     <- IF pc = "watch" THEN HOME ELSE slot,
    leaving <- IF motion = "eject" THEN target ELSE HOME,
    coming  <- IF motion \in {"retract", "accept"} THEN position ELSE HOME
CustodySpec == Custodian!Spec

\* Every job ends, whatever the unit and the hand do (device.py:206-231).
JobEnds == ~Idle ~> Idle

\* How many more stages a job has at most, if no send is repeated: a move and its
\* flow, and then, once the flow has found out, the move home and the record.
Stage ==
    [idle |-> 0, watch |-> 1, record |-> 2, accept_settle |-> 3,
     accept_send |-> 4, ingest_wait |-> 5, insert |-> 6, retract_look |-> 7,
     retract_settle |-> 8, retract_send |-> 9, take |-> 10, look |-> 11,
     move_settle |-> 12, move_send |-> 13, home_confirm |-> 14,
     home_settle |-> 15, home_send |-> 16, home_wait |-> 17, home_check |-> 18,
     move_check |-> 19, move_wait |-> 20, open |-> 21]
Ahead == Stage[pc] + IF ~Idle /\ result = "none" THEN Stage["open"] ELSE 0

\* A job cannot go round in circles, whatever the unit answers: every step of
\* the worker leaves fewer stages or fewer tries, and nothing else adds to them
\* (flows.py, protocol.py:254-276, device.py:206-231).
StepsRunOut ==
    [][~Idle => /\ Ahead' <= Ahead
                /\ Worker => \/ Ahead' < Ahead
                             \/ Ahead' = Ahead /\ tries' > tries]_vars

\* A disc that is in gets its row, even if the unit is lost while parking, or
\* the database finds it raced by another request (flows.py:135-143).
LoadedGetsRecorded ==
    \A s \in Slots :
        result = "loaded" /\ pc # "watch" /\ slot = s
            ~> \/ catalogue[s] = "stored"
               \/ pc = "record" /\ slot = s /\ ~Writable

\* What protocol.py:407-408 says of every move, and 264-266 of one that is sent
\* again.  It is not so: the bay is looked at once, before the first send.
TurnBegins == motion \notin Turns /\ motion' \in Turns

\* What flows.py:104-107 says of a new disc: once it is physically in, it has a
\* row.  It is not so: an add that fails after the unit has obeyed is over with
\* the disc in a slot the catalogue calls free.
NeverLosesTrack ==
    [][task = "add" /\ Loading /\ slot \in occupied \ doubtful /\ pc' = "idle"
        => catalogue'[slot] = "stored"]_vars
=============================================================================
