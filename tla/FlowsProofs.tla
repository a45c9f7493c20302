---------------------------- MODULE FlowsProofs ----------------------------
(***************************************************************************)
(* Proofs about Flows, for every number of slots, every number of tries    *)
(* and every set of faults.                                                *)
(*                                                                         *)
(* None of the properties is inductive.  What makes them so is knowing,    *)
(* for each place the worker can be at, what the unit may still be doing   *)
(* (a job given up leaves its motion running under the next one), where    *)
(* the carousel stands, and what the slot's row says: IInv.                *)
(***************************************************************************)
EXTENDS Flows, TLAPS

\* The job's own variables fit together.
JobShape ==
    /\ pc = "idle" => task = "none" /\ slot = HOME /\ result = "none"
    /\ pc # "idle" => task # "none"
    /\ task \in {"eject", "add", "return"} => slot \in Slots
    /\ task = "reset" => slot = HOME /\ result \in {"none", "reset"}
    /\ pc = "open" => result = "none"
    /\ pc = "record" => result # "none"
    /\ pc = "watch" => result = "loaded"
    /\ result = "reset" => pc = "record" /\ task = "reset"
    /\ result \in {"missing", "taken", "restored"} => task = "eject"
    /\ result \in {"absent", "loaded"} => task \in {"add", "return"}
    /\ pc \in EjectPcs => task = "eject" /\ result = "none"
    /\ pc \in AddPcs => task \in {"add", "return"} /\ result = "none"
    /\ pc \in {"home_check", "home_wait", "home_send", "home_settle",
               "home_confirm"} => task # "reset" /\ result = "none"

\* The row of the slot a job works on is what it was when the job began, or the
\* slot is known to be in doubt.
BookShape ==
    /\ task = "eject" => catalogue[slot] = "stored" \/ slot \in doubtful
    /\ task \in {"add", "return"} /\ pc # "watch"
         => catalogue[slot] # "stored" \/ slot \in doubtful

\* What the unit may be doing while the worker is where it is.
Unsure == {"idle", "open", "move_wait"}

MotionShape ==
    /\ motion \in {"accept", "retract", "eject"} => result = "none"
    /\ motion = "accept" => pc \in Unsure \cup {"accept_settle"}
    /\ motion = "retract" => pc \in Unsure \cup {"retract_settle"}
    /\ motion = "eject" => pc \in Unsure \cup {"move_settle"}
    /\ motion = "seek" => \/ pc \in {"idle", "open", "home_settle", "move_settle",
                                     "record", "watch"}
                          \/ pc = "move_wait" /\ result = "none"
    /\ result = "reset" => motion = "none"

\* Where the carousel stands, or is turning to.
PlaceShape ==
    /\ pc \in EjectPcs \cup AddPcs => position = slot
    /\ pc = "move_settle" => \/ motion \in Turns /\ target = Destination
                             \/ motion = "none" /\ position = Destination
    /\ pc = "move_settle" /\ motion = "eject" => Ejecting
    /\ result = "reset" => position = HOME

\* A motion under way will do to its slot what the catalogue can stand.
SlotShape ==
    /\ motion = "eject" => target \in occupied
    /\ motion = "retract" =>
         /\ position \in Slots
         /\ position \notin occupied
         /\ catalogue[position] = "stored" \/ position \in doubtful
    /\ motion = "accept" =>
         /\ position \in Slots
         /\ position \in occupied => position \in doubtful
         /\ \/ pc = "accept_settle" /\ slot = position
            \/ position \in doubtful
    /\ Ejecting /\ \/ pc = "move_settle" /\ motion # "eject"
                   \/ pc \in {"look", "take", "retract_send"}
         => slot \notin occupied
    /\ result = "taken" => slot \notin occupied

\* No turn begins under a disc the unit has presented.
BayShape ==
    /\ pc \in {"home_check", "home_wait", "home_send", "home_settle",
               "home_confirm", "move_send"} => bay # "ours"
    /\ motion \in Turns => bay # "ours"

IInv ==
    /\ TypeOK
    /\ occupied \subseteq Slots
    /\ JobShape
    /\ BookShape
    /\ MotionShape
    /\ PlaceShape
    /\ SlotShape
    /\ BayShape
    /\ Tracked

\* What a host that keeps up adds: the disc the accept is meant for is there.
Attended ==
    /\ pc \in {"ingest_wait", "accept_send"} => mouth # "empty"
    /\ pc = "accept_settle" => motion = "accept" \/ slot \in occupied
    /\ result = "loaded" => slot \in occupied

-----------------------------------------------------------------------------
(* Facts about the constants                                                *)

\* What the assumptions say of the constants, in the form the steps use.
LEMMA Bounds ==
    /\ HOME \in Places /\ HOME \notin Slots
    /\ \A s \in Slots : s \in Places
    /\ \A p \in Places : p \in Slots \/ p = HOME
    /\ 0 \in 0 .. TRIES - 1
    /\ \A n \in 0 .. TRIES - 1 : n + 1 < TRIES => n + 1 \in 0 .. TRIES - 1
BY SlotMaxAssumption, TriesAssumption DEF HOME, Slots, Places

-----------------------------------------------------------------------------
(* Every step keeps IInv.  One lemma for each kind of step.                 *)

Goes == MoveWait \/ HomeCheck \/ HomeWait \/ HomeSettle \/ NotTaken
    \/ RetractSettle \/ WaitForInsert \/ IngestWait
Ends == Open \/ MoveCheck \/ HomeConfirm \/ WaitIdleExpires \/ ExchangeFails
    \/ Crash
Parks == Look \/ WaitForTake \/ RetractLook \/ NotInserted \/ AcceptSettle
Records == RecordLoaded \/ RecordTaken \/ Refused \/ RecordNothing \/ Watched
Timers == DiscDrawnOff \/ DiscSettled \/ AckExpired \/ Quiet \/ Blip
    \/ InsertDisc \/ TakeDisc
Links == Unplug \/ Replug

\* A request that starts a job (app.py:302-361) keeps the invariant.
LEMMA BeginKeeps ==
    ASSUME IInv, NEW kind \in Tasks \ {"none"}, NEW s \in Places,
           kind = "reset" <=> s = HOME,
           Begin(kind, s),
           \/ doubtful' = doubtful
           \/ s \in Slots /\ doubtful' = doubtful \cup {s},
           kind = "eject" => catalogue[s] = "stored" \/ s \in doubtful',
           kind \in {"add", "return"}
             => catalogue[s] # "stored" \/ s \in doubtful'
    PROVE  IInv'
<1> USE DEF Begin, Idle, unitVars
<1>1. UnitTypeOK' /\ (occupied \subseteq Slots)'
    BY Bounds DEF IInv, TypeOK, UnitTypeOK, HostTypeOK, SlotShape, Turns,
        Motions, Mouths, Bays
<1>2. HostTypeOK'
    BY Bounds DEF IInv, TypeOK, HostTypeOK, JobShape, Rows, Tasks, Results,
        Pcs, TalkPcs, MovePcs, EjectPcs, AddPcs
<1>3. JobShape' /\ BookShape'
    BY Bounds DEF IInv, TypeOK, HostTypeOK, JobShape, BookShape, MotionShape,
        SlotShape, Tasks, Results, Pcs, TalkPcs, MovePcs, EjectPcs, AddPcs
<1>4. MotionShape' /\ PlaceShape'
    BY Bounds DEF IInv, TypeOK, UnitTypeOK, JobShape, MotionShape, PlaceShape,
        Unsure, Destination, Ejecting, Motions, Turns, MovePcs, EjectPcs,
        AddPcs
<1>5. SlotShape'
    BY Bounds DEF IInv, TypeOK, UnitTypeOK, HostTypeOK, JobShape, BookShape,
        MotionShape, PlaceShape, SlotShape, Tracked, Loading, Unsure,
        Destination, Ejecting, Motions, Turns, MovePcs, EjectPcs, AddPcs
<1>6. BayShape'
    BY DEF IInv, JobShape, MotionShape, BayShape, Unsure, Turns, MovePcs,
        EjectPcs, AddPcs
<1>7. Tracked'
    BY Bounds DEF IInv, TypeOK, HostTypeOK, JobShape, BookShape, MotionShape,
        SlotShape, Tracked, Loading, Unsure, MovePcs, EjectPcs, AddPcs
<1> QED  BY <1>1, <1>2, <1>3, <1>4, <1>5, <1>6, <1>7 DEF IInv, TypeOK

\* So does every step of the worker that only moves it on.
LEMMA GoesKeeps ==
    ASSUME IInv, Goes
    PROVE  IInv'
<1> USE DEF Goes, MoveWait, HomeCheck, HomeWait, HomeSettle, NotTaken,
    RetractSettle, WaitForInsert, IngestWait, At, WaitIdle, Busy, Goto,
    jobVars, unitVars
<1>1. UnitTypeOK' /\ (occupied \subseteq Slots)'
    BY Bounds DEF IInv, TypeOK, UnitTypeOK, HostTypeOK, SlotShape, Turns,
        Motions, Mouths, Bays
<1>2. HostTypeOK'
    BY Bounds DEF IInv, TypeOK, HostTypeOK, JobShape, Rows, Tasks, Results,
        Pcs, TalkPcs, MovePcs, EjectPcs, AddPcs
<1>3. JobShape' /\ BookShape'
    BY Bounds DEF IInv, TypeOK, HostTypeOK, JobShape, BookShape, MotionShape,
        SlotShape, Tasks, Results, Pcs, TalkPcs, MovePcs, EjectPcs, AddPcs
<1>4. MotionShape' /\ PlaceShape'
    BY Bounds DEF IInv, TypeOK, UnitTypeOK, JobShape, MotionShape, PlaceShape,
        Unsure, Destination, Ejecting, Motions, Turns, MovePcs, EjectPcs,
        AddPcs
<1>5. SlotShape'
    BY Bounds DEF IInv, TypeOK, UnitTypeOK, HostTypeOK, JobShape, BookShape,
        MotionShape, PlaceShape, SlotShape, Tracked, Loading, Unsure,
        Destination, Ejecting, Motions, Turns, MovePcs, EjectPcs, AddPcs
<1>6. BayShape'
    BY DEF IInv, JobShape, MotionShape, BayShape, Unsure, Turns, MovePcs,
        EjectPcs, AddPcs
<1>7. Tracked'
    BY Bounds DEF IInv, TypeOK, HostTypeOK, JobShape, BookShape, MotionShape,
        SlotShape, Tracked, Loading, Unsure, MovePcs, EjectPcs, AddPcs
<1> QED  BY <1>1, <1>2, <1>3, <1>4, <1>5, <1>6, <1>7 DEF IInv, TypeOK

\* So does every step that may end the job in an error (device.py:214-223).
LEMMA EndsKeeps ==
    ASSUME IInv, Ends
    PROVE  IInv'
<1> USE DEF Ends, Open, RowGone, MoveCheck, HomeConfirm, WaitIdleExpires,
    ExchangeFails, Crash, WaitPcs, TalkPcs, EjectPcs, AddPcs, Destination,
    Idle, At, WaitIdle, Busy, Goto, jobVars, unitVars, DeviceFails, Parking,
    GiveUp, Over, Loading, MovePcs
<1>1. UnitTypeOK' /\ (occupied \subseteq Slots)'
    BY Bounds DEF IInv, TypeOK, UnitTypeOK, HostTypeOK, SlotShape, Turns,
        Motions, Mouths, Bays
<1>2. HostTypeOK'
    BY Bounds DEF IInv, TypeOK, HostTypeOK, JobShape, Rows, Tasks, Results,
        Pcs
<1>3. JobShape' /\ BookShape'
    BY Bounds DEF IInv, TypeOK, HostTypeOK, JobShape, BookShape, MotionShape,
        SlotShape, Tasks, Results, Pcs
<1>4. MotionShape' /\ PlaceShape'
    BY Bounds DEF IInv, TypeOK, UnitTypeOK, JobShape, MotionShape, PlaceShape,
        Unsure, Ejecting, Motions, Turns
<1>5. SlotShape'
    BY Bounds DEF IInv, TypeOK, UnitTypeOK, HostTypeOK, JobShape, BookShape,
        MotionShape, PlaceShape, SlotShape, Tracked, Unsure, Ejecting,
        Motions, Turns
<1>6. BayShape'
    BY DEF IInv, JobShape, MotionShape, BayShape, Unsure, Turns
<1>7. Tracked'
    BY Bounds DEF IInv, TypeOK, HostTypeOK, JobShape, BookShape, MotionShape,
        SlotShape, Tracked, Unsure
<1> QED  BY <1>1, <1>2, <1>3, <1>4, <1>5, <1>6, <1>7 DEF IInv, TypeOK

\* So does every step that sends the carousel home with what was found.
LEMMA ParksKeeps ==
    ASSUME IInv, Parks
    PROVE  IInv'
<1> USE DEF Parks, Look, WaitForTake, RetractLook, NotInserted, AcceptSettle,
    Park, GiveUp, Over, Loading, At, WaitIdle, Busy, Goto, jobVars, unitVars
<1>1. UnitTypeOK' /\ (occupied \subseteq Slots)'
    BY Bounds DEF IInv, TypeOK, UnitTypeOK, HostTypeOK, SlotShape, Turns,
        Motions, Mouths, Bays
<1>2. HostTypeOK'
    BY Bounds DEF IInv, TypeOK, HostTypeOK, JobShape, Rows, Tasks, Results,
        Pcs, TalkPcs, MovePcs, EjectPcs, AddPcs
<1>3. JobShape' /\ BookShape'
    BY Bounds DEF IInv, TypeOK, HostTypeOK, JobShape, BookShape, MotionShape,
        SlotShape, Tasks, Results, Pcs, TalkPcs, MovePcs, EjectPcs, AddPcs
<1>4. MotionShape' /\ PlaceShape'
    BY Bounds DEF IInv, TypeOK, UnitTypeOK, JobShape, MotionShape, PlaceShape,
        Unsure, Destination, Ejecting, Motions, Turns, MovePcs, EjectPcs,
        AddPcs
<1>5. SlotShape'
    BY Bounds DEF IInv, TypeOK, UnitTypeOK, HostTypeOK, JobShape, BookShape,
        MotionShape, PlaceShape, SlotShape, Tracked, Unsure, Destination,
        Ejecting, Motions, Turns, MovePcs, EjectPcs, AddPcs
<1>6. BayShape'
    BY DEF IInv, JobShape, MotionShape, BayShape, Unsure, Turns, MovePcs,
        EjectPcs, AddPcs
<1>7. Tracked'
    BY Bounds DEF IInv, TypeOK, HostTypeOK, JobShape, BookShape, MotionShape,
        SlotShape, Tracked, Unsure, MovePcs, EjectPcs, AddPcs
<1> QED  BY <1>1, <1>2, <1>3, <1>4, <1>5, <1>6, <1>7 DEF IInv, TypeOK

\* So does the end of a move, whatever the move was for.
LEMMA MoveSettleKeeps ==
    ASSUME IInv, MoveSettle
    PROVE  IInv'
<1> USE DEF MoveSettle, HomeReached, Ejecting, Destination, At, WaitIdle,
    Busy, Goto, jobVars, unitVars
<1>1. UnitTypeOK' /\ (occupied \subseteq Slots)'
    BY Bounds DEF IInv, TypeOK, UnitTypeOK, HostTypeOK, SlotShape, Turns,
        Motions, Mouths, Bays
<1>2. HostTypeOK'
    BY Bounds DEF IInv, TypeOK, HostTypeOK, JobShape, Rows, Tasks, Results,
        Pcs, TalkPcs, MovePcs, EjectPcs, AddPcs
<1>3. JobShape' /\ BookShape'
    BY Bounds DEF IInv, TypeOK, HostTypeOK, JobShape, BookShape, MotionShape,
        SlotShape, Tasks, Results, Pcs, TalkPcs, MovePcs, EjectPcs, AddPcs
<1>4. MotionShape' /\ PlaceShape'
    BY Bounds DEF IInv, TypeOK, UnitTypeOK, JobShape, MotionShape, PlaceShape,
        Unsure, Motions, Turns, MovePcs, EjectPcs, AddPcs
<1>5. SlotShape'
    BY Bounds DEF IInv, TypeOK, UnitTypeOK, HostTypeOK, JobShape, BookShape,
        MotionShape, PlaceShape, SlotShape, Tracked, Loading, Unsure, Motions,
        Turns, MovePcs, EjectPcs, AddPcs
<1>6. BayShape'
    BY DEF IInv, JobShape, MotionShape, BayShape, Unsure, Turns, MovePcs,
        EjectPcs, AddPcs
<1>7. Tracked'
    BY Bounds DEF IInv, TypeOK, HostTypeOK, JobShape, BookShape, MotionShape,
        SlotShape, Tracked, Loading, Unsure, MovePcs, EjectPcs, AddPcs
<1> QED  BY <1>1, <1>2, <1>3, <1>4, <1>5, <1>6, <1>7 DEF IInv, TypeOK

\* So does the homing of ensure_homed (protocol.py:320).
LEMMA HomeSendKeeps ==
    ASSUME IInv, HomeSend
    PROVE  IInv'
<1> USE DEF HomeSend, At, RequireMove, HearsMove, Busy, SetPos, Heard,
    Unheard, jobVars, unitVars, DeviceFails, Parking, GiveUp, Over, Loading,
    MovePcs
<1>1. UnitTypeOK' /\ (occupied \subseteq Slots)'
    BY Bounds DEF IInv, TypeOK, UnitTypeOK, HostTypeOK, SlotShape, Turns,
        Motions, Mouths, Bays
<1>2. HostTypeOK'
    BY Bounds DEF IInv, TypeOK, HostTypeOK, JobShape, Rows, Tasks, Results,
        Pcs, TalkPcs, EjectPcs, AddPcs
<1>3. JobShape' /\ BookShape'
    BY Bounds DEF IInv, TypeOK, HostTypeOK, JobShape, BookShape, MotionShape,
        SlotShape, Tasks, Results, Pcs, TalkPcs, EjectPcs, AddPcs
<1>4. MotionShape' /\ PlaceShape'
    BY Bounds DEF IInv, TypeOK, UnitTypeOK, JobShape, MotionShape, PlaceShape,
        Unsure, Destination, Ejecting, Motions, Turns, EjectPcs, AddPcs
<1>5. SlotShape'
    BY Bounds DEF IInv, TypeOK, UnitTypeOK, HostTypeOK, JobShape, BookShape,
        MotionShape, PlaceShape, SlotShape, Tracked, Unsure, Destination,
        Ejecting, Motions, Turns, EjectPcs, AddPcs
<1>6. BayShape'
    BY DEF IInv, JobShape, MotionShape, BayShape, Unsure, Turns, EjectPcs,
        AddPcs
<1>7. Tracked'
    BY Bounds DEF IInv, TypeOK, HostTypeOK, JobShape, BookShape, MotionShape,
        SlotShape, Tracked, Unsure, EjectPcs, AddPcs
<1> QED  BY <1>1, <1>2, <1>3, <1>4, <1>5, <1>6, <1>7 DEF IInv, TypeOK

\* So does the move itself, heard or not (protocol.py:402).
LEMMA MoveSendKeeps ==
    ASSUME IInv, MoveSend
    PROVE  IInv'
<1> USE DEF MoveSend, At, RequireMove, HearsMove, Busy, SetPos, Heard,
    Unheard, Destination, Ejecting, jobVars, unitVars, DeviceFails, Parking,
    GiveUp, Over, Loading, MovePcs
<1>1. UnitTypeOK' /\ (occupied \subseteq Slots)'
    BY Bounds DEF IInv, TypeOK, UnitTypeOK, HostTypeOK, SlotShape, Turns,
        Motions, Mouths, Bays
<1>2. HostTypeOK'
    BY Bounds DEF IInv, TypeOK, HostTypeOK, JobShape, Rows, Tasks, Results,
        Pcs, TalkPcs, EjectPcs, AddPcs
<1>3. JobShape' /\ BookShape'
    BY Bounds DEF IInv, TypeOK, HostTypeOK, JobShape, BookShape, MotionShape,
        SlotShape, Tasks, Results, Pcs, TalkPcs, EjectPcs, AddPcs
<1>4. MotionShape' /\ PlaceShape'
    BY Bounds DEF IInv, TypeOK, UnitTypeOK, JobShape, MotionShape, PlaceShape,
        Unsure, Motions, Turns, EjectPcs, AddPcs
<1>5. SlotShape'
    BY Bounds DEF IInv, TypeOK, UnitTypeOK, HostTypeOK, JobShape, BookShape,
        MotionShape, PlaceShape, SlotShape, Tracked, Unsure, Motions, Turns,
        EjectPcs, AddPcs
<1>6. BayShape'
    BY DEF IInv, JobShape, MotionShape, BayShape, Unsure, Turns, EjectPcs,
        AddPcs
<1>7. Tracked'
    BY Bounds DEF IInv, TypeOK, HostTypeOK, JobShape, BookShape, MotionShape,
        SlotShape, Tracked, Unsure, EjectPcs, AddPcs
<1> QED  BY <1>1, <1>2, <1>3, <1>4, <1>5, <1>6, <1>7 DEF IInv, TypeOK

\* So does a retract, heard or not (protocol.py:459-466).
LEMMA RetractSendKeeps ==
    ASSUME IInv, RetractSend
    PROVE  IInv'
<1> USE DEF RetractSend, At, Retract, Heard, Unheard, Unanswered, Busy,
    jobVars, unitVars
<1>1. UnitTypeOK' /\ (occupied \subseteq Slots)'
    BY Bounds DEF IInv, TypeOK, UnitTypeOK, HostTypeOK, SlotShape, Turns,
        Motions, Mouths, Bays
<1>2. HostTypeOK'
    BY Bounds DEF IInv, TypeOK, HostTypeOK, JobShape, Rows, Tasks, Results,
        Pcs, TalkPcs, MovePcs, EjectPcs, AddPcs
<1>3. JobShape' /\ BookShape'
    BY Bounds DEF IInv, TypeOK, HostTypeOK, JobShape, BookShape, MotionShape,
        SlotShape, Tasks, Results, Pcs, TalkPcs, MovePcs, EjectPcs, AddPcs
<1>4. MotionShape' /\ PlaceShape'
    BY Bounds DEF IInv, TypeOK, UnitTypeOK, JobShape, MotionShape, PlaceShape,
        Unsure, Destination, Ejecting, Motions, Turns, MovePcs, EjectPcs,
        AddPcs
<1>5. SlotShape'
    BY Bounds DEF IInv, TypeOK, UnitTypeOK, HostTypeOK, JobShape, BookShape,
        MotionShape, PlaceShape, SlotShape, Tracked, Loading, Unsure,
        Destination, Ejecting, Motions, Turns, MovePcs, EjectPcs, AddPcs
<1>6. BayShape'
    BY DEF IInv, JobShape, MotionShape, BayShape, Unsure, Turns, MovePcs,
        EjectPcs, AddPcs
<1>7. Tracked'
    BY Bounds DEF IInv, TypeOK, HostTypeOK, JobShape, BookShape, MotionShape,
        SlotShape, Tracked, Loading, Unsure, MovePcs, EjectPcs, AddPcs
<1> QED  BY <1>1, <1>2, <1>3, <1>4, <1>5, <1>6, <1>7 DEF IInv, TypeOK

\* So does an accept, heard or not (protocol.py:450).
LEMMA AcceptSendKeeps ==
    ASSUME IInv, AcceptSend
    PROVE  IInv'
<1> USE DEF AcceptSend, At, AcceptDisc, Heard, Unheard, Busy, jobVars,
    unitVars, DeviceFails, Parking, GiveUp, Over, Loading, MovePcs
<1>1. UnitTypeOK' /\ (occupied \subseteq Slots)'
    BY Bounds DEF IInv, TypeOK, UnitTypeOK, HostTypeOK, SlotShape, Turns,
        Motions, Mouths, Bays
<1>2. HostTypeOK'
    BY Bounds DEF IInv, TypeOK, HostTypeOK, JobShape, Rows, Tasks, Results,
        Pcs, TalkPcs, EjectPcs, AddPcs
<1>3. JobShape' /\ BookShape'
    BY Bounds DEF IInv, TypeOK, HostTypeOK, JobShape, BookShape, MotionShape,
        SlotShape, Tasks, Results, Pcs, TalkPcs, EjectPcs, AddPcs
<1>4. MotionShape' /\ PlaceShape'
    BY Bounds DEF IInv, TypeOK, UnitTypeOK, JobShape, MotionShape, PlaceShape,
        Unsure, Destination, Ejecting, Motions, Turns, EjectPcs, AddPcs
<1>5. SlotShape'
    BY Bounds DEF IInv, TypeOK, UnitTypeOK, HostTypeOK, JobShape, BookShape,
        MotionShape, PlaceShape, SlotShape, Tracked, Unsure, Destination,
        Ejecting, Motions, Turns, EjectPcs, AddPcs
<1>6. BayShape'
    BY DEF IInv, JobShape, MotionShape, BayShape, Unsure, Turns, EjectPcs,
        AddPcs
<1>7. Tracked'
    BY Bounds DEF IInv, TypeOK, HostTypeOK, JobShape, BookShape, MotionShape,
        SlotShape, Tracked, Unsure, EjectPcs, AddPcs
<1> QED  BY <1>1, <1>2, <1>3, <1>4, <1>5, <1>6, <1>7 DEF IInv, TypeOK

\* So does every step that writes what became of the disc.
LEMMA RecordsKeeps ==
    ASSUME IInv, Records
    PROVE  IInv'
<1> USE DEF Records, RecordLoaded, RecordTaken, Refused, RecordNothing, Watched,
    GiveUp, Over, jobVars, unitVars
<1>1. UnitTypeOK' /\ (occupied \subseteq Slots)'
    BY Bounds DEF IInv, TypeOK, UnitTypeOK, HostTypeOK, SlotShape, Turns,
        Motions, Mouths, Bays
<1>2. HostTypeOK'
    BY Bounds DEF IInv, TypeOK, HostTypeOK, JobShape, Rows, Tasks, Results,
        Pcs, TalkPcs, MovePcs, EjectPcs, AddPcs
<1>3. JobShape' /\ BookShape'
    BY Bounds DEF IInv, TypeOK, HostTypeOK, JobShape, BookShape, MotionShape,
        SlotShape, Tasks, Results, Pcs, TalkPcs, MovePcs, EjectPcs, AddPcs
<1>4. MotionShape' /\ PlaceShape'
    BY Bounds DEF IInv, TypeOK, UnitTypeOK, JobShape, MotionShape, PlaceShape,
        Unsure, Destination, Ejecting, Motions, Turns, MovePcs, EjectPcs,
        AddPcs
<1>5. SlotShape'
    BY Bounds DEF IInv, TypeOK, UnitTypeOK, HostTypeOK, JobShape, BookShape,
        MotionShape, PlaceShape, SlotShape, Tracked, Loading, Unsure,
        Destination, Ejecting, Motions, Turns, MovePcs, EjectPcs, AddPcs
<1>6. BayShape'
    BY DEF IInv, JobShape, MotionShape, BayShape, Unsure, Turns, MovePcs,
        EjectPcs, AddPcs
<1>7. Tracked'
    BY Bounds DEF IInv, TypeOK, HostTypeOK, JobShape, BookShape, MotionShape,
        SlotShape, Tracked, Loading, Unsure, MovePcs, EjectPcs, AddPcs
<1> QED  BY <1>1, <1>2, <1>3, <1>4, <1>5, <1>6, <1>7 DEF IInv, TypeOK

\* So does the end of a turn.
LEMMA ArriveKeeps ==
    ASSUME IInv, Arrive, UNCHANGED hostVars
    PROVE  IInv'
<1> USE DEF Arrive, hostVars, Turns
<1>1. UnitTypeOK' /\ (occupied \subseteq Slots)'
    BY Bounds DEF IInv, TypeOK, UnitTypeOK, HostTypeOK, SlotShape, Motions,
        Mouths, Bays
<1>2. HostTypeOK' /\ JobShape' /\ BookShape'
    BY DEF IInv, TypeOK, HostTypeOK, JobShape, BookShape
<1>3. MotionShape' /\ PlaceShape'
    BY Bounds DEF IInv, TypeOK, UnitTypeOK, JobShape, MotionShape, PlaceShape,
        Unsure, Destination, Ejecting, Motions, MovePcs, EjectPcs, AddPcs
<1>4. SlotShape'
    BY Bounds DEF IInv, TypeOK, UnitTypeOK, HostTypeOK, JobShape, BookShape,
        MotionShape, PlaceShape, SlotShape, Tracked, Loading, Unsure,
        Destination, Ejecting, Motions, MovePcs, EjectPcs, AddPcs
<1>5. BayShape'
    BY DEF IInv, JobShape, MotionShape, BayShape, Unsure, MovePcs, EjectPcs,
        AddPcs
<1>6. Tracked'
    BY Bounds DEF IInv, TypeOK, HostTypeOK, JobShape, BookShape, MotionShape,
        SlotShape, Tracked, Loading, Unsure, MovePcs, EjectPcs, AddPcs
<1> QED  BY <1>1, <1>2, <1>3, <1>4, <1>5, <1>6 DEF IInv, TypeOK

\* So does a disc going back into its slot.
LEMMA BackInSlotKeeps ==
    ASSUME IInv, BackInSlot, UNCHANGED hostVars
    PROVE  IInv'
<1> USE DEF BackInSlot, hostVars
<1>1. UnitTypeOK' /\ (occupied \subseteq Slots)'
    BY Bounds DEF IInv, TypeOK, UnitTypeOK, HostTypeOK, SlotShape, Turns,
        Motions, Mouths, Bays
<1>2. HostTypeOK' /\ JobShape' /\ BookShape'
    BY DEF IInv, TypeOK, HostTypeOK, JobShape, BookShape
<1>3. MotionShape' /\ PlaceShape'
    BY Bounds DEF IInv, TypeOK, UnitTypeOK, JobShape, MotionShape, PlaceShape,
        Unsure, Destination, Ejecting, Motions, Turns, MovePcs, EjectPcs,
        AddPcs
<1>4. SlotShape'
    BY Bounds DEF IInv, TypeOK, UnitTypeOK, HostTypeOK, JobShape, BookShape,
        MotionShape, PlaceShape, SlotShape, Tracked, Loading, Unsure,
        Destination, Ejecting, Motions, Turns, MovePcs, EjectPcs, AddPcs
<1>5. BayShape'
    BY DEF IInv, JobShape, MotionShape, BayShape, Unsure, Turns, MovePcs,
        EjectPcs, AddPcs
<1>6. Tracked'
    BY Bounds DEF IInv, TypeOK, HostTypeOK, JobShape, BookShape, MotionShape,
        SlotShape, Tracked, Loading, Unsure, MovePcs, EjectPcs, AddPcs
<1> QED  BY <1>1, <1>2, <1>3, <1>4, <1>5, <1>6 DEF IInv, TypeOK

\* So does an accepted disc reaching its slot.
LEMMA DiscStoredKeeps ==
    ASSUME IInv, DiscStored, UNCHANGED hostVars
    PROVE  IInv'
<1> USE DEF DiscStored, hostVars
<1>1. UnitTypeOK' /\ (occupied \subseteq Slots)'
    BY Bounds DEF IInv, TypeOK, UnitTypeOK, HostTypeOK, SlotShape, Turns,
        Motions, Mouths, Bays
<1>2. HostTypeOK' /\ JobShape' /\ BookShape'
    BY DEF IInv, TypeOK, HostTypeOK, JobShape, BookShape
<1>3. MotionShape' /\ PlaceShape'
    BY Bounds DEF IInv, TypeOK, UnitTypeOK, JobShape, MotionShape, PlaceShape,
        Unsure, Destination, Ejecting, Motions, Turns, MovePcs, EjectPcs,
        AddPcs
<1>4. SlotShape'
    BY Bounds DEF IInv, TypeOK, UnitTypeOK, HostTypeOK, JobShape, BookShape,
        MotionShape, PlaceShape, SlotShape, Tracked, Loading, Unsure,
        Destination, Ejecting, Motions, Turns, MovePcs, EjectPcs, AddPcs
<1>5. BayShape'
    BY DEF IInv, JobShape, MotionShape, BayShape, Unsure, Turns, MovePcs,
        EjectPcs, AddPcs
<1>6. Tracked'
    BY Bounds DEF IInv, TypeOK, HostTypeOK, JobShape, BookShape, MotionShape,
        SlotShape, Tracked, Loading, Unsure, MovePcs, EjectPcs, AddPcs
<1> QED  BY <1>1, <1>2, <1>3, <1>4, <1>5, <1>6 DEF IInv, TypeOK

\* So do the unit's other timers, its blips, and the hand.
LEMMA TimersKeeps ==
    ASSUME IInv, Timers, UNCHANGED hostVars
    PROVE  IInv'
<1> USE DEF Timers, DiscDrawnOff, DiscSettled, AckExpired, Quiet, Blip,
    InsertDisc, TakeDisc, hostVars
<1>1. UnitTypeOK' /\ (occupied \subseteq Slots)'
    BY Bounds DEF IInv, TypeOK, UnitTypeOK, HostTypeOK, SlotShape, Turns,
        Motions, Mouths, Bays
<1>2. HostTypeOK' /\ JobShape' /\ BookShape'
    BY DEF IInv, TypeOK, HostTypeOK, JobShape, BookShape
<1>3. MotionShape' /\ PlaceShape'
    BY Bounds DEF IInv, TypeOK, UnitTypeOK, JobShape, MotionShape, PlaceShape,
        Unsure, Destination, Ejecting, Motions, Turns, MovePcs, EjectPcs,
        AddPcs
<1>4. SlotShape'
    BY Bounds DEF IInv, TypeOK, UnitTypeOK, HostTypeOK, JobShape, BookShape,
        MotionShape, PlaceShape, SlotShape, Tracked, Loading, Unsure,
        Destination, Ejecting, Motions, Turns, MovePcs, EjectPcs, AddPcs
<1>5. BayShape'
    BY DEF IInv, JobShape, MotionShape, BayShape, Unsure, Turns, MovePcs,
        EjectPcs, AddPcs
<1>6. Tracked'
    BY Bounds DEF IInv, TypeOK, HostTypeOK, JobShape, BookShape, MotionShape,
        SlotShape, Tracked, Loading, Unsure, MovePcs, EjectPcs, AddPcs
<1> QED  BY <1>1, <1>2, <1>3, <1>4, <1>5, <1>6 DEF IInv, TypeOK

\* So does a unit that leaves the bus or comes back.
LEMMA LinksKeeps ==
    ASSUME IInv, Links
    PROVE  IInv'
<1> USE DEF Links, Unplug, Replug, unitVars
<1>1. UnitTypeOK' /\ (occupied \subseteq Slots)'
    BY DEF IInv, TypeOK, UnitTypeOK
<1>2. HostTypeOK' /\ JobShape' /\ BookShape'
    BY Bounds DEF IInv, TypeOK, HostTypeOK, JobShape, BookShape
<1>3. MotionShape' /\ PlaceShape' /\ BayShape'
    BY DEF IInv, MotionShape, PlaceShape, BayShape, Destination, Ejecting
<1>4. SlotShape' /\ Tracked'
    BY Bounds DEF IInv, TypeOK, HostTypeOK, JobShape, SlotShape, Tracked,
        Loading, Ejecting
<1> QED  BY <1>1, <1>2, <1>3, <1>4 DEF IInv, TypeOK

\* A correction rewrites one slot.
LEMMA CorrectionsRewrite ==
    ASSUME Corrections
    PROVE  \E s \in Slots, row \in Rows : Rewrite(s, row)
BY DEF Corrections, Delete, Manual, Correct, Rows

\* So does a correction of the catalogue by hand.
LEMMA RewriteKeeps ==
    ASSUME IInv, NEW s \in Slots, NEW row \in Rows, Rewrite(s, row)
    PROVE  IInv'
<1> USE DEF Rewrite, Settled, jobVars, unitVars
<1>1. UnitTypeOK' /\ (occupied \subseteq Slots)'
    BY DEF IInv, TypeOK, UnitTypeOK
<1>2. HostTypeOK' /\ JobShape' /\ BookShape'
    BY Bounds DEF IInv, TypeOK, HostTypeOK, JobShape, BookShape
<1>3. MotionShape' /\ PlaceShape' /\ BayShape'
    BY DEF IInv, MotionShape, PlaceShape, BayShape, Destination, Ejecting
<1>4. SlotShape' /\ Tracked'
    BY Bounds DEF IInv, TypeOK, HostTypeOK, JobShape, SlotShape, Tracked,
        Loading, Ejecting
<1> QED  BY <1>1, <1>2, <1>3, <1>4 DEF IInv, TypeOK

-----------------------------------------------------------------------------
(* The inductive invariant.                                                 *)

\* It holds to begin with.
LEMMA InitHolds == Init => IInv
<1> SUFFICES ASSUME Init PROVE IInv
    OBVIOUS
<1> USE DEF Init, UnitInit
<1>1. TypeOK /\ occupied \subseteq Slots
    BY Bounds DEF TypeOK, UnitTypeOK, HostTypeOK, Turns, Motions, Mouths,
        Bays, Tasks, Results, Pcs
<1>2. JobShape /\ BookShape /\ MotionShape /\ PlaceShape /\ BayShape
    BY DEF JobShape, BookShape, MotionShape, PlaceShape, BayShape, EjectPcs,
        AddPcs, Turns
<1>3. SlotShape /\ Tracked
    BY DEF SlotShape, Ejecting, Tracked, Loading
<1> QED  BY <1>1, <1>2, <1>3 DEF IInv

\* A step that changes nothing keeps it.
LEMMA StutterKeeps == ASSUME IInv, UNCHANGED vars PROVE IInv'
BY DEF vars, unitVars, hostVars, IInv, TypeOK, UnitTypeOK, HostTypeOK,
    JobShape, BookShape, MotionShape, PlaceShape, Destination, Ejecting,
    SlotShape, BayShape, Tracked, Loading

\* Every step keeps it: the inductive step.
LEMMA NextKeeps == IInv /\ [Next]_vars => IInv'
<1> SUFFICES ASSUME IInv, [Next]_vars PROVE IInv'
    OBVIOUS
<1>1. CASE Submit
    <2>1. CASE StartReset
        BY <2>1, Bounds, BeginKeeps DEF StartReset, Tasks
    <2>2. ASSUME NEW s \in Slots, StartEject(s) PROVE IInv'
        BY <2>2, Bounds, BeginKeeps DEF StartEject, Start, Tasks
    <2>3. ASSUME NEW s \in Slots, StartReturn(s) PROVE IInv'
        BY <2>3, Bounds, BeginKeeps DEF StartReturn, Start, Tasks
    <2>4. ASSUME NEW s \in Slots, StartAdd(s) PROVE IInv'
        BY <2>4, Bounds, BeginKeeps DEF StartAdd, Start, Tasks
    <2> QED  BY <1>1, <2>1, <2>2, <2>3, <2>4 DEF Submit
<1>2. CASE Worker
    BY <1>2, GoesKeeps, EndsKeeps, ParksKeeps, MoveSettleKeeps, HomeSendKeeps,
        MoveSendKeeps, RetractSendKeeps, AcceptSendKeeps, RecordsKeeps
        DEF Worker, Goes, Ends, Parks, Records
<1>3. CASE Unit
    BY <1>3, ArriveKeeps, BackInSlotKeeps, DiscStoredKeeps, TimersKeeps
        DEF Unit, DrawOff, Expire, Timers
<1>4. CASE Hand
    BY <1>4, TimersKeeps DEF Hand, Timers
<1>5. CASE Unplug \/ Replug
    BY <1>5, LinksKeeps DEF Links
<1>6. CASE Crash
    BY <1>6, EndsKeeps DEF Ends
<1>7. CASE Corrections
    BY <1>7, CorrectionsRewrite, RewriteKeeps
<1>8. CASE UNCHANGED vars
    BY <1>8, StutterKeeps
<1> QED  BY <1>1, <1>2, <1>3, <1>4, <1>5, <1>6, <1>7, <1>8 DEF Next

\* IInv holds of every reachable state: what each place of the worker says about
\* the unit, the slot and its row (protocol.py:287-473, flows.py).
THEOREM Inductive == Spec => []IInv
BY InitHolds, NextKeeps, PTL DEF Spec

-----------------------------------------------------------------------------
(* What follows for every carousel, every number of tries, every fault.     *)

\* Every variable stays within its type.
THEOREM TypeCorrect == Spec => []TypeOK
<1>1. IInv => TypeOK
    BY DEF IInv
<1> QED  BY <1>1, Inductive, PTL

\* The catalogue knows every disc in a slot, but for a load not yet recorded and
\* the slots that a load given up after the unit obeyed, a correction or a race
\* has left in doubt (flows.py:129-143).
THEOREM CatalogueTracks == Spec => []Tracked
<1>1. IInv => Tracked
    BY DEF IInv
<1> QED  BY <1>1, Inductive, PTL

\* The unit is never told to put a disc where it already holds one, a doubtful
\* slot apart (flows.py:101-131, app.py:352).
THEOREM NeverDoubleLoads == Spec => []NoDoubleLoad
<1>1. IInv => NoDoubleLoad
    BY DEF IInv, SlotShape, NoDoubleLoad
<1> QED  BY <1>1, Inductive, PTL

\* The carousel never turns under a disc it has presented, whatever failed since
\* (protocol.py:393-417, flows.py:65).
THEOREM PresentedDiscSafe == Spec => []PresentedNeverTurned
<1>1. IInv => PresentedNeverTurned
    BY DEF IInv, BayShape, PresentedNeverTurned
<1> QED  BY <1>1, Inductive, PTL

\* A reset reported as done has left the carousel at home (flows.py:19-24).
THEOREM ResetReachesHome == Spec => []ResetIsHome
<1>1. IInv => ResetIsHome
    BY DEF IInv, PlaceShape, ResetIsHome
<1> QED  BY <1>1, Inductive, PTL

-----------------------------------------------------------------------------
(* Every job comes to its end.                                              *)

\* Where the stages are.
LEMMA Stages ==
    /\ Stage["idle"] = 0 /\ Stage["watch"] = 1 /\ Stage["record"] = 2
    /\ Stage["accept_settle"] = 3 /\ Stage["accept_send"] = 4
    /\ Stage["ingest_wait"] = 5 /\ Stage["insert"] = 6
    /\ Stage["retract_look"] = 7 /\ Stage["retract_settle"] = 8
    /\ Stage["retract_send"] = 9 /\ Stage["take"] = 10 /\ Stage["look"] = 11
    /\ Stage["move_settle"] = 12 /\ Stage["move_send"] = 13
    /\ Stage["home_confirm"] = 14 /\ Stage["home_settle"] = 15
    /\ Stage["home_send"] = 16 /\ Stage["home_wait"] = 17
    /\ Stage["home_check"] = 18 /\ Stage["move_check"] = 19
    /\ Stage["move_wait"] = 20 /\ Stage["open"] = 21
BY DEF Stage

\* No stage is further from the end than the one a job begins with.
LEMMA StageBounded == \A p \in Pcs : Stage[p] \in 0 .. 21
BY Stages DEF Pcs, TalkPcs, MovePcs, EjectPcs, AddPcs

\* A step that brings the job nearer to its end: a stage fewer, or a try fewer.
Shorter == Ahead' < Ahead \/ (Ahead' = Ahead /\ tries' > tries)

\* So is an error: it ends the job, or takes it straight to its record.
LEMMA FailsShorter ==
    ASSUME IInv, DeviceFails, pc \in TalkPcs
    PROVE  Ahead' < Ahead
<1>1. CASE Parking
    BY <1>1, Stages DEF Parking, DeviceFails, jobVars, Ahead, Idle, MovePcs
<1>2. CASE ~Parking
    BY <1>2, Stages DEF DeviceFails, GiveUp, Over, Ahead, Idle, TalkPcs,
        MovePcs, EjectPcs, AddPcs
<1> QED  BY <1>1, <1>2

\* Every step of the worker is one of those (flows.py, protocol.py:254-276).
LEMMA WorkerShortens ==
    ASSUME IInv, Worker
    PROVE  Shorter
<1> USE Stages DEF Ahead, Shorter, Idle
<1>1. CASE Open
    BY <1>1 DEF Open, RowGone, Goto, GiveUp, Over, jobVars
<1>2. CASE Goes
    BY <1>2 DEF Goes, MoveWait, HomeCheck, HomeWait, HomeSettle, NotTaken,
        RetractSettle, WaitForInsert, IngestWait, At, WaitIdle, Goto, jobVars
<1>3. CASE MoveCheck \/ HomeConfirm
    BY <1>3, FailsShorter DEF MoveCheck, HomeConfirm, At, Goto, jobVars,
        TalkPcs, MovePcs
<1>4. CASE Parks
    BY <1>4 DEF Parks, Look, WaitForTake, RetractLook, NotInserted,
        AcceptSettle, Park, GiveUp, Over, At, WaitIdle, Goto, jobVars, IInv,
        JobShape, EjectPcs, AddPcs
<1>5. CASE MoveSettle
    BY <1>5 DEF MoveSettle, HomeReached, Ejecting, At, WaitIdle, Goto, jobVars
<1>6. CASE HomeSend \/ MoveSend
    <2>1. pc \in TalkPcs
        BY <1>6 DEF HomeSend, MoveSend, At, TalkPcs, MovePcs
    <2>2. tries \in Nat
        BY TriesAssumption DEF IInv, TypeOK, HostTypeOK
    <2>3. CASE pc = "home_send" /\ Heard("home_settle")
        BY <2>3 DEF Heard, jobVars
    <2>4. CASE pc = "move_send" /\ Heard("move_settle")
        BY <2>4 DEF Heard, jobVars
    <2>5. CASE Unheard(DeviceFails)
        BY <2>1, <2>2, <2>5, FailsShorter DEF Unheard, jobVars
    <2> QED
        BY <1>6, <2>3, <2>4, <2>5 DEF HomeSend, MoveSend, At, RequireMove
<1>7. CASE RetractSend
    BY <1>7 DEF RetractSend, At, Heard, Unheard, Unanswered, jobVars, IInv,
        TypeOK, HostTypeOK
<1>8. CASE AcceptSend
    BY <1>8, FailsShorter DEF AcceptSend, At, Heard, Unheard, jobVars,
        TalkPcs, AddPcs, IInv, TypeOK, HostTypeOK
<1>9. CASE Records
    BY <1>9 DEF Records, RecordLoaded, RecordTaken, Refused, RecordNothing,
        Watched, GiveUp, Over, jobVars
<1>10. CASE WaitIdleExpires \/ ExchangeFails
    BY <1>10, FailsShorter DEF WaitIdleExpires, ExchangeFails, WaitPcs,
        TalkPcs, MovePcs, EjectPcs, AddPcs
<1> QED
    BY <1>1, <1>2, <1>3, <1>4, <1>5, <1>6, <1>7, <1>8, <1>9, <1>10
        DEF Worker, Goes, Parks, Records

\* A job takes no more than 42 * TRIES steps of its worker, whatever the unit,
\* the hand and the bus do between them: each one shortens it, and no other step
\* makes it longer.  This is why every job ends (device.py:206-231).
THEOREM JobsRunOut == Spec => StepsRunOut
<1> DEFINE Step == ~Idle => Ahead' <= Ahead /\ (Worker => Shorter)
<1>1. IInv /\ [Next]_vars => [Step]_vars
    <2> SUFFICES ASSUME IInv, [Next]_vars, ~Idle
                 PROVE  Ahead' <= Ahead /\ (Worker => Shorter)
        OBVIOUS
    <2>0. IInv'
        BY NextKeeps
    <2>1. pc \in Pcs /\ pc' \in Pcs
        BY <2>0 DEF IInv, TypeOK, HostTypeOK
    <2>2. Ahead \in 0 .. 42 /\ Ahead' \in 0 .. 42
        BY <2>1, StageBounded, Stages DEF Ahead
    <2>3. CASE Worker
        BY <2>2, <2>3, WorkerShortens DEF Shorter
    <2>4. CASE ~Worker
        <3>1. CASE Submit
            BY <3>1 DEF Submit, StartReset, StartEject, StartReturn, StartAdd,
                Start, Begin
        <3>2. CASE Crash
            BY <2>2, <2>4, <3>2, Stages DEF Crash, GiveUp, Over, Ahead, Idle
        <3>3. CASE UNCHANGED <<pc, result>>
            BY <2>2, <2>4, <3>3 DEF Ahead, Idle
        <3>4. CASE Corrections
            BY <3>3, <3>4, CorrectionsRewrite DEF Rewrite, jobVars
        <3> QED
            BY <2>4, <3>1, <3>2, <3>3, <3>4
                DEF Next, Unit, Hand, Unplug, Replug, hostVars, jobVars, vars
    <2> QED  BY <2>3, <2>4
<1> QED  BY <1>1, Inductive, PTL DEF Spec, StepsRunOut, Shorter

-----------------------------------------------------------------------------
(* A host that keeps up with the unit's timers.                             *)

\* With a host that is never slow, Attended is inductive too.
LEMMA AttendedKeeps ==
    ASSUME "slow" \notin Faults, IInv, Attended, [Next]_vars
    PROVE  Attended'
<1> USE DEF Attended
<1>1. CASE Submit
    BY <1>1 DEF Submit, StartReset, StartEject, StartReturn, StartAdd, Start,
        Begin, Idle, unitVars, IInv, JobShape
<1>2. CASE Goes \/ MoveSettle
    BY <1>2 DEF Goes, MoveWait, HomeCheck, HomeWait, HomeSettle, NotTaken,
        RetractSettle, WaitForInsert, IngestWait, MoveSettle, HomeReached, At,
        WaitIdle, Goto, jobVars, unitVars
<1>3. CASE Ends
    BY <1>3 DEF Ends, Open, RowGone, MoveCheck, HomeConfirm, WaitIdleExpires,
        ExchangeFails, Crash, WaitPcs, At, Goto, jobVars, unitVars,
        DeviceFails, Parking, GiveUp, Over, MovePcs
<1>4. CASE Parks
    BY <1>4 DEF Parks, Look, WaitForTake, RetractLook, NotInserted,
        AcceptSettle, Park, GiveUp, Over, At, WaitIdle, Busy, Goto, jobVars,
        unitVars
<1>5. CASE HomeSend \/ MoveSend
    BY <1>5 DEF HomeSend, MoveSend, At, RequireMove, SetPos, Heard, Unheard,
        jobVars, unitVars, DeviceFails, Parking, GiveUp, Over, MovePcs
<1>6. CASE RetractSend
    BY <1>6 DEF RetractSend, At, Retract, Heard, Unheard, Unanswered, jobVars,
        unitVars
<1>7. CASE AcceptSend
    BY <1>7 DEF AcceptSend, At, AcceptDisc, Busy, Heard, Unheard, jobVars,
        unitVars, DeviceFails, Parking, GiveUp, Over, MovePcs, IInv, TypeOK,
        UnitTypeOK, Mouths
<1>8. CASE Records
    BY <1>8 DEF Records, RecordLoaded, RecordTaken, Refused, RecordNothing,
        Watched, GiveUp, Over, jobVars, unitVars
<1>9. CASE Unit
    <2>1. CASE Arrive
        BY <2>1, <1>9 DEF Unit, Arrive, Turns, hostVars, IInv, MotionShape,
            Unsure
    <2>2. CASE BackInSlot
        BY <2>2, <1>9 DEF Unit, BackInSlot, hostVars, IInv, MotionShape,
            Unsure
    <2>3. CASE DiscStored
        BY <2>3, <1>9 DEF Unit, DiscStored, hostVars, IInv, MotionShape,
            PlaceShape, EjectPcs, AddPcs
    <2>4. CASE DrawOff \/ DiscSettled \/ Expire \/ Quiet \/ Blip
        BY <2>4, <1>9 DEF Unit, DrawOff, DiscDrawnOff, DiscSettled, Expire,
            AckExpired, Quiet, Blip, hostVars
    <2> QED  BY <1>9, <2>1, <2>2, <2>3, <2>4 DEF Unit
<1>10. CASE Hand
    BY <1>10 DEF Hand, InsertDisc, TakeDisc, hostVars
<1>11. CASE Links
    BY <1>11 DEF Links, Unplug, Replug, unitVars
<1>12. CASE Corrections
    BY <1>12, CorrectionsRewrite DEF Rewrite, jobVars, unitVars
<1>13. CASE UNCHANGED vars
    BY <1>13 DEF vars, unitVars, hostVars
<1> QED
    BY <1>1, <1>2, <1>3, <1>4, <1>5, <1>6, <1>7, <1>8, <1>9, <1>10, <1>11,
        <1>12, <1>13
        DEF Next, Worker, Goes, Ends, Parks, Records, Links

\* So it holds throughout.
LEMMA AttendedAlways ==
    ASSUME "slow" \notin Faults
    PROVE  Spec => [](IInv /\ Attended)
<1>1. Init => IInv /\ Attended
    BY InitHolds DEF Init, Attended
<1>2. IInv /\ Attended /\ [Next]_vars => (IInv /\ Attended)'
    BY NextKeeps, AttendedKeeps
<1> QED  BY <1>1, <1>2, PTL DEF Spec

\* With such a host, a load that is about to be recorded is in its slot: the
\* accept that was answered was also obeyed (protocol.py:430-452).
THEOREM LoadsAreIn ==
    ASSUME "slow" \notin Faults
    PROVE  Spec => []LoadedIsIn
<1>1. Attended => LoadedIsIn
    BY DEF Attended, LoadedIsIn
<1> QED  BY <1>1, AttendedAlways, PTL

-----------------------------------------------------------------------------
(* Flows implements Custody.                                                *)

\* Every initial state of Flows is one of Custody.
LEMMA InitImplements == Init => Custodian!Init
BY DEF Init, UnitInit, Custodian!Init, Custodian!Still, Rows, Custodian!Rows

\* A job that ends with nothing to write drops its slot.
LEMMA DropImplements ==
    ASSUME Over, UNCHANGED <<unitVars, catalogue>>
    PROVE  Custodian!Drop
BY DEF Over, unitVars, Custodian!Drop

\* So does one that a DeviceError ends; any other error leaves it going.
LEMMA FailsImplements ==
    ASSUME DeviceFails, UNCHANGED unitVars
    PROVE  Custodian!Drop \/ UNCHANGED Custodian!custodyVars
<1>1. CASE Parking
    BY <1>1 DEF Parking, DeviceFails, MovePcs, jobVars, unitVars,
        Custodian!custodyVars
<1>2. CASE ~Parking
    BY <1>2, DropImplements DEF DeviceFails, GiveUp
<1> QED  BY <1>1, <1>2

\* Starting a job takes a slot.
LEMMA SubmitImplements ==
    ASSUME IInv, Submit
    PROVE  Custodian!Next \/ UNCHANGED Custodian!custodyVars
<1>1. CASE StartReset
    BY <1>1 DEF StartReset, Begin, Idle, IInv, JobShape, unitVars,
        Custodian!custodyVars
<1>2. ASSUME NEW s \in Slots, StartEject(s) \/ StartReturn(s) \/ StartAdd(s)
      PROVE  Custodian!Take(s)
    BY <1>2 DEF StartEject, StartReturn, StartAdd, Start, Begin, Idle, IInv,
        JobShape, unitVars, Custodian!Take
<1> QED  BY <1>1, <1>2 DEF Submit, Custodian!Next

\* The commands set a slot in motion, and it is the job's.
LEMMA SendsImplement ==
    ASSUME IInv, HomeSend \/ MoveSend \/ RetractSend \/ AcceptSend
    PROVE  Custodian!Next \/ UNCHANGED Custodian!custodyVars
<1> USE DEF Custodian!Next, Custodian!Still
<1>1. CASE UNCHANGED <<unitVars, jobVars, catalogue>> /\ pc # "watch" /\ pc' # "watch"
    BY <1>1 DEF unitVars, jobVars, Custodian!custodyVars
<1>2. CASE DeviceFails /\ UNCHANGED unitVars
    BY <1>2, FailsImplements
<1>3. CASE HomeSend
    <2>1. CASE SetPos(HOME, FALSE) /\ HearsMove(HOME) /\ Heard("home_settle")
        BY <2>1, <1>3 DEF HomeSend, At, SetPos, HearsMove, Busy, Heard, jobVars,
            Custodian!custodyVars
    <2> QED  BY <1>1, <1>2, <1>3, <2>1 DEF HomeSend, At, RequireMove, Unheard
<1>4. CASE MoveSend
    <2>1. CASE /\ SetPos(Destination, Ejecting) /\ HearsMove(Destination)
               /\ Heard("move_settle")
        <3>1. CASE Ejecting /\ Destination \in occupied
            <4>1. Destination = slot /\ slot \in Slots
                BY <3>1 DEF Ejecting, Destination, IInv, JobShape
            <4>2. Custodian!SendOut(slot)
                BY <1>4, <2>1, <3>1, <4>1 DEF MoveSend, At, SetPos, HearsMove,
                    Busy, Heard, jobVars, Custodian!SendOut
            <4> QED  BY <4>1, <4>2
        <3>2. CASE ~(Ejecting /\ Destination \in occupied)
            BY <1>4, <2>1, <3>2 DEF MoveSend, At, SetPos, HearsMove, Busy, Heard,
                jobVars, Custodian!custodyVars
        <3> QED  BY <3>1, <3>2
    <2> QED  BY <1>1, <1>2, <1>4, <2>1 DEF MoveSend, At, RequireMove, Unheard
<1>5. CASE RetractSend
    <2>1. CASE ~Busy /\ Retract /\ Heard("retract_settle")
        <3>1. position = slot /\ slot \in Slots
            BY <1>5 DEF RetractSend, At, IInv, PlaceShape, JobShape, EjectPcs
        <3>2. Custodian!BringIn(slot)
            BY <1>5, <2>1, <3>1 DEF RetractSend, At, Retract, Busy, Heard,
                jobVars, Custodian!BringIn
        <3> QED  BY <3>1, <3>2
    <2> QED
        BY <1>1, <1>5, <2>1 DEF RetractSend, At, Unheard, Unanswered, jobVars
<1>6. CASE AcceptSend
    <2>1. CASE ~Busy /\ AcceptDisc /\ Heard("accept_settle")
        <3>1. position = slot /\ slot \in Slots
            BY <1>6 DEF AcceptSend, At, IInv, PlaceShape, JobShape, AddPcs
        <3>2. CASE mouth = "unacked"
            <4>1. Custodian!BringIn(slot)
                BY <1>6, <2>1, <3>1, <3>2 DEF AcceptSend, At, AcceptDisc, Busy,
                    Heard, jobVars, Custodian!BringIn
            <4> QED  BY <3>1, <4>1
        <3>3. CASE mouth # "unacked"
            BY <1>6, <2>1, <3>3 DEF AcceptSend, At, AcceptDisc, Heard, jobVars,
                Custodian!custodyVars
        <3> QED  BY <3>2, <3>3
    <2> QED  BY <1>1, <1>2, <1>6, <2>1 DEF AcceptSend, At, Unheard
<1> QED  BY <1>3, <1>4, <1>5, <1>6

\* A motion's end brings its slot out or in.
LEMMA MotionsImplement ==
    ASSUME IInv, Arrive \/ BackInSlot \/ DiscStored, UNCHANGED hostVars
    PROVE  Custodian!Next \/ UNCHANGED Custodian!custodyVars
<1> USE DEF hostVars, Custodian!Next
<1>1. CASE Arrive /\ motion = "eject"
    <2>1. target \in Slots
        BY <1>1 DEF IInv, SlotShape
    <2>2. Custodian!Leave(target)
        BY <1>1 DEF Arrive, Custodian!Leave
    <2> QED  BY <2>1, <2>2
<1>2. CASE Arrive /\ motion # "eject"
    BY <1>2 DEF Arrive, Turns, Custodian!custodyVars
<1>3. CASE BackInSlot
    <2>1. position \in Slots
        BY <1>3 DEF BackInSlot, IInv, SlotShape
    <2>2. Custodian!Come(position)
        BY <1>3 DEF BackInSlot, Custodian!Come
    <2> QED  BY <2>1, <2>2
<1>4. CASE DiscStored
    <2>1. position \in Slots
        BY <1>4 DEF DiscStored, IInv, SlotShape
    <2>2. Custodian!Come(position)
        BY <1>4 DEF DiscStored, Custodian!Come
    <2> QED  BY <2>1, <2>2
<1> QED  BY <1>1, <1>2, <1>3, <1>4

\* The job writes what is so, and writes it last.
LEMMA RecordsImplement ==
    ASSUME IInv, Attended, Records
    PROVE  Custodian!Next \/ UNCHANGED Custodian!custodyVars
<1> USE DEF Custodian!Next
<1>1. CASE RecordLoaded
    <2>1. slot \in Slots /\ "stored" \in Custodian!Rows
        BY <1>1 DEF RecordLoaded, IInv, JobShape, Custodian!Rows
    <2>2. Custodian!Write(slot, "stored")
        BY <1>1 DEF RecordLoaded, Attended, IInv, MotionShape, jobVars, unitVars,
            Custodian!Write, Custodian!Still
    <2> QED  BY <2>1, <2>2
<1>2. CASE RecordTaken
    <2>1. slot \in Slots /\ "out" \in Custodian!Rows
        BY <1>2 DEF RecordTaken, IInv, JobShape, Custodian!Rows
    <2>2. Custodian!Write(slot, "out")
        BY <1>2 DEF RecordTaken, Over, IInv, MotionShape, SlotShape, unitVars,
            Custodian!Write, Custodian!Still
    <2> QED  BY <2>1, <2>2
<1>3. CASE Refused \/ RecordNothing \/ Watched
    BY <1>3, DropImplements DEF Refused, GiveUp, RecordNothing, Watched
<1> QED  BY <1>1, <1>2, <1>3 DEF Records

\* Every step of Flows is a step of Custody or changes nothing in it.
LEMMA StepImplements ==
    ASSUME IInv, Attended, [Next]_vars
    PROVE  [Custodian!Next]_(Custodian!custodyVars)
<1> USE DEF Custodian!Next
<1>1. CASE UNCHANGED <<unitVars, slot, catalogue>> /\ pc # "watch" /\ pc' # "watch"
    BY <1>1 DEF unitVars, Custodian!custodyVars
<1>2. CASE Goes \/ MoveSettle
    BY <1>1, <1>2 DEF Goes, MoveWait, HomeCheck, HomeWait, HomeSettle, NotTaken,
        RetractSettle, WaitForInsert, IngestWait, MoveSettle, HomeReached, At,
        WaitIdle, Goto, jobVars, unitVars
<1>3. CASE Ends
    <2>1. CASE GiveUp /\ UNCHANGED unitVars
        BY <2>1, DropImplements DEF GiveUp
    <2>2. CASE DeviceFails /\ UNCHANGED unitVars
        BY <2>2, FailsImplements
    <2> QED
        BY <1>1, <1>3, <2>1, <2>2 DEF Ends, Open, MoveCheck, HomeConfirm,
            WaitIdleExpires, ExchangeFails, Crash, At, Goto, jobVars
<1>4. CASE Parks
    <2>1. CASE GiveUp /\ UNCHANGED unitVars
        BY <2>1, DropImplements DEF GiveUp
    <2> QED
        BY <1>1, <1>4, <2>1 DEF Parks, Look, WaitForTake, RetractLook,
            NotInserted, AcceptSettle, Park, At, WaitIdle, Goto, jobVars
<1>5. CASE Timers /\ UNCHANGED hostVars
    BY <1>5 DEF Timers, DiscDrawnOff, DiscSettled, AckExpired, Quiet, Blip,
        InsertDisc, TakeDisc, hostVars, Custodian!custodyVars
<1>6. CASE Links
    BY <1>6 DEF Links, Unplug, Replug, unitVars, Custodian!custodyVars
<1>7. CASE Corrections
    <2>1. PICK s \in Slots, row \in Rows : Rewrite(s, row)
        BY <1>7, CorrectionsRewrite
    <2>2. Custodian!Correct(s, row) /\ row \in Custodian!Rows
        BY <2>1 DEF Rewrite, jobVars, unitVars, Rows, Custodian!Correct,
            Custodian!Rows
    <2> QED  BY <2>2
<1>8. CASE UNCHANGED vars
    BY <1>8 DEF vars, unitVars, hostVars, Custodian!custodyVars
<1>9. CASE \/ Submit \/ Records \/ HomeSend \/ MoveSend \/ RetractSend
           \/ AcceptSend
           \/ (Arrive \/ BackInSlot \/ DiscStored) /\ UNCHANGED hostVars
    BY <1>9, SubmitImplements, RecordsImplement, SendsImplement,
        MotionsImplement
<1> QED
    BY <1>2, <1>3, <1>4, <1>5, <1>6, <1>7, <1>8, <1>9
        DEF Next, Worker, Unit, DrawOff, Expire, Hand, Goes, Ends, Parks,
            Records, Timers, Links

\* The flows, the unit, the hand and the people at the catalogue keep Custody,
\* through every failure a job can have and whatever the people write, as long
\* as the host keeps up with the unit (flows.py:36-143, protocol.py:419-468).
THEOREM CatalogueImplementsCustody ==
    ASSUME "slow" \notin Faults
    PROVE  Spec => CustodySpec
<1>1. IInv /\ Attended /\ [Next]_vars => [Custodian!Next]_(Custodian!custodyVars)
    BY StepImplements
<1> QED
    BY <1>1, InitImplements, AttendedAlways, PTL
        DEF Spec, CustodySpec, Custodian!Spec
=============================================================================
