---------------------------- MODULE StationProofs ----------------------------
(***************************************************************************)
(* The station implements both of its parts, for any number of jobs and    *)
(* one-offs, any carousel and any faults, so that what is proved of        *)
(* Controller and of Flows holds of the two together.                      *)
(*                                                                         *)
(* Controller's own invariant goes over as it is, since every step of the  *)
(* station is one of Controller's.  What is new is InStep: where the flow  *)
(* is and where its job's thread is agree, so whoever opens the unit in    *)
(* the place of a flow finds no flow begun.                                *)
(***************************************************************************)
EXTENDS Station, ControllerProofs

\* There is a flow while a job is not done, and it uses the unit only once its
\* thread has opened it.
InStep ==
    /\ pc = "idle" <=> \A j \in Jobs : ~Working(j)
    /\ pc \notin {"idle", "open"} => \E j \in Jobs : phase[j] = "running"

SInv == IInv /\ InStep

-----------------------------------------------------------------------------
(* The station is a controller.                                             *)

\* A step of a flow is the end of its job, the loss of its unit, or nothing that
\* the controller sees (device.py:206-231).
LEMMA WorksIsThread ==
    ASSUME TypeOK, NEW j \in Jobs, Works(j)
    PROVE  LoseUnit(j) \/ Finish(j) \/ UNCHANGED vars
<1>1. /\ phase[j] = "running"
      /\ phase' = [phase EXCEPT ![j] = IF pc' = "idle" THEN "closing"
                                                       ELSE "running"]
      /\ UNCHANGED <<current, registry, device, claim, keeping, onBus, openError>>
    BY DEF Works, Enter
<1>2. CASE handle = "stale" /\ Exchange
    BY <1>1, <1>2 DEF LoseUnit, Enter
<1>3. CASE UNCHANGED handle
    BY <1>1, <1>3 DEF Finish, Enter, TypeOK, vars, jobVars
<1> QED  BY <1>2, <1>3 DEF Works, Contact, Exchange

\* Every step of the station is one of the controller's, or none.
LEMMA StepIsControllers ==
    ASSUME TypeOK, [StationNext]_stationVars
    PROVE  [Next]_vars
<1>1. ASSUME NEW j \in Jobs, Submits(j) \/ Refused(j) \/ Waits(j) \/ Opens(j)
      PROVE  Next
    BY <1>1 DEF Submits, Refused, Waits, Opens, Next, Thread
<1>2. ASSUME NEW j \in Jobs, Works(j)
      PROVE  [Next]_vars
    BY <1>2, WorksIsThread DEF Next, Thread
<1>3. ASSUME NEW c \in Claims, Claimed(c) \/ OneOffs(c)
      PROVE  Next
    BY <1>3 DEF Claimed, OneOffs, Next
<1>4. CASE Tends \/ Unplugs \/ Replugs
    BY <1>4 DEF Tends, Unplugs, Replugs, Next
<1>5. CASE Elsewhere \/ UNCHANGED stationVars
    BY <1>5 DEF Elsewhere, stationVars
<1> QED
    BY <1>1, <1>2, <1>3, <1>4, <1>5 DEF StationNext, JobThread

-----------------------------------------------------------------------------
(* The threads and the flow stay in step.                                   *)

\* With one job at a time, a flow that has not begun belongs to the thread that
\* has not opened the unit yet.
LEMMA NotBegun ==
    ASSUME SInv, NEW j \in Jobs, Working(j), phase[j] # "running"
    PROVE  pc = "open"
BY DEF SInv, IInv, OneJob, InStep, Working, Undone

\* Nobody but a running job holds the unit while a flow uses it.
LEMMA NotUsing ==
    ASSUME SInv, \A j \in Jobs : device # j
    PROVE  pc \in {"idle", "open"}
BY DEF SInv, IInv, Held, InStep

\* The flow takes the step, and its thread follows.
LEMMA WorksInStep ==
    ASSUME SInv, NEW j \in Jobs, Works(j)
    PROVE  InStep'
<1>1. /\ phase[j] = "running"
      /\ phase' = [phase EXCEPT ![j] = IF pc' = "idle" THEN "closing"
                                                       ELSE "running"]
    BY DEF Works, Enter
<1>2. \A k \in Jobs \ {j} : ~Working(k)
    BY <1>1 DEF SInv, IInv, OneJob, Working, Undone
<1>3. CASE pc' = "idle"
    BY <1>1, <1>2, <1>3 DEF SInv, IInv, TypeOK, InStep, Working, Undone
<1>4. CASE pc' # "idle"
    BY <1>1, <1>4 DEF SInv, IInv, TypeOK, InStep, Working, Undone
<1> QED  BY <1>3, <1>4

\* The thread opens the unit; without one, the flow is over before it begins.
LEMMA OpensInStep ==
    ASSUME SInv, NEW j \in Jobs, Opens(j)
    PROVE  InStep'
<1>1. phase[j] = "opening" /\ Working(j) /\ pc = "open"
    BY NotBegun DEF Opens, OpenUnit, Working, Undone
<1>2. \A k \in Jobs \ {j} : ~Working(k)
    BY <1>1 DEF SInv, IInv, OneJob
<1>3. CASE handle' = "closed"
    <2>1. handle # "live"
        BY <1>3 DEF Opens, OpenUnit, Open
    <2>2. pc' = "idle"
        BY <1>3, <2>1 DEF Opens, Link, F!Open, F!GiveUp, F!Over
    <2>3. phase' = [phase EXCEPT ![j] = "closing"]
        BY <1>3 DEF Opens, OpenUnit, Enter
    <2> QED
        BY <1>2, <2>2, <2>3 DEF SInv, IInv, TypeOK, InStep, Working, Undone
<1>4. CASE handle' # "closed"
    <2>1. pc' = pc
        BY <1>4 DEF Opens, flowVars
    <2>2. phase' = [phase EXCEPT ![j] = "running"]
        BY <1>4 DEF Opens, OpenUnit, Enter
    <2> QED
        BY <1>1, <2>1, <2>2 DEF SInv, IInv, TypeOK, InStep, Working, Undone
<1> QED  BY <1>3, <1>4

\* Nothing but a job's own steps moves the flow on.
LEMMA OthersLeavePc ==
    ASSUME Elsewhere \/ Unplugs
    PROVE  pc' = pc
BY DEF Elsewhere, Unplugs, F!Unit, F!Hand, F!hostVars, F!Corrections,
    F!Delete, F!Manual, F!Correct, F!Rewrite, F!Unplug

\* Every step keeps them in step.
LEMMA StepKeepsInStep ==
    ASSUME SInv, [StationNext]_stationVars
    PROVE  InStep'
<1> USE DEF SInv, IInv
<1>1. ASSUME NEW j \in Jobs, Submits(j)
      PROVE  InStep'
    <2>1. phase' = [phase EXCEPT ![j] = "accepted"] /\ pc' = "open"
        BY <1>1 DEF Submits, Accept, Enter, F!Submit, F!StartReset,
            F!StartEject, F!StartReturn, F!StartAdd, F!Start, F!Begin
    <2> QED  BY <2>1 DEF TypeOK, InStep, Working, Undone
<1>2. ASSUME NEW j \in Jobs, Refused(j) \/ Waits(j)
      PROVE  InStep'
    <2>1. pc' = pc
        BY <1>2 DEF Refused, Waits, flowVars
    <2>2. /\ \A k \in Jobs : Working(k)' <=> Working(k)
          /\ \A k \in Jobs : phase[k] = "running" => phase'[k] = "running"
        BY <1>2 DEF Refused, Waits, Refuse, Register, Own, Release, Enter,
            TypeOK, Working, Undone
    <2> QED  BY <2>1, <2>2 DEF InStep
<1>3. ASSUME NEW j \in Jobs, Opens(j) \/ Works(j)
      PROVE  InStep'
    BY <1>3, OpensInStep, WorksInStep
<1>4. ASSUME NEW c \in Claims, Claimed(c) \/ OneOffs(c)
      PROVE  InStep'
    BY <1>4 DEF Claimed, OneOffs, Claim, OneOff, Hold, TimeOut, Probe, Probed,
        Reconnect, jobVars, flowVars, InStep, Working
<1>5. CASE Tends \/ Replugs
    BY <1>5 DEF Tends, Replugs, Tend, Wake, Reach, Look, Reopen, Replug,
        jobVars, flowVars, InStep, Working
<1>6. CASE Unplugs \/ Elsewhere
    BY <1>6, OthersLeavePc DEF Unplugs, Unplug, Elsewhere, vars, jobVars,
        InStep, Working
<1>7. CASE UNCHANGED stationVars
    BY <1>7 DEF stationVars, vars, jobVars, flowVars, InStep, Working
<1> QED
    BY <1>1, <1>2, <1>3, <1>4, <1>5, <1>6, <1>7 DEF StationNext, JobThread

\* SInv holds of every reachable state: Controller's invariant, and a flow that
\* is where its job's thread is (device.py:172-231).
THEOREM StationInductive == StationSpec => []SInv
<1>1. StationInit => SInv
    <2> SUFFICES ASSUME StationInit PROVE SInv
        OBVIOUS
    <2>1. IInv
        BY InitHolds DEF StationInit
    <2>2. InStep
        BY DEF StationInit, Init, F!Init, InStep, Working, Undone
    <2> QED  BY <2>1, <2>2 DEF SInv
<1>2. SInv /\ [StationNext]_stationVars => SInv'
    BY StepIsControllers, StepKeepsInStep, NextKeeps DEF SInv, IInv
<1> QED  BY <1>1, <1>2, PTL DEF StationSpec

\* A flow uses the unit only while its job, the one accepted last, holds it and
\* runs (device.py:3-6, 202-216).
THEOREM FlowHasTheUnit ==
    StationSpec => [](pc \notin {"idle", "open"}
                        => /\ device \in Jobs
                           /\ device = current
                           /\ phase[device] = "running")
<1>1. SInv /\ pc \notin {"idle", "open"}
        => /\ device \in Jobs
           /\ device = current
           /\ phase[device] = "running"
    BY DEF SInv, IInv, OneJob, Held, InStep, Working, Undone
<1> QED  BY <1>1, StationInductive, PTL

\* So nobody else ever sets it in motion, the keeper and the one-offs least of all.
THEOREM OnlyTheOwnerMoves == StationSpec => OnlyOwnerMoves
<1> DEFINE Owned == /\ device \in Jobs
                    /\ device = current
                    /\ phase[device] = "running"
           Moves == motion' \notin {"none", motion}
<1>1. SInv /\ [StationNext]_stationVars => [Moves => Owned]_stationVars
    <2> SUFFICES ASSUME SInv, StationNext, Moves
                 PROVE  Owned
        OBVIOUS
    <2>1. ASSUME NEW j \in Jobs, Works(j)
          PROVE  Owned
        BY <2>1 DEF Works, SInv, IInv, OneJob, Held, Working, Undone
    <2>2. ASSUME NEW j \in Jobs, Submits(j)
          PROVE  FALSE
        BY <2>2 DEF Submits, F!Submit, F!StartReset, F!StartEject,
            F!StartReturn, F!StartAdd, F!Start, F!Begin, F!unitVars
    <2>3. ASSUME NEW j \in Jobs, Refused(j) \/ Waits(j)
          PROVE  FALSE
        BY <2>3 DEF Refused, Waits, flowVars
    <2>4. ASSUME NEW j \in Jobs, Opens(j)
          PROVE  FALSE
        BY <2>4 DEF Opens, F!Open, F!unitVars, flowVars
    <2>5. ASSUME NEW c \in Claims, Claimed(c) \/ OneOffs(c)
          PROVE  FALSE
        BY <2>5 DEF Claimed, OneOffs, flowVars
    <2>6. CASE Tends \/ Replugs
        BY <2>6 DEF Tends, Replugs, flowVars
    <2>7. CASE Unplugs \/ Elsewhere
        BY <2>7 DEF Unplugs, F!Unplug, Elsewhere, F!Unit, F!Arrive,
            F!BackInSlot, F!DiscStored, F!DrawOff, F!DiscDrawnOff,
            F!DiscSettled, F!Expire, F!AckExpired, F!Quiet, F!Blip, F!Hand,
            F!InsertDisc, F!TakeDisc, F!Corrections, F!Delete, F!Manual,
            F!Correct, F!Rewrite, F!unitVars
    <2> QED
        BY <2>1, <2>2, <2>3, <2>4, <2>5, <2>6, <2>7 DEF StationNext, JobThread
<1> QED  BY <1>1, StationInductive, PTL DEF StationSpec, OnlyOwnerMoves

-----------------------------------------------------------------------------
(* The station runs Flows.                                                  *)

\* What is not the flow's leaves its link up, or takes it down, or brings up a
\* fresh one where no flow has begun (device.py:107-168).
LEMMA HandleStep ==
    ASSUME UNCHANGED flowVars,
           handle' = "live" /\ handle # "live" => pc \in {"idle", "open"}
    PROVE  [F!Next]_F!vars
<1> USE DEF flowVars, Link
<1>1. CASE Link' = Link
    BY <1>1 DEF F!vars, F!unitVars, F!hostVars
<1>2. CASE Link = "up" /\ Link' = "down"
    BY <1>2, FlowFaultsAssumption DEF F!Next, F!Unplug
<1>3. CASE Link = "down" /\ Link' = "up"
    BY <1>3 DEF F!Next, F!Replug, F!unitVars
<1> QED  BY <1>1, <1>2, <1>3

\* Every step of the station is one of Flows', or none.
LEMMA StepIsFlows ==
    ASSUME SInv, [StationNext]_stationVars
    PROVE  [F!Next]_F!vars
<1>1. ASSUME NEW j \in Jobs, Submits(j) \/ Works(j)
      PROVE  F!Next
    BY <1>1 DEF Submits, Works, F!Next
<1>2. ASSUME NEW j \in Jobs, Refused(j) \/ Waits(j)
      PROVE  [F!Next]_F!vars
    <2>1. UNCHANGED <<handle, flowVars>>
        BY <1>2 DEF Refused, Waits, Refuse, Register, Own, Release
    <2> QED  BY <2>1, HandleStep
<1>3. ASSUME NEW j \in Jobs, Opens(j)
      PROVE  [F!Next]_F!vars
    <2>1. CASE handle' = "closed"
        BY <1>3, <2>1 DEF Opens, F!Next, F!Worker
    <2>2. CASE handle' # "closed"
        <3>1. pc = "open"
            BY <1>3, NotBegun DEF Opens, OpenUnit, Working, Undone
        <3>2. UNCHANGED flowVars
            BY <1>3, <2>2 DEF Opens
        <3> QED  BY <3>1, <3>2, HandleStep
    <2> QED  BY <2>1, <2>2
<1>4. ASSUME NEW c \in Claims, Claimed(c) \/ OneOffs(c)
      PROVE  [F!Next]_F!vars
    <2>1. UNCHANGED flowVars
        BY <1>4 DEF Claimed, OneOffs
    <2>2. UNCHANGED handle \/ device = c \/ handle' # "live"
        BY <1>4 DEF Claimed, OneOffs, Claim, OneOff, Hold, TimeOut, Probe,
            Probed, Reconnect, Step, SInv, IInv, Held
    <2>3. device = c => \A j \in Jobs : device # j
        BY UsersAssumption
    <2> QED  BY <2>1, <2>2, <2>3, NotUsing, HandleStep
<1>5. CASE Tends \/ Replugs
    <2>1. UNCHANGED flowVars
        BY <1>5 DEF Tends, Replugs
    <2>2. UNCHANGED handle \/ device = Keeper \/ handle' # "live"
        BY <1>5 DEF Tends, Replugs, Tend, Wake, Reach, Look, Reopen, Replug,
            SInv, IInv, Held
    <2>3. device = Keeper => \A j \in Jobs : device # j
        BY UsersAssumption
    <2> QED  BY <2>1, <2>2, <2>3, NotUsing, HandleStep
<1>6. CASE Unplugs \/ Elsewhere
    BY <1>6 DEF Unplugs, Elsewhere, F!Next
<1>7. CASE UNCHANGED stationVars
    <2>1. UNCHANGED <<handle, flowVars>>
        BY <1>7 DEF stationVars, vars
    <2> QED  BY <2>1, HandleStep
<1> QED
    BY <1>1, <1>2, <1>3, <1>4, <1>5, <1>6, <1>7 DEF StationNext, JobThread

\* The station implements Controller, in which a flow ends as it pleases, and
\* Flows, in which a handle comes and goes as it pleases, but for a fresh one in
\* the middle of a flow (device.py:82-231).
THEOREM StationImplements == StationSpec => Implements
<1>1. StationInit => Init /\ F!Init
    BY DEF StationInit
<1>2. SInv /\ [StationNext]_stationVars => [Next]_vars /\ [F!Next]_F!vars
    BY StepIsControllers, StepIsFlows DEF SInv, IInv
<1> QED
    BY <1>1, <1>2, StationInductive, PTL
        DEF StationSpec, Implements, Spec, F!Spec

-----------------------------------------------------------------------------
(* What is proved of the parts holds of the station.                        *)

\* One job at a time, tracked while it runs and on one handle to its end, with
\* flows run step by step (device.py:82-231, jobs.py:127-132).
THEOREM StationKeepsController ==
    StationSpec => [](TypeOK /\ OneJob /\ RunningTracked) /\ OneHandlePerJob
BY StationImplements, TypeCorrect, OneJobAtATime, RunningJobsTracked,
    HandleIsTheJobs, PTL
    DEF Implements

-----------------------------------------------------------------------------
(* What is proved of Flows holds of the station's flows.                    *)

\* Flows as FlowsProofs has it, over the same handle.
FP == INSTANCE FlowsProofs WITH link <- Link, Faults <- FlowFaults

\* It is the same text: the worker,
LEMMA SameWorker == F!Worker <=> FP!Worker
<1> USE DEF
    F!HOME, FP!HOME, F!unitVars, FP!unitVars, F!jobVars, FP!jobVars,
    F!Busy, FP!Busy, F!MovePcs, FP!MovePcs, F!EjectPcs, FP!EjectPcs,
    F!AddPcs, FP!AddPcs, F!TalkPcs, FP!TalkPcs, F!Idle, FP!Idle, F!Over,
    FP!Over, F!Loading, FP!Loading, F!GiveUp, FP!GiveUp, F!Parking,
    FP!Parking, F!DeviceFails, FP!DeviceFails, F!At, FP!At, F!Goto,
    FP!Goto, F!WaitIdle, FP!WaitIdle, F!Heard, FP!Heard, F!Unheard,
    FP!Unheard, F!RequireMove, FP!RequireMove, F!HearsMove, FP!HearsMove,
    F!SetPos, FP!SetPos, F!Park, FP!Park, F!Destination, FP!Destination,
    F!Ejecting, FP!Ejecting
<1>1. F!Open <=> FP!Open
    BY DEF F!Open, FP!Open, F!RowGone, FP!RowGone
<1>2. /\ F!MoveWait <=> FP!MoveWait
      /\ F!MoveCheck <=> FP!MoveCheck
      /\ F!HomeCheck <=> FP!HomeCheck
      /\ F!HomeWait <=> FP!HomeWait
      /\ F!HomeSend <=> FP!HomeSend
      /\ F!HomeSettle <=> FP!HomeSettle
      /\ F!HomeConfirm <=> FP!HomeConfirm
      /\ F!MoveSend <=> FP!MoveSend
      /\ F!MoveSettle <=> FP!MoveSettle
    BY DEF
        F!MoveWait, FP!MoveWait, F!MoveCheck, FP!MoveCheck,
        F!HomeCheck, FP!HomeCheck, F!HomeWait, FP!HomeWait,
        F!HomeSend, FP!HomeSend, F!HomeSettle, FP!HomeSettle,
        F!HomeConfirm, FP!HomeConfirm, F!MoveSend, FP!MoveSend,
        F!HomeReached, FP!HomeReached, F!MoveSettle, FP!MoveSettle
<1>3. /\ F!Look <=> FP!Look
      /\ F!WaitForTake <=> FP!WaitForTake
      /\ F!NotTaken <=> FP!NotTaken
      /\ F!RetractSend <=> FP!RetractSend
      /\ F!RetractSettle <=> FP!RetractSettle
      /\ F!RetractLook <=> FP!RetractLook
    BY DEF
        F!Retract, FP!Retract, F!Look, FP!Look, F!WaitForTake,
        FP!WaitForTake, F!NotTaken, FP!NotTaken, F!Unanswered,
        FP!Unanswered, F!RetractSend, FP!RetractSend, F!RetractSettle,
        FP!RetractSettle, F!RetractLook, FP!RetractLook
<1>4. /\ F!WaitForInsert <=> FP!WaitForInsert
      /\ F!NotInserted <=> FP!NotInserted
      /\ F!IngestWait <=> FP!IngestWait
      /\ F!AcceptSend <=> FP!AcceptSend
      /\ F!AcceptSettle <=> FP!AcceptSettle
    BY DEF
        F!AcceptDisc, FP!AcceptDisc, F!WaitForInsert,
        FP!WaitForInsert, F!NotInserted, FP!NotInserted, F!IngestWait,
        FP!IngestWait, F!AcceptSend, FP!AcceptSend, F!AcceptSettle,
        FP!AcceptSettle
<1>5. /\ F!RecordLoaded <=> FP!RecordLoaded
      /\ F!RecordTaken <=> FP!RecordTaken
      /\ F!Refused <=> FP!Refused
      /\ F!RecordNothing <=> FP!RecordNothing
      /\ F!Watched <=> FP!Watched
    BY DEF
        F!RecordLoaded, FP!RecordLoaded, F!RecordTaken,
        FP!RecordTaken, F!Refused, FP!Refused, F!Writable, FP!Writable,
        F!RecordNothing, FP!RecordNothing, F!Watched,
        FP!Watched
<1>6. /\ F!WaitIdleExpires <=> FP!WaitIdleExpires
      /\ F!ExchangeFails <=> FP!ExchangeFails
    BY DEF
        F!WaitPcs, FP!WaitPcs, F!WaitIdleExpires, FP!WaitIdleExpires,
        F!ExchangeFails, FP!ExchangeFails
<1> QED
    BY <1>1, <1>2, <1>3, <1>4, <1>5, <1>6
        DEF F!Worker, FP!Worker

\* the variables,
LEMMA SameVars == F!vars = FP!vars /\ (UNCHANGED F!vars <=> UNCHANGED FP!vars)
BY DEF F!vars, FP!vars, F!unitVars, FP!unitVars, F!hostVars, FP!hostVars

\* and everything else.
LEMMA SameFlows == F!Spec => FP!Spec
<1>1. F!Init <=> FP!Init
    BY DEF
        F!HOME, FP!HOME, F!Slots, FP!Slots, F!UnitInit, FP!UnitInit,
        F!Rows, FP!Rows, F!Init, FP!Init
<1>2. F!Submit <=> FP!Submit
    BY DEF
        F!HOME, FP!HOME, F!Slots, FP!Slots, F!unitVars, FP!unitVars,
        F!Idle, FP!Idle, F!Begin, FP!Begin, F!Start, FP!Start, F!StartReset,
        FP!StartReset, F!StartEject, FP!StartEject, F!StartReturn,
        FP!StartReturn, F!StartAdd, FP!StartAdd, F!Submit, FP!Submit
<1>3. (F!Unit <=> FP!Unit) /\ (F!Hand <=> FP!Hand)
    BY DEF
        F!HOME, FP!HOME, F!Turns, FP!Turns, F!Busy, FP!Busy, F!Arrive,
        FP!Arrive, F!BackInSlot, FP!BackInSlot, F!DiscStored,
        FP!DiscStored, F!DiscDrawnOff, FP!DiscDrawnOff, F!DiscSettled,
        FP!DiscSettled, F!AckExpired, FP!AckExpired, F!Quiet,
        FP!Quiet, F!Blip, FP!Blip, F!InsertDisc, FP!InsertDisc,
        F!TakeDisc, FP!TakeDisc, F!hostVars, FP!hostVars, F!DrawOff,
        FP!DrawOff, F!Expire, FP!Expire, F!Unit, FP!Unit, F!Hand,
        FP!Hand
<1>4. /\ F!Unplug <=> FP!Unplug
      /\ F!Replug <=> FP!Replug
      /\ F!Crash <=> FP!Crash
    BY DEF
        F!HOME, FP!HOME, F!unitVars, FP!unitVars, F!Idle, FP!Idle,
        F!Over, FP!Over, F!Loading, FP!Loading, F!GiveUp, FP!GiveUp,
        F!Unplug, FP!Unplug, F!Replug, FP!Replug, F!Crash, FP!Crash
<1>5. F!Corrections <=> FP!Corrections
    <2>1. F!Slots = FP!Slots
        BY DEF F!Slots, FP!Slots
    <2>2. \A s, row : F!Rewrite(s, row) <=> FP!Rewrite(s, row)
        BY DEF F!Rewrite, FP!Rewrite, F!Settled, FP!Settled, F!unitVars,
            FP!unitVars, F!jobVars, FP!jobVars
    <2> QED
        BY <2>1, <2>2 DEF F!Corrections, FP!Corrections, F!Delete, FP!Delete,
            F!Manual, FP!Manual, F!Correct, FP!Correct
<1>6. F!Next <=> FP!Next
    BY <1>2, <1>3, <1>4, <1>5, SameWorker DEF F!Next, FP!Next
<1>7. [F!Next]_F!vars => [FP!Next]_FP!vars
    BY <1>6, SameVars
<1> QED  BY <1>1, <1>7, PTL DEF F!Spec, FP!Spec

\* What the constants of Flows are assumed to be, they are.
LEMMA SameConstants ==
    /\ SLOT_MAX \in Nat \ {0}
    /\ TRIES \in Nat \ {0}
    /\ FlowFaults \subseteq FP!FaultKinds
BY CarouselAssumption, FlowFaultsAssumption DEF F!FaultKinds, FP!FaultKinds

\* Through every interleaving of jobs, one-offs, the keeper and the bus: outside
\* the doubtful slots the catalogue knows every disc and no load goes into a slot
\* that is taken; no turn begins under a presented disc; and a reset reported is
\* at home (flows.py, protocol.py:372-417, device.py:82-231).
THEOREM StationKeepsFlows ==
    StationSpec => [](/\ F!Tracked
                      /\ F!NoDoubleLoad
                      /\ F!PresentedNeverTurned
                      /\ F!ResetIsHome)
<1>1. FP!Spec => []FP!Tracked
    BY FP!CatalogueTracks, SameConstants
<1>2. FP!Spec => []FP!NoDoubleLoad
    BY FP!NeverDoubleLoads, SameConstants
<1>3. FP!Spec => []FP!PresentedNeverTurned
    BY FP!PresentedDiscSafe, SameConstants
<1>4. FP!Spec => []FP!ResetIsHome
    BY FP!ResetReachesHome, SameConstants
<1>5. /\ FP!Tracked => F!Tracked
      /\ FP!NoDoubleLoad => F!NoDoubleLoad
      /\ FP!PresentedNeverTurned => F!PresentedNeverTurned
      /\ FP!ResetIsHome => F!ResetIsHome
    BY DEF F!Tracked, FP!Tracked, F!Loading, FP!Loading, F!Slots, FP!Slots,
        F!NoDoubleLoad, FP!NoDoubleLoad, F!PresentedNeverTurned,
        FP!PresentedNeverTurned, F!Turns, FP!Turns, F!ResetIsHome,
        FP!ResetIsHome, F!HOME, FP!HOME
<1> QED
    BY <1>1, <1>2, <1>3, <1>4, <1>5, StationImplements, SameFlows, PTL
        DEF Implements

\* Every step of a flow brings it nearer to its end, and no other thread sets it
\* back: the end of a flow, which Controller's fairness takes for granted
\* (device.py:206-231).
THEOREM StationJobsRunOut == StationSpec => F!StepsRunOut
<1> DEFINE FStep == ~F!Idle => /\ F!Ahead' <= F!Ahead
                               /\ F!Worker => \/ F!Ahead' < F!Ahead
                                              \/ F!Ahead' = F!Ahead /\ tries' > tries
           FPStep == ~FP!Idle => /\ FP!Ahead' <= FP!Ahead
                                 /\ FP!Worker => \/ FP!Ahead' < FP!Ahead
                                                 \/ FP!Ahead' = FP!Ahead /\ tries' > tries
<1>1. FP!Spec => FP!StepsRunOut
    BY FP!JobsRunOut, SameConstants
<1>2. /\ F!Ahead = FP!Ahead /\ F!Ahead' = FP!Ahead'
      /\ F!Idle <=> FP!Idle
    BY DEF F!Ahead, FP!Ahead, F!Stage, FP!Stage, F!Idle, FP!Idle
<1>3. [FPStep]_FP!vars => [FStep]_F!vars
    BY <1>2, SameWorker, SameVars
<1> QED
    BY <1>1, <1>3, StationImplements, SameFlows, PTL
        DEF Implements, F!StepsRunOut, FP!StepsRunOut

\* With a host that keeps up with the unit, the jobs keep Custody's promises in
\* the whole station too (flows.py:90-143, device.py:206-223).
THEOREM StationKeepsCustody ==
    ASSUME "slow" \notin FlowFaults
    PROVE  StationSpec => F!CustodySpec
<1>1. FP!Spec => FP!CustodySpec
    BY FP!CatalogueImplementsCustody, SameConstants
<1>2. FP!Custodian!Init => F!Custodian!Init
    BY DEF FP!Custodian!Init, F!Custodian!Init, FP!Custodian!Rows,
        F!Custodian!Rows, FP!Custodian!Still, F!Custodian!Still, F!Slots,
        FP!Slots, F!HOME, FP!HOME
<1>3. [FP!Custodian!Next]_(FP!Custodian!custodyVars)
        => [F!Custodian!Next]_(F!Custodian!custodyVars)
    BY DEF FP!Custodian!Next, F!Custodian!Next,
        FP!Custodian!custodyVars, F!Custodian!custodyVars,
        FP!Custodian!Rows, F!Custodian!Rows, F!Slots, FP!Slots, F!HOME,
        FP!HOME, FP!Custodian!Still, F!Custodian!Still,
        FP!Custodian!Take, F!Custodian!Take,
        FP!Custodian!Drop, F!Custodian!Drop,
        FP!Custodian!SendOut, F!Custodian!SendOut,
        FP!Custodian!BringIn, F!Custodian!BringIn,
        FP!Custodian!Leave, F!Custodian!Leave,
        FP!Custodian!Come, F!Custodian!Come,
        FP!Custodian!Write, F!Custodian!Write,
        FP!Custodian!Correct, F!Custodian!Correct
<1> QED
    BY <1>1, <1>2, <1>3, StationImplements, SameFlows, PTL
        DEF Implements, FP!CustodySpec, F!CustodySpec, FP!Custodian!Spec,
            F!Custodian!Spec
=============================================================================
