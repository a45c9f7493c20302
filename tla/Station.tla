------------------------------- MODULE Station -------------------------------
(***************************************************************************)
(* The station: the threads of Controller and the flows of Flows, over the *)
(* one handle they share.                                                  *)
(*                                                                         *)
(* Controller lets a job run to its end in one step; here it runs its flow *)
(* step by step, each exchange over the handle as the keeper, the one-offs *)
(* and the bus have left it.  Flows lets the handle come and go by itself; *)
(* here only those threads and the bus move it.                            *)
(*                                                                         *)
(* One process, from its start: a crash is Flows' alone.                   *)
(***************************************************************************)
EXTENDS Controller

CONSTANTS
    SLOT_MAX,   \* of Carousel
    TRIES,      \* of Flows
    FlowFaults  \* what may go wrong for a flow

VARIABLES
    position, homed, motion, target, mouth, bay, stirring, occupied,
    catalogue, pc, task, slot, result, tries, doubtful

flowVars == <<position, homed, motion, target, mouth, bay, stirring, occupied,
              catalogue, pc, task, slot, result, tries, doubtful>>
stationVars == <<vars, flowVars>>

\* A flow can use the unit if the handle is open, and to the unit there is.
Link == IF handle = "live" THEN "up" ELSE "down"

F == INSTANCE Flows WITH link <- Link, Faults <- FlowFaults

ASSUME CarouselAssumption == SLOT_MAX \in Nat \ {0} /\ TRIES \in Nat \ {0}

\* Reconnect can cost a handle its unit whether or not the unit ever leaves.
ASSUME FlowFaultsAssumption ==
    /\ "unplug" \in FlowFaults
    /\ FlowFaults \subseteq F!FaultKinds \ {"crash"}

StationInit == Init /\ F!Init

-----------------------------------------------------------------------------
(* A job.                                                                   *)

\* A request submits a job, on what it has seen of the slot's row.
Submits(j) == Accept(j) /\ F!Submit

Refused(j) == Refuse(j) /\ UNCHANGED flowVars

\* Registered, or at the lock, or done and letting go of it.
Waits(j) == (Register(j) \/ Own(j) \/ Release(j)) /\ UNCHANGED flowVars

\* The flow does not begin if the unit cannot be opened.
Opens(j) ==
    /\ OpenUnit(j)
    /\ IF handle' = "closed" THEN F!Open ELSE UNCHANGED flowVars

\* Whether a step of the flow is an exchange, which a stale handle does not
\* survive.  The record is none; the watch may be over without one.
Contact ==
    \/ pc # "record" /\ Exchange
    \/ pc \in {"record", "watch"} /\ UNCHANGED handle

\* A step of the flow.  With the last one the job is done.
Works(j) ==
    /\ phase[j] = "running"
    /\ Contact
    /\ F!Worker
    /\ Enter(j, IF pc' = "idle" THEN "closing" ELSE "running")
    /\ UNCHANGED <<current, registry, device, claim, keeping, onBus, openError>>

JobThread(j) == Waits(j) \/ Opens(j) \/ Works(j)

-----------------------------------------------------------------------------
(* Everyone else.  A flow sees of them what they do to the handle.          *)

Claimed(c) == Claim(c) /\ UNCHANGED flowVars
OneOffs(c) == OneOff(c) /\ UNCHANGED flowVars
Tends      == Tend /\ UNCHANGED flowVars

\* A unit that leaves the bus may have forgotten its position when it is back.
Unplugs  == Unplug /\ F!Unplug
Replugs  == Replug /\ UNCHANGED flowVars

\* The unit's own work, the hand at its mouth, the catalogue's corrections
Elsewhere ==
    /\ UNCHANGED vars
    /\ F!Unit \/ F!Hand \/ F!Corrections

StationNext ==
    \/ \E j \in Jobs : Submits(j) \/ Refused(j) \/ JobThread(j)
    \/ \E c \in Claims : Claimed(c) \/ OneOffs(c)
    \/ Tends \/ Unplugs \/ Replugs \/ Elsewhere

StationSpec == StationInit /\ [][StationNext]_stationVars

\* The fairness of Controller, for threads that run their flows: that a flow
\* ends is no longer assumed.
StationFairSpec ==
    /\ StationSpec
    /\ \A j \in Jobs : WF_stationVars(JobThread(j))
    /\ \A c \in Claims : WF_stationVars(OneOffs(c))
    /\ WF_stationVars(Tends)

-----------------------------------------------------------------------------
(* Properties.                                                              *)

\* What Controller and Flows each assume of the other, the other does: a flow
\* ends as a job may end, loses its unit as a job may lose it, and finds the
\* handle as Flows lets it change, never a fresh one in the middle of a flow
\* (device.py:133-168, 206-231).
Implements == Spec /\ F!Spec

\* Only the job accepted last, while it holds the unit and runs, ever sets the
\* unit in motion (device.py:3-6, 202-216).
OnlyOwnerMoves ==
    [][motion' \notin {"none", motion}
         => /\ device \in Jobs
            /\ device = current
            /\ phase[device] = "running"]_stationVars
=============================================================================
