-------------------------- MODULE ControllerProofs --------------------------
(***************************************************************************)
(* Controller is right for any number of jobs and one-offs, any registry   *)
(* that keeps at least one job, and a unit that comes and goes.            *)
(*                                                                         *)
(* OneJob alone is not inductive: that the running job is still in the     *)
(* registry needs it to be the newest one there (Newest), and that only    *)
(* its owner touches the handle needs the places of all threads to agree   *)
(* with who holds the lock (Held).                                         *)
(***************************************************************************)
EXTENDS Controller, TLAPS

\* Whoever is at a place that needs the unit is the one that holds it.
Held ==
    /\ \A j \in Jobs :
          phase[j] \in {"opening", "running", "closing"} <=> device = j
    /\ \A c \in Claims : claim[c] \in {"holding", "probing"} <=> device = c
    /\ keeping \in {"tending", "opening"} <=> device = Keeper

\* No job was registered after one that still runs.
Newest ==
    \A j \in Jobs :
        phase[j] \in Undone \ {"accepted"} =>
            /\ Len(registry) > 0
            /\ registry[Len(registry)] = j

IInv == TypeOK /\ OneJob /\ Held /\ Newest

\* A registry that has been added to holds the new job last, and no more jobs
\* than it keeps (jobs.py:127-132).
LEMMA AddedIsNewest ==
    ASSUME TypeOK, NEW j \in Jobs
    PROVE  /\ Added(j) \in Seq(Jobs)
           /\ Len(Added(j)) > 0
           /\ Len(Added(j)) <= KEEP
           /\ Added(j)[Len(Added(j))] = j
<1> DEFINE longer == Append(registry, j)
<1>1. /\ registry \in Seq(Jobs) /\ Len(registry) \in Nat
      /\ Len(registry) <= KEEP /\ KEEP \in Nat /\ KEEP >= 1
    BY KeepAssumption DEF TypeOK
<1>2. /\ longer \in Seq(Jobs)
      /\ Len(longer) = Len(registry) + 1
      /\ longer[Len(longer)] = j
    BY <1>1
<1>3. CASE Len(registry) < KEEP
    BY <1>1, <1>2, <1>3 DEF Added
<1>4. CASE ~(Len(registry) < KEEP)
    <2>1. Added(j) = Tail(longer)  BY <1>4 DEF Added
    <2>2. Len(longer) = KEEP + 1  BY <1>1, <1>2, <1>4
    <2>3. /\ Tail(longer) \in Seq(Jobs)
          /\ Len(Tail(longer)) = KEEP
          /\ Tail(longer)[KEEP] = longer[KEEP + 1]
        BY <1>1, <1>2, <2>2
    <2> QED  BY <1>1, <1>2, <2>1, <2>2, <2>3
<1> QED  BY <1>3, <1>4

-----------------------------------------------------------------------------
(* The inductive invariant, one lemma for each kind of step.                *)

\* It holds to begin with.
LEMMA InitHolds == Init => IInv
<1> SUFFICES ASSUME Init PROVE IInv  OBVIOUS
<1>1. TypeOK
    <2>1. registry \in Seq(Jobs) /\ Len(registry) <= KEEP
        BY KeepAssumption DEF Init
    <2>2. phase \in [Jobs -> Phases]  BY DEF Init, Phases
    <2>3. claim \in [Claims -> {"idle", "claiming", "holding", "probing"}]
        BY DEF Init
    <2> QED  BY <2>1, <2>2, <2>3 DEF Init, TypeOK
<1>2. OneJob /\ Newest
    BY DEF Init, OneJob, Newest, Working, Undone
<1>3. Held  BY UsersAssumption DEF Init, Held
<1> QED  BY <1>1, <1>2, <1>3 DEF IInv

\* A request that submits a job keeps it, accepted or not (device.py:172-176).
LEMMA SubmitKeeps ==
    ASSUME IInv, NEW j \in Jobs, Accept(j) \/ Refuse(j)
    PROVE  IInv'
<1> USE DEF IInv
<1>1. CASE Accept(j)
    <2> USE <1>1 DEF Accept, Enter
    <2>1. TypeOK'  BY DEF TypeOK, Phases, Undone
    <2>2. \A k \in Jobs : ~Working(k)
        BY UsersAssumption DEF TypeOK, Occupied, OneJob, Working
    <2>3. OneJob'  BY <2>2 DEF TypeOK, OneJob, Working
    <2>4. Held'  BY DEF TypeOK, Held
    <2>5. Newest'  BY <2>2 DEF TypeOK, Newest, Working, Undone
    <2> QED  BY <2>1, <2>3, <2>4, <2>5
<1>2. CASE Refuse(j)
    <2> USE <1>2 DEF Refuse, Enter
    <2>1. TypeOK'  BY DEF TypeOK, Phases, Undone
    <2>2. OneJob'  BY DEF TypeOK, OneJob, Working, Undone
    <2>3. Held'  BY DEF TypeOK, Held
    <2>4. Newest'  BY DEF TypeOK, Newest, Undone
    <2> QED  BY <2>1, <2>2, <2>3, <2>4
<1> QED  BY <1>1, <1>2

\* So does the registration of the job that was accepted (device.py:177-181).
LEMMA RegisterKeeps ==
    ASSUME IInv, NEW j \in Jobs, Register(j)
    PROVE  IInv'
<1> USE DEF IInv, Register, Enter
<1>1. TypeOK'  BY AddedIsNewest DEF TypeOK, Phases, Undone
<1>2. OneJob'  BY DEF TypeOK, OneJob, Working, Undone
<1>3. Held'  BY DEF TypeOK, Held
<1>4. Newest'
    <2> SUFFICES ASSUME NEW k \in Jobs, phase'[k] \in Undone \ {"accepted"}
                 PROVE  /\ Len(registry') > 0
                        /\ registry'[Len(registry')] = k
        BY DEF Newest
    <2>1. k = j  BY DEF TypeOK, OneJob, Working, Undone
    <2> QED  BY <2>1, AddedIsNewest
<1> QED  BY <1>1, <1>2, <1>3, <1>4

\* So does a thread that takes the unit, uses it, or lets go (device.py:202-231).
LEMMA ThreadKeeps ==
    ASSUME IInv, NEW j \in Jobs,
           Own(j) \/ OpenUnit(j) \/ LoseUnit(j) \/ Finish(j) \/ Release(j)
    PROVE  IInv'
<1> USE DEF IInv, Own, OpenUnit, LoseUnit, Finish, Release, Enter
<1>1. TypeOK'
    BY DEF TypeOK, Phases, Undone, Open, Exchange, Fresh
<1>2. OneJob'  BY DEF TypeOK, OneJob, Working, Undone
<1>3. Held'  BY UsersAssumption DEF TypeOK, Held
<1>4. Newest'  BY DEF TypeOK, Newest, Undone
<1> QED  BY <1>1, <1>2, <1>3, <1>4

\* So does a one-off (device.py:82-129).
LEMMA OneOffKeeps ==
    ASSUME IInv, NEW c \in Claims, Claim(c) \/ OneOff(c)
    PROVE  IInv'
<1> USE DEF IInv, Claim, OneOff, Hold, TimeOut, Probe, Probed, Reconnect, Step,
            jobVars
<1>1. TypeOK'  BY DEF TypeOK, Open, Exchange, Fresh
<1>2. OneJob' /\ Newest'  BY DEF OneJob, Newest, Working
<1>3. Held'  BY UsersAssumption DEF TypeOK, Held
<1> QED  BY <1>1, <1>2, <1>3

\* So does the keeper (device.py:153-168), and so does the bus.
LEMMA TendKeeps ==
    ASSUME IInv, Tend \/ Unplug \/ Replug
    PROVE  IInv'
<1> USE DEF IInv, Tend, Wake, Reach, Look, Reopen, Unplug, Replug, jobVars
<1>1. TypeOK'  BY DEF TypeOK, Exchange, Fresh
<1>2. OneJob' /\ Newest'  BY DEF OneJob, Newest, Working
<1>3. Held'  BY UsersAssumption DEF TypeOK, Held
<1> QED  BY <1>1, <1>2, <1>3

\* Every step keeps it.
LEMMA NextKeeps == IInv /\ [Next]_vars => IInv'
<1> SUFFICES ASSUME IInv, [Next]_vars PROVE IInv'  OBVIOUS
<1>1. CASE UNCHANGED vars
    BY <1>1 DEF vars, jobVars, IInv, TypeOK, OneJob, Held, Newest, Working
<1>2. CASE \E j \in Jobs : Accept(j) \/ Refuse(j) \/ Thread(j)
    BY <1>2, SubmitKeeps, RegisterKeeps, ThreadKeeps DEF Thread
<1>3. CASE \E c \in Claims : Claim(c) \/ OneOff(c)
    BY <1>3, OneOffKeeps
<1>4. CASE Tend \/ Unplug \/ Replug
    BY <1>4, TendKeeps
<1> QED  BY <1>1, <1>2, <1>3, <1>4 DEF Next

\* IInv holds of every reachable state: one job at a time, the newest in the
\* registry, and a lock that says who uses the unit (device.py:82-181, 202-204).
THEOREM Inductive == Spec => []IInv
BY InitHolds, NextKeeps, PTL DEF Spec

-----------------------------------------------------------------------------
(* What follows, for every set of jobs and one-offs.                        *)

\* Every variable stays within its type.
THEOREM TypeCorrect == Spec => []TypeOK
<1>1. IInv => TypeOK  BY DEF IInv
<1> QED  BY <1>1, Inductive, PTL

\* There is never more than one job that is not done (device.py:172-176).
THEOREM OneJobAtATime == Spec => []OneJob
<1>1. IInv => OneJob  BY DEF IInv
<1> QED  BY <1>1, Inductive, PTL

\* The registry never drops a job that runs (jobs.py:127-132).
THEOREM RunningJobsTracked == Spec => []RunningTracked
<1>1. IInv => RunningTracked
    <2> SUFFICES ASSUME IInv, NEW j \in Jobs,
                        phase[j] \in Undone \ {"accepted"}
                 PROVE  Tracked(j)
        BY DEF RunningTracked
    <2>1. /\ registry \in Seq(Jobs)
          /\ Len(registry) > 0
          /\ registry[Len(registry)] = j
        BY DEF IInv, TypeOK, Newest
    <2>2. Len(registry) \in DOMAIN registry  BY <2>1
    <2> QED  BY <2>1, <2>2 DEF Tracked
<1> QED  BY <1>1, Inductive, PTL

\* Nobody reopens the unit under a job that has begun to use it: what
\* Flows!Replug assumes of the keeper and the one-offs (device.py:82-168).
THEOREM HandleIsTheJobs == Spec => OneHandlePerJob
<1> DEFINE Kept == \A j \in Jobs :
                     phase[j] = "running" /\ phase'[j] = "running"
                     /\ handle # "live" => handle' # "live"
<1>1. IInv /\ [Next]_vars => [Kept]_vars
    <2> SUFFICES ASSUME IInv, [Next]_vars, NEW j \in Jobs,
                        phase[j] = "running", phase'[j] = "running",
                        handle # "live"
                 PROVE  handle' # "live"
        OBVIOUS
    <2>1. device = j  BY DEF IInv, Held
    <2>2. CASE UNCHANGED vars  BY <2>2 DEF vars
    <2>3. ASSUME NEW k \in Jobs, Accept(k) \/ Refuse(k) \/ Thread(k)
          PROVE  handle' # "live"
        BY <2>1, <2>3 DEF IInv, Held, Accept, Refuse, Thread, Register, Own,
            OpenUnit, LoseUnit, Finish, Release, Exchange
    <2>4. ASSUME NEW c \in Claims, Claim(c) \/ OneOff(c)
          PROVE  handle' # "live"
        BY <2>1, <2>4, UsersAssumption DEF IInv, Held, Claim, OneOff, Hold,
            TimeOut, Probe, Probed, Reconnect, Step
    <2>5. CASE Tend \/ Unplug \/ Replug
        BY <2>1, <2>5, UsersAssumption DEF IInv, Held, Tend, Wake, Reach, Look,
            Reopen, Unplug, Replug
    <2> QED  BY <2>2, <2>3, <2>4, <2>5 DEF Next
<1> QED  BY <1>1, Inductive, PTL DEF Spec, OneHandlePerJob
=============================================================================
