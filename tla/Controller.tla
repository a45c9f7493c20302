----------------------------- MODULE Controller -----------------------------
(***************************************************************************)
(* Who may use the unit, and when: DeviceController                        *)
(* (src/discstakka/device.py), the registry of jobs (jobs.py) and the      *)
(* handle the unit is reached by (protocol.py, open to alive).             *)
(*                                                                         *)
(* A request submits a job, which gets a thread of its own.  A one-off     *)
(* (the diagnostics page, or Reconnect) claims the unit for a moment.  The *)
(* keeper looks in on it twice a second.  All three meet at two locks:     *)
(* _lock, held for one step at a time and so not a variable, and _device,  *)
(* held for as long as its owner uses the unit.                            *)
(*                                                                         *)
(* What a job does with the unit is Flows; here it only runs to its end.   *)
(***************************************************************************)
EXTENDS Naturals, Sequences

CONSTANTS
    Jobs,       \* the jobs requests submit, one request each
    Claims,     \* the one-offs, each made any number of times
    Keeper,     \* the keep-open thread
    Nobody,     \* who holds a free lock, and which job is current at first
    KEEP,       \* how many jobs the registry keeps
    Faults      \* what may go wrong, a subset of FaultKinds

\*   unplug   the unit leaves the bus, or re-enumerates
\*   deaf     a unit on the bus cannot be opened
FaultKinds == {"unplug", "deaf"}

ASSUME KeepAssumption == KEEP \in Nat \ {0}
ASSUME FaultsAssumption == Faults \subseteq FaultKinds
ASSUME UsersAssumption ==
    /\ Jobs \cap Claims = {}
    /\ Keeper \notin Jobs \cup Claims
    /\ Nobody \notin Jobs \cup Claims \cup {Keeper}

VARIABLES
    current,    \* _current: the job accepted last
    device,     \* who holds _device
    phase,      \* for each job, where its request and then its thread are
    registry,   \* the jobs a page can find, oldest first
    claim,      \* for each one-off, where it is
    keeping,    \* where the keeper is
    handle,     \* closed, live, or stale: open, but not to the unit there is
    onBus,      \* whether there is a unit
    openError   \* whether the keeper's last attempt left an error

jobVars == <<current, phase, registry>>
vars == <<jobVars, device, claim, keeping, handle, onBus, openError>>

Undone == {"accepted", "registered", "opening", "running"}
Phases == Undone \cup {"new", "refused", "closing", "gone"}

TypeOK ==
    /\ current \in Jobs \cup {Nobody}
    /\ device \in Jobs \cup Claims \cup {Keeper, Nobody}
    /\ phase \in [Jobs -> Phases]
    /\ registry \in Seq(Jobs)
    /\ Len(registry) <= KEEP
    /\ claim \in [Claims -> {"idle", "claiming", "holding", "probing"}]
    /\ keeping \in {"asleep", "reaching", "tending", "opening"}
    /\ handle \in {"closed", "live", "stale"}
    /\ onBus \in BOOLEAN
    /\ openError \in BOOLEAN

Init ==
    /\ current = Nobody
    /\ device = Nobody
    /\ phase = [j \in Jobs |-> "new"]
    /\ registry = <<>>
    /\ claim = [c \in Claims |-> "idle"]
    /\ keeping = "asleep"
    /\ handle = "closed"
    /\ onBus \in BOOLEAN
    /\ openError = FALSE

-----------------------------------------------------------------------------
(* The handle.                                                              *)

\* What comes of trying to open the unit.
Fresh == IF ~onBus THEN {"closed"}
         ELSE IF "deaf" \in Faults THEN {"live", "closed"} ELSE {"live"}

\* open() is content with any handle that is open, a stale one included.
Open == handle' \in IF handle = "closed" THEN Fresh ELSE {handle}

\* An exchange over a stale handle closes it.
Exchange == handle' = IF handle = "stale" THEN "closed" ELSE handle

-----------------------------------------------------------------------------
(* A job: its request, then its thread.                                     *)

Working(j) == phase[j] \in Undone

\* The property `current`: a job that is done no longer counts.
Occupied == current # Nobody /\ Working(current)

Enter(j, p) == phase' = [phase EXCEPT ![j] = p]

Accept(j) ==
    /\ phase[j] = "new" /\ ~Occupied
    /\ current' = j
    /\ Enter(j, "accepted")
    /\ UNCHANGED <<registry, device, claim, keeping, handle, onBus, openError>>

\* Mutant: submit() that makes the job current before it asks.
RefuseCurrent(j) ==
    /\ phase[j] = "new" /\ Occupied
    /\ current' = j
    /\ Enter(j, "refused")
    /\ UNCHANGED <<registry, device, claim, keeping, handle, onBus, openError>>

\* Busy.
Refuse(j) ==
    /\ phase[j] = "new" /\ Occupied
    /\ Enter(j, "refused")
    /\ UNCHANGED <<current, registry, device, claim, keeping, handle, onBus,
                   openError>>

\* Mutant: a registry that holds one job too many.
AddedLate(j) ==
    IF Len(registry) > KEEP THEN Tail(Append(registry, j))
                            ELSE Append(registry, j)

\* Mutant: a registry that drops the newest job.
AddedFull(j) ==
    IF Len(registry) < KEEP THEN Append(registry, j) ELSE registry

\* JobRegistry.add
Added(j) ==
    IF Len(registry) < KEEP THEN Append(registry, j)
                            ELSE Tail(Append(registry, j))

\* Its thread starts, and waits for the unit.
Register(j) ==
    /\ phase[j] = "accepted"
    /\ registry' = Added(j)
    /\ Enter(j, "registered")
    /\ UNCHANGED <<current, device, claim, keeping, handle, onBus, openError>>

Own(j) ==
    /\ phase[j] = "registered" /\ device = Nobody
    /\ device' = j
    /\ Enter(j, "opening")
    /\ UNCHANGED <<current, registry, claim, keeping, handle, onBus, openError>>

\* A unit that cannot be opened fails the job before its flow begins.
OpenUnit(j) ==
    /\ phase[j] = "opening"
    /\ Open
    /\ Enter(j, IF handle' = "closed" THEN "closing" ELSE "running")
    /\ UNCHANGED <<current, registry, device, claim, keeping, onBus,
                   openError>>

\* The flow meets a stale handle.  Parking, it goes on; else the job fails.
LoseUnit(j) ==
    /\ phase[j] = "running" /\ handle = "stale"
    /\ Exchange
    /\ \E p \in {"running", "closing"} : Enter(j, p)
    /\ UNCHANGED <<current, registry, device, claim, keeping, onBus,
                   openError>>

Finish(j) ==
    /\ phase[j] = "running"
    /\ Enter(j, "closing")
    /\ UNCHANGED <<current, registry, device, claim, keeping, handle,
                   onBus, openError>>

\* Done as the pages see it, the job lets go of the unit.
Release(j) ==
    /\ phase[j] = "closing"
    /\ device' = Nobody
    /\ Enter(j, "gone")
    /\ UNCHANGED <<current, registry, claim, keeping, handle, onBus, openError>>

Thread(j) ==
    Register(j) \/ Own(j) \/ OpenUnit(j) \/ LoseUnit(j) \/ Finish(j)
    \/ Release(j)

-----------------------------------------------------------------------------
(* A one-off: _claimed(), and what probe() and reconnect() do inside it.    *)

Step(c, from, to) ==
    claim[c] = from /\ claim' = [claim EXCEPT ![c] = to]

\* Mutant: a one-off that does not ask whether a job is running.
ClaimAnyway(c) ==
    /\ Step(c, "idle", "claiming")
    /\ UNCHANGED <<jobVars, device, keeping, handle, onBus, openError>>

\* With a job running it is refused at once instead, and nothing changes.
Claim(c) ==
    /\ ~Occupied
    /\ Step(c, "idle", "claiming")
    /\ UNCHANGED <<jobVars, device, keeping, handle, onBus, openError>>

Hold(c) ==
    /\ device = Nobody
    /\ Step(c, "claiming", "holding")
    /\ device' = c
    /\ UNCHANGED <<jobVars, keeping, handle, onBus, openError>>

\* Five seconds are over.  A job that is done takes no such time to let go.
Overdue == device # Nobody /\ (device \in Jobs => Working(device))

TimeOut(c) ==
    /\ Overdue
    /\ Step(c, "claiming", "idle")
    /\ UNCHANGED <<jobVars, device, keeping, handle, onBus, openError>>

\* probe() opens the unit if need be, and has it say how it is.
Probe(c) ==
    /\ Step(c, "holding", "probing")
    /\ Open
    /\ UNCHANGED <<jobVars, device, keeping, onBus, openError>>

Probed(c) ==
    /\ Step(c, "probing", "idle")
    /\ Exchange
    /\ device' = Nobody
    /\ UNCHANGED <<jobVars, keeping, onBus, openError>>

\* reconnect() drops the handle, whatever it was, and opens a fresh one.
Reconnect(c) ==
    /\ Step(c, "holding", "idle")
    /\ handle' \in Fresh
    /\ device' = Nobody
    /\ UNCHANGED <<jobVars, keeping, onBus, openError>>

OneOff(c) ==
    Hold(c) \/ TimeOut(c) \/ Probe(c) \/ Probed(c) \/ Reconnect(c)

-----------------------------------------------------------------------------
(* The keeper: tend(), over and over.                                       *)

Wake ==
    /\ keeping = "asleep" /\ ~Occupied
    /\ keeping' = "reaching"
    /\ UNCHANGED <<jobVars, device, claim, handle, onBus, openError>>

\* Mutant: a keeper that goes on without the lock.
ReachAnyway ==
    /\ keeping = "reaching"
    /\ device' = IF device = Nobody THEN Keeper ELSE device
    /\ keeping' = "tending"
    /\ UNCHANGED <<jobVars, claim, handle, onBus, openError>>

\* It never waits for the unit.
Reach ==
    /\ keeping = "reaching"
    /\ IF device = Nobody
         THEN device' = Keeper /\ keeping' = "tending"
         ELSE keeping' = "asleep" /\ UNCHANGED device
    /\ UNCHANGED <<jobVars, claim, handle, onBus, openError>>

\* Mutant: a keeper that takes any open handle for a live one.
LookTrusting ==
    /\ keeping = "tending"
    /\ UNCHANGED handle
    /\ IF handle = "closed" /\ onBus
         THEN keeping' = "opening" /\ UNCHANGED <<device, openError>>
         ELSE keeping' = "asleep" /\ device' = Nobody /\ openError' = FALSE
    /\ UNCHANGED <<jobVars, claim, onBus>>

\* Mutant: the error is only cleared by opening the unit.
LookSilent ==
    /\ keeping = "tending"
    /\ Exchange
    /\ IF handle # "live" /\ onBus
         THEN keeping' = "opening" /\ UNCHANGED <<device, openError>>
         ELSE keeping' = "asleep" /\ device' = Nobody /\ UNCHANGED openError
    /\ UNCHANGED <<jobVars, claim, onBus>>

\* alive() closes a stale handle; only a unit on the bus is worth opening.
Look ==
    /\ keeping = "tending"
    /\ Exchange
    /\ IF handle # "live" /\ onBus
         THEN keeping' = "opening" /\ UNCHANGED <<device, openError>>
         ELSE keeping' = "asleep" /\ device' = Nobody /\ openError' = FALSE
    /\ UNCHANGED <<jobVars, claim, onBus>>

Reopen ==
    /\ keeping = "opening"
    /\ handle' \in Fresh
    /\ openError' = (handle' = "closed")
    /\ keeping' = "asleep"
    /\ device' = Nobody
    /\ UNCHANGED <<jobVars, claim, onBus>>

Tend == Wake \/ Reach \/ Look \/ Reopen

-----------------------------------------------------------------------------
(* The bus.                                                                 *)

Unplug ==
    /\ "unplug" \in Faults /\ onBus
    /\ onBus' = FALSE
    /\ handle' = IF handle = "live" THEN "stale" ELSE handle
    /\ UNCHANGED <<jobVars, device, claim, keeping, openError>>

Replug ==
    /\ ~onBus
    /\ onBus' = TRUE
    /\ UNCHANGED <<jobVars, device, claim, keeping, handle, openError>>

Next ==
    \/ \E j \in Jobs : Accept(j) \/ Refuse(j) \/ Thread(j)
    \/ \E c \in Claims : Claim(c) \/ OneOff(c)
    \/ Tend \/ Unplug \/ Replug

Spec == Init /\ [][Next]_vars

-----------------------------------------------------------------------------
(* Properties.                                                              *)

\* A job that is not done is the current one, so there is only ever one
\* (device.py:172-176).
OneJob == \A j \in Jobs : Working(j) => current = j

Tracked(j) == \E i \in DOMAIN registry : registry[i] = j

\* No page loses the job it polls while that job runs, however many there have
\* been before it (jobs.py:127-132).
RunningTracked ==
    \A j \in Jobs : phase[j] \in Undone \ {"accepted"} => Tracked(j)

\* A job works on one handle from beginning to end: nobody reopens the unit
\* under a flow that has met a dead handle.  Flows!Replug rests on this.
OneHandlePerJob ==
    [][\A j \in Jobs :
          phase[j] = "running" /\ phase'[j] = "running" /\ handle # "live"
          => handle' # "live"]_vars

\* Every accepted job ends and frees the unit, however many one-offs there are
\* and although nobody queues for the unit (device.py:82-110, 153-168): no job
\* comes back to "new", so it cannot stay anywhere between that and its end.
AcceptedJobEnds ==
    \A j \in Jobs : []<>(phase[j] \in {"new", "refused", "gone"})

\* A unit that stays on the bus, and in the end can be opened, is reached again
\* and again, whatever became of earlier handles (device.py:133-168).
Attempt ==
    \/ \E j \in Jobs : OpenUnit(j)
    \/ \E c \in Claims : Probe(c) \/ Reconnect(c)
    \/ Reopen
KeeperRestores ==
    <>[]onBus /\ <>[][Attempt => handle' # "closed"]_vars => []<>(handle = "live")

\* What the keeper last hit is not reported for good, as the real fault
\* (device.py:99-104), of a unit that has long been reached by someone else.
ErrorGoes ==
    /\ <>[]onBus /\ <>[][Attempt => handle' # "closed"]_vars
    /\ <>[](\A c \in Claims : claim[c] = "idle")
    => <>[]~openError
=============================================================================
