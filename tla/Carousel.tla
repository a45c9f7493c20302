------------------------------ MODULE Carousel ------------------------------
(***************************************************************************)
(* The Disc Stakka itself: the firmware's view of the machine, as          *)
(* src/discstakka/simulator.py states it, and the hand in front of it.     *)
(*                                                                         *)
(* The carousel turns to a slot, pushes the disc there into the bay        *)
(* (eject), takes the disc in the bay back (retract), draws a disc off the *)
(* loading mouth and stores it once told to (accept).  Every one of these  *)
(* takes time, during which the unit is busy and hears no command.  A disc *)
(* drawn in but never accepted is put back out, into the bay.              *)
(*                                                                         *)
(* Time is abstracted: a duration is an interval in which the unit is busy *)
(* and which ends by an action of its own.  The latched error flag         *)
(* (ACK_TIMEOUT) and the undecoded bits are left out: no flow reads them.  *)
(***************************************************************************)
EXTENDS Naturals

CONSTANT SLOT_MAX       \* slots run from 1 to SLOT_MAX; 0 is home

ASSUME SlotMaxAssumption == SLOT_MAX \in Nat \ {0}

HOME   == 0
Slots  == 1 .. SLOT_MAX
Places == 0 .. SLOT_MAX

VARIABLES
    position,   \* where the carousel stands
    homed,      \* whether the unit knows its position
    motion,     \* the commanded work under way
    target,     \* where a turn is going; HOME when there is none
    mouth,      \* the disc a hand fed in: waiting, settling, or unacked
    bay,        \* empty, ours (the unit presented it) or spat (put back out)
    stirring,   \* busy for any other reason: bay work, a take, a blip
    occupied    \* the slots that hold a disc

unitVars == <<position, homed, motion, target, mouth, bay, stirring, occupied>>

Turns   == {"seek", "eject"}
Motions == Turns \cup {"none", "retract", "accept"}
Mouths  == {"empty", "waiting", "settling", "unacked"}
Bays    == {"empty", "ours", "spat"}

UnitTypeOK ==
    /\ position \in Places
    /\ homed \in BOOLEAN
    /\ motion \in Motions
    /\ target \in Places
    /\ mouth \in Mouths
    /\ bay \in Bays
    /\ stirring \in BOOLEAN
    /\ occupied \subseteq Places

UnitInit ==
    /\ position = HOME
    /\ homed = FALSE
    /\ motion = "none"
    /\ target = HOME
    /\ mouth = "empty"
    /\ bay = "empty"
    /\ stirring = FALSE
    /\ occupied \in SUBSET Slots

-----------------------------------------------------------------------------
(* What a command does to the unit.  A busy unit hears none of these, and   *)
(* an un-homed one ignores a move to anywhere but home.                     *)

Busy ==
    \/ motion # "none"
    \/ mouth \in {"waiting", "settling"}
    \/ stirring

HearsMove(p) == ~Busy /\ (homed \/ p = HOME)

\* 0x04: whether there is a disc to present is decided as the command is heard.
SetPos(p, eject) ==
    /\ motion' = IF eject /\ p \in occupied THEN "eject" ELSE "seek"
    /\ target' = p
    /\ UNCHANGED <<position, homed, mouth, bay, stirring, occupied>>

\* 0x05
Retract ==
    /\ motion' = "retract"
    /\ UNCHANGED <<position, homed, target, mouth, bay, stirring, occupied>>

\* 0x1D: answered in any case, obeyed only if a disc is waiting for it.
AcceptDisc ==
    /\ IF mouth = "unacked"
         THEN mouth' = "empty" /\ motion' = "accept"
         ELSE UNCHANGED <<mouth, motion>>
    /\ UNCHANGED <<position, homed, target, bay, stirring, occupied>>

-----------------------------------------------------------------------------
(* What the unit does by itself, as its timers run out.                     *)

\* The turn ends; an eject has pushed the disc into the bay by now.
Arrive ==
    /\ motion \in Turns
    /\ position' = target
    /\ homed' = TRUE
    /\ motion' = "none"
    /\ target' = HOME
    /\ IF motion = "eject"
         THEN /\ occupied' = occupied \ {target}
              /\ bay' = "ours"
              /\ stirring' = TRUE
         ELSE UNCHANGED <<occupied, bay, stirring>>
    /\ UNCHANGED mouth

\* Half way through a retract the disc, if still there, leaves the bay.
BackInSlot ==
    /\ motion = "retract"
    /\ motion' = "none"
    /\ stirring' = TRUE
    /\ bay' = "empty"
    /\ occupied' = IF bay = "empty" THEN occupied ELSE occupied \cup {position}
    /\ UNCHANGED <<position, homed, target, mouth>>

DiscStored ==
    /\ motion = "accept"
    /\ motion' = "none"
    /\ occupied' = occupied \cup {position}
    /\ UNCHANGED <<position, homed, target, mouth, bay, stirring>>

DiscDrawnOff ==
    /\ mouth = "waiting"
    /\ mouth' = "settling"
    /\ UNCHANGED <<position, homed, motion, target, bay, stirring, occupied>>

DiscSettled ==
    /\ mouth = "settling"
    /\ mouth' = "unacked"
    /\ UNCHANGED <<position, homed, motion, target, bay, stirring, occupied>>

\* Nothing accepted the disc, so the firmware puts it back out.
AckExpired ==
    /\ mouth = "unacked"
    /\ mouth' = "empty"
    /\ bay' = IF bay = "ours" THEN "ours" ELSE "spat"
    /\ stirring' = TRUE
    /\ UNCHANGED <<position, homed, motion, target, occupied>>

Quiet ==
    /\ stirring
    /\ stirring' = FALSE
    /\ UNCHANGED <<position, homed, motion, target, mouth, bay, occupied>>

\* The unit's own housekeeping, just as a command is on its way.
Blip ==
    /\ ~Busy
    /\ stirring' = TRUE
    /\ UNCHANGED <<position, homed, motion, target, mouth, bay, occupied>>

-----------------------------------------------------------------------------
(* The hand.  The mouth and the bay are one opening: a disc already there   *)
(* leaves no room for another.                                              *)

InsertDisc ==
    /\ mouth = "empty"
    /\ bay = "empty"
    /\ mouth' = "waiting"
    /\ UNCHANGED <<position, homed, motion, target, bay, stirring, occupied>>

TakeDisc ==
    /\ bay # "empty"
    /\ bay' = "empty"
    /\ stirring' = TRUE
    /\ UNCHANGED <<position, homed, motion, target, mouth, occupied>>
=============================================================================
