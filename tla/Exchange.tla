------------------------------ MODULE Exchange ------------------------------
(***************************************************************************)
(* What command() promises whoever calls it, and what Flows builds on: an  *)
(* exchange is one step of the unit.  A command is obeyed once or not at   *)
(* all, and the caller is told which, unless the handle is lost meanwhile. *)
(***************************************************************************)
CONSTANT Commands

VARIABLES
    connected,  \* whether the host has a handle and has greeted the unit
    asked,      \* the command that is out, or "none"
    obeyed,     \* whether the unit has obeyed it
    answer      \* what the last call returned: the command it was, or "none"

vars == <<connected, asked, obeyed, answer>>

Init ==
    /\ connected = FALSE
    /\ asked = "none"
    /\ obeyed = FALSE
    /\ answer = "none"

Connect ==
    /\ ~connected
    /\ connected' = TRUE
    /\ UNCHANGED <<asked, obeyed, answer>>

Ask(command) ==
    /\ connected /\ asked = "none"
    /\ asked' = command
    /\ obeyed' \in BOOLEAN
    /\ answer' = "none"
    /\ UNCHANGED connected

Over == asked' = "none" /\ obeyed' = FALSE

Acknowledge ==
    /\ obeyed
    /\ answer' = asked
    /\ Over
    /\ UNCHANGED connected

\* The call returns, and there is nothing to do twice.
Decline ==
    /\ asked # "none" /\ ~obeyed
    /\ Over
    /\ UNCHANGED <<connected, answer>>

\* The caller is never told.
Lose ==
    /\ connected
    /\ connected' = FALSE
    /\ answer' = "none"
    /\ Over

Next ==
    \/ Connect \/ Acknowledge \/ Decline \/ Lose
    \/ \E command \in Commands : Ask(command)

Spec == Init /\ [][Next]_vars
=============================================================================
