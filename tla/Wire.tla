-------------------------------- MODULE Wire --------------------------------
(***************************************************************************)
(* How a command finds its reply (src/discstakka/protocol.py, command(),   *)
(* wait_state() and _handshake(), over a transport as simulator.py builds  *)
(* it): what lets Flows take one exchange for one step.                    *)
(*                                                                         *)
(* The unit does not answer: it latches the reply to the last command it   *)
(* processed and repeats it, about seven times a second, into a buffer the *)
(* host may be late to read.  The host reads one report, sends its command *)
(* under the next message id, and reads on until a report carries that id. *)
(*                                                                         *)
(* A payload is abstracted to the kind of the command it answers, and to   *)
(* whether that is the command now outstanding.                            *)
(***************************************************************************)
EXTENDS Naturals, Sequences

CONSTANTS
    IDS,        \* message ids run from 0 to IDS - 1, and around (256)
    LAG,        \* how many unread reports are kept; the oldest give way
    Faults      \* what may go wrong, a subset of FaultKinds

\*   starved   the host does not get to read until the deadline has passed
FaultKinds == {"starved"}

ASSUME IdsAssumption == IDS \in Nat /\ IDS >= 2
ASSUME LagAssumption == LAG \in Nat \ {0}
ASSUME FaultsAssumption == Faults \subseteq FaultKinds

VARIABLES
    latched,    \* the report the unit repeats
    stream,     \* the reports not read yet, oldest first
    pc,         \* closed, greeting, ready, or waiting for a reply
    asked,      \* the kind of the last command sent
    msgid,      \* and its message id
    heard,      \* whether the unit processed it
    spoken,     \* whether the unit has repeated itself since
    reply       \* what command() returned last: a report, or None

vars == <<latched, stream, pc, asked, msgid, heard, spoken, reply>>

Ids == 0 .. IDS - 1

\* new_unit (0xCC) is only ever reported, serial is 0x1C; of the others, those
\* in CARRIES_STATUS are status, and the rest are plain.
Commands == {"serial", "status", "plain"}
Kinds    == Commands \cup {"new_unit"}
Reports  == [id : Ids, kind : Kinds, now : BOOLEAN]
None     == [id |-> IDS, kind |-> "none", now |-> FALSE]

TypeOK ==
    /\ latched \in Reports
    /\ stream \in Seq(Reports)
    /\ Len(stream) <= LAG
    /\ pc \in {"closed", "greeting", "ready", "waiting"}
    /\ asked \in Commands
    /\ msgid \in Ids
    /\ heard \in BOOLEAN
    /\ spoken \in BOOLEAN
    /\ reply \in Reports \cup {None}

Init ==
    /\ latched = [id |-> 0, kind |-> "new_unit", now |-> FALSE]
    /\ stream = <<>>
    /\ pc = "closed"
    /\ asked = "serial"
    /\ msgid = 0
    /\ heard = FALSE
    /\ spoken = FALSE
    /\ reply = None

-----------------------------------------------------------------------------
(* The unit and the bus.                                                    *)

Old(report) == [report EXCEPT !.now = FALSE]
Unread(reports) == [k \in 1 .. Len(reports) |-> Old(reports[k])]

\* (id + 1) & 0xFF
NextId(id) == IF id = IDS - 1 THEN 0 ELSE id + 1

Repeat ==
    /\ pc # "closed"
    /\ stream' = IF Len(stream) < LAG THEN Append(stream, latched)
                                      ELSE Tail(Append(stream, latched))
    /\ spoken' = TRUE
    /\ UNCHANGED <<latched, pc, asked, msgid, heard, reply>>

\* Mutant: an id that does not wrap around.
SendUnwrapped(seed, kind) ==
    /\ asked' = kind
    /\ msgid' = seed.id + 1
    /\ heard' \in BOOLEAN
    /\ spoken' = FALSE
    /\ latched' = IF heard' THEN [id |-> msgid', kind |-> kind, now |-> TRUE]
                            ELSE Old(latched)
    /\ stream' = Unread(Tail(stream))

\* A command under the id that follows the seed's.  A busy unit, or one that
\* will not do it, does not hear it and goes on as before.
Send(seed, kind) ==
    /\ asked' = kind
    /\ msgid' = NextId(seed.id)
    /\ heard' \in BOOLEAN
    /\ spoken' = FALSE
    /\ latched' = IF heard' THEN [id |-> msgid', kind |-> kind, now |-> TRUE]
                            ELSE Old(latched)
    /\ stream' = Unread(Tail(stream))

-----------------------------------------------------------------------------
(* The host.                                                                *)

\* The unit announces itself, unless it was opened before.
OpenHandle(report) ==
    /\ pc = "closed"
    /\ latched' = report
    /\ stream' = <<>>
    /\ pc' = "greeting"
    /\ reply' = None
    /\ UNCHANGED <<asked, msgid, heard, spoken>>

Close ==
    /\ pc # "closed"
    /\ pc' = "closed"
    /\ UNCHANGED <<latched, stream, asked, msgid, heard, spoken, reply>>

Reads == stream # <<>>
Oldest == Head(stream)

Drop ==
    /\ stream' = Tail(stream)
    /\ UNCHANGED <<latched, asked, msgid, heard, spoken>>

\* _handshake: each 0xCC read is acked, and no reply is waited for ...
Ack ==
    /\ pc = "greeting" /\ Reads /\ Oldest.kind = "new_unit"
    /\ Send(Oldest, "serial")
    /\ UNCHANGED <<pc, reply>>

\* ... until something else is read: the serial, or a sign that the unit needs
\* no ack and can simply be asked for it.
Greeted ==
    /\ pc = "greeting" /\ Reads /\ Oldest.kind # "new_unit"
    /\ Drop
    /\ pc' = "ready"
    /\ UNCHANGED reply

Command(kind) ==
    /\ pc = "ready" /\ Reads
    /\ Send(Oldest, kind)
    /\ pc' = "waiting"
    /\ reply' = None

\* Mutant: any report is a reply.
MatchAny ==
    /\ pc = "waiting" /\ Reads
    /\ Drop
    /\ reply' = Oldest
    /\ pc' = "ready"

Match ==
    /\ pc = "waiting" /\ Reads /\ Oldest.id = msgid
    /\ Drop
    /\ reply' = Oldest
    /\ pc' = "ready"

Skip ==
    /\ pc = "waiting" /\ Reads /\ Oldest.id # msgid
    /\ Drop
    /\ UNCHANGED <<pc, reply>>

\* Mutant: a deadline that does not leave the unit time to repeat itself.
ExpireEarly ==
    /\ pc = "waiting" /\ ~Reads
    /\ pc' = "ready"
    /\ UNCHANGED <<latched, stream, asked, msgid, heard, spoken, reply>>

\* Three seconds are over, some twenty repeats.  A host that gets to read them
\* has read them all.
Expire ==
    /\ pc = "waiting"
    /\ "starved" \in Faults \/ (spoken /\ ~Reads)
    /\ pc' = "ready"
    /\ UNCHANGED <<latched, stream, asked, msgid, heard, spoken, reply>>

Next ==
    \/ Repeat \/ Ack \/ Greeted \/ Match \/ Skip \/ Expire \/ Close
    \/ \E kind \in Commands : Command(kind)
    \/ \E i \in Ids, kind \in Kinds :
          OpenHandle([id |-> i, kind |-> kind, now |-> FALSE])

Spec == Init /\ [][Next]_vars

-----------------------------------------------------------------------------
(* Properties.                                                              *)

\* What command() returns answers the command it has just sent, however many
\* old reports were still unread, and after any handshake.  So status() and
\* wait_state() decode a status word, and one newer than their request.
PairedReply == reply # None => reply.now /\ reply.kind = asked

\* A command that gets no reply was not processed, so that require() may send it
\* again: "there is nothing to do twice" (protocol.py:263-265).
SilenceIsUnheard ==
    [][pc = "waiting" /\ pc' = "ready" /\ reply' = None => ~heard]_vars

\* Wire implements Exchange: seen from require(), a command is obeyed in one step
\* and answered for what it was, or not obeyed and declined, whatever lies
\* unread, and however often the handle is lost (protocol.py:230-276).
Connected == pc \in {"ready", "waiting"}
Exchanges == INSTANCE Exchange WITH
    connected <- Connected,
    asked     <- IF pc = "waiting" THEN asked ELSE "none",
    obeyed    <- pc = "waiting" /\ heard,
    answer    <- IF Connected THEN reply.kind ELSE "none"
ExchangeSpec == Exchanges!Spec

\* What protocol.py:232-234 says of every command: the id pairs a reply with it.
\* It is not so of a host that was kept from reading for the length of a
\* deadline: its next command repeats an id, and takes the reply left unread.
AckMeansHeard == reply # None => heard
=============================================================================
