----------------------------- MODULE WireProofs -----------------------------
(***************************************************************************)
(* A host that gets to read pairs every reply with its command, for any    *)
(* number of message ids from two up and any buffer.                       *)
(*                                                                         *)
(* PairedReply alone is not inductive.  What carries it is an order among  *)
(* the unread reports: between commands they all repeat the latched one    *)
(* (Rest), while a command waits they are old ones and then its own        *)
(* (Reply), and while a unit is greeted they are announcements and then    *)
(* its serial (Greeting).                                                  *)
(***************************************************************************)
EXTENDS Wire, TLAPS

Greeting ==
    pc = "greeting" =>
        /\ reply = None
        /\ latched.kind = "new_unit" =>
              \A k \in 1 .. Len(stream) :
                  stream[k].kind = "new_unit" /\ stream[k].id = latched.id
        /\ latched.kind # "new_unit" =>
              \A k \in 1 .. Len(stream) :
                  IF stream[k].kind = "new_unit"
                  THEN latched.id = NextId(stream[k].id)
                  ELSE stream[k].id = latched.id
        /\ \A k, l \in 1 .. Len(stream) :
              /\ k < l /\ stream[l].kind = "new_unit"
                    => stream[k].kind = "new_unit"
              /\ stream[k].kind = "new_unit" /\ stream[l].kind = "new_unit"
                    => stream[k].id = stream[l].id

Rest ==
    pc = "ready" => \A k \in 1 .. Len(stream) : stream[k].id = latched.id

Waiting ==
    pc = "waiting" /\ ~heard =>
        /\ latched.id # msgid
        /\ \A k \in 1 .. Len(stream) : stream[k].id = latched.id

Reply ==
    pc = "waiting" /\ heard =>
        /\ latched = [id |-> msgid, kind |-> asked, now |-> TRUE]
        /\ \A k, l \in 1 .. Len(stream) :
              stream[k].id = msgid /\ k <= l => stream[l] = latched
        /\ spoken => Len(stream) > 0 /\ stream[Len(stream)] = latched

Pending == pc = "waiting" => reply = None

IInv ==
    TypeOK /\ Greeting /\ Rest /\ Waiting /\ Reply /\ Pending /\ PairedReply

-----------------------------------------------------------------------------
(* Facts about the stream and the ids.                                      *)

\* The next id is another one (protocol.py:244).
LEMMA NextIdDiffers ==
    ASSUME NEW id \in Ids
    PROVE  NextId(id) \in Ids /\ NextId(id) # id
BY IdsAssumption DEF NextId, Ids

\* Reading the oldest report leaves the others in their order.
LEMMA TailOfStream ==
    ASSUME NEW s \in Seq(Reports), s # <<>>
    PROVE  /\ Head(s) \in Reports /\ Head(s) = s[1]
           /\ Tail(s) \in Seq(Reports)
           /\ Len(s) \in Nat /\ Len(s) >= 1
           /\ Len(Tail(s)) = Len(s) - 1
           /\ \A k \in 1 .. Len(Tail(s)) :
                 k + 1 \in 1 .. Len(s) /\ Tail(s)[k] = s[k + 1]
OBVIOUS

\* A new command makes every unread report an old one and changes nothing else.
LEMMA UnreadStream ==
    ASSUME NEW s \in Seq(Reports)
    PROVE  /\ Unread(s) \in Seq(Reports)
           /\ Len(Unread(s)) = Len(s)
           /\ \A k \in 1 .. Len(s) :
                 /\ Unread(s)[k].id = s[k].id
                 /\ Unread(s)[k].kind = s[k].kind
<1>1. \A r \in Reports : /\ Old(r) \in Reports
                         /\ Old(r).id = r.id /\ Old(r).kind = r.kind
    BY DEF Old, Reports
<1>2. /\ Len(s) \in Nat
      /\ \A k \in 1 .. Len(s) : s[k] \in Reports
    OBVIOUS
<1>3. \A k \in 1 .. Len(s) : Old(s[k]) \in Reports  BY <1>1, <1>2
<1>4. Unread(s) \in [1 .. Len(s) -> Reports]  BY <1>3 DEF Unread
<1>5. Unread(s) \in Seq(Reports) /\ Len(Unread(s)) = Len(s)  BY <1>2, <1>4
<1> QED  BY <1>1, <1>2, <1>5 DEF Unread

\* A repeat puts the latched report last, and drops the oldest if need be.
LEMMA RepeatStream ==
    ASSUME TypeOK, Repeat
    PROVE  /\ stream' \in Seq(Reports)
           /\ Len(stream') > 0 /\ Len(stream') <= LAG
           /\ stream'[Len(stream')] = latched
           /\ \/ /\ Len(stream') = Len(stream) + 1
                 /\ \A k \in 1 .. Len(stream) : stream'[k] = stream[k]
              \/ /\ Len(stream') = Len(stream)
                 /\ \A k \in 1 .. Len(stream) - 1 : stream'[k] = stream[k + 1]
<1> DEFINE longer == Append(stream, latched)
<1>1. /\ stream \in Seq(Reports) /\ Len(stream) \in Nat
      /\ Len(stream) <= LAG /\ LAG \in Nat /\ LAG >= 1 /\ latched \in Reports
    BY LagAssumption DEF TypeOK
<1>2. /\ longer \in Seq(Reports)
      /\ Len(longer) = Len(stream) + 1
      /\ longer[Len(longer)] = latched
      /\ \A k \in 1 .. Len(stream) : longer[k] = stream[k]
    BY <1>1
<1>3. CASE Len(stream) < LAG
    BY <1>1, <1>2, <1>3 DEF Repeat
<1>4. CASE ~(Len(stream) < LAG)
    <2>1. stream' = Tail(longer)  BY <1>4 DEF Repeat
    <2>2. longer # <<>>  BY <1>1, <1>2
    <2>3. /\ Tail(longer) \in Seq(Reports)
          /\ Len(Tail(longer)) = Len(stream)
          /\ \A k \in 1 .. Len(stream) : Tail(longer)[k] = longer[k + 1]
        BY <1>2, <2>2, TailOfStream
    <2> HIDE DEF longer
    <2> QED  BY <1>1, <1>2, <1>4, <2>1, <2>3
<1> QED  BY <1>3, <1>4

\* What reading a report and sending a command leaves unread: the rest, as old
\* reports.
LEMMA SendStream ==
    ASSUME TypeOK, Reads, NEW kind \in Commands, Send(Oldest, kind)
    PROVE  /\ stream' \in Seq(Reports)
           /\ Len(stream) \in Nat /\ Len(stream) >= 1
           /\ Len(stream') = Len(stream) - 1
           /\ \A k \in 1 .. Len(stream') :
                 /\ k \in 1 .. Len(stream) /\ k + 1 \in 1 .. Len(stream)
                 /\ stream'[k].id = stream[k + 1].id
                 /\ stream'[k].kind = stream[k + 1].kind
           /\ Oldest \in Reports /\ Oldest = stream[1]
           /\ 1 \in 1 .. Len(stream)
<1>1. stream \in Seq(Reports) /\ stream # <<>>  BY DEF TypeOK, Reads
<1>2. stream' = Unread(Tail(stream))  BY DEF Send
<1> DEFINE rest == Tail(stream)
<1>3. /\ Head(stream) \in Reports /\ Head(stream) = stream[1]
      /\ rest \in Seq(Reports)
      /\ Len(stream) \in Nat /\ Len(stream) >= 1
      /\ Len(rest) = Len(stream) - 1
      /\ \A k \in 1 .. Len(rest) :
            k + 1 \in 1 .. Len(stream) /\ rest[k] = stream[k + 1]
    BY <1>1, TailOfStream
<1> HIDE DEF rest
<1>4. /\ stream' \in Seq(Reports)
      /\ Len(stream') = Len(rest)
      /\ \A k \in 1 .. Len(rest) : /\ stream'[k].id = rest[k].id
                                 /\ stream'[k].kind = rest[k].kind
    BY <1>2, <1>3, UnreadStream DEF rest
<1> QED  BY <1>3, <1>4 DEF Oldest

\* Every variable but the stream stays within its type when a command is sent.
LEMMA SendTypes ==
    ASSUME TypeOK, Reads, NEW kind \in Commands, Send(Oldest, kind)
    PROVE  /\ latched' \in Reports
           /\ msgid' \in Ids /\ msgid' # Oldest.id
           /\ msgid' = NextId(Oldest.id)
           /\ asked' = kind /\ heard' \in BOOLEAN /\ spoken' = FALSE
           /\ heard' => latched' = [id |-> msgid', kind |-> kind, now |-> TRUE]
           /\ ~heard' => /\ latched'.id = latched.id
                         /\ latched'.kind = latched.kind
           /\ Len(stream') <= LAG
<1>1. Oldest \in Reports /\ Oldest.id \in Ids
    BY SendStream DEF Reports
<1>2. /\ msgid' = NextId(Oldest.id) /\ msgid' \in Ids /\ msgid' # Oldest.id
    BY <1>1, NextIdDiffers DEF Send
<1>3. kind \in Kinds  BY DEF Kinds
<1>4. [id |-> msgid', kind |-> kind, now |-> TRUE] \in Reports
    BY <1>2, <1>3 DEF Reports
<1>5. /\ Old(latched) \in Reports
      /\ Old(latched).id = latched.id /\ Old(latched).kind = latched.kind
    BY DEF TypeOK, Old, Reports
<1>6. Len(stream') <= LAG
    BY SendStream, LagAssumption DEF TypeOK
<1> QED  BY <1>2, <1>4, <1>5, <1>6 DEF Send

-----------------------------------------------------------------------------
(* Types need no order among the reports, nor a host that gets to read.     *)

\* Every step keeps the types.
LEMMA TypesStay == ASSUME TypeOK, [Next]_vars PROVE TypeOK'
<1>1. CASE Repeat
    BY <1>1, RepeatStream DEF Repeat, TypeOK
<1>2. CASE Ack
    <2>1. Reads /\ Send(Oldest, "serial") /\ UNCHANGED <<pc, reply>>
        BY <1>2 DEF Ack
    <2>2. "serial" \in Commands  BY DEF Commands
    <2> QED  BY <2>1, <2>2, SendStream, SendTypes DEF TypeOK
<1>3. ASSUME NEW kind \in Commands, Command(kind)
      PROVE  TypeOK'
    <2>1. Reads /\ Send(Oldest, kind) /\ pc' = "waiting" /\ reply' = None
        BY <1>3 DEF Command
    <2> QED  BY <2>1, SendStream, SendTypes DEF TypeOK
<1>4. CASE Greeted \/ Match \/ Skip
    <2>1. /\ stream # <<>> /\ stream' = Tail(stream)
          /\ UNCHANGED <<latched, asked, msgid, heard, spoken>>
          /\ pc' \in {pc, "ready"} /\ reply' \in {reply, Head(stream)}
        BY <1>4 DEF Greeted, Match, Skip, Drop, Reads, Oldest
    <2> QED  BY <2>1, TailOfStream, LagAssumption DEF TypeOK
<1>5. ASSUME NEW i \in Ids, NEW kind \in Kinds,
             OpenHandle([id |-> i, kind |-> kind, now |-> FALSE])
      PROVE  TypeOK'
    <2>1. [id |-> i, kind |-> kind, now |-> FALSE] \in Reports  BY DEF Reports
    <2>2. stream' \in Seq(Reports) /\ Len(stream') = 0 /\ 0 <= LAG
        BY <1>5, LagAssumption DEF OpenHandle
    <2> QED  BY <1>5, <2>1, <2>2 DEF OpenHandle, TypeOK
<1>6. CASE Expire \/ Close \/ UNCHANGED vars
    BY <1>6 DEF Expire, Close, vars, TypeOK
<1> QED  BY <1>1, <1>2, <1>3, <1>4, <1>5, <1>6 DEF Next

\* They hold to begin with.
LEMMA InitTypes == Init => TypeOK
<1> SUFFICES ASSUME Init PROVE TypeOK  OBVIOUS
<1>1. stream \in Seq(Reports) /\ Len(stream) <= LAG
    BY LagAssumption DEF Init
<1>2. 0 \in Ids  BY IdsAssumption DEF Ids
<1>3. latched \in Reports  BY <1>2 DEF Init, Reports, Kinds
<1> QED  BY <1>1, <1>2, <1>3 DEF Init, TypeOK, Commands

\* Whether or not the host gets to read, a reply is a report or none, ids wrap
\* around, and no more than LAG reports wait (protocol.py:230-252, 326-359).
THEOREM TypeCorrect == Spec => []TypeOK
BY InitTypes, TypesStay, PTL DEF Spec

-----------------------------------------------------------------------------
(* The inductive invariant, one lemma for each kind of step.                *)

\* It holds to begin with.
LEMMA InitHolds == Init => IInv
<1> SUFFICES ASSUME Init PROVE IInv  OBVIOUS
<1>1. TypeOK  BY InitTypes
<1>2. Len(stream) = 0  BY DEF Init
<1> QED  BY <1>1, <1>2 DEF Init, IInv, Greeting, Rest, Waiting, Reply, Pending,
            PairedReply

\* The unit's repeats keep it.
LEMMA RepeatKeeps == ASSUME IInv, Repeat PROVE IInv'
<1>1. TypeOK'
    BY TypesStay DEF IInv, Next
<1>2. Len(stream) \in Nat  BY DEF IInv, TypeOK
<1>3. UNCHANGED <<latched, pc, asked, msgid, heard, reply>>  BY DEF Repeat
<1>4. \A k \in 1 .. Len(stream') :
         \/ stream'[k] = latched /\ k = Len(stream')
         \/ \E l \in 1 .. Len(stream) :
               /\ stream'[k] = stream[l]
               /\ l = k \/ l = k + 1
               /\ Len(stream') = Len(stream) + 1 => l = k
               /\ Len(stream') = Len(stream) => l = k + 1
    BY <1>2, RepeatStream DEF IInv
<1>5. /\ Len(stream') \in Nat
      /\ Len(stream') > 0
      /\ stream'[Len(stream')] = latched
    BY RepeatStream, <1>1 DEF IInv, TypeOK
<1>6. (Rest /\ Waiting)'
    BY <1>2, <1>3, <1>4 DEF IInv, Rest, Waiting
<1>7. Reply'
    <2> SUFFICES ASSUME pc = "waiting", heard
                 PROVE  \A k, l \in 1 .. Len(stream') :
                           stream'[k].id = msgid /\ k <= l
                           => stream'[l] = latched
        BY <1>3, <1>5 DEF IInv, Reply
    <2> QED  BY <1>2, <1>3, <1>4, <1>5, RepeatStream DEF IInv, Reply
<1>8. Greeting'
    <2> SUFFICES ASSUME pc = "greeting" PROVE Greeting'
        BY <1>3 DEF Greeting
    <2>1. reply' = None  BY <1>3 DEF IInv, Greeting
    <2>2. CASE latched.kind = "new_unit"
        <3>1. \A k \in 1 .. Len(stream') :
                 stream'[k].kind = "new_unit" /\ stream'[k].id = latched.id
            BY <1>4, <2>2 DEF IInv, Greeting
        <3> QED  BY <1>3, <2>1, <2>2, <3>1 DEF Greeting
    <2>3. CASE latched.kind # "new_unit"
        <3>1. \A k \in 1 .. Len(stream') :
                 IF stream'[k].kind = "new_unit"
                 THEN latched.id = NextId(stream'[k].id)
                 ELSE stream'[k].id = latched.id
            BY <1>4, <2>3 DEF IInv, Greeting
        <3>2. ASSUME NEW k \in 1 .. Len(stream'), NEW l \in 1 .. Len(stream'),
                     stream'[l].kind = "new_unit"
              PROVE  /\ k < l => stream'[k].kind = "new_unit"
                     /\ stream'[k].kind = "new_unit"
                           => stream'[k].id = stream'[l].id
            <4>1. PICK m \in 1 .. Len(stream) :
                     /\ stream'[l] = stream[m]
                     /\ m = l \/ m = l + 1
                     /\ Len(stream') = Len(stream) + 1 => m = l
                     /\ Len(stream') = Len(stream) => m = l + 1
                BY <1>4, <2>3, <3>2
            <4>2. CASE k = Len(stream')
                <5>1. k >= l  BY <1>5, <4>2
                <5>2. stream'[k].kind # "new_unit"  BY <1>5, <2>3, <4>2
                <5> QED  BY <5>1, <5>2
            <4>3. CASE k # Len(stream')
                <5>1. PICK n \in 1 .. Len(stream) :
                         /\ stream'[k] = stream[n]
                         /\ n = k \/ n = k + 1
                         /\ Len(stream') = Len(stream) + 1 => n = k
                         /\ Len(stream') = Len(stream) => n = k + 1
                    BY <1>4, <4>3
                <5>2. k < l => n < m
                    BY <1>2, <1>5, <4>1, <5>1, RepeatStream DEF IInv
                <5>3. stream[m].kind = "new_unit"  BY <3>2, <4>1
                <5>4. /\ n < m => stream[n].kind = "new_unit"
                      /\ stream[n].kind = "new_unit"
                            => stream[n].id = stream[m].id
                    BY <5>3 DEF IInv, Greeting
                <5> QED  BY <4>1, <5>1, <5>2, <5>4
            <4> QED  BY <4>2, <4>3
        <3> QED  BY <1>3, <2>1, <2>3, <3>1, <3>2 DEF Greeting
    <2> QED  BY <2>2, <2>3
<1>9. (Pending /\ PairedReply)'
    BY <1>3 DEF IInv, Pending, PairedReply
<1> QED  BY <1>1, <1>6, <1>7, <1>8, <1>9 DEF IInv
\* Opening and closing the handle keep it.
LEMMA HandleKeeps ==
    ASSUME IInv,
           \/ Close
           \/ \E i \in Ids, kind \in Kinds :
                 OpenHandle([id |-> i, kind |-> kind, now |-> FALSE])
    PROVE  IInv'
<1>1. CASE Close
    BY <1>1 DEF Close, IInv, TypeOK, Greeting, Rest, Waiting, Reply, Pending,
        PairedReply
<1>2. ASSUME NEW i \in Ids, NEW kind \in Kinds,
             OpenHandle([id |-> i, kind |-> kind, now |-> FALSE])
      PROVE  IInv'
    <2>1. [id |-> i, kind |-> kind, now |-> FALSE] \in Reports  BY DEF Reports
    <2>2. stream' \in Seq(Reports) /\ Len(stream') = 0 /\ 0 <= LAG
        BY <1>2, LagAssumption DEF OpenHandle
    <2>3. TypeOK'  BY <1>2, TypesStay DEF IInv, Next
    <2> QED  BY <1>2, <2>2, <2>3 DEF OpenHandle, IInv, Greeting, Rest, Waiting,
                Reply, Pending, PairedReply
<1> QED  BY <1>1, <1>2

\* Acking an announcement keeps it: what is read next is another announcement,
\* of the same id, or the serial.
LEMMA AckKeeps == ASSUME IInv, Ack PROVE IInv'
<1>1. Reads /\ Send(Oldest, "serial") /\ Oldest.kind = "new_unit"
      /\ pc = "greeting" /\ UNCHANGED <<pc, reply>>
    BY DEF Ack
<1>2. "serial" \in Commands  BY DEF Commands
<1>3. TypeOK'  BY TypesStay DEF IInv, Next
<1>4. (Rest /\ Waiting /\ Reply /\ Pending)'
    BY <1>1 DEF Rest, Waiting, Reply, Pending
<1>5. PairedReply' /\ reply' = None
    BY <1>1 DEF PairedReply, IInv, Greeting
<1>6. \A k \in 1 .. Len(stream') :
         /\ k \in 1 .. Len(stream) /\ k + 1 \in 1 .. Len(stream)
         /\ stream'[k].id = stream[k + 1].id
         /\ stream'[k].kind = stream[k + 1].kind
    BY <1>1, <1>2, SendStream DEF IInv
<1>7. /\ Len(stream) \in Nat /\ Len(stream') \in Nat
      /\ stream[1].kind = "new_unit" /\ 1 \in 1 .. Len(stream)
      /\ msgid' = NextId(stream[1].id)
    <2>1. /\ Len(stream) \in Nat /\ Len(stream') = Len(stream) - 1
          /\ Len(stream) >= 1 /\ 1 \in 1 .. Len(stream)
          /\ Oldest = stream[1]
        BY <1>1, <1>2, SendStream DEF IInv
    <2>2. msgid' = NextId(Oldest.id)  BY <1>1 DEF Send
    <2> QED  BY <1>1, <2>1, <2>2
<1>8. \A k \in 1 .. Len(stream') :
         stream'[k].kind = "new_unit" => stream'[k].id = stream[1].id
    BY <1>1, <1>6, <1>7 DEF IInv, Greeting
<1>9. \A k, l \in 1 .. Len(stream') :
         k < l /\ stream'[l].kind = "new_unit" => stream'[k].kind = "new_unit"
    <2> SUFFICES ASSUME NEW k \in 1 .. Len(stream'), NEW l \in 1 .. Len(stream'),
                        k < l, stream'[l].kind = "new_unit"
                 PROVE  stream'[k].kind = "new_unit"
        OBVIOUS
    <2>1. k + 1 < l + 1  BY <1>7
    <2> QED  BY <1>1, <1>6, <2>1 DEF IInv, Greeting
<1>10. CASE heard'
    <2>1. latched'.kind = "serial" /\ latched'.id = NextId(stream[1].id)
        <3>1. latched' = [id |-> msgid', kind |-> "serial", now |-> TRUE]
            BY <1>1, <1>10 DEF Send
        <3> QED  BY <1>7, <3>1
    <2>2. \A k \in 1 .. Len(stream') :
             stream'[k].kind # "new_unit" => stream'[k].id = latched'.id
        BY <1>1, <1>6, <1>7, <2>1 DEF IInv, Greeting
    <2>3. Greeting'
        BY <1>5, <1>8, <1>9, <2>1, <2>2 DEF Greeting
    <2> QED  BY <1>3, <1>4, <1>5, <2>3 DEF IInv
<1>11. CASE ~heard'
    <2>1. latched'.kind = latched.kind /\ latched'.id = latched.id
        BY <1>1, <1>2, <1>11, SendTypes DEF IInv
    <2>2. Greeting'
        BY <1>1, <1>5, <1>6, <1>8, <1>9, <2>1 DEF IInv, Greeting
    <2> QED  BY <1>3, <1>4, <1>5, <2>2 DEF IInv
<1> QED  BY <1>10, <1>11
\* So does the end of the greeting: what is left repeats the serial.
LEMMA GreetedKeeps == ASSUME IInv, Greeted PROVE IInv'
<1>1. /\ pc = "greeting" /\ stream # <<>> /\ Head(stream).kind # "new_unit"
      /\ stream' = Tail(stream) /\ pc' = "ready"
      /\ UNCHANGED <<latched, asked, msgid, heard, spoken, reply>>
    BY DEF Greeted, Reads, Oldest, Drop
<1>2. /\ Head(stream) = stream[1] /\ 1 \in 1 .. Len(stream)
      /\ stream' \in Seq(Reports)
      /\ Len(stream') = Len(stream) - 1 /\ Len(stream) \in Nat
      /\ \A k \in 1 .. Len(stream') :
            k + 1 \in 1 .. Len(stream) /\ stream'[k] = stream[k + 1]
    BY <1>1, TailOfStream DEF IInv, TypeOK
<1>3. TypeOK'  BY <1>1, <1>2, LagAssumption DEF IInv, TypeOK
<1>4. latched.kind # "new_unit"
    BY <1>1, <1>2 DEF IInv, Greeting
<1>5. \A k \in 1 .. Len(stream') : stream'[k].id = latched.id
    <2> SUFFICES ASSUME NEW k \in 1 .. Len(stream')
                 PROVE  stream[k + 1].id = latched.id
        BY <1>2
    <2>1. k + 1 \in 1 .. Len(stream) /\ 1 < k + 1  BY <1>2
    <2>2. stream[k + 1].kind # "new_unit"
        BY <1>1, <1>2, <2>1 DEF IInv, Greeting
    <2> QED  BY <1>1, <1>4, <2>1, <2>2 DEF IInv, Greeting
<1> QED  BY <1>1, <1>3, <1>5 DEF IInv, Greeting, Rest, Waiting, Reply, Pending,
            PairedReply

\* So does sending a command: its id is not that of any unread report.
LEMMA CommandKeeps ==
    ASSUME IInv, NEW kind \in Commands, Command(kind)
    PROVE  IInv'
<1>1. /\ pc = "ready" /\ Reads /\ Send(Oldest, kind)
      /\ pc' = "waiting" /\ reply' = None
    BY DEF Command
<1>2. TypeOK'  BY <1>1, SendStream, SendTypes DEF IInv, TypeOK
<1>3. /\ Len(stream) \in Nat /\ Len(stream') = Len(stream) - 1
      /\ 1 \in 1 .. Len(stream) /\ Oldest = stream[1]
      /\ \A k \in 1 .. Len(stream') :
            k + 1 \in 1 .. Len(stream) /\ stream'[k].id = stream[k + 1].id
    BY <1>1, SendStream DEF IInv
<1>4. /\ Oldest.id = latched.id
      /\ \A k \in 1 .. Len(stream') : stream'[k].id = latched.id
    BY <1>1, <1>3 DEF IInv, Rest
<1>5. /\ msgid' # Oldest.id /\ spoken' = FALSE /\ asked' = kind
      /\ heard' => latched' = [id |-> msgid', kind |-> kind, now |-> TRUE]
      /\ ~heard' => latched'.id = latched.id
    BY <1>1, SendTypes DEF IInv
<1>6. (Greeting /\ Rest)'  BY <1>1 DEF Greeting, Rest
<1>7. Waiting'  BY <1>4, <1>5 DEF Waiting
<1>8. Reply'  BY <1>4, <1>5 DEF Reply
<1>9. (Pending /\ PairedReply)'  BY <1>1 DEF Pending, PairedReply
<1> QED  BY <1>2, <1>6, <1>7, <1>8, <1>9 DEF IInv

\* So does reading on, to a reply or past a report that is none.
LEMMA ReadKeeps == ASSUME IInv, Match \/ Skip PROVE IInv'
<1>1. /\ pc = "waiting" /\ stream # <<>>
      /\ stream' = Tail(stream)
      /\ UNCHANGED <<latched, asked, msgid, heard, spoken>>
    BY DEF Match, Skip, Reads, Drop
<1>2. /\ Head(stream) = stream[1] /\ 1 \in 1 .. Len(stream)
      /\ Head(stream) \in Reports
      /\ stream' \in Seq(Reports)
      /\ Len(stream') = Len(stream) - 1 /\ Len(stream) \in Nat
      /\ Len(stream') \in Nat
      /\ \A k \in 1 .. Len(stream') :
            k + 1 \in 1 .. Len(stream) /\ stream'[k] = stream[k + 1]
    BY <1>1, TailOfStream DEF IInv, TypeOK
<1>3. CASE Match
    <2>1. stream[1].id = msgid /\ reply' = stream[1] /\ pc' = "ready"
        BY <1>2, <1>3 DEF Match, Oldest
    <2>2. heard  BY <1>1, <1>2, <2>1 DEF IInv, TypeOK, Waiting
    <2>3. /\ latched = [id |-> msgid, kind |-> asked, now |-> TRUE]
          /\ \A l \in 1 .. Len(stream) : stream[l] = latched
        BY <1>1, <1>2, <2>1, <2>2 DEF IInv, Reply
    <2>4. TypeOK'
        BY <1>1, <1>2, <1>3, <2>1, LagAssumption DEF IInv, TypeOK
    <2>5. Rest'  BY <1>1, <1>2, <2>3 DEF Rest
    <2>6. PairedReply'  BY <1>1, <1>2, <2>1, <2>3 DEF PairedReply
    <2> QED  BY <2>1, <2>4, <2>5, <2>6 DEF IInv, Greeting, Waiting, Reply,
                Pending
<1>4. CASE Skip
    <2>1. stream[1].id # msgid /\ UNCHANGED <<pc, reply>>
        BY <1>2, <1>4 DEF Skip, Oldest
    <2>2. TypeOK'
        BY <1>1, <1>2, <2>1, LagAssumption DEF IInv, TypeOK
    <2>3. Waiting'  BY <1>1, <1>2, <2>1 DEF IInv, Waiting
    <2>4. Reply'
        <3> SUFFICES ASSUME heard PROVE Reply'
            BY <1>1 DEF Reply
        <3>1. latched = [id |-> msgid, kind |-> asked, now |-> TRUE]
            BY <1>1 DEF IInv, Reply
        <3>2. \A k, l \in 1 .. Len(stream') :
                 stream'[k].id = msgid /\ k <= l => stream'[l] = latched
            <4> SUFFICES ASSUME NEW k \in 1 .. Len(stream'),
                                NEW l \in 1 .. Len(stream'),
                                stream'[k].id = msgid, k <= l
                         PROVE  stream'[l] = latched
                OBVIOUS
            <4>1. /\ k + 1 \in 1 .. Len(stream) /\ l + 1 \in 1 .. Len(stream)
                  /\ k + 1 <= l + 1 /\ stream[k + 1].id = msgid
                BY <1>2
            <4> QED  BY <1>1, <1>2, <4>1 DEF IInv, Reply
        <3>3. spoken => Len(stream') > 0 /\ stream'[Len(stream')] = latched
            <4> SUFFICES ASSUME spoken
                         PROVE  Len(stream') > 0
                                /\ stream'[Len(stream')] = latched
                OBVIOUS
            <4>1. stream[Len(stream)] = latched
                BY <1>1 DEF IInv, Reply
            <4>2. Len(stream) # 1  BY <2>1, <3>1, <4>1
            <4>3. Len(stream') \in 1 .. Len(stream')  BY <1>2, <4>2
            <4> QED  BY <1>2, <4>1, <4>2, <4>3
        <3> QED  BY <1>1, <2>1, <3>1, <3>2, <3>3 DEF Reply
    <2> QED  BY <1>1, <2>1, <2>2, <2>3, <2>4 DEF IInv, Greeting, Rest, Pending,
                PairedReply
<1> QED  BY <1>3, <1>4

\* So does a deadline, if the host has got to read.
LEMMA ExpireKeeps ==
    ASSUME "starved" \notin Faults, IInv, Expire
    PROVE  IInv' /\ ~heard
<1>1. /\ pc = "waiting" /\ spoken /\ stream = <<>> /\ pc' = "ready"
      /\ UNCHANGED <<latched, stream, asked, msgid, heard, spoken, reply>>
    BY DEF Expire, Reads
<1>2. Len(stream) = 0  BY <1>1
<1>3. ~heard  BY <1>1, <1>2 DEF IInv, Reply
<1> QED  BY <1>1, <1>2, <1>3 DEF IInv, TypeOK, Greeting, Rest, Waiting, Reply,
            Pending, PairedReply

\* Every step keeps it.
LEMMA NextKeeps ==
    ASSUME "starved" \notin Faults, IInv, [Next]_vars
    PROVE  IInv'
<1>1. CASE UNCHANGED vars
    BY <1>1 DEF vars, IInv, TypeOK, Greeting, Rest, Waiting, Reply, Pending,
        PairedReply
<1>2. CASE Next
    BY <1>2, RepeatKeeps, HandleKeeps, AckKeeps, GreetedKeeps, CommandKeeps,
        ReadKeeps, ExpireKeeps DEF Next
<1> QED  BY <1>1, <1>2

-----------------------------------------------------------------------------
(* What follows for a host that is never starved.                           *)

\* IInv holds of every reachable state: the order of the unread reports at every
\* place of the host (protocol.py:230-252, 330-359).
THEOREM Inductive == ASSUME "starved" \notin Faults PROVE Spec => []IInv
<1>1. IInv /\ [Next]_vars => IInv'  BY NextKeeps
<1> QED  BY InitHolds, <1>1, PTL DEF Spec

\* A reply command() returns answers the command it sent, for any number of ids
\* and any buffer (protocol.py:230-252).
THEOREM RepliesArePaired ==
    ASSUME "starved" \notin Faults PROVE Spec => []PairedReply
<1>1. IInv => PairedReply  BY DEF IInv
<1> QED  BY <1>1, Inductive, PTL

\* A command without a reply was not processed: require() may send it again
\* (protocol.py:254-276).
THEOREM RetryIsSafe ==
    ASSUME "starved" \notin Faults PROVE Spec => SilenceIsUnheard
<1> DEFINE Silent == pc = "waiting" /\ pc' = "ready" /\ reply' = None => ~heard
<1>1. IInv /\ [Next]_vars => [Silent]_vars
    <2> SUFFICES ASSUME IInv, [Next]_vars, pc = "waiting", pc' = "ready",
                        reply' = None
                 PROVE  ~heard
        OBVIOUS
    <2>1. CASE Expire  BY <2>1, ExpireKeeps
    <2>2. CASE Match
        <3>1. reply' \in Reports
            BY <2>2, TailOfStream DEF Match, Reads, Oldest, IInv, TypeOK
        <3>2. None \notin Reports  BY IdsAssumption DEF None, Reports, Ids
        <3> QED  BY <3>1, <3>2
    <2>3. CASE ~Expire /\ ~Match
        BY <2>3 DEF Next, vars, Repeat, Ack, Greeted, Skip, Close, Command,
            OpenHandle
    <2> QED  BY <2>1, <2>2, <2>3
<1> QED  BY <1>1, Inductive, PTL DEF Spec, SilenceIsUnheard

-----------------------------------------------------------------------------
(* Wire implements Exchange.                                                *)

\* What Exchange sees of the wire, and that it sees nothing else.
LEMMA SeenStays ==
    ASSUME UNCHANGED <<pc, asked, heard, reply>>
    PROVE  UNCHANGED Exchanges!vars
BY DEF Exchanges!vars, Connected

\* The steps of Exchange as Wire's variables show them.
LEMMA ConnectSeen ==
    ASSUME pc \in {"closed", "greeting"}, pc' = "ready",
           reply = None, UNCHANGED <<asked, heard, reply>>
    PROVE  Exchanges!Connect
BY DEF Exchanges!Connect, Connected, None

\* A handle given up, for whatever reason.
LEMMA LoseSeen ==
    ASSUME Connected, pc' = "closed"
    PROVE  Exchanges!Lose
BY DEF Exchanges!Lose, Exchanges!Over, Connected

\* Every step of a host that is never starved is a step of Exchange, or none.
LEMMA NextIsExchange ==
    ASSUME "starved" \notin Faults, IInv, [Next]_vars
    PROVE  [Exchanges!Next]_Exchanges!vars
<1>1. CASE UNCHANGED vars \/ Repeat \/ Skip
    BY <1>1, SeenStays DEF vars, Repeat, Skip, Drop
<1>2. CASE Ack
    <2>1. pc = "greeting" /\ UNCHANGED <<pc, reply>>  BY <1>2 DEF Ack
    <2>2. UNCHANGED Exchanges!vars  BY <2>1 DEF Exchanges!vars, Connected
    <2> QED  BY <2>2
<1>3. CASE Greeted
    <2>1. Exchanges!Connect
        BY <1>3, ConnectSeen DEF Greeted, Drop, IInv, Greeting
    <2> QED  BY <2>1 DEF Exchanges!Next
<1>4. CASE Match
    <2>1. /\ pc = "waiting" /\ pc' = "ready" /\ stream # <<>>
          /\ reply' = Head(stream) /\ Head(stream).id = msgid
          /\ UNCHANGED <<asked, heard>>
        BY <1>4 DEF Match, Reads, Oldest, Drop
    <2>2. /\ Head(stream) = stream[1] /\ 1 \in 1 .. Len(stream)
        BY <2>1, TailOfStream DEF IInv, TypeOK
    <2>3. heard  BY <2>1, <2>2 DEF IInv, TypeOK, Waiting
    <2>4. Head(stream).kind = asked  BY <2>1, <2>2, <2>3 DEF IInv, Reply
    <2>5. Exchanges!Acknowledge
        BY <2>1, <2>3, <2>4 DEF Exchanges!Acknowledge, Exchanges!Over, Connected
    <2> QED  BY <2>5 DEF Exchanges!Next
<1>5. CASE Expire
    <2>1. /\ pc = "waiting" /\ pc' = "ready" /\ ~heard
          /\ UNCHANGED <<asked, heard, reply>>
        BY <1>5, ExpireKeeps DEF Expire
    <2>2. asked # "none"  BY DEF IInv, TypeOK, Commands
    <2>3. Exchanges!Decline
        BY <2>1, <2>2 DEF Exchanges!Decline, Exchanges!Over, Connected
    <2> QED  BY <2>3 DEF Exchanges!Next
<1>6. CASE Close
    <2>1. pc' = "closed" /\ UNCHANGED <<asked, heard, reply>>
        BY <1>6 DEF Close
    <2>2. CASE Connected
        BY <2>1, <2>2, LoseSeen DEF Exchanges!Next
    <2>3. CASE ~Connected
        <3>1. UNCHANGED Exchanges!vars
            BY <2>1, <2>3 DEF Exchanges!vars, Connected
        <3> QED  BY <3>1
    <2> QED  BY <2>2, <2>3
<1>7. ASSUME NEW kind \in Commands, Command(kind)
      PROVE  [Exchanges!Next]_Exchanges!vars
    <2>1. /\ pc = "ready" /\ pc' = "waiting" /\ reply' = None
          /\ asked' = kind /\ heard' \in BOOLEAN
        BY <1>7 DEF Command, Send
    <2>2. Exchanges!Ask(kind)
        BY <2>1 DEF Exchanges!Ask, Connected, None
    <2> QED  BY <2>2 DEF Exchanges!Next
<1>8. ASSUME NEW i \in Ids, NEW kind \in Kinds,
             OpenHandle([id |-> i, kind |-> kind, now |-> FALSE])
      PROVE  [Exchanges!Next]_Exchanges!vars
    <2>1. pc = "closed" /\ pc' = "greeting"  BY <1>8 DEF OpenHandle
    <2>2. UNCHANGED Exchanges!vars  BY <2>1 DEF Exchanges!vars, Connected
    <2> QED  BY <2>2
<1> QED  BY <1>1, <1>2, <1>3, <1>4, <1>5, <1>6, <1>7, <1>8 DEF Next

\* On a host that gets to read, for any ids and any buffer, command() obeys the
\* abstract Exchange: what is sent is done once and answered for what it was, or
\* not done and declined (protocol.py:230-276).
THEOREM WireImplementsExchange ==
    ASSUME "starved" \notin Faults PROVE Spec => ExchangeSpec
<1>1. Init => Exchanges!Init  BY DEF Init, Exchanges!Init, Connected
<1>2. IInv /\ [Next]_vars => [Exchanges!Next]_Exchanges!vars
    BY NextIsExchange
<1> QED  BY <1>1, <1>2, Inductive, PTL DEF Spec, ExchangeSpec, Exchanges!Spec
=============================================================================
