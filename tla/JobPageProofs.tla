--------------------------- MODULE JobPageProofs ---------------------------
(***************************************************************************)
(* How far a page may be behind its job, for any durations.                *)
(***************************************************************************)
EXTENDS JobPage, TLAPS

\* The durations, one by one.
LEMMA Times ==
    /\ LOAD \in Nat /\ LOAD > 0
    /\ POLL \in Nat /\ POLL > 0
    /\ PROMPT_REFRESH \in Nat /\ PROMPT_REFRESH > 0
    /\ PLAIN_REFRESH \in Nat /\ PROMPT_REFRESH <= PLAIN_REFRESH
    /\ EJECT_FALLBACK \in Nat /\ PLAIN_REFRESH <= EJECT_FALLBACK
    /\ XHR_FALLBACK \in Nat /\ EJECT_FALLBACK <= XHR_FALLBACK
    /\ XHR_COOKIE \in Nat /\ XHR_COOKIE > 0
    /\ TAKE_WINDOW \in Nat /\ TAKE_WINDOW > 0
    /\ INSERT_WINDOW \in Nat /\ INSERT_WINDOW > 0
  BY TimesAssumption

USE Times

(***************************************************************************)
(* What a page shows is what the job was: a page that shows the end is at  *)
(* rest, and one that was rendered before a disc was presented shows the   *)
(* move before it.                                                         *)
(***************************************************************************)
EndShape ==
    /\ shown = "done" => phase = "done" /\ load = "none" /\ poll = "off"
    /\ shown = "index" => ~known /\ load = "none" /\ poll = "off"
    /\ shown = "elsewhere" => load # "none" /\ poll = "off"
    /\ load = "coming" /\ coming = "done" => phase = "done"
    /\ load = "coming" /\ coming = "index" => ~known

OrderShape ==
    /\ phase = "moving" =>
         /\ shown \in {"elsewhere", "moving", "index"}
         /\ load = "coming" => coming \in {"moving", "index"}
    /\ phase = "presented" =>
         /\ kind = "eject"
         /\ shown \in {"elsewhere", "moving", "presented", "index"}
         /\ load = "coming" => coming \in {"moving", "presented", "index"}

RefreshShape ==
    /\ load = "coming" => every >= PROMPT_REFRESH
    /\ kind = "eject" =>
         /\ shown = "moving" => refresh <= EJECT_FALLBACK
         /\ load = "coming" /\ coming = "moving" => every <= EJECT_FALLBACK

(***************************************************************************)
(* The longest refresh a page of an earlier phase may carry, and what is   *)
(* left to a page that is behind: its refresh, a load that was rendered    *)
(* before the phase changed, and the loads that follow, of which a poll    *)
(* that is answered meanwhile may begin one anew.                          *)
(***************************************************************************)
Slowest == IF phase = "presented" THEN EJECT_FALLBACK ELSE XHR_FALLBACK

Lag ==
    /\ known /\ load = "coming" /\ coming # phase => age + wait <= LOAD
    /\ known /\ shown # phase =>
         /\ load = "none" => age + refresh <= Slowest + LOAD
         /\ load = "asked" \/ (load = "coming" /\ coming = phase) =>
              \/ age + wait <= Slowest + 2 * LOAD
              \/ poll = "off" /\ age + wait <= Slowest + 3 * LOAD

IInv == TypeOK /\ EndShape /\ OrderShape /\ RefreshShape /\ Lag

-----------------------------------------------------------------------------

\* The interval of a page is never longer than the slow safety net, nor than
\* the eject's own while the carousel fetches a disc.
LEMMA IntervalBounds ==
    ASSUME NEW k \in Kinds, NEW p \in Phases
    PROVE  /\ Interval(k, p) \in Nat
           /\ Interval(k, p) <= XHR_FALLBACK
           /\ Interval(k, p) >= PROMPT_REFRESH
           /\ k = "eject" /\ p = "moving" => Interval(k, p) <= EJECT_FALLBACK
  BY DEF Interval, Prompting, EjectWatched

\* Initially the page is on its way.
LEMMA InitIInv == Init => IInv
<1> SUFFICES ASSUME Init PROVE IInv
  OBVIOUS
<1> USE DEF Init
<1>1. TypeOK
  <2>1. /\ cookie \in 0 .. XHR_COOKIE /\ wait \in 0 .. LOAD /\ LOAD \in Nat
        /\ refresh \in 0 .. XHR_FALLBACK /\ every \in 0 .. XHR_FALLBACK
    OBVIOUS
  <2>2. phase \in Phases /\ coming \in Phases /\ shown \in Pages
    BY DEF Phases, Pages
  <2> QED
    BY <2>1, <2>2 DEF TypeOK
<1>2. EndShape /\ OrderShape /\ RefreshShape
  BY DEF EndShape, OrderShape, RefreshShape
<1>3. Lag
  BY DEF Lag, Slowest
<1> QED
  BY <1>1, <1>2, <1>3 DEF IInv

\* Every step keeps the types.
LEMMA TypeStep == TypeOK /\ [Next]_vars => TypeOK'
<1> SUFFICES ASSUME TypeOK, [Next]_vars PROVE TypeOK'
  OBVIOUS
<1> USE DEF TypeOK, Pages, loadVars, pollVars, jobVars
<1>1. CASE \E p \in Phases : SetPhase(p)
  BY <1>1 DEF SetPhase
<1>2. CASE Forget
  BY <1>2 DEF Forget
<1>3. CASE Refresh
  BY <1>3 DEF Refresh, Ask
<1>4. CASE Render
  BY <1>4, IntervalBounds DEF Render
<1>5. CASE Show
  BY <1>5 DEF Show
<1>6. CASE Answer
  BY <1>6 DEF Answer, Leave, Pause, Ask, Renewed
<1>7. CASE Unknown
  BY <1>7 DEF Unknown, Leave, Ask
<1>8. CASE Lost
  BY <1>8 DEF Lost, Pause
<1>9. CASE Send
  BY <1>9 DEF Send
<1>10. CASE ScriptDies
  BY <1>10 DEF ScriptDies
<1>11. CASE Tick
  BY <1>11 DEF Tick, Less
<1>12. CASE UNCHANGED vars
  BY <1>12 DEF vars
<1> QED
  BY <1>1, <1>2, <1>3, <1>4, <1>5, <1>6, <1>7, <1>8, <1>9, <1>10, <1>11, <1>12
     DEF Next

\* Every step keeps the shapes of what is shown and of what is coming.
LEMMA ShapeStep ==
    IInv /\ [Next]_vars => EndShape' /\ OrderShape' /\ RefreshShape'
<1> SUFFICES ASSUME IInv, [Next]_vars
             PROVE  EndShape' /\ OrderShape' /\ RefreshShape'
  OBVIOUS
<1> USE DEF IInv, TypeOK, Pages, loadVars, pollVars, jobVars, EndShape,
            OrderShape, RefreshShape
<1>1. CASE \E p \in Phases : SetPhase(p)
  BY <1>1 DEF SetPhase, Follows, EjectOrder, LoadOrder
<1>2. CASE Forget
  BY <1>2 DEF Forget
<1>3. CASE Refresh
  BY <1>3 DEF Refresh, Ask, Watching
<1>4. CASE Render
  <2>1. every' \in Nat /\ every' <= XHR_FALLBACK /\ every' >= PROMPT_REFRESH
    BY <1>4, IntervalBounds DEF Render
  <2>2. kind = "eject" /\ phase = "moving" => every' <= EJECT_FALLBACK
    BY <1>4, IntervalBounds DEF Render
  <2> QED
    BY <1>4, <2>1, <2>2 DEF Render, Phases
<1>5. CASE Show
  BY <1>5 DEF Show, Phases
<1>6. CASE Answer
  BY <1>6 DEF Answer, Leave, Pause, Ask
<1>7. CASE Unknown
  BY <1>7 DEF Unknown, Leave, Ask
<1>8. CASE Lost
  BY <1>8 DEF Lost, Pause
<1>9. CASE Send
  BY <1>9 DEF Send
<1>10. CASE ScriptDies
  BY <1>10 DEF ScriptDies
<1>11. CASE Tick
  BY <1>11 DEF Tick, Less
<1>12. CASE UNCHANGED vars
  BY <1>12 DEF vars
<1> QED
  BY <1>1, <1>2, <1>3, <1>4, <1>5, <1>6, <1>7, <1>8, <1>9, <1>10, <1>11, <1>12
     DEF Next

\* Every step keeps a page that is behind within what is left to it.
LEMMA LagStep == IInv /\ [Next]_vars => Lag'
<1> SUFFICES ASSUME IInv, [Next]_vars, TypeOK' PROVE Lag'
  BY TypeStep DEF IInv
<1> USE DEF IInv, TypeOK, loadVars, pollVars, jobVars, Lag, Slowest
<1>1. CASE \E p \in Phases : SetPhase(p)
  BY <1>1 DEF SetPhase, Follows, EjectOrder, LoadOrder, EndShape, OrderShape,
              RefreshShape
<1>2. CASE Forget
  BY <1>2 DEF Forget
<1>3. CASE Refresh
  BY <1>3 DEF Refresh, Ask
<1>4. CASE Render
  BY <1>4 DEF Render
<1>5. CASE Show
  <2>1. CASE coming # phase /\ known
    <3>1. age + wait <= LOAD /\ every <= XHR_FALLBACK
      BY <1>5, <2>1 DEF Show, RefreshShape
    <3>2. phase = "presented" => every <= EJECT_FALLBACK
      BY <1>5, <2>1 DEF Show, OrderShape, RefreshShape, EndShape
    <3> QED
      BY <1>5, <2>1, <3>1, <3>2 DEF Show
  <2>2. CASE ~(coming # phase /\ known)
    BY <1>5, <2>2 DEF Show
  <2> QED
    BY <2>1, <2>2
<1>6. CASE Answer
  <2>1. CASE MovedOn
    BY <1>6, <2>1 DEF Answer, Leave, Ask
  <2>2. CASE ~MovedOn
    BY <1>6, <2>2 DEF Answer, Pause, MovedOn
  <2> QED
    BY <2>1, <2>2
<1>7. CASE Unknown
  BY <1>7 DEF Unknown
<1>8. CASE Lost
  BY <1>8 DEF Lost, Pause
<1>9. CASE Send
  BY <1>9 DEF Send
<1>10. CASE ScriptDies
  BY <1>10 DEF ScriptDies
<1>11. CASE Tick
  BY <1>11 DEF Tick, Less, Due, Watching, EndShape
<1>12. CASE UNCHANGED vars
  BY <1>12 DEF vars
<1> QED
  BY <1>1, <1>2, <1>3, <1>4, <1>5, <1>6, <1>7, <1>8, <1>9, <1>10, <1>11, <1>12
     DEF Next

\* IInv is an invariant.
LEMMA Invariant == Spec => []IInv
<1>1. IInv /\ [Next]_vars => IInv'
  BY TypeStep, ShapeStep, LagStep DEF IInv
<1> QED
  BY InitIInv, <1>1, PTL DEF Spec

\* Every state of the page is well typed, for any durations.
THEOREM TypeCorrect == Spec => []TypeOK
<1>1. IInv => TypeOK
  BY DEF IInv
<1> QED
  BY Invariant, <1>1, PTL

\* A disc presented for longer than BehindEject is on the page that watches,
\* whatever has become of the script.
THEOREM TakePromptIsSeen == Spec => []TakeIsSeen
<1>1. IInv => TakeIsSeen
  BY DEF IInv, TypeOK, Lag, Slowest, TakeIsSeen, BehindEject
<1> QED
  BY Invariant, <1>1, PTL

\* No page is ever further behind its job than a slow refresh and three loads.
THEOREM PageNeverFarBehind == Spec => []PageKeepsUp
<1>1. IInv => PageKeepsUp
  BY DEF IInv, TypeOK, Lag, Slowest, PageKeepsUp, Behind
<1> QED
  BY Invariant, <1>1, PTL

-----------------------------------------------------------------------------
(***************************************************************************)
(* A script that lives is on every page that watches, and a phase that     *)
(* ends in its pause, or while it waits for a reply, is noticed at the     *)
(* next one.                                                               *)
(***************************************************************************)
Noticed ==
    browser = "live" =>
        /\ load = "none" /\ Watching => poll # "off"
        /\ known /\ shown # phase =>
             /\ poll = "pause" => age + polltime <= POLL
             /\ poll = "sent" => age + polltime <= POLL + LOAD
             /\ poll = "off" => age + wait <= POLL + 2 * LOAD \/ load = "none"

PollShape ==
    /\ poll = "pause" => polltime <= POLL
    /\ poll = "sent" => polltime <= LOAD
    /\ Noticed

\* Sums of what is bounded are bounded by the sum.
LEMMA SumBound ==
    ASSUME NEW x \in Nat, NEW y \in Nat, NEW l \in Nat, NEW p \in Nat,
           x <= l, y = l, l <= p
    PROVE  x + y <= p + l
  OBVIOUS

\* A page just shown has sent a poll, and is behind its job by a load at most.
LEMMA ShownNotices ==
    ASSUME LOAD <= POLL, TypeOK',
           poll' = "sent", polltime' = LOAD, load' = "none",
           known' /\ shown' # phase' => age' <= LOAD
    PROVE  PollShape'
<1>a. /\ LOAD \in Nat /\ POLL \in Nat
      /\ age' \in Nat /\ polltime' \in Nat /\ known' \in BOOLEAN
  BY TimesAssumption DEF TypeOK
<1>1. ASSUME known' = TRUE, shown' # phase' PROVE age' + polltime' <= POLL + LOAD
  <2>1. age' <= LOAD
    BY <1>1
  <2> QED
    BY <1>a, <2>1, SumBound
<1>2. poll' # "off" /\ poll' # "pause"
  OBVIOUS
<1>3. Noticed'
  BY <1>a, <1>1, <1>2 DEF Noticed
<1> QED
  BY <1>2, <1>3 DEF PollShape

\* A page without a living script owes nobody a notice.
LEMMA OthersNotice ==
    ASSUME TypeOK', browser' # "live", poll' # "pause",
           poll' = "sent" => polltime' = LOAD
    PROVE  PollShape'
<1> LOAD \in Nat
  BY TimesAssumption
<1>1. Noticed'
  BY DEF Noticed
<1> QED
  BY <1>1 DEF PollShape

\* Every step keeps what a living script has noticed, when a load takes no
\* longer than the pause between two polls.
LEMMA PollStep ==
    ASSUME LOAD <= POLL, IInv, PollShape, [Next]_vars PROVE PollShape'
<1> TypeOK'
  BY TypeStep DEF IInv
<1> USE DEF IInv, TypeOK, loadVars, pollVars, jobVars, PollShape, Noticed,
            Watching, EndShape, Lag
<1>1. CASE \E p \in Phases : SetPhase(p)
  BY <1>1 DEF SetPhase
<1>2. CASE Forget
  BY <1>2 DEF Forget
<1>3. CASE Refresh
  BY <1>3 DEF Refresh, Ask
<1>4. CASE Render
  BY <1>4 DEF Render
<1>5. CASE Show
  <2>1. CASE coming \in {"done", "index"}
    BY <1>5, <2>1 DEF Show
  <2>2. CASE coming \notin {"done", "index"}
    <3>1. CASE browser = "live"
      <4>1. poll' = "sent" /\ polltime' = LOAD /\ load' = "none"
        BY <1>5, <2>2, <3>1 DEF Show
      <4>2. known' /\ shown' # phase' => age' <= LOAD
        BY <1>5, <2>2 DEF Show
      <4> HIDE DEF IInv, TypeOK, loadVars, pollVars, jobVars, PollShape, Noticed,
                   Watching, EndShape, Lag
      <4> QED
        BY <4>1, <4>2, ShownNotices
    <3>2. CASE browser # "live"
      <4>1. browser' # "live" /\ (poll' = "sent" => polltime' = LOAD)
             /\ poll' # "pause"
        BY <1>5, <3>2 DEF Show
      <4> HIDE DEF IInv, TypeOK, loadVars, pollVars, jobVars, PollShape, Noticed,
                   Watching, EndShape, Lag
      <4> QED
        BY <4>1, OthersNotice
    <3> QED
      BY <3>1, <3>2
  <2> QED
    BY <2>1, <2>2
<1>6. CASE Answer
  <2>1. CASE MovedOn
    BY <1>6, <2>1 DEF Answer, MovedOn, Leave, Ask, Renewed
  <2>2. CASE ~MovedOn
    BY <1>6, <2>2 DEF Answer, MovedOn, Pause, Renewed
  <2> QED
    BY <2>1, <2>2
<1>7. CASE Unknown
  BY <1>7 DEF Unknown, Leave, Ask
<1>8. CASE Lost
  BY <1>8 DEF Lost, Pause
<1>9. CASE Send
  BY <1>9 DEF Send
<1>10. CASE ScriptDies
  BY <1>10 DEF ScriptDies
<1>11. CASE Tick
  BY <1>11 DEF Tick, Less, Due
<1>12. CASE UNCHANGED vars
  BY <1>12 DEF vars
<1> QED
  BY <1>1, <1>2, <1>3, <1>4, <1>5, <1>6, <1>7, <1>8, <1>9, <1>10, <1>11, <1>12
     DEF Next

\* A page with a script that lives is behind its job for no longer than a pause
\* and two loads, when a load takes no longer than the pause.
THEOREM PollingKeepsUp ==
    ASSUME LOAD <= POLL PROVE Spec => []PollKeepsUp
<1>1. Init => IInv /\ PollShape
  BY InitIInv DEF Init, PollShape, Noticed
<1>2. (IInv /\ PollShape) /\ [Next]_vars => (IInv /\ PollShape)'
  BY PollStep, TypeStep, ShapeStep, LagStep DEF IInv
<1>3. IInv /\ PollShape => PollKeepsUp
  BY DEF IInv, TypeOK, EndShape, PollShape, Noticed, PollKeepsUp, BehindPoll,
         Watching
<1> QED
  BY <1>1, <1>2, <1>3, PTL DEF Spec

(***************************************************************************)
(* What is left of the cookie covers the rest of the pause, or of the      *)
(* load, and the reply after it.  A poll sent by a page as it is shown is  *)
(* answered before that page's refresh is due.                             *)
(***************************************************************************)
Covered ==
    known /\ browser = "live" /\ answered =>
        /\ poll = "pause" => cookie > polltime + 3 * LOAD
        /\ poll = "sent" =>
             \/ cookie > polltime + 2 * LOAD
             \/ load = "none" /\ cookie > polltime /\ refresh > polltime
        /\ load # "none" => cookie > wait + LOAD

\* Every step keeps the cookie alive for as long as the script may need.
LEMMA CookieStep ==
    ASSUME LOAD < PROMPT_REFRESH, XHR_COOKIE > POLL + 3 * LOAD,
           IInv, PollShape, Covered, [Next]_vars
    PROVE  Covered'
<1> TypeOK'
  BY TypeStep DEF IInv
<1> USE DEF IInv, TypeOK, loadVars, pollVars, jobVars, PollShape, Noticed,
            Watching, EndShape, RefreshShape, Covered
<1>1. CASE \E p \in Phases : SetPhase(p)
  BY <1>1 DEF SetPhase
<1>2. CASE Forget
  BY <1>2 DEF Forget
<1>3. CASE Refresh
  BY <1>3 DEF Refresh, Ask
<1>4. CASE Render
  BY <1>4 DEF Render
<1>5. CASE Show
  <2>1. CASE coming \in {"done", "index"}
    BY <1>5, <2>1 DEF Show
  <2>2. CASE coming \notin {"done", "index"}
    <3>1. CASE browser = "live" /\ known /\ answered
      <4>1. poll' = "sent" /\ polltime' = LOAD /\ load' = "none"
        BY <1>5, <2>2, <3>1 DEF Show
      <4>2. cookie' > LOAD /\ refresh' > LOAD
        BY <1>5, <2>2, <3>1 DEF Show
      <4> QED
        BY <4>1, <4>2
    <3>2. CASE ~(browser = "live" /\ known /\ answered)
      BY <1>5, <3>2 DEF Show
    <3> QED
      BY <3>1, <3>2
  <2> QED
    BY <2>1, <2>2
<1>6. CASE Answer
  <2>1. CASE MovedOn
    BY <1>6, <2>1 DEF Answer, MovedOn, Leave, Ask, Renewed
  <2>2. CASE ~MovedOn
    BY <1>6, <2>2 DEF Answer, MovedOn, Pause, Renewed
  <2> QED
    BY <2>1, <2>2
<1>7. CASE Unknown
  BY <1>7 DEF Unknown, Leave, Ask
<1>8. CASE Lost
  BY <1>8 DEF Lost, Pause
<1>9. CASE Send
  BY <1>9 DEF Send
<1>10. CASE ScriptDies
  BY <1>10 DEF ScriptDies
<1>11. CASE Tick
  BY <1>11 DEF Tick, Less, Due
<1>12. CASE UNCHANGED vars
  BY <1>12 DEF vars
<1> QED
  BY <1>1, <1>2, <1>3, <1>4, <1>5, <1>6, <1>7, <1>8, <1>9, <1>10, <1>11, <1>12
     DEF Next

\* The cookie of a script that lives never expires, when it is made to last for
\* more than a pause and three loads and no refresh is as short as a load.
THEOREM CookieOutlastsPolls ==
    ASSUME LOAD <= POLL, LOAD < PROMPT_REFRESH, XHR_COOKIE > POLL + 3 * LOAD
    PROVE  Spec => []CookieLasts
<1>1. Init => IInv /\ PollShape /\ Covered
  BY InitIInv DEF Init, PollShape, Noticed, Covered
<1>2. (IInv /\ PollShape /\ Covered) /\ [Next]_vars
        => (IInv /\ PollShape /\ Covered)'
  BY PollStep, CookieStep, TypeStep, ShapeStep, LagStep DEF IInv
<1>3. IInv /\ PollShape /\ Covered => CookieLasts
  BY DEF IInv, TypeOK, EndShape, PollShape, Noticed, Covered, CookieLasts
<1> QED
  BY <1>1, <1>2, <1>3, PTL DEF Spec
=============================================================================
