------------------------------ MODULE JobPage ------------------------------
(***************************************************************************)
(* A page that watches a job (app.py:365-395, 532-540; job.html; enhance.  *)
(* js), with time: the meta refresh every browser obeys, the script some   *)
(* run, the cookie by which the server tells them apart, and the window in *)
(* which the job waits for a hand.  Durations are in ticks of any length.  *)
(***************************************************************************)
EXTENDS Naturals

CONSTANTS
    LOAD,             \* bound: a request is answered and shown within it
    POLL,             \* the script's pause between two polls
    PROMPT_REFRESH,   \* the refresh of a prompting page
    PLAIN_REFRESH,    \* and of any other, for a browser that does not poll
    EJECT_FALLBACK,   \* EJECT_FALLBACK_S
    XHR_FALLBACK,     \* XHR_FALLBACK_S
    XHR_COOKIE,       \* XHR_COOKIE_S
    TAKE_WINDOW,      \* TAKE_WINDOW_MS
    INSERT_WINDOW     \* INSERT_WINDOW_MS

ASSUME TimesAssumption ==
    /\ {LOAD, POLL, PROMPT_REFRESH, PLAIN_REFRESH, EJECT_FALLBACK,
        XHR_FALLBACK, XHR_COOKIE, TAKE_WINDOW, INSERT_WINDOW} \subseteq Nat \ {0}
    /\ PROMPT_REFRESH <= PLAIN_REFRESH
    /\ PLAIN_REFRESH <= EJECT_FALLBACK
    /\ EJECT_FALLBACK <= XHR_FALLBACK

VARIABLES
    kind,       \* the job's kind
    phase,      \* the job's phase
    age,        \* how long it has been in it, as far as anyone asks
    known,      \* the registry knows the job
    browser,    \* what the browser does with the script
    shown,      \* the phase the visible page was rendered with
    refresh,    \* until the visible page's refresh fires
    load,       \* the request for the page: none, asked, or coming back
    wait,       \* what is left of LOAD
    coming,     \* the phase of the page that is coming back
    every,      \* its refresh
    poll,       \* the script: off, in its pause, or waiting for a reply
    polltime,   \* until the pause is over, or the reply is in
    cookie,     \* until the cookie expires
    answered    \* history: a poll has been answered

jobVars == <<kind, phase, age, known>>
loadVars == <<load, wait, coming, every>>
pollVars == <<poll, polltime>>
vars == <<jobVars, browser, shown, refresh, loadVars, pollVars, cookie, answered>>

\* A reset moves, parks nothing and is done; an add and a return wait for a
\* disc.  The browsers: without the script, with a script whose polls may be
\* lost or stop for good, and with one that lives and is answered.
Kinds    == {"eject", "load", "reset"}
Browsers == {"plain", "flaky", "live"}
Phases   == {"moving", "awaiting_insert", "ingesting", "presented", "parking",
             "retracting", "done"}
Prompting == {"awaiting_insert", "presented"}
EjectWatched == {"moving", "presented"}

\* The order of the phases in each flow; any of them may fail.
EjectOrder == {<<"moving", "presented">>, <<"moving", "parking">>,
               <<"presented", "retracting">>, <<"presented", "parking">>}
LoadOrder  == {<<"moving", "awaiting_insert">>, <<"awaiting_insert", "ingesting">>,
               <<"awaiting_insert", "parking">>, <<"ingesting", "parking">>}
Follows(p, q) ==
    \/ p # "done" /\ q = "done"
    \/ kind = "eject" /\ <<p, q>> \in EjectOrder
    \/ kind = "load" /\ <<p, q>> \in LoadOrder

\* The longest a page can be behind the job, whatever its script does.
Behind == XHR_FALLBACK + 3 * LOAD
BehindEject == EJECT_FALLBACK + 3 * LOAD
BehindPoll == POLL + 2 * LOAD

\* "index" is the page of a job that is no longer known.
Pages == Phases \cup {"elsewhere", "index"}
Watching == shown \notin {"done", "index"}

MaxAge == IF INSERT_WINDOW > Behind THEN INSERT_WINDOW ELSE Behind + 1

\* No refresh, nor one on its way, is slower than the safety net.
TypeOK ==
    /\ kind \in Kinds /\ phase \in Phases /\ age \in Nat /\ known \in BOOLEAN
    /\ browser \in Browsers
    /\ shown \in Pages /\ refresh \in 0 .. XHR_FALLBACK
    /\ load \in {"none", "asked", "coming"} /\ wait \in 0 .. LOAD
    /\ coming \in Phases \cup {"index"} /\ every \in 0 .. XHR_FALLBACK
    /\ poll \in {"off", "pause", "sent"} /\ polltime \in Nat
    /\ cookie \in 0 .. XHR_COOKIE
    /\ answered \in BOOLEAN

\* The job has just been submitted, and the browser is on its way to its page,
\* with the cookie of another job, or without.
Init ==
    /\ kind \in Kinds /\ phase = "moving" /\ age = 0 /\ known = TRUE
    /\ browser \in Browsers
    /\ shown = "elsewhere" /\ refresh = 0
    /\ load = "asked" /\ wait = LOAD /\ coming = "moving" /\ every = 0
    /\ poll = "off" /\ polltime = 0
    /\ cookie \in {0, XHR_COOKIE}
    /\ answered = FALSE

-----------------------------------------------------------------------------
(* The job.                                                                 *)

SetPhase(p) ==
    /\ Follows(phase, p)
    /\ phase' = p
    /\ age' = 0
    /\ UNCHANGED <<kind, known, browser, shown, refresh, loadVars, pollVars,
                   cookie, answered>>

\* The registry drops it, or the process restarts.
Forget ==
    /\ known
    /\ known' = FALSE
    /\ UNCHANGED <<kind, phase, age, browser, shown, refresh, loadVars, pollVars,
                   cookie, answered>>

-----------------------------------------------------------------------------
(* The page.                                                                *)

\* job_page: the interval of the refresh.
\* Mutant: an eject gets the slow safety net as well.
IntervalSlow(k, p) ==
    IF cookie = 0 THEN IF p \in Prompting THEN PROMPT_REFRESH ELSE PLAIN_REFRESH
                  ELSE XHR_FALLBACK

\* Mutant: seconds taken for tenths of a second.
IntervalTenths(k, p) ==
    IF cookie = 0 THEN IF p \in Prompting THEN PROMPT_REFRESH ELSE PLAIN_REFRESH
    ELSE IF k = "eject" /\ p \in EjectWatched THEN EJECT_FALLBACK
                                              ELSE 10 * XHR_FALLBACK

Interval(k, p) ==
    IF cookie = 0 THEN IF p \in Prompting THEN PROMPT_REFRESH ELSE PLAIN_REFRESH
    ELSE IF k = "eject" /\ p \in EjectWatched THEN EJECT_FALLBACK
                                              ELSE XHR_FALLBACK

\* A navigation takes the place of one under way.
Ask ==
    /\ load' = "asked"
    /\ wait' = LOAD
    /\ UNCHANGED <<coming, every>>

\* The page is up, with its script, until the new one comes.
Refresh ==
    /\ Watching /\ load = "none" /\ refresh = 0
    /\ Ask
    /\ UNCHANGED <<jobVars, browser, shown, refresh, pollVars, cookie, answered>>

\* The server renders the page, or sends an unknown job's to the index.
Render ==
    /\ load = "asked"
    /\ load' = "coming"
    /\ coming' = IF known THEN phase ELSE "index"
    /\ every' = Interval(kind, phase)
    /\ UNCHANGED <<jobVars, browser, shown, refresh, wait, pollVars, cookie, answered>>

\* The refresh counts from the end of the load; the script, where it runs,
\* sends its first poll at once.
Show ==
    /\ load = "coming"
    /\ load' = "none"
    /\ shown' = coming
    /\ refresh' = every
    /\ \/ /\ browser # "plain" /\ coming \notin {"done", "index"}
          /\ poll' = "sent" /\ polltime' = LOAD
       \/ /\ browser # "live" \/ coming \in {"done", "index"}
          /\ poll' = "off" /\ polltime' = 0
    /\ UNCHANGED <<jobVars, browser, wait, coming, every, cookie, answered>>

-----------------------------------------------------------------------------
(* The script.                                                              *)

\* Mutant: the script only looks at whether the job is done.
MovedOnAtTheEnd == phase = "done"

MovedOn == phase # shown

Pause ==
    /\ poll' = "pause"
    /\ polltime' = POLL
    /\ UNCHANGED loadVars

\* window.location.href = url; return
Leave ==
    /\ poll' = "off"
    /\ polltime' = 0
    /\ Ask

\* Mutant: a cookie that is there is left as it is.
RenewedOnce == IF cookie = 0 THEN XHR_COOKIE ELSE cookie

Renewed == XHR_COOKIE

\* job_json answers, and the page is loaded again when the job has left the
\* phase it shows.
Answer ==
    /\ poll = "sent" /\ known
    /\ cookie' = Renewed
    /\ answered' = TRUE
    /\ IF MovedOn THEN Leave ELSE Pause
    /\ UNCHANGED <<jobVars, browser, shown, refresh>>

\* A 404: the page is loaded again, and becomes the index.
Unknown ==
    /\ poll = "sent" /\ ~known
    /\ Leave
    /\ UNCHANGED <<jobVars, browser, shown, refresh, cookie, answered>>

\* A reply is lost or comes as an error, and the script tries again.
Lost ==
    /\ poll = "sent" /\ browser = "flaky"
    /\ Pause
    /\ UNCHANGED <<jobVars, browser, shown, refresh, cookie, answered>>

Send ==
    /\ poll = "pause" /\ polltime = 0
    /\ poll' = "sent"
    /\ polltime' = LOAD
    /\ UNCHANGED <<jobVars, browser, shown, refresh, loadVars, cookie, answered>>

\* The script dies with the page still up.
ScriptDies ==
    /\ poll # "off" /\ browser = "flaky"
    /\ poll' = "off"
    /\ polltime' = 0
    /\ UNCHANGED <<jobVars, browser, shown, refresh, loadVars, cookie, answered>>

-----------------------------------------------------------------------------
(* Time.                                                                    *)

Less(t) == IF t = 0 THEN 0 ELSE t - 1

\* The job leaves a prompt when its window is over, a page is shown within
\* LOAD, a refresh fires when it is due, and so does a script that lives.
Due ==
    \/ phase = "presented" /\ age >= TAKE_WINDOW
    \/ phase = "awaiting_insert" /\ age >= INSERT_WINDOW
    \/ load # "none" /\ wait = 0
    \/ load = "none" /\ Watching /\ refresh = 0
    \/ browser = "live" /\ poll # "off" /\ polltime = 0

Tick ==
    /\ ~Due
    /\ age' = IF age < MaxAge THEN age + 1 ELSE age
    /\ wait' = Less(wait)
    /\ refresh' = Less(refresh)
    /\ polltime' = Less(polltime)
    /\ cookie' = Less(cookie)
    /\ UNCHANGED <<kind, phase, known, browser, shown, load, coming, every, poll,
                   answered>>

Next ==
    \/ \E p \in Phases : SetPhase(p)
    \/ Forget
    \/ Refresh \/ Render \/ Show
    \/ Answer \/ Unknown \/ Lost \/ Send \/ ScriptDies
    \/ Tick

Spec == Init /\ [][Next]_vars

-----------------------------------------------------------------------------
(* Properties.                                                              *)

\* A disc that has been in the bay for BehindEject is on the page that watches
\* the job, whatever has become of the script (app.py:370-374): with the code's
\* numbers that is a second or more before the window closes.
TakeIsSeen ==
    known /\ phase = "presented" /\ age > BehindEject => shown = "presented"

\* Nor is any other phase longer than Behind in getting there: the prompt to
\* insert has its window left, and the end of the job is seen.
PageKeepsUp == known /\ age > Behind => shown = phase

\* A script that lives and is answered makes the page keep up with the job as
\* the fast refresh would, though the refresh is slow (enhance.js:30-41).
PollKeepsUp == known /\ browser = "live" /\ age > BehindPoll => shown = phase

\* The cookie of a script that lives outlasts the gap to its next poll, a page
\* load in between included, so the fast refresh never comes back
\* (app.py:377-379).
CookieLasts == known /\ browser = "live" /\ answered /\ Watching => cookie > 0
=============================================================================
