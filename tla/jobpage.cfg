(* The code's own numbers, in half seconds; the server answers within one.  *)
CONSTANTS
    LOAD = 1
    POLL = 2
    PROMPT_REFRESH = 2
    PLAIN_REFRESH = 4
    EJECT_FALLBACK = 4
    XHR_FALLBACK = 20
    XHR_COOKIE = 10
    TAKE_WINDOW = 10
    INSERT_WINDOW = 60

SPECIFICATION Spec

INVARIANTS
    TypeOK
    TakeIsSeen
    PageKeepsUp
    PollKeepsUp
    CookieLasts
