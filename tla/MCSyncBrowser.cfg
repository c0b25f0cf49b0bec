\* The server stops when nobody clicks.
CHECK_DEADLOCK FALSE
SPECIFICATION FairBrowserSpec
CONSTANTS
    Tab = {t1, t2}
    MaxClicks = 3
INVARIANTS
    ConfirmedAsShown
PROPERTIES
    WaitEnds
    RedirectsEnd
    ConflictGetsAnswered
