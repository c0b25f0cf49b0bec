SPECIFICATION FairSpec
CONSTANTS
    Tab = {b1, b2}
    Task = {t1, t2, t3}
    None = None
    Duration = 5
    Timeout = 2
    Refresh = 2
    MaxVersion = 1
INVARIANTS
    ShowsOwnReviews
PROPERTIES
    LoadingEndsInTime
