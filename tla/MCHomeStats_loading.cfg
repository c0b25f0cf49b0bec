SPECIFICATION FairSpec
CONSTANTS
    Tab = {b1}
    Task = {t1, t2}
    None = None
    Duration = 3
    Timeout = 2
    Refresh = 2
    MaxVersion = 1
PROPERTIES
    LoadingEnds
