SPECIFICATION FairSpec
CONSTANTS
    Caller = {c1, c2, c3}
    Sweeper = Sweeper
    Nobody = Nobody
    PoolSize = 2
INVARIANTS
    SerialUnlessAbandoned
    TransferAmongAbandoned
    OpenWhileWorking
PROPERTIES
    CallsReturn
    QuietAccountRecovers
