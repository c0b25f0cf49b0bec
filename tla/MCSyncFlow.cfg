SPECIFICATION FairSpec
CONSTANTS
    Task = {t1, t2}
    Req = {r1, r2}
    Key = {k1, k2}
    NoKey = NoKey
    Endpoint = {e1}
    NoEndpoint = NoEndpoint
    NoTask = NoTask
INVARIANTS
    TypeOK
    SingleFlight
    ConflictIsExclusive
    EndpointCarried
    UnitMatchesPhase
PROPERTIES
    JobEnds
    JobSpec
