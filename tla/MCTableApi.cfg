\* Three requests, so that one is shut out when two are stuck on two connections.
CONSTANTS
    q1 = q1
    q2 = q2
    q3 = q3
    Request <- MCRequest
    MayAsk <- MCMayAsk
    Key = {k1}
    Batch = 2
    Conns = 2
    Seed = seed
    None = none
SPECIFICATION FairSpec
INVARIANTS TypeOK SuccessIsOnRecord TrailIsTrue
PROPERTIES AnsweredUnlessStuck
