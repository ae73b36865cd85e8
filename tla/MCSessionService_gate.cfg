\* Two sessions, two threads asked for everything and a third for start and remove.
SPECIFICATION Spec
CONSTANTS
    i1 = i1  i2 = i2
    t1 = t1  t2 = t2  t3 = t3
    Id = {i1, i2}
    NoId = NoId
    Thread = {t1, t2, t3}
    MaxTries = 2
CONSTANT Serves <- ServesMixed

INVARIANTS
    OneClaimPerSession
    ClaimStaysValid
    NoAbandonedClaim
    RestingPhaseAgrees
    ErrorIsExplained
PROPERTIES
    AdmittedKeepsSession
    EveryRequestAnswered
    ImplementsLifecycle
