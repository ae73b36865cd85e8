\* One session with two streams, every fault that loses no port; one thread changes
\* the session and another is asked for everything.
SPECIFICATION Spec
CONSTANTS
    i1 = i1
    t1 = t1  t2 = t2
    r1 = r1  r2 = r2
    p1 = p1  p2 = p2
    http = http  ws = ws
    Id = {i1}  NoId = NoId
    Thread = {t1, t2}  NoThread = NoThread
    Res = {r1, r2}  NoRes = NoRes
    Port = {p1, p2}  NoPort = NoPort
    Stream = {http, ws}  NoStream = NoStream
    HttpStream = {http}
    MaxTries = 2
CONSTANT Serves <- ServesPair
CONSTANT Handles <- HandlesPair
CONSTANT StreamsOf <- Streams
CONSTANT Faults <- NoPortFaults
INVARIANTS
    RuntimeMatchesState
    NoOrphanExecution
    AdvertisedComplete
    QuiescentHoldsNoPorts
PROPERTIES
    ImplementsService
    UsesRuntimeInTurn
    EveryRequestEnds
