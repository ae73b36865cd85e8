\* Reads while scheduler->stop() takes for ever.
SPECIFICATION SlowStopSpec
CONSTANTS
    i1 = i1
    t1 = t1  t2 = t2
    r1 = r1  r2 = r2
    p1 = p1  p2 = p2
    http = http  ws = ws
    Id = {i1}  NoId = NoId
    Thread = {t1, t2}  NoThread = NoThread
    Res = {r1, r2}  NoRes = NoRes
    Port = {p1}  NoPort = NoPort
    Stream = {http, ws}  NoStream = NoStream
    HttpStream = {http}
    MaxTries = 2
CONSTANT Serves <- ServesPair
CONSTANT Handles <- HandlesPair
CONSTANT StreamsOf <- OneStream
CONSTANT Faults <- NoFaults
PROPERTY
    ReadsDoNotWait
