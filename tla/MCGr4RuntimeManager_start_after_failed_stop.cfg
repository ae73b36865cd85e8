\* A start after a stop that failed.
SPECIFICATION Spec
CONSTANTS
    i1 = i1  i2 = i2
    t1 = t1  t2 = t2  t3 = t3
    r1 = r1  r2 = r2  r3 = r3  r4 = r4
    p1 = p1  p2 = p2  p3 = p3
    http = http  ws = ws
    Id = {i1, i2}  NoId = NoId
    Thread = {t1, t2}  NoThread = NoThread
    Res = {r1, r2, r3}  NoRes = NoRes
    Port = {p1, p2, p3}  NoPort = NoPort
    Stream = {http, ws}  NoStream = NoStream
    HttpStream = {http}
    Gated = TRUE
CONSTANT StreamsOf <- Streams
CONSTANT Calls <- AllCalls
CONSTANT Faults <- StopFault
SYMMETRY Symmetry
PROPERTY
    NoReuseAfterFailedStop
