\* Two connections, two threads that call stop().
SPECIFICATION Spec
CONSTANTS
    c1 = c1  c2 = c2
    s1 = s1  s2 = s2
    main = main
    Conn = {c1, c2}
    Caller = {s1, s2}
    Listener = main
CHECK_DEADLOCK FALSE
INVARIANTS
    OneJoiner
    NothingLeftBehind
PROPERTY
    StopEnds
