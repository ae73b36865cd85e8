\* One connection, one thread that calls stop().
SPECIFICATION Spec
CONSTANTS
    c1 = c1  c2 = c2
    s1 = s1  s2 = s2
    main = main
    Conn = {c1}
    Caller = {s1}
    Listener = main
CHECK_DEADLOCK FALSE
INVARIANT
    NoJoinThrows
