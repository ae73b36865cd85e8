\* Two requests at a time to one block, by its label, by its name or to nobody, and the
\* number 3 does not fit when Half = 2.
SPECIFICATION Spec
CONSTANTS
    t1 = t1  t2 = t2
    q1 = q1  q2 = q2 
    Thread = {t1, t2}  NoThread = NoThread
    RequestId = {q1, q2}  NoId = NoId
    Target = {"gain", "left", "nobody"}
    Posted = {3}
    Half = 2
CONSTANT Blocks <- OneBlock
INVARIANTS
    TypeOK
    ExchangeKeepsExecution
    AnswersAreTrue
PROPERTY
    SettingsRequestsEnd
