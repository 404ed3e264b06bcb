\* Two logins that find no connection, or three requests, or two visits and
\* the daily job, on connections that break, or two reports of sensors.
CONSTANTS
    l1 = l1
    l2 = l2
    s1 = s1
    s2 = s2
    get = get
    recent = recent
    v1 = v1
    v2 = v2
    Requests = {l1, l2, s1, s2, get, recent, v1, v2}
    Kind <- Kinds
    Job = Job
    Boot = Boot
    MaxFd = 3
    Starts <- Small
    Nil = Nil
SPECIFICATION Spec
CHECK_DEADLOCK FALSE
INVARIANTS
    InStep
    AnswersMatch
    PathsShortest
PROPERTIES
    Answered
