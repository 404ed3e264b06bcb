\* Two worker threads and the socket thread, up to three services and three
\* messages.
CONSTANTS
    a = a
    b = b
    c = c
    w1 = w1
    w2 = w2
    Services = {a, b, c}
    Starts <- Small
    Workers = {w1, w2}
    Others = {socket}
    Share <- Shares
    Nil = Nil
SPECIFICATION Spec
CHECK_DEADLOCK FALSE
INVARIANTS
    InOnePlace
    NothingForgotten
    RefCounted
    NoUseAfterFree
PROPERTIES
    Promise
    Delivered
    Stops
