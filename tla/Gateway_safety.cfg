\* One player who may come back on three more sockets, with sessions replaced
\* while their timers run.
CONSTANTS
    Fds = {f1, f2, f3, f4}
    Players = {p1}
    Agents = {a1}
    Objs = {o1, o2}
    CacheMax = 1
    MaxSend = 2
    MaxTimers = 2
    Unpackable = {2}
    Nil = Nil
SYMMETRY Symmetry
SPECIFICATION Spec
INVARIANTS
    
    CacheOnlyOffline
PROPERTIES
    LossOnlyOnDeadSocket
    NobodyForgotten
