\* One player on two sockets, with waits that may end at any moment.
CHECK_DEADLOCK FALSE
CONSTANTS
    Players = {p1}
    Fds = {f1, f2}
    Agents = {a1, a2}
    Tasks = {t1, t2}
    Logins = {l1, l2}
    Objs = {o1, o2}
    KickNum = 0
    MaxTimers = 1
    MaxStops = 0
    Prompt = FALSE
    TheGate = gate
    Nil = Nil
SPECIFICATION FairSpec
PROPERTIES
    LoginsEnd
