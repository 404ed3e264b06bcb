\* The claim of gateway/init.lua:88, in the composed system.
CHECK_DEADLOCK FALSE
CONSTANTS
    Players = {p1}
    Fds = {f1, f2}
    Agents = {a1, a2}
    Tasks = {t1, t2, t3}
    Logins = {l1, l2}
    Objs = {o1, o2}
    KickNum = 0
    MaxTimers = 1
    MaxStops = 1
    Prompt = TRUE
    TheGate = gate
    Nil = Nil
SPECIFICATION Spec
PROPERTIES
    OfflineLoginRefused
