\* One player on three sockets, with waits that may end at any moment, and
\* one shutdown of the players or of the gateway.
CHECK_DEADLOCK FALSE
CONSTANTS
    Players = {p1}
    Fds = {f1, f2, f3}
    Agents = {a1, a2}
    Tasks = {t1, t2}
    Logins = {l1, l2}
    Objs = {o1, o2}
    KickNum = 0
    MaxTimers = 1
    MaxStops = 1
    Prompt = FALSE
    TheGate = gate
    Nil = Nil
SYMMETRY Symmetry
SPECIFICATION Spec
INVARIANTS
    TypeOK
    OfflineIsTimed
PROPERTIES
    SessionsStayBacked
    AgentsStayHeld
