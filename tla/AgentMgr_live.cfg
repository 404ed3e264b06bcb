\* Two players, no failure, with the fairness of the scheduler.
CONSTANTS
    Players = {p1, p2}
    Gates = {g1}
    Agents = {a1, a2, a3}
    Tasks = {t1, t2, t3}
    KickNum = 1
    LaunchMayFail = FALSE
    NodeMayFail = FALSE
    Nil = Nil
SPECIFICATION FairSpec
PROPERTIES
    EntriesProgress
    ShutdownEnds
