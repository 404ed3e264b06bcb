\* Three players, every failure possible.
CONSTANTS
    Players = {p1, p2, p3}
    Gates = {g1}
    Agents = {a1, a2, a3}
    Tasks = {t1, t2, t3, t4}
    KickNum = 1
    LaunchMayFail = TRUE
    NodeMayFail = TRUE
    Nil = Nil
SYMMETRY Symmetry
SPECIFICATION Spec
INVARIANTS
    EntriesMatch
    LocalsCurrent
    OneAgentPerPlayer
    GameIsServed
PROPERTIES
    StatusOrder
    NobodyStranded
    BatchSuffices
    LifecycleSpec
