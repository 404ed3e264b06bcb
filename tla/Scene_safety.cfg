\* Two players, two agents that may follow each other, two scenes with foods.
CONSTANTS
    Players = {p1, p2}
    Agents = {a1, a2}
    Scenes = {s1, s2}
    Tasks = {t1, t2}
    FoodMax = 0
    MaxFood = 2
    Nil = Nil
SPECIFICATION HSpec
SYMMETRY Symmetry
INVARIANTS
    TypeOK
    KnownBall
    ActsOnOwnBall
    Synced
    FoodCounted
    SoundBalls
    EntersGranted
