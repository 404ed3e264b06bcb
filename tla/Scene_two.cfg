\* Two enters of one client.
CONSTANTS
    Players = {p1}
    Agents = {a1, a2}
    Scenes = {s1, s2}
    Tasks = {t1, t2}
    FoodMax = 0
    MaxFood = 1
    Nil = Nil
SPECIFICATION HSpec
INVARIANT OneScene
