------------------------------- MODULE AStar --------------------------------
(***************************************************************************)
(* Path finding on the map of the parking lot: AStar (lualib/astar.lua)    *)
(* with ParkingLotHandler (lualib/parkinglothandler.lua) as map handler.   *)
(*                                                                         *)
(* A map is a sequence of rows of tiles, a location a record of x and y.   *)
(* A node carries the locations on its way from the start instead of its   *)
(* parent.  _getBestOpenNode picks among equal scores in the order of      *)
(* pairs(), which may be any: findPath has a set of results.               *)
(***************************************************************************)
EXTENDS Integers, Sequences, FiniteSets

Width(tiles) == Len(tiles[1])
Locations(tiles) == [x : 1..Width(tiles), y : 1..Len(tiles)]

(* getNode has a node for a location on the map that is not solid.         *)
Solid == {1, 2, 3}
Free(tiles, loc) == loc \in Locations(tiles) /\ tiles[loc.y][loc.x] \notin Solid

Around(loc) == {[loc EXCEPT !.x = @ + 1], [loc EXCEPT !.x = @ - 1],
                [loc EXCEPT !.y = @ + 1], [loc EXCEPT !.y = @ - 1]}

Apart(m, n) == IF m > n THEN m - n ELSE n - m

(* ParkingLotHandler:_handleNode: the node for a neighbour of from.        *)
NodeFrom(from, loc, goal) ==
    [at |-> loc, mCost |-> from.mCost + 1, way |-> Append(from.way, loc),
     score |-> from.mCost + 1 + Apart(loc.x, goal.x) + Apart(loc.y, goal.y)]

AdjacentNodes(tiles, node, goal) ==
    {NodeFrom(node, loc, goal) : loc \in {l \in Around(node.at) : Free(tiles, l)}}

(* A node that is not closed is opened, or takes the place of a worse one. *)
Opened(open, closed, nodes) ==
    LET Better(n) == /\ n.at \notin closed
                     /\ \A o \in open : o.at = n.at => n.mCost < o.mCost
        new == {n \in nodes : Better(n)}
    IN {o \in open : \A n \in new : n.at # o.at} \cup new

BestNodesBug(open) == {n \in open : \A o \in open : n.mCost >= o.mCost}

BestNodes(open) == {n \in open : \A o \in open : n.score <= o.score}

NoPath == [nodes |-> <<>>, totalCost |-> 0]

(* The loop of findPath from where it handles node: a neighbour that is    *)
(* the goal ends it, else it goes on with a best open node.                *)
RECURSIVE PathsFrom(_, _, _, _, _)
PathsFrom(tiles, goal, open, closed, node) ==
    LET nodes == AdjacentNodes(tiles, node, goal)
        found == {n \in nodes : n.at = goal}
        seen == closed \cup {node.at}
        rest == Opened(open, seen, nodes)
    IN IF found # {} THEN {[nodes |-> n.way, totalCost |-> n.mCost] : n \in found}
       ELSE IF rest = {} THEN {NoPath}
       ELSE UNION {PathsFrom(tiles, goal, rest \ {best}, seen, best)
                   : best \in BestNodes(rest)}

FindPath(tiles, from, to) ==
    IF Free(tiles, from)
    THEN PathsFrom(tiles, to, {}, {}, [at |-> from, mCost |-> 1, way |-> <<>>, score |-> 0])
    ELSE {NoPath}

-----------------------------------------------------------------------------
(* The reference: what can be reached in n steps, and in how few.          *)
Within(tiles, from) ==
    LET reach[n \in Nat] ==
            IF n = 0 THEN {from}
            ELSE reach[n - 1] \cup
                 {l \in Locations(tiles) :
                     Free(tiles, l) /\ Around(l) \cap reach[n - 1] # {}}
    IN reach

(* The length of a shortest walk of at least one step, or 0 if none.       *)
Distance(tiles, from, to) ==
    LET reach == Within(tiles, from)
        most == Cardinality(Locations(tiles))
        walks == {n \in 1..most : \E l \in Around(to) : l \in reach[n - 1]}
    IN IF Free(tiles, from) /\ Free(tiles, to) /\ walks # {}
       THEN CHOOSE n \in walks : \A m \in walks : n <= m
       ELSE 0

(* A way is walked step by step over free tiles, from next to the start.   *)
IsWay(tiles, from, way) ==
    \A i \in DOMAIN way :
        /\ Free(tiles, way[i])
        /\ way[i] \in Around(IF i = 1 THEN from ELSE way[i - 1])
=============================================================================
