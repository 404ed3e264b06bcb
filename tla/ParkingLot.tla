----------------------------- MODULE ParkingLot -----------------------------
(* unattended with the path finder it keeps for its map: AStar(handler1).  *)
EXTENDS Records, AStar

(* Whatever the sensors have reported: findPath of astar.lua finds a way   *)
(* when there is one, none is shorter, and its cost is its length plus the *)
(* 1 of the start.  From a place to itself the way goes out and back.      *)
PathsShortest ==
    \A from \in Locations(tiles), to \in Locations(tiles) :
        LET least == Distance(tiles, from, to)
        IN \A path \in FindPath(tiles, from, to) :
              IF least = 0 THEN path = NoPath
              ELSE /\ Len(path.nodes) = least
                   /\ path.nodes[least] = to
                   /\ IsWay(tiles, from, path.nodes)
                   /\ path.totalCost = least + 1
=============================================================================
