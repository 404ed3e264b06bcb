----------------------------- MODULE MCRecords ------------------------------
(* Records on small sets.                                                  *)
EXTENDS ParkingLot

CONSTANTS l1, l2, s1, s2, get, recent, v1, v2

Kinds == [r \in {l1, l2, s1, s2, get, recent, v1, v2} |->
             IF r \in {l1, l2} THEN "login" ELSE IF r \in {v1, v2} THEN "visit"
             ELSE IF r \in {s1, s2} THEN "set"
             ELSE IF r = recent THEN "recent" ELSE "get"]

NoMap == << <<0>> >>

(* The corner of the parking lot with a wall between two lanes.            *)
Lot == << <<0, 0, 0>>, <<0, 1, 0>>, <<0, 1, 0>> >>

Start(conn, callers, breaks) ==
    [db |-> conn, callers |-> callers, tiles |-> NoMap,
     left |-> [breaks |-> breaks, sensors |-> 0]]

(* login before its first login, smartlive, unattended, and the parking    *)
(* map alone, which no query is about.                                     *)
Small ==
    {Start(Nil, {l1, l2}, 1), Start(Boot, {s1, s2, get}, 2), Start(Boot, {v1, v2, Job}, 2),
     Start(Boot, {v1, recent}, 2),
     [Start(Boot, {}, 0) EXCEPT !.tiles = Lot, !.left.sensors = 2]}
=============================================================================
