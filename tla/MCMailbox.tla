----------------------------- MODULE MCMailbox ------------------------------
(* Mailbox on small sets: two worker threads of the two kinds of weight.   *)
EXTENDS Mailbox

CONSTANTS a, b, c, w1, w2

Shares == [w \in {w1, w2} |-> IF w = w1 THEN 0 ELSE 1]

Start(launched, gone, msgs) == [launched |-> launched, gone |-> gone, msgs |-> msgs]

(* One service and messages enough to handle some in a row; one service    *)
(* that launches another; two of which one may launch a third while the    *)
(* other retires it; two that send each other messages.                    *)
Small == {Start(<<a>>, {b, c}, 2), Start(<<a>>, {c}, 1),
          Start(<<a, b>>, {}, 0), Start(<<a, b>>, {c}, 1)}
=============================================================================
