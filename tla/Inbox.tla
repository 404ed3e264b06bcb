------------------------------- MODULE Inbox --------------------------------
(***************************************************************************)
(* What skynet promises a service, whatever threads do behind it: its      *)
(* messages wait in the order they were sent, are handled one at a time,   *)
(* each once, and only while the service is open; when it is closed those  *)
(* still waiting are dropped.                                              *)
(***************************************************************************)
EXTENDS Sequences

CONSTANTS Services, Messages, Nil

VARIABLES
    inbox,  \* the messages that wait for each service
    busy,   \* the message each service is handling, or Nil
    phase   \* "none", "starting", "open" or "closed"

vars == <<inbox, busy, phase>>

Init == /\ busy = [s \in Services |-> Nil]
        /\ phase \in [Services -> {"none", "open", "closed"}]
        /\ \A s \in Services : phase[s] # "open" => inbox[s] = <<>>

(* A service starts, and can be sent messages from then on.                *)
Start(s) == /\ phase[s] = "none"
            /\ phase' = [phase EXCEPT ![s] = "starting"]
            /\ UNCHANGED <<inbox, busy>>

Open(s) == /\ phase[s] = "starting"
           /\ phase' = [phase EXCEPT ![s] = "open"]
           /\ UNCHANGED <<inbox, busy>>

Send(s, m) == /\ phase[s] \in {"starting", "open"}
              /\ inbox' = [inbox EXCEPT ![s] = Append(@, m)]
              /\ UNCHANGED <<busy, phase>>

Handle(s) == /\ phase[s] = "open"
             /\ busy[s] = Nil
             /\ inbox[s] # <<>>
             /\ busy' = [busy EXCEPT ![s] = Head(inbox[s])]
             /\ inbox' = [inbox EXCEPT ![s] = Tail(@)]
             /\ UNCHANGED phase

Done(s) == /\ busy[s] # Nil
           /\ busy' = [busy EXCEPT ![s] = Nil]
           /\ UNCHANGED <<inbox, phase>>

Close(s) == /\ phase[s] \in {"starting", "open"}
            /\ busy[s] = Nil
            /\ phase' = [phase EXCEPT ![s] = "closed"]
            /\ UNCHANGED <<inbox, busy>>

Drop(s) == /\ phase[s] = "closed"
           /\ inbox[s] # <<>>
           /\ inbox' = [inbox EXCEPT ![s] = Tail(@)]
           /\ UNCHANGED <<busy, phase>>

Next == \E s \in Services :
            \/ Start(s) \/ Open(s) \/ Handle(s) \/ Done(s) \/ Close(s) \/ Drop(s)
            \/ \E m \in Messages : Send(s, m)

Spec == Init /\ [][Next]_vars
=============================================================================
