-------------------------------- MODULE Mailbox --------------------------------
(***************************************************************************)
(* What the message queues of the kernel promise, whatever ring they are   *)
(* kept in: every process has a mailbox, a bounded first-in first-out      *)
(* sequence of messages; a message is delivered to the owner of the        *)
(* mailbox, once, in the order in which messages were accepted.            *)
(***************************************************************************)
EXTENDS Integers, Sequences

CONSTANTS Owner, Msg, NoMsg, Capacity

VARIABLES box,   \* box[p] : messages accepted for p and not yet delivered
          got    \* got[p] : the message delivered to p last

mailVars == <<box, got>>

Init == /\ box = [p \in Owner |-> << >>]
        /\ got = [p \in Owner |-> NoMsg]

Accept(p, m) == /\ Len(box[p]) < Capacity
                /\ box' = [box EXCEPT ![p] = Append(@, m)]
                /\ UNCHANGED got

Deliver(p) == /\ box[p] # << >>
              /\ got' = [got EXCEPT ![p] = Head(box[p])]
              /\ box' = [box EXCEPT ![p] = Tail(@)]

Next == \E p \in Owner : Deliver(p) \/ \E m \in Msg : Accept(p, m)

Spec == Init /\ [][Next]_mailVars
================================================================================
