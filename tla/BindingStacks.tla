----------------------------- MODULE BindingStacks -----------------------------
(***************************************************************************)
(* What a process namespace promises to bind and unbind: every target has  *)
(* a stack of sources; bind pushes, unbind pops, and the top is what the   *)
(* target stands for.                                                      *)
(***************************************************************************)
EXTENDS Sequences

CONSTANTS Source, Target

VARIABLE stacks       \* stacks[t] : sources bound to t, newest first

Init == stacks = [t \in Target |-> << >>]

Push(t, s) == stacks' = [stacks EXCEPT ![t] = <<s>> \o @]

Pop(t) == /\ stacks[t] # << >>
          /\ stacks' = [stacks EXCEPT ![t] = Tail(@)]

Next == \E t \in Target : Pop(t) \/ \E s \in Source : Push(t, s)

Spec == Init /\ [][Next]_stacks
================================================================================
