-------------------------------- MODULE Context --------------------------------
(***************************************************************************)
(* The saved registers of a process, word by word: context_t of process.h  *)
(* as C names its words, and context_switch.S as it numbers them.  This is *)
(* the contract that module Process takes for granted when a process gets  *)
(* the CPU for the first time.                                             *)
(***************************************************************************)
EXTENDS Integers

CONSTANTS Proc, First      \* processes, and the one init_process sets up

(* context_t: pc, sp, lr, x[31], eight bytes each. *)
Word == 0 .. 33
PC == 0
SP == 1
LR == 2
X(i) == 3 + i

(* context_switch.S: x19..x30 at byte offsets 0..88, SP at 96, DAIF at 104. *)
SavedReg(n) == n - 19
SavedSP     == 12
SavedDAIF   == 13

Stack(p) == <<"stack", p>>      \* the address one past p's own stack
Zero     == <<"zero">>
Boot     == <<"boot stack">>    \* where process 1 runs in fact

VARIABLES ctx,       \* ctx[p] : Word -> value
          alive,     \* processes created so far
          suspended, \* processes context_switch has saved
          current, sp

vars == <<ctx, alive, suspended, current, sp>>

(* init_process: ctx.sp is set, ctx.lr is 0. *)
Init == /\ ctx = [p \in Proc |-> [w \in Word |-> IF p = First /\ w = SP
                                                 THEN Stack(p) ELSE Zero]]
        /\ alive = {First} /\ suspended = {}
        /\ current = First /\ sp = Boot

(* create_process: the parent's saved context, with sp replaced. *)
create_process(p) ==
  /\ p \notin alive
  /\ alive' = alive \cup {p}
  /\ ctx' = [ctx EXCEPT ![p] = [ctx[current] EXCEPT ![SP] = Stack(p)]]
  /\ UNCHANGED <<suspended, current, sp>>

(* handle_exec_message on the running process: pc, sp and x[] of its saved *)
(* context (argc and argv in x[0] and x[1]), none of its registers. *)
handle_exec_message(argv) ==
  /\ ctx' = [ctx EXCEPT ![current] =
               [w \in Word |-> IF w = SP THEN <<"PROCESS_STACK_TOP">>
                               ELSE IF w = PC THEN <<"entry">>
                               ELSE IF argv /\ w \in {X(0), X(1)} THEN <<"argument">>
                               ELSE IF w \in {X(i) : i \in 0 .. 30} THEN Zero
                               ELSE ctx[current][w]]]
  /\ UNCHANGED <<alive, suspended, current, sp>>

(* context_switch: registers and sp of the old process to words 0..13 of   *)
(* its context, and back from the same words of the new one. *)
context_switch(p) ==
  /\ p \in alive \ {current}
  /\ ctx' = [ctx EXCEPT ![current] =
               [w \in Word |-> IF w = SavedSP THEN sp
                               ELSE IF w = SavedDAIF \/ w \in {SavedReg(n) : n \in 19 .. 30}
                               THEN <<"saved", current>> ELSE ctx[current][w]]]
  /\ sp' = ctx[p][SavedSP]
  /\ suspended' = suspended \cup {current}
  /\ current' = p
  /\ UNCHANGED alive

Next == \/ \E p \in Proc : create_process(p) \/ context_switch(p)
        \/ \E argv \in BOOLEAN : handle_exec_message(argv)

Spec == Init /\ [][Next]_vars

(* A process that gets the CPU for the first time runs on the stack its    *)
(* creator stored for it in ctx.sp: the word that context_switch restores  *)
(* SP from is the word that C calls sp. *)
FreshProcessGetsItsStack ==
  current \notin suspended /\ current # First => sp = Stack(current)
================================================================================
