------------------------------- MODULE TrapProofs -------------------------------
(***************************************************************************)
(* A trap is atomic and transparent.  The argument follows the saved       *)
(* context through the handler: for each point of the handler TrapInv says *)
(* where the kernel stack pointer and the user's registers are, and that   *)
(* interrupts stay masked while they are on the way.                       *)
(***************************************************************************)
EXTENDS Trap, TLAPS

(* The registers that the handler gives back as it found them. *)
Kept == Reg \ {"x0", "x21", "x22"}

(* The handler runs with interrupts masked. *)
HandlerMasked == at \in Handler => masked

(* SP_EL1 rests in sp, then in x21, then in x21's slot of the frame. *)
StackPointerSomewhere ==
  /\ at \in Boot \cup {"user", "sync_el0_64", "restored"} => sp = "ksp"
  /\ at = "switched" => regs["x21"] = "ksp"
  /\ at \in {"saved", "returned", "stored"} => frame["x21"] = "ksp"

(* The program counter and flags stay in the user's hands until ERET, and  *)
(* what ERET will load is the same, in ELR and SPSR or in the frame.       *)
StateSomewhere ==
  /\ at \in Handler => upc = trapped.upc /\ pstate = trapped.pstate
  /\ at \in {"sync_el0_64", "switched", "restored"} =>
       elr = trapped.upc /\ spsr = trapped.pstate
  /\ at \in {"saved", "returned", "stored"} =>
       frame["elr"] = trapped.upc /\ frame["spsr"] = trapped.pstate

(* The user's registers are in the registers, or in the frame. *)
RegistersSomewhere ==
  /\ at \in {"sync_el0_64", "switched", "restored"} =>
       \A r \in Kept : regs[r] = trapped.regs[r]
  /\ at \in {"saved", "returned", "stored"} =>
       \A r \in Kept : frame[r] = trapped.regs[r]

TrapInv == /\ TypeOK
           /\ HandlerMasked
           /\ StackPointerSomewhere
           /\ StateSomewhere
           /\ RegistersSomewhere

--------------------------------------------------------------------------------
(* Every register, slot and history variable holds a value of its kind:    *)
(* what the handler takes from the frame was put there by it.              *)
LEMMA TypeStep == TypeOK /\ [Next]_vars => TypeOK'
<1> SUFFICES ASSUME TypeOK, [Next]_vars PROVE TypeOK'
  OBVIOUS
<1> USE DEF TypeOK, Value, Boot, Handler, Stuck, machine, history
<1>1. CASE boot_start \/ timer_init \/ gic_init \/ enter_usermode
  <2>1. CASE boot_start
    BY <2>1 DEF boot_start
  <2>2. CASE timer_init
    BY <2>2 DEF timer_init
  <2>3. CASE gic_init
    BY <2>3 DEF gic_init
  <2>4. CASE enter_usermode
    BY <2>4 DEF enter_usermode, UserPC, Flags
  <2> QED
    BY <1>1, <2>1, <2>2, <2>3, <2>4
<1>2. CASE Tick \/ TakeIrq
  BY <1>2 DEF Tick, TakeIrq
<1>3. CASE UserStep
  BY <1>3 DEF UserStep
<1>4. CASE Svc
  BY <1>4 DEF Svc
<1>5. CASE SwitchStack
  BY <1>5 DEF SwitchStack
<1>6. CASE Save
  <2>1. Saved \in [Reg \cup {"elr", "spsr"} -> Value]
    BY DEF Saved
  <2> QED
    BY <1>6, <2>1 DEF Save
<1>7. CASE handle_sync_exception
  BY <1>7 DEF handle_sync_exception
<1>8. CASE StoreResult
  BY <1>8 DEF StoreResult, Reg
<1>9. CASE Restore
  BY <1>9 DEF Restore, Reg
<1>10. CASE Eret
  BY <1>10 DEF Eret
<1>11. CASE UNCHANGED vars
  BY <1>11 DEF vars
<1> QED
  BY <1>1, <1>2, <1>3, <1>4, <1>5, <1>6, <1>7, <1>8, <1>9, <1>10, <1>11
     DEF Next, sync_el0_64

LEMMA TrapInvInit == Init => TrapInv
<1> SUFFICES ASSUME Init PROVE TrapInv
  OBVIOUS
<1>1. TypeOK
  BY DEF Init, TypeOK, Value, Boot, UserPC, Flags
<1> QED
  BY <1>1 DEF Init, TrapInv, HandlerMasked, StackPointerSomewhere, StateSomewhere,
              RegistersSomewhere, Boot, Handler

LEMMA TrapInvStep == TrapInv /\ [Next]_vars => TrapInv'
<1> SUFFICES ASSUME TrapInv, [Next]_vars PROVE TrapInv'
  OBVIOUS
<1>1. TypeOK /\ TypeOK'
  BY TypeStep DEF TrapInv
<1>2. /\ regs \in [Reg -> Value] /\ frame \in [Reg \cup {"elr", "spsr"} -> Value]
      /\ at \in Boot \cup Handler \cup Stuck \cup {"user"}
  BY <1>1 DEF TypeOK
<1> DEFINE Parts == HandlerMasked /\ StackPointerSomewhere /\ StateSomewhere
                      /\ RegistersSomewhere
<1> SUFFICES Parts'
  BY <1>1 DEF TrapInv
<1> USE DEF TrapInv, HandlerMasked, StackPointerSomewhere, StateSomewhere,
            RegistersSomewhere, Boot, Handler, Stuck, machine, history
<1>3. CASE boot_start \/ timer_init \/ gic_init \/ enter_usermode
  BY <1>3 DEF boot_start, timer_init, gic_init, enter_usermode
<1>4. CASE Tick \/ TakeIrq
  BY <1>4 DEF Tick, TakeIrq
<1>5. CASE UserStep
  BY <1>5 DEF UserStep
<1>6. CASE Svc
  BY <1>6 DEF Svc, Kept
<1>7. CASE SwitchStack
  BY <1>2, <1>7 DEF SwitchStack, Kept, Reg
<1>8. CASE Save
  <2>1. /\ frame'["elr"] = elr /\ frame'["spsr"] = spsr
        /\ frame'["x21"] = regs["x21"]
        /\ \A r \in Kept : frame'[r] = regs[r]
    BY <1>8 DEF Save, Saved, Kept, Reg
  <2> QED
    BY <1>8, <2>1 DEF Save
<1>9. CASE handle_sync_exception
  BY <1>9 DEF handle_sync_exception
<1>10. CASE StoreResult
  BY <1>2, <1>10 DEF StoreResult, Kept, Reg
<1>11. CASE Restore
  BY <1>2, <1>11 DEF Restore, Kept, Reg
<1>12. CASE Eret
  BY <1>12 DEF Eret
<1>13. CASE UNCHANGED vars
  BY <1>13 DEF vars
<1> QED
  BY <1>3, <1>4, <1>5, <1>6, <1>7, <1>8, <1>9, <1>10, <1>11, <1>12, <1>13
     DEF Next, sync_el0_64

(* Wherever the CPU is in the handler, the user's context is in exactly    *)
(* the places the rest of the handler takes it from (exceptions.S).        *)
THEOREM TrapInvariant == Spec => []TrapInv
<1> QED
  BY TrapInvInit, TrapInvStep, PTL DEF Spec

--------------------------------------------------------------------------------
(* Registers, frame and history hold values of their kind. *)
THEOREM TypeCorrect == Spec => []TypeOK
<1>1. TrapInv => TypeOK
  BY DEF TrapInv
<1> QED
  BY <1>1, TrapInvariant, PTL

(* sync_el0_64 leaves SP_EL1 where the trap found it, although the stack   *)
(* it runs on is always reset to stack_top.                                *)
THEOREM StackPointerComesBack == Spec => []KernelStackKept
<1>1. TrapInv => KernelStackKept
  BY DEF TrapInv, StackPointerSomewhere, KernelStackKept
<1> QED
  BY <1>1, TrapInvariant, PTL

(* A system call changes no register of the user program but x0, x21 and   *)
(* x22, nor its program counter or flags.                                  *)
THEOREM SystemCallsKeepContext == Spec => ContextKept
<1> DEFINE Back == at = "restored" =>
                     /\ \A r \in Reg \ {"x0", "x21", "x22"} : regs'[r] = trapped.regs[r]
                     /\ upc' = trapped.upc /\ pstate' = trapped.pstate
<1>1. TrapInv /\ [Next]_vars => [Back]_vars
  <2> SUFFICES ASSUME TrapInv, Next, at = "restored" PROVE Back
    OBVIOUS
  <2>1. CASE Eret
    BY <2>1 DEF Eret, TrapInv, StateSomewhere, RegistersSomewhere, Kept
  <2>2. CASE Tick
    BY <2>2 DEF Tick, TrapInv, StateSomewhere, RegistersSomewhere, Kept, Handler
  <2>3. ~ TakeIrq
    BY DEF TakeIrq, TrapInv, HandlerMasked, Handler
  <2> QED
    BY <2>1, <2>2, <2>3 DEF Next, sync_el0_64, boot_start, timer_init, gic_init,
       enter_usermode, UserStep, Svc, SwitchStack, Save, handle_sync_exception,
       StoreResult, Restore
<1> QED
  BY <1>1, TrapInvariant, PTL DEF Spec, ContextKept

(* No interrupt takes the CPU away from a handler: it ends in ERET or in   *)
(* the wfe loop of handle_sync_exception.                                  *)
THEOREM TrapsAreAtomic == Spec => TrapIsAtomic
<1>1. TrapInv /\ [Next]_vars =>
        [(at \in Handler) => at' \in Handler \cup {"user", "wfe"}]_vars
  <2> SUFFICES ASSUME TrapInv, Next, at \in Handler
               PROVE  at' \in Handler \cup {"user", "wfe"}
    OBVIOUS
  <2>1. ~ TakeIrq
    BY DEF TakeIrq, TrapInv, HandlerMasked
  <2> QED
    BY <2>1 DEF Next, sync_el0_64, boot_start, timer_init, gic_init, enter_usermode,
       Tick, UserStep, Svc, SwitchStack, Save, handle_sync_exception, StoreResult,
       Restore, Eret, Handler
<1> QED
  BY <1>1, TrapInvariant, PTL DEF Spec, TrapIsAtomic
================================================================================
