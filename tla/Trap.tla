---------------------------------- MODULE Trap ----------------------------------
(***************************************************************************)
(* The way into user mode and back: boot.S, timer_init and gic_init,       *)
(* enter_usermode.S, the vector table and sync_el0_64 of exceptions.S, and *)
(* handle_sync_exception of exceptions.c.                                  *)
(*                                                                         *)
(* Every register of the class it stands for is treated alike: x0 (result  *)
(* and scratch), x8 (any other register a C function may clobber), x19     *)
(* (any register it preserves), and x21, x22, which the handler uses       *)
(* before it has saved them.  Between traps the user program loads what it *)
(* likes.  A timer tick may be taken wherever interrupts are open.         *)
(***************************************************************************)
CONSTANTS Char      \* what getc may read

Reg == {"x0", "x8", "x19", "x21", "x22"}
CallerSaved == {"x0", "x8"}

SYS_UART_PUTC == "1"
SYS_UART_GETC == "2"
UserValue == {SYS_UART_PUTC, SYS_UART_GETC}   \* two values tell registers apart
UserPC    == {"svc", "next"}
Flags     == {"EL0t", "EL0t+Z"}     \* SPSR values of the user program

Value == UserValue \cup Char \cup UserPC \cup Flags
           \cup {"kernel", "ksp", "stack_top", "frame", "junk", "0"}

VARIABLES at,        \* where the CPU is
          regs, sp,  \* general registers and SP_EL1
          upc, pstate,          \* PC and flags of the user program
          elr, spsr,
          frame,     \* the 33 words saved below stack_top, and at it
          masked,    \* PSTATE.I
          timer, gic, tick,     \* timer and GIC enabled, tick pending
          trapped,   \* history: the user's state at the last SVC
          result     \* history: what handle_sync_exception returned

machine == <<timer, gic, tick>>
history == <<trapped, result>>
vars == <<at, regs, sp, upc, pstate, elr, spsr, frame, masked, machine, history>>

Boot    == {"_start", "kernel_main", "timer_on", "gic_on"}
Handler == {"sync_el0_64", "switched", "saved", "returned", "stored", "restored"}
Stuck   == {"spin", "lost", "wfe"}

TypeOK == /\ at \in Boot \cup Handler \cup Stuck \cup {"user"}
          /\ regs \in [Reg -> Value]
          /\ {sp, upc, pstate, elr, spsr, result} \subseteq Value
          /\ frame \in [Reg \cup {"elr", "spsr"} -> Value]
          /\ {masked, timer, gic, tick} \subseteq BOOLEAN
          /\ trapped \in [regs : [Reg -> Value], upc : Value, pstate : Value]

Init == /\ at = "_start"
        /\ regs = [r \in Reg |-> "kernel"]
        /\ sp = "ksp" /\ upc = "svc" /\ pstate = "EL0t"
        /\ elr = "junk" /\ spsr = "junk"
        /\ frame = [s \in Reg \cup {"elr", "spsr"} |-> "junk"]
        /\ masked = TRUE
        /\ timer = FALSE /\ gic = FALSE /\ tick = FALSE
        /\ trapped = [regs |-> [r \in Reg |-> "junk"], upc |-> "svc", pstate |-> "EL0t"]
        /\ result = "junk"

--------------------------------------------------------------------------------
(* boot.S: the vector table is installed, then interrupts are opened. *)
boot_start == /\ at = "_start"
              /\ at' = "kernel_main"
              /\ masked' = FALSE
              /\ UNCHANGED <<regs, sp, upc, pstate, elr, spsr, frame, machine, history>>

timer_init == /\ at = "kernel_main"
              /\ at' = "timer_on"
              /\ timer' = TRUE
              /\ masked' = FALSE
              /\ UNCHANGED <<regs, sp, upc, pstate, elr, spsr, frame, gic, tick, history>>

gic_init == /\ at = "timer_on"
            /\ at' = "gic_on"
            /\ gic' = TRUE
            /\ UNCHANGED <<regs, sp, upc, pstate, elr, spsr, frame, masked,
                           timer, tick, history>>

(* ERET to EL0 with SPSR = 0: interrupts are open. *)
enter_usermode == /\ at = "gic_on"
                  /\ at' = "user"
                  /\ elr' = "svc" /\ upc' = "svc"
                  /\ spsr' = "EL0t" /\ pstate' = "EL0t"
                  /\ masked' = FALSE
                  /\ UNCHANGED <<regs, sp, frame, machine, history>>

--------------------------------------------------------------------------------
(* The timer fires at any time once it is enabled. *)
Tick == /\ timer /\ ~ tick
        /\ tick' = TRUE
        /\ UNCHANGED <<at, regs, sp, upc, pstate, elr, spsr, frame, masked,
                       timer, gic, history>>

(* The vector table.  At EL1 an interrupt enters at 0x280, a branch to     *)
(* itself.  At EL0 it enters at 0x480, which is in the middle of           *)
(* sync_el0_64: the second half of the handler runs on a frame that was    *)
(* never saved.                                                            *)
TakeIrq == /\ tick /\ gic /\ ~ masked
           /\ at \notin Stuck
           /\ at' = IF at = "user" THEN "lost" ELSE "spin"
           /\ masked' = TRUE
           /\ UNCHANGED <<regs, sp, upc, pstate, elr, spsr, frame, machine, history>>

(* The user program computes: it loads a register, or moves on. *)
UserStep == /\ at = "user"
            /\ \/ /\ \E r \in Reg, v \in UserValue : regs' = [regs EXCEPT ![r] = v]
                  /\ UNCHANGED <<upc, pstate>>
               \/ /\ upc' \in UserPC /\ pstate' \in Flags
                  /\ UNCHANGED regs
            /\ UNCHANGED <<at, sp, elr, spsr, frame, masked, machine, history>>

(* SVC, or any other synchronous exception: hardware saves PC and flags    *)
(* and masks interrupts.                                                   *)
Svc == /\ at = "user"
       /\ at' = "sync_el0_64"
       /\ elr' = upc /\ spsr' = pstate
       /\ masked' = TRUE
       /\ trapped' = [regs |-> regs, upc |-> upc, pstate |-> pstate]
       /\ UNCHANGED <<regs, sp, upc, pstate, frame, machine, result>>

--------------------------------------------------------------------------------
(* Mutant: the handler opens interrupts once it is on its own stack. *)
SwitchAndUnmask == /\ at = "sync_el0_64"
                   /\ at' = "switched"
                   /\ regs' = [regs EXCEPT !["x21"] = sp, !["x22"] = "stack_top"]
                   /\ sp' = "frame"
                   /\ masked' = FALSE
                   /\ UNCHANGED <<upc, pstate, elr, spsr, frame, machine, history>>

(* x21 keeps the kernel stack pointer, x22 carries stack_top. *)
SwitchStack == /\ at = "sync_el0_64"
               /\ at' = "switched"
               /\ regs' = [regs EXCEPT !["x21"] = sp, !["x22"] = "stack_top"]
               /\ sp' = "frame"
               /\ UNCHANGED <<upc, pstate, elr, spsr, frame, masked, machine, history>>

(* Mutant: a word is saved that no register holds. *)
SavedGarbage == [s \in Reg \cup {"elr", "spsr"} |->
                   IF s = "elr" THEN elr ELSE IF s = "spsr" THEN "ttbr0" ELSE regs[s]]

(* x0-x30 to slots 0-30, then ELR and SPSR, through x0, to 31 and 32. *)
Saved == [s \in Reg \cup {"elr", "spsr"} |->
            IF s = "elr" THEN elr ELSE IF s = "spsr" THEN spsr ELSE regs[s]]

Save == /\ at = "switched"
        /\ at' = "saved"
        /\ frame' = Saved
        /\ regs' = [regs EXCEPT !["x0"] = spsr]
        /\ UNCHANGED <<sp, upc, pstate, elr, spsr, masked, machine, history>>

(* handle_sync_exception(user x0, user x8): 0 for putc, a character for    *)
(* getc; it never returns from anything else.  An exception of another     *)
(* class, whatever x8 holds, ends the same way.                            *)
handle_sync_exception ==
  /\ at = "saved"
  /\ \/ /\ \/ frame["x8"] = SYS_UART_PUTC /\ result' = "0"
           \/ frame["x8"] = SYS_UART_GETC /\ result' \in Char
        /\ regs' = [r \in Reg |-> IF r = "x0" THEN result'
                                  ELSE IF r \in CallerSaved THEN "junk" ELSE regs[r]]
        /\ at' = "returned"
     \/ at' = "wfe" /\ UNCHANGED <<regs, result>>
  /\ UNCHANGED <<sp, upc, pstate, elr, spsr, frame, masked, machine, trapped>>

(* str x0, [sp, #0]: the result replaces the saved x0. *)
StoreResult == /\ at = "returned"
               /\ at' = "stored"
               /\ frame' = [frame EXCEPT !["x0"] = regs["x0"]]
               /\ UNCHANGED <<regs, sp, upc, pstate, elr, spsr, masked, machine, history>>

(* Mutant: sp is left in the frame. *)
RestoreWithoutStack ==
  /\ at = "stored"
  /\ at' = "restored"
  /\ regs' = [r \in Reg |-> IF r = "x0" THEN frame["spsr"] ELSE frame[r]]
  /\ elr' = frame["elr"] /\ spsr' = frame["spsr"]
  /\ UNCHANGED <<sp, upc, pstate, frame, masked, machine, history>>

(* Mutant: ELR and SPSR come back from each other's slot. *)
RestoreSwapped ==
  /\ at = "stored"
  /\ at' = "restored"
  /\ regs' = [r \in Reg |-> IF r = "x0" THEN frame["spsr"] ELSE frame[r]]
  /\ elr' = frame["spsr"] /\ spsr' = frame["elr"]
  /\ sp' = frame["x21"]
  /\ UNCHANGED <<upc, pstate, frame, masked, machine, history>>

(* x0-x30 from the frame; then x0 is the scratch register that carries ELR *)
(* and SPSR; sp from x21. *)
Restore == /\ at = "stored"
           /\ at' = "restored"
           /\ regs' = [r \in Reg |-> IF r = "x0" THEN frame["spsr"] ELSE frame[r]]
           /\ elr' = frame["elr"] /\ spsr' = frame["spsr"]
           /\ sp' = frame["x21"]
           /\ UNCHANGED <<upc, pstate, frame, masked, machine, history>>

Eret == /\ at = "restored"
        /\ at' = "user"
        /\ upc' = elr /\ pstate' = spsr
        /\ masked' = FALSE
        /\ UNCHANGED <<regs, sp, elr, spsr, frame, machine, history>>

sync_el0_64 == SwitchStack \/ Save \/ StoreResult \/ Restore \/ Eret

Next == \/ boot_start \/ timer_init \/ gic_init \/ enter_usermode
        \/ Tick \/ TakeIrq
        \/ UserStep \/ Svc
        \/ sync_el0_64 \/ handle_sync_exception

Spec == Init /\ [][Next]_vars

--------------------------------------------------------------------------------
(* Properties. *)

(* A system call changes nothing of the user program but x0, and x21, x22, *)
(* which the handler overwrites before it saves them:                      *)
(* registers the C handler clobbers, registers it preserves, PC and flags  *)
(* all come back through a frame that nothing else writes.                 *)
ContextKept ==
  [][at = "restored" =>
       /\ \A r \in Reg \ {"x0", "x21", "x22"} : regs'[r] = trapped.regs[r]
       /\ upc' = trapped.upc /\ pstate' = trapped.pstate]_vars

(* Each trap leaves SP_EL1 where it found it, although the handler resets  *)
(* it to stack_top and carries the old value in a user register.           *)
KernelStackKept == at \in Boot \cup {"user"} => sp = "ksp"

(* A system call in progress is never torn by an interrupt: with the frame *)
(* half built or half restored, a tick stays pending until ERET.           *)
TrapIsAtomic == [][(at \in Handler) => at' \in Handler \cup {"user", "wfe"}]_vars

(* The user finds the result of its system call in x0. *)
ResultReachesUser ==
  [][at = "restored" => regs'["x0"] = result]_vars

(* The kernel handles the interrupts it opens: none of them leaves the CPU *)
(* in a loop or in the wrong handler.                                      *)
InterruptsHandled == at \notin {"spin", "lost"}
================================================================================
