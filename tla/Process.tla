-------------------------------- MODULE Process --------------------------------
(***************************************************************************)
(* The process table, the scheduler and the kernel calls that move the CPU *)
(* between processes: process.c and message.c.                             *)
(*                                                                         *)
(* The kernel is cooperative: the vector table sends no interrupt to       *)
(* schedule() (module Trap), so the CPU changes hands only in a kernel     *)
(* call of the process that holds it.  One action is one kernel call of    *)
(* current_process, or the rest of a call that gave the CPU away and got   *)
(* it back.  Processes are named by their pid.                             *)
(*                                                                         *)
(* The model stops where C gives the code no meaning: when create_process  *)
(* writes past processes[] (mode "overrun"), and when context_switch       *)
(* leaves for a process whose saved registers were never written by        *)
(* context_switch and returns to whatever they hold (mode "lost", module   *)
(* Context).  In mode "hang" the kernel spins in schedule().               *)
(***************************************************************************)
EXTENDS MessageRing

CONSTANTS MAX_PROCESSES,  \* elements of processes[]
          MAX_KALLOC,     \* process structures the heap has room for
          Status          \* exit statuses

ASSUME ProcessAssumption == /\ MAX_PROCESSES \in Nat \ {0}
                            /\ MAX_KALLOC \in Nat

NULL == 0
Pid  == 1 .. (MAX_PROCESSES + MAX_KALLOC)

VARIABLES process_list,   \* pids in list order, newest first
          state,          \* state[p], "UNUSED" before p is created
          parent_pid, exit_status,
          current_process,
          next_pid, process_count,
          kallocs,        \* process structures taken from the heap
          resume,         \* where p goes on when it next holds the CPU
          msg_queue, msg_blocked,
          rcv,            \* rcv[p] : the message p received last
          ret,            \* ret[p] : what p's last kernel call returned
          mode,
          silent          \* history: pids that left through process_exit

table   == <<process_list, parent_pid, next_pid, process_count, kallocs>>
mail    == <<msg_queue, msg_blocked, rcv>>
control == <<state, current_process, resume, mode>>
vars    == <<table, mail, control, exit_status, ret, silent>>

ProcState == {"UNUSED", "READY", "RUNNING", "BLOCKED", "ZOMBIE"}
Point     == {"fresh", "program", "wait", "receive"}
Mode      == {"run", "hang", "overrun", "lost"}

Listed == {process_list[i] : i \in 1 .. Len(process_list)}

(* kernel_main up to init_process: process 1 runs, alone. *)
Init == /\ process_list = <<1>>
        /\ state = [p \in Pid |-> IF p = 1 THEN "RUNNING" ELSE "UNUSED"]
        /\ parent_pid = [p \in Pid |-> 0]
        /\ exit_status = [p \in Pid |-> 0]
        /\ current_process = 1
        /\ next_pid = 2
        /\ process_count = 1
        /\ kallocs = 0
        /\ resume = [p \in Pid |-> IF p = 1 THEN "program" ELSE "fresh"]
        /\ msg_queue = [p \in Pid |-> EmptyRing]
        /\ msg_blocked = [p \in Pid |-> FALSE]
        /\ rcv = [p \in Pid |-> NoMsg]
        /\ ret = [p \in Pid |-> 0]
        /\ mode = "run"
        /\ silent = {}

--------------------------------------------------------------------------------
(* The scheduler. *)

(* The loop of schedule(): the first READY process of process_list. *)
FirstReady(st, i) ==
  /\ i \in 1 .. Len(process_list)
  /\ st[process_list[i]] = "READY"
  /\ \A j \in 1 .. (i - 1) : st[process_list[j]] # "READY"

(* Mutant: the process that gives the CPU away stays RUNNING. *)
DispatchKeepsCaller(st, cur, next) == [st EXCEPT ![next] = "RUNNING"]

(* The two state changes of schedule(), in the code's order. *)
Dispatch(st, cur, next) ==
  LET st1 == [st EXCEPT ![next] = "RUNNING"]
  IN  IF cur # NULL /\ st1[cur] = "RUNNING"
      THEN [st1 EXCEPT ![cur] = "READY"]
      ELSE st1

(* context_switch: the call of cur is suspended at the point given; next   *)
(* goes on where its own last call was suspended.  The registers of a      *)
(* process that never ran are not where context_switch looks for them, so  *)
(* control may just as well be lost.                                       *)
context_switch(cur, point, next) ==
  LET saved == IF cur = NULL THEN resume ELSE [resume EXCEPT ![cur] = point]
  IN  \/ /\ resume' = IF saved[next] = "fresh"
                      THEN [saved EXCEPT ![next] = "program"] ELSE saved
         /\ UNCHANGED mode
      \/ /\ saved[next] = "fresh"
         /\ resume' = saved
         /\ mode' = "lost"

(* schedule() called by cur (NULL after process_exit) with process states  *)
(* st; point is where cur goes on when the call returns.                   *)
schedule(st, cur, point) ==
  \/ \E i \in 1 .. Len(process_list) :
       /\ FirstReady(st, i)
       /\ state' = Dispatch(st, cur, process_list[i])
       /\ current_process' = process_list[i]
       /\ context_switch(cur, point, process_list[i])
  \/ /\ \A i \in 1 .. Len(process_list) : st[process_list[i]] # "READY"
     /\ state' = st
     /\ current_process' = cur
     /\ mode' = "hang"
     /\ UNCHANGED resume

--------------------------------------------------------------------------------
(* Kernel calls. *)

(* p holds the CPU and is running its own code. *)
Calls(p) == mode = "run" /\ current_process = p /\ resume[p] = "program"

Returns(p, v) == ret' = [ret EXCEPT ![p] = v]

(* Mutant: the old head is not linked behind the new process. *)
EnlistAlone(parent) ==
  /\ process_list' = <<next_pid>>
  /\ state' = [state EXCEPT ![next_pid] = "READY"]
  /\ parent_pid' = [parent_pid EXCEPT ![next_pid] = parent]
  /\ next_pid' = next_pid + 1

(* A new process structure: the next pid, at the head of the list. *)
Enlist(parent) ==
  /\ process_list' = <<next_pid>> \o process_list
  /\ state' = [state EXCEPT ![next_pid] = "READY"]
  /\ parent_pid' = [parent_pid EXCEPT ![next_pid] = parent]
  /\ next_pid' = next_pid + 1

(* process_create: the structure comes from the heap, which is zero, so it *)
(* is READY and has no parent.                                             *)
process_create(p) ==
  /\ Calls(p)
  /\ \/ /\ kallocs < MAX_KALLOC
        /\ kallocs' = kallocs + 1
        /\ Enlist(0)
        /\ Returns(p, 0)
     \/ /\ kallocs = MAX_KALLOC
        /\ Returns(p, -1)
        /\ UNCHANGED <<process_list, state, parent_pid, next_pid, kallocs>>
  /\ UNCHANGED <<mail, current_process, resume, mode, process_count,
                 exit_status, silent>>

(* Mutant: process_count is advanced twice, as for the stack and the slot. *)
ForkCountsTwice(p) ==
  /\ Calls(p)
  /\ process_count' = process_count + 2
  /\ \/ /\ process_count < MAX_PROCESSES
        /\ Enlist(p)
        /\ UNCHANGED mode
     \/ /\ process_count >= MAX_PROCESSES
        /\ mode' = "overrun"
        /\ UNCHANGED <<process_list, state, parent_pid, next_pid>>
  /\ Returns(p, 0)
  /\ UNCHANGED <<mail, current_process, resume, kallocs, exit_status, silent>>

(* MSG_FORK: create_process takes processes[process_count++] with no test  *)
(* of MAX_PROCESSES; the caller always gets 0.                             *)
MSG_FORK(p) ==
  /\ Calls(p)
  /\ process_count' = process_count + 1
  /\ \/ /\ process_count < MAX_PROCESSES
        /\ Enlist(p)
        /\ UNCHANGED mode
     \/ /\ process_count >= MAX_PROCESSES
        /\ mode' = "overrun"
        /\ UNCHANGED <<process_list, state, parent_pid, next_pid>>
  /\ Returns(p, 0)
  /\ UNCHANGED <<mail, current_process, resume, kallocs, exit_status, silent>>

ZombieChild(p, c) == parent_pid[c] = p /\ state[c] = "ZOMBIE"

(* Mutant: block without looking for zombies first. *)
WaitWithoutScan(p) ==
  /\ Calls(p)
  /\ schedule([state EXCEPT ![p] = "BLOCKED"], p, "wait")
  /\ UNCHANGED <<table, mail, exit_status, silent, ret>>

(* MSG_WAIT, up to the second scan: a child that is already a zombie is    *)
(* reported at once and not reaped, otherwise the caller blocks.           *)
MSG_WAIT(p) ==
  /\ Calls(p)
  /\ \/ /\ \E c \in Listed : ZombieChild(p, c)
        /\ Returns(p, 0)
        /\ UNCHANGED control
     \/ /\ ~ \E c \in Listed : ZombieChild(p, c)
        /\ schedule([state EXCEPT ![p] = "BLOCKED"], p, "wait")
        /\ UNCHANGED ret
  /\ UNCHANGED <<table, mail, exit_status, silent>>

(* MSG_WAIT after schedule() returned: scan again, give up if in vain. *)
MSG_WAIT_resumed(p) ==
  /\ mode = "run" /\ current_process = p /\ resume[p] = "wait"
  /\ resume' = [resume EXCEPT ![p] = "program"]
  /\ Returns(p, IF \E c \in Listed : ZombieChild(p, c) THEN 0 ELSE -1)
  /\ UNCHANGED <<table, mail, state, current_process, mode, exit_status, silent>>

(* Mutants: wake every blocked process; wake the parent whatever its       *)
(* state; forget to become a zombie.                                       *)
ExitWakesAll(p, status) ==
  LET st == [state EXCEPT ![p] = "ZOMBIE"]
  IN  /\ Calls(p)
      /\ exit_status' = [exit_status EXCEPT ![p] = status]
      /\ schedule([q \in Pid |-> IF st[q] = "BLOCKED" THEN "READY" ELSE st[q]],
                  p, "program")
      /\ UNCHANGED <<table, mail, ret, silent>>

ExitWakesAnyParent(p, status) ==
  LET st == [state EXCEPT ![p] = "ZOMBIE"]
  IN  /\ Calls(p)
      /\ exit_status' = [exit_status EXCEPT ![p] = status]
      /\ schedule([q \in Pid |-> IF q = parent_pid[p] THEN "READY" ELSE st[q]],
                  p, "program")
      /\ UNCHANGED <<table, mail, ret, silent>>

ExitWithoutZombie(p, status) ==
  /\ Calls(p)
  /\ exit_status' = [exit_status EXCEPT ![p] = status]
  /\ schedule(state, p, "program")
  /\ UNCHANGED <<table, mail, ret, silent>>

(* exit_process: find_process(parent_pid) and wake it if it is blocked. *)
exit_process(p, status) ==
  LET st == [state EXCEPT ![p] = "ZOMBIE"]
      woken == {q \in Listed : q = parent_pid[p] /\ st[q] = "BLOCKED"}
  IN  /\ Calls(p)
      /\ exit_status' = [exit_status EXCEPT ![p] = status]
      /\ schedule([q \in Pid |-> IF q \in woken THEN "READY" ELSE st[q]],
                  p, "program")
      /\ UNCHANGED <<table, mail, ret, silent>>

(* process_exit: forgets the current process and wakes nobody.             *)
(* ready_queue is never filled, so its loop does nothing.                  *)
process_exit(p, status) ==
  /\ Calls(p)
  /\ exit_status' = [exit_status EXCEPT ![p] = status]
  /\ silent' = silent \cup {p}
  /\ schedule([state EXCEPT ![p] = "ZOMBIE"], NULL, "program")
  /\ UNCHANGED <<table, mail, ret>>

(* Mutant: the mark of a waiting receiver is not cleared. *)
QueueKeepsMark(p, to, m) ==
  /\ Calls(p)
  /\ to \in Listed
  /\ \/ /\ Full(msg_queue[to])
        /\ Returns(p, -1)
        /\ UNCHANGED mail
     \/ /\ ~ Full(msg_queue[to])
        /\ msg_queue' = [msg_queue EXCEPT ![to] = Put(@, m)]
        /\ Returns(p, 0)
        /\ UNCHANGED <<msg_blocked, rcv>>
  /\ UNCHANGED <<table, control, exit_status, silent>>

(* queue_message, from p to any process that find_process can name. *)
queue_message(p, to, m) ==
  /\ Calls(p)
  /\ to \in Listed
  /\ \/ /\ Full(msg_queue[to])
        /\ Returns(p, -1)
        /\ UNCHANGED mail
     \/ /\ ~ Full(msg_queue[to])
        /\ msg_queue' = [msg_queue EXCEPT ![to] = Put(@, m)]
        /\ msg_blocked' = [msg_blocked EXCEPT ![to] = FALSE]
        /\ Returns(p, 0)
        /\ UNCHANGED rcv
  /\ UNCHANGED <<table, control, exit_status, silent>>

(* receive_message on an empty queue: with MSG_NONBLOCK it returns at      *)
(* once, otherwise it marks the caller and gives the CPU away.  The caller *)
(* stays runnable: nothing reads msg_blocked.                              *)
receive_nothing(p) ==
  /\ Empty(msg_queue[p])
  /\ \/ /\ Returns(p, -1)
        /\ UNCHANGED <<control, msg_blocked>>
     \/ /\ msg_blocked' = [msg_blocked EXCEPT ![p] = TRUE]
        /\ schedule(state, p, "receive")
        /\ UNCHANGED ret
  /\ UNCHANGED <<msg_queue, rcv>>

receive_front(p) ==
  /\ ~ Empty(msg_queue[p])
  /\ rcv' = [rcv EXCEPT ![p] = Front(msg_queue[p])]
  /\ msg_queue' = [msg_queue EXCEPT ![p] = Drop(@)]
  /\ Returns(p, 0)
  /\ UNCHANGED <<control, msg_blocked>>

receive_message(p) ==
  /\ Calls(p)
  /\ receive_nothing(p) \/ receive_front(p)
  /\ UNCHANGED <<table, exit_status, silent>>

(* receive_message after schedule() returned: -1, whatever has arrived. *)
receive_message_resumed(p) ==
  /\ mode = "run" /\ current_process = p /\ resume[p] = "receive"
  /\ resume' = [resume EXCEPT ![p] = "program"]
  /\ Returns(p, -1)
  /\ UNCHANGED <<table, mail, state, current_process, mode, exit_status, silent>>

--------------------------------------------------------------------------------
Exit(p) == \E s \in Status : exit_process(p, s) \/ process_exit(p, s)

Step(p) == \/ process_create(p)
           \/ MSG_FORK(p)
           \/ MSG_WAIT(p)
           \/ MSG_WAIT_resumed(p)
           \/ \E s \in Status : exit_process(p, s)
           \/ \E s \in Status : process_exit(p, s)
           \/ \E to \in Pid, m \in Msg : queue_message(p, to, m)
           \/ receive_message(p)
           \/ receive_message_resumed(p)

Next == \E p \in Pid : Step(p)

Spec == Init /\ [][Next]_vars

(* The CPU never idles inside a kernel call it can finish, and every       *)
(* program ends: the programs of process_test.c run straight to            *)
(* process_exit, so a program that keeps getting the CPU exits.  Nothing   *)
(* is assumed of the scheduler itself.                                     *)
Fairness == \A p \in Pid : /\ WF_vars(MSG_WAIT_resumed(p))
                           /\ WF_vars(receive_message_resumed(p))
                           /\ SF_vars(Exit(p))

FairSpec == Spec /\ Fairness

--------------------------------------------------------------------------------
(* Properties. *)

(* Every variable has its type. *)
TypeOK ==
  /\ process_list \in Seq(Pid)
  /\ state \in [Pid -> ProcState]
  /\ parent_pid \in [Pid -> Pid \cup {0}]
  /\ exit_status \in [Pid -> Status \cup {0}]
  /\ current_process \in Pid \cup {NULL}
  /\ next_pid \in 2 .. (MAX_PROCESSES + MAX_KALLOC + 1)
  /\ process_count \in 1 .. (MAX_PROCESSES + 1)
  /\ kallocs \in 0 .. MAX_KALLOC
  /\ resume \in [Pid -> Point]
  /\ msg_queue \in [Pid -> message_queue]
  /\ msg_blocked \in [Pid -> BOOLEAN]
  /\ rcv \in [Pid -> Msg \cup {NoMsg}]
  /\ ret \in [Pid -> {0, -1}]
  /\ mode \in Mode
  /\ silent \subseteq Pid

(* process_list links every process ever created, newest first and each    *)
(* once: find_process and the scans of schedule() and MSG_WAIT miss nobody *)
(* although process_create and create_process each relink the list.        *)
ListComplete ==
  /\ Len(process_list) = next_pid - 1
  /\ \A i \in 1 .. Len(process_list) : process_list[i] = next_pid - i
  /\ \A p \in Pid : state[p] = "UNUSED" <=> p >= next_pid

(* While the kernel runs, exactly one process is RUNNING and it is the one *)
(* current_process names: no path through schedule(), the exit calls or    *)
(* the waits leaves a second one behind or none at all.                    *)
OneRunning ==
  mode = "run" => /\ current_process \in Listed
                  /\ \A p \in Pid : state[p] = "RUNNING" <=> p = current_process

(* A process blocked in MSG_WAIT never sits beside a zombie child, unless  *)
(* that child left through process_exit, which wakes nobody: exit_process  *)
(* loses no wake-up, whichever of the two acts first.                      *)
NoLostWakeup ==
  \A p, c \in Pid :
    state[p] = "BLOCKED" /\ ZombieChild(p, c) => c \in silent

(* A wait that gave the CPU away and has it back finds a zombie child: the *)
(* `return -1' at the end of MSG_WAIT is never reached.                    *)
WaitSucceeds ==
  mode = "run" /\ current_process # NULL /\ resume[current_process] = "wait"
    => \E c \in Listed : ZombieChild(current_process, c)

(* schedule() spins for ever only when every process has ended, or the     *)
(* last one that can run waits for a message, or somebody waits for        *)
(* children it has not got, or has lost through process_exit: processes    *)
(* that wait for one another never come to a standstill.                   *)
HangHasCause ==
  mode = "hang" =>
    \/ \A p \in Listed : state[p] = "ZOMBIE"
    \/ \E p \in Listed : state[p] = "RUNNING" /\ msg_blocked[p]
    \/ \E p \in Listed : /\ state[p] = "BLOCKED"
                        /\ \A c \in Listed : parent_pid[c] = p => c \in silent

(* What makes the properties above inductive.  Until create_process        *)
(* overruns, pids are handed out as structures are; a blocked process is   *)
(* inside MSG_WAIT; and a process inside MSG_WAIT that is not blocked any  *)
(* more has been woken by a child that is still a zombie.                  *)
PidsCounted ==
  mode # "overrun" => /\ process_count <= MAX_PROCESSES
                      /\ next_pid = process_count + kallocs + 1

BlockedInWait ==
  mode = "run" => \A p \in Pid : state[p] = "BLOCKED" => resume[p] = "wait"

WokenByChild ==
  mode = "run" => \A p \in Pid : resume[p] = "wait" /\ state[p] # "BLOCKED"
                                  => \E c \in Pid : ZombieChild(p, c)

(* The invariant that the steps of the kernel preserve. *)
ProcessInv == /\ TypeOK /\ ListComplete /\ PidsCounted /\ OneRunning
              /\ NoLostWakeup /\ BlockedInWait /\ WokenByChild

(* msg_blocked marks only processes whose queue is empty: a message that   *)
(* arrives for a waiting receiver always clears the mark.                  *)
BlockedMeansEmpty ==
  \A p \in Pid : msg_blocked[p] => Empty(msg_queue[p])

(* head, tail and count of every queue agree, through any interleaving of  *)
(* senders and the receiver and any number of turns around the ring.       *)
RingsSound == \A p \in Pid : RingInv(msg_queue[p])

(* A zombie stays a zombie: it is never scheduled again, and the status it *)
(* left for its parent is never overwritten.                               *)
ZombiesKept ==
  \A p \in Pid : state[p] = "ZOMBIE" =>
                 state'[p] = "ZOMBIE" /\ exit_status'[p] = exit_status[p]

ZombieIsFinal == [][ZombiesKept]_vars

(* The rings implement bounded first-in first-out mailboxes. *)
MB == INSTANCE Mailbox WITH
        Owner <- Pid, Capacity <- MAX_MESSAGES, got <- rcv,
        box <- [p \in Pid |-> Content(msg_queue[p])]

(* Messages are received once each, in the order queue_message accepted    *)
(* them, and only by the process they were queued for; a full queue        *)
(* rejects, and never overwrites.                                          *)
MailboxSpec == MB!Spec

(* If programs end, a READY process gets the CPU although schedule()       *)
(* always prefers newer ones, and before the kernel halts for want of      *)
(* READY processes.                                                        *)
ReadyRuns ==
  \A p \in Pid : state[p] = "READY" ~>
                   (state[p] = "RUNNING" \/ mode \in {"lost", "overrun"})
================================================================================
