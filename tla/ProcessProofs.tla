----------------------------- MODULE ProcessProofs -----------------------------
(***************************************************************************)
(* Proofs about Process, for every size of the process table, the heap and *)
(* the message rings.                                                      *)
(***************************************************************************)
EXTENDS Process, MessageRingProofs

USE DEF NULL

(* With a complete list, the processes the list reaches are exactly the    *)
(* pids handed out so far.                                                 *)
LEMMA ListedPids ==
  ASSUME TypeOK, ListComplete
  PROVE  Listed = 1 .. (next_pid - 1)
<1>1. next_pid \in Nat /\ next_pid >= 2 /\ Len(process_list) = next_pid - 1
  BY ProcessAssumption DEF TypeOK, ListComplete
<1>2. \A i \in 1 .. Len(process_list) : process_list[i] = next_pid - i
  BY DEF ListComplete
<1>3. \A p \in 1 .. (next_pid - 1) :
        next_pid - p \in 1 .. Len(process_list) /\ process_list[next_pid - p] = p
  BY <1>1, <1>2
<1>4. \A i \in 1 .. Len(process_list) : process_list[i] \in 1 .. (next_pid - 1)
  BY <1>1, <1>2
<1> QED
  BY <1>3, <1>4 DEF Listed

(* What schedule() does to the process states st it is called with: it     *)
(* only moves processes between READY and RUNNING; if the kernel goes on,  *)
(* one process runs and the caller is suspended at the given point.        *)
LEMMA ScheduleEffect ==
  ASSUME TypeOK, ListComplete, mode = "run", UNCHANGED process_list,
         NEW st \in [Pid -> ProcState],
         NEW cur \in Pid \cup {NULL},
         NEW point \in Point \ {"fresh"},
         \A p \in Pid : st[p] = "RUNNING" => p = cur,
         cur # NULL => st[cur] # "READY",
         schedule(st, cur, point)
  PROVE  /\ state' \in [Pid -> ProcState]
         /\ current_process' \in Pid \cup {NULL}
         /\ resume' \in [Pid -> Point]
         /\ mode' \in {"run", "hang", "lost"}
         /\ \A p \in Pid, s \in {"BLOCKED", "ZOMBIE", "UNUSED"} :
              state'[p] = s <=> st[p] = s
         /\ mode' = "run" => OneRunning'
         /\ mode' = "run" => \A p \in Pid :
              resume'[p] = "wait" <=> IF p = cur THEN point = "wait"
                                                 ELSE resume[p] = "wait"
<1>1. CASE \E i \in 1 .. Len(process_list) :
             /\ FirstReady(st, i)
             /\ state' = Dispatch(st, cur, process_list[i])
             /\ current_process' = process_list[i]
             /\ context_switch(cur, point, process_list[i])
  <2>1. PICK i \in 1 .. Len(process_list) :
             /\ FirstReady(st, i)
             /\ state' = Dispatch(st, cur, process_list[i])
             /\ current_process' = process_list[i]
             /\ context_switch(cur, point, process_list[i])
    BY <1>1
  <2> DEFINE next == process_list[i]
             st1  == [st EXCEPT ![next] = "RUNNING"]
             saved == IF cur = NULL THEN resume ELSE [resume EXCEPT ![cur] = point]
  <2>2. next \in Pid /\ st[next] = "READY"
    BY <2>1 DEF TypeOK, FirstReady
  <2>3. next # cur
    BY <2>2, ProcessAssumption DEF Pid
  <2>4. state' = IF cur # NULL /\ st1[cur] = "RUNNING"
                 THEN [st1 EXCEPT ![cur] = "READY"] ELSE st1
    BY <2>1 DEF Dispatch
  <2>5. /\ state' \in [Pid -> ProcState]
        /\ \A p \in Pid : state'[p] = IF p = next THEN "RUNNING"
                                      ELSE IF p = cur /\ st[p] = "RUNNING"
                                           THEN "READY" ELSE st[p]
    BY <2>2, <2>3, <2>4, ProcessAssumption DEF ProcState, Pid
  <2>6. saved \in [Pid -> Point]
    BY DEF TypeOK, Point
  <2>7. /\ resume' \in [Pid -> Point]
        /\ mode' \in {"run", "lost"}
        /\ mode' = "run" => \A p \in Pid : resume'[p] = "wait" <=> saved[p] = "wait"
    BY <2>1, <2>2, <2>6 DEF context_switch, Point
  <2>8. \A p \in Pid : saved[p] = IF p = cur THEN point ELSE resume[p]
    BY ProcessAssumption DEF TypeOK, Pid
  <2>9. \A p \in Pid, s \in {"BLOCKED", "ZOMBIE", "UNUSED"} :
              state'[p] = s <=> st[p] = s
    BY <2>2, <2>5
  <2>10. OneRunning'
    BY <2>1, <2>2, <2>5 DEF OneRunning, Listed
  <2> QED
    BY <2>1, <2>2, <2>5, <2>7, <2>8, <2>9, <2>10
<1>2. CASE /\ \A i \in 1 .. Len(process_list) : st[process_list[i]] # "READY"
           /\ state' = st
           /\ current_process' = cur
           /\ mode' = "hang"
           /\ UNCHANGED resume
  BY <1>2 DEF TypeOK, Point
<1> QED
  BY <1>1, <1>2 DEF schedule

(* The first state of the kernel satisfies the invariant. *)
LEMMA InitInv == Init => ProcessInv
<1> SUFFICES ASSUME Init PROVE ProcessInv
  OBVIOUS
<1>1. 1 \in Pid /\ Len(process_list) = 1 /\ process_list[1] = 1
  BY ProcessAssumption DEF Init, Pid
<1>2. EmptyRing \in message_queue
  BY RingAssumption DEF EmptyRing, message_queue, Slot
<1>3. TypeOK
  <2>1. process_list \in Seq(Pid)
    BY <1>1 DEF Init
  <2>2. state \in [Pid -> ProcState] /\ resume \in [Pid -> Point]
    BY DEF Init, ProcState, Point
  <2> QED
    BY <1>1, <1>2, <2>1, <2>2, ProcessAssumption DEF TypeOK, Init, Mode
<1>4. ListComplete
  BY <1>1, ProcessAssumption DEF ListComplete, Init, Pid
<1>5. OneRunning
  BY <1>1 DEF OneRunning, Init, Listed
<1>6. PidsCounted /\ NoLostWakeup /\ BlockedInWait /\ WokenByChild
  BY ProcessAssumption
  DEF PidsCounted, NoLostWakeup, BlockedInWait, WokenByChild, ZombieChild, Init
<1> QED
  BY <1>3, <1>4, <1>5, <1>6 DEF ProcessInv

(* A new process keeps the list complete, and disturbs no other process:   *)
(* the part common to process_create and MSG_FORK.                         *)
LEMMA EnlistEffect ==
  ASSUME TypeOK, ListComplete, next_pid \in Pid,
         NEW parent \in Pid \cup {0}, Enlist(parent)
  PROVE  /\ process_list' \in Seq(Pid)
         /\ state' \in [Pid -> ProcState]
         /\ parent_pid' \in [Pid -> Pid \cup {0}]
         /\ next_pid' \in 2 .. (MAX_PROCESSES + MAX_KALLOC + 1)
         /\ ListComplete'
         /\ Listed \subseteq Listed'
         /\ state[next_pid] = "UNUSED"
         /\ \A p \in Pid \ {next_pid} : /\ state'[p] = state[p]
                                        /\ parent_pid'[p] = parent_pid[p]
         /\ state'[next_pid] = "READY"
<1>1. /\ process_list \in Seq(Pid) /\ <<next_pid>> \in Seq(Pid)
      /\ process_list' = <<next_pid>> \o process_list
  BY DEF TypeOK, Enlist
<1>2. /\ process_list' \in Seq(Pid)
      /\ Len(process_list') = Len(process_list) + 1
      /\ process_list'[1] = next_pid
      /\ \A i \in 1 .. Len(process_list) : process_list'[i + 1] = process_list[i]
  <2>1. /\ Len(<<next_pid>>) = 1 /\ <<next_pid>>[1] = next_pid
        /\ Len(process_list) \in Nat
    BY <1>1
  <2>2. process_list' \in Seq(Pid) /\ Len(process_list') = 1 + Len(process_list)
    BY <1>1, <2>1, ConcatProperties
  <2>3. \A i \in 1 .. (1 + Len(process_list)) :
          process_list'[i] = IF i <= 1 THEN <<next_pid>>[i] ELSE process_list[i - 1]
    BY <1>1, <2>1, ConcatProperties
  <2> QED
    BY <2>1, <2>2, <2>3
<1>3. /\ next_pid \in Nat /\ next_pid >= 2 /\ Len(process_list) = next_pid - 1
      /\ MAX_PROCESSES \in Nat /\ MAX_KALLOC \in Nat
      /\ next_pid <= MAX_PROCESSES + MAX_KALLOC
      /\ next_pid' = next_pid + 1
  BY ProcessAssumption DEF TypeOK, ListComplete, Pid, Enlist
<1>4. \A i \in 1 .. Len(process_list') : process_list'[i] = next_pid' - i
  <2> SUFFICES ASSUME NEW i \in 1 .. Len(process_list')
               PROVE  process_list'[i] = next_pid' - i
    OBVIOUS
  <2>1. CASE i = 1
    BY <1>2, <1>3, <2>1
  <2>2. CASE i # 1
    <3>1. i - 1 \in 1 .. Len(process_list) /\ (i - 1) + 1 = i
      BY <1>2, <1>3, <2>2
    <3>2. process_list[i - 1] = next_pid - (i - 1)
      BY <3>1 DEF ListComplete
    <3> QED
      BY <1>2, <1>3, <3>1, <3>2
  <2> QED
    BY <2>1, <2>2
<1>5. /\ state' = [state EXCEPT ![next_pid] = "READY"]
      /\ parent_pid' = [parent_pid EXCEPT ![next_pid] = parent]
  BY DEF Enlist
<1>6. \A p \in Pid : state'[p] = "UNUSED" <=> p >= next_pid'
  BY <1>3, <1>5 DEF ListComplete, TypeOK, Pid
<1>7. Listed \subseteq Listed'
  <2> SUFFICES ASSUME NEW i \in 1 .. Len(process_list)
               PROVE  process_list[i] \in Listed'
    BY DEF Listed
  <2>1. i + 1 \in 1 .. Len(process_list') /\ process_list'[i + 1] = process_list[i]
    BY <1>2, <1>3
  <2> QED
    BY <2>1 DEF Listed
<1>8. state[next_pid] = "UNUSED"
  BY <1>3 DEF ListComplete
<1> QED
  BY <1>2, <1>3, <1>4, <1>5, <1>6, <1>7, <1>8 DEF ListComplete, TypeOK, ProcState

(* q is inside MSG_WAIT once cur is suspended at the given point. *)
WaitsAt(q, cur, point) == IF q = cur THEN point = "wait" ELSE resume[q] = "wait"

(* What a caller of schedule() must have made of the process states.       *)
SafeToSchedule(st, cur, point) ==
  /\ st \in [Pid -> ProcState]
  /\ cur \in Pid \cup {NULL}
  /\ point \in Point \ {"fresh"}
  /\ \A p \in Pid : st[p] = "RUNNING" => p = cur
  /\ cur # NULL => st[cur] # "READY"
  /\ \A p \in Pid : st[p] = "UNUSED" <=> state[p] = "UNUSED"
  /\ \A p, c \in Pid : st[p] = "BLOCKED" /\ parent_pid[c] = p /\ st[c] = "ZOMBIE"
                         => c \in silent'
  /\ \A p \in Pid : st[p] = "BLOCKED" => WaitsAt(p, cur, point)
  /\ \A p \in Pid : WaitsAt(p, cur, point) /\ st[p] # "BLOCKED"
                   => \E c \in Pid : parent_pid[c] = p /\ st[c] = "ZOMBIE"

(* The invariant through any call that ends in schedule().                 *)
LEMMA ScheduleInv ==
  ASSUME ProcessInv, mode = "run", UNCHANGED table,
         exit_status' \in [Pid -> Status \cup {0}],
         UNCHANGED <<msg_queue, rcv>>, msg_blocked' \in [Pid -> BOOLEAN],
         ret' \in [Pid -> {0, -1}],
         silent' \subseteq Pid,
         NEW st, NEW cur, NEW point,
         SafeToSchedule(st, cur, point),
         schedule(st, cur, point)
  PROVE  ProcessInv'
<1> USE DEF SafeToSchedule, WaitsAt
<1>1. TypeOK /\ ListComplete /\ PidsCounted
  BY DEF ProcessInv
<1>2. /\ state' \in [Pid -> ProcState]
      /\ current_process' \in Pid \cup {NULL}
      /\ resume' \in [Pid -> Point]
      /\ mode' \in {"run", "hang", "lost"}
      /\ \A p \in Pid, s \in {"BLOCKED", "ZOMBIE", "UNUSED"} :
           state'[p] = s <=> st[p] = s
      /\ mode' = "run" => OneRunning'
      /\ mode' = "run" => \A p \in Pid :
           resume'[p] = "wait" <=> IF p = cur THEN point = "wait"
                                              ELSE resume[p] = "wait"
  BY <1>1, ScheduleEffect DEF table
<1>3. /\ \A p \in Pid : state'[p] = "BLOCKED" <=> st[p] = "BLOCKED"
      /\ \A p \in Pid : state'[p] = "ZOMBIE" <=> st[p] = "ZOMBIE"
      /\ \A p \in Pid : state'[p] = "UNUSED" <=> st[p] = "UNUSED"
  BY <1>2
<1>4. TypeOK'
  BY <1>1, <1>2 DEF TypeOK, table, Mode
<1>5. ListComplete'
  BY <1>1, <1>3 DEF ListComplete, table
<1>6. PidsCounted'
  BY <1>1 DEF PidsCounted, table
<1>7. OneRunning'
  BY <1>2 DEF OneRunning
<1>8. NoLostWakeup'
  BY <1>3 DEF NoLostWakeup, ZombieChild, table
<1>9. BlockedInWait'
  BY <1>2, <1>3 DEF BlockedInWait
<1>10. WokenByChild'
  BY <1>2, <1>3 DEF WokenByChild, ZombieChild, table
<1> QED
  BY <1>4, <1>5, <1>6, <1>7, <1>8, <1>9, <1>10 DEF ProcessInv

(* What a process that makes a kernel call knows. *)
LEMMA CallerRuns ==
  ASSUME ProcessInv, NEW p \in Pid, mode = "run", current_process = p
  PROVE  /\ \A q \in Pid : state[q] = "RUNNING" <=> q = p
         /\ p # NULL
BY ProcessAssumption DEF ProcessInv, OneRunning, Pid

(* The invariant through a call that moves no process.                     *)
LEMMA FrameInv ==
  ASSUME ProcessInv, UNCHANGED <<table, control, silent>>, TypeOK'
  PROVE  ProcessInv'
<1>1. /\ UNCHANGED <<process_list, parent_pid, next_pid, process_count, kallocs>>
      /\ UNCHANGED <<state, current_process, resume, mode, silent>>
  BY DEF table, control
<1>2. ListComplete' /\ PidsCounted' /\ OneRunning'
  BY <1>1 DEF ProcessInv, ListComplete, PidsCounted, OneRunning, Listed
<1>3. NoLostWakeup'
  BY <1>1 DEF ProcessInv, NoLostWakeup, ZombieChild
<1>4. BlockedInWait' /\ WokenByChild'
  BY <1>1 DEF ProcessInv, BlockedInWait, WokenByChild, ZombieChild
<1> QED
  BY <1>2, <1>3, <1>4 DEF ProcessInv

(* MSG_WAIT scans before it blocks, so it blocks beside no zombie child. *)
LEMMA WaitInv ==
  ASSUME ProcessInv, NEW p \in Pid, MSG_WAIT(p)
  PROVE  ProcessInv'
<1>1. TypeOK /\ ListComplete /\ NoLostWakeup /\ BlockedInWait /\ WokenByChild
  BY DEF ProcessInv
<1>2. /\ mode = "run" /\ resume[p] = "program" /\ state[p] = "RUNNING"
      /\ \A q \in Pid : state[q] = "RUNNING" <=> q = p
      /\ p # NULL
  BY CallerRuns DEF MSG_WAIT, Calls
<1>3. CASE Returns(p, 0) /\ UNCHANGED control
  <2>1. ret' \in [Pid -> {0, -1}]
    BY <1>1, <1>3 DEF Returns, TypeOK
  <2>2. TypeOK'
    BY <1>1, <1>3, <2>1 DEF TypeOK, MSG_WAIT, table, mail, control
  <2> QED
    BY <1>3, <2>2, FrameInv DEF MSG_WAIT
<1>4. CASE /\ ~ \E c \in Listed : ZombieChild(p, c)
           /\ schedule([state EXCEPT ![p] = "BLOCKED"], p, "wait")
           /\ UNCHANGED ret
  <2> DEFINE st == [state EXCEPT ![p] = "BLOCKED"]
  <2>1. /\ st \in [Pid -> ProcState]
        /\ \A q \in Pid : st[q] = IF q = p THEN "BLOCKED" ELSE state[q]
    BY <1>1 DEF TypeOK, ProcState
  <2>2. \A c \in Pid : ~ ZombieChild(p, c)
    <3>1. \A c \in Pid : state[c] = "ZOMBIE" => c \in Listed
      BY <1>1, ListedPids, ProcessAssumption DEF ListComplete, TypeOK, Pid
    <3> QED
      BY <1>4, <3>1 DEF ZombieChild
  <2>3. \A q, c \in Pid : st[q] = "BLOCKED" /\ parent_pid[c] = q /\ st[c] = "ZOMBIE"
                              => c \in silent'
    BY <1>1, <2>1, <2>2 DEF NoLostWakeup, ZombieChild, MSG_WAIT
  <2>4. \A q \in Pid : st[q] = "BLOCKED" => WaitsAt(q, p, "wait")
    BY <1>1, <1>2, <2>1 DEF BlockedInWait, WaitsAt
  <2>5. \A q \in Pid : WaitsAt(q, p, "wait") /\ st[q] # "BLOCKED"
                       => \E c \in Pid : parent_pid[c] = q /\ st[c] = "ZOMBIE"
    BY <1>1, <1>2, <2>1 DEF WokenByChild, ZombieChild, WaitsAt
  <2>6. /\ UNCHANGED <<table, mail, exit_status, silent>>
        /\ schedule(st, p, "wait")
    BY <1>4 DEF MSG_WAIT
  <2>7. /\ \A q \in Pid : st[q] = "RUNNING" => q = p
        /\ st[p] # "READY"
        /\ \A q \in Pid : st[q] = "UNUSED" <=> state[q] = "UNUSED"
    BY <1>2, <2>1
  <2>8. SafeToSchedule(st, p, "wait")
    BY <1>2, <2>1, <2>3, <2>4, <2>5, <2>7 DEF SafeToSchedule, Point
  <2> HIDE DEF st
  <2> QED
    BY <1>1, <1>2, <1>4, <2>6, <2>8, ScheduleInv DEF TypeOK, mail
<1> QED
  BY <1>3, <1>4 DEF MSG_WAIT

(* exit_process wakes the parent that was blocked beside its new zombie. *)
LEMMA ExitProcessInv ==
  ASSUME ProcessInv, NEW p \in Pid, NEW s \in Status, exit_process(p, s)
  PROVE  ProcessInv'
<1> DEFINE dead == [state EXCEPT ![p] = "ZOMBIE"]
           woken == {q \in Listed : q = parent_pid[p] /\ dead[q] = "BLOCKED"}
           st == [q \in Pid |-> IF q \in woken THEN "READY" ELSE dead[q]]
<1>1. TypeOK /\ ListComplete /\ NoLostWakeup /\ BlockedInWait /\ WokenByChild
  BY DEF ProcessInv
<1>2. /\ mode = "run" /\ resume[p] = "program" /\ state[p] = "RUNNING"
      /\ \A q \in Pid : state[q] = "RUNNING" <=> q = p
      /\ p # NULL
  BY CallerRuns DEF exit_process, Calls
<1>3. /\ UNCHANGED <<table, mail, ret, silent>>
      /\ exit_status' = [exit_status EXCEPT ![p] = s]
      /\ schedule(st, p, "program")
  BY DEF exit_process
<1>4. \A q \in Pid : q \in woken <=> q = parent_pid[p] /\ dead[q] = "BLOCKED"
  <2>1. \A q \in Pid : state[q] = "BLOCKED" => q \in Listed
    BY <1>1, ListedPids, ProcessAssumption DEF ListComplete, TypeOK, Pid
  <2>2. \A q \in Pid : dead[q] = "BLOCKED" => state[q] = "BLOCKED"
    BY <1>1 DEF TypeOK
  <2> QED
    BY <2>1, <2>2
<1>5. /\ st \in [Pid -> ProcState]
      /\ st[p] = "ZOMBIE"
      /\ \A q \in Pid \ {p} : st[q] = IF q = parent_pid[p] /\ state[q] = "BLOCKED"
                                    THEN "READY" ELSE state[q]
  BY <1>1, <1>4 DEF TypeOK, ProcState
<1> HIDE DEF st
<1>6. \A q, c \in Pid : st[q] = "BLOCKED" /\ parent_pid[c] = q /\ st[c] = "ZOMBIE"
                          => c \in silent'
  BY <1>1, <1>3, <1>5 DEF NoLostWakeup, ZombieChild
<1>7. \A q \in Pid : st[q] = "BLOCKED" => WaitsAt(q, p, "program")
  BY <1>1, <1>2, <1>5 DEF BlockedInWait, WaitsAt
<1>8. \A q \in Pid : WaitsAt(q, p, "program") /\ st[q] # "BLOCKED"
                     => \E c \in Pid : parent_pid[c] = q /\ st[c] = "ZOMBIE"
  <2> SUFFICES ASSUME NEW q \in Pid, q # p, resume[q] = "wait", st[q] # "BLOCKED"
               PROVE  \E c \in Pid : parent_pid[c] = q /\ st[c] = "ZOMBIE"
    BY DEF WaitsAt
  <2>1. CASE state[q] = "BLOCKED"
    BY <1>5, <2>1
  <2>2. CASE state[q] # "BLOCKED"
    <3>1. PICK c \in Pid : parent_pid[c] = q /\ state[c] = "ZOMBIE"
      BY <1>1, <1>2, <2>2 DEF WokenByChild, ZombieChild
    <3> QED
      BY <1>5, <3>1
  <2> QED
    BY <2>1, <2>2
<1>9. SafeToSchedule(st, p, "program")
  BY <1>1, <1>2, <1>5, <1>6, <1>7, <1>8 DEF SafeToSchedule, Point
<1> QED
  BY <1>1, <1>2, <1>3, <1>9, ScheduleInv DEF TypeOK, mail

(* process_exit wakes nobody and is one of the silent exits.               *)
LEMMA ProcessExitInv ==
  ASSUME ProcessInv, NEW p \in Pid, NEW s \in Status, process_exit(p, s)
  PROVE  ProcessInv'
<1> DEFINE st == [state EXCEPT ![p] = "ZOMBIE"]
<1>1. TypeOK /\ ListComplete /\ NoLostWakeup /\ BlockedInWait /\ WokenByChild
  BY DEF ProcessInv
<1>2. /\ mode = "run" /\ resume[p] = "program" /\ state[p] = "RUNNING"
      /\ \A q \in Pid : state[q] = "RUNNING" <=> q = p
      /\ p # NULL
  BY CallerRuns DEF process_exit, Calls
<1>3. /\ UNCHANGED <<table, mail, ret>>
      /\ silent' = silent \cup {p}
      /\ exit_status' = [exit_status EXCEPT ![p] = s]
      /\ schedule(st, NULL, "program")
  BY DEF process_exit
<1>4. /\ st \in [Pid -> ProcState]
      /\ \A q \in Pid : st[q] = IF q = p THEN "ZOMBIE" ELSE state[q]
  BY <1>1 DEF TypeOK, ProcState
<1> HIDE DEF st
<1>5. \A q, c \in Pid : st[q] = "BLOCKED" /\ parent_pid[c] = q /\ st[c] = "ZOMBIE"
                          => c \in silent'
  BY <1>1, <1>3, <1>4 DEF NoLostWakeup, ZombieChild
<1>6. \A q \in Pid : q # NULL
  BY ProcessAssumption DEF Pid
<1>7. \A q \in Pid : st[q] = "BLOCKED" => WaitsAt(q, NULL, "program")
  BY <1>1, <1>2, <1>4, <1>6 DEF BlockedInWait, WaitsAt
<1>8. \A q \in Pid : WaitsAt(q, NULL, "program") /\ st[q] # "BLOCKED"
                     => \E c \in Pid : parent_pid[c] = q /\ st[c] = "ZOMBIE"
  BY <1>1, <1>2, <1>4, <1>6 DEF WokenByChild, ZombieChild, WaitsAt
<1>9. SafeToSchedule(st, NULL, "program")
  BY <1>1, <1>2, <1>4, <1>5, <1>7, <1>8 DEF SafeToSchedule, Point
<1> QED
  BY <1>1, <1>2, <1>3, <1>9, ScheduleInv DEF TypeOK, mail

(* A receive that waits gives the CPU away as a runnable process.          *)
LEMMA ReceiveInv ==
  ASSUME ProcessInv, NEW p \in Pid, receive_message(p)
  PROVE  ProcessInv'
<1>1. TypeOK /\ ListComplete /\ NoLostWakeup /\ BlockedInWait /\ WokenByChild
  BY DEF ProcessInv
<1>2. /\ mode = "run" /\ resume[p] = "program" /\ state[p] = "RUNNING"
      /\ \A q \in Pid : state[q] = "RUNNING" <=> q = p
      /\ p # NULL
      /\ UNCHANGED <<table, exit_status, silent>>
  BY CallerRuns DEF receive_message, Calls
<1>3. CASE /\ msg_blocked' = [msg_blocked EXCEPT ![p] = TRUE]
           /\ schedule(state, p, "receive")
           /\ UNCHANGED <<ret, msg_queue, rcv>>
  <2>1. SafeToSchedule(state, p, "receive")
    BY <1>1, <1>2
    DEF SafeToSchedule, WaitsAt, Point, TypeOK, NoLostWakeup, BlockedInWait,
        WokenByChild, ZombieChild
  <2> QED
    BY <1>1, <1>2, <1>3, <2>1, ScheduleInv DEF TypeOK
<1>4. CASE UNCHANGED control
  <2>1. /\ ret' \in [Pid -> {0, -1}]
        /\ msg_queue' \in [Pid -> message_queue]
        /\ rcv' \in [Pid -> Msg \cup {NoMsg}]
        /\ msg_blocked' \in [Pid -> BOOLEAN]
    <3>1. msg_queue[p] \in message_queue
      BY <1>1 DEF TypeOK
    <3>2. CASE receive_nothing(p)
      BY <1>1, <3>2 DEF receive_nothing, Returns, TypeOK
    <3>3. CASE receive_front(p)
      BY <1>1, <3>1, <3>3, DropType DEF receive_front, Returns, TypeOK
    <3> QED
      BY <3>2, <3>3 DEF receive_message
  <2>2. TypeOK'
    BY <1>1, <1>2, <1>4, <2>1 DEF TypeOK, table, control
  <2> QED
    BY <1>2, <1>4, <2>2, FrameInv
<1> QED
  BY <1>3, <1>4 DEF receive_message, receive_nothing, receive_front

(* Queueing a message moves no process.                                    *)
LEMMA QueueInv ==
  ASSUME ProcessInv, NEW p \in Pid, NEW to \in Pid, NEW m \in Msg,
         queue_message(p, to, m)
  PROVE  ProcessInv'
<1>1. TypeOK
  BY DEF ProcessInv
<1>2. /\ ret' \in [Pid -> {0, -1}]
      /\ msg_queue' \in [Pid -> message_queue]
      /\ rcv' = rcv
      /\ msg_blocked' \in [Pid -> BOOLEAN]
  <2>1. msg_queue[to] \in message_queue
    BY <1>1 DEF TypeOK
  <2>2. CASE Full(msg_queue[to])
    BY <1>1, <2>2 DEF queue_message, Returns, TypeOK, mail
  <2>3. CASE ~ Full(msg_queue[to])
    <3>1. Put(msg_queue[to], m) \in message_queue
      BY <2>1, <2>3, PutType
    <3> QED
      BY <1>1, <2>3, <3>1 DEF queue_message, Returns, TypeOK
  <2> QED
    BY <2>2, <2>3
<1>3. TypeOK'
  BY <1>1, <1>2 DEF queue_message, TypeOK, table, control
<1> QED
  BY <1>3, FrameInv DEF queue_message

(* A fork or a process from the heap adds one READY process to the list. *)
LEMMA CreateInv ==
  ASSUME ProcessInv, NEW p \in Pid, process_create(p) \/ MSG_FORK(p)
  PROVE  ProcessInv'
<1>1. /\ TypeOK /\ ListComplete /\ PidsCounted /\ OneRunning
      /\ NoLostWakeup /\ BlockedInWait /\ WokenByChild
  BY DEF ProcessInv
<1>2. /\ mode = "run" /\ current_process = p /\ p # 0
      /\ MAX_PROCESSES \in Nat /\ MAX_KALLOC \in Nat
      /\ process_count \in Nat /\ kallocs \in Nat /\ next_pid \in Nat
      /\ process_count <= MAX_PROCESSES /\ kallocs <= MAX_KALLOC
      /\ next_pid = process_count + kallocs + 1
  BY <1>1, CallerRuns, ProcessAssumption
  DEF process_create, MSG_FORK, Calls, PidsCounted, TypeOK
<1>3. /\ ret' \in [Pid -> {0, -1}]
      /\ UNCHANGED <<mail, current_process, resume, exit_status, silent>>
  BY <1>1 DEF process_create, MSG_FORK, Returns, TypeOK
<1>4. ASSUME NEW parent \in Pid \cup {0}, Enlist(parent), UNCHANGED mode,
             next_pid \in Pid,
             process_count' \in 1 .. MAX_PROCESSES, kallocs' \in 0 .. MAX_KALLOC,
             process_count' + kallocs' = process_count + kallocs + 1
      PROVE  ProcessInv'
  <2>1. /\ process_list' \in Seq(Pid)
        /\ state' \in [Pid -> ProcState]
        /\ parent_pid' \in [Pid -> Pid \cup {0}]
        /\ next_pid' \in 2 .. (MAX_PROCESSES + MAX_KALLOC + 1)
        /\ ListComplete'
        /\ Listed \subseteq Listed'
        /\ state[next_pid] = "UNUSED"
        /\ \A q \in Pid \ {next_pid} : /\ state'[q] = state[q]
                                       /\ parent_pid'[q] = parent_pid[q]
        /\ state'[next_pid] = "READY"
    BY <1>1, <1>4, EnlistEffect
  <2>2. TypeOK'
    BY <1>1, <1>2, <1>3, <1>4, <2>1 DEF TypeOK, mail
  <2>3. PidsCounted'
    <3>1. /\ next_pid' = next_pid + 1 /\ process_count' <= MAX_PROCESSES
          /\ process_count' \in Nat /\ kallocs' \in Nat
      BY <1>2, <1>4 DEF Enlist
    <3> QED
      BY <1>2, <1>4, <3>1 DEF PidsCounted
  <2>4. OneRunning'
    BY <1>1, <1>2, <1>3, <1>4, <2>1 DEF OneRunning
  <2>5. NoLostWakeup'
    BY <1>1, <1>3, <2>1 DEF NoLostWakeup, ZombieChild
  <2>6. BlockedInWait'
    BY <1>1, <1>2, <1>3, <2>1 DEF BlockedInWait
  <2>7. WokenByChild'
    <3> SUFFICES ASSUME NEW q \in Pid, resume[q] = "wait", state'[q] # "BLOCKED"
                 PROVE  \E c \in Pid : ZombieChild(q, c)'
      BY <1>3 DEF WokenByChild
    <3>1. state[q] # "BLOCKED"
      BY <2>1
    <3>2. PICK c \in Pid : ZombieChild(q, c)
      BY <1>1, <1>2, <3>1 DEF WokenByChild
    <3>3. c # next_pid
      BY <2>1, <3>2 DEF ZombieChild
    <3> QED
      BY <2>1, <3>2, <3>3 DEF ZombieChild
  <2> QED
    BY <2>1, <2>2, <2>3, <2>4, <2>5, <2>6, <2>7 DEF ProcessInv
<1>5. ASSUME UNCHANGED <<process_list, state, parent_pid, next_pid, kallocs>>,
             \/ process_count' = process_count /\ mode' = mode
             \/ process_count' = process_count + 1 /\ mode' = "overrun"
      PROVE  ProcessInv'
  <2>1. TypeOK'
    BY <1>1, <1>2, <1>3, <1>5 DEF TypeOK, mail, Mode
  <2> QED
    BY <1>1, <1>2, <1>3, <1>5, <2>1
    DEF ProcessInv, ListComplete, PidsCounted, OneRunning, NoLostWakeup,
        BlockedInWait, WokenByChild, ZombieChild, Listed
<1>6. CASE process_create(p)
  <2>1. CASE kallocs < MAX_KALLOC
    <3>1. /\ next_pid \in Pid
          /\ process_count \in 1 .. MAX_PROCESSES /\ kallocs + 1 \in 0 .. MAX_KALLOC
          /\ process_count + (kallocs + 1) = process_count + kallocs + 1
      BY <1>1, <1>2, <2>1 DEF Pid, TypeOK
    <3>2. /\ Enlist(0) /\ UNCHANGED <<mode, process_count>>
          /\ kallocs' = kallocs + 1
      BY <1>2, <1>6, <2>1 DEF process_create
    <3> QED
      BY <1>4, <3>1, <3>2
  <2>2. CASE ~ (kallocs < MAX_KALLOC)
    <3>1. /\ UNCHANGED <<process_list, state, parent_pid, next_pid, kallocs>>
          /\ process_count' = process_count /\ mode' = mode
      BY <1>6, <2>2 DEF process_create
    <3> QED
      BY <1>5, <3>1
  <2> QED
    BY <2>1, <2>2
<1>7. CASE MSG_FORK(p)
  <2>1. CASE process_count < MAX_PROCESSES
    <3>1. /\ next_pid \in Pid
          /\ process_count + 1 \in 1 .. MAX_PROCESSES /\ kallocs \in 0 .. MAX_KALLOC
          /\ process_count + 1 + kallocs = process_count + kallocs + 1
      BY <1>2, <2>1 DEF Pid
    <3>2. /\ Enlist(p) /\ UNCHANGED <<mode, kallocs>>
          /\ process_count' = process_count + 1
      BY <1>2, <1>7, <2>1 DEF MSG_FORK
    <3> QED
      BY <1>4, <3>1, <3>2
  <2>2. CASE ~ (process_count < MAX_PROCESSES)
    BY <1>5, <1>7, <2>2 DEF MSG_FORK
  <2> QED
    BY <2>1, <2>2
<1> QED
  BY <1>6, <1>7

(* The resumed halves only return to the caller's program.                 *)
LEMMA ResumedInv ==
  ASSUME ProcessInv, NEW p \in Pid,
         MSG_WAIT_resumed(p) \/ receive_message_resumed(p)
  PROVE  ProcessInv'
<1>1. /\ TypeOK /\ ListComplete /\ PidsCounted /\ OneRunning
      /\ NoLostWakeup /\ BlockedInWait /\ WokenByChild
  BY DEF ProcessInv
<1>2. /\ mode = "run" /\ state[p] = "RUNNING"
      /\ ret' \in [Pid -> {0, -1}]
      /\ resume' = [resume EXCEPT ![p] = "program"]
      /\ UNCHANGED <<table, mail, state, current_process, mode, exit_status, silent>>
  BY <1>1, CallerRuns
  DEF MSG_WAIT_resumed, receive_message_resumed, Returns, TypeOK
<1>3. TypeOK'
  BY <1>1, <1>2 DEF TypeOK, Point, table, mail
<1>4. BlockedInWait' /\ WokenByChild'
  BY <1>1, <1>2 DEF BlockedInWait, WokenByChild, ZombieChild, TypeOK, table
<1> QED
  BY <1>1, <1>2, <1>3, <1>4
  DEF ProcessInv, ListComplete, PidsCounted, OneRunning, NoLostWakeup, ZombieChild,
      Listed, table

(* Every kernel call preserves the invariant. *)
LEMMA NextInv == ProcessInv /\ [Next]_vars => ProcessInv'
<1> SUFFICES ASSUME ProcessInv, [Next]_vars PROVE ProcessInv'
  OBVIOUS
<1>1. CASE UNCHANGED vars
  <2>1. TypeOK'
    BY <1>1 DEF ProcessInv, TypeOK, vars, table, mail, control
  <2> QED
    BY <1>1, <2>1, FrameInv DEF vars
<1>2. ASSUME NEW p \in Pid, Step(p) PROVE ProcessInv'
  <2>1. CASE process_create(p) \/ MSG_FORK(p)
    BY <2>1, CreateInv
  <2>2. CASE MSG_WAIT(p)
    BY <2>2, WaitInv
  <2>3. CASE MSG_WAIT_resumed(p) \/ receive_message_resumed(p)
    BY <2>3, ResumedInv
  <2>4. ASSUME NEW s \in Status, exit_process(p, s) PROVE ProcessInv'
    BY <2>4, ExitProcessInv
  <2>5. ASSUME NEW s \in Status, process_exit(p, s) PROVE ProcessInv'
    BY <2>5, ProcessExitInv
  <2>6. ASSUME NEW to \in Pid, NEW m \in Msg, queue_message(p, to, m)
        PROVE  ProcessInv'
    BY <2>6, QueueInv
  <2>7. CASE receive_message(p)
    BY <2>7, ReceiveInv
  <2> QED
    BY <1>2, <2>1, <2>2, <2>3, <2>4, <2>5, <2>6, <2>7 DEF Step
<1> QED
  BY <1>1, <1>2 DEF Next

(* ProcessInv holds in every reachable state.                              *)
THEOREM ProcessInvariant == Spec => []ProcessInv
<1> QED
  BY InitInv, NextInv, PTL DEF Spec

(* Type correctness: schedule(), the exits and the rings never leave the   *)
(* types of the structures in process.h and message.h.                     *)
THEOREM TypeCorrect == Spec => []TypeOK
<1>1. ProcessInv => TypeOK
  BY DEF ProcessInv
<1> QED
  BY <1>1, ProcessInvariant, PTL

(* The scan of schedule(), find_process and MSG_WAIT reach every process.  *)
THEOREM ListIsComplete == Spec => []ListComplete
<1>1. ProcessInv => ListComplete
  BY DEF ProcessInv
<1> QED
  BY <1>1, ProcessInvariant, PTL

(* Exactly one process runs, the one current_process names, through every  *)
(* path of schedule().                                                     *)
THEOREM ExactlyOneRuns == Spec => []OneRunning
<1>1. ProcessInv => OneRunning
  BY DEF ProcessInv
<1> QED
  BY <1>1, ProcessInvariant, PTL

(* MSG_WAIT and exit_process lose no wake-up, whichever comes first; only  *)
(* process_exit leaves a blocked parent beside a zombie child.             *)
THEOREM WakeupsAreNotLost == Spec => []NoLostWakeup
<1>1. ProcessInv => NoLostWakeup
  BY DEF ProcessInv
<1> QED
  BY <1>1, ProcessInvariant, PTL

(* The second scan of MSG_WAIT never comes back empty-handed.              *)
THEOREM WaitsSucceed == Spec => []WaitSucceeds
<1>1. ProcessInv => WaitSucceeds
  <2> SUFFICES ASSUME ProcessInv, mode = "run", current_process # NULL,
                      resume[current_process] = "wait"
               PROVE  \E c \in Listed : ZombieChild(current_process, c)
    BY DEF WaitSucceeds
  <2>1. TypeOK /\ ListComplete /\ OneRunning /\ WokenByChild
    BY DEF ProcessInv
  <2>2. current_process \in Pid /\ state[current_process] = "RUNNING"
    BY <2>1 DEF TypeOK, OneRunning
  <2>3. PICK c \in Pid : ZombieChild(current_process, c)
    BY <2>1, <2>2 DEF WokenByChild
  <2>4. c \in Listed
    <3>1. ~ (c >= next_pid)
      BY <2>1, <2>3 DEF ListComplete, ZombieChild
    <3>2. c \in 1 .. (next_pid - 1)
      BY <2>1, <3>1, ProcessAssumption DEF TypeOK, Pid
    <3> QED
      BY <2>1, <3>2, ListedPids
  <2> QED
    BY <2>3, <2>4
<1> QED
  BY <1>1, ProcessInvariant, PTL

(* schedule() moves no zombie.                                             *)
LEMMA ScheduleKeepsZombies ==
  ASSUME TypeOK, NEW st \in [Pid -> ProcState], NEW cur, NEW point,
         schedule(st, cur, point), NEW q \in Pid, st[q] = "ZOMBIE"
  PROVE  state'[q] = "ZOMBIE"
<1>1. CASE state' = st
  BY <1>1
<1>2. ASSUME NEW i \in 1 .. Len(process_list), FirstReady(st, i),
             state' = Dispatch(st, cur, process_list[i])
      PROVE  state'[q] = "ZOMBIE"
  <2>1. process_list[i] \in Pid /\ process_list[i] # q
    BY <1>2 DEF FirstReady, TypeOK
  <2> QED
    BY <1>2, <2>1 DEF Dispatch
<1> QED
  BY <1>1, <1>2 DEF schedule

(* No kernel call touches the state or the status of a zombie.             *)
LEMMA StepKeepsZombies ==
  ASSUME ProcessInv, NEW p \in Pid, Step(p)
  PROVE  ZombiesKept
<1>1. TypeOK /\ ListComplete
  BY DEF ProcessInv
<1> SUFFICES ASSUME NEW q \in Pid, state[q] = "ZOMBIE"
             PROVE  state'[q] = "ZOMBIE" /\ exit_status'[q] = exit_status[q]
  BY DEF ZombiesKept
<1>2. current_process = p /\ mode = "run" => q # p
  BY CallerRuns
<1>3. CASE process_create(p) \/ MSG_FORK(p)
  <2>1. UNCHANGED exit_status
    BY <1>3 DEF process_create, MSG_FORK
  <2>2. CASE UNCHANGED state
    BY <2>1, <2>2
  <2>3. ASSUME NEW parent, Enlist(parent) PROVE state'[q] = "ZOMBIE"
    <3>1. next_pid \in Nat
      BY <1>1, ProcessAssumption DEF TypeOK
    <3>2. q # next_pid
      BY <1>1, <3>1 DEF ListComplete
    <3> QED
      BY <1>1, <2>3, <3>2 DEF Enlist, TypeOK
  <2> QED
    BY <1>3, <2>1, <2>2, <2>3 DEF process_create, MSG_FORK
<1>4. CASE MSG_WAIT(p)
  <2>1. /\ UNCHANGED exit_status /\ q # p
        /\ \/ UNCHANGED control
           \/ schedule([state EXCEPT ![p] = "BLOCKED"], p, "wait")
    BY <1>2, <1>4 DEF MSG_WAIT, Calls
  <2>2. /\ [state EXCEPT ![p] = "BLOCKED"] \in [Pid -> ProcState]
        /\ [state EXCEPT ![p] = "BLOCKED"][q] = "ZOMBIE"
    BY <1>1, <2>1 DEF TypeOK, ProcState
  <2> QED
    BY <1>1, <2>1, <2>2, ScheduleKeepsZombies DEF control
<1>5. ASSUME NEW s \in Status, exit_process(p, s)
      PROVE  state'[q] = "ZOMBIE" /\ exit_status'[q] = exit_status[q]
  <2> DEFINE dead == [state EXCEPT ![p] = "ZOMBIE"]
             st == [r \in Pid |-> IF r \in {u \in Listed : /\ u = parent_pid[p]
                                                        /\ dead[u] = "BLOCKED"}
                                 THEN "READY" ELSE dead[r]]
  <2>1. /\ q # p /\ exit_status' = [exit_status EXCEPT ![p] = s]
        /\ schedule(st, p, "program")
    BY <1>2, <1>5 DEF exit_process, Calls
  <2>2. st \in [Pid -> ProcState] /\ st[q] = "ZOMBIE"
    BY <1>1, <2>1 DEF TypeOK, ProcState
  <2> HIDE DEF st
  <2> QED
    BY <1>1, <2>1, <2>2, ScheduleKeepsZombies DEF TypeOK
<1>6. ASSUME NEW s \in Status, process_exit(p, s)
      PROVE  state'[q] = "ZOMBIE" /\ exit_status'[q] = exit_status[q]
  <2> DEFINE st == [state EXCEPT ![p] = "ZOMBIE"]
  <2>1. /\ q # p /\ exit_status' = [exit_status EXCEPT ![p] = s]
        /\ schedule(st, NULL, "program")
    BY <1>2, <1>6 DEF process_exit, Calls
  <2>2. st \in [Pid -> ProcState] /\ st[q] = "ZOMBIE"
    BY <1>1, <2>1 DEF TypeOK, ProcState
  <2> HIDE DEF st
  <2> QED
    BY <1>1, <2>1, <2>2, ScheduleKeepsZombies DEF TypeOK
<1>7. CASE receive_message(p)
  <2>1. /\ UNCHANGED exit_status
        /\ UNCHANGED control \/ schedule(state, p, "receive")
    BY <1>7 DEF receive_message, receive_nothing, receive_front
  <2> QED
    BY <1>1, <2>1, ScheduleKeepsZombies DEF control, TypeOK
<1>8. CASE \/ MSG_WAIT_resumed(p) \/ receive_message_resumed(p)
           \/ \E to \in Pid, m \in Msg : queue_message(p, to, m)
  BY <1>8 DEF MSG_WAIT_resumed, receive_message_resumed, queue_message, control
<1> QED
  BY <1>3, <1>4, <1>5, <1>6, <1>7, <1>8 DEF Step

(* A zombie stays a zombie, and its exit status stays what it was: nothing *)
(* schedules it again, and exit_process wakes a parent only if it blocks.  *)
THEOREM ZombiesAreFinal == Spec => ZombieIsFinal
<1>1. ProcessInv /\ [Next]_vars => [ZombiesKept]_vars
  BY StepKeepsZombies DEF Next
<1> QED
  BY <1>1, ProcessInvariant, PTL DEF Spec, ZombieIsFinal

--------------------------------------------------------------------------------
(* The message queues. *)

(* What receive_message and queue_message do to the queues, and that no    *)
(* other call touches them.                                                *)
MailInv == RingsSound /\ BlockedMeansEmpty

(* The rings start empty and unmarked.                                     *)
LEMMA InitMail == Init => MailInv
<1> SUFFICES ASSUME Init PROVE MailInv
  OBVIOUS
<1>1. RingInv(EmptyRing)
  <2>1. /\ EmptyRing \in message_queue /\ EmptyRing.count = 0
        /\ EmptyRing.head = 0 /\ EmptyRing.tail = 0
    BY RingAssumption DEF EmptyRing, message_queue, Slot
  <2>2. 0 = (0 + 0) % MAX_MESSAGES
    BY RingAssumption, Wrap
  <2> QED
    BY <2>1, <2>2 DEF RingInv
<1> QED
  BY <1>1 DEF MailInv, RingsSound, BlockedMeansEmpty, Init

(* Each step leaves the mail alone, marks a receiver whose queue is empty, *)
(* appends to one queue or takes the front of one.                         *)
LEMMA MailSteps ==
  ASSUME TypeOK, [Next]_vars
  PROVE  \/ UNCHANGED mail
         \/ \E p \in Pid : /\ Empty(msg_queue[p])
                          /\ msg_blocked' = [msg_blocked EXCEPT ![p] = TRUE]
                          /\ UNCHANGED <<msg_queue, rcv>>
         \/ \E p \in Pid, m \in Msg :
              /\ ~ Full(msg_queue[p])
              /\ msg_queue' = [msg_queue EXCEPT ![p] = Put(msg_queue[p], m)]
              /\ msg_blocked' = [msg_blocked EXCEPT ![p] = FALSE]
              /\ UNCHANGED rcv
         \/ \E p \in Pid :
              /\ ~ Empty(msg_queue[p])
              /\ rcv' = [rcv EXCEPT ![p] = Front(msg_queue[p])]
              /\ msg_queue' = [msg_queue EXCEPT ![p] = Drop(msg_queue[p])]
              /\ UNCHANGED msg_blocked
<1>1. CASE UNCHANGED vars
  BY <1>1 DEF vars, mail
<1>2. CASE \E p \in Pid : receive_message(p)
  <2>1. PICK p \in Pid : receive_message(p)
    BY <1>2
  <2>2. CASE receive_nothing(p)
    BY <2>2 DEF receive_nothing, mail
  <2>3. CASE receive_front(p)
    BY <2>3 DEF receive_front
  <2> QED
    BY <2>1, <2>2, <2>3 DEF receive_message
<1>3. CASE \E p, to \in Pid, m \in Msg : queue_message(p, to, m)
  BY <1>3 DEF queue_message
<1>4. CASE \E p \in Pid : \/ process_create(p) \/ MSG_FORK(p) \/ MSG_WAIT(p)
                         \/ MSG_WAIT_resumed(p) \/ receive_message_resumed(p)
                         \/ \E s \in Status : exit_process(p, s) \/ process_exit(p, s)
  BY <1>4 DEF process_create, MSG_FORK, MSG_WAIT, MSG_WAIT_resumed,
              receive_message_resumed, exit_process, process_exit
<1> QED
  BY <1>1, <1>2, <1>3, <1>4 DEF Next, Step

(* Every step preserves the invariant of the rings.                        *)
LEMMA NextMail == ProcessInv /\ MailInv /\ [Next]_vars => MailInv'
<1> SUFFICES ASSUME ProcessInv, MailInv, [Next]_vars PROVE MailInv'
  OBVIOUS
<1>1. TypeOK /\ RingsSound /\ BlockedMeansEmpty
  BY DEF ProcessInv, MailInv
<1>2. CASE UNCHANGED mail
  BY <1>1, <1>2 DEF MailInv, RingsSound, BlockedMeansEmpty, mail
<1>3. CASE \E p \in Pid : /\ Empty(msg_queue[p])
                         /\ msg_blocked' = [msg_blocked EXCEPT ![p] = TRUE]
                         /\ UNCHANGED <<msg_queue, rcv>>
  BY <1>1, <1>3 DEF MailInv, RingsSound, BlockedMeansEmpty, TypeOK
<1>4. CASE \E p \in Pid, m \in Msg :
              /\ ~ Full(msg_queue[p])
              /\ msg_queue' = [msg_queue EXCEPT ![p] = Put(msg_queue[p], m)]
              /\ msg_blocked' = [msg_blocked EXCEPT ![p] = FALSE]
              /\ UNCHANGED rcv
  BY <1>1, <1>4, PutAppends DEF MailInv, RingsSound, BlockedMeansEmpty, TypeOK
<1>5. CASE \E p \in Pid :
              /\ ~ Empty(msg_queue[p])
              /\ rcv' = [rcv EXCEPT ![p] = Front(msg_queue[p])]
              /\ msg_queue' = [msg_queue EXCEPT ![p] = Drop(msg_queue[p])]
              /\ UNCHANGED msg_blocked
  BY <1>1, <1>5, DropTakesHead DEF MailInv, RingsSound, BlockedMeansEmpty, TypeOK
<1> QED
  BY <1>1, <1>2, <1>3, <1>4, <1>5, MailSteps

(* The invariant of the rings, over that of the processes.                 *)
LEMMA MailInvariant == Spec => [](ProcessInv /\ MailInv)
<1>1. Init => ProcessInv /\ MailInv
  BY InitInv, InitMail
<1>2. (ProcessInv /\ MailInv) /\ [Next]_vars => (ProcessInv /\ MailInv)'
  BY NextInv, NextMail
<1> QED
  BY <1>1, <1>2, PTL DEF Spec

(* head, tail and count of every queue agree for ever, whatever the number *)
(* of slots, senders and turns around the ring.                            *)
THEOREM RingsStaySound == Spec => []RingsSound
<1>1. ProcessInv /\ MailInv => RingsSound
  BY DEF MailInv
<1> QED
  BY <1>1, MailInvariant, PTL

(* A marked receiver never has a message waiting.                          *)
THEOREM MarksMeanEmpty == Spec => []BlockedMeansEmpty
<1>1. ProcessInv /\ MailInv => BlockedMeansEmpty
  BY DEF MailInv
<1> QED
  BY <1>1, MailInvariant, PTL

(* The queues of message.c implement the abstract mailboxes: bounded,      *)
(* first-in first-out, each message delivered once and to its owner only.  *)
THEOREM QueuesAreMailboxes == Spec => MailboxSpec
<1> DEFINE box == [p \in Pid |-> Content(msg_queue[p])]
<1>1. Init => MB!Init
  <2> SUFFICES ASSUME Init PROVE MB!Init
    OBVIOUS
  <2>1. Content(EmptyRing) = << >>
    BY DEF Content, EmptyRing
  <2> QED
    BY <2>1 DEF Init, MB!Init
<1>2. ProcessInv /\ MailInv /\ [Next]_vars => [MB!Next]_(MB!mailVars)
  <2> SUFFICES ASSUME ProcessInv, MailInv, [Next]_vars
               PROVE  [MB!Next]_(MB!mailVars)
    OBVIOUS
  <2>1. TypeOK /\ RingsSound
    BY DEF ProcessInv, MailInv
  <2>2. CASE UNCHANGED <<msg_queue, rcv>>
    BY <2>2 DEF MB!mailVars
  <2>3. ASSUME NEW p \in Pid, NEW m \in Msg,
               ~ Full(msg_queue[p]), UNCHANGED rcv,
               msg_queue' = [msg_queue EXCEPT ![p] = Put(msg_queue[p], m)]
        PROVE  MB!Accept(p, m)
    <3>1. /\ RingInv(msg_queue[p])
          /\ Content(Put(msg_queue[p], m)) = Append(Content(msg_queue[p]), m)
          /\ Len(Content(msg_queue[p])) = msg_queue[p].count
      BY <2>1, <2>3, PutAppends, ContentIsSeq DEF RingsSound
    <3>2. Len(box[p]) < MAX_MESSAGES
      BY <2>3, <3>1, RingAssumption DEF Full, RingInv, message_queue
    <3>3. box' = [box EXCEPT ![p] = Append(box[p], m)]
      BY <2>1, <2>3, <3>1 DEF TypeOK
    <3> QED
      BY <2>3, <3>2, <3>3 DEF MB!Accept
  <2>4. ASSUME NEW p \in Pid,
               ~ Empty(msg_queue[p]),
               rcv' = [rcv EXCEPT ![p] = Front(msg_queue[p])],
               msg_queue' = [msg_queue EXCEPT ![p] = Drop(msg_queue[p])]
        PROVE  MB!Deliver(p)
    <3>1. /\ Content(msg_queue[p]) # << >>
          /\ Front(msg_queue[p]) = Head(Content(msg_queue[p]))
          /\ Content(Drop(msg_queue[p])) = Tail(Content(msg_queue[p]))
      BY <2>1, <2>4, DropTakesHead DEF RingsSound
    <3>2. box' = [box EXCEPT ![p] = Tail(box[p])]
      BY <2>1, <2>4, <3>1 DEF TypeOK
    <3> QED
      BY <2>4, <3>1, <3>2 DEF MB!Deliver
  <2> QED
    BY <2>1, <2>2, <2>3, <2>4, MailSteps DEF MB!Next, mail
<1> QED
  BY <1>1, <1>2, MailInvariant, PTL DEF Spec, MailboxSpec, MB!Spec
================================================================================
