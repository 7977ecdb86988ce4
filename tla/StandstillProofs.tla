---------------------------- MODULE StandstillProofs ----------------------------
(***************************************************************************)
(* Proof that the kernel never comes to a standstill because processes     *)
(* wait for one another: HangHasCause of module Process.  A process waits  *)
(* for younger ones only, so the youngest one that waits has no child that *)
(* could still wake it.                                                    *)
(***************************************************************************)
EXTENDS ProcessProofs, WellFoundedInduction

ParentsAreOlder == \A p \in Pid : p < next_pid => parent_pid[p] < p

(* What schedule() leaves behind when it finds no READY process. *)
NobodyReady ==
  mode = "hang" => \A p \in Listed :
    /\ state[p] # "READY"
    /\ state[p] = "RUNNING" => msg_blocked[p]

StandstillInv == ParentsAreOlder /\ NobodyReady

LEMMA EnlistKeepsAge ==
  ASSUME ProcessInv, ParentsAreOlder, NEW parent \in Pid \cup {0},
         parent < next_pid, Enlist(parent)
  PROVE  ParentsAreOlder'
<1>1. next_pid \in Nat /\ parent_pid \in [Pid -> Pid \cup {0}] /\ next_pid' = next_pid + 1
  BY ProcessAssumption DEF ProcessInv, TypeOK, Enlist
<1>2. \A p \in Pid : p \in Nat /\ parent_pid'[p] = IF p = next_pid THEN parent ELSE parent_pid[p]
  BY <1>1, ProcessAssumption DEF Enlist, Pid
<1> QED
  BY <1>1, <1>2 DEF ParentsAreOlder

(* A call of schedule() that finds somebody, or leaves nobody READY. *)
LEMMA ScheduleStops ==
  ASSUME NEW st, NEW cur, NEW point, mode = "run", schedule(st, cur, point),
         UNCHANGED <<process_list, parent_pid, next_pid>>, ParentsAreOlder,
         \A q \in Listed : st[q] = "RUNNING" => msg_blocked'[q]
  PROVE  StandstillInv'
<1>1. ParentsAreOlder'
  BY DEF ParentsAreOlder
<1>2. CASE mode' # "hang"
  BY <1>1, <1>2 DEF StandstillInv, NobodyReady
<1>3. CASE mode' = "hang"
  <2>1. /\ \A i \in 1 .. Len(process_list) : st[process_list[i]] # "READY"
        /\ state' = st
    BY <1>3 DEF schedule, context_switch
  <2> QED
    BY <1>1, <2>1 DEF StandstillInv, NobodyReady, Listed
<1> QED
  BY <1>2, <1>3

LEMMA NextStandstill == ProcessInv /\ StandstillInv /\ [Next]_vars => StandstillInv'
<1> SUFFICES ASSUME ProcessInv, StandstillInv, [Next]_vars PROVE StandstillInv'
  OBVIOUS
<1>1. ASSUME UNCHANGED <<process_list, parent_pid, next_pid, state, mode, msg_blocked>>
      PROVE  StandstillInv'
  BY <1>1 DEF StandstillInv, ParentsAreOlder, NobodyReady, Listed
<1>2. ASSUME UNCHANGED <<process_list, parent_pid, next_pid>>, mode' # "hang"
      PROVE  StandstillInv'
  BY <1>2 DEF StandstillInv, ParentsAreOlder, NobodyReady
<1>3. ASSUME NEW p \in Pid, Calls(p)
      PROVE  /\ mode = "run"
             /\ p < next_pid
             /\ state \in [Pid -> ProcState]
             /\ \A q \in Pid : state[q] = "RUNNING" <=> q = p
             /\ Listed \subseteq Pid
  <2>1. mode = "run" /\ current_process = p
    BY <1>3 DEF Calls
  <2>2. p \in Listed /\ Listed = 1 .. (next_pid - 1) /\ next_pid \in Int
    BY <2>1, ListedPids, ProcessAssumption DEF ProcessInv, OneRunning, TypeOK
  <2>3. Listed \subseteq Pid
    BY DEF ProcessInv, TypeOK, Listed
  <2> QED
    BY <2>1, <2>2, <2>3, CallerRuns DEF ProcessInv, TypeOK
<1>4. ASSUME NEW p \in Pid, process_create(p) \/ MSG_FORK(p) PROVE StandstillInv'
  <2>1. Calls(p)
    BY <1>4 DEF process_create, MSG_FORK
  <2>2. mode' # "hang"
    BY <1>3, <1>4, <2>1 DEF process_create, MSG_FORK
  <2>3. CASE Enlist(0) \/ Enlist(p)
    <3>1. 0 < next_pid
      BY ProcessAssumption DEF ProcessInv, TypeOK
    <3>2. ParentsAreOlder'
      BY <1>3, <2>1, <2>3, <3>1, EnlistKeepsAge DEF StandstillInv
    <3> QED
      BY <2>2, <3>2 DEF StandstillInv, NobodyReady
  <2>4. CASE UNCHANGED <<process_list, parent_pid, next_pid>>
    BY <1>2, <2>2, <2>4
  <2> QED
    BY <1>4, <2>3, <2>4 DEF process_create, MSG_FORK
<1>5. ASSUME NEW p \in Pid, MSG_WAIT(p) PROVE StandstillInv'
  <2>1. Calls(p) /\ UNCHANGED <<process_list, parent_pid, next_pid, msg_blocked>>
    BY <1>5 DEF MSG_WAIT, table, mail
  <2>2. CASE UNCHANGED control
    BY <1>1, <2>1, <2>2 DEF control
  <2>3. CASE schedule([state EXCEPT ![p] = "BLOCKED"], p, "wait")
    <3>1. \A q \in Listed : [state EXCEPT ![p] = "BLOCKED"][q] # "RUNNING"
      BY <1>3, <2>1
    <3> QED
      BY <1>3, <2>1, <2>3, <3>1, ScheduleStops DEF StandstillInv
  <2> QED
    BY <1>5, <2>2, <2>3 DEF MSG_WAIT
<1>6. ASSUME NEW p \in Pid, MSG_WAIT_resumed(p) \/ receive_message_resumed(p)
      PROVE  StandstillInv'
  BY <1>1, <1>6 DEF MSG_WAIT_resumed, receive_message_resumed, table, mail
<1>7. ASSUME NEW p \in Pid, NEW s \in Status, exit_process(p, s)
      PROVE  StandstillInv'
  <2> DEFINE st    == [state EXCEPT ![p] = "ZOMBIE"]
             woken == {q \in Listed : q = parent_pid[p] /\ st[q] = "BLOCKED"}
             st2   == [q \in Pid |-> IF q \in woken THEN "READY" ELSE st[q]]
  <2>1. Calls(p) /\ UNCHANGED <<process_list, parent_pid, next_pid>> /\ schedule(st2, p, "program")
    BY <1>7 DEF exit_process, table
  <2>2. \A q \in Listed : st2[q] # "RUNNING"
    BY <1>3, <2>1
  <2> HIDE DEF st2
  <2> QED
    BY <1>3, <2>1, <2>2, ScheduleStops DEF StandstillInv
<1>8. ASSUME NEW p \in Pid, NEW s \in Status, process_exit(p, s)
      PROVE  StandstillInv'
  <2> DEFINE st == [state EXCEPT ![p] = "ZOMBIE"]
  <2>1. Calls(p) /\ UNCHANGED <<process_list, parent_pid, next_pid>> /\ schedule(st, NULL, "program")
    BY <1>8 DEF process_exit, table
  <2>2. \A q \in Listed : st[q] # "RUNNING"
    BY <1>3, <2>1
  <2> HIDE DEF st
  <2> QED
    BY <1>3, <2>1, <2>2, ScheduleStops DEF StandstillInv
<1>9. ASSUME NEW p \in Pid, NEW to \in Pid, NEW m \in Msg, queue_message(p, to, m)
      PROVE  StandstillInv'
  <2>1. Calls(p) /\ UNCHANGED <<process_list, parent_pid, next_pid, mode>>
    BY <1>9 DEF queue_message, table, control
  <2> QED
    BY <1>2, <1>3, <2>1
<1>10. ASSUME NEW p \in Pid, receive_message(p) PROVE StandstillInv'
  <2>1. Calls(p) /\ UNCHANGED <<process_list, parent_pid, next_pid>>
    BY <1>10 DEF receive_message, table
  <2>2. CASE UNCHANGED control
    BY <1>2, <1>3, <2>1, <2>2 DEF control
  <2>3. CASE /\ msg_blocked' = [msg_blocked EXCEPT ![p] = TRUE]
             /\ schedule(state, p, "receive")
    <3>1. msg_blocked'[p]
      BY <2>3 DEF ProcessInv, TypeOK
    <3> QED
      BY <1>3, <2>1, <2>3, <3>1, ScheduleStops DEF StandstillInv
  <2> QED
    BY <1>10, <2>2, <2>3 DEF receive_message, receive_nothing, receive_front
<1>11. CASE UNCHANGED vars
  BY <1>1, <1>11 DEF vars, table, mail, control
<1> QED
  BY <1>4, <1>5, <1>6, <1>7, <1>8, <1>9, <1>10, <1>11 DEF Next, Step

(* Every set of pids that is not empty has a youngest member. *)
LEMMA Youngest ==
  ASSUME NEW B \in SUBSET Pid, B # {}
  PROVE  \E p \in B : \A q \in B : q <= p
<1> DEFINE N == MAX_PROCESSES + MAX_KALLOC
           T == {N - p : p \in B}
<1>1. N \in Nat /\ Pid = 1 .. N
  BY ProcessAssumption DEF Pid
<1>2. T \subseteq Nat /\ T # {}
  <2>1. \A q \in B : q \in 1 .. N
    BY <1>1, Zenon
  <2> HIDE DEF N
  <2>2. \A q \in B : N - q \in Nat
    BY <1>1, <2>1
  <2>3. T \subseteq Nat
    BY <2>2
  <2>4. PICK q \in B : TRUE
    OBVIOUS
  <2>5. N - q \in T
    OBVIOUS
  <2> QED
    BY <2>3, <2>5
<1>3. PICK x \in T : \A y \in T : ~ (<<y, x>> \in OpToRel(<, Nat))
  BY <1>2, NatLessThanWellFounded, WFMin
<1>4. \A y \in T : ~ (y < x)
  BY <1>2, <1>3 DEF OpToRel
<1>5. PICK p \in B : x = N - p
  BY <1>3
<1>6. \A q \in B : N - q \in T
  OBVIOUS
<1>7. p \in Int /\ N \in Int /\ \A q \in B : q \in Int
  BY <1>1
<1> HIDE DEF N, T
<1>8. \A q \in B : ~ (N - q < N - p)
  BY <1>4, <1>5, <1>6
<1> QED
  BY <1>7, <1>8

LEMMA CauseFound == ProcessInv /\ StandstillInv => HangHasCause
<1> SUFFICES ASSUME ProcessInv, StandstillInv, mode = "hang",
                    \E p \in Listed : state[p] # "ZOMBIE",
                    \A p \in Listed : ~ (state[p] = "RUNNING" /\ msg_blocked[p])
             PROVE  \E p \in Listed : /\ state[p] = "BLOCKED"
                                      /\ \A c \in Listed : parent_pid[c] = p => c \in silent
  BY DEF HangHasCause
<1> DEFINE B == {p \in Listed : state[p] = "BLOCKED"}
<1>1. Listed = 1 .. (next_pid - 1) /\ Listed \subseteq Pid /\ next_pid \in Int
  BY ListedPids, ProcessAssumption DEF ProcessInv, TypeOK, Listed
<1>2. \A p \in Listed : state[p] \in {"BLOCKED", "ZOMBIE"}
  <2>1. \A p \in Listed : state[p] \in ProcState /\ state[p] # "UNUSED"
    BY <1>1 DEF ProcessInv, TypeOK, ListComplete
  <2> QED
    BY <2>1 DEF StandstillInv, NobodyReady, ProcState
<1>3. B # {} /\ B \in SUBSET Pid
  BY <1>1, <1>2
<1>4. PICK p \in B : \A q \in B : q <= p
  BY <1>3, Youngest
<1>5. ASSUME NEW c \in Listed, parent_pid[c] = p PROVE c \in silent
  <2>1. p < c /\ p \in Int /\ c \in Int
    BY <1>1, <1>5 DEF StandstillInv, ParentsAreOlder
  <2>2. c \notin B
    BY <1>4, <2>1
  <2>3. state[c] = "ZOMBIE"
    BY <1>2, <2>2
  <2> QED
    BY <1>1, <1>4, <1>5, <2>3 DEF ProcessInv, NoLostWakeup, ZombieChild
<1> QED
  BY <1>4, <1>5

(* However processes fork, wait, exit and receive, schedule() halts for    *)
(* one of three reasons, and a circle of waits is none of them (MSG_WAIT,  *)
(* exit_process, schedule).                                                *)
THEOREM HangsHaveACause == Spec => []HangHasCause
<1>1. Init => StandstillInv
  BY DEF Init, StandstillInv, ParentsAreOlder, NobodyReady, Pid
<1> QED
  BY <1>1, NextStandstill, CauseFound, ProcessInvariant, PTL DEF Spec
================================================================================
