-------------------------------- MODULE ForkTest --------------------------------
(***************************************************************************)
(* test_processes of kernel.c, run by process 1 on the kernel of Process.  *)
(* A forked process goes on behind the fork, with a return value of 0 in   *)
(* zeroed memory, if it ever gets to run.                                  *)
(***************************************************************************)
EXTENDS Process

VARIABLE at    \* at[p] : the next line of test_processes that p executes

testVars == <<vars, at>>

TestInit == Init /\ at = [p \in Pid |-> IF p = 1 THEN "fork" ELSE "branch"]

(* int ret = send_message(&msg), a MSG_FORK. *)
Fork(p) == /\ at[p] = "fork"
           /\ MSG_FORK(p)
           /\ at' = [at EXCEPT ![p] = "branch"]

(* The branch the test marks `child': ret == 0. *)
ChildBranch(p) == /\ at[p] = "branch" /\ ret[p] = 0
                  /\ exit_process(p, 42)
                  /\ at' = [at EXCEPT ![p] = "end"]

(* The branch the test marks `parent'. *)
ParentBranch(p) == /\ at[p] = "branch" /\ ret[p] # 0
                   /\ MSG_WAIT(p)
                   /\ at' = [at EXCEPT ![p] = "end"]

TestNext == \E p \in Pid : Fork(p) \/ ChildBranch(p) \/ ParentBranch(p)

TestSpec == TestInit /\ [][TestNext]_testVars

(* Only the child takes the branch marked `child' and exits with 42; the   *)
(* parent waits for it.  send_message returns 0 to the parent of a fork.   *)
OnlyTheChildExits42 ==
  \A p \in Pid : exit_status[p] = 42 => parent_pid[p] # 0
================================================================================
