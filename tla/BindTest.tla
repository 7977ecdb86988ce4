-------------------------------- MODULE BindTest --------------------------------
(***************************************************************************)
(* process1 of process_test.c on the namespace of one process: it makes    *)
(* /tmp/data and /private, puts a file in /tmp/data, binds and opens the   *)
(* file below /private.                                                    *)
(***************************************************************************)
EXTENDS MCNamespace

VARIABLE at    \* the next call of process1

testVars == <<vars, at>>

TestInit == Init /\ at = "bind"

(* bind("/tmp/data", "/private", MREPL); a failure ends the process. *)
Bind == /\ at = "bind"
        /\ bind(data, private)
        /\ at' = IF ret' = 0 THEN "open" ELSE "exit"

(* vfs_open("/private/test.txt"); a failure ends the process. *)
Open == /\ at = "open"
        /\ vfs_open(private \o <<"/", "test.txt">>)
        /\ at' = IF ret' = 0 THEN "read" ELSE "exit"

(* vfs_read_dir("/private"), at the end of the test. *)
List == /\ at = "read"
        /\ vfs_read_dir(private)
        /\ at' = "exit"

TestNext == Bind \/ Open \/ List

TestSpec == TestInit /\ [][TestNext]_testVars

(* What the test opens through the binding is the file it made: vfs_open   *)
(* of a path below the target reaches the source.                          *)
AccessThroughNamespace ==
  at = "read" => result = [fs |-> "ramfs", path |-> data \o <<"/", "test.txt">>]
================================================================================
