-------------------------------- MODULE MCShell --------------------------------
(* Operands for TLC: two files of RAMFS, one of them a directory at times, a  *)
(* name that means a file of either file system with the working directory,   *)
(* and a path that only begins like one of RAMFS.                             *)
EXTENDS Shell

MCOperand == {<<"/", "tmp", "/", "a">>, <<"/", "tmp", "/", "b">>,
              <<"a">>, <<"/", "tmp", "x">>}

MCCdOperand == {<< >>, <<"..">>, <<"b">>, <<"/", "tmp">>,
                <<"..", "/", "/", "tmp", "/", ".", "/", "b", "/">>}

MCTestFile == <<"/", "tmp", "/", "a">>

MCTexts == {<<1, 2, 3>>, <<4, 5>>}
================================================================================
