------------------------------- MODULE MCAbyssFS -------------------------------
(* Names for TLC, of different length: hello leaves rec_len amid an entry  *)
(* where another name would have one begin, and long makes it wrap to 0.   *)
EXTENDS AbyssFS
CONSTANTS hello, sub, long
MCWords == [n \in Name |-> CASE n = hello -> 3 [] n = sub -> 2 [] n = long -> REC]
MCCwd == {<< >>, <<sub>>}
================================================================================
