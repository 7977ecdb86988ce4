------------------------------ MODULE Directories ------------------------------
(***************************************************************************)
(* What AbyssFS (abyssfs.c) promises of its directories: each is a list of *)
(* entries in the order they were made.  A new entry comes last in its     *)
(* directory and names an inode that was free.  Only entries of the root   *)
(* are removed, the first of a name, and only that frees an inode: what a  *)
(* call takes and does not link is lost, and so is what is in a directory  *)
(* that goes, until a new directory happens to show it.  What has a list   *)
(* keeps it, but for the handles open from before it had one.              *)
(***************************************************************************)
EXTENDS Integers, Sequences, SequencesExt

CONSTANTS Inode, Root, Entry,   \* an entry is a record with name and inode
          Listed                \* entries of the root that one removal takes

VARIABLES list,                 \* the entries of each directory
          used,                 \* the inodes in use
          open                  \* the inodes some handle writes to

vars == <<list, used, open>>

Inodes(l) == {l[k].inode : k \in DOMAIN l}

Linked(lists) == UNION {Inodes(lists[d]) : d \in Inode}

Empty(lists, S) == [d \in Inode |-> IF d \in S THEN << >> ELSE lists[d]]

First(k, l) == \A j \in 1 .. (k - 1) : l[j].name # l[k].name

Init == /\ list \in [Inode -> Seq(Entry)]
        /\ \A d \in Inode \ {Root} : list[d] = << >>
        /\ Len(list[Root]) <= 1
        /\ used \subseteq Inode
        /\ Root \in used /\ Linked(list) \subseteq used
        /\ open = {}

(* The steps, as relations between the lists and the inodes in use before  *)
(* and after.  A file or directory i is made: a directory shows, to begin  *)
(* with, entries of inodes in use that were lost, each once.  Then i comes *)
(* last in another directory; or is lost, when the call fails.             *)
Make(old, new, was, now) ==
  \E i \in Inode \ was :
    LET begun == [old EXCEPT ![i] = new[i]]
    IN  /\ now = was \cup {i}
        /\ Inodes(new[i]) \subseteq was \ Linked(old)
        /\ \A j, k \in DOMAIN new[i] : new[i][j].inode = new[i][k].inode => j = k
        /\ \/ new = begun
           \/ \E d \in Inode \ {i} :
                LET e == Last(new[d])
                IN  /\ new[d] # << >>
                    /\ e.inode = i
                    /\ new = [begun EXCEPT ![d] = Append(@, e)]

(* The directory that the entry named goes with it. *)
Unlink(old, new, was, now) ==
  \E k \in DOMAIN old[Root] :
    LET i == old[Root][k].inode
    IN  /\ First(k, old[Root])
        /\ new = Empty([old EXCEPT ![Root] = RemoveAt(@, k)], {i})
        /\ now = was \ {i}

(* The entries of the root that a removal lists, the first ones.           *)
RemoveAll(old, new, was, now) ==
  LET gone == {k \in DOMAIN old[Root] : k <= Listed}
      S    == {old[Root][k].inode : k \in gone}
  IN  /\ new = Empty([old EXCEPT ![Root] = SubSeq(@, Listed + 1, Len(@))], S)
      /\ now = was \ S

(* Unlink of "." or "..": the root is a directory no more. *)
Uproot(old, new, was, now) == new = Empty(old, {Root}) /\ now = was \ {Root}

(* A write through a handle from when the directory's inode or its block   *)
(* was a file's; never one of a file that is in use.                       *)
Overwrite(old, new, was, now, handles) ==
  /\ now = was
  /\ \E d \in Inode \ {Root}, i \in handles :
       /\ i = d \/ i \notin was
       /\ new = Empty(old, {d})

Step(old, new, was, now, handles) == \/ new = old /\ now = was
                                     \/ Make(old, new, was, now)
                                     \/ Unlink(old, new, was, now)
                                     \/ RemoveAll(old, new, was, now)
                                     \/ Uproot(old, new, was, now)
                                     \/ Overwrite(old, new, was, now, handles)

Next == /\ Step(list, list', used, used', open)
        /\ open \subseteq open' /\ open' \ open \subseteq used'

Spec == Init /\ [][Next]_vars
================================================================================
