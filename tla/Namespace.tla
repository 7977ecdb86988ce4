------------------------------- MODULE Namespace -------------------------------
(***************************************************************************)
(* The bindings of one process (namespace.c) and the ways the VFS turns a  *)
(* path into a file system and a path of it (vfs.c).  Opening a file and   *)
(* listing a directory read the same list of bindings by two different     *)
(* functions, resolve_path and resolve_namespace_path.                     *)
(*                                                                         *)
(* A path is the sequence of its separators and names; "/tmpx" is          *)
(* <<"/", "tmp", "x">>, so that a string prefix is a prefix of sequences.  *)
(***************************************************************************)
EXTENDS Integers, Sequences

CONSTANTS Token,          \* separators and names
          Source, Target, \* the paths calls may bind, and bind them to
          Query,          \* the paths calls may open, list and unbind
          AbyssPaths,     \* the paths that exist in AbyssFS
          HEAP            \* the heap, in units: see Cost

ASSUME NamespaceAssumption ==
  /\ HEAP \in Nat
  /\ "/" \in Token
  /\ \A p \in Source \cup Target \cup Query : p \in Seq(Token) /\ p # << >>

(* What kalloc takes for a struct namespace, for a copied path and for the *)
(* VFS_MAX_PATH bytes of a resolved path.                                  *)
Cost == [namespace |-> 1, path |-> 1, resolved |-> 2]

VARIABLES mounts,         \* current_process->ns.mounts, newest first
          heap_pos,       \* units taken
          ret,            \* the code the last call returned; 0: no failure
          result          \* the file or directory it asked a file system for

vars == <<mounts, heap_pos, ret, result>>

Path     == Source \cup Target \cup Query
Binding  == [old : Source, new : Target]
Fs       == {"abyssfs", "ramfs"}
Nothing  == [fs |-> "none", path |-> << >>]

Init == mounts = << >> /\ heap_pos = 0 /\ ret = 0 /\ result = Nothing

IsPrefixOf(p, q) == Len(p) <= Len(q) /\ SubSeq(q, 1, Len(p)) = p

(* path without its prefix p: path + strlen(p). *)
After(path, p) == SubSeq(path, Len(p) + 1, Len(path))

Root == <<"/">>
Tmp  == <<"/", "tmp">>

(* Mutant: the bound of the heap is not looked at. *)
kallocUnbounded(h, n) == h + n

(* kalloc from position h: the position it leaves, h itself when it fails. *)
kalloc(h, n) == IF h + n > HEAP THEN h ELSE h + n

(* The loops over the list: the first, that is the newest, of a set. *)
Newest(i, S) == i \in S /\ \A j \in S : i <= j

--------------------------------------------------------------------------------
(* Names to files. *)

(* vfs_init's mount table: AbyssFS at "/", RAMFS at "/tmp".                *)
mount_points == <<[path |-> Root, fs |-> "abyssfs"], [path |-> Tmp, fs |-> "ramfs"]>>

(* find_mount: the longest mount path that is a prefix of the string.      *)
find_mount(path) ==
  LET hits == {i \in DOMAIN mount_points : IsPrefixOf(mount_points[i].path, path)}
  IN  IF path = << >> THEN "abyssfs"
      ELSE IF hits = {} THEN "none"
      ELSE mount_points[CHOOSE i \in hits : \A j \in hits :
             Len(mount_points[j].path) <= Len(mount_points[i].path)].fs

Hits(path) == {i \in DOMAIN mounts : IsPrefixOf(mounts[i].new, path)}

(* The old path of e and what path has after e's new path, with a          *)
(* separator between them when neither brings one.                         *)
Redirected(path, e) ==
  LET rest == After(path, e.new)
  IN  IF rest # << >> /\ rest[1] # "/" /\ e.old[Len(e.old)] # "/"
      THEN e.old \o <<"/">> \o rest
      ELSE e.old \o rest

(* resolve_namespace_path, new to old; with no heap left, path as it is.   *)
resolve_namespace_path(path, h) ==
  IF Hits(path) = {} \/ h + Cost.resolved > HEAP THEN path
  ELSE Redirected(path, mounts[CHOOSE i \in Hits(path) : Newest(i, Hits(path))])

HeapAfterResolve(path, h) ==
  IF Hits(path) = {} THEN h ELSE kalloc(h, Cost.resolved)

(* resolve_path, old to new. *)
resolve_path(path) ==
  LET hits == {i \in DOMAIN mounts : IsPrefixOf(mounts[i].old, path)}
      e    == mounts[CHOOSE i \in hits : Newest(i, hits)]
  IN  IF hits = {} THEN path ELSE e.new \o After(path, e.old)

(* The read_dir of RAMFS never fails, that of AbyssFS looks the path up.   *)
ReadDirFails(path) ==
  \/ find_mount(path) = "none"
  \/ find_mount(path) = "abyssfs" /\ path \notin AbyssPaths

--------------------------------------------------------------------------------
(* The calls. *)

vfs_read_dir(path) ==
  LET resolved == resolve_namespace_path(path, heap_pos)
  IN  /\ heap_pos' = HeapAfterResolve(path, heap_pos)
      /\ ret' = IF ReadDirFails(resolved) THEN -1 ELSE 0
      /\ result' = [fs |-> find_mount(resolved), path |-> resolved]
      /\ UNCHANGED mounts

(* vfs_open: only the path decides which file system gets it; that may     *)
(* have no such file, or no descriptor may be left.                        *)
vfs_open(path) ==
  LET resolved == resolve_path(path)
  IN  /\ result' = [fs   |-> IF IsPrefixOf(Tmp \o Root, resolved)
                             THEN "ramfs" ELSE "abyssfs",
                    path |-> resolved]
      /\ ret' \in {-1, 0}
      /\ UNCHANGED <<mounts, heap_pos>>

(* Mutant: a new binding goes behind the old ones. *)
LinkLast(old, new) == mounts' = Append(mounts, [old |-> old, new |-> new])

Link(old, new) == mounts' = <<[old |-> old, new |-> new]>> \o mounts

BindingCost == Cost.namespace + 2 * Cost.path

(* create_namespace: three pieces of the heap; those it got before one     *)
(* failed stay taken.                                                      *)
create_namespace(h) ==
  LET h1 == kalloc(h, Cost.namespace)
  IN  IF h1 = h THEN h ELSE kalloc(kalloc(h1, Cost.path), Cost.path)

(* bind: both paths must be listable, in the bindings so far. *)
bind(old, new) ==
  LET h1 == HeapAfterResolve(old, heap_pos)
      h2 == HeapAfterResolve(new, h1)
      h3 == create_namespace(h2)
      noSource == ReadDirFails(resolve_namespace_path(old, heap_pos))
      noTarget == ReadDirFails(resolve_namespace_path(new, h1))
  IN  /\ UNCHANGED result
      /\ \/ /\ noSource
            /\ heap_pos' = h1 /\ ret' = -1 /\ UNCHANGED mounts
         \/ /\ ~noSource /\ noTarget
            /\ heap_pos' = h2 /\ ret' = -1 /\ UNCHANGED mounts
         \/ /\ ~noSource /\ ~noTarget
            /\ heap_pos' = h3
            /\ \/ h3 < h2 + BindingCost /\ ret' = -1 /\ UNCHANGED mounts
               \/ h3 = h2 + BindingCost /\ ret' = 0 /\ Link(old, new)

(* Mutant: the bindings in front of the removed one go with it. *)
WithoutPrefix(i) == SubSeq(mounts, i + 1, Len(mounts))

(* The list with its i-th entry unlinked. *)
Without(i) == SubSeq(mounts, 1, i - 1) \o SubSeq(mounts, i + 1, Len(mounts))

(* unbind: the newest binding of exactly that target; kfree frees nothing. *)
unbind(path) ==
  LET hits == {i \in DOMAIN mounts : mounts[i].new = path}
  IN  /\ UNCHANGED <<heap_pos, result>>
      /\ \/ hits = {} /\ ret' = -1 /\ UNCHANGED mounts
         \/ \E i \in hits : /\ Newest(i, hits)
                            /\ mounts' = Without(i)
                            /\ ret' = 0

Next == \/ \E old \in Source, new \in Target : bind(old, new)
        \/ \E path \in Path : vfs_open(path) \/ vfs_read_dir(path) \/ unbind(path)

Spec == Init /\ [][Next]_vars

--------------------------------------------------------------------------------
(* Bindings are between the paths given; the heap keeps its bound, and it  *)
(* has paid for every binding.                                             *)
TypeOK == /\ mounts \in Seq(Binding)
          /\ heap_pos \in 0 .. HEAP
          /\ Len(mounts) * BindingCost <= heap_pos
          /\ ret \in {-1, 0}
          /\ result \in [fs : Fs \cup {"none"}, path : Seq(Token)]

(* To bind and unbind the list is one stack of sources per target: unbind  *)
(* takes back the last bind of its target and uncovers the one before,     *)
(* whatever was bound to other targets in between.                         *)
Stacks == INSTANCE BindingStacks WITH
            stacks <- [t \in Target |->
              LET own == SelectSeq(mounts, LAMBDA e : e.new = t)
              IN  [i \in 1 .. Len(own) |-> own[i].old]]

StacksSpec == Stacks!Spec

(* As long as the heap can hold a resolved path, a directory that was just *)
(* bound lists the source, and a file below it the source's file: no older *)
(* binding, of it or of a directory above it, gets in the way.             *)
ListsTheSource ==
  [][\A old \in Source, new \in Target :
       /\ Len(mounts') > Len(mounts) /\ heap_pos' + Cost.resolved <= HEAP
       /\ bind(old, new)
       => /\ resolve_namespace_path(new, heap_pos)' = old
          /\ (resolve_namespace_path(new \o <<"/", "x">>, heap_pos)
                = old \o <<"/", "x">>)']_vars
================================================================================
