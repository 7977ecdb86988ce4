--------------------------------- MODULE RamFS ---------------------------------
(***************************************************************************)
(* RAMFS (ramfs.c) behind the descriptor table of the VFS (vfs.c): the     *)
(* slots files[], the vfs_file handles taken from the heap, and fd_table.  *)
(* One action is one VFS call on a path below /tmp, with no bindings in    *)
(* the namespace (module Namespace has those); callers make any calls in   *)
(* any order, as the shell commands and the kernel tests do.               *)
(*                                                                         *)
(* The bytes of a file are abstracted to the positions that were written   *)
(* since its slot was taken: nothing clears content[] when a slot changes  *)
(* hands, so any other position holds what an earlier file left there.     *)
(***************************************************************************)
EXTENDS Integers, Sequences, FiniteSets

CONSTANTS MAX_FILES,      \* slots of files[] (16)
          MAX_CONTENT,    \* bytes of a slot (4096)
          MAX_FD,         \* descriptors (32)
          MAX_KALLOC,     \* handles the heap has room for at most
          Path, NoPath    \* the names in use, and the empty name

ASSUME RamFSAssumption == /\ MAX_FILES \in Nat \ {0}
                          /\ MAX_CONTENT \in Nat \ {0}
                          /\ MAX_FD \in Nat
                          /\ MAX_KALLOC \in Nat
                          /\ NoPath \notin Path

VARIABLES files,          \* the slots
          handles,        \* the vfs_file structures, in allocation order
          heap_pos,       \* the heap, in handles: kfree frees nothing
          fd_table, next_fd,
          ret,            \* what the last call returned
          stale,          \* history: handles whose file was unlinked
          touched         \* history: slots a stale handle wrote to

vars == <<files, handles, heap_pos, fd_table, next_fd, ret, stale, touched>>

NULL   == 0
Slot   == 0 .. (MAX_FILES - 1)
Pos    == 0 .. (MAX_CONTENT - 1)
FD     == 0 .. (MAX_FD - 1)
Handle == 1 .. MAX_KALLOC

ramfs_file == [path : Path \cup {NoPath}, written : SUBSET Pos,
               size : 0 .. MAX_CONTENT, used : BOOLEAN]
vfs_file   == [private_data : Slot, f_pos : 0 .. MAX_CONTENT]

Least(a, b) == IF a <= b THEN a ELSE b

(* vfs_init has run: ramfs_init cleared every slot. *)
Init == /\ files = [s \in Slot |-> [path |-> NoPath, written |-> {},
                                    size |-> 0, used |-> FALSE]]
        /\ handles = << >>
        /\ heap_pos = 0
        /\ fd_table = [fd \in FD |-> NULL]
        /\ next_fd = 0
        /\ ret = 0
        /\ stale = {}
        /\ touched = {}

--------------------------------------------------------------------------------
(* Slots, handles and descriptors. *)

(* The loops over files[]: the first slot of a set. *)
FirstOf(s, S) == s \in S /\ \A t \in S : s <= t

Named(path) == {s \in Slot : files[s].used /\ files[s].path = path}

(* Mutant: a slot counts as free when it is empty. *)
FreeWhenEmpty == {s \in Slot : files[s].size = 0}

Free == {s \in Slot : ~files[s].used}

(* Mutant: the size of the last file in the slot stays. *)
TakenWithItsSize(s, path) ==
  [files EXCEPT ![s].path = path, ![s].written = {}, ![s].used = TRUE]

(* A slot taken for a new, empty file. *)
Taken(s, path) ==
  [files EXCEPT ![s] = [path |-> path, written |-> {}, size |-> 0, used |-> TRUE]]

HeapFull == heap_pos >= MAX_KALLOC

(* The rest of the kernel takes from the same heap. *)
kalloc == /\ ~HeapFull
          /\ heap_pos' = heap_pos + 1
          /\ UNCHANGED <<files, handles, fd_table, next_fd, ret, stale, touched>>

(* Mutant: the lowest closed descriptor is handed out again. *)
LowestFd(s) ==
  /\ handles' = Append(handles, [private_data |-> s, f_pos |-> 0])
  /\ heap_pos' = heap_pos + 1
  /\ \/ /\ \A fd \in FD : fd_table[fd] # NULL
        /\ ret' = -1
        /\ UNCHANGED <<fd_table, next_fd>>
     \/ \E fd \in FD :
          /\ FirstOf(fd, {d \in FD : fd_table[d] = NULL})
          /\ fd_table' = [fd_table EXCEPT ![fd] = Len(handles) + 1]
          /\ next_fd' = IF fd < next_fd THEN next_fd ELSE fd + 1
          /\ ret' = fd

(* A handle at position 0 on slot s, then alloc_fd.  Descriptors are only  *)
(* ever handed out upwards; when there are none left the handle is lost.   *)
alloc_fd(s) ==
  /\ handles' = Append(handles, [private_data |-> s, f_pos |-> 0])
  /\ heap_pos' = heap_pos + 1
  /\ \/ /\ next_fd >= MAX_FD
        /\ ret' = -1
        /\ UNCHANGED <<fd_table, next_fd>>
     \/ /\ next_fd < MAX_FD
        /\ fd_table' = [fd_table EXCEPT ![next_fd] = Len(handles) + 1]
        /\ next_fd' = next_fd + 1
        /\ ret' = next_fd

get_file(fd) == IF fd \in FD THEN fd_table[fd] ELSE NULL

Fails == ret' = -1

--------------------------------------------------------------------------------
(* The calls. *)

(* ramfs_open: the first slot of that name.  f_path is left out. *)
ramfs_open(path) ==
  \/ /\ Named(path) = {} \/ HeapFull
     /\ Fails
     /\ UNCHANGED <<handles, heap_pos, fd_table, next_fd>>
  \/ /\ ~HeapFull
     /\ \E s \in Slot : FirstOf(s, Named(path)) /\ alloc_fd(s)

vfs_open(path) == ramfs_open(path) /\ UNCHANGED <<files, stale, touched>>

(* Mutant: a create that finds the heap full keeps its slot. *)
CreateKeepsSlot(path) ==
  \/ /\ Free = {}
     /\ Fails
     /\ UNCHANGED <<files, handles, heap_pos, fd_table, next_fd, touched>>
  \/ \E s \in Slot :
       /\ FirstOf(s, Free)
       /\ files' = Taken(s, path)
       /\ touched' = touched \ {s}
       /\ \/ ~HeapFull /\ alloc_fd(s)
          \/ HeapFull /\ Fails /\ UNCHANGED <<handles, heap_pos, fd_table, next_fd>>

(* ramfs_create: no look at the names in use, so a name can come to stand  *)
(* in two slots.  With no heap left the slot is given back.                *)
ramfs_create(path) ==
  \/ /\ Free = {}
     /\ Fails
     /\ UNCHANGED <<files, handles, heap_pos, fd_table, next_fd, touched>>
  \/ \E s \in Slot :
       /\ FirstOf(s, Free)
       /\ touched' = touched \ {s}
       /\ \/ /\ ~HeapFull
             /\ files' = Taken(s, path)
             /\ alloc_fd(s)
          \/ /\ HeapFull
             /\ files' = [Taken(s, path) EXCEPT ![s].used = FALSE]
             /\ Fails
             /\ UNCHANGED <<handles, heap_pos, fd_table, next_fd>>

vfs_create(path) == ramfs_create(path) /\ UNCHANGED stale

(* ramfs_read: nothing at or beyond the end, else up to the end. *)
ramfs_read(h, count) ==
  LET left == files[handles[h].private_data].size - handles[h].f_pos
      n    == IF left <= 0 THEN 0 ELSE Least(count, left)
  IN  /\ ret' = n
      /\ handles' = [handles EXCEPT ![h].f_pos = @ + n]

vfs_read(fd, count) ==
  /\ UNCHANGED <<files, heap_pos, fd_table, next_fd, stale, touched>>
  /\ \/ get_file(fd) = NULL /\ Fails /\ UNCHANGED handles
     \/ get_file(fd) # NULL /\ ramfs_read(get_file(fd), count)

(* Mutant: the write is not cut at the end of content[]. *)
WriteUnclamped(h, count) ==
  LET s  == handles[h].private_data
      at == handles[h].f_pos
  IN  /\ ret' = count
      /\ handles' = [handles EXCEPT ![h].f_pos = at + count]
      /\ files' = [files EXCEPT ![s].size = at + count]
      /\ UNCHANGED touched

(* Mutant: the size is the position the write began at. *)
WriteBehind(h, count) ==
  LET s  == handles[h].private_data
      at == handles[h].f_pos
      n  == Least(count, MAX_CONTENT - at)
  IN  /\ ret' = n
      /\ handles' = [handles EXCEPT ![h].f_pos = at + n]
      /\ files' = [files EXCEPT ![s].size = at,
                                ![s].written = @ \cup (at .. (at + n - 1))]
      /\ touched' = IF h \in stale THEN touched \cup {s} ELSE touched

(* ramfs_write: from f_pos, cut at the end of content[]; the size follows  *)
(* f_pos when that passes it.                                              *)
ramfs_write(h, count) ==
  LET s  == handles[h].private_data
      at == handles[h].f_pos
      n  == Least(count, MAX_CONTENT - at)
  IN  /\ ret' = n
      /\ handles' = [handles EXCEPT ![h].f_pos = at + n]
      /\ \/ /\ n > 0
            /\ files' = [files EXCEPT
                 ![s].size = IF at + n > @ THEN at + n ELSE @,
                 ![s].written = @ \cup (at .. (at + n - 1))]
            /\ touched' = IF h \in stale THEN touched \cup {s} ELSE touched
         \/ n = 0 /\ UNCHANGED <<files, touched>>

vfs_write(fd, count) ==
  /\ UNCHANGED <<heap_pos, fd_table, next_fd, stale>>
  /\ \/ get_file(fd) = NULL /\ Fails /\ UNCHANGED <<files, handles, touched>>
     \/ get_file(fd) # NULL /\ ramfs_write(get_file(fd), count)

vfs_close(fd) ==
  /\ UNCHANGED <<files, handles, heap_pos, next_fd, stale, touched>>
  /\ \/ get_file(fd) = NULL /\ Fails /\ UNCHANGED fd_table
     \/ /\ get_file(fd) # NULL
        /\ fd_table' = [fd_table EXCEPT ![fd] = NULL]
        /\ ret' = 0

(* ramfs_unlink: the first slot of that name is free again; handles on it  *)
(* stay open.                                                              *)
ramfs_unlink(path) ==
  \/ Named(path) = {} /\ Fails /\ UNCHANGED <<files, stale>>
  \/ \E s \in Slot :
       /\ FirstOf(s, Named(path))
       /\ files' = [files EXCEPT ![s].used = FALSE, ![s].size = 0]
       /\ stale' = stale \cup
                   {h \in 1 .. Len(handles) : handles[h].private_data = s}
       /\ ret' = 0

vfs_unlink(path) ==
  ramfs_unlink(path) /\ UNCHANGED <<handles, heap_pos, fd_table, next_fd, touched>>

(* ramfs_mkdir: a directory is a slot like any other. *)
ramfs_mkdir(path) ==
  \/ Free = {} /\ Fails /\ UNCHANGED <<files, touched>>
  \/ \E s \in Slot : /\ FirstOf(s, Free)
                     /\ files' = Taken(s, path)
                     /\ touched' = touched \ {s}
                     /\ ret' = 0

vfs_mkdir(path) == ramfs_mkdir(path) /\ UNCHANGED <<handles, heap_pos, fd_table, next_fd, stale>>

(* ramfs_create_file: a file with a text of the given length, cut so that  *)
(* its final zero fits.                                                    *)
ramfs_create_file(path, length) ==
  /\ UNCHANGED <<handles, heap_pos, fd_table, next_fd, stale>>
  /\ \/ Free = {} /\ Fails /\ UNCHANGED <<files, touched>>
     \/ \E s \in Slot :
          /\ FirstOf(s, Free)
          /\ LET c == Least(length, MAX_CONTENT - 1)
             IN  files' = [Taken(s, path) EXCEPT ![s].size = c,
                                                 ![s].written = 0 .. c]
          /\ touched' = touched \ {s}
          /\ ret' = 0

(* A failed call hands its caller -1, which may come back as a descriptor. *)
Fd    == -1 .. (MAX_FD - 1)
Count == 1 .. (MAX_CONTENT + 1)

Next == \/ \E path \in Path : \/ vfs_open(path) \/ vfs_create(path)
                              \/ vfs_unlink(path) \/ vfs_mkdir(path)
                              \/ \E n \in Count : ramfs_create_file(path, n)
        \/ \E fd \in Fd : \/ vfs_close(fd)
                          \/ \E n \in Count : vfs_read(fd, n) \/ vfs_write(fd, n)
        \/ kalloc

Spec == Init /\ [][Next]_vars

--------------------------------------------------------------------------------
(* Every variable has its type.  For a position and a size the type is the *)
(* promise that no copy leaves content[]: MAX_CONTENT - f_pos is unsigned. *)
TypeOK == /\ files \in [Slot -> ramfs_file]
          /\ handles \in Seq(vfs_file)
          /\ heap_pos \in Len(handles) .. MAX_KALLOC
          /\ fd_table \in [FD -> {NULL} \cup (1 .. Len(handles))]
          /\ next_fd \in 0 .. MAX_FD
          /\ ret \in Int
          /\ stale \subseteq 1 .. Len(handles)
          /\ touched \subseteq Slot

(* A file shows only bytes written since it was made: no position below    *)
(* the size holds what an earlier file left in the slot.  It takes a write *)
(* through a handle that outlived its file to break this, which is why     *)
(* such slots are left out.                                                *)
NoLeftovers == \A s \in Slot : files[s].used /\ s \notin touched =>
                 \A i \in 0 .. (files[s].size - 1) : i \in files[s].written

(* A handle whose file was not unlinked is on a slot in use and within the *)
(* file, whatever other handles and calls did meanwhile.                   *)
HandlesInFile == \A h \in 1 .. Len(handles) :
  LET f == files[handles[h].private_data]
  IN  h \notin stale => f.used /\ handles[h].f_pos <= f.size

(* Descriptors not handed out yet are empty, and no two lead to one handle.*)
OwnHandles ==
  \A fd \in FD :
    /\ fd >= next_fd => fd_table[fd] = NULL
    /\ \A other \in FD : fd # other /\ fd_table[fd] # NULL
                          => fd_table[fd] # fd_table[other]

(* What holds all of the above up from one call to the next. *)
RamFSInv == TypeOK /\ HandlesInFile /\ NoLeftovers /\ OwnHandles

(* A descriptor once handed out never comes to mean another handle: it     *)
(* keeps its handle or is closed, and closed it stays; no two descriptors  *)
(* share a handle.                                                         *)
DescriptorsAreNotReused ==
  [][/\ \A fd \in FD : fd < next_fd => fd_table'[fd] \in {fd_table[fd], NULL}
     /\ \A fd, other \in FD : fd # other /\ fd_table'[fd] # NULL
                                => fd_table'[fd] # fd_table'[other]]_vars

(* While a file exists its name stays and it never shrinks, and only       *)
(* unlink ends it: no call for another path takes its slot.                *)
FilesKeepTheirSlot ==
  [][\A s \in Slot : files[s].used =>
       \/ /\ files'[s].used
          /\ files'[s].path = files[s].path
          /\ files'[s].size >= files[s].size
       \/ ret' = 0 /\ vfs_unlink(files[s].path)]_vars

(* A call that fails has changed no file in use and moved no handle, and   *)
(* what it did before it failed has been undone; but when descriptors have *)
(* run out, an open loses a handle and a create leaves an empty file too.  *)
FailureIsClean ==
  [][Fails =>
       /\ \A s \in Slot : files[s].used => files'[s] = files[s]
       /\ \A s \in Slot : files'[s].used /\ ~files[s].used =>
            next_fd = MAX_FD /\ files'[s].size = 0 /\ Len(handles') > Len(handles)
       /\ handles' # handles =>
            next_fd = MAX_FD /\ handles = SubSeq(handles', 1, Len(handles))
       /\ fd_table' = fd_table]_vars
================================================================================
