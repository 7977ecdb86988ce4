------------------------------ MODULE RamFSProofs ------------------------------
(***************************************************************************)
(* Proofs about RamFS, for any number of slots, bytes, descriptors and     *)
(* handles: the invariant RamFSInv and what follows from it.               *)
(***************************************************************************)
EXTENDS RamFS, SequenceTheorems, TLAPS

(* What alloc_fd does to handles and descriptors, as a step sees it. *)
OpenedOn(s) ==
  /\ handles' = Append(handles, [private_data |-> s, f_pos |-> 0])
  /\ heap_pos' = heap_pos + 1
  /\ \/ UNCHANGED <<fd_table, next_fd>>
     \/ /\ next_fd < MAX_FD
        /\ fd_table' = [fd_table EXCEPT ![next_fd] = Len(handles) + 1]
        /\ next_fd' = next_fd + 1

(* A new handle leaves the old ones as they are. *)
LEMMA NewHandle ==
  ASSUME NEW s \in Slot, handles \in Seq(vfs_file),
         handles' = Append(handles, [private_data |-> s, f_pos |-> 0])
  PROVE  /\ handles' \in Seq(vfs_file)
         /\ Len(handles') = Len(handles) + 1
         /\ \A h \in 1 .. Len(handles) : handles'[h] = handles[h]
         /\ handles'[Len(handles) + 1] = [private_data |-> s, f_pos |-> 0]
<1>1. [private_data |-> s, f_pos |-> 0] \in vfs_file
  BY RamFSAssumption DEF vfs_file
<1> QED
  BY <1>1, AppendProperties

(* A handle moved on leaves the others as they are. *)
LEMMA MovedHandle ==
  ASSUME handles \in Seq(vfs_file), NEW h \in 1 .. Len(handles),
         NEW p \in 0 .. MAX_CONTENT,
         handles' = [handles EXCEPT ![h].f_pos = p]
  PROVE  /\ handles' \in Seq(vfs_file)
         /\ Len(handles') = Len(handles)
         /\ \A k \in 1 .. Len(handles) : /\ handles'[k].private_data = handles[k].private_data
                                         /\ k # h => handles'[k] = handles[k]
         /\ handles'[h].f_pos = p
<1>1. \A k \in 1 .. Len(handles) : handles[k] \in vfs_file
  BY ElementOfSeq
<1>2. handles' = [handles EXCEPT ![h] = [@ EXCEPT !.f_pos = p]]
  OBVIOUS
<1>3. [handles[h] EXCEPT !.f_pos = p] \in vfs_file
  BY <1>1 DEF vfs_file
<1>4. handles' \in Seq(vfs_file) /\ Len(handles') = Len(handles)
  BY <1>2, <1>3, ExceptSeq
<1>5. \A k \in 1 .. Len(handles) :
        handles'[k] = IF k = h THEN [handles[h] EXCEPT !.f_pos = p] ELSE handles[k]
  BY <1>2, <1>3, ExceptSeq
<1> QED
  BY <1>1, <1>3, <1>4, <1>5 DEF vfs_file

(* alloc_fd keeps the descriptors apart. *)
LEMMA DescriptorsOpened ==
  ASSUME NEW s \in Slot, TypeOK, OwnHandles, OpenedOn(s), ~HeapFull
  PROVE  /\ heap_pos' \in Len(handles') .. MAX_KALLOC
         /\ fd_table' \in [FD -> {NULL} \cup (1 .. Len(handles'))]
         /\ next_fd' \in 0 .. MAX_FD
         /\ OwnHandles'
<1>1. handles \in Seq(vfs_file) /\ Len(handles) \in Nat
  BY DEF TypeOK
<1>2. Len(handles') = Len(handles) + 1
  BY <1>1, NewHandle DEF OpenedOn
<1>3. heap_pos' \in Len(handles') .. MAX_KALLOC
  BY <1>1, <1>2, RamFSAssumption DEF OpenedOn, TypeOK, HeapFull
<1>4. CASE UNCHANGED <<fd_table, next_fd>>
  BY <1>1, <1>2, <1>3, <1>4 DEF TypeOK, OwnHandles, FD, NULL
<1>5. CASE /\ next_fd < MAX_FD
           /\ fd_table' = [fd_table EXCEPT ![next_fd] = Len(handles) + 1]
           /\ next_fd' = next_fd + 1
  <2>1. next_fd \in FD /\ next_fd' \in 0 .. MAX_FD
    BY <1>5, RamFSAssumption DEF TypeOK, FD
  <2>2. \A fd \in FD : fd_table'[fd] = IF fd = next_fd THEN Len(handles) + 1 ELSE fd_table[fd]
    BY <1>5 DEF TypeOK
  <2>3. \A fd \in FD : fd_table[fd] \in {NULL} \cup (1 .. Len(handles))
    BY DEF TypeOK
  <2>4. fd_table' \in [FD -> {NULL} \cup (1 .. Len(handles'))]
    BY <1>1, <1>2, <1>5, <2>1, <2>2, <2>3 DEF TypeOK
  <2>5. ASSUME NEW fd \in FD
        PROVE  /\ fd >= next_fd' => fd_table'[fd] = NULL
               /\ \A other \in FD : fd # other /\ fd_table'[fd] # NULL
                                     => fd_table'[fd] # fd_table'[other]
    BY <1>1, <1>5, <2>1, <2>2, <2>3 DEF OwnHandles, NULL, FD
  <2> QED
    BY <1>3, <2>1, <2>4, <2>5 DEF OwnHandles
<1> QED
  BY <1>4, <1>5 DEF OpenedOn

--------------------------------------------------------------------------------
(* A free slot is taken, or given back at once, with or without a handle   *)
(* on it: what create, mkdir and ramfs_create_file do.                     *)
Takes(s, r) ==
  /\ s \in Free
  /\ r \in ramfs_file
  /\ r.used => \A i \in 0 .. (r.size - 1) : i \in r.written
  /\ files' = [files EXCEPT ![s] = r]
  /\ touched' = touched \ {s}
  /\ stale' = stale
  /\ ret' \in Int

LEMMA SlotTaken ==
  ASSUME NEW s \in Slot, NEW r, RamFSInv, Takes(s, r)
  PROVE  /\ files' \in [Slot -> ramfs_file]
         /\ NoLeftovers'
         /\ \A t \in Slot : files'[t] = IF t = s THEN r ELSE files[t]
         /\ \A h \in 1 .. Len(handles) : h \notin stale =>
              /\ handles[h].private_data # s
              /\ handles[h].private_data \in Slot
<1>1. \A t \in Slot : files'[t] = IF t = s THEN r ELSE files[t]
  BY DEF RamFSInv, TypeOK, Takes
<1>2. files' \in [Slot -> ramfs_file]
  BY <1>1 DEF RamFSInv, TypeOK, Takes
<1>3. NoLeftovers'
  BY <1>1 DEF RamFSInv, NoLeftovers, Takes
<1>4. ASSUME NEW h \in 1 .. Len(handles), h \notin stale
      PROVE  handles[h].private_data # s /\ handles[h].private_data \in Slot
  <2>1. handles[h] \in vfs_file
    BY ElementOfSeq DEF RamFSInv, TypeOK
  <2>2. files[handles[h].private_data].used
    BY <1>4 DEF RamFSInv, HandlesInFile
  <2> QED
    BY <2>1, <2>2 DEF Takes, Free, vfs_file
<1> QED
  BY <1>1, <1>2, <1>3, <1>4

LEMMA SlotTakenInv ==
  ASSUME NEW s \in Slot, NEW r, RamFSInv, Takes(s, r),
         UNCHANGED <<handles, heap_pos, fd_table, next_fd>>
  PROVE  RamFSInv'
<1>1. TypeOK'
  BY SlotTaken DEF RamFSInv, TypeOK, Takes
<1>2. HandlesInFile'
  BY SlotTaken DEF RamFSInv, HandlesInFile, Takes
<1>3. OwnHandles'
  BY DEF RamFSInv, OwnHandles
<1> QED
  BY <1>1, <1>2, <1>3, SlotTaken DEF RamFSInv

LEMMA SlotOpenedInv ==
  ASSUME NEW s \in Slot, NEW r, RamFSInv, Takes(s, r), r.used,
         ~HeapFull, OpenedOn(s)
  PROVE  RamFSInv'
<1>1. handles \in Seq(vfs_file) /\ Len(handles) \in Nat
  BY DEF RamFSInv, TypeOK
<1>2. /\ handles' \in Seq(vfs_file)
      /\ Len(handles') = Len(handles) + 1
      /\ \A h \in 1 .. Len(handles) : handles'[h] = handles[h]
      /\ handles'[Len(handles) + 1] = [private_data |-> s, f_pos |-> 0]
  BY <1>1, NewHandle DEF OpenedOn
<1>3. TypeOK'
  BY <1>1, <1>2, SlotTaken, DescriptorsOpened DEF RamFSInv, TypeOK, Takes
<1>4. HandlesInFile'
  <2> SUFFICES ASSUME NEW h \in 1 .. Len(handles'), h \notin stale'
               PROVE  /\ files'[handles'[h].private_data].used
                      /\ handles'[h].f_pos <= files'[handles'[h].private_data].size
    BY DEF HandlesInFile
  <2> DEFINE t == handles[h].private_data
  <2>1. CASE h \in 1 .. Len(handles)
    <3>1. t # s /\ t \in Slot /\ files'[t] = files[t]
      BY <2>1, SlotTaken DEF Takes
    <3>2. files[t].used /\ handles[h].f_pos <= files[t].size
      BY <2>1 DEF RamFSInv, HandlesInFile, Takes
    <3> QED
      BY <1>2, <2>1, <3>1, <3>2
  <2>2. CASE h = Len(handles) + 1
    <3>1. files'[s] = r
      BY SlotTaken
    <3>2. 0 <= r.size
      BY RamFSAssumption DEF Takes, ramfs_file
    <3>3. handles'[h].private_data = s /\ handles'[h].f_pos = 0
      BY <1>2, <2>2
    <3> QED
      BY <3>1, <3>2, <3>3
  <2> QED
    BY <1>1, <1>2, <2>1, <2>2
<1> QED
  BY <1>3, <1>4, SlotTaken, DescriptorsOpened DEF RamFSInv

(* An open of a slot in use. *)
LEMMA OpenInv ==
  ASSUME NEW s \in Slot, RamFSInv, files[s].used, ~HeapFull, OpenedOn(s),
         ret' \in Int, UNCHANGED <<files, stale, touched>>
  PROVE  RamFSInv'
<1>1. handles \in Seq(vfs_file) /\ Len(handles) \in Nat
  BY DEF RamFSInv, TypeOK
<1>2. /\ handles' \in Seq(vfs_file)
      /\ Len(handles') = Len(handles) + 1
      /\ \A h \in 1 .. Len(handles) : handles'[h] = handles[h]
      /\ handles'[Len(handles) + 1] = [private_data |-> s, f_pos |-> 0]
  BY <1>1, NewHandle DEF OpenedOn
<1>3. TypeOK'
  BY <1>1, <1>2, DescriptorsOpened DEF RamFSInv, TypeOK
<1>4. HandlesInFile'
  <2> SUFFICES ASSUME NEW h \in 1 .. Len(handles'), h \notin stale'
               PROVE  /\ files'[handles'[h].private_data].used
                      /\ handles'[h].f_pos <= files'[handles'[h].private_data].size
    BY DEF HandlesInFile
  <2>1. CASE h \in 1 .. Len(handles)
    BY <1>2, <2>1 DEF RamFSInv, HandlesInFile
  <2>2. CASE h = Len(handles) + 1
    BY <1>2, <2>2 DEF RamFSInv, TypeOK, ramfs_file
  <2> QED
    BY <1>1, <1>2, <2>1, <2>2
<1>5. NoLeftovers'
  BY DEF RamFSInv, NoLeftovers
<1> QED
  BY <1>3, <1>4, <1>5, DescriptorsOpened DEF RamFSInv

(* alloc_fd is one of the two cases of OpenedOn and returns an integer. *)
LEMMA AllocOpens ==
  ASSUME NEW s \in Slot, TypeOK, alloc_fd(s)
  PROVE  OpenedOn(s) /\ ret' \in Int
BY RamFSAssumption DEF alloc_fd, OpenedOn, TypeOK

(* No call changes anything when the state stays as it is. *)
LEMMA StutterInv ==
  ASSUME RamFSInv, ret' \in Int,
         UNCHANGED <<files, handles, heap_pos, fd_table, next_fd, stale, touched>>
  PROVE  RamFSInv'
BY DEF RamFSInv, TypeOK, HandlesInFile, NoLeftovers, OwnHandles

--------------------------------------------------------------------------------
(* A descriptor that is open leads to a handle, and that to a slot. *)
LEMMA OpenFile ==
  ASSUME TypeOK, NEW fd \in Fd, get_file(fd) # NULL
  PROVE  /\ fd \in FD
         /\ get_file(fd) \in 1 .. Len(handles)
         /\ handles[get_file(fd)] \in vfs_file
         /\ handles[get_file(fd)].private_data \in Slot
         /\ handles[get_file(fd)].f_pos \in 0 .. MAX_CONTENT
         /\ files[handles[get_file(fd)].private_data] \in ramfs_file
         /\ files[handles[get_file(fd)].private_data].size \in 0 .. MAX_CONTENT
<1>1. fd \in FD /\ get_file(fd) \in 1 .. Len(handles)
  BY DEF TypeOK, get_file
<1>2. handles[get_file(fd)] \in vfs_file
  BY <1>1, ElementOfSeq DEF TypeOK
<1> QED
  BY <1>1, <1>2 DEF TypeOK, vfs_file, ramfs_file

(* A read moves its handle up to the end of the file at most. *)
LEMMA ReadInv ==
  ASSUME RamFSInv, NEW fd \in Fd, NEW count \in Count, vfs_read(fd, count)
  PROVE  RamFSInv'
<1>1. CASE get_file(fd) = NULL
  BY <1>1, StutterInv DEF vfs_read, Fails
<1>2. CASE get_file(fd) # NULL
  <2> DEFINE h    == get_file(fd)
             s    == handles[h].private_data
             at   == handles[h].f_pos
             left == files[s].size - at
             n    == IF left <= 0 THEN 0 ELSE Least(count, left)
  <2>1. /\ h \in 1 .. Len(handles) /\ s \in Slot
        /\ at \in 0 .. MAX_CONTENT /\ files[s].size \in 0 .. MAX_CONTENT
    BY <1>2, OpenFile DEF RamFSInv
  <2>2. ret' = n /\ handles' = [handles EXCEPT ![h].f_pos = at + n]
    BY <1>2 DEF vfs_read, ramfs_read
  <2>3. n \in Nat /\ at + n \in 0 .. MAX_CONTENT
        /\ (at <= files[s].size => at + n <= files[s].size)
    BY <2>1, RamFSAssumption DEF Least, Count
  <2>4. handles \in Seq(vfs_file)
    BY DEF RamFSInv, TypeOK
  <2> HIDE DEF n, at
  <2>5. /\ handles' \in Seq(vfs_file)
        /\ Len(handles') = Len(handles)
        /\ \A k \in 1 .. Len(handles) : /\ handles'[k].private_data = handles[k].private_data
                                        /\ k # h => handles'[k] = handles[k]
        /\ handles'[h].f_pos = at + n
    BY <2>1, <2>2, <2>3, <2>4, MovedHandle
  <2>6. UNCHANGED <<files, heap_pos, fd_table, next_fd, stale, touched>>
    BY DEF vfs_read
  <2>7. TypeOK'
    BY <2>2, <2>3, <2>5, <2>6 DEF RamFSInv, TypeOK
  <2>8. HandlesInFile'
    <3> SUFFICES ASSUME NEW k \in 1 .. Len(handles'), k \notin stale'
                 PROVE  /\ files'[handles'[k].private_data].used
                        /\ handles'[k].f_pos <= files'[handles'[k].private_data].size
      BY DEF HandlesInFile
    <3>1. /\ files[handles[k].private_data].used
          /\ handles[k].f_pos <= files[handles[k].private_data].size
      BY <2>5, <2>6 DEF RamFSInv, HandlesInFile
    <3>2. CASE k # h
      BY <2>5, <2>6, <3>1, <3>2
    <3>3. CASE k = h
      BY <2>1, <2>3, <2>5, <2>6, <3>1, <3>3 DEF at
    <3> QED
      BY <3>2, <3>3
  <2>9. NoLeftovers' /\ OwnHandles'
    BY <2>6 DEF RamFSInv, NoLeftovers, OwnHandles
  <2> QED
    BY <2>7, <2>8, <2>9 DEF RamFSInv
<1> QED
  BY <1>1, <1>2

(* A write keeps its file together: what it adds begins within the file,   *)
(* unless the handle is stale.                                             *)
LEMMA WriteInv ==
  ASSUME RamFSInv, NEW fd \in Fd, NEW count \in Count, vfs_write(fd, count)
  PROVE  RamFSInv'
<1>1. CASE get_file(fd) = NULL
  BY <1>1, StutterInv DEF vfs_write, Fails
<1>2. CASE get_file(fd) # NULL
  <2> DEFINE h  == get_file(fd)
             s  == handles[h].private_data
             at == handles[h].f_pos
             n  == Least(count, MAX_CONTENT - at)
  <2>1. /\ h \in 1 .. Len(handles) /\ s \in Slot
        /\ at \in 0 .. MAX_CONTENT /\ files[s] \in ramfs_file
        /\ files[s].size \in 0 .. MAX_CONTENT
    BY <1>2, OpenFile DEF RamFSInv
  <2>2. /\ ret' = n /\ handles' = [handles EXCEPT ![h].f_pos = at + n]
        /\ \/ /\ n > 0
              /\ files' = [files EXCEPT
                   ![s].size = IF at + n > @ THEN at + n ELSE @,
                   ![s].written = @ \cup (at .. (at + n - 1))]
              /\ touched' = IF h \in stale THEN touched \cup {s} ELSE touched
           \/ n = 0 /\ UNCHANGED <<files, touched>>
    BY <1>2 DEF vfs_write, ramfs_write
  <2>3. n \in Nat /\ at + n \in 0 .. MAX_CONTENT
    BY <2>1, RamFSAssumption DEF Least, Count
  <2>4. handles \in Seq(vfs_file) /\ files \in [Slot -> ramfs_file]
    BY DEF RamFSInv, TypeOK
  <2> HIDE DEF n, at, h, s
  <2>5. /\ handles' \in Seq(vfs_file)
        /\ Len(handles') = Len(handles)
        /\ \A k \in 1 .. Len(handles) : /\ handles'[k].private_data = handles[k].private_data
                                        /\ k # h => handles'[k] = handles[k]
        /\ handles'[h].f_pos = at + n
    BY <2>1, <2>2, <2>3, <2>4, MovedHandle
  <2>6. UNCHANGED <<heap_pos, fd_table, next_fd, stale>>
    BY DEF vfs_write
  <2>7. /\ files' \in [Slot -> ramfs_file]
        /\ \A t \in Slot : t # s => files'[t] = files[t]
        /\ files'[s].used = files[s].used
        /\ files'[s].size >= files[s].size
        /\ files'[s].size >= at + n \/ n = 0
        /\ files'[s].size = files[s].size \/ files'[s].size = at + n
        /\ n > 0 => files'[s].written = files[s].written \cup (at .. (at + n - 1))
        /\ n = 0 => files'[s] = files[s]
    <3>1. CASE n = 0
      BY <2>1, <2>2, <2>4, <3>1
    <3>2. CASE n > 0
      <4> DEFINE r == [path |-> files[s].path,
                       written |-> files[s].written \cup (at .. (at + n - 1)),
                       size |-> IF at + n > files[s].size THEN at + n ELSE files[s].size,
                       used |-> files[s].used]
      <4>1. r \in ramfs_file
        BY <2>1, <2>3, RamFSAssumption DEF ramfs_file, Pos
      <4>2. files' = [files EXCEPT ![s] = r]
        BY <2>1, <2>2, <2>4, <3>2 DEF ramfs_file
      <4> QED
        BY <2>1, <2>3, <2>4, <3>2, <4>1, <4>2
    <3> QED
      BY <2>3, <3>1, <3>2
  <2>8. TypeOK'
    <3>1. ret' \in Int
      BY <2>2, <2>3
    <3>2. touched' \subseteq Slot
      BY <2>1, <2>2 DEF RamFSInv, TypeOK
    <3> QED
      BY <2>5, <2>6, <2>7, <3>1, <3>2 DEF RamFSInv, TypeOK
  <2>9. HandlesInFile'
    <3> SUFFICES ASSUME NEW k \in 1 .. Len(handles'), k \notin stale'
                 PROVE  /\ files'[handles'[k].private_data].used
                        /\ handles'[k].f_pos <= files'[handles'[k].private_data].size
      BY DEF HandlesInFile
    <3> DEFINE t == handles[k].private_data
    <3>1. /\ files[t].used /\ handles[k].f_pos <= files[t].size
      BY <2>5, <2>6 DEF RamFSInv, HandlesInFile
    <3>2. handles[k] \in vfs_file /\ t \in Slot /\ files[t].size \in 0 .. MAX_CONTENT
          /\ handles[k].f_pos \in 0 .. MAX_CONTENT
      <4>1. handles[k] \in vfs_file
        BY <2>4, <2>5, ElementOfSeq
      <4>2. t \in Slot /\ handles[k].f_pos \in 0 .. MAX_CONTENT
        BY <4>1 DEF vfs_file
      <4>3. files[t] \in ramfs_file
        BY <2>4, <4>2
      <4> QED
        BY <4>1, <4>2, <4>3 DEF ramfs_file
    <3>3. files'[t].used /\ files'[t].size >= files[t].size
          /\ files'[t].size \in 0 .. MAX_CONTENT
      BY <2>7, <3>1, <3>2 DEF ramfs_file
    <3>4. CASE k # h
      BY <2>5, <3>1, <3>2, <3>3, <3>4
    <3>5. CASE k = h
      BY <2>1, <2>3, <2>5, <2>7, <3>1, <3>2, <3>3, <3>5 DEF at, s
    <3> QED
      BY <3>4, <3>5
  <2>10. NoLeftovers'
    <3> SUFFICES ASSUME NEW t \in Slot, files'[t].used, t \notin touched',
                        NEW i \in 0 .. (files'[t].size - 1)
                 PROVE  i \in files'[t].written
      BY DEF NoLeftovers
    <3>1. t \notin touched
      BY <2>2
    <3>2. CASE t # s
      BY <2>7, <3>1, <3>2 DEF RamFSInv, NoLeftovers
    <3>3. CASE t = s /\ n = 0
      BY <2>7, <3>1, <3>3 DEF RamFSInv, NoLeftovers
    <3>4. CASE t = s /\ n > 0
      <4>1. h \notin stale
        BY <2>1, <2>2, <3>4
      <4>2. at <= files[s].size
        BY <2>1, <4>1 DEF RamFSInv, HandlesInFile, at, s
      <4>3. i \in 0 .. (files[s].size - 1) \/ i \in at .. (at + n - 1)
        BY <2>1, <2>3, <2>7, <3>4, <4>2
      <4>4. i \in 0 .. (files[s].size - 1) => i \in files[s].written
        BY <2>1, <2>7, <3>1, <3>4 DEF RamFSInv, NoLeftovers
      <4> QED
        BY <2>7, <3>4, <4>3, <4>4
    <3> QED
      BY <2>3, <3>2, <3>3, <3>4
  <2>11. OwnHandles'
    BY <2>6 DEF RamFSInv, OwnHandles
  <2> QED
    BY <2>8, <2>9, <2>10, <2>11 DEF RamFSInv
<1> QED
  BY <1>1, <1>2

LEMMA CloseInv ==
  ASSUME RamFSInv, NEW fd \in Fd, vfs_close(fd)
  PROVE  RamFSInv'
<1>1. CASE get_file(fd) = NULL
  BY <1>1, StutterInv DEF vfs_close, Fails
<1>2. CASE get_file(fd) # NULL
  <2>1. fd \in FD /\ fd_table' = [fd_table EXCEPT ![fd] = NULL] /\ ret' = 0
        /\ UNCHANGED <<files, handles, heap_pos, next_fd, stale, touched>>
    BY <1>2, OpenFile DEF vfs_close, RamFSInv
  <2>2. \A d \in FD : fd_table'[d] = IF d = fd THEN NULL ELSE fd_table[d]
    BY <2>1 DEF RamFSInv, TypeOK
  <2>3. TypeOK'
    BY <2>1, <2>2 DEF RamFSInv, TypeOK
  <2>4. OwnHandles'
    BY <2>1, <2>2 DEF RamFSInv, OwnHandles
  <2>5. HandlesInFile' /\ NoLeftovers'
    BY <2>1 DEF RamFSInv, HandlesInFile, NoLeftovers
  <2> QED
    BY <2>3, <2>4, <2>5 DEF RamFSInv
<1> QED
  BY <1>1, <1>2

(* The handles on the slot become stale with it. *)
LEMMA UnlinkInv ==
  ASSUME RamFSInv, NEW path \in Path, vfs_unlink(path)
  PROVE  RamFSInv'
<1>1. CASE Fails /\ UNCHANGED <<files, stale>>
  BY <1>1, StutterInv DEF vfs_unlink, Fails
<1>2. ASSUME NEW s \in Slot,
             files' = [files EXCEPT ![s].used = FALSE, ![s].size = 0],
             stale' = stale \cup {h \in 1 .. Len(handles) : handles[h].private_data = s},
             ret' = 0
      PROVE  RamFSInv'
  <2>1. UNCHANGED <<handles, heap_pos, fd_table, next_fd, touched>>
    BY DEF vfs_unlink
  <2>2. /\ \A t \in Slot : t # s => files'[t] = files[t]
        /\ files'[s].used = FALSE
        /\ files' \in [Slot -> ramfs_file]
    <3>1. files \in [Slot -> ramfs_file] /\ files[s] \in ramfs_file
      BY DEF RamFSInv, TypeOK
    <3> DEFINE q == [files[s] EXCEPT !.used = FALSE]
               r == [q EXCEPT !.size = 0]
    <3>2. q \in ramfs_file /\ q.used = FALSE
      BY <3>1 DEF ramfs_file
    <3>3. files' = [files EXCEPT ![s] = r]
      BY <1>2, <3>1
    <3> HIDE DEF q
    <3>4. r \in ramfs_file
      BY <3>2, RamFSAssumption DEF ramfs_file
    <3>5. r.used = FALSE
      BY <3>2 DEF ramfs_file
    <3> HIDE DEF r
    <3>6. \A t \in Slot : files'[t] = IF t = s THEN r ELSE files[t]
      BY <3>1, <3>3
    <3>7. files' \in [Slot -> ramfs_file]
      BY <3>1, <3>3, <3>4
    <3> QED
      BY <3>5, <3>6, <3>7
  <2>3. TypeOK'
    BY <1>2, <2>1, <2>2 DEF RamFSInv, TypeOK
  <2>4. HandlesInFile'
    <3> SUFFICES ASSUME NEW h \in 1 .. Len(handles'), h \notin stale'
                 PROVE  /\ files'[handles'[h].private_data].used
                        /\ handles'[h].f_pos <= files'[handles'[h].private_data].size
      BY DEF HandlesInFile
    <3> handles \in Seq(vfs_file) /\ h \in 1 .. Len(handles)
      BY <2>1 DEF RamFSInv, TypeOK
    <3>0. handles[h] \in vfs_file
      BY ElementOfSeq
    <3>1. handles[h].private_data \in Slot
      BY <3>0 DEF vfs_file
    <3>2. h \notin stale /\ handles[h].private_data # s /\ h \in 1 .. Len(handles)
      BY <1>2, <2>1
    <3>3. files'[handles[h].private_data] = files[handles[h].private_data]
      BY <2>2, <3>1, <3>2
    <3> QED
      BY <2>1, <3>2, <3>3 DEF RamFSInv, HandlesInFile
  <2>5. NoLeftovers'
    BY <2>1, <2>2 DEF RamFSInv, NoLeftovers
  <2>6. OwnHandles'
    BY <2>1 DEF RamFSInv, OwnHandles
  <2> QED
    BY <2>3, <2>4, <2>5, <2>6 DEF RamFSInv
<1> QED
  BY <1>1, <1>2 DEF vfs_unlink, ramfs_unlink

LEMMA OpenCallInv ==
  ASSUME RamFSInv, NEW path \in Path, vfs_open(path)
  PROVE  RamFSInv'
<1>1. UNCHANGED <<files, stale, touched>>
  BY DEF vfs_open
<1>2. CASE Fails /\ UNCHANGED <<handles, heap_pos, fd_table, next_fd>>
  BY <1>1, <1>2, StutterInv DEF Fails
<1>3. ASSUME NEW s \in Slot, ~HeapFull, FirstOf(s, Named(path)), alloc_fd(s)
      PROVE  RamFSInv'
  <2>1. OpenedOn(s) /\ ret' \in Int
    BY <1>3, AllocOpens DEF RamFSInv
  <2>2. files[s].used
    BY <1>3 DEF FirstOf, Named
  <2> QED
    BY <1>1, <1>3, <2>1, <2>2, OpenInv
<1> QED
  BY <1>2, <1>3 DEF vfs_open, ramfs_open

(* The record of a slot just taken. *)
LEMMA TakenSlot ==
  ASSUME TypeOK, NEW s \in Slot, NEW path \in Path
  PROVE  /\ Taken(s, path) \in [Slot -> ramfs_file]
         /\ Taken(s, path)[s] = [path |-> path, written |-> {}, size |-> 0, used |-> TRUE]
         /\ \A t \in Slot : t # s => Taken(s, path)[t] = files[t]
<1>1. [path |-> path, written |-> {}, size |-> 0, used |-> TRUE] \in ramfs_file
  BY RamFSAssumption DEF ramfs_file
<1> QED
  BY <1>1 DEF TypeOK, Taken

(* What create, mkdir and ramfs_create_file write to the slot they take. *)
LEMMA TakenFor ==
  ASSUME TypeOK, NEW s \in Slot, NEW path \in Path,
         files' = Taken(s, path), s \in Free,
         touched' = touched \ {s}, stale' = stale, ret' \in Int
  PROVE  \E r : Takes(s, r) /\ r.used /\ r.size = 0
<1> DEFINE r == [path |-> path, written |-> {}, size |-> 0, used |-> TRUE]
<1>1. r \in ramfs_file /\ r.size = 0 /\ r.used
  BY RamFSAssumption DEF ramfs_file
<1>2. files' = [files EXCEPT ![s] = r]
  BY DEF Taken
<1> HIDE DEF r
<1>3. Takes(s, r)
  BY <1>1, <1>2 DEF Takes
<1> QED
  BY <1>1, <1>3

LEMMA CreateInv ==
  ASSUME RamFSInv, NEW path \in Path, vfs_create(path)
  PROVE  RamFSInv'
<1>1. stale' = stale
  BY DEF vfs_create
<1>2. CASE Fails /\ UNCHANGED <<files, handles, heap_pos, fd_table, next_fd, touched>>
  BY <1>1, <1>2, StutterInv DEF Fails
<1>3. ASSUME NEW s \in Slot, FirstOf(s, Free), touched' = touched \ {s},
             ~HeapFull, files' = Taken(s, path), alloc_fd(s)
      PROVE  RamFSInv'
  <2>1. OpenedOn(s) /\ ret' \in Int
    BY <1>3, AllocOpens DEF RamFSInv
  <2>2. PICK r : Takes(s, r) /\ r.used
    BY <1>1, <1>3, <2>1, TakenFor DEF RamFSInv, FirstOf
  <2> QED
    BY <1>3, <2>1, <2>2, SlotOpenedInv
<1>4. ASSUME NEW s \in Slot, FirstOf(s, Free), touched' = touched \ {s},
             files' = [Taken(s, path) EXCEPT ![s].used = FALSE],
             Fails, UNCHANGED <<handles, heap_pos, fd_table, next_fd>>
      PROVE  RamFSInv'
  <2> DEFINE q == Taken(s, path)[s]
             r == [q EXCEPT !.used = FALSE]
  <2>1. Taken(s, path) \in [Slot -> ramfs_file] /\ q \in ramfs_file
    BY TakenSlot DEF RamFSInv
  <2>2. \A t \in Slot : t # s => Taken(s, path)[t] = files[t]
    BY TakenSlot DEF RamFSInv
  <2>3. files' = [Taken(s, path) EXCEPT ![s] = r]
    BY <1>4, <2>1
  <2> HIDE DEF q
  <2>4. r \in ramfs_file /\ r.used = FALSE
    BY <2>1 DEF ramfs_file
  <2> HIDE DEF r
  <2>5. files' = [files EXCEPT ![s] = r]
    BY <2>1, <2>2, <2>3, <2>4 DEF RamFSInv, TypeOK
  <2>6. s \in Free /\ ret' \in Int
    BY <1>4 DEF FirstOf, Fails
  <2>7. Takes(s, r)
    BY <1>1, <1>4, <2>4, <2>5, <2>6 DEF Takes
  <2> QED
    BY <1>4, <2>7, SlotTakenInv
<1> QED
  BY <1>2, <1>3, <1>4 DEF vfs_create, ramfs_create

LEMMA MkdirInv ==
  ASSUME RamFSInv, NEW path \in Path, vfs_mkdir(path)
  PROVE  RamFSInv'
<1>1. UNCHANGED <<handles, heap_pos, fd_table, next_fd, stale>>
  BY DEF vfs_mkdir
<1>2. CASE Fails /\ UNCHANGED <<files, touched>>
  BY <1>1, <1>2, StutterInv DEF Fails
<1>3. ASSUME NEW s \in Slot, FirstOf(s, Free), files' = Taken(s, path),
             touched' = touched \ {s}, ret' = 0
      PROVE  RamFSInv'
  <2>1. PICK r : Takes(s, r)
    BY <1>1, <1>3, TakenFor DEF RamFSInv, FirstOf
  <2> QED
    BY <1>1, <2>1, SlotTakenInv
<1> QED
  BY <1>2, <1>3 DEF vfs_mkdir, ramfs_mkdir

LEMMA CreateFileInv ==
  ASSUME RamFSInv, NEW path \in Path, NEW length \in Count,
         ramfs_create_file(path, length)
  PROVE  RamFSInv'
<1>1. UNCHANGED <<handles, heap_pos, fd_table, next_fd, stale>>
  BY DEF ramfs_create_file
<1>2. CASE Fails /\ UNCHANGED <<files, touched>>
  BY <1>1, <1>2, StutterInv DEF Fails
<1> DEFINE c == Least(length, MAX_CONTENT - 1)
<1>3. ASSUME NEW s \in Slot, FirstOf(s, Free),
             files' = [Taken(s, path) EXCEPT ![s].size = c, ![s].written = 0 .. c],
             touched' = touched \ {s}, ret' = 0
      PROVE  RamFSInv'
  <2> DEFINE q == Taken(s, path)[s]
             p == [q EXCEPT !.size = c]
             r == [p EXCEPT !.written = 0 .. c]
  <2>1. c \in 0 .. (MAX_CONTENT - 1) /\ 0 .. c \in SUBSET Pos
    BY RamFSAssumption DEF Least, Count, Pos
  <2> HIDE DEF c
  <2>2. Taken(s, path) \in [Slot -> ramfs_file] /\ q \in ramfs_file
    BY TakenSlot DEF RamFSInv
  <2>3. \A t \in Slot : t # s => Taken(s, path)[t] = files[t]
    BY TakenSlot DEF RamFSInv
  <2>4. files' = [Taken(s, path) EXCEPT ![s] = r]
    BY <1>3, <2>2
  <2> HIDE DEF q
  <2>5. p \in ramfs_file /\ p.size = c
    BY <2>1, <2>2, RamFSAssumption DEF ramfs_file
  <2> HIDE DEF p
  <2>6. r \in ramfs_file /\ r.size = c /\ r.written = 0 .. c
    BY <2>1, <2>5 DEF ramfs_file
  <2> HIDE DEF r
  <2>7. files' = [files EXCEPT ![s] = r]
    BY <2>2, <2>3, <2>4, <2>6 DEF RamFSInv, TypeOK
  <2>8. s \in Free /\ ret' \in Int /\ \A i \in 0 .. (r.size - 1) : i \in r.written
    BY <1>3, <2>1, <2>6 DEF FirstOf
  <2>9. Takes(s, r)
    BY <1>1, <1>3, <2>6, <2>7, <2>8 DEF Takes
  <2> QED
    BY <1>1, <2>9, SlotTakenInv
<1> QED
  BY <1>2, <1>3 DEF ramfs_create_file

LEMMA KallocInv ==
  ASSUME RamFSInv, kalloc
  PROVE  RamFSInv'
<1>1. UNCHANGED <<files, handles, fd_table, next_fd, ret, stale, touched>>
      /\ heap_pos' = heap_pos + 1
  BY DEF kalloc
<1>2. Len(handles) \in Nat /\ heap_pos' \in Len(handles) .. MAX_KALLOC
  BY <1>1, RamFSAssumption DEF RamFSInv, TypeOK, kalloc, HeapFull
<1> QED
  BY <1>1, <1>2 DEF RamFSInv, TypeOK, HandlesInFile, NoLeftovers, OwnHandles

(* The invariant holds when vfs_init has run. *)
LEMMA InitInv == Init => RamFSInv
<1> SUFFICES ASSUME Init PROVE RamFSInv
  OBVIOUS
<1>1. handles = << >> /\ Len(handles) = 0 /\ handles \in Seq(vfs_file)
  BY DEF Init
<1>2. [path |-> NoPath, written |-> {}, size |-> 0, used |-> FALSE] \in ramfs_file
  BY RamFSAssumption DEF ramfs_file
<1>3. files \in [Slot -> ramfs_file] /\ \A s \in Slot : ~files[s].used
  BY <1>2 DEF Init
<1>4. TypeOK
  <2>1. heap_pos \in Len(handles) .. MAX_KALLOC /\ next_fd \in 0 .. MAX_FD /\ ret \in Int
    BY <1>1, RamFSAssumption DEF Init
  <2>2. fd_table \in [FD -> {NULL} \cup (1 .. Len(handles))]
    BY DEF Init
  <2>3. stale \subseteq 1 .. Len(handles) /\ touched \subseteq Slot
    BY DEF Init
  <2> QED
    BY <1>1, <1>3, <2>1, <2>2, <2>3 DEF TypeOK
<1>5. HandlesInFile /\ NoLeftovers
  BY <1>1, <1>3 DEF HandlesInFile, NoLeftovers
<1>6. OwnHandles
  BY DEF Init, OwnHandles
<1> QED
  BY <1>4, <1>5, <1>6 DEF RamFSInv

LEMMA NextInv == RamFSInv /\ [Next]_vars => RamFSInv'
<1> SUFFICES ASSUME RamFSInv, [Next]_vars PROVE RamFSInv'
  OBVIOUS
<1>1. ASSUME NEW path \in Path,
             \/ vfs_open(path) \/ vfs_create(path) \/ vfs_unlink(path) \/ vfs_mkdir(path)
             \/ \E n \in Count : ramfs_create_file(path, n)
      PROVE  RamFSInv'
  BY <1>1, OpenCallInv, CreateInv, UnlinkInv, MkdirInv, CreateFileInv
<1>2. ASSUME NEW fd \in Fd,
             \/ vfs_close(fd)
             \/ \E n \in Count : vfs_read(fd, n) \/ vfs_write(fd, n)
      PROVE  RamFSInv'
  BY <1>2, CloseInv, ReadInv, WriteInv
<1>3. CASE kalloc
  BY <1>3, KallocInv
<1>4. CASE UNCHANGED vars
  BY <1>4, StutterInv DEF vars, RamFSInv, TypeOK
<1> QED
  BY <1>1, <1>2, <1>3, <1>4 DEF Next

--------------------------------------------------------------------------------
(* However the calls on RAMFS are mixed, the invariant holds after each. *)
THEOREM RamFSInvariant == Spec => []RamFSInv
<1>1. Init => RamFSInv
  BY InitInv
<1>2. RamFSInv /\ [Next]_vars => RamFSInv'
  BY NextInv
<1> QED
  BY <1>1, <1>2, PTL DEF Spec

(* No position or size ever leaves content[], whatever callers read and    *)
(* write (ramfs_read, ramfs_write).                                        *)
THEOREM TypeCorrect == Spec => []TypeOK
<1>1. RamFSInv => TypeOK
  BY DEF RamFSInv
<1> QED
  BY <1>1, RamFSInvariant, PTL

(* A handle stays within its file until the file is unlinked. *)
THEOREM HandlesStayInFile == Spec => []HandlesInFile
<1>1. RamFSInv => HandlesInFile
  BY DEF RamFSInv
<1> QED
  BY <1>1, RamFSInvariant, PTL

(* No file shows what an earlier file left in its slot, where no handle    *)
(* outlived that file to write to it.                                      *)
THEOREM NothingIsLeftOver == Spec => []NoLeftovers
<1>1. RamFSInv => NoLeftovers
  BY DEF RamFSInv
<1> QED
  BY <1>1, RamFSInvariant, PTL

--------------------------------------------------------------------------------
(* Step by step: the three action properties. *)
DescriptorsKept == \A fd \in FD : fd < next_fd => fd_table'[fd] \in {fd_table[fd], NULL}

LEMMA OpenKeepsDescriptors ==
  ASSUME NEW s \in Slot, TypeOK, alloc_fd(s)
  PROVE  DescriptorsKept
<1>1. CASE UNCHANGED <<fd_table, next_fd>>
  BY <1>1 DEF DescriptorsKept
<1>2. CASE fd_table' = [fd_table EXCEPT ![next_fd] = Len(handles) + 1]
  BY <1>2 DEF TypeOK, DescriptorsKept, FD
<1> QED
  BY <1>1, <1>2 DEF alloc_fd

LEMMA NextKeepsDescriptors ==
  ASSUME RamFSInv, [Next]_vars
  PROVE  DescriptorsKept
<1>1. CASE UNCHANGED fd_table
  BY <1>1 DEF DescriptorsKept
<1>2. ASSUME NEW s \in Slot, alloc_fd(s) PROVE DescriptorsKept
  BY <1>2, OpenKeepsDescriptors DEF RamFSInv
<1>3. ASSUME NEW fd \in Fd, fd_table' = [fd_table EXCEPT ![fd] = NULL]
      PROVE  DescriptorsKept
  BY <1>3 DEF RamFSInv, TypeOK, DescriptorsKept
<1>4. ASSUME NEW path \in Path, vfs_open(path) \/ vfs_create(path)
      PROVE  DescriptorsKept
  BY <1>1, <1>2, <1>4 DEF vfs_open, ramfs_open, vfs_create, ramfs_create
<1>5. ASSUME NEW path \in Path,
             vfs_unlink(path) \/ vfs_mkdir(path) \/ \E n \in Count : ramfs_create_file(path, n)
      PROVE  DescriptorsKept
  BY <1>1, <1>5 DEF vfs_unlink, vfs_mkdir, ramfs_create_file
<1>6. ASSUME NEW fd \in Fd,
             \/ vfs_close(fd)
             \/ \E n \in Count : vfs_read(fd, n) \/ vfs_write(fd, n)
      PROVE  DescriptorsKept
  BY <1>1, <1>3, <1>6 DEF vfs_close, vfs_read, vfs_write
<1>7. CASE kalloc \/ UNCHANGED vars
  BY <1>1, <1>7 DEF kalloc, vars
<1> QED
  BY <1>4, <1>5, <1>6, <1>7 DEF Next

(* A slot taken was free, so every file in use stays as it is. *)
FilesInUseKept == \A t \in Slot : files[t].used => files'[t] = files[t]

LEMMA TakingKeepsFiles ==
  ASSUME TypeOK, NEW s \in Free, NEW path \in Path, NEW r,
         files' = Taken(s, path) \/ files' = [Taken(s, path) EXCEPT ![s] = r]
  PROVE  FilesInUseKept
<1>1. s \in Slot /\ ~files[s].used
  BY DEF Free
<1>2. /\ Taken(s, path) \in [Slot -> ramfs_file]
      /\ \A t \in Slot : t # s => Taken(s, path)[t] = files[t]
  BY <1>1, TakenSlot
<1>3. \A t \in Slot : t # s => files'[t] = Taken(s, path)[t]
  BY <1>2
<1> QED
  BY <1>1, <1>2, <1>3 DEF FilesInUseKept

LEMMA CreationKeepsFiles ==
  ASSUME TypeOK, NEW path \in Path,
         \/ vfs_create(path) \/ vfs_mkdir(path)
         \/ \E n \in Count : ramfs_create_file(path, n)
  PROVE  FilesInUseKept
<1>1. CASE UNCHANGED files
  BY <1>1 DEF FilesInUseKept
<1>2. ASSUME NEW s \in Slot, FirstOf(s, Free), files' = Taken(s, path)
      PROVE  FilesInUseKept
  BY <1>2, TakingKeepsFiles DEF FirstOf
<1>3. ASSUME NEW s \in Slot, FirstOf(s, Free), NEW c,
             \/ files' = [Taken(s, path) EXCEPT ![s].used = FALSE]
             \/ files' = [Taken(s, path) EXCEPT ![s].size = c, ![s].written = 0 .. c]
      PROVE  FilesInUseKept
  <2>1. Taken(s, path) \in [Slot -> ramfs_file]
    BY TakenSlot
  <2>2. PICK r : files' = [Taken(s, path) EXCEPT ![s] = r]
    BY <1>3, <2>1
  <2> QED
    BY <1>3, <2>2, TakingKeepsFiles DEF FirstOf
<1>4. CASE vfs_create(path)
  BY <1>1, <1>2, <1>3, <1>4 DEF vfs_create, ramfs_create
<1>5. CASE vfs_mkdir(path)
  BY <1>1, <1>2, <1>5 DEF vfs_mkdir, ramfs_mkdir
<1>6. ASSUME NEW n \in Count, ramfs_create_file(path, n) PROVE FilesInUseKept
  BY <1>1, <1>3, <1>6 DEF ramfs_create_file
<1> QED
  BY <1>4, <1>5, <1>6

(* Apart from creation, only a write and an unlink touch the slots. *)
LEMMA WriteGrows ==
  ASSUME TypeOK, NEW fd \in Fd, NEW count \in Count, vfs_write(fd, count)
  PROVE  /\ ret' = -1 => get_file(fd) = NULL
         /\ \A t \in Slot : /\ files'[t].used = files[t].used
                             /\ files'[t].path = files[t].path
                             /\ files'[t].size >= files[t].size
<1>0. \A t \in Slot : files[t].size \in Int
  BY DEF TypeOK, ramfs_file
<1>1. CASE get_file(fd) = NULL
  BY <1>0, <1>1 DEF vfs_write
<1>2. CASE get_file(fd) # NULL
  <2> DEFINE h  == get_file(fd)
             s  == handles[h].private_data
             at == handles[h].f_pos
             n  == Least(count, MAX_CONTENT - at)
  <2>1. at \in 0 .. MAX_CONTENT /\ s \in Slot
    BY <1>2, OpenFile
  <2>2. n \in Nat /\ at + n \in 0 .. MAX_CONTENT
    BY <2>1, RamFSAssumption DEF Least, Count
  <2>3. ret' = n
    BY <1>2 DEF vfs_write, ramfs_write
  <2>4. \/ files' = [files EXCEPT
             ![s].size = IF at + n > @ THEN at + n ELSE @,
             ![s].written = @ \cup (at .. (at + n - 1))]
        \/ files' = files
    BY <1>2 DEF vfs_write, ramfs_write
  <2> HIDE DEF n, at, s, h
  <2>5. \A t \in Slot : t # s => files'[t] = files[t]
    BY <2>4 DEF TypeOK
  <2>6. /\ files'[s].used = files[s].used
        /\ files'[s].path = files[s].path
        /\ files'[s].size >= files[s].size
    <3>1. files[s] \in ramfs_file /\ files \in [Slot -> ramfs_file]
      BY <2>1 DEF TypeOK
    <3>2. CASE files' = files
      BY <1>0, <2>1, <3>2
    <3>3. CASE files' = [files EXCEPT
             ![s].size = IF at + n > @ THEN at + n ELSE @,
             ![s].written = @ \cup (at .. (at + n - 1))]
      BY <1>0, <2>1, <2>2, <3>1, <3>3 DEF ramfs_file
    <3> QED
      BY <2>4, <3>2, <3>3
  <2> QED
    BY <1>0, <2>2, <2>3, <2>5, <2>6
<1> QED
  BY <1>1, <1>2

FilesKept ==
  \A s \in Slot : files[s].used =>
    \/ /\ files'[s].used
       /\ files'[s].path = files[s].path
       /\ files'[s].size >= files[s].size
    \/ ret' = 0 /\ vfs_unlink(files[s].path)

LEMMA NextKeepsFiles ==
  ASSUME RamFSInv, [Next]_vars
  PROVE  FilesKept
<1>0. \A t \in Slot : files[t].size \in Int
  BY DEF RamFSInv, TypeOK, ramfs_file
<1>1. CASE FilesInUseKept
  BY <1>0, <1>1 DEF FilesInUseKept, FilesKept
<1>2. CASE UNCHANGED files
  BY <1>1, <1>2 DEF FilesInUseKept
<1>3. ASSUME NEW path \in Path,
             \/ vfs_create(path) \/ vfs_mkdir(path)
             \/ \E n \in Count : ramfs_create_file(path, n)
      PROVE  FilesKept
  BY <1>1, <1>3, CreationKeepsFiles DEF RamFSInv
<1>4. ASSUME NEW path \in Path, vfs_unlink(path) PROVE FilesKept
  <2>1. ASSUME NEW s \in Slot, FirstOf(s, Named(path)), ret' = 0,
               files' = [files EXCEPT ![s].used = FALSE, ![s].size = 0]
        PROVE  FilesKept
    <3>1. \A t \in Slot : t # s => files'[t] = files[t]
      BY <2>1 DEF RamFSInv, TypeOK
    <3>2. files[s].path = path
      BY <2>1 DEF FirstOf, Named
    <3>3. vfs_unlink(files[s].path)
      BY <1>4, <3>2
    <3>4. \A t \in Slot : t # s => /\ files'[t].used = files[t].used
                                  /\ files'[t].path = files[t].path
                                  /\ files'[t].size >= files[t].size
      BY <1>0, <3>1
    <3> QED
      BY <2>1, <3>3, <3>4 DEF FilesKept
  <2> QED
    BY <1>2, <1>4, <2>1 DEF vfs_unlink, ramfs_unlink
<1>5. ASSUME NEW fd \in Fd, NEW n \in Count, vfs_write(fd, n) PROVE FilesKept
  BY <1>5, WriteGrows DEF RamFSInv, FilesKept
<1>6. ASSUME NEW fd \in Fd, vfs_close(fd) \/ \E n \in Count : vfs_read(fd, n)
      PROVE  FilesKept
  BY <1>2, <1>6 DEF vfs_close, vfs_read
<1>7. ASSUME NEW path \in Path, vfs_open(path) PROVE FilesKept
  BY <1>2, <1>7 DEF vfs_open
<1>8. CASE kalloc \/ UNCHANGED vars
  BY <1>2, <1>8 DEF kalloc, vars
<1> QED
  BY <1>3, <1>4, <1>5, <1>6, <1>7, <1>8 DEF Next

(* Where a call fails for want of a descriptor. *)
LEMMA NoDescriptorLeft ==
  ASSUME TypeOK, NEW s \in Slot, alloc_fd(s), Fails
  PROVE  /\ next_fd = MAX_FD
         /\ fd_table' = fd_table
         /\ Len(handles') > Len(handles)
         /\ handles = SubSeq(handles', 1, Len(handles))
<1>1. next_fd >= MAX_FD /\ UNCHANGED <<fd_table, next_fd>>
  BY DEF alloc_fd, Fails, TypeOK
<1>2. handles \in Seq(vfs_file) /\ Len(handles) \in Nat
  BY DEF TypeOK
<1>3. /\ handles' \in Seq(vfs_file)
      /\ Len(handles') = Len(handles) + 1
      /\ \A h \in 1 .. Len(handles) : handles'[h] = handles[h]
  BY <1>2, NewHandle DEF alloc_fd
<1> DEFINE front == SubSeq(handles', 1, Len(handles))
<1>4. \A i \in 1 .. Len(handles) : handles'[i] \in vfs_file
  BY <1>2, <1>3, ElementOfSeq
<1>5. /\ front \in Seq(vfs_file)
      /\ Len(front) = IF 1 <= Len(handles) THEN Len(handles) - 1 + 1 ELSE 0
      /\ \A i \in 1 .. (Len(handles) - 1 + 1) : front[i] = handles'[1 + i - 1]
  BY <1>2, <1>4, SubSeqProperties
<1> HIDE DEF front
<1>6. Len(handles) = Len(front) /\ \A i \in 1 .. Len(handles) : handles[i] = front[i]
  BY <1>2, <1>3, <1>5
<1>7. handles = front
  BY <1>2, <1>5, <1>6, SeqEqual
<1> QED
  BY <1>1, <1>2, <1>3, <1>7, RamFSAssumption DEF TypeOK, front

CleanFailure ==
  Fails =>
    /\ \A s \in Slot : files[s].used => files'[s] = files[s]
    /\ \A s \in Slot : files'[s].used /\ ~files[s].used =>
         next_fd = MAX_FD /\ files'[s].size = 0 /\ Len(handles') > Len(handles)
    /\ handles' # handles =>
         next_fd = MAX_FD /\ handles = SubSeq(handles', 1, Len(handles))
    /\ fd_table' = fd_table

LEMMA OpenFailsClean ==
  ASSUME RamFSInv, NEW path \in Path, vfs_open(path)
  PROVE  CleanFailure
<1>1. CASE UNCHANGED <<handles, fd_table>>
  BY <1>1 DEF vfs_open, CleanFailure
<1>2. ASSUME NEW s \in Slot, alloc_fd(s) PROVE CleanFailure
  BY <1>2, NoDescriptorLeft DEF RamFSInv, vfs_open, CleanFailure
<1> QED
  BY <1>1, <1>2 DEF vfs_open, ramfs_open

LEMMA CreateFailsClean ==
  ASSUME RamFSInv, NEW path \in Path, vfs_create(path)
  PROVE  CleanFailure
<1>0. FilesInUseKept
  BY CreationKeepsFiles DEF RamFSInv
<1>1. CASE UNCHANGED <<files, handles, fd_table>>
  BY <1>1 DEF CleanFailure
<1>2. ASSUME NEW s \in Slot, files' = Taken(s, path), alloc_fd(s)
      PROVE  CleanFailure
  <2>1. \A t \in Slot : t # s => files'[t] = files[t]
    BY <1>2, TakenSlot DEF RamFSInv
  <2>2. files'[s].size = 0
    <3>1. files'[s] = [path |-> path, written |-> {}, size |-> 0, used |-> TRUE]
      BY <1>2, TakenSlot DEF RamFSInv
    <3> QED
      BY <3>1
  <2> QED
    BY <1>0, <1>2, <2>1, <2>2, NoDescriptorLeft DEF RamFSInv, FilesInUseKept, CleanFailure
<1>3. ASSUME NEW s \in Slot, UNCHANGED <<handles, fd_table>>,
             files' = [Taken(s, path) EXCEPT ![s].used = FALSE]
      PROVE  CleanFailure
  <2>1. \A t \in Slot : t # s => Taken(s, path)[t] = files[t]
    BY TakenSlot DEF RamFSInv
  <2>2. \A t \in Slot : t # s => files'[t] = Taken(s, path)[t]
    BY <1>3, TakenSlot DEF RamFSInv
  <2> DEFINE q == Taken(s, path)[s]
  <2>3. q \in ramfs_file
    BY TakenSlot DEF RamFSInv
  <2>4. files'[s] = [q EXCEPT !.used = FALSE]
    BY <1>3, TakenSlot DEF RamFSInv
  <2> HIDE DEF q
  <2>5. files'[s].used = FALSE
    BY <2>3, <2>4 DEF ramfs_file
  <2> QED
    BY <1>0, <1>3, <2>1, <2>2, <2>5 DEF FilesInUseKept, CleanFailure
<1> QED
  BY <1>1, <1>2, <1>3 DEF vfs_create, ramfs_create

LEMMA NextFailsClean ==
  ASSUME RamFSInv, [Next]_vars
  PROVE  CleanFailure
<1>1. CASE ~Fails
  BY <1>1 DEF CleanFailure
<1>2. CASE UNCHANGED <<files, handles, fd_table>>
  BY <1>2 DEF CleanFailure
<1>3. ASSUME NEW path \in Path, vfs_open(path) \/ vfs_create(path)
      PROVE  CleanFailure
  BY <1>3, OpenFailsClean, CreateFailsClean
<1>4. ASSUME NEW path \in Path,
             vfs_unlink(path) \/ vfs_mkdir(path) \/ \E n \in Count : ramfs_create_file(path, n)
      PROVE  CleanFailure
  <2>1. UNCHANGED <<handles, fd_table>>
    BY <1>4 DEF vfs_unlink, vfs_mkdir, ramfs_create_file
  <2>2. UNCHANGED files \/ ret' = 0
    <3>1. CASE vfs_unlink(path)
      BY <3>1 DEF vfs_unlink, ramfs_unlink
    <3>2. CASE vfs_mkdir(path)
      BY <3>2 DEF vfs_mkdir, ramfs_mkdir
    <3>3. ASSUME NEW n \in Count, ramfs_create_file(path, n)
          PROVE  UNCHANGED files \/ ret' = 0
      BY <3>3 DEF ramfs_create_file
    <3> QED
      BY <1>4, <3>1, <3>2, <3>3
  <2>3. CASE ret' = 0
    BY <1>1, <2>3 DEF Fails
  <2> QED
    BY <1>2, <2>1, <2>2, <2>3
<1>5. ASSUME NEW fd \in Fd, NEW n \in Count, vfs_write(fd, n)
      PROVE  CleanFailure
  <2>1. CASE get_file(fd) = NULL
    BY <1>2, <1>5, <2>1 DEF vfs_write
  <2>2. CASE get_file(fd) # NULL
    BY <1>1, <1>5, <2>2, WriteGrows DEF RamFSInv, Fails
  <2> QED
    BY <2>1, <2>2
<1>6. ASSUME NEW fd \in Fd, NEW n \in Count, vfs_read(fd, n)
      PROVE  CleanFailure
  <2>1. CASE get_file(fd) = NULL
    BY <1>2, <1>6, <2>1 DEF vfs_read
  <2>2. CASE get_file(fd) # NULL
    <3> DEFINE left == files[handles[get_file(fd)].private_data].size
                         - handles[get_file(fd)].f_pos
    <3>1. left \in Int
      BY <2>2, OpenFile DEF RamFSInv
    <3>2. ret' = IF left <= 0 THEN 0 ELSE Least(n, left)
      BY <1>6, <2>2 DEF vfs_read, ramfs_read
    <3> HIDE DEF left
    <3>3. ret' \in Nat
      BY <3>1, <3>2, RamFSAssumption DEF Least, Count
    <3> QED
      BY <1>1, <3>3 DEF Fails
  <2> QED
    BY <2>1, <2>2
<1>7. ASSUME NEW fd \in Fd, vfs_close(fd)
      PROVE  CleanFailure
  BY <1>1, <1>2, <1>7 DEF vfs_close, Fails
<1>8. CASE kalloc \/ UNCHANGED vars
  BY <1>2, <1>8 DEF kalloc, vars
<1> QED
  BY <1>3, <1>4, <1>5, <1>6, <1>7, <1>8 DEF Next

(* A descriptor never comes to mean another handle, and no two share one,  *)
(* however often files are opened and closed (alloc_fd, vfs_close).        *)
THEOREM DescriptorsMeanOneHandle == Spec => DescriptorsAreNotReused
<1>1. RamFSInv /\ RamFSInv' /\ [Next]_vars =>
        [/\ \A fd \in FD : fd < next_fd => fd_table'[fd] \in {fd_table[fd], NULL}
         /\ \A fd, other \in FD : fd # other /\ fd_table'[fd] # NULL
                                    => fd_table'[fd] # fd_table'[other]]_vars
  BY NextKeepsDescriptors DEF DescriptorsKept, RamFSInv, OwnHandles
<1> QED
  BY <1>1, RamFSInvariant, PTL DEF Spec, DescriptorsAreNotReused

(* No call takes the slot of a file in use, renames it or cuts it short;   *)
(* only its own unlink ends it (ramfs_create, ramfs_write, ramfs_unlink).  *)
THEOREM SlotsAreKept == Spec => FilesKeepTheirSlot
<1>1. RamFSInv /\ [Next]_vars =>
        [\A s \in Slot : files[s].used =>
           \/ /\ files'[s].used
              /\ files'[s].path = files[s].path
              /\ files'[s].size >= files[s].size
           \/ ret' = 0 /\ vfs_unlink(files[s].path)]_vars
  BY NextKeepsFiles DEF FilesKept
<1> QED
  BY <1>1, RamFSInvariant, PTL DEF Spec, FilesKeepTheirSlot

(* A call that fails leaves nothing half done, except when descriptors     *)
(* have run out (vfs_open and vfs_create do not give back what they took). *)
THEOREM FailuresAreUndone == Spec => FailureIsClean
<1>1. RamFSInv /\ [Next]_vars =>
        [Fails =>
           /\ \A s \in Slot : files[s].used => files'[s] = files[s]
           /\ \A s \in Slot : files'[s].used /\ ~files[s].used =>
                next_fd = MAX_FD /\ files'[s].size = 0 /\ Len(handles') > Len(handles)
           /\ handles' # handles =>
                next_fd = MAX_FD /\ handles = SubSeq(handles', 1, Len(handles))
           /\ fd_table' = fd_table]_vars
  BY NextFailsClean DEF CleanFailure
<1> QED
  BY <1>1, RamFSInvariant, PTL DEF Spec, FailureIsClean
================================================================================
