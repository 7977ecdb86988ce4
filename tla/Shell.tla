--------------------------------- MODULE Shell ---------------------------------
(***************************************************************************)
(* The commands of the shell (shell.c) as the sequences of VFS calls they  *)
(* are, over RAMFS (module RamFS), the root directory of AbyssFS and the   *)
(* descriptors, heap and working directory they share.  One action is one  *)
(* call, and the part of the command up to the next one.  Before the shell *)
(* starts the kernel tests may have made files.                            *)
(*                                                                         *)
(* To the slots of RamFS this module adds what is in them: text[s] is the  *)
(* bytes of slot s below its size.  Of AbyssFS it has what a command can   *)
(* see: inodes with size and bytes, and the names in the root.  Its        *)
(* directories, and the layout of all that in blocks, are in AbyssFS; here *)
(* no path leads to a directory of AbyssFS but the root, and no file is    *)
(* taken for one.  A process without bindings.                             *)
(***************************************************************************)
EXTENDS Paths, FiniteSets

CONSTANTS MAX_FILES, MAX_CONTENT, MAX_FD, MAX_KALLOC,   \* as in RamFS
          NINODES,        \* inodes of AbyssFS, inode 0 and the root's included
          NBLOCKS,        \* data blocks left for files
          CHUNK,          \* the buffer of cp (1024)
          Token,          \* the pieces of paths
          Operand,        \* paths that files are called by
          CdOperand,      \* operands of cd
          TestFile,       \* the file that the kernel tests make
          Texts,          \* the texts they put into it
          MAX_COMMANDS    \* bound on the commands given

ASSUME ShellAssumption ==
  /\ MAX_FILES \in Nat \ {0} /\ MAX_CONTENT \in Nat \ {0}
  /\ MAX_FD \in Nat /\ MAX_KALLOC \in Nat
  /\ NINODES \in Nat /\ NINODES > 1 /\ NBLOCKS \in Nat
  /\ CHUNK \in Nat \ {0} /\ MAX_COMMANDS \in Nat
  /\ {"/", "tmp"} \subseteq Token
  /\ \A path \in Operand : path \in Seq(Token) /\ path # << >>
  /\ \A path \in CdOperand : path \in Seq(Token)
  /\ TestFile \in Seq(Token) /\ IsPrefix(TmpDir, TestFile)
  /\ \A t \in Texts : t \in Seq(0 .. 255)

VARIABLES files, handles, heap_pos, fd_table, next_fd, ret, stale, touched,
          text,           \* bytes of each slot of RAMFS, up to its size
          node,           \* inodes of AbyssFS
          root,           \* entries of its root directory
          cwd,            \* of the shell's process
          pc,             \* what the shell does next
          cmd,            \* the command and its operands
          src_fd, dst_fd, buf,
          copied,         \* history: cp has come to the end of its source
          turn            \* commands given so far

ramvars == <<files, handles, heap_pos, fd_table, next_fd, ret, stale, touched>>
fsvars  == <<ramvars, text, node, root>>
vars    == <<fsvars, cwd, pc, cmd, src_fd, dst_fd, buf, copied, turn>>

Ram == INSTANCE RamFS WITH Path <- Seq(Token) \ {<< >>}, NoPath <- << >>

Byte    == 0 .. 255
NoFd    == -1
Inode   == 0 .. (NINODES - 1)
NoCmd   == [op |-> "none", src |-> << >>, dst |-> << >>]
Quiet   == {"boot", "prompt"}
Busy    == {"test_open", "test_read", "touch_close",
            "cp_create", "cp_read", "cp_write", "cp_done"}
Copying == {"cp_create", "cp_read", "cp_write"}

(* private_data of a handle on an inode, apart from that of one on a slot. *)
AbyssFile(i) == -1 - i
OnRam(h)     == handles[h].private_data >= 0
InodeOf(h)   == -1 - handles[h].private_data

(* vfs_init has run.  The file that test_abyssfs makes there has no name an *)
(* operand has; it is in neither root nor node.                            *)
Init == /\ Ram!Init
        /\ text = [s \in Ram!Slot |-> << >>]
        /\ node = [i \in Inode |-> [used |-> i = 1, size |-> 0, bytes |-> << >>]]
        /\ root = << >>
        /\ cwd = Slash
        /\ pc = "boot"
        /\ cmd = NoCmd
        /\ src_fd = NoFd /\ dst_fd = NoFd /\ buf = << >>
        /\ copied = FALSE
        /\ turn = 0

--------------------------------------------------------------------------------
(* AbyssFS, as far as files in its root go. *)

FreeInodes == {i \in Inode \ {0} : ~node[i].used}

(* A file has a block when it has bytes. *)
BlocksTaken == {i \in Inode : node[i].bytes # << >>}

Entries(name) == {k \in DOMAIN root : root[k].name = name}

(* Mutant: an open of AbyssFS does not look for the end of fd_table. *)
OpenUnchecked ==
  /\ UNCHANGED <<files, stale, touched>>
  /\ ~Ram!HeapFull
  /\ handles' = Append(handles, [private_data |-> AbyssFile(0), f_pos |-> 0])
  /\ heap_pos' = heap_pos + 1
  /\ fd_table' = [fd \in Ram!FD |-> IF fd = next_fd THEN Len(handles) + 1 ELSE fd_table[fd]]
  /\ next_fd' = next_fd + 1
  /\ ret' = next_fd

(* abyssfs_open: any path, and always as inode 0.  It sets no f_pos, but   *)
(* nothing is at or beyond the end of inode 0 to be read at any.           *)
abyssfs_open ==
  /\ UNCHANGED <<files, stale, touched>>
  /\ \/ /\ Ram!HeapFull
        /\ Ram!Fails
        /\ UNCHANGED <<handles, heap_pos, fd_table, next_fd>>
     \/ ~Ram!HeapFull /\ Ram!alloc_fd(AbyssFile(0))

(* abyssfs_create: an inode, an entry in the directory that cwd names, a   *)
(* handle; what was taken before a step failed stays taken.                *)
abyssfs_create(path) ==
  /\ UNCHANGED <<files, stale, touched, text>>
  /\ \/ /\ FreeInodes = {}
        /\ Ram!Fails
        /\ UNCHANGED <<node, root, handles, heap_pos, fd_table, next_fd>>
     \/ \E i \in Inode :
          /\ Ram!FirstOf(i, FreeInodes)
          /\ node' = [node EXCEPT ![i] = [used |-> TRUE, size |-> 0, bytes |-> << >>]]
          /\ \/ /\ cwd # Slash
                /\ Ram!Fails
                /\ UNCHANGED <<root, handles, heap_pos, fd_table, next_fd>>
             \/ /\ cwd = Slash
                /\ root' = Append(root, [name |-> get_basename(path), inode |-> i])
                /\ \/ ~Ram!HeapFull /\ Ram!alloc_fd(AbyssFile(i))
                   \/ /\ Ram!HeapFull
                      /\ Ram!Fails
                      /\ UNCHANGED <<handles, heap_pos, fd_table, next_fd>>

(* abyssfs_read.  Only inode 0 is read, through abyssfs_open. *)
abyssfs_read(h, count) ==
  LET i  == InodeOf(h)
      at == handles[h].f_pos
      n  == IF at >= node[i].size THEN 0 ELSE Ram!Least(count, node[i].size - at)
  IN  /\ ret' = n
      /\ buf' = SubSeq(node[i].bytes, at + 1, at + n)
      /\ handles' = [handles EXCEPT ![h].f_pos = at + n]
      /\ UNCHANGED <<files, heap_pos, fd_table, next_fd, stale, touched>>

(* abyssfs_write: always to the beginning of the one block, which the      *)
(* first write takes; size counts all of them.                             *)
abyssfs_write(h, bytes) ==
  LET i == InodeOf(h)
  IN  /\ UNCHANGED <<files, handles, heap_pos, fd_table, next_fd, stale, touched, text, root>>
      /\ \/ /\ i \notin BlocksTaken /\ Cardinality(BlocksTaken) >= NBLOCKS
            /\ ret' = 0
            /\ UNCHANGED node
         \/ /\ i \in BlocksTaken \/ Cardinality(BlocksTaken) < NBLOCKS
            /\ node' = [node EXCEPT
                 ![i].bytes = bytes \o SubSeq(@, Len(bytes) + 1, Len(@)),
                 ![i].size = @ + Len(bytes)]
            /\ ret' = Len(bytes)

(* The path without its leading slashes. *)
Unslashed(path) == LET first == SelectInSeq(path, LAMBDA piece : piece # "/")
                   IN  IF first = 0 THEN << >> ELSE SubSeq(path, first, Len(path))

(* abyssfs_unlink: the first entry of the root with that name, which the   *)
(* rest of the path is taken for.                                          *)
abyssfs_unlink(path) ==
  LET name == Unslashed(path)
  IN  /\ UNCHANGED <<files, handles, heap_pos, fd_table, next_fd, stale, touched, text>>
      /\ \/ Entries(name) = {} /\ Ram!Fails /\ UNCHANGED <<node, root>>
         \/ \E k \in Entries(name) :
              /\ Ram!FirstOf(k, Entries(name))
              /\ node' = [node EXCEPT ![root[k].inode] =
                            [used |-> FALSE, size |-> 0, bytes |-> << >>]]
              /\ root' = RemoveAt(root, k)
              /\ ret' = 0

--------------------------------------------------------------------------------
(* The VFS calls: which file system, and which form of the path it gets.   *)

Full(path) == full_path(cwd, path)

(* The name a file created in RAMFS is stored under. *)
StoredName(path) == IF IsPrefix(TmpDir, path) THEN path ELSE TmpDir \o path

(* The texts after a call that changed sizes but wrote nothing. *)
CutToSize == text' = [s \in Ram!Slot |-> SubSeq(text[s], 1, files'[s].size)]

(* vfs_open goes by the path as given. *)
vfs_open(path) ==
  /\ UNCHANGED <<text, node, root>>
  /\ \/ IsPrefix(TmpDir, path) /\ Ram!vfs_open(path)
     \/ ~IsPrefix(TmpDir, path) /\ abyssfs_open

(* vfs_create goes by the full path. *)
vfs_create(path) ==
  \/ /\ find_mount(Full(path)) = "ramfs"
     /\ Ram!vfs_create(StoredName(Full(path)))
     /\ CutToSize
     /\ UNCHANGED <<node, root>>
  \/ find_mount(Full(path)) = "abyssfs" /\ abyssfs_create(Full(path))

vfs_read(fd, count) ==
  LET h == Ram!get_file(fd)
  IN  /\ UNCHANGED <<text, node, root>>
      /\ \/ /\ OnRam(h)
            /\ Ram!vfs_read(fd, count)
            /\ buf' = SubSeq(text[handles[h].private_data],
                             handles[h].f_pos + 1, handles[h].f_pos + ret')
         \/ ~OnRam(h) /\ abyssfs_read(h, count)

vfs_write(fd, bytes) ==
  LET h  == Ram!get_file(fd)
      at == handles[h].f_pos
  IN  \/ /\ OnRam(h)
         /\ Ram!vfs_write(fd, Len(bytes))
         /\ text' = [text EXCEPT ![handles[h].private_data] =
              SubSeq(@, 1, at) \o SubSeq(bytes, 1, ret')
                \o SubSeq(@, at + ret' + 1, Len(@))]
         /\ UNCHANGED <<node, root>>
      \/ ~OnRam(h) /\ abyssfs_write(h, bytes)

vfs_close(fd) == Ram!vfs_close(fd) /\ UNCHANGED <<text, node, root>>

(* vfs_unlink finds the file system by the full path and gives it the path *)
(* it was given itself.                                                    *)
vfs_unlink(path) ==
  \/ /\ find_mount(Full(path)) = "ramfs"
     /\ Ram!vfs_unlink(path)
     /\ CutToSize
     /\ UNCHANGED <<node, root>>
  \/ find_mount(Full(path)) = "abyssfs" /\ abyssfs_unlink(path)

(* vfs_mkdir below /tmp; the full path is the name as it stands. *)
vfs_mkdir(path) == /\ find_mount(Full(path)) = "ramfs"
                   /\ Ram!vfs_mkdir(Full(path))
                   /\ CutToSize
                   /\ UNCHANGED <<node, root>>

(* ramfs_read_dir with the slots given, without "." and "..". *)
ramfs_read_dir(slots, dir) ==
  {get_basename(slots[s].path) :
     s \in {t \in Ram!Slot : slots[t].used /\ is_file_in_dir(slots[t].path, dir)}}

--------------------------------------------------------------------------------
(* The kernel tests that leave something: test_vfs and test_ramfs.  Each   *)
(* makes a file with a text, opens it and reads it.                        *)

locals == <<src_fd, dst_fd, buf, copied>>

test_vfs(t) ==
  /\ pc = "boot"
  /\ Ram!ramfs_create_file(TestFile, Len(t))
  /\ text' = [s \in Ram!Slot |->
       IF files'[s].used /\ ~files[s].used THEN SubSeq(t, 1, files'[s].size) ELSE text[s]]
  /\ pc' = IF ret' < 0 THEN "boot" ELSE "test_open"
  /\ cmd' = IF ret' < 0 THEN NoCmd ELSE [op |-> "test", src |-> TestFile, dst |-> << >>]
  /\ UNCHANGED <<node, root, cwd, locals, turn>>

test_open == /\ pc = "test_open"
             /\ vfs_open(cmd.src)
             /\ src_fd' = ret'
             /\ pc' = IF ret' < 0 THEN "boot" ELSE "test_read"
             /\ UNCHANGED <<cwd, cmd, dst_fd, buf, copied, turn>>

test_read == /\ pc = "test_read"
             /\ vfs_read(src_fd, MAX_CONTENT)
             /\ pc' = "boot"
             /\ src_fd' = NoFd
             /\ UNCHANGED <<cwd, cmd, dst_fd, copied, turn>>

(* The rest of the kernel takes from the heap. *)
kalloc == /\ pc = "boot"
          /\ Ram!kalloc
          /\ UNCHANGED <<text, node, root, cwd, pc, cmd, locals, turn>>

shell == /\ pc = "boot"
         /\ pc' = "prompt"
         /\ cmd' = NoCmd /\ buf' = << >>
         /\ UNCHANGED <<fsvars, cwd, src_fd, dst_fd, copied, turn>>

--------------------------------------------------------------------------------
(* Commands of one call. *)

Prompt == pc = "prompt" /\ turn < MAX_COMMANDS /\ turn' = turn + 1

cmd_rm(path) == /\ Prompt
                /\ vfs_unlink(path)
                /\ UNCHANGED <<cwd, pc, cmd, locals>>

cmd_mkdir(path) == /\ Prompt
                   /\ vfs_mkdir(path)
                   /\ UNCHANGED <<cwd, pc, cmd, locals>>

(* cmd_cd: to "" and ".." without a look; anything else must open, and the *)
(* descriptor it got stays taken.                                          *)
cmd_cd(path) ==
  /\ Prompt
  /\ UNCHANGED <<pc, cmd, locals>>
  /\ \/ path = << >> /\ cwd' = Slash /\ UNCHANGED fsvars
     \/ path = <<"..">> /\ cwd' = get_parent_dir(cwd) /\ UNCHANGED fsvars
     \/ /\ path \notin {<< >>, <<".">>, <<"..">>}
        /\ vfs_open(cd_target(cwd, path))
        /\ cwd' = IF ret' < 0 THEN cwd ELSE cd_target(cwd, path)

--------------------------------------------------------------------------------
(* touch: create, then close. *)

cmd_touch(path) ==
  /\ Prompt
  /\ vfs_create(path)
  /\ \/ ret' < 0 /\ UNCHANGED <<pc, cmd, dst_fd>>
     \/ /\ ret' >= 0
        /\ pc' = "touch_close"
        /\ cmd' = [op |-> "touch", src |-> << >>, dst |-> path]
        /\ dst_fd' = ret'
  /\ UNCHANGED <<cwd, src_fd, buf, copied>>

touch_close == /\ pc = "touch_close"
               /\ vfs_close(dst_fd)
               /\ pc' = "prompt" /\ cmd' = NoCmd /\ dst_fd' = NoFd
               /\ UNCHANGED <<cwd, src_fd, buf, copied, turn>>

--------------------------------------------------------------------------------
(* cp, and mv, which is cp and then an unlink.  Neither closes anything.   *)

cp_open(op, src, dst) ==
  /\ Prompt
  /\ vfs_open(src)
  /\ cmd' = [op |-> op, src |-> src, dst |-> dst]
  /\ src_fd' = ret'
  /\ pc' = IF ret' < 0 THEN "cp_done" ELSE "cp_create"
  /\ UNCHANGED <<cwd, dst_fd, buf, copied>>

(* Mutant: a file that has the name of the copy is unlinked first. *)
UnlinkExisting ==
  /\ pc = "cp_create"
  /\ \/ /\ Ram!Named(cmd.dst) # {}
        /\ vfs_unlink(cmd.dst)
        /\ UNCHANGED <<cwd, pc, cmd, locals, turn>>
     \/ /\ Ram!Named(cmd.dst) = {}
        /\ vfs_create(cmd.dst)
        /\ dst_fd' = ret'
        /\ pc' = IF ret' < 0 THEN "cp_done" ELSE "cp_read"
        /\ UNCHANGED <<cwd, cmd, src_fd, buf, copied, turn>>

cp_create == /\ pc = "cp_create"
             /\ vfs_create(cmd.dst)
             /\ dst_fd' = ret'
             /\ pc' = IF ret' < 0 THEN "cp_done" ELSE "cp_read"
             /\ UNCHANGED <<cwd, cmd, src_fd, buf, copied, turn>>

(* Mutant: a short read is taken for the end. *)
StopAtShortRead == /\ pc = "cp_read"
                   /\ vfs_read(src_fd, CHUNK)
                   /\ pc' = IF ret' = CHUNK THEN "cp_write" ELSE "cp_done"
                   /\ copied' = (0 <= ret' /\ ret' < CHUNK)
                   /\ UNCHANGED <<cwd, cmd, src_fd, dst_fd, turn>>

(* Mutant: only an error ends the loop. *)
ReadUntilError == /\ pc = "cp_read"
                  /\ vfs_read(src_fd, CHUNK)
                  /\ pc' = IF ret' >= 0 THEN "cp_write" ELSE "cp_done"
                  /\ copied' = (ret' = 0)
                  /\ UNCHANGED <<cwd, cmd, src_fd, dst_fd, turn>>

cp_read == /\ pc = "cp_read"
           /\ vfs_read(src_fd, CHUNK)
           /\ pc' = IF ret' > 0 THEN "cp_write" ELSE "cp_done"
           /\ copied' = (ret' = 0)
           /\ UNCHANGED <<cwd, cmd, src_fd, dst_fd, turn>>

(* Mutant: the buffer goes back to the source. *)
WriteToSource == /\ pc = "cp_write"
                 /\ vfs_write(src_fd, buf)
                 /\ pc' = IF ret' = Len(buf) THEN "cp_read" ELSE "cp_done"
                 /\ UNCHANGED <<cwd, cmd, locals, turn>>

cp_write == /\ pc = "cp_write"
            /\ vfs_write(dst_fd, buf)
            /\ pc' = IF ret' = Len(buf) THEN "cp_read" ELSE "cp_done"
            /\ UNCHANGED <<cwd, cmd, locals, turn>>

Return == /\ pc' = "prompt" /\ cmd' = NoCmd
          /\ src_fd' = NoFd /\ dst_fd' = NoFd /\ buf' = << >> /\ copied' = FALSE
          /\ UNCHANGED <<cwd, turn>>

cp_done == /\ pc = "cp_done" /\ cmd.op = "cp"
           /\ Return
           /\ UNCHANGED fsvars

(* Mutant: mv unlinks the file it made. *)
UnlinkTarget == /\ pc = "cp_done" /\ cmd.op = "mv"
                /\ vfs_unlink(cmd.dst)
                /\ Return

(* Whatever became of the copy. *)
mv_unlink == /\ pc = "cp_done" /\ cmd.op = "mv"
             /\ vfs_unlink(cmd.src)
             /\ Return

Continue == \/ test_open \/ test_read
            \/ touch_close
            \/ cp_create \/ cp_read \/ cp_write \/ cp_done \/ mv_unlink

Next == \/ \E t \in Texts : test_vfs(t)
        \/ kalloc \/ shell
        \/ \E path \in Operand : \/ cmd_rm(path) \/ cmd_mkdir(path) \/ cmd_touch(path)
                                 \/ \E dst \in Operand, op \in {"cp", "mv"} :
                                      cp_open(op, path, dst)
        \/ \E path \in CdOperand : cmd_cd(path)
        \/ Continue

(* A command once begun goes on: no call waits for anything. *)
Spec == Init /\ [][Next]_vars /\ WF_vars(Continue)

--------------------------------------------------------------------------------
(* Every variable has its type; in particular no open or create of either  *)
(* file system goes past the end of fd_table or of the heap.               *)
TypeOK ==
  /\ files \in [Ram!Slot -> Ram!ramfs_file]
  /\ handles \in Seq([private_data : Ram!Slot \cup {AbyssFile(i) : i \in Inode},
                      f_pos : 0 .. MAX_CONTENT])
  /\ heap_pos \in Len(handles) .. MAX_KALLOC
  /\ fd_table \in [Ram!FD -> {Ram!NULL} \cup (1 .. Len(handles))]
  /\ next_fd \in 0 .. MAX_FD
  /\ text \in [Ram!Slot -> Seq(Byte)]
  /\ \A s \in Ram!Slot : Len(text[s]) = files[s].size
  /\ node \in [Inode -> [used : BOOLEAN, size : Nat, bytes : Seq(Byte)]]
  /\ root \in Seq([name : Seq(Token), inode : Inode])
  /\ cwd \in Seq(Token) \ {<< >>}
  /\ pc \in Quiet \cup Busy
  /\ cmd \in [op : {"none", "test", "touch", "cp", "mv"},
              src : Seq(Token), dst : Seq(Token)]
  /\ {src_fd, dst_fd} \subseteq {NoFd} \cup (0 .. (next_fd - 1))
  /\ buf \in Seq(Byte) /\ copied \in BOOLEAN

(* Every entry of the root names an inode of its own, in use; inode 0,     *)
(* which opened files stand for, stays empty.                              *)
EntriesAreFiles ==
  /\ node[0] = [used |-> FALSE, size |-> 0, bytes |-> << >>]
  /\ \A k \in DOMAIN root :
       /\ node[root[k].inode].used
       /\ \A l \in DOMAIN root : root[k].inode = root[l].inode => k = l

(* Names of files in RAMFS are absolute, and what has a text is in /tmp/.  *)
NamesAreBelowTmp ==
  \A s \in Ram!Slot : files[s].used =>
    /\ Absolute(files[s].path)
    /\ text[s] # << >> => IsPrefix(TmpDir, files[s].path)

(* The command under way, and its operands. *)
CommandKnown ==
  /\ pc = "test_open" => cmd.op = "test"
  /\ pc \in Copying \cup {"cp_done"} => cmd.op \in {"cp", "mv"}
  /\ cmd.op = "test" => cmd.src = TestFile
  /\ cmd.op \in {"cp", "mv"} => {cmd.src, cmd.dst} \subseteq Operand

(* What a command holds at each point: the descriptors it has are open.    *)
DescriptorsOpen ==
  /\ src_fd # NoFd => Ram!get_file(src_fd) # Ram!NULL
  /\ dst_fd # NoFd => Ram!get_file(dst_fd) # Ram!NULL
  /\ pc \in {"test_read", "cp_create", "cp_read", "cp_write"} => src_fd # NoFd
  /\ pc \in {"touch_close", "cp_read", "cp_write"} => dst_fd # NoFd
  /\ pc \in Quiet \cup {"test_open", "touch_close"} => src_fd = NoFd
  /\ pc \in Quiet \cup {"test_open", "test_read", "cp_create"} => dst_fd = NoFd
  /\ copied => pc = "cp_done" /\ src_fd # NoFd /\ dst_fd # NoFd

(* The source of a command is a file in use, for cp and mv the operand's   *)
(* first but for the copy itself; or it is inode 0, which stands for what  *)
(* does not begin with /tmp/.  The copy begins at its beginning.           *)
SourceOpen ==
  LET h == Ram!get_file(src_fd)
      g == Ram!get_file(dst_fd)
      s == handles[h].private_data
  IN  src_fd # NoFd =>
        /\ IF OnRam(h)
           THEN /\ files[s].used
                /\ pc \in Copying \/ copied =>
                     /\ files[s].path = cmd.src
                     /\ \A t \in Ram!Slot :
                          t < s /\ files[t].used /\ files[t].path = cmd.src =>
                            dst_fd # NoFd /\ t = handles[g].private_data
           ELSE /\ InodeOf(h) = 0
                /\ pc \in Copying \/ copied => ~IsPrefix(TmpDir, cmd.src)
        /\ pc = "cp_create" => handles[h].f_pos = 0

(* What there is to be copied. *)
Source == LET h == Ram!get_file(src_fd)
          IN  IF OnRam(h) THEN text[handles[h].private_data] ELSE << >>

(* The destination is a file made for it under the name asked for. *)
TargetOpen ==
  LET h == Ram!get_file(src_fd)
      g == Ram!get_file(dst_fd)
      t == handles[g].private_data
  IN  pc \in {"cp_read", "cp_write"} \/ copied =>
        /\ h # g
        /\ t # handles[h].private_data
        /\ IF OnRam(g)
           THEN files[t].used /\ files[t].path = StoredName(Full(cmd.dst))
           ELSE \E k \in DOMAIN root :
                  root[k] = [name |-> get_basename(Full(cmd.dst)), inode |-> InodeOf(g)]

(* The destination has the first n bytes of the source, as far as writes   *)
(* to it keep what was there.                                              *)
HasFirst(n) ==
  LET g == Ram!get_file(dst_fd)
  IN  IF OnRam(g)
      THEN /\ handles[g].f_pos = n
           /\ text[handles[g].private_data] = SubSeq(Source, 1, n)
      ELSE /\ node[InodeOf(g)].size = n
           /\ n <= CHUNK => node[InodeOf(g)].bytes = SubSeq(Source, 1, n)

(* Where cp stops for a read: a chunk or more into the source, or at one   *)
(* of its ends.                                                            *)
Boundary(n) == /\ n \in 0 .. Len(Source)
               /\ n = 0 \/ n >= CHUNK \/ n = Len(Source)

(* The copy and its source move on together: between a read and the write  *)
(* that follows it the difference is in the buffer.                        *)
CopyInStep ==
  LET at == handles[Ram!get_file(src_fd)].f_pos
  IN  /\ pc = "cp_read" => Boundary(at) /\ HasFirst(at)
      /\ pc = "cp_write" =>
           /\ Boundary(at)
           /\ \E k \in 0 .. at : /\ k < at /\ at - k <= CHUNK
                                /\ Boundary(k) /\ HasFirst(k)
                                /\ buf = SubSeq(Source, k + 1, at)
      /\ copied => at = Len(Source) /\ HasFirst(at)

(* What holds from one call to the next. *)
ShellInv == /\ TypeOK
            /\ EntriesAreFiles
            /\ NamesAreBelowTmp
            /\ CommandKnown
            /\ DescriptorsOpen
            /\ SourceOpen
            /\ TargetOpen
            /\ CopyInStep

(* A cp that has come to the end of a source in RAMFS has made a whole     *)
(* copy: in RAMFS the same bytes, in AbyssFS the same size, and the same   *)
(* bytes if they went through the buffer at once.                          *)
CopyIsWhole ==
  pc = "cp_done" /\ copied =>
    LET from  == Ram!get_file(src_fd)
        to    == Ram!get_file(dst_fd)
        whole == text[handles[from].private_data]
    IN  OnRam(from) =>
          IF OnRam(to) THEN text[handles[to].private_data] = whole
          ELSE LET n == node[InodeOf(to)]
               IN  n.size = Len(whole) /\ (Len(whole) <= CHUNK => n.bytes = whole)

(* The text a completed mv takes away is in the file it made, unless that  *)
(* is one of AbyssFS and the text longer than the buffer.                  *)
MvKeepsTheText ==
  [][pc = "cp_done" /\ copied => \A s \in Ram!Slot :
       files[s].used /\ ~files'[s].used =>
         \/ \E t \in Ram!Slot : /\ files'[t].used
                                /\ text'[t] = text[s]
                                /\ files'[t].path = StoredName(Full(cmd.dst))
         \/ /\ ~OnRam(Ram!get_file(dst_fd))
            /\ \/ Len(text[s]) > CHUNK
               \/ node'[InodeOf(Ram!get_file(dst_fd))].bytes = text[s]]_vars

(* A file is changed only by a command that means it: cp and mv write to   *)
(* the file that the destination names, and what mv and rm take away has   *)
(* in RAMFS the full path that their operand stands for.  In AbyssFS it    *)
(* has in the root the name that the operand has as it is given: a         *)
(* relative one takes the root's file from whatever directory it is used.  *)
(* Where two entries bear that name only the first of them goes.           *)
OnlyTheTargetChanges ==
  [][/\ \A s \in Ram!Slot : files[s].used =>
          \/ /\ files'[s].used /\ files'[s].path = files[s].path /\ text'[s] = text[s]
          \/ /\ files'[s].used
             /\ pc = "cp_write" /\ files[s].path = StoredName(Full(cmd.dst))
          \/ /\ ~files'[s].used
             /\ \/ pc = "cp_done" /\ files[s].path = Full(cmd.src)
                \/ \E path \in Operand : cmd_rm(path) /\ files[s].path = Full(path)
     /\ \A k \in DOMAIN root :
          LET e == root[k]
          IN  \/ (\E l \in DOMAIN root' : root'[l] = e) /\ node'[e.inode] = node[e.inode]
              \/ /\ \E l \in DOMAIN root' : root'[l] = e
                 /\ pc = "cp_write" /\ e.name = get_basename(Full(cmd.dst))
              \/ /\ \A j \in 1 .. (k - 1) : root[j].name # e.name
                 /\ \/ pc = "cp_done" /\ e.name = Unslashed(cmd.src)
                    \/ \E path \in Operand : cmd_rm(path) /\ e.name = Unslashed(path)]_vars

(* No command works through a handle whose file was unlinked, although     *)
(* cp and mv leave every handle open, a source may be its own destination  *)
(* and mv unlinks it: what RamFS has to except of such handles does not    *)
(* come about in the shell.                                                *)
NoStaleHandle == /\ touched = {}
                 /\ \A fd \in {src_fd, dst_fd} : fd # NoFd => Ram!get_file(fd) \notin stale

(* Where cd leads is what its components mean, one after the other, and    *)
(* cwd is always spelled as a directory is: what the other commands put in *)
(* front of a relative name.                                               *)
CdResolves ==
  [][\A path \in CdOperand : cmd_cd(path) =>
       cwd' \in {cwd, IF path = << >> THEN Slash
                      ELSE Spelled(Directory(Components(cwd), path))}]_vars

(* What a command has created below /tmp, under whatever name it was given *)
(* and from wherever, is listed in the directory of its full path.         *)
CreatedIsListed ==
  [][(\E s \in Ram!Slot : files'[s].used /\ ~files[s].used) =>
       \A path \in Operand :
         /\ \/ pc = "cp_create" /\ path = cmd.dst
            \/ cmd_touch(path) \/ cmd_mkdir(path)
         /\ IsPrefix(TmpDir, Full(path))
         => get_basename(path) \in
              ramfs_read_dir(files', get_parent_dir(Full(path)))]_vars

(* Every command, and every test, comes to its end. *)
CommandsEnd == pc \notin Quiet ~> pc \in Quiet
================================================================================
