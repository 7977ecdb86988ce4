# A TLA+ verification of OS-ARM

OS-ARM is a small kernel for one AArch64 CPU under QEMU: a boot stub, a vector
table with a system-call handler, a cooperative scheduler with Plan 9 flavoured
processes, messages and per-process namespaces, a VFS with two file systems
(RAMFS below `/tmp`, AbyssFS for everything else), a shell, and a user program
in EL0. This directory holds TLA+ modules translated from that source, TLC
configurations that check them on small instances, and TLAPS proofs.

`PROJECT.json` lists components, runs, mutants, hazards, findings and theorems,
and for every definition the source lines it models.

## Inventory

| Component | State | Operations | Talks to |
|---|---|---|---|
| Process table, scheduler (`process.c`) | `processes[]`, `process_list`, `current_process`, `next_pid`, `process_count`, state, parent and exit status of each process | `init_process`, `process_create`, `create_process`, `schedule`, `exit_process`, `process_exit`, `find_process` | context switch; called by messages, tests |
| Messages (`message.c`) | a ring of 32 messages and `msg_blocked` per process | `queue_message`, `receive_message`, `send_message` (fork, wait, exec, file requests) | scheduler, VFS |
| Context switch (`context_switch.S`) | `context_t` of each process, SP | `context_switch` | scheduler |
| Traps (`exceptions.S`, `exceptions.c`) | registers, SP, frame below `stack_top`, ELR, SPSR | vector table, `sync_el0_64`, `handle_sync_exception` | user program, UART |
| Boot, timer, GIC (`boot.S`, `timer.c`, `gic.c`, `enter_usermode.S`) | interrupt mask, enables | `_start`, `timer_init`, `gic_init`, `enter_usermode` | traps |
| Descriptors, VFS (`vfs.c`) | `fd_table`, `next_fd`, `mount_points` | `vfs_open/create/read/write/close/unlink/mkdir/read_dir`, path resolution | both file systems, namespaces, heap |
| RAMFS (`ramfs.c`) | `files[16]`: name, content, size, used | open, create, read, write, unlink, mkdir, read_dir | heap |
| AbyssFS (`abyssfs.c`) | inode table, blocks, `block_bitmap`, super block | create, open, read, write, mkdir, unlink, remove_recursive, read_dir | heap, `current_process->cwd` |
| Namespaces (`namespace.c`) | list of bindings per process | `bind`, `unbind` | VFS listings, heap |
| Heap (`kmalloc.c`) | `heap_pos` | `kalloc`, `kfree` (does nothing) | all of the above |
| Shell (`shell.c`) | none but `cwd` of the process and the locals of a command | `ls pwd cd cp touch mv rm mkdir bind unbind echo` | VFS |
| Kernel tests (`kernel.c`, `process_test.c`) | none | call the parts above at boot | all of the above |
| Strings (`string.c`) | none | pure functions on paths and words | all |
| MMU, UART | device registers | initialisation, polled I/O | - |
| User programs | registers | putc and getc system calls | traps |

What is hard in this system:

* **Who has the CPU.** Processes give it away inside kernel calls
  (`schedule()` in wait, receive and exit) and use what they read before.
  Wake-ups are a test of the parent's state at the moment of the exit.
* **Two halves that must agree.** The assembly and C lay out the same structure;
  the trap handler saves and restores in two places; two functions of the VFS
  read one list of bindings; a bitmap and a counter count the same blocks;
  `head`, `tail` and `count` describe one ring.
* **Nothing is ever given back.** Descriptors, heap, zombies; and slots, inodes
  and blocks that are given back are not cleared and may still be referred to.
* **Failure half-way.** create and mkdir take several things one by one, and
  the commands of the shell are sequences of calls, each of which may fail.
* **Three readings of one path.** `vfs_open` goes by the path as given,
  `vfs_create` by the full path, `vfs_unlink` chooses by the full path and hands
  on the one it was given; RAMFS stores yet another.
* **Bytes taken for structure.** AbyssFS walks records in blocks that nobody
  cleared, by lengths kept in one byte.
* **Interrupts** are opened and enabled but have no handler.

There is no concurrency beyond that: one CPU, no pre-emption, nothing that
persists a restart. The `hazards` of `PROJECT.json` give each of these at its line.

## Modules

| Module | Models | Runs |
|---|---|---|
| `MessageRing` | `struct message_queue` and its two updates, as operators on records | (through `Process`) |
| `Mailbox` | abstract: bounded FIFO mailboxes | refined by `Process` |
| `Process` | process table, scheduler, messages; EXTENDS `MessageRing` | `lifecycle`, `messages` |
| `ForkTest` | `test_processes` of `kernel.c` on `Process` | `forktest` |
| `Context` | `context_t` word by word | `context` |
| `Trap` | boot, interrupts, user mode, system calls | `trap`, `result`, `interrupts` |
| `RamFS` | RAMFS behind the descriptor table | `ramfs` |
| `BindingStacks` | abstract: one stack of sources per target | refined by `Namespace` |
| `Namespace`, `MCNamespace` | bindings and both path resolutions; paths for TLC | `namespace` |
| `BindTest` | `process1` of `process_test.c` on `Namespace` | `bindtest` |
| `Directories` | abstract: lists of entries and the inodes in use | refined by `AbyssFS` |
| `AbyssFS`, `MCAbyssFS` | inodes, blocks, directories word by word; names for TLC | `abyssfs` |
| `Paths` | the functions on path strings | (through `Shell`) |
| `Shell`, `MCShell` | the commands over `RamFS`, the root of AbyssFS and their descriptors; operands for TLC | `shell` |
| `MessageRingProofs`, `ProcessProofs`, `StandstillProofs`, `RamFSProofs`, `TrapProofs`, `NamespaceProofs`, `ShellProofs`, `AbyssFSProofs` | lemmas and theorems | |

Definitions keep the names of the source. Definitions introduced by a comment
`Mutant:` are plausible wrong versions of the definition after them; no
specification uses them. They serve to show that each property notices the
mistake it is there for.

### Process

One action is one kernel call of `current_process`. A call that gives the CPU
away is two actions: up to `schedule()`, and the `_resumed` half once the
process has the CPU again; `resume[p]` says which half is next. This is all the
interleaving there is, since no vector leads to `timer_handler` (see `Trap`).

`process_list` is the sequence of pids the C list is; `FirstReady` is the loop
of `schedule()`, `Dispatch` its two assignments in their order. `Enlist` is the
common end of `process_create` (from the heap) and `create_process` (from
`processes[]`).

Modes other than `run` are ends:

* `overrun`: `create_process` has written past `processes[]`, which it does not
  check.
* `hang`: `schedule()` found nobody and spins.
* `lost`: the CPU went to a process that has never run. Its registers are not
  where `context_switch` looks for them (see `Context`), so where it goes on is
  not determined. The model allows both this and that the process starts as
  intended.

`silent` is a history variable: pids that left through `process_exit`. That
function forgets `current_process` first, and then `schedule()` prints
`current->pid` through a null pointer; the value read is only printed, and is
ignored here.

### Trap

Registers are represented by classes: `x0`, a caller-saved one (`x8`), a
callee-saved one (`x19`), and the two the handler uses early (`x21`, `x22`).
These two are overwritten before they are saved, against the comments of
`exceptions.S` (lines 42 and 75) that all of x0-x30 are kept; `ContextKept`
excepts them and x0, and so states what does survive.
One action per stage of `sync_el0_64`, so that a tick could fall between any
two. `Tick` and `Svc` are hardware. `trapped` and `result` are history.
A timer tick that enters EL1's vector spins (`b .`); one that enters from EL0
lands at offset 0x480, in the middle of `sync_el0_64`.

### Context

Only the word offsets, and whether a process that runs for the first time gets
the stack that `create_process` stored.

### RamFS

One action per VFS call on a path below `/tmp` in a process without bindings.
Bytes are abstracted to "written since the slot was taken", which is what
`NoLeftovers` needs. The heap counts in handles, and `kalloc` is any other part of
the kernel taking from it. `stale` and `touched` are history: handles whose file was
unlinked, and the slots written through them. Callers may pass any descriptor,
also the -1 a failed call gave them.

### Namespace

A path is a sequence of names and separators, so that "/tmpx" has the string
prefix "/tmp" as it has for `strncmp`. An open may fail, with -1, once the
descriptors or handles have run out, which the module does not count. `resolve_namespace_path` (used by
`vfs_read_dir` and so by `bind` itself) maps targets to sources,
`resolve_path` (used by `vfs_open`) maps sources to targets. The heap is
counted in units (`Cost`). Paths are assumed to fit `VFS_MAX_PATH`.

### AbyssFS

A block is a sequence of four-byte words: a header (name, inode, `rec_len`) and
the words of the name, as `round_up` counts them; zeros; or other bytes. A walk
goes from header to header by `rec_len`, which is kept modulo `REC` as the code
keeps it in a `uint8_t`: the record of a long name wraps to 0 and ends its
directory. Nothing is cleared when a block changes hands. A new directory
writes its two entries over what was there, unlink moves the rest of the block
down by `memmove`, and a walk that gets among words that are no header either
ends (the byte it takes for `rec_len` is 0) or has no meaning.

Three modes are ends:

* `undefined`: a walk went on through bytes that are no record;
* `overrun`: a directory is so full that an entry would be written past its
  block;
* `rootless`: "." or ".." of the root was unlinked, which frees the root.

`abyssfs_create` links into the working directory, `abyssfs_unlink` looks in the
root directory. Writes through `abyssfs_open` go to inode 0, because it leaves
`private_data` NULL; writes through a handle from create go to its inode,
whatever that has become. The boot files are in `Init`: `create_file` reads
`current_process->cwd` before there is a process, and either outcome is allowed.

A new directory in a block that had been a directory's may show entries of that
one: ".." claims the rest of its block, `(BLOCK - 2) % REC` words as a byte keeps
it, and where that many words on an old header begins, the walk goes on along the
old records. The next create then cuts the last record the walk reaches, not
"..", and links the new entry behind the old ones. `EntriesOf` is what a
listing shows, old entries with the new ones behind them. In the run a new
directory comes to show one old entry; that it gets a new one behind
it takes a sixth inode, and a run of that size is too long to keep (with names of
two lengths only, `sub` and `long`, it has 558,120 distinct states and no error).
`AppendedEntries` proves that case with all others.

Removing "/" lists at most 256 entries (`LISTED`) and unlinks those; the root
holds more of the shortest names. So does the run: four listed, the dots and two
names, of the three there may be.

`Directories` is what a caller can rely on: each directory a list of entries. One
that is made comes last in its directory and names an inode that was free.
Entries are removed only from the root, the first of a name, or the first that a
removal lists, and only that frees inodes. What a failed call took stays taken. A
new directory shows, to begin with, only entries of inodes in use that no
directory shows, each once. A directory loses its list when its own entry goes
or when a handle from before it was made writes to its block, and no other way. The refinement
mapping reads the lists off the blocks by the same walks.
That what was made is not lost at once is `NewEntriesAreListed`: a successful call
appends to what the directory showed, unless no block was left for the new
directory, or the name is so long that `rec_len` comes to 0 in front of it.

### Paths and Shell

A path is a sequence of pieces, slashes and pieces of names, so that "/tmpx"
begins with "/tmp". `Paths` has the functions of `string.c`, `shell.c`, `vfs.c`
and `ramfs.c` that take paths apart, with `Components` for a run of `strtok_r`,
and next to them what they should come to: `Directory`, a stack of names, and
`Spelled`, the one way to write it.

`Shell` is one process at the prompt without bindings. One action is one VFS
call and the part of the command up to the next one; `pc` says which is next, and
`src_fd`, `dst_fd` and `buf` are the locals of `cmd_cp`. It instantiates `RamFS` for
the slots, handles, descriptors and heap, and adds the bytes (`text`), with
the invariant that a slot has as many as its size. Of AbyssFS it has inodes with size
and bytes, and the names in the root. `abyssfs_unlink` skips the slashes in front
of the path it is given (`Unslashed`) and looks for the rest in the root, whatever
directory that path is relative to; `OnlyTheTargetChanges` says so of each entry
that goes. A handle on an inode is told from one on a
slot by a negative `private_data` (`AbyssFile`), as `f_ops` tells them apart in
the code. Before the prompt the kernel tests make files and leave descriptors open.

Assumed: paths fit the arrays they are copied to; no path leads to a directory
of AbyssFS but the root, and no file is taken for one, so that a create in
another working directory finds no inode for it; `mkdir` is below `/tmp` (in AbyssFS it is in
`AbyssFS`). `ls` and `pwd` change nothing; `ramfs_read_dir` is there as an
operator for the property about it.

## Runs

| Run | Bounds | Shows |
|---|---|---|
| `lifecycle` | 2 table slots, 1 heap process, no messages; fair | `ListComplete`, `OneRunning`, `NoLostWakeup`, `WaitSucceeds`, `HangHasCause`, `ZombieIsFinal`, `ReadyRuns`; `ProcessInv` |
| `messages` | 2 processes, rings of 2, 2 messages | `RingsSound`, `BlockedMeansEmpty`, refinement of `Mailbox` |
| `forktest` | 2 processes | violated: only the child exits with 42 |
| `context` | 2 processes | violated: a new process gets its stack |
| `trap` | one character; the registers above | `KernelStackKept`, `ContextKept`, `TrapIsAtomic` |
| `result`, `interrupts` | as `trap` | violated: result in x0; interrupts handled |
| `ramfs` | 2 slots of 2 bytes, heap for 3 handles, 2 descriptors, 2 names, counts 1..3 | `NoLeftovers`, `HandlesInFile`, `DescriptorsAreNotReused`, `FilesKeepTheirSlot`, `FailureIsClean` |
| `namespace` | 3 sources, 4 targets (nested, relative), 14 heap units | `StacksSpec`, `ListsTheSource` |
| `bindtest` | as `namespace` | violated: the bound file is opened |
| `abyssfs` | 5 inodes (three to give out), 2 blocks of 13 words, `rec_len` modulo 6, 3 names of different length, listings of 4 entries, directories one deep | `FreeCount`, `BlocksHaveOneOwner`, `EntriesAreFiles`, `NewEntriesAreListed`, refinement of `Directories`; `AbyssInv` |
| `shell` | 2 slots of 4 bytes, 2 inodes and 1 block for AbyssFS files, 6 handles, 5 descriptors, a buffer of 2 bytes, 4 operands, 5 of `cd`, texts of 3 and 2 bytes, 3 commands | `CopyIsWhole`, `MvKeepsTheText`, `OnlyTheTargetChanges`, `NoStaleHandle`, `CdResolves`, `CreatedIsListed`, `CommandsEnd`; `ShellInv` |

Why the bounds are enough. *lifecycle*: process 1, a forked child and a process
without parent give every pairing of waits and exits, `exit_process` against
`process_exit`; a child of the child is the second fork of another run of events,
and the fork after it overruns. *messages*: a ring of two fills, wraps and
empties, with two messages to tell orders apart. The theorems carry both, and
`ramfs`, to every size. *ramfs*: slots, handles and descriptors each run out
while the others have not; a slot changes owner with handles open; a write
crosses the end of the slot. *namespace*: room for four bindings, enough for two
on one target with another between them, or for fewer and resolutions that
exhaust the heap in the middle of a `bind`. *abyssfs*: inodes, blocks and the words
of a directory can each run out; both blocks pass from files to directories and
back with handles from before; the three names make a walk land on a header, amid
an old entry, and at a `rec_len` of 0; a root with all three names is longer than a
listing. *shell*: a text of three bytes takes two
rounds of the buffer and one of two takes one; the tests' two files fill RAMFS and
leave descriptors open, so that a command may meet slots, block, heap or
descriptors at their end; the operands give a path in the same directory, one
that means RAMFS or AbyssFS with the working directory, and one that only begins
like `/tmp`; three commands are enough to `cd`, create and then move or remove what
was created. *trap*: the state is finite but for the values; two
system calls and two flag words tell registers apart.

Deadlock is left unchecked where the program can stop: `Process` in its three
ending modes, `Trap` in `wfe` and branch-to-self, `AbyssFS` in its three ending
modes, the two tests, which end, `Context`, and `Shell`, whose number of commands is
bounded.

### What the violated runs show

* `forktest`: `MSG_FORK` returns 0 to its caller; the test's "child" branch is
  `ret == 0`, which process 1 takes.
* `result`: the handler restores `x0` and then moves ELR and SPSR through it.
* `interrupts`: the comment in `enter_usermode.S` says that the kernel can
  handle interrupts; no vector does.
* `context`: `create_process` stores the stack at `ctx.sp`, byte 8 of the
  structure; `context_switch.S` restores SP from byte 96.
* `bindtest`: opening and listing resolve a binding in opposite directions.

### Fairness

`ReadyRuns` needs some. `WF` of the two resumed halves: the CPU does not
stop between two instructions of a kernel call. `SF` of `Exit(p)`: the programs
of `process_test.c` run straight to `process_exit`, so a process that gets the
CPU again and again ends; it is strong because a program makes progress only
while it has the CPU. Nothing is assumed of `schedule()` or of any order among
processes. `ReadyRuns` then says that preferring the newest process starves
nobody for ever, as pids run out or the newer ones end. A scheduler on which
programs run for ever has no such property: the newest READY one always wins.

`CommandsEnd` assumes that a command once begun goes on (`WF` of `Continue`): the
shell runs straight from one VFS call to the next and none of them waits. That
the loop of `cp` ends is then a matter of its condition: a position that no
read or write moves on would keep it going for ever.

## Proofs

`MessageRingProofs` proves what `Put` and `Drop` do to `RingInv` and to
`Content`, for every capacity: put appends, drop takes the head.

`ProcessProofs` proves, for all `MAX_PROCESSES`, `MAX_KALLOC`, `MAX_MESSAGES`,
`Msg` and `Status` satisfying the modules' assumptions:

* `ProcessInvariant`: `Spec => []ProcessInv`, and with it `TypeCorrect`,
  `ListIsComplete`, `ExactlyOneRuns`, `WakeupsAreNotLost`, `WaitsSucceed`.
* `ZombiesAreFinal`: the action property `ZombieIsFinal`.
* `RingsStaySound`, `MarksMeanEmpty`, `QueuesAreMailboxes`: the rings are sound
  and implement `Mailbox` under the refinement mapping of `Process`.

The argument. `OneRunning` needs `ListComplete`, or `schedule()` might pick a
pid that is not a process, and the type invariant needs `PidsCounted`: pids,
table slots and heap structures grow together, so `next_pid` stays in its range
until the overrun. `NoLostWakeup` is preserved by MSG_WAIT because it scans
first, and by `exit_process` because it wakes a blocked parent; it needs
`ListComplete` (the scan and `find_process` see every process) and `OneRunning`
(the exiting process is not itself the blocked one). `WaitSucceeds` is not
inductive: what makes it so is `WokenByChild` (a process inside MSG_WAIT that
is not BLOCKED has a zombie child already) together with `BlockedInWait`
(blocked processes are inside MSG_WAIT, so nothing else is woken), and zombies
staying zombies. `ProcessInv` is the conjunction; the run `lifecycle` checks
it as it stands. The proof has a step per action and, below it, one per conjunct
the action disturbs; calls that move no process go through `FrameInv`,
and those that reach `schedule()` through `ScheduleEffect` and `ScheduleInv`.

`StandstillProofs` proves `HangsHaveACause` for any number of processes. Two more
facts are invariant: parents have smaller pids than their children
(`ParentsAreOlder`), and when `schedule()` gives up no listed process is READY and a
RUNNING one has marked itself as waiting for a message (`NobodyReady`). If
then some process is no zombie and none is RUNNING, some are BLOCKED. The youngest
of these (`Youngest`, by well-foundedness of < on the naturals) has only zombies
for children, and by `NoLostWakeup` these left through `process_exit`.

`RamFSProofs` proves for all `MAX_FILES`, `MAX_CONTENT`, `MAX_FD`, `MAX_KALLOC` and
`Path` satisfying `RamFSAssumption`:

* `RamFSInvariant`: `Spec => []RamFSInv`, the conjunction of `TypeOK`,
  `OwnHandles` and the two invariants of the run, and with it
  `TypeCorrect`, `HandlesStayInFile`, `NothingIsLeftOver`;
* `DescriptorsMeanOneHandle`, `SlotsAreKept`, `FailuresAreUndone`: the action
  properties of the run `ramfs`.

The argument. The three invariants hold one another up: the type of a size
is the bound that keeps copies within `content[]`; `NoLeftovers` survives a write
only because the write begins within the file, which is `HandlesInFile`; and
`HandlesInFile` survives a create because the slot it takes is free, so that no
handle but a stale one is on it. `OwnHandles` (descriptors not handed out yet
are empty, and no two lead to one handle) carries `DescriptorsAreNotReused`. What
create, mkdir and `ramfs_create_file` do to a free slot is one operator
(`Takes`), what `alloc_fd` does is another (`OpenedOn`), each with its lemmas, so
that the steps of `NextInv` are short.

`TrapProofs` proves, whatever `getc` reads, `TypeCorrect`, `StackPointerComesBack`,
`SystemCallsKeepContext` and `TrapsAreAtomic`: all properties of the run `trap`.
`TrapInv` follows the user's context through the handler. `KernelStackKept`
speaks only of the ends of a trap; in between, the stack pointer is in `x21` and
then in the frame (`StackPointerSomewhere`), the program counter and flags in
ELR and SPSR or in the frame (`StateSomewhere`), the registers in place or in
the frame (`RegistersSomewhere`). All of this needs that interrupts are masked from
SVC to ERET (`HandlerMasked`), for a tick in between would be taken.

`NamespaceProofs` proves, for any sets of paths and any heap satisfying
`NamespaceAssumption`, `TypeCorrect` (resolved paths are paths, the heap keeps its
bound and has paid for every binding) and `BindingsUncoverTheSource`, the action
property `ListsTheSource`: the new binding is the first, the first that hits wins
(`FirstIsNewest`), and what `resolve_namespace_path` puts behind the old path is
what the new one had behind it (`BelowPath`).

`ShellProofs` proves, for any operands, texts, limits and size of the buffer of `cp`
satisfying `ShellAssumption`:

* `Invariance`: `Spec => []ShellInv`, and with it `TypeCorrect` and `CopiesAreWhole`;
* `OnlyTheTarget`, `MovedTextsStay`: the action properties `OnlyTheTargetChanges`
  and `MvKeepsTheText`;
* `NothingStaleIsUsed`: `Spec => []NoStaleHandle`.

The argument. `ShellInv` follows a command from call to call: the descriptors it
holds are open (`DescriptorsOpen`), its source is the first file of its name or
inode 0 (`SourceOpen`), its target is another file made under the name asked for
(`TargetOpen`), and the two move together, with what is between them in the
buffer (`CopyInStep`); when a read returns nothing the source is at its end, so the
copy is whole. `NamesAreBelowTmp` and `EntriesAreFiles` say what the file systems
keep between commands: a text is only in a file below `/tmp/`, and an entry of the
root names an inode of its own, which is not the inode 0 of opened files, so a
write through one handle does not reach another file. Names are folds of `Paths`;
that they are paths follows from the existence of the fold's fixpoint
(`FoldExists`) and what one step keeps (`FoldTyped`), both by a least length at which
they would fail. `NoStaleHandle` needs of the invariant that between commands
no descriptor is held, and that a handle is numbered when it is made: a new one is
none of those that outlived their file (`StaleInv`).

`AbyssFSProofs` proves, for any names and any numbers of inodes, blocks and words
satisfying `AbyssAssumption` and `WordAssumption`:

* `Invariance`: `Spec => []AbyssInv`, and with it `TypeCorrect`, `CountFollows`
  (`FreeCount`), `OneOwner` (`BlocksHaveOneOwner`) and `LinksHold`
  (`EntriesAreFiles`);
* `NewEntriesListed`: the action property `NewEntriesAreListed`;
* `DirectoriesImplemented`: `Spec => ListsSpec`, AbyssFS implements `Directories`.

The argument. Unlink frees the inode an entry of the root names, and with it a
block; so the bitmap and its count are right only if that inode is in use and no
other entry or file has its block. `RecordsNameOne` says so of every record: in
the root of those a walk passes, elsewhere of all that are left in a
block, for a new directory may come to show them. It holds because a free inode
has no record (files are unlinked by taking the record out of the root, and the
inodes that a subdirectory's records name are never freed) and because file
bytes may destroy records but never make one. What a walk over the root passes is
known only because the root's block is a list (`IsList`: entries chained by
`rec_len` up to a word where walks end, the two dots first, none other with the
name of a dot), and `Appended`, `Without` and `Emptied` keep it one
(`AppendedList`, `WithoutList`, `EmptiedList`). The block is the root's alone
(`RootLives`): inode 0 and its handle never have it. `Along`, `Walk` and `Emptied`
are recursive functions; that they have values and which is proved by
the largest or least word at which they would not, in place of induction.

The refinement is proved from `AbyssInv`, one step of `AbyssFS` at a time. What an
append does to the list of a directory is one lemma for every block that a walk gets
through (`AppendedEntries`), the root's or one with old records: the chain
of headers is the same up to the last, which is cut, and the new one follows
(`SamePrefix`, `SameOrder`). `EntriesWithout` and `EmptiedEntries` say what the
`memmove` of unlink leaves, `ShownEntries` what a new directory shows:
entries of inodes in use that no other list names, by `RecordsNameOne`. Each
call is then a step of `Directories` (`ListsMade`, `ListsUnlinked`,
`ListsEmptied`, `ListsWritten`), or a stutter. For `NewEntriesListed` the only
further thing is which directory the call links in (`WalkStays`): the inode that
is taken for the new file changes nothing on the way to it.

The assumptions are those of the code's sizes: an entry takes two words at least
and at most the 64 whose length a byte does not hold (a name of 249 bytes), a block
of 1024 words is longer than that and the dots, and the `rec_len` of ".." as the
byte keeps it ((1024 - 2) mod 64 = 62 words) is longer than that entry. Names of
250 bytes and more, whose `rec_len` wraps to one word, are left out.

Model-checked only: `ReadyRuns` and `CommandsEnd` (liveness under fairness is
outside what the prover handles); `StacksSpec` (its mapping is a
`SelectSeq`, and on what that computes the prover has no induction); `CdResolves` and `CreatedIsListed`, which say what folds over
sequences compute.

## Not modelled

* `load_program`, `exec_process`, `wait_for_child`, `switch_to_process`,
  `init_processes`, `handle_fork_message`, `handle_wait_message`: no caller.
* `timer_handler`: no vector leads to it.
* MMU set-up, UART registers, build files, wording of output.
* The calls of file systems come from the shell and the kernel tests, which
  `kernel_main` has commented out at this commit in favour of the user program;
  the models allow them in any order.
* `handle_read_dir_message` returns a pointer to its own dead stack frame, and
  every level of `abyssfs_remove_recursive` takes an array of 256 entries from the
  stack: the stack as memory is not modelled.
* `vfs_remove_recursive` from the shell (the call itself is in `AbyssFS`),
  bindings under the shell's commands (`Namespace` has them), the splitting of
  the input line, paths longer than their arrays.
* One heap for all modules: each module bounds its own.

## Plan

Done: processes, messages and their refinement to mailboxes; traps; context
switch; RAMFS; namespaces; AbyssFS and its refinement to directories; the shell
over both file systems; proofs about processes, messages, traps, namespaces,
RAMFS, AbyssFS and the shell.

Next, proving more:

1. `Shell`: that its steps are steps of `RamFS` where the handle is on a slot,
   so that the theorems about `RamFS` carry over.
2. `StacksSpec`: the stack of one target as a function of the bindings.
