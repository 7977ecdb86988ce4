-------------------------------- MODULE AbyssFS --------------------------------
(***************************************************************************)
(* AbyssFS (abyssfs.c): inodes, the block bitmap with its count of free    *)
(* blocks, and directories laid out as records in data blocks.  One action *)
(* is one call of the file system by the VFS.  Sizes, file positions and   *)
(* results are left out; of a file's bytes only matters that they are not  *)
(* directory entries.                                                      *)
(*                                                                         *)
(* A block is a sequence of four-byte words.  An entry is a header word    *)
(* and the words that round_up gives its name; rec_len, one byte in the    *)
(* code, leads from an entry to the next and is kept modulo REC.  A walk   *)
(* over entries ends where rec_len is 0.  Nothing clears a block when it   *)
(* changes hands, so a walk may come to words that are no header: it ends  *)
(* there (the byte taken for rec_len is 0) or the model stops, in mode     *)
(* "undefined".  It stops as well, in mode "overrun", when a directory is  *)
(* so full that its walks leave the block, and in mode "rootless" when "." *)
(* or ".." of the root is unlinked, which frees the root's own block.      *)
(***************************************************************************)
EXTENDS Integers, Sequences, FiniteSets

CONSTANTS NINODES,        \* inodes (512)
          NDATA,          \* data blocks, the root directory's included (55)
          BLOCK,          \* words of a block (1024)
          REC,            \* words rec_len cannot count to (64)
          Name,           \* names of files and directories
          Words,          \* the words an entry of each name takes
          Dot, DotDot,    \* "." and ".."
          TestFile,       \* the file that test_abyssfs makes at boot
          LISTED,         \* entries a removal lists of a directory (256)
          MAX_HANDLES,    \* bound on the handles that are written to
          Cwd,            \* the working directories, as sequences of names
          Zero, Other     \* a word of zeros, a word of other bytes

ASSUME AbyssAssumption ==
  /\ NINODES \in Nat /\ NINODES > 2
  /\ NDATA \in Nat \ {0}
  /\ BLOCK \in Nat /\ REC \in Nat /\ BLOCK > REC + 6 /\ REC > 3
  /\ (BLOCK - 2) % REC > 3
  /\ Words \in [Name -> 2 .. REC]
  /\ LISTED \in Nat /\ LISTED > 2
  /\ TestFile \in Name /\ Dot \notin Name /\ DotDot \notin Name /\ Dot # DotDot
  /\ << >> \in Cwd /\ \A path \in Cwd : path \in Seq(Name)

VARIABLES inode,          \* the inode table: mode and the one block
          block_bitmap,   \* data blocks marked as taken
          free_blocks,    \* the count the super block keeps
          block,          \* what the data blocks hold
          handles,        \* inodes some vfs_file handle writes to
          cwd,            \* of the calling process
          mode

vars == <<inode, block_bitmap, free_blocks, block, handles, cwd, mode>>

NoBlock   == 0
RootBlock == 1
DataBlock == 1 .. NDATA
Inode     == 0 .. (NINODES - 1)
NoInode   == -1
Root      == 1
Pos       == 0 .. (BLOCK - 1)

(* The words of an entry, and what round_up leaves of that in a byte. *)
Size(n) == CASE n = Dot -> 2 [] n = DotDot -> 3 [] OTHER -> Words[n]

round_up(n) == Size(n) % REC

(* The length of a header is that of its name, and for ".." at first what  *)
(* a byte keeps of the rest of the block.                                  *)
Header == {h \in [name : Name \cup {Dot, DotDot}, inode : Inode, rec : 0 .. (REC - 1)] :
             \/ h.rec = round_up(h.name)
             \/ h.name = DotDot /\ h.rec = (BLOCK - 2) % REC}
Node   == [mode : {"free", "file", "dir"}, blocks : {NoBlock} \cup DataBlock]
Block  == [Pos -> Header \cup {Zero, Other}]

ASSUME WordAssumption == Zero # Other /\ Zero \notin Header /\ Other \notin Header

FirstOf(x, S) == x \in S /\ \A y \in S : x <= y

--------------------------------------------------------------------------------
(* Entries in a block. *)

IsHeader(w) == w # Zero /\ w # Other

(* An entry with the given rec_len, written at p. *)
Written(b, p, n, i, rec) ==
  [q \in Pos |-> IF q = p THEN [name |-> n, inode |-> i, rec |-> rec]
                 ELSE IF q \in p .. (p + Size(n) - 1) THEN Other
                 ELSE b[q]]

(* The entries that a walk along rec_len from word start passes. *)
Along(b, start) ==
  LET from[p \in 0 .. (BLOCK + REC)] ==
        IF p \notin Pos THEN << >>
        ELSE IF ~IsHeader(b[p]) THEN << >>
        ELSE IF b[p].rec = 0 THEN << >>
        ELSE <<p>> \o from[p + b[p].rec]
  IN  from[start]

Chain(b) == Along(b, 0)

LastOf(s) == s[Len(s)]

(* The walk ends among other bytes. *)
Astray(b) ==
  LET c   == Chain(b)
      end == IF c = << >> THEN 0 ELSE LastOf(c) + b[LastOf(c)].rec
  IN  IF end \in Pos THEN b[end] = Other ELSE TRUE

Found(b, n) == LET c == Chain(b)
               IN  {c[k] : k \in {j \in DOMAIN c : b[c[j]].name = n}}

(* Mutant: the last entry keeps its length. *)
AppendedUncut(b, n, i) ==
  LET c    == Chain(b)
      at   == LastOf(c) + round_up(b[LastOf(c)].name)
  IN  IF c = << >> THEN Written(b, 0, n, i, round_up(n))
      ELSE Written([q \in Pos |-> IF q >= at THEN Zero ELSE b[q]], at, n, i, round_up(n))

(* The writes of create_file: the last entry is cut to its own length, the *)
(* rest of the block is cleared and the new entry put there.               *)
Appended(b, n, i) ==
  LET c    == Chain(b)
      last == LastOf(c)
      cut  == round_up(b[last].name)
      at   == last + cut
  IN  IF c = << >> THEN Written(b, 0, n, i, round_up(n))
      ELSE Written([q \in Pos |-> IF q = last THEN [b[q] EXCEPT !.rec = cut]
                                  ELSE IF q >= at THEN Zero ELSE b[q]],
                   at, n, i, round_up(n))

(* Nothing looks whether the new entry fits, and whether a rec_len of 0    *)
(* can follow it in the block.                                             *)
Overflows(b, n) ==
  LET c  == Chain(b)
      at == IF c = << >> THEN 0 ELSE LastOf(c) + round_up(b[LastOf(c)].name)
  IN  at + Size(n) + 2 > BLOCK

(* Mutant: only the next entry is moved. *)
MovedOne(b, p) ==
  LET d == b[p].rec
  IN  [q \in Pos |-> IF q \in p .. (p + b[p + d].rec - 1) THEN b[q + d] ELSE b[q]]

(* The rest of the block moved over the entry at p; the end of the block   *)
(* stays as it is.                                                         *)
Moved(b, p) ==
  LET d == b[p].rec
  IN  [q \in Pos |-> IF q < p THEN b[q]
                     ELSE IF q + d \in Pos THEN b[q + d] ELSE b[q]]

Cleared(b, p) == [q \in Pos |-> IF q \in p .. (p + b[p].rec - 1) THEN Zero ELSE b[q]]

(* Mutant: the last entry of the list is not cleared. *)
LeaveLast(b, p) ==
  LET next == p + b[p].rec
  IN  IF next \in Pos /\ IsHeader(b[next]) THEN Moved(b, p) ELSE b

(* The writes of abyssfs_unlink for the entry at p. *)
Without(b, p) ==
  LET next == p + b[p].rec
  IN  IF next \notin Pos THEN Cleared(b, p)
      ELSE IF ~IsHeader(b[next]) THEN Cleared(b, p)
      ELSE IF b[next].rec = 0 THEN Cleared(b, p)
      ELSE Moved(b, p)

--------------------------------------------------------------------------------
(* Inodes, blocks, paths. *)

FreeInodes == {i \in Inode \ {0} : inode[i].mode = "free"}

Dirs == {i \in Inode : inode[i].mode = "dir"}

FreeBlocks == DataBlock \ block_bitmap

(* Mutant: the inode keeps the block of its last file. *)
AllocKeepsBlock(i) == [inode EXCEPT ![i].mode = "file"]

(* alloc_inode: cleared and marked as a file. *)
Allocated(i) == [inode EXCEPT ![i] = [mode |-> "file", blocks |-> NoBlock]]

(* Mutant: the count is not kept. *)
AllocUncounted(b) == /\ FirstOf(b, FreeBlocks)
                     /\ block_bitmap' = block_bitmap \cup {b}
                     /\ UNCHANGED free_blocks

alloc_block(b) == /\ FirstOf(b, FreeBlocks)
                  /\ block_bitmap' = block_bitmap \cup {b}
                  /\ free_blocks' = free_blocks - 1

(* free_block of the block of inode i, if it has one. *)
free_block(i) == /\ block_bitmap' = block_bitmap \ {inode[i].blocks}
                 /\ free_blocks' = IF inode[i].blocks = NoBlock
                                   THEN free_blocks ELSE free_blocks + 1

(* Where a walk along path stands after k components, in the tables given. *)
Walk(nodes, blks, path) ==
  LET at[k \in 0 .. Len(path)] ==
        IF k = 0 THEN Root
        ELSE LET i == at[k - 1]
             IN  IF i = NoInode THEN NoInode
                 ELSE IF nodes[i].blocks = NoBlock THEN NoInode
                 ELSE LET b    == blks[nodes[i].blocks]
                          hits == Found(b, path[k])
                      IN  IF hits = {} THEN NoInode
                          ELSE b[CHOOSE p \in hits : FirstOf(p, hits)].inode
  IN  at

get_inode_by_path(nodes, blks, path) == Walk(nodes, blks, path)[Len(path)]

(* A walk looks for a name in vain and goes on into other bytes. *)
GoesAstray(nodes, blks, path) ==
  \E k \in DOMAIN path :
    LET i == Walk(nodes, blks, path)[k - 1]
    IN  /\ i # NoInode /\ nodes[i].blocks # NoBlock
        /\ LET b == blks[nodes[i].blocks]
           IN  Found(b, path[k]) = {} /\ Astray(b)

(* The directory create_file links into: always the working directory.     *)
DirBlock(nodes, blks) ==
  LET d == get_inode_by_path(nodes, blks, cwd)
  IN  IF d = NoInode THEN NoBlock ELSE nodes[d].blocks

(* create_file on the tables given: a new last entry; or nothing, when the *)
(* working directory is not there.                                         *)
create_file(nodes, blks, n, i) ==
  LET b == DirBlock(nodes, blks)
  IN  \/ /\ b # NoBlock
         /\ \/ /\ ~Overflows(blks[b], n)
               /\ block' = [blks EXCEPT ![b] = Appended(@, n, i)]
               /\ UNCHANGED mode
            \/ Overflows(blks[b], n) /\ block' = blks /\ mode' = "overrun"
      \/ /\ b = NoBlock
         /\ block' = blks
         /\ UNCHANGED mode
      \/ /\ \/ GoesAstray(nodes, blks, cwd)
            \/ b # NoBlock /\ Astray(blks[b])
         /\ block' = blks
         /\ mode' = "undefined"

(* The first two entries of a directory.  ".." is to reach to the end of   *)
(* the block, but what a byte keeps of that leads to a word amid it.       *)
Dots(b, self) == Written(Written(b, 0, Dot, self, round_up(Dot)),
                         2, DotDot, Root, (BLOCK - 2) % REC)

ZeroBlock == [q \in Pos |-> Zero]

(* test_abyssfs, at boot: inode 2 for hello.txt.  current_process is still *)
(* NULL, so what create_file takes for the working directory is not        *)
(* defined: the file is linked into the root or its inode is lost.         *)
test_abyssfs(b) == {b, Appended(b, TestFile, 2)}

(* abyssfs_init and test_abyssfs have run. *)
Init ==
  /\ inode = [i \in Inode |->
       CASE i = Root -> [mode |-> "dir", blocks |-> RootBlock]
         [] i = 2    -> [mode |-> "file", blocks |-> NoBlock]
         [] OTHER    -> [mode |-> "free", blocks |-> NoBlock]]
  /\ block_bitmap = {RootBlock}
  /\ free_blocks = NDATA
  /\ \E root \in test_abyssfs(Dots(ZeroBlock, Root)) :
       block = [b \in DataBlock |-> IF b = RootBlock THEN root ELSE ZeroBlock]
  /\ handles = {}
  /\ cwd = << >>
  /\ mode = "run"

--------------------------------------------------------------------------------
(* The calls. *)

(* cd: abyssfs_open opens any path, so any path becomes the working        *)
(* directory, until no descriptor is left.                                 *)
cmd_cd(path) == /\ mode = "run"
                /\ cwd' = path
                /\ UNCHANGED <<inode, block_bitmap, free_blocks, block, handles, mode>>

(* abyssfs_create: the path gives the name, cwd the directory.  An inode   *)
(* that could not be linked stays allocated.  The VFS may have no heap or  *)
(* no descriptor left for a handle.                                        *)
abyssfs_create(n) ==
  /\ mode = "run"
  /\ UNCHANGED <<block_bitmap, free_blocks, cwd>>
  /\ \/ FreeInodes = {} /\ UNCHANGED <<inode, block, handles, mode>>
     \/ \E i \in Inode :
          /\ FirstOf(i, FreeInodes)
          /\ inode' = Allocated(i)
          /\ create_file(Allocated(i), block, n, i)
          /\ \/ UNCHANGED handles
             \/ /\ DirBlock(Allocated(i), block) # NoBlock
                /\ Cardinality(handles) < MAX_HANDLES
                /\ handles' = handles \cup {i}

(* abyssfs_open: every path is opened, and always as inode 0. *)
abyssfs_open == /\ mode = "run"
                /\ Cardinality(handles) < MAX_HANDLES
                /\ handles' = handles \cup {0}
                /\ UNCHANGED <<inode, block_bitmap, free_blocks, block, cwd, mode>>

(* File bytes in the first words of a block: over its first entry at least.*)
WithBytes(b, words) == [q \in Pos |-> IF q < words THEN Other ELSE b[q]]

(* write_to_blocks: the block is taken at the first write, and every write *)
(* starts at its beginning and leaves what is behind it.                   *)
write_to_blocks(i) ==
  \E words \in {2, BLOCK} :
    \/ /\ inode[i].blocks # NoBlock
       /\ block' = [block EXCEPT ![inode[i].blocks] = WithBytes(@, words)]
       /\ UNCHANGED <<inode, block_bitmap, free_blocks>>
    \/ /\ inode[i].blocks = NoBlock
       /\ \E b \in DataBlock :
            /\ alloc_block(b)
            /\ inode' = [inode EXCEPT ![i].blocks = b]
            /\ block' = [block EXCEPT ![b] = WithBytes(@, words)]
    \/ /\ inode[i].blocks = NoBlock /\ FreeBlocks = {}
       /\ UNCHANGED <<inode, block_bitmap, free_blocks, block>>

(* abyssfs_write through a handle on inode i, which need not be the file's *)
(* any more: its inode, or its block, may be a directory's by now.         *)
abyssfs_write(i) ==
  /\ mode = "run"
  /\ i \in handles
  /\ write_to_blocks(i)
  /\ mode' = IF \E j \in Inode : /\ inode[j].mode = "dir"
                                /\ inode[i].blocks = inode[j].blocks
             THEN "undefined" ELSE mode
  /\ UNCHANGED <<handles, cwd>>

(* Mutant: ".." leads to the working directory, found or not. *)
ParentUnchecked(i, b) ==
  [block EXCEPT ![b] = Written(Dots(@, i), 2, DotDot,
                               get_inode_by_path(inode, block, cwd), (BLOCK - 2) % REC)]

(* The first two entries of directory i, over what block b held. *)
WithDots(i, b) == [block EXCEPT ![b] = Dots(@, i)]

(* abyssfs_mkdir: what was taken before a step failed stays taken. *)
abyssfs_mkdir(n) ==
  /\ mode = "run"
  /\ UNCHANGED <<handles, cwd>>
  /\ \/ /\ FreeInodes = {}
        /\ UNCHANGED <<inode, block_bitmap, free_blocks, block, mode>>
     \/ \E i \in Inode :
          /\ FirstOf(i, FreeInodes)
          /\ \/ /\ FreeBlocks = {}
                /\ inode' = Allocated(i)
                /\ UNCHANGED <<block_bitmap, free_blocks, block, mode>>
             \/ \E b \in DataBlock :
                  LET nodes == [inode EXCEPT ![i] = [mode |-> "dir", blocks |-> b]]
                  IN  /\ alloc_block(b)
                      /\ inode' = nodes
                      /\ create_file(nodes, WithDots(i, b), n, i)

Freed(i) == [inode EXCEPT ![i].mode = "free"]

(* abyssfs_unlink looks in the root directory only, whatever cwd is; the   *)
(* path it compares is a bare name.  The walks of the root end at zeros.   *)
abyssfs_unlink(n) ==
  /\ mode = "run"
  /\ UNCHANGED <<handles, cwd>>
  /\ \/ /\ Found(block[RootBlock], n) = {}
        /\ UNCHANGED <<inode, block_bitmap, free_blocks, block, mode>>
     \/ \E p \in Pos :
          LET i == block[RootBlock][p].inode
          IN  /\ FirstOf(p, Found(block[RootBlock], n))
              /\ inode' = Freed(i)
              /\ block' = [block EXCEPT ![RootBlock] = Without(@, p)]
              /\ free_block(i)
              /\ mode' = IF i = Root THEN "rootless" ELSE mode

(* The entries of a block that a removal lists: the first LISTED.  Behind  *)
(* so many the walk does not look at what follows.                         *)
Shown(b) == LET c == Chain(b)
            IN  {c[k] : k \in {j \in DOMAIN c : j <= LISTED}}

ListsAstray(b) == Astray(b) /\ Len(Chain(b)) < LISTED

(* The directories among what a listing of inode i shows, but for the dots. *)
Subdirs(i) ==
  IF inode[i].blocks = NoBlock THEN {}
  ELSE LET b == block[inode[i].blocks]
       IN  {b[p].inode : p \in {q \in Shown(b) : b[q].name \in Name}} \cap Dirs

(* abyssfs_remove_recursive lists what it is given, directory or not, and  *)
(* the directories below.                                                  *)
Reads(S) == LET to[k \in 0 .. NDATA] ==
                  IF k = 0 THEN S
                  ELSE LET T == to[k - 1] IN T \cup UNION {Subdirs(i) : i \in T}
            IN  to[NDATA]

ReadsAstray(S) == \E i \in Reads(S) : /\ inode[i].blocks # NoBlock
                                     /\ ListsAstray(block[inode[i].blocks])

(* abyssfs_remove_recursive of a name in the root: the children are named  *)
(* "n/m", which unlink never finds, so that reading them is all that comes *)
(* before the unlink of n.                                                 *)
abyssfs_remove_recursive(n) ==
  \/ abyssfs_unlink(n)
  \/ /\ mode = "run"
     /\ Found(block[RootBlock], n) # {}
     /\ ReadsAstray({get_inode_by_path(inode, block, <<n>>)})
     /\ mode' = "undefined"
     /\ UNCHANGED <<inode, block_bitmap, free_blocks, block, handles, cwd>>

(* The root's block after the entries listed, but for the dots, are        *)
(* unlinked, first to last.  Those behind the LISTED first stay.           *)
Emptied(b) ==
  LET after[k \in 0 .. Len(Chain(b))] ==
        IF k <= 2 THEN b
        ELSE IF k > LISTED THEN after[k - 1]
        ELSE Without(after[k - 1], Chain(after[k - 1])[3])
  IN  after[Len(Chain(b))]

(* abyssfs_remove_recursive of "/": the children are named "//n", which    *)
(* unlink takes for n, so every entry listed of the root but the dots goes. *)
remove_recursive_root ==
  LET old  == block[RootBlock]
      hits == {p \in Shown(old) : old[p].name \in Name}
      gone == {old[p].inode : p \in hits}
  IN  /\ mode = "run"
      /\ inode' = [i \in Inode |-> IF i \in gone THEN [inode[i] EXCEPT !.mode = "free"]
                                                 ELSE inode[i]]
      /\ block' = [block EXCEPT ![RootBlock] = Emptied(@)]
      /\ block_bitmap' = block_bitmap \ {inode[i].blocks : i \in gone}
      /\ free_blocks' = free_blocks
           + Cardinality({p \in hits : inode[old[p].inode].blocks # NoBlock})
      /\ \/ UNCHANGED mode
         \/ ReadsAstray(gone \cap Dirs) /\ mode' = "undefined"
      /\ UNCHANGED <<handles, cwd>>

Next == \/ \E path \in Cwd : cmd_cd(path)
        \/ \E n \in Name : abyssfs_create(n) \/ abyssfs_mkdir(n)
        \/ \E n \in Name \cup {Dot, DotDot} : \/ abyssfs_unlink(n)
                                             \/ abyssfs_remove_recursive(n)
        \/ \E i \in Inode : abyssfs_write(i)
        \/ abyssfs_open
        \/ remove_recursive_root

Spec == Init /\ [][Next]_vars

--------------------------------------------------------------------------------
(* Every variable has its type. *)
TypeOK == /\ inode \in [Inode -> Node]
          /\ block_bitmap \subseteq DataBlock
          /\ free_blocks \in Int
          /\ block \in [DataBlock -> Block]
          /\ handles \subseteq Inode
          /\ cwd \in Cwd
          /\ mode \in {"run", "undefined", "overrun", "rootless"}

(* The count of the super block follows the bitmap through every call that *)
(* takes, frees or fails: it is one more than the blocks really free, for  *)
(* the root directory's block, which abyssfs_init takes without counting.  *)
FreeCount == free_blocks = Cardinality(FreeBlocks) + 1

(* Inodes in use, and inode 0, which stands for every opened file. *)
Holders == {i \in Inode : i = 0 \/ inode[i].mode # "free"}

(* No two files share a block and no file's block is free: although freed  *)
(* inodes keep their block and handles outlive their files, a block is     *)
(* never given to a second owner while the first is in use.                *)
BlocksHaveOneOwner ==
  \A i \in Holders : inode[i].blocks # NoBlock =>
    /\ inode[i].blocks \in block_bitmap
    /\ \A j \in Holders : j # i => inode[j].blocks # inode[i].blocks

(* What a listing of a directory in use shows behind the dots: in a new    *)
(* one whatever an earlier directory left in the block, where the length   *)
(* of ".." happens to lead to it, and what was made in the directory       *)
(* behind that.                                                            *)
Entries(b) ==
  LET c == Chain(b)
  IN  [k \in 1 .. (Len(c) - 2) |-> [name |-> b[c[k + 2]].name, inode |-> b[c[k + 2]].inode]]

EntriesOf(d) == Entries(block[inode[d].blocks])

Links == UNION {LET es == EntriesOf(d)
                IN  {[dir |-> d, at |-> k, inode |-> es[k].inode] : k \in DOMAIN es} :
                d \in Dirs}

(* Every entry that a listing of a directory in use shows names an inode   *)
(* in use, even one that was made in an earlier directory; and no two      *)
(* entries that listings show, of one directory or of two, name the same   *)
(* inode: unlink frees nothing that another name or directory leads to.    *)
EntriesAreFiles ==
  /\ \A d \in Dirs : LET b == block[inode[d].blocks]
                     IN  \A n \in Name : \A p \in Found(b, n) : inode[b[p].inode].mode # "free"
  /\ LET links == Links IN \A l, m \in links : l.inode = m.inode => l = m

(* The positions of the entries a walk over the whole block passes. *)
Passed(b) == LET c == Chain(b) IN {c[k] : k \in DOMAIN c}

(* The entries of a block at S, each up to the next and the last up to     *)
(* word end, where a walk ends: the two dots and then names.  ".." may be  *)
(* longer than it is when it is the last.                                  *)
IsList(b, S, end) ==
  /\ S \subseteq Pos /\ end \in Pos
  /\ IsHeader(b[end]) => b[end].rec = 0
  /\ \A p \in S : /\ p < end /\ IsHeader(b[p]) /\ b[p].rec > 0
                  /\ p + b[p].rec \in S \cup {end}
                  /\ p \notin {0, 2} => b[p].name \in Name /\ b[p].rec = round_up(b[p].name)
  /\ \A p, q \in S : p < q => p + b[p].rec <= q
  /\ {0, 2} \subseteq S
  /\ b[0] = [name |-> Dot, inode |-> Root, rec |-> 2]
  /\ b[2].name = DotDot /\ b[2].inode = Root
  /\ b[2].rec = 3 \/ S = {0, 2}

(* The root is a directory with a list of entries, until one of its dots   *)
(* is unlinked; no other inode ever had its block, and no handle writes to *)
(* it.                                                                     *)
RootLives ==
  /\ IF mode = "rootless"
     THEN inode[Root].mode = "free"
     ELSE /\ inode[Root] = [mode |-> "dir", blocks |-> RootBlock]
          /\ \E end \in Pos : IsList(block[RootBlock], Passed(block[RootBlock]), end)
  /\ \A i \in Inode \ {Root} : inode[i].blocks # RootBlock
  /\ Root \notin handles

StartsWithDots(b) == /\ IsHeader(b[0]) /\ b[0].name = Dot
                     /\ IsHeader(b[2]) /\ b[2].name = DotDot

(* Inode 0 is never taken, a directory has a block that begins with its    *)
(* two dots, and behind them no block has another.                         *)
Inodes0AndDirs ==
  /\ inode[0].mode = "free"
  /\ \A d \in Dirs : /\ inode[d].blocks # NoBlock
                     /\ mode = "run" => StartsWithDots(block[inode[d].blocks])
  /\ \A b \in DataBlock \ {RootBlock}, p \in Pos \ {0, 2} :
       IsHeader(block[b][p]) => block[b][p].name \in Name

(* The records of names: in the root those that a walk passes, elsewhere   *)
(* every one that is left in a block, passed or not.                       *)
Records ==
  {r \in DataBlock \X Pos :
     /\ IsHeader(block[r[1]][r[2]]) /\ block[r[1]][r[2]].name \in Name
     /\ r[1] = RootBlock => mode # "rootless" /\ r[2] \in Passed(block[RootBlock])}

Names(r) == block[r[1]][r[2]].inode

(* Each names an inode in use that no other names, and not the root.       *)
RecordsNameOne ==
  /\ \A r \in Records : inode[Names(r)].mode # "free" /\ Names(r) # Root
  /\ \A r, q \in Records : Names(r) = Names(q) => r = q

(* What holds from one call to the next. *)
AbyssInv == /\ TypeOK
            /\ FreeCount
            /\ BlocksHaveOneOwner
            /\ RootLives
            /\ Inodes0AndDirs
            /\ RecordsNameOne

(* A create or mkdir that finds its working directory and takes an inode   *)
(* makes the entry the last that a listing of that directory shows, behind *)
(* all it showed before, entries of an earlier directory included.  Two    *)
(* things excuse it: no block was left for a new directory, or rec_len     *)
(* came to 0 for the name and ends the walk in front of the entry.         *)
NewEntriesAreListed ==
  [][\A i \in Inode, d \in Dirs :
       /\ inode[i].mode = "free" /\ inode'[i].mode # "free"
       /\ d = get_inode_by_path(inode, block, cwd) /\ mode' = "run"
       => LET b == block'[inode[d].blocks]
          IN  \/ \E n \in Name :
                   EntriesOf(d)' = Append(EntriesOf(d), [name |-> n, inode |-> i])
              \/ FreeBlocks = {} /\ block' = block
              \/ /\ EntriesOf(d)' = EntriesOf(d)
                 /\ \E p \in Pos : IsHeader(b[p]) /\ b[p].inode = i /\ b[p].rec = 0]_vars

(* Read along rec_len, the records of the blocks are lists of entries that *)
(* grow at the end, shrink only in the root, one entry at a time or by the *)
(* first that a removal lists, and start in a new directory with entries   *)
(* that no other directory shows: cutting, clearing and moving records     *)
(* never loses, doubles or reorders one.  A directory loses its list only  *)
(* with its own entry or to a handle from before it was made.  And inodes  *)
(* go with the lists: what a call that failed half way took, what was in a *)
(* directory that was removed and what has a name too long for rec_len is  *)
(* never freed.                                                            *)
Lists == INSTANCE Directories WITH
           Entry  <- [name : Name, inode : Inode],
           Listed <- LISTED - 2,
           list   <- [d \in Inode |-> IF d \in Dirs THEN EntriesOf(d) ELSE << >>],
           used   <- Holders,
           open   <- handles

ListsSpec == Lists!Spec
================================================================================
