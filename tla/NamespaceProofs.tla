---------------------------- MODULE NamespaceProofs ----------------------------
(***************************************************************************)
(* Every path that the VFS resolves stays a path, and the heap keeps its   *)
(* bound and has paid for every binding, whatever is bound to what.        *)
(***************************************************************************)
EXTENDS Namespace, SequenceTheorems, WellFoundedInduction, TLAPS

(* The loops over the list find an entry when one is there to find. *)
LEMMA NewestExists ==
  ASSUME NEW n \in Nat, NEW S \in SUBSET (1 .. n), S # {}
  PROVE  \E i \in S : Newest(i, S)
<1>1. S \subseteq Nat
  OBVIOUS
<1>2. PICK x \in S : \A y \in S : ~ (<<y, x>> \in OpToRel(<, Nat))
  BY <1>1, NatLessThanWellFounded, WFMin
<1>3. \A y \in S : ~ (y < x)
  BY <1>1, <1>2 DEF OpToRel
<1> QED
  BY <1>1, <1>3 DEF Newest

LEMMA PathsAreSequences ==
  ASSUME NEW p \in Path
  PROVE  p \in Seq(Token) /\ p # << >>
BY NamespaceAssumption DEF Path

(* What is behind a prefix of a path is a sequence of its parts. *)
LEMMA RestOfPath ==
  ASSUME NEW p \in Seq(Token), NEW q \in Seq(Token), IsPrefixOf(q, p)
  PROVE  After(p, q) \in Seq(Token)
BY DEF After, IsPrefixOf

LEMMA BindingIsPair ==
  ASSUME mounts \in Seq(Binding), NEW i \in DOMAIN mounts
  PROVE  /\ mounts[i] \in Binding
         /\ mounts[i].old \in Seq(Token) /\ mounts[i].new \in Seq(Token)
<1>1. mounts[i] \in Binding
  OBVIOUS
<1>2. mounts[i].old \in Path /\ mounts[i].new \in Path
  BY <1>1 DEF Binding, Path
<1> QED
  BY <1>1, <1>2, PathsAreSequences

(* Listing: a redirected path is a path. *)
LEMMA NamespacePathIsPath ==
  ASSUME mounts \in Seq(Binding), NEW path \in Path, NEW h
  PROVE  resolve_namespace_path(path, h) \in Seq(Token)
<1>1. path \in Seq(Token)
  BY PathsAreSequences
<1>2. CASE Hits(path) = {} \/ h + Cost.resolved > HEAP
  BY <1>1, <1>2 DEF resolve_namespace_path
<1>3. CASE ~ (Hits(path) = {} \/ h + Cost.resolved > HEAP)
  <2> DEFINE i == CHOOSE k \in Hits(path) : Newest(k, Hits(path))
  <2>1. Len(mounts) \in Nat /\ Hits(path) \in SUBSET (1 .. Len(mounts))
    BY DEF Hits
  <2>2. i \in Hits(path)
    BY <1>3, <2>1, NewestExists
  <2> HIDE DEF i
  <2>3. i \in DOMAIN mounts /\ IsPrefixOf(mounts[i].new, path)
    BY <2>2 DEF Hits
  <2>4. After(path, mounts[i].new) \in Seq(Token) /\ mounts[i].old \in Seq(Token)
    BY <1>1, <2>3, BindingIsPair, RestOfPath
  <2>5. <<"/">> \in Seq(Token)
    BY NamespaceAssumption
  <2>6. Redirected(path, mounts[i]) \in Seq(Token)
    BY <2>4, <2>5, ConcatProperties DEF Redirected
  <2> QED
    BY <1>3, <2>6 DEF resolve_namespace_path, i
<1> QED
  BY <1>2, <1>3

(* Opening: likewise. *)
LEMMA ResolvedPathIsPath ==
  ASSUME mounts \in Seq(Binding), NEW path \in Path
  PROVE  resolve_path(path) \in Seq(Token)
<1>1. path \in Seq(Token)
  BY PathsAreSequences
<1> DEFINE hits == {i \in DOMAIN mounts : IsPrefixOf(mounts[i].old, path)}
           i    == CHOOSE k \in hits : Newest(k, hits)
<1>2. CASE hits = {}
  BY <1>1, <1>2 DEF resolve_path
<1>3. CASE hits # {}
  <2>1. Len(mounts) \in Nat /\ hits \in SUBSET (1 .. Len(mounts))
    OBVIOUS
  <2>2. i \in hits
    BY <1>3, <2>1, NewestExists
  <2>3. After(path, mounts[i].old) \in Seq(Token) /\ mounts[i].new \in Seq(Token)
    BY <1>1, <2>2, BindingIsPair, RestOfPath
  <2>4. resolve_path(path) = mounts[i].new \o After(path, mounts[i].old)
    BY <1>3 DEF resolve_path
  <2> QED
    BY <2>3, <2>4, ConcatProperties
<1> QED
  BY <1>2, <1>3

(* Every path has one of the file systems of the mount table, or none. *)
LEMMA MountFound ==
  ASSUME NEW path
  PROVE  find_mount(path) \in Fs \cup {"none"}
<1> DEFINE hits == {i \in DOMAIN mount_points : IsPrefixOf(mount_points[i].path, path)}
           i    == CHOOSE k \in hits : \A j \in hits :
                     Len(mount_points[j].path) <= Len(mount_points[k].path)
<1>1. /\ DOMAIN mount_points = {1, 2}
      /\ mount_points[1].fs \in Fs /\ mount_points[2].fs \in Fs
      /\ Len(mount_points[1].path) = 1 /\ Len(mount_points[2].path) = 2
  BY DEF mount_points, Root, Tmp, Fs
<1>2. ASSUME hits # {} PROVE i \in hits
  <2>1. \E k \in hits : \A j \in hits :
          Len(mount_points[j].path) <= Len(mount_points[k].path)
    BY <1>1, <1>2
  <2> QED
    BY <2>1
<1>3. hits # {} => mount_points[i].fs \in Fs
  BY <1>1, <1>2
<1> QED
  BY <1>3 DEF find_mount, Fs

(* The heap only grows, up to its end. *)
LEMMA HeapBounded ==
  ASSUME NEW h \in 0 .. HEAP, NEW n \in Nat
  PROVE  kalloc(h, n) \in h .. HEAP /\ (kalloc(h, n) # h => kalloc(h, n) = h + n)
BY NamespaceAssumption DEF kalloc

LEMMA ResolvingBounded ==
  ASSUME NEW path, NEW h \in 0 .. HEAP
  PROVE  HeapAfterResolve(path, h) \in h .. HEAP
BY HeapBounded, NamespaceAssumption DEF HeapAfterResolve, Cost

(* bind allocates the record and both paths, or stops on the way. *)
LEMMA CreateBounded ==
  ASSUME NEW h \in 0 .. HEAP
  PROVE  create_namespace(h) \in h .. HEAP
<1> DEFINE h1 == kalloc(h, 1)
           h2 == kalloc(h1, 1)
<1>1. h1 \in h .. HEAP
  BY HeapBounded
<1>2. h1 \in 0 .. HEAP /\ h2 \in h1 .. HEAP
  BY <1>1, HeapBounded, NamespaceAssumption
<1>3. h2 \in 0 .. HEAP /\ kalloc(h2, 1) \in h2 .. HEAP
  <2> HIDE DEF h1, h2
  <2>1. h2 \in 0 .. HEAP
    BY <1>2, NamespaceAssumption
  <2> QED
    BY <2>1, HeapBounded
<1> QED
  BY <1>1, <1>2, <1>3, NamespaceAssumption DEF create_namespace, Cost

--------------------------------------------------------------------------------
LEMMA TypeStep == TypeOK /\ [Next]_vars => TypeOK'
<1> SUFFICES ASSUME TypeOK, [Next]_vars PROVE TypeOK'
  OBVIOUS
<1>1. /\ mounts \in Seq(Binding) /\ heap_pos \in 0 .. HEAP /\ HEAP \in Nat
      /\ Len(mounts) * 3 <= heap_pos /\ Len(mounts) \in Nat /\ BindingCost = 3
  BY NamespaceAssumption DEF TypeOK, BindingCost, Cost
<1>2. ASSUME NEW path \in Path, vfs_open(path) PROVE TypeOK'
  <2>1. resolve_path(path) \in Seq(Token)
    BY <1>1, ResolvedPathIsPath
  <2> QED
    BY <1>1, <1>2, <2>1 DEF vfs_open, TypeOK, Fs
<1>3. ASSUME NEW path \in Path, vfs_read_dir(path) PROVE TypeOK'
  <2>1. resolve_namespace_path(path, heap_pos) \in Seq(Token)
    BY <1>1, NamespacePathIsPath
  <2>2. HeapAfterResolve(path, heap_pos) \in heap_pos .. HEAP
    BY <1>1, ResolvingBounded
  <2>3. find_mount(resolve_namespace_path(path, heap_pos)) \in Fs \cup {"none"}
    BY MountFound
  <2> QED
    BY <1>1, <1>3, <2>1, <2>2, <2>3 DEF vfs_read_dir, TypeOK
<1>4. ASSUME NEW path \in Path, unbind(path) PROVE TypeOK'
  <2>1. CASE UNCHANGED mounts /\ ret' = -1
    BY <1>4, <2>1 DEF unbind, TypeOK
  <2>2. ASSUME NEW i \in DOMAIN mounts, mounts' = Without(i), ret' = 0 PROVE TypeOK'
    <3>1. i \in 1 .. Len(mounts)
      BY <1>1, <2>2
    <3>2. /\ SubSeq(mounts, 1, i - 1) \in Seq(Binding)
          /\ Len(SubSeq(mounts, 1, i - 1)) = i - 1
      BY <1>1, <3>1, SubSeqProperties
    <3>3. /\ SubSeq(mounts, i + 1, Len(mounts)) \in Seq(Binding)
          /\ Len(SubSeq(mounts, i + 1, Len(mounts))) = Len(mounts) - i
      BY <1>1, <3>1, SubSeqProperties
    <3>4. mounts' = SubSeq(mounts, 1, i - 1) \o SubSeq(mounts, i + 1, Len(mounts))
      BY <2>2 DEF Without
    <3>5. mounts' \in Seq(Binding) /\ Len(mounts') = (i - 1) + (Len(mounts) - i)
      BY <3>2, <3>3, <3>4, ConcatProperties
    <3>6. Len(mounts') = Len(mounts) - 1
      BY <1>1, <3>1, <3>5
    <3> QED
      BY <1>1, <1>4, <2>2, <3>5, <3>6 DEF unbind, TypeOK, BindingCost, Cost
  <2> QED
    BY <1>4, <2>1, <2>2 DEF unbind
<1>5. ASSUME NEW old \in Source, NEW new \in Target, bind(old, new) PROVE TypeOK'
  <2> DEFINE h1 == HeapAfterResolve(old, heap_pos)
             h2 == HeapAfterResolve(new, h1)
             h3 == create_namespace(h2)
  <2>1. h1 \in heap_pos .. HEAP
    BY <1>1, ResolvingBounded
  <2>2. h1 \in 0 .. HEAP /\ h2 \in h1 .. HEAP
    BY <1>1, <2>1, ResolvingBounded
  <2>3. h2 \in 0 .. HEAP /\ h3 \in h2 .. HEAP
    BY <1>1, <2>2, CreateBounded
  <2>4. CASE UNCHANGED mounts /\ ret' = -1 /\ heap_pos' \in {h1, h2, h3}
    <3> HIDE DEF h1, h2, h3
    <3>1. heap_pos' \in heap_pos .. HEAP
      BY <1>1, <2>1, <2>2, <2>3, <2>4
    <3>2. UNCHANGED result
      BY <1>5 DEF bind
    <3> QED
      BY <1>1, <2>4, <3>1, <3>2 DEF TypeOK
  <2>5. CASE Link(old, new) /\ ret' = 0 /\ heap_pos' = h3 /\ h3 = h2 + BindingCost
    <3> HIDE DEF h1, h2, h3
    <3>1. <<[old |-> old, new |-> new]>> \in Seq(Binding)
      BY DEF Binding
    <3>2. mounts' \in Seq(Binding) /\ Len(mounts') = Len(mounts) + 1
      BY <1>1, <2>5, <3>1, ConcatProperties DEF Link
    <3>3. heap_pos' \in 0 .. HEAP /\ Len(mounts') * BindingCost <= heap_pos'
      BY <1>1, <2>1, <2>2, <2>3, <2>5, <3>2
    <3>4. UNCHANGED result
      BY <1>5 DEF bind
    <3> QED
      BY <2>5, <3>2, <3>3, <3>4 DEF TypeOK
  <2> QED
    BY <1>5, <2>4, <2>5 DEF bind
<1>6. CASE UNCHANGED vars
  BY <1>6 DEF vars, TypeOK
<1> QED
  BY <1>2, <1>3, <1>4, <1>5, <1>6 DEF Next

(* Every resolved path is a path, and the heap never leaves its bound and  *)
(* has paid for every binding: a bind that ran out of heap half way leaves *)
(* no binding, and failed ones and listings cannot make room for more.     *)
THEOREM TypeCorrect == Spec => []TypeOK
<1>1. Init => TypeOK
  BY NamespaceAssumption DEF Init, TypeOK, Nothing, BindingCost, Cost
<1> QED
  BY <1>1, TypeStep, PTL DEF Spec

--------------------------------------------------------------------------------
(* A successful bind links its binding in front of the others. *)
LEMMA BoundFirst ==
  ASSUME TypeOK, NEW old \in Source, NEW new \in Target, bind(old, new),
         Len(mounts') > Len(mounts)
  PROVE  /\ mounts' \in Seq(Binding)
         /\ 1 \in DOMAIN mounts'
         /\ mounts'[1] = [old |-> old, new |-> new]
<1>1. mounts \in Seq(Binding) /\ Len(mounts) \in Nat
  BY DEF TypeOK
<1>2. Link(old, new)
  BY <1>1 DEF bind
<1>3. <<[old |-> old, new |-> new]>> \in Seq(Binding)
  BY DEF Binding
<1> QED
  BY <1>1, <1>2, <1>3 DEF Link

(* The first binding wins over all others that hit. *)
LEMMA FirstIsNewest ==
  ASSUME NEW n \in Nat, NEW S \in SUBSET (1 .. n), 1 \in S
  PROVE  (CHOOSE i \in S : Newest(i, S)) = 1
<1>1. Newest(1, S) /\ \A i \in S : Newest(i, S) => i = 1
  BY DEF Newest
<1> QED
  BY <1>1

(* What lies below a path has the path for a prefix, and the separator and *)
(* the name behind it.                                                     *)
LEMMA BelowPath ==
  ASSUME NEW p \in Seq(Token)
  PROVE  /\ IsPrefixOf(p, p) /\ After(p, p) = << >>
         /\ IsPrefixOf(p, p \o <<"/", "x">>)
         /\ After(p \o <<"/", "x">>, p) = <<"/", "x">>
<1> DEFINE T == Token \cup {"x"}
           q == p \o <<"/", "x">>
<1>1. p \in Seq(T) /\ <<"/", "x">> \in Seq(T) /\ Len(p) \in Nat
  BY NamespaceAssumption
<1>2. /\ q \in Seq(T) /\ Len(q) = Len(p) + 2
      /\ \A i \in 1 .. Len(p) : q[i] = p[i]
      /\ q[Len(p) + 1] = "/" /\ q[Len(p) + 2] = "x"
  BY <1>1
<1> HIDE DEF q
<1>3. IsPrefixOf(p, p) /\ After(p, p) = << >>
  BY <1>1 DEF IsPrefixOf, After
<1>4. SubSeq(q, 1, Len(p)) = p
  <2>1. \A i \in 1 .. Len(p) : q[i] \in T
    BY <1>1, <1>2
  <2>2. /\ SubSeq(q, 1, Len(p)) \in Seq(T)
        /\ Len(SubSeq(q, 1, Len(p))) = Len(p)
        /\ \A i \in 1 .. Len(p) : SubSeq(q, 1, Len(p))[i] = p[i]
    BY <1>1, <1>2, <2>1, SubSeqProperties
  <2> QED
    BY <1>1, <2>2, SeqEqual
<1>5. SubSeq(q, Len(p) + 1, Len(q)) = <<"/", "x">>
  <2> DEFINE s == SubSeq(q, Len(p) + 1, Len(p) + 2)
  <2>1. \A i \in (Len(p) + 1) .. (Len(p) + 2) : q[i] \in T
    BY <1>1, <1>2
  <2>2. /\ s \in Seq(T) /\ Len(s) = 2
        /\ \A i \in 1 .. 2 : s[i] = q[Len(p) + 1 + i - 1]
    BY <1>1, <2>1, SubSeqProperties
  <2> HIDE DEF s
  <2>3. s[1] = "/" /\ s[2] = "x"
    BY <1>1, <1>2, <2>2
  <2>4. s = <<"/", "x">>
    BY <1>1, <2>2, <2>3
  <2> QED
    BY <1>2, <2>4 DEF s
<1> QED
  BY <1>1, <1>2, <1>3, <1>4, <1>5 DEF IsPrefixOf, After, q

(* A directory that was just bound lists its source, and a file below it   *)
(* the source's file, whatever was bound before: resolve_namespace_path    *)
(* takes the first binding that hits, and bind links in front.             *)
THEOREM BindingsUncoverTheSource == Spec => ListsTheSource
<1> DEFINE Lists(old, new) ==
      /\ Len(mounts') > Len(mounts) /\ heap_pos' + Cost.resolved <= HEAP
      /\ bind(old, new)
      => /\ resolve_namespace_path(new, heap_pos)' = old
         /\ (resolve_namespace_path(new \o <<"/", "x">>, heap_pos)
               = old \o <<"/", "x">>)'
<1>1. ASSUME TypeOK, TypeOK', NEW old \in Source, NEW new \in Target
      PROVE  Lists(old, new)
  <2> SUFFICES ASSUME Len(mounts') > Len(mounts), heap_pos' + Cost.resolved <= HEAP,
                      bind(old, new)
               PROVE  /\ resolve_namespace_path(new, heap_pos)' = old
                      /\ (resolve_namespace_path(new \o <<"/", "x">>, heap_pos)
                            = old \o <<"/", "x">>)'
    OBVIOUS
  <2> DEFINE below == new \o <<"/", "x">>
             hits(p) == {i \in DOMAIN mounts' : IsPrefixOf(mounts'[i].new, p)}
             e == [old |-> old, new |-> new]
  <2>1. old \in Seq(Token) /\ new \in Seq(Token)
    BY PathsAreSequences DEF Path
  <2>2. mounts' \in Seq(Binding) /\ 1 \in DOMAIN mounts' /\ mounts'[1] = e
    BY <1>1, BoundFirst
  <2>3. Len(mounts') \in Nat /\ DOMAIN mounts' = 1 .. Len(mounts')
    BY <2>2
  <2>4. ~ (heap_pos' + Cost.resolved > HEAP)
    <3>1. heap_pos' \in Int /\ HEAP \in Int
      BY <1>1, NamespaceAssumption DEF TypeOK
    <3>2. Cost.resolved \in Int
      BY DEF Cost
    <3> QED
      BY <3>1, <3>2
  <2>5. /\ 1 \in hits(new) /\ 1 \in hits(below)
    BY <2>1, <2>2, BelowPath
  <2>6. /\ (CHOOSE i \in hits(new) : Newest(i, hits(new))) = 1
        /\ (CHOOSE i \in hits(below) : Newest(i, hits(below))) = 1
    BY <2>3, <2>5, FirstIsNewest
  <2>7. /\ resolve_namespace_path(new, heap_pos)' = Redirected(new, e)
        /\ resolve_namespace_path(below, heap_pos)' = Redirected(below, e)
    BY <2>2, <2>4, <2>5, <2>6 DEF resolve_namespace_path, Hits
  <2>8. Redirected(new, e) = old
    BY <2>1, BelowPath DEF Redirected
  <2>9. Redirected(below, e) = old \o <<"/", "x">>
    <3>1. After(below, e.new) = <<"/", "x">> /\ e.old = old
      BY <2>1, BelowPath
    <3>2. <<"/", "x">>[1] = "/"
      OBVIOUS
    <3> QED
      BY <3>1, <3>2 DEF Redirected
  <2> QED
    BY <2>7, <2>8, <2>9
<1>2. TypeOK /\ TypeOK' => \A old \in Source, new \in Target : Lists(old, new)
  BY <1>1
<1> QED
  BY <1>2, TypeCorrect, PTL DEF ListsTheSource
================================================================================
