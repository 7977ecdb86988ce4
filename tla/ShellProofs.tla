------------------------------ MODULE ShellProofs ------------------------------
(***************************************************************************)
(* Proofs about Shell, for any operands, texts, numbers of slots, bytes,   *)
(* inodes, blocks and descriptors, and any size of the buffer of cp: the   *)
(* invariant ShellInv and what follows from it.                            *)
(***************************************************************************)
EXTENDS Shell, SequenceTheorems, WellFoundedInduction, TLAPS

--------------------------------------------------------------------------------
(* Folds.  What a fold of Paths computes is the fixpoint of a recursion on *)
(* sets of positions; there is one, and its values have the type that one  *)
(* step keeps.                                                             *)

LEMMA LeastExists ==
  ASSUME NEW S \in SUBSET Nat, S # {}
  PROVE  \E x \in S : \A y \in S : x <= y
<1>1. PICK x \in S : \A y \in S : ~ (<<y, x>> \in OpToRel(<, Nat))
  BY NatLessThanWellFounded, WFMin
<1>2. \A y \in S : ~ (y < x)
  BY <1>1 DEF OpToRel
<1> QED
  BY <1>2

LEMMA MaxProperties ==
  ASSUME NEW n \in Nat, NEW S \in SUBSET (1 .. n), S # {}
  PROVE  Max(S) \in S /\ \A y \in S : y <= Max(S)
<1> DEFINE T == {n - i : i \in S}
<1>1. T \in SUBSET Nat /\ T # {}
  <2>1. \A i \in S : n - i \in Nat
    OBVIOUS
  <2> QED
    BY <2>1
<1>2. PICK x \in T : \A y \in T : x <= y
  BY <1>1, LeastExists
<1>3. PICK m \in S : x = n - m
  BY <1>2
<1>4. \A y \in S : m >= y
  <2>1. \A y \in S : n - y \in T
    OBVIOUS
  <2> QED
    BY <1>2, <1>3, <2>1
<1> QED
  BY <1>3, <1>4 DEF Max

(* Induction on numbers, as a set of them.                                 *)
LEMMA AllOfThem ==
  ASSUME NEW n \in Nat, NEW A \in SUBSET (0 .. n), 0 \in A,
         \A m \in A : m < n => m + 1 \in A
  PROVE  A = 0 .. n
<1> SUFFICES ASSUME (0 .. n) \ A # {} PROVE FALSE
  OBVIOUS
<1>1. PICK x \in (0 .. n) \ A : \A y \in (0 .. n) \ A : x <= y
  <2>1. (0 .. n) \ A \in SUBSET Nat
    OBVIOUS
  <2> QED
    BY <2>1, LeastExists
<1>2. x - 1 \in A
  BY <1>1
<1> QED
  BY <1>1, <1>2

(* g is the recursion, with step for the operator and base for no position.*)
IsFold(g, n, base, step) ==
  \A s \in SUBSET (1 .. n) :
    g[s] = IF s = {} THEN base ELSE step[<<g[s \ {Max(s)}], Max(s)>>]

LEMMA FoldExists ==
  ASSUME NEW n \in Nat, NEW S, NEW base \in S, NEW step \in [S \X (1 .. n) -> S]
  PROVE  \E g \in [SUBSET (1 .. n) -> S] : IsFold(g, n, base, step)
<1> DEFINE A == {m \in 0 .. n : \E g \in [SUBSET (1 .. m) -> S] : IsFold(g, m, base, step)}
<1>1. 0 \in A
  <2> DEFINE g == [s \in SUBSET (1 .. 0) |-> base]
  <2>1. g \in [SUBSET (1 .. 0) -> S] /\ IsFold(g, 0, base, step)
    BY DEF IsFold
  <2> QED
    BY <2>1
<1>2. ASSUME NEW m \in A, m < n
      PROVE  m + 1 \in A
  <2>1. PICK g \in [SUBSET (1 .. m) -> S] : IsFold(g, m, base, step)
    OBVIOUS
  <2>a. m \in Nat /\ m + 1 \in Nat /\ m + 1 \in 1 .. n /\ m + 1 \in 0 .. n
    BY <1>2
  <2> HIDE DEF A
  <2> DEFINE h == [s \in SUBSET (1 .. m + 1) |->
                     IF m + 1 \in s THEN step[<<g[s \ {m + 1}], m + 1>>] ELSE g[s]]
  <2>2. ASSUME NEW s \in SUBSET (1 .. m + 1), m + 1 \in s
        PROVE  h[s] \in S /\ h[s] = step[<<h[s \ {Max(s)}], Max(s)>>]
    <3>1. s \ {m + 1} \in SUBSET (1 .. m)
      BY <2>a
    <3>2. Max(s) \in s /\ m + 1 <= Max(s)
      BY <2>2, <2>a, MaxProperties
    <3>3. Max(s) = m + 1
      <4>1. Max(s) \in 1 .. m + 1
        BY <3>2
      <4> QED
        BY <2>a, <3>2, <4>1
    <3>4. h[s \ {m + 1}] = g[s \ {m + 1}] /\ g[s \ {m + 1}] \in S
      BY <3>1
    <3>5. h[s] = step[<<g[s \ {m + 1}], m + 1>>]
      BY <2>2
    <3> QED
      BY <2>a, <3>3, <3>4, <3>5
  <2>3. ASSUME NEW s \in SUBSET (1 .. m + 1), m + 1 \notin s
        PROVE  /\ h[s] \in S
               /\ h[s] = IF s = {} THEN base ELSE step[<<h[s \ {Max(s)}], Max(s)>>]
    <3>1. s \in SUBSET (1 .. m) /\ s \ {Max(s)} \in SUBSET (1 .. m)
      <4>1. \A i \in s : i \in 1 .. m
        BY <2>a, <2>3
      <4> QED
        BY <4>1
    <3>2. h[s] = g[s] /\ h[s \ {Max(s)}] = g[s \ {Max(s)}]
      BY <2>3, <3>1
    <3> QED
      BY <2>1, <3>1, <3>2 DEF IsFold
  <2>4. h \in [SUBSET (1 .. m + 1) -> S]
    BY <2>2, <2>3
  <2>5. IsFold(h, m + 1, base, step)
    <3>1. ASSUME NEW s \in SUBSET (1 .. m + 1)
          PROVE  h[s] = IF s = {} THEN base ELSE step[<<h[s \ {Max(s)}], Max(s)>>]
      <4>1. CASE m + 1 \in s
        BY <2>2, <4>1
      <4>2. CASE m + 1 \notin s
        BY <2>3, <4>2
      <4> QED
        BY <4>1, <4>2
    <3> HIDE DEF h
    <3> QED
      BY <3>1 DEF IsFold
  <2> HIDE DEF h
  <2> QED
    BY <2>a, <2>4, <2>5 DEF A
<1>3. A \in SUBSET (0 .. n)
  OBVIOUS
<1>4. A = 0 .. n
  <2> HIDE DEF A
  <2> QED
    BY <1>1, <1>2, <1>3, AllOfThem
<1>5. n \in A
  <2> HIDE DEF A
  <2> QED
    BY <1>4
<1> QED
  BY <1>5

LEMMA FoldTyped ==
  ASSUME NEW n \in Nat, NEW S, NEW g, g[{}] \in S,
         \A s \in SUBSET (1 .. n) : s # {} /\ g[s \ {Max(s)}] \in S => g[s] \in S
  PROVE  g[1 .. n] \in S
<1> DEFINE A == {m \in 0 .. n : \A s \in SUBSET (1 .. m) : g[s] \in S}
<1>2. 0 \in A
  <2>1. \A s \in SUBSET (1 .. 0) : s = {}
    OBVIOUS
  <2>2. \A s \in SUBSET (1 .. 0) : g[s] \in S
    BY <2>1, Zenon
  <2> QED
    BY <2>2
<1>3. ASSUME NEW m \in A, m < n
      PROVE  m + 1 \in A
  <2>1. m \in Nat /\ m + 1 \in Nat /\ m + 1 \in 1 .. n /\ m + 1 \in 0 .. n
    BY <1>3
  <2>2. \A s \in SUBSET (1 .. m) : g[s] \in S
    OBVIOUS
  <2> HIDE DEF A
  <2>3. ASSUME NEW s \in SUBSET (1 .. m + 1), s # {}
        PROVE  g[s] \in S
    <3>1. Max(s) \in s /\ \A y \in s : y <= Max(s)
      BY <2>1, <2>3, MaxProperties
    <3>2. ASSUME NEW y \in s \ {Max(s)}
          PROVE  y \in 1 .. m
      <4>1. y \in 1 .. m + 1 /\ Max(s) \in 1 .. m + 1
        BY <3>1
      <4> QED
        BY <2>1, <3>1, <4>1
    <3>3. s \ {Max(s)} \in SUBSET (1 .. m)
      BY <3>2
    <3>4. \A y \in s : y \in 1 .. n
      BY <2>1
    <3>5. s \in SUBSET (1 .. n) /\ Max(s) \in 1 .. n
      BY <3>1, <3>4
    <3> QED
      BY <2>2, <2>3, <3>3, <3>5
  <2> QED
    BY <2>1, <2>3 DEF A
<1>4. A \in SUBSET (0 .. n)
  OBVIOUS
<1>5. A = 0 .. n
  <2> HIDE DEF A
  <2> QED
    BY <1>2, <1>3, <1>4, AllOfThem
<1>6. n \in A
  <2> HIDE DEF A
  <2> QED
    BY <1>5
<1> QED
  BY <1>6
--------------------------------------------------------------------------------
(* Paths.                                                                  *)

FullPath == Seq(Token) \ {<< >>}

LEMMA LastSlash ==
  ASSUME NEW path \in Seq(Token)
  PROVE  strrchr(path) \in 0 .. Len(path)
<1> DEFINE I == {i \in 1 .. Len(path) : path[i] = "/"}
<1>1. Len(path) \in Nat /\ I \in SUBSET (1 .. Len(path))
  OBVIOUS
<1>2. I # {} => Max(I) \in 1 .. Len(path)
  BY <1>1, MaxProperties
<1>3. strrchr(path) = IF I # {} THEN Max(I) ELSE 0
  BY Zenon DEF strrchr, SelectLastInSeq
<1> HIDE DEF I
<1> QED
  BY <1>1, <1>2, <1>3

LEMMA BasenameTyped ==
  ASSUME NEW path \in Seq(Token)
  PROVE  get_basename(path) \in Seq(Token)
<1>1. Len(path) \in Nat /\ strrchr(path) \in 0 .. Len(path)
  BY LastSlash
<1>2. \A i \in strrchr(path) + 1 .. Len(path) : path[i] \in Token
  BY <1>1
<1> QED
  BY <1>1, <1>2, SubSeqProperties DEF get_basename

LEMMA NotEmpty ==
  ASSUME NEW path, Len(path) >= 1
  PROVE  path # << >>
<1>1. Len(<< >>) = 0
  OBVIOUS
<1> QED
  BY <1>1

LEMMA ParentTyped ==
  ASSUME NEW path \in FullPath
  PROVE  get_parent_dir(path) \in FullPath
<1>1. /\ path \in Seq(Token) /\ path # << >>
      /\ Len(path) \in Nat /\ Len(path) >= 1
      /\ \A i \in 1 .. Len(path) : path[i] \in Token
  BY EmptySeq DEF FullPath
<1> DEFINE p == IF Len(path) > 1 /\ Last(path) = "/" THEN Front(path) ELSE path
<1>2. p \in Seq(Token) /\ Len(p) >= 1
  <2>1. CASE Len(path) > 1 /\ Last(path) = "/"
    <3>1. p = SubSeq(path, 1, Len(path) - 1)
      BY <2>1 DEF Front
    <3>2. \A i \in 1 .. Len(path) - 1 : path[i] \in Token
      BY <1>1
    <3> QED
      BY <1>1, <2>1, <3>1, <3>2, SubSeqProperties
  <2> QED
    BY <1>1, <2>1
<1>3. Len(p) \in Nat /\ strrchr(p) \in 0 .. Len(p) /\ \A i \in 1 .. Len(p) : p[i] \in Token
  BY <1>2, LastSlash
<1>4. get_parent_dir(path) = CASE strrchr(p) = 0 -> p
                               [] strrchr(p) = 1 -> Slash
                               [] OTHER          -> SubSeq(p, 1, strrchr(p) - 1)
  BY DEF get_parent_dir
<1> HIDE DEF p
<1>5. Slash \in Seq(Token) /\ Len(Slash) = 1
  BY ShellAssumption DEF Slash
<1>6. CASE strrchr(p) \notin {0, 1}
  <2>1. \A i \in 1 .. strrchr(p) - 1 : p[i] \in Token
    BY <1>3
  <2>2. /\ SubSeq(p, 1, strrchr(p) - 1) \in Seq(Token)
        /\ Len(SubSeq(p, 1, strrchr(p) - 1)) >= 1
    BY <1>3, <1>6, <2>1, SubSeqProperties
  <2>3. SubSeq(p, 1, strrchr(p) - 1) # << >>
    BY <2>2, NotEmpty
  <2> QED
    BY <1>4, <1>6, <2>2, <2>3 DEF FullPath
<1>7. p # << >> /\ Slash # << >>
  <2>1. Len(Slash) >= 1
    BY <1>5
  <2> QED
    BY <1>2, <2>1, NotEmpty
<1>8. CASE strrchr(p) = 0
  BY <1>2, <1>4, <1>7, <1>8 DEF FullPath
<1>9. CASE strrchr(p) = 1
  BY <1>4, <1>5, <1>7, <1>9 DEF FullPath
<1> QED
  BY <1>6, <1>8, <1>9

(* The components of a path are sequences of pieces. *)
LEMMA ComponentsTyped ==
  ASSUME NEW path \in Seq(Token)
  PROVE  Components(path) \in Seq(Seq(Token))
<1> DEFINE n == Len(path)
           S == Seq(Seq(Token)) \ {<< >>}
           Op(ps, piece) == CASE piece # "/"       -> Append(Front(ps), Append(Last(ps), piece))
                              [] Last(ps) = << >>  -> ps
                              [] OTHER             -> Append(ps, << >>)
           step == [x \in S \X (1 .. n) |-> Op(x[1], path[x[2]])]
           base == << << >> >>
           Iter(g) == [s \in SUBSET (DOMAIN path) |->
                         IF s = {} THEN base
                         ELSE Op(g[s \ {Max(s)}], path[Max(s)])]
           parts == (CHOOSE g : g = Iter(g))[DOMAIN path]
<1>1. n \in Nat /\ DOMAIN path = 1 .. n /\ \A i \in 1 .. n : path[i] \in Token
  OBVIOUS
<1>2. base \in S
  OBVIOUS
<1>3. ASSUME NEW ps \in S, NEW piece \in Token
      PROVE  Op(ps, piece) \in S
  <2>1. /\ ps \in Seq(Seq(Token)) /\ Len(ps) \in Nat /\ Len(ps) >= 1
        /\ Last(ps) \in Seq(Token)
    BY EmptySeq DEF Last
  <2>2. Front(ps) \in Seq(Seq(Token))
    <3>1. \A i \in 1 .. Len(ps) - 1 : ps[i] \in Seq(Token)
      BY <2>1
    <3> QED
      BY <2>1, <3>1, SubSeqProperties DEF Front
  <2>3. Append(Last(ps), piece) \in Seq(Token)
    BY <2>1, AppendProperties
  <2>4. Append(Front(ps), Append(Last(ps), piece)) \in S
    <3> DEFINE last == Append(Last(ps), piece)
               front == Front(ps)
    <3>1. front \in Seq(Seq(Token)) /\ last \in Seq(Token)
      BY <2>2, <2>3
    <3> HIDE DEF last, front
    <3>2. Append(front, last) \in Seq(Seq(Token)) /\ Append(front, last) # << >>
      BY <3>1, AppendProperties
    <3> QED
      BY <3>2 DEF front, last
  <2>5. << >> \in Seq(Token)
    OBVIOUS
  <2>6. Append(ps, << >>) \in S
    BY <2>1, <2>5, AppendProperties
  <2> QED
    BY <2>4, <2>6
<1> HIDE DEF Op
<1>4. step \in [S \X (1 .. n) -> S]
  BY <1>1, <1>3
<1>5. \E g : g = Iter(g)
  <2> HIDE DEF S, base
  <2>1. PICK g \in [SUBSET (1 .. n) -> S] : IsFold(g, n, base, step)
    BY <1>1, <1>2, <1>4, FoldExists
  <2>2. \A s \in SUBSET (1 .. n) :
          g[s] = IF s = {} THEN base ELSE step[<<g[s \ {Max(s)}], Max(s)>>]
    BY <2>1 DEF IsFold
  <2>3. ASSUME NEW s \in SUBSET (1 .. n), s # {}
        PROVE  g[s] = Op(g[s \ {Max(s)}], path[Max(s)])
    <3>1. Max(s) \in 1 .. n
      BY <1>1, <2>3, MaxProperties
    <3>2. g[s \ {Max(s)}] \in S
      OBVIOUS
    <3> QED
      BY <2>2, <2>3, <3>1, <3>2
  <2>4. g = Iter(g)
    BY <1>1, <2>2, <2>3
  <2> QED
    BY <2>4
<1>6. parts \in S
  <2>1. PICK g : g = Iter(g) /\ parts = g[DOMAIN path]
    BY <1>5
  <2>2. \A s \in SUBSET (1 .. n) :
          g[s] = IF s = {} THEN base ELSE Op(g[s \ {Max(s)}], path[Max(s)])
    BY <1>1, <2>1
  <2>3. g[{}] \in S
    BY <1>2, <2>2
  <2>4. \A s \in SUBSET (1 .. n) : s # {} /\ g[s \ {Max(s)}] \in S => g[s] \in S
    <3> HIDE DEF S
    <3> QED
      BY <1>1, <1>3, <2>2, MaxProperties
  <2>5. g[1 .. n] \in S
    <3> HIDE DEF S
    <3> QED
      BY <1>1, <2>3, <2>4, FoldTyped
  <2> QED
    BY <1>1, <2>1, <2>5
<1>7. Components(path) = IF Last(parts) = << >> THEN Front(parts) ELSE parts
  BY Zenon DEF Components, FoldLeft, MapThenFoldSet, Op
<1> HIDE DEF parts
<1>8. /\ parts \in Seq(Seq(Token)) /\ Len(parts) \in Nat
      /\ \A i \in 1 .. Len(parts) - 1 : parts[i] \in Seq(Token)
  BY <1>6
<1>9. Front(parts) \in Seq(Seq(Token))
  BY <1>8, SubSeqProperties DEF Front
<1> QED
  BY <1>7, <1>8, <1>9

(* Where cd leads to is a path again. *)
LEMMA TargetTyped ==
  ASSUME NEW path \in Seq(Token), cwd \in FullPath
  PROVE  cd_target(cwd, path) \in FullPath
<1> DEFINE parts == Components(path)
           n == Len(parts)
           S == FullPath
           Op(at, part) == CASE part = <<".">>  -> at
                             [] part = <<"..">> -> get_parent_dir(at)
                             [] OTHER           -> (IF at = Slash THEN at ELSE at \o Slash) \o part
           step == [x \in S \X (1 .. n) |-> Op(x[1], parts[x[2]])]
           base == IF Absolute(path) THEN Slash ELSE cwd
           Iter(g) == [s \in SUBSET (DOMAIN parts) |->
                         IF s = {} THEN base
                         ELSE Op(g[s \ {Max(s)}], parts[Max(s)])]
           target == (CHOOSE g : g = Iter(g))[DOMAIN parts]
<1>1. /\ n \in Nat /\ DOMAIN parts = 1 .. n
      /\ \A i \in 1 .. n : parts[i] \in Seq(Token)
  <2>1. parts \in Seq(Seq(Token))
    BY ComponentsTyped
  <2> HIDE DEF parts
  <2> QED
    BY <2>1
<1>2. Slash \in S /\ Slash \in Seq(Token)
  BY ShellAssumption DEF Slash, FullPath
<1>3. base \in S
  BY <1>2
<1>4. ASSUME NEW at \in S, NEW part \in Seq(Token)
      PROVE  Op(at, part) \in S
  <2>1. at \in Seq(Token) /\ Len(at) \in Nat /\ Len(at) >= 1
    BY EmptySeq DEF FullPath
  <2>2. get_parent_dir(at) \in S
    BY ParentTyped
  <2> DEFINE from == IF at = Slash THEN at ELSE at \o Slash
  <2>3. from \in Seq(Token) /\ Len(from) >= 1
    BY <1>2, <2>1, ConcatProperties
  <2> HIDE DEF from
  <2>4. from \o part \in Seq(Token) /\ Len(from \o part) >= 1
    BY <2>3, ConcatProperties
  <2>5. from \o part \in S
    BY <2>4, NotEmpty DEF FullPath
  <2> HIDE DEF S
  <2> QED
    BY <2>2, <2>5 DEF from
<1> HIDE DEF Op
<1>5. step \in [S \X (1 .. n) -> S]
  BY <1>1, <1>4
<1>6. \E g : g = Iter(g)
  <2> HIDE DEF S, base
  <2>1. PICK g \in [SUBSET (1 .. n) -> S] : IsFold(g, n, base, step)
    BY <1>1, <1>3, <1>5, FoldExists
  <2>2. \A s \in SUBSET (1 .. n) :
          g[s] = IF s = {} THEN base ELSE step[<<g[s \ {Max(s)}], Max(s)>>]
    BY <2>1 DEF IsFold
  <2>3. ASSUME NEW s \in SUBSET (1 .. n), s # {}
        PROVE  g[s] = Op(g[s \ {Max(s)}], parts[Max(s)])
    <3>1. Max(s) \in 1 .. n
      BY <1>1, <2>3, MaxProperties
    <3>2. g[s \ {Max(s)}] \in S
      OBVIOUS
    <3> QED
      BY <2>2, <2>3, <3>1, <3>2
  <2>4. g = Iter(g)
    BY <1>1, <2>2, <2>3
  <2> QED
    BY <2>4
<1>7. target \in S
  <2> HIDE DEF S, base
  <2>1. PICK g : g = Iter(g) /\ target = g[DOMAIN parts]
    BY <1>6
  <2>2. \A s \in SUBSET (1 .. n) :
          g[s] = IF s = {} THEN base ELSE Op(g[s \ {Max(s)}], parts[Max(s)])
    BY <1>1, <2>1
  <2>3. g[{}] \in S
    BY <1>3, <2>2
  <2>4. \A s \in SUBSET (1 .. n) : s # {} /\ g[s \ {Max(s)}] \in S => g[s] \in S
    BY <1>1, <1>4, <2>2, MaxProperties
  <2>5. g[1 .. n] \in S
    BY <1>1, <2>3, <2>4, FoldTyped
  <2> QED
    BY <1>1, <2>1, <2>5
<1>8. cd_target(cwd, path) = target
  BY Zenon DEF cd_target, FoldLeft, MapThenFoldSet, Op
<1> QED
  BY <1>7, <1>8

--------------------------------------------------------------------------------
(* Paths under the full path, the name stored and the prefixes the VFS     *)
(* looks for.                                                              *)

LEMMA PrefixAbsolute ==
  ASSUME NEW path \in Seq(Token), IsPrefix(TmpDir, path) \/ IsPrefix(Tmp, path)
  PROVE  Absolute(path)
<1>1. Len(path) \in Nat
  OBVIOUS
<1>2. Len(path) >= 2 /\ path[1] = "/"
  <2>1. CASE IsPrefix(TmpDir, path)
    <3>1. Len(TmpDir) = 3 /\ TmpDir[1] = "/"
      BY DEF TmpDir
    <3>2. Len(path) >= 3 /\ SubSeq(TmpDir, 1, 3) = SubSeq(path, 1, 3)
      BY <2>1, <3>1, <1>1 DEF IsPrefix
    <3>3. SubSeq(path, 1, 3)[1] = path[1]
      BY <3>2, <1>1
    <3>4. SubSeq(TmpDir, 1, 3)[1] = TmpDir[1]
      BY DEF TmpDir
    <3> QED
      BY <1>1, <3>1, <3>2, <3>3, <3>4
  <2>2. CASE IsPrefix(Tmp, path)
    <3>1. Len(Tmp) = 2 /\ Tmp[1] = "/"
      BY DEF Tmp
    <3>2. Len(path) >= 2 /\ SubSeq(Tmp, 1, 2) = SubSeq(path, 1, 2)
      BY <2>2, <3>1, <1>1 DEF IsPrefix
    <3>3. SubSeq(path, 1, 2)[1] = path[1]
      BY <3>2, <1>1
    <3>4. SubSeq(Tmp, 1, 2)[1] = Tmp[1]
      BY DEF Tmp
    <3> QED
      BY <1>1, <3>1, <3>2, <3>3, <3>4
  <2> QED
    BY <2>1, <2>2
<1>3. path # << >>
  BY <1>1, <1>2, NotEmpty
<1> QED
  BY <1>2, <1>3 DEF Absolute

LEMMA FullTyped ==
  ASSUME NEW path \in FullPath, cwd \in FullPath
  PROVE  Full(path) \in FullPath
<1>1. /\ path \in Seq(Token) /\ Len(path) \in Nat /\ Len(path) >= 1
      /\ cwd \in Seq(Token) /\ Len(cwd) \in Nat /\ Len(cwd) >= 1
  BY EmptySeq DEF FullPath
<1>2. Slash \in Seq(Token) /\ Len(Slash) = 1
  BY ShellAssumption DEF Slash
<1>3. cwd \o path \in Seq(Token) /\ Len(cwd \o path) >= 1
  BY <1>1, ConcatProperties
<1>4. cwd \o Slash \in Seq(Token) /\ Len(cwd \o Slash) >= 1
  BY <1>1, <1>2, ConcatProperties
<1>5. (cwd \o Slash) \o path \in Seq(Token) /\ Len((cwd \o Slash) \o path) >= 1
  BY <1>1, <1>4, ConcatProperties
<1>6. cwd \o path # << >> /\ (cwd \o Slash) \o path # << >>
  BY <1>3, <1>5, NotEmpty
<1> QED
  BY <1>3, <1>5, <1>6 DEF Full, full_path, FullPath

LEMMA StoredNameTyped ==
  ASSUME NEW path \in Seq(Token)
  PROVE  StoredName(path) \in FullPath /\ IsPrefix(TmpDir, StoredName(path))
<1>1. TmpDir \in Seq(Token) /\ Len(TmpDir) = 3
  BY ShellAssumption DEF TmpDir
<1>2. CASE IsPrefix(TmpDir, path)
  BY <1>2, PrefixAbsolute DEF StoredName, FullPath, Absolute
<1>3. CASE ~IsPrefix(TmpDir, path)
  <2>1. /\ TmpDir \o path \in Seq(Token) /\ Len(TmpDir \o path) >= 3
        /\ Len(TmpDir \o path) \in Nat
    <3>1. Len(path) \in Nat
      OBVIOUS
    <3>2. TmpDir \o path \in Seq(Token) /\ Len(TmpDir \o path) = Len(TmpDir) + Len(path)
      BY <1>1, ConcatProperties
    <3> QED
      BY <1>1, <3>1, <3>2
  <2>2. SubSeq(TmpDir \o path, 1, 3) = SubSeq(TmpDir, 1, 3)
    <3>1. 1 \in 1 .. Len(TmpDir) /\ 3 \in 1 .. Len(TmpDir)
      BY <1>1
    <3> QED
      BY <1>1, <3>1, SubSeqOfConcat1
  <2>3. IsPrefix(TmpDir, TmpDir \o path)
    BY <1>1, <2>1, <2>2 DEF IsPrefix
  <2>4. TmpDir \o path # << >>
    BY <2>1, NotEmpty
  <2> QED
    BY <1>3, <2>1, <2>3, <2>4 DEF StoredName, FullPath
<1> QED
  BY <1>2, <1>3

--------------------------------------------------------------------------------
(* What is stored, and what is open, apart from each other.                *)

Stored ==
  /\ files \in [Ram!Slot -> Ram!ramfs_file]
  /\ text \in [Ram!Slot -> Seq(Byte)]
  /\ \A s \in Ram!Slot : Len(text[s]) = files[s].size
  /\ node \in [Inode -> [used : BOOLEAN, size : Nat, bytes : Seq(Byte)]]
  /\ root \in Seq([name : Seq(Token), inode : Inode])

PrivateData == Ram!Slot \cup {AbyssFile(i) : i \in Inode}
vfs_file    == [private_data : PrivateData, f_pos : 0 .. MAX_CONTENT]

Opened ==
  /\ handles \in Seq(vfs_file)
  /\ heap_pos \in Len(handles) .. MAX_KALLOC
  /\ fd_table \in [Ram!FD -> {Ram!NULL} \cup (1 .. Len(handles))]
  /\ next_fd \in 0 .. MAX_FD

FsInv == Stored /\ Opened /\ EntriesAreFiles /\ NamesAreBelowTmp

(* No open or create disturbs what was open before. *)
Keeps ==
  /\ Len(handles') >= Len(handles)
  /\ \A h \in 1 .. Len(handles) : handles'[h] = handles[h]
  /\ next_fd' >= next_fd
  /\ \A fd \in 0 .. (next_fd - 1) : fd_table'[fd] = fd_table[fd]

(* The call returned a descriptor with a handle at the beginning of p. *)
Gets(p) ==
  /\ ret' = next_fd /\ next_fd \in Nat /\ next_fd' = next_fd + 1
  /\ next_fd \in Ram!FD
  /\ fd_table'[next_fd] = Len(handles) + 1
  /\ Len(handles') = Len(handles) + 1
  /\ handles'[Len(handles) + 1] = [private_data |-> p, f_pos |-> 0]

LEMMA Ranges ==
  /\ MAX_FILES \in Nat /\ MAX_FILES > 0 /\ MAX_CONTENT \in Nat /\ MAX_CONTENT > 0
  /\ MAX_FD \in Nat /\ MAX_KALLOC \in Nat
  /\ \A s \in Ram!Slot : s \in Int /\ s >= 0
  /\ \A i \in Inode : i \in Int /\ i >= 0 /\ AbyssFile(i) < 0 /\ -1 - AbyssFile(i) = i
  /\ Ram!FD = 0 .. (MAX_FD - 1) /\ Ram!NULL = 0
  BY ShellAssumption DEF Ram!Slot, Inode, AbyssFile, Ram!FD, Ram!NULL

LEMMA HandleAllocated ==
  ASSUME Opened, NEW p \in PrivateData, ~Ram!HeapFull, Ram!alloc_fd(p)
  PROVE  Opened' /\ Keeps /\ (ret' = -1 \/ Gets(p))
<1>1. handles \in Seq(vfs_file) /\ Len(handles) \in Nat
  BY DEF Opened
<1>2. [private_data |-> p, f_pos |-> 0] \in vfs_file
  BY Ranges DEF vfs_file
<1>3. handles' = Append(handles, [private_data |-> p, f_pos |-> 0])
  BY DEF Ram!alloc_fd
<1>4. /\ handles' \in Seq(vfs_file)
      /\ Len(handles') = Len(handles) + 1
      /\ \A h \in 1 .. Len(handles) : handles'[h] = handles[h]
      /\ handles'[Len(handles) + 1] = [private_data |-> p, f_pos |-> 0]
  BY <1>1, <1>2, <1>3, AppendProperties
<1>5. heap_pos' \in Len(handles') .. MAX_KALLOC
  <2>1. heap_pos' = heap_pos + 1
    BY DEF Ram!alloc_fd
  <2> QED
    BY <1>1, <1>4, <2>1, Ranges DEF Ram!HeapFull, Opened
<1>6. fd_table \in [0 .. (MAX_FD - 1) -> {0} \cup (1 .. Len(handles))] /\ next_fd \in 0 .. MAX_FD
  BY Ranges DEF Opened
<1>7. CASE ret' = -1 /\ UNCHANGED <<fd_table, next_fd>>
  <2>1. fd_table' \in [0 .. (MAX_FD - 1) -> {0} \cup (1 .. Len(handles'))]
    BY <1>1, <1>4, <1>6, <1>7
  <2> QED
    BY <1>1, <1>4, <1>5, <1>6, <1>7, <2>1, Ranges DEF Opened, Keeps
<1>8. CASE /\ next_fd < MAX_FD
           /\ fd_table' = [fd_table EXCEPT ![next_fd] = Len(handles) + 1]
           /\ next_fd' = next_fd + 1
           /\ ret' = next_fd
  <2>1. next_fd \in 0 .. (MAX_FD - 1) /\ next_fd' \in 0 .. MAX_FD
    BY <1>6, <1>8, Ranges
  <2>2. fd_table' \in [0 .. (MAX_FD - 1) -> {0} \cup (1 .. Len(handles'))]
    BY <1>1, <1>4, <1>6, <1>8, <2>1
  <2>3. \A fd \in 0 .. (next_fd - 1) : fd_table'[fd] = fd_table[fd]
    BY <1>6, <1>8, <2>1, Ranges
  <2>4. fd_table'[next_fd] = Len(handles) + 1
    BY <1>6, <1>8, <2>1
  <2>5. Opened'
    BY <1>4, <1>5, <2>1, <2>2, Ranges DEF Opened
  <2>6. Keeps
    BY <1>1, <1>4, <1>6, <1>8, <2>3 DEF Keeps
  <2>7. Gets(p)
    BY <1>4, <1>8, <2>1, <2>4, Ranges DEF Gets
  <2> QED
    BY <2>5, <2>6, <2>7
<1> QED
  BY <1>7, <1>8 DEF Ram!alloc_fd

LEMMA NothingAllocated ==
  ASSUME Opened, UNCHANGED <<handles, heap_pos, fd_table, next_fd>>
  PROVE  Opened' /\ Keeps
<1>1. handles' = handles /\ Len(handles) \in Nat /\ next_fd' = next_fd /\ next_fd \in Int
  BY Ranges DEF Opened
<1> QED
  BY <1>1 DEF Opened, Keeps

(* A handle moved on leaves the others as they are. *)
LEMMA HandleMoved ==
  ASSUME Opened, NEW h \in 1 .. Len(handles), NEW p \in 0 .. MAX_CONTENT,
         handles' = [handles EXCEPT ![h].f_pos = p],
         UNCHANGED <<heap_pos, fd_table, next_fd>>
  PROVE  /\ Opened'
         /\ Len(handles') = Len(handles)
         /\ \A k \in 1 .. Len(handles) : /\ handles'[k].private_data = handles[k].private_data
                                         /\ k # h => handles'[k] = handles[k]
         /\ handles'[h].f_pos = p
<1>1. \A k \in 1 .. Len(handles) : handles[k] \in vfs_file
  BY ElementOfSeq DEF Opened
<1>2. handles' = [handles EXCEPT ![h] = [@ EXCEPT !.f_pos = p]]
  OBVIOUS
<1>3. [handles[h] EXCEPT !.f_pos = p] \in vfs_file
  BY <1>1 DEF vfs_file
<1>4. handles \in Seq(vfs_file)
  BY DEF Opened
<1>5. handles' \in Seq(vfs_file) /\ Len(handles') = Len(handles)
  BY <1>2, <1>3, <1>4, ExceptSeq
<1>6. \A k \in 1 .. Len(handles) :
        handles'[k] = IF k = h THEN [handles[h] EXCEPT !.f_pos = p] ELSE handles[k]
  BY <1>2, <1>3, <1>4, ExceptSeq
<1>7. \A k \in 1 .. Len(handles) : /\ handles'[k].private_data = handles[k].private_data
                                   /\ k # h => handles'[k] = handles[k]
  BY <1>1, <1>6 DEF vfs_file
<1>8. handles'[h].f_pos = p
  BY <1>1, <1>6 DEF vfs_file
<1>9. Opened'
  BY <1>5 DEF Opened
<1> QED
  BY <1>5, <1>7, <1>8, <1>9

--------------------------------------------------------------------------------
(* Calls on what is stored.                                                *)

LEMMA Cut ==
  ASSUME NEW t \in Seq(Byte)
  PROVE  SubSeq(t, 1, Len(t)) = t /\ SubSeq(t, 1, 0) = << >> /\ (Len(t) = 0 => t = << >>)
  BY SubSeqFull, SubSeqEmpty, EmptySeq

(* The texts after files were made, or unlinked, with their slots empty.   *)
LEMMA TextsCut ==
  ASSUME Stored, files' \in [Ram!Slot -> Ram!ramfs_file], CutToSize,
         \A s \in Ram!Slot : files'[s].size \in {files[s].size, 0}
  PROVE  /\ text' \in [Ram!Slot -> Seq(Byte)]
         /\ \A s \in Ram!Slot : /\ Len(text'[s]) = files'[s].size
                                /\ files'[s].size = files[s].size => text'[s] = text[s]
                                /\ files'[s].size = 0 => text'[s] = << >>
<1>1. ASSUME NEW s \in Ram!Slot
      PROVE  /\ text'[s] \in Seq(Byte)
             /\ Len(text'[s]) = files'[s].size
             /\ files'[s].size = files[s].size => text'[s] = text[s]
             /\ files'[s].size = 0 => text'[s] = << >>
  <2>1. text[s] \in Seq(Byte) /\ Len(text[s]) = files[s].size
    BY DEF Stored
  <2>2. text'[s] = SubSeq(text[s], 1, files'[s].size)
    BY DEF CutToSize
  <2>3. Len(<< >>) = 0 /\ << >> \in Seq(Byte)
    OBVIOUS
  <2>4. CASE files'[s].size = files[s].size
    BY <2>1, <2>2, <2>4, Cut
  <2>5. CASE files'[s].size = 0
    BY <2>1, <2>2, <2>3, <2>5, Cut
  <2> QED
    BY <2>4, <2>5
<1> QED
  BY <1>1 DEF CutToSize

(* A free slot gets an empty file, or is given back at once. *)
LEMMA SlotTaken ==
  ASSUME FsInv, NEW s \in Ram!Slot, ~files[s].used,
         NEW r \in Ram!ramfs_file, r.size = 0, r.used => Absolute(r.path),
         files' = [files EXCEPT ![s] = r], CutToSize, UNCHANGED <<node, root>>
  PROVE  /\ Stored' /\ EntriesAreFiles' /\ NamesAreBelowTmp'
         /\ \A t \in Ram!Slot : t # s => files'[t] = files[t] /\ text'[t] = text[t]
         /\ files'[s] = r /\ text'[s] = << >>
<1>1. \A t \in Ram!Slot : files'[t] = IF t = s THEN r ELSE files[t]
  BY DEF FsInv, Stored
<1>2. files' \in [Ram!Slot -> Ram!ramfs_file]
  BY DEF FsInv, Stored
<1>3. /\ text' \in [Ram!Slot -> Seq(Byte)]
      /\ \A t \in Ram!Slot : /\ Len(text'[t]) = files'[t].size
                             /\ files'[t].size = files[t].size => text'[t] = text[t]
                             /\ files'[t].size = 0 => text'[t] = << >>
  BY <1>1, <1>2, TextsCut DEF FsInv
<1>4. \A t \in Ram!Slot : t # s => files'[t] = files[t] /\ text'[t] = text[t]
  BY <1>1, <1>3
<1>5. files'[s] = r /\ text'[s] = << >>
  BY <1>1, <1>3
<1>6. Stored'
  BY <1>2, <1>3 DEF FsInv, Stored
<1>7. EntriesAreFiles'
  BY DEF FsInv, EntriesAreFiles
<1>8. NamesAreBelowTmp'
  BY <1>4, <1>5 DEF FsInv, NamesAreBelowTmp
<1> QED
  BY <1>4, <1>5, <1>6, <1>7, <1>8

(* Taken of RamFS, and what is left of it when the heap is full.           *)
LEMMA NewFile ==
  ASSUME NEW path \in FullPath, NEW u \in BOOLEAN
  PROVE  [path |-> path, written |-> {}, size |-> 0, used |-> u] \in Ram!ramfs_file
  BY Ranges DEF Ram!ramfs_file, FullPath

LEMMA OpenFile ==
  ASSUME FsInv, NEW path \in FullPath, vfs_open(path)
  PROVE  /\ FsInv' /\ Keeps /\ UNCHANGED <<files, text, node, root>>
         /\ \/ ret' = -1
            \/ /\ IsPrefix(TmpDir, path)
               /\ \E s \in Ram!Slot : Ram!FirstOf(s, Ram!Named(path)) /\ Gets(s)
            \/ ~IsPrefix(TmpDir, path) /\ Gets(AbyssFile(0))
<1>1. UNCHANGED <<files, text, node, root>>
  BY DEF vfs_open, Ram!vfs_open, abyssfs_open
<1>2. Stored' /\ EntriesAreFiles' /\ NamesAreBelowTmp'
  BY <1>1 DEF FsInv, Stored, EntriesAreFiles, NamesAreBelowTmp
<1>3. CASE IsPrefix(TmpDir, path) /\ Ram!ramfs_open(path)
  <2>1. CASE ret' = -1 /\ UNCHANGED <<handles, heap_pos, fd_table, next_fd>>
    BY <1>1, <1>2, <2>1, NothingAllocated DEF FsInv
  <2>2. CASE ~Ram!HeapFull /\ \E s \in Ram!Slot : Ram!FirstOf(s, Ram!Named(path)) /\ Ram!alloc_fd(s)
    BY <1>1, <1>2, <1>3, <2>2, HandleAllocated DEF FsInv, PrivateData
  <2> QED
    BY <1>3, <2>1, <2>2 DEF Ram!ramfs_open, Ram!Fails
<1>4. CASE ~IsPrefix(TmpDir, path) /\ abyssfs_open
  <2>1. CASE ret' = -1 /\ UNCHANGED <<handles, heap_pos, fd_table, next_fd>>
    BY <1>1, <1>2, <2>1, NothingAllocated DEF FsInv
  <2>2. CASE ~Ram!HeapFull /\ Ram!alloc_fd(AbyssFile(0))
    <3>1. AbyssFile(0) \in PrivateData
      BY ShellAssumption DEF PrivateData, Inode
    <3> QED
      BY <1>1, <1>2, <1>4, <2>2, <3>1, HandleAllocated DEF FsInv
  <2> QED
    BY <1>4, <2>1, <2>2 DEF abyssfs_open, Ram!Fails
<1> QED
  BY <1>3, <1>4 DEF vfs_open, Ram!vfs_open

(* No entry of the root of AbyssFS goes, and no file in it is changed.      *)
RootKept == \A k \in DOMAIN root : /\ \E l \in DOMAIN root' : root'[l] = root[k]
                                   /\ node'[root[k].inode] = node[root[k].inode]

(* No entry goes but the first of that name, and no file but its own.      *)
RootUnlinks(name) ==
  \A k \in DOMAIN root :
    \/ /\ \E l \in DOMAIN root' : root'[l] = root[k]
       /\ node'[root[k].inode] = node[root[k].inode]
    \/ /\ root[k].name = name
       /\ \A j \in 1 .. (k - 1) : root[j].name # name

(* abyssfs_create, up to the handle. *)
LEMMA InodeTaken ==
  ASSUME FsInv, NEW path \in Seq(Token), abyssfs_create(path)
  PROVE  /\ FsInv' /\ Keeps /\ RootKept /\ UNCHANGED <<files, text>>
         /\ \/ ret' = -1
            \/ \E i \in Inode \ {0} :
                 /\ Gets(AbyssFile(i))
                 /\ node'[i].size = 0 /\ node'[i].bytes = << >>
                 /\ \E k \in DOMAIN root' :
                      root'[k] = [name |-> get_basename(path), inode |-> i]
<1>1. UNCHANGED <<files, text>>
  BY DEF abyssfs_create
<1>2. NamesAreBelowTmp'
  BY <1>1 DEF FsInv, NamesAreBelowTmp
<1>3. CASE ret' = -1 /\ UNCHANGED <<node, root, handles, heap_pos, fd_table, next_fd>>
  BY <1>1, <1>2, <1>3, NothingAllocated DEF FsInv, Stored, EntriesAreFiles, RootKept
<1>4. ASSUME NEW i \in Inode, Ram!FirstOf(i, FreeInodes),
             node' = [node EXCEPT ![i] = [used |-> TRUE, size |-> 0, bytes |-> << >>]],
             \/ root' = root
             \/ root' = Append(root, [name |-> get_basename(path), inode |-> i])
      PROVE  /\ Stored' /\ EntriesAreFiles' /\ RootKept /\ i # 0
             /\ node'[i].size = 0 /\ node'[i].bytes = << >>
             /\ root' = Append(root, [name |-> get_basename(path), inode |-> i]) =>
                  \E k \in DOMAIN root' :
                    root'[k] = [name |-> get_basename(path), inode |-> i]
  <2>1. i # 0 /\ ~node[i].used
    BY <1>4 DEF Ram!FirstOf, FreeInodes
  <2>2. node \in [Inode -> [used : BOOLEAN, size : Nat, bytes : Seq(Byte)]]
    BY DEF FsInv, Stored
  <2>3. [used |-> TRUE, size |-> 0, bytes |-> << >>] \in [used : BOOLEAN, size : Nat, bytes : Seq(Byte)]
    OBVIOUS
  <2>4. node' \in [Inode -> [used : BOOLEAN, size : Nat, bytes : Seq(Byte)]]
    BY <1>4, <2>2, <2>3
  <2>5. \A j \in Inode : node'[j] = IF j = i THEN [used |-> TRUE, size |-> 0, bytes |-> << >>]
                                    ELSE node[j]
    BY <1>4, <2>2
  <2> DEFINE E == [name : Seq(Token), inode : Inode]
             e == [name |-> get_basename(path), inode |-> i]
  <2>6. root \in Seq(E) /\ e \in E /\ Len(root) \in Nat /\ DOMAIN root = 1 .. Len(root)
    BY BasenameTyped DEF FsInv, Stored
  <2>7. \A k \in 1 .. Len(root) : root[k].inode \in Inode /\ root[k].inode # i
    <3>1. \A k \in 1 .. Len(root) : root[k] \in E
      BY <2>6, ElementOfSeq
    <3>2. \A k \in 1 .. Len(root) : node[root[k].inode].used
      BY <2>6 DEF FsInv, EntriesAreFiles
    <3> QED
      BY <2>1, <3>1, <3>2
  <2>8. node'[0] = node[0]
    BY <2>1, <2>5, ShellAssumption DEF Inode
  <2>9. CASE root' = root
    <3>1. Stored'
      BY <1>1, <2>4, <2>9 DEF FsInv, Stored
    <3>2. EntriesAreFiles'
      BY <2>5, <2>6, <2>7, <2>8, <2>9 DEF FsInv, EntriesAreFiles
    <3>3. RootKept
      BY <2>5, <2>6, <2>7, <2>9 DEF RootKept
    <3>4. root' # Append(root, e)
      <4>1. Len(Append(root, e)) # Len(root)
        <5> HIDE DEF E, e
        <5>1. Len(Append(root, e)) = Len(root) + 1
          BY <2>6, AppendProperties
        <5>2. \A n \in Nat : n + 1 # n
          OBVIOUS
        <5> QED
          BY <2>6, <5>1, <5>2, Zenon
      <4> QED
        BY <2>9, <4>1
    <3> QED
      BY <2>1, <2>5, <3>1, <3>2, <3>3, <3>4
  <2>10. CASE root' = Append(root, e)
    <3>1. /\ root' \in Seq(E) /\ Len(root') = Len(root) + 1
          /\ \A k \in 1 .. Len(root) : root'[k] = root[k]
          /\ root'[Len(root) + 1] = e
      <4> HIDE DEF E, e
      <4> QED
        BY <2>6, <2>10, AppendProperties
    <3>2. DOMAIN root' = 1 .. Len(root) + 1
      BY <3>1
    <3>3. Stored'
      BY <1>1, <2>4, <3>1 DEF FsInv, Stored
    <3>4. root'[Len(root) + 1].inode = i
      BY <3>1
    <3>5. ASSUME NEW k \in DOMAIN root'
          PROVE  /\ node'[root'[k].inode].used
                 /\ \A l \in DOMAIN root' : root'[k].inode = root'[l].inode => k = l
      <4>1. \A l \in 1 .. Len(root) : root'[l].inode # i /\ root'[l].inode \in Inode
        BY <2>7, <3>1
      <4>2. \A l \in DOMAIN root' : l \in 1 .. Len(root) \/ l = Len(root) + 1
        BY <2>6, <3>2
      <4>3. CASE k = Len(root) + 1
        BY <2>5, <3>4, <4>1, <4>2, <4>3
      <4>4. CASE k \in 1 .. Len(root)
        <5>1. node[root[k].inode].used /\ \A l \in 1 .. Len(root) :
                root[k].inode = root[l].inode => k = l
          BY <2>6, <4>4 DEF FsInv, EntriesAreFiles
        <5>2. node'[root'[k].inode].used
          BY <2>5, <2>7, <3>1, <4>4, <5>1
        <5> QED
          BY <3>1, <3>4, <4>1, <4>2, <4>4, <5>1, <5>2
      <4> QED
        BY <4>2, <4>3, <4>4
    <3>6. EntriesAreFiles'
      BY <2>8, <3>5 DEF FsInv, EntriesAreFiles
    <3>7. RootKept
      BY <2>5, <2>6, <2>7, <3>1, <3>2 DEF RootKept
    <3>8. \E k \in DOMAIN root' : root'[k] = e
      <4> HIDE DEF e
      <4>1. Len(root) + 1 \in DOMAIN root'
        BY <2>6, <3>2
      <4> QED
        BY <3>1, <4>1
    <3> QED
      BY <2>1, <2>5, <3>3, <3>6, <3>7, <3>8
  <2> QED
    BY <1>4, <2>9, <2>10
<1>5. ASSUME NEW i \in Inode, Ram!FirstOf(i, FreeInodes),
             node' = [node EXCEPT ![i] = [used |-> TRUE, size |-> 0, bytes |-> << >>]],
             \/ /\ ret' = -1
                /\ root' = root
                /\ UNCHANGED <<handles, heap_pos, fd_table, next_fd>>
             \/ /\ root' = Append(root, [name |-> get_basename(path), inode |-> i])
                /\ \/ ~Ram!HeapFull /\ Ram!alloc_fd(AbyssFile(i))
                   \/ ret' = -1 /\ UNCHANGED <<handles, heap_pos, fd_table, next_fd>>
      PROVE  /\ FsInv' /\ Keeps /\ RootKept
             /\ \/ ret' = -1
                \/ /\ i # 0 /\ Gets(AbyssFile(i))
                   /\ node'[i].size = 0 /\ node'[i].bytes = << >>
                   /\ \E k \in DOMAIN root' :
                        root'[k] = [name |-> get_basename(path), inode |-> i]
  <2>1. /\ Stored' /\ EntriesAreFiles' /\ RootKept /\ i # 0
        /\ node'[i].size = 0 /\ node'[i].bytes = << >>
        /\ root' = Append(root, [name |-> get_basename(path), inode |-> i]) =>
             \E k \in DOMAIN root' : root'[k] = [name |-> get_basename(path), inode |-> i]
    BY <1>4, <1>5, Zenon
  <2>2. AbyssFile(i) \in PrivateData
    BY DEF PrivateData
  <2>3. Opened
    BY DEF FsInv
  <2>4. Opened' /\ Keeps /\ (ret' = -1 \/ Gets(AbyssFile(i)))
    BY <1>5, <2>2, <2>3, HandleAllocated, NothingAllocated, Zenon
  <2>5. FsInv'
    BY <1>2, <2>1, <2>4 DEF FsInv
  <2> QED
    BY <1>5, <2>1, <2>4, <2>5, Zenon
<1> QED
  BY <1>1, <1>3, <1>5, Zenon DEF abyssfs_create, Ram!Fails

LEMMA CreateFile ==
  ASSUME FsInv, cwd \in FullPath, NEW path \in FullPath, vfs_create(path)
  PROVE  /\ FsInv' /\ Keeps /\ RootKept
         /\ \A t \in Ram!Slot : files[t].used => files'[t] = files[t] /\ text'[t] = text[t]
         /\ \/ ret' = -1
            \/ \E s \in Ram!Slot :
                 /\ Gets(s)
                 /\ ~files[s].used /\ files'[s].used
                 /\ files'[s].path = StoredName(Full(path))
                 /\ text'[s] = << >>
                 /\ \A t \in Ram!Slot : t # s => files'[t] = files[t]
            \/ \E i \in Inode \ {0} :
                 /\ Gets(AbyssFile(i))
                 /\ node'[i].size = 0 /\ node'[i].bytes = << >>
                 /\ files' = files
                 /\ \E k \in DOMAIN root' :
                      root'[k] = [name |-> get_basename(Full(path)), inode |-> i]
<1>1. Full(path) \in FullPath /\ Full(path) \in Seq(Token)
  BY FullTyped DEF FullPath
<1> DEFINE name == StoredName(Full(path))
<1>2. name \in FullPath /\ name \in Seq(Token) /\ Absolute(name)
  BY <1>1, StoredNameTyped, PrefixAbsolute DEF FullPath
<1>3. CASE abyssfs_create(Full(path))
  <2> PICK full : full = Full(path)
    OBVIOUS
  <2>1. /\ FsInv' /\ Keeps /\ RootKept /\ UNCHANGED <<files, text>>
        /\ \/ ret' = -1
           \/ \E i \in Inode \ {0} :
                /\ Gets(AbyssFile(i))
                /\ node'[i].size = 0 /\ node'[i].bytes = << >>
                /\ \E k \in DOMAIN root' :
                     root'[k] = [name |-> get_basename(full), inode |-> i]
    <3>1. full \in Seq(Token) /\ abyssfs_create(full)
      BY <1>1, <1>3
    <3> QED
      BY <3>1, InodeTaken
  <2> QED
    BY <2>1
<1>4. CASE Ram!ramfs_create(name) /\ CutToSize /\ UNCHANGED <<node, root>>
  <2> RootKept
    BY <1>4 DEF RootKept
  <2> HIDE DEF name
  <2>1. CASE ret' = -1 /\ UNCHANGED <<files, handles, heap_pos, fd_table, next_fd>>
    <3>1. /\ text' \in [Ram!Slot -> Seq(Byte)]
          /\ \A t \in Ram!Slot : Len(text'[t]) = files'[t].size /\ text'[t] = text[t]
      <4>1. files' \in [Ram!Slot -> Ram!ramfs_file]
        BY <2>1 DEF FsInv, Stored
      <4> QED
        BY <1>4, <2>1, <4>1, TextsCut DEF FsInv
    <3>2. Opened' /\ Keeps
      BY <2>1, NothingAllocated DEF FsInv
    <3>3. Stored' /\ EntriesAreFiles' /\ NamesAreBelowTmp'
      BY <1>4, <2>1, <3>1 DEF FsInv, Stored, EntriesAreFiles, NamesAreBelowTmp
    <3> QED
      BY <2>1, <3>1, <3>2, <3>3 DEF FsInv
  <2>2. ASSUME NEW s \in Ram!Slot, Ram!FirstOf(s, Ram!Free)
        PROVE  ~files[s].used
    BY <2>2 DEF Ram!FirstOf, Ram!Free
  <2>3. ASSUME NEW s \in Ram!Slot, Ram!FirstOf(s, Ram!Free),
               ~Ram!HeapFull, files' = Ram!Taken(s, name), Ram!alloc_fd(s)
        PROVE  /\ FsInv' /\ Keeps /\ (ret' = -1 \/ Gets(s))
               /\ ~files[s].used /\ files'[s].used /\ files'[s].path = name /\ text'[s] = << >>
               /\ \A t \in Ram!Slot : t # s => files'[t] = files[t] /\ text'[t] = text[t]
    <3> DEFINE r == [path |-> name, written |-> {}, size |-> 0, used |-> TRUE]
    <3>1. r \in Ram!ramfs_file /\ r.size = 0 /\ r.path = name /\ r.used
      BY <1>2, NewFile
    <3>2. files' = [files EXCEPT ![s] = r]
      BY <2>3 DEF Ram!Taken
    <3> HIDE DEF r
    <3>3. /\ Stored' /\ EntriesAreFiles' /\ NamesAreBelowTmp'
          /\ \A t \in Ram!Slot : t # s => files'[t] = files[t] /\ text'[t] = text[t]
          /\ files'[s] = r /\ text'[s] = << >>
      BY <1>2, <1>4, <2>2, <2>3, <3>1, <3>2, SlotTaken
    <3>4. s \in PrivateData /\ Opened
      BY DEF PrivateData, FsInv
    <3>5. Opened' /\ Keeps /\ (ret' = -1 \/ Gets(s))
      BY <2>3, <3>4, HandleAllocated
    <3> QED
      BY <2>2, <2>3, <3>1, <3>3, <3>5 DEF FsInv
  <2>4. ASSUME NEW s \in Ram!Slot, Ram!FirstOf(s, Ram!Free), ret' = -1,
               files' = [Ram!Taken(s, name) EXCEPT ![s].used = FALSE],
               UNCHANGED <<handles, heap_pos, fd_table, next_fd>>
        PROVE  /\ FsInv' /\ Keeps
               /\ \A t \in Ram!Slot : files[t].used => files'[t] = files[t] /\ text'[t] = text[t]
    <3> DEFINE r == [path |-> name, written |-> {}, size |-> 0, used |-> FALSE]
    <3>1. r \in Ram!ramfs_file /\ r.size = 0 /\ ~r.used
      BY <1>2, NewFile
    <3>2. files' = [files EXCEPT ![s] = r]
      BY <2>4 DEF Ram!Taken, FsInv, Stored
    <3> HIDE DEF r
    <3>3. /\ Stored' /\ EntriesAreFiles' /\ NamesAreBelowTmp'
          /\ \A t \in Ram!Slot : t # s => files'[t] = files[t] /\ text'[t] = text[t]
      BY <1>4, <2>2, <2>4, <3>1, <3>2, SlotTaken
    <3>4. Opened' /\ Keeps
      BY <2>4, NothingAllocated DEF FsInv
    <3> QED
      BY <2>2, <2>4, <3>3, <3>4 DEF FsInv
  <2>5. \/ ret' = -1 /\ UNCHANGED <<files, handles, heap_pos, fd_table, next_fd>>
        \/ \E s \in Ram!Slot :
             /\ Ram!FirstOf(s, Ram!Free)
             /\ \/ ~Ram!HeapFull /\ files' = Ram!Taken(s, name) /\ Ram!alloc_fd(s)
                \/ /\ files' = [Ram!Taken(s, name) EXCEPT ![s].used = FALSE]
                   /\ ret' = -1
                   /\ UNCHANGED <<handles, heap_pos, fd_table, next_fd>>
    BY <1>4, Zenon DEF Ram!ramfs_create, Ram!Fails
  <2>6. CASE \E s \in Ram!Slot : /\ Ram!FirstOf(s, Ram!Free)
                                 /\ ~Ram!HeapFull /\ files' = Ram!Taken(s, name) /\ Ram!alloc_fd(s)
    <3>1. PICK s \in Ram!Slot : /\ Ram!FirstOf(s, Ram!Free)
                                /\ ~Ram!HeapFull /\ files' = Ram!Taken(s, name) /\ Ram!alloc_fd(s)
      BY <2>6
    <3>2. /\ FsInv' /\ Keeps /\ (ret' = -1 \/ Gets(s))
          /\ ~files[s].used /\ files'[s].used /\ files'[s].path = name /\ text'[s] = << >>
          /\ \A t \in Ram!Slot : t # s => files'[t] = files[t] /\ text'[t] = text[t]
      BY <2>3, <3>1
    <3> QED
      BY <3>2 DEF name
  <2> QED
    BY <2>1, <2>4, <2>5, <2>6, Zenon
<1> QED
  BY <1>3, <1>4 DEF vfs_create, Ram!vfs_create

(* ramfs_create_file with a text: a slot that was free, or none. *)
LEMMA TextFile ==
  ASSUME FsInv, NEW t \in Texts, Ram!ramfs_create_file(TestFile, Len(t)),
         text' = [s \in Ram!Slot |->
           IF files'[s].used /\ ~files[s].used THEN SubSeq(t, 1, files'[s].size) ELSE text[s]],
         UNCHANGED <<node, root>>
  PROVE  /\ FsInv' /\ UNCHANGED <<handles, fd_table, next_fd>>
         /\ \A s \in Ram!Slot : files[s].used => files'[s] = files[s] /\ text'[s] = text[s]
<1>1. Opened' /\ UNCHANGED <<handles, fd_table, next_fd>>
  BY NothingAllocated DEF FsInv, Ram!ramfs_create_file
<1>2. EntriesAreFiles'
  BY DEF FsInv, EntriesAreFiles
<1>3. t \in Seq(Byte) /\ Len(t) \in Nat /\ \A i \in 1 .. Len(t) : t[i] \in Byte
  <2>1. t \in Seq(Byte)
    BY ShellAssumption, Zenon DEF Byte
  <2> QED
    BY <2>1
<1>4. CASE UNCHANGED files
  <2>1. \A s \in Ram!Slot : text'[s] = text[s]
    BY <1>4
  <2>2. Stored'
    BY <1>4, <2>1 DEF FsInv, Stored
  <2>3. NamesAreBelowTmp'
    BY <1>4, <2>1 DEF FsInv, NamesAreBelowTmp
  <2> QED
    BY <1>1, <1>2, <1>4, <2>1, <2>2, <2>3 DEF FsInv
<1>5. ASSUME NEW s \in Ram!Slot, Ram!FirstOf(s, Ram!Free),
             NEW c, c = Ram!Least(Len(t), MAX_CONTENT - 1),
             files' = [Ram!Taken(s, TestFile) EXCEPT ![s].size = c, ![s].written = 0 .. c]
      PROVE  /\ FsInv'
             /\ \A u \in Ram!Slot : files[u].used => files'[u] = files[u] /\ text'[u] = text[u]
  <2> DEFINE q == [path |-> TestFile, written |-> {}, size |-> 0, used |-> TRUE]
             r == [q EXCEPT !.size = c, !.written = 0 .. c]
  <2>1. c \in 0 .. Len(t) /\ c \in 0 .. (MAX_CONTENT - 1) /\ c \in 0 .. MAX_CONTENT
    BY <1>3, <1>5, Ranges DEF Ram!Least
  <2>2. TestFile \in FullPath /\ IsPrefix(TmpDir, TestFile) /\ Absolute(TestFile)
    BY ShellAssumption, PrefixAbsolute DEF FullPath, Absolute
  <2>3. 0 .. c \in SUBSET Ram!Pos
    BY <2>1, Ranges DEF Ram!Pos
  <2>4. r \in Ram!ramfs_file /\ r.used /\ r.size = c /\ r.path = TestFile
    <3> DEFINE P == (Seq(Token) \ {<< >>}) \cup {<< >>}
               W == SUBSET Ram!Pos
               Z == 0 .. MAX_CONTENT
               C == 0 .. c
    <3>1. Ram!ramfs_file = [path : P, written : W, size : Z, used : BOOLEAN]
      BY DEF Ram!ramfs_file
    <3>2. q \in Ram!ramfs_file /\ q.used /\ q.path = TestFile
      BY <2>2, NewFile
    <3>3. C \in W /\ c \in Z
      BY <2>1, <2>3
    <3> HIDE DEF P, W, Z, C, q
    <3> QED
      BY <3>1, <3>2, <3>3 DEF C
  <2>5. files \in [Ram!Slot -> Ram!ramfs_file] /\ text \in [Ram!Slot -> Seq(Byte)]
    BY DEF FsInv, Stored
  <2>6. files' = [files EXCEPT ![s] = r]
    <3> DEFINE F == [files EXCEPT ![s] = q]
    <3>1. F[s] = q
      BY <2>5
    <3>2. files' = [F EXCEPT ![s] = [@ EXCEPT !.size = c, !.written = 0 .. c]]
      BY <1>5 DEF Ram!Taken
    <3>3. files' = [F EXCEPT ![s] = r]
      BY <3>1, <3>2
    <3> HIDE DEF q, r
    <3> QED
      BY <2>5, <3>3
  <2>7. ~files[s].used
    BY <1>5 DEF Ram!FirstOf, Ram!Free
  <2> HIDE DEF r
  <2>9. files' \in [Ram!Slot -> Ram!ramfs_file]
    BY <2>4, <2>5, <2>6
  <2>10. \A u \in Ram!Slot : files'[u] = IF u = s THEN r ELSE files[u]
    BY <2>5, <2>6
  <2>11. \A u \in Ram!Slot : text'[u] = IF u = s THEN SubSeq(t, 1, c) ELSE text[u]
    BY <2>7, <2>4, <2>10
  <2>12. SubSeq(t, 1, c) \in Seq(Byte) /\ Len(SubSeq(t, 1, c)) = c
    <3>1. \A i \in 1 .. c : t[i] \in Byte
      BY <1>3, <2>1
    <3> QED
      BY <2>1, <3>1, SubSeqProperties
  <2>13. text' \in [Ram!Slot -> Seq(Byte)]
    BY <2>5, <2>11, <2>12
  <2>14. Stored'
    BY <2>4, <2>9, <2>10, <2>11, <2>12, <2>13 DEF FsInv, Stored
  <2>15. NamesAreBelowTmp'
    BY <2>2, <2>4, <2>10, <2>11 DEF FsInv, NamesAreBelowTmp
  <2> QED
    BY <1>1, <1>2, <2>7, <2>10, <2>11, <2>14, <2>15 DEF FsInv
<1> QED
  BY <1>1, <1>4, <1>5 DEF Ram!ramfs_create_file

LEMMA MakeDirectory ==
  ASSUME FsInv, cwd \in FullPath, NEW path \in FullPath, vfs_mkdir(path)
  PROVE  /\ FsInv' /\ UNCHANGED <<handles, fd_table, next_fd>>
         /\ \A s \in Ram!Slot : files[s].used => files'[s] = files[s] /\ text'[s] = text[s]
<1> DEFINE name == Full(path)
           r == [path |-> name, written |-> {}, size |-> 0, used |-> TRUE]
<1>1. name \in FullPath /\ name \in Seq(Token)
  BY FullTyped DEF FullPath
<1>2. IsPrefix(Tmp, name)
  BY DEF vfs_mkdir, find_mount
<1>3. Absolute(name)
  BY <1>1, <1>2, PrefixAbsolute
<1>4. Opened' /\ UNCHANGED <<handles, fd_table, next_fd>>
  BY NothingAllocated DEF FsInv, vfs_mkdir, Ram!vfs_mkdir
<1>5. CutToSize /\ UNCHANGED <<node, root>>
  BY DEF vfs_mkdir
<1> HIDE DEF name
<1>6. CASE UNCHANGED files
  <2>1. files' \in [Ram!Slot -> Ram!ramfs_file]
    BY <1>6 DEF FsInv, Stored
  <2>2. /\ text' \in [Ram!Slot -> Seq(Byte)]
        /\ \A t \in Ram!Slot : Len(text'[t]) = files'[t].size /\ text'[t] = text[t]
    BY <1>5, <1>6, <2>1, TextsCut DEF FsInv
  <2>3. Stored' /\ EntriesAreFiles' /\ NamesAreBelowTmp'
    BY <1>5, <1>6, <2>2 DEF FsInv, Stored, EntriesAreFiles, NamesAreBelowTmp
  <2> QED
    BY <1>4, <1>6, <2>2, <2>3 DEF FsInv
<1>7. ASSUME NEW s \in Ram!Slot, Ram!FirstOf(s, Ram!Free), files' = Ram!Taken(s, name)
      PROVE  /\ FsInv'
             /\ \A t \in Ram!Slot : files[t].used => files'[t] = files[t] /\ text'[t] = text[t]
  <2>1. r \in Ram!ramfs_file /\ r.size = 0 /\ r.path = name
    BY <1>1, NewFile
  <2>2. files' = [files EXCEPT ![s] = r] /\ ~files[s].used
    BY <1>7 DEF Ram!Taken, Ram!FirstOf, Ram!Free
  <2> HIDE DEF r
  <2>3. /\ Stored' /\ EntriesAreFiles' /\ NamesAreBelowTmp'
        /\ \A t \in Ram!Slot : t # s => files'[t] = files[t] /\ text'[t] = text[t]
    BY <1>3, <1>5, <2>1, <2>2, SlotTaken
  <2> QED
    BY <1>4, <2>2, <2>3 DEF FsInv
<1>8. \/ UNCHANGED files
      \/ \E s \in Ram!Slot : Ram!FirstOf(s, Ram!Free) /\ files' = Ram!Taken(s, name)
  BY DEF vfs_mkdir, Ram!vfs_mkdir, Ram!ramfs_mkdir, name
<1> QED
  BY <1>4, <1>6, <1>7, <1>8

LEMMA Removed ==
  ASSUME NEW E, NEW seq \in Seq(E), NEW k \in 1 .. Len(seq)
  PROVE  /\ RemoveAt(seq, k) \in Seq(E)
         /\ Len(RemoveAt(seq, k)) = Len(seq) - 1
         /\ \A j \in 1 .. Len(seq) - 1 :
              RemoveAt(seq, k)[j] = IF j < k THEN seq[j] ELSE seq[j + 1]
<1>1. Len(seq) \in Nat /\ k \in Nat /\ \A i \in 1 .. Len(seq) : seq[i] \in E
  OBVIOUS
<1> DEFINE a == SubSeq(seq, 1, k - 1)
           b == SubSeq(seq, k + 1, Len(seq))
<1>2. a \in Seq(E) /\ Len(a) = k - 1 /\ \A i \in 1 .. k - 1 : a[i] = seq[i]
  <2>1. \A i \in 1 .. k - 1 : seq[i] \in E
    BY <1>1
  <2> QED
    BY <1>1, <2>1, SubSeqProperties
<1>3. b \in Seq(E) /\ Len(b) = Len(seq) - k /\ \A i \in 1 .. Len(seq) - k : b[i] = seq[k + i]
  <2>1. \A i \in k + 1 .. Len(seq) : seq[i] \in E
    BY <1>1
  <2> QED
    BY <1>1, <2>1, SubSeqProperties
<1> HIDE DEF a, b
<1>4. /\ a \o b \in Seq(E)
      /\ Len(a \o b) = Len(a) + Len(b)
      /\ \A i \in 1 .. Len(a) + Len(b) :
           (a \o b)[i] = IF i <= Len(a) THEN a[i] ELSE b[i - Len(a)]
  BY <1>2, <1>3, ConcatProperties
<1>5. ASSUME NEW j \in 1 .. Len(seq) - 1
      PROVE  (a \o b)[j] = IF j < k THEN seq[j] ELSE seq[j + 1]
  <2>1. (a \o b)[j] = IF j <= k - 1 THEN a[j] ELSE b[j - (k - 1)]
    BY <1>1, <1>2, <1>3, <1>4
  <2>2. CASE j < k
    <3>1. j \in 1 .. k - 1
      BY <1>1, <2>2
    <3> QED
      BY <1>1, <1>2, <2>1, <2>2, <3>1
  <2>3. CASE ~ (j < k)
    <3>1. j - (k - 1) \in 1 .. Len(seq) - k /\ k + (j - (k - 1)) = j + 1
      BY <1>1, <2>3
    <3> QED
      BY <1>1, <1>3, <2>1, <2>3, <3>1
  <2> QED
    BY <2>2, <2>3
<1>6. Len(a \o b) = Len(seq) - 1
  BY <1>1, <1>2, <1>3, <1>4
<1> QED
  BY <1>4, <1>5, <1>6 DEF RemoveAt, a, b

(* abyssfs_unlink: an entry goes, and its inode with it. *)
LEMMA EntryRemoved ==
  ASSUME FsInv, NEW path, abyssfs_unlink(path)
  PROVE  /\ FsInv' /\ RootUnlinks(Unslashed(path))
         /\ UNCHANGED <<files, text, handles, fd_table, next_fd>>
<1>1. Opened' /\ NamesAreBelowTmp' /\ UNCHANGED <<files, text, handles, fd_table, next_fd>>
  BY NothingAllocated DEF FsInv, NamesAreBelowTmp, abyssfs_unlink
<1>2. CASE UNCHANGED <<node, root>>
  BY <1>1, <1>2 DEF FsInv, Stored, EntriesAreFiles, RootUnlinks
<1> DEFINE E == [name : Seq(Token), inode : Inode]
           F == [used : BOOLEAN, size : Nat, bytes : Seq(Byte)]
           free == [used |-> FALSE, size |-> 0, bytes |-> << >>]
<1> PICK name : name = Unslashed(path)
  OBVIOUS
<1>3. ASSUME NEW k \in DOMAIN root,
             node' = [node EXCEPT ![root[k].inode] = free], root' = RemoveAt(root, k),
             Ram!FirstOf(k, Entries(name))
      PROVE  FsInv' /\ RootUnlinks(name)
  <2>1. root \in Seq(E) /\ Len(root) \in Nat /\ k \in 1 .. Len(root) /\ DOMAIN root = 1 .. Len(root)
    BY DEF FsInv, Stored
  <2>2. /\ root' \in Seq(E) /\ Len(root') = Len(root) - 1
        /\ \A j \in 1 .. Len(root) - 1 : root'[j] = IF j < k THEN root[j] ELSE root[j + 1]
    <3> HIDE DEF E
    <3> QED
      BY <1>3, <2>1, Removed
  <2>3. node \in [Inode -> F] /\ free \in F
    BY DEF FsInv, Stored
  <2>4. \A i \in 1 .. Len(root) : root[i].inode \in Inode
    <3>1. \A i \in 1 .. Len(root) : root[i] \in E
      BY <2>1, ElementOfSeq
    <3> QED
      BY <3>1
  <2>5. node' \in [Inode -> F] /\ \A i \in Inode : i # root[k].inode => node'[i] = node[i]
    <3> HIDE DEF F, free
    <3> QED
      BY <1>3, <2>1, <2>3, <2>4
  <2>6. Stored'
    BY <1>1, <2>2, <2>5 DEF FsInv, Stored
  <2>7. root[k].inode # 0
    BY <2>1 DEF FsInv, EntriesAreFiles
  <2>8. node'[0] = node[0]
    BY <2>5, <2>7, ShellAssumption DEF Inode
  <2>9. \A i, j \in 1 .. Len(root) : /\ node[root[i].inode].used
                                     /\ root[i].inode = root[j].inode => i = j
    BY <2>1 DEF FsInv, EntriesAreFiles
  <2> DEFINE old(j) == IF j < k THEN j ELSE j + 1
  <2>10. ASSUME NEW i \in 1 .. Len(root) - 1
         PROVE  /\ old(i) \in 1 .. Len(root) /\ old(i) # k /\ root'[i] = root[old(i)]
                /\ \A j \in 1 .. Len(root) - 1 : old(i) = old(j) => i = j
    <3>1. Len(root) \in Nat /\ k \in Nat /\ i \in Nat
      BY <2>1
    <3>2. root'[i] = root[old(i)]
      BY <2>2
    <3>3. old(i) \in 1 .. Len(root) /\ old(i) # k
      BY <2>1, <3>1
    <3>4. \A j \in 1 .. Len(root) - 1 : old(i) = old(j) => i = j
      BY <2>1, <3>1
    <3> QED
      BY <3>2, <3>3, <3>4
  <2> HIDE DEF old
  <2>11. ASSUME NEW i \in 1 .. Len(root) - 1
         PROVE  /\ node'[root'[i].inode].used
                /\ \A j \in 1 .. Len(root) - 1 : root'[i].inode = root'[j].inode => i = j
    <3>1. root'[i].inode # root[k].inode /\ root'[i].inode \in Inode
      BY <2>1, <2>4, <2>9, <2>10
    <3>2. node'[root'[i].inode] = node[root'[i].inode]
      BY <2>5, <3>1
    <3>3. node'[root'[i].inode].used
      BY <2>9, <2>10, <3>2
    <3> QED
      BY <2>9, <2>10, <3>3
  <2>12. DOMAIN root' = 1 .. Len(root) - 1
    BY <2>2
  <2>13. EntriesAreFiles'
    BY <2>8, <2>11, <2>12 DEF FsInv, EntriesAreFiles
  <2>14. ASSUME NEW j \in 1 .. Len(root), j # k
         PROVE  /\ \E l \in DOMAIN root' : root'[l] = root[j]
                /\ node'[root[j].inode] = node[root[j].inode]
    <3>1. root[j].inode # root[k].inode /\ root[j].inode \in Inode
      BY <2>1, <2>4, <2>9, <2>14
    <3>2. node'[root[j].inode] = node[root[j].inode]
      BY <2>5, <3>1
    <3>3. CASE j < k
      <4>1. j \in 1 .. Len(root) - 1
        BY <2>1, <3>3
      <4> QED
        BY <2>2, <2>12, <3>2, <3>3, <4>1
    <3>4. CASE ~ (j < k)
      <4>1. /\ j - 1 \in 1 .. Len(root) - 1 /\ ~ (j - 1 < k) /\ (j - 1) + 1 = j
        BY <2>1, <2>14, <3>4
      <4>2. root'[j - 1] = root[j]
        BY <2>2, <4>1
      <4> QED
        BY <2>12, <3>2, <4>1, <4>2
    <3> QED
      BY <3>3, <3>4
  <2>15. root[k].name = name /\ \A j \in 1 .. (k - 1) : root[j].name # name
    <3>1. \A j \in 1 .. (k - 1) : j \in DOMAIN root /\ j \in Int /\ k \in Int /\ ~ (k <= j)
      BY <2>1
    <3> QED
      BY <1>3, <3>1 DEF Entries, Ram!FirstOf
  <2>16. RootUnlinks(name)
    BY <2>1, <2>14, <2>15 DEF RootUnlinks
  <2> QED
    BY <1>1, <2>6, <2>13, <2>16 DEF FsInv
<1>4. \/ UNCHANGED <<node, root>>
      \/ \E k \in DOMAIN root : /\ node' = [node EXCEPT ![root[k].inode] = free]
                                /\ root' = RemoveAt(root, k)
                                /\ Ram!FirstOf(k, Entries(name))
  BY DEF abyssfs_unlink, Entries
<1> QED
  BY <1>1, <1>2, <1>3, <1>4

LEMMA UnlinkFile ==
  ASSUME FsInv, cwd \in FullPath, NEW path \in FullPath, vfs_unlink(path)
  PROVE  /\ FsInv' /\ UNCHANGED <<handles, fd_table, next_fd>>
         /\ RootUnlinks(Unslashed(path))
         /\ \/ UNCHANGED <<files, text>>
            \/ /\ node' = node /\ Full(path) = path
               /\ IsPrefix(Tmp, path)
               /\ \E s \in Ram!Slot :
                    /\ Ram!FirstOf(s, Ram!Named(path))
                    /\ ~files'[s].used
                    /\ \A t \in Ram!Slot : t # s => files'[t] = files[t] /\ text'[t] = text[t]
<1>1. CASE abyssfs_unlink(path)
  BY <1>1, EntryRemoved
<1>2. CASE /\ find_mount(Full(path)) = "ramfs" /\ Ram!ramfs_unlink(path)
           /\ UNCHANGED <<handles, heap_pos, fd_table, next_fd>>
           /\ CutToSize /\ UNCHANGED <<node, root>>
  <2> RootUnlinks(Unslashed(path))
    BY <1>2 DEF RootUnlinks
  <2>1. Opened' /\ UNCHANGED <<handles, fd_table, next_fd>>
    BY <1>2, NothingAllocated DEF FsInv
  <2>2. CASE UNCHANGED files
    <3>1. files' \in [Ram!Slot -> Ram!ramfs_file]
      BY <2>2 DEF FsInv, Stored
    <3>2. /\ text' \in [Ram!Slot -> Seq(Byte)]
          /\ \A t \in Ram!Slot : Len(text'[t]) = files'[t].size /\ text'[t] = text[t]
      BY <1>2, <2>2, <3>1, TextsCut DEF FsInv
    <3>3. Stored' /\ EntriesAreFiles' /\ NamesAreBelowTmp'
      BY <1>2, <2>2, <3>2 DEF FsInv, Stored, EntriesAreFiles, NamesAreBelowTmp
    <3>4. text' = text
      BY <3>2 DEF FsInv, Stored
    <3> QED
      BY <2>1, <2>2, <3>3, <3>4 DEF FsInv
  <2>3. ASSUME NEW s \in Ram!Slot, Ram!FirstOf(s, Ram!Named(path)),
               files' = [files EXCEPT ![s].used = FALSE, ![s].size = 0]
        PROVE  /\ FsInv' /\ Full(path) = path /\ IsPrefix(Tmp, path)
               /\ ~files'[s].used
               /\ \A t \in Ram!Slot : t # s => files'[t] = files[t] /\ text'[t] = text[t]
    <3>1. files[s].used /\ files[s].path = path
      BY <2>3 DEF Ram!FirstOf, Ram!Named
    <3>2. Absolute(path)
      BY <3>1 DEF FsInv, NamesAreBelowTmp
    <3>3. Full(path) = path /\ IsPrefix(Tmp, path)
      BY <1>2, <3>2 DEF Full, full_path, find_mount
    <3>4. files \in [Ram!Slot -> Ram!ramfs_file]
      BY DEF FsInv, Stored
    <3>5. files[s] \in Ram!ramfs_file
      BY <3>4
    <3> DEFINE r == [files[s] EXCEPT !.used = FALSE, !.size = 0]
    <3>6. r \in Ram!ramfs_file /\ r.size = 0 /\ ~r.used
      <4> DEFINE P == (Seq(Token) \ {<< >>}) \cup {<< >>}
                 W == SUBSET Ram!Pos
                 Z == 0 .. MAX_CONTENT
      <4>1. files[s] \in [path : P, written : W, size : Z, used : BOOLEAN]
        BY <3>5 DEF Ram!ramfs_file
      <4>2. 0 \in Z
        BY Ranges
      <4>3. Ram!ramfs_file = [path : P, written : W, size : Z, used : BOOLEAN]
        BY DEF Ram!ramfs_file
      <4> HIDE DEF P, W, Z
      <4> QED
        BY <4>1, <4>2, <4>3
    <3>7. files' = [files EXCEPT ![s] = r]
      BY <2>3, <3>4
    <3> HIDE DEF r
    <3>8. /\ files' \in [Ram!Slot -> Ram!ramfs_file]
          /\ \A t \in Ram!Slot : files'[t] = IF t = s THEN r ELSE files[t]
      BY <3>4, <3>6, <3>7
    <3>9. /\ text' \in [Ram!Slot -> Seq(Byte)]
          /\ \A t \in Ram!Slot : /\ Len(text'[t]) = files'[t].size
                                 /\ files'[t].size = files[t].size => text'[t] = text[t]
      BY <1>2, <3>6, <3>8, TextsCut DEF FsInv
    <3>10. Stored' /\ EntriesAreFiles' /\ NamesAreBelowTmp'
      BY <1>2, <3>6, <3>8, <3>9 DEF FsInv, Stored, EntriesAreFiles, NamesAreBelowTmp
    <3> QED
      BY <2>1, <3>3, <3>6, <3>8, <3>9, <3>10 DEF FsInv
  <2>4. CASE \E s \in Ram!Slot :
               /\ Ram!FirstOf(s, Ram!Named(path))
               /\ files' = [files EXCEPT ![s].used = FALSE, ![s].size = 0]
    <3>1. PICK s \in Ram!Slot :
                 /\ Ram!FirstOf(s, Ram!Named(path))
                 /\ files' = [files EXCEPT ![s].used = FALSE, ![s].size = 0]
      BY <2>4
    <3>2. /\ FsInv' /\ Full(path) = path /\ IsPrefix(Tmp, path)
          /\ ~files'[s].used
          /\ \A t \in Ram!Slot : t # s => files'[t] = files[t] /\ text'[t] = text[t]
      BY <2>3, <3>1
    <3> QED
      BY <1>2, <2>1, <3>1, <3>2
  <2>5. \/ UNCHANGED files
        \/ \E s \in Ram!Slot :
             /\ Ram!FirstOf(s, Ram!Named(path))
             /\ files' = [files EXCEPT ![s].used = FALSE, ![s].size = 0]
    BY <1>2, Zenon DEF Ram!ramfs_unlink
  <2> QED
    BY <2>2, <2>4, <2>5
<1>3. \/ abyssfs_unlink(path)
      \/ /\ find_mount(Full(path)) = "ramfs" /\ Ram!ramfs_unlink(path)
         /\ UNCHANGED <<handles, heap_pos, fd_table, next_fd>>
         /\ CutToSize /\ UNCHANGED <<node, root>>
  BY DEF vfs_unlink, Ram!vfs_unlink
<1> QED
  BY <1>1, <1>2, <1>3, Zenon

--------------------------------------------------------------------------------
(* Calls on what is open.                                                  *)

(* The text that a read of the handle reads from.                          *)
TextOf(h) == IF OnRam(h) THEN text[handles[h].private_data] ELSE << >>

(* How far a read of count bytes at that place gets.                       *)
Advance(h, count) ==
  IF handles[h].f_pos >= Len(TextOf(h)) THEN 0
  ELSE Ram!Least(count, Len(TextOf(h)) - handles[h].f_pos)

LEMMA HandleTyped ==
  ASSUME FsInv, NEW h \in 1 .. Len(handles)
  PROVE  /\ handles[h].f_pos \in 0 .. MAX_CONTENT /\ handles[h].f_pos \in Nat
         /\ handles[h].private_data \in Int
         /\ OnRam(h) => handles[h].private_data \in Ram!Slot
         /\ ~OnRam(h) => InodeOf(h) \in Inode
         /\ TextOf(h) \in Seq(Byte) /\ Len(TextOf(h)) \in 0 .. MAX_CONTENT
<1>1. handles[h] \in vfs_file
  BY ElementOfSeq DEF FsInv, Opened
<1>2. handles[h].f_pos \in 0 .. MAX_CONTENT /\ handles[h].private_data \in PrivateData
  BY <1>1 DEF vfs_file
<1>3. CASE handles[h].private_data \in Ram!Slot
  <2>1. handles[h].private_data >= 0 /\ handles[h].private_data \in Int
    BY <1>3, Ranges
  <2>2. text[handles[h].private_data] \in Seq(Byte)
    BY <1>3 DEF FsInv, Stored
  <2>3. Len(text[handles[h].private_data]) \in 0 .. MAX_CONTENT
    <3>1. files[handles[h].private_data] \in Ram!ramfs_file
      BY <1>3 DEF FsInv, Stored
    <3>2. files[handles[h].private_data].size \in 0 .. MAX_CONTENT
      BY <3>1 DEF Ram!ramfs_file
    <3> QED
      BY <1>3, <3>2 DEF FsInv, Stored
  <2> QED
    BY <1>2, <1>3, <2>1, <2>2, <2>3, Ranges DEF OnRam, TextOf
<1>4. ASSUME NEW i \in Inode, handles[h].private_data = AbyssFile(i)
      PROVE  /\ handles[h].private_data \in Int /\ ~OnRam(h) /\ InodeOf(h) = i
             /\ TextOf(h) \in Seq(Byte) /\ Len(TextOf(h)) \in 0 .. MAX_CONTENT
  <2>1. /\ handles[h].private_data < 0 /\ -1 - handles[h].private_data = i
        /\ handles[h].private_data \in Int
    BY <1>4, Ranges DEF AbyssFile
  <2>2. ~OnRam(h) /\ InodeOf(h) = i
    BY <2>1 DEF OnRam, InodeOf
  <2>3. TextOf(h) = << >>
    BY <2>2 DEF TextOf
  <2>4. << >> \in Seq(Byte) /\ Len(<< >>) = 0
    OBVIOUS
  <2> QED
    BY <2>1, <2>2, <2>3, <2>4, Ranges
<1>5. \/ handles[h].private_data \in Ram!Slot
      \/ \E i \in Inode : handles[h].private_data = AbyssFile(i)
  BY <1>2 DEF PrivateData
<1>6. handles[h].f_pos \in Nat
  BY <1>2, Ranges
<1> QED
  BY <1>2, <1>3, <1>4, <1>5, <1>6

LEMMA DescriptorOpen ==
  ASSUME FsInv, NEW fd, Ram!get_file(fd) # Ram!NULL
  PROVE  /\ Ram!get_file(fd) \in 1 .. Len(handles)
         /\ fd \in Ram!FD /\ Ram!get_file(fd) = fd_table[fd]
  BY DEF FsInv, Opened, Ram!get_file

LEMMA ReadFile ==
  ASSUME FsInv, NEW fd, NEW count \in Nat, NEW h, h = Ram!get_file(fd), h # Ram!NULL,
         ~OnRam(h) => InodeOf(h) = 0, vfs_read(fd, count)
  PROVE  /\ FsInv' /\ UNCHANGED <<files, text, node, root, fd_table, next_fd>>
         /\ \A k \in 1 .. Len(handles) : /\ handles'[k].private_data = handles[k].private_data
                                         /\ k # h => handles'[k] = handles[k]
         /\ Advance(h, count) \in Nat /\ Advance(h, count) <= count
         /\ handles[h].f_pos + Advance(h, count) \in 0 .. MAX_CONTENT
         /\ ret' = Advance(h, count)
         /\ handles'[h].f_pos = handles[h].f_pos + ret'
         /\ buf' = SubSeq(TextOf(h), handles[h].f_pos + 1, handles[h].f_pos + ret')
         /\ buf' \in Seq(Byte)
<1> DEFINE at == handles[h].f_pos
           n  == Advance(h, count)
<1>1. h \in 1 .. Len(handles)
  BY DescriptorOpen
<1>2. /\ at \in 0 .. MAX_CONTENT /\ at \in Nat
      /\ TextOf(h) \in Seq(Byte) /\ Len(TextOf(h)) \in 0 .. MAX_CONTENT
      /\ OnRam(h) => handles[h].private_data \in Ram!Slot
  BY <1>1, HandleTyped
<1>3. UNCHANGED <<files, text, node, root, heap_pos, fd_table, next_fd>>
  BY DEF vfs_read, Ram!vfs_read, abyssfs_read
<1>4. /\ n \in Nat /\ n <= count /\ at + n \in 0 .. MAX_CONTENT
      /\ n = 0 \/ at + n <= Len(TextOf(h))
  <2>1. CASE at >= Len(TextOf(h))
    <3>1. n = 0
      BY <2>1 DEF Advance
    <3> QED
      BY <1>2, <3>1, Ranges
  <2>2. CASE ~ (at >= Len(TextOf(h)))
    <3>1. n = Ram!Least(count, Len(TextOf(h)) - at)
      BY <2>2 DEF Advance
    <3> HIDE DEF n, at
    <3> QED
      BY <1>2, <2>2, <3>1, Ranges DEF Ram!Least
  <2> QED
    BY <2>1, <2>2
<1>5. /\ ret' = n
      /\ handles' = [handles EXCEPT ![h].f_pos = at + n]
      /\ buf' = SubSeq(TextOf(h), at + 1, at + n)
  <2>1. CASE OnRam(h)
    <3>1. Ram!ramfs_read(h, count) /\ buf' = SubSeq(TextOf(h), at + 1, at + ret')
      BY <2>1 DEF vfs_read, Ram!vfs_read, TextOf
    <3>2. Len(TextOf(h)) = files[handles[h].private_data].size
      BY <1>2, <2>1 DEF TextOf, FsInv, Stored
    <3>3. n = IF Len(TextOf(h)) - at <= 0 THEN 0 ELSE Ram!Least(count, Len(TextOf(h)) - at)
      BY <1>2 DEF Advance
    <3>4. ret' = n /\ handles' = [handles EXCEPT ![h].f_pos = @ + n]
      <4> HIDE DEF n
      <4> QED
        BY <3>1, <3>2, <3>3 DEF Ram!ramfs_read
    <3>5. handles' = [handles EXCEPT ![h].f_pos = at + n]
      BY <3>4
    <3> QED
      BY <3>1, <3>4, <3>5
  <2>2. CASE ~OnRam(h)
    <3>1. TextOf(h) = << >> /\ Len(<< >>) = 0 /\ n = 0 /\ at + n = at
      <4>1. TextOf(h) = << >> /\ Len(<< >>) = 0
        BY <2>2 DEF TextOf
      <4>2. n = 0
        BY <1>2, <4>1 DEF Advance
      <4> QED
        BY <1>2, <4>1, <4>2
    <3>2. node[0].size = 0 /\ node[0].bytes = << >>
      BY DEF FsInv, EntriesAreFiles
    <3>3. ret' = 0 /\ handles' = [handles EXCEPT ![h].f_pos = at + 0]
      BY <1>2, <2>2, <3>2 DEF vfs_read, abyssfs_read
    <3>4. buf' = SubSeq(<< >>, at + 1, at + 0)
      BY <1>2, <2>2, <3>2 DEF vfs_read, abyssfs_read
    <3> QED
      BY <3>1, <3>3, <3>4
  <2> QED
    BY <2>1, <2>2
<1>6. buf' \in Seq(Byte)
  <2>1. \A i \in at + 1 .. at + n : TextOf(h)[i] \in Byte
    <3>1. \A i \in 1 .. Len(TextOf(h)) : TextOf(h)[i] \in Byte
      BY <1>2
    <3> HIDE DEF n, at
    <3> QED
      BY <1>2, <1>4, <3>1
  <2> HIDE DEF n, at
  <2>2. at + 1 \in Int /\ at + n \in Int
    BY <1>2, <1>4
  <2>3. SubSeq(TextOf(h), at + 1, at + n) \in Seq(Byte)
    BY <2>1, <2>2, SubSeqProperties
  <2> QED
    BY <1>5, <2>3
<1> HIDE DEF n
<1>7. /\ Opened'
      /\ \A k \in 1 .. Len(handles) : /\ handles'[k].private_data = handles[k].private_data
                                      /\ k # h => handles'[k] = handles[k]
      /\ handles'[h].f_pos = at + n
  <2> HIDE DEF at
  <2> QED
    BY <1>1, <1>3, <1>4, <1>5, HandleMoved DEF FsInv
<1>8. FsInv'
  BY <1>3, <1>7 DEF FsInv, Stored, EntriesAreFiles, NamesAreBelowTmp
<1> QED
  BY <1>3, <1>4, <1>5, <1>6, <1>7, <1>8 DEF n

(* The call appended the bytes to slot s through the handle h.              *)
Appends(h, s, bytes) ==
  /\ UNCHANGED <<node, root, fd_table, next_fd>>
  /\ \A k \in 1 .. Len(handles) : /\ handles'[k].private_data = handles[k].private_data
                                  /\ k # h => handles'[k] = handles[k]
  /\ ret' = Len(bytes)
  /\ handles'[h].f_pos = handles[h].f_pos + Len(bytes)
  /\ \A t \in Ram!Slot : /\ files'[t].used = files[t].used
                         /\ files'[t].path = files[t].path
                         /\ t # s => files'[t] = files[t] /\ text'[t] = text[t]
  /\ text'[s] = text[s] \o bytes

(* A write at the end of a file of RAMFS with a name below /tmp, or to an  *)
(* inode of AbyssFS.                                                       *)
LEMMA AppendToFile ==
  ASSUME FsInv, NEW fd, NEW bytes \in Seq(Byte), bytes # << >>,
         NEW h, h = Ram!get_file(fd), h # Ram!NULL, OnRam(h),
         NEW s, s = handles[h].private_data,
         files[s].used, IsPrefix(TmpDir, files[s].path),
         handles[h].f_pos = Len(text[s]), Len(text[s]) + Len(bytes) <= MAX_CONTENT,
         vfs_write(fd, bytes)
  PROVE  FsInv' /\ Appends(h, s, bytes)
<1> DEFINE at == handles[h].f_pos
           n  == Len(bytes)
           whole == text[s]
<1>1. h \in 1 .. Len(handles)
  BY DescriptorOpen
<1>2. s \in Ram!Slot /\ at \in 0 .. MAX_CONTENT /\ whole \in Seq(Byte)
  <2>1. s \in Ram!Slot /\ at \in 0 .. MAX_CONTENT
    BY <1>1, HandleTyped
  <2> QED
    BY <2>1 DEF FsInv, Stored
<1>3. n \in Nat /\ n > 0 /\ at \in Nat /\ at = Len(whole) /\ at = files[s].size
  <2>1. n \in Nat /\ n > 0
    BY EmptySeq
  <2>2. at \in Nat
    BY <1>2, Ranges
  <2>3. at = files[s].size
    BY <1>2 DEF FsInv, Stored
  <2> QED
    BY <2>1, <2>2, <2>3
<1>4. /\ UNCHANGED <<heap_pos, fd_table, next_fd, node, root>>
      /\ Ram!ramfs_write(h, n)
      /\ text' = [text EXCEPT ![s] = SubSeq(@, 1, at) \o SubSeq(bytes, 1, ret')
                                       \o SubSeq(@, at + ret' + 1, Len(@))]
  BY DEF vfs_write, Ram!vfs_write
<1>5. Ram!Least(n, MAX_CONTENT - at) = n
  BY <1>2, <1>3, Ranges DEF Ram!Least
<1>6. /\ ret' = n
      /\ handles' = [handles EXCEPT ![h].f_pos = at + n]
      /\ files' = [files EXCEPT
           ![s].size = IF at + n > @ THEN at + n ELSE @,
           ![s].written = @ \cup (at .. (at + n - 1))]
  <2> HIDE DEF n
  <2>1. n # 0
    BY <1>3
  <2>2. /\ ret' = Ram!Least(n, MAX_CONTENT - handles[h].f_pos)
        /\ handles' = [handles EXCEPT ![h].f_pos =
                         handles[h].f_pos + Ram!Least(n, MAX_CONTENT - handles[h].f_pos)]
    BY <1>4 DEF Ram!ramfs_write
  <2>3. files' = [files EXCEPT
          ![handles[h].private_data].size = IF at + n > @ THEN at + n ELSE @,
          ![handles[h].private_data].written = @ \cup (at .. (at + n - 1))]
    BY <1>4, <1>5, <2>1 DEF Ram!ramfs_write
  <2> QED
    BY <1>5, <2>2, <2>3
<1>7. at + n \in 0 .. MAX_CONTENT /\ at .. (at + n - 1) \in SUBSET Ram!Pos
  <2>1. at \in Nat /\ n \in Nat /\ n > 0 /\ MAX_CONTENT \in Nat
    BY <1>3, Ranges
  <2>2. at + n <= MAX_CONTENT
    BY <1>3
  <2> HIDE DEF at, n
  <2>3. at + n \in 0 .. MAX_CONTENT
    BY <2>1, <2>2
  <2>4. \A i \in at .. (at + n - 1) : i \in 0 .. (MAX_CONTENT - 1)
    BY <2>1, <2>2
  <2> QED
    BY <2>3, <2>4 DEF Ram!Pos
<1>8. /\ Opened'
      /\ \A k \in 1 .. Len(handles) : /\ handles'[k].private_data = handles[k].private_data
                                      /\ k # h => handles'[k] = handles[k]
      /\ handles'[h].f_pos = at + n
  <2> HIDE DEF at, n
  <2> QED
    BY <1>1, <1>4, <1>6, <1>7, HandleMoved DEF FsInv
<1> DEFINE P == (Seq(Token) \ {<< >>}) \cup {<< >>}
           W == SUBSET Ram!Pos
           Z == 0 .. MAX_CONTENT
           r == [files[s] EXCEPT !.size = at + n,
                                 !.written = @ \cup (at .. (at + n - 1))]
<1>9. files \in [Ram!Slot -> Ram!ramfs_file]
  BY DEF FsInv, Stored
<1>10. Ram!ramfs_file = [path : P, written : W, size : Z, used : BOOLEAN]
  BY DEF Ram!ramfs_file
<1>11. files' = [files EXCEPT ![s] = r]
  <2>1. at + n > files[s].size
    BY <1>3
  <2> HIDE DEF at, n
  <2> QED
    BY <1>2, <1>6, <1>9, <2>1
<1>12. r \in Ram!ramfs_file /\ r.size = at + n /\ r.used /\ r.path = files[s].path
  <2> DEFINE v == at + n
             C == at .. (at + n - 1)
  <2>1. v \in Z /\ C \in W
    BY <1>7
  <2>2. files[s] \in [path : P, written : W, size : Z, used : BOOLEAN]
    BY <1>2, <1>9, <1>10
  <2>3. files[s].written \cup C \in W
    BY <2>1, <2>2
  <2>4. r = [files[s] EXCEPT !.size = v, !.written = @ \cup C]
    OBVIOUS
  <2> HIDE DEF P, W, Z, v, C, r
  <2>5. r \in [path : P, written : W, size : Z, used : BOOLEAN] /\ r.size = v
    BY <2>1, <2>2, <2>3, <2>4
  <2>6. r.used = files[s].used /\ r.path = files[s].path
    BY <2>2, <2>4
  <2> QED
    BY <1>10, <2>5, <2>6 DEF v
<1> HIDE DEF r, P, W, Z
<1>13. /\ files' \in [Ram!Slot -> Ram!ramfs_file]
       /\ \A t \in Ram!Slot : files'[t] = IF t = s THEN r ELSE files[t]
  BY <1>2, <1>9, <1>11, <1>12
<1>14. /\ text'[s] = SubSeq(whole, 1, at) \o SubSeq(bytes, 1, n) \o SubSeq(whole, at + n + 1, at)
       /\ \A t \in Ram!Slot : t # s => text'[t] = text[t]
       /\ DOMAIN text' = Ram!Slot /\ text' = [t \in Ram!Slot |-> text'[t]]
  <2>1. text \in [Ram!Slot -> Seq(Byte)]
    BY DEF FsInv, Stored
  <2>2. Len(whole) = at
    BY <1>3
  <2> HIDE DEF at, n
  <2> QED
    BY <1>2, <1>4, <1>6, <2>1, <2>2
<1>15. text'[s] = whole \o bytes
  <2>1. SubSeq(whole, 1, at) = whole /\ SubSeq(bytes, 1, n) = bytes
    BY <1>2, <1>3, SubSeqFull
  <2>2. SubSeq(whole, at + n + 1, at) = << >>
    BY <1>3, SubSeqEmpty
  <2>3. whole \o bytes \in Seq(Byte)
    BY <1>2, ConcatProperties
  <2> HIDE DEF whole
  <2>4. (whole \o bytes) \o << >> = whole \o bytes
    BY <2>3, ConcatEmptySeq
  <2> HIDE DEF at, n
  <2> QED
    BY <1>14, <2>1, <2>2, <2>4
<1>16. whole \o bytes \in Seq(Byte) /\ Len(whole \o bytes) = at + n
  <2>1. /\ whole \o bytes \in Seq(Byte)
        /\ Len(whole \o bytes) = Len(whole) + Len(bytes)
    <3> HIDE DEF whole
    <3> QED
      BY <1>2, ConcatProperties
  <2> HIDE DEF whole, at
  <2> QED
    BY <1>3, <2>1
<1>17. text' \in [Ram!Slot -> Seq(Byte)]
  <2>1. \A t \in Ram!Slot : t # s => text[t] \in Seq(Byte)
    BY DEF FsInv, Stored
  <2>2. \A t \in Ram!Slot : text'[t] \in Seq(Byte)
    BY <1>14, <1>15, <1>16, <2>1
  <2> QED
    BY <1>14, <2>2
<1>18. Stored'
  <2>1. \A t \in Ram!Slot : Len(text'[t]) = files'[t].size
    <3> HIDE DEF whole, at, n
    <3> QED
      BY <1>12, <1>13, <1>14, <1>15, <1>16 DEF FsInv, Stored
  <2> QED
    BY <1>4, <1>13, <1>17, <2>1 DEF FsInv, Stored
<1>19. /\ \A t \in Ram!Slot : /\ files'[t].used = files[t].used
                              /\ files'[t].path = files[t].path
                              /\ t # s => files'[t] = files[t] /\ text'[t] = text[t]
  <2> HIDE DEF at, n
  <2> SUFFICES ASSUME NEW t \in Ram!Slot
               PROVE  /\ files'[t].used = files[t].used
                      /\ files'[t].path = files[t].path
                      /\ t # s => files'[t] = files[t] /\ text'[t] = text[t]
    OBVIOUS
  <2>1. CASE t = s
    BY <1>12, <1>13, <2>1
  <2>2. CASE t # s
    BY <1>13, <1>14, <2>2
  <2> QED
    BY <2>1, <2>2
<1>20. EntriesAreFiles' /\ NamesAreBelowTmp'
  BY <1>4, <1>19 DEF FsInv, EntriesAreFiles, NamesAreBelowTmp
<1>21. FsInv'
  BY <1>8, <1>15, <1>18, <1>20 DEF FsInv
<1> QED
  BY <1>4, <1>6, <1>8, <1>15, <1>18, <1>19, <1>21 DEF Appends

(* A write to an inode of AbyssFS changes no other: it leaves all as it    *)
(* was, or puts the bytes over the beginning of what is there.             *)
InodeWritten(i, bytes) ==
  /\ UNCHANGED <<files, text, root, handles, fd_table, next_fd>>
  /\ \A j \in Inode : j # i => node'[j] = node[j]
  /\ \/ ret' = 0
     \/ /\ ret' = Len(bytes)
        /\ node'[i].size = node[i].size + Len(bytes)
        /\ node'[i].bytes =
             bytes \o SubSeq(node[i].bytes, Len(bytes) + 1, Len(node[i].bytes))

LEMMA WriteInode ==
  ASSUME FsInv, NEW fd, NEW bytes \in Seq(Byte), bytes # << >>,
         NEW h, h = Ram!get_file(fd), h # Ram!NULL, ~OnRam(h),
         NEW i, i = InodeOf(h), i # 0,
         vfs_write(fd, bytes)
  PROVE  FsInv' /\ InodeWritten(i, bytes)
<1>1. h \in 1 .. Len(handles) /\ i \in Inode
  BY DescriptorOpen, HandleTyped
<1>2. UNCHANGED <<files, handles, heap_pos, fd_table, next_fd, text, root>>
  BY DEF vfs_write, abyssfs_write
<1>3. Opened' /\ NamesAreBelowTmp'
  BY <1>2, NothingAllocated DEF FsInv, NamesAreBelowTmp
<1>4. CASE ret' = 0 /\ UNCHANGED node
  BY <1>2, <1>3, <1>4 DEF FsInv, Stored, EntriesAreFiles, InodeWritten
<1> DEFINE F == [used : BOOLEAN, size : Nat, bytes : Seq(Byte)]
           old == node[i].bytes
           b == bytes \o SubSeq(old, Len(bytes) + 1, Len(old))
           z == node[i].size + Len(bytes)
<1>5. CASE /\ node' = [node EXCEPT ![i].bytes = bytes \o SubSeq(@, Len(bytes) + 1, Len(@)),
                                   ![i].size = @ + Len(bytes)]
           /\ ret' = Len(bytes)
  <2>1. node \in [Inode -> F] /\ node[i] \in F
    BY <1>1 DEF FsInv, Stored
  <2>2. z \in Nat /\ old \in Seq(Byte) /\ Len(bytes) \in Nat /\ Len(old) \in Nat
    BY <2>1
  <2>3. b \in Seq(Byte)
    <3>1. \A j \in Len(bytes) + 1 .. Len(old) : old[j] \in Byte
      BY <2>2
    <3>2. SubSeq(old, Len(bytes) + 1, Len(old)) \in Seq(Byte)
      BY <2>2, <3>1, SubSeqProperties
    <3> QED
      BY <3>2, ConcatProperties
  <2> DEFINE r == [node[i] EXCEPT !.bytes = b, !.size = z]
  <2>4. node' = [node EXCEPT ![i] = r]
    <3>1. node' = [node EXCEPT ![i].bytes = b, ![i].size = z]
      BY <1>5
    <3> HIDE DEF b, z
    <3> QED
      BY <1>1, <2>1, <3>1
  <2> HIDE DEF b, z
  <2>5. r \in F /\ r.bytes = b /\ r.size = z /\ r.used = node[i].used
    BY <2>1, <2>2, <2>3
  <2> HIDE DEF r, F
  <2>6. /\ node' \in [Inode -> F]
        /\ \A j \in Inode : node'[j] = IF j = i THEN r ELSE node[j]
    BY <1>1, <2>1, <2>4, <2>5
  <2>7. Stored'
    BY <1>2, <2>6 DEF FsInv, Stored, F
  <2>8. \A j \in Inode : node'[j].used = node[j].used
    BY <2>5, <2>6
  <2>9. node'[0] = node[0]
    BY <2>6, ShellAssumption DEF Inode
  <2>10. \A k \in DOMAIN root : root[k].inode \in Inode
    <3> DEFINE E == [name : Seq(Token), inode : Inode]
    <3>1. root \in Seq(E)
      BY DEF FsInv, Stored
    <3>2. \A k \in DOMAIN root : root[k] \in E
      <4> HIDE DEF E
      <4> QED
        BY <3>1
    <3> QED
      BY <3>2
  <2>11. EntriesAreFiles'
    BY <1>2, <2>8, <2>9, <2>10 DEF FsInv, EntriesAreFiles
  <2> QED
    BY <1>1, <1>2, <1>3, <1>5, <2>5, <2>6, <2>7, <2>11 DEF FsInv, InodeWritten, b, z
<1> QED
  BY <1>4, <1>5 DEF vfs_write, abyssfs_write

--------------------------------------------------------------------------------
(* The invariant.                                                          *)

Commands == [op : {"none", "test", "touch", "cp", "mv"}, src : Seq(Token), dst : Seq(Token)]

Control ==
  /\ cwd \in FullPath
  /\ pc \in Quiet \cup Busy
  /\ cmd \in Commands
  /\ src_fd = NoFd \/ src_fd \in 0 .. (next_fd - 1)
  /\ dst_fd = NoFd \/ dst_fd \in 0 .. (next_fd - 1)
  /\ buf \in Seq(Byte) /\ copied \in BOOLEAN

LEMMA TypeParts ==
  /\ TypeOK <=> Stored /\ Opened /\ Control
  /\ TypeOK' <=> Stored' /\ Opened' /\ Control'
<1>1. TypeOK <=> Stored /\ Opened /\ Control
  BY Zenon DEF TypeOK, Stored, Opened, Control, vfs_file, PrivateData, FullPath, Commands
<1>2. TypeOK' <=> Stored' /\ Opened' /\ Control'
  BY Zenon DEF TypeOK, Stored, Opened, Control, vfs_file, PrivateData, FullPath, Commands
<1> QED
  BY <1>1, <1>2

LEMMA InvParts ==
  ASSUME ShellInv
  PROVE  FsInv /\ Control
  BY TypeParts DEF ShellInv, FsInv

LEMMA CommandTyped ==
  ASSUME NEW op \in {"none", "test", "touch", "cp", "mv"},
         NEW src \in Seq(Token), NEW dst \in Seq(Token)
  PROVE  [op |-> op, src |-> src, dst |-> dst] \in Commands
  BY DEF Commands

LEMMA OperandTyped ==
  /\ \A path \in Operand : path \in FullPath /\ path \in Seq(Token)
  /\ TestFile \in FullPath /\ TestFile \in Seq(Token)
  /\ << >> \in Seq(Token) /\ NoCmd \in Commands
  /\ Slash \in FullPath
<1>1. \A path \in Operand : path \in FullPath /\ path \in Seq(Token)
  BY ShellAssumption DEF FullPath
<1>2. TestFile \in FullPath /\ TestFile \in Seq(Token)
  BY ShellAssumption, PrefixAbsolute DEF FullPath, Absolute
<1>3. << >> \in Seq(Token)
  OBVIOUS
<1>4. Slash \in FullPath
  BY ShellAssumption DEF Slash, FullPath
<1> QED
  BY <1>1, <1>2, <1>3, <1>4, CommandTyped DEF NoCmd

LEMMA InitInv == Init => ShellInv
<1> SUFFICES ASSUME Init PROVE ShellInv
  OBVIOUS
<1> USE DEF Init, Ram!Init
<1>1. << >> \in Seq(Byte) /\ << >> \in Seq(vfs_file) /\ Len(<< >>) = 0
  OBVIOUS
<1>2. Stored
  <2>1. files \in [Ram!Slot -> Ram!ramfs_file]
    BY Ranges DEF Ram!ramfs_file
  <2>2. text \in [Ram!Slot -> Seq(Byte)] /\ \A s \in Ram!Slot : Len(text[s]) = files[s].size
    BY <1>1
  <2>3. node \in [Inode -> [used : BOOLEAN, size : Nat, bytes : Seq(Byte)]]
    BY <1>1
  <2>4. root \in Seq([name : Seq(Token), inode : Inode])
    OBVIOUS
  <2> QED
    BY <2>1, <2>2, <2>3, <2>4 DEF Stored
<1>3. Opened
  BY <1>1, Ranges DEF Opened
<1>4. Control
  BY <1>1, OperandTyped DEF Control, Quiet, NoFd
<1>5. EntriesAreFiles /\ NamesAreBelowTmp
  <2>1. 0 \in Inode /\ 0 # 1
    BY ShellAssumption DEF Inode
  <2>2. node[0] = [used |-> FALSE, size |-> 0, bytes |-> << >>]
    BY <2>1
  <2>3. \A k \in DOMAIN root : FALSE
    OBVIOUS
  <2> QED
    BY <2>2, <2>3 DEF EntriesAreFiles, NamesAreBelowTmp
<1>6. CommandKnown /\ DescriptorsOpen /\ SourceOpen /\ TargetOpen /\ CopyInStep
  BY DEF CommandKnown, NoCmd, Copying, DescriptorsOpen, SourceOpen, TargetOpen, CopyInStep, NoFd, Quiet
<1> QED
  BY <1>2, <1>3, <1>4, <1>5, <1>6, TypeParts DEF ShellInv

(* Nothing of a command is left.                                           *)
LEMMA NothingHeld ==
  ASSUME FsInv', cwd' \in FullPath, cmd' \in Commands, buf' \in Seq(Byte),
         src_fd' = NoFd, dst_fd' = NoFd, copied' = FALSE,
         pc' \in Quiet \cup {"test_open", "cp_done"}, CommandKnown'
  PROVE  ShellInv'
<1>1. Control'
  BY DEF Control, Quiet, Busy
<1>2. DescriptorsOpen'
  BY DEF DescriptorsOpen, Quiet
<1>3. SourceOpen' /\ TargetOpen' /\ CopyInStep'
  BY DEF SourceOpen, TargetOpen, CopyInStep, Quiet
<1> QED
  BY <1>1, <1>2, <1>3, TypeParts DEF ShellInv, FsInv

LEMMA NoCommandKnown ==
  ASSUME cmd' = NoCmd, pc' \in Quiet
  PROVE  CommandKnown'
  BY DEF CommandKnown, NoCmd, Quiet, Copying

(* What is held between commands. *)
LEMMA Resting ==
  ASSUME ShellInv
  PROVE  /\ pc \in Quiet \cup {"test_open"} => src_fd = NoFd /\ dst_fd = NoFd
         /\ pc # "cp_done" => copied = FALSE
         /\ cmd \in Commands /\ cwd \in FullPath /\ buf \in Seq(Byte)
         /\ CommandKnown
         /\ cmd' = cmd /\ (pc' = pc \/ pc' \in Quiet) => CommandKnown'
  BY InvParts DEF ShellInv, DescriptorsOpen, Control, CommandKnown, Quiet, Copying

LEMMA TestMadeInv ==
  ASSUME ShellInv, NEW t \in Texts, test_vfs(t)
  PROVE  ShellInv'
<1>1. FsInv'
  BY InvParts, TextFile DEF test_vfs
<1>2. /\ src_fd' = NoFd /\ dst_fd' = NoFd /\ copied' = FALSE /\ buf' \in Seq(Byte)
      /\ cwd' \in FullPath
  BY Resting DEF test_vfs, locals, Quiet
<1>3. cmd' \in Commands /\ pc' \in Quiet \cup {"test_open", "cp_done"}
  BY OperandTyped, CommandTyped DEF test_vfs, Quiet
<1>4. CommandKnown'
  BY DEF test_vfs, CommandKnown, NoCmd, Copying
<1> QED
  BY <1>1, <1>2, <1>3, <1>4, NothingHeld

LEMMA KallocInv ==
  ASSUME ShellInv, kalloc
  PROVE  ShellInv'
<1>1. FsInv
  BY InvParts
<1>2. Opened'
  <2>1. Len(handles) \in Nat
    BY <1>1 DEF FsInv, Opened
  <2>2. heap_pos' \in Len(handles') .. MAX_KALLOC
    BY <1>1, <2>1, Ranges DEF kalloc, Ram!kalloc, Ram!HeapFull, FsInv, Opened
  <2> QED
    BY <1>1, <2>2 DEF kalloc, Ram!kalloc, FsInv, Opened
<1>3. FsInv'
  BY <1>1, <1>2 DEF kalloc, Ram!kalloc, FsInv, Stored, EntriesAreFiles, NamesAreBelowTmp
<1>4. pc = "boot" /\ UNCHANGED <<src_fd, dst_fd, buf, copied, cwd, cmd, pc>>
  BY DEF kalloc, locals
<1> QED
  BY <1>3, <1>4, Resting, NothingHeld DEF Quiet

LEMMA StartInv ==
  ASSUME ShellInv, shell
  PROVE  ShellInv'
<1>1. FsInv'
  BY InvParts DEF shell, fsvars, ramvars, FsInv, Stored, Opened, EntriesAreFiles, NamesAreBelowTmp
<1>2. << >> \in Seq(Byte)
  OBVIOUS
<1> QED
  BY <1>1, <1>2, Resting, OperandTyped, NoCommandKnown, NothingHeld DEF shell, Quiet

LEMMA RmInv ==
  ASSUME ShellInv, NEW path \in Operand, cmd_rm(path)
  PROVE  ShellInv'
<1>1. FsInv'
  BY InvParts, Resting, OperandTyped, UnlinkFile DEF cmd_rm
<1>2. pc = "prompt" /\ UNCHANGED <<src_fd, dst_fd, buf, copied, cwd, cmd, pc>>
  BY DEF cmd_rm, locals, Prompt
<1> QED
  BY <1>1, <1>2, Resting, NothingHeld DEF Quiet

LEMMA MkdirInv ==
  ASSUME ShellInv, NEW path \in Operand, cmd_mkdir(path)
  PROVE  ShellInv'
<1>1. FsInv'
  BY InvParts, Resting, OperandTyped, MakeDirectory DEF cmd_mkdir
<1>2. pc = "prompt" /\ UNCHANGED <<src_fd, dst_fd, buf, copied, cwd, cmd, pc>>
  BY DEF cmd_mkdir, locals, Prompt
<1> QED
  BY <1>1, <1>2, Resting, NothingHeld DEF Quiet

LEMMA CdInv ==
  ASSUME ShellInv, NEW path \in CdOperand, cmd_cd(path)
  PROVE  ShellInv'
<1>1. /\ pc = "prompt" /\ UNCHANGED <<src_fd, dst_fd, buf, copied, cmd, pc>>
      /\ cwd \in FullPath /\ path \in Seq(Token)
  BY Resting, ShellAssumption DEF cmd_cd, locals, Prompt
<1>2. FsInv' /\ cwd' \in FullPath
  <2>1. CASE cwd' \in {Slash, get_parent_dir(cwd)} /\ UNCHANGED fsvars
    <3>1. cwd' \in FullPath
      BY <1>1, <2>1, ParentTyped, OperandTyped
    <3>2. FsInv'
      BY <2>1, InvParts DEF fsvars, ramvars, FsInv, Stored, Opened, EntriesAreFiles, NamesAreBelowTmp
    <3> QED
      BY <3>1, <3>2
  <2>2. CASE vfs_open(cd_target(cwd, path)) /\ cwd' \in {cwd, cd_target(cwd, path)}
    <3>1. cd_target(cwd, path) \in FullPath
      BY <1>1, TargetTyped
    <3>2. FsInv'
      BY <2>2, <3>1, InvParts, OpenFile
    <3> QED
      BY <1>1, <2>2, <3>1, <3>2
  <2> QED
    BY <2>1, <2>2 DEF cmd_cd
<1> QED
  BY <1>1, <1>2, Resting, NothingHeld DEF Quiet

LEMMA TouchInv ==
  ASSUME ShellInv, NEW path \in Operand, cmd_touch(path)
  PROVE  ShellInv'
<1>1. /\ pc = "prompt" /\ UNCHANGED <<src_fd, buf, copied, cwd>> /\ src_fd = NoFd /\ dst_fd = NoFd
      /\ copied = FALSE /\ path \in FullPath /\ path \in Seq(Token) /\ cwd \in FullPath
      /\ buf \in Seq(Byte)
  BY Resting, OperandTyped DEF cmd_touch, Prompt, Quiet
<1>2. /\ FsInv'
      /\ ret' = -1 \/ \E p : Gets(p)
  BY <1>1, InvParts, CreateFile DEF cmd_touch
<1>3. CASE ret' < 0 /\ UNCHANGED <<pc, cmd, dst_fd>>
  BY <1>1, <1>2, <1>3, Resting, NothingHeld DEF Quiet
<1>4. CASE /\ ret' >= 0
           /\ pc' = "touch_close"
           /\ cmd' = [op |-> "touch", src |-> << >>, dst |-> path]
           /\ dst_fd' = ret'
  <2>1. PICK p : Gets(p)
    BY <1>2, <1>4
  <2>2. /\ dst_fd' = next_fd /\ next_fd \in Nat /\ next_fd' = next_fd + 1 /\ next_fd \in Ram!FD
        /\ fd_table'[next_fd] = Len(handles) + 1
    BY <1>4, <2>1 DEF Gets
  <2>3. Len(handles) + 1 # Ram!NULL
    BY InvParts, Ranges DEF FsInv, Opened
  <2>4. Ram!get_file(dst_fd)' = Len(handles) + 1
    BY <2>2 DEF Ram!get_file
  <2>5. Control'
    <3>1. cmd' \in Commands
      BY <1>1, <1>4, OperandTyped, CommandTyped
    <3>2. dst_fd' \in 0 .. (next_fd' - 1)
      BY <2>2
    <3> QED
      BY <1>1, <1>4, <3>1, <3>2 DEF Control, Busy
  <2>a. CommandKnown'
    BY <1>4 DEF CommandKnown, Copying
  <2>6. DescriptorsOpen'
    BY <1>1, <1>4, <2>2, <2>3, <2>4 DEF DescriptorsOpen, Quiet, NoFd
  <2>7. SourceOpen' /\ TargetOpen' /\ CopyInStep'
    BY <1>1, <1>4 DEF SourceOpen, TargetOpen, CopyInStep
  <2> QED
    BY <1>2, <2>5, <2>a, <2>6, <2>7, TypeParts DEF ShellInv, FsInv
<1> QED
  BY <1>3, <1>4 DEF cmd_touch

LEMMA CloseInv ==
  ASSUME ShellInv, touch_close
  PROVE  ShellInv'
<1>1. FsInv
  BY InvParts
<1>2. Opened'
  <2>1. fd_table \in [Ram!FD -> {Ram!NULL} \cup (1 .. Len(handles))]
    BY <1>1 DEF FsInv, Opened
  <2>2. fd_table' = fd_table \/ fd_table' = [fd_table EXCEPT ![dst_fd] = Ram!NULL]
    BY DEF touch_close, vfs_close, Ram!vfs_close
  <2>3. fd_table' \in [Ram!FD -> {Ram!NULL} \cup (1 .. Len(handles))]
    BY <2>1, <2>2
  <2>4. UNCHANGED <<handles, heap_pos, next_fd>>
    BY DEF touch_close, vfs_close, Ram!vfs_close
  <2> QED
    BY <1>1, <2>3, <2>4 DEF FsInv, Opened
<1>3. FsInv'
  BY <1>1, <1>2 DEF touch_close, vfs_close, Ram!vfs_close, FsInv, Stored, EntriesAreFiles, NamesAreBelowTmp
<1>4. src_fd = NoFd /\ copied = FALSE
  BY Resting DEF touch_close, ShellInv, DescriptorsOpen
<1> QED
  BY <1>3, <1>4, Resting, OperandTyped, NoCommandKnown, NothingHeld DEF touch_close, Quiet

LEMMA DoneInv ==
  ASSUME ShellInv, cp_done \/ mv_unlink
  PROVE  ShellInv'
<1>1. FsInv'
  <2>1. CASE cp_done
    BY <2>1, InvParts DEF cp_done, fsvars, ramvars, FsInv, Stored, Opened, EntriesAreFiles, NamesAreBelowTmp
  <2>2. CASE mv_unlink
    <3>1. cmd.src \in FullPath
      BY <2>2, Resting, OperandTyped DEF mv_unlink, CommandKnown
    <3> QED
      BY <2>2, <3>1, InvParts, Resting, UnlinkFile DEF mv_unlink
  <2> QED
    BY <2>1, <2>2
<1>2. Return /\ << >> \in Seq(Byte)
  BY DEF cp_done, mv_unlink
<1> QED
  BY <1>1, <1>2, Resting, OperandTyped, NoCommandKnown, NothingHeld DEF Return, Quiet

(* A command has opened its source. *)
LEMMA SourceOpened ==
  ASSUME ShellInv, src_fd = NoFd, dst_fd = NoFd, NEW path \in FullPath, vfs_open(path),
         src_fd' = ret', ret' >= 0, cmd'.src = path, cmd' \in Commands, CommandKnown',
         pc' \in {"test_read", "cp_create"}, copied = FALSE,
         UNCHANGED <<cwd, dst_fd, buf, copied>>
  PROVE  ShellInv'
<1>1. FsInv /\ Control
  BY InvParts
<1>2. /\ FsInv' /\ Keeps /\ UNCHANGED <<files, text, node, root>>
      /\ \/ /\ IsPrefix(TmpDir, path)
            /\ \E s \in Ram!Slot : Ram!FirstOf(s, Ram!Named(path)) /\ Gets(s)
         \/ ~IsPrefix(TmpDir, path) /\ Gets(AbyssFile(0))
  BY <1>1, OpenFile
<1>3. PICK p : /\ Gets(p)
               /\ \/ p \in Ram!Slot /\ Ram!FirstOf(p, Ram!Named(path))
                  \/ p = AbyssFile(0) /\ ~IsPrefix(TmpDir, path)
  BY <1>2
<1>4. PICK h : h = Len(handles) + 1 /\ h # Ram!NULL
  BY <1>1, Ranges DEF FsInv, Opened
<1>5. /\ src_fd' \in 0 .. (next_fd' - 1) /\ Ram!get_file(src_fd)' = h
      /\ handles'[h].private_data = p /\ handles'[h].f_pos = 0
  BY <1>3, <1>4 DEF Gets, Ram!get_file
<1>6. Control'
  BY <1>1, <1>5 DEF Control, Busy
<1>7. DescriptorsOpen'
  BY <1>4, <1>5 DEF DescriptorsOpen, Quiet, NoFd
<1>8. ASSUME p \in Ram!Slot, Ram!FirstOf(p, Ram!Named(path))
      PROVE  SourceOpen'
  <2>1. OnRam(h)'
    BY <1>5, <1>8, Ranges DEF OnRam
  <2>2. /\ files[p].used /\ files[p].path = path
        /\ \A t \in Ram!Slot : files[t].used /\ files[t].path = path => p <= t
    BY <1>8 DEF Ram!FirstOf, Ram!Named
  <2>3. \A t \in Ram!Slot : t < p => ~ (files[t].used /\ files[t].path = path)
    BY <1>8, <2>2, Ranges
  <2> QED
    BY <1>2, <1>5, <2>1, <2>2, <2>3 DEF SourceOpen
<1>9. ASSUME p = AbyssFile(0), ~IsPrefix(TmpDir, path)
      PROVE  SourceOpen'
  <2>1. ~OnRam(h)' /\ InodeOf(h)' = 0
    <3>1. 0 \in Inode
      BY ShellAssumption DEF Inode
    <3> QED
      BY <1>5, <1>9, <3>1, Ranges DEF OnRam, InodeOf, AbyssFile
  <2> QED
    BY <1>2, <1>5, <1>9, <2>1 DEF SourceOpen
<1>10. SourceOpen'
  BY <1>3, <1>8, <1>9
<1>11. TargetOpen' /\ CopyInStep'
  BY DEF TargetOpen, CopyInStep
<1> QED
  BY <1>2, <1>6, <1>7, <1>10, <1>11, TypeParts DEF ShellInv, FsInv

LEMMA OpenResult ==
  ASSUME FsInv, NEW path \in FullPath, vfs_open(path)
  PROVE  FsInv' /\ (ret' = -1 \/ ret' \in Nat)
<1>1. FsInv' /\ (ret' = -1 \/ \E p : Gets(p))
  BY OpenFile
<1> QED
  BY <1>1 DEF Gets

LEMMA TestOpenInv ==
  ASSUME ShellInv, test_open
  PROVE  ShellInv'
<1>1. /\ src_fd = NoFd /\ dst_fd = NoFd /\ copied = FALSE /\ cmd.src = TestFile
      /\ UNCHANGED <<cwd, cmd, dst_fd, buf, copied>> /\ vfs_open(TestFile) /\ src_fd' = ret'
      /\ buf \in Seq(Byte) /\ cwd \in FullPath /\ cmd \in Commands /\ CommandKnown
      /\ cmd.op = "test"
  BY Resting DEF test_open, CommandKnown
<1>a. FsInv' /\ (ret' = -1 \/ ret' \in Nat)
  BY <1>1, InvParts, OpenResult, OperandTyped
<1>2. CASE ret' = -1
  <2>1. FsInv'
    BY <1>a
  <2>2. pc' = "boot"
    BY <1>2 DEF test_open
  <2> QED
    BY <1>1, <1>2, <2>1, <2>2, Resting, NothingHeld DEF Quiet, NoFd
<1>3. CASE ret' \in Nat
  <2>1. pc' = "test_read" /\ ret' >= 0
    BY <1>3 DEF test_open
  <2>2. CommandKnown'
    BY <1>1, <2>1 DEF CommandKnown, Copying
  <2> QED
    BY <1>1, <1>3, <2>1, <2>2, OperandTyped, SourceOpened
<1> QED
  BY <1>a, <1>2, <1>3

LEMMA CpOpenInv ==
  ASSUME ShellInv, NEW op \in {"cp", "mv"}, NEW src \in Operand, NEW dst \in Operand,
         cp_open(op, src, dst)
  PROVE  ShellInv'
<1>1. /\ src_fd = NoFd /\ dst_fd = NoFd /\ copied = FALSE
      /\ UNCHANGED <<cwd, dst_fd, buf, copied>> /\ vfs_open(src) /\ src_fd' = ret'
      /\ buf \in Seq(Byte) /\ cwd \in FullPath
      /\ cmd' = [op |-> op, src |-> src, dst |-> dst]
  BY Resting DEF cp_open, Prompt, Quiet
<1>2. cmd' \in Commands /\ cmd'.src = src /\ cmd'.dst = dst /\ cmd'.op = op
  BY <1>1, OperandTyped, CommandTyped
<1>a. FsInv' /\ (ret' = -1 \/ ret' \in Nat)
  BY <1>1, InvParts, OpenResult, OperandTyped
<1>3. CASE ret' = -1
  <2>1. FsInv'
    BY <1>a
  <2>2. pc' = "cp_done"
    BY <1>3 DEF cp_open
  <2>3. CommandKnown'
    BY <1>2, <2>2 DEF CommandKnown, Copying
  <2> QED
    BY <1>1, <1>2, <1>3, <2>1, <2>2, <2>3, NothingHeld DEF NoFd
<1>4. CASE ret' \in Nat
  <2>1. pc' = "cp_create" /\ ret' >= 0
    BY <1>4 DEF cp_open
  <2>2. CommandKnown'
    BY <1>2, <2>1 DEF CommandKnown, Copying
  <2> QED
    BY <1>1, <1>2, <1>4, <2>1, <2>2, OperandTyped, SourceOpened
<1> QED
  BY <1>a, <1>3, <1>4

LEMMA TestReadInv ==
  ASSUME ShellInv, test_read
  PROVE  ShellInv'
<1>1. /\ pc = "test_read" /\ pc' = "boot" /\ src_fd' = NoFd
      /\ UNCHANGED <<cwd, cmd, dst_fd, copied>>
      /\ vfs_read(src_fd, MAX_CONTENT)
  BY DEF test_read
<1>2. /\ src_fd # NoFd /\ dst_fd = NoFd /\ Ram!get_file(src_fd) # Ram!NULL
      /\ ~OnRam(Ram!get_file(src_fd)) => InodeOf(Ram!get_file(src_fd)) = 0
  BY <1>1 DEF ShellInv, DescriptorsOpen, SourceOpen
<1>3. FsInv' /\ buf' \in Seq(Byte)
  BY <1>1, <1>2, InvParts, ReadFile, Ranges
<1> QED
  BY <1>1, <1>2, <1>3, Resting, NothingHeld DEF Quiet

LEMMA CpCreateInv ==
  ASSUME ShellInv, cp_create
  PROVE  ShellInv'
<1>1. /\ pc = "cp_create" /\ vfs_create(cmd.dst) /\ dst_fd' = ret'
      /\ pc' = IF ret' < 0 THEN "cp_done" ELSE "cp_read"
      /\ UNCHANGED <<cwd, cmd, src_fd, buf, copied>>
  BY DEF cp_create
<1>2. /\ FsInv /\ Control /\ CommandKnown /\ cmd.dst \in FullPath
      /\ cmd.op \in {"cp", "mv"} /\ copied = FALSE
      /\ src_fd # NoFd /\ dst_fd = NoFd /\ Ram!get_file(src_fd) # Ram!NULL
  BY <1>1, InvParts, Resting, OperandTyped DEF CommandKnown, Copying, ShellInv, DescriptorsOpen, Quiet
<1>3. PICK h : h = Ram!get_file(src_fd) /\ h \in 1 .. Len(handles) /\ h # Ram!NULL
  BY <1>2, DescriptorOpen
<1>4. PICK s : s = handles[h].private_data
  OBVIOUS
<1>5. /\ handles[h].f_pos = 0
      /\ OnRam(h) => /\ s \in Ram!Slot /\ files[s].used /\ files[s].path = cmd.src
                     /\ \A t \in Ram!Slot : ~ (t < s /\ files[t].used /\ files[t].path = cmd.src)
      /\ ~OnRam(h) => InodeOf(h) = 0 /\ ~IsPrefix(TmpDir, cmd.src)
      /\ s \in Int
  <2>1. /\ handles[h].f_pos = 0
        /\ OnRam(h) => /\ files[s].used /\ files[s].path = cmd.src
                       /\ \A t \in Ram!Slot : ~ (t < s /\ files[t].used /\ files[t].path = cmd.src)
        /\ ~OnRam(h) => InodeOf(h) = 0 /\ ~IsPrefix(TmpDir, cmd.src)
    BY <1>1, <1>2, <1>3, <1>4 DEF ShellInv, SourceOpen, Copying
  <2> QED
    BY <1>2, <1>3, <1>4, <2>1, HandleTyped
<1>6. /\ FsInv' /\ Keeps
      /\ \A t \in Ram!Slot : files[t].used => files'[t] = files[t] /\ text'[t] = text[t]
      /\ \/ ret' = -1
         \/ \E t \in Ram!Slot :
              /\ Gets(t)
              /\ ~files[t].used /\ files'[t].used
              /\ files'[t].path = StoredName(Full(cmd.dst))
              /\ text'[t] = << >>
              /\ \A u \in Ram!Slot : u # t => files'[u] = files[u]
         \/ \E i \in Inode \ {0} :
              /\ Gets(AbyssFile(i))
              /\ node'[i].size = 0 /\ node'[i].bytes = << >>
              /\ files' = files
              /\ \E k \in DOMAIN root' :
                   root'[k] = [name |-> get_basename(Full(cmd.dst)), inode |-> i]
  BY <1>1, <1>2, CreateFile DEF Control
<1>7. /\ Ram!get_file(src_fd)' = h /\ handles'[h] = handles[h] /\ handles'[h].private_data = s
      /\ src_fd' \in 0 .. (next_fd' - 1) /\ src_fd' # NoFd
  <2>1. src_fd \in 0 .. (next_fd - 1) /\ next_fd \in Int
    BY <1>2, Ranges DEF Control, FsInv, Opened
  <2>2. fd_table'[src_fd] = fd_table[src_fd] /\ src_fd \in Ram!FD /\ next_fd' >= next_fd
    BY <1>2, <1>6, <2>1, DescriptorOpen DEF Keeps
  <2>3. Ram!get_file(src_fd)' = h
    BY <1>1, <1>3, <2>2 DEF Ram!get_file
  <2>4. next_fd' \in Int
    BY <1>6, Ranges DEF FsInv, Opened
  <2>5. src_fd \in 0 .. (next_fd' - 1) /\ src_fd' # NoFd
    <3>1. src_fd' = src_fd /\ src_fd # NoFd
      BY <1>1, <1>2
    <3>2. src_fd \in Int /\ 0 <= src_fd /\ src_fd <= next_fd - 1 /\ next_fd \in Int
      BY <2>1
    <3>3. next_fd' \in Int /\ next_fd' >= next_fd
      BY <2>2, <2>4
    <3>4. \A x, y, z \in Int : 0 <= x /\ x <= y - 1 /\ z >= y => x \in 0 .. (z - 1)
      OBVIOUS
    <3>5. src_fd \in 0 .. (next_fd' - 1)
      BY <3>2, <3>3, <3>4, Zenon
    <3> QED
      BY <3>1, <3>5
  <2>6. handles'[h] = handles[h]
    BY <1>3, <1>6 DEF Keeps
  <2> QED
    BY <1>1, <1>4, <2>3, <2>5, <2>6
<1>8. OnRam(h)' <=> OnRam(h)
  BY <1>7 DEF OnRam
<1>9. InodeOf(h)' = InodeOf(h)
  BY <1>7 DEF InodeOf
<1>10. OnRam(h) => files'[s] = files[s] /\ text'[s] = text[s]
  BY <1>5, <1>6
<1>11. CASE ret' = -1
  <2>1. pc' = "cp_done" /\ dst_fd' = NoFd /\ copied' = FALSE
    BY <1>1, <1>2, <1>11 DEF NoFd
  <2>2. Control'
    BY <1>1, <1>2, <1>7, <2>1 DEF Control, Busy
  <2>3. CommandKnown'
    BY <1>1, <1>2, <2>1 DEF CommandKnown, Copying
  <2>4. DescriptorsOpen'
    BY <1>3, <1>7, <2>1 DEF DescriptorsOpen, Quiet
  <2>5. SourceOpen'
    BY <1>5, <1>7, <1>8, <1>9, <1>10, <2>1 DEF SourceOpen, Copying
  <2>6. TargetOpen' /\ CopyInStep'
    BY <2>1 DEF TargetOpen, CopyInStep
  <2> QED
    BY <1>6, <2>2, <2>3, <2>4, <2>5, <2>6, TypeParts DEF ShellInv, FsInv
<1>12. ASSUME NEW p, Gets(p),
              \/ /\ p \in Ram!Slot /\ ~files[p].used /\ files'[p].used
                 /\ files'[p].path = StoredName(Full(cmd.dst))
                 /\ text'[p] = << >>
                 /\ \A u \in Ram!Slot : u # p => files'[u] = files[u]
              \/ \E i \in Inode \ {0} :
                   /\ p = AbyssFile(i)
                   /\ node'[i].size = 0 /\ node'[i].bytes = << >>
                   /\ files' = files
                   /\ \E k \in DOMAIN root' :
                        root'[k] = [name |-> get_basename(Full(cmd.dst)), inode |-> i]
       PROVE  ShellInv'
  <2>1. PICK g : g = Len(handles) + 1 /\ g # Ram!NULL /\ g # h
    BY <1>2, <1>3, Ranges DEF FsInv, Opened
  <2>2. /\ dst_fd' \in 0 .. (next_fd' - 1) /\ dst_fd' # NoFd /\ dst_fd' = next_fd /\ dst_fd' >= 0
        /\ Ram!get_file(dst_fd)' = g
        /\ handles'[g].private_data = p /\ handles'[g].f_pos = 0
    BY <1>1, <1>12, <2>1 DEF Gets, Ram!get_file, NoFd
  <2>3. pc' = "cp_read" /\ copied' = FALSE
    BY <1>1, <1>2, <2>2
  <2>4. Control'
    BY <1>1, <1>2, <1>7, <2>2, <2>3 DEF Control, Busy
  <2>5. CommandKnown'
    BY <1>1, <1>2, <2>3 DEF CommandKnown, Copying
  <2>6. DescriptorsOpen'
    BY <1>3, <1>7, <2>1, <2>2, <2>3 DEF DescriptorsOpen, Quiet
  <2>7. /\ p # s
        /\ OnRam(g)' => /\ p \in Ram!Slot /\ files'[p].used /\ ~files[p].used
                        /\ files'[p].path = StoredName(Full(cmd.dst))
                        /\ text'[p] = << >>
                        /\ \A u \in Ram!Slot : u # p => files'[u] = files[u]
        /\ ~OnRam(g)' => /\ files' = files
                         /\ \E k \in DOMAIN root' :
                              root'[k] = [name |-> get_basename(Full(cmd.dst)),
                                          inode |-> InodeOf(g)']
                         /\ node'[InodeOf(g)'].size = 0 /\ node'[InodeOf(g)'].bytes = << >>
    <3>1. CASE p \in Ram!Slot
      <4>1. OnRam(g)'
        BY <2>2, <3>1, Ranges DEF OnRam
      <4>2. \A i \in Inode : p # AbyssFile(i)
        BY <3>1, Ranges
      <4>3. p # s
        <5>1. CASE OnRam(h)
          BY <1>5, <1>12, <4>2, <5>1
        <5>2. CASE ~OnRam(h)
          BY <1>4, <3>1, <5>2, Ranges DEF OnRam
        <5> QED
          BY <5>1, <5>2
      <4> QED
        BY <1>12, <3>1, <4>1, <4>2, <4>3
    <3>2. ASSUME NEW i \in Inode \ {0}, p = AbyssFile(i),
                 node'[i].size = 0, node'[i].bytes = << >>, files' = files
          PROVE  /\ p # s /\ ~OnRam(g)' /\ InodeOf(g)' = i
      <4>1. p < 0 /\ -1 - p = i /\ p \in Int
        BY <3>2, Ranges DEF AbyssFile
      <4>2. ~OnRam(g)' /\ InodeOf(g)' = i
        BY <2>2, <4>1 DEF OnRam, InodeOf
      <4>3. p # s
        <5>1. CASE OnRam(h)
          BY <1>5, <4>1, <5>1, Ranges
        <5>2. CASE ~OnRam(h)
          <6>1. -1 - s = 0
            BY <1>4, <1>5, <5>2 DEF InodeOf
          <6> QED
            BY <4>1, <6>1
        <5> QED
          BY <5>1, <5>2
      <4> QED
        BY <4>2, <4>3
    <3>3. \/ p \in Ram!Slot
          \/ \E i \in Inode \ {0} :
               /\ p = AbyssFile(i)
               /\ node'[i].size = 0 /\ node'[i].bytes = << >>
               /\ files' = files
               /\ \E k \in DOMAIN root' :
                    root'[k] = [name |-> get_basename(Full(cmd.dst)), inode |-> i]
      BY <1>12
    <3> QED
      BY <3>1, <3>2, <3>3
  <2>8. SourceOpen'
    <3>1. CASE OnRam(h)
      <4>1. ASSUME NEW t \in Ram!Slot, t < s, files'[t].used, files'[t].path = cmd.src
            PROVE  t = p
        BY <1>5, <2>7, <3>1, <4>1
      <4> QED
        BY <1>1, <1>5, <1>7, <1>8, <1>10, <2>2, <2>3, <3>1, <4>1 DEF SourceOpen
    <3>2. CASE ~OnRam(h)
      BY <1>1, <1>5, <1>7, <1>8, <1>9, <2>3, <3>2 DEF SourceOpen
    <3> QED
      BY <3>1, <3>2
  <2>9. /\ StoredName(Full(cmd.dst))' = StoredName(Full(cmd.dst))
        /\ get_basename(Full(cmd.dst))' = get_basename(Full(cmd.dst))
    BY <1>1 DEF StoredName, Full
  <2>10. TargetOpen'
    BY <1>7, <2>1, <2>2, <2>3, <2>7, <2>9 DEF TargetOpen
  <2>11. CopyInStep'
    <3>1. Source' \in Seq(Byte)
      <4>1. Source' = IF OnRam(h)' THEN text'[s] ELSE << >>
        BY <1>7 DEF Source
      <4>2. OnRam(h)' => text'[s] \in Seq(Byte)
        BY <1>5, <1>6, <1>8 DEF FsInv, Stored
      <4> QED
        BY <4>1, <4>2
    <3>2. Len(Source') \in Nat /\ SubSeq(Source', 1, 0) = << >>
      BY <3>1, SubSeqEmpty
    <3>3. Boundary(0)'
      BY <3>2 DEF Boundary
    <3>4. HasFirst(0)'
      BY <2>2, <2>7, <3>2 DEF HasFirst
    <3>5. handles'[h].f_pos = 0
      BY <1>5, <1>7
    <3> QED
      BY <1>7, <2>3, <3>3, <3>4, <3>5 DEF CopyInStep
  <2> QED
    BY <1>6, <2>4, <2>5, <2>6, <2>8, <2>10, <2>11, TypeParts DEF ShellInv, FsInv
<1> QED
  BY <1>6, <1>11, <1>12

(* What holds in the loop of cp and at its end, for the handle h of its    *)
(* source and g of its destination.                                        *)
InLoop(h, g, s, t) ==
  /\ FsInv /\ Control /\ CommandKnown
  /\ cmd.op \in {"cp", "mv"}
  /\ src_fd # NoFd /\ dst_fd # NoFd
  /\ h = Ram!get_file(src_fd) /\ h \in 1 .. Len(handles) /\ h # Ram!NULL
  /\ g = Ram!get_file(dst_fd) /\ g \in 1 .. Len(handles) /\ g # Ram!NULL
  /\ s = handles[h].private_data /\ t = handles[g].private_data
  /\ h # g /\ s # t
  /\ OnRam(h) => /\ s \in Ram!Slot /\ files[s].used /\ files[s].path = cmd.src
                 /\ \A u \in Ram!Slot :
                      u < s /\ files[u].used /\ files[u].path = cmd.src => u = t
  /\ ~OnRam(h) => InodeOf(h) = 0 /\ ~IsPrefix(TmpDir, cmd.src)
  /\ OnRam(g) => /\ t \in Ram!Slot /\ files[t].used
                 /\ files[t].path = StoredName(Full(cmd.dst))
  /\ ~OnRam(g) =>
       /\ InodeOf(g) \in Inode /\ InodeOf(g) # 0
       /\ \E k \in DOMAIN root :
            root[k] = [name |-> get_basename(Full(cmd.dst)), inode |-> InodeOf(g)]
  /\ handles[h].f_pos \in Nat
  /\ Source = TextOf(h) /\ Source \in Seq(Byte) /\ Len(Source) \in 0 .. MAX_CONTENT

LEMMA LoopState ==
  ASSUME ShellInv, pc \in {"cp_read", "cp_write"} \/ copied
  PROVE  \E h, g, s, t : InLoop(h, g, s, t)
<1>1. /\ FsInv /\ Control /\ CommandKnown
      /\ cmd.op \in {"cp", "mv"}
      /\ src_fd # NoFd /\ Ram!get_file(src_fd) # Ram!NULL
      /\ dst_fd # NoFd /\ Ram!get_file(dst_fd) # Ram!NULL
  BY InvParts, Resting DEF CommandKnown, Copying, ShellInv, DescriptorsOpen
<1>2. PICK h : h = Ram!get_file(src_fd) /\ h \in 1 .. Len(handles) /\ h # Ram!NULL
  BY <1>1, DescriptorOpen
<1>3. PICK g : g = Ram!get_file(dst_fd) /\ g \in 1 .. Len(handles) /\ g # Ram!NULL
  BY <1>1, DescriptorOpen
<1>4. PICK s : s = handles[h].private_data
  OBVIOUS
<1>5. PICK t : t = handles[g].private_data
  OBVIOUS
<1>6. /\ OnRam(h) => /\ s \in Ram!Slot /\ files[s].used /\ files[s].path = cmd.src
                     /\ \A u \in Ram!Slot :
                          u < s /\ files[u].used /\ files[u].path = cmd.src => u = t
      /\ ~OnRam(h) => InodeOf(h) = 0 /\ ~IsPrefix(TmpDir, cmd.src)
  <2>1. OnRam(h) => s \in Ram!Slot
    BY <1>1, <1>2, <1>4, HandleTyped
  <2>2. /\ OnRam(h) => /\ files[s].used /\ files[s].path = cmd.src
                       /\ \A u \in Ram!Slot :
                            u < s /\ files[u].used /\ files[u].path = cmd.src => u = t
        /\ ~OnRam(h) => InodeOf(h) = 0 /\ ~IsPrefix(TmpDir, cmd.src)
    BY <1>1, <1>2, <1>3, <1>4, <1>5 DEF ShellInv, SourceOpen, Copying
  <2> QED
    BY <2>1, <2>2
<1>7. /\ h # g /\ s # t
      /\ OnRam(g) => files[t].used /\ files[t].path = StoredName(Full(cmd.dst))
      /\ ~OnRam(g) => \E k \in DOMAIN root :
           root[k] = [name |-> get_basename(Full(cmd.dst)), inode |-> InodeOf(g)]
  BY <1>2, <1>3, <1>4, <1>5 DEF ShellInv, TargetOpen
<1>8. /\ OnRam(g) => t \in Ram!Slot
      /\ ~OnRam(g) => InodeOf(g) \in Inode
  BY <1>1, <1>3, <1>5, HandleTyped
(* Inode 0 is not in use, and no entry has it. *)
<1>a. ~OnRam(g) => InodeOf(g) # 0
  <2>1. SUFFICES ASSUME ~OnRam(g), InodeOf(g) = 0
                 PROVE  FALSE
    OBVIOUS
  <2>2. PICK k \in DOMAIN root :
          root[k] = [name |-> get_basename(Full(cmd.dst)), inode |-> InodeOf(g)]
    BY <1>7, <2>1
  <2>3. node[root[k].inode].used /\ ~node[0].used
    BY <1>1 DEF FsInv, EntriesAreFiles
  <2> QED
    BY <2>1, <2>2, <2>3
<1>9. Source = TextOf(h)
  BY <1>2 DEF Source, TextOf
<1>10. handles[h].f_pos \in Nat /\ Source \in Seq(Byte) /\ Len(Source) \in 0 .. MAX_CONTENT
  BY <1>1, <1>2, <1>9, HandleTyped
<1>11. InLoop(h, g, s, t)
  BY <1>1, <1>2, <1>3, <1>4, <1>5, <1>6, <1>7, <1>8, <1>a, <1>9, <1>10 DEF InLoop
<1> QED
  BY <1>11

(* A step of the loop that leaves names, and what the descriptors lead to, *)
(* as they are.                                                            *)
LEMMA LoopKept ==
  ASSUME NEW h, NEW g, NEW s, NEW t, InLoop(h, g, s, t), FsInv', buf' \in Seq(Byte),
         UNCHANGED <<root, fd_table, next_fd, src_fd, dst_fd, cmd, cwd>>,
         handles'[h].private_data = s, handles'[g].private_data = t,
         \A u \in Ram!Slot : files'[u].used = files[u].used /\ files'[u].path = files[u].path,
         OnRam(h) => text'[s] = text[s],
         pc' \in {"cp_read", "cp_write", "cp_done"}, copied' \in BOOLEAN,
         copied' => pc' = "cp_done"
  PROVE  /\ Control' /\ CommandKnown' /\ DescriptorsOpen' /\ SourceOpen' /\ TargetOpen'
         /\ Ram!get_file(src_fd)' = h /\ Ram!get_file(dst_fd)' = g
         /\ (OnRam(h)' <=> OnRam(h)) /\ (OnRam(g)' <=> OnRam(g))
         /\ InodeOf(g)' = InodeOf(g)
         /\ Source' = Source
<1>1. Ram!get_file(src_fd)' = h /\ Ram!get_file(dst_fd)' = g
  BY DEF InLoop, Ram!get_file
<1>2. (OnRam(h)' <=> OnRam(h)) /\ (OnRam(g)' <=> OnRam(g))
  BY DEF OnRam, InLoop
<1>3. InodeOf(h)' = InodeOf(h) /\ InodeOf(g)' = InodeOf(g)
  BY DEF InodeOf, InLoop
<1>4. Source' = Source
  BY <1>1, <1>2 DEF Source, InLoop
<1>5. Control'
  BY DEF InLoop, Control, Busy
<1>6. CommandKnown'
  BY DEF InLoop, CommandKnown, Copying
<1>7. DescriptorsOpen'
  BY <1>1 DEF InLoop, DescriptorsOpen, Quiet
<1>8. SourceOpen'
  <2>1. /\ src_fd' # NoFd /\ dst_fd' # NoFd /\ cmd' = cmd /\ pc' # "cp_create"
    BY DEF InLoop
  <2>2. CASE OnRam(h)
    <3>1. /\ s \in Ram!Slot /\ files'[s].used /\ files'[s].path = cmd.src
          /\ \A u \in Ram!Slot :
               u < s /\ files'[u].used /\ files'[u].path = cmd.src => u = t
      BY <2>2 DEF InLoop
    <3> QED
      BY <1>1, <1>2, <2>1, <2>2, <3>1 DEF SourceOpen
  <2>3. CASE ~OnRam(h)
    <3>1. InodeOf(h)' = 0 /\ ~IsPrefix(TmpDir, cmd.src)
      BY <1>3, <2>3 DEF InLoop
    <3> QED
      BY <1>1, <1>2, <2>1, <2>3, <3>1 DEF SourceOpen
  <2> QED
    BY <2>2, <2>3
<1>9. TargetOpen'
  <2>1. /\ StoredName(Full(cmd.dst))' = StoredName(Full(cmd.dst))
        /\ get_basename(Full(cmd.dst))' = get_basename(Full(cmd.dst))
    BY DEF StoredName, Full
  <2>2. h # g /\ s # t
    BY DEF InLoop
  <2>3. OnRam(g) => files'[t].used /\ files'[t].path = StoredName(Full(cmd.dst))
    BY DEF InLoop
  <2>4. ~OnRam(g) => \E k \in DOMAIN root' :
          root'[k] = [name |-> get_basename(Full(cmd.dst)), inode |-> InodeOf(g)']
    BY <1>3 DEF InLoop
  <2> QED
    BY <1>1, <1>2, <2>1, <2>2, <2>3, <2>4 DEF TargetOpen
<1> QED
  BY <1>1, <1>2, <1>3, <1>4, <1>5, <1>6, <1>7, <1>8, <1>9

(* The loop has moved the source on to position a.                         *)
LEMMA LoopStep ==
  ASSUME NEW h, NEW g, NEW s, NEW t, NEW a, FsInv', InLoop(h, g, s, t),
         Control', CommandKnown', DescriptorsOpen', SourceOpen', TargetOpen',
         Ram!get_file(src_fd)' = h, handles'[h].f_pos = a,
         pc' = "cp_read" => Boundary(a)' /\ HasFirst(a)',
         pc' = "cp_write" =>
           /\ Boundary(a)'
           /\ \E k \in 0 .. a : /\ k < a /\ a - k <= CHUNK
                                /\ Boundary(k)' /\ HasFirst(k)'
                                /\ buf' = SubSeq(Source', k + 1, a),
         copied' => a = Len(Source') /\ HasFirst(a)'
  PROVE  ShellInv'
<1>1. CopyInStep'
  BY DEF CopyInStep
<1> QED
  BY <1>1, TypeParts DEF ShellInv, FsInv

LEMMA CpReadInv ==
  ASSUME ShellInv, cp_read
  PROVE  ShellInv'
<1>1. /\ pc = "cp_read" /\ vfs_read(src_fd, CHUNK)
      /\ pc' = IF ret' > 0 THEN "cp_write" ELSE "cp_done"
      /\ copied' = (ret' = 0)
      /\ UNCHANGED <<cwd, cmd, src_fd, dst_fd>>
  BY DEF cp_read
<1>2. PICK h, g, s, t : InLoop(h, g, s, t)
  BY <1>1, LoopState
<1>3. CHUNK \in Nat /\ CHUNK > 0
  BY ShellAssumption
<1>4. PICK a, n : a = handles[h].f_pos /\ n = Advance(h, CHUNK)
  OBVIOUS
<1>5. /\ FsInv /\ h = Ram!get_file(src_fd) /\ h # Ram!NULL /\ h \in 1 .. Len(handles)
      /\ ~OnRam(h) => InodeOf(h) = 0
      /\ g \in 1 .. Len(handles) /\ h # g
      /\ s = handles[h].private_data /\ t = handles[g].private_data
      /\ Source = TextOf(h) /\ Source \in Seq(Byte) /\ Len(Source) \in Nat /\ a \in Nat
      /\ OnRam(h) => s \in Ram!Slot
  BY <1>2, <1>4, Ranges DEF InLoop
<1>6. /\ FsInv' /\ UNCHANGED <<files, text, node, root, fd_table, next_fd>>
      /\ \A k \in 1 .. Len(handles) : /\ handles'[k].private_data = handles[k].private_data
                                      /\ k # h => handles'[k] = handles[k]
      /\ n \in Nat /\ n <= CHUNK
      /\ ret' = n
      /\ handles'[h].f_pos = a + n
      /\ buf' = SubSeq(Source, a + 1, a + n)
      /\ buf' \in Seq(Byte)
  <2>1. /\ FsInv' /\ UNCHANGED <<files, text, node, root, fd_table, next_fd>>
        /\ \A k \in 1 .. Len(handles) : /\ handles'[k].private_data = handles[k].private_data
                                        /\ k # h => handles'[k] = handles[k]
        /\ Advance(h, CHUNK) \in Nat /\ Advance(h, CHUNK) <= CHUNK
        /\ ret' = Advance(h, CHUNK)
        /\ handles'[h].f_pos = handles[h].f_pos + ret'
        /\ buf' = SubSeq(TextOf(h), handles[h].f_pos + 1, handles[h].f_pos + ret')
        /\ buf' \in Seq(Byte)
    BY <1>1, <1>3, <1>5, ReadFile
  <2> QED
    BY <1>4, <1>5, <2>1
<1>7. handles'[h].private_data = s /\ handles'[g].private_data = t /\ handles'[g] = handles[g]
  BY <1>5, <1>6
<1>8. /\ pc' = IF n > 0 THEN "cp_write" ELSE "cp_done"
      /\ copied' = (n = 0)
  BY <1>1, <1>6
<1>9. copied' \in BOOLEAN /\ (copied' => pc' = "cp_done") /\ pc' \in {"cp_read", "cp_write", "cp_done"}
  <2>1. (n = 0) \in BOOLEAN
    OBVIOUS
  <2>2. copied' \in BOOLEAN
    BY <1>8, <2>1, Zenon
  <2>3. n = 0 => ~ (n > 0)
    OBVIOUS
  <2>4. copied' => pc' = "cp_done"
    BY <1>8, <2>3, Zenon
  <2> QED
    BY <1>8, <2>2, <2>4, Zenon
<1>10. \A u \in Ram!Slot : files'[u].used = files[u].used /\ files'[u].path = files[u].path
  BY <1>6
<1>11. /\ Control' /\ CommandKnown' /\ DescriptorsOpen' /\ SourceOpen' /\ TargetOpen'
       /\ Ram!get_file(src_fd)' = h /\ Ram!get_file(dst_fd)' = g
       /\ (OnRam(g)' <=> OnRam(g)) /\ InodeOf(g)' = InodeOf(g)
       /\ Source' = Source
  <2>1. /\ UNCHANGED <<root, fd_table, next_fd, src_fd, dst_fd, cmd, cwd>>
        /\ OnRam(h) => text'[s] = text[s]
    BY <1>1, <1>6
  <2> QED
    BY <1>2, <1>6, <1>7, <1>9, <1>10, <2>1, LoopKept
<1>12. Boundary(a) /\ HasFirst(a)
  <2>1. CopyInStep
    BY DEF ShellInv
  <2> QED
    BY <1>1, <1>4, <1>5, <2>1 DEF CopyInStep
<1>13. a \in 0 .. Len(Source) /\ (a = 0 \/ a >= CHUNK \/ a = Len(Source))
  BY <1>12 DEF Boundary
<1>14. \A k : Boundary(k)' <=> Boundary(k)
  BY <1>11 DEF Boundary
<1>15. HasFirst(a)'
  <2>1. Ram!get_file(dst_fd) = g
    BY <1>2 DEF InLoop
  <2>2. CASE OnRam(g)
    BY <1>5, <1>6, <1>7, <1>11, <1>12, <2>1, <2>2 DEF HasFirst
  <2>3. CASE ~OnRam(g)
    BY <1>6, <1>11, <1>12, <2>1, <2>3 DEF HasFirst
  <2> QED
    BY <2>2, <2>3
<1>16. CASE n = 0
  <2>1. a = Len(Source)
    <3>1. a >= Len(Source)
      <4>1. SUFFICES ASSUME ~ (a >= Len(Source))
                     PROVE  FALSE
        OBVIOUS
      <4>2. n = Ram!Least(CHUNK, Len(Source) - a)
        BY <1>4, <1>5, <4>1 DEF Advance
      <4> QED
        BY <1>3, <1>5, <1>16, <4>1, <4>2 DEF Ram!Least
    <3> QED
      BY <1>5, <1>13, <3>1
  <2>2. pc' = "cp_done" /\ handles'[h].f_pos = a
    BY <1>5, <1>6, <1>8, <1>16
  <2> QED
    BY <1>2, <1>6, <1>11, <1>15, <2>1, <2>2, LoopStep
<1>17. CASE n > 0
  <2>1. /\ a + n \in 0 .. Len(Source)
        /\ a + n = 0 \/ a + n >= CHUNK \/ a + n = Len(Source)
    <3>1. ~ (a >= Len(Source)) /\ n = Ram!Least(CHUNK, Len(Source) - a)
      BY <1>4, <1>5, <1>17 DEF Advance
    <3>2. n = IF CHUNK <= Len(Source) - a THEN CHUNK ELSE Len(Source) - a
      BY <3>1 DEF Ram!Least
    <3>3. \A x, y, z, w \in Nat :
            /\ ~ (x >= y) /\ z > 0
            /\ w = IF z <= y - x THEN z ELSE y - x
            => x + w \in 0 .. y /\ (x + w = 0 \/ x + w >= z \/ x + w = y)
      OBVIOUS
    <3>4. a \in Nat /\ Len(Source) \in Nat /\ CHUNK \in Nat /\ n \in Nat
      BY <1>3, <1>5, <1>6
    <3> QED
      BY <1>3, <3>1, <3>2, <3>3, <3>4, Zenon
  <2>2. Boundary(a + n)'
    BY <1>14, <2>1 DEF Boundary
  <2>3. /\ a \in 0 .. (a + n) /\ a < a + n /\ (a + n) - a <= CHUNK
    <3>1. a \in Nat /\ n \in Nat /\ n <= CHUNK
      BY <1>5, <1>6
    <3> QED
      BY <1>3, <1>17, <3>1
  <2>4. pc' = "cp_write" /\ ~copied'
    <3>1. n # 0
      BY <1>17, <1>6
    <3> QED
      BY <1>8, <1>17, <3>1, Zenon
  <2>5. \E k \in 0 .. (a + n) : /\ k < a + n /\ (a + n) - k <= CHUNK
                                /\ Boundary(k)' /\ HasFirst(k)'
                                /\ buf' = SubSeq(Source', k + 1, a + n)
    <3>1. buf' = SubSeq(Source', a + 1, a + n) /\ Boundary(a)'
      BY <1>6, <1>11, <1>12, <1>14
    <3> QED
      BY <1>15, <2>3, <3>1
  <2>6. PICK b : b = a + n
    OBVIOUS
  <2>7. /\ handles'[h].f_pos = b /\ Boundary(b)'
        /\ \E k \in 0 .. b : /\ k < b /\ b - k <= CHUNK
                             /\ Boundary(k)' /\ HasFirst(k)'
                             /\ buf' = SubSeq(Source', k + 1, b)
    BY <1>6, <2>2, <2>5, <2>6
  <2> QED
    BY <1>2, <1>6, <1>11, <2>4, <2>7, LoopStep
<1> QED
  BY <1>6, <1>16, <1>17

(* No file of RAMFS in use is changed.                                     *)
Kept == \A u \in Ram!Slot : files[u].used => /\ files'[u].used
                                            /\ files'[u].path = files[u].path
                                            /\ text'[u] = text[u]

(* No file but the copy is changed.                                        *)
CopyWritten ==
  \E t \in Ram!Slot :
    /\ files[t].used /\ files[t].path = StoredName(Full(cmd.dst))
    /\ files'[t].used
    /\ \A u \in Ram!Slot : u # t => files'[u] = files[u] /\ text'[u] = text[u]

(* No entry of AbyssFS goes, and no file is changed but one with the name  *)
(* of the copy.                                                            *)
RootWritten ==
  \A k \in DOMAIN root :
    /\ \E l \in DOMAIN root' : root'[l] = root[k]
    /\ \/ node'[root[k].inode] = node[root[k].inode]
       \/ root[k].name = get_basename(Full(cmd.dst))

LEMMA CpWriteInv ==
  ASSUME ShellInv, cp_write
  PROVE  ShellInv' /\ (Kept \/ CopyWritten) /\ RootWritten
<1>1. /\ pc = "cp_write" /\ vfs_write(dst_fd, buf)
      /\ pc' = IF ret' = Len(buf) THEN "cp_read" ELSE "cp_done"
      /\ UNCHANGED <<cwd, cmd, src_fd, dst_fd, buf, copied>>
  BY DEF cp_write, locals
<1>2. PICK h, g, s, t : InLoop(h, g, s, t)
  BY <1>1, LoopState
<1>3. CHUNK \in Nat /\ CHUNK > 0 /\ MAX_CONTENT \in Nat
  BY ShellAssumption
<1>4. PICK a : a = handles[h].f_pos
  OBVIOUS
<1>5. /\ FsInv /\ h = Ram!get_file(src_fd) /\ h # Ram!NULL /\ h \in 1 .. Len(handles)
      /\ g = Ram!get_file(dst_fd) /\ g # Ram!NULL /\ g \in 1 .. Len(handles) /\ h # g
      /\ s = handles[h].private_data /\ t = handles[g].private_data /\ s # t
      /\ ~OnRam(g) => InodeOf(g) \in Inode /\ InodeOf(g) # 0
      /\ Source \in Seq(Byte) /\ Len(Source) \in 0 .. MAX_CONTENT /\ a \in Nat
      /\ OnRam(h) => s \in Ram!Slot
      /\ copied = FALSE
  BY <1>1, <1>2, <1>4, Resting DEF InLoop
<1>6. PICK k \in 0 .. a : /\ k < a /\ a - k <= CHUNK
                          /\ Boundary(k) /\ HasFirst(k)
                          /\ buf = SubSeq(Source, k + 1, a)
  <2>1. CopyInStep
    BY DEF ShellInv
  <2> QED
    BY <1>1, <1>4, <1>5, <2>1 DEF CopyInStep
<1>7. Boundary(a)
  <2>1. CopyInStep
    BY DEF ShellInv
  <2> QED
    BY <1>1, <1>4, <1>5, <2>1 DEF CopyInStep
<1>8. /\ k \in Nat /\ k < a /\ a - k <= CHUNK /\ a \in 0 .. Len(Source) /\ Len(Source) \in Nat
      /\ Len(Source) <= MAX_CONTENT
      /\ k = 0 \/ k >= CHUNK \/ k = Len(Source)
  <2>1. a \in 0 .. Len(Source) /\ k \in 0 .. Len(Source)
        /\ (k = 0 \/ k >= CHUNK \/ k = Len(Source))
    BY <1>6, <1>7 DEF Boundary
  <2>2. Len(Source) \in Nat /\ Len(Source) <= MAX_CONTENT /\ a \in Nat
    BY <1>3, <1>5
  <2> QED
    BY <1>6, <2>1, <2>2
<1>9. /\ buf \in Seq(Byte) /\ Len(buf) = a - k /\ buf # << >>
  <2>1. buf \in Seq(Byte)
    BY Resting
  <2>2. k + 1 \in 1 .. Len(Source) /\ a \in 1 .. Len(Source)
    BY <1>8
  <2>3. Len(SubSeq(Source, k + 1, a)) = a - (k + 1) + 1
    BY <1>5, <1>8, <2>2, SubSeqProperties
  <2>4. Len(buf) = a - k /\ Len(buf) > 0
    <3>1. a - (k + 1) + 1 = a - k /\ a - k > 0
      BY <1>8
    <3> QED
      BY <1>6, <2>3, <3>1
  <2> QED
    BY <2>1, <2>4
(* The two parts make the next. *)
<1>10. SubSeq(Source, 1, k) \o buf = SubSeq(Source, 1, a)
  <2>1. 1 \in 1 .. Len(Source) + 1 /\ k \in (1 - 1) .. Len(Source) /\ a \in k .. Len(Source)
    BY <1>8
  <2> QED
    BY <1>5, <1>6, <2>1, ConcatAdjacentSubSeq
<1>11. Len(SubSeq(Source, 1, k)) = k
  <2>1. CASE k = 0
    BY <1>8, <2>1, SubSeqEmpty
  <2>2. CASE k # 0
    <3>1. 1 \in 1 .. Len(Source) /\ k \in 1 .. Len(Source)
      BY <1>8, <2>2
    <3>2. Len(SubSeq(Source, 1, k)) = k - 1 + 1
      BY <1>5, <1>8, <3>1, SubSeqProperties
    <3>3. k - 1 + 1 = k
      BY <1>8
    <3> QED
      BY <3>2, <3>3
  <2> QED
    BY <2>1, <2>2
<1>12. /\ copied' = FALSE /\ ~copied' /\ buf' \in Seq(Byte)
       /\ pc' \in {"cp_read", "cp_write", "cp_done"} /\ pc' # "cp_write"
  BY <1>1, <1>5, <1>9
<1>13. CASE OnRam(g)
  <2>1. /\ t \in Ram!Slot /\ files[t].used /\ IsPrefix(TmpDir, files[t].path)
        /\ files[t].path = StoredName(Full(cmd.dst))
    <3>1. /\ t \in Ram!Slot /\ files[t].used /\ files[t].path = StoredName(Full(cmd.dst))
          /\ cmd.op \in {"cp", "mv"} /\ CommandKnown
      BY <1>2, <1>13 DEF InLoop
    <3>2. cmd.dst \in FullPath /\ cwd \in FullPath
      BY <3>1, Resting, OperandTyped DEF CommandKnown
    <3> QED
      <4>1. Full(cmd.dst) \in FullPath
        BY <3>2, FullTyped
      <4>2. Full(cmd.dst) \in Seq(Token)
        BY <4>1 DEF FullPath
      <4> QED
        BY <3>1, <4>2, StoredNameTyped
  <2>2. handles[g].f_pos = k /\ text[t] = SubSeq(Source, 1, k)
    BY <1>5, <1>6, <1>13 DEF HasFirst
  <2>3. /\ handles[g].f_pos = Len(text[t]) /\ Len(text[t]) + Len(buf) <= MAX_CONTENT
    <3>1. Len(text[t]) = k
      BY <1>11, <2>2
    <3>2. k + (a - k) <= MAX_CONTENT
      BY <1>3, <1>8
    <3> QED
      BY <1>9, <2>2, <3>1, <3>2
  <2>4. /\ FsInv' /\ UNCHANGED <<node, root, fd_table, next_fd>>
        /\ \A j \in 1 .. Len(handles) : /\ handles'[j].private_data = handles[j].private_data
                                        /\ j # g => handles'[j] = handles[j]
        /\ ret' = Len(buf)
        /\ handles'[g].f_pos = handles[g].f_pos + Len(buf)
        /\ \A u \in Ram!Slot : /\ files'[u].used = files[u].used
                               /\ files'[u].path = files[u].path
                               /\ u # t => files'[u] = files[u] /\ text'[u] = text[u]
        /\ text'[t] = text[t] \o buf
    <3>1. /\ FsInv /\ vfs_write(dst_fd, buf) /\ buf \in Seq(Byte) /\ buf # << >>
          /\ g = Ram!get_file(dst_fd) /\ g # Ram!NULL /\ OnRam(g)
          /\ t = handles[g].private_data
      BY <1>1, <1>5, <1>9, <1>13
    <3> QED
      <4>1. FsInv' /\ Appends(g, t, buf)
        BY <2>1, <2>3, <3>1, AppendToFile
      <4> QED
        BY <4>1 DEF Appends
  <2>5. /\ handles'[h].private_data = s /\ handles'[g].private_data = t
        /\ handles'[h].f_pos = a
        /\ OnRam(h) => text'[s] = text[s]
    BY <1>4, <1>5, <2>4
  <2>6. text'[t] = SubSeq(Source, 1, a) /\ handles'[g].f_pos = a
    <3>1. k + (a - k) = a
      BY <1>8
    <3> QED
      BY <1>9, <1>10, <2>2, <2>4, <3>1
  <2>7. pc' = "cp_read"
    BY <1>1, <2>4
  <2>8. \A u \in Ram!Slot : files'[u].used = files[u].used /\ files'[u].path = files[u].path
    BY <2>4
  <2>9. /\ Control' /\ CommandKnown' /\ DescriptorsOpen' /\ SourceOpen' /\ TargetOpen'
        /\ Ram!get_file(src_fd)' = h /\ Ram!get_file(dst_fd)' = g
        /\ (OnRam(g)' <=> OnRam(g))
        /\ Source' = Source
    <3>1. /\ UNCHANGED <<root, fd_table, next_fd, src_fd, dst_fd, cmd, cwd>>
          /\ copied' \in BOOLEAN /\ (copied' => pc' = "cp_done")
          /\ FsInv'
      BY <1>1, <1>12, <2>4
    <3> QED
      BY <1>2, <1>12, <2>5, <2>8, <3>1, LoopKept
  <2>10. Boundary(a)'
    BY <1>7, <2>9 DEF Boundary
  <2>11. HasFirst(a)'
    BY <1>13, <2>5, <2>6, <2>9 DEF HasFirst
  <2>12. CopyWritten
    BY <2>1, <2>4 DEF CopyWritten
  <2>13. RootWritten
    BY <2>4 DEF RootWritten
  <2> QED
    BY <1>2, <1>12, <2>4, <2>5, <2>7, <2>9, <2>10, <2>11, <2>12, <2>13, LoopStep
<1>14. CASE ~OnRam(g)
  <2>1. PICK i : i = InodeOf(g) /\ i \in Inode /\ i # 0
    BY <1>5, <1>14
  <2>2. /\ FsInv' /\ UNCHANGED <<files, text, root, handles, fd_table, next_fd>>
        /\ \A j \in Inode : j # i => node'[j] = node[j]
        /\ \/ ret' = 0
           \/ /\ ret' = Len(buf)
              /\ node'[i].size = node[i].size + Len(buf)
              /\ node'[i].bytes =
                   buf \o SubSeq(node[i].bytes, Len(buf) + 1, Len(node[i].bytes))
    <3>1. /\ FsInv /\ vfs_write(dst_fd, buf) /\ buf \in Seq(Byte) /\ buf # << >>
          /\ g = Ram!get_file(dst_fd) /\ g # Ram!NULL /\ ~OnRam(g)
      BY <1>1, <1>5, <1>9, <1>14
    <3>2. PICK fd, bytes : fd = dst_fd /\ bytes = buf
      OBVIOUS
    <3>3. /\ vfs_write(fd, bytes) /\ bytes \in Seq(Byte) /\ bytes # << >>
          /\ g = Ram!get_file(fd) /\ g # Ram!NULL /\ ~OnRam(g)
      BY <3>1, <3>2
    <3>4. FsInv' /\ InodeWritten(i, bytes)
      BY <2>1, <3>1, <3>3, WriteInode
    <3> QED
      BY <3>2, <3>4 DEF InodeWritten
  <2>3. /\ handles'[h].private_data = s /\ handles'[g].private_data = t
        /\ handles'[h].f_pos = a
        /\ OnRam(h) => text'[s] = text[s]
    BY <1>4, <1>5, <2>2
  <2>4. /\ Control' /\ CommandKnown' /\ DescriptorsOpen' /\ SourceOpen' /\ TargetOpen'
        /\ Ram!get_file(src_fd)' = h /\ Ram!get_file(dst_fd)' = g
        /\ (OnRam(g)' <=> OnRam(g)) /\ InodeOf(g)' = InodeOf(g)
        /\ Source' = Source
    <3>1. /\ UNCHANGED <<root, fd_table, next_fd, src_fd, dst_fd, cmd, cwd>>
          /\ \A u \in Ram!Slot : files'[u].used = files[u].used /\ files'[u].path = files[u].path
          /\ OnRam(h) => text'[s] = text[s]
          /\ copied' \in BOOLEAN /\ (copied' => pc' = "cp_done")
      BY <1>1, <1>12, <2>2
    <3> QED
      BY <1>2, <1>12, <2>2, <2>3, <3>1, LoopKept
  <2>5. ASSUME ret' = 0
        PROVE  ShellInv'
    <3>1. pc' = "cp_done"
      <4>1. Len(buf) # 0
        BY <1>8, <1>9
      <4> QED
        BY <1>1, <2>5, <4>1
    <3> QED
      <4>1. FsInv' /\ handles'[h].f_pos = a
        BY <2>2, <2>3
      <4>2. pc' # "cp_read"
        BY <3>1
      <4> QED
        BY <1>2, <1>12, <2>4, <4>1, <4>2, LoopStep
  <2>6. ASSUME ret' # 0
        PROVE  ShellInv'
    <3>1. /\ ret' = Len(buf)
          /\ node'[i].size = node[i].size + Len(buf)
          /\ node'[i].bytes = buf \o SubSeq(node[i].bytes, Len(buf) + 1, Len(node[i].bytes))
      BY <2>2, <2>6
    <3>2. /\ node[i].size = k
          /\ k <= CHUNK => node[i].bytes = SubSeq(Source, 1, k)
      BY <1>5, <1>6, <1>14, <2>1 DEF HasFirst
    <3>3. node'[i].size = a
      <4>1. k + (a - k) = a
        BY <1>8
      <4> QED
        BY <1>9, <3>1, <3>2, <4>1
    (* What fits the buffer is written at once, to an empty file. *)
    <3>4. a <= CHUNK => node'[i].bytes = SubSeq(Source, 1, a)
      <4>1. SUFFICES ASSUME a <= CHUNK
                     PROVE  node'[i].bytes = SubSeq(Source, 1, a)
        OBVIOUS
      <4>2. k = 0
        BY <1>3, <1>8, <4>1
      <4>3. SubSeq(Source, 1, k) = << >> /\ node[i].bytes = << >>
        <5>1. SubSeq(Source, 1, 0) = << >>
          BY SubSeqEmpty
        <5>2. k <= CHUNK
          BY <1>3, <4>2
        <5> QED
          BY <3>2, <4>2, <5>1, <5>2
      <4>4. SubSeq(node[i].bytes, Len(buf) + 1, Len(node[i].bytes)) = << >>
        <5>1. Len(node[i].bytes) = 0
          BY <4>3
        <5>2. Len(buf) + 1 \in Int /\ 0 < Len(buf) + 1
          BY <1>8, <1>9
        <5>3. 0 \in Int
          OBVIOUS
        <5> QED
          BY <5>1, <5>2, <5>3, SubSeqEmpty
      <4>5. buf \o << >> = buf /\ << >> \o buf = buf
        BY <1>9, ConcatEmptySeq
      <4> QED
        BY <1>10, <3>1, <4>3, <4>4, <4>5
    <3>5. pc' = "cp_read"
      BY <1>1, <3>1
    <3>6. Boundary(a)'
      BY <1>7, <2>4 DEF Boundary
    <3>7. HasFirst(a)'
      BY <1>14, <2>1, <2>4, <3>3, <3>4 DEF HasFirst
    <3> QED
      <4>1. FsInv' /\ handles'[h].f_pos = a
        BY <2>2, <2>3
      <4> QED
        BY <1>2, <1>12, <2>4, <3>6, <3>7, <4>1, LoopStep
  <2>7. Kept
    BY <2>2 DEF Kept
  (* The inode has the one entry that was made for it. *)
  <2>8. RootWritten
    <3>1. PICK e \in DOMAIN root :
            root[e] = [name |-> get_basename(Full(cmd.dst)), inode |-> i]
      BY <1>2, <1>14, <2>1 DEF InLoop
    <3>2. ASSUME NEW j \in DOMAIN root, j # e
          PROVE  node'[root[j].inode] = node[root[j].inode]
      <4>1. root[j].inode # root[e].inode
        BY <1>5, <3>2 DEF FsInv, EntriesAreFiles
      <4>2. root[j].inode \in Inode
        <5> DEFINE E == [name : Seq(Token), inode : Inode]
        <5>1. root \in Seq(E)
          BY <1>5 DEF FsInv, Stored
        <5>2. root[j] \in E
          <6> HIDE DEF E
          <6> QED
            BY <5>1
        <5> QED
          BY <5>2
      <4> QED
        BY <2>2, <3>1, <4>1, <4>2
    <3>3. root[e].name = get_basename(Full(cmd.dst))
      BY <3>1
    <3> QED
      BY <2>2, <3>2, <3>3 DEF RootWritten
  <2> QED
    BY <2>5, <2>6, <2>7, <2>8
<1> QED
  BY <1>13, <1>14

(* The invariant holds between any two calls, whatever the commands, the   *)
(* operands, the limits of both file systems and the size of the buffer.   *)
THEOREM Invariance == Spec => []ShellInv
<1>1. ShellInv /\ [Next]_vars => ShellInv'
  <2> SUFFICES ASSUME ShellInv, [Next]_vars
               PROVE  ShellInv'
    OBVIOUS
  <2>1. CASE \E t \in Texts : test_vfs(t)
    BY <2>1, TestMadeInv
  <2>2. CASE kalloc
    BY <2>2, KallocInv
  <2>3. CASE shell
    BY <2>3, StartInv
  <2>4. ASSUME NEW path \in Operand, cmd_rm(path)
        PROVE  ShellInv'
    BY <2>4, RmInv
  <2>5. ASSUME NEW path \in Operand, cmd_mkdir(path)
        PROVE  ShellInv'
    BY <2>5, MkdirInv
  <2>6. ASSUME NEW path \in Operand, cmd_touch(path)
        PROVE  ShellInv'
    BY <2>6, TouchInv
  <2>7. ASSUME NEW path \in Operand, NEW dst \in Operand, NEW op \in {"cp", "mv"},
               cp_open(op, path, dst)
        PROVE  ShellInv'
    BY <2>7, CpOpenInv
  <2>8. ASSUME NEW path \in CdOperand, cmd_cd(path)
        PROVE  ShellInv'
    BY <2>8, CdInv
  <2>9. CASE test_open
    BY <2>9, TestOpenInv
  <2>10. CASE test_read
    BY <2>10, TestReadInv
  <2>11. CASE touch_close
    BY <2>11, CloseInv
  <2>12. CASE cp_create
    BY <2>12, CpCreateInv
  <2>13. CASE cp_read
    BY <2>13, CpReadInv
  <2>14. CASE cp_write
    BY <2>14, CpWriteInv
  <2>15. CASE cp_done \/ mv_unlink
    BY <2>15, DoneInv
  <2>16. CASE UNCHANGED vars
    <3> USE <2>16 DEF vars, fsvars, ramvars
    <3>1. TypeOK' <=> TypeOK
      BY DEF TypeOK
    <3>2. /\ EntriesAreFiles' <=> EntriesAreFiles
          /\ NamesAreBelowTmp' <=> NamesAreBelowTmp
          /\ CommandKnown' <=> CommandKnown
      BY DEF EntriesAreFiles, NamesAreBelowTmp, CommandKnown
    <3>3. DescriptorsOpen' <=> DescriptorsOpen
      BY DEF DescriptorsOpen, Ram!get_file
    <3>4. SourceOpen' <=> SourceOpen
      BY DEF SourceOpen, OnRam, InodeOf, Ram!get_file
    <3>5. TargetOpen' <=> TargetOpen
      BY DEF TargetOpen, OnRam, InodeOf, Ram!get_file, Full, StoredName
    <3>6. CopyInStep' <=> CopyInStep
      BY DEF CopyInStep, Source, HasFirst, Boundary, OnRam, InodeOf, Ram!get_file
    <3> QED
      BY <3>1, <3>2, <3>3, <3>4, <3>5, <3>6 DEF ShellInv
  <2> QED
    BY <2>1, <2>2, <2>3, <2>4, <2>5, <2>6, <2>7, <2>8, <2>9, <2>10, <2>11, <2>12, <2>13,
       <2>14, <2>15, <2>16 DEF Next, Continue
<1> QED
  BY InitInv, <1>1, PTL DEF Spec

(* Every variable keeps its type: no descriptor leaves fd_table, no handle *)
(* or offset its bound, and no text is longer than its file says.          *)
THEOREM TypeCorrect == Spec => []TypeOK
<1>1. ShellInv => TypeOK
  BY DEF ShellInv
<1> QED
  BY <1>1, Invariance, PTL

(* A cp that came to the end of its source in RAMFS made a whole copy.     *)
THEOREM CopiesAreWhole == Spec => []CopyIsWhole
<1>1. ShellInv => CopyIsWhole
  <2> SUFFICES ASSUME ShellInv, pc = "cp_done", copied, OnRam(Ram!get_file(src_fd))
               PROVE  CopyIsWhole
    BY DEF CopyIsWhole
  <2>1. PICK h, g : h = Ram!get_file(src_fd) /\ g = Ram!get_file(dst_fd)
    OBVIOUS
  <2>2. PICK a : a = handles[h].f_pos
    OBVIOUS
  <2>3. a = Len(Source) /\ HasFirst(a)
    BY <2>1, <2>2 DEF ShellInv, CopyInStep
  <2>4. Source = text[handles[h].private_data]
    BY <2>1 DEF Source
  <2>5. Source \in Seq(Byte)
    <3>1. FsInv /\ src_fd # NoFd /\ h # Ram!NULL
      BY <2>1, InvParts DEF ShellInv, DescriptorsOpen
    <3>2. h \in 1 .. Len(handles)
      BY <2>1, <3>1, DescriptorOpen
    <3>3. TextOf(h) = Source
      BY <2>1, <2>4 DEF TextOf
    <3> QED
      BY <3>1, <3>2, <3>3, HandleTyped
  <2>6. SubSeq(Source, 1, a) = Source
    BY <2>3, <2>5, SubSeqFull
  <2> QED
    BY <2>1, <2>3, <2>4, <2>6 DEF CopyIsWhole, HasFirst
<1> QED
  BY <1>1, Invariance, PTL

(* One file of that name, the first, is taken away.                        *)
Unlinks(path) ==
  /\ node' = node /\ Full(path) = path
  /\ \E s \in Ram!Slot :
       /\ Ram!FirstOf(s, Ram!Named(path))
       /\ ~files'[s].used
       /\ \A t \in Ram!Slot : t # s => files'[t] = files[t] /\ text'[t] = text[t]

LEMMA Unlinked ==
  ASSUME ShellInv, NEW path \in FullPath, vfs_unlink(path)
  PROVE  Kept \/ Unlinks(path)
  BY InvParts, Resting, UnlinkFile DEF Kept, Unlinks

(* What the steps of the shell do to the files of RAMFS that are in use.   *)
LEMMA Effects ==
  ASSUME ShellInv, [Next]_vars
  PROVE  \/ Kept
         \/ cp_write /\ CopyWritten
         \/ mv_unlink /\ Unlinks(cmd.src)
         \/ \E path \in Operand : cmd_rm(path) /\ Unlinks(path)
<1>1. FsInv /\ cwd \in FullPath
  BY InvParts, Resting
<1>2. CASE UNCHANGED <<files, text>>
  BY <1>2 DEF Kept
<1>3. CASE \A u \in Ram!Slot : files[u].used => files'[u] = files[u] /\ text'[u] = text[u]
  BY <1>3 DEF Kept
<1>4. CASE \E t \in Texts : test_vfs(t)
  BY <1>1, <1>3, <1>4, TextFile DEF test_vfs
<1>5. CASE kalloc \/ shell \/ cp_done \/ touch_close \/ UNCHANGED vars
  BY <1>2, <1>5 DEF kalloc, Ram!kalloc, shell, cp_done, touch_close, vfs_close, Ram!vfs_close,
                    vars, fsvars, ramvars
<1>6. ASSUME NEW path \in Operand, cmd_rm(path)
      PROVE  Kept \/ Unlinks(path)
  BY <1>6, OperandTyped, Unlinked DEF cmd_rm
<1>7. ASSUME NEW path \in Operand, cmd_mkdir(path)
      PROVE  Kept
  <2>1. path \in FullPath /\ vfs_mkdir(path)
    BY <1>7, OperandTyped DEF cmd_mkdir
  <2>2. \A u \in Ram!Slot : files[u].used => files'[u] = files[u] /\ text'[u] = text[u]
    BY <1>1, <2>1, MakeDirectory
  <2> QED
    BY <2>2 DEF Kept
<1>8. ASSUME NEW path \in Operand, cmd_touch(path)
      PROVE  Kept
  <2>1. path \in FullPath /\ vfs_create(path)
    BY <1>8, OperandTyped DEF cmd_touch
  <2>2. \A u \in Ram!Slot : files[u].used => files'[u] = files[u] /\ text'[u] = text[u]
    BY <1>1, <2>1, CreateFile
  <2> QED
    BY <2>2 DEF Kept
<1>9. ASSUME NEW path, vfs_open(path)
      PROVE  Kept
  BY <1>9 DEF vfs_open, Ram!vfs_open, abyssfs_open, Kept
<1>10. ASSUME NEW fd, NEW count, vfs_read(fd, count)
       PROVE  Kept
  BY <1>10 DEF vfs_read, Ram!vfs_read, abyssfs_read, Kept
<1>11. CASE test_open \/ \E path, dst \in Operand, op \in {"cp", "mv"} : cp_open(op, path, dst)
  BY <1>9, <1>11 DEF test_open, cp_open
<1>12. CASE \E path \in CdOperand : cmd_cd(path)
  BY <1>2, <1>9, <1>12 DEF cmd_cd, fsvars, ramvars
<1>13. CASE test_read \/ cp_read
  BY <1>10, <1>13 DEF test_read, cp_read
<1>14. CASE cp_create
  <2>1. cmd.dst \in FullPath
    BY <1>14, Resting, OperandTyped DEF cp_create, CommandKnown, Copying
  <2> QED
    BY <1>1, <1>3, <1>14, <2>1, CreateFile DEF cp_create
<1>15. CASE cp_write
  BY <1>15, CpWriteInv
<1>16. CASE mv_unlink
  <2>1. cmd.src \in FullPath
    BY <1>16, Resting, OperandTyped DEF mv_unlink, CommandKnown
  <2> QED
    BY <1>16, <2>1, Unlinked DEF mv_unlink
<1> QED
  BY <1>4, <1>5, <1>6, <1>7, <1>8, <1>11, <1>12, <1>13, <1>14, <1>15, <1>16 DEF Next, Continue

(* What they do to the files in the root of AbyssFS.                       *)
LEMMA RootEffects ==
  ASSUME ShellInv, [Next]_vars
  PROVE  \/ RootKept
         \/ cp_write /\ RootWritten
         \/ mv_unlink /\ RootUnlinks(Unslashed(cmd.src))
         \/ \E path \in Operand : cmd_rm(path) /\ RootUnlinks(Unslashed(path))
<1>1. FsInv /\ cwd \in FullPath
  BY InvParts, Resting
<1>2. CASE UNCHANGED <<node, root>>
  BY <1>2 DEF RootKept
<1>3. CASE (\E t \in Texts : test_vfs(t)) \/ kalloc \/ shell \/ cp_done \/ UNCHANGED vars
  BY <1>2, <1>3 DEF test_vfs, kalloc, shell, cp_done, vars, fsvars
<1>4. ASSUME NEW path \in Operand, cmd_rm(path)
      PROVE  RootUnlinks(Unslashed(path))
  <2>1. path \in FullPath /\ vfs_unlink(path)
    BY <1>4, OperandTyped DEF cmd_rm
  <2> QED
    BY <1>1, <2>1, UnlinkFile
<1>5. CASE \E path \in Operand : cmd_mkdir(path)
  BY <1>2, <1>5 DEF cmd_mkdir, vfs_mkdir
<1>6. ASSUME NEW path \in FullPath, vfs_create(path)
      PROVE  RootKept
  BY <1>1, <1>6, CreateFile
<1>7. CASE \E path \in Operand : cmd_touch(path)
  BY <1>6, <1>7, OperandTyped DEF cmd_touch
<1>8. CASE touch_close \/ test_read \/ cp_read
  BY <1>2, <1>8 DEF touch_close, vfs_close, test_read, cp_read, vfs_read
<1>9. CASE test_open \/ \E path, dst \in Operand, op \in {"cp", "mv"} : cp_open(op, path, dst)
  BY <1>2, <1>9 DEF test_open, cp_open, vfs_open
<1>10. CASE \E path \in CdOperand : cmd_cd(path)
  BY <1>2, <1>10 DEF cmd_cd, vfs_open, fsvars
<1>11. CASE cp_create
  <2>1. cmd.dst \in FullPath /\ vfs_create(cmd.dst)
    BY <1>11, Resting, OperandTyped DEF cp_create, CommandKnown, Copying
  <2>2. PICK path \in FullPath : path = cmd.dst
    BY <2>1
  <2> QED
    BY <1>6, <2>1, <2>2
<1>12. CASE cp_write
  BY <1>12, CpWriteInv
<1>13. CASE mv_unlink
  <2>1. cmd.src \in FullPath /\ vfs_unlink(cmd.src)
    BY <1>13, Resting, OperandTyped DEF mv_unlink, CommandKnown
  <2>2. PICK path \in FullPath : path = cmd.src
    BY <2>1
  <2>3. RootUnlinks(Unslashed(path))
    BY <1>1, <2>1, <2>2, UnlinkFile
  <2> QED
    BY <1>13, <2>2, <2>3
<1> QED
  BY <1>3, <1>4, <1>5, <1>7, <1>8, <1>9, <1>10, <1>11, <1>12, <1>13 DEF Next, Continue

(* Only cp, mv and rm change a file that is there, each the one it means:  *)
(* cp_write the file with the name of the destination, the unlink of mv    *)
(* and rm one with the name of its operand, in the root of AbyssFS the     *)
(* first one.                                                              *)
THEOREM OnlyTheTarget == Spec => OnlyTheTargetChanges
<1>1. ASSUME ShellInv, [Next]_vars, NEW s \in Ram!Slot, files[s].used
      PROVE  \/ /\ files'[s].used /\ files'[s].path = files[s].path /\ text'[s] = text[s]
             \/ /\ files'[s].used
                /\ pc = "cp_write" /\ files[s].path = StoredName(Full(cmd.dst))
             \/ /\ ~files'[s].used
                /\ \/ pc = "cp_done" /\ files[s].path = Full(cmd.src)
                   \/ \E path \in Operand : cmd_rm(path) /\ files[s].path = Full(path)
  <2>1. CASE Kept
    BY <1>1, <2>1 DEF Kept
  <2>2. CASE cp_write /\ CopyWritten
    BY <1>1, <2>2 DEF CopyWritten, cp_write
  <2>3. ASSUME NEW path, Unlinks(path)
        PROVE  \/ /\ files'[s].used /\ files'[s].path = files[s].path /\ text'[s] = text[s]
               \/ ~files'[s].used /\ files[s].path = Full(path)
    BY <1>1, <2>3 DEF Unlinks, Ram!FirstOf, Ram!Named
  <2>4. CASE mv_unlink /\ Unlinks(cmd.src)
    BY <2>3, <2>4 DEF mv_unlink
  <2>5. CASE \E path \in Operand : cmd_rm(path) /\ Unlinks(path)
    BY <2>3, <2>5
  <2> QED
    BY <1>1, <2>1, <2>2, <2>4, <2>5, Effects
<1>2. ASSUME ShellInv, [Next]_vars, NEW k \in DOMAIN root
      PROVE  \/ (\E l \in DOMAIN root' : root'[l] = root[k])
                /\ node'[root[k].inode] = node[root[k].inode]
             \/ /\ \E l \in DOMAIN root' : root'[l] = root[k]
                /\ pc = "cp_write" /\ root[k].name = get_basename(Full(cmd.dst))
             \/ /\ \A j \in 1 .. (k - 1) : root[j].name # root[k].name
                /\ \/ pc = "cp_done" /\ root[k].name = Unslashed(cmd.src)
                   \/ \E path \in Operand : cmd_rm(path) /\ root[k].name = Unslashed(path)
  <2>1. CASE RootKept
    BY <2>1 DEF RootKept
  <2>2. CASE cp_write /\ RootWritten
    BY <2>2 DEF RootWritten, cp_write
  <2>3. ASSUME NEW name, RootUnlinks(name)
        PROVE  \/ (\E l \in DOMAIN root' : root'[l] = root[k])
                  /\ node'[root[k].inode] = node[root[k].inode]
               \/ /\ \A j \in 1 .. (k - 1) : root[j].name # root[k].name
                  /\ root[k].name = name
    BY <2>3 DEF RootUnlinks
  <2>4. CASE mv_unlink /\ RootUnlinks(Unslashed(cmd.src))
    BY <2>3, <2>4 DEF mv_unlink
  <2>5. CASE \E path \in Operand : cmd_rm(path) /\ RootUnlinks(Unslashed(path))
    BY <2>3, <2>5
  <2> QED
    BY <1>2, <2>1, <2>2, <2>4, <2>5, RootEffects
<1>3. ShellInv /\ [Next]_vars =>
        [/\ \A s \in Ram!Slot : files[s].used =>
              \/ /\ files'[s].used /\ files'[s].path = files[s].path /\ text'[s] = text[s]
              \/ /\ files'[s].used
                 /\ pc = "cp_write" /\ files[s].path = StoredName(Full(cmd.dst))
              \/ /\ ~files'[s].used
                 /\ \/ pc = "cp_done" /\ files[s].path = Full(cmd.src)
                    \/ \E path \in Operand : cmd_rm(path) /\ files[s].path = Full(path)
         /\ \A k \in DOMAIN root :
              LET e == root[k]
              IN  \/ (\E l \in DOMAIN root' : root'[l] = e) /\ node'[e.inode] = node[e.inode]
                  \/ /\ \E l \in DOMAIN root' : root'[l] = e
                     /\ pc = "cp_write" /\ e.name = get_basename(Full(cmd.dst))
                  \/ /\ \A j \in 1 .. (k - 1) : root[j].name # e.name
                     /\ \/ pc = "cp_done" /\ e.name = Unslashed(cmd.src)
                        \/ \E path \in Operand : cmd_rm(path) /\ e.name = Unslashed(path)]_vars
  BY <1>1, <1>2
<1> QED
  BY <1>3, Invariance, PTL DEF Spec, OnlyTheTargetChanges

(* A mv whose copy came to its end takes no text away that is not in the   *)
(* file it made, but for one that goes to AbyssFS and is longer than the   *)
(* buffer.                                                                 *)
THEOREM MovedTextsStay == Spec => MvKeepsTheText
<1>1. ASSUME ShellInv, [Next]_vars, pc = "cp_done", copied,
             NEW m \in Ram!Slot, files[m].used, ~files'[m].used
      PROVE  \/ \E u \in Ram!Slot : /\ files'[u].used
                                    /\ text'[u] = text[m]
                                    /\ files'[u].path = StoredName(Full(cmd.dst))
             \/ /\ ~OnRam(Ram!get_file(dst_fd))
                /\ \/ Len(text[m]) > CHUNK
                   \/ node'[InodeOf(Ram!get_file(dst_fd))].bytes = text[m]
  <2>1. PICK h, g, s, t : InLoop(h, g, s, t)
    BY <1>1, LoopState
  <2>2. Unlinks(cmd.src)
    <3>1. ~Kept /\ ~cp_write /\ \A path \in Operand : ~cmd_rm(path)
      BY <1>1 DEF Kept, cp_write, cmd_rm, Prompt
    <3> QED
      BY <1>1, <3>1, Effects
  <2>3. /\ files[m].path = cmd.src
        /\ \A u \in Ram!Slot : files[u].used /\ files[u].path = cmd.src => m <= u
        /\ node' = node
        /\ \A u \in Ram!Slot : u # m => files'[u] = files[u] /\ text'[u] = text[u]
    BY <1>1, <2>2 DEF Unlinks, Ram!FirstOf, Ram!Named
  <2>4. PICK a : a = handles[h].f_pos
    OBVIOUS
  <2>5. /\ FsInv /\ h = Ram!get_file(src_fd) /\ g = Ram!get_file(dst_fd)
        /\ s = handles[h].private_data /\ t = handles[g].private_data /\ s # t
        /\ OnRam(h) => /\ s \in Ram!Slot /\ files[s].used /\ files[s].path = cmd.src
                       /\ \A u \in Ram!Slot :
                            u < s /\ files[u].used /\ files[u].path = cmd.src => u = t
        /\ ~OnRam(h) => ~IsPrefix(TmpDir, cmd.src)
        /\ OnRam(g) => /\ t \in Ram!Slot /\ files[t].used
                       /\ files[t].path = StoredName(Full(cmd.dst))
        /\ Source = TextOf(h) /\ Source \in Seq(Byte)
        /\ cmd.op \in {"cp", "mv"} /\ CommandKnown
    BY <2>1 DEF InLoop
  <2>6. a = Len(Source) /\ HasFirst(a) /\ SubSeq(Source, 1, a) = Source
    <3>1. CopyInStep
      BY <1>1 DEF ShellInv
    <3>2. a = Len(Source) /\ HasFirst(a)
      BY <1>1, <2>4, <2>5, <3>1 DEF CopyInStep
    <3> QED
      BY <2>5, <3>2, SubSeqFull
  <2>7. /\ OnRam(g) => text[t] = Source
        /\ ~OnRam(g) => (Len(Source) <= CHUNK => node[InodeOf(g)].bytes = Source)
    BY <2>5, <2>6 DEF HasFirst
  <2>8. CASE OnRam(h)
    <3>1. Source = text[s]
      BY <2>5, <2>8 DEF TextOf
    <3>2. CASE m = s
      <4>1. CASE OnRam(g)
        <5>1. files'[t] = files[t] /\ text'[t] = text[t]
          BY <2>3, <2>5, <3>2, <4>1
        <5> QED
          BY <2>5, <2>7, <3>1, <3>2, <4>1, <5>1
      <4>2. CASE ~OnRam(g)
        <5>1. Len(text[m]) \in Nat /\ CHUNK \in Nat
          BY <2>5, <3>1, <3>2, ShellAssumption
        <5>2. Len(text[m]) > CHUNK \/ Len(text[m]) <= CHUNK
          BY <5>1
        <5> QED
          BY <2>3, <2>5, <2>7, <3>1, <3>2, <4>2, <5>2
      <4> QED
        BY <4>1, <4>2
    (* The copy has the name of its source, and is found before it. *)
    <3>3. CASE m # s
      <4>1. m < s
        BY <2>3, <2>5, <2>8, <3>3, Ranges
      <4>2. m = t
        BY <1>1, <2>3, <2>5, <2>8, <4>1
      <4>3. OnRam(g)
        BY <1>1, <2>5, <4>2, Ranges DEF OnRam
      <4>4. files'[s] = files[s] /\ text'[s] = text[s]
        BY <2>3, <2>5, <2>8, <3>3
      <4> QED
        BY <2>3, <2>5, <2>7, <2>8, <3>1, <4>2, <4>3, <4>4
    <3> QED
      BY <3>2, <3>3
  (* Nothing could be opened under that name, and it has no text. *)
  <2>9. CASE ~OnRam(h)
    <3>1. Source = << >> /\ Len(Source) = 0 /\ CHUNK \in Nat
      BY <2>5, <2>9, ShellAssumption DEF TextOf
    <3>2. text[m] = << >>
      BY <1>1, <2>3, <2>5, <2>9 DEF FsInv, NamesAreBelowTmp
    <3>3. CASE OnRam(g)
      <4>1. IsPrefix(TmpDir, files[t].path)
        <5>1. cmd.dst \in FullPath /\ cwd \in FullPath
          BY <1>1, <2>5, Resting, OperandTyped DEF CommandKnown
        <5>2. Full(cmd.dst) \in FullPath
          BY <5>1, FullTyped
        <5>3. Full(cmd.dst) \in Seq(Token)
          BY <5>2 DEF FullPath
        <5> QED
          BY <2>5, <3>3, <5>3, StoredNameTyped
      <4>2. m # t
        BY <2>3, <2>5, <2>9, <4>1
      <4>3. files'[t] = files[t] /\ text'[t] = text[t]
        BY <2>3, <2>5, <3>3, <4>2
      <4> QED
        BY <2>5, <2>7, <3>1, <3>2, <3>3, <4>3
    <3>4. CASE ~OnRam(g)
      <4>1. Len(Source) <= CHUNK
        BY <3>1
      <4> QED
        BY <2>3, <2>5, <2>7, <3>1, <3>2, <3>4, <4>1
    <3> QED
      BY <3>3, <3>4
  <2> QED
    BY <2>8, <2>9
<1>2. ShellInv /\ [Next]_vars =>
        [pc = "cp_done" /\ copied => \A s \in Ram!Slot :
           files[s].used /\ ~files'[s].used =>
             \/ \E t \in Ram!Slot : /\ files'[t].used
                                    /\ text'[t] = text[s]
                                    /\ files'[t].path = StoredName(Full(cmd.dst))
             \/ /\ ~OnRam(Ram!get_file(dst_fd))
                /\ \/ Len(text[s]) > CHUNK
                   \/ node'[InodeOf(Ram!get_file(dst_fd))].bytes = text[s]]_vars
  BY <1>1
<1> QED
  BY <1>2, Invariance, PTL DEF Spec, MvKeepsTheText
--------------------------------------------------------------------------------
(* Handles that outlived their file.                                       *)

StaleInv == stale \subseteq 1 .. Len(handles) /\ NoStaleHandle

(* A descriptor that a command has after the step it had before, or it is  *)
(* the one of the new handle.                                              *)
Held(fd) == \/ fd = NoFd
            \/ fd \in {src_fd, dst_fd} /\ fd_table'[fd] = fd_table[fd]
            \/ fd_table'[fd] = Len(handles) + 1

LEMMA HeldKept ==
  ASSUME ShellInv, ShellInv', StaleInv, stale' = stale, touched' \subseteq touched,
         Len(handles') >= Len(handles), Held(src_fd'), Held(dst_fd')
  PROVE  StaleInv'
<1>1. Len(handles) \in Nat /\ Len(handles') \in Nat
  BY InvParts DEF ShellInv, TypeOK
<1>2. stale' \subseteq 1 .. Len(handles') /\ Len(handles) + 1 \notin stale /\ 0 \notin stale
  BY <1>1 DEF StaleInv
<1>3. touched' = {}
  BY DEF StaleInv, NoStaleHandle
<1>4. ASSUME NEW fd \in {src_fd', dst_fd'}, fd # NoFd
      PROVE  (IF fd \in Ram!FD THEN fd_table'[fd] ELSE Ram!NULL) \notin stale
  <2>1. Held(fd)
    BY <1>4
  <2>2. Ram!NULL = 0
    BY Ranges
  <2>3. CASE fd \in {src_fd, dst_fd} /\ fd_table'[fd] = fd_table[fd]
    <3>1. Ram!get_file(fd) \notin stale
      BY <1>4, <2>3 DEF StaleInv, NoStaleHandle
    <3> QED
      BY <2>3, <3>1 DEF Ram!get_file
  <2> QED
    BY <1>2, <1>4, <2>1, <2>2, <2>3 DEF Held
<1>5. NoStaleHandle'
  BY <1>3, <1>4 DEF NoStaleHandle, Ram!get_file
<1> QED
  BY <1>2, <1>5 DEF StaleInv

(* A command that holds nothing has nothing stale.                         *)
LEMMA NothingStale ==
  ASSUME touched' = {}, stale' \subseteq 1 .. Len(handles'), src_fd' = NoFd, dst_fd' = NoFd
  PROVE  StaleInv'
  BY DEF StaleInv, NoStaleHandle

LEMMA StaleStep ==
  ASSUME ShellInv, ShellInv', StaleInv, [Next]_vars
  PROVE  StaleInv'
<1>1. /\ FsInv /\ cwd \in FullPath /\ touched = {} /\ Len(handles) \in Nat
      /\ stale \subseteq 1 .. Len(handles)
      /\ pc \in Quiet \cup {"test_open"} => src_fd = NoFd /\ dst_fd = NoFd
  <2>1. FsInv /\ cwd \in FullPath
    BY InvParts, Resting
  <2>2. touched = {} /\ stale \subseteq 1 .. Len(handles)
    BY DEF StaleInv, NoStaleHandle
  <2>3. Len(handles) \in Nat
    BY <2>1 DEF FsInv, Opened
  <2>4. pc \in Quiet \cup {"test_open"} => src_fd = NoFd /\ dst_fd = NoFd
    BY Resting
  <2> QED
    BY <2>1, <2>2, <2>3, <2>4
<1>2. CASE UNCHANGED <<handles, fd_table, src_fd, dst_fd, stale, touched>>
  BY <1>1, <1>2, HeldKept DEF Held
<1>3. CASE kalloc \/ shell \/ UNCHANGED vars
  BY <1>2, <1>3 DEF kalloc, Ram!kalloc, shell, vars, fsvars, ramvars, locals
<1>4. CASE cp_done
  BY <1>1, <1>4, NothingStale DEF cp_done, Return, fsvars, ramvars
<1>5. CASE \E t \in Texts : test_vfs(t)
  <2>1. /\ UNCHANGED <<handles, fd_table, src_fd, dst_fd, stale>>
        /\ touched' \subseteq touched
    BY <1>5 DEF test_vfs, Ram!ramfs_create_file, locals
  <2> QED
    BY <1>1, <2>1, HeldKept DEF Held
<1>6. CASE \E path \in Operand : cmd_mkdir(path)
  <2>1. /\ UNCHANGED <<handles, fd_table, src_fd, dst_fd, stale>>
        /\ touched' \subseteq touched
    BY <1>6 DEF cmd_mkdir, vfs_mkdir, Ram!vfs_mkdir, Ram!ramfs_mkdir, locals
  <2> QED
    BY <1>1, <2>1, HeldKept DEF Held
<1>7. ASSUME NEW path, vfs_unlink(path)
      PROVE  /\ touched' = {} /\ stale' \subseteq 1 .. Len(handles')
  BY <1>1, <1>7 DEF vfs_unlink, Ram!vfs_unlink, Ram!ramfs_unlink, abyssfs_unlink
<1>8. CASE \E path \in Operand : cmd_rm(path)
  BY <1>1, <1>7, <1>8, NothingStale DEF cmd_rm, Prompt, Quiet, locals
<1>9. CASE mv_unlink
  BY <1>7, <1>9, NothingStale DEF mv_unlink, Return
<1>10. ASSUME NEW path \in FullPath, vfs_open(path)
       PROVE  /\ Keeps /\ UNCHANGED <<stale, touched>>
              /\ ret' = -1 \/ fd_table'[ret'] = Len(handles) + 1
  <2>1. Keeps /\ (ret' = -1 \/ \E p : Gets(p))
    BY <1>1, <1>10, OpenFile
  <2>2. UNCHANGED <<stale, touched>>
    BY <1>10 DEF vfs_open, Ram!vfs_open, abyssfs_open
  <2> QED
    BY <2>1, <2>2 DEF Gets
<1>11. ASSUME NEW path \in FullPath, vfs_create(path)
       PROVE  /\ Keeps /\ stale' = stale /\ touched' \subseteq touched
              /\ ret' = -1 \/ fd_table'[ret'] = Len(handles) + 1
  <2>1. Keeps /\ (ret' = -1 \/ \E p : Gets(p))
    BY <1>1, <1>11, CreateFile
  <2>2. stale' = stale /\ touched' \subseteq touched
    BY <1>11 DEF vfs_create, Ram!vfs_create, Ram!ramfs_create, abyssfs_create
  <2> QED
    BY <2>1, <2>2 DEF Gets
<1>12. CASE \E path \in CdOperand : cmd_cd(path)
  <2>1. PICK path \in CdOperand : cmd_cd(path)
    BY <1>12
  <2>2. src_fd' = NoFd /\ dst_fd' = NoFd
    BY <1>1, <2>1 DEF cmd_cd, Prompt, Quiet, locals
  <2>3. CASE UNCHANGED fsvars
    BY <1>1, <2>2, <2>3, NothingStale DEF fsvars, ramvars
  <2>4. CASE vfs_open(cd_target(cwd, path))
    <3>1. UNCHANGED <<stale, touched>>
      BY <2>4 DEF vfs_open, Ram!vfs_open, abyssfs_open
    <3>2. Len(handles') >= Len(handles) /\ Len(handles') \in Nat
      <4>1. handles' = handles \/ \E x : handles' = Append(handles, x)
        BY <2>4 DEF vfs_open, Ram!vfs_open, Ram!ramfs_open, abyssfs_open, Ram!alloc_fd
      <4> QED
        BY <1>1, <4>1 DEF FsInv, Opened
    <3> QED
      BY <1>1, <2>2, <3>1, <3>2, NothingStale
  <2> QED
    BY <2>1, <2>3, <2>4 DEF cmd_cd
<1>13. CASE test_open
  <2>1. cmd.src \in FullPath /\ vfs_open(cmd.src) /\ src_fd' = ret' /\ dst_fd' = NoFd
    BY <1>1, <1>13, Resting, OperandTyped, ShellAssumption DEF test_open, CommandKnown, FullPath
  <2>2. PICK path \in FullPath : path = cmd.src
    BY <2>1
  <2> QED
    BY <1>1, <1>10, <2>1, <2>2, HeldKept DEF Held, Keeps, NoFd
<1>14. CASE \E path, dst \in Operand, op \in {"cp", "mv"} : cp_open(op, path, dst)
  BY <1>1, <1>10, <1>14, OperandTyped, HeldKept DEF cp_open, Prompt, Quiet, Held, Keeps, NoFd
<1>15. CASE \E path \in Operand : cmd_touch(path)
  BY <1>1, <1>11, <1>15, OperandTyped, HeldKept DEF cmd_touch, Prompt, Quiet, Held, Keeps, NoFd
<1>16. CASE touch_close
  BY <1>1, <1>16, NothingStale, Resting
     DEF touch_close, vfs_close, Ram!vfs_close, ShellInv, DescriptorsOpen
<1>17. CASE cp_create
  <2>1. cmd.dst \in FullPath /\ vfs_create(cmd.dst) /\ dst_fd' = ret' /\ src_fd' = src_fd
    BY <1>17, Resting, OperandTyped DEF cp_create, CommandKnown, Copying
  <2>2. PICK path \in FullPath : path = cmd.dst
    BY <2>1
  <2>3. src_fd \in 0 .. (next_fd - 1) /\ src_fd # NoFd
    BY <1>17, InvParts DEF cp_create, Control, ShellInv, DescriptorsOpen
  <2> QED
    BY <1>1, <1>11, <2>1, <2>2, <2>3, HeldKept DEF Held, Keeps, NoFd
<1>18. ASSUME NEW h, NEW p, handles' = [handles EXCEPT ![h].f_pos = p]
       PROVE  Len(handles') = Len(handles)
  <2>1. handles \in Seq(vfs_file) /\ handles' \in Seq(vfs_file)
    BY InvParts, TypeParts DEF ShellInv, FsInv, Opened
  <2>2. DOMAIN handles' = DOMAIN handles
    BY <1>18
  <2> QED
    BY <2>1, <2>2
<1>19. ASSUME NEW fd, NEW count, vfs_read(fd, count), Ram!get_file(fd) # Ram!NULL
       PROVE  UNCHANGED <<stale, touched, fd_table>> /\ Len(handles') = Len(handles)
  BY <1>18, <1>19 DEF vfs_read, Ram!vfs_read, Ram!ramfs_read, abyssfs_read
<1>20. CASE test_read \/ cp_read
  <2>1. vfs_read(src_fd, MAX_CONTENT) \/ vfs_read(src_fd, CHUNK)
    BY <1>20 DEF test_read, cp_read
  <2>2. Ram!get_file(src_fd) # Ram!NULL
    BY <1>20 DEF test_read, cp_read, ShellInv, DescriptorsOpen
  <2>3. UNCHANGED <<stale, touched, fd_table>> /\ Len(handles') = Len(handles)
    BY <1>19, <2>1, <2>2
  <2>4. src_fd' \in {src_fd, NoFd} /\ dst_fd' = dst_fd
    BY <1>20 DEF test_read, cp_read
  <2> QED
    BY <1>1, <2>3, <2>4, HeldKept DEF Held
<1>21. CASE cp_write
  <2>1. vfs_write(dst_fd, buf) /\ UNCHANGED <<src_fd, dst_fd>>
    BY <1>21 DEF cp_write, locals
  <2>2. dst_fd # NoFd /\ Ram!get_file(dst_fd) # Ram!NULL
    BY <1>21 DEF cp_write, ShellInv, DescriptorsOpen
  <2>3. Ram!get_file(dst_fd) \notin stale
    BY <2>2 DEF StaleInv, NoStaleHandle
  <2>4. UNCHANGED <<stale, touched, fd_table>>
    BY <2>1, <2>2, <2>3 DEF vfs_write, Ram!vfs_write, Ram!ramfs_write, abyssfs_write
  <2>5. Len(handles') = Len(handles)
    BY <1>18, <2>1, <2>2 DEF vfs_write, Ram!vfs_write, Ram!ramfs_write, abyssfs_write
  <2> QED
    BY <1>1, <2>1, <2>4, <2>5, HeldKept DEF Held
<1> QED
  BY <1>3, <1>4, <1>5, <1>6, <1>8, <1>9, <1>12, <1>13, <1>14, <1>15, <1>16, <1>17, <1>20, <1>21
     DEF Next, Continue

(* A descriptor that cp, mv or a test works through always leads to a file *)
(* that still is the one it was opened for: mv unlinks only when it has    *)
(* come to its end, and what it left open is never used again.             *)
THEOREM NothingStaleIsUsed == Spec => []NoStaleHandle
<1>1. Init => StaleInv
  BY DEF Init, Ram!Init, StaleInv, NoStaleHandle
<1>2. ShellInv /\ ShellInv' /\ StaleInv /\ [Next]_vars => StaleInv'
  BY StaleStep
<1>3. StaleInv => NoStaleHandle
  BY DEF StaleInv
<1> QED
  BY <1>1, <1>2, <1>3, Invariance, PTL DEF Spec
================================================================================
