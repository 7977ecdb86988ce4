----------------------------- MODULE AbyssFSProofs -----------------------------
(***************************************************************************)
(* Proofs about AbyssFS, for any names and any numbers of inodes, blocks   *)
(* and words: the invariant AbyssInv and what follows from it.             *)
(***************************************************************************)
EXTENDS AbyssFS, FiniteSetTheorems, SequenceTheorems, WellFoundedInduction, TLAPS

--------------------------------------------------------------------------------
(* Numbers and sequences.                                                  *)

LEMMA LeastExists ==
  ASSUME NEW S \in SUBSET Nat, S # {}
  PROVE  \E x \in S : \A y \in S : x <= y
<1>1. PICK x \in S : \A y \in S : ~ (<<y, x>> \in OpToRel(<, Nat))
  BY NatLessThanWellFounded, WFMin
<1>2. \A y \in S : ~ (y < x)
  BY <1>1 DEF OpToRel
<1> QED
  BY <1>2

(* Induction from n down and from 0 up, as a set of numbers.               *)
LEMMA Downwards ==
  ASSUME NEW n \in Nat, NEW A,
         \A p \in 0 .. n : (\A q \in (p + 1) .. n : q \in A) => p \in A
  PROVE  \A p \in 0 .. n : p \in A
<1> SUFFICES ASSUME NEW r \in 0 .. n, r \notin A PROVE FALSE
  OBVIOUS
<1> DEFINE T == {n - p : p \in {q \in 0 .. n : q \notin A}}
<1>1. T \in SUBSET Nat /\ n - r \in T
  OBVIOUS
<1>2. PICK x \in T : \A y \in T : x <= y
  BY <1>1, LeastExists
<1>3. PICK p \in 0 .. n : p \notin A /\ x = n - p
  OBVIOUS
<1>4. ASSUME NEW q \in (p + 1) .. n, q \notin A
      PROVE  FALSE
  <2>1. q \in 0 .. n /\ n - q \in T
    BY <1>3, <1>4
  <2>2. x <= n - q
    BY <1>2, <2>1
  <2> QED
    BY <1>3, <2>2
<1> QED
  BY <1>3, <1>4

LEMMA Upwards ==
  ASSUME NEW n \in Nat, NEW A, 0 \in A,
         \A k \in 1 .. n : k - 1 \in A => k \in A
  PROVE  \A k \in 0 .. n : k \in A
<1> SUFFICES ASSUME NEW r \in 0 .. n, r \notin A PROVE FALSE
  OBVIOUS
<1> DEFINE T == {k \in 0 .. n : k \notin A}
<1>1. T \in SUBSET Nat /\ r \in T
  OBVIOUS
<1>2. PICK x \in T : \A y \in T : x <= y
  BY <1>1, LeastExists
<1>3. x \in 1 .. n /\ x - 1 \notin T
  BY <1>2
<1> QED
  BY <1>2, <1>3

(* What stands in front of a sequence of positions.                        *)
LEMMA InFront ==
  ASSUME NEW S, NEW p \in S, NEW s \in Seq(S)
  PROVE  LET c == <<p>> \o s
         IN  /\ c \in Seq(S) /\ c # << >> /\ Len(s) \in Nat /\ Len(c) = Len(s) + 1
             /\ DOMAIN c = 1 .. Len(s) + 1 /\ DOMAIN s = 1 .. Len(s)
             /\ c[1] = p /\ \A k \in DOMAIN s : c[k + 1] = s[k]
             /\ \A k \in DOMAIN c : k # 1 => k - 1 \in DOMAIN s /\ c[k] = s[k - 1]
             /\ LastOf(c) = IF s = << >> THEN p ELSE LastOf(s)
<1> DEFINE c == <<p>> \o s
<1>1. /\ c \in Seq(S) /\ Len(s) \in Nat /\ Len(c) = Len(s) + 1
      /\ DOMAIN c = 1 .. Len(s) + 1 /\ DOMAIN s = 1 .. Len(s)
      /\ c[1] = p /\ \A k \in 1 .. Len(s) : c[k + 1] = s[k]
  OBVIOUS
<1>2. c # << >>
  BY <1>1
<1>3. \A k \in DOMAIN c : k # 1 => k - 1 \in DOMAIN s /\ c[k] = s[k - 1]
  BY <1>1
<1>4. s = << >> <=> Len(s) = 0
  BY EmptySeq
<1>5. LastOf(c) = IF s = << >> THEN p ELSE LastOf(s)
  <2>1. CASE s = << >>
    BY <1>1, <1>4, <2>1 DEF LastOf
  <2>2. CASE s # << >>
    <3>1. Len(s) \in 1 .. Len(s)
      BY <1>1, <1>4, <2>2
    <3> QED
      BY <1>1, <2>2, <3>1 DEF LastOf
  <2> QED
    BY <2>1, <2>2
<1> HIDE DEF c
<1>6. /\ c \in Seq(S) /\ c # << >> /\ Len(s) \in Nat /\ Len(c) = Len(s) + 1
      /\ DOMAIN c = 1 .. Len(s) + 1 /\ DOMAIN s = 1 .. Len(s)
      /\ c[1] = p /\ \A k \in DOMAIN s : c[k + 1] = s[k]
      /\ \A k \in DOMAIN c : k # 1 => k - 1 \in DOMAIN s /\ c[k] = s[k - 1]
      /\ LastOf(c) = IF s = << >> THEN p ELSE LastOf(s)
  BY <1>1, <1>2, <1>3, <1>5
<1> QED
  BY <1>6 DEF c

--------------------------------------------------------------------------------
(* Words and sizes.                                                        *)

LEMMA Sizes ==
  /\ NINODES \in Nat /\ NINODES > 2 /\ NDATA \in Nat /\ NDATA > 0
  /\ BLOCK \in Nat /\ REC \in Nat /\ BLOCK > REC + 6 /\ REC > 3
  /\ LISTED \in Nat /\ LISTED > 2
  /\ (BLOCK - 2) % REC \in 4 .. (REC - 1)
<1>1. \A x, m \in Nat : m > 0 => x % m \in 0 .. (m - 1)
  OBVIOUS
<1>2. BLOCK - 2 \in Nat
  BY AbyssAssumption
<1> QED
  BY <1>1, <1>2, AbyssAssumption

AnyName == Name \cup {Dot, DotDot}

LEMMA RoundUp ==
  /\ \A n \in AnyName : Size(n) \in 2 .. REC /\ round_up(n) \in 0 .. (REC - 1)
  /\ \A n \in AnyName : round_up(n) = IF Size(n) = REC THEN 0 ELSE Size(n)
  /\ Size(Dot) = 2 /\ Size(DotDot) = 3 /\ round_up(Dot) = 2 /\ round_up(DotDot) = 3
<1>1. ASSUME NEW n \in AnyName
      PROVE  Size(n) \in 2 .. REC
  BY AbyssAssumption DEF Size, AnyName
<1>2. \A x, m \in Nat : 0 < m /\ x <= m => x % m = IF x = m THEN 0 ELSE x
  OBVIOUS
<1>3. ASSUME NEW n \in AnyName
      PROVE  round_up(n) = IF Size(n) = REC THEN 0 ELSE Size(n)
  BY <1>1, <1>2, Sizes DEF round_up
<1>4. Size(Dot) = 2 /\ Size(DotDot) = 3 /\ Dot \in AnyName /\ DotDot \in AnyName
  BY AbyssAssumption DEF Size, AnyName
<1>5. \A n \in AnyName : round_up(n) \in 0 .. (REC - 1)
  BY <1>1, <1>3, Sizes
<1> QED
  BY <1>1, <1>3, <1>4, <1>5, Sizes

Word == Header \cup {Zero, Other}

(* The lengths that the code gives an entry.                               *)
Proper(n, rec) == \/ rec = round_up(n)
                  \/ n = DotDot /\ rec = (BLOCK - 2) % REC

LEMMA ProperSizes ==
  ASSUME NEW n \in AnyName, NEW rec, Proper(n, rec)
  PROVE  rec \in 0 .. (REC - 1) /\ (rec # 0 => rec >= 2)
<1>1. CASE rec = round_up(n)
  <2>1. Size(n) \in 2 .. REC /\ round_up(n) \in 0 .. (REC - 1)
        /\ round_up(n) = IF Size(n) = REC THEN 0 ELSE Size(n)
    BY RoundUp
  <2> QED
    BY <1>1, <2>1, Sizes
<1>2. CASE rec = (BLOCK - 2) % REC
  <2>1. (BLOCK - 2) % REC \in 4 .. (REC - 1)
    BY Sizes
  <2> QED
    BY <1>2, <2>1, Sizes
<1> QED
  BY <1>1, <1>2 DEF Proper

LEMMA Headers ==
  /\ \A w \in Word : IsHeader(w) <=> w \in Header
  /\ ~IsHeader(Zero) /\ ~IsHeader(Other)
  /\ \A w \in Header : /\ IsHeader(w) /\ w.name \in AnyName /\ w.inode \in Inode
                       /\ w.rec \in 0 .. (REC - 1) /\ Proper(w.name, w.rec)
                       /\ w = [name |-> w.name, inode |-> w.inode, rec |-> w.rec]
  /\ \A rec : \A n \in AnyName, i \in Inode : Proper(n, rec) =>
       /\ [name |-> n, inode |-> i, rec |-> rec] \in Header
       /\ IsHeader([name |-> n, inode |-> i, rec |-> rec])
<1>1. \A w \in Header : /\ w.name \in AnyName /\ w.inode \in Inode
                        /\ w.rec \in 0 .. (REC - 1) /\ Proper(w.name, w.rec)
                        /\ w = [name |-> w.name, inode |-> w.inode, rec |-> w.rec]
  BY DEF Header, AnyName, Proper
<1>2. /\ \A w \in Word : IsHeader(w) <=> w \in Header
      /\ ~IsHeader(Zero) /\ ~IsHeader(Other) /\ \A w \in Header : IsHeader(w)
  BY WordAssumption DEF Word, IsHeader
<1>3. ASSUME NEW n \in AnyName, NEW i \in Inode, NEW rec, Proper(n, rec)
      PROVE  [name |-> n, inode |-> i, rec |-> rec] \in Header
  <2>1. rec \in 0 .. (REC - 1)
    BY <1>3, ProperSizes
  <2> QED
    BY <1>3, <2>1 DEF Header, AnyName, Proper
<1> QED
  BY <1>1, <1>2, <1>3

LEMMA BlockWords ==
  ASSUME NEW b \in Block, NEW p \in Pos
  PROVE  /\ b[p] \in Word
         /\ IsHeader(b[p]) => /\ b[p] \in Header /\ b[p].name \in AnyName
                              /\ b[p].inode \in Inode /\ b[p].rec \in 0 .. (REC - 1)
<1>1. b[p] \in Word
  BY DEF Block, Word
<1> QED
  BY <1>1, Headers

--------------------------------------------------------------------------------
(* Walks along rec_len.                                                    *)

Place == 0 .. (BLOCK + REC)

IsEntry(b, p) == p \in Pos /\ IsHeader(b[p]) /\ b[p].rec # 0

Reached(b, p) == p + b[p].rec

Step(b, f, p) == IF IsEntry(b, p) THEN <<p>> \o f[Reached(b, p)] ELSE << >>

LEMMA Places ==
  /\ BLOCK \in Nat /\ BLOCK + REC \in Nat /\ Pos \subseteq Place
  /\ \A p \in Pos : p \in Int /\ 0 <= p /\ p < BLOCK
  /\ \A p \in Place : p \in Int /\ 0 <= p
  /\ \A p \in Int : 0 <= p /\ p < BLOCK => p \in Pos
  /\ BLOCK + REC \notin Pos
  /\ 0 \in Pos /\ 2 \in Pos /\ 5 \in Pos
BY Sizes DEF Pos, Place

LEMMA Ahead ==
  ASSUME NEW b \in Block, NEW p, IsEntry(b, p)
  PROVE  /\ p \in Pos /\ p \in Int /\ b[p].rec \in 1 .. (REC - 1)
         /\ Reached(b, p) \in Place /\ Reached(b, p) \in Int /\ p < Reached(b, p)
<1>1. p \in Pos /\ b[p].rec \in 0 .. (REC - 1) /\ b[p].rec # 0
  BY BlockWords DEF IsEntry
<1> QED
  BY <1>1, Sizes DEF Reached, Place, Pos

(* There is such a walk from every word of a block.                        *)
LEMMA AlongExists ==
  ASSUME NEW b \in Block
  PROVE  \E f \in [Place -> Seq(Pos)] : \A p \in Place : f[p] = Step(b, f, p)
<1> DEFINE n == BLOCK + REC
           A == {p \in Place : \E f \in [Place -> Seq(Pos)] :
                                 \A q \in p .. n : f[q] = Step(b, f, q)}
<1>1. n \in Nat /\ Place = 0 .. n
  BY Places DEF Place
<1>2. ASSUME NEW p \in 0 .. n, \A q \in (p + 1) .. n : q \in A
      PROVE  p \in A
  <2>1. CASE p = n
    <3> DEFINE f == [q \in Place |-> << >>]
    <3>1. f \in [Place -> Seq(Pos)]
      OBVIOUS
    <3>2. ASSUME NEW q \in p .. n
          PROVE  f[q] = Step(b, f, q)
      <4>1. q = n /\ q \in Place /\ q \notin Pos
        BY <1>1, <2>1, Places
      <4> QED
        BY <4>1 DEF Step, IsEntry
    <3> QED
      BY <1>1, <3>1, <3>2
  <2>2. CASE p # n
    <3>1. p + 1 \in A
      BY <1>1, <1>2, <2>2
    <3>2. PICK f \in [Place -> Seq(Pos)] : \A q \in (p + 1) .. n : f[q] = Step(b, f, q)
      BY <3>1
    <3> HIDE DEF A
    <3> DEFINE g == [f EXCEPT ![p] = Step(b, f, p)]
    <3>3. Step(b, f, p) \in Seq(Pos)
      <4>1. CASE IsEntry(b, p)
        <5>1. p \in Pos /\ f[Reached(b, p)] \in Seq(Pos)
          BY <4>1, Ahead
        <5> QED
          BY <4>1, <5>1, InFront DEF Step
      <4>2. CASE ~IsEntry(b, p)
        BY <4>2 DEF Step
      <4> QED
        BY <4>1, <4>2
    <3>4. g \in [Place -> Seq(Pos)] /\ \A q \in Place : g[q] = IF q = p THEN Step(b, f, p) ELSE f[q]
      BY <1>1, <3>3
    <3> HIDE DEF g
    <3>5. ASSUME NEW q \in p .. n
          PROVE  g[q] = Step(b, g, q)
      <4>1. q \in Place /\ q \in Int /\ p \in Int /\ p <= q
        BY <1>1, Places
      <4>2. IsEntry(b, q) => g[Reached(b, q)] = f[Reached(b, q)]
        BY <3>4, <4>1, Ahead
      <4>3. Step(b, g, q) = Step(b, f, q)
        BY <4>2 DEF Step
      <4>4. q # p => q \in (p + 1) .. n
        BY <1>1
      <4> QED
        BY <3>2, <3>4, <4>1, <4>3, <4>4
    <3> QED
      BY <1>1, <3>4, <3>5 DEF A
  <2> QED
    BY <2>1, <2>2
<1>3. \A p \in 0 .. n : p \in A
  <2> HIDE DEF A
  <2> QED
    BY <1>1, <1>2, Downwards
<1>4. 0 \in A
  <2> HIDE DEF A
  <2> QED
    BY <1>1, <1>3
<1> QED
  BY <1>1, <1>4

LEMMA AlongStep ==
  ASSUME NEW b \in Block, NEW p \in Place
  PROVE  /\ Along(b, p) \in Seq(Pos)
         /\ Along(b, p) = IF IsEntry(b, p) THEN <<p>> \o Along(b, Reached(b, p)) ELSE << >>
<1> DEFINE Iter(f) == [q \in 0 .. (BLOCK + REC) |->
                         IF q \notin Pos THEN << >>
                         ELSE IF ~IsHeader(b[q]) THEN << >>
                         ELSE IF b[q].rec = 0 THEN << >>
                         ELSE <<q>> \o f[q + b[q].rec]]
           from == CHOOSE f : f = Iter(f)
<1>1. PICK f \in [Place -> Seq(Pos)] : \A q \in Place : f[q] = Step(b, f, q)
  BY AlongExists
<1>2. f = Iter(f)
  BY <1>1 DEF Step, IsEntry, Reached, Place
<1>3. from = Iter(from)
  BY <1>2
<1>4. \A q : Along(b, q) = from[q]
  BY DEF Along
<1>5. \A q \in Place : from[q] = Step(b, from, q)
  BY <1>3 DEF Step, IsEntry, Reached, Place
<1> HIDE DEF from, Iter
<1> DEFINE A == {q \in Place : from[q] \in Seq(Pos)}
<1>6. ASSUME NEW q \in 0 .. (BLOCK + REC), \A r \in (q + 1) .. (BLOCK + REC) : r \in A
      PROVE  q \in A
  <2>1. q \in Place
    BY DEF Place
  <2>2. CASE IsEntry(b, q)
    <3>1. Reached(b, q) \in (q + 1) .. (BLOCK + REC) /\ q \in Pos
      BY <2>2, Ahead, Places DEF Place
    <3>2. from[Reached(b, q)] \in Seq(Pos)
      BY <1>6, <3>1
    <3>3. <<q>> \o from[Reached(b, q)] \in Seq(Pos)
      BY <3>1, <3>2, InFront
    <3>4. from[q] = <<q>> \o from[Reached(b, q)]
      BY <1>5, <2>1, <2>2 DEF Step
    <3> QED
      BY <2>1, <3>3, <3>4
  <2>3. CASE ~IsEntry(b, q)
    <3>1. from[q] = Step(b, from, q)
      BY <1>5, <2>1
    <3>2. from[q] = << >>
      BY <2>3, <3>1 DEF Step
    <3>3. << >> \in Seq(Pos)
      OBVIOUS
    <3> QED
      BY <2>1, <3>2, <3>3
  <2> QED
    BY <2>2, <2>3
<1>7. p \in A
  <2> HIDE DEF A
  <2> QED
    BY <1>6, Downwards, Places DEF Place
<1>8. /\ from[p] \in Seq(Pos)
      /\ from[p] = IF IsEntry(b, p) THEN <<p>> \o from[Reached(b, p)] ELSE << >>
  BY <1>5, <1>7 DEF Step
<1>9. Along(b, p) = from[p] /\ Along(b, Reached(b, p)) = from[Reached(b, p)]
  BY <1>4
<1> QED
  BY <1>8, <1>9, Zenon

(* A walk passes entries, each behind the one before.                      *)
Passes(b, p) ==
  LET c == Along(b, p)
  IN  /\ c \in Seq(Pos) /\ Len(c) \in Nat /\ DOMAIN c = 1 .. Len(c)
      /\ \A k \in DOMAIN c : IsEntry(b, c[k]) /\ c[k] \in Int /\ p <= c[k]
      /\ \A j, k \in DOMAIN c : j < k => c[j] < c[k]
      /\ c # << >> => IsEntry(b, LastOf(c))

LEMMA AlongPasses ==
  ASSUME NEW b \in Block, NEW p \in Place
  PROVE  Passes(b, p)
<1> DEFINE A == {q \in Place : Passes(b, q)}
<1>1. ASSUME NEW q \in 0 .. (BLOCK + REC), \A r \in (q + 1) .. (BLOCK + REC) : r \in A
      PROVE  q \in A
  <2> DEFINE c == Along(b, q)
             s == Along(b, Reached(b, q))
  <2>1. q \in Place /\ q \in Int
    BY DEF Place
  <2>2. CASE IsEntry(b, q)
    <3>1. Reached(b, q) \in (q + 1) .. (BLOCK + REC) /\ q \in Pos
      BY <2>2, Ahead, Places DEF Place
    <3>2. Passes(b, Reached(b, q))
      BY <1>1, <3>1
    <3>3. c = <<q>> \o s /\ s \in Seq(Pos)
      BY <2>1, <2>2, <3>2, AlongStep DEF Passes
    <3> HIDE DEF c, s, A
    <3>4. /\ c \in Seq(Pos) /\ c # << >> /\ Len(s) \in Nat /\ Len(c) = Len(s) + 1
          /\ DOMAIN c = 1 .. Len(s) + 1 /\ DOMAIN s = 1 .. Len(s)
          /\ c[1] = q /\ \A k \in DOMAIN s : c[k + 1] = s[k]
          /\ \A k \in DOMAIN c : k # 1 => k - 1 \in DOMAIN s /\ c[k] = s[k - 1]
          /\ LastOf(c) = IF s = << >> THEN q ELSE LastOf(s)
      BY <3>1, <3>3, InFront
    <3>5. /\ \A k \in DOMAIN s : IsEntry(b, s[k]) /\ s[k] \in Int /\ q < s[k]
          /\ \A j, k \in DOMAIN s : j < k => s[j] < s[k]
          /\ s # << >> => IsEntry(b, LastOf(s))
      <4>1. \A k \in DOMAIN s : IsEntry(b, s[k]) /\ s[k] \in Int /\ Reached(b, q) <= s[k]
        BY <3>2 DEF Passes, s
      <4>2. Reached(b, q) \in Int /\ q < Reached(b, q)
        BY <2>1, <3>1
      <4>3. \A k \in DOMAIN s : q < s[k]
        BY <2>1, <4>1, <4>2
      <4>4. /\ \A j, k \in DOMAIN s : j < k => s[j] < s[k]
            /\ s # << >> => IsEntry(b, LastOf(s))
        BY <3>2 DEF Passes, s
      <4> QED
        BY <4>1, <4>3, <4>4
    <3>6. ASSUME NEW k \in DOMAIN c
          PROVE  IsEntry(b, c[k]) /\ c[k] \in Int /\ q <= c[k]
      <4>1. CASE k = 1
        BY <2>1, <2>2, <3>4, <4>1
      <4>2. CASE k # 1
        BY <2>1, <3>4, <3>5, <4>2
      <4> QED
        BY <4>1, <4>2
    <3>7. ASSUME NEW j \in DOMAIN c, NEW k \in DOMAIN c, j < k
          PROVE  c[j] < c[k]
      <4>1. k # 1 /\ k - 1 \in DOMAIN s /\ c[k] = s[k - 1]
        BY <3>4, <3>7
      <4>2. CASE j = 1
        BY <3>4, <3>5, <4>1, <4>2
      <4>3. CASE j # 1
        <5>1. j - 1 \in DOMAIN s /\ c[j] = s[j - 1] /\ j - 1 < k - 1
          BY <3>4, <3>7, <4>3
        <5> QED
          BY <3>5, <4>1, <5>1
      <4> QED
        BY <4>2, <4>3
    <3>8. IsEntry(b, LastOf(c))
      BY <2>2, <3>4, <3>5
    <3>9. Len(c) \in Nat /\ DOMAIN c = 1 .. Len(c)
      BY <3>4
    <3>10. Passes(b, q)
      BY <3>4, <3>6, <3>7, <3>8, <3>9 DEF Passes, c
    <3> QED
      BY <2>1, <3>10 DEF A
  <2>3. CASE ~IsEntry(b, q)
    <3>1. c = << >> /\ c \in Seq(Pos)
      BY <2>1, <2>3, AlongStep
    <3>2. Len(c) = 0 /\ DOMAIN c = {}
      BY <3>1
    <3> QED
      BY <2>1, <3>1, <3>2 DEF Passes
  <2> QED
    BY <2>2, <2>3
<1>2. p \in A
  <2> HIDE DEF A
  <2> QED
    BY <1>1, Downwards, Places DEF Place
<1> QED
  BY <1>2

(* The entries passed from word 0.                                         *)
LEMMA PassedEntries ==
  ASSUME NEW b \in Block
  PROVE  /\ Passed(b) \subseteq Pos
         /\ \A p \in Passed(b) : IsEntry(b, p)
         /\ \A n : Found(b, n) = {p \in Passed(b) : b[p].name = n}
         /\ Chain(b) # << >> => IsEntry(b, LastOf(Chain(b)))
<1>1. Passes(b, 0)
  BY AlongPasses, Places
<1>2. /\ \A k \in DOMAIN Chain(b) : IsEntry(b, Chain(b)[k])
      /\ Chain(b) # << >> => IsEntry(b, LastOf(Chain(b)))
  BY <1>1, Zenon DEF Passes, Chain
<1>3. Passed(b) \subseteq Pos /\ \A p \in Passed(b) : IsEntry(b, p)
  BY <1>2 DEF Passed, IsEntry
<1>4. \A n : Found(b, n) = {p \in Passed(b) : b[p].name = n}
  BY DEF Found, Passed
<1> QED
  BY <1>2, <1>3, <1>4

LEMMA FoundWords ==
  ASSUME NEW b \in Block, NEW n, NEW p \in Found(b, n)
  PROVE  /\ p \in Passed(b) /\ p \in Pos /\ IsHeader(b[p]) /\ b[p] \in Header
         /\ b[p].name = n /\ b[p].inode \in Inode /\ b[p].rec \in 1 .. (REC - 1)
<1>1. p \in Passed(b) /\ IsEntry(b, p) /\ b[p].name = n
  BY PassedEntries
<1> QED
  BY <1>1, BlockWords, Ahead DEF IsEntry

--------------------------------------------------------------------------------
(* The list of the root.                                                   *)

LEMMA ListParts ==
  ASSUME NEW b \in Block, NEW S, NEW end, IsList(b, S, end)
  PROVE  /\ S \subseteq Pos /\ S \subseteq Place /\ end \in Pos /\ end \in Place /\ end \in Int
         /\ end \notin S /\ ~IsEntry(b, end)
         /\ \A p \in S : /\ IsEntry(b, p) /\ p \in Int /\ 0 <= p /\ p < end
                         /\ Reached(b, p) \in S \cup {end} /\ p < Reached(b, p)
         /\ \A p, q \in S : p < q => Reached(b, p) <= q
         /\ IsFiniteSet(S)
<1>1. S \subseteq Pos /\ end \in Pos /\ \A p \in S : p < end /\ IsHeader(b[p]) /\ b[p].rec > 0
  BY DEF IsList
<1>2. S \subseteq Place /\ end \in Place /\ end \in Int
  BY <1>1, Places
<1>3. end \notin S /\ ~IsEntry(b, end)
  BY <1>1, <1>2 DEF IsList, IsEntry
<1>4. ASSUME NEW p \in S
      PROVE  /\ IsEntry(b, p) /\ p \in Int /\ 0 <= p /\ p < end
             /\ Reached(b, p) \in S \cup {end} /\ p < Reached(b, p)
  <2>1. p \in Pos /\ IsEntry(b, p)
    <3>1. p \in Pos /\ IsHeader(b[p]) /\ b[p].rec > 0
      BY <1>1
    <3>2. b[p].rec # 0
      BY <3>1
    <3> QED
      BY <3>1, <3>2 DEF IsEntry
  <2> QED
    BY <1>1, <2>1, Ahead, Places DEF IsList, Reached
<1>5. \A p, q \in S : p < q => Reached(b, p) <= q
  BY DEF IsList, Reached
<1>6. IsFiniteSet(Pos)
  BY Sizes, FS_Interval DEF Pos
<1>7. IsFiniteSet(S)
  BY <1>1, <1>6, FS_Subset
<1> QED
  BY <1>1, <1>2, <1>3, <1>4, <1>5, <1>7

From(S, p) == {q \in S : p <= q}

ListFrom(b, S, end, p) ==
  LET c == Along(b, p)
  IN  /\ \A k \in DOMAIN c : c[k] \in S
      /\ \A q \in From(S, p) : \E k \in DOMAIN c : c[k] = q
      /\ p \in S => c # << >> /\ LastOf(c) \in S /\ Reached(b, LastOf(c)) = end
      /\ Len(c) = Cardinality(From(S, p))

(* A walk from an entry of the list passes the entries behind it.          *)
LEMMA ListAlong ==
  ASSUME NEW b \in Block, NEW S, NEW end, IsList(b, S, end), NEW p \in S \cup {end}
  PROVE  ListFrom(b, S, end, p)
<1> DEFINE A == {q \in Place : q \in S \cup {end} => ListFrom(b, S, end, q)}
<1>1. ASSUME NEW q \in 0 .. (BLOCK + REC), \A r \in (q + 1) .. (BLOCK + REC) : r \in A
      PROVE  q \in A
  <2> DEFINE c == Along(b, q)
             s == Along(b, Reached(b, q))
             next == Reached(b, q)
  <2>1. q \in Place /\ q \in Int
    BY DEF Place
  <2>2. CASE q \in S
    <3>1. /\ IsEntry(b, q) /\ q \in Pos /\ next \in Int /\ q < next
          /\ next \in S \cup {end} /\ next \in (q + 1) .. (BLOCK + REC)
      BY <2>1, <2>2, ListParts, Ahead, Places DEF Place
    <3>2. ListFrom(b, S, end, next) /\ Passes(b, next)
      BY <1>1, <3>1, AlongPasses, Places DEF Place
    <3>3. c = <<q>> \o s /\ s \in Seq(Pos)
      BY <2>1, <3>1, <3>2, AlongStep DEF Passes
    <3> HIDE DEF c, s, A
    <3>4. /\ c \in Seq(Pos) /\ c # << >> /\ Len(s) \in Nat /\ Len(c) = Len(s) + 1
          /\ DOMAIN c = 1 .. Len(s) + 1 /\ DOMAIN s = 1 .. Len(s)
          /\ c[1] = q /\ \A k \in DOMAIN s : c[k + 1] = s[k]
          /\ \A k \in DOMAIN c : k # 1 => k - 1 \in DOMAIN s /\ c[k] = s[k - 1]
          /\ LastOf(c) = IF s = << >> THEN q ELSE LastOf(s)
      BY <3>1, <3>3, InFront
    <3>5. From(S, q) = From(S, next) \cup {q} /\ q \notin From(S, next)
      <4>1. ASSUME NEW r \in S
            PROVE  q <= r <=> r = q \/ next <= r
        <5>1. r \in Int /\ (q < r => next <= r)
          BY <2>2, ListParts
        <5> QED
          BY <2>1, <3>1, <5>1
      <4>2. ~ (next <= q)
        BY <2>1, <3>1
      <4> QED
        BY <2>2, <4>1, <4>2 DEF From
    <3> HIDE DEF next
    <3>6. /\ \A k \in DOMAIN s : s[k] \in S
          /\ \A r \in From(S, next) : \E k \in DOMAIN s : s[k] = r
          /\ next \in S => s # << >> /\ LastOf(s) \in S /\ Reached(b, LastOf(s)) = end
          /\ Len(s) = Cardinality(From(S, next))
      BY <3>2 DEF ListFrom, s, next
    <3>7. \A k \in DOMAIN c : c[k] \in S
      BY <2>2, <3>4, <3>6
    <3>8. ASSUME NEW r \in From(S, q)
          PROVE  \E k \in DOMAIN c : c[k] = r
      <4>1. CASE r = q
        BY <3>4, <4>1
      <4>2. CASE r # q
        <5>1. PICK k \in DOMAIN s : s[k] = r
          BY <3>5, <3>6, <4>2
        <5>2. k + 1 \in DOMAIN c /\ c[k + 1] = r
          BY <3>4, <5>1
        <5> QED
          BY <5>2
      <4> QED
        BY <4>1, <4>2
    <3>9. LastOf(c) \in S /\ Reached(b, LastOf(c)) = end
      <4>1. CASE s = << >>
        BY <2>2, <3>1, <3>4, <3>6, <4>1 DEF next
      <4>2. CASE s # << >>
        <5>1. 1 \in DOMAIN s
          <6>1. Len(s) # 0
            BY <3>3, <4>2, EmptySeq
          <6> QED
            BY <3>4, <6>1
        <5>2. s = Along(b, next) /\ next \in Place
          BY <3>1, Places DEF s, next, Place
        <5>3. next \in S
          <6>1. IsEntry(b, next)
            BY <4>2, <5>2, AlongStep
          <6> QED
            BY <3>1, <6>1, ListParts
        <5> QED
          BY <3>4, <3>6, <4>2, <5>3
      <4> QED
        BY <4>1, <4>2
    <3>10. Len(c) = Cardinality(From(S, q))
      <4>1. IsFiniteSet(From(S, next))
        BY ListParts, FS_Subset DEF From
      <4>2. Cardinality(From(S, next) \cup {q}) = Cardinality(From(S, next)) + 1
        BY <3>5, <4>1, FS_AddElement
      <4> QED
        BY <3>4, <3>5, <3>6, <4>2
    <3>11. ListFrom(b, S, end, q)
      BY <3>4, <3>7, <3>8, <3>9, <3>10 DEF ListFrom, c
    <3> QED
      BY <2>1, <3>11 DEF A
  <2>3. CASE q = end
    <3>1. c = << >> /\ DOMAIN c = {} /\ Len(c) = 0
      <4>1. c = << >>
        BY <2>1, <2>3, AlongStep, ListParts
      <4> QED
        BY <4>1
    <3>2. From(S, q) = {}
      <4>1. \A r \in S : r \in Int /\ r < end
        BY ListParts
      <4> QED
        BY <2>1, <2>3, <4>1 DEF From
    <3>3. Cardinality(From(S, q)) = 0
      BY <3>2, FS_EmptySet
    <3>4. ListFrom(b, S, end, q)
      BY <2>3, <3>1, <3>2, <3>3, ListParts DEF ListFrom
    <3> QED
      BY <2>1, <3>4
  <2> QED
    BY <2>1, <2>2, <2>3
<1>2. p \in 0 .. (BLOCK + REC) /\ BLOCK + REC \in Nat
  BY ListParts, Places DEF Place
<1>3. p \in A
  <2> HIDE DEF A
  <2> QED
    BY <1>1, <1>2, Downwards
<1> QED
  BY <1>3

(* So what the root shows is the list.                                     *)
LEMMA ListPassed ==
  ASSUME NEW b \in Block, NEW S, NEW end, IsList(b, S, end)
  PROVE  /\ Passed(b) = S
         /\ Chain(b) # << >> /\ LastOf(Chain(b)) \in S /\ Reached(b, LastOf(Chain(b))) = end
         /\ Len(Chain(b)) = Cardinality(S)
<1>1. 0 \in S
  BY DEF IsList
<1>2. ListFrom(b, S, end, 0)
  BY <1>1, ListAlong
<1>3. From(S, 0) = S
  BY ListParts DEF From
<1> QED
  BY <1>1, <1>2, <1>3 DEF ListFrom, Chain, Passed

--------------------------------------------------------------------------------
(* What the calls write to a block.                                        *)

Record(n, i, rec) == [name |-> n, inode |-> i, rec |-> rec]

LEMMA WrittenWords ==
  ASSUME NEW b \in Block, NEW p \in Pos, NEW n \in AnyName, NEW i \in Inode,
         NEW rec, Proper(n, rec)
  PROVE  /\ Written(b, p, n, i, rec) \in Block
         /\ \A q \in Pos : Written(b, p, n, i, rec)[q] =
              IF q = p THEN Record(n, i, rec)
              ELSE IF p < q /\ q < p + Size(n) THEN Other ELSE b[q]
<1>1. Size(n) \in Int /\ Size(n) > 0 /\ Record(n, i, rec) \in Header
  BY RoundUp, Headers, Sizes DEF Record
<1>2. ASSUME NEW q \in Pos, q # p
      PROVE  q \in p .. (p + Size(n) - 1) <=> p < q /\ q < p + Size(n)
  BY <1>1, <1>2, Places
<1>3. \A q \in Pos : Written(b, p, n, i, rec)[q] =
        IF q = p THEN Record(n, i, rec)
        ELSE IF p < q /\ q < p + Size(n) THEN Other ELSE b[q]
  BY <1>2 DEF Written, Record
<1>4. \A q \in Pos : Written(b, p, n, i, rec)[q] \in Header \cup {Zero, Other}
  BY <1>1, <1>3 DEF Block
<1>5. Written(b, p, n, i, rec) \in Block
  BY <1>4 DEF Block, Written
<1> QED
  BY <1>3, <1>5

(* Where create_file puts an entry.                                        *)
At(b) == IF Chain(b) = << >> THEN 0 ELSE LastOf(Chain(b)) + round_up(b[LastOf(Chain(b))].name)

LEMMA Fits ==
  ASSUME NEW b \in Block, NEW n \in Name, ~Overflows(b, n)
  PROVE  /\ At(b) \in Pos /\ At(b) + Size(n) < BLOCK /\ At(b) + Size(n) \in Pos
         /\ At(b) \in Int /\ Size(n) \in Int /\ Size(n) >= 2
         /\ Chain(b) # << >> => /\ LastOf(Chain(b)) \in Pos /\ LastOf(Chain(b)) <= At(b)
                                /\ b[LastOf(Chain(b))] \in Header
                                /\ round_up(b[LastOf(Chain(b))].name) \in 0 .. (REC - 1)
<1>1. Size(n) \in Int /\ Size(n) >= 2
  BY RoundUp, Sizes DEF AnyName
<1>2. ASSUME Chain(b) # << >>
      PROVE  /\ LastOf(Chain(b)) \in Pos /\ b[LastOf(Chain(b))] \in Header
             /\ round_up(b[LastOf(Chain(b))].name) \in 0 .. (REC - 1)
  BY <1>2, PassedEntries, BlockWords, RoundUp DEF IsEntry
<1>3. At(b) \in Int /\ At(b) >= 0
  BY <1>2, Places, Sizes DEF At
<1>4. At(b) + Size(n) + 2 <= BLOCK
  <2>1. ~ (At(b) + Size(n) + 2 > BLOCK)
    BY DEF Overflows, At
  <2> QED
    BY <1>1, <1>3, <2>1, Sizes
<1>5. Chain(b) # << >> => LastOf(Chain(b)) <= At(b)
  BY <1>2, Places, Sizes DEF At
<1> QED
  BY <1>1, <1>2, <1>3, <1>4, <1>5, Places

LEMMA AppendedWords ==
  ASSUME NEW b \in Block, NEW n \in Name, NEW i \in Inode, ~Overflows(b, n)
  PROVE  /\ Appended(b, n, i) \in Block
         /\ \A q \in Pos :
              LET e == Appended(b, n, i)
              IN  /\ q = At(b) => e[q] = Record(n, i, round_up(n))
                  /\ q < At(b) => e[q] = IF q = LastOf(Chain(b))
                                         THEN [b[q] EXCEPT !.rec = round_up(b[q].name)]
                                         ELSE b[q]
                  /\ q > At(b) => ~IsHeader(e[q]) \/ (Chain(b) = << >> /\ e[q] = b[q])
<1> DEFINE at == At(b)
           last == LastOf(Chain(b))
           cut == round_up(b[last].name)
           e == Appended(b, n, i)
<1>1. /\ at \in Pos /\ at \in Int /\ Size(n) \in Int /\ Size(n) >= 2 /\ n \in AnyName
      /\ round_up(n) \in 0 .. (REC - 1) /\ Proper(n, round_up(n))
  BY Fits, RoundUp DEF AnyName, Proper
<1>2. CASE Chain(b) = << >>
  <2>1. at = 0 /\ e = Written(b, 0, n, i, round_up(n))
    BY <1>2 DEF At, Appended
  <2>2. ~ (\E q \in Pos : q < at)
    BY <2>1, Places
  <2>3. /\ e \in Block
        /\ \A q \in Pos : e[q] = IF q = at THEN Record(n, i, round_up(n))
                                 ELSE IF at < q /\ q < at + Size(n) THEN Other ELSE b[q]
    BY <1>1, <2>1, WrittenWords
  <2> HIDE DEF e, at
  <2>4. ASSUME NEW q \in Pos, q > at
        PROVE  ~IsHeader(e[q]) \/ e[q] = b[q]
    <3>1. q # at
      BY <1>1, <2>4, Places
    <3> QED
      BY <2>3, <3>1, Headers
  <2>5. ASSUME NEW q \in Pos
        PROVE  /\ q = at => e[q] = Record(n, i, round_up(n))
               /\ ~ (q < at)
               /\ q > at => ~IsHeader(e[q]) \/ (Chain(b) = << >> /\ e[q] = b[q])
    BY <1>2, <2>2, <2>3, <2>4
  <2>6. \A q \in Pos :
          /\ q = at => e[q] = Record(n, i, round_up(n))
          /\ q < at => e[q] = IF q = last THEN [b[q] EXCEPT !.rec = round_up(b[q].name)]
                                          ELSE b[q]
          /\ q > at => ~IsHeader(e[q]) \/ (Chain(b) = << >> /\ e[q] = b[q])
    BY <2>5, Zenon
  <2>7. e \in Block
    BY <2>3
  <2> QED
    BY <2>6, <2>7 DEF e, at
<1>3. CASE Chain(b) # << >>
  <2> DEFINE c == [q \in Pos |-> IF q = last THEN [b[q] EXCEPT !.rec = cut]
                                 ELSE IF q >= at THEN Zero ELSE b[q]]
  <2>1. at = last + cut /\ e = Written(c, at, n, i, round_up(n))
    BY <1>3 DEF At, Appended
  <2>2. /\ last \in Pos /\ last \in Int /\ last <= at /\ b[last] \in Header
        /\ cut \in 0 .. (REC - 1)
    BY <1>3, Fits, Places
  <2>3. \A q \in Pos : c[q] = IF q = last THEN [b[q] EXCEPT !.rec = cut]
                              ELSE IF q >= at THEN Zero ELSE b[q]
    OBVIOUS
  <2>4. c \in Block
    <3>1. [b[last] EXCEPT !.rec = cut] \in Header
      <4>1. /\ b[last].name \in AnyName /\ b[last].inode \in Inode
            /\ b[last] = [name |-> b[last].name, inode |-> b[last].inode, rec |-> b[last].rec]
        BY <2>2, Headers
      <4>2. [b[last] EXCEPT !.rec = cut]
              = [name |-> b[last].name, inode |-> b[last].inode, rec |-> cut]
        BY <4>1
      <4>3. Proper(b[last].name, cut)
        BY DEF Proper
      <4> QED
        BY <4>1, <4>2, <4>3, Headers
    <3>2. \A q \in Pos : c[q] \in Header \cup {Zero, Other}
      BY <2>3, <3>1 DEF Block
    <3> QED
      BY <3>2 DEF Block
  <2> HIDE DEF c, e, at
  <2>5. /\ e \in Block
        /\ \A q \in Pos : e[q] = IF q = at THEN Record(n, i, round_up(n))
                                 ELSE IF at < q /\ q < at + Size(n) THEN Other ELSE c[q]
    BY <1>1, <2>1, <2>4, WrittenWords
  <2> HIDE DEF last, cut
  <2>6. ASSUME NEW q \in Pos
        PROVE  /\ q = at => e[q] = Record(n, i, round_up(n))
               /\ q < at => e[q] = IF q = last THEN [b[q] EXCEPT !.rec = cut] ELSE b[q]
               /\ q > at => ~IsHeader(e[q])
    <3>1. q \in Int
      BY Places
    <3>2. CASE q = at
      BY <1>1, <2>5, <3>2
    <3>3. CASE q < at
      BY <1>1, <2>3, <2>5, <3>1, <3>3
    <3>4. CASE q > at
      <4>1. q # last /\ q >= at /\ q # at
        BY <1>1, <2>2, <3>1, <3>4
      <4>2. e[q] = Other \/ e[q] = Zero
        BY <2>3, <2>5, <4>1
      <4> QED
        BY <1>1, <3>1, <3>4, <4>2, Headers
    <3> QED
      BY <1>1, <3>1, <3>2, <3>3, <3>4
  <2>7. \A q \in Pos :
             /\ q = at => e[q] = Record(n, i, round_up(n))
             /\ q < at => e[q] = IF q = last THEN [b[q] EXCEPT !.rec = round_up(b[q].name)]
                                             ELSE b[q]
             /\ q > at => ~IsHeader(e[q]) \/ (Chain(b) = << >> /\ e[q] = b[q])
    <3>1. \A q \in Pos : q = last => cut = round_up(b[q].name)
      BY DEF cut
    <3> SUFFICES ASSUME NEW q \in Pos
                 PROVE  /\ q = at => e[q] = Record(n, i, round_up(n))
                        /\ q < at => e[q] = IF q = last
                                            THEN [b[q] EXCEPT !.rec = round_up(b[q].name)]
                                            ELSE b[q]
                        /\ q > at => ~IsHeader(e[q]) \/ (Chain(b) = << >> /\ e[q] = b[q])
      BY Zenon
    <3>2. CASE q = last
      <4>1. cut = round_up(b[q].name)
        BY <3>1, <3>2
      <4> QED
        BY <2>6, <3>2, <4>1
    <3>3. CASE q # last
      BY <2>6, <3>3
    <3> QED
      BY <3>2, <3>3
  <2> QED
    BY <2>5, <2>7 DEF e, at, last
<1> QED
  BY <1>2, <1>3

LEMMA AppendedEntry ==
  ASSUME NEW b \in Block, NEW n \in Name, NEW i \in Inode, ~Overflows(b, n)
  PROVE  /\ At(b) \in Pos /\ Appended(b, n, i) \in Block
         /\ Appended(b, n, i)[At(b)] = Record(n, i, round_up(n))
<1>1. At(b) \in Pos
  BY Fits
<1>2. ASSUME NEW q \in Pos, q = At(b)
      PROVE  Appended(b, n, i) \in Block /\ Appended(b, n, i)[q] = Record(n, i, round_up(n))
  <2> DEFINE e == Appended(b, n, i)
  <2>1. /\ q = At(b) => e[q] = Record(n, i, round_up(n))
        /\ q < At(b) => e[q] = IF q = LastOf(Chain(b))
                               THEN [b[q] EXCEPT !.rec = round_up(b[q].name)] ELSE b[q]
        /\ q > At(b) => ~IsHeader(e[q]) \/ e[q] = b[q]
    BY AppendedWords
  <2>2. e \in Block
    BY AppendedWords
  <2> HIDE DEF e
  <2> QED
    BY <1>2, <2>1, <2>2, Zenon DEF e
<1> QED
  BY <1>1, <1>2

(* Every header of the new block is one of the old, or the new entry.      *)
LEMMA AppendedHeaders ==
  ASSUME NEW b \in Block, NEW n \in Name, NEW i \in Inode, ~Overflows(b, n),
         NEW q \in Pos, IsHeader(Appended(b, n, i)[q])
  PROVE  LET e == Appended(b, n, i)
         IN  \/ q = At(b) /\ e[q].name = n /\ e[q].inode = i
             \/ IsHeader(b[q]) /\ e[q].name = b[q].name /\ e[q].inode = b[q].inode
<1> DEFINE e == Appended(b, n, i)
<1>1. At(b) \in Int /\ q \in Int
  BY Fits, Places
<1>2. /\ q = At(b) => e[q] = Record(n, i, round_up(n))
      /\ q < At(b) => e[q] = IF q = LastOf(Chain(b))
                             THEN [b[q] EXCEPT !.rec = round_up(b[q].name)] ELSE b[q]
      /\ q > At(b) => ~IsHeader(e[q]) \/ e[q] = b[q]
  BY AppendedWords
<1>3. IsHeader(e[q])
  OBVIOUS
<1> HIDE DEF e
<1>4. CASE q = At(b)
  BY <1>2, <1>4 DEF Record, e
<1>5. CASE q < At(b)
  <2>1. CASE q = LastOf(Chain(b))
    <3>1. Chain(b) # << >>
      BY <1>1, <1>5, Places DEF At
    <3>2. b[q] \in Header
      BY <2>1, <3>1, Fits
    <3>3. IsHeader(b[q])
      BY <3>2, Headers
    <3>4. e[q].name = b[q].name /\ e[q].inode = b[q].inode
      BY <1>2, <1>5, <2>1, <3>2 DEF Header
    <3> QED
      BY <3>3, <3>4 DEF e
  <2>2. CASE q # LastOf(Chain(b))
    BY <1>2, <1>3, <1>5, <2>2 DEF e
  <2> QED
    BY <2>1, <2>2
<1>6. CASE q > At(b)
  BY <1>2, <1>3, <1>6 DEF e
<1> QED
  BY <1>1, <1>4, <1>5, <1>6

LEMMA RecordFields ==
  ASSUME NEW n, NEW i, NEW rec
  PROVE  Record(n, i, rec).name = n /\ Record(n, i, rec).inode = i /\ Record(n, i, rec).rec = rec
BY DEF Record

(* A list of entries for which its new part decides: IsList in pieces.     *)
LEMMA ListIntro ==
  ASSUME NEW b, NEW S, NEW end \in Pos, S \subseteq Pos, {0, 2} \subseteq S,
         IsHeader(b[end]) => b[end].rec = 0,
         \A p \in S : /\ p < end /\ IsHeader(b[p]) /\ b[p].rec > 0
                      /\ Reached(b, p) \in S \cup {end},
         \A p \in S : p \notin {0, 2} => b[p].name \in Name /\ b[p].rec = round_up(b[p].name),
         \A p, q \in S : p < q => Reached(b, p) <= q,
         b[0] = Record(Dot, Root, 2),
         b[2].name = DotDot /\ b[2].inode = Root,
         b[2].rec = 3 \/ S = {0, 2}
  PROVE  IsList(b, S, end)
BY DEF IsList, Record, Reached

LEMMA ListElim ==
  ASSUME NEW b, NEW S, NEW end, IsList(b, S, end)
  PROVE  /\ {0, 2} \subseteq S /\ (IsHeader(b[end]) => b[end].rec = 0)
         /\ \A p \in S : p \notin {0, 2} => b[p].name \in Name /\ b[p].rec = round_up(b[p].name)
         /\ b[0] = Record(Dot, Root, 2) /\ b[2].name = DotDot /\ b[2].inode = Root
         /\ b[2].rec = 3 \/ S = {0, 2}
BY DEF IsList, Record

(* create_file in the root: the entry at At is the next of the list, or,   *)
(* when its rec_len is 0, the word where walks end.                        *)
LEMMA AppendedList ==
  ASSUME NEW b \in Block, NEW S, NEW end, IsList(b, S, end),
         NEW n \in Name, NEW i \in Inode, ~Overflows(b, n)
  PROVE  /\ At(b) \notin S
         /\ \E T \in SUBSET (S \cup {At(b)}), stop \in Pos : IsList(Appended(b, n, i), T, stop)
<1> DEFINE e == Appended(b, n, i)
           at == At(b)
           last == LastOf(Chain(b))
           new == round_up(n)
           T == IF new = 0 THEN S ELSE S \cup {at}
           stop == IF new = 0 THEN at ELSE at + new
<1>1. /\ Chain(b) # << >> /\ last \in S /\ Reached(b, last) = end
      /\ at = last + round_up(b[last].name)
  BY ListPassed DEF At
<1>2. /\ S \subseteq Pos /\ end \in Int /\ end \in Pos /\ end \notin S
      /\ \A p \in S : /\ IsEntry(b, p) /\ p \in Int /\ 0 <= p /\ p < end
                      /\ Reached(b, p) \in S \cup {end} /\ p < Reached(b, p)
      /\ \A p, q \in S : p < q => Reached(b, p) <= q
  BY ListParts
<1>3. /\ {0, 2} \subseteq S
      /\ \A p \in S : p \notin {0, 2} => b[p].name \in Name /\ b[p].rec = round_up(b[p].name)
      /\ b[0] = Record(Dot, Root, 2) /\ b[2].name = DotDot /\ b[2].inode = Root
      /\ b[2].rec = 3 \/ S = {0, 2}
  BY ListElim
<1>4. /\ at \in Pos /\ at \in Int /\ at + Size(n) \in Pos /\ Size(n) \in Int /\ Size(n) >= 2
      /\ new \in Int /\ (new = 0 \/ new = Size(n)) /\ b[last] \in Header
  <2>1. /\ at \in Pos /\ at \in Int /\ at + Size(n) \in Pos /\ Size(n) \in Int
        /\ Size(n) >= 2
    BY Fits
  <2>2. b[last] \in Header
    BY <1>1, Fits
  <2>3. new \in 0 .. (REC - 1) /\ (new = 0 \/ new = Size(n))
    BY RoundUp DEF AnyName
  <2>4. new \in Int
    BY <2>3
  <2> QED
    BY <2>1, <2>2, <2>3, <2>4
<1> HIDE DEF last, at, new
<1>5. \A p \in S : p <= last
  <2> SUFFICES ASSUME NEW p \in S, last < p PROVE FALSE
    BY <1>1, <1>2
  <2>1. end <= p /\ p < end
    BY <1>1, <1>2
  <2> QED
    BY <1>2, <2>1
<1>6. last # 0
  <2> SUFFICES ASSUME last = 0 PROVE FALSE
    OBVIOUS
  <2>1. 2 \in S /\ 0 < 2
    BY <1>3
  <2>2. 2 <= 0
    BY <1>5, <2>1
  <2> QED
    BY <2>2
<1>7. at > last /\ (last # 2 => at = end) /\ (last = 2 => at = 5 /\ S = {0, 2})
  <2>1. CASE last = 2
    <3>1. round_up(b[last].name) = 3
      BY <1>3, <2>1, RoundUp
    <3>2. \A p \in S : p \in {0, 2}
      <4>1. ASSUME NEW p \in S, p \notin {0, 2}
            PROVE  FALSE
        <5>1. Reached(b, 0) = 2
          BY <1>3, RecordFields DEF Reached
        <5>2. p \in Int /\ 0 <= p /\ p <= 2 /\ 0 < p
          BY <1>2, <1>5, <2>1, <4>1
        <5>3. 2 <= p
          BY <1>2, <1>3, <5>1, <5>2
        <5> QED
          BY <4>1, <5>2, <5>3
      <4> QED
        BY <4>1
    <3>3. S = {0, 2}
      BY <1>3, <3>2
    <3>4. at = 5
      BY <1>1, <2>1, <3>1
    <3> QED
      BY <2>1, <3>3, <3>4
  <2>2. CASE last # 2
    <3>1. round_up(b[last].name) = b[last].rec
      BY <1>1, <1>3, <1>6, <2>2
    <3>2. at = end
      BY <1>1, <3>1 DEF Reached
    <3> QED
      BY <1>1, <1>2, <2>2, <3>2
  <2> QED
    BY <2>1, <2>2
<1>8. at \notin S /\ \A p \in S : p < at
  BY <1>1, <1>2, <1>4, <1>5, <1>7
<1>9. ASSUME NEW q \in Pos
      PROVE  /\ q = at => e[q] = Record(n, i, new)
             /\ q < at => e[q] = IF q = last THEN [b[q] EXCEPT !.rec = round_up(b[q].name)]
                                             ELSE b[q]
             /\ q > at => ~IsHeader(e[q])
  <2>1. /\ q = At(b) => e[q] = Record(n, i, round_up(n))
        /\ q < At(b) => e[q] = IF q = LastOf(Chain(b))
                               THEN [b[q] EXCEPT !.rec = round_up(b[q].name)]
                               ELSE b[q]
        /\ q > At(b) => ~IsHeader(e[q]) \/ (Chain(b) = << >> /\ e[q] = b[q])
    BY AppendedWords
  <2> HIDE DEF e
  <2>2. q > At(b) => ~IsHeader(e[q])
    BY <1>1, <2>1
  <2> QED
    BY <2>1, <2>2, Zenon DEF at, last, new
<1> HIDE DEF e
<1>10. ASSUME NEW p \in S
       PROVE  /\ IsHeader(e[p]) /\ e[p].name = b[p].name /\ e[p].inode = b[p].inode
              /\ p = last => Reached(e, p) = at /\ e[p].rec = round_up(e[p].name)
              /\ p # last => e[p] = b[p] /\ Reached(e, p) = Reached(b, p)
  <2>1. p \in Pos /\ p < at /\ IsHeader(b[p])
    BY <1>2, <1>8 DEF IsEntry
  <2>2. CASE p = last
    <3>1. e[p] = [b[p] EXCEPT !.rec = round_up(b[p].name)] /\ b[p] \in Header
      BY <1>4, <1>9, <2>1, <2>2
    <3>2. e[p].name = b[p].name /\ e[p].inode = b[p].inode /\ e[p].rec = round_up(b[p].name)
      BY <3>1 DEF Header
    <3>3. e[p] \in Header
      <4>1. round_up(b[p].name) \in 0 .. (REC - 1)
        BY <3>1, Headers, RoundUp
      <4> QED
        BY <3>1, <4>1 DEF Header
    <3> QED
      BY <1>1, <2>2, <3>2, <3>3, Headers DEF Reached
  <2>3. CASE p # last
    BY <1>9, <2>1, <2>3 DEF Reached
  <2> QED
    BY <2>2, <2>3
<1>11. ASSUME NEW p \in S
       PROVE  p # last => Reached(b, p) \in S /\ Reached(b, p) <= last
  <2>1. p # last => p < last
    BY <1>1, <1>2, <1>5
  <2> QED
    BY <1>1, <1>2, <2>1
<1>12. /\ e[at] = Record(n, i, new) /\ IsHeader(e[at]) /\ e[at].rec = new /\ e[at].name = n
       /\ Reached(e, at) = at + new
  <2>1. e[at] = Record(n, i, new)
    BY <1>4, <1>9
  <2>2. n \in AnyName /\ Proper(n, new)
    BY DEF AnyName, new, Proper
  <2>3. e[at] \in Header
    BY <2>1, <2>2, Headers DEF Record
  <2> QED
    BY <2>1, <2>3, RecordFields, Headers DEF Reached
<1>13. T \subseteq Pos /\ stop \in Pos /\ stop \in Int /\ {0, 2} \subseteq T
  BY <1>2, <1>3, <1>4
<1>14. IsHeader(e[stop]) => e[stop].rec = 0
  <2>1. CASE new = 0
    BY <1>12, <2>1
  <2>2. CASE new # 0
    <3>1. stop > at
      BY <1>4, <2>2
    <3> QED
      BY <1>9, <1>13, <3>1
  <2> QED
    BY <2>1, <2>2
<1>15. ASSUME NEW p \in T
       PROVE  /\ p < stop /\ IsHeader(e[p]) /\ e[p].rec > 0
              /\ Reached(e, p) \in T \cup {stop}
              /\ p \notin {0, 2} => e[p].name \in Name /\ e[p].rec = round_up(e[p].name)
  <2>1. CASE p \in S
    <3>1. p < stop
      BY <1>2, <1>4, <1>8, <2>1
    <3>2. e[p].rec > 0
      <4>1. CASE p = last
        <5>1. e[p].rec = round_up(b[p].name) /\ p \in Int /\ round_up(b[p].name) \in Int
          BY <1>2, <1>4, <1>10, <2>1, <4>1, Headers, RoundUp, Sizes
        <5> QED
          BY <1>1, <1>7, <4>1, <5>1
      <4>2. CASE p # last
        <5>1. b[p].rec \in 1 .. (REC - 1)
          BY <1>2, <2>1, Ahead
        <5> QED
          BY <1>10, <2>1, <4>2, <5>1
      <4> QED
        BY <4>1, <4>2
    <3>3. Reached(e, p) \in T \cup {stop}
      BY <1>10, <1>11, <2>1
    <3>4. p \notin {0, 2} => e[p].name \in Name /\ e[p].rec = round_up(e[p].name)
      BY <1>3, <1>10, <2>1
    <3> QED
      BY <1>10, <2>1, <3>1, <3>2, <3>3, <3>4
  <2>2. CASE p = at /\ new # 0
    <3>1. p < stop /\ e[p].rec > 0 /\ Reached(e, p) = stop
      BY <1>4, <1>12, <2>2
    <3>2. e[p].name \in Name /\ e[p].rec = round_up(e[p].name) /\ IsHeader(e[p])
      BY <1>12, <2>2 DEF new
    <3> QED
      BY <3>1, <3>2
  <2> QED
    BY <2>1, <2>2
<1>16. ASSUME NEW p \in T, NEW q \in T, p < q
       PROVE  Reached(e, p) <= q
  <2>1. p \in S
    <3> SUFFICES ASSUME p \notin S PROVE FALSE
      OBVIOUS
    <3>1. p = at /\ q # at
      BY <1>4, <1>16
    <3>2. q \in S /\ q \in Int
      BY <1>2, <1>16, <3>1
    <3> QED
      BY <1>4, <1>8, <1>16, <3>1, <3>2
  <2>2. CASE q \in S
    <3>1. p # last
      BY <1>2, <1>5, <1>16, <2>1, <2>2
    <3> QED
      BY <1>2, <1>10, <1>16, <2>1, <2>2, <3>1
  <2>3. CASE q = at
    <3>1. CASE p = last
      <4>1. Reached(e, p) = at
        BY <1>10, <2>1, <3>1
      <4> QED
        BY <1>4, <2>3, <4>1
    <3>2. CASE p # last
      <4>1. Reached(b, p) \in S /\ Reached(e, p) = Reached(b, p)
        BY <1>10, <1>11, <2>1, <3>2
      <4>2. Reached(b, p) \in Int /\ Reached(b, p) < at
        BY <1>2, <1>8, <4>1
      <4>3. \A x, y \in Int : x < y => x <= y
        OBVIOUS
      <4> QED
        BY <1>4, <2>3, <4>1, <4>2, <4>3, Zenon
    <3> QED
      BY <3>1, <3>2
  <2> QED
    BY <2>2, <2>3
<1>17. e[0] = Record(Dot, Root, 2) /\ e[2].name = DotDot /\ e[2].inode = Root
  BY <1>3, <1>6, <1>10
<1>18. e[2].rec = 3
  <2>1. CASE last = 2
    BY <1>1, <1>3, <1>10, <2>1, RoundUp
  <2>2. CASE last # 2
    BY <1>1, <1>3, <1>6, <1>10, <2>2
  <2> QED
    BY <2>1, <2>2
<1>19. IsList(e, T, stop)
  <2> HIDE DEF T, stop
  <2> QED
    BY <1>13, <1>14, <1>15, <1>16, <1>17, <1>18, ListIntro
<1>20. T \in SUBSET (S \cup {at}) /\ stop \in Pos
  BY <1>13
<1> HIDE DEF T, stop
<1> QED
  BY <1>8, <1>19, <1>20 DEF e, at

(* Words moved or cleared are words.                                       *)
LEMMA WithoutTyped ==
  ASSUME NEW b \in Block, NEW p \in Pos, IsHeader(b[p])
  PROVE  Without(b, p) \in Block
<1>1. b[p].rec \in 0 .. (REC - 1) /\ b[p].rec \in Nat
  BY BlockWords, Sizes
<1>2. Cleared(b, p) \in Block
  BY DEF Block, Cleared
<1>3. Moved(b, p) \in Block
  BY DEF Block, Moved
<1> QED
  BY <1>2, <1>3 DEF Without

(* unlink in the root: the entries behind the one at p move over it, or it *)
(* was the last and is cleared.                                            *)
MovedTo(b, p, q) == IF q < p THEN q ELSE q - b[p].rec

LEMMA WithoutList ==
  ASSUME NEW b \in Block, NEW S, NEW end, IsList(b, S, end), NEW p \in S, p \notin {0, 2}
  PROVE  /\ \E stop \in Pos : IsList(Without(b, p), {MovedTo(b, p, q) : q \in S \ {p}}, stop)
         /\ \A q \in S \ {p} : /\ MovedTo(b, p, q) \in Pos
                               /\ Without(b, p)[MovedTo(b, p, q)] = b[q]
         /\ \A q, r \in S \ {p} : MovedTo(b, p, q) = MovedTo(b, p, r) => q = r
         /\ \A q, r \in S \ {p} : q < r <=> MovedTo(b, p, q) < MovedTo(b, p, r)
<1> DEFINE e == Without(b, p)
           d == b[p].rec
           next == Reached(b, p)
           to(q) == MovedTo(b, p, q)
           T == {to(q) : q \in S \ {p}}
           stop == end - d
<1>1. /\ S \subseteq Pos /\ end \in Int /\ end \in Pos /\ end \notin S /\ ~IsEntry(b, end)
      /\ \A q \in S : /\ IsEntry(b, q) /\ q \in Int /\ 0 <= q /\ q < end
                      /\ Reached(b, q) \in S \cup {end} /\ q < Reached(b, q)
      /\ \A q, r \in S : q < r => Reached(b, q) <= r
  BY ListParts
<1>2. /\ {0, 2} \subseteq S /\ (IsHeader(b[end]) => b[end].rec = 0)
      /\ \A q \in S : q \notin {0, 2} => b[q].name \in Name /\ b[q].rec = round_up(b[q].name)
      /\ b[0] = Record(Dot, Root, 2) /\ b[2].name = DotDot /\ b[2].inode = Root
      /\ b[2].rec = 3 \/ S = {0, 2}
  BY ListElim
<1>3. d \in Int /\ d > 0 /\ p \in Int /\ p \in Pos /\ next = p + d
  BY <1>1, Ahead, Sizes DEF Reached
<1>4. p > 2
  <2>1. 0 < p
    BY <1>1
  <2>2. Reached(b, 0) = 2
    BY <1>2, RecordFields DEF Reached
  <2>3. 2 <= p
    BY <1>1, <1>2, <2>1, <2>2
  <2> QED
    BY <1>3, <2>3
<1> HIDE DEF d, next
<1>5. ASSUME NEW q \in S, q # p
      PROVE  /\ q < p => to(q) = q
             /\ ~ (q < p) => q >= next /\ to(q) = q - d /\ to(q) >= p
             /\ to(q) \in Int /\ to(q) \in Pos
  <2>1. q \in Int /\ 0 <= q /\ q \in Pos /\ q < BLOCK
    BY <1>1, Places
  <2>2. q < p => to(q) = q
    BY DEF MovedTo
  <2>3. ~ (q < p) => q >= next /\ to(q) = q - d /\ to(q) >= p
    BY <1>1, <1>3, <1>5, <2>1 DEF MovedTo, d, next
  <2> HIDE DEF to
  <2>4. to(q) \in Int /\ 0 <= to(q) /\ to(q) < BLOCK
    BY <1>3, <2>1, <2>2, <2>3, Places
  <2> QED
    BY <2>2, <2>3, <2>4, Places
<1>6. ASSUME NEW q \in S \ {p}, NEW r \in S \ {p}
      PROVE  q < r <=> to(q) < to(r)
  <2>1. q \in Int /\ r \in Int
    BY <1>1
  <2> HIDE DEF to
  <2> QED
    BY <1>3, <1>5, <2>1
<1>7. \A q, r \in S \ {p} : to(q) = to(r) => q = r
  <2> SUFFICES ASSUME NEW q \in S \ {p}, NEW r \in S \ {p}, to(q) = to(r)
               PROVE  q = r
    OBVIOUS
  <2>1. q \in Int /\ r \in Int /\ to(q) \in Int
    BY <1>1, <1>5
  <2>2. ~ (q < r) /\ ~ (r < q)
    <3> HIDE DEF to
    <3> QED
      BY <1>6, <2>1
  <2> QED
    BY <2>1, <2>2
<1>8. stop \in Int /\ stop \in Pos /\ p <= stop
  <2>1. end >= next
    <3>1. next \in S \cup {end} /\ \A r \in S : r \in Int /\ r < end
      BY <1>1 DEF next
    <3> QED
      BY <1>1, <3>1
  <2>2. stop \in Int /\ p <= stop /\ stop < BLOCK /\ 0 <= stop
    BY <1>1, <1>3, <1>4, <2>1, Places
  <2> QED
    BY <2>2, Places
<1>9. /\ \A q \in S \ {p} : e[to(q)] = b[q]
      /\ IsHeader(e[stop]) => e[stop].rec = 0
  <2>1. CASE next = end
    <3>1. e = Cleared(b, p)
      <4>1. next \in Pos /\ ~ (IsHeader(b[next]) /\ b[next].rec # 0)
        BY <1>1, <2>1 DEF IsEntry
      <4> QED
        BY <4>1 DEF Without, next, Reached
    <3>2. \A q \in Pos : e[q] = IF q \in p .. (p + d - 1) THEN Zero ELSE b[q]
      BY <3>1 DEF Cleared, d
    <3> HIDE DEF e
    <3>3. ASSUME NEW q \in S \ {p}
          PROVE  e[to(q)] = b[q]
      <4>1. q < p
        <5>1. q \in Int /\ q < end /\ ~ (q >= next)
          BY <1>1, <2>1
        <5> QED
          BY <1>5, <5>1
      <4>2. to(q) = q /\ q \in Pos /\ q \notin p .. (p + d - 1)
        BY <1>1, <1>3, <1>5, <4>1
      <4> HIDE DEF to
      <4> QED
        BY <3>2, <4>2
    <3>4. e[stop] = Zero
      <4>1. stop \in p .. (p + d - 1)
        BY <1>1, <1>3, <2>1
      <4> HIDE DEF stop
      <4> QED
        BY <1>8, <3>2, <4>1
    <3> HIDE DEF stop, to
    <3> QED
      BY <3>3, <3>4, Headers
  <2>2. CASE next \in S
    <3>1. e = Moved(b, p)
      <4>1. next \in Pos /\ IsHeader(b[next]) /\ b[next].rec # 0
        BY <1>1, <2>2 DEF IsEntry
      <4> QED
        BY <4>1 DEF Without, next, Reached
    <3>2. \A q \in Pos : e[q] = IF q < p THEN b[q] ELSE IF q + d \in Pos THEN b[q + d] ELSE b[q]
      BY <3>1 DEF Moved, d
    <3> HIDE DEF e
    <3>3. ASSUME NEW q \in S \ {p}
          PROVE  e[to(q)] = b[q]
      <4>1. q \in Int /\ q \in Pos
        BY <1>1
      <4>2. CASE q < p
        <5>1. to(q) = q
          BY <1>5, <4>2
        <5> HIDE DEF to
        <5> QED
          BY <3>2, <4>1, <4>2, <5>1
      <4>3. CASE ~ (q < p)
        <5>1. /\ to(q) \in Pos /\ to(q) \in Int /\ ~ (to(q) < p)
              /\ to(q) = q - d
          BY <1>3, <1>5, <4>3
        <5> HIDE DEF to
        <5>2. to(q) + d = q
          BY <1>3, <4>1, <5>1
        <5> QED
          BY <3>2, <4>1, <5>1, <5>2
      <4> QED
        BY <4>2, <4>3
    <3>4. e[stop] = b[end]
      <4>1. ~ (stop < p) /\ stop + d = end
        BY <1>1, <1>3, <1>8
      <4> HIDE DEF stop
      <4> QED
        BY <1>1, <1>8, <3>2, <4>1
    <3> HIDE DEF stop, to
    <3> QED
      BY <1>2, <3>3, <3>4
  <2>3. next \in S \cup {end}
    BY <1>1 DEF next
  <2> QED
    BY <2>1, <2>2, <2>3
<1> HIDE DEF e
<1>10. ASSUME NEW q \in S \ {p}
       PROVE  /\ Reached(e, to(q)) \in T \cup {stop} /\ to(q) < stop
              /\ \A r \in S \ {p} : q < r => Reached(e, to(q)) <= to(r)
  <2> DEFINE n == Reached(b, q)
  <2>1. /\ q \in Int /\ n = q + b[q].rec /\ n \in S \cup {end} /\ q < n /\ n \in Int
        /\ \A r \in S : q < r => n <= r
    BY <1>1, Ahead DEF Reached
  <2>2. Reached(e, to(q)) = to(q) + b[q].rec /\ b[q].rec \in Int
    BY <1>1, <1>9, Ahead, Sizes DEF Reached
  <2>3. to(q) \in Int
    BY <1>5
  <2> HIDE DEF n, to
  <2>4. CASE q < p
    <3>1. to(q) = q /\ Reached(e, to(q)) = n
      BY <1>5, <2>1, <2>2, <2>4
    <3>2. n <= p
      BY <2>1, <2>4
    <3>3. n < p => n \in S \ {p} /\ to(n) = n
      <4>1. p < end
        BY <1>1
      <4> QED
        BY <1>1, <1>3, <1>5, <2>1, <4>1
    <3>4. n = p => n \in T \cup {stop}
      <4>1. CASE next \in S
        <5>1. next # p /\ ~ (next < p) /\ to(next) = next - d /\ next - d = p
          BY <1>3, <1>5, <4>1
        <5> QED
          BY <4>1, <5>1
      <4>2. CASE next = end
        BY <1>1, <1>3, <4>2
      <4> QED
        BY <1>1, <4>1, <4>2 DEF next
    <3>5. n \in T \cup {stop}
      BY <1>3, <2>1, <3>2, <3>3, <3>4
    <3>6. ASSUME NEW r \in S \ {p}, q < r
          PROVE  n <= to(r)
      <4>1. n <= r /\ (~ (r < p) => to(r) >= p) /\ (r < p => to(r) = r) /\ to(r) \in Int
        BY <1>5, <2>1, <3>6
      <4> QED
        BY <1>3, <2>1, <3>2, <4>1
    <3>7. to(q) < stop
      BY <1>3, <1>8, <2>1, <2>4, <3>1
    <3> QED
      BY <3>1, <3>5, <3>6, <3>7
  <2>5. CASE ~ (q < p)
    <3>1. to(q) = q - d /\ Reached(e, to(q)) = n - d
      BY <1>3, <1>5, <2>1, <2>2, <2>5
    <3>2. n \in S \ {p} => ~ (n < p) /\ to(n) = n - d
      BY <1>3, <1>5, <2>1, <2>5
    <3>3. n # p
      BY <1>3, <2>1, <2>5
    <3>4. n - d \in T \cup {stop}
      BY <2>1, <3>2, <3>3
    <3>5. ASSUME NEW r \in S \ {p}, q < r
          PROVE  n - d <= to(r)
      <4>1. r \in Int
        BY <1>1
      <4>2. n <= r /\ ~ (r < p)
        BY <1>3, <2>1, <2>5, <3>5, <4>1
      <4>3. to(r) = r - d
        BY <1>5, <4>2
      <4> QED
        BY <1>3, <2>1, <4>1, <4>2, <4>3
    <3>6. to(q) < stop
      BY <1>1, <1>3, <2>1, <3>1
    <3> QED
      BY <3>1, <3>4, <3>5, <3>6
  <2> QED
    BY <2>4, <2>5
<1>11. \A q \in S \ {p} : e[to(q)] = b[q]
  BY <1>9
<1>12. 0 \in S \ {p} /\ to(0) = 0 /\ 2 \in S \ {p} /\ to(2) = 2
  BY <1>2, <1>3, <1>4, <1>5
<1>13. T \subseteq Pos /\ {0, 2} \subseteq T
  <2>1. T \subseteq Pos
    BY <1>5
  <2> QED
    BY <1>12, <2>1
<1>14. ASSUME NEW x \in T
       PROVE  /\ x < stop /\ IsHeader(e[x]) /\ e[x].rec > 0
              /\ Reached(e, x) \in T \cup {stop}
              /\ x \notin {0, 2} => e[x].name \in Name /\ e[x].rec = round_up(e[x].name)
  <2>1. PICK q \in S \ {p} : x = to(q)
    OBVIOUS
  <2>2. e[x] = b[q] /\ IsEntry(b, q)
    BY <1>1, <1>9, <2>1
  <2>3. b[q].rec \in 1 .. (REC - 1)
    BY <2>2, Ahead
  <2>4. q \in {0, 2} => x \in {0, 2}
    BY <1>12, <2>1
  <2>5. IsHeader(e[x]) /\ e[x].rec > 0
    BY <2>2, <2>3, Sizes DEF IsEntry
  <2> HIDE DEF to, T, stop
  <2> QED
    BY <1>2, <1>10, <2>1, <2>2, <2>4, <2>5
<1>15. ASSUME NEW x \in T, NEW y \in T, x < y
       PROVE  Reached(e, x) <= y
  <2>1. PICK q \in S \ {p} : x = to(q)
    OBVIOUS
  <2>2. PICK r \in S \ {p} : y = to(r)
    OBVIOUS
  <2>3. q < r
    BY <1>6, <1>15, <2>1, <2>2
  <2> HIDE DEF to
  <2> QED
    BY <1>10, <2>1, <2>2, <2>3
<1>16. e[0] = b[0] /\ e[2] = b[2]
  BY <1>9, <1>12
<1>17. b[2].rec = 3
  BY <1>2, <1>4
<1>18. IsList(e, T, stop)
  <2> HIDE DEF T, stop, to
  <2> QED
    BY <1>2, <1>8, <1>9, <1>13, <1>14, <1>15, <1>16, <1>17, ListIntro
<1>19. \E t \in Pos : IsList(e, T, t)
  <2> HIDE DEF T, stop
  <2> QED
    BY <1>8, <1>18
<1>20. \A q \in S \ {p} : to(q) \in Pos /\ e[to(q)] = b[q]
  BY <1>5, <1>9
<1> QED
  BY <1>6, <1>7, <1>19, <1>20 DEF e

--------------------------------------------------------------------------------
(* What listings show.                                                     *)

(* From an entry a walk goes on where rec_len leads, to the next entry or  *)
(* to its end.                                                             *)
Chained(b, c) ==
  /\ \A k \in DOMAIN c : IsEntry(b, c[k])
  /\ \A k \in DOMAIN c : k + 1 \in DOMAIN c => Reached(b, c[k]) = c[k + 1]
  /\ \A k \in DOMAIN c : k + 1 \notin DOMAIN c => ~IsEntry(b, Reached(b, c[k]))

LEMMA AlongLinks ==
  ASSUME NEW b \in Block, NEW p \in Place
  PROVE  LET c == Along(b, p)
         IN  /\ Chained(b, c)
             /\ IF IsEntry(b, p) THEN 1 \in DOMAIN c /\ c[1] = p ELSE c = << >>
<1> DEFINE Good(q) == LET c == Along(b, q)
                      IN  /\ Chained(b, c)
                          /\ IF IsEntry(b, q) THEN 1 \in DOMAIN c /\ c[1] = q ELSE c = << >>
           A == {q \in Place : Good(q)}
<1>1. ASSUME NEW q \in 0 .. (BLOCK + REC), \A r \in (q + 1) .. (BLOCK + REC) : r \in A
      PROVE  q \in A
  <2> DEFINE c == Along(b, q)
             next == Reached(b, q)
             s == Along(b, next)
  <2>1. q \in Place /\ q \in Int
    BY DEF Place
  <2>2. CASE IsEntry(b, q)
    <3>1. next \in (q + 1) .. (BLOCK + REC) /\ next \in Place /\ q \in Pos
      BY <2>2, Ahead, Places DEF Place
    <3>2. Good(next)
      BY <1>1, <3>1
    <3>3. c = <<q>> \o s /\ s \in Seq(Pos)
      BY <2>1, <2>2, <3>1, AlongStep
    <3>4. /\ Chained(b, s)
          /\ IF IsEntry(b, next) THEN 1 \in DOMAIN s /\ s[1] = next ELSE s = << >>
      BY <3>2
    <3> HIDE DEF c, s, A, Good, next
    <3>5. /\ Len(s) \in Nat /\ DOMAIN c = 1 .. Len(s) + 1 /\ DOMAIN s = 1 .. Len(s)
          /\ c[1] = q /\ \A k \in DOMAIN s : c[k + 1] = s[k]
          /\ \A k \in DOMAIN c : k # 1 => k - 1 \in DOMAIN s /\ c[k] = s[k - 1]
      BY <3>1, <3>3, InFront
    <3>6. 1 \in DOMAIN c /\ (1 + 1 \in DOMAIN c <=> 1 \in DOMAIN s)
      BY <3>5
    <3>7. 1 \in DOMAIN s <=> IsEntry(b, next)
      <4>1. DOMAIN << >> = {}
        OBVIOUS
      <4> QED
        BY <3>4, <4>1
    <3>8. Reached(b, c[1]) = next
      BY <3>5 DEF next
    <3>9. ASSUME NEW k \in DOMAIN c
          PROVE  /\ IsEntry(b, c[k])
                 /\ k + 1 \in DOMAIN c => Reached(b, c[k]) = c[k + 1]
                 /\ k + 1 \notin DOMAIN c => ~IsEntry(b, Reached(b, c[k]))
      <4>1. CASE k = 1
        <5>1. 1 \in DOMAIN s => c[1 + 1] = s[1]
          BY <3>5
        <5> QED
          BY <2>2, <3>4, <3>5, <3>6, <3>7, <3>8, <4>1, <5>1
      <4>2. CASE k # 1
        <5>1. /\ k - 1 \in DOMAIN s /\ c[k] = s[k - 1]
              /\ k + 1 \in DOMAIN c <=> (k - 1) + 1 \in DOMAIN s
              /\ k + 1 \in DOMAIN c => c[k + 1] = s[(k - 1) + 1]
          BY <3>5, <4>2
        <5> QED
          BY <3>4, <5>1 DEF Chained
      <4> QED
        BY <4>1, <4>2
    <3>10. Chained(b, c)
      BY <3>9 DEF Chained
    <3>11. Good(q)
      BY <2>2, <3>5, <3>6, <3>10 DEF Good, c
    <3> QED
      BY <2>1, <3>11 DEF A
  <2>3. CASE ~IsEntry(b, q)
    <3>1. c = << >>
      BY <2>1, <2>3, AlongStep
    <3>2. DOMAIN c = {}
      BY <3>1
    <3> HIDE DEF c
    <3>3. Chained(b, c)
      BY <3>2 DEF Chained
    <3> QED
      BY <2>1, <2>3, <3>1, <3>3 DEF c
  <2> QED
    BY <2>2, <2>3
<1>2. p \in A
  <2> HIDE DEF A
  <2> QED
    BY <1>1, Downwards, Places DEF Place
<1> QED
  BY <1>2

(* And that determines it.                                                 *)
LEMMA AlongIs ==
  ASSUME NEW b \in Block, NEW s \in Seq(Pos), 1 \in DOMAIN s, Chained(b, s)
  PROVE  Along(b, s[1]) = s
<1> DEFINE c == Along(b, s[1])
           n == Len(s)
           A == {k \in 0 .. n : k >= 1 => k \in DOMAIN c /\ c[k] = s[k]}
<1>1. s[1] \in Pos /\ s[1] \in Place /\ IsEntry(b, s[1]) /\ n \in Nat /\ DOMAIN s = 1 .. n
  BY Places DEF Chained
<1>2. /\ Chained(b, c) /\ 1 \in DOMAIN c /\ c[1] = s[1] /\ c \in Seq(Pos)
      /\ Len(c) \in Nat /\ DOMAIN c = 1 .. Len(c)
  <2>1. Chained(b, c) /\ 1 \in DOMAIN c /\ c[1] = s[1]
    BY <1>1, AlongLinks
  <2>2. c \in Seq(Pos)
    BY <1>1, AlongStep
  <2> HIDE DEF c
  <2> QED
    BY <2>1, <2>2
<1> HIDE DEF c, n
<1>3. ASSUME NEW k \in 1 .. n, k - 1 \in A
      PROVE  k \in A
  <2>1. CASE k = 1
    BY <1>1, <1>2, <2>1
  <2>2. CASE k # 1
    <3> DEFINE j == k - 1
    <3>1. j \in DOMAIN c /\ c[j] = s[j] /\ j \in DOMAIN s /\ j + 1 = k /\ k \in DOMAIN s
      BY <1>1, <1>3, <2>2
    <3> HIDE DEF j
    <3>2. Reached(b, c[j]) = s[k] /\ IsEntry(b, s[k])
      BY <3>1 DEF Chained
    <3>3. k \in DOMAIN c /\ c[k] = s[k]
      BY <1>2, <3>1, <3>2 DEF Chained
    <3> QED
      BY <1>1, <3>3
  <2> QED
    BY <2>1, <2>2
<1>4. 0 \in A
  BY <1>1
<1>5. \A k \in 1 .. n : k \in DOMAIN c /\ c[k] = s[k]
  <2>1. \A k \in 0 .. n : k \in A
    <3> HIDE DEF A
    <3> QED
      BY <1>1, <1>3, <1>4, Upwards
  <2> QED
    BY <1>1, <2>1
<1>6. Len(c) = n
  <2>1. n \in DOMAIN c /\ n \in DOMAIN s /\ n + 1 \notin DOMAIN s /\ c[n] = s[n]
    BY <1>1, <1>5
  <2>2. ~IsEntry(b, Reached(b, s[n]))
    BY <2>1 DEF Chained
  <2>3. n + 1 \notin DOMAIN c
    BY <1>2, <2>1, <2>2 DEF Chained
  <2>4. \A u, v \in Nat : u \in 1 .. v /\ u + 1 \notin 1 .. v => v = u
    OBVIOUS
  <2> QED
    BY <1>1, <1>2, <2>1, <2>3, <2>4, Zenon
<1> QED
  BY <1>1, <1>2, <1>5, <1>6 DEF c, n

(* Two sequences of the same numbers, both in order, are one.              *)
Rises(s) == \A j, k \in DOMAIN s : j < k => s[j] < s[k]

LEMMA SamePrefix ==
  ASSUME NEW s \in Seq(Int), NEW t \in Seq(Int), Rises(s), Rises(t),
         \A j \in DOMAIN s : \E k \in DOMAIN t : s[j] = t[k],
         \A k \in DOMAIN t : \E j \in DOMAIN s : s[j] = t[k]
  PROVE  Len(s) <= Len(t) /\ \A j \in DOMAIN s : s[j] = t[j]
<1> DEFINE n == Len(s)
           A == {k \in 0 .. n : k <= Len(t) /\ \A j \in 1 .. k : s[j] = t[j]}
<1>1. /\ n \in Nat /\ Len(t) \in Nat /\ DOMAIN s = 1 .. n /\ DOMAIN t = 1 .. Len(t)
      /\ \A j \in DOMAIN s : s[j] \in Int
      /\ \A j \in DOMAIN t : t[j] \in Int
  OBVIOUS
<1>2. ASSUME NEW k \in 1 .. n, k - 1 \in A
      PROVE  k \in A
  <2>1. k \in DOMAIN s /\ \A j \in 1 .. (k - 1) : s[j] = t[j] /\ j \in DOMAIN s /\ j \in DOMAIN t
    BY <1>1, <1>2
  <2>2. PICK m \in DOMAIN t : s[k] = t[m]
    BY <2>1
  <2>3. ~ (m <= k - 1)
    <3> SUFFICES ASSUME m <= k - 1 PROVE FALSE
      OBVIOUS
    <3>1. m \in 1 .. (k - 1) /\ m < k
      BY <1>1, <2>2
    <3>2. s[m] = t[m] /\ s[m] < s[k] /\ s[k] \in Int
      BY <1>1, <2>1, <3>1 DEF Rises
    <3> QED
      BY <2>2, <3>2
  <2>4. k \in DOMAIN t /\ k <= m
    BY <1>1, <2>2, <2>3
  <2>5. PICK l \in DOMAIN s : s[l] = t[k]
    BY <2>4
  <2>6. ~ (l <= k - 1)
    <3> SUFFICES ASSUME l <= k - 1 PROVE FALSE
      OBVIOUS
    <3>1. l \in 1 .. (k - 1) /\ l < k
      BY <1>1, <2>5
    <3>2. s[l] = t[l] /\ l \in DOMAIN t
      BY <2>1, <3>1
    <3>3. t[l] < t[k] /\ t[k] \in Int /\ t[l] \in Int
      BY <1>1, <2>4, <3>1, <3>2 DEF Rises
    <3> QED
      BY <2>5, <3>2, <3>3
  <2>7. s[k] <= s[l] /\ t[k] <= t[m]
    <3>1. s[k] \in Int /\ s[l] \in Int /\ t[k] \in Int /\ t[m] \in Int
      BY <1>1, <2>1, <2>2, <2>4, <2>5
    <3>2. l = k \/ k < l
      BY <1>1, <2>5, <2>6
    <3>3. m = k \/ k < m
      BY <1>1, <2>2, <2>4
    <3>4. k < l => s[k] < s[l]
      BY <2>1, <2>5 DEF Rises
    <3>5. k < m => t[k] < t[m]
      BY <2>2, <2>4 DEF Rises
    <3>6. \A u, v \in Int : u = v \/ u < v => u <= v
      OBVIOUS
    <3>7. (s[k] = s[l] \/ s[k] < s[l]) /\ (t[k] = t[m] \/ t[k] < t[m])
      BY <3>2, <3>3, <3>4, <3>5, Zenon
    <3> QED
      BY <3>1, <3>6, <3>7, Zenon
  <2>8. s[k] = t[k]
    BY <1>1, <2>1, <2>2, <2>4, <2>5, <2>7
  <2>9. \A j \in 1 .. k : s[j] = t[j]
    <3>1. \A j \in 1 .. k : j = k \/ j \in 1 .. (k - 1)
      OBVIOUS
    <3> QED
      BY <2>1, <2>8, <3>1
  <2> QED
    BY <1>1, <2>4, <2>9
<1>3. n \in A
  <2>1. 0 \in A
    BY <1>1
  <2>2. \A k \in 0 .. n : k \in A
    <3> HIDE DEF A, n
    <3> QED
      BY <1>1, <1>2, <2>1, Upwards
  <2> QED
    BY <1>1, <2>2
<1> QED
  BY <1>1, <1>3

LEMMA SameOrder ==
  ASSUME NEW s \in Seq(Int), NEW t \in Seq(Int), Rises(s), Rises(t),
         \A j \in DOMAIN s : \E k \in DOMAIN t : s[j] = t[k],
         \A k \in DOMAIN t : \E j \in DOMAIN s : s[j] = t[k]
  PROVE  s = t
<1>1. Len(s) <= Len(t) /\ \A j \in DOMAIN s : s[j] = t[j]
  BY SamePrefix
<1>2. \A j \in DOMAIN s : \E k \in DOMAIN t : t[k] = s[j]
  OBVIOUS
<1>3. \A k \in DOMAIN t : \E j \in DOMAIN s : t[k] = s[j]
  OBVIOUS
<1>4. Len(t) <= Len(s)
  BY <1>2, <1>3, SamePrefix
<1>5. Len(s) \in Nat /\ Len(t) \in Nat
  OBVIOUS
<1> QED
  BY <1>1, <1>4, <1>5

(* A block that begins with its two dots shows them first, and the entries *)
(* of its directory from the third on.                                     *)
LEMMA DotsFirst ==
  ASSUME NEW b \in Block, StartsWithDots(b)
  PROVE  LET c == Chain(b)
         IN  /\ c \in Seq(Pos) /\ Len(c) \in Nat /\ Len(c) >= 2 /\ DOMAIN c = 1 .. Len(c)
             /\ c[1] = 0 /\ c[2] = 2 /\ b[0].rec = 2 /\ b[2].rec >= 3
             /\ Chained(b, c) /\ Rises(c) /\ Passed(b) = {c[k] : k \in DOMAIN c}
             /\ \A k \in DOMAIN c : k > 2 => c[k] > 4
<1> DEFINE c == Chain(b)
<1>1. c = Along(b, 0) /\ 0 \in Place /\ 0 \in Pos /\ 2 \in Pos
  BY Places DEF Chain
<1>2. /\ IsHeader(b[0]) /\ b[0].rec = 2 /\ IsHeader(b[2]) /\ b[2].rec \in 3 .. (REC - 1)
  <2>1. b[0] \in Word /\ b[2] \in Word /\ IsHeader(b[0]) /\ IsHeader(b[2])
        /\ b[0].name = Dot /\ b[2].name = DotDot
    BY <1>1, BlockWords DEF StartsWithDots
  <2>2. Proper(Dot, b[0].rec) /\ Proper(DotDot, b[2].rec) /\ Dot # DotDot
    BY <2>1, Headers, AbyssAssumption
  <2>3. b[0].rec = 2 /\ (b[2].rec = 3 \/ b[2].rec = (BLOCK - 2) % REC)
    BY <2>2, RoundUp DEF Proper
  <2> QED
    BY <2>1, <2>3, Sizes
<1>3. IsEntry(b, 0) /\ Reached(b, 0) = 2 /\ IsEntry(b, 2) /\ Reached(b, 2) > 4
  <2>1. b[0].rec # 0 /\ b[2].rec # 0
    BY <1>2
  <2>2. Reached(b, 0) = 2 /\ Reached(b, 2) > 4
    BY <1>2, Sizes DEF Reached
  <2> QED
    BY <1>1, <1>2, <2>1, <2>2 DEF IsEntry
<1>4. Chained(b, c) /\ 1 \in DOMAIN c /\ c[1] = 0
  BY <1>1, <1>3, AlongLinks
<1>5. /\ c \in Seq(Pos) /\ Len(c) \in Nat /\ DOMAIN c = 1 .. Len(c)
      /\ \A j, k \in DOMAIN c : j < k => c[j] < c[k]
      /\ \A k \in DOMAIN c : c[k] \in Int
  BY <1>1, AlongPasses DEF Passes
<1> HIDE DEF c
<1>6. 2 \in DOMAIN c /\ c[2] = 2
  <2>1. 1 + 1 \in DOMAIN c => Reached(b, c[1]) = c[1 + 1]
    BY <1>4 DEF Chained
  <2>2. 1 + 1 \notin DOMAIN c => ~IsEntry(b, Reached(b, c[1]))
    BY <1>4 DEF Chained
  <2> QED
    BY <1>3, <1>4, <2>1, <2>2
<1>7. ASSUME NEW k \in DOMAIN c, k > 2
      PROVE  c[k] > 4
  <2>1. 3 \in DOMAIN c /\ (k = 3 \/ 3 < k)
    BY <1>5, <1>7
  <2>2. 2 + 1 \in DOMAIN c => Reached(b, c[2]) = c[2 + 1]
    BY <1>4, <1>6 DEF Chained
  <2>3. c[3] > 4 /\ c[3] \in Int /\ c[k] \in Int
    BY <1>3, <1>5, <1>6, <2>1, <2>2
  <2> QED
    BY <1>5, <2>1, <2>3
<1>8. Passed(b) = {c[k] : k \in DOMAIN c} /\ Rises(c)
  BY <1>5 DEF Passed, c, Rises
<1> QED
  BY <1>2, <1>4, <1>5, <1>6, <1>7, <1>8 DEF c

Nth(b, k) == Chain(b)[k + 2]

Entry == [name : AnyName, inode : Inode]

LEMMA EntriesParts ==
  ASSUME NEW b \in Block, StartsWithDots(b)
  PROVE  LET m  == Len(Chain(b)) - 2
             es == Entries(b)
         IN  /\ m \in Nat /\ es \in Seq(Entry) /\ Len(es) = m /\ DOMAIN es = 1 .. m
             /\ \A k \in 1 .. m : /\ Nth(b, k) \in Passed(b) /\ Nth(b, k) \in Pos \ {0, 2}
                                  /\ IsHeader(b[Nth(b, k)])
                                  /\ es[k].name = b[Nth(b, k)].name
                                  /\ es[k].inode = b[Nth(b, k)].inode
             /\ \A j, k \in 1 .. m : Nth(b, j) = Nth(b, k) => j = k
             /\ \A p \in Passed(b) \ {0, 2} : \E k \in 1 .. m : p = Nth(b, k)
<1> DEFINE c  == Chain(b)
           m  == Len(c) - 2
           es == Entries(b)
<1>1. /\ c \in Seq(Pos) /\ Len(c) \in Nat /\ Len(c) >= 2 /\ DOMAIN c = 1 .. Len(c)
      /\ c[1] = 0 /\ c[2] = 2 /\ Rises(c) /\ Passed(b) = {c[k] : k \in DOMAIN c}
      /\ \A k \in DOMAIN c : k > 2 => c[k] > 4
  BY DotsFirst
<1>2. es = [k \in 1 .. m |-> [name |-> b[Nth(b, k)].name, inode |-> b[Nth(b, k)].inode]]
  BY DEF Entries, Nth
<1>3. \A k \in 1 .. m : Nth(b, k) = c[k + 2]
  BY DEF Nth
<1> HIDE DEF c, es
<1>4. m \in Nat /\ \A k \in 1 .. m : k + 2 \in DOMAIN c /\ k + 2 > 2
  BY <1>1
<1>5. \A k \in DOMAIN c : c[k] \in Pos /\ c[k] \in Int
  BY <1>1, Places
<1>6. ASSUME NEW k \in 1 .. m
      PROVE  /\ Nth(b, k) \in Passed(b) /\ Nth(b, k) \in Pos \ {0, 2} /\ IsHeader(b[Nth(b, k)])
             /\ [name |-> b[Nth(b, k)].name, inode |-> b[Nth(b, k)].inode] \in Entry
  <2>1. k + 2 \in DOMAIN c /\ c[k + 2] > 4
    BY <1>1, <1>4
  <2>2. Nth(b, k) \in Passed(b) /\ Nth(b, k) \in Pos /\ Nth(b, k) > 4
    BY <1>1, <1>3, <1>5, <2>1
  <2>3. IsHeader(b[Nth(b, k)])
    BY <2>2, PassedEntries DEF IsEntry
  <2>4. b[Nth(b, k)].name \in AnyName /\ b[Nth(b, k)].inode \in Inode
    BY <2>2, <2>3, BlockWords
  <2> QED
    BY <2>2, <2>3, <2>4 DEF Entry
<1>7. ASSUME NEW j \in 1 .. m, NEW k \in 1 .. m, Nth(b, j) = Nth(b, k)
      PROVE  j = k
  <2>1. c[j + 2] = c[k + 2] /\ c[j + 2] \in Int /\ j + 2 \in DOMAIN c /\ k + 2 \in DOMAIN c
    BY <1>3, <1>4, <1>5, <1>7
  <2>2. ~ (j + 2 < k + 2) /\ ~ (k + 2 < j + 2)
    BY <1>1, <2>1 DEF Rises
  <2> QED
    BY <2>2
<1>8. ASSUME NEW p \in Passed(b) \ {0, 2}
      PROVE  \E k \in 1 .. m : p = Nth(b, k)
  <2>1. PICK k \in DOMAIN c : p = c[k]
    BY <1>1
  <2>2. k > 2 /\ k - 2 \in 1 .. m /\ (k - 2) + 2 = k
    BY <1>1, <2>1
  <2> QED
    BY <1>3, <2>1, <2>2
<1> HIDE DEF m
<1>9. es \in [1 .. m -> Entry] /\ DOMAIN es = 1 .. m
  BY <1>2, <1>6
<1>10. es \in Seq(Entry) /\ Len(es) = m
  <2>1. es \in Seq(Entry)
    BY <1>4, <1>9, SeqDef
  <2>2. \A u, v \in Nat : 1 .. u = 1 .. v => u = v
    OBVIOUS
  <2>3. Len(es) \in Nat /\ DOMAIN es = 1 .. Len(es)
    BY <2>1, LenProperties
  <2> QED
    BY <1>4, <1>9, <2>1, <2>2, <2>3
<1>11. \A k \in 1 .. m : es[k].name = b[Nth(b, k)].name /\ es[k].inode = b[Nth(b, k)].inode
  BY <1>2
<1> QED
  BY <1>4, <1>6, <1>7, <1>8, <1>9, <1>10, <1>11 DEF m, es, c

LEMMA ListStarts ==
  ASSUME NEW b \in Block, NEW S, NEW end, IsList(b, S, end)
  PROVE  StartsWithDots(b)
<1>1. IsHeader(b[0]) /\ IsHeader(b[2])
  BY DEF IsList
<1>2. b[0].name = Dot /\ b[2].name = DotDot
  BY ListElim, RecordFields
<1> QED
  BY <1>1, <1>2 DEF StartsWithDots

Left(es, k) == [j \in 1 .. (Len(es) - 1) |-> IF j < k THEN es[j] ELSE es[j + 1]]

(* unlink in the root takes one entry from what it shows.                  *)
LEMMA EntriesWithout ==
  ASSUME NEW b \in Block, NEW S, NEW end, IsList(b, S, end),
         NEW k \in 1 .. (Len(Chain(b)) - 2)
  PROVE  LET p == Nth(b, k)
         IN  /\ p \in S \ {0, 2} /\ Without(b, p) \in Block
             /\ \E U : \E stop \in Pos : IsList(Without(b, p), U, stop)
             /\ Entries(Without(b, p)) = Left(Entries(b), k)
<1> DEFINE p == Nth(b, k)
           e == Without(b, p)
           c == Chain(b)
           m == Len(c) - 2
           T == {MovedTo(b, p, q) : q \in S \ {p}}
           t == [j \in 1 .. (m + 1) |-> MovedTo(b, p, IF j < k + 2 THEN c[j] ELSE c[j + 1])]
<1>1. StartsWithDots(b) /\ Passed(b) = S
  BY ListStarts, ListPassed
<1>2. /\ c \in Seq(Pos) /\ Len(c) \in Nat /\ Len(c) >= 2 /\ DOMAIN c = 1 .. Len(c)
      /\ Rises(c) /\ Passed(b) = {c[j] : j \in DOMAIN c} /\ c[1] = 0 /\ c[2] = 2
      /\ \A j \in DOMAIN c : c[j] \in Int
  <2>1. \A q \in Pos : q \in Int
    BY Places
  <2> QED
    BY <1>1, <2>1, DotsFirst
<1>3. /\ m \in Nat /\ k \in 1 .. m /\ p = c[k + 2] /\ k + 2 \in DOMAIN c
      /\ Len(Entries(b)) = m
      /\ p \in S /\ p \in Pos \ {0, 2} /\ IsHeader(b[p])
  <2>1. m \in Nat /\ k \in 1 .. m /\ k + 2 \in DOMAIN c
    BY <1>2
  <2>2. /\ Len(Entries(b)) = m
        /\ p \in S /\ p \in Pos \ {0, 2} /\ IsHeader(b[p])
    BY <1>1, EntriesParts
  <2>3. p = c[k + 2]
    BY DEF Nth
  <2> QED
    BY <2>1, <2>2, <2>3
<1> HIDE DEF p
<1>4. /\ e \in Block /\ \E stop \in Pos : IsList(e, T, stop)
      /\ \A q \in S \ {p} : MovedTo(b, p, q) \in Pos /\ e[MovedTo(b, p, q)] = b[q]
      /\ \A q, r \in S \ {p} : q < r <=> MovedTo(b, p, q) < MovedTo(b, p, r)
  <2>1. p \in S /\ p \notin {0, 2} /\ p \in Pos /\ IsHeader(b[p])
    BY <1>3
  <2>2. e \in Block
    BY <2>1, WithoutTyped
  <2> QED
    BY <2>1, <2>2, WithoutList
<1>5. PICK stop \in Pos : IsList(e, T, stop)
  BY <1>4
<1> HIDE DEF e, T
<1>6. StartsWithDots(e) /\ Passed(e) = T
  BY <1>4, <1>5, ListStarts, ListPassed
<1> DEFINE d == Chain(e)
<1>7. /\ d \in Seq(Pos) /\ Len(d) \in Nat /\ DOMAIN d = 1 .. Len(d)
      /\ Rises(d) /\ Passed(e) = {d[j] : j \in DOMAIN d}
  BY <1>4, <1>6, DotsFirst
<1> HIDE DEF d, c, m
<1>8. Len(c) = m + 2 /\ DOMAIN c = 1 .. (m + 2)
  BY <1>2 DEF m
<1> DEFINE at(j) == IF j < k + 2 THEN c[j] ELSE c[j + 1]
<1>9. ASSUME NEW j \in 1 .. (m + 1)
      PROVE  /\ at(j) \in S \ {p} /\ t[j] = MovedTo(b, p, at(j))
             /\ \A l \in 1 .. (m + 1) : j < l => at(j) < at(l)
  <2>1. j \in DOMAIN c /\ j + 1 \in DOMAIN c
    BY <1>3, <1>8
  <2>2. at(j) \in S
    BY <1>1, <1>2, <2>1
  <2>3. at(j) # p
    <3>1. CASE j < k + 2
      <4>1. c[j] < c[k + 2]
        BY <1>2, <1>3, <2>1, <3>1 DEF Rises
      <4> QED
        BY <1>2, <1>3, <2>1, <3>1, <4>1
    <3>2. CASE ~ (j < k + 2)
      <4>1. k + 2 < j + 1
        BY <1>3, <3>2
      <4>2. c[k + 2] < c[j + 1]
        BY <1>2, <1>3, <2>1, <4>1 DEF Rises
      <4> QED
        BY <1>2, <1>3, <2>1, <3>2, <4>2
    <3> QED
      BY <3>1, <3>2
  <2>4. ASSUME NEW l \in 1 .. (m + 1), j < l
        PROVE  at(j) < at(l)
    <3>1. l \in DOMAIN c /\ l + 1 \in DOMAIN c /\ j < l + 1 /\ j + 1 < l + 1
      BY <1>3, <1>8, <2>4
    <3>2. c[j] < c[l] /\ c[j] < c[l + 1] /\ c[j + 1] < c[l + 1]
      BY <1>2, <2>1, <2>4, <3>1 DEF Rises
    <3>3. ~ (j < k + 2) => ~ (l < k + 2)
      BY <1>3, <2>4
    <3> QED
      BY <3>2, <3>3
  <2> QED
    BY <2>2, <2>3, <2>4
<1>10. ASSUME NEW q \in S \ {p}
       PROVE  \E j \in 1 .. (m + 1) : at(j) = q
  <2>1. PICK l \in DOMAIN c : c[l] = q
    BY <1>1, <1>2
  <2>2. l # k + 2
    BY <1>3, <2>1
  <2>3. CASE l < k + 2
    <3>1. l \in 1 .. (m + 1)
      BY <1>3, <1>8, <2>1, <2>3
    <3> QED
      BY <2>1, <2>3, <3>1
  <2>4. CASE ~ (l < k + 2)
    <3>1. l - 1 \in 1 .. (m + 1) /\ ~ (l - 1 < k + 2) /\ (l - 1) + 1 = l
      BY <1>3, <1>8, <2>1, <2>2, <2>4
    <3>2. at(l - 1) = c[l]
      BY <3>1
    <3> QED
      BY <2>1, <3>1, <3>2
  <2> QED
    BY <2>3, <2>4
<1>11. t \in Seq(Int) /\ Len(t) = m + 1 /\ DOMAIN t = 1 .. (m + 1)
  <2>1. \A j \in 1 .. (m + 1) : t[j] \in Int
    <3>1. \A q \in Pos : q \in Int
      BY Places
    <3> HIDE DEF at, t
    <3> QED
      BY <1>4, <1>9, <3>1
  <2>2. t \in [1 .. (m + 1) -> Int]
    BY <2>1
  <2> HIDE DEF t
  <2>3. m + 1 \in Nat
    BY <1>3
  <2>4. t \in Seq(Int)
    BY <2>2, <2>3, SeqDef
  <2>5. \A u, v \in Nat : 1 .. u = 1 .. v => u = v
    OBVIOUS
  <2>6. Len(t) \in Nat /\ DOMAIN t = 1 .. Len(t) /\ DOMAIN t = 1 .. (m + 1)
    BY <2>2, <2>4, LenProperties
  <2> QED
    BY <2>3, <2>4, <2>5, <2>6
<1>12. Rises(t)
  <2> HIDE DEF t, at
  <2> QED
    BY <1>4, <1>9, <1>11 DEF Rises
<1>13. \A x : x \in T <=> \E j \in 1 .. (m + 1) : x = t[j]
  <2> HIDE DEF t, at
  <2>1. ASSUME NEW x \in T
        PROVE  \E j \in 1 .. (m + 1) : x = t[j]
    <3>1. PICK q \in S \ {p} : x = MovedTo(b, p, q)
      BY DEF T
    <3> QED
      BY <1>9, <1>10, <3>1
  <2>2. ASSUME NEW j \in 1 .. (m + 1)
        PROVE  t[j] \in T
    BY <1>9 DEF T
  <2> QED
    BY <2>1, <2>2
<1>14. d = t
  <2> HIDE DEF t, at
  <2>1. d \in Seq(Int)
    <3>1. Pos \subseteq Int
      BY Places
    <3> QED
      BY <1>7, <3>1, SeqMonotonic
  <2>2. /\ \A j \in DOMAIN d : \E l \in DOMAIN t : d[j] = t[l]
        /\ \A l \in DOMAIN t : \E j \in DOMAIN d : d[j] = t[l]
    BY <1>6, <1>7, <1>11, <1>13
  <2> QED
    BY <1>7, <1>11, <1>12, <2>1, <2>2, SameOrder
<1>15. ASSUME NEW j \in 1 .. (m - 1)
       PROVE  /\ Nth(e, j) = MovedTo(b, p, at(j + 2))
              /\ e[Nth(e, j)] = b[at(j + 2)]
              /\ at(j + 2) = IF j < k THEN Nth(b, j) ELSE Nth(b, j + 1)
  <2>1. j + 2 \in 1 .. (m + 1) /\ (j + 2 < k + 2 <=> j < k) /\ (j + 1) + 2 = (j + 2) + 1
    BY <1>3
  <2>2. Nth(e, j) = t[j + 2]
    BY <1>14 DEF Nth, d
  <2>3. Nth(b, j) = c[j + 2] /\ Nth(b, j + 1) = c[(j + 2) + 1]
    BY <2>1 DEF Nth, c
  <2>4. t[j + 2] = MovedTo(b, p, at(j + 2)) /\ at(j + 2) \in S \ {p}
    BY <1>9, <2>1
  <2> HIDE DEF t
  <2> QED
    BY <1>4, <2>1, <2>2, <2>3, <2>4
<1>16. Entries(e) = Left(Entries(b), k)
  <2>1. Entries(e) = [j \in 1 .. (m - 1) |-> [name |-> e[Nth(e, j)].name,
                                              inode |-> e[Nth(e, j)].inode]]
    <3>1. Len(Chain(e)) - 2 = m - 1
      BY <1>3, <1>11, <1>14 DEF d
    <3> QED
      BY <3>1 DEF Entries, Nth
  <2>2. Entries(b) = [j \in 1 .. m |-> [name |-> b[Nth(b, j)].name, inode |-> b[Nth(b, j)].inode]]
    BY DEF Entries, Nth, m, c
  <2>3. ASSUME NEW j \in 1 .. (m - 1)
        PROVE  [name |-> e[Nth(e, j)].name, inode |-> e[Nth(e, j)].inode] =
                 IF j < k THEN Entries(b)[j] ELSE Entries(b)[j + 1]
    <3>1. j \in 1 .. m /\ j + 1 \in 1 .. m
      BY <1>3
    <3>2. /\ Entries(b)[j] = [name |-> b[Nth(b, j)].name, inode |-> b[Nth(b, j)].inode]
          /\ Entries(b)[j + 1] = [name |-> b[Nth(b, j + 1)].name, inode |-> b[Nth(b, j + 1)].inode]
      BY <2>2, <3>1
    <3>3. e[Nth(e, j)] = IF j < k THEN b[Nth(b, j)] ELSE b[Nth(b, j + 1)]
      BY <1>15
    <3> QED
      BY <3>2, <3>3
  <2>4. Left(Entries(b), k) = [j \in 1 .. (m - 1) |-> IF j < k THEN Entries(b)[j]
                                                     ELSE Entries(b)[j + 1]]
    BY <1>3 DEF Left
  <2> QED
    BY <2>1, <2>3, <2>4
<1>17. \E U : \E u \in Pos : IsList(e, U, u)
  BY <1>5
<1> QED
  BY <1>3, <1>4, <1>16, <1>17 DEF p, e

Behind(es, r) == [k \in 1 .. (Len(es) - r) |-> es[k + r]]

(* How many entries of the root are unlinked in k steps.                   *)
Unlinked(k) == IF k <= 2 THEN 0 ELSE IF k > LISTED THEN LISTED - 2 ELSE k - 2

Emptying(b, f, k) == IF k <= 2 THEN b
                     ELSE IF k > LISTED THEN f[k - 1]
                     ELSE Without(f[k - 1], Chain(f[k - 1])[3])

LEMMA EmptyingExists ==
  ASSUME NEW b, NEW n \in Nat
  PROVE  \E f : f = [k \in 0 .. n |-> Emptying(b, f, k)]
<1> DEFINE B == {m \in 0 .. n : \E f : f = [k \in 0 .. m |-> Emptying(b, f, k)]}
<1>1. 0 \in B
  <2> DEFINE f == [k \in 0 .. 0 |-> b]
  <2>1. f = [k \in 0 .. 0 |-> Emptying(b, f, k)]
    BY DEF Emptying
  <2> HIDE DEF f
  <2> QED
    BY <2>1
<1>2. ASSUME NEW m \in 1 .. n, m - 1 \in B
      PROVE  m \in B
  <2>1. PICK f : f = [k \in 0 .. (m - 1) |-> Emptying(b, f, k)]
    BY <1>2
  <2> DEFINE g == [k \in 0 .. m |-> IF k = m THEN Emptying(b, f, m) ELSE f[k]]
  <2>2. ASSUME NEW k \in 0 .. m
        PROVE  g[k] = Emptying(b, g, k)
    <3>1. k > 2 => k - 1 \in 0 .. m /\ k - 1 # m
      OBVIOUS
    <3>2. k > 2 => g[k - 1] = f[k - 1]
      BY <3>1
    <3>3. Emptying(b, g, k) = Emptying(b, f, k)
      BY <3>2 DEF Emptying
    <3>4. CASE k = m
      BY <3>3, <3>4
    <3>5. CASE k # m
      <4>1. k \in 0 .. (m - 1)
        BY <3>5
      <4>2. f[k] = Emptying(b, f, k) /\ g[k] = f[k]
        BY <2>1, <3>5, <4>1
      <4> QED
        BY <3>3, <4>2
    <3> QED
      BY <3>4, <3>5
  <2>3. g = [k \in 0 .. m |-> g[k]]
    OBVIOUS
  <2> HIDE DEF g
  <2>4. g = [k \in 0 .. m |-> Emptying(b, g, k)]
    BY <2>2, <2>3
  <2> QED
    BY <2>4
<1>3. n \in B
  <2> HIDE DEF B
  <2>1. \A k \in 0 .. n : k \in B
    BY <1>1, <1>2, Upwards
  <2> QED
    BY <2>1
<1> QED
  BY <1>3

(* remove_recursive of "/" unlinks what stands behind the dots, as often   *)
(* as the root listed an entry.                                            *)
LEMMA EmptiedList ==
  ASSUME NEW b \in Block, NEW S, NEW end, IsList(b, S, end)
  PROVE  LET r == Unlinked(Len(Chain(b)))
         IN  /\ Emptied(b) \in Block
             /\ \E T : \E stop \in Pos : IsList(Emptied(b), T, stop)
             /\ Entries(Emptied(b)) = Behind(Entries(b), r)
<1> DEFINE n == Len(Chain(b))
           es == Entries(b)
           Iter(f) == [k \in 0 .. n |-> Emptying(b, f, k)]
           after == CHOOSE f : f = Iter(f)
<1>1. StartsWithDots(b)
  BY ListStarts
<1>2. n \in Nat /\ n >= 2 /\ es \in Seq(Entry) /\ Len(es) = n - 2 /\ DOMAIN es = 1 .. (n - 2)
  BY <1>1, DotsFirst, EntriesParts
<1>3. after = Iter(after)
  BY <1>2, EmptyingExists
<1>4. Emptied(b) = after[n]
  BY DEF Emptied, Emptying
<1> HIDE DEF es, n
<1>5. \A k \in 0 .. n : after[k] = Emptying(b, after, k)
  BY <1>3
<1> HIDE DEF after, Iter
<1> DEFINE Good(k) == /\ after[k] \in Block
                      /\ \E T : \E stop \in Pos : IsList(after[k], T, stop)
                      /\ Entries(after[k]) = Behind(es, Unlinked(k))
           A == {k \in 0 .. n : Good(k)}
<1>6. ASSUME NEW k \in 0 .. n, k <= 2
      PROVE  k \in A
  <2>1. after[k] = b /\ Unlinked(k) = 0
    BY <1>5, <1>6 DEF Emptying, Unlinked
  <2>2. Behind(es, 0) = es
    <3>1. es = [j \in 1 .. (n - 2) |-> es[j]]
      BY <1>2, SeqDef
    <3>2. \A j \in 1 .. (n - 2) : j + 0 = j
      OBVIOUS
    <3>3. Behind(es, 0) = [j \in 1 .. (n - 2) |-> es[j]]
      BY <1>2, <3>2 DEF Behind
    <3> QED
      BY <3>1, <3>3
  <2>3. end \in Pos
    BY ListParts
  <2>4. /\ after[k] \in Block
        /\ \E T : \E stop \in Pos : IsList(after[k], T, stop)
        /\ Entries(after[k]) = Behind(es, Unlinked(k))
    BY <2>1, <2>2, <2>3 DEF es
  <2> QED
    BY <2>4
<1>7. ASSUME NEW k \in 1 .. n, k - 1 \in A
      PROVE  k \in A
  <2>1. CASE k <= 2
    BY <1>2, <1>6, <2>1
  <2>2. CASE k > LISTED
    <3>1. k > 2 /\ (k - 1 > 2 \/ k - 1 = 2) /\ (k - 1 > LISTED \/ k - 1 = LISTED)
      BY <1>2, <2>2, Sizes
    <3>2. after[k] = after[k - 1]
      BY <1>2, <1>5, <2>2, <3>1 DEF Emptying
    <3>3. Unlinked(k) = Unlinked(k - 1)
      BY <2>2, <3>1, Sizes DEF Unlinked
    <3>4. Good(k - 1)
      BY <1>7
    <3>5. Good(k)
      BY <3>2, <3>3, <3>4
    <3> HIDE DEF Good
    <3> QED
      BY <1>2, <3>5
  <2>3. CASE k > 2 /\ ~ (k > LISTED)
    <3> DEFINE x == after[k - 1]
               p == Chain(x)[3]
               r == k - 3
               m == n - 2
    <3>1. after[k] = Without(x, p)
      BY <1>2, <1>5, <2>3 DEF Emptying
    <3>2. /\ r \in Nat /\ m \in Nat /\ r < m /\ k - 2 = r + 1 /\ m - r >= 1
          /\ Unlinked(k) = r + 1 /\ Unlinked(k - 1) = r
      BY <1>2, <2>3, Sizes DEF Unlinked
    <3>3. /\ x \in Block /\ \E T : \E stop \in Pos : IsList(x, T, stop)
          /\ Entries(x) = Behind(es, r)
      BY <1>7, <3>2
    <3> HIDE DEF A, Good, x, r, m
    <3>4. PICK T : \E stop \in Pos : IsList(x, T, stop)
      BY <3>3
    <3>5. PICK stop \in Pos : IsList(x, T, stop)
      BY <3>4
    <3>6. StartsWithDots(x)
      BY <3>3, <3>5, ListStarts
    <3>7. /\ Entries(x) \in Seq(Entry) /\ Len(Entries(x)) = Len(Chain(x)) - 2
          /\ Len(Entries(x)) \in Nat /\ DOMAIN Entries(x) = 1 .. Len(Entries(x))
      BY <3>3, <3>6, EntriesParts, LenProperties
    <3>8. Behind(es, r) = [j \in 1 .. (m - r) |-> es[j + r]]
      BY <1>2 DEF Behind, m
    <3>9. Len(Entries(x)) = m - r
      <4>1. DOMAIN Entries(x) = 1 .. (m - r)
        BY <3>3, <3>8
      <4>2. \A u, v \in Nat : 1 .. u = 1 .. v => u = v
        OBVIOUS
      <4>3. m - r \in Nat
        BY <3>2
      <4> QED
        BY <3>7, <4>1, <4>2, <4>3
    <3>10. 1 \in 1 .. (Len(Chain(x)) - 2) /\ Nth(x, 1) = p
      BY <3>2, <3>7, <3>9 DEF Nth
    <3>11. /\ Without(x, p) \in Block
           /\ \E U : \E u \in Pos : IsList(Without(x, p), U, u)
           /\ Entries(Without(x, p)) = Left(Entries(x), 1)
      BY <3>3, <3>5, <3>10, EntriesWithout
    <3> HIDE DEF p
    <3>12. Left(Entries(x), 1) = Behind(es, r + 1)
      <4>1. Left(Entries(x), 1) = [j \in 1 .. (m - r - 1) |-> Entries(x)[j + 1]]
        BY <3>2, <3>9 DEF Left
      <4>2. \A j \in 1 .. (m - r - 1) : j + 1 \in 1 .. (m - r) /\ (j + 1) + r = j + (r + 1)
        BY <3>2
      <4>3. \A j \in 1 .. (m - r - 1) : Entries(x)[j + 1] = es[j + (r + 1)]
        BY <3>3, <3>8, <4>2
      <4>4. m - (r + 1) = m - r - 1
        BY <3>2
      <4>5. Behind(es, r + 1) = [j \in 1 .. (m - r - 1) |-> es[j + (r + 1)]]
        BY <1>2, <4>4 DEF Behind, m
      <4> QED
        BY <4>1, <4>3, <4>5
    <3>13. Good(k)
      BY <3>1, <3>2, <3>11, <3>12 DEF Good
    <3> QED
      BY <1>2, <3>13 DEF A
  <2> QED
    BY <2>1, <2>2, <2>3
<1>8. n \in A
  <2>1. 0 \in A
    BY <1>2, <1>6
  <2> HIDE DEF A
  <2>2. \A k \in 0 .. n : k \in A
    BY <1>2, <1>7, <2>1, Upwards
  <2> QED
    BY <1>2, <2>2
<1>9. Good(n)
  BY <1>8
<1> QED
  BY <1>4, <1>9 DEF n, es

(* As many images as elements.                                             *)
LEMMA SameNumber ==
  ASSUME NEW S, NEW T, NEW f \in [S -> T], IsFiniteSet(S),
         \A x, y \in S : f[x] = f[y] => x = y,
         \A y \in T : \E x \in S : f[x] = y
  PROVE  IsFiniteSet(T) /\ Cardinality(T) = Cardinality(S)
<1>1. f \in Bijection(S, T)
  BY DEF Bijection, Injection, Surjection, IsInjective
<1>2. ExistsBijection(S, T)
  BY <1>1 DEF ExistsBijection
<1> QED
  BY <1>2, FS_Bijection

(* create_file puts the entry last in what a directory shows, or where its *)
(* walk ends when rec_len came to 0.                                       *)
LEMMA AppendedEntries ==
  ASSUME NEW b \in Block, StartsWithDots(b), NEW n \in Name, NEW i \in Inode, ~Overflows(b, n)
  PROVE  LET e == Appended(b, n, i)
         IN  /\ e \in Block /\ StartsWithDots(e) /\ At(b) \in Pos
             /\ e[At(b)] = Record(n, i, round_up(n))
             /\ Entries(e) = IF round_up(n) = 0 THEN Entries(b)
                             ELSE Append(Entries(b), [name |-> n, inode |-> i])
<1> DEFINE e == Appended(b, n, i)
           c == Chain(b)
           last == LastOf(c)
           cut == round_up(b[last].name)
           at == At(b)
           new == round_up(n)
           s == IF new = 0 THEN c ELSE Append(c, at)
<1>1. /\ c \in Seq(Pos) /\ Len(c) \in Nat /\ Len(c) >= 2 /\ DOMAIN c = 1 .. Len(c)
      /\ c[1] = 0 /\ c[2] = 2 /\ Chained(b, c) /\ Rises(c)
      /\ b[0].rec = 2 /\ b[2].rec >= 3
  BY DotsFirst
<1>2. c # << >> /\ Len(c) \in DOMAIN c /\ last = c[Len(c)] /\ 1 \in DOMAIN c /\ 2 \in DOMAIN c
      /\ \A k \in DOMAIN c : c[k] \in Pos /\ c[k] \in Int
  <2>1. c # << >>
    BY <1>1
  <2> QED
    BY <1>1, <2>1, Places DEF LastOf
<1>3. /\ at = last + cut /\ at \in Pos /\ at \in Int /\ e \in Block
      /\ e[at] = Record(n, i, new)
      /\ \A q \in Pos : /\ q < at => e[q] = IF q = last
                                            THEN [b[q] EXCEPT !.rec = round_up(b[q].name)]
                                            ELSE b[q]
                        /\ q > at => ~IsHeader(e[q])
  <2>1. at = last + cut /\ at \in Pos /\ at \in Int
    BY <1>2, Fits DEF At
  <2>2. e \in Block /\ e[at] = Record(n, i, new)
    BY AppendedEntry
  <2>3. \A q \in Pos : /\ q < at => e[q] = IF q = last
                                           THEN [b[q] EXCEPT !.rec = round_up(b[q].name)]
                                           ELSE b[q]
                       /\ q > at => ~IsHeader(e[q])
    BY <1>2, AppendedWords
  <2> QED
    BY <2>1, <2>2, <2>3
<1>4. \A k \in DOMAIN c : /\ k # Len(c) => c[k] < last
                          /\ IsEntry(b, c[k]) /\ b[c[k]] \in Header
                          /\ k + 1 \in DOMAIN c <=> k # Len(c)
                          /\ k # Len(c) => Reached(b, c[k]) = c[k + 1]
  <2> SUFFICES ASSUME NEW k \in DOMAIN c
               PROVE  /\ k # Len(c) => c[k] < last
                      /\ IsEntry(b, c[k]) /\ b[c[k]] \in Header
                      /\ k + 1 \in DOMAIN c <=> k # Len(c)
                      /\ k # Len(c) => Reached(b, c[k]) = c[k + 1]
    OBVIOUS
  <2>1. IsEntry(b, c[k])
    BY <1>1 DEF Chained
  <2>2. b[c[k]] \in Header
    BY <1>2, <2>1, BlockWords DEF IsEntry
  <2>3. k + 1 \in DOMAIN c <=> k # Len(c)
    BY <1>1
  <2>4. k # Len(c) => k < Len(c)
    BY <1>1
  <2> QED
    BY <1>1, <1>2, <2>1, <2>2, <2>3, <2>4 DEF Chained, Rises
<1> HIDE DEF c, e, at
<1>5. cut \in 2 .. (REC - 1) /\ last < at /\ last \in Pos /\ last \in Int
  <2>1. b[last] \in Header /\ IsEntry(b, last) /\ last \in Pos /\ last \in Int
    BY <1>2, <1>4
  <2>2. b[last].name \in AnyName /\ Proper(b[last].name, b[last].rec) /\ b[last].rec # 0
    BY <2>1, Headers DEF IsEntry
  <2>3. cut # 0
    <3>1. CASE b[last].name = DotDot
      BY <3>1, RoundUp
    <3>2. CASE b[last].name # DotDot
      BY <2>2, <3>2 DEF Proper
    <3> QED
      BY <3>1, <3>2
  <2>4. Proper(b[last].name, cut)
    BY DEF Proper
  <2>5. cut \in 0 .. (REC - 1) /\ cut >= 2
    BY <2>2, <2>3, <2>4, ProperSizes
  <2> HIDE DEF cut
  <2> QED
    BY <1>3, <2>1, <2>5, Sizes
<1>6. /\ new \in Nat /\ IsHeader(e[at]) /\ e[at].rec = new /\ e[at].name = n /\ e[at].inode = i
      /\ Reached(e, at) = at + new
  <2>1. n \in AnyName /\ new \in 0 .. (REC - 1) /\ Proper(n, new)
    BY RoundUp DEF AnyName, Proper
  <2>2. IsHeader(e[at])
    BY <1>3, <2>1, Headers DEF Record
  <2> QED
    BY <1>3, <2>1, <2>2, RecordFields, Sizes DEF Reached
<1>7. \A k \in DOMAIN c : /\ IsEntry(e, c[k])
                          /\ e[c[k]].name = b[c[k]].name /\ e[c[k]].inode = b[c[k]].inode
                          /\ Reached(e, c[k]) = IF k = Len(c) THEN at ELSE c[k + 1]
  <2> SUFFICES ASSUME NEW k \in DOMAIN c
               PROVE  /\ IsEntry(e, c[k])
                      /\ e[c[k]].name = b[c[k]].name /\ e[c[k]].inode = b[c[k]].inode
                      /\ Reached(e, c[k]) = IF k = Len(c) THEN at ELSE c[k + 1]
    OBVIOUS
  <2>1. CASE k = Len(c)
    <3>1. c[k] = last
      BY <1>2, <2>1
    <3>2. e[last] = [b[last] EXCEPT !.rec = cut]
      BY <1>3, <1>5
    <3>3. b[last] \in Header
      BY <1>4, <3>1
    <3>4. /\ e[last].name = b[last].name /\ e[last].inode = b[last].inode /\ e[last].rec = cut
          /\ e[last] = Record(b[last].name, b[last].inode, cut)
      BY <3>2, <3>3, Headers DEF Record
    <3>5. IsHeader(e[last])
      <4>1. Proper(b[last].name, cut) /\ b[last].name \in AnyName /\ b[last].inode \in Inode
        BY <3>3, Headers DEF Proper
      <4> QED
        BY <3>4, <4>1, Headers DEF Record
    <3> HIDE DEF cut, last
    <3>6. e[last].rec # 0
      BY <1>5, <3>4
    <3> QED
      BY <1>3, <1>5, <2>1, <3>1, <3>4, <3>5, <3>6 DEF IsEntry, Reached
  <2>2. CASE k # Len(c)
    <3>1. c[k] < last /\ c[k] \in Pos /\ c[k] \in Int
      BY <1>2, <1>4, <2>2
    <3>2. c[k] < at /\ c[k] # last
      BY <1>3, <1>5, <3>1
    <3>3. e[c[k]] = b[c[k]]
      BY <1>3, <3>1, <3>2
    <3>4. Reached(e, c[k]) = Reached(b, c[k])
      BY <3>3 DEF Reached
    <3>5. IsEntry(e, c[k])
      BY <1>4, <3>3 DEF IsEntry
    <3> QED
      BY <1>4, <2>2, <3>3, <3>4, <3>5
  <2> QED
    BY <2>1, <2>2
<1> HIDE DEF last, cut, new
<1>8. StartsWithDots(e)
  <2>1. /\ e[0].name = b[0].name /\ e[2].name = b[2].name
        /\ IsEntry(e, 0) /\ IsEntry(e, 2)
    BY <1>1, <1>2, <1>7
  <2> QED
    BY <2>1 DEF StartsWithDots, IsEntry
<1>9. Chain(e) = s
  <2>1. CASE new = 0
    <3>1. ~IsEntry(e, at)
      BY <1>6, <2>1 DEF IsEntry
    <3>2. Chained(e, c)
      BY <1>4, <1>7, <3>1 DEF Chained
    <3>3. Along(e, c[1]) = c
      BY <1>1, <1>2, <1>3, <3>2, AlongIs
    <3> QED
      BY <1>1, <2>1, <3>3 DEF Chain, s
  <2>2. CASE new # 0
    <3> DEFINE t == Append(c, at)
    <3>1. /\ t \in Seq(Pos) /\ Len(t) = Len(c) + 1 /\ DOMAIN t = 1 .. (Len(c) + 1)
          /\ t[Len(c) + 1] = at /\ \A k \in DOMAIN c : t[k] = c[k]
      BY <1>1, <1>3, AppendProperties
    <3> HIDE DEF t
    <3>2. IsEntry(e, at)
      BY <1>3, <1>6, <2>2 DEF IsEntry
    <3>3. ~IsEntry(e, Reached(e, at))
      <4>1. Reached(e, at) > at
        BY <1>3, <1>6, <2>2
      <4> QED
        BY <1>3, <4>1 DEF IsEntry
    <3>4. ASSUME NEW k \in DOMAIN t
          PROVE  /\ IsEntry(e, t[k])
                 /\ k + 1 \in DOMAIN t => Reached(e, t[k]) = t[k + 1]
                 /\ k + 1 \notin DOMAIN t => ~IsEntry(e, Reached(e, t[k]))
      <4>1. CASE k = Len(c) + 1
        <5>1. t[k] = at /\ k + 1 \notin DOMAIN t
          BY <1>1, <3>1, <4>1
        <5> QED
          BY <3>2, <3>3, <5>1
      <4>2. CASE k # Len(c) + 1
        <5>1. k \in DOMAIN c /\ t[k] = c[k] /\ k + 1 \in DOMAIN t
          BY <1>1, <3>1, <4>2
        <5>2. t[k + 1] = IF k = Len(c) THEN at ELSE c[k + 1]
          BY <1>4, <3>1, <5>1
        <5> QED
          BY <1>7, <5>1, <5>2
      <4> QED
        BY <4>1, <4>2
    <3>5. Chained(e, t) /\ 1 \in DOMAIN t /\ t[1] = 0
      <4>1. 1 \in DOMAIN t /\ t[1] = 0
        BY <1>1, <1>2, <3>1
      <4> QED
        BY <3>4, <4>1 DEF Chained
    <3>6. Along(e, t[1]) = t
      BY <1>3, <3>1, <3>5, AlongIs
    <3>7. Chain(e) = t
      BY <3>5, <3>6 DEF Chain
    <3> QED
      BY <2>2, <3>7 DEF s, t
  <2> QED
    BY <2>1, <2>2
<1> DEFINE m == Len(c) - 2
<1>10. /\ m \in Nat
       /\ Entries(b) = [k \in 1 .. m |-> [name |-> b[c[k + 2]].name, inode |-> b[c[k + 2]].inode]]
       /\ \A k \in 1 .. m : k + 2 \in DOMAIN c
  BY <1>1 DEF Entries, c
<1>11. ASSUME new = 0
       PROVE  Entries(e) = Entries(b)
  <2>1. Chain(e) = c
    BY <1>9, <1>11
  <2>2. Entries(e) = [k \in 1 .. m |-> [name |-> e[c[k + 2]].name, inode |-> e[c[k + 2]].inode]]
    BY <2>1 DEF Entries
  <2>3. \A k \in 1 .. m : e[c[k + 2]].name = b[c[k + 2]].name /\ e[c[k + 2]].inode = b[c[k + 2]].inode
    BY <1>7, <1>10
  <2> QED
    BY <1>10, <2>2, <2>3
<1>12. ASSUME new # 0
       PROVE  Entries(e) = Append(Entries(b), [name |-> n, inode |-> i])
  <2> DEFINE d == Chain(e)
             x == [name |-> n, inode |-> i]
  <2>1. d = Append(c, at)
    BY <1>9, <1>12
  <2>2. /\ Len(d) = Len(c) + 1 /\ d[Len(c) + 1] = at /\ \A k \in DOMAIN c : d[k] = c[k]
    BY <1>1, <1>3, <2>1, AppendProperties
  <2>3. /\ Entries(b) \in Seq(Entry) /\ Len(Entries(b)) = m
        /\ Entries(e) \in Seq(Entry) /\ Len(Entries(e)) = Len(d) - 2
    BY <1>3, <1>8, EntriesParts DEF c
  <2>4. x \in Entry
    BY DEF Entry, AnyName
  <2>5. /\ Append(Entries(b), x) \in Seq(Entry) /\ Len(Append(Entries(b), x)) = m + 1
        /\ \A k \in 1 .. m : Append(Entries(b), x)[k] = Entries(b)[k]
        /\ Append(Entries(b), x)[m + 1] = x
    BY <2>3, <2>4, AppendProperties
  <2> HIDE DEF d
  <2>6. Len(Entries(e)) = m + 1
    BY <1>1, <2>2, <2>3
  <2>7. Entries(e) = [k \in 1 .. (m + 1) |-> [name |-> e[d[k + 2]].name, inode |-> e[d[k + 2]].inode]]
    <3>1. Len(d) - 2 = m + 1
      BY <1>1, <2>2
    <3> QED
      BY <3>1 DEF Entries, d
  <2>8. ASSUME NEW k \in 1 .. (m + 1)
        PROVE  Entries(e)[k] = Append(Entries(b), x)[k]
    <3>1. CASE k = m + 1
      <4>1. k + 2 = Len(c) + 1
        BY <1>1, <3>1
      <4>2. d[k + 2] = at
        BY <2>2, <4>1
      <4> QED
        BY <1>6, <2>5, <2>7, <3>1, <4>2
    <3>2. CASE k # m + 1
      <4>1. k \in 1 .. m /\ k + 2 \in DOMAIN c
        BY <1>10, <3>2
      <4>2. d[k + 2] = c[k + 2]
        BY <2>2, <4>1
      <4>3. /\ e[c[k + 2]].name = b[c[k + 2]].name /\ e[c[k + 2]].inode = b[c[k + 2]].inode
        BY <1>7, <4>1
      <4>4. Entries(b)[k] = [name |-> b[c[k + 2]].name, inode |-> b[c[k + 2]].inode]
        BY <1>10, <4>1
      <4>5. Entries(e)[k] = [name |-> e[c[k + 2]].name, inode |-> e[c[k + 2]].inode]
        BY <2>7, <4>2
      <4> QED
        BY <2>5, <4>1, <4>3, <4>4, <4>5
    <3> QED
      BY <3>1, <3>2
  <2> HIDE DEF x, m
  <2>9. Entries(e) = Append(Entries(b), x)
    BY <2>3, <2>5, <2>6, <2>8, SeqEqual
  <2> QED
    BY <2>9 DEF x
<1> QED
  BY <1>3, <1>8, <1>11, <1>12 DEF e, at, new

(* What that leaves is what was not listed, in the same order.             *)
LEMMA EmptiedEntries ==
  ASSUME NEW b \in Block, NEW S, NEW end, IsList(b, S, end),
         NEW r, r = Unlinked(Len(Chain(b))), NEW m, m = Len(Chain(b)) - 2
  PROVE  LET e == Emptied(b)
         IN  /\ e \in Block /\ StartsWithDots(e) /\ r \in 0 .. m /\ m \in Nat
             /\ \E stop \in Pos : IsList(e, Passed(e), stop)
             /\ \A x \in Passed(e) \ {0, 2} : \E k \in 1 .. (m - r) : x = Nth(e, k)
             /\ \A k \in 1 .. (m - r) :
                  /\ Nth(e, k) \in Passed(e) \ {0, 2}
                  /\ e[Nth(e, k)].name = b[Nth(b, k + r)].name
                  /\ e[Nth(e, k)].inode = b[Nth(b, k + r)].inode
                  /\ Nth(b, k + r) \in Passed(b) \ {0, 2} /\ Nth(b, k + r) \notin Shown(b)
             /\ \A j, k \in 1 .. (m - r) : Nth(b, j + r) = Nth(b, k + r) => j = k
             /\ \A k \in 1 .. r : Nth(b, k) \in Shown(b)
             /\ \A p \in Shown(b) \ {0, 2} : \E k \in 1 .. r : p = Nth(b, k)
<1> DEFINE e == Emptied(b)
           c == Chain(b)
           n == Len(c)
<1>1. StartsWithDots(b) /\ Passed(b) = S
  BY ListStarts, ListPassed
<1>2. /\ e \in Block /\ \E T : \E stop \in Pos : IsList(e, T, stop)
      /\ Entries(e) = Behind(Entries(b), r)
  BY EmptiedList
<1>3. PICK T : \E stop \in Pos : IsList(e, T, stop)
  BY <1>2
<1>4. PICK stop \in Pos : IsList(e, T, stop)
  BY <1>3
<1>5. StartsWithDots(e) /\ Passed(e) = T
  BY <1>2, <1>4, ListStarts, ListPassed
<1>6. /\ c \in Seq(Pos) /\ n \in Nat /\ n >= 2 /\ DOMAIN c = 1 .. n /\ c[1] = 0 /\ c[2] = 2
      /\ Rises(c) /\ \A k \in DOMAIN c : c[k] \in Int
  <2>1. Pos \subseteq Int
    BY Places
  <2>2. /\ c \in Seq(Pos) /\ n \in Nat /\ n >= 2 /\ DOMAIN c = 1 .. n /\ c[1] = 0 /\ c[2] = 2
        /\ Rises(c)
    BY <1>1, DotsFirst
  <2>3. \A k \in DOMAIN c : c[k] \in Pos
    <3> HIDE DEF c
    <3> QED
      BY <2>2
  <2> QED
    BY <2>1, <2>2, <2>3
<1> HIDE DEF e, c
<1>7. /\ m \in Nat /\ r \in 0 .. m /\ m = n - 2 /\ r \in Int
      /\ n <= LISTED => r = m
      /\ n > LISTED => r = LISTED - 2
      /\ r + 2 <= LISTED
  <2>1. m \in Nat /\ m = n - 2
    BY <1>6 DEF c
  <2>2. r = Unlinked(n)
    BY DEF c
  <2>3. n \in Int /\ LISTED \in Int /\ LISTED > 2 /\ n >= 2
    BY <1>6, Sizes
  <2>4. r = IF n <= LISTED THEN n - 2 ELSE LISTED - 2
    BY <2>2, <2>3 DEF Unlinked
  <2> HIDE DEF n
  <2> QED
    BY <2>1, <2>3, <2>4
<1>8. /\ Len(Entries(b)) = m
      /\ \A k \in 1 .. m : /\ Nth(b, k) \in Passed(b) /\ Nth(b, k) \in Pos \ {0, 2}
                           /\ Entries(b)[k].name = b[Nth(b, k)].name
                           /\ Entries(b)[k].inode = b[Nth(b, k)].inode
      /\ \A j, k \in 1 .. m : Nth(b, j) = Nth(b, k) => j = k
  BY <1>1, EntriesParts
<1>9. /\ Len(Chain(e)) - 2 \in Nat
      /\ DOMAIN Entries(e) = 1 .. (Len(Chain(e)) - 2)
      /\ \A k \in 1 .. (Len(Chain(e)) - 2) :
              /\ Nth(e, k) \in Passed(e) /\ Nth(e, k) \in Pos \ {0, 2}
              /\ Entries(e)[k].name = e[Nth(e, k)].name
              /\ Entries(e)[k].inode = e[Nth(e, k)].inode
      /\ \A p \in Passed(e) \ {0, 2} : \E k \in 1 .. (Len(Chain(e)) - 2) : p = Nth(e, k)
  BY <1>2, <1>5, EntriesParts
<1>10. Entries(e) = [k \in 1 .. (m - r) |-> Entries(b)[k + r]]
  BY <1>2, <1>8 DEF Behind
<1>11. Len(Chain(e)) - 2 = m - r
  <2>1. DOMAIN Entries(e) = 1 .. (m - r)
    BY <1>10
  <2>2. \A u, v \in Nat : 1 .. u = 1 .. v => u = v
    OBVIOUS
  <2>3. m - r \in Nat
    BY <1>7
  <2> QED
    BY <1>9, <2>1, <2>2, <2>3
<1>12. \A x \in Passed(e) \ {0, 2} : \E k \in 1 .. (m - r) : x = Nth(e, k)
  BY <1>9, <1>11
<1>13. \A k \in 1 .. m : Nth(b, k) = c[k + 2] /\ k + 2 \in DOMAIN c
  BY <1>6, <1>7 DEF Nth, c
<1>14. \A p : p \in Shown(b) <=> \E j \in DOMAIN c : j <= LISTED /\ p = c[j]
  BY DEF Shown, c
<1>15. \A i, j \in DOMAIN c : c[i] = c[j] => i = j
  <2> SUFFICES ASSUME NEW i \in DOMAIN c, NEW j \in DOMAIN c, c[i] = c[j] PROVE i = j
    OBVIOUS
  <2>1. ~ (i < j) /\ ~ (j < i)
    BY <1>6 DEF Rises
  <2> QED
    BY <1>6, <2>1
<1>16. ASSUME NEW k \in 1 .. (m - r)
       PROVE  /\ Nth(e, k) \in Passed(e) \ {0, 2}
              /\ e[Nth(e, k)].name = b[Nth(b, k + r)].name
              /\ e[Nth(e, k)].inode = b[Nth(b, k + r)].inode
              /\ Nth(b, k + r) \in Passed(b) \ {0, 2} /\ Nth(b, k + r) \notin Shown(b)
  <2>1. k + r \in 1 .. m
    BY <1>7
  <2>2. Entries(e)[k] = Entries(b)[k + r]
    BY <1>10
  <2>3. Nth(b, k + r) \notin Shown(b)
    <3> SUFFICES ASSUME NEW j \in DOMAIN c, j <= LISTED, Nth(b, k + r) = c[j] PROVE FALSE
      BY <1>14
    <3>1. j = k + r + 2
      BY <1>13, <1>15, <2>1
    <3>2. j \in Int /\ k \in Int /\ 1 <= k /\ j <= n /\ n \in Int /\ r \in Int /\ LISTED \in Int
      BY <1>6, <1>7, Sizes
    <3>3. k <= m - r /\ m = n - 2
      BY <1>7
    <3>4. CASE n <= LISTED
      BY <1>7, <3>2, <3>3, <3>4
    <3>5. CASE ~ (n <= LISTED)
      <4>1. r = LISTED - 2
        BY <1>7, <3>2, <3>5
      <4> QED
        BY <3>1, <3>2, <4>1
    <3> QED
      BY <3>4, <3>5
  <2>4. k \in 1 .. (Len(Chain(e)) - 2)
    BY <1>11
  <2>5. Nth(e, k) \in Passed(e) \ {0, 2}
    BY <1>9, <2>4
  <2>6. Nth(b, k + r) \in Passed(b) \ {0, 2}
    BY <1>8, <2>1
  <2>7. /\ e[Nth(e, k)].name = b[Nth(b, k + r)].name
        /\ e[Nth(e, k)].inode = b[Nth(b, k + r)].inode
    <3>1. /\ Entries(e)[k].name = e[Nth(e, k)].name
          /\ Entries(e)[k].inode = e[Nth(e, k)].inode
      BY <1>9, <2>4
    <3>2. /\ Entries(b)[k + r].name = b[Nth(b, k + r)].name
          /\ Entries(b)[k + r].inode = b[Nth(b, k + r)].inode
      BY <1>8, <2>1
    <3> QED
      BY <2>2, <3>1, <3>2
  <2> QED
    BY <2>3, <2>5, <2>6, <2>7
<1>17. ASSUME NEW j \in 1 .. (m - r), NEW k \in 1 .. (m - r), Nth(b, j + r) = Nth(b, k + r)
       PROVE  j = k
  <2>1. j + r \in 1 .. m /\ k + r \in 1 .. m
    BY <1>7
  <2>2. j + r = k + r
    BY <1>8, <1>17, <2>1
  <2> QED
    BY <1>7, <2>2
<1>18. ASSUME NEW k \in 1 .. r
       PROVE  Nth(b, k) \in Shown(b)
  <2>1. k \in 1 .. m /\ k + 2 <= LISTED
    BY <1>7, Sizes
  <2> QED
    BY <1>13, <1>14, <2>1
<1>19. ASSUME NEW p \in Shown(b) \ {0, 2}
       PROVE  \E k \in 1 .. r : p = Nth(b, k)
  <2>1. PICK j \in DOMAIN c : j <= LISTED /\ p = c[j]
    BY <1>14
  <2>2. j # 1 /\ j # 2
    BY <1>6, <2>1
  <2>3. j - 2 \in 1 .. r /\ j - 2 \in 1 .. m /\ (j - 2) + 2 = j
    BY <1>6, <1>7, <2>1, <2>2, Sizes
  <2>4. Nth(b, j - 2) = c[j]
    BY <1>13, <2>3
  <2> QED
    BY <2>1, <2>3, <2>4
<1>20. \E t \in Pos : IsList(e, Passed(e), t)
  BY <1>4, <1>5
<1> QED
  BY <1>2, <1>5, <1>7, <1>12, <1>16, <1>17, <1>18, <1>19, <1>20 DEF e

(* What a listing shows from its third entry on stands behind the dots,    *)
(* in any block.                                                           *)
LEMMA ShownEntries ==
  ASSUME NEW b \in Block
  PROVE  LET m == Len(Chain(b)) - 2
         IN  /\ DOMAIN Entries(b) = 1 .. m
             /\ \A k \in 1 .. m : /\ Nth(b, k) \in Passed(b) /\ Nth(b, k) \in Pos \ {0, 2}
                                  /\ IsHeader(b[Nth(b, k)])
                                  /\ Entries(b)[k].name = b[Nth(b, k)].name
                                  /\ Entries(b)[k].inode = b[Nth(b, k)].inode
             /\ \A j, k \in 1 .. m : Nth(b, j) = Nth(b, k) => j = k
<1> DEFINE c == Chain(b)
           m == Len(c) - 2
<1>1. c = Along(b, 0) /\ 0 \in Place
  BY Places DEF Chain
<1>2. /\ c \in Seq(Pos) /\ Len(c) \in Nat /\ DOMAIN c = 1 .. Len(c)
      /\ \A k \in DOMAIN c : c[k] \in Int /\ 0 <= c[k] /\ IsEntry(b, c[k])
      /\ \A j, k \in DOMAIN c : j < k => c[j] < c[k]
  BY <1>1, AlongPasses DEF Passes
<1>3. /\ Entries(b) = [k \in 1 .. m |-> [name |-> b[Nth(b, k)].name, inode |-> b[Nth(b, k)].inode]]
      /\ \A k \in 1 .. m : Nth(b, k) = c[k + 2]
      /\ \A k \in DOMAIN c : c[k] \in Passed(b)
  BY DEF Entries, Nth, Passed
<1>4. Chained(b, c)
  BY <1>1, AlongLinks
<1> HIDE DEF c
<1>5. \A k \in 1 .. m : k + 2 \in DOMAIN c /\ k + 2 > 2
  BY <1>2
<1>6. ASSUME NEW k \in 1 .. m
      PROVE  c[k + 2] > 2
  <2>1. 1 \in DOMAIN c /\ 1 + 1 \in DOMAIN c /\ k + 2 \in DOMAIN c /\ 1 + 1 < k + 2
    BY <1>2
  <2>2. Reached(b, c[1]) = c[1 + 1]
    BY <1>4, <2>1 DEF Chained
  <2>3. b[c[1]].rec \in Int /\ b[c[1]].rec >= 2
    <3>1. b[c[1]] \in Header /\ b[c[1]].rec # 0
      BY <1>2, <2>1, BlockWords DEF IsEntry
    <3>2. /\ Proper(b[c[1]].name, b[c[1]].rec) /\ b[c[1]].name \in AnyName
          /\ b[c[1]].rec \in 0 .. (REC - 1)
      BY <3>1, Headers
    <3> QED
      BY <3>1, <3>2, ProperSizes
  <2>4. c[1] \in Int /\ 0 <= c[1] /\ c[1 + 1] \in Int /\ c[k + 2] \in Int
    BY <1>2, <2>1
  <2>5. c[1 + 1] < c[k + 2]
    BY <1>2, <2>1
  <2> QED
    BY <2>2, <2>3, <2>4, <2>5 DEF Reached
<1>7. ASSUME NEW k \in 1 .. m
      PROVE  Nth(b, k) \in Passed(b) /\ Nth(b, k) \in Pos \ {0, 2} /\ IsHeader(b[Nth(b, k)])
  <2>1. c[k + 2] > 2 /\ k + 2 \in DOMAIN c /\ c[k + 2] \in Pos /\ c[k + 2] \in Int
    BY <1>2, <1>5, <1>6
  <2>2. c[k + 2] \notin {0, 2}
    BY <2>1
  <2> QED
    BY <1>2, <1>3, <2>1, <2>2 DEF IsEntry
<1>8. ASSUME NEW j \in 1 .. m, NEW k \in 1 .. m, Nth(b, j) = Nth(b, k)
      PROVE  j = k
  <2>1. c[j + 2] = c[k + 2] /\ c[j + 2] \in Int /\ j + 2 \in DOMAIN c /\ k + 2 \in DOMAIN c
    BY <1>2, <1>3, <1>5, <1>8
  <2>2. ~ (j + 2 < k + 2) /\ ~ (k + 2 < j + 2)
    BY <1>2, <2>1
  <2> QED
    BY <2>2
<1>9. /\ DOMAIN Entries(b) = 1 .. m
      /\ \A k \in 1 .. m : /\ Entries(b)[k].name = b[Nth(b, k)].name
                           /\ Entries(b)[k].inode = b[Nth(b, k)].inode
  BY <1>3
<1> QED
  BY <1>7, <1>8, <1>9 DEF m, c

LEMMA DotsWords ==
  ASSUME NEW b \in Block, NEW self \in Inode
  PROVE  /\ Dots(b, self) \in Block
         /\ Dots(b, self)[0] = Record(Dot, self, 2)
         /\ Dots(b, self)[2] = Record(DotDot, Root, (BLOCK - 2) % REC)
         /\ \A q \in Pos \ {0, 2} : Dots(b, self)[q] = IF q < 5 THEN Other ELSE b[q]
         /\ StartsWithDots(Dots(b, self))
<1> DEFINE rest == (BLOCK - 2) % REC
           c == Written(b, 0, Dot, self, round_up(Dot))
           e == Written(c, 2, DotDot, Root, rest)
<1>1. /\ 0 \in Pos /\ 2 \in Pos /\ Dot \in AnyName /\ DotDot \in AnyName
      /\ Proper(Dot, 2) /\ round_up(Dot) = 2 /\ Proper(DotDot, rest)
      /\ Size(Dot) = 2 /\ Size(DotDot) = 3 /\ Root \in Inode
  BY Places, RoundUp, Sizes DEF AnyName, Inode, Root, Proper
<1> HIDE DEF rest
<1>2. /\ c \in Block
      /\ \A q \in Pos : c[q] = IF q = 0 THEN Record(Dot, self, 2)
                               ELSE IF 0 < q /\ q < 0 + 2 THEN Other ELSE b[q]
  BY <1>1, WrittenWords
<1> HIDE DEF c
<1>3. /\ e \in Block
      /\ \A q \in Pos : e[q] = IF q = 2 THEN Record(DotDot, Root, rest)
                               ELSE IF 2 < q /\ q < 2 + 3 THEN Other ELSE c[q]
  BY <1>1, <1>2, WrittenWords
<1> HIDE DEF e
<1>4. e[0] = Record(Dot, self, 2) /\ e[2] = Record(DotDot, Root, rest)
  BY <1>1, <1>2, <1>3
<1>5. ASSUME NEW q \in Pos \ {0, 2}
      PROVE  e[q] = IF q < 5 THEN Other ELSE b[q]
  <2>1. q \in Int /\ q > 0
    BY Places
  <2> QED
    BY <1>2, <1>3, <2>1
<1>6. Dots(b, self) = e
  BY DEF Dots, e, c, rest
<1>7. StartsWithDots(e)
  BY <1>1, <1>4, Headers, RecordFields DEF StartsWithDots, Record
<1> QED
  BY <1>3, <1>4, <1>5, <1>6, <1>7 DEF rest

(* The root's block as abyssfs_init leaves it.                             *)
LEMMA FirstList ==
  LET b == Dots(ZeroBlock, Root)
  IN  /\ ZeroBlock \in Block /\ b \in Block
      /\ \E end \in Pos : IsList(b, {0, 2}, end)
      /\ At(b) = 5 /\ \A n \in Name : ~Overflows(b, n)
<1> DEFINE b == Dots(ZeroBlock, Root)
           rest == (BLOCK - 2) % REC
           end == 2 + rest
<1>1. ZeroBlock \in Block /\ Root \in Inode /\ \A q \in Pos : ZeroBlock[q] = Zero
  BY Sizes DEF ZeroBlock, Block, Inode, Root
<1>2. /\ b \in Block /\ b[0] = Record(Dot, Root, 2) /\ b[2] = Record(DotDot, Root, rest)
      /\ \A q \in Pos \ {0, 2} : b[q] = IF q < 5 THEN Other ELSE ZeroBlock[q]
  BY <1>1, DotsWords
<1> HIDE DEF b
<1>3. /\ rest \in Int /\ rest >= 4 /\ end \in Int /\ end > 5 /\ end \in Pos
      /\ 0 \in Pos /\ 2 \in Pos
  BY Sizes, Places
<1> HIDE DEF rest
<1>4. /\ Reached(b, 0) = 2 /\ Reached(b, 2) = end /\ b[0].rec = 2 /\ b[2].rec = rest
      /\ b[2].name = DotDot /\ b[2].inode = Root /\ IsHeader(b[0]) /\ IsHeader(b[2])
  <2>1. Record(Dot, Root, 2) \in Header /\ Record(DotDot, Root, rest) \in Header
    <3>1. Proper(Dot, 2) /\ Proper(DotDot, rest)
      BY RoundUp DEF rest, Proper
    <3>2. Dot \in AnyName /\ DotDot \in AnyName
      BY DEF AnyName
    <3> QED
      BY <1>1, <3>1, <3>2, Headers DEF Record
  <2> QED
    BY <1>2, <2>1, RecordFields, Headers DEF Reached
<1>5. b[end] = Zero
  BY <1>1, <1>2, <1>3
<1>6. IsList(b, {0, 2}, end)
  <2> HIDE DEF end
  <2>1. IsHeader(b[end]) => b[end].rec = 0
    BY <1>5, Headers
  <2>2. \A p \in {0, 2} : /\ p < end /\ IsHeader(b[p]) /\ b[p].rec > 0
                          /\ Reached(b, p) \in {0, 2} \cup {end}
    BY <1>3, <1>4
  <2>3. \A p, q \in {0, 2} : p < q => Reached(b, p) <= q
    BY <1>4
  <2>4. \A p \in {0, 2} : p \notin {0, 2} => b[p].name \in Name /\ b[p].rec = round_up(b[p].name)
    OBVIOUS
  <2>5. {0, 2} \subseteq Pos /\ {0, 2} \subseteq {0, 2}
    BY <1>3
  <2> QED
    BY <1>2, <1>3, <1>4, <2>1, <2>2, <2>3, <2>4, <2>5, ListIntro
<1>7. At(b) = 5
  <2>1. Chain(b) # << >> /\ LastOf(Chain(b)) \in {0, 2} /\ Reached(b, LastOf(Chain(b))) = end
    BY <1>2, <1>6, ListPassed
  <2>2. LastOf(Chain(b)) = 2
    BY <1>3, <1>4, <2>1
  <2> QED
    BY <1>4, <2>1, <2>2, RoundUp DEF At
<1>8. ASSUME NEW n \in Name
      PROVE  ~Overflows(b, n)
  <2>1. Size(n) \in 2 .. REC /\ REC \in Nat /\ BLOCK \in Nat /\ BLOCK > REC + 6
    BY RoundUp, Sizes DEF AnyName
  <2>2. ~ (5 + Size(n) + 2 > BLOCK)
    BY <2>1
  <2> QED
    BY <1>7, <2>2 DEF Overflows, At
<1>9. \E t \in Pos : IsList(b, {0, 2}, t)
  BY <1>3, <1>6
<1> QED
  BY <1>1, <1>2, <1>7, <1>8, <1>9 DEF b

(* Bytes of a file are no entries.                                         *)
LEMMA BytesTyped ==
  ASSUME NEW b \in Block, NEW words
  PROVE  /\ WithBytes(b, words) \in Block
         /\ \A q \in Pos : IsHeader(WithBytes(b, words)[q]) => WithBytes(b, words)[q] = b[q]
BY Headers DEF WithBytes, Block

--------------------------------------------------------------------------------
(* Walks along a path.                                                     *)

Inodes == Inode \cup {NoInode}

WalkStep(nodes, blks, i, n) ==
  IF i = NoInode THEN NoInode
  ELSE IF nodes[i].blocks = NoBlock THEN NoInode
  ELSE LET b    == blks[nodes[i].blocks]
           hits == Found(b, n)
       IN  IF hits = {} THEN NoInode
           ELSE b[CHOOSE p \in hits : FirstOf(p, hits)].inode

LEMMA WalkStepTyped ==
  ASSUME NEW nodes \in [Inode -> Node], NEW blks \in [DataBlock -> Block],
         NEW i \in Inodes, NEW n
  PROVE  WalkStep(nodes, blks, i, n) \in Inodes
<1> SUFFICES ASSUME i # NoInode, nodes[i].blocks # NoBlock,
                    Found(blks[nodes[i].blocks], n) # {}
             PROVE  WalkStep(nodes, blks, i, n) \in Inodes
  BY DEF WalkStep, Inodes
<1> DEFINE b == blks[nodes[i].blocks]
           hits == Found(b, n)
<1>1. b \in Block
  BY DEF Inodes, Node
<1> HIDE DEF b
<1>2. hits \in SUBSET Pos /\ hits # {}
  BY <1>1, FoundWords DEF b
<1>3. \E p \in hits : FirstOf(p, hits)
  <2>1. hits \in SUBSET Nat
    BY <1>2, Places DEF Pos
  <2> HIDE DEF hits
  <2> QED
    BY <1>2, <2>1, LeastExists DEF FirstOf
<1> DEFINE p == CHOOSE q \in hits : FirstOf(q, hits)
<1>4. p \in hits
  <2> HIDE DEF hits
  <2> QED
    BY <1>3
<1> HIDE DEF p
<1>5. b[p].inode \in Inode
  BY <1>1, <1>4, FoundWords
<1>6. WalkStep(nodes, blks, i, n) = b[p].inode
  BY DEF WalkStep, b, p
<1> QED
  BY <1>5, <1>6 DEF Inodes

(* A walk is its steps.                                                    *)
LEMMA WalkSteps ==
  ASSUME NEW nodes, NEW blks, NEW path \in Seq(Name)
  PROVE  \A k \in 0 .. Len(path) :
           Walk(nodes, blks, path)[k] =
             IF k = 0 THEN Root
             ELSE WalkStep(nodes, blks, Walk(nodes, blks, path)[k - 1], path[k])
<1> DEFINE n == Len(path)
           Iter(f) == [k \in 0 .. Len(path) |->
                         IF k = 0 THEN Root
                         ELSE LET i == f[k - 1]
                              IN  IF i = NoInode THEN NoInode
                                  ELSE IF nodes[i].blocks = NoBlock THEN NoInode
                                  ELSE LET b    == blks[nodes[i].blocks]
                                           hits == Found(b, path[k])
                                       IN  IF hits = {} THEN NoInode
                                           ELSE b[CHOOSE p \in hits : FirstOf(p, hits)].inode]
           at == CHOOSE f : f = Iter(f)
           St(i, k) == WalkStep(nodes, blks, i, path[k])
<1>1. n \in Nat
  OBVIOUS
<1>2. \A f : Iter(f) = [k \in 0 .. n |-> IF k = 0 THEN Root ELSE St(f[k - 1], k)]
  BY DEF WalkStep
<1>3. \E f : f = [k \in 0 .. n |-> IF k = 0 THEN Root ELSE St(f[k - 1], k)]
  <2> HIDE DEF St, Iter, at
  <2> DEFINE B == {m \in 0 .. n : \E f : f = [k \in 0 .. m |->
                     IF k = 0 THEN Root ELSE St(f[k - 1], k)]}
  <2>1. 0 \in B
    <3> DEFINE f == [k \in 0 .. 0 |-> Root]
    <3>1. f = [k \in 0 .. 0 |-> IF k = 0 THEN Root ELSE St(f[k - 1], k)]
      OBVIOUS
    <3> HIDE DEF f
    <3> QED
      BY <1>1, <3>1
  <2>2. ASSUME NEW m \in 1 .. n, m - 1 \in B
        PROVE  m \in B
    <3>1. PICK f : f = [k \in 0 .. (m - 1) |-> IF k = 0 THEN Root ELSE St(f[k - 1], k)]
      BY <2>2
    <3> DEFINE g == [k \in 0 .. m |-> IF k = m THEN St(f[m - 1], m) ELSE f[k]]
    <3>2. ASSUME NEW k \in 0 .. m
          PROVE  g[k] = IF k = 0 THEN Root ELSE St(g[k - 1], k)
      <4>1. CASE k = m
        <5>1. k # 0 /\ k - 1 \in 0 .. m /\ k - 1 # m
          BY <1>1, <4>1
        <5>2. g[k - 1] = f[k - 1]
          BY <5>1
        <5> QED
          BY <4>1, <5>1, <5>2
      <4>2. CASE k # m
        <5>1. k \in 0 .. (m - 1) /\ (k # 0 => k - 1 \in 0 .. m /\ k - 1 # m)
          BY <1>1, <4>2
        <5>2. (k # 0 => g[k - 1] = f[k - 1]) /\ g[k] = f[k]
          BY <4>2, <5>1
        <5>3. f[k] = IF k = 0 THEN Root ELSE St(f[k - 1], k)
          BY <3>1, <5>1
        <5> QED
          BY <5>2, <5>3
      <4> QED
        BY <4>1, <4>2
    <3>3. g = [k \in 0 .. m |-> g[k]]
      OBVIOUS
    <3> HIDE DEF g
    <3>4. g = [k \in 0 .. m |-> IF k = 0 THEN Root ELSE St(g[k - 1], k)]
      BY <3>2, <3>3
    <3> QED
      BY <1>1, <3>4
  <2>3. n \in B
    <3> HIDE DEF B, n
    <3>1. \A k \in 0 .. n : k \in B
      BY <1>1, <2>1, <2>2, Upwards
    <3> QED
      BY <1>1, <3>1
  <2> QED
    BY <2>3
<1>4. at = Iter(at)
  <2> HIDE DEF Iter, St
  <2>1. \E f : f = Iter(f)
    BY <1>2, <1>3
  <2> QED
    BY <2>1
<1>5. Walk(nodes, blks, path) = at
  BY DEF Walk
<1> HIDE DEF at
<1>6. \A k \in 0 .. n : at[k] = IF k = 0 THEN Root ELSE St(at[k - 1], k)
  <2> HIDE DEF Iter, St
  <2>1. at = [k \in 0 .. n |-> IF k = 0 THEN Root ELSE St(at[k - 1], k)]
    BY <1>2, <1>4
  <2> QED
    BY <2>1
<1> QED
  BY <1>5, <1>6

LEMMA WalkTyped ==
  ASSUME NEW nodes \in [Inode -> Node], NEW blks \in [DataBlock -> Block],
         NEW path \in Seq(Name)
  PROVE  \A k \in 0 .. Len(path) : Walk(nodes, blks, path)[k] \in Inodes
<1> DEFINE n == Len(path)
           at == Walk(nodes, blks, path)
           A == {k \in 0 .. n : at[k] \in Inodes}
<1>1. n \in Nat
  OBVIOUS
<1>2. \A k \in 0 .. n :
        at[k] = IF k = 0 THEN Root ELSE WalkStep(nodes, blks, at[k - 1], path[k])
  BY WalkSteps
<1> HIDE DEF at
<1>3. 0 \in A
  BY <1>1, <1>2, Sizes DEF Inodes, Inode, Root
<1>4. ASSUME NEW k \in 1 .. n, k - 1 \in A
      PROVE  k \in A
  <2>1. at[k - 1] \in Inodes
    BY <1>4
  <2>2. WalkStep(nodes, blks, at[k - 1], path[k]) \in Inodes
    BY <2>1, WalkStepTyped
  <2>3. at[k] = WalkStep(nodes, blks, at[k - 1], path[k])
    BY <1>1, <1>2
  <2> QED
    BY <1>1, <2>2, <2>3
<1>5. \A k \in 0 .. n : k \in A
  <2> HIDE DEF A, n
  <2> QED
    BY <1>1, <1>3, <1>4, Upwards
<1> QED
  BY <1>5 DEF at

LEMMA DirBlockTyped ==
  ASSUME NEW nodes \in [Inode -> Node], NEW blks \in [DataBlock -> Block], cwd \in Cwd
  PROVE  DirBlock(nodes, blks) \in {NoBlock} \cup DataBlock
<1> DEFINE d == get_inode_by_path(nodes, blks, cwd)
<1>1. cwd \in Seq(Name) /\ Len(cwd) \in 0 .. Len(cwd)
  BY AbyssAssumption
<1>2. d \in Inodes
  BY <1>1, WalkTyped DEF get_inode_by_path
<1> HIDE DEF d
<1>3. d # NoInode => nodes[d].blocks \in {NoBlock} \cup DataBlock
  BY <1>2 DEF Inodes, Node
<1> QED
  BY <1>3 DEF DirBlock, d

--------------------------------------------------------------------------------
(* States.                                                                 *)

LEMMA Numbers ==
  /\ Inode = 0 .. (NINODES - 1) /\ Root \in Inode /\ 0 \in Inode /\ Root # 0
  /\ RootBlock \in DataBlock /\ NoBlock \notin DataBlock /\ IsFiniteSet(DataBlock)
<1>1. IsFiniteSet(DataBlock)
  BY Sizes, FS_Interval DEF DataBlock
<1> QED
  BY <1>1, Sizes DEF Inode, Root, RootBlock, DataBlock, NoBlock

LEMMA InvParts ==
  ASSUME AbyssInv
  PROVE  /\ TypeOK /\ FreeCount /\ BlocksHaveOneOwner /\ RootLives /\ Inodes0AndDirs
         /\ RecordsNameOne
BY DEF AbyssInv

LEMMA Types ==
  ASSUME TypeOK
  PROVE  /\ inode \in [Inode -> Node] /\ block \in [DataBlock -> Block]
         /\ \A i \in Inode : /\ inode[i].mode \in {"free", "file", "dir"}
                             /\ inode[i].blocks \in {NoBlock} \cup DataBlock
         /\ \A b \in DataBlock : block[b] \in Block
         /\ block_bitmap \subseteq DataBlock /\ free_blocks \in Int /\ cwd \in Cwd
         /\ handles \subseteq Inode
BY DEF TypeOK, Node

(* While the program runs the root is there, its block taken and a list.   *)
LEMMA RootRuns ==
  ASSUME AbyssInv, mode = "run"
  PROVE  /\ inode[Root] = [mode |-> "dir", blocks |-> RootBlock]
         /\ inode[Root].mode = "dir" /\ inode[Root].blocks = RootBlock
         /\ block[RootBlock] \in Block /\ RootBlock \in block_bitmap
         /\ \E end \in Pos : IsList(block[RootBlock], Passed(block[RootBlock]), end)
         /\ \A i \in Inode \ {Root} : inode[i].blocks # RootBlock
<1>1. /\ inode[Root] = [mode |-> "dir", blocks |-> RootBlock]
      /\ \E end \in Pos : IsList(block[RootBlock], Passed(block[RootBlock]), end)
      /\ \A i \in Inode \ {Root} : inode[i].blocks # RootBlock
  BY InvParts DEF RootLives
<1>2. block[RootBlock] \in Block
  BY InvParts, Types, Numbers
<1>3. inode[Root].mode = "dir" /\ inode[Root].blocks = RootBlock
  BY <1>1
<1>4. RootBlock \in block_bitmap
  <2>1. Root \in Holders /\ inode[Root].blocks # NoBlock
    BY <1>3, Numbers DEF Holders
  <2> QED
    BY <1>3, <2>1, InvParts DEF BlocksHaveOneOwner
<1> QED
  BY <1>1, <1>2, <1>3, <1>4

LEMMA RecordParts ==
  ASSUME NEW b \in DataBlock, NEW p \in Pos
  PROVE  /\ Names(<<b, p>>) = block[b][p].inode
         /\ <<b, p>> \in Records <=>
              /\ IsHeader(block[b][p]) /\ block[b][p].name \in Name
              /\ b = RootBlock => mode # "rootless" /\ p \in Passed(block[RootBlock])
BY DEF Names, Records

(* What the records of the root are: the entries of its list, but for the  *)
(* dots.                                                                   *)
LEMMA RootRecords ==
  ASSUME AbyssInv, mode = "run", NEW p \in Pos
  PROVE  <<RootBlock, p>> \in Records <=> p \in Passed(block[RootBlock]) \ {0, 2}
<1> DEFINE b == block[RootBlock]
<1>1. PICK end \in Pos : IsList(b, Passed(b), end)
  BY RootRuns
<1>2. /\ \A q \in Passed(b) : IsEntry(b, q) /\ (q \notin {0, 2} => b[q].name \in Name)
      /\ b[0].name = Dot /\ b[2].name = DotDot
  BY <1>1, ListParts, ListElim, RecordFields, RootRuns
<1>3. Dot \notin Name /\ DotDot \notin Name
  BY AbyssAssumption
<1> QED
  BY <1>2, <1>3, RecordParts, Numbers DEF IsEntry

--------------------------------------------------------------------------------
(* Blocks are taken and freed.                                             *)

LEMMA BlockTaken ==
  ASSUME TypeOK, FreeCount, NEW b \in DataBlock, alloc_block(b)
  PROVE  /\ b \notin block_bitmap /\ block_bitmap' = block_bitmap \cup {b}
         /\ block_bitmap' \subseteq DataBlock /\ free_blocks' \in Int /\ FreeCount'
<1>1. /\ b \in FreeBlocks /\ b \notin block_bitmap /\ block_bitmap' = block_bitmap \cup {b}
      /\ free_blocks' = free_blocks - 1
  BY DEF alloc_block, FirstOf, FreeBlocks
<1>2. FreeBlocks' = FreeBlocks \ {b}
  BY <1>1 DEF FreeBlocks, DataBlock
<1>3. IsFiniteSet(FreeBlocks)
  BY Numbers, FS_Subset DEF FreeBlocks
<1>4. Cardinality(FreeBlocks) \in Nat /\ Cardinality(FreeBlocks') = Cardinality(FreeBlocks) - 1
  BY <1>1, <1>2, <1>3, FS_CardinalityType, FS_RemoveElement
<1>5. FreeCount'
  <2>1. free_blocks = Cardinality(FreeBlocks) + 1
    BY DEF FreeCount
  <2>2. free_blocks' = Cardinality(FreeBlocks') + 1
    BY <1>1, <1>4, <2>1
  <2> QED
    BY <2>2 DEF FreeCount
<1> QED
  BY <1>1, <1>5, Types

LEMMA BlocksFreed ==
  ASSUME TypeOK, FreeCount, NEW B \in SUBSET block_bitmap, NEW N \in Nat,
         N = Cardinality(B), block_bitmap' = block_bitmap \ B,
         free_blocks' = free_blocks + N
  PROVE  block_bitmap' \subseteq DataBlock /\ free_blocks' \in Int /\ FreeCount'
<1>1. FreeBlocks' = FreeBlocks \cup B /\ FreeBlocks \cap B = {}
  BY Types DEF FreeBlocks, DataBlock
<1>2. IsFiniteSet(FreeBlocks) /\ IsFiniteSet(B)
  BY Numbers, Types, FS_Subset DEF FreeBlocks
<1>3. Cardinality(FreeBlocks') = Cardinality(FreeBlocks) + Cardinality(B) - 0
  <2>1. Cardinality(FreeBlocks \cap B) = 0
    BY <1>1, FS_EmptySet
  <2>2. Cardinality(FreeBlocks \cup B)
          = Cardinality(FreeBlocks) + Cardinality(B) - Cardinality(FreeBlocks \cap B)
    BY <1>2, FS_Union
  <2> QED
    BY <1>1, <2>1, <2>2
<1>4. Cardinality(FreeBlocks) \in Nat
  BY <1>2, FS_CardinalityType
<1>5. free_blocks = Cardinality(FreeBlocks) + 1
  BY DEF FreeCount
<1>6. free_blocks' = Cardinality(FreeBlocks') + 1
  BY <1>3, <1>4, <1>5
<1> QED
  BY <1>6, Types DEF FreeCount

LEMMA BlockFreed ==
  ASSUME TypeOK, FreeCount, NEW i \in Inode, free_block(i),
         inode[i].blocks # NoBlock => inode[i].blocks \in block_bitmap
  PROVE  /\ block_bitmap' = block_bitmap \ {inode[i].blocks}
         /\ block_bitmap' \subseteq DataBlock /\ free_blocks' \in Int /\ FreeCount'
<1>1. /\ block_bitmap' = block_bitmap \ {inode[i].blocks}
      /\ free_blocks' = IF inode[i].blocks = NoBlock THEN free_blocks ELSE free_blocks + 1
  BY DEF free_block
<1>2. CASE inode[i].blocks = NoBlock
  <2>1. /\ block_bitmap' = block_bitmap \ {} /\ free_blocks' = free_blocks + 0
        /\ Cardinality({}) = 0
    BY <1>1, <1>2, Types, Numbers, FS_EmptySet
  <2> QED
    BY <1>1, <2>1, BlocksFreed
<1>3. CASE inode[i].blocks # NoBlock
  <2> DEFINE B == {inode[i].blocks}
  <2>1. /\ B \in SUBSET block_bitmap /\ Cardinality(B) = 1
        /\ block_bitmap' = block_bitmap \ B /\ free_blocks' = free_blocks + 1
    BY <1>1, <1>3, FS_Singleton
  <2> HIDE DEF B
  <2> QED
    BY <1>1, <2>1, BlocksFreed
<1> QED
  BY <1>2, <1>3

(* An inode that takes a free block, or none, shares it with nobody.       *)
LEMMA OwnerAdded ==
  ASSUME TypeOK, BlocksHaveOneOwner, NEW i \in Inode,
         inode' \in [Inode -> Node], \A j \in Inode \ {i} : inode'[j] = inode[j],
         block_bitmap \subseteq block_bitmap',
         \/ inode'[i].blocks = NoBlock
         \/ inode'[i].blocks \notin block_bitmap /\ inode'[i].blocks \in block_bitmap'
  PROVE  BlocksHaveOneOwner'
<1>1. \A j \in Holders : inode[j].blocks # NoBlock =>
        /\ inode[j].blocks \in block_bitmap
        /\ \A k \in Holders : k # j => inode[k].blocks # inode[j].blocks
  BY DEF BlocksHaveOneOwner
<1>2. \A j \in Holders' : j \in Inode /\ (j # i => j \in Holders /\ inode'[j] = inode[j])
  BY DEF Holders
<1>3. ASSUME NEW j \in Holders', inode'[j].blocks # NoBlock, NEW k \in Holders', k # j
      PROVE  inode'[j].blocks \in block_bitmap' /\ inode'[k].blocks # inode'[j].blocks
  <2>1. CASE j = i
    <3>1. k \in Holders /\ inode'[k] = inode[k]
      BY <1>2, <1>3, <2>1
    <3>2. inode[k].blocks = NoBlock \/ inode[k].blocks \in block_bitmap
      BY <1>1, <3>1
    <3> QED
      BY <1>3, <2>1, <3>1, <3>2
  <2>2. CASE j # i
    <3>1. j \in Holders /\ inode'[j] = inode[j] /\ inode[j].blocks \in block_bitmap
      BY <1>1, <1>2, <1>3, <2>2
    <3>2. CASE k = i
      BY <1>3, <3>1, <3>2
    <3>3. CASE k # i
      <4>1. k \in Holders /\ inode'[k] = inode[k]
        BY <1>2, <3>3
      <4> QED
        BY <1>1, <1>3, <3>1, <4>1
    <3> QED
      BY <3>2, <3>3
  <2> QED
    BY <2>1, <2>2
<1>4. ASSUME NEW j \in Holders', inode'[j].blocks # NoBlock
      PROVE  inode'[j].blocks \in block_bitmap'
  <2>1. CASE j = i
    BY <1>4, <2>1
  <2>2. CASE j # i
    BY <1>1, <1>2, <1>4, <2>2
  <2> QED
    BY <2>1, <2>2
<1> QED
  BY <1>3, <1>4 DEF BlocksHaveOneOwner

(* Inodes that are freed take their blocks along and no others.            *)
LEMMA OwnersFreed ==
  ASSUME TypeOK, BlocksHaveOneOwner, NEW G \in SUBSET Holders, inode[0].mode = "free", 0 \notin G,
         \A j \in Inode : inode'[j].blocks = inode[j].blocks,
         \A j \in Inode : IF j \in G THEN inode'[j].mode = "free"
                          ELSE inode'[j].mode = inode[j].mode,
         block_bitmap' = block_bitmap \ {inode[j].blocks : j \in G}
  PROVE  BlocksHaveOneOwner'
<1>1. \A j \in Holders : inode[j].blocks # NoBlock =>
        /\ inode[j].blocks \in block_bitmap
        /\ \A k \in Holders : k # j => inode[k].blocks # inode[j].blocks
  BY DEF BlocksHaveOneOwner
<1>2. \A j \in Holders' : j \in Inode /\ j \in Holders /\ j \notin G
  BY DEF Holders
<1>3. ASSUME NEW j \in Holders', inode'[j].blocks # NoBlock
      PROVE  inode'[j].blocks \in block_bitmap'
  <2>1. inode[j].blocks # NoBlock /\ inode'[j].blocks = inode[j].blocks /\ j \in Holders
    BY <1>2, <1>3
  <2>2. \A k \in G : inode[k].blocks # inode[j].blocks
    BY <1>1, <1>2, <2>1
  <2> QED
    BY <1>1, <2>1, <2>2
<1>4. ASSUME NEW j \in Holders', inode'[j].blocks # NoBlock, NEW k \in Holders', k # j
      PROVE  inode'[k].blocks # inode'[j].blocks
  BY <1>1, <1>2, <1>4
<1> QED
  BY <1>3, <1>4 DEF BlocksHaveOneOwner

--------------------------------------------------------------------------------
(* Records come and go.                                                    *)

(* Each record after the step is one of before, by itself, that names the  *)
(* same inode, still in use.                                               *)
LEMMA RecordsFrom ==
  ASSUME RecordsNameOne, NEW F,
         \A r \in Records' : \E s \in Records : <<r, s>> \in F,
         \A r \in Records', s \in Records : <<r, s>> \in F =>
           Names(r)' = Names(s) /\ inode'[Names(s)].mode # "free",
         \A r, q \in Records', s \in Records : <<r, s>> \in F /\ <<q, s>> \in F => r = q
  PROVE  RecordsNameOne'
<1>1. /\ \A r \in Records : Names(r) # Root
      /\ \A r, q \in Records : Names(r) = Names(q) => r = q
  BY DEF RecordsNameOne
<1>2. ASSUME NEW r \in Records'
      PROVE  inode'[Names(r)'].mode # "free" /\ Names(r)' # Root
  <2>1. PICK s \in Records : <<r, s>> \in F
    OBVIOUS
  <2> QED
    BY <1>1, <2>1
<1>3. ASSUME NEW r \in Records', NEW q \in Records', Names(r)' = Names(q)'
      PROVE  r = q
  <2>1. PICK s \in Records : <<r, s>> \in F
    OBVIOUS
  <2>2. PICK t \in Records : <<q, t>> \in F
    OBVIOUS
  <2>3. s = t
    BY <1>1, <1>3, <2>1, <2>2
  <2> QED
    BY <2>1, <2>2, <2>3
<1> QED
  BY <1>2, <1>3 DEF RecordsNameOne

(* No record is new and no inode that one names is freed.                  *)
LEMMA RecordsFewer ==
  ASSUME RecordsNameOne,
         \A r \in Records' : r \in Records /\ Names(r)' = Names(r),
         \A r \in Records' : inode'[Names(r)].mode # "free"
  PROVE  RecordsNameOne'
<1>1. \A r, q \in Records : Names(r) = Names(q) => r = q
  BY DEF RecordsNameOne
<1>2. \A r \in Records : Names(r) # Root
  BY DEF RecordsNameOne
<1> QED
  BY <1>1, <1>2 DEF RecordsNameOne

(* One record is new, of an inode that was free.                           *)
LEMMA RecordsMore ==
  ASSUME RecordsNameOne, NEW i \in Inode, i # Root, inode[i].mode = "free",
         inode'[i].mode # "free", \A j \in Inode \ {i} : inode'[j] = inode[j],
         \A r \in Records : Names(r) \in Inode, NEW new,
         \A r \in Records' : \/ r = new /\ Names(r)' = i
                             \/ r \in Records /\ Names(r)' = Names(r)
  PROVE  RecordsNameOne'
<1>1. /\ \A r \in Records : inode[Names(r)].mode # "free" /\ Names(r) # Root
      /\ \A r, q \in Records : Names(r) = Names(q) => r = q
  BY DEF RecordsNameOne
<1>2. \A r \in Records : Names(r) # i /\ inode'[Names(r)].mode # "free"
  BY <1>1
<1>3. ASSUME NEW r \in Records'
      PROVE  inode'[Names(r)'].mode # "free" /\ Names(r)' # Root
  BY <1>1, <1>2
<1>4. ASSUME NEW r \in Records', NEW q \in Records', Names(r)' = Names(q)'
      PROVE  r = q
  BY <1>1, <1>2, <1>4
<1> QED
  BY <1>3, <1>4 DEF RecordsNameOne

LEMMA NamesInodes ==
  ASSUME TypeOK
  PROVE  \A r \in Records : Names(r) \in Inode
BY BlockWords, Types DEF Records, Names

(* create_file writes an entry at the end of one block, or nothing.        *)
LEMMA CreateFile ==
  ASSUME NEW nodes \in [Inode -> Node], NEW blks \in [DataBlock -> Block], cwd \in Cwd,
         NEW n \in Name, NEW i \in Inode, create_file(nodes, blks, n, i)
  PROVE  /\ block' \in [DataBlock -> Block] /\ mode' \in {mode, "overrun", "undefined"}
         /\ \/ block' = blks
            \/ \E d \in DataBlock : /\ ~Overflows(blks[d], n)
                                    /\ block' = [blks EXCEPT ![d] = Appended(blks[d], n, i)]
<1> DEFINE b == DirBlock(nodes, blks)
<1>1. b \in {NoBlock} \cup DataBlock
  BY DirBlockTyped
<1>2. /\ mode' \in {mode, "overrun", "undefined"}
      /\ \/ block' = blks
         \/ /\ b # NoBlock /\ ~Overflows(blks[b], n)
            /\ block' = [blks EXCEPT ![b] = Appended(blks[b], n, i)]
  BY DEF create_file
<1> HIDE DEF b
<1>3. CASE block' = blks
  BY <1>2, <1>3
<1>4. CASE /\ b # NoBlock /\ ~Overflows(blks[b], n)
           /\ block' = [blks EXCEPT ![b] = Appended(blks[b], n, i)]
  <2>1. b \in DataBlock /\ blks[b] \in Block
    BY <1>1, <1>4
  <2>2. Appended(blks[b], n, i) \in Block
    BY <1>4, <2>1, AppendedWords
  <2> QED
    BY <1>2, <1>4, <2>1, <2>2
<1> QED
  BY <1>2, <1>3, <1>4

(* While the program runs a directory has a block with dots of its own.    *)
LEMMA DirBlocks ==
  ASSUME AbyssInv, mode = "run", NEW j \in Inode, inode[j].mode = "dir"
  PROVE  /\ inode[j].blocks \in DataBlock /\ inode[j].blocks \in block_bitmap
         /\ StartsWithDots(block[inode[j].blocks]) /\ block[inode[j].blocks] \in Block
         /\ j \in Dirs /\ j \in Holders
<1>1. j \in Dirs /\ j \in Holders
  BY DEF Dirs, Holders
<1>2. inode[j].blocks # NoBlock /\ StartsWithDots(block[inode[j].blocks])
  BY <1>1, InvParts DEF Inodes0AndDirs
<1>3. inode[j].blocks \in DataBlock
  BY <1>2, InvParts, Types
<1>4. inode[j].blocks \in block_bitmap
  BY <1>1, <1>2, InvParts DEF BlocksHaveOneOwner
<1> QED
  BY <1>1, <1>2, <1>3, <1>4, InvParts, Types

(* Inode i, free before, is linked into a directory, or is not.            *)
LEMMA Linked ==
  ASSUME AbyssInv, mode = "run", NEW blks \in [DataBlock -> Block],
         blks[RootBlock] = block[RootBlock],
         \A b \in DataBlock \ {RootBlock}, p \in Pos :
           IsHeader(blks[b][p]) /\ blks[b][p].name \in Name => blks[b][p] = block[b][p],
         \A b \in DataBlock \ {RootBlock}, p \in Pos \ {0, 2} :
           IsHeader(blks[b][p]) => blks[b][p].name \in Name,
         NEW n \in Name, NEW i \in FreeInodes,
         \A j \in Inode \ {i} : inode'[j] = inode[j],
         inode'[i].mode # "free", inode'[i].blocks # RootBlock,
         \A j \in Inode : inode'[j].mode = "dir" =>
           inode'[j].blocks \in DataBlock /\ StartsWithDots(blks[inode'[j].blocks]),
         mode' \in {"run", "overrun", "undefined"}, handles' \subseteq handles \cup {i},
         \/ block' = blks
         \/ \E d \in DataBlock : /\ ~Overflows(blks[d], n)
                                 /\ block' = [blks EXCEPT ![d] = Appended(blks[d], n, i)]
  PROVE  RootLives' /\ Inodes0AndDirs' /\ RecordsNameOne'
<1> DEFINE old == block[RootBlock]
           S == Passed(old)
<1>1. /\ inode[Root] = [mode |-> "dir", blocks |-> RootBlock] /\ inode[Root].mode = "dir"
      /\ old \in Block /\ \E end \in Pos : IsList(old, S, end)
      /\ \A j \in Inode \ {Root} : inode[j].blocks # RootBlock
  BY RootRuns
<1>2. /\ i \in Inode /\ i # Root /\ i # 0 /\ inode[i].mode = "free"
      /\ Root \notin handles /\ inode'[Root] = inode[Root]
  <2>1. i \in Inode /\ i # 0 /\ inode[i].mode = "free"
    BY DEF FreeInodes
  <2>2. i # Root
    BY <1>1, <2>1
  <2> QED
    BY <2>1, <2>2, InvParts, Numbers DEF RootLives
<1>3. PICK end \in Pos : IsList(old, S, end)
  BY <1>1
<1>4. \E new \in DataBlock \X Pos :
        /\ \A b \in DataBlock, p \in Pos : IsHeader(block'[b][p]) =>
             \/ <<b, p>> = new /\ block'[b][p].name = n /\ block'[b][p].inode = i
             \/ /\ IsHeader(blks[b][p]) /\ block'[b][p].name = blks[b][p].name
                /\ block'[b][p].inode = blks[b][p].inode
        /\ block'[RootBlock] \in Block
        /\ \E T, stop : /\ stop \in Pos /\ IsList(block'[RootBlock], T, stop)
                        /\ \A p \in T : \/ /\ <<RootBlock, p>> = new
                                           /\ block'[RootBlock][p].inode = i
                                        \/ p \in S
  <2>1. CASE block' = blks
    <3> DEFINE new == <<RootBlock, 0>>
    <3>1. new \in DataBlock \X Pos
      BY Numbers, Places
    <3>2. end \in Pos /\ IsList(block'[RootBlock], S, end) /\ block'[RootBlock] \in Block
      BY <1>1, <1>3, <2>1
    <3> HIDE DEF new, S, old
    <3>3. \E T, stop : /\ stop \in Pos /\ IsList(block'[RootBlock], T, stop)
                       /\ \A p \in T : \/ /\ <<RootBlock, p>> = new
                                          /\ block'[RootBlock][p].inode = i
                                       \/ p \in S
      BY <3>2
    <3> QED
      BY <2>1, <3>1, <3>2, <3>3
  <2>2. ASSUME NEW d \in DataBlock, ~Overflows(blks[d], n),
               block' = [blks EXCEPT ![d] = Appended(blks[d], n, i)]
        PROVE  \E new \in DataBlock \X Pos :
        /\ \A b \in DataBlock, p \in Pos : IsHeader(block'[b][p]) =>
             \/ <<b, p>> = new /\ block'[b][p].name = n /\ block'[b][p].inode = i
             \/ /\ IsHeader(blks[b][p]) /\ block'[b][p].name = blks[b][p].name
                /\ block'[b][p].inode = blks[b][p].inode
        /\ block'[RootBlock] \in Block
        /\ \E T, stop : /\ stop \in Pos /\ IsList(block'[RootBlock], T, stop)
                        /\ \A p \in T : \/ /\ <<RootBlock, p>> = new
                                           /\ block'[RootBlock][p].inode = i
                                        \/ p \in S
    <3> DEFINE at == At(blks[d])
               new == <<d, at>>
    <3>1. /\ blks[d] \in Block /\ at \in Pos /\ Appended(blks[d], n, i) \in Block
          /\ Appended(blks[d], n, i)[at] = Record(n, i, round_up(n))
      <4>1. blks[d] \in Block /\ n \in Name /\ i \in Inode /\ ~Overflows(blks[d], n)
        BY <1>2, <2>2
      <4> QED
        BY <4>1, AppendedEntry
    <3>2. /\ block'[d] = Appended(blks[d], n, i)
          /\ \A b \in DataBlock : b # d => block'[b] = blks[b]
      BY <2>2
    <3>3. new \in DataBlock \X Pos
      BY <3>1
    <3>4. ASSUME NEW b \in DataBlock, NEW p \in Pos, IsHeader(block'[b][p])
          PROVE  \/ <<b, p>> = new /\ block'[b][p].name = n /\ block'[b][p].inode = i
                 \/ /\ IsHeader(blks[b][p]) /\ block'[b][p].name = blks[b][p].name
                    /\ block'[b][p].inode = blks[b][p].inode
      <4>1. CASE b = d
        <5>1. LET e == Appended(blks[d], n, i)
              IN  \/ p = At(blks[d]) /\ e[p].name = n /\ e[p].inode = i
                  \/ /\ IsHeader(blks[d][p]) /\ e[p].name = blks[d][p].name
                     /\ e[p].inode = blks[d][p].inode
          BY <1>2, <2>2, <3>1, <3>2, <3>4, <4>1, AppendedHeaders
        <5> QED
          BY <3>2, <4>1, <5>1
      <4>2. CASE b # d
        BY <3>2, <3>4, <4>2
      <4> QED
        BY <4>1, <4>2
    <3>5. /\ block'[RootBlock] \in Block
          /\ \E T, stop : /\ stop \in Pos /\ IsList(block'[RootBlock], T, stop)
                          /\ \A p \in T : \/ /\ <<RootBlock, p>> = new
                                             /\ block'[RootBlock][p].inode = i
                                          \/ p \in S
      <4>1. CASE d = RootBlock
        <5>1. /\ blks[d] = old /\ old \in Block /\ ~Overflows(old, n)
              /\ block'[RootBlock] = Appended(old, n, i)
          BY <1>1, <2>2, <3>2, <4>1
        <5> HIDE DEF old, S
        <5>2. \E T \in SUBSET (S \cup {At(old)}), stop \in Pos :
                IsList(Appended(old, n, i), T, stop)
          BY <1>2, <1>3, <5>1, AppendedList
        <5>3. PICK T \in SUBSET (S \cup {At(old)}), stop \in Pos :
                IsList(block'[RootBlock], T, stop)
          BY <5>1, <5>2
        <5>4. block'[RootBlock][at].inode = i /\ at = At(old)
          BY <3>1, <4>1, <5>1, RecordFields
        <5>5. \A p \in T : \/ <<RootBlock, p>> = new /\ block'[RootBlock][p].inode = i
                           \/ p \in S
          BY <4>1, <5>3, <5>4
        <5> HIDE DEF new
        <5> QED
          BY <3>1, <3>2, <4>1, <5>3, <5>5
      <4>2. CASE d # RootBlock
        <5>1. block'[RootBlock] = old
          BY <3>2, <4>2, Numbers
        <5> HIDE DEF old, S, new
        <5> QED
          BY <1>1, <1>3, <5>1
      <4> QED
        BY <4>1, <4>2
    <3> HIDE DEF new, S, old
    <3> QED
      BY <3>3, <3>4, <3>5
  <2> HIDE DEF S, old
  <2> QED
    BY <2>1, <2>2
<1>5. PICK new \in DataBlock \X Pos :
        /\ \A b \in DataBlock, p \in Pos : IsHeader(block'[b][p]) =>
             \/ <<b, p>> = new /\ block'[b][p].name = n /\ block'[b][p].inode = i
             \/ /\ IsHeader(blks[b][p]) /\ block'[b][p].name = blks[b][p].name
                /\ block'[b][p].inode = blks[b][p].inode
        /\ block'[RootBlock] \in Block
        /\ \E T, stop : /\ stop \in Pos /\ IsList(block'[RootBlock], T, stop)
                        /\ \A p \in T : \/ /\ <<RootBlock, p>> = new
                                           /\ block'[RootBlock][p].inode = i
                                        \/ p \in S
  <2> HIDE DEF S
  <2> QED
    BY <1>4
<1>6. PICK T, stop : /\ stop \in Pos /\ IsList(block'[RootBlock], T, stop)
                     /\ \A p \in T : \/ <<RootBlock, p>> = new /\ block'[RootBlock][p].inode = i
                                     \/ p \in S
  BY <1>5
<1>7. Passed(block'[RootBlock]) = T
  BY <1>5, <1>6, ListPassed
<1>8. RootLives'
  <2>1. \A j \in Inode \ {Root} : inode'[j].blocks # RootBlock
    BY <1>1
  <2>2. Root \notin handles'
    BY <1>2
  <2>3. \E t \in Pos : IsList(block'[RootBlock], Passed(block'[RootBlock]), t)
    BY <1>6, <1>7
  <2>4. inode'[Root] = [mode |-> "dir", blocks |-> RootBlock] /\ mode' # "rootless"
    BY <1>1, <1>2
  <2> QED
    BY <2>1, <2>2, <2>3, <2>4 DEF RootLives
<1>9. Inodes0AndDirs'
  <2>1. inode'[0].mode = "free"
    BY <1>2, Numbers, InvParts DEF Inodes0AndDirs
  <2>2. ASSUME NEW j \in Dirs'
        PROVE  inode'[j].blocks # NoBlock /\ StartsWithDots(block'[inode'[j].blocks])
    <3> DEFINE k == inode'[j].blocks
    <3>1. k \in DataBlock /\ StartsWithDots(blks[k]) /\ k # NoBlock
      BY <2>2, Numbers DEF Dirs
    <3> HIDE DEF k
    <3>2. ASSUME NEW d \in DataBlock, ~Overflows(blks[d], n),
                 block' = [blks EXCEPT ![d] = Appended(blks[d], n, i)]
          PROVE  StartsWithDots(block'[k])
      <4>1. CASE k = d
        <5>1. StartsWithDots(Appended(blks[d], n, i))
          BY <1>2, <3>1, <3>2, <4>1, AppendedEntries
        <5> QED
          BY <3>1, <3>2, <4>1, <5>1
      <4>2. CASE k # d
        BY <3>1, <3>2, <4>2
      <4> QED
        BY <4>1, <4>2
    <3>3. StartsWithDots(block'[k])
      BY <3>1, <3>2
    <3> QED
      BY <3>1, <3>3 DEF k
  <2>3. ASSUME NEW b \in DataBlock \ {RootBlock}, NEW p \in Pos \ {0, 2}, IsHeader(block'[b][p])
        PROVE  block'[b][p].name \in Name
    BY <1>5, <2>3
  <2> QED
    BY <2>1, <2>2, <2>3 DEF Inodes0AndDirs
<1>10. RecordsNameOne'
  <2>1. ASSUME NEW r \in Records'
        PROVE  \/ r = new /\ Names(r)' = i
               \/ r \in Records /\ Names(r)' = Names(r)
    <3>1. PICK b \in DataBlock, p \in Pos : r = <<b, p>>
      BY <2>1 DEF Records
    <3>2. /\ IsHeader(block'[b][p]) /\ block'[b][p].name \in Name
          /\ b = RootBlock => p \in Passed(block'[RootBlock])
          /\ Names(r)' = block'[b][p].inode
      BY <2>1, <3>1 DEF Records, Names
    <3>3. \/ r = new /\ block'[b][p].inode = i
          \/ /\ IsHeader(blks[b][p]) /\ blks[b][p].name \in Name
             /\ block'[b][p].inode = blks[b][p].inode
      BY <1>5, <3>1, <3>2
    <3> DEFINE was == /\ IsHeader(blks[b][p]) /\ blks[b][p].name \in Name
                      /\ block'[b][p].inode = blks[b][p].inode
    <3>4. CASE was /\ b # RootBlock
      <4>1. blks[b][p] = block[b][p]
        BY <3>4
      <4>2. r \in Records /\ Names(r) = block[b][p].inode
        BY <3>1, <3>4, <4>1, RecordParts
      <4> QED
        BY <3>2, <3>4, <4>1, <4>2
    <3>5. CASE was /\ b = RootBlock /\ p \in S
      <4>1. blks[b][p] = block[b][p] /\ mode # "rootless"
        BY <3>5
      <4>2. r \in Records /\ Names(r) = block[b][p].inode
        BY <3>1, <3>5, <4>1, RecordParts
      <4> QED
        BY <3>2, <3>5, <4>1, <4>2
    <3>6. CASE b = RootBlock /\ p \notin S
      <4>1. r = new /\ block'[b][p].inode = i
        BY <1>6, <1>7, <3>1, <3>2, <3>6
      <4> QED
        BY <3>2, <4>1
    <3>7. CASE r = new /\ block'[b][p].inode = i
      BY <3>2, <3>7
    <3> QED
      BY <3>3, <3>4, <3>5, <3>6, <3>7
  <2>2. \A r \in Records : Names(r) \in Inode
    BY InvParts, NamesInodes
  <2>3. \A r \in Records' : \/ r = new /\ Names(r)' = i
                            \/ r \in Records /\ Names(r)' = Names(r)
    BY <2>1
  <2>4. /\ RecordsNameOne /\ i \in Inode /\ i # Root /\ inode[i].mode = "free"
        /\ inode'[i].mode # "free" /\ \A j \in Inode \ {i} : inode'[j] = inode[j]
    BY <1>2, InvParts
  <2> QED
    BY <2>2, <2>3, <2>4, RecordsMore
<1> QED
  BY <1>8, <1>9, <1>10

--------------------------------------------------------------------------------
(* The invariant, call by call.                                            *)

LEMMA InitInv == Init => AbyssInv
<1> SUFFICES ASSUME Init PROVE AbyssInv
  OBVIOUS
<1> DEFINE bare == Dots(ZeroBlock, Root)
<1>1. /\ inode = [i \in Inode |-> CASE i = Root -> [mode |-> "dir", blocks |-> RootBlock]
                                    [] i = 2    -> [mode |-> "file", blocks |-> NoBlock]
                                    [] OTHER    -> [mode |-> "free", blocks |-> NoBlock]]
      /\ block_bitmap = {RootBlock} /\ free_blocks = NDATA
      /\ \E root \in {bare, Appended(bare, TestFile, 2)} :
           block = [b \in DataBlock |-> IF b = RootBlock THEN root ELSE ZeroBlock]
      /\ handles = {} /\ cwd = << >> /\ mode = "run"
  BY DEF Init, test_abyssfs
<1>2. PICK root \in {bare, Appended(bare, TestFile, 2)} :
        block = [b \in DataBlock |-> IF b = RootBlock THEN root ELSE ZeroBlock]
  BY <1>1
<1>3. /\ ZeroBlock \in Block /\ bare \in Block
      /\ \E end \in Pos : IsList(bare, {0, 2}, end)
      /\ At(bare) = 5 /\ \A n \in Name : ~Overflows(bare, n)
  BY FirstList
<1> HIDE DEF bare
<1>4. 2 \in Inode /\ 2 # Root /\ 2 # 0 /\ TestFile \in Name
  BY Sizes, AbyssAssumption DEF Inode, Root
<1>5. /\ inode \in [Inode -> Node]
      /\ inode[Root] = [mode |-> "dir", blocks |-> RootBlock]
      /\ inode[2] = [mode |-> "file", blocks |-> NoBlock]
      /\ \A i \in Inode : i # Root => inode[i].blocks = NoBlock
      /\ \A i \in Inode : i \notin {Root, 2} => inode[i].mode = "free"
  <2>1. /\ [mode |-> "dir", blocks |-> RootBlock] \in Node
        /\ [mode |-> "file", blocks |-> NoBlock] \in Node
        /\ [mode |-> "free", blocks |-> NoBlock] \in Node
    BY Numbers DEF Node
  <2>2. \A i \in Inode : inode[i] = IF i = Root THEN [mode |-> "dir", blocks |-> RootBlock]
                                    ELSE IF i = 2 THEN [mode |-> "file", blocks |-> NoBlock]
                                    ELSE [mode |-> "free", blocks |-> NoBlock]
    BY <1>1, <1>4
  <2>3. inode \in [Inode -> Node]
    <3>1. \A i \in Inode : inode[i] \in Node
      BY <2>1, <2>2
    <3>2. inode = [i \in Inode |-> inode[i]]
      BY <1>1
    <3> QED
      BY <3>1, <3>2
  <2> QED
    BY <1>4, <2>2, <2>3, Numbers
<1>6. PICK S, end : /\ root \in Block /\ end \in Pos /\ IsList(root, S, end)
                    /\ \A p \in S \ {0, 2} : p = 5 /\ root[p].inode = 2
  <2>1. CASE root = bare
    BY <1>3, <2>1
  <2>2. CASE root = Appended(bare, TestFile, 2)
    <3>1. PICK end \in Pos : IsList(bare, {0, 2}, end)
      BY <1>3
    <3>2. \E T \in SUBSET ({0, 2} \cup {At(bare)}), stop \in Pos : IsList(root, T, stop)
      BY <1>3, <1>4, <2>2, <3>1, AppendedList
    <3>3. PICK T \in SUBSET ({0, 2} \cup {5}), stop \in Pos : IsList(root, T, stop)
      BY <1>3, <3>2
    <3>4. root \in Block /\ root[5] = Record(TestFile, 2, round_up(TestFile))
      BY <1>3, <1>4, <2>2, AppendedEntry
    <3>5. \A p \in T \ {0, 2} : p = 5 /\ root[p].inode = 2
      <4>1. root[5].inode = 2
        BY <3>4, RecordFields
      <4>2. \A p \in T \ {0, 2} : p = 5
        BY <3>3
      <4> QED
        BY <4>1, <4>2
    <3> QED
      BY <3>3, <3>4, <3>5
  <2> QED
    BY <1>2, <2>1, <2>2
<1>7. /\ block \in [DataBlock -> Block] /\ block[RootBlock] = root
      /\ \A b \in DataBlock \ {RootBlock}, p \in Pos : block[b][p] = Zero
  BY <1>2, <1>3, <1>6, Numbers DEF ZeroBlock
<1>8. Passed(root) = S
  BY <1>6, ListPassed
<1>9. TypeOK
  <2>1. block_bitmap \subseteq DataBlock /\ handles \subseteq Inode
    BY <1>1, Numbers
  <2>2. free_blocks \in Int
    BY <1>1, Sizes
  <2>3. cwd \in Cwd
    BY <1>1, AbyssAssumption
  <2> QED
    BY <1>1, <1>5, <1>7, <2>1, <2>2, <2>3 DEF TypeOK
<1>10. FreeCount
  <2>1. /\ FreeBlocks = DataBlock \ {RootBlock} /\ IsFiniteSet(DataBlock)
        /\ RootBlock \in DataBlock
    BY <1>1, Numbers DEF FreeBlocks
  <2>2. Cardinality(DataBlock) = NDATA
    BY Sizes, FS_Interval DEF DataBlock
  <2>3. Cardinality(FreeBlocks) = NDATA - 1
    BY <2>1, <2>2, FS_RemoveElement
  <2> QED
    BY <1>1, <2>3, Sizes DEF FreeCount
<1>11. BlocksHaveOneOwner
  <2>1. \A i \in Inode : inode[i].blocks # NoBlock => i = Root
    BY <1>5
  <2>2. inode[Root].blocks = RootBlock /\ RootBlock \in block_bitmap /\ RootBlock # NoBlock
    BY <1>1, <1>5, Numbers
  <2> QED
    BY <2>1, <2>2 DEF BlocksHaveOneOwner, Holders
<1>12. RootLives
  <2>1. \E t \in Pos : IsList(block[RootBlock], Passed(block[RootBlock]), t)
    BY <1>6, <1>7, <1>8
  <2>2. \A i \in Inode \ {Root} : inode[i].blocks # RootBlock
    BY <1>5, Numbers
  <2> QED
    BY <1>1, <1>5, <2>1, <2>2 DEF RootLives
<1>13. Inodes0AndDirs
  <2>1. inode[0].mode = "free"
    BY <1>4, <1>5, Numbers
  <2>2. \A d \in Dirs : d = Root /\ inode[d].blocks # NoBlock
    BY <1>4, <1>5, Numbers DEF Dirs
  <2>3. \A b \in DataBlock \ {RootBlock}, p \in Pos \ {0, 2} : ~IsHeader(block[b][p])
    BY <1>7, Headers
  <2>4. StartsWithDots(root)
    BY <1>6, ListStarts
  <2>5. StartsWithDots(block[inode[Root].blocks])
    BY <1>5, <1>7, <2>4
  <2> QED
    BY <2>1, <2>2, <2>3, <2>5 DEF Inodes0AndDirs
<1>14. RecordsNameOne
  <2>1. ASSUME NEW r \in Records
        PROVE  r = <<RootBlock, 5>> /\ Names(r) = 2
    <3>1. PICK b \in DataBlock, p \in Pos : r = <<b, p>>
      BY <2>1 DEF Records
    <3>2. /\ IsHeader(block[b][p]) /\ block[b][p].name \in Name
          /\ b = RootBlock => p \in Passed(block[RootBlock])
      BY <2>1, <3>1, RecordParts
    <3>3. b = RootBlock
      BY <1>7, <3>2, Headers
    <3>4. p \in S
      BY <1>7, <1>8, <3>2, <3>3
    <3>5. p \notin {0, 2}
      <4>1. root[0].name = Dot /\ root[2].name = DotDot
        BY <1>6, ListElim, RecordFields
      <4> QED
        BY <1>7, <3>2, <3>3, <4>1, AbyssAssumption
    <3>6. p = 5 /\ block[RootBlock][5].inode = 2
      BY <1>6, <1>7, <3>4, <3>5
    <3> QED
      BY <3>1, <3>3, <3>6, RecordParts
  <2>2. inode[2].mode # "free"
    BY <1>5
  <2> QED
    BY <1>4, <2>1, <2>2 DEF RecordsNameOne
<1> QED
  BY <1>9, <1>10, <1>11, <1>12, <1>13, <1>14 DEF AbyssInv

(* cd, open: neither inodes nor blocks change.                             *)
LEMMA Resting ==
  ASSUME AbyssInv, UNCHANGED <<inode, block_bitmap, free_blocks, block>>, cwd' \in Cwd,
         mode' = mode \/ (mode = "run" /\ mode' = "undefined"),
         handles' \subseteq handles \cup {0}
  PROVE  AbyssInv'
<1>1. TypeOK' /\ FreeCount' /\ BlocksHaveOneOwner'
  <2>1. TypeOK'
    BY InvParts, Numbers DEF TypeOK
  <2>2. FreeCount'
    BY InvParts DEF FreeCount, FreeBlocks
  <2>3. BlocksHaveOneOwner'
    BY InvParts DEF BlocksHaveOneOwner, Holders
  <2> QED
    BY <2>1, <2>2, <2>3
<1>2. RootLives' /\ Inodes0AndDirs'
  <2>1. RootLives'
    BY InvParts, Numbers DEF RootLives
  <2>2. Inodes0AndDirs'
    BY InvParts DEF Inodes0AndDirs, Dirs
  <2> QED
    BY <2>1, <2>2
<1>3. RecordsNameOne'
  <2>1. Records' = Records /\ \A r \in Records' : Names(r)' = Names(r)
    BY DEF Records, Names
  <2> QED
    BY <2>1, InvParts DEF RecordsNameOne
<1> QED
  BY <1>1, <1>2, <1>3 DEF AbyssInv

LEMMA CdInv ==
  ASSUME AbyssInv, NEW path \in Cwd, cmd_cd(path)
  PROVE  AbyssInv'
BY Resting DEF cmd_cd

LEMMA OpenInv ==
  ASSUME AbyssInv, abyssfs_open
  PROVE  AbyssInv'
BY Resting, InvParts, Types DEF abyssfs_open

(* create: an inode, no block, an entry in the working directory.          *)
LEMMA CreateInv ==
  ASSUME AbyssInv, NEW n \in Name, abyssfs_create(n)
  PROVE  AbyssInv'
<1>1. mode = "run" /\ UNCHANGED <<block_bitmap, free_blocks, cwd>> /\ TypeOK
  BY InvParts DEF abyssfs_create
<1>2. CASE UNCHANGED <<inode, block, handles, mode>>
  BY <1>1, <1>2, Resting, InvParts, Types
<1>3. ASSUME NEW i \in Inode, FirstOf(i, FreeInodes), inode' = Allocated(i),
             create_file(Allocated(i), block, n, i), handles' \subseteq handles \cup {i}
      PROVE  AbyssInv'
  <2>1. i \in FreeInodes
    BY <1>3 DEF FirstOf
  <2>2. [mode |-> "file", blocks |-> NoBlock] \in Node
    BY DEF Node
  <2>3. /\ inode' \in [Inode -> Node] /\ \A j \in Inode \ {i} : inode'[j] = inode[j]
        /\ inode'[i] = [mode |-> "file", blocks |-> NoBlock]
    BY <1>1, <1>3, <2>2, Types DEF Allocated
  <2>4. inode'[i].mode = "file" /\ inode'[i].blocks = NoBlock
    BY <2>3
  <2>5. /\ block' \in [DataBlock -> Block] /\ mode' \in {mode, "overrun", "undefined"}
        /\ \/ block' = block
           \/ \E d \in DataBlock : /\ ~Overflows(block[d], n)
                                   /\ block' = [block EXCEPT ![d] = Appended(block[d], n, i)]
    BY <1>1, <1>3, <2>3, Types, CreateFile
  <2>6. RootLives' /\ Inodes0AndDirs' /\ RecordsNameOne'
    <3>1. \A b \in DataBlock \ {RootBlock}, p \in Pos \ {0, 2} :
            IsHeader(block[b][p]) => block[b][p].name \in Name
      BY InvParts DEF Inodes0AndDirs
    <3>2. mode' \in {"run", "overrun", "undefined"} /\ inode'[i].mode # "free"
      BY <1>1, <2>4, <2>5
    <3>3. inode'[i].blocks # RootBlock /\ inode'[i].mode # "dir"
      BY <2>4, Numbers
    <3>4. block \in [DataBlock -> Block]
      BY <1>1, Types
    <3>5. \A j \in Inode : inode'[j].mode = "dir" =>
            inode'[j].blocks \in DataBlock /\ StartsWithDots(block[inode'[j].blocks])
      BY <1>1, <2>3, <3>3, DirBlocks
    <3> QED
      BY <1>1, <1>3, <2>1, <2>3, <2>5, <3>1, <3>2, <3>3, <3>4, <3>5, Linked
  <2>7. TypeOK' /\ FreeCount' /\ BlocksHaveOneOwner'
    <3>1. TypeOK'
      BY <1>1, <1>3, <2>3, <2>5 DEF TypeOK
    <3>2. FreeCount'
      BY <1>1, InvParts DEF FreeCount, FreeBlocks
    <3>3. BlocksHaveOneOwner'
      BY <1>1, <2>3, <2>4, InvParts, OwnerAdded
    <3> QED
      BY <3>1, <3>2, <3>3
  <2> QED
    BY <2>6, <2>7 DEF AbyssInv
<1> QED
  BY <1>2, <1>3 DEF abyssfs_create

(* mkdir: an inode, a block with the two dots, and the entry.              *)
LEMMA MkdirInv ==
  ASSUME AbyssInv, NEW n \in Name, abyssfs_mkdir(n)
  PROVE  AbyssInv'
<1>1. mode = "run" /\ UNCHANGED <<handles, cwd>> /\ TypeOK
  BY InvParts DEF abyssfs_mkdir
<1>2. CASE UNCHANGED <<inode, block_bitmap, free_blocks, block, mode>>
  BY <1>1, <1>2, Resting, Types
<1>3. ASSUME NEW i \in Inode, FirstOf(i, FreeInodes), inode' = Allocated(i),
             UNCHANGED <<block_bitmap, free_blocks, block, mode>>
      PROVE  AbyssInv'
  <2>1. i \in FreeInodes
    BY <1>3 DEF FirstOf
  <2>2. [mode |-> "file", blocks |-> NoBlock] \in Node
    BY DEF Node
  <2>3. /\ inode' \in [Inode -> Node] /\ \A j \in Inode \ {i} : inode'[j] = inode[j]
        /\ inode'[i] = [mode |-> "file", blocks |-> NoBlock]
    BY <1>1, <1>3, <2>2, Types DEF Allocated
  <2>4. inode'[i].mode = "file" /\ inode'[i].blocks = NoBlock
    BY <2>3
  <2>5. RootLives' /\ Inodes0AndDirs' /\ RecordsNameOne'
    <3>1. \A b \in DataBlock \ {RootBlock}, p \in Pos \ {0, 2} :
            IsHeader(block[b][p]) => block[b][p].name \in Name
      BY InvParts DEF Inodes0AndDirs
    <3>2. mode' \in {"run", "overrun", "undefined"} /\ inode'[i].mode # "free"
      BY <1>1, <1>3, <2>4
    <3>3. inode'[i].blocks # RootBlock /\ inode'[i].mode # "dir"
      BY <2>4, Numbers
    <3>4. block \in [DataBlock -> Block] /\ block' = block /\ handles' \subseteq handles \cup {i}
      BY <1>1, <1>3, Types
    <3>5. \A j \in Inode : inode'[j].mode = "dir" =>
            inode'[j].blocks \in DataBlock /\ StartsWithDots(block[inode'[j].blocks])
      BY <1>1, <2>3, <3>3, DirBlocks
    <3> QED
      BY <1>1, <1>3, <2>1, <2>3, <3>1, <3>2, <3>3, <3>4, <3>5, Linked
  <2>6. TypeOK' /\ FreeCount' /\ BlocksHaveOneOwner'
    <3>1. TypeOK'
      BY <1>1, <1>3, <2>3 DEF TypeOK
    <3>2. FreeCount'
      BY <1>3, InvParts DEF FreeCount, FreeBlocks
    <3>3. BlocksHaveOneOwner'
      BY <1>1, <1>3, <2>3, <2>4, InvParts, OwnerAdded
    <3> QED
      BY <3>1, <3>2, <3>3
  <2> QED
    BY <2>5, <2>6 DEF AbyssInv
<1>4. ASSUME NEW i \in Inode, FirstOf(i, FreeInodes), NEW b \in DataBlock,
             NEW nodes, nodes = [inode EXCEPT ![i] = [mode |-> "dir", blocks |-> b]],
             alloc_block(b), inode' = nodes, create_file(nodes, WithDots(i, b), n, i)
      PROVE  AbyssInv'
  <2> DEFINE blks == WithDots(i, b)
  <2>1. i \in FreeInodes
    BY <1>4 DEF FirstOf
  <2>2. [mode |-> "dir", blocks |-> b] \in Node
    BY DEF Node
  <2>3. /\ inode' \in [Inode -> Node] /\ \A j \in Inode \ {i} : inode'[j] = inode[j]
        /\ inode'[i] = [mode |-> "dir", blocks |-> b]
    BY <1>1, <1>4, <2>2, Types
  <2>4. inode'[i].mode = "dir" /\ inode'[i].blocks = b
    BY <2>3
  <2>5. /\ b \notin block_bitmap /\ block_bitmap' = block_bitmap \cup {b}
        /\ block_bitmap' \subseteq DataBlock /\ free_blocks' \in Int /\ FreeCount'
    BY <1>1, <1>4, InvParts, BlockTaken
  <2>6. b # RootBlock
    BY <1>1, <2>5, RootRuns
  <2>7. /\ block[b] \in Block /\ Dots(block[b], i) \in Block
        /\ Dots(block[b], i)[0] = Record(Dot, i, 2)
        /\ Dots(block[b], i)[2] = Record(DotDot, Root, (BLOCK - 2) % REC)
        /\ \A q \in Pos \ {0, 2} : Dots(block[b], i)[q] = IF q < 5 THEN Other ELSE block[b][q]
        /\ StartsWithDots(Dots(block[b], i))
    BY <1>1, Types, DotsWords
  <2>8. /\ blks \in [DataBlock -> Block] /\ blks[b] = Dots(block[b], i)
        /\ \A d \in DataBlock : d # b => blks[d] = block[d]
    BY <1>1, <2>7, Types DEF WithDots
  <2> HIDE DEF blks
  <2>9. ASSUME NEW d \in DataBlock \ {RootBlock}, NEW p \in Pos, IsHeader(blks[d][p])
        PROVE  /\ blks[d][p].name \in Name => blks[d][p] = block[d][p]
               /\ p \notin {0, 2} => blks[d][p].name \in Name
    <3>1. p \notin {0, 2} /\ IsHeader(block[d][p]) => block[d][p].name \in Name
      BY InvParts DEF Inodes0AndDirs
    <3>2. CASE d # b
      BY <2>8, <2>9, <3>1, <3>2
    <3>3. CASE d = b /\ p \in {0, 2}
      <4>1. blks[d][p].name \in {Dot, DotDot}
        BY <2>7, <2>8, <3>3, RecordFields
      <4> QED
        BY <3>3, <4>1, AbyssAssumption
    <3>4. CASE d = b /\ p \notin {0, 2}
      <4>1. blks[d][p] = Other \/ blks[d][p] = block[d][p]
        BY <2>7, <2>8, <3>4
      <4> QED
        BY <2>9, <3>1, <3>4, <4>1, Headers
    <3> QED
      BY <3>2, <3>3, <3>4
  <2>10. /\ block' \in [DataBlock -> Block] /\ mode' \in {mode, "overrun", "undefined"}
         /\ \/ block' = blks
            \/ \E d \in DataBlock : /\ ~Overflows(blks[d], n)
                                    /\ block' = [blks EXCEPT ![d] = Appended(blks[d], n, i)]
    <3>1. create_file(nodes, blks, n, i) /\ nodes \in [Inode -> Node] /\ cwd \in Cwd
      BY <1>1, <1>4, <2>3, Types DEF blks
    <3> QED
      BY <2>8, <3>1, CreateFile
  <2>11. RootLives' /\ Inodes0AndDirs' /\ RecordsNameOne'
    <3>1. /\ blks[RootBlock] = block[RootBlock] /\ handles' \subseteq handles \cup {i}
          /\ mode' \in {"run", "overrun", "undefined"}
      BY <1>1, <2>6, <2>8, <2>10, Numbers
    <3>2. inode'[i].mode # "free" /\ inode'[i].blocks # RootBlock
      BY <2>4, <2>6
    <3>3. /\ \A d \in DataBlock \ {RootBlock}, p \in Pos :
               IsHeader(blks[d][p]) /\ blks[d][p].name \in Name => blks[d][p] = block[d][p]
          /\ \A d \in DataBlock \ {RootBlock}, p \in Pos \ {0, 2} :
               IsHeader(blks[d][p]) => blks[d][p].name \in Name
      BY <2>9
    <3>4. ASSUME NEW j \in Inode, inode'[j].mode = "dir"
          PROVE  inode'[j].blocks \in DataBlock /\ StartsWithDots(blks[inode'[j].blocks])
      <4>1. CASE j = i
        BY <2>4, <2>7, <2>8, <4>1
      <4>2. CASE j # i
        <5>1. inode'[j] = inode[j] /\ inode[j].mode = "dir"
          BY <2>3, <3>4, <4>2
        <5>2. /\ inode[j].blocks \in DataBlock /\ inode[j].blocks # b
              /\ StartsWithDots(block[inode[j].blocks])
          BY <1>1, <2>5, <5>1, DirBlocks
        <5> QED
          BY <2>8, <5>1, <5>2
      <4> QED
        BY <4>1, <4>2
    <3> QED
      BY <1>1, <2>1, <2>3, <2>8, <2>10, <3>1, <3>2, <3>3, <3>4, Linked
  <2>12. TypeOK'
    BY <1>1, <2>3, <2>5, <2>10 DEF TypeOK
  <2>13. BlocksHaveOneOwner'
    BY <1>1, <2>3, <2>4, <2>5, InvParts, OwnerAdded
  <2> QED
    BY <2>5, <2>11, <2>12, <2>13 DEF AbyssInv
<1> QED
  BY <1>2, <1>3, <1>4 DEF abyssfs_mkdir

(* Bytes over a block that is not the root's: records can only be lost.    *)
LEMMA BytesWritten ==
  ASSUME AbyssInv, mode = "run", NEW d \in DataBlock, d # RootBlock, NEW words,
         block' = [block EXCEPT ![d] = WithBytes(@, words)],
         \A j \in Inode : inode'[j].mode = inode[j].mode,
         inode'[Root] = inode[Root], \A j \in Inode \ {Root} : inode'[j].blocks # RootBlock,
         \A j \in Inode : inode[j].mode = "dir" =>
           inode'[j].blocks = inode[j].blocks /\ (mode' = "run" => inode[j].blocks # d),
         mode' \in {"run", "undefined"}, handles' = handles
  PROVE  /\ block' \in [DataBlock -> Block]
         /\ RootLives' /\ Inodes0AndDirs' /\ RecordsNameOne'
<1>1. TypeOK /\ block \in [DataBlock -> Block] /\ block[d] \in Block
  BY InvParts, Types
<1>2. /\ WithBytes(block[d], words) \in Block
      /\ \A q \in Pos : IsHeader(WithBytes(block[d], words)[q]) =>
           WithBytes(block[d], words)[q] = block[d][q]
  BY <1>1, BytesTyped
<1>3. /\ block' \in [DataBlock -> Block] /\ block'[d] = WithBytes(block[d], words)
      /\ \A b \in DataBlock : b # d => block'[b] = block[b]
  BY <1>1, <1>2
<1>4. \A b \in DataBlock, p \in Pos : IsHeader(block'[b][p]) => block'[b][p] = block[b][p]
  BY <1>2, <1>3
<1>5. block'[RootBlock] = block[RootBlock]
  BY <1>3, Numbers
<1>6. RootLives'
  BY <1>5, InvParts DEF RootLives
<1>7. Inodes0AndDirs'
  <2>1. inode'[0].mode = "free"
    BY InvParts, Numbers DEF Inodes0AndDirs
  <2>2. ASSUME NEW j \in Dirs'
        PROVE  /\ inode'[j].blocks # NoBlock
               /\ mode' = "run" => StartsWithDots(block'[inode'[j].blocks])
    <3>1. j \in Inode /\ inode[j].mode = "dir"
      BY <2>2 DEF Dirs
    <3>2. /\ inode[j].blocks \in DataBlock /\ inode[j].blocks # NoBlock
          /\ StartsWithDots(block[inode[j].blocks]) /\ inode'[j].blocks = inode[j].blocks
      BY <3>1, DirBlocks, Numbers
    <3> QED
      BY <1>3, <3>1, <3>2
  <2>3. \A b \in DataBlock \ {RootBlock}, p \in Pos \ {0, 2} :
          IsHeader(block'[b][p]) => block'[b][p].name \in Name
    BY <1>4, InvParts DEF Inodes0AndDirs
  <2> QED
    BY <2>1, <2>2, <2>3 DEF Inodes0AndDirs
<1>8. RecordsNameOne'
  <2>1. ASSUME NEW r \in Records'
        PROVE  r \in Records /\ Names(r)' = Names(r)
    <3>1. PICK b \in DataBlock, p \in Pos : r = <<b, p>>
      BY <2>1 DEF Records
    <3>2. /\ IsHeader(block'[b][p]) /\ block'[b][p].name \in Name
          /\ b = RootBlock => p \in Passed(block'[RootBlock])
          /\ Names(r)' = block'[b][p].inode
      BY <2>1, <3>1 DEF Records, Names
    <3>3. block'[b][p] = block[b][p]
      BY <1>4, <3>2
    <3>4. <<b, p>> \in Records
      BY <1>5, <3>2, <3>3, RecordParts
    <3> QED
      BY <3>1, <3>2, <3>3, <3>4, RecordParts
  <2>2. \A r \in Records : Names(r) \in Inode /\ inode[Names(r)].mode # "free"
    BY <1>1, InvParts, NamesInodes DEF RecordsNameOne
  <2>3. \A r \in Records' : inode'[Names(r)].mode # "free"
    BY <2>1, <2>2
  <2>4. RecordsNameOne /\ \A r \in Records' : r \in Records /\ Names(r)' = Names(r)
    BY <2>1, InvParts
  <2> QED
    BY <2>3, <2>4, RecordsFewer
<1> QED
  BY <1>3, <1>6, <1>7, <1>8

(* write: through a handle on an inode that may be free or another's now.  *)
LEMMA WriteInv ==
  ASSUME AbyssInv, NEW i \in Inode, abyssfs_write(i)
  PROVE  AbyssInv'
<1>1. /\ mode = "run" /\ i \in handles /\ UNCHANGED <<handles, cwd>> /\ TypeOK
      /\ mode' \in {"run", "undefined"}
  BY InvParts DEF abyssfs_write
<1>2. i # Root /\ inode[i].blocks # RootBlock
  BY <1>1, InvParts DEF RootLives
<1>3. ASSUME NEW words, inode[i].blocks # NoBlock,
             block' = [block EXCEPT ![inode[i].blocks] = WithBytes(@, words)],
             UNCHANGED <<inode, block_bitmap, free_blocks>>
      PROVE  AbyssInv'
  <2>1. inode[i].blocks \in DataBlock
    BY <1>1, <1>3, Types
  <2>2. \A j \in Inode \ {Root} : inode'[j].blocks # RootBlock
    BY <1>1, <1>3, RootRuns
  <2>2a. \A j \in Inode : inode[j].mode = "dir" =>
           /\ inode'[j].blocks = inode[j].blocks
           /\ mode' = "run" => inode[j].blocks # inode[i].blocks
    BY <1>3 DEF abyssfs_write
  <2>3. block' \in [DataBlock -> Block] /\ RootLives' /\ Inodes0AndDirs' /\ RecordsNameOne'
    BY <1>1, <1>2, <1>3, <2>1, <2>2, <2>2a, BytesWritten
  <2>4. TypeOK'
    BY <1>1, <1>3, <2>3 DEF TypeOK
  <2>5. FreeCount' /\ BlocksHaveOneOwner'
    BY <1>3, InvParts DEF FreeCount, FreeBlocks, BlocksHaveOneOwner, Holders
  <2> QED
    BY <2>3, <2>4, <2>5 DEF AbyssInv
<1>4. ASSUME NEW words, inode[i].blocks = NoBlock, NEW b \in DataBlock, alloc_block(b),
             inode' = [inode EXCEPT ![i].blocks = b],
             block' = [block EXCEPT ![b] = WithBytes(@, words)]
      PROVE  AbyssInv'
  <2>1. /\ b \notin block_bitmap /\ block_bitmap' = block_bitmap \cup {b}
        /\ block_bitmap' \subseteq DataBlock /\ free_blocks' \in Int /\ FreeCount'
    BY <1>1, <1>4, InvParts, BlockTaken
  <2>2. b # RootBlock
    BY <1>1, <2>1, RootRuns
  <2>3. /\ inode' \in [Inode -> Node] /\ \A j \in Inode \ {i} : inode'[j] = inode[j]
        /\ inode'[i].mode = inode[i].mode /\ inode'[i].blocks = b
    <3>1. inode[i] \in Node /\ inode \in [Inode -> Node]
      BY <1>1, Types
    <3>2. [inode[i] EXCEPT !.blocks = b] \in Node
      BY <3>1 DEF Node
    <3>3. inode'[i] = [inode[i] EXCEPT !.blocks = b]
      BY <1>4, <3>1
    <3>4. inode'[i].mode = inode[i].mode /\ inode'[i].blocks = b
      BY <3>1, <3>3 DEF Node
    <3> QED
      BY <1>4, <3>1, <3>2, <3>3, <3>4
  <2>4. /\ \A j \in Inode : inode'[j].mode = inode[j].mode
        /\ inode'[Root] = inode[Root]
        /\ \A j \in Inode \ {Root} : inode'[j].blocks # RootBlock
        /\ \A j \in Inode : inode[j].mode = "dir" =>
             inode'[j].blocks = inode[j].blocks /\ inode[j].blocks # b
    <3>0. \A j \in Inode : inode[j].mode = "dir" =>
            j # i /\ inode'[j].blocks = inode[j].blocks /\ inode[j].blocks # b
      BY <1>1, <1>4, <2>1, <2>3, DirBlocks, Numbers
    <3>1. inode'[Root] = inode[Root]
      BY <1>2, <2>3, Numbers
    <3>2. \A j \in Inode \ {Root} : inode'[j].blocks # RootBlock
      BY <1>1, <2>2, <2>3, RootRuns
    <3> QED
      BY <1>4, <2>3, <3>0, <3>1, <3>2
  <2>5. block' \in [DataBlock -> Block] /\ RootLives' /\ Inodes0AndDirs' /\ RecordsNameOne'
    BY <1>1, <1>4, <2>2, <2>4, BytesWritten
  <2>6. TypeOK'
    BY <1>1, <2>1, <2>3, <2>5 DEF TypeOK
  <2>7. BlocksHaveOneOwner'
    BY <1>1, <2>1, <2>3, InvParts, OwnerAdded
  <2> QED
    BY <2>1, <2>5, <2>6, <2>7 DEF AbyssInv
<1>5. CASE UNCHANGED <<inode, block_bitmap, free_blocks, block>>
  BY <1>1, <1>5, Resting, Types
<1>6. write_to_blocks(i)
  BY DEF abyssfs_write
<1> QED
  BY <1>3, <1>4, <1>5, <1>6 DEF write_to_blocks

(* Freed inodes.                                                           *)
LEMMA InodesFreed ==
  ASSUME TypeOK, NEW G \in SUBSET Inode,
         inode' = [j \in Inode |-> IF j \in G THEN [inode[j] EXCEPT !.mode = "free"]
                                   ELSE inode[j]]
  PROVE  /\ inode' \in [Inode -> Node]
         /\ \A j \in Inode : inode'[j].blocks = inode[j].blocks
         /\ \A j \in Inode : IF j \in G THEN inode'[j].mode = "free"
                             ELSE inode'[j] = inode[j] /\ inode'[j].mode = inode[j].mode
<1>1. inode \in [Inode -> Node]
  BY Types
<1>2. ASSUME NEW j \in Inode
      PROVE  /\ inode'[j] \in Node /\ inode'[j].blocks = inode[j].blocks
             /\ IF j \in G THEN inode'[j].mode = "free"
                ELSE inode'[j] = inode[j] /\ inode'[j].mode = inode[j].mode
  <2>1. inode[j] \in Node
    BY <1>1
  <2>2. [inode[j] EXCEPT !.mode = "free"] \in Node
    BY <2>1 DEF Node
  <2>3. inode'[j] = IF j \in G THEN [inode[j] EXCEPT !.mode = "free"] ELSE inode[j]
    OBVIOUS
  <2> QED
    BY <2>1, <2>2, <2>3 DEF Node
<1>3. inode' = [j \in Inode |-> inode'[j]]
  OBVIOUS
<1>4. \A j \in Inode : inode'[j] \in Node
  BY <1>2
<1>5. inode' \in [Inode -> Node]
  BY <1>3, <1>4
<1> QED
  BY <1>2, <1>5

(* What a step that frees the inodes G and writes to the root only leaves  *)
(* as it is.                                                               *)
LEMMA RootShrinks ==
  ASSUME AbyssInv, mode = "run", NEW G \in SUBSET Holders, 0 \notin G, NEW new \in Block,
         inode' = [j \in Inode |-> IF j \in G THEN [inode[j] EXCEPT !.mode = "free"]
                                   ELSE inode[j]],
         block' = [block EXCEPT ![RootBlock] = new],
         block_bitmap' = block_bitmap \ {inode[j].blocks : j \in G},
         mode' \in {"run", "undefined", "rootless"}, UNCHANGED <<handles, cwd>>,
         mode' = "run" => StartsWithDots(new)
  PROVE  /\ block_bitmap' \subseteq DataBlock /\ free_blocks' \in Int => TypeOK'
         /\ BlocksHaveOneOwner' /\ Inodes0AndDirs'
         /\ block'[RootBlock] = new
         /\ \A b \in DataBlock \ {RootBlock} : block'[b] = block[b]
         /\ \A j \in Inode \ {Root} : inode'[j].blocks # RootBlock
         /\ \A j \in Inode \ G : inode'[j] = inode[j]
         /\ \A j \in G : inode'[j].mode = "free"
         /\ Root \notin handles'
<1>1. TypeOK /\ G \in SUBSET Inode /\ inode[0].mode = "free" /\ BlocksHaveOneOwner
  BY InvParts DEF Holders, Inodes0AndDirs
<1>2. /\ inode' \in [Inode -> Node]
      /\ \A j \in Inode : inode'[j].blocks = inode[j].blocks
      /\ \A j \in Inode : IF j \in G THEN inode'[j].mode = "free"
                          ELSE inode'[j] = inode[j] /\ inode'[j].mode = inode[j].mode
  BY <1>1, InodesFreed
<1>3. /\ block' \in [DataBlock -> Block] /\ block'[RootBlock] = new
      /\ \A b \in DataBlock \ {RootBlock} : block'[b] = block[b]
  BY <1>1, Types, Numbers
<1>4. block_bitmap' \subseteq DataBlock /\ free_blocks' \in Int => TypeOK'
  BY <1>1, <1>2, <1>3 DEF TypeOK
<1>5. BlocksHaveOneOwner'
  <2>1. \A j \in Inode : IF j \in G THEN inode'[j].mode = "free"
                         ELSE inode'[j].mode = inode[j].mode
    BY <1>2
  <2> QED
    BY <1>1, <1>2, <2>1, OwnersFreed
<1>6. Inodes0AndDirs'
  <2>1. inode'[0].mode = "free"
    BY <1>1, <1>2, Numbers
  <2>2. \A j \in Dirs' : j \in Dirs
    BY <1>2 DEF Dirs
  <2>3. ASSUME NEW j \in Dirs'
        PROVE  /\ inode'[j].blocks # NoBlock
               /\ mode' = "run" => StartsWithDots(block'[inode'[j].blocks])
    <3>1. j \in Inode /\ inode[j].mode = "dir"
      BY <2>2 DEF Dirs
    <3>2. /\ inode[j].blocks \in DataBlock /\ inode[j].blocks # NoBlock
          /\ StartsWithDots(block[inode[j].blocks]) /\ inode'[j].blocks = inode[j].blocks
      BY <1>2, <3>1, DirBlocks, Numbers
    <3> QED
      BY <1>3, <3>2
  <2>4. \A b \in DataBlock \ {RootBlock}, p \in Pos \ {0, 2} :
          IsHeader(block'[b][p]) => block'[b][p].name \in Name
    BY <1>3, InvParts DEF Inodes0AndDirs
  <2> QED
    BY <2>1, <2>3, <2>4 DEF Inodes0AndDirs
<1>7. \A j \in Inode \ {Root} : inode'[j].blocks # RootBlock
  BY <1>2, RootRuns
<1>8. Root \notin handles'
  BY InvParts DEF RootLives
<1> QED
  BY <1>1, <1>2, <1>3, <1>4, <1>5, <1>6, <1>7, <1>8

(* What an entry of the root names.                                        *)
LEMMA RootEntries ==
  ASSUME AbyssInv, mode = "run", NEW p \in Passed(block[RootBlock])
  PROVE  /\ p \in Pos /\ IsHeader(block[RootBlock][p])
         /\ p \in {0, 2} => /\ block[RootBlock][p].inode = Root
                            /\ block[RootBlock][p].name \notin Name
         /\ p \notin {0, 2} => /\ block[RootBlock][p].name \in Name
                               /\ <<RootBlock, p>> \in Records
                               /\ Names(<<RootBlock, p>>) = block[RootBlock][p].inode
                               /\ block[RootBlock][p].inode # Root
         /\ block[RootBlock][p].inode \in Holders /\ block[RootBlock][p].inode # 0
<1> DEFINE b == block[RootBlock]
<1>1. b \in Block /\ \E end \in Pos : IsList(b, Passed(b), end)
  BY RootRuns
<1> HIDE DEF b
<1>2. p \in Passed(b)
  BY DEF b
<1>3. p \in Pos /\ IsHeader(b[p]) /\ b[p].inode \in Inode
  BY <1>1, <1>2, PassedEntries, BlockWords DEF IsEntry
<1>4. /\ b[0].inode = Root /\ b[0].name = Dot /\ b[2].inode = Root /\ b[2].name = DotDot
      /\ p \notin {0, 2} => b[p].name \in Name
  BY <1>1, <1>2, ListElim, RecordFields
<1>5. CASE p \in {0, 2}
  <2>1. Root \in Holders /\ Root # 0
    BY RootRuns, Numbers DEF Holders
  <2>2. b[p].inode = Root /\ b[p].name \notin Name
    BY <1>4, <1>5, AbyssAssumption
  <2> QED
    BY <1>3, <1>5, <2>1, <2>2 DEF b
<1>6. CASE p \notin {0, 2}
  <2>1. <<RootBlock, p>> \in Records /\ Names(<<RootBlock, p>>) = b[p].inode
    BY <1>2, <1>3, <1>6, RootRecords, RecordParts, Numbers DEF b
  <2>2. inode[b[p].inode].mode # "free" /\ b[p].inode # Root
    BY <2>1, InvParts DEF RecordsNameOne
  <2>3. b[p].inode \in Holders /\ b[p].inode # 0
    BY <1>3, <2>2, InvParts DEF Holders, Inodes0AndDirs
  <2> QED
    BY <1>3, <1>4, <1>6, <2>1, <2>2, <2>3 DEF b
<1> QED
  BY <1>5, <1>6

(* unlink of the entry at p of the root.                                   *)
LEMMA EntryUnlinked ==
  ASSUME AbyssInv, mode = "run", NEW p \in Passed(block[RootBlock]), NEW i,
         i = block[RootBlock][p].inode, inode' = Freed(i),
         block' = [block EXCEPT ![RootBlock] = Without(@, p)],
         free_block(i), mode' = IF i = Root THEN "rootless" ELSE mode,
         UNCHANGED <<handles, cwd>>
  PROVE  AbyssInv'
<1> DEFINE old == block[RootBlock]
           S == Passed(old)
           G == {i}
<1>1. TypeOK /\ FreeCount /\ BlocksHaveOneOwner /\ RecordsNameOne /\ old \in Block
  BY InvParts, RootRuns
<1>2. PICK end \in Pos : IsList(old, S, end)
  BY RootRuns
<1>3. /\ p \in Pos /\ IsHeader(old[p]) /\ i \in Holders /\ i # 0 /\ i \in Inode
      /\ p \in {0, 2} => i = Root
      /\ p \notin {0, 2} => /\ <<RootBlock, p>> \in Records /\ i # Root
                            /\ Names(<<RootBlock, p>>) = i
  <2>1. i \in Holders => i \in Inode
    BY DEF Holders
  <2> QED
    BY <2>1, RootEntries
<1>4. Without(old, p) \in Block
  BY <1>1, <1>3, WithoutTyped
<1>5. inode[i].blocks # NoBlock => inode[i].blocks \in block_bitmap
  BY <1>1, <1>3 DEF BlocksHaveOneOwner
<1>6. /\ block_bitmap' = block_bitmap \ {inode[i].blocks}
      /\ block_bitmap' \subseteq DataBlock /\ free_blocks' \in Int /\ FreeCount'
  BY <1>1, <1>3, <1>5, BlockFreed
<1>6a. mode' = "run" => StartsWithDots(Without(old, p))
  <2> SUFFICES ASSUME mode' = "run" PROVE StartsWithDots(Without(old, p))
    OBVIOUS
  <2>1. p \notin {0, 2}
    BY <1>3
  <2>2. \E T : \E stop \in Pos : IsList(Without(old, p), T, stop)
    BY <1>1, <1>2, <2>1, WithoutList
  <2> QED
    BY <1>4, <2>2, ListStarts
<1>7. /\ TypeOK' /\ BlocksHaveOneOwner' /\ Inodes0AndDirs'
      /\ block'[RootBlock] = Without(old, p)
      /\ \A b \in DataBlock \ {RootBlock} : block'[b] = block[b]
      /\ \A j \in Inode \ {Root} : inode'[j].blocks # RootBlock
      /\ \A j \in Inode \ G : inode'[j] = inode[j]
      /\ inode'[i].mode = "free" /\ Root \notin handles'
  <2>1. G \in SUBSET Holders /\ 0 \notin G
    BY <1>3
  <2>2. inode' = [j \in Inode |-> IF j \in G THEN [inode[j] EXCEPT !.mode = "free"]
                                  ELSE inode[j]]
    <3>1. inode \in [Inode -> Node]
      BY <1>1, Types
    <3> QED
      BY <1>3, <3>1 DEF Freed
  <2>3. {inode[j].blocks : j \in G} = {inode[i].blocks}
    OBVIOUS
  <2>4. mode' \in {"run", "undefined", "rootless"} /\ i \in G
    OBVIOUS
  <2> HIDE DEF G
  <2> QED
    BY <1>4, <1>6, <1>6a, <2>1, <2>2, <2>3, <2>4, RootShrinks
<1>8. \A r \in Records : Names(r) \in Inode /\ inode[Names(r)].mode # "free" /\ Names(r) # Root
  BY <1>1, NamesInodes DEF RecordsNameOne
<1>9. CASE p \in {0, 2}
  <2>1. i = Root /\ mode' = "rootless"
    BY <1>3, <1>9
  <2>2. RootLives'
    BY <1>7, <2>1 DEF RootLives
  <2>3. RecordsNameOne'
    <3>1. ASSUME NEW r \in Records'
          PROVE  r \in Records /\ Names(r)' = Names(r) /\ inode'[Names(r)].mode # "free"
      <4>1. PICK b \in DataBlock, q \in Pos : r = <<b, q>>
        BY <3>1 DEF Records
      <4>2. /\ IsHeader(block'[b][q]) /\ block'[b][q].name \in Name /\ b # RootBlock
            /\ Names(r)' = block'[b][q].inode
        BY <2>1, <3>1, <4>1 DEF Records, Names
      <4>3. block'[b] = block[b]
        BY <1>7, <4>2
      <4>4. r \in Records /\ Names(r) = block[b][q].inode
        BY <4>1, <4>2, <4>3, RecordParts
      <4> QED
        BY <1>7, <1>8, <2>1, <4>2, <4>3, <4>4
    <3>2. RecordsNameOne /\ \A r \in Records' : r \in Records /\ Names(r)' = Names(r)
      BY <1>1, <3>1
    <3>3. \A r \in Records' : inode'[Names(r)].mode # "free"
      BY <3>1
    <3> QED
      BY <3>2, <3>3, RecordsFewer
  <2> QED
    BY <1>6, <1>7, <2>2, <2>3 DEF AbyssInv
<1>10. CASE p \notin {0, 2}
  <2> DEFINE T == {MovedTo(old, p, q) : q \in S \ {p}}
             F == {<<r, r>> : r \in {s \in Records : s[1] # RootBlock}}
                    \cup {<<<<RootBlock, MovedTo(old, p, q)>>, <<RootBlock, q>>>> : q \in S \ {p}}
  <2>1. i # Root /\ mode' = "run"
    BY <1>3, <1>10
  <2>2. /\ \E stop \in Pos : IsList(Without(old, p), T, stop)
        /\ \A q \in S \ {p} : /\ MovedTo(old, p, q) \in Pos
                              /\ Without(old, p)[MovedTo(old, p, q)] = old[q]
    BY <1>1, <1>2, <1>10, WithoutList
  <2>3. Passed(block'[RootBlock]) = T /\ \E stop \in Pos : IsList(block'[RootBlock], T, stop)
    <3> HIDE DEF T
    <3> QED
      BY <1>4, <1>7, <2>2, ListPassed
  <2>4. RootLives'
    <3>1. inode'[Root] = inode[Root] /\ mode' # "rootless"
      BY <1>7, <2>1, Numbers
    <3> HIDE DEF T
    <3> QED
      BY <1>7, <2>3, <3>1, RootRuns DEF RootLives
  <2>5. ASSUME NEW r \in Records'
        PROVE  \E s \in Records : <<r, s>> \in F
    <3>1. PICK b \in DataBlock, x \in Pos : r = <<b, x>>
      BY <2>5 DEF Records
    <3>2. /\ IsHeader(block'[b][x]) /\ block'[b][x].name \in Name
          /\ b = RootBlock => x \in Passed(block'[RootBlock])
      BY <2>5, <3>1 DEF Records
    <3>3. CASE b # RootBlock
      <4>1. block'[b] = block[b]
        BY <1>7, <3>3
      <4>2. r \in Records /\ r[1] # RootBlock
        BY <3>1, <3>2, <3>3, <4>1, RecordParts
      <4> QED
        BY <4>2
    <3>4. CASE b = RootBlock
      <4>1. PICK q \in S \ {p} : x = MovedTo(old, p, q)
        BY <2>3, <3>2, <3>4
      <4>2. old[q].name \in Name
        BY <1>7, <2>2, <3>2, <3>4, <4>1
      <4>3. <<RootBlock, q>> \in Records
        BY <4>2, RootEntries
      <4> QED
        BY <3>1, <3>4, <4>1, <4>3
    <3> QED
      BY <3>3, <3>4
  <2>6. ASSUME NEW r \in Records', NEW s \in Records, <<r, s>> \in F
        PROVE  /\ Names(r)' = Names(s) /\ inode'[Names(s)].mode # "free"
               /\ s # <<RootBlock, p>>
               /\ s[1] = RootBlock => r = <<RootBlock, MovedTo(old, p, s[2])>>
               /\ s[1] # RootBlock => r = s
    <3>1. \/ r = s /\ s[1] # RootBlock
          \/ \E q \in S \ {p} : /\ r = <<RootBlock, MovedTo(old, p, q)>>
                                /\ s = <<RootBlock, q>>
      BY <2>6
    <3>2. s # <<RootBlock, p>>
      BY <3>1
    <3>3. Names(s) # i /\ inode'[Names(s)].mode # "free"
      <4>1. Names(s) # i
        BY <1>1, <1>3, <1>10, <3>2 DEF RecordsNameOne
      <4> QED
        BY <1>7, <1>8, <4>1
    <3>4. Names(r)' = Names(s)
      <4>1. CASE r = s /\ s[1] # RootBlock
        <5>1. s[1] \in DataBlock \ {RootBlock}
          BY <4>1 DEF Records
        <5> QED
          BY <1>7, <4>1, <5>1 DEF Names
      <4>2. ASSUME NEW q \in S \ {p}, r = <<RootBlock, MovedTo(old, p, q)>>, s = <<RootBlock, q>>
            PROVE  Names(r)' = Names(s)
        <5>1. Names(r)' = block'[RootBlock][MovedTo(old, p, q)].inode
          BY <4>2 DEF Names
        <5>2. block'[RootBlock][MovedTo(old, p, q)] = old[q]
          BY <1>7, <2>2
        <5> QED
          BY <4>2, <5>1, <5>2 DEF Names
      <4> QED
        BY <3>1, <4>1, <4>2
    <3> QED
      BY <3>1, <3>2, <3>3, <3>4
  <2>7. RecordsNameOne'
    <3> HIDE DEF F
    <3>1. \A r, q \in Records', s \in Records : <<r, s>> \in F /\ <<q, s>> \in F => r = q
      BY <2>6
    <3>2. \A r \in Records', s \in Records : <<r, s>> \in F =>
            Names(r)' = Names(s) /\ inode'[Names(s)].mode # "free"
      BY <2>6
    <3>3. RecordsNameOne /\ \A r \in Records' : \E s \in Records : <<r, s>> \in F
      BY <1>1, <2>5
    <3> QED
      BY <3>1, <3>2, <3>3, RecordsFrom
  <2> QED
    BY <1>6, <1>7, <2>4, <2>7 DEF AbyssInv
<1> QED
  BY <1>9, <1>10

LEMMA UnlinkInv ==
  ASSUME AbyssInv, NEW n, abyssfs_unlink(n)
  PROVE  AbyssInv'
<1>1. mode = "run" /\ UNCHANGED <<handles, cwd>> /\ TypeOK /\ block[RootBlock] \in Block
  BY InvParts, Types, Numbers DEF abyssfs_unlink
<1>2. CASE UNCHANGED <<inode, block_bitmap, free_blocks, block, mode>>
  BY <1>1, <1>2, Resting, Types
<1>3. ASSUME NEW p \in Pos, NEW i, i = block[RootBlock][p].inode,
             FirstOf(p, Found(block[RootBlock], n)), inode' = Freed(i),
             block' = [block EXCEPT ![RootBlock] = Without(@, p)], free_block(i),
             mode' = IF i = Root THEN "rootless" ELSE mode
      PROVE  AbyssInv'
  <2>1. p \in Passed(block[RootBlock])
    BY <1>1, <1>3, FoundWords DEF FirstOf
  <2> QED
    BY <1>1, <1>3, <2>1, EntryUnlinked
<1> QED
  BY <1>2, <1>3 DEF abyssfs_unlink

LEMMA RemoveInv ==
  ASSUME AbyssInv, NEW n, abyssfs_remove_recursive(n)
  PROVE  AbyssInv'
<1>1. CASE abyssfs_unlink(n)
  BY <1>1, UnlinkInv
<1>2. CASE /\ mode = "run" /\ mode' = "undefined"
           /\ UNCHANGED <<inode, block_bitmap, free_blocks, block, handles, cwd>>
  BY <1>2, Resting, InvParts, Types
<1> QED
  BY <1>1, <1>2 DEF abyssfs_remove_recursive


(* The step that removes the contents of the root.                         *)
LEMMA RemoveRootInv ==
  ASSUME AbyssInv, remove_recursive_root
  PROVE  AbyssInv'
<1> DEFINE old == block[RootBlock]
           new == Emptied(old)
           r == Unlinked(Len(Chain(old)))
           m == Len(Chain(old)) - 2
           hits == {p \in Shown(old) : old[p].name \in Name}
           gone == {old[p].inode : p \in hits}
           held == {p \in hits : inode[old[p].inode].blocks # NoBlock}
           B == {inode[old[p].inode].blocks : p \in held}
           F == {<<s, s>> : s \in {t \in Records : t[1] # RootBlock}}
                  \cup {<<<<RootBlock, Nth(new, k)>>, <<RootBlock, Nth(old, k + r)>>>> :
                        k \in 1 .. (m - r)}
<1>1. /\ mode = "run" /\ UNCHANGED <<handles, cwd>>
      /\ inode' = [j \in Inode |-> IF j \in gone THEN [inode[j] EXCEPT !.mode = "free"]
                                   ELSE inode[j]]
      /\ block' = [block EXCEPT ![RootBlock] = new]
      /\ block_bitmap' = block_bitmap \ {inode[i].blocks : i \in gone}
      /\ free_blocks' = free_blocks + Cardinality(held)
      /\ mode' \in {"run", "undefined"}
  BY DEF remove_recursive_root
<1>2. /\ TypeOK /\ FreeCount /\ BlocksHaveOneOwner /\ RecordsNameOne /\ old \in Block
      /\ inode[Root] = [mode |-> "dir", blocks |-> RootBlock]
  BY <1>1, InvParts, RootRuns
<1>3. PICK end \in Pos : IsList(old, Passed(old), end)
  BY <1>1, RootRuns
<1>4. \A p \in hits : p \in Passed(old) /\ p \in Shown(old) /\ old[p].name \in Name
  BY DEF Shown, Passed
<1>5. /\ new \in Block /\ StartsWithDots(new)
      /\ \E stop \in Pos : IsList(new, Passed(new), stop)
      /\ \A x \in Passed(new) \ {0, 2} : \E k \in 1 .. (m - r) : x = Nth(new, k)
      /\ \A k \in 1 .. (m - r) :
           /\ new[Nth(new, k)].inode = old[Nth(old, k + r)].inode
           /\ Nth(old, k + r) \in Passed(old) \ {0, 2} /\ Nth(old, k + r) \notin Shown(old)
      /\ \A j, k \in 1 .. (m - r) : Nth(old, j + r) = Nth(old, k + r) => j = k
  BY <1>2, <1>3, EmptiedEntries
<1>6. ASSUME NEW p \in hits
      PROVE  /\ p \in Pos /\ <<RootBlock, p>> \in Records
             /\ Names(<<RootBlock, p>>) = old[p].inode
             /\ old[p].inode # Root /\ old[p].inode \in Holders /\ old[p].inode # 0
  BY <1>1, <1>4, RootEntries
<1> HIDE DEF hits, new, r, m
<1>7. gone \in SUBSET Holders /\ 0 \notin gone /\ Root \notin gone
  BY <1>6
<1>9. /\ B \subseteq block_bitmap
      /\ \A p, q \in held : inode[old[p].inode].blocks = inode[old[q].inode].blocks => p = q
  <2>1. \A p \in held : /\ p \in hits /\ inode[old[p].inode].blocks # NoBlock
                        /\ old[p].inode \in Holders
    BY <1>6
  <2>2. B \subseteq block_bitmap
    BY <1>2, <2>1 DEF BlocksHaveOneOwner
  <2>3. ASSUME NEW p \in held, NEW q \in held,
               inode[old[p].inode].blocks = inode[old[q].inode].blocks
        PROVE  p = q
    <3>1. old[p].inode = old[q].inode
      BY <1>2, <2>1, <2>3 DEF BlocksHaveOneOwner
    <3>2. Names(<<RootBlock, p>>) = Names(<<RootBlock, q>>)
      BY <1>6, <2>1, <3>1
    <3>3. <<RootBlock, p>> = <<RootBlock, q>>
      BY <1>2, <1>6, <2>1, <3>2 DEF RecordsNameOne
    <3> QED
      BY <3>3
  <2> QED
    BY <2>2, <2>3
<1>10. Cardinality(B) = Cardinality(held) /\ Cardinality(held) \in Nat
  <2> DEFINE f == [p \in held |-> inode[old[p].inode].blocks]
  <2>1. IsFiniteSet(held)
    <3>1. held \subseteq Passed(old)
      BY <1>4
    <3>2. IsFiniteSet(Passed(old))
      BY <1>2, <1>3, ListParts
    <3> QED
      BY <3>1, <3>2, FS_Subset
  <2>2. /\ f \in [held -> B] /\ \A p, q \in held : f[p] = f[q] => p = q
        /\ \A y \in B : \E p \in held : f[p] = y
    BY <1>9
  <2> HIDE DEF f, held, B
  <2> QED
    BY <2>1, <2>2, SameNumber, FS_CardinalityType
<1>11. block_bitmap' = block_bitmap \ B
  <2>1. NoBlock \notin block_bitmap
    BY <1>2, Types, Numbers
  <2>2. \A x \in block_bitmap : (\E i \in gone : inode[i].blocks = x) <=> x \in B
    BY <2>1
  <2> QED
    BY <1>1, <2>2
<1>12. block_bitmap' \subseteq DataBlock /\ free_blocks' \in Int /\ FreeCount'
  <2> HIDE DEF B, held
  <2> QED
    BY <1>1, <1>2, <1>9, <1>10, <1>11, BlocksFreed
<1>13. /\ TypeOK' /\ BlocksHaveOneOwner' /\ Inodes0AndDirs'
       /\ block'[RootBlock] = new
       /\ \A b \in DataBlock \ {RootBlock} : block'[b] = block[b]
       /\ \A j \in Inode \ {Root} : inode'[j].blocks # RootBlock
       /\ \A j \in Inode \ gone : inode'[j] = inode[j]
       /\ Root \notin handles'
  <2> HIDE DEF gone, old
  <2> QED
    BY <1>1, <1>5, <1>7, <1>12, RootShrinks
<1>15. RootLives'
  <2>1. inode'[Root] = inode[Root] /\ mode' # "rootless"
    BY <1>1, <1>7, <1>13, Numbers
  <2>2. \E stop \in Pos : IsList(block'[RootBlock], Passed(block'[RootBlock]), stop)
    BY <1>5, <1>13
  <2> QED
    BY <1>2, <1>13, <2>1, <2>2 DEF RootLives
<1>8. \A p \in hits, s \in Records : Names(s) = old[p].inode => s = <<RootBlock, p>>
  BY <1>2, <1>6 DEF RecordsNameOne
<1>14. ASSUME NEW q \in Records'
       PROVE  \E s \in Records : <<q, s>> \in F
  <2>1. PICK b \in DataBlock, x \in Pos : q = <<b, x>>
    BY <1>14 DEF Records
  <2>2. /\ IsHeader(block'[b][x]) /\ block'[b][x].name \in Name
        /\ b = RootBlock => x \in Passed(block'[RootBlock])
    BY <1>14, <2>1 DEF Records
  <2>3. CASE b # RootBlock
    <3>1. block'[b] = block[b]
      BY <1>13, <2>3
    <3>2. q \in Records /\ q[1] # RootBlock
      BY <2>1, <2>2, <2>3, <3>1, RecordParts
    <3> QED
      BY <3>2
  <2>4. CASE b = RootBlock
    <3>1. x \in Passed(new) /\ new[x].name \in Name
      BY <1>13, <2>2, <2>4
    <3>2. x \notin {0, 2}
      BY <1>5, <3>1, AbyssAssumption DEF StartsWithDots
    <3>3. PICK k \in 1 .. (m - r) : x = Nth(new, k)
      BY <1>5, <3>1, <3>2
    <3>4. Nth(old, k + r) \in Pos
      BY <1>1, <1>5, RootEntries
    <3>5. <<RootBlock, Nth(old, k + r)>> \in Records
      BY <1>1, <1>5, <3>4, RootRecords
    <3> QED
      BY <2>1, <2>4, <3>3, <3>5
  <2> QED
    BY <2>3, <2>4
<1>16. ASSUME NEW q \in Records', NEW s \in Records, <<q, s>> \in F
       PROVE  /\ Names(q)' = Names(s) /\ inode'[Names(s)].mode # "free"
              /\ \/ q = s /\ s[1] # RootBlock
                 \/ \E k \in 1 .. (m - r) : q = <<RootBlock, Nth(new, k)>>
                                            /\ s = <<RootBlock, Nth(old, k + r)>>
  <2>1. \/ q = s /\ s[1] # RootBlock
        \/ \E k \in 1 .. (m - r) : q = <<RootBlock, Nth(new, k)>>
                                  /\ s = <<RootBlock, Nth(old, k + r)>>
    BY <1>16
  <2>2. Names(s) \notin gone
    <3> SUFFICES ASSUME NEW p \in hits, s = <<RootBlock, p>> PROVE FALSE
      BY <1>8
    <3>1. s[1] = RootBlock /\ s[2] = p
      OBVIOUS
    <3>2. PICK k \in 1 .. (m - r) : s = <<RootBlock, Nth(old, k + r)>>
      BY <2>1, <3>1
    <3>3. p = Nth(old, k + r)
      BY <3>1, <3>2
    <3> QED
      BY <1>4, <1>5, <3>3
  <2>3. inode'[Names(s)].mode # "free"
    <3>1. Names(s) \in Inode /\ inode[Names(s)].mode # "free"
      BY <1>2, NamesInodes DEF RecordsNameOne
    <3> QED
      BY <1>13, <2>2, <3>1
  <2>4. Names(q)' = Names(s)
    <3>1. CASE q = s /\ s[1] # RootBlock
      <4>1. s[1] \in DataBlock \ {RootBlock}
        BY <3>1 DEF Records
      <4> QED
        BY <1>13, <3>1, <4>1 DEF Names
    <3>2. ASSUME NEW k \in 1 .. (m - r), q = <<RootBlock, Nth(new, k)>>,
                 s = <<RootBlock, Nth(old, k + r)>>
          PROVE  Names(q)' = Names(s)
      <4>1. Names(q)' = block'[RootBlock][Nth(new, k)].inode
        BY <3>2 DEF Names
      <4>2. Names(s) = old[Nth(old, k + r)].inode
        BY <3>2 DEF Names
      <4> QED
        BY <1>5, <1>13, <4>1, <4>2
    <3> QED
      BY <2>1, <3>1, <3>2
  <2> QED
    BY <2>1, <2>3, <2>4
<1>17. RecordsNameOne'
  <2>1. ASSUME NEW q \in Records', NEW t \in Records', NEW s \in Records,
               <<q, s>> \in F, <<t, s>> \in F
        PROVE  q = t
    <3>1. CASE s[1] # RootBlock
      BY <1>16, <2>1, <3>1
    <3>2. CASE s[1] = RootBlock
      <4>1. PICK k \in 1 .. (m - r) : /\ q = <<RootBlock, Nth(new, k)>>
                                      /\ s = <<RootBlock, Nth(old, k + r)>>
        BY <1>16, <2>1, <3>2
      <4>2. PICK j \in 1 .. (m - r) : /\ t = <<RootBlock, Nth(new, j)>>
                                      /\ s = <<RootBlock, Nth(old, j + r)>>
        BY <1>16, <2>1, <3>2
      <4>3. j = k
        BY <1>5, <4>1, <4>2
      <4> QED
        BY <4>1, <4>2, <4>3
    <3> QED
      BY <3>1, <3>2
  <2> HIDE DEF F
  <2>2. \A q \in Records' : \E s \in Records : <<q, s>> \in F
    BY <1>14
  <2>3. \A q \in Records', s \in Records : <<q, s>> \in F =>
          Names(q)' = Names(s) /\ inode'[Names(s)].mode # "free"
    BY <1>16
  <2>4. \A q, t \in Records', s \in Records : <<q, s>> \in F /\ <<t, s>> \in F => q = t
    BY <2>1
  <2> QED
    BY <1>2, <2>2, <2>3, <2>4, RecordsFrom
<1> QED
  BY <1>12, <1>13, <1>15, <1>17 DEF AbyssInv

--------------------------------------------------------------------------------
(* Between calls AbyssInv holds: while any call of abyssfs.c takes, links, *)
(* writes or frees, the inode table, the bitmap, its count and the records *)
(* of the blocks agree.                                                    *)
THEOREM Invariance == Spec => []AbyssInv
<1>1. Init => AbyssInv
  BY InitInv
<1>2. ASSUME AbyssInv, [Next]_vars
      PROVE  AbyssInv'
  <2>1. ASSUME NEW path \in Cwd, cmd_cd(path)
        PROVE  AbyssInv'
    BY <1>2, <2>1, CdInv
  <2>2. ASSUME NEW n \in Name, abyssfs_create(n)
        PROVE  AbyssInv'
    BY <1>2, <2>2, CreateInv
  <2>3. ASSUME NEW n \in Name, abyssfs_mkdir(n)
        PROVE  AbyssInv'
    BY <1>2, <2>3, MkdirInv
  <2>4. ASSUME NEW n, abyssfs_unlink(n)
        PROVE  AbyssInv'
    BY <1>2, <2>4, UnlinkInv
  <2>5. ASSUME NEW n, abyssfs_remove_recursive(n)
        PROVE  AbyssInv'
    BY <1>2, <2>5, RemoveInv
  <2>6. ASSUME NEW i \in Inode, abyssfs_write(i)
        PROVE  AbyssInv'
    BY <1>2, <2>6, WriteInv
  <2>7. CASE abyssfs_open
    BY <1>2, <2>7, OpenInv
  <2>8. CASE remove_recursive_root
    BY <1>2, <2>8, RemoveRootInv
  <2>9. CASE UNCHANGED vars
    <3>1. TypeOK /\ UNCHANGED <<inode, block_bitmap, free_blocks, block, handles, cwd, mode>>
      BY <1>2, <2>9, InvParts DEF vars
    <3> QED
      BY <1>2, <3>1, Resting, Types
  <2> QED
    BY <1>2, <2>1, <2>2, <2>3, <2>4, <2>5, <2>6, <2>7, <2>8, <2>9 DEF Next
<1> QED
  BY <1>1, <1>2, PTL DEF Spec

(* Every variable keeps its type: no inode names a block the disk lacks    *)
(* and no block holds a word but headers, zeros and other bytes.           *)
THEOREM TypeCorrect == Spec => []TypeOK
BY Invariance, InvParts, PTL

(* free_blocks follows the bitmap through alloc_block and free_block,      *)
(* whatever call takes or frees a block.                                   *)
THEOREM CountFollows == Spec => []FreeCount
BY Invariance, InvParts, PTL

(* write_to_blocks and mkdir never take a block that a file in use has.    *)
THEOREM OneOwner == Spec => []BlocksHaveOneOwner
BY Invariance, InvParts, PTL

--------------------------------------------------------------------------------
(* What the entries of directories name.                                   *)

(* What EntriesOf(d) shows are records, each of its own position.          *)
LEMMA EntriesAreRecords ==
  ASSUME AbyssInv, NEW d \in Dirs, NEW k \in DOMAIN EntriesOf(d)
  PROVE  LET b == inode[d].blocks
         IN  /\ b \in DataBlock /\ <<b, Nth(block[b], k)>> \in Records
             /\ Names(<<b, Nth(block[b], k)>>) = EntriesOf(d)[k].inode
             /\ EntriesOf(d)[k].name \in Name
             /\ \A j \in DOMAIN EntriesOf(d) : Nth(block[b], j) = Nth(block[b], k) => j = k
<1> DEFINE b == inode[d].blocks
           w == block[b]
           p == Nth(w, k)
<1>1. /\ d \in Inode /\ inode[d].mode = "dir" /\ b \in DataBlock /\ w \in Block
      /\ b = RootBlock => d = Root
  <2>1. d \in Inode /\ inode[d].mode = "dir"
    BY DEF Dirs
  <2>2. b \in DataBlock
    BY <2>1, InvParts, Types DEF Inodes0AndDirs
  <2> QED
    BY <2>1, <2>2, InvParts, Types DEF RootLives
<1>2. /\ p \in Passed(w) /\ p \in Pos \ {0, 2} /\ IsHeader(w[p])
      /\ EntriesOf(d)[k].name = w[p].name /\ EntriesOf(d)[k].inode = w[p].inode
      /\ \A j \in DOMAIN EntriesOf(d) : Nth(w, j) = p => j = k
  BY <1>1, ShownEntries DEF EntriesOf
<1> HIDE DEF p
<1>3. w[p].name \in Name /\ (b = RootBlock => mode # "rootless")
  <2>1. CASE b # RootBlock
    BY <1>1, <1>2, <2>1, InvParts DEF Inodes0AndDirs
  <2>2. CASE b = RootBlock
    <3>1. mode # "rootless" /\ \E end \in Pos : IsList(w, Passed(w), end)
      BY <1>1, <2>2, InvParts DEF RootLives
    <3> QED
      BY <1>2, <3>1, ListElim
  <2> QED
    BY <2>1, <2>2
<1>4. <<b, p>> \in Records /\ Names(<<b, p>>) = w[p].inode
  BY <1>1, <1>2, <1>3, RecordParts
<1> QED
  BY <1>1, <1>2, <1>3, <1>4 DEF p

LEMMA EntriesName ==
  ASSUME AbyssInv
  PROVE  EntriesAreFiles
<1>1. ASSUME NEW d \in Dirs, NEW n \in Name, NEW p \in Found(block[inode[d].blocks], n)
      PROVE  inode[block[inode[d].blocks][p].inode].mode # "free"
  <2> DEFINE b == inode[d].blocks
  <2>1. d \in Inode /\ inode[d].mode = "dir"
    BY DEF Dirs
  <2>2. b \in DataBlock /\ block[b] \in Block
    BY <2>1, InvParts, Types DEF Inodes0AndDirs
  <2>3. b = RootBlock => mode # "rootless"
    BY <2>1, InvParts DEF RootLives
  <2>4. p \in Passed(block[b]) /\ p \in Pos /\ IsHeader(block[b][p]) /\ block[b][p].name \in Name
    BY <1>1, <2>2, FoundWords
  <2>5. <<b, p>> \in Records /\ Names(<<b, p>>) = block[b][p].inode
    BY <2>2, <2>3, <2>4, RecordParts
  <2> QED
    BY <2>5, InvParts DEF RecordsNameOne
<1>2. ASSUME NEW d \in Dirs, NEW e \in Dirs, NEW k \in DOMAIN EntriesOf(d),
             NEW j \in DOMAIN EntriesOf(e), EntriesOf(d)[k].inode = EntriesOf(e)[j].inode
      PROVE  d = e /\ k = j
  <2> DEFINE b == inode[d].blocks
             a == inode[e].blocks
  <2>1. /\ b \in DataBlock /\ <<b, Nth(block[b], k)>> \in Records
        /\ Names(<<b, Nth(block[b], k)>>) = EntriesOf(d)[k].inode
        /\ \A i \in DOMAIN EntriesOf(d) : Nth(block[b], i) = Nth(block[b], k) => i = k
    BY EntriesAreRecords
  <2>2. /\ a \in DataBlock /\ <<a, Nth(block[a], j)>> \in Records
        /\ Names(<<a, Nth(block[a], j)>>) = EntriesOf(e)[j].inode
    BY EntriesAreRecords
  <2>3. <<b, Nth(block[b], k)>> = <<a, Nth(block[a], j)>>
    BY <1>2, <2>1, <2>2, InvParts DEF RecordsNameOne
  <2>4. d = e
    <3>1. d \in Holders /\ e \in Holders /\ inode[d].blocks # NoBlock
      BY <2>1, Numbers DEF Dirs, Holders
    <3> QED
      BY <2>3, <3>1, InvParts DEF BlocksHaveOneOwner
  <2>5. j \in DOMAIN EntriesOf(d) /\ Nth(block[b], j) = Nth(block[b], k)
    BY <2>3, <2>4
  <2> QED
    BY <2>1, <2>4, <2>5
<1>3. ASSUME NEW l \in Links, NEW m \in Links, l.inode = m.inode
      PROVE  l = m
  <2>1. PICK d \in Dirs : \E k \in DOMAIN EntriesOf(d) :
               l = [dir |-> d, at |-> k, inode |-> EntriesOf(d)[k].inode]
    BY DEF Links
  <2>2. PICK e \in Dirs : \E k \in DOMAIN EntriesOf(e) :
               m = [dir |-> e, at |-> k, inode |-> EntriesOf(e)[k].inode]
    BY DEF Links
  <2> QED
    BY <1>2, <1>3, <2>1, <2>2
<1> QED
  BY <1>1, <1>3 DEF EntriesAreFiles

(* Every entry of a directory in use names an inode in use, and no two     *)
(* entries name the same: what abyssfs_unlink, create_file and the writes  *)
(* through left-over handles do to blocks never breaks a link.             *)
THEOREM LinksHold == Spec => []EntriesAreFiles
BY Invariance, EntriesName, PTL

--------------------------------------------------------------------------------
(* What create_file and the removals make of the lists of entries.         *)

(* An entry that a walk finds in an inode in use names an inode in use.    *)
LEMMA StepInUse ==
  ASSUME AbyssInv, mode = "run", NEW j \in Inode, NEW n \in Name,
         WalkStep(inode, block, j, n) # NoInode
  PROVE  /\ WalkStep(inode, block, j, n) \in Inode
         /\ inode[WalkStep(inode, block, j, n)].mode # "free"
<1> DEFINE b == inode[j].blocks
           hits == Found(block[b], n)
           p == CHOOSE q \in hits : FirstOf(q, hits)
<1>1. j # NoInode
  BY DEF Inode, NoInode
<1>2. b # NoBlock /\ hits # {} /\ WalkStep(inode, block, j, n) = block[b][p].inode
  BY <1>1 DEF WalkStep
<1>3. b \in DataBlock /\ block[b] \in Block
  BY <1>2, InvParts, Types
<1> HIDE DEF b
<1>4. p \in hits
  <2>1. \A q \in hits : q \in Pos
    BY <1>3, FoundWords
  <2>2. hits \in SUBSET Nat
    BY <2>1, Places DEF Pos
  <2> HIDE DEF hits
  <2>3. \E q \in hits : FirstOf(q, hits)
    BY <1>2, <2>2, LeastExists DEF FirstOf
  <2> QED
    BY <2>3
<1> HIDE DEF p
<1>5. /\ p \in Passed(block[b]) /\ p \in Pos /\ IsHeader(block[b][p])
      /\ block[b][p].name \in Name /\ block[b][p].inode \in Inode
  BY <1>3, <1>4, FoundWords
<1>6. <<b, p>> \in Records /\ Names(<<b, p>>) = block[b][p].inode
  BY <1>3, <1>5, RecordParts
<1>7. inode[block[b][p].inode].mode # "free"
  BY <1>6, InvParts DEF RecordsNameOne
<1> QED
  BY <1>2, <1>5, <1>7 DEF b, p

(* The tables as a call that takes inode i hands them to create_file: they *)
(* have changed in inodes and blocks that were free only.                  *)
Begun(nodes, blks, i) ==
  /\ blks \in [DataBlock -> Block]
  /\ \A j \in Inode \ {i} : nodes[j] = inode[j]
  /\ \A j \in Holders : inode[j].blocks # NoBlock =>
       blks[inode[j].blocks] = block[inode[j].blocks]

(* A walk in them leads where it led before.                               *)
LEMMA WalkStays ==
  ASSUME AbyssInv, mode = "run", NEW i \in FreeInodes, NEW nodes, NEW blks,
         Begun(nodes, blks, i)
  PROVE  LET d == get_inode_by_path(inode, block, cwd)
         IN  /\ get_inode_by_path(nodes, blks, cwd) = d
             /\ d # NoInode => d \in Inode \ {i} /\ inode[d].mode # "free"
             /\ DirBlock(nodes, blks) = IF d = NoInode THEN NoBlock ELSE inode[d].blocks
<1> DEFINE n == Len(cwd)
           at == Walk(inode, block, cwd)
           to == Walk(nodes, blks, cwd)
           A == {k \in 0 .. n : /\ to[k] = at[k]
                                /\ at[k] # NoInode => /\ at[k] \in Inode
                                                      /\ inode[at[k]].mode # "free"}
<1>0. /\ \A j \in Inode \ {i} : nodes[j] = inode[j]
      /\ \A j \in Holders : inode[j].blocks # NoBlock =>
           blks[inode[j].blocks] = block[inode[j].blocks]
  BY DEF Begun
<1>1. cwd \in Seq(Name) /\ n \in Nat
  <2>1. cwd \in Seq(Name)
    BY InvParts, AbyssAssumption DEF TypeOK
  <2> QED
    BY <2>1
<1>2. /\ \A k \in 0 .. n : at[k] = IF k = 0 THEN Root ELSE WalkStep(inode, block, at[k - 1], cwd[k])
      /\ \A k \in 0 .. n : to[k] = IF k = 0 THEN Root ELSE WalkStep(nodes, blks, to[k - 1], cwd[k])
  BY <1>1, WalkSteps
<1>3. get_inode_by_path(inode, block, cwd) = at[n] /\ get_inode_by_path(nodes, blks, cwd) = to[n]
  BY DEF get_inode_by_path
<1> HIDE DEF at, to
<1>4. 0 \in A
  BY <1>1, <1>2, RootRuns, Numbers
<1>5. ASSUME NEW k \in 1 .. n, k - 1 \in A
      PROVE  k \in A
  <2>1. k \in 0 .. n /\ k # 0 /\ cwd[k] \in Name
    BY <1>1
  <2>2. /\ at[k] = WalkStep(inode, block, at[k - 1], cwd[k])
        /\ to[k] = WalkStep(nodes, blks, at[k - 1], cwd[k])
    BY <1>2, <1>5, <2>1
  <2>3. CASE at[k - 1] = NoInode
    BY <2>1, <2>2, <2>3 DEF WalkStep
  <2>4. CASE at[k - 1] # NoInode
    <3>1. at[k - 1] \in Inode /\ inode[at[k - 1]].mode # "free"
      BY <1>5, <2>4
    <3>2. at[k - 1] \in Holders /\ at[k - 1] # i
      BY <3>1 DEF Holders, FreeInodes
    <3>3. nodes[at[k - 1]] = inode[at[k - 1]]
      BY <1>0, <3>1, <3>2
    <3> DEFINE b == inode[at[k - 1]].blocks
    <3>3a. b # NoBlock => blks[b] = block[b]
      BY <1>0, <3>2
    <3>3b. nodes[at[k - 1]].blocks = b
      BY <3>3
    <3>3c. inode[at[k - 1]].blocks = b
      OBVIOUS
    <3> HIDE DEF b
    <3>4. to[k] = at[k]
      <4>1. CASE b = NoBlock
        BY <2>2, <3>3b, <3>3c, <4>1 DEF WalkStep
      <4>2. CASE b # NoBlock
        <5>1. blks[b] = block[b]
          BY <3>3a, <4>2
        <5> QED
          BY <2>2, <3>3b, <3>3c, <4>2, <5>1 DEF WalkStep
      <4> QED
        BY <4>1, <4>2
    <3>5. at[k] # NoInode => at[k] \in Inode /\ inode[at[k]].mode # "free"
      BY <2>1, <2>2, <3>1, StepInUse
    <3> QED
      BY <2>1, <3>4, <3>5
  <2> QED
    BY <2>3, <2>4
<1>6. n \in A
  <2> HIDE DEF A, n
  <2>1. \A k \in 0 .. n : k \in A
    BY <1>1, <1>4, <1>5, Upwards
  <2> QED
    BY <1>1, <2>1
<1> DEFINE d == get_inode_by_path(inode, block, cwd)
<1>7. /\ get_inode_by_path(nodes, blks, cwd) = d
      /\ d # NoInode => d \in Inode /\ inode[d].mode # "free"
  BY <1>3, <1>6
<1> HIDE DEF d
<1>8. d # NoInode => d \in Inode \ {i} /\ nodes[d] = inode[d]
  BY <1>0, <1>7 DEF FreeInodes
<1> QED
  BY <1>7, <1>8 DEF DirBlock, d

(* create_file puts the entry behind all that its directory shows.         *)
LEMMA EntryMade ==
  ASSUME AbyssInv, mode = "run", mode' = "run", NEW i \in FreeInodes, NEW n \in Name,
         NEW nodes, NEW blks, Begun(nodes, blks, i),
         create_file(nodes, blks, n, i), inode' = nodes,
         NEW d \in Dirs, d = get_inode_by_path(inode, block, cwd)
  PROVE  LET a == inode[d].blocks
             p == At(block[a])
         IN  /\ a \in DataBlock /\ block' = [blks EXCEPT ![a] = Appended(block[a], n, i)]
             /\ p \in Pos /\ block'[a][p] = Record(n, i, round_up(n))
             /\ EntriesOf(d)' = IF round_up(n) = 0 THEN EntriesOf(d)
                                ELSE Append(EntriesOf(d), [name |-> n, inode |-> i])
<1> DEFINE a == inode[d].blocks
           p == At(block[a])
<1>1. /\ d \in Inode /\ d # NoInode /\ d # i /\ a \in DataBlock /\ a # NoBlock
      /\ StartsWithDots(block[a]) /\ block[a] \in Block /\ d \in Holders
  <2>1. d \in Inode /\ inode[d].mode = "dir" /\ d # NoInode
    BY DEF Dirs, Inode, NoInode
  <2>2. d # i
    BY <2>1 DEF FreeInodes
  <2> QED
    BY <2>1, <2>2, DirBlocks, Numbers
<1>2. DirBlock(nodes, blks) = a /\ blks[a] = block[a] /\ blks \in [DataBlock -> Block]
  BY <1>1, WalkStays DEF Begun
<1> HIDE DEF a
<1>3. ~Overflows(blks[a], n) /\ block' = [blks EXCEPT ![a] = Appended(@, n, i)]
  BY <1>1, <1>2 DEF create_file
<1>4. i \in Inode /\ ~Overflows(block[a], n)
  BY <1>2, <1>3 DEF FreeInodes
<1>5. LET e == Appended(block[a], n, i)
      IN  /\ e \in Block /\ p \in Pos /\ e[p] = Record(n, i, round_up(n))
          /\ Entries(e) = IF round_up(n) = 0 THEN Entries(block[a])
                          ELSE Append(Entries(block[a]), [name |-> n, inode |-> i])
  BY <1>1, <1>4, AppendedEntries
<1>6. block' = [blks EXCEPT ![a] = Appended(block[a], n, i)]
      /\ block'[a] = Appended(block[a], n, i)
  BY <1>1, <1>2, <1>3
<1>7. inode'[d].blocks = a
  BY <1>1 DEF a, Begun
<1>8. EntriesOf(d) = Entries(block[a]) /\ EntriesOf(d)' = Entries(block'[a])
  BY <1>7 DEF EntriesOf, a
<1> QED
  BY <1>1, <1>5, <1>6, <1>8 DEF a

(* The tables as mkdir changes them before it links the directory.         *)
LEMMA MkdirTables ==
  ASSUME AbyssInv, mode = "run", NEW i \in FreeInodes, NEW b \in DataBlock, alloc_block(b)
  PROVE  /\ WithDots(i, b) \in [DataBlock -> Block] /\ WithDots(i, b)[b] = Dots(block[b], i)
         /\ \A a \in DataBlock \ {b} : WithDots(i, b)[a] = block[a]
         /\ \A j \in Holders : inode[j].blocks # b
         /\ \A nodes : (\A j \in Inode \ {i} : nodes[j] = inode[j]) =>
              Begun(nodes, WithDots(i, b), i)
<1>1. b \notin block_bitmap
  BY InvParts, BlockTaken
<1>2. /\ block \in [DataBlock -> Block] /\ inode \in [Inode -> Node] /\ i \in Inode
      /\ Dots(block[b], i) \in Block
  BY InvParts, Types, DotsWords DEF FreeInodes
<1>3. /\ WithDots(i, b) \in [DataBlock -> Block] /\ WithDots(i, b)[b] = Dots(block[b], i)
      /\ \A a \in DataBlock \ {b} : WithDots(i, b)[a] = block[a]
  BY <1>2 DEF WithDots
<1>4. \A j \in Holders : inode[j].blocks # b
  <2> SUFFICES ASSUME NEW j \in Holders, inode[j].blocks = b PROVE FALSE
    OBVIOUS
  <2>1. inode[j].blocks # NoBlock
    BY Numbers
  <2> QED
    BY <1>1, <2>1, InvParts DEF BlocksHaveOneOwner
<1>5. \A j \in Holders : inode[j].blocks # NoBlock => inode[j].blocks \in DataBlock \ {b}
  BY <1>4, InvParts, Types DEF Holders
<1>6. \A j \in Holders : inode[j].blocks # NoBlock =>
        WithDots(i, b)[inode[j].blocks] = block[inode[j].blocks]
  BY <1>3, <1>5
<1> QED
  BY <1>3, <1>4, <1>6 DEF Begun

(* A call of create_file, mkdir or anything else, seen from a directory    *)
(* and an inode that is taken.                                             *)
LEMMA NewEntries ==
  ASSUME AbyssInv, Next, NEW i \in Inode, NEW d \in Dirs,
         inode[i].mode = "free", inode'[i].mode # "free",
         d = get_inode_by_path(inode, block, cwd), mode' = "run"
  PROVE  LET b == block'[inode[d].blocks]
         IN  \/ \E n \in Name :
                  EntriesOf(d)' = Append(EntriesOf(d), [name |-> n, inode |-> i])
             \/ FreeBlocks = {} /\ block' = block
             \/ /\ EntriesOf(d)' = EntriesOf(d)
                /\ \E p \in Pos : IsHeader(b[p]) /\ b[p].inode = i /\ b[p].rec = 0
<1> DEFINE b == block'[inode[d].blocks]
           Goal == \/ \E n \in Name :
                        EntriesOf(d)' = Append(EntriesOf(d), [name |-> n, inode |-> i])
                   \/ FreeBlocks = {} /\ block' = block
                   \/ /\ EntriesOf(d)' = EntriesOf(d)
                      /\ \E p \in Pos : IsHeader(b[p]) /\ b[p].inode = i /\ b[p].rec = 0
<1>1. inode \in [Inode -> Node] /\ TypeOK
  BY InvParts, Types
<1>2. ASSUME NEW j \in FreeInodes, NEW n \in Name, NEW nodes, NEW blks, mode = "run",
             Begun(nodes, blks, j), create_file(nodes, blks, n, j), inode' = nodes
      PROVE  Goal
  <2>1. i = j
    BY <1>2 DEF Begun
  <2>2. LET p == At(block[inode[d].blocks])
        IN  /\ p \in Pos /\ b[p] = Record(n, i, round_up(n))
            /\ EntriesOf(d)' = IF round_up(n) = 0 THEN EntriesOf(d)
                               ELSE Append(EntriesOf(d), [name |-> n, inode |-> i])
    BY <1>2, <2>1, EntryMade
  <2> DEFINE p == At(block[inode[d].blocks])
  <2>3. round_up(n) = 0 => IsHeader(b[p]) /\ b[p].inode = i /\ b[p].rec = 0
    <3> SUFFICES ASSUME round_up(n) = 0
                 PROVE  IsHeader(b[p]) /\ b[p].inode = i /\ b[p].rec = 0
      OBVIOUS
    <3>1. n \in AnyName /\ Proper(n, round_up(n))
      BY RoundUp, Sizes DEF AnyName, Proper
    <3>2. Record(n, i, round_up(n)) \in Header
      BY <3>1, Headers DEF Record
    <3> HIDE DEF p, b
    <3> QED
      BY <2>2, <3>2, Headers, RecordFields DEF p, b
  <2> QED
    BY <2>2, <2>3
<1>3. ASSUME NEW n \in Name, abyssfs_create(n)
      PROVE  Goal
  <2>1. PICK j \in Inode : FirstOf(j, FreeInodes) /\ inode' = Allocated(j)
                           /\ create_file(Allocated(j), block, n, j)
    BY <1>3 DEF abyssfs_create
  <2>2. j \in FreeInodes /\ mode = "run"
    BY <1>3, <2>1 DEF FirstOf, abyssfs_create
  <2>3. \A k \in Inode \ {j} : Allocated(j)[k] = inode[k]
    BY <1>1 DEF Allocated
  <2>4. PICK nodes, blks : nodes = Allocated(j) /\ blks = block
    OBVIOUS
  <2>5. create_file(nodes, blks, n, j) /\ inode' = nodes
    BY <2>1, <2>4
  <2>6. Begun(nodes, blks, j)
    BY <1>1, <2>3, <2>4, Types DEF Begun
  <2> HIDE DEF Goal
  <2> QED
    BY <1>2, <2>2, <2>5, <2>6
<1>4. ASSUME NEW n \in Name, abyssfs_mkdir(n)
      PROVE  Goal
  <2>1. mode = "run" /\ \E j \in Inode :
          /\ FirstOf(j, FreeInodes)
          /\ \/ FreeBlocks = {} /\ block' = block
             \/ \E c \in DataBlock :
                  LET nodes == [inode EXCEPT ![j] = [mode |-> "dir", blocks |-> c]]
                  IN  /\ alloc_block(c) /\ inode' = nodes
                      /\ create_file(nodes, WithDots(j, c), n, j)
    BY <1>4 DEF abyssfs_mkdir
  <2>2. PICK j \in Inode :
          /\ FirstOf(j, FreeInodes)
          /\ \/ FreeBlocks = {} /\ block' = block
             \/ \E c \in DataBlock :
                  LET nodes == [inode EXCEPT ![j] = [mode |-> "dir", blocks |-> c]]
                  IN  /\ alloc_block(c) /\ inode' = nodes
                      /\ create_file(nodes, WithDots(j, c), n, j)
    BY <2>1
  <2>3. CASE FreeBlocks = {} /\ block' = block
    BY <2>3
  <2>4. ASSUME NEW c \in DataBlock, NEW nodes,
               nodes = [inode EXCEPT ![j] = [mode |-> "dir", blocks |-> c]],
               alloc_block(c), inode' = nodes, create_file(nodes, WithDots(j, c), n, j)
        PROVE  Goal
    <3>1. j \in FreeInodes /\ \A k \in Inode \ {j} : nodes[k] = inode[k]
      BY <1>1, <2>2, <2>4 DEF FirstOf
    <3>2. Begun(nodes, WithDots(j, c), j)
      BY <2>1, <2>4, <3>1, MkdirTables
    <3>3. PICK blks : blks = WithDots(j, c)
      OBVIOUS
    <3>4. create_file(nodes, blks, n, j) /\ Begun(nodes, blks, j)
      BY <2>4, <3>2, <3>3
    <3> HIDE DEF Goal
    <3> QED
      BY <1>2, <2>1, <2>4, <3>1, <3>4
  <2> HIDE DEF Goal
  <2> QED
    BY <2>2, <2>3, <2>4
<1>5. ASSUME inode' = inode
      PROVE  Goal
  BY <1>5
<1>6. ASSUME NEW n, abyssfs_unlink(n)
      PROVE  Goal
  <2>1. inode' = inode \/ \E j : inode' = Freed(j)
    BY <1>6 DEF abyssfs_unlink
  <2> HIDE DEF Goal
  <2> QED
    BY <1>1, <1>5, <2>1 DEF Freed, Node
<1>7. ASSUME remove_recursive_root
      PROVE  Goal
  <2>1. PICK gone : inode' = [j \in Inode |-> IF j \in gone THEN [inode[j] EXCEPT !.mode = "free"]
                                              ELSE inode[j]]
    BY <1>7 DEF remove_recursive_root
  <2> QED
    BY <1>1, <2>1 DEF Node
<1>8. ASSUME NEW j \in Inode, abyssfs_write(j)
      PROVE  Goal
  <2>1. \/ inode' = inode
        \/ \E c : inode' = [inode EXCEPT ![j].blocks = c]
    BY <1>8 DEF abyssfs_write, write_to_blocks
  <2> HIDE DEF Goal
  <2> QED
    BY <1>1, <1>5, <2>1 DEF Node
<1>9. ASSUME NEW n, abyssfs_remove_recursive(n)
      PROVE  Goal
  <2> HIDE DEF Goal
  <2> QED
    BY <1>5, <1>6, <1>9 DEF abyssfs_remove_recursive
<1>10. ASSUME NEW path \in Cwd, cmd_cd(path)
       PROVE  Goal
  BY <1>5, <1>10 DEF cmd_cd
<1>11. ASSUME abyssfs_open
       PROVE  Goal
  BY <1>5, <1>11 DEF abyssfs_open
<1> HIDE DEF Goal
<1>12. Goal
  BY <1>3, <1>4, <1>6, <1>7, <1>8, <1>9, <1>10, <1>11 DEF Next
<1> QED
  BY <1>12 DEF Goal

(* Whatever a directory shows, of itself or of an earlier directory in its *)
(* block, a new entry that create_file links into it is shown behind that. *)
THEOREM NewEntriesListed == Spec => NewEntriesAreListed
<1>1. ASSUME AbyssInv, [Next]_vars
      PROVE  [\A i \in Inode, d \in Dirs :
                /\ inode[i].mode = "free" /\ inode'[i].mode # "free"
                /\ d = get_inode_by_path(inode, block, cwd) /\ mode' = "run"
                => LET b == block'[inode[d].blocks]
                   IN  \/ \E n \in Name :
                            EntriesOf(d)' = Append(EntriesOf(d), [name |-> n, inode |-> i])
                       \/ FreeBlocks = {} /\ block' = block
                       \/ /\ EntriesOf(d)' = EntriesOf(d)
                          /\ \E p \in Pos : IsHeader(b[p]) /\ b[p].inode = i /\ b[p].rec = 0]_vars
  BY <1>1, NewEntries
<1> QED
  BY <1>1, Invariance, PTL DEF Spec, NewEntriesAreListed

--------------------------------------------------------------------------------
(* The lists of entries that Directories speaks of.                        *)

lists == [d \in Inode |-> IF d \in Dirs THEN EntriesOf(d) ELSE << >>]

(* What a directory shows while the program runs: as many entries as its   *)
(* walk passes, each the entry of a record.                                *)
LEMMA RunList ==
  ASSUME AbyssInv, mode = "run", NEW d \in Dirs
  PROVE  LET b == block[inode[d].blocks]
             m == Len(Chain(b)) - 2
         IN  /\ d \in Inode /\ lists[d] = Entries(b) /\ m \in Nat
             /\ lists[d] \in Seq([name : Name, inode : Inode])
             /\ Len(lists[d]) = m /\ DOMAIN lists[d] = 1 .. m
             /\ \A k \in 1 .. m : lists[d][k].inode \in Holders
<1> DEFINE b == block[inode[d].blocks]
           m == Len(Chain(b)) - 2
           es == Entries(b)
           E == [name : Name, inode : Inode]
<1>1. d \in Inode /\ inode[d].mode = "dir"
  BY DEF Dirs
<1>2. b \in Block /\ StartsWithDots(b)
  BY <1>1, DirBlocks
<1>3. es = EntriesOf(d) /\ lists[d] = es
  BY <1>1 DEF EntriesOf, lists
<1>4. m \in Nat /\ Len(es) = m /\ DOMAIN es = 1 .. m /\ es \in Seq(Entry)
  BY <1>2, EntriesParts
<1>5. ASSUME NEW k \in 1 .. m
      PROVE  es[k] \in E /\ es[k].inode \in Holders
  <2>1. k \in DOMAIN EntriesOf(d)
    BY <1>3, <1>4
  <2>2. EntriesOf(d)[k].name \in Name
    BY <2>1, EntriesAreRecords
  <2>3. PICK r \in Records : Names(r) = EntriesOf(d)[k].inode
    BY <2>1, EntriesAreRecords
  <2>4. Names(r) \in Inode /\ inode[Names(r)].mode # "free"
    BY <2>3, InvParts, NamesInodes DEF RecordsNameOne
  <2>5. es[k] \in Entry
    <3> HIDE DEF es, m
    <3> QED
      BY <1>4, ElementOfSeq
  <2> QED
    BY <1>3, <2>2, <2>3, <2>4, <2>5 DEF Entry, Holders
<1> HIDE DEF es, b
<1>6. es \in Seq(E)
  <2>1. es = [k \in 1 .. m |-> es[k]]
    BY <1>4, SeqDef
  <2> HIDE DEF E, m
  <2>2. es \in [1 .. m -> E]
    BY <1>5, <2>1
  <2> QED
    BY <1>4, <2>2, SeqDef
<1> QED
  BY <1>1, <1>3, <1>4, <1>5, <1>6 DEF es, b

(* Lists and the inodes that they name, at the beginning of a call.        *)
LEMMA RunLists ==
  ASSUME AbyssInv, mode = "run"
  PROVE  /\ lists \in [Inode -> Seq([name : Name, inode : Inode])]
         /\ Lists!Linked(lists) \subseteq Holders
         /\ Root \in Dirs /\ Root \in Holders
         /\ \A d \in Inode : d \notin Dirs => lists[d] = << >>
<1>1. \A d \in Inode : IF d \in Dirs THEN lists[d] \in Seq([name : Name, inode : Inode])
                       ELSE lists[d] = << >>
  BY RunList DEF lists
<1>2. lists \in [Inode -> Seq([name : Name, inode : Inode])]
  <2>1. lists = [d \in Inode |-> lists[d]]
    BY DEF lists
  <2>2. << >> \in Seq([name : Name, inode : Inode])
    OBVIOUS
  <2> QED
    BY <1>1, <2>1, <2>2
<1>3. ASSUME NEW x \in Lists!Linked(lists)
      PROVE  x \in Holders
  <2>1. PICK d \in Inode : \E k \in DOMAIN lists[d] : x = lists[d][k].inode
    BY <1>3 DEF Lists!Linked, Lists!Inodes
  <2>2. CASE d \in Dirs
    BY <2>1, <2>2, RunList
  <2>3. CASE d \notin Dirs
    BY <1>1, <2>1, <2>3
  <2> QED
    BY <2>2, <2>3
<1>4. Root \in Dirs /\ Root \in Holders
  BY RootRuns, Numbers DEF Dirs, Holders
<1> QED
  BY <1>1, <1>2, <1>3, <1>4

LEMMA ListsInit ==
  ASSUME Init
  PROVE  Lists!Init
<1> DEFINE bare == Dots(ZeroBlock, Root)
<1>1. AbyssInv /\ mode = "run" /\ handles = {}
  BY InitInv DEF Init
<1>2. /\ bare \in Block /\ StartsWithDots(bare) /\ Len(Entries(bare)) = 0
      /\ \A n \in Name : ~Overflows(bare, n)
  <2>1. PICK end \in Pos : IsList(bare, {0, 2}, end)
    BY FirstList
  <2>2. bare \in Block /\ \A n \in Name : ~Overflows(bare, n)
    BY FirstList
  <2> HIDE DEF bare
  <2>3. StartsWithDots(bare) /\ Passed(bare) = {0, 2}
    BY <2>1, <2>2, ListStarts, ListPassed
  <2>4. LET m == Len(Chain(bare)) - 2
        IN  /\ m \in Nat /\ Len(Entries(bare)) = m
            /\ \A k \in 1 .. m : Nth(bare, k) \in Passed(bare) /\ Nth(bare, k) \in Pos \ {0, 2}
    BY <2>2, <2>3, EntriesParts
  <2>5. ~ (1 \in 1 .. (Len(Chain(bare)) - 2))
    BY <2>3, <2>4
  <2> QED
    BY <2>2, <2>3, <2>4, <2>5
<1>3. block[RootBlock] \in {bare, Appended(bare, TestFile, 2)}
  BY Numbers DEF Init, test_abyssfs
<1>4. Len(lists[Root]) <= 1
  <2>1. lists[Root] = Entries(block[RootBlock])
    BY <1>1, RunLists, RunList, RootRuns
  <2>2. TestFile \in Name /\ 2 \in Inode
    BY Sizes, AbyssAssumption DEF Inode
  <2>3. Len(Entries(Appended(bare, TestFile, 2))) <= 1
    <3>1. Entries(Appended(bare, TestFile, 2)) =
            IF round_up(TestFile) = 0 THEN Entries(bare)
            ELSE Append(Entries(bare), [name |-> TestFile, inode |-> 2])
      <4> HIDE DEF bare
      <4> QED
        BY <1>2, <2>2, AppendedEntries
    <3>2. Entries(bare) \in Seq(Entry)
      BY <1>2, EntriesParts
    <3>3. [name |-> TestFile, inode |-> 2] \in Entry
      BY <2>2 DEF Entry, AnyName
    <3>4. \A s \in Seq(Entry), x \in Entry : Len(s) = 0 => Len(Append(s, x)) <= 1
      BY AppendProperties
    <3> DEFINE es == Entries(bare)
               x == [name |-> TestFile, inode |-> 2]
               grown == Entries(Appended(bare, TestFile, 2))
    <3>5. /\ es \in Seq(Entry) /\ Len(es) = 0 /\ x \in Entry
          /\ grown = es \/ grown = Append(es, x)
      BY <1>2, <3>1, <3>2, <3>3
    <3> HIDE DEF es, x, grown
    <3>6. Len(grown) <= 1
      <4>1. Len(Append(es, x)) <= 1 /\ 0 <= 1
        BY <3>4, <3>5
      <4> QED
        BY <3>5, <4>1, Zenon
    <3> QED
      BY <3>6 DEF grown
  <2> HIDE DEF bare
  <2> QED
    BY <1>2, <1>3, <2>1, <2>3
<1>5. \A d \in Inode \ {Root} : lists[d] = << >>
  BY <1>1, RunLists, Numbers DEF Init, Dirs
<1>6. Holders \subseteq Inode
  BY DEF Holders
<1>7. /\ lists \in [Inode -> Seq([name : Name, inode : Inode])]
      /\ Lists!Linked(lists) \subseteq Holders /\ Root \in Holders
  BY <1>1, RunLists
<1> QED
  BY <1>1, <1>4, <1>5, <1>6, <1>7 DEF Lists!Init, lists

(* What a call that takes inode i makes of the lists: the list of i if it  *)
(* is a directory, and one more entry of the working directory.            *)
LEMMA MakeLists ==
  ASSUME AbyssInv, mode = "run", NEW i \in FreeInodes, NEW nodes, NEW blks,
         Begun(nodes, blks, i), inode' = nodes, nodes[i].mode # "free",
         NEW own, own = IF nodes[i].mode = "dir" THEN Entries(blks[nodes[i].blocks]) ELSE << >>,
         nodes[i].mode = "dir" => \A j \in Holders : inode[j].blocks # nodes[i].blocks,
         \A k \in DOMAIN own : own[k].inode \in Holders /\ own[k].inode \notin Lists!Linked(lists),
         \A j, k \in DOMAIN own : own[j].inode = own[k].inode => j = k,
         NEW n \in Name, block' = blks \/ create_file(nodes, blks, n, i)
  PROVE  Lists!Make(lists, lists', Holders, Holders') /\ i \in Holders'
<1> DEFINE begun == [lists EXCEPT ![i] = own]
           d == get_inode_by_path(inode, block, cwd)
           a == inode[d].blocks
           e == [name |-> n, inode |-> i]
<1>1. /\ i \in Inode /\ i # 0 /\ inode[i].mode = "free" /\ i \notin Dirs /\ i \notin Holders
      /\ blks \in [DataBlock -> Block]
      /\ \A j \in Inode \ {i} : nodes[j] = inode[j]
      /\ \A j \in Holders : inode[j].blocks # NoBlock =>
           blks[inode[j].blocks] = block[inode[j].blocks]
  BY DEF FreeInodes, Begun, Dirs, Holders
<1>2. Holders' = Holders \cup {i}
  <2>1. \A j \in Inode : j \in Holders' <=> j \in Holders \/ j = i
    BY <1>1 DEF Holders
  <2> QED
    BY <1>1, <2>1 DEF Holders
<1>3. /\ lists' = [j \in Inode |-> lists'[j]]
      /\ \A j \in Inode : lists'[j] = IF nodes[j].mode = "dir" THEN Entries(block'[nodes[j].blocks])
                                      ELSE << >>
      /\ \A j \in Inode : lists[j] = IF inode[j].mode = "dir" THEN Entries(block[inode[j].blocks])
                                     ELSE << >>
  BY DEF lists, Dirs, EntriesOf
<1>4. /\ begun = [j \in Inode |-> begun[j]] /\ begun[i] = own
      /\ \A j \in Inode \ {i} : begun[j] = lists[j]
  BY <1>1 DEF lists
<1> HIDE DEF begun
<1>5. \A j \in Inode : begun[j] = IF nodes[j].mode = "dir" THEN Entries(blks[nodes[j].blocks])
                                 ELSE << >>
  <2> SUFFICES ASSUME NEW j \in Inode
               PROVE  begun[j] = IF nodes[j].mode = "dir" THEN Entries(blks[nodes[j].blocks])
                                 ELSE << >>
    OBVIOUS
  <2>1. CASE j = i
    BY <1>4, <2>1
  <2>2. CASE j # i /\ inode[j].mode = "dir"
    <3>1. j \in Holders /\ inode[j].blocks # NoBlock
      BY <2>2, DirBlocks, Numbers
    <3> QED
      BY <1>1, <1>3, <1>4, <2>2, <3>1
  <2>3. CASE j # i /\ inode[j].mode # "dir"
    BY <1>1, <1>3, <1>4, <2>3
  <2> QED
    BY <2>1, <2>2, <2>3
<1>6. /\ Lists!Inodes(own) \subseteq Holders \ Lists!Linked(lists)
      /\ Holders' = Holders \cup {i} /\ i \in Inode \ Holders
  BY <1>1, <1>2 DEF Lists!Inodes
<1>7. ASSUME block' = blks
      PROVE  lists' = begun
  BY <1>3, <1>4, <1>5, <1>7
<1>8. ASSUME create_file(nodes, blks, n, i)
      PROVE  \/ lists' = begun
             \/ d \in Inode \ {i} /\ lists' = [begun EXCEPT ![d] = Append(@, e)]
  <2>1. /\ d # NoInode => d \in Inode \ {i} /\ inode[d].mode # "free"
        /\ DirBlock(nodes, blks) = IF d = NoInode THEN NoBlock ELSE a
    BY WalkStays
  <2> HIDE DEF d
  <2>2. CASE block' = blks
    BY <1>7, <2>2
  <2>3. CASE block' # blks
    <3>1. /\ d # NoInode /\ a # NoBlock /\ ~Overflows(blks[a], n)
          /\ block' = [blks EXCEPT ![a] = Appended(@, n, i)]
      BY <1>8, <2>1, <2>3 DEF create_file
    <3>2. /\ d \in Inode \ {i} /\ d \in Holders /\ a \in DataBlock /\ blks[a] = block[a]
      BY <1>1, <2>1, <3>1, InvParts, Types DEF Holders
    <3>3. block'[a] = Appended(block[a], n, i) /\ \A c : c # a => block'[c] = blks[c]
      BY <1>1, <3>1, <3>2
    <3>4. \A j \in Inode \ {d} : lists'[j] = begun[j]
      <4> SUFFICES ASSUME NEW j \in Inode \ {d}, nodes[j].mode = "dir"
                   PROVE  nodes[j].blocks # a
        BY <1>3, <1>5, <3>3
      <4>1. CASE j = i
        BY <3>2, <4>1
      <4>2. CASE j # i
        <5>1. nodes[j] = inode[j] /\ j \in Holders
          BY <1>1, <4>2 DEF Holders
        <5> QED
          BY <3>1, <3>2, <5>1, InvParts DEF BlocksHaveOneOwner
      <4> QED
        BY <4>1, <4>2
    <3>5. CASE inode[d].mode # "dir"
      <4>1. lists'[d] = begun[d]
        BY <1>1, <1>3, <1>5, <3>2, <3>5
      <4> QED
        BY <1>3, <1>4, <3>4, <4>1
    <3>6. CASE inode[d].mode = "dir"
      <4>1. StartsWithDots(block[a]) /\ block[a] \in Block
        BY <3>2, <3>6, DirBlocks
      <4>2. Entries(block'[a]) = IF round_up(n) = 0 THEN Entries(block[a])
                                 ELSE Append(Entries(block[a]), e)
        <5>1. ~Overflows(block[a], n) /\ i \in Inode /\ block'[a] = Appended(block[a], n, i)
          BY <1>1, <3>1, <3>2, <3>3
        <5>2. PICK was : was = block[a]
          OBVIOUS
        <5>3. /\ StartsWithDots(was) /\ was \in Block /\ ~Overflows(was, n)
              /\ i \in Inode /\ n \in Name
          BY <4>1, <5>1, <5>2
        <5>4. Entries(Appended(was, n, i)) = IF round_up(n) = 0 THEN Entries(was)
                                             ELSE Append(Entries(was), [name |-> n, inode |-> i])
          BY <5>3, AppendedEntries
        <5> HIDE DEF a
        <5> QED
          BY <5>1, <5>2, <5>4
      <4>3. lists'[d] = Entries(block'[a]) /\ begun[d] = Entries(block[a])
        BY <1>1, <1>3, <1>5, <3>2, <3>6
      <4> HIDE DEF e
      <4>4. CASE round_up(n) = 0
        <5>1. lists'[d] = begun[d]
          BY <4>2, <4>3, <4>4
        <5> QED
          BY <1>3, <1>4, <3>4, <5>1
      <4>5. CASE round_up(n) # 0
        <5>1. lists'[d] = Append(begun[d], e)
          BY <4>2, <4>3, <4>5
        <5>2. lists' = [begun EXCEPT ![d] = Append(@, e)]
          BY <1>3, <1>4, <3>2, <3>4, <5>1
        <5> QED
          BY <3>2, <5>2
      <4> QED
        BY <4>4, <4>5
    <3> QED
      BY <3>5, <3>6
  <2> QED
    BY <2>2, <2>3
<1> HIDE DEF d, e
<1>9. /\ lists' = begun \/ \E c \in Inode \ {i} : lists' = [begun EXCEPT ![c] = Append(@, e)]
      /\ lists'[i] = own /\ begun = [lists EXCEPT ![i] = lists'[i]]
  <2>1. lists' = begun \/ \E c \in Inode \ {i} : lists' = [begun EXCEPT ![c] = Append(@, e)]
    BY <1>7, <1>8
  <2>2. lists'[i] = own
    BY <1>1, <1>4, <2>1
  <2> QED
    BY <2>1, <2>2 DEF begun
<1>10. PICK old, new, was, now : old = lists /\ new = lists' /\ was = Holders /\ now = Holders'
  OBVIOUS
<1>11. /\ i \in Inode \ was /\ now = was \cup {i}
       /\ Lists!Inodes(new[i]) \subseteq was \ Lists!Linked(old)
       /\ \A j, k \in DOMAIN new[i] : new[i][j].inode = new[i][k].inode => j = k
       /\ new = [old EXCEPT ![i] = new[i]]
            \/ \E c \in Inode \ {i} : new = [[old EXCEPT ![i] = new[i]] EXCEPT ![c] = Append(@, e)]
  BY <1>6, <1>9, <1>10
<1>12. ASSUME NEW c \in Inode \ {i},
              new = [[old EXCEPT ![i] = new[i]] EXCEPT ![c] = Append(@, e)]
       PROVE  /\ new[c] # << >> /\ Lists!Last(new[c]) = e /\ e.inode = i
  <2> DEFINE E == [name : Name, inode : Inode]
  <2>1. old \in [Inode -> Seq(E)] /\ e \in E /\ e.inode = i
    BY <1>1, <1>10, RunLists DEF e
  <2>2. new[c] = Append(old[c], e) /\ old[c] \in Seq(E)
    BY <1>12, <2>1
  <2> HIDE DEF E
  <2>3. /\ Len(new[c]) = Len(old[c]) + 1 /\ new[c][Len(old[c]) + 1] = e /\ new[c] # << >>
    BY <2>1, <2>2, AppendProperties
  <2> QED
    BY <2>1, <2>3 DEF Lists!Last
<1>13. Lists!Make(old, new, was, now)
  BY <1>11, <1>12 DEF Lists!Make
<1> QED
  BY <1>2, <1>10, <1>13

(* Removing the k-th and dropping the first of a sequence, as functions.   *)
LEMMA RemovedAt ==
  ASSUME NEW S, NEW s \in Seq(S), NEW k \in 1 .. Len(s)
  PROVE  Lists!RemoveAt(s, k) = Left(s, k)
<1> DEFINE head == SubSeq(s, 1, k - 1)
           tail == SubSeq(s, k + 1, Len(s))
           n == Len(s)
<1>1. n \in Nat /\ k \in Int /\ 1 <= k /\ k <= n /\ \A i \in 1 .. n : s[i] \in S
  BY LenProperties, ElementOfSeq
<1>2. /\ head \in Seq(S) /\ Len(head) = k - 1
      /\ \A i \in 1 .. (k - 1) : head[i] = s[i]
  <2>1. \A i \in 1 .. (k - 1) : s[i] \in S
    BY <1>1
  <2>2. 1 \in Int /\ k - 1 \in Int
    BY <1>1
  <2>3. /\ head \in Seq(S)
        /\ Len(head) = IF 1 <= k - 1 THEN k - 1 - 1 + 1 ELSE 0
        /\ \A i \in 1 .. (k - 1) - 1 + 1 : head[i] = s[1 + i - 1]
    BY <2>1, <2>2, SubSeqProperties
  <2> HIDE DEF head
  <2> QED
    BY <1>1, <2>3
<1>3. /\ tail \in Seq(S) /\ Len(tail) = n - k
      /\ \A i \in 1 .. (n - k) : tail[i] = s[k + i]
  <2>1. \A i \in (k + 1) .. n : s[i] \in S
    BY <1>1
  <2>2. k + 1 \in Int /\ n \in Int
    BY <1>1
  <2>3. /\ tail \in Seq(S)
        /\ Len(tail) = IF k + 1 <= n THEN n - (k + 1) + 1 ELSE 0
        /\ \A i \in 1 .. n - (k + 1) + 1 : tail[i] = s[k + 1 + i - 1]
    BY <2>1, <2>2, SubSeqProperties
  <2> HIDE DEF tail, n
  <2> QED
    BY <1>1, <2>3
<1> DEFINE both == head \o tail
<1> HIDE DEF head, tail, n
<1>4. /\ both \in Seq(S) /\ Len(both) = n - 1
      /\ \A i \in 1 .. (n - 1) : both[i] = IF i < k THEN s[i] ELSE s[i + 1]
  <2>1. /\ both \in Seq(S)
        /\ Len(both) = Len(head) + Len(tail)
        /\ \A i \in 1 .. Len(head) + Len(tail) :
             both[i] = IF i <= Len(head) THEN head[i] ELSE tail[i - Len(head)]
    BY <1>2, <1>3, ConcatProperties
  <2> HIDE DEF both
  <2>2. Len(head) + Len(tail) = n - 1 /\ Len(head) = k - 1
    BY <1>1, <1>2, <1>3
  <2>3. \A i \in 1 .. (n - 1) : both[i] = IF i <= k - 1 THEN head[i] ELSE tail[i - (k - 1)]
    BY <2>1, <2>2
  <2>4. ASSUME NEW i \in 1 .. (n - 1)
        PROVE  both[i] = IF i < k THEN s[i] ELSE s[i + 1]
    <3>1. CASE i < k
      <4>1. i <= k - 1 /\ i \in 1 .. (k - 1)
        BY <1>1, <3>1
      <4> QED
        BY <1>2, <2>3, <3>1, <4>1
    <3>2. CASE ~ (i < k)
      <4>1. ~ (i <= k - 1) /\ i - (k - 1) \in 1 .. (n - k) /\ k + (i - (k - 1)) = i + 1
        BY <1>1, <3>2
      <4>2. tail[i - (k - 1)] = s[i + 1]
        BY <1>3, <4>1
      <4> QED
        BY <2>3, <3>2, <4>1, <4>2
    <3> QED
      BY <3>1, <3>2
  <2>5. Len(both) = n - 1
    BY <2>1, <2>2
  <2> QED
    BY <2>1, <2>4, <2>5
<1> HIDE DEF both
<1>5. both = Left(s, k)
  <2>1. both = [i \in 1 .. (n - 1) |-> both[i]]
    BY <1>4, SeqDef
  <2>2. both = [i \in 1 .. (n - 1) |-> IF i < k THEN s[i] ELSE s[i + 1]]
    BY <1>4, <2>1
  <2> QED
    BY <2>2 DEF Left, n
<1> QED
  BY <1>5 DEF Lists!RemoveAt, head, tail, n, both

LEMMA Dropped ==
  ASSUME NEW S, NEW s \in Seq(S), NEW r \in Nat, NEW m,
         m = IF r <= Len(s) THEN r ELSE Len(s)
  PROVE  SubSeq(s, r + 1, Len(s)) = Behind(s, m)
<1> DEFINE tail == SubSeq(s, r + 1, Len(s))
           n == Len(s)
<1>1. n \in Nat /\ m \in Nat /\ m <= n /\ \A i \in 1 .. n : s[i] \in S
  BY LenProperties, ElementOfSeq
<1>2. /\ tail \in Seq(S) /\ Len(tail) = n - m
      /\ \A i \in 1 .. (n - m) : tail[i] = s[i + m]
  <2>1. \A i \in (r + 1) .. n : s[i] \in S
    BY <1>1
  <2>2. r + 1 \in Int /\ n \in Int
    BY <1>1
  <2>3. /\ tail \in Seq(S)
        /\ Len(tail) = IF r + 1 <= n THEN n - (r + 1) + 1 ELSE 0
        /\ \A i \in 1 .. n - (r + 1) + 1 : tail[i] = s[r + 1 + i - 1]
    BY <2>1, <2>2, SubSeqProperties
  <2> HIDE DEF tail
  <2>4. m = IF r <= n THEN r ELSE n
    OBVIOUS
  <2> HIDE DEF n
  <2>5. Len(tail) = n - m
    <3>1. Len(tail) = IF r + 1 <= n THEN n - (r + 1) + 1 ELSE 0
      BY <2>3
    <3>2. CASE r <= n
      <4>1. m = r
        BY <2>4, <3>2
      <4>2. (IF r + 1 <= n THEN n - (r + 1) + 1 ELSE 0) = n - r
        BY <1>1, <3>2
      <4> QED
        BY <3>1, <4>1, <4>2
    <3>3. CASE ~ (r <= n)
      <4>1. m = n
        BY <2>4, <3>3
      <4>2. (IF r + 1 <= n THEN n - (r + 1) + 1 ELSE 0) = n - n
        BY <1>1, <3>3
      <4> QED
        BY <3>1, <4>1, <4>2
    <3> QED
      BY <3>2, <3>3
  <2>6. \A i \in 1 .. (n - m) : i \in 1 .. n - (r + 1) + 1 /\ r + 1 + i - 1 = i + m
    BY <1>1, <2>4
  <2> QED
    BY <2>3, <2>5, <2>6
<1> HIDE DEF tail, n
<1>3. tail = [i \in 1 .. (n - m) |-> tail[i]]
  BY <1>2, SeqDef
<1>4. tail = Behind(s, m)
  <2>1. tail = [i \in 1 .. (n - m) |-> s[i + m]]
    BY <1>2, <1>3
  <2> QED
    BY <2>1 DEF Behind, n
<1> QED
  BY <1>4 DEF tail

(* The lists after inodes were freed and entries of the root taken away.   *)
LEMMA ListsFreed ==
  ASSUME AbyssInv, mode = "run", NEW G \in SUBSET Holders, 0 \notin G, NEW new,
         inode' = [j \in Inode |-> IF j \in G THEN [inode[j] EXCEPT !.mode = "free"]
                                   ELSE inode[j]],
         block' = [block EXCEPT ![RootBlock] = new]
  PROVE  /\ Holders' = Holders \ G
         /\ lists' = [j \in Inode |-> IF j \in G THEN << >>
                                      ELSE IF j = Root THEN Entries(new) ELSE lists[j]]
<1>1. /\ TypeOK /\ G \subseteq Inode /\ 0 \in Holders
      /\ block \in [DataBlock -> Block]
  BY InvParts, Types, Numbers DEF Holders
<1>2. \A j \in Inode : IF j \in G THEN inode'[j].mode = "free" ELSE inode'[j] = inode[j]
  BY <1>1, InodesFreed
<1>3. Holders' = Holders \ G
  <2>1. \A j \in Inode : j \in Holders' <=> j \in Holders /\ j \notin G
    BY <1>2 DEF Holders
  <2> QED
    BY <1>1, <2>1 DEF Holders
<1>4. /\ lists' = [j \in Inode |-> lists'[j]]
      /\ \A j \in Inode : lists'[j] = IF inode'[j].mode = "dir" THEN Entries(block'[inode'[j].blocks])
                                      ELSE << >>
      /\ \A j \in Inode : lists[j] = IF inode[j].mode = "dir" THEN Entries(block[inode[j].blocks])
                                     ELSE << >>
  BY DEF lists, Dirs, EntriesOf
<1>5. block'[RootBlock] = new /\ \A b \in DataBlock \ {RootBlock} : block'[b] = block[b]
  BY <1>1, Numbers
<1>6. \A j \in Inode : lists'[j] = IF j \in G THEN << >>
                                   ELSE IF j = Root THEN Entries(new) ELSE lists[j]
  <2> SUFFICES ASSUME NEW j \in Inode, j \notin G
               PROVE  lists'[j] = IF j = Root THEN Entries(new) ELSE lists[j]
    BY <1>2, <1>4
  <2>1. CASE j = Root
    BY <1>2, <1>4, <1>5, <2>1, RootRuns
  <2>2. CASE j # Root /\ inode[j].mode = "dir"
    <3>1. inode[j].blocks \in DataBlock \ {RootBlock}
      BY <2>2, DirBlocks, RootRuns
    <3> QED
      BY <1>2, <1>4, <1>5, <2>2, <3>1
  <2>3. CASE j # Root /\ inode[j].mode # "dir"
    BY <1>2, <1>4, <2>3
  <2> QED
    BY <2>1, <2>2, <2>3
<1> QED
  BY <1>3, <1>4, <1>6

(* The entry that a search comes to is the first of its name.              *)
LEMMA FirstNamed ==
  ASSUME NEW b \in Block, StartsWithDots(b), NEW n, NEW p, FirstOf(p, Found(b, n)),
         NEW k \in 1 .. (Len(Chain(b)) - 2), p = Nth(b, k)
  PROVE  Lists!First(k, Entries(b))
<1> DEFINE es == Entries(b)
           m == Len(Chain(b)) - 2
<1>1. /\ \A x \in 1 .. m : /\ Nth(b, x) \in Passed(b) /\ Nth(b, x) \in Pos
                           /\ es[x].name = b[Nth(b, x)].name
      /\ m \in Nat
  BY EntriesParts
<1>2. \A x, y \in 1 .. m : x < y => Nth(b, x) < Nth(b, y)
  <2> DEFINE c == Chain(b)
  <2>1. Len(c) \in Nat /\ DOMAIN c = 1 .. Len(c) /\ Rises(c)
    BY DotsFirst
  <2>2. \A x, y \in 1 .. m : x < y => x + 2 \in DOMAIN c /\ y + 2 \in DOMAIN c /\ x + 2 < y + 2
    BY <2>1
  <2> QED
    BY <2>1, <2>2 DEF Rises, Nth
<1>3. p \in Found(b, n) /\ b[p].name = n /\ \A y \in Found(b, n) : p <= y
  BY FoundWords DEF FirstOf
<1> HIDE DEF es, m
<1>4. ASSUME NEW j \in 1 .. (k - 1), es[j].name = es[k].name
      PROVE  FALSE
  <2>1. j \in 1 .. m /\ k \in 1 .. m /\ j < k
    BY <1>1 DEF m
  <2>2. b[Nth(b, j)].name = n
    BY <1>1, <1>3, <1>4, <2>1
  <2>3. Nth(b, j) \in Found(b, n)
    BY <1>1, <2>1, <2>2, PassedEntries
  <2>4. Nth(b, j) < p /\ p <= Nth(b, j) /\ Nth(b, j) \in Int /\ p \in Int
    BY <1>1, <1>2, <1>3, <2>1, <2>3, Places
  <2> QED
    BY <2>4
<1> QED
  BY <1>4 DEF Lists!First, es

LEMMA ListsRest ==
  ASSUME UNCHANGED <<inode, block>>
  PROVE  lists' = lists /\ Holders' = Holders
BY DEF lists, Dirs, EntriesOf, Holders

LEMMA ListsUnlinked ==
  ASSUME AbyssInv, NEW n, abyssfs_unlink(n)
  PROVE  Lists!Step(lists, lists', Holders, Holders', handles)
<1> DEFINE old == block[RootBlock]
<1>1. mode = "run" /\ TypeOK /\ old \in Block
  BY InvParts, Types, Numbers DEF abyssfs_unlink
<1>2. CASE UNCHANGED <<inode, block_bitmap, free_blocks, block, mode>>
  <2>1. lists' = lists /\ Holders' = Holders
    BY <1>2, ListsRest
  <2> QED
    BY <2>1 DEF Lists!Step
<1>3. ASSUME NEW p \in Pos, NEW i, i = block[RootBlock][p].inode,
             FirstOf(p, Found(block[RootBlock], n)), inode' = Freed(i),
             block' = [block EXCEPT ![RootBlock] = Without(@, p)]
      PROVE  Lists!Unlink(lists, lists', Holders, Holders')
               \/ Lists!Uproot(lists, lists', Holders, Holders')
  <2> DEFINE new == Without(old, p)
  <2>1. p \in Passed(old)
    BY <1>1, <1>3, FoundWords DEF FirstOf
  <2>2. /\ i \in Holders /\ i # 0
        /\ p \in {0, 2} => i = Root
        /\ p \notin {0, 2} => i # Root
    BY <1>1, <1>3, <2>1, RootEntries
  <2>3. PICK end \in Pos : IsList(old, Passed(old), end)
    BY <1>1, RootRuns
  <2>4. /\ lists[Root] = Entries(old) /\ StartsWithDots(old) /\ Root \in Inode
        /\ lists[Root] \in Seq([name : Name, inode : Inode])
        /\ Len(lists[Root]) = Len(Chain(old)) - 2
        /\ DOMAIN lists[Root] = 1 .. (Len(Chain(old)) - 2)
    BY <1>1, <2>3, RunList, RunLists, RootRuns, ListStarts
  <2>5. /\ Holders' = Holders \ {i}
        /\ lists' = [j \in Inode |-> IF j \in {i} THEN << >>
                                     ELSE IF j = Root THEN Entries(new) ELSE lists[j]]
    <3>1. {i} \in SUBSET Holders /\ 0 \notin {i} /\ i \in Inode
      BY <2>2 DEF Holders
    <3>2. inode' = [j \in Inode |-> IF j \in {i} THEN [inode[j] EXCEPT !.mode = "free"]
                                    ELSE inode[j]]
      BY <1>1, <1>3, <3>1, Types DEF Freed
    <3>3. block' = [block EXCEPT ![RootBlock] = new]
      BY <1>3
    <3> HIDE DEF new
    <3> QED
      BY <1>1, <3>1, <3>2, <3>3, ListsFreed
  <2>6. CASE p \in {0, 2}
    <3>1. i = Root
      BY <2>2, <2>6
    <3>2. lists' = [j \in Inode |-> IF j \in {Root} THEN << >> ELSE lists[j]]
      BY <2>5, <3>1
    <3>3. Lists!Uproot(lists, lists', Holders, Holders')
      BY <2>5, <3>1, <3>2 DEF Lists!Uproot, Lists!Empty
    <3> QED
      BY <3>3
  <2>7. CASE p \notin {0, 2}
    <3>1. PICK k \in 1 .. (Len(Chain(old)) - 2) : p = Nth(old, k)
      BY <1>1, <2>1, <2>4, <2>7, EntriesParts
    <3>2. Entries(old)[k].inode = i /\ Lists!First(k, Entries(old))
      BY <1>1, <1>3, <2>4, <3>1, EntriesParts, FirstNamed
    <3>3. Entries(new) = Left(Entries(old), k)
      BY <1>1, <2>3, <3>1, EntriesWithout
    <3>4. Lists!RemoveAt(lists[Root], k) = Entries(new)
      <4>1. k \in 1 .. Len(lists[Root])
        BY <2>4, <3>1
      <4>2. Lists!RemoveAt(lists[Root], k) = Left(lists[Root], k)
        BY <2>4, <4>1, RemovedAt
      <4> QED
        BY <2>4, <3>3, <4>2
    <3> HIDE DEF new
    <3>5. lists' = Lists!Empty([lists EXCEPT ![Root] = Lists!RemoveAt(@, k)], {i})
      <4> DEFINE less == [lists EXCEPT ![Root] = Lists!RemoveAt(@, k)]
      <4>1. \A j \in Inode : less[j] = IF j = Root THEN Entries(new) ELSE lists[j]
        <5>1. lists = [j \in Inode |-> lists[j]]
          BY DEF lists
        <5> QED
          BY <2>4, <3>4, <5>1
      <4> HIDE DEF less
      <4>2. lists' = Lists!Empty(less, {i})
        BY <2>5, <4>1 DEF Lists!Empty
      <4> QED
        BY <4>2 DEF less
    <3>6. k \in DOMAIN lists[Root] /\ lists[Root][k].inode = i /\ Lists!First(k, lists[Root])
      BY <2>4, <3>1, <3>2
    <3>7. Lists!Unlink(lists, lists', Holders, Holders')
      BY <2>5, <3>5, <3>6 DEF Lists!Unlink
    <3> QED
      BY <3>7
  <2> QED
    BY <2>6, <2>7
<1> QED
  BY <1>2, <1>3 DEF abyssfs_unlink, Lists!Step

LEMMA ListsEmptied ==
  ASSUME AbyssInv, remove_recursive_root
  PROVE  Lists!RemoveAll(lists, lists', Holders, Holders')
<1> DEFINE old == block[RootBlock]
           new == Emptied(old)
           r == Unlinked(Len(Chain(old)))
           m == Len(Chain(old)) - 2
           hits == {p \in Shown(old) : old[p].name \in Name}
           G == {old[p].inode : p \in hits}
           K == {k \in DOMAIN lists[Root] : k <= LISTED - 2}
           S == {lists[Root][k].inode : k \in K}
<1>1. /\ mode = "run"
      /\ inode' = [j \in Inode |-> IF j \in G THEN [inode[j] EXCEPT !.mode = "free"]
                                   ELSE inode[j]]
      /\ block' = [block EXCEPT ![RootBlock] = new]
  BY DEF remove_recursive_root
<1>2. PICK end \in Pos : IsList(old, Passed(old), end)
  BY <1>1, RootRuns
<1>3. old \in Block /\ StartsWithDots(old)
  BY <1>1, <1>2, RootRuns, ListStarts
<1>4. /\ lists[Root] = Entries(old) /\ Root \in Inode
      /\ lists[Root] \in Seq([name : Name, inode : Inode])
      /\ Len(lists[Root]) = m /\ DOMAIN lists[Root] = 1 .. m /\ m \in Nat
  BY <1>1, RunList, RunLists, RootRuns
<1>5. \A k \in 1 .. m : Nth(old, k) \in Passed(old) \ {0, 2}
                          /\ lists[Root][k].inode = old[Nth(old, k)].inode
  BY <1>3, <1>4, EntriesParts
<1>6. /\ \A k \in 1 .. r : Nth(old, k) \in Shown(old)
      /\ \A p \in Shown(old) \ {0, 2} : \E k \in 1 .. r : p = Nth(old, k)
  BY <1>2, <1>3, EmptiedEntries
<1>7. Entries(new) = Behind(Entries(old), r)
  BY <1>2, <1>3, EmptiedList
<1>8. /\ r = IF LISTED - 2 <= m THEN LISTED - 2 ELSE m
      /\ r \in Nat /\ r <= m /\ LISTED - 2 \in Nat
  <2>1. \A l, t \in Nat : l > 2 /\ t - 2 \in Nat =>
          LET u == IF t <= 2 THEN 0 ELSE IF t > l THEN l - 2 ELSE t - 2
          IN  /\ u = IF l - 2 <= t - 2 THEN l - 2 ELSE t - 2
              /\ u \in Nat /\ u <= t - 2 /\ l - 2 \in Nat
    OBVIOUS
  <2>2. Len(Chain(old)) \in Nat
    BY <1>3, DotsFirst
  <2>3. LISTED \in Nat /\ LISTED > 2
    BY AbyssAssumption
  <2>4. PICK t \in Nat : t = Len(Chain(old))
    BY <2>2
  <2>5. t - 2 \in Nat
    BY <1>4, <2>4
  <2>6. LET u == IF t <= 2 THEN 0 ELSE IF t > LISTED THEN LISTED - 2 ELSE t - 2
        IN  /\ u = IF LISTED - 2 <= t - 2 THEN LISTED - 2 ELSE t - 2
            /\ u \in Nat /\ u <= t - 2 /\ LISTED - 2 \in Nat
    BY <2>1, <2>3, <2>5
  <2> QED
    BY <2>4, <2>6 DEF Unlinked
<1>9. K = 1 .. r
  <2> HIDE DEF r, m
  <2>1. \A k \in 1 .. m : k <= LISTED - 2 <=> k <= r
    BY <1>4, <1>8
  <2>2. \A k : k \in 1 .. r <=> k \in 1 .. m /\ k <= r
    BY <1>4, <1>8
  <2>3. \A k : k \in K <=> k \in 1 .. r
    BY <1>4, <2>1, <2>2
  <2> QED
    BY <2>3
<1>10. \A k \in 1 .. r : k \in 1 .. m
  <2> HIDE DEF r, m
  <2> QED
    BY <1>4, <1>8
<1>11. \A p \in Passed(old) :
         /\ p \in {0, 2} <=> old[p].name \notin Name
         /\ old[p].inode \in Holders /\ old[p].inode # 0
         /\ p \notin {0, 2} => old[p].inode # Root
  BY <1>1, RootEntries
<1>12. Shown(old) \subseteq Passed(old)
  BY DEF Shown, Passed
<1> HIDE DEF r, m, K, old
<1>13. S = G
  <2>1. ASSUME NEW k \in 1 .. r
        PROVE  lists[Root][k].inode \in G
    <3>1. /\ Nth(old, k) \in Shown(old) /\ old[Nth(old, k)].name \in Name
          /\ lists[Root][k].inode = old[Nth(old, k)].inode
      BY <1>5, <1>6, <1>10, <1>11
    <3> QED
      BY <3>1
  <2>2. ASSUME NEW p \in hits
        PROVE  old[p].inode \in S
    <3>1. p \in Shown(old) \ {0, 2}
      BY <1>11, <1>12
    <3>2. PICK k \in 1 .. r : p = Nth(old, k)
      BY <1>6, <3>1
    <3>3. lists[Root][k].inode = old[p].inode
      BY <1>5, <1>10, <3>2
    <3> QED
      BY <1>9, <3>3
  <2>3. \A x \in S : x \in G
    BY <1>9, <2>1
  <2>4. \A x \in G : x \in S
    BY <2>2
  <2> QED
    BY <2>3, <2>4
<1>14. G \in SUBSET Holders /\ 0 \notin G /\ Root \notin G
  <2>1. \A p \in hits : p \in Passed(old) /\ p \notin {0, 2}
    BY <1>11, <1>12
  <2> QED
    BY <1>11, <2>1
<1> HIDE DEF G, S, hits, new
<1>15. /\ Holders' = Holders \ G
       /\ lists' = [j \in Inode |-> IF j \in G THEN << >>
                                    ELSE IF j = Root THEN Entries(new) ELSE lists[j]]
  BY <1>1, <1>14, ListsFreed
<1>16. SubSeq(lists[Root], LISTED - 2 + 1, Len(lists[Root])) = Entries(new)
  <2>1. r = IF LISTED - 2 <= Len(lists[Root]) THEN LISTED - 2 ELSE Len(lists[Root])
    BY <1>4, <1>8
  <2>2. SubSeq(lists[Root], LISTED - 2 + 1, Len(lists[Root])) = Behind(lists[Root], r)
    <3>1. PICK s \in Seq([name : Name, inode : Inode]) : s = lists[Root]
      BY <1>4
    <3>2. PICK q \in Nat : q = LISTED - 2
      BY <1>8
    <3>3. r = IF q <= Len(s) THEN q ELSE Len(s)
      BY <2>1, <3>1, <3>2
    <3>4. SubSeq(s, q + 1, Len(s)) = Behind(s, r)
      BY <3>3, Dropped
    <3> QED
      BY <3>1, <3>2, <3>4
  <2> QED
    BY <1>4, <1>7, <2>2
<1> DEFINE less == [lists EXCEPT ![Root] = SubSeq(@, LISTED - 2 + 1, Len(@))]
<1>17. \A j \in Inode : less[j] = IF j = Root THEN Entries(new) ELSE lists[j]
  <2>1. lists = [j \in Inode |-> lists[j]]
    BY DEF lists
  <2> QED
    BY <1>4, <1>16, <2>1
<1> HIDE DEF less
<1>18. lists' = Lists!Empty(less, G) /\ Holders' = Holders \ G
  BY <1>15, <1>17 DEF Lists!Empty
<1>19. lists' = Lists!Empty(less, S) /\ Holders' = Holders \ S
  BY <1>13, <1>18
<1> QED
  BY <1>19 DEF Lists!RemoveAll, less, S, K

(* What is written over the first entry of a directory ends every walk.    *)
LEMMA BytesHideEntries ==
  ASSUME NEW b \in Block, NEW words \in {2, BLOCK}
  PROVE  Entries(WithBytes(b, words)) = << >>
<1> DEFINE w == WithBytes(b, words)
<1>1. w \in Block
  BY BytesTyped
<1>2. 0 \in Pos /\ 0 < words
  BY AbyssAssumption, Places
<1>3. w[0] = Other
  BY <1>2 DEF WithBytes
<1>4. ~IsEntry(w, 0)
  BY <1>3 DEF IsEntry, IsHeader
<1>5. 0 \in Place
  BY <1>2, Places
<1> HIDE DEF w
<1>6. Chain(w) = << >>
  BY <1>1, <1>4, <1>5, AlongStep DEF Chain
<1>7. 1 .. (Len(Chain(w)) - 2) = {}
  BY <1>6
<1> DEFINE es == Entries(w)
<1>8. DOMAIN es = {} /\ es = [k \in {} |-> es[k]]
  BY <1>7 DEF Entries
<1> HIDE DEF es
<1>9. es = << >>
  <2>1. es \in [1 .. 0 -> {}]
    BY <1>8
  <2>2. es \in Seq({})
    BY <2>1, SeqDef
  <2>3. 1 .. Len(es) = {} /\ Len(es) \in Nat
    BY <1>8, <2>2, LenProperties
  <2> QED
    BY <2>2, <2>3, EmptySeq
<1> QED
  BY <1>9 DEF es, w

(* The lists after a write to block c.                                     *)
LEMMA ListsAround ==
  ASSUME AbyssInv, mode = "run", NEW c \in DataBlock,
         \A j \in Inode : inode'[j].mode = inode[j].mode,
         \A j \in Dirs : inode'[j].blocks = inode[j].blocks,
         \A x \in DataBlock \ {c} : block'[x] = block[x]
  PROVE  /\ Holders' = Holders
         /\ lists' = [j \in Inode |-> lists'[j]]
         /\ \A j \in Inode : IF j \in Dirs /\ inode[j].blocks = c
                             THEN lists'[j] = Entries(block'[c]) ELSE lists'[j] = lists[j]
<1>1. Holders' = Holders
  BY DEF Holders
<1>2. Dirs' = Dirs
  BY DEF Dirs
<1>3. lists' = [j \in Inode |-> IF j \in Dirs THEN Entries(block'[inode'[j].blocks]) ELSE << >>]
  BY <1>2 DEF lists, EntriesOf
<1>4. /\ lists' = [j \in Inode |-> lists'[j]]
      /\ \A j \in Inode : lists'[j] = IF j \in Dirs THEN Entries(block'[inode'[j].blocks])
                                      ELSE << >>
      /\ \A j \in Inode : lists[j] = IF j \in Dirs THEN Entries(block[inode[j].blocks]) ELSE << >>
  <2>1. \A j \in Inode : lists[j] = IF j \in Dirs THEN Entries(block[inode[j].blocks]) ELSE << >>
    BY DEF lists, EntriesOf
  <2> QED
    BY <1>3, <2>1
<1>5. \A j \in Dirs : j \in Inode /\ inode[j].blocks \in DataBlock
  BY DirBlocks DEF Dirs
<1>6. ASSUME NEW j \in Inode
      PROVE  IF j \in Dirs /\ inode[j].blocks = c
             THEN lists'[j] = Entries(block'[c]) ELSE lists'[j] = lists[j]
  <2>1. CASE j \in Dirs /\ inode[j].blocks = c
    BY <1>4, <2>1
  <2>2. CASE j \in Dirs /\ inode[j].blocks # c
    <3>1. block'[inode'[j].blocks] = block[inode[j].blocks]
      BY <1>5, <2>2
    <3> QED
      BY <1>4, <2>2, <3>1
  <2>3. CASE j \notin Dirs
    BY <1>4, <2>3
  <2> QED
    BY <2>1, <2>2, <2>3
<1> QED
  BY <1>1, <1>4, <1>6

LEMMA ListsWritten ==
  ASSUME AbyssInv, NEW i \in Inode, abyssfs_write(i)
  PROVE  Lists!Step(lists, lists', Holders, Holders', handles)
<1>1. /\ mode = "run" /\ i \in handles /\ TypeOK /\ block \in [DataBlock -> Block]
      /\ lists = [j \in Inode |-> lists[j]] /\ \A j \in Dirs : j \in Inode
  BY InvParts, Types DEF abyssfs_write, lists, Dirs
<1>2. i # Root /\ inode[i].blocks # RootBlock
  BY <1>1, InvParts DEF RootLives
<1>3. ASSUME NEW words \in {2, BLOCK}, inode[i].blocks # NoBlock,
             block' = [block EXCEPT ![inode[i].blocks] = WithBytes(@, words)],
             UNCHANGED inode
      PROVE  Lists!Step(lists, lists', Holders, Holders', handles)
  <2>1. PICK c \in DataBlock : c = inode[i].blocks
    BY <1>1, <1>3, Types
  <2>2. /\ Holders' = Holders
        /\ lists' = [j \in Inode |-> lists'[j]]
        /\ \A j \in Inode : IF j \in Dirs /\ inode[j].blocks = c
                            THEN lists'[j] = Entries(block'[c]) ELSE lists'[j] = lists[j]
    <3>1. \A x \in DataBlock \ {c} : block'[x] = block[x]
      BY <1>1, <1>3, <2>1
    <3>2. /\ \A j \in Inode : inode'[j].mode = inode[j].mode
          /\ \A j \in Dirs : inode'[j].blocks = inode[j].blocks
      BY <1>3
    <3> QED
      BY <1>1, <3>1, <3>2, ListsAround
  <2>3. CASE \A j \in Dirs : inode[j].blocks # c
    <3>1. lists' = lists
      BY <1>1, <2>2, <2>3
    <3> QED
      BY <2>2, <3>1 DEF Lists!Step
  <2>4. ASSUME NEW d \in Dirs, inode[d].blocks = c
        PROVE  Lists!Overwrite(lists, lists', Holders, Holders', handles)
    <3>1. d \in Inode /\ d \in Holders /\ d # Root
      BY <1>1, <1>2, <2>1, <2>4, RootRuns, DirBlocks DEF Dirs
    <3>2. \A j \in Holders : j # d => inode[j].blocks # c
      BY <2>4, <3>1, InvParts, Numbers DEF BlocksHaveOneOwner
    <3>3. i = d \/ i \notin Holders
      BY <2>1, <3>2
    <3>4. \A j \in Dirs : inode[j].blocks = c => j = d
      BY <1>1, <3>2, DirBlocks DEF Dirs
    <3>5. Entries(block'[c]) = << >>
      <4>1. block'[c] = WithBytes(block[c], words) /\ block[c] \in Block
        BY <1>1, <1>3, <2>1
      <4>2. PICK b \in Block : b = block[c]
        BY <4>1
      <4>3. Entries(WithBytes(b, words)) = << >>
        BY BytesHideEntries
      <4> QED
        BY <4>1, <4>2, <4>3
    <3>6. \A j \in Inode : lists'[j] = IF j \in {d} THEN << >> ELSE lists[j]
      BY <2>2, <2>4, <3>4, <3>5
    <3>7. lists' = Lists!Empty(lists, {d})
      BY <2>2, <3>6 DEF Lists!Empty
    <3> QED
      BY <1>1, <2>2, <3>1, <3>3, <3>7 DEF Lists!Overwrite
  <2> QED
    BY <2>3, <2>4 DEF Lists!Step
<1>4. ASSUME NEW words, inode[i].blocks = NoBlock, NEW b \in DataBlock, alloc_block(b),
             inode' = [inode EXCEPT ![i].blocks = b],
             block' = [block EXCEPT ![b] = WithBytes(@, words)]
      PROVE  lists' = lists /\ Holders' = Holders
  <2>1. b \notin block_bitmap
    BY <1>1, <1>4, InvParts, BlockTaken
  <2>2. /\ \A j \in Inode : inode'[j].mode = inode[j].mode
        /\ \A j \in Dirs : inode'[j].blocks = inode[j].blocks /\ inode[j].blocks # b
    <3>1. inode \in [Inode -> Node] /\ inode[i] \in Node
      BY <1>1, Types
    <3>2. inode'[i].mode = inode[i].mode /\ \A j \in Inode \ {i} : inode'[j] = inode[j]
      BY <1>4, <3>1 DEF Node
    <3>3. \A j \in Dirs : j # i /\ inode[j].blocks # b
      BY <1>1, <1>4, <2>1, DirBlocks, Numbers DEF Dirs
    <3> QED
      BY <1>1, <3>2, <3>3
  <2>3. /\ Holders' = Holders
        /\ lists' = [j \in Inode |-> lists'[j]]
        /\ \A j \in Inode : IF j \in Dirs /\ inode[j].blocks = b
                            THEN lists'[j] = Entries(block'[b]) ELSE lists'[j] = lists[j]
    <3>1. \A x \in DataBlock \ {b} : block'[x] = block[x]
      BY <1>1, <1>4
    <3> QED
      BY <1>1, <2>2, <3>1, ListsAround
  <2>4. lists' = lists
    BY <1>1, <2>2, <2>3
  <2> QED
    BY <2>3, <2>4
<1>5. ASSUME UNCHANGED <<inode, block>>
      PROVE  lists' = lists /\ Holders' = Holders
  BY <1>5, ListsRest
<1>6. write_to_blocks(i)
  BY DEF abyssfs_write
<1>7. \/ Lists!Step(lists, lists', Holders, Holders', handles)
      \/ lists' = lists /\ Holders' = Holders
  BY <1>3, <1>4, <1>5, <1>6 DEF write_to_blocks
<1> QED
  BY <1>7 DEF Lists!Step

LEMMA ListsCreated ==
  ASSUME AbyssInv, NEW n \in Name, abyssfs_create(n)
  PROVE  /\ Lists!Step(lists, lists', Holders, Holders', handles)
         /\ handles \subseteq handles' /\ handles' \ handles \subseteq Holders'
<1>1. mode = "run" /\ TypeOK
  BY InvParts DEF abyssfs_create
<1>2. CASE UNCHANGED <<inode, block, handles>>
  <2>1. lists' = lists /\ Holders' = Holders
    BY <1>2, ListsRest
  <2> QED
    BY <1>2, <2>1 DEF Lists!Step
<1>3. ASSUME NEW i \in FreeInodes, inode' = Allocated(i),
             create_file(Allocated(i), block, n, i),
             handles' = handles \/ handles' = handles \cup {i}
      PROVE  /\ Lists!Step(lists, lists', Holders, Holders', handles)
             /\ handles \subseteq handles' /\ handles' \ handles \subseteq Holders'
  <2>1. PICK nodes, blks : nodes = Allocated(i) /\ blks = block
    OBVIOUS
  <2>2. /\ nodes[i] = [mode |-> "file", blocks |-> NoBlock]
        /\ \A j \in Inode \ {i} : nodes[j] = inode[j]
        /\ block \in [DataBlock -> Block]
    BY <1>1, <2>1, Types DEF Allocated, FreeInodes
  <2>3. Begun(nodes, blks, i)
    BY <2>1, <2>2 DEF Begun
  <2>4. PICK own : own = << >>
    OBVIOUS
  <2>5. DOMAIN own = {}
    BY <2>4
  <2>6. /\ nodes[i].mode # "free" /\ nodes[i].mode # "dir"
        /\ own = IF nodes[i].mode = "dir" THEN Entries(blks[nodes[i].blocks]) ELSE << >>
        /\ nodes[i].mode = "dir" => \A j \in Holders : inode[j].blocks # nodes[i].blocks
        /\ \A k \in DOMAIN own : own[k].inode \in Holders /\ own[k].inode \notin Lists!Linked(lists)
        /\ \A j, k \in DOMAIN own : own[j].inode = own[k].inode => j = k
    BY <2>2, <2>4, <2>5
  <2>7. inode' = nodes /\ create_file(nodes, blks, n, i)
    BY <1>3, <2>1
  <2>8. Lists!Make(lists, lists', Holders, Holders') /\ i \in Holders'
    BY <1>1, <2>3, <2>6, <2>7, MakeLists
  <2> QED
    BY <1>3, <2>8 DEF Lists!Step
<1>4. \A i : FirstOf(i, FreeInodes) => i \in FreeInodes
  BY DEF FirstOf
<1> QED
  BY <1>2, <1>3, <1>4 DEF abyssfs_create

(* What a directory made over block b shows to begin with: entries of      *)
(* inodes in use that no list names, each once.                            *)
LEMMA FoundAgain ==
  ASSUME AbyssInv, mode = "run", NEW i \in FreeInodes, NEW b \in DataBlock, alloc_block(b),
         NEW own, own = Entries(Dots(block[b], i))
  PROVE  /\ \A k \in DOMAIN own : own[k].inode \in Holders
                                  /\ own[k].inode \notin Lists!Linked(lists)
         /\ \A j, k \in DOMAIN own : own[j].inode = own[k].inode => j = k
<1> DEFINE D == Dots(block[b], i)
<1>1. /\ TypeOK /\ RecordsNameOne /\ Inodes0AndDirs /\ i \in Inode /\ block[b] \in Block
      /\ \A j \in Holders : inode[j].blocks # b
  BY InvParts, Types, MkdirTables DEF FreeInodes
<1>2. b # RootBlock
  BY <1>1, RunLists, RootRuns
<1>3. /\ D \in Block /\ StartsWithDots(D)
      /\ \A q \in Pos \ {0, 2} : IsHeader(D[q]) => D[q] = block[b][q]
  <2>1. /\ D \in Block /\ StartsWithDots(D)
        /\ \A q \in Pos \ {0, 2} : D[q] = IF q < 5 THEN Other ELSE block[b][q]
    BY <1>1, DotsWords
  <2> HIDE DEF D
  <2> QED
    BY <2>1 DEF IsHeader
<1>4. PICK m \in Nat : /\ DOMAIN own = 1 .. m
                       /\ \A k \in 1 .. m : /\ Nth(D, k) \in Pos \ {0, 2} /\ IsHeader(D[Nth(D, k)])
                                            /\ own[k].inode = D[Nth(D, k)].inode
                       /\ \A j, k \in 1 .. m : Nth(D, j) = Nth(D, k) => j = k
  <2>1. own = Entries(D)
    OBVIOUS
  <2> HIDE DEF D
  <2> QED
    BY <1>3, <2>1, EntriesParts
<1> HIDE DEF D
<1>5. ASSUME NEW k \in 1 .. m
      PROVE  /\ <<b, Nth(D, k)>> \in Records
             /\ Names(<<b, Nth(D, k)>>) = own[k].inode
  <2>1. PICK q \in Pos \ {0, 2} : q = Nth(D, k)
    BY <1>4
  <2>2. IsHeader(block[b][q]) /\ own[k].inode = block[b][q].inode
    BY <1>3, <1>4, <2>1
  <2>3. block[b][q].name \in Name
    BY <1>1, <1>2, <2>2 DEF Inodes0AndDirs
  <2> QED
    BY <1>2, <2>1, <2>2, <2>3, RecordParts
<1>6. ASSUME NEW k \in 1 .. m
      PROVE  own[k].inode \in Holders
  BY <1>1, <1>5, NamesInodes DEF RecordsNameOne, Holders
<1>7. ASSUME NEW k \in 1 .. m, own[k].inode \in Lists!Linked(lists)
      PROVE  FALSE
  <2>1. PICK d \in Inode : \E j \in DOMAIN lists[d] : own[k].inode = lists[d][j].inode
    BY <1>7 DEF Lists!Linked, Lists!Inodes
  <2>2. d \in Dirs
    <3> SUFFICES ASSUME d \notin Dirs PROVE FALSE
      OBVIOUS
    <3>1. lists[d] = << >>
      BY RunLists
    <3> QED
      BY <2>1, <3>1
  <2>3. lists[d] = EntriesOf(d)
    BY <2>2 DEF lists
  <2>4. PICK j \in DOMAIN EntriesOf(d) : own[k].inode = EntriesOf(d)[j].inode
    BY <2>1, <2>3
  <2>5. PICK c, q : /\ c = inode[d].blocks /\ <<c, q>> \in Records
                    /\ Names(<<c, q>>) = EntriesOf(d)[j].inode
    BY <2>2, EntriesAreRecords
  <2>6. <<c, q>> = <<b, Nth(D, k)>>
    BY <1>1, <1>5, <2>4, <2>5 DEF RecordsNameOne
  <2>7. d \in Holders /\ inode[d].blocks = b
    BY <2>2, <2>5, <2>6, DirBlocks DEF Dirs
  <2> QED
    BY <1>1, <2>7
<1>8. ASSUME NEW j \in 1 .. m, NEW k \in 1 .. m, own[j].inode = own[k].inode
      PROVE  j = k
  <2>1. <<b, Nth(D, j)>> = <<b, Nth(D, k)>>
    BY <1>1, <1>5, <1>8 DEF RecordsNameOne
  <2>2. Nth(D, j) = Nth(D, k)
    BY <2>1
  <2> QED
    BY <1>4, <2>2
<1> QED
  BY <1>4, <1>6, <1>7, <1>8

LEMMA ListsMade ==
  ASSUME AbyssInv, NEW n \in Name, abyssfs_mkdir(n)
  PROVE  Lists!Step(lists, lists', Holders, Holders', handles)
<1>1. mode = "run" /\ TypeOK /\ inode \in [Inode -> Node] /\ block \in [DataBlock -> Block]
  BY InvParts, Types DEF abyssfs_mkdir
<1>2. CASE UNCHANGED <<inode, block>>
  <2>1. lists' = lists /\ Holders' = Holders
    BY <1>2, ListsRest
  <2> QED
    BY <2>1 DEF Lists!Step
<1>3. ASSUME NEW i \in FreeInodes, inode' = Allocated(i), UNCHANGED block
      PROVE  Lists!Make(lists, lists', Holders, Holders')
  <2>1. PICK nodes, blks : nodes = Allocated(i) /\ blks = block
    OBVIOUS
  <2>2. /\ nodes[i] = [mode |-> "file", blocks |-> NoBlock]
        /\ \A j \in Inode \ {i} : nodes[j] = inode[j]
    BY <1>1, <2>1 DEF Allocated, FreeInodes
  <2>3. Begun(nodes, blks, i)
    BY <1>1, <2>1, <2>2 DEF Begun
  <2>4. PICK own : own = << >>
    OBVIOUS
  <2>5. DOMAIN own = {}
    BY <2>4
  <2>6. /\ nodes[i].mode # "free" /\ nodes[i].mode # "dir"
        /\ own = IF nodes[i].mode = "dir" THEN Entries(blks[nodes[i].blocks]) ELSE << >>
        /\ nodes[i].mode = "dir" => \A j \in Holders : inode[j].blocks # nodes[i].blocks
        /\ \A k \in DOMAIN own : own[k].inode \in Holders /\ own[k].inode \notin Lists!Linked(lists)
        /\ \A j, k \in DOMAIN own : own[j].inode = own[k].inode => j = k
    BY <2>2, <2>4, <2>5
  <2>7. inode' = nodes /\ block' = blks
    BY <1>3, <2>1
  <2> QED
    BY <1>1, <2>3, <2>6, <2>7, MakeLists
<1>4. ASSUME NEW i \in FreeInodes, NEW b \in DataBlock, alloc_block(b), NEW nodes,
             nodes = [inode EXCEPT ![i] = [mode |-> "dir", blocks |-> b]],
             inode' = nodes, create_file(nodes, WithDots(i, b), n, i)
      PROVE  Lists!Make(lists, lists', Holders, Holders')
  <2>1. PICK blks : blks = WithDots(i, b)
    OBVIOUS
  <2>2. /\ nodes[i].mode = "dir" /\ nodes[i].blocks = b
        /\ \A j \in Inode \ {i} : nodes[j] = inode[j]
    BY <1>1, <1>4 DEF FreeInodes
  <2>3. /\ Begun(nodes, blks, i) /\ blks[b] = Dots(block[b], i)
        /\ \A j \in Holders : inode[j].blocks # b
    <3>1. /\ WithDots(i, b)[b] = Dots(block[b], i)
          /\ \A j \in Holders : inode[j].blocks # b
          /\ Begun(nodes, WithDots(i, b), i)
      BY <1>1, <1>4, <2>2, MkdirTables
    <3> QED
      BY <2>1, <3>1
  <2>4. PICK own : own = Entries(Dots(block[b], i))
    OBVIOUS
  <2>5. /\ \A k \in DOMAIN own : own[k].inode \in Holders
                                 /\ own[k].inode \notin Lists!Linked(lists)
        /\ \A j, k \in DOMAIN own : own[j].inode = own[k].inode => j = k
    BY <1>1, <1>4, <2>4, FoundAgain
  <2>6. /\ own = IF nodes[i].mode = "dir" THEN Entries(blks[nodes[i].blocks]) ELSE << >>
        /\ nodes[i].mode = "dir" => \A j \in Holders : inode[j].blocks # nodes[i].blocks
        /\ nodes[i].mode # "free"
    BY <2>2, <2>3, <2>4
  <2>7. inode' = nodes /\ create_file(nodes, blks, n, i)
    BY <1>4, <2>1
  <2> QED
    BY <1>1, <2>3, <2>5, <2>6, <2>7, MakeLists
<1>5. \A i : FirstOf(i, FreeInodes) => i \in FreeInodes
  BY DEF FirstOf
<1>6. UNCHANGED <<inode, block>> \/ Lists!Make(lists, lists', Holders, Holders')
  BY <1>3, <1>4, <1>5 DEF abyssfs_mkdir
<1> QED
  BY <1>2, <1>6 DEF Lists!Step

(* Every call of abyssfs.c that takes, links, removes or writes does to    *)
(* the lists that walks along rec_len show what Directories allows: a new  *)
(* entry comes last, an entry removed takes no other with it, and a list   *)
(* is lost only with the directory's own entry or to a handle from before. *)
THEOREM DirectoriesImplemented == Spec => ListsSpec
<1>1. Init => Lists!Init
  BY ListsInit
<1>2. AbyssInv /\ [Next]_vars => [Lists!Next]_(Lists!vars)
  <2> SUFFICES ASSUME AbyssInv, [Next]_vars PROVE [Lists!Next]_(Lists!vars)
    OBVIOUS
  <2>1. CASE Next
    <3> DEFINE Follows == /\ Lists!Step(lists, lists', Holders, Holders', handles)
                         /\ handles \subseteq handles' /\ handles' \ handles \subseteq Holders'
    <3>1. ASSUME NEW path, cmd_cd(path)
          PROVE  Follows
      <4>1. lists' = lists /\ Holders' = Holders /\ handles' = handles
        BY <3>1, ListsRest DEF cmd_cd
      <4> QED
        BY <4>1 DEF Lists!Step
    <3>2. ASSUME abyssfs_open
          PROVE  Follows
      <4>1. lists' = lists /\ Holders' = Holders /\ handles' = handles \cup {0}
        BY <3>2, ListsRest DEF abyssfs_open
      <4>2. 0 \in Holders
        BY Numbers DEF Holders
      <4> QED
        BY <4>1, <4>2 DEF Lists!Step
    <3>3. ASSUME NEW n, abyssfs_unlink(n)
          PROVE  Follows
      <4>1. handles' = handles
        BY <3>3 DEF abyssfs_unlink
      <4> QED
        BY <3>3, <4>1, ListsUnlinked
    <3>4. ASSUME NEW n, abyssfs_remove_recursive(n)
          PROVE  Follows
      <4>1. CASE abyssfs_unlink(n)
        BY <3>3, <4>1
      <4>2. CASE UNCHANGED <<inode, block, handles>>
        <5>1. lists' = lists /\ Holders' = Holders
          BY <4>2, ListsRest
        <5> QED
          BY <4>2, <5>1 DEF Lists!Step
      <4> QED
        BY <3>4, <4>1, <4>2 DEF abyssfs_remove_recursive
    <3>5. ASSUME NEW i \in Inode, abyssfs_write(i)
          PROVE  Follows
      <4>1. handles' = handles
        BY <3>5 DEF abyssfs_write
      <4> QED
        BY <3>5, <4>1, ListsWritten
    <3>6. ASSUME remove_recursive_root
          PROVE  Follows
      <4>1. handles' = handles
        BY <3>6 DEF remove_recursive_root
      <4> QED
        BY <3>6, <4>1, ListsEmptied DEF Lists!Step
    <3>7. ASSUME NEW n \in Name, abyssfs_create(n)
          PROVE  Follows
      BY <3>7, ListsCreated
    <3>8. ASSUME NEW n \in Name, abyssfs_mkdir(n)
          PROVE  Follows
      <4>1. handles' = handles
        BY <3>8 DEF abyssfs_mkdir
      <4> QED
        BY <3>8, <4>1, ListsMade
    <3>9. Follows
      <4> HIDE DEF Follows
      <4> QED
        BY <2>1, <3>1, <3>2, <3>3, <3>4, <3>5, <3>6, <3>7, <3>8 DEF Next
    <3> QED
      BY <3>9 DEF Lists!Next, lists
  <2>2. CASE UNCHANGED vars
    BY <2>2 DEF vars, Lists!vars, Holders, Dirs, EntriesOf
  <2> QED
    BY <2>1, <2>2
<1> QED
  BY <1>1, <1>2, Invariance, PTL DEF Spec, ListsSpec, Lists!Spec
================================================================================
