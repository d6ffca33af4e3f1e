--------------------------- MODULE SequenceLemmas ---------------------------
(***************************************************************************)
(* Facts that the proofs about queues, buffers, streams and texts share:   *)
(* the total of a sequence of sizes, induction over the naturals, runs (a  *)
(* step applied to one item after the other), and the lines of a text.     *)
(***************************************************************************)
EXTENDS ByteCount, LineMetrics, FiniteSetTheorems, SequenceTheorems,
        WellFoundedInduction, TLAPS

-----------------------------------------------------------------------------
(***************************************************************************)
(* The bytes of a sequence of sizes.                                       *)
(***************************************************************************)
\* Two sets with nothing in common.
LEMMA DisjointUnion ==
  ASSUME NEW S, NEW T, NEW U, IsFiniteSet(S), IsFiniteSet(T),
         U = S \cup T, S \cap T = {}
  PROVE  Cardinality(U) = Cardinality(S) + Cardinality(T)
<1>1. Cardinality(S) \in Nat /\ Cardinality(T) \in Nat
  BY FS_CardinalityType
<1>2. Cardinality(S \cap T) = 0
  BY FS_EmptySet
<1>3. Cardinality(U) = Cardinality(S) + Cardinality(T) - Cardinality(S \cap T)
  BY FS_Union
<1> QED  BY <1>1, <1>2, <1>3

\* The bytes of an item of size n.
LEMMA ItemBytes ==
  ASSUME NEW x, NEW n \in Nat
  PROVE  IsFiniteSet({x} \X (1 .. n)) /\ Cardinality({x} \X (1 .. n)) = n
<1> DEFINE P == {x}
           I == 1 .. n
<1>1. IsFiniteSet(I)
  BY FS_Interval
<1>2. Cardinality(I) = IF 1 > n THEN 0 ELSE n - 1 + 1
  BY FS_Interval
<1>3. Cardinality(I) = n
  <2> HIDE DEF I
  <2> QED  BY <1>2
<1>4. IsFiniteSet(P) /\ Cardinality(P) = 1
  BY FS_Singleton
<1> HIDE DEF P, I
<1>5. IsFiniteSet(P \X I) /\ Cardinality(P \X I) = Cardinality(P) * Cardinality(I)
  BY <1>1, <1>4, FS_Product
<1>6. IsFiniteSet(P \X I) /\ Cardinality(P \X I) = n
  BY <1>3, <1>4, <1>5
<1> QED  BY <1>6 DEF P, I

\* A sequence of sizes has finitely many bytes.
LEMMA BytesFinite ==
  ASSUME NEW s \in Seq(Nat)
  PROVE  IsFiniteSet(BytesOf(s)) /\ Total(s) \in Nat
<1> DEFINE Items == {{i} \X (1 .. s[i]) : i \in DOMAIN s}
<1>1. \A i \in DOMAIN s : s[i] \in Nat
  OBVIOUS
<1>2. ASSUME NEW i \in DOMAIN s
      PROVE  IsFiniteSet({i} \X (1 .. s[i]))
  <2>1. IsFiniteSet(1 .. s[i])
    BY <1>1, FS_Interval
  <2> QED  BY <2>1, FS_Singleton, FS_Product
<1>3. IsFiniteSet(Items)
  <2>1. IsFiniteSet(DOMAIN s)
    BY FS_Interval
  <2> DEFINE f == [i \in DOMAIN s |-> {i} \X (1 .. s[i])]
  <2>2. f \in Surjection(DOMAIN s, Items)
    BY DEF Surjection
  <2> QED  BY <2>1, <2>2, FS_Surjection
<1>4. IsFiniteSet(BytesOf(s))
  BY <1>2, <1>3, FS_UNION DEF BytesOf
<1> QED  BY <1>4, FS_CardinalityType DEF Total

\* An empty one has none.
LEMMA TotalEmpty == Total(<<>>) = 0
<1>1. BytesOf(<<>>) = {}
  BY DEF BytesOf
<1> QED  BY <1>1, FS_EmptySet DEF Total

\* The bytes at one position.
LEMMA BytesAt ==
  ASSUME NEW s \in Seq(Nat), NEW b
  PROVE  b \in BytesOf(s) <=> \E i \in 1 .. Len(s), k \in Nat :
                             b = <<i, k>> /\ 1 <= k /\ k <= s[i]
<1>1. \A i \in DOMAIN s : s[i] \in Nat
  OBVIOUS
<1>2. ASSUME b \in BytesOf(s)
      PROVE  \E i \in 1 .. Len(s), k \in Nat : b = <<i, k>> /\ 1 <= k /\ k <= s[i]
  <2>1. PICK i \in DOMAIN s : b \in {i} \X (1 .. s[i])
    BY <1>2 DEF BytesOf
  <2>2. PICK k \in 1 .. s[i] : b = <<i, k>>
    BY <2>1
  <2> QED  BY <2>2, <1>1
<1>3. ASSUME NEW i \in 1 .. Len(s), NEW k \in Nat, b = <<i, k>>, 1 <= k, k <= s[i]
      PROVE  b \in BytesOf(s)
  <2>1. b \in {i} \X (1 .. s[i])
    BY <1>1, <1>3
  <2> QED  BY <2>1 DEF BytesOf
<1> QED  BY <1>2, <1>3

\* The first item and the rest add up to the sequence.
LEMMA TotalTail ==
  ASSUME NEW s \in Seq(Nat), s # <<>>
  PROVE  Total(s) = Head(s) + Total(Tail(s))
<1> DEFINE F == {1} \X (1 .. s[1])
           R == {b \in BytesOf(s) : b[1] # 1}
           f == [b \in BytesOf(Tail(s)) |-> <<b[1] + 1, b[2]>>]
<1>1. /\ s[1] \in Nat /\ Head(s) = s[1] /\ Len(s) >= 1
      /\ Tail(s) \in Seq(Nat) /\ Len(Tail(s)) = Len(s) - 1
      /\ \A i \in 1 .. Len(Tail(s)) : Tail(s)[i] = s[i + 1]
  OBVIOUS
<1>2. IsFiniteSet(F) /\ Cardinality(F) = Head(s)
  BY <1>1, ItemBytes
<1>3. IsFiniteSet(BytesOf(Tail(s))) /\ Total(Tail(s)) \in Nat
  BY <1>1, BytesFinite
<1>4. f \in Bijection(BytesOf(Tail(s)), R)
  <2>1. ASSUME NEW b \in BytesOf(Tail(s))
        PROVE  /\ f[b] \in R
               /\ \E i \in 1 .. Len(s) - 1, k \in Nat :
                    b = <<i, k>> /\ f[b] = <<i + 1, k>>
    <3>1. PICK i \in 1 .. Len(Tail(s)), k \in Nat :
                 b = <<i, k>> /\ 1 <= k /\ k <= Tail(s)[i]
      BY <1>1, BytesAt
    <3>2. f[b] = <<i + 1, k>> /\ i + 1 \in 1 .. Len(s) /\ k <= s[i + 1] /\ i + 1 # 1
      BY <3>1, <1>1
    <3>3. f[b] \in BytesOf(s)
      BY <3>1, <3>2, BytesAt
    <3> QED  BY <3>1, <3>2, <3>3, <1>1
  <2>2. ASSUME NEW b \in R
        PROVE  \E c \in BytesOf(Tail(s)) : f[c] = b
    <3>1. PICK i \in 1 .. Len(s), k \in Nat : b = <<i, k>> /\ 1 <= k /\ k <= s[i]
      BY BytesAt
    <3>2. i - 1 \in 1 .. Len(Tail(s)) /\ Tail(s)[i - 1] = s[i]
      BY <3>1, <1>1
    <3>3. <<i - 1, k>> \in BytesOf(Tail(s))
      BY <3>1, <3>2, <1>1, BytesAt
    <3>4. f[<<i - 1, k>>] = b
      BY <3>1, <3>3
    <3> QED  BY <3>3, <3>4
  <2>3. ASSUME NEW b \in BytesOf(Tail(s)), NEW c \in BytesOf(Tail(s)), f[b] = f[c]
        PROVE  b = c
    <3>1. PICK i \in 1 .. Len(s) - 1, k \in Nat : b = <<i, k>> /\ f[b] = <<i + 1, k>>
      BY <2>1
    <3>2. PICK j \in 1 .. Len(s) - 1, l \in Nat : c = <<j, l>> /\ f[c] = <<j + 1, l>>
      BY <2>1
    <3> QED  BY <3>1, <3>2, <2>3
  <2> HIDE DEF f, R
  <2>4. f \in [BytesOf(Tail(s)) -> R]
    BY <2>1 DEF f
  <2>5. f \in Injection(BytesOf(Tail(s)), R)
    BY <2>3, <2>4 DEF Injection, IsInjective
  <2>6. f \in Surjection(BytesOf(Tail(s)), R)
    BY <2>2, <2>4 DEF Surjection
  <2> QED  BY <2>5, <2>6 DEF Bijection
<1>5. IsFiniteSet(R) /\ Cardinality(R) = Total(Tail(s))
  <2> HIDE DEF f, R
  <2>1. ExistsBijection(BytesOf(Tail(s)), R)
    BY <1>4 DEF ExistsBijection
  <2> QED  BY <1>3, <2>1, FS_Bijection DEF Total
<1>6. BytesOf(s) = F \cup R /\ F \cap R = {}
  <2>1. ASSUME NEW b \in F
        PROVE  b \in BytesOf(s) /\ b[1] = 1
    <3>1. PICK k \in 1 .. s[1] : b = <<1, k>>
      OBVIOUS
    <3> QED  BY <3>1, <1>1, BytesAt
  <2>2. ASSUME NEW b \in BytesOf(s), b[1] = 1
        PROVE  b \in F
    <3>1. PICK i \in 1 .. Len(s), k \in Nat : b = <<i, k>> /\ 1 <= k /\ k <= s[i]
      BY BytesAt
    <3> QED  BY <3>1, <2>2, <1>1
  <2> HIDE DEF F
  <2> QED  BY <2>1, <2>2
<1> HIDE DEF F, R
<1>7. Cardinality(BytesOf(s)) = Cardinality(F) + Cardinality(R)
  BY <1>2, <1>5, <1>6, DisjointUnion
<1> QED  BY <1>2, <1>5, <1>7 DEF Total

\* What is appended adds its bytes.
LEMMA TotalAppend ==
  ASSUME NEW s \in Seq(Nat), NEW n \in Nat
  PROVE  Total(Append(s, n)) = Total(s) + n
<1> DEFINE L == {Len(s) + 1} \X (1 .. n)
           t == Append(s, n)
<1>1. /\ t \in Seq(Nat) /\ Len(t) = Len(s) + 1 /\ t[Len(s) + 1] = n
      /\ \A i \in 1 .. Len(s) : t[i] = s[i]
  OBVIOUS
<1>2. IsFiniteSet(L) /\ Cardinality(L) = n
  BY ItemBytes
<1>3. IsFiniteSet(BytesOf(s)) /\ Total(s) \in Nat
  BY BytesFinite
<1> HIDE DEF t
<1>4. ASSUME NEW b
      PROVE  b \in BytesOf(t) <=> b \in BytesOf(s) \/ b \in L
  <2>1. ASSUME b \in BytesOf(s)
        PROVE  b \in BytesOf(t)
    <3>1. PICK i \in 1 .. Len(s), k \in Nat : b = <<i, k>> /\ 1 <= k /\ k <= s[i]
      BY <2>1, BytesAt
    <3>2. i \in 1 .. Len(t)
      BY <1>1
    <3>3. t[i] = s[i]
      BY <1>1
    <3>4. k <= t[i]
      BY <3>1, <3>3
    <3>5. b \in BytesOf(t)
      BY <3>1, <3>2, <3>4, <1>1, BytesAt
    <3> QED  BY <3>5
  <2>2. ASSUME b \in L
        PROVE  b \in BytesOf(t)
    <3>1. PICK k \in 1 .. n : b = <<Len(s) + 1, k>>
      BY <2>2
    <3>2. Len(s) + 1 \in 1 .. Len(t) /\ k \in Nat /\ 1 <= k /\ k <= t[Len(s) + 1]
      BY <3>1, <1>1
    <3> QED  BY <3>1, <3>2, <1>1, BytesAt
  <2>3. ASSUME b \in BytesOf(t), b \notin L
        PROVE  b \in BytesOf(s)
    <3>1. PICK i \in 1 .. Len(t), k \in Nat : b = <<i, k>> /\ 1 <= k /\ k <= t[i]
      BY <2>3, <1>1, BytesAt
    <3>2. i \in 1 .. Len(s)
      BY <3>1, <2>3, <1>1
    <3> QED  BY <3>1, <3>2, <1>1, BytesAt
  <2> QED  BY <2>1, <2>2, <2>3
<1>5. ASSUME NEW b \in BytesOf(s)
      PROVE  b \notin L
  <2>1. PICK i \in 1 .. Len(s), k \in Nat : b = <<i, k>> /\ 1 <= k /\ k <= s[i]
    BY BytesAt
  <2> QED  BY <2>1
<1> HIDE DEF L
<1>6. BytesOf(t) = BytesOf(s) \cup L /\ BytesOf(s) \cap L = {}
  BY <1>4, <1>5
<1>7. Cardinality(BytesOf(t)) = Cardinality(BytesOf(s)) + Cardinality(L)
  BY <1>2, <1>3, <1>6, DisjointUnion
<1> QED  BY <1>2, <1>7 DEF Total, t

-----------------------------------------------------------------------------
(***************************************************************************)
(* Induction.                                                              *)
(***************************************************************************)
\* A set that contains zero and the successor of each of its members.
LEMMA SetInduction ==
  ASSUME NEW P, 0 \in P, \A n \in Nat : n \in P => n + 1 \in P
  PROVE  Nat \subseteq P
<1> SUFFICES ASSUME Nat \ P # {}
             PROVE  FALSE
  OBVIOUS
<1> DEFINE R == OpToRel(<, Nat)
<1>1. IsWellFoundedOn(R, Nat)
  BY NatLessThanWellFounded
<1>2. \A x, y \in Nat : x < y => <<x, y>> \in R
  BY DEF OpToRel
<1> HIDE DEF R
<1>3. PICK m \in Nat \ P : \A y \in Nat \ P : <<y, m>> \notin R
  BY <1>1, WFMin
<1>4. m # 0 /\ m - 1 \in Nat /\ m - 1 < m
  BY <1>3
<1>5. m - 1 \in P
  BY <1>2, <1>3, <1>4
<1> QED  BY <1>3, <1>4, <1>5

\* A set of numbers that is not empty has a least member.
LEMMA LeastMember ==
  ASSUME NEW I, I \subseteq Nat, I # {}
  PROVE  \E x \in I : \A y \in I : x <= y
<1> DEFINE R == OpToRel(<, Nat)
<1>1. IsWellFoundedOn(R, Nat)
  BY NatLessThanWellFounded
<1>2. \A x, y \in Nat : x < y => <<x, y>> \in R
  BY DEF OpToRel
<1> HIDE DEF R
<1>3. PICK m \in I : \A y \in I : <<y, m>> \notin R
  BY <1>1, WFMin
<1>4. ASSUME NEW y \in I
      PROVE  m <= y
  <2>1. m \in Nat /\ y \in Nat /\ <<y, m>> \notin R
    BY <1>3
  <2>2. ~(y < m)
    BY <1>2, <2>1
  <2> QED  BY <2>1, <2>2
<1> QED  BY <1>4

\* A function whose values stay in S from one argument to the next.
LEMMA RunStays ==
  ASSUME NEW S, NEW n \in Nat, NEW f, f[0] \in S,
         \A k \in 1 .. n : f[k - 1] \in S => f[k] \in S
  PROVE  \A k \in 0 .. n : f[k] \in S
<1> DEFINE P == {k \in Nat : k <= n => f[k] \in S}
<1>1. 0 \in P
  OBVIOUS
<1>2. ASSUME NEW k \in Nat, k \in P
      PROVE  k + 1 \in P
  <2> SUFFICES ASSUME k + 1 <= n
               PROVE  f[k + 1] \in S
    OBVIOUS
  <2>1. k + 1 \in 1 .. n /\ (k + 1) - 1 = k /\ f[k] \in S
    BY <1>2
  <2> QED  BY <2>1
<1>3. Nat \subseteq P
  <2> HIDE DEF P
  <2> QED  BY <1>1, <1>2, SetInduction
<1> QED  BY <1>3

IsRun(r, start, next, n) ==
  r[0] = start /\ \A k \in 1 .. n : r[k] = next[<<r[k - 1], k>>]

\* A step that stays in S can be repeated.
LEMMA RunExists ==
  ASSUME NEW S, NEW start \in S, NEW n \in Nat,
         NEW next \in [S \X (1 .. n) -> S]
  PROVE  \E r \in [0 .. n -> S] : IsRun(r, start, next, n)
<1> DEFINE Run(r, m) == r[0] = start /\ \A k \in 1 .. m : r[k] = next[<<r[k - 1], k>>]
           P == {m \in Nat : m <= n => \E r \in [0 .. m -> S] : Run(r, m)}
<1>1. 0 \in P
  <2>1. [k \in 0 .. 0 |-> start] \in [0 .. 0 -> S]
    OBVIOUS
  <2>2. Run([k \in 0 .. 0 |-> start], 0)
    OBVIOUS
  <2> QED  BY <2>1, <2>2
<1>2. ASSUME NEW m \in Nat, m \in P
      PROVE  m + 1 \in P
  <2> SUFFICES ASSUME m + 1 <= n
               PROVE  \E r \in [0 .. m + 1 -> S] : Run(r, m + 1)
    OBVIOUS
  <2>1. PICK r \in [0 .. m -> S] : Run(r, m)
    BY <1>2
  <2> DEFINE q == [k \in 0 .. m + 1 |-> IF k <= m THEN r[k] ELSE next[<<r[m], m + 1>>]]
  <2>2. m \in 0 .. m /\ r[m] \in S /\ m + 1 \in 1 .. n
    OBVIOUS
  <2>3. next[<<r[m], m + 1>>] \in S
    BY <2>2
  <2>4. q \in [0 .. m + 1 -> S]
    BY <2>3
  <2>5. q[0] = start
    BY <2>1
  <2>6. ASSUME NEW k \in 1 .. m + 1
        PROVE  q[k] = next[<<q[k - 1], k>>]
    <3>1. CASE k = m + 1
      BY <3>1
    <3>2. CASE k # m + 1
      <4>1. k \in 1 .. m /\ k - 1 \in 0 .. m /\ q[k] = r[k] /\ q[k - 1] = r[k - 1]
        BY <3>2
      <4> QED  BY <4>1, <2>1
    <3> QED  BY <3>1, <3>2
  <2> HIDE DEF q
  <2> QED  BY <2>4, <2>5, <2>6
<1>3. n \in P
  <2> HIDE DEF P
  <2> QED  BY <1>1, <1>2, SetInduction
<1> QED  BY <1>3 DEF IsRun

-----------------------------------------------------------------------------
(***************************************************************************)
(* Lines.                                                                  *)
(***************************************************************************)
\* f is defined at each offset from its value at the offset jumped to.
Jumps(f, n, last, jump, add) ==
  \A o \in 0 .. n :
    f[o] = IF jump[o] # None THEN add[<<o, f[jump[o]]>>] ELSE last[o]

\* A recursion that jumps forward to n ends.
LEMMA JumpRun ==
  ASSUME NEW S, NEW n \in Nat, NEW last \in [0 .. n -> S], NEW jump,
         \A o \in 0 .. n : jump[o] # None => jump[o] \in o + 1 .. n,
         NEW add \in [(0 .. n) \X S -> S]
  PROVE  \E f \in [0 .. n -> S] : Jumps(f, n, last, jump, add)
<1> DEFINE Eq(f, o) ==
             f[o] = IF jump[o] # None THEN add[<<o, f[jump[o]]>>] ELSE last[o]
           P == {m \in Nat : m <= n =>
                   \E f \in [0 .. n -> S] : \A o \in n - m .. n : Eq(f, o)}
<1>1. 0 \in P
  <2>1. \A o \in n - 0 .. n : Eq(last, o)
    <3>1. \A o \in n - 0 .. n : o = n /\ o \in 0 .. n /\ ~(jump[o] \in o + 1 .. n)
      OBVIOUS
    <3> QED  BY <3>1
  <2> QED  BY <2>1
<1>2. ASSUME NEW m \in Nat, m \in P
      PROVE  m + 1 \in P
  <2> SUFFICES ASSUME m + 1 <= n
               PROVE  \E f \in [0 .. n -> S] : \A o \in n - (m + 1) .. n : Eq(f, o)
    OBVIOUS
  <2>1. PICK f \in [0 .. n -> S] : \A o \in n - m .. n : Eq(f, o)
    BY <1>2
  <2> DEFINE p == n - (m + 1)
             v == IF jump[p] # None THEN add[<<p, f[jump[p]]>>] ELSE last[p]
             g == [o \in 0 .. n |-> IF o = p THEN v ELSE f[o]]
  <2>2. p \in 0 .. n
    OBVIOUS
  <2>3. v \in S
    <3>1. CASE jump[p] # None
      <4>1. jump[p] \in 0 .. n
        <5>1. jump[p] \in p + 1 .. n
          BY <2>2, <3>1
        <5> HIDE DEF p
        <5> QED  BY <2>2, <5>1
      <4>2. <<p, f[jump[p]]>> \in (0 .. n) \X S
        BY <2>1, <2>2, <4>1
      <4> HIDE DEF p
      <4> QED  BY <3>1, <4>2
    <3>2. CASE jump[p] = None
      BY <2>2, <3>2
    <3> QED  BY <3>1, <3>2
  <2>4. g \in [0 .. n -> S]
    <3> HIDE DEF v, p
    <3> QED  BY <2>1, <2>3
  <2>5. ASSUME NEW o \in p .. n
        PROVE  Eq(g, o)
    <3>1. /\ o \in 0 .. n /\ (jump[o] # None => jump[o] \in o + 1 .. n)
      BY <2>2
    <3>2. jump[o] # None => g[jump[o]] = f[jump[o]]
      <4> HIDE DEF v
      <4> QED  BY <3>1, <2>2
    <3>3. CASE o = p
      <4>1. g[o] = v
        BY <3>1, <3>3
      <4> QED  BY <3>2, <3>3, <4>1
    <3>4. CASE o # p
      <4>1. o \in n - m .. n /\ g[o] = f[o]
        BY <3>1, <3>4, <2>2
      <4>2. Eq(f, o)
        BY <2>1, <4>1
      <4> HIDE DEF g
      <4> QED  BY <3>2, <4>1, <4>2
    <3> QED  BY <3>3, <3>4
  <2> HIDE DEF g
  <2> QED  BY <2>4, <2>5 DEF p
<1>3. \A m \in Nat : m \in P
  <2> HIDE DEF P
  <2> QED  BY <1>1, <1>2, SetInduction
<1>4. PICK f \in [0 .. n -> S] : \A o \in n - n .. n : Eq(f, o)
  <2>1. n \in P
    <3> HIDE DEF P
    <3> QED  BY <1>3
  <2>2. \E f \in [0 .. n -> S] : \A o \in n - n .. n : Eq(f, o)
    <3> HIDE DEF Eq
    <3>1. n <= n
      OBVIOUS
    <3> QED  BY <2>1, <3>1
  <2> QED  BY <2>2
<1>5. \A o \in 0 .. n : Eq(f, o)
  BY <1>4
<1> QED  BY <1>5 DEF Jumps

ByteStrings == Seq(0 .. 255)

\* The positions that end a line.
LineEndings(bytes) ==
  {i \in 1 .. Len(bytes) :
     \/ i = Len(bytes)
     \/ bytes[i] = LF
     \/ bytes[i] = CR /\ bytes[i + 1] # LF}

\* What the scan finds from an offset is the end of the line there, or
\* nothing when no terminator follows.
LEMMA NextEnd ==
  ASSUME NEW bytes \in ByteStrings, NEW o \in 0 .. Len(bytes)
  PROVE  LET e == next_terminator_end(bytes, o)
         IN  \/ /\ e = None
                /\ \A i \in LineEndings(bytes) : i > o => i = Len(bytes)
             \/ /\ e \in LineEndings(bytes) /\ e > o
                /\ \A i \in LineEndings(bytes) : i > o => e <= i
<1> DEFINE n == Len(bytes)
           found == {i \in o + 1 .. n : IsTerminatorByte(bytes[i])}
           first == CHOOSE i \in found : \A j \in found : i <= j
           e == next_terminator_end(bytes, o)
<1>1. n \in Nat
  BY DEF ByteStrings
<1>2. CASE found = {}
  <2>1. e = None
    BY <1>2 DEF next_terminator_end
  <2>2. ASSUME NEW i \in LineEndings(bytes), i > o, i # Len(bytes)
        PROVE  FALSE
    <3>1. i \in 1 .. n /\ (bytes[i] = LF \/ bytes[i] = CR)
      BY <2>2 DEF LineEndings
    <3>2. i \in found
      BY <1>1, <2>2, <3>1 DEF IsTerminatorByte
    <3> QED  BY <1>2, <3>2
  <2> QED  BY <2>1, <2>2
<1>3. CASE found # {}
  <2>1. found \subseteq Nat
    BY <1>1
  <2>2. \E x \in found : \A y \in found : x <= y
    <3> HIDE DEF found
    <3> QED  BY <1>3, <2>1, LeastMember
  <2>3. first \in found /\ \A j \in found : first <= j
    <3> HIDE DEF found
    <3> QED  BY <2>2
  <2> DEFINE joined == bytes[first] = CR /\ first < n /\ bytes[first + 1] = LF
  <2>4. e = IF joined THEN first + 1 ELSE first
    BY <1>3 DEF next_terminator_end
  <2> HIDE DEF first, e
  <2>5. first \in o + 1 .. n /\ (bytes[first] = CR \/ bytes[first] = LF)
    BY <2>3 DEF IsTerminatorByte
  <2>6. e \in LineEndings(bytes) /\ e > o
    <3>1. CASE joined
      BY <1>1, <2>4, <2>5, <3>1 DEF LineEndings
    <3>2. CASE ~joined
      <4>1. e = first /\ first \in 1 .. n
        BY <1>1, <2>4, <2>5, <3>2
      <4>2. first = n \/ bytes[first] = LF \/ bytes[first + 1] # LF
        BY <1>1, <2>5, <3>2
      <4> QED  BY <1>1, <2>5, <4>1, <4>2 DEF LineEndings
    <3> QED  BY <3>1, <3>2
  <2>7. ASSUME NEW i \in LineEndings(bytes), i > o
        PROVE  e <= i
    <3>1. i \in o + 1 .. n
      BY <1>1, <2>7 DEF LineEndings
    <3>2. first <= i
      <4>1. CASE i \in found
        BY <2>3, <4>1
      <4>2. CASE i \notin found
        <5>1. i = n
          BY <3>1, <4>2 DEF LineEndings, IsTerminatorByte
        <5> QED  BY <1>1, <2>5, <5>1
      <4> QED  BY <4>1, <4>2
    <3>3. CASE joined
      <4>1. first \notin LineEndings(bytes)
        <5>1. first < n /\ bytes[first] = CR /\ bytes[first + 1] = LF
          BY <3>3
        <5> QED  BY <1>1, <2>5, <5>1 DEF LineEndings, CR, LF
      <4> QED  BY <1>1, <2>4, <2>5, <3>1, <3>2, <3>3, <4>1
    <3>4. CASE ~joined
      BY <2>4, <3>2, <3>4
    <3> QED  BY <3>3, <3>4
  <2> QED  BY <2>6, <2>7 DEF e
<1> QED  BY <1>2, <1>3

\* The ends after an offset, in their order.
LineList(lines, bytes, o) ==
  /\ lines \in Seq(1 .. Len(bytes))
  /\ \A j, k \in 1 .. Len(lines) : j < k => lines[j] < lines[k]
  /\ \A k \in 1 .. Len(lines) : lines[k] \in LineEndings(bytes) /\ lines[k] > o
  /\ \A i \in LineEndings(bytes) : i > o => \E k \in 1 .. Len(lines) : lines[k] = i

\* A first end before the others.
LEMMA LineListCons ==
  ASSUME NEW bytes \in ByteStrings, NEW o \in 0 .. Len(bytes), NEW e \in LineEndings(bytes),
         e > o, \A i \in LineEndings(bytes) : i > o => e <= i,
         NEW lines, LineList(lines, bytes, e)
  PROVE  LineList(<<e>> \o lines, bytes, o)
<1> DEFINE all == <<e>> \o lines
<1>1. /\ Len(bytes) \in Nat /\ e \in 1 .. Len(bytes)
      /\ \A i \in LineEndings(bytes) : i \in 1 .. Len(bytes)
  BY DEF ByteStrings, LineEndings
<1>2. lines \in Seq(1 .. Len(bytes)) /\ Len(lines) \in Nat
  BY DEF LineList
<1>3. /\ all \in Seq(1 .. Len(bytes)) /\ Len(all) = Len(lines) + 1
      /\ all[1] = e
      /\ \A k \in 1 .. Len(lines) : all[k + 1] = lines[k]
  BY <1>1, <1>2
<1>4. \A k \in 2 .. Len(all) : k - 1 \in 1 .. Len(lines) /\ all[k] = lines[k - 1]
  <2> SUFFICES ASSUME NEW k \in 2 .. Len(all)
               PROVE  k - 1 \in 1 .. Len(lines) /\ all[k] = lines[k - 1]
    OBVIOUS
  <2>1. k - 1 \in 1 .. Len(lines) /\ (k - 1) + 1 = k
    BY <1>2, <1>3
  <2> HIDE DEF all
  <2>2. all[(k - 1) + 1] = lines[k - 1]
    BY <1>3, <2>1
  <2> QED  BY <2>1, <2>2
<1> HIDE DEF all
<1>5. ASSUME NEW j \in 1 .. Len(all), NEW k \in 1 .. Len(all), j < k
      PROVE  all[j] < all[k]
  <2>0. k \in 2 .. Len(all)
    BY <1>3, <1>5
  <2>1. k \in 2 .. Len(all) /\ k - 1 \in 1 .. Len(lines) /\ all[k] = lines[k - 1]
    BY <1>4, <2>0
  <2>2. lines[k - 1] > e /\ lines[k - 1] \in 1 .. Len(bytes)
    BY <1>2, <2>1 DEF LineList
  <2>3. CASE j = 1
    BY <1>1, <1>3, <2>1, <2>2, <2>3
  <2>4. CASE j # 1
    <3>1. j \in 2 .. Len(all)
      BY <1>3, <2>4
    <3>2. j - 1 \in 1 .. Len(lines) /\ all[j] = lines[j - 1]
      BY <1>4, <3>1
    <3>3. j - 1 < k - 1
      BY <1>3, <1>5
    <3>4. lines[j - 1] < lines[k - 1]
      BY <2>1, <3>2, <3>3 DEF LineList
    <3> QED  BY <2>1, <3>2, <3>4
  <2> QED  BY <2>3, <2>4
<1>6. ASSUME NEW k \in 1 .. Len(all)
      PROVE  all[k] \in LineEndings(bytes) /\ all[k] > o
  <2>1. CASE k = 1
    BY <1>3, <2>1
  <2>2. CASE k # 1
    <3>1. k \in 2 .. Len(all)
      BY <1>2, <1>3, <2>2
    <3>2. all[k] \in LineEndings(bytes) /\ all[k] > e
      BY <1>4, <3>1 DEF LineList
    <3>3. all[k] \in Int /\ e \in Int /\ o \in Int
      <4>1. all[k] \in 1 .. Len(bytes)
        BY <1>1, <3>2
      <4> QED  BY <1>1, <4>1
    <3> QED  BY <3>2, <3>3
  <2> QED  BY <2>1, <2>2
<1>7. ASSUME NEW i \in LineEndings(bytes), i > o
      PROVE  \E k \in 1 .. Len(all) : all[k] = i
  <2>1. CASE i = e
    BY <1>2, <1>3, <2>1
  <2>2. CASE i # e
    <3>1. i > e
      BY <1>1, <1>7, <2>2
    <3>2. PICK k \in 1 .. Len(lines) : lines[k] = i
      BY <3>1 DEF LineList
    <3>3. k + 1 \in 1 .. Len(all)
      BY <1>2, <1>3
    <3> QED  BY <1>3, <3>2, <3>3
  <2> QED  BY <2>1, <2>2
<1> QED  BY <1>3, <1>5, <1>6, <1>7 DEF LineList, all

\* The scan as a function of the offset it starts at.
ScanFrom(f, bytes) ==
  \A o \in 0 .. Len(bytes) :
    f[o] = IF next_terminator_end(bytes, o) # None
           THEN <<next_terminator_end(bytes, o)>> \o f[next_terminator_end(bytes, o)]
           ELSE IF o < Len(bytes) THEN <<Len(bytes)>> ELSE << >>

\* The scan visits the ends of lines from any offset on.
LEMMA BoundariesScan ==
  ASSUME NEW bytes \in ByteStrings
  PROVE  \E f : ScanFrom(f, bytes) /\ Boundaries(bytes) = f[0]
<1> DEFINE n == Len(bytes)
           S == Seq(Int)
           next(o) == next_terminator_end(bytes, o)
           jump == [o \in 0 .. n |-> next(o)]
           last == [o \in 0 .. n |-> IF o < n THEN <<n>> ELSE << >>]
           add == [a \in (0 .. n) \X S |-> <<jump[a[1]]>> \o a[2]]
           Eq(f) == f = [offset \in 0 .. n |->
                           IF next(offset) # None
                           THEN <<next(offset)>> \o f[next(offset)]
                           ELSE IF offset < n THEN <<n>> ELSE << >>]
           g == CHOOSE f : Eq(f)
<1>1. n \in Nat
  BY DEF ByteStrings
<1>2. Boundaries(bytes) = g[0]
  BY DEF Boundaries
<1>3. \A o \in 0 .. n : next(o) = None \/ next(o) \in o + 1 .. n
  BY <1>1, NextEnd DEF LineEndings
<1>4. last \in [0 .. n -> S]
  BY <1>1
<1>5. add \in [(0 .. n) \X S -> S]
  <2>1. \A a \in (0 .. n) \X S : a[1] \in 0 .. n /\ a[2] \in S /\ jump[a[1]] \in Int
    BY <1>1, <1>3 DEF None
  <2> HIDE DEF jump
  <2>2. \A a \in (0 .. n) \X S : <<jump[a[1]]>> \o a[2] \in S
    BY <2>1
  <2> QED  BY <2>2
<1>6. \A o \in 0 .. n : jump[o] # None => jump[o] \in o + 1 .. n
  BY <1>3
<1>7. PICK f \in [0 .. n -> S] : Jumps(f, n, last, jump, add)
  <2> HIDE DEF n, S, jump, last, add
  <2> QED  BY <1>1, <1>4, <1>5, <1>6, JumpRun
<1>8. ASSUME NEW o \in 0 .. n
      PROVE  f[o] = IF next(o) # None THEN <<next(o)>> \o f[next(o)]
                    ELSE IF o < n THEN <<n>> ELSE << >>
  <2>1. CASE next(o) # None
    <3>1. next(o) \in 0 .. n /\ jump[o] = next(o)
      BY <1>1, <1>3, <2>1
    <3> HIDE DEF next
    <3>2. f[next(o)] \in S
      BY <1>7, <3>1
    <3>3. <<o, f[next(o)]>> \in (0 .. n) \X S
      BY <3>2
    <3>4. add[<<o, f[next(o)]>>] = <<next(o)>> \o f[next(o)]
      BY <3>1, <3>3
    <3> HIDE DEF add, jump, last
    <3>5. f[o] = add[<<o, f[next(o)]>>]
      BY <1>7, <3>1, <2>1 DEF Jumps
    <3> QED  BY <2>1, <3>4, <3>5
  <2>2. CASE next(o) = None
    <3>1. jump[o] = None /\ last[o] = IF o < n THEN <<n>> ELSE << >>
      BY <2>2
    <3> HIDE DEF add, jump, last, next
    <3>2. f[o] = last[o]
      BY <1>7, <3>1 DEF Jumps
    <3> QED  BY <2>2, <3>1, <3>2
  <2> QED  BY <2>1, <2>2
<1>9. Eq(f)
  <2> HIDE DEF next
  <2> QED  BY <1>7, <1>8
<1>10. Eq(g)
  <2> HIDE DEF Eq
  <2> QED  BY <1>9
<1>11. ScanFrom(g, bytes)
  <2> HIDE DEF g
  <2> QED  BY <1>10 DEF ScanFrom
<1> QED  BY <1>2, <1>11

\* The boundaries of a byte string are the ends of its lines, in order.
LEMMA BoundariesAreEnds ==
  ASSUME NEW bytes \in ByteStrings
  PROVE  LineList(Boundaries(bytes), bytes, 0)
<1> DEFINE n == Len(bytes)
<1>1. n \in Nat
  BY DEF ByteStrings
<1>2. PICK f : ScanFrom(f, bytes) /\ Boundaries(bytes) = f[0]
  BY BoundariesScan
<1> DEFINE P == {m \in Nat : \A o \in 0 .. n : n - m <= o => LineList(f[o], bytes, o)}
<1>3. ASSUME NEW o \in 0 .. n,
             \A p \in 0 .. n : o < p => LineList(f[p], bytes, p)
      PROVE  LineList(f[o], bytes, o)
  <2> DEFINE e == next_terminator_end(bytes, o)
  <2>1. CASE e # None
    <3>1. e \in LineEndings(bytes) /\ e > o /\ \A i \in LineEndings(bytes) : i > o => e <= i
      BY <2>1, NextEnd
    <3>2. e \in 0 .. n
      BY <1>1, <3>1 DEF LineEndings
    <3>3. LineList(f[e], bytes, e)
      BY <1>3, <3>1, <3>2
    <3>4. f[o] = <<e>> \o f[e]
      BY <1>2, <2>1 DEF ScanFrom
    <3> HIDE DEF e
    <3> QED  BY <3>1, <3>3, <3>4, LineListCons
  <2>2. CASE e = None
    <3>1. \A i \in LineEndings(bytes) : i > o => i = n
      BY <2>2, NextEnd DEF LineEndings, None
    <3>2. f[o] = IF o < n THEN <<n>> ELSE << >>
      BY <1>2, <2>2 DEF ScanFrom
    <3>3. CASE o < n
      <4>1. f[o] = <<n>> /\ n \in LineEndings(bytes)
        BY <1>1, <3>2, <3>3 DEF LineEndings
      <4>2. /\ <<n>> \in Seq(1 .. n) /\ Len(<<n>>) = 1 /\ <<n>>[1] = n
        BY <1>1, <3>3
      <4> QED  BY <3>1, <3>3, <4>1, <4>2 DEF LineList
    <3>4. CASE ~(o < n)
      <4>1. f[o] = << >> /\ o = n
        BY <1>1, <3>2, <3>4
      <4>2. \A i \in LineEndings(bytes) : ~(i > o)
        BY <1>1, <4>1 DEF LineEndings
      <4> QED  BY <4>1, <4>2 DEF LineList
    <3> QED  BY <3>3, <3>4
  <2> QED  BY <2>1, <2>2
<1>4. 0 \in P
  <2>1. ASSUME NEW o \in 0 .. n, n - 0 <= o
        PROVE  LineList(f[o], bytes, o)
    <3>1. \A p \in 0 .. n : ~(o < p)
      BY <1>1, <2>1
    <3> QED  BY <1>3, <3>1
  <2> QED  BY <2>1
<1>5. ASSUME NEW m \in Nat, m \in P
      PROVE  m + 1 \in P
  <2>1. ASSUME NEW o \in 0 .. n, n - (m + 1) <= o
        PROVE  LineList(f[o], bytes, o)
    <3>1. \A p \in 0 .. n : o < p => n - m <= p
      BY <1>1, <2>1
    <3>2. \A p \in 0 .. n : o < p => LineList(f[p], bytes, p)
      BY <1>5, <3>1
    <3> QED  BY <1>3, <3>2
  <2> QED  BY <2>1
<1>6. n \in P
  <2> HIDE DEF P
  <2> QED  BY <1>1, <1>4, <1>5, SetInduction
<1>7. LineList(f[0], bytes, 0)
  BY <1>1, <1>6
<1> QED  BY <1>2, <1>7
=============================================================================
