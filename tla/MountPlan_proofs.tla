--------------------------- MODULE MountPlan_proofs ---------------------------
(* What the operators of the mount plan do, for any tree of paths and any   *)
(* configuration.                                                           *)
EXTENDS MountPlan, WellFoundedInduction, SequenceTheorems, FiniteSetTheorems, TLAPS

----------------------------------------------------------------------------
(* Recursive functions over the numbers up to one *)

LEMMA NatLess == IsWellFoundedOn({ss \in Nat \X Nat : ss[1] < ss[2]}, Nat)
  BY NatLessThanWellFounded DEF OpToRel

\* Induction over the natural numbers, for a set instead of a predicate.
LEMMA NatSetInduction ==
  ASSUME NEW S, 0 \in S, \A n \in Nat : n \in S => n + 1 \in S
  PROVE  Nat \subseteq S
<1> DEFINE R == {ss \in Nat \X Nat : ss[1] < ss[2]}
           T == Nat \ S
<1>1. SUFFICES ASSUME T # {} PROVE FALSE
  OBVIOUS
<1>2. PICK x \in T : \A y \in T : ~(<<y, x>> \in R)
  <2>1. T \subseteq Nat
    OBVIOUS
  <2>2. IsWellFoundedOn(R, Nat)
    BY NatLess
  <2> HIDE DEF T, R
  <2> QED BY <1>1, <2>1, <2>2, WFMin
<1>3. \A y \in T : ~(y < x)
  BY <1>2
<1>4. x # 0 /\ x - 1 \in Nat
  BY <1>2
<1>5. x - 1 \in T
  BY <1>2, <1>4
<1> QED BY <1>3, <1>4, <1>5

\* f goes from base by step, up to n.
Runs(f, base, step, T, n) ==
  /\ f \in [0 .. n -> T] /\ f[0] = base
  /\ \A k \in 1 .. n : f[k] = step[<<k, f[k - 1]>>]

\* Going by a function of the number and of what has been reached.
LEMMA RunExists ==
  ASSUME NEW n \in Nat, NEW T, NEW base \in T, NEW step \in [(1 .. n) \X T -> T]
  PROVE  \E f : Runs(f, base, step, T, n)
<1> DEFINE S == {m \in Nat : m <= n => \E f : Runs(f, base, step, T, m)}
<1>1. 0 \in S
  <2> DEFINE f == [k \in 0 .. 0 |-> base]
  <2>1. f \in [0 .. 0 -> T] /\ f[0] = base
    OBVIOUS
  <2> HIDE DEF f
  <2>2. Runs(f, base, step, T, 0)
    BY <2>1 DEF Runs
  <2> QED BY <2>2
<1>2. ASSUME NEW m \in Nat, m \in S PROVE m + 1 \in S
  <2> SUFFICES ASSUME m + 1 <= n PROVE \E f : Runs(f, base, step, T, m + 1)
    OBVIOUS
  <2>1. PICK f : Runs(f, base, step, T, m)
    BY <1>2
  <2>2. /\ f \in [0 .. m -> T] /\ f[0] = base
        /\ \A k \in 1 .. m : f[k] = step[<<k, f[k - 1]>>]
    BY <2>1 DEF Runs
  <2> DEFINE x == step[<<m + 1, f[m]>>]
             g == [k \in 0 .. m + 1 |-> IF k = m + 1 THEN x ELSE f[k]]
  <2>3. x \in T
    <3>1. m + 1 \in 1 .. n /\ f[m] \in T
      BY <2>2
    <3> QED BY <3>1
  <2> HIDE DEF x
  <2>4. g \in [0 .. m + 1 -> T] /\ g[m + 1] = x /\ \A k \in 0 .. m : g[k] = f[k]
    BY <2>2, <2>3
  <2> HIDE DEF g
  <2>5. ASSUME NEW k \in 1 .. m + 1 PROVE g[k] = step[<<k, g[k - 1]>>]
    <3>1. CASE k = m + 1
      <4>1. k - 1 = m /\ g[k - 1] = f[m]
        BY <2>4, <3>1
      <4> QED BY <2>4, <3>1, <4>1 DEF x
    <3>2. CASE k # m + 1
      <4>1. k \in 1 .. m /\ k \in 0 .. m /\ k - 1 \in 0 .. m
        BY <3>2
      <4> QED BY <2>2, <2>4, <4>1
    <3> QED BY <3>1, <3>2
  <2>6. g[0] = base
    BY <2>2, <2>4
  <2>7. Runs(g, base, step, T, m + 1)
    BY <2>4, <2>5, <2>6 DEF Runs
  <2> QED BY <2>7
<1>3. n \in S
  <2> HIDE DEF S
  <2> QED BY <1>1, <1>2, NatSetInduction
<1> QED BY <1>3

----------------------------------------------------------------------------
(* Paths *)

\* Paths are compared name by name.
LEMMA PrefixIs ==
  ASSUME NEW T, NEW s \in Seq(T), NEW t \in Seq(T)
  PROVE  IsPrefix(s, t) <=> Len(s) <= Len(t) /\ \A i \in 1 .. Len(s) : s[i] = t[i]
<1>1. Len(s) \in Nat /\ Len(t) \in Nat
  OBVIOUS
<1>2. CASE Len(s) <= Len(t)
  <2> DEFINE a == SubSeq(s, 1, Len(s))
             b == SubSeq(t, 1, Len(s))
  <2>1. /\ a \in Seq(T) /\ Len(a) = Len(s) /\ \A i \in 1 .. Len(s) : a[i] = s[i]
        /\ b \in Seq(T) /\ Len(b) = Len(s) /\ \A i \in 1 .. Len(s) : b[i] = t[i]
    BY <1>1, <1>2
  <2>2. a = b <=> \A i \in 1 .. Len(s) : s[i] = t[i]
    <3> HIDE DEF a, b
    <3>1. ASSUME \A i \in 1 .. Len(s) : s[i] = t[i] PROVE a = b
      <4>1. Len(a) = Len(b) /\ \A i \in 1 .. Len(a) : a[i] = b[i]
        BY <2>1, <3>1
      <4> QED BY <2>1, <4>1, SeqEqual
    <3> QED BY <2>1, <3>1
  <2> QED BY <1>2, <2>2 DEF IsPrefix
<1>3. CASE ~(Len(s) <= Len(t))
  BY <1>3 DEF IsPrefix
<1> QED BY <1>2, <1>3

\* What is within a path is within those that it is within.
LEMMA WithinTransitive ==
  ASSUME NEW p \in Path, NEW q \in Path, NEW r \in Path, is_within(p, q), is_within(q, r)
  PROVE  is_within(p, r)
<1>1. /\ Len(r) <= Len(q) /\ \A i \in 1 .. Len(r) : r[i] = q[i]
      /\ Len(q) <= Len(p) /\ \A i \in 1 .. Len(q) : q[i] = p[i]
  BY PrefixIs DEF Path, is_within
<1>2. Len(p) \in Nat /\ Len(q) \in Nat /\ Len(r) \in Nat
  BY DEF Path
<1>3. Len(r) <= Len(p) /\ \A i \in 1 .. Len(r) : r[i] = p[i]
  BY <1>1, <1>2
<1> QED BY <1>3, PrefixIs DEF Path, is_within

\* Every path is within itself and within the root.
LEMMA WithinSelf ==
  ASSUME NEW p \in Path
  PROVE  is_within(p, p) /\ is_within(p, <<>>)
<1> DEFINE root == <<>>
           T == ToSet(Names)
<1>1. root \in Seq(T) /\ p \in Seq(T) /\ Len(p) \in Nat /\ Len(root) = 0
  BY DEF Path
<1> HIDE DEF root, T
<1>2. IsPrefix(root, p)
  <2>1. Len(root) <= Len(p) /\ \A i \in 1 .. Len(root) : root[i] = p[i]
    BY <1>1
  <2> QED BY <1>1, <2>1, PrefixIs
<1>3. IsPrefix(p, p)
  BY <1>1 DEF IsPrefix
<1> QED BY <1>2, <1>3 DEF is_within, root

\* A path is the one it is within and what is below it.
LEMMA BelowJoined ==
  ASSUME NEW p \in Path, NEW d \in Path, is_within(p, d)
  PROVE  /\ d \o SubSeq(p, Len(d) + 1, Len(p)) = p
         /\ SubSeq(p, Len(d) + 1, Len(p)) \in Path
<1> DEFINE N == ToSet(Names)
           rest == SubSeq(p, Len(d) + 1, Len(p))
           a == Len(d)
           b == Len(p)
           both == d \o rest
<1>1. a \in Nat /\ b \in Nat /\ a <= b /\ \A i \in 1 .. a : d[i] = p[i]
  BY PrefixIs DEF Path, is_within
<1>2. rest \in Seq(N) /\ Len(rest) = b - a /\ \A i \in 1 .. b - a : rest[i] = p[a + i]
  <2>1. \A i \in a + 1 .. b : p[i] \in N
    BY <1>1 DEF Path
  <2>2. /\ rest \in Seq(N) /\ Len(rest) = IF a + 1 <= b THEN b - (a + 1) + 1 ELSE 0
        /\ \A i \in 1 .. b - (a + 1) + 1 : rest[i] = p[a + 1 + i - 1]
    BY <1>1, <2>1, SubSeqProperties DEF Path
  <2> HIDE DEF rest, a, b
  <2> QED BY <1>1, <2>2
<1>8. rest \in Path
  BY <1>2 DEF Path
<1> HIDE DEF rest
<1>3. /\ both \in Seq(N) /\ Len(both) = a + (b - a)
      /\ \A i \in 1 .. b : both[i] = IF i <= a THEN d[i] ELSE rest[i - a]
  BY <1>1, <1>2, ConcatProperties DEF Path
<1> HIDE DEF both, a, b, N
<1>4. Len(both) = b
  BY <1>1, <1>3
<1>5. ASSUME NEW i \in 1 .. b PROVE both[i] = p[i]
  <2>1. CASE i <= a
    BY <1>1, <1>3, <2>1
  <2>2. CASE ~(i <= a)
    <3>1. i - a \in 1 .. b - a /\ a + (i - a) = i
      BY <1>1, <2>2
    <3> QED BY <1>2, <1>3, <2>2, <3>1
  <2> QED BY <2>1, <2>2
<1>6. p \in Seq(N) /\ Len(p) = b
  BY DEF Path, N, b
<1>7. both = p
  BY <1>3, <1>4, <1>5, <1>6, SeqEqual
<1> QED BY <1>7, <1>8 DEF both, rest

----------------------------------------------------------------------------
(* Paths in order *)

\* R orders the members of S, one after the other.
Orders(R, S) ==
  /\ \A p \in S : <<p, p>> \notin R
  /\ \A p, q \in S : p = q \/ <<p, q>> \in R \/ <<q, p>> \in R
  /\ \A p, q, r \in S : <<p, q>> \in R /\ <<q, r>> \in R => <<p, r>> \in R
Preceding(R, S, p) == {q \in S : <<q, p>> \in R}

\* A member that comes later has more before it.
LEMMA MorePrecede ==
  ASSUME NEW S, IsFiniteSet(S), NEW R, Orders(R, S), NEW p \in S
  PROVE  /\ Cardinality(Preceding(R, S, p)) \in 0 .. Cardinality(S) - 1
         /\ \A q \in S : <<p, q>> \in R =>
              Cardinality(Preceding(R, S, p)) < Cardinality(Preceding(R, S, q))
<1>1. ASSUME NEW q \in S
      PROVE  IsFiniteSet(Preceding(R, S, q)) /\ Cardinality(Preceding(R, S, q)) \in Nat
  <2>1. Preceding(R, S, q) \in SUBSET S
    BY DEF Preceding
  <2> QED BY <2>1, FS_Subset, FS_CardinalityType
<1>2. Cardinality(Preceding(R, S, p)) <= Cardinality(S) - 1 /\ Cardinality(S) \in Nat
  <2>1. IsFiniteSet(S \ {p}) /\ Cardinality(S \ {p}) = Cardinality(S) - 1
    BY FS_RemoveElement
  <2>2. Preceding(R, S, p) \in SUBSET (S \ {p})
    BY DEF Preceding, Orders
  <2> QED BY <2>1, <2>2, FS_Subset, FS_CardinalityType
<1>3. ASSUME NEW q \in S, <<p, q>> \in R
      PROVE  Cardinality(Preceding(R, S, p)) < Cardinality(Preceding(R, S, q))
  <2> DEFINE a == Preceding(R, S, p)
             b == Preceding(R, S, q)
  <2>1. p \in b /\ p \notin a /\ a \subseteq b
    BY <1>3 DEF Preceding, Orders
  <2>2. IsFiniteSet(b) /\ Cardinality(a) \in Nat /\ Cardinality(b) \in Nat
    BY <1>1
  <2> HIDE DEF a, b
  <2>3. IsFiniteSet(b \ {p}) /\ Cardinality(b \ {p}) = Cardinality(b) - 1
    BY <2>1, <2>2, FS_RemoveElement
  <2>4. Cardinality(a) <= Cardinality(b \ {p})
    <3>1. a \in SUBSET (b \ {p})
      BY <2>1
    <3> QED BY <2>3, <3>1, FS_Subset
  <2>5. Cardinality(a) < Cardinality(b)
    BY <2>2, <2>3, <2>4
  <2> QED BY <2>5 DEF a, b
<1> QED BY <1>1, <1>2, <1>3

\* Each number below that of all members precede some member.
LEMMA EachPlaceTaken ==
  ASSUME NEW S, IsFiniteSet(S), NEW R, Orders(R, S), NEW i \in 1 .. Cardinality(S)
  PROVE  \E p \in S : Cardinality(Preceding(R, S, p)) = i - 1
<1> DEFINE n == Cardinality(S)
           T == 0 .. n - 1
           f == [p \in S |-> Cardinality(Preceding(R, S, p))]
<1>1. n \in Nat
  BY FS_CardinalityType
<1>2. IsFiniteSet(T) /\ Cardinality(T) = n
  <2>1. 0 \in Int /\ n - 1 \in Int /\ (0 > n - 1 => n = 0) /\ (n - 1) - 0 + 1 = n
    BY <1>1
  <2> HIDE DEF n
  <2> QED BY <1>1, <2>1, FS_Interval
<1>3. f \in [S -> T]
  BY MorePrecede
<1>4. \A p, q \in S : f[p] = f[q] => p = q
  <2> SUFFICES ASSUME NEW p \in S, NEW q \in S, p # q PROVE f[p] # f[q]
    OBVIOUS
  <2>1. /\ <<p, q>> \in R => f[p] < f[q]
        /\ <<q, p>> \in R => f[q] < f[p]
    BY MorePrecede
  <2>2. f[p] \in Nat /\ f[q] \in Nat
    <3>1. T \subseteq Nat
      BY <1>1
    <3> HIDE DEF T, f
    <3> QED BY <1>3, <3>1
  <2> HIDE DEF f
  <2> QED BY <2>1, <2>2 DEF Orders
<1> HIDE DEF f
<1>5. f \in Injection(S, T)
  BY <1>3, <1>4 DEF Injection, IsInjective
<1>6. f \in Surjection(S, T)
  <2> HIDE DEF T
  <2> QED BY <1>2, <1>5, FS_Injection DEF n
<1>7. i - 1 \in T
  BY <1>1
<1>8. PICK p \in S : f[p] = i - 1
  BY <1>6, <1>7 DEF Surjection
<1> QED BY <1>8 DEF f

\* So a sequence by the number that precede has each member at one place.
InPlaces(s, R, S) ==
  /\ s \in [1 .. Cardinality(S) -> S]
  /\ \A i \in 1 .. Cardinality(S) : Cardinality(Preceding(R, S, s[i])) = i - 1

Distinct(s) == \A i, j \in 1 .. Len(s) : s[i] = s[j] => i = j

LEMMA OrderedIs ==
  ASSUME NEW S, IsFiniteSet(S), NEW R, Orders(R, S), NEW s, InPlaces(s, R, S)
  PROVE  s \in Seq(S) /\ Len(s) = Cardinality(S) /\ ToSet(s) = S /\ Distinct(s)
<1> DEFINE n == Cardinality(S)
<1>1. n \in Nat
  BY FS_CardinalityType
<1>2. \A i \in 1 .. n : s[i] \in S /\ Cardinality(Preceding(R, S, s[i])) = i - 1
  BY DEF InPlaces
<1>3. s \in [1 .. n -> S]
  BY DEF InPlaces
<1>4. s \in Seq(S) /\ Len(s) = n /\ DOMAIN s = 1 .. n
  <2> HIDE DEF n
  <2> QED BY <1>1, <1>3
<1>5. ASSUME NEW p \in S PROVE \E i \in 1 .. n : s[i] = p
  <2> DEFINE k == Cardinality(Preceding(R, S, p))
             i == k + 1
  <2>1. k \in 0 .. n - 1
    BY MorePrecede
  <2>2. i \in 1 .. n /\ i - 1 = k
    <3> HIDE DEF k, n
    <3> QED BY <1>1, <2>1
  <2>3. s[i] \in S /\ Cardinality(Preceding(R, S, s[i])) = k
    BY <1>2, <2>2
  <2>4. s[i] = p
    <3> DEFINE q == s[i]
               m == Cardinality(Preceding(R, S, q))
    <3>1. q \in S /\ m = k /\ k \in Nat
      BY <2>1, <2>3
    <3>2. (<<p, q>> \in R => k < m) /\ (<<q, p>> \in R => m < k)
      BY <3>1, MorePrecede
    <3> HIDE DEF k, m, q
    <3>3. q = p
      BY <3>1, <3>2 DEF Orders
    <3> QED BY <3>3 DEF q
  <2> QED BY <2>2, <2>4
<1>6. ToSet(s) = S
  BY <1>2, <1>4, <1>5 DEF ToSet
<1>7. Distinct(s)
  <2> SUFFICES ASSUME NEW i \in 1 .. n, NEW j \in 1 .. n, s[i] = s[j] PROVE i = j
    BY <1>4 DEF Distinct
  <2>1. i - 1 = j - 1
    BY <1>2
  <2> HIDE DEF n
  <2> QED BY <1>1, <2>1
<1> QED BY <1>4, <1>6, <1>7

\* Names are told apart by their rank.
LEMMA RankIs ==
  ASSUME NEW name \in ToSet(Names)
  PROVE  Rank(name) \in Nat /\ Names[Rank(name)] = name
<1>1. DOMAIN Names \subseteq Nat
  BY NamesAssumption DEF Path
<1>2. \E i \in DOMAIN Names : Names[i] = name
  BY DEF ToSet
<1> QED BY <1>1, <1>2 DEF Rank

\* The first place at which two paths differ.
Differ(p, q, i) ==
  /\ i \in 1 .. Len(p) /\ i \in 1 .. Len(q)
  /\ \A j \in 1 .. (i - 1) : p[j] = q[j]
  /\ Rank(p[i]) < Rank(q[i])
Extends(p, q) == Len(p) < Len(q) /\ \A i \in 1 .. Len(p) : p[i] = q[i]

LEMMA BeforeIs ==
  ASSUME NEW p \in Path, NEW q \in Path
  PROVE  Before(p, q) <=> Extends(p, q) \/ \E i \in Nat : Differ(p, q, i)
<1> DEFINE T == ToSet(Names)
<1>1. /\ p \in Seq(T) /\ q \in Seq(T) /\ DOMAIN p = 1 .. Len(p) /\ DOMAIN q = 1 .. Len(q)
      /\ Len(p) \in Nat /\ Len(q) \in Nat
  BY DEF Path
<1> HIDE DEF T
<1>2. IsPrefix(p, q) <=> Len(p) <= Len(q) /\ \A i \in 1 .. Len(p) : p[i] = q[i]
  BY <1>1, PrefixIs
<1>3. IsStrictPrefix(p, q) <=> Extends(p, q)
  <2>1. ASSUME IsPrefix(p, q), p # q PROVE Len(p) # Len(q)
    BY <1>1, <1>2, <2>1, SeqEqual
  <2>2. Len(p) < Len(q) => p # q
    BY <1>1
  <2> DEFINE x == Len(p)
             y == Len(q)
             same == \A i \in 1 .. Len(p) : p[i] = q[i]
  <2>3. /\ x \in Nat /\ y \in Nat /\ (IsPrefix(p, q) <=> x <= y /\ same)
        /\ (IsPrefix(p, q) /\ p # q => x # y) /\ (x < y => p # q)
    BY <1>1, <1>2, <2>1, <2>2
  <2>4. (IsStrictPrefix(p, q) <=> IsPrefix(p, q) /\ p # q) /\ (Extends(p, q) <=> x < y /\ same)
    BY DEF IsStrictPrefix, Extends
  <2> HIDE DEF x, y, same
  <2> QED BY <2>3, <2>4
<1>4. ASSUME NEW i
      PROVE  Differ(p, q, i) <=> /\ i \in DOMAIN p \cap DOMAIN q
                                 /\ \A j \in 1..(i - 1) : p[j] = q[j]
                                 /\ Rank(p[i]) < Rank(q[i])
  BY <1>1 DEF Differ
<1>5. \A i : Differ(p, q, i) => i \in Nat
  BY <1>1 DEF Differ
<1> QED BY <1>3, <1>4, <1>5 DEF Before

\* The order of the paths: alphabetical, a directory before what is in it.
LEMMA BeforeExcludes ==
  ASSUME NEW p \in Path
  PROVE  ~Before(p, p)
<1>1. Len(p) \in Nat
  BY DEF Path
<1>2. ~Extends(p, p)
  BY <1>1 DEF Extends
<1>3. ASSUME NEW i \in Nat, Differ(p, p, i) PROVE FALSE
  <2>1. i \in 1 .. Len(p) /\ Rank(p[i]) < Rank(p[i])
    BY <1>3 DEF Differ
  <2>2. Rank(p[i]) \in Nat
    BY <2>1, RankIs DEF Path
  <2> QED BY <2>1, <2>2
<1> QED BY <1>2, <1>3, BeforeIs

LEMMA BeforeConnects ==
  ASSUME NEW p \in Path, NEW q \in Path, p # q
  PROVE  Before(p, q) \/ Before(q, p)
<1> DEFINE D == {i \in Nat : i \in 1 .. Len(p) /\ i \in 1 .. Len(q) /\ p[i] # q[i]}
           T == ToSet(Names)
<1>1. /\ p \in Seq(T) /\ q \in Seq(T) /\ Len(p) \in Nat /\ Len(q) \in Nat
      /\ \A i \in 1 .. Len(p) : p[i] \in T
      /\ \A i \in 1 .. Len(q) : q[i] \in T
  BY DEF Path
<1> HIDE DEF T
<1>2. CASE D = {}
  <2>1. \A i : i \in 1 .. Len(p) /\ i \in 1 .. Len(q) => p[i] = q[i]
    BY <1>1, <1>2
  <2>2. CASE Len(p) < Len(q)
    <3>1. Extends(p, q)
      BY <1>1, <2>1, <2>2 DEF Extends
    <3> QED BY <3>1, BeforeIs
  <2>3. CASE Len(q) < Len(p)
    <3>1. Extends(q, p)
      BY <1>1, <2>1, <2>3 DEF Extends
    <3> QED BY <3>1, BeforeIs
  <2>4. CASE Len(p) = Len(q)
    <3>1. \A i \in 1 .. Len(p) : p[i] = q[i]
      BY <2>1, <2>4
    <3> QED BY <1>1, <2>4, <3>1, SeqEqual
  <2> QED BY <1>1, <2>2, <2>3, <2>4
<1>3. CASE D # {}
  <2>1. PICK i \in D : \A j \in D : ~(j < i)
    <3>1. PICK i \in D : \A j \in D : ~(<<j, i>> \in {ss \in Nat \X Nat : ss[1] < ss[2]})
      <4>1. D \subseteq Nat
        OBVIOUS
      <4> HIDE DEF D
      <4> QED BY <1>3, <4>1, NatLess, WFMin
    <3> QED BY <3>1
  <2>2. i \in Nat /\ i \in 1 .. Len(p) /\ i \in 1 .. Len(q) /\ p[i] # q[i]
    BY <2>1
  <2>3. \A j \in 1 .. (i - 1) : p[j] = q[j] /\ q[j] = p[j]
    <3> SUFFICES ASSUME NEW j \in 1 .. (i - 1), p[j] # q[j] PROVE FALSE
      OBVIOUS
    <3>1. j \in Nat /\ j \in 1 .. Len(p) /\ j \in 1 .. Len(q) /\ j < i
      BY <1>1, <2>2
    <3> QED BY <2>1, <3>1
  <2>4. Rank(p[i]) # Rank(q[i]) /\ Rank(p[i]) \in Nat /\ Rank(q[i]) \in Nat
    BY <1>1, <2>2, RankIs DEF T
  <2>5. CASE Rank(p[i]) < Rank(q[i])
    <3>1. Differ(p, q, i)
      BY <2>2, <2>3, <2>5 DEF Differ
    <3> QED BY <2>2, <3>1, BeforeIs
  <2>6. CASE Rank(q[i]) < Rank(p[i])
    <3>1. Differ(q, p, i)
      BY <2>2, <2>3, <2>6 DEF Differ
    <3> QED BY <2>2, <3>1, BeforeIs
  <2> QED BY <2>4, <2>5, <2>6
<1> QED BY <1>2, <1>3

LEMMA BeforeTransitive ==
  ASSUME NEW p \in Path, NEW q \in Path, NEW r \in Path, Before(p, q), Before(q, r)
  PROVE  Before(p, r)
<1>1. /\ Len(p) \in Nat /\ Len(q) \in Nat /\ Len(r) \in Nat
      /\ \A i \in 1 .. Len(p) : Rank(p[i]) \in Nat
      /\ \A i \in 1 .. Len(q) : Rank(q[i]) \in Nat
      /\ \A i \in 1 .. Len(r) : Rank(r[i]) \in Nat
  BY RankIs DEF Path
<1>2. SUFFICES Extends(p, r) \/ \E i \in Nat : Differ(p, r, i)
  BY BeforeIs
<1>3. /\ Extends(p, q) \/ \E i \in Nat : Differ(p, q, i)
      /\ Extends(q, r) \/ \E i \in Nat : Differ(q, r, i)
  BY BeforeIs
<1>4. CASE Extends(p, q) /\ Extends(q, r)
  BY <1>1, <1>4 DEF Extends
<1>5. ASSUME NEW i \in Nat, Extends(p, q), Differ(q, r, i)
      PROVE  Extends(p, r) \/ Differ(p, r, i)
  <2>1. /\ Len(p) < Len(q) /\ \A j \in 1 .. Len(p) : p[j] = q[j]
        /\ i \in 1 .. Len(q) /\ i \in 1 .. Len(r) /\ Rank(q[i]) < Rank(r[i])
        /\ \A j \in 1 .. (i - 1) : q[j] = r[j]
    BY <1>5 DEF Extends, Differ
  <2>2. CASE i <= Len(p)
    <3>1. i \in 1 .. Len(p) /\ p[i] = q[i]
      BY <1>1, <2>1, <2>2
    <3>2. \A j \in 1 .. (i - 1) : p[j] = r[j]
      BY <1>1, <2>1, <2>2
    <3> QED BY <2>1, <3>1, <3>2 DEF Differ
  <2>3. CASE ~(i <= Len(p))
    <3>1. Len(p) < Len(r)
      BY <1>1, <2>1, <2>3
    <3>2. \A j \in 1 .. Len(p) : p[j] = r[j]
      BY <1>1, <2>1, <2>3
    <3> QED BY <3>1, <3>2 DEF Extends
  <2> QED BY <2>2, <2>3
<1>6. ASSUME NEW i \in Nat, Differ(p, q, i), Extends(q, r)
      PROVE  Differ(p, r, i)
  <2>1. /\ i \in 1 .. Len(p) /\ i \in 1 .. Len(q) /\ Rank(p[i]) < Rank(q[i])
        /\ \A j \in 1 .. (i - 1) : p[j] = q[j]
        /\ Len(q) < Len(r) /\ \A j \in 1 .. Len(q) : q[j] = r[j]
    BY <1>6 DEF Extends, Differ
  <2>2. i \in 1 .. Len(r) /\ q[i] = r[i]
    BY <1>1, <2>1
  <2>3. \A j \in 1 .. (i - 1) : p[j] = r[j]
    BY <1>1, <2>1
  <2> QED BY <2>1, <2>2, <2>3 DEF Differ
<1>7. ASSUME NEW i \in Nat, NEW k \in Nat, Differ(p, q, i), Differ(q, r, k)
      PROVE  \E j \in Nat : Differ(p, r, j)
  <2>1. /\ i \in 1 .. Len(p) /\ i \in 1 .. Len(q) /\ Rank(p[i]) < Rank(q[i])
        /\ \A j \in 1 .. (i - 1) : p[j] = q[j]
        /\ k \in 1 .. Len(q) /\ k \in 1 .. Len(r) /\ Rank(q[k]) < Rank(r[k])
        /\ \A j \in 1 .. (k - 1) : q[j] = r[j]
    BY <1>7 DEF Differ
  <2>2. CASE i < k
    <3>1. i \in 1 .. Len(r) /\ q[i] = r[i]
      BY <1>1, <2>1, <2>2
    <3>2. \A j \in 1 .. (i - 1) : p[j] = r[j]
      BY <2>1, <2>2
    <3>3. Differ(p, r, i)
      BY <2>1, <3>1, <3>2 DEF Differ
    <3> QED BY <3>3
  <2>3. CASE k < i
    <3>1. k \in 1 .. Len(p) /\ p[k] = q[k]
      BY <1>1, <2>1, <2>3
    <3>2. \A j \in 1 .. (k - 1) : p[j] = r[j]
      BY <2>1, <2>3
    <3>3. Differ(p, r, k)
      BY <2>1, <3>1, <3>2 DEF Differ
    <3> QED BY <3>3
  <2>4. CASE k = i
    <3>1. Rank(p[i]) < Rank(r[i])
      <4> DEFINE a == Rank(p[i])
                 b == Rank(q[i])
                 c == Rank(r[i])
      <4>1. a \in Nat /\ b \in Nat /\ c \in Nat /\ a < b /\ b < c
        BY <1>1, <2>1, <2>4
      <4> HIDE DEF a, b, c
      <4>2. a < c
        BY <4>1
      <4> QED BY <4>2 DEF a, c
    <3>2. \A j \in 1 .. (i - 1) : p[j] = r[j]
      BY <2>1, <2>4
    <3>3. Differ(p, r, i)
      BY <2>1, <2>4, <3>1, <3>2 DEF Differ
    <3> QED BY <3>3
  <2> QED BY <2>2, <2>3, <2>4
<1> QED BY <1>3, <1>4, <1>5, <1>6, <1>7

\* A finite set of paths in this order: each of them once.
LEMMA SortedIs ==
  ASSUME NEW S, IsFiniteSet(S), S \subseteq Path
  PROVE  /\ Sorted(S) \in Seq(S) /\ Len(Sorted(S)) = Cardinality(S)
         /\ ToSet(Sorted(S)) = S /\ Distinct(Sorted(S))
<1> DEFINE R == {ss \in S \X S : Before(ss[1], ss[2])}
<1>1. \A p, q \in S : <<p, q>> \in R <=> Before(p, q)
  OBVIOUS
<1> HIDE DEF R
<1>2. Orders(R, S)
  <2>1. \A p \in S : <<p, p>> \notin R
    BY <1>1, BeforeExcludes
  <2>2. \A p, q \in S : p = q \/ <<p, q>> \in R \/ <<q, p>> \in R
    BY <1>1, BeforeConnects
  <2>3. ASSUME NEW p \in S, NEW q \in S, NEW r \in S, <<p, q>> \in R, <<q, r>> \in R
        PROVE  <<p, r>> \in R
    <3>1. p \in Path /\ q \in Path /\ r \in Path /\ Before(p, q) /\ Before(q, r)
      BY <1>1, <2>3
    <3>2. Before(p, r)
      BY <3>1, BeforeTransitive
    <3> QED BY <1>1, <3>2
  <2> QED BY <2>1, <2>2, <2>3 DEF Orders
<1>3. \A p \in S : {q \in S : Before(q, p)} = Preceding(R, S, p)
  BY <1>1 DEF Preceding
<1>4. InPlaces(Sorted(S), R, S)
  <2> DEFINE n == Cardinality(S)
             s == Sorted(S)
  <2>1. s = [i \in 1 .. n |-> CHOOSE p \in S : Cardinality({q \in S : Before(q, p)}) = i - 1]
    BY DEF Sorted, InOrder
  <2>2. ASSUME NEW i \in 1 .. n
        PROVE  s[i] \in S /\ Cardinality(Preceding(R, S, s[i])) = i - 1
    <3>1. \E p \in S : Cardinality({q \in S : Before(q, p)}) = i - 1
      <4>1. PICK p \in S : Cardinality(Preceding(R, S, p)) = i - 1
        BY <1>2, EachPlaceTaken
      <4>2. {q \in S : Before(q, p)} = Preceding(R, S, p)
        BY <1>3
      <4> QED BY <4>1, <4>2
    <3> DEFINE x == CHOOSE p \in S : Cardinality({q \in S : Before(q, p)}) = i - 1
    <3>2. x \in S /\ Cardinality({q \in S : Before(q, x)}) = i - 1
      BY <3>1
    <3>3. s[i] = x
      BY <2>1
    <3> HIDE DEF x, s
    <3> QED BY <1>3, <3>2, <3>3
  <2>3. s \in [1 .. n -> S]
    BY <2>1, <2>2
  <2> HIDE DEF s
  <2>4. InPlaces(s, R, S)
    BY <2>2, <2>3 DEF InPlaces
  <2> QED BY <2>4 DEF s
<1> QED BY <1>2, <1>4, OrderedIs

\* The same for the shorter paths first.
LEMMA ByDepthIs ==
  ASSUME NEW S, IsFiniteSet(S), S \subseteq Path
  PROVE  /\ ByDepth(S) \in Seq(S) /\ Len(ByDepth(S)) = Cardinality(S)
         /\ ToSet(ByDepth(S)) = S /\ Distinct(ByDepth(S))
<1> DEFINE R == {ss \in S \X S : Shallower(ss[1], ss[2])}
<1>1. \A p, q \in S : <<p, q>> \in R <=> Len(p) < Len(q) \/ (Len(p) = Len(q) /\ Before(p, q))
  BY DEF Shallower
<1>5. \A p, q \in S : <<p, q>> \in R <=> Shallower(p, q)
  OBVIOUS
<1>6. \A p \in S : p \in Path /\ Len(p) \in Nat
  BY DEF Path
<1> HIDE DEF R
<1>2. Orders(R, S)
  <2>1. \A p \in S : <<p, p>> \notin R
    BY <1>1, <1>6, BeforeExcludes
  <2>2. ASSUME NEW p \in S, NEW q \in S, p # q PROVE <<p, q>> \in R \/ <<q, p>> \in R
    <3> DEFINE x == Len(p)
               y == Len(q)
    <3>1. x \in Nat /\ y \in Nat /\ (Before(p, q) \/ Before(q, p))
      BY <1>6, <2>2, BeforeConnects
    <3>2. /\ <<p, q>> \in R <=> x < y \/ (x = y /\ Before(p, q))
          /\ <<q, p>> \in R <=> y < x \/ (y = x /\ Before(q, p))
      BY <1>1
    <3> HIDE DEF x, y
    <3> QED BY <3>1, <3>2
  <2>3. ASSUME NEW p \in S, NEW q \in S, NEW r \in S, <<p, q>> \in R, <<q, r>> \in R
        PROVE  <<p, r>> \in R
    <3> DEFINE x == Len(p)
               y == Len(q)
               z == Len(r)
    <3>1. /\ x \in Nat /\ y \in Nat /\ z \in Nat
      BY <1>1, <1>6, <2>3
    <3>2. Before(p, q) /\ Before(q, r) => Before(p, r)
      BY <1>6, BeforeTransitive
    <3>3. /\ x < y \/ (x = y /\ Before(p, q))
          /\ y < z \/ (y = z /\ Before(q, r))
      BY <1>1, <2>3
    <3>4. <<p, r>> \in R <=> x < z \/ (x = z /\ Before(p, r))
      BY <1>1
    <3> HIDE DEF x, y, z
    <3> QED BY <3>1, <3>2, <3>3, <3>4
  <2> QED BY <2>1, <2>2, <2>3 DEF Orders
<1>3. \A p \in S : {q \in S : Shallower(q, p)} = Preceding(R, S, p)
  BY <1>5 DEF Preceding
<1>4. InPlaces(ByDepth(S), R, S)
  <2> DEFINE n == Cardinality(S)
             s == ByDepth(S)
  <2>1. s = [i \in 1 .. n |-> CHOOSE p \in S : Cardinality({q \in S : Shallower(q, p)}) = i - 1]
    BY DEF ByDepth, InOrder
  <2>2. ASSUME NEW i \in 1 .. n
        PROVE  s[i] \in S /\ Cardinality(Preceding(R, S, s[i])) = i - 1
    <3>1. \E p \in S : Cardinality({q \in S : Shallower(q, p)}) = i - 1
      <4>1. PICK p \in S : Cardinality(Preceding(R, S, p)) = i - 1
        BY <1>2, EachPlaceTaken
      <4>2. {q \in S : Shallower(q, p)} = Preceding(R, S, p)
        BY <1>3
      <4> QED BY <4>1, <4>2
    <3> DEFINE x == CHOOSE p \in S : Cardinality({q \in S : Shallower(q, p)}) = i - 1
    <3>2. x \in S /\ Cardinality({q \in S : Shallower(q, x)}) = i - 1
      BY <3>1
    <3>3. s[i] = x
      BY <2>1
    <3> HIDE DEF x, s
    <3> QED BY <1>3, <3>2, <3>3
  <2>3. s \in [1 .. n -> S]
    BY <2>1, <2>2
  <2> HIDE DEF s
  <2>4. InPlaces(s, R, S)
    BY <2>2, <2>3 DEF InPlaces
  <2> QED BY <2>4 DEF s
<1> QED BY <1>2, <1>4, OrderedIs

----------------------------------------------------------------------------
(* Where a path leads *)

\* Counting up to n.
LEMMA CountUp ==
  ASSUME NEW n \in Nat, NEW S, 0 \in S, \A k \in 1 .. n : k - 1 \in S => k \in S
  PROVE  \A k \in 0 .. n : k \in S
<1> DEFINE U == {k \in Nat : k <= n => k \in S}
<1>1. 0 \in U
  OBVIOUS
<1>2. ASSUME NEW k \in Nat, k \in U PROVE k + 1 \in U
  <2> SUFFICES ASSUME k + 1 <= n PROVE k + 1 \in S
    OBVIOUS
  <2>1. k \in S
    BY <1>2
  <2>2. k + 1 \in 1 .. n /\ (k + 1) - 1 = k
    OBVIOUS
  <2> QED BY <2>1, <2>2
<1>3. Nat \subseteq U
  <2> HIDE DEF U
  <2> QED BY <1>1, <1>2, NatSetInduction
<1> QED BY <1>3

\* One more name, and a link followed.
Follow(host, at, name) ==
  LET p == Append(at, name)
  IN IF p \in DOMAIN host.link THEN host.link[p] ELSE p

LinksOK(host) == \A p \in DOMAIN host.link : host.link[p] \in Path

\* The names of a path are followed one after the other.
Resolves(host, path, at) ==
  /\ at \in [0 .. Len(path) -> Path]
  /\ at[0] = <<>> /\ \A k \in 1 .. Len(path) : at[k] = Follow(host, at[k - 1], path[k])
  /\ realpath(host, path) = at[Len(path)]

LEMMA ResolvedByNames ==
  ASSUME NEW host, LinksOK(host), NEW path \in Path
  PROVE  \E at : Resolves(host, path, at)
<1> DEFINE n == Len(path)
           Body(f) == [k \in 0 .. n |-> IF k = 0 THEN <<>> ELSE Follow(host, f[k - 1], path[k])]
           at == CHOOSE f : f = Body(f)
           step == [x \in (1 .. n) \X Path |-> Follow(host, x[2], path[x[1]])]
           S == {k \in 0 .. n : at[k] \in Path}
<1>1. n \in Nat /\ <<>> \in Path /\ \A k \in 1 .. n : path[k] \in ToSet(Names)
  BY DEF Path
<1>2. ASSUME NEW a \in Path, NEW name \in ToSet(Names) PROVE Follow(host, a, name) \in Path
  <2>1. Append(a, name) \in Path
    BY DEF Path
  <2> QED BY <2>1 DEF Follow, LinksOK
<1>3. step \in [(1 .. n) \X Path -> Path]
  <2>1. \A x \in (1 .. n) \X Path : Follow(host, x[2], path[x[1]]) \in Path
    BY <1>1, <1>2
  <2> QED BY <2>1
<1>4. \E f : f = Body(f)
  <2>1. PICK f : Runs(f, <<>>, step, Path, n)
    <3> HIDE DEF step, n
    <3> QED BY <1>1, <1>3, RunExists
  <2>2. f \in [0 .. n -> Path] /\ f[0] = <<>> /\ \A k \in 1 .. n : f[k] = step[<<k, f[k - 1]>>]
    BY <2>1 DEF Runs
  <2>3. ASSUME NEW k \in 1 .. n PROVE f[k] = Follow(host, f[k - 1], path[k])
    <3>1. k - 1 \in 0 .. n
      BY <1>1
    <3>2. <<k, f[k - 1]>> \in (1 .. n) \X Path
      BY <2>2, <3>1
    <3> QED BY <2>2, <3>2
  <2>4. \A k \in 0 .. n : f[k] = IF k = 0 THEN <<>> ELSE Follow(host, f[k - 1], path[k])
    BY <1>1, <2>2, <2>3
  <2>5. f = Body(f)
    BY <2>2, <2>4
  <2> HIDE DEF Body
  <2> QED BY <2>5
<1>5. at = Body(at)
  <2> HIDE DEF Body
  <2> QED BY <1>4
<1>6. realpath(host, path) = at[n]
  BY DEF realpath, Follow
<1> HIDE DEF at
<1>7. \A k \in 0 .. n : at[k] = IF k = 0 THEN <<>> ELSE Follow(host, at[k - 1], path[k])
  BY <1>5
<1>8. 0 \in S
  BY <1>1, <1>7
<1>9. ASSUME NEW k \in 1 .. n, k - 1 \in S PROVE k \in S
  <2>1. k \in 0 .. n /\ k # 0 /\ at[k - 1] \in Path /\ path[k] \in ToSet(Names)
    BY <1>1, <1>9
  <2> QED BY <1>2, <1>7, <2>1
<1>10. \A k \in 0 .. n : k \in S
  <2> HIDE DEF S, n
  <2> QED BY <1>1, <1>8, <1>9, CountUp
<1>11. at = [k \in 0 .. n |-> at[k]] /\ \A k \in 0 .. n : at[k] \in Path
  BY <1>5, <1>10
<1>12. at[0] = <<>> /\ \A k \in 1 .. n : at[k] = Follow(host, at[k - 1], path[k])
  BY <1>1, <1>7
<1>13. Resolves(host, path, at)
  BY <1>6, <1>11, <1>12 DEF Resolves
<1> QED BY <1>13

\* A canonical path is a path.
LEMMA RealpathIs ==
  ASSUME NEW host, LinksOK(host), NEW path \in Path
  PROVE  realpath(host, path) \in Path
<1>1. PICK at : Resolves(host, path, at)
  BY ResolvedByNames
<1>2. Len(path) \in 0 .. Len(path)
  BY DEF Path
<1> QED BY <1>1, <1>2 DEF Resolves

----------------------------------------------------------------------------
(* Canonical paths *)

\* Two paths that are followed to the same place stay together while their names agree.
SameNames(p, i, q, j, n) ==
  i + n <= Len(p) /\ j + n <= Len(q) /\ \A h \in 1 .. n : p[i + h] = q[j + h]
Meet(at, i, bt, j) == at[i] = bt[j]

LEMMA ResolvedAlike ==
  ASSUME NEW host, NEW p \in Path, NEW q \in Path, NEW at, NEW bt,
         Resolves(host, p, at), Resolves(host, q, bt),
         NEW i \in Nat, NEW j \in Nat, NEW n \in Nat, SameNames(p, i, q, j, n), Meet(at, i, bt, j)
  PROVE  Meet(at, i + n, bt, j + n)
<1> DEFINE S == {h \in 0 .. n : at[i + h] = bt[j + h]}
           a == Len(p)
           b == Len(q)
<1>1. /\ a \in Nat /\ b \in Nat /\ i + n <= a /\ j + n <= b /\ at[i] = bt[j]
      /\ \A h \in 1 .. n : p[i + h] = q[j + h]
      /\ \A k \in 1 .. a : at[k] = Follow(host, at[k - 1], p[k])
      /\ \A k \in 1 .. b : bt[k] = Follow(host, bt[k - 1], q[k])
  BY DEF Path, Resolves, SameNames, Meet
<1> HIDE DEF a, b
<1>2. 0 \in S
  BY <1>1
<1>3. ASSUME NEW h \in 1 .. n, h - 1 \in S PROVE h \in S
  <2>1. /\ i + h \in 1 .. a /\ j + h \in 1 .. b /\ h \in 0 .. n
        /\ (i + h) - 1 = i + (h - 1) /\ (j + h) - 1 = j + (h - 1)
    BY <1>1
  <2>2. at[i + (h - 1)] = bt[j + (h - 1)]
    BY <1>3
  <2>3. at[i + h] = Follow(host, at[i + (h - 1)], p[i + h])
    BY <1>1, <2>1
  <2>4. bt[j + h] = Follow(host, bt[j + (h - 1)], q[j + h])
    BY <1>1, <2>1
  <2>5. p[i + h] = q[j + h]
    BY <1>1
  <2>6. at[i + h] = bt[j + h]
    BY <2>2, <2>3, <2>4, <2>5
  <2> QED BY <2>1, <2>6
<1>4. \A h \in 0 .. n : h \in S
  <2> HIDE DEF S
  <2> QED BY <1>2, <1>3, CountUp
<1>5. n \in S
  BY <1>4
<1> QED BY <1>5 DEF Meet

\* One more name is followed from where the path is.
LEMMA RealpathAppended ==
  ASSUME NEW host, LinksOK(host), NEW p \in Path, NEW x \in ToSet(Names)
  PROVE  realpath(host, Append(p, x)) = Follow(host, realpath(host, p), x)
<1> DEFINE q == Append(p, x)
           n == Len(p)
<1>1. /\ q \in Path /\ n \in Nat /\ Len(q) = n + 1 /\ q[n + 1] = x
      /\ \A h \in 1 .. n : q[h] = p[h]
  BY AppendProperties DEF Path
<1> HIDE DEF q
<1>2. PICK at : Resolves(host, p, at)
  BY ResolvedByNames
<1>3. PICK bt : Resolves(host, q, bt)
  BY <1>1, ResolvedByNames
<1>4. /\ at[0] = <<>> /\ bt[0] = <<>> /\ realpath(host, p) = at[n] /\ realpath(host, q) = bt[n + 1]
      /\ \A k \in 1 .. n + 1 : bt[k] = Follow(host, bt[k - 1], q[k])
  BY <1>1, <1>2, <1>3 DEF Resolves
<1>5. bt[n] = at[n]
  <2>1. SameNames(q, 0, p, 0, n) /\ Meet(bt, 0, at, 0)
    BY <1>1, <1>4 DEF SameNames, Meet
  <2> HIDE DEF n
  <2>2. Meet(bt, 0 + n, at, 0 + n)
    BY <1>1, <1>2, <1>3, <2>1, ResolvedAlike
  <2> QED BY <1>1, <2>2 DEF Meet
<1>6. bt[n + 1] = Follow(host, bt[n], q[n + 1])
  <2>1. n + 1 \in 1 .. n + 1 /\ (n + 1) - 1 = n
    BY <1>1
  <2> QED BY <1>4, <2>1
<1> QED BY <1>1, <1>4, <1>5, <1>6 DEF q

\* What lies above an appended path.
LEMMA WithinAppended ==
  ASSUME NEW p \in Path, NEW x \in ToSet(Names), NEW q \in Path
  PROVE  is_within(Append(p, x), q) <=> is_within(p, q) \/ q = Append(p, x)
<1> DEFINE r == Append(p, x)
           n == Len(p)
           m == Len(q)
<1>1. /\ r \in Path /\ n \in Nat /\ m \in Nat /\ Len(r) = n + 1 /\ r[n + 1] = x
      /\ \A h \in 1 .. n : r[h] = p[h]
  BY AppendProperties DEF Path
<1> HIDE DEF r
<1>2. /\ is_within(r, q) <=> m <= n + 1 /\ \A i \in 1 .. m : q[i] = r[i]
      /\ is_within(p, q) <=> m <= n /\ \A i \in 1 .. m : q[i] = p[i]
  BY <1>1, PrefixIs DEF Path, is_within
<1>3. is_within(p, q) => is_within(r, q)
  BY <1>1, <1>2
<1>4. q = r => is_within(r, q)
  BY <1>1, WithinSelf
<1>5. ASSUME is_within(r, q), m <= n PROVE is_within(p, q)
  BY <1>1, <1>2, <1>5
<1>6. ASSUME is_within(r, q), ~(m <= n) PROVE q = r
  <2>1. m = n + 1 /\ \A i \in 1 .. m : q[i] = r[i]
    BY <1>1, <1>2, <1>6
  <2>2. Len(q) = Len(r)
    BY <1>1, <2>1
  <2> QED BY <1>1, <2>1, <2>2, SeqEqual DEF Path
<1> QED BY <1>3, <1>4, <1>5, <1>6 DEF r

\* The first k names of a path, or elements of a list.
LEMMA BeginningIs ==
  ASSUME NEW T, NEW s \in Seq(T), NEW k \in 0 .. Len(s)
  PROVE  /\ SubSeq(s, 1, k) \in Seq(T) /\ Len(SubSeq(s, 1, k)) = k
         /\ \A i \in 1 .. k : SubSeq(s, 1, k)[i] = s[i]
<1> DEFINE n == Len(s)
<1>1. n \in Nat /\ k \in Nat /\ \A i \in 1 .. n : s[i] \in T
  OBVIOUS
<1>2. \A i \in 1 .. k : s[i] \in T
  <2> HIDE DEF n
  <2> QED BY <1>1 DEF n
<1>3. /\ SubSeq(s, 1, k) \in Seq(T) /\ Len(SubSeq(s, 1, k)) = IF 1 <= k THEN k - 1 + 1 ELSE 0
      /\ \A i \in 1 .. k - 1 + 1 : SubSeq(s, 1, k)[i] = s[1 + i - 1]
  BY <1>1, <1>2, SubSeqProperties
<1> QED BY <1>1, <1>3

\* A path is its front and its last name.
LEMMA FrontIs ==
  ASSUME NEW p \in Path, p # <<>>
  PROVE  /\ Front(p) \in Path /\ Last(p) \in ToSet(Names) /\ p = Append(Front(p), Last(p))
         /\ Len(p) = Len(Front(p)) + 1
<1> DEFINE T == ToSet(Names)
           n == Len(p)
           q == SubSeq(p, 1, n - 1)
<1>1. p \in Seq(T) /\ n \in Nat /\ n # 0 /\ \A i \in 1 .. n - 1 : p[i] \in T
  BY DEF Path
<1>2. q \in Seq(T) /\ Len(q) = n - 1 /\ \A i \in 1 .. n - 1 : q[i] = p[i]
  <2>1. n - 1 \in 0 .. n
    BY <1>1
  <2> HIDE DEF T
  <2> QED BY <1>1, <2>1, BeginningIs
<1>3. p[n] \in T
  BY <1>1
<1> HIDE DEF q, T
<1> DEFINE r == Append(q, p[n])
<1>4. r \in Seq(T) /\ Len(r) = n /\ \A i \in 1 .. n : r[i] = p[i]
  BY <1>1, <1>2, <1>3, AppendProperties
<1>5. r = p
  <2> HIDE DEF r
  <2> QED BY <1>1, <1>4, SeqEqual
<1>6. Front(p) = q /\ Last(p) = p[n]
  BY DEF Front, Last, q
<1> QED BY <1>1, <1>2, <1>3, <1>5, <1>6 DEF Path, T

LEMMA FrontOfAppended ==
  ASSUME NEW p \in Path, NEW x \in ToSet(Names)
  PROVE  /\ Append(p, x) \in Path /\ Append(p, x) # <<>>
         /\ Front(Append(p, x)) = p /\ Last(Append(p, x)) = x
<1> DEFINE T == ToSet(Names)
           q == Append(p, x)
           n == Len(p)
<1>1. p \in Seq(T) /\ n \in Nat /\ q \in Seq(T) /\ Len(q) = n + 1 /\ q[n + 1] = x
      /\ \A i \in 1 .. n : q[i] = p[i]
  BY AppendProperties DEF Path
<1> HIDE DEF q, T
<1> DEFINE f == SubSeq(q, 1, n)
<1>2. f \in Seq(T) /\ Len(f) = n /\ \A i \in 1 .. n : f[i] = q[i]
  BY <1>1, BeginningIs
<1> HIDE DEF f
<1>3. f = p
  BY <1>1, <1>2, SeqEqual
<1>4. Front(q) = f /\ Last(q) = x
  <2>1. (n + 1) - 1 = n
    BY <1>1
  <2> QED BY <1>1, <2>1 DEF Front, Last, f
<1>5. q # <<>>
  BY <1>1
<1> QED BY <1>1, <1>3, <1>4, <1>5 DEF Path, q, T

\* Every path is made by appending names.
LEMMA PathInduction ==
  ASSUME NEW S, <<>> \in S, \A p \in Path : \A x \in ToSet(Names) : p \in S => Append(p, x) \in S
  PROVE  Path \subseteq S
<1> DEFINE U == {n \in Nat : \A p \in Path : Len(p) = n => p \in S}
<1>1. 0 \in U
  <2>1. \A p \in Path : Len(p) = 0 => p = <<>>
    BY DEF Path
  <2> QED BY <2>1
<1>2. ASSUME NEW n \in Nat, n \in U PROVE n + 1 \in U
  <2> SUFFICES ASSUME NEW p \in Path, Len(p) = n + 1 PROVE p \in S
    OBVIOUS
  <2>1. p # <<>>
    OBVIOUS
  <2>2. /\ Front(p) \in Path /\ Last(p) \in ToSet(Names) /\ p = Append(Front(p), Last(p))
        /\ Len(p) = Len(Front(p)) + 1
    BY <2>1, FrontIs
  <2>3. Len(Front(p)) = n
    BY <2>2 DEF Path
  <2>4. Front(p) \in S
    BY <1>2, <2>2, <2>3
  <2> QED BY <2>2, <2>4
<1>3. Nat \subseteq U
  <2> HIDE DEF U
  <2> QED BY <1>1, <1>2, NatSetInduction
<1>4. \A p \in Path : Len(p) \in Nat
  BY DEF Path
<1> QED BY <1>3, <1>4

\* Nothing else lies above the root.
LEMMA RootIs ==
  /\ <<>> \in Path
  /\ \A q \in Path : is_within(<<>>, q) => q = <<>>
<1> DEFINE root == <<>>
           T == ToSet(Names)
<1>1. root \in Seq(T) /\ Len(root) = 0
  OBVIOUS
<1>2. ASSUME NEW q \in Seq(T), IsPrefix(q, root) PROVE q = <<>>
  <2> HIDE DEF root, T
  <2>1. Len(q) <= Len(root)
    BY <1>1, <1>2, PrefixIs
  <2>2. Len(q) \in Nat
    OBVIOUS
  <2>3. Len(q) = 0
    BY <1>1, <2>1, <2>2
  <2> QED BY <2>3
<1> QED BY <1>1, <1>2 DEF Path, is_within

\* Of two paths that lie above a third one, one lies above the other.
LEMMA Comparable ==
  ASSUME NEW p \in Path, NEW q \in Path, NEW r \in Path, is_within(p, q), is_within(p, r)
  PROVE  is_within(q, r) \/ is_within(r, q)
<1> DEFINE k == Len(q)
           m == Len(r)
<1>1. /\ k <= Len(p) /\ \A i \in 1 .. k : q[i] = p[i]
      /\ m <= Len(p) /\ \A i \in 1 .. m : r[i] = p[i]
      /\ is_within(q, r) <=> m <= k /\ \A i \in 1 .. m : r[i] = q[i]
      /\ is_within(r, q) <=> k <= m /\ \A i \in 1 .. k : q[i] = r[i]
  BY PrefixIs DEF Path, is_within
<1>2. k \in Nat /\ m \in Nat
  BY DEF Path
<1> HIDE DEF k, m
<1> QED BY <1>1, <1>2

\* Paths that lie within each other are the same.
LEMMA WithinBoth ==
  ASSUME NEW p \in Path, NEW q \in Path, is_within(p, q), is_within(q, p)
  PROVE  p = q
<1>1. /\ Len(q) <= Len(p) /\ \A i \in 1 .. Len(q) : q[i] = p[i]
      /\ Len(p) <= Len(q) /\ Len(p) \in Nat /\ Len(q) \in Nat
  BY PrefixIs DEF Path, is_within
<1>2. Len(p) = Len(q)
  BY <1>1
<1> QED BY <1>1, <1>2, SeqEqual DEF Path

LEMMA HostLinks ==
  ASSUME NEW host, HostOK(host)
  PROVE  /\ LinksOK(host) /\ <<>> \notin DOMAIN host.link /\ DOMAIN host.link \subseteq Path
         /\ \A l \in DOMAIN host.link : KindAt(host, l) = "link" /\ Canonical(host, host.link[l])
<1>1. \A l \in DOMAIN host.link : KindAt(host, l) = "link"
  BY DEF HostOK
<1>2. \A l \in DOMAIN host.link : l \in DOMAIN host.kind
  BY <1>1 DEF KindAt
<1> QED BY <1>1, <1>2 DEF HostOK, LinksOK

\* What lies above a canonical path is canonical, and one more name may be a link.
LEMMA CanonicalAbove ==
  ASSUME NEW host, HostOK(host), NEW p \in Path, NEW q \in Path, is_within(p, q), Canonical(host, p)
  PROVE  Canonical(host, q)
<1> SUFFICES ASSUME NEW l \in DOMAIN host.link, is_within(q, l) PROVE FALSE
  BY DEF Canonical
<1>1. l \in Path
  BY HostLinks
<1>2. is_within(p, l)
  BY <1>1, WithinTransitive
<1> QED BY <1>2 DEF Canonical

LEMMA CanonicalAppended ==
  ASSUME NEW host, HostOK(host), NEW p \in Path, NEW x \in ToSet(Names), Canonical(host, p)
  PROVE  Canonical(host, Append(p, x)) <=> Append(p, x) \notin DOMAIN host.link
<1>1. Append(p, x) \in Path
  BY FrontOfAppended
<1>2. \A l \in DOMAIN host.link : is_within(Append(p, x), l) <=> l = Append(p, x)
  BY HostLinks, WithinAppended DEF Canonical
<1> QED BY <1>2 DEF Canonical

\* A canonical path is where it leads, and every path leads to a canonical one.
LEMMA CanonicalStays ==
  ASSUME NEW host, HostOK(host), NEW p \in Path, Canonical(host, p)
  PROVE  realpath(host, p) = p
<1> DEFINE S == {q \in Path : Canonical(host, q) => realpath(host, q) = q}
<1>1. <<>> \in S
  <2>1. PICK at : Resolves(host, <<>>, at)
    BY RootIs, HostLinks, ResolvedByNames
  <2>2. realpath(host, <<>>) = <<>>
    BY <2>1 DEF Resolves
  <2> QED BY <2>2, RootIs
<1>2. ASSUME NEW q \in Path, NEW x \in ToSet(Names), q \in S PROVE Append(q, x) \in S
  <2>1. Append(q, x) \in Path
    BY FrontOfAppended
  <2> SUFFICES ASSUME Canonical(host, Append(q, x)) PROVE realpath(host, Append(q, x)) = Append(q, x)
    BY <2>1
  <2>2. Canonical(host, q)
    BY <2>1, WithinAppended, WithinSelf, CanonicalAbove
  <2>3. realpath(host, Append(q, x)) = Follow(host, q, x)
    BY <1>2, <2>2, HostLinks, RealpathAppended
  <2>4. Append(q, x) \notin DOMAIN host.link
    BY <2>2, CanonicalAppended
  <2> QED BY <2>3, <2>4 DEF Follow
<1>3. Path \subseteq S
  <2> HIDE DEF S
  <2> QED BY <1>1, <1>2, PathInduction
<1> QED BY <1>3

LEMMA RealpathCanonical ==
  ASSUME NEW host, HostOK(host), NEW p \in Path
  PROVE  realpath(host, p) \in Path /\ Canonical(host, realpath(host, p))
<1> DEFINE S == {q \in Path : Canonical(host, realpath(host, q))}
<1>1. <<>> \in S
  <2>1. Canonical(host, <<>>)
    BY HostLinks, RootIs DEF Canonical
  <2>2. realpath(host, <<>>) = <<>>
    BY <2>1, RootIs, CanonicalStays
  <2> QED BY <2>1, <2>2, RootIs
<1>2. ASSUME NEW q \in Path, NEW x \in ToSet(Names), q \in S PROVE Append(q, x) \in S
  <2> DEFINE r == realpath(host, q)
  <2>1. Append(q, x) \in Path
    BY FrontOfAppended
  <2>2. r \in Path /\ Canonical(host, r)
    BY <1>2, HostLinks, RealpathIs
  <2>3. realpath(host, Append(q, x)) = Follow(host, r, x)
    BY HostLinks, RealpathAppended
  <2> HIDE DEF r
  <2>4. Canonical(host, Follow(host, r, x))
    BY <2>2, HostLinks, CanonicalAppended DEF Follow
  <2> QED BY <2>1, <2>3, <2>4
<1>3. Path \subseteq S
  <2> HIDE DEF S
  <2> QED BY <1>1, <1>2, PathInduction
<1> QED BY <1>3, HostLinks, RealpathIs

\* A path can be followed in two parts.
LEMMA RealpathJoined ==
  ASSUME NEW host, HostOK(host), NEW a \in Path, NEW b \in Path
  PROVE  a \o b \in Path /\ realpath(host, a \o b) = realpath(host, realpath(host, a) \o b)
<1> DEFINE r == realpath(host, a)
           S == {q \in Path : realpath(host, a \o q) = realpath(host, r \o q)}
<1>1. r \in Path /\ realpath(host, r) = r
  BY RealpathCanonical, CanonicalStays
<1>2. \A q \in Path : a \o q \in Path
  BY ConcatProperties DEF Path
<1>3. <<>> \in S
  <2>1. a \o <<>> = a /\ r \o <<>> = r
    BY <1>1, ConcatEmptySeq DEF Path
  <2> QED BY <1>1, <2>1, RootIs
<1>4. ASSUME NEW q \in Path, NEW x \in ToSet(Names), q \in S PROVE Append(q, x) \in S
  <2>1. Append(q, x) \in Path
    BY FrontOfAppended
  <2>2. a \o Append(q, x) = Append(a \o q, x) /\ r \o Append(q, x) = Append(r \o q, x)
    BY <1>1 DEF Path
  <2>3. a \o q \in Path /\ r \o q \in Path
    BY <1>1, ConcatProperties DEF Path
  <2>4. /\ realpath(host, Append(a \o q, x)) = Follow(host, realpath(host, a \o q), x)
        /\ realpath(host, Append(r \o q, x)) = Follow(host, realpath(host, r \o q), x)
    BY <2>3, HostLinks, RealpathAppended
  <2>5. realpath(host, a \o q) = realpath(host, r \o q)
    BY <1>4
  <2> QED BY <2>1, <2>2, <2>4, <2>5
<1>5. Path \subseteq S
  <2> HIDE DEF S, r
  <2> QED BY <1>3, <1>4, PathInduction
<1> QED BY <1>2, <1>5

\* What lies above an entry is a directory.
LEMMA AboveEntry ==
  ASSUME NEW host, HostOK(host), NEW p \in DOMAIN host.kind, NEW q \in Path, is_within(p, q), q # p
  PROVE  q \in DOMAIN host.kind /\ KindAt(host, q) = "directory"
<1> DEFINE S == {r \in Path : r \in DOMAIN host.kind =>
                               \A t \in Path : is_within(r, t) /\ t # r => KindAt(host, t) = "directory"}
<1>1. <<>> \in S
  BY RootIs
<1>2. ASSUME NEW r \in Path, NEW x \in ToSet(Names), r \in S PROVE Append(r, x) \in S
  <2> DEFINE y == Append(r, x)
  <2>1. y \in Path /\ y # <<>> /\ Front(y) = r
    BY FrontOfAppended
  <2> SUFFICES ASSUME y \in DOMAIN host.kind, NEW t \in Path, is_within(y, t), t # y
               PROVE  KindAt(host, t) = "directory"
    BY <2>1
  <2>2. is_within(r, t)
    BY WithinAppended
  <2> HIDE DEF y
  <2>3. KindAt(host, r) = "directory"
    BY <2>1 DEF HostOK
  <2>4. r \in DOMAIN host.kind
    BY <2>3 DEF KindAt
  <2> QED BY <1>2, <2>2, <2>3, <2>4
<1>3. Path \subseteq S
  <2> HIDE DEF S
  <2> QED BY <1>1, <1>2, PathInduction
<1>4. p \in Path
  BY DEF HostOK
<1>5. KindAt(host, q) = "directory"
  BY <1>3, <1>4
<1> QED BY <1>5 DEF KindAt

\* So an entry that is no link is canonical.
LEMMA EntryCanonical ==
  ASSUME NEW host, HostOK(host), NEW p \in DOMAIN host.kind, KindAt(host, p) # "link"
  PROVE  p \in Path /\ Canonical(host, p)
<1>1. p \in Path
  BY DEF HostOK
<1>2. \A l \in DOMAIN host.link : l \in Path /\ KindAt(host, l) = "link"
  BY HostLinks
<1>3. \A l \in DOMAIN host.link : ~is_within(p, l)
  BY <1>2, AboveEntry
<1> QED BY <1>1, <1>3 DEF Canonical

\* An entry of a canonical directory is looked at where it is.
LEMMA LstatIs ==
  ASSUME NEW host, HostOK(host), NEW p \in Path, Canonical(host, p), NEW x \in ToSet(Names)
  PROVE  lstat(host, Append(p, x)) = KindAt(host, Append(p, x))
<1>1. /\ Append(p, x) # <<>> /\ Front(Append(p, x)) = p /\ Last(Append(p, x)) = x
  BY FrontOfAppended
<1>2. realpath(host, p) = p
  BY CanonicalStays
<1> QED BY <1>1, <1>2 DEF lstat

----------------------------------------------------------------------------
(* What is seen: the last operation that covers a path *)

\* Of the numbers up to n that are in a set, one is the last.
LEMMA Latest ==
  ASSUME NEW n \in Nat, NEW I, NEW m \in 1 .. n, m \in I
  PROVE  \E i \in 1 .. n : i \in I /\ \A j \in (i + 1) .. n : j \notin I
<1> DEFINE S == {k \in 0 .. n : (\E i \in 1 .. k : i \in I) =>
                                 \E i \in 1 .. k : i \in I /\ \A j \in (i + 1) .. k : j \notin I}
<1>1. 0 \in S
  OBVIOUS
<1>2. ASSUME NEW k \in 1 .. n, k - 1 \in S PROVE k \in S
  <2>1. CASE k \in I
    <3>1. k \in 1 .. k /\ \A j \in (k + 1) .. k : j \notin I
      OBVIOUS
    <3> QED BY <2>1, <3>1
  <2>2. CASE k \notin I
    <3> SUFFICES ASSUME NEW h \in 1 .. k, h \in I
                 PROVE  \E i \in 1 .. k : i \in I /\ \A j \in (i + 1) .. k : j \notin I
      OBVIOUS
    <3>1. h \in 1 .. k - 1
      BY <2>2
    <3>2. PICK i \in 1 .. k - 1 : i \in I /\ \A j \in (i + 1) .. k - 1 : j \notin I
      BY <1>2, <3>1
    <3>3. i \in 1 .. k /\ \A j \in (i + 1) .. k : j \in (i + 1) .. k - 1 \/ j = k
      OBVIOUS
    <3> QED BY <2>2, <3>2, <3>3
  <2> QED BY <2>1, <2>2
<1>3. n \in S
  <2>1. \A k \in 0 .. n : k \in S
    <3> HIDE DEF S
    <3> QED BY <1>1, <1>2, CountUp
  <2>2. n \in 0 .. n
    OBVIOUS
  <2> HIDE DEF S
  <2> QED BY <2>1, <2>2
<1> QED BY <1>3

Covered(ops, p) == \E i \in 1 .. Len(ops) : is_within(p, ops[i].dst)
LastCover(ops, p, i) ==
  /\ i \in 1 .. Len(ops) /\ is_within(p, ops[i].dst)
  /\ \A j \in (i + 1) .. Len(ops) : ~is_within(p, ops[j].dst)

\* What an operation shows at a path that it covers.
Shown(host, op, p) ==
  LET below == op.src \o SubSeq(p, Len(op.dst) + 1, Len(p))
  IN [op |-> op.op,
      shows |-> IF op.op \in {"bind", "ro-bind"} THEN realpath(host, below)
                ELSE IF op.op = "symlink" THEN below ELSE <<>>]

LEMMA LastExists ==
  ASSUME NEW T, NEW ops \in Seq(T), NEW p, Covered(ops, p)
  PROVE  \E i : LastCover(ops, p, i)
<1> DEFINE n == Len(ops)
           I == {i \in 1 .. n : is_within(p, ops[i].dst)}
<1>1. n \in Nat
  OBVIOUS
<1>2. PICK m \in 1 .. n : m \in I
  BY DEF Covered
<1>3. \E i \in 1 .. n : i \in I /\ \A j \in (i + 1) .. n : j \notin I
  <2> HIDE DEF I, n
  <2> QED BY <1>1, <1>2, Latest
<1>4. PICK i \in 1 .. n : i \in I /\ \A j \in (i + 1) .. n : j \notin I
  BY <1>3
<1>5. \A j \in (i + 1) .. n : j \in 1 .. n
  BY <1>1
<1>6. LastCover(ops, p, i)
  BY <1>4, <1>5 DEF LastCover
<1> QED BY <1>6

\* View is what this operation shows.
LEMMA ViewIs ==
  ASSUME NEW T, NEW ops \in Seq(T), NEW host, NEW p, NEW i, LastCover(ops, p, i)
  PROVE  View(host, ops, p) = Shown(host, ops[i], p)
<1> DEFINE C(k) == /\ is_within(p, ops[k].dst)
                   /\ \A j \in (k + 1)..Len(ops) : ~is_within(p, ops[j].dst)
           x == CHOOSE k \in DOMAIN ops : C(k)
<1>1. DOMAIN ops = 1 .. Len(ops) /\ Len(ops) \in Nat
  OBVIOUS
<1>2. i \in 1 .. Len(ops) /\ C(i)
  BY DEF LastCover
<1>3. x \in 1 .. Len(ops) /\ C(x)
  <2> HIDE DEF C
  <2> QED BY <1>1, <1>2
<1>4. x = i
  <2> HIDE DEF x
  <2>1. ~(x < i) /\ ~(i < x)
    BY <1>1, <1>2, <1>3
  <2> QED BY <1>1, <1>2, <1>3, <2>1
<1>5. View(host, ops, p) = Shown(host, ops[x], p)
  BY DEF View, Shown
<1> HIDE DEF x
<1> QED BY <1>4, <1>5

\* Of two lists of operations one after the other, the second one counts where it covers
\* a path.
LEMMA ViewJoined ==
  ASSUME NEW T, NEW a \in Seq(T), NEW b \in Seq(T), NEW host, NEW p
  PROVE  /\ Covered(a \o b, p) <=> Covered(a, p) \/ Covered(b, p)
         /\ Covered(b, p) => View(host, a \o b, p) = View(host, b, p)
         /\ ~Covered(b, p) /\ Covered(a, p) => View(host, a \o b, p) = View(host, a, p)
<1> DEFINE c == a \o b
           m == Len(a)
           n == Len(b)
<1>1. m \in Nat /\ n \in Nat
  OBVIOUS
<1>2. /\ c \in Seq(T) /\ Len(c) = m + n
      /\ \A i \in 1 .. m + n : c[i] = IF i <= m THEN a[i] ELSE b[i - m]
  BY ConcatProperties
<1> HIDE DEF c
<1>3. \A i \in 1 .. m : i \in 1 .. m + n /\ c[i] = a[i]
  <2> HIDE DEF m, n
  <2> QED BY <1>1, <1>2
<1>4. \A i \in 1 .. n : m + i \in 1 .. m + n /\ c[m + i] = b[i]
  <2> TAKE i \in 1 .. n
  <2> HIDE DEF m, n
  <2>1. m + i \in 1 .. m + n /\ ~(m + i <= m) /\ (m + i) - m = i
    BY <1>1
  <2> QED BY <1>2, <2>1
<1>5. ASSUME NEW i \in 1 .. m + n, i \notin 1 .. m PROVE i - m \in 1 .. n /\ m + (i - m) = i
  <2> HIDE DEF m, n
  <2> QED BY <1>1, <1>5
<1>6. Covered(c, p) <=> Covered(a, p) \/ Covered(b, p)
  <2>1. ASSUME Covered(c, p) PROVE Covered(a, p) \/ Covered(b, p)
    <3>1. PICK i \in 1 .. m + n : is_within(p, c[i].dst)
      BY <1>2, <2>1 DEF Covered
    <3>2. CASE i \in 1 .. m
      BY <1>3, <3>1, <3>2 DEF Covered
    <3>3. CASE i \notin 1 .. m
      <4>1. i - m \in 1 .. n /\ c[i] = b[i - m]
        BY <1>4, <1>5, <3>3
      <4> QED BY <3>1, <4>1 DEF Covered
    <3> QED BY <3>2, <3>3
  <2>2. Covered(a, p) => Covered(c, p)
    BY <1>2, <1>3 DEF Covered
  <2>3. ASSUME Covered(b, p) PROVE Covered(c, p)
    <3>1. PICK i \in 1 .. n : is_within(p, b[i].dst)
      BY <2>3 DEF Covered
    <3>2. m + i \in 1 .. Len(c) /\ is_within(p, c[m + i].dst)
      BY <1>2, <1>4, <3>1
    <3> QED BY <3>2 DEF Covered
  <2> QED BY <2>1, <2>2, <2>3
<1>7. ASSUME Covered(b, p) PROVE View(host, c, p) = View(host, b, p)
  <2>1. PICK i : LastCover(b, p, i)
    BY <1>7, LastExists
  <2>2. i \in 1 .. n /\ is_within(p, b[i].dst) /\ \A j \in (i + 1) .. n : ~is_within(p, b[j].dst)
    BY <2>1 DEF LastCover
  <2>3. ASSUME NEW j \in (m + i + 1) .. m + n PROVE ~is_within(p, c[j].dst)
    <3>1. j - m \in (i + 1) .. n /\ j \in 1 .. m + n /\ ~(j <= m)
      <4> HIDE DEF m, n
      <4> QED BY <1>1, <2>2
    <3>2. c[j] = b[j - m]
      BY <1>2, <3>1
    <3> QED BY <2>2, <3>1, <3>2
  <2>4. LastCover(c, p, m + i) /\ c[m + i] = b[i]
    BY <1>2, <1>4, <2>2, <2>3 DEF LastCover
  <2>5. View(host, c, p) = Shown(host, c[m + i], p) /\ View(host, b, p) = Shown(host, b[i], p)
    BY <1>2, <2>1, <2>4, ViewIs
  <2> QED BY <2>4, <2>5
<1>8. ASSUME ~Covered(b, p), Covered(a, p) PROVE View(host, c, p) = View(host, a, p)
  <2>1. PICK i : LastCover(a, p, i)
    BY <1>8, LastExists
  <2>2. i \in 1 .. m /\ is_within(p, a[i].dst) /\ \A j \in (i + 1) .. m : ~is_within(p, a[j].dst)
    BY <2>1 DEF LastCover
  <2>3. ASSUME NEW j \in (i + 1) .. m + n PROVE ~is_within(p, c[j].dst)
    <3>0. j \in 1 .. m + n
      <4> HIDE DEF m, n
      <4> QED BY <1>1, <2>2
    <3>1. CASE j \in 1 .. m
      <4>1. j \in (i + 1) .. m
        <5> HIDE DEF m, n
        <5> QED BY <1>1, <2>2, <3>1
      <4> QED BY <1>3, <2>2, <3>1, <4>1
    <3>2. CASE j \notin 1 .. m
      <4>1. j - m \in 1 .. n /\ c[j] = b[j - m]
        BY <1>4, <1>5, <3>0, <3>2
      <4> QED BY <1>8, <4>1 DEF Covered
    <3> QED BY <3>1, <3>2
  <2>4. LastCover(c, p, i) /\ c[i] = a[i]
    BY <1>2, <1>3, <2>2, <2>3 DEF LastCover
  <2>5. View(host, c, p) = Shown(host, c[i], p) /\ View(host, a, p) = Shown(host, a[i], p)
    BY <1>2, <2>1, <2>4, ViewIs
  <2> QED BY <2>4, <2>5
<1> QED BY <1>6, <1>7, <1>8 DEF c

\* What looks the same still does when the same operations follow.
Alike(host, a, b, p) == Covered(a, p) /\ Covered(b, p) /\ View(host, a, p) = View(host, b, p)

LEMMA AlikeJoined ==
  ASSUME NEW T, NEW a \in Seq(T), NEW b \in Seq(T), NEW c \in Seq(T), NEW host, NEW p,
         Alike(host, a, b, p)
  PROVE  Alike(host, a \o c, b \o c, p)
<1>1. CASE Covered(c, p)
  BY <1>1, ViewJoined DEF Alike
<1>2. CASE ~Covered(c, p)
  BY <1>2, ViewJoined DEF Alike
<1> QED BY <1>1, <1>2

----------------------------------------------------------------------------
(* Leaving out mounts that another one covers *)

Entry == [source : Path, destination : Path]

\* At path p the last of the first k entries of s to cover it leads to the host's x.
LeadsBy(s, k, p, x, i) ==
  /\ is_within(p, s[i].destination)
  /\ \A j \in (i + 1) .. k : ~is_within(p, s[j].destination)
  /\ x = s[i].source \o SubSeq(p, Len(s[i].destination) + 1, Len(p))
Leads(s, k, p, x) == \E i \in 1 .. k : LeadsBy(s, k, p, x, i)
Through(e, p) == e.source \o SubSeq(p, Len(e.destination) + 1, Len(p))

\* One more entry decides if it covers the path.
LEMMA LeadsNext ==
  ASSUME NEW s, NEW k \in Nat, NEW p, NEW x
  PROVE  Leads(s, k + 1, p, x) <=> IF is_within(p, s[k + 1].destination)
                                  THEN x = Through(s[k + 1], p) ELSE Leads(s, k, p, x)
<1>1. k + 1 \in 1 .. k + 1 /\ \A j \in ((k + 1) + 1) .. k + 1 : FALSE
  OBVIOUS
<1>2. CASE is_within(p, s[k + 1].destination)
  <2>1. LeadsBy(s, k + 1, p, x, k + 1) <=> x = Through(s[k + 1], p)
    BY <1>1, <1>2 DEF LeadsBy, Through
  <2>2. ASSUME NEW i \in 1 .. k PROVE ~LeadsBy(s, k + 1, p, x, i)
    <3>1. k + 1 \in (i + 1) .. k + 1
      OBVIOUS
    <3> QED BY <1>2, <3>1 DEF LeadsBy
  <2>3. \A i \in 1 .. k + 1 : i \in 1 .. k \/ i = k + 1
    OBVIOUS
  <2> QED BY <1>1, <1>2, <2>1, <2>2, <2>3 DEF Leads
<1>3. CASE ~is_within(p, s[k + 1].destination)
  <2>1. ~LeadsBy(s, k + 1, p, x, k + 1)
    BY <1>3 DEF LeadsBy
  <2>2. ASSUME NEW i \in 1 .. k PROVE LeadsBy(s, k + 1, p, x, i) <=> LeadsBy(s, k, p, x, i)
    <3>1. \A j : j \in (i + 1) .. k + 1 <=> j \in (i + 1) .. k \/ j = k + 1
      OBVIOUS
    <3> QED BY <1>3, <3>1 DEF LeadsBy
  <2>3. \A i : i \in 1 .. k + 1 <=> i \in 1 .. k \/ i = k + 1
    OBVIOUS
  <2> QED BY <1>3, <2>1, <2>2, <2>3 DEF Leads
<1> QED BY <1>2, <1>3

\* Only the entries up to k matter.
LEMMA LeadsSame ==
  ASSUME NEW s, NEW t, NEW k \in Nat, \A i \in 1 .. k : s[i] = t[i], NEW p, NEW x
  PROVE  Leads(s, k, p, x) <=> Leads(t, k, p, x)
<1>1. ASSUME NEW i \in 1 .. k PROVE LeadsBy(s, k, p, x, i) <=> LeadsBy(t, k, p, x, i)
  <2>1. \A j \in (i + 1) .. k : j \in 1 .. k
    OBVIOUS
  <2> QED BY <2>1 DEF LeadsBy
<1> QED BY <1>1 DEF Leads

\* An entry put at the end.
LEMMA LeadsAppended ==
  ASSUME NEW s \in Seq(Entry), NEW e \in Entry, NEW p, NEW x
  PROVE  Leads(Append(s, e), Len(Append(s, e)), p, x) <=>
           IF is_within(p, e.destination) THEN x = Through(e, p) ELSE Leads(s, Len(s), p, x)
<1> DEFINE t == Append(s, e)
           k == Len(s)
<1>1. k \in Nat /\ Len(t) = k + 1 /\ t[k + 1] = e /\ \A i \in 1 .. k : s[i] = t[i]
  BY AppendProperties
<1> HIDE DEF t, k
<1>2. Leads(t, k + 1, p, x) <=> IF is_within(p, e.destination) THEN x = Through(e, p) ELSE Leads(t, k, p, x)
  BY <1>1, LeadsNext
<1>3. Leads(s, k, p, x) <=> Leads(t, k, p, x)
  BY <1>1, LeadsSame
<1>4. Leads(t, Len(t), p, x) <=> IF is_within(p, e.destination) THEN x = Through(e, p) ELSE Leads(s, k, p, x)
  BY <1>1, <1>2, <1>3
<1> QED BY <1>4 DEF t, k

\* A path leads to one place only.
LEMMA LeadsOne ==
  ASSUME NEW s, NEW k \in Nat, NEW p, NEW x, NEW y, Leads(s, k, p, x), Leads(s, k, p, y)
  PROVE  x = y
<1>1. PICK i \in 1 .. k : LeadsBy(s, k, p, x, i)
  BY DEF Leads
<1>2. PICK j \in 1 .. k : LeadsBy(s, k, p, y, j)
  BY DEF Leads
<1>3. ~(i < j)
  <2>1. i < j => j \in (i + 1) .. k
    OBVIOUS
  <2> QED BY <1>1, <1>2, <2>1 DEF LeadsBy
<1>4. ~(j < i)
  <2>1. j < i => i \in (j + 1) .. k
    OBVIOUS
  <2> QED BY <1>1, <1>2, <2>1 DEF LeadsBy
<1>5. i = j
  BY <1>3, <1>4
<1> QED BY <1>1, <1>2, <1>5 DEF LeadsBy

\* What the fold of Prune knows of a path: it is led to as by all entries so far, and
\* to itself if it lies in what is known to be mounted.
PruneInv(acc, s, k, p) ==
  /\ acc.kept \in Seq(Entry) /\ acc.mounted \subseteq Path
  /\ \A x : Leads(s, k, p, x) <=> Leads(acc.kept, Len(acc.kept), p, x)
  /\ WithinAny(p, acc.mounted) => Leads(acc.kept, Len(acc.kept), p, p)

\* A mount on itself leads to the path itself.
LEMMA ThroughItself ==
  ASSUME NEW e \in Entry, e.source = e.destination, NEW p \in Path, is_within(p, e.destination)
  PROVE  Through(e, p) = p
<1>1. e.destination \in Path
  BY DEF Entry
<1>2. e.destination \o SubSeq(p, Len(e.destination) + 1, Len(p)) = p
  BY <1>1, BelowJoined
<1> QED BY <1>2 DEF Through

\* One more root keeps this, whether it is left out or not.
LEMMA AddRootKeeps ==
  ASSUME NEW s \in Seq(Entry), NEW k \in Nat, k + 1 \in 1 .. Len(s), NEW p \in Path, NEW acc,
         PruneInv(acc, s, k, p)
  PROVE  PruneInv(AddRoot(acc, s[k + 1]), s, k + 1, p)
<1> DEFINE e == s[k + 1]
           new == AddRoot(acc, e)
           M == acc.mounted
           K == acc.kept
<1>1. e \in Entry /\ e.source \in Path /\ e.destination \in Path
  <2>1. e \in Entry
    BY ElementOfSeq
  <2> QED BY <2>1 DEF Entry
<1>2. /\ K \in Seq(Entry) /\ M \subseteq Path
      /\ \A x : Leads(s, k, p, x) <=> Leads(K, Len(K), p, x)
      /\ WithinAny(p, M) => Leads(K, Len(K), p, p)
  BY DEF PruneInv
<1>3. \A x : Leads(s, k + 1, p, x) <=>
               IF is_within(p, e.destination) THEN x = Through(e, p) ELSE Leads(s, k, p, x)
  BY LeadsNext
<1>4. Append(K, e) \in Seq(Entry)
  BY <1>1, <1>2, AppendProperties
<1>5. \A x : Leads(Append(K, e), Len(Append(K, e)), p, x) <=>
               IF is_within(p, e.destination) THEN x = Through(e, p) ELSE Leads(K, Len(K), p, x)
  BY <1>1, <1>2, LeadsAppended
<1>6. \A x : Leads(s, k + 1, p, x) <=> Leads(Append(K, e), Len(Append(K, e)), p, x)
  BY <1>2, <1>3, <1>5
<1> HIDE DEF e, K, M
<1>7. CASE e.source # e.destination
  <2>1. new = [mounted |-> {}, kept |-> Append(K, e)]
    BY <1>7 DEF AddRoot, K
  <2>2. ~WithinAny(p, {})
    BY DEF WithinAny
  <2> HIDE DEF new
  <2>3. PruneInv(new, s, k + 1, p)
    BY <1>4, <1>6, <2>1, <2>2 DEF PruneInv
  <2> QED BY <2>3 DEF new, e
<1>8. CASE e.source = e.destination /\ WithinAny(e.destination, M)
  <2>1. new = acc
    BY <1>8 DEF AddRoot, M
  <2>2. ASSUME NEW x PROVE Leads(s, k + 1, p, x) <=> Leads(K, Len(K), p, x)
    <3>1. CASE is_within(p, e.destination)
      <4>1. Through(e, p) = p
        BY <1>1, <1>8, <3>1, ThroughItself
      <4>2. PICK d \in M : is_within(e.destination, d)
        BY <1>8 DEF WithinAny
      <4>3. is_within(p, d)
        BY <1>1, <1>2, <3>1, <4>2, WithinTransitive
      <4>4. Leads(K, Len(K), p, p)
        BY <1>2, <4>2, <4>3 DEF WithinAny
      <4>5. Leads(s, k, p, x) => x = p
        <5>1. Len(K) \in Nat
          BY <1>2
        <5> QED BY <1>2, <4>4, <5>1, LeadsOne
      <4> QED BY <1>2, <1>3, <3>1, <4>1, <4>4, <4>5
    <3>2. CASE ~is_within(p, e.destination)
      BY <1>2, <1>3, <3>2
    <3> QED BY <3>1, <3>2
  <2>3. PruneInv(acc, s, k + 1, p)
    BY <1>2, <2>2 DEF PruneInv, K, M
  <2> QED BY <2>1, <2>3 DEF new, e
<1>9. CASE e.source = e.destination /\ ~WithinAny(e.destination, M)
  <2>1. new = [mounted |-> M \union {e.destination}, kept |-> Append(K, e)]
    BY <1>9 DEF AddRoot, K, M
  <2>2. ASSUME WithinAny(p, M \union {e.destination})
        PROVE  Leads(Append(K, e), Len(Append(K, e)), p, p)
    <3>1. CASE is_within(p, e.destination)
      <4>1. Through(e, p) = p
        BY <1>1, <1>9, <3>1, ThroughItself
      <4> QED BY <1>5, <3>1, <4>1
    <3>2. CASE ~is_within(p, e.destination)
      <4>1. WithinAny(p, M)
        BY <2>2, <3>2 DEF WithinAny
      <4> QED BY <1>2, <1>5, <3>2, <4>1
    <3> QED BY <3>1, <3>2
  <2>3. M \union {e.destination} \subseteq Path
    BY <1>1, <1>2
  <2> HIDE DEF new
  <2>4. PruneInv(new, s, k + 1, p)
    BY <1>4, <1>6, <2>1, <2>2, <2>3 DEF PruneInv
  <2> QED BY <2>4 DEF new, e
<1> QED BY <1>7, <1>8, <1>9

\* Pruned entries lead each path to where all entries do.
LEMMA PruneIs ==
  ASSUME NEW s \in Seq(Entry)
  PROVE  /\ Prune(s) \in Seq(Entry)
         /\ \A p \in Path : \A x :
              Leads(s, Len(s), p, x) <=> Leads(Prune(s), Len(Prune(s)), p, x)
<1> DEFINE n == Len(s)
           base == [mounted |-> {}, kept |-> <<>>]
           T == [mounted : SUBSET Path, kept : Seq(Entry)]
           Body(f) == [k \in 0 .. n |-> IF k = 0 THEN base ELSE AddRoot(f[k - 1], s[k])]
           acc == CHOOSE f : f = Body(f)
           step == [x \in (1 .. n) \X T |-> AddRoot(x[2], s[x[1]])]
<1>1. n \in Nat /\ \A k \in 1 .. n : s[k] \in Entry
  BY LenProperties, ElementOfSeq
<1>2. ASSUME NEW a \in T, NEW e \in Entry PROVE AddRoot(a, e) \in T
  <2>1. /\ a.mounted \subseteq Path /\ a.kept \in Seq(Entry) /\ e.destination \in Path
        /\ Append(a.kept, e) \in Seq(Entry)
    BY AppendProperties DEF Entry
  <2>2. /\ [mounted |-> {}, kept |-> Append(a.kept, e)] \in T
        /\ [mounted |-> a.mounted \union {e.destination}, kept |-> Append(a.kept, e)] \in T
    BY <2>1
  <2> HIDE DEF T
  <2> QED BY <2>2 DEF AddRoot
<1>3. base \in T
  BY EmptySeq
<1> HIDE DEF T, base
<1>4. step \in [(1 .. n) \X T -> T]
  <2>1. \A x \in (1 .. n) \X T : AddRoot(x[2], s[x[1]]) \in T
    BY <1>1, <1>2
  <2> QED BY <2>1
<1>5. \E f : f = Body(f)
  <2>1. PICK f : Runs(f, base, step, T, n)
    <3> HIDE DEF step, n
    <3> QED BY <1>1, <1>3, <1>4, RunExists
  <2>2. f \in [0 .. n -> T] /\ f[0] = base /\ \A k \in 1 .. n : f[k] = step[<<k, f[k - 1]>>]
    BY <2>1 DEF Runs
  <2>3. ASSUME NEW k \in 1 .. n PROVE f[k] = AddRoot(f[k - 1], s[k])
    <3>1. k - 1 \in 0 .. n
      BY <1>1
    <3>2. <<k, f[k - 1]>> \in (1 .. n) \X T
      BY <2>2, <3>1
    <3> QED BY <2>2, <3>2
  <2>4. \A k \in 0 .. n : f[k] = IF k = 0 THEN base ELSE AddRoot(f[k - 1], s[k])
    BY <1>1, <2>2, <2>3
  <2>5. f = Body(f)
    BY <2>2, <2>4
  <2> HIDE DEF Body
  <2> QED BY <2>5
<1>6. acc = Body(acc)
  <2> HIDE DEF Body
  <2> QED BY <1>5
<1>7. Prune(s) = acc[n].kept
  BY DEF Prune, base
<1> HIDE DEF acc
<1>8. \A k \in 0 .. n : acc[k] = IF k = 0 THEN base ELSE AddRoot(acc[k - 1], s[k])
  BY <1>6
<1>9. ASSUME NEW p \in Path PROVE PruneInv(acc[n], s, n, p)
  <2> DEFINE S == {k \in 0 .. n : PruneInv(acc[k], s, k, p)}
  <2>1. 0 \in S
    <3>1. acc[0] = base /\ 0 \in 0 .. n
      BY <1>1, <1>8
    <3>2. base.kept = <<>> /\ base.mounted = {} /\ <<>> \in Seq(Entry) /\ Len(base.kept) = 0
      BY EmptySeq DEF base
    <3>3. ~WithinAny(p, {})
      BY DEF WithinAny
    <3>4. PruneInv(base, s, 0, p)
      BY <3>2, <3>3 DEF PruneInv, Leads
    <3> QED BY <3>1, <3>4
  <2>2. ASSUME NEW k \in 1 .. n, k - 1 \in S PROVE k \in S
    <3>1. /\ k - 1 \in Nat /\ (k - 1) + 1 = k /\ (k - 1) + 1 \in 1 .. Len(s) /\ k \in 0 .. n /\ k # 0
      BY <1>1
    <3>2. PruneInv(acc[k - 1], s, k - 1, p)
      BY <2>2
    <3>3. PruneInv(AddRoot(acc[k - 1], s[(k - 1) + 1]), s, (k - 1) + 1, p)
      BY <3>1, <3>2, AddRootKeeps
    <3>4. acc[k] = AddRoot(acc[k - 1], s[k])
      BY <1>8, <3>1
    <3> QED BY <3>1, <3>3, <3>4
  <2>3. n \in 0 .. n
    BY <1>1
  <2>4. n \in S
    <3> HIDE DEF S, n
    <3> QED BY <1>1, <2>1, <2>2, <2>3, CountUp
  <2> QED BY <2>4
<1>10. acc[n].kept \in Seq(Entry)
  <2>1. <<>> \in Path
    BY DEF Path
  <2> QED BY <1>9, <2>1 DEF PruneInv
<1> QED BY <1>7, <1>9, <1>10 DEF PruneInv

\* What read-only mounts show is where their entries lead.
LEMMA ReadOnlyShows ==
  ASSUME NEW s \in Seq(Entry), NEW host, NEW p
  PROVE  /\ Covered(ReadOnlyOps(s), p) <=> \E x : Leads(s, Len(s), p, x)
         /\ \A x : Leads(s, Len(s), p, x) =>
              View(host, ReadOnlyOps(s), p) = [op |-> "ro-bind", shows |-> realpath(host, x)]
<1> DEFINE n == Len(s)
           ops == ReadOnlyOps(s)
<1>1. n \in Nat /\ DOMAIN s = 1 .. n /\ \A i \in 1 .. n : s[i] \in Entry
  BY LenProperties, ElementOfSeq
<1>2. ops = [i \in 1 .. n |-> Op("ro-bind", s[i].source, s[i].destination)]
  BY <1>1 DEF ReadOnlyOps
<1>3. /\ ops \in Seq(ToSet(ops)) /\ Len(ops) = n
      /\ \A i \in 1 .. n : /\ ops[i].op = "ro-bind" /\ ops[i].src = s[i].source
                           /\ ops[i].dst = s[i].destination
  <2>1. DOMAIN ops = 1 .. n
    BY <1>2
  <2>2. ops \in [1 .. n -> ToSet(ops)]
    BY <1>2 DEF ToSet
  <2>3. \A i \in 1 .. n : ops[i] = Op("ro-bind", s[i].source, s[i].destination)
    BY <1>2
  <2> HIDE DEF ops, n
  <2> QED BY <1>1, <2>2, <2>3 DEF Op
<1> HIDE DEF ops
<1>4. ASSUME NEW x, Leads(s, n, p, x)
      PROVE  Covered(ops, p) /\ View(host, ops, p) = [op |-> "ro-bind", shows |-> realpath(host, x)]
  <2>1. PICK i \in 1 .. n : LeadsBy(s, n, p, x, i)
    BY <1>4 DEF Leads
  <2>2. \A j \in (i + 1) .. n : j \in 1 .. n
    BY <1>1
  <2>3. LastCover(ops, p, i)
    BY <1>3, <2>1, <2>2 DEF LeadsBy, LastCover
  <2>4. View(host, ops, p) = Shown(host, ops[i], p)
    BY <1>3, <2>3, ViewIs
  <2>5. Shown(host, ops[i], p) = [op |-> "ro-bind", shows |-> realpath(host, x)]
    BY <1>3, <2>1 DEF Shown, LeadsBy
  <2>6. Covered(ops, p)
    BY <2>3 DEF LastCover, Covered
  <2> QED BY <2>4, <2>5, <2>6
<1>5. ASSUME Covered(ops, p) PROVE \E x : Leads(s, n, p, x)
  <2>1. PICK i : LastCover(ops, p, i)
    BY <1>3, <1>5, LastExists
  <2>2. i \in 1 .. n /\ \A j \in (i + 1) .. n : j \in 1 .. n
    BY <1>1, <1>3, <2>1 DEF LastCover
  <2>3. LeadsBy(s, n, p, Through(s[i], p), i)
    BY <1>3, <2>1, <2>2 DEF LeadsBy, LastCover, Through
  <2> QED BY <2>2, <2>3 DEF Leads
<1> QED BY <1>4, <1>5 DEF ops

\* So pruning shows the same, on top of anything that covers the path.
LEMMA PruneAlike ==
  ASSUME NEW s \in Seq(Entry), NEW T, NEW a \in Seq(T), ReadOnlyOps(s) \in Seq(T),
         ReadOnlyOps(Prune(s)) \in Seq(T), NEW host, NEW p \in Path, Covered(a, p)
  PROVE  Alike(host, a \o ReadOnlyOps(Prune(s)), a \o ReadOnlyOps(s), p)
<1> DEFINE r == Prune(s)
<1>1. r \in Seq(Entry) /\ \A x : Leads(s, Len(s), p, x) <=> Leads(r, Len(r), p, x)
  BY PruneIs
<1> HIDE DEF r
<1>2. CASE \E x : Leads(s, Len(s), p, x)
  <2>1. PICK x : Leads(s, Len(s), p, x)
    BY <1>2
  <2>2. Leads(r, Len(r), p, x)
    BY <1>1, <2>1
  <2>3. /\ Covered(ReadOnlyOps(s), p)
        /\ View(host, ReadOnlyOps(s), p) = [op |-> "ro-bind", shows |-> realpath(host, x)]
    BY <2>1, ReadOnlyShows
  <2>4. /\ Covered(ReadOnlyOps(r), p)
        /\ View(host, ReadOnlyOps(r), p) = [op |-> "ro-bind", shows |-> realpath(host, x)]
    BY <1>1, <2>2, ReadOnlyShows
  <2>5. View(host, ReadOnlyOps(s), p) = View(host, ReadOnlyOps(r), p)
    BY <2>3, <2>4
  <2> QED BY <2>3, <2>4, <2>5, ViewJoined DEF Alike, r
<1>3. CASE ~\E x : Leads(s, Len(s), p, x)
  <2>1. ~Covered(ReadOnlyOps(s), p) /\ ~Covered(ReadOnlyOps(r), p)
    BY <1>1, <1>3, ReadOnlyShows
  <2> QED BY <2>1, ViewJoined DEF Alike, r
<1> QED BY <1>2, <1>3

----------------------------------------------------------------------------
(* Leaving out masks that another one covers *)

\* Up to here the list masks just what the first k paths do.
MaskInv(result, masks, paths, k, p) ==
  /\ result \in Seq(masks)
  /\ (\E i \in 1 .. k : is_within(p, paths[i])) <=>
       \E i \in 1 .. Len(result) : is_within(p, result[i].path)

\* One more mask keeps this, whether it is left out or not.
LEMMA AddMaskKeeps ==
  ASSUME NEW masks, \A m \in masks : m.path \in Path, NEW paths, NEW k \in Nat,
         NEW mask \in masks, mask.path = paths[k + 1], NEW p \in Path, NEW result,
         MaskInv(result, masks, paths, k, p)
  PROVE  MaskInv(AddMask(result, mask), masks, paths, k + 1, p)
<1> DEFINE new == AddMask(result, mask)
           n == Len(result)
           q == mask.path
<1>1. /\ result \in Seq(masks) /\ n \in Nat /\ DOMAIN result = 1 .. n
      /\ \A i \in 1 .. n : result[i].path \in Path
  <2>1. result \in Seq(masks)
    BY DEF MaskInv
  <2> QED BY <2>1, LenProperties, ElementOfSeq
<1>2. q \in Path /\ q = paths[k + 1]
  OBVIOUS
<1>3. (\E i \in 1 .. k : is_within(p, paths[i])) <=> \E i \in 1 .. n : is_within(p, result[i].path)
  BY DEF MaskInv
<1> HIDE DEF n, q
<1>4. (\E i \in 1 .. k + 1 : is_within(p, paths[i])) <=>
        is_within(p, q) \/ \E i \in 1 .. k : is_within(p, paths[i])
  <2>1. \A i : i \in 1 .. k + 1 <=> i \in 1 .. k \/ i = k + 1
    OBVIOUS
  <2> QED BY <1>2, <2>1
<1>5. CASE \E i \in DOMAIN result : Hides(result[i]) /\ is_within(q, result[i].path)
  <2>1. new = result
    BY <1>5 DEF AddMask, q
  <2>2. PICK i \in 1 .. n : is_within(q, result[i].path)
    BY <1>1, <1>5
  <2>3. is_within(p, q) => is_within(p, result[i].path)
    <3>1. q \in Path /\ result[i].path \in Path
      BY <1>1, <1>2
    <3> QED BY <2>2, <3>1, WithinTransitive
  <2> HIDE DEF new
  <2>4. MaskInv(new, masks, paths, k + 1, p)
    BY <1>1, <1>3, <1>4, <2>1, <2>2, <2>3 DEF MaskInv, n
  <2> QED BY <2>4 DEF new
<1>6. CASE ~\E i \in DOMAIN result : Hides(result[i]) /\ is_within(q, result[i].path)
  <2>1. new = Append(result, mask)
    BY <1>6 DEF AddMask, q
  <2>2. /\ new \in Seq(masks) /\ Len(new) = n + 1 /\ new[n + 1] = mask
        /\ \A i \in 1 .. n : new[i] = result[i]
    BY <1>1, <2>1, AppendProperties DEF n
  <2> HIDE DEF new
  <2>3. (\E i \in 1 .. n + 1 : is_within(p, new[i].path)) <=>
          is_within(p, q) \/ \E i \in 1 .. n : is_within(p, result[i].path)
    <3>1. \A i : i \in 1 .. n + 1 <=> i \in 1 .. n \/ i = n + 1
      BY <1>1
    <3>2. new[n + 1].path = q
      BY <2>2 DEF q
    <3>3. \A i \in 1 .. n : new[i].path = result[i].path
      BY <2>2
    <3> QED BY <3>1, <3>2, <3>3
  <2>4. MaskInv(new, masks, paths, k + 1, p)
    BY <1>3, <1>4, <2>2, <2>3 DEF MaskInv
  <2> QED BY <2>4 DEF new
<1> QED BY <1>5, <1>6

\* The masks are taken one after the other, by depth.
Collapsing(masks, paths, pick, all) ==
  LET n == Len(paths)
  IN /\ paths = ByDepth({m.path : m \in masks})
     /\ \A k \in 1 .. n : pick[k] \in masks /\ pick[k].path = paths[k]
     /\ all[0] = <<>>
     /\ \A k \in 1 .. n : all[k] = AddMask(all[k - 1], pick[k])
     /\ collapse_masks(masks) = all[n]

LEMMA CollapsedByOne ==
  ASSUME NEW masks, \A m \in masks : m.path \in Path, IsFiniteSet({m.path : m \in masks})
  PROVE  \E paths, pick, all : Collapsing(masks, paths, pick, all)
<1> DEFINE P == {m.path : m \in masks}
           paths == ByDepth(P)
           n == Len(paths)
           At(k) == CHOOSE m \in masks : m.path = paths[k]
           pick == [k \in 1 .. n |-> At(k)]
           T == Seq(masks)
           base == <<>>
           Body(f) == [k \in 0 .. n |-> IF k = 0 THEN base ELSE AddMask(f[k - 1], At(k))]
           all == CHOOSE f : f = Body(f)
           step == [x \in (1 .. n) \X T |-> AddMask(x[2], At(x[1]))]
<1>1. P \subseteq Path /\ IsFiniteSet(P)
  OBVIOUS
<1>2. paths \in Seq(P)
  <2> HIDE DEF P
  <2> QED BY <1>1, ByDepthIs
<1>3. n \in Nat /\ \A k \in 1 .. n : paths[k] \in P
  <2> HIDE DEF P, paths
  <2> QED BY <1>2, LenProperties, ElementOfSeq
<1>4. ASSUME NEW k \in 1 .. n PROVE At(k) \in masks /\ At(k).path = paths[k]
  <2>1. \E m \in masks : m.path = paths[k]
    BY <1>3
  <2> HIDE DEF P, paths
  <2> QED BY <2>1
<1>5. \A a \in T, m \in masks : AddMask(a, m) \in T
  BY AppendProperties DEF AddMask
<1>6. base \in T
  BY EmptySeq
<1>7. collapse_masks(masks) = all[n]
  BY DEF collapse_masks
<1> HIDE DEF T, base, paths, At
<1>8. step \in [(1 .. n) \X T -> T]
  <2>1. \A x \in (1 .. n) \X T : AddMask(x[2], At(x[1])) \in T
    BY <1>4, <1>5
  <2> QED BY <2>1
<1>9. \E f : f = Body(f)
  <2>1. PICK f : Runs(f, base, step, T, n)
    <3> HIDE DEF step, n
    <3> QED BY <1>3, <1>6, <1>8, RunExists
  <2>2. f \in [0 .. n -> T] /\ f[0] = base /\ \A k \in 1 .. n : f[k] = step[<<k, f[k - 1]>>]
    BY <2>1 DEF Runs
  <2>3. ASSUME NEW k \in 1 .. n PROVE f[k] = AddMask(f[k - 1], At(k))
    <3>1. k - 1 \in 0 .. n
      BY <1>3
    <3>2. <<k, f[k - 1]>> \in (1 .. n) \X T
      BY <2>2, <3>1
    <3> QED BY <2>2, <3>2
  <2>4. \A k \in 0 .. n : f[k] = IF k = 0 THEN base ELSE AddMask(f[k - 1], At(k))
    BY <1>3, <2>2, <2>3
  <2>5. f = Body(f)
    BY <2>2, <2>4
  <2> HIDE DEF Body
  <2> QED BY <2>5
<1>10. all = Body(all)
  <2> HIDE DEF Body
  <2> QED BY <1>9
<1> HIDE DEF all
<1>11. all[0] = <<>> /\ \A k \in 1 .. n : all[k] = AddMask(all[k - 1], pick[k])
  <2>1. \A k \in 0 .. n : all[k] = IF k = 0 THEN base ELSE AddMask(all[k - 1], At(k))
    BY <1>10
  <2> QED BY <1>3, <2>1 DEF base
<1>12. \A k \in 1 .. n : pick[k] \in masks /\ pick[k].path = paths[k]
  BY <1>4
<1> HIDE DEF pick, n
<1>13. Collapsing(masks, paths, pick, all)
  BY <1>7, <1>11, <1>12 DEF Collapsing, n, paths
<1> QED BY <1>13

\* The masks that are left mask just what all of them do.
LEMMA CollapseIs ==
  ASSUME NEW masks, \A m \in masks : m.path \in Path, IsFiniteSet({m.path : m \in masks})
  PROVE  /\ collapse_masks(masks) \in Seq(masks)
         /\ \A p \in Path : WithinAny(p, {m.path : m \in masks}) <=>
              \E i \in 1 .. Len(collapse_masks(masks)) : is_within(p, collapse_masks(masks)[i].path)
<1> DEFINE P == {m.path : m \in masks}
<1>1. P \subseteq Path /\ IsFiniteSet(P)
  OBVIOUS
<1>2. PICK paths, pick, all : Collapsing(masks, paths, pick, all)
  BY CollapsedByOne
<1> DEFINE n == Len(paths)
<1>3. paths \in Seq(P) /\ ToSet(paths) = P
  <2>1. paths = ByDepth(P)
    BY <1>2 DEF Collapsing
  <2> HIDE DEF P
  <2> QED BY <1>1, <2>1, ByDepthIs
<1>4. n \in Nat /\ DOMAIN paths = 1 .. n
  BY <1>3
<1>5. /\ \A k \in 1 .. n : pick[k] \in masks /\ pick[k].path = paths[k]
      /\ all[0] = <<>> /\ \A k \in 1 .. n : all[k] = AddMask(all[k - 1], pick[k])
      /\ collapse_masks(masks) = all[n]
  BY <1>2 DEF Collapsing
<1>12. ASSUME NEW p \in Path PROVE MaskInv(all[n], masks, paths, n, p)
  <2> DEFINE S == {k \in 0 .. n : MaskInv(all[k], masks, paths, k, p)}
  <2>1. 0 \in S
    <3> DEFINE base == <<>>
    <3>1. all[0] = base /\ 0 \in 0 .. n
      BY <1>4, <1>5
    <3>2. base \in Seq(masks) /\ Len(base) = 0
      OBVIOUS
    <3> HIDE DEF base
    <3>3. MaskInv(base, masks, paths, 0, p)
      BY <3>2 DEF MaskInv
    <3> QED BY <3>1, <3>3
  <2>2. ASSUME NEW k \in 1 .. n, k - 1 \in S PROVE k \in S
    <3>1. k - 1 \in Nat /\ (k - 1) + 1 = k /\ k \in 0 .. n
      BY <1>4
    <3>2. MaskInv(all[k - 1], masks, paths, k - 1, p)
      BY <2>2
    <3>3. pick[k] \in masks /\ pick[k].path = paths[(k - 1) + 1]
      BY <1>5, <3>1
    <3>4. MaskInv(AddMask(all[k - 1], pick[k]), masks, paths, (k - 1) + 1, p)
      BY <3>1, <3>2, <3>3, AddMaskKeeps
    <3>5. all[k] = AddMask(all[k - 1], pick[k])
      BY <1>5
    <3> QED BY <3>1, <3>4, <3>5
  <2>3. n \in 0 .. n
    BY <1>4
  <2>4. n \in S
    <3> HIDE DEF S, n
    <3> QED BY <1>4, <2>1, <2>2, <2>3, CountUp
  <2> QED BY <2>4
<1>13. all[n] \in Seq(masks)
  <2>1. <<>> \in Path
    BY DEF Path
  <2> QED BY <1>12, <2>1 DEF MaskInv
<1>14. ASSUME NEW p \in Path
       PROVE  WithinAny(p, P) <=> \E i \in 1 .. n : is_within(p, paths[i])
  <2>1. P = {paths[i] : i \in 1 .. n}
    BY <1>3, <1>4 DEF ToSet
  <2> QED BY <2>1 DEF WithinAny
<1> QED BY <1>5, <1>12, <1>13, <1>14 DEF MaskInv

\* No mask lies below one before it that hides what is below, and each has a path of
\* its own.
Apart(result) ==
  \A i, j \in 1 .. Len(result) :
    j < i => /\ result[i].path # result[j].path
             /\ ~(Hides(result[j]) /\ is_within(result[i].path, result[j].path))
ApartInv(result, masks, paths, k) ==
  /\ result \in Seq(masks) /\ Apart(result)
  /\ \A i \in 1 .. Len(result) : \E h \in 1 .. k : result[i].path = paths[h]

LEMMA AddMaskApart ==
  ASSUME NEW masks, NEW paths, Distinct(paths), NEW k \in 1 .. Len(paths),
         NEW mask \in masks, mask.path = paths[k], NEW result,
         ApartInv(result, masks, paths, k - 1), Len(paths) \in Nat
  PROVE  ApartInv(AddMask(result, mask), masks, paths, k)
<1> DEFINE new == AddMask(result, mask)
           n == Len(result)
<1>1. /\ result \in Seq(masks) /\ n \in Nat /\ DOMAIN result = 1 .. n /\ Apart(result)
      /\ \A i \in 1 .. n : \E h \in 1 .. k - 1 : result[i].path = paths[h]
  BY DEF ApartInv
<1>2. \A h \in 1 .. k - 1 : h \in 1 .. k /\ h \in 1 .. Len(paths) /\ h # k
  OBVIOUS
<1>3. CASE \E i \in DOMAIN result : Hides(result[i]) /\ is_within(mask.path, result[i].path)
  <2>1. new = result
    BY <1>3 DEF AddMask
  <2>2. \A i \in 1 .. n : \E h \in 1 .. k : result[i].path = paths[h]
    BY <1>1, <1>2
  <2>3. ApartInv(result, masks, paths, k)
    BY <1>1, <2>2 DEF ApartInv
  <2> QED BY <2>1, <2>3
<1>4. CASE ~\E i \in DOMAIN result : Hides(result[i]) /\ is_within(mask.path, result[i].path)
  <2>1. new = Append(result, mask)
    BY <1>4 DEF AddMask
  <2>2. /\ new \in Seq(masks) /\ Len(new) = n + 1 /\ new[n + 1] = mask
        /\ \A i \in 1 .. n : new[i] = result[i]
    BY <1>1, <2>1, AppendProperties
  <2> HIDE DEF new, n
  <2>3. \A i : i \in 1 .. n + 1 <=> i \in 1 .. n \/ i = n + 1
    BY <1>1
  <2>4. \A i \in 1 .. n : result[i].path # mask.path
    BY <1>1, <1>2 DEF Distinct
  <2>5. ASSUME NEW i \in 1 .. n + 1, NEW j \in 1 .. n + 1, j < i
        PROVE  /\ new[i].path # new[j].path
               /\ ~(Hides(new[j]) /\ is_within(new[i].path, new[j].path))
    <3>1. j \in 1 .. n
      BY <1>1, <2>5
    <3>2. CASE i \in 1 .. n
      BY <1>1, <2>2, <2>5, <3>1, <3>2 DEF Apart, n
    <3>3. CASE i = n + 1
      BY <1>1, <1>4, <2>2, <2>4, <3>1, <3>3
    <3> QED BY <2>3, <3>2, <3>3
  <2>6. Apart(new)
    BY <2>2, <2>5 DEF Apart
  <2>7. \A i \in 1 .. n + 1 : \E h \in 1 .. k : new[i].path = paths[h]
    <3>1. k \in 1 .. k
      OBVIOUS
    <3>2. \A i \in 1 .. n : \E h \in 1 .. k : new[i].path = paths[h]
      BY <1>1, <1>2, <2>2
    <3>3. new[n + 1].path = paths[k]
      BY <2>2
    <3> QED BY <2>3, <3>1, <3>2, <3>3
  <2>8. ApartInv(new, masks, paths, k)
    BY <2>2, <2>6, <2>7 DEF ApartInv
  <2> QED BY <2>8 DEF new
<1> QED BY <1>3, <1>4

LEMMA CollapsedApart ==
  ASSUME NEW masks, \A m \in masks : m.path \in Path, IsFiniteSet({m.path : m \in masks})
  PROVE  Apart(collapse_masks(masks))
<1> DEFINE P == {m.path : m \in masks}
<1>1. P \subseteq Path /\ IsFiniteSet(P)
  OBVIOUS
<1>2. PICK paths, pick, all : Collapsing(masks, paths, pick, all)
  BY CollapsedByOne
<1> DEFINE n == Len(paths)
           S == {k \in 0 .. n : ApartInv(all[k], masks, paths, k)}
<1>3. paths \in Seq(P) /\ Distinct(paths)
  <2>1. paths = ByDepth(P)
    BY <1>2 DEF Collapsing
  <2> HIDE DEF P
  <2> QED BY <1>1, <2>1, ByDepthIs
<1>4. n \in Nat
  BY <1>3
<1>5. /\ \A k \in 1 .. n : pick[k] \in masks /\ pick[k].path = paths[k]
      /\ all[0] = <<>> /\ \A k \in 1 .. n : all[k] = AddMask(all[k - 1], pick[k])
      /\ collapse_masks(masks) = all[n]
  BY <1>2 DEF Collapsing
<1>6. 0 \in S
  <2> DEFINE base == <<>>
  <2>1. all[0] = base /\ 0 \in 0 .. n /\ base \in Seq(masks) /\ Len(base) = 0
    BY <1>4, <1>5
  <2> HIDE DEF base
  <2>2. ApartInv(base, masks, paths, 0)
    BY <2>1 DEF ApartInv, Apart
  <2> QED BY <2>1, <2>2
<1>7. ASSUME NEW k \in 1 .. n, k - 1 \in S PROVE k \in S
  <2>1. ApartInv(all[k - 1], masks, paths, k - 1)
    BY <1>7
  <2>2. pick[k] \in masks /\ pick[k].path = paths[k] /\ all[k] = AddMask(all[k - 1], pick[k])
    BY <1>5
  <2>3. ApartInv(all[k], masks, paths, k)
    BY <1>3, <1>4, <2>1, <2>2, AddMaskApart
  <2>4. k \in 0 .. n
    BY <1>4
  <2> QED BY <2>3, <2>4
<1>8. n \in 0 .. n
  BY <1>4
<1>9. n \in S
  <2> HIDE DEF S, n
  <2> QED BY <1>4, <1>6, <1>7, <1>8, CountUp
<1> QED BY <1>5, <1>9 DEF ApartInv

----------------------------------------------------------------------------
(* The manifest and the plan are lists of paths *)

LEMMA SeqWiden ==
  ASSUME NEW S, NEW T, S \subseteq T, NEW s \in Seq(S)
  PROVE  s \in Seq(T)
<1>1. Len(s) \in Nat /\ DOMAIN s = 1 .. Len(s) /\ s = [i \in 1 .. Len(s) |-> s[i]]
  OBVIOUS
<1>2. \A i \in 1 .. Len(s) : s[i] \in T
  BY ElementOfSeq
<1>3. s \in [1 .. Len(s) -> T]
  BY <1>1, <1>2
<1> QED BY <1>1, <1>3

LEMMA UpToFinite == ASSUME NEW n \in Nat PROVE IsFiniteSet(1 .. n)
<1>1. 1 \in Int /\ n \in Int
  OBVIOUS
<1> QED BY <1>1, FS_Interval

LEMMA SeqByPlaces ==
  ASSUME NEW T, NEW n \in Nat, NEW t \in [1 .. n -> T]
  PROVE  t \in Seq(T) /\ Len(t) = n
OBVIOUS

\* A function of the members of a finite set has finitely many values.
LEMMA ImageFinite ==
  ASSUME NEW S, IsFiniteSet(S), NEW f
  PROVE  IsFiniteSet({f[x] : x \in S})
<1> DEFINE T == {f[x] : x \in S}
           g == [x \in S |-> f[x]]
<1>1. g \in [S -> T] /\ \A y \in T : \E x \in S : g[x] = y
  OBVIOUS
<1> HIDE DEF T, g
<1>2. g \in Surjection(S, T)
  BY <1>1 DEF Surjection
<1>3. IsFiniteSet(T)
  BY <1>2, FS_Surjection
<1> QED BY <1>3 DEF T

\* What a host's links make of a finite set of paths.
LEMMA CanonicalIs ==
  ASSUME NEW host, LinksOK(host), NEW S, IsFiniteSet(S), S \subseteq Path
  PROVE  /\ IsFiniteSet({realpath(host, l) : l \in S})
         /\ {realpath(host, l) : l \in S} \subseteq Path
<1> DEFINE f == [l \in S |-> realpath(host, l)]
<1>1. \A l \in S : f[l] = realpath(host, l)
  OBVIOUS
<1> HIDE DEF f
<1>2. {f[l] : l \in S} = {realpath(host, l) : l \in S}
  BY <1>1
<1>3. IsFiniteSet({f[l] : l \in S})
  BY ImageFinite
<1>4. \A l \in S : realpath(host, l) \in Path
  BY RealpathIs
<1> QED BY <1>2, <1>3, <1>4

\* Finitely many paths in order.
LEMMA ListIs ==
  ASSUME NEW S, IsFiniteSet(S), S \subseteq Path
  PROVE  Sorted(S) \in Seq(Path) /\ ByDepth(S) \in Seq(Path)
<1>1. Sorted(S) \in Seq(S) /\ ByDepth(S) \in Seq(S)
  BY SortedIs, ByDepthIs
<1> QED BY <1>1, SeqWiden

\* A sequence made from another one, element by element.
LEMMA MadeFrom ==
  ASSUME NEW S, NEW s \in Seq(S), NEW T, NEW t, t = [i \in DOMAIN s |-> t[i]],
         \A i \in DOMAIN s : t[i] \in T
  PROVE  t \in Seq(T)
<1>1. Len(s) \in Nat /\ DOMAIN s = 1 .. Len(s)
  OBVIOUS
<1>2. t \in [1 .. Len(s) -> T]
  BY <1>1
<1> QED BY <1>1, <1>2

LEMMA IdentityIs ==
  ASSUME NEW paths \in Seq(Path)
  PROVE  Identity(paths) \in Seq(Entry)
<1> DEFINE t == Identity(paths)
<1>1. t = [i \in DOMAIN paths |-> t[i]] /\ \A i \in DOMAIN paths : t[i] \in Entry
  <2>1. \A i \in DOMAIN paths : paths[i] \in Path
    OBVIOUS
  <2> QED BY <2>1 DEF Identity, Entry
<1> HIDE DEF t
<1>2. t \in Seq(Entry)
  BY <1>1, MadeFrom
<1> QED BY <1>2 DEF t

\* One more name.
LEMMA AppendedPath ==
  ASSUME NEW p \in Path, NEW name \in ToSet(Names)
  PROVE  Append(p, name) \in Path
BY AppendProperties DEF Path

\* The metadata of finitely many projects.
LEMMA MetadataIs ==
  ASSUME NEW S, IsFiniteSet(S), S \subseteq Path
  PROVE  /\ IsFiniteSet(UNION {metadata(r) : r \in S})
         /\ UNION {metadata(r) : r \in S} \subseteq Path
<1> DEFINE At(name) == {Append(r, name) : r \in S}
<1>1. ASSUME NEW name PROVE IsFiniteSet(At(name))
  <2> DEFINE f == [r \in S |-> Append(r, name)]
  <2>1. {f[r] : r \in S} = At(name)
    OBVIOUS
  <2> HIDE DEF f
  <2> QED BY <2>1, ImageFinite
<1>2. UNION {metadata(r) : r \in S} = At(".git") \union At(".agents") \union At(".codex")
  BY DEF metadata, PROTECTED_METADATA
<1>3. IsFiniteSet(At(".git") \union At(".agents") \union At(".codex"))
  <2> HIDE DEF At
  <2>1. IsFiniteSet(At(".git") \union At(".agents"))
    BY <1>1, FS_Union
  <2> QED BY <1>1, <2>1, FS_Union
<1>4. ASSUME NEW r \in S PROVE metadata(r) \subseteq Path
  <2>1. PROTECTED_METADATA \subseteq ToSet(Names) /\ r \in Path
    BY NamesAssumption
  <2>2. \A name \in PROTECTED_METADATA : Append(r, name) \in Path
    BY <2>1, AppendedPath
  <2> QED BY <2>2 DEF metadata
<1>5. UNION {metadata(r) : r \in S} \subseteq Path
  BY <1>4
<1> QED BY <1>2, <1>3, <1>5

\* What a configuration gives.
LEMMA ConfigurationIs ==
  ASSUME NEW c, ConfigurationOK(c)
  PROVE  /\ LinksOK(c.host) /\ c.workspace \in Path /\ c.home \in Path
         /\ IsFiniteSet(DOMAIN c.host.kind) /\ DOMAIN c.host.kind \subseteq Path
         /\ IsFiniteSet(c.trusted) /\ c.trusted \subseteq Path
         /\ IsFiniteSet(c.extra_read_only) /\ c.extra_read_only \subseteq Path
         /\ IsFiniteSet(c.gpu.readonly_roots) /\ c.gpu.readonly_roots \subseteq Path
BY DEF ConfigurationOK, HostOK, LinksOK

LEMMA ProjectsAre ==
  ASSUME NEW c, ConfigurationOK(c)
  PROVE  IsFiniteSet(collect_trusted_projects(c)) /\ collect_trusted_projects(c) \subseteq Path
<1> DEFINE L == {t \in c.trusted : isdir(c.host, t)}
           R == {realpath(c.host, l) : l \in L}
<1>1. IsFiniteSet(L) /\ L \subseteq Path /\ LinksOK(c.host)
  <2>1. L \in SUBSET c.trusted
    OBVIOUS
  <2> QED BY <2>1, ConfigurationIs, FS_Subset
<1>2. IsFiniteSet(R) /\ R \subseteq Path
  <2> HIDE DEF L
  <2> QED BY <1>1, CanonicalIs
<1>3. collect_trusted_projects(c) \in SUBSET R
  BY DEF collect_trusted_projects
<1> HIDE DEF R
<1> QED BY <1>2, <1>3, FS_Subset

\* Masks are of finitely many paths.
LEMMA RawMasksAre ==
  ASSUME NEW c, ConfigurationOK(c)
  PROVE  /\ \A m \in raw_masks(c) : m.path \in Path
         /\ IsFiniteSet({m.path : m \in raw_masks(c)})
<1> DEFINE S == collect_trusted_projects(c) \union {c.workspace}
           M == UNION {metadata(r) : r \in S}
           D == DOMAIN c.host.kind
           P == {m.path : m \in raw_masks(c)}
<1>1. IsFiniteSet(S) /\ S \subseteq Path
  BY ProjectsAre, ConfigurationIs, FS_AddElement
<1>2. IsFiniteSet(M) /\ M \subseteq Path
  <2> HIDE DEF S
  <2> QED BY <1>1, MetadataIs
<1>3. IsFiniteSet(D) /\ D \subseteq Path
  BY ConfigurationIs
<1>4. ASSUME NEW m \in workspace_masks(c) PROVE m.path \in M
  BY DEF workspace_masks
<1>5. ASSUME NEW m \in trusted_masks(c) PROVE m.path \in M \union D
  <2>1. PICK project \in collect_trusted_projects(c) :
          m.path \in {x \in metadata(project) : lstat(c.host, x) # "absent"} \union deny_matches(c, project)
    BY DEF trusted_masks
  <2>2. deny_matches(c, project) \subseteq D
    BY DEF deny_matches, run_rg
  <2> QED BY <2>1, <2>2
<1> HIDE DEF M, D
<1>6. \A m \in raw_masks(c) : m.path \in M \union D
  BY <1>4, <1>5 DEF raw_masks
<1>7. IsFiniteSet(M \union D)
  BY <1>2, <1>3, FS_Union
<1>8. P \in SUBSET (M \union D)
  BY <1>6
<1> HIDE DEF P
<1>9. IsFiniteSet(P)
  BY <1>7, <1>8, FS_Subset
<1> QED BY <1>2, <1>3, <1>6, <1>9 DEF P

\* What is mounted from the host, without the GPU.
LEMMA ManifestIs ==
  ASSUME NEW c, ConfigurationOK(c)
  PROVE  /\ system_read_only(c) \in Seq(Entry)
         /\ collect_read_only_roots(c) \in Seq(Entry)
         /\ Sorted(collect_trusted_projects(c)) \in Seq(Path)
<1>1. system_read_only(c) \in Seq(Entry)
  <2> DEFINE S == {p \in SYSTEM_READ_ONLY : lstat(c.host, p) # "absent"}
  <2>1. IsFiniteSet(SYSTEM_READ_ONLY) /\ SYSTEM_READ_ONLY \subseteq Path
    <3> DEFINE T == <<<<"bin">>, <<"sbin">>, <<"usr">>, <<"etc">>, <<"lib">>, <<"lib64">>,
                      <<"nix", "store">>, <<"run", "current-system", "sw">>>>
    <3>1. SYSTEM_READ_ONLY = {T[i] : i \in 1 .. 8}
      BY DEF SYSTEM_READ_ONLY
    <3> HIDE DEF S, T
    <3>2. IsFiniteSet(1 .. 8)
      <4>1. 8 \in Nat
        OBVIOUS
      <4> QED BY <4>1, UpToFinite
    <3>3. IsFiniteSet({T[i] : i \in 1 .. 8})
      BY <3>2, ImageFinite
    <3> QED BY <3>1, <3>3, NamesAssumption
  <2>2. S \in SUBSET SYSTEM_READ_ONLY
    OBVIOUS
  <2> HIDE DEF S
  <2>3. Sorted(S) \in Seq(Path)
    BY <2>1, <2>2, FS_Subset, ListIs
  <2> QED BY <2>3, IdentityIs DEF system_read_only, S
<1>2. collect_read_only_roots(c) \in Seq(Entry)
  <2> DEFINE U == default_user(c) \union c.extra_read_only
             S == {d \in U : exists(c.host, d)}
             paths == Sorted(S)
             t == collect_read_only_roots(c)
  <2>1. IsFiniteSet(U) /\ U \subseteq Path
    <3> DEFINE a == Append(c.home, ".npm-global")
               b == Append(c.home, ".npm")
    <3>1. a \in Path /\ b \in Path
      BY ConfigurationIs, NamesAssumption, AppendedPath
    <3>2. IsFiniteSet(c.extra_read_only) /\ c.extra_read_only \subseteq Path
      BY ConfigurationIs
    <3>3. U = (c.extra_read_only \union {a}) \union {b}
      BY DEF default_user
    <3> HIDE DEF a, b, U
    <3>4. IsFiniteSet(c.extra_read_only \union {a})
      BY <3>2, FS_AddElement
    <3>5. IsFiniteSet((c.extra_read_only \union {a}) \union {b})
      BY <3>4, FS_AddElement
    <3> QED BY <3>1, <3>2, <3>3, <3>5
  <2>2. S \in SUBSET U
    OBVIOUS
  <2>3. t = [i \in DOMAIN paths |-> [source |-> realpath(c.host, paths[i]), destination |-> paths[i]]]
    BY DEF collect_read_only_roots
  <2> HIDE DEF U, S, t
  <2>4. paths \in Seq(Path)
    BY <2>1, <2>2, FS_Subset, ListIs
  <2> HIDE DEF paths
  <2>5. \A i \in DOMAIN paths : t[i] \in Entry
    <3>1. \A i \in DOMAIN paths : paths[i] \in Path
      BY <2>4
    <3>2. \A i \in DOMAIN paths : realpath(c.host, paths[i]) \in Path
      BY <3>1, ConfigurationIs, RealpathIs
    <3> QED BY <2>3, <3>1, <3>2 DEF Entry
  <2>6. t = [i \in DOMAIN paths |-> t[i]]
    BY <2>3
  <2>7. t \in Seq(Entry)
    BY <2>4, <2>5, <2>6, MadeFrom
  <2> QED BY <2>7 DEF t
<1>3. Sorted(collect_trusted_projects(c)) \in Seq(Path)
  BY ProjectsAre, ListIs
<1> QED BY <1>1, <1>2, <1>3

\* What the resources of a GPU add is named by paths, too.
GpuPathsOK(gpu) ==
  /\ gpu.readonly_mounts \in Seq(Entry)
  /\ gpu.symlinks \in Seq([path : Path, target : Path])
  /\ \A n \in gpu.nodes : n.path \in ToSet(Names)

Operations(kinds) == [op : kinds, src : Path, dst : Path]

LEMMA OpIs ==
  ASSUME NEW kinds, NEW op \in kinds, NEW src \in Path, NEW dst \in Path
  PROVE  Op(op, src, dst) \in Operations(kinds)
BY DEF Op, Operations

LEMMA OpAt == ASSUME NEW op, NEW src, NEW dst PROVE Op(op, src, dst).dst = dst
BY DEF Op

Masking == {"empty", "unreadable"}
Showing == {"tmpfs", "ro-bind", "symlink", "dev-bind"}
AnyKind == Masking \union Showing \union {"bind"}

LEMMA ReadOnlyOpsAre ==
  ASSUME NEW s \in Seq(Entry)
  PROVE  ReadOnlyOps(s) \in Seq(Operations(Showing))
<1> DEFINE t == ReadOnlyOps(s)
<1>1. \A i \in DOMAIN s : s[i] \in Entry /\ s[i].source \in Path /\ s[i].destination \in Path
  <2>1. \A i \in DOMAIN s : s[i] \in Entry
    OBVIOUS
  <2> QED BY <2>1 DEF Entry
<1>2. t = [i \in DOMAIN s |-> Op("ro-bind", s[i].source, s[i].destination)]
  BY DEF ReadOnlyOps
<1> HIDE DEF t
<1>3. t = [i \in DOMAIN s |-> t[i]] /\ \A i \in DOMAIN s : t[i] \in Operations(Showing)
  BY <1>1, <1>2, OpIs DEF Showing
<1>4. t \in Seq(Operations(Showing))
  BY <1>3, MadeFrom
<1> QED BY <1>4 DEF t

LEMMA SymlinkOpsAre ==
  ASSUME NEW gpu, GpuPathsOK(gpu)
  PROVE  SymlinkOps(gpu) \in Seq(Operations(Showing))
<1> DEFINE s == gpu.symlinks
           t == SymlinkOps(gpu)
           L == [path : Path, target : Path]
<1>1. s \in Seq(L)
  BY DEF GpuPathsOK
<1>2. t = [i \in DOMAIN s |-> Op("symlink", s[i].target, s[i].path)]
  BY DEF SymlinkOps
<1> HIDE DEF t, s
<1>3. \A i \in DOMAIN s : s[i].target \in Path /\ s[i].path \in Path
  <2>1. \A i \in DOMAIN s : s[i] \in L
    <3> HIDE DEF L
    <3> QED BY <1>1
  <2> QED BY <2>1
<1> HIDE DEF L
<1>4. t = [i \in DOMAIN s |-> t[i]] /\ \A i \in DOMAIN s : t[i] \in Operations(Showing)
  BY <1>2, <1>3, OpIs DEF Showing
<1>5. t \in Seq(Operations(Showing))
  BY <1>1, <1>4, MadeFrom
<1> QED BY <1>5 DEF t

LEMMA NodeOpsAre ==
  ASSUME NEW gpu, GpuPathsOK(gpu)
  PROVE  NodeOps(gpu) \in Seq(Operations(Showing))
<1> DEFINE N == ToSet(Names)
           D(x) == IF x = "kfd" THEN <<"dev", "kfd">> ELSE <<"dev", "dri", x>>
           f == [x \in N |-> D(x)]
           All == {f[x] : x \in N}
           S == {IF n.path = "kfd" THEN <<"dev", "kfd">> ELSE <<"dev", "dri", n.path>> : n \in gpu.nodes}
           paths == Sorted(S)
           t == NodeOps(gpu)
<1>1. IsFiniteSet(N)
  <2>1. DOMAIN Names = 1 .. Len(Names) /\ Len(Names) \in Nat
    BY NamesAssumption DEF Path
  <2>2. IsFiniteSet(1 .. Len(Names))
    BY <2>1, UpToFinite
  <2>3. N = {Names[i] : i \in 1 .. Len(Names)}
    BY <2>1 DEF ToSet
  <2> QED BY <2>2, <2>3, ImageFinite
<1>2. All \subseteq Path
  <2>1. {"dev", "dri", "kfd"} \subseteq N
    <3>1. <<"dev", "dri", "kfd">> \in Seq(N)
      BY NamesAssumption DEF Path
    <3> QED BY <3>1
  <2> HIDE DEF N
  <2>2. \A x \in N : <<"dev", "dri", x>> \in Seq(N) /\ <<"dev", "kfd">> \in Seq(N)
    BY <2>1
  <2> QED BY <2>2 DEF Path, N
<1>3. IsFiniteSet(All)
  <2> HIDE DEF N, f
  <2> QED BY <1>1, ImageFinite
<1>4. S \in SUBSET All
  <2>1. \A n \in gpu.nodes : n.path \in N
    BY DEF GpuPathsOK
  <2> HIDE DEF N
  <2>2. \A n \in gpu.nodes : D(n.path) = f[n.path]
    BY <2>1
  <2> HIDE DEF f
  <2> QED BY <2>1, <2>2
<1>5. t = [i \in DOMAIN paths |-> Op("dev-bind", paths[i], paths[i])]
  BY DEF NodeOps
<1> HIDE DEF All, S, t
<1>6. paths \in Seq(Path)
  BY <1>2, <1>3, <1>4, FS_Subset, ListIs
<1> HIDE DEF paths
<1>7. \A i \in DOMAIN paths : paths[i] \in Path
  BY <1>6
<1>8. t = [i \in DOMAIN paths |-> t[i]] /\ \A i \in DOMAIN paths : t[i] \in Operations(Showing)
  BY <1>5, <1>7, OpIs DEF Showing
<1>9. t \in Seq(Operations(Showing))
  BY <1>6, <1>8, MadeFrom
<1> QED BY <1>9 DEF t

LEMMA MaskOpsAre ==
  ASSUME NEW masks, NEW M, \A m \in M : m.path \in Path, masks \in Seq(M)
  PROVE  /\ MaskOps(masks) \in Seq(Operations(Masking)) /\ Len(MaskOps(masks)) = Len(masks)
         /\ \A i \in 1 .. Len(masks) : MaskOps(masks)[i].dst = masks[i].path
<1> DEFINE t == MaskOps(masks)
           K(m) == IF Hides(m) THEN "empty" ELSE "unreadable"
<1>1. DOMAIN masks = 1 .. Len(masks) /\ Len(masks) \in Nat /\ \A i \in DOMAIN masks : masks[i].path \in Path
  <2>1. \A i \in DOMAIN masks : masks[i] \in M
    OBVIOUS
  <2> QED BY <2>1
<1>2. t = [i \in DOMAIN masks |-> Op(K(masks[i]), <<>>, masks[i].path)]
  BY DEF MaskOps
<1>3. \A m : K(m) \in Masking
  BY DEF Masking
<1>4. <<>> \in Path
  BY DEF Path
<1> HIDE DEF t, K
<1>5. \A i \in DOMAIN masks : t[i] = Op(K(masks[i]), <<>>, masks[i].path)
  BY <1>2
<1>6. \A i \in DOMAIN masks : t[i] \in Operations(Masking)
  BY <1>1, <1>3, <1>4, <1>5, OpIs
<1>7. t = [i \in DOMAIN masks |-> t[i]] /\ DOMAIN t = 1 .. Len(masks)
  BY <1>1, <1>2
<1>8. t \in Seq(Operations(Masking))
  BY <1>6, <1>7, MadeFrom
<1>9. Len(t) = Len(masks)
  BY <1>1, <1>7, <1>8
<1>10. \A i \in 1 .. Len(masks) : t[i].dst = masks[i].path
  BY <1>1, <1>5, OpAt
<1> QED BY <1>8, <1>9, <1>10 DEF t

\* The directories of the sandbox's own: the first is the root, which covers all.
LEMMA PrivateOpsAre ==
  ASSUME NEW m, m.home \in Path
  PROVE  /\ private_ops(m) \in Seq(Operations(Showing))
         /\ \A p \in Path : Covered(private_ops(m), p)
<1> DEFINE d == <<<<>>, <<"dev">>, <<"tmp">>, <<"run">>, m.home>>
           t == private_ops(m)
<1>1. \A i \in 1 .. 5 : d[i] \in Path
  <2>1. <<"dev">> \in Path /\ <<"tmp">> \in Path /\ <<"run">> \in Path /\ <<>> \in Path
    <3> DEFINE N == ToSet(Names)
    <3>1. <<"dev", "dri", "kfd">> \in Seq(N) /\ <<"tmp">> \in Path /\ <<"run">> \in Path
      BY NamesAssumption DEF Path
    <3> HIDE DEF N
    <3>2. "dev" \in N
      BY <3>1
    <3>3. <<"dev">> \in Seq(N) /\ <<>> \in Seq(N)
      BY <3>2
    <3> QED BY <3>1, <3>3 DEF Path, N
  <2>2. d[1] = <<>> /\ d[2] = <<"dev">> /\ d[3] = <<"tmp">> /\ d[4] = <<"run">> /\ d[5] = m.home
    OBVIOUS
  <2> HIDE DEF d
  <2>3. \A i \in 1 .. 5 : i = 1 \/ i = 2 \/ i = 3 \/ i = 4 \/ i = 5
    OBVIOUS
  <2> QED BY <2>1, <2>2, <2>3
<1>2. d[1] = <<>> /\ <<>> \in Path
  BY DEF Path
<1>3. t = [i \in 1 .. 5 |-> Op("tmpfs", <<>>, d[i])]
  BY DEF private_ops
<1> HIDE DEF d, t
<1>4. \A i \in 1 .. 5 : t[i] \in Operations(Showing)
  BY <1>1, <1>2, <1>3, OpIs DEF Showing
<1>5. t \in Seq(Operations(Showing)) /\ Len(t) = 5
  <2>1. t \in [1 .. 5 -> Operations(Showing)] /\ 5 \in Nat
    BY <1>3, <1>4
  <2> QED BY <2>1, SeqByPlaces
<1>6. ASSUME NEW p \in Path PROVE Covered(t, p)
  <2>1. t[1].dst = <<>> /\ 1 \in 1 .. Len(t)
    BY <1>2, <1>3, <1>5 DEF Op
  <2>2. is_within(p, t[1].dst)
    BY <2>1, WithinSelf
  <2> QED BY <2>1, <2>2 DEF Covered
<1> QED BY <1>5, <1>6 DEF t

----------------------------------------------------------------------------
(* The plan *)

\* What a covering operation shows is of one of the kinds in the list.
LEMMA KindShown ==
  ASSUME NEW kinds, NEW ops \in Seq(Operations(kinds)), NEW host, NEW p, Covered(ops, p)
  PROVE  View(host, ops, p).op \in kinds
<1>1. PICK i : LastCover(ops, p, i)
  BY LastExists
<1>2. View(host, ops, p) = Shown(host, ops[i], p)
  BY <1>1, ViewIs
<1>3. ops[i] \in Operations(kinds)
  BY <1>1, ElementOfSeq DEF LastCover
<1>4. View(host, ops, p).op = ops[i].op
  BY <1>2 DEF Shown
<1> QED BY <1>3, <1>4 DEF Operations

\* What the plan is made of, for the entries that are left of all read-only ones.
PlanParts(c, gpu, entries) ==
  LET m == compile_policy(c)
      any == Seq(Operations(AnyKind))
  IN /\ private_ops(m) \in any /\ ReadOnlyOps(entries) \in any
     /\ SymlinkOps(gpu) \in any /\ NodeOps(gpu) \in any
     /\ <<Op("bind", m.workspace, m.workspace)>> \in any /\ MaskOps(m.masks) \in any
     /\ \A p \in Path : Covered(private_ops(m), p)

LEMMA PartsAre ==
  ASSUME NEW c, ConfigurationOK(c), NEW gpu, GpuPathsOK(gpu), NEW entries \in Seq(Entry)
  PROVE  PlanParts(c, gpu, entries)
<1> DEFINE m == compile_policy(c)
           any == Operations(AnyKind)
<1>1. Operations(Showing) \subseteq any /\ Operations(Masking) \subseteq any
  BY DEF Operations, AnyKind
<1>2. m.home = c.home /\ m.workspace = c.workspace /\ m.masks = collapse_masks(raw_masks(c))
  BY DEF compile_policy
<1>3. m.home \in Path /\ m.workspace \in Path
  BY <1>2, ConfigurationIs
<1> HIDE DEF m, any
<1>4. private_ops(m) \in Seq(any) /\ \A p \in Path : Covered(private_ops(m), p)
  BY <1>1, <1>3, PrivateOpsAre, SeqWiden
<1>5. ReadOnlyOps(entries) \in Seq(any)
  BY <1>1, ReadOnlyOpsAre, SeqWiden
<1>6. SymlinkOps(gpu) \in Seq(any)
  BY <1>1, SymlinkOpsAre, SeqWiden
<1>7. NodeOps(gpu) \in Seq(any)
  BY <1>1, NodeOpsAre, SeqWiden
<1>8. <<Op("bind", m.workspace, m.workspace)>> \in Seq(any)
  <2>1. Op("bind", m.workspace, m.workspace) \in any
    BY <1>3, OpIs DEF any, AnyKind
  <2> QED BY <2>1
<1>9. MaskOps(m.masks) \in Seq(any)
  <2>1. m.masks \in Seq(raw_masks(c)) /\ \A x \in raw_masks(c) : x.path \in Path
    BY <1>2, RawMasksAre, CollapseIs
  <2>2. MaskOps(m.masks) \in Seq(Operations(Masking))
    BY <2>1, MaskOpsAre
  <2> QED BY <1>1, <2>2, SeqWiden
<1> QED BY <1>4, <1>5, <1>6, <1>7, <1>8, <1>9 DEF PlanParts, m, any

LEMMA ReadOnlyAre ==
  ASSUME NEW c, ConfigurationOK(c), NEW gpu, GpuPathsOK(gpu)
  PROVE  readonly(compile_policy(c), gpu) \in Seq(Entry)
<1> DEFINE m == compile_policy(c)
<1>1. /\ m.system_read_only \in Seq(Entry) /\ m.user_read_only \in Seq(Entry)
      /\ m.trusted_projects \in Seq(Path)
  BY ManifestIs DEF compile_policy
<1>2. gpu.readonly_mounts \in Seq(Entry) /\ Identity(m.trusted_projects) \in Seq(Entry)
  BY <1>1, IdentityIs DEF GpuPathsOK
<1> HIDE DEF m
<1>3. m.system_read_only \o m.user_read_only \in Seq(Entry)
  BY <1>1, ConcatProperties
<1>4. m.system_read_only \o m.user_read_only \o Identity(m.trusted_projects) \in Seq(Entry)
  BY <1>2, <1>3, ConcatProperties
<1>5. readonly(m, gpu) \in Seq(Entry)
  BY <1>2, <1>4, ConcatProperties DEF readonly
<1> QED BY <1>5 DEF m

\* All that a plan names is a path.
LEMMA PlanIs ==
  ASSUME NEW c, ConfigurationOK(c), NEW gpu, GpuPathsOK(gpu), NEW entries \in Seq(Entry)
  PROVE  Plan(compile_policy(c), gpu, entries) \in Seq(Operations(AnyKind))
<1> DEFINE any == Operations(AnyKind)
           m == compile_policy(c)
           a == private_ops(m)
           b == ReadOnlyOps(entries)
           d == SymlinkOps(gpu)
           e == NodeOps(gpu)
           f == <<Op("bind", m.workspace, m.workspace)>>
           g == MaskOps(m.masks)
<1>1. /\ a \in Seq(any) /\ b \in Seq(any) /\ d \in Seq(any) /\ e \in Seq(any)
      /\ f \in Seq(any) /\ g \in Seq(any)
  BY PartsAre DEF PlanParts
<1>2. Plan(m, gpu, entries) = a \o b \o d \o e \o f \o g
  BY DEF Plan
<1> HIDE DEF any, m, a, b, d, e, f, g
<1>3. a \o b \in Seq(any)
  BY <1>1, ConcatProperties
<1>4. a \o b \o d \in Seq(any)
  BY <1>1, <1>3, ConcatProperties
<1>5. a \o b \o d \o e \in Seq(any)
  BY <1>1, <1>4, ConcatProperties
<1>6. a \o b \o d \o e \o f \in Seq(any)
  BY <1>1, <1>5, ConcatProperties
<1>7. a \o b \o d \o e \o f \o g \in Seq(any)
  BY <1>1, <1>6, ConcatProperties
<1> QED BY <1>2, <1>7 DEF any, m

\* Pruning cannot be seen at any path whatsoever.
LEMMA PlanPruned ==
  ASSUME NEW c, ConfigurationOK(c), NEW gpu, GpuPathsOK(gpu), NEW host, NEW p \in Path
  PROVE  LET m == compile_policy(c)
         IN View(host, emit_bwrap(m, gpu), p) = View(host, Plan(m, gpu, readonly(m, gpu)), p)
<1> DEFINE any == Operations(AnyKind)
           m == compile_policy(c)
           all == readonly(m, gpu)
           a == private_ops(m)
           b == ReadOnlyOps(Prune(all))
           x == ReadOnlyOps(all)
           d == SymlinkOps(gpu)
           e == NodeOps(gpu)
           f == <<Op("bind", m.workspace, m.workspace)>>
           g == MaskOps(m.masks)
<1>1. all \in Seq(Entry) /\ Prune(all) \in Seq(Entry)
  <2>1. all \in Seq(Entry)
    BY ReadOnlyAre
  <2> HIDE DEF all
  <2> QED BY <2>1, PruneIs
<1>2. PlanParts(c, gpu, all) /\ PlanParts(c, gpu, Prune(all))
  <2> HIDE DEF all
  <2> QED BY <1>1, PartsAre
<1>3. /\ a \in Seq(any) /\ b \in Seq(any) /\ x \in Seq(any) /\ d \in Seq(any) /\ e \in Seq(any)
      /\ f \in Seq(any) /\ g \in Seq(any) /\ Covered(a, p)
  BY <1>2 DEF PlanParts
<1>4. /\ emit_bwrap(m, gpu) = a \o b \o d \o e \o f \o g
      /\ Plan(m, gpu, all) = a \o x \o d \o e \o f \o g
  BY DEF emit_bwrap, Plan
<1> HIDE DEF any, a, d, e, f, g, all
<1>5. Alike(host, a \o b, a \o x, p)
  BY <1>1, <1>3, PruneAlike
<1> HIDE DEF b, x
<1> DEFINE b1 == a \o b
           x1 == a \o x
           b2 == b1 \o d
           x2 == x1 \o d
           b3 == b2 \o e
           x3 == x2 \o e
           b4 == b3 \o f
           x4 == x3 \o f
           b5 == b4 \o g
           x5 == x4 \o g
<1>6. b1 \in Seq(any) /\ x1 \in Seq(any) /\ Alike(host, b1, x1, p)
  BY <1>3, <1>5, ConcatProperties
<1>7. b5 = a \o b \o d \o e \o f \o g /\ x5 = a \o x \o d \o e \o f \o g
  OBVIOUS
<1> HIDE DEF b1, x1
<1>8. b2 \in Seq(any) /\ x2 \in Seq(any) /\ Alike(host, b2, x2, p)
  BY <1>3, <1>6, ConcatProperties, AlikeJoined
<1> HIDE DEF b2, x2
<1>9. b3 \in Seq(any) /\ x3 \in Seq(any) /\ Alike(host, b3, x3, p)
  BY <1>3, <1>8, ConcatProperties, AlikeJoined
<1> HIDE DEF b3, x3
<1>10. b4 \in Seq(any) /\ x4 \in Seq(any) /\ Alike(host, b4, x4, p)
  BY <1>3, <1>9, ConcatProperties, AlikeJoined
<1> HIDE DEF b4, x4
<1>11. Alike(host, b5, x5, p)
  BY <1>3, <1>10, AlikeJoined
<1> HIDE DEF b5, x5
<1>12. View(host, b5, p) = View(host, x5, p)
  BY <1>11 DEF Alike
<1> QED BY <1>4, <1>7, <1>12 DEF m, all

\* What is masked shows nothing of the host; what else is in the workspace is the host's,
\* to be written; the rest is not.
LEMMA PlanWritable ==
  ASSUME NEW c, ConfigurationOK(c), NEW gpu, GpuPathsOK(gpu), NEW host, NEW p \in Path
  PROVE  View(host, emit_bwrap(compile_policy(c), gpu), p) = [op |-> "bind", shows |-> realpath(host, p)]
           <=> is_within(p, c.workspace) /\ ~WithinAny(p, {x.path : x \in raw_masks(c)})
<1> DEFINE any == Operations(AnyKind)
           showing == Operations(Showing)
           m == compile_policy(c)
           all == Prune(readonly(m, gpu))
           a == private_ops(m)
           b == ReadOnlyOps(all)
           d == SymlinkOps(gpu)
           e == NodeOps(gpu)
           bind == Op("bind", m.workspace, m.workspace)
           f == <<bind>>
           g == MaskOps(m.masks)
           masked == WithinAny(p, {x.path : x \in raw_masks(c)})
           wanted == [op |-> "bind", shows |-> realpath(host, p)]
<1>1. m.home \in Path /\ c.workspace \in Path /\ m.workspace = c.workspace
      /\ m.masks = collapse_masks(raw_masks(c))
  BY ConfigurationIs DEF compile_policy
<1>2. all \in Seq(Entry)
  BY ReadOnlyAre, PruneIs
<1>3. /\ a \in Seq(showing) /\ b \in Seq(showing) /\ d \in Seq(showing) /\ e \in Seq(showing)
      /\ Covered(a, p)
  <2> HIDE DEF all
  <2>1. a \in Seq(showing) /\ Covered(a, p)
    <3> HIDE DEF m
    <3> QED BY <1>1, PrivateOpsAre
  <2> QED BY <1>2, <2>1, ReadOnlyOpsAre, SymlinkOpsAre, NodeOpsAre
<1>4. g \in Seq(Operations(Masking)) /\ (Covered(g, p) <=> masked)
  <2> DEFINE masks == m.masks
             M == raw_masks(c)
  <2>1. masks \in Seq(M) /\ (\A x \in M : x.path \in Path)
        /\ (masked <=> \E i \in 1 .. Len(masks) : is_within(p, masks[i].path))
    BY <1>1, RawMasksAre, CollapseIs
  <2> HIDE DEF masks, M, masked
  <2>2. /\ MaskOps(masks) \in Seq(Operations(Masking)) /\ Len(MaskOps(masks)) = Len(masks)
        /\ \A i \in 1 .. Len(masks) : MaskOps(masks)[i].dst = masks[i].path
    BY <2>1, MaskOpsAre
  <2>3. Covered(MaskOps(masks), p) <=> \E i \in 1 .. Len(masks) : is_within(p, masks[i].path)
    BY <2>2 DEF Covered
  <2> QED BY <2>1, <2>2, <2>3 DEF masks
<1>5. emit_bwrap(m, gpu) = a \o b \o d \o e \o f \o g
  BY DEF emit_bwrap, Plan
<1>6. bind.op = "bind" /\ bind.src = c.workspace /\ bind.dst = c.workspace
  BY <1>1 DEF Op
<1>7. bind \in any
  BY <1>1, OpIs DEF AnyKind
<1>8. showing \subseteq any /\ Operations(Masking) \subseteq any
  BY DEF Operations, AnyKind
<1> HIDE DEF any, showing, all, a, b, d, e, bind, g, masked
<1> DEFINE before == a \o b \o d \o e
<1>9. before \in Seq(showing) /\ Covered(before, p)
  <2>1. a \o b \in Seq(showing) /\ Covered(a \o b, p)
    BY <1>3, ConcatProperties, ViewJoined
  <2>2. a \o b \o d \in Seq(showing) /\ Covered(a \o b \o d, p)
    BY <1>3, <2>1, ConcatProperties, ViewJoined
  <2> QED BY <1>3, <2>2, ConcatProperties, ViewJoined
<1> HIDE DEF before
<1> DEFINE base == before \o f
           plan == base \o g
<1>10. before \in Seq(any) /\ f \in Seq(any) /\ g \in Seq(any) /\ base \in Seq(any)
  <2>1. before \in Seq(any)
    BY <1>8, <1>9, SeqWiden
  <2>2. g \in Seq(any)
    BY <1>4, <1>8, SeqWiden
  <2>3. f \in Seq(any)
    BY <1>7
  <2> QED BY <2>1, <2>2, <2>3, ConcatProperties
<1>11. Len(f) = 1 /\ f[1] = bind
  OBVIOUS
<1>12. emit_bwrap(m, gpu) = plan
  BY <1>5 DEF before
<1>13. Covered(f, p) <=> is_within(p, c.workspace)
  <2>1. \A i : i \in 1 .. Len(f) <=> i = 1
    BY <1>11
  <2> HIDE DEF f
  <2> QED BY <1>6, <1>11, <2>1 DEF Covered
<1> HIDE DEF f
<1>14. Covered(base, p)
  BY <1>9, <1>10, ViewJoined
<1>15. /\ Covered(f, p) => View(host, base, p) = View(host, f, p)
       /\ ~Covered(f, p) => View(host, base, p) = View(host, before, p)
  BY <1>9, <1>10, ViewJoined
<1> HIDE DEF base
<1>16. /\ Covered(g, p) => View(host, plan, p) = View(host, g, p)
       /\ ~Covered(g, p) => View(host, plan, p) = View(host, base, p)
  BY <1>10, <1>14, ViewJoined
<1> HIDE DEF plan
<1>17. wanted.op = "bind"
  OBVIOUS
<1>18. CASE masked
  <2>1. View(host, g, p).op \in Masking
    BY <1>4, <1>18, KindShown
  <2>2. View(host, plan, p).op # "bind"
    BY <1>4, <1>16, <1>18, <2>1 DEF Masking
  <2> QED BY <1>12, <1>18, <2>2 DEF m, masked
<1>19. CASE ~masked /\ ~is_within(p, c.workspace)
  <2>1. View(host, before, p).op \in Showing
    BY <1>9, KindShown DEF showing
  <2>2. View(host, plan, p).op # "bind"
    BY <1>4, <1>13, <1>15, <1>16, <1>19, <2>1 DEF Showing
  <2> QED BY <1>12, <1>19, <2>2 DEF m, masked
<1>20. CASE ~masked /\ is_within(p, c.workspace)
  <2>1. LastCover(f, p, 1)
    <3>1. 1 \in 1 .. Len(f) /\ ~\E j \in (1 + 1) .. Len(f) : TRUE
      BY <1>11
    <3> QED BY <1>6, <1>11, <1>20, <3>1 DEF LastCover
  <2>2. View(host, f, p) = Shown(host, bind, p)
    BY <1>10, <1>11, <2>1, ViewIs
  <2>3. bind.src \o SubSeq(p, Len(bind.dst) + 1, Len(p)) = p
    BY <1>1, <1>6, <1>20, BelowJoined
  <2>4. Shown(host, bind, p) = wanted
    BY <1>6, <2>3 DEF Shown
  <2>5. View(host, plan, p) = wanted
    BY <1>4, <1>13, <1>15, <1>16, <1>20, <2>2, <2>4
  <2> QED BY <1>12, <1>20, <2>5 DEF m, masked
<1> QED BY <1>18, <1>19, <1>20
----------------------------------------------------------------------------
(* What is seen of the host *)

\* An entry that is mounted on itself, or where a path leads to it.
Faithful(host, e) == e.source = e.destination \/ e.source = realpath(host, e.destination)

\* A mount of what a path leads to shows what the host has there.
LEMMA FaithfulLeads ==
  ASSUME NEW host, HostOK(host), NEW e \in Entry, Faithful(host, e), NEW p \in Path,
         is_within(p, e.destination)
  PROVE  realpath(host, Through(e, p)) = realpath(host, p)
<1> DEFINE d == e.destination
           rest == SubSeq(p, Len(d) + 1, Len(p))
<1>1. d \in Path /\ e.source \in Path
  BY DEF Entry
<1>2. rest \in Path /\ d \o rest = p
  BY <1>1, BelowJoined
<1>3. Through(e, p) = e.source \o rest
  BY DEF Through
<1> HIDE DEF d, rest
<1>4. realpath(host, d \o rest) = realpath(host, realpath(host, d) \o rest)
  <2>1. \A x, y \in Path : realpath(host, x \o y) = realpath(host, realpath(host, x) \o y)
    BY RealpathJoined
  <2>2. d \in Path /\ rest \in Path
    BY <1>1, <1>2
  <2> QED BY <2>1, <2>2
<1>5. e.source = d \/ e.source = realpath(host, d)
  BY DEF Faithful, d
<1>6. realpath(host, e.source \o rest) = realpath(host, d \o rest)
  BY <1>4, <1>5
<1> QED BY <1>2, <1>3, <1>6

\* So the read-only mounts that are left show at each path below one of them what the
\* host has there, whichever comes last.
LEMMA ReadOnlySeen ==
  ASSUME NEW host, HostOK(host), NEW s \in Seq(Entry), \A e \in ToSet(s) : Faithful(host, e),
         NEW p \in Path
  PROVE  LET ops == ReadOnlyOps(Prune(s))
         IN /\ Covered(ops, p) <=> WithinAny(p, {e.destination : e \in ToSet(s)})
            /\ Covered(ops, p) => View(host, ops, p) = [op |-> "ro-bind", shows |-> realpath(host, p)]
<1> DEFINE r == Prune(s)
           n == Len(s)
<1>1. r \in Seq(Entry) /\ \A x : Leads(s, n, p, x) <=> Leads(r, Len(r), p, x)
  BY PruneIs
<1> HIDE DEF r
<1>2. n \in Nat /\ DOMAIN s = 1 .. n /\ \A i \in 1 .. n : s[i] \in Entry
  BY LenProperties, ElementOfSeq
<1>3. ToSet(s) = {s[i] : i \in 1 .. n}
  BY <1>2 DEF ToSet
<1>4. ASSUME NEW x, Leads(s, n, p, x)
      PROVE  /\ WithinAny(p, {e.destination : e \in ToSet(s)})
             /\ realpath(host, x) = realpath(host, p)
  <2>1. PICK i \in 1 .. n : LeadsBy(s, n, p, x, i)
    BY <1>4 DEF Leads
  <2>2. /\ s[i] \in Entry /\ Faithful(host, s[i]) /\ is_within(p, s[i].destination)
        /\ x = Through(s[i], p) /\ s[i] \in ToSet(s)
    BY <1>2, <1>3, <2>1 DEF LeadsBy, Through
  <2> QED BY <2>2, FaithfulLeads DEF WithinAny
<1>5. ASSUME WithinAny(p, {e.destination : e \in ToSet(s)}) PROVE \E x : Leads(s, n, p, x)
  <2> DEFINE all == ReadOnlyOps(s)
  <2>1. PICK i \in 1 .. n : is_within(p, s[i].destination)
    BY <1>3, <1>5 DEF WithinAny
  <2>2. Len(all) = n /\ all[i].dst = s[i].destination
    <3>1. all = [h \in 1 .. n |-> Op("ro-bind", s[h].source, s[h].destination)]
      BY <1>2 DEF ReadOnlyOps
    <3>2. all \in Seq(Operations(Showing)) /\ DOMAIN all = 1 .. n
      BY <3>1, ReadOnlyOpsAre
    <3>3. all[i] = Op("ro-bind", s[i].source, s[i].destination)
      BY <3>1
    <3> HIDE DEF all
    <3> QED BY <1>2, <3>2, <3>3, OpAt
  <2>3. Covered(all, p)
    BY <2>1, <2>2 DEF Covered
  <2> QED BY <2>3, ReadOnlyShows
<1>6. Covered(ReadOnlyOps(r), p) <=> \E x : Leads(s, n, p, x)
  BY <1>1, ReadOnlyShows
<1>7. ASSUME NEW x, Leads(s, n, p, x)
      PROVE  View(host, ReadOnlyOps(r), p) = [op |-> "ro-bind", shows |-> realpath(host, p)]
  <2>1. Leads(r, Len(r), p, x)
    BY <1>1, <1>7
  <2>2. View(host, ReadOnlyOps(r), p) = [op |-> "ro-bind", shows |-> realpath(host, x)]
    BY <1>1, <2>1, ReadOnlyShows
  <2> QED BY <1>4, <1>7, <2>2
<1> QED BY <1>4, <1>5, <1>6, <1>7 DEF r

\* One of the operations that cover a path shows what is seen.
LEMMA SeenThroughOne ==
  ASSUME NEW T, NEW ops \in Seq(T), NEW host, NEW p, Covered(ops, p)
  PROVE  \E i \in 1 .. Len(ops) : is_within(p, ops[i].dst) /\ View(host, ops, p) = Shown(host, ops[i], p)
<1>1. PICK i : LastCover(ops, p, i)
  BY LastExists
<1> QED BY <1>1, ViewIs DEF LastCover

LEMMA RangeJoined ==
  ASSUME NEW T, NEW a \in Seq(T), NEW b \in Seq(T)
  PROVE  ToSet(a \o b) = ToSet(a) \union ToSet(b)
<1> DEFINE c == a \o b
           m == Len(a)
           n == Len(b)
<1>1. /\ m \in Nat /\ n \in Nat /\ DOMAIN a = 1 .. m /\ DOMAIN b = 1 .. n
      /\ c \in Seq(T) /\ Len(c) = m + n /\ \A i \in 1 .. m + n : c[i] = IF i <= m THEN a[i] ELSE b[i - m]
  BY ConcatProperties
<1>2. DOMAIN c = 1 .. m + n
  BY <1>1
<1> HIDE DEF c, m, n
<1>3. \A i \in 1 .. m : i \in 1 .. m + n /\ c[i] = a[i]
  BY <1>1
<1>4. ASSUME NEW i \in 1 .. n PROVE m + i \in 1 .. m + n /\ c[m + i] = b[i]
  <2>1. m + i \in 1 .. m + n /\ ~(m + i <= m) /\ (m + i) - m = i
    BY <1>1
  <2> QED BY <1>1, <2>1
<1>5. ASSUME NEW i \in 1 .. m + n PROVE c[i] \in ToSet(a) \union ToSet(b)
  <2>1. CASE i <= m
    <3>1. i \in 1 .. m
      BY <2>1
    <3> QED BY <1>1, <1>3, <3>1 DEF ToSet
  <2>2. CASE ~(i <= m)
    <3>1. i - m \in 1 .. n
      BY <1>1, <2>2
    <3> QED BY <1>1, <2>2, <3>1 DEF ToSet
  <2> QED BY <2>1, <2>2
<1>6. ToSet(c) \subseteq ToSet(a) \union ToSet(b)
  <2>1. ToSet(c) = {c[i] : i \in 1 .. m + n}
    BY <1>2 DEF ToSet
  <2> QED BY <1>5, <2>1
<1>7. ToSet(a) \subseteq ToSet(c)
  BY <1>1, <1>2, <1>3 DEF ToSet
<1>8. ToSet(b) \subseteq ToSet(c)
  <2>1. \A i \in 1 .. m + n : c[i] \in ToSet(c)
    BY <1>2 DEF ToSet
  <2>2. \A i \in 1 .. n : b[i] \in ToSet(c)
    <3> TAKE i \in 1 .. n
    <3>1. m + i \in 1 .. m + n /\ c[m + i] = b[i]
      BY <1>4
    <3>2. c[m + i] \in ToSet(c)
      BY <2>1, <3>1
    <3> QED BY <3>1, <3>2
  <2>3. ToSet(b) = {b[i] : i \in 1 .. n}
    BY <1>1 DEF ToSet
  <2> QED BY <2>2, <2>3
<1> QED BY <1>6, <1>7, <1>8 DEF c

\* What the resources of a GPU mount is mounted on itself, and what they link is not
\* where it leads.
GpuMountsOK(host, gpu) ==
  /\ GpuPathsOK(gpu)
  /\ \A e \in ToSet(gpu.readonly_mounts) : e.source = e.destination
  /\ \A l \in ToSet(gpu.symlinks) : l.target = realpath(host, l.path) /\ l.target # l.path
Reach(m, gpu) == covered(m) \union {e.destination : e \in ToSet(gpu.readonly_mounts)}

LEMMA IdentityShows ==
  ASSUME NEW paths \in Seq(Path)
  PROVE  /\ \A e \in ToSet(Identity(paths)) : e.source = e.destination
         /\ {e.destination : e \in ToSet(Identity(paths))} = ToSet(paths)
<1> DEFINE I == ToSet(Identity(paths))
           P == ToSet(paths)
           E(p) == [source |-> p, destination |-> p]
<1>1. I = {E(paths[i]) : i \in DOMAIN paths} /\ P = {paths[i] : i \in DOMAIN paths}
  BY DEF Identity, ToSet
<1>2. \A p : E(p).source = p /\ E(p).destination = p
  OBVIOUS
<1> HIDE DEF I, P, E
<1>3. \A e \in I : e.source = e.destination /\ e.destination \in P
  BY <1>1, <1>2
<1>4. \A p \in P : \E e \in I : e.destination = p
  BY <1>1, <1>2
<1>5. {e.destination : e \in I} = P
  BY <1>3, <1>4
<1> QED BY <1>3, <1>5 DEF I, P

LEMMA ReadOnlyReach ==
  ASSUME NEW c, ConfigurationOK(c), NEW gpu, GpuMountsOK(c.host, gpu), NEW s,
         s = readonly(compile_policy(c), gpu)
  PROVE  /\ s \in Seq(Entry) /\ \A e \in ToSet(s) : Faithful(c.host, e)
         /\ {e.destination : e \in ToSet(s)} = Reach(compile_policy(c), gpu)
<1> DEFINE m == compile_policy(c)
           x == m.system_read_only
           y == m.user_read_only
           z == Identity(m.trusted_projects)
           g == gpu.readonly_mounts
<1>1. /\ x = system_read_only(c) /\ y = collect_read_only_roots(c)
      /\ m.trusted_projects = Sorted(collect_trusted_projects(c))
  BY DEF compile_policy
<1>2. x \in Seq(Entry) /\ y \in Seq(Entry) /\ m.trusted_projects \in Seq(Path)
  <2> HIDE DEF m
  <2> QED BY <1>1, ManifestIs
<1>3. z \in Seq(Entry) /\ g \in Seq(Entry)
  <2> HIDE DEF m
  <2> QED BY <1>2, IdentityIs DEF GpuMountsOK, GpuPathsOK
<1>4. \A e \in ToSet(x) : e.source = e.destination
  <2> DEFINE paths == Sorted({p \in SYSTEM_READ_ONLY : lstat(c.host, p) # "absent"})
  <2>1. x = Identity(paths)
    BY <1>1 DEF system_read_only
  <2>2. ToSet(Identity(paths)) = {[source |-> paths[i], destination |-> paths[i]] : i \in DOMAIN paths}
    BY DEF Identity, ToSet
  <2> HIDE DEF paths, m
  <2> QED BY <2>1, <2>2
<1>5. \A e \in ToSet(y) : e.source = realpath(c.host, e.destination)
  <2> DEFINE paths == Sorted({d \in default_user(c) \union c.extra_read_only : exists(c.host, d)})
  <2>1. y = [i \in DOMAIN paths |-> [source |-> realpath(c.host, paths[i]), destination |-> paths[i]]]
    BY <1>1 DEF collect_read_only_roots
  <2> HIDE DEF paths, m
  <2> QED BY <2>1 DEF ToSet
<1>6. /\ \A e \in ToSet(z) : e.source = e.destination
      /\ {e.destination : e \in ToSet(z)} = ToSet(m.trusted_projects)
  <2> HIDE DEF m
  <2> QED BY <1>2, IdentityShows
<1>7. \A e \in ToSet(g) : e.source = e.destination
  BY DEF GpuMountsOK
<1>8. s = x \o y \o z \o g
  BY DEF readonly
<1>9. Reach(m, gpu) = {e.destination : e \in ToSet(x) \union ToSet(y)} \union ToSet(m.trusted_projects)
                        \union {e.destination : e \in ToSet(g)}
  BY DEF Reach, covered
<1> HIDE DEF m, x, y, z, g
<1>10. x \o y \in Seq(Entry) /\ x \o y \o z \in Seq(Entry) /\ x \o y \o z \o g \in Seq(Entry)
  BY <1>2, <1>3, ConcatProperties
<1>11. ToSet(s) = ToSet(x) \union ToSet(y) \union ToSet(z) \union ToSet(g)
  <2> DEFINE xy == x \o y
             xyz == xy \o z
  <2>1. ToSet(xy) = ToSet(x) \union ToSet(y)
    BY <1>2, RangeJoined
  <2>2. xy \in Seq(Entry) /\ xyz \in Seq(Entry) /\ s = xyz \o g
    BY <1>8, <1>10
  <2> HIDE DEF xy
  <2>3. ToSet(xyz) = ToSet(xy) \union ToSet(z)
    BY <1>3, <2>2, RangeJoined
  <2> HIDE DEF xyz
  <2>4. ToSet(xyz \o g) = ToSet(xyz) \union ToSet(g)
    BY <1>3, <2>2, RangeJoined
  <2> QED BY <2>1, <2>2, <2>3, <2>4
<1>12. \A e \in ToSet(s) : Faithful(c.host, e)
  BY <1>4, <1>5, <1>6, <1>7, <1>11 DEF Faithful
<1>13. {e.destination : e \in ToSet(s)} = Reach(m, gpu)
  BY <1>6, <1>9, <1>11
<1> QED BY <1>8, <1>10, <1>12, <1>13 DEF m

\* What the links that are made cover, and the nodes.
LEMMA SymlinksCover ==
  ASSUME NEW gpu, GpuPathsOK(gpu)
  PROVE  /\ Len(SymlinkOps(gpu)) = Len(gpu.symlinks) /\ DOMAIN gpu.symlinks = 1 .. Len(gpu.symlinks)
         /\ \A i \in 1 .. Len(gpu.symlinks) :
              SymlinkOps(gpu)[i] = Op("symlink", gpu.symlinks[i].target, gpu.symlinks[i].path)
         /\ \A p : Covered(SymlinkOps(gpu), p) <=> \E l \in ToSet(gpu.symlinks) : is_within(p, l.path)
<1> DEFINE s == gpu.symlinks
           t == SymlinkOps(gpu)
           n == Len(s)
<1>1. n \in Nat /\ DOMAIN s = 1 .. n
  BY DEF GpuPathsOK
<1>2. t = [i \in DOMAIN s |-> Op("symlink", s[i].target, s[i].path)]
  BY DEF SymlinkOps
<1>3. t \in Seq(Operations(Showing))
  BY SymlinkOpsAre
<1> HIDE DEF t, s, n
<1>4. Len(t) = n /\ \A i \in 1 .. n : t[i] = Op("symlink", s[i].target, s[i].path)
  BY <1>1, <1>2, <1>3
<1>5. \A i \in 1 .. n : t[i].dst = s[i].path
  BY <1>4, OpAt
<1>6. \A p : Covered(t, p) <=> \E l \in ToSet(s) : is_within(p, l.path)
  BY <1>1, <1>4, <1>5 DEF Covered, ToSet
<1> QED BY <1>1, <1>4, <1>6 DEF s, t, n

LEMMA NodesCover ==
  ASSUME NEW gpu, GpuPathsOK(gpu), NEW p \in Path, Covered(NodeOps(gpu), p)
  PROVE  <<"dev">> \in Path /\ is_within(p, <<"dev">>)
<1> DEFINE N == ToSet(Names)
           D(x) == IF x = "kfd" THEN <<"dev", "kfd">> ELSE <<"dev", "dri", x>>
           f == [x \in N |-> D(x)]
           All == {f[x] : x \in N}
           S == {IF n.path = "kfd" THEN <<"dev", "kfd">> ELSE <<"dev", "dri", n.path>> : n \in gpu.nodes}
           paths == Sorted(S)
           t == NodeOps(gpu)
           dev == <<"dev">>
<1>1. dev \in Seq(N) /\ \A x \in N : <<"dev", "kfd">> \in Seq(N) /\ <<"dev", "dri", x>> \in Seq(N)
  <2>1. "dev" \in N /\ "dri" \in N /\ "kfd" \in N
    <3>1. <<"dev", "dri", "kfd">> \in Seq(N)
      BY NamesAssumption DEF Path
    <3> HIDE DEF N
    <3> QED BY <3>1
  <2> HIDE DEF N
  <2> QED BY <2>1
<1>2. \A n \in gpu.nodes : n.path \in N
  BY DEF GpuPathsOK
<1>3. \A n \in gpu.nodes : D(n.path) \in Path /\ IsPrefix(dev, D(n.path))
  <2> SUFFICES ASSUME NEW x \in N PROVE D(x) \in Path /\ IsPrefix(dev, D(x))
    BY <1>2
  <2> DEFINE d == D(x)
  <2>1. d \in Seq(N) /\ Len(d) >= 1 /\ d[1] = "dev"
    <3> HIDE DEF N
    <3> QED BY <1>1
  <2>2. Len(dev) = 1 /\ dev[1] = "dev"
    OBVIOUS
  <2> HIDE DEF d, dev, N
  <2>3. \A i \in 1 .. Len(dev) : i = 1
    BY <2>2
  <2>4. IsPrefix(dev, d)
    BY <1>1, <2>1, <2>2, <2>3, PrefixIs
  <2> QED BY <2>1, <2>4 DEF d, N, Path
<1>4. S = {D(n.path) : n \in gpu.nodes}
  OBVIOUS
<1>5. IsFiniteSet(S)
  <2>1. IsFiniteSet(N)
    <3> DEFINE P == {Names[i] : i \in DOMAIN Names}
    <3>1. DOMAIN Names = 1 .. Len(Names) /\ Len(Names) \in Nat
      BY NamesAssumption DEF Path
    <3>2. IsFiniteSet(DOMAIN Names)
      BY <3>1, UpToFinite
    <3> QED BY <3>2, ImageFinite DEF ToSet
  <2>2. IsFiniteSet(All)
    <3> HIDE DEF f
    <3> QED BY <2>1, ImageFinite
  <2>3. \A x \in N : D(x) = f[x]
    OBVIOUS
  <2>4. S \in SUBSET All
    <3> HIDE DEF f, D
    <3> QED BY <1>2, <1>4, <2>3
  <2> HIDE DEF S, All
  <2> QED BY <2>2, <2>4, FS_Subset
<1>6. t = [i \in DOMAIN paths |-> Op("dev-bind", paths[i], paths[i])]
  BY DEF NodeOps
<1> HIDE DEF D
<1>7. S \subseteq Path
  BY <1>3, <1>4
<1>8. paths \in Seq(S)
  <2> HIDE DEF S
  <2> QED BY <1>5, <1>7, SortedIs
<1>9. \A i \in DOMAIN paths : paths[i] \in S
  <2> HIDE DEF S, paths
  <2> QED BY <1>8
<1>10. t \in Seq(Operations(Showing))
  BY NodeOpsAre
<1> HIDE DEF t, S, paths, dev
<1>11. PICK i \in 1 .. Len(t) : is_within(p, t[i].dst)
  BY DEF Covered, t
<1>12. i \in DOMAIN paths /\ t[i].dst = paths[i]
  BY <1>6, <1>8, <1>10, <1>11, OpAt
<1>13. paths[i] \in Path /\ is_within(paths[i], dev) /\ is_within(p, paths[i])
  BY <1>3, <1>4, <1>7, <1>9, <1>11, <1>12 DEF is_within
<1>14. dev \in Path
  BY <1>1 DEF Path, N
<1>15. is_within(p, dev)
  BY <1>13, <1>14, WithinTransitive
<1> QED BY <1>14, <1>15 DEF dev

\* The plan up to the masks.
Base(m, gpu) ==
  private_ops(m) \o ReadOnlyOps(Prune(readonly(m, gpu))) \o SymlinkOps(gpu) \o NodeOps(gpu)
    \o <<Op("bind", m.workspace, m.workspace)>>

\* The workspace is seen on top of all else; outside of it and of /dev, what a made link
\* covers is seen through one; and else what lies in reach is as on the host.
LEMMA BaseSeen ==
  ASSUME NEW c, ConfigurationOK(c), NEW gpu, GpuMountsOK(c.host, gpu), NEW p \in Path, NEW m,
         m = compile_policy(c)
  PROVE  /\ Base(m, gpu) \in Seq(Operations(Showing \union {"bind"})) /\ Covered(Base(m, gpu), p)
         /\ is_within(p, c.workspace) =>
              View(c.host, Base(m, gpu), p) = [op |-> "bind", shows |-> realpath(c.host, p)]
         /\ ~is_within(p, c.workspace) /\ ~is_within(p, <<"dev">>) =>
              /\ Covered(SymlinkOps(gpu), p) =>
                   View(c.host, Base(m, gpu), p) = View(c.host, SymlinkOps(gpu), p)
              /\ ~Covered(SymlinkOps(gpu), p) /\ WithinAny(p, Reach(m, gpu)) =>
                   View(c.host, Base(m, gpu), p) = [op |-> "ro-bind", shows |-> realpath(c.host, p)]
<1> DEFINE any == Operations(Showing \union {"bind"})
           host == c.host
           all == readonly(m, gpu)
           a == private_ops(m)
           b == ReadOnlyOps(Prune(all))
           d == SymlinkOps(gpu)
           e == NodeOps(gpu)
           bind == Op("bind", m.workspace, m.workspace)
           f == <<bind>>
           w == c.workspace
<1>1. HostOK(host) /\ GpuPathsOK(gpu) /\ w \in Path /\ m.workspace = w /\ m.home \in Path
  BY ConfigurationIs DEF ConfigurationOK, GpuMountsOK, compile_policy
<1>2. all \in Seq(Entry) /\ (\A x \in ToSet(all) : Faithful(host, x))
      /\ {x.destination : x \in ToSet(all)} = Reach(m, gpu)
  BY ReadOnlyReach
<1> HIDE DEF all, host, w
<1>3. Prune(all) \in Seq(Entry)
  BY <1>2, PruneIs
<1>4. a \in Seq(Operations(Showing)) /\ Covered(a, p)
  BY <1>1, PrivateOpsAre
<1>5. b \in Seq(Operations(Showing)) /\ d \in Seq(Operations(Showing)) /\ e \in Seq(Operations(Showing))
  BY <1>1, <1>3, ReadOnlyOpsAre, SymlinkOpsAre, NodeOpsAre
<1>6. /\ Covered(b, p) <=> WithinAny(p, Reach(m, gpu))
      /\ Covered(b, p) => View(host, b, p) = [op |-> "ro-bind", shows |-> realpath(host, p)]
  BY <1>1, <1>2, ReadOnlySeen
<1>7. Covered(e, p) => is_within(p, <<"dev">>)
  BY <1>1, NodesCover
<1>8. bind \in any /\ bind.op = "bind" /\ bind.src = w /\ bind.dst = w
  BY <1>1, OpIs DEF Op
<1>9. Operations(Showing) \subseteq any
  BY DEF Operations
<1>10. Base(m, gpu) = a \o b \o d \o e \o f
  BY DEF Base, all
<1> HIDE DEF a, b, d, e, bind, any
<1>11. f \in Seq(any) /\ Len(f) = 1 /\ f[1] = bind
  BY <1>8
<1> HIDE DEF f
<1>12. /\ a \in Seq(any) /\ b \in Seq(any) /\ d \in Seq(any) /\ e \in Seq(any)
  BY <1>4, <1>5, <1>9, SeqWiden
<1>13. Covered(f, p) <=> is_within(p, w)
  <2>1. \A i : i \in 1 .. Len(f) <=> i = 1
    BY <1>11
  <2> QED BY <1>8, <1>11, <2>1 DEF Covered
<1>14. ASSUME is_within(p, w) PROVE View(host, f, p) = [op |-> "bind", shows |-> realpath(host, p)]
  <2>1. LastCover(f, p, 1)
    <3>1. 1 \in 1 .. Len(f) /\ ~\E j \in (1 + 1) .. Len(f) : TRUE
      BY <1>11
    <3> QED BY <1>8, <1>11, <1>14, <3>1 DEF LastCover
  <2>2. View(host, f, p) = Shown(host, bind, p)
    BY <1>11, <2>1, ViewIs
  <2>3. bind.src \o SubSeq(p, Len(bind.dst) + 1, Len(p)) = p
    BY <1>1, <1>8, <1>14, BelowJoined
  <2> QED BY <1>8, <2>2, <2>3 DEF Shown
<1> DEFINE b1 == a \o b
           b2 == b1 \o d
           b3 == b2 \o e
           b4 == b3 \o f
<1>15. /\ b1 \in Seq(any) /\ Covered(b1, p)
       /\ Covered(b, p) => View(host, b1, p) = View(host, b, p)
  BY <1>4, <1>12, ConcatProperties, ViewJoined
<1>16. b4 = a \o b \o d \o e \o f
  OBVIOUS
<1> HIDE DEF b1
<1>17. /\ b2 \in Seq(any) /\ Covered(b2, p)
       /\ Covered(d, p) => View(host, b2, p) = View(host, d, p)
       /\ ~Covered(d, p) => View(host, b2, p) = View(host, b1, p)
  BY <1>12, <1>15, ConcatProperties, ViewJoined
<1> HIDE DEF b2
<1>18. /\ b3 \in Seq(any) /\ Covered(b3, p)
       /\ ~Covered(e, p) => View(host, b3, p) = View(host, b2, p)
  BY <1>12, <1>17, ConcatProperties, ViewJoined
<1> HIDE DEF b3
<1>19. /\ b4 \in Seq(any) /\ Covered(b4, p)
       /\ Covered(f, p) => View(host, b4, p) = View(host, f, p)
       /\ ~Covered(f, p) => View(host, b4, p) = View(host, b3, p)
  BY <1>11, <1>18, ConcatProperties, ViewJoined
<1> HIDE DEF b4
<1>20. Base(m, gpu) = b4
  BY <1>10, <1>16
<1>21. ASSUME ~is_within(p, w), ~is_within(p, <<"dev">>)
       PROVE  /\ Covered(d, p) => View(host, b4, p) = View(host, d, p)
              /\ ~Covered(d, p) /\ WithinAny(p, Reach(m, gpu)) =>
                   View(host, b4, p) = [op |-> "ro-bind", shows |-> realpath(host, p)]
  <2>1. View(host, b4, p) = View(host, b2, p)
    BY <1>7, <1>13, <1>18, <1>19, <1>21
  <2> QED BY <1>6, <1>15, <1>17, <2>1
<1>22. is_within(p, w) => View(host, b4, p) = [op |-> "bind", shows |-> realpath(host, p)]
  BY <1>13, <1>14, <1>19
<1> QED BY <1>19, <1>20, <1>21, <1>22 DEF any, host, w, d

\* The masks on top of it.
LEMMA PlanSeen ==
  ASSUME NEW c, ConfigurationOK(c), NEW gpu, GpuMountsOK(c.host, gpu), NEW m, m = compile_policy(c)
  PROVE  /\ emit_bwrap(m, gpu) = Base(m, gpu) \o MaskOps(m.masks)
         /\ Base(m, gpu) \in Seq(Operations(AnyKind)) /\ MaskOps(m.masks) \in Seq(Operations(AnyKind))
         /\ m.masks \in Seq(raw_masks(c)) /\ Apart(m.masks)
         /\ Len(MaskOps(m.masks)) = Len(m.masks)
         /\ \A i \in 1 .. Len(m.masks) :
              MaskOps(m.masks)[i] = Op(IF Hides(m.masks[i]) THEN "empty" ELSE "unreadable", <<>>, m.masks[i].path)
         /\ \A p \in Path :
              /\ WithinAny(p, {x.path : x \in raw_masks(c)}) =>
                   View(c.host, emit_bwrap(m, gpu), p).op \in Masking
                   /\ View(c.host, emit_bwrap(m, gpu), p).shows = <<>>
              /\ ~WithinAny(p, {x.path : x \in raw_masks(c)}) =>
                   View(c.host, emit_bwrap(m, gpu), p) = View(c.host, Base(m, gpu), p)
<1> DEFINE base == Base(m, gpu)
           masks == m.masks
           g == MaskOps(masks)
           any == Operations(AnyKind)
<1>1. emit_bwrap(m, gpu) = base \o g
  BY DEF emit_bwrap, Plan, Base
<1>2. masks = collapse_masks(raw_masks(c))
  BY DEF compile_policy
<1>3. base \in Seq(any) /\ \A p \in Path : Covered(base, p)
  <2>1. <<>> \in Path
    BY RootIs
  <2>2. \A p \in Path : base \in Seq(Operations(Showing \union {"bind"})) /\ Covered(base, p)
    BY BaseSeen
  <2>3. Operations(Showing \union {"bind"}) \subseteq any
    BY DEF Operations, AnyKind
  <2> HIDE DEF base, any
  <2> QED BY <2>1, <2>2, <2>3, SeqWiden
<1>4. masks \in Seq(raw_masks(c)) /\ Apart(masks) /\ (\A x \in raw_masks(c) : x.path \in Path)
      /\ \A p \in Path : WithinAny(p, {x.path : x \in raw_masks(c)}) <=>
           \E i \in 1 .. Len(masks) : is_within(p, masks[i].path)
  BY <1>2, RawMasksAre, CollapseIs, CollapsedApart
<1> HIDE DEF base, masks
<1>5. /\ g \in Seq(Operations(Masking)) /\ Len(g) = Len(masks)
      /\ \A i \in 1 .. Len(masks) : g[i].dst = masks[i].path
  BY <1>4, MaskOpsAre
<1>6. \A i \in 1 .. Len(masks) :
        g[i] = Op(IF Hides(masks[i]) THEN "empty" ELSE "unreadable", <<>>, masks[i].path)
  <2>1. DOMAIN masks = 1 .. Len(masks)
    BY <1>4
  <2> QED BY <2>1 DEF MaskOps
<1>7. g \in Seq(any)
  <2>1. Operations(Masking) \subseteq any
    BY DEF Operations, AnyKind
  <2> QED BY <1>5, <2>1, SeqWiden
<1> HIDE DEF any, g
<1>8. ASSUME NEW p \in Path
      PROVE  /\ Covered(g, p) <=> WithinAny(p, {x.path : x \in raw_masks(c)})
             /\ Covered(g, p) => /\ View(c.host, base \o g, p).op \in Masking
                                 /\ View(c.host, base \o g, p).shows = <<>>
             /\ ~Covered(g, p) => View(c.host, base \o g, p) = View(c.host, base, p)
  <2>1. Covered(g, p) <=> WithinAny(p, {x.path : x \in raw_masks(c)})
    BY <1>4, <1>5 DEF Covered
  <2>2. ASSUME Covered(g, p)
        PROVE  View(c.host, g, p).op \in Masking /\ View(c.host, g, p).shows = <<>>
    <3>1. PICK i \in 1 .. Len(g) : View(c.host, g, p) = Shown(c.host, g[i], p)
      BY <1>7, <2>2, SeenThroughOne
    <3>2. g[i].op \in Masking
      <4>1. g[i] \in Operations(Masking)
        BY <1>5, <3>1, ElementOfSeq
      <4> QED BY <4>1 DEF Operations
    <3>3. g[i].op \notin {"bind", "ro-bind"} /\ g[i].op # "symlink"
      BY <3>2 DEF Masking
    <3>4. Shown(c.host, g[i], p) = [op |-> g[i].op, shows |-> <<>>]
      BY <3>3 DEF Shown
    <3> QED BY <3>1, <3>2, <3>4
  <2> QED BY <1>3, <1>7, <2>1, <2>2, ViewJoined
<1> QED BY <1>1, <1>3, <1>4, <1>5, <1>6, <1>7, <1>8 DEF base, masks, g, any

----------------------------------------------------------------------------
(* What is masked *)

\* An element of two lists one after the other, and what is before it.
InFirst(a, b, i) ==
  /\ i \in 1 .. Len(a) /\ (a \o b)[i] = a[i]
  /\ SubSeq(a \o b, 1, i - 1) = SubSeq(a, 1, i - 1)
InSecond(a, b, i, k) ==
  /\ i = Len(a) + k /\ (a \o b)[i] = b[k]
  /\ SubSeq(a \o b, 1, i - 1) = a \o SubSeq(b, 1, k - 1)

LEMMA JoinedPlaces ==
  ASSUME NEW T, NEW a \in Seq(T), NEW b \in Seq(T), NEW i \in 1 .. Len(a \o b)
  PROVE  InFirst(a, b, i) \/ \E k \in 1 .. Len(b) : InSecond(a, b, i, k)
<1> DEFINE c == a \o b
           m == Len(a)
           n == Len(b)
           s == SubSeq(c, 1, i - 1)
<1>1. m \in Nat /\ n \in Nat
  OBVIOUS
<1>2. /\ c \in Seq(T) /\ Len(c) = m + n
      /\ \A h \in 1 .. m + n : c[h] = IF h <= m THEN a[h] ELSE b[h - m]
  BY ConcatProperties
<1>3. i \in 1 .. m + n /\ i - 1 \in 0 .. Len(c)
  BY <1>1, <1>2
<1> HIDE DEF c, m, n
<1>4. s \in Seq(T) /\ Len(s) = i - 1 /\ \A h \in 1 .. i - 1 : s[h] = c[h]
  BY <1>2, <1>3, BeginningIs
<1>5. \A h \in 1 .. i - 1 : h \in 1 .. m + n
  BY <1>1, <1>3
<1>6. CASE i <= m
  <2> DEFINE t == SubSeq(a, 1, i - 1)
  <2>1. i \in 1 .. m /\ i - 1 \in 0 .. Len(a)
    BY <1>1, <1>3, <1>6 DEF m
  <2>2. t \in Seq(T) /\ Len(t) = i - 1 /\ \A h \in 1 .. i - 1 : t[h] = a[h]
    BY <2>1, BeginningIs
  <2>3. \A h \in 1 .. i - 1 : c[h] = a[h]
    BY <1>1, <1>2, <1>3, <1>5, <1>6
  <2> HIDE DEF s, t
  <2>4. s = t
    BY <1>4, <2>2, <2>3, SeqEqual
  <2>5. c[i] = a[i]
    BY <1>2, <1>3, <1>6
  <2> QED BY <2>1, <2>4, <2>5 DEF s, t, c, m, InFirst
<1>7. CASE ~(i <= m)
  <2> DEFINE k == i - m
             t == SubSeq(b, 1, k - 1)
             u == a \o t
  <2>1. k \in 1 .. n /\ k - 1 \in 0 .. n /\ i = m + k
    BY <1>1, <1>3, <1>7
  <2>2. c[i] = b[k]
    BY <1>2, <1>3, <1>7
  <2> HIDE DEF k
  <2>3. t \in Seq(T) /\ Len(t) = k - 1 /\ \A h \in 1 .. k - 1 : t[h] = b[h]
    BY <2>1, BeginningIs DEF n
  <2> HIDE DEF t
  <2>4. /\ u \in Seq(T) /\ Len(u) = m + (k - 1)
        /\ \A h \in 1 .. m + (k - 1) : u[h] = IF h <= m THEN a[h] ELSE t[h - m]
    BY <2>3, ConcatProperties DEF m
  <2> HIDE DEF u
  <2>5. ASSUME NEW h \in 1 .. i - 1 PROVE s[h] = u[h]
    <3>1. h \in 1 .. m + (k - 1) /\ h \in 1 .. m + n
      BY <1>1, <1>5, <2>1
    <3>2. CASE h <= m
      BY <1>2, <1>4, <2>4, <3>1, <3>2
    <3>3. CASE ~(h <= m)
      <4>1. h - m \in 1 .. k - 1
        BY <1>1, <2>1, <3>1, <3>3
      <4>2. u[h] = t[h - m] /\ c[h] = b[h - m]
        BY <1>2, <2>4, <3>1, <3>3
      <4>3. t[h - m] = b[h - m]
        BY <2>3, <4>1
      <4> QED BY <1>4, <4>2, <4>3
    <3> QED BY <3>2, <3>3
  <2>6. Len(u) = i - 1
    BY <1>1, <2>1, <2>4
  <2> HIDE DEF s
  <2>7. s = u
    BY <1>4, <2>4, <2>5, <2>6, SeqEqual
  <2> QED BY <2>1, <2>2, <2>7 DEF c, m, n, s, t, u, InSecond
<1> QED BY <1>6, <1>7

\* A trusted project is a directory of the host, outside of the sandbox's own.
LEMMA ProjectIs ==
  ASSUME NEW c, ConfigurationOK(c), NEW r \in collect_trusted_projects(c)
  PROVE  /\ r \in Path /\ Canonical(c.host, r) /\ r \in DOMAIN c.host.kind
         /\ KindAt(c.host, r) = "directory" /\ ~conflicts_private_mount(r)
<1>1. PICK l \in c.trusted : isdir(c.host, l) /\ r = realpath(c.host, l)
  BY DEF collect_trusted_projects
<1>2. HostOK(c.host) /\ l \in Path
  BY ConfigurationIs DEF ConfigurationOK
<1>3. KindAt(c.host, r) = "directory"
  BY <1>1 DEF isdir
<1>4. ~conflicts_private_mount(r)
  BY DEF collect_trusted_projects
<1> QED BY <1>1, <1>2, <1>3, <1>4, RealpathCanonical DEF KindAt

\* The metadata of a canonical directory.
LEMMA MetadataAt ==
  ASSUME NEW host, HostOK(host), NEW r \in Path, Canonical(host, r), KindAt(host, r) = "directory",
         NEW p \in metadata(r)
  PROVE  /\ p \in Path /\ is_within(p, r) /\ lstat(host, p) = KindAt(host, p)
         /\ KindAt(host, p) # "link" => Canonical(host, p)
         /\ \A q \in Path : is_within(p, q) /\ q # p => KindAt(host, q) = "directory"
<1>1. PICK name \in PROTECTED_METADATA : p = Append(r, name)
  BY DEF metadata
<1>2. name \in ToSet(Names)
  BY NamesAssumption
<1>3. p \in Path
  BY <1>1, <1>2, FrontOfAppended
<1>4. lstat(host, p) = KindAt(host, p)
  BY <1>1, <1>2, LstatIs
<1>5. KindAt(host, p) # "link" => Canonical(host, p)
  <2>1. p \in DOMAIN host.link => KindAt(host, p) = "link"
    BY HostLinks
  <2> QED BY <1>1, <1>2, <2>1, CanonicalAppended
<1>6. ASSUME NEW q \in Path, is_within(p, q), q # p PROVE KindAt(host, q) = "directory"
  <2>1. is_within(r, q)
    BY <1>1, <1>2, <1>6, WithinAppended
  <2>2. r \in DOMAIN host.kind
    BY DEF KindAt
  <2> QED BY <2>1, <2>2, AboveEntry
<1>7. is_within(p, r)
  BY <1>1, <1>2, WithinAppended, WithinSelf
<1> QED BY <1>3, <1>4, <1>5, <1>6, <1>7

\* What a mask is recorded for, when the compilation does not fail.
LEMMA MaskIs ==
  ASSUME NEW c, ConfigurationOK(c), ~policy_fails(c), NEW x \in raw_masks(c)
  PROVE  /\ x.path \in Path /\ Canonical(c.host, x.path)
         /\ ~Hides(x) => KindAt(c.host, x.path) = "file"
         /\ \A q \in Path : is_within(x.path, q) /\ q # x.path => KindAt(c.host, q) = "directory"
         /\ is_within(x.path, c.workspace) \/ WithinAny(x.path, collect_trusted_projects(c))
<1> DEFINE host == c.host
           w == c.workspace
<1>1. HostOK(host) /\ w \in Path /\ Canonical(host, w)
  BY DEF ConfigurationOK
<1>2. x.kind \in {"directory", "missing-directory", "file"}
  BY DEF policy_fails
<1>3. KindAt(host, w) = "directory"
  <2>1. isdir(host, w)
    BY DEF policy_fails
  <2> QED BY <1>1, <2>1, CanonicalStays DEF isdir
<1>4. CASE x \in workspace_masks(c)
  <2>1. /\ x.path \in metadata(w)
        /\ x.kind = IF lstat(host, x.path) = "absent" THEN "missing-directory" ELSE lstat(host, x.path)
    BY <1>4 DEF workspace_masks
  <2>2. /\ x.path \in Path /\ is_within(x.path, w) /\ lstat(host, x.path) = KindAt(host, x.path)
        /\ KindAt(host, x.path) # "link" => Canonical(host, x.path)
        /\ \A q \in Path : is_within(x.path, q) /\ q # x.path => KindAt(host, q) = "directory"
    BY <1>1, <1>3, <2>1, MetadataAt
  <2>3. KindAt(host, x.path) # "link" /\ (~Hides(x) => KindAt(host, x.path) = "file")
    BY <1>2, <2>1, <2>2 DEF Hides
  <2> QED BY <2>2, <2>3
<1>5. CASE x \in trusted_masks(c)
  <2>1. PICK r \in collect_trusted_projects(c) :
          x.path \in {y \in metadata(r) : lstat(host, y) # "absent"} \union deny_matches(c, r)
    BY <1>5 DEF trusted_masks
  <2>2. x.kind = lstat(host, x.path)
    BY <1>5 DEF trusted_masks
  <2>3. r \in Path /\ Canonical(host, r) /\ r \in DOMAIN host.kind /\ KindAt(host, r) = "directory"
    BY ProjectIs
  <2>4. CASE x.path \in metadata(r)
    <3>1. /\ x.path \in Path /\ is_within(x.path, r) /\ lstat(host, x.path) = KindAt(host, x.path)
          /\ KindAt(host, x.path) # "link" => Canonical(host, x.path)
          /\ \A q \in Path : is_within(x.path, q) /\ q # x.path => KindAt(host, q) = "directory"
      BY <1>1, <2>3, <2>4, MetadataAt
    <3>2. KindAt(host, x.path) # "link" /\ (~Hides(x) => KindAt(host, x.path) = "file")
      BY <1>2, <2>2, <3>1 DEF Hides
    <3> QED BY <3>1, <3>2 DEF WithinAny
  <2>5. CASE x.path \in deny_matches(c, r)
    <3>1. x.path \in DOMAIN host.kind /\ is_within(x.path, r) /\ KindAt(host, x.path) = "file"
      BY <2>5 DEF deny_matches, run_rg, KindAt
    <3>2. x.path \in Path /\ Canonical(host, x.path)
      BY <1>1, <3>1, EntryCanonical
    <3> QED BY <1>1, <3>1, <3>2, AboveEntry DEF WithinAny
  <2> QED BY <2>1, <2>4, <2>5
<1> QED BY <1>4, <1>5 DEF raw_masks

\* A made link does not cover a canonical path.
LEMMA CanonicalUnlinked ==
  ASSUME NEW host, HostOK(host), NEW gpu, GpuMountsOK(host, gpu), NEW p \in Path, Canonical(host, p)
  PROVE  ~Covered(SymlinkOps(gpu), p)
<1> SUFFICES ASSUME Covered(SymlinkOps(gpu), p) PROVE FALSE
  OBVIOUS
<1>1. GpuPathsOK(gpu)
  BY DEF GpuMountsOK
<1>2. PICK i \in DOMAIN gpu.symlinks : is_within(p, gpu.symlinks[i].path)
  BY <1>1, SymlinksCover DEF ToSet
<1>3. gpu.symlinks[i] \in [path : Path, target : Path] /\ gpu.symlinks[i] \in ToSet(gpu.symlinks)
  <2> DEFINE s == gpu.symlinks
             L == [path : Path, target : Path]
  <2>1. s \in Seq(L) /\ i \in DOMAIN s
    BY <1>1 DEF GpuPathsOK
  <2> HIDE DEF s, L
  <2>2. s[i] \in L /\ s[i] \in ToSet(s)
    BY <2>1 DEF ToSet
  <2> QED BY <2>2 DEF s, L
<1> DEFINE l == gpu.symlinks[i]
<1>4. l.path \in Path /\ l.target = realpath(host, l.path) /\ l.target # l.path /\ is_within(p, l.path)
  BY <1>2, <1>3 DEF GpuMountsOK
<1> HIDE DEF l
<1>5. Canonical(host, l.path)
  BY <1>4, CanonicalAbove
<1> QED BY <1>4, <1>5, CanonicalStays

\* Of a trusted project it is the host's tree that is seen, but for the masks.
LEMMA ProjectSeen ==
  ASSUME NEW c, ConfigurationOK(c), NEW gpu, GpuMountsOK(c.host, gpu), NEW p \in Path,
         Canonical(c.host, p), ~is_within(p, c.workspace), WithinAny(p, collect_trusted_projects(c))
  PROVE  View(c.host, Base(compile_policy(c), gpu), p) = [op |-> "ro-bind", shows |-> p]
<1> DEFINE m == compile_policy(c)
<1>1. PICK r \in collect_trusted_projects(c) : is_within(p, r)
  BY DEF WithinAny
<1>2. HostOK(c.host) /\ r \in Path /\ ~conflicts_private_mount(r)
  BY ProjectIs DEF ConfigurationOK
<1>3. ~is_within(p, <<"dev">>)
  <2>1. <<"dev">> \in Path
    <3> DEFINE N == ToSet(Names)
    <3>1. <<"dev", "dri", "kfd">> \in Seq(N)
      BY NamesAssumption DEF Path
    <3> HIDE DEF N
    <3>2. <<"dev">> \in Seq(N)
      BY <3>1
    <3> QED BY <3>2 DEF Path, N
  <2>2. ~overlaps(r, <<"dev">>)
    BY <1>2 DEF conflicts_private_mount, PRIVATE_MOUNT_ROOTS
  <2> QED BY <1>1, <1>2, <2>1, <2>2, Comparable DEF overlaps
<1>4. WithinAny(p, Reach(m, gpu))
  <2>1. m.trusted_projects = Sorted(collect_trusted_projects(c))
    BY DEF compile_policy
  <2>2. ToSet(m.trusted_projects) = collect_trusted_projects(c)
    BY <2>1, ProjectsAre, SortedIs
  <2> HIDE DEF m
  <2> QED BY <1>1, <2>2 DEF WithinAny, Reach, covered
<1>5. ~Covered(SymlinkOps(gpu), p)
  BY <1>2, CanonicalUnlinked
<1>6. realpath(c.host, p) = p
  BY <1>2, CanonicalStays
<1> HIDE DEF m
<1>7. View(c.host, Base(m, gpu), p) = [op |-> "ro-bind", shows |-> realpath(c.host, p)]
  BY <1>3, <1>4, <1>5, BaseSeen DEF m
<1> QED BY <1>6, <1>7 DEF m

\* The operation at a place of the plan makes one of the masks, after those before it.
MaskPlace(m, gpu, i, k) ==
  LET plan == emit_bwrap(m, gpu)
  IN /\ i = Len(Base(m, gpu)) + k
     /\ SubSeq(plan, 1, i - 1) = Base(m, gpu) \o SubSeq(MaskOps(m.masks), 1, k - 1)
     /\ plan[i].dst = m.masks[k].path /\ (plan[i].op = "empty" <=> Hides(m.masks[k]))

LEMMA MaskPlaces ==
  ASSUME NEW c, ConfigurationOK(c), NEW gpu, GpuMountsOK(c.host, gpu), NEW m, m = compile_policy(c),
         NEW i \in DOMAIN emit_bwrap(m, gpu), emit_bwrap(m, gpu)[i].op \in Masking
  PROVE  \E k \in 1 .. Len(m.masks) : MaskPlace(m, gpu, i, k)
<1> DEFINE base == Base(m, gpu)
           masks == m.masks
           g == MaskOps(masks)
           any == Operations(AnyKind)
           plan == emit_bwrap(m, gpu)
           x == base \o g
<1>1. /\ plan = base \o g /\ base \in Seq(any) /\ g \in Seq(any) /\ Len(g) = Len(masks)
      /\ \A k \in 1 .. Len(masks) :
           g[k] = Op(IF Hides(masks[k]) THEN "empty" ELSE "unreadable", <<>>, masks[k].path)
  BY PlanSeen
<1>2. base \in Seq(Operations(Showing \union {"bind"}))
  BY RootIs, BaseSeen
<1> HIDE DEF base, masks, g, any, plan
<1>3. x \in Seq(any) /\ x = plan
  BY <1>1, ConcatProperties
<1>4. \/ i \in 1 .. Len(base) /\ x[i] = base[i]
      \/ \E k \in 1 .. Len(g) : /\ i = Len(base) + k /\ x[i] = g[k]
                                /\ SubSeq(x, 1, i - 1) = base \o SubSeq(g, 1, k - 1)
  <2>1. i \in 1 .. Len(x)
    <3> HIDE DEF x
    <3> QED BY <1>3 DEF plan
  <2>2. InFirst(base, g, i) \/ \E k \in 1 .. Len(g) : InSecond(base, g, i, k)
    BY <1>1, <2>1, JoinedPlaces
  <2> QED BY <2>2 DEF InFirst, InSecond
<1> HIDE DEF x
<1>5. x[i].op \in Masking
  BY <1>3 DEF plan
<1>6. CASE i \in 1 .. Len(base) /\ x[i] = base[i]
  <2>1. x[i].op \in Showing \union {"bind"}
    <3>1. base[i] \in Operations(Showing \union {"bind"})
      BY <1>2, <1>6, ElementOfSeq
    <3> QED BY <1>6, <3>1 DEF Operations
  <2> QED BY <1>5, <2>1 DEF Masking, Showing
<1>7. ASSUME NEW k \in 1 .. Len(g), i = Len(base) + k, x[i] = g[k],
             SubSeq(x, 1, i - 1) = base \o SubSeq(g, 1, k - 1)
      PROVE  \E h \in 1 .. Len(masks) : MaskPlace(m, gpu, i, h)
  <2>1. k \in 1 .. Len(masks)
    BY <1>1
  <2>2. x[i] = Op(IF Hides(masks[k]) THEN "empty" ELSE "unreadable", <<>>, masks[k].path)
    BY <1>1, <1>7, <2>1
  <2>3. x[i].dst = masks[k].path /\ (x[i].op = "empty" <=> Hides(masks[k]))
    BY <2>2 DEF Op
  <2>4. MaskPlace(m, gpu, i, k)
    BY <1>3, <1>7, <2>3 DEF MaskPlace, plan, base, masks, g
  <2> QED BY <2>1, <2>4
<1> QED BY <1>4, <1>6, <1>7 DEF masks

\* What hides a directory comes after what lies below, and each mask finds what it was
\* recorded for.
LEMMA MasksInOrder ==
  ASSUME NEW c, ConfigurationOK(c), ~policy_fails(c), NEW gpu, GpuMountsOK(c.host, gpu),
         NEW m, m = compile_policy(c),
         NEW i \in DOMAIN emit_bwrap(m, gpu), emit_bwrap(m, gpu)[i].op \in Masking
  PROVE  LET plan == emit_bwrap(m, gpu)
         IN /\ \A j \in DOMAIN plan :
                 j < i /\ plan[j].op = "empty" => ~is_within(plan[i].dst, plan[j].dst)
            /\ View(c.host, SubSeq(plan, 1, i - 1), plan[i].dst).shows = plan[i].dst
<1> DEFINE plan == emit_bwrap(m, gpu)
           base == Base(m, gpu)
           masks == m.masks
           g == MaskOps(masks)
           any == Operations(AnyKind)
           host == c.host
<1>1. /\ base \in Seq(any) /\ g \in Seq(any) /\ Len(g) = Len(masks) /\ Apart(masks)
      /\ masks \in Seq(raw_masks(c))
      /\ \A k \in 1 .. Len(masks) :
           g[k] = Op(IF Hides(masks[k]) THEN "empty" ELSE "unreadable", <<>>, masks[k].path)
  BY PlanSeen
<1> HIDE DEF plan
<1>2. PICK k \in 1 .. Len(masks) :
        /\ i = Len(base) + k /\ SubSeq(plan, 1, i - 1) = base \o SubSeq(g, 1, k - 1)
        /\ plan[i].dst = masks[k].path
  <2>1. PICK k \in 1 .. Len(m.masks) : MaskPlace(m, gpu, i, k)
    BY MaskPlaces
  <2> QED BY <2>1 DEF MaskPlace, plan
<1>3. ASSUME NEW h \in 1 .. Len(masks)
      PROVE  /\ masks[h] \in raw_masks(c) /\ masks[h].path \in Path /\ Canonical(host, masks[h].path)
             /\ ~Hides(masks[h]) => KindAt(host, masks[h].path) = "file"
             /\ \A q \in Path : is_within(masks[h].path, q) /\ q # masks[h].path => KindAt(host, q) = "directory"
             /\ \/ is_within(masks[h].path, c.workspace)
                \/ WithinAny(masks[h].path, collect_trusted_projects(c))
  <2>1. masks[h] \in raw_masks(c)
    BY <1>1, ElementOfSeq
  <2> QED BY <2>1, MaskIs
<1> DEFINE p == masks[k].path
           before == SubSeq(g, 1, k - 1)
<1>4. HostOK(host)
  BY DEF ConfigurationOK
<1>5. Len(base) \in Nat /\ Len(masks) \in Nat
  BY <1>1
<1>6. ASSUME NEW j \in DOMAIN plan, j < i, plan[j].op = "empty" PROVE ~is_within(p, plan[j].dst)
  <2>1. plan[j].op \in Masking
    BY <1>6 DEF Masking
  <2>2. PICK h \in 1 .. Len(masks) :
          j = Len(base) + h /\ plan[j].dst = masks[h].path /\ (plan[j].op = "empty" <=> Hides(masks[h]))
    <3>1. PICK h \in 1 .. Len(m.masks) : MaskPlace(m, gpu, j, h)
      BY <1>6, <2>1, MaskPlaces DEF plan
    <3> QED BY <3>1 DEF MaskPlace, plan
  <2>3. h < k
    BY <1>2, <1>5, <1>6, <2>2
  <2> QED BY <1>1, <1>6, <2>2, <2>3 DEF Apart
<1> HIDE DEF base, masks, g, any, host
<1>7. before \in Seq(any) /\ Len(before) = k - 1 /\ \A h \in 1 .. k - 1 : before[h] = g[h]
  <2>1. k - 1 \in 0 .. Len(g)
    BY <1>1, <1>5
  <2> QED BY <1>1, <2>1, BeginningIs
<1>8. ~Covered(before, p)
  <2> SUFFICES ASSUME NEW h \in 1 .. k - 1, is_within(p, before[h].dst) PROVE FALSE
    BY <1>7 DEF Covered
  <2>1. h \in 1 .. Len(masks) /\ h < k
    BY <1>5
  <2>2. before[h].dst = masks[h].path
    BY <1>1, <1>7, <2>1, OpAt
  <2>3. p # masks[h].path /\ ~Hides(masks[h])
    BY <1>1, <2>1, <2>2 DEF Apart
  <2>4. KindAt(host, masks[h].path) = "file" /\ KindAt(host, masks[h].path) = "directory"
    BY <1>3, <2>1, <2>2, <2>3
  <2> QED BY <2>4
<1>9. p \in Path /\ Canonical(host, p) /\ realpath(host, p) = p
  BY <1>3, <1>4, CanonicalStays
<1>10. View(host, base, p).shows = p /\ Covered(base, p)
  <2>1. Covered(base, p)
    BY <1>9, BaseSeen DEF base
  <2>2. CASE is_within(p, c.workspace)
    <3>1. View(host, base, p) = [op |-> "bind", shows |-> realpath(host, p)]
      BY <1>9, <2>2, BaseSeen DEF base, host
    <3> QED BY <1>9, <2>1, <3>1
  <2>3. CASE ~is_within(p, c.workspace)
    <3>1. WithinAny(p, collect_trusted_projects(c))
      BY <1>3, <2>3
    <3>2. View(host, base, p) = [op |-> "ro-bind", shows |-> p]
      BY <1>9, <2>3, <3>1, ProjectSeen DEF base, host
    <3> QED BY <2>1, <3>2
  <2> QED BY <2>2, <2>3
<1> HIDE DEF before
<1>11. View(host, base \o before, p) = View(host, base, p)
  BY <1>1, <1>7, <1>8, <1>10, ViewJoined
<1> HIDE DEF p
<1>12. View(host, SubSeq(plan, 1, i - 1), p).shows = p
  BY <1>2, <1>10, <1>11 DEF before
<1> QED BY <1>2, <1>6, <1>12 DEF p, host, plan

\* A file of a trusted project can be read just when it is neither reserved nor denied.
LEMMA ProjectFiles ==
  ASSUME NEW c, ConfigurationOK(c), ~policy_fails(c), NEW gpu, GpuMountsOK(c.host, gpu),
         NEW f \in DOMAIN c.host.kind, c.host.kind[f] = "file",
         WithinAny(f, collect_trusted_projects(c)), ~is_within(f, c.workspace), NEW reserved,
         reserved = UNION {metadata(r) : r \in collect_trusted_projects(c) \union {c.workspace}}
  PROVE  View(c.host, emit_bwrap(compile_policy(c), gpu), f).shows = f <=>
           ~WithinAny(f, reserved) /\ (Last(f) \in c.deny => WithinAny(f, allow_paths(c)))
<1> DEFINE host == c.host
           w == c.workspace
           plan == emit_bwrap(compile_policy(c), gpu)
           projects == collect_trusted_projects(c)
           excepted == allow_paths(c)
           masked == WithinAny(f, {x.path : x \in raw_masks(c)})
<1>1. /\ HostOK(host) /\ KindAt(host, f) = "file" /\ w \in Path /\ Canonical(host, w)
      /\ IsFiniteSet(projects)
  BY ProjectsAre DEF ConfigurationOK, KindAt
<1>2. f \in Path /\ Canonical(host, f) /\ f # <<>>
  BY <1>1, EntryCanonical DEF HostOK
<1>3. View(host, plan, f).shows = f <=> ~masked
  <2>1. masked => View(host, plan, f).shows = <<>>
    BY <1>2, PlanSeen
  <2>2. ~masked => View(host, plan, f) = View(host, Base(compile_policy(c), gpu), f)
    BY <1>2, PlanSeen
  <2>3. View(host, Base(compile_policy(c), gpu), f) = [op |-> "ro-bind", shows |-> f]
    BY <1>2, ProjectSeen
  <2> HIDE DEF plan, masked
  <2> QED BY <1>2, <2>1, <2>2, <2>3
<1> HIDE DEF plan
<1>4. ASSUME WithinAny(f, reserved) PROVE masked
  <2>1. PICK r \in projects \union {w} : \E y \in metadata(r) : is_within(f, y)
    BY <1>4 DEF WithinAny
  <2>2. PICK y \in metadata(r) : is_within(f, y)
    BY <2>1
  <2>3. KindAt(host, w) = "directory"
    <3>1. isdir(host, w)
      BY DEF policy_fails
    <3> QED BY <1>1, <3>1, CanonicalStays DEF isdir
  <2>4. r \in Path /\ Canonical(host, r) /\ KindAt(host, r) = "directory"
    BY <1>1, <2>3, ProjectIs
  <2>5. y \in Path /\ is_within(y, r) /\ lstat(host, y) = KindAt(host, y)
    BY <1>1, <2>4, MetadataAt
  <2>6. r \in projects
    <3>1. is_within(f, r)
      BY <1>2, <2>2, <2>4, <2>5, WithinTransitive
    <3> QED BY <3>1
  <2>7. lstat(host, y) # "absent"
    <3>1. y = f \/ KindAt(host, y) = "directory"
      BY <1>1, <2>2, <2>5, AboveEntry
    <3> QED BY <1>1, <2>5, <3>1
  <2>8. [path |-> y, kind |-> lstat(host, y)] \in raw_masks(c)
    BY <2>6, <2>7 DEF raw_masks, trusted_masks
  <2> QED BY <2>2, <2>8 DEF WithinAny
<1>5. ASSUME Last(f) \in c.deny, ~WithinAny(f, excepted) PROVE masked
  <2>1. PICK r \in projects : is_within(f, r)
    BY DEF WithinAny
  <2>2. ~WithinAny(r, excepted)
    <3> SUFFICES ASSUME NEW x \in excepted, is_within(r, x) PROVE FALSE
      BY DEF WithinAny
    <3>1. r \in Path
      BY ProjectIs
    <3>2. IsPrefix(x, r) /\ IsPrefix(r, f)
      BY <2>1 DEF is_within
    <3>3. is_within(f, x)
      <4>1. x \in Path
        <5>1. \A y \in c.allow : realpath(host, y) \in Path
          BY <1>1, RealpathCanonical DEF ConfigurationOK
        <5> QED BY <5>1 DEF allow_paths
      <4> QED BY <1>2, <2>1, <3>1, <4>1, WithinTransitive
    <3> QED BY <1>5, <3>3 DEF WithinAny
  <2>3. f \in deny_matches(c, r)
    BY <1>5, <2>1, <2>2 DEF deny_matches, run_rg
  <2>4. [path |-> f, kind |-> lstat(host, f)] \in raw_masks(c)
    BY <2>3 DEF raw_masks, trusted_masks
  <2> QED BY <1>2, <2>4, WithinSelf DEF WithinAny
<1>6. ASSUME masked, ~WithinAny(f, reserved) PROVE Last(f) \in c.deny /\ ~WithinAny(f, excepted)
  <2>1. PICK x \in raw_masks(c) : is_within(f, x.path)
    BY <1>6 DEF WithinAny
  <2>2. x.path \notin reserved
    BY <1>6, <2>1 DEF WithinAny
  <2>3. x \notin workspace_masks(c)
    BY <2>2 DEF workspace_masks
  <2>4. PICK r \in projects :
          x.path \in {y \in metadata(r) : lstat(host, y) # "absent"} \union deny_matches(c, r)
    BY <2>3 DEF raw_masks, trusted_masks
  <2>5. x.path \in deny_matches(c, r)
    BY <2>2, <2>4
  <2>6. /\ x.path \in DOMAIN host.kind /\ KindAt(host, x.path) = "file"
        /\ Last(x.path) \in c.deny /\ ~WithinAny(x.path, excepted)
    BY <2>5 DEF deny_matches, run_rg, KindAt
  <2>7. x.path = f
    BY <1>1, <2>1, <2>6, AboveEntry DEF HostOK
  <2> QED BY <2>6, <2>7
<1> HIDE DEF masked
<1> QED BY <1>3, <1>4, <1>5, <1>6 DEF plan, host, excepted


----------------------------------------------------------------------------
(* Where links are made *)

\* The shortest of some paths.
LEMMA ShortestOf ==
  ASSUME NEW S, S \subseteq Path, S # {}
  PROVE  \E q \in S : \A r \in S : is_within(q, r) => r = q
<1> DEFINE lengths == {Len(q) : q \in S}
<1>1. lengths \subseteq Nat /\ lengths # {}
  <2>1. \A q \in S : Len(q) \in Nat
    BY LenProperties DEF Path
  <2>2. PICK q \in S : TRUE
    OBVIOUS
  <2> QED BY <2>1, <2>2
<1> HIDE DEF lengths
<1>2. PICK n \in lengths : \A k \in lengths : n <= k
  <2> DEFINE least == \E k \in lengths : \A j \in lengths : k <= j
             U == {k \in Nat : (\E j \in lengths : j <= k) => least}
  <2>1. 0 \in U
    BY <1>1
  <2>2. ASSUME NEW k \in Nat, k \in U PROVE k + 1 \in U
    <3>1. CASE \E j \in lengths : j <= k
      BY <2>2, <3>1
    <3>2. CASE ~\E j \in lengths : j <= k
      <4>1. \A j \in lengths : k + 1 <= j
        BY <1>1, <3>2
      <4>2. \A j \in lengths : j <= k + 1 => j = k + 1
        BY <1>1, <4>1
      <4> QED BY <4>1, <4>2
    <3> QED BY <3>1, <3>2
  <2>3. Nat \subseteq U
    <3> HIDE DEF U
    <3> QED BY <2>1, <2>2, NatSetInduction
  <2>4. least
    <3>1. PICK k \in lengths : TRUE
      BY <1>1
    <3>2. k \in U /\ k <= k
      BY <1>1, <2>3, <3>1
    <3> QED BY <3>1, <3>2
  <2> QED BY <2>4
<1>3. PICK q \in S : Len(q) = n
  BY DEF lengths
<1>4. ASSUME NEW r \in S, is_within(q, r) PROVE r = q
  <2>1. q \in Path /\ r \in Path
    OBVIOUS
  <2>2. Len(q) <= Len(r)
    BY <1>2, <1>3 DEF lengths
  <2>3. Len(r) <= Len(q) /\ \A i \in 1 .. Len(r) : r[i] = q[i]
    BY <1>4, <2>1, PrefixIs DEF is_within, Path
  <2>4. Len(q) = Len(r)
    BY <2>1, <2>2, <2>3 DEF Path
  <2> QED BY <2>1, <2>3, <2>4, SeqEqual DEF Path
<1> QED BY <1>4

\* The operation at a place of the plan makes one of the links, after the private file
\* systems, the read-only mounts and the links before it.
LinkPlace(m, gpu, i, k) ==
  LET plan == emit_bwrap(m, gpu)
  IN /\ plan[i].dst = gpu.symlinks[k].path
     /\ SubSeq(plan, 1, i - 1) =
          private_ops(m) \o ReadOnlyOps(Prune(readonly(m, gpu))) \o SubSeq(SymlinkOps(gpu), 1, k - 1)

\* Only the operations of its own kind are of that kind.
LEMMA KindsApart ==
  /\ \A m : \A i \in DOMAIN private_ops(m) : private_ops(m)[i].op = "tmpfs"
  /\ \A entries : \A i \in DOMAIN ReadOnlyOps(entries) : ReadOnlyOps(entries)[i].op = "ro-bind"
  /\ \A gpu : \A i \in DOMAIN NodeOps(gpu) : NodeOps(gpu)[i].op = "dev-bind"
  /\ \A masks : \A i \in DOMAIN MaskOps(masks) : MaskOps(masks)[i].op \in Masking
<1>1. ASSUME NEW m, NEW i \in DOMAIN private_ops(m) PROVE private_ops(m)[i].op = "tmpfs"
  BY DEF private_ops, Op
<1>2. ASSUME NEW entries, NEW i \in DOMAIN ReadOnlyOps(entries) PROVE ReadOnlyOps(entries)[i].op = "ro-bind"
  BY DEF ReadOnlyOps, Op
<1>3. ASSUME NEW gpu, NEW i \in DOMAIN NodeOps(gpu) PROVE NodeOps(gpu)[i].op = "dev-bind"
  BY DEF NodeOps, Op
<1>4. ASSUME NEW masks, NEW i \in DOMAIN MaskOps(masks) PROVE MaskOps(masks)[i].op \in Masking
  BY DEF MaskOps, Op, Masking
<1> QED BY <1>1, <1>2, <1>3, <1>4

\* An element of a kind that the second list has none of is in the first one.
LEMMA InTheFirst ==
  ASSUME NEW T, NEW a \in Seq(T), NEW b \in Seq(T), NEW i \in 1 .. Len(a \o b),
         NEW kind, (a \o b)[i].op = kind, \A k \in 1 .. Len(b) : b[k].op # kind
  PROVE  i \in 1 .. Len(a) /\ a[i].op = kind /\ SubSeq(a \o b, 1, i - 1) = SubSeq(a, 1, i - 1)
           /\ (a \o b)[i] = a[i]
<1>1. InFirst(a, b, i) \/ \E k \in 1 .. Len(b) : InSecond(a, b, i, k)
  BY JoinedPlaces
<1>2. ~\E k \in 1 .. Len(b) : InSecond(a, b, i, k)
  BY DEF InSecond
<1> QED BY <1>1, <1>2 DEF InFirst

LEMMA LinkPlaces ==
  ASSUME NEW c, ConfigurationOK(c), NEW gpu, GpuMountsOK(c.host, gpu), NEW m, m = compile_policy(c),
         NEW i \in DOMAIN emit_bwrap(m, gpu), emit_bwrap(m, gpu)[i].op = "symlink"
  PROVE  \E k \in 1 .. Len(gpu.symlinks) : LinkPlace(m, gpu, i, k)
<1> DEFINE any == Operations(AnyKind)
           entries == Prune(readonly(m, gpu))
           a == private_ops(m)
           b == ReadOnlyOps(entries)
           d == SymlinkOps(gpu)
           e == NodeOps(gpu)
           bind == Op("bind", m.workspace, m.workspace)
           f == <<bind>>
           g == MaskOps(m.masks)
           plan == emit_bwrap(m, gpu)
           n == Len(gpu.symlinks)
<1>1. GpuPathsOK(gpu)
  BY DEF GpuMountsOK
<1>2. entries \in Seq(Entry)
  BY <1>1, ReadOnlyAre, PruneIs
<1>3. /\ a \in Seq(any) /\ b \in Seq(any) /\ d \in Seq(any) /\ e \in Seq(any) /\ f \in Seq(any)
      /\ g \in Seq(any)
  <2> HIDE DEF entries
  <2> QED BY <1>1, <1>2, PartsAre DEF PlanParts
<1>4. Len(d) = n /\ \A k \in 1 .. n : d[k] = Op("symlink", gpu.symlinks[k].target, gpu.symlinks[k].path)
  BY <1>1, SymlinksCover
<1>5. plan = a \o b \o d \o e \o f \o g
  BY DEF emit_bwrap, Plan
<1>6. /\ \A h \in DOMAIN a : a[h].op # "symlink"
      /\ \A h \in DOMAIN b : b[h].op # "symlink"
      /\ \A h \in DOMAIN e : e[h].op # "symlink"
      /\ \A h \in DOMAIN g : g[h].op # "symlink"
  <2> HIDE DEF entries
  <2> QED BY KindsApart DEF Masking
<1>7. \A h \in 1 .. Len(f) : f[h].op # "symlink"
  <2>1. bind.op = "bind"
    BY DEF Op
  <2> HIDE DEF bind
  <2> QED BY <2>1
<1> HIDE DEF any, a, b, d, e, f, g, n, plan
<1> DEFINE b1 == a \o b
           b2 == b1 \o d
           b3 == b2 \o e
           b4 == b3 \o f
           b5 == b4 \o g
<1>8. b5 = plan
  BY <1>5
<1>9. b1 \in Seq(any)
  BY <1>3, ConcatProperties
<1> HIDE DEF b1
<1>10. b2 \in Seq(any)
  BY <1>3, <1>9, ConcatProperties
<1> HIDE DEF b2
<1>11. b3 \in Seq(any)
  BY <1>3, <1>10, ConcatProperties
<1> HIDE DEF b3
<1>12. b4 \in Seq(any)
  BY <1>3, <1>11, ConcatProperties
<1> HIDE DEF b4
<1>13. b5 \in Seq(any)
  BY <1>3, <1>12, ConcatProperties
<1>14. /\ DOMAIN a = 1 .. Len(a) /\ DOMAIN b = 1 .. Len(b) /\ DOMAIN e = 1 .. Len(e)
       /\ DOMAIN g = 1 .. Len(g)
  BY <1>3, LenProperties
<1>15. i \in 1 .. Len(b5) /\ b5[i].op = "symlink"
  <2> HIDE DEF b5
  <2>1. plan \in Seq(any) /\ i \in DOMAIN plan /\ plan[i].op = "symlink"
    BY <1>8, <1>13 DEF plan
  <2> QED BY <1>8, <2>1
<1>16. i \in 1 .. Len(b4) /\ b4[i].op = "symlink" /\ SubSeq(b5, 1, i - 1) = SubSeq(b4, 1, i - 1)
         /\ b5[i] = b4[i]
  <2>1. \A h \in 1 .. Len(g) : g[h].op # "symlink"
    BY <1>6, <1>14
  <2> QED BY <1>3, <1>12, <1>15, <2>1, InTheFirst
<1>17. i \in 1 .. Len(b3) /\ b3[i].op = "symlink" /\ SubSeq(b4, 1, i - 1) = SubSeq(b3, 1, i - 1)
         /\ b4[i] = b3[i]
  BY <1>3, <1>7, <1>11, <1>16, InTheFirst DEF b4
<1>18. i \in 1 .. Len(b2) /\ b2[i].op = "symlink" /\ SubSeq(b3, 1, i - 1) = SubSeq(b2, 1, i - 1)
         /\ b3[i] = b2[i]
  <2>1. \A h \in 1 .. Len(e) : e[h].op # "symlink"
    BY <1>6, <1>14
  <2> QED BY <1>3, <1>10, <1>17, <2>1, InTheFirst DEF b3
<1>19. ~InFirst(b1, d, i)
  <2> SUFFICES ASSUME InFirst(b1, d, i) PROVE FALSE
    OBVIOUS
  <2>1. i \in 1 .. Len(b1) /\ b1[i].op = "symlink"
    BY <1>18 DEF InFirst, b2
  <2>2. a[i].op = "symlink" /\ i \in 1 .. Len(a)
    BY <1>3, <1>6, <1>14, <2>1, InTheFirst DEF b1
  <2> QED BY <1>6, <1>14, <2>2
<1>20. PICK k \in 1 .. Len(d) : InSecond(b1, d, i, k)
  BY <1>3, <1>9, <1>18, <1>19, JoinedPlaces DEF b2
<1>21. b2[i] = d[k] /\ SubSeq(b2, 1, i - 1) = b1 \o SubSeq(d, 1, k - 1)
  BY <1>20 DEF InSecond, b2
<1>22. d[k].dst = gpu.symlinks[k].path
  BY <1>4, <1>20, OpAt
<1> HIDE DEF b5
<1>23. LinkPlace(m, gpu, i, k)
  <2>1. plan[i].dst = gpu.symlinks[k].path /\ SubSeq(plan, 1, i - 1) = b1 \o SubSeq(d, 1, k - 1)
    BY <1>8, <1>16, <1>17, <1>18, <1>21, <1>22
  <2> QED BY <2>1 DEF LinkPlace, plan, b1, a, b, d
<1> QED BY <1>4, <1>20, <1>23 DEF n
=============================================================================
