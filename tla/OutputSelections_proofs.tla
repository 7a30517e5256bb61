---------------------- MODULE OutputSelections_proofs ----------------------
(* What head, tail, wait and expect return is what the history says, for    *)
(* every limit, whatever was read and trimmed.  Events that lie in the      *)
(* history in order have cursors that grow, and two growing sequences of    *)
(* the same cursors are one: each selection is compared with its reference  *)
(* by the cursors that it holds.                                            *)
EXTENDS OutputBuffer_proofs

----------------------------------------------------------------------------
(* Picking items at places *)

\* The items of p are those of s at the places up to n, in order; pos says where.
Picks(p, pos, s, places, n) ==
  /\ pos \in [1 .. Len(p) -> 1 .. n]
  /\ \A i, j \in 1 .. Len(p) : i < j => pos[i] < pos[j]
  /\ \A i \in 1 .. Len(p) : pos[i] \in places /\ p[i] = s[pos[i]]
  /\ \A k \in 1 .. n : k \in places => \E i \in 1 .. Len(p) : pos[i] = k

\* One more place that is picked.
LEMMA PicksNext ==
  ASSUME NEW T, NEW s \in Seq(T), NEW places, NEW n \in Nat, n + 1 \in 1 .. Len(s),
         n + 1 \in places, NEW p \in Seq(T), NEW pos, Picks(p, pos, s, places, n)
  PROVE  \E at : Picks(Append(p, s[n + 1]), at, s, places, n + 1)
<1> DEFINE m == Len(p)
           r == Append(p, s[n + 1])
           at == [i \in 1 .. m + 1 |-> IF i = m + 1 THEN n + 1 ELSE pos[i]]
<1>1. /\ m \in Nat /\ Len(r) = m + 1 /\ r[m + 1] = s[n + 1]
      /\ \A i \in 1 .. m : r[i] = p[i]
  <2>1. s[n + 1] \in T
    BY ElementOfSeq
  <2> QED BY <2>1, AppendProperties, LenProperties
<1>2. /\ \A i \in 1 .. m : pos[i] \in 1 .. n /\ pos[i] \in places /\ p[i] = s[pos[i]]
      /\ \A i, j \in 1 .. m : i < j => pos[i] < pos[j]
      /\ \A k \in 1 .. n : k \in places => \E i \in 1 .. m : pos[i] = k
  BY DEF Picks
<1> HIDE DEF r, m
<1>3. at \in [1 .. m + 1 -> 1 .. n + 1]
  BY <1>1, <1>2
<1>4. \A i \in 1 .. m : at[i] = pos[i] /\ at[i] \in 1 .. n
  BY <1>1, <1>2
<1>5. at[m + 1] = n + 1
  BY <1>1
<1> HIDE DEF at
<1>6. ASSUME NEW i \in 1 .. m + 1, NEW j \in 1 .. m + 1, i < j PROVE at[i] < at[j]
  <2>1. i \in 1 .. m
    BY <1>1, <1>6
  <2>2. CASE j \in 1 .. m
    BY <1>2, <1>4, <1>6, <2>1, <2>2
  <2>3. CASE j = m + 1
    BY <1>4, <1>5, <2>1, <2>3
  <2> QED BY <1>1, <2>2, <2>3
<1>7. ASSUME NEW i \in 1 .. m + 1 PROVE at[i] \in places /\ r[i] = s[at[i]]
  <2>1. CASE i \in 1 .. m
    BY <1>1, <1>2, <1>4, <2>1
  <2>2. CASE i = m + 1
    BY <1>1, <1>5, <2>2
  <2> QED BY <1>1, <2>1, <2>2
<1>8. ASSUME NEW k \in 1 .. n + 1, k \in places PROVE \E i \in 1 .. m + 1 : at[i] = k
  <2>1. CASE k = n + 1
    <3>1. m + 1 \in 1 .. m + 1
      BY <1>1
    <3> QED BY <1>5, <2>1, <3>1
  <2>2. CASE k \in 1 .. n
    <3>1. PICK i \in 1 .. m : pos[i] = k
      BY <1>2, <1>8, <2>2
    <3>2. i \in 1 .. m + 1 /\ at[i] = k
      BY <1>1, <1>4, <3>1
    <3> QED BY <3>2
  <2> QED BY <2>1, <2>2
<1>9. Picks(r, at, s, places, n + 1)
  BY <1>1, <1>3, <1>6, <1>7, <1>8 DEF Picks
<1> QED BY <1>9 DEF r

\* One more place that is not.
LEMMA PicksSkip ==
  ASSUME NEW s, NEW places, NEW n \in Nat, n + 1 \notin places, NEW p, NEW pos,
         Picks(p, pos, s, places, n)
  PROVE  Picks(p, pos, s, places, n + 1)
<1>1. pos \in [1 .. Len(p) -> 1 .. n + 1]
  <2>1. 1 .. n \subseteq 1 .. n + 1
    OBVIOUS
  <2>2. pos \in [1 .. Len(p) -> 1 .. n]
    BY DEF Picks
  <2> QED BY <2>1, <2>2
<1>2. \A k \in 1 .. n + 1 : k \in places => k \in 1 .. n
  OBVIOUS
<1> QED BY <1>1, <1>2 DEF Picks

\* What the recursion of Picked adds at the k-th place.
PickUpTo(f, s, places, k) ==
  IF k = 0 THEN << >> ELSE IF k \in places THEN Append(f[k - 1], s[k]) ELSE f[k - 1]

PicksUpTo(f, s, places, T, m) ==
  f \in [0 .. m -> Seq(T)] /\ \A k \in 0 .. m : f[k] = PickUpTo(f, s, places, k)

\* The recursion of Picked has a value for every sequence.
LEMMA PickExists ==
  ASSUME NEW T, NEW s \in Seq(T), NEW places
  PROVE  \E f : f = [k \in 0 .. Len(s) |-> PickUpTo(f, s, places, k)]
<1> DEFINE n == Len(s)
           S == {m \in Nat : m <= n => \E f : PicksUpTo(f, s, places, T, m)}
<1>1. n \in Nat /\ \A k \in 1 .. n : s[k] \in T
  BY LenProperties, ElementOfSeq
<1>2. 0 \in S
  <2> DEFINE f == [k \in 0 .. 0 |-> << >>]
  <2>1. << >> \in Seq(T)
    BY EmptySeq
  <2>2. f \in [0 .. 0 -> Seq(T)] /\ \A k \in 0 .. 0 : f[k] = << >> /\ k = 0
    BY <2>1
  <2> HIDE DEF f
  <2>3. PicksUpTo(f, s, places, T, 0)
    BY <2>2 DEF PickUpTo, PicksUpTo
  <2> QED BY <2>3
<1>3. ASSUME NEW m \in Nat, m \in S PROVE m + 1 \in S
  <2> HIDE DEF n
  <2> SUFFICES ASSUME m + 1 <= n PROVE \E f : PicksUpTo(f, s, places, T, m + 1)
    OBVIOUS
  <2>9. PICK f : PicksUpTo(f, s, places, T, m)
    <3>1. m <= n
      BY <1>1
    <3> QED BY <1>3, <3>1
  <2>1. f \in [0 .. m -> Seq(T)] /\ \A k \in 0 .. m : f[k] = PickUpTo(f, s, places, k)
    BY <2>9 DEF PicksUpTo
  <2> DEFINE x == IF m + 1 \in places THEN Append(f[m], s[m + 1]) ELSE f[m]
             g == [k \in 0 .. m + 1 |-> IF k = m + 1 THEN x ELSE f[k]]
  <2>2. f[m] \in Seq(T) /\ s[m + 1] \in T
    BY <1>1, <2>1
  <2>3. x \in Seq(T)
    BY <2>2, AppendProperties
  <2> HIDE DEF x
  <2>4. g \in [0 .. m + 1 -> Seq(T)]
    BY <2>1, <2>3
  <2>5. g[m + 1] = x /\ \A k \in 0 .. m : g[k] = f[k]
    OBVIOUS
  <2> HIDE DEF g
  <2>6. ASSUME NEW k \in 0 .. m + 1 PROVE g[k] = PickUpTo(g, s, places, k)
    <3>1. CASE k = m + 1
      <4>1. k # 0 /\ k - 1 = m /\ g[k - 1] = f[m]
        BY <2>5, <3>1
      <4> QED BY <2>5, <3>1, <4>1 DEF PickUpTo, x
    <3>2. CASE k \in 0 .. m
      <4>1. g[k] = f[k] /\ f[k] = PickUpTo(f, s, places, k)
        BY <2>1, <2>5, <3>2
      <4>2. k # 0 => g[k - 1] = f[k - 1]
        BY <2>5, <3>2
      <4> QED BY <4>1, <4>2 DEF PickUpTo
    <3> QED BY <3>1, <3>2
  <2>7. PicksUpTo(g, s, places, T, m + 1)
    BY <2>4, <2>6 DEF PicksUpTo
  <2> QED BY <2>7
<1>4. n \in S
  <2> HIDE DEF S
  <2> QED BY <1>1, <1>2, <1>3, NatSetInduction
<1>5. PICK f : PicksUpTo(f, s, places, T, n)
  BY <1>1, <1>4
<1>6. f = [k \in 0 .. n |-> PickUpTo(f, s, places, k)]
  BY <1>5 DEF PicksUpTo
<1> QED BY <1>6

\* Picked keeps the items at the places, in their order.
LEMMA PickedIs ==
  ASSUME NEW T, NEW s \in Seq(T), NEW places
  PROVE  /\ Picked(s, places) \in Seq(T)
         /\ \E pos : Picks(Picked(s, places), pos, s, places, Len(s))
<1> DEFINE n == Len(s)
           Body(f) == [k \in 0 .. n |-> PickUpTo(f, s, places, k)]
           up == CHOOSE f : f = Body(f)
           S == {k \in Nat : k <= n => /\ up[k] \in Seq(T)
                                       /\ \E pos : Picks(up[k], pos, s, places, k)}
<1>1. n \in Nat /\ \A k \in 1 .. n : s[k] \in T
  BY LenProperties, ElementOfSeq
<1>2. Picked(s, places) = up[n]
  BY DEF Picked, PickUpTo
<1>3. up = Body(up)
  <2>1. \E f : f = Body(f)
    BY PickExists
  <2> HIDE DEF Body
  <2> QED BY <2>1
<1> HIDE DEF up
<1>4. \A k \in 0 .. n : up[k] = PickUpTo(up, s, places, k)
  BY <1>3
<1>5. 0 \in S
  <2>1. up[0] = << >>
    BY <1>1, <1>4 DEF PickUpTo
  <2>2. << >> \in Seq(T) /\ Len(<< >>) = 0
    BY EmptySeq
  <2> DEFINE none == [i \in 1 .. 0 |-> 1]
  <2>3. Picks(<< >>, none, s, places, 0)
    BY <2>2 DEF Picks
  <2> HIDE DEF none
  <2> QED BY <2>1, <2>2, <2>3
<1>6. ASSUME NEW k \in Nat, k \in S PROVE k + 1 \in S
  <2> SUFFICES ASSUME k + 1 <= n
               PROVE  /\ up[k + 1] \in Seq(T)
                      /\ \E pos : Picks(up[k + 1], pos, s, places, k + 1)
    OBVIOUS
  <2>1. k + 1 \in 0 .. n /\ k + 1 \in 1 .. n /\ k + 1 # 0 /\ (k + 1) - 1 = k
    BY <1>1
  <2>2. up[k] \in Seq(T) /\ \E pos : Picks(up[k], pos, s, places, k)
    BY <1>1, <1>6
  <2>3. up[k + 1] = IF k + 1 \in places THEN Append(up[k], s[k + 1]) ELSE up[k]
    <3>1. up[k + 1] = PickUpTo(up, s, places, k + 1)
      BY <1>4, <2>1
    <3> QED BY <2>1, <3>1 DEF PickUpTo
  <2>4. PICK pos : Picks(up[k], pos, s, places, k)
    BY <2>2
  <2>5. CASE k + 1 \in places
    <3>1. s[k + 1] \in T
      BY <1>1, <2>1
    <3>2. Append(up[k], s[k + 1]) \in Seq(T)
      BY <2>2, <3>1, AppendProperties
    <3>3. \E at : Picks(Append(up[k], s[k + 1]), at, s, places, k + 1)
      BY <2>1, <2>2, <2>4, <2>5, PicksNext
    <3> QED BY <2>3, <2>5, <3>2, <3>3
  <2>6. CASE k + 1 \notin places
    <3>1. Picks(up[k], pos, s, places, k + 1)
      BY <2>4, <2>6, PicksSkip
    <3> QED BY <2>2, <2>3, <2>6, <3>1
  <2> QED BY <2>5, <2>6
<1>7. n \in S
  <2> HIDE DEF S
  <2> QED BY <1>1, <1>5, <1>6, NatSetInduction
<1> QED BY <1>1, <1>2, <1>7

Growing(q) == \A i, j \in 1 .. Len(q) : i < j => q[i] < q[j]
Holds(q, x) == \E i \in 1 .. Len(q) : q[i] = x

\* The shorter of two growing sequences of the same numbers begins the longer.
LEMMA GrowingPrefix ==
  ASSUME NEW q \in Seq(Nat), NEW r \in Seq(Nat), Growing(q), Growing(r),
         \A x \in Nat : Holds(q, x) <=> Holds(r, x)
  PROVE  Len(q) <= Len(r) /\ \A i \in 1 .. Len(q) : q[i] = r[i]
<1> DEFINE n == Len(q)
           l == Len(r)
           S == {m \in Nat : \A i \in 1 .. m : i <= n => i <= l /\ r[i] = q[i]}
<1>1. /\ n \in Nat /\ l \in Nat
      /\ \A i \in 1 .. n : q[i] \in Nat
      /\ \A i \in 1 .. l : r[i] \in Nat
  BY LenProperties, ElementOfSeq
<1>2. /\ \A i, j \in 1 .. n : i < j => q[i] < q[j]
      /\ \A i, j \in 1 .. l : i < j => r[i] < r[j]
  BY DEF Growing
<1>3. /\ \A i \in 1 .. n : \E j \in 1 .. l : r[j] = q[i]
      /\ \A i \in 1 .. l : \E j \in 1 .. n : q[j] = r[i]
  BY <1>1 DEF Holds
<1> HIDE DEF n, l
<1>4. 0 \in S
  OBVIOUS
<1>5. ASSUME NEW m \in Nat, m \in S PROVE m + 1 \in S
  <2>1. \A i \in 1 .. m : i <= n => i <= l /\ r[i] = q[i]
    BY <1>5
  <2> SUFFICES ASSUME m + 1 <= n PROVE m + 1 <= l /\ r[m + 1] = q[m + 1]
    BY <2>1
  <2>2. m + 1 \in 1 .. n
    BY <1>1
  <2>3. \A i \in 1 .. m : i \in 1 .. n /\ i \in 1 .. l /\ r[i] = q[i]
    BY <1>1, <2>1
  <2>4. PICK j \in 1 .. l : r[j] = q[m + 1]
    BY <1>3, <2>2
  <2>5. ~(j \in 1 .. m)
    <3>1. SUFFICES ASSUME j \in 1 .. m PROVE FALSE
      OBVIOUS
    <3>2. q[j] < q[m + 1] /\ r[j] = q[j] /\ q[j] \in Nat
      BY <1>1, <1>2, <2>2, <2>3, <3>1
    <3> QED BY <1>1, <2>2, <2>4, <3>2
  <2>6. m + 1 \in 1 .. l /\ m + 1 <= j
    BY <1>1, <2>5
  <2>7. PICK k \in 1 .. n : q[k] = r[m + 1]
    BY <1>3, <2>6
  <2>8. ~(k \in 1 .. m)
    <3>1. SUFFICES ASSUME k \in 1 .. m PROVE FALSE
      OBVIOUS
    <3>2. r[k] < r[m + 1] /\ r[k] = q[k] /\ r[k] \in Nat
      BY <1>1, <1>2, <2>6, <2>3, <3>1
    <3> QED BY <1>1, <2>6, <2>7, <3>2
  <2>9. m + 1 <= k
    BY <1>1, <2>8
  <2>10. r[m + 1] <= r[j]
    BY <1>1, <1>2, <2>6
  <2>11. q[m + 1] <= q[k]
    BY <1>1, <1>2, <2>2, <2>9
  <2>12. r[m + 1] \in Nat /\ q[m + 1] \in Nat
    BY <1>1, <2>2, <2>6
  <2>13. r[m + 1] = q[m + 1]
    BY <2>4, <2>7, <2>10, <2>11, <2>12
  <2> QED BY <1>1, <2>6, <2>13
<1>6. n \in S
  <2> HIDE DEF S
  <2> QED BY <1>1, <1>4, <1>5, NatSetInduction
<1>7. \A i \in 1 .. n : i <= l /\ r[i] = q[i]
  BY <1>1, <1>6
<1>8. n <= l
  <2>1. CASE n = 0
    BY <1>1, <2>1
  <2>2. CASE n # 0
    <3>1. n \in 1 .. n
      BY <1>1, <2>2
    <3> QED BY <1>7, <3>1
  <2> QED BY <2>1, <2>2
<1> QED BY <1>7, <1>8 DEF n, l

\* Two growing sequences that hold the same numbers are the same.
LEMMA GrowingUnique ==
  ASSUME NEW q \in Seq(Nat), NEW r \in Seq(Nat), Growing(q), Growing(r),
         \A x \in Nat : Holds(q, x) <=> Holds(r, x)
  PROVE  q = r
<1>1. Len(q) \in Nat /\ Len(r) \in Nat
  BY LenProperties
<1>2. Len(q) <= Len(r) /\ \A i \in 1 .. Len(q) : q[i] = r[i]
  BY GrowingPrefix
<1>3. Len(r) <= Len(q)
  BY GrowingPrefix
<1>4. Len(q) = Len(r)
  BY <1>1, <1>2, <1>3
<1> QED BY <1>2, <1>4, SeqEqual

\* What is picked from a growing sequence grows.
LEMMA PickedGrows ==
  ASSUME NEW s \in Seq(Nat), Growing(s), NEW places
  PROVE  /\ Picked(s, places) \in Seq(Nat) /\ Growing(Picked(s, places))
         /\ \A x : Holds(Picked(s, places), x) <=> \E k \in 1 .. Len(s) : k \in places /\ s[k] = x
<1> DEFINE p == Picked(s, places)
<1>1. p \in Seq(Nat) /\ \E pos : Picks(p, pos, s, places, Len(s))
  BY PickedIs
<1>2. PICK pos : Picks(p, pos, s, places, Len(s))
  BY <1>1
<1> HIDE DEF p
<1>3. /\ \A i \in 1 .. Len(p) : pos[i] \in 1 .. Len(s)
      /\ \A i, j \in 1 .. Len(p) : i < j => pos[i] < pos[j]
      /\ \A i \in 1 .. Len(p) : pos[i] \in places /\ p[i] = s[pos[i]]
      /\ \A k \in 1 .. Len(s) : k \in places => \E i \in 1 .. Len(p) : pos[i] = k
  BY <1>2 DEF Picks
<1>4. Growing(p)
  BY <1>3 DEF Growing
<1>5. ASSUME NEW x
      PROVE  Holds(p, x) <=> \E k \in 1 .. Len(s) : k \in places /\ s[k] = x
  BY <1>3, SMTT(30) DEF Holds
<1> QED BY <1>1, <1>4, <1>5 DEF p

----------------------------------------------------------------------------
(* Events in order *)

\* Where the k-th piece lies.
LEMMA LaidAt ==
  ASSUME NEW T, NEW seqs \in Seq(Seq(T)), NEW G \in Seq(T), NEW off, Laid(seqs, G, off),
         NEW k \in 1 .. Len(seqs)
  PROVE  /\ off[k - 1] \in Nat /\ off[k] \in Nat /\ off[k] = off[k - 1] + Len(seqs[k])
         /\ Len(seqs[k]) \in Nat /\ Len(G) \in Nat /\ off[k] <= Len(G)
         /\ \A j \in 1 .. Len(seqs[k]) : G[off[k - 1] + j] = seqs[k][j]
<1>1. /\ Len(seqs) \in Nat /\ Len(G) \in Nat
      /\ \A i \in 0 .. Len(seqs) : off[i] \in Nat /\ off[i] <= Len(G)
      /\ off[k - 1] \in Nat /\ off[k] = off[k - 1] + Len(seqs[k]) /\ Len(seqs[k]) \in Nat
  BY LaidTypes
<1>2. k \in 0 .. Len(seqs)
  BY <1>1
<1>3. \A j \in 1 .. Len(seqs[k]) : G[off[k - 1] + j] = seqs[k][j]
  BY DEF Laid
<1> QED BY <1>1, <1>2, <1>3

\* Every place of the whole lies in a piece.
LiesAt(seqs, G, off, p, k, j) == p = off[k - 1] + j /\ G[p] = seqs[k][j]
Lies(seqs, G, off, p) ==
  \E k \in 1 .. Len(seqs) : \E j \in 1 .. Len(seqs[k]) : LiesAt(seqs, G, off, p, k, j)

\* Every place of the whole lies in a piece.
LEMMA Located ==
  ASSUME NEW T, NEW seqs \in Seq(Seq(T)), NEW G \in Seq(T), NEW off, Laid(seqs, G, off),
         NEW p \in 1 .. Len(G)
  PROVE  Lies(seqs, G, off, p)
<1> DEFINE n == Len(seqs)
           S == {m \in Nat : m <= n => (p <= off[m] => \E k \in 1 .. m : p \in off[k - 1] + 1 .. off[k])}
<1>1. /\ n \in Nat /\ Len(G) \in Nat /\ off[0] = 0 /\ off[n] = Len(G)
      /\ \A i \in 0 .. n : off[i] \in Nat
  <2>1. /\ n \in Nat /\ Len(G) \in Nat /\ \A i \in 0 .. n : off[i] \in Nat
    BY LaidTypes
  <2>2. off[0] = 0 /\ off[n] = Len(G)
    BY DEF Laid
  <2> QED BY <2>1, <2>2
<1>2. 0 \in S
  BY <1>1
<1>3. ASSUME NEW m \in Nat, m \in S PROVE m + 1 \in S
  <2> SUFFICES ASSUME m + 1 <= n, p <= off[m + 1]
               PROVE  \E k \in 1 .. m + 1 : p \in off[k - 1] + 1 .. off[k]
    OBVIOUS
  <2>1. m <= n /\ (m + 1) - 1 = m /\ m + 1 \in 1 .. m + 1
    BY <1>1
  <2>2. CASE p <= off[m]
    <3>1. PICK k \in 1 .. m : p \in off[k - 1] + 1 .. off[k]
      BY <1>3, <2>1, <2>2
    <3>2. k \in 1 .. m + 1
      OBVIOUS
    <3> QED BY <3>1, <3>2
  <2>3. CASE ~(p <= off[m])
    <3>1. off[m] \in Nat /\ off[m + 1] \in Nat
      BY <1>1, <2>1
    <3>2. p \in off[m] + 1 .. off[m + 1]
      BY <2>3, <3>1
    <3> QED BY <2>1, <3>2
  <2> QED BY <2>2, <2>3
<1>4. n \in S
  <2> HIDE DEF S
  <2> QED BY <1>1, <1>2, <1>3, NatSetInduction
<1>5. PICK k \in 1 .. n : p \in off[k - 1] + 1 .. off[k]
  BY <1>1, <1>4
<1>6. /\ off[k] = off[k - 1] + Len(seqs[k]) /\ Len(seqs[k]) \in Nat /\ off[k - 1] \in Nat
      /\ \A j \in 1 .. Len(seqs[k]) : G[off[k - 1] + j] = seqs[k][j]
  BY LaidAt
<1> DEFINE j == p - off[k - 1]
<1>7. j \in 1 .. Len(seqs[k]) /\ p = off[k - 1] + j
  <2> DEFINE u == off[k - 1]
             v == off[k]
             x == Len(seqs[k])
  <2>1. u \in Nat /\ x \in Nat /\ v = u + x /\ p \in u + 1 .. v
    BY <1>5, <1>6
  <2>2. j = p - u
    OBVIOUS
  <2> HIDE DEF u, v, x, j
  <2>3. j \in 1 .. x /\ p = u + j
    BY <2>1, <2>2
  <2> QED BY <2>3 DEF u, x
<1> HIDE DEF j
<1>8. LiesAt(seqs, G, off, p, k, j)
  BY <1>6, <1>7 DEF LiesAt
<1> QED BY <1>7, <1>8 DEF Lies

\* The cursors of an event come before those of all later ones.
Orderly(es) ==
  \A k, l \in 1 .. Len(es) : k < l => es[k].start + Len(es[k].text) <= es[l].start
\* whether a cursor is one of an event
Covers(e, x) == x \in e.start .. e.start + Len(e.text) - 1

\* The cursors of events are those that the events cover.
LEMMA CursorsHold ==
  ASSUME NEW T, NEW es \in Seq(Events(T)), NEW x \in Nat
  PROVE  Holds(Cursors(es), x) <=> \E k \in 1 .. Len(es) : Covers(es[k], x)
<1> DEFINE G == Cursors(es)
           ms == Marks(es)
           off == Bounds(es)
<1>1. G \in Seq(Nat) /\ Laid(ms, G, off)
  BY EventsLaid
<1>2. /\ ms \in Seq(Seq(Nat)) /\ Len(ms) = Len(es) /\ Len(es) \in Nat
      /\ \A k \in 1 .. Len(es) :
           /\ es[k].start \in Nat /\ Len(es[k].text) \in Nat /\ Len(ms[k]) = Len(es[k].text)
           /\ \A j \in 1 .. Len(es[k].text) : ms[k][j] = es[k].start + j - 1
  BY EventTypes
<1> HIDE DEF G, ms, off
<1>3. ASSUME NEW p \in 1 .. Len(G), G[p] = x
      PROVE  \E k \in 1 .. Len(es) : Covers(es[k], x)
  <2>1. Lies(ms, G, off, p)
    <3>1. ms \in Seq(Seq(Nat))
      BY <1>2
    <3> QED BY <1>1, <1>3, <3>1, Located
  <2>4. PICK k \in 1 .. Len(ms) : \E j \in 1 .. Len(ms[k]) : LiesAt(ms, G, off, p, k, j)
    BY <2>1 DEF Lies
  <2>2. PICK j \in 1 .. Len(ms[k]) : G[p] = ms[k][j]
    BY <2>4 DEF LiesAt
  <2>3. k \in 1 .. Len(es) /\ x = es[k].start + j - 1 /\ j \in 1 .. Len(es[k].text)
        /\ es[k].start \in Nat /\ Len(es[k].text) \in Nat
    BY <1>2, <1>3, <2>2
  <2>5. Covers(es[k], x)
    BY <2>3 DEF Covers
  <2> QED BY <2>3, <2>5
<1>4. ASSUME NEW k \in 1 .. Len(es), Covers(es[k], x) PROVE Holds(G, x)
  <2> DEFINE j == x - es[k].start + 1
  <2>1. es[k].start \in Nat /\ Len(es[k].text) \in Nat
    BY <1>2
  <2>2. j \in 1 .. Len(es[k].text) /\ es[k].start + j - 1 = x
    BY <1>4, <2>1 DEF Covers
  <2> HIDE DEF j
  <2>3. ms[k][j] = x /\ Len(ms[k]) = Len(es[k].text) /\ k \in 1 .. Len(ms)
    BY <1>2, <2>2
  <2>4. /\ off[k - 1] \in Nat /\ off[k] \in Nat /\ off[k] = off[k - 1] + Len(ms[k])
        /\ off[k] <= Len(G) /\ Len(G) \in Nat
        /\ \A i \in 1 .. Len(ms[k]) : G[off[k - 1] + i] = ms[k][i]
    <3>1. ms \in Seq(Seq(Nat)) /\ k \in 1 .. Len(ms)
      BY <1>2, <2>3
    <3> QED BY <1>1, <3>1, LaidAt
  <2> DEFINE p == off[k - 1] + j
  <2>5. p \in 1 .. Len(G)
    <3>1. j \in 1 .. Len(ms[k]) /\ Len(ms[k]) \in Nat
      BY <2>1, <2>2, <2>3
    <3> QED BY <2>4, <3>1
  <2>6. G[p] = x
    BY <2>2, <2>3, <2>4
  <2> HIDE DEF p
  <2> QED BY <2>5, <2>6 DEF Holds
<1> QED BY <1>3, <1>4 DEF Holds, G

\* The cursors of events that are in order grow.
LEMMA OrderlyGrows ==
  ASSUME NEW T, NEW es \in Seq(Events(T)), Orderly(es)
  PROVE  Growing(Cursors(es))
<1> DEFINE G == Cursors(es)
           ms == Marks(es)
           off == Bounds(es)
<1>1. G \in Seq(Nat) /\ Laid(ms, G, off)
  BY EventsLaid
<1>2. /\ ms \in Seq(Seq(Nat)) /\ Len(ms) = Len(es) /\ Len(es) \in Nat
      /\ \A k \in 1 .. Len(es) :
           /\ es[k].start \in Nat /\ Len(es[k].text) \in Nat /\ Len(ms[k]) = Len(es[k].text)
           /\ \A j \in 1 .. Len(es[k].text) : ms[k][j] = es[k].start + j - 1
  BY EventTypes
<1> HIDE DEF G, ms, off
<1>3. SUFFICES ASSUME NEW p \in 1 .. Len(G), NEW r \in 1 .. Len(G), p < r PROVE G[p] < G[r]
  BY DEF Growing, G
<1>4. PICK k \in 1 .. Len(ms) : \E a \in 1 .. Len(ms[k]) : LiesAt(ms, G, off, p, k, a)
  <2>1. ms \in Seq(Seq(Nat))
    BY <1>2
  <2>2. Lies(ms, G, off, p)
    BY <1>1, <2>1, Located
  <2> QED BY <2>2 DEF Lies
<1>5. PICK a \in 1 .. Len(ms[k]) : p = off[k - 1] + a /\ G[p] = ms[k][a]
  BY <1>4 DEF LiesAt
<1>6. PICK l \in 1 .. Len(ms) : \E b \in 1 .. Len(ms[l]) : LiesAt(ms, G, off, r, l, b)
  <2>1. ms \in Seq(Seq(Nat))
    BY <1>2
  <2>2. Lies(ms, G, off, r)
    BY <1>1, <2>1, Located
  <2> QED BY <2>2 DEF Lies
<1>7. PICK b \in 1 .. Len(ms[l]) : r = off[l - 1] + b /\ G[r] = ms[l][b]
  BY <1>6 DEF LiesAt
<1>8. /\ off[k - 1] \in Nat /\ off[k] \in Nat /\ off[k] = off[k - 1] + Len(ms[k])
      /\ off[l - 1] \in Nat /\ off[l] \in Nat /\ off[l] = off[l - 1] + Len(ms[l])
  <2>1. ms \in Seq(Seq(Nat)) /\ k \in 1 .. Len(ms) /\ l \in 1 .. Len(ms)
    BY <1>2
  <2> QED BY <1>1, <2>1, LaidAt
<1>9. /\ G[p] = es[k].start + a - 1 /\ a \in 1 .. Len(es[k].text)
      /\ G[r] = es[l].start + b - 1 /\ b \in 1 .. Len(es[l].text)
      /\ es[k].start \in Nat /\ es[l].start \in Nat
      /\ Len(es[k].text) \in Nat /\ Len(es[l].text) \in Nat
      /\ k \in 1 .. Len(es) /\ l \in 1 .. Len(es)
  BY <1>2, <1>5, <1>7
<1>10. CASE k = l
  <2>1. a < b
    <3> DEFINE u == off[k - 1]
    <3>1. /\ u \in Nat /\ p = u + a /\ r = u + b /\ p < r
          /\ a \in Nat /\ b \in Nat
      BY <1>3, <1>5, <1>7, <1>8, <1>9, <1>10
    <3> HIDE DEF u
    <3> QED BY <3>1
  <2> QED BY <1>9, <1>10, <2>1
<1>11. CASE k < l
  <2>1. es[k].start + Len(es[k].text) <= es[l].start
    BY <1>9, <1>11 DEF Orderly
  <2>2. /\ es[k].start \in Nat /\ es[l].start \in Nat /\ Len(es[k].text) \in Nat
        /\ a \in Nat /\ a <= Len(es[k].text) /\ b \in Nat /\ b > 0
    BY <1>9
  <2> DEFINE u == es[k].start
             v == es[l].start
             x == Len(es[k].text)
  <2>3. u + x <= v /\ u \in Nat /\ v \in Nat /\ x \in Nat /\ a \in Nat /\ a <= x
        /\ b \in Nat /\ b > 0 /\ G[p] = u + a - 1 /\ G[r] = v + b - 1
    BY <1>9, <2>1, <2>2
  <2> HIDE DEF u, v, x
  <2> QED BY <2>3
<1>12. CASE l < k
  <2>1. k - 1 \in l .. Len(ms) /\ l \in 0 .. Len(ms)
    <3> DEFINE x == Len(ms)
    <3>1. x \in Nat /\ k \in 1 .. x /\ l \in 1 .. x
      BY <1>2
    <3> HIDE DEF x
    <3>2. k - 1 \in l .. x /\ l \in 0 .. x
      BY <3>1, <1>12
    <3> QED BY <3>2 DEF x
  <2>2. off[l] <= off[k - 1]
    BY <1>1, <1>2, <2>1, LaidGrows
  <2>3. Len(ms[l]) = Len(es[l].text) /\ Len(ms[k]) = Len(es[k].text)
    BY <1>2
  <2>4. r <= off[l] /\ off[k - 1] < p
    <3> DEFINE u == off[k - 1]
               v == off[l - 1]
               x == Len(ms[l])
    <3>1. b \in 1 .. x /\ a \in 1 .. Len(ms[k])
      OBVIOUS
    <3>2. /\ x \in Nat /\ u \in Nat /\ v \in Nat /\ off[l] = v + x
          /\ p = u + a /\ r = v + b
      BY <1>5, <1>7, <1>8, <1>9, <2>3
    <3>3. Len(ms[k]) \in Nat
      BY <1>9, <2>3
    <3> HIDE DEF u, v, x
    <3> QED BY <3>1, <3>2, <3>3 DEF u
  <2> QED BY <1>3, <1>8, <2>2, <2>4
<1>13. k \in Nat /\ l \in Nat
  BY <1>2
<1> QED BY <1>10, <1>11, <1>12, <1>13

\* Events that are not empty and whose cursors grow are in order.
LEMMA GrowsOrderly ==
  ASSUME NEW T, NEW es \in Seq(Events(T)), Full(es), Growing(Cursors(es))
  PROVE  Orderly(es)
<1> DEFINE G == Cursors(es)
           ms == Marks(es)
           off == Bounds(es)
<1>1. G \in Seq(Nat) /\ Laid(ms, G, off)
  BY EventsLaid
<1>2. /\ ms \in Seq(Seq(Nat)) /\ Len(ms) = Len(es) /\ Len(es) \in Nat
      /\ \A k \in 1 .. Len(es) :
           /\ es[k].start \in Nat /\ Len(es[k].text) \in Nat /\ Len(ms[k]) = Len(es[k].text)
           /\ \A j \in 1 .. Len(es[k].text) : ms[k][j] = es[k].start + j - 1
  BY EventTypes
<1>3. \A k \in 1 .. Len(es) : Len(es[k].text) > 0
  BY DEF Full
<1> HIDE DEF G, ms, off
<1>4. SUFFICES ASSUME NEW k \in 1 .. Len(es), NEW l \in 1 .. Len(es), k < l
               PROVE  es[k].start + Len(es[k].text) <= es[l].start
  BY DEF Orderly
<1>5. /\ off[k - 1] \in Nat /\ off[k] \in Nat /\ off[k] = off[k - 1] + Len(ms[k])
      /\ off[l - 1] \in Nat /\ off[l] \in Nat /\ off[l] = off[l - 1] + Len(ms[l])
      /\ off[k] <= Len(G) /\ off[l] <= Len(G) /\ Len(G) \in Nat
      /\ \A i \in 1 .. Len(ms[k]) : G[off[k - 1] + i] = ms[k][i]
      /\ \A i \in 1 .. Len(ms[l]) : G[off[l - 1] + i] = ms[l][i]
  <2>1. ms \in Seq(Seq(Nat)) /\ k \in 1 .. Len(ms) /\ l \in 1 .. Len(ms)
    BY <1>2
  <2> QED BY <1>1, <2>1, LaidAt
<1>6. off[k] <= off[l - 1]
  <2>1. l - 1 \in k .. Len(ms) /\ k \in 0 .. Len(ms)
    BY <1>2, <1>4
  <2> QED BY <1>1, <1>2, <2>1, LaidGrows
<1> DEFINE p == off[k - 1] + Len(ms[k])
           r == off[l - 1] + 1
<1>7. /\ Len(ms[k]) \in Nat /\ Len(ms[k]) \in 1 .. Len(ms[k])
      /\ Len(ms[l]) \in Nat /\ 1 \in 1 .. Len(ms[l])
      /\ Len(ms[k]) = Len(es[k].text) /\ es[k].start \in Nat /\ es[l].start \in Nat
  <2>1. /\ Len(es[k].text) > 0 /\ Len(es[k].text) \in Nat
        /\ Len(es[l].text) > 0 /\ Len(es[l].text) \in Nat
    BY <1>2, <1>3
  <2>2. Len(ms[k]) = Len(es[k].text) /\ Len(ms[l]) = Len(es[l].text)
    BY <1>2
  <2>3. es[k].start \in Nat /\ es[l].start \in Nat
    BY <1>2
  <2> QED BY <2>1, <2>2, <2>3
<1>8. G[p] = ms[k][Len(ms[k])] /\ G[r] = ms[l][1]
  BY <1>5, <1>7
<1>9. ms[k][Len(ms[k])] = es[k].start + Len(ms[k]) - 1 /\ ms[l][1] = es[l].start + 1 - 1
  BY <1>2, <1>7
<1>10. p \in 1 .. Len(G) /\ r \in 1 .. Len(G) /\ p < r
  <2> DEFINE x == Len(ms[k])
             y == Len(ms[l])
             u == off[k - 1]
             v == off[l - 1]
             t == off[k]
             z == off[l]
             g == Len(G)
  <2>1. /\ x \in Nat /\ y \in Nat /\ x \in 1 .. x /\ 1 \in 1 .. y /\ u \in Nat /\ v \in Nat
        /\ t = u + x /\ z = v + y /\ t <= g /\ z <= g /\ g \in Nat /\ t <= v
    BY <1>5, <1>6, <1>7
  <2>2. p = u + x /\ r = v + 1
    OBVIOUS
  <2> HIDE DEF x, y, u, v, t, z, g, p, r
  <2> QED BY <2>1, <2>2 DEF g
<1> HIDE DEF p, r
<1>11. G[p] < G[r]
  BY <1>10 DEF Growing, G
<1> DEFINE u == es[k].start
           v == es[l].start
           x == Len(ms[k])
<1>12. /\ u \in Nat /\ v \in Nat /\ x \in Nat /\ x = Len(es[k].text)
       /\ G[p] = u + x - 1 /\ G[r] = v + 1 - 1
  BY <1>7, <1>8, <1>9
<1>13. es[k].start = u /\ es[l].start = v
  OBVIOUS
<1> HIDE DEF u, v, x
<1>14. u + x <= v
  <2> DEFINE g == G[p]
             h == G[r]
  <2>1. g = u + x - 1 /\ h = v + 1 - 1 /\ g < h
    BY <1>11, <1>12
  <2> HIDE DEF g, h
  <2> QED BY <1>12, <2>1
<1> QED BY <1>12, <1>13, <1>14

\* The text of events of the history is what was written at their cursors.
LEMMA TextAt ==
  ASSUME NEW T, NEW es \in Seq(Events(T)), NEW w, AllPlaced(es, w), Len(w) \in Nat,
         NEW p \in 1 .. Chars(es)
  PROVE  Cursors(es)[p] \in 1 .. Len(w) /\ w[Cursors(es)[p]].char = Text(es)[p]
<1> DEFINE G == Cursors(es)
           H == Text(es)
           ms == Marks(es)
           ts == Texts(es)
           off == Bounds(es)
<1>1. /\ G \in Seq(Nat) /\ Laid(ms, G, off) /\ H \in Seq(T) /\ Laid(ts, H, off)
      /\ Len(G) = Chars(es) /\ Len(H) = Chars(es)
  BY EventsLaid
<1>2. /\ ms \in Seq(Seq(Nat)) /\ Len(ms) = Len(es) /\ Len(ts) = Len(es)
      /\ \A k \in 1 .. Len(es) :
           /\ es[k].start \in Nat /\ Len(es[k].text) \in Nat /\ Len(ms[k]) = Len(es[k].text)
           /\ ts[k] = es[k].text
           /\ \A j \in 1 .. Len(es[k].text) : ms[k][j] = es[k].start + j - 1
  BY EventTypes
<1> HIDE DEF G, H, ms, ts, off
<1>3. PICK k \in 1 .. Len(ms) : \E j \in 1 .. Len(ms[k]) : LiesAt(ms, G, off, p, k, j)
  <2>1. ms \in Seq(Seq(Nat))
    BY <1>2
  <2>2. Lies(ms, G, off, p)
    BY <1>1, <2>1, Located
  <2> QED BY <2>2 DEF Lies
<1>4. PICK j \in 1 .. Len(ms[k]) : p = off[k - 1] + j /\ G[p] = ms[k][j]
  BY <1>3 DEF LiesAt
<1>5. k \in 1 .. Len(es) /\ j \in 1 .. Len(es[k].text) /\ G[p] = es[k].start + j - 1
      /\ es[k].start \in Nat /\ Len(es[k].text) \in Nat
  BY <1>2, <1>4
<1>6. H[p] = es[k].text[j]
  <2>1. \A i \in 1 .. Len(ts[k]) : H[off[k - 1] + i] = ts[k][i]
    BY <1>1, <1>2, <1>5 DEF Laid
  <2> QED BY <1>2, <1>4, <1>5, <2>1
<1>7. /\ es[k].start > 0 /\ es[k].cursor = es[k].start + Len(es[k].text) - 1
      /\ es[k].cursor <= Len(w)
      /\ w[es[k].start + j - 1] = [stream |-> es[k].stream, char |-> es[k].text[j]]
  BY <1>5 DEF AllPlaced, Placed
<1>8. es[k].start + j - 1 \in 1 .. Len(w)
  <2> DEFINE u == es[k].start
             v == es[k].cursor
             x == Len(es[k].text)
             y == Len(w)
  <2>1. /\ u \in Nat /\ x \in Nat /\ y \in Nat /\ j \in 1 .. x /\ u > 0
        /\ v = u + x - 1 /\ v <= y
    BY <1>5, <1>7
  <2> HIDE DEF u, v, x, y
  <2>2. u + j - 1 \in 1 .. y
    BY <2>1
  <2> QED BY <2>2 DEF u, y
<1>9. w[G[p]].char = H[p]
  BY <1>5, <1>6, <1>7
<1> QED BY <1>5, <1>8, <1>9 DEF G, H

\* Events that end where later and later events end, and start no earlier, are in order.
LEMMA OrderlyPart ==
  ASSUME NEW T, NEW es \in Seq(Events(T)), Orderly(es), NEW ds \in Seq(Events(T)), NEW pos,
         \A i \in 1 .. Len(ds) :
           /\ pos[i] \in 1 .. Len(es) /\ ds[i].start >= es[pos[i]].start
           /\ ds[i].start + Len(ds[i].text) = es[pos[i]].start + Len(es[pos[i]].text),
         \A i, j \in 1 .. Len(ds) : i < j => pos[i] < pos[j]
  PROVE  Orderly(ds)
<1>1. SUFFICES ASSUME NEW i \in 1 .. Len(ds), NEW j \in 1 .. Len(ds), i < j
               PROVE  ds[i].start + Len(ds[i].text) <= ds[j].start
  BY DEF Orderly
<1> DEFINE u == es[pos[i]].start + Len(es[pos[i]].text)
           v == es[pos[j]].start
           x == ds[j].start
<1>2. pos[i] \in 1 .. Len(es) /\ pos[j] \in 1 .. Len(es) /\ pos[i] < pos[j]
  BY <1>1
<1>3. u <= v
  BY <1>2 DEF Orderly
<1>4. /\ es[pos[i]].start \in Nat /\ Len(es[pos[i]].text) \in Nat /\ v \in Nat
  BY <1>2, EventTypes
<1>5. x \in Nat
  BY EventTypes
<1>6. ds[i].start + Len(ds[i].text) = u /\ x >= v
  OBVIOUS
<1>7. u \in Nat
  <2> DEFINE a == es[pos[i]].start
             b == Len(es[pos[i]].text)
  <2>1. a \in Nat /\ b \in Nat /\ u = a + b
    BY <1>4
  <2> HIDE DEF a, b, u
  <2> QED BY <2>1
<1> HIDE DEF u, v, x
<1>8. u <= x
  BY <1>3, <1>4, <1>5, <1>6, <1>7
<1> QED BY <1>6, <1>8 DEF x

\* A cursor that an event covers is of the stream of the event.
LEMMA CoveredStream ==
  ASSUME NEW T, NEW e \in Events(T), NEW w, Placed(e, w), NEW x \in Nat, Covers(e, x)
  PROVE  w[x].stream = e.stream /\ e.cursor = e.start + Len(e.text) - 1
<1> DEFINE a == e.start
           l == Len(e.text)
           j == x - a + 1
<1>1. a \in Nat /\ l \in Nat
  BY MarkTypes
<1>2. /\ e.cursor = a + l - 1
      /\ \A i \in 1 .. l : w[a + i - 1] = [stream |-> e.stream, char |-> e.text[i]]
  BY DEF Placed
<1>3. x \in a .. a + l - 1
  BY DEF Covers
<1> HIDE DEF a, l
<1>4. j \in 1 .. l /\ a + j - 1 = x
  BY <1>1, <1>3
<1> HIDE DEF j
<1>6. w[x].stream = e.stream
  <2>1. w[a + j - 1] = [stream |-> e.stream, char |-> e.text[j]]
    BY <1>2, <1>4
  <2>2. w[x] = [stream |-> e.stream, char |-> e.text[j]]
    BY <1>4, <2>1
  <2> QED BY <2>2
<1> QED BY <1>2, <1>6 DEF a, l

\* The events of a selection hold the cursors of the selection.
LEMMA EligibleIs ==
  ASSUME NEW T, NEW es \in Seq(Events(T)), Full(es), Orderly(es), NEW w, AllPlaced(es, w),
         NEW stream
  PROVE  LET el == Eligible(es, stream)
         IN  /\ el \in Seq(Events(T)) /\ Full(el) /\ Orderly(el) /\ AllPlaced(el, w)
             /\ \A x \in Nat : Holds(Cursors(el), x) <=>
                               Holds(Cursors(es), x) /\ MatchesStream(w[x], stream)
<1> DEFINE el == Eligible(es, stream)
           places == {k \in DOMAIN es : MatchesStream(es[k], stream)}
<1>1. el \in Seq(Events(T)) /\ \E pos : Picks(el, pos, es, places, Len(es))
  BY PickedIs DEF Eligible
<1>2. PICK pos : Picks(el, pos, es, places, Len(es))
  BY <1>1
<1>3. /\ \A k \in 1 .. Len(es) : k \in DOMAIN es
      /\ \A k \in 1 .. Len(es) : es[k] \in Events(T) /\ Placed(es[k], w)
  BY LenProperties, ElementOfSeq DEF AllPlaced
<1>4. \A k \in 1 .. Len(es) : k \in places <=> MatchesStream(es[k], stream)
  BY <1>3
<1> HIDE DEF el, places
<1>5. /\ \A i \in 1 .. Len(el) : pos[i] \in 1 .. Len(es)
      /\ \A i, j \in 1 .. Len(el) : i < j => pos[i] < pos[j]
      /\ \A i \in 1 .. Len(el) : pos[i] \in places /\ el[i] = es[pos[i]]
      /\ \A k \in 1 .. Len(es) : k \in places => \E i \in 1 .. Len(el) : pos[i] = k
  BY <1>2 DEF Picks
<1>6. Full(el) /\ AllPlaced(el, w)
  BY <1>5 DEF Full, AllPlaced
<1>7. Orderly(el)
  <2>1. ASSUME NEW i \in 1 .. Len(el)
        PROVE  /\ pos[i] \in 1 .. Len(es) /\ el[i].start >= es[pos[i]].start
               /\ el[i].start + Len(el[i].text) = es[pos[i]].start + Len(es[pos[i]].text)
    <3>1. el[i] = es[pos[i]] /\ pos[i] \in 1 .. Len(es) /\ el[i].start \in Nat
      BY <1>1, <1>5, EventTypes
    <3> QED BY <3>1
  <2> QED BY <1>1, <1>5, <2>1, OrderlyPart
<1>8. ASSUME NEW x \in Nat
      PROVE  Holds(Cursors(el), x) <=> Holds(Cursors(es), x) /\ MatchesStream(w[x], stream)
  <2>1. Holds(Cursors(el), x) <=> \E i \in 1 .. Len(el) : Covers(el[i], x)
    BY <1>1, CursorsHold
  <2>2. Holds(Cursors(es), x) <=> \E k \in 1 .. Len(es) : Covers(es[k], x)
    BY CursorsHold
  <2>3. \A k \in 1 .. Len(es) : Covers(es[k], x) => w[x].stream = es[k].stream
    BY <1>3, CoveredStream
  <2>4. ASSUME NEW i \in 1 .. Len(el), Covers(el[i], x)
        PROVE  (\E k \in 1 .. Len(es) : Covers(es[k], x)) /\ MatchesStream(w[x], stream)
    <3>1. pos[i] \in 1 .. Len(es) /\ Covers(es[pos[i]], x) /\ pos[i] \in places
      BY <1>5, <2>4
    <3>2. MatchesStream(es[pos[i]], stream) /\ w[x].stream = es[pos[i]].stream
      BY <1>4, <2>3, <3>1
    <3> QED BY <3>1, <3>2 DEF MatchesStream
  <2>5. ASSUME NEW k \in 1 .. Len(es), Covers(es[k], x), MatchesStream(w[x], stream)
        PROVE  \E i \in 1 .. Len(el) : Covers(el[i], x)
    <3>1. k \in places
      BY <1>4, <2>3, <2>5 DEF MatchesStream
    <3>2. PICK i \in 1 .. Len(el) : pos[i] = k
      BY <1>5, <3>1
    <3> QED BY <1>5, <2>5, <3>2
  <2> QED BY <2>1, <2>2, <2>4, <2>5
<1> QED BY <1>1, <1>6, <1>7, <1>8 DEF el

\* An event from a cursor on.
Late(e, minimum) == IF e.start < minimum THEN Trailing(e, minimum - e.start) ELSE e

\* What is left of an event from a cursor on is an event.
LEMMA LateTypes ==
  ASSUME NEW T, NEW e \in Events(T), NEW minimum \in Nat PROVE Late(e, minimum) \in Events(T)
<1>1. e.text \in Seq(T) /\ e.start \in Nat /\ Len(e.text) \in Nat
  BY MarkTypes
<1>2. CASE e.start < minimum
  <2> DEFINE n == minimum - e.start
  <2>1. n \in Nat
    BY <1>1, <1>2
  <2> HIDE DEF n
  <2>2. SubSeq(e.text, n + 1, Len(e.text)) \in Seq(T)
    <3>1. CASE n <= Len(e.text)
      <4>1. n \in 0 .. Len(e.text)
        BY <1>1, <2>1, <3>1
      <4> QED BY <1>1, <4>1, Dropped
    <3>2. CASE n > Len(e.text)
      <4>1. SubSeq(e.text, n + 1, Len(e.text)) = << >>
        BY <1>1, <2>1, <3>2, SubSeqEmpty
      <4> QED BY <4>1, EmptySeq
    <3> QED BY <1>1, <2>1, <3>1, <3>2
  <2>3. e.start + n \in Nat
    BY <1>1, <2>1
  <2>4. Trailing(e, n) \in Events(T)
    BY <2>2, <2>3 DEF Trailing, Events
  <2> QED BY <1>2, <2>4 DEF Late, n
<1>3. CASE ~(e.start < minimum)
  BY <1>3 DEF Late
<1> QED BY <1>2, <1>3

\* It covers the cursors of the event from there on.
LEMMA LateIs ==
  ASSUME NEW T, NEW e \in Events(T), NEW w, Placed(e, w), NEW minimum \in Nat,
         e.cursor >= minimum
  PROVE  LET r == Late(e, minimum)
         IN  /\ Placed(r, w) /\ r.stream = e.stream /\ r.start >= e.start
             /\ r.start + Len(r.text) = e.start + Len(e.text)
             /\ \A x \in Nat : Covers(r, x) <=> Covers(e, x) /\ x >= minimum
<1> DEFINE a == e.start
           l == Len(e.text)
           n == minimum - a
           r == Late(e, minimum)
<1>1. e.text \in Seq(T) /\ a \in Nat /\ l \in Nat
  BY MarkTypes
<1>2. a > 0 /\ l > 0 /\ e.cursor = a + l - 1
  BY DEF Placed
<1>3. CASE a < minimum
  <2>1. n \in 0 .. l - 1 /\ n \in 0 .. l /\ a + n = minimum
    <3> HIDE DEF a, l
    <3> QED BY <1>1, <1>2, <1>3
  <2>2. r = Trailing(e, n)
    BY <1>3 DEF Late
  <2> HIDE DEF n
  <2>3. Placed(Trailing(e, n), w)
    BY <2>1, TrailingPlaced
  <2>4. /\ Trailing(e, n).start = a + n /\ Trailing(e, n).stream = e.stream
        /\ Len(Trailing(e, n).text) = l - n
    BY <2>1, TrailingIs
  <2> HIDE DEF r
  <2>5. /\ Placed(r, w) /\ r.stream = e.stream /\ r.start = a + n /\ Len(r.text) = l - n
    BY <2>2, <2>3, <2>4
  <2> HIDE DEF a, l
  <2>6. r.start >= a /\ r.start + Len(r.text) = a + l
    BY <1>1, <2>1, <2>5
  <2>7. ASSUME NEW x \in Nat PROVE Covers(r, x) <=> Covers(e, x) /\ x >= minimum
    <3>1. Covers(r, x) <=> x \in a + n .. a + l - 1
      <4>1. Covers(r, x) <=> x \in r.start .. r.start + Len(r.text) - 1
        BY DEF Covers
      <4> DEFINE b == r.start
                 m == Len(r.text)
      <4>2. b = a + n /\ b + m = a + l /\ m = l - n
        BY <2>5, <2>6
      <4>3. Covers(r, x) <=> x \in b .. b + m - 1
        BY <4>1
      <4> HIDE DEF b, m
      <4> QED BY <1>1, <2>1, <4>2, <4>3
    <3>2. Covers(e, x) <=> x \in a .. a + l - 1
      BY DEF Covers, a, l
    <3> QED BY <1>1, <2>1, <3>1, <3>2
  <2> QED BY <2>5, <2>6, <2>7 DEF a, l, r
<1>4. CASE ~(a < minimum)
  <2>1. r = e
    BY <1>4 DEF Late
  <2>2. \A x \in Nat : Covers(e, x) => x >= minimum
    BY <1>1, <1>4 DEF Covers
  <2>3. a >= a
    BY <1>1
  <2> QED BY <2>1, <2>2, <2>3
<1> QED BY <1>3, <1>4

\* The text of one stream from a cursor on has the cursors of that stream from there on.
LEMMA FromIs ==
  ASSUME NEW T, NEW es \in Seq(Events(T)), Full(es), Orderly(es), NEW w, AllPlaced(es, w),
         NEW s, NEW minimum \in Nat
  PROVE  LET fr == From(es, s, minimum)
         IN  /\ fr \in Seq(Events(T)) /\ Full(fr) /\ Orderly(fr) /\ AllPlaced(fr, w)
             /\ \A x \in Nat : Holds(Cursors(fr), x) <=>
                               Holds(Cursors(es), x) /\ x >= minimum /\ w[x].stream = s
<1> DEFINE late == [k \in DOMAIN es |-> Late(es[k], minimum)]
           fr == From(es, s, minimum)
           places == {k \in DOMAIN es : es[k].stream = s /\ es[k].cursor >= minimum}
<1>1. /\ Len(es) \in Nat /\ DOMAIN es = 1 .. Len(es)
      /\ \A k \in 1 .. Len(es) : es[k] \in Events(T) /\ Placed(es[k], w)
  BY LenProperties, ElementOfSeq DEF AllPlaced
<1>2. /\ late \in Seq(Events(T)) /\ Len(late) = Len(es)
      /\ \A k \in 1 .. Len(es) : late[k] = Late(es[k], minimum)
  <2>1. late \in [1 .. Len(es) -> Events(T)]
        /\ \A k \in 1 .. Len(es) : late[k] = Late(es[k], minimum)
    BY <1>1, LateTypes
  <2> HIDE DEF late
  <2> QED BY <1>1, <2>1
<1>3. fr = Picked(late, places)
  BY DEF From, Late
<1>4. \A k \in 1 .. Len(es) : k \in places <=> es[k].stream = s /\ es[k].cursor >= minimum
  BY <1>1
<1> HIDE DEF late, fr, places
<1>5. fr \in Seq(Events(T)) /\ \E pos : Picks(fr, pos, late, places, Len(late))
  BY <1>2, <1>3, PickedIs
<1>6. PICK pos : Picks(fr, pos, late, places, Len(late))
  BY <1>5
<1>7. /\ \A i \in 1 .. Len(fr) : pos[i] \in 1 .. Len(es)
      /\ \A i, j \in 1 .. Len(fr) : i < j => pos[i] < pos[j]
      /\ \A i \in 1 .. Len(fr) : pos[i] \in places /\ fr[i] = Late(es[pos[i]], minimum)
      /\ \A k \in 1 .. Len(es) : k \in places => \E i \in 1 .. Len(fr) : pos[i] = k
  BY <1>2, <1>6 DEF Picks
<1>8. ASSUME NEW k \in 1 .. Len(es), k \in places
      PROVE  /\ Placed(Late(es[k], minimum), w)
             /\ Late(es[k], minimum).start >= es[k].start
             /\ Late(es[k], minimum).start + Len(Late(es[k], minimum).text)
                  = es[k].start + Len(es[k].text)
             /\ \A x \in Nat : Covers(Late(es[k], minimum), x) <=> Covers(es[k], x) /\ x >= minimum
  <2>1. es[k] \in Events(T) /\ Placed(es[k], w) /\ es[k].cursor >= minimum
    BY <1>1, <1>4, <1>8
  <2> QED BY <2>1, LateIs
<1>9. Full(fr) /\ AllPlaced(fr, w)
  <2>1. AllPlaced(fr, w)
    BY <1>7, <1>8 DEF AllPlaced
  <2> QED BY <2>1 DEF Full, AllPlaced, Placed
<1>10. Orderly(fr)
  <2>1. \A i \in 1 .. Len(fr) :
          /\ pos[i] \in 1 .. Len(es) /\ fr[i].start >= es[pos[i]].start
          /\ fr[i].start + Len(fr[i].text) = es[pos[i]].start + Len(es[pos[i]].text)
    BY <1>7, <1>8
  <2> QED BY <1>5, <1>7, <2>1, OrderlyPart
<1>11. ASSUME NEW x \in Nat
       PROVE  Holds(Cursors(fr), x) <=> Holds(Cursors(es), x) /\ x >= minimum /\ w[x].stream = s
  <2>1. Holds(Cursors(fr), x) <=> \E i \in 1 .. Len(fr) : Covers(fr[i], x)
    BY <1>5, CursorsHold
  <2>2. Holds(Cursors(es), x) <=> \E k \in 1 .. Len(es) : Covers(es[k], x)
    BY CursorsHold
  <2>3. ASSUME NEW k \in 1 .. Len(es), Covers(es[k], x)
        PROVE  w[x].stream = es[k].stream /\ (x >= minimum => es[k].cursor >= minimum)
    <3>1. es[k] \in Events(T) /\ Placed(es[k], w)
      BY <1>1
    <3>2. w[x].stream = es[k].stream /\ es[k].cursor = es[k].start + Len(es[k].text) - 1
      BY <2>3, <3>1, CoveredStream
    <3>3. x <= es[k].cursor /\ es[k].cursor \in Int
      <4>1. es[k].cursor \in Int /\ x \in es[k].start .. es[k].cursor
        BY <2>3, <3>1, <3>2, MarkTypes DEF Covers
      <4> QED BY <4>1
    <3> QED BY <3>2, <3>3
  <2>4. ASSUME NEW i \in 1 .. Len(fr), Covers(fr[i], x)
        PROVE  (\E k \in 1 .. Len(es) : Covers(es[k], x)) /\ x >= minimum /\ w[x].stream = s
    <3>1. pos[i] \in 1 .. Len(es) /\ pos[i] \in places /\ Covers(Late(es[pos[i]], minimum), x)
      BY <1>7, <2>4
    <3>2. Covers(es[pos[i]], x) /\ x >= minimum
      BY <1>8, <3>1
    <3>3. w[x].stream = es[pos[i]].stream /\ es[pos[i]].stream = s
      BY <1>4, <2>3, <3>1, <3>2
    <3> QED BY <3>1, <3>2, <3>3
  <2>5. ASSUME NEW k \in 1 .. Len(es), Covers(es[k], x), x >= minimum, w[x].stream = s
        PROVE  \E i \in 1 .. Len(fr) : Covers(fr[i], x)
    <3>1. k \in places
      BY <1>4, <2>3, <2>5
    <3>2. PICK i \in 1 .. Len(fr) : pos[i] = k
      BY <1>7, <3>1
    <3>3. fr[i] = Late(es[k], minimum) /\ Covers(Late(es[k], minimum), x)
      BY <1>7, <1>8, <2>5, <3>1, <3>2
    <3> QED BY <3>3
  <2> QED BY <2>1, <2>2, <2>4, <2>5
<1> QED BY <1>5, <1>9, <1>10, <1>11 DEF fr

----------------------------------------------------------------------------
(* The events of a selection *)

\* Events that lie in the history are labelled with their cursors.
LEMMA HonestIs ==
  ASSUME NEW T, NEW es \in Seq(Events(T)), AllPlaced(es, written)
  PROVE  Honest(es)
<1>1. DOMAIN es = 1 .. Len(es)
  BY EventTypes
<1>2. ASSUME NEW k \in 1 .. Len(es)
      PROVE  /\ es[k].text # << >>
             /\ es[k].cursor = es[k].start + Len(es[k].text) - 1
             /\ \A j \in DOMAIN es[k].text :
                  written[es[k].start + j - 1] = [stream |-> es[k].stream, char |-> es[k].text[j]]
  <2> DEFINE e == es[k]
  <2>1. e \in Events(T) /\ Placed(e, written)
    BY EventMark DEF AllPlaced
  <2> HIDE DEF e
  <2>2. e.text \in Seq(T) /\ Len(e.text) > 0
    BY <2>1, MarkTypes DEF Placed
  <2>3. DOMAIN e.text = 1 .. Len(e.text)
    BY <2>2, LenProperties
  <2>4. e.text # << >>
    BY <2>2
  <2> QED BY <2>1, <2>3, <2>4 DEF Placed, e
<1> QED BY <1>1, <1>2 DEF Honest

\* The events of the buffer are in order and hold the last characters.
LEMMA BufferOrder ==
  ASSUME BufferInv
  PROVE  /\ Window \in Seq(Nat) /\ Len(Window) = buffered /\ DOMAIN Window = 1 .. buffered
         /\ \A k \in 1 .. buffered : Window[k] = cursor - buffered + k
         /\ Growing(Window) /\ Cursors(events) = Window /\ Orderly(events)
         /\ \A x \in Nat : Holds(Window, x) <=> cursor - buffered < x /\ x <= cursor
<1>1. buffered \in Nat /\ cursor \in Nat /\ buffered <= cursor
  BY BufferChars DEF BufferInv
<1>2. Cursors(events) = Window
  BY DEF BufferInv, Window
<1>3. Window \in [1 .. buffered -> Nat] /\ \A k \in 1 .. buffered : Window[k] = cursor - buffered + k
  BY <1>1 DEF Window
<1>4. Window \in Seq(Nat) /\ Len(Window) = buffered /\ DOMAIN Window = 1 .. buffered
  BY <1>1, <1>3
<1>5. Growing(Window)
  BY <1>1, <1>3, <1>4 DEF Growing
<1>6. Orderly(events)
  BY <1>2, <1>5, GrowsOrderly DEF BufferInv
<1>7. ASSUME NEW x \in Nat
      PROVE  Holds(Window, x) <=> cursor - buffered < x /\ x <= cursor
  <2>1. ASSUME cursor - buffered < x, x <= cursor PROVE \E k \in 1 .. buffered : Window[k] = x
    <3> DEFINE k == x - (cursor - buffered)
    <3>1. k \in 1 .. buffered /\ cursor - buffered + k = x
      BY <1>1, <2>1
    <3> HIDE DEF k
    <3> QED BY <1>3, <3>1
  <2>2. ASSUME NEW k \in 1 .. buffered, Window[k] = x PROVE cursor - buffered < x /\ x <= cursor
    BY <1>1, <1>3, <2>2
  <2> QED BY <1>4, <2>1, <2>2 DEF Holds
<1> QED BY <1>2, <1>3, <1>4, <1>5, <1>6, <1>7

\* The events of a selection hold the retained characters of the selection.
LEMMA RetainedIs ==
  ASSUME BufferInv, NEW stream
  PROVE  LET el == Eligible(events, stream)
         IN  /\ el \in Seq(Events(Characters)) /\ Full(el) /\ AllPlaced(el, written)
             /\ Orderly(el) /\ Growing(Cursors(el)) /\ Cursors(el) = Retained(stream)
<1> DEFINE el == Eligible(events, stream)
           places == {k \in DOMAIN Window : MatchesStream(written[Window[k]], stream)}
           re == Retained(stream)
<1>1. /\ events \in Seq(Events(Characters)) /\ Full(events) /\ AllPlaced(events, written)
      /\ Orderly(events) /\ Cursors(events) = Window
      /\ Window \in Seq(Nat) /\ Len(Window) = buffered /\ DOMAIN Window = 1 .. buffered
      /\ Growing(Window)
  BY BufferOrder DEF BufferInv
<1>2. /\ el \in Seq(Events(Characters)) /\ Full(el) /\ Orderly(el) /\ AllPlaced(el, written)
      /\ \A x \in Nat : Holds(Cursors(el), x) <=>
                        Holds(Window, x) /\ MatchesStream(written[x], stream)
  BY <1>1, EligibleIs
<1>3. /\ re \in Seq(Nat) /\ Growing(re)
      /\ \A x : Holds(re, x) <=> \E k \in 1 .. Len(Window) : k \in places /\ Window[k] = x
  BY <1>1, PickedGrows DEF Retained
<1>4. \A k \in 1 .. Len(Window) : k \in places <=> MatchesStream(written[Window[k]], stream)
  BY <1>1
<1> HIDE DEF el, places, re
<1>5. Cursors(el) \in Seq(Nat) /\ Growing(Cursors(el))
  BY <1>2, OrderlyGrows, EventsLaid
<1>6. \A x \in Nat : Holds(Cursors(el), x) <=> Holds(re, x)
  BY <1>2, <1>3, <1>4 DEF Holds
<1>7. Cursors(el) = re
  BY <1>3, <1>5, <1>6, GrowingUnique
<1> QED BY <1>2, <1>5, <1>7 DEF el, re

----------------------------------------------------------------------------
(* The first characters *)

\* What an event cut to its first m characters holds.
LEMMA HeadingIs ==
  ASSUME NEW T, NEW e \in Events(T), NEW m \in 0 .. Len(e.text)
  PROVE  /\ Heading(e, m) \in Events(T)
         /\ Heading(e, m).start = e.start /\ Heading(e, m).cursor = e.start + m - 1
         /\ Heading(e, m).stream = e.stream /\ Len(Heading(e, m).text) = m
         /\ \A j \in 1 .. m : Heading(e, m).text[j] = e.text[j]
         /\ Mark(Heading(e, m)) = SubSeq(Mark(e), 1, m)
<1> DEFINE r == Heading(e, m)
           l == Len(e.text)
           a == e.start
           b == e.start + m - 1
           u == SubSeq(e.text, 1, m)
<1>1. /\ e.text \in Seq(T) /\ e.start \in Nat /\ e.cursor \in Int /\ e.stream \in Streams
      /\ l \in Nat /\ Mark(e) \in Seq(Nat) /\ Len(Mark(e)) = l
      /\ \A j \in 1 .. l : Mark(e)[j] = e.start + j - 1
  BY MarkTypes
<1>2. e = [start |-> e.start, cursor |-> e.cursor, stream |-> e.stream, text |-> e.text]
  BY DEF Events
<1>3. r = [start |-> e.start, cursor |-> b, stream |-> e.stream, text |-> u]
  <2> DEFINE mid == [e EXCEPT !.cursor = b]
  <2>1. r = [mid EXCEPT !.text = u]
    <3>1. r = [e EXCEPT !.cursor = b, !.text = u]
      BY DEF Heading
    <3> HIDE DEF r, b, u
    <3> QED BY <3>1
  <2> HIDE DEF b, u
  <2>2. \A v, c, s, t : [[start |-> v, cursor |-> c, stream |-> s, text |-> t] EXCEPT !.cursor = b]
                        = [start |-> v, cursor |-> b, stream |-> s, text |-> t]
    OBVIOUS
  <2>3. mid = [start |-> e.start, cursor |-> b, stream |-> e.stream, text |-> e.text]
    <3> DEFINE q == [start |-> e.start, cursor |-> e.cursor, stream |-> e.stream, text |-> e.text]
    <3>1. [q EXCEPT !.cursor = b] = [start |-> e.start, cursor |-> b, stream |-> e.stream, text |-> e.text]
      BY <2>2
    <3> HIDE DEF q
    <3>2. e = q
      BY <1>2 DEF q
    <3> QED BY <3>1, <3>2
  <2>4. \A v, c, s, t : [[start |-> v, cursor |-> c, stream |-> s, text |-> t] EXCEPT !.text = u]
                        = [start |-> v, cursor |-> c, stream |-> s, text |-> u]
    OBVIOUS
  <2> HIDE DEF mid, r
  <2>5. r = [start |-> e.start, cursor |-> b, stream |-> e.stream, text |-> u]
    BY <2>1, <2>3, <2>4
  <2> QED BY <2>5
<1>4. u \in Seq(T) /\ Len(u) = m /\ \A j \in 1 .. m : u[j] = e.text[j]
  BY <1>1, Taken
<1>5. b \in Int /\ m \in Nat
  BY <1>1
<1> HIDE DEF b, u
<1>6. r.start = a /\ r.cursor = b /\ r.stream = e.stream /\ r.text = u
  BY <1>3
<1>7. r \in Events(T)
  BY <1>1, <1>3, <1>4, <1>5 DEF Events
<1> HIDE DEF r
<1>8. /\ Mark(r) \in Seq(Nat) /\ Len(Mark(r)) = m
      /\ \A j \in 1 .. m : Mark(r)[j] = a + j - 1
  <2>1. /\ Mark(r) \in Seq(Nat) /\ Len(Mark(r)) = Len(r.text)
        /\ \A j \in 1 .. Len(r.text) : Mark(r)[j] = r.start + j - 1
    BY <1>7, MarkTypes
  <2> QED BY <1>4, <1>6, <2>1
<1>9. /\ SubSeq(Mark(e), 1, m) \in Seq(Nat) /\ Len(SubSeq(Mark(e), 1, m)) = m
      /\ \A j \in 1 .. m : SubSeq(Mark(e), 1, m)[j] = Mark(e)[j]
  <2>1. m \in 0 .. Len(Mark(e))
    BY <1>1
  <2> QED BY <1>1, <2>1, Taken
<1>10. ASSUME NEW j \in 1 .. m PROVE Mark(r)[j] = SubSeq(Mark(e), 1, m)[j]
  <2>1. j \in 1 .. l
    BY <1>1, <1>5
  <2> QED BY <1>1, <1>8, <1>9, <2>1
<1>11. Mark(r) = SubSeq(Mark(e), 1, m)
  BY <1>8, <1>9, <1>10, SeqEqual
<1> QED BY <1>4, <1>6, <1>7, <1>11 DEF r, b

\* The beginning of an event says as truly where it is.
LEMMA HeadingPlaced ==
  ASSUME NEW T, NEW e \in Events(T), NEW w, Placed(e, w), NEW m \in 1 .. Len(e.text),
         Len(w) \in Nat
  PROVE  Placed(Heading(e, m), w)
<1> DEFINE r == Heading(e, m)
           l == Len(e.text)
           a == e.start
<1>1. /\ l \in Nat /\ a \in Nat /\ a > 0 /\ e.cursor = a + l - 1 /\ e.cursor <= Len(w)
      /\ \A j \in 1 .. l : w[a + j - 1] = [stream |-> e.stream, char |-> e.text[j]]
  BY MarkTypes DEF Placed
<1>2. m \in 0 .. l /\ m > 0
  BY <1>1
<1>3. /\ r.start = a /\ r.cursor = a + m - 1 /\ r.stream = e.stream
      /\ Len(r.text) = m /\ \A j \in 1 .. m : r.text[j] = e.text[j]
  BY <1>2, HeadingIs
<1> HIDE DEF r, l, a
<1>4. ASSUME NEW j \in 1 .. m
      PROVE  w[r.start + j - 1] = [stream |-> r.stream, char |-> r.text[j]]
  <2>1. j \in 1 .. l
    BY <1>1, <1>2
  <2> QED BY <1>1, <1>3, <2>1
<1>5. a + m - 1 <= Len(w)
  BY <1>1, <1>2
<1> QED BY <1>1, <1>2, <1>3, <1>4, <1>5 DEF Placed, r

\* hs is the first t events, the last of them cut so that n characters remain.
HeadAt(hs, es, n, t) ==
  /\ Reaches(Bounds(es), n, t, Len(es))
  /\ hs = [k \in 1 .. t |-> Heading(es[k], Share(Bounds(es), n, k, Len(es[k].text)))]

\* The first events, the last of them cut, hold the first cursors.
LEMMA EventsTaken ==
  ASSUME NEW T, NEW es \in Seq(Events(T)), Full(es), NEW n \in Nat,
         NEW t \in 0 .. Len(es), NEW hs, HeadAt(hs, es, n, t)
  PROVE  /\ hs \in Seq(Events(T))
         /\ Cursors(hs) = SubSeq(Cursors(es), 1, Least(n, Chars(es)))
         /\ \A w : AllPlaced(es, w) /\ Len(w) \in Nat => AllPlaced(hs, w)
<1> DEFINE off == Bounds(es)
           N == Len(es)
           ms == Marks(es)
           share(k) == Share(off, n, k, Len(es[k].text))
           head == [k \in 1 .. t |-> SubSeq(ms[k], 1, share(k))]
<1>1. /\ ms \in Seq(Seq(Nat)) /\ Len(ms) = N /\ N \in Nat /\ t \in Nat /\ t <= N
      /\ \A k \in 1 .. N : Len(ms[k]) = Len(es[k].text) /\ Len(es[k].text) \in Nat
  <2>1. /\ ms \in Seq(Seq(Nat)) /\ Len(ms) = N /\ N \in Nat
        /\ \A k \in 1 .. N : Len(ms[k]) = Len(es[k].text) /\ Len(es[k].text) \in Nat
    BY EventTypes
  <2> HIDE DEF ms, N
  <2>2. t \in Nat /\ t <= N
    BY <2>1 DEF N
  <2> QED BY <2>1, <2>2
<1>2. Cursors(es) \in Seq(Nat) /\ Laid(ms, Cursors(es), off) /\ Len(Cursors(es)) = Chars(es)
  BY EventsLaid
<1>3. Reaches(off, n, t, N) /\ hs = [k \in 1 .. t |-> Heading(es[k], share(k))]
  BY DEF HeadAt
<1>4. /\ \A k \in 1 .. t : Share(off, n, k, Len(ms[k])) = share(k)
      /\ \A k \in 1 .. t : Len(ms[k]) = Len(es[k].text) /\ Len(es[k].text) > 0
  BY <1>1 DEF Full
<1> HIDE DEF ms, off
<1>5. /\ head \in Seq(Seq(Nat)) /\ FlattenSeq(head) = SubSeq(Cursors(es), 1, Least(n, Chars(es)))
      /\ \A k \in 1 .. t : share(k) \in 0 .. Len(es[k].text) /\ share(k) # 0
  <2> DEFINE part == OnlyFirst(ms, off, n, t)
  <2>1. /\ part \in Seq(Seq(Nat)) /\ FlattenSeq(part) = SubSeq(Cursors(es), 1, Least(n, Len(Cursors(es))))
        /\ \A k \in 1 .. t : /\ Share(off, n, k, Len(ms[k])) \in 0 .. Len(ms[k])
                             /\ Share(off, n, k, Len(ms[k])) = 0 => Len(ms[k]) = 0
    <3>1. N = Len(ms) /\ t \in 0 .. Len(ms)
      BY <1>1
    <3>2. Reaches(off, n, t, Len(ms))
      <4> HIDE DEF N
      <4> QED BY <1>3, <3>1
    <3>3. t \in 0 .. Len(ms) /\ Reaches(off, n, t, Len(ms))
      BY <3>1, <3>2
    <3> QED BY <1>1, <1>2, <3>3, LaidTake, SMTT(30)
  <2>2. part = head
    BY <1>4 DEF OnlyFirst
  <2>3. \A k \in 1 .. t : share(k) \in 0 .. Len(es[k].text) /\ share(k) # 0
    <3> TAKE k \in 1 .. t
    <3> DEFINE m == Share(off, n, k, Len(ms[k]))
    <3>1. m \in 0 .. Len(ms[k]) /\ (m = 0 => Len(ms[k]) = 0)
      BY <2>1
    <3>2. m = share(k) /\ Len(ms[k]) = Len(es[k].text) /\ Len(es[k].text) > 0
      BY <1>4
    <3>3. Len(es[k].text) \in Nat
      BY <1>1
    <3> HIDE DEF m, share, part
    <3> QED BY <3>1, <3>2, <3>3
  <2> HIDE DEF part, head
  <2> QED BY <1>2, <2>1, <2>2, <2>3
<1> HIDE DEF share
<1>6. ASSUME NEW k \in 1 .. t
      PROVE  /\ k \in 1 .. N /\ es[k] \in Events(T) /\ hs[k] = Heading(es[k], share(k))
             /\ hs[k] \in Events(T) /\ Mark(hs[k]) = head[k] /\ share(k) \in 1 .. Len(es[k].text)
  <2> DEFINE e == es[k]
             m == share(k)
  <2>1. k \in 1 .. N
    BY <1>1
  <2>2. e \in Events(T) /\ ms[k] = Mark(e)
    BY <2>1, EventMark DEF ms
  <2>3. hs[k] = Heading(e, m) /\ head[k] = SubSeq(ms[k], 1, m)
    BY <1>3
  <2>4. m \in 0 .. Len(e.text) /\ m \in 1 .. Len(e.text)
    <3>1. Len(e.text) \in Nat
      BY <1>1, <2>1
    <3> QED BY <1>5, <3>1
  <2> HIDE DEF e, m
  <2>5. Heading(e, m) \in Events(T) /\ Mark(Heading(e, m)) = SubSeq(Mark(e), 1, m)
    BY <2>2, <2>4, HeadingIs
  <2> QED BY <2>1, <2>2, <2>3, <2>4, <2>5 DEF e, m
<1> HIDE DEF head, N
<1>7. hs \in Seq(Events(T)) /\ Len(hs) = t
  <2>1. hs \in [1 .. t -> Events(T)]
    BY <1>3, <1>6
  <2> QED BY <1>1, <2>1
<1>8. Len(head) = t
  BY <1>1 DEF head
<1>9. Marks(hs) = head
  <2>1. Marks(hs) \in Seq(Seq(Nat)) /\ Len(Marks(hs)) = t
    BY <1>7, EventTypes
  <2>2. ASSUME NEW k \in 1 .. t PROVE Marks(hs)[k] = head[k]
    <3>1. Marks(hs)[k] = Mark(hs[k])
      BY <1>7, EventMark
    <3> QED BY <1>6, <3>1
  <2> QED BY <1>5, <1>8, <2>1, <2>2, SeqEqual
<1>10. Cursors(hs) = FlattenSeq(head)
  <2>1. Cursors(hs) = FlattenSeq(Marks(hs))
    BY DEF Cursors, Marks
  <2> QED BY <1>9, <2>1
<1>11. ASSUME NEW w, AllPlaced(es, w), Len(w) \in Nat PROVE AllPlaced(hs, w)
  <2> SUFFICES ASSUME NEW k \in 1 .. t PROVE Placed(hs[k], w)
    BY <1>7 DEF AllPlaced
  <2>1. Placed(es[k], w)
    BY <1>6, <1>11 DEF AllPlaced, N
  <2>2. Placed(Heading(es[k], share(k)), w)
    BY <1>6, <1>11, <2>1, HeadingPlaced
  <2> QED BY <1>6, <2>2
<1> QED BY <1>5, <1>7, <1>10, <1>11

\* TakeChars keeps the events that begin before the n-th character ends.
LEMMA TakeCharsIs ==
  ASSUME NEW T, NEW es \in Seq(Events(T)), Full(es), NEW n \in Nat
  PROVE  /\ TakeChars(es, n) \in Seq(Events(T))
         /\ Cursors(TakeChars(es, n)) = SubSeq(Cursors(es), 1, Least(n, Chars(es)))
         /\ \A w : AllPlaced(es, w) /\ Len(w) \in Nat => AllPlaced(TakeChars(es, n), w)
<1> DEFINE N == Len(es)
           off == Bounds(es)
           K == {k \in 1 .. N : off[k - 1] < n}
           t == Cardinality(K)
           hs == TakeChars(es, n)
<1>1. N \in Nat /\ DOMAIN es = 1 .. N /\ \A k \in 1 .. N : Len(es[k].text) \in Nat
  BY EventTypes
<1>2. /\ Laid(Marks(es), Cursors(es), off) /\ Cursors(es) \in Seq(Nat)
      /\ Marks(es) \in Seq(Seq(Nat)) /\ Len(Marks(es)) = N
      /\ \A k \in 0 .. N : Before(es, k + 1) = off[k] /\ off[k] \in Nat
  BY EventsLaid, EventTypes
<1>3. \A k \in 1 .. N : Before(es, k) = off[k - 1] /\ off[k - 1] \in Nat
  <2> TAKE k \in 1 .. N
  <2>1. k - 1 \in 0 .. N /\ (k - 1) + 1 = k
    BY <1>1
  <2> QED BY <1>2, <2>1
<1>4. {k \in DOMAIN es : Before(es, k) < n} = K
  BY <1>1, <1>3
<1> HIDE DEF off
<1>5. t \in 0 .. N /\ K = 1 .. t
  <2>1. K \in SUBSET (1 .. N)
    OBVIOUS
  <2>2. ASSUME NEW k \in K, NEW j \in 1 .. k PROVE j \in K
    <3>1. k \in 1 .. N /\ off[k - 1] < n /\ j \in 1 .. N /\ j - 1 \in 0 .. N /\ k - 1 \in j - 1 .. N
      BY <1>1
    <3>2. off[j - 1] <= off[k - 1]
      BY <1>2, <3>1, LaidGrows
    <3>3. off[j - 1] \in Nat /\ off[k - 1] \in Nat
      BY <1>3, <3>1
    <3> QED BY <3>1, <3>2, <3>3
  <2> HIDE DEF K, N
  <2> QED BY <1>1, <2>1, <2>2, Segment
<1>6. Reaches(off, n, t, N)
  <2> HIDE DEF t
  <2>1. \A i \in 1 .. t : off[i - 1] < n
    BY <1>5
  <2>2. ASSUME t < N PROVE n <= off[t]
    <3>1. t + 1 \in 1 .. N /\ (t + 1) - 1 = t
      BY <1>1, <1>5, <2>2
    <3>2. t + 1 \notin K
      BY <1>5
    <3>3. off[t] \in Nat
      BY <1>3, <3>1
    <3> QED BY <3>1, <3>2, <3>3
  <2> QED BY <2>1, <2>2 DEF Reaches
<1>7. hs = [k \in 1 .. t |-> Heading(es[k], Min({Len(es[k].text), n - Before(es, k)}))]
  <2> HIDE DEF K, t
  <2> QED BY <1>4, <1>5 DEF TakeChars
<1>8. ASSUME NEW k \in 1 .. t
      PROVE  Min({Len(es[k].text), n - Before(es, k)}) = Share(off, n, k, Len(es[k].text))
  <2> DEFINE b == off[k - 1]
             l == Len(es[k].text)
  <2>1. k \in 1 .. N
    BY <1>1, <1>5
  <2>2. Before(es, k) = b /\ b \in Nat /\ l \in Nat
    BY <1>1, <1>3, <2>1
  <2>3. Share(off, n, k, l) = IF l <= n - b THEN l ELSE n - b
    BY DEF Share
  <2> HIDE DEF b, l
  <2>4. Min({l, n - b}) = Least(l, n - b)
    <3>1. n - b \in Int /\ l \in Int
      BY <2>2
    <3> QED BY <3>1, MinLeast
  <2>5. Min({l, n - b}) = IF l <= n - b THEN l ELSE n - b
    BY <2>4 DEF Least
  <2> QED BY <2>2, <2>3, <2>5 DEF l
<1>9. HeadAt(hs, es, n, t)
  <2> HIDE DEF t, K
  <2>1. hs = [k \in 1 .. t |-> Heading(es[k], Share(off, n, k, Len(es[k].text)))]
    BY <1>7, <1>8
  <2> QED BY <1>6, <2>1 DEF HeadAt, off
<1> HIDE DEF hs, t
<1>10. /\ hs \in Seq(Events(T))
       /\ Cursors(hs) = SubSeq(Cursors(es), 1, Least(n, Chars(es)))
       /\ \A w : AllPlaced(es, w) /\ Len(w) \in Nat => AllPlaced(hs, w)
  BY <1>5, <1>9, EventsTaken
<1> QED BY <1>10 DEF hs

----------------------------------------------------------------------------
(* Lines *)

\* A set of numbers that is not empty has a least one.
LEMMA MinIs ==
  ASSUME NEW S, S \subseteq Nat, S # {}
  PROVE  Min(S) \in S /\ \A y \in S : Min(S) <= y
<1> DEFINE R == {ss \in Nat \X Nat : ss[1] < ss[2]}
<1>1. PICK x \in S : \A y \in S : ~(<<y, x>> \in R)
  <2>1. IsWellFoundedOn(R, Nat)
    BY NatLess
  <2> HIDE DEF R
  <2> QED BY <2>1, WFMin
<1>2. ASSUME NEW y \in S PROVE x <= y
  <2>1. x \in Nat /\ y \in Nat /\ ~(<<y, x>> \in R)
    BY <1>1
  <2>2. ~(y < x)
    BY <2>1
  <2> QED BY <2>1, <2>2
<1>3. \E z \in S : \A y \in S : z <= y
  BY <1>2
<1> QED BY <1>3 DEF Min

\* The last member up to a place.
Latest(S, k, i) == k \in S /\ k <= i /\ \A j \in S : j <= i => j <= k

\* And one that is the last up to a place.
LEMMA LastUpTo ==
  ASSUME NEW S, S \subseteq Nat, NEW first \in S, NEW i \in Nat, first <= i
  PROVE  \E k : Latest(S, k, i)
<1> DEFINE H == {m \in Nat : first <= m => \E k : Latest(S, k, m)}
<1>1. 0 \in H
  <2>1. ASSUME first <= 0 PROVE Latest(S, first, 0)
    BY <2>1 DEF Latest
  <2> QED BY <2>1
<1>2. ASSUME NEW m \in Nat, m \in H PROVE m + 1 \in H
  <2> SUFFICES ASSUME first <= m + 1 PROVE \E k : Latest(S, k, m + 1)
    OBVIOUS
  <2>1. CASE m + 1 \in S
    <3>1. Latest(S, m + 1, m + 1)
      BY <2>1 DEF Latest
    <3> QED BY <3>1
  <2>2. CASE m + 1 \notin S
    <3>1. first <= m
      <4>1. first \in Nat /\ first # m + 1
        BY <2>2
      <4> QED BY <4>1
    <3>2. PICK k : Latest(S, k, m)
      <4> QED BY <1>2, <3>1
    <3>3. ASSUME NEW j \in S, j <= m + 1 PROVE j <= k
      <4>1. j \in Nat /\ j # m + 1
        BY <2>2
      <4>2. j <= m
        BY <3>3, <4>1
      <4> QED BY <3>2, <4>2 DEF Latest
    <3>4. k \in Nat /\ k <= m + 1
      BY <3>2 DEF Latest
    <3>5. Latest(S, k, m + 1)
      BY <3>2, <3>3, <3>4 DEF Latest
    <3> QED BY <3>5
  <2> QED BY <2>1, <2>2
<1>3. i \in H
  <2> HIDE DEF H
  <2>1. Nat \subseteq H
    BY <1>1, <1>2, NatSetInduction
  <2> QED BY <2>1
<1> QED BY <1>3

After(S, i) == {j \in S : j > i}

\* Fewer lines begin after a later place.
LEMMA AfterCounts ==
  ASSUME NEW len \in Nat, NEW S, S \subseteq 1 .. len, NEW i \in Nat
  PROVE  /\ IsFiniteSet(After(S, i)) /\ Cardinality(After(S, i)) \in Nat
         /\ \A h \in Nat : h <= i => Cardinality(After(S, i)) <= Cardinality(After(S, h))
         /\ i \in S => Cardinality({j \in S : j >= i}) = Cardinality(After(S, i)) + 1
<1>0. \A j \in S : j \in Nat
  OBVIOUS
<1>1. IsFiniteSet(S)
  <2>1. IsFiniteSet(1 .. len)
    BY FS_Interval
  <2> QED BY <2>1, FS_Subset
<1>2. \A h \in Nat : IsFiniteSet(After(S, h)) /\ Cardinality(After(S, h)) \in Nat
  <2> TAKE h \in Nat
  <2>1. After(S, h) \in SUBSET S
    BY DEF After
  <2>2. IsFiniteSet(After(S, h))
    BY <1>1, <2>1, FS_Subset
  <2> QED BY <2>2, FS_CardinalityType
<1>3. ASSUME NEW h \in Nat, h <= i PROVE Cardinality(After(S, i)) <= Cardinality(After(S, h))
  <2>1. After(S, i) \in SUBSET After(S, h)
    <3>1. \A j \in S : j > i => j > h
      <4> TAKE j \in S
      <4>1. j \in Nat
        BY <1>0
      <4> QED BY <1>3, <4>1
    <3> QED BY <3>1 DEF After
  <2> QED BY <1>2, <2>1, FS_Subset
<1>4. ASSUME i \in S PROVE Cardinality({j \in S : j >= i}) = Cardinality(After(S, i)) + 1
  <2>1. {j \in S : j >= i} = After(S, i) \cup {i} /\ i \notin After(S, i)
    <3>1. \A j \in S : j >= i <=> (j > i \/ j = i)
      BY <1>0
    <3>2. ~(i > i)
      OBVIOUS
    <3> QED BY <1>4, <3>1, <3>2 DEF After
  <2> QED BY <1>2, <2>1, FS_AddElement
<1> QED BY <1>2, <1>3, <1>4

\* The lines that begin at S and are among the last n begin at the first of them.
LastStarts(S, n) == {k \in S : Cardinality({j \in S : j >= k}) <= n}
Kept(S, len, n) == {i \in 1 .. len : Cardinality(After(S, i)) < n}

\* The places after which fewer than n lines begin are the last n lines.
LEMMA LinesKept ==
  ASSUME NEW len \in Nat, NEW S, S \subseteq 1 .. len, len > 0 => 1 \in S, NEW n \in Nat
  PROVE  /\ LastStarts(S, n) = {} => Kept(S, len, n) = {}
         /\ LastStarts(S, n) # {} =>
              /\ Min(LastStarts(S, n)) \in 1 .. len
              /\ Kept(S, len, n) = Min(LastStarts(S, n)) .. len
         /\ Cardinality(S) > n <=> len > 0 /\ 1 \notin LastStarts(S, n)
<1> DEFINE last == LastStarts(S, n)
           kept == Kept(S, len, n)
           count(i) == Cardinality(After(S, i))
<1>1. \A i \in Nat : count(i) \in Nat
  BY AfterCounts
<1>2. \A i, h \in Nat : h <= i => count(i) <= count(h)
  BY AfterCounts
<1>3. \A i \in S : i \in last <=> count(i) < n
  <2> TAKE i \in S
  <2>1. i \in Nat
    OBVIOUS
  <2>2. Cardinality({j \in S : j >= i}) = count(i) + 1 /\ count(i) \in Nat
    BY <2>1, AfterCounts
  <2> HIDE DEF count
  <2>3. i \in last <=> count(i) + 1 <= n
    BY <2>2 DEF LastStarts
  <2> QED BY <2>2, <2>3
<1>4. \A i \in 1 .. len : i \in kept <=> count(i) < n
  BY DEF Kept
<1>5. ASSUME NEW i \in kept PROVE \E k \in last : k <= i
  <2>1. i \in 1 .. len /\ i \in Nat /\ 1 \in S /\ 1 <= i
    BY DEF Kept
  <2>2. S \subseteq Nat
    OBVIOUS
  <2>6. PICK k : Latest(S, k, i)
    BY <2>1, <2>2, LastUpTo
  <2>3. k \in S /\ k <= i /\ \A j \in S : j <= i => j <= k
    BY <2>6 DEF Latest
  <2>4. After(S, k) = After(S, i)
    <3>1. \A j \in S : j \in Nat
      BY <2>2
    <3>2. \A j \in S : j > k <=> j > i
      <4> TAKE j \in S
      <4>1. j \in Nat /\ k \in Nat /\ i \in Nat /\ k <= i /\ (j <= i => j <= k)
        BY <2>1, <2>3, <3>1
      <4> HIDE DEF last, kept
      <4> QED BY <4>1
    <3> QED BY <3>2 DEF After
  <2>5. count(k) < n
    BY <1>4, <2>1, <2>4
  <2> HIDE DEF count, last
  <2> QED BY <1>3, <2>3, <2>5
<1>6. last \subseteq S /\ kept \subseteq 1 .. len
  BY DEF LastStarts, Kept
<1> HIDE DEF last, kept, count
<1>7. last = {} => kept = {}
  BY <1>5
<1>8. ASSUME last # {} PROVE Min(last) \in 1 .. len /\ kept = Min(last) .. len
  <2> DEFINE m == Min(last)
  <2>1. m \in last /\ \A y \in last : m <= y
    <3>1. last \subseteq Nat
      BY <1>6
    <3> QED BY <1>8, <3>1, MinIs
  <2> HIDE DEF m
  <2>2. m \in 1 .. len /\ m \in Nat /\ count(m) < n
    BY <1>3, <1>6, <2>1
  <2>3. ASSUME NEW i \in 1 .. len PROVE i \in kept <=> m <= i
    <3>1. ASSUME m <= i PROVE i \in kept
      <4>1. i \in Nat /\ count(i) <= count(m) /\ count(i) \in Nat /\ count(m) \in Nat
        BY <1>1, <1>2, <2>2, <3>1
      <4>2. count(i) < n
        BY <2>2, <4>1
      <4> QED BY <1>4, <4>2
    <3>2. ASSUME i \in kept PROVE m <= i
      <4>1. PICK k \in last : k <= i
        BY <1>5, <3>2
      <4>2. m <= k /\ k \in Nat
        BY <1>6, <2>1, <4>1
      <4> QED BY <2>2, <4>1, <4>2
    <3> QED BY <3>1, <3>2
  <2>4. kept = m .. len
    <3>1. ASSUME NEW i \in kept PROVE i \in m .. len
      <4>1. i \in 1 .. len /\ m <= i
        BY <1>6, <2>3, <3>1
      <4> QED BY <2>2, <4>1
    <3>2. ASSUME NEW i \in m .. len PROVE i \in kept
      <4>1. i \in 1 .. len /\ m <= i
        BY <2>2
      <4> QED BY <2>3, <4>1
    <3> QED BY <3>1, <3>2
  <2> QED BY <2>2, <2>4 DEF m
<1>9. Cardinality(S) > n <=> len > 0 /\ 1 \notin last
  <2>1. CASE len > 0
    <3>1. 1 \in S
      BY <2>1
    <3>2. S = {j \in S : j >= 1}
      <4>1. \A j \in S : j >= 1
        OBVIOUS
      <4> QED BY <4>1
    <3>3. Cardinality({j \in S : j >= 1}) = count(1) + 1
      BY <3>1, AfterCounts DEF count
    <3>4. Cardinality(S) = count(1) + 1 /\ count(1) \in Nat
      BY <1>1, <3>2, <3>3
    <3>5. 1 \in last <=> count(1) < n
      BY <1>3, <3>1
    <3> QED BY <2>1, <3>4, <3>5
  <2>2. CASE ~(len > 0)
    <3>1. S = {}
      BY <2>2
    <3>2. Cardinality(S) = 0
      BY <3>1, FS_EmptySet
    <3> QED BY <2>2, <3>2
  <2> QED BY <2>1, <2>2
<1> QED BY <1>7, <1>8, <1>9 DEF last, kept

\* A line begins after each break: the starts after a place are the breaks from there on.
Starts(B, len) == {k \in 1 .. len : k = 1 \/ k - 1 \in B}

\* As many lines begin after a place as there are breaks from there to the last but one.
LEMMA BreaksCount ==
  ASSUME NEW len \in Nat, NEW B, NEW i \in 1 .. len
  PROVE  Cardinality({k \in i .. len - 1 : k \in B}) = Cardinality(After(Starts(B, len), i))
<1> DEFINE K == {k \in i .. len - 1 : k \in B}
           A == After(Starts(B, len), i)
           f == [k \in K |-> k + 1]
<1>1. IsFiniteSet(K)
  <2>1. IsFiniteSet(i .. len - 1)
    BY FS_Interval
  <2>2. K \in SUBSET (i .. len - 1)
    OBVIOUS
  <2> HIDE DEF K
  <2> QED BY <2>1, <2>2, FS_Subset
<1>2. \A k \in K : k + 1 \in A
  BY DEF After, Starts
<1>3. ASSUME NEW a \in A PROVE a - 1 \in K /\ (a - 1) + 1 = a
  BY DEF After, Starts
<1>4. \A k \in K : k \in Int
  OBVIOUS
<1> HIDE DEF K, A
<1>5. f \in [K -> A] /\ \A k \in K : f[k] = k + 1
  BY <1>2
<1> HIDE DEF f
<1>6. f \in Injection(K, A)
  BY <1>4, <1>5 DEF Injection, IsInjective
<1>7. f \in Surjection(K, A)
  <2>1. \A a \in A : \E k \in K : f[k] = a
    BY <1>3, <1>5
  <2> QED BY <1>5, <2>1 DEF Surjection
<1>8. ExistsBijection(K, A)
  BY <1>6, <1>7 DEF ExistsBijection, Bijection
<1>9. Cardinality(A) = Cardinality(K)
  BY <1>1, <1>8, FS_Bijection
<1> QED BY <1>9 DEF K, A

----------------------------------------------------------------------------
(* Selections *)

\* What a selection is made from.
LEMMA SelectionIs ==
  ASSUME BufferInv, NEW stream
  PROVE  LET el == Eligible(events, stream)
             q == Retained(stream)
         IN  /\ el \in Seq(Events(Characters)) /\ Full(el) /\ AllPlaced(el, written)
             /\ q \in Seq(Nat) /\ Growing(q) /\ Cursors(el) = q
             /\ Len(q) = Chars(el) /\ Chars(el) \in Nat /\ Len(written) \in Nat
             /\ DOMAIN q = 1 .. Len(q)
<1> DEFINE el == Eligible(events, stream)
           q == Retained(stream)
<1>1. /\ el \in Seq(Events(Characters)) /\ Full(el) /\ AllPlaced(el, written)
      /\ Growing(Cursors(el)) /\ Cursors(el) = q
  BY RetainedIs
<1> HIDE DEF el, q
<1>2. Cursors(el) \in Seq(Nat) /\ Len(Cursors(el)) = Chars(el) /\ Chars(el) \in Nat
  BY <1>1, EventsLaid
<1>3. q \in Seq(Nat) /\ Growing(q) /\ Len(q) = Chars(el)
  BY <1>1, <1>2
<1>4. DOMAIN q = 1 .. Len(q)
  BY <1>3, LenProperties
<1>5. Len(written) \in Nat
  BY BufferChars DEF BufferInv
<1> QED BY <1>1, <1>2, <1>3, <1>4, <1>5 DEF el, q

\* expect and read with head: the first retained characters, at their cursors.
LEMMA HeadExact ==
  ASSUME BufferInv, NEW stream, NEW n \in Nat
  PROVE  Faithful(SelectHead(events, stream, n), FirstOf(Retained(stream), n))
<1> DEFINE el == Eligible(events, stream)
           q == Retained(stream)
           hs == TakeChars(el, n)
<1>1. /\ el \in Seq(Events(Characters)) /\ Full(el) /\ AllPlaced(el, written)
      /\ Cursors(el) = q /\ Len(q) = Chars(el) /\ Chars(el) \in Nat /\ Len(written) \in Nat
  BY SelectionIs
<1> HIDE DEF el, q
<1>2. /\ hs \in Seq(Events(Characters))
      /\ Cursors(hs) = SubSeq(Cursors(el), 1, Least(n, Chars(el)))
      /\ AllPlaced(hs, written)
  BY <1>1, TakeCharsIs
<1>3. SelectHead(events, stream, n) = hs
  BY DEF SelectHead, el
<1> HIDE DEF hs
<1>4. Honest(hs)
  BY <1>2, HonestIs
<1>5. Min({n, Len(q)}) = Least(n, Chars(el))
  <2>1. Min({n, Len(q)}) = Least(n, Len(q))
    BY <1>1, MinLeast
  <2> QED BY <1>1, <2>1
<1>6. Cursors(hs) = FirstOf(q, n)
  BY <1>1, <1>2, <1>5 DEF FirstOf
<1> QED BY <1>3, <1>4, <1>6 DEF Faithful, q

\* Events without their first characters are the history from there on.
LEMMA DropExact ==
  ASSUME BufferInv, NEW stream, NEW m \in 0 .. Len(Retained(stream))
  PROVE  Faithful(DropChars(Eligible(events, stream), m),
                  SubSeq(Retained(stream), m + 1, Len(Retained(stream))))
<1> DEFINE el == Eligible(events, stream)
           q == Retained(stream)
           ds == DropChars(el, m)
<1>1. /\ el \in Seq(Events(Characters)) /\ Full(el) /\ AllPlaced(el, written)
      /\ Cursors(el) = q /\ Len(q) = Chars(el) /\ m \in 0 .. Len(q)
  BY SelectionIs
<1> HIDE DEF el, q
<1>2. /\ ds \in Seq(Events(Characters)) /\ EndsOf(ds, el)
      /\ Cursors(ds) = SubSeq(Cursors(el), m + 1, Chars(el))
  BY <1>1, DropCharsIs
<1> HIDE DEF ds
<1>3. AllPlaced(ds, written)
  BY <1>1, <1>2, EndsPlaced
<1>4. Honest(ds)
  BY <1>2, <1>3, HonestIs
<1>5. Cursors(ds) = SubSeq(q, m + 1, Len(q))
  BY <1>1, <1>2
<1> QED BY <1>4, <1>5 DEF Faithful, ds, el, q

\* read with tail: the last retained characters, at their cursors.
LEMMA TailExact ==
  ASSUME BufferInv, NEW stream, NEW n \in Nat
  PROVE  Faithful(SelectTail(events, stream, n), LastOf(Retained(stream), n))
<1> DEFINE q == Retained(stream)
           m == Max({0, Len(q) - n})
<1>1. Len(q) = Chars(Eligible(events, stream)) /\ Len(q) \in Nat
  BY SelectionIs
<1> HIDE DEF q
<1>2. m \in 0 .. Len(q)
  <2> DEFINE x == Len(q) - n
  <2>1. x \in Int /\ x <= Len(q)
    BY <1>1
  <2> HIDE DEF x
  <2>2. Max({0, x}) = IF x > 0 THEN x ELSE 0
    BY <2>1, MaxZero
  <2>3. m = Max({0, x})
    BY DEF x
  <2> HIDE DEF m
  <2> QED BY <1>1, <2>1, <2>2, <2>3
<1> HIDE DEF m
<1>3. Faithful(DropChars(Eligible(events, stream), m), SubSeq(q, m + 1, Len(q)))
  BY <1>2, DropExact DEF q
<1>4. SelectTail(events, stream, n) = DropChars(Eligible(events, stream), m)
  BY <1>1 DEF SelectTail, m
<1>5. LastOf(q, n) = SubSeq(q, m + 1, Len(q))
  BY DEF LastOf, m
<1> QED BY <1>3, <1>4, <1>5 DEF q

\* What is picked from a place on, or nowhere.
LEMMA PickedEnd ==
  ASSUME NEW q \in Seq(Nat), Growing(q), NEW m \in 1 .. Len(q)
  PROVE  Picked(q, m .. Len(q)) = SubSeq(q, m, Len(q))
<1> DEFINE l == Len(q)
           a == m - 1
           p == Picked(q, m .. l)
           r == SubSeq(q, a + 1, l)
<1>1. l \in Nat /\ m \in Nat /\ a \in 0 .. l /\ a + 1 = m /\ \A k \in 1 .. l : q[k] \in Nat
  BY LenProperties, ElementOfSeq
<1>2. /\ r \in Seq(Nat) /\ Len(r) = l - a /\ \A j \in 1 .. l - a : r[j] = q[a + j]
  <2> HIDE DEF a
  <2> QED BY <1>1, Dropped
<1>3. /\ p \in Seq(Nat) /\ Growing(p)
      /\ \A x : Holds(p, x) <=> \E k \in 1 .. l : k \in m .. l /\ q[k] = x
  BY PickedGrows
<1>4. \A i, j \in 1 .. l : i < j => q[i] < q[j]
  BY DEF Growing
<1> HIDE DEF p, r, a, l
<1>5. Growing(r)
  <2> SUFFICES ASSUME NEW i \in 1 .. l - a, NEW j \in 1 .. l - a, i < j PROVE r[i] < r[j]
    BY <1>2 DEF Growing
  <2>1. a + i \in 1 .. l /\ a + j \in 1 .. l /\ a + i < a + j
    BY <1>1
  <2> QED BY <1>2, <1>4, <2>1
<1>6. ASSUME NEW x \in Nat PROVE Holds(p, x) <=> Holds(r, x)
  <2>1. ASSUME NEW k \in m .. l, q[k] = x PROVE Holds(r, x)
    <3> DEFINE j == k - a
    <3>1. j \in 1 .. l - a /\ a + j = k
      BY <1>1
    <3> HIDE DEF j
    <3> QED BY <1>2, <2>1, <3>1 DEF Holds
  <2>2. ASSUME NEW j \in 1 .. l - a, r[j] = x PROVE \E k \in 1 .. l : k \in m .. l /\ q[k] = x
    <3>1. a + j \in 1 .. l /\ a + j \in m .. l /\ q[a + j] = x
      BY <1>1, <1>2, <2>2
    <3> QED BY <3>1
  <2> QED BY <1>2, <1>3, <2>1, <2>2 DEF Holds
<1>7. p = r
  BY <1>2, <1>3, <1>5, <1>6, GrowingUnique
<1> QED BY <1>1, <1>7 DEF p, r, l

\* Nothing is picked at no place.
LEMMA PickedNone ==
  ASSUME NEW q \in Seq(Nat), Growing(q)
  PROVE  Picked(q, {}) = << >>
<1> DEFINE p == Picked(q, {})
<1>1. p \in Seq(Nat) /\ \A x : ~Holds(p, x)
  BY PickedGrows
<1> HIDE DEF p
<1>2. Len(p) \in Nat
  BY <1>1, LenProperties
<1>3. Len(p) = 0
  <2>1. SUFFICES ASSUME 1 \in 1 .. Len(p) PROVE FALSE
    BY <1>2
  <2>2. Holds(p, p[1])
    BY <2>1 DEF Holds
  <2> QED BY <1>1, <2>2
<1>4. p = << >>
  BY <1>1, <1>3, EmptySeq
<1> QED BY <1>4 DEF p

\* The lines of a selection, as its text and as the history tell them.
LEMMA LinesAre ==
  ASSUME BufferInv, NEW stream, NEW n \in Nat
  PROVE  LET q == Retained(stream)
             starts == LineStarts(Text(Eligible(events, stream)))
         IN  /\ starts \subseteq 1 .. Len(q) /\ (Len(q) > 0 => 1 \in starts)
             /\ LastLines(q, n) = Picked(q, Kept(starts, Len(q), n))
<1> DEFINE el == Eligible(events, stream)
           q == Retained(stream)
           len == Len(q)
           H == Text(el)
           B == {k \in 1 .. len : H[k] = Newline}
           starts == LineStarts(H)
           Broken(i) == {k \in i .. len - 1 : written[q[k]].char = Newline}
<1>1. /\ el \in Seq(Events(Characters)) /\ AllPlaced(el, written) /\ Cursors(el) = q
      /\ len = Chars(el) /\ len \in Nat /\ Len(written) \in Nat /\ DOMAIN q = 1 .. len
  BY SelectionIs
<1>2. DOMAIN H = 1 .. len
  <2>1. H \in Seq(Characters) /\ Len(H) = Chars(el)
    BY <1>1, EventsLaid
  <2> HIDE DEF H, len
  <2> QED BY <1>1, <2>1, LenProperties
<1>3. \A k \in 1 .. len : written[q[k]].char = H[k]
  <2> TAKE k \in 1 .. len
  <2>1. k \in 1 .. Chars(el)
    BY <1>1
  <2> HIDE DEF el, q, H, len
  <2>2. written[Cursors(el)[k]].char = Text(el)[k]
    BY <1>1, <2>1, TextAt
  <2> QED BY <1>1, <2>2 DEF H
<1> HIDE DEF el, q, H, len
<1>4. starts = Starts(B, len)
  <2>1. ASSUME NEW k \in 1 .. len PROVE (k = 1 \/ H[k - 1] = Newline) <=> (k = 1 \/ k - 1 \in B)
    <3>1. k # 1 => k - 1 \in 1 .. len
      BY <1>1
    <3> QED BY <3>1
  <2> HIDE DEF B
  <2> QED BY <1>2, <2>1 DEF LineStarts, Starts
<1>5. ASSUME NEW i \in 1 .. len
      PROVE  Broken(i) = {k \in i .. len - 1 : k \in B}
  <2>1. \A k \in i .. len - 1 : k \in 1 .. len
    BY <1>1
  <2>2. \A k \in i .. len - 1 : written[q[k]].char = Newline <=> k \in B
    BY <1>3, <2>1
  <2> HIDE DEF B
  <2> QED BY <2>2
<1> HIDE DEF starts, B, Broken
<1>6. \A i \in 1 .. len : Cardinality(Broken(i)) = Cardinality(After(starts, i))
  BY <1>1, <1>4, <1>5, BreaksCount
<1>7. {i \in 1 .. len : Cardinality(Broken(i)) < n} = Kept(starts, len, n)
  BY <1>6 DEF Kept
<1>8. LastLines(q, n) = Picked(q, {i \in 1 .. len : Cardinality(Broken(i)) < n})
  BY <1>1 DEF LastLines, Broken, len
<1>9. starts \subseteq 1 .. len /\ (len > 0 => 1 \in starts)
  BY <1>1, <1>4 DEF Starts
<1> QED BY <1>7, <1>8, <1>9 DEF starts, q, len, H, el

\* The tail of wait: the last lines, and whether there were more.
LEMMA LinesExact ==
  ASSUME BufferInv, NEW stream, NEW n \in Nat
  PROVE  LET q == Retained(stream)
             lines == SelectTailLines(events, stream, n)
         IN  Faithful(lines[1], LastLines(q, n)) /\ (lines[2] <=> LastLines(q, n) # q)
<1> DEFINE el == Eligible(events, stream)
           q == Retained(stream)
           len == Len(q)
           starts == LineStarts(Text(el))
           last == LastStarts(starts, n)
           kept == Kept(starts, len, n)
           shown == IF last = {} THEN << >> ELSE DropChars(el, Min(last) - 1)
           more == Cardinality(starts) > n
           lines == SelectTailLines(events, stream, n)
<1>1. /\ q \in Seq(Nat) /\ Growing(q) /\ len \in Nat
  BY SelectionIs
<1>2. /\ starts \subseteq 1 .. len /\ (len > 0 => 1 \in starts)
      /\ LastLines(q, n) = Picked(q, kept)
  BY LinesAre
<1>3. lines[1] = shown /\ lines[2] = more
  <2>1. lines = << shown, more >>
    BY DEF SelectTailLines, LastStarts
  <2> HIDE DEF lines, shown, more
  <2> QED BY <2>1
<1> HIDE DEF starts, lines
<1>4. /\ last = {} => kept = {}
      /\ last # {} => Min(last) \in 1 .. len /\ kept = Min(last) .. len
      /\ more <=> len > 0 /\ 1 \notin last
  BY <1>1, <1>2, LinesKept
<1>8. \A k \in last : k \in starts
  BY DEF LastStarts
<1> HIDE DEF last, kept, len, q, el, more
<1>5. CASE last = {}
  <2>1. shown = << >> /\ LastLines(q, n) = << >>
    BY <1>1, <1>2, <1>4, <1>5, PickedNone
  <2>2. Faithful(<< >>, << >>)
    <3>1. << >> \in Seq(Events(Characters)) /\ Len(<< >>) = 0
      BY EmptySeq
    <3>2. AllPlaced(<< >>, written)
      BY <3>1 DEF AllPlaced
    <3>3. Honest(<< >>)
      BY <3>1, <3>2, HonestIs
    <3>4. Cursors(<< >>) = << >>
      <4>1. Marks(<< >>) \in Seq(Seq(Nat)) /\ Len(Marks(<< >>)) = 0
        BY <3>1, EventTypes
      <4>2. Cursors(<< >>) \in Seq(Nat) /\ Laid(Marks(<< >>), Cursors(<< >>), Bounds(<< >>))
        BY <3>1, EventsLaid
      <4>3. Len(Cursors(<< >>)) = 0
        BY <4>1, <4>2 DEF Laid
      <4> QED BY <4>2, <4>3, EmptySeq
    <3> QED BY <3>3, <3>4 DEF Faithful
  <2>3. len > 0 /\ 1 \notin last <=> << >> # q
    <3>1. len = 0 <=> q = << >>
      BY <1>1, EmptySeq DEF len
    <3> QED BY <1>1, <1>5, <3>1
  <2>4. Faithful(lines[1], LastLines(q, n))
    BY <1>3, <2>1, <2>2
  <2>5. lines[2] <=> LastLines(q, n) # q
    <3> HIDE DEF shown
    <3>1. lines[2] <=> len > 0 /\ 1 \notin last
      BY <1>3, <1>4
    <3>2. LastLines(q, n) # q <=> << >> # q
      BY <2>1
    <3> QED BY <2>3, <3>1, <3>2
  <2> QED BY <2>4, <2>5 DEF q, lines
<1>6. CASE last # {}
  <2> DEFINE m == Min(last)
             a == m - 1
             part == SubSeq(q, m, len)
  <2>1. m \in 1 .. len /\ kept = m .. len /\ a \in 0 .. len /\ a + 1 = m
    <3>1. m \in 1 .. len /\ kept = m .. len
      BY <1>4, <1>6
    <3> HIDE DEF m
    <3> QED BY <1>1, <3>1
  <2>2. LastLines(q, n) = part
    <3>1. Picked(q, m .. Len(q)) = SubSeq(q, m, Len(q))
      <4> HIDE DEF m
      <4> QED BY <1>1, <2>1, PickedEnd DEF len
    <3> QED BY <1>2, <2>1, <3>1 DEF len
  <2>3. Faithful(DropChars(el, a), SubSeq(q, a + 1, len))
    <3> HIDE DEF a
    <3> QED BY <2>1, DropExact DEF q, el, len
  <2>4. shown = DropChars(el, a)
    BY <1>6
  <2>5. Faithful(shown, part)
    <3> HIDE DEF shown
    <3> QED BY <2>1, <2>3, <2>4
  <2>6. 1 \in last <=> m = 1
    <3>1. last \subseteq Nat /\ \A y \in last : y >= 1
      <4>1. \A k \in last : k \in 1 .. len
        BY <1>2, <1>8
      <4> QED BY <1>1, <4>1
    <3>2. m \in last /\ \A y \in last : m <= y
      BY <1>6, <3>1, MinIs
    <3> HIDE DEF m
    <3>3. m \in Nat /\ m >= 1
      BY <3>1, <3>2
    <3> QED BY <3>2, <3>3
  <2>7. part # q <=> m # 1
    <3> HIDE DEF m, a
    <3>1. /\ SubSeq(q, a + 1, len) \in Seq(Nat) /\ Len(SubSeq(q, a + 1, len)) = len - a
          /\ \A j \in 1 .. len - a : SubSeq(q, a + 1, len)[j] = q[a + j]
      BY <1>1, <2>1, Dropped DEF len
    <3>2. /\ part \in Seq(Nat) /\ Len(part) = len - a /\ \A j \in 1 .. len - a : part[j] = q[a + j]
      BY <2>1, <3>1
    <3> HIDE DEF part
    <3>3. ASSUME m # 1 PROVE part # q
      <4>1. len - a # len
        BY <1>1, <2>1, <3>3
      <4> QED BY <3>2, <4>1 DEF len
    <3>4. ASSUME m = 1 PROVE part = q
      <4>1. a = 0 /\ len - a = len /\ \A j \in 1 .. len : a + j = j
        BY <1>1, <2>1, <3>4
      <4>2. Len(part) = Len(q) /\ \A j \in 1 .. Len(q) : part[j] = q[j]
        BY <3>2, <4>1 DEF len
      <4> QED BY <1>1, <3>2, <4>2, SeqEqual
    <3> QED BY <3>3, <3>4
  <2>8. len > 0
    <3> HIDE DEF m
    <3> QED BY <1>1, <2>1
  <2> HIDE DEF m, part, shown
  <2>9. Faithful(lines[1], LastLines(q, n))
    BY <1>3, <2>2, <2>5
  <2>10. lines[2] <=> LastLines(q, n) # q
    <3>1. lines[2] <=> len > 0 /\ 1 \notin last
      BY <1>3, <1>4
    <3>2. LastLines(q, n) # q <=> part # q
      BY <2>2
    <3> QED BY <2>6, <2>7, <2>8, <3>1, <3>2
  <2> QED BY <2>9, <2>10 DEF q, lines
<1> QED BY <1>5, <1>6

\* head, tail and the tail of wait give what the history says.
LEMMA SelectionsMean == BufferInv => SelectionsExact
<1> SUFFICES ASSUME BufferInv, NEW stream \in Selection, NEW n \in 0 .. MaxChars + 1
             PROVE  LET q == Retained(stream)
                        lines == SelectTailLines(events, stream, n)
                    IN  /\ n > 0 => /\ Faithful(SelectHead(events, stream, n), FirstOf(q, n))
                                    /\ Faithful(SelectTail(events, stream, n), LastOf(q, n))
                        /\ Faithful(lines[1], LastLines(q, n))
                        /\ lines[2] <=> LastLines(q, n) # q
  BY DEF SelectionsExact
<1>1. n \in Nat
  OBVIOUS
<1> QED BY <1>1, HeadExact, TailExact, LinesExact

----------------------------------------------------------------------------
(* The search *)

\* A number is at least the larger of two when it is at least each.
LEMMA MaxBoth ==
  ASSUME NEW x \in Int, NEW y \in Int
  PROVE  Max({x, y}) \in Int /\ \A z \in Int : z >= Max({x, y}) <=> z >= x /\ z >= y
<1> DEFINE m == IF x >= y THEN x ELSE y
<1>1. m \in {x, y} /\ \A z \in {x, y} : m >= z
  OBVIOUS
<1>2. \A z \in {x, y} : (\A v \in {x, y} : z >= v) => z = m
  OBVIOUS
<1>3. m \in Int /\ \A z \in Int : z >= m <=> z >= x /\ z >= y
  OBVIOUS
<1> HIDE DEF m
<1>4. Max({x, y}) = m
  BY <1>1, <1>2 DEF Max
<1> QED BY <1>3, <1>4

\* The cursors of one stream between two cursors.
Own(s, from, to) ==
  Picked([k \in 1 .. to |-> k], {q \in 1 .. to : q >= from /\ written[q].stream = s})
OwnText(s, from, to) ==
  [k \in DOMAIN Own(s, from, to) |-> written[Own(s, from, to)[k]].char]

\* They grow, and are those of the stream.
LEMMA OwnIs ==
  ASSUME NEW to \in Nat, NEW from \in Int, NEW s
  PROVE  /\ Own(s, from, to) \in Seq(Nat) /\ Growing(Own(s, from, to))
         /\ \A x : Holds(Own(s, from, to), x)
                     <=> x \in 1 .. to /\ x >= from /\ written[x].stream = s
<1> DEFINE all == [k \in 1 .. to |-> k]
           places == {q \in 1 .. to : q >= from /\ written[q].stream = s}
<1>1. all \in [1 .. to -> Nat] /\ \A k \in 1 .. to : all[k] = k
  OBVIOUS
<1> HIDE DEF all
<1>2. all \in Seq(Nat) /\ Len(all) = to
  BY <1>1
<1>3. Growing(all)
  BY <1>1, <1>2 DEF Growing
<1>4. Own(s, from, to) = Picked(all, places)
  BY DEF Own, all
<1>5. \A x : x \in places <=> x \in 1 .. to /\ x >= from /\ written[x].stream = s
  OBVIOUS
<1> HIDE DEF places
<1>6. /\ Own(s, from, to) \in Seq(Nat) /\ Growing(Own(s, from, to))
      /\ \A x : Holds(Own(s, from, to), x) <=> \E k \in 1 .. to : k \in places /\ all[k] = x
  BY <1>2, <1>3, <1>4, PickedGrows
<1>7. \A x : (\E k \in 1 .. to : k \in places /\ all[k] = x) <=> x \in 1 .. to /\ x \in places
  BY <1>1
<1> QED BY <1>5, <1>6, <1>7

\* What is searched is the text of the stream from the cursor on.
LEMMA SearchedIs ==
  ASSUME BufferInv, NEW s, NEW minimum \in Nat, NEW from \in Int,
         \A z \in Int : z >= from <=> z >= minimum /\ z >= cursor - buffered + 1
  PROVE  LET own == Own(s, from, cursor)
         IN  /\ own \in Seq(Nat) /\ Growing(own) /\ DOMAIN own = 1 .. Len(own)
             /\ Cursors(From(events, s, minimum)) = own
             /\ Text(From(events, s, minimum)) = OwnText(s, from, cursor)
             /\ Len(OwnText(s, from, cursor)) = Len(own)
             /\ \A k \in 1 .. Len(own) : written[own[k]].stream = s
<1> DEFINE own == Own(s, from, cursor)
           fr == From(events, s, minimum)
           H == Text(fr)
<1>1. /\ events \in Seq(Events(Characters)) /\ Full(events) /\ AllPlaced(events, written)
      /\ Orderly(events) /\ Cursors(events) = Window
      /\ \A x \in Nat : Holds(Window, x) <=> cursor - buffered < x /\ x <= cursor
  BY BufferOrder DEF BufferInv
<1>2. buffered \in Nat /\ cursor \in Nat /\ buffered <= cursor /\ Len(written) \in Nat
  BY BufferChars DEF BufferInv
<1>4. /\ own \in Seq(Nat) /\ Growing(own)
      /\ \A x : Holds(own, x) <=> x \in 1 .. cursor /\ x >= from /\ written[x].stream = s
  BY <1>2, OwnIs
<1>5. /\ fr \in Seq(Events(Characters)) /\ Orderly(fr) /\ AllPlaced(fr, written)
      /\ \A x \in Nat : Holds(Cursors(fr), x) <=>
                        Holds(Window, x) /\ x >= minimum /\ written[x].stream = s
  BY <1>1, FromIs
<1> HIDE DEF own, fr
<1>6. /\ Cursors(fr) \in Seq(Nat) /\ Growing(Cursors(fr)) /\ H \in Seq(Characters)
      /\ Len(Cursors(fr)) = Chars(fr) /\ Len(H) = Chars(fr)
  BY <1>5, OrderlyGrows, EventsLaid
<1>7. ASSUME NEW x \in Nat PROVE Holds(Cursors(fr), x) <=> Holds(own, x)
  <2>1. (cursor - buffered < x /\ x <= cursor /\ x >= minimum) <=> (x \in 1 .. cursor /\ x >= from)
    <3>1. x >= from <=> x >= minimum /\ x >= cursor - buffered + 1
      OBVIOUS
    <3> QED BY <1>2, <3>1
  <2> QED BY <1>1, <1>4, <1>5, <2>1
<1>8. Cursors(fr) = own
  BY <1>4, <1>6, <1>7, GrowingUnique
<1>9. DOMAIN own = 1 .. Len(own) /\ Len(own) \in Nat
  BY <1>4, LenProperties
<1>10. \A k \in 1 .. Len(own) : written[own[k]].char = H[k]
  <2> TAKE k \in 1 .. Len(own)
  <2>1. k \in 1 .. Chars(fr)
    BY <1>6, <1>8
  <2>2. written[Cursors(fr)[k]].char = Text(fr)[k]
    BY <1>2, <1>5, <2>1, TextAt
  <2> QED BY <1>8, <2>2
<1>11. H = OwnText(s, from, cursor)
  <2> HIDE DEF H
  <2>1. H = [k \in 1 .. Len(own) |-> H[k]]
    BY <1>6, <1>8
  <2>2. OwnText(s, from, cursor) = [k \in 1 .. Len(own) |-> written[own[k]].char]
    BY <1>9 DEF OwnText, own
  <2> QED BY <1>10, <2>1, <2>2
<1>12. \A k \in 1 .. Len(own) : written[own[k]].stream = s
  BY <1>4 DEF Holds
<1> QED BY <1>4, <1>6, <1>8, <1>9, <1>11, <1>12 DEF own, fr

\* A pattern is not empty.
LEMMA PatternTypes ==
  ASSUME NEW pattern \in Pattern PROVE Len(pattern) \in Nat /\ Len(pattern) > 0
<1>1. pattern \in Seq(Range(pattern)) /\ pattern # << >>
  BY TextAssumption, AskedAssumption
<1> DEFINE T == Range(pattern)
<1>2. pattern \in Seq(T)
  BY <1>1
<1> HIDE DEF T
<1> QED BY <1>1, <1>2, LenProperties, EmptySeq

\* Where the occurrences of a pattern end in the text of one stream.
Found(pattern, s, from, to) == Occurrences(OwnText(s, from, to), pattern)
EndAt(pattern, s, from, to, i) == Own(s, from, to)[i + Len(pattern) - 1]
Earliest(found) == {j \in found : \A k \in found : j <= k}

\* Occurrences end in the text, later ones later, and there is a first.
LEMMA FoundIs ==
  ASSUME NEW pattern \in Pattern, NEW to \in Nat, NEW from \in Int, NEW s,
         Len(OwnText(s, from, to)) = Len(Own(s, from, to))
  PROVE  LET found == Found(pattern, s, from, to)
         IN  /\ found \subseteq Nat \ {0}
             /\ \A i \in found : /\ i + Len(pattern) - 1 \in 1 .. Len(Own(s, from, to))
                                 /\ EndAt(pattern, s, from, to, i) \in Nat
             /\ \A i, j \in found : i <= j =>
                  EndAt(pattern, s, from, to, i) <= EndAt(pattern, s, from, to, j)
             /\ found # {} => Earliest(found) # {}
<1> DEFINE found == Found(pattern, s, from, to)
           own == Own(s, from, to)
           l == Len(pattern)
           len == Len(own)
<1>1. l \in Nat /\ l > 0
  BY PatternTypes
<1>2. own \in Seq(Nat) /\ Growing(own)
  BY OwnIs
<1>3. len \in Nat /\ \A k \in 1 .. len : own[k] \in Nat
  BY <1>2, LenProperties, ElementOfSeq
<1>4. \A i \in found : i \in 1 .. len - l + 1
  BY DEF Found, Occurrences
<1> HIDE DEF found, l
<1>5. \A i, j \in 1 .. len : i < j => own[i] < own[j]
  BY <1>2 DEF Growing
<1>6. \A i \in found : EndAt(pattern, s, from, to, i) = own[i + l - 1]
  BY DEF EndAt, l
<1> HIDE DEF own, len
<1>7. \A i \in found : i \in Nat \ {0} /\ i + l - 1 \in 1 .. len
  BY <1>1, <1>3, <1>4
<1>8. ASSUME NEW i \in found, NEW j \in found, i <= j PROVE own[i + l - 1] <= own[j + l - 1]
  <2>1. CASE i = j
    BY <1>3, <1>7, <2>1
  <2>2. CASE i < j
    <3>1. i + l - 1 < j + l - 1
      BY <1>1, <1>7, <2>2
    <3>2. own[i + l - 1] < own[j + l - 1]
      BY <1>5, <1>7, <3>1
    <3> QED BY <1>3, <1>7, <3>2
  <2> QED BY <1>7, <1>8, <2>1, <2>2
<1>9. ASSUME found # {} PROVE Earliest(found) # {}
  <2>1. found \subseteq Nat
    BY <1>7
  <2>2. Min(found) \in found /\ \A y \in found : Min(found) <= y
    BY <1>9, <2>1, MinIs
  <2> QED BY <2>2 DEF Earliest
<1>10. \A i \in found : own[i + l - 1] \in Nat
  BY <1>3, <1>7
<1> QED BY <1>6, <1>7, <1>8, <1>9, <1>10 DEF found, own, l, len

AskedStreams(stream) == {r \in Streams : stream \in {r, "both"}}
FirstEnds(pattern, s, from, to) ==
  {[stream |-> s, cursor |-> EndAt(pattern, s, from, to, i)] :
     i \in Earliest(Found(pattern, s, from, to))}
Candidates(pattern, stream, from, to) ==
  UNION {FirstEnds(pattern, s, from, to) : s \in AskedStreams(stream)}
First(candidates) ==
  IF candidates = {} THEN NoMatch
  ELSE CHOOSE m \in candidates : \A n \in candidates : m.cursor <= n.cursor

\* The ends of the reference search.
LEMMA EndsAre ==
  ASSUME NEW pattern, NEW stream, NEW from, NEW to, NEW x
  PROVE  x \in Ends(pattern, stream, from, to) <=>
           \E s \in AskedStreams(stream) : \E i \in Found(pattern, s, from, to) :
             x = EndAt(pattern, s, from, to, i)
<1> DEFINE Of(s) == {EndAt(pattern, s, from, to, i) : i \in Found(pattern, s, from, to)}
<1>1. Ends(pattern, stream, from, to) = UNION {Of(s) : s \in AskedStreams(stream)}
  BY DEF Ends, AskedStreams, Found, EndAt, OwnText, Own
<1>2. \A s : x \in Of(s) <=>
        \E i \in Found(pattern, s, from, to) : x = EndAt(pattern, s, from, to, i)
  OBVIOUS
<1> HIDE DEF Of
<1> QED BY <1>1, <1>2

\* The search of the code is one of the retained part of the history.
LEMMA FindIs ==
  ASSUME BufferInv, NEW pattern, NEW stream, NEW minimum \in Nat, NEW from \in Int,
         \A z \in Int : z >= from <=> z >= minimum /\ z >= cursor - buffered + 1
  PROVE  FindLiteral(events, pattern, stream, minimum)
           = First(Candidates(pattern, stream, from, cursor))
<1> DEFINE Matches(s) ==
             LET own   == From(events, s, minimum)
                 found == Occurrences(Text(own), pattern)
             IN  {[stream |-> s, cursor |-> Cursors(own)[i + Len(pattern) - 1]] :
                    i \in {j \in found : \A k \in found : j <= k}}
<1>1. ASSUME NEW s PROVE Matches(s) = FirstEnds(pattern, s, from, cursor)
  <2>1. /\ Cursors(From(events, s, minimum)) = Own(s, from, cursor)
        /\ Text(From(events, s, minimum)) = OwnText(s, from, cursor)
    BY SearchedIs
  <2> QED BY <2>1 DEF FirstEnds, Earliest, Found, EndAt
<1>2. FindLiteral(events, pattern, stream, minimum)
        = First(UNION {Matches(s) : s \in AskedStreams(stream)})
  BY DEF FindLiteral, First, AskedStreams
<1> HIDE DEF Matches
<1>3. {Matches(s) : s \in AskedStreams(stream)}
        = {FirstEnds(pattern, s, from, cursor) : s \in AskedStreams(stream)}
  BY <1>1
<1> QED BY <1>2, <1>3 DEF Candidates

\* The earliest of the first occurrences is the first of all ends.
LEMMA FirstIsReference ==
  ASSUME NEW pattern \in Pattern, NEW stream, NEW to \in Nat, NEW from \in Int,
         \A s : Len(OwnText(s, from, to)) = Len(Own(s, from, to)),
         \A s : \A k \in 1 .. Len(Own(s, from, to)) : written[Own(s, from, to)[k]].stream = s
  PROVE  LET ends == Ends(pattern, stream, from, to)
             match == First(Candidates(pattern, stream, from, to))
         IN  IF ends = {} THEN match = NoMatch
             ELSE match.cursor = Min(ends) /\ match.stream = written[Min(ends)].stream
<1> DEFINE ends == Ends(pattern, stream, from, to)
           cands == Candidates(pattern, stream, from, to)
           match == First(cands)
           found(s) == Found(pattern, s, from, to)
           End(s, i) == EndAt(pattern, s, from, to, i)
<1>1. \A x : x \in ends <=>
           \E s \in AskedStreams(stream) : \E i \in found(s) : x = End(s, i)
  BY EndsAre
<1>2. \A m : m \in cands <=>
           \E s \in AskedStreams(stream) : \E i \in Earliest(found(s)) :
             m = [stream |-> s, cursor |-> End(s, i)]
  BY DEF Candidates, FirstEnds
<1>3. ASSUME NEW s
      PROVE  /\ \A i \in found(s) : End(s, i) \in Nat /\ written[End(s, i)].stream = s
             /\ \A i, j \in found(s) : i <= j => End(s, i) <= End(s, j)
             /\ found(s) # {} => Earliest(found(s)) # {}
  <2>1. /\ \A i \in found(s) : /\ i + Len(pattern) - 1 \in 1 .. Len(Own(s, from, to))
                               /\ End(s, i) \in Nat
        /\ \A i, j \in found(s) : i <= j => End(s, i) <= End(s, j)
        /\ found(s) # {} => Earliest(found(s)) # {}
    BY FoundIs
  <2>2. \A i \in found(s) : written[End(s, i)].stream = s
    BY <2>1 DEF EndAt
  <2> QED BY <2>1, <2>2
<1>4. \A s : \A i \in Earliest(found(s)) : i \in found(s) /\ \A k \in found(s) : i <= k
  BY DEF Earliest
<1> HIDE DEF ends, cands, found, End, match
<1>5. CASE ends = {}
  <2>1. cands = {}
    BY <1>1, <1>2, <1>4, <1>5
  <2>2. match = NoMatch
    BY <2>1 DEF First, match
  <2> QED BY <1>5, <2>2 DEF ends, match, cands
<1>6. CASE ends # {}
  <2> DEFINE e == Min(ends)
  <2>1. ends \subseteq Nat
    BY <1>1, <1>3
  <2>2. e \in ends /\ \A y \in ends : e <= y
    BY <1>6, <2>1, MinIs
  <2> HIDE DEF e
  <2>3. PICK s \in AskedStreams(stream) : \E i \in found(s) : e = End(s, i)
    BY <1>1, <2>2
  <2>4. PICK j \in found(s) : e = End(s, j)
    BY <2>3
  <2>5. PICK i \in Earliest(found(s)) : TRUE
    BY <1>3, <2>4
  <2>6. i \in found(s) /\ i <= j
    BY <1>4, <2>4, <2>5
  <2>7. End(s, i) <= End(s, j) /\ End(s, i) \in ends
    BY <1>1, <1>3, <2>3, <2>4, <2>6
  <2>8. End(s, i) = e
    <3>1. e <= End(s, i) /\ End(s, i) <= e /\ e \in Nat /\ End(s, i) \in Nat
      BY <2>1, <2>2, <2>4, <2>7
    <3> QED BY <3>1
  <2> DEFINE best == [stream |-> s, cursor |-> e]
  <2>9. best \in cands
    BY <1>2, <2>3, <2>5, <2>8
  <2>10. \A m \in cands : m.cursor \in ends /\ m.stream = written[m.cursor].stream
    <3> TAKE m \in cands
    <3>1. PICK r \in AskedStreams(stream) : \E k \in Earliest(found(r)) :
            m = [stream |-> r, cursor |-> End(r, k)]
      BY <1>2
    <3>2. PICK k \in Earliest(found(r)) : m = [stream |-> r, cursor |-> End(r, k)]
      BY <3>1
    <3>3. m.stream = r /\ m.cursor = End(r, k) /\ k \in found(r)
      BY <1>4, <3>2
    <3>4. End(r, k) \in ends /\ written[End(r, k)].stream = r
      BY <1>1, <1>3, <3>1, <3>3
    <3> QED BY <3>3, <3>4
  <2>11. \A m \in cands : best.cursor <= m.cursor
    BY <2>2, <2>10
  <2>12. best.cursor = e
    OBVIOUS
  <2>13. match \in cands /\ \A m \in cands : match.cursor <= m.cursor
    <3>1. \E m \in cands : \A n \in cands : m.cursor <= n.cursor
      BY <2>9, <2>11
    <3>2. match = CHOOSE m \in cands : \A n \in cands : m.cursor <= n.cursor
      BY <2>9 DEF match, First
    <3> QED BY <3>1, <3>2
  <2> HIDE DEF best
  <2>14. match.cursor = e
    <3>1. match.cursor \in ends /\ match.cursor <= e /\ e <= match.cursor
      BY <2>2, <2>9, <2>10, <2>12, <2>13
    <3>2. match.cursor \in Nat /\ e \in Nat
      BY <2>1, <2>2, <3>1
    <3> QED BY <3>1, <3>2
  <2>15. match.stream = written[e].stream
    BY <2>10, <2>13, <2>14
  <2> QED BY <1>6, <2>14, <2>15 DEF ends, match, cands, e
<1> QED BY <1>5, <1>6

\* A search of the events gives what a search of the history would.
LEMMA FindMeans == BufferInv => FindIsReference
<1> SUFFICES ASSUME BufferInv, NEW pattern \in Pattern, NEW stream \in Selection,
                    NEW minimum \in 0 .. cursor + 1
             PROVE  LET from == Max({minimum, cursor - buffered + 1})
                        ends == Ends(pattern, stream, from, cursor)
                        match == FindLiteral(events, pattern, stream, minimum)
                    IN  IF ends = {} THEN match = NoMatch
                        ELSE match.cursor = Min(ends) /\ match.stream = written[Min(ends)].stream
  BY DEF FindIsReference
<1> DEFINE from == Max({minimum, cursor - buffered + 1})
<1>1. buffered \in Nat /\ cursor \in Nat
  BY BufferChars
<1>2. minimum \in Nat /\ from \in Int
      /\ \A z \in Int : z >= from <=> z >= minimum /\ z >= cursor - buffered + 1
  <2>1. cursor - buffered + 1 \in Int /\ minimum \in Int /\ minimum \in Nat
    BY <1>1
  <2> QED BY <2>1, MaxBoth
<1> HIDE DEF from
<1>3. FindLiteral(events, pattern, stream, minimum)
        = First(Candidates(pattern, stream, from, cursor))
  BY <1>2, FindIs
<1>4. /\ \A s : Len(OwnText(s, from, cursor)) = Len(Own(s, from, cursor))
      /\ \A s : \A k \in 1 .. Len(Own(s, from, cursor)) :
           written[Own(s, from, cursor)[k]].stream = s
  BY <1>2, SearchedIs
<1>5. LET ends == Ends(pattern, stream, from, cursor)
          match == First(Candidates(pattern, stream, from, cursor))
      IN  IF ends = {} THEN match = NoMatch
          ELSE match.cursor = Min(ends) /\ match.stream = written[Min(ends)].stream
  BY <1>1, <1>2, <1>4, FirstIsReference
<1> QED BY <1>3, <1>5 DEF from

\* head, tail and the tail of wait return exactly the first or last retained
\* characters or lines of the streams asked for, whatever was read and trimmed.
THEOREM SelectionsKept == Spec => []SelectionsExact
BY HistoryKept, SelectionsMean, PTL

\* expect finds a literal that was split by reads, by trimming or by output of the
\* other stream, where the retained history has its first occurrence, and no other.
THEOREM SearchKept == Spec => []FindIsReference
BY HistoryKept, FindMeans, PTL
============================================================================
