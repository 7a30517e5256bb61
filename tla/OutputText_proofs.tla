------------------------- MODULE OutputText_proofs -------------------------
(* What dropping and selecting do to a list of events, for every list, by   *)
(* induction over its length.  A list of sequences is laid over their       *)
(* concatenation at offsets; cutting the list cuts the concatenation.  The  *)
(* texts of the events and the cursors of their characters are two such     *)
(* lists with the same offsets, so that a cut keeps both in step.           *)
EXTENDS OutputText, WellFoundedInduction, SequenceTheorems, FiniteSetTheorems, TLAPS

----------------------------------------------------------------------------
(* Sequences laid over their concatenation *)

\* Induction over the natural numbers has a least counterexample.
LEMMA NatLess == IsWellFoundedOn({ss \in Nat \X Nat : ss[1] < ss[2]}, Nat)
  BY NatLessThanWellFounded DEF OpToRel

\* Induction over the natural numbers, for a set instead of a predicate.
LEMMA NatSetInduction ==
  ASSUME NEW S, 0 \in S, \A n \in Nat : n \in S => n + 1 \in S
  PROVE  Nat \subseteq S
<1> DEFINE R == {ss \in Nat \X Nat : ss[1] < ss[2]}
           T == Nat \ S
<1>1. SUFFICES ASSUME T # {} PROVE FALSE
  OBVIOUS
<1>2. PICK x \in T : \A y \in T : ~(<<y, x>> \in R)
  <2>1. T \subseteq Nat
    OBVIOUS
  <2>2. IsWellFoundedOn(R, Nat)
    BY NatLess
  <2> HIDE DEF T, R
  <2> QED BY <1>1, <2>1, <2>2, WFMin
<1>3. \A y \in T : ~(y < x)
  BY <1>2
<1>4. x # 0 /\ x - 1 \in Nat
  OBVIOUS
<1>5. x - 1 \in S
  BY <1>3, <1>4
<1> QED BY <1>4, <1>5

\* G has the given sequences as its consecutive pieces; off[i] is where the
\* i-th piece ends.
Laid(seqs, G, off) ==
  /\ off \in [0 .. Len(seqs) -> 0 .. Len(G)]
  /\ off[0] = 0 /\ off[Len(seqs)] = Len(G)
  /\ \A i \in 1 .. Len(seqs) :
       /\ off[i] = off[i - 1] + Len(seqs[i])
       /\ \A j \in 1 .. Len(seqs[i]) : G[off[i - 1] + j] = seqs[i][j]

\* Then it is their concatenation.
LEMMA FlattenIs ==
  ASSUME NEW T, NEW seqs \in Seq(Seq(T)), NEW G \in Seq(T), NEW off, Laid(seqs, G, off)
  PROVE  FlattenSeq(seqs) = G
<1>0. /\ off \in [0 .. Len(seqs) -> 0 .. Len(G)]
      /\ off[0] = 0 /\ off[Len(seqs)] = Len(G)
      /\ \A i \in 1 .. Len(seqs) :
           /\ off[i] = off[i - 1] + Len(seqs[i])
           /\ \A j \in 1 .. Len(seqs[i]) : G[off[i - 1] + j] = seqs[i][j]
  BY DEF Laid
<1> DEFINE n == Len(seqs)
           Piece(i) == SubSeq(G, 1, off[i])
           Body(f) == [i \in 1 .. n |-> IF i = 1 THEN seqs[i] ELSE f[i - 1] \o seqs[i]]
<1>1. /\ n \in Nat /\ DOMAIN seqs = 1 .. n
      /\ \A i \in 1 .. n : seqs[i] \in Seq(T) /\ Len(seqs[i]) \in Nat
  <2>1. n \in Nat /\ DOMAIN seqs = 1 .. n
    BY LenProperties
  <2>2. ASSUME NEW i \in 1 .. n PROVE seqs[i] \in Seq(T) /\ Len(seqs[i]) \in Nat
    <3>1. seqs[i] \in Seq(T)
      BY <2>2, ElementOfSeq
    <3> QED BY <3>1, LenProperties
  <2> QED BY <2>1, <2>2
<1>10. Len(G) \in Nat /\ \A j \in 1 .. Len(G) : G[j] \in T
  BY LenProperties, ElementOfSeq
<1>11. \A i \in 0 .. n : off[i] \in 0 .. Len(G)
  BY <1>0
<1>2. CASE n = 0
  <2>1. Len(seqs) = 0 /\ Len(G) = 0
    BY <1>0, <1>2
  <2>2. seqs = << >> /\ G = << >>
    BY <2>1, EmptySeq
  <2> QED BY <2>1, <2>2 DEF FlattenSeq
<1>3. CASE n # 0
  <2>1. ASSUME NEW i \in 0 .. n
        PROVE  /\ Piece(i) \in Seq(T) /\ Len(Piece(i)) = off[i]
               /\ \A j \in 1 .. off[i] : Piece(i)[j] = G[j]
    <3>1. off[i] \in Nat /\ \A j \in 1 .. off[i] : G[j] \in T
      BY <1>10, <1>11
    <3> QED BY <3>1, SubSeqProperties
  <2>2. ASSUME NEW i \in 1 .. n
        PROVE  Piece(i) = Piece(i - 1) \o seqs[i]
    <3> HIDE DEF Piece
    <3>0. /\ i - 1 \in 0 .. n /\ off[i - 1] \in Nat /\ off[i] = off[i - 1] + Len(seqs[i])
          /\ Piece(i - 1) \in Seq(T) /\ Len(Piece(i - 1)) = off[i - 1]
          /\ Piece(i) \in Seq(T) /\ Len(Piece(i)) = off[i]
          /\ seqs[i] \in Seq(T) /\ Len(seqs[i]) \in Nat
          /\ \A j \in 1 .. off[i] : Piece(i)[j] = G[j]
          /\ \A j \in 1 .. off[i - 1] : Piece(i - 1)[j] = G[j]
      <4>1. i \in 0 .. n /\ i - 1 \in 0 .. n
        BY <1>1
      <4>4. off[i - 1] \in Nat
        BY <1>10, <1>11, <4>1
      <4>2. /\ Piece(i - 1) \in Seq(T) /\ Len(Piece(i - 1)) = off[i - 1]
            /\ \A j \in 1 .. off[i - 1] : Piece(i - 1)[j] = G[j]
        BY <2>1, <4>1
      <4>3. /\ Piece(i) \in Seq(T) /\ Len(Piece(i)) = off[i]
            /\ \A j \in 1 .. off[i] : Piece(i)[j] = G[j]
        BY <2>1, <4>1
      <4> QED BY <1>0, <1>1, <4>1, <4>2, <4>3, <4>4
    <3> DEFINE both == Piece(i - 1) \o seqs[i]
    <3>1. /\ both \in Seq(T) /\ Len(both) = off[i]
          /\ \A j \in 1 .. off[i] :
               both[j] = IF j <= off[i - 1] THEN Piece(i - 1)[j]
                                            ELSE seqs[i][j - off[i - 1]]
      <4>1. /\ both \in Seq(T) /\ Len(both) = Len(Piece(i - 1)) + Len(seqs[i])
            /\ \A j \in 1 .. Len(Piece(i - 1)) + Len(seqs[i]) :
                 both[j] = IF j <= Len(Piece(i - 1)) THEN Piece(i - 1)[j]
                           ELSE seqs[i][j - Len(Piece(i - 1))]
        BY <3>0, ConcatProperties
      <4> QED BY <3>0, <4>1
    <3> HIDE DEF both
    <3>2. ASSUME NEW j \in 1 .. off[i] PROVE Piece(i)[j] = both[j]
      <4>2. CASE j <= off[i - 1]
        <5>1. j \in 1 .. off[i - 1]
          BY <3>0, <4>2
        <5>2. Piece(i - 1)[j] = G[j] /\ Piece(i)[j] = G[j]
          BY <3>0, <5>1
        <5>3. both[j] = Piece(i - 1)[j]
          BY <3>1, <4>2
        <5> QED BY <5>2, <5>3
      <4>3. CASE j > off[i - 1]
        <5>1. j - off[i - 1] \in 1 .. Len(seqs[i])
          BY <3>0, <4>3, SMTT(30)
        <5>2. G[off[i - 1] + (j - off[i - 1])] = seqs[i][j - off[i - 1]]
          BY <1>0, <5>1
        <5>3. off[i - 1] + (j - off[i - 1]) = j
          BY <3>0
        <5> QED BY <3>0, <3>1, <4>3, <5>2, <5>3, SMTT(30)
      <4> QED BY <3>0, <4>2, <4>3
    <3>3. Piece(i) = both
      BY <3>0, <3>1, <3>2, SeqEqual
    <3> QED BY <3>3 DEF both
  <2>3. Piece(0) = << >> /\ \A s \in Seq(T) : << >> \o s = s
    BY <1>0, SubSeqEmpty, ConcatEmptySeq
  <2> DEFINE flat == CHOOSE f : f = Body(f)
             whole == [i \in 1 .. n |-> Piece(i)]
  <2>4. \E f : f = Body(f)
    <3>1. ASSUME NEW i \in 1 .. n
          PROVE  Piece(i) = IF i = 1 THEN seqs[i] ELSE whole[i - 1] \o seqs[i]
      <4> HIDE DEF Piece
      <4>1. CASE i = 1
        <5>1. i - 1 = 0
          BY <4>1
        <5>2. Piece(i) = Piece(0) \o seqs[i]
          BY <2>2, <5>1
        <5>3. seqs[i] \in Seq(T)
          BY <1>1
        <5> QED BY <2>3, <4>1, <5>2, <5>3
      <4>2. CASE i # 1
        <5>1. i - 1 \in 1 .. n
          BY <1>1, <4>2
        <5> QED BY <2>2, <4>2, <5>1
      <4> QED BY <4>1, <4>2
    <3>2. whole = Body(whole)
      <4> HIDE DEF Piece
      <4> QED BY <3>1
    <3> HIDE DEF whole, Body
    <3> QED BY <3>2
  <2>5. flat = Body(flat)
    <3> HIDE DEF Body
    <3> QED BY <2>4
  <2>6. \A i \in 1 .. n : flat[i] = Piece(i)
    <3> DEFINE S == {i \in Nat : i \in 1 .. n => flat[i] = Piece(i)}
    <3>1. 0 \in S
      OBVIOUS
    <3>2. ASSUME NEW i \in Nat, i \in S, i + 1 \in 1 .. n PROVE flat[i + 1] = Piece(i + 1)
      <4>1. Body(flat)[i + 1] = IF i + 1 = 1 THEN seqs[i + 1] ELSE flat[i] \o seqs[i + 1]
        <5>1. (i + 1) - 1 = i
          BY <3>2
        <5> HIDE DEF flat
        <5> QED BY <3>2, <5>1
      <4> HIDE DEF flat, Piece, Body
      <4>2. Piece(i + 1) = Piece(i) \o seqs[i + 1]
        <5>1. (i + 1) - 1 = i
          BY <3>2
        <5> QED BY <2>2, <3>2, <5>1
      <4>3. flat[i + 1] = IF i + 1 = 1 THEN seqs[i + 1] ELSE flat[i] \o seqs[i + 1]
        BY <2>5, <4>1
      <4>4. CASE i = 0
        <5>1. seqs[1] \in Seq(T) /\ Piece(0) = << >> /\ i + 1 = 1
          BY <1>1, <2>3, <3>2, <4>4
        <5>2. flat[1] = seqs[1] /\ Piece(1) = Piece(0) \o seqs[1]
          BY <4>2, <4>3, <4>4, <5>1
        <5> QED BY <2>3, <4>4, <5>1, <5>2
      <4>5. CASE i # 0
        <5>1. i \in 1 .. n
          BY <1>1, <3>2, <4>5
        <5>2. flat[i] = Piece(i)
          BY <3>2, <5>1
        <5>3. i + 1 # 1
          BY <3>2, <4>5
        <5> QED BY <4>2, <4>3, <5>2, <5>3
      <4> QED BY <4>4, <4>5
    <3>3. Nat \subseteq S
      <4> HIDE DEF flat, Piece
      <4>1. ASSUME NEW i \in Nat, i \in S PROVE i + 1 \in S
        <5>1. i + 1 \in Nat
          BY <4>1
        <5>2. i + 1 \in 1 .. n => flat[i + 1] = Piece(i + 1)
          BY <3>2, <4>1
        <5> QED BY <5>1, <5>2
      <4> HIDE DEF S
      <4> QED BY <3>1, <4>1, NatSetInduction
    <3> HIDE DEF flat, Piece
    <3> QED BY <3>3
  <2>7. FlattenSeq(seqs) = flat[n]
    BY <1>3 DEF FlattenSeq
  <2>8. Piece(n) = G
    BY <1>0, SubSeqFull
  <2> HIDE DEF flat, Piece
  <2> QED BY <1>1, <1>3, <2>6, <2>7, <2>8
<1> QED BY <1>2, <1>3

\* What Laid says of the types and of the positions.
LEMMA LaidTypes ==
  ASSUME NEW T, NEW seqs \in Seq(Seq(T)), NEW G \in Seq(T), NEW off, Laid(seqs, G, off)
  PROVE  /\ Len(seqs) \in Nat /\ Len(G) \in Nat
         /\ \A i \in 0 .. Len(seqs) : off[i] \in Nat /\ off[i] <= Len(G)
         /\ \A i \in 1 .. Len(seqs) :
              /\ seqs[i] \in Seq(T) /\ Len(seqs[i]) \in Nat
              /\ off[i - 1] \in Nat /\ off[i] = off[i - 1] + Len(seqs[i])
<1>1. Len(seqs) \in Nat /\ Len(G) \in Nat
  BY LenProperties
<1>2. \A i \in 0 .. Len(seqs) : off[i] \in 0 .. Len(G)
  BY DEF Laid
<1>3. ASSUME NEW i \in 1 .. Len(seqs)
      PROVE  /\ seqs[i] \in Seq(T) /\ Len(seqs[i]) \in Nat
             /\ off[i - 1] \in Nat /\ off[i] = off[i - 1] + Len(seqs[i])
  <2>1. seqs[i] \in Seq(T)
    BY ElementOfSeq
  <2>2. i - 1 \in 0 .. Len(seqs)
    BY <1>1
  <2>3. off[i - 1] \in Nat
    BY <1>1, <1>2, <2>2
  <2>4. off[i] = off[i - 1] + Len(seqs[i])
    BY DEF Laid
  <2> QED BY <2>1, <2>3, <2>4, LenProperties
<1> QED BY <1>1, <1>2, <1>3

\* Later pieces end later.
LEMMA LaidGrows ==
  ASSUME NEW T, NEW seqs \in Seq(Seq(T)), NEW G \in Seq(T), NEW off, Laid(seqs, G, off),
         NEW i \in 0 .. Len(seqs), NEW j \in i .. Len(seqs)
  PROVE  off[i] <= off[j]
<1> DEFINE S == {m \in Nat : i + m <= Len(seqs) => off[i] <= off[i + m]}
<1>0. i \in Nat /\ j - i \in Nat /\ i + (j - i) = j /\ j <= Len(seqs)
  BY LaidTypes
<1>1. 0 \in S
  BY <1>0, LaidTypes
<1>2. ASSUME NEW m \in Nat, m \in S PROVE m + 1 \in S
  <2> SUFFICES ASSUME i + (m + 1) <= Len(seqs) PROVE off[i] <= off[i + (m + 1)]
    BY <1>2
  <2>1. off[i] <= off[i + m]
    BY <1>0, <1>2, LaidTypes
  <2>2. i + (m + 1) \in 1 .. Len(seqs) /\ (i + (m + 1)) - 1 = i + m
    BY <1>0, LaidTypes
  <2>3. \A k \in 1 .. Len(seqs) :
          Len(seqs[k]) \in Nat /\ off[k - 1] \in Nat /\ off[k] = off[k - 1] + Len(seqs[k])
    BY LaidTypes
  <2>4. off[i] \in Nat
    BY LaidTypes
  <2>5. off[i + (m + 1)] = off[i + m] + Len(seqs[i + (m + 1)])
        /\ off[i + m] \in Nat /\ Len(seqs[i + (m + 1)]) \in Nat
    BY <2>2, <2>3
  <2> QED BY <2>1, <2>4, <2>5
<1> HIDE DEF S
<1>3. Nat \subseteq S
  BY <1>1, <1>2, NatSetInduction
<1> QED BY <1>0, <1>3 DEF S

\* Pieces of the same lengths end at the same positions.
LEMMA SameOffsets ==
  ASSUME NEW T, NEW seqs \in Seq(Seq(T)), NEW G \in Seq(T), NEW off, Laid(seqs, G, off),
         NEW U, NEW others \in Seq(Seq(U)), NEW H \in Seq(U), NEW pos, Laid(others, H, pos),
         Len(seqs) = Len(others), \A i \in 1 .. Len(seqs) : Len(seqs[i]) = Len(others[i])
  PROVE  off = pos /\ Len(G) = Len(H)
<1> DEFINE S == {m \in Nat : m <= Len(seqs) => off[m] = pos[m]}
<1>0. Len(seqs) \in Nat
  BY LaidTypes
<1>1. 0 \in S
  BY DEF Laid
<1>2. ASSUME NEW m \in Nat, m \in S PROVE m + 1 \in S
  <2> SUFFICES ASSUME m + 1 <= Len(seqs) PROVE off[m + 1] = pos[m + 1]
    BY <1>2
  <2>1. m + 1 \in 1 .. Len(seqs) /\ (m + 1) - 1 = m /\ off[m] = pos[m]
    BY <1>0, <1>2
  <2>2. \A k \in 1 .. Len(seqs) : /\ off[k] = off[k - 1] + Len(seqs[k])
                                  /\ pos[k] = pos[k - 1] + Len(seqs[k])
    BY DEF Laid
  <2> QED BY <2>1, <2>2
<1> HIDE DEF S
<1>3. Nat \subseteq S
  BY <1>1, <1>2, NatSetInduction
<1>4. \A m \in 0 .. Len(seqs) : off[m] = pos[m]
  BY <1>0, <1>3 DEF S
<1>5. off = [m \in 0 .. Len(seqs) |-> off[m]] /\ pos = [m \in 0 .. Len(seqs) |-> pos[m]]
  BY DEF Laid
<1>6. off[Len(seqs)] = Len(G) /\ pos[Len(seqs)] = Len(H)
  BY DEF Laid
<1> QED BY <1>0, <1>4, <1>5, <1>6

\* One more piece.
LEMMA LaidAppend ==
  ASSUME NEW T, NEW seqs \in Seq(Seq(T)), NEW G \in Seq(T), NEW off, Laid(seqs, G, off),
         NEW s \in Seq(T)
  PROVE  Laid(Append(seqs, s), G \o s,
              [i \in 0 .. Len(seqs) + 1 |->
                 IF i <= Len(seqs) THEN off[i] ELSE Len(G) + Len(s)])
<1> DEFINE n == Len(seqs)
           more == Append(seqs, s)
           all == G \o s
           pos == [i \in 0 .. n + 1 |-> IF i <= n THEN off[i] ELSE Len(G) + Len(s)]
<1>1. /\ n \in Nat /\ Len(G) \in Nat /\ Len(s) \in Nat /\ off[0] = 0 /\ off[n] = Len(G)
      /\ \A i \in 0 .. n : off[i] \in Nat /\ off[i] <= Len(G)
  BY LaidTypes, LenProperties DEF Laid
<1>2. /\ Len(more) = n + 1 /\ more[n + 1] = s
      /\ \A i \in 1 .. n : more[i] = seqs[i]
  BY AppendProperties
<1>3. /\ Len(all) = Len(G) + Len(s)
      /\ \A j \in 1 .. Len(G) : all[j] = G[j]
      /\ \A j \in 1 .. Len(s) : all[Len(G) + j] = s[j]
  <2>1. /\ Len(all) = Len(G) + Len(s)
        /\ \A j \in 1 .. Len(G) + Len(s) :
             all[j] = IF j <= Len(G) THEN G[j] ELSE s[j - Len(G)]
    BY ConcatProperties
  <2> HIDE DEF all
  <2>2. ASSUME NEW j \in 1 .. Len(G) PROVE all[j] = G[j]
    BY <1>1, <2>1
  <2>3. ASSUME NEW j \in 1 .. Len(s) PROVE all[Len(G) + j] = s[j]
    <3>1. /\ Len(G) + j \in 1 .. Len(G) + Len(s) /\ ~(Len(G) + j <= Len(G))
          /\ (Len(G) + j) - Len(G) = j
      BY <1>1
    <3> QED BY <2>1, <3>1
  <2> QED BY <2>1, <2>2, <2>3
<1> HIDE DEF more, all
<1>4. pos \in [0 .. n + 1 -> 0 .. Len(all)]
  BY <1>1, <1>3
<1>5. pos[0] = 0 /\ pos[n + 1] = Len(all)
  BY <1>1, <1>3
<1>6. ASSUME NEW i \in 1 .. n + 1
      PROVE  /\ pos[i] = pos[i - 1] + Len(more[i])
             /\ \A j \in 1 .. Len(more[i]) : all[pos[i - 1] + j] = more[i][j]
  <2>1. CASE i <= n
    <3>1. i \in 1 .. n /\ i - 1 \in 0 .. n
      BY <1>1, <2>1
    <3>2. pos[i] = off[i] /\ pos[i - 1] = off[i - 1] /\ more[i] = seqs[i]
      BY <1>1, <1>2, <3>1
    <3>3. /\ off[i] = off[i - 1] + Len(seqs[i])
          /\ \A j \in 1 .. Len(seqs[i]) : G[off[i - 1] + j] = seqs[i][j]
      BY <3>1 DEF Laid
    <3>4. ASSUME NEW j \in 1 .. Len(seqs[i]) PROVE off[i - 1] + j \in 1 .. Len(G)
      <4>1. Len(seqs[i]) \in Nat
        BY <3>1, LaidTypes
      <4>2. off[i - 1] \in Nat /\ off[i] <= Len(G)
        BY <1>1, <3>1
      <4> QED BY <1>1, <3>3, <4>1, <4>2, SMTT(30)
    <3> HIDE DEF pos
    <3> QED BY <1>3, <3>2, <3>3, <3>4
  <2>2. CASE ~(i <= n)
    <3>1. i = n + 1 /\ i - 1 = n
      BY <1>1, <2>2
    <3>2. pos[i] = Len(G) + Len(s) /\ pos[i - 1] = Len(G) /\ more[i] = s
      BY <1>1, <1>2, <3>1
    <3> HIDE DEF pos
    <3> QED BY <1>3, <3>2
  <2> QED BY <2>1, <2>2
<1> HIDE DEF pos
<1>7. Laid(more, all, pos)
  BY <1>2, <1>4, <1>5, <1>6 DEF Laid
<1> QED BY <1>7 DEF more, all, pos

\* There is such a concatenation of any pieces.
LEMMA LaidExists ==
  ASSUME NEW T, NEW seqs \in Seq(Seq(T))
  PROVE  \E G \in Seq(T) : \E off : Laid(seqs, G, off)
<1> DEFINE Lies(s) == \E G \in Seq(T) : \E off : Laid(s, G, off)
           S == {n \in Nat : \A s \in Seq(Seq(T)) : Len(s) = n => Lies(s)}
<1>1. 0 \in S
  <2> SUFFICES ASSUME NEW s \in Seq(Seq(T)), Len(s) = 0 PROVE Lies(s)
    OBVIOUS
  <2> DEFINE none == [i \in 0 .. 0 |-> 0]
  <2>1. << >> \in Seq(T) /\ Len(<< >>) = 0
    BY EmptySeq
  <2>2. Laid(s, << >>, none)
    BY <2>1 DEF Laid
  <2> HIDE DEF none
  <2> QED BY <2>1, <2>2
<1>2. ASSUME NEW n \in Nat, n \in S PROVE n + 1 \in S
  <2> SUFFICES ASSUME NEW more \in Seq(Seq(T)), Len(more) = n + 1 PROVE Lies(more)
    BY <1>2
  <2>1. more # << >>
    BY EmptySeq
  <2>2. PICK some \in Seq(Seq(T)), s \in Seq(T) : more = Append(some, s)
    BY <2>1, SequenceEmptyOrAppend
  <2>3. Len(some) = n
    <3>1. Len(more) = Len(some) + 1 /\ Len(some) \in Nat
      BY <2>2, AppendProperties, LenProperties
    <3> QED BY <1>2, <3>1
  <2>4. Lies(some)
    BY <1>2, <2>3
  <2>5. PICK G \in Seq(T) : \E off : Laid(some, G, off)
    BY <2>4
  <2>6. G \o s \in Seq(T)
    BY ConcatProperties
  <2>7. \E pos : Laid(more, G \o s, pos)
    BY <2>2, <2>5, LaidAppend
  <2> QED BY <2>6, <2>7
<1> HIDE DEF S
<1>3. Nat \subseteq S
  BY <1>1, <1>2, NatSetInduction
<1>4. Len(seqs) \in Nat
  BY LenProperties
<1> QED BY <1>3, <1>4 DEF S

\* FlattenSeq lays the pieces one after the other.
LEMMA FlattenLaid ==
  ASSUME NEW T, NEW seqs \in Seq(Seq(T))
  PROVE  FlattenSeq(seqs) \in Seq(T) /\ \E off : Laid(seqs, FlattenSeq(seqs), off)
<1>1. PICK G \in Seq(T) : \E off : Laid(seqs, G, off)
  BY LaidExists
<1>2. FlattenSeq(seqs) = G
  BY <1>1, FlattenIs
<1> QED BY <1>1, <1>2

\* The first k pieces are laid over the beginning.
LEMMA LaidPrefix ==
  ASSUME NEW T, NEW seqs \in Seq(Seq(T)), NEW G \in Seq(T), NEW off, Laid(seqs, G, off),
         NEW k \in 0 .. Len(seqs)
  PROVE  /\ SubSeq(seqs, 1, k) \in Seq(Seq(T)) /\ SubSeq(G, 1, off[k]) \in Seq(T)
         /\ FlattenSeq(SubSeq(seqs, 1, k)) = SubSeq(G, 1, off[k])
         /\ Len(FlattenSeq(SubSeq(seqs, 1, k))) = off[k]
<1> DEFINE some == SubSeq(seqs, 1, k)
           part == SubSeq(G, 1, off[k])
           pos == [i \in 0 .. k |-> off[i]]
<1>1. /\ k \in Nat /\ Len(seqs) \in Nat /\ Len(G) \in Nat /\ k <= Len(seqs)
      /\ off[k] \in Nat /\ off[k] <= Len(G)
  BY LaidTypes
<1>2. some \in Seq(Seq(T)) /\ Len(some) = k /\ \A i \in 1 .. k : some[i] = seqs[i]
  <2>1. \A i \in 1 .. k : seqs[i] \in Seq(T)
    BY <1>1, LaidTypes
  <2> QED BY <1>1, <2>1, SubSeqProperties
<1>3. part \in Seq(T) /\ Len(part) = off[k] /\ \A j \in 1 .. off[k] : part[j] = G[j]
  <2>1. \A j \in 1 .. off[k] : G[j] \in T
    BY <1>1, ElementOfSeq
  <2> QED BY <1>1, <2>1, SubSeqProperties
<1>4. \A i \in 0 .. k : off[i] \in 0 .. off[k]
  BY <1>1, LaidTypes, LaidGrows
<1>5. Laid(some, part, pos)
  <2>1. pos \in [0 .. Len(some) -> 0 .. Len(part)]
    BY <1>2, <1>3, <1>4
  <2>2. pos[0] = 0 /\ pos[Len(some)] = Len(part)
    BY <1>1, <1>2, <1>3 DEF Laid
  <2>3. ASSUME NEW i \in 1 .. k
        PROVE  /\ pos[i] = pos[i - 1] + Len(some[i])
               /\ \A j \in 1 .. Len(some[i]) : part[pos[i - 1] + j] = some[i][j]
    <3>1. i \in 1 .. Len(seqs) /\ i - 1 \in 0 .. k /\ i \in 0 .. k
      BY <1>1
    <3>2. some[i] = seqs[i] /\ pos[i] = off[i] /\ pos[i - 1] = off[i - 1]
      BY <1>2, <3>1
    <3>3. /\ off[i] = off[i - 1] + Len(seqs[i])
          /\ \A j \in 1 .. Len(seqs[i]) : G[off[i - 1] + j] = seqs[i][j]
      BY <3>1 DEF Laid
    <3>4. off[i - 1] \in Nat /\ Len(seqs[i]) \in Nat /\ off[i] <= off[k]
      BY <1>1, <1>4, <3>1, LaidTypes
    <3>5. ASSUME NEW j \in 1 .. Len(seqs[i]) PROVE off[i - 1] + j \in 1 .. off[k]
      <4>1. off[i - 1] + j <= off[i] /\ off[i - 1] + j >= 1
        BY <3>3, <3>4
      <4>2. off[i] \in Nat /\ off[k] \in Nat
        BY <1>1, <3>3, <3>4
      <4> QED BY <3>4, <4>1, <4>2, SMTT(30)
    <3> HIDE DEF some, part, pos
    <3> QED BY <1>3, <3>2, <3>3, <3>5
  <2> HIDE DEF some, part, pos
  <2> QED BY <1>2, <2>1, <2>2, <2>3 DEF Laid
<1> HIDE DEF some, part, pos
<1>6. FlattenSeq(some) = part
  BY <1>2, <1>3, <1>5, FlattenIs
<1>7. SubSeq(seqs, 1, k) = some /\ SubSeq(G, 1, off[k]) = part
  BY DEF some, part
<1> QED BY <1>2, <1>3, <1>6, <1>7

----------------------------------------------------------------------------
(* The first and the last items *)

\* A sequence cut to its first n items, and without them.
LEMMA Taken ==
  ASSUME NEW T, NEW s \in Seq(T), NEW n \in 0 .. Len(s)
  PROVE  /\ SubSeq(s, 1, n) \in Seq(T) /\ Len(SubSeq(s, 1, n)) = n
         /\ \A j \in 1 .. n : SubSeq(s, 1, n)[j] = s[j]
<1>1. n \in Nat /\ Len(s) \in Nat /\ n <= Len(s)
  BY LenProperties
<1>2. \A j \in 1 .. n : s[j] \in T
  BY <1>1, ElementOfSeq
<1> QED BY <1>1, <1>2, SubSeqProperties

\* What a sequence without its first n elements holds.
LEMMA Dropped ==
  ASSUME NEW T, NEW s \in Seq(T), NEW n \in 0 .. Len(s)
  PROVE  /\ SubSeq(s, n + 1, Len(s)) \in Seq(T)
         /\ Len(SubSeq(s, n + 1, Len(s))) = Len(s) - n
         /\ \A j \in 1 .. Len(s) - n : SubSeq(s, n + 1, Len(s))[j] = s[n + j]
<1>1. n \in Nat /\ Len(s) \in Nat /\ n <= Len(s)
  BY LenProperties
<1>2. \A j \in n + 1 .. Len(s) : s[j] \in T
  BY <1>1, ElementOfSeq
<1> DEFINE rest == SubSeq(s, n + 1, Len(s))
<1>3. n + 1 \in Int /\ Len(s) \in Int
  BY <1>1
<1>4. /\ rest \in Seq(T)
      /\ Len(rest) = IF n + 1 <= Len(s) THEN Len(s) - (n + 1) + 1 ELSE 0
      /\ \A j \in 1 .. Len(s) - (n + 1) + 1 : rest[j] = s[(n + 1) + j - 1]
  BY <1>2, <1>3, SubSeqProperties
<1> HIDE DEF rest
<1>5. Len(rest) = Len(s) - n /\ Len(s) - (n + 1) + 1 = Len(s) - n
  BY <1>1, <1>4
<1>6. ASSUME NEW j \in 1 .. Len(s) - n PROVE rest[j] = s[n + j]
  <2>1. j \in 1 .. Len(s) - (n + 1) + 1 /\ (n + 1) + j - 1 = n + j
    BY <1>1, <1>5
  <2> QED BY <1>4, <2>1
<1> QED BY <1>4, <1>5, <1>6 DEF rest

\* A set of positions with everything below them is an initial segment.
LEMMA Segment ==
  ASSUME NEW N \in Nat, NEW K \in SUBSET (1 .. N), \A k \in K : \A j \in 1 .. k : j \in K
  PROVE  Cardinality(K) \in 0 .. N /\ K = 1 .. Cardinality(K)
<1> DEFINE Closed(X) == \A k \in X : \A j \in 1 .. k : j \in X
           S == {n \in Nat : \A X \in SUBSET (1 .. n) :
                               Closed(X) => \E g \in 0 .. n : X = 1 .. g}
<1>1. 0 \in S
  <2>1. \A X \in SUBSET (1 .. 0) : X = 1 .. 0 /\ 0 \in 0 .. 0
    OBVIOUS
  <2> QED BY <2>1
<1>2. ASSUME NEW n \in Nat, n \in S PROVE n + 1 \in S
  <2> SUFFICES ASSUME NEW X \in SUBSET (1 .. n + 1), Closed(X)
               PROVE  \E g \in 0 .. n + 1 : X = 1 .. g
    <3>1. n + 1 \in Nat
      BY <1>2
    <3> HIDE DEF Closed
    <3> QED BY <3>1
  <2>1. CASE n + 1 \in X
    <3>1. X = 1 .. n + 1
      BY <2>1
    <3> QED BY <3>1
  <2>2. CASE n + 1 \notin X
    <3>1. X \in SUBSET (1 .. n)
      BY <2>2
    <3>2. PICK g \in 0 .. n : X = 1 .. g
      BY <1>2, <3>1
    <3> QED BY <3>2
  <2> QED BY <2>1, <2>2
<1> HIDE DEF S
<1>3. Nat \subseteq S
  BY <1>1, <1>2, NatSetInduction
<1>4. PICK g \in 0 .. N : K = 1 .. g
  BY <1>3 DEF S
<1>5. Cardinality(1 .. g) = g
  BY <1>4, FS_Interval
<1> QED BY <1>4, <1>5

\* The first n items end in the (g + 1)-th of N pieces; what is cut off the
\* pieces from that one on.
Splits(off, n, g, N) == off[g] <= n /\ (g < N => n < off[g + 1])
Cut(off, n, i) == IF off[i - 1] < n THEN n - off[i - 1] ELSE 0

\* Without the first n items: the pieces after the g-th, the first of them cut.
WithoutFirst(seqs, off, n, g) ==
  [k \in 1 .. Len(seqs) - g |-> SubSeq(seqs[g + k], Cut(off, n, g + k) + 1, Len(seqs[g + k]))]

\* The pieces without their first n items, joined, are the whole without them.
LEMMA LaidDrop ==
  ASSUME NEW T, NEW seqs \in Seq(Seq(T)), NEW G \in Seq(T), NEW off, Laid(seqs, G, off),
         NEW n \in 0 .. Len(G), NEW g \in 0 .. Len(seqs), Splits(off, n, g, Len(seqs))
  PROVE  LET left == WithoutFirst(seqs, off, n, g)
         IN  /\ left \in Seq(Seq(T)) /\ FlattenSeq(left) = SubSeq(G, n + 1, Len(G))
             /\ \A k \in 1 .. Len(seqs) - g :
                  Cut(off, n, g + k) \in 0 .. Len(seqs[g + k])
                  /\ (Cut(off, n, g + k) = 0 \/ Cut(off, n, g + k) < Len(seqs[g + k]))
<1> DEFINE N == Len(seqs)
           m == N - g
           Kept(i) == SubSeq(seqs[i], Cut(off, n, i) + 1, Len(seqs[i]))
           left == [k \in 1 .. m |-> Kept(g + k)]
           rest == SubSeq(G, n + 1, Len(G))
           At(i) == IF off[i] < n THEN 0 ELSE off[i] - n
           pos == [k \in 0 .. m |-> At(g + k)]
<1>1. /\ N \in Nat /\ Len(G) \in Nat /\ n \in Nat /\ g \in Nat /\ m \in Nat
      /\ n <= Len(G) /\ g + m = N
  BY LaidTypes
<1>2. off[g] <= n /\ (g < N => n < off[g + 1])
  BY DEF Splits
<1>3. ASSUME NEW i \in g + 1 .. N
      PROVE  /\ At(i) = At(i - 1) + (Len(seqs[i]) - Cut(off, n, i))
             /\ n + At(i - 1) = off[i - 1] + Cut(off, n, i)
             /\ off[i - 1] \in Nat /\ At(i - 1) \in Nat /\ Cut(off, n, i) \in Nat
             /\ Len(seqs[i]) \in Nat /\ Cut(off, n, i) <= Len(seqs[i])
             /\ Cut(off, n, i) = 0 \/ Cut(off, n, i) < Len(seqs[i])
  <2>1. /\ i \in 1 .. N /\ i - 1 \in 0 .. N /\ g < N /\ g + 1 \in 0 .. N
        /\ i \in g + 1 .. N /\ i - 1 \in g .. N
    BY <1>1
  <2> DEFINE a == off[i - 1]
             b == off[i]
             l == Len(seqs[i])
             c == Cut(off, n, i)
             p == At(i - 1)
             q == At(i)
  <2>2. a \in Nat /\ b \in Nat /\ l \in Nat /\ b = a + l
    <3>1. i \in 0 .. N
      BY <1>1
    <3>2. off[i] \in Nat
      BY <3>1, LaidTypes
    <3>3. off[i - 1] \in Nat /\ Len(seqs[i]) \in Nat /\ off[i] = off[i - 1] + Len(seqs[i])
      BY <2>1, LaidTypes
    <3> QED BY <3>2, <3>3
  <2>3. n < b
    <3>1. off[g + 1] <= off[i] /\ off[g + 1] \in Nat
      BY <2>1, LaidGrows, LaidTypes
    <3> QED BY <1>1, <1>2, <2>1, <2>2, <3>1, SMTT(30)
  <2>4. /\ a < n => c = n - a /\ p = 0
        /\ ~(a < n) => c = 0 /\ p = a - n
        /\ ~(b < n) => q = b - n
    BY DEF Cut
  <2> HIDE DEF a, b, l, c, p, q
  <2>5. /\ q = p + (l - c) /\ n + p = a + c /\ p \in Nat /\ c \in Nat /\ c <= l
        /\ c = 0 \/ c < l
    <3>1. n \in Nat
      BY <1>1
    <3>2. CASE a < n
      BY <2>2, <2>3, <2>4, <3>1, <3>2
    <3>3. CASE ~(a < n)
      BY <2>2, <2>3, <2>4, <3>1, <3>3
    <3> QED BY <3>2, <3>3
  <2> QED BY <2>2, <2>5 DEF a, b, l, c, p, q
<1> HIDE DEF At
<1>4. ASSUME NEW i \in g + 1 .. N
      PROVE  /\ Kept(i) \in Seq(T) /\ Len(Kept(i)) = Len(seqs[i]) - Cut(off, n, i)
             /\ \A j \in 1 .. Len(seqs[i]) - Cut(off, n, i) :
                  Kept(i)[j] = seqs[i][Cut(off, n, i) + j]
  <2>1. Cut(off, n, i) \in 0 .. Len(seqs[i])
    BY <1>3
  <2>2. seqs[i] \in Seq(T)
    <3>1. i \in 1 .. N
      BY <1>1
    <3> QED BY <3>1, LaidTypes
  <2> QED BY <2>1, <2>2, Dropped
<1>5. /\ rest \in Seq(T) /\ Len(rest) = Len(G) - n
      /\ \A j \in 1 .. Len(G) - n : rest[j] = G[n + j]
  BY Dropped
<1>6. \A k \in 1 .. m : g + k \in g + 1 .. N /\ (g + k) - 1 = g + (k - 1)
  BY <1>1
<1> HIDE DEF Kept, rest
<1>7. left \in Seq(Seq(T)) /\ Len(left) = m /\ \A k \in 1 .. m : left[k] = Kept(g + k)
  <2>1. \A k \in 1 .. m : Kept(g + k) \in Seq(T)
    BY <1>4, <1>6
  <2>2. left \in [1 .. m -> Seq(T)] /\ \A k \in 1 .. m : left[k] = Kept(g + k)
    <3> HIDE DEF m
    <3> QED BY <2>1
  <2> HIDE DEF left, m
  <2> QED BY <1>1, <2>2
<1>8. Laid(left, rest, pos)
  <2>1. pos \in [0 .. m -> 0 .. Len(rest)]
    <3> SUFFICES ASSUME NEW k \in 0 .. m PROVE At(g + k) \in 0 .. Len(rest)
      OBVIOUS
    <3> PICK b \in Nat : b = off[g + k] /\ b <= Len(G)
      <4>1. g + k \in 0 .. N
        BY <1>1
      <4> QED BY <4>1, LaidTypes
    <3>1. CASE b < n
      BY <1>1, <1>5, <3>1 DEF At
    <3>2. CASE ~(b < n)
      BY <1>1, <1>5, <3>2 DEF At
    <3> QED BY <3>1, <3>2
  <2>2. pos[0] = 0 /\ pos[m] = Len(rest)
    <3>3. g + 0 = g /\ 0 \in 0 .. m /\ m \in 0 .. m /\ g \in 0 .. N
      BY <1>1
    <3>4. off[g] \in Nat
      BY <3>3, LaidTypes
    <3>5. off[N] = Len(G)
      BY DEF Laid
    <3>1. g + 0 = g /\ off[g] \in Nat /\ off[N] = Len(G) /\ 0 \in 0 .. m /\ m \in 0 .. m
      BY <3>3, <3>4, <3>5
    <3>2. At(g) = 0 /\ At(N) = Len(G) - n
      BY <1>1, <1>2, <3>1 DEF At
    <3> QED BY <1>1, <1>5, <3>1, <3>2
  <2>3. ASSUME NEW k \in 1 .. m
        PROVE  /\ pos[k] = pos[k - 1] + Len(left[k])
               /\ \A j \in 1 .. Len(left[k]) : rest[pos[k - 1] + j] = left[k][j]
    <3> PICK i \in g + 1 .. N : i = g + k
      BY <1>6
    <3>1. k \in 0 .. m /\ k - 1 \in 0 .. m /\ g + (k - 1) = i - 1 /\ i \in 1 .. N
      BY <1>1
    <3>2. pos[k] = At(i) /\ pos[k - 1] = At(i - 1)
      BY <3>1
    <3> HIDE DEF pos, left, m
    <3>3. left[k] = Kept(i) /\ Len(left[k]) = Len(seqs[i]) - Cut(off, n, i)
      BY <1>4, <1>7
    <3>4. pos[k] = pos[k - 1] + Len(left[k])
      BY <1>3, <3>2, <3>3
    <3>5. ASSUME NEW j \in 1 .. Len(left[k]) PROVE rest[pos[k - 1] + j] = left[k][j]
      <4> DEFINE a == off[i - 1]
                 l == Len(seqs[i])
                 c == Cut(off, n, i)
                 p == At(i - 1)
                 q == At(i)
      <4>0. a \in Nat /\ l \in Nat /\ c \in Nat /\ p \in Nat
        BY <1>3
      <4>1. n + p = a + c /\ c <= l /\ q = p + (l - c)
        BY <1>3
      <4>2. q <= Len(G) - n
        <5>1. At(i) \in 0 .. Len(rest)
          BY <2>1, <3>1, <3>2
        <5> QED BY <1>1, <1>5, <5>1
      <4>3. p + j \in 1 .. Len(G) - n /\ n + (p + j) = a + (c + j)
            /\ c + j \in 1 .. l /\ j \in 1 .. l - c
        <5>1. j \in Nat /\ j >= 1 /\ j <= l - c
          BY <3>3, <4>0
        <5> HIDE DEF a, l, c, p, q
        <5>2. n \in Nat /\ Len(G) \in Nat /\ p + (l - c) <= Len(G) - n
          BY <1>1, <4>0, <4>1, <4>2
        <5>3. p + j >= 1 /\ p + j <= Len(G) - n /\ p + j \in Nat
          BY <4>0, <4>1, <5>1, <5>2
        <5>4. n + (p + j) = a + (c + j)
          BY <4>0, <4>1, <5>1, <5>2
        <5>5. c + j \in 1 .. l /\ j \in 1 .. l - c
          BY <4>0, <4>1, <5>1
        <5> QED BY <5>2, <5>3, <5>4, <5>5
      <4>4. rest[p + j] = G[a + (c + j)]
        BY <1>5, <4>3
      <4>5. G[a + (c + j)] = seqs[i][c + j]
        BY <3>1, <4>3 DEF Laid
      <4>6. left[k][j] = seqs[i][c + j]
        BY <1>4, <3>3, <4>3
      <4> QED BY <3>2, <4>4, <4>5, <4>6
    <3> QED BY <3>4, <3>5
  <2> HIDE DEF pos, left
  <2> QED BY <1>7, <2>1, <2>2, <2>3 DEF Laid
<1>9. FlattenSeq(left) = rest
  <2> HIDE DEF pos, left
  <2> QED BY <1>5, <1>7, <1>8, FlattenIs
<1>10. ASSUME NEW k \in 1 .. m
       PROVE  /\ Cut(off, n, g + k) \in 0 .. Len(seqs[g + k])
              /\ Cut(off, n, g + k) = 0 \/ Cut(off, n, g + k) < Len(seqs[g + k])
  <2>1. g + k \in g + 1 .. N
    BY <1>6
  <2> QED BY <1>3, <2>1
<1> QED BY <1>7, <1>9, <1>10 DEF rest, Kept, WithoutFirst

\* The first n items are in the first t of N pieces, of which the last is cut.
Reaches(off, n, t, N) == (\A i \in 1 .. t : off[i - 1] < n) /\ (t < N => n <= off[t])
Share(off, n, i, l) == IF l <= n - off[i - 1] THEN l ELSE n - off[i - 1]
Least(a, b) == IF a <= b THEN a ELSE b
OnlyFirst(seqs, off, n, t) ==
  [k \in 1 .. t |-> SubSeq(seqs[k], 1, Share(off, n, k, Len(seqs[k])))]

\* The first n items: the first t pieces, the last of them cut.
LEMMA LaidTake ==
  ASSUME NEW T, NEW seqs \in Seq(Seq(T)), NEW G \in Seq(T), NEW off, Laid(seqs, G, off),
         NEW n \in Nat, NEW t \in 0 .. Len(seqs), Reaches(off, n, t, Len(seqs))
  PROVE  LET head == OnlyFirst(seqs, off, n, t)
         IN  /\ head \in Seq(Seq(T))
             /\ FlattenSeq(head) = SubSeq(G, 1, Least(n, Len(G)))
             /\ \A k \in 1 .. t :
                  /\ Share(off, n, k, Len(seqs[k])) \in 0 .. Len(seqs[k])
                  /\ Share(off, n, k, Len(seqs[k])) = 0 => Len(seqs[k]) = 0
<1> DEFINE N == Len(seqs)
           share(k) == Share(off, n, k, Len(seqs[k]))
           Kept(k) == SubSeq(seqs[k], 1, share(k))
           head == [k \in 1 .. t |-> Kept(k)]
           e == Least(n, Len(G))
           part == SubSeq(G, 1, e)
           At(k) == Least(off[k], e)
           pos == [k \in 0 .. t |-> At(k)]
<1>1. /\ N \in Nat /\ Len(G) \in Nat /\ t \in Nat /\ t <= N
      /\ e \in Nat /\ e <= Len(G) /\ e <= n
  BY LaidTypes DEF Least
<1>2. (\A i \in 1 .. t : off[i - 1] < n) /\ (t < N => n <= off[t])
  BY DEF Reaches
<1> HIDE DEF e
<1>3. ASSUME NEW k \in 1 .. t
      PROVE  /\ At(k - 1) = off[k - 1] /\ At(k) = off[k - 1] + share(k)
             /\ share(k) \in Nat /\ share(k) <= Len(seqs[k]) /\ Len(seqs[k]) \in Nat
             /\ off[k - 1] \in Nat /\ At(k) <= e /\ (share(k) = 0 => Len(seqs[k]) = 0)
  <2> DEFINE a == off[k - 1]
             b == off[k]
             l == Len(seqs[k])
             L == Len(G)
             p == At(k - 1)
             q == At(k)
             c == share(k)
  <2>1. k \in 1 .. N /\ k \in 0 .. N /\ k - 1 \in 0 .. N
    BY <1>1
  <2>2. a \in Nat /\ b \in Nat /\ l \in Nat /\ b = a + l /\ b <= L /\ L \in Nat
    <3>1. off[k - 1] \in Nat /\ Len(seqs[k]) \in Nat /\ off[k] = off[k - 1] + Len(seqs[k])
      BY <2>1, LaidTypes
    <3>2. off[k] \in Nat /\ off[k] <= Len(G)
      BY <2>1, LaidTypes
    <3> QED BY <1>1, <3>1, <3>2
  <2>3. a < n
    BY <1>2
  <2>4. /\ n <= L => e = n
        /\ ~(n <= L) => e = L
    BY DEF e, Least
  <2>5. /\ a <= e => p = a
        /\ b <= e => q = b
        /\ ~(b <= e) => q = e
        /\ l <= n - a => c = l
        /\ ~(l <= n - a) => c = n - a
    BY DEF Least, Share
  <2> HIDE DEF a, b, l, L, p, q, c
  <2>6. /\ p = a /\ q = a + c /\ c \in Nat /\ c <= l /\ q <= e /\ (c = 0 => l = 0)
    <3>1. CASE n <= L
      <4>1. CASE l <= n - a
        BY <1>1, <2>2, <2>3, <2>4, <2>5, <3>1, <4>1
      <4>2. CASE ~(l <= n - a)
        BY <1>1, <2>2, <2>3, <2>4, <2>5, <3>1, <4>2
      <4> QED BY <4>1, <4>2
    <3>2. CASE ~(n <= L)
      BY <1>1, <2>2, <2>3, <2>4, <2>5, <3>2
    <3> QED BY <3>1, <3>2
  <2> QED BY <2>2, <2>6 DEF a, b, l, p, q, c
<1> HIDE DEF At, share
<1>4. ASSUME NEW k \in 1 .. t
      PROVE  /\ Kept(k) \in Seq(T) /\ Len(Kept(k)) = share(k)
             /\ \A j \in 1 .. share(k) : Kept(k)[j] = seqs[k][j]
  <2>1. share(k) \in 0 .. Len(seqs[k])
    BY <1>3
  <2>2. seqs[k] \in Seq(T)
    <3>1. k \in 1 .. N
      BY <1>1
    <3> QED BY <3>1, LaidTypes
  <2> QED BY <2>1, <2>2, Taken
<1>5. part \in Seq(T) /\ Len(part) = e /\ \A j \in 1 .. e : part[j] = G[j]
  <2>1. e \in 0 .. Len(G)
    BY <1>1
  <2> QED BY <2>1, Taken
<1> HIDE DEF Kept, part
<1>6. head \in Seq(Seq(T)) /\ Len(head) = t /\ \A k \in 1 .. t : head[k] = Kept(k)
  <2>1. \A k \in 1 .. t : Kept(k) \in Seq(T)
    BY <1>4
  <2>2. head \in [1 .. t -> Seq(T)] /\ \A k \in 1 .. t : head[k] = Kept(k)
    BY <2>1
  <2> HIDE DEF head
  <2> QED BY <1>1, <2>2
<1>7. Laid(head, part, pos)
  <2>1. pos \in [0 .. t -> 0 .. Len(part)]
    <3> SUFFICES ASSUME NEW k \in 0 .. t PROVE At(k) \in 0 .. Len(part)
      OBVIOUS
    <3> DEFINE b == off[k]
    <3>1. b \in Nat
      <4>1. k \in 0 .. N
        BY <1>1
      <4> QED BY <4>1, LaidTypes
    <3>2. At(k) = IF b <= e THEN b ELSE e
      BY DEF At, Least
    <3> HIDE DEF b
    <3>3. (IF b <= e THEN b ELSE e) \in 0 .. e
      BY <1>1, <3>1
    <3> QED BY <1>5, <3>2, <3>3
  <2>2. pos[0] = 0 /\ pos[t] = Len(part)
    <3>1. 0 \in 0 .. t /\ t \in 0 .. t /\ t \in 0 .. N
      BY <1>1
    <3>2. off[0] = 0 /\ off[N] = Len(G)
      BY DEF Laid
    <3>3. At(0) = 0
      BY <1>1, <3>2 DEF At, Least
    <3>4. At(t) = e
      <4>1. CASE t < N
        <5>1. e <= off[t] /\ off[t] \in Nat
          BY <1>1, <1>2, <3>1, <4>1, LaidTypes
        <5> QED BY <1>1, <5>1 DEF At, Least
      <4>2. CASE ~(t < N)
        <5>1. t = N
          BY <1>1, <4>2
        <5> QED BY <1>1, <3>2, <5>1 DEF At, Least
      <4> QED BY <4>1, <4>2
    <3> QED BY <1>5, <3>1, <3>3, <3>4
  <2>3. ASSUME NEW k \in 1 .. t
        PROVE  /\ pos[k] = pos[k - 1] + Len(head[k])
               /\ \A j \in 1 .. Len(head[k]) : part[pos[k - 1] + j] = head[k][j]
    <3>1. k \in 0 .. t /\ k - 1 \in 0 .. t /\ k \in 1 .. N
      BY <1>1
    <3>2. pos[k] = At(k) /\ pos[k - 1] = At(k - 1)
      BY <3>1
    <3> HIDE DEF pos, head
    <3>3. head[k] = Kept(k) /\ Len(head[k]) = share(k)
      BY <1>4, <1>6
    <3>4. pos[k] = pos[k - 1] + Len(head[k])
      BY <1>3, <3>2, <3>3
    <3>5. ASSUME NEW j \in 1 .. share(k) PROVE part[off[k - 1] + j] = Kept(k)[j]
      <4> DEFINE a == off[k - 1]
                 c == share(k)
                 l == Len(seqs[k])
                 q == At(k)
      <4>1. a \in Nat /\ c \in Nat /\ l \in Nat /\ c <= l /\ q = a + c /\ q <= e
        BY <1>3
      <4>2. j \in Nat /\ j >= 1 /\ j <= c
        BY <4>1
      <4>3. a + j \in 1 .. e /\ j \in 1 .. l
        <5> HIDE DEF a, c, l, q
        <5> QED BY <1>1, <4>1, <4>2
      <4>4. part[a + j] = G[a + j]
        BY <1>5, <4>3
      <4>5. G[a + j] = seqs[k][j]
        BY <3>1, <4>3 DEF Laid
      <4>6. Kept(k)[j] = seqs[k][j]
        BY <1>4
      <4> QED BY <4>4, <4>5, <4>6
    <3>6. pos[k - 1] = off[k - 1]
      BY <1>3, <3>2
    <3> QED BY <3>3, <3>4, <3>5, <3>6
  <2> HIDE DEF pos, head
  <2> QED BY <1>6, <2>1, <2>2, <2>3 DEF Laid
<1>8. FlattenSeq(head) = part
  <2> HIDE DEF pos, head
  <2> QED BY <1>5, <1>6, <1>7, FlattenIs
<1>9. \A k \in 1 .. t : share(k) \in 0 .. Len(seqs[k]) /\ (share(k) = 0 => Len(seqs[k]) = 0)
  BY <1>3
<1>10. head = OnlyFirst(seqs, off, n, t)
  BY DEF OnlyFirst, Kept, share
<1> HIDE DEF head, Kept
<1> QED BY <1>6, <1>8, <1>9, <1>10 DEF part, share, e

----------------------------------------------------------------------------
(* Events *)

Events(T) == [start : Nat, cursor : Int, stream : Streams, text : Seq(T)]
\* the texts of the events, and the cursors of their characters
Texts(es) == [k \in DOMAIN es |-> es[k].text]
Marks(es) == [k \in DOMAIN es |-> [j \in DOMAIN es[k].text |-> es[k].start + j - 1]]
\* where the k-th event ends in the text
Bounds(es) == [k \in 0 .. Len(es) |-> Before(es, k + 1)]

\* How the code writes a difference that is not negative.
LEMMA MaxZero ==
  ASSUME NEW x \in Int PROVE Max({0, x}) = IF x > 0 THEN x ELSE 0
<1> DEFINE m == IF x > 0 THEN x ELSE 0
<1>1. m \in {0, x} /\ \A y \in {0, x} : m >= y
  OBVIOUS
<1>2. \A z \in {0, x} : (\A y \in {0, x} : z >= y) => z = m
  OBVIOUS
<1> HIDE DEF m
<1>3. Max({0, x}) = m
  BY <1>1, <1>2 DEF Max
<1> QED BY <1>3 DEF m

\* The smaller of two numbers.
LEMMA MinLeast ==
  ASSUME NEW x \in Int, NEW y \in Int PROVE Min({x, y}) = Least(x, y)
<1> DEFINE m == Least(x, y)
<1>1. m \in {x, y} /\ \A z \in {x, y} : m <= z
  BY DEF Least
<1>2. \A z \in {x, y} : (\A v \in {x, y} : z <= v) => z = m
  BY DEF Least
<1> HIDE DEF m
<1>3. Min({x, y}) = m
  BY <1>1, <1>2 DEF Min
<1> QED BY <1>3 DEF m

\* Texts and cursors are laid alike, event by event.
LEMMA EventTypes ==
  ASSUME NEW T, NEW es \in Seq(Events(T))
  PROVE  /\ Len(es) \in Nat /\ DOMAIN es = 1 .. Len(es)
         /\ Texts(es) \in Seq(Seq(T)) /\ Len(Texts(es)) = Len(es)
         /\ Marks(es) \in Seq(Seq(Nat)) /\ Len(Marks(es)) = Len(es)
         /\ \A k \in 1 .. Len(es) :
              /\ es[k] \in Events(T) /\ es[k].text \in Seq(T) /\ es[k].start \in Nat
              /\ Len(es[k].text) \in Nat
              /\ Texts(es)[k] = es[k].text /\ Marks(es)[k] \in Seq(Nat)
              /\ Len(Marks(es)[k]) = Len(es[k].text)
              /\ \A j \in 1 .. Len(es[k].text) : Marks(es)[k][j] = es[k].start + j - 1
<1>1. Len(es) \in Nat /\ DOMAIN es = 1 .. Len(es)
  BY LenProperties
<1>2. ASSUME NEW k \in 1 .. Len(es)
      PROVE  /\ es[k] \in Events(T) /\ es[k].text \in Seq(T) /\ es[k].start \in Nat
             /\ Len(es[k].text) \in Nat /\ DOMAIN es[k].text = 1 .. Len(es[k].text)
  <2>1. es[k] \in Events(T)
    BY ElementOfSeq
  <2>2. es[k].text \in Seq(T) /\ es[k].start \in Nat
    BY <2>1 DEF Events
  <2> QED BY <2>1, <2>2, LenProperties
<1>3. Texts(es) \in Seq(Seq(T)) /\ Len(Texts(es)) = Len(es)
      /\ \A k \in 1 .. Len(es) : Texts(es)[k] = es[k].text
  <2>1. Texts(es) \in [1 .. Len(es) -> Seq(T)]
        /\ \A k \in 1 .. Len(es) : Texts(es)[k] = es[k].text
    BY <1>1, <1>2 DEF Texts
  <2> QED BY <1>1, <2>1
<1>4. ASSUME NEW k \in 1 .. Len(es)
      PROVE  /\ Marks(es)[k] \in Seq(Nat) /\ Len(Marks(es)[k]) = Len(es[k].text)
             /\ \A j \in 1 .. Len(es[k].text) : Marks(es)[k][j] = es[k].start + j - 1
  <2> DEFINE l == Len(es[k].text)
             a == es[k].start
             f == [j \in 1 .. l |-> a + j - 1]
  <2>1. l \in Nat /\ a \in Nat
    BY <1>2
  <2>2. Marks(es)[k] = f
    BY <1>1, <1>2 DEF Marks
  <2> HIDE DEF l, a
  <2>3. f \in [1 .. l -> Nat] /\ \A j \in 1 .. l : f[j] = a + j - 1
    BY <2>1
  <2> HIDE DEF f
  <2>4. f \in Seq(Nat) /\ Len(f) = l
    BY <2>1, <2>3
  <2> QED BY <2>2, <2>3, <2>4 DEF l, a
<1>5. Marks(es) \in Seq(Seq(Nat)) /\ Len(Marks(es)) = Len(es)
  <2>1. Marks(es) = [k \in 1 .. Len(es) |-> Marks(es)[k]]
    BY <1>1 DEF Marks
  <2>2. Marks(es) \in [1 .. Len(es) -> Seq(Nat)]
    BY <1>4, <2>1
  <2> QED BY <1>1, <2>2
<1> QED BY <1>1, <1>2, <1>3, <1>4, <1>5

\* The texts of the events, joined, and their cursors end at the same places.
LEMMA EventsLaid ==
  ASSUME NEW T, NEW es \in Seq(Events(T))
  PROVE  /\ Text(es) \in Seq(T) /\ Laid(Texts(es), Text(es), Bounds(es))
         /\ Cursors(es) \in Seq(Nat) /\ Laid(Marks(es), Cursors(es), Bounds(es))
         /\ Chars(es) \in Nat /\ Len(Text(es)) = Chars(es) /\ Len(Cursors(es)) = Chars(es)
         /\ \A k \in 0 .. Len(es) : Before(es, k + 1) = Bounds(es)[k] /\ Bounds(es)[k] \in Nat
<1> DEFINE ts == Texts(es)
           ms == Marks(es)
<1>1. /\ ts \in Seq(Seq(T)) /\ Len(ts) = Len(es) /\ ms \in Seq(Seq(Nat)) /\ Len(ms) = Len(es)
      /\ Len(es) \in Nat /\ DOMAIN es = 1 .. Len(es)
      /\ \A k \in 1 .. Len(es) : Len(ts[k]) = Len(ms[k])
  <2>1. /\ ts \in Seq(Seq(T)) /\ Len(ts) = Len(es)
        /\ ms \in Seq(Seq(Nat)) /\ Len(ms) = Len(es)
        /\ Len(es) \in Nat /\ DOMAIN es = 1 .. Len(es)
    BY EventTypes
  <2>2. ASSUME NEW k \in 1 .. Len(es) PROVE Len(ts[k]) = Len(ms[k])
    <3>1. ts[k] = es[k].text /\ Len(ms[k]) = Len(es[k].text)
      BY EventTypes
    <3> QED BY <3>1
  <2> HIDE DEF ts, ms
  <2> QED BY <2>1, <2>2
<1>2. Text(es) = FlattenSeq(ts) /\ Cursors(es) = FlattenSeq(ms)
  BY DEF Text, Cursors, Texts, Marks
<1> HIDE DEF ts, ms
<1>3. PICK off : Laid(ts, Text(es), off)
  BY <1>1, <1>2, FlattenLaid
<1>4. PICK pos : Laid(ms, Cursors(es), pos)
  BY <1>1, <1>2, FlattenLaid
<1>5. Text(es) \in Seq(T) /\ Cursors(es) \in Seq(Nat)
  BY <1>1, <1>2, FlattenLaid
<1>6. off = pos /\ Len(Text(es)) = Len(Cursors(es))
  BY <1>1, <1>3, <1>4, <1>5, SameOffsets
<1>7. ASSUME NEW k \in 0 .. Len(es) PROVE Before(es, k + 1) = off[k]
  <2> DEFINE some == SubSeq(es, 1, k)
  <2>1. some \in Seq(Events(T)) /\ Len(some) = k /\ \A j \in 1 .. k : some[j] = es[j]
    BY Taken
  <2>2. SubSeq(ts, 1, k) \in Seq(Seq(T)) /\ Len(SubSeq(ts, 1, k)) = k
        /\ \A j \in 1 .. k : SubSeq(ts, 1, k)[j] = ts[j]
    BY <1>1, Taken
  <2> HIDE DEF some
  <2>3. /\ Texts(some) \in Seq(Seq(T)) /\ Len(Texts(some)) = k
        /\ \A j \in 1 .. k : Texts(some)[j] = some[j].text
    BY <2>1, EventTypes
  <2>4. ASSUME NEW j \in 1 .. k PROVE Texts(some)[j] = SubSeq(ts, 1, k)[j]
    <3>1. j \in 1 .. Len(es)
      BY <1>1
    <3>2. ts[j] = es[j].text
      BY <3>1, EventTypes DEF ts
    <3> QED BY <2>1, <2>2, <2>3, <3>2
  <2>5. Texts(some) = SubSeq(ts, 1, k)
    BY <2>2, <2>3, <2>4, SeqEqual
  <2>6. Len(FlattenSeq(SubSeq(ts, 1, k))) = off[k]
    BY <1>1, <1>3, <1>5, LaidPrefix
  <2>7. Chars(some) = Len(FlattenSeq(Texts(some)))
    BY DEF Chars, Text, Texts
  <2>8. Before(es, k + 1) = Chars(some)
    <3>1. (k + 1) - 1 = k
      BY <1>1
    <3> QED BY <3>1 DEF Before, some
  <2> QED BY <2>5, <2>6, <2>7, <2>8
<1>8. off = [k \in 0 .. Len(es) |-> off[k]]
  BY <1>1, <1>3 DEF Laid
<1>9. Bounds(es) = off
  BY <1>7, <1>8 DEF Bounds
<1>10. \A k \in 0 .. Len(es) : off[k] \in Nat
  BY <1>1, <1>3, <1>5, LaidTypes
<1>11. Chars(es) = Len(Text(es)) /\ Chars(es) \in Nat
  BY <1>5, LenProperties DEF Chars
<1> QED BY <1>3, <1>4, <1>5, <1>6, <1>7, <1>9, <1>10, <1>11 DEF ts, ms

\* The cursors of the characters of one event.
Mark(e) == [j \in 1 .. Len(e.text) |-> e.start + j - 1]

\* The fields of an event.
LEMMA MarkTypes ==
  ASSUME NEW T, NEW e \in Events(T)
  PROVE  /\ e.text \in Seq(T) /\ e.start \in Nat /\ e.cursor \in Int /\ e.stream \in Streams
         /\ Len(e.text) \in Nat
         /\ Mark(e) \in Seq(Nat) /\ Len(Mark(e)) = Len(e.text)
         /\ \A j \in 1 .. Len(e.text) : Mark(e)[j] = e.start + j - 1
<1> DEFINE l == Len(e.text)
           a == e.start
           f == [j \in 1 .. l |-> a + j - 1]
<1>1. e.text \in Seq(T) /\ e.start \in Nat /\ e.cursor \in Int /\ e.stream \in Streams
  BY DEF Events
<1>2. l \in Nat /\ a \in Nat
  BY <1>1, LenProperties
<1>3. Mark(e) = f
  BY DEF Mark
<1> HIDE DEF l, a
<1>4. f \in [1 .. l -> Nat] /\ \A j \in 1 .. l : f[j] = a + j - 1
  BY <1>2
<1> HIDE DEF f
<1>5. f \in Seq(Nat) /\ Len(f) = l
  BY <1>2, <1>4
<1> QED BY <1>1, <1>2, <1>3, <1>4, <1>5 DEF l, a

\* The text and the cursors of one event of several.
LEMMA EventMark ==
  ASSUME NEW T, NEW es \in Seq(Events(T)), NEW k \in 1 .. Len(es)
  PROVE  Marks(es)[k] = Mark(es[k]) /\ Texts(es)[k] = es[k].text /\ es[k] \in Events(T)
<1>1. DOMAIN es = 1 .. Len(es) /\ es[k] \in Events(T) /\ es[k].text \in Seq(T)
  BY EventTypes
<1>2. DOMAIN es[k].text = 1 .. Len(es[k].text)
  BY <1>1, LenProperties
<1> QED BY <1>1, <1>2 DEF Marks, Texts, Mark

\* What appending an event appends.
LEMMA EventsAppend ==
  ASSUME NEW T, NEW es \in Seq(Events(T)), NEW e \in Events(T)
  PROVE  /\ Append(es, e) \in Seq(Events(T)) /\ Len(Append(es, e)) = Len(es) + 1
         /\ \A k \in 1 .. Len(es) : Append(es, e)[k] = es[k]
         /\ Append(es, e)[Len(es) + 1] = e
         /\ Text(Append(es, e)) = Text(es) \o e.text
         /\ Cursors(Append(es, e)) = Cursors(es) \o Mark(e)
         /\ Chars(Append(es, e)) = Chars(es) + Len(e.text)
<1> DEFINE more == Append(es, e)
           n == Len(es)
<1>1. /\ more \in Seq(Events(T)) /\ Len(more) = n + 1 /\ n \in Nat
      /\ \A k \in 1 .. n : more[k] = es[k]
      /\ more[n + 1] = e
  BY AppendProperties, LenProperties
<1> HIDE DEF more
<1>2. /\ Texts(es) \in Seq(Seq(T)) /\ Len(Texts(es)) = n
      /\ Marks(es) \in Seq(Seq(Nat)) /\ Len(Marks(es)) = n
  BY EventTypes
<1>3. /\ Texts(more) \in Seq(Seq(T)) /\ Len(Texts(more)) = n + 1
      /\ Marks(more) \in Seq(Seq(Nat)) /\ Len(Marks(more)) = n + 1
  BY <1>1, EventTypes
<1>4. e.text \in Seq(T) /\ Mark(e) \in Seq(Nat)
  BY MarkTypes
<1>5. /\ Append(Texts(es), e.text) \in Seq(Seq(T)) /\ Len(Append(Texts(es), e.text)) = n + 1
      /\ \A k \in 1 .. n : Append(Texts(es), e.text)[k] = Texts(es)[k]
      /\ Append(Texts(es), e.text)[n + 1] = e.text
  <2> HIDE DEF n
  <2> QED BY <1>1, <1>2, <1>4, AppendProperties
<1>6. /\ Append(Marks(es), Mark(e)) \in Seq(Seq(Nat)) /\ Len(Append(Marks(es), Mark(e))) = n + 1
      /\ \A k \in 1 .. n : Append(Marks(es), Mark(e))[k] = Marks(es)[k]
      /\ Append(Marks(es), Mark(e))[n + 1] = Mark(e)
  <2> HIDE DEF n
  <2> QED BY <1>1, <1>2, <1>4, AppendProperties
<1>7. ASSUME NEW k \in 1 .. n + 1
      PROVE  /\ Texts(more)[k] = Append(Texts(es), e.text)[k]
             /\ Marks(more)[k] = Append(Marks(es), Mark(e))[k]
  <2>1. Texts(more)[k] = more[k].text /\ Marks(more)[k] = Mark(more[k])
    BY <1>1, EventMark
  <2>2. CASE k = n + 1
    BY <1>1, <1>5, <1>6, <2>1, <2>2
  <2>3. CASE k \in 1 .. n
    <3>1. Texts(es)[k] = es[k].text /\ Marks(es)[k] = Mark(es[k])
      BY <2>3, EventMark
    <3>2. more[k] = es[k]
      BY <1>1, <2>3
    <3>3. Append(Texts(es), e.text)[k] = Texts(es)[k] /\ Append(Marks(es), Mark(e))[k] = Marks(es)[k]
      BY <1>5, <1>6, <2>3
    <3> QED BY <2>1, <3>1, <3>2, <3>3
  <2>4. k = n + 1 \/ k \in 1 .. n
    <3>1. n \in Nat
      BY <1>1
    <3> HIDE DEF n
    <3> QED BY <3>1
  <2> QED BY <2>2, <2>3, <2>4
<1>8. Texts(more) = Append(Texts(es), e.text) /\ Marks(more) = Append(Marks(es), Mark(e))
  BY <1>3, <1>5, <1>6, <1>7, SeqEqual, SMTT(30)
<1>9. /\ Text(es) \in Seq(T) /\ Laid(Texts(es), Text(es), Bounds(es))
      /\ Cursors(es) \in Seq(Nat) /\ Laid(Marks(es), Cursors(es), Bounds(es))
  BY EventsLaid
<1>10. Text(more) = FlattenSeq(Texts(more)) /\ Cursors(more) = FlattenSeq(Marks(more))
  BY DEF Text, Cursors, Texts, Marks
<1>11. Text(more) = Text(es) \o e.text
  <2>1. Text(es) \o e.text \in Seq(T)
    BY <1>4, <1>9, ConcatProperties
  <2>2. \E off : Laid(Append(Texts(es), e.text), Text(es) \o e.text, off)
    BY <1>2, <1>4, <1>9, LaidAppend
  <2> QED BY <1>5, <1>8, <1>10, <2>1, <2>2, FlattenIs
<1>12. Cursors(more) = Cursors(es) \o Mark(e)
  <2>1. Cursors(es) \o Mark(e) \in Seq(Nat)
    BY <1>4, <1>9, ConcatProperties
  <2>2. \E off : Laid(Append(Marks(es), Mark(e)), Cursors(es) \o Mark(e), off)
    BY <1>2, <1>4, <1>9, LaidAppend
  <2> QED BY <1>6, <1>8, <1>10, <2>1, <2>2, FlattenIs
<1>13. Chars(more) = Chars(es) + Len(e.text)
  BY <1>4, <1>9, <1>11, ConcatProperties DEF Chars
<1> QED BY <1>1, <1>11, <1>12, <1>13 DEF more

\* Heads and tails of an event are events.
LEMMA TrailingIs ==
  ASSUME NEW T, NEW e \in Events(T), NEW n \in 0 .. Len(e.text)
  PROVE  /\ Trailing(e, n) \in Events(T)
         /\ Trailing(e, n).start = e.start + n /\ Trailing(e, n).cursor = e.cursor
         /\ Trailing(e, n).stream = e.stream
         /\ Trailing(e, n).text = SubSeq(e.text, n + 1, Len(e.text))
         /\ Len(Trailing(e, n).text) = Len(e.text) - n
         /\ \A j \in 1 .. Len(e.text) - n : Trailing(e, n).text[j] = e.text[n + j]
         /\ Mark(Trailing(e, n)) = SubSeq(Mark(e), n + 1, Len(Mark(e)))
<1> DEFINE r == Trailing(e, n)
           l == Len(e.text)
<1>1. /\ e.text \in Seq(T) /\ e.start \in Nat /\ e.cursor \in Int /\ e.stream \in Streams
      /\ l \in Nat /\ Mark(e) \in Seq(Nat) /\ Len(Mark(e)) = l
      /\ \A j \in 1 .. l : Mark(e)[j] = e.start + j - 1
  BY MarkTypes
<1>2. e = [start |-> e.start, cursor |-> e.cursor, stream |-> e.stream, text |-> e.text]
  BY DEF Events
<1>3. r = [start |-> e.start + n, cursor |-> e.cursor, stream |-> e.stream,
           text |-> SubSeq(e.text, n + 1, l)]
  <2> DEFINE b == e.start + n
             u == SubSeq(e.text, n + 1, l)
             mid == [e EXCEPT !.start = b]
  <2>1. r = [mid EXCEPT !.text = u]
    <3>1. r = [e EXCEPT !.start = b, !.text = u]
      BY DEF Trailing
    <3> HIDE DEF r, b, u
    <3> QED BY <3>1
  <2> HIDE DEF b, u
  <2>2. \A v, c, s, t : [[start |-> v, cursor |-> c, stream |-> s, text |-> t] EXCEPT !.start = b]
                        = [start |-> b, cursor |-> c, stream |-> s, text |-> t]
    OBVIOUS
  <2>3. mid = [start |-> b, cursor |-> e.cursor, stream |-> e.stream, text |-> e.text]
    <3> DEFINE q == [start |-> e.start, cursor |-> e.cursor, stream |-> e.stream, text |-> e.text]
    <3>1. [q EXCEPT !.start = b] = [start |-> b, cursor |-> e.cursor, stream |-> e.stream, text |-> e.text]
      BY <2>2
    <3> HIDE DEF q
    <3>2. e = q
      BY <1>2 DEF q
    <3> QED BY <3>1, <3>2
  <2>4. \A v, c, s, t : [[start |-> v, cursor |-> c, stream |-> s, text |-> t] EXCEPT !.text = u]
                        = [start |-> v, cursor |-> c, stream |-> s, text |-> u]
    OBVIOUS
  <2> HIDE DEF mid, r
  <2>5. r = [start |-> b, cursor |-> e.cursor, stream |-> e.stream, text |-> u]
    BY <2>1, <2>3, <2>4
  <2> QED BY <2>5 DEF b, u
<1>4. /\ SubSeq(e.text, n + 1, l) \in Seq(T) /\ Len(SubSeq(e.text, n + 1, l)) = l - n
      /\ \A j \in 1 .. l - n : SubSeq(e.text, n + 1, l)[j] = e.text[n + j]
  BY <1>1, Dropped
<1>5. r.start = e.start + n /\ r.cursor = e.cursor /\ r.stream = e.stream
      /\ r.text = SubSeq(e.text, n + 1, l)
  BY <1>3
<1>6. e.start + n \in Nat /\ n \in Nat
  BY <1>1
<1>7. r \in Events(T)
  BY <1>1, <1>3, <1>4, <1>6 DEF Events
<1> HIDE DEF r
<1>8. /\ Mark(r) \in Seq(Nat) /\ Len(Mark(r)) = l - n
      /\ \A j \in 1 .. l - n : Mark(r)[j] = e.start + n + j - 1
  <2>1. /\ Mark(r) \in Seq(Nat) /\ Len(Mark(r)) = Len(r.text)
        /\ \A j \in 1 .. Len(r.text) : Mark(r)[j] = r.start + j - 1
    BY <1>7, MarkTypes
  <2> HIDE DEF l
  <2> QED BY <1>4, <1>5, <2>1
<1>9. /\ SubSeq(Mark(e), n + 1, l) \in Seq(Nat) /\ Len(SubSeq(Mark(e), n + 1, l)) = l - n
      /\ \A j \in 1 .. l - n : SubSeq(Mark(e), n + 1, l)[j] = Mark(e)[n + j]
  <2> DEFINE m == Mark(e)
  <2>1. n \in 0 .. Len(m) /\ m \in Seq(Nat) /\ Len(m) = l
    BY <1>1
  <2> HIDE DEF m
  <2>2. /\ SubSeq(m, n + 1, Len(m)) \in Seq(Nat) /\ Len(SubSeq(m, n + 1, Len(m))) = Len(m) - n
        /\ \A j \in 1 .. Len(m) - n : SubSeq(m, n + 1, Len(m))[j] = m[n + j]
    BY <2>1, Dropped
  <2> QED BY <2>1, <2>2 DEF m
<1>10. ASSUME NEW j \in 1 .. l - n PROVE Mark(r)[j] = SubSeq(Mark(e), n + 1, l)[j]
  <2> DEFINE a == e.start
  <2>1. n + j \in 1 .. l
    BY <1>1, <1>6
  <2>2. Mark(e)[n + j] = a + (n + j) - 1
    BY <1>1, <2>1
  <2>3. Mark(r)[j] = a + n + j - 1
    BY <1>8
  <2>4. a \in Nat
    BY <1>1
  <2> HIDE DEF a
  <2>5. a + (n + j) - 1 = a + n + j - 1
    BY <1>6, <2>4
  <2> QED BY <1>9, <2>2, <2>3, <2>5
<1>11. Mark(r) = SubSeq(Mark(e), n + 1, l)
  BY <1>8, <1>9, <1>10, SeqEqual
<1> QED BY <1>1, <1>4, <1>5, <1>7, <1>11 DEF r, l

\* No event is empty.
Full(es) == \A k \in 1 .. Len(es) : Len(es[k].text) > 0

\* Every event of ds is the end of an event of es.
EndsOf(ds, es) ==
  \A k \in 1 .. Len(ds) : \E i \in 1 .. Len(es) : \E c \in 0 .. Len(es[i].text) - 1 :
    ds[k] = Trailing(es[i], c)

\* ds are the events of es after the g-th, the first of them cut.
CutAt(ds, es, n, g) ==
  /\ Splits(Bounds(es), n, g, Len(es))
  /\ ds = [k \in 1 .. Len(es) - g |-> Trailing(es[g + k], Cut(Bounds(es), n, g + k))]

\* The pieces of es after the g-th without the first n characters of the whole.
LEMMA EventsDropped ==
  ASSUME NEW T, NEW es \in Seq(Events(T)), Full(es), NEW n \in 0 .. Chars(es),
         NEW g \in 0 .. Len(es), NEW ds, CutAt(ds, es, n, g)
  PROVE  /\ ds \in Seq(Events(T)) /\ Len(ds) = Len(es) - g /\ Full(ds) /\ EndsOf(ds, es)
         /\ Text(ds) = SubSeq(Text(es), n + 1, Chars(es))
         /\ Cursors(ds) = SubSeq(Cursors(es), n + 1, Chars(es))
         /\ Chars(ds) = Chars(es) - n
<1> DEFINE off == Bounds(es)
           N == Len(es)
           m == N - g
           cut(k) == Cut(off, n, g + k)
           ts == Texts(es)
           ms == Marks(es)
           left == WithoutFirst(ts, off, n, g)
           gone == WithoutFirst(ms, off, n, g)
<1>1. /\ ts \in Seq(Seq(T)) /\ Len(ts) = N /\ ms \in Seq(Seq(Nat)) /\ Len(ms) = N
      /\ N \in Nat /\ m \in Nat
  BY EventTypes
<1>2. /\ Text(es) \in Seq(T) /\ Laid(ts, Text(es), off)
      /\ Cursors(es) \in Seq(Nat) /\ Laid(ms, Cursors(es), off)
      /\ Len(Text(es)) = Chars(es) /\ Len(Cursors(es)) = Chars(es) /\ Chars(es) \in Nat
  BY EventsLaid
<1> HIDE DEF ts, ms, off
<1>3. /\ left \in Seq(Seq(T)) /\ FlattenSeq(left) = SubSeq(Text(es), n + 1, Chars(es))
      /\ \A k \in 1 .. Len(ts) - g :
           cut(k) \in 0 .. Len(ts[g + k]) /\ (cut(k) = 0 \/ cut(k) < Len(ts[g + k]))
  <2>1. n \in 0 .. Len(Text(es)) /\ g \in 0 .. Len(ts) /\ Splits(off, n, g, Len(ts))
    BY <1>1, <1>2 DEF off, CutAt
  <2>2. /\ left \in Seq(Seq(T)) /\ FlattenSeq(left) = SubSeq(Text(es), n + 1, Len(Text(es)))
        /\ \A k \in 1 .. Len(ts) - g :
             Cut(off, n, g + k) \in 0 .. Len(ts[g + k])
             /\ (Cut(off, n, g + k) = 0 \/ Cut(off, n, g + k) < Len(ts[g + k]))
    BY <1>1, <1>2, <2>1, LaidDrop
  <2> QED BY <1>2, <2>2
<1>4. gone \in Seq(Seq(Nat)) /\ FlattenSeq(gone) = SubSeq(Cursors(es), n + 1, Chars(es))
  <2>1. n \in 0 .. Len(Cursors(es)) /\ g \in 0 .. Len(ms) /\ Splits(off, n, g, Len(ms))
    BY <1>1, <1>2 DEF off, CutAt
  <2>2. gone \in Seq(Seq(Nat)) /\ FlattenSeq(gone) = SubSeq(Cursors(es), n + 1, Len(Cursors(es)))
    BY <1>1, <1>2, <2>1, LaidDrop
  <2> QED BY <1>2, <2>2
<1>5. ds = [k \in 1 .. m |-> Trailing(es[g + k], cut(k))]
  BY DEF off, CutAt
<1>6. left = [k \in 1 .. m |-> SubSeq(ts[g + k], cut(k) + 1, Len(ts[g + k]))]
      /\ gone = [k \in 1 .. m |-> SubSeq(ms[g + k], cut(k) + 1, Len(ms[g + k]))]
  BY <1>1 DEF WithoutFirst
<1>7. \A k \in 1 .. m : cut(k) \in 0 .. Len(ts[g + k]) /\ (cut(k) = 0 \/ cut(k) < Len(ts[g + k]))
  BY <1>1, <1>3
<1> HIDE DEF cut, left, gone
<1>8. ASSUME NEW k \in 1 .. m
      PROVE  /\ g + k \in 1 .. N /\ cut(k) \in 0 .. Len(es[g + k].text) - 1
             /\ ds[k] = Trailing(es[g + k], cut(k)) /\ ds[k] \in Events(T)
             /\ Len(ds[k].text) > 0 /\ ds[k].text = left[k] /\ Mark(ds[k]) = gone[k]
  <2> DEFINE i == g + k
             e == es[g + k]
  <2>1. i \in 1 .. N
    BY <1>1
  <2>2. e \in Events(T) /\ ts[i] = e.text /\ ms[i] = Mark(e) /\ Len(e.text) > 0 /\ Len(e.text) \in Nat
        /\ Len(Mark(e)) = Len(e.text)
    <3>1. e \in Events(T) /\ ts[i] = e.text /\ ms[i] = Mark(e) /\ Len(e.text) > 0
      BY <2>1, EventMark DEF Full, ts, ms
    <3> QED BY <3>1, MarkTypes
  <2>3. cut(k) \in 0 .. Len(ts[i]) /\ (cut(k) = 0 \/ cut(k) < Len(ts[i]))
    BY <1>7
  <2>4. ds[k] = Trailing(e, cut(k))
    BY <1>5
  <2>5. left[k] = SubSeq(ts[i], cut(k) + 1, Len(ts[i])) /\ gone[k] = SubSeq(ms[i], cut(k) + 1, Len(ms[i]))
    BY <1>6
  <2> HIDE DEF e, i
  <2>6. cut(k) \in 0 .. Len(e.text) - 1
    BY <2>2, <2>3
  <2>7. cut(k) \in 0 .. Len(e.text)
    BY <2>2, <2>6
  <2>8. /\ Trailing(e, cut(k)) \in Events(T)
        /\ Trailing(e, cut(k)).text = SubSeq(e.text, cut(k) + 1, Len(e.text))
        /\ Len(Trailing(e, cut(k)).text) = Len(e.text) - cut(k)
        /\ Mark(Trailing(e, cut(k))) = SubSeq(Mark(e), cut(k) + 1, Len(Mark(e)))
    BY <2>2, <2>7, TrailingIs
  <2>9. Len(e.text) - cut(k) > 0
    BY <2>2, <2>6
  <2> QED BY <2>1, <2>2, <2>4, <2>5, <2>6, <2>8, <2>9 DEF e, i
<1>9. ds \in Seq(Events(T)) /\ Len(ds) = m
  <2>1. ds \in [1 .. m -> Events(T)]
    BY <1>5, <1>8
  <2> HIDE DEF m
  <2> QED BY <1>1, <2>1
<1>10. Full(ds) /\ EndsOf(ds, es)
  <2>1. Full(ds)
    BY <1>8, <1>9 DEF Full
  <2>2. ASSUME NEW k \in 1 .. m
        PROVE  \E i \in 1 .. N : \E c \in 0 .. Len(es[i].text) - 1 : ds[k] = Trailing(es[i], c)
    <3> HIDE DEF m, N
    <3> QED BY <1>8
  <2> QED BY <1>9, <2>1, <2>2 DEF EndsOf
<1> HIDE DEF m
<1>11. left \in [1 .. m -> Seq(T)] /\ gone \in [1 .. m -> Seq(Nat)] /\ Len(left) = m /\ Len(gone) = m
  <2>1. Len(left) = m /\ Len(gone) = m
    BY <1>1, <1>6
  <2> QED BY <1>3, <1>4, <2>1
<1>12. Texts(ds) = left /\ Marks(ds) = gone
  <2>1. /\ Texts(ds) \in Seq(Seq(T)) /\ Len(Texts(ds)) = m
        /\ Marks(ds) \in Seq(Seq(Nat)) /\ Len(Marks(ds)) = m
    BY <1>9, EventTypes
  <2>2. ASSUME NEW k \in 1 .. m PROVE Texts(ds)[k] = left[k] /\ Marks(ds)[k] = gone[k]
    <3>1. Texts(ds)[k] = ds[k].text /\ Marks(ds)[k] = Mark(ds[k])
      BY <1>9, EventMark
    <3> QED BY <1>8, <3>1
  <2>3. Texts(ds) = left
    BY <1>3, <1>11, <2>1, <2>2, SeqEqual
  <2>4. Marks(ds) = gone
    BY <1>4, <1>11, <2>1, <2>2, SeqEqual
  <2> QED BY <2>3, <2>4
<1>13. Text(ds) = FlattenSeq(left) /\ Cursors(ds) = FlattenSeq(gone)
  <2>1. Text(ds) = FlattenSeq(Texts(ds)) /\ Cursors(ds) = FlattenSeq(Marks(ds))
    BY DEF Text, Cursors, Texts, Marks
  <2> QED BY <1>12, <2>1
<1>14. Chars(ds) = Chars(es) - n
  <2>1. Len(SubSeq(Text(es), n + 1, Len(Text(es)))) = Len(Text(es)) - n
    BY <1>2, Dropped
  <2> QED BY <1>2, <1>3, <1>13, <2>1 DEF Chars
<1> QED BY <1>3, <1>4, <1>9, <1>10, <1>13, <1>14 DEF m

\* DropChars keeps the events after the last one that goes whole.
LEMMA DropCharsIs ==
  ASSUME NEW T, NEW es \in Seq(Events(T)), Full(es), NEW n \in 0 .. Chars(es)
  PROVE  /\ DropChars(es, n) \in Seq(Events(T)) /\ Len(DropChars(es, n)) <= Len(es)
         /\ Full(DropChars(es, n)) /\ EndsOf(DropChars(es, n), es)
         /\ Text(DropChars(es, n)) = SubSeq(Text(es), n + 1, Chars(es))
         /\ Cursors(DropChars(es, n)) = SubSeq(Cursors(es), n + 1, Chars(es))
         /\ Chars(DropChars(es, n)) = Chars(es) - n
<1> DEFINE N == Len(es)
           off == Bounds(es)
           K == {k \in 1 .. N : off[k] <= n}
           g == Cardinality(K)
           left == SubSeq(es, g + 1, N)
<1>1. N \in Nat /\ DOMAIN es = 1 .. N
  BY EventTypes
<1>2. /\ Laid(Texts(es), Text(es), off) /\ Texts(es) \in Seq(Seq(T)) /\ Text(es) \in Seq(T)
      /\ Len(Texts(es)) = N /\ Len(Text(es)) = Chars(es) /\ Chars(es) \in Nat
      /\ \A k \in 0 .. N : Before(es, k + 1) = off[k] /\ off[k] \in Nat
  BY EventsLaid, EventTypes
<1>3. {k \in DOMAIN es : Before(es, k + 1) <= n} = K
  BY <1>1, <1>2
<1> HIDE DEF off
<1>4. g \in 0 .. N /\ K = 1 .. g
  <2>1. K \in SUBSET (1 .. N)
    OBVIOUS
  <2>2. ASSUME NEW k \in K, NEW j \in 1 .. k PROVE j \in K
    <3>1. k \in 1 .. N /\ off[k] <= n /\ j \in 0 .. N /\ j \in 1 .. N /\ k \in j .. N
      BY <1>1
    <3>2. off[j] <= off[k]
      BY <1>2, <3>1, LaidGrows
    <3>3. off[j] \in Nat /\ off[k] \in Nat
      BY <1>2, <3>1
    <3> QED BY <3>1, <3>2, <3>3
  <2> HIDE DEF K, N
  <2> QED BY <1>1, <2>1, <2>2, Segment
<1>5. off[0] = 0
  BY <1>2 DEF Laid
<1>6. Splits(off, n, g, N)
  <2> HIDE DEF g
  <2>1. off[g] <= n
    <3>1. CASE g = 0
      BY <1>5, <3>1
    <3>2. CASE g # 0
      <4>1. g \in K
        BY <1>4, <3>2
      <4> QED BY <4>1
    <3> QED BY <3>1, <3>2
  <2>2. ASSUME g < N PROVE n < off[g + 1]
    <3>1. g + 1 \in 1 .. N /\ g + 1 \in 0 .. N
      BY <1>1, <1>4, <2>2
    <3>2. g + 1 \notin K
      BY <1>4
    <3>3. off[g + 1] \in Nat
      BY <1>2, <3>1
    <3> QED BY <3>1, <3>2, <3>3
  <2> QED BY <2>1, <2>2 DEF Splits
<1> HIDE DEF K
<1>7. left \in Seq(Events(T)) /\ Len(left) = N - g /\ \A k \in 1 .. N - g : left[k] = es[g + k]
  <2> HIDE DEF g
  <2> QED BY <1>4, Dropped
<1>8. DropChars(es, n) = [k \in DOMAIN left |->
                            Trailing(left[k], Max({0, n - Before(es, k + g)}))]
  BY <1>3 DEF DropChars
<1> HIDE DEF left, g
<1>9. DOMAIN left = 1 .. N - g
  BY <1>7, LenProperties
<1>10. ASSUME NEW k \in 1 .. N - g
       PROVE  Max({0, n - Before(es, k + g)}) = Cut(off, n, g + k)
  <2> DEFINE b == off[k + g - 1]
  <2>1. k + g - 1 \in 0 .. N /\ k + g - 1 + 1 = k + g /\ k + g = g + k
    BY <1>1, <1>4
  <2>2. Before(es, k + g) = b /\ b \in Nat
    BY <1>2, <2>1
  <2>3. Cut(off, n, g + k) = IF b < n THEN n - b ELSE 0
    BY <2>1 DEF Cut
  <2> HIDE DEF b
  <2>4. n - b \in Int
    BY <2>2
  <2>5. Max({0, n - b}) = IF n - b > 0 THEN n - b ELSE 0
    BY <2>4, MaxZero
  <2>6. (IF n - b > 0 THEN n - b ELSE 0) = IF b < n THEN n - b ELSE 0
    BY <2>2
  <2> QED BY <2>2, <2>3, <2>5, <2>6
<1>11. DropChars(es, n) = [k \in 1 .. N - g |-> Trailing(es[g + k], Cut(off, n, g + k))]
  BY <1>7, <1>8, <1>9, <1>10
<1>12. /\ DropChars(es, n) \in Seq(Events(T)) /\ Len(DropChars(es, n)) = N - g
       /\ Full(DropChars(es, n)) /\ EndsOf(DropChars(es, n), es)
       /\ Text(DropChars(es, n)) = SubSeq(Text(es), n + 1, Chars(es))
       /\ Cursors(DropChars(es, n)) = SubSeq(Cursors(es), n + 1, Chars(es))
       /\ Chars(DropChars(es, n)) = Chars(es) - n
  <2> DEFINE ds == DropChars(es, n)
  <2>1. CutAt(ds, es, n, g)
    BY <1>6, <1>11 DEF CutAt, off
  <2> HIDE DEF ds
  <2>2. /\ ds \in Seq(Events(T)) /\ Len(ds) = Len(es) - g /\ Full(ds) /\ EndsOf(ds, es)
        /\ Text(ds) = SubSeq(Text(es), n + 1, Chars(es))
        /\ Cursors(ds) = SubSeq(Cursors(es), n + 1, Chars(es))
        /\ Chars(ds) = Chars(es) - n
    BY <1>4, <2>1, EventsDropped
  <2> QED BY <2>2 DEF ds
<1>13. N - g <= N
  BY <1>1, <1>4
<1> QED BY <1>12, <1>13

\* Dropping whole events drops the characters before the next.
LEMMA RestIs ==
  ASSUME NEW T, NEW es \in Seq(Events(T)), Full(es), NEW m \in 0 .. Len(es),
         NEW n, n = Chars(SubSeq(es, 1, m))
  PROVE  LET rest == SubSeq(es, m + 1, Len(es))
         IN  /\ rest \in Seq(Events(T)) /\ Len(rest) = Len(es) - m
             /\ Full(rest) /\ EndsOf(rest, es) /\ n \in 0 .. Chars(es) /\ (m > 0 => n > 0)
             /\ Text(rest) = SubSeq(Text(es), n + 1, Chars(es))
             /\ Cursors(rest) = SubSeq(Cursors(es), n + 1, Chars(es))
             /\ Chars(rest) = Chars(es) - n
<1> DEFINE N == Len(es)
           off == Bounds(es)
           rest == SubSeq(es, m + 1, N)
<1>1. N \in Nat /\ DOMAIN es = 1 .. N /\ m \in Nat
  BY EventTypes
<1>2. /\ Laid(Texts(es), Text(es), off) /\ Texts(es) \in Seq(Seq(T)) /\ Text(es) \in Seq(T)
      /\ Len(Texts(es)) = N /\ Len(Text(es)) = Chars(es) /\ Chars(es) \in Nat
      /\ \A k \in 0 .. N : Before(es, k + 1) = off[k] /\ off[k] \in Nat
  BY EventsLaid, EventTypes
<1>3. n = off[m]
  <2>1. m + 1 - 1 = m
    BY <1>1
  <2>2. Before(es, m + 1) = n
    BY <2>1 DEF Before
  <2> QED BY <1>2, <2>2
<1>4. /\ rest \in Seq(Events(T)) /\ Len(rest) = N - m
      /\ \A k \in 1 .. N - m : rest[k] = es[m + k]
  BY Dropped
<1> HIDE DEF off, rest
<1>5. n \in 0 .. Chars(es)
  BY <1>1, <1>2, <1>3, LaidTypes
<1>6. \A i \in 1 .. N : off[i] = off[i - 1] + Len(Texts(es)[i])
  BY <1>2 DEF Laid
<1>7. Splits(off, n, m, N)
  <2>1. ASSUME m < N PROVE n < off[m + 1]
    <3>1. m + 1 \in 1 .. N /\ m + 1 - 1 = m
      BY <1>1, <2>1
    <3>2. Texts(es)[m + 1] = es[m + 1].text
      BY <3>1, EventMark
    <3>3. Len(es[m + 1].text) > 0 /\ Len(es[m + 1].text) \in Nat
      BY <3>1, EventTypes DEF Full
    <3>4. off[m + 1] = off[m] + Len(es[m + 1].text)
      BY <1>6, <3>1, <3>2
    <3>5. off[m] \in Nat
      BY <1>2
    <3> QED BY <1>3, <3>3, <3>4, <3>5
  <2>2. off[m] <= n
    BY <1>3, <1>5
  <2> QED BY <2>1, <2>2 DEF Splits
<1>8. ASSUME NEW k \in 1 .. N - m PROVE rest[k] = Trailing(es[m + k], Cut(off, n, m + k))
  <2>1. m + k \in 1 .. N /\ m + k - 1 \in m .. N /\ m + k - 1 \in 0 .. N
    BY <1>1
  <2>2. off[m] <= off[m + k - 1]
    BY <1>2, <2>1, LaidGrows
  <2>3. off[m] \in Nat /\ off[m + k - 1] \in Nat
    BY <1>2, <2>1
  <2>4. ~(off[m + k - 1] < n)
    BY <1>3, <2>2, <2>3
  <2>5. Cut(off, n, m + k) = 0
    BY <2>4 DEF Cut
  <2>6. es[m + k] \in Events(T)
    BY <2>1, EventMark
  <2>7. Trailing(es[m + k], 0) = es[m + k]
    <3> DEFINE e == es[m + k]
               r == Trailing(e, 0)
    <3>1. e \in Events(T)
      BY <2>6
    <3> HIDE DEF e
    <3>2. e.text \in Seq(T) /\ e.start \in Nat /\ 0 \in 0 .. Len(e.text) /\ Len(e.text) \in Nat
      BY <3>1, MarkTypes
    <3>3. /\ r \in Events(T) /\ r.start = e.start + 0 /\ r.cursor = e.cursor
          /\ r.stream = e.stream /\ r.text \in Seq(T) /\ Len(r.text) = Len(e.text) - 0
          /\ \A j \in 1 .. Len(e.text) - 0 : r.text[j] = e.text[0 + j]
      <4> HIDE DEF r
      <4>1. /\ r \in Events(T) /\ r.start = e.start + 0 /\ r.cursor = e.cursor
            /\ r.stream = e.stream /\ Len(r.text) = Len(e.text) - 0
            /\ \A j \in 1 .. Len(e.text) - 0 : r.text[j] = e.text[0 + j]
        BY <3>1, <3>2, TrailingIs DEF r
      <4>2. r.text \in Seq(T)
        BY <4>1, MarkTypes
      <4> QED BY <4>1, <4>2
    <3> HIDE DEF r
    <3>4. Len(r.text) = Len(e.text) /\ \A j \in 1 .. Len(e.text) : r.text[j] = e.text[j]
      <4> DEFINE l == Len(e.text)
      <4>1. l \in Nat /\ Len(r.text) = l - 0 /\ \A j \in 1 .. l - 0 : r.text[j] = e.text[0 + j]
        BY <3>2, <3>3
      <4> HIDE DEF l
      <4>2. l - 0 = l /\ \A j \in 1 .. l : 0 + j = j
        BY <4>1
      <4>3. Len(r.text) = l /\ \A j \in 1 .. l : r.text[j] = e.text[j]
        BY <4>1, <4>2
      <4> QED BY <4>3 DEF l
    <3>5. r.text = e.text
      BY <3>2, <3>3, <3>4, SeqEqual
    <3>6. r.start = e.start
      BY <3>2, <3>3
    <3>7. r = [start |-> r.start, cursor |-> r.cursor, stream |-> r.stream, text |-> r.text]
          /\ e = [start |-> e.start, cursor |-> e.cursor, stream |-> e.stream, text |-> e.text]
      BY <3>1, <3>3 DEF Events
    <3>8. r = e
      BY <3>3, <3>5, <3>6, <3>7
    <3> QED BY <3>8 DEF r, e
  <2> QED BY <1>4, <2>5, <2>7
<1>9. rest = [k \in 1 .. N - m |-> Trailing(es[m + k], Cut(off, n, m + k))]
  <2>1. rest = [k \in 1 .. N - m |-> rest[k]]
    BY <1>4, LenProperties
  <2> QED BY <1>8, <2>1
<1>11. ASSUME m > 0 PROVE n > 0
  <2>1. 1 \in 1 .. N /\ 1 \in 0 .. N /\ m \in 1 .. N /\ 0 \in 0 .. N /\ 1 - 1 = 0
    BY <1>1, <1>11
  <2>2. Texts(es)[1] = es[1].text
    BY <2>1, EventMark
  <2>3. Len(es[1].text) > 0 /\ Len(es[1].text) \in Nat
    BY <2>1, EventTypes DEF Full
  <2>4. off[1] = off[0] + Len(es[1].text)
    BY <1>6, <2>1, <2>2
  <2>5. off[1] <= off[m]
    BY <1>2, <2>1, LaidGrows
  <2>6. off[0] \in Nat /\ off[1] \in Nat /\ off[m] \in Nat
    BY <1>2, <2>1
  <2> QED BY <1>3, <2>3, <2>4, <2>5, <2>6
<1>10. /\ rest \in Seq(Events(T)) /\ Len(rest) = N - m /\ Full(rest) /\ EndsOf(rest, es)
       /\ Text(rest) = SubSeq(Text(es), n + 1, Chars(es))
       /\ Cursors(rest) = SubSeq(Cursors(es), n + 1, Chars(es))
       /\ Chars(rest) = Chars(es) - n
  <2>1. CutAt(rest, es, n, m)
    BY <1>7, <1>9 DEF CutAt, off
  <2> QED BY <1>5, <2>1, EventsDropped
<1> QED BY <1>5, <1>10, <1>11 DEF rest
============================================================================
