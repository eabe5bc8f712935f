-------------------------- MODULE TextSamplesProofs --------------------------
(***************************************************************************)
(* What TextSamples states of command lines, of diffs, of the rows of      *)
(* snapper and of configuration files: for any arguments, lines and        *)
(* descriptions, and for texts of any length.                              *)
(***************************************************************************)
EXTENDS TextSamples, WellFoundedInduction, NaturalsInduction, SequenceTheorems, FiniteSetTheorems, TLAPS

-----------------------------------------------------------------------------
(***************************************************************************)
(* Induction over sequences and over places, by sets of them, and what a   *)
(* scan of a sequence is. The theorem modules of the library state         *)
(* induction with an operator for the formula, which no prover here can be *)
(* given; a set of the sequences of which the formula holds serves         *)
(* instead.                                                                *)
(***************************************************************************)

(* A set of natural numbers that holds 0, and with each its successor, holds *)
(* all.                                                                      *)
LEMMA SetInduction ==
  ASSUME NEW S \in SUBSET Nat, 0 \in S, \A n \in S : n + 1 \in S
  PROVE  S = Nat
  <1> DEFINE T == Nat \ S
             Less == {ss \in Nat \X Nat : ss[1] < ss[2]}
  <1>1. IsWellFoundedOn(Less, Nat)
    BY NatLessThanWellFounded DEF OpToRel
  <1>2. SUFFICES ASSUME T # {} PROVE FALSE
    OBVIOUS
  <1>3. PICK x \in T : \A y \in T : ~(<<y, x>> \in Less)
    <2>1. T \subseteq Nat
      OBVIOUS
    <2> HIDE DEF T, Less
    <2>. QED  BY <1>1, <1>2, <2>1, WFMin
  <1>4. x \in Nat /\ x \notin S
    OBVIOUS
  <1>5. x # 0
    BY <1>4
  <1>6. x - 1 \in Nat /\ x - 1 < x /\ (x - 1) + 1 = x
    BY <1>4, <1>5
  <1>7. <<x - 1, x>> \in Less
    BY <1>4, <1>6
  <1>8. x - 1 \in S
    BY <1>3, <1>6, <1>7
  <1>. QED  BY <1>4, <1>6, <1>8

(* Induction on a rank. *)
LEMMA RankInduction ==
  ASSUME NEW P, NEW rank \in [P -> Nat], NEW S \in SUBSET P,
         \A p \in P : (\A q \in P : rank[q] < rank[p] => q \in S) => p \in S
  PROVE  S = P
  <1> DEFINE K == {k \in Nat : \A p \in P : rank[p] <= k => p \in S}
  <1>1. 0 \in K
    <2>1. ASSUME NEW p \in P, rank[p] <= 0 PROVE p \in S
      <3>1. \A q \in P : ~(rank[q] < rank[p])
        BY <2>1
      <3>. QED  BY <3>1
    <2>. QED  BY <2>1
  <1>2. ASSUME NEW k \in K PROVE k + 1 \in K
    <2>1. ASSUME NEW p \in P, rank[p] <= k + 1 PROVE p \in S
      <3>1. \A q \in P : rank[q] < rank[p] => q \in S
        BY <2>1
      <3>. QED  BY <3>1
    <2>. QED  BY <2>1
  <1>3. K = Nat
    <2> HIDE DEF K
    <2>1. K \subseteq Nat
      BY DEF K
    <2>. QED  BY <1>1, <1>2, <2>1, SetInduction
  <1>4. \A p \in P : rank[p] \in K /\ rank[p] <= rank[p]
    BY <1>3
  <1>. QED  BY <1>4

(* What G makes of a function at a place depends on places of smaller rank. *)
DependsBelow(G, P, X, rank) ==
  \A f, g \in [P -> X], p \in P :
    (\A q \in P : rank[q] < rank[p] => f[q] = g[q]) => G[<<f, p>>] = G[<<g, p>>]

Solvable(G, P, X) == \E f \in [P -> X] : \A p \in P : f[p] = G[<<f, p>>]

(* A function is defined by its values at the places of smaller rank. *)
LEMMA RankRecursion ==
  ASSUME NEW P, NEW X, NEW x0 \in X, NEW bound \in Nat, NEW rank \in [P -> 0..bound],
         NEW G \in [[P -> X] \X P -> X],
         DependsBelow(G, P, X, rank)
  PROVE  Solvable(G, P, X)
  <1> DEFINE upTo(f, k) == \A p \in P : rank[p] <= k => f[p] = G[<<f, p>>]
             S == {k \in Nat : \E f \in [P -> X] : upTo(f, k)}
  <1>1. \A p \in P : rank[p] \in Nat
    OBVIOUS
  <1>2. \A f \in [P -> X], p \in P : G[<<f, p>>] \in X
    OBVIOUS
  <1>3. 0 \in S
    <2> DEFINE z == [p \in P |-> x0]
               f == [p \in P |-> G[<<z, p>>]]
    <2>1. z \in [P -> X] /\ f \in [P -> X]
      BY <1>2
    <2>2. ASSUME NEW p \in P, rank[p] <= 0 PROVE f[p] = G[<<f, p>>]
      <3>1. \A q \in P : ~(rank[q] < rank[p])
        BY <1>1, <2>2
      <3>2. G[<<z, p>>] = G[<<f, p>>]
        <4> HIDE DEF z, f
        <4>. QED  BY <2>1, <3>1 DEF DependsBelow
      <3>. QED  BY <3>2
    <2> HIDE DEF f
    <2>. QED  BY <2>1, <2>2
  <1>4. ASSUME NEW k \in S PROVE k + 1 \in S
    <2>1. PICK f \in [P -> X] : upTo(f, k)
      OBVIOUS
    <2> DEFINE g == [p \in P |-> IF rank[p] <= k THEN f[p] ELSE G[<<f, p>>]]
    <2>2. g \in [P -> X]
      BY <1>2
    <2>3. \A q \in P : rank[q] <= k => g[q] = f[q]
      OBVIOUS
    <2>4. ASSUME NEW p \in P, rank[p] <= k + 1 PROVE g[p] = G[<<g, p>>]
      <3>1. \A q \in P : rank[q] < rank[p] => f[q] = g[q]
        BY <1>1, <2>3, <2>4
      <3>2. G[<<f, p>>] = G[<<g, p>>]
        <4> HIDE DEF g
        <4>. QED  BY <2>2, <3>1 DEF DependsBelow
      <3>3. g[p] = G[<<f, p>>]
        BY <2>1
      <3>. QED  BY <3>2, <3>3
    <2> HIDE DEF g
    <2>. QED  BY <2>2, <2>4
  <1>5. S = Nat
    <2> HIDE DEF S
    <2>1. S \subseteq Nat
      BY DEF S
    <2>. QED  BY <1>3, <1>4, <2>1, SetInduction
  <1>6. PICK f \in [P -> X] : upTo(f, bound)
    BY <1>5
  <1>. QED  BY <1>6 DEF Solvable

-----------------------------------------------------------------------------
(***************************************************************************)
(* Scans: the value after each element, as a function of the state and the *)
(* element.                                                                *)
(***************************************************************************)

(* Induction over sequences, from their ends. *)
LEMMA SeqInduction ==
  ASSUME NEW D, NEW Q \in SUBSET Seq(D), <<>> \in Q,
         \A s \in Q, d \in D : s \o <<d>> \in Q
  PROVE  Q = Seq(D)
  <1> DEFINE N == {n \in Nat : \A s \in Seq(D) : Len(s) = n => s \in Q}
  <1>1. 0 \in N
    <2>1. \A s \in Seq(D) : Len(s) = 0 => s = <<>>
      BY EmptySeq
    <2>. QED  BY <2>1
  <1>2. ASSUME NEW n \in N PROVE n + 1 \in N
    <2>1. ASSUME NEW s \in Seq(D), Len(s) = n + 1 PROVE s \in Q
      <3>1. s # <<>>
        BY <2>1, EmptySeq
      <3>2. PICK t \in Seq(D), d \in D : s = Append(t, d)
        BY <3>1, SequenceEmptyOrAppend
      <3>3. Len(s) = Len(t) + 1 /\ s = t \o <<d>> /\ Len(t) \in Nat /\ n \in Nat
        <4>1. n \in Nat
          OBVIOUS
        <4> HIDE DEF N
        <4>. QED  BY <3>2, <4>1, AppendProperties, AppendIsConcat, LenProperties
      <3>4. Len(t) = n
        BY <2>1, <3>3
      <3>5. t \in Q
        BY <3>4
      <3>. QED  BY <3>3, <3>5
    <2>. QED  BY <2>1
  <1>3. N = Nat
    <2> HIDE DEF N
    <2>1. N \subseteq Nat
      BY DEF N
    <2>. QED  BY <1>1, <1>2, <2>1, SetInduction
  <1>4. \A s \in Seq(D) : Len(s) \in N
    BY <1>3, LenProperties
  <1>. QED  BY <1>4

(* A scan whose step is a function. *)
ScanOf(G, start, text) ==
  LET after[k \in 0..Len(text)] == IF k = 0 THEN start ELSE G[<<after[k-1], text[k]>>]
  IN  after[Len(text)]

IsScan(X, C, G, start, text) ==
  G \in [X \X C -> X] /\ start \in X /\ text \in Seq(C)

(* A function of the places of a text follows the steps of G. *)
Follows(f, X, G, start, text) ==
  /\ f \in [0..Len(text) -> X]
  /\ f[0] = start
  /\ \A k \in 1..Len(text) : f[k] = G[<<f[k-1], text[k]>>]

(* The same, as long as the values are in X. *)
FollowsIn(g, X, G, start, text) ==
  /\ g[0] = start
  /\ \A k \in 1..Len(text) : g[k-1] \in X => g[k] = G[<<g[k-1], text[k]>>]

(* There is a function that follows a scan, place by place.                  *)
LEMMA ScanExists ==
  ASSUME NEW X, NEW C, NEW G, NEW start, NEW text, IsScan(X, C, G, start, text)
  PROVE  \E f : Follows(f, X, G, start, text)
  <1> DEFINE P == 0..Len(text)
             rank == [k \in P |-> k]
             cell(f, k) == IF k = 0 THEN start ELSE G[<<f[k-1], text[k]>>]
             H == [fk \in [P -> X] \X P |-> cell(fk[1], fk[2])]
             n == Len(text)
  <1> USE DEF IsScan
  <1>1. n \in Nat /\ rank \in [P -> 0..n]
    BY LenProperties
  <1>2. \A f \in [P -> X], k \in P : cell(f, k) \in X
    <2> SUFFICES ASSUME NEW f \in [P -> X], NEW k \in P, k # 0
                 PROVE  G[<<f[k-1], text[k]>>] \in X
      OBVIOUS
    <2>1. k - 1 \in P /\ k \in 1..Len(text)
      BY <1>1
    <2>2. f[k-1] \in X /\ text[k] \in C
      BY <2>1, ElementOfSeq
    <2>. QED  BY <2>2
  <1>3. H \in [[P -> X] \X P -> X]
    <2> HIDE DEF cell, P
    <2>. QED  BY <1>2
  <1>4. \A f \in [P -> X], k \in P : H[<<f, k>>] = cell(f, k)
    <2> HIDE DEF cell, P
    <2>. QED  OBVIOUS
  <1>5. DependsBelow(H, P, X, rank)
    <2>1. ASSUME NEW f \in [P -> X], NEW g \in [P -> X], NEW k \in P,
                 \A q \in P : rank[q] < rank[k] => f[q] = g[q]
          PROVE  cell(f, k) = cell(g, k)
      <3>1. CASE k = 0
        BY <3>1
      <3>2. CASE k # 0
        <4>1. k - 1 \in P /\ k - 1 < k
          BY <1>1, <3>2
        <4>2. f[k-1] = g[k-1]
          BY <2>1, <4>1
        <4>. QED  BY <4>2
      <3>. QED  BY <3>1, <3>2
    <2> HIDE DEF cell, H, rank, P
    <2>. QED  BY <1>4, <2>1 DEF DependsBelow
  <1>6. PICK f \in [P -> X] : \A k \in P : f[k] = H[<<f, k>>]
    <2> HIDE DEF H, P, rank, n
    <2>1. Solvable(H, P, X)
      BY <1>1, <1>3, <1>5, RankRecursion, Zenon
    <2>. QED  BY <2>1 DEF Solvable
  <1>7. \A k \in P : f[k] = cell(f, k)
    <2> HIDE DEF H, P, cell
    <2>. QED  BY <1>4, <1>6
  <1>8. f[0] = start
    <2>1. 0 \in P
      BY <1>1
    <2>. QED  BY <1>7, <2>1
  <1>9. \A k \in 1..Len(text) : f[k] = G[<<f[k-1], text[k]>>]
    BY <1>1, <1>7
  <1>. QED  BY <1>8, <1>9 DEF Follows

(* There is one such function. *)
LEMMA ScanUnique ==
  ASSUME NEW X, NEW C, NEW G, NEW start, NEW text, IsScan(X, C, G, start, text),
         NEW f, Follows(f, X, G, start, text),
         NEW g, FollowsIn(g, X, G, start, text)
  PROVE  g[Len(text)] = f[Len(text)]
  <1> DEFINE S == {k \in Nat : k <= Len(text) => g[k] = f[k]}
  <1>1. Len(text) \in Nat
    BY LenProperties DEF IsScan
  <1>2. 0 \in S
    BY DEF Follows, FollowsIn
  <1>3. ASSUME NEW k \in S PROVE k + 1 \in S
    <2> SUFFICES ASSUME k + 1 <= Len(text) PROVE g[k+1] = f[k+1]
      OBVIOUS
    <2>1. k \in 0..Len(text) /\ k + 1 \in 1..Len(text) /\ (k + 1) - 1 = k
      BY <1>1
    <2>2. g[k] = f[k] /\ g[k] \in X
      BY <2>1 DEF Follows
    <2>. QED  BY <2>1, <2>2 DEF Follows, FollowsIn
  <1>4. S = Nat
    <2> HIDE DEF S
    <2>1. S \subseteq Nat
      BY DEF S
    <2>. QED  BY <1>2, <1>3, <2>1, SetInduction
  <1>. QED  BY <1>1, <1>4

(* What the scan of a text is the last value of.                             *)
LEMMA ScanOfIs ==
  ASSUME NEW X, NEW C, NEW G, NEW start, NEW text, IsScan(X, C, G, start, text),
         NEW f, Follows(f, X, G, start, text)
  PROVE  ScanOf(G, start, text) = f[Len(text)]
  <1> DEFINE T == CHOOSE g : g = [k \in 0..Len(text) |->
                                    IF k = 0 THEN start ELSE G[<<g[k-1], text[k]>>]]
  <1>1. Len(text) \in Nat
    BY LenProperties DEF IsScan
  <1>2. ScanOf(G, start, text) = T[Len(text)]
    BY DEF ScanOf
  <1>3. f = [k \in 0..Len(text) |-> IF k = 0 THEN start ELSE G[<<f[k-1], text[k]>>]]
    BY <1>1 DEF Follows
  <1>4. T = [k \in 0..Len(text) |-> IF k = 0 THEN start ELSE G[<<T[k-1], text[k]>>]]
    BY <1>3
  <1> HIDE DEF T
  <1>5. T[0] = start /\ \A k \in 1..Len(text) : T[k] = G[<<T[k-1], text[k]>>]
    BY <1>1, <1>4
  <1>6. T[Len(text)] = f[Len(text)]
    <2>1. FollowsIn(T, X, G, start, text)
      BY <1>5 DEF FollowsIn
    <2>. QED  BY <2>1, ScanUnique, SMT
  <1>. QED  BY <1>1, <1>2, <1>6

(* A recursive function that steps like the scan ends where the scan ends.   *)
LEMMA ScanLink ==
  ASSUME NEW X, NEW C, NEW G, NEW start, NEW text, IsScan(X, C, G, start, text),
         NEW g, FollowsIn(g, X, G, start, text)
  PROVE  g[Len(text)] = ScanOf(G, start, text)
  <1>1. PICK f : Follows(f, X, G, start, text)
    BY ScanExists
  <1>2. g[Len(text)] = f[Len(text)]
    BY <1>1, ScanUnique
  <1>. QED  BY <1>1, <1>2, ScanOfIs

(* A scan keeps to its states.                                               *)
LEMMA ScanOfType ==
  ASSUME NEW X, NEW C, NEW G, NEW start, NEW text, IsScan(X, C, G, start, text)
  PROVE  ScanOf(G, start, text) \in X
  <1>1. PICK f : Follows(f, X, G, start, text)
    BY ScanExists
  <1>2. Len(text) \in 0..Len(text)
    BY LenProperties DEF IsScan
  <1>3. f[Len(text)] \in X
    BY <1>1, <1>2 DEF Follows
  <1>. QED  BY <1>1, <1>3, ScanOfIs

(* The scan of no text is where it starts.                                   *)
LEMMA ScanOfEmpty ==
  ASSUME NEW X, NEW C, NEW G, NEW start, IsScan(X, C, G, start, <<>>)
  PROVE  ScanOf(G, start, <<>>) = start
  <1>1. PICK f : Follows(f, X, G, start, <<>>)
    BY ScanExists
  <1>2. f[Len(<<>>)] = start
    BY <1>1 DEF Follows
  <1>. QED  BY <1>1, <1>2, ScanOfIs

(* The scan of one more element is one more step.                            *)
LEMMA ScanOfAppend ==
  ASSUME NEW X, NEW C, NEW G, NEW start, NEW text, IsScan(X, C, G, start, text), NEW c \in C
  PROVE  /\ IsScan(X, C, G, start, text \o <<c>>)
         /\ ScanOf(G, start, text \o <<c>>) = G[<<ScanOf(G, start, text), c>>]
  <1> DEFINE longer == text \o <<c>>
             n == Len(text)
  <1>1. /\ n \in Nat /\ longer \in Seq(C) /\ Len(longer) = n + 1
        /\ \A k \in 1..n : longer[k] = text[k]
        /\ longer[n+1] = c
    BY LenProperties DEF IsScan
  <1>2. IsScan(X, C, G, start, longer)
    BY <1>1 DEF IsScan
  <1>3. PICK f : Follows(f, X, G, start, longer)
    BY <1>2, ScanExists
  <1> HIDE DEF longer
  <1>4. FollowsIn(f, X, G, start, text)
    BY <1>1, <1>3 DEF Follows, FollowsIn
  <1>5. f[n] = ScanOf(G, start, text)
    BY <1>4, ScanLink
  <1>6. f[n+1] = ScanOf(G, start, longer)
    BY <1>1, <1>2, <1>3, ScanOfIs
  <1>7. f[n+1] = G[<<f[n], c>>]
    BY <1>1, <1>3 DEF Follows
  <1>. QED  BY <1>2, <1>5, <1>6, <1>7 DEF longer

(* The scan of two texts is the scan of the second from the end of the       *)
(* first.                                                                    *)
LEMMA ScanOfConcat ==
  ASSUME NEW X, NEW C, NEW G, NEW start, NEW s, IsScan(X, C, G, start, s), NEW t \in Seq(C)
  PROVE  /\ IsScan(X, C, G, start, s \o t)
         /\ IsScan(X, C, G, ScanOf(G, start, s), t)
         /\ ScanOf(G, start, s \o t) = ScanOf(G, ScanOf(G, start, s), t)
  <1> DEFINE middle == ScanOf(G, start, s)
             Q == {u \in Seq(C) : ScanOf(G, start, s \o u) = ScanOf(G, middle, u)}
  <1>1. middle \in X
    BY ScanOfType
  <1> HIDE DEF middle
  <1>2. \A u \in Seq(C) : IsScan(X, C, G, start, s \o u) /\ IsScan(X, C, G, middle, u)
    BY <1>1 DEF IsScan
  <1>3. <<>> \in Q
    <2>1. <<>> \in Seq(C) /\ s \o <<>> = s
      BY DEF IsScan
    <2>2. ScanOf(G, middle, <<>>) = middle
      BY <1>2, <2>1, ScanOfEmpty
    <2>. QED  BY <2>1, <2>2 DEF middle
  <1>4. ASSUME NEW u \in Q, NEW c \in C PROVE u \o <<c>> \in Q
    <2>1. u \in Seq(C) /\ u \o <<c>> \in Seq(C) /\ s \o (u \o <<c>>) = (s \o u) \o <<c>>
      BY DEF IsScan
    <2>2. ScanOf(G, start, (s \o u) \o <<c>>) = G[<<ScanOf(G, start, s \o u), c>>]
      BY <1>2, <2>1, ScanOfAppend
    <2>3. ScanOf(G, middle, u \o <<c>>) = G[<<ScanOf(G, middle, u), c>>]
      BY <1>2, <2>1, ScanOfAppend
    <2>. QED  BY <2>1, <2>2, <2>3
  <1>5. Q = Seq(C)
    <2> HIDE DEF Q
    <2>1. Q \subseteq Seq(C)
      BY DEF Q
    <2>. QED  BY <1>3, <1>4, <2>1, SeqInduction
  <1>. QED  BY <1>2, <1>5 DEF middle

-----------------------------------------------------------------------------
(***************************************************************************)
(* The diff: the table of common lines and the walk through it are         *)
(* functions of the places that are left.                                  *)
(***************************************************************************)

(* One cell of the table, from the cells f has. *)
Cell(f, before, after, p) ==
  IF p[1] > Len(before) \/ p[2] > Len(after) THEN 0
  ELSE IF before[p[1]] = after[p[2]] THEN 1 + f[<<p[1]+1, p[2]+1>>]
  ELSE Larger(f[<<p[1]+1, p[2]>>], f[<<p[1], p[2]+1>>])

Left(before, after, p) == (Len(before) + 1 - p[1]) + (Len(after) + 1 - p[2])

(* A place is a pair of positions; its rank is a natural number.             *)
LEMMA PlacesAre ==
  ASSUME NEW D, NEW before \in Seq(D), NEW after \in Seq(D), NEW p \in Places(before, after)
  PROVE  /\ Len(before) \in Nat /\ Len(after) \in Nat
         /\ p[1] \in Nat /\ p[1] >= 1 /\ p[1] <= Len(before)+1
         /\ p[2] \in Nat /\ p[2] >= 1 /\ p[2] <= Len(after)+1
         /\ p = <<p[1], p[2]>>
         /\ Left(before, after, p) \in Nat
  <1>1. Len(before) \in Nat /\ Len(after) \in Nat
    BY LenProperties
  <1>2. PICK i \in 1..Len(before)+1, j \in 1..Len(after)+1 : p = <<i, j>>
    BY DEF Places
  <1>3. p[1] = i /\ p[2] = j /\ i \in Nat /\ j \in Nat /\ i <= Len(before)+1 /\ j <= Len(after)+1
    BY <1>1, <1>2
  <1>4. Left(before, after, p) = (Len(before) + 1 - i) + (Len(after) + 1 - j)
    BY <1>3 DEF Left
  <1>5. Left(before, after, p) \in Nat
    BY <1>1, <1>3, <1>4
  <1>. QED  BY <1>1, <1>2, <1>3, <1>5

(* The places that a step of the walk leads to. *)
LEMMA NextPlaces ==
  ASSUME NEW D, NEW before \in Seq(D), NEW after \in Seq(D), NEW p \in Places(before, after)
  PROVE  /\ p[1] <= Len(before) =>
              /\ <<p[1]+1, p[2]>> \in Places(before, after) /\ before[p[1]] \in D
              /\ Left(before, after, <<p[1]+1, p[2]>>) < Left(before, after, p)
         /\ p[2] <= Len(after) =>
              /\ <<p[1], p[2]+1>> \in Places(before, after) /\ after[p[2]] \in D
              /\ Left(before, after, <<p[1], p[2]+1>>) < Left(before, after, p)
         /\ p[1] <= Len(before) /\ p[2] <= Len(after) =>
              /\ <<p[1]+1, p[2]+1>> \in Places(before, after)
              /\ Left(before, after, <<p[1]+1, p[2]+1>>) < Left(before, after, p)
  <1>1. Len(before) \in Nat /\ Len(after) \in Nat
    BY LenProperties
  <1>2. p[1] \in 1..Len(before)+1 /\ p[2] \in 1..Len(after)+1
    BY DEF Places
  <1>3. p[1] <= Len(before) => p[1] \in 1..Len(before)
    BY <1>1, <1>2
  <1>4. p[2] <= Len(after) => p[2] \in 1..Len(after)
    BY <1>1, <1>2
  <1> DEFINE n == Len(before)
             m == Len(after)
             i == p[1]
             k == p[2]
  <1>8. \A x \in 1..n+1, y \in 1..m+1 : <<x, y>> \in Places(before, after)
    BY DEF Places
  <1>9. \A x, y : Left(before, after, <<x, y>>) = (n + 1 - x) + (m + 1 - y)
    BY DEF Left
  <1>10. Left(before, after, p) = (n + 1 - i) + (m + 1 - k)
    BY DEF Left
  <1> HIDE DEF n, m, i, k
  <1>11. n \in Nat /\ m \in Nat /\ i \in 1..n+1 /\ k \in 1..m+1
    BY <1>1, <1>2 DEF n, m, i, k
  <1>12. i <= n => i+1 \in 1..n+1 /\ (n + 1 - (i+1)) + (m + 1 - k) < (n + 1 - i) + (m + 1 - k)
    BY <1>11
  <1>13. k <= m => k+1 \in 1..m+1 /\ (n + 1 - i) + (m + 1 - (k+1)) < (n + 1 - i) + (m + 1 - k)
    BY <1>11
  <1>14. i <= n /\ k <= m => (n + 1 - (i+1)) + (m + 1 - (k+1)) < (n + 1 - i) + (m + 1 - k)
    BY <1>11
  <1>5. i <= n => /\ <<i+1, k>> \in Places(before, after)
                  /\ Left(before, after, <<i+1, k>>) < Left(before, after, p)
    BY <1>8, <1>9, <1>10, <1>11, <1>12
  <1>6. k <= m => /\ <<i, k+1>> \in Places(before, after)
                  /\ Left(before, after, <<i, k+1>>) < Left(before, after, p)
    BY <1>8, <1>9, <1>10, <1>11, <1>13
  <1>7. i <= n /\ k <= m =>
          /\ <<i+1, k+1>> \in Places(before, after)
          /\ Left(before, after, <<i+1, k+1>>) < Left(before, after, p)
    BY <1>8, <1>9, <1>10, <1>12, <1>13, <1>14
  <1>. QED  BY <1>3, <1>4, <1>5, <1>6, <1>7, ElementOfSeq DEF n, m, i, k

(* The rank of a place is what is left of both texts.                        *)
LEMMA RankBounded ==
  ASSUME NEW D, NEW before \in Seq(D), NEW after \in Seq(D)
  PROVE  /\ [p \in Places(before, after) |-> Left(before, after, p)] \in [Places(before, after) -> Nat]
         /\ Len(before) + Len(after) \in Nat
         /\ \A p \in Places(before, after) : Left(before, after, p) <= Len(before) + Len(after)
  <1>1. Len(before) \in Nat /\ Len(after) \in Nat
    BY LenProperties
  <1>2. ASSUME NEW p \in Places(before, after)
        PROVE  Left(before, after, p) <= Len(before) + Len(after)
    <2>1. p[1] \in Nat /\ p[2] \in Nat /\ p[1] >= 1 /\ p[2] >= 1
      BY PlacesAre
    <2>. QED  BY <1>1, <2>1 DEF Left
  <1>3. \A p \in Places(before, after) : Left(before, after, p) \in Nat
    BY PlacesAre
  <1>. QED  BY <1>1, <1>2, <1>3

(* A cell of the table is a natural number.                                  *)
LEMMA CellType ==
  ASSUME NEW D, NEW before \in Seq(D), NEW after \in Seq(D), NEW p \in Places(before, after),
         NEW f \in [Places(before, after) -> Nat]
  PROVE  Cell(f, before, after, p) \in Nat
  <1>1. CASE p[1] > Len(before) \/ p[2] > Len(after)
    BY <1>1 DEF Cell
  <1>2. CASE p[1] <= Len(before) /\ p[2] <= Len(after)
    <2>1. /\ f[<<p[1]+1, p[2]>>] \in Nat /\ f[<<p[1], p[2]+1>>] \in Nat
          /\ f[<<p[1]+1, p[2]+1>>] \in Nat
      BY <1>2, NextPlaces
    <2>. QED  BY <2>1 DEF Cell, Larger
  <1>3. p[1] \in Nat /\ p[2] \in Nat /\ Len(before) \in Nat /\ Len(after) \in Nat
    BY PlacesAre
  <1>. QED  BY <1>1, <1>2, <1>3

(* A cell depends on cells of a lower rank only.                             *)
LEMMA CellAgrees ==
  ASSUME NEW D, NEW before \in Seq(D), NEW after \in Seq(D), NEW p \in Places(before, after),
         NEW f, NEW g,
         \A q \in Places(before, after) :
           Left(before, after, q) < Left(before, after, p) => f[q] = g[q]
  PROVE  Cell(f, before, after, p) = Cell(g, before, after, p)
  <1>1. CASE p[1] > Len(before) \/ p[2] > Len(after)
    BY <1>1 DEF Cell
  <1>2. CASE p[1] <= Len(before) /\ p[2] <= Len(after)
    <2>1. /\ f[<<p[1]+1, p[2]>>] = g[<<p[1]+1, p[2]>>]
          /\ f[<<p[1], p[2]+1>>] = g[<<p[1], p[2]+1>>]
          /\ f[<<p[1]+1, p[2]+1>>] = g[<<p[1]+1, p[2]+1>>]
      BY <1>2, NextPlaces
    <2>. QED  BY <2>1 DEF Cell
  <1>3. p[1] \in Nat /\ p[2] \in Nat /\ Len(before) \in Nat /\ Len(after) \in Nat
    BY PlacesAre
  <1>. QED  BY <1>1, <1>2, <1>3

(* The table is well defined: every cell is what the cells after it make it. *)
LEMMA CommonTableDef ==
  ASSUME NEW D, NEW before \in Seq(D), NEW after \in Seq(D)
  PROVE  /\ CommonTable(before, after) \in [Places(before, after) -> Nat]
         /\ \A p \in Places(before, after) :
              CommonTable(before, after)[p] = Cell(CommonTable(before, after), before, after, p)
  <1> DEFINE P == Places(before, after)
             cell(f, p) == Cell(f, before, after, p)
             rank == [p \in P |-> Left(before, after, p)]
             G == [fp \in [P -> Nat] \X P |-> cell(fp[1], fp[2])]
             bound == Len(before) + Len(after)
             T == CommonTable(before, after)
             S == {p \in P : T[p] \in Nat}
  <1>1. T = CHOOSE f : f = [p \in P |-> cell(f, p)]
    BY DEF CommonTable, Cell
  <1>15. \A p \in P : rank[p] = Left(before, after, p)
    OBVIOUS
  <1>2. rank \in [P -> Nat] /\ bound \in Nat /\ \A p \in P : rank[p] <= bound
    <2>1. rank \in [P -> Nat] /\ bound \in Nat
      BY RankBounded
    <2>2. \A p \in P : Left(before, after, p) <= bound
      BY RankBounded
    <2> HIDE DEF rank
    <2>. QED  BY <1>15, <2>1, <2>2
  <1>3. \A f \in [P -> Nat], p \in P : cell(f, p) \in Nat
    BY CellType
  <1>4. \A f, g : \A p \in P : (\A q \in P : rank[q] < rank[p] => f[q] = g[q]) => cell(f, p) = cell(g, p)
    <2> HIDE DEF rank
    <2>1. ASSUME NEW f, NEW g, NEW p \in P, \A q \in P : rank[q] < rank[p] => f[q] = g[q]
          PROVE  cell(f, p) = cell(g, p)
      <3>1. \A q \in P : Left(before, after, q) < Left(before, after, p) => f[q] = g[q]
        BY <1>15, <2>1
      <3>. QED  BY <3>1, CellAgrees
    <2>. QED  BY <2>1
  <1> HIDE DEF P, cell, rank, bound, T
  <1>5. G \in [[P -> Nat] \X P -> Nat]
    BY <1>3
  <1>6. \A f \in [P -> Nat], p \in P : G[<<f, p>>] = cell(f, p)
    OBVIOUS
  <1>7. DependsBelow(G, P, Nat, rank)
    <2> HIDE DEF G
    <2>1. ASSUME NEW f \in [P -> Nat], NEW g \in [P -> Nat], NEW p \in P,
                 \A q \in P : rank[q] < rank[p] => f[q] = g[q]
          PROVE  G[<<f, p>>] = G[<<g, p>>]
      <3>1. cell(f, p) = cell(g, p)
        BY <1>4, <2>1
      <3>. QED  BY <1>6, <3>1
    <2>. QED  BY <2>1 DEF DependsBelow
  <1>8. PICK f \in [P -> Nat] : \A p \in P : f[p] = G[<<f, p>>]
    <2> HIDE DEF G
    <2>1. 0 \in Nat
      OBVIOUS
    <2>2. rank \in [P -> 0..bound]
      BY <1>2
    <2>3. Solvable(G, P, Nat)
      BY <1>2, <1>5, <1>7, <2>1, <2>2, RankRecursion, Zenon
    <2>. QED  BY <2>3 DEF Solvable
  <1>9. f = [p \in P |-> cell(f, p)]
    BY <1>6, <1>8
  <1>10. T = [p \in P |-> cell(T, p)]
    BY <1>1, <1>9
  <1> DEFINE E == {p \in P : T[p] = f[p]}
  <1>11. ASSUME NEW p \in P, \A q \in P : rank[q] < rank[p] => q \in E
         PROVE  p \in E
    BY <1>4, <1>9, <1>10, <1>11
  <1>12. E = P
    <2> HIDE DEF E
    <2>1. E \subseteq P
      BY DEF E
    <2>. QED  BY <1>2, <1>11, <2>1, RankInduction
  <1>13. T \in [P -> Nat]
    BY <1>10, <1>12
  <1>14. \A p \in P : T[p] = cell(T, p)
    BY <1>10
  <1>. QED  BY <1>13, <1>14 DEF T, P, cell

WalkCell(w, before, after, p) ==
  IF p = <<Len(before)+1, Len(after)+1>> THEN <<>>
  ELSE IF Keeps(before, after, p[1], p[2])
  THEN <<<<" ", before[p[1]]>>>> \o w[<<p[1]+1, p[2]+1>>]
  ELSE IF Adds(before, after, p[1], p[2])
  THEN <<<<"+", after[p[2]]>>>> \o w[<<p[1], p[2]+1>>]
  ELSE <<<<"-", before[p[1]]>>>> \o w[<<p[1]+1, p[2]>>]

(* What the walk does at a place, case by case. *)
Walks(cell, w, before, after, p) ==
  \/ p[1] = Len(before) + 1 /\ p[2] = Len(after) + 1 /\ cell = <<>>
  \/ /\ p[1] <= Len(before) /\ p[2] <= Len(after) /\ before[p[1]] = after[p[2]]
     /\ cell = <<<<" ", before[p[1]]>>>> \o w[<<p[1]+1, p[2]+1>>]
  \/ /\ p[2] <= Len(after) /\ ~Keeps(before, after, p[1], p[2])
     /\ Adds(before, after, p[1], p[2])
     /\ cell = <<<<"+", after[p[2]]>>>> \o w[<<p[1], p[2]+1>>]
  \/ /\ p[1] <= Len(before) /\ ~Keeps(before, after, p[1], p[2])
     /\ ~Adds(before, after, p[1], p[2])
     /\ cell = <<<<"-", before[p[1]]>>>> \o w[<<p[1]+1, p[2]>>]

(* A cell of the walk is one of those cases. *)
LEMMA WalkCases ==
  ASSUME NEW D, NEW before \in Seq(D), NEW after \in Seq(D), NEW p \in Places(before, after), NEW w
  PROVE  Walks(WalkCell(w, before, after, p), w, before, after, p)
  <1> USE DEF Walks
  <1> DEFINE n == Len(before)
             m == Len(after)
  <1>1. /\ p[1] \in Nat /\ p[2] \in Nat /\ n \in Nat /\ m \in Nat /\ p = <<p[1], p[2]>>
        /\ p[1] <= n + 1 /\ p[2] <= m + 1
    BY PlacesAre
  <1> HIDE DEF n, m
  <1>2. CASE p[1] = n + 1 /\ p[2] = m + 1
    <2>1. p = <<n + 1, m + 1>>
      BY <1>1, <1>2
    <2>2. WalkCell(w, before, after, p) = <<>>
      BY <2>1 DEF WalkCell, n, m
    <2>. QED  BY <1>2, <2>2 DEF n, m
  <1>3. CASE ~(p[1] = n + 1 /\ p[2] = m + 1)
    <2>1. p # <<n + 1, m + 1>>
      BY <1>3
    <2>2. CASE Keeps(before, after, p[1], p[2])
      <3>1. WalkCell(w, before, after, p) = <<<<" ", before[p[1]]>>>> \o w[<<p[1]+1, p[2]+1>>]
        BY <2>1, <2>2 DEF WalkCell, n, m
      <3>2. p[1] <= Len(before) /\ p[2] <= Len(after) /\ before[p[1]] = after[p[2]]
        BY <2>2 DEF Keeps
      <3>. QED  BY <3>1, <3>2
    <2>3. CASE ~Keeps(before, after, p[1], p[2]) /\ Adds(before, after, p[1], p[2])
      BY <2>1, <2>3 DEF WalkCell, Adds, n, m
    <2>4. CASE ~Keeps(before, after, p[1], p[2]) /\ ~Adds(before, after, p[1], p[2])
      <3>1. p[1] <= n
        BY <1>1, <1>3, <2>4 DEF Adds, n, m
      <3>2. WalkCell(w, before, after, p) = <<<<"-", before[p[1]]>>>> \o w[<<p[1]+1, p[2]>>]
        BY <2>1, <2>4 DEF WalkCell, n, m
      <3>. QED  BY <2>4, <3>1, <3>2 DEF n
    <2>. QED  BY <2>2, <2>3, <2>4
  <1>. QED  BY <1>2, <1>3

(* The lines of a diff. *)
SignedLines(D) == {" ", "+", "-"} \X D

(* A signed line is a sign and a line.                                       *)
LEMMA SignedLinesAre ==
  ASSUME NEW D, NEW d \in D
  PROVE  <<" ", d>> \in SignedLines(D) /\ <<"+", d>> \in SignedLines(D) /\ <<"-", d>> \in SignedLines(D)
  BY DEF SignedLines

(* The walk from a place is a sequence of signed lines.                      *)
LEMMA WalkCellType ==
  ASSUME NEW D, NEW before \in Seq(D), NEW after \in Seq(D), NEW p \in Places(before, after),
         NEW w \in [Places(before, after) -> Seq(SignedLines(D))]
  PROVE  WalkCell(w, before, after, p) \in Seq(SignedLines(D))
  <1> DEFINE Z == SignedLines(D)
             P == Places(before, after)
             W == WalkCell(w, before, after, p)
  <1>1. \A z \in Z : \A s \in Seq(Z) : <<z>> \o s \in Seq(Z)
    <2> HIDE DEF Z
    <2>. QED  OBVIOUS
  <1>2. <<>> \in Seq(Z)
    OBVIOUS
  <1>3. \A q \in P : w[q] \in Seq(Z)
    OBVIOUS
  <1>4. \A d \in D : <<" ", d>> \in Z /\ <<"+", d>> \in Z /\ <<"-", d>> \in Z
    BY SignedLinesAre
  <1>11. /\ p[1] <= Len(before) => <<p[1]+1, p[2]>> \in P /\ before[p[1]] \in D
         /\ p[2] <= Len(after) => <<p[1], p[2]+1>> \in P /\ after[p[2]] \in D
         /\ p[1] <= Len(before) /\ p[2] <= Len(after) => <<p[1]+1, p[2]+1>> \in P
    BY NextPlaces
  <1>12. \/ p[1] = Len(before) + 1 /\ p[2] = Len(after) + 1 /\ W = <<>>
         \/ /\ p[1] <= Len(before) /\ p[2] <= Len(after)
            /\ W = <<<<" ", before[p[1]]>>>> \o w[<<p[1]+1, p[2]+1>>]
         \/ p[2] <= Len(after) /\ W = <<<<"+", after[p[2]]>>>> \o w[<<p[1], p[2]+1>>]
         \/ p[1] <= Len(before) /\ W = <<<<"-", before[p[1]]>>>> \o w[<<p[1]+1, p[2]>>]
    <2>1. Walks(WalkCell(w, before, after, p), w, before, after, p)
      BY WalkCases
    <2>2. W = WalkCell(w, before, after, p)
      OBVIOUS
    <2> HIDE DEF W, Z, P
    <2>3. Walks(W, w, before, after, p)
      BY <2>1, <2>2
    <2>. QED  BY <2>3 DEF Walks
  <1>10. SUFFICES W \in Seq(Z)
    OBVIOUS
  <1> HIDE DEF Z, P, W
  <1>9. \A d \in D, q \in P : /\ <<<<" ", d>>>> \o w[q] \in Seq(Z)
                            /\ <<<<"+", d>>>> \o w[q] \in Seq(Z)
                            /\ <<<<"-", d>>>> \o w[q] \in Seq(Z)
    BY <1>1, <1>3, <1>4, Zenon
  <1>5. CASE p[1] = Len(before) + 1 /\ p[2] = Len(after) + 1 /\ W = <<>>
    BY <1>2, <1>5
  <1>6. CASE /\ p[1] <= Len(before) /\ p[2] <= Len(after)
             /\ W = <<<<" ", before[p[1]]>>>> \o w[<<p[1]+1, p[2]+1>>]
    <2>1. <<p[1]+1, p[2]+1>> \in P
      BY <1>6, <1>11
    <2>2. before[p[1]] \in D
      BY <1>6, <1>11
    <2>. QED  BY <1>9, <1>6, <2>1, <2>2, Zenon
  <1>7. CASE p[2] <= Len(after) /\ W = <<<<"+", after[p[2]]>>>> \o w[<<p[1], p[2]+1>>]
    <2>1. <<p[1], p[2]+1>> \in P
      BY <1>7, <1>11
    <2>2. after[p[2]] \in D
      BY <1>7, <1>11
    <2>. QED  BY <1>9, <1>7, <2>1, <2>2, Zenon
  <1>8. CASE p[1] <= Len(before) /\ W = <<<<"-", before[p[1]]>>>> \o w[<<p[1]+1, p[2]>>]
    <2>1. <<p[1]+1, p[2]>> \in P
      BY <1>8, <1>11
    <2>2. before[p[1]] \in D
      BY <1>8, <1>11
    <2>. QED  BY <1>9, <1>8, <2>1, <2>2, Zenon
  <1>. QED  BY <1>5, <1>6, <1>7, <1>8, <1>12

(* The walk from a place depends on walks of a lower rank only.              *)
LEMMA WalkAgrees ==
  ASSUME NEW D, NEW before \in Seq(D), NEW after \in Seq(D), NEW p \in Places(before, after),
         NEW f, NEW g,
         \A q \in Places(before, after) :
           Left(before, after, q) < Left(before, after, p) => f[q] = g[q]
  PROVE  WalkCell(f, before, after, p) = WalkCell(g, before, after, p)
  <1>3. p[1] <= Len(before) => f[<<p[1]+1, p[2]>>] = g[<<p[1]+1, p[2]>>]
    BY NextPlaces
  <1>4. p[2] <= Len(after) => f[<<p[1], p[2]+1>>] = g[<<p[1], p[2]+1>>]
    BY NextPlaces
  <1>5. p[1] <= Len(before) /\ p[2] <= Len(after) =>
          f[<<p[1]+1, p[2]+1>>] = g[<<p[1]+1, p[2]+1>>]
    BY NextPlaces
  <1>6. \/ p = <<Len(before)+1, Len(after)+1>>
        \/ Keeps(before, after, p[1], p[2]) /\ p[1] <= Len(before) /\ p[2] <= Len(after)
        \/ ~Keeps(before, after, p[1], p[2]) /\ Adds(before, after, p[1], p[2]) /\ p[2] <= Len(after)
        \/ ~Keeps(before, after, p[1], p[2]) /\ ~Adds(before, after, p[1], p[2]) /\ p[1] <= Len(before)
    <2>1. /\ p = <<p[1], p[2]>>
          /\ p[1] \in Nat /\ p[1] <= Len(before)+1 /\ p[2] \in Nat /\ p[2] <= Len(after)+1
          /\ Len(before) \in Nat /\ Len(after) \in Nat
      BY PlacesAre
    <2>2. CASE p[1] > Len(before) /\ p[2] > Len(after)
      <3>1. p[1] = Len(before)+1 /\ p[2] = Len(after)+1
        BY <2>1, <2>2
      <3>. QED  BY <2>1, <3>1
    <2>3. CASE p[1] > Len(before) /\ p[2] <= Len(after)
      BY <2>1, <2>3 DEF Keeps, Adds
    <2>4. CASE p[1] <= Len(before) /\ p[2] > Len(after)
      BY <2>1, <2>4 DEF Keeps, Adds
    <2>5. CASE p[1] <= Len(before) /\ p[2] <= Len(after)
      BY <2>5
    <2>. QED  BY <2>1, <2>2, <2>3, <2>4, <2>5
  <1>. QED  BY <1>3, <1>4, <1>5, <1>6 DEF WalkCell

(* The walk is well defined.                                                 *)
LEMMA WalkDef ==
  ASSUME NEW D, NEW before \in Seq(D), NEW after \in Seq(D)
  PROVE  /\ Walk(before, after) \in [Places(before, after) -> Seq(SignedLines(D))]
         /\ \A p \in Places(before, after) :
              Walk(before, after)[p] = WalkCell(Walk(before, after), before, after, p)
  <1> DEFINE P == Places(before, after)
             X == Seq(SignedLines(D))
             cell(f, p) == WalkCell(f, before, after, p)
             rank == [p \in P |-> Left(before, after, p)]
             G == [fp \in [P -> X] \X P |-> cell(fp[1], fp[2])]
             bound == Len(before) + Len(after)
             T == Walk(before, after)
  <1>1. T = CHOOSE f : f = [p \in P |-> cell(f, p)]
    BY DEF Walk, WalkCell
  <1>15. \A p \in P : rank[p] = Left(before, after, p)
    OBVIOUS
  <1>2. rank \in [P -> Nat] /\ bound \in Nat /\ \A p \in P : rank[p] <= bound
    <2>1. rank \in [P -> Nat] /\ bound \in Nat
      BY RankBounded
    <2>2. \A p \in P : Left(before, after, p) <= bound
      BY RankBounded
    <2> HIDE DEF rank
    <2>. QED  BY <1>15, <2>1, <2>2
  <1>3. \A f \in [P -> X], p \in P : cell(f, p) \in X
    BY WalkCellType
  <1>4. \A f, g : \A p \in P : (\A q \in P : rank[q] < rank[p] => f[q] = g[q]) => cell(f, p) = cell(g, p)
    <2> HIDE DEF rank
    <2>1. ASSUME NEW f, NEW g, NEW p \in P, \A q \in P : rank[q] < rank[p] => f[q] = g[q]
          PROVE  cell(f, p) = cell(g, p)
      <3>1. \A q \in P : Left(before, after, q) < Left(before, after, p) => f[q] = g[q]
        BY <1>15, <2>1
      <3>. QED  BY <3>1, WalkAgrees
    <2>. QED  BY <2>1
  <1>5. <<>> \in X
    OBVIOUS
  <1> HIDE DEF P, X, cell, rank, bound, T
  <1>6. G \in [[P -> X] \X P -> X]
    BY <1>3
  <1>7. \A f \in [P -> X], p \in P : G[<<f, p>>] = cell(f, p)
    OBVIOUS
  <1>8. DependsBelow(G, P, X, rank)
    <2> HIDE DEF G
    <2>1. ASSUME NEW f \in [P -> X], NEW g \in [P -> X], NEW p \in P,
                 \A q \in P : rank[q] < rank[p] => f[q] = g[q]
          PROVE  G[<<f, p>>] = G[<<g, p>>]
      <3>1. cell(f, p) = cell(g, p)
        BY <1>4, <2>1
      <3>. QED  BY <1>7, <3>1
    <2>. QED  BY <2>1 DEF DependsBelow
  <1>9. PICK f \in [P -> X] : \A p \in P : f[p] = G[<<f, p>>]
    <2> HIDE DEF G
    <2>1. rank \in [P -> 0..bound]
      BY <1>2
    <2>2. Solvable(G, P, X)
      BY <1>2, <1>5, <1>6, <1>8, <2>1, RankRecursion, Zenon
    <2>. QED  BY <2>2 DEF Solvable
  <1>10. f = [p \in P |-> cell(f, p)]
    BY <1>7, <1>9
  <1>11. T = [p \in P |-> cell(T, p)]
    BY <1>1, <1>10
  <1> DEFINE E == {p \in P : T[p] = f[p]}
  <1>12. ASSUME NEW p \in P, \A q \in P : rank[q] < rank[p] => q \in E
         PROVE  p \in E
    BY <1>4, <1>10, <1>11, <1>12
  <1>13. E = P
    <2> HIDE DEF E
    <2>1. E \subseteq P
      BY DEF E
    <2>. QED  BY <1>2, <1>12, <2>1, RankInduction
  <1>14. T \in [P -> X]
    BY <1>11, <1>13
  <1>16. \A p \in P : T[p] = cell(T, p)
    BY <1>11
  <1>. QED  BY <1>14, <1>16 DEF T, P, X, cell

-----------------------------------------------------------------------------
(***************************************************************************)
(* The lines of a diff that have some of the signs.                        *)
(***************************************************************************)

Chosen(D, signs) ==
  [lz \in Seq(D) \X SignedLines(D) |->
     IF lz[2][1] \in signs THEN Append(lz[1], lz[2][2]) ELSE lz[1]]

(* Choosing lines by their signs is a scan.                                  *)
LEMMA ChosenIs ==
  ASSUME NEW D, NEW signs, NEW start \in Seq(D), NEW diff \in Seq(SignedLines(D))
  PROVE  /\ IsScan(Seq(D), SignedLines(D), Chosen(D, signs), start, diff)
         /\ \A s \in Seq(D), z \in SignedLines(D) :
              Chosen(D, signs)[<<s, z>>] = IF z[1] \in signs THEN Append(s, z[2]) ELSE s
  <1>1. \A z \in SignedLines(D) : z[2] \in D
    BY DEF SignedLines
  <1>2. \A s \in Seq(D), d \in D : Append(s, d) \in Seq(D)
    BY AppendProperties
  <1> DEFINE X == Seq(D)
             Z == SignedLines(D)
             app(s, z) == IF z[1] \in signs THEN Append(s, z[2]) ELSE s
  <1>3. \A s \in X, z \in Z : app(s, z) \in X
    BY <1>1, <1>2
  <1>4. Chosen(D, signs) = [lz \in X \X Z |-> app(lz[1], lz[2])]
    BY DEF Chosen
  <1> HIDE DEF X, Z, app
  <1>5. \A s \in X, z \in Z : Chosen(D, signs)[<<s, z>>] = app(s, z)
    BY <1>4
  <1>6. Chosen(D, signs) \in [X \X Z -> X]
    BY <1>3, <1>4
  <1>. QED  BY <1>5, <1>6 DEF X, Z, app, IsScan

(* A step of that scan adds the line or leaves it.                           *)
LEMMA ChosenStep ==
  ASSUME NEW D, NEW signs, NEW s \in Seq(D), NEW z \in SignedLines(D)
  PROVE  Chosen(D, signs)[<<s, z>>] = IF z[1] \in signs THEN Append(s, z[2]) ELSE s
  BY DEF Chosen

(* LinesOf is that scan.                                                     *)
LEMMA LinesOfIs ==
  ASSUME NEW D, NEW signs, NEW diff \in Seq(SignedLines(D))
  PROVE  LinesOf(diff, signs) = ScanOf(Chosen(D, signs), <<>>, diff)
  <1> DEFINE app(s, z) == IF z[1] \in signs THEN Append(s, z[2]) ELSE s
             T == CHOOSE g : g = [k \in 0..Len(diff) |->
                                    IF k = 0 THEN <<>> ELSE app(g[k-1], diff[k])]
             G == Chosen(D, signs)
  <1>1. LinesOf(diff, signs) = T[Len(diff)]
    BY DEF LinesOf, Scan
  <1>2. Len(diff) \in Nat /\ \A k \in 1..Len(diff) : diff[k] \in SignedLines(D)
    BY LenProperties
  <1>3. <<>> \in Seq(D)
    OBVIOUS
  <1>4. IsScan(Seq(D), SignedLines(D), G, <<>>, diff)
    BY <1>3, ChosenIs
  <1>5. \A s \in Seq(D), z \in SignedLines(D) : G[<<s, z>>] = app(s, z)
    <2> HIDE DEF T
    <2> SUFFICES ASSUME NEW s \in Seq(D), NEW z \in SignedLines(D)
                 PROVE  Chosen(D, signs)[<<s, z>>] = IF z[1] \in signs THEN Append(s, z[2]) ELSE s
      OBVIOUS
    <2>. QED  BY ChosenStep
  <1> HIDE DEF app, T, G
  <1>6. PICK f : Follows(f, Seq(D), G, <<>>, diff)
    BY <1>4, ScanExists
  <1>7. f = [k \in 0..Len(diff) |-> IF k = 0 THEN <<>> ELSE app(f[k-1], diff[k])]
    <2>1. \A k \in 1..Len(diff) : f[k-1] \in Seq(D) /\ f[k] = app(f[k-1], diff[k])
      <3> SUFFICES ASSUME NEW k \in 1..Len(diff)
                   PROVE  f[k-1] \in Seq(D) /\ f[k] = app(f[k-1], diff[k])
        OBVIOUS
      <3>1. k - 1 \in 0..Len(diff)
        BY <1>2
      <3>2. f[k-1] \in Seq(D) /\ f[k] = G[<<f[k-1], diff[k]>>]
        BY <1>6, <3>1 DEF Follows
      <3>. QED  BY <1>2, <1>5, <3>2
    <2>2. f \in [0..Len(diff) -> Seq(D)] /\ f[0] = <<>>
      BY <1>6 DEF Follows
    <2>3. \A k \in 0..Len(diff) : f[k] = IF k = 0 THEN <<>> ELSE app(f[k-1], diff[k])
      BY <1>2, <2>1, <2>2
    <2>. QED  BY <2>2, <2>3
  <1>8. T = [k \in 0..Len(diff) |-> IF k = 0 THEN <<>> ELSE app(T[k-1], diff[k])]
    BY <1>7 DEF T
  <1>9. FollowsIn(T, Seq(D), G, <<>>, diff)
    <2>1. T[0] = <<>>
      BY <1>2, <1>8
    <2>2. ASSUME NEW k \in 1..Len(diff), T[k-1] \in Seq(D) PROVE T[k] = G[<<T[k-1], diff[k]>>]
      <3>1. T[k] = app(T[k-1], diff[k])
        BY <1>2, <1>8
      <3>. QED  BY <1>2, <1>5, <2>2, <3>1
    <2>. QED  BY <2>1, <2>2 DEF FollowsIn
  <1>. QED  BY <1>1, <1>4, <1>9, ScanLink DEF G

(* What was kept before stays in front. *)
LEMMA ChosenShift ==
  ASSUME NEW D, NEW signs, NEW start \in Seq(D), NEW diff \in Seq(SignedLines(D))
  PROVE  ScanOf(Chosen(D, signs), start, diff) = start \o ScanOf(Chosen(D, signs), <<>>, diff)
  <1> DEFINE G == Chosen(D, signs)
             Z == SignedLines(D)
             Q == {d \in Seq(Z) : ScanOf(G, start, d) = start \o ScanOf(G, <<>>, d)}
  <1>1. <<>> \in Seq(D) /\ <<>> \in Seq(Z)
    OBVIOUS
  <1>2. \A d \in Seq(Z) : IsScan(Seq(D), Z, G, start, d) /\ IsScan(Seq(D), Z, G, <<>>, d)
    BY <1>1, ChosenIs
  <1>3. \A s \in Seq(D), z \in Z : G[<<s, z>>] = IF z[1] \in signs THEN Append(s, z[2]) ELSE s
    <2> SUFFICES ASSUME NEW s \in Seq(D), NEW z \in Z
                 PROVE  G[<<s, z>>] = IF z[1] \in signs THEN Append(s, z[2]) ELSE s
      OBVIOUS
    <2>. QED  BY ChosenStep
  <1>4. \A z \in Z : z[2] \in D
    BY DEF SignedLines
  <1> HIDE DEF G, Z
  <1>5. \A d \in Seq(Z) : ScanOf(G, start, d) \in Seq(D) /\ ScanOf(G, <<>>, d) \in Seq(D)
    BY <1>2, ScanOfType
  <1>6. <<>> \in Q
    <2>1. IsScan(Seq(D), Z, G, start, <<>>) /\ IsScan(Seq(D), Z, G, <<>>, <<>>)
      BY <1>1, <1>2
    <2>2. ScanOf(G, start, <<>>) = start /\ ScanOf(G, <<>>, <<>>) = <<>>
      BY <2>1, ScanOfEmpty
    <2>3. start \o <<>> = start
      OBVIOUS
    <2>. QED  BY <1>1, <2>2, <2>3
  <1>7. ASSUME NEW d \in Q, NEW z \in Z PROVE d \o <<z>> \in Q
    <2>1. d \in Seq(Z) /\ d \o <<z>> \in Seq(Z) /\ ScanOf(G, start, d) = start \o ScanOf(G, <<>>, d)
      OBVIOUS
    <2> DEFINE a == ScanOf(G, <<>>, d)
    <2>2. ScanOf(G, start, d \o <<z>>) = G[<<start \o a, z>>]
      <3>1. IsScan(Seq(D), Z, G, start, d)
        BY <1>2, <2>1
      <3>2. ScanOf(G, start, d \o <<z>>) = G[<<ScanOf(G, start, d), z>>]
        BY <3>1, ScanOfAppend
      <3>. QED  BY <2>1, <3>2
    <2>3. ScanOf(G, <<>>, d \o <<z>>) = G[<<a, z>>]
      BY <1>2, <2>1, ScanOfAppend
    <2>4. a \in Seq(D) /\ start \o a \in Seq(D)
      BY <1>5, <2>1
    <2> HIDE DEF a
    <2>5. z[1] \in signs => G[<<start \o a, z>>] = start \o G[<<a, z>>]
      <3>1. G[<<start \o a, z>>] = IF z[1] \in signs THEN Append(start \o a, z[2]) ELSE start \o a
        BY <1>3, <2>4
      <3>2. G[<<a, z>>] = IF z[1] \in signs THEN Append(a, z[2]) ELSE a
        BY <1>3, <2>4
      <3>3. Append(start \o a, z[2]) = start \o Append(a, z[2])
        <4>1. z[2] \in D
          BY <1>4
        <4>2. Append(start \o a, z[2]) = (start \o a) \o <<z[2]>> /\ Append(a, z[2]) = a \o <<z[2]>>
          BY <2>4, <4>1, AppendIsConcat
        <4>3. (start \o a) \o <<z[2]>> = start \o (a \o <<z[2]>>)
          <5> HIDE DEF Q, Z
          <5>. QED  BY <2>4, <4>1
        <4>. QED  BY <4>2, <4>3
      <3>. QED  BY <3>1, <3>2, <3>3
    <2>6. z[1] \notin signs => G[<<start \o a, z>>] = start \o G[<<a, z>>]
      BY <1>3, <2>4
    <2>. QED  BY <2>1, <2>2, <2>3, <2>5, <2>6
  <1>8. Q = Seq(Z)
    <2> HIDE DEF Q
    <2>1. Q \subseteq Seq(Z)
      BY DEF Q
    <2>. QED  BY <1>6, <1>7, <2>1, SeqInduction
  <1>. QED  BY <1>8 DEF G, Z

(* The lines of a diff, and of the same with a line z before it.             *)
FirstLine(diff, signs, z) ==
  LinesOf(<<z>> \o diff, signs) =
    IF z[1] \in signs THEN <<z[2]>> \o LinesOf(diff, signs) ELSE LinesOf(diff, signs)

(* LinesOf by the first line of a diff and the rest.                         *)
LEMMA LinesOfFirst ==
  ASSUME NEW D, NEW signs, NEW diff \in Seq(SignedLines(D)), NEW z \in SignedLines(D)
  PROVE  /\ LinesOf(diff, signs) \in Seq(D)
         /\ LinesOf(<<>>, signs) = <<>>
         /\ FirstLine(diff, signs, z)
  <1> DEFINE G == Chosen(D, signs)
             Z == SignedLines(D)
             none == <<>>
  <1>1. none \in Seq(D) /\ none \in Seq(Z) /\ <<z>> \in Seq(Z) /\ none \o <<z>> = <<z>>
    OBVIOUS
  <1>2. \A d \in Seq(Z) : IsScan(Seq(D), Z, G, none, d)
    BY <1>1, ChosenIs
  <1>3. G[<<none, z>>] = IF z[1] \in signs THEN Append(none, z[2]) ELSE none
    <2> HIDE DEF none
    <2>. QED  BY <1>1, ChosenStep
  <1>4. \A d \in Seq(Z) : LinesOf(d, signs) = ScanOf(G, none, d)
    BY LinesOfIs
  <1>5. z[2] \in D
    BY DEF SignedLines
  <1>6. \A s \in Seq(D) : ScanOf(G, s, diff) = s \o ScanOf(G, none, diff)
    BY ChosenShift
  <1>10. diff \in Seq(Z) /\ <<z>> \o diff \in Seq(Z)
    OBVIOUS
  <1> HIDE DEF G, Z, none
  <1>7. ScanOf(G, none, diff) \in Seq(D) /\ ScanOf(G, none, none) = none
    <2>1. IsScan(Seq(D), Z, G, none, none)
      BY <1>1, <1>2
    <2>2. ScanOf(G, none, none) = none
      BY <2>1, ScanOfEmpty DEF none
    <2>. QED  BY <1>2, <1>10, <2>2, ScanOfType
  <1>8. ScanOf(G, none, <<z>>) = G[<<none, z>>]
    <2>1. IsScan(Seq(D), Z, G, none, none)
      BY <1>1, <1>2
    <2>2. z \in Z
      BY DEF Z
    <2>3. ScanOf(G, none, none \o <<z>>) = G[<<ScanOf(G, none, none), z>>]
      BY <2>1, <2>2, ScanOfAppend
    <2>. QED  BY <1>1, <1>7, <2>3
  <1>9. ScanOf(G, none, <<z>> \o diff) = ScanOf(G, G[<<none, z>>], diff)
    <2>1. IsScan(Seq(D), Z, G, none, <<z>>)
      BY <1>1, <1>2
    <2>2. ScanOf(G, none, <<z>> \o diff) = ScanOf(G, ScanOf(G, none, <<z>>), diff)
      BY <1>10, <2>1, ScanOfConcat
    <2>. QED  BY <1>8, <2>2
  <1>11. CASE z[1] \in signs
    <2>1. G[<<none, z>>] = <<z[2]>> /\ <<z[2]>> \in Seq(D)
      BY <1>3, <1>5, <1>11 DEF none
    <2>. QED  BY <1>1, <1>4, <1>6, <1>7, <1>9, <1>10, <1>11, <2>1 DEF none, FirstLine
  <1>12. CASE z[1] \notin signs
    <2>1. G[<<none, z>>] = none
      BY <1>3, <1>12
    <2>2. LinesOf(<<z>> \o diff, signs) = LinesOf(diff, signs)
      BY <1>4, <1>9, <1>10, <2>1
    <2>. QED  BY <1>1, <1>4, <1>7, <1>10, <1>12, <2>2 DEF none, FirstLine
  <1>. QED  BY <1>11, <1>12

-----------------------------------------------------------------------------
(***************************************************************************)
(* The walk is exact.                                                      *)
(***************************************************************************)

(* What the table says of the steps of the walk. *)
TableFollows(before, after, p) ==
  LET T == CommonTable(before, after) IN
  /\ p[1] > Len(before) \/ p[2] > Len(after) => T[p] = 0
  /\ Keeps(before, after, p[1], p[2]) => T[p] = 1 + T[<<p[1]+1, p[2]+1>>]
  /\ ~Keeps(before, after, p[1], p[2]) /\ Adds(before, after, p[1], p[2]) =>
       T[p] = T[<<p[1], p[2]+1>>]
  /\ ~Keeps(before, after, p[1], p[2]) /\ ~Adds(before, after, p[1], p[2])
       /\ p[1] <= Len(before) => T[p] = T[<<p[1]+1, p[2]>>]

(* The table at a place follows from the places after it.                    *)
LEMMA TableStep ==
  ASSUME NEW D, NEW before \in Seq(D), NEW after \in Seq(D), NEW p \in Places(before, after)
  PROVE  TableFollows(before, after, p)
  <1> DEFINE n == Len(before)
             m == Len(after)
             P == Places(before, after)
             T == CommonTable(before, after)
  <1>1. /\ p[1] \in Nat /\ p[2] \in Nat /\ n \in Nat /\ m \in Nat
    BY PlacesAre
  <1>2. T \in [P -> Nat] /\ \A q \in P : T[q] = Cell(T, before, after, q)
    BY CommonTableDef
  <1> HIDE DEF T
  <1>3. \A q \in P : q[1] > n \/ q[2] > m => T[q] = 0
    <2>1. ASSUME NEW q \in P, q[1] > n \/ q[2] > m PROVE T[q] = 0
      <3>1. T[q] = Cell(T, before, after, q)
        BY <1>2
      <3>. QED  BY <2>1, <3>1 DEF Cell
    <2>. QED  BY <2>1
  <1>4. /\ p[1] <= n => <<p[1]+1, p[2]>> \in P
        /\ p[2] <= m => <<p[1], p[2]+1>> \in P
        /\ p[1] <= n /\ p[2] <= m => <<p[1]+1, p[2]+1>> \in P
    BY NextPlaces
  <1>5. T[p] = Cell(T, before, after, p)
    BY <1>2
  <1>6. Keeps(before, after, p[1], p[2]) => T[p] = 1 + T[<<p[1]+1, p[2]+1>>]
    BY <1>1, <1>5 DEF Keeps, Cell
  <1>7. ASSUME ~Keeps(before, after, p[1], p[2]), Adds(before, after, p[1], p[2])
        PROVE  T[p] = T[<<p[1], p[2]+1>>]
    <2>1. p[2] <= m
      BY <1>7 DEF Adds
    <2>2. CASE p[1] > n
      <3> DEFINE q == <<p[1], p[2]+1>>
      <3>1. q \in P /\ q[1] > n
        BY <1>4, <2>1, <2>2
      <3>2. T[q] = 0 /\ T[p] = 0
        BY <1>3, <2>2, <3>1
      <3>. QED  BY <3>2
    <2>3. CASE p[1] <= n
      <3>1. before[p[1]] # after[p[2]]
        BY <1>7, <2>1, <2>3 DEF Keeps
      <3>2. T[<<p[1], p[2]+1>>] >= T[<<p[1]+1, p[2]>>]
        BY <1>1, <1>7, <2>3 DEF Adds, T
      <3>3. T[<<p[1], p[2]+1>>] \in Nat /\ T[<<p[1]+1, p[2]>>] \in Nat
        BY <1>2, <1>4, <2>1, <2>3
      <3>4. T[p] = Larger(T[<<p[1]+1, p[2]>>], T[<<p[1], p[2]+1>>])
        BY <1>1, <1>5, <2>1, <2>3, <3>1 DEF Cell
      <3>. QED  BY <3>2, <3>3, <3>4 DEF Larger
    <2>. QED  BY <1>1, <2>2, <2>3
  <1>8. ASSUME ~Keeps(before, after, p[1], p[2]), ~Adds(before, after, p[1], p[2]), p[1] <= n
        PROVE  T[p] = T[<<p[1]+1, p[2]>>]
    <2>1. CASE p[2] > m
      <3> DEFINE q == <<p[1]+1, p[2]>>
      <3>1. q \in P /\ q[2] > m
        BY <1>4, <1>8, <2>1
      <3>2. T[q] = 0 /\ T[p] = 0
        BY <1>3, <2>1, <3>1
      <3>. QED  BY <3>2
    <2>2. CASE p[2] <= m
      <3>1. before[p[1]] # after[p[2]]
        BY <1>8, <2>2 DEF Keeps
      <3>3. T[<<p[1], p[2]+1>>] \in Nat /\ T[<<p[1]+1, p[2]>>] \in Nat
        BY <1>2, <1>4, <1>8, <2>2
      <3>2. ~(T[<<p[1], p[2]+1>>] >= T[<<p[1]+1, p[2]>>])
        BY <1>1, <1>8, <2>2 DEF Adds, T
      <3>4. T[p] = Larger(T[<<p[1]+1, p[2]>>], T[<<p[1], p[2]+1>>])
        BY <1>1, <1>5, <1>8, <2>2, <3>1 DEF Cell
      <3>. QED  BY <3>2, <3>3, <3>4 DEF Larger
    <2>. QED  BY <1>1, <2>1, <2>2
  <1>. QED  BY <1>3, <1>6, <1>7, <1>8 DEF T, TableFollows

(* The cases of the walk, at a place of it. *)
WalkFollows(before, after, p) ==
  Walks(Walk(before, after)[p], Walk(before, after), before, after, p)

(* The walk at a place follows from the places after it.                     *)
LEMMA WalkAt ==
  ASSUME NEW D, NEW before \in Seq(D), NEW after \in Seq(D), NEW p \in Places(before, after)
  PROVE  WalkFollows(before, after, p)
  <1> DEFINE w == Walk(before, after)
  <1>1. w[p] = WalkCell(w, before, after, p)
    BY WalkDef
  <1> HIDE DEF w
  <1>2. Walks(w[p], w, before, after, p)
    BY <1>1, WalkCases
  <1>. QED  BY <1>2 DEF WalkFollows, w

(* What is left of a text from a line on. *)
Rest(text, k) == SubSeq(text, k, Len(text))

(* What is left of a text is its next line and what is left after it.        *)
LEMMA RestIs ==
  ASSUME NEW D, NEW text \in Seq(D), NEW k \in 1..Len(text)+1
  PROVE  /\ k = Len(text) + 1 => Rest(text, k) = <<>>
         /\ k <= Len(text) => Rest(text, k) = <<text[k]>> \o Rest(text, k+1)
  <1>1. Len(text) \in Nat /\ k \in Int
    BY LenProperties
  <1>2. k = Len(text) + 1 => Rest(text, k) = <<>>
    BY <1>1, SubSeqEmpty DEF Rest
  <1>3. ASSUME k <= Len(text) PROVE Rest(text, k) = <<text[k]>> \o Rest(text, k+1)
    <2>1. k \in 1..Len(text) /\ Len(text) \in k..Len(text)
      BY <1>1, <1>3
    <2>. QED  BY <2>1, SubSeqRecursiveFirst DEF Rest
  <1>. QED  BY <1>2, <1>3

(* The walk from a place prints the rest of each text, and keeps as many     *)
(* lines as the table says.                                                  *)
ExactFrom(before, after, p) ==
  LET diff == Walk(before, after)[p]
  IN  /\ LinesOf(diff, {" ", "-"}) = Rest(before, p[1])
      /\ LinesOf(diff, {" ", "+"}) = Rest(after, p[2])
      /\ Len(LinesOf(diff, {" "})) = CommonTable(before, after)[p]

(* The three readings of a diff with one more line before it. *)
ReadFirst(diff, d) ==
  /\ LinesOf(<<<<" ", d>>>> \o diff, {" ", "-"}) = <<d>> \o LinesOf(diff, {" ", "-"})
  /\ LinesOf(<<<<" ", d>>>> \o diff, {" ", "+"}) = <<d>> \o LinesOf(diff, {" ", "+"})
  /\ Len(LinesOf(<<<<" ", d>>>> \o diff, {" "})) = 1 + Len(LinesOf(diff, {" "}))
  /\ LinesOf(<<<<"+", d>>>> \o diff, {" ", "-"}) = LinesOf(diff, {" ", "-"})
  /\ LinesOf(<<<<"+", d>>>> \o diff, {" ", "+"}) = <<d>> \o LinesOf(diff, {" ", "+"})
  /\ LinesOf(<<<<"+", d>>>> \o diff, {" "}) = LinesOf(diff, {" "})
  /\ LinesOf(<<<<"-", d>>>> \o diff, {" ", "-"}) = <<d>> \o LinesOf(diff, {" ", "-"})
  /\ LinesOf(<<<<"-", d>>>> \o diff, {" ", "+"}) = LinesOf(diff, {" ", "+"})
  /\ LinesOf(<<<<"-", d>>>> \o diff, {" "}) = LinesOf(diff, {" "})

(* They follow from those of the diff. *)
LEMMA ReadingsFirst ==
  ASSUME NEW D, NEW diff \in Seq(SignedLines(D)), NEW d \in D
  PROVE  ReadFirst(diff, d)
  <1> DEFINE keep == <<" ", d>>
             add == <<"+", d>>
             remove == <<"-", d>>
             L(z, signs) == LinesOf(<<z>> \o diff, signs)
  <1>1. keep \in SignedLines(D) /\ add \in SignedLines(D) /\ remove \in SignedLines(D)
    BY SignedLinesAre
  <1>2. /\ keep[1] = " " /\ keep[2] = d
        /\ add[1] = "+" /\ add[2] = d
        /\ remove[1] = "-" /\ remove[2] = d
    OBVIOUS
  <1> HIDE DEF keep, add, remove
  <1>3. \A z \in SignedLines(D) : \A signs :
          L(z, signs) = IF z[1] \in signs THEN <<z[2]>> \o LinesOf(diff, signs) ELSE LinesOf(diff, signs)
    <2>1. \A z \in SignedLines(D) : \A signs : FirstLine(diff, signs, z)
      BY LinesOfFirst
    <2>. QED  BY <2>1 DEF FirstLine
  <1>4. LinesOf(diff, {" "}) \in Seq(D)
    <2>. QED  BY <1>1, LinesOfFirst
  <1> HIDE DEF L
  <1>5. L(keep, {" ", "-"}) = <<d>> \o LinesOf(diff, {" ", "-"})
    BY <1>1, <1>2, <1>3
  <1>6. L(keep, {" ", "+"}) = <<d>> \o LinesOf(diff, {" ", "+"})
    BY <1>1, <1>2, <1>3
  <1>7. L(keep, {" "}) = <<d>> \o LinesOf(diff, {" "})
    BY <1>1, <1>2, <1>3
  <1>8. L(add, {" ", "-"}) = LinesOf(diff, {" ", "-"})
    BY <1>1, <1>2, <1>3
  <1>9. L(add, {" ", "+"}) = <<d>> \o LinesOf(diff, {" ", "+"})
    BY <1>1, <1>2, <1>3
  <1>10. L(add, {" "}) = LinesOf(diff, {" "})
    BY <1>1, <1>2, <1>3
  <1>11. L(remove, {" ", "-"}) = <<d>> \o LinesOf(diff, {" ", "-"})
    BY <1>1, <1>2, <1>3
  <1>12. L(remove, {" ", "+"}) = LinesOf(diff, {" ", "+"})
    BY <1>1, <1>2, <1>3
  <1>13. L(remove, {" "}) = LinesOf(diff, {" "})
    BY <1>1, <1>2, <1>3
  <1>14. Len(L(keep, {" "})) = 1 + Len(LinesOf(diff, {" "}))
    <2> DEFINE kept == LinesOf(diff, {" "})
    <2>1. kept \in Seq(D)
      BY <1>4
    <2> HIDE DEF kept
    <2>2. Len(<<d>> \o kept) = 1 + Len(kept)
      BY <2>1
    <2>. QED  BY <1>7, <2>2 DEF kept
  <1>. QED  BY <1>5, <1>6, <1>8, <1>9, <1>10, <1>11, <1>12, <1>13, <1>14 DEF ReadFirst, L, keep, add, remove

(* The walk from any place is exact: read with one sign or the other, it is  *)
(* what is left of either text, and it keeps as many lines as the table      *)
(* says.                                                                     *)
LEMMA WalkExact ==
  ASSUME NEW D, NEW before \in Seq(D), NEW after \in Seq(D)
  PROVE  \A p \in Places(before, after) : ExactFrom(before, after, p)
  <1> DEFINE P == Places(before, after)
             W == Walk(before, after)
             T == CommonTable(before, after)
             rank == [p \in P |-> Left(before, after, p)]
             S == {p \in P : ExactFrom(before, after, p)}
  <1>1. rank \in [P -> Nat] /\ \A p \in P : rank[p] = Left(before, after, p)
    BY RankBounded
  <1>2. W \in [P -> Seq(SignedLines(D))] /\ \A p \in P : W[p] = WalkCell(W, before, after, p)
    BY WalkDef
  <1>5. \A p \in P : TableFollows(before, after, p)
    BY TableStep
  <1>6. \A p \in P : WalkFollows(before, after, p)
    BY WalkAt
  <1>3. ASSUME NEW p \in P, \A q \in P : rank[q] < rank[p] => q \in S
        PROVE  p \in S
    <2> DEFINE n == Len(before)
               m == Len(after)
    <2>1. p[1] \in 1..n+1 /\ p[2] \in 1..m+1 /\ n \in Nat /\ m \in Nat
      <3>1. n \in Nat /\ m \in Nat
        BY LenProperties
      <3>. QED  BY <3>1 DEF Places
    <2>2. \A q \in P : Left(before, after, q) < Left(before, after, p) => ExactFrom(before, after, q)
      <3> HIDE DEF P, rank
      <3>. QED  BY <1>1, <1>3
    <2>4. CASE p[1] = n + 1 /\ p[2] = m + 1 /\ W[p] = <<>>
      <3>1. <<>> \in Seq(SignedLines(D))
        OBVIOUS
      <3>2. \A signs : LinesOf(<<>>, signs) = <<>>
        <4>1. SUFFICES ASSUME NEW signs PROVE LinesOf(<<>>, signs) = <<>>
          OBVIOUS
        <4>2. IsScan(Seq(D), SignedLines(D), Chosen(D, signs), <<>>, <<>>)
          <5>1. <<>> \in Seq(D)
            OBVIOUS
          <5>. QED  BY <3>1, <5>1, ChosenIs
        <4>3. ScanOf(Chosen(D, signs), <<>>, <<>>) = <<>>
          BY <4>2, ScanOfEmpty
        <4>. QED  BY <3>1, <4>3, LinesOfIs
      <3>3. Rest(before, p[1]) = <<>> /\ Rest(after, p[2]) = <<>>
        BY <2>1, <2>4, RestIs
      <3>4. T[p] = 0
        <4>1. p[1] > Len(before)
          BY <2>1, <2>4
        <4>. QED  BY <1>5, <4>1 DEF TableFollows
      <3>5. ExactFrom(before, after, p)
        <4>1. Len(<<>>) = 0
          OBVIOUS
        <4> HIDE DEF W, T, P
        <4>2. \A signs : LinesOf(W[p], signs) = <<>>
          BY <2>4, <3>2
        <4>. QED  BY <3>3, <3>4, <4>1, <4>2 DEF ExactFrom, W, T
      <3>. QED  BY <3>5
    <2>5. CASE /\ p[1] <= n /\ p[2] <= m /\ before[p[1]] = after[p[2]]
               /\ W[p] = <<<<" ", before[p[1]]>>>> \o W[<<p[1]+1, p[2]+1>>]
      <3> DEFINE q == <<p[1]+1, p[2]+1>>
                 d == before[p[1]]
      <3>1. q \in P /\ d \in D /\ Left(before, after, q) < Left(before, after, p)
        BY <2>5, NextPlaces
      <3>2. ExactFrom(before, after, q) /\ W[q] \in Seq(SignedLines(D))
        BY <1>2, <2>2, <3>1
      <3>3. Rest(before, p[1]) = <<d>> \o Rest(before, q[1]) /\ Rest(after, p[2]) = <<d>> \o Rest(after, q[2])
        BY <2>1, <2>5, RestIs
      <3>4. T[p] = 1 + T[q]
        <4>1. Keeps(before, after, p[1], p[2])
          BY <2>5 DEF Keeps
        <4>. QED  BY <1>5, <4>1 DEF TableFollows
      <3>5. W[p] = <<<<" ", d>>>> \o W[q]
        BY <2>5
      <3> HIDE DEF q, d, P, W, T, n, m
      <3>6. ExactFrom(before, after, p)
        <4> DEFINE w == W[q]
        <4> HIDE DEF w
        <4>1. /\ LinesOf(<<<<" ", d>>>> \o w, {" ", "-"}) = <<d>> \o LinesOf(w, {" ", "-"})
              /\ LinesOf(<<<<" ", d>>>> \o w, {" ", "+"}) = <<d>> \o LinesOf(w, {" ", "+"})
              /\ Len(LinesOf(<<<<" ", d>>>> \o w, {" "})) = 1 + Len(LinesOf(w, {" "}))
          <5>1. w \in Seq(SignedLines(D))
            BY <3>2 DEF w
          <5>2. ReadFirst(w, d)
            BY <3>1, <5>1, ReadingsFirst
          <5>. QED  BY <5>2 DEF ReadFirst
        <4>. QED  BY <3>2, <3>3, <3>4, <3>5, <4>1 DEF ExactFrom, w, W, T
      <3>. QED  BY <3>6
    <2>6. CASE /\ p[2] <= m /\ ~Keeps(before, after, p[1], p[2])
               /\ Adds(before, after, p[1], p[2])
               /\ W[p] = <<<<"+", after[p[2]]>>>> \o W[<<p[1], p[2]+1>>]
      <3> DEFINE q == <<p[1], p[2]+1>>
                 d == after[p[2]]
      <3>1. q \in P /\ d \in D /\ Left(before, after, q) < Left(before, after, p)
        BY <2>6, NextPlaces
      <3>2. ExactFrom(before, after, q) /\ W[q] \in Seq(SignedLines(D))
        BY <1>2, <2>2, <3>1
      <3>3. Rest(before, p[1]) = Rest(before, q[1]) /\ Rest(after, p[2]) = <<d>> \o Rest(after, q[2])
        BY <2>1, <2>6, RestIs
      <3>4. T[p] = T[q]
        BY <1>5, <2>6 DEF TableFollows
      <3>5. W[p] = <<<<"+", d>>>> \o W[q]
        BY <2>6
      <3> HIDE DEF q, d, P, W, T, n, m
      <3>6. ExactFrom(before, after, p)
        <4> DEFINE w == W[q]
        <4> HIDE DEF w
        <4>1. /\ LinesOf(<<<<"+", d>>>> \o w, {" ", "-"}) = LinesOf(w, {" ", "-"})
              /\ LinesOf(<<<<"+", d>>>> \o w, {" ", "+"}) = <<d>> \o LinesOf(w, {" ", "+"})
              /\ LinesOf(<<<<"+", d>>>> \o w, {" "}) = LinesOf(w, {" "})
          <5>1. w \in Seq(SignedLines(D))
            BY <3>2 DEF w
          <5>2. ReadFirst(w, d)
            BY <3>1, <5>1, ReadingsFirst
          <5>. QED  BY <5>2 DEF ReadFirst
        <4>. QED  BY <3>2, <3>3, <3>4, <3>5, <4>1 DEF ExactFrom, w, W, T
      <3>. QED  BY <3>6
    <2>7. CASE /\ p[1] <= n /\ ~Keeps(before, after, p[1], p[2])
               /\ ~Adds(before, after, p[1], p[2])
               /\ W[p] = <<<<"-", before[p[1]]>>>> \o W[<<p[1]+1, p[2]>>]
      <3> DEFINE q == <<p[1]+1, p[2]>>
                 d == before[p[1]]
      <3>1. q \in P /\ d \in D /\ Left(before, after, q) < Left(before, after, p)
        BY <2>7, NextPlaces
      <3>2. ExactFrom(before, after, q) /\ W[q] \in Seq(SignedLines(D))
        BY <1>2, <2>2, <3>1
      <3>3. Rest(before, p[1]) = <<d>> \o Rest(before, q[1]) /\ Rest(after, p[2]) = Rest(after, q[2])
        BY <2>1, <2>7, RestIs
      <3>4. T[p] = T[q]
        BY <1>5, <2>7 DEF TableFollows
      <3>5. W[p] = <<<<"-", d>>>> \o W[q]
        BY <2>7
      <3> HIDE DEF q, d, P, W, T, n, m
      <3>6. ExactFrom(before, after, p)
        <4> DEFINE w == W[q]
        <4> HIDE DEF w
        <4>1. /\ LinesOf(<<<<"-", d>>>> \o w, {" ", "-"}) = <<d>> \o LinesOf(w, {" ", "-"})
              /\ LinesOf(<<<<"-", d>>>> \o w, {" ", "+"}) = LinesOf(w, {" ", "+"})
              /\ LinesOf(<<<<"-", d>>>> \o w, {" "}) = LinesOf(w, {" "})
          <5>1. w \in Seq(SignedLines(D))
            BY <3>2 DEF w
          <5>2. ReadFirst(w, d)
            BY <3>1, <5>1, ReadingsFirst
          <5>. QED  BY <5>2 DEF ReadFirst
        <4>. QED  BY <3>2, <3>3, <3>4, <3>5, <4>1 DEF ExactFrom, w, W, T
      <3>. QED  BY <3>6
    <2>8. \/ p[1] = n + 1 /\ p[2] = m + 1 /\ W[p] = <<>>
          \/ /\ p[1] <= n /\ p[2] <= m /\ before[p[1]] = after[p[2]]
             /\ W[p] = <<<<" ", before[p[1]]>>>> \o W[<<p[1]+1, p[2]+1>>]
          \/ /\ p[2] <= m /\ ~Keeps(before, after, p[1], p[2])
             /\ Adds(before, after, p[1], p[2])
             /\ W[p] = <<<<"+", after[p[2]]>>>> \o W[<<p[1], p[2]+1>>]
          \/ /\ p[1] <= n /\ ~Keeps(before, after, p[1], p[2])
             /\ ~Adds(before, after, p[1], p[2])
             /\ W[p] = <<<<"-", before[p[1]]>>>> \o W[<<p[1]+1, p[2]>>]
      BY <1>6, Zenon DEF WalkFollows, Walks
    <2> HIDE DEF W, S, n, m
    <2>. QED  BY <2>4, <2>5, <2>6, <2>7, <2>8
  <1>4. S = P
    <2> HIDE DEF S, P, rank
    <2>1. S \subseteq P
      BY DEF S
    <2>. QED  BY <1>1, <1>3, <2>1, RankInduction
  <1>. QED  BY <1>4

-----------------------------------------------------------------------------
(***************************************************************************)
(* No diff keeps more lines.                                               *)
(***************************************************************************)

(* f and g place L common lines of what is left of the texts, in order. *)
Embeds(before, after, p, L, f, g) ==
  /\ f \in [1..L -> p[1]..Len(before)]
  /\ g \in [1..L -> p[2]..Len(after)]
  /\ \A i, k \in 1..L : i < k => f[i] < f[k] /\ g[i] < g[k]
  /\ \A i \in 1..L : before[f[i]] = after[g[i]]

(* No common subsequence of what is left is longer than the table says. *)
LongestFrom(before, after, p) ==
  \A L \in Nat : \A f, g : Embeds(before, after, p, L, f, g) => L <= CommonTable(before, after)[p]

(* What is left of it after a step from the place. *)
EmbedsRest(before, after, p, L, f, g) ==
  /\ p[1] <= Len(before) /\ p[2] <= Len(after)
  /\ Embeds(before, after, <<p[1]+1, p[2]+1>>, L - 1,
            [i \in 1..L-1 |-> f[i+1]], [i \in 1..L-1 |-> g[i+1]])
  /\ f[1] # p[1] => Embeds(before, after, <<p[1]+1, p[2]>>, L, f, g)
  /\ g[1] # p[2] => Embeds(before, after, <<p[1], p[2]+1>>, L, f, g)
  /\ f[1] = p[1] /\ g[1] = p[2] => before[p[1]] = after[p[2]]

(* What remains of a common subsequence after its first line, or without one *)
(* text's next line.                                                         *)
LEMMA EmbedsLater ==
  ASSUME NEW D, NEW before \in Seq(D), NEW after \in Seq(D), NEW p \in Places(before, after),
         NEW L \in Nat, L > 0, NEW f, NEW g, Embeds(before, after, p, L, f, g)
  PROVE  EmbedsRest(before, after, p, L, f, g)
  <1> DEFINE n == Len(before)
             m == Len(after)
             f1 == [i \in 1..L-1 |-> f[i+1]]
             g1 == [i \in 1..L-1 |-> g[i+1]]
  <1>1. /\ p[1] \in Nat /\ p[2] \in Nat /\ n \in Nat /\ m \in Nat
    BY PlacesAre
  <1>2. 1 \in 1..L
    OBVIOUS
  <1>3. \A i \in 1..L : f[i] \in p[1]..n /\ g[i] \in p[2]..m
    BY DEF Embeds
  <1>4. f[1] \in Int /\ g[1] \in Int /\ f[1] >= p[1] /\ g[1] >= p[2] /\ f[1] <= n /\ g[1] <= m
    BY <1>1, <1>2, <1>3
  <1>5. p[1] <= n /\ p[2] <= m
    BY <1>1, <1>4
  <1>6. \A i \in 1..L : i # 1 => f[i] > f[1] /\ g[i] > g[1]
    BY <1>2 DEF Embeds
  <1>7. ASSUME NEW i \in 1..L-1 PROVE i + 1 \in 1..L /\ f1[i] = f[i+1] /\ g1[i] = g[i+1] /\ i+1 # 1
    OBVIOUS
  <1>8. Embeds(before, after, <<p[1]+1, p[2]+1>>, L - 1, f1, g1)
    <2>1. \A i \in 1..L-1 : f[i+1] \in p[1]+1..n /\ g[i+1] \in p[2]+1..m
      <3> SUFFICES ASSUME NEW i \in 1..L-1 PROVE f[i+1] \in p[1]+1..n /\ g[i+1] \in p[2]+1..m
        OBVIOUS
      <3>1. f[i+1] \in p[1]..n /\ g[i+1] \in p[2]..m /\ f[i+1] > f[1] /\ g[i+1] > g[1]
        BY <1>3, <1>6, <1>7
      <3> DEFINE x == f[i+1]
                 y == g[i+1]
                 u == f[1]
                 v == g[1]
                 i0 == p[1]
                 k0 == p[2]
      <3>3. /\ x \in i0..n /\ y \in k0..m /\ x > u /\ y > v
            /\ u \in Int /\ v \in Int /\ u >= i0 /\ v >= k0
            /\ i0 \in Nat /\ k0 \in Nat /\ n \in Nat /\ m \in Nat
        BY <1>1, <1>4, <3>1
      <3> HIDE DEF x, y, n, m, u, v, i0, k0
      <3>4. x \in i0+1..n /\ y \in k0+1..m
        BY <3>3
      <3>2. x \in p[1]+1..n /\ y \in p[2]+1..m
        BY <3>4 DEF i0, k0
      <3>. QED  BY <3>2 DEF x, y, n, m
    <2>2. f1 \in [1..L-1 -> p[1]+1..n] /\ g1 \in [1..L-1 -> p[2]+1..m]
      BY <2>1
    <2>3. \A i, k \in 1..L-1 : i < k => f[i+1] < f[k+1] /\ g[i+1] < g[k+1]
      <3> SUFFICES ASSUME NEW i \in 1..L-1, NEW k \in 1..L-1, i < k
                   PROVE  f[i+1] < f[k+1] /\ g[i+1] < g[k+1]
        OBVIOUS
      <3>1. i + 1 \in 1..L /\ k + 1 \in 1..L /\ i + 1 < k + 1
        OBVIOUS
      <3>. QED  BY <3>1 DEF Embeds
    <2>4. \A i \in 1..L-1 : before[f[i+1]] = after[g[i+1]]
      BY <1>7 DEF Embeds
    <2> HIDE DEF f1, g1, n, m
    <2>5. \A i, k \in 1..L-1 : i < k => f1[i] < f1[k] /\ g1[i] < g1[k]
      BY <1>7, <2>3
    <2>6. \A i \in 1..L-1 : before[f1[i]] = after[g1[i]]
      BY <1>7, <2>4
    <2>. QED  BY <2>2, <2>5, <2>6 DEF Embeds, n, m
  <1>9. ASSUME f[1] # p[1] PROVE Embeds(before, after, <<p[1]+1, p[2]>>, L, f, g)
    <2>1. \A i \in 1..L : f[i] \in p[1]+1..n
      BY <1>1, <1>3, <1>4, <1>6, <1>9
    <2>2. f \in [1..L -> p[1]+1..n]
      BY <2>1 DEF Embeds
    <2>. QED  BY <2>2 DEF Embeds
  <1>10. ASSUME g[1] # p[2] PROVE Embeds(before, after, <<p[1], p[2]+1>>, L, f, g)
    <2>1. \A i \in 1..L : g[i] \in p[2]+1..m
      BY <1>1, <1>3, <1>4, <1>6, <1>10
    <2>2. g \in [1..L -> p[2]+1..m]
      BY <2>1 DEF Embeds
    <2>. QED  BY <2>2 DEF Embeds
  <1>11. before[f[1]] = after[g[1]]
    BY <1>2 DEF Embeds
  <1>. QED  BY <1>5, <1>8, <1>9, <1>10, <1>11 DEF EmbedsRest

(* No common subsequence of what is left is longer than the table says.      *)
LEMMA TableLongest ==
  ASSUME NEW D, NEW before \in Seq(D), NEW after \in Seq(D)
  PROVE  \A p \in Places(before, after) : LongestFrom(before, after, p)
  <1> DEFINE P == Places(before, after)
             T == CommonTable(before, after)
             rank == [p \in P |-> Left(before, after, p)]
             S == {p \in P : LongestFrom(before, after, p)}
  <1>1. rank \in [P -> Nat] /\ \A p \in P : rank[p] = Left(before, after, p)
    BY RankBounded
  <1>2. T \in [P -> Nat] /\ \A p \in P : T[p] = Cell(T, before, after, p)
    BY CommonTableDef
  <1>3. ASSUME NEW p \in P, \A q \in P : rank[q] < rank[p] => q \in S
        PROVE  p \in S
    <2>1. \A q \in P : Left(before, after, q) < Left(before, after, p) => LongestFrom(before, after, q)
      <3> HIDE DEF P, rank
      <3>. QED  BY <1>1, <1>3
    <2>2. ASSUME NEW L \in Nat, NEW f, NEW g, Embeds(before, after, p, L, f, g)
          PROVE  L <= T[p]
      <3>1. T[p] \in Nat
        BY <1>2
      <3>2. CASE L = 0
        BY <3>1, <3>2
      <3>3. CASE L > 0
        <4> DEFINE a == <<p[1]+1, p[2]>>
                   b == <<p[1], p[2]+1>>
                   c == <<p[1]+1, p[2]+1>>
        <4>8. EmbedsRest(before, after, p, L, f, g)
          BY <2>2, <3>3, EmbedsLater
        <4>1. p[1] <= Len(before) /\ p[2] <= Len(after)
          BY <4>8 DEF EmbedsRest
        <4>2. a \in P /\ b \in P /\ c \in P
          BY <4>1, NextPlaces
        <4>3. LongestFrom(before, after, a) /\ LongestFrom(before, after, b) /\ LongestFrom(before, after, c)
          BY <2>1, <4>1, <4>2, NextPlaces
        <4>4. T[a] \in Nat /\ T[b] \in Nat /\ T[c] \in Nat
          BY <1>2, <4>2
        <4>5. T[p] = IF before[p[1]] = after[p[2]] THEN 1 + T[c] ELSE Larger(T[a], T[b])
          <5>1. p[1] \in Nat /\ p[2] \in Nat /\ Len(before) \in Nat /\ Len(after) \in Nat
            BY PlacesAre
          <5>2. T[p] = Cell(T, before, after, p)
            BY <1>2
          <5>. QED  BY <4>1, <5>1, <5>2 DEF Cell
        <4>6. CASE before[p[1]] = after[p[2]]
          <5>1. PICK f1, g1 : Embeds(before, after, c, L - 1, f1, g1)
            BY <4>8 DEF EmbedsRest
          <5>2. L - 1 \in Nat
            BY <3>3
          <5>3. L - 1 <= T[c]
            BY <4>3, <5>1, <5>2 DEF LongestFrom
          <5>. QED  BY <4>4, <4>5, <4>6, <5>3
        <4>7. CASE before[p[1]] # after[p[2]]
          <5>1. f[1] # p[1] \/ g[1] # p[2]
            BY <4>7, <4>8 DEF EmbedsRest
          <5>2. f[1] # p[1] => L <= T[a]
            BY <4>3, <4>8 DEF LongestFrom, EmbedsRest
          <5>3. g[1] # p[2] => L <= T[b]
            BY <4>3, <4>8 DEF LongestFrom, EmbedsRest
          <5>. QED  BY <4>4, <4>5, <4>7, <5>1, <5>2, <5>3 DEF Larger
        <4>. QED  BY <4>6, <4>7
      <3>. QED  BY <3>2, <3>3
    <2>. QED  BY <2>2 DEF LongestFrom
  <1>4. S = P
    <2> HIDE DEF S, P, rank
    <2>1. S \subseteq P
      BY DEF S
    <2>. QED  BY <1>1, <1>3, <2>1, RankInduction
  <1>. QED  BY <1>4

(* The diff of two texts, from their first lines. *)
LEMMA DiffExact ==
  ASSUME NEW D, NEW before \in Seq(D), NEW after \in Seq(D)
  PROVE  LET diff == Diff(before, after) IN
         /\ LinesOf(diff, {" ", "-"}) = before
         /\ LinesOf(diff, {" ", "+"}) = after
         /\ \A s \in Seq(D) :
              Len(s) > Len(LinesOf(diff, {" "})) =>
                ~(IsSubsequence(s, before) /\ IsSubsequence(s, after))
  <1> DEFINE p == <<1, 1>>
  <1>1. Len(before) \in Nat /\ Len(after) \in Nat
    BY LenProperties
  <1>2. p \in Places(before, after)
    BY <1>1 DEF Places
  <1>3. ExactFrom(before, after, p) /\ LongestFrom(before, after, p)
    BY <1>2, WalkExact, TableLongest
  <1>4. Rest(before, 1) = before /\ Rest(after, 1) = after
    BY SubSeqFull DEF Rest
  <1>5. ASSUME NEW s \in Seq(D), IsSubsequence(s, before), IsSubsequence(s, after)
        PROVE  Len(s) <= CommonTable(before, after)[p]
    <2>1. PICK f \in [1..Len(s) -> 1..Len(before)] :
            /\ \A i, k \in 1..Len(s) : i < k => f[i] < f[k]
            /\ \A i \in 1..Len(s) : before[f[i]] = s[i]
      BY <1>5 DEF IsSubsequence
    <2>2. PICK g \in [1..Len(s) -> 1..Len(after)] :
            /\ \A i, k \in 1..Len(s) : i < k => g[i] < g[k]
            /\ \A i \in 1..Len(s) : after[g[i]] = s[i]
      BY <1>5 DEF IsSubsequence
    <2>3. Embeds(before, after, p, Len(s), f, g)
      BY <2>1, <2>2 DEF Embeds
    <2>4. Len(s) \in Nat
      BY LenProperties
    <2>. QED  BY <1>3, <2>3, <2>4 DEF LongestFrom
  <1>6. CommonTable(before, after)[p] \in Nat
    BY <1>2, CommonTableDef
  <1>7. \A s \in Seq(D) : Len(s) > CommonTable(before, after)[p] =>
          ~(IsSubsequence(s, before) /\ IsSubsequence(s, after))
    <2> HIDE DEF p
    <2>1. \A s \in Seq(D) : Len(s) \in Nat
      BY LenProperties
    <2>. QED  BY <1>5, <1>6, <2>1
  <1>. QED  BY <1>3, <1>4, <1>7 DEF ExactFrom, Diff

(* The texts of a sample are sequences of lines. *)
TextsAreLines ==
  sample.of = "diff" => sample.before \in Seq(DiffLines) /\ sample.after \in Seq(DiffLines)

(* The texts of bounded length are texts.                                    *)
LEMMA SeqOfIsSeq ==
  ASSUME NEW D, NEW n \in Nat
  PROVE  SeqOf(D, n) \subseteq Seq(D)
  <1> SUFFICES ASSUME NEW s \in SeqOf(D, n) PROVE s \in Seq(D)
    OBVIOUS
  <1>1. PICK k \in 0..n : s \in [1..k -> D]
    BY DEF SeqOf
  <1>. QED  BY <1>1

(* What the administrator reads before an apply is exact, for texts of any   *)
(* lines and any length: without the added lines it is the installed file,   *)
(* without the removed ones the generated menu, and no diff keeps more lines *)
(* (UnifiedDiff, unified_diff).                                              *)
THEOREM DiffExactAlways == TextSpec => []DiffIsExact
  <1>1. TextInit => TextsAreLines
    BY DEF TextInit, NoSample, TextsAreLines
  <1>2. TextsAreLines /\ [TextNext]_sample => TextsAreLines'
    <2> SUFFICES ASSUME TextsAreLines, [TextNext]_sample PROVE TextsAreLines'
      OBVIOUS
    <2> USE SampleAssumption
    <2>1. CASE RenderLine
      BY <2>1 DEF RenderLine, TextsAreLines
    <2>2. CASE ShowConfig
      BY <2>2 DEF ShowConfig, TextsAreLines
    <2>3. CASE ListSnapper
      BY <2>3 DEF ListSnapper, TextsAreLines
    <2>4. CASE ShowDiff
      BY <2>4, SeqOfIsSeq DEF ShowDiff, TextsAreLines
    <2>5. CASE UNCHANGED sample
      BY <2>5 DEF TextsAreLines
    <2>. QED  BY <2>1, <2>2, <2>3, <2>4, <2>5 DEF TextNext
  <1>3. TextsAreLines => DiffIsExact
    <2> SUFFICES ASSUME TextsAreLines, sample.of = "diff" PROVE DiffIsExact
      BY DEF DiffIsExact
    <2> DEFINE before == sample.before
               after == sample.after
               diff == Diff(before, after)
    <2>1. before \in Seq(DiffLines) /\ after \in Seq(DiffLines)
      BY DEF TextsAreLines
    <2>2. SeqOf(DiffLines, MaxDiffLines) \subseteq Seq(DiffLines)
      BY SampleAssumption, SeqOfIsSeq
    <2>3. /\ LinesOf(diff, {" ", "-"}) = before
          /\ LinesOf(diff, {" ", "+"}) = after
          /\ \A s \in Seq(DiffLines) :
               Len(s) > Len(LinesOf(diff, {" "})) =>
                 ~(IsSubsequence(s, before) /\ IsSubsequence(s, after))
      BY <2>1, DiffExact
    <2>4. \A s \in SeqOf(DiffLines, MaxDiffLines) :
            Len(s) > Len(LinesOf(diff, {" "})) =>
              ~(IsSubsequence(s, before) /\ IsSubsequence(s, after))
      BY <2>2, <2>3, Zenon
    <2>. QED  BY <2>3, <2>4 DEF DiffIsExact
  <1>. QED  BY <1>1, <1>2, <1>3, PTL DEF TextSpec

-----------------------------------------------------------------------------
(***************************************************************************)
(* parse, as a scan.                                                       *)
(***************************************************************************)

(* The states of parse over the characters C. *)
ParseStates(C) ==
  [arguments : Seq(Seq(C)), current : Seq(C), escaped : BOOLEAN,
   quote : {Unquoted, Single, Double}]

(* The step of parse as a function. *)
Parsing(C) == [sc \in ParseStates(C) \X C |-> ParseCharacter(sc[1], sc[2])]

(* The record with these fields. *)
ParseState(arguments, current, escaped, quote) ==
  [arguments |-> arguments, current |-> current, escaped |-> escaped, quote |-> quote]

(* A record of these fields is a state of parse.                             *)
LEMMA ParseStateIs ==
  ASSUME NEW C, NEW a \in Seq(Seq(C)), NEW c \in Seq(C), NEW e \in BOOLEAN,
         NEW q \in {Unquoted, Single, Double}
  PROVE  ParseState(a, c, e, q) \in ParseStates(C)
  BY DEF ParseState, ParseStates

(* One step, by the fields. *)
ParsedCharacter(a, c, e, q, ch) ==
  IF e THEN ParseState(a, Append(c, ch), FALSE, q)
  ELSE IF ch = Backslash THEN ParseState(a, c, TRUE, q)
  ELSE IF q # Unquoted
  THEN IF ch = q THEN ParseState(a, c, e, Unquoted) ELSE ParseState(a, Append(c, ch), e, q)
  ELSE IF ch \in {Single, Double} THEN ParseState(a, c, e, ch)
  ELSE IF ch = Space
  THEN IF c = <<>> THEN ParseState(a, c, e, q) ELSE ParseState(Append(a, c), <<>>, e, q)
  ELSE ParseState(a, Append(c, ch), e, q)

(* A step of parse, by the fields.                                           *)
LEMMA ParseStep ==
  ASSUME NEW a, NEW c, NEW e, NEW q, NEW ch
  PROVE  ParseCharacter(ParseState(a, c, e, q), ch) = ParsedCharacter(a, c, e, q, ch)
  <1> DEFINE s == ParseState(a, c, e, q)
  <1> USE DEF ParsedCharacter
  <1>1. s.arguments = a /\ s.current = c /\ s.escaped = e /\ s.quote = q
    BY DEF ParseState
  <1>2. \A x : [s EXCEPT !.quote = x] = ParseState(a, c, e, x)
    BY DEF ParseState
  <1>3. \A x : [s EXCEPT !.escaped = x] = ParseState(a, c, x, q)
    BY DEF ParseState
  <1>4. [s EXCEPT !.current = Append(@, ch)] = ParseState(a, Append(c, ch), e, q)
    <2>1. \A x : [s EXCEPT !.current = x] = ParseState(a, x, e, q)
      BY DEF ParseState
    <2>2. [s EXCEPT !.current = Append(s.current, ch)] = ParseState(a, Append(c, ch), e, q)
      BY <1>1, <2>1
    <2>. QED  BY <2>2
  <1>5. \A x : [ParseState(a, Append(c, ch), e, q) EXCEPT !.escaped = x]
                 = ParseState(a, Append(c, ch), x, q)
    BY DEF ParseState
  <1>6. [s EXCEPT !.arguments = Append(@, s.current), !.current = <<>>]
          = ParseState(Append(a, c), <<>>, e, q)
    <2>1. Append(a, s.current) = Append(a, c)
      BY <1>1
    <2>2. \A x : [s EXCEPT !.arguments = x] = ParseState(x, c, e, q)
      BY DEF ParseState
    <2>3. \A x, y : [ParseState(x, c, e, q) EXCEPT !.current = y] = ParseState(x, y, e, q)
      BY DEF ParseState
    <2>4. \A x, y : [s EXCEPT !.arguments = x, !.current = y] = [[s EXCEPT !.arguments = x] EXCEPT !.current = y]
      <3> HIDE DEF s
      <3>. QED  OBVIOUS
    <2>. QED  BY <1>1, <2>1, <2>2, <2>3, <2>4
  <1> HIDE DEF s
  <1>7. CASE e
    <2>1. ParseCharacter(s, ch) = [[s EXCEPT !.current = Append(@, ch)] EXCEPT !.escaped = FALSE]
      BY <1>1, <1>7 DEF ParseCharacter
    <2>2. ParseCharacter(s, ch) = ParseState(a, Append(c, ch), FALSE, q)
      BY <1>4, <1>5, <2>1
    <2>. QED  BY <1>7, <2>2 DEF s
  <1>8. CASE ~e
    <2>2. CASE ch = Backslash
      <3>1. ParseCharacter(s, ch) = [s EXCEPT !.escaped = TRUE]
        BY <1>1, <1>8, <2>2 DEF ParseCharacter
      <3>2. ParseCharacter(s, ch) = ParseState(a, c, TRUE, q)
        BY <1>3, <3>1
      <3>. QED  BY <1>8, <2>2, <3>2 DEF s
    <2>3. CASE ch # Backslash /\ q # Unquoted /\ ch = q
      <3>1. ParseCharacter(s, ch) = [s EXCEPT !.quote = Unquoted]
        BY <1>1, <1>8, <2>3 DEF ParseCharacter
      <3>2. ParseCharacter(s, ch) = ParseState(a, c, e, Unquoted)
        BY <1>2, <3>1
      <3>. QED  BY <1>8, <2>3, <3>2 DEF s
    <2>4. CASE ch # Backslash /\ q # Unquoted /\ ch # q
      <3>1. ParseCharacter(s, ch) = [s EXCEPT !.current = Append(@, ch)]
        BY <1>1, <1>8, <2>4 DEF ParseCharacter
      <3>. QED  BY <1>4, <1>8, <2>4, <3>1 DEF s
    <2>5. CASE ch # Backslash /\ q = Unquoted /\ ch \in {Single, Double}
      <3>1. ParseCharacter(s, ch) = [s EXCEPT !.quote = ch]
        BY <1>1, <1>8, <2>5 DEF ParseCharacter
      <3>2. ParseCharacter(s, ch) = ParseState(a, c, e, ch)
        BY <1>2, <3>1
      <3>. QED  BY <1>8, <2>5, <3>2 DEF s
    <2>6. CASE ch # Backslash /\ q = Unquoted /\ ch \notin {Single, Double} /\ ch = Space
      <3>1. ParseCharacter(s, ch) = Flush(s)
        BY <1>1, <1>8, <2>6 DEF ParseCharacter
      <3>2. Flush(s) = IF c = <<>> THEN s ELSE ParseState(Append(a, c), <<>>, e, q)
        BY <1>1, <1>6 DEF Flush
      <3>. QED  BY <1>8, <2>6, <3>1, <3>2 DEF s
    <2>7. CASE ch # Backslash /\ q = Unquoted /\ ch \notin {Single, Double} /\ ch # Space
      <3>1. ParseCharacter(s, ch) = [s EXCEPT !.current = Append(@, ch)]
        BY <1>1, <1>8, <2>7 DEF ParseCharacter
      <3>. QED  BY <1>4, <1>8, <2>7, <3>1 DEF s
    <2>. QED  BY <2>2, <2>3, <2>4, <2>5, <2>6, <2>7
  <1>. QED  BY <1>7, <1>8

ParseStateOf(C, s) ==
  \E a \in Seq(Seq(C)), c \in Seq(C), e \in BOOLEAN, q \in {Unquoted, Single, Double} :
    s = ParseState(a, c, e, q)

(* A state of parse is a record of these fields.                             *)
LEMMA ParseStatesAre ==
  ASSUME NEW C, NEW s \in ParseStates(C)
  PROVE  ParseStateOf(C, s)
  <1>1. s = ParseState(s.arguments, s.current, s.escaped, s.quote)
    BY DEF ParseStates, ParseState
  <1>2. /\ s.arguments \in Seq(Seq(C)) /\ s.current \in Seq(C) /\ s.escaped \in BOOLEAN
        /\ s.quote \in {Unquoted, Single, Double}
    BY DEF ParseStates
  <1>. QED  BY <1>1, <1>2 DEF ParseStateOf

(* A step of parse keeps to the states.                                      *)
LEMMA ParseStepType ==
  ASSUME NEW C, NEW s \in ParseStates(C), NEW ch \in C
  PROVE  ParseCharacter(s, ch) \in ParseStates(C)
  <1>1. PICK a \in Seq(Seq(C)), c \in Seq(C), e \in BOOLEAN, q \in {Unquoted, Single, Double} :
          s = ParseState(a, c, e, q)
    BY ParseStatesAre DEF ParseStateOf
  <1> DEFINE X == ParseStates(C)
  <1>2. /\ Append(c, ch) \in Seq(C) /\ <<>> \in Seq(C) /\ Append(a, c) \in Seq(Seq(C))
    BY <1>1
  <1>3. \A a1 \in Seq(Seq(C)), c1 \in Seq(C), e1 \in BOOLEAN, q1 \in {Unquoted, Single, Double} :
          ParseState(a1, c1, e1, q1) \in X
    BY ParseStateIs
  <1> HIDE DEF X
  <1>4. ParseState(a, Append(c, ch), FALSE, q) \in X /\ ParseState(a, c, TRUE, q) \in X
    BY <1>1, <1>2, <1>3
  <1>5. ParseState(a, c, e, Unquoted) \in X /\ ParseState(a, Append(c, ch), e, q) \in X
    BY <1>1, <1>2, <1>3
  <1>6. ch \in {Single, Double} => ParseState(a, c, e, ch) \in X
    BY <1>1, <1>2, <1>3
  <1>7. ParseState(a, c, e, q) \in X /\ ParseState(Append(a, c), <<>>, e, q) \in X
    BY <1>1, <1>2, <1>3
  <1>8. ParseCharacter(s, ch) = ParsedCharacter(a, c, e, q, ch)
    BY <1>1, ParseStep
  <1>9. ParseCharacter(s, ch) \in X
    BY <1>4, <1>5, <1>6, <1>7, <1>8 DEF ParsedCharacter
  <1>. QED  BY <1>9 DEF X

(* Parsing a text is a scan.                                                 *)
LEMMA ParsingIs ==
  ASSUME NEW C, NEW s \in ParseStates(C), NEW text \in Seq(C)
  PROVE  IsScan(ParseStates(C), C, Parsing(C), s, text)
  <1> DEFINE X == ParseStates(C)
  <1>1. \A t \in X, ch \in C : ParseCharacter(t, ch) \in X
    BY ParseStepType
  <1> HIDE DEF X
  <1>2. Parsing(C) \in [X \X C -> X]
    BY <1>1 DEF Parsing, X
  <1>. QED  BY <1>2 DEF IsScan, X

(* A step of that scan is ParseCharacter.                                    *)
LEMMA ParsingStep ==
  ASSUME NEW C, NEW s \in ParseStates(C), NEW ch \in C
  PROVE  Parsing(C)[<<s, ch>>] = ParseCharacter(s, ch)
  BY DEF Parsing

(* Parse starts in one of its states.                                        *)
LEMMA ParseStartIs ==
  ASSUME NEW C
  PROVE  ParseStart = ParseState(<<>>, <<>>, FALSE, Unquoted) /\ ParseStart \in ParseStates(C)
  <1>1. ParseStart = ParseState(<<>>, <<>>, FALSE, Unquoted)
    BY DEF ParseStart, ParseState
  <1>2. <<>> \in Seq(C) /\ <<>> \in Seq(Seq(C))
    OBVIOUS
  <1>. QED  BY <1>1, <1>2, ParseStateIs

(* The scan of parse is the scan of that function. *)
LEMMA ParseScan ==
  ASSUME NEW C, NEW text \in Seq(C)
  PROVE  Scan(ParseCharacter, ParseStart, text) = ScanOf(Parsing(C), ParseStart, text)
  <1> DEFINE T == CHOOSE g : g = [k \in 0..Len(text) |->
                                    IF k = 0 THEN ParseStart ELSE ParseCharacter(g[k-1], text[k])]
             G == Parsing(C)
             X == ParseStates(C)
  <1>1. Scan(ParseCharacter, ParseStart, text) = T[Len(text)]
    BY DEF Scan
  <1>2. Len(text) \in Nat /\ \A k \in 1..Len(text) : text[k] \in C
    BY LenProperties
  <1>4. IsScan(X, C, G, ParseStart, text)
    BY ParseStartIs, ParsingIs
  <1>5. \A s \in X, ch \in C : G[<<s, ch>>] = ParseCharacter(s, ch)
    BY ParsingStep
  <1> HIDE DEF T, G, X
  <1>6. PICK f : Follows(f, X, G, ParseStart, text)
    BY <1>4, ScanExists
  <1>7. f = [k \in 0..Len(text) |-> IF k = 0 THEN ParseStart ELSE ParseCharacter(f[k-1], text[k])]
    <2>1. \A k \in 1..Len(text) : f[k-1] \in X /\ f[k] = ParseCharacter(f[k-1], text[k])
      <3> SUFFICES ASSUME NEW k \in 1..Len(text)
                   PROVE  f[k-1] \in X /\ f[k] = ParseCharacter(f[k-1], text[k])
        OBVIOUS
      <3>1. k - 1 \in 0..Len(text)
        BY <1>2
      <3>2. f[k-1] \in X /\ f[k] = G[<<f[k-1], text[k]>>]
        BY <1>6, <3>1 DEF Follows
      <3>. QED  BY <1>2, <1>5, <3>2
    <2>2. f \in [0..Len(text) -> X] /\ f[0] = ParseStart
      BY <1>6 DEF Follows
    <2>3. \A k \in 0..Len(text) : f[k] = IF k = 0 THEN ParseStart ELSE ParseCharacter(f[k-1], text[k])
      BY <1>2, <2>1, <2>2
    <2>. QED  BY <2>2, <2>3
  <1>8. T = [k \in 0..Len(text) |-> IF k = 0 THEN ParseStart ELSE ParseCharacter(T[k-1], text[k])]
    BY <1>7 DEF T
  <1>9. FollowsIn(T, X, G, ParseStart, text)
    <2>1. T[0] = ParseStart
      BY <1>2, <1>8
    <2>2. ASSUME NEW k \in 1..Len(text), T[k-1] \in X PROVE T[k] = G[<<T[k-1], text[k]>>]
      <3>1. T[k] = ParseCharacter(T[k-1], text[k])
        BY <1>2, <1>8
      <3>. QED  BY <1>2, <1>5, <2>2, <3>1
    <2>. QED  BY <2>1, <2>2 DEF FollowsIn
  <1>. QED  BY <1>1, <1>4, <1>9, ScanLink DEF G

-----------------------------------------------------------------------------
(***************************************************************************)
(* render, as a scan.                                                      *)
(***************************************************************************)

(* The characters that render and parse treat apart are among C. *)
HasSpecials(C) == {Space, Single, Double, Backslash} \subseteq C

Escaping(C) == [tc \in Seq(C) \X C |-> EscapeCharacter(tc[1], tc[2])]

(* A step of escaping, as a function.                                        *)
LEMMA EscapingStep ==
  ASSUME NEW C, NEW t \in Seq(C), NEW ch \in C
  PROVE  Escaping(C)[<<t, ch>>] = EscapeCharacter(t, ch)
  BY DEF Escaping

(* Escaping a text is a scan.                                                *)
LEMMA EscapingIs ==
  ASSUME NEW C, HasSpecials(C), NEW t \in Seq(C), NEW text \in Seq(C)
  PROVE  IsScan(Seq(C), C, Escaping(C), t, text)
  <1> DEFINE X == Seq(C)
  <1>1. \A u \in X, ch \in C : EscapeCharacter(u, ch) \in X
    BY DEF EscapeCharacter, HasSpecials
  <1> HIDE DEF X
  <1>2. Escaping(C) \in [X \X C -> X]
    BY <1>1 DEF Escaping, X
  <1>. QED  BY <1>2 DEF IsScan, X

(* The escaped text is the scan of that function. *)
LEMMA EscapeScan ==
  ASSUME NEW C, HasSpecials(C), NEW text \in Seq(C)
  PROVE  Scan(EscapeCharacter, <<>>, text) = ScanOf(Escaping(C), <<>>, text)
  <1> DEFINE T == CHOOSE g : g = [k \in 0..Len(text) |->
                                    IF k = 0 THEN <<>> ELSE EscapeCharacter(g[k-1], text[k])]
             G == Escaping(C)
             X == Seq(C)
             E == C
             start == <<>>
  <1>1. Scan(EscapeCharacter, <<>>, text) = T[Len(text)]
    BY DEF Scan
  <1>2. Len(text) \in Nat /\ \A k \in 1..Len(text) : text[k] \in E
    BY LenProperties
  <1>4. IsScan(X, E, G, start, text)
    <2>1. <<>> \in Seq(C)
      OBVIOUS
    <2>. QED  BY <2>1, EscapingIs
  <1>5. \A s \in X, z \in E : G[<<s, z>>] = EscapeCharacter(s, z)
    BY EscapingStep
  <1>3. T = CHOOSE g : g = [k \in 0..Len(text) |-> IF k = 0 THEN start ELSE EscapeCharacter(g[k-1], text[k])]
    OBVIOUS
  <1> HIDE DEF T, G, X, E, start
  <1>6. PICK f : Follows(f, X, G, start, text)
    BY <1>4, ScanExists
  <1>7. f = [k \in 0..Len(text) |-> IF k = 0 THEN start ELSE EscapeCharacter(f[k-1], text[k])]
    <2>1. \A k \in 1..Len(text) : f[k-1] \in X /\ f[k] = EscapeCharacter(f[k-1], text[k])
      <3> SUFFICES ASSUME NEW k \in 1..Len(text)
                   PROVE  f[k-1] \in X /\ f[k] = EscapeCharacter(f[k-1], text[k])
        OBVIOUS
      <3>1. k - 1 \in 0..Len(text)
        BY <1>2
      <3>2. f[k-1] \in X /\ f[k] = G[<<f[k-1], text[k]>>]
        BY <1>6, <3>1 DEF Follows
      <3>. QED  BY <1>2, <1>5, <3>2
    <2>2. f \in [0..Len(text) -> X] /\ f[0] = start
      BY <1>6 DEF Follows
    <2>3. \A k \in 0..Len(text) : f[k] = IF k = 0 THEN start ELSE EscapeCharacter(f[k-1], text[k])
      BY <1>2, <2>1, <2>2
    <2>. QED  BY <2>2, <2>3
  <1>8. T = [k \in 0..Len(text) |-> IF k = 0 THEN start ELSE EscapeCharacter(T[k-1], text[k])]
    BY <1>3, <1>7
  <1>9. FollowsIn(T, X, G, start, text)
    <2>1. T[0] = start
      BY <1>2, <1>8
    <2>2. ASSUME NEW k \in 1..Len(text), T[k-1] \in X PROVE T[k] = G[<<T[k-1], text[k]>>]
      <3>1. T[k] = EscapeCharacter(T[k-1], text[k])
        BY <1>2, <1>8
      <3>. QED  BY <1>2, <1>5, <2>2, <3>1
    <2>. QED  BY <2>1, <2>2 DEF FollowsIn
  <1>. QED  BY <1>1, <1>4, <1>9, ScanLink DEF G, start

(* An argument in quotes. *)
LEMMA QuoteType ==
  ASSUME NEW C, HasSpecials(C), NEW argument \in Seq(C)
  PROVE  /\ Scan(EscapeCharacter, <<>>, argument) \in Seq(C)
         /\ QuoteArgument(argument) \in Seq(C)
  <1>1. <<>> \in Seq(C)
    OBVIOUS
  <1>2. IsScan(Seq(C), C, Escaping(C), <<>>, argument)
    BY <1>1, EscapingIs
  <1>3. Scan(EscapeCharacter, <<>>, argument) \in Seq(C)
    BY <1>2, EscapeScan, ScanOfType
  <1>4. <<Double>> \in Seq(C)
    BY DEF HasSpecials
  <1>. QED  BY <1>3, <1>4 DEF QuoteArgument

Rendering(C) == [ta \in Seq(C) \X Seq(C) |-> RenderArgument(ta[1], ta[2])]

(* A step of rendering, as a function.                                       *)
LEMMA RenderingStep ==
  ASSUME NEW C, NEW t \in Seq(C), NEW argument \in Seq(C)
  PROVE  Rendering(C)[<<t, argument>>] = RenderArgument(t, argument)
  BY DEF Rendering

(* Rendering one more argument gives a text.                                 *)
LEMMA RenderType ==
  ASSUME NEW C, HasSpecials(C), NEW t \in Seq(C), NEW argument \in Seq(C)
  PROVE  RenderArgument(t, argument) \in Seq(C)
  <1>1. QuoteArgument(argument) \in Seq(C)
    BY QuoteType
  <1>2. t \o <<Space>> \in Seq(C) /\ <<>> \in Seq(C)
    BY DEF HasSpecials
  <1>. QED  BY <1>1, <1>2 DEF RenderArgument

(* Rendering is a scan over the arguments.                                   *)
LEMMA RenderingIs ==
  ASSUME NEW C, HasSpecials(C), NEW t \in Seq(C), NEW text \in Seq(Seq(C))
  PROVE  IsScan(Seq(C), Seq(C), Rendering(C), t, text)
  <1> DEFINE X == Seq(C)
  <1>1. \A u \in X, argument \in X : RenderArgument(u, argument) \in X
    BY RenderType
  <1> HIDE DEF X
  <1>2. Rendering(C) \in [X \X X -> X]
    BY <1>1 DEF Rendering, X
  <1>. QED  BY <1>2 DEF IsScan, X

(* The rendered line is the scan of that function. *)
LEMMA RenderScan ==
  ASSUME NEW C, HasSpecials(C), NEW text \in Seq(Seq(C))
  PROVE  RenderArguments(text) = ScanOf(Rendering(C), <<>>, text)
  <1> DEFINE T == CHOOSE g : g = [k \in 0..Len(text) |->
                                    IF k = 0 THEN <<>> ELSE RenderArgument(g[k-1], text[k])]
             G == Rendering(C)
             X == Seq(C)
             E == Seq(C)
             start == <<>>
  <1>1. RenderArguments(text) = T[Len(text)]
    BY DEF RenderArguments, Scan
  <1>2. Len(text) \in Nat /\ \A k \in 1..Len(text) : text[k] \in E
    BY LenProperties
  <1>4. IsScan(X, E, G, start, text)
    <2>1. <<>> \in Seq(C)
      OBVIOUS
    <2>. QED  BY <2>1, RenderingIs
  <1>5. \A s \in X, z \in E : G[<<s, z>>] = RenderArgument(s, z)
    BY RenderingStep
  <1>3. T = CHOOSE g : g = [k \in 0..Len(text) |-> IF k = 0 THEN start ELSE RenderArgument(g[k-1], text[k])]
    OBVIOUS
  <1> HIDE DEF T, G, X, E, start
  <1>6. PICK f : Follows(f, X, G, start, text)
    BY <1>4, ScanExists
  <1>7. f = [k \in 0..Len(text) |-> IF k = 0 THEN start ELSE RenderArgument(f[k-1], text[k])]
    <2>1. \A k \in 1..Len(text) : f[k-1] \in X /\ f[k] = RenderArgument(f[k-1], text[k])
      <3> SUFFICES ASSUME NEW k \in 1..Len(text)
                   PROVE  f[k-1] \in X /\ f[k] = RenderArgument(f[k-1], text[k])
        OBVIOUS
      <3>1. k - 1 \in 0..Len(text)
        BY <1>2
      <3>2. f[k-1] \in X /\ f[k] = G[<<f[k-1], text[k]>>]
        BY <1>6, <3>1 DEF Follows
      <3>. QED  BY <1>2, <1>5, <3>2
    <2>2. f \in [0..Len(text) -> X] /\ f[0] = start
      BY <1>6 DEF Follows
    <2>3. \A k \in 0..Len(text) : f[k] = IF k = 0 THEN start ELSE RenderArgument(f[k-1], text[k])
      BY <1>2, <2>1, <2>2
    <2>. QED  BY <2>2, <2>3
  <1>8. T = [k \in 0..Len(text) |-> IF k = 0 THEN start ELSE RenderArgument(T[k-1], text[k])]
    BY <1>3, <1>7
  <1>9. FollowsIn(T, X, G, start, text)
    <2>1. T[0] = start
      BY <1>2, <1>8
    <2>2. ASSUME NEW k \in 1..Len(text), T[k-1] \in X PROVE T[k] = G[<<T[k-1], text[k]>>]
      <3>1. T[k] = RenderArgument(T[k-1], text[k])
        BY <1>2, <1>8
      <3>. QED  BY <1>2, <1>5, <2>2, <3>1
    <2>. QED  BY <2>1, <2>2 DEF FollowsIn
  <1>. QED  BY <1>1, <1>4, <1>9, ScanLink DEF G, start

-----------------------------------------------------------------------------
(***************************************************************************)
(* What parse reads of a rendered line.                                    *)
(***************************************************************************)

(* What parse makes of a text that is read from the state s. *)
ParsedFrom(C, s, text) == ScanOf(Parsing(C), s, text)

(* Nothing is read from an empty text.                                       *)
LEMMA ParsedEmpty ==
  ASSUME NEW C, NEW s \in ParseStates(C)
  PROVE  ParsedFrom(C, s, <<>>) = s
  <1>1. <<>> \in Seq(C)
    OBVIOUS
  <1>2. IsScan(ParseStates(C), C, Parsing(C), s, <<>>)
    BY <1>1, ParsingIs
  <1>. QED  BY <1>2, ScanOfEmpty DEF ParsedFrom

(* One more character is one more step.                                      *)
LEMMA ParsedAppend ==
  ASSUME NEW C, NEW s \in ParseStates(C), NEW text \in Seq(C), NEW ch \in C
  PROVE  /\ ParsedFrom(C, s, text) \in ParseStates(C)
         /\ ParsedFrom(C, s, text \o <<ch>>) = ParseCharacter(ParsedFrom(C, s, text), ch)
  <1>1. IsScan(ParseStates(C), C, Parsing(C), s, text)
    BY ParsingIs
  <1>2. ParsedFrom(C, s, text) \in ParseStates(C)
    BY <1>1, ScanOfType DEF ParsedFrom
  <1>3. ParsedFrom(C, s, text \o <<ch>>) = Parsing(C)[<<ParsedFrom(C, s, text), ch>>]
    BY <1>1, ScanOfAppend DEF ParsedFrom
  <1>. QED  BY <1>2, <1>3, ParsingStep

(* The same, of a text of which the reading is known. *)
LEMMA ParsedNext ==
  ASSUME NEW C, NEW s \in ParseStates(C), NEW text \in Seq(C), NEW ch \in C, NEW r,
         ParsedFrom(C, s, text) = r
  PROVE  ParsedFrom(C, s, text \o <<ch>>) = ParseCharacter(r, ch)
  <1>1. ParsedFrom(C, s, text \o <<ch>>) = ParseCharacter(ParsedFrom(C, s, text), ch)
    BY ParsedAppend
  <1>. QED  BY <1>1, Zenon

(* A text is read after what is before it.                                   *)
LEMMA ParsedConcat ==
  ASSUME NEW C, NEW s \in ParseStates(C), NEW t \in Seq(C), NEW u \in Seq(C)
  PROVE  ParsedFrom(C, s, t \o u) = ParsedFrom(C, ParsedFrom(C, s, t), u)
  <1>1. IsScan(ParseStates(C), C, Parsing(C), s, t)
    BY ParsingIs
  <1>. QED  BY <1>1, ScanOfConcat DEF ParsedFrom

(* A text of one character is one step.                                      *)
LEMMA ParsedOne ==
  ASSUME NEW C, NEW s \in ParseStates(C), NEW ch \in C
  PROVE  ParsedFrom(C, s, <<ch>>) = ParseCharacter(s, ch)
  <1>1. <<>> \in Seq(C) /\ <<>> \o <<ch>> = <<ch>>
    OBVIOUS
  <1>2. ParsedFrom(C, s, <<>> \o <<ch>>) = ParseCharacter(ParsedFrom(C, s, <<>>), ch)
    BY <1>1, ParsedAppend
  <1>. QED  BY <1>1, <1>2, ParsedEmpty

Plain(C) == C \ {Space, Single, Double, Backslash}

(* Characters that mean nothing are read as they are. *)
LEMMA ReadPlain ==
  ASSUME NEW C, NEW a \in Seq(Seq(C)), NEW text \in Seq(Plain(C))
  PROVE  ParsedFrom(C, ParseState(a, <<>>, FALSE, Unquoted), text) = ParseState(a, text, FALSE, Unquoted)
  <1> DEFINE s == ParseState(a, <<>>, FALSE, Unquoted)
             P == Plain(C)
             Q == {t \in Seq(P) : ParsedFrom(C, s, t) = ParseState(a, t, FALSE, Unquoted)}
  <1>1. s \in ParseStates(C)
    <2>1. <<>> \in Seq(C)
      OBVIOUS
    <2>. QED  BY <2>1, ParseStateIs
  <1>2. P \subseteq C
    BY DEF Plain
  <1>3. \A t \in Seq(P) : t \in Seq(C)
    <2> HIDE DEF P
    <2>. QED  BY <1>2
  <1>4. <<>> \in Q
    <2>1. <<>> \in Seq(P)
      OBVIOUS
    <2>2. ParsedFrom(C, s, <<>>) = s
      <3> HIDE DEF s
      <3>. QED  BY <1>1, ParsedEmpty
    <2>. QED  BY <2>1, <2>2
  <1>5. ASSUME NEW t \in Q, NEW ch \in P PROVE t \o <<ch>> \in Q
    <2>1. t \in Seq(P) /\ t \in Seq(C) /\ ch \in C /\ t \o <<ch>> \in Seq(P)
      BY <1>2, <1>3
    <2>2. ch \notin {Space, Single, Double, Backslash}
      BY DEF Plain
    <2>3. ParsedFrom(C, s, t) = ParseState(a, t, FALSE, Unquoted)
      OBVIOUS
    <2>4. ParsedFrom(C, s, t \o <<ch>>) = ParsedCharacter(a, t, FALSE, Unquoted, ch)
      <3> HIDE DEF Q, s, P
      <3>1. ParsedFrom(C, s, t \o <<ch>>) = ParseCharacter(ParseState(a, t, FALSE, Unquoted), ch)
        <4> DEFINE r == ParseState(a, t, FALSE, Unquoted)
        <4>1. s \in ParseStates(C) /\ t \in Seq(C) /\ ParsedFrom(C, s, t) = r /\ ch \in C
          BY <1>1, <2>1, <2>3
        <4> HIDE DEF r
        <4>2. ParsedFrom(C, s, t \o <<ch>>) = ParseCharacter(r, ch)
          BY <4>1, ParsedNext
        <4>. QED  BY <4>2 DEF r
      <3>. QED  BY <3>1, ParseStep
    <2>5. ParsedFrom(C, s, t \o <<ch>>) = ParseState(a, Append(t, ch), FALSE, Unquoted)
      BY <2>2, <2>4 DEF ParsedCharacter
    <2>6. Append(t, ch) = t \o <<ch>>
      BY <2>1, AppendIsConcat
    <2>. QED  BY <2>1, <2>5, <2>6
  <1>6. Q = Seq(P)
    <2> HIDE DEF Q, P
    <2>1. Q \subseteq Seq(P)
      BY DEF Q
    <2>. QED  BY <1>4, <1>5, <2>1, SeqInduction
  <1>. QED  BY <1>6

(* What is escaped is read as it was, within double quotes. *)
LEMMA ReadEscaped ==
  ASSUME NEW C, HasSpecials(C), NEW a \in Seq(Seq(C)), NEW text \in Seq(C)
  PROVE  ParsedFrom(C, ParseState(a, <<>>, FALSE, Double), Scan(EscapeCharacter, <<>>, text))
           = ParseState(a, text, FALSE, Double)
  <1> DEFINE s == ParseState(a, <<>>, FALSE, Double)
             esc(t) == Scan(EscapeCharacter, <<>>, t)
             Q == {t \in Seq(C) : ParsedFrom(C, s, esc(t)) = ParseState(a, t, FALSE, Double)}
             X == ParseStates(C)
  <1>1. s \in X /\ <<>> \in Seq(C)
    <2>1. <<>> \in Seq(C)
      OBVIOUS
    <2>. QED  BY <2>1, ParseStateIs
  <1>2. \A t \in Seq(C) : esc(t) \in Seq(C) /\ esc(t) = ScanOf(Escaping(C), <<>>, t)
    BY QuoteType, EscapeScan
  <1>3. \A t \in Seq(C), ch \in C : esc(t \o <<ch>>) = EscapeCharacter(esc(t), ch)
    <2> SUFFICES ASSUME NEW t \in Seq(C), NEW ch \in C
                 PROVE  esc(t \o <<ch>>) = EscapeCharacter(esc(t), ch)
      OBVIOUS
    <2>1. IsScan(Seq(C), C, Escaping(C), <<>>, t)
      BY <1>1, EscapingIs
    <2>2. ScanOf(Escaping(C), <<>>, t \o <<ch>>) = Escaping(C)[<<ScanOf(Escaping(C), <<>>, t), ch>>]
      BY <2>1, ScanOfAppend
    <2>3. t \o <<ch>> \in Seq(C)
      OBVIOUS
    <2> HIDE DEF esc
    <2>4. Escaping(C)[<<esc(t), ch>>] = EscapeCharacter(esc(t), ch)
      BY <1>2, EscapingStep
    <2>. QED  BY <1>2, <2>2, <2>3, <2>4
  <1>4. \A t \in Seq(C) : ParseState(a, t, FALSE, Double) \in X /\ ParseState(a, t, TRUE, Double) \in X
    BY ParseStateIs
  <1> HIDE DEF esc, X
  <1>5. <<>> \in Q
    <2>1. esc(<<>>) = <<>>
      <3>1. IsScan(Seq(C), C, Escaping(C), <<>>, <<>>)
        BY <1>1, EscapingIs
      <3>. QED  BY <1>1, <1>2, <3>1, ScanOfEmpty
    <2>. QED  BY <1>1, <2>1, ParsedEmpty DEF X
  <1>6. ASSUME NEW t \in Q, NEW ch \in C PROVE t \o <<ch>> \in Q
    <2>1. t \in Seq(C) /\ t \o <<ch>> \in Seq(C) /\ Append(t, ch) = t \o <<ch>>
      BY AppendIsConcat
    <2>2. ParsedFrom(C, s, esc(t)) = ParseState(a, t, FALSE, Double)
      OBVIOUS
    <2>3. esc(t) \in Seq(C) /\ Backslash \in C /\ <<ch>> \in Seq(C)
      BY <1>2, <2>1 DEF HasSpecials
    <2> HIDE DEF Q, s
    <2>4. CASE ch \in {Double, Backslash}
      <3>1. esc(t \o <<ch>>) = (esc(t) \o <<Backslash>>) \o <<ch>>
        BY <1>3, <2>1, <2>4 DEF EscapeCharacter
      <3>3. esc(t) \o <<Backslash>> \in Seq(C)
        BY <2>3
      <3>4. ParsedFrom(C, s, esc(t) \o <<Backslash>>) = ParsedCharacter(a, t, FALSE, Double, Backslash)
        <4>1. ParsedFrom(C, s, esc(t) \o <<Backslash>>) = ParseCharacter(ParseState(a, t, FALSE, Double), Backslash)
          <5> DEFINE u == esc(t)
                     r == ParseState(a, t, FALSE, Double)
          <5>1. s \in ParseStates(C) /\ u \in Seq(C) /\ ParsedFrom(C, s, u) = r /\ Backslash \in C
            BY <1>1, <2>2, <2>3 DEF X
          <5> HIDE DEF u, r
          <5>2. \A c \in C : ParsedFrom(C, s, u \o <<c>>) = ParseCharacter(r, c)
            BY <5>1, ParsedNext
          <5>. QED  BY <5>1, <5>2 DEF u, r
        <4>. QED  BY <4>1, ParseStep
      <3>5. ParsedFrom(C, s, esc(t) \o <<Backslash>>) = ParseState(a, t, TRUE, Double)
        BY <3>4 DEF ParsedCharacter
      <3>6. ParsedFrom(C, s, (esc(t) \o <<Backslash>>) \o <<ch>>) = ParsedCharacter(a, t, TRUE, Double, ch)
        <4>1. ParsedFrom(C, s, (esc(t) \o <<Backslash>>) \o <<ch>>) = ParseCharacter(ParseState(a, t, TRUE, Double), ch)
          <5> DEFINE u == esc(t) \o <<Backslash>>
                     r == ParseState(a, t, TRUE, Double)
          <5>1. s \in ParseStates(C) /\ u \in Seq(C) /\ ParsedFrom(C, s, u) = r /\ ch \in C
            BY <1>1, <3>3, <3>5 DEF X
          <5> HIDE DEF u, r
          <5>2. ParsedFrom(C, s, u \o <<ch>>) = ParseCharacter(r, ch)
            BY <5>1, ParsedNext
          <5>. QED  BY <5>2 DEF u, r
        <4>. QED  BY <4>1, ParseStep
      <3>7. ParsedCharacter(a, t, TRUE, Double, ch) = ParseState(a, Append(t, ch), FALSE, Double)
        BY DEF ParsedCharacter
      <3>. QED  BY <2>1, <3>1, <3>6, <3>7 DEF Q
    <2>5. CASE ch \notin {Double, Backslash}
      <3>1. esc(t \o <<ch>>) = esc(t) \o <<ch>>
        BY <1>3, <2>1, <2>5 DEF EscapeCharacter
      <3>2. ParsedFrom(C, s, esc(t) \o <<ch>>) = ParsedCharacter(a, t, FALSE, Double, ch)
        <4>1. ParsedFrom(C, s, esc(t) \o <<ch>>) = ParseCharacter(ParseState(a, t, FALSE, Double), ch)
          <5> DEFINE u == esc(t)
                     r == ParseState(a, t, FALSE, Double)
          <5>1. s \in ParseStates(C) /\ u \in Seq(C) /\ ParsedFrom(C, s, u) = r /\ Backslash \in C
            BY <1>1, <2>2, <2>3 DEF X
          <5> HIDE DEF u, r
          <5>2. \A c \in C : ParsedFrom(C, s, u \o <<c>>) = ParseCharacter(r, c)
            BY <5>1, ParsedNext
          <5>. QED  BY <5>1, <5>2 DEF u, r
        <4>. QED  BY <4>1, ParseStep
      <3>3. ParsedCharacter(a, t, FALSE, Double, ch) = ParseState(a, Append(t, ch), FALSE, Double)
        BY <2>5 DEF ParsedCharacter, Double, Unquoted
      <3>. QED  BY <2>1, <3>1, <3>2, <3>3 DEF Q
    <2>. QED  BY <2>4, <2>5
  <1>7. Q = Seq(C)
    <2> HIDE DEF Q
    <2>1. Q \subseteq Seq(C)
      BY DEF Q
    <2>. QED  BY <1>5, <1>6, <2>1, SeqInduction
  <1>. QED  BY <1>7 DEF esc

(* A quoted argument is read as it was, but for a single quote outside double *)
(* quotes.                                                                    *)
LEMMA ReadQuoted ==
  ASSUME NEW C, HasSpecials(C), NEW a \in Seq(Seq(C)), NEW b \in Seq(C), Single \notin ToSet(b)
  PROVE  /\ QuoteArgument(b) \in Seq(C)
         /\ ParsedFrom(C, ParseState(a, <<>>, FALSE, Unquoted), QuoteArgument(b))
              = ParseState(a, b, FALSE, Unquoted)
         /\ b # <<>> => QuoteArgument(b) # <<>>
  <1> DEFINE s == ParseState(a, <<>>, FALSE, Unquoted)
             inside == ParseState(a, <<>>, FALSE, Double)
             read == ParseState(a, b, FALSE, Double)
             esc == Scan(EscapeCharacter, <<>>, b)
             X == ParseStates(C)
  <1>1. QuoteArgument(b) \in Seq(C) /\ esc \in Seq(C)
    BY QuoteType
  <1>2. s \in X /\ inside \in X /\ read \in X
    <2>1. <<>> \in Seq(C)
      OBVIOUS
    <2>. QED  BY <2>1, ParseStateIs
  <1>3. CASE ToSet(b) \cap {Space, Double, Backslash} = {}
    <2>1. QuoteArgument(b) = b
      BY <1>3 DEF QuoteArgument
    <2>2. b \in Seq(Plain(C))
      <3>1. \A i \in 1..Len(b) : b[i] \in C /\ b[i] \in ToSet(b)
        BY DEF ToSet
      <3>2. \A i \in 1..Len(b) : b[i] \in Plain(C)
        BY <1>3, <3>1 DEF Plain
      <3>3. Len(b) \in Nat /\ b = [i \in 1..Len(b) |-> b[i]]
        OBVIOUS
      <3>4. b \in [1..Len(b) -> Plain(C)]
        BY <3>2, <3>3
      <3>. QED  BY <3>3, <3>4
    <2>. QED  BY <1>1, <2>1, <2>2, ReadPlain
  <1>4. CASE ToSet(b) \cap {Space, Double, Backslash} # {}
    <2>1. QuoteArgument(b) = (<<Double>> \o esc) \o <<Double>>
      BY <1>4 DEF QuoteArgument
    <2>2. Double \in C /\ <<Double>> \in Seq(C)
      BY DEF HasSpecials
    <2> HIDE DEF s, inside, read, esc, X
    <2>3. ParsedFrom(C, s, <<Double>>) = inside
      <3>1. ParsedFrom(C, s, <<Double>>) = ParseCharacter(s, Double)
        BY <1>2, <2>2, ParsedOne DEF X
      <3>2. ParseCharacter(s, Double) = ParsedCharacter(a, <<>>, FALSE, Unquoted, Double)
        BY ParseStep DEF s
      <3>3. ParsedCharacter(a, <<>>, FALSE, Unquoted, Double) = inside
        BY DEF ParsedCharacter, inside, Double, Backslash, Unquoted
      <3>. QED  BY <3>1, <3>2, <3>3
    <2>4. ParsedFrom(C, s, <<Double>> \o esc) = read
      <3>1. ParsedFrom(C, s, <<Double>> \o esc) = ParsedFrom(C, inside, esc)
        BY <1>1, <1>2, <2>2, <2>3, ParsedConcat DEF X
      <3>2. ParsedFrom(C, inside, esc) = read
        BY ReadEscaped DEF inside, esc, read
      <3>. QED  BY <3>1, <3>2
    <2>5. ParsedFrom(C, s, (<<Double>> \o esc) \o <<Double>>) = ParseState(a, b, FALSE, Unquoted)
      <3>1. <<Double>> \o esc \in Seq(C)
        BY <1>1, <2>2
      <3>2. ParsedFrom(C, s, (<<Double>> \o esc) \o <<Double>>) = ParseCharacter(read, Double)
        <4> DEFINE u == <<Double>> \o esc
        <4>1. s \in ParseStates(C) /\ u \in Seq(C) /\ ParsedFrom(C, s, u) = read /\ Double \in C
          BY <1>2, <2>2, <2>4, <3>1 DEF X
        <4> HIDE DEF u
        <4>2. ParsedFrom(C, s, u \o <<Double>>) = ParseCharacter(read, Double)
          BY <4>1, ParsedNext
        <4>. QED  BY <4>2 DEF u
      <3>3. ParseCharacter(read, Double) = ParsedCharacter(a, b, FALSE, Double, Double)
        BY ParseStep DEF read
      <3>4. ParsedCharacter(a, b, FALSE, Double, Double) = ParseState(a, b, FALSE, Unquoted)
        BY DEF ParsedCharacter, Double, Backslash, Unquoted
      <3>. QED  BY <3>2, <3>3, <3>4
    <2>6. QuoteArgument(b) # <<>>
      <3>1. <<Double>> \o esc \in Seq(C)
        BY <1>1, <2>2
      <3>. QED  BY <2>1, <2>2, <3>1
    <2>. QED  BY <1>1, <2>1, <2>5, <2>6 DEF s
  <1>. QED  BY <1>3, <1>4

(* The arguments that render and parse leave as they are. *)
Renderable(C) == {b \in Seq(C) : b # <<>> /\ Single \notin ToSet(b)}

(* What parse has of a line is its last argument and those before it. *)
ReadsAs(C, s, arguments) ==
  \E a \in Seq(Seq(C)), c \in Seq(C) :
    /\ s = ParseState(a, c, FALSE, Unquoted)
    /\ arguments = IF c = <<>> THEN a ELSE Append(a, c)

RenderedAndRead(C, arguments) ==
  /\ RenderArguments(arguments) \in Seq(C)
  /\ RenderArguments(arguments) = <<>> => arguments = <<>>
  /\ ReadsAs(C, ParsedFrom(C, ParseStart, RenderArguments(arguments)), arguments)

(* No arguments are rendered as no text, which is read as none.              *)
LEMMA RenderedEmpty ==
  ASSUME NEW C, HasSpecials(C)
  PROVE  RenderArguments(<<>>) = <<>> /\ RenderedAndRead(C, <<>>)
  <1>1. <<>> \in Seq(C) /\ <<>> \in Seq(Seq(C))
    OBVIOUS
  <1>2. RenderArguments(<<>>) = <<>>
    <2>1. IsScan(Seq(C), Seq(C), Rendering(C), <<>>, <<>>)
      BY <1>1, RenderingIs
    <2>2. RenderArguments(<<>>) = ScanOf(Rendering(C), <<>>, <<>>)
      BY <1>1, RenderScan
    <2>3. ScanOf(Rendering(C), <<>>, <<>>) = <<>>
      BY <2>1, ScanOfEmpty
    <2>. QED  BY <2>2, <2>3
  <1>3. ParsedFrom(C, ParseStart, <<>>) = ParseState(<<>>, <<>>, FALSE, Unquoted)
    BY ParseStartIs, ParsedEmpty
  <1>4. ReadsAs(C, ParsedFrom(C, ParseStart, <<>>), <<>>)
    BY <1>1, <1>3 DEF ReadsAs
  <1>. QED  BY <1>1, <1>2, <1>4 DEF RenderedAndRead

(* Rendering goes argument by argument.                                      *)
LEMMA RenderedNext ==
  ASSUME NEW C, HasSpecials(C), NEW arguments \in Seq(Seq(C)), NEW b \in Seq(C)
  PROVE  RenderArguments(arguments \o <<b>>) = RenderArgument(RenderArguments(arguments), b)
  <1>1. <<>> \in Seq(C) /\ arguments \o <<b>> \in Seq(Seq(C))
    OBVIOUS
  <1>2. IsScan(Seq(C), Seq(C), Rendering(C), <<>>, arguments)
    BY <1>1, RenderingIs
  <1> DEFINE r == ScanOf(Rendering(C), <<>>, arguments)
  <1>3. r \in Seq(C) /\ ScanOf(Rendering(C), <<>>, arguments \o <<b>>) = Rendering(C)[<<r, b>>]
    BY <1>2, ScanOfAppend, ScanOfType
  <1> HIDE DEF r
  <1>4. Rendering(C)[<<r, b>>] = RenderArgument(r, b)
    BY <1>3, RenderingStep
  <1>5. RenderArguments(arguments) = r /\ RenderArguments(arguments \o <<b>>) = ScanOf(Rendering(C), <<>>, arguments \o <<b>>)
    BY <1>1, RenderScan DEF r
  <1>. QED  BY <1>3, <1>4, <1>5

(* What is read up to the space before the next argument. *)
LEMMA ReadSpace ==
  ASSUME NEW C, HasSpecials(C), NEW arguments \in Seq(Seq(C)), RenderedAndRead(C, arguments),
         NEW w, w = IF RenderArguments(arguments) = <<>> THEN <<>> ELSE RenderArguments(arguments) \o <<Space>>
  PROVE  w \in Seq(C) /\ ParsedFrom(C, ParseStart, w) = ParseState(arguments, <<>>, FALSE, Unquoted)
  <1> DEFINE r == RenderArguments(arguments)
  <1>1. r \in Seq(C) /\ <<>> \in Seq(C) /\ <<Space>> \in Seq(C) /\ Space \in C
    BY DEF RenderedAndRead, HasSpecials
  <1>2. ParseStart \in ParseStates(C)
    BY ParseStartIs
  <1>3. PICK a \in Seq(Seq(C)), c \in Seq(C) :
          /\ ParsedFrom(C, ParseStart, r) = ParseState(a, c, FALSE, Unquoted)
          /\ arguments = IF c = <<>> THEN a ELSE Append(a, c)
    BY DEF RenderedAndRead, ReadsAs
  <1>4. r = <<>> => arguments = <<>>
    BY DEF RenderedAndRead
  <1> HIDE DEF r
  <1>5. CASE r = <<>>
    <2>1. w = <<>> /\ arguments = <<>>
      BY <1>4, <1>5 DEF r
    <2>2. ParsedFrom(C, ParseStart, <<>>) = ParseState(<<>>, <<>>, FALSE, Unquoted)
      BY ParseStartIs, ParsedEmpty
    <2>. QED  BY <1>1, <2>1, <2>2
  <1>6. CASE r # <<>>
    <2>1. w = r \o <<Space>> /\ w \in Seq(C)
      BY <1>1, <1>6 DEF r
    <2>2. ParsedFrom(C, ParseStart, w) = ParseCharacter(ParseState(a, c, FALSE, Unquoted), Space)
      <3> DEFINE q == ParseState(a, c, FALSE, Unquoted)
      <3>1. ParsedFrom(C, ParseStart, r) = q /\ r \in Seq(C) /\ Space \in C
        BY <1>1, <1>3
      <3> HIDE DEF q
      <3>2. ParsedFrom(C, ParseStart, r \o <<Space>>) = ParseCharacter(q, Space)
        BY <1>2, <3>1, ParsedNext
      <3>. QED  BY <2>1, <3>2 DEF q
    <2>3. ParsedFrom(C, ParseStart, w) = ParsedCharacter(a, c, FALSE, Unquoted, Space)
      BY <2>2, ParseStep
    <2>4. ParsedCharacter(a, c, FALSE, Unquoted, Space)
            = IF c = <<>> THEN ParseState(a, c, FALSE, Unquoted) ELSE ParseState(Append(a, c), <<>>, FALSE, Unquoted)
      BY DEF ParsedCharacter, Space, Single, Double, Backslash
    <2>5. CASE c = <<>>
      BY <1>3, <2>1, <2>3, <2>4, <2>5
    <2>6. CASE c # <<>>
      BY <1>3, <2>1, <2>3, <2>4, <2>6
    <2>. QED  BY <2>5, <2>6
  <1>. QED  BY <1>5, <1>6

(* Up to its last argument, every rendered line is read as what was          *)
(* rendered.                                                                 *)
LEMMA RenderedIsRead ==
  ASSUME NEW C, HasSpecials(C), NEW arguments \in Seq(Renderable(C))
  PROVE  RenderedAndRead(C, arguments)
  <1> DEFINE A == Renderable(C)
             Q == {l \in Seq(A) : RenderedAndRead(C, l)}
  <1>1. A \subseteq Seq(C)
    BY DEF Renderable
  <1>2. \A l \in Seq(A) : l \in Seq(Seq(C))
    <2> HIDE DEF A
    <2>. QED  BY <1>1
  <1>3. <<>> \in Q
    <2>1. <<>> \in Seq(A)
      OBVIOUS
    <2>. QED  BY <2>1, RenderedEmpty
  <1>4. ASSUME NEW l \in Q, NEW b \in A PROVE l \o <<b>> \in Q
    <2>1. l \in Seq(A) /\ l \o <<b>> \in Seq(A) /\ l \in Seq(Seq(C)) /\ RenderedAndRead(C, l)
      BY <1>2
    <2>2. b \in Seq(C) /\ b # <<>> /\ Single \notin ToSet(b)
      BY DEF Renderable
    <2> DEFINE w == IF RenderArguments(l) = <<>> THEN <<>> ELSE RenderArguments(l) \o <<Space>>
               quoted == QuoteArgument(b)
    <2> HIDE DEF Q, A
    <2>3. RenderArguments(l \o <<b>>) = w \o quoted
      BY <2>1, <2>2, RenderedNext DEF RenderArgument
    <2>4. w \in Seq(C) /\ ParsedFrom(C, ParseStart, w) = ParseState(l, <<>>, FALSE, Unquoted)
      BY <2>1, ReadSpace
    <2>5. /\ quoted \in Seq(C) /\ quoted # <<>>
          /\ ParsedFrom(C, ParseState(l, <<>>, FALSE, Unquoted), quoted) = ParseState(l, b, FALSE, Unquoted)
      BY <2>1, <2>2, ReadQuoted
    <2> HIDE DEF w, quoted
    <2>6. w \o quoted \in Seq(C) /\ w \o quoted # <<>>
      <3>1. Len(w \o quoted) = Len(w) + Len(quoted) /\ Len(w) \in Nat /\ Len(quoted) \in Nat \ {0}
        BY <2>4, <2>5, EmptySeq
      <3>. QED  BY <2>4, <2>5, <3>1
    <2>7. ParsedFrom(C, ParseStart, w \o quoted) = ParseState(l, b, FALSE, Unquoted)
      <3>1. ParseStart \in ParseStates(C)
        BY ParseStartIs
      <3>2. ParsedFrom(C, ParseStart, w \o quoted) = ParsedFrom(C, ParsedFrom(C, ParseStart, w), quoted)
        BY <2>4, <2>5, <3>1, ParsedConcat
      <3>. QED  BY <2>4, <2>5, <3>2
    <2>8. l \o <<b>> = Append(l, b)
      BY <2>1, <2>2, AppendIsConcat
    <2>9. ReadsAs(C, ParsedFrom(C, ParseStart, w \o quoted), l \o <<b>>)
      BY <2>1, <2>2, <2>7, <2>8 DEF ReadsAs
    <2>. QED  BY <2>1, <2>3, <2>6, <2>9 DEF RenderedAndRead, Q
  <1>5. Q = Seq(A)
    <2> HIDE DEF Q, A
    <2>1. Q \subseteq Seq(A)
      BY DEF Q
    <2>. QED  BY <1>3, <1>4, <2>1, SeqInduction
  <1>. QED  BY <1>5

(* Parsing the rendered line gives the arguments back. *)
LEMMA ParseOfRender ==
  ASSUME NEW C, HasSpecials(C), NEW arguments \in Seq(Renderable(C))
  PROVE  ParseText(RenderArguments(arguments)) = arguments
  <1> DEFINE text == RenderArguments(arguments)
             end == Scan(ParseCharacter, ParseStart, text)
  <1>1. RenderedAndRead(C, arguments)
    BY RenderedIsRead
  <1>2. text \in Seq(C)
    BY <1>1 DEF RenderedAndRead
  <1> HIDE DEF text
  <1>3. end = ParsedFrom(C, ParseStart, text)
    BY <1>2, ParseScan DEF ParsedFrom
  <1>4. PICK a \in Seq(Seq(C)), c \in Seq(C) :
          /\ end = ParseState(a, c, FALSE, Unquoted)
          /\ arguments = IF c = <<>> THEN a ELSE Append(a, c)
    BY <1>1, <1>3 DEF RenderedAndRead, ReadsAs, text
  <1>5. ParseText(text) = IF end.escaped \/ end.quote # Unquoted THEN Malformed ELSE Flush(end).arguments
    BY DEF ParseText
  <1> HIDE DEF end
  <1>6. end.arguments = a /\ end.current = c /\ ~end.escaped /\ end.quote = Unquoted
    BY <1>4 DEF ParseState
  <1>7. Flush(end).arguments = IF c = <<>> THEN a ELSE Append(a, c)
    <2>1. CASE c = <<>>
      BY <1>6, <2>1 DEF Flush
    <2>2. CASE c # <<>>
      <3>1. Flush(end) = [end EXCEPT !.arguments = Append(@, end.current), !.current = <<>>]
        BY <1>6, <2>2 DEF Flush
      <3>. QED  BY <1>4, <1>6, <2>2, <3>1 DEF ParseState
    <2>. QED  BY <2>1, <2>2
  <1>8. ParseText(text) = arguments
    BY <1>4, <1>5, <1>6, <1>7
  <1>. QED  BY <1>8 DEF text

-----------------------------------------------------------------------------
(***************************************************************************)
(* What the kernel reads of a rendered line.                               *)
(***************************************************************************)

(* The states in which the kernel reads characters of C. *)
KernelStates(C) == [arguments : Seq(Seq(C)), current : Seq(C), quoted : BOOLEAN]

KernelState(arguments, current, quoted) ==
  [arguments |-> arguments, current |-> current, quoted |-> quoted]

KernelStateOf(C, s) ==
  \E a \in Seq(Seq(C)), c \in Seq(C), q \in BOOLEAN : s = KernelState(a, c, q)

(* A record of these fields is a state of the kernel's scan.                 *)
LEMMA KernelStateIs ==
  ASSUME NEW C, NEW a \in Seq(Seq(C)), NEW c \in Seq(C), NEW q \in BOOLEAN
  PROVE  KernelState(a, c, q) \in KernelStates(C)
  BY DEF KernelState, KernelStates

(* A state of the kernel's scan is a record of these fields.                 *)
LEMMA KernelStatesAre ==
  ASSUME NEW C, NEW s \in KernelStates(C)
  PROVE  KernelStateOf(C, s)
  <1>1. s = KernelState(s.arguments, s.current, s.quoted)
    BY DEF KernelStates, KernelState
  <1>2. s.arguments \in Seq(Seq(C)) /\ s.current \in Seq(C) /\ s.quoted \in BOOLEAN
    BY DEF KernelStates
  <1>. QED  BY <1>1, <1>2 DEF KernelStateOf

(* One step of the kernel, by the fields. *)
KernelReadCharacter(a, c, q, ch) ==
  IF ch = Double THEN KernelState(a, c, ~q)
  ELSE IF ch # Space \/ q THEN KernelState(a, Append(c, ch), q)
  ELSE IF c = <<>> THEN KernelState(a, <<>>, q)
  ELSE KernelState(Append(a, c), <<>>, q)

(* A step of the kernel, by the fields.                                      *)
LEMMA KernelStep ==
  ASSUME NEW a, NEW c, NEW q, NEW ch
  PROVE  KernelCharacter(KernelState(a, c, q), ch) = KernelReadCharacter(a, c, q, ch)
  <1> DEFINE s == KernelState(a, c, q)
  <1> USE DEF KernelReadCharacter
  <1>1. s.arguments = a /\ s.current = c /\ s.quoted = q
    BY DEF KernelState
  <1>2. \A x : [s EXCEPT !.quoted = x] = KernelState(a, c, x)
    BY DEF KernelState
  <1>3. [s EXCEPT !.current = Append(@, ch)] = KernelState(a, Append(c, ch), q)
    BY DEF KernelState
  <1>4. \A x : [s EXCEPT !.arguments = x] = KernelState(x, c, q)
    BY DEF KernelState
  <1>5. \A x, y : [KernelState(x, c, q) EXCEPT !.current = y] = KernelState(x, y, q)
    BY DEF KernelState
  <1> HIDE DEF s
  <1>6. \A x, y : [s EXCEPT !.arguments = x, !.current = y] = [[s EXCEPT !.arguments = x] EXCEPT !.current = y]
    OBVIOUS
  <1>7. \A x, y : [s EXCEPT !.arguments = x, !.current = y] = KernelState(x, y, q)
    BY <1>4, <1>5, <1>6
  <1>8. CASE ch = Double
    <2>1. KernelCharacter(s, ch) = [s EXCEPT !.quoted = ~@]
      BY <1>8 DEF KernelCharacter
    <2>2. KernelCharacter(s, ch) = [s EXCEPT !.quoted = ~q]
      BY <1>1, <2>1
    <2>. QED  BY <1>2, <1>8, <2>2 DEF s
  <1>9. CASE ch # Double /\ (ch # Space \/ q)
    <2>1. KernelCharacter(s, ch) = [s EXCEPT !.current = Append(@, ch)]
      BY <1>1, <1>9 DEF KernelCharacter
    <2>. QED  BY <1>3, <1>9, <2>1 DEF s
  <1>10. CASE ch # Double /\ ~(ch # Space \/ q)
    <2>1. KernelCharacter(s, ch) = [s EXCEPT !.arguments = IF c = <<>> THEN a ELSE Append(a, c), !.current = <<>>]
      BY <1>1, <1>10 DEF KernelCharacter
    <2>2. KernelCharacter(s, ch) = KernelState(IF c = <<>> THEN a ELSE Append(a, c), <<>>, q)
      BY <1>7, <2>1
    <2>. QED  BY <1>10, <2>2 DEF s
  <1>. QED  BY <1>8, <1>9, <1>10

(* The step of the kernel as a function. *)
KernelReading(C) == [sc \in KernelStates(C) \X C |-> KernelCharacter(sc[1], sc[2])]

(* A step of that function is KernelCharacter.                               *)
LEMMA KernelReadingStep ==
  ASSUME NEW C, NEW s \in KernelStates(C), NEW ch \in C
  PROVE  KernelReading(C)[<<s, ch>>] = KernelCharacter(s, ch)
  BY DEF KernelReading

(* A step of the kernel keeps to the states.                                 *)
LEMMA KernelStepType ==
  ASSUME NEW C, NEW s \in KernelStates(C), NEW ch \in C
  PROVE  KernelCharacter(s, ch) \in KernelStates(C)
  <1>1. PICK a \in Seq(Seq(C)), c \in Seq(C), q \in BOOLEAN : s = KernelState(a, c, q)
    BY KernelStatesAre DEF KernelStateOf
  <1> DEFINE X == KernelStates(C)
  <1>2. Append(c, ch) \in Seq(C) /\ <<>> \in Seq(C) /\ Append(a, c) \in Seq(Seq(C))
    BY <1>1
  <1>3. \A a1 \in Seq(Seq(C)), c1 \in Seq(C), q1 \in BOOLEAN : KernelState(a1, c1, q1) \in X
    BY KernelStateIs
  <1> HIDE DEF X
  <1>4. KernelState(a, c, ~q) \in X /\ KernelState(a, Append(c, ch), q) \in X
    BY <1>1, <1>2, <1>3
  <1>5. KernelState(a, <<>>, q) \in X /\ KernelState(Append(a, c), <<>>, q) \in X
    BY <1>1, <1>2, <1>3
  <1>6. KernelCharacter(s, ch) = KernelReadCharacter(a, c, q, ch)
    BY <1>1, KernelStep
  <1>7. KernelCharacter(s, ch) \in X
    BY <1>4, <1>5, <1>6 DEF KernelReadCharacter
  <1>. QED  BY <1>7 DEF X

(* The kernel reads a text in a scan.                                        *)
LEMMA KernelReadingIs ==
  ASSUME NEW C, NEW s \in KernelStates(C), NEW text \in Seq(C)
  PROVE  IsScan(KernelStates(C), C, KernelReading(C), s, text)
  <1> DEFINE X == KernelStates(C)
  <1>1. \A t \in X, ch \in C : KernelCharacter(t, ch) \in X
    BY KernelStepType
  <1> HIDE DEF X
  <1>2. KernelReading(C) \in [X \X C -> X]
    BY <1>1 DEF KernelReading, X
  <1>. QED  BY <1>2 DEF IsScan, X

(* The kernel starts in one of its states.                                   *)
LEMMA KernelStartIs ==
  ASSUME NEW C
  PROVE  KernelStart = KernelState(<<>>, <<>>, FALSE) /\ KernelStart \in KernelStates(C)
  <1>1. KernelStart = KernelState(<<>>, <<>>, FALSE)
    BY DEF KernelStart, KernelState
  <1>2. <<>> \in Seq(C) /\ <<>> \in Seq(Seq(C))
    OBVIOUS
  <1>. QED  BY <1>1, <1>2, KernelStateIs

(* The scan of the kernel is the scan of that function. *)
LEMMA KernelScan ==
  ASSUME NEW C, NEW text \in Seq(C)
  PROVE  Scan(KernelCharacter, KernelStart, text) = ScanOf(KernelReading(C), KernelStart, text)
  <1> DEFINE T == CHOOSE g : g = [k \in 0..Len(text) |->
                                    IF k = 0 THEN KernelStart ELSE KernelCharacter(g[k-1], text[k])]
             G == KernelReading(C)
             X == KernelStates(C)
             E == C
             start == KernelStart
  <1>1. Scan(KernelCharacter, KernelStart, text) = T[Len(text)]
    BY DEF Scan
  <1>2. Len(text) \in Nat /\ \A k \in 1..Len(text) : text[k] \in E
    BY LenProperties
  <1>4. IsScan(X, E, G, start, text)
    BY KernelStartIs, KernelReadingIs
  <1>5. \A s \in X, z \in E : G[<<s, z>>] = KernelCharacter(s, z)
    BY KernelReadingStep
  <1>3. T = CHOOSE g : g = [k \in 0..Len(text) |-> IF k = 0 THEN start ELSE KernelCharacter(g[k-1], text[k])]
    OBVIOUS
  <1> HIDE DEF T, G, X, E, start
  <1>6. PICK f : Follows(f, X, G, start, text)
    BY <1>4, ScanExists
  <1>7. f = [k \in 0..Len(text) |-> IF k = 0 THEN start ELSE KernelCharacter(f[k-1], text[k])]
    <2>1. \A k \in 1..Len(text) : f[k-1] \in X /\ f[k] = KernelCharacter(f[k-1], text[k])
      <3> SUFFICES ASSUME NEW k \in 1..Len(text)
                   PROVE  f[k-1] \in X /\ f[k] = KernelCharacter(f[k-1], text[k])
        OBVIOUS
      <3>1. k - 1 \in 0..Len(text)
        BY <1>2
      <3>2. f[k-1] \in X /\ f[k] = G[<<f[k-1], text[k]>>]
        BY <1>6, <3>1 DEF Follows
      <3>. QED  BY <1>2, <1>5, <3>2
    <2>2. f \in [0..Len(text) -> X] /\ f[0] = start
      BY <1>6 DEF Follows
    <2>3. \A k \in 0..Len(text) : f[k] = IF k = 0 THEN start ELSE KernelCharacter(f[k-1], text[k])
      BY <1>2, <2>1, <2>2
    <2>. QED  BY <2>2, <2>3
  <1>8. T = [k \in 0..Len(text) |-> IF k = 0 THEN start ELSE KernelCharacter(T[k-1], text[k])]
    BY <1>3, <1>7
  <1>9. FollowsIn(T, X, G, start, text)
    <2>1. T[0] = start
      BY <1>2, <1>8
    <2>2. ASSUME NEW k \in 1..Len(text), T[k-1] \in X PROVE T[k] = G[<<T[k-1], text[k]>>]
      <3>1. T[k] = KernelCharacter(T[k-1], text[k])
        BY <1>2, <1>8
      <3>. QED  BY <1>2, <1>5, <2>2, <3>1
    <2>. QED  BY <2>1, <2>2 DEF FollowsIn
  <1>. QED  BY <1>1, <1>4, <1>9, ScanLink DEF G, start

(* What the kernel makes of a text that it reads from the state s. *)
KernelFrom(C, s, text) == ScanOf(KernelReading(C), s, text)

(* Nothing is read from an empty text.                                       *)
LEMMA KernelEmpty ==
  ASSUME NEW C, NEW s \in KernelStates(C)
  PROVE  KernelFrom(C, s, <<>>) = s
  <1>1. <<>> \in Seq(C)
    OBVIOUS
  <1>2. IsScan(KernelStates(C), C, KernelReading(C), s, <<>>)
    BY <1>1, KernelReadingIs
  <1>. QED  BY <1>2, ScanOfEmpty DEF KernelFrom

(* One more character is one more step.                                      *)
LEMMA KernelAppend ==
  ASSUME NEW C, NEW s \in KernelStates(C), NEW text \in Seq(C), NEW ch \in C
  PROVE  /\ KernelFrom(C, s, text) \in KernelStates(C)
         /\ KernelFrom(C, s, text \o <<ch>>) = KernelCharacter(KernelFrom(C, s, text), ch)
  <1>1. IsScan(KernelStates(C), C, KernelReading(C), s, text)
    BY KernelReadingIs
  <1>2. KernelFrom(C, s, text) \in KernelStates(C)
    BY <1>1, ScanOfType DEF KernelFrom
  <1>3. KernelFrom(C, s, text \o <<ch>>) = KernelReading(C)[<<KernelFrom(C, s, text), ch>>]
    BY <1>1, ScanOfAppend DEF KernelFrom
  <1>. QED  BY <1>2, <1>3, KernelReadingStep

(* The same, of a text of which the reading is known. *)
LEMMA KernelNext ==
  ASSUME NEW C, NEW s \in KernelStates(C), NEW text \in Seq(C), NEW ch \in C, NEW r,
         KernelFrom(C, s, text) = r
  PROVE  KernelFrom(C, s, text \o <<ch>>) = KernelCharacter(r, ch)
  <1>1. KernelFrom(C, s, text \o <<ch>>) = KernelCharacter(KernelFrom(C, s, text), ch)
    BY KernelAppend
  <1>. QED  BY <1>1, Zenon

(* A text is read after what is before it.                                   *)
LEMMA KernelConcat ==
  ASSUME NEW C, NEW s \in KernelStates(C), NEW t \in Seq(C), NEW u \in Seq(C)
  PROVE  KernelFrom(C, s, t \o u) = KernelFrom(C, KernelFrom(C, s, t), u)
  <1>1. IsScan(KernelStates(C), C, KernelReading(C), s, t)
    BY KernelReadingIs
  <1>. QED  BY <1>1, ScanOfConcat DEF KernelFrom

(* A text of one character is one step.                                      *)
LEMMA KernelOne ==
  ASSUME NEW C, NEW s \in KernelStates(C), NEW ch \in C
  PROVE  KernelFrom(C, s, <<ch>>) = KernelCharacter(s, ch)
  <1>1. <<>> \in Seq(C) /\ <<>> \o <<ch>> = <<ch>>
    OBVIOUS
  <1>2. KernelFrom(C, s, <<>> \o <<ch>>) = KernelCharacter(KernelFrom(C, s, <<>>), ch)
    BY <1>1, KernelAppend
  <1>. QED  BY <1>1, <1>2, KernelEmpty

(* Escaping goes character by character. *)
LEMMA EscapeNext ==
  ASSUME NEW C, HasSpecials(C), NEW t \in Seq(C), NEW ch \in C
  PROVE  /\ Scan(EscapeCharacter, <<>>, <<>>) = <<>>
         /\ Scan(EscapeCharacter, <<>>, t \o <<ch>>) = EscapeCharacter(Scan(EscapeCharacter, <<>>, t), ch)
  <1> DEFINE esc(u) == Scan(EscapeCharacter, <<>>, u)
  <1>1. <<>> \in Seq(C) /\ t \o <<ch>> \in Seq(C)
    OBVIOUS
  <1>2. \A u \in Seq(C) : esc(u) \in Seq(C) /\ esc(u) = ScanOf(Escaping(C), <<>>, u)
    BY QuoteType, EscapeScan
  <1>3. IsScan(Seq(C), C, Escaping(C), <<>>, t) /\ IsScan(Seq(C), C, Escaping(C), <<>>, <<>>)
    BY <1>1, EscapingIs
  <1>4. ScanOf(Escaping(C), <<>>, t \o <<ch>>) = Escaping(C)[<<ScanOf(Escaping(C), <<>>, t), ch>>]
    BY <1>3, ScanOfAppend
  <1>5. ScanOf(Escaping(C), <<>>, <<>>) = <<>>
    BY <1>3, ScanOfEmpty
  <1> HIDE DEF esc
  <1>6. Escaping(C)[<<esc(t), ch>>] = EscapeCharacter(esc(t), ch)
    BY <1>2, EscapingStep
  <1>7. esc(<<>>) = <<>> /\ esc(t \o <<ch>>) = EscapeCharacter(esc(t), ch)
    BY <1>1, <1>2, <1>4, <1>5, <1>6
  <1>. QED  BY <1>7 DEF esc

(* What holds no quote and no backslash is not escaped. *)
LEMMA EscapePlain ==
  ASSUME NEW C, HasSpecials(C), NEW b \in Seq(C \ {Double, Backslash})
  PROVE  Scan(EscapeCharacter, <<>>, b) = b
  <1> DEFINE esc(u) == Scan(EscapeCharacter, <<>>, u)
             P == C \ {Double, Backslash}
             Q == {t \in Seq(P) : esc(t) = t}
  <1>1. P \subseteq C /\ \A ch \in P : ch \notin {Double, Backslash}
    OBVIOUS
  <1>2. \A t \in Seq(P), ch \in P : t \in Seq(C) /\ ch \in C
    <2> HIDE DEF P
    <2>. QED  BY <1>1
  <1>3. \A t \in Seq(P), ch \in P : esc(<<>>) = <<>> /\ esc(t \o <<ch>>) = EscapeCharacter(esc(t), ch)
    BY <1>2, EscapeNext
  <1>4. esc(<<>>) = <<>>
    <2>1. Space \in C /\ <<>> \in Seq(C)
      BY DEF HasSpecials
    <2>. QED  BY <2>1, EscapeNext
  <1> HIDE DEF esc, P
  <1>5. <<>> \in Q
    BY <1>4
  <1>6. ASSUME NEW t \in Q, NEW ch \in P PROVE t \o <<ch>> \in Q
    <2>1. esc(t \o <<ch>>) = t \o <<ch>>
      BY <1>1, <1>3 DEF EscapeCharacter
    <2>. QED  BY <2>1
  <1>7. Q = Seq(P)
    <2> HIDE DEF Q
    <2>1. Q \subseteq Seq(P)
      BY DEF Q
    <2>. QED  BY <1>5, <1>6, <2>1, SeqInduction
  <1>. QED  BY <1>7 DEF esc, P

(* The kernel reads as it is what holds no double quote, and no space unless *)
(* it is within double quotes.                                               *)
LEMMA KernelReadPlain ==
  ASSUME NEW C, NEW a \in Seq(Seq(C)), NEW q \in BOOLEAN,
         NEW text \in Seq({ch \in C : ch # Double /\ (ch = Space => q)})
  PROVE  KernelFrom(C, KernelState(a, <<>>, q), text) = KernelState(a, text, q)
  <1> DEFINE s == KernelState(a, <<>>, q)
             P == {ch \in C : ch # Double /\ (ch = Space => q)}
             Q == {t \in Seq(P) : KernelFrom(C, s, t) = KernelState(a, t, q)}
  <1>1. s \in KernelStates(C)
    <2>1. <<>> \in Seq(C)
      OBVIOUS
    <2>. QED  BY <2>1, KernelStateIs
  <1>2. P \subseteq C
    OBVIOUS
  <1>3. \A t \in Seq(P) : t \in Seq(C)
    <2> HIDE DEF P
    <2>. QED  BY <1>2
  <1>4. <<>> \in Q
    <2>1. <<>> \in Seq(P)
      OBVIOUS
    <2>2. KernelFrom(C, s, <<>>) = s
      <3> HIDE DEF s
      <3>. QED  BY <1>1, KernelEmpty
    <2>. QED  BY <2>1, <2>2
  <1>5. ASSUME NEW t \in Q, NEW ch \in P PROVE t \o <<ch>> \in Q
    <2>1. t \in Seq(P) /\ t \in Seq(C) /\ ch \in C /\ t \o <<ch>> \in Seq(P)
      BY <1>2, <1>3
    <2>2. ch # Double /\ (ch = Space => q)
      OBVIOUS
    <2>3. KernelFrom(C, s, t) = KernelState(a, t, q)
      OBVIOUS
    <2>4. KernelFrom(C, s, t \o <<ch>>) = KernelReadCharacter(a, t, q, ch)
      <3> HIDE DEF Q, s, P
      <3>1. KernelFrom(C, s, t \o <<ch>>) = KernelCharacter(KernelState(a, t, q), ch)
        <4> DEFINE r == KernelState(a, t, q)
        <4>1. s \in KernelStates(C) /\ t \in Seq(C) /\ KernelFrom(C, s, t) = r /\ ch \in C
          BY <1>1, <2>1, <2>3
        <4> HIDE DEF r
        <4>2. KernelFrom(C, s, t \o <<ch>>) = KernelCharacter(r, ch)
          BY <4>1, KernelNext
        <4>. QED  BY <4>2 DEF r
      <3>. QED  BY <3>1, KernelStep
    <2>5. KernelFrom(C, s, t \o <<ch>>) = KernelState(a, Append(t, ch), q)
      BY <2>2, <2>4 DEF KernelReadCharacter
    <2>6. Append(t, ch) = t \o <<ch>>
      BY <2>1, AppendIsConcat
    <2>. QED  BY <2>1, <2>5, <2>6
  <1>6. Q = Seq(P)
    <2> HIDE DEF Q, P
    <2>1. Q \subseteq Seq(P)
      BY DEF Q
    <2>. QED  BY <1>4, <1>5, <2>1, SeqInduction
  <1>. QED  BY <1>6

(* A sequence of some of the characters. *)
LEMMA SeqOfSome ==
  ASSUME NEW C, NEW b \in Seq(C), NEW P, \A ch \in ToSet(b) : ch \in C => ch \in P
  PROVE  b \in Seq(P)
  <1>1. \A i \in 1..Len(b) : b[i] \in C /\ b[i] \in ToSet(b)
    BY DEF ToSet
  <1>2. Len(b) \in Nat /\ b = [i \in 1..Len(b) |-> b[i]]
    OBVIOUS
  <1>3. b \in [1..Len(b) -> P]
    BY <1>1, <1>2
  <1>. QED  BY <1>2, <1>3

(* What the kernel takes a quoted argument for. *)
LEMMA KernelReadQuoted ==
  ASSUME NEW C, HasSpecials(C), NEW a \in Seq(Seq(C)), NEW b \in Seq(C),
         ToSet(b) \cap {Double, Backslash} = {}
  PROVE  KernelFrom(C, KernelState(a, <<>>, FALSE), QuoteArgument(b)) = KernelState(a, b, FALSE)
  <1> DEFINE s == KernelState(a, <<>>, FALSE)
             inside == KernelState(a, <<>>, TRUE)
             read == KernelState(a, b, TRUE)
             X == KernelStates(C)
  <1>1. s \in X /\ inside \in X /\ read \in X
    <2>1. <<>> \in Seq(C)
      OBVIOUS
    <2>. QED  BY <2>1, KernelStateIs
  <1>2. CASE ToSet(b) \cap {Space, Double, Backslash} = {}
    <2>1. QuoteArgument(b) = b
      BY <1>2 DEF QuoteArgument
    <2>2. \A ch \in ToSet(b) : ch \in C => ch \in {d \in C : d # Double /\ (d = Space => FALSE)}
      BY <1>2
    <2>3. b \in Seq({d \in C : d # Double /\ (d = Space => FALSE)})
      BY <2>2, SeqOfSome
    <2>. QED  BY <2>1, <2>3, KernelReadPlain
  <1>3. CASE ToSet(b) \cap {Space, Double, Backslash} # {}
    <2>1. b \in Seq(C \ {Double, Backslash})
      <3>1. \A ch \in ToSet(b) : ch \in C => ch \in C \ {Double, Backslash}
        OBVIOUS
      <3>. QED  BY <3>1, SeqOfSome
    <2>2. b \in Seq({d \in C : d # Double /\ (d = Space => TRUE)})
      <3>1. \A ch \in ToSet(b) : ch \in C => ch \in {d \in C : d # Double /\ (d = Space => TRUE)}
        OBVIOUS
      <3>. QED  BY <3>1, SeqOfSome
    <2>3. QuoteArgument(b) = (<<Double>> \o b) \o <<Double>>
      <3>1. Scan(EscapeCharacter, <<>>, b) = b
        BY <2>1, EscapePlain
      <3>2. QuoteArgument(b) = (<<Double>> \o Scan(EscapeCharacter, <<>>, b)) \o <<Double>>
        BY <1>3 DEF QuoteArgument
      <3>. QED  BY <3>1, <3>2
    <2>4. Double \in C /\ <<Double>> \in Seq(C) /\ <<Double>> \o b \in Seq(C)
      BY DEF HasSpecials
    <2> HIDE DEF s, inside, read, X
    <2>5. KernelFrom(C, s, <<Double>>) = inside
      <3>1. KernelFrom(C, s, <<Double>>) = KernelCharacter(s, Double)
        BY <1>1, <2>4, KernelOne DEF X
      <3>2. KernelCharacter(s, Double) = KernelReadCharacter(a, <<>>, FALSE, Double)
        BY KernelStep DEF s
      <3>3. KernelReadCharacter(a, <<>>, FALSE, Double) = inside
        BY DEF KernelReadCharacter, inside
      <3>. QED  BY <3>1, <3>2, <3>3
    <2>6. KernelFrom(C, s, <<Double>> \o b) = read
      <3>1. KernelFrom(C, s, <<Double>> \o b) = KernelFrom(C, inside, b)
        <4> DEFINE q == <<Double>>
        <4>1. s \in KernelStates(C) /\ q \in Seq(C) /\ KernelFrom(C, s, q) = inside
          BY <1>1, <2>4, <2>5 DEF X
        <4> HIDE DEF q
        <4>2. KernelFrom(C, s, q \o b) = KernelFrom(C, KernelFrom(C, s, q), b)
          BY <4>1, KernelConcat
        <4>. QED  BY <4>1, <4>2 DEF q
      <3>2. KernelFrom(C, inside, b) = read
        BY <2>2, KernelReadPlain DEF inside, read
      <3>. QED  BY <3>1, <3>2
    <2>7. KernelFrom(C, s, (<<Double>> \o b) \o <<Double>>) = KernelState(a, b, FALSE)
      <3>1. KernelFrom(C, s, (<<Double>> \o b) \o <<Double>>) = KernelCharacter(read, Double)
        <4> DEFINE u == <<Double>> \o b
        <4>1. s \in KernelStates(C) /\ u \in Seq(C) /\ KernelFrom(C, s, u) = read /\ Double \in C
          BY <1>1, <2>4, <2>6 DEF X
        <4> HIDE DEF u
        <4>2. KernelFrom(C, s, u \o <<Double>>) = KernelCharacter(read, Double)
          BY <4>1, KernelNext
        <4>. QED  BY <4>2 DEF u
      <3>2. KernelCharacter(read, Double) = KernelReadCharacter(a, b, TRUE, Double)
        BY KernelStep DEF read
      <3>3. KernelReadCharacter(a, b, TRUE, Double) = KernelState(a, b, FALSE)
        BY DEF KernelReadCharacter
      <3>. QED  BY <3>1, <3>2, <3>3
    <2>. QED  BY <2>3, <2>7 DEF s
  <1>. QED  BY <1>2, <1>3

(* A quoted argument is empty only when the argument is. *)
LEMMA QuotedNotEmpty ==
  ASSUME NEW C, HasSpecials(C), NEW b \in Seq(C), b # <<>>
  PROVE  QuoteArgument(b) # <<>>
  <1>1. CASE ToSet(b) \cap {Space, Double, Backslash} = {}
    BY <1>1 DEF QuoteArgument
  <1>2. CASE ToSet(b) \cap {Space, Double, Backslash} # {}
    <2> DEFINE esc == Scan(EscapeCharacter, <<>>, b)
    <2>1. QuoteArgument(b) = (<<Double>> \o esc) \o <<Double>>
      BY <1>2 DEF QuoteArgument
    <2>2. esc \in Seq(C) /\ Double \in C
      BY QuoteType DEF HasSpecials
    <2> HIDE DEF esc
    <2>3. <<Double>> \in Seq(C) /\ <<Double>> \o esc \in Seq(C)
      BY <2>2
    <2>. QED  BY <2>1, <2>3
  <1>. QED  BY <1>1, <1>2

(* The arguments that the kernel reads from the line that is rendered. *)
KernelRenderable(C) == {b \in Seq(C) : b # <<>> /\ ToSet(b) \cap {Double, Backslash} = {}}

(* What the kernel has of a line is its last argument and those before it. *)
KernelHas(C, s, arguments) ==
  \E a \in Seq(Seq(C)), c \in Seq(C) :
    /\ s = KernelState(a, c, FALSE)
    /\ arguments = IF c = <<>> THEN a ELSE Append(a, c)

KernelRendered(C, arguments) ==
  /\ RenderArguments(arguments) \in Seq(C)
  /\ RenderArguments(arguments) = <<>> => arguments = <<>>
  /\ KernelHas(C, KernelFrom(C, KernelStart, RenderArguments(arguments)), arguments)

(* No arguments are rendered as no text, in which the kernel finds none.     *)
LEMMA KernelRenderedEmpty ==
  ASSUME NEW C, HasSpecials(C)
  PROVE  KernelRendered(C, <<>>)
  <1>1. <<>> \in Seq(C) /\ <<>> \in Seq(Seq(C))
    OBVIOUS
  <1>2. RenderArguments(<<>>) = <<>>
    BY RenderedEmpty
  <1>3. KernelFrom(C, KernelStart, <<>>) = KernelState(<<>>, <<>>, FALSE)
    BY KernelStartIs, KernelEmpty
  <1>4. KernelHas(C, KernelFrom(C, KernelStart, <<>>), <<>>)
    BY <1>1, <1>3 DEF KernelHas
  <1>. QED  BY <1>1, <1>2, <1>4 DEF KernelRendered

(* A space completes the last argument. *)
LEMMA KernelSpace ==
  ASSUME NEW C, HasSpecials(C), NEW arguments, NEW r \in Seq(C),
         KernelHas(C, KernelFrom(C, KernelStart, r), arguments)
  PROVE  KernelFrom(C, KernelStart, r \o <<Space>>) = KernelState(arguments, <<>>, FALSE)
  <1>1. Space \in C /\ KernelStart \in KernelStates(C)
    BY KernelStartIs DEF HasSpecials
  <1>2. PICK a \in Seq(Seq(C)), c \in Seq(C) :
          /\ KernelFrom(C, KernelStart, r) = KernelState(a, c, FALSE)
          /\ arguments = IF c = <<>> THEN a ELSE Append(a, c)
    BY DEF KernelHas
  <1>3. KernelFrom(C, KernelStart, r \o <<Space>>) = KernelCharacter(KernelState(a, c, FALSE), Space)
    <2> DEFINE q == KernelState(a, c, FALSE)
    <2>1. KernelFrom(C, KernelStart, r) = q
      BY <1>2
    <2> HIDE DEF q
    <2>2. KernelFrom(C, KernelStart, r \o <<Space>>) = KernelCharacter(q, Space)
      BY <1>1, <2>1, KernelNext
    <2>. QED  BY <2>2 DEF q
  <1>4. KernelFrom(C, KernelStart, r \o <<Space>>) = KernelReadCharacter(a, c, FALSE, Space)
    BY <1>3, KernelStep
  <1>5. KernelReadCharacter(a, c, FALSE, Space)
          = IF c = <<>> THEN KernelState(a, <<>>, FALSE) ELSE KernelState(Append(a, c), <<>>, FALSE)
    BY DEF KernelReadCharacter, Space, Double
  <1>6. CASE c = <<>>
    BY <1>2, <1>4, <1>5, <1>6
  <1>7. CASE c # <<>>
    BY <1>2, <1>4, <1>5, <1>7
  <1>. QED  BY <1>6, <1>7

(* Up to its last argument, the kernel reads every rendered line as what was *)
(* rendered.                                                                 *)
LEMMA KernelRenderedIs ==
  ASSUME NEW C, HasSpecials(C), NEW arguments \in Seq(KernelRenderable(C))
  PROVE  KernelRendered(C, arguments)
  <1> DEFINE A == KernelRenderable(C)
             Q == {l \in Seq(A) : KernelRendered(C, l)}
  <1>1. A \subseteq Seq(C)
    BY DEF KernelRenderable
  <1>2. \A l \in Seq(A) : l \in Seq(Seq(C))
    <2> HIDE DEF A
    <2>. QED  BY <1>1
  <1>3. <<>> \in Q
    <2>1. <<>> \in Seq(A)
      OBVIOUS
    <2>. QED  BY <2>1, KernelRenderedEmpty
  <1>4. ASSUME NEW l \in Q, NEW b \in A PROVE l \o <<b>> \in Q
    <2>1. l \in Seq(A) /\ l \o <<b>> \in Seq(A) /\ l \in Seq(Seq(C)) /\ KernelRendered(C, l)
      BY <1>2
    <2>2. b \in Seq(C) /\ b # <<>> /\ ToSet(b) \cap {Double, Backslash} = {}
      BY DEF KernelRenderable
    <2> DEFINE r == RenderArguments(l)
               w == IF r = <<>> THEN <<>> ELSE r \o <<Space>>
               quoted == QuoteArgument(b)
    <2> HIDE DEF Q, A
    <2>3. RenderArguments(l \o <<b>>) = w \o quoted
      BY <2>1, <2>2, RenderedNext DEF RenderArgument
    <2>4. w \in Seq(C) /\ KernelFrom(C, KernelStart, w) = KernelState(l, <<>>, FALSE)
      <3>1. r \in Seq(C) /\ <<>> \in Seq(C) /\ r \o <<Space>> \in Seq(C)
        BY <2>1 DEF KernelRendered, HasSpecials
      <3>2. CASE r = <<>>
        <4>1. w = <<>> /\ l = <<>>
          BY <2>1, <3>2 DEF KernelRendered
        <4>2. KernelFrom(C, KernelStart, <<>>) = KernelState(<<>>, <<>>, FALSE)
          BY KernelStartIs, KernelEmpty
        <4>. QED  BY <3>1, <4>1, <4>2
      <3>3. CASE r # <<>>
        <4>1. w = r \o <<Space>>
          BY <3>3
        <4>2. KernelHas(C, KernelFrom(C, KernelStart, r), l)
          BY <2>1 DEF KernelRendered
        <4> HIDE DEF r, w
        <4>. QED  BY <3>1, <4>1, <4>2, KernelSpace
      <3>. QED  BY <3>2, <3>3
    <2>5. /\ quoted \in Seq(C) /\ quoted # <<>>
          /\ KernelFrom(C, KernelState(l, <<>>, FALSE), quoted) = KernelState(l, b, FALSE)
      <3>1. quoted \in Seq(C)
        BY <2>2, QuoteType
      <3>2. quoted # <<>>
        BY <2>2, QuotedNotEmpty
      <3>. QED  BY <2>1, <2>2, <3>1, <3>2, KernelReadQuoted
    <2> HIDE DEF w, quoted
    <2>6. w \o quoted \in Seq(C) /\ w \o quoted # <<>>
      <3>1. Len(w \o quoted) = Len(w) + Len(quoted) /\ Len(w) \in Nat /\ Len(quoted) \in Nat \ {0}
        BY <2>4, <2>5, EmptySeq
      <3>. QED  BY <2>4, <2>5, <3>1
    <2>7. KernelFrom(C, KernelStart, w \o quoted) = KernelState(l, b, FALSE)
      <3>1. KernelStart \in KernelStates(C)
        BY KernelStartIs
      <3>2. KernelFrom(C, KernelStart, w \o quoted) = KernelFrom(C, KernelFrom(C, KernelStart, w), quoted)
        BY <2>4, <2>5, <3>1, KernelConcat
      <3>. QED  BY <2>4, <2>5, <3>2
    <2>8. l \o <<b>> = Append(l, b)
      BY <2>1, <2>2, AppendIsConcat
    <2>9. KernelHas(C, KernelFrom(C, KernelStart, w \o quoted), l \o <<b>>)
      BY <2>1, <2>2, <2>7, <2>8 DEF KernelHas
    <2>. QED  BY <2>1, <2>3, <2>6, <2>9 DEF KernelRendered, Q
  <1>5. Q = Seq(A)
    <2> HIDE DEF Q, A
    <2>1. Q \subseteq Seq(A)
      BY DEF Q
    <2>. QED  BY <1>3, <1>4, <2>1, SeqInduction
  <1>. QED  BY <1>5

(* The kernel reads the rendered line as the arguments. *)
LEMMA KernelOfRender ==
  ASSUME NEW C, HasSpecials(C), NEW arguments \in Seq(KernelRenderable(C))
  PROVE  KernelReads(RenderArguments(arguments)) = arguments
  <1> DEFINE text == RenderArguments(arguments)
             read == KernelFrom(C, KernelStart, text \o <<Space>>)
  <1>1. KernelRendered(C, arguments)
    BY KernelRenderedIs
  <1>2. text \in Seq(C) /\ text \o <<Space>> \in Seq(C) /\ Append(text, Space) = text \o <<Space>>
    <2>1. text \in Seq(C) /\ Space \in C
      BY <1>1 DEF KernelRendered, HasSpecials
    <2> HIDE DEF text
    <2>. QED  BY <2>1, AppendIsConcat
  <1>3. KernelHas(C, KernelFrom(C, KernelStart, text), arguments)
    BY <1>1 DEF KernelRendered
  <1> HIDE DEF text
  <1>4. read = KernelState(arguments, <<>>, FALSE)
    BY <1>2, <1>3, KernelSpace
  <1>5. Scan(KernelCharacter, KernelStart, text \o <<Space>>) = read
    BY <1>2, KernelScan DEF KernelFrom
  <1>6. KernelReads(text) = Scan(KernelCharacter, KernelStart, text \o <<Space>>).arguments
    BY <1>2 DEF KernelReads
  <1> HIDE DEF read
  <1>7. KernelReads(text) = arguments
    BY <1>4, <1>5, <1>6 DEF KernelState
  <1>. QED  BY <1>7 DEF text

(* The arguments of a sample line are sample arguments. *)
LinesHaveArguments == sample.of = "line" => sample.arguments \in Seq(Arguments)

(* All characters of arguments. *)
CharactersOf(arguments) == UNION {ToSet(arguments[i]) : i \in DOMAIN arguments}

(* The arguments of a line are sequences of its characters, and none is      *)
(* empty.                                                                    *)
LEMMA ArgumentsOfCharacters ==
  ASSUME NEW arguments \in Seq(Arguments)
  PROVE  LET C == CharactersOf(arguments) \cup {Space, Single, Double, Backslash} IN
         /\ HasSpecials(C)
         /\ Single \notin CharactersOf(arguments) => arguments \in Seq(Renderable(C))
         /\ CharactersOf(arguments) \cap {Double, Backslash} = {} => arguments \in Seq(KernelRenderable(C))
  <1> DEFINE D == CharactersOf(arguments)
             C == D \cup {Space, Single, Double, Backslash}
  <1>1. HasSpecials(C)
    BY DEF HasSpecials
  <1>2. ASSUME NEW i \in DOMAIN arguments
        PROVE  arguments[i] # <<>> /\ arguments[i] \in Seq(C) /\ ToSet(arguments[i]) \subseteq D
    <2> DEFINE a == arguments[i]
    <2>1. a \in Arguments
      OBVIOUS
    <2>2. a # <<>> /\ a \in Seq(ToSet(a))
      BY <2>1, ArgumentsAssumption
    <2>3. ToSet(a) \subseteq D
      BY DEF CharactersOf
    <2>4. ToSet(a) \subseteq C
      BY <2>3
    <2> HIDE DEF a, C, D
    <2>5. a \in Seq(C)
      <3> DEFINE S == ToSet(a)
      <3> HIDE DEF S
      <3>1. a \in Seq(S) /\ S \subseteq C
        BY <2>2, <2>4 DEF S
      <3>. QED  BY <3>1
    <2>. QED  BY <2>2, <2>3, <2>5 DEF a
  <1>3. Len(arguments) \in Nat /\ DOMAIN arguments = 1..Len(arguments)
        /\ arguments = [i \in 1..Len(arguments) |-> arguments[i]]
    OBVIOUS
  <1> HIDE DEF C, D
  <1>4. ASSUME Single \notin D PROVE arguments \in Seq(Renderable(C))
    <2>1. \A i \in 1..Len(arguments) : arguments[i] \in Renderable(C)
      BY <1>2, <1>3, <1>4 DEF Renderable
    <2>2. arguments \in [1..Len(arguments) -> Renderable(C)]
      BY <1>3, <2>1
    <2>. QED  BY <1>3, <2>2
  <1>5. ASSUME D \cap {Double, Backslash} = {} PROVE arguments \in Seq(KernelRenderable(C))
    <2>1. \A i \in 1..Len(arguments) : arguments[i] \in KernelRenderable(C)
      BY <1>2, <1>3, <1>5 DEF KernelRenderable
    <2>2. arguments \in [1..Len(arguments) -> KernelRenderable(C)]
      BY <1>3, <2>1
    <2>. QED  BY <1>3, <2>2
  <1>. QED  BY <1>1, <1>4, <1>5 DEF C, D

(* The arguments of a line come back from the text that is rendered of them, *)
(* for any arguments and any number of them, unless they hold a single       *)
(* quote; and the kernel reads the same unless they hold a double quote or a *)
(* backslash (KernelCommandLine::parse and render).                          *)
THEOREM RenderedLineIsReadAlways == TextSpec => []RenderedLineIsRead
  <1>1. TextInit => LinesHaveArguments
    BY DEF TextInit, NoSample, LinesHaveArguments
  <1>2. LinesHaveArguments /\ [TextNext]_sample => LinesHaveArguments'
    <2> SUFFICES ASSUME LinesHaveArguments, [TextNext]_sample PROVE LinesHaveArguments'
      OBVIOUS
    <2> USE SampleAssumption
    <2>1. CASE RenderLine
      <3>1. PICK n \in 0..MaxArguments : \E l \in [1..n -> Arguments] : sample' = [of |-> "line", arguments |-> l]
        BY <2>1 DEF RenderLine
      <3>0. PICK arguments \in [1..n -> Arguments] : sample' = [of |-> "line", arguments |-> arguments]
        BY <3>1
      <3>2. arguments \in Seq(Arguments)
        BY <3>0
      <3>. QED  BY <3>0, <3>2 DEF LinesHaveArguments
    <2>2. CASE ShowConfig
      BY <2>2 DEF ShowConfig, LinesHaveArguments
    <2>3. CASE ListSnapper
      BY <2>3 DEF ListSnapper, LinesHaveArguments
    <2>4. CASE ShowDiff
      BY <2>4 DEF ShowDiff, LinesHaveArguments
    <2>5. CASE UNCHANGED sample
      BY <2>5 DEF LinesHaveArguments
    <2>. QED  BY <2>1, <2>2, <2>3, <2>4, <2>5 DEF TextNext
  <1>3. LinesHaveArguments => RenderedLineIsRead
    <2> SUFFICES ASSUME LinesHaveArguments, sample.of = "line" PROVE RenderedLineIsRead
      BY DEF RenderedLineIsRead
    <2> DEFINE arguments == sample.arguments
               text == RenderArguments(arguments)
               D == CharactersOf(arguments)
               C == D \cup {Space, Single, Double, Backslash}
    <2>1. arguments \in Seq(Arguments)
      BY DEF LinesHaveArguments
    <2>2. /\ HasSpecials(C)
          /\ Single \notin D => arguments \in Seq(Renderable(C))
          /\ D \cap {Double, Backslash} = {} => arguments \in Seq(KernelRenderable(C))
      <3> HIDE DEF arguments
      <3>. QED  BY <2>1, ArgumentsOfCharacters
    <2> HIDE DEF C
    <2>3. Single \notin D => ParseText(text) = arguments
      BY <2>2, ParseOfRender
    <2>4. D \cap {Double, Backslash} = {} => KernelReads(text) = arguments
      BY <2>2, KernelOfRender
    <2>. QED  BY <2>3, <2>4 DEF RenderedLineIsRead, CharactersOf
  <1>. QED  BY <1>1, <1>2, <1>3, PTL DEF TextSpec

-----------------------------------------------------------------------------
(***************************************************************************)
(* parse_csv_row, as a scan.                                               *)
(***************************************************************************)

(* The states in which parse_csv_row reads characters of C. *)
CsvModes == {"plain", "quoted", "ending"}
CsvStates(C) == [fields : Seq(Seq(C)), field : Seq(C), mode : CsvModes]

(* A record of these fields is a state of parse_csv_row.                     *)
LEMMA CsvStateIs ==
  ASSUME NEW C, NEW f \in Seq(Seq(C)), NEW g \in Seq(C), NEW m \in CsvModes
  PROVE  Reading(f, g, m) \in CsvStates(C)
  BY DEF Reading, CsvStates

CsvStateOf(C, s) == \E f \in Seq(Seq(C)), g \in Seq(C), m \in CsvModes : s = Reading(f, g, m)

(* A state of parse_csv_row is a record of these fields.                     *)
LEMMA CsvStatesAre ==
  ASSUME NEW C, NEW s \in CsvStates(C)
  PROVE  CsvStateOf(C, s)
  <1>1. s = Reading(s.fields, s.field, s.mode)
    BY DEF CsvStates, Reading
  <1>2. s.fields \in Seq(Seq(C)) /\ s.field \in Seq(C) /\ s.mode \in CsvModes
    BY DEF CsvStates
  <1>. QED  BY <1>1, <1>2 DEF CsvStateOf

(* One step of parse_csv_row, by the fields. *)
CsvReadCharacter(f, g, m, ch) ==
  IF m = "quoted"
  THEN IF ch = QuoteMark THEN Reading(f, g, "ending") ELSE Reading(f, Append(g, ch), "quoted")
  ELSE IF ch = QuoteMark
  THEN IF m = "ending" THEN Reading(f, Append(g, ch), "quoted") ELSE Reading(f, g, "quoted")
  ELSE IF ch = Comma THEN Reading(Append(f, g), <<>>, "plain")
  ELSE Reading(f, Append(g, ch), "plain")

(* A step of parse_csv_row, by the fields.                                   *)
LEMMA CsvStep ==
  ASSUME NEW f, NEW g, NEW m, NEW ch
  PROVE  ReadCharacter(Reading(f, g, m), ch) = CsvReadCharacter(f, g, m, ch)
  <1> DEFINE s == Reading(f, g, m)
  <1>1. s.fields = f /\ s.field = g /\ s.mode = m
    BY DEF Reading
  <1> HIDE DEF s
  <1>2. ReadCharacter(s, ch) = CsvReadCharacter(f, g, m, ch)
    BY <1>1 DEF ReadCharacter, CsvReadCharacter
  <1>. QED  BY <1>2 DEF s

(* A step of parse_csv_row keeps to the states.                              *)
LEMMA ReadCharacterType ==
  ASSUME NEW C, NEW s \in CsvStates(C), NEW ch \in C
  PROVE  ReadCharacter(s, ch) \in CsvStates(C)
  <1>1. PICK f \in Seq(Seq(C)), g \in Seq(C), m \in CsvModes : s = Reading(f, g, m)
    BY CsvStatesAre DEF CsvStateOf
  <1> DEFINE X == CsvStates(C)
  <1>2. Append(g, ch) \in Seq(C) /\ <<>> \in Seq(C) /\ Append(f, g) \in Seq(Seq(C))
    BY <1>1
  <1>3. \A f1 \in Seq(Seq(C)), g1 \in Seq(C), m1 \in CsvModes : Reading(f1, g1, m1) \in X
    BY CsvStateIs
  <1> HIDE DEF X
  <1>4. "plain" \in CsvModes /\ "quoted" \in CsvModes /\ "ending" \in CsvModes
    BY DEF CsvModes
  <1>5. /\ Reading(f, g, "ending") \in X /\ Reading(f, g, "quoted") \in X
        /\ Reading(f, Append(g, ch), "quoted") \in X /\ Reading(f, Append(g, ch), "plain") \in X
        /\ Reading(Append(f, g), <<>>, "plain") \in X
    BY <1>1, <1>2, <1>3, <1>4
  <1>6. ReadCharacter(s, ch) = CsvReadCharacter(f, g, m, ch)
    BY <1>1, CsvStep
  <1>7. ReadCharacter(s, ch) \in X
    BY <1>5, <1>6 DEF CsvReadCharacter
  <1>. QED  BY <1>7 DEF X

(* The step of parse_csv_row as a function. *)
CsvReading(C) == [se \in CsvStates(C) \X C |-> ReadCharacter(se[1], se[2])]

(* A step of that function is ReadCharacter.                                 *)
LEMMA CsvReadingStep ==
  ASSUME NEW C, NEW s \in CsvStates(C), NEW e \in C
  PROVE  CsvReading(C)[<<s, e>>] = ReadCharacter(s, e)
  BY DEF CsvReading

(* parse_csv_row reads a row in a scan.                                      *)
LEMMA CsvReadingIs ==
  ASSUME NEW C, NEW s \in CsvStates(C), NEW text \in Seq(C)
  PROVE  IsScan(CsvStates(C), C, CsvReading(C), s, text)
  <1> DEFINE X == CsvStates(C)
             E == C
  <1>1. \A t \in X, e \in E : ReadCharacter(t, e) \in X
    BY ReadCharacterType
  <1> HIDE DEF X, E
  <1>2. CsvReading(C) \in [X \X E -> X]
    BY <1>1 DEF CsvReading, X, E
  <1>. QED  BY <1>2 DEF IsScan, X, E

(* The loop is the scan of that function. *)
LEMMA CsvReadingScan ==
  ASSUME NEW C, NEW s \in CsvStates(C), NEW text \in Seq(C)
  PROVE  Scan(ReadCharacter, s, text) = ScanOf(CsvReading(C), s, text)
  <1> DEFINE T == CHOOSE g : g = [k \in 0..Len(text) |->
                                    IF k = 0 THEN s ELSE ReadCharacter(g[k-1], text[k])]
             G == CsvReading(C)
             X == CsvStates(C)
             E == C
  <1>1. Scan(ReadCharacter, s, text) = T[Len(text)]
    BY DEF Scan
  <1>2. Len(text) \in Nat /\ \A k \in 1..Len(text) : text[k] \in E
    BY LenProperties
  <1>4. IsScan(X, E, G, s, text)
    BY CsvReadingIs
  <1>5. \A t \in X, z \in E : G[<<t, z>>] = ReadCharacter(t, z)
    BY CsvReadingStep
  <1>3. T = CHOOSE g : g = [k \in 0..Len(text) |-> IF k = 0 THEN s ELSE ReadCharacter(g[k-1], text[k])]
    OBVIOUS
  <1> HIDE DEF T, G, X, E
  <1>6. PICK f : Follows(f, X, G, s, text)
    BY <1>4, ScanExists
  <1>7. f = [k \in 0..Len(text) |-> IF k = 0 THEN s ELSE ReadCharacter(f[k-1], text[k])]
    <2>1. \A k \in 1..Len(text) : f[k-1] \in X /\ f[k] = ReadCharacter(f[k-1], text[k])
      <3> SUFFICES ASSUME NEW k \in 1..Len(text)
                   PROVE  f[k-1] \in X /\ f[k] = ReadCharacter(f[k-1], text[k])
        OBVIOUS
      <3>1. k - 1 \in 0..Len(text)
        BY <1>2
      <3>2. f[k-1] \in X /\ f[k] = G[<<f[k-1], text[k]>>]
        BY <1>6, <3>1 DEF Follows
      <3>. QED  BY <1>2, <1>5, <3>2
    <2>2. f \in [0..Len(text) -> X] /\ f[0] = s
      BY <1>6 DEF Follows
    <2>3. \A k \in 0..Len(text) : f[k] = IF k = 0 THEN s ELSE ReadCharacter(f[k-1], text[k])
      BY <1>2, <2>1, <2>2
    <2>. QED  BY <2>2, <2>3
  <1>8. T = [k \in 0..Len(text) |-> IF k = 0 THEN s ELSE ReadCharacter(T[k-1], text[k])]
    BY <1>3, <1>7
  <1>9. FollowsIn(T, X, G, s, text)
    <2>1. T[0] = s
      BY <1>2, <1>8
    <2>2. ASSUME NEW k \in 1..Len(text), T[k-1] \in X PROVE T[k] = G[<<T[k-1], text[k]>>]
      <3>1. T[k] = ReadCharacter(T[k-1], text[k])
        BY <1>2, <1>8
      <3>. QED  BY <1>2, <1>5, <2>2, <3>1
    <2>. QED  BY <2>1, <2>2 DEF FollowsIn
  <1>. QED  BY <1>1, <1>4, <1>9, ScanLink DEF G

(* What it makes of a text, from the state s. *)
CsvFrom(C, s, text) == ScanOf(CsvReading(C), s, text)

(* Nothing is read from an empty text.                                       *)
LEMMA CsvEmpty ==
  ASSUME NEW C, NEW s \in CsvStates(C)
  PROVE  CsvFrom(C, s, <<>>) = s
  <1>1. <<>> \in Seq(C)
    OBVIOUS
  <1>2. IsScan(CsvStates(C), C, CsvReading(C), s, <<>>)
    BY <1>1, CsvReadingIs
  <1>. QED  BY <1>2, ScanOfEmpty DEF CsvFrom

(* One more character is one more step.                                      *)
LEMMA CsvAppend ==
  ASSUME NEW C, NEW s \in CsvStates(C), NEW text \in Seq(C), NEW e \in C
  PROVE  /\ CsvFrom(C, s, text) \in CsvStates(C)
         /\ CsvFrom(C, s, text \o <<e>>) = ReadCharacter(CsvFrom(C, s, text), e)
  <1>1. IsScan(CsvStates(C), C, CsvReading(C), s, text)
    BY CsvReadingIs
  <1>2. CsvFrom(C, s, text) \in CsvStates(C)
    BY <1>1, ScanOfType DEF CsvFrom
  <1>3. CsvFrom(C, s, text \o <<e>>) = CsvReading(C)[<<CsvFrom(C, s, text), e>>]
    BY <1>1, ScanOfAppend DEF CsvFrom
  <1>. QED  BY <1>2, <1>3, CsvReadingStep

(* The same, of a text of which the end is known. *)
LEMMA CsvNext ==
  ASSUME NEW C, NEW s \in CsvStates(C), NEW text \in Seq(C), NEW e \in C, NEW r,
         CsvFrom(C, s, text) = r
  PROVE  CsvFrom(C, s, text \o <<e>>) = ReadCharacter(r, e)
  <1>1. CsvFrom(C, s, text \o <<e>>) = ReadCharacter(CsvFrom(C, s, text), e)
    BY CsvAppend
  <1>. QED  BY <1>1, Zenon

(* A text is read after what is before it.                                   *)
LEMMA CsvConcat ==
  ASSUME NEW C, NEW s \in CsvStates(C), NEW t \in Seq(C), NEW u \in Seq(C)
  PROVE  CsvFrom(C, s, t \o u) = CsvFrom(C, CsvFrom(C, s, t), u)
  <1>1. IsScan(CsvStates(C), C, CsvReading(C), s, t)
    BY CsvReadingIs
  <1>. QED  BY <1>1, ScanOfConcat DEF CsvFrom

(* A text of one character is one step.                                      *)
LEMMA CsvOne ==
  ASSUME NEW C, NEW s \in CsvStates(C), NEW e \in C
  PROVE  CsvFrom(C, s, <<e>>) = ReadCharacter(s, e)
  <1>1. <<>> \in Seq(C) /\ <<>> \o <<e>> = <<e>>
    OBVIOUS
  <1>2. CsvFrom(C, s, <<>> \o <<e>>) = ReadCharacter(CsvFrom(C, s, <<>>), e)
    BY <1>1, CsvAppend
  <1>. QED  BY <1>1, <1>2, CsvEmpty

(* parse_csv_row starts in one of its states.                                *)
LEMMA ReadStartIs ==
  ASSUME NEW C
  PROVE  ReadStart = Reading(<<>>, <<>>, "plain") /\ ReadStart \in CsvStates(C)
  <1>1. <<>> \in Seq(C) /\ <<>> \in Seq(Seq(C)) /\ "plain" \in CsvModes
    BY DEF CsvModes
  <1>. QED  BY <1>1, CsvStateIs DEF ReadStart

(* What parse_csv_row makes of a row that is read so far. *)
LEMMA CsvRowIs ==
  ASSUME NEW C, NEW row \in Seq(C), NEW f, NEW g, NEW m, CsvFrom(C, ReadStart, row) = Reading(f, g, m)
  PROVE  ParseCsvRow(row) = [malformed |-> m = "quoted", fields |-> Append(f, g)]
  <1>1. Scan(ReadCharacter, ReadStart, row) = Reading(f, g, m)
    BY ReadStartIs, CsvReadingScan DEF CsvFrom
  <1>2. Reading(f, g, m).fields = f /\ Reading(f, g, m).field = g /\ Reading(f, g, m).mode = m
    BY DEF Reading
  <1>. QED  BY <1>1, <1>2 DEF ParseCsvRow

(* One more character, by the fields. *)
LEMMA CsvMore ==
  ASSUME NEW C, NEW s \in CsvStates(C), NEW text \in Seq(C), NEW ch \in C, NEW f, NEW g, NEW m,
         CsvFrom(C, s, text) = Reading(f, g, m)
  PROVE  CsvFrom(C, s, text \o <<ch>>) = CsvReadCharacter(f, g, m, ch)
  <1> DEFINE r == Reading(f, g, m)
  <1>1. CsvFrom(C, s, text) = r
    OBVIOUS
  <1> HIDE DEF r
  <1>2. CsvFrom(C, s, text \o <<ch>>) = ReadCharacter(r, ch)
    BY <1>1, CsvNext
  <1>. QED  BY <1>2, CsvStep DEF r

-----------------------------------------------------------------------------
(***************************************************************************)
(* What snapper prints, and what list makes of it, as scans.               *)
(***************************************************************************)

(* The characters and words of a row of snapper are among C. *)
HasWords(C) ==
  /\ {Comma, QuoteMark, Newline, "date", "current", "yes", "no", "0"} \subseteq C
  /\ \A n \in DOMAIN NumberWords : NumberWords[n] \in C

(* One more character, doubled where it is a quote, gives a text.            *)
LEMMA DoubleCharacterType ==
  ASSUME NEW C, QuoteMark \in C, NEW text \in Seq(C), NEW ch \in C
  PROVE  DoubleCharacter(text, ch) \in Seq(C)
  <1>1. <<QuoteMark>> \in Seq(C) /\ <<ch>> \in Seq(C)
    OBVIOUS
  <1>2. text \o <<QuoteMark>> \in Seq(C)
    BY <1>1
  <1>. QED  BY <1>1, <1>2 DEF DoubleCharacter

(* The doubling of quotes as a function. *)
Doubling(C) == [se \in Seq(C) \X C |-> DoubleCharacter(se[1], se[2])]

(* A step of that function is DoubleCharacter.                               *)
LEMMA DoublingStep ==
  ASSUME NEW C, NEW s \in Seq(C), NEW e \in C
  PROVE  Doubling(C)[<<s, e>>] = DoubleCharacter(s, e)
  BY DEF Doubling

(* Doubling the quotes of a text is a scan.                                  *)
LEMMA DoublingIs ==
  ASSUME NEW C, QuoteMark \in C, NEW s \in Seq(C), NEW text \in Seq(C)
  PROVE  IsScan(Seq(C), C, Doubling(C), s, text)
  <1> DEFINE X == Seq(C)
             E == C
  <1>1. \A t \in X, e \in E : DoubleCharacter(t, e) \in X
    BY DoubleCharacterType
  <1> HIDE DEF X, E
  <1>2. Doubling(C) \in [X \X E -> X]
    BY <1>1 DEF Doubling, X, E
  <1>. QED  BY <1>2 DEF IsScan, X, E

(* The loop is the scan of that function. *)
LEMMA DoublingScan ==
  ASSUME NEW C, QuoteMark \in C, NEW s \in Seq(C), NEW text \in Seq(C)
  PROVE  Scan(DoubleCharacter, s, text) = ScanOf(Doubling(C), s, text)
  <1> DEFINE T == CHOOSE g : g = [k \in 0..Len(text) |->
                                    IF k = 0 THEN s ELSE DoubleCharacter(g[k-1], text[k])]
             G == Doubling(C)
             X == Seq(C)
             E == C
  <1>1. Scan(DoubleCharacter, s, text) = T[Len(text)]
    BY DEF Scan
  <1>2. Len(text) \in Nat /\ \A k \in 1..Len(text) : text[k] \in E
    BY LenProperties
  <1>4. IsScan(X, E, G, s, text)
    BY DoublingIs
  <1>5. \A t \in X, z \in E : G[<<t, z>>] = DoubleCharacter(t, z)
    BY DoublingStep
  <1>3. T = CHOOSE g : g = [k \in 0..Len(text) |-> IF k = 0 THEN s ELSE DoubleCharacter(g[k-1], text[k])]
    OBVIOUS
  <1> HIDE DEF T, G, X, E
  <1>6. PICK f : Follows(f, X, G, s, text)
    BY <1>4, ScanExists
  <1>7. f = [k \in 0..Len(text) |-> IF k = 0 THEN s ELSE DoubleCharacter(f[k-1], text[k])]
    <2>1. \A k \in 1..Len(text) : f[k-1] \in X /\ f[k] = DoubleCharacter(f[k-1], text[k])
      <3> SUFFICES ASSUME NEW k \in 1..Len(text)
                   PROVE  f[k-1] \in X /\ f[k] = DoubleCharacter(f[k-1], text[k])
        OBVIOUS
      <3>1. k - 1 \in 0..Len(text)
        BY <1>2
      <3>2. f[k-1] \in X /\ f[k] = G[<<f[k-1], text[k]>>]
        BY <1>6, <3>1 DEF Follows
      <3>. QED  BY <1>2, <1>5, <3>2
    <2>2. f \in [0..Len(text) -> X] /\ f[0] = s
      BY <1>6 DEF Follows
    <2>3. \A k \in 0..Len(text) : f[k] = IF k = 0 THEN s ELSE DoubleCharacter(f[k-1], text[k])
      BY <1>2, <2>1, <2>2
    <2>. QED  BY <2>2, <2>3
  <1>8. T = [k \in 0..Len(text) |-> IF k = 0 THEN s ELSE DoubleCharacter(T[k-1], text[k])]
    BY <1>3, <1>7
  <1>9. FollowsIn(T, X, G, s, text)
    <2>1. T[0] = s
      BY <1>2, <1>8
    <2>2. ASSUME NEW k \in 1..Len(text), T[k-1] \in X PROVE T[k] = G[<<T[k-1], text[k]>>]
      <3>1. T[k] = DoubleCharacter(T[k-1], text[k])
        BY <1>2, <1>8
      <3>. QED  BY <1>2, <1>5, <2>2, <3>1
    <2>. QED  BY <2>1, <2>2 DEF FollowsIn
  <1>. QED  BY <1>1, <1>4, <1>9, ScanLink DEF G

(* What it makes of a text, from the state s. *)
DoubledFrom(C, s, text) == ScanOf(Doubling(C), s, text)

(* An empty text adds nothing.                                               *)
LEMMA DoubledEmpty ==
  ASSUME NEW C, QuoteMark \in C, NEW s \in Seq(C)
  PROVE  DoubledFrom(C, s, <<>>) = s
  <1>1. <<>> \in Seq(C)
    OBVIOUS
  <1>2. IsScan(Seq(C), C, Doubling(C), s, <<>>)
    BY <1>1, DoublingIs
  <1>. QED  BY <1>2, ScanOfEmpty DEF DoubledFrom

(* One more character is one more step.                                      *)
LEMMA DoubledAppend ==
  ASSUME NEW C, QuoteMark \in C, NEW s \in Seq(C), NEW text \in Seq(C), NEW e \in C
  PROVE  /\ DoubledFrom(C, s, text) \in Seq(C)
         /\ DoubledFrom(C, s, text \o <<e>>) = DoubleCharacter(DoubledFrom(C, s, text), e)
  <1>1. IsScan(Seq(C), C, Doubling(C), s, text)
    BY DoublingIs
  <1>2. DoubledFrom(C, s, text) \in Seq(C)
    BY <1>1, ScanOfType DEF DoubledFrom
  <1>3. DoubledFrom(C, s, text \o <<e>>) = Doubling(C)[<<DoubledFrom(C, s, text), e>>]
    BY <1>1, ScanOfAppend DEF DoubledFrom
  <1>. QED  BY <1>2, <1>3, DoublingStep

(* The same, of a text of which the end is known. *)
LEMMA DoubledNext ==
  ASSUME NEW C, QuoteMark \in C, NEW s \in Seq(C), NEW text \in Seq(C), NEW e \in C, NEW r,
         DoubledFrom(C, s, text) = r
  PROVE  DoubledFrom(C, s, text \o <<e>>) = DoubleCharacter(r, e)
  <1>1. DoubledFrom(C, s, text \o <<e>>) = DoubleCharacter(DoubledFrom(C, s, text), e)
    BY DoubledAppend
  <1>. QED  BY <1>1, Zenon

(* A text is doubled after what is before it.                                *)
LEMMA DoubledConcat ==
  ASSUME NEW C, QuoteMark \in C, NEW s \in Seq(C), NEW t \in Seq(C), NEW u \in Seq(C)
  PROVE  DoubledFrom(C, s, t \o u) = DoubledFrom(C, DoubledFrom(C, s, t), u)
  <1>1. IsScan(Seq(C), C, Doubling(C), s, t)
    BY DoublingIs
  <1>. QED  BY <1>1, ScanOfConcat DEF DoubledFrom

(* A text of one character is one step.                                      *)
LEMMA DoubledOne ==
  ASSUME NEW C, QuoteMark \in C, NEW s \in Seq(C), NEW e \in C
  PROVE  DoubledFrom(C, s, <<e>>) = DoubleCharacter(s, e)
  <1>1. <<>> \in Seq(C) /\ <<>> \o <<e>> = <<e>>
    OBVIOUS
  <1>2. DoubledFrom(C, s, <<>> \o <<e>>) = DoubleCharacter(DoubledFrom(C, s, <<>>), e)
    BY <1>1, DoubledAppend
  <1>. QED  BY <1>1, <1>2, DoubledEmpty

(* A text whose quotes are doubled is a text, and is what the loop makes.    *)
LEMMA DoubledType ==
  ASSUME NEW C, QuoteMark \in C, NEW t \in Seq(C)
  PROVE  /\ DoubledFrom(C, <<>>, t) \in Seq(C)
         /\ Scan(DoubleCharacter, <<>>, t) = DoubledFrom(C, <<>>, t)
  <1>1. <<>> \in Seq(C)
    OBVIOUS
  <1>2. Scan(DoubleCharacter, <<>>, t) = DoubledFrom(C, <<>>, t)
    BY <1>1, DoublingScan DEF DoubledFrom
  <1>3. DoubledFrom(C, <<>>, t) \in Seq(C)
    BY <1>1, DoublingIs, ScanOfType DEF DoubledFrom
  <1>. QED  BY <1>2, <1>3

(* A field that is printed. *)
LEMMA CsvFieldType ==
  ASSUME NEW C, QuoteMark \in C, NEW field \in Seq(C)
  PROVE  CsvField(field) \in Seq(C)
  <1>1. Scan(DoubleCharacter, <<>>, field) \in Seq(C)
    BY DoubledType
  <1> DEFINE d == Scan(DoubleCharacter, <<>>, field)
  <1> HIDE DEF d
  <1>2. <<QuoteMark>> \o d \o <<QuoteMark>> \in Seq(C)
    BY <1>1 DEF d
  <1>. QED  BY <1>2 DEF CsvField, d

(* Snapshots whose descriptions are of characters of C. *)
SnapshotsOf(C) == [number : DOMAIN NumberWords, description : Seq(C), readOnly : BOOLEAN]

(* Numbers are counted from one, and none is printed as another word that    *)
(* means something.                                                          *)
LEMMA NumberWordsAre ==
  /\ DOMAIN NumberWords = 1..Len(NumberWords) /\ Len(NumberWords) \in Nat
  /\ \A n \in DOMAIN NumberWords :
       /\ NumberWords[n] \in STRING
       /\ NumberWords[n] \notin {"0", Comma, QuoteMark, Newline, CarriageReturn, " ", "'", "\\"}
  <1> DEFINE S == STRING \ {"0", Comma, QuoteMark, Newline, CarriageReturn, " ", "'", "\\"}
  <1>1. NumberWords \in Seq(S)
    BY NumberWordsAssumption
  <1>2. \A w \in S : w \in STRING /\ w \notin {"0", Comma, QuoteMark, Newline, CarriageReturn, " ", "'", "\\"}
    OBVIOUS
  <1> HIDE DEF S
  <1>3. /\ DOMAIN NumberWords = 1..Len(NumberWords) /\ Len(NumberWords) \in Nat
        /\ \A n \in DOMAIN NumberWords : NumberWords[n] \in S
    BY <1>1
  <1>. QED  BY <1>2, <1>3

(* A row that is printed, in parts. *)
RowHead(number) == <<number, Comma, "date", Comma>>
RowTail(readOnly) == <<Comma, IF readOnly THEN "yes" ELSE "no", Newline>>

(* A printed row is its head, its description and its tail.                  *)
LEMMA CsvRowParts ==
  ASSUME NEW C, HasWords(C), NEW number \in C, NEW description \in Seq(C), NEW readOnly \in BOOLEAN
  PROVE  /\ RowHead(number) \in Seq(C) /\ RowTail(readOnly) \in Seq(C)
         /\ CsvRow(number, description, readOnly) = (RowHead(number) \o CsvField(description)) \o RowTail(readOnly)
         /\ CsvRow(number, description, readOnly) \in Seq(C)
  <1>1. RowHead(number) \in Seq(C)
    BY DEF RowHead, HasWords
  <1>2. RowTail(readOnly) \in Seq(C)
    BY DEF RowTail, HasWords
  <1>3. CsvField(description) \in Seq(C)
    BY CsvFieldType DEF HasWords
  <1>4. CsvRow(number, description, readOnly) = (RowHead(number) \o CsvField(description)) \o RowTail(readOnly)
    BY DEF CsvRow, RowHead, RowTail
  <1>. QED  BY <1>1, <1>2, <1>3, <1>4

(* Printing one more row gives a text.                                       *)
LEMMA PrintRowType ==
  ASSUME NEW C, HasWords(C), NEW text \in Seq(C), NEW snapshot \in SnapshotsOf(C)
  PROVE  PrintRow(text, snapshot) \in Seq(C)
  <1>1. /\ snapshot.number \in DOMAIN NumberWords /\ snapshot.description \in Seq(C)
        /\ snapshot.readOnly \in BOOLEAN
    BY DEF SnapshotsOf
  <1>2. NumberWords[snapshot.number] \in C
    BY <1>1 DEF HasWords
  <1>3. CsvRow(NumberWords[snapshot.number], snapshot.description, snapshot.readOnly) \in Seq(C)
    BY <1>1, <1>2, CsvRowParts
  <1>. QED  BY <1>3 DEF PrintRow

(* The printing of a row as a function. *)
Printing(C) == [se \in Seq(C) \X SnapshotsOf(C) |-> PrintRow(se[1], se[2])]

(* A step of that function is PrintRow.                                      *)
LEMMA PrintingStep ==
  ASSUME NEW C, NEW s \in Seq(C), NEW e \in SnapshotsOf(C)
  PROVE  Printing(C)[<<s, e>>] = PrintRow(s, e)
  BY DEF Printing

(* Printing a list is a scan over its snapshots.                             *)
LEMMA PrintingIs ==
  ASSUME NEW C, HasWords(C), NEW s \in Seq(C), NEW text \in Seq(SnapshotsOf(C))
  PROVE  IsScan(Seq(C), SnapshotsOf(C), Printing(C), s, text)
  <1> DEFINE X == Seq(C)
             E == SnapshotsOf(C)
  <1>1. \A t \in X, e \in E : PrintRow(t, e) \in X
    BY PrintRowType
  <1> HIDE DEF X, E
  <1>2. Printing(C) \in [X \X E -> X]
    BY <1>1 DEF Printing, X, E
  <1>. QED  BY <1>2 DEF IsScan, X, E

(* The loop is the scan of that function. *)
LEMMA PrintingScan ==
  ASSUME NEW C, HasWords(C), NEW s \in Seq(C), NEW text \in Seq(SnapshotsOf(C))
  PROVE  Scan(PrintRow, s, text) = ScanOf(Printing(C), s, text)
  <1> DEFINE T == CHOOSE g : g = [k \in 0..Len(text) |->
                                    IF k = 0 THEN s ELSE PrintRow(g[k-1], text[k])]
             G == Printing(C)
             X == Seq(C)
             E == SnapshotsOf(C)
  <1>1. Scan(PrintRow, s, text) = T[Len(text)]
    BY DEF Scan
  <1>2. Len(text) \in Nat /\ \A k \in 1..Len(text) : text[k] \in E
    BY LenProperties
  <1>4. IsScan(X, E, G, s, text)
    BY PrintingIs
  <1>5. \A t \in X, z \in E : G[<<t, z>>] = PrintRow(t, z)
    BY PrintingStep
  <1>3. T = CHOOSE g : g = [k \in 0..Len(text) |-> IF k = 0 THEN s ELSE PrintRow(g[k-1], text[k])]
    OBVIOUS
  <1> HIDE DEF T, G, X, E
  <1>6. PICK f : Follows(f, X, G, s, text)
    BY <1>4, ScanExists
  <1>7. f = [k \in 0..Len(text) |-> IF k = 0 THEN s ELSE PrintRow(f[k-1], text[k])]
    <2>1. \A k \in 1..Len(text) : f[k-1] \in X /\ f[k] = PrintRow(f[k-1], text[k])
      <3> SUFFICES ASSUME NEW k \in 1..Len(text)
                   PROVE  f[k-1] \in X /\ f[k] = PrintRow(f[k-1], text[k])
        OBVIOUS
      <3>1. k - 1 \in 0..Len(text)
        BY <1>2
      <3>2. f[k-1] \in X /\ f[k] = G[<<f[k-1], text[k]>>]
        BY <1>6, <3>1 DEF Follows
      <3>. QED  BY <1>2, <1>5, <3>2
    <2>2. f \in [0..Len(text) -> X] /\ f[0] = s
      BY <1>6 DEF Follows
    <2>3. \A k \in 0..Len(text) : f[k] = IF k = 0 THEN s ELSE PrintRow(f[k-1], text[k])
      BY <1>2, <2>1, <2>2
    <2>. QED  BY <2>2, <2>3
  <1>8. T = [k \in 0..Len(text) |-> IF k = 0 THEN s ELSE PrintRow(T[k-1], text[k])]
    BY <1>3, <1>7
  <1>9. FollowsIn(T, X, G, s, text)
    <2>1. T[0] = s
      BY <1>2, <1>8
    <2>2. ASSUME NEW k \in 1..Len(text), T[k-1] \in X PROVE T[k] = G[<<T[k-1], text[k]>>]
      <3>1. T[k] = PrintRow(T[k-1], text[k])
        BY <1>2, <1>8
      <3>. QED  BY <1>2, <1>5, <2>2, <3>1
    <2>. QED  BY <2>1, <2>2 DEF FollowsIn
  <1>. QED  BY <1>1, <1>4, <1>9, ScanLink DEF G

(* What it makes of a text, from the state s. *)
PrintedFrom(C, s, text) == ScanOf(Printing(C), s, text)

(* No snapshots add nothing.                                                 *)
LEMMA PrintedEmpty ==
  ASSUME NEW C, HasWords(C), NEW s \in Seq(C)
  PROVE  PrintedFrom(C, s, <<>>) = s
  <1>1. <<>> \in Seq(SnapshotsOf(C))
    OBVIOUS
  <1>2. IsScan(Seq(C), SnapshotsOf(C), Printing(C), s, <<>>)
    BY <1>1, PrintingIs
  <1>. QED  BY <1>2, ScanOfEmpty DEF PrintedFrom

(* One more snapshot is one more row.                                        *)
LEMMA PrintedAppend ==
  ASSUME NEW C, HasWords(C), NEW s \in Seq(C), NEW text \in Seq(SnapshotsOf(C)), NEW e \in SnapshotsOf(C)
  PROVE  /\ PrintedFrom(C, s, text) \in Seq(C)
         /\ PrintedFrom(C, s, text \o <<e>>) = PrintRow(PrintedFrom(C, s, text), e)
  <1>1. IsScan(Seq(C), SnapshotsOf(C), Printing(C), s, text)
    BY PrintingIs
  <1>2. PrintedFrom(C, s, text) \in Seq(C)
    BY <1>1, ScanOfType DEF PrintedFrom
  <1>3. PrintedFrom(C, s, text \o <<e>>) = Printing(C)[<<PrintedFrom(C, s, text), e>>]
    BY <1>1, ScanOfAppend DEF PrintedFrom
  <1>. QED  BY <1>2, <1>3, PrintingStep

(* The same, of a text of which the end is known. *)
LEMMA PrintedNext ==
  ASSUME NEW C, HasWords(C), NEW s \in Seq(C), NEW text \in Seq(SnapshotsOf(C)), NEW e \in SnapshotsOf(C), NEW r,
         PrintedFrom(C, s, text) = r
  PROVE  PrintedFrom(C, s, text \o <<e>>) = PrintRow(r, e)
  <1>1. PrintedFrom(C, s, text \o <<e>>) = PrintRow(PrintedFrom(C, s, text), e)
    BY PrintedAppend
  <1>. QED  BY <1>1, Zenon

(* Snapshots are printed after those before them.                            *)
LEMMA PrintedConcat ==
  ASSUME NEW C, HasWords(C), NEW s \in Seq(C), NEW t \in Seq(SnapshotsOf(C)), NEW u \in Seq(SnapshotsOf(C))
  PROVE  PrintedFrom(C, s, t \o u) = PrintedFrom(C, PrintedFrom(C, s, t), u)
  <1>1. IsScan(Seq(C), SnapshotsOf(C), Printing(C), s, t)
    BY PrintingIs
  <1>. QED  BY <1>1, ScanOfConcat DEF PrintedFrom

(* One snapshot is one row.                                                  *)
LEMMA PrintedOne ==
  ASSUME NEW C, HasWords(C), NEW s \in Seq(C), NEW e \in SnapshotsOf(C)
  PROVE  PrintedFrom(C, s, <<e>>) = PrintRow(s, e)
  <1>1. <<>> \in Seq(SnapshotsOf(C)) /\ <<>> \o <<e>> = <<e>>
    OBVIOUS
  <1>2. PrintedFrom(C, s, <<>> \o <<e>>) = PrintRow(PrintedFrom(C, s, <<>>), e)
    BY <1>1, PrintedAppend
  <1>. QED  BY <1>1, <1>2, PrintedEmpty

(* The states in which list reads characters of C. *)
ListStates(C) == [list : Seq(SnapshotsOf(C)), failed : BOOLEAN, line : Seq(C)]

(* A record of these fields is a state of list.                              *)
LEMMA ListStateIs ==
  ASSUME NEW C, NEW l \in Seq(SnapshotsOf(C)), NEW b \in BOOLEAN, NEW t \in Seq(C)
  PROVE  Listing(l, b, t) \in ListStates(C)
  BY DEF Listing, ListStates

ListStateOf(C, s) ==
  \E l \in Seq(SnapshotsOf(C)), b \in BOOLEAN, t \in Seq(C) : s = Listing(l, b, t)

(* A state of list is a record of these fields.                              *)
LEMMA ListStatesAre ==
  ASSUME NEW C, NEW s \in ListStates(C)
  PROVE  ListStateOf(C, s)
  <1>1. s = Listing(s.list, s.failed, s.line)
    BY DEF ListStates, Listing
  <1>2. s.list \in Seq(SnapshotsOf(C)) /\ s.failed \in BOOLEAN /\ s.line \in Seq(C)
    BY DEF ListStates
  <1>. QED  BY <1>1, <1>2 DEF ListStateOf

(* The fields of a state of list.                                            *)
LEMMA ListingFields ==
  ASSUME NEW l, NEW b, NEW t
  PROVE  Listing(l, b, t).list = l /\ Listing(l, b, t).failed = b /\ Listing(l, b, t).line = t
  BY DEF Listing

(* A row is read into fields. *)
LEMMA RowFields ==
  ASSUME NEW C, NEW row \in Seq(C)
  PROVE  ParseCsvRow(row).fields \in Seq(Seq(C))
  <1> DEFINE end == CsvFrom(C, ReadStart, row)
  <1>1. end \in CsvStates(C)
    BY ReadStartIs, CsvReadingIs, ScanOfType DEF CsvFrom
  <1> HIDE DEF end
  <1>2. PICK f \in Seq(Seq(C)), g \in Seq(C), m \in CsvModes : end = Reading(f, g, m)
    BY <1>1, CsvStatesAre DEF CsvStateOf
  <1>3. ParseCsvRow(row) = [malformed |-> m = "quoted", fields |-> Append(f, g)]
    BY <1>2, CsvRowIs DEF end
  <1>. QED  BY <1>2, <1>3

(* The end of a row either gives a snapshot or fails. *)
LEMMA ReadRowType ==
  ASSUME NEW C, NEW state \in ListStates(C)
  PROVE  ReadRow(state) \in ListStates(C)
  <1>1. PICK l \in Seq(SnapshotsOf(C)), b \in BOOLEAN, t \in Seq(C) : state = Listing(l, b, t)
    BY ListStatesAre DEF ListStateOf
  <1> DEFINE row == ParseCsvRow(t)
             number == {n \in DOMAIN NumberWords : <<NumberWords[n]>> = row.fields[1]}
             chosen == CHOOSE n \in number : TRUE
             found == [number |-> chosen, description |-> row.fields[3],
                       readOnly |-> row.fields[4] = <<"yes">>]
             X == ListStates(C)
             S == SnapshotsOf(C)
  <1>2. state.list = l /\ state.failed = b /\ state.line = t
    BY <1>1, ListingFields
  <1>3. row.fields \in Seq(Seq(C))
    BY <1>1, RowFields
  <1>4. \A x : ReadRow(state) \in {Listing(l, TRUE, <<>>), Listing(l, FALSE, <<>>)}
          \/ (Len(row.fields) = 4 /\ number # {} /\ ReadRow(state) = Listing(Append(l, found), FALSE, <<>>))
    <2> HIDE DEF row
    <2>1. ReadRow(state) = (IF b \/ row.malformed \/ Len(row.fields) # 4
      THEN Listing(l, TRUE, <<>>)
      ELSE IF row.fields[1] = <<"0">> THEN Listing(l, FALSE, <<>>)
      ELSE IF number = {} THEN Listing(l, TRUE, <<>>)
      ELSE Listing(Append(l, found), FALSE, <<>>))
      BY <1>2 DEF ReadRow, row
    <2> HIDE DEF number, found
    <2>. QED  BY <2>1
  <1>5. ASSUME Len(row.fields) = 4, number # {} PROVE found \in S
    <2>1. row.fields[3] \in Seq(C)
      <3> HIDE DEF row
      <3>. QED  BY <1>3, <1>5
    <2>2. chosen \in DOMAIN NumberWords
      <3>1. chosen \in number
        <4> HIDE DEF number
        <4>. QED  BY <1>5
      <3>. QED  BY <3>1
    <2> HIDE DEF row, number, chosen
    <2>. QED  BY <2>1, <2>2 DEF SnapshotsOf
  <1>6. \A l1 \in Seq(S), b1 \in BOOLEAN, t1 \in Seq(C) : Listing(l1, b1, t1) \in X
    BY ListStateIs
  <1>7. <<>> \in Seq(C)
    OBVIOUS
  <1> HIDE DEF X, S, row, number, found
  <1>8. Listing(l, TRUE, <<>>) \in X /\ Listing(l, FALSE, <<>>) \in X
    BY <1>1, <1>6, <1>7 DEF S
  <1>9. found \in S => Listing(Append(l, found), FALSE, <<>>) \in X
    <2>1. found \in S => Append(l, found) \in Seq(S)
      BY <1>1 DEF S
    <2>. QED  BY <1>6, <1>7, <2>1
  <1>10. ReadRow(state) \in X
    BY <1>4, <1>5, <1>8, <1>9
  <1>. QED  BY <1>10 DEF X

(* The end of a line. *)
LEMMA WithoutReturnIs ==
  ASSUME NEW C, NEW t \in Seq(C)
  PROVE  WithoutReturn(t) \in Seq(C)
  <1>1. CASE t = <<>>
    BY <1>1 DEF WithoutReturn
  <1>2. CASE t # <<>>
    <2>1. Len(t) \in Nat /\ Len(t) - 1 \in 0..Len(t)
      BY <1>2
    <2>2. SubSeq(t, 1, Len(t) - 1) \in Seq(C)
      BY <2>1
    <2>. QED  BY <2>2 DEF WithoutReturn
  <1>. QED  BY <1>1, <1>2

(* A step of list keeps to the states.                                       *)
LEMMA ReadOutputType ==
  ASSUME NEW C, NEW s \in ListStates(C), NEW ch \in C
  PROVE  ReadOutput(s, ch) \in ListStates(C)
  <1>1. PICK l \in Seq(SnapshotsOf(C)), b \in BOOLEAN, t \in Seq(C) : s = Listing(l, b, t)
    BY ListStatesAre DEF ListStateOf
  <1>2. s.list = l /\ s.failed = b /\ s.line = t
    BY <1>1, ListingFields
  <1>3. Listing(l, b, Append(t, ch)) \in ListStates(C)
    <2>1. Append(t, ch) \in Seq(C)
      BY <1>1
    <2>. QED  BY <1>1, <2>1, ListStateIs
  <1> DEFINE line == WithoutReturn(t)
             r == Listing(l, b, line)
             e == Listing(l, b, <<>>)
  <1>4. ReadRow(r) \in ListStates(C) /\ e \in ListStates(C)
    <2>1. line \in Seq(C) /\ <<>> \in Seq(C)
      BY <1>1, WithoutReturnIs
    <2> HIDE DEF line
    <2>2. r \in ListStates(C) /\ e \in ListStates(C)
      BY <1>1, <2>1, ListStateIs
    <2> HIDE DEF r
    <2>. QED  BY <2>2, ReadRowType
  <1> DEFINE X == ListStates(C)
  <1> HIDE DEF X
  <1>5. ReadOutput(s, ch) \in {Listing(l, b, Append(t, ch)), e, ReadRow(r)}
    BY <1>2 DEF ReadOutput
  <1>6. ReadOutput(s, ch) \in X
    BY <1>3, <1>4, <1>5 DEF X
  <1>. QED  BY <1>6 DEF X

(* The step of list as a function. *)
Outputting(C) == [se \in ListStates(C) \X C |-> ReadOutput(se[1], se[2])]

(* A step of that function is ReadOutput.                                    *)
LEMMA OutputtingStep ==
  ASSUME NEW C, NEW s \in ListStates(C), NEW e \in C
  PROVE  Outputting(C)[<<s, e>>] = ReadOutput(s, e)
  BY DEF Outputting

(* list reads the output in a scan.                                          *)
LEMMA OutputtingIs ==
  ASSUME NEW C, NEW s \in ListStates(C), NEW text \in Seq(C)
  PROVE  IsScan(ListStates(C), C, Outputting(C), s, text)
  <1> DEFINE X == ListStates(C)
             E == C
  <1>1. \A t \in X, e \in E : ReadOutput(t, e) \in X
    BY ReadOutputType
  <1> HIDE DEF X, E
  <1>2. Outputting(C) \in [X \X E -> X]
    BY <1>1 DEF Outputting, X, E
  <1>. QED  BY <1>2 DEF IsScan, X, E

(* The loop is the scan of that function. *)
LEMMA OutputtingScan ==
  ASSUME NEW C, NEW s \in ListStates(C), NEW text \in Seq(C)
  PROVE  Scan(ReadOutput, s, text) = ScanOf(Outputting(C), s, text)
  <1> DEFINE T == CHOOSE g : g = [k \in 0..Len(text) |->
                                    IF k = 0 THEN s ELSE ReadOutput(g[k-1], text[k])]
             G == Outputting(C)
             X == ListStates(C)
             E == C
  <1>1. Scan(ReadOutput, s, text) = T[Len(text)]
    BY DEF Scan
  <1>2. Len(text) \in Nat /\ \A k \in 1..Len(text) : text[k] \in E
    BY LenProperties
  <1>4. IsScan(X, E, G, s, text)
    BY OutputtingIs
  <1>5. \A t \in X, z \in E : G[<<t, z>>] = ReadOutput(t, z)
    BY OutputtingStep
  <1>3. T = CHOOSE g : g = [k \in 0..Len(text) |-> IF k = 0 THEN s ELSE ReadOutput(g[k-1], text[k])]
    OBVIOUS
  <1> HIDE DEF T, G, X, E
  <1>6. PICK f : Follows(f, X, G, s, text)
    BY <1>4, ScanExists
  <1>7. f = [k \in 0..Len(text) |-> IF k = 0 THEN s ELSE ReadOutput(f[k-1], text[k])]
    <2>1. \A k \in 1..Len(text) : f[k-1] \in X /\ f[k] = ReadOutput(f[k-1], text[k])
      <3> SUFFICES ASSUME NEW k \in 1..Len(text)
                   PROVE  f[k-1] \in X /\ f[k] = ReadOutput(f[k-1], text[k])
        OBVIOUS
      <3>1. k - 1 \in 0..Len(text)
        BY <1>2
      <3>2. f[k-1] \in X /\ f[k] = G[<<f[k-1], text[k]>>]
        BY <1>6, <3>1 DEF Follows
      <3>. QED  BY <1>2, <1>5, <3>2
    <2>2. f \in [0..Len(text) -> X] /\ f[0] = s
      BY <1>6 DEF Follows
    <2>3. \A k \in 0..Len(text) : f[k] = IF k = 0 THEN s ELSE ReadOutput(f[k-1], text[k])
      BY <1>2, <2>1, <2>2
    <2>. QED  BY <2>2, <2>3
  <1>8. T = [k \in 0..Len(text) |-> IF k = 0 THEN s ELSE ReadOutput(T[k-1], text[k])]
    BY <1>3, <1>7
  <1>9. FollowsIn(T, X, G, s, text)
    <2>1. T[0] = s
      BY <1>2, <1>8
    <2>2. ASSUME NEW k \in 1..Len(text), T[k-1] \in X PROVE T[k] = G[<<T[k-1], text[k]>>]
      <3>1. T[k] = ReadOutput(T[k-1], text[k])
        BY <1>2, <1>8
      <3>. QED  BY <1>2, <1>5, <2>2, <3>1
    <2>. QED  BY <2>1, <2>2 DEF FollowsIn
  <1>. QED  BY <1>1, <1>4, <1>9, ScanLink DEF G

(* What it makes of a text, from the state s. *)
OutFrom(C, s, text) == ScanOf(Outputting(C), s, text)

(* Nothing is read from an empty text.                                       *)
LEMMA OutEmpty ==
  ASSUME NEW C, NEW s \in ListStates(C)
  PROVE  OutFrom(C, s, <<>>) = s
  <1>1. <<>> \in Seq(C)
    OBVIOUS
  <1>2. IsScan(ListStates(C), C, Outputting(C), s, <<>>)
    BY <1>1, OutputtingIs
  <1>. QED  BY <1>2, ScanOfEmpty DEF OutFrom

(* One more character is one more step.                                      *)
LEMMA OutAppend ==
  ASSUME NEW C, NEW s \in ListStates(C), NEW text \in Seq(C), NEW e \in C
  PROVE  /\ OutFrom(C, s, text) \in ListStates(C)
         /\ OutFrom(C, s, text \o <<e>>) = ReadOutput(OutFrom(C, s, text), e)
  <1>1. IsScan(ListStates(C), C, Outputting(C), s, text)
    BY OutputtingIs
  <1>2. OutFrom(C, s, text) \in ListStates(C)
    BY <1>1, ScanOfType DEF OutFrom
  <1>3. OutFrom(C, s, text \o <<e>>) = Outputting(C)[<<OutFrom(C, s, text), e>>]
    BY <1>1, ScanOfAppend DEF OutFrom
  <1>. QED  BY <1>2, <1>3, OutputtingStep

(* The same, of a text of which the end is known. *)
LEMMA OutNext ==
  ASSUME NEW C, NEW s \in ListStates(C), NEW text \in Seq(C), NEW e \in C, NEW r,
         OutFrom(C, s, text) = r
  PROVE  OutFrom(C, s, text \o <<e>>) = ReadOutput(r, e)
  <1>1. OutFrom(C, s, text \o <<e>>) = ReadOutput(OutFrom(C, s, text), e)
    BY OutAppend
  <1>. QED  BY <1>1, Zenon

(* A text is read after what is before it.                                   *)
LEMMA OutConcat ==
  ASSUME NEW C, NEW s \in ListStates(C), NEW t \in Seq(C), NEW u \in Seq(C)
  PROVE  OutFrom(C, s, t \o u) = OutFrom(C, OutFrom(C, s, t), u)
  <1>1. IsScan(ListStates(C), C, Outputting(C), s, t)
    BY OutputtingIs
  <1>. QED  BY <1>1, ScanOfConcat DEF OutFrom

(* A text of one character is one step.                                      *)
LEMMA OutOne ==
  ASSUME NEW C, NEW s \in ListStates(C), NEW e \in C
  PROVE  OutFrom(C, s, <<e>>) = ReadOutput(s, e)
  <1>1. <<>> \in Seq(C) /\ <<>> \o <<e>> = <<e>>
    OBVIOUS
  <1>2. OutFrom(C, s, <<>> \o <<e>>) = ReadOutput(OutFrom(C, s, <<>>), e)
    BY <1>1, OutAppend
  <1>. QED  BY <1>1, <1>2, OutEmpty

-----------------------------------------------------------------------------
(***************************************************************************)
(* A printed row is read as its snapshot.                                  *)
(***************************************************************************)

(* Short sequences, one element longer. *)
Short(S, a, b, c, d) ==
  /\ <<>> \in Seq(S) /\ <<a>> \in Seq(S) /\ <<a, b>> \in Seq(S) /\ <<a, b, c>> \in Seq(S)
  /\ <<a, b, c, d>> \in Seq(S)
  /\ Append(<<>>, a) = <<a>> /\ Append(<<a>>, b) = <<a, b>>
  /\ Append(<<a, b>>, c) = <<a, b, c>> /\ Append(<<a, b, c>>, d) = <<a, b, c, d>>
  /\ <<>> \o <<a>> = <<a>> /\ <<a>> \o <<b>> = <<a, b>>
  /\ <<a, b>> \o <<c>> = <<a, b, c>> /\ <<a, b, c>> \o <<d>> = <<a, b, c, d>>

(* They are as they are written.                                             *)
LEMMA ShortSequences ==
  ASSUME NEW S, NEW a \in S, NEW b \in S, NEW c \in S, NEW d \in S
  PROVE  Short(S, a, b, c, d)
  <1>1. <<>> \in Seq(S) /\ <<a>> \in Seq(S) /\ <<a, b>> \in Seq(S) /\ <<a, b, c>> \in Seq(S)
    OBVIOUS
  <1>2. <<a, b, c, d>> \in Seq(S)
    OBVIOUS
  <1>3. Append(<<>>, a) = <<a>>
    <2> DEFINE t == <<>>
               v == <<a>>
               u == Append(t, a)
    <2>1. v \in Seq(S) /\ Len(v) = 1 /\ v[1] = a
      BY <1>1, <1>2
    <2>2. t \in Seq(S) /\ Len(t) = 0
      BY <1>1
    <2>7. t \in Seq(S)
      BY <1>1
    <2> HIDE DEF t, v
    <2>6. /\ u \in Seq(S) /\ Len(u) = Len(t) + 1 /\ u[Len(t) + 1] = a
          /\ \A i \in 1..Len(t) : u[i] = t[i]
      BY <2>7, AppendProperties
    <2> HIDE DEF u
    <2>3. u \in Seq(S) /\ Len(u) = 1 /\ u[1] = a
      BY <2>2, <2>6
    <2>4. \A i \in 1..Len(u) : u[i] = v[i]
      BY <2>1, <2>3
    <2>5. u = v
      BY <2>1, <2>3, <2>4, SeqEqual
    <2>. QED  BY <2>5 DEF t, u, v
  <1>4. Append(<<a>>, b) = <<a, b>>
    <2> DEFINE t == <<a>>
               v == <<a, b>>
               u == Append(t, b)
    <2>1. v \in Seq(S) /\ Len(v) = 2 /\ v[1] = a /\ v[2] = b
      BY <1>1, <1>2
    <2>2. t \in Seq(S) /\ Len(t) = 1 /\ t[1] = a
      BY <1>1
    <2>7. t \in Seq(S)
      BY <1>1
    <2> HIDE DEF t, v
    <2>6. /\ u \in Seq(S) /\ Len(u) = Len(t) + 1 /\ u[Len(t) + 1] = b
          /\ \A i \in 1..Len(t) : u[i] = t[i]
      BY <2>7, AppendProperties
    <2> HIDE DEF u
    <2>3. u \in Seq(S) /\ Len(u) = 2 /\ u[1] = a /\ u[2] = b
      BY <2>2, <2>6
    <2>4. \A i \in 1..Len(u) : u[i] = v[i]
      BY <2>1, <2>3
    <2>5. u = v
      BY <2>1, <2>3, <2>4, SeqEqual
    <2>. QED  BY <2>5 DEF t, u, v
  <1>5. Append(<<a, b>>, c) = <<a, b, c>>
    <2> DEFINE t == <<a, b>>
               v == <<a, b, c>>
               u == Append(t, c)
    <2>1. v \in Seq(S) /\ Len(v) = 3 /\ v[1] = a /\ v[2] = b /\ v[3] = c
      BY <1>1, <1>2
    <2>2. t \in Seq(S) /\ Len(t) = 2 /\ t[1] = a /\ t[2] = b
      BY <1>1
    <2>7. t \in Seq(S)
      BY <1>1
    <2> HIDE DEF t, v
    <2>6. /\ u \in Seq(S) /\ Len(u) = Len(t) + 1 /\ u[Len(t) + 1] = c
          /\ \A i \in 1..Len(t) : u[i] = t[i]
      BY <2>7, AppendProperties
    <2> HIDE DEF u
    <2>3. u \in Seq(S) /\ Len(u) = 3 /\ u[1] = a /\ u[2] = b /\ u[3] = c
      BY <2>2, <2>6
    <2>4. \A i \in 1..Len(u) : u[i] = v[i]
      BY <2>1, <2>3
    <2>5. u = v
      BY <2>1, <2>3, <2>4, SeqEqual
    <2>. QED  BY <2>5 DEF t, u, v
  <1>6. Append(<<a, b, c>>, d) = <<a, b, c, d>>
    <2> DEFINE t == <<a, b, c>>
               v == <<a, b, c, d>>
               u == Append(t, d)
    <2>1. v \in Seq(S) /\ Len(v) = 4 /\ v[1] = a /\ v[2] = b /\ v[3] = c /\ v[4] = d
      BY <1>1, <1>2
    <2>2. t \in Seq(S) /\ Len(t) = 3 /\ t[1] = a /\ t[2] = b /\ t[3] = c
      BY <1>1
    <2>7. t \in Seq(S)
      BY <1>1
    <2> HIDE DEF t, v
    <2>6. /\ u \in Seq(S) /\ Len(u) = Len(t) + 1 /\ u[Len(t) + 1] = d
          /\ \A i \in 1..Len(t) : u[i] = t[i]
      BY <2>7, AppendProperties
    <2> HIDE DEF u
    <2>3. u \in Seq(S) /\ Len(u) = 4 /\ u[1] = a /\ u[2] = b /\ u[3] = c /\ u[4] = d
      BY <2>2, <2>6
    <2>4. \A i \in 1..Len(u) : u[i] = v[i]
      BY <2>1, <2>3
    <2>5. u = v
      BY <2>1, <2>3, <2>4, SeqEqual
    <2>. QED  BY <2>5 DEF t, u, v
  <1>7. \A t \in Seq(S), e \in S : t \o <<e>> = Append(t, e)
    BY AppendProperties
  <1>8. /\ <<>> \o <<a>> = Append(<<>>, a) /\ <<a>> \o <<b>> = Append(<<a>>, b)
        /\ <<a, b>> \o <<c>> = Append(<<a, b>>, c) /\ <<a, b, c>> \o <<d>> = Append(<<a, b, c>>, d)
    BY <1>1, <1>7
  <1>. QED  BY <1>1, <1>2, <1>3, <1>4, <1>5, <1>6, <1>8 DEF Short

(* A text without commas and quotes is read as it is. *)
LEMMA CsvPlainRead ==
  ASSUME NEW C, NEW f \in Seq(Seq(C)), NEW text \in Seq(C \ {Comma, QuoteMark})
  PROVE  CsvFrom(C, Reading(f, <<>>, "plain"), text) = Reading(f, text, "plain")
  <1> DEFINE s == Reading(f, <<>>, "plain")
             P == C \ {Comma, QuoteMark}
             Q == {t \in Seq(P) : CsvFrom(C, s, t) = Reading(f, t, "plain")}
  <1>1. s \in CsvStates(C)
    <2>1. <<>> \in Seq(C) /\ "plain" \in CsvModes
      BY DEF CsvModes
    <2>. QED  BY <2>1, CsvStateIs
  <1>2. P \subseteq C
    OBVIOUS
  <1>3. \A t \in Seq(P) : t \in Seq(C)
    <2> HIDE DEF P
    <2>. QED  BY <1>2
  <1>4. <<>> \in Q
    <2>1. <<>> \in Seq(P)
      OBVIOUS
    <2>2. CsvFrom(C, s, <<>>) = s
      <3> HIDE DEF s
      <3>. QED  BY <1>1, CsvEmpty
    <2>. QED  BY <2>1, <2>2
  <1>5. ASSUME NEW t \in Q, NEW ch \in P PROVE t \o <<ch>> \in Q
    <2>1. t \in Seq(P) /\ t \in Seq(C) /\ ch \in C /\ t \o <<ch>> \in Seq(P)
      BY <1>2, <1>3
    <2>2. ch # Comma /\ ch # QuoteMark
      OBVIOUS
    <2>3. CsvFrom(C, s, t) = Reading(f, t, "plain")
      OBVIOUS
    <2>4. CsvFrom(C, s, t \o <<ch>>) = CsvReadCharacter(f, t, "plain", ch)
      <3> HIDE DEF Q, s, P
      <3>. QED  BY <1>1, <2>1, <2>3, CsvMore
    <2>5. CsvFrom(C, s, t \o <<ch>>) = Reading(f, Append(t, ch), "plain")
      BY <2>2, <2>4 DEF CsvReadCharacter
    <2>6. Append(t, ch) = t \o <<ch>>
      BY <2>1, AppendIsConcat
    <2>. QED  BY <2>1, <2>5, <2>6
  <1>6. Q = Seq(P)
    <2> HIDE DEF Q, P
    <2>1. Q \subseteq Seq(P)
      BY DEF Q
    <2>. QED  BY <1>4, <1>5, <2>1, SeqInduction
  <1>. QED  BY <1>6

(* A text whose quotes are doubled is read as it was, within quotes. *)
LEMMA CsvDoubledRead ==
  ASSUME NEW C, QuoteMark \in C, NEW f \in Seq(Seq(C)), NEW text \in Seq(C)
  PROVE  CsvFrom(C, Reading(f, <<>>, "quoted"), DoubledFrom(C, <<>>, text)) = Reading(f, text, "quoted")
  <1> DEFINE s == Reading(f, <<>>, "quoted")
             dbl(t) == DoubledFrom(C, <<>>, t)
             Q == {t \in Seq(C) : CsvFrom(C, s, dbl(t)) = Reading(f, t, "quoted")}
  <1>0. <<>> \in Seq(C)
    OBVIOUS
  <1>1. s \in CsvStates(C)
    <2>1. "quoted" \in CsvModes
      BY DEF CsvModes
    <2>. QED  BY <1>0, <2>1, CsvStateIs
  <1>2. dbl(<<>>) = <<>> /\ \A t \in Seq(C) : dbl(t) \in Seq(C)
    BY <1>0, DoubledEmpty, DoubledType
  <1>3. \A t \in Seq(C), ch \in C : dbl(t \o <<ch>>) = DoubleCharacter(dbl(t), ch)
    BY <1>0, DoubledAppend
  <1> HIDE DEF dbl, s
  <1>4. <<>> \in Q
    <2>1. CsvFrom(C, s, <<>>) = s
      BY <1>1, CsvEmpty
    <2>. QED  BY <1>0, <1>2, <2>1 DEF s
  <1>5. ASSUME NEW t \in Q, NEW ch \in C PROVE t \o <<ch>> \in Q
    <2>1. t \in Seq(C) /\ t \o <<ch>> \in Seq(C) /\ Append(t, ch) = t \o <<ch>>
      BY AppendIsConcat
    <2>2. CsvFrom(C, s, dbl(t)) = Reading(f, t, "quoted") /\ dbl(t) \in Seq(C)
      BY <1>2, <2>1
    <2> HIDE DEF Q
    <2>3. CASE ch = QuoteMark
      <3> DEFINE u == dbl(t) \o <<QuoteMark>>
      <3>1. u \in Seq(C)
        BY <2>2
      <3>2. CsvFrom(C, s, u) = CsvReadCharacter(f, t, "quoted", QuoteMark)
        BY <1>1, <2>2, CsvMore
      <3>3. CsvFrom(C, s, u) = Reading(f, t, "ending")
        BY <3>2 DEF CsvReadCharacter
      <3> HIDE DEF u
      <3>4. CsvFrom(C, s, u \o <<ch>>) = CsvReadCharacter(f, t, "ending", ch)
        BY <1>1, <3>1, <3>3, CsvMore
      <3>5. CsvFrom(C, s, u \o <<ch>>) = Reading(f, Append(t, ch), "quoted")
        BY <2>3, <3>4 DEF CsvReadCharacter
      <3>6. dbl(t \o <<ch>>) = u \o <<ch>>
        BY <1>3, <2>1, <2>3 DEF DoubleCharacter, u
      <3>. QED  BY <2>1, <3>5, <3>6 DEF Q
    <2>4. CASE ch # QuoteMark
      <3>1. CsvFrom(C, s, dbl(t) \o <<ch>>) = CsvReadCharacter(f, t, "quoted", ch)
        BY <1>1, <2>2, CsvMore
      <3>2. CsvFrom(C, s, dbl(t) \o <<ch>>) = Reading(f, Append(t, ch), "quoted")
        BY <2>4, <3>1 DEF CsvReadCharacter
      <3>3. dbl(t \o <<ch>>) = dbl(t) \o <<ch>>
        BY <1>3, <2>1, <2>4 DEF DoubleCharacter
      <3>. QED  BY <2>1, <3>2, <3>3 DEF Q
    <2>. QED  BY <2>3, <2>4
  <1>6. Q = Seq(C)
    <2> HIDE DEF Q
    <2>1. Q \subseteq Seq(C)
      BY DEF Q
    <2>. QED  BY <1>4, <1>5, <2>1, SeqInduction
  <1>7. CsvFrom(C, s, dbl(text)) = Reading(f, text, "quoted")
    BY <1>6
  <1>. QED  BY <1>7 DEF s, dbl

(* Where the description is not quoted, it has no comma and no quote. *)
LEMMA PlainDescription ==
  ASSUME NEW C, NEW d \in Seq(C), ToSet(d) \cap {Comma, QuoteMark} = {}
  PROVE  d \in Seq(C \ {Comma, QuoteMark}) /\ CsvField(d) = d
  <1>1. \A ch \in ToSet(d) : ch \in C => ch \in C \ {Comma, QuoteMark}
    OBVIOUS
  <1> DEFINE P == C \ {Comma, QuoteMark}
  <1> HIDE DEF P
  <1>2. d \in Seq(P)
    BY <1>1, SeqOfSome DEF P
  <1>. QED  BY <1>2 DEF CsvField, P

(* Where it is quoted, its quotes are doubled.                               *)
LEMMA QuotedDescription ==
  ASSUME NEW C, QuoteMark \in C, NEW d \in Seq(C), ToSet(d) \cap {Comma, QuoteMark} # {}
  PROVE  CsvField(d) = (<<QuoteMark>> \o DoubledFrom(C, <<>>, d)) \o <<QuoteMark>>
  <1>1. DoubledFrom(C, <<>>, d) \in Seq(C) /\ Scan(DoubleCharacter, <<>>, d) = DoubledFrom(C, <<>>, d)
    BY DoubledType
  <1> DEFINE u == DoubledFrom(C, <<>>, d)
  <1>2. CsvField(d) = <<QuoteMark>> \o u \o <<QuoteMark>>
    BY <1>1 DEF CsvField
  <1> HIDE DEF u
  <1>. QED  BY <1>1, <1>2 DEF u

(* What is read before the description. *)
LEMMA CsvHeadRead ==
  ASSUME NEW C, HasWords(C), NEW n \in C \ {Comma, QuoteMark}
  PROVE  CsvFrom(C, ReadStart, RowHead(n)) = Reading(<< <<n>>, <<"date">> >>, <<>>, "plain")
  <1> DEFINE s == ReadStart
             t0 == <<>>
             t1 == <<n>>
             t2 == <<n, Comma>>
             t3 == <<n, Comma, "date">>
             d == <<"date">>
             f1 == << t1 >>
             f2 == << t1, d >>
  <1>1. s \in CsvStates(C) /\ s = Reading(t0, t0, "plain")
    BY ReadStartIs
  <1>2. Comma \in C /\ "date" \in C /\ n \in C /\ n # Comma /\ n # QuoteMark
    BY DEF HasWords
  <1>3. t0 \in Seq(C) /\ t1 \in Seq(C) /\ t2 \in Seq(C) /\ t3 \in Seq(C)
    BY <1>2
  <1>4. /\ t0 \o <<n>> = t1 /\ t1 \o <<Comma>> = t2 /\ t2 \o <<"date">> = t3
        /\ t3 \o <<Comma>> = RowHead(n)
    <2>1. Short(C, n, Comma, "date", Comma)
      BY <1>2, ShortSequences
    <2>. QED  BY <2>1 DEF Short, RowHead
  <1>5. /\ Append(t0, n) = t1 /\ Append(t0, t1) = f1 /\ Append(t0, "date") = d
        /\ Append(f1, d) = f2
    <2>1. Append(t0, n) = t1 /\ Append(t0, "date") = d
      <3>1. Short(C, n, n, n, n) /\ Short(C, "date", n, n, n)
        BY <1>2, ShortSequences
      <3>. QED  BY <3>1 DEF Short
    <2>2. t1 \in Seq(C) /\ d \in Seq(C)
      BY <1>2
    <2> HIDE DEF t1, d
    <2> DEFINE S == Seq(C)
    <2>4. t1 \in S /\ d \in S
      BY <2>2
    <2> HIDE DEF S
    <2>5. Short(S, t1, d, d, d)
      BY <2>4, ShortSequences
    <2>3. Append(t0, t1) = f1 /\ Append(f1, d) = f2
      BY <2>5 DEF Short, S
    <2>. QED  BY <2>1, <2>3
  <1>6. Comma # QuoteMark /\ "date" # QuoteMark /\ "date" # Comma
    BY DEF Comma, QuoteMark
  <1>7. CsvReadCharacter(t0, t0, "plain", n) = Reading(t0, t1, "plain")
    <2> HIDE DEF t0, t1
    <2>. QED  BY <1>2, <1>5 DEF CsvReadCharacter
  <1>8. CsvReadCharacter(t0, t1, "plain", Comma) = Reading(f1, t0, "plain")
    <2>1. CsvReadCharacter(t0, t1, "plain", Comma) = Reading(Append(t0, t1), <<>>, "plain")
      <3> HIDE DEF t0, t1, f1
      <3>. QED  BY <1>6 DEF CsvReadCharacter
    <2> HIDE DEF t1, f1
    <2>. QED  BY <1>5, <2>1
  <1>9. CsvReadCharacter(f1, t0, "plain", "date") = Reading(f1, d, "plain")
    <2> HIDE DEF t0, d, f1
    <2>. QED  BY <1>5, <1>6 DEF CsvReadCharacter
  <1>10. CsvReadCharacter(f1, d, "plain", Comma) = Reading(f2, t0, "plain")
    <2>1. CsvReadCharacter(f1, d, "plain", Comma) = Reading(Append(f1, d), <<>>, "plain")
      <3> HIDE DEF d, f1, f2
      <3>. QED  BY <1>6 DEF CsvReadCharacter
    <2> HIDE DEF d, f1, f2
    <2>. QED  BY <1>5, <2>1
  <1>11. CsvFrom(C, s, t0) = Reading(t0, t0, "plain")
    <2>1. CsvFrom(C, s, <<>>) = s
      <3> HIDE DEF s
      <3>. QED  BY <1>1, CsvEmpty
    <2>. QED  BY <1>1, <2>1
  <1>12. CsvFrom(C, s, RowHead(n)) = Reading(f2, t0, "plain")
    <2> HIDE DEF s, t0, t1, t2, t3, d, f1, f2
    <2>1. CsvFrom(C, s, t1) = Reading(t0, t1, "plain")
      <3>1. CsvFrom(C, s, t0 \o <<n>>) = CsvReadCharacter(t0, t0, "plain", n)
        BY <1>1, <1>2, <1>3, <1>11, CsvMore
      <3>. QED  BY <1>4, <1>7, <3>1
    <2>2. CsvFrom(C, s, t2) = Reading(f1, t0, "plain")
      <3>1. CsvFrom(C, s, t1 \o <<Comma>>) = CsvReadCharacter(t0, t1, "plain", Comma)
        BY <1>1, <1>2, <1>3, <2>1, CsvMore
      <3>. QED  BY <1>4, <1>8, <3>1
    <2>3. CsvFrom(C, s, t3) = Reading(f1, d, "plain")
      <3>1. CsvFrom(C, s, t2 \o <<"date">>) = CsvReadCharacter(f1, t0, "plain", "date")
        BY <1>1, <1>2, <1>3, <2>2, CsvMore
      <3>. QED  BY <1>4, <1>9, <3>1
    <2>4. CsvFrom(C, s, t3 \o <<Comma>>) = CsvReadCharacter(f1, d, "plain", Comma)
      BY <1>1, <1>2, <1>3, <2>3, CsvMore
    <2>. QED  BY <1>4, <1>10, <2>4
  <1>. QED  BY <1>12

(* A text that is read on. *)
LEMMA CsvOn ==
  ASSUME NEW C, NEW s \in CsvStates(C), NEW t \in Seq(C), NEW u \in Seq(C), NEW r,
         CsvFrom(C, s, t) = r
  PROVE  CsvFrom(C, s, t \o u) = CsvFrom(C, r, u)
  <1>1. CsvFrom(C, s, t \o u) = CsvFrom(C, CsvFrom(C, s, t), u)
    BY CsvConcat
  <1>. QED  BY <1>1, Zenon

(* The description, read up to the comma after it. *)
LEMMA CsvFieldRead ==
  ASSUME NEW C, HasWords(C), NEW f \in Seq(Seq(C)), NEW d \in Seq(C)
  PROVE  CsvFrom(C, Reading(f, <<>>, "plain"), CsvField(d) \o <<Comma>>)
           = Reading(Append(f, d), <<>>, "plain")
  <1> DEFINE s == Reading(f, <<>>, "plain")
  <1>0. <<>> \in Seq(C) /\ Comma \in C /\ QuoteMark \in C /\ Comma # QuoteMark
    <2>1. Comma # QuoteMark
      BY DEF Comma, QuoteMark
    <2>. QED  BY <2>1 DEF HasWords
  <1>1. s \in CsvStates(C)
    <2>1. "plain" \in CsvModes
      BY DEF CsvModes
    <2>. QED  BY <1>0, <2>1, CsvStateIs
  <1>2. CASE ToSet(d) \cap {Comma, QuoteMark} = {}
    <2>1. d \in Seq(C \ {Comma, QuoteMark}) /\ CsvField(d) = d
      BY <1>2, PlainDescription
    <2>2. CsvFrom(C, s, d) = Reading(f, d, "plain")
      BY <2>1, CsvPlainRead
    <2> HIDE DEF s
    <2>3. CsvFrom(C, s, d \o <<Comma>>) = CsvReadCharacter(f, d, "plain", Comma)
      BY <1>0, <1>1, <2>2, CsvMore
    <2>4. CsvFrom(C, s, d \o <<Comma>>) = Reading(Append(f, d), <<>>, "plain")
      BY <1>0, <2>3 DEF CsvReadCharacter
    <2>. QED  BY <2>1, <2>4 DEF s
  <1>3. CASE ToSet(d) \cap {Comma, QuoteMark} # {}
    <2> DEFINE u == DoubledFrom(C, <<>>, d)
               r == Reading(f, <<>>, "quoted")
    <2>1. u \in Seq(C)
      BY <1>0, DoubledType
    <2>2. CsvField(d) = (<<QuoteMark>> \o u) \o <<QuoteMark>>
      BY <1>0, <1>3, QuotedDescription
    <2>3. <<QuoteMark>> \in Seq(C) /\ <<QuoteMark>> = <<>> \o <<QuoteMark>>
      BY <1>0
    <2>4. CsvFrom(C, s, <<QuoteMark>>) = r
      <3>1. CsvFrom(C, s, <<>>) = s
        <4> HIDE DEF s
        <4>. QED  BY <1>1, CsvEmpty
      <3>2. CsvFrom(C, s, <<>> \o <<QuoteMark>>) = CsvReadCharacter(f, <<>>, "plain", QuoteMark)
        <4> DEFINE e == <<>>
        <4>1. e \in Seq(C) /\ CsvFrom(C, s, e) = Reading(f, e, "plain")
          BY <1>0, <3>1
        <4> HIDE DEF e, s
        <4>2. CsvFrom(C, s, e \o <<QuoteMark>>) = CsvReadCharacter(f, e, "plain", QuoteMark)
          BY <1>0, <1>1, <4>1, CsvMore
        <4>. QED  BY <4>2 DEF e
      <3>. QED  BY <2>3, <3>2 DEF CsvReadCharacter
    <2>5. CsvFrom(C, r, u) = Reading(f, d, "quoted")
      BY <1>0, CsvDoubledRead
    <2> HIDE DEF s, u, r
    <2>6. CsvFrom(C, s, <<QuoteMark>> \o u) = Reading(f, d, "quoted")
      BY <1>1, <2>1, <2>3, <2>4, <2>5, CsvOn
    <2> DEFINE v == <<QuoteMark>> \o u
               w == v \o <<QuoteMark>>
    <2>7. v \in Seq(C) /\ w \in Seq(C)
      BY <1>0, <2>1, <2>3
    <2>8. CsvFrom(C, s, w) = Reading(f, d, "ending")
      <3>1. CsvFrom(C, s, v) = Reading(f, d, "quoted")
        BY <2>6
      <3> HIDE DEF v
      <3>2. CsvFrom(C, s, v \o <<QuoteMark>>) = CsvReadCharacter(f, d, "quoted", QuoteMark)
        BY <1>0, <1>1, <2>7, <3>1, CsvMore
      <3>. QED  BY <3>2 DEF CsvReadCharacter
    <2>9. CsvFrom(C, s, w \o <<Comma>>) = Reading(Append(f, d), <<>>, "plain")
      <3> HIDE DEF w
      <3>1. CsvFrom(C, s, w \o <<Comma>>) = CsvReadCharacter(f, d, "ending", Comma)
        BY <1>0, <1>1, <2>7, <2>8, CsvMore
      <3>. QED  BY <1>0, <3>1 DEF CsvReadCharacter
    <2>. QED  BY <2>2, <2>9 DEF s
  <1>. QED  BY <1>2, <1>3

(* The line of a snapshot, as it is printed. *)
RowLine(n, d, word) == ((RowHead(n) \o CsvField(d)) \o <<Comma>>) \o <<word>>

(* A row is read into its four fields. *)
LEMMA CsvRowRead ==
  ASSUME NEW C, HasWords(C), NEW n \in C \ {Comma, QuoteMark}, NEW d \in Seq(C),
         NEW word \in C \ {Comma, QuoteMark}
  PROVE  /\ RowLine(n, d, word) \in Seq(C)
         /\ ParseCsvRow(RowLine(n, d, word))
              = [malformed |-> FALSE, fields |-> << <<n>>, <<"date">>, d, <<word>> >>]
  <1> DEFINE h == RowHead(n)
             b == CsvField(d)
             f == << <<n>>, <<"date">> >>
             f3 == << <<n>>, <<"date">>, d >>
             r == Reading(f, <<>>, "plain")
             x == b \o <<Comma>>
             t == h \o x
  <1>1. h \in Seq(C) /\ b \in Seq(C) /\ <<Comma>> \in Seq(C) /\ <<>> \in Seq(C) /\ QuoteMark \in C
    <2>1. QuoteMark \in C /\ Comma \in C /\ "date" \in C
      BY DEF HasWords
    <2>2. h \in Seq(C)
      BY <2>1 DEF RowHead
    <2>3. b \in Seq(C)
      BY <2>1, CsvFieldType
    <2>. QED  BY <2>1, <2>2, <2>3
  <1>2. f \in Seq(Seq(C)) /\ Append(f, d) = f3
    <2>1. "date" \in C
      BY DEF HasWords
    <2>2. <<n>> \in Seq(C) /\ <<"date">> \in Seq(C)
      BY <2>1
    <2> DEFINE p == <<n>>
               q == <<"date">>
    <2>3. p \in Seq(C) /\ q \in Seq(C)
      BY <2>2
    <2> HIDE DEF p, q
    <2> DEFINE S == Seq(C)
    <2>5. p \in S /\ q \in S /\ d \in S
      BY <2>3
    <2> HIDE DEF S
    <2>6. Short(S, p, q, d, d)
      BY <2>5, ShortSequences
    <2>4. << p, q >> \in Seq(Seq(C)) /\ Append(<< p, q >>, d) = << p, q, d >>
      BY <2>6 DEF Short, S
    <2>. QED  BY <2>4 DEF p, q
  <1>3. CsvFrom(C, ReadStart, h) = r
    BY CsvHeadRead
  <1>4. CsvFrom(C, r, x) = Reading(f3, <<>>, "plain")
    <2>1. CsvFrom(C, r, x) = Reading(Append(f, d), <<>>, "plain")
      <3> HIDE DEF f
      <3>. QED  BY <1>2, CsvFieldRead
    <2> HIDE DEF r, f, f3, x
    <2>. QED  BY <1>2, <2>1
  <1>5. ReadStart \in CsvStates(C)
    BY ReadStartIs
  <1> HIDE DEF h, b
  <1>6. x \in Seq(C) /\ t \in Seq(C) /\ (h \o b) \o <<Comma>> = t
    BY <1>1
  <1> HIDE DEF x, r
  <1>7. CsvFrom(C, ReadStart, t) = Reading(f3, <<>>, "plain")
    <2> HIDE DEF f3
    <2>. QED  BY <1>1, <1>3, <1>4, <1>5, <1>6, CsvOn
  <1> HIDE DEF t
  <1>8. CsvFrom(C, ReadStart, t \o <<word>>) = CsvReadCharacter(f3, <<>>, "plain", word)
    <2> HIDE DEF f3
    <2>. QED  BY <1>5, <1>6, <1>7, CsvMore
  <1>9. CsvFrom(C, ReadStart, t \o <<word>>) = Reading(f3, <<word>>, "plain")
    <2>1. Append(<<>>, word) = <<word>>
      OBVIOUS
    <2> HIDE DEF f3
    <2>. QED  BY <1>8, <2>1 DEF CsvReadCharacter
  <1>10. RowLine(n, d, word) = t \o <<word>> /\ t \o <<word>> \in Seq(C)
    BY <1>6 DEF RowLine, h, b
  <1>11. ParseCsvRow(t \o <<word>>) = [malformed |-> "plain" = "quoted", fields |-> Append(f3, <<word>>)]
    <2> DEFINE u == t \o <<word>>
               g == <<word>>
    <2>1. u \in Seq(C) /\ CsvFrom(C, ReadStart, u) = Reading(f3, g, "plain")
      BY <1>9, <1>10
    <2> HIDE DEF f3, u, g
    <2>2. ParseCsvRow(u) = [malformed |-> "plain" = "quoted", fields |-> Append(f3, g)]
      BY <2>1, CsvRowIs
    <2>. QED  BY <2>2 DEF u, g
  <1>12. Append(f3, <<word>>) = << <<n>>, <<"date">>, d, <<word>> >>
    <2> DEFINE p == <<n>>
               q == <<"date">>
               g == <<word>>
    <2>2. "date" \in C
      BY DEF HasWords
    <2>3. p \in Seq(C) /\ q \in Seq(C) /\ g \in Seq(C)
      BY <2>2
    <2> HIDE DEF p, q, g
    <2> DEFINE S == Seq(C)
    <2>5. p \in S /\ q \in S /\ d \in S /\ g \in S
      BY <2>3
    <2> HIDE DEF S
    <2>6. Short(S, p, q, d, g)
      BY <2>5, ShortSequences
    <2>1. Append(<< p, q, d >>, g) = << p, q, d, g >>
      BY <2>6 DEF Short, S
    <2>. QED  BY <2>1 DEF p, q, g
  <1> HIDE DEF f3, f
  <1>. QED  BY <1>10, <1>11, <1>12

(* Numbers are printed as different words, none of which is a comma, a quote *)
(* or a newline.                                                             *)
LEMMA NumberWordsDiffer ==
  ASSUME NEW C, HasWords(C), NEW n \in DOMAIN NumberWords
  PROVE  /\ NumberWords[n] \in C \ {Comma, QuoteMark, Newline} /\ NumberWords[n] # "0"
         /\ \A m \in DOMAIN NumberWords : NumberWords[m] = NumberWords[n] => m = n
  <1>1. NumberWords[n] \in C
    BY DEF HasWords
  <1>2. NumberWords[n] \notin {"0", Comma, QuoteMark, Newline}
    BY NumberWordsAre
  <1>3. \A m \in DOMAIN NumberWords : NumberWords[m] = NumberWords[n] => m = n
    BY NumberWordsAssumption
  <1>. QED  BY <1>1, <1>2, <1>3

(* Whether a snapshot is read-only, as it is printed. *)
YesOrNo(readOnly) == IF readOnly THEN "yes" ELSE "no"

(* The last word of a row says whether the snapshot is read-only.            *)
LEMMA YesOrNoIs ==
  ASSUME NEW C, HasWords(C), NEW readOnly \in BOOLEAN
  PROVE  /\ YesOrNo(readOnly) \in C \ {Comma, QuoteMark, Newline}
         /\ (YesOrNo(readOnly) = "yes") = readOnly
  <1>1. {"yes", "no"} \subseteq C \ {Comma, QuoteMark, Newline}
    <2>1. {"yes", "no"} \subseteq C
      BY DEF HasWords
    <2>. QED  BY <2>1 DEF Comma, QuoteMark, Newline
  <1>2. YesOrNo(readOnly) \in {"yes", "no"}
    BY DEF YesOrNo
  <1>3. (YesOrNo(readOnly) = "yes") = readOnly
    BY DEF YesOrNo
  <1>. QED  BY <1>1, <1>2, <1>3

(* A row that fits is one more snapshot. *)
LEMMA RowRead ==
  ASSUME NEW C, HasWords(C), NEW l, NEW n \in DOMAIN NumberWords, NEW d \in Seq(C), NEW readOnly \in BOOLEAN
  PROVE  ReadRow(Listing(l, FALSE, RowLine(NumberWords[n], d, YesOrNo(readOnly))))
           = Listing(Append(l, [number |-> n, description |-> d, readOnly |-> readOnly]), FALSE, <<>>)
  <1> DEFINE line == RowLine(NumberWords[n], d, YesOrNo(readOnly))
             state == Listing(l, FALSE, line)
             w == NumberWords[n]
             y == YesOrNo(readOnly)
             row == ParseCsvRow(line)
             number == {m \in DOMAIN NumberWords : <<NumberWords[m]>> = row.fields[1]}
             found == [number |-> CHOOSE m \in number : TRUE, description |-> row.fields[3],
                       readOnly |-> row.fields[4] = <<"yes">>]
  <1>1. /\ w \in C \ {Comma, QuoteMark} /\ w # "0"
        /\ \A m \in DOMAIN NumberWords : NumberWords[m] = w => m = n
    BY NumberWordsDiffer
  <1>2. y \in C \ {Comma, QuoteMark} /\ (y = "yes") = readOnly
    BY YesOrNoIs
  <1>3. row = [malformed |-> FALSE, fields |-> << <<w>>, <<"date">>, d, <<y>> >>]
    <2> HIDE DEF w, y
    <2>1. ParseCsvRow(RowLine(w, d, y)) = [malformed |-> FALSE, fields |-> << <<w>>, <<"date">>, d, <<y>> >>]
      BY <1>1, <1>2, CsvRowRead
    <2>. QED  BY <2>1 DEF w, y
  <1>4. state.list = l /\ state.failed = FALSE /\ state.line = line
    <2> HIDE DEF line
    <2>. QED  BY DEF Listing
  <1> DEFINE p == <<w>>
             q == <<y>>
             date == <<"date">>
  <1>5. row.malformed = FALSE /\ row.fields = << p, date, d, q >>
    <2> HIDE DEF row, w, y
    <2>. QED  BY <1>3
  <1>6. p # <<"0">> /\ (q = <<"yes">>) = readOnly /\ \A m \in DOMAIN NumberWords : <<NumberWords[m]>> = p <=> m = n
    <2>1. p # <<"0">>
      <3> HIDE DEF w
      <3>. QED  BY <1>1
    <2>2. (q = <<"yes">>) = readOnly
      <3>1. q = <<"yes">> <=> y = "yes"
        <4> HIDE DEF y
        <4>. QED  OBVIOUS
      <3> HIDE DEF q, y
      <3>2. (q = <<"yes">>) \in BOOLEAN
        OBVIOUS
      <3>. QED  BY <1>2, <3>1, <3>2
    <2>3. \A m \in DOMAIN NumberWords : <<NumberWords[m]>> = p <=> NumberWords[m] = w
      <3> HIDE DEF w
      <3>. QED  OBVIOUS
    <2>4. \A m \in DOMAIN NumberWords : NumberWords[m] = w <=> m = n
      BY <1>1
    <2> HIDE DEF p, w
    <2>. QED  BY <2>1, <2>2, <2>3, <2>4
  <1> HIDE DEF row, state, line, p, q, date
  <1>7. Len(row.fields) = 4 /\ row.fields[1] = p /\ row.fields[3] = d /\ row.fields[4] = q
    BY <1>5
  <1>8. number = {n}
    <2>1. number = {m \in DOMAIN NumberWords : m = n}
      BY <1>6, <1>7
    <2> HIDE DEF number
    <2>. QED  BY <2>1
  <1>9. found = [number |-> n, description |-> d, readOnly |-> readOnly]
    <2>1. (CHOOSE m \in number : TRUE) = n
      <3> HIDE DEF number
      <3>. QED  BY <1>8
    <2> HIDE DEF number
    <2>. QED  BY <1>6, <1>7, <2>1
  <1>10. ReadRow(state) = (IF state.failed \/ row.malformed \/ Len(row.fields) # 4
      THEN Listing(state.list, TRUE, <<>>)
      ELSE IF row.fields[1] = <<"0">> THEN Listing(state.list, FALSE, <<>>)
      ELSE IF number = {} THEN Listing(state.list, TRUE, <<>>)
      ELSE Listing(Append(state.list, found), FALSE, <<>>))
    BY <1>4 DEF ReadRow, row
  <1> HIDE DEF number, found
  <1>11. number # {}
    BY <1>8
  <1>12. ReadRow(state) = Listing(Append(l, found), FALSE, <<>>)
    BY <1>4, <1>5, <1>6, <1>7, <1>10, <1>11
  <1>. QED  BY <1>9, <1>12 DEF state, line

(* The running system is not a snapshot. *)
LEMMA RunningRead ==
  ASSUME NEW C, HasWords(C), NEW l, NEW word \in C \ {Comma, QuoteMark}
  PROVE  ReadRow(Listing(l, FALSE, RowLine("0", <<"current">>, word))) = Listing(l, FALSE, <<>>)
  <1> DEFINE line == RowLine("0", <<"current">>, word)
             state == Listing(l, FALSE, line)
             row == ParseCsvRow(line)
             p == <<"0">>
             q == <<word>>
             date == <<"date">>
             d == <<"current">>
  <1>1. "0" \in C \ {Comma, QuoteMark} /\ d \in Seq(C)
    <2>1. "0" \in C /\ "current" \in C
      BY DEF HasWords
    <2>2. "0" # Comma /\ "0" # QuoteMark
      BY DEF Comma, QuoteMark
    <2>. QED  BY <2>1, <2>2
  <1>2. row = [malformed |-> FALSE, fields |-> << p, date, d, q >>]
    <2> HIDE DEF d
    <2>1. ParseCsvRow(RowLine("0", d, word)) = [malformed |-> FALSE, fields |-> << <<"0">>, <<"date">>, d, <<word>> >>]
      BY <1>1, CsvRowRead
    <2>. QED  BY <2>1 DEF d
  <1>3. state.list = l /\ state.failed = FALSE /\ state.line = line
    <2> HIDE DEF line
    <2>. QED  BY DEF Listing
  <1> HIDE DEF row, state, line, p, q, date, d
  <1>4. row.malformed = FALSE /\ Len(row.fields) = 4 /\ row.fields[1] = p
    BY <1>2
  <1>5. ReadRow(state) = Listing(l, FALSE, <<>>)
    BY <1>3, <1>4 DEF ReadRow, row, p
  <1>. QED  BY <1>5 DEF state, line

(* A row that does not fit ends the command. *)
LEMMA RowFails ==
  ASSUME NEW l, NEW b, NEW line,
         ParseCsvRow(line).malformed \/ Len(ParseCsvRow(line).fields) # 4
  PROVE  ReadRow(Listing(l, b, line)) = Listing(l, TRUE, <<>>)
  <1> DEFINE state == Listing(l, b, line)
  <1>1. state.list = l /\ state.failed = b /\ state.line = line
    BY ListingFields
  <1> HIDE DEF state
  <1>2. ReadRow(state) = Listing(l, TRUE, <<>>)
    BY <1>1 DEF ReadRow
  <1>. QED  BY <1>2 DEF state

(* Characters before the end of a line. *)
LEMMA OutLine ==
  ASSUME NEW C, NEW l \in Seq(SnapshotsOf(C)), NEW b \in BOOLEAN, NEW text \in Seq(C \ {Newline})
  PROVE  OutFrom(C, Listing(l, b, <<>>), text) = Listing(l, b, text)
  <1> DEFINE s == Listing(l, b, <<>>)
             P == C \ {Newline}
             Q == {t \in Seq(P) : OutFrom(C, s, t) = Listing(l, b, t)}
  <1>1. s \in ListStates(C)
    <2>1. <<>> \in Seq(C)
      OBVIOUS
    <2>. QED  BY <2>1, ListStateIs
  <1>2. P \subseteq C
    OBVIOUS
  <1>3. \A t \in Seq(P) : t \in Seq(C)
    <2> HIDE DEF P
    <2>. QED  BY <1>2
  <1>4. <<>> \in Q
    <2>1. <<>> \in Seq(P)
      OBVIOUS
    <2>2. OutFrom(C, s, <<>>) = s
      <3> HIDE DEF s
      <3>. QED  BY <1>1, OutEmpty
    <2>. QED  BY <2>1, <2>2
  <1>5. ASSUME NEW t \in Q, NEW ch \in P PROVE t \o <<ch>> \in Q
    <2>1. t \in Seq(P) /\ t \in Seq(C) /\ ch \in C /\ t \o <<ch>> \in Seq(P)
      BY <1>2, <1>3
    <2>2. ch # Newline
      OBVIOUS
    <2> DEFINE r == Listing(l, b, t)
    <2>3. OutFrom(C, s, t) = r
      OBVIOUS
    <2>4. r.list = l /\ r.failed = b /\ r.line = t
      BY ListingFields
    <2>5. OutFrom(C, s, t \o <<ch>>) = ReadOutput(r, ch)
      <3> HIDE DEF Q, s, P, r
      <3>. QED  BY <1>1, <2>1, <2>3, OutNext
    <2>6. ReadOutput(r, ch) = Listing(l, b, Append(t, ch))
      <3> HIDE DEF r
      <3>. QED  BY <2>2, <2>4 DEF ReadOutput
    <2>7. Append(t, ch) = t \o <<ch>>
      BY <2>1, AppendIsConcat
    <2>. QED  BY <2>1, <2>5, <2>6, <2>7
  <1>6. Q = Seq(P)
    <2> HIDE DEF Q, P
    <2>1. Q \subseteq Seq(P)
      BY DEF Q
    <2>. QED  BY <1>4, <1>5, <2>1, SeqInduction
  <1>. QED  BY <1>6

(* A list that failed stays failed, at a row and within one.                 *)
LEMMA FailedStays ==
  ASSUME NEW l, NEW b, b, NEW y
  PROVE  ReadRow(Listing(l, b, y)).failed /\ Listing(l, b, y).failed
  <1> DEFINE r == Listing(l, b, y)
  <1>1. r.failed
    BY DEF Listing
  <1> HIDE DEF r
  <1>2. ReadRow(r) = Listing(r.list, TRUE, <<>>)
    BY <1>1 DEF ReadRow
  <1>3. \A x, z : Listing(x, TRUE, z).failed
    BY DEF Listing
  <1>. QED  BY <1>1, <1>2, <1>3 DEF r

(* Nothing is read after a row that does not fit. *)
LEMMA OutFailed ==
  ASSUME NEW C, NEW s \in ListStates(C), s.failed, NEW text \in Seq(C)
  PROVE  OutFrom(C, s, text).failed
  <1> DEFINE Q == {t \in Seq(C) : OutFrom(C, s, t).failed}
  <1>1. <<>> \in Q
    <2>1. OutFrom(C, s, <<>>) = s /\ <<>> \in Seq(C)
      BY OutEmpty
    <2>. QED  BY <2>1
  <1>2. ASSUME NEW t \in Q, NEW ch \in C PROVE t \o <<ch>> \in Q
    <2> DEFINE r == OutFrom(C, s, t)
    <2>1. t \in Seq(C) /\ t \o <<ch>> \in Seq(C) /\ r.failed
      OBVIOUS
    <2>2. r \in ListStates(C) /\ OutFrom(C, s, t \o <<ch>>) = ReadOutput(r, ch)
      <3> HIDE DEF Q
      <3>. QED  BY <2>1, OutAppend
    <2> HIDE DEF r
    <2>3. \A x, y : Listing(x, TRUE, y).failed
      BY DEF Listing
    <2>4. Listing(r.list, r.failed, Append(r.line, ch)).failed
      BY <2>1 DEF Listing
    <2>5. \A y : ReadRow(Listing(r.list, r.failed, y)).failed /\ Listing(r.list, r.failed, y).failed
      BY <2>1, FailedStays
    <2>6. ReadOutput(r, ch).failed
      BY <2>1, <2>4, <2>5 DEF ReadOutput
    <2>. QED  BY <2>1, <2>2, <2>6
  <1>3. Q = Seq(C)
    <2> HIDE DEF Q
    <2>1. Q \subseteq Seq(C)
      BY DEF Q
    <2>. QED  BY <1>1, <1>2, <2>1, SeqInduction
  <1>. QED  BY <1>3

(* The end of a line that is not empty. *)
LEMMA OutLineEnds ==
  ASSUME NEW C, Newline \in C, NEW l \in Seq(SnapshotsOf(C)), NEW line \in Seq(C \ {Newline}), WithoutReturn(line) # <<>>
  PROVE  OutFrom(C, Listing(l, FALSE, <<>>), line \o <<Newline>>)
           = ReadRow(Listing(l, FALSE, WithoutReturn(line)))
  <1> DEFINE s == Listing(l, FALSE, <<>>)
             r == Listing(l, FALSE, line)
             P == C \ {Newline}
  <1>1. s \in ListStates(C) /\ line \in Seq(C)
    <2>1. <<>> \in Seq(C)
      OBVIOUS
    <2>2. P \subseteq C /\ line \in Seq(P)
      OBVIOUS
    <2>3. line \in Seq(C)
      <3> HIDE DEF P
      <3>. QED  BY <2>2
    <2>. QED  BY <2>1, <2>3, ListStateIs
  <1>2. OutFrom(C, s, line) = r
    BY OutLine
  <1>3. r.list = l /\ r.failed = FALSE /\ r.line = line
    BY DEF Listing
  <1> HIDE DEF s, r
  <1>4. OutFrom(C, s, line \o <<Newline>>) = ReadOutput(r, Newline)
    BY <1>1, <1>2, OutNext
  <1>5. ReadOutput(r, Newline) = ReadRow(Listing(l, FALSE, WithoutReturn(line)))
    BY <1>3 DEF ReadOutput
  <1>. QED  BY <1>4, <1>5 DEF s, r

(* The end of a line, by its last character. *)
LEMMA WithoutReturnLast ==
  ASSUME NEW C, NEW t \in Seq(C), NEW ch \in C
  PROVE  WithoutReturn(t \o <<ch>>) = IF ch = CarriageReturn THEN t ELSE t \o <<ch>>
  <1> DEFINE u == t \o <<ch>>
  <1>1. /\ u \in Seq(C) /\ Len(t) \in Nat /\ Len(u) = Len(t) + 1 /\ u[Len(t) + 1] = ch
        /\ \A i \in 1..Len(t) : u[i] = t[i]
    OBVIOUS
  <1> HIDE DEF u
  <1>2. u # <<>> /\ u[Len(u)] = ch /\ Len(u) - 1 = Len(t)
    BY <1>1
  <1> DEFINE v == SubSeq(u, 1, Len(t))
  <1>3. v \in Seq(C) /\ Len(v) = Len(t) /\ \A i \in 1..Len(t) : v[i] = u[i]
    BY <1>1
  <1> HIDE DEF v
  <1>4. v = t
    <2>1. \A i \in 1..Len(v) : v[i] = t[i]
      BY <1>1, <1>3
    <2>. QED  BY <1>3, <2>1, SeqEqual
  <1>5. WithoutReturn(u) = IF ch = CarriageReturn THEN SubSeq(u, 1, Len(u) - 1) ELSE u
    BY <1>2 DEF WithoutReturn
  <1>6. SubSeq(u, 1, Len(u) - 1) = v
    BY <1>2 DEF v
  <1>. QED  BY <1>4, <1>5, <1>6 DEF u

(* An empty line has no carriage return.                                     *)
LEMMA WithoutReturnEmpty == WithoutReturn(<<>>) = <<>>
  BY DEF WithoutReturn

(* A sequence has no element, or a last one. *)
HasLast(C, s) == \E t \in Seq(C), ch \in C : s = t \o <<ch>>

(* Every sequence is one or the other.                                       *)
LEMMA LastIs ==
  ASSUME NEW C, NEW s \in Seq(C)
  PROVE  s = <<>> \/ HasLast(C, s)
  <1> DEFINE Q == {t \in Seq(C) : t = <<>> \/ HasLast(C, t)}
  <1>1. <<>> \in Q
    OBVIOUS
  <1>2. \A t \in Q, ch \in C : t \o <<ch>> \in Q
    <2> SUFFICES ASSUME NEW t \in Q, NEW ch \in C PROVE t \o <<ch>> \in Q
      OBVIOUS
    <2>1. t \in Seq(C) /\ t \o <<ch>> \in Seq(C)
      OBVIOUS
    <2>2. HasLast(C, t \o <<ch>>)
      BY <2>1 DEF HasLast
    <2>. QED  BY <2>1, <2>2
  <1>3. Q = Seq(C)
    <2> HIDE DEF Q
    <2>1. Q \subseteq Seq(C)
      BY DEF Q
    <2>. QED  BY <1>1, <1>2, <2>1, SeqInduction
  <1>. QED  BY <1>3

-----------------------------------------------------------------------------
(***************************************************************************)
(* A newline in a description, and the carriage return before it.          *)
(***************************************************************************)

(* A text with a newline. *)
HasNewline(text) == \E i \in 1..Len(text) : text[i] = Newline

(* One more character is a newline, or the newlines are as before.           *)
LEMMA NewlineAppended ==
  ASSUME NEW C, NEW t \in Seq(C), NEW ch \in C
  PROVE  HasNewline(t \o <<ch>>) <=> (HasNewline(t) \/ ch = Newline)
  <1> DEFINE u == t \o <<ch>>
  <1>1. /\ Len(t) \in Nat /\ Len(u) = Len(t) + 1 /\ u[Len(t) + 1] = ch
        /\ \A i \in 1..Len(t) : u[i] = t[i]
    OBVIOUS
  <1> HIDE DEF u
  <1>2. HasNewline(u) <=> (HasNewline(t) \/ ch = Newline)
    BY <1>1 DEF HasNewline
  <1>. QED  BY <1>2 DEF u

(* A text without a newline is of the other characters.                      *)
LEMMA WithoutNewline ==
  ASSUME NEW C, NEW t \in Seq(C), ~HasNewline(t)
  PROVE  t \in Seq(C \ {Newline})
  <1> DEFINE P == C \ {Newline}
  <1>1. Len(t) \in Nat /\ t = [i \in 1..Len(t) |-> t[i]]
    OBVIOUS
  <1>2. \A i \in 1..Len(t) : t[i] \in P
    BY DEF HasNewline
  <1> HIDE DEF P
  <1>3. [i \in 1..Len(t) |-> t[i]] \in Seq(P)
    BY <1>1, <1>2
  <1>. QED  BY <1>1, <1>3 DEF P

(* How a text is spelled, character by character: a newline as it is, and    *)
(* nothing else as one.                                                      *)
Spelling(C, D, E) ==
  /\ D \in [Seq(C) -> Seq(C)] /\ E \in [C -> Seq(C)] /\ D[<<>>] = <<>>
  /\ \A t \in Seq(C), ch \in C : D[t \o <<ch>>] = D[t] \o E[ch]
  /\ E[Newline] = <<Newline>>

(* What is spelled of a text up to its first newline, and after it. *)
Breaks(C, D, t) ==
  \E p \in Seq(C \ {Newline}), rest \in Seq(C) : D[t] = (D[p] \o <<Newline>>) \o rest

(* A text with a newline has a first one.                                    *)
LEMMA FirstBreak ==
  ASSUME NEW C, Newline \in C, NEW D, NEW E, Spelling(C, D, E), NEW text \in Seq(C), HasNewline(text)
  PROVE  Breaks(C, D, text)
  <1> DEFINE P == C \ {Newline}
             Q == {t \in Seq(C) : HasNewline(t) => Breaks(C, D, t)}
  <1>1. <<>> \in Q
    BY DEF HasNewline
  <1>2. ASSUME NEW t \in Q, NEW ch \in C PROVE t \o <<ch>> \in Q
    <2>1. t \in Seq(C) /\ t \o <<ch>> \in Seq(C) /\ (HasNewline(t) => Breaks(C, D, t))
      OBVIOUS
    <2>2. /\ D[t] \in Seq(C) /\ E[ch] \in Seq(C) /\ D[t \o <<ch>>] = D[t] \o E[ch]
          /\ E[Newline] = <<Newline>>
      BY <2>1 DEF Spelling
    <2> HIDE DEF Q
    <2>3. ASSUME HasNewline(t) PROVE Breaks(C, D, t \o <<ch>>)
      <3>1. PICK p \in Seq(P), rest \in Seq(C) : D[t] = (D[p] \o <<Newline>>) \o rest
        BY <2>1, <2>3 DEF Breaks
      <3>2. p \in Seq(C)
        <4>1. P \subseteq C
          OBVIOUS
        <4> HIDE DEF P
        <4>. QED  BY <3>1, <4>1
      <3>3. D[p] \in Seq(C)
        BY <3>2 DEF Spelling
      <3> DEFINE a == D[p] \o <<Newline>>
                 e == E[ch]
      <3>4. a \in Seq(C)
        BY <3>3
      <3>5. D[t] = a \o rest /\ e \in Seq(C)
        BY <2>2, <3>1
      <3> HIDE DEF a, e
      <3>6. (a \o rest) \o e = a \o (rest \o e) /\ rest \o e \in Seq(C)
        BY <3>1, <3>4, <3>5
      <3>7. D[t \o <<ch>>] = a \o (rest \o e)
        BY <2>2, <3>5, <3>6 DEF e
      <3> DEFINE r == rest \o e
      <3>8. r \in Seq(C) /\ D[t \o <<ch>>] = (D[p] \o <<Newline>>) \o r
        BY <3>6, <3>7 DEF a
      <3> HIDE DEF r
      <3>. QED  BY <3>1, <3>8 DEF Breaks
    <2>4. ASSUME ~HasNewline(t), ch = Newline PROVE Breaks(C, D, t \o <<ch>>)
      <3>1. t \in Seq(P)
        BY <2>1, <2>4, WithoutNewline
      <3>2. D[t \o <<ch>>] = D[t] \o <<Newline>>
        BY <2>2, <2>4
      <3> DEFINE a == D[t] \o <<Newline>>
                 e == <<>>
      <3>3. a \in Seq(C) /\ e \in Seq(C) /\ a \o e = a
        <4>1. a \in Seq(C)
          BY <2>2
        <4> HIDE DEF a
        <4>. QED  BY <4>1
      <3>4. D[t \o <<ch>>] = (D[t] \o <<Newline>>) \o e
        BY <3>2, <3>3
      <3> HIDE DEF e
      <3>. QED  BY <3>1, <3>3, <3>4 DEF Breaks
    <2>5. HasNewline(t \o <<ch>>) => HasNewline(t) \/ ch = Newline
      BY <2>1, NewlineAppended
    <2>. QED  BY <2>1, <2>3, <2>4, <2>5 DEF Q
  <1>3. Q = Seq(C)
    <2> HIDE DEF Q
    <2>1. Q \subseteq Seq(C)
      BY DEF Q
    <2>. QED  BY <1>1, <1>2, <2>1, SeqInduction
  <1>. QED  BY <1>3

(* A text that is not quoted is spelled as it is. *)
AsItIs(C) == [t \in Seq(C) |-> t]
EachAsItIs(C) == [ch \in C |-> <<ch>>]

(* That is a spelling.                                                       *)
LEMMA AsItIsSpells ==
  ASSUME NEW C, Newline \in C
  PROVE  Spelling(C, AsItIs(C), EachAsItIs(C))
  <1>1. AsItIs(C) \in [Seq(C) -> Seq(C)] /\ \A t \in Seq(C) : AsItIs(C)[t] = t
    BY DEF AsItIs
  <1>2. EachAsItIs(C) \in [C -> Seq(C)] /\ \A ch \in C : EachAsItIs(C)[ch] = <<ch>>
    BY DEF EachAsItIs
  <1>3. <<>> \in Seq(C) /\ \A t \in Seq(C), ch \in C : t \o <<ch>> \in Seq(C)
    OBVIOUS
  <1> DEFINE D == AsItIs(C)
             E == EachAsItIs(C)
             S == Seq(C)
  <1> HIDE DEF D, E, S
  <1>4. D[<<>>] = <<>> /\ E[Newline] = <<Newline>>
    BY <1>1, <1>2, <1>3 DEF D, E, S
  <1>5. ASSUME NEW t \in S, NEW ch \in C PROVE D[t \o <<ch>>] = D[t] \o E[ch]
    <2>1. t \o <<ch>> \in S
      BY <1>3 DEF S
    <2>2. D[t \o <<ch>>] = t \o <<ch>> /\ D[t] = t
      BY <1>1, <2>1 DEF D, S
    <2>3. E[ch] = <<ch>>
      BY <1>2 DEF E
    <2>. QED  BY <2>2, <2>3
  <1>. QED  BY <1>1, <1>2, <1>4, <1>5 DEF Spelling, D, E, S

(* One that is quoted has its quotes doubled. *)
AsDoubled(C) == [t \in Seq(C) |-> DoubledFrom(C, <<>>, t)]
EachDoubled(C) == [ch \in C |-> IF ch = QuoteMark THEN <<QuoteMark, QuoteMark>> ELSE <<ch>>]

(* That is a spelling.                                                       *)
LEMMA AsDoubledSpells ==
  ASSUME NEW C, Newline \in C, QuoteMark \in C
  PROVE  Spelling(C, AsDoubled(C), EachDoubled(C))
  <1> DEFINE D == AsDoubled(C)
             E == EachDoubled(C)
  <1>0. <<>> \in Seq(C) /\ \A t \in Seq(C), ch \in C : t \o <<ch>> \in Seq(C)
    OBVIOUS
  <1>1. \A t \in Seq(C) : DoubledFrom(C, <<>>, t) \in Seq(C)
    BY DoubledType
  <1>2. D \in [Seq(C) -> Seq(C)] /\ \A t \in Seq(C) : D[t] = DoubledFrom(C, <<>>, t)
    BY <1>1 DEF AsDoubled
  <1>3. E \in [C -> Seq(C)] /\ \A ch \in C : E[ch] = IF ch = QuoteMark THEN <<QuoteMark, QuoteMark>> ELSE <<ch>>
    BY DEF EachDoubled
  <1> HIDE DEF D, E
  <1>4. D[<<>>] = <<>>
    <2>1. DoubledFrom(C, <<>>, <<>>) = <<>>
      BY <1>0, DoubledEmpty
    <2>. QED  BY <1>0, <1>2, <2>1
  <1>5. E[Newline] = <<Newline>>
    <2>1. Newline # QuoteMark
      BY DEF Newline, QuoteMark
    <2>. QED  BY <1>3, <2>1
  <1>6. ASSUME NEW t \in Seq(C), NEW ch \in C PROVE D[t \o <<ch>>] = D[t] \o E[ch]
    <2>1. DoubledFrom(C, <<>>, t \o <<ch>>) = DoubleCharacter(DoubledFrom(C, <<>>, t), ch)
      BY <1>0, DoubledAppend
    <2>2. D[t \o <<ch>>] = DoubleCharacter(D[t], ch) /\ D[t] \in Seq(C)
      BY <1>0, <1>1, <1>2, <2>1
    <2> DEFINE d == D[t]
    <2> HIDE DEF d
    <2>3. CASE ch = QuoteMark
      <3>1. DoubleCharacter(d, ch) = (d \o <<QuoteMark>>) \o <<QuoteMark>>
        BY <2>3 DEF DoubleCharacter
      <3>2. <<QuoteMark, QuoteMark>> = <<QuoteMark>> \o <<QuoteMark>>
        <4>1. Short(C, QuoteMark, QuoteMark, QuoteMark, QuoteMark)
          BY ShortSequences
        <4>. QED  BY <4>1 DEF Short
      <3>3. (d \o <<QuoteMark>>) \o <<QuoteMark>> = d \o (<<QuoteMark>> \o <<QuoteMark>>)
        <4> DEFINE q == <<QuoteMark>>
        <4>1. q \in Seq(C) /\ d \in Seq(C)
          BY <2>2 DEF d
        <4> HIDE DEF q
        <4>2. (d \o q) \o q = d \o (q \o q)
          BY <4>1
        <4>. QED  BY <4>2 DEF q
      <3>4. E[ch] = <<QuoteMark, QuoteMark>>
        BY <1>3, <2>3
      <3>. QED  BY <2>2, <3>1, <3>2, <3>3, <3>4 DEF d
    <2>4. CASE ch # QuoteMark
      BY <1>3, <2>2, <2>4 DEF DoubleCharacter
    <2>. QED  BY <2>3, <2>4
  <1>7. Spelling(C, D, E)
    BY <1>2, <1>3, <1>4, <1>5, <1>6 DEF Spelling
  <1>. QED  BY <1>7 DEF D, E

(* Concatenations, grouped from the left. *)
GroupsLeft(S, a, b, c) == a \o (b \o c) = (a \o b) \o c /\ a \o b \in Seq(S) /\ b \o c \in Seq(S)

(* They may be grouped either way.                                           *)
LEMMA Grouped ==
  ASSUME NEW S, NEW a \in Seq(S), NEW b \in Seq(S), NEW c \in Seq(S)
  PROVE  GroupsLeft(S, a, b, c)
  <1>1. a \o (b \o c) = (a \o b) \o c /\ a \o b \in Seq(S) /\ b \o c \in Seq(S)
    OBVIOUS
  <1>. QED  BY <1>1 DEF GroupsLeft

(* A description with a newline after p, between the head and the tail of a row. *)
GroupsPlain(S, h, p, e, r, t) ==
  (h \o ((p \o e) \o r)) \o t = ((h \o p) \o e) \o (r \o t) /\ r \o t \in Seq(S)

(* They may be grouped either way.                                           *)
LEMMA GroupedPlain ==
  ASSUME NEW S, NEW h \in Seq(S), NEW p \in Seq(S), NEW e \in Seq(S), NEW r \in Seq(S), NEW t \in Seq(S)
  PROVE  GroupsPlain(S, h, p, e, r, t)
  <1> DEFINE a == p \o e
             b == h \o a
             c == h \o p
             d == c \o e
  <1>1. GroupsLeft(S, h, p, e)
    BY Grouped
  <1>2. a \in Seq(S) /\ c \in Seq(S) /\ b = d
    BY <1>1 DEF GroupsLeft
  <1> HIDE DEF a, c
  <1>3. GroupsLeft(S, h, a, r)
    BY <1>2, Grouped
  <1>4. b \in Seq(S) /\ h \o (a \o r) = b \o r
    BY <1>3 DEF GroupsLeft
  <1> HIDE DEF b, d
  <1>5. GroupsLeft(S, b, r, t)
    BY <1>4, Grouped
  <1>6. b \o (r \o t) = (b \o r) \o t /\ r \o t \in Seq(S)
    BY <1>5 DEF GroupsLeft
  <1>7. (h \o (a \o r)) \o t = d \o (r \o t)
    BY <1>2, <1>4, <1>6
  <1>. QED  BY <1>6, <1>7 DEF GroupsPlain, a, c, d

(* The same, of a description within quotes. *)
GroupsQuoted(S, h, q, b, e, r, t) ==
  /\ (h \o ((q \o ((b \o e) \o r)) \o q)) \o t = (((h \o q) \o b) \o e) \o ((r \o q) \o t)
  /\ (r \o q) \o t \in Seq(S)

(* They may be grouped either way.                                           *)
LEMMA GroupedQuoted ==
  ASSUME NEW S, NEW h \in Seq(S), NEW q \in Seq(S), NEW b \in Seq(S), NEW e \in Seq(S),
         NEW r \in Seq(S), NEW t \in Seq(S)
  PROVE  GroupsQuoted(S, h, q, b, e, r, t)
  <1> DEFINE v == r \o q
             w == q \o b
             k == h \o w
  <1>1. v \in Seq(S) /\ w \in Seq(S)
    OBVIOUS
  <1>2. (q \o ((b \o e) \o r)) \o q = (w \o e) \o v
    <2>1. GroupsPlain(S, q, b, e, r, q)
      BY GroupedPlain
    <2>. QED  BY <2>1 DEF GroupsPlain
  <1>3. k = (h \o q) \o b
    <2>1. GroupsLeft(S, h, q, b)
      BY Grouped
    <2>. QED  BY <2>1 DEF GroupsLeft
  <1> HIDE DEF v, w
  <1>4. (h \o ((w \o e) \o v)) \o t = (k \o e) \o (v \o t) /\ v \o t \in Seq(S)
    <2>1. GroupsPlain(S, h, w, e, v, t)
      BY <1>1, GroupedPlain
    <2>. QED  BY <2>1 DEF GroupsPlain
  <1> HIDE DEF k
  <1>. QED  BY <1>2, <1>3, <1>4 DEF v, GroupsQuoted

(* A concatenation is empty only where both its parts are.                   *)
LEMMA LongerThan ==
  ASSUME NEW S, NEW a \in Seq(S), NEW b \in Seq(S), a # <<>> \/ b # <<>>
  PROVE  a \o b \in Seq(S) /\ a \o b # <<>>
  <1>1. /\ Len(a) \in Nat /\ Len(b) \in Nat /\ Len(a) + Len(b) > 0
    OBVIOUS
  <1>2. a \o b \in Seq(S) /\ Len(a \o b) = Len(a) + Len(b)
    OBVIOUS
  <1> DEFINE c == a \o b
  <1> HIDE DEF c
  <1>3. c # <<>>
    BY <1>1, <1>2 DEF c
  <1>. QED  BY <1>2, <1>3 DEF c

(* A row that ends outside quotes, and one that ends within them. *)
LEMMA CsvPlainEnd ==
  ASSUME NEW C, NEW row \in Seq(C), NEW f, NEW g, CsvFrom(C, ReadStart, row) = Reading(f, g, "plain")
  PROVE  ParseCsvRow(row).fields = Append(f, g)
  <1>1. Scan(ReadCharacter, ReadStart, row) = Reading(f, g, "plain")
    BY ReadStartIs, CsvReadingScan DEF CsvFrom
  <1>2. Reading(f, g, "plain").fields = f /\ Reading(f, g, "plain").field = g
    BY DEF Reading
  <1>. QED  BY <1>1, <1>2 DEF ParseCsvRow

(* A row that ends within quotes is malformed.                               *)
LEMMA CsvQuotedEnd ==
  ASSUME NEW C, NEW row \in Seq(C), NEW f, NEW g, CsvFrom(C, ReadStart, row) = Reading(f, g, "quoted")
  PROVE  ParseCsvRow(row).malformed
  <1>1. Scan(ReadCharacter, ReadStart, row) = Reading(f, g, "quoted")
    BY ReadStartIs, CsvReadingScan DEF CsvFrom
  <1>2. Reading(f, g, "quoted").mode = "quoted"
    BY DEF Reading
  <1>. QED  BY <1>1, <1>2 DEF ParseCsvRow

(* A printed row, around its description. *)
IsAround(C, row, head, field, tail) == tail \in Seq(C) /\ row = (head \o field) \o tail

(* A printed row is around its description.                                  *)
LEMMA CsvRowAround ==
  ASSUME NEW C, HasWords(C), NEW number \in C, NEW description \in Seq(C), NEW readOnly \in BOOLEAN
  PROVE  IsAround(C, CsvRow(number, description, readOnly), RowHead(number), CsvField(description), RowTail(readOnly))
  <1>1. RowTail(readOnly) \in Seq(C)
    BY DEF RowTail, HasWords
  <1>2. CsvField(description) \in Seq(C)
    BY CsvFieldType DEF HasWords
  <1>3. RowHead(number) \in Seq(C)
    BY DEF RowHead, HasWords
  <1>4. CsvRow(number, description, readOnly) = (RowHead(number) \o CsvField(description)) \o RowTail(readOnly)
    BY <1>2 DEF CsvRow, RowHead, RowTail
  <1>. QED  BY <1>1, <1>4 DEF IsAround

(* The row of a snapshot is a line and its end. *)
IsRowLine(C, row, line) ==
  /\ line \in Seq(C \ {Newline}) /\ line # <<>> /\ WithoutReturn(line) = line
  /\ row = line \o <<Newline>>

(* A snapshot without a newline in its description is printed as such a row. *)
LEMMA RowLineIs ==
  ASSUME NEW C, HasWords(C), NEW n \in C \ {Comma, QuoteMark, Newline}, NEW d \in Seq(C \ {Newline}),
         NEW readOnly \in BOOLEAN
  PROVE  IsRowLine(C, CsvRow(n, d, readOnly), RowLine(n, d, YesOrNo(readOnly)))
  <1> DEFINE P == C \ {Newline}
             y == YesOrNo(readOnly)
             h == RowHead(n)
             b == CsvField(d)
  <1>1. n \in P /\ Comma \in P /\ QuoteMark \in P /\ "date" \in P /\ y \in P /\ P \subseteq C /\ Newline \in C
    <2>1. Comma # Newline /\ QuoteMark # Newline /\ "date" # Newline
      BY DEF Comma, QuoteMark, Newline
    <2>2. y \in C \ {Comma, QuoteMark, Newline}
      BY YesOrNoIs
    <2> HIDE DEF y
    <2>. QED  BY <2>1, <2>2 DEF HasWords
  <1> HIDE DEF P, y
  <1>2. h \in Seq(P)
    BY <1>1 DEF RowHead
  <1>3. b \in Seq(P) /\ d \in Seq(P)
    <2>1. d \in Seq(P)
      BY DEF P
    <2>. QED  BY <1>1, <2>1, CsvFieldType
  <1>4. <<Comma>> \in Seq(P) /\ <<y>> \in Seq(P) /\ <<Newline>> \in Seq(C)
    BY <1>1
  <1>5. RowLine(n, d, y) = ((h \o b) \o <<Comma>>) \o <<y>>
    BY DEF RowLine
  <1>6. CsvRow(n, d, readOnly) = (h \o b) \o RowTail(readOnly)
    <2>1. d \in Seq(C) /\ n \in C
      BY <1>1, <1>3
    <2>2. IsAround(C, CsvRow(n, d, readOnly), h, b, RowTail(readOnly))
      BY <2>1, CsvRowAround
    <2> HIDE DEF h, b
    <2>. QED  BY <2>2 DEF IsAround
  <1>7. RowTail(readOnly) = (<<Comma>> \o <<y>>) \o <<Newline>>
    <2>1. y \in C /\ Comma \in C
      BY <1>1
    <2>2. Short(C, Comma, y, Newline, Newline)
      BY <1>1, <2>1, ShortSequences
    <2>3. RowTail(readOnly) = <<Comma, y, Newline>>
      BY DEF RowTail, y, YesOrNo
    <2>. QED  BY <2>2, <2>3 DEF Short
  <1> DEFINE a == h \o b
             c == <<Comma>>
             z == <<y>>
             e == <<Newline>>
  <1>8. a \in Seq(P)
    <2> HIDE DEF h, b
    <2>. QED  BY <1>2, <1>3
  <1>9. a \in Seq(C) /\ c \in Seq(C) /\ z \in Seq(C) /\ e \in Seq(C) /\ d \in Seq(C)
    <2> HIDE DEF a
    <2>. QED  BY <1>1, <1>3, <1>4, <1>8
  <1> HIDE DEF a, c, z, e
  <1>10. a \o ((c \o z) \o e) = ((a \o c) \o z) \o e
    BY <1>9
  <1>11. CsvRow(n, d, readOnly) = RowLine(n, d, y) \o <<Newline>>
    BY <1>5, <1>6, <1>7, <1>10 DEF a, c, z, e
  <1>12. RowLine(n, d, y) \in Seq(P) /\ RowLine(n, d, y) # <<>>
    <2>1. c \in Seq(P) /\ z \in Seq(P)
      BY <1>4 DEF c, z
    <2>2. z # <<>>
      BY DEF z
    <2>3. a \o c \in Seq(P)
      BY <1>8, <2>1
    <2>4. (a \o c) \o z \in Seq(P) /\ (a \o c) \o z # <<>>
      BY <2>1, <2>2, <2>3, LongerThan
    <2>. QED  BY <1>5, <2>4 DEF a, c, z
  <1>13. WithoutReturn(RowLine(n, d, y)) = RowLine(n, d, y)
    <2>1. y # CarriageReturn
      BY DEF y, YesOrNo, CarriageReturn
    <2> DEFINE v == a \o c
    <2>2. v \in Seq(C) /\ y \in C
      BY <1>1, <1>9
    <2> HIDE DEF v
    <2>3. WithoutReturn(v \o <<y>>) = v \o <<y>>
      BY <2>1, <2>2, WithoutReturnLast
    <2>. QED  BY <1>5, <2>3 DEF v, a, c
  <1>. QED  BY <1>11, <1>12, <1>13 DEF P, y, IsRowLine

(* A snapshot without a newline in its description is one more of the list. *)
LEMMA OutRowRead ==
  ASSUME NEW C, HasWords(C), NEW l \in Seq(SnapshotsOf(C)), NEW n \in DOMAIN NumberWords,
         NEW d \in Seq(C), ~HasNewline(d), NEW readOnly \in BOOLEAN
  PROVE  OutFrom(C, Listing(l, FALSE, <<>>), CsvRow(NumberWords[n], d, readOnly))
           = Listing(Append(l, [number |-> n, description |-> d, readOnly |-> readOnly]), FALSE, <<>>)
  <1> DEFINE w == NumberWords[n]
             y == YesOrNo(readOnly)
             line == RowLine(w, d, y)
  <1>1. w \in C \ {Comma, QuoteMark, Newline} /\ Newline \in C
    BY NumberWordsDiffer DEF HasWords
  <1>2. d \in Seq(C \ {Newline})
    BY WithoutNewline
  <1>3. line \in Seq(C \ {Newline}) /\ line # <<>> /\ CsvRow(w, d, readOnly) = line \o <<Newline>>
        /\ WithoutReturn(line) = line
    <2>1. IsRowLine(C, CsvRow(w, d, readOnly), line)
      <3> HIDE DEF w
      <3>. QED  BY <1>1, <1>2, RowLineIs
    <2> HIDE DEF line
    <2>. QED  BY <2>1 DEF IsRowLine
  <1>4. ReadRow(Listing(l, FALSE, line))
          = Listing(Append(l, [number |-> n, description |-> d, readOnly |-> readOnly]), FALSE, <<>>)
    BY RowRead
  <1> HIDE DEF line
  <1>5. OutFrom(C, Listing(l, FALSE, <<>>), line \o <<Newline>>) = ReadRow(Listing(l, FALSE, line))
    <2>1. Newline \in C /\ line \in Seq(C \ {Newline}) /\ WithoutReturn(line) # <<>>
      BY <1>1, <1>3
    <2>2. OutFrom(C, Listing(l, FALSE, <<>>), line \o <<Newline>>)
            = ReadRow(Listing(l, FALSE, WithoutReturn(line)))
      BY <2>1, OutLineEnds
    <2>. QED  BY <1>3, <2>2
  <1>. QED  BY <1>3, <1>4, <1>5

(* What is printed first is the running system. *)
LEMMA OutRunningRead ==
  ASSUME NEW C, HasWords(C)
  PROVE  /\ CsvRow("0", <<"current">>, FALSE) \in Seq(C)
         /\ OutFrom(C, ListStart, CsvRow("0", <<"current">>, FALSE)) = Listing(<<>>, FALSE, <<>>)
         /\ ListStart \in ListStates(C)
  <1> DEFINE d == <<"current">>
             y == YesOrNo(FALSE)
             line == RowLine("0", d, y)
             e == <<>>
  <1>1. "0" \in C \ {Comma, QuoteMark, Newline} /\ Newline \in C /\ d \in Seq(C \ {Newline}) /\ d \in Seq(C)
    <2>1. "0" \in C /\ Newline \in C /\ "current" \in C
      BY DEF HasWords
    <2>2. "0" # Comma /\ "0" # QuoteMark /\ "0" # Newline /\ "current" # Newline
      BY DEF Comma, QuoteMark, Newline
    <2>. QED  BY <2>1, <2>2
  <1>2. y \in C \ {Comma, QuoteMark}
    BY YesOrNoIs
  <1>3. e \in Seq(SnapshotsOf(C)) /\ e \in Seq(C)
    OBVIOUS
  <1>4. ReadRow(Listing(e, FALSE, line)) = Listing(e, FALSE, <<>>)
    <2> HIDE DEF y
    <2>. QED  BY <1>2, RunningRead
  <1> HIDE DEF d, e
  <1>5. line \in Seq(C \ {Newline}) /\ line # <<>> /\ CsvRow("0", d, FALSE) = line \o <<Newline>>
        /\ WithoutReturn(line) = line
    <2>1. IsRowLine(C, CsvRow("0", d, FALSE), line)
      BY <1>1, RowLineIs
    <2> HIDE DEF line
    <2>. QED  BY <2>1 DEF IsRowLine
  <1>6. CsvRow("0", d, FALSE) \in Seq(C)
    BY <1>1, CsvRowParts
  <1> HIDE DEF line
  <1>7. OutFrom(C, Listing(e, FALSE, <<>>), line \o <<Newline>>) = ReadRow(Listing(e, FALSE, line))
    BY <1>1, <1>3, <1>5, OutLineEnds
  <1>8. ListStart = Listing(e, FALSE, e)
    BY DEF ListStart, e
  <1>9. ListStart \in ListStates(C)
    BY <1>3, <1>8, ListStateIs
  <1>. QED  BY <1>4, <1>5, <1>6, <1>7, <1>8, <1>9 DEF d, e

(* A text that is read on. *)
LEMMA OutOn ==
  ASSUME NEW C, NEW s \in ListStates(C), NEW t \in Seq(C), NEW u \in Seq(C), NEW r,
         OutFrom(C, s, t) = r
  PROVE  OutFrom(C, s, t \o u) = OutFrom(C, r, u)
  <1>1. OutFrom(C, s, t \o u) = OutFrom(C, OutFrom(C, s, t), u)
    BY OutConcat
  <1>. QED  BY <1>1, Zenon

(* A line that is no row ends the command, whatever follows it. *)
IsNoRow(line) == line # <<>> /\ (ParseCsvRow(line).malformed \/ Len(ParseCsvRow(line).fields) # 4)

(* After such a line the command has failed.                                 *)
LEMMA OutBroken ==
  ASSUME NEW C, Newline \in C, NEW l \in Seq(SnapshotsOf(C)), NEW g \in Seq(C \ {Newline}), NEW rest \in Seq(C),
         IsNoRow(WithoutReturn(g))
  PROVE  OutFrom(C, Listing(l, FALSE, <<>>), (g \o <<Newline>>) \o rest).failed
  <1> DEFINE s == Listing(l, FALSE, <<>>)
             r == Listing(l, TRUE, <<>>)
             t == g \o <<Newline>>
             P == C \ {Newline}
  <1>1. s \in ListStates(C) /\ r \in ListStates(C)
    <2>1. <<>> \in Seq(C)
      OBVIOUS
    <2>. QED  BY <2>1, ListStateIs
  <1>2. t \in Seq(C)
    <2>1. P \subseteq C /\ g \in Seq(P)
      OBVIOUS
    <2>2. g \in Seq(C)
      <3> HIDE DEF P
      <3>. QED  BY <2>1
    <2>. QED  BY <2>2
  <1>3. OutFrom(C, s, t) = r
    <2>1. OutFrom(C, s, t) = ReadRow(Listing(l, FALSE, WithoutReturn(g)))
      BY OutLineEnds DEF IsNoRow
    <2>2. ReadRow(Listing(l, FALSE, WithoutReturn(g))) = r
      <3> DEFINE k == WithoutReturn(g)
      <3>1. ParseCsvRow(k).malformed \/ Len(ParseCsvRow(k).fields) # 4
        BY DEF IsNoRow
      <3> HIDE DEF k
      <3>2. ReadRow(Listing(l, FALSE, k)) = Listing(l, TRUE, <<>>)
        BY <3>1, RowFails
      <3>. QED  BY <3>2 DEF k
    <2>. QED  BY <2>1, <2>2
  <1>4. r.failed
    BY DEF Listing
  <1> HIDE DEF s, r, t
  <1>5. OutFrom(C, s, t \o rest) = OutFrom(C, r, rest)
    BY <1>1, <1>2, <1>3, OutOn
  <1>6. OutFrom(C, r, rest).failed
    BY <1>1, <1>4, OutFailed
  <1>. QED  BY <1>5, <1>6 DEF s, t

(* A row with a newline in its description starts with such a line. *)
StartsBroken(C, row) ==
  \E g \in Seq(C \ {Newline}), rest \in Seq(C) :
    row = (g \o <<Newline>>) \o rest /\ IsNoRow(WithoutReturn(g))

(* What comes before the description. *)
LEMMA RowHeadIs ==
  ASSUME NEW C, HasWords(C), NEW n \in C \ {Comma, QuoteMark, Newline}
  PROVE  /\ RowHead(n) \in Seq(C \ {Newline}) /\ RowHead(n) \in Seq(C) /\ RowHead(n) # <<>>
         /\ << <<n>>, <<"date">> >> \in Seq(Seq(C))
  <1> DEFINE P == C \ {Newline}
  <1>1. n \in P /\ Comma \in P /\ "date" \in P /\ P \subseteq C
    <2>1. Comma # Newline /\ "date" # Newline
      BY DEF Comma, Newline
    <2>. QED  BY <2>1 DEF HasWords
  <1> HIDE DEF P
  <1>2. RowHead(n) \in Seq(P) /\ RowHead(n) # <<>>
    BY <1>1 DEF RowHead
  <1>3. RowHead(n) \in Seq(C)
    BY <1>1, <1>2
  <1> DEFINE p == <<n>>
             q == <<"date">>
  <1>4. p \in Seq(C) /\ q \in Seq(C)
    BY <1>1
  <1> HIDE DEF p, q
  <1>5. << p, q >> \in Seq(Seq(C))
    BY <1>4
  <1>. QED  BY <1>2, <1>3, <1>5 DEF P, p, q

(* The carriage return at the end of a line is the one at the end of its     *)
(* description, where that is what the line ends with.                       *)
EndsOtherwise(C, a) == \E b \in Seq(C), x \in C : x # CarriageReturn /\ a = b \o <<x>>

(* The end of a line is the end of what was added to it.                     *)
LEMMA WithoutReturnConcat ==
  ASSUME NEW C, NEW a \in Seq(C), EndsOtherwise(C, a), NEW p \in Seq(C)
  PROVE  WithoutReturn(a \o p) = a \o WithoutReturn(p)
  <1>1. CASE p = <<>>
    <2>1. PICK b \in Seq(C), x \in C : x # CarriageReturn /\ a = b \o <<x>>
      BY DEF EndsOtherwise
    <2>2. WithoutReturn(a) = a
      BY <2>1, WithoutReturnLast
    <2>3. a \o <<>> = a
      OBVIOUS
    <2>. QED  BY <1>1, <2>2, <2>3, WithoutReturnEmpty
  <1>2. CASE HasLast(C, p)
    <2>1. PICK t \in Seq(C), ch \in C : p = t \o <<ch>>
      BY <1>2 DEF HasLast
    <2> DEFINE e == <<ch>>
               u == a \o t
    <2>2. a \o p = u \o e /\ u \in Seq(C)
      <3>1. e \in Seq(C)
        OBVIOUS
      <3> HIDE DEF e
      <3>2. GroupsLeft(C, a, t, e)
        BY <3>1, Grouped
      <3>. QED  BY <2>1, <3>2 DEF GroupsLeft, e
    <2>3. WithoutReturn(t \o e) = IF ch = CarriageReturn THEN t ELSE t \o e
      BY WithoutReturnLast
    <2>4. WithoutReturn(u \o e) = IF ch = CarriageReturn THEN u ELSE u \o e
      <3> HIDE DEF u
      <3>. QED  BY <2>2, WithoutReturnLast
    <2> HIDE DEF e
    <2>5. CASE ch = CarriageReturn
      <3>1. WithoutReturn(p) = t /\ WithoutReturn(a \o p) = u
        BY <2>1, <2>2, <2>3, <2>4, <2>5 DEF e
      <3>. QED  BY <3>1
    <2>6. CASE ch # CarriageReturn
      <3>1. WithoutReturn(p) = p /\ WithoutReturn(a \o p) = a \o p
        BY <2>1, <2>2, <2>3, <2>4, <2>6 DEF e
      <3>. QED  BY <3>1
    <2>. QED  BY <2>5, <2>6
  <1>. QED  BY <1>1, <1>2, LastIs

(* It is not doubled. *)
LEMMA WithoutReturnDoubled ==
  ASSUME NEW C, QuoteMark \in C, NEW p \in Seq(C)
  PROVE  WithoutReturn(DoubledFrom(C, <<>>, p)) = DoubledFrom(C, <<>>, WithoutReturn(p))
  <1> DEFINE dbl(t) == DoubledFrom(C, <<>>, t)
  <1>0. <<>> \in Seq(C)
    OBVIOUS
  <1>1. dbl(<<>>) = <<>>
    BY <1>0, DoubledEmpty
  <1>2. \A t \in Seq(C), ch \in C : dbl(t) \in Seq(C) /\ dbl(t \o <<ch>>) = DoubleCharacter(dbl(t), ch)
    BY <1>0, DoubledAppend
  <1> HIDE DEF dbl
  <1>3. CASE p = <<>>
    <2>1. WithoutReturn(p) = p /\ dbl(p) = p
      BY <1>1, <1>3, WithoutReturnEmpty
    <2>. QED  BY <2>1 DEF dbl
  <1>4. CASE HasLast(C, p)
    <2>1. PICK t \in Seq(C), ch \in C : p = t \o <<ch>>
      BY <1>4 DEF HasLast
    <2> DEFINE u == IF ch = QuoteMark THEN dbl(t) \o <<QuoteMark>> ELSE dbl(t)
    <2>2. u \in Seq(C) /\ dbl(p) = u \o <<ch>>
      <3> DEFINE v == dbl(t)
      <3>2. v \in Seq(C)
        BY <1>2, <2>1
      <3>1. v \in Seq(C) /\ v \o <<QuoteMark>> \in Seq(C)
        <4> HIDE DEF v
        <4>. QED  BY <3>2
      <3>. QED  BY <1>2, <2>1, <3>1 DEF DoubleCharacter
    <2> HIDE DEF u
    <2>3. WithoutReturn(u \o <<ch>>) = IF ch = CarriageReturn THEN u ELSE u \o <<ch>>
      BY <2>2, WithoutReturnLast
    <2>4. WithoutReturn(t \o <<ch>>) = IF ch = CarriageReturn THEN t ELSE t \o <<ch>>
      BY WithoutReturnLast
    <2>5. CASE ch = CarriageReturn
      <3>1. u = dbl(t)
        BY <2>5 DEF u, CarriageReturn, QuoteMark
      <3>2. WithoutReturn(p) = t /\ WithoutReturn(dbl(p)) = u
        BY <2>1, <2>2, <2>3, <2>4, <2>5
      <3>. QED  BY <3>1, <3>2 DEF dbl
    <2>6. CASE ch # CarriageReturn
      <3>1. WithoutReturn(p) = p /\ WithoutReturn(dbl(p)) = dbl(p)
        BY <2>1, <2>2, <2>3, <2>4, <2>6
      <3>. QED  BY <3>1 DEF dbl
    <2>. QED  BY <2>5, <2>6
  <1>. QED  BY <1>3, <1>4, LastIs

(* The head of a row ends with a comma.                                      *)
LEMMA RowHeadEnds ==
  ASSUME NEW C, HasWords(C), NEW n \in C
  PROVE  EndsOtherwise(C, RowHead(n))
  <1> DEFINE b == <<n, Comma, "date">>
  <1>1. Comma \in C /\ "date" \in C /\ Comma # CarriageReturn
    <2>1. Comma # CarriageReturn
      BY DEF Comma, CarriageReturn
    <2>. QED  BY <2>1 DEF HasWords
  <1>2. b \in Seq(C) /\ RowHead(n) = b \o <<Comma>>
    <2>1. Short(C, n, Comma, "date", Comma)
      BY <1>1, ShortSequences
    <2>. QED  BY <2>1 DEF Short, RowHead
  <1> HIDE DEF b
  <1>. QED  BY <1>1, <1>2 DEF EndsOtherwise

(* Up to the newline, a row whose description is not quoted has too few      *)
(* fields.                                                                   *)
LEMMA PlainStartsBroken ==
  ASSUME NEW C, HasWords(C), NEW n \in C \ {Comma, QuoteMark, Newline}, NEW d \in Seq(C), HasNewline(d),
         ToSet(d) \cap {Comma, QuoteMark} = {}, NEW readOnly \in BOOLEAN
  PROVE  StartsBroken(C, CsvRow(n, d, readOnly))
  <1> DEFINE K == C \ {Comma, QuoteMark}
             P == C \ {Newline}
             h == RowHead(n)
             f == << <<n>>, <<"date">> >>
             tail == RowTail(readOnly)
             D == AsItIs(K)
  <1>1. d \in Seq(K) /\ CsvField(d) = d
    BY PlainDescription
  <1>2. Newline \in K /\ Newline \in C /\ n \in C \ {Comma, QuoteMark} /\ n \in C
    <2>1. Newline # Comma /\ Newline # QuoteMark
      BY DEF Newline, Comma, QuoteMark
    <2>. QED  BY <2>1 DEF HasWords
  <1>3. PICK p \in Seq(K \ {Newline}), rest \in Seq(K) : D[d] = (D[p] \o <<Newline>>) \o rest
    <2> HIDE DEF K
    <2>1. Spelling(K, AsItIs(K), EachAsItIs(K))
      BY <1>2, AsItIsSpells
    <2>2. Breaks(K, AsItIs(K), d)
      BY <1>1, <1>2, <2>1, FirstBreak
    <2>. QED  BY <2>2 DEF Breaks
  <1>4. p \in Seq(K) /\ p \in Seq(P) /\ rest \in Seq(C)
    <2>1. K \ {Newline} \subseteq K /\ K \ {Newline} \subseteq P /\ K \subseteq C
      OBVIOUS
    <2> DEFINE J == K \ {Newline}
    <2> HIDE DEF J, K, P
    <2>. QED  BY <1>3, <2>1 DEF J
  <1>5. d = (p \o <<Newline>>) \o rest
    <2>1. D[d] = d /\ D[p] = p
      <3> HIDE DEF K
      <3>. QED  BY <1>1, <1>4 DEF AsItIs
    <2>. QED  BY <1>3, <2>1
  <1>6. h \in Seq(P) /\ h \in Seq(C) /\ h # <<>> /\ f \in Seq(Seq(C))
    BY RowHeadIs
  <1>7. tail \in Seq(C) /\ CsvRow(n, d, readOnly) = (h \o d) \o tail
    <2>1. IsAround(C, CsvRow(n, d, readOnly), h, CsvField(d), tail)
      BY <1>2, CsvRowAround
    <2> HIDE DEF h, tail
    <2>. QED  BY <1>1, <2>1 DEF IsAround
  <1> DEFINE g == h \o p
             u == rest \o tail
             e == <<Newline>>
  <1>8. p \in Seq(C) /\ e \in Seq(C)
    <2>1. P \subseteq C
      OBVIOUS
    <2> HIDE DEF P
    <2>. QED  BY <1>2, <1>4, <2>1
  <1>9. g \in Seq(P)
    <2> HIDE DEF h, P
    <2>. QED  BY <1>4, <1>6, LongerThan
  <1>10. CsvRow(n, d, readOnly) = (g \o <<Newline>>) \o u /\ u \in Seq(C)
    <2>1. CsvRow(n, d, readOnly) = (h \o ((p \o e) \o rest)) \o tail
      BY <1>5, <1>7
    <2> HIDE DEF h, tail, e
    <2>2. (h \o ((p \o e) \o rest)) \o tail = ((h \o p) \o e) \o (rest \o tail) /\ rest \o tail \in Seq(C)
      <3>1. GroupsPlain(C, h, p, e, rest, tail)
        BY <1>4, <1>6, <1>7, <1>8, GroupedPlain
      <3>. QED  BY <3>1 DEF GroupsPlain
    <2>. QED  BY <2>1, <2>2 DEF e
  <1> DEFINE t == WithoutReturn(p)
             line == h \o t
  <1>11. t \in Seq(K) /\ t \in Seq(C)
    <2>1. K \subseteq C
      OBVIOUS
    <2> HIDE DEF K
    <2>2. t \in Seq(K)
      BY <1>4, WithoutReturnIs
    <2> HIDE DEF t
    <2>. QED  BY <2>1, <2>2
  <1>12. WithoutReturn(g) = line /\ line \in Seq(C) /\ line # <<>>
    <2>1. EndsOtherwise(C, h)
      BY <1>2, RowHeadEnds
    <2> HIDE DEF h
    <2>2. WithoutReturn(g) = line
      BY <1>6, <1>8, <2>1, WithoutReturnConcat
    <2> HIDE DEF t, g
    <2>. QED  BY <1>6, <1>11, <2>2, LongerThan
  <1> HIDE DEF t
  <1>13. CsvFrom(C, ReadStart, line) = Reading(f, t, "plain")
    <2>1. CsvFrom(C, ReadStart, h) = Reading(f, <<>>, "plain")
      BY <1>2, CsvHeadRead
    <2>2. CsvFrom(C, Reading(f, <<>>, "plain"), t) = Reading(f, t, "plain")
      <3> HIDE DEF f
      <3>. QED  BY <1>6, <1>11, CsvPlainRead
    <2>3. ReadStart \in CsvStates(C)
      BY ReadStartIs
    <2> DEFINE r == Reading(f, <<>>, "plain")
    <2> HIDE DEF r, h, f
    <2>4. CsvFrom(C, ReadStart, h \o t) = CsvFrom(C, r, t)
      BY <1>6, <1>11, <2>1, <2>3, CsvOn DEF r
    <2>. QED  BY <2>2, <2>4 DEF r
  <1>14. Len(ParseCsvRow(line).fields) # 4
    <2> HIDE DEF line, f
    <2>2. ParseCsvRow(line).fields = Append(f, t)
      BY <1>12, <1>13, CsvPlainEnd
    <2>3. Len(f) = 2
      BY DEF f
    <2>4. Len(Append(f, t)) = 3
      <3> DEFINE S == Seq(C)
      <3>1. f \in Seq(S) /\ t \in S
        BY <1>6, <1>11
      <3> HIDE DEF S
      <3>2. Len(Append(f, t)) = Len(f) + 1
        BY <3>1
      <3>. QED  BY <2>3, <3>2
    <2>. QED  BY <2>2, <2>4
  <1> HIDE DEF g, u, line
  <1>15. IsNoRow(WithoutReturn(g))
    BY <1>12, <1>14 DEF IsNoRow
  <1>. QED  BY <1>9, <1>10, <1>15 DEF StartsBroken

(* Up to the newline, a row whose description is quoted ends within its      *)
(* quotes.                                                                   *)
LEMMA QuotedStartsBroken ==
  ASSUME NEW C, HasWords(C), NEW n \in C \ {Comma, QuoteMark, Newline}, NEW d \in Seq(C), HasNewline(d),
         ToSet(d) \cap {Comma, QuoteMark} # {}, NEW readOnly \in BOOLEAN
  PROVE  StartsBroken(C, CsvRow(n, d, readOnly))
  <1> DEFINE P == C \ {Newline}
             h == RowHead(n)
             f == << <<n>>, <<"date">> >>
             tail == RowTail(readOnly)
             q == <<QuoteMark>>
             e == <<Newline>>
             dbl(t) == DoubledFrom(C, <<>>, t)
             D == AsDoubled(C)
  <1>1. QuoteMark \in C /\ Newline \in C /\ n \in C \ {Comma, QuoteMark} /\ n \in C /\ QuoteMark \in P
    <2>1. Newline # QuoteMark
      BY DEF Newline, QuoteMark
    <2>. QED  BY <2>1 DEF HasWords
  <1>2. CsvField(d) = (q \o dbl(d)) \o q
    BY <1>1, QuotedDescription
  <1>3. PICK p \in Seq(P), rest \in Seq(C) : D[d] = (D[p] \o <<Newline>>) \o rest
    <2>1. Spelling(C, AsDoubled(C), EachDoubled(C))
      BY <1>1, AsDoubledSpells
    <2>2. Breaks(C, AsDoubled(C), d)
      BY <1>1, <2>1, FirstBreak
    <2>. QED  BY <2>2 DEF Breaks
  <1>4. p \in Seq(C) /\ P \subseteq C
    <2>1. P \subseteq C
      OBVIOUS
    <2> HIDE DEF P
    <2>. QED  BY <1>3, <2>1
  <1>5. dbl(p) \in Seq(P) /\ dbl(p) \in Seq(C) /\ dbl(d) \in Seq(C)
    <2>1. Scan(DoubleCharacter, <<>>, p) = dbl(p) /\ dbl(p) \in Seq(C) /\ dbl(d) \in Seq(C)
      BY <1>1, <1>4, DoubledType
    <2>2. Scan(DoubleCharacter, <<>>, p) \in Seq(P)
      <3> HIDE DEF P
      <3>1. DoubledFrom(P, <<>>, p) \in Seq(P) /\ Scan(DoubleCharacter, <<>>, p) = DoubledFrom(P, <<>>, p)
        BY <1>1, <1>3, DoubledType
      <3>. QED  BY <3>1
    <2>. QED  BY <2>1, <2>2
  <1>6. dbl(d) = (dbl(p) \o e) \o rest
    <2>1. D[d] = dbl(d) /\ D[p] = dbl(p)
      BY <1>4 DEF AsDoubled
    <2>. QED  BY <1>3, <2>1
  <1>7. h \in Seq(P) /\ h \in Seq(C) /\ h # <<>> /\ f \in Seq(Seq(C))
    BY RowHeadIs
  <1>8. tail \in Seq(C) /\ CsvRow(n, d, readOnly) = (h \o ((q \o dbl(d)) \o q)) \o tail
    <2>1. IsAround(C, CsvRow(n, d, readOnly), h, CsvField(d), tail)
      BY <1>1, CsvRowAround
    <2> HIDE DEF h, tail, q, dbl
    <2>. QED  BY <1>2, <2>1 DEF IsAround
  <1>9. q \in Seq(P) /\ q \in Seq(C) /\ e \in Seq(C)
    BY <1>1
  <1> DEFINE b == dbl(p)
             t == h \o q
             g == t \o b
             u == (rest \o q) \o tail
  <1>10. t \in Seq(P) /\ t \in Seq(C)
    <2> HIDE DEF h, q, P
    <2>. QED  BY <1>7, <1>9
  <1>11. g \in Seq(P) /\ t # <<>>
    <2> HIDE DEF h, q, P, b
    <2>1. t # <<>>
      BY <1>7, <1>9, LongerThan
    <2>2. b \in Seq(P)
      BY <1>5 DEF b
    <2> HIDE DEF t
    <2>. QED  BY <1>10, <2>1, <2>2, LongerThan
  <1>12. CsvRow(n, d, readOnly) = (g \o <<Newline>>) \o u /\ u \in Seq(C)
    <2>1. CsvRow(n, d, readOnly) = (h \o ((q \o ((b \o e) \o rest)) \o q)) \o tail
      BY <1>6, <1>8
    <2>2. b \in Seq(C)
      BY <1>5
    <2> HIDE DEF h, tail, e, q, b
    <2>3. /\ (h \o ((q \o ((b \o e) \o rest)) \o q)) \o tail = (((h \o q) \o b) \o e) \o ((rest \o q) \o tail)
          /\ (rest \o q) \o tail \in Seq(C)
      <3>1. GroupsQuoted(C, h, q, b, e, rest, tail)
        BY <1>7, <1>8, <1>9, <2>2, GroupedQuoted
      <3>. QED  BY <3>1 DEF GroupsQuoted
    <2>. QED  BY <2>1, <2>3 DEF e
  <1> DEFINE k == WithoutReturn(p)
             c == dbl(k)
             line == t \o c
  <1>13. k \in Seq(C) /\ c \in Seq(C)
    <2>1. k \in Seq(C)
      BY <1>4, WithoutReturnIs
    <2> HIDE DEF k
    <2>. QED  BY <1>1, <2>1, DoubledType
  <1>14. WithoutReturn(g) = line /\ line \in Seq(C) /\ line # <<>>
    <2>1. EndsOtherwise(C, t)
      <3>1. QuoteMark # CarriageReturn
        BY DEF QuoteMark, CarriageReturn
      <3> HIDE DEF h
      <3>. QED  BY <1>1, <1>7, <3>1 DEF EndsOtherwise
    <2>2. WithoutReturn(b) = c
      BY <1>1, <1>4, WithoutReturnDoubled
    <2>3. b \in Seq(C)
      BY <1>5
    <2> HIDE DEF t, b, c
    <2>4. WithoutReturn(g) = t \o WithoutReturn(b)
      BY <1>10, <2>1, <2>3, WithoutReturnConcat
    <2>5. t \o c \in Seq(C) /\ t \o c # <<>>
      BY <1>10, <1>11, <1>13, LongerThan
    <2>. QED  BY <2>2, <2>4, <2>5
  <1> HIDE DEF k
  <1>15. CsvFrom(C, ReadStart, line) = Reading(f, k, "quoted")
    <2> DEFINE r == Reading(f, <<>>, "plain")
               r1 == Reading(f, <<>>, "quoted")
    <2>1. CsvFrom(C, ReadStart, h) = r
      BY <1>1, CsvHeadRead
    <2>2. CsvFrom(C, ReadStart, t) = r1
      <3>1. ReadStart \in CsvStates(C)
        BY ReadStartIs
      <3> DEFINE e0 == <<>>
      <3> HIDE DEF h, f, e0
      <3>2. CsvFrom(C, ReadStart, h \o <<QuoteMark>>) = CsvReadCharacter(f, e0, "plain", QuoteMark)
        BY <1>1, <1>7, <2>1, <3>1, CsvMore DEF e0
      <3>3. CsvFrom(C, ReadStart, h \o <<QuoteMark>>) = Reading(f, e0, "quoted")
        BY <3>2 DEF CsvReadCharacter
      <3>. QED  BY <3>3 DEF e0
    <2>3. CsvFrom(C, r1, c) = Reading(f, k, "quoted")
      <3> HIDE DEF f
      <3>. QED  BY <1>1, <1>7, <1>13, CsvDoubledRead
    <2>4. ReadStart \in CsvStates(C)
      BY ReadStartIs
    <2> HIDE DEF r1, t, c
    <2>6. CsvFrom(C, ReadStart, t \o c) = CsvFrom(C, r1, c)
      BY <1>10, <1>13, <2>2, <2>4, CsvOn
    <2>. QED  BY <2>3, <2>6
  <1>16. ParseCsvRow(line).malformed
    <2> HIDE DEF line, f
    <2>. QED  BY <1>14, <1>15, CsvQuotedEnd
  <1> HIDE DEF g, u, line
  <1>17. IsNoRow(WithoutReturn(g))
    BY <1>14, <1>16 DEF IsNoRow
  <1>. QED  BY <1>11, <1>12, <1>17 DEF StartsBroken

(* So it ends the command. *)
LEMMA OutRowBroken ==
  ASSUME NEW C, HasWords(C), NEW l \in Seq(SnapshotsOf(C)), NEW n \in DOMAIN NumberWords,
         NEW d \in Seq(C), HasNewline(d), NEW readOnly \in BOOLEAN
  PROVE  OutFrom(C, Listing(l, FALSE, <<>>), CsvRow(NumberWords[n], d, readOnly)).failed
  <1> DEFINE w == NumberWords[n]
             row == CsvRow(w, d, readOnly)
  <1>1. w \in C \ {Comma, QuoteMark, Newline} /\ Newline \in C
    BY NumberWordsDiffer DEF HasWords
  <1>2. StartsBroken(C, row)
    <2> HIDE DEF w
    <2>. QED  BY <1>1, PlainStartsBroken, QuotedStartsBroken
  <1> HIDE DEF row
  <1>3. PICK g \in Seq(C \ {Newline}), rest \in Seq(C) :
          row = (g \o <<Newline>>) \o rest /\ IsNoRow(WithoutReturn(g))
    BY <1>2 DEF StartsBroken
  <1>4. OutFrom(C, Listing(l, FALSE, <<>>), (g \o <<Newline>>) \o rest).failed
    BY <1>1, <1>3, OutBroken
  <1>. QED  BY <1>3, <1>4 DEF row

-----------------------------------------------------------------------------
(***************************************************************************)
(* A printed list is read as what snapper has, or not at all.              *)
(***************************************************************************)

(* No description of the list has a newline. *)
Whole(list) == \A i \in 1..Len(list) : ~HasNewline(list[i].description)

(* One more snapshot, with a newline in its description or without.          *)
LEMMA WholeAppended ==
  ASSUME NEW S, NEW l \in Seq(S), NEW x \in S
  PROVE  Whole(l \o <<x>>) <=> (Whole(l) /\ ~HasNewline(x.description))
  <1> DEFINE u == l \o <<x>>
  <1>1. /\ Len(l) \in Nat /\ Len(u) = Len(l) + 1 /\ u[Len(l) + 1] = x
        /\ \A i \in 1..Len(l) : u[i] = l[i]
    OBVIOUS
  <1> HIDE DEF u
  <1>2. Whole(u) <=> (Whole(l) /\ ~HasNewline(x.description))
    BY <1>1 DEF Whole
  <1>. QED  BY <1>2 DEF u

(* How a list is read from its print: as it is, or not at all. *)
ReadsBack(C, l, text) ==
  LET end == OutFrom(C, ListStart, text)
  IN  IF Whole(l) THEN end = Listing(l, FALSE, <<>>) ELSE end.failed

(* The row of the running system. *)
Running == CsvRow("0", <<"current">>, FALSE)

(* Row by row: the inductive invariant of reading what is printed.           *)
LEMMA PrintReadsBack ==
  ASSUME NEW C, HasWords(C), NEW list \in Seq(SnapshotsOf(C))
  PROVE  /\ PrintedFrom(C, Running, list) \in Seq(C)
         /\ ReadsBack(C, list, PrintedFrom(C, Running, list))
  <1> DEFINE S == SnapshotsOf(C)
             prints(l) == PrintedFrom(C, Running, l)
             Q == {l \in Seq(S) : prints(l) \in Seq(C) /\ ReadsBack(C, l, prints(l))}
  <1>1. /\ Running \in Seq(C) /\ ListStart \in ListStates(C)
        /\ OutFrom(C, ListStart, Running) = Listing(<<>>, FALSE, <<>>)
    BY OutRunningRead DEF Running
  <1>2. <<>> \in Q
    <2>1. prints(<<>>) = Running
      BY <1>1, PrintedEmpty
    <2>2. Whole(<<>>)
      BY DEF Whole
    <2>3. <<>> \in Seq(S)
      OBVIOUS
    <2>4. ReadsBack(C, <<>>, Running)
      BY <1>1, <2>2 DEF ReadsBack
    <2>. QED  BY <1>1, <2>1, <2>3, <2>4
  <1>3. ASSUME NEW l \in Q, NEW x \in S PROVE l \o <<x>> \in Q
    <2>1. l \in Seq(S) /\ l \o <<x>> \in Seq(S) /\ prints(l) \in Seq(C) /\ ReadsBack(C, l, prints(l))
      OBVIOUS
    <2> HIDE DEF Q
    <2>2. PICK n \in DOMAIN NumberWords, d \in Seq(C), b \in BOOLEAN :
            x = [number |-> n, description |-> d, readOnly |-> b]
      <3>1. x.number \in DOMAIN NumberWords /\ x.description \in Seq(C) /\ x.readOnly \in BOOLEAN
            /\ x = [number |-> x.number, description |-> x.description, readOnly |-> x.readOnly]
        BY DEF SnapshotsOf
      <3>. QED  BY <3>1
    <2> DEFINE row == CsvRow(NumberWords[n], d, b)
               t == prints(l)
    <2>3. prints(l \o <<x>>) = t \o row
      <3>1. prints(l \o <<x>>) = PrintRow(prints(l), x)
        <4> HIDE DEF Running
        <4>. QED  BY <1>1, <2>1, PrintedAppend
      <3>2. x.number = n /\ x.description = d /\ x.readOnly = b
        BY <2>2
      <3> HIDE DEF prints
      <3>3. PrintRow(t, x) = t \o row
        BY <3>2 DEF PrintRow
      <3>. QED  BY <3>1, <3>3
    <2>4. row \in Seq(C)
      <3>1. NumberWords[n] \in C
        BY NumberWordsDiffer
      <3> DEFINE w == NumberWords[n]
      <3> HIDE DEF w
      <3>2. CsvRow(w, d, b) \in Seq(C)
        BY <3>1, CsvRowParts DEF w
      <3>. QED  BY <3>2 DEF w
    <2>5. t \in Seq(C) /\ (t \o row) \in Seq(C)
      <3> HIDE DEF t, row
      <3>1. t \in Seq(C)
        BY <2>1 DEF t
      <3>. QED  BY <2>4, <3>1
    <2>6. Whole(l \o <<x>>) <=> (Whole(l) /\ ~HasNewline(d))
      <3>1. x.description = d
        BY <2>2
      <3> HIDE DEF S
      <3>. QED  BY <2>1, <3>1, WholeAppended
    <2> DEFINE r == OutFrom(C, ListStart, t)
    <2>7. OutFrom(C, ListStart, t \o row) = OutFrom(C, r, row) /\ r \in ListStates(C)
      <3> HIDE DEF t, row
      <3>1. OutFrom(C, ListStart, t) \in ListStates(C)
        BY <1>1, <2>5, OutputtingIs, ScanOfType DEF OutFrom
      <3>2. OutFrom(C, ListStart, t \o row) = OutFrom(C, OutFrom(C, ListStart, t), row)
        BY <1>1, <2>4, <2>5, OutConcat
      <3>. QED  BY <3>1, <3>2
    <2>8. IF Whole(l) THEN r = Listing(l, FALSE, <<>>) ELSE r.failed
      BY <2>1 DEF ReadsBack
    <2>9. CASE Whole(l) /\ ~HasNewline(d)
      <3>1. r = Listing(l, FALSE, <<>>)
        BY <2>8, <2>9
      <3>2. OutFrom(C, Listing(l, FALSE, <<>>), row) = Listing(Append(l, x), FALSE, <<>>)
        <4>1. OutFrom(C, Listing(l, FALSE, <<>>), CsvRow(NumberWords[n], d, b))
                = Listing(Append(l, [number |-> n, description |-> d, readOnly |-> b]), FALSE, <<>>)
          BY <2>1, <2>9, OutRowRead
        <4>. QED  BY <2>2, <4>1
      <3>3. Append(l, x) = l \o <<x>>
        <4> HIDE DEF S
        <4>. QED  BY <2>1, AppendIsConcat
      <3> HIDE DEF r, row, t
      <3>4. OutFrom(C, ListStart, t \o row) = Listing(l \o <<x>>, FALSE, <<>>)
        BY <2>7, <3>1, <3>2, <3>3
      <3>5. ReadsBack(C, l \o <<x>>, t \o row)
        BY <2>6, <2>9, <3>4 DEF ReadsBack
      <3>. QED  BY <2>1, <2>3, <2>5, <3>5 DEF Q
    <2>10. CASE ~(Whole(l) /\ ~HasNewline(d))
      <3>1. OutFrom(C, r, row).failed
        <4>1. CASE Whole(l)
          <5>1. HasNewline(d)
            BY <2>10, <4>1
          <5>2. r = Listing(l, FALSE, <<>>)
            BY <2>8, <4>1
          <5>3. OutFrom(C, Listing(l, FALSE, <<>>), CsvRow(NumberWords[n], d, b)).failed
            BY <2>1, <5>1, OutRowBroken
          <5>. QED  BY <5>2, <5>3
        <4>2. CASE ~Whole(l)
          <5>1. r.failed
            BY <2>8, <4>2
          <5> HIDE DEF r, row
          <5>. QED  BY <2>4, <2>7, <5>1, OutFailed
        <4>. QED  BY <4>1, <4>2
      <3> HIDE DEF r, row, t
      <3>2. ~Whole(l \o <<x>>)
        BY <2>6, <2>10
      <3>3. ReadsBack(C, l \o <<x>>, t \o row)
        BY <2>7, <3>1, <3>2 DEF ReadsBack
      <3>. QED  BY <2>1, <2>3, <2>5, <3>3 DEF Q
    <2>. QED  BY <2>9, <2>10
  <1>4. Q = Seq(S)
    <2> HIDE DEF Q, S
    <2>1. Q \subseteq Seq(S)
      BY DEF Q
    <2>. QED  BY <1>2, <1>3, <2>1, SeqInduction
  <1>. QED  BY <1>4

(* What list makes of the print of a list. *)
LEMMA ListOfPrint ==
  ASSUME NEW C, HasWords(C), NEW list \in Seq(SnapshotsOf(C))
  PROVE  IF Whole(list) THEN List(SnapperPrints(list)) = [list |-> list, failed |-> FALSE]
                        ELSE List(SnapperPrints(list)).failed
  <1> DEFINE text == SnapperPrints(list)
             r == OutFrom(C, ListStart, text)
             end == OutFrom(C, ListStart, text \o <<Newline>>)
  <1>1. Running \in Seq(C) /\ ListStart \in ListStates(C) /\ Newline \in C
    BY OutRunningRead DEF Running, HasWords
  <1>2. text = PrintedFrom(C, Running, list)
    <2> HIDE DEF Running
    <2>1. Scan(PrintRow, Running, list) = PrintedFrom(C, Running, list)
      BY <1>1, PrintingScan DEF PrintedFrom
    <2>2. text = Scan(PrintRow, Running, list)
      BY DEF SnapperPrints, Running
    <2>. QED  BY <2>1, <2>2
  <1>3. text \in Seq(C) /\ ReadsBack(C, list, text)
    BY <1>2, PrintReadsBack
  <1> HIDE DEF text
  <1>4. r \in ListStates(C) /\ end = ReadOutput(r, Newline)
    BY <1>1, <1>3, OutAppend
  <1>5. List(text) = [list |-> end.list, failed |-> end.failed]
    <2>1. text \o <<Newline>> = Append(text, Newline) /\ text \o <<Newline>> \in Seq(C)
      BY <1>1, <1>3, AppendIsConcat
    <2> DEFINE u == Append(text, Newline)
    <2>2. u \in Seq(C)
      BY <2>1
    <2> HIDE DEF u
    <2>3. Scan(ReadOutput, ListStart, u) = OutFrom(C, ListStart, u)
      BY <1>1, <2>2, OutputtingScan DEF OutFrom
    <2>. QED  BY <2>1, <2>3 DEF List, u
  <1>6. IF Whole(list) THEN r = Listing(list, FALSE, <<>>) ELSE r.failed
    BY <1>3 DEF ReadsBack
  <1> HIDE DEF r, end
  <1>7. CASE Whole(list)
    <2>1. r.list = list /\ r.failed = FALSE /\ r.line = <<>>
      BY <1>6, <1>7 DEF Listing
    <2>2. WithoutReturn(r.line) = <<>>
      BY <2>1, WithoutReturnEmpty
    <2>3. ReadOutput(r, Newline) = Listing(list, FALSE, <<>>)
      BY <2>1, <2>2 DEF ReadOutput
    <2>4. end.list = list /\ end.failed = FALSE
      BY <1>4, <2>3 DEF Listing
    <2>. QED  BY <1>5, <1>7, <2>4 DEF text
  <1>8. CASE ~Whole(list)
    <2>1. r.failed
      BY <1>6, <1>8
    <2>2. \A y : ReadRow(Listing(r.list, r.failed, y)).failed /\ Listing(r.list, r.failed, y).failed
      BY <2>1, FailedStays
    <2>3. ReadOutput(r, Newline).failed
      BY <2>2 DEF ReadOutput
    <2>4. end.failed
      BY <1>4, <2>3
    <2>. QED  BY <1>5, <1>8, <2>4 DEF text
  <1>. QED  BY <1>7, <1>8

(* The snapshots of a sample have sample descriptions. *)
ListsHaveSnapshots ==
  sample.of = "snapshots" =>
    sample.list \in Seq([number : DOMAIN NumberWords, description : Descriptions, readOnly : BOOLEAN])

(* All characters of a row. *)
CharactersOfDescriptions == UNION {ToSet(d) : d \in Descriptions}

CharactersOfRows ==
  CharactersOfDescriptions
    \cup {Comma, QuoteMark, Newline, "date", "current", "yes", "no", "0"}
    \cup {NumberWords[n] : n \in DOMAIN NumberWords}

(* The characters of rows are the words of a row and those of the            *)
(* descriptions.                                                             *)
LEMMA CharactersOfRowsAre ==
  HasWords(CharactersOfRows) /\ Descriptions \subseteq Seq(CharactersOfRows)
  <1>1. HasWords(CharactersOfRows)
    BY DEF HasWords, CharactersOfRows
  <1>2. ASSUME NEW d \in Descriptions PROVE d \in Seq(CharactersOfRows)
    <2> DEFINE S == ToSet(d)
               C == CharactersOfRows
    <2>1. d \in Seq(S)
      BY DescriptionsAssumption
    <2>2. S \subseteq C
      BY DEF CharactersOfRows, CharactersOfDescriptions
    <2> HIDE DEF S, C
    <2>3. d \in Seq(C)
      BY <2>1, <2>2
    <2>. QED  BY <2>3 DEF C
  <1>. QED  BY <1>1, <1>2

(* The list of snapshots is what snapper has, for any number of them         *)
(* (MaxSnapshots is a constant, and NumberWords as long as need be) and for  *)
(* descriptions of any characters and any length: quotes, commas and         *)
(* carriage returns in a description change nothing, and a description with  *)
(* a newline makes the command fail rather than list what is not there       *)
(* (SnapperClient::list, parse_csv_row).                                     *)
THEOREM SnapshotsAreReadAlways == TextSpec => []SnapshotsAreRead
  <1>1. TextInit => ListsHaveSnapshots
    BY DEF TextInit, NoSample, ListsHaveSnapshots
  <1>2. ListsHaveSnapshots /\ [TextNext]_sample => ListsHaveSnapshots'
    <2> SUFFICES ASSUME ListsHaveSnapshots, [TextNext]_sample PROVE ListsHaveSnapshots'
      OBVIOUS
    <2>1. CASE RenderLine
      BY <2>1 DEF RenderLine, ListsHaveSnapshots
    <2>2. CASE ShowConfig
      BY <2>2 DEF ShowConfig, ListsHaveSnapshots
    <2>3. CASE ListSnapper
      <3> DEFINE S == [number : DOMAIN NumberWords, description : Descriptions, readOnly : BOOLEAN]
      <3>1. PICK n \in 0..MaxSnapshots : \E g \in [1..n -> Descriptions \X BOOLEAN] :
              sample' = [of |-> "snapshots",
                         list |-> [i \in 1..n |-> [number |-> i, description |-> g[i][1],
                                                   readOnly |-> g[i][2]]]]
        BY <2>3 DEF ListSnapper
      <3>2. PICK given \in [1..n -> Descriptions \X BOOLEAN] :
              sample' = [of |-> "snapshots",
                         list |-> [i \in 1..n |-> [number |-> i, description |-> given[i][1],
                                                   readOnly |-> given[i][2]]]]
        BY <3>1
      <3> DEFINE row(i) == [number |-> i, description |-> given[i][1], readOnly |-> given[i][2]]
                 l == [i \in 1..n |-> row(i)]
      <3>3. n \in Nat /\ \A i \in 1..n : i \in DOMAIN NumberWords
        <4>1. DOMAIN NumberWords = 1..Len(NumberWords) /\ Len(NumberWords) \in Nat
          BY NumberWordsAre
        <4>. QED  BY <3>1, <4>1, SampleAssumption
      <3>4. ASSUME NEW i \in 1..n PROVE row(i) \in S
        <4>1. given[i] \in Descriptions \X BOOLEAN
          OBVIOUS
        <4>2. given[i][1] \in Descriptions /\ given[i][2] \in BOOLEAN
          BY <4>1
        <4>. QED  BY <3>3, <4>2
      <3> HIDE DEF S, row
      <3>5. l \in Seq(S)
        BY <3>3, <3>4
      <3>6. sample'.list = l
        BY <3>2 DEF row
      <3>. QED  BY <3>5, <3>6 DEF ListsHaveSnapshots, S
    <2>4. CASE ShowDiff
      BY <2>4 DEF ShowDiff, ListsHaveSnapshots
    <2>5. CASE UNCHANGED sample
      BY <2>5 DEF ListsHaveSnapshots
    <2>. QED  BY <2>1, <2>2, <2>3, <2>4, <2>5 DEF TextNext
  <1>3. ListsHaveSnapshots => SnapshotsAreRead
    <2> SUFFICES ASSUME ListsHaveSnapshots, sample.of = "snapshots" PROVE SnapshotsAreRead
      BY DEF SnapshotsAreRead
    <2> DEFINE l == sample.list
               C == CharactersOfRows
               S == [number : DOMAIN NumberWords, description : Descriptions, readOnly : BOOLEAN]
               T == SnapshotsOf(C)
    <2>1. l \in Seq(S)
      BY DEF ListsHaveSnapshots
    <2>2. HasWords(C) /\ Descriptions \subseteq Seq(C)
      BY CharactersOfRowsAre
    <2>3. S \subseteq T
      <3> HIDE DEF C
      <3>. QED  BY <2>2 DEF SnapshotsOf
    <2> HIDE DEF l, C
    <2>4. l \in Seq(T)
      <3> HIDE DEF S, T
      <3>. QED  BY <2>1, <2>3
    <2>5. IF Whole(l) THEN List(SnapperPrints(l)) = [list |-> l, failed |-> FALSE]
                      ELSE List(SnapperPrints(l)).failed
      BY <2>2, <2>4, ListOfPrint
    <2>6. DOMAIN l = 1..Len(l)
      BY <2>4
    <2>7. Whole(l) <=> ~\E i \in DOMAIN l : Contains(l[i].description, Newline)
      BY <2>6 DEF Whole, HasNewline, Contains
    <2>. QED  BY <2>5, <2>7 DEF SnapshotsAreRead, l
  <1>. QED  BY <1>1, <1>2, <1>3, PTL DEF TextSpec

-----------------------------------------------------------------------------
(***************************************************************************)
(* Filtering, as a scan: what is left are the elements in the set, in      *)
(* their order.                                                            *)
(***************************************************************************)

(* The pairs of elements, in their order, are in R. *)
InOrder(R, s) == \A i, j \in 1..Len(s) : i < j => <<s[i], s[j]>> \in R

(* The step of Filtered as a function. *)
Filtering(D, S) ==
  [le \in Seq(D) \X D |-> IF le[2] \in S THEN Append(le[1], le[2]) ELSE le[1]]

(* A step of filtering.                                                      *)
LEMMA FilteringStep ==
  ASSUME NEW D, NEW S, NEW s \in Seq(D), NEW e \in D
  PROVE  Filtering(D, S)[<<s, e>>] = IF e \in S THEN Append(s, e) ELSE s
  BY DEF Filtering

(* Filtering is a scan over sequences.                                       *)
LEMMA FilteringIs ==
  ASSUME NEW D, NEW S, NEW s \in Seq(D), NEW text \in Seq(D)
  PROVE  IsScan(Seq(D), D, Filtering(D, S), s, text)
  <1> DEFINE X == Seq(D)
             step(t, e) == IF e \in S THEN Append(t, e) ELSE t
  <1>1. \A t \in X, e \in D : step(t, e) \in X
    BY AppendProperties
  <1>2. Filtering(D, S) = [le \in X \X D |-> step(le[1], le[2])]
    BY DEF Filtering
  <1> HIDE DEF X, step
  <1>3. Filtering(D, S) \in [X \X D -> X]
    BY <1>1, <1>2
  <1>. QED  BY <1>3 DEF IsScan, X

(* Filtered, as the scan of that function.                                   *)
LEMMA FilteringScan ==
  ASSUME NEW D, NEW S, NEW text \in Seq(D)
  PROVE  Filtered(text, S) = ScanOf(Filtering(D, S), <<>>, text)
  <1> DEFINE step(s, e) == IF e \in S THEN Append(s, e) ELSE s
             T == CHOOSE g : g = [k \in 0..Len(text) |->
                                    IF k = 0 THEN <<>> ELSE step(g[k-1], text[k])]
             G == Filtering(D, S)
             X == Seq(D)
             E == D
             start == <<>>
  <1>1. Filtered(text, S) = T[Len(text)]
    BY DEF Filtered, Scan
  <1>2. Len(text) \in Nat /\ \A k \in 1..Len(text) : text[k] \in E
    BY LenProperties
  <1>4. IsScan(X, E, G, start, text)
    <2>1. <<>> \in Seq(D)
      OBVIOUS
    <2>. QED  BY <2>1, FilteringIs
  <1>5. \A s \in X, z \in E : G[<<s, z>>] = step(s, z)
    <2> SUFFICES ASSUME NEW s \in Seq(D), NEW z \in D PROVE Filtering(D, S)[<<s, z>>] = step(s, z)
      OBVIOUS
    <2>. QED  BY FilteringStep
  <1>3. T = CHOOSE g : g = [k \in 0..Len(text) |-> IF k = 0 THEN start ELSE step(g[k-1], text[k])]
    OBVIOUS
  <1> HIDE DEF T, G, X, E, start, step
  <1>6. PICK f : Follows(f, X, G, start, text)
    BY <1>4, ScanExists
  <1>7. f = [k \in 0..Len(text) |-> IF k = 0 THEN start ELSE step(f[k-1], text[k])]
    <2>1. \A k \in 1..Len(text) : f[k-1] \in X /\ f[k] = step(f[k-1], text[k])
      <3> SUFFICES ASSUME NEW k \in 1..Len(text)
                   PROVE  f[k-1] \in X /\ f[k] = step(f[k-1], text[k])
        OBVIOUS
      <3>1. k - 1 \in 0..Len(text)
        BY <1>2
      <3>2. f[k-1] \in X /\ f[k] = G[<<f[k-1], text[k]>>]
        BY <1>6, <3>1 DEF Follows
      <3>. QED  BY <1>2, <1>5, <3>2
    <2>2. f \in [0..Len(text) -> X] /\ f[0] = start
      BY <1>6 DEF Follows
    <2>3. \A k \in 0..Len(text) : f[k] = IF k = 0 THEN start ELSE step(f[k-1], text[k])
      BY <1>2, <2>1, <2>2
    <2>. QED  BY <2>2, <2>3
  <1>8. T = [k \in 0..Len(text) |-> IF k = 0 THEN start ELSE step(T[k-1], text[k])]
    BY <1>3, <1>7
  <1>9. FollowsIn(T, X, G, start, text)
    <2>1. T[0] = start
      BY <1>2, <1>8
    <2>2. ASSUME NEW k \in 1..Len(text), T[k-1] \in X PROVE T[k] = G[<<T[k-1], text[k]>>]
      <3>1. T[k] = step(T[k-1], text[k])
        BY <1>2, <1>8
      <3>. QED  BY <1>2, <1>5, <2>2, <3>1
    <2>. QED  BY <2>1, <2>2 DEF FollowsIn
  <1>. QED  BY <1>1, <1>4, <1>9, ScanLink DEF G, start

(* Filtered goes element by element. *)
LEMMA FilteredNext ==
  ASSUME NEW D, NEW S, NEW t \in Seq(D), NEW d \in D
  PROVE  /\ Filtered(t, S) \in Seq(D)
         /\ Filtered(t \o <<d>>, S) = IF d \in S THEN Append(Filtered(t, S), d) ELSE Filtered(t, S)
  <1>1. <<>> \in Seq(D) /\ t \o <<d>> \in Seq(D)
    OBVIOUS
  <1>2. IsScan(Seq(D), D, Filtering(D, S), <<>>, t)
    BY <1>1, FilteringIs
  <1> DEFINE r == ScanOf(Filtering(D, S), <<>>, t)
  <1>3. r \in Seq(D) /\ ScanOf(Filtering(D, S), <<>>, t \o <<d>>) = Filtering(D, S)[<<r, d>>]
    BY <1>2, ScanOfAppend, ScanOfType
  <1>4. Filtered(t, S) = r /\ Filtered(t \o <<d>>, S) = ScanOf(Filtering(D, S), <<>>, t \o <<d>>)
    BY <1>1, FilteringScan
  <1> HIDE DEF r
  <1>5. Filtering(D, S)[<<r, d>>] = IF d \in S THEN Append(r, d) ELSE r
    BY <1>3, FilteringStep
  <1>. QED  BY <1>3, <1>4, <1>5

(* Nothing is left of nothing.                                               *)
LEMMA FilteredEmpty ==
  ASSUME NEW S
  PROVE  Filtered(<<>>, S) = <<>>
  <1>1. <<>> \in Seq({})
    OBVIOUS
  <1>2. IsScan(Seq({}), {}, Filtering({}, S), <<>>, <<>>)
    BY <1>1, FilteringIs
  <1>. QED  BY <1>1, <1>2, ScanOfEmpty, FilteringScan

(* What is filtered are some of the elements, in their order. *)
LEMMA FilteredIs ==
  ASSUME NEW D, NEW S, NEW text \in Seq(D)
  PROVE  /\ Filtered(text, S) \in Seq(D)
         /\ \A R : InOrder(R, text) => InOrder(R, Filtered(text, S))
  <1> DEFINE good(t) == /\ Filtered(t, S) \in Seq(D)
                        /\ \A i \in 1..Len(Filtered(t, S)) :
                             \E j \in 1..Len(t) : Filtered(t, S)[i] = t[j]
                        /\ \A R : InOrder(R, t) => InOrder(R, Filtered(t, S))
             Q == {t \in Seq(D) : good(t)}
  <1>1. <<>> \in Q
    <2>1. Len(<<>>) = 0 /\ <<>> \in Seq(D)
      OBVIOUS
    <2>. QED  BY <2>1, FilteredEmpty
  <1>2. ASSUME NEW t \in Q, NEW d \in D PROVE t \o <<d>> \in Q
    <2> DEFINE f == Filtered(t, S)
               u == t \o <<d>>
               n == Len(f)
    <2>1. t \in Seq(D) /\ good(t)
      OBVIOUS
    <2>2. f \in Seq(D) /\ Filtered(u, S) = IF d \in S THEN Append(f, d) ELSE f
      BY <2>1, FilteredNext
    <2>3. u \in Seq(D) /\ Len(u) = Len(t) + 1 /\ Len(t) \in Nat /\ u[Len(t) + 1] = d
          /\ \A j \in 1..Len(t) : u[j] = t[j]
      BY <2>1
    <2>4. /\ \A i \in 1..n : \E j \in 1..Len(t) : f[i] = t[j]
          /\ \A R : InOrder(R, t) => InOrder(R, f)
      BY <2>1
    <2>5. \A R : InOrder(R, u) => InOrder(R, t) /\ \A j \in 1..Len(t) : <<t[j], d>> \in R
      <3> HIDE DEF u
      <3>. QED  BY <2>3 DEF InOrder
    <2> HIDE DEF f, u, good
    <2>6. CASE d \notin S
      <3>1. Filtered(u, S) = f
        BY <2>2, <2>6
      <3>2. \A i \in 1..n : \E j \in 1..Len(u) : f[i] = u[j]
        <4>1. \A j \in 1..Len(t) : j \in 1..Len(u)
          BY <2>3
        <4>. QED  BY <2>3, <2>4, <4>1
      <3>3. good(u)
        BY <2>2, <2>4, <2>5, <3>1, <3>2 DEF good, n
      <3>. QED  BY <2>3, <3>3 DEF u
    <2>7. CASE d \in S
      <3> DEFINE g == Append(f, d)
      <3>1. Filtered(u, S) = g
        BY <2>2, <2>7
      <3>2. g \in Seq(D) /\ Len(g) = n + 1 /\ n \in Nat /\ g[n + 1] = d
            /\ \A i \in 1..n : g[i] = f[i]
        BY <2>2
      <3> HIDE DEF g, n
      <3>3. \A i \in 1..Len(g) : \E j \in 1..Len(u) : g[i] = u[j]
        <4> SUFFICES ASSUME NEW i \in 1..Len(g) PROVE \E j \in 1..Len(u) : g[i] = u[j]
          OBVIOUS
        <4>1. CASE i = n + 1
          BY <2>3, <3>2, <4>1
        <4>2. CASE i # n + 1
          <5>1. i \in 1..n
            BY <3>2, <4>2
          <5>2. PICK j \in 1..Len(t) : f[i] = t[j]
            BY <2>4, <5>1 DEF n
          <5>. QED  BY <2>3, <3>2, <5>1, <5>2
        <4>. QED  BY <4>1, <4>2
      <3>4. ASSUME NEW R, InOrder(R, u) PROVE InOrder(R, g)
        <4>1. InOrder(R, f) /\ \A j \in 1..Len(t) : <<t[j], d>> \in R
          BY <2>4, <2>5, <3>4
        <4> SUFFICES ASSUME NEW i \in 1..Len(g), NEW j \in 1..Len(g), i < j
                     PROVE  <<g[i], g[j]>> \in R
          BY DEF InOrder
        <4>2. i \in 1..n
          BY <3>2
        <4>3. CASE j \in 1..n
          <5>1. <<f[i], f[j]>> \in R
            BY <4>1, <4>2, <4>3 DEF InOrder, n
          <5>. QED  BY <3>2, <4>2, <4>3, <5>1
        <4>4. CASE j = n + 1
          <5>1. PICK k \in 1..Len(t) : f[i] = t[k]
            BY <2>4, <4>2 DEF n
          <5>2. <<f[i], d>> \in R
            BY <4>1, <5>1
          <5>. QED  BY <3>2, <4>2, <4>4, <5>2
        <4>. QED  BY <3>2, <4>3, <4>4
      <3>5. good(u)
        BY <3>1, <3>2, <3>3, <3>4 DEF good
      <3>. QED  BY <2>3, <3>5 DEF u
    <2>. QED  BY <2>6, <2>7
  <1>3. Q = Seq(D)
    <2> HIDE DEF Q
    <2>1. Q \subseteq Seq(D)
      BY DEF Q
    <2>. QED  BY <1>1, <1>2, <2>1, SeqInduction
  <1>. QED  BY <1>3

-----------------------------------------------------------------------------
(***************************************************************************)
(* What a configuration holds: values that suit their keys, whatever the   *)
(* words of the file.                                                      *)
(***************************************************************************)

(* What is filtered is in the set. *)
LEMMA FilteredIn ==
  ASSUME NEW D, NEW S, NEW text \in Seq(D)
  PROVE  Filtered(text, S) \in Seq(D \cap S)
  <1> DEFINE T == D \cap S
             good(t) == Filtered(t, S) \in Seq(T)
             Q == {t \in Seq(D) : good(t)}
  <1>1. <<>> \in Q
    <2>1. <<>> \in Seq(T) /\ <<>> \in Seq(D)
      OBVIOUS
    <2>. QED  BY <2>1, FilteredEmpty
  <1>2. ASSUME NEW t \in Q, NEW d \in D PROVE t \o <<d>> \in Q
    <2> DEFINE u == t \o <<d>>
               f == Filtered(t, S)
    <2>1. t \in Seq(D) /\ good(t)
      OBVIOUS
    <2>2. Filtered(u, S) = IF d \in S THEN Append(f, d) ELSE f
      BY <2>1, FilteredNext
    <2>3. u \in Seq(D)
      BY <2>1
    <2>4. f \in Seq(T)
      BY <2>1
    <2> HIDE DEF f, good, u
    <2>5. Filtered(u, S) \in Seq(T)
      <3> HIDE DEF T
      <3>1. CASE d \in S
        <4>1. d \in T
          BY <3>1 DEF T
        <4>. QED  BY <2>2, <2>4, <3>1, <4>1
      <3>2. CASE d \notin S
        BY <2>2, <2>4, <3>2
      <3>. QED  BY <3>1, <3>2
    <2>. QED  BY <2>3, <2>5 DEF good, u
  <1>3. Q = Seq(D)
    <2> HIDE DEF Q
    <2>1. Q \subseteq Seq(D)
      BY DEF Q
    <2>. QED  BY <1>1, <1>2, <2>1, SeqInduction
  <1>. QED  BY <1>3

(* The words of a configuration: those of a file, and those that the program *)
(* prints.                                                                   *)
KnownKeys == Keys \cup DOMAIN Options
Word ==
  ((STRING \cup DOMAIN Numerals) \cup ({k[1] : k \in KnownKeys} \cup {k[2] : k \in KnownKeys}))
  \cup {"", "yes", "nord", "kernels", "true", "false", "auto", Separator, "none", "default", "limine"}

Theme == <<"theme", "name">>
Efi == <<"secure_boot", "efi_executable">>

(* lower, done twice, is lower. *)
LEMMA LowerIs ==
  ASSUME NEW x
  PROVE  /\ Lower(Lower(x)) = Lower(x) /\ (Lower(x) = "" <=> x = "")
         /\ x \in Word => Lower(x) \in Word
  <1>1. \/ x = "Yes" /\ Lower(x) = "yes"
        \/ x = "Nord" /\ Lower(x) = "nord"
        \/ x = "Kernels" /\ Lower(x) = "kernels"
        \/ x \notin {"Yes", "Nord", "Kernels"} /\ Lower(x) = x
    BY DEF Lower
  <1>2. Lower("yes") = "yes" /\ Lower("nord") = "nord" /\ Lower("kernels") = "kernels"
    BY DEF Lower
  <1>3. {"yes", "nord", "kernels"} \subseteq Word
    BY DEF Word
  <1>. QED  BY <1>1, <1>2, <1>3

(* The kinds of the keys exclude each other. *)
LEMMA KindsAre ==
  ASSUME NEW k
  PROVE  /\ k \in Flags => k \notin Sizes /\ k \notin Lists /\ k # Theme /\ k # Efi
         /\ k \in Sizes => k \notin Lists /\ k # Theme /\ k # Efi
         /\ k \in Lists => k # Theme /\ k # Efi
         /\ Theme # Efi
  <1>1. Flags \cap Sizes = {} /\ Flags \cap Lists = {} /\ Theme \notin Flags /\ Efi \notin Flags
    BY DEF Flags, Sizes, Lists, Theme, Efi
  <1>2. Sizes \cap Lists = {} /\ Theme \notin Sizes /\ Efi \notin Sizes
    BY DEF Sizes, Lists, Theme, Efi
  <1>3. Theme \notin Lists /\ Efi \notin Lists /\ Theme # Efi
    BY DEF Lists, Theme, Efi
  <1>. QED  BY <1>1, <1>2, <1>3

(* The names of the keys, and of their sections, are in lower case. *)
IsLower(x) == x # "" /\ Lower(x) = x

(* The names of the known keys are in lower case.                            *)
LEMMA KnownAre ==
  ASSUME NEW k \in KnownKeys
  PROVE  IsLower(k[1]) /\ IsLower(k[2]) /\ k = <<k[1], k[2]>>
  <1>1. \A x : x \notin {"", "Yes", "Nord", "Kernels"} => IsLower(x)
    BY DEF IsLower, Lower
  <1> DEFINE fine(j) == /\ j = <<j[1], j[2]>> /\ j[1] \notin {"", "Yes", "Nord", "Kernels"}
                        /\ j[2] \notin {"", "Yes", "Nord", "Kernels"}
  <1>0. \A a, b : a \notin {"", "Yes", "Nord", "Kernels"} /\ b \notin {"", "Yes", "Nord", "Kernels"}
                  => fine(<<a, b>>)
    OBVIOUS
  <1> HIDE DEF fine
  <1>2. \A j \in Texts : fine(j)
    BY <1>0 DEF Texts
  <1>3. \A j \in Sizes : fine(j)
    BY <1>0 DEF Sizes
  <1>4. \A j \in Flags : fine(j)
    BY <1>0 DEF Flags
  <1>5. \A j \in Lists : fine(j)
    BY <1>0 DEF Lists
  <1>6. \A j \in DOMAIN Options : fine(j)
    BY <1>0 DEF Options
  <1>7. fine(k)
    BY <1>2, <1>3, <1>4, <1>5, <1>6 DEF KnownKeys, Keys
  <1>. QED  BY <1>1, <1>7 DEF fine

(* What is said of a key must suit its kind. *)
Suits(k, v) ==
  /\ k \in Flags => v \in BOOLEAN
  /\ k \in Sizes => v \in {Numerals[word] : word \in DOMAIN Numerals}
  /\ k \in Lists => v \in Seq(Word \ {Separator})
  /\ k = Theme => v \in Seq(Word) /\ \A i \in DOMAIN v : Lower(v[i]) = v[i]
  /\ k = Efi => v \in Seq(Word) /\ v # <<"auto">>
  /\ k \notin (Flags \cup Sizes) \cup Lists => v \in Seq(Word)

(* A key of a configuration: one that assign knows, or an option of Limine. *)
IsConfigKey(k) == (k \in Keys \/ k[1] = "limine") /\ k \in Word \X Word /\ IsLower(k[2])

(* What configurations hold. *)
Held == (BOOLEAN \cup {Numerals[word] : word \in DOMAIN Numerals}) \cup Seq(Word)

(* A value that suits a key is one that configurations hold.                 *)
LEMMA SuitsHeld ==
  ASSUME NEW k, NEW v, Suits(k, v)
  PROVE  v \in Held
  <1>1. k \in Lists => v \in Seq(Word)
    <2> SUFFICES ASSUME k \in Lists PROVE v \in Seq(Word)
      OBVIOUS
    <2> DEFINE W == Word
               V == Word \ {Separator}
    <2>1. v \in Seq(V) /\ V \subseteq W
      BY DEF Suits
    <2> HIDE DEF W, V
    <2>2. v \in Seq(W)
      BY <2>1
    <2>. QED  BY <2>2 DEF W
  <1>. QED  BY <1>1 DEF Suits, Held

(* The items of a list come without commas. *)
LEMMA ParseListType ==
  ASSUME NEW value \in Seq(Word)
  PROVE  ParseList(value) \in Seq(Word \ {Separator})
  <1> DEFINE S == {word \in ToSet(value) : word # Separator}
             W == Word
             V == Word \ {Separator}
  <1>1. W \cap S \subseteq V
    OBVIOUS
  <1> HIDE DEF S, W
  <1>2. Filtered(value, S) \in Seq(W \cap S)
    BY FilteredIn DEF W
  <1>3. ParseList(value) = Filtered(value, S)
    BY DEF ParseList, S
  <1> HIDE DEF V
  <1>4. ParseList(value) \in Seq(V)
    BY <1>1, <1>2, <1>3
  <1>. QED  BY <1>4 DEF V

(* Joining, as a scan. *)
Joining(W, V) ==
  [te \in Seq(W) \X V |-> IF te[1] = <<>> THEN <<te[2]>> ELSE te[1] \o <<Separator, te[2]>>]

(* A step of joining.                                                        *)
LEMMA JoiningStep ==
  ASSUME NEW W, NEW V, NEW t \in Seq(W), NEW e \in V
  PROVE  Joining(W, V)[<<t, e>>] = IF t = <<>> THEN <<e>> ELSE t \o <<Separator, e>>
  BY DEF Joining

(* Joining is a scan over sequences.                                         *)
LEMMA JoiningIs ==
  ASSUME NEW W, NEW V, V \subseteq W, Separator \in W, NEW text \in Seq(V)
  PROVE  IsScan(Seq(W), V, Joining(W, V), <<>>, text)
  <1> DEFINE X == Seq(W)
             step(t, e) == IF t = <<>> THEN <<e>> ELSE t \o <<Separator, e>>
  <1>1. \A t \in X, e \in V : step(t, e) \in X
    <2> SUFFICES ASSUME NEW t \in X, NEW e \in V PROVE step(t, e) \in X
      OBVIOUS
    <2>1. <<e>> \in Seq(W) /\ t \o <<Separator, e>> \in Seq(W)
      OBVIOUS
    <2>. QED  BY <2>1
  <1>2. Joining(W, V) = [te \in X \X V |-> step(te[1], te[2])]
    BY DEF Joining
  <1>3. <<>> \in X
    OBVIOUS
  <1> HIDE DEF X, step
  <1>4. Joining(W, V) \in [X \X V -> X]
    BY <1>1, <1>2
  <1>. QED  BY <1>3, <1>4 DEF IsScan, X

(* Joined, as the scan of that function. *)
LEMMA JoinedScan ==
  ASSUME NEW W, NEW V, V \subseteq W, Separator \in W, NEW text \in Seq(V)
  PROVE  Joined(text) = ScanOf(Joining(W, V), <<>>, text)
  <1> DEFINE step(s, e) == IF s = <<>> THEN <<e>> ELSE s \o <<Separator, e>>
             T == CHOOSE g : g = [k \in 0..Len(text) |->
                                    IF k = 0 THEN <<>> ELSE step(g[k-1], text[k])]
             G == Joining(W, V)
             X == Seq(W)
             E == V
             start == <<>>
  <1>1. Joined(text) = T[Len(text)]
    BY DEF Joined, Scan
  <1>2. Len(text) \in Nat /\ \A k \in 1..Len(text) : text[k] \in E
    BY LenProperties
  <1>3. T = CHOOSE g : g = [k \in 0..Len(text) |-> IF k = 0 THEN start ELSE step(g[k-1], text[k])]
    OBVIOUS
  <1>4. IsScan(X, E, G, start, text)
    BY JoiningIs
  <1>5. \A s \in X, z \in E : G[<<s, z>>] = step(s, z)
    BY JoiningStep
  <1> HIDE DEF T, G, X, E, start, step
  <1>6. PICK f : Follows(f, X, G, start, text)
    BY <1>4, ScanExists
  <1>7. f = [k \in 0..Len(text) |-> IF k = 0 THEN start ELSE step(f[k-1], text[k])]
    <2>1. \A k \in 1..Len(text) : f[k-1] \in X /\ f[k] = step(f[k-1], text[k])
      <3> SUFFICES ASSUME NEW k \in 1..Len(text)
                   PROVE  f[k-1] \in X /\ f[k] = step(f[k-1], text[k])
        OBVIOUS
      <3>1. k - 1 \in 0..Len(text)
        BY <1>2
      <3>2. f[k-1] \in X /\ f[k] = G[<<f[k-1], text[k]>>]
        BY <1>6, <3>1 DEF Follows
      <3>. QED  BY <1>2, <1>5, <3>2
    <2>2. f \in [0..Len(text) -> X] /\ f[0] = start
      BY <1>6 DEF Follows
    <2>3. \A k \in 0..Len(text) : f[k] = IF k = 0 THEN start ELSE step(f[k-1], text[k])
      BY <1>2, <2>1, <2>2
    <2>. QED  BY <2>2, <2>3
  <1>8. T = [k \in 0..Len(text) |-> IF k = 0 THEN start ELSE step(T[k-1], text[k])]
    BY <1>3, <1>7
  <1>9. FollowsIn(T, X, G, start, text)
    <2>1. T[0] = start
      BY <1>2, <1>8
    <2>2. ASSUME NEW k \in 1..Len(text), T[k-1] \in X PROVE T[k] = G[<<T[k-1], text[k]>>]
      <3>1. T[k] = step(T[k-1], text[k])
        BY <1>2, <1>8
      <3>. QED  BY <1>2, <1>5, <2>2, <3>1
    <2>. QED  BY <2>1, <2>2 DEF FollowsIn
  <1>. QED  BY <1>1, <1>4, <1>9, ScanLink DEF G, start

(* What is read of a value suits its key. *)
LEMMA ReadSuits ==
  ASSUME NEW k, NEW value \in Seq(Word), Readable(k, value)
  PROVE  Suits(k, Read(k, value))
  <1> DEFINE r == Read(k, value)
  <1>1. CASE k \in Flags
    <2>1. r = (Lower(value[1]) \in {"true", "yes", "1"})
      BY <1>1, KindsAre DEF Read, Theme, Efi
    <2>2. r \in BOOLEAN
      BY <2>1
    <2> HIDE DEF r
    <2>. QED  BY <1>1, <2>2, KindsAre DEF Suits, r
  <1>2. CASE k \in Sizes
    <2>1. r = Numerals[value[1]]
      BY <1>2, KindsAre DEF Read, Theme, Efi
    <2>2. value[1] \in DOMAIN Numerals
      BY <1>2, KindsAre DEF Readable
    <2> HIDE DEF r
    <2>. QED  BY <1>2, <2>1, <2>2, KindsAre DEF Suits, r
  <1>3. CASE k \in Lists
    <2>1. r = ParseList(value)
      BY <1>3, KindsAre DEF Read, Theme, Efi
    <2>2. r \in Seq(Word \ {Separator})
      BY <2>1, ParseListType
    <2> HIDE DEF r
    <2>. QED  BY <1>3, <2>2, KindsAre DEF Suits, r
  <1>4. CASE k = Theme
    <2>1. k \notin (Flags \cup Sizes) \cup Lists /\ k # Efi
      BY <1>4, KindsAre
    <2>2. r = [i \in DOMAIN value |-> Lower(value[i])]
      BY <1>4, <2>1 DEF Read, Theme, Efi
    <2>3. \A i \in DOMAIN value : Lower(value[i]) \in Word
      <3>1. \A i \in DOMAIN value : value[i] \in Word
        OBVIOUS
      <3>. QED  BY <3>1, LowerIs
    <2>4. DOMAIN value = 1..Len(value) /\ Len(value) \in Nat
      OBVIOUS
    <2> HIDE DEF r
    <2>5. r \in Seq(Word)
      <3> DEFINE W == Word
      <3>1. r \in [1..Len(value) -> W]
        <4> HIDE DEF W
        <4>. QED  BY <2>2, <2>3, <2>4 DEF W
      <3> HIDE DEF W
      <3>2. r \in Seq(W)
        BY <2>4, <3>1
      <3>. QED  BY <3>2 DEF W
    <2>6. \A i \in DOMAIN r : Lower(r[i]) = r[i]
      BY <2>2, LowerIs
    <2>. QED  BY <1>4, <2>1, <2>5, <2>6 DEF Suits, r
  <1>5. CASE k = Efi
    <2>1. k \notin (Flags \cup Sizes) \cup Lists /\ k # Theme
      BY <1>5, KindsAre
    <2>2. r = IF value = <<"auto">> THEN <<>> ELSE value
      BY <1>5, <2>1 DEF Read, Theme, Efi
    <2>3. r \in Seq(Word) /\ r # <<"auto">>
      <3> DEFINE W == Word
      <3>1. value \in Seq(W) /\ <<>> \in Seq(W) /\ <<>> # <<"auto">>
        OBVIOUS
      <3> HIDE DEF W
      <3>2. r \in Seq(W) /\ r # <<"auto">>
        BY <2>2, <3>1
      <3>. QED  BY <3>2 DEF W
    <2> HIDE DEF r
    <2>. QED  BY <1>5, <2>1, <2>3 DEF Suits, r
  <1>6. CASE k \notin (Flags \cup Sizes) \cup Lists /\ k # Theme /\ k # Efi
    <2>1. r = value
      BY <1>6 DEF Read, Theme, Efi
    <2> HIDE DEF r
    <2>. QED  BY <1>6, <2>1 DEF Suits, r
  <1>. QED  BY <1>1, <1>2, <1>3, <1>4, <1>5, <1>6

(* No key that assign knows is an option of Limine. *)
LEMMA KeysAreOurs ==
  ASSUME NEW k \in Keys
  PROVE  k[1] # "limine"
  <1> DEFINE ours(j) == j[1] # "limine"
  <1>0. \A a, b : a # "limine" => ours(<<a, b>>)
    OBVIOUS
  <1> HIDE DEF ours
  <1>1. \A j \in Texts : ours(j)
    BY <1>0 DEF Texts
  <1>2. \A j \in Sizes : ours(j)
    BY <1>0 DEF Sizes
  <1>3. \A j \in Flags : ours(j)
    BY <1>0 DEF Flags
  <1>4. \A j \in Lists : ours(j)
    BY <1>0 DEF Lists
  <1>5. ours(k)
    BY <1>1, <1>2, <1>3, <1>4 DEF Keys
  <1>. QED  BY <1>5 DEF ours

(* The kinds are among the keys. *)
LEMMA KindsKnown ==
  /\ Flags \subseteq Keys /\ Sizes \subseteq Keys /\ Lists \subseteq Keys
  /\ Theme \in Keys /\ Efi \in Keys
  <1>1. Theme \in Texts /\ Efi \in Texts
    BY DEF Texts, Theme, Efi
  <1>. QED  BY <1>1 DEF Keys

(* The defaults suit their keys. *)
LEMMA DefaultSuits ==
  ASSUME NEW k \in Keys
  PROVE  Suits(k, Default(k))
  <1> DEFINE d == Default(k)
             Off == {<<"snapper", "include_read_write">>, <<"menu", "snapshots_expanded">>,
                     <<"secure_boot", "automatic_apply">>}
             S1 == <<"manager", "schema_version">>
             S2 == <<"snapper", "max_snapshots">>
             S3 == <<"backups", "retain">>
             S4 == <<"automation", "debounce_seconds">>
  <1>1. d = CASE k = S1 -> 1 [] k = S2 -> 0 [] k = S3 -> 5 [] k = S4 -> 3
              [] k \in Off -> FALSE [] k \in Flags \ Off -> TRUE [] k \in Lists -> <<>>
              [] k = Theme -> <<"none">> [] k = Efi -> <<>> [] OTHER -> <<"default">>
    BY DEF Default, Theme, Efi
  <1>2. Off \subseteq Flags /\ Sizes = {S1, S2, S3, S4}
    BY DEF Flags, Sizes
  <1>3. S1 # S2 /\ S1 # S3 /\ S1 # S4 /\ S2 # S3 /\ S2 # S4 /\ S3 # S4
    OBVIOUS
  <1> HIDE DEF d, Off, S1, S2, S3, S4
  <1>4. CASE k \in Flags
    <2>1. d \in BOOLEAN
      BY <1>1, <1>2, <1>4, KindsAre
    <2>. QED  BY <1>4, <2>1, KindsAre DEF Suits, d
  <1>5. CASE k \in Sizes
    <2>1. d \in {0, 1, 3, 5}
      BY <1>1, <1>2, <1>3, <1>5, KindsAre
    <2>2. {0, 1, 3, 5} \subseteq {Numerals[word] : word \in DOMAIN Numerals}
      <3>1. Numerals["0"] = 0 /\ "0" \in DOMAIN Numerals
        BY DEF Numerals
      <3>2. Numerals["1"] = 1 /\ "1" \in DOMAIN Numerals
        BY DEF Numerals
      <3>3. Numerals["3"] = 3 /\ "3" \in DOMAIN Numerals
        BY DEF Numerals
      <3>4. Numerals["5"] = 5 /\ "5" \in DOMAIN Numerals
        BY DEF Numerals
      <3>. QED  BY <3>1, <3>2, <3>3, <3>4
    <2>. QED  BY <1>5, <2>1, <2>2, KindsAre DEF Suits, d
  <1>6. CASE k \in Lists
    <2>1. d = <<>>
      BY <1>1, <1>2, <1>3, <1>6, KindsAre
    <2> DEFINE V == Word \ {Separator}
    <2>2. d \in Seq(V)
      <3> HIDE DEF V
      <3>. QED  BY <2>1
    <2>. QED  BY <1>6, <2>2, KindsAre DEF Suits, d
  <1>7. CASE k = Theme
    <2>0. k \notin Flags /\ k \notin Sizes /\ k \notin Lists /\ k # Efi
      BY <1>7, KindsAre
    <2>1. d = <<"none">>
      BY <1>1, <1>2, <1>3, <1>7, <2>0
    <2>2. Lower("none") = "none" /\ "none" \in Word
      BY DEF Lower, Word
    <2> DEFINE W == Word
    <2>3. d \in Seq(W) /\ \A i \in DOMAIN d : d[i] = "none"
      <3>1. "none" \in W
        BY <2>2
      <3> HIDE DEF W
      <3>. QED  BY <2>1, <3>1
    <2>. QED  BY <1>7, <2>0, <2>2, <2>3 DEF Suits, d
  <1>8. CASE k = Efi
    <2>0. k \notin Flags /\ k \notin Sizes /\ k \notin Lists /\ k # Theme
      BY <1>8, KindsAre
    <2>1. d = <<>>
      BY <1>1, <1>2, <1>3, <1>8, <2>0
    <2> DEFINE W == Word
    <2>2. d \in Seq(W) /\ d # <<"auto">>
      <3> HIDE DEF W
      <3>. QED  BY <2>1
    <2>. QED  BY <1>8, <2>0, <2>2 DEF Suits, d
  <1>9. CASE k \notin (Flags \cup Sizes) \cup Lists /\ k # Theme /\ k # Efi
    <2>1. d = <<"default">>
      BY <1>1, <1>2, <1>9
    <2>2. "default" \in Word
      BY DEF Word
    <2> DEFINE W == Word
    <2>3. d \in Seq(W)
      <3>1. "default" \in W
        BY <2>2
      <3> HIDE DEF W
      <3>. QED  BY <2>1, <3>1
    <2>. QED  BY <1>9, <2>3 DEF Suits, d
  <1>. QED  BY <1>4, <1>5, <1>6, <1>7, <1>8, <1>9

(* A key of Limine's takes any words. *)
LEMMA LimineSuits ==
  ASSUME NEW k, k[1] = "limine", NEW v \in Seq(Word)
  PROVE  Suits(k, v) /\ k \notin Keys
  <1>1. k \notin Keys
    BY KeysAreOurs
  <1>. QED  BY <1>1, KindsKnown DEF Suits

(* The defaults suit their keys, the options of Limine included.             *)
LEMMA AppConfigSuits ==
  ASSUME NEW k \in KnownKeys
  PROVE  Suits(k, AppConfig[k]) /\ DOMAIN AppConfig = KnownKeys
  <1>0. DOMAIN AppConfig = KnownKeys
    BY DEF AppConfig, KnownKeys
  <1>1. CASE k \in Keys
    <2>1. AppConfig[k] = Default(k)
      BY <1>1 DEF AppConfig
    <2>. QED  BY <1>0, <1>1, <2>1, DefaultSuits
  <1>2. CASE k \notin Keys
    <2>1. k \in DOMAIN Options /\ AppConfig[k] = Options[k]
      BY <1>2 DEF AppConfig, KnownKeys
    <2>2. k[1] = "limine" /\ Options[k] \in {<<"5">>, <<"yes">>}
      BY <2>1 DEF Options
    <2>3. "yes" \in Word /\ "5" \in Word
      BY DEF Word, Numerals
    <2> DEFINE W == Word
    <2>4. Options[k] \in Seq(W)
      <3>1. "yes" \in W /\ "5" \in W
        BY <2>3
      <3>2. \A w \in W : <<w>> \in Seq(W)
        <4> HIDE DEF W
        <4>. QED  OBVIOUS
      <3>3. <<"5">> \in Seq(W) /\ <<"yes">> \in Seq(W)
        BY <3>1, <3>2
      <3> HIDE DEF W
      <3>. QED  BY <2>2, <3>3
    <2>. QED  BY <1>0, <2>1, <2>2, <2>4, LimineSuits
  <1>. QED  BY <1>1, <1>2

-----------------------------------------------------------------------------
(***************************************************************************)
(* What load knows after any lines.                                        *)
(***************************************************************************)

(* What load knows after some of the lines of a file: which keys there can   *)
(* be, and that each has a value of its kind.                                *)
OptionNames(config) == {key[2] : key \in {k \in DOMAIN config : k[1] = "limine"}}

IsConfiguration(config) ==
  /\ KnownKeys \subseteq DOMAIN config
  /\ \A k \in DOMAIN config : IsConfigKey(k) /\ Suits(k, config[k])
  /\ IsFiniteSet(OptionNames(config))

Configurations ==
  {config \in UNION {[E -> Held] : E \in SUBSET (Word \X Word)} : IsConfiguration(config)}
SectionNames == {x \in Word : Lower(x) = x}
LoadStates == [section : SectionNames, config : Configurations, failed : BOOLEAN]

Limit == <<"snapper", "max_snapshots">>

(* The limit on snapshots is a number. *)
LEMMA LimitIs ==
  ASSUME NEW config \in Configurations
  PROVE  config[Limit] \in Nat
  <1>1. Limit \in Sizes /\ Limit \notin Flags
    BY DEF Limit, Sizes, Flags
  <1>2. Limit \in DOMAIN config /\ IsConfiguration(config)
    BY <1>1, KindsKnown DEF Configurations, IsConfiguration, KnownKeys
  <1>3. Suits(Limit, config[Limit])
    BY <1>2 DEF IsConfiguration
  <1>4. config[Limit] \in {Numerals[word] : word \in DOMAIN Numerals}
    BY <1>1, <1>3 DEF Suits
  <1>5. \A word \in DOMAIN Numerals : Numerals[word] \in Nat
    BY DEF Numerals, Wrapped
  <1>. QED  BY <1>4, <1>5

(* The known keys are keys of a configuration. *)
LEMMA KnownIsConfigKey ==
  ASSUME NEW k \in KnownKeys
  PROVE  IsConfigKey(k)
  <1>1. k = <<k[1], k[2]>> /\ IsLower(k[2])
    BY KnownAre
  <1>2. k[1] \in Word /\ k[2] \in Word
    BY DEF Word
  <1>3. k \in DOMAIN Options => k[1] = "limine"
    BY DEF Options
  <1>. QED  BY <1>1, <1>2, <1>3 DEF IsConfigKey, KnownKeys

(* The configuration that load starts from is one. *)
LEMMA AppConfigIs == AppConfig \in Configurations
  <1> DEFINE E == KnownKeys
  <1>1. \A k \in E : IsConfigKey(k) /\ Suits(k, AppConfig[k])
    BY AppConfigSuits, KnownIsConfigKey
  <1>2. AppConfig = [k \in E |-> AppConfig[k]]
    BY DEF AppConfig, KnownKeys
  <1>3. \A k \in E : AppConfig[k] \in Held
    BY <1>1, SuitsHeld
  <1>4. E \subseteq Word \X Word
    BY <1>1 DEF IsConfigKey
  <1>5. IsFiniteSet(OptionNames(AppConfig))
    <2>1. OptionNames(AppConfig) \subseteq {"remember_last_entry", "timeout"}
      <3> SUFFICES ASSUME NEW k \in E, k[1] = "limine"
                   PROVE  k[2] \in {"remember_last_entry", "timeout"}
        BY <1>2 DEF OptionNames
      <3>1. k \in DOMAIN Options
        BY KeysAreOurs DEF KnownKeys
      <3>. QED  BY <3>1 DEF Options
    <2>2. IsFiniteSet({"remember_last_entry", "timeout"})
      <3>1. {"remember_last_entry", "timeout"} = ({} \cup {"remember_last_entry"}) \cup {"timeout"}
        OBVIOUS
      <3>2. IsFiniteSet({} \cup {"remember_last_entry"})
        BY FS_EmptySet, FS_AddElement, Zenon
      <3>3. IsFiniteSet(({} \cup {"remember_last_entry"}) \cup {"timeout"})
        BY ONLY <3>2, FS_AddElement, Zenon
      <3>. QED  BY ONLY <3>1, <3>3
    <2>. QED  BY <2>1, <2>2, FS_Subset
  <1> HIDE DEF E
  <1>6. AppConfig \in [E -> Held]
    BY <1>2, <1>3
  <1>7. DOMAIN AppConfig = E
    BY <1>2
  <1>8. IsConfiguration(AppConfig)
    BY <1>1, <1>5, <1>7 DEF IsConfiguration, E
  <1>. QED  BY <1>4, <1>6, <1>8 DEF Configurations

(* A configuration in which a value of its kind is set is one. *)
LEMMA AssignType ==
  ASSUME NEW config \in Configurations, NEW key, IsConfigKey(key), NEW v, Suits(key, v)
  PROVE  Assign(config, key, v) \in Configurations
  <1> DEFINE new == Assign(config, key, v)
  <1>1. PICK E \in SUBSET (Word \X Word) : config \in [E -> Held]
    BY DEF Configurations
  <1>2. v \in Held /\ key \in Word \X Word
    BY SuitsHeld DEF IsConfigKey
  <1>3. IsConfiguration(config) /\ DOMAIN config = E
    BY <1>1 DEF Configurations
  <1>4. new = [k \in E \cup {key} |-> IF k = key THEN v ELSE config[k]]
    BY <1>3 DEF Assign
  <1>5. new \in [E \cup {key} -> Held] /\ E \cup {key} \in SUBSET (Word \X Word)
    <2> DEFINE P == Word \X Word
    <2>1. E \in SUBSET P /\ key \in P
      BY <1>2
    <2> HIDE DEF P, new
    <2>2. new \in [E \cup {key} -> Held] /\ E \cup {key} \in SUBSET P
      BY <1>1, <1>2, <1>4, <2>1
    <2>. QED  BY <2>2 DEF P
  <1>6. DOMAIN new = E \cup {key}
    BY <1>4
  <1>7. IsFiniteSet(OptionNames(new))
    <2>1. OptionNames(new) \subseteq OptionNames(config) \cup {key[2]}
      BY <1>3, <1>6 DEF OptionNames
    <2>2. IsFiniteSet(OptionNames(config) \cup {key[2]})
      BY <1>3, FS_AddElement DEF IsConfiguration
    <2>. QED  BY <2>1, <2>2, FS_Subset
  <1>8. KnownKeys \subseteq DOMAIN new
    BY <1>3, <1>6 DEF IsConfiguration
  <1>9. \A k \in DOMAIN new : IsConfigKey(k) /\ Suits(k, new[k])
    <2> SUFFICES ASSUME NEW k \in DOMAIN new PROVE IsConfigKey(k) /\ Suits(k, new[k])
      OBVIOUS
    <2>1. CASE k = key
      <3>1. new[k] = v
        BY <1>4, <2>1
      <3>. QED  BY <2>1, <3>1
    <2>2. CASE k # key
      <3>1. k \in DOMAIN config /\ new[k] = config[k]
        BY <1>3, <1>4, <1>6, <2>2
      <3>. QED  BY <1>3, <3>1 DEF IsConfiguration
    <2>. QED  BY <2>1, <2>2
  <1> HIDE DEF new
  <1>10. IsConfiguration(new)
    BY <1>7, <1>8, <1>9 DEF IsConfiguration
  <1>11. new \in Configurations
    BY <1>5, <1>10 DEF Configurations
  <1>. QED  BY <1>11 DEF new

(* A line of a file, whoever wrote it. *)
Lines == [is : {"section", "pair", "skipped", "other"}, key : Word, value : Seq(Word)]

(* The lines that are assumed of a file are such lines.                      *)
LEMMA LinesAre == ConfigLines \subseteq Lines
  <1> DEFINE W == Word
             S == STRING
  <1>1. S \subseteq W
    BY DEF Word
  <1>2. \A v \in Seq(S) : v \in Seq(W)
    <2> HIDE DEF S, W
    <2>. QED  BY <1>1
  <1> SUFFICES ASSUME NEW line \in ConfigLines PROVE line \in Lines
    OBVIOUS
  <1>3. /\ line.is \in {"section", "pair", "skipped", "other"} /\ line.key \in S
        /\ line.value \in Seq(S)
        /\ line = [is |-> line.is, key |-> line.key, value |-> line.value]
    BY DEF ConfigLines
  <1> HIDE DEF S, W
  <1>4. line \in [is : {"section", "pair", "skipped", "other"}, key : W, value : Seq(W)]
    BY <1>1, <1>2, <1>3
  <1>. QED  BY <1>4 DEF Lines, W

(* What assign makes of a configuration is one. *)
LEMMA SetType ==
  ASSUME NEW config \in Configurations, NEW section \in SectionNames, NEW name \in Word, name # "",
         NEW value \in Seq(Word), NEW key, key = <<section, Lower(name)>>,
         key \in Keys \/ section = "limine", Readable(key, value)
  PROVE  Assign(config, key, Read(key, value)) \in Configurations
  <1>1. section \in Word /\ Lower(name) \in Word /\ Lower(name) # ""
        /\ Lower(Lower(name)) = Lower(name)
    BY LowerIs DEF SectionNames
  <1>2. key[1] = section /\ key[2] = Lower(name) /\ key \in Word \X Word
    BY <1>1
  <1>3. IsConfigKey(key)
    BY <1>1, <1>2 DEF IsConfigKey, IsLower
  <1>. QED  BY <1>3, ReadSuits, AssignType

(* One line keeps to what load can know. *)
LEMMA ReadLineType ==
  ASSUME NEW state \in LoadStates, NEW line \in Lines
  PROVE  ReadLine(state, line) \in LoadStates
  <1> DEFINE key == <<state.section, Lower(line.key)>>
             failed == [state EXCEPT !.failed = TRUE]
             in == [state EXCEPT !.section = Lower(line.key)]
             set == [state EXCEPT !.config = Assign(@, key, Read(key, line.value))]
             may == (key \in Keys \/ state.section = "limine") /\ Readable(key, line.value)
  <1>1. /\ state.section \in SectionNames /\ state.config \in Configurations
        /\ state.failed \in BOOLEAN
        /\ state = [section |-> state.section, config |-> state.config, failed |-> state.failed]
    BY DEF LoadStates
  <1>2. /\ line.is \in {"section", "pair", "skipped", "other"} /\ line.value \in Seq(Word)
        /\ line.key \in Word
    BY DEF Lines
  <1>3. Lower(line.key) \in SectionNames
    BY <1>2, LowerIs DEF SectionNames
  <1>4. failed \in LoadStates /\ in \in LoadStates
    BY <1>1, <1>3 DEF LoadStates
  <1>5. line.key # "" /\ may => set \in LoadStates
    <2> DEFINE new == Assign(state.config, key, Read(key, line.value))
    <2>1. line.key # "" /\ may => new \in Configurations
      <3> SUFFICES ASSUME line.key # "", may PROVE new \in Configurations
        OBVIOUS
      <3>. QED  BY <1>1, <1>2, SetType
    <2>2. set = [state EXCEPT !.config = new]
      OBVIOUS
    <2> HIDE DEF new, set, may
    <2>. QED  BY <1>1, <2>1, <2>2 DEF LoadStates
  <1>6. \/ ReadLine(state, line) \in {state, failed, in}
        \/ line.key # "" /\ may /\ ReadLine(state, line) = set
    <2>1. ReadLine(state, line) =
            CASE state.failed \/ line.is = "skipped"                -> state
              [] ~state.failed /\ line.is \in {"section", "pair"} /\ line.key = "" -> failed
              [] ~state.failed /\ line.is = "other"                  -> failed
              [] ~state.failed /\ line.is = "section" /\ line.key # "" -> in
              [] ~state.failed /\ line.is = "pair" /\ line.key # "" ->
                   IF may THEN set ELSE failed
      BY DEF ReadLine
    <2> HIDE DEF failed, in, set, may, key
    <2>. QED  BY <1>1, <1>2, <2>1
  <1> HIDE DEF failed, in, set, may
  <1>. QED  BY <1>4, <1>5, <1>6

(* The step of load as a function. *)
Loading == [se \in LoadStates \X Lines |-> ReadLine(se[1], se[2])]

(* A step of load, as a function.                                            *)
LEMMA LoadingStep ==
  ASSUME NEW s \in LoadStates, NEW e \in Lines
  PROVE  Loading[<<s, e>>] = ReadLine(s, e)
  BY DEF Loading

(* Loading is a scan over the states of load.                                *)
LEMMA LoadingIs ==
  ASSUME NEW s \in LoadStates, NEW text \in Seq(Lines)
  PROVE  IsScan(LoadStates, Lines, Loading, s, text)
  <1> DEFINE X == LoadStates
             E == Lines
  <1>1. \A t \in X, e \in E : ReadLine(t, e) \in X
    BY ReadLineType
  <1> HIDE DEF X, E
  <1>2. Loading \in [X \X E -> X]
    BY <1>1 DEF Loading, X, E
  <1>. QED  BY <1>2 DEF IsScan, X, E

(* The loop is the scan of that function. *)
LEMMA LoadingScan ==
  ASSUME NEW s \in LoadStates, NEW text \in Seq(Lines)
  PROVE  Scan(ReadLine, s, text) = ScanOf(Loading, s, text)
  <1> DEFINE T == CHOOSE g : g = [k \in 0..Len(text) |->
                                    IF k = 0 THEN s ELSE ReadLine(g[k-1], text[k])]
             G == Loading
             X == LoadStates
             E == Lines
  <1>1. Scan(ReadLine, s, text) = T[Len(text)]
    BY DEF Scan
  <1>2. Len(text) \in Nat /\ \A k \in 1..Len(text) : text[k] \in E
    BY LenProperties
  <1>4. IsScan(X, E, G, s, text)
    BY LoadingIs
  <1>5. \A t \in X, z \in E : G[<<t, z>>] = ReadLine(t, z)
    BY LoadingStep
  <1>3. T = CHOOSE g : g = [k \in 0..Len(text) |-> IF k = 0 THEN s ELSE ReadLine(g[k-1], text[k])]
    OBVIOUS
  <1> HIDE DEF T, G, X, E
  <1>6. PICK f : Follows(f, X, G, s, text)
    BY <1>4, ScanExists
  <1>7. f = [k \in 0..Len(text) |-> IF k = 0 THEN s ELSE ReadLine(f[k-1], text[k])]
    <2>1. \A k \in 1..Len(text) : f[k-1] \in X /\ f[k] = ReadLine(f[k-1], text[k])
      <3> SUFFICES ASSUME NEW k \in 1..Len(text)
                   PROVE  f[k-1] \in X /\ f[k] = ReadLine(f[k-1], text[k])
        OBVIOUS
      <3>1. k - 1 \in 0..Len(text)
        BY <1>2
      <3>2. f[k-1] \in X /\ f[k] = G[<<f[k-1], text[k]>>]
        BY <1>6, <3>1 DEF Follows
      <3>. QED  BY <1>2, <1>5, <3>2
    <2>2. f \in [0..Len(text) -> X] /\ f[0] = s
      BY <1>6 DEF Follows
    <2>3. \A k \in 0..Len(text) : f[k] = IF k = 0 THEN s ELSE ReadLine(f[k-1], text[k])
      BY <1>2, <2>1, <2>2
    <2>. QED  BY <2>2, <2>3
  <1>8. T = [k \in 0..Len(text) |-> IF k = 0 THEN s ELSE ReadLine(T[k-1], text[k])]
    BY <1>3, <1>7
  <1>9. FollowsIn(T, X, G, s, text)
    <2>1. T[0] = s
      BY <1>2, <1>8
    <2>2. ASSUME NEW k \in 1..Len(text), T[k-1] \in X PROVE T[k] = G[<<T[k-1], text[k]>>]
      <3>1. T[k] = ReadLine(T[k-1], text[k])
        BY <1>2, <1>8
      <3>. QED  BY <1>2, <1>5, <2>2, <3>1
    <2>. QED  BY <2>1, <2>2 DEF FollowsIn
  <1>. QED  BY <1>1, <1>4, <1>9, ScanLink DEF G

(* What load knows at the end. *)
LoadStart == [section |-> "", config |-> AppConfig, failed |-> FALSE]

(* What load gives, by the state at the end.                                 *)
LEMMA LoadIs ==
  ASSUME NEW lines \in Seq(Lines)
  PROVE  LET end == ScanOf(Loading, LoadStart, lines) IN
         /\ LoadStart \in LoadStates /\ end \in LoadStates
         /\ Load(lines).config = end.config
         /\ Load(lines).failed = (end.failed \/ ~Consistent(end.config))
  <1> DEFINE end == Scan(ReadLine, LoadStart, lines)
  <1>1. LoadStart \in LoadStates
    <2>1. "" \in SectionNames
      BY LowerIs DEF SectionNames, Word, Lower
    <2>. QED  BY <2>1, AppConfigIs DEF LoadStates, LoadStart
  <1>2. end \in LoadStates /\ end = ScanOf(Loading, LoadStart, lines)
    BY <1>1, LoadingScan, LoadingIs, ScanOfType
  <1>3. Load(lines) = [end EXCEPT !.failed = @ \/ ~Consistent(end.config)]
    BY DEF Load, LoadStart
  <1> HIDE DEF end
  <1> DEFINE right == end.failed \/ ~Consistent(end.config)
  <1>4. Load(lines) = [end EXCEPT !.failed = right]
    BY <1>3
  <1> HIDE DEF right
  <1>5. Load(lines).config = end.config /\ Load(lines).failed = right
    BY <1>2, <1>4 DEF LoadStates
  <1>. QED  BY <1>1, <1>2, <1>5 DEF right

(* The limit on snapshots is a number in every configuration that loads. *)
LEMMA LoadedLimit ==
  ASSUME NEW lines \in Seq(ConfigLines)
  PROVE  Load(lines).config[Limit] \in Nat
  <1>1. lines \in Seq(Lines)
    <2> DEFINE S == ConfigLines
               T == Lines
    <2>1. S \subseteq T
      BY LinesAre
    <2> HIDE DEF S, T
    <2>2. lines \in Seq(S) => lines \in Seq(T)
      BY <2>1
    <2>. QED  BY <2>2 DEF S, T
  <1>2. Load(lines).config \in Configurations
    BY <1>1, LoadIs DEF LoadStates
  <1>. QED  BY <1>2, LimitIs

-----------------------------------------------------------------------------
(***************************************************************************)
(* What is shown of a value is read as that value.                         *)
(***************************************************************************)

(* Joining goes item by item. *)
LEMMA JoinedNext ==
  ASSUME NEW W, NEW V, V \subseteq W, Separator \in W, NEW t \in Seq(V), NEW d \in V
  PROVE  /\ Joined(t) \in Seq(W)
         /\ Joined(t \o <<d>>) = IF Joined(t) = <<>> THEN <<d>> ELSE Joined(t) \o <<Separator, d>>
  <1> DEFINE j == ScanOf(Joining(W, V), <<>>, t)
             u == t \o <<d>>
  <1>0. u \in Seq(V)
    OBVIOUS
  <1>1. IsScan(Seq(W), V, Joining(W, V), <<>>, t)
    BY JoiningIs
  <1>2. j \in Seq(W) /\ ScanOf(Joining(W, V), <<>>, u) = Joining(W, V)[<<j, d>>]
    BY <1>1, ScanOfType, ScanOfAppend
  <1>3. Joined(t) = j /\ Joined(u) = ScanOf(Joining(W, V), <<>>, u)
    BY <1>0, JoinedScan
  <1> HIDE DEF j, u
  <1>4. Joining(W, V)[<<j, d>>] = IF j = <<>> THEN <<d>> ELSE j \o <<Separator, d>>
    BY <1>2, JoiningStep
  <1>. QED  BY <1>2, <1>3, <1>4 DEF u

(* Nothing is joined to nothing.                                             *)
LEMMA JoinedEmpty == Joined(<<>>) = <<>>
  <1> DEFINE W == {Separator}
             V == {}
  <1>1. <<>> \in Seq(V) /\ V \subseteq W /\ Separator \in W
    OBVIOUS
  <1> HIDE DEF W, V
  <1>2. IsScan(Seq(W), V, Joining(W, V), <<>>, <<>>)
    BY <1>1, JoiningIs
  <1>3. Joined(<<>>) = ScanOf(Joining(W, V), <<>>, <<>>)
    BY <1>1, JoinedScan
  <1>4. ScanOf(Joining(W, V), <<>>, <<>>) = <<>>
    BY <1>2, ScanOfEmpty
  <1>. QED  BY <1>3, <1>4

(* The items that are joined can be told apart. *)
LEMMA JoinedApart ==
  ASSUME NEW W, NEW V, V \subseteq W, Separator \in W, Separator \notin V, NEW items \in Seq(V)
  PROVE  Filtered(Joined(items), V) = items
  <1> DEFINE good(t) == Joined(t) \in Seq(W) /\ Filtered(Joined(t), V) = t
             Q == {t \in Seq(V) : good(t)}
  <1>1. <<>> \in Q
    <2>1. <<>> \in Seq(V) /\ <<>> \in Seq(W)
      OBVIOUS
    <2>. QED  BY <2>1, JoinedEmpty, FilteredEmpty
  <1>2. ASSUME NEW t \in Q, NEW d \in V PROVE t \o <<d>> \in Q
    <2> DEFINE u == t \o <<d>>
               j == Joined(t)
               c == j \o <<Separator>>
    <2>1. t \in Seq(V) /\ j \in Seq(W) /\ Filtered(j, V) = t
      OBVIOUS
    <2>2. Joined(u) = IF j = <<>> THEN <<d>> ELSE j \o <<Separator, d>>
      BY <2>1, JoinedNext
    <2>3. u \in Seq(V) /\ d \in W /\ Append(t, d) = u
      <3>1. t \in Seq(V)
        BY <2>1
      <3> HIDE DEF good, Q
      <3>. QED  BY <3>1
    <2>4. CASE j = <<>>
      <3>1. Filtered(<<>> \o <<d>>, V) = Append(Filtered(<<>>, V), d)
        <4>1. <<>> \in Seq(W)
          OBVIOUS
        <4>. QED  BY <2>3, <4>1, FilteredNext
      <3>2. <<>> \o <<d>> = <<d>> /\ <<d>> \in Seq(W)
        BY <2>3
      <3> HIDE DEF j, u
      <3>3. Filtered(j, V) = t /\ Joined(u) = <<d>>
        BY <2>1, <2>2, <2>4
      <3>4. Filtered(Joined(u), V) = u
        BY <2>3, <2>4, <3>1, <3>2, <3>3
      <3>. QED  BY <2>3, <3>2, <3>3, <3>4 DEF u
    <2>5. CASE j # <<>>
      <3>1. c \in Seq(W) /\ Joined(u) = c \o <<d>> /\ c \o <<d>> \in Seq(W)
        <4> HIDE DEF j, u
        <4>1. c \in Seq(W) /\ c \o <<d>> = j \o <<Separator, d>> /\ c \o <<d>> \in Seq(W)
          BY <2>1, <2>3
        <4>. QED  BY <2>2, <2>5, <4>1
      <3> HIDE DEF u
      <3>2. Filtered(c, V) = Filtered(j, V)
        <4> HIDE DEF j
        <4>. QED  BY <2>1, FilteredNext
      <3> HIDE DEF c
      <3>3. Filtered(c \o <<d>>, V) = Append(Filtered(c, V), d)
        BY <2>3, <3>1, FilteredNext
      <3> HIDE DEF j
      <3>4. Filtered(Joined(u), V) = u
        BY <2>1, <2>3, <3>1, <3>2, <3>3
      <3>5. Joined(u) \in Seq(W)
        BY <3>1
      <3>. QED  BY <2>3, <3>4, <3>5 DEF u
    <2>. QED  BY <2>4, <2>5
  <1>3. Q = Seq(V)
    <2> HIDE DEF Q
    <2>1. Q \subseteq Seq(V)
      BY DEF Q
    <2>. QED  BY <1>1, <1>2, <2>1, SeqInduction
  <1>. QED  BY <1>3

(* What is filtered depends only on the elements there are. *)
LEMMA FilteredSame ==
  ASSUME NEW W, NEW text \in Seq(W), NEW R, NEW S, \A e \in ToSet(text) : e \in R <=> e \in S
  PROVE  Filtered(text, R) = Filtered(text, S)
  <1> DEFINE D == ToSet(text)
  <1>1. text \in Seq(D)
    BY DEF ToSet
  <1>2. Filtering(D, R) = Filtering(D, S)
    <2> HIDE DEF D
    <2>1. \A e \in D : e \in R <=> e \in S
      BY DEF D
    <2>. QED  BY <2>1 DEF Filtering
  <1> HIDE DEF D
  <1>3. Filtered(text, R) = ScanOf(Filtering(D, R), <<>>, text)
    BY <1>1, FilteringScan
  <1>4. Filtered(text, S) = ScanOf(Filtering(D, S), <<>>, text)
    BY <1>1, FilteringScan
  <1>. QED  BY <1>2, <1>3, <1>4

(* A list that is printed is read as the list it was. *)
LEMMA JoinedIsParsed ==
  ASSUME NEW items \in Seq(Word \ {Separator})
  PROVE  Joined(items) \in Seq(Word) /\ ParseList(Joined(items)) = items
  <1> DEFINE W == Word
             V == Word \ {Separator}
             text == Joined(items)
             R == {word \in ToSet(text) : word # Separator}
  <1>0. V \subseteq W /\ Separator \in W /\ Separator \notin V
    BY DEF Word
  <1>1. text \in Seq(W)
    <2>1. text = ScanOf(Joining(W, V), <<>>, items) /\ IsScan(Seq(W), V, Joining(W, V), <<>>, items)
      BY <1>0, JoiningIs, JoinedScan
    <2> HIDE DEF text, W, V
    <2>. QED  BY <2>1, ScanOfType
  <1>2. Filtered(text, V) = items
    BY <1>0, JoinedApart
  <1>3. \A e \in ToSet(text) : e \in W
    <2> HIDE DEF text, W
    <2>. QED  BY <1>1 DEF ToSet
  <1>4. \A e \in ToSet(text) : e \in R <=> e \in V
    BY <1>3
  <1> HIDE DEF W, V, text
  <1>5. Filtered(text, R) = Filtered(text, V)
    <2> HIDE DEF R
    <2>. QED  BY <1>1, <1>4, FilteredSame
  <1>6. ParseList(text) = Filtered(text, R)
    BY DEF ParseList
  <1>. QED  BY <1>1, <1>2, <1>5, <1>6 DEF text, W

(* Every number is printed as one word, which is read as that number. *)
LEMMA NumberPrinted ==
  ASSUME NEW v \in {Numerals[word] : word \in DOMAIN Numerals}
  PROVE  LET word == CHOOSE w \in Printed : Numerals[w] = v IN
         word \in DOMAIN Numerals /\ Numerals[word] = v
  <1>1. \E w \in Printed : Numerals[w] = v
    <2>1. PICK x \in DOMAIN Numerals : v = Numerals[x]
      OBVIOUS
    <2>2. CASE x \notin {"01", "-1"}
      BY <2>1, <2>2 DEF Printed
    <2>3. CASE x = "01"
      <3>1. Numerals["01"] = 1 /\ Numerals["1"] = 1 /\ "1" \in DOMAIN Numerals
        BY DEF Numerals
      <3>2. "1" \in Printed
        BY <3>1 DEF Printed
      <3>. QED  BY <2>1, <2>3, <3>1, <3>2
    <2>4. CASE x = "-1"
      <3> DEFINE most == "18446744073709551615"
      <3>1. Numerals["-1"] = Wrapped /\ Numerals[most] = Wrapped /\ most \in DOMAIN Numerals
        BY DEF Numerals
      <3>2. most \in Printed
        BY <3>1 DEF Printed
      <3>. QED  BY <2>1, <2>4, <3>1, <3>2
    <2>. QED  BY <2>2, <2>3, <2>4
  <1>2. Printed \subseteq DOMAIN Numerals
    BY DEF Printed
  <1>. QED  BY <1>1, <1>2

(* What is printed of a key is read as the value it has. *)
LEMMA ShowReads ==
  ASSUME NEW config, NEW k, Suits(k, config[k])
  PROVE  LET shown == Show(config, k) IN
         shown \in Seq(Word) /\ Readable(k, shown) /\ Read(k, shown) = config[k]
  <1> DEFINE shown == Show(config, k)
             v == config[k]
  <1> HIDE DEF shown
  <1> SUFFICES shown \in Seq(Word) /\ Readable(k, shown) /\ Read(k, shown) = v
    BY DEF shown
  <1>0. \A w \in Word : <<w>> \in Seq(Word) /\ <<w>>[1] = w /\ Len(<<w>>) = 1
    <2> DEFINE W == Word
    <2>1. \A w \in W : <<w>> \in Seq(W) /\ <<w>>[1] = w /\ Len(<<w>>) = 1
      <3> HIDE DEF W
      <3>. QED  OBVIOUS
    <2>. QED  BY <2>1
  <1>1. CASE k \in Flags
    <2>0. k \notin Sizes /\ k \notin Lists /\ k # Theme /\ k # Efi /\ v \in BOOLEAN
      BY <1>1, KindsAre DEF Suits
    <2>1. shown = IF v THEN <<"true">> ELSE <<"false">>
      BY <1>1, <2>0 DEF Show, shown, Efi
    <2>2. PICK w \in {"true", "false"} : shown = <<w>> /\ (w = "true" <=> v)
      BY <2>0, <2>1
    <2>3. shown \in Seq(Word) /\ shown[1] = w /\ Len(shown) = 1
      <3>1. w \in Word
        BY DEF Word
      <3>. QED  BY <1>0, <2>2, <3>1
    <2>4. Lower(w) = w
      BY DEF Lower
    <2>5. Readable(k, shown)
      BY <1>1, <2>0, <2>3, <2>4 DEF Readable
    <2>6. Read(k, shown) = (Lower(shown[1]) \in {"true", "yes", "1"})
      BY <1>1, <2>0 DEF Read, Theme, Efi
    <2>7. (Lower(shown[1]) \in {"true", "yes", "1"}) = v
      <3>1. Lower(shown[1]) = w
        BY <2>3, <2>4
      <3>2. (w \in {"true", "yes", "1"}) <=> v
        BY <2>2
      <3> HIDE DEF v
      <3>. QED  BY <2>0, <3>1, <3>2
    <2>. QED  BY <2>3, <2>5, <2>6, <2>7
  <1>2. CASE k \in Sizes
    <2>0. k \notin Flags /\ k \notin Lists /\ k # Theme /\ k # Efi
          /\ v \in {Numerals[word] : word \in DOMAIN Numerals}
      BY <1>2, KindsAre DEF Suits
    <2> DEFINE w == CHOOSE word \in Printed : Numerals[word] = v
    <2>1. shown = <<w>>
      BY <1>2, <2>0 DEF Show, shown, Efi
    <2>2. w \in DOMAIN Numerals /\ Numerals[w] = v
      BY <2>0, NumberPrinted
    <2> HIDE DEF w
    <2>3. shown \in Seq(Word) /\ shown[1] = w /\ Len(shown) = 1
      <3>1. w \in Word
        BY <2>2 DEF Word
      <3>. QED  BY <1>0, <2>1, <3>1
    <2>4. Readable(k, shown)
      BY <1>2, <2>0, <2>2, <2>3 DEF Readable
    <2>5. Read(k, shown) = Numerals[shown[1]]
      BY <1>2, <2>0 DEF Read, Theme, Efi
    <2>. QED  BY <2>2, <2>3, <2>4, <2>5
  <1>3. CASE k \in Lists
    <2>0. k \notin Flags /\ k \notin Sizes /\ k # Theme /\ k # Efi /\ v \in Seq(Word \ {Separator})
      BY <1>3, KindsAre DEF Suits
    <2>1. shown = Joined(v)
      BY <1>3, <2>0 DEF Show, shown, Efi
    <2>2. shown \in Seq(Word) /\ ParseList(shown) = v
      BY <2>0, <2>1, JoinedIsParsed
    <2>3. Readable(k, shown)
      BY <2>0 DEF Readable
    <2>4. Read(k, shown) = ParseList(shown)
      BY <1>3, <2>0 DEF Read, Theme, Efi
    <2>. QED  BY <2>2, <2>3, <2>4
  <1>4. CASE k = Theme
    <2>0. k \notin Flags /\ k \notin Sizes /\ k \notin Lists /\ k # Efi
      BY <1>4, KindsAre
    <2>1. v \in Seq(Word) /\ \A i \in DOMAIN v : Lower(v[i]) = v[i]
      BY <1>4, <2>0 DEF Suits
    <2>2. shown = v
      BY <2>0 DEF Show, shown, Efi
    <2>3. Readable(k, shown)
      BY <2>0 DEF Readable
    <2>4. Read(k, shown) = [i \in DOMAIN shown |-> Lower(shown[i])]
      BY <1>4, <2>0 DEF Read, Theme, Efi
    <2>5. v = [i \in DOMAIN v |-> v[i]]
      <3> DEFINE W == Word
      <3>1. v \in Seq(W)
        BY <2>1
      <3> HIDE DEF W, v
      <3>. QED  BY <3>1
    <2> HIDE DEF v
    <2>6. [i \in DOMAIN v |-> Lower(v[i])] = v
      BY <2>1, <2>5
    <2>. QED  BY <2>1, <2>2, <2>3, <2>4, <2>6
  <1>5. CASE k = Efi
    <2>0. k \notin Flags /\ k \notin Sizes /\ k \notin Lists /\ k # Theme
      BY <1>5, KindsAre
    <2>1. v \in Seq(Word) /\ v # <<"auto">>
      BY <1>5, <2>0 DEF Suits
    <2>2. shown = IF v = <<>> THEN <<"auto">> ELSE v
      BY <1>5, <2>0 DEF Show, shown, Efi
    <2>3. Readable(k, shown)
      BY <2>0 DEF Readable
    <2>4. Read(k, shown) = IF shown = <<"auto">> THEN <<>> ELSE shown
      BY <1>5, <2>0 DEF Read, Theme, Efi
    <2>5. <<"auto">> \in Seq(Word)
      <3>1. "auto" \in Word
        BY DEF Word
      <3>. QED  BY <1>0, <3>1
    <2> HIDE DEF v
    <2>. QED  BY <2>1, <2>2, <2>3, <2>4, <2>5
  <1>6. CASE k \notin (Flags \cup Sizes) \cup Lists /\ k # Theme /\ k # Efi
    <2>1. v \in Seq(Word)
      BY <1>6 DEF Suits
    <2>2. shown = v
      BY <1>6 DEF Show, shown, Efi
    <2>3. Readable(k, shown)
      BY <1>6 DEF Readable
    <2>4. Read(k, shown) = shown
      BY <1>6 DEF Read, Theme, Efi
    <2>. QED  BY <2>1, <2>2, <2>3, <2>4
  <1>. QED  BY <1>1, <1>2, <1>3, <1>4, <1>5, <1>6

-----------------------------------------------------------------------------
(***************************************************************************)
(* The lines of a section are read as the values of its keys.              *)
(***************************************************************************)

(* The configuration in which some keys have the value of another one. *)
Taken(config, S) ==
  [k \in DOMAIN AppConfig \cup S |-> IF k \in S THEN config[k] ELSE AppConfig[k]]

(* What load knows in a section, and when it has read those keys. *)
Within(name, config) == [section |-> name, config |-> config, failed |-> FALSE]
After(name, config, S) == Within(name, Taken(config, S))

(* Such a configuration is one.                                              *)
LEMMA TakenIs ==
  ASSUME NEW config \in Configurations, NEW S \in SUBSET DOMAIN config
  PROVE  Taken(config, S) \in Configurations
  <1> DEFINE new == Taken(config, S)
             E == KnownKeys \cup S
  <1>0. IsConfiguration(config) /\ DOMAIN config \subseteq Word \X Word
    BY DEF Configurations
  <1>1. new = [k \in E |-> IF k \in S THEN config[k] ELSE AppConfig[k]]
    BY DEF Taken, AppConfig, KnownKeys
  <1>2. E \subseteq DOMAIN config
    BY <1>0 DEF IsConfiguration
  <1>3. \A k \in E : new[k] = IF k \in S THEN config[k] ELSE AppConfig[k]
    BY <1>1
  <1>4. DOMAIN new = E
    BY <1>1
  <1>5. \A k \in E : IsConfigKey(k) /\ Suits(k, new[k])
    <2> HIDE DEF new
    <2> SUFFICES ASSUME NEW k \in E PROVE IsConfigKey(k) /\ Suits(k, new[k])
      OBVIOUS
    <2>1. IsConfigKey(k) /\ Suits(k, config[k])
      BY <1>0, <1>2 DEF IsConfiguration
    <2>2. k \notin S => Suits(k, AppConfig[k])
      BY AppConfigSuits
    <2>. QED  BY <1>3, <2>1, <2>2
  <1>6. \A k \in E : new[k] \in Held
    BY <1>5, SuitsHeld
  <1>7. IsFiniteSet(OptionNames(new))
    <2>1. OptionNames(new) \subseteq OptionNames(config)
      BY <1>2, <1>4 DEF OptionNames
    <2>. QED  BY <1>0, <2>1, FS_Subset DEF IsConfiguration
  <1>8. new \in [E -> Held]
    <2> DEFINE f(k) == IF k \in S THEN config[k] ELSE AppConfig[k]
    <2>1. \A k \in E : f(k) \in Held
      BY <1>3, <1>6
    <2>2. new = [k \in E |-> f(k)]
      BY <1>1
    <2> HIDE DEF new, E, f
    <2>. QED  BY <2>1, <2>2
  <1>9. IsConfiguration(new)
    <2> HIDE DEF new
    <2>. QED  BY <1>4, <1>5, <1>7 DEF IsConfiguration
  <1> HIDE DEF new
  <1>10. new \in Configurations
    BY <1>0, <1>2, <1>8, <1>9 DEF Configurations
  <1>. QED  BY <1>10 DEF new

(* Setting one more key to the value of the other configuration.             *)
LEMMA TakenMore ==
  ASSUME NEW config, NEW S, NEW k
  PROVE  Assign(Taken(config, S), k, config[k]) = Taken(config, S \cup {k})
  <1> DEFINE E == DOMAIN AppConfig
             old == Taken(config, S)
  <1>1. old = [j \in E \cup S |-> IF j \in S THEN config[j] ELSE AppConfig[j]]
    BY DEF Taken
  <1>2. DOMAIN old = E \cup S
    BY <1>1
  <1>3. Assign(old, k, config[k]) = [j \in DOMAIN old \cup {k} |-> IF j = k THEN config[k] ELSE old[j]]
    BY DEF Assign
  <1> HIDE DEF old
  <1>4. \A j \in (E \cup S) \cup {k} :
          (IF j = k THEN config[k] ELSE old[j]) = IF j \in S \cup {k} THEN config[j] ELSE AppConfig[j]
    BY <1>1
  <1>5. (E \cup S) \cup {k} = E \cup (S \cup {k})
    OBVIOUS
  <1>6. Taken(config, S \cup {k})
          = [j \in E \cup (S \cup {k}) |-> IF j \in S \cup {k} THEN config[j] ELSE AppConfig[j]]
    BY DEF Taken
  <1> HIDE DEF E
  <1>. QED  BY <1>2, <1>3, <1>4, <1>5, <1>6 DEF old

(* The state of load with another section, or another configuration. *)
LEMMA StateChanged ==
  ASSUME NEW section, NEW config, NEW failed, NEW x,
         NEW state, state = [section |-> section, config |-> config, failed |-> failed]
  PROVE  /\ [state EXCEPT !.section = x] = [section |-> x, config |-> config, failed |-> failed]
         /\ [state EXCEPT !.config = x] = [section |-> section, config |-> x, failed |-> failed]
  OBVIOUS

(* The state of load in another section.                                     *)
LEMMA SectionChanged ==
  ASSUME NEW state \in LoadStates, NEW name
  PROVE  [state EXCEPT !.section = name]
           = [section |-> name, config |-> state.config, failed |-> state.failed]
  <1>1. state = [section |-> state.section, config |-> state.config, failed |-> state.failed]
    BY DEF LoadStates
  <1>. QED  BY <1>1, StateChanged

(* The lines that are printed, and what load makes of one. *)
LEMMA SectionRead ==
  ASSUME NEW state \in LoadStates, state.failed = FALSE, NEW name \in SectionNames, name # ""
  PROVE  /\ Section(name) \in Lines
         /\ Loading[<<state, Section(name)>>] = Within(name, state.config)
  <1> DEFINE line == Section(name)
             W == Word
  <1>1. name \in W /\ Lower(name) = name
    BY DEF SectionNames
  <1>2. <<>> \in Seq(W)
    BY EmptySeq
  <1> HIDE DEF W
  <1>3. line \in Lines
    BY <1>1, <1>2 DEF Lines, Section, W
  <1>4. line.is = "section" /\ line.key = name
    BY DEF Section
  <1>5. Loading[<<state, line>>] = ReadLine(state, line)
    BY <1>3, LoadingStep
  <1> HIDE DEF line
  <1>6. ReadLine(state, line) = [state EXCEPT !.section = Lower(line.key)]
    BY <1>4 DEF ReadLine
  <1>7. [state EXCEPT !.section = name]
          = [section |-> name, config |-> state.config, failed |-> state.failed]
    BY SectionChanged
  <1>. QED  BY <1>1, <1>3, <1>4, <1>5, <1>6, <1>7 DEF line, Within

(* A pair of a key and its printed value sets the key to that value.         *)
LEMMA PairRead ==
  ASSUME NEW name \in SectionNames, NEW c \in Configurations, NEW key \in Word, IsLower(key),
         NEW k, k = <<name, key>>, k \in Keys \/ name = "limine", NEW shown \in Seq(Word),
         Readable(k, shown), NEW v, v = Read(k, shown)
  PROVE  /\ Pair(key, shown) \in Lines
         /\ Loading[<<Within(name, c), Pair(key, shown)>>] = Within(name, Assign(c, k, v))
  <1> DEFINE state == [section |-> name, config |-> c, failed |-> FALSE]
             line == Pair(key, shown)
             new == Assign(c, k, v)
  <1>1. line.is = "pair" /\ line.key = key /\ line.value = shown
    BY DEF Pair
  <1>2. line \in Lines
    BY DEF Pair, Lines
  <1>3. state \in LoadStates /\ state.section = name /\ state.config = c /\ state.failed = FALSE
    BY DEF LoadStates
  <1>4. Loading[<<state, line>>] = ReadLine(state, line)
    BY <1>2, <1>3, LoadingStep
  <1> HIDE DEF line, state
  <1>5. key # "" /\ Lower(key) = key
    BY DEF IsLower
  <1>6. <<state.section, Lower(line.key)>> = k
    BY <1>1, <1>3, <1>5
  <1>7. ReadLine(state, line) = [state EXCEPT !.config = Assign(@, k, v)]
    BY <1>1, <1>3, <1>5, <1>6 DEF ReadLine
  <1>8. [state EXCEPT !.config = Assign(@, k, v)] = [state EXCEPT !.config = new]
    BY <1>3
  <1> HIDE DEF new
  <1> DEFINE no == FALSE
  <1>9. state = [section |-> name, config |-> c, failed |-> no]
    BY DEF state
  <1> HIDE DEF no
  <1>10. [state EXCEPT !.config = new] = [section |-> name, config |-> new, failed |-> no]
    BY <1>9, StateChanged
  <1>. QED  BY <1>2, <1>4, <1>7, <1>8, <1>10 DEF line, state, new, no, Within

(* The pairs of a section, as they are printed. *)
Pairs(config, name, names) ==
  [i \in DOMAIN names |-> Pair(names[i], Show(config, <<name, names[i]>>))]

Joint(S, T) == S \cup T

KeysOf(name, names) == {<<name, names[i]>> : i \in DOMAIN names}

(* The pairs of one more option.                                             *)
LEMMA PairsNext ==
  ASSUME NEW config, NEW name, NEW D, NEW names \in Seq(D), NEW d \in D
  PROVE  Pairs(config, name, names \o <<d>>)
           = Pairs(config, name, names) \o <<Pair(d, Show(config, <<name, d>>))>>
  <1> DEFINE p(x) == Pair(x, Show(config, <<name, x>>))
             u == names \o <<d>>
             n == Len(names)
             L == {p(x) : x \in D}
             old == Pairs(config, name, names)
             new == Pairs(config, name, u)
  <1>1. n \in Nat /\ DOMAIN names = 1..n
    OBVIOUS
  <1>2. /\ u \in Seq(D) /\ DOMAIN u = 1..(n + 1) /\ u[n + 1] = d
        /\ \A i \in 1..n : u[i] = names[i] /\ names[i] \in D
    BY <1>1
  <1>3. old = [i \in 1..n |-> p(names[i])] /\ new = [i \in 1..(n + 1) |-> p(u[i])]
    BY <1>1, <1>2 DEF Pairs
  <1>4. \A x \in D : p(x) \in L
    OBVIOUS
  <1> HIDE DEF p, L, u, n, old, new
  <1>5. old \in [1..n -> L]
    BY <1>2, <1>3, <1>4
  <1>6. new \in [1..(n + 1) -> L]
    <2>1. \A i \in 1..(n + 1) : u[i] \in D
      BY <1>1, <1>2
    <2>. QED  BY <1>3, <1>4, <2>1
  <1>7. old \in Seq(L) /\ new \in Seq(L) /\ Len(old) = n /\ Len(new) = n + 1
    BY <1>1, <1>5, <1>6
  <1>8. (\A i \in 1..n : new[i] = old[i]) /\ new[n + 1] = p(d)
    BY <1>1, <1>2, <1>3
  <1>9. new = old \o <<p(d)>>
    BY <1>1, <1>4, <1>7, <1>8
  <1>. QED  BY <1>9 DEF new, old, u, p

(* An option is a key of its section. *)
With(S, x) == S \cup {x}

(* The keys of one more option.                                              *)
LEMMA KeysNext ==
  ASSUME NEW name, NEW D, NEW names \in Seq(D), NEW d \in D
  PROVE  KeysOf(name, names \o <<d>>) = With(KeysOf(name, names), <<name, d>>)
  <1> DEFINE u == names \o <<d>>
             n == Len(names)
  <1>1. n \in Nat /\ DOMAIN names = 1..n
    OBVIOUS
  <1>2. DOMAIN u = 1..(n + 1) /\ u[n + 1] = d /\ \A i \in 1..n : u[i] = names[i]
    BY <1>1
  <1> HIDE DEF u, n
  <1>3. 1..(n + 1) = (1..n) \cup {n + 1}
    BY <1>1
  <1>4. KeysOf(name, u) = {<<name, u[i]>> : i \in (1..n) \cup {n + 1}}
    BY <1>2, <1>3 DEF KeysOf
  <1>5. KeysOf(name, names) = {<<name, names[i]>> : i \in 1..n}
    BY <1>1 DEF KeysOf
  <1>6. KeysOf(name, u) = KeysOf(name, names) \cup {<<name, d>>}
    BY <1>2, <1>4, <1>5
  <1>. QED  BY <1>6 DEF u, With

(* The pairs of a section are read, one by one. *)
LEMMA PairsRead ==
  ASSUME NEW config \in Configurations, NEW name \in SectionNames, NEW S \in SUBSET DOMAIN config,
         NEW D, \A x \in D : x \in Word /\ <<name, x>> \in DOMAIN config, NEW names \in Seq(D)
  PROVE  /\ Pairs(config, name, names) \in Seq(Lines)
         /\ KeysOf(name, names) \subseteq DOMAIN config
         /\ IsScan(LoadStates, Lines, Loading, After(name, config, S), Pairs(config, name, names))
         /\ ScanOf(Loading, After(name, config, S), Pairs(config, name, names))
              = After(name, config, Joint(S, KeysOf(name, names)))
  <1> DEFINE start == After(name, config, S)
             K(t) == KeysOf(name, t)
             P(t) == Pairs(config, name, t)
             good(t) == /\ P(t) \in Seq(Lines) /\ K(t) \subseteq DOMAIN config
                        /\ ScanOf(Loading, start, P(t)) = After(name, config, S \cup K(t))
             Q == {t \in Seq(D) : good(t)}
  <1>0. \A T \in SUBSET DOMAIN config : After(name, config, T) \in LoadStates
    BY TakenIs DEF After, Within, LoadStates
  <1>1. <<>> \in Q
    <2>1. P(<<>>) = <<>> /\ K(<<>>) = {}
      BY DEF Pairs, KeysOf
    <2>2. <<>> \in Seq(D) /\ <<>> \in Seq(Lines)
      BY EmptySeq
    <2>3. ScanOf(Loading, start, <<>>) = start
      <3> HIDE DEF start
      <3>1. start \in LoadStates
        BY <1>0 DEF start
      <3>. QED  BY <2>2, <3>1, LoadingIs, ScanOfEmpty
    <2>4. start = After(name, config, S \cup K(<<>>))
      BY <2>1
    <2> HIDE DEF start, P, K
    <2>. QED  BY <2>1, <2>2, <2>3, <2>4
  <1>2. ASSUME NEW t \in Q, NEW d \in D PROVE t \o <<d>> \in Q
    <2> DEFINE u == t \o <<d>>
               k == <<name, d>>
               T == S \cup K(t)
               shown == Show(config, k)
               line == Pair(d, shown)
    <2>1. t \in Seq(D) /\ good(t)
      OBVIOUS
    <2>2. u \in Seq(D)
      <3> HIDE DEF good
      <3>. QED  BY <2>1
    <2>3. P(u) = P(t) \o <<line>> /\ K(u) = K(t) \cup {k}
      <3>1. t \in Seq(D)
        BY <2>1
      <3> HIDE DEF good, Q
      <3>2. P(u) = P(t) \o <<line>>
        BY <3>1, PairsNext, ZenonT(60)
      <3>3. K(u) = With(K(t), k)
        BY <3>1, KeysNext
      <3>. QED  BY <3>2, <3>3 DEF With
    <2>4. k \in DOMAIN config /\ IsConfigKey(k) /\ Suits(k, config[k])
      BY DEF Configurations, IsConfiguration
    <2>5. d \in Word /\ IsLower(d) /\ (k \in Keys \/ name = "limine")
      BY <2>4 DEF IsConfigKey
    <2>6. shown \in Seq(Word) /\ Readable(k, shown) /\ Read(k, shown) = config[k]
      BY <2>4, ShowReads
    <2>7. T \subseteq DOMAIN config /\ Taken(config, T) \in Configurations
      BY <2>1, TakenIs
    <2> HIDE DEF shown, k, T, good
    <2>8. /\ line \in Lines
          /\ Loading[<<After(name, config, T), line>>]
               = Within(name, Assign(Taken(config, T), k, config[k]))
      <3>1. k = <<name, d>>
        BY DEF k
      <3> DEFINE c == Taken(config, T)
                 v == config[k]
      <3>2. v = Read(k, shown) /\ c \in Configurations
        BY <2>6, <2>7
      <3> HIDE DEF c, v
      <3>3. /\ line \in Lines
            /\ Loading[<<Within(name, c), line>>] = Within(name, Assign(c, k, v))
        <4>1. k \in Keys \/ name = "limine"
          BY <2>5
        <4>2. d \in Word /\ IsLower(d) /\ shown \in Seq(Word) /\ Readable(k, shown)
          BY <2>5, <2>6
        <4> HIDE DEF start, P, K, Q
        <4>. QED  BY <3>1, <3>2, <4>1, <4>2, PairRead
      <3>. QED  BY <3>3 DEF After, c, v
    <2>9. Loading[<<After(name, config, T), line>>] = After(name, config, T \cup {k})
      BY <2>8, TakenMore DEF After
    <2>10. ScanOf(Loading, start, P(t) \o <<line>>) = After(name, config, T \cup {k})
      <3>1. IsScan(LoadStates, Lines, Loading, start, P(t))
        BY <1>0, <2>1, LoadingIs DEF good
      <3>2. ScanOf(Loading, start, P(t)) = After(name, config, T)
        BY <2>1 DEF good, T
      <3> HIDE DEF start, P, line
      <3>. QED  BY <2>8, <2>9, <3>1, <3>2, ScanOfAppend
    <2>11. P(t) \o <<line>> \in Seq(Lines)
      <3>1. P(t) \in Seq(Lines)
        BY <2>1 DEF good
      <3> HIDE DEF P, line
      <3>. QED  BY <2>8, <3>1
    <2>12. S \cup K(u) = T \cup {k}
      BY <2>3 DEF T
    <2>13. K(u) \subseteq DOMAIN config
      BY <2>1, <2>3, <2>4 DEF good
    <2> HIDE DEF P, K, line, start, u
    <2>14. good(u)
      BY <2>3, <2>10, <2>11, <2>12, <2>13 DEF good
    <2>. QED  BY <2>2, <2>14 DEF u
  <1>3. Q = Seq(D)
    <2> HIDE DEF Q
    <2>1. Q \subseteq Seq(D)
      BY DEF Q
    <2>. QED  BY <1>1, <1>2, <2>1, SeqInduction
  <1>4. good(names)
    BY <1>3
  <1>5. IsScan(LoadStates, Lines, Loading, start, P(names))
    BY <1>0, <1>4, LoadingIs
  <1>. QED  BY <1>4, <1>5 DEF Joint

(* A section that can be printed: it has a name, and its options are those   *)
(* of the configuration.                                                     *)
IsPart(config, part) ==
  /\ part[1] \in SectionNames /\ part[1] # "" /\ part[2] \in Seq(Word)
  /\ \A i \in DOMAIN part[2] : <<part[1], part[2][i]>> \in DOMAIN config

(* The keys of a section. *)
Contents(part) == KeysOf(part[1], part[2])

(* A section is read as the values of its keys. *)
LEMMA PartRead ==
  ASSUME NEW config \in Configurations, NEW part, IsPart(config, part),
         NEW name \in SectionNames, NEW S \in SUBSET DOMAIN config
  PROVE  /\ PrintPart(config, part) \in Seq(Lines) /\ Contents(part) \subseteq DOMAIN config
         /\ ScanOf(Loading, After(name, config, S), PrintPart(config, part))
              = After(part[1], config, Joint(S, Contents(part)))
  <1> DEFINE section == part[1]
             names == part[2]
             D == ToSet(names)
             line == Section(section)
             pairs == Pairs(config, section, names)
             start == After(name, config, S)
  <1>1. section \in SectionNames /\ section # ""
    BY DEF IsPart
  <1>2. names \in Seq(D) /\ \A x \in D : x \in Word /\ <<section, x>> \in DOMAIN config
    <2> DEFINE W == Word
    <2>1. names \in Seq(W) /\ \A i \in DOMAIN names : <<section, names[i]>> \in DOMAIN config
      BY DEF IsPart
    <2> HIDE DEF W, names, section
    <2>2. names \in Seq(D)
      BY <2>1 DEF ToSet
    <2>3. \A x \in D : \E i \in DOMAIN names : x = names[i]
      BY DEF ToSet
    <2>4. \A i \in DOMAIN names : names[i] \in W
      BY <2>1
    <2>. QED  BY <2>1, <2>2, <2>3, <2>4 DEF W
  <1>3. PrintPart(config, part) = <<line>> \o pairs
    BY DEF PrintPart, Pairs
  <1>4. start \in LoadStates /\ start.failed = FALSE /\ start.config = Taken(config, S)
    BY TakenIs DEF After, Within, LoadStates
  <1> HIDE DEF section, names, D, pairs, start
  <1>5. line \in Lines /\ Loading[<<start, line>>] = After(section, config, S)
    BY <1>1, <1>4, SectionRead DEF After
  <1>6. /\ pairs \in Seq(Lines) /\ KeysOf(section, names) \subseteq DOMAIN config
        /\ ScanOf(Loading, After(section, config, S), pairs)
             = After(section, config, Joint(S, KeysOf(section, names)))
    <2>1. pairs = Pairs(config, section, names)
      BY DEF pairs
    <2> DEFINE K == KeysOf(section, names)
    <2>2. pairs \in Seq(Lines) /\ K \subseteq DOMAIN config
      BY <1>1, <1>2, <2>1, PairsRead
    <2>3. ScanOf(Loading, After(section, config, S), pairs) = After(section, config, Joint(S, K))
      BY <1>1, <1>2, <2>1, PairsRead
    <2>. QED  BY <2>2, <2>3
  <1> HIDE DEF line
  <1>7. /\ <<line>> \in Seq(Lines) /\ IsScan(LoadStates, Lines, Loading, start, <<line>>)
        /\ ScanOf(Loading, start, <<line>>) = After(section, config, S)
    <2> DEFINE none == <<>>
    <2>1. none \in Seq(Lines) /\ <<line>> = none \o <<line>> /\ <<line>> \in Seq(Lines)
      BY <1>5
    <2>2. IsScan(LoadStates, Lines, Loading, start, none)
      BY <1>4, <2>1, LoadingIs
    <2>3. ScanOf(Loading, start, none) = start
      BY <2>2, ScanOfEmpty
    <2> HIDE DEF none
    <2>4. ScanOf(Loading, start, none \o <<line>>) = Loading[<<start, line>>]
      BY <1>5, <2>2, <2>3, ScanOfAppend
    <2>. QED  BY <1>4, <1>5, <2>1, <2>4, LoadingIs
  <1>8. ScanOf(Loading, start, <<line>> \o pairs) = ScanOf(Loading, After(section, config, S), pairs)
    BY <1>6, <1>7, ScanOfConcat
  <1>9. <<line>> \o pairs \in Seq(Lines)
    BY <1>6, <1>7
  <1>. QED  BY <1>3, <1>6, <1>8, <1>9 DEF Contents, start, section, names

-----------------------------------------------------------------------------
(***************************************************************************)
(* The sections, and what is read of all of them.                          *)
(***************************************************************************)

(* Every section can be printed. *)
Printable(config, P) == \A p \in P : PrintPart(config, p) \in Seq(Lines)

(* Printing, as a scan. *)
PartPrinting(config, P) ==
  [tp \in Seq(Lines) \X P |-> tp[1] \o PrintPart(config, tp[2])]

(* A step of printing.                                                       *)
LEMMA PartPrintingStep ==
  ASSUME NEW config, NEW P, NEW t \in Seq(Lines), NEW p \in P
  PROVE  PartPrinting(config, P)[<<t, p>>] = t \o PrintPart(config, p)
  BY DEF PartPrinting

(* Printing is a scan over texts.                                            *)
LEMMA PartPrintingIs ==
  ASSUME NEW config, NEW P, Printable(config, P), NEW text \in Seq(P)
  PROVE  IsScan(Seq(Lines), P, PartPrinting(config, P), <<>>, text)
  <1> DEFINE X == Seq(Lines)
             step(t, p) == t \o PrintPart(config, p)
  <1>1. \A t \in X, p \in P : step(t, p) \in X
    <2> SUFFICES ASSUME NEW t \in X, NEW p \in P PROVE step(t, p) \in X
      OBVIOUS
    <2>1. PrintPart(config, p) \in Seq(Lines)
      BY DEF Printable
    <2>. QED  BY <2>1
  <1>2. PartPrinting(config, P) = [tp \in X \X P |-> step(tp[1], tp[2])]
    BY DEF PartPrinting
  <1>3. <<>> \in X
    OBVIOUS
  <1> HIDE DEF X, step
  <1>4. PartPrinting(config, P) \in [X \X P -> X]
    BY <1>1, <1>2
  <1>. QED  BY <1>3, <1>4 DEF IsScan, X

(* Printing, as the scan of that function. *)
LEMMA PartPrintingScan ==
  ASSUME NEW config, NEW P, Printable(config, P), NEW text \in Seq(P)
  PROVE  Scan(LAMBDA printed, part : printed \o PrintPart(config, part), <<>>, text)
           = ScanOf(PartPrinting(config, P), <<>>, text)
  <1> DEFINE step(s, e) == s \o PrintPart(config, e)
             T == CHOOSE g : g = [k \in 0..Len(text) |->
                                    IF k = 0 THEN <<>> ELSE step(g[k-1], text[k])]
             G == PartPrinting(config, P)
             X == Seq(Lines)
             E == P
             start == <<>>
  <1>1. Scan(LAMBDA printed, part : printed \o PrintPart(config, part), <<>>, text) = T[Len(text)]
    BY DEF Scan
  <1>2. Len(text) \in Nat /\ \A k \in 1..Len(text) : text[k] \in E
    BY LenProperties
  <1>3. T = CHOOSE g : g = [k \in 0..Len(text) |-> IF k = 0 THEN start ELSE step(g[k-1], text[k])]
    OBVIOUS
  <1>4. IsScan(X, E, G, start, text)
    BY PartPrintingIs
  <1>5. \A s \in X, z \in E : G[<<s, z>>] = step(s, z)
    BY PartPrintingStep
  <1> HIDE DEF T, G, X, E, start, step
  <1>6. PICK f : Follows(f, X, G, start, text)
    BY <1>4, ScanExists
  <1>7. f = [k \in 0..Len(text) |-> IF k = 0 THEN start ELSE step(f[k-1], text[k])]
    <2>1. \A k \in 1..Len(text) : f[k-1] \in X /\ f[k] = step(f[k-1], text[k])
      <3> SUFFICES ASSUME NEW k \in 1..Len(text)
                   PROVE  f[k-1] \in X /\ f[k] = step(f[k-1], text[k])
        OBVIOUS
      <3>1. k - 1 \in 0..Len(text)
        BY <1>2
      <3>2. f[k-1] \in X /\ f[k] = G[<<f[k-1], text[k]>>]
        BY <1>6, <3>1 DEF Follows
      <3>. QED  BY <1>2, <1>5, <3>2
    <2>2. f \in [0..Len(text) -> X] /\ f[0] = start
      BY <1>6 DEF Follows
    <2>3. \A k \in 0..Len(text) : f[k] = IF k = 0 THEN start ELSE step(f[k-1], text[k])
      BY <1>2, <2>1, <2>2
    <2>. QED  BY <2>2, <2>3
  <1>8. T = [k \in 0..Len(text) |-> IF k = 0 THEN start ELSE step(T[k-1], text[k])]
    BY <1>3, <1>7
  <1>9. FollowsIn(T, X, G, start, text)
    <2>1. T[0] = start
      BY <1>2, <1>8
    <2>2. ASSUME NEW k \in 1..Len(text), T[k-1] \in X PROVE T[k] = G[<<T[k-1], text[k]>>]
      <3>1. T[k] = step(T[k-1], text[k])
        BY <1>2, <1>8
      <3>. QED  BY <1>2, <1>5, <2>2, <3>1
    <2>. QED  BY <2>1, <2>2 DEF FollowsIn
  <1>10. T[Len(text)] = ScanOf(G, start, text)
    BY <1>4, <1>9, ScanLink
  <1>. QED  BY <1>1, <1>10 DEF G, start

(* Every section can be printed, and is one of the configuration. *)
AreParts(config, P) == \A p \in P : IsPart(config, p)

(* The keys of the sections. *)
PrintedKeys(parts) == UNION {Contents(parts[i]) : i \in DOMAIN parts}

(* Sections of the configuration can be printed.                             *)
LEMMA PartsPrintable ==
  ASSUME NEW config \in Configurations, NEW P, AreParts(config, P)
  PROVE  Printable(config, P)
  <1> SUFFICES ASSUME NEW p \in P PROVE PrintPart(config, p) \in Seq(Lines)
    BY DEF Printable
  <1>1. IsPart(config, p)
    BY DEF AreParts
  <1>2. "" \in SectionNames
    BY LowerIs DEF SectionNames, Word, Lower
  <1>3. {} \in SUBSET DOMAIN config
    OBVIOUS
  <1>. QED  BY <1>1, <1>2, <1>3, PartRead

(* The keys of the sections, and of one more. *)
LEMMA KeysOfMore ==
  ASSUME NEW P, NEW parts \in Seq(P), NEW p \in P
  PROVE  PrintedKeys(parts \o <<p>>) = Joint(PrintedKeys(parts), Contents(p))
  <1> DEFINE u == parts \o <<p>>
             n == Len(parts)
  <1>1. n \in Nat /\ DOMAIN parts = 1..n
    OBVIOUS
  <1>2. DOMAIN u = 1..(n + 1) /\ u[n + 1] = p /\ \A i \in 1..n : u[i] = parts[i]
    BY <1>1
  <1> HIDE DEF u, n
  <1>3. 1..(n + 1) = (1..n) \cup {n + 1}
    BY <1>1
  <1>4. \A x : x \in PrintedKeys(u) <=> x \in PrintedKeys(parts) \/ x \in Contents(p)
    <2>1. \A x : x \in PrintedKeys(u) <=> \E i \in 1..(n + 1) : x \in Contents(u[i])
      BY <1>2 DEF PrintedKeys
    <2>2. \A x : x \in PrintedKeys(parts) <=> \E i \in 1..n : x \in Contents(parts[i])
      BY <1>1 DEF PrintedKeys
    <2>. QED  BY <1>2, <1>3, <2>1, <2>2
  <1>5. PrintedKeys(u) = Joint(PrintedKeys(parts), Contents(p))
    BY <1>4 DEF Joint
  <1>. QED  BY <1>5 DEF u

(* Before the first section, load has read no key. *)
LEMMA StartIsAfter ==
  ASSUME NEW config
  PROVE  LoadStart = After("", config, {})
  <1>1. DOMAIN AppConfig \cup {} = DOMAIN AppConfig
    OBVIOUS
  <1>2. AppConfig = [k \in DOMAIN AppConfig |-> AppConfig[k]]
    BY DEF AppConfig
  <1>3. Taken(config, {}) = AppConfig
    BY <1>1, <1>2 DEF Taken
  <1>. QED  BY <1>3 DEF LoadStart, After, Within

(* What is printed of a sequence of sections is read as the values of their  *)
(* keys.                                                                     *)
LEMMA PartsRead ==
  ASSUME NEW config \in Configurations, NEW P, AreParts(config, P), NEW parts \in Seq(P)
  PROVE  LET text == ScanOf(PartPrinting(config, P), <<>>, parts) IN
         /\ text \in Seq(Lines) /\ PrintedKeys(parts) \subseteq DOMAIN config
         /\ \E name \in SectionNames :
              ScanOf(Loading, LoadStart, text) = After(name, config, PrintedKeys(parts))
  <1> DEFINE X == Seq(Lines)
             G == PartPrinting(config, P)
             none == <<>>
             T(s) == ScanOf(G, none, s)
             K(s) == PrintedKeys(s)
             ended(s) == \E name \in SectionNames :
                           ScanOf(Loading, LoadStart, T(s)) = After(name, config, K(s))
             good(s) == T(s) \in X /\ K(s) \subseteq DOMAIN config /\ ended(s)
             Q == {s \in Seq(P) : good(s)}
  <1>1. \A s \in Seq(P) : IsScan(X, P, G, none, s)
    BY PartsPrintable, PartPrintingIs
  <1>2. "" \in SectionNames /\ LoadStart \in LoadStates
    <2>1. "" \in SectionNames
      BY LowerIs DEF SectionNames, Word, Lower
    <2>. QED  BY <2>1, AppConfigIs DEF LoadStates, LoadStart
  <1>3. none \in Seq(P) /\ none \in X
    BY EmptySeq
  <1>4. good(none)
    <2>1. T(none) = none
      <3> HIDE DEF G, X
      <3>. QED  BY <1>1, <1>3, ScanOfEmpty
    <2>2. K(none) = {}
      BY DEF PrintedKeys
    <2>3. ScanOf(Loading, LoadStart, none) = LoadStart
      <3>1. IsScan(LoadStates, Lines, Loading, LoadStart, none)
        BY <1>2, <1>3, LoadingIs
      <3>. QED  BY <3>1, ScanOfEmpty
    <2> HIDE DEF T, K, none
    <2>4. ScanOf(Loading, LoadStart, T(none)) = After("", config, K(none))
      BY <2>1, <2>2, <2>3, StartIsAfter
    <2>. QED  BY <1>2, <1>3, <2>1, <2>2, <2>4
  <1>5. ASSUME NEW s \in Q, NEW p \in P PROVE s \o <<p>> \in Q
    <2> DEFINE u == s \o <<p>>
               text == PrintPart(config, p)
    <2>1. s \in Seq(P) /\ T(s) \in X /\ K(s) \subseteq DOMAIN config
      OBVIOUS
    <2>2. PICK name \in SectionNames :
            ScanOf(Loading, LoadStart, T(s)) = After(name, config, K(s))
      OBVIOUS
    <2>3. u \in Seq(P)
      BY <2>1
    <2>4. T(u) = T(s) \o text
      <3>1. ScanOf(G, none, s \o <<p>>) = G[<<T(s), p>>]
        <4>1. IsScan(X, P, G, none, s)
          BY <1>1, <2>1
        <4> HIDE DEF X, G, none
        <4>. QED  BY <4>1, ScanOfAppend
      <3>2. G[<<T(s), p>>] = T(s) \o text
        BY <2>1, PartPrintingStep
      <3>. QED  BY <3>1, <3>2
    <2>5. IsPart(config, p)
      BY DEF AreParts
    <2>6. /\ text \in X /\ Contents(p) \subseteq DOMAIN config
          /\ ScanOf(Loading, After(name, config, K(s)), text)
               = After(p[1], config, Joint(K(s), Contents(p)))
      BY <2>1, <2>5, PartRead
    <2>7. K(u) = Joint(K(s), Contents(p))
      <3>1. PrintedKeys(s \o <<p>>) = Joint(PrintedKeys(s), Contents(p))
        <4>1. s \in Seq(P) /\ p \in P
          BY <2>1
        <4> HIDE DEF Q
        <4>. QED  BY <4>1, KeysOfMore
      <3>. QED  BY <3>1
    <2>8. p[1] \in SectionNames
      BY <2>5 DEF IsPart
    <2>9. IsScan(LoadStates, Lines, Loading, LoadStart, T(s))
      BY <1>2, <2>1, LoadingIs
    <2> HIDE DEF text, T, K, u, G, X, none
    <2>10. ScanOf(Loading, LoadStart, T(s) \o text) = ScanOf(Loading, After(name, config, K(s)), text)
      <3>1. text \in Seq(Lines)
        BY <2>6 DEF X
      <3>. QED  BY <2>2, <2>9, <3>1, ScanOfConcat
    <2>11. T(u) \in X
      <3>1. T(s) \in Seq(Lines) /\ text \in Seq(Lines)
        BY <2>1, <2>6 DEF X
      <3>. QED  BY <2>4, <3>1 DEF X
    <2>12. K(u) \subseteq DOMAIN config
      BY <2>1, <2>6, <2>7 DEF Joint
    <2>13. ScanOf(Loading, LoadStart, T(u)) = After(p[1], config, K(u))
      BY <2>4, <2>6, <2>7, <2>10
    <2>14. good(u)
      BY <2>8, <2>11, <2>12, <2>13
    <2> HIDE DEF good
    <2>. QED  BY <2>3, <2>14 DEF u
  <1>6. Q = Seq(P)
    <2>1. <<>> \in Q
      BY <1>3, <1>4 DEF none
    <2> HIDE DEF Q
    <2>2. Q \subseteq Seq(P)
      BY DEF Q
    <2>. QED  BY <1>5, <2>1, <2>2, SeqInduction
  <1>7. good(parts)
    BY <1>6
  <1>. QED  BY <1>7 DEF none

(* A finite set, as a sequence, has the same elements. *)
LEMMA SeqOfSet ==
  ASSUME NEW S, IsFiniteSet(S)
  PROVE  SetToSeq(S) \in Seq(S) /\ \A x \in S : \E i \in DOMAIN SetToSeq(S) : SetToSeq(S)[i] = x
  <1> DEFINE n == Cardinality(S)
             f == SetToSeq(S)
  <1>1. n \in Nat /\ ExistsBijection(1..n, S)
    BY FS_CardinalityType
  <1>2. \E g \in [1..n -> S] : IsInjective(g)
    <2>1. PICK g : g \in Bijection(1..n, S)
      BY <1>1 DEF ExistsBijection
    <2>2. g \in [1..n -> S] /\ IsInjective(g)
      BY <2>1 DEF Bijection, Injection
    <2>. QED  BY <2>2
  <1>3. f = CHOOSE g \in [1..n -> S] : IsInjective(g)
    BY DEF SetToSeq
  <1> HIDE DEF f
  <1>4. f \in [1..n -> S] /\ IsInjective(f)
    BY <1>2, <1>3
  <1> DEFINE I == 1..n
  <1>5. f \in Injection(I, S)
    BY <1>4 DEF Injection
  <1>6. IsFiniteSet(I) /\ Cardinality(I) = n
    BY <1>1, FS_Interval
  <1>7. f \in Surjection(I, S)
    <2> HIDE DEF I
    <2>. QED  BY <1>5, <1>6, FS_Injection
  <1>8. \A x \in S : \E i \in DOMAIN f : f[i] = x
    BY <1>4, <1>7 DEF Surjection
  <1>9. f \in Seq(S)
    BY <1>1, <1>4
  <1>. QED  BY <1>8, <1>9 DEF f

(* The options of Limine that are in force. *)
LEMMA OptionsAre ==
  ASSUME NEW config \in Configurations
  PROVE  LET part == <<"limine", LimineOptions(config)>> IN
         /\ IsPart(config, part)
         /\ Contents(part) = {k \in DOMAIN config : k[1] = "limine"}
  <1> DEFINE S == OptionNames(config)
             names == LimineOptions(config)
             part == <<"limine", names>>
             L == {k \in DOMAIN config : k[1] = "limine"}
  <1>1. \A k \in DOMAIN config : k = <<k[1], k[2]>> /\ k[1] \in Word /\ k[2] \in Word
    <2>1. \A k \in DOMAIN config : IsConfigKey(k)
      BY DEF Configurations, IsConfiguration
    <2>2. \A k \in DOMAIN config : k \in Word \X Word
      BY <2>1 DEF IsConfigKey
    <2> DEFINE W == Word
               D == DOMAIN config
    <2>3. \A k \in D : k \in W \X W
      BY <2>2
    <2> HIDE DEF W, D
    <2>4. \A k \in D : k = <<k[1], k[2]>> /\ k[1] \in W /\ k[2] \in W
      BY <2>3
    <2>. QED  BY <2>4 DEF W, D
  <1>2. names = SetToSeq(S)
    BY DEF LimineOptions, OptionNames
  <1>3. IsFiniteSet(S)
    BY DEF Configurations, IsConfiguration
  <1>4. \A x : x \in S <=> \E k \in L : x = k[2]
    BY DEF OptionNames
  <1>5. \A x \in S : x \in Word /\ <<"limine", x>> \in L
    BY <1>1, <1>4
  <1>6. \A k \in L : k[2] \in S /\ k = <<"limine", k[2]>>
    BY <1>1, <1>4
  <1> HIDE DEF S, names, L
  <1>7. names \in Seq(S) /\ \A x \in S : \E i \in DOMAIN names : names[i] = x
    BY <1>2, <1>3, SeqOfSet
  <1>8. names \in Seq(Word) /\ \A i \in DOMAIN names : names[i] \in S
    <2> DEFINE W == Word
    <2>1. \A x \in S : x \in W
      BY <1>5
    <2> HIDE DEF W
    <2>2. names \in Seq(W) /\ \A i \in DOMAIN names : names[i] \in S
      BY <1>7, <2>1
    <2>. QED  BY <2>2 DEF W
  <1>9. "limine" \in SectionNames /\ "limine" # ""
    BY DEF SectionNames, Word, Lower
  <1>10. part[1] = "limine" /\ part[2] = names
    OBVIOUS
  <1> HIDE DEF part
  <1>11. IsPart(config, part)
    <2>1. \A i \in DOMAIN names : <<"limine", names[i]>> \in DOMAIN config
      BY <1>5, <1>8 DEF L
    <2>. QED  BY <1>8, <1>9, <1>10, <2>1 DEF IsPart
  <1>12. \A k : k \in Contents(part) <=> k \in L
    <2>1. \A k : k \in Contents(part) <=> \E i \in DOMAIN names : k = <<"limine", names[i]>>
      BY <1>10 DEF Contents, KeysOf
    <2>2. ASSUME NEW i \in DOMAIN names PROVE <<"limine", names[i]>> \in L
      BY <1>5, <1>8
    <2>3. ASSUME NEW k \in L PROVE \E i \in DOMAIN names : k = <<"limine", names[i]>>
      <3>1. PICK i \in DOMAIN names : names[i] = k[2]
        BY <1>6, <1>7
      <3>. QED  BY <1>6, <3>1
    <2>. QED  BY <2>1, <2>2, <2>3
  <1>13. Contents(part) = L
    BY <1>12
  <1>. QED  BY <1>11, <1>13 DEF part, L, names

Hidden == <<"system", "mkinitcpio_config">>

(* The sections that are printed, and the keys of each. *)
LEMMA LayoutIs ==
  /\ DOMAIN Layout = 1..9 /\ Len(Layout) = 9
  /\ \A i \in 1..9 : Layout[i][1] \in
       {"manager", "system", "snapper", "backups", "menu", "kernels", "theme", "automation", "secure_boot"}
  /\ \A i \in 1..9 : /\ Layout[i][2] # <<>>
                     /\ \E D : Layout[i][2] \in Seq(D)
  <1> DEFINE names(i) == Layout[i][2]
  <1>1. \A a, b, c, d, e :
          /\ <<a>> \in Seq({a}) /\ <<a, b, c>> \in Seq({a, b, c})
          /\ <<a, b, c, d>> \in Seq({a, b, c, d}) /\ <<a, b, c, d, e>> \in Seq({a, b, c, d, e})
    OBVIOUS
  <1>2. \A i \in 1..9 : \E D : names(i) \in Seq(D)
    <2> USE DEF Layout
    <2>1. (\E D : names(1) \in Seq(D)) /\ (\E D : names(4) \in Seq(D)) /\ (\E D : names(7) \in Seq(D))
      BY <1>1
    <2>2. (\E D : names(2) \in Seq(D)) /\ (\E D : names(3) \in Seq(D)) /\ (\E D : names(8) \in Seq(D))
      BY <1>1
    <2>3. \E D : names(5) \in Seq(D)
      BY <1>1
    <2>4. (\E D : names(6) \in Seq(D)) /\ (\E D : names(9) \in Seq(D))
      BY <1>1
    <2> HIDE DEF names, Layout
    <2>5. 1..9 = {1, 2, 3, 4, 5, 6, 7, 8, 9}
      OBVIOUS
    <2>. QED  BY <2>1, <2>2, <2>3, <2>4, <2>5
  <1>3. \A i \in 1..9 : Layout[i][1] \in
       {"manager", "system", "snapper", "backups", "menu", "kernels", "theme", "automation", "secure_boot"}
    BY DEF Layout
  <1>4. \A i \in 1..9 : Layout[i][2] # <<>>
    BY DEF Layout
  <1>5. DOMAIN Layout = 1..9 /\ Len(Layout) = 9
    BY DEF Layout
  <1>. QED  BY <1>2, <1>3, <1>4, <1>5

(* The keys of each section.                                                 *)
LEMMA LayoutKeys ==
  /\ Contents(Layout[1]) = {<<"manager", "schema_version">>}
  /\ Contents(Layout[2]) = {<<"system", k>> : k \in {"boot_mount", "limine_config",
                              "kernel_cmdline_file", "modules_root", "cpuinfo"}}
  /\ Contents(Layout[3]) = {<<"snapper", k>> : k \in {"config", "snapshots_subvolume",
                              "snapshots_directory", "max_snapshots", "include_read_write"}}
  /\ Contents(Layout[4]) = {<<"backups", "retain">>}
  /\ Contents(Layout[5]) = {<<"menu", k>> : k \in {"root_title", "snapshots_title",
                              "root_expanded", "snapshots_expanded"}}
  /\ Contents(Layout[6]) = {<<"kernels", k>> : k \in {"include", "exclude", "order"}}
  /\ Contents(Layout[7]) = {<<"theme", "name">>}
  /\ Contents(Layout[8]) = {<<"automation", k>> : k \in {"enabled", "snapper", "pacman",
                              "debounce_seconds", "runtime_directory"}}
  /\ Contents(Layout[9]) = {<<"secure_boot", k>> : k \in {"protect_config", "automatic_apply",
                              "efi_executable"}}
  <1>1. Contents(Layout[1]) = {<<"manager", "schema_version">>}
    BY DEF Layout, Contents, KeysOf
  <1>2. Contents(Layout[2]) = {<<"system", k>> : k \in {"boot_mount", "limine_config",
                              "kernel_cmdline_file", "modules_root", "cpuinfo"}}
    BY DEF Layout, Contents, KeysOf
  <1>3. Contents(Layout[3]) = {<<"snapper", k>> : k \in {"config", "snapshots_subvolume",
                              "snapshots_directory", "max_snapshots", "include_read_write"}}
    BY DEF Layout, Contents, KeysOf
  <1>4. Contents(Layout[4]) = {<<"backups", "retain">>}
    BY DEF Layout, Contents, KeysOf
  <1>5. Contents(Layout[5]) = {<<"menu", k>> : k \in {"root_title", "snapshots_title",
                              "root_expanded", "snapshots_expanded"}}
    BY DEF Layout, Contents, KeysOf
  <1>6. Contents(Layout[6]) = {<<"kernels", k>> : k \in {"include", "exclude", "order"}}
    BY DEF Layout, Contents, KeysOf
  <1>7. Contents(Layout[7]) = {<<"theme", "name">>}
    BY DEF Layout, Contents, KeysOf
  <1>8. Contents(Layout[8]) = {<<"automation", k>> : k \in {"enabled", "snapper", "pacman",
                              "debounce_seconds", "runtime_directory"}}
    BY DEF Layout, Contents, KeysOf
  <1>9. Contents(Layout[9]) = {<<"secure_boot", k>> : k \in {"protect_config", "automatic_apply",
                              "efi_executable"}}
    BY DEF Layout, Contents, KeysOf
  <1>. QED  BY <1>1, <1>2, <1>3, <1>4, <1>5, <1>6, <1>7, <1>8, <1>9

(* They are all the keys but one. *)
LEMMA LayoutCovers ==
  \A k : (\E i \in 1..9 : k \in Contents(Layout[i])) <=> k \in Keys /\ k # Hidden
  <1> DEFINE C(i) == Contents(Layout[i])
             System == {<<"system", x>> : x \in {"boot_mount", "limine_config", "kernel_cmdline_file",
                                                 "modules_root", "cpuinfo", "mkinitcpio_config"}}
             AllOf(S) == (((C(1) \cup S) \cup (C(3) \cup C(4)))
                          \cup ((C(5) \cup C(6)) \cup (C(7) \cup C(8)))) \cup C(9)
  <1>1. \A k : (\E i \in 1..9 : k \in C(i)) <=> k \in AllOf(C(2))
    <2> HIDE DEF C
    <2>1. 1..9 = {1, 2, 3, 4, 5, 6, 7, 8, 9}
      OBVIOUS
    <2>. QED  BY <2>1
  <1>2. \A k : k \in C(2) <=> k \in System /\ k # Hidden
    BY LayoutKeys DEF Hidden
  <1>3. \A i \in {1, 3, 4, 5, 6, 7, 8, 9} : Hidden \notin C(i)
    BY LayoutKeys DEF Hidden
  <1>4. \A k : k \in Keys <=> k \in AllOf(System)
    BY LayoutKeys DEF Keys, Texts, Sizes, Flags, Lists
  <1> HIDE DEF C, System
  <1>5. \A k : k \in AllOf(C(2)) <=> k \in Keys /\ k # Hidden
    BY <1>2, <1>3, <1>4
  <1> HIDE DEF AllOf
  <1>. QED  BY <1>1, <1>5 DEF C

(* The sections are a sequence. *)
LEMMA LayoutIsSeq == \E D : Layout \in Seq(D)
  <1>1. \A a, b, c, d, e, f, g, h, i :
          <<a, b, c, d, e, f, g, h, i>> \in Seq({a, b, c, d, e, f, g, h, i})
    OBVIOUS
  <1>. QED  BY <1>1 DEF Layout

(* Each of them can be printed of any configuration. *)
LEMMA LayoutIsPart ==
  ASSUME NEW config \in Configurations, NEW i \in 1..9
  PROVE  IsPart(config, Layout[i])
  <1> DEFINE section == Layout[i][1]
             names == Layout[i][2]
  <1>1. PICK D : names \in Seq(D)
    BY LayoutIs
  <1>2. names # <<>>
    BY LayoutIs
  <1>3. Lower(section) = section /\ section # ""
    <2>1. section \in {"manager", "system", "snapper", "backups", "menu", "kernels", "theme",
                       "automation", "secure_boot"}
      BY LayoutIs
    <2> HIDE DEF section
    <2>. QED  BY <2>1 DEF Lower
  <1>4. \A j \in DOMAIN names : <<section, names[j]>> \in Contents(Layout[i])
    BY DEF Contents, KeysOf
  <1>5. \A j \in DOMAIN names : <<section, names[j]>> \in KnownKeys
    BY <1>4, LayoutCovers DEF KnownKeys
  <1>6. KnownKeys \subseteq DOMAIN config
    BY DEF Configurations, IsConfiguration
  <1>7. \A a, b : <<a, b>> \in KnownKeys => a \in Word /\ b \in Word
    <2>1. \A k \in KnownKeys : k[1] \in Word /\ k[2] \in Word
      BY DEF Word
    <2>2. \A a, b : <<a, b>>[1] = a /\ <<a, b>>[2] = b
      OBVIOUS
    <2>. QED  BY <2>1, <2>2
  <1> HIDE DEF section, names
  <1>8. 1 \in DOMAIN names
    BY <1>1, <1>2
  <1>9. section \in Word
    BY <1>5, <1>7, <1>8
  <1>10. names \in Seq(Word)
    <2> DEFINE W == Word
    <2>1. \A j \in DOMAIN names : names[j] \in W
      BY <1>5, <1>7
    <2> HIDE DEF W
    <2>2. names \in Seq(W)
      BY <1>1, <2>1
    <2>. QED  BY <2>2 DEF W
  <1>11. section \in SectionNames
    BY <1>3, <1>9 DEF SectionNames
  <1>12. \A j \in DOMAIN names : <<section, names[j]>> \in DOMAIN config
    BY <1>5, <1>6
  <1>. QED  BY <1>3, <1>10, <1>11, <1>12 DEF IsPart, section, names

(* All that render prints are sections of the configuration, and they hold   *)
(* all its keys but one.                                                     *)
LEMMA PartsAre ==
  ASSUME NEW config \in Configurations
  PROVE  \E P : /\ AreParts(config, P) /\ Parts(config) \in Seq(P)
                /\ PrintedKeys(Parts(config)) = DOMAIN config \ {Hidden}
  <1> DEFINE last == <<"limine", LimineOptions(config)>>
             parts == Layout \o <<last>>
             P == {Layout[i] : i \in 1..9} \cup {last}
             L == {k \in DOMAIN config : k[1] = "limine"}
  <1>1. PICK D : Layout \in Seq(D)
    BY LayoutIsSeq
  <1>2. DOMAIN Layout = 1..9 /\ Len(Layout) = 9
    BY LayoutIs
  <1>3. IsPart(config, last) /\ Contents(last) = L
    BY OptionsAre
  <1>4. Parts(config) = parts
    BY DEF Parts
  <1>5. \A p \in P : IsPart(config, p)
    BY <1>3, LayoutIsPart
  <1>6. (\A i \in 1..9 : Layout[i] \in P) /\ last \in P
    OBVIOUS
  <1> HIDE DEF P, last
  <1>7. Layout \in Seq(P)
    <2>1. \A i \in DOMAIN Layout : Layout[i] \in P
      BY <1>2, <1>6
    <2>. QED  BY <1>1, <2>1
  <1>8. parts \in Seq(P)
    BY <1>6, <1>7
  <1>9. PrintedKeys(parts) = Joint(PrintedKeys(Layout), L)
    <2> HIDE DEF L
    <2>1. PrintedKeys(parts) = Joint(PrintedKeys(Layout), Contents(last))
      BY <1>6, <1>7, KeysOfMore
    <2>. QED  BY <1>3, <2>1
  <1>10. \A k : k \in PrintedKeys(Layout) <=> k \in Keys /\ k # Hidden
    BY <1>2, LayoutCovers DEF PrintedKeys
  <1>11. \A k \in DOMAIN config : k \in Keys \/ k[1] = "limine"
    BY DEF Configurations, IsConfiguration, IsConfigKey
  <1>12. Keys \subseteq DOMAIN config
    BY DEF Configurations, IsConfiguration, KnownKeys
  <1>13. \A k : k \in L <=> k \in DOMAIN config /\ k[1] = "limine"
    OBVIOUS
  <1>14. Hidden[1] # "limine"
    BY DEF Hidden
  <1> HIDE DEF L, parts
  <1>15. \A k : k \in Joint(PrintedKeys(Layout), L) <=> k \in DOMAIN config /\ k # Hidden
    BY <1>10, <1>11, <1>12, <1>13, <1>14 DEF Joint
  <1>16. PrintedKeys(parts) = DOMAIN config \ {Hidden}
    BY <1>9, <1>15
  <1>. QED  BY <1>4, <1>5, <1>8, <1>16 DEF AreParts

(* What is printed of a configuration is read as that configuration, but for *)
(* the key that is not printed.                                              *)
LEMMA RenderRead ==
  ASSUME NEW config \in Configurations
  PROVE  LET read == Taken(config, DOMAIN config \ {Hidden}) IN
         /\ Render(config) \in Seq(Lines)
         /\ \E name \in SectionNames :
              ScanOf(Loading, LoadStart, Render(config)) = Within(name, read)
  <1>1. PICK P : /\ AreParts(config, P) /\ Parts(config) \in Seq(P)
                 /\ PrintedKeys(Parts(config)) = DOMAIN config \ {Hidden}
    BY PartsAre
  <1>2. Printable(config, P)
    BY <1>1, PartsPrintable
  <1>3. Render(config) = ScanOf(PartPrinting(config, P), <<>>, Parts(config))
    <2> DEFINE parts == Parts(config)
    <2>1. Render(config) = Scan(LAMBDA text, part : text \o PrintPart(config, part), <<>>, parts)
      BY DEF Render
    <2> HIDE DEF parts
    <2>2. parts \in Seq(P)
      BY <1>1 DEF parts
    <2>3. Scan(LAMBDA text, part : text \o PrintPart(config, part), <<>>, parts)
            = ScanOf(PartPrinting(config, P), <<>>, parts)
      BY <1>2, <2>2, PartPrintingScan
    <2>. QED  BY <2>1, <2>3 DEF parts
  <1> DEFINE text == ScanOf(PartPrinting(config, P), <<>>, Parts(config))
             S == DOMAIN config \ {Hidden}
  <1>4. text \in Seq(Lines)
    BY <1>1, PartsRead
  <1>5. \E name \in SectionNames : ScanOf(Loading, LoadStart, text) = After(name, config, S)
    <2> DEFINE printed == PrintedKeys(Parts(config))
    <2>1. \E name \in SectionNames : ScanOf(Loading, LoadStart, text) = After(name, config, printed)
      BY <1>1, PartsRead
    <2>2. printed = S
      BY <1>1
    <2> HIDE DEF printed, text, S
    <2>. QED  BY <2>1, <2>2
  <1> HIDE DEF text, S
  <1>6. \A name : After(name, config, S) = Within(name, Taken(config, S))
    BY DEF After
  <1>7. Render(config) = text
    BY <1>3 DEF text
  <1>. QED  BY <1>4, <1>5, <1>6, <1>7 DEF S

(* All keys but the one that is not printed: it has its default.             *)
LEMMA TakenAll ==
  ASSUME NEW config \in Configurations
  PROVE  Taken(config, DOMAIN config \ {Hidden}) = [config EXCEPT ![Hidden] = Default(Hidden)]
  <1> DEFINE S == DOMAIN config \ {Hidden}
             D == DOMAIN config
  <1>1. Hidden \in Keys
    BY DEF Hidden, Keys, Texts
  <1>2. KnownKeys \subseteq D /\ Hidden \in KnownKeys
    BY <1>1 DEF Configurations, IsConfiguration, KnownKeys
  <1>3. DOMAIN AppConfig = KnownKeys /\ AppConfig[Hidden] = Default(Hidden)
    BY <1>1 DEF AppConfig, KnownKeys
  <1>4. config = [k \in D |-> config[k]]
    BY DEF Configurations
  <1>5. DOMAIN AppConfig \cup S = D
    BY <1>2, <1>3
  <1>6. Taken(config, S) = [k \in D |-> IF k \in S THEN config[k] ELSE AppConfig[k]]
    BY <1>5 DEF Taken
  <1>7. \A k \in D : k \in S <=> k # Hidden
    OBVIOUS
  <1> HIDE DEF S, D
  <1>8. \A k \in D : (IF k \in S THEN config[k] ELSE AppConfig[k])
                       = IF k = Hidden THEN Default(Hidden) ELSE config[k]
    BY <1>3, <1>7
  <1>9. [config EXCEPT ![Hidden] = Default(Hidden)]
          = [k \in D |-> IF k = Hidden THEN Default(Hidden) ELSE config[k]]
    BY <1>4
  <1>. QED  BY <1>6, <1>8, <1>9 DEF S, D

-----------------------------------------------------------------------------
(***************************************************************************)
(* The theorem about the configuration that is shown.                      *)
(***************************************************************************)

(* The key that is not printed plays no part in the checks. *)
LEMMA ConsistentSame ==
  ASSUME NEW config \in Configurations, NEW v
  PROVE  Consistent([config EXCEPT ![Hidden] = v]) <=> Consistent(config)
  <1> DEFINE new == [config EXCEPT ![Hidden] = v]
             Checked == {<<"system", "boot_mount">>, <<"system", "limine_config">>, <<"snapper", "config">>,
                         <<"snapper", "snapshots_subvolume">>, <<"snapper", "snapshots_directory">>,
                         <<"menu", "root_title">>, <<"menu", "snapshots_title">>,
                         <<"automation", "runtime_directory">>}
             Others == {<<"manager", "schema_version">>, <<"theme", "name">>,
                        <<"automation", "debounce_seconds">>, <<"kernels", "include">>,
                        <<"kernels", "exclude">>}
  <1>1. Checked \subseteq Keys /\ Others \subseteq Keys
    BY DEF Keys, Texts, Sizes, Lists
  <1>2. Hidden \notin Checked /\ Hidden \notin Others
    BY DEF Hidden
  <1>3. Keys \subseteq DOMAIN config
    BY DEF Configurations, IsConfiguration, KnownKeys
  <1>4. \A k \in DOMAIN config : k # Hidden => new[k] = config[k]
    OBVIOUS
  <1> HIDE DEF Checked, new
  <1>6. \A k \in Checked : new[k] = config[k]
    BY <1>1, <1>2, <1>3, <1>4
  <1>7. \A k \in Others : new[k] = config[k]
    BY <1>1, <1>2, <1>3, <1>4
  <1>8. /\ new[<<"manager", "schema_version">>] = config[<<"manager", "schema_version">>]
        /\ new[<<"theme", "name">>] = config[<<"theme", "name">>]
        /\ new[<<"automation", "debounce_seconds">>] = config[<<"automation", "debounce_seconds">>]
        /\ new[<<"kernels", "include">>] = config[<<"kernels", "include">>]
        /\ new[<<"kernels", "exclude">>] = config[<<"kernels", "exclude">>]
    BY <1>7
  <1> HIDE DEF Others
  <1> DEFINE titles(c) == \A key \in Checked : c[key] # <<>>
             rest(a, b, d, e, f) == /\ a = 1 /\ Len(b) = 1 /\ Normalize(b[1]) \in Themes
                                    /\ d <= 3600 /\ ToSet(e) \cap ToSet(f) = {}
             checks(c) == rest(c[<<"manager", "schema_version">>], c[<<"theme", "name">>],
                               c[<<"automation", "debounce_seconds">>],
                               c[<<"kernels", "include">>], c[<<"kernels", "exclude">>])
  <1>10. \A c : Consistent(c) <=> titles(c) /\ checks(c)
    <2> SUFFICES ASSUME NEW c PROVE Consistent(c) <=> titles(c) /\ checks(c)
      OBVIOUS
    <2> DEFINE a == c[<<"manager", "schema_version">>]
               b == c[<<"theme", "name">>]
               d == c[<<"automation", "debounce_seconds">>]
               e == c[<<"kernels", "include">>]
               f == c[<<"kernels", "exclude">>]
    <2>1. Consistent(c) <=> /\ a = 1 /\ titles(c) /\ Len(b) = 1 /\ Normalize(b[1]) \in Themes
                            /\ d <= 3600 /\ ToSet(e) \cap ToSet(f) = {}
      BY DEF Consistent, Checked
    <2>2. checks(c) <=> rest(a, b, d, e, f)
      OBVIOUS
    <2> HIDE DEF a, b, d, e, f, titles, checks
    <2>3. rest(a, b, d, e, f) <=> /\ a = 1 /\ Len(b) = 1 /\ Normalize(b[1]) \in Themes
                                  /\ d <= 3600 /\ ToSet(e) \cap ToSet(f) = {}
      BY Zenon
    <2> HIDE DEF rest
    <2>. QED  BY <2>1, <2>2, <2>3
  <1>11. titles(new) <=> titles(config)
    BY <1>6
  <1> HIDE DEF rest
  <1>12. checks(new) <=> checks(config)
    BY <1>8
  <1> HIDE DEF titles, checks
  <1>9. Consistent(new) <=> Consistent(config)
    BY <1>10, <1>11, <1>12
  <1>. QED  BY <1>9 DEF new

(* What is printed of a configuration that loaded loads as the same. *)
LEMMA ShownLoads ==
  ASSUME NEW config \in Configurations, Consistent(config)
  PROVE  LET again == Load(Render(config)) IN
         /\ again.failed = FALSE
         /\ again.config = [config EXCEPT ![Hidden] = Default(Hidden)]
  <1> DEFINE read == Taken(config, DOMAIN config \ {Hidden})
             lines == Render(config)
             again == Load(lines)
             end == ScanOf(Loading, LoadStart, lines)
  <1>1. lines \in Seq(Lines) /\ \E name \in SectionNames : end = Within(name, read)
    BY RenderRead
  <1>2. read = [config EXCEPT ![Hidden] = Default(Hidden)]
    BY TakenAll
  <1>3. Consistent(read)
    <2> DEFINE v == Default(Hidden)
    <2> HIDE DEF read, v
    <2>. QED  BY <1>2, ConsistentSame DEF v
  <1>4. again.config = end.config /\ again.failed = (end.failed \/ ~Consistent(end.config))
    <2> HIDE DEF lines
    <2>. QED  BY <1>1, LoadIs
  <1> HIDE DEF read, lines, end, again
  <1>5. end.config = read /\ end.failed = FALSE
    BY <1>1 DEF Within
  <1>6. again.config = read /\ again.failed = FALSE
    BY <1>3, <1>4, <1>5
  <1>. QED  BY <1>2, <1>6 DEF again, lines

(* The files that are shown are sequences of lines. *)
FilesAreLines == sample.of = "config" => sample.file \in Seq(ConfigLines)

(* The configuration that is printed loads, as the one in force. *)
THEOREM ShownConfigLoadsAlways == TextSpec => []ShownConfigLoads
  <1>1. TextInit => FilesAreLines
    BY DEF TextInit, NoSample, FilesAreLines
  <1>2. FilesAreLines /\ [TextNext]_sample => FilesAreLines'
    <2> SUFFICES ASSUME FilesAreLines, [TextNext]_sample PROVE FilesAreLines'
      OBVIOUS
    <2>1. CASE RenderLine
      BY <2>1 DEF RenderLine, FilesAreLines
    <2>2. CASE ShowConfig
      <3>1. PICK file \in ConfigFiles : sample' = [of |-> "config", file |-> file]
        BY <2>2 DEF ShowConfig
      <3>2. file \in Seq(ConfigLines)
        BY FilesAssumption
      <3>. QED  BY <3>1, <3>2 DEF FilesAreLines
    <2>3. CASE ListSnapper
      BY <2>3 DEF ListSnapper, FilesAreLines
    <2>4. CASE ShowDiff
      BY <2>4 DEF ShowDiff, FilesAreLines
    <2>5. CASE UNCHANGED sample
      BY <2>5 DEF FilesAreLines
    <2>. QED  BY <2>1, <2>2, <2>3, <2>4, <2>5 DEF TextNext
  <1>3. FilesAreLines => ShownConfigLoads
    <2> SUFFICES ASSUME FilesAreLines, sample.of = "config", ~Load(sample.file).failed
                 PROVE  LET inForce == Load(sample.file)
                            again == Load(Render(inForce.config))
                            hidden == <<"system", "mkinitcpio_config">>
                        IN  /\ ~again.failed
                            /\ again.config = [inForce.config EXCEPT ![hidden] = Default(hidden)]
      BY DEF ShownConfigLoads
    <2> DEFINE file == sample.file
               config == Load(file).config
               again == Load(Render(config))
    <2>1. file \in Seq(Lines)
      <3> DEFINE S == ConfigLines
                 T == Lines
      <3>1. S \subseteq T /\ file \in Seq(S)
        BY LinesAre DEF FilesAreLines
      <3> HIDE DEF S, T, file
      <3>2. file \in Seq(T)
        BY <3>1
      <3>. QED  BY <3>2 DEF T
    <2>2. config \in Configurations /\ Consistent(config)
      <3> HIDE DEF file
      <3> DEFINE end == ScanOf(Loading, LoadStart, file)
      <3>1. /\ end \in LoadStates /\ config = end.config
            /\ Load(file).failed = (end.failed \/ ~Consistent(end.config))
        BY <2>1, LoadIs
      <3>2. end.config \in Configurations
        BY <3>1 DEF LoadStates
      <3>3. ~Load(file).failed
        BY DEF file
      <3> HIDE DEF end, config
      <3>. QED  BY <3>1, <3>2, <3>3
    <2> HIDE DEF config
    <2>3. again.failed = FALSE /\ again.config = [config EXCEPT ![Hidden] = Default(Hidden)]
      BY <2>2, ShownLoads
    <2>. QED  BY <2>3 DEF config, Hidden
  <1>. QED  BY <1>1, <1>2, <1>3, PTL DEF TextSpec

==============================================================================
