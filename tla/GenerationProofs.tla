-------------------------- MODULE GenerationProofs ---------------------------
(***************************************************************************)
(* What Generation states of the whole way from the detected machine to an *)
(* installed menu, for all machines: the type invariant, that a generated  *)
(* command line is accepted, that a healthy menu boots, and that what a    *)
(* command said stands. The inductive invariants are Seen, that what a     *)
(* running command knows is true of a machine there was, and of the one    *)
(* there is as long as nothing changed, and Known, that what was said last *)
(* is what that machine and its menu call for.                             *)
(***************************************************************************)
EXTENDS Generation, TextSamplesProofs

-----------------------------------------------------------------------------
(***************************************************************************)
(* The insertion sort, as a scan: the elements, in an order that `before`  *)
(* does not contradict.                                                    *)
(***************************************************************************)

(* The least of some numbers. *)
LEMMA MinIs ==
  ASSUME NEW S \in SUBSET Nat, S # {}
  PROVE  Min(S) \in S /\ \A n \in S : Min(S) <= n
  <1> DEFINE Less == {ss \in Nat \X Nat : ss[1] < ss[2]}
  <1>1. IsWellFoundedOn(Less, Nat)
    BY NatLessThanWellFounded DEF OpToRel
  <1>2. PICK x \in S : \A y \in S : ~(<<y, x>> \in Less)
    <2> HIDE DEF Less
    <2>. QED  BY <1>1, WFMin
  <1>3. \A y \in S : x <= y
    <2> SUFFICES ASSUME NEW y \in S PROVE x <= y
      OBVIOUS
    <2>1. x \in Nat /\ y \in Nat /\ ~(<<y, x>> \in Less)
      BY <1>2
    <2>. QED  BY <2>1
  <1>. QED  BY <1>3 DEF Min

(* The one of a single number. *)
LEMMA OnlyOne ==
  ASSUME NEW n \in Nat
  PROVE  Min({n}) = n /\ Max({n}) = n
  BY DEF Min, Max

(* Where an element is put: between those that it does not precede and one   *)
(* that it does.                                                             *)
InsertedAt(before, sorted, e, place, result) ==
  /\ place \in 1..(Len(sorted) + 1)
  /\ \A i \in 1..Len(sorted) : i < place => <<e, sorted[i]>> \notin before
  /\ place <= Len(sorted) => <<e, sorted[place]>> \in before
  /\ Len(result) = Len(sorted) + 1
  /\ \A i \in 1..(Len(sorted) + 1) :
       result[i] = IF i < place THEN sorted[i] ELSE IF i = place THEN e ELSE sorted[i - 1]

(* What is inserted stands at its place, in a sequence over the same set.    *)
LEMMA InsertIs ==
  ASSUME NEW D, NEW before, NEW sorted \in Seq(D), NEW e \in D
  PROVE  /\ Insert(before, sorted, e) \in Seq(D)
         /\ \E place : InsertedAt(before, sorted, e, place, Insert(before, sorted, e))
  <1> DEFINE n == Len(sorted)
             after == {i \in DOMAIN sorted : <<e, sorted[i]>> \in before}
             place == IF after = {} THEN n + 1 ELSE Min(after)
             l == SubSeq(sorted, 1, place - 1)
             r == SubSeq(sorted, place, n)
             result == Insert(before, sorted, e)
  <1>1. n \in Nat /\ DOMAIN sorted = 1..n /\ \A i \in 1..n : sorted[i] \in D
    OBVIOUS
  <1>2. after \subseteq 1..n /\ \A i \in 1..n : i \in after <=> <<e, sorted[i]>> \in before
    OBVIOUS
  <1>3. result = (l \o <<e>>) \o r
    BY DEF Insert
  <1> HIDE DEF n, after
  <1>4. /\ place \in 1..(n + 1)
        /\ \A i \in 1..n : i < place => i \notin after
        /\ place <= n => place \in after
    <2>1. CASE after = {}
      BY <1>1, <2>1
    <2>2. CASE after # {}
      <3>1. after \in SUBSET Nat
        BY <1>1, <1>2
      <3>2. Min(after) \in after /\ \A i \in after : Min(after) <= i
        BY <2>2, <3>1, MinIs
      <3>3. place = Min(after)
        BY <2>2
      <3> HIDE DEF place
      <3>4. place \in 1..n /\ \A i \in after : place <= i
        BY <1>2, <3>2, <3>3
      <3>5. \A i \in 1..n : i < place => i \notin after
        BY <1>1, <3>4
      <3>. QED  BY <1>1, <3>2, <3>3, <3>4, <3>5
    <2>. QED  BY <2>1, <2>2
  <1> HIDE DEF place
  <1>5. /\ l \in Seq(D) /\ Len(l) = place - 1
        /\ \A i \in 1..(place - 1) : l[i] = sorted[i]
    <2>1. 1 \in Int /\ place - 1 \in Int /\ \A i \in 1..(place - 1) : sorted[i] \in D
      BY <1>1, <1>4
    <2>2. /\ l \in Seq(D) /\ Len(l) = IF 1 <= place - 1 THEN (place - 1) - 1 + 1 ELSE 0
          /\ \A i \in 1..((place - 1) - 1 + 1) : l[i] = sorted[1 + i - 1]
      BY <2>1, SubSeqProperties
    <2> HIDE DEF l
    <2>. QED  BY <1>1, <1>4, <2>2
  <1>6. /\ r \in Seq(D) /\ Len(r) = n - place + 1
        /\ \A i \in 1..(n - place + 1) : r[i] = sorted[place + i - 1]
    <2>1. place \in Int /\ n \in Int /\ \A i \in place..n : sorted[i] \in D
      BY <1>1, <1>4
    <2>2. /\ r \in Seq(D) /\ Len(r) = IF place <= n THEN n - place + 1 ELSE 0
          /\ \A i \in 1..(n - place + 1) : r[i] = sorted[place + i - 1]
      BY <2>1, SubSeqProperties
    <2> HIDE DEF r
    <2>. QED  BY <1>1, <1>4, <2>2
  <1> HIDE DEF l, r, result
  <1>7. /\ l \o <<e>> \in Seq(D) /\ Len(l \o <<e>>) = place
        /\ \A i \in 1..place : (l \o <<e>>)[i] = IF i < place THEN sorted[i] ELSE e
    BY <1>1, <1>4, <1>5
  <1>8. /\ result \in Seq(D) /\ Len(result) = n + 1
        /\ \A i \in 1..(n + 1) :
             result[i] = IF i < place THEN sorted[i] ELSE IF i = place THEN e ELSE sorted[i - 1]
    <2> DEFINE m == l \o <<e>>
    <2>1. m \in Seq(D) /\ Len(m) = place /\ \A i \in 1..place : m[i] = IF i < place THEN sorted[i] ELSE e
      BY <1>7
    <2> HIDE DEF m
    <2>2. /\ m \o r \in Seq(D) /\ Len(m \o r) = Len(m) + Len(r)
          /\ \A i \in 1..(Len(m) + Len(r)) : (m \o r)[i] = IF i <= Len(m) THEN m[i] ELSE r[i - Len(m)]
      BY <1>6, <2>1, ConcatProperties
    <2>3. result = m \o r
      BY <1>3 DEF m
    <2>4. Len(m) + Len(r) = n + 1
      BY <1>1, <1>4, <1>6, <2>1
    <2>5. ASSUME NEW i \in 1..(n + 1)
          PROVE  result[i] = IF i < place THEN sorted[i] ELSE IF i = place THEN e ELSE sorted[i - 1]
      <3>1. CASE i <= place
        <4>1. (m \o r)[i] = m[i]
          BY <2>1, <2>2, <2>4, <3>1
        <4>. QED  BY <1>4, <2>1, <2>3, <3>1, <4>1
      <3>2. CASE i > place
        <4>1. (m \o r)[i] = r[i - place]
          BY <1>1, <1>4, <2>1, <2>2, <2>4, <3>2
        <4>2. i - place \in 1..(n - place + 1) /\ place + (i - place) - 1 = i - 1
          BY <1>1, <1>4, <3>2
        <4>3. r[i - place] = sorted[i - 1]
          BY <1>6, <4>2
        <4>. QED  BY <1>1, <1>4, <2>3, <3>2, <4>1, <4>3
      <3>. QED  BY <1>1, <1>4, <3>1, <3>2
    <2>. QED  BY <2>2, <2>3, <2>4, <2>5
  <1>9. InsertedAt(before, sorted, e, place, result)
    BY <1>1, <1>2, <1>4, <1>8 DEF InsertedAt, n
  <1>. QED  BY <1>8, <1>9 DEF result

(* Of three elements in this order, the first comes before the last. *)
Transitive(before, D) ==
  \A x, y, z \in D : <<x, y>> \in before /\ <<y, z>> \in before => <<x, z>> \in before

(* A sorted list stays so. *)
LEMMA InsertInOrder ==
  ASSUME NEW D, NEW before, NEW sorted \in Seq(D), NEW e \in D,
         Transitive(before, D), InOrder(before, sorted),
         \A i \in 1..Len(sorted) : <<e, sorted[i]>> \in before \/ <<sorted[i], e>> \in before
  PROVE  InOrder(before, Insert(before, sorted, e))
  <1> DEFINE r == Insert(before, sorted, e)
             n == Len(sorted)
  <1>1. PICK p : InsertedAt(before, sorted, e, p, r)
    BY InsertIs
  <1>2. n \in Nat /\ \A i \in 1..n : sorted[i] \in D
    OBVIOUS
  <1> HIDE DEF r, n
  <1>3. /\ p \in 1..(n + 1) /\ Len(r) = n + 1
        /\ \A i \in 1..n : i < p => <<sorted[i], e>> \in before
        /\ p <= n => <<e, sorted[p]>> \in before
        /\ \A i \in 1..(n + 1) :
             r[i] = IF i < p THEN sorted[i] ELSE IF i = p THEN e ELSE sorted[i - 1]
    BY <1>1 DEF InsertedAt, n
  <1>4. \A i, j \in 1..n : i < j => <<sorted[i], sorted[j]>> \in before
    BY DEF InOrder, n
  <1>5. \A i \in 1..n : p <= i => <<e, sorted[i]>> \in before
    <2> SUFFICES ASSUME NEW i \in 1..n, p <= i PROVE <<e, sorted[i]>> \in before
      OBVIOUS
    <2>1. p \in 1..n
      BY <1>2, <1>3
    <2>2. CASE i = p
      BY <1>3, <2>1, <2>2
    <2>3. CASE i # p
      <3>1. <<e, sorted[p]>> \in before /\ <<sorted[p], sorted[i]>> \in before
        BY <1>2, <1>3, <1>4, <2>1, <2>3
      <3>. QED  BY <1>2, <2>1, <3>1 DEF Transitive
    <2>. QED  BY <2>2, <2>3
  <1>6. ASSUME NEW i \in 1..(n + 1), NEW j \in 1..(n + 1), i < j PROVE <<r[i], r[j]>> \in before
    <2>1. CASE j < p
      <3>1. r[i] = sorted[i] /\ r[j] = sorted[j] /\ i \in 1..n /\ j \in 1..n
        BY <1>2, <1>3, <1>6, <2>1
      <3>. QED  BY <1>4, <1>6, <3>1
    <2>2. CASE j = p
      <3>1. r[i] = sorted[i] /\ r[j] = e /\ i \in 1..n
        BY <1>2, <1>3, <1>6, <2>2
      <3>. QED  BY <1>3, <1>6, <2>2, <3>1
    <2>3. CASE j > p /\ i < p
      <3>1. r[i] = sorted[i] /\ r[j] = sorted[j - 1] /\ i \in 1..n /\ j - 1 \in 1..n /\ i < j - 1
        BY <1>2, <1>3, <1>6, <2>3
      <3>. QED  BY <1>4, <3>1
    <2>4. CASE i = p
      <3>1. r[i] = e /\ r[j] = sorted[j - 1] /\ j - 1 \in 1..n /\ p <= j - 1
        BY <1>2, <1>3, <1>6, <2>4
      <3>. QED  BY <1>5, <3>1
    <2>5. CASE i > p
      <3>1. r[i] = sorted[i - 1] /\ r[j] = sorted[j - 1] /\ i - 1 \in 1..n /\ j - 1 \in 1..n /\ i - 1 < j - 1
        BY <1>2, <1>3, <1>6, <2>5
      <3>. QED  BY <1>4, <3>1
    <2>. QED  BY <1>2, <1>3, <2>1, <2>2, <2>3, <2>4, <2>5
  <1>7. \A i, j \in 1..Len(r) : i < j => <<r[i], r[j]>> \in before
    BY <1>3, <1>6
  <1>. QED  BY <1>7 DEF InOrder, r

(* The step of SortBy as a function. *)
Inserting(D, before) == [le \in Seq(D) \X D |-> Insert(before, le[1], le[2])]

(* A step of the insertion sort.                                             *)
LEMMA InsertingStep ==
  ASSUME NEW D, NEW before, NEW s \in Seq(D), NEW e \in D
  PROVE  Inserting(D, before)[<<s, e>>] = Insert(before, s, e)
  BY DEF Inserting

(* The insertion sort is a scan over sequences.                              *)
LEMMA InsertingIs ==
  ASSUME NEW D, NEW before, NEW s \in Seq(D), NEW text \in Seq(D)
  PROVE  IsScan(Seq(D), D, Inserting(D, before), s, text)
  <1> DEFINE X == Seq(D)
  <1>1. \A t \in X, e \in D : Insert(before, t, e) \in X
    BY InsertIs
  <1> HIDE DEF X
  <1>2. Inserting(D, before) \in [X \X D -> X]
    BY <1>1 DEF Inserting, X
  <1>. QED  BY <1>2 DEF IsScan, X

(* SortBy, as the scan of that function.                                     *)
LEMMA InsertingScan ==
  ASSUME NEW D, NEW before, NEW text \in Seq(D)
  PROVE  SortBy(text, before) = ScanOf(Inserting(D, before), <<>>, text)
  <1> DEFINE step(s, e) == Insert(before, s, e)
             T == CHOOSE g : g = [k \in 0..Len(text) |->
                                    IF k = 0 THEN <<>> ELSE step(g[k-1], text[k])]
             G == Inserting(D, before)
             X == Seq(D)
             E == D
             start == <<>>
  <1>1. SortBy(text, before) = T[Len(text)]
    BY DEF SortBy, Scan
  <1>2. Len(text) \in Nat /\ \A k \in 1..Len(text) : text[k] \in E
    BY LenProperties
  <1>4. IsScan(X, E, G, start, text)
    <2>1. <<>> \in Seq(D)
      OBVIOUS
    <2>. QED  BY <2>1, InsertingIs
  <1>5. \A s \in X, z \in E : G[<<s, z>>] = step(s, z)
    <2> SUFFICES ASSUME NEW s \in Seq(D), NEW z \in D PROVE Inserting(D, before)[<<s, z>>] = step(s, z)
      OBVIOUS
    <2>. QED  BY InsertingStep
  <1>3. T = CHOOSE g : g = [k \in 0..Len(text) |-> IF k = 0 THEN start ELSE step(g[k-1], text[k])]
    OBVIOUS
  <1> HIDE DEF T, G, X, E, start, step
  <1>6. PICK f : Follows(f, X, G, start, text)
    BY <1>4, ScanExists
  <1>7. f = [k \in 0..Len(text) |-> IF k = 0 THEN start ELSE step(f[k-1], text[k])]
    <2>1. \A k \in 1..Len(text) : f[k-1] \in X /\ f[k] = step(f[k-1], text[k])
      <3> SUFFICES ASSUME NEW k \in 1..Len(text)
                   PROVE  f[k-1] \in X /\ f[k] = step(f[k-1], text[k])
        OBVIOUS
      <3>1. k - 1 \in 0..Len(text)
        BY <1>2
      <3>2. f[k-1] \in X /\ f[k] = G[<<f[k-1], text[k]>>]
        BY <1>6, <3>1 DEF Follows
      <3>. QED  BY <1>2, <1>5, <3>2
    <2>2. f \in [0..Len(text) -> X] /\ f[0] = start
      BY <1>6 DEF Follows
    <2>3. \A k \in 0..Len(text) : f[k] = IF k = 0 THEN start ELSE step(f[k-1], text[k])
      BY <1>2, <2>1, <2>2
    <2>. QED  BY <2>2, <2>3
  <1>8. T = [k \in 0..Len(text) |-> IF k = 0 THEN start ELSE step(T[k-1], text[k])]
    BY <1>3, <1>7
  <1>9. FollowsIn(T, X, G, start, text)
    <2>1. T[0] = start
      BY <1>2, <1>8
    <2>2. ASSUME NEW k \in 1..Len(text), T[k-1] \in X PROVE T[k] = G[<<T[k-1], text[k]>>]
      <3>1. T[k] = step(T[k-1], text[k])
        BY <1>2, <1>8
      <3>. QED  BY <1>2, <1>5, <2>2, <3>1
    <2>. QED  BY <2>1, <2>2 DEF FollowsIn
  <1>. QED  BY <1>1, <1>4, <1>9, ScanLink DEF G, start

(* SortBy goes element by element. *)
LEMMA SortByNext ==
  ASSUME NEW D, NEW before, NEW t \in Seq(D), NEW d \in D
  PROVE  /\ SortBy(t, before) \in Seq(D)
         /\ SortBy(t \o <<d>>, before) = Insert(before, SortBy(t, before), d)
  <1>1. <<>> \in Seq(D) /\ t \o <<d>> \in Seq(D)
    OBVIOUS
  <1>2. IsScan(Seq(D), D, Inserting(D, before), <<>>, t)
    BY <1>1, InsertingIs
  <1> DEFINE r == ScanOf(Inserting(D, before), <<>>, t)
  <1>3. r \in Seq(D) /\ ScanOf(Inserting(D, before), <<>>, t \o <<d>>) = Inserting(D, before)[<<r, d>>]
    BY <1>2, ScanOfAppend, ScanOfType
  <1>4. SortBy(t, before) = r /\ SortBy(t \o <<d>>, before) = ScanOf(Inserting(D, before), <<>>, t \o <<d>>)
    BY <1>1, InsertingScan
  <1> HIDE DEF r
  <1>5. Inserting(D, before)[<<r, d>>] = Insert(before, r, d)
    BY <1>3, InsertingStep
  <1>. QED  BY <1>3, <1>4, <1>5

(* Nothing is sorted to nothing.                                             *)
LEMMA SortByEmpty ==
  ASSUME NEW before
  PROVE  SortBy(<<>>, before) = <<>>
  <1>1. <<>> \in Seq({})
    OBVIOUS
  <1>2. IsScan(Seq({}), {}, Inserting({}, before), <<>>, <<>>)
    BY <1>1, InsertingIs
  <1>. QED  BY <1>1, <1>2, ScanOfEmpty, InsertingScan

(* What is sorted are elements of the same kind. *)
LEMMA SortByType ==
  ASSUME NEW D, NEW before, NEW text \in Seq(D)
  PROVE  SortBy(text, before) \in Seq(D)
  <1>1. <<>> \in Seq(D)
    OBVIOUS
  <1>2. IsScan(Seq(D), D, Inserting(D, before), <<>>, text)
    BY <1>1, InsertingIs
  <1>. QED  BY <1>2, ScanOfType, InsertingScan

(* Of any two elements of the list, one comes before the other. *)
Comparable(before, t) ==
  \A i, j \in 1..Len(t) : i # j => <<t[i], t[j]>> \in before \/ <<t[j], t[i]>> \in before

(* A list is sorted if its elements can be compared. *)
LEMMA SortByInOrder ==
  ASSUME NEW D, NEW before, NEW text \in Seq(D), Transitive(before, D), Comparable(before, text)
  PROVE  InOrder(before, SortBy(text, before))
  <1> DEFINE within(s, t) == \A i \in 1..Len(s) : \E j \in 1..Len(t) : s[i] = t[j]
             good(t) == /\ within(SortBy(t, before), t)
                        /\ Comparable(before, t) => InOrder(before, SortBy(t, before))
             Q == {t \in Seq(D) : good(t)}
  <1>1. <<>> \in Q
    <2>1. Len(<<>>) = 0 /\ <<>> \in Seq(D)
      OBVIOUS
    <2>. QED  BY <2>1, SortByEmpty DEF InOrder
  <1>2. ASSUME NEW t \in Q, NEW d \in D PROVE t \o <<d>> \in Q
    <2> DEFINE s == SortBy(t, before)
               u == t \o <<d>>
               r == Insert(before, s, d)
    <2>1. t \in Seq(D) /\ good(t)
      OBVIOUS
    <2>2. s \in Seq(D) /\ SortBy(u, before) = r
      BY <2>1, SortByNext
    <2>3. /\ u \in Seq(D) /\ Len(u) = Len(t) + 1 /\ Len(t) \in Nat /\ u[Len(t) + 1] = d
          /\ \A j \in 1..Len(t) : u[j] = t[j]
      BY <2>1
    <2>4. within(s, t) /\ (Comparable(before, t) => InOrder(before, s))
      BY <2>1
    <2> HIDE DEF s, u, good
    <2>5. Len(s) \in Nat
      BY <2>2
    <2>6. within(r, u)
      <3> SUFFICES ASSUME NEW i \in 1..Len(r) PROVE \E j \in 1..Len(u) : r[i] = u[j]
        OBVIOUS
      <3>1. PICK p : InsertedAt(before, s, d, p, r)
        BY <2>2, InsertIs
      <3> HIDE DEF r
      <3>2. Len(r) = Len(s) + 1 /\ p \in 1..(Len(s) + 1)
            /\ r[i] = IF i < p THEN s[i] ELSE IF i = p THEN d ELSE s[i - 1]
        BY <3>1 DEF InsertedAt
      <3>3. CASE i = p
        BY <2>3, <3>2, <3>3
      <3>4. CASE i # p
        <4>1. PICK k \in 1..Len(s) : r[i] = s[k]
          <5>1. CASE i < p
            BY <2>5, <3>2, <5>1
          <5>2. CASE i > p
            <6>1. i - 1 \in 1..Len(s)
              BY <2>5, <3>2, <5>2
            <6>. QED  BY <3>2, <5>2, <6>1
          <5>. QED  BY <3>2, <3>4, <5>1, <5>2
        <4>2. PICK j \in 1..Len(t) : s[k] = t[j]
          BY <2>4
        <4>3. j \in 1..Len(u) /\ u[j] = t[j]
          BY <2>3
        <4> HIDE DEF u
        <4>. QED  BY <4>1, <4>2, <4>3
      <3>. QED  BY <3>3, <3>4
    <2>7. ASSUME Comparable(before, u) PROVE InOrder(before, r)
      <3>1. Comparable(before, t)
        <4>1. \A i \in 1..Len(t) : i \in 1..Len(u)
          BY <2>3
        <4>. QED  BY <2>3, <2>7, <4>1 DEF Comparable
      <3>2. \A j \in 1..Len(t) : <<d, t[j]>> \in before \/ <<t[j], d>> \in before
        <4>1. \A j \in 1..Len(t) : j \in 1..Len(u) /\ Len(t) + 1 \in 1..Len(u) /\ j # Len(t) + 1
          BY <2>3
        <4>. QED  BY <2>3, <2>7, <4>1 DEF Comparable
      <3>3. \A i \in 1..Len(s) : <<d, s[i]>> \in before \/ <<s[i], d>> \in before
        <4> SUFFICES ASSUME NEW i \in 1..Len(s)
                     PROVE  <<d, s[i]>> \in before \/ <<s[i], d>> \in before
          OBVIOUS
        <4>1. PICK j \in 1..Len(t) : s[i] = t[j]
          BY <2>4
        <4>. QED  BY <3>2, <4>1
      <3>. QED  BY <2>2, <2>4, <3>1, <3>3, InsertInOrder
    <2>8. good(u)
      BY <2>2, <2>6, <2>7 DEF good
    <2>. QED  BY <2>3, <2>8 DEF u
  <1>3. Q = Seq(D)
    <2> HIDE DEF Q
    <2>1. Q \subseteq Seq(D)
      BY DEF Q
    <2>. QED  BY <1>1, <1>2, <2>1, SeqInduction
  <1>. QED  BY <1>3

-----------------------------------------------------------------------------
(***************************************************************************)
(* What parse gives, whatever the text.                                    *)
(***************************************************************************)

(* What parse gives is a list of arguments that are not empty, or a failure. *)
LEMMA ParseTextType ==
  ASSUME NEW C, NEW text \in Seq(C)
  PROVE  ParseText(text) = Malformed \/ ParseText(text) \in Seq(Seq(C) \ {<<>>})
  <1> DEFINE A == Seq(C) \ {<<>>}
             read(t) == ParsedFrom(C, ParseStart, t)
             Q == {t \in Seq(C) : read(t).arguments \in Seq(A)}
  <1>1. ParseStart \in ParseStates(C) /\ ParseStart = ParseState(<<>>, <<>>, FALSE, Unquoted)
    BY ParseStartIs
  <1>2. \A t \in Seq(C) : read(t) \in ParseStates(C)
    <2> SUFFICES ASSUME NEW t \in Seq(C) PROVE ParsedFrom(C, ParseStart, t) \in ParseStates(C)
      OBVIOUS
    <2>1. IsScan(ParseStates(C), C, Parsing(C), ParseStart, t)
      BY <1>1, ParsingIs
    <2>. QED  BY <2>1, ScanOfType DEF ParsedFrom
  <1>3. \A c \in A, a \in Seq(A) : Append(a, c) \in Seq(A)
    <2> HIDE DEF A
    <2>. QED  BY AppendProperties
  <1>4. <<>> \in Seq(A) /\ \A c \in Seq(C) : c # <<>> => c \in A
    OBVIOUS
  <1>5. <<>> \in Q
    <2>1. <<>> \in Seq(C)
      OBVIOUS
    <2>2. read(<<>>) = ParseState(<<>>, <<>>, FALSE, Unquoted)
      BY <1>1, ParsedEmpty
    <2> HIDE DEF read, A
    <2>3. read(<<>>).arguments = <<>>
      BY <2>2 DEF ParseState
    <2>. QED  BY <1>4, <2>1, <2>3
  <1>6. ASSUME NEW t \in Q, NEW ch \in C PROVE t \o <<ch>> \in Q
    <2>1. t \in Seq(C) /\ t \o <<ch>> \in Seq(C) /\ read(t).arguments \in Seq(A)
      OBVIOUS
    <2>2. read(t \o <<ch>>) = ParseCharacter(read(t), ch)
      BY <1>1, <2>1, ParsedAppend
    <2>3. PICK a \in Seq(Seq(C)), c \in Seq(C), e \in BOOLEAN, q \in {Unquoted, Single, Double} :
            read(t) = ParseState(a, c, e, q)
      <3>1. read(t) \in ParseStates(C)
        BY <1>2, <2>1
      <3> HIDE DEF read
      <3>. QED  BY <3>1, ParseStatesAre DEF ParseStateOf
    <2> HIDE DEF read, A
    <2>4. a \in Seq(A)
      BY <2>1, <2>3 DEF ParseState
    <2>5. read(t \o <<ch>>) = ParsedCharacter(a, c, e, q, ch)
      BY <2>2, <2>3, ParseStep
    <2>6. ParsedCharacter(a, c, e, q, ch).arguments \in {a} \cup {x \in Seq(A) : c # <<>> /\ x = Append(a, c)}
      <3>1. c # <<>> => Append(a, c) \in Seq(A)
        BY <1>3, <1>4, <2>4
      <3> DEFINE r == ParsedCharacter(a, c, e, q, ch)
      <3>2. \/ \E y, z, w : r = ParseState(a, y, z, w)
            \/ c # <<>> /\ r = ParseState(Append(a, c), <<>>, e, q)
        BY Zenon DEF ParsedCharacter
      <3> HIDE DEF r
      <3>4. r.arguments = a \/ (c # <<>> /\ r.arguments = Append(a, c))
        <4>1. ASSUME NEW y, NEW z, NEW w, r = ParseState(a, y, z, w) PROVE r.arguments = a
          BY <4>1 DEF ParseState
        <4>2. r = ParseState(Append(a, c), <<>>, e, q) => r.arguments = Append(a, c)
          BY DEF ParseState
        <4>. QED  BY <3>2, <4>1, <4>2
      <3>. QED  BY <3>1, <3>4 DEF r
    <2>. QED  BY <2>1, <2>4, <2>5, <2>6
  <1>7. Q = Seq(C)
    <2> HIDE DEF Q
    <2>1. Q \subseteq Seq(C)
      BY DEF Q
    <2>. QED  BY <1>5, <1>6, <2>1, SeqInduction
  <1>8. read(text).arguments \in Seq(A) /\ read(text) \in ParseStates(C)
    BY <1>2, <1>7
  <1>9. Scan(ParseCharacter, ParseStart, text) = read(text)
    BY ParseScan DEF ParsedFrom
  <1> HIDE DEF read, A
  <1>10. PICK a \in Seq(Seq(C)), c \in Seq(C), e \in BOOLEAN, q \in {Unquoted, Single, Double} :
           read(text) = ParseState(a, c, e, q)
    BY <1>8, ParseStatesAre DEF ParseStateOf
  <1> DEFINE end == read(text)
  <1>11. a \in Seq(A) /\ end.arguments = a /\ end.current = c
    BY <1>8, <1>10 DEF ParseState
  <1>12. ParseText(text) \in {Malformed, Flush(end).arguments}
    BY <1>9 DEF ParseText
  <1>13. Flush(end).arguments = IF c = <<>> THEN a ELSE Append(a, c)
    <2>1. CASE c = <<>>
      BY <1>11, <2>1 DEF Flush
    <2>2. CASE c # <<>>
      <3>1. Flush(end) = [end EXCEPT !.arguments = Append(@, end.current), !.current = <<>>]
        BY <1>11, <2>2 DEF Flush
      <3>2. Flush(end).arguments = Append(a, c)
        BY <1>10, <1>11, <3>1 DEF ParseState
      <3>. QED  BY <2>2, <3>2
    <2>. QED  BY <2>1, <2>2
  <1>14. Flush(end).arguments \in Seq(A)
    BY <1>3, <1>4, <1>11, <1>13
  <1>. QED  BY <1>12, <1>14 DEF A

-----------------------------------------------------------------------------
(***************************************************************************)
(* Characters and plain arguments.                                         *)
(***************************************************************************)

(* Every character that a command line or a row of snapper can have. *)
Characters ==
  STRING \cup {"", Space, Single, Double, Backslash, Comma, QuoteMark, Newline, "date", "current",
               "yes", "no", "0", "rd.luks.name", "cryptdevice", "=", ":", "UUID", "root", MapperDir,
               "rootflags", "subvol", "rw", "/", "default"}

(* The words of a command line and of a row of snapper are characters, and   *)
(* those that a generated line is made of need no escape.                    *)
LEMMA CharactersAre ==
  /\ HasSpecials(Characters) /\ HasWords(Characters) /\ STRING \subseteq Characters
  /\ {"rd.luks.name", "cryptdevice", "=", ":", "UUID", "root", MapperDir, "rootflags", "subvol",
      "rw", "/", "default"} \subseteq Plain(Characters)
  /\ \A n \in DOMAIN NumberWords : NumberWords[n] \in Plain(Characters)
  /\ Words \subseteq Plain(Characters)
  <1>1. HasSpecials(Characters) /\ STRING \subseteq Characters
    BY DEF HasSpecials, Characters
  <1>2. \A n \in DOMAIN NumberWords :
          NumberWords[n] \in STRING /\ NumberWords[n] \notin {Space, Single, Double, Backslash}
    BY NumberWordsAre DEF Space, Single, Double, Backslash, QuoteMark
  <1>3. HasWords(Characters)
    BY <1>2 DEF HasWords, Characters
  <1>4. \A n \in DOMAIN NumberWords : NumberWords[n] \in Plain(Characters)
    BY <1>1, <1>2 DEF Plain
  <1>5. {"rd.luks.name", "cryptdevice", "=", ":", "UUID", "root", MapperDir, "rootflags", "subvol",
         "rw", "/", "default"} \subseteq Plain(Characters)
    BY DEF Plain, Characters, MapperDir, Space, Single, Double, Backslash
  <1>6. Words \subseteq Plain(Characters)
    BY <1>1 DEF Words, Plain
  <1>. QED  BY <1>1, <1>3, <1>4, <1>5, <1>6

(* An argument of plain characters is rendered as it is, and can be read     *)
(* back.                                                                     *)
LEMMA PlainArgument ==
  ASSUME NEW C, NEW b \in Seq(Plain(C)), b # <<>>
  PROVE  /\ QuoteArgument(b) = b /\ b \in Seq(C)
         /\ b \in Renderable(C) /\ b \in KernelRenderable(C)
  <1> DEFINE P == Plain(C)
  <1>1. P \subseteq C /\ \A c \in P : c \notin {Space, Single, Double, Backslash}
    BY DEF Plain
  <1> HIDE DEF P
  <1>2. b \in Seq(P)
    BY DEF P
  <1>3. b \in Seq(C)
    BY <1>1, <1>2
  <1>4. ToSet(b) \subseteq P
    BY <1>2 DEF ToSet
  <1>. QED  BY <1>1, <1>3, <1>4 DEF QuoteArgument, Renderable, KernelRenderable

(* One more plain argument is rendered after a space. *)
LEMMA RenderMore ==
  ASSUME NEW C, HasSpecials(C), NEW arguments \in Seq(Seq(C)), NEW b \in Seq(Plain(C)), b # <<>>
  PROVE  LET text == RenderArguments(arguments) IN
         RenderArguments(arguments \o <<b>>) = IF text = <<>> THEN <<>> \o b ELSE (text \o <<Space>>) \o b
  <1>1. QuoteArgument(b) = b /\ b \in Seq(C)
    BY PlainArgument
  <1>2. RenderArguments(arguments \o <<b>>) = RenderArgument(RenderArguments(arguments), b)
    BY <1>1, RenderedNext
  <1>. QED  BY <1>1, <1>2 DEF RenderArgument

(* The value of a key that one argument has. *)
LEMMA OnlyPlace ==
  ASSUME NEW arguments, NEW key, NEW i \in DOMAIN arguments, i \in Nat,
         HasValue(arguments[i], key),
         \A j \in DOMAIN arguments : HasValue(arguments[j], key) => j = i
  PROVE  /\ Value(arguments, key) = ValueOf(arguments[i])
         /\ InForce(arguments, key) = ValueOf(arguments[i])
         /\ Values(arguments, key) = {ValueOf(arguments[i])}
  <1>1. PlacesOf(arguments, key) = {i}
    BY DEF PlacesOf
  <1>2. Min({i}) = i /\ Max({i}) = i
    BY OnlyOne
  <1>. QED  BY <1>1, <1>2 DEF Value, InForce, Values

(* One sequence after another. *)
LEMMA ConcatIs ==
  ASSUME NEW C, NEW h \in Seq(C), NEW v \in Seq(C)
  PROVE  /\ h \o v \in Seq(C) /\ Len(h \o v) = Len(h) + Len(v)
         /\ \A i \in 1..(Len(h) + Len(v)) : (h \o v)[i] = IF i <= Len(h) THEN h[i] ELSE v[i - Len(h)]
  BY ConcatProperties

(* The value of an argument that has a key and a value.                      *)
LEMMA ValueOfIs ==
  ASSUME NEW C, NEW key \in C, "=" \in C, NEW value \in Seq(C)
  PROVE  /\ ValueOf(<<key, "=">> \o value) = value
         /\ HasValue(<<key, "=">> \o value, key)
         /\ (<<key, "=">> \o value) \in Seq(C)
         /\ Len(<<key, "=">> \o value) = 2 + Len(value)
         /\ (<<key, "=">> \o value)[1] = key /\ (<<key, "=">> \o value)[2] = "="
  <1> DEFINE h == <<key, "=">>
             a == h \o value
             n == Len(value)
  <1>1. h \in Seq(C) /\ Len(h) = 2 /\ h[1] = key /\ h[2] = "=" /\ n \in Nat
    OBVIOUS
  <1> HIDE DEF h
  <1>2. a \in Seq(C) /\ Len(a) = 2 + n
        /\ \A i \in 1..(2 + n) : a[i] = IF i <= 2 THEN h[i] ELSE value[i - 2]
    <2>1. /\ a \in Seq(C) /\ Len(a) = Len(h) + Len(value)
          /\ \A i \in 1..(Len(h) + Len(value)) : a[i] = IF i <= Len(h) THEN h[i] ELSE value[i - Len(h)]
      BY <1>1, ConcatIs
    <2> HIDE DEF a
    <2>. QED  BY <1>1, <2>1
  <1> HIDE DEF a
  <1>3. a[1] = key /\ a[2] = "=" /\ Len(a) > 1
    BY <1>1, <1>2
  <1>4. \A i \in 3..(2 + n) : a[i] = value[i - 2] /\ a[i] \in C
    <2> SUFFICES ASSUME NEW i \in 3..(2 + n) PROVE a[i] = value[i - 2] /\ a[i] \in C
      OBVIOUS
    <2>1. i \in 1..(2 + n) /\ ~(i <= 2) /\ i - 2 \in 1..Len(value)
      BY <1>1
    <2>. QED  BY <1>2, <2>1
  <1> DEFINE s == SubSeq(a, 3, 2 + n)
  <1>5. /\ s \in Seq(C) /\ Len(s) = IF 3 <= 2 + n THEN (2 + n) - 3 + 1 ELSE 0
        /\ \A i \in 1..((2 + n) - 3 + 1) : s[i] = a[3 + i - 1]
    <2>1. 3 \in Int /\ 2 + n \in Int
      BY <1>1
    <2>. QED  BY <1>4, <2>1, SubSeqProperties
  <1> HIDE DEF s
  <1>6. s = value
    <2>1. Len(s) = n
      BY <1>1, <1>5
    <2>2. \A i \in 1..n : s[i] = value[i]
      <3> SUFFICES ASSUME NEW i \in 1..n PROVE s[i] = value[i]
        OBVIOUS
      <3>1. i \in 1..((2 + n) - 3 + 1) /\ 3 + i - 1 \in 3..(2 + n) /\ (3 + i - 1) - 2 = i
        BY <1>1
      <3>. QED  BY <1>4, <1>5, <3>1
    <2>. QED  BY <1>5, <2>1, <2>2, SeqEqual
  <1>7. ValueOf(a) = value
    BY <1>2, <1>6 DEF ValueOf, s
  <1>. QED  BY <1>2, <1>3, <1>7 DEF HasValue, a, h

-----------------------------------------------------------------------------
(***************************************************************************)
(* Sequences that are spelled out.                                         *)
(***************************************************************************)

(* Sequences that are spelled out, put together. *)
LEMMA Spelled14 ==
  ASSUME NEW S, NEW a \in S, NEW b \in S, NEW c \in S, NEW d \in S, NEW e \in S
  PROVE  <<a>> \o <<b, c, d, e>> = <<a, b, c, d, e>>
  <1> DEFINE t == <<a>>
             u == <<b, c, d, e>>
             v == <<a, b, c, d, e>>
             r == t \o u
  <1>1. t \in Seq(S) /\ Len(t) = 1 /\ t[1] = a
    OBVIOUS
  <1>2. u \in Seq(S) /\ Len(u) = 4 /\ u[1] = b /\ u[2] = c /\ u[3] = d /\ u[4] = e
    OBVIOUS
  <1>3. v \in Seq(S) /\ Len(v) = 5 /\ v[1] = a /\ v[2] = b /\ v[3] = c /\ v[4] = d /\ v[5] = e
    OBVIOUS
  <1> HIDE DEF t, u, v
  <1>4. /\ r \in Seq(S) /\ Len(r) = Len(t) + Len(u)
        /\ \A n \in 1..(Len(t) + Len(u)) : r[n] = IF n <= Len(t) THEN t[n] ELSE u[n - Len(t)]
    BY <1>1, <1>2, ConcatProperties
  <1> HIDE DEF r
  <1>5. Len(r) = 5 /\ r[1] = a /\ r[2] = b /\ r[3] = c /\ r[4] = d /\ r[5] = e
    BY <1>1, <1>2, <1>4
  <1>6. \A n \in 1..Len(r) : r[n] = v[n]
    BY <1>3, <1>5
  <1>7. r = v
    BY <1>3, <1>4, <1>5, <1>6, SeqEqual
  <1>. QED  BY <1>7 DEF r, t, u, v

(* Two and two.                                                              *)
LEMMA Spelled22 ==
  ASSUME NEW S, NEW a \in S, NEW b \in S, NEW c \in S, NEW d \in S
  PROVE  <<a, b>> \o <<c, d>> = <<a, b, c, d>>
  <1> DEFINE t == <<a, b>>
             u == <<c, d>>
             v == <<a, b, c, d>>
             r == t \o u
  <1>1. t \in Seq(S) /\ Len(t) = 2 /\ t[1] = a /\ t[2] = b
    OBVIOUS
  <1>2. u \in Seq(S) /\ Len(u) = 2 /\ u[1] = c /\ u[2] = d
    OBVIOUS
  <1>3. v \in Seq(S) /\ Len(v) = 4 /\ v[1] = a /\ v[2] = b /\ v[3] = c /\ v[4] = d
    OBVIOUS
  <1> HIDE DEF t, u, v
  <1>4. /\ r \in Seq(S) /\ Len(r) = Len(t) + Len(u)
        /\ \A n \in 1..(Len(t) + Len(u)) : r[n] = IF n <= Len(t) THEN t[n] ELSE u[n - Len(t)]
    BY <1>1, <1>2, ConcatProperties
  <1> HIDE DEF r
  <1>5. Len(r) = 4 /\ r[1] = a /\ r[2] = b /\ r[3] = c /\ r[4] = d
    BY <1>1, <1>2, <1>4
  <1>6. \A n \in 1..Len(r) : r[n] = v[n]
    BY <1>3, <1>5
  <1>7. r = v
    BY <1>3, <1>4, <1>5, <1>6, SeqEqual
  <1>. QED  BY <1>7 DEF r, t, u, v

(* Two and three.                                                            *)
LEMMA Spelled23 ==
  ASSUME NEW S, NEW a \in S, NEW b \in S, NEW c \in S, NEW d \in S, NEW e \in S
  PROVE  <<a, b>> \o <<c, d, e>> = <<a, b, c, d, e>>
  <1> DEFINE t == <<a, b>>
             u == <<c, d, e>>
             v == <<a, b, c, d, e>>
             r == t \o u
  <1>1. t \in Seq(S) /\ Len(t) = 2 /\ t[1] = a /\ t[2] = b
    OBVIOUS
  <1>2. u \in Seq(S) /\ Len(u) = 3 /\ u[1] = c /\ u[2] = d /\ u[3] = e
    OBVIOUS
  <1>3. v \in Seq(S) /\ Len(v) = 5 /\ v[1] = a /\ v[2] = b /\ v[3] = c /\ v[4] = d /\ v[5] = e
    OBVIOUS
  <1> HIDE DEF t, u, v
  <1>4. /\ r \in Seq(S) /\ Len(r) = Len(t) + Len(u)
        /\ \A n \in 1..(Len(t) + Len(u)) : r[n] = IF n <= Len(t) THEN t[n] ELSE u[n - Len(t)]
    BY <1>1, <1>2, ConcatProperties
  <1> HIDE DEF r
  <1>5. Len(r) = 5 /\ r[1] = a /\ r[2] = b /\ r[3] = c /\ r[4] = d /\ r[5] = e
    BY <1>1, <1>2, <1>4
  <1>6. \A n \in 1..Len(r) : r[n] = v[n]
    BY <1>3, <1>5
  <1>7. r = v
    BY <1>3, <1>4, <1>5, <1>6, SeqEqual
  <1>. QED  BY <1>7 DEF r, t, u, v

(* One and one. *)
LEMMA Spelled11 ==
  ASSUME NEW a, NEW b
  PROVE  <<a>> \o <<b>> = <<a, b>>
  <1> DEFINE S == {a, b}
             t == <<a>>
             u == <<b>>
             v == <<a, b>>
             r == t \o u
  <1>1. t \in Seq(S) /\ Len(t) = 1 /\ t[1] = a
    OBVIOUS
  <1>2. u \in Seq(S) /\ Len(u) = 1 /\ u[1] = b
    OBVIOUS
  <1>3. v \in Seq(S) /\ Len(v) = 2 /\ v[1] = a /\ v[2] = b
    OBVIOUS
  <1> HIDE DEF S, t, u, v
  <1>4. /\ r \in Seq(S) /\ Len(r) = Len(t) + Len(u)
        /\ \A n \in 1..(Len(t) + Len(u)) : r[n] = IF n <= Len(t) THEN t[n] ELSE u[n - Len(t)]
    BY <1>1, <1>2, ConcatProperties
  <1> HIDE DEF r
  <1>5. Len(r) = 2 /\ r[1] = a /\ r[2] = b
    BY <1>1, <1>2, <1>4
  <1>6. \A n \in 1..Len(r) : r[n] = v[n]
    BY <1>3, <1>5
  <1>7. r = v
    BY <1>3, <1>4, <1>5, <1>6, SeqEqual
  <1>. QED  BY <1>7 DEF r, t, u, v

(* Two and five.                                                             *)
LEMMA Spelled25 ==
  ASSUME NEW S, NEW a \in S, NEW b \in S, NEW c \in S, NEW d \in S, NEW e \in S, NEW f \in S,
         NEW g \in S
  PROVE  <<a, b>> \o <<c, d, e, f, g>> = <<a, b, c, d, e, f, g>>
  <1> DEFINE t == <<a, b>>
             u == <<c, d, e, f, g>>
             v == <<a, b, c, d, e, f, g>>
             r == t \o u
  <1>1. t \in Seq(S) /\ Len(t) = 2 /\ t[1] = a /\ t[2] = b
    OBVIOUS
  <1>2. u \in Seq(S) /\ Len(u) = 5 /\ u[1] = c /\ u[2] = d /\ u[3] = e /\ u[4] = f /\ u[5] = g
    OBVIOUS
  <1>3. v \in Seq(S) /\ Len(v) = 7 /\ v[1] = a /\ v[2] = b /\ v[3] = c /\ v[4] = d /\ v[5] = e
        /\ v[6] = f /\ v[7] = g
    OBVIOUS
  <1> HIDE DEF t, u, v
  <1>4. /\ r \in Seq(S) /\ Len(r) = Len(t) + Len(u)
        /\ \A n \in 1..(Len(t) + Len(u)) : r[n] = IF n <= Len(t) THEN t[n] ELSE u[n - Len(t)]
    BY <1>1, <1>2, ConcatProperties
  <1> HIDE DEF r
  <1>5. Len(r) = 7 /\ r[1] = a /\ r[2] = b /\ r[3] = c /\ r[4] = d /\ r[5] = e /\ r[6] = f
        /\ r[7] = g
    BY <1>1, <1>2, <1>4
  <1>6. \A n \in 1..Len(r) : r[n] = v[n]
    BY <1>3, <1>5
  <1>7. r = v
    BY <1>3, <1>4, <1>5, <1>6, SeqEqual
  <1>. QED  BY <1>7 DEF r, t, u, v

Puts55(a, b, c, d, e, f, g, h, i, j) ==
  <<a, b, c, d, e>> \o <<f, g, h, i, j>> = <<a, b, c, d, e, f, g, h, i, j>>

(* Five and five.                                                            *)
LEMMA Spelled55 ==
  ASSUME NEW S, NEW a \in S, NEW b \in S, NEW c \in S, NEW d \in S, NEW e \in S, NEW f \in S,
         NEW g \in S, NEW h \in S, NEW i \in S, NEW j \in S
  PROVE  Puts55(a, b, c, d, e, f, g, h, i, j)
  <1> DEFINE t == <<a, b, c, d, e>>
             u == <<f, g, h, i, j>>
             v == <<a, b, c, d, e, f, g, h, i, j>>
             r == t \o u
  <1>1. t \in Seq(S) /\ Len(t) = 5 /\ t[1] = a /\ t[2] = b /\ t[3] = c /\ t[4] = d /\ t[5] = e
    OBVIOUS
  <1>2. u \in Seq(S) /\ Len(u) = 5 /\ u[1] = f /\ u[2] = g /\ u[3] = h /\ u[4] = i /\ u[5] = j
    OBVIOUS
  <1>3. v \in Seq(S) /\ Len(v) = 10 /\ v[1] = a /\ v[2] = b /\ v[3] = c /\ v[4] = d /\ v[5] = e
        /\ v[6] = f /\ v[7] = g /\ v[8] = h /\ v[9] = i /\ v[10] = j
    OBVIOUS
  <1> HIDE DEF t, u, v
  <1>4. /\ r \in Seq(S) /\ Len(r) = Len(t) + Len(u)
        /\ \A n \in 1..(Len(t) + Len(u)) : r[n] = IF n <= Len(t) THEN t[n] ELSE u[n - Len(t)]
    BY <1>1, <1>2, ConcatProperties
  <1> HIDE DEF r
  <1>5. Len(r) = 10 /\ r[1] = a /\ r[2] = b /\ r[3] = c /\ r[4] = d /\ r[5] = e /\ r[6] = f
        /\ r[7] = g /\ r[8] = h /\ r[9] = i /\ r[10] = j
    BY <1>1, <1>2, <1>4
  <1>6. \A n \in 1..Len(r) : r[n] = v[n]
    BY <1>3, <1>5
  <1>7. r = v
    BY <1>3, <1>4, <1>5, <1>6, SeqEqual
  <1>. QED  BY <1>7 DEF r, t, u, v, Puts55

Puts75(a, b, c, d, e, f, g, h, i, j, k, l) ==
  <<a, b, c, d, e, f, g>> \o <<h, i, j, k, l>> = <<a, b, c, d, e, f, g, h, i, j, k, l>>

(* Seven and five.                                                           *)
LEMMA Spelled75 ==
  ASSUME NEW S, NEW a \in S, NEW b \in S, NEW c \in S, NEW d \in S, NEW e \in S, NEW f \in S,
         NEW g \in S, NEW h \in S, NEW i \in S, NEW j \in S, NEW k \in S, NEW l \in S
  PROVE  Puts75(a, b, c, d, e, f, g, h, i, j, k, l)
  <1> DEFINE t == <<a, b, c, d, e, f, g>>
             u == <<h, i, j, k, l>>
             v == <<a, b, c, d, e, f, g, h, i, j, k, l>>
             r == t \o u
  <1>1. t \in Seq(S) /\ Len(t) = 7 /\ t[1] = a /\ t[2] = b /\ t[3] = c /\ t[4] = d /\ t[5] = e
        /\ t[6] = f /\ t[7] = g
    OBVIOUS
  <1>2. u \in Seq(S) /\ Len(u) = 5 /\ u[1] = h /\ u[2] = i /\ u[3] = j /\ u[4] = k /\ u[5] = l
    OBVIOUS
  <1>3. v \in Seq(S) /\ Len(v) = 12 /\ v[1] = a /\ v[2] = b /\ v[3] = c /\ v[4] = d /\ v[5] = e
        /\ v[6] = f /\ v[7] = g /\ v[8] = h /\ v[9] = i /\ v[10] = j /\ v[11] = k /\ v[12] = l
    OBVIOUS
  <1> HIDE DEF t, u, v
  <1>4. /\ r \in Seq(S) /\ Len(r) = Len(t) + Len(u)
        /\ \A n \in 1..(Len(t) + Len(u)) : r[n] = IF n <= Len(t) THEN t[n] ELSE u[n - Len(t)]
    BY <1>1, <1>2, ConcatProperties
  <1> HIDE DEF r
  <1>5. Len(r) = 12 /\ r[1] = a /\ r[2] = b /\ r[3] = c /\ r[4] = d /\ r[5] = e /\ r[6] = f
        /\ r[7] = g /\ r[8] = h /\ r[9] = i /\ r[10] = j /\ r[11] = k /\ r[12] = l
    BY <1>1, <1>2, <1>4
  <1>6. \A n \in 1..Len(r) : r[n] = v[n]
    BY <1>3, <1>5
  <1>7. r = v
    BY <1>3, <1>4, <1>5, <1>6, SeqEqual
  <1>. QED  BY <1>7 DEF r, t, u, v, Puts75

-----------------------------------------------------------------------------
(***************************************************************************)
(* The arguments of a generated line.                                      *)
(***************************************************************************)

(* An argument that gives a key a value. *)
Argument(key, value) == <<key, "=">> \o value

ByName(root) == Argument("rd.luks.name", <<root.luksUuid, "=", root.source[2]>>)
ByCryptdevice(root) ==
  Argument("cryptdevice", <<"UUID", "=", root.luksUuid, ":", root.source[2]>>)
RootByMapper(root) == Argument("root", <<MapperDir, root.source[2]>>)
RootByUuid(root) == Argument("root", <<"UUID", "=", root.uuid>>)
SubvolumeOf(root) == Argument("rootflags", <<"subvol", "=">> \o root.subvolume)

(* The arguments of a generated line. *)
DeviceArguments(m) ==
  CASE Encrypted(m.root) /\ m.sdEncrypt  -> <<ByName(m.root), RootByMapper(m.root)>>
    [] Encrypted(m.root) /\ ~m.sdEncrypt -> <<ByCryptdevice(m.root), RootByMapper(m.root)>>
    [] OTHER                             -> <<RootByUuid(m.root)>>

GeneratedArguments(m) == (DeviceArguments(m) \o <<SubvolumeOf(m.root)>>) \o <<<<"rw">>>>

(* A machine of which a line can be generated, for a subvolume with a plain  *)
(* name.                                                                     *)
IsGenerated(m) ==
  /\ IsMachine(m) /\ CanGenerate(m.root)
  /\ m.root.subvolume # <<>>
  /\ ToSet(m.root.subvolume) \cap {Space, Single, Double, Backslash} = {}

(* The type of the root of a machine. *)
LEMMA RootIs ==
  ASSUME NEW m, IsMachine(m)
  PROVE  /\ m.root.source = <<m.root.source[1], m.root.source[2]>>
         /\ m.root.source[2] \in Words /\ m.root.luksUuid \in Words /\ m.root.uuid \in Words
         /\ m.root.luksUuid # NoText => m.root.luksUuid \in Uuids
         /\ m.root.subvolume \in Seq(STRING)
         /\ RootInfo(m.root).source = m.root.source
         /\ RootInfo(m.root).uuid = m.root.uuid
         /\ RootInfo(m.root).subvolume = m.root.subvolume
         /\ RootInfo(m.root).luksUuid \in {m.root.luksUuid, NoText}
  <1> DEFINE r == m.root
  <1>1. r \in [source : STRING \X (Words \ {NoText}), fstype : STRING, subvolume : Seq(STRING),
               blockType : STRING, uuid : Words, luksUuid : Words, partUuid : Words,
               backing : Seq(STRING), backingFound : BOOLEAN]
    BY DEF IsMachine
  <1> HIDE DEF r
  <1>2. /\ RootInfo(r).source = r.source /\ RootInfo(r).uuid = r.uuid
        /\ RootInfo(r).subvolume = r.subvolume
        /\ RootInfo(r).luksUuid \in {r.luksUuid, NoText}
    <2>1. CASE Encrypted(r) /\ r.backingFound
      BY <2>1 DEF RootInfo
    <2>2. CASE ~(Encrypted(r) /\ r.backingFound)
      <3>1. RootInfo(r) = [r EXCEPT !.luksUuid = NoText, !.partUuid = NoText, !.backing = NoPath]
        BY <2>2 DEF RootInfo
      <3>. QED  BY <1>1, <3>1
    <2>. QED  BY <2>1, <2>2
  <1>3. r.luksUuid # NoText => r.luksUuid \in Uuids
    BY DEF IsMachine, r
  <1>. QED  BY <1>1, <1>2, <1>3 DEF r

(* A generated line names the root as it is. *)
LEMMA GeneratedRoot ==
  ASSUME NEW m, IsGenerated(m)
  PROVE  /\ Encrypted(m.root) => RootInfo(m.root).luksUuid = m.root.luksUuid
         /\ ~Encrypted(m.root) => m.root.uuid # NoText
  <1>1. Encrypted(m.root) => RootInfo(m.root).luksUuid # NoText
    BY DEF IsGenerated, CanGenerate
  <1>2. ~Encrypted(m.root) => m.root.uuid # NoText
    BY DEF IsGenerated, CanGenerate
  <1>3. RootInfo(m.root).luksUuid \in {m.root.luksUuid, NoText}
    BY RootIs DEF IsGenerated
  <1>. QED  BY <1>1, <1>2, <1>3

(* The arguments are plain. *)
LEMMA GeneratedPlain ==
  ASSUME NEW m, IsGenerated(m)
  PROVE  LET P == Seq(Plain(Characters)) IN
         /\ ByName(m.root) \in P /\ ByCryptdevice(m.root) \in P /\ RootByMapper(m.root) \in P
         /\ RootByUuid(m.root) \in P /\ SubvolumeOf(m.root) \in P /\ <<"rw">> \in P
         /\ m.root.subvolume \in P /\ (<<"subvol", "=">> \o m.root.subvolume) \in P
  <1> DEFINE S == Plain(Characters)
             sub == m.root.subvolume
  <1>1. {"rd.luks.name", "cryptdevice", "=", ":", "UUID", "root", MapperDir, "rootflags", "subvol",
         "rw"} \subseteq S /\ Words \subseteq S
    BY CharactersAre
  <1>2. m.root.source[2] \in S /\ m.root.luksUuid \in S /\ m.root.uuid \in S
    BY <1>1, RootIs DEF IsGenerated
  <1>3. sub \in Seq(S)
    <2>1. sub \in Seq(STRING) /\ ToSet(sub) \cap {Space, Single, Double, Backslash} = {}
      BY RootIs DEF IsGenerated
    <2>2. \A i \in 1..Len(sub) : sub[i] \in STRING /\ sub[i] \notin {Space, Single, Double, Backslash}
      <3> HIDE DEF sub
      <3>1. \A i \in 1..Len(sub) : sub[i] \in ToSet(sub)
        BY <2>1 DEF ToSet
      <3>. QED  BY <2>1, <3>1
    <2>3. STRING \subseteq Characters
      BY CharactersAre
    <2>4. \A i \in 1..Len(sub) : sub[i] \in S
      <3> HIDE DEF sub
      <3>. QED  BY <2>2, <2>3 DEF Plain
    <2> HIDE DEF S, sub
    <2>. QED  BY <2>1, <2>4
  <1> HIDE DEF S, sub
  <1>4. /\ <<m.root.luksUuid, "=", m.root.source[2]>> \in Seq(S)
        /\ <<"UUID", "=", m.root.luksUuid, ":", m.root.source[2]>> \in Seq(S)
        /\ <<MapperDir, m.root.source[2]>> \in Seq(S)
        /\ <<"UUID", "=", m.root.uuid>> \in Seq(S)
        /\ <<"rw">> \in Seq(S) /\ <<"subvol", "=">> \in Seq(S)
    BY <1>1, <1>2
  <1>5. <<"subvol", "=">> \o sub \in Seq(S)
    BY <1>3, <1>4
  <1>6. \A key \in {"rd.luks.name", "cryptdevice", "root", "rootflags"}, v \in Seq(S) : Argument(key, v) \in Seq(S)
    <2> SUFFICES ASSUME NEW key \in {"rd.luks.name", "cryptdevice", "root", "rootflags"}, NEW v \in Seq(S)
                 PROVE  <<key, "=">> \o v \in Seq(S)
      BY DEF Argument
    <2>1. <<key, "=">> \in Seq(S)
      BY <1>1
    <2>. QED  BY <2>1
  <1>. QED  BY <1>3, <1>4, <1>5, <1>6
            DEF ByName, ByCryptdevice, RootByMapper, RootByUuid, SubvolumeOf, S, sub

(* Rendering two, or three, arguments and the subvolume. *)
LEMMA RenderedEnd ==
  ASSUME NEW m, IsGenerated(m), NEW arguments \in Seq(Seq(Characters)), NEW text \in Seq(Characters),
         text = RenderArguments(arguments), text # <<>>
  PROVE  RenderArguments((arguments \o <<SubvolumeOf(m.root)>>) \o <<<<"rw">>>>)
           = (text \o (<<Space, "rootflags", "=", "subvol", "=">> \o m.root.subvolume)) \o <<Space, "rw">>
  <1> DEFINE C == Characters
             a == SubvolumeOf(m.root)
             sub == m.root.subvolume
             one == arguments \o <<a>>
             line == text \o (<<Space, "rootflags", "=", "subvol", "=">> \o sub)
  <1>1. HasSpecials(C) /\ {"=", "subvol", "rootflags", "rw"} \subseteq C /\ Space \in C
    <2>1. {"=", "subvol", "rootflags", "rw"} \subseteq Plain(C)
      BY CharactersAre
    <2>. QED  BY <2>1, CharactersAre DEF Plain, HasSpecials
  <1>2. a \in Seq(Plain(C)) /\ sub \in Seq(Plain(C)) /\ <<"rw">> \in Seq(Plain(C))
    BY GeneratedPlain
  <1> HIDE DEF C
  <1>3. sub \in Seq(C) /\ <<"rw">> \in Seq(C)
    <2> DEFINE P == Plain(C)
    <2>1. P \subseteq C
      BY DEF Plain
    <2> HIDE DEF P, sub
    <2>. QED  BY <1>1, <1>2, <2>1 DEF P
  <1>4. a = <<"rootflags", "=", "subvol", "=">> \o sub /\ a # <<>>
    <2>0. <<"rootflags", "=">> \in Seq(C) /\ <<"subvol", "=">> \in Seq(C)
          /\ <<"rootflags", "=", "subvol", "=">> \in Seq(C)
      BY <1>1
    <2>1. GroupsLeft(C, <<"rootflags", "=">>, <<"subvol", "=">>, sub)
      BY <1>3, <2>0, Grouped
    <2>2. <<"rootflags", "=">> \o <<"subvol", "=">> = <<"rootflags", "=", "subvol", "=">>
      BY <1>1, Spelled22
    <2> HIDE DEF sub
    <2>3. a = <<"rootflags", "=">> \o (<<"subvol", "=">> \o sub)
      BY DEF SubvolumeOf, Argument, sub
    <2>4. a = <<"rootflags", "=", "subvol", "=">> \o sub
      BY <2>1, <2>2, <2>3 DEF GroupsLeft
    <2>5. a # <<>>
      <3> DEFINE r == <<"rootflags", "=", "subvol", "=">>
      <3>1. r \in Seq(C) /\ Len(r) = 4
        BY <2>0
      <3> HIDE DEF r
      <3>2. Len(r \o sub) = Len(r) + Len(sub) /\ Len(sub) \in Nat
        <4> HIDE DEF C
        <4>1. r \in Seq(C) /\ sub \in Seq(C)
          BY <1>3, <3>1
        <4>2. Len(r \o sub) = Len(r) + Len(sub)
          BY <4>1, ConcatIs
        <4>. QED  BY <4>1, <4>2
      <3>. QED  BY <1>3, <2>4, <3>1, <3>2 DEF r
    <2>. QED  BY <2>4, <2>5
  <1>5. a \in Seq(C)
    BY <1>2, <1>4, PlainArgument
  <1> HIDE DEF a
  <1>6. RenderArguments(one) = (text \o <<Space>>) \o a
    BY <1>1, <1>2, <1>4, <1>5, RenderMore DEF C
  <1>7. (text \o <<Space>>) \o a = line
    <2> DEFINE r == <<"rootflags", "=", "subvol", "=">>
    <2>1. r \in Seq(C) /\ <<Space>> \in Seq(C) /\ text \in Seq(C)
      BY <1>1 DEF C
    <2>2. <<Space>> \o r = <<Space, "rootflags", "=", "subvol", "=">>
      BY <1>1, Spelled14
    <2> HIDE DEF r, sub
    <2>3. GroupsLeft(C, text, <<Space>>, a) /\ GroupsLeft(C, <<Space>>, r, sub)
      BY <1>3, <1>5, <2>1, Grouped
    <2>4. a = r \o sub
      BY <1>4 DEF r
    <2>. QED  BY <2>2, <2>3, <2>4 DEF GroupsLeft
  <1>8. line \in Seq(C) /\ line # <<>>
    <2>1. text \in Seq(C) /\ <<Space>> \in Seq(C)
      BY <1>1 DEF C
    <2>2. text \o <<Space>> \in Seq(C) /\ Len(text \o <<Space>>) > 0
      BY <2>1
    <2> DEFINE t == text \o <<Space>>
    <2>3. t \o a \in Seq(C) /\ t \o a # <<>>
      <3> HIDE DEF t
      <3>1. Len(t \o a) = Len(t) + Len(a) /\ Len(a) \in Nat
        BY <1>5, <2>2, ConcatProperties DEF t
      <3>. QED  BY <1>5, <2>2, <3>1 DEF t
    <2>. QED  BY <1>7, <2>3
  <1>9. one \in Seq(Seq(C))
    BY <1>5 DEF C
  <1> HIDE DEF line, one
  <1>10. RenderArguments(one \o <<<<"rw">>>>) = (line \o <<Space>>) \o <<"rw">>
    BY <1>1, <1>2, <1>6, <1>7, <1>8, <1>9, RenderMore
  <1>11. (line \o <<Space>>) \o <<"rw">> = line \o <<Space, "rw">>
    <2>1. <<Space>> \in Seq(C) /\ <<Space>> \o <<"rw">> = <<Space, "rw">>
      <3>1. Short(C, Space, "rw", "rw", "rw")
        BY <1>1, ShortSequences
      <3>. QED  BY <1>1, <3>1 DEF Short
    <2>2. GroupsLeft(C, line, <<Space>>, <<"rw">>)
      BY <1>3, <1>8, <2>1, Grouped
    <2>. QED  BY <2>1, <2>2 DEF GroupsLeft
  <1>. QED  BY <1>10, <1>11 DEF one, line, a, sub

-----------------------------------------------------------------------------
(***************************************************************************)
(* The text of a generated line, and what it is read as.                   *)
(***************************************************************************)

(* One plain argument, and two, rendered. *)
LEMMA RenderOne ==
  ASSUME NEW C, HasSpecials(C), NEW a \in Seq(Plain(C)), a # <<>>
  PROVE  RenderArguments(<<a>>) = a /\ a \in Seq(C) /\ <<a>> \in Seq(Seq(C))
  <1>1. a \in Seq(C) /\ <<>> \in Seq(C) /\ <<>> \in Seq(Seq(C))
    BY PlainArgument
  <1>2. RenderArguments(<<>>) = <<>>
    BY RenderedEmpty
  <1>3. RenderArguments(<<>> \o <<a>>) = <<>> \o a
    BY <1>1, <1>2, RenderMore
  <1>4. <<>> \o a = a
    BY <1>1
  <1> DEFINE A == Seq(C)
  <1>5. a \in A
    BY <1>1
  <1> HIDE DEF A
  <1>6. <<>> \o <<a>> = <<a>> /\ <<a>> \in Seq(A)
    BY <1>5
  <1>. QED  BY <1>1, <1>3, <1>4, <1>6 DEF A

(* Two plain arguments are rendered with a space between them.               *)
LEMMA RenderTwo ==
  ASSUME NEW C, HasSpecials(C), NEW a \in Seq(Plain(C)), a # <<>>, NEW b \in Seq(Plain(C)), b # <<>>
  PROVE  /\ RenderArguments(<<a, b>>) = a \o (<<Space>> \o b)
         /\ <<a, b>> \in Seq(Seq(C)) /\ a \o (<<Space>> \o b) \in Seq(C)
  <1>1. a \in Seq(C) /\ b \in Seq(C) /\ RenderArguments(<<a>>) = a /\ <<a>> \in Seq(Seq(C))
    BY RenderOne
  <1>2. RenderArguments(<<a>> \o <<b>>) = (a \o <<Space>>) \o b
    BY <1>1, RenderMore
  <1>3. <<Space>> \in Seq(C)
    BY DEF HasSpecials
  <1>4. GroupsLeft(C, a, <<Space>>, b)
    BY <1>1, <1>3, Grouped
  <1> DEFINE A == Seq(C)
  <1>5. a \in A /\ b \in A
    BY <1>1
  <1>6. a \o (<<Space>> \o b) = (a \o <<Space>>) \o b /\ a \o (<<Space>> \o b) \in Seq(C)
    <2>1. a \o (<<Space>> \o b) = (a \o <<Space>>) \o b /\ <<Space>> \o b \in Seq(C)
      BY <1>4 DEF GroupsLeft
    <2>. QED  BY <1>1, <2>1
  <1> HIDE DEF A
  <1>7. <<a>> \o <<b>> = <<a, b>> /\ <<a, b>> \in Seq(A)
    <2>1. Short(A, a, b, b, b)
      BY <1>5, ShortSequences
    <2>. QED  BY <2>1 DEF Short
  <1>. QED  BY <1>2, <1>6, <1>7 DEF A

(* A key, an equals sign and the characters of a value, spelled out. *)
LEMMA ArgumentSpelled ==
  ASSUME NEW m, IsGenerated(m)
  PROVE  LET r == m.root
             mapper == r.source[2]
             C == Characters
         IN  /\ ByName(r) = <<"rd.luks.name", "=", r.luksUuid, "=", mapper>>
             /\ ByCryptdevice(r) = <<"cryptdevice", "=", "UUID", "=", r.luksUuid, ":", mapper>>
             /\ RootByMapper(r) = <<"root", "=", MapperDir, mapper>>
             /\ RootByUuid(r) = <<"root", "=", "UUID", "=", r.uuid>>
             /\ {"rd.luks.name", "cryptdevice", "=", ":", "UUID", "root", MapperDir, Space} \subseteq C
             /\ r.luksUuid \in C /\ r.uuid \in C /\ mapper \in C
             /\ ByName(r) # <<>> /\ ByCryptdevice(r) # <<>> /\ RootByMapper(r) # <<>>
             /\ RootByUuid(r) # <<>>
  <1> DEFINE C == Characters
             l == m.root.luksUuid
             u == m.root.uuid
             n == m.root.source[2]
  <1>1. {"rd.luks.name", "cryptdevice", "=", ":", "UUID", "root", MapperDir, Space} \subseteq C
    <2>1. {"rd.luks.name", "cryptdevice", "=", ":", "UUID", "root", MapperDir} \subseteq Plain(C)
      BY CharactersAre
    <2>. QED  BY <2>1, CharactersAre DEF Plain, HasSpecials
  <1>2. l \in C /\ u \in C /\ n \in C
    <2>1. l \in Words /\ u \in Words /\ n \in Words
      BY RootIs DEF IsGenerated
    <2>. QED  BY <2>1, CharactersAre DEF Plain
  <1> HIDE DEF C, l, u, n
  <1>3. Argument("rd.luks.name", <<l, "=", n>>) = <<"rd.luks.name", "=", l, "=", n>>
    BY <1>1, <1>2, Spelled23 DEF Argument
  <1>4. Argument("cryptdevice", <<"UUID", "=", l, ":", n>>) = <<"cryptdevice", "=", "UUID", "=", l, ":", n>>
    BY <1>1, <1>2, Spelled25 DEF Argument
  <1>5. Argument("root", <<MapperDir, n>>) = <<"root", "=", MapperDir, n>>
    BY <1>1, <1>2, Spelled22 DEF Argument
  <1>6. Argument("root", <<"UUID", "=", u>>) = <<"root", "=", "UUID", "=", u>>
    BY <1>1, <1>2, Spelled23 DEF Argument
  <1>7. /\ <<"rd.luks.name", "=", l, "=", n>> # <<>> /\ <<"root", "=", "UUID", "=", u>> # <<>>
        /\ <<"cryptdevice", "=", "UUID", "=", l, ":", n>> # <<>> /\ <<"root", "=", MapperDir, n>> # <<>>
    OBVIOUS
  <1>. QED  BY <1>1, <1>2, <1>3, <1>4, <1>5, <1>6, <1>7
            DEF ByName, ByCryptdevice, RootByMapper, RootByUuid, C, l, u, n

(* The arguments that a generated line has are what it is the text of. *)
DeviceText(m) ==
  LET mapper == m.root.source[2] IN
  CASE Encrypted(m.root) /\ m.sdEncrypt ->
         <<"rd.luks.name", "=", m.root.luksUuid, "=", mapper, Space, "root", "=", MapperDir, mapper>>
    [] Encrypted(m.root) /\ ~m.sdEncrypt ->
         <<"cryptdevice", "=", "UUID", "=", m.root.luksUuid, ":", mapper, Space,
           "root", "=", MapperDir, mapper>>
    [] OTHER -> <<"root", "=", "UUID", "=", m.root.uuid>>

(* The arguments that name the devices are rendered as they are.             *)
LEMMA DeviceRendered ==
  ASSUME NEW m, IsGenerated(m)
  PROVE  /\ RenderArguments(DeviceArguments(m)) = DeviceText(m)
         /\ DeviceArguments(m) \in Seq(Seq(Characters)) /\ DeviceText(m) \in Seq(Characters)
         /\ DeviceText(m) # <<>>
  <1> DEFINE C == Characters
             r == m.root
             l == r.luksUuid
             n == r.source[2]
             sd == m.sdEncrypt
  <1>1. HasSpecials(C)
    BY CharactersAre
  <1>2. /\ ByName(r) \in Seq(Plain(C)) /\ ByCryptdevice(r) \in Seq(Plain(C))
        /\ RootByMapper(r) \in Seq(Plain(C)) /\ RootByUuid(r) \in Seq(Plain(C))
    BY GeneratedPlain
  <1>3. /\ ByName(r) = <<"rd.luks.name", "=", l, "=", n>>
        /\ ByCryptdevice(r) = <<"cryptdevice", "=", "UUID", "=", l, ":", n>>
        /\ RootByMapper(r) = <<"root", "=", MapperDir, n>>
        /\ RootByUuid(r) = <<"root", "=", "UUID", "=", r.uuid>>
        /\ {"rd.luks.name", "cryptdevice", "=", ":", "UUID", "root", MapperDir, Space} \subseteq C
        /\ l \in C /\ r.uuid \in C /\ n \in C
        /\ ByName(r) # <<>> /\ ByCryptdevice(r) # <<>> /\ RootByMapper(r) # <<>>
        /\ RootByUuid(r) # <<>>
    BY ArgumentSpelled
  <1>4. <<Space>> \o RootByMapper(r) = <<Space, "root", "=", MapperDir, n>>
    <2> HIDE DEF C, n
    <2>1. <<Space>> \o <<"root", "=", MapperDir, n>> = <<Space, "root", "=", MapperDir, n>>
      BY <1>3, Spelled14
    <2>. QED  BY <1>3, <2>1
  <1>5. m.sdEncrypt \in BOOLEAN
    BY DEF IsGenerated, IsMachine
  <1>6. CASE Encrypted(r) /\ sd
    <2>1. /\ DeviceArguments(m) = <<ByName(r), RootByMapper(r)>>
          /\ DeviceText(m) = <<"rd.luks.name", "=", l, "=", n, Space, "root", "=", MapperDir, n>>
      BY <1>6 DEF DeviceArguments, DeviceText
    <2>2. /\ RenderArguments(<<ByName(r), RootByMapper(r)>>) = ByName(r) \o (<<Space>> \o RootByMapper(r))
          /\ <<ByName(r), RootByMapper(r)>> \in Seq(Seq(C))
          /\ ByName(r) \o (<<Space>> \o RootByMapper(r)) \in Seq(C)
      <3> HIDE DEF C, r
      <3>. QED  BY <1>1, <1>2, <1>3, RenderTwo
    <2>3. <<"rd.luks.name", "=", l, "=", n>> \o <<Space, "root", "=", MapperDir, n>>
          = <<"rd.luks.name", "=", l, "=", n, Space, "root", "=", MapperDir, n>>
      <3> HIDE DEF C, l, n
      <3>1. {"rd.luks.name", "cryptdevice", "=", ":", "UUID", "root", MapperDir, Space} \subseteq C
            /\ l \in C /\ n \in C
        BY <1>3
      <3>2. Puts55("rd.luks.name", "=", l, "=", n, Space, "root", "=", MapperDir, n)
        BY <3>1, Spelled55
      <3>. QED  BY <3>2 DEF Puts55
    <2>4. <<"rd.luks.name", "=", l, "=", n, Space, "root", "=", MapperDir, n>> # <<>>
      OBVIOUS
    <2> HIDE DEF r, l, n, C
    <2>. QED  BY <1>3, <1>4, <2>1, <2>2, <2>3, <2>4 DEF C
  <1>7. CASE Encrypted(r) /\ ~sd
    <2>1. /\ DeviceArguments(m) = <<ByCryptdevice(r), RootByMapper(r)>>
          /\ DeviceText(m) = <<"cryptdevice", "=", "UUID", "=", l, ":", n, Space, "root", "=", MapperDir, n>>
      BY <1>7 DEF DeviceArguments, DeviceText
    <2>2. /\ RenderArguments(<<ByCryptdevice(r), RootByMapper(r)>>)
             = ByCryptdevice(r) \o (<<Space>> \o RootByMapper(r))
          /\ <<ByCryptdevice(r), RootByMapper(r)>> \in Seq(Seq(C))
          /\ ByCryptdevice(r) \o (<<Space>> \o RootByMapper(r)) \in Seq(C)
      <3> HIDE DEF C, r
      <3>. QED  BY <1>1, <1>2, <1>3, RenderTwo
    <2>3. <<"cryptdevice", "=", "UUID", "=", l, ":", n>> \o <<Space, "root", "=", MapperDir, n>>
          = <<"cryptdevice", "=", "UUID", "=", l, ":", n, Space, "root", "=", MapperDir, n>>
      <3> HIDE DEF C, l, n
      <3>1. {"rd.luks.name", "cryptdevice", "=", ":", "UUID", "root", MapperDir, Space} \subseteq C
            /\ l \in C /\ n \in C
        BY <1>3
      <3>2. Puts75("cryptdevice", "=", "UUID", "=", l, ":", n, Space, "root", "=", MapperDir, n)
        BY <3>1, Spelled75
      <3>. QED  BY <3>2 DEF Puts75
    <2>4. <<"cryptdevice", "=", "UUID", "=", l, ":", n, Space, "root", "=", MapperDir, n>> # <<>>
      OBVIOUS
    <2> HIDE DEF r, l, n, C
    <2>. QED  BY <1>3, <1>4, <2>1, <2>2, <2>3, <2>4 DEF C
  <1>8. CASE ~Encrypted(r)
    <2>1. DeviceArguments(m) = <<RootByUuid(r)>> /\ DeviceText(m) = <<"root", "=", "UUID", "=", r.uuid>>
      BY <1>8 DEF DeviceArguments, DeviceText
    <2>2. /\ RenderArguments(<<RootByUuid(r)>>) = RootByUuid(r) /\ RootByUuid(r) \in Seq(C)
          /\ <<RootByUuid(r)>> \in Seq(Seq(C))
      <3> HIDE DEF C, r
      <3>. QED  BY <1>1, <1>2, <1>3, RenderOne
    <2> HIDE DEF r, C
    <2>. QED  BY <1>3, <2>1, <2>2 DEF C
  <1>. QED  BY <1>5, <1>6, <1>7, <1>8

(* A generated line is the text of its arguments, and is read back as them. *)
LEMMA GeneratedLine ==
  ASSUME NEW m, IsGenerated(m)
  PROVE  /\ GenerateCmdline(m) = RenderArguments(GeneratedArguments(m))
         /\ ParseText(GenerateCmdline(m)) = GeneratedArguments(m)
         /\ GeneratedArguments(m) \in Seq(Seq(Characters))
  <1> DEFINE C == Characters
             r == m.root
             args == DeviceArguments(m)
             text == DeviceText(m)
             sub == r.subvolume
  <1>1. /\ RenderArguments(args) = text /\ args \in Seq(Seq(C)) /\ text \in Seq(C) /\ text # <<>>
    BY DeviceRendered
  <1>2. RenderArguments((args \o <<SubvolumeOf(r)>>) \o <<<<"rw">>>>)
        = (text \o (<<Space, "rootflags", "=", "subvol", "=">> \o sub)) \o <<Space, "rw">>
    <2> HIDE DEF args, text
    <2>. QED  BY <1>1, RenderedEnd
  <1>3. GenerateCmdline(m) = (text \o (<<Space, "rootflags", "=", "subvol", "=">> \o sub)) \o <<Space, "rw">>
    <2>1. /\ RootInfo(r).source = r.source /\ RootInfo(r).uuid = r.uuid
          /\ RootInfo(r).subvolume = r.subvolume /\ r.subvolume # <<>>
      BY RootIs DEF IsGenerated
    <2>2. Encrypted(r) => RootInfo(r).luksUuid = r.luksUuid
      BY GeneratedRoot
    <2>3. Encrypted(RootInfo(r)) = Encrypted(r) /\ m.sdEncrypt \in BOOLEAN
      <3>1. RootInfo(r).blockType = r.blockType
        <4>1. r \in [source : STRING \X (Words \ {NoText}), fstype : STRING, subvolume : Seq(STRING),
               blockType : STRING, uuid : Words, luksUuid : Words, partUuid : Words,
               backing : Seq(STRING), backingFound : BOOLEAN]
          BY DEF IsGenerated, IsMachine
        <4> HIDE DEF r
        <4>2. CASE Encrypted(r) /\ r.backingFound
          BY <4>2 DEF RootInfo
        <4>3. CASE ~(Encrypted(r) /\ r.backingFound)
          <5>1. RootInfo(r) = [r EXCEPT !.luksUuid = NoText, !.partUuid = NoText, !.backing = NoPath]
            BY <4>3 DEF RootInfo
          <5>. QED  BY <4>1, <5>1
        <4>. QED  BY <4>2, <4>3
      <3> HIDE DEF r
      <3>2. m.sdEncrypt \in BOOLEAN
        BY DEF IsGenerated, IsMachine
      <3>. QED  BY <2>1, <3>1, <3>2 DEF Encrypted
    <2>4. CASE Encrypted(r) /\ m.sdEncrypt
      BY <2>1, <2>2, <2>3, <2>4 DEF GenerateCmdline, DeviceText
    <2>5. CASE Encrypted(r) /\ ~m.sdEncrypt
      BY <2>1, <2>2, <2>3, <2>5 DEF GenerateCmdline, DeviceText
    <2>6. CASE ~Encrypted(r)
      BY <2>1, <2>2, <2>3, <2>6 DEF GenerateCmdline, DeviceText
    <2>. QED  BY <2>3, <2>4, <2>5, <2>6
  <1>4. GenerateCmdline(m) = RenderArguments(GeneratedArguments(m))
    BY <1>2, <1>3 DEF GeneratedArguments
  <1>5. GeneratedArguments(m) \in Seq(Renderable(C)) /\ GeneratedArguments(m) \in Seq(Seq(C))
    <2> DEFINE Q == Renderable(C)
    <2>1. \A a \in Seq(Plain(C)) : a # <<>> => a \in Q
      BY PlainArgument
    <2>2. SubvolumeOf(r) # <<>>
      <3>1. "rootflags" \in C /\ "=" \in C /\ <<"subvol", "=">> \o sub \in Seq(C)
        <4>1. {"rootflags", "="} \subseteq Plain(C) /\ <<"subvol", "=">> \o sub \in Seq(Plain(C))
          BY CharactersAre, GeneratedPlain
        <4>2. Plain(C) \subseteq C
          BY DEF Plain
        <4> HIDE DEF C, sub
        <4> DEFINE P == Plain(C)
                   v == <<"subvol", "=">> \o sub
        <4>3. P \subseteq C /\ v \in Seq(P) /\ "rootflags" \in P /\ "=" \in P
          BY <4>1, <4>2
        <4> HIDE DEF P, v
        <4>4. v \in Seq(C) /\ "rootflags" \in C /\ "=" \in C
          BY <4>3
        <4>. QED  BY <4>4 DEF v
      <3> HIDE DEF C, sub
      <3> DEFINE v == <<"subvol", "=">> \o sub
      <3>2. v \in Seq(C) /\ Len(v) \in Nat
        BY <3>1
      <3> HIDE DEF v
      <3>3. Len(Argument("rootflags", v)) = 2 + Len(v)
        BY <3>1, <3>2, ValueOfIs DEF Argument
      <3>4. Argument("rootflags", v) # <<>>
        BY <3>2, <3>3
      <3>. QED  BY <3>4 DEF SubvolumeOf, v, sub
    <2>3. SubvolumeOf(r) \in Q /\ <<"rw">> \in Q
      BY <2>1, <2>2, GeneratedPlain
    <2>4. ByName(r) \in Q /\ ByCryptdevice(r) \in Q /\ RootByMapper(r) \in Q /\ RootByUuid(r) \in Q
      BY <2>1, GeneratedPlain, ArgumentSpelled
    <2>5. args \in Seq(Q)
      <3> HIDE DEF Q, r
      <3>. QED  BY <2>4 DEF DeviceArguments, r
    <2>6. Q \subseteq Seq(C)
      BY DEF Renderable
    <2> HIDE DEF Q, args, C
    <2> DEFINE s == SubvolumeOf(r)
               w == <<"rw">>
    <2>7. s \in Q /\ w \in Q
      BY <2>3
    <2> HIDE DEF s, w
    <2>8. (args \o <<s>>) \o <<w>> \in Seq(Q)
      BY <2>5, <2>7
    <2> DEFINE D == Seq(C)
    <2>9. Q \subseteq D
      BY <2>6
    <2> HIDE DEF D
    <2>10. (args \o <<s>>) \o <<w>> \in Seq(D)
      BY <2>8, <2>9
    <2>. QED  BY <2>8, <2>10 DEF GeneratedArguments, s, w, args, D, Q
  <1>6. HasSpecials(C)
    BY CharactersAre
  <1>7. ParseText(RenderArguments(GeneratedArguments(m))) = GeneratedArguments(m)
    BY <1>5, <1>6, ParseOfRender
  <1>. QED  BY <1>4, <1>5, <1>7

-----------------------------------------------------------------------------
(***************************************************************************)
(* Validation accepts a generated line.                                    *)
(***************************************************************************)

(* An argument has the one key and the one value. *)
LEMMA ArgumentHas ==
  ASSUME NEW key \in Characters, NEW value \in Seq(Characters)
  PROVE  /\ \A k : HasValue(Argument(key, value), k) <=> k = key
         /\ ValueOf(Argument(key, value)) = value
  <1> DEFINE C == Characters
             a == <<key, "=">> \o value
  <1>1. "=" \in C
    <2>1. "=" \in Plain(C)
      BY CharactersAre
    <2>. QED  BY <2>1 DEF Plain
  <1> HIDE DEF C
  <1>2. key \in C /\ value \in Seq(C)
    BY DEF C
  <1>3. ValueOf(a) = value /\ HasValue(a, key) /\ a[1] = key
    BY <1>1, <1>2, ValueOfIs
  <1>4. \A k : HasValue(a, k) => k = key
    BY <1>3 DEF HasValue
  <1>. QED  BY <1>3, <1>4 DEF Argument

(* An argument of one word has no value.                                     *)
LEMMA FlagHasNone ==
  ASSUME NEW w \in STRING
  PROVE  \A k : ~HasValue(<<w>>, k)
  <1>1. Len(<<w>>) = 1
    OBVIOUS
  <1>. QED  BY <1>1 DEF HasValue

(* The values that validation looks for in a generated line. *)
LEMMA GeneratedValues ==
  ASSUME NEW m, IsGenerated(m)
  PROVE  LET line == GeneratedArguments(m)
             r == m.root
         IN  /\ line # <<>>
             /\ Value(line, "rootflags") = <<"subvol", "=">> \o r.subvolume
             /\ Encrypted(r) =>
                  /\ Value(line, "root") = <<MapperDir, r.source[2]>>
                  /\ m.sdEncrypt => <<r.luksUuid, "=", r.source[2]>> \in Values(line, "rd.luks.name")
                  /\ ~m.sdEncrypt =>
                       <<"UUID", "=", r.luksUuid, ":", r.source[2]>> \in Values(line, "cryptdevice")
             /\ ~Encrypted(r) => Value(line, "root") = <<"UUID", "=", r.uuid>>
  <1> DEFINE C == Characters
             P == Plain(C)
             r == m.root
             line == GeneratedArguments(m)
             name == <<r.luksUuid, "=", r.source[2]>>
             crypt == <<"UUID", "=", r.luksUuid, ":", r.source[2]>>
             mapper == <<MapperDir, r.source[2]>>
             uuid == <<"UUID", "=", r.uuid>>
             flags == <<"subvol", "=">> \o r.subvolume
  <1>1. /\ {"rd.luks.name", "cryptdevice", "=", ":", "UUID", "root", MapperDir} \subseteq C
        /\ {"rootflags", "subvol", "rw"} \subseteq C
        /\ r.luksUuid \in C /\ r.uuid \in C /\ r.source[2] \in C
    <2>1. {"rd.luks.name", "cryptdevice", "=", ":", "UUID", "root", MapperDir} \subseteq C
          /\ r.luksUuid \in C /\ r.uuid \in C /\ r.source[2] \in C
      BY ArgumentSpelled
    <2>2. {"rootflags", "subvol", "rw"} \subseteq P
      BY CharactersAre
    <2>. QED  BY <2>1, <2>2 DEF Plain
  <1>2. name \in Seq(C) /\ crypt \in Seq(C) /\ mapper \in Seq(C) /\ uuid \in Seq(C)
    <2> HIDE DEF C, r
    <2>. QED  BY <1>1
  <1>3. flags \in Seq(C)
    <2>1. flags \in Seq(P)
      BY GeneratedPlain
    <2>2. P \subseteq C
      BY DEF Plain
    <2> HIDE DEF C, P, flags
    <2>. QED  BY <2>1, <2>2
  <1> DEFINE a1 == Argument("rd.luks.name", name)
             a2 == Argument("cryptdevice", crypt)
             a3 == Argument("root", mapper)
             a4 == Argument("root", uuid)
             a5 == Argument("rootflags", flags)
             a6 == <<"rw">>
  <1>4. line = (DeviceArguments(m) \o <<a5>>) \o <<a6>>
    BY DEF GeneratedArguments, SubvolumeOf
  <1>5. DeviceArguments(m) = IF Encrypted(r) THEN IF m.sdEncrypt THEN <<a1, a3>> ELSE <<a2, a3>> ELSE <<a4>>
    <2>1. m.sdEncrypt \in BOOLEAN
      BY DEF IsGenerated, IsMachine
    <2>. QED  BY <2>1 DEF DeviceArguments, ByName, ByCryptdevice, RootByMapper, RootByUuid
  <1> HIDE DEF name, crypt, mapper, uuid, flags, C, P
  <1>6. /\ \A k : HasValue(a1, k) <=> k = "rd.luks.name"
        /\ \A k : HasValue(a2, k) <=> k = "cryptdevice"
        /\ \A k : HasValue(a3, k) <=> k = "root"
        /\ \A k : HasValue(a4, k) <=> k = "root"
        /\ \A k : HasValue(a5, k) <=> k = "rootflags"
        /\ \A k : ~HasValue(a6, k)
        /\ ValueOf(a1) = name /\ ValueOf(a2) = crypt /\ ValueOf(a3) = mapper /\ ValueOf(a4) = uuid
        /\ ValueOf(a5) = flags
    <2>1. Len(a6) = 1
      OBVIOUS
    <2>2. \A k : ~HasValue(a6, k)
      BY <2>1 DEF HasValue
    <2>3. \A key \in C, value \in Seq(C) :
            /\ \A k : HasValue(Argument(key, value), k) <=> k = key
            /\ ValueOf(Argument(key, value)) = value
      BY ArgumentHas DEF C
    <2>4. {"rd.luks.name", "cryptdevice", "root", "rootflags"} \subseteq C
      BY <1>1
    <2>. QED  BY <1>2, <1>3, <2>2, <2>3, <2>4
  <1> DEFINE U == {a1, a2, a3, a4, a5, a6}
  <1> HIDE DEF a1, a2, a3, a4, a5, a6, line
  <1>7. CASE Encrypted(r)
    <2> DEFINE d == IF m.sdEncrypt THEN a1 ELSE a2
    <2>1. line = (<<d, a3>> \o <<a5>>) \o <<a6>>
      BY <1>4, <1>5, <1>7
    <2>2. d \in U /\ a3 \in U /\ a5 \in U /\ a6 \in U
      OBVIOUS
    <2> HIDE DEF U
    <2>3. line = <<d, a3, a5, a6>>
      <3>1. Short(U, d, a3, a5, a6)
        BY <2>2, ShortSequences
      <3>. QED  BY <2>1, <3>1 DEF Short
    <2>4. DOMAIN line = 1..4 /\ line[1] = d /\ line[2] = a3 /\ line[3] = a5 /\ line[4] = a6 /\ line # <<>>
      BY <2>3
    <2>5. Value(line, "root") = mapper
      <3>1. /\ 2 \in DOMAIN line /\ HasValue(line[2], "root")
            /\ \A j \in DOMAIN line : HasValue(line[j], "root") => j = 2
        BY <1>6, <2>4
      <3>2. Value(line, "root") = ValueOf(line[2])
        BY <3>1, OnlyPlace
      <3>. QED  BY <1>6, <2>4, <3>2
    <2>6. Value(line, "rootflags") = flags
      <3>1. /\ 3 \in DOMAIN line /\ HasValue(line[3], "rootflags")
            /\ \A j \in DOMAIN line : HasValue(line[j], "rootflags") => j = 3
        BY <1>6, <2>4
      <3>2. Value(line, "rootflags") = ValueOf(line[3])
        BY <3>1, OnlyPlace
      <3>. QED  BY <1>6, <2>4, <3>2
    <2>7. m.sdEncrypt => name \in Values(line, "rd.luks.name")
      <3> SUFFICES ASSUME m.sdEncrypt PROVE name \in Values(line, "rd.luks.name")
        OBVIOUS
      <3>1. 1 \in PlacesOf(line, "rd.luks.name") /\ ValueOf(line[1]) = name
        BY <1>6, <2>4 DEF PlacesOf
      <3>. QED  BY <3>1 DEF Values
    <2>8. ~m.sdEncrypt => crypt \in Values(line, "cryptdevice")
      <3> SUFFICES ASSUME ~m.sdEncrypt PROVE crypt \in Values(line, "cryptdevice")
        OBVIOUS
      <3>1. 1 \in PlacesOf(line, "cryptdevice") /\ ValueOf(line[1]) = crypt
        BY <1>6, <2>4 DEF PlacesOf
      <3>. QED  BY <3>1 DEF Values
    <2>. QED  BY <1>7, <2>4, <2>5, <2>6, <2>7, <2>8 DEF name, crypt, mapper, uuid, flags, line
  <1>8. CASE ~Encrypted(r)
    <2>1. line = (<<a4>> \o <<a5>>) \o <<a6>>
      BY <1>4, <1>5, <1>8
    <2>2. a4 \in U /\ a5 \in U /\ a6 \in U
      OBVIOUS
    <2> HIDE DEF U
    <2>3. line = <<a4, a5, a6>>
      <3>1. Short(U, a4, a5, a6, a6)
        BY <2>2, ShortSequences
      <3>. QED  BY <2>1, <3>1 DEF Short
    <2>4. DOMAIN line = 1..3 /\ line[1] = a4 /\ line[2] = a5 /\ line[3] = a6 /\ line # <<>>
      BY <2>3
    <2>5. Value(line, "root") = uuid
      <3>1. /\ 1 \in DOMAIN line /\ HasValue(line[1], "root")
            /\ \A j \in DOMAIN line : HasValue(line[j], "root") => j = 1
        BY <1>6, <2>4
      <3>2. Value(line, "root") = ValueOf(line[1])
        BY <3>1, OnlyPlace
      <3>. QED  BY <1>6, <2>4, <3>2
    <2>6. Value(line, "rootflags") = flags
      <3>1. /\ 2 \in DOMAIN line /\ HasValue(line[2], "rootflags")
            /\ \A j \in DOMAIN line : HasValue(line[j], "rootflags") => j = 2
        BY <1>6, <2>4
      <3>2. Value(line, "rootflags") = ValueOf(line[2])
        BY <3>1, OnlyPlace
      <3>. QED  BY <1>6, <2>4, <3>2
    <2>. QED  BY <1>8, <2>4, <2>5, <2>6 DEF name, crypt, mapper, uuid, flags, line
  <1>. QED  BY <1>7, <1>8

(* A value is parted at the first of a separator. *)
LEMMA PartedAt ==
  ASSUME NEW value, NEW separator, NEW place \in 1..Len(value), Len(value) \in Nat,
         value[place] = separator, \A i \in 1..(place - 1) : value[i] # separator
  PROVE  /\ UpTo(value, separator) = SubSeq(value, 1, place - 1)
         /\ Beyond(value, separator) = SubSeq(value, place + 1, Len(value))
  <1> DEFINE places == {i \in 1..Len(value) : value[i] = separator}
  <1>1. place \in places /\ places \subseteq Nat /\ \A i \in places : place <= i
    OBVIOUS
  <1>2. places # {} /\ Min(places) = place
    <2> DEFINE least == Min(places)
    <2> HIDE DEF places
    <2>1. places # {} /\ least \in places /\ \A i \in places : least <= i
      BY <1>1, MinIs
    <2> HIDE DEF least
    <2>2. least \in Nat /\ place \in Nat /\ least <= place /\ place <= least
      BY <1>1, <2>1
    <2>3. least = place
      BY <2>2
    <2>. QED  BY <2>1, <2>3 DEF least
  <1>3. SelectInSeq(value, LAMBDA ch : ch = separator) = place
    BY <1>2 DEF SelectInSeq
  <1>4. place # 0
    OBVIOUS
  <1>. QED  BY <1>3, <1>4 DEF UpTo, Beyond

(* A part of a sequence, element by element. *)
LEMMA SubSeqSpelled ==
  ASSUME NEW S, NEW s, NEW first \in Nat, NEW last \in Nat, NEW part \in Seq(S), first <= last,
         Len(part) = last - first + 1, \A i \in first..last : s[i] \in S,
         \A i \in 1..Len(part) : part[i] = s[first + i - 1]
  PROVE  SubSeq(s, first, last) = part
  <1> DEFINE sub == SubSeq(s, first, last)
  <1>1. /\ sub \in Seq(S) /\ Len(sub) = IF first <= last THEN last - first + 1 ELSE 0
        /\ \A i \in 1..last - first + 1 : sub[i] = s[first + i - 1]
    BY SubSeqProperties
  <1> HIDE DEF sub
  <1>2. Len(sub) = Len(part) /\ \A i \in 1..Len(sub) : sub[i] = part[i]
    BY <1>1
  <1>3. sub = part
    BY <1>1, <1>2, SeqEqual
  <1>. QED  BY <1>3 DEF sub

(* One without the separator is not parted. *)
LEMMA WholePart ==
  ASSUME NEW value, NEW separator, \A i \in 1..Len(value) : value[i] # separator
  PROVE  UpTo(value, separator) = value
  <1>1. {i \in 1..Len(value) : value[i] = separator} = {}
    OBVIOUS
  <1>2. SelectInSeq(value, LAMBDA ch : ch = separator) = 0
    BY <1>1 DEF SelectInSeq
  <1>. QED  BY <1>2 DEF UpTo

(* The value of cryptdevice= that is generated is well-formed and names the  *)
(* mapper.                                                                   *)
LEMMA CryptdeviceParts ==
  ASSUME NEW l, NEW n, l # ":", n # ":"
  PROVE  LET value == <<"UUID", "=", l, ":", n>>
         IN  IsCryptdevice(value) /\ CryptdeviceMapper(value) = <<n>>
  <1> DEFINE value == <<"UUID", "=", l, ":", n>>
             source == <<"UUID", "=", l>>
             mapper == <<n>>
  <1>1. /\ Len(value) = 5 /\ value[1] = "UUID" /\ value[2] = "=" /\ value[3] = l /\ value[4] = ":"
        /\ value[5] = n
    OBVIOUS
  <1> DEFINE S == {"UUID", "=", l, ":", n}
  <1>2. source \in Seq(S) /\ mapper \in Seq(S) /\ \A i \in 1..5 : value[i] \in S
    OBVIOUS
  <1>3. Len(source) = 3 /\ source[1] = "UUID" /\ source[2] = "=" /\ source[3] = l
    OBVIOUS
  <1>4. Len(mapper) = 1 /\ mapper[1] = n /\ mapper # <<>>
    OBVIOUS
  <1> HIDE DEF value, source, mapper
  <1>5. UpTo(value, ":") = source /\ Beyond(value, ":") = mapper
    <2>1. /\ Len(value) \in Nat /\ 4 \in 1..Len(value) /\ value[4] = ":"
          /\ \A i \in 1..(4 - 1) : value[i] # ":"
      BY <1>1
    <2>2. /\ UpTo(value, ":") = SubSeq(value, 1, 4 - 1)
          /\ Beyond(value, ":") = SubSeq(value, 4 + 1, Len(value))
      BY <2>1, PartedAt
    <2> HIDE DEF S
    <2>3. SubSeq(value, 1, 3) = source
      BY <1>1, <1>2, <1>3, SubSeqSpelled
    <2>4. SubSeq(value, 5, 5) = mapper
      BY <1>1, <1>2, <1>4, SubSeqSpelled
    <2>. QED  BY <1>1, <2>2, <2>3, <2>4
  <1>6. UpTo(mapper, ":") = mapper
    <2>1. \A i \in 1..Len(mapper) : mapper[i] # ":"
      BY <1>4
    <2>. QED  BY <2>1, WholePart
  <1>7. IsDeviceReference(source)
    BY <1>3 DEF IsDeviceReference
  <1>8. CryptdeviceSource(value) = source /\ CryptdeviceMapper(value) = mapper
    BY <1>5, <1>6 DEF CryptdeviceSource, CryptdeviceMapper
  <1>. QED  BY <1>4, <1>7, <1>8 DEF IsCryptdevice, value, mapper

(* The value of rd.luks.name= that is generated: a UUID, and the mapper. *)
LEMMA NameParts ==
  ASSUME NEW l \in Uuids, NEW n
  PROVE  LET value == <<l, "=", n>> IN
         UpTo(value, "=") = <<l>> /\ Beyond(value, "=") = <<n>> /\ IsUuid(UpTo(value, "="))
  <1> DEFINE value == <<l, "=", n>>
             uuid == <<l>>
             mapper == <<n>>
  <1>1. Len(value) = 3 /\ value[1] = l /\ value[2] = "=" /\ value[3] = n
    OBVIOUS
  <1> DEFINE S == {l, "=", n}
  <1>2. /\ uuid \in Seq(S) /\ mapper \in Seq(S) /\ \A i \in 1..3 : value[i] \in S
        /\ Len(uuid) = 1 /\ uuid[1] = l /\ Len(mapper) = 1 /\ mapper[1] = n
    OBVIOUS
  <1>3. l # "="
    BY UuidsAssumption
  <1>4. uuid # <<>> /\ ToSet(uuid) \subseteq Uuids
    BY DEF ToSet
  <1> HIDE DEF value, uuid, mapper
  <1>5. /\ Len(value) \in Nat /\ 2 \in 1..Len(value) /\ value[2] = "="
        /\ \A i \in 1..(2 - 1) : value[i] # "="
    BY <1>1, <1>3
  <1>6. /\ UpTo(value, "=") = SubSeq(value, 1, 2 - 1)
        /\ Beyond(value, "=") = SubSeq(value, 2 + 1, Len(value))
    BY <1>5, PartedAt
  <1>7. UpTo(value, "=") = uuid /\ Beyond(value, "=") = mapper
    <2> HIDE DEF S
    <2>1. SubSeq(value, 1, 1) = uuid
      BY <1>1, <1>2, SubSeqSpelled
    <2>2. SubSeq(value, 3, 3) = mapper
      BY <1>1, <1>2, SubSeqSpelled
    <2>. QED  BY <1>1, <1>6, <2>1, <2>2
  <1>. QED  BY <1>4, <1>7 DEF IsUuid, value, uuid, mapper

(* What validation says of a generated line. *)
LEMMA GeneratedIsAccepted ==
  ASSUME NEW m, IsGenerated(m), Encrypted(m.root) => m.root.source[1] = MapperDir,
         NEW system, system.cmdline = GeneratedArguments(m), system.root = RootInfo(m.root),
         system.encrypted = Encrypted(m.root)
  PROVE  /\ system.cmdline # <<>> /\ RootErrors(system) = {} /\ EncryptionErrors(system) = {}
         /\ RootflagsErrors(system) = {}
  <1> DEFINE r == m.root
             line == GeneratedArguments(m)
  <1>1. /\ line # <<>>
        /\ Value(line, "rootflags") = <<"subvol", "=">> \o r.subvolume
        /\ Encrypted(r) =>
             /\ Value(line, "root") = <<MapperDir, r.source[2]>>
             /\ m.sdEncrypt => <<r.luksUuid, "=", r.source[2]>> \in Values(line, "rd.luks.name")
             /\ ~m.sdEncrypt =>
                  <<"UUID", "=", r.luksUuid, ":", r.source[2]>> \in Values(line, "cryptdevice")
        /\ ~Encrypted(r) => Value(line, "root") = <<"UUID", "=", r.uuid>>
    BY GeneratedValues
  <1>2. /\ r.source = <<r.source[1], r.source[2]>> /\ r.source[2] \in Words /\ r.luksUuid \in Words
        /\ system.root.source = r.source /\ system.root.uuid = r.uuid
        /\ system.root.subvolume = r.subvolume
    BY RootIs DEF IsGenerated
  <1>3. /\ ~Encrypted(r) => r.uuid # NoText
        /\ Encrypted(r) => r.luksUuid \in Uuids
    <2>1. ~Encrypted(r) => r.uuid # NoText
      BY GeneratedRoot
    <2>2. Encrypted(r) => r.luksUuid # NoText
      BY GeneratedRoot DEF IsGenerated, CanGenerate
    <2>3. r.luksUuid # NoText => r.luksUuid \in Uuids
      BY RootIs DEF IsGenerated
    <2>. QED  BY <2>1, <2>2, <2>3
  <1> HIDE DEF line, r
  <1>4. RootErrors(system) = {}
    BY <1>1, <1>2, <1>3 DEF RootErrors, ReportIf, line, r
  <1>5. RootflagsErrors(system) = {}
    BY <1>1, <1>2 DEF RootflagsErrors, ReportIf, line
  <1>6. EncryptionErrors(system) = {}
    <2>1. CASE system.encrypted /\ m.sdEncrypt
      <3> DEFINE v == <<r.luksUuid, "=", r.source[2]>>
      <3>1. v \in Values(system.cmdline, "rd.luks.name")
        BY <1>1, <2>1 DEF line, r
      <3>2. Beyond(v, "=") = <<r.source[2]>> /\ IsUuid(UpTo(v, "="))
        BY <1>3, <2>1, NameParts DEF r
      <3> HIDE DEF v
      <3>3. MappedByName(v, system.root)
        BY <1>2, <3>2 DEF MappedByName
      <3>. QED  BY <3>1, <3>3 DEF EncryptionErrors, ReportIf
    <2>2. CASE system.encrypted /\ ~m.sdEncrypt
      <3> DEFINE v == <<"UUID", "=", r.luksUuid, ":", r.source[2]>>
      <3>1. v \in Values(system.cmdline, "cryptdevice")
        BY <1>1, <2>2 DEF line, r
      <3>2. r.luksUuid # ":" /\ r.source[2] # ":"
        BY <1>2 DEF Words
      <3>3. IsCryptdevice(v) /\ CryptdeviceMapper(v) = <<r.source[2]>>
        BY <3>2, CryptdeviceParts
      <3> HIDE DEF v
      <3>4. MappedByCryptdevice(v, system.root)
        BY <1>2, <3>3 DEF MappedByCryptdevice
      <3>. QED  BY <3>1, <3>4 DEF EncryptionErrors, ReportIf
    <2>3. CASE ~system.encrypted
      BY <2>3 DEF EncryptionErrors, ReportIf
    <2>. QED  BY <2>1, <2>2, <2>3
  <1>. QED  BY <1>1, <1>4, <1>5, <1>6 DEF line

-----------------------------------------------------------------------------
(***************************************************************************)
(* What detection finds, whatever the order of the listing.                *)
(***************************************************************************)

(* The orders of a finite set are sequences of its elements. *)
LEMMA ListingIs ==
  ASSUME NEW S, IsFiniteSet(S), NEW listing \in SetToSeqs(S)
  PROVE  listing \in Seq(S)
  <1>1. Cardinality(S) \in Nat
    BY FS_CardinalityType
  <1>2. listing \in [1..Cardinality(S) -> S]
    BY DEF SetToSeqs
  <1>. QED  BY <1>1, <1>2

(* Files of a name. *)
LEMMA NamedFilesAre ==
  ASSUME NEW D, NEW listing \in Seq(D), NEW name
  PROVE  NamedFiles(listing, name) \in Seq(D)
  <1> DEFINE named == {f \in ToSet(listing) : f.name = name}
             top == {f \in named : f.dir = NoText}
  <1>1. Filtered(listing, named \ top) \in Seq(D) /\ Filtered(listing, top) \in Seq(D)
    <2> HIDE DEF named, top
    <2>. QED  BY FilteredIs
  <1>. QED  BY <1>1 DEF NamedFiles

(* The microcode images are files that were found.                           *)
LEMMA MicrocodesAre ==
  ASSUME NEW D, NEW listing \in Seq(D), NEW m
  PROVE  Microcodes(m, listing) \in Seq(D)
  <1>1. NamedFiles(listing, <<m.microcode>>) \in Seq(D)
    BY NamedFilesAre
  <1>2. <<>> \in Seq(D)
    OBVIOUS
  <1>. QED  BY <1>1, <1>2 DEF Microcodes

(* What a kernel that is found in a listing has. *)
IsInstallation(D, k) ==
  /\ k.uki \in BOOLEAN /\ k.initrds \in Seq(D) /\ k.base \in Seq(STRING)
  /\ k.uki => k.initrds = <<>>

(* What is made of an image is an installation.                              *)
LEMMA InstallationIs ==
  ASSUME NEW D, NEW listing \in Seq(D), NEW m, NEW modules, NEW image, image.name \in Seq(STRING),
         Len(image.name) > 1
  PROVE  IsInstallation(D, Installation(m, listing, modules, image))
  <1> DEFINE base == Tail(image.name)
             initramfs == NamedFiles(listing, Initramfs(base))
             ukis == FindUki(listing, base)
             release == ReleaseOf(m, modules, base)
             micro == Microcodes(m, listing)
             found == [base |-> base, release |-> release, image |-> image, uki |-> FALSE,
                       initrds |-> micro, running |-> release # NoText /\ release = m.running]
             k == Installation(m, listing, modules, image)
  <1>1. base \in Seq(STRING)
    <2> DEFINE n == image.name
    <2>1. n \in Seq(STRING) /\ n # <<>>
      OBVIOUS
    <2> HIDE DEF n
    <2>2. Tail(n) \in Seq(STRING)
      BY <2>1
    <2>. QED  BY <2>2 DEF n
  <1>2. initramfs \in Seq(D) /\ micro \in Seq(D)
    BY NamedFilesAre, MicrocodesAre
  <1>3. k = CASE initramfs # <<>> -> [found EXCEPT !.initrds = Append(@, initramfs[1])]
              [] initramfs = <<>> /\ ukis # <<>> ->
                   [found EXCEPT !.image = ukis[1], !.initrds = <<>>, !.uki = TRUE]
              [] OTHER -> found
    BY DEF Installation
  <1> HIDE DEF base, initramfs, ukis, release, micro, k
  <1>4. CASE initramfs # <<>>
    <2>1. k = [found EXCEPT !.initrds = Append(@, initramfs[1])]
      BY <1>3, <1>4
    <2>2. k.uki = FALSE /\ k.initrds = Append(micro, initramfs[1]) /\ k.base = base
      BY <2>1
    <2>3. initramfs[1] \in D
      BY <1>2, <1>4
    <2>4. Append(micro, initramfs[1]) \in Seq(D)
      BY <1>2, <2>3
    <2>. QED  BY <1>1, <2>2, <2>4 DEF IsInstallation, k
  <1>5. CASE initramfs = <<>> /\ ukis # <<>>
    <2>1. k = [found EXCEPT !.image = ukis[1], !.initrds = <<>>, !.uki = TRUE]
      BY <1>3, <1>5
    <2>2. k.uki = TRUE /\ k.initrds = <<>> /\ k.base = base /\ <<>> \in Seq(D)
      BY <2>1
    <2>. QED  BY <1>1, <2>2 DEF IsInstallation, k
  <1>6. CASE initramfs = <<>> /\ ukis = <<>>
    <2>1. k = found
      BY <1>3, <1>6
    <2>2. k.uki = FALSE /\ k.initrds = micro /\ k.base = base
      BY <2>1
    <2>. QED  BY <1>1, <1>2, <2>2 DEF IsInstallation, k
  <1>. QED  BY <1>4, <1>5, <1>6

(* A machine as it was found at some time. *)
Detected(system, m) ==
  /\ system.failed = FALSE
  /\ \E listing \in SetToSeqs(DOMAIN m.files), modules \in SetToSeqs(DOMAIN m.modules) :
       system = DetectSystem(m, listing, modules)

(* Its kernels. *)
LEMMA KernelsAre ==
  ASSUME NEW m, IsMachine(m), NEW system, Detected(system, m)
  PROVE  /\ system.kernels \in Seq(ToSet(system.kernels))
         /\ \A k \in ToSet(system.kernels) : IsInstallation(DOMAIN m.files, k)
  <1> DEFINE D == DOMAIN m.files
  <1>1. PICK listing \in SetToSeqs(D), modules \in SetToSeqs(DOMAIN m.modules) :
          system = DetectSystem(m, listing, modules)
    BY DEF Detected
  <1>2. listing \in Seq(D) /\ D \subseteq [dir : STRING, name : Seq(STRING)]
    BY ListingIs DEF IsMachine
  <1>3. system.kernels = DiscoverKernels(m, listing, modules)
    BY <1>1 DEF DetectSystem
  <1> DEFINE S == {f \in ToSet(listing) : IsImage(f)}
             images == Filtered(listing, S)
             kernels == [i \in DOMAIN images |-> Installation(m, listing, modules, images[i])]
             before == {p \in ToSet(kernels) \X ToSet(kernels) : KernelPrecedes(p[1], p[2])}
             K == {Installation(m, listing, modules, f) : f \in D \cap S}
  <1>4. system.kernels = SortBy(kernels, before)
    BY <1>3 DEF DiscoverKernels
  <1>5. images \in Seq(D \cap S)
    <2> HIDE DEF S, D
    <2>. QED  BY <1>2, FilteredIn
  <1>6. kernels \in Seq(K)
    <2> HIDE DEF images, S, D
    <2>. QED  BY <1>5
  <1>7. \A k \in K : IsInstallation(D, k)
    <2> SUFFICES ASSUME NEW f \in D \cap S PROVE IsInstallation(D, Installation(m, listing, modules, f))
      OBVIOUS
    <2>1. f.name \in Seq(STRING) /\ Len(f.name) > 1
      BY <1>2 DEF IsImage
    <2> HIDE DEF D, S
    <2>. QED  BY <1>2, <2>1, InstallationIs
  <1> HIDE DEF before, kernels, K
  <1>8. system.kernels \in Seq(K)
    BY <1>4, <1>6, SortByType
  <1> DEFINE s == system.kernels
  <1> HIDE DEF s
  <1>9. s \in Seq(K)
    BY <1>8 DEF s
  <1>10. s \in Seq(ToSet(s)) /\ ToSet(s) \subseteq K
    BY <1>9 DEF ToSet
  <1>. QED  BY <1>7, <1>10 DEF s

-----------------------------------------------------------------------------
(***************************************************************************)
(* What validation accepts: the files of an entry, and the paths that the  *)
(* menu gives them.                                                        *)
(***************************************************************************)

(* A sequence over a set is one over a larger set. *)
LEMMA SeqLarger ==
  ASSUME NEW S, NEW T, S \subseteq T, NEW s \in Seq(S)
  PROVE  s \in Seq(T)
  OBVIOUS

(* A generated line is a text. *)
LEMMA GenerateType ==
  ASSUME NEW m, IsMachine(m)
  PROVE  GenerateCmdline(m) \in Seq(Characters)
  <1> DEFINE C == Characters
             r == RootInfo(m.root)
             n == r.source[2]
             l == r.luksUuid
             u == r.uuid
             sub == r.subvolume
             a == <<"rd.luks.name", "=", l, "=", n, Space, "root", "=", MapperDir, n>>
             b == <<"cryptdevice", "=", "UUID", "=", l, ":", n, Space, "root", "=", MapperDir, n>>
             c == <<"root", "=", "UUID", "=", u>>
             flags == <<Space, "rootflags", "=", "subvol", "=">>
             end == <<Space, "rw">>
  <1>1. /\ {"rd.luks.name", "cryptdevice", "=", ":", "UUID", "root", MapperDir, "rootflags", "subvol",
            "rw", Space} \subseteq C
        /\ Words \subseteq C /\ STRING \subseteq C
    <2>1. /\ {"rd.luks.name", "cryptdevice", "=", ":", "UUID", "root", MapperDir, "rootflags", "subvol",
              "rw"} \subseteq Plain(C)
          /\ Words \subseteq Plain(C) /\ STRING \subseteq C /\ Space \in C
      BY CharactersAre DEF HasSpecials
    <2>. QED  BY <2>1 DEF Plain
  <1>2. n \in Words /\ u \in Words /\ l \in Words \cup {NoText} /\ sub \in Seq(STRING)
    BY RootIs
  <1>3. NoText \in C
    BY DEF NoText, Characters
  <1>4. n \in C /\ u \in C /\ l \in C
    BY <1>1, <1>2, <1>3
  <1>5. sub \in Seq(C)
    BY <1>1, <1>2, SeqLarger
  <1>6. GenerateCmdline(m) =
          ((CASE Encrypted(r) /\ m.sdEncrypt -> a [] Encrypted(r) /\ ~m.sdEncrypt -> b [] OTHER -> c)
           \o (IF sub = <<>> THEN <<>> ELSE flags \o sub)) \o end
    BY DEF GenerateCmdline
  <1> HIDE DEF C, n, l, u, sub
  <1>7. a \in Seq(C) /\ b \in Seq(C) /\ c \in Seq(C) /\ flags \in Seq(C) /\ end \in Seq(C) /\ <<>> \in Seq(C)
    BY <1>1, <1>4
  <1> DEFINE x == CASE Encrypted(r) /\ m.sdEncrypt -> a [] Encrypted(r) /\ ~m.sdEncrypt -> b [] OTHER -> c
             y == IF sub = <<>> THEN <<>> ELSE flags \o sub
  <1> HIDE DEF a, b, c, flags, end
  <1>8. x \in Seq(C)
    <2>1. m.sdEncrypt \in BOOLEAN
      BY DEF IsMachine
    <2>. QED  BY <1>7, <2>1
  <1>9. y \in Seq(C)
    BY <1>5, <1>7
  <1>10. GenerateCmdline(m) = (x \o y) \o end
    BY <1>6
  <1> HIDE DEF x, y
  <1>11. (x \o y) \o end \in Seq(C)
    BY <1>7, <1>8, <1>9
  <1>. QED  BY <1>10, <1>11 DEF C

(* What is found of a machine besides its kernels. *)
LEMMA DetectedIs ==
  ASSUME NEW m, IsMachine(m), NEW system, Detected(system, m)
  PROVE  /\ system.cmdline = Line(m) /\ Line(m) \in Seq(Seq(Characters) \ {<<>>})
         /\ system.root = RootInfo(m.root) /\ system.encrypted = Encrypted(m.root)
         /\ system.hashes = ResourceHashes(m, system.kernels)
         /\ system.secureBoot.enforced = SecureBootDetected(m)
         /\ system.generated = (m.cmdline = <<>>)
         /\ system.generated => CanGenerate(m.root)
  <1> DEFINE D == DOMAIN m.files
  <1>1. PICK listing \in SetToSeqs(D), modules \in SetToSeqs(DOMAIN m.modules) :
          system = DetectSystem(m, listing, modules)
    BY DEF Detected
  <1>2. /\ system.cmdline = Line(m) /\ system.root = RootInfo(m.root)
        /\ system.encrypted = Encrypted(m.root) /\ system.generated = (m.cmdline = <<>>)
        /\ system.hashes = ResourceHashes(m, system.kernels)
        /\ system.secureBoot = [m.secureBoot EXCEPT !.enforced = SecureBootDetected(m)]
        /\ system.failed = ((m.cmdline = <<>> /\ ~CanGenerate(m.root)) \/ Line(m) = Malformed)
    BY <1>1 DEF DetectSystem, Line
  <1>3. system.secureBoot.enforced = SecureBootDetected(m)
    BY <1>2 DEF IsMachine
  <1>4. Line(m) # Malformed /\ (m.cmdline = <<>> => CanGenerate(m.root))
    BY <1>2 DEF Detected
  <1>5. Line(m) \in Seq(Seq(Characters) \ {<<>>})
    <2> DEFINE text == IF m.cmdline = <<>> THEN GenerateCmdline(m) ELSE m.cmdline
    <2>1. text \in Seq(Characters)
      <3>1. m.cmdline \in Seq(STRING) /\ STRING \subseteq Characters
        BY CharactersAre DEF IsMachine
      <3>2. m.cmdline \in Seq(Characters)
        BY <3>1, SeqLarger
      <3>. QED  BY <3>2, GenerateType
    <2>2. Line(m) = ParseText(text)
      BY DEF Line
    <2> HIDE DEF text
    <2>. QED  BY <1>4, <2>1, <2>2, ParseTextType
  <1>. QED  BY <1>2, <1>3, <1>4, <1>5

(* What validation asks, of the parts of its verdict that the menu rests on. *)
Faults(system, m) ==
  KernelErrors(system, m) \cup RootErrors(system) \cup EncryptionErrors(system)
  \cup RootflagsErrors(system)

(* A kernel that validation accepts: its files are there. *)
LEMMA KernelAccepted ==
  ASSUME NEW m, IsMachine(m), NEW system, KernelErrors(system, m) = {}, NEW k \in ToSet(system.kernels),
         IsInstallation(DOMAIN m.files, k)
  PROVE  /\ k.image \in DOMAIN m.files
         /\ ~k.uki => /\ k.initrds # <<>> /\ ToSet(k.initrds) \subseteq DOMAIN m.files
                      /\ \E i \in 1..Len(k.initrds) : k.initrds[i].name = Initramfs(k.base)
  <1> DEFINE errors(x) ==
        ReportIf(x.image \notin DOMAIN m.files, "kernel.image")
        \cup IF x.uki THEN {}
             ELSE ReportIf(x.initrds = <<>>, "kernel.initrd")
                  \cup ReportIf(~(ToSet(x.initrds) \subseteq DOMAIN m.files), "kernel.module")
                  \cup ReportIf(\A f \in ToSet(x.initrds) : f.name # Initramfs(x.base),
                                "kernel.initramfs")
  <1>1. UNION {errors(system.kernels[i]) : i \in DOMAIN system.kernels} = {}
    BY DEF KernelErrors
  <1>2. PICK i \in DOMAIN system.kernels : k = system.kernels[i]
    BY DEF ToSet
  <1>3. errors(k) = {}
    <2> HIDE DEF errors
    <2>. QED  BY <1>1, <1>2
  <1>4. k.image \in DOMAIN m.files
    BY <1>3 DEF ReportIf
  <1>5. ASSUME ~k.uki
        PROVE  /\ k.initrds # <<>> /\ ToSet(k.initrds) \subseteq DOMAIN m.files
               /\ \E f \in ToSet(k.initrds) : f.name = Initramfs(k.base)
    BY <1>3, <1>5 DEF ReportIf
  <1>6. k.initrds \in Seq(DOMAIN m.files)
    BY DEF IsInstallation
  <1>7. ASSUME NEW f \in ToSet(k.initrds) PROVE \E j \in 1..Len(k.initrds) : k.initrds[j] = f
    BY <1>6 DEF ToSet
  <1>. QED  BY <1>4, <1>5, <1>7

(* The name of an initramfs. *)
LEMMA InitramfsName ==
  ASSUME NEW base \in Seq(STRING)
  PROVE  Initramfs(base)[1] = "initramfs-"
  <1> DEFINE S == STRING \cup {"initramfs-", ".img"}
             h == <<"initramfs-">>
             e == <<".img">>
  <1>1. h \in Seq(S) /\ e \in Seq(S) /\ base \in Seq(S) /\ Len(h) = 1 /\ h[1] = "initramfs-"
    <2>1. h \in Seq(S) /\ e \in Seq(S) /\ Len(h) = 1 /\ h[1] = "initramfs-"
      OBVIOUS
    <2>2. STRING \subseteq S
      OBVIOUS
    <2> HIDE DEF S
    <2>3. base \in Seq(S)
      BY <2>2, SeqLarger
    <2>. QED  BY <2>1, <2>3
  <1> HIDE DEF S, h, e
  <1> DEFINE t == h \o base
  <1>2. t \in Seq(S) /\ Len(t) = 1 + Len(base) /\ t[1] = h[1]
    <2>1. /\ t \in Seq(S) /\ Len(t) = Len(h) + Len(base)
          /\ \A i \in 1..(Len(h) + Len(base)) : t[i] = IF i <= Len(h) THEN h[i] ELSE base[i - Len(h)]
      BY <1>1, ConcatIs
    <2>2. Len(base) \in Nat
      BY <1>1
    <2> HIDE DEF t
    <2>. QED  BY <1>1, <2>1, <2>2
  <1> HIDE DEF t
  <1>3. (t \o e)[1] = t[1]
    <2>1. Len(t) + Len(e) \in Nat /\ 1 \in 1..(Len(t) + Len(e)) /\ 1 <= Len(t)
      BY <1>1, <1>2
    <2>. QED  BY <1>1, <1>2, <2>1, ConcatProperties
  <1>. QED  BY <1>1, <1>2, <1>3 DEF Initramfs, t, h, e

(* A path of the menu is accepted, and has its hash where one is asked for. *)
LEMMA PathAccepted ==
  ASSUME NEW m, IsMachine(m), NEW system, Detected(system, m), NEW f \in DOMAIN m.files,
         NEW hash \in BOOLEAN
  PROVE  /\ Accepted(m, LiminePath(f, hash, system))
         /\ LiminePath(f, hash, system).file = f
         /\ hash /\ system.secureBoot.enforced /\ f \in DOMAIN system.hashes /\ system.hashes[f] # NoHash
              => LiminePath(f, hash, system).hash # NoHash
  <1>1. system.hashes = ResourceHashes(m, system.kernels)
        /\ system.secureBoot.enforced = SecureBootDetected(m)
    BY DetectedIs
  <1> DEFINE p == LiminePath(f, hash, system)
  <1>2. p.file = f /\ p.hash = IF hash /\ system.secureBoot.enforced /\ f \in DOMAIN system.hashes
                               THEN system.hashes[f] ELSE NoHash
    BY DEF LiminePath
  <1>3. ASSUME system.secureBoot.enforced, f \in DOMAIN system.hashes
        PROVE  system.hashes[f] \in {m.files[f], NoHash}
    <2>1. SecureBootDetected(m)
      BY <1>1, <1>3
    <2> DEFINE H == UNION {Hashed(system.kernels[i]) : i \in DOMAIN system.kernels}
    <2>2. system.hashes = [g \in H |-> IF m.secureBoot.hashing THEN m.files[g] ELSE NoHash]
      BY <1>1, <2>1 DEF ResourceHashes
    <2> HIDE DEF H
    <2>. QED  BY <1>3, <2>2
  <1> HIDE DEF p
  <1>4. p.hash # NoHash => p.hash = m.files[f]
    BY <1>2, <1>3
  <1>. QED  BY <1>2, <1>4 DEF Accepted, p

-----------------------------------------------------------------------------
(***************************************************************************)
(* The files of an entry are there, and the root is found by its line.     *)
(***************************************************************************)

(* Nothing that is hashed misses its hash. *)
LEMMA HashesAccepted ==
  ASSUME NEW system, NEW protect, SecureBootErrors(system, protect) = {}, system.secureBoot.enforced,
         NEW k \in ToSet(system.kernels), NEW f \in Hashed(k)
  PROVE  f \in DOMAIN system.hashes /\ system.hashes[f] # NoHash
  <1> DEFINE missing(g) == g \notin DOMAIN system.hashes \/ system.hashes[g] = NoHash
  <1>1. ~ \E i \in DOMAIN system.kernels : \E g \in Hashed(system.kernels[i]) : missing(g)
    BY DEF SecureBootErrors, ReportIf
  <1>2. PICK i \in DOMAIN system.kernels : k = system.kernels[i]
    BY DEF ToSet
  <1>. QED  BY <1>1, <1>2

(* With Secure Boot enforced, a path that is to be hashed has its hash. *)
LEMMA PathHashed ==
  ASSUME NEW system, system.secureBoot.enforced, NEW f \in DOMAIN system.hashes,
         system.hashes[f] # NoHash
  PROVE  LiminePath(f, TRUE, system).hash # NoHash
  BY DEF LiminePath

(* The files of an entry are there, with the hashes that are asked for. *)
LEMMA EntryFiles ==
  ASSUME NEW m, IsMachine(m), NEW system, Detected(system, m), KernelErrors(system, m) = {},
         NEW protect, SecureBootErrors(system, protect) = {}, SecureBootSeen(m),
         NEW k \in ToSet(system.kernels), NEW line
  PROVE  LET entry == Entry(k, system, line) IN
         /\ Accepted(m, entry.path)
         /\ \A i \in DOMAIN entry.modules : Accepted(m, entry.modules[i])
         /\ entry.protocol = "linux" =>
              /\ \E i \in DOMAIN entry.modules : entry.modules[i].file.name[1] = "initramfs-"
              /\ m.secureBoot.enforced =>
                   \A path \in {entry.path} \cup {entry.modules[i] : i \in DOMAIN entry.modules} :
                     path.hash # NoHash
  <1> DEFINE D == DOMAIN m.files
             entry == Entry(k, system, line)
  <1>1. IsInstallation(D, k)
    BY KernelsAre
  <1>2. /\ k.image \in D
        /\ ~k.uki => /\ k.initrds # <<>> /\ ToSet(k.initrds) \subseteq D
                     /\ \E i \in 1..Len(k.initrds) : k.initrds[i].name = Initramfs(k.base)
    BY <1>1, KernelAccepted
  <1>3. k.initrds \in Seq(D) /\ k.base \in Seq(STRING) /\ k.uki \in BOOLEAN
    BY <1>1 DEF IsInstallation
  <1>4. /\ entry.protocol = (IF k.uki THEN "efi" ELSE "linux")
        /\ entry.path = LiminePath(k.image, ~k.uki, system)
        /\ DOMAIN entry.modules = 1..Len(k.initrds)
        /\ \A i \in 1..Len(k.initrds) : entry.modules[i] = LiminePath(k.initrds[i], TRUE, system)
    <2>1. /\ entry.protocol = (IF k.uki THEN "efi" ELSE "linux")
          /\ entry.path = LiminePath(k.image, ~k.uki, system)
          /\ entry.modules = [i \in DOMAIN k.initrds |-> LiminePath(k.initrds[i], TRUE, system)]
      BY DEF Entry
    <2>2. DOMAIN k.initrds = 1..Len(k.initrds)
      BY <1>3
    <2> HIDE DEF entry
    <2>3. /\ DOMAIN entry.modules = 1..Len(k.initrds)
          /\ \A i \in 1..Len(k.initrds) : entry.modules[i] = LiminePath(k.initrds[i], TRUE, system)
      BY <2>1, <2>2
    <2>. QED  BY <2>1, <2>3
  <1> HIDE DEF entry
  <1>5. /\ Accepted(m, entry.path) /\ \A i \in DOMAIN entry.modules : Accepted(m, entry.modules[i])
    <2>1. Accepted(m, LiminePath(k.image, ~k.uki, system))
      BY <1>2, <1>3, PathAccepted
    <2>2. \A i \in 1..Len(k.initrds) : Accepted(m, LiminePath(k.initrds[i], TRUE, system))
      <3>1. \A i \in 1..Len(k.initrds) : k.initrds[i] \in D
        BY <1>3
      <3>. QED  BY <3>1, PathAccepted
    <2>. QED  BY <1>4, <2>1, <2>2
  <1>6. ASSUME ~k.uki PROVE \E i \in DOMAIN entry.modules : entry.modules[i].file.name[1] = "initramfs-"
    <2>1. PICK i \in 1..Len(k.initrds) : k.initrds[i].name = Initramfs(k.base)
      BY <1>2, <1>6
    <2>2. k.initrds[i] \in D
      BY <1>3
    <2>3. entry.modules[i].file = k.initrds[i]
      <3>1. LiminePath(k.initrds[i], TRUE, system).file = k.initrds[i]
        BY DEF LiminePath
      <3>. QED  BY <1>4, <3>1
    <2>4. Initramfs(k.base)[1] = "initramfs-"
      BY <1>3, InitramfsName
    <2>. QED  BY <1>4, <2>1, <2>3, <2>4
  <1>7. ASSUME ~k.uki, m.secureBoot.enforced
        PROVE  /\ entry.path.hash # NoHash /\ \A i \in DOMAIN entry.modules : entry.modules[i].hash # NoHash
    <2>1. system.secureBoot.enforced
      BY <1>7, DetectedIs DEF SecureBootSeen
    <2>2. k.image \in Hashed(k) /\ \A i \in 1..Len(k.initrds) : k.initrds[i] \in Hashed(k)
      BY <1>3, <1>7 DEF Hashed, ToSet
    <2>3. \A f \in Hashed(k) : f \in DOMAIN system.hashes /\ system.hashes[f] # NoHash
      BY <2>1, HashesAccepted
    <2>4. entry.path.hash # NoHash
      <3>1. LiminePath(k.image, TRUE, system).hash # NoHash
        <4>1. k.image \in D /\ k.image \in DOMAIN system.hashes /\ system.hashes[k.image] # NoHash
          BY <1>2, <2>2, <2>3
        <4>. QED  BY <2>1, <4>1, PathHashed
      <3>2. (~k.uki) = TRUE
        BY <1>7
      <3>. QED  BY <1>4, <3>1, <3>2
    <2>5. \A i \in 1..Len(k.initrds) : entry.modules[i].hash # NoHash
      <3> SUFFICES ASSUME NEW i \in 1..Len(k.initrds) PROVE entry.modules[i].hash # NoHash
        OBVIOUS
      <3>1. k.initrds[i] \in D
        BY <1>3
      <3>2. LiminePath(k.initrds[i], TRUE, system).hash # NoHash
        <4>1. k.initrds[i] \in DOMAIN system.hashes /\ system.hashes[k.initrds[i]] # NoHash
          BY <2>2, <2>3
        <4>. QED  BY <2>1, <4>1, PathHashed
      <3>. QED  BY <1>4, <3>2
    <2>. QED  BY <1>4, <2>4, <2>5
  <1>8. entry.protocol = "linux" => ~k.uki
    BY <1>3, <1>4
  <1>. QED  BY <1>5, <1>6, <1>7, <1>8 DEF entry

(* A key that one argument has at most. *)
OnceAtMost(arguments, key) ==
  \A i, j \in DOMAIN arguments : HasValue(arguments[i], key) /\ HasValue(arguments[j], key) => i = j

(* The first value of such a key is the one in force. *)
LEMMA ValueInForce ==
  ASSUME NEW arguments, DOMAIN arguments \subseteq Nat, NEW key, OnceAtMost(arguments, key)
  PROVE  InForce(arguments, key) = Value(arguments, key)
  <1>1. CASE PlacesOf(arguments, key) = {}
    BY <1>1 DEF Value, InForce
  <1>2. CASE PlacesOf(arguments, key) # {}
    <2>1. PICK i \in DOMAIN arguments : HasValue(arguments[i], key)
      BY <1>2 DEF PlacesOf
    <2>2. i \in Nat /\ \A j \in DOMAIN arguments : HasValue(arguments[j], key) => j = i
      BY <2>1 DEF OnceAtMost
    <2>. QED  BY <2>1, <2>2, OnlyPlace
  <1>. QED  BY <1>1, <1>2

(* The root of a line, as the kernel has it, is the one of the machine, and *)
(* it is opened.                                                            *)
SameKeys(a, b, keys) ==
  \A key \in keys : Values(a, key) = Values(b, key) /\ InForce(a, key) = InForce(b, key)

(* The kernel finds the root by a line that validation accepts: it names the *)
(* file system, through the mapping that the line itself sets up.            *)
LEMMA RootIsFound ==
  ASSUME NEW m, IsMachine(m), NEW system, Detected(system, m), RootErrors(system) = {},
         EncryptionErrors(system) = {}, OnceAtMost(Line(m), "root"), MappingMatches(m, Line(m)),
         NotLayered(m), NEW arguments,
         SameKeys(arguments, Line(m), {"root", "cryptdevice", "rd.luks.name"})
  PROVE  RootFound(m, arguments)
  <1> DEFINE line == Line(m)
             r == m.root
             root == InForce(arguments, "root")
  <1>1. /\ system.cmdline = line /\ line \in Seq(Seq(Characters) \ {<<>>})
        /\ system.root = RootInfo(r) /\ system.encrypted = Encrypted(r)
    BY DetectedIs
  <1>2. /\ r.source = <<r.source[1], r.source[2]>>
        /\ RootInfo(r).source = r.source /\ RootInfo(r).uuid = r.uuid
    BY RootIs
  <1>3. root = Value(line, "root")
    <2>1. DOMAIN line \subseteq Nat
      BY <1>1
    <2>. QED  BY <2>1, ValueInForce DEF SameKeys
  <1> HIDE DEF line, r, root
  <1>4. root \in {r.source, <<"UUID", "=", r.uuid>>}
    <2>1. Value(system.cmdline, "root") \in {system.root.source, <<"UUID", "=", system.root.uuid>>}
      BY DEF RootErrors, ReportIf
    <2>. QED  BY <1>1, <1>2, <1>3, <2>1
  <1>5. CASE r.luksUuid = NoText
    BY <1>4, <1>5 DEF RootFound, root, r
  <1>6. CASE r.luksUuid # NoText
    <2>1. Encrypted(r) /\ r.source[1] = MapperDir
      BY <1>6 DEF NotLayered, r
    <2>2. \/ \E v \in Values(line, "cryptdevice") : MappedByCryptdevice(v, system.root)
          \/ \E v \in Values(line, "rd.luks.name") : MappedByName(v, system.root)
      BY <1>1, <2>1 DEF EncryptionErrors, ReportIf
    <2>3. <<r.source[2]>> \in Opened(m, arguments)
      <3>1. CASE \E v \in Values(line, "cryptdevice") : TRUE
        <4>1. PICK v \in Values(line, "cryptdevice") : TRUE
          BY <3>1
        <4>2. IsCryptdevice(v) /\ IsBacking(CryptdeviceSource(v), r) /\ CryptdeviceMapper(v) = <<r.source[2]>>
          BY <4>1 DEF MappingMatches, line, r
        <4>3. v \in Values(arguments, "cryptdevice")
          BY <4>1 DEF SameKeys, line
        <4>. QED  BY <4>2, <4>3 DEF Opened, r
      <3>2. CASE \E v \in Values(line, "rd.luks.name") : TRUE
        <4>1. PICK v \in Values(line, "rd.luks.name") : TRUE
          BY <3>2
        <4>2. v = <<r.luksUuid, "=", r.source[2]>>
          BY <4>1 DEF MappingMatches, line, r
        <4>3. UpTo(v, "=") = <<r.luksUuid>> /\ Beyond(v, "=") = <<r.source[2]>>
          <5>1. r.luksUuid \in Uuids
            BY <1>6, RootIs DEF r
          <5>. QED  BY <4>2, <5>1, NameParts
        <4>4. v \in Values(arguments, "rd.luks.name")
          BY <4>1 DEF SameKeys, line
        <4>. QED  BY <4>3, <4>4 DEF Opened, r
      <3>. QED  BY <2>2, <3>1, <3>2
    <2>4. root = <<"UUID", "=", r.uuid>> \/ root = <<MapperDir, r.source[2]>>
      BY <1>2, <1>4, <2>1
    <2>5. <<MapperDir>> \o <<r.source[2]>> = <<MapperDir, r.source[2]>>
      BY Spelled11
    <2>. QED  BY <1>6, <2>3, <2>4, <2>5 DEF RootFound, root, r
  <1>. QED  BY <1>5, <1>6

-----------------------------------------------------------------------------
(***************************************************************************)
(* The line of a snapshot's entry: rootflags is replaced, and nothing else *)
(* changes.                                                                *)
(***************************************************************************)

(* A value is set: no other key sees it, and it is the only one of its key. *)
LEMMA SetValueIs ==
  ASSUME NEW A, NEW line \in Seq(A), NEW key \in Characters, NEW value \in Seq(Characters),
         Argument(key, value) \in A,
         \A i, j \in DOMAIN line : IsKey(line[i], key) /\ IsKey(line[j], key) => i = j
  PROVE  LET set == SetValue(line, key, value) IN
         /\ set \in Seq(A)
         /\ \A k : k # key => PlacesOf(set, k) = PlacesOf(line, k)
                              /\ \A i \in PlacesOf(line, k) : set[i] = line[i]
         /\ \E p \in DOMAIN set : PlacesOf(set, key) = {p} /\ set[p] = Argument(key, value)
  <1> DEFINE a == Argument(key, value)
             n == Len(line)
             places == {i \in DOMAIN line : IsKey(line[i], key)}
             set == SetValue(line, key, value)
  <1>1. \A k : HasValue(a, k) <=> k = key
    BY ArgumentHas
  <1>2. set = IF places = {} THEN Append(line, a) ELSE [line EXCEPT ![Min(places)] = a]
    BY DEF SetValue, Argument
  <1>3. \A b, k : IsKey(b, key) /\ HasValue(b, k) => k = key
    <2> SUFFICES ASSUME NEW b, NEW k, IsKey(b, key), HasValue(b, k) PROVE k = key
      OBVIOUS
    <2>1. CASE b = <<key>>
      <3>1. Len(b) = 1
        BY <2>1
      <3>. QED  BY <3>1 DEF HasValue
    <2>2. CASE HasValue(b, key)
      BY <2>2 DEF HasValue
    <2>. QED  BY <2>1, <2>2 DEF IsKey
  <1>4. a \in A /\ n \in Nat /\ DOMAIN line = 1..n
    OBVIOUS
  <1>5. \A b : HasValue(b, key) => IsKey(b, key)
    BY DEF IsKey
  <1> HIDE DEF a, set
  <1>6. CASE places = {}
    <2>1. set = Append(line, a)
      BY <1>2, <1>6
    <2>2. /\ set \in Seq(A) /\ DOMAIN set = 1..(n + 1) /\ set[n + 1] = a
          /\ \A i \in 1..n : set[i] = line[i]
      BY <1>4, <2>1
    <2>3. ASSUME NEW k, k # key
          PROVE  PlacesOf(set, k) = PlacesOf(line, k) /\ \A i \in PlacesOf(line, k) : set[i] = line[i]
      <3>1. \A i \in 1..(n + 1) : i \in 1..n \/ i = n + 1
        BY <1>4
      <3>2. \A i \in 1..n : i \in 1..(n + 1)
        BY <1>4
      <3>. QED  BY <1>1, <1>4, <2>2, <2>3, <3>1, <3>2 DEF PlacesOf
    <2>4. PlacesOf(set, key) = {n + 1}
      <3>1. \A i \in 1..(n + 1) : i \in 1..n \/ i = n + 1
        BY <1>4
      <3>2. \A i \in 1..n : ~HasValue(set[i], key)
        BY <1>4, <1>5, <1>6, <2>2
      <3>3. n + 1 \in 1..(n + 1)
        BY <1>4
      <3>. QED  BY <1>1, <2>2, <3>1, <3>2, <3>3 DEF PlacesOf
    <2>5. n + 1 \in DOMAIN set
      BY <1>4, <2>2
    <2>. QED  BY <2>2, <2>3, <2>4, <2>5 DEF set, a
  <1>7. CASE places # {}
    <2>1. PICK p \in DOMAIN line : IsKey(line[p], key)
      BY <1>7
    <2>2. places = {p}
      BY <2>1
    <2>3. Min(places) = p
      BY <1>4, <2>1, <2>2, OnlyOne
    <2>4. set = [line EXCEPT ![p] = a]
      BY <1>2, <1>7, <2>3
    <2>5. /\ set \in Seq(A) /\ DOMAIN set = DOMAIN line /\ set[p] = a
          /\ \A i \in DOMAIN line : i # p => set[i] = line[i]
      BY <1>4, <2>1, <2>4
    <2>6. ASSUME NEW k, k # key
          PROVE  PlacesOf(set, k) = PlacesOf(line, k) /\ \A i \in PlacesOf(line, k) : set[i] = line[i]
      <3>1. ~HasValue(line[p], k) /\ ~HasValue(set[p], k)
        BY <1>1, <1>3, <2>1, <2>5, <2>6
      <3>. QED  BY <2>5, <3>1 DEF PlacesOf
    <2>7. PlacesOf(set, key) = {p}
      <3>1. \A i \in DOMAIN line : i # p => ~HasValue(set[i], key)
        BY <1>5, <2>2, <2>5
      <3>. QED  BY <1>1, <2>1, <2>5, <3>1 DEF PlacesOf
    <2>. QED  BY <2>1, <2>5, <2>6, <2>7 DEF set, a
  <1>. QED  BY <1>6, <1>7

(* The largest of the places in a list. *)
LEMMA MaxIs ==
  ASSUME NEW n \in Nat, NEW S, S \subseteq 1..n, S # {}
  PROVE  Max(S) \in S
  <1> DEFINE T == {n - i : i \in S}
  <1>1. T \in SUBSET Nat /\ T # {}
    <2>1. \A i \in S : n - i \in Nat
      OBVIOUS
    <2>2. PICK i \in S : TRUE
      OBVIOUS
    <2>. QED  BY <2>1, <2>2
  <1>2. Min(T) \in T /\ \A j \in T : Min(T) <= j
    <2> HIDE DEF T
    <2>. QED  BY <1>1, MinIs
  <1>3. PICK x \in S : Min(T) = n - x
    BY <1>2
  <1>4. \A y \in S : x >= y
    <2> SUFFICES ASSUME NEW y \in S PROVE x >= y
      OBVIOUS
    <2>1. n - y \in T
      OBVIOUS
    <2> HIDE DEF T
    <2>2. n - x <= n - y
      BY <1>2, <1>3, <2>1
    <2>. QED  BY <2>2
  <1>. QED  BY <1>4 DEF Max

(* What is looked up in a line with another value of rootflags. *)
LEMMA FlagsSet ==
  ASSUME NEW A, NEW line \in Seq(A), NEW value \in Seq(Characters),
         Argument("rootflags", value) \in A,
         \A i, j \in DOMAIN line : IsKey(line[i], "rootflags") /\ IsKey(line[j], "rootflags") => i = j
  PROVE  LET set == SetValue(line, "rootflags", value) IN
         /\ set \in Seq(A)
         /\ SameKeys(set, line, {"root", "cryptdevice", "rd.luks.name"})
         /\ InForce(set, "rootflags") = value
  <1> DEFINE set == SetValue(line, "rootflags", value)
  <1>0. "rootflags" \in Characters
    <2>1. "rootflags" \in Plain(Characters)
      BY CharactersAre
    <2>. QED  BY <2>1 DEF Plain
  <1>1. /\ set \in Seq(A)
        /\ \A k : k # "rootflags" => PlacesOf(set, k) = PlacesOf(line, k)
                                     /\ \A i \in PlacesOf(line, k) : set[i] = line[i]
        /\ \E p \in DOMAIN set : PlacesOf(set, "rootflags") = {p} /\ set[p] = Argument("rootflags", value)
    BY <1>0, SetValueIs
  <1> HIDE DEF set
  <1>2. ASSUME NEW k, k # "rootflags"
        PROVE  Values(set, k) = Values(line, k) /\ InForce(set, k) = InForce(line, k)
    <2> DEFINE P == PlacesOf(line, k)
    <2>1. PlacesOf(set, k) = P /\ \A i \in P : set[i] = line[i]
      BY <1>1, <1>2
    <2>2. Values(set, k) = Values(line, k)
      <3>1. {ValueOf(set[i]) : i \in P} = {ValueOf(line[i]) : i \in P}
        <4> HIDE DEF P
        <4>. QED  BY <2>1
      <3>. QED  BY <2>1, <3>1 DEF Values
    <2>3. InForce(set, k) = InForce(line, k)
      <3>1. CASE P = {}
        BY <2>1, <3>1 DEF InForce
      <3>2. CASE P # {}
        <4>1. Max(P) \in P
          <5>1. P \subseteq 1..Len(line) /\ Len(line) \in Nat
            BY DEF PlacesOf
          <5> HIDE DEF P
          <5>. QED  BY <3>2, <5>1, MaxIs
        <4>. QED  BY <2>1, <4>1 DEF InForce
      <3>. QED  BY <3>1, <3>2
    <2>. QED  BY <2>2, <2>3
  <1>3. SameKeys(set, line, {"root", "cryptdevice", "rd.luks.name"})
    BY <1>2 DEF SameKeys
  <1>4. InForce(set, "rootflags") = value
    <2>1. PICK p \in DOMAIN set : PlacesOf(set, "rootflags") = {p} /\ set[p] = Argument("rootflags", value)
      BY <1>1
    <2>2. p \in Nat /\ Max({p}) = p
      <3>1. set \in Seq(A)
        BY <1>1
      <3>2. p \in Nat
        BY <2>1, <3>1
      <3>. QED  BY <3>2, OnlyOne
    <2>3. InForce(set, "rootflags") = ValueOf(set[p])
      BY <2>1, <2>2 DEF InForce
    <2>. QED  BY <1>0, <2>1, <2>3, ArgumentHas
  <1>. QED  BY <1>1, <1>3, <1>4 DEF set

-----------------------------------------------------------------------------
(***************************************************************************)
(* What is in a menu.                                                      *)
(***************************************************************************)

(* The kernels of a menu are some that were found. *)
LEMMA MenuKernels ==
  ASSUME NEW K, NEW kernels \in Seq(K), NEW config
  PROVE  SelectKernels(kernels, config) \in Seq(K)
  <1>1. \A S : Filtered(kernels, S) \in Seq(K)
    BY FilteredIs
  <1>2. \A S, b : SortBy(Filtered(kernels, S), b) \in Seq(K)
    BY <1>1, SortByType
  <1>. QED  BY <1>2 DEF SelectKernels

(* The snapshots of a menu are some of those that are listed, the most recent *)
(* first.                                                                     *)
Numbered(T) == \A t \in T : t.number \in Nat

(* The snapshots of a menu are some that snapper has, in descending order.   *)
LEMMA MenuSnapshots ==
  ASSUME NEW T, Numbered(T), NEW snapshots \in Seq(T), NEW config, config[Limit] \in Nat,
         \A i, j \in DOMAIN snapshots : snapshots[i].number = snapshots[j].number => i = j
  PROVE  LET shown == SelectMenuSnapshots(snapshots, config) IN
         /\ shown \in Seq(T)
         /\ \A i, j \in DOMAIN shown : i < j => shown[i].number > shown[j].number
  <1> DEFINE all == ToSet(snapshots)
             before == {p \in all \X all : p[1].number > p[2].number}
             sorted == SortBy(snapshots, before)
             S == {s \in all : s.readOnly \/ config[<<"snapper", "include_read_write">>]}
             kept == Filtered(sorted, S)
             limit == config[Limit]
             shown == SelectMenuSnapshots(snapshots, config)
  <1>1. shown = IF limit = 0 \/ limit >= Len(kept) THEN kept ELSE SubSeq(kept, 1, limit)
    BY DEF SelectMenuSnapshots, Limit
  <1>2. all \subseteq T /\ snapshots \in Seq(all)
    BY DEF ToSet
  <1>3. Transitive(before, all)
    <2> SUFFICES ASSUME NEW x \in all, NEW y \in all, NEW z \in all,
                        <<x, y>> \in before, <<y, z>> \in before
                 PROVE  <<x, z>> \in before
      BY DEF Transitive
    <2>1. x.number \in Nat /\ y.number \in Nat /\ z.number \in Nat
      BY <1>2 DEF Numbered
    <2>2. x.number > y.number /\ y.number > z.number
      OBVIOUS
    <2>3. x.number > z.number
      BY <2>1, <2>2
    <2>. QED  BY <2>3
  <1>4. Comparable(before, snapshots)
    <2> SUFFICES ASSUME NEW i \in 1..Len(snapshots), NEW j \in 1..Len(snapshots), i # j
                 PROVE  <<snapshots[i], snapshots[j]>> \in before \/ <<snapshots[j], snapshots[i]>> \in before
      BY DEF Comparable
    <2>1. snapshots[i] \in all /\ snapshots[j] \in all
      BY <1>2
    <2>2. snapshots[i].number \in Nat /\ snapshots[j].number \in Nat
      BY <1>2, <2>1 DEF Numbered
    <2>3. snapshots[i].number # snapshots[j].number
      OBVIOUS
    <2>. QED  BY <2>1, <2>2, <2>3
  <1> HIDE DEF all, S, shown
  <1>5. InOrder(before, sorted) /\ sorted \in Seq(all)
    <2> HIDE DEF before
    <2>. QED  BY <1>2, <1>3, <1>4, SortByInOrder, SortByType
  <1> HIDE DEF sorted
  <1>6. kept \in Seq(all) /\ InOrder(before, kept)
    <2> HIDE DEF before
    <2>. QED  BY <1>5, FilteredIs
  <1> HIDE DEF kept, limit
  <1>7. limit \in Nat
    BY DEF limit
  <1>8. shown \in Seq(all) /\ InOrder(before, shown)
    <2>1. CASE limit = 0 \/ limit >= Len(kept)
      BY <1>1, <1>6, <2>1
    <2>2. CASE ~(limit = 0 \/ limit >= Len(kept))
      <3>1. shown = SubSeq(kept, 1, limit) /\ limit \in 1..Len(kept)
        BY <1>1, <1>6, <1>7, <2>2
      <3>2. /\ shown \in Seq(all) /\ Len(shown) = limit
            /\ \A i \in 1..limit : shown[i] = kept[i]
        <4>1. \A i \in 1..limit : kept[i] \in all
          BY <1>6, <3>1
        <4>2. /\ SubSeq(kept, 1, limit) \in Seq(all) /\ Len(SubSeq(kept, 1, limit)) = limit
              /\ \A i \in 1..limit : SubSeq(kept, 1, limit)[i] = kept[i]
          BY <1>6, <1>7, <3>1, <4>1
        <4>. QED  BY <3>1, <4>2
      <3>3. InOrder(before, shown)
        <4> SUFFICES ASSUME NEW i \in 1..Len(shown), NEW j \in 1..Len(shown), i < j
                     PROVE  <<shown[i], shown[j]>> \in before
          BY DEF InOrder
        <4>1. i \in 1..Len(kept) /\ j \in 1..Len(kept) /\ i \in 1..limit /\ j \in 1..limit
          BY <1>6, <1>7, <3>1, <3>2
        <4> HIDE DEF before
        <4>2. <<kept[i], kept[j]>> \in before
          BY <1>6, <4>1 DEF InOrder
        <4>. QED  BY <3>2, <4>1, <4>2
      <3>. QED  BY <3>2, <3>3
    <2>. QED  BY <2>1, <2>2
  <1>9. \A i, j \in DOMAIN shown : i < j => shown[i].number > shown[j].number
    <2> SUFFICES ASSUME NEW i \in DOMAIN shown, NEW j \in DOMAIN shown, i < j
                 PROVE  shown[i].number > shown[j].number
      OBVIOUS
    <2>1. <<shown[i], shown[j]>> \in before
      <3>1. DOMAIN shown = 1..Len(shown)
        BY <1>8
      <3> HIDE DEF before
      <3>. QED  BY <1>8, <3>1 DEF InOrder
    <2>. QED  BY <2>1
  <1>10. shown \in Seq(T)
    BY <1>2, <1>8, SeqLarger
  <1>. QED  BY <1>9, <1>10 DEF shown

(* The arguments of a line without escapes are those that the kernel reads. *)
LEMMA LineIsRead ==
  ASSUME NEW line \in Seq(Seq(Characters) \ {<<>>}), NothingEscaped(line)
  PROVE  line \in Seq(KernelRenderable(Characters))
  <1> DEFINE C == Characters
             A == Seq(C) \ {<<>>}
  <1>1. \A i \in 1..Len(line) : line[i] \in KernelRenderable(C)
    <2> SUFFICES ASSUME NEW n \in 1..Len(line) PROVE line[n] \in KernelRenderable(C)
      OBVIOUS
    <2>1. line[n] \in A /\ n \in DOMAIN line
      OBVIOUS
    <2>3. ToSet(line[n]) \cap {Double, Backslash} = {}
      BY <2>1 DEF NothingEscaped
    <2>. QED  BY <2>1, <2>3 DEF KernelRenderable
  <1>2. line \in Seq(A)
    OBVIOUS
  <1> DEFINE K == KernelRenderable(C)
  <1> HIDE DEF A, K
  <1>3. line \in Seq(K)
    BY <1>1, <1>2 DEF K
  <1>. QED  BY <1>3 DEF K

(* The directory of the snapshots is named by one plain word. *)
LEMMA RealSnapshotsAre == RealSnapshots = <<"default">>
  BY DEF RealSnapshots, Default, Flags, Lists

(* What a snapshot is mounted by. *)
LEMMA SnapshotFlags ==
  ASSUME NEW number \in DOMAIN NumberWords
  PROVE  LET flags == <<"subvol", "=">> \o RealSnapshots \o <<"/", NumberWords[number]>> IN
         /\ flags = <<"subvol", "=">> \o (RealSnapshots \o <<"/", NumberWords[number]>>)
         /\ flags \in Seq(Characters) /\ Argument("rootflags", flags) \in KernelRenderable(Characters)
  <1> DEFINE P == Plain(Characters)
             w == NumberWords[number]
             h == <<"subvol", "=">>
             d == <<"default">>
             e == <<"/", w>>
             flags == (h \o d) \o e
  <1>1. {"subvol", "=", "default", "/", "rootflags"} \subseteq P
    BY CharactersAre
  <1>2. w \in P
    BY CharactersAre
  <1> HIDE DEF P, w
  <1>3. h \in Seq(P) /\ d \in Seq(P) /\ e \in Seq(P) /\ <<"rootflags", "=">> \in Seq(P)
    BY <1>1, <1>2
  <1> HIDE DEF h, d, e
  <1>4. flags = h \o (d \o e) /\ flags \in Seq(P)
    <2>1. GroupsLeft(P, h, d, e)
      BY <1>3, Grouped
    <2>2. h \o d \in Seq(P)
      BY <1>3
    <2>. QED  BY <1>3, <2>1, <2>2 DEF GroupsLeft
  <1> HIDE DEF flags
  <1>5. P \subseteq Characters
    BY DEF P, Plain
  <1>6. flags \in Seq(Characters)
    BY <1>4, <1>5, SeqLarger
  <1>7. Argument("rootflags", flags) \in Seq(P) /\ Argument("rootflags", flags) # <<>>
    <2> DEFINE a == <<"rootflags", "=">> \o flags
    <2>1. a \in Seq(P)
      BY <1>3, <1>4
    <2>2. Len(a) = 2 + Len(flags) /\ Len(flags) \in Nat
      <3>1. "rootflags" \in P /\ "=" \in P
        BY <1>1
      <3>. QED  BY <1>4, <3>1, ValueOfIs
    <2>3. a # <<>>
      <3> HIDE DEF a
      <3>. QED  BY <2>1, <2>2
    <2>. QED  BY <2>1, <2>3 DEF Argument
  <1>8. Argument("rootflags", flags) \in KernelRenderable(Characters)
    BY <1>7, PlainArgument DEF P
  <1>. QED  BY <1>4, <1>6, <1>8, RealSnapshotsAre DEF flags, h, d, e, w

-----------------------------------------------------------------------------
(***************************************************************************)
(* The entries of a healthy menu boot.                                     *)
(***************************************************************************)

(* What a healthy verdict rests on. *)
Healthy(m, system, protect) ==
  /\ KernelErrors(system, m) = {} /\ RootErrors(system) = {} /\ EncryptionErrors(system) = {}
  /\ RootflagsErrors(system) = {} /\ SecureBootErrors(system, protect) = {}

(* A key that occurs once has one value. *)
LEMMA OnceNotRepeated ==
  ASSUME NEW line, NothingRepeated(line)
  PROVE  OnceAtMost(line, "root") /\ OnceAtMost(line, "rootflags")
  BY DEF NothingRepeated, OnceAtMost, IsKey

(* An entry of the main menu boots. *)
LEMMA MainEntryBoots ==
  ASSUME NEW m, IsMachine(m), Ordinary(m), NEW system, Detected(system, m), NEW protect,
         Healthy(m, system, protect), NEW k \in ToSet(system.kernels)
  PROVE  EntryBoots(m, Entry(k, system, system.cmdline), m.root.subvolume)
  <1> DEFINE line == system.cmdline
             entry == Entry(k, system, line)
  <1>1. line = Line(m) /\ line \in Seq(Seq(Characters) \ {<<>>}) /\ system.root = RootInfo(m.root)
    BY DetectedIs
  <1>2. /\ NothingRepeated(line) /\ NothingEscaped(line) /\ MappingMatches(m, line) /\ NotLayered(m)
        /\ SecureBootSeen(m)
    BY <1>1 DEF Ordinary
  <1>3. KernelReads(entry.cmdline) = line
    <2>1. line \in Seq(KernelRenderable(Characters)) /\ HasSpecials(Characters)
      BY <1>1, <1>2, LineIsRead, CharactersAre
    <2>2. entry.cmdline = RenderArguments(line)
      BY DEF Entry
    <2>. QED  BY <2>1, <2>2, KernelOfRender
  <1>4. /\ Accepted(m, entry.path)
        /\ \A i \in DOMAIN entry.modules : Accepted(m, entry.modules[i])
        /\ entry.protocol = "linux" =>
             /\ \E i \in DOMAIN entry.modules : entry.modules[i].file.name[1] = "initramfs-"
             /\ m.secureBoot.enforced =>
                  \A path \in {entry.path} \cup {entry.modules[i] : i \in DOMAIN entry.modules} :
                    path.hash # NoHash
    BY <1>2, EntryFiles DEF Healthy
  <1>5. RootFound(m, line)
    <2>1. SameKeys(line, Line(m), {"root", "cryptdevice", "rd.luks.name"})
      BY <1>1 DEF SameKeys
    <2>2. OnceAtMost(Line(m), "root")
      BY <1>1, <1>2, OnceNotRepeated
    <2>. QED  BY <1>1, <1>2, <2>1, <2>2, RootIsFound DEF Healthy
  <1>6. InForce(line, "rootflags") = <<"subvol", "=">> \o m.root.subvolume
    <2>1. Value(line, "rootflags") = <<"subvol", "=">> \o system.root.subvolume
      BY DEF Healthy, RootflagsErrors, ReportIf
    <2>2. system.root.subvolume = m.root.subvolume
      BY <1>1, RootIs
    <2>3. DOMAIN line \subseteq Nat
      BY <1>1
    <2>. QED  BY <1>2, <2>1, <2>2, <2>3, OnceNotRepeated, ValueInForce
  <1> HIDE DEF entry
  <1>7. EntryBoots(m, entry, m.root.subvolume)
    BY <1>3, <1>4, <1>5, <1>6 DEF EntryBoots
  <1>. QED  BY <1>7 DEF entry

(* An entry of a snapshot boots. *)
LEMMA SnapshotEntryBoots ==
  ASSUME NEW m, IsMachine(m), Ordinary(m), NEW system, Detected(system, m), NEW protect,
         Healthy(m, system, protect), NEW k \in ToSet(system.kernels), NEW number \in DOMAIN NumberWords
  PROVE  EntryBoots(m, Entry(k, system, SnapshotCmdline(system.cmdline, RealSnapshots, number)),
                    RealSnapshots \o <<"/", NumberWords[number]>>)
  <1> DEFINE line == system.cmdline
             flags == <<"subvol", "=">> \o RealSnapshots \o <<"/", NumberWords[number]>>
             set == SetValue(line, "rootflags", flags)
             entry == Entry(k, system, set)
             sub == RealSnapshots \o <<"/", NumberWords[number]>>
  <1>1. line = Line(m) /\ line \in Seq(Seq(Characters) \ {<<>>})
    BY DetectedIs
  <1>2. /\ NothingRepeated(line) /\ NothingEscaped(line) /\ MappingMatches(m, line) /\ NotLayered(m)
        /\ SecureBootSeen(m)
    BY <1>1 DEF Ordinary
  <1>3. flags = <<"subvol", "=">> \o sub /\ flags \in Seq(Characters)
        /\ Argument("rootflags", flags) \in KernelRenderable(Characters)
    BY SnapshotFlags
  <1>4. SnapshotCmdline(line, RealSnapshots, number) = set
    BY DEF SnapshotCmdline
  <1> HIDE DEF flags, sub
  <1>5. /\ set \in Seq(KernelRenderable(Characters))
        /\ SameKeys(set, line, {"root", "cryptdevice", "rd.luks.name"})
        /\ InForce(set, "rootflags") = flags
    <2> DEFINE A == KernelRenderable(Characters)
    <2>1. line \in Seq(A)
      BY <1>1, <1>2, LineIsRead
    <2>2. \A i, j \in DOMAIN line : IsKey(line[i], "rootflags") /\ IsKey(line[j], "rootflags") => i = j
      BY <1>2 DEF NothingRepeated
    <2> HIDE DEF A, line
    <2>. QED  BY <1>3, <2>1, <2>2, FlagsSet DEF A
  <1> HIDE DEF set
  <1>6. KernelReads(entry.cmdline) = set
    <2>1. HasSpecials(Characters)
      BY CharactersAre
    <2>2. entry.cmdline = RenderArguments(set)
      BY DEF Entry
    <2>. QED  BY <1>5, <2>1, <2>2, KernelOfRender
  <1>7. /\ Accepted(m, entry.path)
        /\ \A i \in DOMAIN entry.modules : Accepted(m, entry.modules[i])
        /\ entry.protocol = "linux" =>
             /\ \E i \in DOMAIN entry.modules : entry.modules[i].file.name[1] = "initramfs-"
             /\ m.secureBoot.enforced =>
                  \A path \in {entry.path} \cup {entry.modules[i] : i \in DOMAIN entry.modules} :
                    path.hash # NoHash
    <2>1. KernelErrors(system, m) = {} /\ SecureBootErrors(system, protect) = {}
      BY DEF Healthy
    <2>. QED  BY <1>2, <2>1, EntryFiles
  <1>8. RootFound(m, set)
    <2>1. OnceAtMost(Line(m), "root")
      BY <1>1, <1>2, OnceNotRepeated
    <2>. QED  BY <1>1, <1>2, <1>5, <2>1, RootIsFound DEF Healthy
  <1> HIDE DEF entry
  <1>9. EntryBoots(m, entry, sub)
    BY <1>3, <1>5, <1>6, <1>7, <1>8 DEF EntryBoots
  <1>. QED  BY <1>4, <1>9 DEF entry, sub

(* A menu has the entries of some kernels, and of snapshots in descending    *)
(* order.                                                                    *)
IsMenu(menu, system, subvolume, T) ==
  /\ menu.main \in Seq({Entry(k, system, system.cmdline) : k \in ToSet(system.kernels)})
  /\ \A i \in DOMAIN menu.snapshots :
       \E s \in T :
         /\ menu.snapshots[i].number = s.number
         /\ menu.snapshots[i].entries \in
              Seq({Entry(k, system, SnapshotCmdline(system.cmdline, subvolume, s.number)) :
                     k \in ToSet(system.kernels)})
  /\ \A i, j \in DOMAIN menu.snapshots :
       i < j => menu.snapshots[i].number > menu.snapshots[j].number

(* A menu that is generated has the entries of its kernels, for the main     *)
(* subvolume and for each of its snapshots.                                  *)
LEMMA PreviewIs ==
  ASSUME NEW system, system.kernels \in Seq(ToSet(system.kernels)), NEW T, Numbered(T),
         NEW snapshots \in Seq(T), NEW config, config[Limit] \in Nat,
         \A i, j \in DOMAIN snapshots : snapshots[i].number = snapshots[j].number => i = j
  PROVE  IsMenu(Preview(system, snapshots, config), system, config[<<"snapper", "snapshots_subvolume">>], T)
  <1> DEFINE K == ToSet(system.kernels)
             kernels == SelectKernels(system.kernels, config)
             shown == SelectMenuSnapshots(snapshots, config)
             menu == Preview(system, snapshots, config)
             subvolume == config[<<"snapper", "snapshots_subvolume">>]
             entries(line) == [i \in DOMAIN kernels |-> Entry(kernels[i], system, line)]
  <1>1. /\ menu.main = entries(system.cmdline)
        /\ menu.snapshots = [i \in DOMAIN shown |->
                               [number  |-> shown[i].number,
                                entries |-> entries(SnapshotCmdline(system.cmdline, subvolume, shown[i].number))]]
    BY DEF Preview
  <1>2. kernels \in Seq(K)
    <2> HIDE DEF K
    <2>1. system.kernels \in Seq(K)
      BY DEF K
    <2>. QED  BY <2>1, MenuKernels
  <1>3. shown \in Seq(T) /\ \A i, j \in DOMAIN shown : i < j => shown[i].number > shown[j].number
    BY MenuSnapshots
  <1> HIDE DEF K, kernels, shown, menu, subvolume
  <1>4. \A line : entries(line) \in Seq({Entry(k, system, line) : k \in K})
    <2> SUFFICES ASSUME NEW line PROVE entries(line) \in Seq({Entry(k, system, line) : k \in K})
      OBVIOUS
    <2> DEFINE E == {Entry(k, system, line) : k \in K}
    <2>1. \A i \in DOMAIN kernels : Entry(kernels[i], system, line) \in E
      BY <1>2
    <2>2. DOMAIN kernels = 1..Len(kernels) /\ Len(kernels) \in Nat
      BY <1>2
    <2> HIDE DEF E
    <2>3. entries(line) \in Seq(E)
      BY <2>1, <2>2
    <2>. QED  BY <2>3 DEF E
  <1> HIDE DEF entries
  <1>5. DOMAIN menu.snapshots = DOMAIN shown
        /\ \A i \in DOMAIN shown :
             /\ menu.snapshots[i].number = shown[i].number
             /\ menu.snapshots[i].entries = entries(SnapshotCmdline(system.cmdline, subvolume, shown[i].number))
    BY <1>1
  <1>6. \A i \in DOMAIN menu.snapshots :
          \E s \in T :
            /\ menu.snapshots[i].number = s.number
            /\ menu.snapshots[i].entries \in
                 Seq({Entry(k, system, SnapshotCmdline(system.cmdline, subvolume, s.number)) : k \in K})
    <2> SUFFICES ASSUME NEW i \in DOMAIN menu.snapshots
                 PROVE  \E s \in T :
                          /\ menu.snapshots[i].number = s.number
                          /\ menu.snapshots[i].entries \in
                               Seq({Entry(k, system, SnapshotCmdline(system.cmdline, subvolume, s.number)) : k \in K})
      OBVIOUS
    <2>1. shown[i] \in T
      BY <1>3, <1>5
    <2>2. menu.snapshots[i].entries \in
            Seq({Entry(k, system, SnapshotCmdline(system.cmdline, subvolume, shown[i].number)) : k \in K})
      BY <1>4, <1>5
    <2>. QED  BY <1>5, <2>1, <2>2
  <1>7. \A i, j \in DOMAIN menu.snapshots :
          i < j => menu.snapshots[i].number > menu.snapshots[j].number
    BY <1>3, <1>5
  <1>8. menu.main \in Seq({Entry(k, system, system.cmdline) : k \in K})
    BY <1>1, <1>4
  <1>. QED  BY <1>6, <1>7, <1>8 DEF IsMenu, K, menu, subvolume

-----------------------------------------------------------------------------
(***************************************************************************)
(* What a command knows of the machine.                                    *)
(***************************************************************************)

(* The codes of what validation says of a command line. *)
LineCodes == {"kernel.cmdline", "kernel.root", "kernel.encryption", "kernel.rootflags"}

LineErrors(system) ==
  ReportIf(system.cmdline = <<>>, "kernel.cmdline")
  \cup RootErrors(system) \cup EncryptionErrors(system) \cup RootflagsErrors(system)

(* What is in the verdict of validation. *)
Says(errors, system, protect, m) ==
  /\ KernelErrors(system, m) \cup SecureBootErrors(system, protect) \cup LineErrors(system) \subseteq errors
  /\ errors \cap LineCodes \subseteq LineErrors(system)

(* The verdict holds what is found of the kernels, of Secure Boot and of the *)
(* line, and nothing else about the line.                                    *)
LEMMA ValidateSays ==
  ASSUME NEW system, NEW on, NEW shown, NEW protect, NEW m, NEW there
  PROVE  Says(Validate(system, on, shown, protect, m, there), system, protect, m)
  <1> DEFINE errors == Validate(system, on, shown, protect, m, there)
             others ==
               ReportIf(system.root.fstype # "btrfs", "root.filesystem")
               \cup ReportIf(system.root.subvolume = <<>>, "root.subvolume")
               \cup ReportIf(~system.bootMounted, "boot.mount")
               \cup ReportIf(~there, "limine.config")
               \cup ReportIf(~system.generated /\ m.cmdline = <<>>, "kernel.cmdline_file")
               \cup ReportIf(~on, "snapper.subvolume")
             K == KernelErrors(system, m)
             B == SecureBootErrors(system, protect)
             L == LineErrors(system)
             S == SnapshotErrors(shown, m)
  <1>1. errors = ((K \cup B) \cup L) \cup (S \cup others)
    BY DEF Validate, LineErrors
  <1>2. others \cap LineCodes = {}
    BY DEF ReportIf, LineCodes
  <1>3. S \cap LineCodes = {}
    BY DEF SnapshotErrors, ReportIf, LineCodes
  <1>4. B \cap LineCodes = {}
    BY DEF SecureBootErrors, ReportIf, LineCodes
  <1>5. K \cap LineCodes = {}
    <2> DEFINE known == {"kernel.image", "kernel.initrd", "kernel.module", "kernel.initramfs",
                         "kernel.discovery"}
               found(k) ==
                 ReportIf(k.image \notin DOMAIN m.files, "kernel.image")
                 \cup IF k.uki THEN {}
                      ELSE ReportIf(k.initrds = <<>>, "kernel.initrd")
                           \cup ReportIf(~(ToSet(k.initrds) \subseteq DOMAIN m.files), "kernel.module")
                           \cup ReportIf(\A f \in ToSet(k.initrds) : f.name # Initramfs(k.base),
                                         "kernel.initramfs")
    <2>1. \A k : found(k) \subseteq known
      BY DEF ReportIf
    <2>2. K = ReportIf(system.kernels = <<>>, "kernel.discovery")
              \cup UNION {found(system.kernels[i]) : i \in DOMAIN system.kernels}
      BY DEF KernelErrors
    <2>3. ReportIf(system.kernels = <<>>, "kernel.discovery") \subseteq known
      BY DEF ReportIf
    <2>4. known \cap LineCodes = {}
      BY DEF LineCodes
    <2> HIDE DEF found, known, K
    <2>. QED  BY <2>1, <2>2, <2>3, <2>4
  <1> HIDE DEF errors, others, K, B, L, S
  <1>6. (K \cup B) \cup L \subseteq errors /\ errors \cap LineCodes \subseteq L
    BY <1>1, <1>2, <1>3, <1>4, <1>5
  <1>. QED  BY <1>6 DEF Says, errors, K, B, L

(* What a command knows at each step: of the machine that there is, as long *)
(* as nothing changed, and of one that there was otherwise.                 *)
Seen ==
  /\ machine \in Machines
  /\ run.step \in {"idle", "list", "detect", "validate", "conclude"}
  /\ run.step # "idle" =>
       \E m \in Machines : run.config = Loaded[m.config].config /\ (steady => m = machine)
  /\ run.step \in {"detect", "validate", "conclude"} => \E m \in Machines : run.snapshots = m.snapshots
  /\ run.step \in {"validate", "conclude"} =>
       \E m \in Machines : Detected(run.system, m) /\ (steady => m = machine)
  /\ run.step = "conclude" =>
       \E m \in Machines :
         /\ Says(run.errors, run.system, run.config[<<"secure_boot", "protect_config">>], m)
         /\ steady => m = machine

(* The list of snapper holds the snapshots of the machine. *)
LEMMA ListedAre ==
  ASSUME NEW m \in Machines, ~List(SnapperPrints(m.snapshots)).failed
  PROVE  List(SnapperPrints(m.snapshots)).list = m.snapshots
  <1> DEFINE C == Characters
             list == m.snapshots
  <1>1. HasWords(C) /\ STRING \subseteq C
    BY CharactersAre
  <1>2. list \in Seq(SnapshotsOf(STRING))
    BY MachinesAssumption DEF IsMachine, SnapshotsOf
  <1>3. SnapshotsOf(STRING) \subseteq SnapshotsOf(C)
    <2>1. \A d \in Seq(STRING) : d \in Seq(C)
      BY <1>1, SeqLarger
    <2> HIDE DEF C
    <2>. QED  BY <2>1 DEF SnapshotsOf
  <1> HIDE DEF C, list
  <1>4. list \in Seq(SnapshotsOf(C))
    BY <1>2, <1>3, SeqLarger
  <1>5. List(SnapperPrints(list)) = [list |-> list, failed |-> FALSE] \/ List(SnapperPrints(list)).failed
    BY <1>1, <1>4, ListOfPrint
  <1>. QED  BY <1>5 DEF list

(* At first no command runs.                                                 *)
LEMMA SeenInit == Init => Seen
  BY DEF Init, Seen, Idle

(* Every step learns of the machine that there is, and a change of the       *)
(* machine ends what is steady.                                              *)
LEMMA SeenStep ==
  ASSUME Seen, [Next]_vars
  PROVE  Seen'
  <1>1. ASSUME NEW command \in Commands, LoadConfig(command) PROVE Seen'
    <2> DEFINE loaded == Loaded[machine.config]
    <2>1. machine \in Machines /\ machine' = machine /\ steady' = TRUE
      BY <1>1 DEF Seen, LoadConfig
    <2>2. CASE loaded.failed
      <3>1. run' = Idle
        BY <1>1, <2>2 DEF LoadConfig
      <3>2. run'.step = "idle"
        BY <3>1 DEF Idle
      <3>. QED  BY <2>1, <3>2 DEF Seen
    <2>3. CASE ~loaded.failed
      <3>1. run' = [step |-> "list", command |-> command, config |-> loaded.config]
        BY <1>1, <2>3 DEF LoadConfig
      <3>2. run'.step = "list" /\ run'.config = Loaded[machine.config].config
        BY <3>1
      <3>. QED  BY <2>1, <3>2 DEF Seen, Loaded
    <2>. QED  BY <2>2, <2>3
  <1>2. ASSUME ListSnapshots PROVE Seen'
    <2> DEFINE result == List(SnapperPrints(machine.snapshots))
    <2>1. machine \in Machines /\ machine' = machine /\ steady' = steady
      BY <1>2 DEF Seen, ListSnapshots
    <2>2. CASE result.failed
      <3>1. run' = Idle
        BY <1>2, <2>2 DEF ListSnapshots, Fail
      <3>2. run'.step = "idle"
        BY <3>1 DEF Idle
      <3>. QED  BY <2>1, <3>2 DEF Seen
    <2>3. CASE ~result.failed
      <3>1. run' = [step |-> "detect", command |-> run.command, config |-> run.config,
                    snapshots |-> result.list] /\ run.step = "list"
        BY <1>2, <2>3 DEF ListSnapshots
      <3>2. run'.step = "detect" /\ run'.config = run.config /\ run'.snapshots = result.list
        BY <3>1
      <3>3. result.list = machine.snapshots
        BY <2>1, <2>3, ListedAre
      <3>. QED  BY <2>1, <3>1, <3>2, <3>3 DEF Seen, Loaded
    <2>. QED  BY <2>2, <2>3
  <1>3. ASSUME Detect PROVE Seen'
    <2>1. machine \in Machines /\ machine' = machine /\ steady' = steady /\ run.step = "detect"
      BY <1>3 DEF Seen, Detect
    <2>2. PICK system \in {DetectSystem(machine, listing, modules) :
                             listing \in SetToSeqs(DOMAIN machine.files),
                             modules \in SetToSeqs(DOMAIN machine.modules)} :
            IF system.failed THEN Fail
            ELSE run' = [step |-> "validate", command |-> run.command, config |-> run.config,
                         snapshots |-> run.snapshots, system |-> system,
                         snapperOnRoot |-> machine.snapperOnRoot]
      BY <1>3 DEF Detect
    <2>3. PICK listing \in SetToSeqs(DOMAIN machine.files), modules \in SetToSeqs(DOMAIN machine.modules) :
            system = DetectSystem(machine, listing, modules)
      BY <2>2
    <2>4. CASE system.failed
      <3>1. run'.step = "idle"
        BY <2>2, <2>4 DEF Fail, Idle
      <3>. QED  BY <2>1, <3>1 DEF Seen
    <2>5. CASE ~system.failed
      <3>1. /\ run'.step = "validate" /\ run'.config = run.config /\ run'.snapshots = run.snapshots
            /\ run'.system = system
        BY <2>2, <2>5
      <3>2. system.failed \in BOOLEAN
        BY <2>3 DEF DetectSystem
      <3>3. Detected(system, machine)
        BY <2>3, <2>5, <3>2 DEF Detected
      <3>4. /\ \E m \in Machines : run.config = Loaded[m.config].config /\ (steady => m = machine)
            /\ \E m \in Machines : run.snapshots = m.snapshots
        BY <2>1 DEF Seen
      <3>5. /\ \E m \in Machines : run'.config = Loaded[m.config].config /\ (steady' => m = machine')
            /\ \E m \in Machines : run'.snapshots = m.snapshots
        BY <2>1, <3>1, <3>4
      <3>6. \E m \in Machines : Detected(run'.system, m) /\ (steady' => m = machine')
        BY <2>1, <3>1, <3>3
      <3> DEFINE first == \E m \in Machines : run.config = Loaded[m.config].config /\ (steady => m = machine)
                 second == \E m \in Machines : run.snapshots = m.snapshots
                 third == \E m \in Machines : Detected(run.system, m) /\ (steady => m = machine)
      <3>7. first' /\ second' /\ third'
        BY <3>5, <3>6 DEF Loaded
      <3> HIDE DEF first, second, third
      <3>8. machine' \in Machines /\ run'.step = "validate"
        BY <2>1, <3>1
      <3>. QED  BY <3>7, <3>8 DEF Seen, first, second, third
    <2>. QED  BY <2>4, <2>5
  <1>4. ASSUME ValidateSystem PROVE Seen'
    <2> DEFINE protect == run.config[<<"secure_boot", "protect_config">>]
               errors == Validate(run.system, run.snapperOnRoot,
                                  SelectMenuSnapshots(run.snapshots, run.config), protect, machine,
                                  installed # NoMenu)
    <2>1. machine \in Machines /\ machine' = machine /\ steady' = steady /\ run.step = "validate"
      BY <1>4 DEF Seen, ValidateSystem
    <2>2. Says(errors, run.system, protect, machine)
      BY ValidateSays
    <2>3. run' = [step |-> "conclude", command |-> run.command, config |-> run.config,
                  snapshots |-> run.snapshots, system |-> run.system, errors |-> errors]
      BY <1>4 DEF ValidateSystem
    <2> HIDE DEF errors
    <2>4. /\ run'.step = "conclude" /\ run'.config = run.config /\ run'.snapshots = run.snapshots
          /\ run'.system = run.system /\ run'.errors = errors
      BY <2>3
    <2>. QED  BY <2>1, <2>2, <2>4 DEF Seen, Loaded
  <1>5. ASSUME Conclude PROVE Seen'
    <2>1. machine \in Machines /\ machine' = machine /\ run' = Idle
      BY <1>5 DEF Seen, Conclude
    <2>2. run'.step = "idle"
      BY <2>1 DEF Idle
    <2>. QED  BY <2>1, <2>2 DEF Seen
  <1>6. ASSUME Change PROVE Seen'
    <2>1. machine' \in Machines /\ steady' = FALSE /\ run' = run
      BY <1>6 DEF Change
    <2>. QED  BY <2>1 DEF Seen, Loaded
  <1>7. ASSUME RemoveMenu PROVE Seen'
    <2>1. machine' = machine /\ steady' = FALSE /\ run' = run
      BY <1>7 DEF RemoveMenu
    <2>. QED  BY <2>1 DEF Seen, Loaded
  <1>8. ASSUME UNCHANGED vars PROVE Seen'
    BY <1>8 DEF Seen, vars, Loaded
  <1>. QED  BY <1>1, <1>2, <1>3, <1>4, <1>5, <1>6, <1>7, <1>8 DEF Next

(* What a command knows is true. *)
LEMMA SeenAlways == Spec => []Seen
  BY SeenInit, SeenStep, PTL DEF Spec

-----------------------------------------------------------------------------
(***************************************************************************)
(* Generated lines, and what status concludes.                             *)
(***************************************************************************)

(* What a command concludes of a generated line follows from what it knows.  *)
LEMMA GeneratedFromSeen == Seen => GeneratedLineAccepted
  <1> SUFFICES ASSUME Seen, run.step = "conclude", run.system.generated,
                      run.system.root.subvolume # <<>>,
                      ToSet(run.system.root.subvolume) \cap {Space, Single, Double, Backslash} = {},
                      run.system.encrypted => run.system.root.source[1] = MapperDir
               PROVE  run.errors \cap LineCodes = {}
    BY DEF GeneratedLineAccepted, LineCodes
  <1> DEFINE system == run.system
  <1>1. PICK m \in Machines : Detected(system, m)
    BY DEF Seen
  <1>2. IsMachine(m)
    BY MachinesAssumption
  <1>3. PICK n \in Machines :
          Says(run.errors, system, run.config[<<"secure_boot", "protect_config">>], n)
    BY DEF Seen
  <1>4. run.errors \cap LineCodes \subseteq LineErrors(system)
    BY <1>3 DEF Says
  <1> HIDE DEF system
  <1>5. /\ system.cmdline = Line(m) /\ system.root = RootInfo(m.root)
        /\ system.encrypted = Encrypted(m.root) /\ system.generated = (m.cmdline = <<>>)
        /\ system.generated => CanGenerate(m.root)
    BY <1>1, <1>2, DetectedIs
  <1>6. RootInfo(m.root).subvolume = m.root.subvolume /\ RootInfo(m.root).source = m.root.source
    BY <1>2, RootIs
  <1>7. IsGenerated(m) /\ (Encrypted(m.root) => m.root.source[1] = MapperDir) /\ m.cmdline = <<>>
    BY <1>2, <1>5, <1>6 DEF IsGenerated, system
  <1>8. system.cmdline = GeneratedArguments(m)
    <2>1. Line(m) = ParseText(GenerateCmdline(m))
      BY <1>7 DEF Line
    <2>2. ParseText(GenerateCmdline(m)) = GeneratedArguments(m)
      BY <1>7, GeneratedLine
    <2>. QED  BY <1>5, <2>1, <2>2
  <1>9. /\ system.cmdline # <<>> /\ RootErrors(system) = {} /\ EncryptionErrors(system) = {}
        /\ RootflagsErrors(system) = {}
    BY <1>5, <1>7, <1>8, GeneratedIsAccepted
  <1>10. LineErrors(system) = {}
    BY <1>9 DEF LineErrors, ReportIf
  <1>. QED  BY <1>4, <1>10

(* A command line that the program generates is one that validation accepts, *)
(* on every machine and whatever changed while the command ran: of an        *)
(* encrypted root mounted by its mapper, or of a plain one, with either      *)
(* hook, in a subvolume whose name needs no escape                           *)
(* (KernelCommandLineGenerator and ValidationService).                       *)
THEOREM GeneratedLineAcceptedAlways == Spec => []GeneratedLineAccepted
  BY SeenAlways, GeneratedFromSeen, PTL

(* What a step that concludes knows. *)
LEMMA Concluding ==
  ASSUME Seen, run.step = "conclude", run.errors = {}
  PROVE  \E m \in Machines, n \in Machines, o \in Machines, p \in Machines :
           /\ Detected(run.system, m) /\ run.config = Loaded[o.config].config
           /\ run.snapshots = p.snapshots
           /\ KernelErrors(run.system, n) = {}
           /\ Healthy(n, run.system, run.config[<<"secure_boot", "protect_config">>])
           /\ steady => m = machine /\ n = machine /\ o = machine
  <1> DEFINE protect == run.config[<<"secure_boot", "protect_config">>]
  <1>1. PICK m \in Machines : Detected(run.system, m) /\ (steady => m = machine)
    BY DEF Seen
  <1>2. PICK n \in Machines : Says(run.errors, run.system, protect, n) /\ (steady => n = machine)
    BY DEF Seen
  <1>3. PICK o \in Machines : run.config = Loaded[o.config].config /\ (steady => o = machine)
    BY DEF Seen
  <1>4. PICK p \in Machines : run.snapshots = p.snapshots
    BY DEF Seen
  <1>5. KernelErrors(run.system, n) = {} /\ Healthy(n, run.system, protect)
    BY <1>2 DEF Says, Healthy, LineErrors
  <1>. QED  BY <1>1, <1>2, <1>3, <1>4, <1>5

(* The snapshots and the limit that a menu is made from. *)
LEMMA MenuInputs ==
  ASSUME NEW o \in Machines, NEW p \in Machines, NEW config, config = Loaded[o.config].config
  PROVE  /\ config[Limit] \in Nat
         /\ p.snapshots \in Seq(SnapshotsOf(STRING)) /\ Numbered(SnapshotsOf(STRING))
         /\ \A i, j \in DOMAIN p.snapshots : p.snapshots[i].number = p.snapshots[j].number => i = j
  <1>1. o.config \in Seq(ConfigLines)
    BY MachinesAssumption DEF IsMachine, ConfigLines
  <1>2. Loaded[o.config] = Load(o.config)
    BY DEF Loaded
  <1>3. config[Limit] \in Nat
    BY <1>1, <1>2, LoadedLimit
  <1>4. /\ p.snapshots \in Seq(SnapshotsOf(STRING))
        /\ \A i, j \in DOMAIN p.snapshots : p.snapshots[i].number = p.snapshots[j].number => i = j
    BY MachinesAssumption DEF IsMachine, SnapshotsOf
  <1>5. Numbered(SnapshotsOf(STRING))
    <2>1. DOMAIN NumberWords \subseteq Nat
      <3>1. DOMAIN NumberWords = 1..Len(NumberWords)
        BY NumberWordsAre
      <3>. QED  BY <3>1
    <2>. QED  BY <2>1 DEF Numbered, SnapshotsOf
  <1>. QED  BY <1>3, <1>4, <1>5

(* A menu that validation has nothing against boots. *)
LEMMA PreviewBoots ==
  ASSUME NEW m \in Machines, Ordinary(m), NEW system, Detected(system, m), NEW config,
         config = Loaded[m.config].config, NEW protect, Healthy(m, system, protect), NEW p \in Machines
  PROVE  LET menu == Preview(system, p.snapshots, config) IN
         /\ \A i \in DOMAIN menu.main : EntryBoots(m, menu.main[i], m.root.subvolume)
         /\ \A i \in DOMAIN menu.snapshots :
              LET snapshot == menu.snapshots[i] IN
              \A j \in DOMAIN snapshot.entries :
                EntryBoots(m, snapshot.entries[j], RealSnapshots \o <<"/", NumberWords[snapshot.number]>>)
  <1> DEFINE menu == Preview(system, p.snapshots, config)
             K == ToSet(system.kernels)
             T == SnapshotsOf(STRING)
             subvolume == config[<<"snapper", "snapshots_subvolume">>]
  <1>1. IsMachine(m) /\ system.kernels \in Seq(K)
    BY MachinesAssumption, KernelsAre
  <1>2. subvolume = RealSnapshots
    BY DEF Ordinary, SnapshotsConfigured
  <1>3. /\ config[Limit] \in Nat /\ p.snapshots \in Seq(T) /\ Numbered(T)
        /\ \A i, j \in DOMAIN p.snapshots : p.snapshots[i].number = p.snapshots[j].number => i = j
    BY MenuInputs
  <1>4. /\ menu.main \in Seq({Entry(k, system, system.cmdline) : k \in K})
        /\ \A i \in DOMAIN menu.snapshots :
             \E s \in T :
               /\ menu.snapshots[i].number = s.number
               /\ menu.snapshots[i].entries \in
                    Seq({Entry(k, system, SnapshotCmdline(system.cmdline, subvolume, s.number)) : k \in K})
    <2>1. IsMenu(menu, system, subvolume, T)
      <3> HIDE DEF T
      <3>. QED  BY <1>1, <1>3, PreviewIs
    <2>. QED  BY <2>1 DEF IsMenu
  <1> HIDE DEF menu, K, subvolume
  <1>5. ASSUME NEW i \in DOMAIN menu.main PROVE EntryBoots(m, menu.main[i], m.root.subvolume)
    <2> DEFINE E == {Entry(k, system, system.cmdline) : k \in K}
    <2>1. menu.main \in Seq(E)
      BY <1>4
    <2> HIDE DEF E
    <2>2. menu.main[i] \in E
      BY <2>1
    <2>3. PICK k \in K : menu.main[i] = Entry(k, system, system.cmdline)
      BY <2>2 DEF E
    <2>. QED  BY <1>1, <2>3, MainEntryBoots DEF K
  <1>6. ASSUME NEW i \in DOMAIN menu.snapshots, NEW j \in DOMAIN menu.snapshots[i].entries
        PROVE  EntryBoots(m, menu.snapshots[i].entries[j],
                          RealSnapshots \o <<"/", NumberWords[menu.snapshots[i].number]>>)
    <2>1. PICK s \in T :
            /\ menu.snapshots[i].number = s.number
            /\ menu.snapshots[i].entries \in
                 Seq({Entry(k, system, SnapshotCmdline(system.cmdline, subvolume, s.number)) : k \in K})
      BY <1>4
    <2> DEFINE E == {Entry(k, system, SnapshotCmdline(system.cmdline, subvolume, s.number)) : k \in K}
               entries == menu.snapshots[i].entries
    <2>2. entries \in Seq(E) /\ j \in DOMAIN entries
      BY <2>1
    <2> HIDE DEF E, entries
    <2>3. entries[j] \in E
      BY <2>2
    <2>4. PICK k \in K : entries[j] = Entry(k, system, SnapshotCmdline(system.cmdline, subvolume, s.number))
      BY <2>3 DEF E
    <2>5. s.number \in DOMAIN NumberWords
      BY DEF SnapshotsOf
    <2>6. EntryBoots(m, entries[j], RealSnapshots \o <<"/", NumberWords[s.number]>>)
      BY <1>1, <1>2, <2>4, <2>5, SnapshotEntryBoots DEF K
    <2>. QED  BY <2>1, <2>6 DEF entries
  <1>. QED  BY <1>5, <1>6 DEF menu

(* HealthyMenuBoots, once more, over the state that it is about. *)
LEMMA BootsConcluded ==
  ASSUME Seen, Conclude
  PROVE  HealthyMenuBoots'
  <1> DEFINE menu == Preview(run.system, run.snapshots, run.config)
             protect == run.config[<<"secure_boot", "protect_config">>]
  <1> SUFFICES ASSUME answer' = [command |-> "status", code |-> 0], steady', Ordinary(machine')
               PROVE  /\ \A i \in DOMAIN installed'.main :
                           EntryBoots(machine', installed'.main[i], machine'.root.subvolume)
                      /\ \A i \in DOMAIN installed'.snapshots :
                           LET snapshot == installed'.snapshots[i] IN
                           \A j \in DOMAIN snapshot.entries :
                             EntryBoots(machine', snapshot.entries[j],
                                        RealSnapshots \o <<"/", NumberWords[snapshot.number]>>)
    BY DEF HealthyMenuBoots
  <1>1. machine' = machine /\ steady' = steady /\ run.step = "conclude"
    BY DEF Conclude
  <1>2. run.command = "status" /\ run.errors = {} /\ installed' = menu
    <2> DEFINE code == ExitCode(run.command, run.errors,
                                Degraded(run.system, run.snapshots, run.config), menu # installed)
               installs == run.command = "apply" /\ run.errors = {} /\ menu # installed
    <2>1. answer' = [command |-> run.command, code |-> code]
          /\ installed' = IF installs THEN menu ELSE installed
      BY DEF Conclude
    <2>2. run.command = "status" /\ code = 0
      BY <2>1
    <2> HIDE DEF menu
    <2>3. run.errors = {} /\ menu = installed
      BY <2>2 DEF ExitCode
    <2>. QED  BY <2>1, <2>2, <2>3
  <1>3. PICK m \in Machines, n \in Machines, o \in Machines, p \in Machines :
          /\ Detected(run.system, m) /\ run.config = Loaded[o.config].config
          /\ run.snapshots = p.snapshots /\ Healthy(n, run.system, protect)
          /\ steady => m = machine /\ n = machine /\ o = machine
    BY <1>1, <1>2, Concluding
  <1>4. m = machine /\ n = machine /\ o = machine
    BY <1>1, <1>3
  <1>5. Ordinary(machine) /\ machine \in Machines
    BY <1>1, SMTT(30) DEF Seen
  <1>6. /\ \A i \in DOMAIN menu.main : EntryBoots(machine, menu.main[i], machine.root.subvolume)
        /\ \A i \in DOMAIN menu.snapshots :
             LET snapshot == menu.snapshots[i] IN
             \A j \in DOMAIN snapshot.entries :
               EntryBoots(machine, snapshot.entries[j],
                          RealSnapshots \o <<"/", NumberWords[snapshot.number]>>)
    BY <1>3, <1>4, <1>5, PreviewBoots
  <1> HIDE DEF menu
  <1>. QED  BY <1>1, <1>2, <1>6

-----------------------------------------------------------------------------
(***************************************************************************)
(* The theorems about the installed menu.                                  *)
(***************************************************************************)

(* At first nothing was answered.                                            *)
LEMMA BootsInit == Init => HealthyMenuBoots
  <1> SUFFICES ASSUME Init PROVE answer # [command |-> "status", code |-> 0]
    BY DEF HealthyMenuBoots
  <1>1. answer.command = "none"
    BY DEF Init, NoAnswer
  <1>. QED  BY <1>1

(* A step that answers has looked at the machine there is; a change of the   *)
(* machine, the menu or the answer makes the claim empty or carries it over. *)
LEMMA BootsStep ==
  ASSUME Seen, HealthyMenuBoots, [Next]_vars
  PROVE  HealthyMenuBoots'
  <1> DEFINE healthy == answer = [command |-> "status", code |-> 0] /\ steady /\ run = Idle
  <1>0. ~healthy' => HealthyMenuBoots'
    BY DEF HealthyMenuBoots
  <1>1. ASSUME NEW command \in Commands, LoadConfig(command) PROVE ~healthy'
    <2>1. CASE Loaded[machine.config].failed
      <3>1. answer'.code = 1
        BY <1>1, <2>1 DEF LoadConfig
      <3>. QED  BY <3>1
    <2>2. CASE ~Loaded[machine.config].failed
      <3>1. run'.step = "list"
        BY <1>1, <2>2 DEF LoadConfig
      <3>. QED  BY <3>1 DEF Idle
    <2>. QED  BY <2>1, <2>2
  <1>2. ASSUME ListSnapshots PROVE ~healthy'
    <2>1. CASE List(SnapperPrints(machine.snapshots)).failed
      <3>1. answer'.code = 1
        BY <1>2, <2>1 DEF ListSnapshots, Fail
      <3>. QED  BY <3>1
    <2>2. CASE ~List(SnapperPrints(machine.snapshots)).failed
      <3>1. run'.step = "detect"
        BY <1>2, <2>2 DEF ListSnapshots
      <3>. QED  BY <3>1 DEF Idle
    <2>. QED  BY <2>1, <2>2
  <1>3. ASSUME Detect PROVE ~healthy'
    <2>1. answer'.code = 1 \/ run'.step = "validate"
      BY <1>3 DEF Detect, Fail
    <2>. QED  BY <2>1 DEF Idle
  <1>4. ASSUME ValidateSystem PROVE ~healthy'
    <2>1. run'.step = "conclude"
      BY <1>4 DEF ValidateSystem
    <2>. QED  BY <2>1 DEF Idle
  <1>5. ASSUME Conclude PROVE HealthyMenuBoots'
    BY <1>5, BootsConcluded
  <1>6. ASSUME Change \/ RemoveMenu PROVE ~healthy'
    BY <1>6 DEF Change, RemoveMenu
  <1>7. ASSUME UNCHANGED vars PROVE HealthyMenuBoots'
    BY <1>7 DEF HealthyMenuBoots, vars
  <1> HIDE DEF healthy
  <1>. QED  BY <1>0, <1>1, <1>2, <1>3, <1>4, <1>5, <1>6, <1>7 DEF Next

(* When `status` answers that all is well, and nothing changed since it      *)
(* looked, every entry of the installed menu boots on the machine there is:  *)
(* its files are there with the hashes that Secure Boot demands, its line    *)
(* leads the kernel to the root, and it mounts the main subvolume or the     *)
(* snapshot of its title.  It holds of every machine on which Ordinary does  *)
(* (StatusService, ValidationService, MenuService, SystemDetector).          *)
THEOREM HealthyMenuBootsAlways == Spec => []HealthyMenuBoots
  BY SeenAlways, BootsInit, BootsStep, PTL DEF Spec

(* A kernel that validation accepts, on whatever machine, has an initrd or  *)
(* needs none.                                                              *)
LEMMA InitrdsAccepted ==
  ASSUME NEW m, NEW system, KernelErrors(system, m) = {}, NEW k \in ToSet(system.kernels), ~k.uki
  PROVE  k.initrds # <<>>
  <1> DEFINE errors(x) ==
        ReportIf(x.image \notin DOMAIN m.files, "kernel.image")
        \cup IF x.uki THEN {}
             ELSE ReportIf(x.initrds = <<>>, "kernel.initrd")
                  \cup ReportIf(~(ToSet(x.initrds) \subseteq DOMAIN m.files), "kernel.module")
                  \cup ReportIf(\A f \in ToSet(x.initrds) : f.name # Initramfs(x.base),
                                "kernel.initramfs")
  <1>1. UNION {errors(system.kernels[i]) : i \in DOMAIN system.kernels} = {}
    BY DEF KernelErrors
  <1>2. PICK i \in DOMAIN system.kernels : k = system.kernels[i]
    BY DEF ToSet
  <1>3. errors(k) = {}
    <2> HIDE DEF errors
    <2>. QED  BY <1>1, <1>2
  <1>. QED  BY <1>3 DEF ReportIf

(* The shape of an entry. *)
LEMMA EntryShape ==
  ASSUME NEW D, NEW k, IsInstallation(D, k), ~k.uki => k.initrds # <<>>, NEW system, NEW line
  PROVE  LET entry == Entry(k, system, line) IN (entry.protocol = "efi") <=> (entry.modules = <<>>)
  <1> DEFINE entry == Entry(k, system, line)
  <1>1. /\ entry.protocol = (IF k.uki THEN "efi" ELSE "linux")
        /\ entry.modules = [i \in DOMAIN k.initrds |-> LiminePath(k.initrds[i], TRUE, system)]
    BY DEF Entry
  <1>2. k.initrds \in Seq(D) /\ k.uki \in BOOLEAN /\ (k.uki <=> k.initrds = <<>>)
    BY DEF IsInstallation
  <1> HIDE DEF entry
  <1> DEFINE s == k.initrds
             t == [i \in DOMAIN s |-> LiminePath(s[i], TRUE, system)]
  <1>3. s \in Seq(D)
    BY <1>2
  <1>4. DOMAIN t = DOMAIN s
    OBVIOUS
  <1>5. t = <<>> <=> s = <<>>
    <2>1. s = <<>> => t = <<>>
      <3> SUFFICES ASSUME s = <<>> PROVE t = <<>>
        OBVIOUS
      <3>1. DOMAIN t = {}
        BY <1>4
      <3>2. t = [i \in {} |-> LiminePath(s[i], TRUE, system)]
        BY <3>1
      <3>3. <<>> = [i \in {} |-> LiminePath(s[i], TRUE, system)]
        OBVIOUS
      <3>. QED  BY <3>2, <3>3
    <2>2. t = <<>> => s = <<>>
      <3> HIDE DEF s, t
      <3> SUFFICES ASSUME t = <<>> PROVE s = <<>>
        OBVIOUS
      <3>1. DOMAIN t = {}
        OBVIOUS
      <3>. QED  BY <3>1, <1>3, <1>4
    <2>. QED  BY <2>1, <2>2
  <1>. QED  BY <1>1, <1>2, <1>5 DEF entry

(* A menu that is generated has the shape of one. *)
LEMMA MenuShape ==
  ASSUME NEW D, NEW system, \A k \in ToSet(system.kernels) : IsInstallation(D, k),
         NEW m, KernelErrors(system, m) = {}, NEW subvolume, NEW T, NEW menu,
         IsMenu(menu, system, subvolume, T)
  PROVE  MenuOK(menu)
  <1> DEFINE K == ToSet(system.kernels)
             fine(e) == (e.protocol = "efi") <=> (e.modules = <<>>)
  <1>1. \A k \in K : \A line : fine(Entry(k, system, line))
    <2> SUFFICES ASSUME NEW k \in K, NEW line PROVE fine(Entry(k, system, line))
      OBVIOUS
    <2>1. IsInstallation(D, k) /\ (~k.uki => k.initrds # <<>>)
      BY InitrdsAccepted
    <2>. QED  BY <2>1, EntryShape
  <1> HIDE DEF fine, K
  <1>2. \A line : \A entries \in Seq({Entry(k, system, line) : k \in K}) : \A e \in ToSet(entries) : fine(e)
    <2> SUFFICES ASSUME NEW line, NEW entries \in Seq({Entry(k, system, line) : k \in K}),
                        NEW e \in ToSet(entries)
                 PROVE  fine(e)
      OBVIOUS
    <2> DEFINE E == {Entry(k, system, line) : k \in K}
    <2>1. entries \in Seq(E)
      OBVIOUS
    <2> HIDE DEF E
    <2>2. e \in E
      BY <2>1 DEF ToSet
    <2>3. PICK k \in K : e = Entry(k, system, line)
      BY <2>2 DEF E
    <2>. QED  BY <1>1, <2>3
  <1>3. \A e \in ToSet(menu.main) : fine(e)
    <2>1. menu.main \in Seq({Entry(k, system, system.cmdline) : k \in K})
      BY DEF IsMenu, K
    <2>. QED  BY <1>2, <2>1
  <1>4. ASSUME NEW i \in DOMAIN menu.snapshots, NEW e \in ToSet(menu.snapshots[i].entries) PROVE fine(e)
    <2>1. PICK s \in T :
            menu.snapshots[i].entries \in
              Seq({Entry(k, system, SnapshotCmdline(system.cmdline, subvolume, s.number)) : k \in K})
      BY DEF IsMenu, K
    <2>. QED  BY <1>2, <1>4, <2>1
  <1>5. \A i, j \in DOMAIN menu.snapshots :
          i < j => menu.snapshots[i].number > menu.snapshots[j].number
    BY DEF IsMenu
  <1>. QED  BY <1>3, <1>4, <1>5 DEF MenuOK, fine

(* The menu that a command concludes with has its shape.                     *)
LEMMA MenuConcluded ==
  ASSUME Seen, run.step = "conclude", run.errors = {}
  PROVE  MenuOK(Preview(run.system, run.snapshots, run.config))
  <1>1. PICK m \in Machines, n \in Machines, o \in Machines, p \in Machines :
          /\ Detected(run.system, m) /\ run.config = Loaded[o.config].config
          /\ run.snapshots = p.snapshots /\ KernelErrors(run.system, n) = {}
    BY Concluding
  <1> DEFINE T == SnapshotsOf(STRING)
             menu == Preview(run.system, p.snapshots, run.config)
             subvolume == run.config[<<"snapper", "snapshots_subvolume">>]
  <1>2. /\ run.system.kernels \in Seq(ToSet(run.system.kernels))
        /\ \A k \in ToSet(run.system.kernels) : IsInstallation(DOMAIN m.files, k)
    BY <1>1, MachinesAssumption, KernelsAre
  <1>3. /\ run.config[Limit] \in Nat /\ p.snapshots \in Seq(T) /\ Numbered(T)
        /\ \A i, j \in DOMAIN p.snapshots : p.snapshots[i].number = p.snapshots[j].number => i = j
    BY <1>1, MenuInputs
  <1> HIDE DEF T
  <1>4. IsMenu(menu, run.system, subvolume, T)
    BY <1>2, <1>3, PreviewIs
  <1> HIDE DEF menu, subvolume
  <1>5. MenuOK(menu)
    BY <1>1, <1>2, <1>4, MenuShape
  <1>. QED  BY <1>1, <1>5 DEF menu

(* The variables have their types, and an installed menu its shape. *)
LEMMA TypesInit == Init => TypeOK
  <1> SUFFICES ASSUME Init PROVE TypeOK
    OBVIOUS
  <1>1. changes \in 0..MaxChanges /\ runs \in 0..MaxRuns /\ answer.code \in 0..3
    BY GenerationAssumption DEF Init, NoAnswer
  <1>2. installed \in {NoMenu, OtherMenu} /\ machine \in Machines /\ steady \in BOOLEAN
    BY DEF Init
  <1>3. run.step = "idle" /\ said = "nothing"
    BY DEF Init, Idle
  <1>. QED  BY <1>1, <1>2, <1>3 DEF TypeOK

(* Every step keeps the types.                                               *)
LEMMA TypesStep ==
  ASSUME Seen, TypeOK, [Next]_vars
  PROVE  TypeOK'
  <1>0. Seen'
    BY SeenStep
  <1>1. machine' \in Machines /\ run'.step \in {"idle", "list", "detect", "validate", "conclude"}
    BY <1>0 DEF Seen
  <1> DEFINE kept == installed' = installed /\ said' = said /\ changes' = changes
             others == /\ installed' \in {NoMenu, OtherMenu} \/ MenuOK(installed')
                       /\ answer'.code \in 0..3
                       /\ said' \in {"nothing", "invalid", "pending", "current"}
                       /\ steady' \in BOOLEAN /\ changes' \in 0..MaxChanges /\ runs' \in 0..MaxRuns
  <1>2. ASSUME NEW command \in Commands, LoadConfig(command) PROVE others
    <2>1. answer'.code \in {0, 1}
      BY <1>2 DEF LoadConfig, NoAnswer
    <2>2. runs' \in 0..MaxRuns
      BY <1>2, GenerationAssumption DEF TypeOK, LoadConfig
    <2>. QED  BY <1>2, <2>1, <2>2 DEF TypeOK, LoadConfig
  <1>3. ASSUME ListSnapshots \/ Detect PROVE others
    <2>1. answer' = answer \/ answer'.code = 1
      BY <1>3 DEF ListSnapshots, Detect, Fail
    <2>. QED  BY <1>3, <2>1 DEF TypeOK, ListSnapshots, Detect
  <1>4. ASSUME ValidateSystem PROVE others
    BY <1>4 DEF TypeOK, ValidateSystem
  <1>5. ASSUME Conclude PROVE others
    <2> DEFINE menu == Preview(run.system, run.snapshots, run.config)
               installs == run.command = "apply" /\ run.errors = {} /\ menu # installed
    <2>1. installed' = IF installs THEN menu ELSE installed
      BY <1>5 DEF Conclude
    <2>2. installs => MenuOK(menu)
      BY <1>5, MenuConcluded DEF Conclude
    <2> HIDE DEF menu
    <2>3. installed' \in {NoMenu, OtherMenu} \/ MenuOK(installed')
      BY <2>1, <2>2 DEF TypeOK
    <2>4. answer'.code \in 0..3
      BY <1>5 DEF Conclude, ExitCode
    <2>5. said' \in {"nothing", "invalid", "pending", "current"}
      BY <1>5 DEF Conclude
    <2>. QED  BY <1>5, <2>3, <2>4, <2>5 DEF Conclude, TypeOK
  <1>6. ASSUME Change \/ RemoveMenu PROVE others
    <2>1. changes' \in 0..MaxChanges
      BY <1>6, GenerationAssumption DEF TypeOK, Change, RemoveMenu
    <2>. QED  BY <1>6, <2>1 DEF TypeOK, Change, RemoveMenu
  <1>7. ASSUME UNCHANGED vars PROVE others
    BY <1>7 DEF TypeOK, vars
  <1>8. others
    <2> HIDE DEF others
    <2>. QED  BY <1>2, <1>3, <1>4, <1>5, <1>6, <1>7 DEF Next
  <1>. QED  BY <1>1, <1>8 DEF TypeOK

(* The variables keep their types; above all, whatever menu is installed has *)
(* the shape of one: modules with every kernel that is not a unified image,  *)
(* and the snapshots in descending order (MenuService).                      *)
THEOREM GenerationTypeOK == Spec => []TypeOK
  BY SeenAlways, TypesInit, TypesStep, PTL DEF Spec

-----------------------------------------------------------------------------
(***************************************************************************)
(* The elements of a sequence, filtered, sorted and in two orders.         *)
(***************************************************************************)

(* All elements of a sequence are different. *)
NoneTwice(s) == \A i, j \in 1..Len(s) : i # j => s[i] # s[j]

(* The elements of a sequence with one more. *)
LEMMA ElementsMore ==
  ASSUME NEW D, NEW t \in Seq(D), NEW d \in D
  PROVE  /\ ToSet(t \o <<d>>) = ToSet(t) \cup {d}
         /\ NoneTwice(t \o <<d>>) <=> NoneTwice(t) /\ d \notin ToSet(t)
  <1> DEFINE u == t \o <<d>>
             n == Len(t)
  <1>1. n \in Nat /\ Len(u) = n + 1 /\ DOMAIN t = 1..n /\ DOMAIN u = 1..(n + 1)
    OBVIOUS
  <1>2. u[n + 1] = d /\ \A i \in 1..n : u[i] = t[i]
    OBVIOUS
  <1>3. ToSet(t) = {t[i] : i \in 1..n} /\ ToSet(u) = {u[i] : i \in 1..(n + 1)}
    BY <1>1 DEF ToSet
  <1> HIDE DEF u, n
  <1>4. ToSet(u) = ToSet(t) \cup {d}
    <2>1. ASSUME NEW x \in ToSet(u) PROVE x \in ToSet(t) \cup {d}
      <3>1. PICK i \in 1..(n + 1) : x = u[i]
        BY <2>1, <1>3
      <3>2. i = n + 1 \/ i \in 1..n
        BY <1>1
      <3>. QED  BY <3>1, <3>2, <1>2, <1>3
    <2>2. ASSUME NEW x \in ToSet(t) \cup {d} PROVE x \in ToSet(u)
      <3>1. CASE x = d
        <4>1. n + 1 \in 1..(n + 1)
          BY <1>1
        <4>. QED  BY <3>1, <4>1, <1>2, <1>3
      <3>2. CASE x \in ToSet(t)
        <4>1. PICK i \in 1..n : x = t[i]
          BY <3>2, <1>3
        <4>2. i \in 1..(n + 1)
          BY <1>1
        <4>. QED  BY <4>1, <4>2, <1>2, <1>3
      <3>. QED  BY <2>2, <3>1, <3>2
    <2>. QED  BY <2>1, <2>2
  <1>5. ASSUME NoneTwice(u) PROVE NoneTwice(t) /\ d \notin ToSet(t)
    <2>1. \A i, j \in 1..(n + 1) : i # j => u[i] # u[j]
      BY <1>5, <1>1 DEF NoneTwice
    <2>2. \A i, j \in 1..n : i # j => t[i] # t[j]
      BY <2>1, <1>1, <1>2
    <2>3. \A i \in 1..n : t[i] # d
      BY <2>1, <1>1, <1>2
    <2>. QED  BY <2>2, <2>3, <1>3 DEF NoneTwice, n
  <1>6. ASSUME NoneTwice(t), d \notin ToSet(t) PROVE NoneTwice(u)
    <2>1. \A i, j \in 1..n : i # j => t[i] # t[j]
      BY <1>6 DEF NoneTwice, n
    <2>2. \A i \in 1..n : t[i] # d
      BY <1>6, <1>3
    <2>3. ASSUME NEW i \in 1..(n + 1), NEW j \in 1..(n + 1), i # j PROVE u[i] # u[j]
      <3>1. (i \in 1..n \/ i = n + 1) /\ (j \in 1..n \/ j = n + 1)
        BY <1>1
      <3>. QED  BY <3>1, <2>1, <2>2, <2>3, <1>2
    <2>. QED  BY <2>3, <1>1 DEF NoneTwice
  <1>. QED  BY <1>4, <1>5, <1>6 DEF u

(* The elements of the empty sequence. *)
LEMMA ElementsNone == ToSet(<<>>) = {} /\ NoneTwice(<<>>)
  <1>1. DOMAIN <<>> = {} /\ 1..Len(<<>>) = {}
    OBVIOUS
  <1>. QED  BY <1>1 DEF ToSet, NoneTwice

(* Filtering keeps the elements that are in the set, and leaves none twice.  *)
LEMMA FilteredElements ==
  ASSUME NEW D, NEW S, NEW text \in Seq(D)
  PROVE  /\ ToSet(Filtered(text, S)) = ToSet(text) \cap S
         /\ NoneTwice(text) => NoneTwice(Filtered(text, S))
  <1> DEFINE good(t) == /\ ToSet(Filtered(t, S)) = ToSet(t) \cap S
                        /\ NoneTwice(t) => NoneTwice(Filtered(t, S))
             Q == {t \in Seq(D) : good(t)}
  <1>1. <<>> \in Q
    <2>1. <<>> \in Seq(D)
      OBVIOUS
    <2>. QED  BY <2>1, FilteredEmpty, ElementsNone
  <1>2. ASSUME NEW t \in Q, NEW d \in D PROVE t \o <<d>> \in Q
    <2> DEFINE u == t \o <<d>>
               f == Filtered(t, S)
    <2>1. t \in Seq(D) /\ good(t) /\ u \in Seq(D)
      OBVIOUS
    <2>2. f \in Seq(D) /\ Filtered(u, S) = IF d \in S THEN Append(f, d) ELSE f
      BY <2>1, FilteredNext
    <2>3. ToSet(u) = ToSet(t) \cup {d} /\ (NoneTwice(u) <=> NoneTwice(t) /\ d \notin ToSet(t))
      BY <2>1, ElementsMore
    <2>4. ToSet(f \o <<d>>) = ToSet(f) \cup {d} /\ (NoneTwice(f \o <<d>>) <=> NoneTwice(f) /\ d \notin ToSet(f))
      BY <2>2, ElementsMore
    <2>5. Append(f, d) = f \o <<d>>
      BY <2>2
    <2>6. ToSet(f) = ToSet(t) \cap S /\ (NoneTwice(t) => NoneTwice(f))
      BY <2>1
    <2> HIDE DEF Q, f, u
    <2>7. good(u)
      <3>1. CASE d \in S
        BY <3>1, <2>2, <2>3, <2>4, <2>5, <2>6
      <3>2. CASE d \notin S
        BY <3>2, <2>2, <2>3, <2>6
      <3>. QED  BY <3>1, <3>2
    <2>. QED  BY <2>1, <2>7 DEF Q, u
  <1> HIDE DEF Q
  <1>3. Q = Seq(D)
    <2>1. Q \subseteq Seq(D)
      BY DEF Q
    <2>. QED  BY <1>1, <1>2, <2>1, SeqInduction
  <1>. QED  BY <1>3 DEF Q

(* The last element of a sequence in order comes after all others. *)
LEMMA LastInOrder ==
  ASSUME NEW D, NEW R, NEW t \in Seq(D), NEW d \in D, InOrder(R, t \o <<d>>)
  PROVE  InOrder(R, t) /\ \A x \in ToSet(t) : <<x, d>> \in R
  <1> DEFINE u == t \o <<d>>
             n == Len(t)
  <1>1. n \in Nat /\ Len(u) = n + 1 /\ DOMAIN t = 1..n
    OBVIOUS
  <1>2. u[n + 1] = d /\ \A i \in 1..n : u[i] = t[i]
    OBVIOUS
  <1>3. \A i, j \in 1..(n + 1) : i < j => <<u[i], u[j]>> \in R
    BY <1>1 DEF InOrder
  <1>4. ToSet(t) = {t[i] : i \in 1..n}
    BY <1>1 DEF ToSet
  <1> HIDE DEF u
  <1>5. \A i, j \in 1..n : i < j => <<t[i], t[j]>> \in R
    BY <1>1, <1>2, <1>3
  <1>6. \A i \in 1..n : <<t[i], d>> \in R
    BY <1>1, <1>2, <1>3
  <1>. QED  BY <1>4, <1>5, <1>6 DEF InOrder

(* Sets that are the same with something that is in neither. *)
LEMMA SameWithout ==
  ASSUME NEW X, NEW Y, NEW e, X \cup {e} = Y \cup {e}, e \notin X, e \notin Y
  PROVE  X = Y
  <1>1. \A x : x \in X \cup {e} <=> x \in Y \cup {e}
    OBVIOUS
  <1>2. \A x : x \in X <=> x \in Y
    BY <1>1
  <1>. QED  BY <1>2

(* Two sequences of the same elements in the same order are the same, if     *)
(* nothing comes both before and after something else.                       *)
LEMMA OrderUnique ==
  ASSUME NEW D, NEW R, NEW s \in Seq(D), NEW t \in Seq(D),
         \A x, y \in D : <<x, y>> \in R => <<y, x>> \notin R,
         InOrder(R, s), InOrder(R, t), ToSet(s) = ToSet(t)
  PROVE  s = t
  <1> DEFINE good(p) == \A q \in Seq(D) : InOrder(R, p) /\ InOrder(R, q) /\ ToSet(p) = ToSet(q) => p = q
             Q == {p \in Seq(D) : good(p)}
  <1>1. <<>> \in Q
    <2>1. <<>> \in Seq(D)
      OBVIOUS
    <2>2. ASSUME NEW q \in Seq(D), ToSet(q) = {} PROVE q = <<>>
      <3>1. DOMAIN q = 1..Len(q) /\ Len(q) \in Nat
        OBVIOUS
      <3>2. \A i \in 1..Len(q) : q[i] \in ToSet(q)
        BY <3>1 DEF ToSet
      <3>3. Len(q) = 0
        BY <3>1, <3>2, <2>2
      <3>. QED  BY <3>3, EmptySeq
    <2>. QED  BY <2>1, <2>2, ElementsNone
  <1>2. ASSUME NEW p \in Q, NEW d \in D PROVE p \o <<d>> \in Q
    <2> DEFINE u == p \o <<d>>
    <2>1. p \in Seq(D) /\ good(p) /\ u \in Seq(D)
      OBVIOUS
    <2>2. ASSUME NEW q \in Seq(D), InOrder(R, u), InOrder(R, q), ToSet(u) = ToSet(q) PROVE u = q
      <3>1. ToSet(u) = ToSet(p) \cup {d}
        BY <2>1, ElementsMore
      <3>2. q # <<>>
        BY <3>1, <2>2, ElementsNone
      <3>3. PICK r \in Seq(D), e \in D : q = Append(r, e)
        BY <3>2, SequenceEmptyOrAppend
      <3>4. q = r \o <<e>>
        BY <3>3
      <3>5. ToSet(q) = ToSet(r) \cup {e}
        BY <3>4, ElementsMore
      <3>6. InOrder(R, p) /\ \A x \in ToSet(p) : <<x, d>> \in R
        BY <2>1, <2>2, LastInOrder
      <3>7. InOrder(R, r) /\ \A x \in ToSet(r) : <<x, e>> \in R
        BY <3>4, <2>2, LastInOrder
      <3>8. ToSet(p) \subseteq D /\ ToSet(r) \subseteq D
        BY <2>1 DEF ToSet
      <3>9. d = e
        BY <3>1, <3>5, <3>6, <3>7, <3>8, <2>2
      <3>10. d \notin ToSet(p) /\ e \notin ToSet(r)
        BY <3>6, <3>7
      <3>11. ToSet(p) = ToSet(r)
        <4>1. ToSet(p) \cup {d} = ToSet(r) \cup {d}
          BY <3>1, <3>5, <3>9, <2>2
        <4>2. d \notin ToSet(p) /\ d \notin ToSet(r)
          BY <3>9, <3>10
        <4>. QED  BY <4>1, <4>2, SameWithout
      <3>12. p = r
        BY <3>6, <3>7, <3>11, <2>1
      <3>. QED  BY <3>12, <3>4, <3>9
    <2>. QED  BY <2>1, <2>2
  <1> HIDE DEF Q
  <1>3. Q = Seq(D)
    <2>1. Q \subseteq Seq(D)
      BY DEF Q
    <2>. QED  BY <1>1, <1>2, <2>1, SeqInduction
  <1>. QED  BY <1>3 DEF Q

(* An order of a finite set has each element once. *)
LEMMA ListingHas ==
  ASSUME NEW S, IsFiniteSet(S), NEW listing \in SetToSeqs(S)
  PROVE  listing \in Seq(S) /\ NoneTwice(listing) /\ ToSet(listing) = S
  <1> DEFINE n == Cardinality(S)
  <1>1. n \in Nat /\ ExistsBijection(1..n, S)
    BY FS_CardinalityType
  <1>2. listing \in [1..n -> S] /\ \A i, j \in 1..n : i # j => listing[i] # listing[j]
    BY DEF SetToSeqs
  <1>3. listing \in Seq(S) /\ Len(listing) = n /\ DOMAIN listing = 1..n
    BY <1>1, <1>2
  <1>4. IsFiniteSet(1..n) /\ Cardinality(1..n) = n
    BY <1>1, FS_Interval
  <1>5. listing \in Injection(1..n, S)
    BY <1>2 DEF Injection, IsInjective
  <1>6. listing \in Surjection(1..n, S)
    BY <1>4, <1>5, FS_Injection
  <1>7. \A x \in S : \E i \in 1..n : listing[i] = x
    BY <1>6 DEF Surjection
  <1>8. ToSet(listing) = {listing[i] : i \in 1..n}
    BY <1>3 DEF ToSet
  <1>9. ToSet(listing) = S
    BY <1>2, <1>7, <1>8
  <1>. QED  BY <1>2, <1>3, <1>9 DEF NoneTwice

(* The sequence of the only element of a set, if there is one. *)
One(X) == IF X = {} THEN <<>> ELSE <<CHOOSE x \in X : TRUE>>

(* Of elements of which one is left, it is the only one. *)
LEMMA FilteredOne ==
  ASSUME NEW D, NEW T, NEW text \in Seq(D), NoneTwice(text),
         \A x, y \in ToSet(text) \cap T : x = y
  PROVE  Filtered(text, T) = One(ToSet(text) \cap T)
  <1> DEFINE f == Filtered(text, T)
             X == ToSet(text) \cap T
  <1>1. f \in Seq(D) /\ ToSet(f) = X /\ NoneTwice(f)
    BY FilteredIs, FilteredElements
  <1>2. \A x, y \in X : x = y
    OBVIOUS
  <1> HIDE DEF f, X
  <1>3. Len(f) \in Nat /\ DOMAIN f = 1..Len(f) /\ \A i \in 1..Len(f) : f[i] \in X
    BY <1>1 DEF ToSet
  <1>4. Len(f) < 2
    <2>1. ASSUME Len(f) >= 2 PROVE FALSE
      <3>1. 1 \in 1..Len(f) /\ 2 \in 1..Len(f)
        BY <1>3, <2>1
      <3>. QED  BY <3>1, <1>1, <1>2, <1>3 DEF NoneTwice
    <2>. QED  BY <2>1, <1>3
  <1>5. CASE Len(f) = 0
    <2>1. f = <<>>
      BY <1>1, <1>5, EmptySeq
    <2>2. X = {}
      BY <2>1, <1>1, ElementsNone
    <2>. QED  BY <2>1, <2>2 DEF One, f, X
  <1>6. CASE Len(f) = 1
    <2>1. f[1] \in X
      BY <1>6, <1>3
    <2>2. X # {} /\ (CHOOSE x \in X : TRUE) \in X
      BY <2>1
    <2>3. f[1] = CHOOSE x \in X : TRUE
      BY <2>1, <2>2, <1>2
    <2>4. f = <<f[1]>>
      BY <1>1, <1>6
    <2>. QED  BY <2>2, <2>3, <2>4 DEF One, f, X
  <1>. QED  BY <1>3, <1>4, <1>5, <1>6

(* What is inserted is one more element. *)
LEMMA InsertElements ==
  ASSUME NEW D, NEW before, NEW sorted \in Seq(D), NEW e \in D
  PROVE  /\ ToSet(Insert(before, sorted, e)) = ToSet(sorted) \cup {e}
         /\ NoneTwice(sorted) /\ e \notin ToSet(sorted) => NoneTwice(Insert(before, sorted, e))
  <1> DEFINE r == Insert(before, sorted, e)
             n == Len(sorted)
  <1>1. PICK p : InsertedAt(before, sorted, e, p, r)
    BY InsertIs
  <1>2. n \in Nat /\ DOMAIN sorted = 1..n
    OBVIOUS
  <1>3. r \in Seq(D)
    BY InsertIs
  <1> HIDE DEF r
  <1>4. p \in 1..(n + 1) /\ Len(r) = n + 1 /\ DOMAIN r = 1..(n + 1)
    BY <1>1, <1>3 DEF InsertedAt
  <1>5. \A i \in 1..(n + 1) :
          r[i] = IF i < p THEN sorted[i] ELSE IF i = p THEN e ELSE sorted[i - 1]
    BY <1>1 DEF InsertedAt
  <1>6. ToSet(sorted) = {sorted[i] : i \in 1..n} /\ ToSet(r) = {r[i] : i \in 1..(n + 1)}
    BY <1>2, <1>4 DEF ToSet
  <1> HIDE DEF n
  <1>7. ASSUME NEW x \in ToSet(r) PROVE x \in ToSet(sorted) \cup {e}
    <2>1. PICK i \in 1..(n + 1) : x = r[i]
      BY <1>7, <1>6
    <2>2. CASE i < p
      <3>1. i \in 1..n /\ x = sorted[i]
        BY <2>1, <2>2, <1>2, <1>4, <1>5
      <3>. QED  BY <3>1, <1>6
    <2>3. CASE i = p
      BY <2>1, <2>3, <1>4, <1>5
    <2>4. CASE i > p
      <3>1. i - 1 \in 1..n /\ x = sorted[i - 1]
        BY <2>1, <2>4, <1>2, <1>4, <1>5
      <3>. QED  BY <3>1, <1>6
    <2>. QED  BY <2>2, <2>3, <2>4, <1>4
  <1>8. ASSUME NEW x \in ToSet(sorted) \cup {e} PROVE x \in ToSet(r)
    <2>1. CASE x = e
      <3>1. r[p] = e
        BY <1>4, <1>5
      <3>. QED  BY <2>1, <3>1, <1>4, <1>6
    <2>2. CASE x \in ToSet(sorted)
      <3>1. PICK i \in 1..n : x = sorted[i]
        BY <2>2, <1>6
      <3>2. i \in 1..(n + 1) /\ i + 1 \in 1..(n + 1) /\ (i + 1) - 1 = i
        BY <1>2
      <3>3. i < p => r[i] = x
        BY <3>1, <3>2, <1>5
      <3>4. i >= p => r[i + 1] = x
        BY <3>1, <3>2, <1>4, <1>5
      <3>5. i < p \/ i >= p
        BY <1>4
      <3>. QED  BY <3>2, <3>3, <3>4, <3>5, <1>6
    <2>. QED  BY <1>8, <2>1, <2>2
  <1>9. ASSUME NoneTwice(sorted), e \notin ToSet(sorted) PROVE NoneTwice(r)
    <2>1. \A i, j \in 1..n : i # j => sorted[i] # sorted[j]
      BY <1>9 DEF NoneTwice, n
    <2>2. \A i \in 1..n : sorted[i] # e
      BY <1>9, <1>6
    <2>3. ASSUME NEW i \in 1..(n + 1), NEW j \in 1..(n + 1), i < j PROVE r[i] # r[j]
      <3>1. CASE j < p
        <4>1. i \in 1..n /\ j \in 1..n /\ r[i] = sorted[i] /\ r[j] = sorted[j]
          BY <3>1, <2>3, <1>2, <1>4, <1>5
        <4>. QED  BY <4>1, <2>1, <2>3
      <3>2. CASE j = p
        <4>1. i \in 1..n /\ r[i] = sorted[i] /\ r[j] = e
          BY <3>2, <2>3, <1>2, <1>4, <1>5
        <4>. QED  BY <4>1, <2>2
      <3>3. CASE j > p /\ i < p
        <4>1. i \in 1..n /\ j - 1 \in 1..n /\ i # j - 1 /\ r[i] = sorted[i] /\ r[j] = sorted[j - 1]
          BY <3>3, <2>3, <1>2, <1>4, <1>5
        <4>. QED  BY <4>1, <2>1
      <3>4. CASE j > p /\ i = p
        <4>1. j - 1 \in 1..n /\ r[i] = e /\ r[j] = sorted[j - 1]
          BY <3>4, <2>3, <1>2, <1>4, <1>5
        <4>. QED  BY <4>1, <2>2
      <3>5. CASE i > p
        <4>1. i - 1 \in 1..n /\ j - 1 \in 1..n /\ i - 1 # j - 1
          BY <3>5, <2>3, <1>2, <1>4
        <4>2. r[i] = sorted[i - 1] /\ r[j] = sorted[j - 1]
          BY <3>5, <2>3, <1>2, <1>4, <1>5
        <4>. QED  BY <4>1, <4>2, <2>1
      <3>. QED  BY <2>3, <3>1, <3>2, <3>3, <3>4, <3>5, <1>4
    <2>4. ASSUME NEW i \in 1..(n + 1), NEW j \in 1..(n + 1), i # j PROVE r[i] # r[j]
      <3>1. i < j \/ j < i
        BY <2>4, <1>2
      <3>. QED  BY <3>1, <2>3
    <2>. QED  BY <2>4, <1>4 DEF NoneTwice
  <1>. QED  BY <1>7, <1>8, <1>9 DEF r

(* Sorting keeps the elements, and leaves none twice. *)
LEMMA SortByElements ==
  ASSUME NEW D, NEW before, NEW text \in Seq(D)
  PROVE  /\ ToSet(SortBy(text, before)) = ToSet(text)
         /\ NoneTwice(text) => NoneTwice(SortBy(text, before))
  <1> DEFINE good(t) == /\ ToSet(SortBy(t, before)) = ToSet(t)
                        /\ NoneTwice(t) => NoneTwice(SortBy(t, before))
             Q == {t \in Seq(D) : good(t)}
  <1>1. <<>> \in Q
    <2>1. <<>> \in Seq(D)
      OBVIOUS
    <2>. QED  BY <2>1, SortByEmpty
  <1>2. ASSUME NEW t \in Q, NEW d \in D PROVE t \o <<d>> \in Q
    <2> DEFINE u == t \o <<d>>
               s == SortBy(t, before)
               r == Insert(before, s, d)
    <2>1. t \in Seq(D) /\ good(t) /\ u \in Seq(D)
      OBVIOUS
    <2>2. s \in Seq(D) /\ SortBy(u, before) = r
      BY <2>1, SortByNext
    <2>3. ToSet(u) = ToSet(t) \cup {d} /\ (NoneTwice(u) <=> NoneTwice(t) /\ d \notin ToSet(t))
      BY <2>1, ElementsMore
    <2>4. ToSet(r) = ToSet(s) \cup {d} /\ (NoneTwice(s) /\ d \notin ToSet(s) => NoneTwice(r))
      BY <2>2, InsertElements
    <2>5. ToSet(s) = ToSet(t) /\ (NoneTwice(t) => NoneTwice(s))
      BY <2>1
    <2> HIDE DEF Q, s, u, r
    <2>6. good(u)
      BY <2>2, <2>3, <2>4, <2>5
    <2>. QED  BY <2>1, <2>6 DEF Q, u
  <1> HIDE DEF Q
  <1>3. Q = Seq(D)
    <2>1. Q \subseteq Seq(D)
      BY DEF Q
    <2>. QED  BY <1>1, <1>2, <2>1, SeqInduction
  <1>. QED  BY <1>3 DEF Q

-----------------------------------------------------------------------------
(***************************************************************************)
(* What detection finds does not depend on the order in which the          *)
(* directories are read, when no two files have one name and no two        *)
(* releases one package.                                                   *)
(***************************************************************************)

(* The elements of a set, each once, in some order. *)
ReadingOf(S, l) == l \in Seq(S) /\ NoneTwice(l) /\ ToSet(l) = S

(* What is left of one element does not depend on the order. *)
LEMMA SameFiltered ==
  ASSUME NEW S, NEW T, NEW l, NEW r, ReadingOf(S, l), ReadingOf(S, r),
         \A x, y \in S \cap T : x = y
  PROVE  Filtered(l, T) = Filtered(r, T)
  <1>1. Filtered(l, T) = One(S \cap T)
    <2>1. l \in Seq(S) /\ NoneTwice(l) /\ ToSet(l) = S
      BY DEF ReadingOf
    <2>. QED  BY <2>1, FilteredOne
  <1>2. Filtered(r, T) = One(S \cap T)
    <2>1. r \in Seq(S) /\ NoneTwice(r) /\ ToSet(r) = S
      BY DEF ReadingOf
    <2>. QED  BY <2>1, FilteredOne
  <1>. QED  BY <1>1, <1>2

(* The same files of a name are found. *)
LEMMA NamedFilesSame ==
  ASSUME NEW m, Unambiguous(m), NEW l, ReadingOf(DOMAIN m.files, l), NEW r, ReadingOf(DOMAIN m.files, r),
         NEW name
  PROVE  NamedFiles(l, name) = NamedFiles(r, name)
  <1> DEFINE D == DOMAIN m.files
             named == {f \in D : f.name = name}
             top == {f \in named : f.dir = NoText}
  <1>1. ToSet(l) = D /\ ToSet(r) = D
    BY DEF ReadingOf
  <1>2. \A f, g \in named : f = g
    BY DEF Unambiguous
  <1>3. NamedFiles(l, name) = Filtered(l, named \ top) \o Filtered(l, top)
    BY <1>1 DEF NamedFiles
  <1>4. NamedFiles(r, name) = Filtered(r, named \ top) \o Filtered(r, top)
    BY <1>1 DEF NamedFiles
  <1>5. (\A f, g \in D \cap (named \ top) : f = g) /\ (\A f, g \in D \cap top : f = g)
    BY <1>2
  <1> HIDE DEF named, top
  <1>6. Filtered(l, named \ top) = Filtered(r, named \ top)
    BY <1>5, SameFiltered
  <1>7. Filtered(l, top) = Filtered(r, top)
    BY <1>5, SameFiltered
  <1>. QED  BY <1>3, <1>4, <1>6, <1>7

(* The same unified images are found. *)
LEMMA FindUkiSame ==
  ASSUME NEW m, Unambiguous(m), NEW l, ReadingOf(DOMAIN m.files, l), NEW r, ReadingOf(DOMAIN m.files, r),
         NEW base
  PROVE  FindUki(l, base) = FindUki(r, base)
  <1> DEFINE D == DOMAIN m.files
             named(name) == {f \in D : f.name = name}
  <1>1. ToSet(l) = D /\ ToSet(r) = D
    BY DEF ReadingOf
  <1>2. ASSUME NEW name PROVE Filtered(l, named(name)) = Filtered(r, named(name))
    <2>1. \A f, g \in D \cap named(name) : f = g
      BY DEF Unambiguous
    <2> HIDE DEF named
    <2>. QED  BY <2>1, SameFiltered
  <1>3. FindUki(l, base) =
          (Filtered(l, named(<<"arch-">> \o base \o <<".efi">>)) \o Filtered(l, named(base \o <<".efi">>)))
          \o Filtered(l, named(<<"vmlinuz-">> \o base \o <<".efi">>))
    BY <1>1 DEF FindUki
  <1>4. FindUki(r, base) =
          (Filtered(r, named(<<"arch-">> \o base \o <<".efi">>)) \o Filtered(r, named(base \o <<".efi">>)))
          \o Filtered(r, named(<<"vmlinuz-">> \o base \o <<".efi">>))
    BY <1>1 DEF FindUki
  <1> HIDE DEF named
  <1>5. Filtered(l, named(<<"arch-">> \o base \o <<".efi">>))
          = Filtered(r, named(<<"arch-">> \o base \o <<".efi">>))
    BY ONLY <1>2, Zenon
  <1>6. Filtered(l, named(base \o <<".efi">>)) = Filtered(r, named(base \o <<".efi">>))
    BY ONLY <1>2, Zenon
  <1>7. Filtered(l, named(<<"vmlinuz-">> \o base \o <<".efi">>))
          = Filtered(r, named(<<"vmlinuz-">> \o base \o <<".efi">>))
    BY ONLY <1>2, Zenon
  <1>. QED  BY ONLY <1>3, <1>4, <1>5, <1>6, <1>7, Zenon

(* The same release is found of a package, and it is one that names it. *)
LEMMA ReleaseSame ==
  ASSUME NEW m, Unambiguous(m), NEW l, ReadingOf(DOMAIN m.modules, l), NEW r, ReadingOf(DOMAIN m.modules, r),
         NEW base
  PROVE  /\ ReleaseOf(m, l, base) = ReleaseOf(m, r, base)
         /\ ReleaseOf(m, l, base) # NoText => m.modules[ReleaseOf(m, l, base)] = base
  <1> DEFINE D == DOMAIN m.modules
             T == {p \in D : m.modules[p] = base}
             found == Filtered(l, T)
  <1>1. ToSet(l) = D /\ ToSet(r) = D /\ l \in Seq(D)
    BY DEF ReadingOf
  <1>2. \A p, q \in D \cap T : p = q
    BY DEF Unambiguous
  <1>3. /\ ReleaseOf(m, l, base) = (IF found = <<>> THEN NoText ELSE found[Len(found)])
        /\ ReleaseOf(m, r, base) =
             (IF Filtered(r, T) = <<>> THEN NoText ELSE Filtered(r, T)[Len(Filtered(r, T))])
    BY <1>1 DEF ReleaseOf
  <1>4. \A p \in T : m.modules[p] = base
    OBVIOUS
  <1> HIDE DEF T
  <1>5. found = Filtered(r, T)
    BY <1>2, SameFiltered
  <1>6. found \in Seq(D \cap T)
    BY <1>1, FilteredIn
  <1>7. found # <<>> => found[Len(found)] \in T
    <2> HIDE DEF found
    <2>1. SUFFICES ASSUME found # <<>> PROVE found[Len(found)] \in T
      OBVIOUS
    <2>2. Len(found) \in 1..Len(found)
      BY <1>6, <2>1, EmptySeq
    <2>. QED  BY <2>2, <1>6
  <1> HIDE DEF found
  <1>. QED  BY <1>3, <1>4, <1>5, <1>7

(* The same is made of an image. *)
LEMMA InstallationSame ==
  ASSUME NEW m, Unambiguous(m), NEW l, ReadingOf(DOMAIN m.files, l), NEW r, ReadingOf(DOMAIN m.files, r),
         NEW p, ReadingOf(DOMAIN m.modules, p), NEW q, ReadingOf(DOMAIN m.modules, q), NEW image
  PROVE  Installation(m, l, p, image) = Installation(m, r, q, image)
  <1> DEFINE base == Tail(image.name)
  <1>1. NamedFiles(l, Initramfs(base)) = NamedFiles(r, Initramfs(base))
    BY NamedFilesSame
  <1>2. FindUki(l, base) = FindUki(r, base)
    BY FindUkiSame
  <1>3. ReleaseOf(m, p, base) = ReleaseOf(m, q, base)
    BY ReleaseSame
  <1>4. Microcodes(m, l) = Microcodes(m, r)
    <2>1. NamedFiles(l, <<m.microcode>>) = NamedFiles(r, <<m.microcode>>)
      BY NamedFilesSame
    <2>. QED  BY <2>1 DEF Microcodes
  <1>. QED  BY <1>1, <1>2, <1>3, <1>4 DEF Installation

(* What is known of a kernel: its package, and that it is the one that runs *)
(* if its release is.                                                       *)
LEMMA InstallationHas ==
  ASSUME NEW m, Unambiguous(m), NEW l, NEW p, ReadingOf(DOMAIN m.modules, p), NEW image
  PROVE  LET k == Installation(m, l, p, image) IN
         /\ k.base = Tail(image.name) /\ k.running \in BOOLEAN
         /\ k.running => m.modules[m.running] = k.base
  <1> DEFINE base == Tail(image.name)
             release == ReleaseOf(m, p, base)
             runs1 == release # NoText /\ release = m.running
             k == Installation(m, l, p, image)
  <1>1. runs1 => m.modules[m.running] = base
    BY ReleaseSame
  <1>2. k.base = base /\ k.running = runs1
    <2> DEFINE found == [base |-> base, release |-> release, image |-> image, uki |-> FALSE,
                         initrds |-> Microcodes(m, l), running |-> runs1]
               initramfs == NamedFiles(l, Initramfs(base))
               ukis == FindUki(l, base)
    <2>1. k = CASE initramfs # <<>> -> [found EXCEPT !.initrds = Append(@, initramfs[1])]
                [] initramfs = <<>> /\ ukis # <<>> ->
                     [found EXCEPT !.image = ukis[1], !.initrds = <<>>, !.uki = TRUE]
                [] OTHER -> found
      BY DEF Installation
    <2> HIDE DEF k, initramfs, ukis, base, release, runs1
    <2>. QED  BY <2>1
  <1>3. runs1 \in BOOLEAN
    OBVIOUS
  <1> HIDE DEF runs1
  <1>. QED  BY <1>1, <1>2, <1>3

(* Kernels of different packages whose names can be compared, one of which   *)
(* runs.                                                                     *)
KernelsDiffer(K) ==
  /\ \A k \in K : k.running \in BOOLEAN
  /\ \A k, l \in K : k # l => /\ k.base # l.base /\ ~(k.running /\ l.running)
                              /\ \/ <<k.base, l.base>> \in NameOrder
                                 \/ <<l.base, k.base>> \in NameOrder

(* Of two kernels, the one that runs precedes, then linux, then the name.    *)
LEMMA PrecedesIs ==
  ASSUME NEW K, KernelsDiffer(K), NEW k \in K, NEW l \in K, k # l
  PROVE  KernelPrecedes(k, l) <=>
           \/ k.running
           \/ /\ ~l.running
              /\ \/ k.base = <<"linux">>
                 \/ l.base # <<"linux">> /\ <<k.base, l.base>> \in NameOrder
  <1> DEFINE linux == <<"linux">>
             kb == k.base
             lb == l.base
             kr == k.running
             lr == l.running
  <1>1. kr \in BOOLEAN /\ lr \in BOOLEAN /\ kb # lb /\ ~(kr /\ lr)
    BY DEF KernelsDiffer
  <1>2. KernelPrecedes(k, l) =
          CASE kr # lr -> kr
            [] kr = lr /\ linux \in {kb, lb} -> kb = linux
            [] OTHER -> <<kb, lb>> \in NameOrder
    BY DEF KernelPrecedes, NamePrecedes
  <1> HIDE DEF linux, kb, lb, kr, lr
  <1>3. KernelPrecedes(k, l) <=> kr \/ (~lr /\ (kb = linux \/ (lb # linux /\ <<kb, lb>> \in NameOrder)))
    <2>1. CASE kr # lr
      BY <2>1, <1>1, <1>2
    <2>2. CASE kr = lr /\ linux \in {kb, lb}
      BY <2>2, <1>1, <1>2
    <2>3. CASE kr = lr /\ linux \notin {kb, lb}
      BY <2>3, <1>1, <1>2
    <2>. QED  BY <2>1, <2>2, <2>3
  <1>. QED  BY <1>3 DEF linux, kb, lb, kr, lr

(* That is an order. *)
LEMMA KernelsOrdered ==
  ASSUME NEW K, KernelsDiffer(K), NEW x \in K, NEW y \in K, x # y
  PROVE  /\ KernelPrecedes(x, y) \/ KernelPrecedes(y, x)
         /\ ~(KernelPrecedes(x, y) /\ KernelPrecedes(y, x))
         /\ \A z \in K : KernelPrecedes(x, y) /\ KernelPrecedes(y, z) => KernelPrecedes(x, z)
  <1> DEFINE R(k) == k.running
             L(k) == k.base = <<"linux">>
             N(k, l) == <<k.base, l.base>> \in NameOrder
             P(k, l) == KernelPrecedes(k, l)
  <1>1. \A k, l \in K : k # l => (P(k, l) <=> R(k) \/ (~R(l) /\ (L(k) \/ (~L(l) /\ N(k, l)))))
    BY PrecedesIs
  <1>2. \A k, l \in K : k # l => ~(R(k) /\ R(l)) /\ (N(k, l) \/ N(l, k)) /\ ~(L(k) /\ L(l))
    BY DEF KernelsDiffer
  <1>3. \A k, l \in K : ~(N(k, l) /\ N(l, k))
    <2>1. \A a, b : ~(<<a, b>> \in NameOrder /\ <<b, a>> \in NameOrder)
      <3>1. ASSUME NEW a, NEW b, <<a, b>> \in NameOrder, <<b, a>> \in NameOrder PROVE FALSE
        <4>1. <<a, b>>[1] = a /\ <<a, b>>[2] = b /\ <<b, a>>[1] = b /\ <<b, a>>[2] = a
          OBVIOUS
        <4>2. <<a, a>> \in NameOrder
          BY <3>1, <4>1, NameOrderAssumption
        <4>3. <<a, a>>[1] = a /\ <<a, a>>[2] = a
          OBVIOUS
        <4>. QED  BY <4>2, <4>3, NameOrderAssumption
      <3>. QED  BY <3>1
    <2>. QED  BY <2>1
  <1>4. \A k, l, j \in K : N(k, l) /\ N(l, j) => N(k, j)
    <2>1. ASSUME NEW a, NEW b, NEW c, <<a, b>> \in NameOrder, <<b, c>> \in NameOrder
          PROVE  <<a, c>> \in NameOrder
      <3>1. <<a, b>>[1] = a /\ <<a, b>>[2] = b /\ <<b, c>>[1] = b /\ <<b, c>>[2] = c
        OBVIOUS
      <3>. QED  BY <2>1, <3>1, NameOrderAssumption
    <2>. QED  BY <2>1
  <1> HIDE DEF R, L, N, P
  <1>5. P(x, y) \/ P(y, x)
    BY <1>1, <1>2
  <1>6. ~(P(x, y) /\ P(y, x))
    BY <1>1, <1>2, <1>3
  <1>7. ASSUME NEW z \in K, P(x, y), P(y, z) PROVE P(x, z)
    <2>1. CASE z = y
      BY <2>1, <1>7
    <2>2. CASE z = x
      BY <2>2, <1>6, <1>7
    <2>3. CASE z # y /\ z # x
      BY <2>3, <1>1, <1>2, <1>4, <1>7
    <2>. QED  BY <2>1, <2>2, <2>3
  <1>. QED  BY <1>5, <1>6, <1>7 DEF P

(* Different kernels in any order are sorted the same. *)
LEMMA SortedSame ==
  ASSUME NEW K, KernelsDiffer(K), NEW s, ReadingOf(K, s), NEW t, ReadingOf(K, t)
  PROVE  LET before == {p \in K \X K : KernelPrecedes(p[1], p[2])}
         IN  SortBy(s, before) = SortBy(t, before)
  <1> DEFINE before == {p \in K \X K : KernelPrecedes(p[1], p[2])}
             R == {p \in before : p[1] # p[2]}
  <1>1. \A x, y \in K : <<x, y>> \in before <=> KernelPrecedes(x, y)
    OBVIOUS
  <1>2. \A x, y \in K : <<x, y>> \in R <=> x # y /\ <<x, y>> \in before
    OBVIOUS
  <1> HIDE DEF before, R
  <1>3. Transitive(before, K)
    <2>1. ASSUME NEW x \in K, NEW y \in K, NEW z \in K, <<x, y>> \in before, <<y, z>> \in before
          PROVE  <<x, z>> \in before
      <3>1. CASE x = y
        BY <3>1, <2>1
      <3>2. CASE x # y
        <4>1. KernelPrecedes(x, z)
          BY <3>2, <2>1, <1>1, KernelsOrdered
        <4>. QED  BY <4>1, <1>1
      <3>. QED  BY <3>1, <3>2
    <2>. QED  BY <2>1 DEF Transitive
  <1>4. \A x, y \in K : <<x, y>> \in R => <<y, x>> \notin R
    BY <1>1, <1>2, KernelsOrdered
  <1>5. ASSUME NEW u, ReadingOf(K, u)
        PROVE  LET v == SortBy(u, before) IN v \in Seq(K) /\ ToSet(v) = K /\ InOrder(R, v)
    <2> DEFINE v == SortBy(u, before)
    <2>1. u \in Seq(K) /\ NoneTwice(u) /\ ToSet(u) = K
      BY <1>5 DEF ReadingOf
    <2>2. v \in Seq(K) /\ ToSet(v) = K /\ NoneTwice(v)
      BY <2>1, SortByType, SortByElements
    <2>3. Comparable(before, u)
      <3>1. \A i \in 1..Len(u) : u[i] \in K
        BY <2>1
      <3>2. ASSUME NEW i \in 1..Len(u), NEW j \in 1..Len(u), i # j
            PROVE  <<u[i], u[j]>> \in before \/ <<u[j], u[i]>> \in before
        <4>1. u[i] # u[j] /\ u[i] \in K /\ u[j] \in K
          BY <3>1, <3>2, <2>1 DEF NoneTwice
        <4>2. KernelPrecedes(u[i], u[j]) \/ KernelPrecedes(u[j], u[i])
          BY <4>1, KernelsOrdered
        <4>. QED  BY <4>1, <4>2, <1>1
      <3>. QED  BY <3>2 DEF Comparable
    <2>4. InOrder(before, v)
      BY <2>1, <2>3, <1>3, SortByInOrder
    <2> HIDE DEF v
    <2>5. InOrder(R, v)
      <3>1. \A i \in 1..Len(v) : v[i] \in K
        BY <2>2
      <3>2. ASSUME NEW i \in 1..Len(v), NEW j \in 1..Len(v), i < j PROVE <<v[i], v[j]>> \in R
        <4>1. i # j
          BY <3>2
        <4>2. v[i] # v[j] /\ v[i] \in K /\ v[j] \in K
          BY <3>1, <4>1, <2>2 DEF NoneTwice
        <4>3. <<v[i], v[j]>> \in before
          BY <3>2, <2>4 DEF InOrder
        <4>. QED  BY <4>2, <4>3, <1>2
      <3>. QED  BY <3>2 DEF InOrder
    <2>. QED  BY <2>2, <2>5 DEF v
  <1>6. SortBy(s, before) = SortBy(t, before)
    <2>1. SortBy(s, before) \in Seq(K) /\ ToSet(SortBy(s, before)) = K /\ InOrder(R, SortBy(s, before))
      BY <1>5
    <2>2. SortBy(t, before) \in Seq(K) /\ ToSet(SortBy(t, before)) = K /\ InOrder(R, SortBy(t, before))
      BY <1>5
    <2>3. ToSet(SortBy(s, before)) = ToSet(SortBy(t, before))
      BY <2>1, <2>2
    <2>. QED  BY <2>1, <2>2, <2>3, <1>4, OrderUnique
  <1>. QED  BY <1>6 DEF before

(* Different things made of the elements of a sequence. *)
LEMMA MadeOnce ==
  ASSUME NEW S, NEW K, NEW g \in [S -> K], \A x, y \in S : g[x] = g[y] => x = y,
         NEW s, ReadingOf(S, s), K = {g[x] : x \in S}
  PROVE  ReadingOf(K, [i \in DOMAIN s |-> g[s[i]]])
  <1> DEFINE u == [i \in DOMAIN s |-> g[s[i]]]
             n == Len(s)
  <1>1. s \in Seq(S) /\ NoneTwice(s) /\ ToSet(s) = S
    BY DEF ReadingOf
  <1>2. n \in Nat /\ DOMAIN s = 1..n /\ \A i \in 1..n : s[i] \in S
    BY <1>1
  <1>3. \A i \in 1..n : u[i] = g[s[i]] /\ u[i] \in K
    BY <1>2
  <1>4. u \in Seq(K) /\ Len(u) = n /\ DOMAIN u = 1..n
    <2>1. u = [i \in 1..n |-> g[s[i]]]
      BY <1>2
    <2>. QED  BY <1>2, <2>1
  <1> HIDE DEF u
  <1>5. NoneTwice(u)
    BY <1>1, <1>2, <1>3, <1>4 DEF NoneTwice
  <1>6. ToSet(s) = {s[i] : i \in 1..n} /\ ToSet(u) = {u[i] : i \in 1..n}
    BY <1>2, <1>4 DEF ToSet
  <1>7. ToSet(u) = K
    <2>1. ASSUME NEW k \in K PROVE \E i \in 1..n : u[i] = k
      <3>1. PICK x \in S : k = g[x]
        OBVIOUS
      <3>2. PICK i \in 1..n : x = s[i]
        BY <1>1, <1>6
      <3>. QED  BY <3>1, <3>2, <1>3
    <2>. QED  BY <2>1, <1>3, <1>6
  <1>. QED  BY <1>4, <1>5, <1>7 DEF ReadingOf, u

(* A name is its first word and the rest. *)
LEMMA NameIs ==
  ASSUME NEW a \in Seq(STRING), NEW b \in Seq(STRING), Len(a) > 1, Len(b) > 1, a[1] = b[1],
         Tail(a) = Tail(b)
  PROVE  a = b
  <1>1. Len(Tail(a)) = Len(a) - 1 /\ Len(Tail(b)) = Len(b) - 1
    OBVIOUS
  <1>2. Len(a) = Len(b)
    BY <1>1
  <1>3. ASSUME NEW i \in 1..Len(a) PROVE a[i] = b[i]
    <2>1. CASE i # 1
      <3>1. i - 1 \in 1..(Len(a) - 1) /\ (i - 1) + 1 = i
        BY <2>1
      <3>2. Tail(a)[i - 1] = a[i] /\ Tail(b)[i - 1] = b[i]
        BY <3>1, <1>2
      <3>. QED  BY <3>2
    <2>. QED  BY <2>1
  <1>. QED  BY <1>2, <1>3, SeqEqual

(* The kernels of a machine differ. *)
LEMMA KernelsOfMachine ==
  ASSUME NEW m \in Machines, Unambiguous(m), NEW l, ReadingOf(DOMAIN m.files, l),
         NEW p, ReadingOf(DOMAIN m.modules, p),
         NEW f, f \in DOMAIN m.files, IsImage(f), NEW h, h \in DOMAIN m.files, IsImage(h), f # h
  PROVE  LET k == Installation(m, l, p, f)
             j == Installation(m, l, p, h)
         IN  /\ k.base # j.base /\ ~(k.running /\ j.running)
             /\ <<k.base, j.base>> \in NameOrder \/ <<j.base, k.base>> \in NameOrder
  <1> DEFINE k == Installation(m, l, p, f)
             j == Installation(m, l, p, h)
  <1>1. k.base = Tail(f.name) /\ (k.running => m.modules[m.running] = k.base)
    BY InstallationHas
  <1>2. j.base = Tail(h.name) /\ (j.running => m.modules[m.running] = j.base)
    BY InstallationHas
  <1>3. f.name \in Seq(STRING) /\ h.name \in Seq(STRING)
    BY MachinesAssumption DEF IsMachine
  <1>4. f.name # h.name
    BY DEF Unambiguous
  <1>5. Len(f.name) > 1 /\ Len(h.name) > 1 /\ f.name[1] = h.name[1]
    BY DEF IsImage
  <1>6. Tail(f.name) # Tail(h.name)
    BY <1>3, <1>4, <1>5, NameIs
  <1>7. <<Tail(f.name), Tail(h.name)>> \in NameOrder \/ <<Tail(h.name), Tail(f.name)>> \in NameOrder
    BY <1>6, NamesAssumption
  <1> HIDE DEF k, j
  <1>8. ~(k.running /\ j.running)
    BY <1>1, <1>2, <1>6
  <1>. QED  BY <1>1, <1>2, <1>6, <1>7, <1>8 DEF k, j

(* The same kernels are found in the same order. *)
LEMMA KernelsSame ==
  ASSUME NEW m \in Machines, Unambiguous(m),
         NEW l, ReadingOf(DOMAIN m.files, l), NEW r, ReadingOf(DOMAIN m.files, r),
         NEW p, ReadingOf(DOMAIN m.modules, p), NEW q, ReadingOf(DOMAIN m.modules, q)
  PROVE  DiscoverKernels(m, l, p) = DiscoverKernels(m, r, q)
  <1> DEFINE D == DOMAIN m.files
             S == {f \in D : IsImage(f)}
             made(f) == Installation(m, l, p, f)
             g == [f \in S |-> made(f)]
             K == {g[f] : f \in S}
             before == {e \in K \X K : KernelPrecedes(e[1], e[2])}
  <1>1. ASSUME NEW u, ReadingOf(D, u), NEW v, ReadingOf(DOMAIN m.modules, v),
               \A f \in S : Installation(m, u, v, f) = g[f]
        PROVE  LET kernels == [i \in DOMAIN Filtered(u, S) |-> g[Filtered(u, S)[i]]]
               IN  ReadingOf(K, kernels) /\ DiscoverKernels(m, u, v) = SortBy(kernels, before)
    <2> DEFINE images == Filtered(u, S)
               kernels == [i \in DOMAIN images |-> g[images[i]]]
               found == [i \in DOMAIN images |-> Installation(m, u, v, images[i])]
    <2>1. u \in Seq(D) /\ NoneTwice(u) /\ ToSet(u) = D
      BY <1>1 DEF ReadingOf
    <2>2. images \in Seq(D \cap S) /\ ToSet(images) = D \cap S /\ NoneTwice(images)
      <3> HIDE DEF S
      <3>. QED  BY <2>1, FilteredIn, FilteredElements
    <2>3. D \cap S = S
      OBVIOUS
    <2>4. ReadingOf(S, images)
      BY <2>2, <2>3 DEF ReadingOf
    <2>5. DiscoverKernels(m, u, v) =
            SortBy(found, {e \in ToSet(found) \X ToSet(found) : KernelPrecedes(e[1], e[2])})
      BY <2>1 DEF DiscoverKernels
    <2>6. \A i \in DOMAIN images : images[i] \in S
      BY <2>2, <2>3
    <2> HIDE DEF S, images
    <2>7. found = kernels
      BY <2>6, <1>1
    <2>8. g \in [S -> K] /\ \A f, h \in S : g[f] = g[h] => f = h
      <3>1. ASSUME NEW f \in S, NEW h \in S, f # h PROVE g[f] # g[h]
        <4>1. f \in D /\ h \in D /\ IsImage(f) /\ IsImage(h)
          BY DEF S
        <4>2. made(f).base # made(h).base
          BY <4>1, <3>1, KernelsOfMachine
        <4> HIDE DEF made
        <4>. QED  BY <4>2
      <3> HIDE DEF made
      <3>. QED  BY <3>1
    <2> HIDE DEF g, K
    <2>9. ReadingOf(K, kernels)
      <3>1. K = {g[f] : f \in S}
        BY DEF K
      <3>. QED  BY <2>4, <2>8, <3>1, MadeOnce DEF images
    <2>10. ToSet(kernels) = K
      BY <2>9 DEF ReadingOf
    <2> HIDE DEF kernels, found
    <2>11. DiscoverKernels(m, u, v) = SortBy(kernels, before)
      BY <2>5, <2>7, <2>10
    <2>. QED  BY <2>9, <2>11 DEF kernels, images
  <1>2. KernelsDiffer(K)
    <2>1. ASSUME NEW k \in K PROVE k.running \in BOOLEAN
      <3>1. PICK f \in S : k = made(f)
        OBVIOUS
      <3>. QED  BY <3>1, InstallationHas
    <2>2. ASSUME NEW k \in K, NEW j \in K, k # j
          PROVE  /\ k.base # j.base /\ ~(k.running /\ j.running)
                 /\ <<k.base, j.base>> \in NameOrder \/ <<j.base, k.base>> \in NameOrder
      <3>1. PICK f \in S : k = made(f)
        OBVIOUS
      <3>2. PICK h \in S : j = made(h)
        OBVIOUS
      <3>3. f # h
        BY <3>1, <3>2, <2>2
      <3>4. f \in D /\ h \in D /\ IsImage(f) /\ IsImage(h)
        OBVIOUS
      <3>. QED  BY <3>1, <3>2, <3>3, <3>4, KernelsOfMachine
    <2> HIDE DEF K
    <2>. QED  BY <2>1, <2>2 DEF KernelsDiffer
  <1>3. \A f \in S : Installation(m, r, q, f) = g[f] /\ Installation(m, l, p, f) = g[f]
    <2>1. ASSUME NEW f \in S PROVE Installation(m, r, q, f) = made(f)
      BY InstallationSame
    <2> HIDE DEF S, made
    <2>. QED  BY <2>1 DEF made
  <1> DEFINE s == [i \in DOMAIN Filtered(l, S) |-> g[Filtered(l, S)[i]]]
             t == [i \in DOMAIN Filtered(r, S) |-> g[Filtered(r, S)[i]]]
  <1>4. ReadingOf(K, s) /\ DiscoverKernels(m, l, p) = SortBy(s, before)
    BY <1>1, <1>3
  <1>5. ReadingOf(K, t) /\ DiscoverKernels(m, r, q) = SortBy(t, before)
    BY <1>1, <1>3
  <1> HIDE DEF K, s, t
  <1>6. SortBy(s, before) = SortBy(t, before)
    BY <1>2, <1>4, <1>5, SortedSame
  <1>. QED  BY <1>4, <1>5, <1>6

(* Detection finds the same, in whatever order the directories are read. *)
LEMMA DetectedSame ==
  ASSUME NEW m \in Machines, Unambiguous(m), NEW x, Detected(x, m), NEW y, Detected(y, m)
  PROVE  x = y
  <1>1. IsFiniteSet(DOMAIN m.files) /\ IsFiniteSet(DOMAIN m.modules)
    BY MachinesAssumption DEF IsMachine
  <1>2. \A l \in SetToSeqs(DOMAIN m.files) : ReadingOf(DOMAIN m.files, l)
    BY <1>1, ListingHas DEF ReadingOf
  <1>3. \A p \in SetToSeqs(DOMAIN m.modules) : ReadingOf(DOMAIN m.modules, p)
    BY <1>1, ListingHas DEF ReadingOf
  <1>4. PICK l \in SetToSeqs(DOMAIN m.files), p \in SetToSeqs(DOMAIN m.modules) : x = DetectSystem(m, l, p)
    BY DEF Detected
  <1>5. PICK r \in SetToSeqs(DOMAIN m.files), q \in SetToSeqs(DOMAIN m.modules) : y = DetectSystem(m, r, q)
    BY DEF Detected
  <1>6. DiscoverKernels(m, l, p) = DiscoverKernels(m, r, q)
    BY <1>2, <1>3, KernelsSame
  <1>. QED  BY <1>4, <1>5, <1>6 DEF DetectSystem

-----------------------------------------------------------------------------
(***************************************************************************)
(* A verdict stands. The inductive invariant is Known: while nothing       *)
(* changes, a command knows the machine that there is, and what was said   *)
(* last is what that machine and that menu call for.                       *)
(***************************************************************************)

(* The snapshots, the errors and the menu of a machine, as detected. *)
SnapshotsListed(m) == List(SnapperPrints(m.snapshots)).list

ErrorsOf(m, system, menu) ==
  LET config == Loaded[m.config].config
  IN  Validate(system, m.snapperOnRoot, SelectMenuSnapshots(SnapshotsListed(m), config),
               config[<<"secure_boot", "protect_config">>], m, menu # NoMenu)

MenuOf(m, system) == Preview(system, SnapshotsListed(m), Loaded[m.config].config)

(* What there is to say of a machine and its menu. *)
VerdictOf(m, system, menu) ==
  CASE ErrorsOf(m, system, menu) # {} -> "invalid"
    [] ErrorsOf(m, system, menu) = {} /\ MenuOf(m, system) # menu -> "pending"
    [] OTHER -> "current"

(* As long as nothing changes a command knows the machine there is, and what *)
(* was said is said of it.                                                   *)
LoadedKnown == run.step # "idle" => run.config = Loaded[machine.config].config
ListedKnown ==
  run.step \in {"detect", "validate", "conclude"} => run.snapshots = SnapshotsListed(machine)
DetectedKnown == run.step \in {"validate", "conclude"} => Detected(run.system, machine)
ValidatedKnown ==
  /\ run.step = "validate" => run.snapperOnRoot = machine.snapperOnRoot
  /\ run.step = "conclude" => run.errors = ErrorsOf(machine, run.system, installed)

SaidKnown ==
  said # "nothing" =>
    \E system : Detected(system, machine) /\ said = VerdictOf(machine, system, installed)

Known ==
  /\ steady => LoadedKnown /\ ListedKnown /\ DetectedKnown /\ ValidatedKnown
  /\ SaidKnown

(* At first nothing is known, and nothing said. *)
LEMMA KnownInit == Init => Known
  BY DEF Init, Known, SaidKnown

(* Without errors there is a menu, and none come with another one. *)
LEMMA ErrorsStay ==
  ASSUME NEW m, NEW system, NEW menu, NEW other, ErrorsOf(m, system, menu) = {}, other # NoMenu
  PROVE  ErrorsOf(m, system, other) = {}
  <1>1. "limine.config" \notin ErrorsOf(m, system, menu)
    OBVIOUS
  <1>2. ReportIf(~(menu # NoMenu), "limine.config") \subseteq ErrorsOf(m, system, menu)
    BY DEF ErrorsOf, Validate
  <1>3. menu # NoMenu
    BY <1>1, <1>2 DEF ReportIf
  <1>4. (menu # NoMenu) = (other # NoMenu)
    BY <1>3
  <1>5. ErrorsOf(m, system, other) = ErrorsOf(m, system, menu)
    BY <1>4 DEF ErrorsOf
  <1>. QED  BY <1>5

(* The step that concludes, when nothing changed: what it says follows from  *)
(* the machine and the menu that there are.                                  *)
LEMMA ConcludeSays ==
  ASSUME Seen, Known, Conclude, steady
  PROVE  LET system == run.system
             before == VerdictOf(machine, system, installed)
         IN  /\ Detected(system, machine)
             /\ \/ said' = before /\ installed' = installed
                \/ before = "pending" /\ said' = "current" /\ installed' # installed
             /\ said' = VerdictOf(machine, system, installed')
  <1> DEFINE system == run.system
             errors == ErrorsOf(machine, system, installed)
             menu == MenuOf(machine, system)
             pending == menu # installed
             installs == run.command = "apply" /\ errors = {} /\ pending
             before == VerdictOf(machine, system, installed)
  <1>1. run.step = "conclude"
    BY DEF Conclude
  <1>2. /\ Detected(system, machine) /\ run.errors = errors
        /\ run.config = Loaded[machine.config].config /\ run.snapshots = SnapshotsListed(machine)
    BY <1>1 DEF Known, LoadedKnown, ListedKnown, DetectedKnown, ValidatedKnown
  <1>3. menu = Preview(run.system, run.snapshots, run.config)
    BY <1>2 DEF MenuOf
  <1>4. /\ installed' = IF installs THEN menu ELSE installed
        /\ said' = CASE ~steady -> "nothing"
                     [] steady /\ errors # {} -> "invalid"
                     [] steady /\ errors = {} /\ pending /\ ~installs -> "pending"
                     [] OTHER -> "current"
    BY <1>2, <1>3 DEF Conclude
  <1>5. menu # NoMenu
    <2>1. menu.is = "generated"
      BY DEF MenuOf, Preview
    <2>2. NoMenu.is = "missing"
      BY DEF NoMenu
    <2>. QED  BY <2>1, <2>2
  <1>6. before = CASE errors # {} -> "invalid"
                   [] errors = {} /\ pending -> "pending"
                   [] OTHER -> "current"
    BY DEF VerdictOf
  <1>7. errors = {} => VerdictOf(machine, system, menu) = "current"
    <2>1. SUFFICES ASSUME errors = {} PROVE VerdictOf(machine, system, menu) = "current"
      OBVIOUS
    <2>2. ErrorsOf(machine, system, menu) = {}
      BY <2>1, <1>5, ErrorsStay
    <2>. QED  BY <2>2 DEF VerdictOf
  <1> HIDE DEF errors, menu, before, system
  <1>8. CASE installs
    <2>1. installed' = menu /\ errors = {} /\ pending
      BY <1>4, <1>8
    <2>2. said' = "current"
      BY <1>4, <1>8, <2>1
    <2>3. before = "pending"
      BY <1>6, <2>1
    <2>4. said' = VerdictOf(machine, system, installed')
      BY <2>1, <2>2, <1>7
    <2>. QED  BY <2>1, <2>2, <2>3, <2>4, <1>2 DEF system, before
  <1>9. CASE ~installs
    <2>1. installed' = installed
      BY <1>4, <1>9
    <2>2. said' = before
      <3>1. CASE errors # {}
        BY <3>1, <1>4, <1>6
      <3>2. CASE errors = {} /\ pending
        BY <3>2, <1>4, <1>6, <1>9
      <3>3. CASE errors = {} /\ ~pending
        BY <3>3, <1>4, <1>6
      <3>. QED  BY <3>1, <3>2, <3>3
    <2>3. said' = VerdictOf(machine, system, installed')
      BY <2>1, <2>2 DEF before
    <2>. QED  BY <2>1, <2>2, <2>3, <1>2 DEF system, before
  <1>. QED  BY <1>8, <1>9

(* Every step learns of the machine that there is, and a change unsays.      *)
LEMMA KnownStep ==
  ASSUME Seen, Known, [Next]_vars
  PROVE  Known'
  <1> DEFINE Learnt == LoadedKnown /\ ListedKnown /\ DetectedKnown /\ ValidatedKnown
  <1>0. UNCHANGED <<machine, installed, said>> => SaidKnown'
    BY DEF Known, SaidKnown
  <1>1. ASSUME NEW command \in Commands, LoadConfig(command) PROVE Known'
    <2> DEFINE loaded == Loaded[machine.config]
    <2>1. UNCHANGED <<machine, installed, said>>
      BY <1>1 DEF LoadConfig
    <2>2. CASE loaded.failed
      <3>1. run'.step = "idle"
        BY <1>1, <2>2 DEF LoadConfig, Idle
      <3>2. Learnt'
        BY <3>1 DEF LoadedKnown, ListedKnown, DetectedKnown, ValidatedKnown
      <3>. QED  BY <1>0, <2>1, <3>2 DEF Known
    <2>3. CASE ~loaded.failed
      <3>1. run' = [step |-> "list", command |-> command, config |-> loaded.config]
        BY <1>1, <2>3 DEF LoadConfig
      <3>2. run'.step = "list" /\ run'.config = Loaded[machine'.config].config
        BY <3>1, <2>1
      <3>3. Learnt'
        BY <3>2 DEF LoadedKnown, ListedKnown, DetectedKnown, ValidatedKnown, Loaded
      <3>. QED  BY <1>0, <2>1, <3>3 DEF Known
    <2>. QED  BY <2>2, <2>3
  <1>2. ASSUME ListSnapshots PROVE Known'
    <2> DEFINE result == List(SnapperPrints(machine.snapshots))
    <2>1. UNCHANGED <<machine, installed, said, steady>> /\ run.step = "list"
      BY <1>2 DEF ListSnapshots
    <2>2. CASE result.failed
      <3>1. run'.step = "idle"
        BY <1>2, <2>2 DEF ListSnapshots, Fail, Idle
      <3>2. Learnt'
        BY <3>1 DEF LoadedKnown, ListedKnown, DetectedKnown, ValidatedKnown
      <3>. QED  BY <1>0, <2>1, <3>2 DEF Known
    <2>3. CASE ~result.failed
      <3>1. run' = [step |-> "detect", command |-> run.command, config |-> run.config,
                    snapshots |-> result.list]
        BY <1>2, <2>3 DEF ListSnapshots
      <3>2. run'.step = "detect" /\ run'.config = run.config /\ run'.snapshots = SnapshotsListed(machine)
        BY <3>1 DEF SnapshotsListed
      <3>3. steady => run'.config = Loaded[machine.config].config
        BY <3>2, <2>1 DEF Known, LoadedKnown
      <3>4. steady' => Learnt'
        BY <2>1, <3>2, <3>3 DEF LoadedKnown, ListedKnown, DetectedKnown, ValidatedKnown, Loaded
      <3>. QED  BY <1>0, <2>1, <3>4 DEF Known
    <2>. QED  BY <2>2, <2>3
  <1>3. ASSUME Detect PROVE Known'
    <2>1. UNCHANGED <<machine, installed, said, steady>> /\ run.step = "detect"
      BY <1>3 DEF Detect
    <2>2. PICK system \in {DetectSystem(machine, listing, modules) :
                             listing \in SetToSeqs(DOMAIN machine.files),
                             modules \in SetToSeqs(DOMAIN machine.modules)} :
            IF system.failed THEN Fail
            ELSE run' = [step |-> "validate", command |-> run.command, config |-> run.config,
                         snapshots |-> run.snapshots, system |-> system,
                         snapperOnRoot |-> machine.snapperOnRoot]
      BY <1>3 DEF Detect
    <2>3. PICK listing \in SetToSeqs(DOMAIN machine.files), modules \in SetToSeqs(DOMAIN machine.modules) :
            system = DetectSystem(machine, listing, modules)
      BY <2>2
    <2>4. CASE system.failed
      <3>1. run'.step = "idle"
        BY <2>2, <2>4 DEF Fail, Idle
      <3>2. Learnt'
        BY <3>1 DEF LoadedKnown, ListedKnown, DetectedKnown, ValidatedKnown
      <3>. QED  BY <1>0, <2>1, <3>2 DEF Known
    <2>5. CASE ~system.failed
      <3>1. /\ run'.step = "validate" /\ run'.config = run.config /\ run'.snapshots = run.snapshots
            /\ run'.system = system /\ run'.snapperOnRoot = machine.snapperOnRoot
        BY <2>2, <2>5
      <3>2. system.failed \in BOOLEAN
        BY <2>3 DEF DetectSystem
      <3>3. Detected(system, machine)
        BY <2>3, <2>5, <3>2 DEF Detected
      <3>4. steady => run'.config = Loaded[machine.config].config /\ run'.snapshots = SnapshotsListed(machine)
        BY <2>1, <3>1 DEF Known, LoadedKnown, ListedKnown
      <3>5. Detected(run'.system, machine')
        BY <2>1, <3>1, <3>3
      <3>6. steady' => LoadedKnown' /\ ListedKnown' /\ ValidatedKnown'
        BY <2>1, <3>1, <3>4 DEF LoadedKnown, ListedKnown, ValidatedKnown, Loaded
      <3>7. DetectedKnown'
        BY <3>5 DEF DetectedKnown
      <3>. QED  BY <1>0, <2>1, <3>6, <3>7 DEF Known
    <2>. QED  BY <2>4, <2>5
  <1>4. ASSUME ValidateSystem PROVE Known'
    <2> DEFINE errors == Validate(run.system, run.snapperOnRoot,
                                  SelectMenuSnapshots(run.snapshots, run.config),
                                  run.config[<<"secure_boot", "protect_config">>], machine,
                                  installed # NoMenu)
    <2>1. UNCHANGED <<machine, installed, said, steady>> /\ run.step = "validate"
      BY <1>4 DEF ValidateSystem
    <2>2. run' = [step |-> "conclude", command |-> run.command, config |-> run.config,
                  snapshots |-> run.snapshots, system |-> run.system, errors |-> errors]
      BY <1>4 DEF ValidateSystem
    <2>3. steady => /\ run.config = Loaded[machine.config].config /\ run.snapshots = SnapshotsListed(machine)
                    /\ Detected(run.system, machine) /\ run.snapperOnRoot = machine.snapperOnRoot
      BY <2>1 DEF Known, LoadedKnown, ListedKnown, DetectedKnown, ValidatedKnown
    <2>4. steady => errors = ErrorsOf(machine, run.system, installed)
      BY <2>3 DEF ErrorsOf
    <2> HIDE DEF errors
    <2>5. /\ run'.step = "conclude" /\ run'.config = run.config /\ run'.snapshots = run.snapshots
          /\ run'.system = run.system /\ run'.errors = errors
      BY <2>2
    <2>6. steady' => LoadedKnown' /\ ListedKnown'
      BY <2>1, <2>3, <2>5 DEF LoadedKnown, ListedKnown, Loaded
    <2>7. steady' => DetectedKnown' /\ ValidatedKnown'
      BY <2>1, <2>3, <2>4, <2>5 DEF DetectedKnown, ValidatedKnown
    <2>. QED  BY <1>0, <2>1, <2>6, <2>7 DEF Known
  <1>5. ASSUME Conclude PROVE Known'
    <2>1. machine' = machine /\ run'.step = "idle"
      BY <1>5 DEF Conclude, Idle
    <2>2. Learnt'
      BY <2>1 DEF LoadedKnown, ListedKnown, DetectedKnown, ValidatedKnown
    <2>3. CASE steady
      <3>1. Detected(run.system, machine') /\ said' = VerdictOf(machine', run.system, installed')
        BY <1>5, <2>1, <2>3, ConcludeSays
      <3>2. SaidKnown'
        BY <3>1 DEF SaidKnown
      <3>. QED  BY <2>2, <3>2 DEF Known
    <2>4. CASE ~steady
      <3>1. said' = "nothing"
        BY <1>5, <2>4 DEF Conclude
      <3>. QED  BY <2>2, <3>1 DEF Known, SaidKnown
    <2>. QED  BY <2>3, <2>4
  <1>6. ASSUME Change \/ RemoveMenu PROVE Known'
    <2>1. steady' = FALSE /\ said' = "nothing"
      BY <1>6 DEF Change, RemoveMenu
    <2>. QED  BY <2>1 DEF Known, SaidKnown
  <1>7. ASSUME UNCHANGED vars PROVE Known'
    <2>1. UNCHANGED <<machine, installed, run, said, steady>>
      BY <1>7 DEF vars
    <2>2. steady' => Learnt'
      BY <2>1 DEF Known, LoadedKnown, ListedKnown, DetectedKnown, ValidatedKnown, Loaded
    <2>. QED  BY <2>1, <2>2, <1>0 DEF Known
  <1>. QED  BY <1>1, <1>2, <1>3, <1>4, <1>5, <1>6, <1>7 DEF Next

(* What a command says of a machine and its menu stands until one of them    *)
(* changes, on every machine without two files of one name or packages with  *)
(* two releases, in whatever order the directories are read: only an `apply` *)
(* that installs makes what was pending current (main, PlanService,          *)
(* StatusService, KernelDiscovery).                                          *)
THEOREM VerdictStandsAlways == Spec => VerdictStands
  <1>1. ASSUME Seen, Known, [Next]_vars, said # "nothing", said' # said, Unambiguous(machine)
        PROVE  \/ said' = "nothing"
               \/ said = "pending" /\ said' = "current" /\ installed' # installed
    <2>1. CASE Conclude /\ steady
      <3> DEFINE found == run.system
      <3>1. /\ Detected(found, machine)
            /\ \/ said' = VerdictOf(machine, found, installed)
               \/ /\ VerdictOf(machine, found, installed) = "pending"
                  /\ said' = "current" /\ installed' # installed
        BY <1>1, <2>1, ConcludeSays
      <3>2. PICK system : Detected(system, machine) /\ said = VerdictOf(machine, system, installed)
        BY <1>1 DEF Known, SaidKnown
      <3>3. system = found
        BY <1>1, <3>1, <3>2, DetectedSame DEF Seen
      <3>. QED  BY <1>1, <3>1, <3>2, <3>3
    <2>2. CASE Conclude /\ ~steady
      BY <2>2 DEF Conclude
    <2>3. CASE \E command \in Commands : LoadConfig(command)
      BY <1>1, <2>3 DEF LoadConfig
    <2>4. CASE ListSnapshots \/ Detect \/ ValidateSystem
      BY <1>1, <2>4 DEF ListSnapshots, Detect, ValidateSystem
    <2>5. CASE Change \/ RemoveMenu
      BY <2>5 DEF Change, RemoveMenu
    <2>6. CASE UNCHANGED vars
      BY <1>1, <2>6 DEF vars
    <2>. QED  BY <1>1, <2>1, <2>2, <2>3, <2>4, <2>5, <2>6 DEF Next
  <1>2. Seen /\ Known /\ [Next]_vars =>
          [said # "nothing" /\ said' # said /\ Unambiguous(machine) =>
             \/ said' = "nothing"
             \/ said = "pending" /\ said' = "current" /\ installed' # installed]_vars
    BY <1>1
  <1>3. Seen /\ Known /\ [Next]_vars => Seen' /\ Known'
    BY SeenStep, KnownStep
  <1>. QED  BY <1>2, <1>3, SeenInit, KnownInit, PTL DEF Spec, VerdictStands

==============================================================================
