---------------------------- MODULE PiecesProofs ----------------------------
(***************************************************************************)
(* Facts about counting and cutting at separators, for sequences over any  *)
(* set, and about the first place of a set of places.                      *)
(***************************************************************************)
EXTENDS Pieces, SequencesExt, FiniteSetsExt, FiniteSetTheorems, SequenceTheorems, WellFoundedInduction, TLAPS

\* A set of natural numbers that is not empty has a least element.
LEMMA LeastNumber ==
  ASSUME NEW I \in SUBSET Nat, I # {}
  PROVE  \E x \in I : \A y \in I : x <= y
  <1> DEFINE Before == OpToRel(<, Nat)
  <1>1. PICK x \in I : \A y \in I : <<y, x>> \notin Before
    <2>1. IsWellFoundedOn(Before, Nat)
      BY NatLessThanWellFounded
    <2> HIDE DEF Before
    <2> QED
      BY <2>1, WFMin
  <1>2. ASSUME NEW y \in I PROVE x <= y
    <2>1. ~(y < x)
      <3>1. <<y, x>> \in Nat \X Nat /\ <<y, x>>[1] = y /\ <<y, x>>[2] = x
        OBVIOUS
      <3> QED
        BY <1>1, <3>1 DEF OpToRel
    <2> QED
      BY <2>1
  <1> QED
    BY <1>2

\* A set of places in a sequence has a first one.
LEMMA FirstPlace ==
  ASSUME NEW n \in Nat, NEW I \in SUBSET (1..n), I # {}
  PROVE  Min(I) \in I /\ \A i \in I : Min(I) <= i
  <1>1. I \in SUBSET Nat
    OBVIOUS
  <1>2. PICK x \in I : \A y \in I : x <= y
    BY <1>1, LeastNumber
  <1> QED
    BY <1>2 DEF Min

\* And a last one.
LEMMA LastPlace ==
  ASSUME NEW n \in Nat, NEW I \in SUBSET (1..n), I # {}
  PROVE  Max(I) \in I /\ \A i \in I : Max(I) >= i
  <1> DEFINE J == {j \in Nat : n - j \in I}
  <1>1. J \in SUBSET Nat /\ J # {}
    <2>1. PICK i \in I : TRUE
      OBVIOUS
    <2>2. n - i \in Nat /\ n - (n - i) = i
      OBVIOUS
    <2> QED
      BY <2>2
  <1>2. PICK x \in J : \A y \in J : x <= y
    <2> HIDE DEF J
    <2> QED
      BY <1>1, LeastNumber
  <1>3. ASSUME NEW i \in I PROVE n - x >= i
    <2>1. n - i \in Nat /\ n - (n - i) = i
      OBVIOUS
    <2>2. x <= n - i
      BY <1>2, <2>1
    <2> QED
      BY <2>2
  <1>4. n - x \in I
    BY <1>2
  <1> QED
    BY <1>3, <1>4 DEF Max

-----------------------------------------------------------------------------
(* Counting. *)

\* The places that are counted are finitely many, and none beyond the first n.
LEMMA CountRange ==
  ASSUME NEW s, NEW d, NEW n \in Nat
  PROVE  /\ IsFiniteSet({i \in 1..n : s[i] = d})
         /\ Seps(s, d, n) \in 0..n
         /\ Seps(s, d, 0) = 0
  <1> DEFINE Q == {i \in 1..n : s[i] = d}
  <1>1. IsFiniteSet(1..n) /\ Cardinality(1..n) = n
    <2>1. 1 \in Int /\ n \in Int
      OBVIOUS
    <2>2. IsFiniteSet(1..n) /\ Cardinality(1..n) = IF 1 > n THEN 0 ELSE n - 1 + 1
      BY <2>1, FS_Interval
    <2> QED
      BY <2>2
  <1>2. Q \in SUBSET (1..n)
    OBVIOUS
  <1>3. IsFiniteSet(Q) /\ Cardinality(Q) <= n
    BY <1>1, <1>2, FS_Subset
  <1>4. Cardinality(Q) \in Nat
    BY <1>3, FS_CardinalityType
  <1>5. {i \in 1..0 : s[i] = d} = {}
    OBVIOUS
  <1>6. Seps(s, d, 0) = 0
    BY <1>5, FS_EmptySet DEF Seps
  <1>7. Seps(s, d, n) \in 0..n
    BY <1>3, <1>4 DEF Seps
  <1> QED
    BY <1>3, <1>6, <1>7

\* One place more is one separator more, if it holds one.
LEMMA CountNext ==
  ASSUME NEW s, NEW d, NEW n \in Nat
  PROVE  Seps(s, d, n + 1) = IF s[n + 1] = d THEN Seps(s, d, n) + 1 ELSE Seps(s, d, n)
  <1> DEFINE Q == {i \in 1..n : s[i] = d}
             R == {i \in 1..(n + 1) : s[i] = d}
  <1>1. IsFiniteSet(Q)
    BY CountRange
  <1>2. CASE s[n + 1] = d
    <2>1. R = Q \cup {n + 1} /\ n + 1 \notin Q
      BY <1>2
    <2> HIDE DEF Q, R
    <2>2. Cardinality(R) = Cardinality(Q) + 1
      BY <1>1, <2>1, FS_AddElement
    <2> QED
      BY <1>2, <2>2 DEF Seps, Q, R
  <1>3. CASE s[n + 1] # d
    <2>1. R = Q
      BY <1>3
    <2> QED
      BY <1>3, <2>1 DEF Seps
  <1> QED
    BY <1>2, <1>3

\* Between two places there are only more separators, just as many if none of
\* the places in between holds one, more if one does.
LEMMA CountGrows ==
  ASSUME NEW s, NEW d, NEW m \in Nat, NEW n \in Nat, m <= n
  PROVE  /\ Seps(s, d, m) <= Seps(s, d, n)
         /\ (\A i \in (m + 1)..n : s[i] # d) => Seps(s, d, m) = Seps(s, d, n)
         /\ (\E i \in (m + 1)..n : s[i] = d) => Seps(s, d, m) < Seps(s, d, n)
  <1> DEFINE Q == {i \in 1..m : s[i] = d}
             R == {i \in 1..n : s[i] = d}
  <1>1. Q \in SUBSET R
    OBVIOUS
  <1>2. IsFiniteSet(R) /\ Cardinality(R) \in Nat /\ Cardinality(Q) \in Nat
    <2>1. IsFiniteSet(R) /\ IsFiniteSet(Q)
      BY CountRange
    <2> HIDE DEF Q, R
    <2> QED
      BY <2>1, FS_CardinalityType
  <1>3. /\ Cardinality(Q) <= Cardinality(R)
        /\ Cardinality(R) = Cardinality(Q) => R = Q
    <2> HIDE DEF Q, R
    <2> QED
      BY <1>1, <1>2, FS_Subset
  <1>4. ASSUME \A i \in (m + 1)..n : s[i] # d PROVE R = Q
    BY <1>4
  <1>5. ASSUME NEW i \in (m + 1)..n, s[i] = d PROVE R # Q
    <2>1. i \in R /\ i \notin Q
      BY <1>5
    <2> QED
      BY <2>1
  <1> HIDE DEF Q, R
  <1>6. Seps(s, d, m) = Cardinality(Q) /\ Seps(s, d, n) = Cardinality(R)
    BY DEF Seps, Q, R
  <1>7. (\E i \in (m + 1)..n : s[i] = d) => R # Q
    BY <1>5
  <1> QED
    BY <1>2, <1>3, <1>4, <1>6, <1>7

\* What is counted is there in each sequence that begins the same way.
LEMMA CountAgrees ==
  ASSUME NEW s, NEW t, NEW d, NEW n \in Nat, \A i \in 1..n : s[i] = t[i]
  PROVE  Seps(s, d, n) = Seps(t, d, n)
  <1>1. {i \in 1..n : s[i] = d} = {i \in 1..n : t[i] = d}
    OBVIOUS
  <1> QED
    BY <1>1 DEF Seps

-----------------------------------------------------------------------------
(* Cutting. *)

\* What a cut is: there is one such place at most.
IsCut(s, d, k, i) ==
    /\ i \in 1..(Len(s) + 1)
    /\ i <= Len(s) => s[i] = d
    /\ Seps(s, d, i - 1) = k - 1

LEMMA CutIsUnique ==
  ASSUME NEW S, NEW s \in Seq(S), NEW d, NEW k \in Nat \ {0},
         NEW i, IsCut(s, d, k, i)
  PROVE  Cut(s, d, k) = i
  <1>1. Len(s) \in Nat
    BY LenProperties
  <1>2. ASSUME NEW a, NEW b, IsCut(s, d, k, a), IsCut(s, d, k, b), a < b
        PROVE  FALSE
    <2>1. a \in 1..Len(s) /\ s[a] = d /\ a \in Nat /\ b - 1 \in Nat /\ a <= b - 1 /\ a - 1 \in Nat
      BY <1>1, <1>2 DEF IsCut
    <2>2. Seps(s, d, a - 1) < Seps(s, d, b - 1)
      <3>1. a \in ((a - 1) + 1)..(b - 1) /\ a - 1 <= b - 1
        BY <2>1
      <3> QED
        BY <2>1, <3>1, CountGrows
    <2>3. Seps(s, d, a - 1) = Seps(s, d, b - 1) /\ Seps(s, d, a - 1) \in Nat
      BY <1>2, <2>1, CountRange DEF IsCut
    <2> QED
      BY <2>2, <2>3
  <1>3. PICK c : c = Cut(s, d, k)
    OBVIOUS
  <1>4. IsCut(s, d, k, c)
    BY <1>3 DEF IsCut, Cut
  <1>5. ~(c < i) /\ ~(i < c)
    BY <1>2, <1>4
  <1> QED
    BY <1>1, <1>3, <1>4, <1>5 DEF IsCut

\* There is one for every piece that s has.
LEMMA CutExists ==
  ASSUME NEW S, NEW s \in Seq(S), NEW d, NEW k \in 1..(Seps(s, d, Len(s)) + 1)
  PROVE  IsCut(s, d, k, Cut(s, d, k))
  <1> DEFINE n == Len(s)
             J == {i \in Nat : i <= n /\ Seps(s, d, i) >= k}
  <1>1. n \in Nat /\ Seps(s, d, n) \in 0..n /\ k \in Nat \ {0}
    <2>1. n \in Nat
      BY LenProperties
    <2>2. Seps(s, d, n) \in 0..n
      BY <2>1, CountRange
    <2> QED
      BY <2>1, <2>2
  <1>2. CASE Seps(s, d, n) = k - 1
    <2>1. IsCut(s, d, k, n + 1)
      BY <1>1, <1>2 DEF IsCut
    <2> QED
      BY <1>1, <2>1, CutIsUnique
  <1>3. CASE Seps(s, d, n) # k - 1
    <2>1. n \in J
      BY <1>1, <1>3
    <2>2. PICK x \in J : \A y \in J : x <= y
      <3>1. J \in SUBSET Nat
        OBVIOUS
      <3> QED
        BY <2>1, <3>1, LeastNumber
    <2>3. x # 0
      <3>1. Seps(s, d, 0) = 0
        BY <1>1, CountRange
      <3> QED
        BY <1>1, <2>2, <3>1
    <2>4. x - 1 \in Nat /\ (x - 1) + 1 = x /\ x <= n /\ x \in Nat
      BY <2>2, <2>3
    <2>5. Seps(s, d, x - 1) \in Nat /\ ~(Seps(s, d, x - 1) >= k)
      <3>1. x - 1 \notin J
        BY <2>2, <2>4
      <3>2. Seps(s, d, x - 1) \in 0..(x - 1)
        BY <2>4, CountRange
      <3> QED
        BY <1>1, <2>4, <3>1, <3>2
    <2>6. Seps(s, d, x) = IF s[x] = d THEN Seps(s, d, x - 1) + 1 ELSE Seps(s, d, x - 1)
      <3>1. Seps(s, d, (x - 1) + 1) =
              IF s[(x - 1) + 1] = d THEN Seps(s, d, x - 1) + 1 ELSE Seps(s, d, x - 1)
        BY <2>4, CountNext
      <3> QED
        BY <2>4, <3>1
    <2>7. Seps(s, d, x) >= k
      BY <2>2
    <2>8. s[x] = d /\ Seps(s, d, x - 1) = k - 1
      BY <1>1, <2>5, <2>6, <2>7
    <2>9. IsCut(s, d, k, x)
      BY <1>1, <2>4, <2>8 DEF IsCut
    <2> QED
      BY <1>1, <2>9, CutIsUnique
  <1> QED
    BY <1>2, <1>3

-----------------------------------------------------------------------------
(* Pieces. *)

\* As far as there are separators, a cut is the place of one, and so many are
\* counted up to it.
LEMMA AtCut ==
  ASSUME NEW S, NEW s \in Seq(S), NEW d, NEW k \in 0..Seps(s, d, Len(s))
  PROVE  /\ Cut(s, d, k) \in 0..Len(s)
         /\ Seps(s, d, Cut(s, d, k)) = k
         /\ k > 0 => Cut(s, d, k) > 0 /\ s[Cut(s, d, k)] = d
  <1> DEFINE n == Len(s)
             c == Cut(s, d, k)
  <1>1. n \in Nat /\ Seps(s, d, n) \in 0..n
    <2>1. n \in Nat
      BY LenProperties
    <2> QED
      BY <2>1, CountRange
  <1>2. CASE k = 0
    <2>1. c = 0
      BY <1>2 DEF Cut
    <2>2. Seps(s, d, 0) = 0
      BY <1>1, CountRange
    <2> QED
      BY <1>1, <1>2, <2>1, <2>2
  <1>3. CASE k > 0
    <2>1. k \in 1..(Seps(s, d, Len(s)) + 1) /\ k \in Nat /\ k - 1 \in Nat
      BY <1>1, <1>3
    <2>2. IsCut(s, d, k, c)
      BY <2>1, CutExists
    <2> HIDE DEF c
    <2>3. c # n + 1
      <3> SUFFICES ASSUME c = n + 1 PROVE FALSE
        OBVIOUS
      <3>1. c - 1 = n
        BY <1>1
      <3>2. Seps(s, d, n) = k - 1
        BY <2>2, <3>1 DEF IsCut
      <3> QED
        BY <1>1, <2>1, <3>2
    <2>4. c \in 1..n /\ s[c] = d /\ Seps(s, d, c - 1) = k - 1
      BY <1>1, <2>2, <2>3 DEF IsCut
    <2>5. c - 1 \in Nat /\ (c - 1) + 1 = c
      BY <1>1, <2>4
    <2>6. Seps(s, d, (c - 1) + 1) =
            IF s[(c - 1) + 1] = d THEN Seps(s, d, c - 1) + 1 ELSE Seps(s, d, c - 1)
      BY <2>5, CountNext
    <2>7. Seps(s, d, c) = k
      BY <2>1, <2>4, <2>5, <2>6
    <2> HIDE DEF n
    <2>8. c \in 0..n /\ c > 0
      BY <1>1, <2>4
    <2> QED
      BY <2>4, <2>7, <2>8 DEF n, c
  <1>4. k = 0 \/ k > 0
    BY <1>1
  <1> QED
    BY <1>2, <1>3, <1>4

\* The cuts are in order, and a piece is what is between two of them.
LEMMA PieceBetween ==
  ASSUME NEW S, NEW s \in Seq(S), NEW d, NEW k \in 1..(Seps(s, d, Len(s)) + 1)
  PROVE  /\ Cut(s, d, k - 1) \in 0..Len(s)
         /\ Cut(s, d, k) \in (Cut(s, d, k - 1) + 1)..(Len(s) + 1)
         /\ Piece(s, d, k) \in Seq(S)
         /\ Len(Piece(s, d, k)) = Cut(s, d, k) - Cut(s, d, k - 1) - 1
         /\ \A i \in 1..Len(Piece(s, d, k)) : Piece(s, d, k)[i] = s[Cut(s, d, k - 1) + i]
  <1> DEFINE n == Len(s)
             a == Cut(s, d, k - 1)
             c == Cut(s, d, k)
  <1>1. n \in Nat /\ Seps(s, d, n) \in 0..n
    <2>1. n \in Nat
      BY LenProperties
    <2> QED
      BY <2>1, CountRange
  <1>2. k - 1 \in 0..Seps(s, d, Len(s)) /\ k \in Nat
    BY <1>1
  <1>3. a \in 0..n /\ Seps(s, d, a) = k - 1
    BY <1>2, AtCut
  <1>4. c \in 1..(n + 1) /\ Seps(s, d, c - 1) = k - 1
    BY CutExists DEF IsCut
  <1>5. a < c
    <2> SUFFICES ASSUME c <= a PROVE FALSE
      <3> HIDE DEF a, c, n
      <3> QED
        BY <1>1, <1>3, <1>4
    <2>1. IsCut(s, d, k, c)
      BY CutExists
    <2> HIDE DEF a, c, n
    <2>2. c \in 1..n /\ c - 1 \in Nat /\ c - 1 <= a /\ a \in Nat /\ c \in ((c - 1) + 1)..a
      BY <1>1, <1>3, <1>4
    <2>3. s[c] = d
      BY <2>1, <2>2, <1>1 DEF IsCut, n
    <2>4. Seps(s, d, c - 1) < Seps(s, d, a)
      BY <2>2, <2>3, CountGrows
    <2> QED
      BY <1>2, <1>3, <1>4, <2>4
  <1> HIDE DEF a, c, n
  <1>6. c \in (a + 1)..(n + 1)
    BY <1>1, <1>3, <1>4, <1>5
  <1>7. \A i \in (a + 1)..(c - 1) : s[i] \in S
    <2>1. (a + 1)..(c - 1) \subseteq 1..n
      BY <1>1, <1>3, <1>6
    <2> QED
      BY <2>1, ElementOfSeq DEF n
  <1>8. /\ SubSeq(s, a + 1, c - 1) \in Seq(S)
        /\ Len(SubSeq(s, a + 1, c - 1)) = IF a + 1 <= c - 1 THEN c - 1 - (a + 1) + 1 ELSE 0
        /\ \A i \in 1..(c - 1 - (a + 1) + 1) : SubSeq(s, a + 1, c - 1)[i] = s[a + 1 + i - 1]
    <2>1. a + 1 \in Int /\ c - 1 \in Int
      BY <1>3, <1>4
    <2> QED
      BY <1>7, <2>1, SubSeqProperties
  <1>9. Piece(s, d, k) = SubSeq(s, a + 1, c - 1)
    BY DEF Piece, a, c
  <1>10. Len(Piece(s, d, k)) = c - a - 1
    BY <1>3, <1>6, <1>8, <1>9
  <1>11. ASSUME NEW i \in 1..Len(Piece(s, d, k)) PROVE Piece(s, d, k)[i] = s[a + i]
    <2>1. i \in 1..(c - 1 - (a + 1) + 1) /\ a + 1 + i - 1 = a + i
      BY <1>3, <1>6, <1>10
    <2> QED
      BY <1>8, <1>9, <2>1
  <1> QED
    BY <1>3, <1>6, <1>8, <1>9, <1>10, <1>11 DEF a, c, n

\* Each place is in a piece or is the cut behind one.
LEMMA PlaceInPiece ==
  ASSUME NEW S, NEW s \in Seq(S), NEW d, NEW i \in 1..Len(s)
  PROVE  LET k == Seps(s, d, i - 1) + 1 IN
         /\ k \in 1..(Seps(s, d, Len(s)) + 1)
         /\ Cut(s, d, k - 1) < i
         /\ s[i] = d => Cut(s, d, k) = i
         /\ s[i] # d => i < Cut(s, d, k)
  <1> DEFINE n == Len(s)
             k == Seps(s, d, i - 1) + 1
             a == Cut(s, d, k - 1)
             c == Cut(s, d, k)
  <1>1. n \in Nat /\ i - 1 \in Nat /\ i - 1 <= n /\ i \in Nat /\ (i - 1) + 1 = i
    BY LenProperties
  <1>2. Seps(s, d, i - 1) \in Nat /\ Seps(s, d, n) \in Nat
    <2>1. Seps(s, d, i - 1) \in 0..(i - 1) /\ Seps(s, d, n) \in 0..n
      <3> HIDE DEF n
      <3> QED
        BY <1>1, CountRange
    <2> QED
      BY <1>1, <2>1
  <1>3. k \in 1..(Seps(s, d, n) + 1) /\ k - 1 = Seps(s, d, i - 1)
    <2>1. Seps(s, d, i - 1) <= Seps(s, d, n)
      <3> HIDE DEF n
      <3> QED
        BY <1>1, CountGrows
    <2> QED
      BY <1>2, <2>1
  <1>4. k - 1 \in 0..Seps(s, d, n)
    BY <1>2, <1>3
  <1>5. a \in 0..n /\ Seps(s, d, a) = k - 1 /\ (k - 1 > 0 => s[a] = d)
    <2> HIDE DEF k
    <2> QED
      BY <1>4, AtCut
  <1>6. a < i
    <2> SUFFICES ASSUME i <= a PROVE FALSE
      <3> HIDE DEF a, k
      <3> QED
        BY <1>1, <1>5
    <2> HIDE DEF a, k, n
    <2>1. a \in Nat /\ a > 0 /\ a \in ((i - 1) + 1)..a /\ i - 1 <= a
      BY <1>1, <1>5
    <2>2. Seps(s, d, 0) = 0
      BY <1>1, CountRange
    <2>3. CASE k - 1 > 0
      <3>1. Seps(s, d, i - 1) < Seps(s, d, a)
        BY <1>1, <1>5, <2>1, <2>3, CountGrows
      <3> QED
        BY <1>2, <1>3, <1>5, <3>1
    <2>4. CASE k - 1 = 0
      <3>1. a = 0
        BY <2>4 DEF a, Cut
      <3> QED
        BY <2>1, <3>1
    <2> QED
      BY <1>2, <1>3, <2>3, <2>4
  <1>7. ASSUME s[i] = d PROVE c = i
    <2>1. IsCut(s, d, k, i)
      <3> HIDE DEF k
      <3> QED
        BY <1>1, <1>3, <1>7 DEF IsCut
    <2>2. k \in Nat \ {0}
      BY <1>2
    <2> HIDE DEF k
    <2> QED
      BY <2>1, <2>2, CutIsUnique
  <1>8. ASSUME s[i] # d PROVE i < c
    <2>1. IsCut(s, d, k, c)
      <3> HIDE DEF k
      <3> QED
        BY <1>3, CutExists
    <2> SUFFICES ASSUME c <= i PROVE FALSE
      <3> HIDE DEF c, k
      <3> QED
        BY <1>1, <2>1 DEF IsCut
    <2> HIDE DEF c, k
    <2>2. c \in 1..n /\ s[c] = d /\ Seps(s, d, c - 1) = k - 1
      BY <1>1, <2>1 DEF IsCut
    <2>3. c # i
      BY <1>8, <2>2
    <2> HIDE DEF n
    <2>4. c - 1 \in Nat /\ c - 1 <= i - 1 /\ c \in ((c - 1) + 1)..(i - 1)
      BY <1>1, <2>2, <2>3
    <2>5. Seps(s, d, c - 1) < Seps(s, d, i - 1)
      BY <1>1, <2>2, <2>4, CountGrows
    <2> QED
      BY <1>2, <1>3, <2>2, <2>5
  <1> QED
    BY <1>3, <1>6, <1>7, <1>8

\* The pieces are a sequence of sequences.
LEMMA SplitType ==
  ASSUME NEW S, NEW s \in Seq(S), NEW d
  PROVE  /\ Split(s, d) \in Seq(Seq(S))
         /\ Len(Split(s, d)) = Seps(s, d, Len(s)) + 1
         /\ Seps(s, d, Len(s)) \in Nat
         /\ \A k \in 1..(Seps(s, d, Len(s)) + 1) : Split(s, d)[k] = Piece(s, d, k)
  <1> DEFINE n == Seps(s, d, Len(s)) + 1
  <1>1. Seps(s, d, Len(s)) \in Nat
    <2>1. Len(s) \in Nat
      BY LenProperties
    <2>2. Seps(s, d, Len(s)) \in 0..Len(s)
      BY <2>1, CountRange
    <2> QED
      BY <2>1, <2>2
  <1>2. n \in Nat
    BY <1>1
  <1>3. \A k \in 1..n : Piece(s, d, k) \in Seq(S)
    BY PieceBetween
  <1>4. Split(s, d) = [k \in 1..n |-> Piece(s, d, k)]
    BY DEF Split
  <1> HIDE DEF n
  <1>5. Split(s, d) \in [1..n -> Seq(S)]
    BY <1>3, <1>4
  <1>6. Split(s, d) \in Seq(Seq(S)) /\ Len(Split(s, d)) = n
    BY <1>2, <1>5
  <1>7. \A k \in 1..n : Split(s, d)[k] = Piece(s, d, k)
    BY <1>4
  <1> QED
    BY <1>1, <1>6, <1>7 DEF n

\* A sequence is known by its pieces: the first cut that differed would end two
\* pieces of different lengths.
LEMMA SplitIsInjective ==
  ASSUME NEW S, NEW s \in Seq(S), NEW t \in Seq(S), NEW d, Split(s, d) = Split(t, d)
  PROVE  s = t
  <1> DEFINE n == Seps(s, d, Len(s)) + 1
  <1>1. /\ n \in Nat /\ n >= 1
        /\ Seps(s, d, Len(s)) = Seps(t, d, Len(t)) /\ Seps(s, d, Len(s)) \in Nat
        /\ Len(s) \in Nat /\ Len(t) \in Nat
    <2>1. /\ Len(Split(s, d)) = n /\ Seps(s, d, Len(s)) \in Nat
          /\ Len(Split(t, d)) = Seps(t, d, Len(t)) + 1 /\ Seps(t, d, Len(t)) \in Nat
      BY SplitType
    <2>2. Len(s) \in Nat /\ Len(t) \in Nat
      BY LenProperties
    <2> QED
      BY <2>1, <2>2
  <1>2. \A k \in 1..n : Piece(s, d, k) = Piece(t, d, k)
    BY <1>1, SplitType
  <1>3. \A k \in 0..n : Cut(s, d, k) = Cut(t, d, k)
    <2> DEFINE D == {k \in 0..n : Cut(s, d, k) # Cut(t, d, k)}
    <2> SUFFICES ASSUME D # {} PROVE FALSE
      OBVIOUS
    <2>1. PICK k \in D : \A j \in D : k <= j
      <3>1. D \in SUBSET Nat
        OBVIOUS
      <3> HIDE DEF D
      <3> QED
        BY <3>1, LeastNumber
    <2>2. k \in 0..n /\ Cut(s, d, k) # Cut(t, d, k)
      BY <2>1
    <2>3. k # 0
      BY <2>2 DEF Cut
    <2> HIDE DEF n
    <2>4. k - 1 \in 0..n /\ k \in 1..n /\ ~(k <= k - 1)
      BY <1>1, <2>2, <2>3
    <2>5. Cut(s, d, k - 1) = Cut(t, d, k - 1)
      BY <2>1, <2>4
    <2>6. Piece(s, d, k) = Piece(t, d, k)
      BY <1>2, <2>4
    <2>7. /\ Cut(s, d, k) \in Int /\ Cut(s, d, k - 1) \in Int
          /\ Len(Piece(s, d, k)) = Cut(s, d, k) - Cut(s, d, k - 1) - 1
      BY <2>4, PieceBetween DEF n
    <2>8. /\ Cut(t, d, k) \in Int /\ Cut(t, d, k - 1) \in Int
          /\ Len(Piece(t, d, k)) = Cut(t, d, k) - Cut(t, d, k - 1) - 1
      <3>1. k \in 1..(Seps(t, d, Len(t)) + 1)
        BY <1>1, <2>4 DEF n
      <3> QED
        BY <3>1, PieceBetween
    <2> QED
      BY <2>2, <2>5, <2>6, <2>7, <2>8
  <1>4. Cut(s, d, n) = Len(s) + 1 /\ Cut(t, d, n) = Len(t) + 1
    <2>1. IsCut(s, d, n, Len(s) + 1)
      BY <1>1 DEF IsCut
    <2>2. IsCut(t, d, n, Len(t) + 1)
      BY <1>1 DEF IsCut
    <2> HIDE DEF n
    <2>3. n \in Nat \ {0}
      BY <1>1
    <2> QED
      BY <2>1, <2>2, <2>3, CutIsUnique
  <1>5. Len(s) = Len(t)
    <2>1. n \in 0..n
      BY <1>1
    <2> HIDE DEF n
    <2> QED
      BY <1>1, <1>3, <1>4, <2>1
  <1>6. ASSUME NEW i \in 1..Len(s) PROVE s[i] = t[i]
    <2> DEFINE k == Seps(s, d, i - 1) + 1
               a == Cut(s, d, k - 1)
               c == Cut(s, d, k)
    <2>1. /\ k \in 1..n /\ a < i
          /\ s[i] = d => c = i
          /\ s[i] # d => i < c
      BY PlaceInPiece
    <2> HIDE DEF k, n
    <2>2. k - 1 \in 0..n /\ k \in 0..n
      BY <1>1, <2>1
    <2>3. Cut(t, d, k - 1) = a /\ Cut(t, d, k) = c
      BY <1>3, <2>2
    <2>4. k \in 1..(Seps(t, d, Len(t)) + 1)
      BY <1>1, <2>1 DEF n
    <2>5. CASE s[i] = d
      <3>1. IsCut(t, d, k, Cut(t, d, k))
        BY <2>4, CutExists
      <3>2. Cut(t, d, k) = i
        BY <2>1, <2>3, <2>5
      <3>3. i <= Len(t)
        BY <1>1, <1>5
      <3> QED
        BY <2>5, <3>1, <3>2, <3>3 DEF IsCut
    <2>6. CASE s[i] # d
      <3>1. /\ a \in 0..Len(s) /\ c \in (a + 1)..(Len(s) + 1)
            /\ Len(Piece(s, d, k)) = c - a - 1
            /\ \A j \in 1..Len(Piece(s, d, k)) : Piece(s, d, k)[j] = s[a + j]
        BY <2>1, PieceBetween DEF n
      <3>2. \A j \in 1..Len(Piece(t, d, k)) : Piece(t, d, k)[j] = t[Cut(t, d, k - 1) + j]
        BY <2>4, PieceBetween
      <3> HIDE DEF a, c
      <3> DEFINE j == i - a
      <3>3. j \in 1..(c - a - 1) /\ a + j = i
        BY <1>1, <2>1, <2>6, <3>1
      <3> HIDE DEF j
      <3>4. Piece(s, d, k)[j] = s[i]
        BY <3>1, <3>3
      <3>5. Piece(t, d, k) = Piece(s, d, k)
        BY <1>2, <2>1
      <3>6. Piece(t, d, k)[j] = t[i]
        BY <2>3, <3>1, <3>2, <3>3, <3>5
      <3> QED
        BY <3>4, <3>5, <3>6
    <2> QED
      BY <2>5, <2>6
  <1> QED
    BY <1>5, <1>6, SeqEqual

-----------------------------------------------------------------------------
(* The rest of a sequence behind a cut. *)

\* t is what follows the place p in s.
IsRest(t, s, p) ==
    /\ Len(s) = p + Len(t)
    /\ \A i \in 1..Len(t) : t[i] = s[p + i]

\* In the rest the separators are counted from there.
LEMMA CountShifts ==
  ASSUME NEW S, NEW s \in Seq(S), NEW t \in Seq(S), NEW d, NEW p \in 0..Len(s),
         IsRest(t, s, p), NEW n \in 0..Len(t)
  PROVE  Seps(s, d, p + n) = Seps(s, d, p) + Seps(t, d, n)
  <1> DEFINE Wrong == {i \in 0..Len(t) : Seps(s, d, p + i) # Seps(s, d, p) + Seps(t, d, i)}
  <1>1. Len(s) \in Nat /\ Len(t) \in Nat /\ p \in Nat
    BY LenProperties
  <1> SUFFICES ASSUME Wrong # {} PROVE FALSE
    OBVIOUS
  <1>2. PICK i \in Wrong : \A j \in Wrong : i <= j
    <2>1. Wrong \in SUBSET Nat
      BY <1>1
    <2> HIDE DEF Wrong
    <2> QED
      BY <2>1, LeastNumber
  <1>3. i \in 0..Len(t) /\ Seps(s, d, p + i) # Seps(s, d, p) + Seps(t, d, i)
    BY <1>2
  <1>4. Seps(s, d, p) \in Nat
    <2>1. Seps(s, d, p) \in 0..p
      BY <1>1, CountRange
    <2> QED
      BY <1>1, <2>1
  <1>5. i # 0
    <2>1. Seps(t, d, 0) = 0
      BY <1>1, CountRange
    <2>2. p + 0 = p
      BY <1>1
    <2> QED
      BY <1>3, <1>4, <2>1, <2>2
  <1>6. i - 1 \in 0..Len(t) /\ i \in 1..Len(t) /\ ~(i <= i - 1) /\ i - 1 \in Nat /\ (i - 1) + 1 = i
    BY <1>1, <1>3, <1>5
  <1>7. Seps(s, d, p + (i - 1)) = Seps(s, d, p) + Seps(t, d, i - 1)
    BY <1>2, <1>6
  <1>8. p + (i - 1) \in Nat /\ (p + (i - 1)) + 1 = p + i
    BY <1>1, <1>6
  <1>9. Seps(s, d, (p + (i - 1)) + 1) =
          IF s[(p + (i - 1)) + 1] = d THEN Seps(s, d, p + (i - 1)) + 1 ELSE Seps(s, d, p + (i - 1))
    BY <1>8, CountNext
  <1>10. Seps(t, d, (i - 1) + 1) =
           IF t[(i - 1) + 1] = d THEN Seps(t, d, i - 1) + 1 ELSE Seps(t, d, i - 1)
    BY <1>6, CountNext
  <1>11. t[i] = s[p + i]
    BY <1>6 DEF IsRest
  <1>12. Seps(t, d, i - 1) \in Nat
    <2>1. Seps(t, d, i - 1) \in 0..(i - 1)
      BY <1>6, CountRange
    <2> QED
      BY <1>6, <2>1
  <1>13. Seps(s, d, p + i) = IF t[i] = d THEN Seps(s, d, p + (i - 1)) + 1 ELSE Seps(s, d, p + (i - 1))
    BY <1>8, <1>9, <1>11
  <1>14. Seps(t, d, i) = IF t[i] = d THEN Seps(t, d, i - 1) + 1 ELSE Seps(t, d, i - 1)
    BY <1>6, <1>10
  <1> QED
    BY <1>3, <1>4, <1>7, <1>12, <1>13, <1>14

\* And behind a separator it is cut at the same places.
LEMMA CutShifts ==
  ASSUME NEW S, NEW s \in Seq(S), NEW t \in Seq(S), NEW d, NEW p \in 0..Len(s),
         IsRest(t, s, p), p > 0 => s[p] = d,
         NEW k \in 0..(Seps(t, d, Len(t)) + 1)
  PROVE  Cut(s, d, Seps(s, d, p) + k) = p + Cut(t, d, k)
  <1> DEFINE m == Seps(s, d, p)
  <1>1. Len(s) \in Nat /\ Len(t) \in Nat /\ p \in Nat
    BY LenProperties
  <1>2. m \in Nat /\ Seps(t, d, Len(t)) \in Nat
    <2>1. m \in 0..p /\ Seps(t, d, Len(t)) \in 0..Len(t)
      BY <1>1, CountRange
    <2> QED
      BY <1>1, <2>1
  <1>3. CASE k = 0
    <2>1. Cut(t, d, k) = 0 /\ m + k = m
      BY <1>2, <1>3 DEF Cut
    <2>2. CASE p = 0
      <3>1. m = 0
        BY <1>1, <2>2, CountRange
      <3> HIDE DEF m
      <3>2. Cut(s, d, m) = 0
        BY <3>1 DEF Cut
      <3> QED
        BY <2>1, <2>2, <3>2 DEF m
    <2>3. CASE p > 0
      <3>1. p - 1 \in Nat /\ (p - 1) + 1 = p /\ p \in 1..(Len(s) + 1)
        BY <1>1, <2>3
      <3>2. Seps(s, d, (p - 1) + 1) =
              IF s[(p - 1) + 1] = d THEN Seps(s, d, p - 1) + 1 ELSE Seps(s, d, p - 1)
        BY <3>1, CountNext
      <3>3. Seps(s, d, p - 1) \in Nat
        <4>1. Seps(s, d, p - 1) \in 0..(p - 1)
          BY <3>1, CountRange
        <4> QED
          BY <3>1, <4>1
      <3>4. m = Seps(s, d, p - 1) + 1
        BY <2>3, <3>1, <3>2
      <3> HIDE DEF m
      <3>5. IsCut(s, d, m, p) /\ m \in Nat \ {0}
        BY <2>3, <3>1, <3>3, <3>4 DEF IsCut
      <3>6. Cut(s, d, m) = p
        BY <3>5, CutIsUnique
      <3> QED
        BY <1>1, <2>1, <3>6 DEF m
    <2> QED
      BY <1>1, <2>2, <2>3
  <1>4. CASE k # 0
    <2> DEFINE c == Cut(t, d, k)
    <2>1. k \in 1..(Seps(t, d, Len(t)) + 1) /\ k \in Nat
      BY <1>2, <1>4
    <2>2. c \in 1..(Len(t) + 1) /\ (c <= Len(t) => t[c] = d) /\ Seps(t, d, c - 1) = k - 1
      BY <2>1, CutExists DEF IsCut
    <2> HIDE DEF c, m
    <2>3. Len(s) = p + Len(t)
      BY DEF IsRest
    <2>4. c - 1 \in 0..Len(t) /\ p + c \in 1..(Len(s) + 1) /\ (p + c) - 1 = p + (c - 1)
      BY <1>1, <2>2, <2>3
    <2>5. Seps(s, d, p + (c - 1)) = m + Seps(t, d, c - 1)
      BY <2>4, CountShifts DEF m
    <2>6. ASSUME p + c <= Len(s) PROVE s[p + c] = d
      <3>1. c \in 1..Len(t)
        BY <1>1, <2>2, <2>3, <2>6
      <3> QED
        BY <2>2, <3>1 DEF IsRest
    <2>7. Seps(s, d, (p + c) - 1) = (m + k) - 1
      BY <1>2, <2>1, <2>2, <2>4, <2>5
    <2>8. IsCut(s, d, m + k, p + c)
      BY <2>4, <2>6, <2>7 DEF IsCut
    <2>9. m + k \in Nat \ {0}
      BY <1>2, <2>1
    <2>10. Cut(s, d, m + k) = p + c
      BY <2>8, <2>9, CutIsUnique
    <2> QED
      BY <2>10 DEF c, m
  <1> QED
    BY <1>3, <1>4

\* The pieces of the rest are the last pieces of the whole.
LEMMA SplitRest ==
  ASSUME NEW S, NEW s \in Seq(S), NEW t \in Seq(S), NEW d, NEW p \in 0..Len(s),
         IsRest(t, s, p), p > 0 => s[p] = d
  PROVE  /\ Len(Split(s, d)) = Seps(s, d, p) + Len(Split(t, d))
         /\ \A k \in 1..Len(Split(t, d)) : Split(s, d)[Seps(s, d, p) + k] = Split(t, d)[k]
  <1> DEFINE m == Seps(s, d, p)
             n == Seps(t, d, Len(t)) + 1
  <1>1. Len(s) \in Nat /\ Len(t) \in Nat /\ p \in Nat /\ Len(s) = p + Len(t)
    BY LenProperties DEF IsRest
  <1>2. m \in Nat
    <2>1. m \in 0..p
      BY <1>1, CountRange
    <2> QED
      BY <1>1, <2>1
  <1>3. /\ Len(Split(t, d)) = n /\ n \in Nat
        /\ \A k \in 1..n : Split(t, d)[k] = Piece(t, d, k)
    BY SplitType
  <1>4. Seps(s, d, Len(s)) + 1 = m + n
    <2>1. Len(t) \in 0..Len(t)
      BY <1>1
    <2>2. Seps(s, d, p + Len(t)) = m + Seps(t, d, Len(t))
      BY <2>1, CountShifts
    <2>3. Seps(t, d, Len(t)) \in Nat
      BY SplitType
    <2> QED
      BY <1>1, <1>2, <2>2, <2>3
  <1>5. /\ Len(Split(s, d)) = m + n
        /\ \A k \in 1..(m + n) : Split(s, d)[k] = Piece(s, d, k)
    BY <1>4, SplitType
  <1>6. ASSUME NEW k \in 1..n PROVE Piece(s, d, m + k) = Piece(t, d, k)
    <2> DEFINE a == Cut(t, d, k - 1)
               c == Cut(t, d, k)
    <2>1. k - 1 \in 0..n /\ k \in 0..n /\ m + k \in 1..(m + n) /\ (m + k) - 1 = m + (k - 1)
      BY <1>2, <1>3
    <2>2. Cut(s, d, m + k) = p + c /\ Cut(s, d, (m + k) - 1) = p + a
      BY <2>1, CutShifts
    <2>3. /\ a \in 0..Len(t) /\ c \in (a + 1)..(Len(t) + 1)
          /\ Piece(t, d, k) \in Seq(S)
          /\ Len(Piece(t, d, k)) = c - a - 1
          /\ \A i \in 1..Len(Piece(t, d, k)) : Piece(t, d, k)[i] = t[a + i]
      BY PieceBetween
    <2>4. /\ Piece(s, d, m + k) \in Seq(S)
          /\ Len(Piece(s, d, m + k)) = (p + c) - (p + a) - 1
          /\ \A i \in 1..Len(Piece(s, d, m + k)) : Piece(s, d, m + k)[i] = s[p + a + i]
      <3>1. m + k \in 1..(Seps(s, d, Len(s)) + 1)
        BY <1>4, <2>1
      <3> HIDE DEF m, a, c
      <3> QED
        BY <2>2, <3>1, PieceBetween
    <2> HIDE DEF a, c
    <2>5. Len(Piece(s, d, m + k)) = Len(Piece(t, d, k))
      <3>1. a \in Int /\ c \in Int
        BY <2>3
      <3>2. (p + c) - (p + a) - 1 = c - a - 1
        BY <1>1, <3>1
      <3> QED
        BY <2>3, <2>4, <3>2
    <2>6. ASSUME NEW i \in 1..Len(Piece(t, d, k))
          PROVE  Piece(s, d, m + k)[i] = Piece(t, d, k)[i]
      <3>1. a + i \in 1..Len(t) /\ p + a + i = p + (a + i)
        BY <1>1, <2>3
      <3>2. t[a + i] = s[p + (a + i)]
        BY <3>1 DEF IsRest
      <3>3. Piece(s, d, m + k)[i] = s[p + a + i]
        BY <2>4, <2>5
      <3> QED
        BY <2>3, <3>1, <3>2, <3>3
    <2> QED
      BY <2>3, <2>4, <2>5, <2>6, SeqEqual
  <1>7. ASSUME NEW k \in 1..n PROVE Split(s, d)[m + k] = Split(t, d)[k]
    <2>1. m + k \in 1..(m + n)
      BY <1>2, <1>3
    <2> HIDE DEF m, n
    <2> QED
      BY <1>3, <1>5, <1>6, <2>1
  <1> HIDE DEF m, n
  <1>8. Len(Split(s, d)) = m + Len(Split(t, d))
    BY <1>3, <1>5
  <1>9. \A k \in 1..Len(Split(t, d)) : Split(s, d)[m + k] = Split(t, d)[k]
    BY <1>3, <1>7
  <1> QED
    BY <1>8, <1>9 DEF m

-----------------------------------------------------------------------------
(* Suffixes. *)

\* IsSuffix compares the sequences from their ends.
LEMMA SuffixByPlaces ==
  ASSUME NEW S, NEW s \in Seq(S), NEW t \in Seq(S)
  PROVE  IsSuffix(s, t) <=>
             /\ Len(s) <= Len(t)
             /\ \A i \in 1..Len(s) : t[Len(t) - Len(s) + i] = s[i]
  <1> DEFINE n == Len(s)
             m == Len(t)
             u == Reverse(s)
             v == Reverse(t)
  <1>1. n \in Nat /\ m \in Nat
    BY LenProperties
  <1>2. \A i \in 1..n : s[(n - i) + 1] \in S
    <2>1. \A i \in 1..n : (n - i) + 1 \in 1..n
      BY <1>1
    <2> QED
      BY <2>1, ElementOfSeq
  <1>3. \A i \in 1..m : t[(m - i) + 1] \in S
    <2>1. \A i \in 1..m : (m - i) + 1 \in 1..m
      BY <1>1
    <2> QED
      BY <2>1, ElementOfSeq
  <1>4. u = [i \in 1..n |-> s[(n - i) + 1]] /\ v = [i \in 1..m |-> t[(m - i) + 1]]
    BY DEF Reverse
  <1> HIDE DEF n, m, u, v
  <1>5. u \in [1..n -> S] /\ v \in [1..m -> S]
    BY <1>2, <1>3, <1>4
  <1>6. u \in Seq(S) /\ Len(u) = n /\ v \in Seq(S) /\ Len(v) = m
    BY <1>1, <1>5
  <1>7. IsSuffix(s, t) <=> n <= m /\ SubSeq(u, 1, n) = SubSeq(v, 1, n)
    BY <1>6 DEF IsSuffix, IsPrefix, u, v
  <1>8. CASE ~(n <= m)
    BY <1>7, <1>8 DEF n, m
  <1>9. CASE n <= m
    <2>1. /\ SubSeq(u, 1, n) \in Seq(S) /\ Len(SubSeq(u, 1, n)) = n
          /\ \A i \in 1..n : SubSeq(u, 1, n)[i] = s[(n - i) + 1]
      <3>1. /\ SubSeq(u, 1, n) \in Seq(S)
            /\ Len(SubSeq(u, 1, n)) = IF 1 <= n THEN n - 1 + 1 ELSE 0
            /\ \A i \in 1..(n - 1 + 1) : SubSeq(u, 1, n)[i] = u[1 + i - 1]
        <4>1. \A i \in 1..n : u[i] \in S
          BY <1>5
        <4> QED
          BY <1>1, <4>1, SubSeqProperties
      <3>2. \A i \in 1..n : 1 + i - 1 = i /\ i \in 1..(n - 1 + 1)
        BY <1>1
      <3>3. \A i \in 1..n : u[i] = s[(n - i) + 1]
        BY <1>4
      <3> QED
        BY <1>1, <3>1, <3>2, <3>3
    <2>2. /\ SubSeq(v, 1, n) \in Seq(S) /\ Len(SubSeq(v, 1, n)) = n
          /\ \A i \in 1..n : SubSeq(v, 1, n)[i] = t[(m - i) + 1]
      <3>1. /\ SubSeq(v, 1, n) \in Seq(S)
            /\ Len(SubSeq(v, 1, n)) = IF 1 <= n THEN n - 1 + 1 ELSE 0
            /\ \A i \in 1..(n - 1 + 1) : SubSeq(v, 1, n)[i] = v[1 + i - 1]
        <4>1. \A i \in 1..n : v[i] \in S
          <5>1. 1..n \subseteq 1..m
            BY <1>1, <1>9
          <5> QED
            BY <1>5, <5>1
        <4> QED
          BY <1>1, <4>1, SubSeqProperties
      <3>2. \A i \in 1..n : 1 + i - 1 = i /\ i \in 1..(n - 1 + 1) /\ i \in 1..m
        BY <1>1, <1>9
      <3>3. \A i \in 1..m : v[i] = t[(m - i) + 1]
        BY <1>4
      <3> QED
        BY <1>1, <3>1, <3>2, <3>3
    <2>3. SubSeq(u, 1, n) = SubSeq(v, 1, n) <=> \A i \in 1..n : s[(n - i) + 1] = t[(m - i) + 1]
      <3> DEFINE x == SubSeq(u, 1, n)
                 y == SubSeq(v, 1, n)
      <3>1. /\ x \in Seq(S) /\ Len(x) = n /\ y \in Seq(S) /\ Len(y) = n
            /\ \A i \in 1..n : x[i] = s[(n - i) + 1] /\ y[i] = t[(m - i) + 1]
        BY <2>1, <2>2
      <3> HIDE DEF x, y
      <3>2. ASSUME x = y PROVE \A i \in 1..n : s[(n - i) + 1] = t[(m - i) + 1]
        BY <3>1, <3>2
      <3>3. ASSUME \A i \in 1..n : s[(n - i) + 1] = t[(m - i) + 1] PROVE x = y
        <4>1. \A i \in 1..n : x[i] = y[i]
          BY <3>1, <3>3
        <4> QED
          BY <3>1, <4>1, SeqEqual
      <3>4. x = y <=> \A i \in 1..n : s[(n - i) + 1] = t[(m - i) + 1]
        BY <3>2, <3>3
      <3> QED
        BY <3>4 DEF x, y
    <2>4. ASSUME \A i \in 1..n : s[(n - i) + 1] = t[(m - i) + 1], NEW i \in 1..n
          PROVE  t[m - n + i] = s[i]
      <3> DEFINE j == (n - i) + 1
      <3>1. j \in 1..n /\ (n - j) + 1 = i /\ (m - j) + 1 = m - n + i
        BY <1>1
      <3> HIDE DEF j
      <3>2. s[(n - j) + 1] = t[(m - j) + 1]
        BY <2>4, <3>1
      <3> QED
        BY <3>1, <3>2
    <2>5. ASSUME \A i \in 1..n : t[m - n + i] = s[i], NEW i \in 1..n
          PROVE  s[(n - i) + 1] = t[(m - i) + 1]
      <3> DEFINE j == (n - i) + 1
      <3>1. j \in 1..n /\ m - n + j = (m - i) + 1
        BY <1>1
      <3> HIDE DEF j
      <3>2. t[m - n + j] = s[j]
        BY <2>5, <3>1
      <3> QED
        BY <3>1, <3>2 DEF j
    <2>6. (\A i \in 1..n : s[(n - i) + 1] = t[(m - i) + 1]) <=> (\A i \in 1..n : t[m - n + i] = s[i])
      BY <2>4, <2>5
    <2> QED
      BY <1>7, <1>9, <2>3, <2>6 DEF n, m
  <1> QED
    BY <1>8, <1>9

\* A sequence ends in the pieces of another exactly if it is that one or ends in
\* it behind a separator: text that is only shared does not count.
LEMMA SuffixByPieces ==
  ASSUME NEW S, NEW x \in Seq(S), NEW y \in Seq(S), NEW d \in S
  PROVE  IsSuffix(Split(x, d), Split(y, d)) <=> y = x \/ IsSuffix(<<d>> \o x, y)
  <1> DEFINE X == Split(x, d)
             Y == Split(y, d)
  <1>1. Len(x) \in Nat /\ Len(y) \in Nat
    BY LenProperties
  <1>2. X \in Seq(Seq(S)) /\ Y \in Seq(Seq(S)) /\ Len(X) \in Nat /\ Len(Y) \in Nat
    <2>1. X \in Seq(Seq(S)) /\ Y \in Seq(Seq(S))
      BY SplitType
    <2> HIDE DEF X, Y
    <2> QED
      BY <2>1, LenProperties
  <1>3. IsSuffix(X, Y) <=>
            /\ Len(X) <= Len(Y)
            /\ \A k \in 1..Len(X) : Y[Len(Y) - Len(X) + k] = X[k]
    <2> HIDE DEF X, Y
    <2> QED
      BY <1>2, SuffixByPlaces
  <1>4. /\ <<d>> \o x \in Seq(S) /\ Len(<<d>> \o x) = Len(x) + 1
        /\ (<<d>> \o x)[1] = d
        /\ \A i \in 1..Len(x) : (<<d>> \o x)[i + 1] = x[i]
    <2>1. <<d>> \in Seq(S) /\ Len(<<d>>) = 1 /\ <<d>>[1] = d
      OBVIOUS
    <2>2. /\ <<d>> \o x \in Seq(S) /\ Len(<<d>> \o x) = Len(<<d>>) + Len(x)
          /\ \A i \in 1..(Len(<<d>>) + Len(x)) :
                 (<<d>> \o x)[i] = IF i <= Len(<<d>>) THEN <<d>>[i] ELSE x[i - Len(<<d>>)]
      BY <2>1, ConcatProperties
    <2>3. /\ <<d>> \o x \in Seq(S) /\ Len(<<d>> \o x) = Len(x) + 1
          /\ \A i \in 1..(1 + Len(x)) :
                 (<<d>> \o x)[i] = IF i <= 1 THEN <<d>>[i] ELSE x[i - 1]
      BY <1>1, <2>1, <2>2
    <2>4. 1 \in 1..(1 + Len(x)) /\ 1 <= 1
      BY <1>1
    <2>5. ASSUME NEW i \in 1..Len(x) PROVE (<<d>> \o x)[i + 1] = x[i]
      <3>1. i + 1 \in 1..(1 + Len(x)) /\ ~(i + 1 <= 1) /\ (i + 1) - 1 = i
        BY <1>1
      <3> QED
        BY <2>3, <3>1
    <2> QED
      BY <2>1, <2>3, <2>4, <2>5
  <1>5. IsSuffix(<<d>> \o x, y) <=>
            /\ Len(x) + 1 <= Len(y)
            /\ \A i \in 1..(Len(x) + 1) : y[Len(y) - (Len(x) + 1) + i] = (<<d>> \o x)[i]
    <2> DEFINE dx == <<d>> \o x
    <2>1. dx \in Seq(S) /\ Len(dx) = Len(x) + 1
      BY <1>4
    <2> HIDE DEF dx
    <2>2. IsSuffix(dx, y) <=>
              /\ Len(dx) <= Len(y)
              /\ \A i \in 1..Len(dx) : y[Len(y) - Len(dx) + i] = dx[i]
      BY <2>1, SuffixByPlaces
    <2>3. IsSuffix(dx, y) <=>
              /\ Len(x) + 1 <= Len(y)
              /\ \A i \in 1..(Len(x) + 1) : y[Len(y) - (Len(x) + 1) + i] = dx[i]
      BY <2>1, <2>2
    <2> QED
      BY <2>3 DEF dx
  <1>6. ASSUME y = x PROVE IsSuffix(X, Y)
    <2>1. X = Y
      BY <1>6
    <2>2. \A k \in 1..Len(X) : Len(X) - Len(X) + k = k /\ Len(X) <= Len(X)
      BY <1>2
    <2> HIDE DEF X, Y
    <2>3. Len(X) <= Len(Y)
      BY <1>2, <2>1
    <2> QED
      BY <1>3, <2>1, <2>2, <2>3
  <1>7. ASSUME IsSuffix(<<d>> \o x, y) PROVE IsSuffix(X, Y)
    <2> DEFINE p == Len(y) - Len(x)
    <2>1. /\ Len(x) + 1 <= Len(y)
          /\ \A i \in 1..(Len(x) + 1) : y[Len(y) - (Len(x) + 1) + i] = (<<d>> \o x)[i]
      BY <1>5, <1>7
    <2>2. p \in 0..Len(y) /\ p > 0 /\ Len(y) = p + Len(x) /\ p \in Nat
      BY <1>1, <2>1
    <2>3. y[p] = d
      <3>1. 1 \in 1..(Len(x) + 1) /\ Len(y) - (Len(x) + 1) + 1 = p
        BY <1>1
      <3> QED
        BY <1>4, <2>1, <3>1
    <2>4. ASSUME NEW i \in 1..Len(x) PROVE x[i] = y[p + i]
      <3>1. i + 1 \in 1..(Len(x) + 1) /\ Len(y) - (Len(x) + 1) + (i + 1) = p + i
        BY <1>1
      <3> QED
        BY <1>4, <2>1, <3>1
    <2> HIDE DEF p
    <2>5. IsRest(x, y, p)
      BY <2>2, <2>4 DEF IsRest
    <2>6. /\ Len(Y) = Seps(y, d, p) + Len(X)
          /\ \A k \in 1..Len(X) : Y[Seps(y, d, p) + k] = X[k]
      BY <2>2, <2>3, <2>5, SplitRest
    <2>7. Seps(y, d, p) \in Nat
      <3>1. Seps(y, d, p) \in 0..p
        BY <2>2, CountRange
      <3> QED
        BY <2>2, <3>1
    <2> HIDE DEF X, Y
    <2>8. Len(Y) - Len(X) = Seps(y, d, p) /\ Len(X) <= Len(Y)
      BY <1>2, <2>6, <2>7
    <2> QED
      BY <1>3, <2>6, <2>8
  <1>8. ASSUME IsSuffix(X, Y) PROVE y = x \/ IsSuffix(<<d>> \o x, y)
    <2> DEFINE m == Len(Y) - Len(X)
               p == Cut(y, d, m)
               t == SubSeq(y, p + 1, Len(y))
    <2>1. Len(X) <= Len(Y) /\ \A k \in 1..Len(X) : Y[m + k] = X[k]
      BY <1>3, <1>8
    <2>2. Len(X) >= 1 /\ Len(Y) = Seps(y, d, Len(y)) + 1 /\ Seps(y, d, Len(y)) \in Nat
      <3>1. /\ Len(X) = Seps(x, d, Len(x)) + 1 /\ Seps(x, d, Len(x)) \in Nat
            /\ Len(Y) = Seps(y, d, Len(y)) + 1 /\ Seps(y, d, Len(y)) \in Nat
        BY SplitType
      <3> HIDE DEF X, Y
      <3> QED
        BY <3>1
    <2>3. m \in 0..Seps(y, d, Len(y)) /\ m \in Nat
      <3> HIDE DEF X, Y
      <3> QED
        BY <1>2, <2>1, <2>2
    <2>4. p \in 0..Len(y) /\ Seps(y, d, p) = m /\ (m > 0 => p > 0 /\ y[p] = d)
      <3> HIDE DEF m
      <3> QED
        BY <2>3, AtCut
    <2>5. m = 0 => p = 0
      <3> HIDE DEF m
      <3> QED
        BY DEF Cut
    <2> HIDE DEF p, X, Y
    <2>6. p > 0 => y[p] = d
      <3> HIDE DEF m
      <3> QED
        BY <2>3, <2>4, <2>5
    <2>7. /\ t \in Seq(S) /\ Len(t) = Len(y) - p
          /\ \A i \in 1..Len(t) : t[i] = y[p + i]
      <3>1. \A i \in (p + 1)..Len(y) : y[i] \in S
        <4>1. (p + 1)..Len(y) \subseteq 1..Len(y)
          BY <1>1, <2>4
        <4> QED
          BY <4>1, ElementOfSeq
      <3>2. /\ t \in Seq(S)
            /\ Len(t) = IF p + 1 <= Len(y) THEN Len(y) - (p + 1) + 1 ELSE 0
            /\ \A i \in 1..(Len(y) - (p + 1) + 1) : t[i] = y[(p + 1) + i - 1]
        BY <1>1, <2>4, <3>1, SubSeqProperties
      <3> HIDE DEF t
      <3>3. Len(t) = Len(y) - p
        BY <1>1, <2>4, <3>2
      <3>4. \A i \in 1..Len(t) : i \in 1..(Len(y) - (p + 1) + 1) /\ (p + 1) + i - 1 = p + i
        BY <1>1, <2>4, <3>3
      <3> QED
        BY <3>2, <3>3, <3>4
    <2> HIDE DEF t
    <2>8. IsRest(t, y, p) /\ Len(t) \in Nat
      BY <1>1, <2>4, <2>7 DEF IsRest
    <2>9. /\ Len(Y) = m + Len(Split(t, d))
          /\ \A k \in 1..Len(Split(t, d)) : Y[m + k] = Split(t, d)[k]
      <3>1. /\ Len(Split(y, d)) = Seps(y, d, p) + Len(Split(t, d))
            /\ \A k \in 1..Len(Split(t, d)) : Split(y, d)[Seps(y, d, p) + k] = Split(t, d)[k]
        <4>1. p \in 0..Len(y) /\ t \in Seq(S)
          BY <2>4, <2>7
        <4> HIDE DEF m
        <4> QED
          BY <2>6, <2>8, <4>1, SplitRest
      <3> HIDE DEF m
      <3> QED
        BY <2>4, <3>1 DEF Y
    <2>10. Split(t, d) \in Seq(Seq(S)) /\ Len(Split(t, d)) \in Nat
      <3>1. Split(t, d) \in Seq(Seq(S))
        BY <2>7, SplitType
      <3> QED
        BY <3>1, LenProperties
    <2>11. Len(Split(t, d)) = Len(X)
      BY <1>2, <2>9, <2>10
    <2>12. Split(t, d) = X
      <3>1. \A k \in 1..Len(X) : Split(t, d)[k] = X[k]
        <4> HIDE DEF m
        <4> QED
          BY <2>1, <2>9, <2>11
      <3> QED
        BY <1>2, <2>10, <2>11, <3>1, SeqEqual
    <2>13. t = x
      BY <2>7, <2>12, SplitIsInjective DEF X
    <2>14. CASE p = 0
      <3>1. Len(t) = Len(y) /\ \A i \in 1..Len(t) : t[i] = y[i]
        BY <1>1, <2>7, <2>14
      <3>2. t = y
        BY <2>7, <3>1, SeqEqual
      <3> QED
        BY <2>13, <3>2
    <2>15. CASE p # 0
      <3>1. /\ Len(x) + 1 <= Len(y) /\ Len(y) - (Len(x) + 1) = p - 1
            /\ p \in Nat /\ p > 0
        BY <1>1, <2>4, <2>7, <2>13, <2>15
      <3>2. ASSUME NEW i \in 1..(Len(x) + 1) PROVE y[(p - 1) + i] = (<<d>> \o x)[i]
        <4>1. CASE i = 1
          <5>1. (p - 1) + i = p
            BY <3>1, <4>1
          <5> QED
            BY <1>4, <2>6, <3>1, <4>1, <5>1
        <4>2. CASE i # 1
          <5> DEFINE j == i - 1
          <5>1. j \in 1..Len(x) /\ j + 1 = i /\ (p - 1) + i = p + j
            BY <1>1, <3>1, <4>2
          <5> HIDE DEF j
          <5>2. x[j] = y[p + j] /\ (<<d>> \o x)[j + 1] = x[j]
            BY <1>4, <2>7, <2>13, <5>1
          <5> QED
            BY <5>1, <5>2
        <4> QED
          BY <4>1, <4>2
      <3>3. IsSuffix(<<d>> \o x, y)
        BY <1>5, <3>1, <3>2
      <3> QED
        BY <3>3
    <2> QED
      BY <2>14, <2>15
  <1> QED
    BY <1>6, <1>7, <1>8
=============================================================================
