------------------------- MODULE HostAllowlistProofs -------------------------
(***************************************************************************)
(* What the allowlist answers, for names, entries and labels of any length *)
(* and any number of entries: it compares text, and decides by labels.     *)
(***************************************************************************)
EXTENDS HostAllowlist, PiecesProofs

\* A sequence of characters is empty if it has no places.
LEMMA EmptyText ==
  ASSUME NEW s \in Seq(Chars)
  PROVE  /\ Len(s) \in Nat
         /\ s = <<>> <=> Len(s) = 0
         /\ s # <<>> <=> Len(s) >= 1
         /\ \A i \in 1..Len(s) : s[i] \in Chars
         /\ DOMAIN s = 1..Len(s)
  <1>1. Len(s) \in Nat /\ DOMAIN s = 1..Len(s)
    BY LenProperties
  <1>2. Len(<<>>) = 0
    OBVIOUS
  <1>3. s # <<>> => Len(s) \in Nat \ {0}
    BY EmptySeq
  <1>4. \A i \in 1..Len(s) : s[i] \in Chars
    BY ElementOfSeq
  <1> QED
    BY <1>1, <1>2, <1>3, <1>4

\* A text of bounded length is a sequence of so many characters at most.
LEMMA TextMeans ==
  ASSUME NEW n \in Nat, NEW s
  PROVE  s \in Texts(n) <=> s \in Seq(Chars) /\ Len(s) <= n
  <1>1. ASSUME s \in Texts(n) PROVE s \in Seq(Chars) /\ Len(s) <= n
    <2>1. PICK k \in 0..n : s \in [1..k -> Chars]
      BY <1>1 DEF Texts
    <2>2. s \in Seq(Chars) /\ Len(s) = k
      BY <2>1
    <2> QED
      BY <2>1, <2>2
  <1>2. ASSUME s \in Seq(Chars), Len(s) <= n PROVE s \in Texts(n)
    <2>1. Len(s) \in 0..n /\ s \in [1..Len(s) -> Chars]
      BY <1>2, LenProperties
    <2> QED
      BY <2>1 DEF Texts
  <1> QED
    BY <1>1, <1>2

-----------------------------------------------------------------------------
(* NormalizeHost. *)

\* Lower changes no place's being a dot, a space or a slash.
LEMMA LowerMeans ==
  ASSUME NEW s \in Seq(Chars)
  PROVE  /\ Lower(s) \in Seq(Chars)
         /\ Len(Lower(s)) = Len(s)
         /\ \A i \in 1..Len(s) :
               /\ Lower(s)[i] = IF s[i] = "A" THEN "a" ELSE s[i]
               /\ Lower(s)[i] # "A"
               /\ Lower(s)[i] = "." <=> s[i] = "."
  <1>1. Len(s) \in Nat /\ DOMAIN s = 1..Len(s) /\ \A i \in 1..Len(s) : s[i] \in Chars
    BY EmptyText
  <1>2. Lower(s) = [i \in 1..Len(s) |-> IF s[i] = "A" THEN "a" ELSE s[i]]
    BY <1>1 DEF Lower
  <1>3. \A i \in 1..Len(s) : (IF s[i] = "A" THEN "a" ELSE s[i]) \in Chars
    BY <1>1 DEF Chars
  <1>4. Lower(s) \in [1..Len(s) -> Chars]
    BY <1>2, <1>3
  <1>5. Lower(s) \in Seq(Chars) /\ Len(Lower(s)) = Len(s)
    BY <1>1, <1>4
  <1>6. ASSUME NEW i \in 1..Len(s)
        PROVE  /\ Lower(s)[i] = IF s[i] = "A" THEN "a" ELSE s[i]
               /\ Lower(s)[i] # "A"
               /\ Lower(s)[i] = "." <=> s[i] = "."
    <2>1. Lower(s)[i] = IF s[i] = "A" THEN "a" ELSE s[i]
      BY <1>2
    <2> QED
      BY <2>1
  <1> QED
    BY <1>5, <1>6

\* DropDot takes off the last place or none.
LEMMA DropDotMeans ==
  ASSUME NEW s \in Seq(Chars)
  PROVE  LET n == IF s # <<>> /\ s[Len(s)] = "." THEN Len(s) - 1 ELSE Len(s) IN
         /\ DropDot(s) \in Seq(Chars)
         /\ Len(DropDot(s)) = n
         /\ n \in 0..Len(s)
         /\ \A i \in 1..n : DropDot(s)[i] = s[i]
  <1>1. Len(s) \in Nat /\ (s # <<>> => Len(s) >= 1) /\ \A i \in 1..Len(s) : s[i] \in Chars
    BY EmptyText
  <1>2. CASE s # <<>> /\ s[Len(s)] = "."
    <2> DEFINE n == Len(s) - 1
    <2>1. n \in Nat /\ n \in 0..Len(s) /\ 1..n \subseteq 1..Len(s)
      BY <1>1, <1>2
    <2>2. DropDot(s) = SubSeq(s, 1, n)
      BY <1>2 DEF DropDot, Front, Last
    <2> HIDE DEF n
    <2>3. /\ SubSeq(s, 1, n) \in Seq(Chars)
          /\ Len(SubSeq(s, 1, n)) = IF 1 <= n THEN n - 1 + 1 ELSE 0
          /\ \A i \in 1..(n - 1 + 1) : SubSeq(s, 1, n)[i] = s[1 + i - 1]
      BY <1>1, <2>1, SubSeqProperties
    <2>4. \A i \in 1..n : i \in 1..(n - 1 + 1) /\ 1 + i - 1 = i
      BY <2>1
    <2>5. DropDot(s) \in Seq(Chars) /\ Len(DropDot(s)) = n /\ \A i \in 1..n : DropDot(s)[i] = s[i]
      BY <2>1, <2>2, <2>3, <2>4
    <2> QED
      BY <1>2, <2>1, <2>5 DEF n
  <1>3. CASE ~(s # <<>> /\ s[Len(s)] = ".")
    <2>1. DropDot(s) = s
      BY <1>3 DEF DropDot, Last
    <2> QED
      BY <1>1, <1>3, <2>1
  <1> QED
    BY <1>2, <1>3

\* What NormalizeHost asks of the characters given, and of what it makes of them.
Plain(raw) == ToSet(raw) \cap {" ", "/"} = {}

Acceptable(h, ip) ==
    /\ h # <<>>
    /\ h \in Literals => ip = TRUE
    /\ h \notin Literals =>
           /\ ":" \notin ToSet(h)
           /\ Len(h) <= MaxHost
           /\ \A l \in ToSet(Labels(h)) : ValidLabel(l)

Folded(raw) == DropDot(Lower(raw))

LEMMA Normalizes ==
  ASSUME NEW raw, NEW ip \in BOOLEAN
  PROVE  /\ Plain(raw) /\ Acceptable(Folded(raw), ip) => NormalizeHost(raw, ip) = Folded(raw)
         /\ ~(Plain(raw) /\ Acceptable(Folded(raw), ip)) => NormalizeHost(raw, ip) = Refused
         /\ NormalizeHost(raw, ip) # Refused =>
                /\ Plain(raw) /\ Acceptable(Folded(raw), ip)
                /\ NormalizeHost(raw, ip) = Folded(raw)
  <1> DEFINE h == Folded(raw)
             good == /\ Plain(raw)
                     /\ h # <<>>
                     /\ IF h \in Literals THEN ip
                        ELSE /\ ":" \notin ToSet(h)
                             /\ Len(h) <= MaxHost
                             /\ \A l \in ToSet(Labels(h)) : ValidLabel(l)
  <1>1. NormalizeHost(raw, ip) = IF good THEN h ELSE Refused
    BY DEF NormalizeHost, Folded, Plain
  <1>2. good <=> Plain(raw) /\ Acceptable(h, ip)
    <2> HIDE DEF h
    <2>1. CASE h \in Literals
      BY <2>1, Zenon DEF Acceptable
    <2>2. CASE h \notin Literals
      BY <2>2, Zenon DEF Acceptable
    <2> QED
      BY <2>1, <2>2
  <1>3. Refused = <<>>
    BY DEF Refused
  <1> HIDE DEF good
  <1>4. CASE good
    BY <1>1, <1>2, <1>4
  <1>5. CASE ~good
    BY <1>1, <1>2, <1>5
  <1> QED
    BY <1>4, <1>5

\* Names are sequences of characters without capitals, spaces or slashes.
LEMMA FoldedMeans ==
  ASSUME NEW raw \in Seq(Chars)
  PROVE  LET h == Folded(raw) IN
         /\ h \in Seq(Chars) /\ Len(h) \in 0..Len(raw)
         /\ \A i \in 1..Len(h) :
               /\ h[i] # "A" /\ h[i] = Lower(raw)[i]
               /\ h[i] \in {" ", "/"} => raw[i] = h[i]
  <1> DEFINE low == Lower(raw)
             h == Folded(raw)
             n == IF low # <<>> /\ low[Len(low)] = "." THEN Len(low) - 1 ELSE Len(low)
  <1>1. /\ low \in Seq(Chars) /\ Len(low) = Len(raw)
        /\ \A i \in 1..Len(raw) :
              /\ low[i] = IF raw[i] = "A" THEN "a" ELSE raw[i]
              /\ low[i] # "A"
    BY LowerMeans
  <1>2. /\ h \in Seq(Chars) /\ Len(h) = n /\ n \in 0..Len(low)
        /\ \A i \in 1..n : h[i] = low[i]
    <2> HIDE DEF low
    <2> QED
      BY <1>1, DropDotMeans DEF Folded, low
  <1> HIDE DEF low, h, n
  <1>3. Len(raw) \in Nat
    BY EmptyText
  <1>4. Len(h) \in 0..Len(raw)
    BY <1>1, <1>2
  <1>5. ASSUME NEW i \in 1..Len(h)
        PROVE  h[i] # "A" /\ h[i] = low[i] /\ (h[i] \in {" ", "/"} => raw[i] = h[i])
    <2>1. i \in 1..Len(raw) /\ h[i] = low[i]
      BY <1>1, <1>2, <1>3
    <2> QED
      BY <1>1, <2>1
  <1> QED
    BY <1>2, <1>4, <1>5 DEF h, low

\* No name ends in a dot: its last label would be empty.
LEMMA NoDotAtEnd ==
  ASSUME NEW h \in Seq(Chars), NEW ip, Acceptable(h, ip)
  PROVE  h # <<>> /\ h[Len(h)] # "."
  <1> DEFINE n == Len(h)
             k == Seps(h, ".", n) + 1
  <1>1. h # <<>>
    BY DEF Acceptable
  <1>2. n \in Nat /\ n >= 1 /\ n - 1 \in Nat /\ (n - 1) + 1 = n
    BY <1>1, EmptyText
  <1>3. CASE h \in Literals
    BY <1>1, <1>3, HostAssumption DEF Last
  <1>4. CASE h \notin Literals
    <2> SUFFICES ASSUME h[n] = "." PROVE FALSE
      BY <1>1
    <2>1. Seps(h, ".", n) \in Nat /\ Seps(h, ".", n - 1) \in Nat
      <3> HIDE DEF n
      <3>1. Seps(h, ".", n) \in 0..n /\ Seps(h, ".", n - 1) \in 0..(n - 1)
        BY <1>2, CountRange
      <3> QED
        BY <1>2, <3>1
    <2>2. Seps(h, ".", n) = Seps(h, ".", n - 1) + 1
      <3>1. Seps(h, ".", (n - 1) + 1) =
              IF h[(n - 1) + 1] = "." THEN Seps(h, ".", n - 1) + 1 ELSE Seps(h, ".", n - 1)
        BY <1>2, CountNext
      <3> HIDE DEF n
      <3> QED
        BY <1>2, <3>1
    <2>3. IsCut(h, ".", k - 1, n) /\ k - 1 \in Nat \ {0}
      <3>1. n \in 1..(Len(h) + 1)
        BY <1>2
      <3>2. k - 1 = Seps(h, ".", n)
        BY <2>1
      <3> HIDE DEF n, k
      <3>3. Seps(h, ".", n - 1) = (k - 1) - 1
        BY <2>1, <2>2, <3>2
      <3> QED
        BY <2>1, <2>2, <3>1, <3>2, <3>3 DEF IsCut
    <2>4. IsCut(h, ".", k, n + 1) /\ k \in Nat \ {0}
      BY <1>2, <2>1 DEF IsCut
    <2> HIDE DEF k
    <2>5. Cut(h, ".", k - 1) = n /\ Cut(h, ".", k) = n + 1
      BY <2>3, <2>4, CutIsUnique
    <2>6. k \in 1..(Seps(h, ".", Len(h)) + 1)
      BY <2>1 DEF k
    <2>7. Piece(h, ".", k) \in Seq(Chars) /\ Len(Piece(h, ".", k)) = 0
      <3>1. /\ Piece(h, ".", k) \in Seq(Chars)
            /\ Len(Piece(h, ".", k)) = Cut(h, ".", k) - Cut(h, ".", k - 1) - 1
        BY <2>6, PieceBetween
      <3> HIDE DEF n
      <3> QED
        BY <1>2, <2>5, <3>1
    <2>8. Piece(h, ".", k) = <<>>
      BY <2>7, EmptyText
    <2>9. Piece(h, ".", k) \in ToSet(Labels(h))
      <3>1. DOMAIN Split(h, ".") = 1..(Seps(h, ".", Len(h)) + 1)
        BY DEF Split
      <3>2. Split(h, ".")[k] = Piece(h, ".", k)
        BY <2>6, SplitType
      <3> QED
        BY <2>6, <3>1, <3>2 DEF ToSet, Labels
    <2>10. ValidLabel(Piece(h, ".", k))
      BY <1>4, <2>9 DEF Acceptable
    <2> QED
      BY <2>8, <2>10 DEF ValidLabel
  <1> QED
    BY <1>3, <1>4

\* A name is its own normal form.
LEMMA NormalizedStays ==
  ASSUME NEW raw \in Seq(Chars), NEW ip \in BOOLEAN, NormalizeHost(raw, ip) # Refused
  PROVE  LET name == NormalizeHost(raw, ip) IN NormalizeHost(name, ip) = name
  <1> DEFINE h == Folded(raw)
  <1>1. Plain(raw) /\ Acceptable(h, ip) /\ NormalizeHost(raw, ip) = h
    BY Normalizes
  <1>2. /\ h \in Seq(Chars) /\ Len(h) \in 0..Len(raw)
        /\ \A i \in 1..Len(h) :
               /\ h[i] # "A"
               /\ h[i] \in {" ", "/"} => raw[i] = h[i]
    BY FoldedMeans
  <1>3. h # <<>> /\ h[Len(h)] # "."
    BY <1>1, <1>2, NoDotAtEnd
  <1> HIDE DEF h
  <1>4. Lower(h) = h
    <2>1. /\ Lower(h) \in Seq(Chars) /\ Len(Lower(h)) = Len(h)
          /\ \A i \in 1..Len(h) : Lower(h)[i] = h[i]
      BY <1>2, LowerMeans
    <2> QED
      BY <1>2, <2>1, SeqEqual
  <1>5. Folded(h) = h
    BY <1>3, <1>4 DEF Folded, DropDot, Last
  <1>6. Plain(h)
    <2>1. Len(raw) \in Nat
      BY EmptyText
    <2>2. \A k \in 0..Len(raw) : 1..k \subseteq 1..Len(raw)
      BY <2>1
    <2>3. 1..Len(h) \subseteq 1..Len(raw)
      BY <1>2, <2>2
    <2> SUFFICES ASSUME NEW i \in DOMAIN h, h[i] \in {" ", "/"} PROVE FALSE
      BY DEF Plain, ToSet
    <2>4. i \in 1..Len(h) /\ DOMAIN raw = 1..Len(raw)
      BY <1>2, EmptyText
    <2>5. raw[i] \in {" ", "/"}
      <3>1. raw[i] = h[i]
        BY <1>2, <2>4
      <3> QED
        BY <3>1
    <2>6. i \in DOMAIN raw
      BY <2>4, <2>3
    <2> QED
      BY <1>1, <2>5, <2>6 DEF Plain, ToSet
  <1>7. NormalizeHost(h, ip) = h
    BY <1>1, <1>5, <1>6, Normalizes
  <1> QED
    BY <1>1, <1>7

\* Nor do capitals: lower case undoes them, and they stand for no space or slash.
LEMMA CapitalsFold ==
  ASSUME NEW raw \in Seq(Chars), NEW ip \in BOOLEAN
  PROVE  NormalizeHost(Capitals(raw), ip) = NormalizeHost(raw, ip)
  <1> DEFINE caps == Capitals(raw)
  <1>1. Len(raw) \in Nat /\ DOMAIN raw = 1..Len(raw) /\ \A i \in 1..Len(raw) : raw[i] \in Chars
    BY EmptyText
  <1>2. caps = [i \in 1..Len(raw) |-> IF raw[i] = "a" THEN "A" ELSE raw[i]]
    BY <1>1 DEF Capitals
  <1>3. \A i \in 1..Len(raw) : (IF raw[i] = "a" THEN "A" ELSE raw[i]) \in Chars
    BY <1>1 DEF Chars
  <1>4. caps \in [1..Len(raw) -> Chars]
    BY <1>2, <1>3
  <1>5. caps \in Seq(Chars) /\ Len(caps) = Len(raw) /\ DOMAIN caps = 1..Len(raw)
    BY <1>1, <1>4
  <1>6. \A i \in 1..Len(raw) : caps[i] = IF raw[i] = "a" THEN "A" ELSE raw[i]
    BY <1>2
  <1> HIDE DEF caps
  <1>7. Lower(caps) = Lower(raw)
    <2>1. /\ Lower(raw) \in Seq(Chars) /\ Len(Lower(raw)) = Len(raw)
          /\ \A i \in 1..Len(raw) : Lower(raw)[i] = IF raw[i] = "A" THEN "a" ELSE raw[i]
      BY LowerMeans
    <2>2. /\ Lower(caps) \in Seq(Chars) /\ Len(Lower(caps)) = Len(raw)
          /\ \A i \in 1..Len(raw) : Lower(caps)[i] = IF caps[i] = "A" THEN "a" ELSE caps[i]
      BY <1>5, LowerMeans
    <2>3. \A i \in 1..Len(raw) : Lower(caps)[i] = Lower(raw)[i]
      BY <1>6, <2>1, <2>2
    <2> QED
      BY <2>1, <2>2, <2>3, SeqEqual
  <1>8. Plain(caps) <=> Plain(raw)
    <2>1. ASSUME NEW i \in 1..Len(raw)
          PROVE  caps[i] \in {" ", "/"} <=> raw[i] \in {" ", "/"}
      BY <1>6
    <2>2. \A s : Plain(s) <=> \A i \in DOMAIN s : s[i] \notin {" ", "/"}
      BY DEF Plain, ToSet
    <2> QED
      BY <1>1, <1>5, <2>1, <2>2
  <1>9. Folded(caps) = Folded(raw)
    BY <1>7 DEF Folded
  <1>10. CASE Plain(raw) /\ Acceptable(Folded(raw), ip)
    <2>1. NormalizeHost(raw, ip) = Folded(raw) /\ NormalizeHost(caps, ip) = Folded(caps)
      BY <1>8, <1>9, <1>10, Normalizes
    <2> QED
      BY <1>9, <2>1 DEF caps
  <1>11. CASE ~(Plain(raw) /\ Acceptable(Folded(raw), ip))
    <2>1. NormalizeHost(raw, ip) = Refused /\ NormalizeHost(caps, ip) = Refused
      BY <1>8, <1>9, <1>11, Normalizes
    <2> QED
      BY <2>1 DEF caps
  <1> QED
    BY <1>10, <1>11

\* A dot at the end makes no difference.
LEMMA DotAtEndIsDropped ==
  ASSUME NEW raw \in Seq(Chars), NEW ip \in BOOLEAN, raw # <<>>, Last(raw) # "."
  PROVE  NormalizeHost(Append(raw, "."), ip) = NormalizeHost(raw, ip)
  <1> DEFINE n == Len(raw)
             dotted == Append(raw, ".")
  <1>1. n \in Nat /\ n >= 1 /\ raw[n] # "." /\ DOMAIN raw = 1..n
    BY EmptyText DEF Last
  <1>2. /\ dotted \in Seq(Chars) /\ Len(dotted) = n + 1
        /\ dotted[n + 1] = "."
        /\ \A i \in 1..n : dotted[i] = raw[i]
    <2>1. "." \in Chars
      BY DEF Chars
    <2> QED
      BY <2>1, AppendProperties
  <1> HIDE DEF n, dotted
  <1>3. /\ Lower(raw) \in Seq(Chars) /\ Len(Lower(raw)) = n
        /\ \A i \in 1..n :
               /\ Lower(raw)[i] = IF raw[i] = "A" THEN "a" ELSE raw[i]
               /\ Lower(raw)[i] = "." <=> raw[i] = "."
    BY LowerMeans DEF n
  <1>4. /\ Lower(dotted) \in Seq(Chars) /\ Len(Lower(dotted)) = n + 1
        /\ \A i \in 1..(n + 1) :
               /\ Lower(dotted)[i] = IF dotted[i] = "A" THEN "a" ELSE dotted[i]
               /\ Lower(dotted)[i] = "." <=> dotted[i] = "."
    BY <1>2, LowerMeans
  <1>5. Folded(raw) = Lower(raw)
    <2>1. n \in 1..n
      BY <1>1
    <2>2. Lower(raw)[n] # "."
      BY <1>1, <1>3, <2>1
    <2> QED
      BY <1>3, <2>2 DEF Folded, DropDot, Last
  <1>6. Folded(dotted) = Lower(raw)
    <2>1. n + 1 \in 1..(n + 1) /\ 1..n \subseteq 1..(n + 1) /\ (n + 1) - 1 = n
      BY <1>1
    <2>2. Lower(dotted)[n + 1] = "." /\ Lower(dotted) # <<>>
      <3>1. Lower(dotted)[n + 1] = "."
        BY <1>2, <1>4, <2>1
      <3>2. Len(Lower(dotted)) >= 1
        BY <1>1, <1>4
      <3>3. Lower(dotted) # <<>>
        BY <1>4, <3>2, EmptyText
      <3> QED
        BY <3>1, <3>3
    <2> DEFINE m == IF Lower(dotted) # <<>> /\ Lower(dotted)[Len(Lower(dotted))] = "."
                    THEN Len(Lower(dotted)) - 1 ELSE Len(Lower(dotted))
               h == Folded(dotted)
    <2>3. /\ h \in Seq(Chars) /\ Len(h) = m
          /\ \A i \in 1..m : h[i] = Lower(dotted)[i]
      BY <1>4, DropDotMeans DEF Folded
    <2>4. m = n
      BY <1>4, <2>1, <2>2
    <2> HIDE DEF m, h
    <2>5. \A i \in 1..n : h[i] = Lower(raw)[i]
      BY <1>2, <1>3, <1>4, <2>1, <2>3, <2>4
    <2>6. h = Lower(raw)
      BY <1>3, <2>3, <2>4, <2>5, SeqEqual
    <2> QED
      BY <2>6 DEF h
  <1>7. Plain(dotted) <=> Plain(raw)
    <2>1. DOMAIN dotted = 1..(n + 1)
      BY <1>2, LenProperties
    <2>2. /\ \A i \in 1..(n + 1) : i # n + 1 => i \in 1..n
          /\ 1..n \subseteq 1..(n + 1)
      <3>1. n \in Nat
        BY <1>1
      <3> QED
        BY <3>1
    <2>3. ASSUME NEW c \in {" ", "/"} PROVE c \in ToSet(dotted) <=> c \in ToSet(raw)
      <3>1. ASSUME c \in ToSet(dotted) PROVE c \in ToSet(raw)
        <4>1. PICK i \in 1..(n + 1) : dotted[i] = c
          BY <2>1, <3>1 DEF ToSet
        <4>2. i # n + 1
          BY <1>2, <4>1
        <4>3. i \in 1..n
          BY <2>2, <4>2
        <4>4. raw[i] = c /\ i \in DOMAIN raw
          BY <1>1, <1>2, <4>1, <4>3
        <4> QED
          BY <4>4 DEF ToSet
      <3>2. ASSUME c \in ToSet(raw) PROVE c \in ToSet(dotted)
        <4>1. PICK i \in 1..n : raw[i] = c
          BY <1>1, <3>2 DEF ToSet
        <4>2. i \in 1..(n + 1) /\ dotted[i] = c
          BY <1>2, <2>2, <4>1
        <4> QED
          BY <2>1, <4>2 DEF ToSet
      <3> QED
        BY <3>1, <3>2
    <2> QED
      BY <2>3 DEF Plain
  <1>8. NormalizeHost(dotted, ip) = NormalizeHost(raw, ip)
    <2>1. CASE Plain(raw) /\ Acceptable(Lower(raw), ip)
      BY <1>5, <1>6, <1>7, <2>1, Normalizes
    <2>2. CASE ~(Plain(raw) /\ Acceptable(Lower(raw), ip))
      BY <1>5, <1>6, <1>7, <2>2, Normalizes
    <2> QED
      BY <2>1, <2>2
  <1> QED
    BY <1>8 DEF dotted

-----------------------------------------------------------------------------
(* NewHostAllowlist. *)

\* What is trimmed off leaves a text, and no longer one.
LEMMA TrimType ==
  ASSUME NEW raw \in Raws
  PROVE  TrimSpace(raw) \in Raws
  <1> DEFINE n == Len(raw)
             I == {i \in 1..n : raw[i] # " "}
  <1>1. raw \in Seq(Chars) /\ n <= MaxText /\ MaxText \in Nat
    BY TextMeans, HostAssumption DEF Raws
  <1>2. n \in Nat /\ DOMAIN raw = 1..n /\ \A i \in 1..n : raw[i] \in Chars
    BY <1>1, EmptyText
  <1>3. TrimSpace(raw) = IF I = {} THEN <<>> ELSE SubSeq(raw, Min(I), Max(I))
    BY <1>2 DEF TrimSpace
  <1>4. CASE I = {}
    <2>1. TrimSpace(raw) = <<>>
      <3> HIDE DEF I
      <3> QED
        BY <1>3, <1>4
    <2>2. <<>> \in Seq(Chars) /\ Len(<<>>) = 0
      OBVIOUS
    <2>3. <<>> \in Texts(MaxText)
      <3> DEFINE none == <<>>
      <3>1. none \in Seq(Chars) /\ Len(none) <= MaxText
        BY <1>1, <2>2
      <3> HIDE DEF none, n
      <3> QED
        BY <1>1, <3>1, TextMeans DEF none
    <2> QED
      BY <2>1, <2>3 DEF Raws
  <1>5. CASE I # {}
    <2> DEFINE a == Min(I)
               b == Max(I)
    <2>1. a \in I /\ b \in I
      <3>1. I \in SUBSET (1..n)
        OBVIOUS
      <3> HIDE DEF I, n
      <3> QED
        BY <1>2, <1>5, <3>1, FirstPlace, LastPlace
    <2>2. a \in 1..n /\ b \in 1..n
      BY <2>1
    <2>3. TrimSpace(raw) = SubSeq(raw, a, b)
      BY <1>3, <1>5
    <2> HIDE DEF a, b, n
    <2>4. /\ SubSeq(raw, a, b) \in Seq(Chars)
          /\ Len(SubSeq(raw, a, b)) = IF a <= b THEN b - a + 1 ELSE 0
      <3>1. a..b \subseteq 1..n
        BY <1>2, <2>2
      <3>2. a \in Int /\ b \in Int /\ \A i \in a..b : raw[i] \in Chars
        BY <1>2, <2>2, <3>1
      <3> QED
        BY <3>2, SubSeqProperties
    <2>5. Len(SubSeq(raw, a, b)) <= MaxText
      BY <1>1, <1>2, <2>2, <2>4
    <2> QED
      BY <1>1, <2>3, <2>4, <2>5, TextMeans DEF Raws
  <1> QED
    BY <1>4, <1>5

\* The part of an entry that is normalized, and what is stored of it.
Entry(raw)  == LET e == TrimSpace(raw) IN IF Suffix(e) THEN Tail(e) ELSE e
Stored(raw) == NormalizeHost(Entry(raw), allowIP)

LEMMA EntryType ==
  ASSUME NEW raw \in Raws, TrimSpace(raw) # <<>>
  PROVE  Entry(raw) \in Raws /\ Entry(raw) \in Seq(Chars)
  <1> DEFINE e == TrimSpace(raw)
  <1>1. e \in Seq(Chars) /\ Len(e) <= MaxText /\ MaxText \in Nat
    BY TrimType, TextMeans, HostAssumption DEF Raws
  <1> HIDE DEF e
  <1>2. Len(e) \in Nat /\ Tail(e) \in Seq(Chars) /\ Len(Tail(e)) = Len(e) - 1
    BY <1>1, HeadTailProperties, EmptyText DEF e
  <1>3. Len(Tail(e)) <= MaxText
    BY <1>1, <1>2
  <1>4. Tail(e) \in Raws /\ e \in Raws
    BY <1>1, <1>2, <1>3, TextMeans DEF Raws
  <1> QED
    BY <1>1, <1>2, <1>4 DEF Entry, e

\* What is stored of an entry is a name, whichever way literals are treated.
LEMMA StoredIsName ==
  ASSUME NEW raw \in Raws, TrimSpace(raw) # <<>>, allowIP \in BOOLEAN, Stored(raw) # Refused
  PROVE  Stored(raw) \in Names /\ Stored(raw) \in Seq(Chars)
  <1> DEFINE x == Entry(raw)
  <1>1. x \in Raws /\ x \in Seq(Chars)
    BY EntryType
  <1>2. x \in Hosts
    <2>1. MaxText \in Nat /\ MaxText + 2 \in Nat /\ Len(x) \in Nat
      BY <1>1, HostAssumption, EmptyText
    <2>2. Len(x) <= MaxText + 2
      <3>1. Len(x) <= MaxText
        BY <1>1, <2>1, TextMeans DEF Raws
      <3> HIDE DEF x
      <3> QED
        BY <2>1, <3>1
    <2> HIDE DEF x
    <2> QED
      BY <1>1, <2>1, <2>2, TextMeans DEF Hosts
  <1> HIDE DEF x
  <1>3. Plain(x) /\ Acceptable(Folded(x), allowIP) /\ Stored(raw) = Folded(x)
    BY Normalizes DEF Stored, x
  <1>4. Acceptable(Folded(x), TRUE)
    BY <1>3 DEF Acceptable
  <1>5. NormalizeHost(x, TRUE) = Stored(raw)
    BY <1>3, <1>4, Normalizes
  <1>6. Folded(x) \in Seq(Chars)
    BY <1>1, FoldedMeans
  <1> QED
    BY <1>2, <1>3, <1>5, <1>6 DEF Names

\* An accepted entry spells, apart from a dot in front, the name stored of it:
\* the dot in front is not the one that is dropped.
LEMMA SpelledIsStored ==
  ASSUME NEW raw \in Raws, TrimSpace(raw) # <<>>, allowIP \in BOOLEAN, Stored(raw) # Refused
  PROVE  Spelled(raw) = Labels(Stored(raw))
  <1> DEFINE t == TrimSpace(raw)
             n == Len(t)
             low == Lower(t)
             e == DropDot(low)
  <1>1. t \in Seq(Chars) /\ n \in Nat /\ n >= 1
    <2>1. t \in Seq(Chars)
      BY TrimType, TextMeans, HostAssumption DEF Raws
    <2> HIDE DEF t
    <2> QED
      BY <2>1, EmptyText DEF t
  <1>2. Stored(raw) \in Names /\ Stored(raw) \in Seq(Chars)
    BY StoredIsName
  <1>3. Stored(raw) = Folded(Entry(raw)) /\ Stored(raw) # <<>>
    <2>1. Stored(raw) # <<>>
      BY DEF Refused
    <2> QED
      BY <2>1, Normalizes DEF Stored
  <1>4. /\ low \in Seq(Chars) /\ Len(low) = n
        /\ \A i \in 1..n :
               /\ low[i] = IF t[i] = "A" THEN "a" ELSE t[i]
               /\ low[i] = "." <=> t[i] = "."
    <2> HIDE DEF t
    <2> QED
      BY <1>1, LowerMeans
  <1>5. Suffix(t) <=> t[1] = "."
    BY DEF Suffix
  <1> DEFINE m == IF low # <<>> /\ low[Len(low)] = "." THEN Len(low) - 1 ELSE Len(low)
  <1>6. /\ e \in Seq(Chars) /\ Len(e) = m /\ m \in 0..Len(low)
        /\ \A i \in 1..m : e[i] = low[i]
    <2> HIDE DEF low
    <2> QED
      BY <1>4, DropDotMeans
  <1>7. Suffix(e) <=> e[1] = "."
    BY DEF Suffix
  <1>8. Spelled(raw) = LabelsOf[IF Suffix(e) THEN Tail(e) ELSE e]
    BY DEF Spelled
  <1>9. Entry(raw) = IF Suffix(t) THEN Tail(t) ELSE t
    BY DEF Entry
  <1>10. (IF Suffix(e) THEN Tail(e) ELSE e) = Stored(raw)
    <2>1. CASE ~Suffix(t)
      <3>1. Stored(raw) = e
        BY <1>3, <1>9, <2>1 DEF Folded
      <3> HIDE DEF t, n, low, e, m
      <3>2. Len(e) >= 1
        BY <1>3, <1>6, <3>1, EmptyText
      <3>3. 1 \in 1..m /\ 1 \in 1..n
        <4>1. m \in Nat /\ m >= 1 /\ n \in Nat /\ n >= 1
          BY <1>1, <1>4, <1>6, <3>2
        <4> QED
          BY <4>1
      <3>4. e[1] = low[1] /\ low[1] # "."
        BY <1>4, <1>5, <1>6, <2>1, <3>3
      <3> QED
        BY <1>7, <3>1, <3>4
    <2>2. CASE Suffix(t)
      <3> DEFINE r == Tail(t)
                 rlow == Lower(r)
                 h == DropDot(rlow)
                 k == IF rlow # <<>> /\ rlow[Len(rlow)] = "." THEN Len(rlow) - 1 ELSE Len(rlow)
      <3>1. Stored(raw) = h
        BY <1>3, <1>9, <2>2 DEF Folded
      <3>2. /\ r \in Seq(Chars) /\ Len(r) = n - 1
            /\ \A i \in 1..(n - 1) : r[i] = t[i + 1]
        <4> HIDE DEF t
        <4> QED
          BY <1>1, HeadTailProperties DEF t
      <3>3. /\ rlow \in Seq(Chars) /\ Len(rlow) = n - 1
            /\ \A i \in 1..(n - 1) : rlow[i] = IF r[i] = "A" THEN "a" ELSE r[i]
        <4> HIDE DEF r, t, n
        <4> QED
          BY <3>2, LowerMeans
      <3>4. /\ h \in Seq(Chars) /\ Len(h) = k
            /\ \A i \in 1..k : h[i] = rlow[i]
        <4> HIDE DEF rlow
        <4> QED
          BY <3>3, DropDotMeans
      <3> DEFINE dotted == low[n] = "."
      <3>5. n >= 2
        <4>1. ASSUME n = 1 PROVE FALSE
          <5>1. Len(rlow) = 0
            BY <3>3, <4>1
          <5>2. rlow = <<>>
            <6> HIDE DEF rlow
            <6> QED
              BY <3>3, <5>1, EmptyText
          <5>3. h = <<>>
            BY <5>2 DEF DropDot
          <5> QED
            BY <1>3, <3>1, <5>3
        <4> HIDE DEF n
        <4> QED
          BY <1>1, <4>1
      <3>6. \A i \in 1..(n - 1) : rlow[i] = low[i + 1]
        <4> HIDE DEF t, n, low, rlow, r
        <4>1. \A i \in 1..(n - 1) : i + 1 \in 1..n
          BY <1>1
        <4> QED
          BY <1>4, <3>2, <3>3, <4>1
      <3>7. low # <<>> /\ rlow # <<>>
        <4> HIDE DEF t, n, low, rlow, r
        <4>1. Len(low) >= 1 /\ Len(rlow) >= 1
          BY <1>1, <1>4, <3>3, <3>5
        <4> QED
          BY <1>4, <3>3, <4>1, EmptyText
      <3>8. rlow[Len(rlow)] = "." <=> low[Len(low)] = "."
        <4> HIDE DEF t, n, low, rlow, r
        <4>1. n - 1 \in 1..(n - 1) /\ (n - 1) + 1 = n
          BY <1>1, <3>5
        <4>2. rlow[n - 1] = low[n]
          BY <3>6, <4>1
        <4> QED
          BY <1>4, <3>3, <4>2
      <3>9. m = k + 1 /\ k \in Nat /\ k <= n - 1
        <4> HIDE DEF t, n, low, rlow, r
        <4>1. CASE low[Len(low)] = "."
          <5>1. m = n - 1 /\ k = (n - 1) - 1
            BY <1>4, <3>3, <3>7, <3>8, <4>1
          <5> HIDE DEF m, k
          <5> QED
            BY <1>1, <3>5, <5>1
        <4>2. CASE low[Len(low)] # "."
          <5>1. m = n /\ k = n - 1
            BY <1>4, <3>3, <3>7, <3>8, <4>2
          <5> HIDE DEF m, k
          <5> QED
            BY <1>1, <3>5, <5>1
        <4> QED
          BY <4>1, <4>2
      <3> HIDE DEF m, k, e, h, rlow, r, low, n, t
      <3>10. e # <<>> /\ e[1] = "."
        <4>1. Len(e) >= 1 /\ 1 \in 1..m /\ 1 \in 1..n
          BY <1>1, <1>6, <3>9
        <4>2. e # <<>>
          BY <1>6, <4>1, EmptyText
        <4>3. e[1] = low[1]
          BY <1>6, <4>1
        <4>4. t[1] = "."
          BY <1>5, <2>2
        <4>5. low[1] = "."
          BY <1>4, <4>1, <4>4
        <4> QED
          BY <4>2, <4>3, <4>5
      <3>11. /\ Tail(e) \in Seq(Chars) /\ Len(Tail(e)) = Len(e) - 1
             /\ \A i \in 1..Len(Tail(e)) : Tail(e)[i] = e[i + 1]
        BY <1>6, <3>10, HeadTailProperties
      <3>12. Tail(e) = h
        <4> DEFINE te == Tail(e)
        <4>1. te \in Seq(Chars) /\ Len(te) = k /\ \A i \in 1..k : te[i] = e[i + 1]
          <5>1. Len(Tail(e)) = k
            BY <1>6, <3>9, <3>11
          <5> QED
            BY <3>11, <5>1
        <4> HIDE DEF te
        <4>2. ASSUME NEW i \in 1..k PROVE te[i] = h[i]
          <5>1. i + 1 \in 1..m /\ i \in 1..(n - 1)
            BY <1>1, <3>9
          <5>2. te[i] = low[i + 1]
            BY <1>6, <4>1, <5>1
          <5>3. h[i] = low[i + 1]
            BY <3>4, <3>6, <5>1
          <5> QED
            BY <5>2, <5>3
        <4>3. te = h
          BY <3>4, <4>1, <4>2, SeqEqual
        <4> QED
          BY <4>3 DEF te
      <3> QED
        BY <1>7, <3>1, <3>10, <3>12
    <2> QED
      BY <2>1, <2>2
  <1>11. LabelsOf[Stored(raw)] = Labels(Stored(raw))
    BY <1>2 DEF LabelsOf
  <1> QED
    BY <1>8, <1>10, <1>11

-----------------------------------------------------------------------------
(* The inductive invariant: what is stored is what the entries spell. *)

IsSuffixEntry(raw) == Suffix(TrimSpace(raw))

HInv ==
    /\ allowIP \in BOOLEAN
    /\ entries \subseteq Raws /\ IsFiniteSet(entries) /\ Cardinality(entries) <= MaxEntries
    /\ \A raw \in entries : TrimSpace(raw) # <<>> /\ Stored(raw) # Refused
    /\ \A name : name \in exact <=> \E raw \in entries : ~IsSuffixEntry(raw) /\ name = Stored(raw)
    /\ \A name : name \in suffixes <=> \E raw \in entries : IsSuffixEntry(raw) /\ name = Stored(raw)
    /\ status = "serving" => entries # {}

LEMMA StartsWithoutEntries == Init => HInv
  <1>1. IsFiniteSet({}) /\ Cardinality({}) = 0
    BY FS_EmptySet
  <1> QED
    BY <1>1, HostAssumption DEF Init, HInv

\* An entry is stored in one of the two sets, or the load is refused.
LEMMA EntryKeeps == ASSUME NEW raw \in Raws PROVE HInv /\ ReadEntry(raw) => HInv'
  <1> SUFFICES ASSUME HInv, ReadEntry(raw) PROVE HInv'
    OBVIOUS
  <1>1. allowIP' = allowIP /\ TrimSpace(raw) # <<>> /\ Cardinality(entries) < MaxEntries
    BY DEF ReadEntry
  <1>2. \A r : Stored(r)' = Stored(r)
    BY <1>1 DEF Stored, Entry
  <1>3. CASE Stored(raw) = Refused
    <2>1. entries' = entries /\ exact' = exact /\ suffixes' = suffixes /\ status' = "refused"
      BY <1>3 DEF ReadEntry, Stored, Entry
    <2> QED
      BY <1>1, <1>2, <2>1 DEF HInv
  <1>4. CASE Stored(raw) # Refused
    <2>1. /\ entries' = entries \cup {raw} /\ status' = status
          /\ Adds(TrimSpace(raw), Stored(raw))
      BY <1>4 DEF ReadEntry, Stored, Entry
    <2>2. IsFiniteSet(entries') /\ Cardinality(entries') <= MaxEntries
      <3>1. IsFiniteSet(entries) /\ Cardinality(entries) \in Nat
        BY FS_CardinalityType DEF HInv
      <3>2. CASE raw \in entries
        <4>1. entries' = entries
          BY <2>1, <3>2
        <4> QED
          BY <4>1 DEF HInv
      <3>3. CASE raw \notin entries
        <4>1. IsFiniteSet(entries \cup {raw}) /\ Cardinality(entries \cup {raw}) = Cardinality(entries) + 1
          BY <3>1, <3>3, FS_AddElement
        <4> QED
          BY <1>1, <2>1, <3>1, <4>1, HostAssumption
      <3> QED
        BY <3>2, <3>3
    <2>3. entries' \subseteq Raws /\ entries' # {}
      BY <2>1 DEF HInv
    <2>4. \A r \in entries' : TrimSpace(r) # <<>> /\ Stored(r) # Refused
      BY <1>1, <1>4, <2>1 DEF HInv
    <2>5. CASE IsSuffixEntry(raw)
      <3>1. suffixes' = suffixes \cup {Stored(raw)} /\ exact' = exact
        BY <2>1, <2>5 DEF Adds, IsSuffixEntry
      <3>2. \A name : name \in suffixes' <=> \E r \in entries' : IsSuffixEntry(r) /\ name = Stored(r)
        BY <2>1, <2>5, <3>1 DEF HInv
      <3>3. \A name : name \in exact' <=> \E r \in entries' : ~IsSuffixEntry(r) /\ name = Stored(r)
        BY <2>1, <2>5, <3>1 DEF HInv
      <3> QED
        BY <1>1, <1>2, <2>2, <2>3, <2>4, <3>2, <3>3 DEF HInv
    <2>6. CASE ~IsSuffixEntry(raw)
      <3>1. exact' = exact \cup {Stored(raw)} /\ suffixes' = suffixes
        BY <2>1, <2>6 DEF Adds, IsSuffixEntry
      <3>2. \A name : name \in suffixes' <=> \E r \in entries' : IsSuffixEntry(r) /\ name = Stored(r)
        BY <2>1, <2>6, <3>1 DEF HInv
      <3>3. \A name : name \in exact' <=> \E r \in entries' : ~IsSuffixEntry(r) /\ name = Stored(r)
        BY <2>1, <2>6, <3>1 DEF HInv
      <3> QED
        BY <1>1, <1>2, <2>2, <2>3, <2>4, <3>2, <3>3 DEF HInv
    <2> QED
      BY <2>5, <2>6
  <1> QED
    BY <1>3, <1>4

\* A load that ends serves only if an entry was stored.
LEMMA LoadKeeps == HInv /\ [Next]_vars => HInv'
  <1> SUFFICES ASSUME HInv, [Next]_vars PROVE HInv'
    OBVIOUS
  <1>1. CASE \E raw \in Raws : ReadEntry(raw)
    BY <1>1, EntryKeeps
  <1>2. CASE EndsLoad
    <2>1. /\ allowIP' = allowIP /\ entries' = entries /\ exact' = exact /\ suffixes' = suffixes
          /\ status' = IF exact = {} /\ suffixes = {} THEN "refused" ELSE "serving"
      BY <1>2 DEF EndsLoad
    <2>2. \A r : Stored(r)' = Stored(r)
      BY <2>1 DEF Stored, Entry
    <2>3. status' = "serving" => entries # {}
      <3> SUFFICES ASSUME status' = "serving" PROVE entries # {}
        OBVIOUS
      <3>1. PICK name : name \in exact \/ name \in suffixes
        BY <2>1
      <3> QED
        BY <3>1 DEF HInv
    <2> QED
      BY <2>1, <2>2, <2>3 DEF HInv
  <1>3. CASE UNCHANGED vars
    <2>1. \A r : Stored(r)' = Stored(r)
      BY <1>3 DEF vars, Stored, Entry
    <2> QED
      BY <1>3, <2>1 DEF vars, HInv
  <1> QED
    BY <1>1, <1>2, <1>3 DEF Next

LEMMA AllowlistInvariant == Spec => []HInv
  BY StartsWithoutEntries, LoadKeeps, PTL DEF Spec

-----------------------------------------------------------------------------
(* The theorems. *)

\* What the allowlist stores are names as Validate makes them of a host, so that
\* no entry is dead for its form; and it never serves without an entry.
THEOREM StoresNames == Spec => []TypeOK
  <1>1. HInv => TypeOK
    <2> SUFFICES ASSUME HInv PROVE TypeOK
      OBVIOUS
    <2>1. ASSUME NEW name \in exact \cup suffixes PROVE name \in Names
      <3>1. PICK raw \in entries : name = Stored(raw)
        BY DEF HInv
      <3>2. raw \in Raws /\ TrimSpace(raw) # <<>> /\ Stored(raw) # Refused /\ allowIP \in BOOLEAN
        BY DEF HInv
      <3> QED
        BY <3>1, <3>2, StoredIsName
    <2> QED
      BY <2>1 DEF HInv, TypeOK
  <1> QED
    BY <1>1, AllowlistInvariant, PTL

\* However a host is spelled, it gets the same answer, whatever the caps: the host
\* that Validate returns is permitted again and unchanged, and neither a dot at
\* the end of a host nor capitals change what Validate returns.
THEOREM SpellingDoesNotMatter == Spec => []SpellingIsIrrelevant
  <1>1. HInv => SpellingIsIrrelevant
    <2> SUFFICES ASSUME allowIP \in BOOLEAN, NEW raw \in Raws
                 PROVE  /\ Validate(raw) # Refused => Validate(Validate(raw)) = Validate(raw)
                        /\ raw # <<>> /\ Last(raw) # "." => Validate(Append(raw, ".")) = Validate(raw)
                        /\ Validate(Capitals(raw)) = Validate(raw)
      BY DEF HInv, SpellingIsIrrelevant
    <2>1. raw \in Seq(Chars)
      BY TextMeans, HostAssumption DEF Raws
    <2>2. ASSUME Validate(raw) # Refused PROVE Validate(Validate(raw)) = Validate(raw)
      <3> DEFINE name == NormalizeHost(raw, allowIP)
      <3>1. name # Refused /\ Permits(name) /\ Validate(raw) = name
        BY <2>2 DEF Validate
      <3>2. NormalizeHost(name, allowIP) = name
        BY <2>1, <3>1, NormalizedStays
      <3> QED
        BY <3>1, <3>2 DEF Validate
    <2>3. ASSUME raw # <<>>, Last(raw) # "." PROVE Validate(Append(raw, ".")) = Validate(raw)
      <3>1. NormalizeHost(Append(raw, "."), allowIP) = NormalizeHost(raw, allowIP)
        BY <2>1, <2>3, DotAtEndIsDropped
      <3> QED
        BY <3>1 DEF Validate
    <2>4. Validate(Capitals(raw)) = Validate(raw)
      <3>1. NormalizeHost(Capitals(raw), allowIP) = NormalizeHost(raw, allowIP)
        BY <2>1, CapitalsFold
      <3> QED
        BY <3>1 DEF Validate
    <2> QED
      BY <2>2, <2>3, <2>4
  <1> QED
    BY <1>1, AllowlistInvariant, PTL

\* The text that MatchesSuffix compares ends where a label ends.
LEMMA TextDecidesLabels ==
  ASSUME NEW apex \in Seq(Chars), NEW name \in Seq(Chars)
  PROVE  MatchesSuffix(name, apex) <=> IsSuffix(Labels(apex), Labels(name))
  <1>1. "." \in Chars
    BY DEF Chars
  <1> QED
    BY <1>1, SuffixByPieces DEF MatchesSuffix, Labels

\* A served host is one of the configuration's domains, label by label, and each
\* of those is served: never a sibling that shares the text, no entry without
\* effect.
THEOREM DomainsPermitted == Spec => []PermitsByLabels
  <1>1. HInv => PermitsByLabels
    <2> SUFFICES ASSUME HInv, NEW name \in Names
                 PROVE  Permits(name) <=> \E raw \in entries : Covers(raw, name)
      BY DEF PermitsByLabels
    <2>1. name \in Seq(Chars)
      <3>1. PICK raw \in Hosts : name = NormalizeHost(raw, TRUE) /\ name # Refused
        BY DEF Names
      <3>2. raw \in Seq(Chars)
        <4>1. MaxText + 2 \in Nat
          BY HostAssumption
        <4> QED
          BY <4>1, TextMeans DEF Hosts
      <3>3. name = Folded(raw)
        BY <3>1, Normalizes
      <3> QED
        BY <3>2, <3>3, FoldedMeans
    <2>2. ASSUME NEW raw \in entries
          PROVE  /\ Stored(raw) \in Seq(Chars)
                 /\ Covers(raw, name) <=>
                       IF IsSuffixEntry(raw) THEN IsSuffix(Labels(Stored(raw)), Labels(name))
                                             ELSE Labels(Stored(raw)) = Labels(name)
      <3>1. raw \in Raws /\ TrimSpace(raw) # <<>> /\ Stored(raw) # Refused /\ allowIP \in BOOLEAN
        BY DEF HInv
      <3>2. Spelled(raw) = Labels(Stored(raw)) /\ Stored(raw) \in Seq(Chars)
        BY <3>1, SpelledIsStored, StoredIsName
      <3>3. LabelsOf[name] = Labels(name)
        BY DEF LabelsOf
      <3> QED
        BY <3>2, <3>3 DEF Covers, IsSuffixEntry
    <2>3. ASSUME NEW raw \in entries, ~IsSuffixEntry(raw)
          PROVE  Covers(raw, name) <=> name = Stored(raw)
      <3>1. Labels(Stored(raw)) = Labels(name) => Stored(raw) = name
        BY <2>1, <2>2, SplitIsInjective DEF Labels
      <3> QED
        BY <2>2, <2>3, <3>1
    <2>4. ASSUME NEW raw \in entries, IsSuffixEntry(raw)
          PROVE  Covers(raw, name) <=> MatchesSuffix(name, Stored(raw))
      BY <2>1, <2>2, <2>4, TextDecidesLabels
    <2>5. ASSUME Permits(name) PROVE \E raw \in entries : Covers(raw, name)
      <3>1. CASE name \in exact
        <4>1. PICK raw \in entries : ~IsSuffixEntry(raw) /\ name = Stored(raw)
          BY <3>1 DEF HInv
        <4> QED
          BY <2>3, <4>1
      <3>2. CASE \E apex \in suffixes : MatchesSuffix(name, apex)
        <4>1. PICK apex \in suffixes : MatchesSuffix(name, apex)
          BY <3>2
        <4>2. PICK raw \in entries : IsSuffixEntry(raw) /\ apex = Stored(raw)
          BY DEF HInv
        <4> QED
          BY <2>4, <4>1, <4>2
      <3> QED
        BY <2>5, <3>1, <3>2 DEF Permits
    <2>6. ASSUME NEW raw \in entries, Covers(raw, name) PROVE Permits(name)
      <3>1. CASE IsSuffixEntry(raw)
        <4>1. MatchesSuffix(name, Stored(raw))
          BY <2>4, <2>6, <3>1
        <4>2. Stored(raw) \in suffixes
          BY <3>1 DEF HInv
        <4> QED
          BY <4>1, <4>2 DEF Permits
      <3>2. CASE ~IsSuffixEntry(raw)
        <4>1. name = Stored(raw)
          BY <2>3, <2>6, <3>2
        <4>2. Stored(raw) \in exact
          BY <3>2 DEF HInv
        <4> QED
          BY <4>1, <4>2 DEF Permits
      <3> QED
        BY <3>1, <3>2
    <2> QED
      BY <2>5, <2>6
  <1> QED
    BY <1>1, AllowlistInvariant, PTL
=============================================================================
