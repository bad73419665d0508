---------------------------- MODULE FramingProofs ----------------------------
(***************************************************************************)
(* What readLine makes of a stream, whatever the sizes of a frame and of   *)
(* the reader's buffer, however long the stream and however it is          *)
(* portioned: its lines, in order and complete, those that a frame may     *)
(* hold and no other, and none lost.                                       *)
(***************************************************************************)
EXTENDS Framing, PiecesProofs

\* The newline is looked for in the window, and the first one is found, or none.
LEMMA NewlineIsFirst ==
  ASSUME NEW s \in Seq(Bytes)
  PROVE  LET n == Newline(s) IN
         /\ n \in 0..Len(s)
         /\ n > 0 => s[n] = NL /\ \A i \in 1..(n - 1) : s[i] # NL
         /\ n = 0 => \A i \in 1..Len(s) : s[i] # NL
  <1> DEFINE I == {i \in 1..Len(s) : s[i] = NL}
             n == Newline(s)
  <1>1. n = IF I # {} THEN Min(I) ELSE 0
    BY DEF Newline, SelectInSeq
  <1>2. Len(s) \in Nat /\ I \in SUBSET (1..Len(s))
    BY LenProperties
  <1>3. CASE I = {}
    <2>1. n = 0
      BY <1>1, <1>3
    <2>2. \A i \in 1..Len(s) : s[i] # NL
      BY <1>3
    <2> HIDE DEF n, I
    <2> QED
      BY <1>2, <2>1, <2>2 DEF n
  <1>4. CASE I # {}
    <2>1. n \in I /\ \A i \in I : n <= i
      <3> HIDE DEF n, I
      <3> QED
        BY <1>1, <1>2, <1>4, FirstPlace
    <2>2. n \in 1..Len(s) /\ s[n] = NL
      BY <2>1
    <2>3. ASSUME NEW i \in 1..(n - 1) PROVE s[i] # NL
      <3>1. i \in 1..Len(s) /\ ~(n <= i)
        <4> HIDE DEF n
        <4> QED
          BY <1>2, <2>2
      <3> QED
        BY <2>1, <3>1
    <2> HIDE DEF n, I
    <2> QED
      BY <1>2, <2>2, <2>3 DEF n
  <1> QED
    BY <1>3, <1>4

\* A rest of a sequence, or a part from its start, is one.
LEMMA Parts ==
  ASSUME NEW s \in Seq(Bytes), NEW n \in 0..Len(s)
  PROVE  /\ From(s, n + 1) \in Seq(Bytes)
         /\ Len(From(s, n + 1)) = Len(s) - n
         /\ \A i \in 1..(Len(s) - n) : From(s, n + 1)[i] = s[n + i]
         /\ SubSeq(s, 1, n) \in Seq(Bytes)
         /\ Len(SubSeq(s, 1, n)) = n
         /\ \A i \in 1..n : SubSeq(s, 1, n)[i] = s[i]
  <1>1. Len(s) \in Nat /\ s = [i \in 1..Len(s) |-> s[i]]
    BY LenProperties
  <1>2. \A i \in 1..Len(s) : s[i] \in Bytes
    BY ElementOfSeq
  <1>3. /\ From(s, n + 1) \in Seq(Bytes) /\ Len(From(s, n + 1)) = Len(s) - n
        /\ \A i \in 1..(Len(s) - n) : From(s, n + 1)[i] = s[n + i]
    BY <1>1, <1>2, SubSeqProperties DEF From
  <1>4. /\ SubSeq(s, 1, n) \in Seq(Bytes) /\ Len(SubSeq(s, 1, n)) = n
        /\ \A i \in 1..n : SubSeq(s, 1, n)[i] = s[i]
    BY <1>1, <1>2, SubSeqProperties
  <1> QED
    BY <1>3, <1>4

\* readLine takes off a line's end by counting back from its newline: the same
\* as taking off the last byte, and the one before if it is a carriage return.
LEMMA StripIsStripped ==
  ASSUME NEW l \in Seq(Bytes), l # <<>>
  PROVE  Strip(l) = Stripped(l) /\ Strip(l) \in Seq(Bytes)
  <1> DEFINE n == Len(l) - 1
             body == SubSeq(l, 1, n)
  <1>1. n \in 0..Len(l) /\ Len(l) \in Nat
    BY EmptySeq, LenProperties
  <1>2. /\ body \in Seq(Bytes) /\ Len(body) = n
        /\ \A i \in 1..n : body[i] = l[i]
    <2> HIDE DEF n
    <2> QED
      BY <1>1, Parts
  <1>3. Strip(l) = SubSeq(l, 1, IF n > 0 /\ l[n] = CR THEN n - 1 ELSE n)
    BY DEF Strip
  <1>4. CASE n = 0
    <2>1. body = <<>>
      BY <1>2, <1>4, EmptySeq
    <2>2. Stripped(l) = body
      BY <2>1 DEF Stripped
    <2>3. Strip(l) = body
      <3> HIDE DEF n
      <3> QED
        BY <1>4, <1>3
    <2> QED
      BY <1>2, <2>2, <2>3
  <1>5. CASE n > 0
    <2>1. body # <<>> /\ Last(body) = l[n]
      <3>1. n \in 1..n
        BY <1>1, <1>5
      <3>2. Last(body) = body[n]
        BY <1>2 DEF Last
      <3>3. Len(<<>>) = 0
        OBVIOUS
      <3> HIDE DEF n, body
      <3> QED
        BY <1>2, <1>5, <3>1, <3>2, <3>3
    <2>2. n \in Nat /\ n - 1 \in 0..Len(l)
      BY <1>1, <1>5
    <2>3. Front(body) = SubSeq(l, 1, n - 1) /\ SubSeq(l, 1, n - 1) \in Seq(Bytes)
      <3>1. /\ SubSeq(l, 1, n - 1) \in Seq(Bytes) /\ Len(SubSeq(l, 1, n - 1)) = n - 1
            /\ \A i \in 1..(n - 1) : SubSeq(l, 1, n - 1)[i] = l[i]
        BY <2>2, Parts
      <3>2. /\ Front(body) = SubSeq(body, 1, n - 1)
        BY <1>2 DEF Front
      <3>3. n - 1 \in 0..Len(body)
        BY <1>2, <2>2, <1>5
      <3>4. /\ SubSeq(body, 1, n - 1) \in Seq(Bytes) /\ Len(SubSeq(body, 1, n - 1)) = n - 1
            /\ \A i \in 1..(n - 1) : SubSeq(body, 1, n - 1)[i] = body[i]
        <4> HIDE DEF n, body
        <4> QED
          BY <1>2, <3>3, Parts
      <3>5. \A i \in 1..(n - 1) : SubSeq(body, 1, n - 1)[i] = SubSeq(l, 1, n - 1)[i]
        <4> HIDE DEF body
        <4> QED
          BY <1>2, <2>2, <3>1, <3>4
      <3> HIDE DEF body, n
      <3> QED
        BY <3>1, <3>2, <3>4, <3>5, SeqEqual
    <2>4. Stripped(l) = IF l[n] = CR THEN SubSeq(l, 1, n - 1) ELSE body
      BY <2>1, <2>3 DEF Stripped
    <2>5. Strip(l) = IF l[n] = CR THEN SubSeq(l, 1, n - 1) ELSE body
      <3> HIDE DEF n
      <3> QED
        BY <1>5, <1>3
    <2> HIDE DEF n, body
    <2> QED
      BY <1>2, <2>3, <2>4, <2>5
  <1>6. n = 0 \/ n > 0
    BY <1>1
  <1> QED
    BY <1>4, <1>5, <1>6

-----------------------------------------------------------------------------
(* The inductive invariant. *)

Typed ==
    /\ sent \in Seq(Bytes)
    /\ wire \in Seq(Bytes)
    /\ window \in Seq(Bytes)
    /\ buf \in Seq(Bytes)
    /\ frames \in Seq(Seq(Bytes))

\* The end of the last line that was returned.
Place == Cut(sent, NL, Len(frames))

\* What follows that place in the stream: the bytes stored, those in the window
\* and those in the socket, byte for byte.
Placed ==
    /\ Len(sent) = Place + Len(buf) + Len(window) + Len(wire)
    /\ \A i \in 1..Len(buf) : sent[Place + i] = buf[i]
    /\ \A i \in 1..Len(window) : sent[Place + Len(buf) + i] = window[i]
    /\ \A i \in 1..Len(wire) : sent[Place + Len(buf) + Len(window) + i] = wire[i]

\* Between two steps of a reader that reads on, as many lines were returned as
\* end up to that place, and no line ends in what is stored.
Reading ==
    /\ Place \in Nat
    /\ Seps(sent, NL, Place) = Len(frames)
    /\ \A i \in 1..Len(buf) : buf[i] # NL
    /\ Placed

\* When reading has failed, every line that arrived in full was returned.
AllReturned ==
    phase = "failed" => Len(frames) = Seps(sent, NL, Len(sent) - Len(wire))

FInv ==
    /\ Typed
    /\ phase = "reading" => Reading
    /\ AllReturned
    /\ FramesAreLines
    /\ CapsAgree
    /\ BufferIsBounded

\* What Reading says of the lengths.
LEMMA Lengths ==
  ASSUME Typed
  PROVE  /\ Len(sent) \in Nat /\ Len(wire) \in Nat /\ Len(window) \in Nat
         /\ Len(buf) \in Nat /\ Len(frames) \in Nat
         /\ <<>> \in Seq(Bytes) /\ Len(<<>>) = 0
  BY LenProperties DEF Typed

\* Before a line is returned, none of its bytes that are stored ends it: a
\* portion without a newline lies within the next line.
LEMMA NextLineIsLong ==
  ASSUME Typed, Reading, NEW m \in Nat, Place + m <= Len(sent),
         \A i \in (Place + 1)..(Place + m - 1) : sent[i] # NL
  PROVE  /\ Len(Line(sent, Len(frames) + 1)) \in Nat
         /\ Len(Line(sent, Len(frames) + 1)) >= m
  <1> DEFINE k == Len(frames) + 1
             c == Cut(sent, NL, k)
             end == IF c <= Len(sent) THEN c ELSE Len(sent)
  <1>1. Len(sent) \in Nat /\ Len(frames) \in Nat /\ Place \in Nat /\ Place <= Len(sent)
    BY Lengths DEF Reading
  <1>2. Seps(sent, NL, Place) = k - 1 /\ Seps(sent, NL, Len(sent)) \in Nat
    <2>1. Seps(sent, NL, Len(sent)) \in 0..Len(sent)
      BY <1>1, CountRange
    <2> QED
      BY <1>1, <2>1 DEF Reading
  <1>3. k \in 1..(Seps(sent, NL, Len(sent)) + 1)
    <2>1. Seps(sent, NL, Place) <= Seps(sent, NL, Len(sent))
      BY <1>1, CountGrows
    <2> QED
      BY <1>1, <1>2, <2>1
  <1>4. IsCut(sent, NL, k, c)
    BY <1>3, CutExists DEF Typed
  <1>5. c \in Nat /\ c >= 1 /\ c <= Len(sent) + 1 /\ (c <= Len(sent) => sent[c] = NL)
    BY <1>1, <1>4 DEF IsCut
  <1>6. c > Place
    <2> SUFFICES ASSUME c <= Place PROVE FALSE
      BY <1>1, <1>5
    <2> HIDE DEF c, k
    <2>1. c - 1 \in Nat /\ c - 1 <= Place /\ c \in ((c - 1) + 1)..Place /\ sent[c] = NL
      BY <1>1, <1>5
    <2>2. Seps(sent, NL, c - 1) < Seps(sent, NL, Place)
      BY <1>1, <2>1, CountGrows
    <2>3. Seps(sent, NL, c - 1) = k - 1
      BY <1>4 DEF IsCut
    <2>4. k - 1 \in Nat
      BY <1>1 DEF k
    <2> QED
      BY <1>2, <2>2, <2>3, <2>4
  <1>7. end >= Place + m /\ end <= Len(sent) /\ end \in Nat
    <2>1. ~(c <= Place + m - 1)
      <3> SUFFICES ASSUME c <= Place + m - 1 PROVE FALSE
        OBVIOUS
      <3>1. c \in (Place + 1)..(Place + m - 1) /\ sent[c] = NL
        <4> HIDE DEF c
        <4> QED
          BY <1>1, <1>5, <1>6
      <3> QED
        BY <3>1
    <2> HIDE DEF c
    <2> QED
      BY <1>1, <1>5, <2>1
  <1>8. Line(sent, k) = SubSeq(sent, Place + 1, end)
    <2>1. k - 1 = Len(frames)
      BY <1>1
    <2> QED
      BY <2>1 DEF Line, Place
  <1>9. Len(SubSeq(sent, Place + 1, end)) = IF Place + 1 <= end THEN end - (Place + 1) + 1 ELSE 0
    <2> HIDE DEF end
    <2>1. \A i \in (Place + 1)..end : sent[i] \in Bytes
      <3>1. (Place + 1)..end \subseteq 1..Len(sent)
        BY <1>1, <1>7
      <3> QED
        BY <3>1, ElementOfSeq DEF Typed
    <2> QED
      BY <1>1, <1>7, <2>1, SubSeqProperties
  <1> HIDE DEF end, c
  <1> QED
    BY <1>1, <1>7, <1>8, <1>9

\* All that is stored lies within the next line, if no newline is in the window.
LEMMA StoredIsWithin ==
  ASSUME Typed, Reading, NEW n \in 0..Len(window),
         \A i \in 1..(n - 1) : window[i] # NL
  PROVE  /\ Place + Len(buf) + n <= Len(sent)
         /\ \A i \in (Place + 1)..(Place + Len(buf) + n - 1) : sent[i] # NL
  <1>1. /\ Len(sent) \in Nat /\ Len(wire) \in Nat /\ Len(window) \in Nat
        /\ Len(buf) \in Nat /\ Place \in Nat
    BY Lengths DEF Reading
  <1>2. Place + Len(buf) + n <= Len(sent)
    BY <1>1 DEF Reading, Placed
  <1>3. ASSUME NEW i \in (Place + 1)..(Place + Len(buf) + n - 1) PROVE sent[i] # NL
    <2>1. CASE i <= Place + Len(buf)
      <3>1. i - Place \in 1..Len(buf) /\ Place + (i - Place) = i
        BY <1>1, <2>1
      <3>2. sent[Place + (i - Place)] = buf[i - Place] /\ buf[i - Place] # NL
        BY <3>1 DEF Reading, Placed
      <3> QED
        BY <3>1, <3>2
    <2>2. CASE i > Place + Len(buf)
      <3> DEFINE j == i - (Place + Len(buf))
      <3>1. j \in 1..(n - 1) /\ j \in 1..Len(window) /\ Place + Len(buf) + j = i
        BY <1>1, <2>2
      <3> HIDE DEF j
      <3>2. sent[Place + Len(buf) + j] = window[j] /\ window[j] # NL
        BY <3>1 DEF Reading, Placed
      <3> QED
        BY <3>1, <3>2
    <2>3. i <= Place + Len(buf) \/ i > Place + Len(buf)
      BY <1>1
    <2> QED
      BY <2>1, <2>2, <2>3
  <1> QED
    BY <1>2, <1>3

\* What is refused is longer than a frame.
LEMMA RefusedIsLong ==
  ASSUME Typed, Reading, NEW n \in 0..Len(window),
         \A i \in 1..(n - 1) : window[i] # NL,
         OverCap(Len(buf) + n)
  PROVE  ~Writable(Payload(Len(frames) + 1))
  <1> DEFINE m == Len(buf) + n
             l == Len(Line(sent, Len(frames) + 1))
  <1>1. m \in Nat /\ Place \in Nat /\ Len(buf) \in Nat /\ n \in Nat /\ m > MaxFrame
    BY Lengths DEF Reading, OverCap
  <1>2. /\ Place + m <= Len(sent)
        /\ \A i \in (Place + 1)..(Place + m - 1) : sent[i] # NL
    <2>1. /\ Place + Len(buf) + n <= Len(sent)
          /\ \A i \in (Place + 1)..(Place + Len(buf) + n - 1) : sent[i] # NL
      BY StoredIsWithin
    <2>2. Place + m = Place + Len(buf) + n /\ Place + m - 1 = Place + Len(buf) + n - 1
      BY <1>1
    <2> HIDE DEF m
    <2> QED
      BY <2>1, <2>2
  <1>3. l \in Nat /\ l >= m
    <2> HIDE DEF m
    <2> QED
      BY <1>1, <1>2, NextLineIsLong
  <1> HIDE DEF m, l
  <1>4. ~(l - 1 + 1 <= MaxFrame)
    BY <1>1, <1>3, FramingAssumption
  <1> QED
    BY <1>4 DEF Writable, Payload, l

-----------------------------------------------------------------------------
(* The steps. *)

\* At the start nothing is stored or returned.
LEMMA StartsUnread == Init => FInv
  <1> SUFFICES ASSUME Init PROVE FInv
    OBVIOUS
  <1>1. sent \in Seq(Bytes)
    BY DEF Init, Streams
  <1>2. /\ <<>> \in Seq(Bytes) /\ <<>> \in Seq(Seq(Bytes)) /\ Len(<<>>) = 0
        /\ DOMAIN <<>> = {} /\ Len(sent) \in Nat
    BY <1>1, LenProperties
  <1>3. Typed
    BY <1>1, <1>2 DEF Init, Typed
  <1>4. Place = 0
    BY <1>2 DEF Init, Place, Cut
  <1>5. Seps(sent, NL, 0) = 0
    BY CountRange
  <1>6. Reading
    BY <1>2, <1>4, <1>5 DEF Init, Reading, Placed
  <1>7. FramesAreLines /\ CapsAgree /\ AllReturned /\ BufferIsBounded
    BY <1>2, FramingAssumption DEF Init, FramesAreLines, CapsAgree, AllReturned, BufferIsBounded
  <1> QED
    BY <1>3, <1>6, <1>7 DEF FInv

\* The window is filled from the socket: the bytes only move.
LEMMA FillKeeps == FInv /\ Fill => FInv'
  <1> SUFFICES ASSUME FInv, Fill PROVE FInv'
    OBVIOUS
  <1>1. /\ Typed /\ Reading /\ FramesAreLines /\ CapsAgree /\ BufferIsBounded
        /\ sent' = sent /\ buf' = buf /\ frames' = frames /\ phase' = "reading"
    BY DEF FInv, Fill
  <1>2. PICK n \in 1..Len(wire) :
            /\ Len(window) + n <= BufSize
            /\ window' = window \o SubSeq(wire, 1, n)
            /\ wire' = From(wire, n + 1)
    BY DEF Fill
  <1>3. /\ Len(sent) \in Nat /\ Len(wire) \in Nat /\ Len(window) \in Nat
        /\ Len(buf) \in Nat /\ Place \in Nat /\ n \in 0..Len(wire) /\ n \in Nat
    BY <1>1, Lengths DEF Reading
  <1>4. /\ From(wire, n + 1) \in Seq(Bytes) /\ Len(wire') = Len(wire) - n
        /\ \A i \in 1..(Len(wire) - n) : wire'[i] = wire[n + i]
        /\ SubSeq(wire, 1, n) \in Seq(Bytes) /\ Len(SubSeq(wire, 1, n)) = n
        /\ \A i \in 1..n : SubSeq(wire, 1, n)[i] = wire[i]
    BY <1>1, <1>2, <1>3, Parts DEF Typed
  <1>5. /\ window' \in Seq(Bytes) /\ Len(window') = Len(window) + n
        /\ \A i \in 1..(Len(window) + n) :
               window'[i] = IF i <= Len(window) THEN window[i]
                            ELSE SubSeq(wire, 1, n)[i - Len(window)]
    BY <1>1, <1>2, <1>4, ConcatProperties DEF Typed
  <1>6. Typed'
    BY <1>1, <1>2, <1>4, <1>5 DEF Typed
  <1>7. Place' = Place
    BY <1>1 DEF Place
  <1>8. Placed'
    <2>1. Len(sent) = Place + Len(buf) + (Len(window) + n) + (Len(wire) - n)
      BY <1>1, <1>3 DEF Reading, Placed
    <2>2. ASSUME NEW i \in 1..(Len(window) + n)
          PROVE  sent[Place + Len(buf) + i] = window'[i]
      <3>1. CASE i <= Len(window)
        <4>1. i \in 1..Len(window) /\ window'[i] = window[i]
          BY <1>3, <1>5, <3>1
        <4> QED
          BY <1>1, <4>1 DEF Reading, Placed
      <3>2. CASE i > Len(window)
        <4> DEFINE j == i - Len(window)
        <4>1. j \in 1..n /\ j \in 1..Len(wire) /\ Place + Len(buf) + Len(window) + j = Place + Len(buf) + i
          BY <1>3, <3>2
        <4>2. window'[i] = SubSeq(wire, 1, n)[j]
          BY <1>3, <1>5, <3>2
        <4> HIDE DEF j
        <4>3. sent[Place + Len(buf) + Len(window) + j] = wire[j]
          BY <1>1, <4>1 DEF Reading, Placed
        <4> QED
          BY <1>4, <4>1, <4>2, <4>3
      <3>3. i <= Len(window) \/ i > Len(window)
        BY <1>3
      <3> QED
        BY <3>1, <3>2, <3>3
    <2>3. ASSUME NEW i \in 1..(Len(wire) - n)
          PROVE  sent[Place + Len(buf) + (Len(window) + n) + i] = wire'[i]
      <3>1. /\ n + i \in 1..Len(wire)
            /\ Place + Len(buf) + (Len(window) + n) + i = Place + Len(buf) + Len(window) + (n + i)
        BY <1>3
      <3>2. sent[Place + Len(buf) + Len(window) + (n + i)] = wire[n + i]
        BY <1>1, <3>1 DEF Reading, Placed
      <3>3. wire'[i] = wire[n + i]
        BY <1>4
      <3> QED
        BY <3>1, <3>2, <3>3
    <2>4. \A i \in 1..Len(buf) : sent[Place + i] = buf[i]
      BY <1>1 DEF Reading, Placed
    <2> QED
      BY <1>1, <1>4, <1>5, <1>7, <2>1, <2>2, <2>3, <2>4 DEF Placed
  <1>9. Reading'
    BY <1>1, <1>7, <1>8 DEF Reading
  <1>10. FramesAreLines' /\ CapsAgree' /\ AllReturned'
    BY <1>1 DEF FramesAreLines, CapsAgree, Payload, AllReturned
  <1>11. BufferIsBounded'
    BY <1>1, <1>2, <1>5 DEF BufferIsBounded
  <1> QED
    BY <1>6, <1>9, <1>10, <1>11 DEF FInv

\* A line that ends at the first newline of the window is the next of the stream.
LEMMA NextLine ==
  ASSUME Typed, Reading, NEW n \in 1..Len(window), window[n] = NL,
         \A i \in 1..(n - 1) : window[i] # NL
  PROVE  LET e == Place + Len(buf) + n
             line == buf \o SubSeq(window, 1, n)
         IN  /\ Cut(sent, NL, Len(frames) + 1) = e
             /\ Seps(sent, NL, e) = Len(frames) + 1
             /\ Line(sent, Len(frames) + 1) = line
             /\ line \in Seq(Bytes) /\ line # <<>> /\ Len(line) = Len(buf) + n
  <1> DEFINE e == Place + Len(buf) + n
             line == buf \o SubSeq(window, 1, n)
  <1>1. /\ Len(sent) \in Nat /\ Len(wire) \in Nat /\ Len(window) \in Nat
        /\ Len(buf) \in Nat /\ Place \in Nat /\ Len(frames) \in Nat
        /\ n \in Nat /\ n >= 1 /\ n \in 0..Len(window)
    BY Lengths DEF Reading
  <1>2. e \in Nat /\ e - 1 \in Nat /\ e >= 1 /\ Place <= e - 1 /\ e <= Len(sent)
    BY <1>1 DEF Reading, Placed
  <1>3. sent[e] = NL
    <2>1. sent[e] = window[n]
      BY DEF Reading, Placed
    <2> QED
      BY <2>1
  <1>4. \A i \in (Place + 1)..(e - 1) : sent[i] # NL
    BY <1>1, StoredIsWithin
  <1>5. Seps(sent, NL, e - 1) = Len(frames)
    <2> HIDE DEF e
    <2>1. Seps(sent, NL, Place) = Seps(sent, NL, e - 1)
      BY <1>1, <1>2, <1>4, CountGrows
    <2> QED
      BY <2>1 DEF Reading
  <1>6. Cut(sent, NL, Len(frames) + 1) = e
    <2>1. IsCut(sent, NL, Len(frames) + 1, e)
      <3> HIDE DEF e
      <3> QED
        BY <1>1, <1>2, <1>3, <1>5 DEF IsCut
    <2>2. Len(frames) + 1 \in Nat \ {0}
      BY <1>1
    <2> HIDE DEF e
    <2> QED
      BY <2>1, <2>2, CutIsUnique DEF Typed
  <1>7. Seps(sent, NL, e) = Len(frames) + 1
    <2> HIDE DEF e
    <2>1. (e - 1) + 1 = e
      BY <1>2
    <2>2. Seps(sent, NL, (e - 1) + 1) =
            IF sent[(e - 1) + 1] = NL THEN Seps(sent, NL, e - 1) + 1 ELSE Seps(sent, NL, e - 1)
      BY <1>2, CountNext
    <2> QED
      BY <1>3, <1>5, <2>1, <2>2
  <1>8. /\ line \in Seq(Bytes) /\ Len(line) = Len(buf) + n
        /\ \A i \in 1..(Len(buf) + n) :
               line[i] = IF i <= Len(buf) THEN buf[i] ELSE SubSeq(window, 1, n)[i - Len(buf)]
        /\ \A i \in 1..n : SubSeq(window, 1, n)[i] = window[i]
    <2>1. /\ SubSeq(window, 1, n) \in Seq(Bytes) /\ Len(SubSeq(window, 1, n)) = n
          /\ \A i \in 1..n : SubSeq(window, 1, n)[i] = window[i]
      BY <1>1, Parts DEF Typed
    <2> QED
      BY <2>1, ConcatProperties DEF Typed
  <1>9. line # <<>>
    <2>1. Len(<<>>) = 0
      OBVIOUS
    <2> HIDE DEF line
    <2> QED
      BY <1>1, <1>8, <2>1
  <1>10. Line(sent, Len(frames) + 1) = SubSeq(sent, Place + 1, e)
    <2>1. (Len(frames) + 1) - 1 = Len(frames)
      BY <1>1
    <2> HIDE DEF e
    <2> QED
      BY <1>2, <1>6, <2>1 DEF Line, Place
  <1>11. /\ SubSeq(sent, Place + 1, e) \in Seq(Bytes)
         /\ Len(SubSeq(sent, Place + 1, e)) = Len(buf) + n
         /\ \A i \in 1..(Len(buf) + n) : SubSeq(sent, Place + 1, e)[i] = sent[Place + i]
    <2>1. e - (Place + 1) + 1 = Len(buf) + n /\ Place + 1 <= e
      BY <1>1
    <2>2. \A i \in (Place + 1)..e : sent[i] \in Bytes
      <3> HIDE DEF e
      <3>1. (Place + 1)..e \subseteq 1..Len(sent)
        BY <1>1, <1>2
      <3> QED
        BY <3>1, ElementOfSeq DEF Typed
    <2>3. \A i \in 1..(Len(buf) + n) : Place + 1 + i - 1 = Place + i
      BY <1>1
    <2> HIDE DEF e
    <2>4. /\ SubSeq(sent, Place + 1, e) \in Seq(Bytes)
          /\ Len(SubSeq(sent, Place + 1, e)) = IF Place + 1 <= e THEN e - (Place + 1) + 1 ELSE 0
          /\ \A i \in 1..(e - (Place + 1) + 1) : SubSeq(sent, Place + 1, e)[i] = sent[Place + 1 + i - 1]
      BY <1>1, <1>2, <2>2, SubSeqProperties
    <2> QED
      BY <2>1, <2>3, <2>4
  <1>12. ASSUME NEW i \in 1..(Len(buf) + n) PROVE sent[Place + i] = line[i]
    <2> HIDE DEF line
    <2>1. CASE i <= Len(buf)
      <3>1. i \in 1..Len(buf) /\ line[i] = buf[i]
        BY <1>1, <1>8, <2>1
      <3> QED
        BY <3>1 DEF Reading, Placed
    <2>2. CASE i > Len(buf)
      <3> DEFINE j == i - Len(buf)
      <3>1. j \in 1..n /\ j \in 1..Len(window) /\ Place + Len(buf) + j = Place + i
        BY <1>1, <2>2
      <3>2. line[i] = SubSeq(window, 1, n)[j]
        BY <1>1, <1>8, <2>2
      <3> HIDE DEF j
      <3>3. sent[Place + Len(buf) + j] = window[j]
        BY <3>1 DEF Reading, Placed
      <3> QED
        BY <1>8, <3>1, <3>2, <3>3
    <2>3. i <= Len(buf) \/ i > Len(buf)
      BY <1>1
    <2> QED
      BY <2>1, <2>2, <2>3
  <1>13. SubSeq(sent, Place + 1, e) = line
    <2> DEFINE part == SubSeq(sent, Place + 1, e)
    <2>1. part \in Seq(Bytes) /\ Len(part) = Len(buf) + n
      BY <1>11
    <2>2. \A i \in 1..(Len(buf) + n) : part[i] = line[i]
      <3> HIDE DEF e, line
      <3> QED
        BY <1>11, <1>12
    <2> HIDE DEF e, line, part
    <2>3. part = line
      BY <1>8, <2>1, <2>2, SeqEqual
    <2> QED
      BY <2>3 DEF part
  <1> QED
    BY <1>6, <1>7, <1>8, <1>9, <1>10, <1>13

\* A line is returned, or refused for its length.
LEMMA ReturnsKeeps == FInv /\ Returns => FInv'
  <1> SUFFICES ASSUME FInv, Returns PROVE FInv'
    OBVIOUS
  <1> DEFINE n == Newline(window)
  <1>1. /\ Typed /\ Reading /\ FramesAreLines /\ CapsAgree /\ BufferIsBounded
        /\ sent' = sent /\ wire' = wire /\ window' = From(window, n + 1)
    BY DEF FInv, Returns
  <1>2. /\ n \in 1..Len(window) /\ n \in 0..Len(window) /\ window[n] = NL
        /\ \A i \in 1..(n - 1) : window[i] # NL
    <2>1. n > 0
      BY DEF Returns
    <2>2. /\ n \in 0..Len(window)
          /\ n > 0 => window[n] = NL /\ \A i \in 1..(n - 1) : window[i] # NL
      BY <1>1, NewlineIsFirst DEF Typed
    <2> HIDE DEF n
    <2>3. Len(window) \in Nat
      BY <1>1, Lengths
    <2> QED
      BY <2>1, <2>2, <2>3
  <1>3. IF OverCap(Len(buf) + n)
        THEN Rejects
        ELSE /\ frames' = Append(frames, Strip(buf \o SubSeq(window, 1, n)))
             /\ buf' = <<>> /\ phase' = phase
    BY DEF Returns, Extended
  <1>4. phase = "reading"
    BY DEF Returns
  <1> HIDE DEF n
  <1>5. /\ Len(sent) \in Nat /\ Len(wire) \in Nat /\ Len(window) \in Nat
        /\ Len(buf) \in Nat /\ Place \in Nat /\ Len(frames) \in Nat
        /\ <<>> \in Seq(Bytes) /\ Len(<<>>) = 0 /\ n \in Nat
    BY <1>1, <1>2, Lengths DEF Reading
  <1>6. /\ window' \in Seq(Bytes) /\ Len(window') = Len(window) - n
        /\ \A i \in 1..(Len(window) - n) : window'[i] = window[n + i]
    BY <1>1, <1>2, Parts DEF Typed
  <1>7. CASE OverCap(Len(buf) + n)
    <2>1. phase' = "too_large" /\ buf' = buf /\ frames' = frames
      BY <1>3, <1>7 DEF Rejects
    <2>2. ~Writable(Payload(Len(frames) + 1))
      BY <1>1, <1>2, <1>7, RefusedIsLong
    <2>3. Typed' /\ FramesAreLines' /\ CapsAgree' /\ AllReturned'
      BY <1>1, <1>6, <2>1, <2>2 DEF Typed, FramesAreLines, CapsAgree, Payload, AllReturned
    <2>4. Len(window') <= BufSize
      BY <1>1, <1>5, <1>6, FramingAssumption DEF BufferIsBounded
    <2> QED
      BY <1>1, <2>1, <2>3, <2>4 DEF FInv, BufferIsBounded
  <1>8. CASE ~OverCap(Len(buf) + n)
    <2> DEFINE e == Place + Len(buf) + n
               line == buf \o SubSeq(window, 1, n)
    <2>1. frames' = Append(frames, Strip(line)) /\ buf' = <<>> /\ phase' = "reading"
      BY <1>3, <1>4, <1>8
    <2>2. /\ Cut(sent, NL, Len(frames) + 1) = e
          /\ Seps(sent, NL, e) = Len(frames) + 1
          /\ Line(sent, Len(frames) + 1) = line
          /\ line \in Seq(Bytes) /\ line # <<>> /\ Len(line) = Len(buf) + n
      BY <1>1, <1>2, NextLine
    <2>3. e \in Nat /\ e = Place + Len(buf) + n
      BY <1>5
    <2> HIDE DEF e, line
    <2>4. Strip(line) = Stripped(line) /\ Strip(line) \in Seq(Bytes)
      BY <2>2, StripIsStripped
    <2>5. /\ frames' \in Seq(Seq(Bytes)) /\ Len(frames') = Len(frames) + 1
          /\ \A k \in 1..Len(frames) : frames'[k] = frames[k]
          /\ frames'[Len(frames) + 1] = Strip(line)
      BY <1>1, <2>1, <2>4, AppendProperties DEF Typed
    <2>6. Typed'
      BY <1>1, <1>5, <1>6, <2>1, <2>5 DEF Typed
    <2>7. Place' = e
      BY <1>1, <2>2, <2>5 DEF Place
    <2>8. Placed'
      <3>1. Len(sent) = e + 0 + (Len(window) - n) + Len(wire)
        BY <1>1, <1>5, <2>3 DEF Reading, Placed
      <3>2. ASSUME NEW i \in 1..(Len(window) - n) PROVE sent[e + 0 + i] = window'[i]
        <4>1. n + i \in 1..Len(window) /\ e + 0 + i = Place + Len(buf) + (n + i)
          BY <1>2, <1>5, <2>3
        <4>2. sent[Place + Len(buf) + (n + i)] = window[n + i]
          BY <1>1, <4>1 DEF Reading, Placed
        <4>3. window'[i] = window[n + i]
          BY <1>6
        <4> QED
          BY <4>1, <4>2, <4>3
      <3>3. ASSUME NEW i \in 1..Len(wire) PROVE sent[e + 0 + (Len(window) - n) + i] = wire[i]
        <4>1. e + 0 + (Len(window) - n) + i = Place + Len(buf) + Len(window) + i
          BY <1>2, <1>5, <2>3
        <4>2. sent[Place + Len(buf) + Len(window) + i] = wire[i]
          BY <1>1 DEF Reading, Placed
        <4> QED
          BY <4>1, <4>2
      <3>4. \A i \in 1..0 : sent[e + i] = buf'[i]
        OBVIOUS
      <3> QED
        BY <1>1, <1>5, <1>6, <2>1, <2>7, <3>1, <3>2, <3>3, <3>4 DEF Placed
    <2>9. Reading'
      <3>1. \A i \in 1..Len(buf') : buf'[i] # NL
        BY <1>5, <2>1
      <3> QED
        BY <1>1, <2>2, <2>3, <2>5, <2>7, <2>8, <3>1 DEF Reading
    <2>10. FramesAreLines'
      <3> SUFFICES ASSUME NEW k \in DOMAIN frames'
                   PROVE  frames'[k] = Stripped(Line(sent, k))
        BY <1>1 DEF FramesAreLines
      <3>1. DOMAIN frames' = 1..(Len(frames) + 1) /\ DOMAIN frames = 1..Len(frames)
        BY <1>1, <2>5, LenProperties DEF Typed
      <3>2. CASE k = Len(frames) + 1
        BY <2>2, <2>4, <2>5, <3>2
      <3>3. CASE k \in 1..Len(frames)
        BY <1>1, <2>5, <3>1, <3>3 DEF FramesAreLines
      <3>4. k = Len(frames) + 1 \/ k \in 1..Len(frames)
        BY <1>5, <3>1
      <3> QED
        BY <3>2, <3>3, <3>4
    <2>11. BufferIsBounded' /\ AllReturned'
      BY <1>1, <1>5, <1>6, <2>1, FramingAssumption DEF AllReturned, BufferIsBounded
    <2>12. CapsAgree'
      <3>1. Writable(Payload(Len(frames) + 1))
        <4>1. Payload(Len(frames) + 1) + 1 = Len(buf) + n
          BY <1>5, <2>2 DEF Payload
        <4> QED
          BY <1>5, <1>8, <4>1, FramingAssumption DEF Writable, OverCap
      <3>2. DOMAIN frames' = 1..(Len(frames) + 1) /\ DOMAIN frames = 1..Len(frames)
        BY <1>1, <2>5, LenProperties DEF Typed
      <3>3. ASSUME NEW k \in DOMAIN frames' PROVE Writable(Payload(k))
        <4>1. k = Len(frames) + 1 \/ k \in 1..Len(frames)
          BY <1>5, <3>2
        <4> QED
          BY <1>1, <3>1, <3>2, <4>1 DEF CapsAgree
      <3> QED
        BY <1>1, <2>1, <3>3 DEF CapsAgree, Payload
    <2> QED
      BY <2>1, <2>6, <2>9, <2>10, <2>11, <2>12 DEF FInv
  <1> QED
    BY <1>7, <1>8

\* A full buffer without a newline is stored, or the line refused.
LEMMA BufferFullKeeps == FInv /\ BufferFull => FInv'
  <1> SUFFICES ASSUME FInv, BufferFull PROVE FInv'
    OBVIOUS
  <1>1. /\ Typed /\ Reading /\ FramesAreLines /\ CapsAgree /\ BufferIsBounded
        /\ sent' = sent /\ wire' = wire /\ window' = <<>> /\ frames' = frames
    BY DEF FInv, BufferFull, Rejects
  <1>2. \A i \in 1..Len(window) : window[i] # NL
    BY <1>1, NewlineIsFirst DEF Typed, BufferFull
  <1>3. /\ Len(sent) \in Nat /\ Len(wire) \in Nat /\ Len(window) \in Nat
        /\ Len(buf) \in Nat /\ Place \in Nat /\ Len(frames) \in Nat
        /\ <<>> \in Seq(Bytes) /\ Len(<<>>) = 0
        /\ Len(window) = BufSize /\ BufSize \in 0..Len(window)
    BY <1>1, Lengths DEF Reading, BufferFull
  <1>4. Place' = Place
    BY <1>1 DEF Place
  <1>5. CASE OverCap(Len(buf) + BufSize)
    <2>1. phase' = "too_large" /\ buf' = buf
      BY <1>5 DEF BufferFull, Rejects
    <2>2. ~Writable(Payload(Len(frames) + 1))
      <3>1. \A i \in 1..(BufSize - 1) : window[i] # NL
        BY <1>2, <1>3
      <3> QED
        BY <1>1, <1>3, <1>5, <3>1, RefusedIsLong
    <2> QED
      BY <1>1, <1>3, <2>1, <2>2, FramingAssumption
         DEF FInv, Typed, FramesAreLines, CapsAgree, Payload, AllReturned, BufferIsBounded
  <1>6. CASE ~OverCap(Len(buf) + BufSize)
    <2>1. buf' = buf \o window /\ phase' = "reading"
      BY <1>6 DEF BufferFull, Extended
    <2>2. /\ buf' \in Seq(Bytes) /\ Len(buf') = Len(buf) + Len(window)
          /\ \A i \in 1..(Len(buf) + Len(window)) :
                 buf'[i] = IF i <= Len(buf) THEN buf[i] ELSE window[i - Len(buf)]
      BY <1>1, <2>1, ConcatProperties DEF Typed
    <2>3. ASSUME NEW i \in 1..(Len(buf) + Len(window))
          PROVE  sent[Place + i] = buf'[i] /\ buf'[i] # NL
      <3>1. CASE i <= Len(buf)
        <4>1. i \in 1..Len(buf) /\ buf'[i] = buf[i]
          BY <1>3, <2>2, <3>1
        <4> QED
          BY <1>1, <4>1 DEF Reading, Placed
      <3>2. CASE i > Len(buf)
        <4> DEFINE j == i - Len(buf)
        <4>1. j \in 1..Len(window) /\ Place + Len(buf) + j = Place + i
          BY <1>3, <3>2
        <4>2. buf'[i] = window[j]
          BY <1>3, <2>2, <3>2
        <4> HIDE DEF j
        <4>3. sent[Place + Len(buf) + j] = window[j]
          BY <1>1, <4>1 DEF Reading, Placed
        <4> QED
          BY <1>2, <4>1, <4>2, <4>3
      <3>3. i <= Len(buf) \/ i > Len(buf)
        BY <1>3
      <3> QED
        BY <3>1, <3>2, <3>3
    <2>4. Placed'
      <3>1. Len(sent) = Place + (Len(buf) + Len(window)) + 0 + Len(wire)
        BY <1>1, <1>3 DEF Reading, Placed
      <3>2. ASSUME NEW i \in 1..Len(wire)
            PROVE  sent[Place + (Len(buf) + Len(window)) + 0 + i] = wire[i]
        <4>1. Place + (Len(buf) + Len(window)) + 0 + i = Place + Len(buf) + Len(window) + i
          BY <1>3
        <4>2. sent[Place + Len(buf) + Len(window) + i] = wire[i]
          BY <1>1 DEF Reading, Placed
        <4> QED
          BY <4>1, <4>2
      <3>3. 1..0 = {}
        OBVIOUS
      <3> QED
        BY <1>1, <1>3, <1>4, <2>2, <2>3, <3>1, <3>2, <3>3 DEF Placed
    <2>5. Reading'
      BY <1>1, <1>4, <2>2, <2>3, <2>4 DEF Reading
    <2>6. Typed' /\ FramesAreLines' /\ CapsAgree' /\ AllReturned'
      BY <1>1, <1>3, <2>1, <2>2 DEF Typed, FramesAreLines, CapsAgree, Payload, AllReturned
    <2>7. BufferIsBounded'
      BY <1>1, <1>3, <1>6, <2>2, FramingAssumption DEF BufferIsBounded, OverCap
    <2> QED
      BY <2>5, <2>6, <2>7 DEF FInv
  <1> QED
    BY <1>5, <1>6

\* Without a newline in the window, no line that has arrived is still to come.
LEMMA ArrivedIsReturned ==
  ASSUME Typed, Reading, \A i \in 1..Len(window) : window[i] # NL
  PROVE  Len(frames) = Seps(sent, NL, Len(sent) - Len(wire))
  <1> DEFINE e == Place + Len(buf) + Len(window)
  <1>1. /\ Len(sent) \in Nat /\ Len(wire) \in Nat /\ Len(window) \in Nat
        /\ Len(buf) \in Nat /\ Place \in Nat
    BY Lengths DEF Reading
  <1>2. e = Len(sent) - Len(wire) /\ e \in Nat /\ Place <= e
    BY <1>1 DEF Reading, Placed
  <1>3. ASSUME NEW i \in (Place + 1)..e PROVE sent[i] # NL
    <2>1. CASE i <= Place + Len(buf)
      <3> DEFINE j == i - Place
      <3>1. j \in 1..Len(buf) /\ Place + j = i
        BY <1>1, <2>1
      <3> HIDE DEF j
      <3>2. sent[Place + j] = buf[j] /\ buf[j] # NL
        BY <3>1 DEF Reading, Placed
      <3> QED
        BY <3>1, <3>2
    <2>2. CASE i > Place + Len(buf)
      <3> DEFINE j == i - (Place + Len(buf))
      <3>1. j \in 1..Len(window) /\ Place + Len(buf) + j = i
        BY <1>1, <2>2
      <3> HIDE DEF j
      <3>2. sent[Place + Len(buf) + j] = window[j] /\ window[j] # NL
        BY <3>1 DEF Reading, Placed
      <3> QED
        BY <3>1, <3>2
    <2>3. i <= Place + Len(buf) \/ i > Place + Len(buf)
      BY <1>1
    <2> QED
      BY <2>1, <2>2, <2>3
  <1> HIDE DEF e
  <1>4. Seps(sent, NL, Place) = Seps(sent, NL, e)
    BY <1>1, <1>2, <1>3, CountGrows
  <1> QED
    BY <1>2, <1>4 DEF Reading

\* The stream ends, or the deadline passes, in the middle of a line.
LEMMA ReadFailsKeeps == FInv /\ ReadFails => FInv'
  <1> SUFFICES ASSUME FInv, ReadFails PROVE FInv'
    OBVIOUS
  <1>1. /\ Typed /\ Reading /\ FramesAreLines /\ CapsAgree /\ BufferIsBounded
        /\ sent' = sent /\ wire' = wire /\ window' = <<>>
        /\ frames' = frames /\ buf' = buf
    BY DEF FInv, ReadFails, Rejects
  <1>2. /\ Len(window) \in Nat /\ <<>> \in Seq(Bytes) /\ Len(<<>>) = 0
        /\ Len(window) \in 0..Len(window)
    BY <1>1, Lengths
  <1>3. \A i \in 1..Len(window) : window[i] # NL
    BY <1>1, NewlineIsFirst DEF Typed, ReadFails
  <1>4. OverCap(Len(buf) + Len(window)) => ~Writable(Payload(Len(frames) + 1))
    <2>1. \A i \in 1..(Len(window) - 1) : window[i] # NL
      BY <1>2, <1>3
    <2> QED
      BY <1>1, <1>2, <2>1, RefusedIsLong
  <1>5. /\ phase' # "reading"
        /\ phase' = "too_large" => OverCap(Len(buf) + Len(window))
    <2>1. CASE OverCap(Len(buf) + Len(window))
      BY <2>1 DEF ReadFails, Rejects
    <2>2. CASE ~OverCap(Len(buf) + Len(window))
      BY <2>2 DEF ReadFails
    <2> QED
      BY <2>1, <2>2
  <1>6. Typed' /\ FramesAreLines' /\ CapsAgree'
    BY <1>1, <1>2, <1>4, <1>5 DEF Typed, FramesAreLines, CapsAgree, Payload
  <1>7. BufferIsBounded'
    BY <1>1, <1>2, FramingAssumption DEF BufferIsBounded
  <1>8. AllReturned'
    BY <1>1, <1>3, ArrivedIsReturned DEF AllReturned
  <1> QED
    BY <1>5, <1>6, <1>7, <1>8 DEF FInv

\* Every step of the reader keeps the invariant.
LEMMA ReaderKeeps == FInv /\ [Next]_vars => FInv'
  <1>1. ASSUME FInv, UNCHANGED vars PROVE FInv'
    <2>1. FInv' = FInv
      BY <1>1 DEF vars, FInv, Typed, Reading, Placed, Place, FramesAreLines,
                  AllReturned, CapsAgree, Payload, BufferIsBounded
    <2> QED
      BY <1>1, <2>1
  <1> QED
    BY <1>1, FillKeeps, ReturnsKeeps, BufferFullKeeps, ReadFailsKeeps DEF Next

-----------------------------------------------------------------------------
(* The theorems. *)

\* The stored bytes and those still to come are, joined, the rest of the stream.
LEMMA StoredIsTheRest ==
  ASSUME Typed, Reading
  PROVE  buf \o window \o wire = From(sent, Place + 1)
  <1> DEFINE stored == buf \o window
             all == stored \o wire
             rest == From(sent, Place + 1)
  <1>1. /\ Len(sent) \in Nat /\ Len(wire) \in Nat /\ Len(window) \in Nat
        /\ Len(buf) \in Nat /\ Place \in Nat
    BY Lengths DEF Reading
  <1>2. /\ stored \in Seq(Bytes) /\ Len(stored) = Len(buf) + Len(window)
        /\ \A i \in 1..(Len(buf) + Len(window)) :
               stored[i] = IF i <= Len(buf) THEN buf[i] ELSE window[i - Len(buf)]
    BY ConcatProperties DEF Typed
  <1>3. /\ all \in Seq(Bytes) /\ Len(all) = Len(stored) + Len(wire)
        /\ \A i \in 1..(Len(stored) + Len(wire)) :
               all[i] = IF i <= Len(stored) THEN stored[i] ELSE wire[i - Len(stored)]
    <2> HIDE DEF stored
    <2> QED
      BY <1>2, ConcatProperties DEF Typed
  <1>4. /\ rest \in Seq(Bytes) /\ Len(rest) = Len(sent) - Place
        /\ \A i \in 1..(Len(sent) - Place) : rest[i] = sent[Place + i]
    <2>1. Place \in 0..Len(sent)
      BY <1>1 DEF Reading, Placed
    <2> QED
      BY <2>1, Parts DEF Typed
  <1>5. Len(sent) - Place = Len(stored) + Len(wire)
    <2> HIDE DEF stored
    <2> QED
      BY <1>1, <1>2 DEF Reading, Placed
  <1> HIDE DEF stored, all, rest
  <1>6. ASSUME NEW i \in 1..(Len(stored) + Len(wire)) PROVE all[i] = rest[i]
    <2>1. rest[i] = sent[Place + i]
      BY <1>4, <1>5
    <2>2. CASE i <= Len(buf)
      <3>1. i \in 1..Len(buf) /\ i \in 1..(Len(buf) + Len(window)) /\ i <= Len(stored)
        BY <1>1, <1>2, <2>2
      <3>2. all[i] = buf[i]
        BY <1>2, <1>3, <2>2, <3>1
      <3> QED
        BY <2>1, <3>1, <3>2 DEF Reading, Placed
    <2>3. CASE ~(i <= Len(buf)) /\ i <= Len(stored)
      <3> DEFINE j == i - Len(buf)
      <3>1. j \in 1..Len(window) /\ i \in 1..(Len(buf) + Len(window)) /\ Place + Len(buf) + j = Place + i
        BY <1>1, <1>2, <2>3
      <3>2. all[i] = window[j]
        BY <1>2, <1>3, <2>3, <3>1
      <3> HIDE DEF j
      <3>3. sent[Place + Len(buf) + j] = window[j]
        BY <3>1 DEF Reading, Placed
      <3> QED
        BY <2>1, <3>1, <3>2, <3>3
    <2>4. CASE ~(i <= Len(stored))
      <3> DEFINE j == i - Len(stored)
      <3>1. j \in 1..Len(wire) /\ Place + Len(buf) + Len(window) + j = Place + i
        BY <1>1, <1>2, <2>4
      <3>2. all[i] = wire[j]
        BY <1>3, <2>4
      <3> HIDE DEF j
      <3>3. sent[Place + Len(buf) + Len(window) + j] = wire[j]
        BY <3>1 DEF Reading, Placed
      <3> QED
        BY <2>1, <3>1, <3>2, <3>3
    <2> QED
      BY <2>2, <2>3, <2>4
  <1>7. all = rest
    BY <1>3, <1>4, <1>5, <1>6, SeqEqual
  <1> QED
    BY <1>7 DEF all, stored, rest

\* The invariant holds of every behaviour of the reader.
LEMMA ReaderInvariant == Spec => []FInv
  BY StartsUnread, ReaderKeeps, PTL DEF Spec

\* However the socket portions the stream and however often the buffer runs full,
\* readLine returns the stream's lines, in order and complete, each without its
\* newline and a carriage return before it.
THEOREM LinesReturned == Spec => []FramesAreLines
  <1>1. FInv => FramesAreLines
    BY DEF FInv
  <1> QED
    BY <1>1, ReaderInvariant, PTL

\* The reader's cap and writeMessage's are the same to the byte, whatever they
\* are: every line readLine returns a peer that keeps writeMessage's cap may have
\* written, and the line readLine refuses no such peer has.
THEOREM SameCap == Spec => []CapsAgree
  <1>1. FInv => CapsAgree
    BY DEF FInv
  <1> QED
    BY <1>1, ReaderInvariant, PTL

\* Nothing is lost.  As long as frames are read, what follows the lines returned is
\* stored or still in the socket, byte for byte, and none of the stored portions
\* holds a whole line; when reading fails, each line that had arrived in full has
\* been returned.
THEOREM Losslessness == Spec => []NothingIsLost
  <1>1. FInv => NothingIsLost
    <2>1. ASSUME Typed, Reading
          PROVE  /\ buf \o window \o wire = From(sent, Cut(sent, NL, Len(frames)) + 1)
                 /\ NL \notin ToSet(buf)
      <3>1. buf \o window \o wire = From(sent, Cut(sent, NL, Len(frames)) + 1)
        BY <2>1, StoredIsTheRest DEF Place
      <3>2. DOMAIN buf = 1..Len(buf)
        BY <2>1, LenProperties DEF Typed
      <3>3. NL \notin ToSet(buf)
        BY <2>1, <3>2 DEF Reading, ToSet
      <3> QED
        BY <3>1, <3>3
    <2> QED
      BY <2>1 DEF FInv, AllReturned, NothingIsLost
  <1> QED
    BY <1>1, ReaderInvariant, PTL

\* However long the stream and however it is portioned, readLine stores at
\* most one frame beside the reader's buffer: an oversized line is refused
\* before more of it is kept.
THEOREM Boundedness == Spec => []BufferIsBounded
  <1>1. FInv => BufferIsBounded
    BY DEF FInv
  <1> QED
    BY <1>1, ReaderInvariant, PTL
=============================================================================
