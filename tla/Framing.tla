------------------------------- MODULE Framing -------------------------------
(***************************************************************************)
(* Length-capped NDJSON framing (internal/ipc/conn.go): readLine takes one *)
(* line after another from a buffered reader, whose buffer is smaller than *)
(* a frame may be and which the socket fills in portions of any size.      *)
(* Bytes matter as far as readLine tells them apart.                       *)
(***************************************************************************)
EXTENDS Pieces, SequencesExt

CONSTANTS
    MaxFrame,  \* MaxFrameBytes, newline included
    BufSize,   \* the size of the bufio.Reader
    MaxStream  \* bound on the bytes a peer sends

ASSUME FramingAssumption ==
    /\ MaxFrame \in Nat \ {0}
    /\ BufSize \in Nat \ {0}
    /\ MaxStream \in Nat

NL == "\n"
CR == "\r"
Bytes == {NL, CR, "x"}

VARIABLES
    sent,   \* all the peer sends, until it closes its end
    wire,   \* what of it the reader has not taken from the socket
    window, \* bytes in the bufio.Reader
    buf,    \* readLine's buf
    frames, \* the frames returned so far
    phase   \* "reading", or the error of the last readLine

vars == <<sent, wire, window, buf, frames, phase>>

Streams == UNION {[1..n -> Bytes] : n \in 0..MaxStream}

Init ==
    /\ sent \in Streams
    /\ wire = sent
    /\ window = <<>>
    /\ buf = <<>>
    /\ frames = <<>>
    /\ phase = "reading"

-----------------------------------------------------------------------------
\* The place of the first newline, 0 if there is none.
Newline(s) == SelectInSeq(s, LAMBDA b : b = NL)

From(s, n) == SubSeq(s, n, Len(s))

\* Slips: the newline is allowed for once more; the cap excludes its last byte; it
\* is checked on whole lines only.
OverCapLoose(n)   == n > MaxFrame + 1
OverCapStrict(n)  == n >= MaxFrame
OverCapAtEnd(n)   == n > MaxFrame /\ Newline(window) > 0
OverCap(n)        == n > MaxFrame

\* A slip: a carriage return is taken off wherever the line comes from.
StripTwo(line) ==
    LET n == Len(line) - 1 IN SubSeq(line, 1, IF n > 0 THEN n - 1 ELSE n)

\* Take off the newline, and a carriage return before it.
Strip(line) ==
    LET n == Len(line) - 1 IN
    SubSeq(line, 1, IF n > 0 /\ line[n] = CR THEN n - 1 ELSE n)

\* A slip: a portion replaces what was read of the line before it.
KeepLast(chunk) == chunk

Extended(chunk) == buf \o chunk

-----------------------------------------------------------------------------
(* ReadSlice: the window is searched, then filled, until it is full. *)

Fill ==
    /\ phase = "reading"
    /\ Newline(window) = 0
    /\ Len(window) < BufSize
    /\ \E n \in 1..Len(wire) :
           /\ Len(window) + n <= BufSize
           /\ window' = window \o SubSeq(wire, 1, n)
           /\ wire' = From(wire, n + 1)
    /\ UNCHANGED <<sent, buf, frames, phase>>

Rejects == phase' = "too_large" /\ UNCHANGED <<buf, frames>>

\* The line ends in the window: readLine returns it and is called again.
Returns ==
    LET n == Newline(window) IN
    /\ phase = "reading"
    /\ n > 0
    /\ window' = From(window, n + 1)
    /\ IF OverCap(Len(buf) + n)
       THEN Rejects
       ELSE /\ frames' = Append(frames, Strip(Extended(SubSeq(window, 1, n))))
            /\ buf' = <<>>
            /\ UNCHANGED phase
    /\ UNCHANGED <<sent, wire>>

\* ErrBufferFull: keep the portion and go on.
BufferFull ==
    /\ phase = "reading"
    /\ Newline(window) = 0
    /\ Len(window) = BufSize
    /\ window' = <<>>
    /\ IF OverCap(Len(buf) + BufSize)
       THEN Rejects
       ELSE buf' = Extended(window) /\ UNCHANGED <<frames, phase>>
    /\ UNCHANGED <<sent, wire>>

\* End of file, or the deadline of the frame.
ReadFails ==
    /\ phase = "reading"
    /\ Newline(window) = 0
    /\ Len(window) < BufSize
    /\ window' = <<>>
    /\ IF OverCap(Len(buf) + Len(window))
       THEN Rejects
       ELSE phase' = "failed" /\ UNCHANGED <<buf, frames>>
    /\ UNCHANGED <<sent, wire>>

Next == Fill \/ Returns \/ BufferFull \/ ReadFails

Spec == Init /\ [][Next]_vars

-----------------------------------------------------------------------------
(* The peer: writeMessage sends a payload of n bytes as one frame. *)

Writable(n) == n + 1 <= MaxFrame

(* The reference: a stream is cut at its newlines. *)

\* The k-th line of a stream with its newline, or the unfinished rest.
Line(s, k) ==
    LET end == Cut(s, NL, k) IN
    SubSeq(s, Cut(s, NL, k - 1) + 1, IF end <= Len(s) THEN end ELSE Len(s))

\* What of the k-th line stands before its newline.
Payload(k) == Len(Line(sent, k)) - 1

Stripped(line) ==
    LET body == SubSeq(line, 1, Len(line) - 1) IN
    IF body # <<>> /\ Last(body) = CR THEN Front(body) ELSE body

-----------------------------------------------------------------------------
(* Properties. *)

\* However the socket portions the stream and however often the buffer runs
\* full, the frames are the stream's lines, in order and complete.
FramesAreLines ==
    \A k \in DOMAIN frames : frames[k] = Stripped(Line(sent, k))

\* The reader's cap and writeMessage's are the same to the byte: whatever is
\* returned a peer may have sent, and what is refused it may not.
CapsAgree ==
    /\ \A k \in DOMAIN frames : Writable(Payload(k))
    /\ phase = "too_large" => ~Writable(Payload(Len(frames) + 1))

\* An oversized line is refused before more of it is stored than one frame
\* ("without buffering more than the cap").
BufferIsBounded == Len(buf) <= MaxFrame /\ Len(window) <= BufSize

\* Nothing is lost.  While frames are read, what follows the lines that were
\* returned is stored or still in the socket, and no line that is complete waits
\* in buf for another; and when reading fails, at the end of the stream or at a
\* deadline, each line that had arrived in full has been returned.
NothingIsLost ==
    /\ phase = "reading" =>
           /\ buf \o window \o wire = From(sent, Cut(sent, NL, Len(frames)) + 1)
           /\ NL \notin ToSet(buf)
    /\ phase = "failed" => Len(frames) = Seps(sent, NL, Len(sent) - Len(wire))
=============================================================================
