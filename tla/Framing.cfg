\* A frame of up to two buffers, streams of up to seven bytes, every portioning.  The
\* reader stops at an error or at the end of the stream.
CONSTANTS
    MaxFrame = 4
    BufSize = 2
    MaxStream = 7
SPECIFICATION Spec
INVARIANTS
    FramesAreLines
    CapsAgree
    BufferIsBounded
    NothingIsLost
CHECK_DEADLOCK FALSE
