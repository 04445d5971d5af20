------------------------------ MODULE TR4Queue ------------------------------
(***************************************************************************)
(* The byte queue of CTR4Connection (TR4Connection.cpp): StBuffer with its *)
(* front and rear, filled by AddQ from whatever receiveBytes returns and   *)
(* cut into frames by ProcessQ and GetBuffer.                              *)
(*                                                                         *)
(* The peer's bytes are numbered; a cell holds the number of its byte.     *)
(* Frames start at the numbers of Starts; bytes between two frames are     *)
(* junk.  Of a frame's Hdr header cells the first stands for the preamble  *)
(* and the last for the length of the parameters, PLen.  Other bytes,      *)
(* between frames or in their parameters, may look like a preamble.  TCP   *)
(* may cut the bytes anywhere, so Receive takes any number up to the       *)
(* buffer's size.                                                          *)
(*                                                                         *)
(* StBuffer is never initialised and ResetQ only moves the indices: a cell *)
(* that was never written can look like anything, and old bytes stay.      *)
(***************************************************************************)
EXTENDS Integers, Sequences

CONSTANTS
  M,         \* MAX_LENGTH: cells of StBuffer
  Recv,      \* RECV_BUFFER_SIZE: bytes of one receive, and of the frame buffer
  Hdr,       \* header bytes of a frame (16)
  Starts,    \* where the peer's frames start
  PLen,      \* PLen[s]: parameter bytes of the frame at s
  Lookalikes, \* bytes that may look like a preamble and start no frame
  WildLens,  \* what the length bytes may read as where there is no header
  MaxBytes   \* bound: bytes received in a behaviour

FrameLen(s) == Hdr + PLen[s]

ASSUME QueueSizes == /\ Hdr \in Nat /\ Hdr >= 2
                     /\ Recv \in Nat /\ Recv > Hdr
                     /\ M \in Nat /\ M > Recv
                     /\ MaxBytes \in Nat

ASSUME FrameAssumption == /\ Starts \subseteq Nat
                          /\ PLen \in [Starts -> Nat]
                          /\ \A s, t \in Starts : s < t => s + Hdr + PLen[s] <= t
                          /\ Lookalikes \subseteq Nat \ Starts /\ WildLens \subseteq Int

VARIABLES
  StBuffer,  \* the cells: byte numbers, Unwritten at first
  front,     \* where AddQ writes next
  rear,      \* where ProcessQ looks
  pc,        \* "receive" or "drain": the two halves of Routine's inner loop
  taken,     \* the cells GetBuffer copied out last
  wr,        \* history: number of the next byte to arrive
  rd,        \* history: number of the byte rear should stand on, while in step
  origin,    \* history: number of the connection's first byte
  split,     \* history: a receive ended within the last Hdr bytes of a frame
  overrun,   \* history: more bytes were queued than StBuffer holds
  misled     \* history: a lookalike was taken for the header of a frame

vars == <<StBuffer, front, rear, pc, taken, wr, rd, origin, split, overrun, misled>>

Cells == 0 .. M - 1
Unwritten == -1

NEXT(x, i) == (x + i) % M
Wrap(i) == IF i < M THEN i ELSE i - M

FullQSize == IF front > rear THEN front - rear ELSE front + (M - rear)
GetQSize == IF front >= rear THEN front - rear ELSE front + (M - rear)

\* The receive that left the end of a frame's last Hdr bytes for later.
SplitsFrame(n) == \E s \in Starts : /\ Hdr <= n - s /\ PLen[s] <= n - s
                                    /\ n - s < FrameLen(s)

\* The conditions under which rear is in step with the peer; rd means nothing without.
InStep == ~split /\ ~overrun /\ ~misled
Step(n) == rd' = IF InStep THEN rd + n ELSE rd

Init ==
  /\ StBuffer = [i \in Cells |-> Unwritten]
  /\ front = 0 /\ rear = 0
  /\ pc = "receive"
  /\ taken = <<>>
  /\ wr \in Starts /\ wr <= MaxBytes /\ rd = wr /\ origin = wr
  /\ split = FALSE /\ overrun = FALSE /\ misled = FALSE

-----------------------------------------------------------------------------
(* receiveBytes and AddQ                                                   *)

Filled(n) == [i \in Cells |-> LET d == IF i >= front THEN i - front ELSE i - front + M
                              IN  IF d < n THEN wr + d ELSE StBuffer[i]]

NextFront(n) == IF front + n < M THEN front + n ELSE n - (M - front)

Receive(n) ==
  /\ pc = "receive"
  /\ wr + n <= MaxBytes
  /\ StBuffer' = Filled(n)
  /\ front' = NextFront(n)
  /\ wr' = wr + n
  /\ split' = (split \/ SplitsFrame(wr + n))
  /\ overrun' = (overrun \/ wr + n - rd >= M)
  /\ pc' = "drain"
  /\ UNCHANGED <<rear, taken, rd, origin, misled>>

\* A non-blocking receive with nothing there.
ReceiveNothing ==
  /\ pc = "receive"
  /\ pc' = "drain"
  /\ UNCHANGED <<StBuffer, front, rear, taken, wr, rd, split, overrun, misled, origin>>

-----------------------------------------------------------------------------
(* The drain loop: ProcessQ, then GetBuffer or ResetQ                      *)

\* What ProcessQ takes for a preamble.
AnythingAt(i) == TRUE
HeaderAt(i) == StBuffer[i] \in Starts \cup Lookalikes \cup {Unwritten}

\* What the length bytes of a header at cell i may read as.
LengthsAt(i) ==
  LET s == StBuffer[NEXT(i, Hdr - 1)] - (Hdr - 1)
  IN  IF s \in Starts THEN {PLen[s]} ELSE WildLens

\* What is at rear is taken for a header, and with it n bytes.
AsHeader(n) ==
  /\ misled' = (misled \/ StBuffer[rear] \in Lookalikes)
  /\ rd' = IF InStep /\ ~misled' THEN rd + n ELSE rd

\* ProcessQ's test that the frame has arrived.
AnyLength(length) == TRUE
WholeAndMore(length) == Hdr + length < GetQSize
Arrived(length) == length <= GetQSize

\* ProcessQ returned Hdr + length, and the frame fits the buffer: GetBuffer.
DrainFrame ==
  /\ pc = "drain" /\ GetQSize >= Hdr /\ HeaderAt(rear)
  /\ \E length \in LengthsAt(rear) :
       /\ Arrived(length) /\ 0 < Hdr + length /\ Hdr + length < Recv
       /\ taken' = [k \in 1 .. Hdr + length |-> StBuffer[Wrap(rear + k - 1)]]
       /\ rear' = Wrap(rear + Hdr + length)
       /\ AsHeader(Hdr + length)
  /\ UNCHANGED <<StBuffer, front, pc, wr, split, overrun, origin>>

\* The frame is too long for the buffer: ResetQ drops all that is queued.
DrainReset ==
  /\ pc = "drain" /\ GetQSize >= Hdr /\ HeaderAt(rear)
  /\ \E length \in LengthsAt(rear) : Arrived(length) /\ Recv <= Hdr + length
  /\ front' = 0 /\ rear' = 0
  /\ AsHeader(wr - rd)
  /\ UNCHANGED <<StBuffer, pc, taken, wr, split, overrun, origin>>

\* No preamble: one byte is skipped, and the loop ends.
SkipHeader == Hdr
SkipCount == 1

DrainSkip ==
  /\ pc = "drain" /\ GetQSize >= Hdr /\ StBuffer[rear] \notin Starts
  /\ rear' = NEXT(rear, SkipCount)
  /\ Step(SkipCount)
  /\ pc' = "receive"
  /\ UNCHANGED <<StBuffer, front, taken, wr, split, overrun, misled, origin>>

\* Not enough bytes, or a length that makes the result negative: the loop ends.
DrainEnd ==
  /\ pc = "drain"
  /\ \/ GetQSize < Hdr /\ UNCHANGED <<rd, misled>>
     \/ /\ GetQSize >= Hdr /\ HeaderAt(rear)
        /\ \E length \in LengthsAt(rear) : ~Arrived(length) \/ Hdr + length <= 0
        /\ AsHeader(0)
  /\ pc' = "receive"
  /\ UNCHANGED <<StBuffer, front, rear, taken, wr, split, overrun, origin>>

\* The connection is lost and made again: ResetQ, and the peer starts a new frame.
Reconnect ==
  /\ pc = "receive"
  /\ \E s \in Starts : s >= wr /\ s <= MaxBytes /\ wr' = s /\ rd' = s /\ origin' = s
  /\ front' = 0 /\ rear' = 0
  /\ taken' = <<>> /\ split' = FALSE /\ overrun' = FALSE /\ misled' = FALSE
  /\ UNCHANGED <<StBuffer, pc>>

Drain == DrainFrame \/ DrainReset \/ DrainSkip \/ DrainEnd
Loop == (\E n \in 1 .. Recv : Receive(n)) \/ ReceiveNothing \/ Drain

Next == Loop \/ Reconnect

Spec == Init /\ [][Next]_vars

\* Routine's loop runs on, every 8 ms, whatever arrives.
LiveSpec == Spec /\ WF_vars(Loop)

-----------------------------------------------------------------------------
(* Properties                                                              *)

TypeOK ==
  /\ StBuffer \in [Cells -> Int]
  /\ front \in Cells /\ rear \in Cells
  /\ pc \in {"receive", "drain"}
  /\ wr \in Nat /\ rd \in Nat
  /\ split \in BOOLEAN /\ overrun \in BOOLEAN /\ misled \in BOOLEAN
  /\ \E n \in 0 .. Recv : taken \in [1 .. n -> Int]

\* In step, front and rear delimit exactly the bytes received and not yet taken, and
\* every one of them is in its cell, through AddQ's and GetBuffer's split copies.
QueueHoldsBytes ==
  InStep =>
    /\ rd <= wr /\ GetQSize = wr - rd
    /\ \A k \in 0 .. wr - rd - 1 : StBuffer[Wrap(rear + k)] = rd + k

\* In step, what is handed to ProcessCommand is one whole frame of the peer, byte for
\* byte, however TCP cut the bytes and whatever an earlier connection left in StBuffer.
FramesIntact ==
  InStep /\ taken # <<>> =>
    \E s \in Starts : taken = [k \in 1 .. FrameLen(s) |-> s + k - 1] /\ s + FrameLen(s) <= rd

\* In step, a frame leaves the queue by being taken whole, or with all the rest in a
\* ResetQ: skipping for a preamble never eats into a frame, and no frame is taken twice.
NoFrameSkipped ==
  [][ InStep /\ ~DrainReset /\ ~Reconnect =>
        \A s \in Starts : s \in rd .. rd' - 1 =>
          s = rd /\ rd' = s + FrameLen(s) /\ taken'[1] = s ]_vars

Frames == INSTANCE FrameStream
            WITH Limit <- Recv, sent <- wr, got <- rd, handed <- taken, sound <- InStep

\* The queue is a stream of frames: through every cut of the bytes, the two copies of a
\* wrapped frame, skipping, ResetQ and reconnects, it hands on what FrameStream does.
FramePromise == Frames!Spec

\* In step, the head of the queue never waits on bytes that have arrived: a frame that
\* is complete leaves the queue.
CompleteFrameLeaves ==
  \A s \in Starts :
    (InStep /\ rd <= s /\ s + FrameLen(s) <= wr) ~> (~InStep \/ rd > s)

\* The peer has sent nothing on this connection but frames, back to back, each of which
\* fits the frame buffer and leaves room for a receive in StBuffer.
BackToBack ==
  \A s \in Starts : origin <= s /\ s < wr =>
    /\ FrameLen(s) < Recv
    /\ FrameLen(s) + Recv <= M
    /\ s + FrameLen(s) < wr => s + FrameLen(s) \in Starts

\* AddQ has no check for a full StBuffer and needs none with such a peer: every receive
\* finds the queue drained to less than one frame.
NeverOverrun == BackToBack /\ ~split => ~overrun

\* TR4Connection.cpp:182: a frame is taken when length <= GetQSize() && length > 0.
TakesOnlyQueued ==
  [][ DrainFrame => Len(taken') <= GetQSize ]_vars
=============================================================================
