--------------------------- MODULE TR4QueueProofs ---------------------------
(***************************************************************************)
(* Proofs about TR4Queue for every buffer, receive and header size and     *)
(* every stream of frames and junk.                                        *)
(*                                                                         *)
(* The inductive invariant says what being in step means: front is as far  *)
(* ahead of rear as bytes are queued, those cells hold those bytes, and no *)
(* frame is cut within its last Hdr bytes, which is what makes ProcessQ's  *)
(* test on the parameter length alone a test on the whole frame.  In step  *)
(* no byte outside a frame is taken for a header (misled).                 *)
(***************************************************************************)
EXTENDS TR4Queue, TLAPS

Held ==
  /\ rd <= wr /\ wr - rd < M
  /\ front = Wrap(rear + (wr - rd))
  /\ \A k \in 0 .. wr - rd - 1 : StBuffer[Wrap(rear + k)] = rd + k

IInv ==
  /\ TypeOK
  /\ InStep => Held
  /\ ~split => ~SplitsFrame(wr)
  /\ FramesIntact

-----------------------------------------------------------------------------

LEMMA NextWraps ==
  ASSUME NEW i \in Cells, NEW n \in 0 .. M
  PROVE  NEXT(i, n) = Wrap(i + n) /\ NEXT(i, n) \in Cells
BY QueueSizes DEF NEXT, Wrap, Cells

LEMMA NextFrontWraps ==
  ASSUME front \in Cells, NEW n \in 1 .. Recv
  PROVE  NextFront(n) = Wrap(front + n) /\ NextFront(n) \in Cells
BY QueueSizes DEF NextFront, Wrap, Cells

\* The frame layout does not let a start fall inside another frame.
LEMMA StartSplitsNothing ==
  ASSUME NEW t \in Starts
  PROVE  ~SplitsFrame(t)
<1> SUFFICES ASSUME NEW s \in Starts, Hdr <= t - s, t - s < FrameLen(s) PROVE FALSE
  BY DEF SplitsFrame
<1>1. s \in Nat /\ t \in Nat /\ PLen[s] \in Nat
  BY FrameAssumption
<1>2. s < t
  BY <1>1, QueueSizes
<1>3. s + Hdr + PLen[s] <= t
  BY <1>2, FrameAssumption
<1> QED BY <1>1, <1>3, QueueSizes DEF FrameLen

LEMMA HeldSize == TypeOK /\ Held => GetQSize = wr - rd
BY QueueSizes DEF TypeOK, Held, GetQSize, Wrap, Cells

LEMMA InitIInv == Init => IInv
<1> SUFFICES ASSUME Init PROVE IInv
  OBVIOUS
<1> USE QueueSizes, FrameAssumption
<1>0. wr \in Starts /\ wr \in Nat /\ rd = wr /\ 0 \in Cells
  BY DEF Init, Cells
<1>1. TypeOK
  <2>1. StBuffer \in [Cells -> Int]
    BY DEF Init, Unwritten
  <2>2. taken \in [1 .. 0 -> Int]
    <3>1. taken = [k \in 1 .. 0 |-> 0]
      BY DEF Init
    <3> QED BY <3>1
  <2>3. front \in Cells /\ rear \in Cells /\ pc \in {"receive", "drain"}
        /\ split \in BOOLEAN /\ overrun \in BOOLEAN /\ misled \in BOOLEAN
    BY <1>0 DEF Init
  <2> QED BY <1>0, <2>1, <2>2, <2>3 DEF TypeOK
<1>2. Held
  BY <1>0 DEF Init, Held, Wrap
<1>3. ~SplitsFrame(wr)
  BY <1>0, StartSplitsNothing
<1>4. FramesIntact
  BY DEF Init, FramesIntact
<1> QED BY <1>1, <1>2, <1>3, <1>4 DEF IInv

LEMMA ReceiveStep == \A n \in 1 .. Recv : IInv /\ Receive(n) => IInv'
<1> SUFFICES ASSUME NEW n \in 1 .. Recv, IInv, Receive(n) PROVE IInv'
  OBVIOUS
<1> USE QueueSizes
<1>0. /\ front \in Cells /\ rear \in Cells /\ wr \in Nat /\ rd \in Nat
      /\ front' = Wrap(front + n) /\ front' \in Cells /\ wr' = wr + n /\ wr' \in Nat
      /\ rear' = rear /\ rd' = rd /\ taken' = taken
  BY NextFrontWraps DEF IInv, TypeOK, Receive
<1>1. TypeOK'
  <2>1. StBuffer' \in [Cells -> Int]
    BY <1>0 DEF IInv, TypeOK, Receive, Filled, Cells
  <2>2. split' \in BOOLEAN /\ overrun' \in BOOLEAN /\ misled' \in BOOLEAN /\ pc' = "drain"
    BY DEF Receive, IInv, TypeOK
  <2>3. \E m \in 0 .. Recv : taken' \in [1 .. m -> Int]
    BY <1>0 DEF IInv, TypeOK
  <2> QED BY <1>0, <2>1, <2>2, <2>3 DEF TypeOK
<1>2. InStep' => Held'
  <2> SUFFICES ASSUME InStep' PROVE Held'
    OBVIOUS
  <2>1. InStep /\ wr + n - rd < M
    <3>1. InStep /\ ~(wr + n - rd >= M)
      BY Zenon DEF InStep, Receive
    <3> QED BY <1>0, <3>1
  <2>2. Held
    BY <2>1 DEF IInv
  <2>3. rd <= wr /\ wr - rd < M /\ front = Wrap(rear + (wr - rd))
    BY <2>2 DEF Held
  <2>4. front' = Wrap(rear + (wr' - rd))
    BY <1>0, <2>1, <2>3 DEF Wrap, Cells
  <2>5. ASSUME NEW k \in 0 .. wr' - rd - 1
        PROVE  StBuffer'[Wrap(rear + k)] = rd + k
    <3> DEFINE i == Wrap(rear + k)
               d == IF i >= front THEN i - front ELSE i - front + M
    <3>1. i \in Cells
      BY <1>0, <2>1 DEF Wrap, Cells
    <3>2. StBuffer'[i] = IF d < n THEN wr + d ELSE StBuffer[i]
      BY <3>1 DEF Receive, Filled
    <3>3. CASE k < wr - rd
      <4>1. StBuffer[i] = rd + k
        BY <1>0, <2>2, <2>3, <3>3 DEF Held
      <4>2. d >= n
        BY <1>0, <2>1, <2>3, <3>3 DEF Wrap, Cells
      <4> QED BY <1>0, <3>1, <3>2, <4>1, <4>2 DEF Cells
    <3>4. CASE k >= wr - rd
      <4>1. d = k - (wr - rd)
        BY <1>0, <2>1, <2>3, <3>4 DEF Wrap, Cells
      <4> QED BY <1>0, <3>2, <3>4, <4>1
    <3> QED BY <1>0, <2>3, <3>3, <3>4
  <2> QED BY <1>0, <2>1, <2>3, <2>4, <2>5 DEF Held
<1>3. ~split' => ~SplitsFrame(wr)'
  BY DEF Receive, SplitsFrame
<1>4. FramesIntact'
  BY <1>0 DEF IInv, FramesIntact, InStep, Receive
<1> QED BY <1>1, <1>2, <1>3, <1>4 DEF IInv

LEMMA ReceiveNothingStep == IInv /\ ReceiveNothing => IInv'
<1> SUFFICES ASSUME IInv, ReceiveNothing PROVE IInv'
  OBVIOUS
<1>1. TypeOK'
  BY DEF IInv, TypeOK, ReceiveNothing
<1>2. (InStep => Held)'
  BY DEF IInv, InStep, Held, ReceiveNothing
<1>3. (~split => ~SplitsFrame(wr))'
  BY DEF IInv, SplitsFrame, ReceiveNothing
<1>4. FramesIntact'
  BY DEF IInv, FramesIntact, InStep, ReceiveNothing
<1> QED BY <1>1, <1>2, <1>3, <1>4 DEF IInv

\* In step, what looks like a header at rear and does not mislead is the header of the
\* frame at rd, its length reads right, and a frame whose length passes the test is there
\* to the end.
LEMMA HeaderIsFrame ==
  ASSUME IInv, InStep, GetQSize >= Hdr, HeaderAt(rear), StBuffer[rear] \notin Lookalikes,
         NEW length \in LengthsAt(rear)
  PROVE  /\ rd \in Starts /\ length = PLen[rd]
         /\ Arrived(length) => rd + FrameLen(rd) <= wr
<1> USE QueueSizes, FrameAssumption
<1>1. /\ TypeOK /\ Held /\ GetQSize = wr - rd /\ rear \in Cells /\ rd \in Nat /\ wr \in Nat
      /\ wr - rd >= Hdr /\ ~split
  BY HeldSize DEF IInv, InStep, TypeOK
<1>2. StBuffer[rear] = rd /\ StBuffer[Wrap(rear + (Hdr - 1))] = rd + (Hdr - 1)
  <2>1. \A k \in 0 .. wr - rd - 1 : StBuffer[Wrap(rear + k)] = rd + k
    BY <1>1 DEF Held
  <2>2. 0 \in 0 .. wr - rd - 1 /\ Hdr - 1 \in 0 .. wr - rd - 1
    BY <1>1
  <2>3. Wrap(rear + 0) = rear
    BY <1>1 DEF Wrap, Cells
  <2>4. StBuffer[Wrap(rear + 0)] = rd + 0
    BY <2>1, <2>2
  <2> QED BY <1>1, <2>1, <2>2, <2>3, <2>4
<1>3. rd \in Starts
  BY <1>1, <1>2 DEF HeaderAt, Unwritten
<1>4. NEXT(rear, Hdr - 1) = Wrap(rear + (Hdr - 1))
  BY <1>1, NextWraps
<1>5. LengthsAt(rear) = {PLen[rd]}
  <2>1. StBuffer[NEXT(rear, Hdr - 1)] - (Hdr - 1) = rd
    BY <1>1, <1>2, <1>4
  <2> QED BY <1>3, <2>1 DEF LengthsAt
<1>6. length = PLen[rd] /\ PLen[rd] \in Nat
  BY <1>3, <1>5
<1>7. ASSUME Arrived(length) PROVE rd + FrameLen(rd) <= wr
  <2>1. PLen[rd] <= wr - rd
    BY <1>1, <1>6, <1>7 DEF Arrived
  <2>2. ~(Hdr <= wr - rd /\ PLen[rd] <= wr - rd /\ wr - rd < FrameLen(rd))
    BY <1>1, <1>3 DEF IInv, SplitsFrame
  <2> QED BY <1>1, <1>6, <2>1, <2>2 DEF FrameLen
<1> QED BY <1>3, <1>6, <1>7

\* Moving rear and rd on together keeps the rest of the queue held.
LEMMA Shift ==
  ASSUME TypeOK, Held, NEW n \in Nat, n <= wr - rd,
         StBuffer' = StBuffer, front' = front, wr' = wr, rear' = Wrap(rear + n), rd' = rd + n
  PROVE  Held'
<1> USE QueueSizes
<1>1. /\ rear \in Cells /\ front \in Cells /\ rd \in Nat /\ wr \in Nat
      /\ rd <= wr /\ wr - rd < M /\ front = Wrap(rear + (wr - rd))
  BY DEF TypeOK, Held
<1>2. rd' <= wr' /\ wr' - rd' < M
  BY <1>1
<1>3. front' = Wrap(rear' + (wr' - rd'))
  BY <1>1 DEF Wrap, Cells
<1>4. ASSUME NEW k \in 0 .. wr' - rd' - 1 PROVE StBuffer'[Wrap(rear' + k)] = rd' + k
  <2>1. n + k \in 0 .. wr - rd - 1
    BY <1>1
  <2>2. StBuffer[Wrap(rear + (n + k))] = rd + (n + k)
    BY <2>1 DEF Held
  <2>3. Wrap(rear' + k) = Wrap(rear + (n + k))
    BY <1>1, <2>1 DEF Wrap, Cells
  <2> QED BY <1>1, <2>1, <2>2, <2>3
<1> QED BY <1>2, <1>3, <1>4 DEF Held

LEMMA DrainFrameStep == IInv /\ DrainFrame => IInv'
<1> SUFFICES ASSUME IInv, DrainFrame PROVE IInv'
  OBVIOUS
<1> USE QueueSizes, FrameAssumption
<1>1. PICK length \in LengthsAt(rear) :
        /\ Arrived(length) /\ 0 < Hdr + length /\ Hdr + length < Recv
        /\ taken' = [k \in 1 .. Hdr + length |-> StBuffer[Wrap(rear + k - 1)]]
        /\ rear' = Wrap(rear + Hdr + length)
        /\ AsHeader(Hdr + length)
  BY DEF DrainFrame
<1>2. length \in Int /\ Hdr + length \in 1 .. Recv - 1
  <2>1. length \in Int
    BY DEF LengthsAt
  <2> QED BY <1>1, <2>1
<1>3. /\ rear \in Cells /\ rd \in Nat /\ wr \in Nat /\ StBuffer \in [Cells -> Int]
      /\ StBuffer' = StBuffer /\ front' = front /\ wr' = wr /\ pc' = pc
      /\ split' = split /\ overrun' = overrun
  BY DEF IInv, TypeOK, DrainFrame
<1>4. TypeOK'
  <2>1. rear' \in Cells
    BY <1>1, <1>2, <1>3 DEF Wrap, Cells
  <2>2. rd' \in Nat
    BY <1>1, <1>2, <1>3 DEF AsHeader
  <2>3. taken' \in [1 .. Hdr + length -> Int]
    <3>1. \A k \in 1 .. Hdr + length : StBuffer[Wrap(rear + k - 1)] \in Int
      BY <1>2, <1>3 DEF Wrap, Cells
    <3> QED BY <1>1, <3>1
  <2>4. \E n \in 0 .. Recv : taken' \in [1 .. n -> Int]
    BY <1>2, <2>3
  <2>5. misled' \in BOOLEAN
    BY <1>1 DEF AsHeader, IInv, TypeOK
  <2> QED BY <1>3, <2>1, <2>2, <2>4, <2>5 DEF IInv, TypeOK
<1>5. ASSUME InStep'
      PROVE  /\ rd \in Starts /\ length = PLen[rd] /\ Hdr + length = FrameLen(rd)
             /\ rd' = rd + FrameLen(rd) /\ FrameLen(rd) <= wr - rd /\ Held
             /\ \A k \in 0 .. wr - rd - 1 : StBuffer[Wrap(rear + k)] = rd + k
  <2>0. InStep /\ ~misled' /\ StBuffer[rear] \notin Lookalikes
    BY <1>1, <1>3, <1>5 DEF AsHeader, InStep
  <2>1. rd \in Starts /\ length = PLen[rd] /\ rd + FrameLen(rd) <= wr
    BY <1>1, <2>0, HeaderIsFrame DEF DrainFrame
  <2>2. Hdr + length = FrameLen(rd) /\ FrameLen(rd) \in Nat
    BY <1>2, <2>1 DEF FrameLen
  <2>3. Held
    BY <2>0 DEF IInv
  <2> QED BY <1>1, <1>3, <2>0, <2>1, <2>2, <2>3 DEF AsHeader, Held
<1>6. InStep' => Held'
  <2> SUFFICES ASSUME InStep' PROVE Held'
    OBVIOUS
  <2>1. InStep'
    OBVIOUS
  <2>2. FrameLen(rd) \in Nat /\ rear' = Wrap(rear + FrameLen(rd))
    <3>1. length \in Int /\ Hdr + length = FrameLen(rd)
      BY <1>2, <1>5, <2>1
    <3>2. rear + Hdr + length = rear + FrameLen(rd)
      BY <1>3, <3>1 DEF Cells
    <3> QED BY <1>1, <1>2, <3>1, <3>2
  <2> QED BY <1>3, <1>5, <2>1, <2>2, Shift DEF IInv
<1>7. (~split => ~SplitsFrame(wr))'
  BY <1>3 DEF IInv, SplitsFrame
<1>8. FramesIntact'
  <2> SUFFICES ASSUME InStep'
               PROVE  \E s \in Starts : /\ taken' = [k \in 1 .. FrameLen(s) |-> s + k - 1]
                                         /\ s + FrameLen(s) <= rd'
    BY DEF FramesIntact
  <2>1. InStep'
    OBVIOUS
  <2>2. \A k \in 1 .. FrameLen(rd) : StBuffer[Wrap(rear + k - 1)] = rd + k - 1
    <3> SUFFICES ASSUME NEW k \in 1 .. FrameLen(rd)
                 PROVE  StBuffer[Wrap(rear + k - 1)] = rd + k - 1
      OBVIOUS
    <3>1. k - 1 \in 0 .. wr - rd - 1 /\ rear + k - 1 = rear + (k - 1)
      BY <1>2, <1>3, <1>5, <2>1 DEF Cells
    <3>2. StBuffer[Wrap(rear + (k - 1))] = rd + (k - 1)
      BY <1>5, <2>1, <3>1
    <3> QED BY <1>2, <1>3, <1>5, <2>1, <3>1, <3>2
  <2>3. taken' = [k \in 1 .. FrameLen(rd) |-> rd + k - 1]
    BY <1>1, <1>5, <2>1, <2>2
  <2>4. rd + FrameLen(rd) <= rd'
    BY <1>2, <1>3, <1>5, <2>1
  <2> QED BY <1>5, <2>1, <2>3, <2>4
<1> QED BY <1>4, <1>6, <1>7, <1>8 DEF IInv

LEMMA DrainResetStep == IInv /\ DrainReset => IInv'
<1> SUFFICES ASSUME IInv, DrainReset PROVE IInv'
  OBVIOUS
<1> USE QueueSizes
<1>1. /\ rd \in Nat /\ wr \in Nat /\ wr' = wr /\ split' = split /\ overrun' = overrun
      /\ front' = 0 /\ rear' = 0 /\ taken' = taken /\ AsHeader(wr - rd) /\ 0 \in Cells
      /\ StBuffer' = StBuffer
  BY DEF IInv, TypeOK, DrainReset, Cells
<1>2. InStep => Held /\ rd <= wr
  BY DEF IInv, Held
<1>3. rd' \in Nat /\ (InStep' => InStep /\ rd' = wr) /\ misled' \in BOOLEAN
  BY <1>1, <1>2 DEF AsHeader, InStep, IInv, TypeOK
<1>4. TypeOK'
  BY <1>1, <1>3 DEF IInv, TypeOK, DrainReset
<1>5. (InStep => Held)'
  BY <1>1, <1>3 DEF Held, Wrap
<1>6. (~split => ~SplitsFrame(wr))'
  BY <1>1 DEF IInv, SplitsFrame
<1>7. FramesIntact'
  <2> SUFFICES ASSUME InStep', taken' # <<>>
               PROVE  \E s \in Starts : /\ taken' = [k \in 1 .. FrameLen(s) |-> s + k - 1]
                                         /\ s + FrameLen(s) <= rd'
    BY DEF FramesIntact
  <2>1. PICK s \in Starts : /\ taken = [k \in 1 .. FrameLen(s) |-> s + k - 1]
                            /\ s + FrameLen(s) <= rd
    BY <1>1, <1>3 DEF IInv, FramesIntact
  <2>2. InStep /\ s \in Nat /\ FrameLen(s) \in Nat
    BY <1>3, FrameAssumption DEF FrameLen
  <2> QED BY <1>1, <1>2, <1>3, <2>1, <2>2
<1> QED BY <1>4, <1>5, <1>6, <1>7 DEF IInv

\* In step the byte under rear is byte rd.
LEMMA RearHolds ==
  ASSUME IInv, InStep, GetQSize >= Hdr
  PROVE  StBuffer[rear] = rd /\ 1 <= wr - rd
<1> USE QueueSizes
<1>1. /\ Held /\ GetQSize = wr - rd /\ rear \in Cells /\ rd \in Nat /\ wr \in Nat
  BY HeldSize DEF IInv, TypeOK
<1>2. 1 <= wr - rd
  BY <1>1
<1>3. StBuffer[Wrap(rear + 0)] = rd + 0
  BY <1>1, <1>2 DEF Held
<1> QED BY <1>1, <1>2, <1>3 DEF Wrap, Cells

LEMMA DrainSkipStep == IInv /\ DrainSkip => IInv'
<1> SUFFICES ASSUME IInv, DrainSkip PROVE IInv'
  OBVIOUS
<1> USE QueueSizes DEF SkipCount
<1>1. /\ rear \in Cells /\ rd \in Nat /\ wr \in Nat /\ wr' = wr /\ Step(1)
      /\ split' = split /\ overrun' = overrun /\ misled' = misled /\ taken' = taken
      /\ front' = front /\ StBuffer' = StBuffer /\ GetQSize >= Hdr
  BY DEF IInv, TypeOK, DrainSkip
<1>2. rear' = Wrap(rear + 1) /\ rear' \in Cells
  BY <1>1, NextWraps DEF DrainSkip
<1>3. rd' \in Nat /\ (InStep => rd' = rd + 1)
  BY <1>1 DEF Step
<1>4. TypeOK'
  BY <1>1, <1>2, <1>3 DEF IInv, TypeOK, DrainSkip
<1>5. (InStep => Held)'
  <2> SUFFICES ASSUME InStep' PROVE Held'
    OBVIOUS
  <2>1. InStep
    BY <1>1 DEF InStep
  <2> QED BY <1>1, <1>2, <1>3, <2>1, RearHolds, Shift DEF IInv
<1>6. (~split => ~SplitsFrame(wr))'
  BY <1>1 DEF IInv, SplitsFrame
<1>7. FramesIntact'
  <2> SUFFICES ASSUME InStep', taken' # <<>>
               PROVE  \E s \in Starts : /\ taken' = [k \in 1 .. FrameLen(s) |-> s + k - 1]
                                         /\ s + FrameLen(s) <= rd'
    BY DEF FramesIntact
  <2>1. PICK s \in Starts : /\ taken = [k \in 1 .. FrameLen(s) |-> s + k - 1]
                            /\ s + FrameLen(s) <= rd
    BY <1>1 DEF IInv, FramesIntact, InStep
  <2>2. InStep /\ s \in Nat /\ FrameLen(s) \in Nat
    BY <1>1, FrameAssumption DEF InStep, FrameLen
  <2> QED BY <1>1, <1>3, <2>1, <2>2
<1> QED BY <1>4, <1>5, <1>6, <1>7 DEF IInv

\* Where the loop ends, nothing moves.
LEMMA DrainEndFacts ==
  ASSUME TypeOK, DrainEnd
  PROVE  /\ UNCHANGED <<StBuffer, front, rear, taken, wr, rd, split, overrun, origin>>
         /\ pc' = "receive" /\ misled' \in BOOLEAN /\ (InStep' => InStep)
<1>1. UNCHANGED <<StBuffer, front, rear, taken, wr, split, overrun, origin>> /\ pc' = "receive"
  BY DEF DrainEnd
<1>2. CASE UNCHANGED <<rd, misled>>
  BY <1>1, <1>2 DEF InStep, TypeOK
<1>3. CASE AsHeader(0)
  <2>1. rd' = rd
    BY <1>3 DEF AsHeader, TypeOK
  <2>2. misled' = (misled \/ StBuffer[rear] \in Lookalikes) /\ misled \in BOOLEAN
    BY <1>3 DEF AsHeader, TypeOK
  <2>3. misled' \in BOOLEAN /\ (~misled' => ~misled)
    BY <2>2
  <2> QED BY <1>1, <2>1, <2>3 DEF InStep
<1> QED BY <1>2, <1>3 DEF DrainEnd

LEMMA DrainEndStep == IInv /\ DrainEnd => IInv'
<1> SUFFICES ASSUME IInv, DrainEnd PROVE IInv'
  OBVIOUS
<1>0. /\ UNCHANGED <<StBuffer, front, rear, taken, wr, rd, split, overrun, origin>>
      /\ pc' = "receive" /\ misled' \in BOOLEAN /\ (InStep' => InStep)
  BY DrainEndFacts DEF IInv
<1>1. TypeOK'
  BY <1>0 DEF IInv, TypeOK
<1>2. (InStep => Held)'
  BY <1>0 DEF IInv, Held
<1>3. (~split => ~SplitsFrame(wr))'
  BY <1>0 DEF IInv, SplitsFrame
<1>4. FramesIntact'
  BY <1>0 DEF IInv, FramesIntact
<1> QED BY <1>1, <1>2, <1>3, <1>4 DEF IInv

LEMMA ReconnectStep == IInv /\ Reconnect => IInv'
<1> SUFFICES ASSUME IInv, Reconnect PROVE IInv'
  OBVIOUS
<1> USE QueueSizes
<1>1. PICK s \in Starts : wr' = s /\ rd' = s
  BY DEF Reconnect
<1>2. /\ s \in Nat /\ front' = 0 /\ rear' = 0 /\ 0 \in Cells /\ taken' = <<>>
      /\ split' = FALSE /\ overrun' = FALSE /\ misled' = FALSE
      /\ StBuffer' = StBuffer /\ pc' = pc
  BY <1>1, FrameAssumption DEF Reconnect, Cells
<1>3. TypeOK'
  <2>1. \E n \in 0 .. Recv : taken' \in [1 .. n -> Int]
    <3>1. taken' = [k \in 1 .. 0 |-> 0]
      BY <1>2
    <3>2. taken' \in [1 .. 0 -> Int]
      BY <3>1
    <3>3. 0 \in 0 .. Recv
      OBVIOUS
    <3> QED BY <3>2, <3>3
  <2> QED BY <1>1, <1>2, <2>1 DEF IInv, TypeOK
<1>4. Held'
  BY <1>1, <1>2 DEF Held, Wrap
<1>5. ~SplitsFrame(wr)'
  <2>1. ~SplitsFrame(s)
    BY StartSplitsNothing
  <2> QED BY <1>1, <2>1 DEF SplitsFrame
<1>6. FramesIntact'
  BY <1>2 DEF FramesIntact
<1> QED BY <1>3, <1>4, <1>5, <1>6 DEF IInv

LEMMA NextIInv == IInv /\ [Next]_vars => IInv'
<1> SUFFICES ASSUME IInv, [Next]_vars PROVE IInv'
  OBVIOUS
<1>1. CASE \E n \in 1 .. Recv : Receive(n)
  BY <1>1, ReceiveStep
<1>2. CASE Drain
  BY <1>2, DrainFrameStep, DrainResetStep, DrainSkipStep, DrainEndStep DEF Drain
<1>3. CASE UNCHANGED vars
  BY <1>3 DEF vars, IInv, TypeOK, InStep, Held, SplitsFrame, FramesIntact
<1> QED BY <1>1, <1>2, <1>3, ReceiveNothingStep, ReconnectStep DEF Next, Loop

\* The inductive invariant holds in every behaviour.
THEOREM Inductive == Spec => []IInv
BY InitIInv, NextIInv, PTL DEF Spec

\* front and rear stay inside StBuffer, whatever the peer sends and however far out of
\* step they are.
THEOREM TypeCorrect == Spec => []TypeOK
<1>1. IInv => TypeOK
  BY DEF IInv
<1> QED BY Inductive, <1>1, PTL

\* In step, the queue is exactly the bytes received and not yet taken.
THEOREM HoldsBytes == Spec => []QueueHoldsBytes
<1>1. IInv => QueueHoldsBytes
  BY HeldSize DEF IInv, QueueHoldsBytes, Held
<1> QED BY Inductive, <1>1, PTL

\* In step, every frame handed on is a whole frame of the peer.
THEOREM WholeFrames == Spec => []FramesIntact
<1>1. IInv => FramesIntact
  BY DEF IInv
<1> QED BY Inductive, <1>1, PTL

-----------------------------------------------------------------------------
(* No frame is skipped                                                     *)

FrameStep == InStep /\ ~DrainReset /\ ~Reconnect =>
  \A s \in Starts : s \in rd .. rd' - 1 => s = rd /\ rd' = s + FrameLen(s) /\ taken'[1] = s

LEMMA NextFrameStep == IInv /\ [Next]_vars => [FrameStep]_vars
<1> SUFFICES ASSUME IInv, Next, InStep, ~DrainReset, ~Reconnect,
                    NEW s \in Starts, s \in rd .. rd' - 1
             PROVE  s = rd /\ rd' = s + FrameLen(s) /\ taken'[1] = s
  BY DEF FrameStep
<1> USE QueueSizes
<1>0. rd \in Nat /\ wr \in Nat /\ s \in Nat
  BY FrameAssumption DEF IInv, TypeOK
<1>1. CASE DrainFrame
  <2>1. PICK length \in LengthsAt(rear) :
          /\ Arrived(length) /\ AsHeader(Hdr + length)
          /\ taken' = [k \in 1 .. Hdr + length |-> StBuffer[Wrap(rear + k - 1)]]
    BY <1>1 DEF DrainFrame
  <2>2. /\ rd' = rd + (Hdr + length) /\ rd \in Starts /\ length = PLen[rd] /\ length \in Nat
        /\ GetQSize >= Hdr
    <3>1. rd' # rd
      BY <1>0
    <3>2. rd' = rd + (Hdr + length) /\ StBuffer[rear] \notin Lookalikes
      BY <2>1, <3>1 DEF AsHeader
    <3> QED BY <1>1, <2>1, <3>2, HeaderIsFrame, FrameAssumption DEF DrainFrame
  <2>3. rd' = rd + Hdr + PLen[rd] /\ rd <= s /\ s < rd'
    BY <1>0, <2>1, <2>2
  <2>4. s = rd /\ rd' = s + FrameLen(s)
    <3>1. rd < s => rd + Hdr + PLen[rd] <= s
      BY <2>2, FrameAssumption
    <3> QED BY <1>0, <2>2, <2>3, <3>1 DEF FrameLen
  <2>5. taken'[1] = StBuffer[Wrap(rear + 1 - 1)]
    BY <2>1, <2>2
  <2>6. Wrap(rear + 1 - 1) = rear
    BY DEF IInv, TypeOK, Cells, Wrap
  <2>7. StBuffer[rear] = rd
    BY <2>2, RearHolds
  <2> QED BY <2>4, <2>5, <2>6, <2>7
<1>2. CASE DrainSkip
  <2>1. rd' = rd + 1 /\ StBuffer[rear] \notin Starts /\ GetQSize >= Hdr
    BY <1>2 DEF DrainSkip, SkipCount, Step
  <2>2. StBuffer[rear] = rd
    BY <2>1, RearHolds
  <2>3. s = rd
    BY <1>0, <2>1
  <2> QED BY <2>1, <2>2, <2>3
<1>3. CASE (\E n \in 1 .. Recv : Receive(n)) \/ ReceiveNothing \/ DrainEnd
  <2>1. rd' = rd
    BY <1>3, DrainEndFacts DEF Receive, ReceiveNothing, IInv
  <2> QED BY <1>0, <2>1
<1> QED BY <1>1, <1>2, <1>3 DEF Next, Loop, Drain

\* In step, a frame leaves the queue whole, once, or in a ResetQ.
THEOREM FramesNotSkipped == Spec => NoFrameSkipped
<1>1. Spec => [][FrameStep]_vars
  BY Inductive, NextFrameStep, PTL DEF Spec
<1> QED BY <1>1 DEF NoFrameSkipped, FrameStep

-----------------------------------------------------------------------------
(* A peer that sends frames back to back never overruns StBuffer           *)

\* Where a frame may start, as far as what was sent tells: at the first byte, or behind
\* another frame.
Boundary(b) == b = origin \/ \E s \in Starts : origin <= s /\ s < b /\ b = s + FrameLen(s)

\* Until a receive splits a frame, rd is where a frame starts or will, and less than
\* that frame is queued whenever the next receive is due.
Drained ==
  /\ origin \in Starts
  /\ BackToBack /\ ~split =>
       /\ ~overrun /\ ~misled /\ Boundary(rd)
       /\ pc = "receive" => rd = wr \/ wr - rd < FrameLen(rd)

LEMMA LengthFacts ==
  ASSUME NEW s \in Starts
  PROVE  s \in Nat /\ PLen[s] \in Nat /\ FrameLen(s) = Hdr + PLen[s] /\ FrameLen(s) \in Nat /\ FrameLen(s) > 0
BY QueueSizes, FrameAssumption DEF FrameLen

\* Behind the last byte but one that a peer of this kind has sent, a boundary is a start.
LEMMA BoundaryStarts ==
  ASSUME BackToBack, origin \in Starts, wr \in Nat, NEW b \in Nat, Boundary(b), b < wr
  PROVE  b \in Starts
<1>1. CASE b = origin
  BY <1>1
<1>2. CASE \E s \in Starts : origin <= s /\ s < b /\ b = s + FrameLen(s)
  <2>1. PICK s \in Starts : origin <= s /\ s < b /\ b = s + FrameLen(s)
    BY <1>2
  <2>2. s < wr
    BY <2>1, LengthFacts
  <2> QED BY <2>1, <2>2, LengthFacts DEF BackToBack
<1> QED BY <1>1, <1>2 DEF Boundary

LEMMA InitDrained == Init => Drained
<1> SUFFICES ASSUME Init PROVE Drained
  OBVIOUS
<1>1. wr \in Starts /\ rd = wr /\ origin = wr /\ ~overrun /\ ~misled
  BY DEF Init
<1> QED BY <1>1 DEF Drained, Boundary

\* What a peer has sent up to now was back to back if what it has sent later is.
LEMMA BackToBackBefore ==
  ASSUME origin' = origin, wr \in Nat, wr' \in Nat, wr <= wr', BackToBack'
  PROVE  BackToBack
<1> SUFFICES ASSUME NEW s \in Starts, origin <= s, s < wr
             PROVE  /\ FrameLen(s) < Recv /\ FrameLen(s) + Recv <= M
                    /\ s + FrameLen(s) < wr => s + FrameLen(s) \in Starts
  BY DEF BackToBack
<1>1. s \in Nat /\ FrameLen(s) \in Nat /\ s < wr' /\ origin' <= s
  BY LengthFacts
<1>2. /\ FrameLen(s) < Recv /\ FrameLen(s) + Recv <= M
      /\ s + FrameLen(s) < wr' => s + FrameLen(s) \in Starts
  BY <1>1 DEF BackToBack, FrameLen
<1> QED BY <1>1, <1>2

\* The steps of the drain loop move rd and nothing else that matters here.
LEMMA DrainDrained ==
  ASSUME Drained, wr' = wr, origin' = origin, split' = split, overrun' = overrun,
         BackToBack /\ ~split => ~misled' /\ Boundary(rd)',
         BackToBack /\ ~split /\ pc' = "receive" => rd' = wr \/ wr - rd' < FrameLen(rd')
  PROVE  Drained'
<1>1. BackToBack' => BackToBack
  BY DEF BackToBack, FrameLen
<1>2. origin' \in Starts
  BY DEF Drained
<1>3. ASSUME BackToBack', ~split'
      PROVE  ~overrun' /\ ~misled' /\ Boundary(rd)' /\ (pc' = "receive" => rd' = wr' \/ wr' - rd' < FrameLen(rd)')
  <2>1. BackToBack /\ ~split
    BY <1>1, <1>3
  <2>2. ~overrun'
    BY <2>1 DEF Drained
  <2>3. pc' = "receive" => rd' = wr' \/ wr' - rd' < FrameLen(rd)'
    BY <2>1 DEF FrameLen
  <2> QED BY <2>1, <2>2, <2>3
<1> QED BY <1>2, <1>3 DEF Drained

LEMMA NextDrained == IInv /\ Drained /\ [Next]_vars => Drained'
<1> SUFFICES ASSUME IInv, Drained, [Next]_vars PROVE Drained'
  OBVIOUS
<1> USE QueueSizes
<1>0. rd \in Nat /\ wr \in Nat /\ rear \in Cells /\ origin \in Starts /\ origin \in Nat
  BY FrameAssumption DEF IInv, TypeOK, Drained
<1>1. BackToBack /\ ~split =>
        InStep /\ Boundary(rd) /\ (rd < wr => rd \in Starts) /\ origin <= rd
  <2> SUFFICES ASSUME BackToBack, ~split
               PROVE  InStep /\ Boundary(rd) /\ (rd < wr => rd \in Starts) /\ origin <= rd
    OBVIOUS
  <2>1. InStep /\ Boundary(rd)
    BY DEF Drained, InStep
  <2>2. origin <= rd
    BY <1>0, <2>1, LengthFacts DEF Boundary
  <2> QED BY <1>0, <2>1, <2>2, BoundaryStarts
\* What a peer of this kind sends never misleads.
<1>10. BackToBack /\ ~split /\ GetQSize >= Hdr => StBuffer[rear] \notin Lookalikes
  BY <1>0, <1>1, RearHolds, FrameAssumption
<1>2. ASSUME NEW n \in 1 .. Recv, Receive(n) PROVE Drained'
  <2>1. /\ wr' = wr + n /\ pc = "receive" /\ pc' = "drain" /\ rd' = rd /\ origin' = origin
    BY <1>2 DEF Receive
  <2>2. ASSUME BackToBack', ~split' PROVE ~overrun' /\ ~misled' /\ Boundary(rd)'
    <3>1. BackToBack /\ ~split
      <4>1. BackToBack
        BY <1>0, <2>1, <2>2, BackToBackBefore
      <4> QED BY <1>2, <2>2, <4>1 DEF Receive
    <3>2. Boundary(rd)'
      BY <1>1, <2>1, <3>1 DEF Boundary, FrameLen
    <3>3. ~(wr + n - rd >= M)
      <4>1. CASE rd = wr
        BY <1>0, <4>1
      <4>2. CASE rd # wr
        <5>1. wr - rd < FrameLen(rd) /\ rd <= wr
          BY <1>1, <2>1, <3>1, <4>2 DEF Drained, IInv, Held
        <5>2. rd \in Starts /\ FrameLen(rd) + Recv <= M
          BY <1>0, <1>1, <3>1, <4>2, <5>1 DEF BackToBack
        <5> QED BY <1>0, <5>1, <5>2, LengthFacts
      <4> QED BY <4>1, <4>2
    <3> QED BY <1>1, <1>2, <3>1, <3>2, <3>3 DEF Receive, InStep
  <2> QED BY <1>0, <2>1, <2>2 DEF Drained
<1>3. CASE ReceiveNothing
  <2>1. /\ wr' = wr /\ origin' = origin /\ split' = split /\ overrun' = overrun
        /\ rd' = rd /\ pc' = "drain" /\ misled' = misled
    BY <1>3 DEF ReceiveNothing
  <2> QED BY <1>1, <2>1, DrainDrained DEF Boundary, FrameLen, InStep
<1>4. CASE DrainFrame
  <2>1. PICK length \in LengthsAt(rear) : Arrived(length) /\ AsHeader(Hdr + length)
    BY <1>4 DEF DrainFrame
  <2>2. /\ split' = split /\ overrun' = overrun /\ wr' = wr /\ origin' = origin
        /\ pc' = "drain"
    BY <1>4 DEF DrainFrame
  <2>3. ASSUME BackToBack, ~split PROVE ~misled' /\ Boundary(rd)'
    <3>0. InStep /\ StBuffer[rear] \notin Lookalikes
      BY <1>1, <1>4, <1>10, <2>3 DEF DrainFrame
    <3>1. rd \in Starts /\ length = PLen[rd]
      BY <1>4, <2>1, <3>0, HeaderIsFrame DEF DrainFrame
    <3>2. rd' = rd + FrameLen(rd) /\ ~misled'
      BY <2>1, <3>0, <3>1 DEF AsHeader, FrameLen, InStep
    <3>3. rd < rd'
      BY <1>0, <3>1, <3>2, LengthFacts
    <3> QED BY <1>1, <2>2, <2>3, <3>1, <3>2, <3>3 DEF Boundary, FrameLen
  <2> QED BY <2>2, <2>3, DrainDrained
<1>5. CASE DrainReset
  <2>1. ~BackToBack \/ split
    <3> SUFFICES ASSUME BackToBack, ~split PROVE FALSE
      OBVIOUS
    <3>1. PICK length \in LengthsAt(rear) : Recv <= Hdr + length
      BY <1>5 DEF DrainReset
    <3>2. rd \in Starts /\ length = PLen[rd] /\ rd < wr
      <4>1. GetQSize >= Hdr
        BY <1>5 DEF DrainReset
      <4>2. 1 <= wr - rd
        BY <1>1, <4>1, RearHolds
      <4> QED BY <1>0, <1>1, <1>5, <1>10, <3>1, <4>1, <4>2, HeaderIsFrame DEF DrainReset
    <3>3. FrameLen(rd) < Recv
      BY <1>1, <3>2 DEF BackToBack
    <3> QED BY <1>0, <3>1, <3>2, <3>3, LengthFacts
  <2>2. wr' = wr /\ origin' = origin /\ split' = split /\ overrun' = overrun
    BY <1>5 DEF DrainReset
  <2> QED BY <2>1, <2>2, DrainDrained
<1>6. CASE DrainSkip
  <2>1. ~BackToBack \/ split
    <3> SUFFICES ASSUME BackToBack, ~split PROVE FALSE
      OBVIOUS
    <3>1. StBuffer[rear] = rd /\ rd < wr
      BY <1>0, <1>1, <1>6, RearHolds DEF DrainSkip
    <3> QED BY <1>1, <1>6, <3>1 DEF DrainSkip
  <2>2. wr' = wr /\ origin' = origin /\ split' = split /\ overrun' = overrun
    BY <1>6 DEF DrainSkip
  <2> QED BY <2>1, <2>2, DrainDrained
<1>7. CASE DrainEnd
  <2>1. /\ wr' = wr /\ origin' = origin /\ split' = split /\ overrun' = overrun
        /\ rd' = rd /\ StBuffer' = StBuffer
    BY <1>7, DrainEndFacts DEF IInv
  <2>2. ASSUME BackToBack, ~split PROVE rd = wr \/ wr - rd < FrameLen(rd)
    <3>1. InStep /\ GetQSize = wr - rd /\ rd <= wr /\ (rd < wr => rd \in Starts)
      BY <1>1, <2>2, HeldSize DEF IInv, Held
    <3>2. CASE GetQSize < Hdr
      BY <1>0, <3>1, <3>2, LengthFacts DEF FrameLen
    <3>3. CASE GetQSize >= Hdr /\ HeaderAt(rear) /\
               \E length \in LengthsAt(rear) : ~Arrived(length) \/ Hdr + length <= 0
      <4>1. PICK length \in LengthsAt(rear) : ~Arrived(length) \/ Hdr + length <= 0
        BY <3>3
      <4>2. rd \in Starts /\ length = PLen[rd]
        BY <1>10, <2>2, <3>1, <3>3, <4>1, HeaderIsFrame
      <4>3. ~(PLen[rd] <= wr - rd)
        BY <1>0, <3>1, <4>1, <4>2, LengthFacts DEF Arrived
      <4> QED BY <1>0, <3>1, <4>2, <4>3, LengthFacts
    <3>4. GetQSize < Hdr \/ GetQSize >= Hdr
      BY <1>0, <3>1
    <3> QED BY <1>7, <3>2, <3>3, <3>4 DEF DrainEnd
  <2>3. ASSUME BackToBack, ~split PROVE ~misled'
    BY <1>1, <1>7, <1>10, <2>3 DEF DrainEnd, AsHeader, InStep
  <2> QED BY <1>1, <2>1, <2>2, <2>3, DrainDrained DEF Boundary, FrameLen
<1>8. CASE Reconnect
  <2>1. PICK s \in Starts : wr' = s /\ rd' = s /\ origin' = s /\ ~overrun' /\ ~misled'
    BY <1>8 DEF Reconnect
  <2> QED BY <2>1 DEF Drained, Boundary
<1>9. CASE UNCHANGED vars
  <2>1. UNCHANGED <<pc, wr, rd, origin, split, overrun, misled>>
    BY <1>9 DEF vars
  <2> QED BY <2>1 DEF Drained, Boundary, BackToBack, FrameLen
<1> QED BY <1>2, <1>3, <1>4, <1>5, <1>6, <1>7, <1>8, <1>9 DEF Next, Loop, Drain

\* StBuffer needs no check for room with a peer that sends frames back to back, as
\* long as no receive ends within a frame's last Hdr bytes.
THEOREM BackToBackNeverOverruns == Spec => []NeverOverrun
<1>1. Drained => NeverOverrun
  BY DEF Drained, NeverOverrun
<1>2. Spec => []Drained
  BY Inductive, InitDrained, NextDrained, PTL DEF Spec
<1> QED BY <1>1, <1>2, PTL
-----------------------------------------------------------------------------
(* The drain loop comes to an end, and never on bytes that it could take   *)

\* In step, a pass of the drain loop that is not misled moves on in the stream; one that
\* does not ends the loop, with less than a header queued or a header whose frame has not arrived.
DrainStep == Drain /\ InStep /\ InStep' =>
  \/ rd < rd' /\ rd' <= wr
  \/ /\ pc' = "receive" /\ rd' = rd
     /\ wr - rd < Hdr \/ (rd \in Starts /\ wr < rd + FrameLen(rd))

LEMMA DrainMoves == IInv => DrainStep
<1> SUFFICES ASSUME IInv, Drain, InStep, InStep'
             PROVE  \/ rd < rd' /\ rd' <= wr
                    \/ /\ pc' = "receive" /\ rd' = rd
                       /\ wr - rd < Hdr \/ (rd \in Starts /\ wr < rd + FrameLen(rd))
  BY DEF DrainStep
<1> USE QueueSizes
<1>1. rd \in Nat /\ wr \in Nat /\ GetQSize = wr - rd
  BY HeldSize DEF IInv, TypeOK
<1>2. CASE DrainFrame
  <2>1. PICK length \in LengthsAt(rear) : /\ Arrived(length) /\ rd' = rd + (Hdr + length)
                                          /\ StBuffer[rear] \notin Lookalikes
    BY <1>2 DEF DrainFrame, AsHeader, InStep
  <2>2. rd \in Starts /\ length = PLen[rd] /\ rd + FrameLen(rd) <= wr
    BY <1>2, <2>1, HeaderIsFrame DEF DrainFrame
  <2> QED BY <1>1, <2>1, <2>2, FrameAssumption DEF FrameLen
<1>3. CASE DrainReset
  BY <1>1, <1>3 DEF DrainReset, AsHeader, InStep
<1>4. CASE DrainSkip
  BY <1>1, <1>4 DEF DrainSkip, SkipCount, Step
<1>5. CASE DrainEnd
  <2>1. pc' = "receive" /\ rd' = rd
    BY <1>5, DrainEndFacts DEF IInv
  <2>2. CASE GetQSize < Hdr
    BY <1>1, <2>1, <2>2
  <2>3. CASE GetQSize >= Hdr /\ HeaderAt(rear)
    <3>1. PICK length \in LengthsAt(rear) : ~Arrived(length) \/ Hdr + length <= 0
      BY <1>1, <1>5, <2>3 DEF DrainEnd
    <3>0. StBuffer[rear] \notin Lookalikes
      <4>1. AsHeader(0)
        BY <1>1, <1>5, <2>3 DEF DrainEnd
      <4> QED BY <4>1 DEF AsHeader, InStep
    <3>2. rd \in Starts /\ length = PLen[rd] /\ length \in Nat
      BY <2>3, <3>0, <3>1, HeaderIsFrame, FrameAssumption
    <3> QED BY <1>1, <2>1, <3>1, <3>2 DEF Arrived, FrameLen
  <2> QED BY <1>1, <1>5, <2>2, <2>3 DEF DrainEnd
<1> QED BY <1>2, <1>3, <1>4, <1>5 DEF Drain

\* The drain loop ends, because it goes forward through what is queued, and it does not
\* end in front of a frame that is complete.
THEOREM DrainGoesOn == Spec => [][DrainStep]_vars
<1>1. IInv /\ [Next]_vars => [DrainStep]_vars
  BY DrainMoves
<1> QED BY Inductive, <1>1, PTL DEF Spec

-----------------------------------------------------------------------------
(* The queue implements FrameStream                                        *)

\* What GetBuffer copies, through both of its halves, is the frame at rd.
LEMMA CopyIsFrame ==
  ASSUME IInv, InStep, rd \in Starts, rd + FrameLen(rd) <= wr
  PROVE  [k \in 1 .. FrameLen(rd) |-> StBuffer[Wrap(rear + k - 1)]]
           = [k \in 1 .. FrameLen(rd) |-> rd + k - 1]
<1> SUFFICES ASSUME NEW k \in 1 .. FrameLen(rd)
             PROVE  StBuffer[Wrap(rear + k - 1)] = rd + k - 1
  OBVIOUS
<1>1. /\ rd \in Nat /\ wr \in Nat /\ rear \in Int /\ FrameLen(rd) \in Nat
      /\ \A j \in 0 .. wr - rd - 1 : StBuffer[Wrap(rear + j)] = rd + j
  <2>1. Held /\ TypeOK
    BY DEF IInv
  <2>2. rd \in Nat /\ wr \in Nat /\ rear \in Int
    BY <2>1, QueueSizes DEF TypeOK, Cells
  <2>3. \A j \in 0 .. wr - rd - 1 : StBuffer[Wrap(rear + j)] = rd + j
    BY <2>1 DEF Held
  <2> QED BY <2>2, <2>3, LengthFacts
<1>2. k - 1 \in 0 .. wr - rd - 1 /\ rear + k - 1 = rear + (k - 1) /\ rd + k - 1 = rd + (k - 1)
  BY <1>1
<1> QED BY <1>1, <1>2

\* A header that is none misleads, and only in front of what is outside a frame.
LEMMA NotMisled ==
  ASSUME NEW n, AsHeader(n), InStep'
  PROVE  StBuffer[rear] \notin Lookalikes /\ rd' = IF InStep THEN rd + n ELSE rd
BY DEF AsHeader, InStep

LEMMA MisledStreams ==
  ASSUME IInv, NEW n, AsHeader(n), UNCHANGED <<wr, split, overrun>>, GetQSize >= Hdr,
         InStep, ~InStep'
  PROVE  [Frames!Next]_(Frames!fvars)
<1>1. StBuffer[rear] \in Lookalikes /\ rd' = rd
  BY DEF AsHeader, InStep
<1>2. StBuffer[rear] = rd /\ 1 <= wr - rd /\ rd \in Nat /\ wr \in Nat
  BY RearHolds DEF IInv, TypeOK
<1>3. rd \notin Starts /\ rd < wr
  BY <1>1, <1>2, FrameAssumption
<1>4. Frames!Mislead
  BY <1>1, <1>3 DEF Frames!Mislead
<1> QED BY <1>4 DEF Frames!Next

LEMMA DrainFrameStreams ==
  ASSUME IInv, DrainFrame
  PROVE  [Frames!Next]_(Frames!fvars)
<1> USE QueueSizes, FrameAssumption
<1>1. PICK length \in LengthsAt(rear) :
        /\ Arrived(length) /\ Hdr + length < Recv
        /\ taken' = [k \in 1 .. Hdr + length |-> StBuffer[Wrap(rear + k - 1)]]
        /\ AsHeader(Hdr + length)
  BY DEF DrainFrame
<1>2. UNCHANGED <<wr, split, overrun>> /\ GetQSize >= Hdr /\ HeaderAt(rear)
  BY DEF DrainFrame
<1>3. CASE InStep /\ InStep'
  <2>1. rd \in Starts /\ length = PLen[rd] /\ rd + FrameLen(rd) <= wr
    BY <1>1, <1>2, <1>3, NotMisled, HeaderIsFrame
  <2>2. Hdr + length = FrameLen(rd)
    BY <2>1 DEF FrameLen
  <2>3. taken' = [k \in 1 .. FrameLen(rd) |-> rd + k - 1]
    BY <1>1, <1>3, <2>1, <2>2, CopyIsFrame
  <2>4. rd' = rd + FrameLen(rd) /\ FrameLen(rd) < Recv
    BY <1>1, <1>3, <2>2 DEF AsHeader, InStep
  <2>5. Frames!Hand
    BY <1>2, <1>3, <2>1, <2>3, <2>4 DEF Frames!Hand, Frames!Whole, InStep
  <2> QED BY <2>5 DEF Frames!Next
<1>4. CASE ~InStep
  <2>1. Frames!Wander
    BY <1>1, <1>2, <1>4 DEF Frames!Wander, AsHeader, InStep
  <2> QED BY <2>1 DEF Frames!Next
<1>5. CASE InStep /\ ~InStep'
  BY <1>1, <1>2, <1>5, MisledStreams
<1> QED BY <1>3, <1>4, <1>5

LEMMA DrainResetStreams ==
  ASSUME IInv, DrainReset
  PROVE  [Frames!Next]_(Frames!fvars)
<1> USE QueueSizes, FrameAssumption
<1>1. PICK length \in LengthsAt(rear) : Arrived(length) /\ Recv <= Hdr + length
  BY DEF DrainReset
<1>2. /\ UNCHANGED <<wr, split, overrun, taken>> /\ GetQSize >= Hdr /\ HeaderAt(rear)
      /\ AsHeader(wr - rd)
  BY DEF DrainReset
<1>3. CASE InStep /\ InStep'
  <2>1. rd \in Starts /\ length = PLen[rd] /\ rd + FrameLen(rd) <= wr
    BY <1>1, <1>2, <1>3, NotMisled, HeaderIsFrame
  <2>2. Recv <= FrameLen(rd)
    BY <1>1, <2>1 DEF FrameLen
  <2>3. rd' = wr
    BY <1>2, <1>3 DEF AsHeader, InStep, IInv, TypeOK
  <2>4. Frames!Drop
    BY <1>2, <1>3, <2>1, <2>2, <2>3 DEF Frames!Drop, Frames!Whole, InStep
  <2> QED BY <2>4 DEF Frames!Next
<1>4. CASE ~InStep
  BY <1>2, <1>4 DEF Frames!fvars, AsHeader, InStep
<1>5. CASE InStep /\ ~InStep'
  BY <1>1, <1>2, <1>5, MisledStreams
<1> QED BY <1>3, <1>4, <1>5

LEMMA DrainSkipStreams ==
  ASSUME IInv, DrainSkip
  PROVE  [Frames!Next]_(Frames!fvars)
<1>1. /\ UNCHANGED <<wr, split, overrun, misled, taken>> /\ GetQSize >= Hdr
      /\ StBuffer[rear] \notin Starts /\ Step(1)
  BY DEF DrainSkip, SkipCount
<1>2. CASE InStep
  <2>1. StBuffer[rear] = rd /\ 1 <= wr - rd /\ rd \in Nat /\ wr \in Nat
    BY <1>1, <1>2, RearHolds DEF IInv, TypeOK
  <2>2. rd \notin Starts /\ rd < wr /\ rd' = rd + 1
    BY <1>1, <1>2, <2>1 DEF Step
  <2>3. Frames!Pass
    BY <1>1, <1>2, <2>2 DEF Frames!Pass, InStep
  <2> QED BY <2>3 DEF Frames!Next
<1>3. CASE ~InStep
  BY <1>1, <1>3 DEF Frames!fvars, Step, InStep
<1> QED BY <1>2, <1>3

LEMMA NextStreams == IInv /\ [Next]_vars => [Frames!Next]_(Frames!fvars)
<1> SUFFICES ASSUME IInv, [Next]_vars PROVE [Frames!Next]_(Frames!fvars)
  OBVIOUS
<1>1. ASSUME NEW n \in 1 .. Recv, Receive(n) PROVE Frames!Next
  <2>1. wr' \in Nat /\ wr < wr' /\ UNCHANGED <<rd, taken>>
    BY <1>1, QueueSizes DEF Receive, IInv, TypeOK
  <2>2. InStep' => InStep
    BY <1>1 DEF Receive, InStep
  <2>3. Frames!Arrive
    BY <2>1, <2>2 DEF Frames!Arrive
  <2> QED BY <2>3 DEF Frames!Next
<1>2. CASE ReceiveNothing \/ UNCHANGED vars
  BY <1>2 DEF ReceiveNothing, vars, Frames!fvars, InStep
<1>4. CASE DrainEnd
  <2>1. UNCHANGED <<wr, rd, split, overrun, taken>> /\ (InStep' => InStep)
    BY <1>4, DrainEndFacts DEF IInv
  <2>2. CASE InStep' <=> InStep
    BY <2>1, <2>2 DEF Frames!fvars
  <2>3. CASE InStep /\ ~InStep'
    <3>1. GetQSize >= Hdr /\ AsHeader(0)
      BY <1>4, <2>1, <2>3 DEF DrainEnd, InStep
    <3> QED BY <2>1, <2>3, <3>1, MisledStreams
  <2> QED BY <2>1, <2>2, <2>3
<1>3. CASE Reconnect
  <2>1. Frames!Connect
    BY <1>3, FrameAssumption DEF Reconnect, Frames!Connect, InStep
  <2> QED BY <2>1 DEF Frames!Next
<1> QED BY <1>1, <1>2, <1>3, <1>4, DrainFrameStreams, DrainResetStreams, DrainSkipStreams
    DEF Next, Loop, Drain

\* Whatever TCP does to the bytes, the queue hands on what a stream of frames does, until a
\* receive splits a frame, the buffer is overrun, or a byte outside a frame misleads it.
THEOREM QueueIsFrameStream == Spec => FramePromise
<1>1. Init => Frames!Init
  BY DEF Init, Frames!Init, InStep
<1> QED BY <1>1, NextStreams, Inductive, PTL DEF Spec, FramePromise, Frames!Spec
=============================================================================
