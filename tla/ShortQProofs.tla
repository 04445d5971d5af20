---------------------------- MODULE ShortQProofs ----------------------------
(***************************************************************************)
(* Proofs about ShortQ for every ring length, insert length, chunk length  *)
(* and set of readers.                                                     *)
(*                                                                         *)
(* The ring is described without remainders: RingHoldsStream gives every   *)
(* cell by its distance behind the index, and ReaderPlaced gives an        *)
(* unlapped reader's index by its lag.  An insert shifts both by W, a      *)
(* Remove shifts one reader by C.  The last part proves, on top of it,     *)
(* that a handler that comes round in time is never lapped.                *)
(***************************************************************************)
EXTENDS ShortQTimely, TLAPS

\* An unlapped reader stands exactly its lag behind the writer's index.
ReaderPlaced ==
  \A r \in Readers :
    Playing(r) /\ r \notin lapped =>
      /\ 0 <= Lag(r) /\ Lag(r) <= L
      /\ read_index[r] = IF Lag(r) <= index THEN index - Lag(r) ELSE index - Lag(r) + L

IInv == TypeOK /\ RingHoldsStream /\ ReaderPlaced /\ CheckedChunkSurvives /\ ChunkContiguous

-----------------------------------------------------------------------------

\* The % of Remove is the single wrap of GetData.
LEMMA AdvanceWraps ==
  ASSUME NEW i \in Cells
  PROVE  Advance(i) = Wrap(i + C) /\ Advance(i) \in Cells
BY SizeAssumption DEF Advance, Wrap, Cells

LEMMA NextIndexWraps ==
  ASSUME index \in Cells
  PROVE  NextIndex = Wrap(index + W) /\ NextIndex \in Cells
BY SizeAssumption DEF NextIndex, Wrap, Cells

LEMMA InitIInv == Init => IInv
<1> SUFFICES ASSUME Init PROVE IInv
  OBVIOUS
<1> USE SizeAssumption
<1>1. TypeOK
  <2>1. chunk \in [Readers -> {<<>>} \cup [1 .. C -> Int]]
    BY Zenon DEF Init
  <2>2. 0 \in Cells
    BY DEF Cells
  <2>3. Q \in [Cells -> Int]
    BY DEF Init, Cells
  <2>4. /\ pc \in [Readers -> {"stopped", "playing", "ready"}]
        /\ read_index \in [Readers -> Cells]
        /\ pos \in [Readers -> Int]
    BY <2>2 DEF Init
  <2>5. index \in Cells /\ inserting \in BOOLEAN /\ total \in Nat /\ lapped \subseteq Readers
    BY <2>2 DEF Init
  <2> QED BY <2>1, <2>3, <2>4, <2>5 DEF TypeOK
<1>2. RingHoldsStream
  BY DEF Init, RingHoldsStream, Cells
<1>3. ReaderPlaced
  BY DEF Init, ReaderPlaced, Playing
<1>4. CheckedChunkSurvives
  BY DEF Init, CheckedChunkSurvives
<1>5. ChunkContiguous
  BY DEF Init, ChunkContiguous
<1> QED BY <1>1, <1>2, <1>3, <1>4, <1>5 DEF IInv

\* The copy fills the W cells ahead of the index; no reader moves.
LEMMA InsertCopyStep == IInv /\ InsertCopy => IInv'
<1> SUFFICES ASSUME IInv, InsertCopy PROVE IInv'
  OBVIOUS
<1> USE SizeAssumption
<1>1. TypeOK'
  BY DEF IInv, TypeOK, InsertCopy, rvars, QSize, Cells
<1>2. RingHoldsStream'
  BY DEF IInv, TypeOK, RingHoldsStream, InsertCopy, rvars, QSize, Cells
<1>3. ReaderPlaced'
  BY DEF IInv, ReaderPlaced, InsertCopy, rvars, Playing, Lag
<1>4. CheckedChunkSurvives'
  BY DEF IInv, CheckedChunkSurvives, InsertCopy, rvars, Lag
<1>5. ChunkContiguous'
  BY DEF IInv, ChunkContiguous, InsertCopy, rvars
<1> QED BY <1>1, <1>2, <1>3, <1>4, <1>5 DEF IInv

\* Publishing moves the index and the end of the stream together: every cell's
\* distance grows by W, and so does every playing reader's lag.
LEMMA InsertPublishStep == IInv /\ InsertPublish => IInv'
<1> SUFFICES ASSUME IInv, InsertPublish PROVE IInv'
  OBVIOUS
<1> USE SizeAssumption
<1>0. /\ index \in Cells /\ index' = Wrap(index + W) /\ index' \in Cells
      /\ total' = total + W /\ total \in Nat
  BY NextIndexWraps DEF IInv, TypeOK, InsertPublish
<1>1. TypeOK'
  <2>1. lapped' \subseteq Readers
    BY DEF IInv, TypeOK, InsertPublish
  <2>2. total' \in Nat
    BY <1>0
  <2> QED BY <1>0, <2>1, <2>2 DEF IInv, TypeOK, InsertPublish
<1>2. RingHoldsStream'
  <2> SUFFICES ASSUME NEW i \in Cells
               PROVE  Q[i]' = IF i < index' THEN total' - index' + i + 1
                                            ELSE total' - index' + i + 1 - L
    BY DEF InsertPublish, RingHoldsStream
  <2>1. Q' = Q /\ inserting /\ Q[i] \in Int
    BY DEF IInv, TypeOK, InsertPublish
  <2>2. Q[i] = IF QSize(index, i) < W
                 THEN total + 1 + QSize(index, i)
                 ELSE IF i < index THEN total - index + i + 1 ELSE total - index + i + 1 - L
    BY <2>1 DEF IInv, RingHoldsStream
  <2> QED BY <1>0, <2>1, <2>2 DEF QSize, Wrap, Cells
<1>3. ReaderPlaced'
  <2> SUFFICES ASSUME NEW r \in Readers, Playing(r)', r \notin lapped'
               PROVE  /\ 0 <= Lag(r)' /\ Lag(r)' <= L
                      /\ read_index'[r] = IF Lag(r)' <= index' THEN index' - Lag(r)'
                                                              ELSE index' - Lag(r)' + L
    BY DEF ReaderPlaced
  <2>1. Playing(r) /\ r \notin lapped /\ Lag(r)' = Lag(r) + W /\ Lag(r) + W <= L /\ Lag(r) \in Int
    BY <1>0 DEF IInv, TypeOK, InsertPublish, Playing, Lag
  <2>2. /\ 0 <= Lag(r)
        /\ read_index[r] = IF Lag(r) <= index THEN index - Lag(r) ELSE index - Lag(r) + L
    BY <2>1 DEF IInv, ReaderPlaced
  <2>3. read_index' = read_index
    BY DEF InsertPublish
  <2> QED BY <1>0, <2>1, <2>2, <2>3 DEF Wrap, Cells
<1>4. CheckedChunkSurvives'
  <2> SUFFICES ASSUME NEW r \in Readers, pc'[r] = "ready", r \notin lapped'
               PROVE  C <= Lag(r)' /\ Lag(r)' <= L
    BY DEF CheckedChunkSurvives
  <2>1. pc[r] = "ready" /\ r \notin lapped /\ Lag(r)' = Lag(r) + W /\ Lag(r) + W <= L /\ Lag(r) \in Int
    BY <1>0 DEF IInv, TypeOK, InsertPublish, Playing, Lag
  <2>2. C <= Lag(r)
    BY <2>1 DEF IInv, CheckedChunkSurvives
  <2> QED BY <2>1, <2>2
<1>5. ChunkContiguous'
  BY DEF IInv, TypeOK, ChunkContiguous, InsertPublish, Playing
<1> QED BY <1>1, <1>2, <1>3, <1>4, <1>5 DEF IInv

\* EmptyQueue puts the reader at the index: its lag is 0.
LEMMA PlayStep == \A r \in Readers : IInv /\ Play(r) => IInv'
<1> SUFFICES ASSUME NEW p \in Readers, IInv, Play(p) PROVE IInv'
  OBVIOUS
<1> USE SizeAssumption
<1>1. TypeOK'
  BY DEF IInv, TypeOK, Play, wvars, EmptyQueue
<1>2. RingHoldsStream'
  BY DEF IInv, RingHoldsStream, Play, wvars, QSize
<1>3. ReaderPlaced'
  BY DEF IInv, TypeOK, ReaderPlaced, Play, wvars, EmptyQueue, Playing, Lag, Cells
<1>4. CheckedChunkSurvives'
  BY DEF IInv, TypeOK, CheckedChunkSurvives, Play, wvars, Lag
<1>5. ChunkContiguous'
  BY DEF IInv, TypeOK, ChunkContiguous, Play, wvars
<1> QED BY <1>1, <1>2, <1>3, <1>4, <1>5 DEF IInv

LEMMA StopStep == \A r \in Readers : IInv /\ Stop(r) => IInv'
<1> SUFFICES ASSUME NEW p \in Readers, IInv, Stop(p) PROVE IInv'
  OBVIOUS
<1> USE SizeAssumption
<1>1. TypeOK'
  BY DEF IInv, TypeOK, Stop, wvars
<1>2. RingHoldsStream'
  BY DEF IInv, RingHoldsStream, Stop, wvars, QSize
<1>3. ReaderPlaced'
  BY DEF IInv, TypeOK, ReaderPlaced, Stop, wvars, Playing, Lag
<1>4. CheckedChunkSurvives'
  BY DEF IInv, TypeOK, CheckedChunkSurvives, Stop, wvars, Lag
<1>5. ChunkContiguous'
  BY DEF IInv, TypeOK, ChunkContiguous, Stop, wvars
<1> QED BY <1>1, <1>2, <1>3, <1>4, <1>5 DEF IInv

\* An unlapped reader's GetQSize is its lag, so a check that succeeds bounds the lag.
LEMMA PlacedSize == TypeOK /\ ReaderPlaced => SizeIsLag
<1> SUFFICES ASSUME TypeOK, ReaderPlaced, NEW r \in Readers, Playing(r), r \notin lapped
             PROVE  /\ Lag(r) \in 0 .. L
                    /\ QSize(read_index[r], index) = IF Lag(r) < L THEN Lag(r) ELSE 0
  BY DEF SizeIsLag
<1>1. index \in Cells /\ Lag(r) \in Int
  BY DEF TypeOK, Lag
<1>2. /\ 0 <= Lag(r) /\ Lag(r) <= L
      /\ read_index[r] = IF Lag(r) <= index THEN index - Lag(r) ELSE index - Lag(r) + L
  BY DEF ReaderPlaced
<1> QED BY SizeAssumption, <1>1, <1>2 DEF QSize, Cells

LEMMA CheckStep == \A r \in Readers : IInv /\ Check(r) => IInv'
<1> SUFFICES ASSUME NEW p \in Readers, IInv, Check(p) PROVE IInv'
  OBVIOUS
<1> USE SizeAssumption
<1>1. TypeOK'
  BY DEF IInv, TypeOK, Check, wvars
<1>2. RingHoldsStream'
  BY DEF IInv, RingHoldsStream, Check, wvars, QSize
<1>3. ReaderPlaced'
  BY DEF IInv, TypeOK, ReaderPlaced, Check, wvars, Playing, Lag
<1>4. CheckedChunkSurvives'
  <2>1. p \notin lapped => C <= Lag(p) /\ Lag(p) <= L
    BY PlacedSize DEF IInv, TypeOK, SizeIsLag, Check, Playing, Lag
  <2> QED BY <2>1 DEF IInv, TypeOK, CheckedChunkSurvives, Check, wvars, Lag
<1>5. ChunkContiguous'
  BY DEF IInv, TypeOK, ChunkContiguous, Check, wvars
<1> QED BY <1>1, <1>2, <1>3, <1>4, <1>5 DEF IInv

\* The cells a checked, unlapped reader is about to copy hold the C samples that
\* follow its position.
LEMMA DataIsStream ==
  ASSUME IInv, ~inserting, NEW r \in Readers, pc[r] = "ready", r \notin lapped
  PROVE  DataAt(r) = [k \in 1 .. C |-> pos[r] + k]
<1> USE SizeAssumption
<1> SUFFICES ASSUME NEW k \in 1 .. C
             PROVE  Q[Wrap(read_index[r] + k - 1)] = pos[r] + k
  BY DEF DataAt
<1> DEFINE i == Wrap(read_index[r] + k - 1)
<1>1. /\ index \in Cells /\ read_index[r] \in Cells /\ pos[r] \in Int /\ total \in Nat
      /\ Lag(r) = total - pos[r]
  BY DEF IInv, TypeOK, Lag
<1>2. C <= Lag(r) /\ Lag(r) <= L
  BY DEF IInv, CheckedChunkSurvives
<1>3. read_index[r] = IF Lag(r) <= index THEN index - Lag(r) ELSE index - Lag(r) + L
  BY DEF IInv, ReaderPlaced, Playing
<1>4. i \in Cells
  BY <1>1 DEF Wrap, Cells
<1>5. Q[i] = IF i < index THEN total - index + i + 1 ELSE total - index + i + 1 - L
  BY <1>4 DEF IInv, RingHoldsStream
<1> QED BY <1>1, <1>2, <1>3, <1>5 DEF Wrap, Cells

LEMMA RemoveStep == \A r \in Readers : IInv /\ Remove(r) => IInv'
<1> SUFFICES ASSUME NEW p \in Readers, IInv, Remove(p) PROVE IInv'
  OBVIOUS
<1> USE SizeAssumption
<1>0. ~inserting /\ pc[p] = "ready"
  BY DEF Remove, RingFree
<1>1. TypeOK'
  <2>1. DataAt(p) \in [1 .. C -> Int]
    <3> SUFFICES ASSUME NEW k \in 1 .. C
                 PROVE  Q[Wrap(read_index[p] + k - 1)] \in Int
      BY DEF DataAt
    <3> QED BY DEF IInv, TypeOK, Wrap, Cells
  <2>2. Advance(read_index[p]) \in Cells
    BY AdvanceWraps DEF IInv, TypeOK
  <2> QED BY <2>1, <2>2 DEF IInv, TypeOK, Remove, wvars
<1>2. RingHoldsStream'
  BY DEF IInv, RingHoldsStream, Remove, wvars, QSize
<1>3. ReaderPlaced'
  <2> SUFFICES ASSUME NEW r \in Readers, Playing(r)', r \notin lapped'
               PROVE  /\ 0 <= Lag(r)' /\ Lag(r)' <= L
                      /\ read_index'[r] = IF Lag(r)' <= index' THEN index' - Lag(r)'
                                                              ELSE index' - Lag(r)' + L
    BY DEF ReaderPlaced
  <2>1. CASE r = p
    <3>1. /\ Lag(p) \in Int /\ Lag(p)' = Lag(p) - C /\ index' = index /\ index \in Cells
          /\ read_index[p] \in Cells /\ read_index'[p] = Wrap(read_index[p] + C)
      BY AdvanceWraps DEF IInv, TypeOK, Remove, wvars, Lag
    <3>2. C <= Lag(p) /\ Lag(p) <= L
      BY <1>0, <2>1 DEF IInv, CheckedChunkSurvives, Remove
    <3>3. read_index[p] = IF Lag(p) <= index THEN index - Lag(p) ELSE index - Lag(p) + L
      BY <1>0, <2>1 DEF IInv, ReaderPlaced, Remove, Playing
    <3> QED BY <2>1, <3>1, <3>2, <3>3 DEF Wrap, Cells
  <2>2. CASE r # p
    BY <2>2 DEF IInv, TypeOK, ReaderPlaced, Remove, wvars, Playing, Lag
  <2> QED BY <2>1, <2>2
<1>4. CheckedChunkSurvives'
  BY DEF IInv, TypeOK, CheckedChunkSurvives, Remove, wvars, Lag
<1>5. ChunkContiguous'
  <2>1. p \notin lapped => DataAt(p) = [k \in 1 .. C |-> pos[p] + k]
    BY <1>0, DataIsStream
  <2>2. p \notin lapped => chunk'[p] = [k \in 1 .. C |-> pos'[p] - C + k]
    <3>1. chunk'[p] = DataAt(p) /\ pos'[p] = pos[p] + C /\ pos[p] \in Int
      BY DEF IInv, TypeOK, Remove
    <3>2. \A k \in 1 .. C : pos[p] + C - C + k = pos[p] + k
      BY <3>1
    <3> QED BY <2>1, <3>1, <3>2
  <2> QED BY <2>2 DEF IInv, TypeOK, ChunkContiguous, Remove, wvars
<1> QED BY <1>1, <1>2, <1>3, <1>4, <1>5 DEF IInv

LEMMA NextIInv == IInv /\ [Next]_vars => IInv'
<1> SUFFICES ASSUME IInv, [Next]_vars PROVE IInv'
  OBVIOUS
<1>1. CASE Insert
  BY <1>1, InsertCopyStep, InsertPublishStep DEF Insert
<1>2. CASE \E r \in Readers : Reader(r)
  BY <1>2, PlayStep, StopStep, CheckStep, RemoveStep DEF Reader
<1>3. CASE UNCHANGED vars
  BY <1>3 DEF vars, IInv, TypeOK, RingHoldsStream, ReaderPlaced, CheckedChunkSurvives,
     ChunkContiguous, Playing, Lag, QSize
<1> QED BY <1>1, <1>2, <1>3 DEF Next

\* The inductive invariant holds in every behaviour.
THEOREM Inductive == Spec => []IInv
BY InitIInv, NextIInv, PTL DEF Spec

\* The indices stay inside the ring and every variable keeps its type.
THEOREM TypeCorrect == Spec => []TypeOK
<1>1. IInv => TypeOK
  BY DEF IInv
<1> QED BY Inductive, <1>1, PTL

\* Insert's two copies keep the ring a sliding window of the stream, for every ring
\* and insert length.
THEOREM RingIsWindow == Spec => []RingHoldsStream
<1>1. IInv => RingHoldsStream
  BY DEF IInv
<1> QED BY Inductive, <1>1, PTL

\* GetQSize from the lock-free index is the reader's lag, for every reader that has
\* not been lapped.
THEOREM SizeCorrect == Spec => []SizeIsLag
<1>1. IInv => SizeIsLag
  BY PlacedSize DEF IInv
<1> QED BY Inductive, <1>1, PTL

\* The samples a reader saw queued are still there when it removes them.
THEOREM CheckStays == Spec => []CheckedChunkSurvives
<1>1. IInv => CheckedChunkSurvives
  BY DEF IInv
<1> QED BY Inductive, <1>1, PTL

\* Every chunk an unlapped reader removes is the next C samples of the stream.
THEOREM ChunksContiguous == Spec => []ChunkContiguous
<1>1. IInv => ChunkContiguous
  BY DEF IInv
<1> QED BY Inductive, <1>1, PTL

-----------------------------------------------------------------------------
(* Refinement of AudioStream                                               *)

LEMMA InitRefines == Init => Stream!Init
BY DEF Init, Stream!Init, Playing

\* A Remove is a Take of the next samples, or a TakeLost when the reader was lapped.
LEMMA RemoveRefines ==
  ASSUME IInv, NEW r \in Readers, Remove(r)
  PROVE  Stream!Take(r) \/ Stream!TakeLost(r)
<1> USE SizeAssumption
<1>1. /\ Playing(r) /\ ~inserting /\ pc[r] = "ready" /\ pc \in [Readers -> {"stopped", "playing", "ready"}]
      /\ pc' = [pc EXCEPT ![r] = "playing"] /\ lapped' = lapped /\ total' = total
      /\ pos' = [pos EXCEPT ![r] = @ + C] /\ chunk' = [chunk EXCEPT ![r] = DataAt(r)]
  BY DEF IInv, TypeOK, Remove, RingFree, wvars, Playing
<1>2. {q \in Readers : Playing(q)}' = {q \in Readers : Playing(q)}
  BY <1>1 DEF Playing
<1>3. CASE r \notin lapped
  <2>1. DataAt(r) = Stream!Following(pos[r])
    BY <1>1, <1>3, DataIsStream DEF Stream!Following
  <2>2. pos[r] + C <= total
    BY <1>1, <1>3 DEF IInv, TypeOK, CheckedChunkSurvives, Lag
  <2> QED BY <1>1, <1>2, <1>3, <2>1, <2>2 DEF Stream!Take
<1>4. CASE r \in lapped
  <2>1. chunk'[r] = DataAt(r)
    BY <1>1 DEF IInv, TypeOK
  <2>2. \A k \in 1 .. C : DataAt(r)[k] \in Int /\ DataAt(r)[k] <= total
    <3> SUFFICES ASSUME NEW k \in 1 .. C
                 PROVE  DataAt(r)[k] \in Int /\ DataAt(r)[k] <= total
      OBVIOUS
    <3> DEFINE i == Wrap(read_index[r] + k - 1)
    <3>1. i \in Cells /\ index \in Cells /\ total \in Nat
      BY DEF IInv, TypeOK, Wrap, Cells
    <3>2. Q[i] = IF i < index THEN total - index + i + 1 ELSE total - index + i + 1 - L
      BY <1>1, <3>1 DEF IInv, RingHoldsStream
    <3>3. DataAt(r)[k] = Q[i]
      BY DEF DataAt
    <3> QED BY <3>1, <3>2, <3>3 DEF Cells
  <2>3. DataAt(r) \in [1 .. C -> Int]
    BY <2>2 DEF DataAt
  <2> QED BY <1>1, <1>2, <1>4, <2>1, <2>2, <2>3 DEF Stream!TakeLost
<1> QED BY <1>3, <1>4

LEMMA NextRefines == IInv /\ [Next]_vars => [Stream!Next]_(Stream!svars)
<1> SUFFICES ASSUME IInv, [Next]_vars PROVE [Stream!Next]_(Stream!svars)
  OBVIOUS
<1>1. CASE InsertCopy
  BY <1>1 DEF InsertCopy, rvars, Stream!svars, Playing
<1>2. CASE InsertPublish
  <2>1. Stream!Publish
    BY <1>2 DEF InsertPublish, Stream!Publish, Playing
  <2> QED BY <2>1 DEF Stream!Next
<1>3. ASSUME NEW r \in Readers, Play(r) PROVE Stream!Next
  <2>1. {q \in Readers : Playing(q)}' = {q \in Readers : Playing(q)} \cup {r}
    BY <1>3 DEF Play, Playing, IInv, TypeOK
  <2>2. Stream!TuneIn(r)
    BY <1>3, <2>1 DEF Play, wvars, Stream!TuneIn
  <2> QED BY <2>2 DEF Stream!Next
<1>4. ASSUME NEW r \in Readers, Stop(r) PROVE Stream!Next
  <2>1. {q \in Readers : Playing(q)}' = {q \in Readers : Playing(q)} \ {r} /\ Playing(r)
    BY <1>4 DEF Stop, Playing, IInv, TypeOK
  <2>2. Stream!TuneOut(r)
    BY <1>4, <2>1 DEF Stop, wvars, Stream!TuneOut
  <2> QED BY <2>2 DEF Stream!Next
<1>5. ASSUME NEW r \in Readers, Check(r) PROVE UNCHANGED Stream!svars
  <2>1. {q \in Readers : Playing(q)}' = {q \in Readers : Playing(q)}
    BY <1>5 DEF Check, Playing, IInv, TypeOK
  <2> QED BY <1>5, <2>1 DEF Check, wvars, Stream!svars
<1>6. ASSUME NEW r \in Readers, Remove(r) PROVE Stream!Next
  BY <1>6, RemoveRefines DEF Stream!Next
<1>7. CASE UNCHANGED vars
  BY <1>7 DEF vars, Stream!svars, Playing
<1> QED BY <1>1, <1>2, <1>3, <1>4, <1>5, <1>6, <1>7 DEF Next, Insert, Reader

\* The ring, read through its lock-free index, implements the abstract audio stream.
THEOREM RingImplementsStream == Spec => StreamPromise
<1>1. Spec => Stream!Init /\ [][Stream!Next]_(Stream!svars)
  BY Inductive, InitRefines, NextRefines, PTL DEF Spec
<1> QED BY <1>1 DEF StreamPromise, Stream!Spec

-----------------------------------------------------------------------------
(* ShortQTimely: a playing reader's lag is at most C - 1 + behind[r]; a    *)
(* Remove at lag C or more leaves at most C - 1, because one turn          *)
(* publishes at most a chunk.                                              *)

\* An insert that has started still fits in the turn of every playing reader.
RoomInTurn == inserting => \A r \in Readers : Playing(r) => behind[r] + W <= B

TInv == IInv /\ behind \in [Readers -> 0 .. B] /\ RoomInTurn /\ KeepsUp

LEMMA TimelyInitTInv == TimelyInit => TInv
<1> SUFFICES ASSUME TimelyInit PROVE TInv
  OBVIOUS
<1> USE SizeAssumption, PaceAssumption
<1>1. IInv
  BY InitIInv DEF TimelyInit
<1>2. behind \in [Readers -> 0 .. B]
  BY DEF TimelyInit
<1>3. RoomInTurn /\ KeepsUp
  BY DEF TimelyInit, Init, RoomInTurn, KeepsUp, Playing
<1> QED BY <1>1, <1>2, <1>3 DEF TInv

\* Every timely step is a step of ShortQ, or leaves its variables alone.
LEMMA TimelyIsShortQ == [TimelyNext]_tvars => [Next]_vars
BY DEF TimelyNext, TimelyInsert, TimelyReader, Poll, Next, Insert, Reader, tvars

LEMMA TimelyNextTInv == TInv /\ [TimelyNext]_tvars => TInv'
<1> SUFFICES ASSUME TInv, [TimelyNext]_tvars PROVE TInv'
  OBVIOUS
<1> USE SizeAssumption, PaceAssumption
<1>1. IInv'
  BY TimelyIsShortQ, NextIInv DEF TInv
<1>2. /\ total \in Nat /\ pos \in [Readers -> Int] /\ behind \in [Readers -> 0 .. B]
      /\ pc \in [Readers -> {"stopped", "playing", "ready"}]
      /\ lapped = {} /\ inserting \in BOOLEAN
      /\ \A r \in Readers : Playing(r) => Lag(r) < L /\ Lag(r) < C + behind[r]
  BY DEF TInv, IInv, TypeOK, KeepsUp
<1>3. CASE InsertCopy /\ (\A r \in Readers : Playing(r) => behind[r] + W <= B) /\ UNCHANGED behind
  BY <1>1, <1>2, <1>3 DEF TInv, RoomInTurn, KeepsUp, InsertCopy, rvars, Playing, Lag
<1>4. CASE /\ InsertPublish
           /\ behind' = [r \in Readers |-> IF Playing(r) THEN behind[r] + W ELSE 0]
  <2>1. \A r \in Readers : Playing(r) => behind[r] + W <= B
    BY <1>4 DEF TInv, RoomInTurn, InsertPublish
  <2>2. behind' \in [Readers -> 0 .. B]
    BY <1>2, <1>4, <2>1
  <2>3. \A r \in Readers : Playing(r) =>
          /\ total' - pos[r] = Lag(r) + W /\ behind'[r] = behind[r] + W
          /\ Lag(r) \in Int /\ Lag(r) + W < C + behind[r] + W /\ Lag(r) + W < L
    BY <1>2, <1>4, <2>1 DEF InsertPublish, Lag
  <2>4. lapped' = {}
    <3>1. {r \in Readers : Playing(r) /\ total' - pos[r] > L} = {}
      BY <2>3
    <3> QED BY <1>2, <1>4, <3>1 DEF InsertPublish
  <2>5. \A r \in Readers : Playing(r)' => Lag(r)' < L /\ Lag(r)' < C + behind'[r]
    <3> SUFFICES ASSUME NEW r \in Readers, Playing(r)'
                 PROVE  Lag(r)' < L /\ Lag(r)' < C + behind'[r]
      OBVIOUS
    <3>1. Playing(r) /\ Lag(r)' = total' - pos[r]
      BY <1>4 DEF InsertPublish, Playing, Lag
    <3>2. behind[r] \in Int /\ B \in Int
      BY <1>2
    <3> QED BY <2>3, <3>1, <3>2
  <2>6. RoomInTurn'
    BY <1>4 DEF InsertPublish, RoomInTurn
  <2> QED BY <1>1, <2>2, <2>4, <2>5, <2>6 DEF TInv, KeepsUp
<1>5. ASSUME NEW p \in Readers, Play(p), ComeRound(p) PROVE TInv'
  BY <1>1, <1>2, <1>5 DEF TInv, RoomInTurn, KeepsUp, Play, ComeRound, wvars, Playing, Lag
<1>6. ASSUME NEW p \in Readers, Remove(p), ComeRound(p) PROVE TInv'
  BY <1>1, <1>2, <1>6 DEF TInv, RoomInTurn, KeepsUp, Remove, ComeRound, RingFree, wvars, Playing, Lag
<1>7. ASSUME NEW p \in Readers, Stop(p) \/ Check(p), UNCHANGED behind PROVE TInv'
  BY <1>1, <1>2, <1>7 DEF TInv, RoomInTurn, KeepsUp, Stop, Check, wvars, Playing, Lag
<1>8. ASSUME NEW p \in Readers, Poll(p) PROVE TInv'
  <2>1. Lag(p) < C
    <3>1. Playing(p) /\ p \notin lapped /\ QSize(read_index[p], index) < C
      BY <1>2, <1>8 DEF Poll, Playing
    <3>2. QSize(read_index[p], index) = Lag(p)
      BY <1>2, <3>1, PlacedSize DEF TInv, IInv, SizeIsLag
    <3> QED BY <3>1, <3>2
  <2> QED BY <1>1, <1>2, <1>8, <2>1 DEF TInv, RoomInTurn, KeepsUp, Poll, ComeRound, vars, Playing, Lag
<1>9. CASE UNCHANGED tvars
  BY <1>1, <1>9 DEF TInv, RoomInTurn, KeepsUp, tvars, vars, Playing, Lag
<1> QED BY <1>3, <1>4, <1>5, <1>6, <1>7, <1>8, <1>9 DEF TimelyNext, TimelyInsert, TimelyReader

\* A handler that comes round at least once a chunk is never lapped, however inserts,
\* checks and removes interleave.
THEOREM TimelyKeepsUp == TimelySpec => []KeepsUp
<1>1. TInv => KeepsUp
  BY DEF TInv
<1> QED BY TimelyInitTInv, TimelyNextTInv, <1>1, PTL DEF TimelySpec

\* A turn of a playing handler leaves less than a chunk in its queue, whether it polled
\* and had nothing to send or sent a chunk: what a browser hears is never later than that
\* and one turn.
TurnDrains == [][ \A r \in Readers : Poll(r) \/ Remove(r) => Lag(r)' < C ]_tvars

LEMMA TurnStep == TInv => \A r \in Readers : Poll(r) \/ Remove(r) => Lag(r)' < C
<1> SUFFICES ASSUME TInv, NEW r \in Readers, Poll(r) \/ Remove(r) PROVE Lag(r)' < C
  OBVIOUS
<1> USE SizeAssumption, PaceAssumption
<1>1. /\ total \in Nat /\ pos \in [Readers -> Int] /\ behind[r] \in 0 .. B /\ lapped = {}
      /\ Playing(r) => Lag(r) < C + behind[r]
  BY DEF TInv, IInv, TypeOK, KeepsUp
<1>2. Playing(r)
  BY DEF Poll, Remove, Playing
<1>3. CASE Poll(r)
  <2>1. QSize(read_index[r], index) = Lag(r)
    BY <1>1, <1>2, PlacedSize DEF TInv, IInv, SizeIsLag
  <2> QED BY <1>3, <2>1 DEF Poll, vars, Lag
<1>4. CASE Remove(r)
  BY <1>1, <1>2, <1>4 DEF Remove, wvars, Lag
<1> QED BY <1>3, <1>4

\* With the pace assumed, no turn of a handler leaves a whole chunk behind.
THEOREM EachTurnDrains == TimelySpec => TurnDrains
<1>1. TimelySpec => []TInv
  BY TimelyInitTInv, TimelyNextTInv, PTL DEF TimelySpec
<1> QED BY <1>1, TurnStep, PTL DEF TimelySpec, TurnDrains
=============================================================================
