------------------------------- MODULE ShortQ -------------------------------
(***************************************************************************)
(* The audio queue of one channel: CShortQWriter (ShortQWriter.cpp), one   *)
(* ring of samples filled by the TR4 thread, and the CShortQReaders        *)
(* (ShortQReader.cpp) that WebSocket handler threads keep on it.           *)
(*                                                                         *)
(* The ring's mutex covers Insert and GetData, but GetIndex is an atomic   *)
(* load without the lock, so a reader sees the index before or after an    *)
(* insert that is under way: Insert is two steps.  GetQSize and Remove are *)
(* separate calls, so they are separate steps of a reader.                 *)
(*                                                                         *)
(* A cell holds the stream position of its sample: 1 is the first sample   *)
(* ever inserted, positions <= 0 are the silence of the constructor.       *)
(***************************************************************************)
EXTENDS Integers, Sequences

CONSTANTS
  L,        \* FLOAT_Q_LENGTH: cells of the ring
  W,        \* MAX_VOICE/2: samples per Insert
  C,        \* samples per Remove (2000 in ProcessSendLiveVoice)
  Readers,  \* the CShortQReaders on this ring
  MaxTotal  \* bound: samples inserted in a behaviour

ASSUME SizeAssumption == /\ L \in Nat \ {0} /\ W \in 1 .. L - 1 /\ C \in 1 .. L - 1
                         /\ MaxTotal \in Nat

VARIABLES
  Q,          \* the cells
  index,      \* m: where the next sample goes
  inserting,  \* the writer is inside Insert and holds m_mutex
  total,      \* history: samples inserted and published
  pc,         \* pc[r]: what the handler does with reader r
  read_index, \* read_index[r]
  pos,        \* history: stream position of the last sample r has removed
  lapped,     \* history: the readers that fell more than L samples behind
  chunk       \* what r's last Remove copied out

wvars == <<Q, index, inserting, total>>
rvars == <<pc, read_index, pos, lapped, chunk>>
vars == <<Q, index, inserting, total, pc, read_index, pos, lapped, chunk>>

Cells == 0 .. L - 1

\* The second memcpy of GetData: a copy that passes the end goes on at cell 0.
Wrap(i) == IF i < L THEN i ELSE i - L

\* Cells from one index forward to another.
QSize(from, to) == IF from <= to THEN to - from ELSE L - from + to

\* The index after an insert: it never rests on L.
DroppedTail == IF index + W < L THEN index + W ELSE 0
NextIndex == IF index + W < L THEN index + W ELSE W - (L - index)

\* A reader's index after a Remove.
NoModulo(i) == i + C
Advance(i) == (i + C) % L

\* GetData takes m_mutex, which an insert holds until it has published.
RingUnguarded == TRUE
RingFree == ~inserting

\* EmptyQueue's new read_index.
KeepIndex(r) == read_index[r]
EmptyQueue(r) == index

\* What GetData copies for reader r.
DataAt(r) == [k \in 1 .. C |-> Q[Wrap(read_index[r] + k - 1)]]

Playing(r) == pc[r] # "stopped"
Lag(r) == total - pos[r]

Init ==
  /\ Q = [i \in Cells |-> i + 1 - L]
  /\ index = 0
  /\ inserting = FALSE
  /\ total = 0
  /\ pc = [r \in Readers |-> "stopped"]
  /\ read_index = [r \in Readers |-> 0]
  /\ pos = [r \in Readers |-> 0]
  /\ lapped = {}
  /\ chunk = [r \in Readers |-> <<>>]

-----------------------------------------------------------------------------
(* The writer: CShortQWriter::Insert                                       *)

\* lock, and the one or two copies.
InsertCopy ==
  /\ ~inserting
  /\ total + W <= MaxTotal
  /\ Q' = [i \in Cells |-> IF QSize(index, i) < W THEN total + 1 + QSize(index, i) ELSE Q[i]]
  /\ inserting' = TRUE
  /\ UNCHANGED <<index, total>>
  /\ UNCHANGED rvars

\* The store to index, and unlock.
InsertPublish ==
  /\ inserting
  /\ index' = NextIndex
  /\ inserting' = FALSE
  /\ total' = total + W
  /\ lapped' = lapped \cup {r \in Readers : Playing(r) /\ total' - pos[r] > L}
  /\ UNCHANGED <<Q, pc, read_index, pos, chunk>>

-----------------------------------------------------------------------------
(* A reader, driven by its handler                                         *)

\* LivePlay: EmptyQueue takes the index as it is, without the lock.
Play(r) ==
  /\ pc[r] \in {"stopped", "playing"}
  /\ pc' = [pc EXCEPT ![r] = "playing"]
  /\ read_index' = [read_index EXCEPT ![r] = EmptyQueue(r)]
  /\ pos' = [pos EXCEPT ![r] = total]
  /\ lapped' = lapped \ {r}
  /\ chunk' = [chunk EXCEPT ![r] = <<>>]
  /\ UNCHANGED wvars

\* LiveStop, a LivePlay of another channel, or the end of the handler.
Stop(r) ==
  /\ pc[r] = "playing"
  /\ pc' = [pc EXCEPT ![r] = "stopped"]
  /\ UNCHANGED <<read_index, pos, lapped, chunk>>
  /\ UNCHANGED wvars

\* GetQSize() >= 2000, from one load of the index.
Check(r) ==
  /\ pc[r] = "playing"
  /\ QSize(read_index[r], index) >= C
  /\ pc' = [pc EXCEPT ![r] = "ready"]
  /\ UNCHANGED <<read_index, pos, lapped, chunk>>
  /\ UNCHANGED wvars

\* Remove: GetData under the lock, then the reader's own index.
Remove(r) ==
  /\ pc[r] = "ready"
  /\ RingFree
  /\ chunk' = [chunk EXCEPT ![r] = DataAt(r)]
  /\ read_index' = [read_index EXCEPT ![r] = Advance(@)]
  /\ pos' = [pos EXCEPT ![r] = @ + C]
  /\ pc' = [pc EXCEPT ![r] = "playing"]
  /\ UNCHANGED lapped
  /\ UNCHANGED wvars

Insert == InsertCopy \/ InsertPublish
Reader(r) == Play(r) \/ Stop(r) \/ Check(r) \/ Remove(r)

Next == Insert \/ \E r \in Readers : Reader(r)

Spec == Init /\ [][Next]_vars

(* The TR4 thread finishes the insert it is in.  A handler's loop comes    *)
(* round again after each Sleep(16); m_mutex is held for one copy at a     *)
(* time, so a handler that keeps asking for it gets it.                    *)
Fairness == /\ WF_vars(InsertPublish)
            /\ \A r \in Readers : WF_vars(Check(r)) /\ SF_vars(Remove(r))

-----------------------------------------------------------------------------
(* Properties                                                              *)

TypeOK ==
  /\ Q \in [Cells -> Int]
  /\ index \in Cells
  /\ inserting \in BOOLEAN
  /\ total \in Nat
  /\ pc \in [Readers -> {"stopped", "playing", "ready"}]
  /\ read_index \in [Readers -> Cells]
  /\ pos \in [Readers -> Int]
  /\ lapped \subseteq Readers
  /\ chunk \in [Readers -> {<<>>} \cup [1 .. C -> Int]]

\* The ring is a sliding window of the stream: the cell at distance d behind the
\* writer's index holds the d-th last sample, and only an insert that is under way
\* disturbs that, in the W cells ahead of the index (Insert's two memcpy branches).
RingHoldsStream ==
  \A i \in Cells :
    Q[i] = IF inserting /\ QSize(index, i) < W
             THEN total + 1 + QSize(index, i)
             ELSE IF i < index THEN total - index + i + 1 ELSE total - index + i + 1 - L

\* What GetQSize tells a reader that has not been lapped is exactly how far it is
\* behind the stream, although the index is loaded without the lock; a full ring
\* reads as an empty one.
SizeIsLag ==
  \A r \in Readers :
    Playing(r) /\ r \notin lapped =>
      /\ Lag(r) \in 0 .. L
      /\ QSize(read_index[r], index) = IF Lag(r) < L THEN Lag(r) ELSE 0

\* A reader that saw 2000 samples queued and has not been lapped since still has
\* them, whatever the writer inserted between its GetQSize and its Remove.
CheckedChunkSurvives ==
  \A r \in Readers :
    pc[r] = "ready" /\ r \notin lapped => C <= Lag(r) /\ Lag(r) <= L

\* What a handler sends to its browser is the stream: the chunk a reader removed last
\* is the C samples that end at its position, with no gap, repeat or torn copy, unless
\* it was lapped.
ChunkContiguous ==
  \A r \in Readers :
    r \notin lapped /\ chunk[r] # <<>> => chunk[r] = [k \in 1 .. C |-> pos[r] - C + k]

Stream == INSTANCE AudioStream WITH
  Listeners <- Readers, Burst <- W, Chunk <- C, Window <- L,
  published <- total, tuned <- {r \in Readers : Playing(r)}, at <- pos,
  lost <- lapped, heard <- chunk

\* The ring, its lock-free index and the readers implement the audio stream of
\* AudioStream: consecutive chunks from the moment of LivePlay on.
StreamPromise == Stream!Spec
=============================================================================
