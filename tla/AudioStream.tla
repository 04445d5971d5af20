----------------------------- MODULE AudioStream -----------------------------
(***************************************************************************)
(* What a channel's audio queue promises, with no ring and no lock: one    *)
(* producer extends a stream of samples, identified by their positions     *)
(* 1, 2, 3, ...; any number of listeners tune in at the live end and then  *)
(* take consecutive chunks.  The producer never waits: a listener that     *)
(* falls more than Window samples behind is lost, and nothing is promised  *)
(* about what it hears until it tunes in again.                            *)
(***************************************************************************)
EXTENDS Integers, Sequences

CONSTANTS
  Listeners,  \* the listeners of the stream
  Burst,      \* samples published at a time
  Chunk,      \* samples a listener takes at a time
  Window      \* how far behind a listener may fall

VARIABLES
  published,  \* number of samples in the stream
  tuned,      \* the listeners that are tuned in
  at,         \* at[l]: position of the last sample l has taken
  lost,       \* the listeners that fell behind since they tuned in
  heard       \* heard[l]: the chunk l took last

svars == <<published, tuned, at, lost, heard>>

\* The chunk that follows position p.
Following(p) == [k \in 1 .. Chunk |-> p + k]

Init ==
  /\ published = 0
  /\ tuned = {}
  /\ at = [l \in Listeners |-> 0]
  /\ lost = {}
  /\ heard = [l \in Listeners |-> <<>>]

Publish ==
  /\ published' = published + Burst
  /\ lost' = lost \cup {l \in tuned : published' - at[l] > Window}
  /\ UNCHANGED <<tuned, at, heard>>

TuneIn(l) ==
  /\ tuned' = tuned \cup {l}
  /\ at' = [at EXCEPT ![l] = published]
  /\ lost' = lost \ {l}
  /\ heard' = [heard EXCEPT ![l] = <<>>]
  /\ UNCHANGED published

TuneOut(l) ==
  /\ l \in tuned
  /\ tuned' = tuned \ {l}
  /\ UNCHANGED <<published, at, lost, heard>>

Take(l) ==
  /\ l \in tuned \ lost
  /\ at[l] + Chunk <= published
  /\ at' = [at EXCEPT ![l] = @ + Chunk]
  /\ heard' = [heard EXCEPT ![l] = Following(at[l])]
  /\ UNCHANGED <<published, tuned, lost>>

\* A lost listener still takes chunks, of whatever samples there are.
TakeLost(l) ==
  /\ l \in tuned \cap lost
  /\ at' = [at EXCEPT ![l] = @ + Chunk]
  /\ heard'[l] \in [1 .. Chunk -> Int]
  /\ \A k \in 1 .. Chunk : heard'[l][k] <= published
  /\ heard' = [heard EXCEPT ![l] = heard'[l]]
  /\ UNCHANGED <<published, tuned, lost>>

Next ==
  \/ Publish
  \/ \E l \in Listeners : TuneIn(l) \/ TuneOut(l) \/ Take(l) \/ TakeLost(l)

Spec == Init /\ [][Next]_svars
=============================================================================
