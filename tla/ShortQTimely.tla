---------------------------- MODULE ShortQTimely ----------------------------
(***************************************************************************)
(* ShortQ under a timing condition.  The code has no flow control between  *)
(* the TR4 thread and the handlers: a reader is lapped when its handler is *)
(* slow for long enough.  Here at most B samples are published during one  *)
(* turn of a playing handler's loop (Sleep(16) and its sends), B no larger *)
(* than a chunk; real audio is 128 samples per 16 ms, a chunk 2000.        *)
(***************************************************************************)
EXTENDS ShortQ

CONSTANT B  \* samples published during one turn of the loop, at most

ASSUME PaceAssumption == B \in W .. C /\ C + B <= L

VARIABLE behind  \* behind[r]: samples published since r's loop last came round

tvars == <<vars, behind>>

TimelyInit == Init /\ behind = [r \in Readers |-> 0]

TimelyInsert ==
  \/ /\ InsertCopy
     /\ \A r \in Readers : Playing(r) => behind[r] + W <= B
     /\ UNCHANGED behind
  \/ /\ InsertPublish
     /\ behind' = [r \in Readers |-> IF Playing(r) THEN behind[r] + W ELSE 0]

ComeRound(r) == behind' = [behind EXCEPT ![r] = 0]

\* The turn in which GetQSize() < 2000: nothing to send.
Poll(r) ==
  /\ pc[r] = "playing"
  /\ QSize(read_index[r], index) < C
  /\ UNCHANGED vars
  /\ ComeRound(r)

TimelyReader(r) ==
  \/ (Play(r) \/ Remove(r)) /\ ComeRound(r)
  \/ (Stop(r) \/ Check(r)) /\ UNCHANGED behind
  \/ Poll(r)

TimelyNext == TimelyInsert \/ \E r \in Readers : TimelyReader(r)

TimelySpec == TimelyInit /\ [][TimelyNext]_tvars /\ Fairness

-----------------------------------------------------------------------------
(* Properties                                                              *)

TimelyTypeOK == TypeOK /\ behind \in [Readers -> 0 .. B]

\* A handler that comes round in time drains its queue faster than the TR4 thread
\* fills it: it is never a whole ring behind, where GetQSize would read 0, let alone
\* lapped, whatever the order of inserts, checks and removes.
KeepsUp ==
  /\ lapped = {}
  /\ \A r \in Readers : Playing(r) => Lag(r) < L /\ Lag(r) < C + behind[r]

\* Such a handler sends every chunk that is queued while it plays.
EveryChunkDelivered ==
  \A r \in Readers : \A p \in 0 .. MaxTotal :
    (Playing(r) /\ pos[r] = p /\ C <= Lag(r)) ~> (~Playing(r) \/ pos[r] # p)
=============================================================================
