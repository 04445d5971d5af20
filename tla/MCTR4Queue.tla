----------------------------- MODULE MCTR4Queue -----------------------------
(***************************************************************************)
(* Small instance of TR4Queue: a header is 2 cells, a receive 6 bytes.  A  *)
(* stream is given by where its frames start and their parameter lengths,  *)
(* some of them longer than a header, as those of strings and voice are.   *)
(* A connection starts at any frame of it.                                 *)
(***************************************************************************)
EXTENDS TR4Queue, TLC

\* Frames back to back that fit; then junk at 13 and 22, and a frame that does not fit.
MixedPLen == (0 :> 0) @@ (2 :> 3) @@ (7 :> 1) @@ (10 :> 1) @@ (14 :> 0) @@ (16 :> 4)
             @@ (23 :> 2)
MixedStarts == DOMAIN MixedPLen

\* Junk, and a parameter byte that is looked at after a ResetQ has cut its frame.
SomeLookalikes == {13, 25}

\* A length read from bytes that are no length: too small to make sense, short, long.
SomeLens == {-4, 0, 2, 40}
=============================================================================
