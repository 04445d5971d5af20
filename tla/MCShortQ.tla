------------------------------ MODULE MCShortQ ------------------------------
(***************************************************************************)
(* A small instance of ShortQ: inserts and chunks end before, at and       *)
(* behind the end of the ring.                                             *)
(***************************************************************************)
EXTENDS ShortQ

CONSTANTS r1, r2
=============================================================================
