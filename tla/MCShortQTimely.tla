--------------------------- MODULE MCShortQTimely ---------------------------
(* Small instances of ShortQTimely. *)
EXTENDS ShortQTimely

CONSTANTS r1, r2
=============================================================================
