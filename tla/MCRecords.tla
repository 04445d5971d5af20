------------------------------ MODULE MCRecords ------------------------------
(* Small instance of Records: two objects. *)
EXTENDS Records

CONSTANTS d1, d2
=============================================================================
