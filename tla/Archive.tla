------------------------------- MODULE Archive -------------------------------
(***************************************************************************)
(* What CDb promises of the recordings, with no processes, connections or  *)
(* statements that fail: a recording is a file, then a file with a row;    *)
(* only one that is out of date loses its file, only one that has a row    *)
(* does, and only one that has lost its file loses its row.                *)
(***************************************************************************)
EXTENDS Naturals

VARIABLES
  rows,      \* the recordings that a search can find
  files,     \* the recordings that can be played
  recorded,  \* the recordings made so far
  outdated,  \* recordings 1 .. outdated are not to be kept
  removed    \* the recordings whose rows were removed

avars == <<rows, files, recorded, outdated, removed>>

Init == rows = {} /\ files = {} /\ recorded = 0 /\ outdated = 0 /\ removed = {}

Record ==
  /\ recorded' = recorded + 1 /\ files' = files \cup {recorded'}
  /\ UNCHANGED <<rows, outdated, removed>>

Age ==
  /\ outdated < recorded /\ outdated' = outdated + 1
  /\ UNCHANGED <<rows, files, recorded, removed>>

Enter(r) ==
  /\ r \in 1 .. recorded /\ r \notin rows \cup removed
  /\ rows' = rows \cup {r}
  /\ UNCHANGED <<files, recorded, outdated, removed>>

LoseFile(r) ==
  /\ r \in rows \cap files /\ r <= outdated
  /\ files' = files \ {r}
  /\ UNCHANGED <<rows, recorded, outdated, removed>>

LoseRow(r) ==
  /\ r \in rows \ files
  /\ rows' = rows \ {r} /\ removed' = removed \cup {r}
  /\ UNCHANGED <<files, recorded, outdated>>

Next == Record \/ Age \/ \E r \in 1 .. recorded : Enter(r) \/ LoseFile(r) \/ LoseRow(r)

Spec == Init /\ [][Next]_avars
=============================================================================
