------------------------------- MODULE Mirror -------------------------------
(***************************************************************************)
(* What the server promises a browser, with no threads, locks or turns:    *)
(* viewers look at one item of a source at a time, each look happens at    *)
(* one moment, and what was seen is shown before the next look, unless it  *)
(* is shown already or its message is lost.  There are values that cannot  *)
(* be shown: a message about them is always lost.  The source is reset now *)
(* and then; a look at a fragile item during a reset may see anything.  A  *)
(* reset is over when every item is blank.                                 *)
(***************************************************************************)
CONSTANTS
  Viewers,   \* the viewers of the source
  Things,    \* the items of the source
  Fragile,   \* those that cannot be looked at during a reset
  Values,    \* what an item may be
  Anything,  \* what a look at a fragile item may see, besides
  Mute,      \* the pairs of an item and a value that cannot be shown
  Blank,     \* the value of every item at first, and after a reset
  Nothing    \* what is shown of an item before anything was

VARIABLES
  source,     \* the value of each item
  resetting,  \* the source is being reset
  seen,       \* seen[v]: the item and the value v has seen and not shown yet, if any
  shown,      \* shown[v]: what v shows of each item
  lost        \* lost[v]: the items whose last message was lost

mvars == <<source, resetting, seen, shown, lost>>

Init ==
  /\ source = [i \in Things |-> Blank]
  /\ resetting = FALSE
  /\ seen = [v \in Viewers |-> <<>>]
  /\ shown \in [Viewers -> [Things -> {Nothing, Blank}]]
  /\ lost = [v \in Viewers |-> {}]

Reset ==
  /\ ~resetting /\ resetting' = TRUE
  /\ UNCHANGED <<source, seen, shown, lost>>

Set(i, x) ==
  /\ resetting => x = Blank
  /\ source' = [source EXCEPT ![i] = x]
  /\ \/ UNCHANGED resetting
     \/ resetting' = FALSE /\ \A j \in Things : source'[j] = Blank
  /\ UNCHANGED <<seen, shown, lost>>

Sees(i) == {source[i]} \cup (IF resetting /\ i \in Fragile THEN Anything ELSE {})

Look(v, i) ==
  /\ seen[v] = <<>>
  /\ \E x \in Sees(i) : seen' = [seen EXCEPT ![v] = <<i, x>>]
  /\ UNCHANGED <<source, resetting, shown, lost>>

\* What v has seen of item i is shown, or its message lost, or it is shown already as
\* far as v knows.
Show(v, i, x) ==
  /\ seen[v] = <<i, x>> /\ seen' = [seen EXCEPT ![v] = <<>>]
  /\ \/ /\ <<i, x>> \notin Mute
        /\ shown' = [shown EXCEPT ![v] = [@ EXCEPT ![i] = x]]
        /\ lost' = [lost EXCEPT ![v] = @ \ {i}]
     \/ /\ lost' = [lost EXCEPT ![v] = @ \cup {i}]
        /\ UNCHANGED shown
     \/ /\ shown[v][i] = x \/ i \in lost[v]
        /\ UNCHANGED <<shown, lost>>
  /\ UNCHANGED <<source, resetting>>

Next ==
  \/ Reset
  \/ \E i \in Things : \/ \E x \in Values : Set(i, x)
                       \/ \E v \in Viewers : Look(v, i)
                       \/ \E v \in Viewers, x \in Values \cup Anything : Show(v, i, x)

Spec == Init /\ [][Next]_mvars
=============================================================================
