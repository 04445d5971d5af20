----------------------------- MODULE FrameStream -----------------------------
(***************************************************************************)
(* What the byte queue of CTR4Connection promises, with no buffer, indices *)
(* or cuts by TCP: a stream of bytes, some of them in frames, is read from *)
(* its beginning; every frame that has arrived is handed on whole, in its  *)
(* turn, and what lies between frames is passed over.  A frame that is too *)
(* long takes all that has arrived with it.  A reader may lose the stream, *)
(* when bytes arrive or where a byte outside a frame misleads it: then     *)
(* nothing is promised until the next connection.                          *)
(***************************************************************************)
EXTENDS Naturals

CONSTANTS
  Starts,       \* where frames start
  FrameLen(_),  \* the length of the frame at a start
  Limit         \* frames shorter than this are handed on

VARIABLES
  sent,    \* the number of the next byte to arrive
  got,     \* the number of the next byte to look at
  handed,  \* the bytes of the frame handed on last
  sound    \* the stream has not been lost

fvars == <<sent, got, handed, sound>>

Init == sent \in Starts /\ got = sent /\ handed = <<>> /\ sound = TRUE

\* Bytes arrive, after which the stream may be lost.
Arrive ==
  /\ sent' \in Nat /\ sent < sent'
  /\ sound' => sound
  /\ UNCHANGED <<got, handed>>

Whole(s) == s \in Starts /\ s + FrameLen(s) <= sent

Hand ==
  /\ sound /\ Whole(got) /\ FrameLen(got) < Limit
  /\ handed' = [k \in 1 .. FrameLen(got) |-> got + k - 1]
  /\ got' = got + FrameLen(got)
  /\ UNCHANGED <<sent, sound>>

Drop ==
  /\ sound /\ Whole(got) /\ Limit <= FrameLen(got)
  /\ got' = sent
  /\ UNCHANGED <<sent, handed, sound>>

Pass ==
  /\ sound /\ got \notin Starts /\ got < sent
  /\ got' = got + 1
  /\ UNCHANGED <<sent, handed, sound>>

\* The byte looks like the start of a frame.
Mislead ==
  /\ sound /\ got \notin Starts /\ got < sent
  /\ sound' = FALSE
  /\ UNCHANGED <<sent, got>>

\* Anything may be handed on.
Wander == ~sound /\ UNCHANGED <<sent, got, sound>>

Connect ==
  /\ sent' \in Starts /\ sent <= sent'
  /\ got' = sent' /\ handed' = <<>> /\ sound' = TRUE

Next == Arrive \/ Hand \/ Drop \/ Pass \/ Mislead \/ Wander \/ Connect

Spec == Init /\ [][Next]_fvars
=============================================================================
