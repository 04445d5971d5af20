--------------------------- MODULE WsHandlerProofs ---------------------------
(***************************************************************************)
(* Proofs about WsHandler, for any number of channels, any states, numbers *)
(* and ping time.                                                          *)
(*                                                                         *)
(* What the client is told and how chunks are numbered are invariants as   *)
(* they stand.  The other two need a measure: of the ping, that nothing is *)
(* longer ago than PingTimer says, and that a turn that reaches the voice  *)
(* has a PingTimer below PING_TIME; of the round, how many turns are left  *)
(* until an entry is visited.                                              *)
(***************************************************************************)
EXTENDS WsHandler, TLAPS

\* PingTimer counts at least the turns since the last try to send.
Pace ==
  /\ quiet <= PingTimer
  /\ pc = "voice" => PingTimer < PingTurns

\* A CLOSE ends the loop at once.
Closing == flags = "close" => pc = "ended"

\* The turns left before the one that visits entry e.
Place(k, c) == k * ChannelCount + c
Left(e) == IF Place(e[1], e[2]) > Place(state, ChNumber)
             THEN Place(e[1], e[2]) - Place(state, ChNumber) - 1
             ELSE Place(e[1], e[2]) - Place(state, ChNumber) - 1 + 3 * ChannelCount

Waits == age + Left(watched) < 3 * ChannelCount

HandlerInv == TypeOK /\ ViewFollowsLast /\ OnlineNumbering /\ Pace /\ Closing /\ Waits

-----------------------------------------------------------------------------
(* The round                                                               *)

LEMMA Sizes == /\ ChannelCount \in Nat \ {0} /\ PingTurns \in Nat \ {0}
               /\ MaxChanges \in Nat /\ MaxTime \in Nat \ {0}
BY HandlerAssumption

LEMMA EntryParts ==
  ASSUME NEW e \in Entries
  PROVE  e[1] \in {0, 1, 2} /\ e[2] \in Channels /\ e = <<e[1], e[2]>>
BY DEF Entries, Kinds

LEMMA VisitedFacts ==
  ASSUME ChNumber \in Channels, state \in Kinds
  PROVE  /\ NextChannel \in Channels /\ NextKind \in Kinds /\ Visited \in Entries
         /\ NextChannel = IF ChNumber + 1 = ChannelCount THEN 0 ELSE ChNumber + 1
         /\ NextKind = IF NextChannel # 0 THEN state ELSE IF state = 2 THEN 0 ELSE state + 1
<1> USE Sizes
<1>1. NextChannel = IF ChNumber + 1 = ChannelCount THEN 0 ELSE ChNumber + 1
  BY DEF NextChannel, Channels
<1>2. NextChannel \in Channels
  BY <1>1 DEF Channels
<1>3. NextKind = IF NextChannel # 0 THEN state ELSE IF state = 2 THEN 0 ELSE state + 1
  BY DEF NextKind, Kinds
<1>4. NextKind \in Kinds
  BY <1>3 DEF Kinds
<1> QED BY <1>1, <1>2, <1>3, <1>4 DEF Visited, Entries

LEMMA PlaceFacts ==
  ASSUME NEW k \in {0, 1, 2}, NEW l \in {0, 1, 2}, NEW c \in Channels, NEW d \in Channels
  PROVE  /\ Place(k, c) \in 0 .. 3 * ChannelCount - 1
         /\ Place(k, c) = Place(l, d) <=> (k = l /\ c = d)
BY Sizes DEF Place, Channels

\* A turn brings every entry one turn nearer, but for the one it visits.
LEMMA LeftFacts ==
  ASSUME ChNumber \in Channels, state \in Kinds, NEW e \in Entries
  PROVE  /\ Left(e) \in 0 .. 3 * ChannelCount - 1
         /\ ChNumber' = NextChannel /\ state' = NextKind =>
              Left(e)' = IF e = Visited THEN 3 * ChannelCount - 1 ELSE Left(e) - 1
<1> USE Sizes
<1>1. PICK k \in {0, 1, 2}, c \in Channels : e = <<k, c>> /\ e[1] = k /\ e[2] = c
  BY EntryParts
<1>2. c \in Nat /\ c < ChannelCount /\ ChNumber \in Nat /\ ChNumber < ChannelCount
  BY DEF Channels
<1>3. state \in {0, 1, 2}
  BY DEF Kinds
<1>4. /\ Place(k, c) \in 0 .. 3 * ChannelCount - 1
      /\ Place(state, ChNumber) \in 0 .. 3 * ChannelCount - 1
      /\ Place(k, c) = Place(state, ChNumber) <=> (k = state /\ c = ChNumber)
  BY <1>1, <1>3, PlaceFacts
<1>5. Left(e) \in 0 .. 3 * ChannelCount - 1
  BY <1>1, <1>4 DEF Left
<1>6. ASSUME ChNumber' = NextChannel, state' = NextKind
      PROVE  Left(e)' = IF e = Visited THEN 3 * ChannelCount - 1 ELSE Left(e) - 1
  <2> DEFINE P == Place(state, ChNumber)
             Q == Place(state, ChNumber)'
  <2>1. Q = IF P = 3 * ChannelCount - 1 THEN 0 ELSE P + 1
    BY <1>2, <1>3, <1>6, VisitedFacts DEF Place
  <2>2. e = Visited <=> Place(k, c) = Q
    <3>1. e = Visited <=> (k = state' /\ c = ChNumber')
      BY <1>1, <1>6 DEF Visited
    <3>2. state' \in {0, 1, 2} /\ ChNumber' \in Channels
      BY <1>6, VisitedFacts DEF Kinds
    <3>3. Place(k, c) = Place(state', ChNumber') <=> (k = state' /\ c = ChNumber')
      BY <1>1, <3>2, PlaceFacts
    <3> QED BY <3>1, <3>3 DEF Place
  <2>3. Left(e)' = IF Place(k, c) > Q THEN Place(k, c) - Q - 1
                   ELSE Place(k, c) - Q - 1 + 3 * ChannelCount
    BY <1>1 DEF Left, Place
  <2> QED BY <1>1, <1>4, <2>1, <2>2, <2>3 DEF Left
<1> QED BY <1>5, <1>6

-----------------------------------------------------------------------------
(* Every step keeps the invariant                                          *)

LEMMA InitHandlerInv == Init => HandlerInv
<1> SUFFICES ASSUME Init PROVE HandlerInv
  OBVIOUS
<1> USE Sizes DEF Init
<1>1. ChNumber \in Channels /\ state \in Kinds
  BY DEF Channels, Kinds
<1>2. TypeOK
  <2>1. /\ table \in [Entries -> States \cup Numbers]
        /\ last \in [Entries -> States \cup Numbers \cup {"none"}]
        /\ view \in [Entries -> States \cup Numbers \cup {"none", "IN"}]
    BY HandlerAssumption
  <2>2. time \in 1 .. MaxTime /\ PingTimer \in 0 .. PingTurns
    OBVIOUS
  <2>3. /\ live \in Masks \cup {NoChannel} /\ missed \subseteq Entries
        /\ watched \in Entries /\ gone \in BOOLEAN
    OBVIOUS
  <2> QED BY <1>1, <2>1, <2>2, <2>3 DEF TypeOK
<1>3. ViewFollowsLast
  BY DEF ViewFollowsLast
<1>4. OnlineNumbering /\ Pace /\ Closing
  BY DEF OnlineNumbering, Pace, Closing
<1>5. Waits
  BY <1>1, LeftFacts DEF Waits
<1> QED BY <1>2, <1>3, <1>4, <1>5 DEF HandlerInv

\* What the steps outside ProcessSignaling leave alone suffices for two of the parts.
LEMMA SignalAlone ==
  ASSUME HandlerInv, UNCHANGED <<loop, signal, watched>>
  PROVE  /\ ViewFollowsLast' /\ Waits'
         /\ UNCHANGED <<ChNumber, state, last, view, missed, age, watched>>
<1>1. UNCHANGED <<ChNumber, state, last, view, missed, age, watched>>
  BY DEF loop, signal
<1>2. ViewFollowsLast'
  BY <1>1 DEF HandlerInv, ViewFollowsLast
<1>3. Waits'
  BY <1>1 DEF HandlerInv, Waits, Left, Place
<1> QED BY <1>1, <1>2, <1>3

LEMMA ReceiveKeeps ==
  ASSUME HandlerInv,
         \/ ReceiveNothing \/ ReceivePing \/ ReceiveClose
         \/ \E m \in Masks : ReceivePlay(m) \/ ReceiveStop(m)
  PROVE  HandlerInv'
<1> USE DEF Got, GotText, LoopEnd
<1>1. UNCHANGED <<loop, signal, timer, env>> /\ pc' # "voice"
  BY DEF ReceiveNothing, ReceivePing, ReceiveClose, ReceivePlay, ReceiveStop
<1>2. UNCHANGED <<table, gone, watched, changes, PingTimer, quiet>>
  BY <1>1 DEF env, timer
<1>3. /\ pc' \in {"receive", "signal", "ended", "crashed"}
      /\ n' \in {"zero", "some"} /\ flags' \in {"none", "text", "ping", "pong", "close"}
      /\ flags' = "close" => pc' = "ended"
  BY DEF ReceiveNothing, ReceivePing, ReceiveClose, ReceivePlay, ReceiveStop
<1>4. /\ live' \in Masks \cup {NoChannel}
      /\ \/ UNCHANGED <<time, heard, lostOnline>>
         \/ time' = 1 /\ heard' = 0 /\ lostOnline' = 0
  BY DEF ReceiveNothing, ReceivePing, ReceiveClose, ReceivePlay, ReceiveStop, online, HandlerInv, TypeOK
<1>5. ViewFollowsLast' /\ Waits' /\ UNCHANGED <<ChNumber, state, last, view, missed, age, watched>>
  BY <1>1, <1>2, SignalAlone
<1>6. TypeOK'
  <2>1. time' \in 1 .. MaxTime /\ heard' \in Nat /\ lostOnline' \in Nat
    BY <1>4, Sizes DEF HandlerInv, TypeOK
  <2> QED BY <1>2, <1>3, <1>4, <1>5, <2>1 DEF HandlerInv, TypeOK
<1>7. OnlineNumbering' /\ Pace' /\ Closing'
  BY <1>1, <1>2, <1>3, <1>4 DEF HandlerInv, OnlineNumbering, Pace, Closing
<1> QED BY <1>5, <1>6, <1>7 DEF HandlerInv

LEMMA SignalKeeps == HandlerInv /\ Signal => HandlerInv'
<1> SUFFICES ASSUME HandlerInv, Signal PROVE HandlerInv'
  OBVIOUS
<1> DEFINE e == Visited
           v == table[Visited]
<1>1. /\ e \in Entries /\ NextChannel \in Channels /\ NextKind \in Kinds
      /\ v \in States \cup Numbers
  BY VisitedFacts DEF HandlerInv, TypeOK
<1>2. /\ pc' = "ping" /\ ChNumber' = NextChannel /\ state' = NextKind
      /\ UNCHANGED <<live, time, heard, lostOnline, table, gone, watched, changes>>
  BY DEF Signal, online, env
<1>3. /\ flags' \in {flags, "text"} /\ n' \in {"zero", "some"}
      /\ quiet' \in {quiet, 0}
      /\ PingTimer' = PingTimer \/ (PingTimer' = 0 /\ quiet' = 0)
  BY DEF Signal, Got, HandlerInv, TypeOK, frame, timer
<1>4. /\ age' \in Nat
      /\ age' = 0 \/ (age' = age + 1 /\ watched # e)
  BY DEF Signal, HandlerInv, TypeOK
<1>5. \/ UNCHANGED <<last, view, missed>>
      \/ /\ last' = [last EXCEPT ![e] = v]
         /\ \/ view' = [view EXCEPT ![e] = Told(e, v)] /\ missed' = missed \ {e}
            \/ missed' = missed \cup {e} /\ UNCHANGED view
  BY DEF Signal
<1>6. /\ Told(e, v) \in States \cup Numbers \cup {"none", "IN"}
      /\ v # "UNKNOWN" => Meaning(Told(e, v)) = Meaning(v)
  <2>1. CASE v = "WAITING"
    BY <2>1 DEF Told, Meaning
  <2>2. CASE v = "UNKNOWN"
    BY <1>1, <2>2 DEF Told, HandlerInv, TypeOK
  <2>3. CASE v # "WAITING" /\ v # "UNKNOWN"
    BY <1>1, <2>3 DEF Told
  <2> QED BY <2>1, <2>2, <2>3
<1>7. TypeOK'
  <2>1. /\ last' \in [Entries -> States \cup Numbers \cup {"none"}]
        /\ view' \in [Entries -> States \cup Numbers \cup {"none", "IN"}]
        /\ missed' \subseteq Entries
    BY <1>1, <1>5, <1>6 DEF HandlerInv, TypeOK
  <2>2. PingTimer' \in 0 .. PingTurns /\ quiet' \in Nat
    BY <1>3, Sizes DEF HandlerInv, TypeOK
  <2> QED BY <1>1, <1>2, <1>3, <1>4, <2>1, <2>2 DEF HandlerInv, TypeOK
<1>8. ViewFollowsLast'
  <2> SUFFICES ASSUME NEW i \in Entries, i \notin missed', last'[i] # "UNKNOWN"
               PROVE  Meaning(view'[i]) = Meaning(last'[i])
    BY DEF ViewFollowsLast, Meaning
  <2>1. CASE UNCHANGED <<last, view, missed>>
    BY <2>1 DEF HandlerInv, ViewFollowsLast
  <2>2. CASE /\ last' = [last EXCEPT ![e] = v]
             /\ \/ view' = [view EXCEPT ![e] = Told(e, v)] /\ missed' = missed \ {e}
                \/ missed' = missed \cup {e} /\ UNCHANGED view
    BY <1>1, <1>6, <2>2 DEF HandlerInv, TypeOK, ViewFollowsLast
  <2> QED BY <1>5, <2>1, <2>2
<1>9. OnlineNumbering' /\ Pace' /\ Closing'
  <2>1. flags # "close"
    BY DEF Signal, HandlerInv, Closing
  <2> QED BY <1>2, <1>3, <2>1 DEF HandlerInv, TypeOK, OnlineNumbering, Pace, Closing
<1>10. Waits'
  <2>1. ChNumber \in Channels /\ state \in Kinds /\ watched \in Entries
    BY DEF HandlerInv, TypeOK
  <2>2. /\ Left(watched) \in 0 .. 3 * ChannelCount - 1
        /\ Left(watched)' = IF watched = e THEN 3 * ChannelCount - 1 ELSE Left(watched) - 1
    BY <1>2, <2>1, LeftFacts
  <2>3. age \in Nat /\ age + Left(watched) < 3 * ChannelCount
    BY DEF HandlerInv, TypeOK, Waits
  <2> QED BY <1>2, <1>4, <2>2, <2>3, Sizes DEF Waits
<1> QED BY <1>7, <1>8, <1>9, <1>10 DEF HandlerInv

LEMMA PingKeeps == HandlerInv /\ Ping => HandlerInv'
<1> SUFFICES ASSUME HandlerInv, Ping PROVE HandlerInv'
  OBVIOUS
<1>1. /\ pc' = "voice" /\ UNCHANGED <<loop, signal, watched>>
      /\ UNCHANGED <<n, live, time, heard, lostOnline, table, gone, watched, changes>>
  BY DEF Ping, online, env
<1>2. /\ flags' \in {flags, "ping"}
      /\ \/ PingTimer' = 0 /\ quiet' = 0
         \/ PingTimer < PingTurns /\ UNCHANGED <<PingTimer, quiet>>
  BY Sizes DEF Ping, PingDue, timer, HandlerInv, TypeOK
<1>3. ViewFollowsLast' /\ Waits' /\ UNCHANGED <<ChNumber, state, last, view, missed, age, watched>>
  BY <1>1, SignalAlone
<1>4. flags # "close"
  BY DEF Ping, HandlerInv, Closing
<1>5. TypeOK'
  BY <1>1, <1>2, <1>3, Sizes DEF HandlerInv, TypeOK
<1>6. OnlineNumbering' /\ Pace' /\ Closing'
  BY <1>1, <1>2, <1>4, Sizes DEF HandlerInv, OnlineNumbering, Pace, Closing
<1> QED BY <1>3, <1>5, <1>6 DEF HandlerInv

\* A turn does not end the loop from the voice: the frame is no CLOSE.
LEMMA VoiceFacts ==
  ASSUME HandlerInv, Voice
  PROVE  /\ flags' # "close" /\ flags' \in {flags, "text"} /\ n' \in {n, "some"}
         /\ pc = "voice" /\ pc' = "receive"
         /\ \/ /\ UNCHANGED <<time, heard, lostOnline>>
               /\ PingTimer' = PingTimer + 1 /\ quiet' = quiet + 1
            \/ /\ time < MaxTime /\ time' = time + 1
               /\ \/ /\ heard' = time /\ lostOnline' = 0
                     /\ PingTimer' = 1 /\ quiet' = 1
                  \/ /\ heard' = heard /\ lostOnline' = lostOnline + 1
                     /\ PingTimer' = PingTimer + 1 /\ quiet' = 1
<1>1. flags # "close" /\ pc = "voice"
  BY DEF Voice, HandlerInv, Closing
<1>2. flags' # "close" /\ flags' \in {flags, "text"} /\ n' \in {n, "some"}
  BY <1>1 DEF Voice, frame
<1>3. pc' = "receive"
  BY <1>2 DEF Voice, EndOfTurn, LoopEnd
<1> QED BY <1>1, <1>2, <1>3 DEF Voice, EndOfTurn, NumberTaken

LEMMA VoiceKeeps == HandlerInv /\ Voice => HandlerInv'
<1> SUFFICES ASSUME HandlerInv, Voice PROVE HandlerInv'
  OBVIOUS
<1>1. /\ UNCHANGED <<loop, signal, watched>>
      /\ UNCHANGED <<live, table, gone, watched, changes>>
  BY DEF Voice, env
<1>2. ViewFollowsLast' /\ Waits' /\ UNCHANGED <<ChNumber, state, last, view, missed, age, watched>>
  BY <1>1, SignalAlone
<1>3. /\ PingTimer < PingTurns /\ quiet <= PingTimer /\ PingTimer \in Nat /\ quiet \in Nat
      /\ time \in 1 .. MaxTime /\ heard \in Nat /\ lostOnline \in Nat
      /\ time = heard + 1 + lostOnline
  BY Sizes, VoiceFacts DEF HandlerInv, TypeOK, Pace, OnlineNumbering
<1>4. /\ PingTimer' \in 0 .. PingTurns /\ quiet' \in Nat /\ quiet' <= PingTimer'
      /\ time' \in 1 .. MaxTime /\ heard' \in Nat /\ lostOnline' \in Nat
      /\ time' = heard' + 1 + lostOnline'
  BY <1>3, Sizes, VoiceFacts
<1>5. TypeOK'
  BY <1>1, <1>2, <1>4, VoiceFacts DEF HandlerInv, TypeOK
<1>6. OnlineNumbering' /\ Pace' /\ Closing'
  BY <1>4, VoiceFacts DEF OnlineNumbering, Pace, Closing
<1> QED BY <1>2, <1>5, <1>6 DEF HandlerInv

\* The steps that are not of the loop, and the crash.
LEMMA OthersKeep ==
  ASSUME HandlerInv,
         \/ VoiceOfNoChannel \/ Vanish \/ UNCHANGED vars
         \/ \E e \in Entries : Change(e)
  PROVE  HandlerInv'
<1>1. UNCHANGED <<loop, frame, online, signal, timer, watched>> /\ pc' \in {pc, "crashed"}
  BY DEF VoiceOfNoChannel, Vanish, Change, vars, env
<1>2. UNCHANGED <<n, flags, live, time, heard, lostOnline, PingTimer, quiet, watched>>
  BY <1>1 DEF frame, online, timer
<1>3. ViewFollowsLast' /\ Waits' /\ UNCHANGED <<ChNumber, state, last, view, missed, age, watched>>
  BY <1>1, SignalAlone
<1>4. table' \in [Entries -> States \cup Numbers]
  BY DEF VoiceOfNoChannel, Vanish, Change, vars, env, HandlerInv, TypeOK, ValuesOf
<1>5. gone' \in BOOLEAN
  BY DEF VoiceOfNoChannel, Vanish, Change, vars, env, HandlerInv, TypeOK
<1>6. changes' \in Nat
  BY DEF VoiceOfNoChannel, Vanish, Change, vars, env, HandlerInv, TypeOK
<1>7. TypeOK'
  BY <1>1, <1>2, <1>3, <1>4, <1>5, <1>6 DEF HandlerInv, TypeOK
<1>8. OnlineNumbering' /\ Pace'
  BY <1>1, <1>2 DEF HandlerInv, OnlineNumbering, Pace
<1>9. Closing'
  BY <1>2 DEF HandlerInv, Closing, VoiceOfNoChannel, Vanish, Change, vars
<1> QED BY <1>3, <1>7, <1>8, <1>9 DEF HandlerInv

LEMMA HandlerStepKeeps == HandlerInv /\ [Next]_vars => HandlerInv'
BY ReceiveKeeps, SignalKeeps, PingKeeps, VoiceKeeps, OthersKeep DEF Next, Turn, Ended

-----------------------------------------------------------------------------
(* The theorems                                                            *)

\* The inductive invariant, and with it TypeOK, holds in every state of the handler.
THEOREM HandlerInductive == Spec => []HandlerInv
<1>1. Init => HandlerInv
  BY InitHandlerInv
<1>2. HandlerInv /\ [Next]_vars => HandlerInv'
  BY HandlerStepKeeps
<1> QED BY <1>1, <1>2, PTL DEF Spec

\* The client shows what the handler believes it shows, for any states and numbers, in
\* every entry whose last message did not throw.
THEOREM ClientView == Spec => []ViewFollowsLast
<1>1. HandlerInv => ViewFollowsLast
  BY DEF HandlerInv
<1> QED BY <1>1, HandlerInductive, PTL

\* TIME counts the chunks of a playing client, the lost ones included.
THEOREM TimeCounts == Spec => []OnlineNumbering
<1>1. HandlerInv => OnlineNumbering
  BY DEF HandlerInv
<1> QED BY <1>1, HandlerInductive, PTL

\* An idle connection is pinged every PING_TIME turns at the latest.
THEOREM Pinged == Spec => []KeepsAlive
<1>1. HandlerInv => KeepsAlive
  BY Sizes DEF HandlerInv, TypeOK, Pace, KeepsAlive
<1> QED BY <1>1, HandlerInductive, PTL

\* Whatever changes, an entry that differs from what was sent waits no more than a round.
THEOREM EntryServed == Spec => []NoEntryStarves
<1>1. HandlerInv => NoEntryStarves
  <2> SUFFICES ASSUME HandlerInv PROVE NoEntryStarves
    OBVIOUS
  <2>1. Left(watched) \in 0 .. 3 * ChannelCount - 1
    BY LeftFacts DEF HandlerInv, TypeOK
  <2>2. age \in Nat /\ age + Left(watched) < 3 * ChannelCount
    BY DEF HandlerInv, TypeOK, Waits
  <2> QED BY <2>1, <2>2, Sizes DEF NoEntryStarves
<1> QED BY <1>1, HandlerInductive, PTL

\* The loop's while condition never ends it: only a CLOSE does, or a PONG that throws,
\* and no handler of a broken connection ever ends.
THEOREM EndsOnlySo == Spec => EndsByCloseOnly
<1> DEFINE Ends == pc' = "ended" /\ pc # "ended" => ~gone /\ flags' \in {"close", "ping"}
<1>1. HandlerInv /\ [Next]_vars => Ends
  <2> SUFFICES ASSUME HandlerInv, [Next]_vars, pc' = "ended", pc # "ended"
               PROVE  ~gone /\ flags' \in {"close", "ping"}
    OBVIOUS
  <2>1. pc' # "ended" \/ ~Voice
    BY VoiceFacts
  <2>2. ReceivePing \/ ReceiveClose
    BY <2>1 DEF Next, Turn, ReceiveNothing, ReceivePlay, ReceiveStop, Signal, Ping,
                VoiceOfNoChannel, Change, Vanish, Ended, vars
  <2> QED BY <2>2 DEF ReceivePing, ReceiveClose, Got
<1>2. HandlerInv /\ [Next]_vars => [Ends]_vars
  BY <1>1
<1> QED BY <1>2, HandlerInductive, PTL DEF Spec, EndsByCloseOnly
=============================================================================
