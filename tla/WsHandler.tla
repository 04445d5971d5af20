------------------------------ MODULE WsHandler ------------------------------
(***************************************************************************)
(* One WebSocketRequestHandler (WebSocketRequestHandler.cpp): the loop of  *)
(* handleRequest, which each 16 ms receives a frame, compares one entry of *)
(* CTR4Connection's table with what it sent last, pings, and sends a chunk *)
(* of the channel that is played.                                          *)
(*                                                                         *)
(* The TR4 thread changes the table at any time; a handler reads one entry *)
(* at a time under its mutex (TR4Link; Bridge composes the two).  Whether  *)
(* a chunk is queued is left open (ShortQ).  Any send may throw; every     *)
(* send does once the connection is broken.  A turn of the loop is one     *)
(* tick of PingTimer, of 16 ms.                                            *)
(***************************************************************************)
EXTENDS Integers, Sequences

CONSTANTS
  ChannelCount,  \* MAX_CHANNEL_NUMBER
  PingTurns,     \* PING_TIME in turns
  States,        \* the channel states that occur
  Numbers,       \* the dial and caller strings that occur
  Masks,         \* the LivePlay and LiveStop numbers clients send
  MaxChanges,    \* bound: changes of the table
  MaxTime        \* bound: chunks sent

NoNumber == ""

ASSUME HandlerAssumption ==
  /\ ChannelCount \in Nat \ {0} /\ PingTurns \in Nat \ {0}
  /\ States \subseteq {"IDLE", "IN", "OUT", "WAITING", "DISCONNECT", "UNKNOWN", "DISABLED"}
  /\ "DISCONNECT" \in States /\ NoNumber \in Numbers
  /\ MaxChanges \in Nat /\ MaxTime \in Nat \ {0}

Channels == 0 .. ChannelCount - 1
Kinds == 0 .. 2                      \* state 0 sends STATE, 1 DIAL, 2 CID
Entries == Kinds \X Channels
ValuesOf(e) == IF e[1] = 0 THEN States ELSE Numbers
NoChannel == 0                       \* m_LiveChannel when nothing is played
GoodMasks == {1, 2, 4, 8}

VARIABLES
  pc,         \* the part of the loop that is next, or "ended" or "crashed"
  table,      \* channelState, dial, cid
  last,       \* lastState, lastdial, lastcid
  ChNumber, state,
  n,          \* the member n, as 0 or positive: "zero", "some"
  flags,      \* the opcode in the member flags
  live,       \* m_LiveChannel
  time,       \* m_time
  PingTimer,
  gone,       \* the connection broke without a CLOSE
  view,       \* history: what the client was told last
  missed,     \* history: the entries whose last message was not sent
  heard,      \* history: TIME of the last ONLINE frame the client got, 0 after a stop
  lostOnline, \* history: ONLINE frames after it whose send threw
  quiet,      \* history: turns since the handler last tried to send
  watched,    \* history: one entry, and the turns it has differed from what was sent
  age,
  changes     \* counted against its bound

loop == <<ChNumber, state>>
frame == <<n, flags>>
online == <<live, time, heard, lostOnline>>
signal == <<last, view, missed, age>>
timer == <<PingTimer, quiet>>
env == <<table, gone, watched, changes>>
vars == <<pc, loop, frame, online, signal, timer, env>>

Init ==
  /\ pc = "receive"
  /\ table = [e \in Entries |-> IF e[1] = 0 THEN "DISCONNECT" ELSE NoNumber]
  /\ last = [e \in Entries |-> IF e[1] = 0 THEN "none" ELSE NoNumber]
  /\ ChNumber = ChannelCount - 1 /\ state = 0
  /\ n = "zero" /\ flags = "none"
  /\ live = NoChannel /\ time = 1 /\ PingTimer = 0
  /\ gone = FALSE
  /\ view = last /\ missed = {}
  /\ heard = 0 /\ lostOnline = 0 /\ quiet = 0
  /\ watched \in Entries /\ age = 0
  /\ changes = 0

\* while (n > 0 || opcode != CLOSE)
StopAtNothing == IF n = "some" /\ flags # "close" THEN "receive" ELSE "ended"
LoopEnd == IF n = "some" \/ flags # "close" THEN "receive" ELSE "ended"

\* Whether a send succeeds.
Sends == IF gone THEN {FALSE} ELSE BOOLEAN

-----------------------------------------------------------------------------
(* receiveFrame and ProcessReceive                                         *)

\* What receiveFrame leaves in n and flags: nothing when it throws, or when the peer has
\* closed the TCP connection; or a frame of some opcode.
Got(k, op) == n' = k /\ flags' = op
GotText == Got("some", "text")

\* An exception, end of stream, a PONG, or a text that asks for nothing.
ReceiveNothing ==
  /\ pc = "receive" /\ pc' = "signal"
  /\ \/ Got("zero", "none")
     \/ ~gone /\ (GotText \/ \E k \in {"zero", "some"} : Got(k, "pong"))
  /\ UNCHANGED <<loop, online, signal, timer, env>>

\* LivePlay: m_LiveChannel is set before the switch; a number that is not one of its
\* cases leaves ch uninitialised, and EmptyQueue goes to whatever reader that is.
ReceivePlay(m) ==
  /\ pc = "receive" /\ ~gone /\ GotText
  /\ live' = m
  /\ pc' \in IF m \in GoodMasks THEN {"signal"} ELSE {"signal", "crashed"}
  /\ UNCHANGED <<time, heard, lostOnline, loop, signal, timer, env>>

\* LiveStop counts for the channel that is played only.
ReceiveStop(m) ==
  /\ pc = "receive" /\ pc' = "signal" /\ ~gone /\ GotText
  /\ IF live = m
       THEN live' = NoChannel /\ time' = 1 /\ heard' = 0 /\ lostOnline' = 0
       ELSE UNCHANGED online
  /\ UNCHANGED <<loop, signal, timer, env>>

\* PING: a PONG is sent outside any try, and the rest of the turn is left out.
ReceivePing ==
  /\ pc = "receive" /\ ~gone
  /\ \E k \in {"zero", "some"} : Got(k, "ping")
  /\ pc' \in {LoopEnd', "ended"}
  /\ UNCHANGED <<loop, online, signal, timer, env>>

ReceiveClose ==
  /\ pc = "receive" /\ pc' = "ended" /\ ~gone
  /\ \E k \in {"zero", "some"} : Got(k, "close")
  /\ UNCHANGED <<loop, online, signal, timer, env>>

-----------------------------------------------------------------------------
(* ProcessSignaling                                                        *)

\* The entry this turn is about: a channel each turn, a kind each round of channels.
NextChannel == (ChNumber + 1) % ChannelCount
TwoKinds == IF NextChannel = 0 THEN (state + 1) % 2 ELSE state
NextKind == IF NextChannel = 0 THEN (state + 1) % 3 ELSE state
Visited == <<NextKind, NextChannel>>

\* What the client is told of a value: REC_WAITING as REC_RECORDING_IN, and of
\* REC_UNKNOWN nothing (an empty frame).
ToldNotWaiting(e, v) == IF v \in {"WAITING", "UNKNOWN"} THEN view[e] ELSE v
Told(e, v) == CASE v = "WAITING" -> "IN"
                [] v = "UNKNOWN" -> view[e]
                [] OTHER -> v

\* last is set before the send is tried.
Signal ==
  /\ pc = "signal" /\ pc' = "ping"
  /\ ChNumber' = NextChannel /\ state' = NextKind
  /\ IF table[Visited] = last[Visited]
       THEN UNCHANGED <<last, view, missed, timer, frame>>
       ELSE /\ last' = [last EXCEPT ![Visited] = table[Visited]]
            /\ quiet' = 0
            /\ Got(IF table[Visited] = "UNKNOWN" THEN "zero" ELSE "some", "text")
            /\ \E ok \in Sends :
                 IF ok THEN /\ view' = [view EXCEPT ![Visited] = Told(Visited, table[Visited])]
                            /\ missed' = missed \ {Visited}
                            /\ PingTimer' = 0
                       ELSE /\ missed' = missed \cup {Visited}
                            /\ UNCHANGED <<view, PingTimer>>
  /\ age' = IF watched = Visited \/ table[watched] = last[watched] THEN 0 ELSE age + 1
  /\ UNCHANGED <<online, env>>

-----------------------------------------------------------------------------
(* ProcessPing, ProcessSendLiveVoice and Sleep(16)                         *)

\* The timer is cleared before the ping is sent, and stays so if that throws.
PingLate == PingTimer > PingTurns
PingDue == PingTimer >= PingTurns

Ping ==
  /\ pc = "ping" /\ pc' = "voice"
  /\ IF PingDue THEN PingTimer' = 0 /\ quiet' = 0 /\ flags' = "ping"
               ELSE UNCHANGED <<timer, flags>>
  /\ UNCHANGED <<n, loop, online, signal, env>>

EndOfTurn(p, q) == pc' = LoopEnd' /\ PingTimer' = p + 1 /\ quiet' = q + 1

\* m_time counts a chunk whether or not its send succeeds.
NumberSent(ok) == IF ok THEN time + 1 ELSE time
NumberTaken(ok) == time + 1

Voice ==
  /\ pc = "voice"
  /\ UNCHANGED <<live, loop, signal, env>>
  /\ \/ UNCHANGED <<frame, time, heard, lostOnline>> /\ EndOfTurn(PingTimer, quiet)
     \/ /\ live # NoChannel /\ time < MaxTime
        /\ flags' = "text"
        /\ \E ok \in Sends :
             /\ time' = NumberTaken(ok)
             /\ n' = IF ok THEN "some" ELSE n
             /\ IF ok THEN heard' = time /\ lostOnline' = 0 /\ EndOfTurn(0, 0)
                      ELSE lostOnline' = lostOnline + 1 /\ EndOfTurn(PingTimer, 0)
                           /\ UNCHANGED heard

\* The switch of ProcessSendLiveVoice with a number that is none of its cases.
VoiceOfNoChannel ==
  /\ pc = "voice" /\ live # NoChannel /\ live \notin GoodMasks
  /\ pc' = "crashed"
  /\ UNCHANGED <<loop, frame, online, signal, timer, env>>

-----------------------------------------------------------------------------
(* The others                                                              *)

\* The TR4 thread sets an entry.
Change(e) ==
  /\ pc \notin {"ended", "crashed"} /\ changes < MaxChanges
  /\ \E v \in ValuesOf(e) \ {table[e]} : table' = [table EXCEPT ![e] = v]
  /\ changes' = changes + 1
  /\ UNCHANGED <<pc, loop, frame, online, signal, timer, gone, watched>>

\* The connection breaks, or its end is closed without a CLOSE frame.
Vanish ==
  /\ pc \notin {"ended", "crashed"} /\ ~gone
  /\ gone' = TRUE
  /\ UNCHANGED <<pc, loop, frame, online, signal, timer, table, watched, changes>>

Ended == pc \in {"ended", "crashed"} /\ UNCHANGED vars

Turn == \/ ReceiveNothing \/ (\E m \in Masks : ReceivePlay(m) \/ ReceiveStop(m))
        \/ ReceivePing \/ ReceiveClose \/ Signal \/ Ping \/ Voice \/ VoiceOfNoChannel

Next == Turn \/ (\E e \in Entries : Change(e)) \/ Vanish \/ Ended

Spec == Init /\ [][Next]_vars

-----------------------------------------------------------------------------
(* Properties                                                              *)

TypeOK ==
  /\ pc \in {"receive", "signal", "ping", "voice", "ended", "crashed"}
  /\ table \in [Entries -> States \cup Numbers]
  /\ last \in [Entries -> States \cup Numbers \cup {"none"}]
  /\ view \in [Entries -> States \cup Numbers \cup {"none", "IN"}]
  /\ ChNumber \in Channels /\ state \in Kinds
  /\ n \in {"zero", "some"} /\ flags \in {"none", "text", "ping", "pong", "close"}
  /\ live \in Masks \cup {NoChannel} /\ time \in 1 .. MaxTime
  /\ PingTimer \in 0 .. PingTurns /\ quiet \in Nat
  /\ gone \in BOOLEAN /\ changes \in Nat
  /\ missed \subseteq Entries /\ watched \in Entries /\ age \in Nat
  /\ heard \in Nat /\ lostOnline \in Nat

\* What a state means on the wire of both sides: TR4Connection's mapper names REC_WAITING
\* and REC_RECORDING_IN alike.
Meaning(v) == IF v = "WAITING" THEN "IN" ELSE v

\* The client shows what the handler believes it shows, in every entry but those whose
\* last message threw, and REC_UNKNOWN, of which it is told nothing.
ViewFollowsLast ==
  \A e \in Entries :
    e \notin missed /\ last[e] # "UNKNOWN" => Meaning(view[e]) = Meaning(last[e])

\* The round over channels and kinds comes to every entry: none differs from what was
\* sent for more than one whole round of turns, whatever else changes meanwhile.
NoEntryStarves == age < 3 * ChannelCount

\* An idle connection is pinged in time: the handler tries to send something at least
\* every PING_TIME, also when other sends throw and do not clear PingTimer.
KeepsAlive == quiet <= PingTurns /\ quiet <= PingTimer + 1

\* TIME numbers the chunks of a playing client without repeats, across LivePlays of
\* other channels and failed sends: a gap in TIME is as long as the chunks lost.
OnlineNumbering == time = heard + 1 + lostOnline

\* The loop ends by a CLOSE, or by the PONG that throws outside any try, and by nothing
\* else: its while condition is never false.  A handler whose connection broke keeps its
\* thread for ever, receiving nothing, with every exception swallowed.
EndsByCloseOnly ==
  [][ pc' = "ended" /\ pc # "ended" => ~gone /\ flags' \in {"close", "ping"} ]_vars
=============================================================================
