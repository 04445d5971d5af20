------------------------------- MODULE TR4Link -------------------------------
(***************************************************************************)
(* CTR4Connection's thread (Routine, TR4Connection.cpp) from connecting to *)
(* reconnecting, the table of channel states, dial and caller strings it   *)
(* keeps, and the handler threads that read the table through GetState,    *)
(* GetDial and GetCID.                                                     *)
(*                                                                         *)
(* An entry of the table holds what a frame said of it, Unset for          *)
(* REC_DISCONNECT or the empty string.  The byte queue is a sequence of    *)
(* frames and of bytes that belong to none, as long as it is in step.  A   *)
(* receive that ends within the last 16 bytes of a frame, or fills         *)
(* StBuffer, puts it out of step (TR4Queue has the detail): what comes out *)
(* of it then, until ResetQ, is anything that StBuffer happens to hold,    *)
(* frames of earlier connections among it.  A write takes two steps, so    *)
(* that a read it does not exclude can fall in between.                    *)
(*                                                                         *)
(* No allocation fails here: a string assignment that threw would leave    *)
(* its mutex locked.                                                       *)
(***************************************************************************)
EXTENDS Integers, Sequences

CONSTANTS
  ChannelCount,  \* MAX_CHANNEL_NUMBER
  Strings,       \* the table's strings, in the order of InitVars: dial and cid
  Contents,      \* Contents[f]: what a frame may say of a state, a dial or a caller
  Handlers,      \* threads that read the table
  MaxQueue       \* bound: items queued

ASSUME LinkAssumption == /\ ChannelCount \in Nat \ {0} /\ MaxQueue \in Nat
                         /\ Strings \in Seq({"dial", "cid"}) /\ Len(Strings) <= 2
                         /\ Handlers \cap {"nobody", "routine"} = {}

Channels == 0 .. ChannelCount - 1
Fields == <<"state">> \o Strings
Entries == {Fields[i] : i \in DOMAIN Fields} \X Channels
Unset == "unset"
Said(e) == Contents[e[1]]
Values == {Unset} \cup (UNION {Said(e) : e \in Entries})
Nobody == "nobody"
Routine == "routine"    \* the holder of a mutex that is not a handler
Junk == <<"junk", 0>>
Nothing == [e \in Entries |-> {}]
\* What a frame is about and what it says of it.
Commands == {c \in Entries \X Values : c[2] \in Said(c[1])}
              \cup (({"alive"} \X Channels) \X {Unset})
Items == Commands \cup {<<Junk, Unset>>}

VARIABLES
  pc,           \* where Routine is
  running,      \* m_running
  established,
  sock,         \* ss1: "null", "open", or "dangling" when deleted and not nulled
  threw,        \* history: setBlocking threw, and no connection was made since
  queue,        \* what is queued in StBuffer, in step
  torn,         \* history: the queue is out of step
  sent,         \* history: sent[e]: what this connection's frames said of e, in step
  channel,      \* Routine's local: the channel of the last command
  value,        \* what the command says that Routine carries out, Unset if none
  todo,         \* the entries Routine has yet to write before it goes on
  writing,      \* it is in the middle of writing the first of them
  table,        \* channelState, dial, cid
  mtx,          \* mtx[c]: who holds it
  asked,        \* asked[h]: the entry handler h reads
  hpc           \* hpc[h]: "idle", "want" or "in" its critical section

link == <<running, established, sock, threw>>
input == <<queue, torn, sent, channel, value>>
shared == <<todo, writing, table, mtx>>
readers == <<asked, hpc>>
vars == <<pc, link, input, shared, readers>>

Init ==
  /\ pc = "top" /\ running = TRUE /\ established = FALSE /\ sock = "null" /\ threw = FALSE
  /\ queue = <<>> /\ torn = FALSE /\ sent = Nothing
  /\ channel = 0 /\ value = Unset
  /\ todo = <<>> /\ writing = FALSE
  /\ table = [e \in Entries |-> Unset]
  /\ mtx = [c \in Channels |-> Nobody]
  /\ asked = [h \in Handlers |-> Junk]
  /\ hpc = [h \in Handlers |-> "idle"]

\* A crash is the end of every thread.
Alive == pc # "crashed"

-----------------------------------------------------------------------------
(* The outer loop                                                          *)

\* The entries the loops of InitVars and of n == 0 go through.
StatesOfAll == [i \in 1 .. ChannelCount |-> <<"state", i - 1>>]
InitVars == [i \in 1 .. Len(Fields) * ChannelCount |->
              <<Fields[1 + ((i - 1) % Len(Fields))], (i - 1) \div Len(Fields)>>]

\* while (m_running), and InitVars; or the end, where ss1 is deleted.  Deleting a
\* pointer that was deleted before is the end of the process.
Top ==
  /\ pc = "top"
  /\ IF running
       THEN pc' = "init" /\ todo' = InitVars /\ UNCHANGED sock
       ELSE /\ pc' = IF sock = "dangling" THEN "crashed" ELSE "stopped"
            /\ sock' = "null" /\ UNCHANGED todo
  /\ UNCHANGED <<running, established, threw, input, writing, table, mtx, readers>>

\* new StreamSocket succeeds; or throws, and ss1 keeps the value it had.  If setBlocking
\* throws, the new socket is deleted and ss1 left pointing at it.  ResetQ follows.
Connect ==
  /\ pc = "connect"
  /\ \/ /\ sock' = "open" /\ established' = TRUE /\ threw' = FALSE /\ pc' = "receive"
     \/ /\ pc' = IF sock = "dangling" THEN "crashed" ELSE "pause"
        /\ UNCHANGED <<sock, established, threw>>
     \/ /\ sock' = "dangling" /\ threw' = TRUE /\ pc' = "pause"
        /\ UNCHANGED established
  /\ queue' = <<>> /\ torn' = FALSE /\ sent' = Nothing
  /\ UNCHANGED <<running, channel, value, shared, readers>>

\* sleep_for(4000 ms).
Pause ==
  /\ pc = "pause" /\ pc' = "top"
  /\ UNCHANGED <<link, input, shared, readers>>

\* ~CTR4Connection clears m_running and joins; the inner loop does not look at it.
Shutdown ==
  /\ Alive /\ running /\ running' = FALSE
  /\ UNCHANGED <<pc, established, sock, threw, input, shared, readers>>

-----------------------------------------------------------------------------
(* The inner loop                                                          *)

SaidIn(s, e) == {s[i][2] : i \in {j \in DOMAIN s : s[j][1] = e}}

\* A receive brings nothing, or some of what the peer sent; or it ends where it puts the
\* queue out of step.
Receive ==
  /\ pc = "receive" /\ pc' = "drain"
  /\ \/ /\ ~torn /\ UNCHANGED torn
        /\ \E s \in {<<>>} \cup {<<i>> : i \in Items} \cup (Items \X Items) :
             /\ Len(queue \o s) <= MaxQueue /\ queue' = queue \o s
             /\ sent' = [e \in Entries |-> sent[e] \cup SaidIn(s, e)]
     \/ torn' = TRUE /\ queue' = <<>> /\ sent' = Nothing
  /\ UNCHANGED <<link, channel, value, shared, readers>>

\* n == 0: every channelState is to be written, and ss1 deleted.
ReceiveEof ==
  /\ pc = "receive" /\ pc' = "closing"
  /\ established' = FALSE
  /\ todo' = StatesOfAll
  /\ UNCHANGED <<running, sock, threw, input, writing, table, mtx, readers>>

\* What the catch and the end of the n == 0 branch do to ss1.
LeftDangling == "dangling"
Nulled == "null"

\* receiveBytes throws: no drain, and the table stays as it is until InitVars.
ReceiveThrows ==
  /\ pc = "receive" /\ pc' = "tick"
  /\ established' = FALSE /\ sock' = Nulled
  /\ UNCHANGED <<running, threw, input, shared, readers>>

AtFrame == queue # <<>> /\ Head(queue)[1] # Junk
Rest == IF queue = <<>> THEN queue ELSE Tail(queue)

\* What ProcessQ and GetBuffer may find: the frame at the head of the queue; out of step,
\* what StBuffer holds, whoever sent it.
Found == IF torn THEN Commands ELSE IF AtFrame THEN {Head(queue)} ELSE {}

\* ProcessCommand, and the switch: a frame is taken, and has an entry to set or has none.
DrainFrame ==
  /\ \E f \in Found :
       /\ channel' = f[1][2]
       /\ IF f[1] \in Entries
            THEN todo' = <<f[1]>> /\ value' = f[2] /\ pc' = "set"
            ELSE UNCHANGED <<todo, value, pc>>
  /\ queue' = Rest

\* A byte outside a frame is dropped and ends the loop, as an empty queue does.
DrainEnd ==
  /\ torn \/ ~AtFrame
  /\ pc' = "tick" /\ queue' = Rest
  /\ UNCHANGED <<channel, value, todo>>

\* A frame too long for the buffer: ResetQ, and the loop goes on.
DrainReset ==
  /\ ~torn /\ queue # <<>> /\ ~AtFrame
  /\ queue' = <<>>
  /\ UNCHANGED <<pc, channel, value, todo>>

Drain ==
  /\ pc = "drain"
  /\ DrainFrame \/ DrainEnd \/ DrainReset
  /\ UNCHANGED <<link, torn, sent, writing, table, mtx, readers>>

\* sleep_for(8 ms), and while (established).
WhileRunning == IF running THEN "receive" ELSE "pause"
WhileEstablished == IF established THEN "receive" ELSE "pause"

Tick ==
  /\ pc = "tick" /\ pc' = WhileEstablished
  /\ UNCHANGED <<link, input, shared, readers>>

-----------------------------------------------------------------------------
(* Writing to the table                                                    *)

\* InitVars takes no lock; a command locks its channel; the loop at n == 0 locks the
\* channel of the last command each time, whichever entry it writes.
UnlockedWrite == {}
LocksTaken == IF pc = "init" THEN {} ELSE {channel}

WriteBegin ==
  /\ pc \in {"init", "closing", "set"} /\ ~writing
  /\ \A c \in LocksTaken : mtx[c] = Nobody
  /\ mtx' = [c \in Channels |-> IF c \in LocksTaken THEN Routine ELSE mtx[c]]
  /\ writing' = TRUE
  /\ UNCHANGED <<pc, link, input, todo, table, readers>>

KeptLocked == mtx
Unlocked == [c \in Channels |-> IF mtx[c] = Routine THEN Nobody ELSE mtx[c]]

LeftByInit == IF pc = "set" THEN value ELSE IF pc = "init" THEN table[Head(todo)] ELSE Unset
NewValue == IF pc = "set" THEN value ELSE Unset

WriteEnd ==
  /\ Alive /\ writing
  /\ table' = [table EXCEPT ![Head(todo)] = NewValue]
  /\ mtx' = Unlocked
  /\ writing' = FALSE
  /\ todo' = Tail(todo)
  /\ pc' = IF Tail(todo) # <<>> THEN pc ELSE IF pc = "init" THEN "connect" ELSE "drain"
  /\ sock' = IF pc = "closing" /\ Tail(todo) = <<>> THEN Nulled ELSE sock
  /\ value' = Unset
  /\ UNCHANGED <<running, established, threw, queue, torn, sent, channel, readers>>

-----------------------------------------------------------------------------
(* A handler thread: GetState, GetDial, GetCID                             *)

Ask(h, e) ==
  /\ Alive /\ hpc[h] = "idle"
  /\ hpc' = [hpc EXCEPT ![h] = "want"]
  /\ asked' = [asked EXCEPT ![h] = e]
  /\ UNCHANGED <<pc, link, input, shared>>

Lock(h) ==
  /\ Alive /\ hpc[h] = "want" /\ mtx[asked[h][2]] = Nobody
  /\ mtx' = [mtx EXCEPT ![asked[h][2]] = h]
  /\ hpc' = [hpc EXCEPT ![h] = "in"]
  /\ UNCHANGED <<pc, link, input, todo, writing, table, asked>>

\* The copy, which lasts until the mutex is left.
Overlaps(e) == writing /\ Head(todo) = e

\* A string that is being given another value while it is copied reads as anything, and
\* may be freed under the copy.
Races(e) == Overlaps(e) /\ e[1] # "state" /\ table[e] # NewValue

Copy(h) ==
  /\ Alive /\ hpc[h] = "in"
  /\ mtx' = [mtx EXCEPT ![asked[h][2]] = Nobody]
  /\ hpc' = [hpc EXCEPT ![h] = "idle"]
  /\ asked' = [asked EXCEPT ![h] = Junk]
  /\ pc' \in IF Races(asked[h]) THEN {pc, "crashed"} ELSE {pc}
  /\ UNCHANGED <<link, input, todo, writing, table>>

-----------------------------------------------------------------------------

RoutineStep == \/ Top \/ Connect \/ Pause \/ Receive \/ ReceiveEof \/ ReceiveThrows
               \/ Drain \/ Tick \/ WriteBegin \/ WriteEnd

HandlerStep(h) == (\E e \in Entries : Ask(h, e)) \/ Lock(h) \/ Copy(h)

Ended == ~Alive /\ UNCHANGED vars

Next == RoutineStep \/ Shutdown \/ (\E h \in Handlers : HandlerStep(h)) \/ Ended

Spec == Init /\ [][Next]_vars

(* The thread runs on: its sleeps end, and a mutex that is free again and  *)
(* again is had by whoever waits for it.  A handler in its critical        *)
(* section leaves it.                                                      *)
Fairness ==
  /\ WF_vars(RoutineStep) /\ SF_vars(WriteBegin)
  /\ \A h \in Handlers : SF_vars(Lock(h)) /\ WF_vars(Copy(h))

LiveSpec == Spec /\ Fairness

-----------------------------------------------------------------------------
(* Properties                                                              *)

TypeOK ==
  /\ pc \in {"top", "init", "connect", "pause", "receive", "closing", "tick", "drain",
             "set", "stopped", "crashed"}
  /\ running \in BOOLEAN /\ established \in BOOLEAN /\ writing \in BOOLEAN
  /\ sock \in {"null", "open", "dangling"}
  /\ threw \in BOOLEAN /\ torn \in BOOLEAN
  /\ channel \in Channels /\ value \in Values
  /\ queue \in Seq(Items) /\ todo \in Seq(Entries)
  /\ table \in [Entries -> Values] /\ sent \in [Entries -> SUBSET Values]
  /\ mtx \in [Channels -> Handlers \cup {Routine, Nobody}]
  /\ asked \in [Handlers -> Entries \cup {Junk}]
  /\ hpc \in [Handlers -> {"idle", "want", "in"}]

\* What handlers can see of a connection ends with it: when a connection is made the
\* table is empty, and while the byte queue is in step it holds only what this connection's
\* frames said.  Out of step nothing is promised until InitVars has run again: frames that
\* an earlier connection left in StBuffer set the table.
CurrentConnectionOnly ==
  /\ pc = "connect" => \A e \in Entries : table[e] = Unset
  /\ ~torn => \A e \in Entries : table[e] \in {Unset} \cup sent[e]

\* The per-channel mutexes exclude a handler's copy from every write but those of
\* InitVars, which takes none, and of the loop at n == 0, which takes another one; that
\* loop writes ints, so a handler reads a torn string only while InitVars runs.
WritesExcluded ==
  /\ \A h \in Handlers :
       Alive /\ hpc[h] = "in" /\ Overlaps(asked[h]) =>
         pc = "init" \/ (pc = "closing" /\ asked[h][1] = "state")
  /\ \A c \in Channels : \A h \in Handlers :
       mtx[c] = h <=> (hpc[h] = "in" /\ asked[h][2] = c)

\* Routine receives on an open socket only, goes back to connecting with none open, so that
\* none is leaked, and keeps no pointer to a socket it has deleted, but for the one whose
\* setBlocking threw.  That one it does keep, and deletes it a second time if the next try
\* fails or it is told to stop: in the model the end of the process ("crashed").
SocketMatches ==
  /\ pc = "receive" => established /\ sock = "open"
  /\ pc \in {"top", "init", "connect", "pause"} => sock # "open"
  /\ sock = "dangling" => threw

\* A lost connection is tried again.
Reconnects == (pc = "tick" /\ ~established) ~> (pc \in {"connect", "stopped", "crashed"})

\* The drain loop ends.  In step it does, since it takes what is queued; out of step it may
\* go round the old frames in StBuffer for ever.
DrainsEnd == []<>(pc \notin {"drain", "set"} \/ ~torn)

\* Once m_running is cleared only a connection that stays up keeps Routine from ending,
\* and ~CTR4Connection from joining it, or a drain loop that does not end.
StopsUnlessLinked ==
  DrainsEnd => (~running ~> (pc \in {"stopped", "crashed"} \/ established))

\* A handler that asks for an entry gets one: no lock is held for ever.
HandlersServed == \A h \in Handlers : hpc[h] = "want" ~> hpc[h] = "idle" \/ pc = "crashed"

\* TR4Connection.cpp:164, of n == 0: "set line states to disconnect".
EofDisconnects ==
  [][ ~torn /\ pc = "drain" /\ ~established /\ pc' = "tick" =>
        \A c \in Channels : table[<<"state", c>>] = Unset ]_vars
=============================================================================
