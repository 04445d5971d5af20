---------------------------- MODULE BridgeProofs ----------------------------
(***************************************************************************)
(* Proofs about TR4Link and about Bridge, which extends it, for any number *)
(* of channels, handlers and connections.                                  *)
(*                                                                         *)
(* LinkInv, the inductive invariant of TR4Link, has one part per property: *)
(* what Routine has yet to write, who holds which mutex, what is queued in *)
(* step, how far InitVars has come with the table, and what the socket is  *)
(* at each point of the loops.  Every step of Bridge is one of TR4Link or leaves TR4Link's      *)
(* variables alone, so LinkInv holds there too; and every step is one of   *)
(* Mirror.                                                                 *)
(***************************************************************************)
EXTENDS Bridge, TLAPS

Writing == {"init", "closing", "set"}

\* Routine is in the middle of a write only where it has something to write.
Pending ==
  /\ pc \in Writing => todo # <<>>
  /\ Alive /\ writing => pc \in Writing

\* Routine has a mutex only while it writes; a handler has the one of the entry it reads.
LockInv ==
  /\ Alive => \A c \in Channels : mtx[c] = Routine <=> (writing /\ c \in LocksTaken)
  /\ \A h \in Handlers : hpc[h] # "idle" => asked[h] \in Entries
  /\ \A c \in Channels, h \in Handlers :
       mtx[c] = h <=> (hpc[h] = "in" /\ asked[h][2] = c)
  /\ pc = "set" => Head(todo)[2] = channel /\ Tail(todo) = <<>>
  /\ pc = "closing" => \A i \in DOMAIN todo : todo[i][1] = "state"

\* In step, what is queued is what this connection sent, and so is the command that is
\* being carried out.
QueueInv ==
  ~torn => /\ \A i \in DOMAIN queue :
                queue[i][1] \in Entries => queue[i][2] \in sent[queue[i][1]]
           /\ pc = "set" => value \in sent[Head(todo)]

\* In step, the table holds what this connection said only; InitVars has reset what it is
\* not to write any more.
TableInv ==
  /\ ~torn => \A e \in Entries : table[e] \in {Unset} \cup sent[e]
  /\ pc = "init" => \A e \in Entries : table[e] = Unset \/ \E i \in DOMAIN todo : todo[i] = e
  /\ pc = "connect" => \A e \in Entries : table[e] = Unset

SockInv ==
  /\ pc = "receive" => established
  /\ pc \in {"receive", "drain", "set", "tick"} =>
       sock = IF established THEN "open" ELSE "null"
  /\ pc = "closing" => ~established
  /\ pc \in {"top", "init", "connect", "pause"} => sock # "open" /\ ~established
  /\ sock = "dangling" => threw

LinkInv == TypeOK /\ Pending /\ LockInv /\ QueueInv /\ TableInv /\ SockInv

-----------------------------------------------------------------------------
(* The entries and the orders in which Routine writes them                 *)

LEMMA FieldFacts ==
  /\ Len(Fields) \in 1 .. 3 /\ DOMAIN Fields = 1 .. Len(Fields)
  /\ Fields[1] = "state"
  /\ \A i \in DOMAIN Fields : Fields[i] \in {"state", "dial", "cid"}
<1>1. Strings \in Seq({"dial", "cid"}) /\ Len(Strings) \in 0 .. 2
  <2>1. PICK n \in Nat : n = Len(Strings)
    BY LinkAssumption
  <2>2. n <= 2
    BY <2>1, LinkAssumption
  <2>3. n \in 0 .. 2
    BY <2>2
  <2> QED BY <2>1, <2>3, LinkAssumption
<1>2. Len(Fields) = 1 + Len(Strings) /\ DOMAIN Fields = 1 .. 1 + Len(Strings)
  BY <1>1 DEF Fields
<1>3. Fields[1] = "state"
  BY <1>1 DEF Fields
<1>4. ASSUME NEW i \in 2 .. 1 + Len(Strings) PROVE Fields[i] \in {"dial", "cid"}
  <2>1. Fields[i] = Strings[i - 1]
    BY <1>1 DEF Fields
  <2> QED BY <1>1, <2>1
<1>5. ASSUME NEW i \in DOMAIN Fields PROVE Fields[i] \in {"state", "dial", "cid"}
  <2>1. i = 1 \/ i \in 2 .. 1 + Len(Strings)
    BY <1>1, <1>2
  <2>2. CASE i = 1
    BY <1>3, <2>2
  <2>3. CASE i \in 2 .. 1 + Len(Strings)
    BY <1>4, <2>3
  <2> QED BY <2>1, <2>2, <2>3
<1>6. Len(Fields) \in 1 .. 3 /\ DOMAIN Fields = 1 .. Len(Fields)
  <2>1. PICK n \in 0 .. 2 : n = Len(Strings)
    BY <1>1
  <2>2. 1 + n \in 1 .. 3
    OBVIOUS
  <2> QED BY <1>2, <2>1, <2>2
<1> QED BY <1>3, <1>5, <1>6

LEMMA EntryFacts ==
  /\ Entries = {Fields[i] : i \in DOMAIN Fields} \X Channels
  /\ \A c \in Channels : <<"state", c>> \in Entries
  /\ Junk \notin Entries
  /\ \A e \in Entries : e[2] \in Channels /\ e = <<e[1], e[2]>>
BY FieldFacts DEF Entries, Junk

LEMMA InitVarsFacts ==
  /\ InitVars \in Seq(Entries) /\ InitVars # <<>>
  /\ \A e \in Entries : \E i \in DOMAIN InitVars : InitVars[i] = e
<1> USE LinkAssumption DEF Channels
<1> DEFINE L == Len(Fields)
<1>1. L \in {1, 2, 3} /\ DOMAIN Fields = 1 .. L
  BY FieldFacts
<1>2. L * ChannelCount \in Nat /\ L * ChannelCount >= 1
  BY <1>1
<1>3. ASSUME NEW i \in 1 .. L * ChannelCount
      PROVE  1 + ((i - 1) % L) \in 1 .. L /\ (i - 1) \div L \in Channels
  BY <1>1, <1>3
<1>4. ASSUME NEW i \in 1 .. L * ChannelCount PROVE InitVars[i] \in Entries
  BY <1>1, <1>3, <1>4 DEF InitVars, Entries
<1>5. InitVars \in Seq(Entries) /\ DOMAIN InitVars = 1 .. L * ChannelCount
  <2>1. InitVars = [i \in 1 .. L * ChannelCount |-> InitVars[i]]
    BY DEF InitVars
  <2>2. DOMAIN InitVars = 1 .. L * ChannelCount
    BY DEF InitVars
  <2>3. \A n \in Nat : \A f : f = [i \in 1 .. n |-> f[i]] /\ (\A i \in 1 .. n : f[i] \in Entries)
                             => f \in Seq(Entries)
    OBVIOUS
  <2> QED BY <1>2, <1>4, <2>1, <2>2, <2>3
<1>6. ASSUME NEW e \in Entries PROVE \E i \in 1 .. L * ChannelCount : InitVars[i] = e
  <2>1. PICK k \in 1 .. L, c \in Channels : e = <<Fields[k], c>>
    BY <1>1 DEF Entries
  <2> DEFINE i == c * L + k
  <2>2. i \in 1 .. L * ChannelCount /\ (i - 1) % L = k - 1 /\ (i - 1) \div L = c
    <3>1. CASE L = 1
      BY <2>1, <3>1
    <3>2. CASE L = 2
      BY <2>1, <3>2
    <3>3. CASE L = 3
      BY <2>1, <3>3
    <3> QED BY <1>1, <3>1, <3>2, <3>3
  <2>3. InitVars[i] = <<Fields[k], c>>
    BY <2>2 DEF InitVars
  <2> QED BY <2>1, <2>2, <2>3
<1> QED BY <1>2, <1>5, <1>6

LEMMA StatesFacts ==
  /\ StatesOfAll \in Seq(Entries) /\ StatesOfAll # <<>>
  /\ \A i \in DOMAIN StatesOfAll : StatesOfAll[i][1] = "state"
BY LinkAssumption, EntryFacts DEF StatesOfAll, Channels

LEMMA TodoFacts ==
  ASSUME NEW q \in Seq(Entries), q # <<>>
  PROVE  /\ Head(q) \in Entries /\ Tail(q) \in Seq(Entries) /\ Head(q) = q[1]
         /\ \A i \in DOMAIN Tail(q) : i + 1 \in DOMAIN q /\ Tail(q)[i] = q[i + 1]
         /\ \A i \in DOMAIN q : i # 1 => i - 1 \in DOMAIN Tail(q) /\ Tail(q)[i - 1] = q[i]
OBVIOUS

LEMMA ValueFacts ==
  /\ Unset \in Values
  /\ \A e \in Entries : Said(e) \subseteq Values
  /\ Nothing \in [Entries -> SUBSET Values]
<1>1. ASSUME NEW e \in Entries PROVE Said(e) \subseteq Values
  <2>1. Said(e) \in {Said(f) : f \in Entries}
    OBVIOUS
  <2> QED BY <2>1 DEF Values
<1>2. Unset \in Values
  BY DEF Values
<1>3. Nothing \in [Entries -> SUBSET Values]
  BY DEF Nothing
<1> QED BY <1>1, <1>2, <1>3

\* What the items are.
LEMMA CommandFacts ==
  ASSUME NEW f \in Commands
  PROVE  /\ f[1][2] \in Channels /\ f[2] \in Values
         /\ f[1] \in Entries => f[2] \in Said(f[1])
<1>1. CASE f \in Entries \X Values /\ f[2] \in Said(f[1])
  <2>1. f[1] \in Entries /\ f[2] \in Values
    BY <1>1
  <2> QED BY <1>1, <2>1, EntryFacts
<1>2. CASE f \in ({"alive"} \X Channels) \X {Unset}
  <2>1. f[1] \in {"alive"} \X Channels /\ f[2] = Unset
    BY <1>2
  <2>2. f[1][1] = "alive" /\ f[1][2] \in Channels
    BY <2>1
  <2>3. \A e \in Entries : e[1] # "alive"
    BY FieldFacts DEF Entries
  <2> QED BY <2>1, <2>2, <2>3, ValueFacts
<1> QED BY <1>1, <1>2 DEF Commands

LEMMA ItemFacts ==
  /\ \A f \in Commands : /\ f[1][2] \in Channels /\ f[2] \in Values
                          /\ f[1] \in Entries => f[2] \in Said(f[1])
  /\ \A i \in Items : i[1] # Junk => i \in Commands
  /\ \A i \in Items : i[2] \in Values
<1>1. ASSUME NEW f \in Commands
      PROVE  /\ f[1][2] \in Channels /\ f[2] \in Values
             /\ f[1] \in Entries => f[2] \in Said(f[1])
  BY CommandFacts
<1>2. ASSUME NEW i \in Items PROVE (i[1] # Junk => i \in Commands) /\ i[2] \in Values
  BY <1>1, <1>2, ValueFacts DEF Items
<1> QED BY <1>1, <1>2

LEMMA HolderFacts ==
  /\ Nobody # Routine
  /\ \A h \in Handlers : h # Nobody /\ h # Routine
BY LinkAssumption DEF Nobody, Routine

LEMMA ShortSeqs ==
  ASSUME NEW S
  PROVE  /\ <<>> \in Seq(S)
         /\ \A x \in S : <<x>> \in Seq(S) /\ Head(<<x>>) = x /\ Tail(<<x>>) = <<>>
         /\ \A x, y \in S : <<x, y>> \in Seq(S)
OBVIOUS

-----------------------------------------------------------------------------
(* Every step keeps the invariant                                          *)

LEMMA InitLinkInv == Init => LinkInv
<1> SUFFICES ASSUME Init PROVE LinkInv
  OBVIOUS
<1> USE LinkAssumption, HolderFacts DEF Init
<1>1. TypeOK
  <2>1. 0 \in Channels
    BY DEF Channels
  <2>2. table \in [Entries -> Values] /\ sent \in [Entries -> SUBSET Values] /\ value \in Values
    BY ValueFacts
  <2>3. queue \in Seq(Items) /\ todo \in Seq(Entries)
    OBVIOUS
  <2>4. /\ mtx \in [Channels -> Handlers \cup {Routine, Nobody}]
        /\ asked \in [Handlers -> Entries \cup {Junk}]
        /\ hpc \in [Handlers -> {"idle", "want", "in"}]
    OBVIOUS
  <2> QED BY <2>1, <2>2, <2>3, <2>4 DEF TypeOK
<1>2. Pending /\ QueueInv /\ TableInv /\ SockInv
  BY DEF Pending, QueueInv, TableInv, SockInv, Writing
<1>3. LockInv
  BY DEF LockInv, LocksTaken
<1> QED BY <1>1, <1>2, <1>3 DEF LinkInv

LEMMA TopKeeps == LinkInv /\ Top => LinkInv'
<1> SUFFICES ASSUME LinkInv, Top PROVE LinkInv'
  OBVIOUS
<1> USE DEF LinkInv, Top, input, readers
<1>1. TypeOK'
  <2>1. todo' \in Seq(Entries)
    BY InitVarsFacts DEF TypeOK
  <2>2. pc' \in {"init", "crashed", "stopped"} /\ sock' \in {sock, "null"}
    OBVIOUS
  <2>3. UNCHANGED <<running, established, threw, queue, torn, sent, channel, value, writing, table,
                    mtx, asked, hpc>>
    OBVIOUS
  <2> QED BY <2>1, <2>2, <2>3 DEF TypeOK
<1>2. Pending'
  BY InitVarsFacts DEF Pending, Writing, Alive
<1>3. LockInv'
  BY DEF LockInv, Pending, Writing, LocksTaken, Alive
<1>4. TableInv'
  BY InitVarsFacts DEF TableInv
<1>5. SockInv'
  BY DEF SockInv
<1>6. QueueInv'
  BY DEF QueueInv
<1> QED BY <1>1, <1>2, <1>3, <1>4, <1>5, <1>6

LEMMA ConnectKeeps == LinkInv /\ Connect => LinkInv'
<1> SUFFICES ASSUME LinkInv, Connect PROVE LinkInv'
  OBVIOUS
<1> USE DEF LinkInv, Connect, shared, readers
<1>1. TypeOK'
  <2>1. threw' \in BOOLEAN /\ torn' \in BOOLEAN /\ sent' \in [Entries -> SUBSET Values]
    BY ValueFacts DEF TypeOK
  <2>2. queue' \in Seq(Items)
    OBVIOUS
  <2> QED BY <2>1, <2>2 DEF TypeOK
<1>2. Pending'
  BY DEF Pending, Writing, Alive
<1>3. LockInv'
  BY DEF LockInv, Pending, Writing, LocksTaken, Alive
<1>4. TableInv'
  BY DEF TableInv
<1>5. SockInv'
  BY DEF SockInv
<1>6. QueueInv'
  BY DEF QueueInv
<1> QED BY <1>1, <1>2, <1>3, <1>4, <1>5, <1>6

LEMMA PauseKeeps == LinkInv /\ Pause => LinkInv'
<1> SUFFICES ASSUME LinkInv, Pause PROVE LinkInv'
  OBVIOUS
<1> USE DEF LinkInv, Pause, link, input, shared, readers
<1>1. TypeOK'
  BY DEF TypeOK
<1>2. Pending'
  BY DEF Pending, Writing, Alive
<1>3. LockInv'
  BY DEF LockInv, Pending, Writing, LocksTaken, Alive
<1>4. TableInv'
  BY DEF TableInv
<1>5. SockInv'
  BY DEF SockInv
<1>6. QueueInv'
  BY DEF QueueInv
<1> QED BY <1>1, <1>2, <1>3, <1>4, <1>5, <1>6

LEMMA ShutdownKeeps == LinkInv /\ Shutdown => LinkInv'
<1> SUFFICES ASSUME LinkInv, Shutdown PROVE LinkInv'
  OBVIOUS
<1> USE DEF LinkInv, Shutdown, input, shared, readers
<1>1. TypeOK'
  BY DEF TypeOK
<1>2. Pending'
  BY DEF Pending, Writing, Alive
<1>3. LockInv'
  BY DEF LockInv, Pending, Writing, LocksTaken, Alive
<1>4. TableInv'
  BY DEF TableInv
<1>5. SockInv'
  BY DEF SockInv
<1>6. QueueInv'
  BY DEF QueueInv
<1> QED BY <1>1, <1>2, <1>3, <1>4, <1>5, <1>6

\* What a receive does to the queue and to what was sent.
LEMMA ReceiveFacts ==
  ASSUME LinkInv, Receive
  PROVE  /\ queue' \in Seq(Items) /\ sent' \in [Entries -> SUBSET Values] /\ torn' \in BOOLEAN
         /\ ~torn' => /\ ~torn
                      /\ \A e \in Entries : sent[e] \subseteq sent'[e]
                      /\ \A i \in DOMAIN queue' :
                           queue'[i][1] \in Entries => queue'[i][2] \in sent'[queue'[i][1]]
<1>1. CASE torn' = TRUE /\ queue' = <<>> /\ sent' = Nothing
  BY <1>1, ValueFacts, ShortSeqs
<1>2. ASSUME NEW s \in {<<>>} \cup {<<i>> : i \in Items} \cup (Items \X Items),
             ~torn, UNCHANGED torn, queue' = queue \o s,
             sent' = [e \in Entries |-> sent[e] \cup SaidIn(s, e)]
      PROVE  /\ queue' \in Seq(Items) /\ sent' \in [Entries -> SUBSET Values]
             /\ \A e \in Entries : sent[e] \subseteq sent'[e]
             /\ \A i \in DOMAIN queue' :
                  queue'[i][1] \in Entries => queue'[i][2] \in sent'[queue'[i][1]]
  <2>1. s \in Seq(Items)
    <3>1. CASE s = <<>>
      BY <3>1, ShortSeqs
    <3>2. CASE s \in {<<i>> : i \in Items}
      BY <3>2, ShortSeqs
    <3>3. CASE s \in Items \X Items
      <4>1. PICK x \in Items, y \in Items : s = <<x, y>>
        BY <3>3
      <4> QED BY <4>1, ShortSeqs
    <3> QED BY <1>2, <3>1, <3>2, <3>3
  <2>2. queue \in Seq(Items) /\ sent \in [Entries -> SUBSET Values]
    BY DEF LinkInv, TypeOK
  <2>3. queue' \in Seq(Items)
    BY <1>2, <2>1, <2>2
  <2>4. \A e \in Entries : SaidIn(s, e) \subseteq Values
    <3>1. \A i \in DOMAIN s : s[i] \in Items
      BY <2>1
    <3> QED BY <3>1, ItemFacts DEF SaidIn
  <2>5. sent' \in [Entries -> SUBSET Values] /\ \A e \in Entries : sent[e] \subseteq sent'[e]
    BY <1>2, <2>2, <2>4
  <2>6. ASSUME NEW i \in DOMAIN queue', queue'[i][1] \in Entries
        PROVE  queue'[i][2] \in sent'[queue'[i][1]]
    <3>1. \/ i \in DOMAIN queue /\ queue'[i] = queue[i]
          \/ \E j \in DOMAIN s : queue'[i] = s[j]
      BY <1>2, <2>1, <2>2
    <3>2. CASE i \in DOMAIN queue /\ queue'[i] = queue[i]
      BY <1>2, <2>5, <2>6, <3>2 DEF LinkInv, QueueInv
    <3>3. ASSUME NEW j \in DOMAIN s, queue'[i] = s[j]
          PROVE  queue'[i][2] \in sent'[queue'[i][1]]
      <4>1. s[j][2] \in SaidIn(s, s[j][1])
        BY DEF SaidIn
      <4> QED BY <1>2, <2>6, <3>3, <4>1
    <3> QED BY <3>1, <3>2, <3>3
  <2> QED BY <2>3, <2>5, <2>6
<1> QED BY <1>1, <1>2 DEF Receive, LinkInv, TypeOK

LEMMA ReceiveKeeps == LinkInv /\ Receive => LinkInv'
<1> SUFFICES ASSUME LinkInv, Receive PROVE LinkInv'
  OBVIOUS
<1> USE ReceiveFacts DEF LinkInv, Receive, link, shared, readers
<1>1. TypeOK'
  BY DEF TypeOK
<1>2. Pending'
  BY DEF Pending, Writing, Alive
<1>3. LockInv'
  BY DEF LockInv, Pending, Writing, LocksTaken, Alive
<1>4. TableInv'
  BY DEF TableInv, TypeOK
<1>5. SockInv'
  BY DEF SockInv
<1>6. QueueInv'
  BY DEF QueueInv
<1> QED BY <1>1, <1>2, <1>3, <1>4, <1>5, <1>6

LEMMA ReceiveEofKeeps == LinkInv /\ ReceiveEof => LinkInv'
<1> SUFFICES ASSUME LinkInv, ReceiveEof PROVE LinkInv'
  OBVIOUS
<1> USE DEF LinkInv, ReceiveEof, input, readers
<1>1. TypeOK'
  <2>1. todo' \in Seq(Entries)
    BY StatesFacts
  <2>2. established' = FALSE /\ pc' = "closing"
    OBVIOUS
  <2>3. UNCHANGED <<running, sock, threw, queue, torn, sent, channel, value, writing, table, mtx,
                    asked, hpc>>
    OBVIOUS
  <2> QED BY <2>1, <2>2, <2>3 DEF TypeOK
<1>2. Pending'
  BY StatesFacts DEF Pending, Writing, Alive
<1>3. LockInv'
  BY StatesFacts DEF LockInv, Pending, Writing, LocksTaken, Alive
<1>4. TableInv'
  BY DEF TableInv
<1>5. SockInv'
  BY DEF SockInv
<1>6. QueueInv'
  BY DEF QueueInv
<1> QED BY <1>1, <1>2, <1>3, <1>4, <1>5, <1>6

LEMMA ReceiveThrowsKeeps == LinkInv /\ ReceiveThrows => LinkInv'
<1> SUFFICES ASSUME LinkInv, ReceiveThrows PROVE LinkInv'
  OBVIOUS
<1> USE DEF LinkInv, ReceiveThrows, Nulled, input, shared, readers
<1>1. TypeOK'
  BY DEF TypeOK
<1>2. Pending'
  BY DEF Pending, Writing, Alive
<1>3. LockInv'
  BY DEF LockInv, Pending, Writing, LocksTaken, Alive
<1>4. TableInv'
  BY DEF TableInv
<1>5. SockInv'
  BY DEF SockInv
<1>6. QueueInv'
  BY DEF QueueInv
<1> QED BY <1>1, <1>2, <1>3, <1>4, <1>5, <1>6

\* What a turn of the drain takes, and what it leaves Routine to do.
LEMMA DrainFacts ==
  ASSUME LinkInv, Drain
  PROVE  /\ queue' \in Seq(Items) /\ channel' \in Channels /\ value' \in Values
         /\ \A i \in DOMAIN queue' : i + 1 \in DOMAIN queue /\ queue'[i] = queue[i + 1]
         /\ pc' \in {"drain", "tick", "set"} /\ todo' \in Seq(Entries)
         /\ pc' # "set" => todo' = todo
         /\ pc' = "set" => /\ todo' # <<>> /\ Head(todo')[2] = channel' /\ Tail(todo') = <<>>
                           /\ ~torn => value' \in sent[Head(todo')]
<1> USE DEF LinkInv
<1>1. queue # <<>> => Head(queue) \in Items /\ Head(queue) = queue[1] /\ 1 \in DOMAIN queue
  BY DEF TypeOK
<1>2. /\ Rest \in Seq(Items)
      /\ \A i \in DOMAIN Rest : i + 1 \in DOMAIN queue /\ Rest[i] = queue[i + 1]
  <2>1. queue \in Seq(Items)
    BY DEF TypeOK
  <2>2. CASE queue = <<>>
    BY <2>2, ShortSeqs DEF Rest
  <2>3. CASE queue # <<>>
    BY <2>1, <2>3 DEF Rest
  <2> QED BY <2>2, <2>3
<1>3. /\ queue' \in Seq(Items)
      /\ \A i \in DOMAIN queue' : i + 1 \in DOMAIN queue /\ queue'[i] = queue[i + 1]
  <2>1. queue' = Rest \/ queue' = <<>>
    BY DEF Drain, DrainFrame, DrainEnd, DrainReset
  <2>2. CASE queue' = Rest
    BY <1>2, <2>2
  <2>3. CASE queue' = <<>>
    <3>1. <<>> \in Seq(Items) /\ DOMAIN <<>> = {}
      OBVIOUS
    <3> QED BY <2>3, <3>1
  <2> QED BY <2>1, <2>2, <2>3
<1>4. ASSUME NEW f \in Found,
             channel' = f[1][2],
             IF f[1] \in Entries
               THEN todo' = <<f[1]>> /\ value' = f[2] /\ pc' = "set"
               ELSE UNCHANGED <<todo, value, pc>>
      PROVE  /\ channel' \in Channels /\ value' \in Values
             /\ pc' \in {"drain", "tick", "set"} /\ todo' \in Seq(Entries)
             /\ pc' # "set" => todo' = todo
             /\ pc' = "set" => /\ todo' # <<>> /\ Head(todo')[2] = channel'
                               /\ Tail(todo') = <<>>
                               /\ ~torn => value' \in sent[Head(todo')]
  <2>1. f \in Commands
    BY <1>1, <1>4, ItemFacts DEF Found, AtFrame
  <2>2. f[1][2] \in Channels /\ f[2] \in Values /\ pc = "drain" /\ value \in Values
    <3>1. pc = "drain" /\ value \in Values
      BY DEF TypeOK, Drain
    <3>2. f[1][2] \in Channels /\ f[2] \in Values
      BY <2>1, CommandFacts
    <3> QED BY <3>1, <3>2
  <2>3. ~torn /\ f[1] \in Entries => f[2] \in sent[f[1]]
    BY <1>1, <1>4 DEF Found, AtFrame, QueueInv
  <2>4. CASE f[1] \in Entries
    <3>1. todo' = <<f[1]>> /\ value' = f[2] /\ pc' = "set"
      BY <1>4, <2>4, Zenon
    <3>2. /\ <<f[1]>> \in Seq(Entries) /\ <<f[1]>> # <<>>
          /\ Head(<<f[1]>>) = f[1] /\ Tail(<<f[1]>>) = <<>>
      BY <2>4
    <3> QED BY <1>4, <2>2, <2>3, <2>4, <3>1, <3>2
  <2>5. CASE f[1] \notin Entries
    <3>1. todo' = todo /\ value' = value /\ pc' = pc
      BY <1>4, <2>5, Zenon
    <3>2. todo \in Seq(Entries)
      BY DEF TypeOK
    <3> QED BY <1>4, <2>2, <3>1, <3>2
  <2> QED BY <2>4, <2>5
<1>5. CASE DrainFrame
  BY <1>3, <1>4, <1>5, Zenon DEF DrainFrame
<1>6. CASE DrainEnd \/ DrainReset
  <2>1. pc' \in {"drain", "tick"} /\ todo' = todo /\ channel' = channel /\ value' = value
    BY <1>6 DEF DrainEnd, DrainReset, Drain
  <2>2. channel \in Channels /\ value \in Values /\ todo \in Seq(Entries)
    BY DEF TypeOK
  <2> QED BY <1>3, <2>1, <2>2
<1> QED BY <1>5, <1>6 DEF Drain

LEMMA DrainKeeps == LinkInv /\ Drain => LinkInv'
<1> SUFFICES ASSUME LinkInv, Drain PROVE LinkInv'
  OBVIOUS
<1>1. /\ TypeOK /\ Pending /\ LockInv /\ QueueInv /\ TableInv /\ SockInv
  BY DEF LinkInv
<1>2. /\ pc = "drain"
      /\ UNCHANGED <<running, established, sock, threw, torn, sent, writing, table, mtx, asked, hpc>>
  BY DEF Drain, link, readers
<1>3. /\ queue' \in Seq(Items) /\ channel' \in Channels /\ value' \in Values
      /\ \A i \in DOMAIN queue' : i + 1 \in DOMAIN queue /\ queue'[i] = queue[i + 1]
      /\ pc' \in {"drain", "tick", "set"} /\ todo' \in Seq(Entries)
      /\ pc' # "set" => todo' = todo
  BY DrainFacts
<1>4. pc' = "set" => /\ todo' # <<>> /\ Head(todo')[2] = channel' /\ Tail(todo') = <<>>
                     /\ ~torn => value' \in sent[Head(todo')]
  BY DrainFacts
<1>5. TypeOK'
  BY <1>1, <1>2, <1>3 DEF TypeOK
<1>6. ~writing
  BY <1>1, <1>2 DEF Pending, Writing, Alive
<1>7. Pending'
  BY <1>1, <1>2, <1>3, <1>4, <1>6 DEF Pending, Writing
<1>8. LockInv'
  BY <1>1, <1>2, <1>3, <1>4, <1>6 DEF LockInv, Alive
<1>9. TableInv' /\ SockInv'
  BY <1>1, <1>2, <1>3, <1>4 DEF TableInv, SockInv
<1>10. QueueInv'
  BY <1>1, <1>2, <1>3, <1>4 DEF QueueInv
<1> QED BY <1>5, <1>7, <1>8, <1>9, <1>10 DEF LinkInv

LEMMA TickKeeps == LinkInv /\ Tick => LinkInv'
<1> SUFFICES ASSUME LinkInv, Tick PROVE LinkInv'
  OBVIOUS
<1> USE DEF LinkInv, Tick, WhileEstablished, link, input, shared, readers
<1>1. TypeOK'
  BY DEF TypeOK
<1>2. Pending'
  BY DEF Pending, Writing, Alive
<1>3. LockInv'
  BY DEF LockInv, Pending, Writing, LocksTaken, Alive
<1>4. TableInv'
  BY DEF TableInv
<1>5. SockInv'
  BY DEF SockInv
<1>6. QueueInv'
  BY DEF QueueInv
<1> QED BY <1>1, <1>2, <1>3, <1>4, <1>5, <1>6

LEMMA WriteBeginKeeps == LinkInv /\ WriteBegin => LinkInv'
<1> SUFFICES ASSUME LinkInv, WriteBegin PROVE LinkInv'
  OBVIOUS
<1> USE DEF LinkInv, WriteBegin, link, input, readers
<1>1. TypeOK'
  BY DEF TypeOK
<1>2. Pending'
  BY DEF Pending, Writing, Alive
<1>3. LockInv'
  BY HolderFacts DEF LockInv, Pending, Writing, LocksTaken, Alive, TypeOK
<1>4. TableInv'
  BY DEF TableInv
<1>5. SockInv'
  BY DEF SockInv
<1>6. QueueInv'
  BY DEF QueueInv
<1> QED BY <1>1, <1>2, <1>3, <1>4, <1>5, <1>6

LEMMA WriteEndKeeps == LinkInv /\ WriteEnd => LinkInv'
<1> SUFFICES ASSUME LinkInv, WriteEnd PROVE LinkInv'
  OBVIOUS
<1> USE DEF LinkInv, WriteEnd, Unlocked, NewValue, input, readers
<1>0. /\ pc \in Writing /\ Head(todo) \in Entries /\ Tail(todo) \in Seq(Entries)
      /\ NewValue \in Values /\ (~torn => NewValue \in {Unset} \cup sent[Head(todo)])
  BY TodoFacts, ValueFacts DEF Pending, TypeOK, QueueInv
<1>1. TypeOK'
  <2>1. table' \in [Entries -> Values] /\ value' \in Values
    BY <1>0, ValueFacts DEF TypeOK
  <2>2. mtx' \in [Channels -> Handlers \cup {Routine, Nobody}]
    BY DEF TypeOK
  <2>3. sock' \in {sock, "null"} /\ pc' \in {pc, "connect", "drain"}
    BY DEF Nulled
  <2> QED BY <1>0, <2>1, <2>2, <2>3 DEF TypeOK
<1>2. Pending'
  BY DEF Pending, Writing, Alive
<1>3. LockInv'
  <2>1. \A c \in Channels : mtx'[c] = IF mtx[c] = Routine THEN Nobody ELSE mtx[c]
    BY DEF TypeOK
  <2>2. \A c \in Channels : mtx'[c] # Routine
    BY <2>1, HolderFacts
  <2>3. \A c \in Channels, h \in Handlers : mtx'[c] = h <=> mtx[c] = h
    BY <2>1, HolderFacts
  <2>4. pc' # "set"
    BY <1>0 DEF LockInv, Writing
  <2>5. pc' = "closing" => \A i \in DOMAIN todo' : todo'[i][1] = "state"
    <3> SUFFICES ASSUME pc' = "closing", NEW i \in DOMAIN Tail(todo)
                 PROVE  Tail(todo)[i][1] = "state"
      OBVIOUS
    <3>1. pc = "closing" /\ todo \in Seq(Entries) /\ todo # <<>>
      BY <1>0 DEF Writing, Pending, TypeOK
    <3>2. i + 1 \in DOMAIN todo /\ Tail(todo)[i] = todo[i + 1]
      BY <3>1, TodoFacts
    <3> QED BY <3>1, <3>2 DEF LockInv
  <2> QED BY <2>2, <2>3, <2>4, <2>5 DEF LockInv
<1>4. TableInv'
  <2>1. \A e \in Entries : table'[e] = IF e = Head(todo) THEN NewValue ELSE table[e]
    BY DEF TypeOK
  <2>2. ~torn' => \A e \in Entries : table'[e] \in {Unset} \cup sent'[e]
    BY <1>0, <2>1 DEF TableInv
  <2>3. ASSUME pc = "init", NEW e \in Entries
        PROVE  table'[e] = Unset \/ \E i \in DOMAIN Tail(todo) : Tail(todo)[i] = e
    <3>1. CASE table[e] = Unset \/ e = Head(todo)
      BY <2>1, <2>3, <3>1
    <3>2. CASE table[e] # Unset /\ e # Head(todo)
      <4>1. PICK i \in DOMAIN todo : todo[i] = e
        BY <2>3, <3>2 DEF TableInv
      <4>2. i # 1 /\ todo \in Seq(Entries) /\ todo # <<>>
        BY <1>0, <3>2, <4>1, TodoFacts DEF Pending, TypeOK
      <4> QED BY <4>1, <4>2, TodoFacts
    <3> QED BY <3>1, <3>2
  <2>4. pc' = "init" => \A e \in Entries :
          table'[e] = Unset \/ \E i \in DOMAIN todo' : todo'[i] = e
    BY <1>0, <2>3 DEF Writing
  <2>5. pc' = "connect" => \A e \in Entries : table'[e] = Unset
    <3>1. pc' = "connect" => pc = "init" /\ Tail(todo) = <<>>
      BY <1>0 DEF Writing
    <3> QED BY <2>3, <3>1
  <2> QED BY <2>2, <2>4, <2>5 DEF TableInv
<1>5. SockInv'
  BY <1>0 DEF SockInv, Writing, Nulled
<1>6. QueueInv'
  <2>1. pc' # "set"
    BY <1>0 DEF LockInv, Writing
  <2> QED BY <2>1 DEF QueueInv
<1> QED BY <1>1, <1>2, <1>3, <1>4, <1>5, <1>6

LEMMA AskKeeps ==
  ASSUME NEW h \in Handlers, NEW e \in Entries, LinkInv, Ask(h, e)
  PROVE  LinkInv'
<1> USE DEF LinkInv, Ask, link, input, shared
<1>1. TypeOK'
  BY DEF TypeOK
<1>2. LockInv'
  BY DEF LockInv, TypeOK, LocksTaken, Alive
<1>3. Pending' /\ QueueInv' /\ TableInv' /\ SockInv'
  BY DEF Pending, Writing, Alive, QueueInv, TableInv, SockInv
<1> QED BY <1>1, <1>2, <1>3

LEMMA LockKeeps ==
  ASSUME NEW h \in Handlers, LinkInv, Lock(h)
  PROVE  LinkInv'
<1> USE DEF LinkInv, Lock, link, input
<1>1. asked[h] \in Entries /\ asked[h][2] \in Channels
  BY EntryFacts DEF LockInv
<1>2. TypeOK'
  BY <1>1 DEF TypeOK
<1>3. LockInv'
  BY <1>1, HolderFacts DEF LockInv, TypeOK, LocksTaken, Alive
<1>4. Pending' /\ QueueInv' /\ TableInv' /\ SockInv'
  BY DEF Pending, Writing, Alive, QueueInv, TableInv, SockInv
<1> QED BY <1>2, <1>3, <1>4

LEMMA CopyKeeps ==
  ASSUME NEW h \in Handlers, LinkInv, Copy(h)
  PROVE  LinkInv'
<1> USE DEF LinkInv, Copy, link, input
<1>1. asked[h] \in Entries /\ asked[h][2] \in Channels
  BY EntryFacts DEF LockInv
<1>2. pc' \in {pc, "crashed"}
  OBVIOUS
<1>3. TypeOK'
  BY <1>1, <1>2 DEF TypeOK
<1>4. LockInv'
  BY <1>1, <1>2, HolderFacts DEF LockInv, TypeOK, LocksTaken, Alive
<1>5. Pending' /\ QueueInv' /\ TableInv' /\ SockInv'
  BY <1>2 DEF Pending, Writing, Alive, QueueInv, TableInv, SockInv
<1> QED BY <1>3, <1>4, <1>5

LEMMA StepKeeps == LinkInv /\ [Next]_vars => LinkInv'
<1> SUFFICES ASSUME LinkInv, [Next]_vars PROVE LinkInv'
  OBVIOUS
<1>1. ASSUME RoutineStep PROVE LinkInv'
  BY <1>1, TopKeeps, ConnectKeeps, PauseKeeps, ReceiveKeeps, ReceiveEofKeeps,
     ReceiveThrowsKeeps, DrainKeeps, TickKeeps, WriteBeginKeeps, WriteEndKeeps DEF RoutineStep
<1>2. ASSUME NEW h \in Handlers, HandlerStep(h) PROVE LinkInv'
  BY <1>2, AskKeeps, LockKeeps, CopyKeeps DEF HandlerStep
<1>3. ASSUME UNCHANGED vars PROVE LinkInv'
  BY <1>3 DEF vars, link, input, shared, readers, LinkInv, TypeOK, Pending, LockInv, QueueInv,
              TableInv, SockInv, Writing, Alive, LocksTaken
<1> QED BY <1>1, <1>2, <1>3, ShutdownKeeps DEF Next, Ended

LEMMA LinkExcludes == LinkInv => WritesExcluded
<1> SUFFICES ASSUME LinkInv PROVE WritesExcluded
  OBVIOUS
<1>1. \A c \in Channels : \A h \in Handlers :
        mtx[c] = h <=> (hpc[h] = "in" /\ asked[h][2] = c)
  BY DEF LinkInv, LockInv
<1>2. ASSUME NEW h \in Handlers, Alive, hpc[h] = "in", Overlaps(asked[h])
      PROVE  pc = "init" \/ (pc = "closing" /\ asked[h][1] = "state")
  <2>1. writing /\ Head(todo) = asked[h]
    BY <1>2 DEF Overlaps
  <2>2. pc \in Writing /\ todo # <<>> /\ todo \in Seq(Entries)
    BY <1>2, <2>1 DEF LinkInv, Pending, TypeOK
  <2>3. asked[h][2] \in Channels
    BY <1>2, EntryFacts DEF LinkInv, LockInv
  <2>4. CASE pc = "set"
    <3>1. asked[h][2] = channel
      BY <2>1, <2>4 DEF LinkInv, LockInv
    <3>2. mtx[channel] = Routine
      BY <1>2, <2>1, <2>3, <2>4, <3>1 DEF LinkInv, LockInv, LocksTaken
    <3>3. mtx[channel] = h
      BY <1>1, <1>2, <2>3, <3>1
    <3> QED BY <3>2, <3>3, HolderFacts
  <2>5. CASE pc = "closing"
    <3>1. 1 \in DOMAIN todo /\ Head(todo) = todo[1]
      BY <2>2
    <3> QED BY <2>1, <2>5, <3>1 DEF LinkInv, LockInv
  <2> QED BY <2>2, <2>4, <2>5 DEF Writing
<1> QED BY <1>1, <1>2 DEF WritesExcluded

-----------------------------------------------------------------------------
(* The theorems about TR4Link                                              *)

\* The inductive invariant holds in every state that Routine and the handlers reach.
THEOREM Inductive == Spec => []LinkInv
<1>1. Init => LinkInv
  BY InitLinkInv
<1>2. LinkInv /\ [Next]_vars => LinkInv'
  BY StepKeeps
<1> QED BY <1>1, <1>2, PTL DEF Spec

\* InitVars leaves no entry of an earlier connection, whatever ended that one and however
\* far out of step it was, and from then on the table holds only what frames of the new
\* one said, for as long as a receive does not put the byte queue out of step.
THEOREM TableOfConnection == Spec => []CurrentConnectionOnly
<1>1. LinkInv => CurrentConnectionOnly
  BY DEF LinkInv, TableInv, CurrentConnectionOnly
<1> QED BY <1>1, Inductive, PTL

\* No handler copies an entry while Routine writes it, but for InitVars and the loop at
\* n == 0; and a mutex is held by a handler exactly as long as it copies.
THEOREM Exclusion == Spec => []WritesExcluded
BY LinkExcludes, Inductive, PTL

\* Routine receives on an open socket and connects with none open, so that none is leaked;
\* and it points at a deleted one only after setBlocking threw.
THEOREM SocketLife == Spec => []SocketMatches
<1>1. LinkInv => SocketMatches
  BY DEF LinkInv, SockInv, SocketMatches
<1> QED BY <1>1, Inductive, PTL

\* A mutex that is taken is taken by a thread whose next step gives it back: Routine in
\* the middle of a write, or a handler in the middle of its copy.  None of them waits.
HoldersGoOn ==
  Alive => \A c \in Channels :
    \/ mtx[c] = Nobody
    \/ mtx[c] = Routine /\ writing /\ todo # <<>>
    \/ \E h \in Handlers : mtx[c] = h /\ hpc[h] = "in" /\ asked[h][2] = c

LEMMA LinkGoesOn == LinkInv => HoldersGoOn
<1> SUFFICES ASSUME LinkInv, Alive, NEW c \in Channels
             PROVE  \/ mtx[c] = Nobody
                    \/ mtx[c] = Routine /\ writing /\ todo # <<>>
                    \/ \E h \in Handlers : mtx[c] = h /\ hpc[h] = "in" /\ asked[h][2] = c
  BY DEF HoldersGoOn
<1>1. mtx[c] \in Handlers \cup {Routine, Nobody}
  BY DEF LinkInv, TypeOK
<1>2. mtx[c] = Routine => writing /\ todo # <<>>
  BY DEF LinkInv, LockInv, Pending
<1>3. \A h \in Handlers : mtx[c] = h => hpc[h] = "in" /\ asked[h][2] = c
  BY DEF LinkInv, LockInv
<1> QED BY <1>1, <1>2, <1>3

\* No thread waits for one that waits: the mutexes of the channels cannot end in a
\* deadlock, for any number of channels and handlers.
THEOREM NoDeadlock == Spec => []HoldersGoOn
BY LinkGoesOn, Inductive, PTL

-----------------------------------------------------------------------------
(* Bridge: types, and what a handler's copies may hold                     *)


Seen == Values \cup {None, Torn}

BTypeOK ==
  /\ turn \in [Handlers -> Turns]
  /\ got \in [Handlers -> Seen]
  /\ last \in [Handlers -> [Entries -> Seen]]
  /\ view \in [Handlers -> [Entries -> Seen]]
  /\ missed \in [Handlers -> SUBSET Entries]
  /\ looked \in [Handlers -> SUBSET Entries]

\* A handler has a copy or is on its way to one, of the entry it visits; what it takes
\* for sent was sent, unless the send threw.
Coupled ==
  \A h \in Handlers :
    /\ hpc[h] # "idle" => asked[h] = Visited(h) /\ got[h] = None
    /\ \A e \in Entries : e \in Untold(h) \/ view[h][e] = last[h][e]

\* What an entry copied since InitVars may hold: nothing, until a connection is made.
Current(e) == {Unset} \cup IF pc = "connect" THEN {} ELSE sent[e]

Fresh ==
  \A h \in Handlers :
    /\ pc = "init" => looked[h] = {}
    /\ pc = "connect" \/ ~torn => \A e \in looked[h] :
         IF got[h] # None /\ e = Visited(h) THEN got[h] \in Current(e)
         ELSE e \in Untold(h) \/ view[h][e] \in Current(e)

BridgeInv == LinkInv /\ BTypeOK /\ Coupled /\ Fresh

-----------------------------------------------------------------------------
(* The round of the entries                                                *)

LEMMA RoundFacts ==
  /\ \A t \in Turns : Round[t] \in Entries
  /\ Len(Kinds) * ChannelCount \in Turns
  /\ \A t \in Turns : NextTurn(t) \in Turns
<1> USE LinkAssumption
<1> DEFINE L == Len(Kinds)
<1>1. PICK n \in 0 .. 2 : n = Len(Strings)
  <2>1. PICK n \in Nat : n = Len(Strings)
    OBVIOUS
  <2>2. n \in 0 .. 2
    BY <2>1
  <2> QED BY <2>1, <2>2
<1>2. L = n + 1
  BY <1>1 DEF Kinds
<1>3. L \in {1, 2, 3}
  BY <1>2
<1>4. \A k \in 1 .. L : \E i \in DOMAIN Fields : Kinds[k] = Fields[i]
  <2> SUFFICES ASSUME NEW k \in 1 .. L PROVE \E i \in DOMAIN Fields : Kinds[k] = Fields[i]
    OBVIOUS
  <2>1. CASE k = L
    BY <1>1, <1>2, <2>1, FieldFacts DEF Kinds
  <2>2. CASE k # L
    <3>1. k \in 1 .. n /\ k + 1 \in DOMAIN Fields
      BY <1>1, <1>2, <2>2 DEF Fields
    <3>2. Kinds[k] = Strings[k] /\ Fields[k + 1] = Strings[k]
      BY <1>1, <1>2, <3>1 DEF Kinds, Fields
    <3> QED BY <3>1, <3>2
  <2> QED BY <2>1, <2>2
<1>5. L * ChannelCount \in Nat /\ L * ChannelCount >= 1
  <2>1. \A l \in {1, 2, 3}, c \in Nat \ {0} : l * c \in Nat /\ l * c >= 1
    OBVIOUS
  <2> QED BY <1>3, <2>1
<1>6. ASSUME NEW t \in Turns PROVE Round[t] \in Entries
  <2>1. 1 + (t - 1) \div ChannelCount \in 1 .. L /\ (t - 1) % ChannelCount \in Channels
    BY <1>3, <1>6 DEF Turns, Channels
  <2>2. Round[t] = <<Kinds[1 + (t - 1) \div ChannelCount], (t - 1) % ChannelCount>>
    BY <1>6 DEF Round
  <2> QED BY <1>4, <2>1, <2>2 DEF Entries
<1>7. \A t \in Turns : NextTurn(t) \in Turns
  BY <1>5 DEF Turns, NextTurn
<1> QED BY <1>5, <1>6, <1>7 DEF Turns

-----------------------------------------------------------------------------
(* Every step is a step of TR4Link, and keeps the invariant                *)

LEMMA BridgeIsLink == BTypeOK /\ [BNext]_bvars => [Next]_vars
<1> SUFFICES ASSUME BTypeOK, [BNext]_bvars PROVE [Next]_vars
  OBVIOUS
<1>1. CASE Thread
  BY <1>1 DEF Thread, Next
<1>2. ASSUME NEW h \in Handlers, Turn(h) PROVE Next
  BY <1>2, RoundFacts DEF Turn, BTypeOK, Next, HandlerStep
<1>3. ASSUME NEW h \in Handlers, Locks(h) \/ Read(h) PROVE Next
  BY <1>3 DEF Locks, Read, Next, HandlerStep
<1> QED BY <1>1, <1>2, <1>3 DEF BNext, Signal, End, AllOver, bvars

LEMMA InitBridgeInv == BInit => BridgeInv
<1> SUFFICES ASSUME BInit PROVE BridgeInv
  OBVIOUS
<1>1. LinkInv
  BY InitLinkInv DEF BInit
<1>2. BTypeOK
  BY RoundFacts, LinkAssumption, ValueFacts DEF BInit, BTypeOK, Seen
<1>3. Coupled
  BY DEF BInit, Init, Coupled
<1>4. Fresh
  BY DEF BInit, Fresh
<1> QED BY <1>1, <1>2, <1>3, <1>4 DEF BridgeInv

\* What a step of the TR4 thread does to what the browsers are compared with.
LEMMA ThreadFacts ==
  ASSUME LinkInv, RoutineStep \/ Shutdown
  PROVE  /\ UNCHANGED <<asked, hpc>>
         /\ pc' = "connect" => pc \in {"init", "connect"}
         /\ ~torn' => ~torn \/ pc = "connect"
         /\ ~torn' /\ pc # "connect" => \A e \in Entries : sent[e] \subseteq sent'[e]
<1> USE DEF link, input, shared, readers
<1>1. CASE Top \/ Connect \/ Pause \/ Shutdown
  BY <1>1 DEF Top, Connect, Pause, Shutdown
<1>2. CASE Receive
  BY <1>2, ReceiveFacts DEF Receive
<1>3. CASE ReceiveEof \/ ReceiveThrows \/ Tick
  BY <1>3 DEF ReceiveEof, ReceiveThrows, Tick, WhileEstablished
<1>4. CASE Drain
  <2>1. pc' # "connect"
    <3>1. pc' \in {"drain", "tick", "set"}
      BY <1>4, DrainFacts
    <3> QED BY <3>1
  <2> QED BY <1>4, <2>1 DEF Drain
<1>5. CASE WriteBegin \/ WriteEnd
  BY <1>5 DEF WriteBegin, WriteEnd, LinkInv, Pending, Writing
<1> QED BY <1>1, <1>2, <1>3, <1>4, <1>5 DEF RoutineStep

LEMMA ThreadKeeps == BridgeInv /\ Thread => BTypeOK' /\ Coupled' /\ Fresh'
<1> SUFFICES ASSUME BridgeInv, Thread PROVE BTypeOK' /\ Coupled' /\ Fresh'
  OBVIOUS
<1> USE DEF BridgeInv
<1>1. /\ UNCHANGED <<asked, hpc, turn, got, last, view, missed>>
      /\ pc' = "connect" => pc \in {"init", "connect"}
      /\ ~torn' => ~torn \/ pc = "connect"
      /\ ~torn' /\ pc # "connect" => \A e \in Entries : sent[e] \subseteq sent'[e]
      /\ looked' = IF pc' = "init" THEN [h \in Handlers |-> {}] ELSE looked
  BY ThreadFacts DEF Thread
<1>2. BTypeOK'
  BY <1>1 DEF BTypeOK
<1>3. Coupled'
  BY <1>1 DEF Coupled, Visited, Untold
<1>4. ASSUME NEW h \in Handlers PROVE pc' = "init" => looked'[h] = {}
  BY <1>1
<1>5. ASSUME NEW h \in Handlers, pc' = "connect" \/ ~torn', NEW e \in looked'[h]
      PROVE  IF got'[h] # None /\ e = Visited(h)' THEN got'[h] \in Current(e)'
             ELSE e \in Untold(h)' \/ view'[h][e] \in Current(e)'
  <2>1. pc' # "init" /\ looked' = looked
    BY <1>1, <1>4, <1>5
  <2>2. pc # "init" /\ e \in Entries
    BY <1>5, <2>1 DEF Fresh, BTypeOK
  <2>3. pc = "connect" \/ ~torn
    BY <1>1, <1>5, <2>2
  <2>4. Current(e) \subseteq Current(e)'
    BY <1>1, <1>5, <2>2 DEF Current
  <2> QED BY <1>1, <1>5, <2>1, <2>3, <2>4 DEF Fresh, Visited, Untold
<1> QED BY <1>2, <1>3, <1>4, <1>5 DEF Fresh

LEMMA TurnKeeps ==
  ASSUME BridgeInv, NEW h \in Handlers, Turn(h)
  PROVE  BTypeOK' /\ Coupled' /\ Fresh'
<1> USE DEF BridgeInv
<1>1. /\ got[h] = None /\ hpc[h] = "idle"
      /\ turn' = [turn EXCEPT ![h] = NextTurn(turn[h])]
      /\ hpc' = [hpc EXCEPT ![h] = "want"]
      /\ asked' = [asked EXCEPT ![h] = Round[NextTurn(turn[h])]]
      /\ UNCHANGED <<pc, torn, sent, got, last, view, missed, looked>>
  BY DEF Turn, Ask, input
<1>2. BTypeOK'
  BY <1>1, RoundFacts DEF BTypeOK
<1>3. Coupled'
  BY <1>1 DEF Coupled, Visited, Untold, BTypeOK, LinkInv, TypeOK
<1>4. Fresh'
  BY <1>1 DEF Fresh, Visited, Untold, BTypeOK, Current
<1> QED BY <1>2, <1>3, <1>4

LEMMA LocksKeeps ==
  ASSUME BridgeInv, NEW h \in Handlers, Locks(h)
  PROVE  BTypeOK' /\ Coupled' /\ Fresh'
<1> USE DEF BridgeInv
<1>1. /\ hpc[h] = "want" /\ hpc' = [hpc EXCEPT ![h] = "in"]
      /\ UNCHANGED <<pc, torn, sent, asked, turn, got, last, view, missed, looked>>
  BY DEF Locks, Lock, input, hvars
<1>2. BTypeOK'
  BY <1>1 DEF BTypeOK
<1>3. Coupled'
  BY <1>1 DEF Coupled, Visited, Untold, LinkInv, TypeOK
<1>4. Fresh'
  BY <1>1 DEF Fresh, Visited, Untold, Current
<1> QED BY <1>2, <1>3, <1>4

\* A copy that can go wrong is one of InitVars' writes, of a string.
LEMMA RacesFacts ==
  ASSUME LinkInv, NEW h \in Handlers, Alive, hpc[h] = "in", Races(asked[h])
  PROVE  pc = "init" /\ asked[h] \in FragileEntries /\ NewValue = Unset
<1>1. WritesExcluded
  BY LinkExcludes
<1>2. asked[h] \in Entries
  BY DEF LinkInv, LockInv
<1>3. asked[h][1] # "state" /\ Overlaps(asked[h])
  BY DEF Races
<1>4. pc = "init"
  BY <1>1, <1>3 DEF WritesExcluded
<1> QED BY <1>2, <1>3, <1>4 DEF FragileEntries, NewValue

\* What a copy comes to.
LEMMA ReadFacts ==
  ASSUME BridgeInv, NEW h \in Handlers, Read(h)
  PROVE  /\ asked[h] = Visited(h) /\ got[h] = None /\ asked[h] \in Entries
         /\ \/ pc = "init" /\ pc' = "crashed" /\ UNCHANGED got
            \/ /\ UNCHANGED pc
               /\ \E v \in Reads(asked[h]) : v \in Seen \ {None} /\ got' = [got EXCEPT ![h] = v]
         /\ pc # "init" => Reads(asked[h]) = {table[asked[h]]}
<1>1. Alive /\ hpc[h] = "in" /\ pc' \in IF Races(asked[h]) THEN {pc, "crashed"} ELSE {pc}
  BY DEF Read, Copy
<1>2. asked[h] = Visited(h) /\ got[h] = None /\ asked[h] \in Entries
  BY <1>1 DEF BridgeInv, Coupled, LinkInv, LockInv
<1>3. Races(asked[h]) => pc = "init" /\ NewValue = Unset
  BY <1>1, RacesFacts DEF BridgeInv
<1>4. table[asked[h]] \in Values
  BY <1>2 DEF BridgeInv, LinkInv, TypeOK
<1>5. Reads(asked[h]) \subseteq Seen \ {None}
  BY <1>3, <1>4, ValueFacts, UnspokenAssumption DEF Reads, Seen, None, Torn
<1>6. CASE pc' = "crashed"
  BY <1>1, <1>2, <1>3, <1>6 DEF Read, Alive, Reads
<1>7. CASE pc' # "crashed"
  <2>1. PICK v \in Reads(asked[h]) : got' = [got EXCEPT ![h] = v]
    BY <1>7 DEF Read
  <2> QED BY <1>1, <1>2, <1>3, <1>5, <1>7, <2>1 DEF Reads
<1> QED BY <1>6, <1>7

LEMMA ReadKeeps ==
  ASSUME BridgeInv, NEW h \in Handlers, Read(h)
  PROVE  BTypeOK' /\ Coupled' /\ Fresh'
<1> USE DEF BridgeInv
<1>1. /\ asked' = [asked EXCEPT ![h] = Junk] /\ hpc' = [hpc EXCEPT ![h] = "idle"]
      /\ looked' = IF pc = "init" THEN looked ELSE [looked EXCEPT ![h] = @ \cup {asked[h]}]
      /\ UNCHANGED <<torn, sent, turn, last, view, missed>>
  BY DEF Read, Copy, input
<1>2. asked[h] = Visited(h) /\ got[h] = None /\ asked[h] \in Entries
  BY ReadFacts
<1>3. CASE pc = "init" /\ pc' = "crashed" /\ UNCHANGED got
  BY <1>1, <1>3 DEF BTypeOK, Coupled, Fresh, Visited, Untold, LinkInv, TypeOK
<1>4. ASSUME UNCHANGED pc, NEW v \in Reads(asked[h]), v \in Seen \ {None},
             got' = [got EXCEPT ![h] = v]
      PROVE  BTypeOK' /\ Coupled' /\ Fresh'
  <2>1. BTypeOK'
    BY <1>1, <1>2, <1>4 DEF BTypeOK
  <2>2. Coupled'
    BY <1>1, <1>4 DEF Coupled, Visited, Untold, BTypeOK, LinkInv, TypeOK
  <2>3. (pc = "connect" \/ ~torn) /\ pc # "init" => v \in Current(asked[h])
    <3>1. pc # "init" => v = table[asked[h]]
      BY <1>4, ReadFacts
    <3> QED BY <1>2, <3>1 DEF Current, LinkInv, TableInv
  <2>4. Fresh'
    BY <1>1, <1>2, <1>4, <2>3 DEF Fresh, Current, Visited, Untold, BTypeOK
  <2> QED BY <2>1, <2>2, <2>4
<1> QED BY <1>3, <1>4, ReadFacts

\* What a round of the comparison and the send comes to, for the entry that h visits.
LEMMA SignalFacts ==
  ASSUME BridgeInv, NEW h \in Handlers, Signal(h)
  PROVE  /\ Visited(h) \in Entries /\ got[h] \in Seen \ {None} /\ hpc[h] = "idle"
         /\ got' = [got EXCEPT ![h] = None]
         /\ UNCHANGED <<pc, torn, sent, table, asked, hpc, turn, looked>>
         /\ BTypeOK'
         /\ \A g \in Handlers : \A e \in Entries : g # h \/ e # Visited(h) =>
              view'[g][e] = view[g][e] /\ last'[g][e] = last[g][e]
                /\ (e \in missed'[g] <=> e \in missed[g])
         /\ Visited(h) \in Untold(h)' \/ view'[h][Visited(h)] = got[h]
         /\ Visited(h) \in Untold(h)' \/ view'[h][Visited(h)] = last'[h][Visited(h)]
<1> USE DEF BridgeInv, Signal, Kept, Told
<1> DEFINE e == Visited(h)
<1>1. /\ got[h] \in Seen \ {None} /\ e \in Entries /\ hpc[h] = "idle"
      /\ got' = [got EXCEPT ![h] = None]
      /\ UNCHANGED <<pc, torn, sent, table, asked, hpc, turn, looked>>
  BY RoundFacts DEF BTypeOK, Coupled, Visited, vars, input, shared, readers, LinkInv, TypeOK
<1>2. CASE got[h] = last[h][e] /\ UNCHANGED <<last, view, missed>>
  BY <1>1, <1>2 DEF BTypeOK, Coupled, Untold, Seen
<1>3. CASE /\ last' = [last EXCEPT ![h] = [@ EXCEPT ![e] = got[h]]]
           /\ view' = [view EXCEPT ![h] = [@ EXCEPT ![e] = Told(h)]]
           /\ missed' = [missed EXCEPT ![h] = @ \ {e}]
  <2>1. Told(h) \in Seen /\ (Silent(e, got[h]) \/ Told(h) = got[h])
    BY <1>1 DEF BTypeOK
  <2>2. BTypeOK'
    <3>1. \A S : \A f \in [Handlers -> [Entries -> S]] : \A x \in S :
            [f EXCEPT ![h] = [@ EXCEPT ![e] = x]] \in [Handlers -> [Entries -> S]]
      BY <1>1
    <3>2. last' \in [Handlers -> [Entries -> Seen]] /\ view' \in [Handlers -> [Entries -> Seen]]
      BY <1>1, <1>3, <2>1, <3>1 DEF BTypeOK
    <3> QED BY <1>1, <1>3, <3>2 DEF BTypeOK, Seen
  <2>3. last'[h][e] = got[h] /\ view'[h][e] = Told(h)
    BY <1>1, <1>3 DEF BTypeOK
  <2>4. Silent(e, got[h]) => e \in Untold(h)'
    BY <1>1, <2>3 DEF Untold, Silent
  <2> QED BY <1>1, <1>3, <2>1, <2>2, <2>3, <2>4 DEF BTypeOK
<1>4. CASE /\ last' = [last EXCEPT ![h] = [@ EXCEPT ![e] = got[h]]]
           /\ missed' = [missed EXCEPT ![h] = @ \cup {e}]
           /\ UNCHANGED view
  <2>1. e \in Untold(h)'
    BY <1>1, <1>4 DEF BTypeOK, Untold
  <2>2. last' \in [Handlers -> [Entries -> Seen]]
    BY <1>1, <1>4 DEF BTypeOK
  <2>3. BTypeOK'
    BY <1>1, <1>4, <2>2 DEF BTypeOK, Seen
  <2> QED BY <1>1, <1>4, <2>1, <2>3 DEF BTypeOK
<1> QED BY <1>2, <1>3, <1>4

LEMMA SignalKeeps ==
  ASSUME BridgeInv, NEW h \in Handlers, Signal(h)
  PROVE  BTypeOK' /\ Coupled' /\ Fresh'
<1> USE DEF BridgeInv
<1>1. \A g \in Handlers : \A e \in Entries : g # h \/ e # Visited(h) =>
        (e \in Untold(g)' <=> e \in Untold(g))
  BY SignalFacts DEF Untold
<1>2. Coupled'
  BY <1>1, SignalFacts DEF Coupled, Visited, BTypeOK
<1>3. ASSUME NEW g \in Handlers, pc = "connect" \/ ~torn, NEW e \in looked[g]
      PROVE  IF got'[g] # None /\ e = Visited(g)' THEN got'[g] \in Current(e)'
             ELSE e \in Untold(g)' \/ view'[g][e] \in Current(e)'
  <2>1. e \in Entries /\ Current(e)' = Current(e) /\ Visited(g)' = Visited(g)
    BY SignalFacts DEF BTypeOK, Current, Visited
  <2>2. IF got[g] # None /\ e = Visited(g) THEN got[g] \in Current(e)
        ELSE e \in Untold(g) \/ view[g][e] \in Current(e)
    BY <1>3 DEF Fresh
  <2>3. CASE g = h /\ e = Visited(h)
    BY <2>1, <2>2, <2>3, SignalFacts DEF BTypeOK
  <2>4. CASE g # h \/ e # Visited(h)
    BY <1>1, <2>1, <2>2, <2>4, SignalFacts DEF BTypeOK
  <2> QED BY <2>3, <2>4
<1>4. Fresh'
  BY <1>3, SignalFacts DEF Fresh
<1> QED BY <1>2, <1>4, SignalFacts

LEMMA BridgeStepKeeps == BridgeInv /\ [BNext]_bvars => BridgeInv'
<1> SUFFICES ASSUME BridgeInv, [BNext]_bvars PROVE BridgeInv'
  OBVIOUS
<1>1. LinkInv'
  BY BridgeIsLink, StepKeeps DEF BridgeInv
<1>2. ASSUME UNCHANGED bvars PROVE BTypeOK' /\ Coupled' /\ Fresh'
  <2>1. UNCHANGED <<pc, torn, sent, asked, hpc, turn, got, last, view, missed, looked>>
    BY <1>2 DEF bvars, vars, input, readers, hvars
  <2>2. BTypeOK'
    BY <2>1 DEF BridgeInv, BTypeOK
  <2>3. Coupled'
    BY <2>1 DEF BridgeInv, Coupled, Visited, Untold
  <2>4. Fresh'
    BY <2>1 DEF BridgeInv, Fresh, Current, Visited, Untold
  <2> QED BY <2>2, <2>3, <2>4
<1>3. ASSUME NEW h \in Handlers, End(h) PROVE BTypeOK' /\ Coupled' /\ Fresh'
  BY <1>3 DEF End, vars, input, readers, BridgeInv, BTypeOK, Coupled, Fresh, Current, Visited, Untold
<1>4. BTypeOK' /\ Coupled' /\ Fresh'
  BY <1>2, <1>3, ThreadKeeps, TurnKeeps, LocksKeeps, ReadKeeps, SignalKeeps
     DEF BNext, AllOver, BridgeInv
<1> QED BY <1>1, <1>4 DEF BridgeInv

-----------------------------------------------------------------------------
(* The theorems about Bridge                                               *)

THEOREM BridgeInductive == BSpec => []BridgeInv
<1>1. BInit => BridgeInv
  BY InitBridgeInv
<1>2. BridgeInv /\ [BNext]_bvars => BridgeInv'
  BY BridgeStepKeeps
<1> QED BY <1>1, <1>2, PTL DEF BSpec

\* In step, what a browser is shown of an entry that was copied since a connection was made
\* is what that connection said of it, and no torn string, unless it was not told.
THEOREM NothingOlderShown == BSpec => []NothingOlder
<1>1. BridgeInv => NothingOlder
  BY DEF BridgeInv, Fresh, Current, NothingOlder
<1> QED BY <1>1, BridgeInductive, PTL

-----------------------------------------------------------------------------
(* A browser that shows an entry right goes on showing it right            *)

\* h's browser shows e as the table has it, or the message was lost, or there are no words
\* for it; and h is not about to tell it anything else.
Settled(h, e) ==
  /\ e \in missed[h] \/ Silent(e, table[e]) \/ view[h][e] = table[e]
  /\ got[h] # None /\ Visited(h) = e => got[h] = table[e]

\* An entry that is settled stays so until the table changes, or is about to while a
\* copy races with it; and a copy that is the table's value settles it when it is told,
\* also where last says that there is nothing to tell.
SettlingStep ==
  \A h \in Handlers, e \in Entries :
    /\ Settled(h, e) /\ table'[e] = table[e] /\ ~Races(e) => Settled(h, e)'
    /\ Signal(h) /\ e = Visited(h) /\ got[h] = table[e] => Settled(h, e)'

LEMMA ThreadSettles ==
  ASSUME NEW h \in Handlers, NEW e \in Entries, UNCHANGED <<turn, got, view, missed>>,
         Settled(h, e), table'[e] = table[e]
  PROVE  Settled(h, e)'
BY DEF Settled, Visited

LEMMA ReadSettles ==
  ASSUME BridgeInv, NEW g \in Handlers, Read(g), NEW h \in Handlers, NEW e \in Entries,
         Settled(h, e), ~Races(e)
  PROVE  Settled(h, e)'
<1>1. UNCHANGED <<table, turn, view, missed>>
  BY DEF Read, Copy
<1>2. asked[g] = Visited(g)
  BY ReadFacts
<1>3. CASE UNCHANGED got
  BY <1>1, <1>3, ThreadSettles
<1>4. ASSUME NEW v \in Reads(asked[g]), got' = [got EXCEPT ![g] = v]
      PROVE  Settled(h, e)'
  <2>1. CASE h = g /\ e = Visited(g)
    <3>1. v = table[e]
      BY <1>2, <1>4, <2>1 DEF Reads
    <3> QED BY <1>1, <1>4, <2>1, <3>1 DEF Settled, Visited, BridgeInv, BTypeOK
  <2>2. CASE h # g
    BY <1>1, <1>4, <2>2 DEF Settled, Visited, BridgeInv, BTypeOK
  <2>3. CASE e # Visited(h)
    BY <1>1, <1>4, <2>3 DEF Settled, Visited
  <2> QED BY <2>1, <2>2, <2>3
<1> QED BY <1>3, <1>4, ReadFacts

\* What h tells of an entry is what it got of it.
LEMMA SignalSettles ==
  ASSUME BridgeInv, NEW h \in Handlers, Signal(h), NEW e \in Entries, e = Visited(h),
         got[h] = table[e]
  PROVE  Settled(h, e)'
<1>1. got'[h] = None /\ UNCHANGED <<table, turn>>
  BY SignalFacts DEF BridgeInv, BTypeOK
<1>2. e \in missed'[h] \/ Silent(e, table[e]) \/ view'[h][e] = table[e]
  <2>1. last'[h][e] = got[h]
    BY DEF Signal, Kept, BridgeInv, BTypeOK
  <2>2. e \in Untold(h)' => e \in missed'[h] \/ Silent(e, last'[h][e])
    BY DEF Untold, Silent
  <2> QED BY <2>1, <2>2, SignalFacts
<1> QED BY <1>1, <1>2 DEF Settled, Visited, Silent

LEMMA SignalLeaves ==
  ASSUME BridgeInv, NEW g \in Handlers, Signal(g), NEW h \in Handlers, NEW e \in Entries,
         Settled(h, e)
  PROVE  Settled(h, e)'
<1>1. CASE h = g /\ e = Visited(g)
  BY <1>1, SignalSettles, SignalFacts DEF Settled
<1>2. CASE h # g \/ e # Visited(g)
  <2>1. got'[h] # None => got'[h] = got[h]
    BY SignalFacts DEF BridgeInv, BTypeOK
  <2> QED BY <1>2, <2>1, SignalFacts DEF Settled, Visited, Silent
<1> QED BY <1>1, <1>2

LEMMA StepSettles == BridgeInv /\ [BNext]_bvars => SettlingStep
<1> SUFFICES ASSUME BridgeInv, [BNext]_bvars, NEW h \in Handlers, NEW e \in Entries
             PROVE  /\ Settled(h, e) /\ table'[e] = table[e] /\ ~Races(e) => Settled(h, e)'
                    /\ Signal(h) /\ e = Visited(h) /\ got[h] = table[e] => Settled(h, e)'
  BY DEF SettlingStep
<1>1. ASSUME Settled(h, e), table'[e] = table[e], ~Races(e) PROVE Settled(h, e)'
  <2>1. ASSUME NEW g \in Handlers, Turn(g) PROVE Settled(h, e)'
    <3>1. /\ UNCHANGED <<got, view, missed>> /\ got[g] = None
          /\ turn' = [turn EXCEPT ![g] = NextTurn(turn[g])]
      BY <2>1 DEF Turn
    <3>2. got[h] # None => turn'[h] = turn[h]
      BY <3>1 DEF BridgeInv, BTypeOK
    <3> QED BY <1>1, <3>1, <3>2 DEF Settled, Visited
  <2>2. ASSUME NEW g \in Handlers, Locks(g) \/ End(g) PROVE Settled(h, e)'
    BY <1>1, <2>2, ThreadSettles DEF Locks, End, hvars
  <2>3. CASE Thread \/ UNCHANGED bvars
    BY <1>1, <2>3, ThreadSettles DEF Thread, bvars, hvars
  <2> QED BY <1>1, <2>1, <2>2, <2>3, ReadSettles, SignalLeaves DEF BNext, AllOver
<1> QED BY <1>1, SignalSettles

\* What a browser shows right it goes on showing right until the table changes, and
\* every copy told of a table at rest puts an entry right, but for states without words
\* and messages that throw: with the turns that go on, that is why browsers converge.
THEOREM SettlesAndStays == BSpec => [][SettlingStep]_bvars
BY StepSettles, BridgeInductive, PTL DEF BSpec

-----------------------------------------------------------------------------
(* Bridge implements Mirror                                                *)

GhostSeen == [h \in Handlers |-> IF got[h] = None THEN <<>> ELSE <<Visited(h), got[h]>>]
GhostLost == [h \in Handlers |-> Untold(h)]
Resetting == pc \in {"init", "crashed"}

LEMMA ThreadMirrors == BridgeInv /\ BridgeInv' /\ Thread => [Ghost!Next]_(Ghost!mvars)
<1> SUFFICES ASSUME BridgeInv, BridgeInv', Thread PROVE [Ghost!Next]_(Ghost!mvars)
  OBVIOUS
<1>1. UNCHANGED <<GhostSeen, view, GhostLost>>
  BY DEF Thread, GhostSeen, GhostLost, Visited, Untold
<1>2. CASE UNCHANGED table /\ Resetting' = Resetting
  BY <1>1, <1>2 DEF Ghost!mvars, GhostSeen, GhostLost, Resetting
<1>3. CASE UNCHANGED table /\ ~Resetting /\ Resetting'
  <2>1. Ghost!Reset
    BY <1>1, <1>3, Zenon DEF Ghost!Reset, GhostSeen, GhostLost, Resetting
  <2> QED BY <2>1 DEF Ghost!Next
<1>4. CASE WriteEnd
  <2> DEFINE e == Head(todo)
  <2>1. /\ e \in Entries /\ NewValue \in Values
        /\ table' = [table EXCEPT ![e] = NewValue]
    BY <1>4, TodoFacts, LinkAssumption
       DEF WriteEnd, BridgeInv, LinkInv, Pending, TypeOK, NewValue, Values, Unset
  <2>2. Resetting => NewValue = Unset
    BY <1>4 DEF WriteEnd, Alive, Resetting, NewValue
  <2>3. \/ Resetting' = Resetting
        \/ ~Resetting' /\ \A j \in Entries : table'[j] = Unset
    BY <1>4 DEF WriteEnd, Alive, Resetting, BridgeInv, LinkInv, TableInv
  <2>4. Ghost!Set(e, NewValue)
    BY <1>1, <2>1, <2>2, <2>3 DEF Ghost!Set, GhostSeen, GhostLost, Resetting
  <2> QED BY <2>1, <2>4 DEF Ghost!Next
<1>5. CASE ~WriteEnd
  <2>1. UNCHANGED table
    BY <1>5 DEF Thread, RoutineStep, Top, Connect, Pause, Shutdown, Receive, ReceiveEof,
                ReceiveThrows, Drain, Tick, WriteBegin, shared
  <2>2. Resetting => Resetting'
    BY <1>5 DEF Thread, RoutineStep, Top, Connect, Pause, Shutdown, Receive, ReceiveEof,
                ReceiveThrows, Drain, Tick, WriteBegin, shared, Resetting, Alive
  <2> QED BY <1>2, <1>3, <2>1, <2>2 DEF Resetting
<1> QED BY <1>4, <1>5

LEMMA ReadMirrors ==
  ASSUME BridgeInv, NEW h \in Handlers, Read(h)
  PROVE  [Ghost!Next]_(Ghost!mvars)
<1>1. UNCHANGED <<table, turn, last, view, missed, GhostLost>>
  BY DEF Read, Copy, GhostLost, Untold
<1>2. asked[h] = Visited(h) /\ got[h] = None /\ asked[h] \in Entries
  BY ReadFacts
<1>3. CASE pc = "init" /\ pc' = "crashed" /\ UNCHANGED got
  <2>1. Resetting' = Resetting /\ GhostSeen' = GhostSeen /\ GhostLost' = GhostLost
    BY <1>1, <1>3 DEF Resetting, GhostSeen, GhostLost, Visited, Untold
  <2> QED BY <1>1, <2>1 DEF Ghost!mvars, GhostSeen, GhostLost, Resetting
<1>4. ASSUME UNCHANGED pc, NEW v \in Reads(asked[h]), v \in Seen \ {None},
             got' = [got EXCEPT ![h] = v]
      PROVE  Ghost!Next
  <2>1. GhostSeen[h] = <<>> /\ GhostSeen' = [GhostSeen EXCEPT ![h] = <<asked[h], v>>]
    BY <1>1, <1>2, <1>4 DEF GhostSeen, Visited, BridgeInv, BTypeOK
  <2>2. v \in Ghost!Sees(asked[h])
    <3>1. Races(asked[h]) => pc = "init" /\ asked[h] \in FragileEntries /\ NewValue = Unset
      BY RacesFacts DEF Read, Copy, BridgeInv
    <3> QED BY <1>4, <3>1 DEF Reads, Ghost!Sees
  <2>3. PICK i \in Entries : i = asked[h]
    BY <1>2
  <2>4. Ghost!Look(h, i)
    BY <1>1, <1>4, <2>1, <2>2, <2>3 DEF Ghost!Look, GhostSeen, GhostLost, Resetting
  <2> QED BY <2>4 DEF Ghost!Next
<1> QED BY <1>3, <1>4, ReadFacts

LEMMA SignalMirrors ==
  ASSUME BridgeInv, NEW h \in Handlers, Signal(h)
  PROVE  Ghost!Next
<1> DEFINE e == Visited(h)
           Mute == {m \in Entries \X Values : Silent(m[1], m[2])}
<1>1. /\ got[h] \in Values \cup {Torn} /\ got[h] # None /\ e \in Entries
      /\ got' = [got EXCEPT ![h] = None]
      /\ UNCHANGED <<pc, table, turn>>
  BY SignalFacts DEF Seen
<1>2. GhostSeen[h] = <<e, got[h]>> /\ GhostSeen' = [GhostSeen EXCEPT ![h] = <<>>]
  BY <1>1 DEF GhostSeen, Visited, BridgeInv, BTypeOK
<1>3. /\ GhostLost \in [Handlers -> SUBSET Entries] /\ GhostLost' \in [Handlers -> SUBSET Entries]
      /\ \A g \in Handlers : \A f \in Entries : g # h \/ f # e =>
           (f \in GhostLost'[g] <=> f \in GhostLost[g])
  <2>1. missed \in [Handlers -> SUBSET Entries] /\ missed' \in [Handlers -> SUBSET Entries]
    BY SignalFacts DEF BridgeInv, BTypeOK
  <2>2. GhostLost \in [Handlers -> SUBSET Entries] /\ GhostLost' \in [Handlers -> SUBSET Entries]
    BY <2>1 DEF GhostLost, Untold
  <2> QED BY <2>2, SignalFacts DEF GhostLost, Untold
<1>4. GhostLost' = IF e \in Untold(h)' THEN [GhostLost EXCEPT ![h] = @ \cup {e}]
                   ELSE [GhostLost EXCEPT ![h] = @ \ {e}]
  <2>1. GhostLost'[h] = Untold(h)'
    BY DEF GhostLost
  <2>2. CASE e \in Untold(h)'
    <3>1. \A g \in Handlers : GhostLost'[g] = [GhostLost EXCEPT ![h] = @ \cup {e}][g]
      BY <1>1, <1>3, <2>1, <2>2
    <3> QED BY <1>3, <2>2, <3>1
  <2>3. CASE e \notin Untold(h)'
    <3>1. \A g \in Handlers : GhostLost'[g] = [GhostLost EXCEPT ![h] = @ \ {e}][g]
      BY <1>1, <1>3, <2>1, <2>3
    <3> QED BY <1>3, <2>3, <3>1
  <2> QED BY <2>2, <2>3
<1>5. \/ /\ <<e, got[h]>> \notin Mute
         /\ view' = [view EXCEPT ![h] = [@ EXCEPT ![e] = got[h]]]
         /\ GhostLost' = [GhostLost EXCEPT ![h] = @ \ {e}]
      \/ GhostLost' = [GhostLost EXCEPT ![h] = @ \cup {e}] /\ UNCHANGED view
      \/ (view[h][e] = got[h] \/ e \in GhostLost[h]) /\ UNCHANGED <<view, GhostLost>>
  <2>1. CASE got[h] = last[h][e]
    BY <1>1, <2>1 DEF Signal, BridgeInv, Coupled, GhostLost, Untold
  <2>2. CASE got[h] # last[h][e] /\ UNCHANGED view /\ missed' = [missed EXCEPT ![h] = @ \cup {e}]
    <3>1. e \in Untold(h)'
      BY <1>1, <2>2 DEF BridgeInv, BTypeOK, Untold
    <3> QED BY <1>4, <2>2, <3>1
  <2>3. CASE /\ got[h] # last[h][e]
             /\ view' = [view EXCEPT ![h] = [@ EXCEPT ![e] = Told(h)]]
             /\ missed' = [missed EXCEPT ![h] = @ \ {e}]
    <3>1. last'[h][e] = got[h] /\ e \notin missed'[h]
      BY <1>1, <2>3 DEF Signal, Kept, BridgeInv, BTypeOK
    <3>2. CASE Silent(e, got[h])
      <4>1. e \in Untold(h)'
        BY <1>1, <3>1, <3>2 DEF Untold, Silent
      <4>2. UNCHANGED view
        <5>1. Told(h) = view[h][e] /\ view \in [Handlers -> [Entries -> Seen]]
          BY <3>2 DEF Told, BridgeInv, BTypeOK
        <5> QED BY <1>1, <2>3, <5>1
      <4> QED BY <1>4, <4>1, <4>2
    <3>3. CASE ~Silent(e, got[h])
      <4>1. e \notin Untold(h)'
        BY <3>1, <3>3 DEF Untold, Silent
      <4>2. Told(h) = got[h] /\ <<e, got[h]>> \notin Mute
        BY <3>3 DEF Told
      <4> QED BY <1>4, <2>3, <4>1, <4>2
    <3> QED BY <3>2, <3>3
  <2> QED BY <2>1, <2>2, <2>3 DEF Signal
<1>6. PICK i \in Entries, x \in Values \cup {Torn, Unset} : i = e /\ x = got[h]
  BY <1>1
<1>7. Ghost!Show(h, i, x)
  BY <1>1, <1>2, <1>5, <1>6, Zenon DEF Ghost!Show, GhostSeen, GhostLost
<1> QED BY <1>7 DEF Ghost!Next

\* Every step of the threads, the locks and the turns is a step of Mirror or none.
LEMMA StepMirrors == BridgeInv /\ BridgeInv' /\ [BNext]_bvars => [Ghost!Next]_(Ghost!mvars)
<1> SUFFICES ASSUME BridgeInv, BridgeInv', [BNext]_bvars PROVE [Ghost!Next]_(Ghost!mvars)
  OBVIOUS
<1>1. ASSUME NEW h \in Handlers, Turn(h) PROVE [Ghost!Next]_(Ghost!mvars)
  <2>1. UNCHANGED <<pc, table, got, view, GhostLost>>
    BY <1>1 DEF Turn, Ask, shared, GhostLost, Untold
  <2>2. GhostSeen' = GhostSeen
    <3>1. \A g \in Handlers : got[g] # None => g # h /\ turn'[g] = turn[g]
      BY <1>1 DEF Turn, BridgeInv, BTypeOK
    <3> QED BY <2>1, <3>1 DEF GhostSeen, Visited
  <2> QED BY <2>1, <2>2 DEF Ghost!mvars, GhostSeen, GhostLost
<1>2. ASSUME UNCHANGED <<pc, table, turn, got, last, view, missed>> PROVE UNCHANGED Ghost!mvars
  BY <1>2 DEF Ghost!mvars, Visited, Untold
<1>3. ASSUME NEW h \in Handlers, Locks(h) \/ End(h) PROVE UNCHANGED Ghost!mvars
  BY <1>2, <1>3 DEF Locks, Lock, End, hvars, vars, shared
<1>4. CASE UNCHANGED bvars
  BY <1>2, <1>4 DEF bvars, hvars, vars, shared
<1> QED BY <1>1, <1>3, <1>4, ThreadMirrors, ReadMirrors, SignalMirrors DEF BNext, AllOver

\* What a browser is told is what a mirror of the table without threads and locks tells,
\* one that has no words for some values, and whose source may be set to anything.
THEOREM BridgeIsMirror == BSpec => MirrorPromise
<1>1. BInit => Ghost!Init
  <2> SUFFICES ASSUME BInit PROVE Ghost!Init
    OBVIOUS
  <2>1. \A h \in Handlers : Untold(h) = {}
    <3>1. "none" \notin Unspoken /\ Unset \notin Unspoken
      <4>1. <<"state", 0>> \in Entries
        BY EntryFacts, LinkAssumption DEF Channels
      <4>2. Contents["state"] \subseteq Values
        BY <4>1, ValueFacts DEF Said
      <4> QED BY <4>2, UnspokenAssumption
    <3> QED BY <3>1 DEF BInit, Untold, Silent, None
  <2> QED BY <2>1 DEF BInit, Init, Ghost!Init
<1>2. BridgeInv /\ BridgeInv' /\ [BNext]_bvars => [Ghost!Next]_(Ghost!mvars)
  BY StepMirrors
<1> QED BY <1>1, <1>2, BridgeInductive, PTL DEF BSpec, MirrorPromise, Ghost!Spec
=============================================================================
