------------------------------- MODULE Bridge -------------------------------
(***************************************************************************)
(* TR4Link with the handlers' side of the table: each WebSocket handler    *)
(* goes round the entries as ProcessSignaling does, keeps what GetState,   *)
(* GetDial and GetCID returned, compares it with what it sent last, and    *)
(* sends it when it differs.  What a browser shows is in view.             *)
(*                                                                         *)
(* The rest of a handler's turn (WsHandler) does not touch the table; a    *)
(* handler whose loop has ended takes no more turns.                       *)
(***************************************************************************)
EXTENDS TR4Link

CONSTANT
  Unspoken  \* the states that ProcessSignaling has no words for: REC_UNKNOWN, and no states

ASSUME UnspokenAssumption == /\ Unspoken \subseteq Contents["state"] /\ Unset \notin Unspoken
                             /\ Values \cap {"none", "torn"} = {}

VARIABLES
  turn,    \* turn[h]: the entry of Round that h visits, by its number
  got,     \* got[h]: the local copy of that entry, or None
  last,    \* last[h]: lastState, lastdial, lastcid
  ended,   \* the handlers whose loop has ended
  view,    \* history: view[h]: what h's browser was told last
  missed,  \* history: missed[h]: the entries whose last message was not sent
  looked   \* history: looked[h]: the entries h has copied since InitVars ran

hvars == <<turn, got, last, ended, view, missed, looked>>
bvars == <<vars, hvars>>

None == "none"   \* also lastState before the first turn
Torn == "torn"   \* a string copied in the middle of a write
Silent(e, v) == e[1] = "state" /\ v \in Unspoken
FragileEntries == {e \in Entries : e[1] # "state"}

\* ChNumber goes over the channels, and state over the kinds, from 1 on: dial, cid, state.
Kinds == Strings \o <<"state">>
Turns == 1 .. Len(Kinds) * ChannelCount
Round == [i \in Turns |-> <<Kinds[1 + (i - 1) \div ChannelCount], (i - 1) % ChannelCount>>]
Visited(h) == Round[turn[h]]
TurnStays(t) == IF t = Len(Kinds) * ChannelCount THEN t ELSE t + 1
NextTurn(t) == IF t = Len(Kinds) * ChannelCount THEN 1 ELSE t + 1

BInit ==
  /\ Init
  /\ turn = [h \in Handlers |-> Len(Kinds) * ChannelCount]
  /\ got = [h \in Handlers |-> None]
  /\ last = [h \in Handlers |-> [e \in Entries |-> IF e[1] = "state" THEN None ELSE Unset]]
  /\ ended = {}
  /\ view = last
  /\ missed = [h \in Handlers |-> {}]
  /\ looked = [h \in Handlers |-> {}]

-----------------------------------------------------------------------------

\* A step of the TR4 thread; InitVars starts a new count of what was copied since.
Thread ==
  /\ RoutineStep \/ Shutdown
  /\ looked' = IF pc' = "init" THEN [h \in Handlers |-> {}] ELSE looked
  /\ UNCHANGED <<turn, got, last, ended, view, missed>>

\* ProcessSignaling goes on to the next entry and asks for it.
Turn(h) ==
  /\ h \notin ended /\ got[h] = None
  /\ Ask(h, Round[NextTurn(turn[h])])
  /\ turn' = [turn EXCEPT ![h] = NextTurn(turn[h])]
  /\ UNCHANGED <<got, last, ended, view, missed, looked>>

Locks(h) == Lock(h) /\ UNCHANGED hvars

\* What the copy of an entry comes to.
Reads(e) == {table[e]} \cup IF Races(e) THEN {NewValue, Torn} ELSE {}

Read(h) ==
  /\ Copy(h)
  /\ IF pc' = "crashed" THEN UNCHANGED got
       ELSE \E v \in Reads(asked[h]) : got' = [got EXCEPT ![h] = v]
  /\ looked' = IF pc = "init" THEN looked ELSE [looked EXCEPT ![h] = @ \cup {asked[h]}]
  /\ UNCHANGED <<turn, last, ended, view, missed>>

\* What is kept as sent: the copy, or what the table holds by the time of the send.
Reread(h) == table[Visited(h)]
Kept(h) == got[h]

\* What the browser shows of an entry once the message about it has come; the switch
\* makes no message for some states, and an empty frame goes out.
ToldAnyway(h) == got[h]
Told(h) == IF Silent(Visited(h), got[h]) THEN view[h][Visited(h)] ELSE got[h]

\* The comparison, and the send, which may throw; last is set before it.
Signal(h) ==
  /\ Alive /\ got[h] # None
  /\ got' = [got EXCEPT ![h] = None]
  /\ IF got[h] = last[h][Visited(h)]
       THEN UNCHANGED <<last, view, missed>>
       ELSE /\ last' = [last EXCEPT ![h] = [@ EXCEPT ![Visited(h)] = Kept(h)]]
            /\ \/ /\ view' = [view EXCEPT ![h] = [@ EXCEPT ![Visited(h)] = Told(h)]]
                  /\ missed' = [missed EXCEPT ![h] = @ \ {Visited(h)}]
               \/ /\ missed' = [missed EXCEPT ![h] = @ \cup {Visited(h)}]
                  /\ UNCHANGED view
  /\ UNCHANGED <<vars, turn, ended, looked>>

\* The loop ends between two turns.
End(h) ==
  /\ Alive /\ hpc[h] = "idle" /\ got[h] = None /\ h \notin ended
  /\ ended' = ended \cup {h}
  /\ UNCHANGED <<vars, turn, got, last, view, missed, looked>>

AllOver ==
  /\ ~Alive \/ (pc = "stopped" /\ ended = Handlers)
  /\ UNCHANGED bvars

BNext == \/ Thread
         \/ \E h \in Handlers : Turn(h) \/ Locks(h) \/ Read(h) \/ Signal(h) \/ End(h)
         \/ AllOver

BSpec == BInit /\ [][BNext]_bvars

(* As in TR4Link: its thread goes on, and so does a handler that has not   *)
(* ended, whose sleeps end; who waits for a mutex that is free again and   *)
(* again has it at last.                                                   *)
BFairness ==
  /\ SF_bvars(Thread /\ RoutineStep)
  /\ \A h \in Handlers : SF_bvars(Turn(h) \/ Locks(h) \/ Read(h) \/ Signal(h))

BLiveSpec == BSpec /\ BFairness

-----------------------------------------------------------------------------
(* Properties                                                              *)

\* Since last was set the browser may show something else: the message threw, or had no
\* words.
Untold(h) == missed[h] \cup {e \in Entries : Silent(e, last[h][e])}

Ghost == INSTANCE Mirror WITH
  Viewers <- Handlers, Things <- Entries, Fragile <- FragileEntries,
  Values <- Values, Anything <- {Torn, Unset}, Blank <- Unset, Nothing <- None,
  Mute <- {m \in Entries \X Values : Silent(m[1], m[2])},
  source <- table,
  resetting <- pc \in {"init", "crashed"},
  seen <- [h \in Handlers |-> IF got[h] = None THEN <<>> ELSE <<Visited(h), got[h]>>],
  shown <- view,
  lost <- [h \in Handlers |-> Untold(h)]

\* Behind all locks, copies and turns, each browser is a mirror of the table: what it
\* is told of an entry was the table's value at one moment, later than that of what it
\* was told before, but for strings copied while InitVars runs; InitVars ends with
\* every entry unset.  A state without words is not told, and leaves what was shown.
MirrorPromise == Ghost!Spec

\* While the byte queue is in step, an entry that a handler has copied since a connection
\* was made is not shown with anything but what this connection said of it, nor torn,
\* unless its message threw or was a state without words.
NothingOlder ==
  ~torn => \A h \in Handlers : \A e \in looked[h] :
    IF got[h] # None /\ e = Visited(h) THEN got[h] \in {Unset} \cup sent[e]
    ELSE e \in Untold(h) \/ view[h][e] \in {Unset} \cup sent[e]

Shows(h, e, v) == h \in ended \/ e \in missed[h] \/ Silent(e, v) \/ view[h][e] = v

\* When the recorder and the connection come to rest, every browser comes to show the
\* table, whatever it was told on the way: also what it was told torn is put right.  A
\* state without words is what it does not come to show.
Converges ==
  (<>[][UNCHANGED table]_bvars) =>
     <>[](~Alive \/ \A h \in Handlers, e \in Entries : Shows(h, e, table[e]))

\* When the recorder is gone for good, and the program goes on trying, every browser
\* comes to show that all channels are disconnected and no numbers.
LossShown ==
  (DrainsEnd /\ <>[]~established /\ []running) =>
     <>[](~Alive \/ \A h \in Handlers, e \in Entries : Shows(h, e, Unset))
=============================================================================
