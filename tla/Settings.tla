------------------------------ MODULE Settings ------------------------------
(***************************************************************************)
(* The settings database and the CIniHandlers on it (IniHandler.cpp): the  *)
(* constructor that makes missing tables and their default rows, GetValue  *)
(* and SetValue, and the accounts with what a handler keeps of them.       *)
(*                                                                         *)
(* Each sqlite3_exec is one step, and any of them may fail and change      *)
(* nothing (the file is busy, the disk full, the file was not opened).  A  *)
(* login makes a handler of its own, and the file outlives the program:    *)
(* handlers come, go and crash in any interleaving.  In this program none  *)
(* of them calls SetValue or an operation of the accounts.                 *)
(*                                                                         *)
(* A row's value is who wrote it: the constructor, or SetValue.            *)
(***************************************************************************)
EXTENDS Integers, Sequences, FiniteSets

CONSTANTS
  Handles,     \* the CIniHandlers
  TableOrder,  \* the key tables, in the order of the constructor, after ACCOUNT
  Defaults,    \* Defaults[t]: the keys of t's default rows, in their order
  MaxId        \* bound: AddUser gives no account number beyond it

Account == "ACCOUNT"
Order == <<Account>> \o TableOrder
Tables == {Order[i] : i \in DOMAIN Order}
KeyTables == Tables \ {Account}
KeysOf(t) == {Defaults[t][i] : i \in DOMAIN Defaults[t]}
Rows == UNION {{t} \X KeysOf(t) : t \in KeyTables}
Keys == UNION {KeysOf(t) : t \in KeyTables}

ASSUME SettingsAssumption ==
  /\ KeyTables \subseteq DOMAIN Defaults
  /\ \A t \in KeyTables : Defaults[t] \in Seq(KeysOf(t)) \ {<<>>}
  /\ TableOrder \in Seq(KeyTables)
  /\ \A i, j \in DOMAIN Order : Order[i] = Order[j] => i = j
  /\ MaxId \in Nat

None == <<"none", Account>>
WrittenBy(who, t) == <<who, t>>
Values == {None} \cup {WrittenBy(who, t) : who \in {"constructor", "SetValue"}, t \in KeyTables}

VARIABLES
  exists,       \* the tables in the file
  rows,         \* rows[<<t, k>>]: value of key k in table t
  accounts,     \* the account numbers in ACCOUNT
  lastId,       \* the number AUTOINCREMENT gave last
  pc,           \* pc[h]: what h is doing
  at,           \* at[h]: the table its constructor is at, as an index of Order
  row,          \* row[h]: the default row it is at
  keymap,       \* keymap[h][k], never cleared
  counted,      \* counted[h]: m_userCounter
  listed,       \* listed[h]: the accounts in m_userIdMap and its companions
  edited,       \* edited[h]: m_editUserId and its companions; 0 before the first
  answer,       \* history: section, key and answer, when the last step was a GetValue
  made,         \* history: made[t]: how often t was created
  interrupted,  \* history: tables whose default rows were not all tried with success
  userSet,      \* history: the rows SetValue has written
  raced         \* history: an account was deleted between another's count and deletion

file == <<exists, rows, accounts, lastId>>
making == <<at, row>>
users == <<counted, listed, edited>>
history == <<made, interrupted, userSet, raced>>
vars == <<file, pc, making, keymap, users, answer, history>>

EmptyMap == [k \in Keys |-> None]
NoAnswer == <<Account, "", None>>

Init ==
  /\ exists = {} /\ rows = [p \in Rows |-> None]
  /\ accounts = {} /\ lastId = 0
  /\ pc = [h \in Handles |-> "closed"]
  /\ at = [h \in Handles |-> 1] /\ row = [h \in Handles |-> 1]
  /\ keymap = [h \in Handles |-> EmptyMap] /\ answer = NoAnswer
  /\ counted = [h \in Handles |-> 0]
  /\ listed = [h \in Handles |-> {}] /\ edited = [h \in Handles |-> 0]
  /\ made = [t \in Tables |-> 0] /\ interrupted = {} /\ userSet = {} /\ raced = FALSE

\* A step that is no GetValue.
NotAsked == answer' = NoAnswer

Goto(h, where) == pc' = [pc EXCEPT ![h] = where]
TableOf(h) == Order[at[h]]

-----------------------------------------------------------------------------
(* The constructor: CheckAccountTable, CheckServerTable, CheckChannelTables *)

\* OpenDB; if it fails no table is looked at, and every later statement fails.
Open(h) ==
  /\ pc[h] = "closed"
  /\ Goto(h, "check") \/ Goto(h, "unopened")
  /\ at' = [at EXCEPT ![h] = 1] /\ row' = [row EXCEPT ![h] = 1]
  /\ keymap' = [keymap EXCEPT ![h] = EmptyMap]
  /\ listed' = [listed EXCEPT ![h] = {}] /\ edited' = [edited EXCEPT ![h] = 0]
  /\ NotAsked /\ UNCHANGED <<file, counted, history>>

TablesLeft(h) == at[h] < Len(Order)

ToNextTable(h) ==
  /\ row' = [row EXCEPT ![h] = 1]
  /\ IF TablesLeft(h) THEN at' = [at EXCEPT ![h] = @ + 1] /\ Goto(h, "check")
                      ELSE UNCHANGED at /\ Goto(h, "open")

\* SELECT * FROM sqlite_master.
Check(h) ==
  /\ pc[h] = "check"
  /\ \/ TableOf(h) \notin exists /\ Goto(h, "create") /\ UNCHANGED making
     \/ ToNextTable(h)
  /\ NotAsked /\ UNCHANGED <<file, keymap, users, history>>

\* CREATE TABLE, an error if another has created it since.
IfNotExists(t) == TRUE
Creatable(t) == t \notin exists

Create(h) ==
  /\ pc[h] = "create"
  /\ \/ /\ Creatable(TableOf(h))
        /\ exists' = exists \cup {TableOf(h)}
        /\ made' = [made EXCEPT ![TableOf(h)] = @ + 1]
        /\ Goto(h, "insert") /\ UNCHANGED making
     \/ ToNextTable(h) /\ UNCHANGED <<exists, made>>
  /\ NotAsked /\ UNCHANGED <<rows, accounts, lastId, keymap, users, interrupted, userSet, raced>>

\* INSERT of a default row, an error if its primary key is there.
NeverConflicts(p) == FALSE
Conflicts(p) == rows[p] # None

InsertRow(h) ==
  LET t == TableOf(h)
      p == <<t, Defaults[t][row[h]]>>
  IN  IF Conflicts(p) THEN UNCHANGED <<rows, interrupted>>
      ELSE \/ rows' = [rows EXCEPT ![p] = WrittenBy("constructor", t)] /\ UNCHANGED interrupted
           \/ interrupted' = interrupted \cup {t} /\ UNCHANGED rows

AdminForgotten == UNCHANGED <<accounts, lastId, interrupted>>
InsertAdmin ==
  \/ lastId' = lastId + 1 /\ accounts' = accounts \cup {lastId'} /\ UNCHANGED interrupted
  \/ interrupted' = interrupted \cup {Account} /\ UNCHANGED <<accounts, lastId>>

LastRow(t) == IF t = Account THEN 1 ELSE Len(Defaults[t])

\* An INSERT that fails is reported, and the next one is tried.
InsertDefault(h) ==
  /\ pc[h] = "insert"
  /\ IF TableOf(h) = Account THEN InsertAdmin /\ UNCHANGED rows
                             ELSE InsertRow(h) /\ UNCHANGED <<accounts, lastId>>
  /\ IF row[h] < LastRow(TableOf(h)) THEN row' = [row EXCEPT ![h] = @ + 1] /\ UNCHANGED <<pc, at>>
                                     ELSE ToNextTable(h)
  /\ NotAsked /\ UNCHANGED <<exists, keymap, users, made, userSet, raced>>

-----------------------------------------------------------------------------
(* GetValue and SetValue                                                   *)

\* The answer is looked up in keymap after the row, if there is one, was put into it.
CachedFirst(h, p) == IF keymap[h][p[2]] # None THEN keymap[h][p[2]] ELSE rows[p]
Refreshed(h, p) == IF rows[p] # None THEN rows[p] ELSE keymap[h][p[2]]

\* The caller's default, which is the answer when the SELECT fails, is written None.
GetValue(h, p) ==
  /\ pc[h] \in {"open", "unopened"}
  /\ \/ /\ pc[h] = "open" /\ p[1] \in exists
        /\ keymap' = [keymap EXCEPT ![h][p[2]] = Refreshed(h, p)]
        /\ answer' = <<p[1], p[2], Refreshed(h, p)>>
     \/ /\ answer' = <<p[1], p[2], None>>
        /\ UNCHANGED keymap
  /\ UNCHANGED <<file, pc, making, users, history>>

\* INSERT OR REPLACE; on an error nothing changes.
SetValue(h, p) ==
  /\ pc[h] = "open" /\ p[1] \in exists
  /\ rows' = [rows EXCEPT ![p] = WrittenBy("SetValue", p[1])]
  /\ userSet' = userSet \cup {p}
  /\ NotAsked /\ UNCHANGED <<exists, accounts, lastId, pc, making, keymap, users, made, interrupted, raced>>

-----------------------------------------------------------------------------
(* The accounts                                                            *)

AddUser(h) ==
  /\ pc[h] = "open" /\ Account \in exists /\ lastId < MaxId
  /\ lastId' = lastId + 1 /\ accounts' = accounts \cup {lastId'}
  /\ NotAsked /\ UNCHANGED <<exists, rows, pc, making, keymap, users, history>>

\* INSERT OR REPLACE with a number given out before, whether or not it is still there.
UpdateUser(h, id) ==
  /\ pc[h] = "open" /\ Account \in exists
  /\ accounts' = accounts \cup {id}
  /\ NotAsked /\ UNCHANGED <<exists, rows, lastId, pc, making, keymap, users, history>>

\* CountUsers; -1, that is FAILURE, when its SELECT fails.
CountUsers(h) ==
  /\ pc[h] = "open"
  /\ \/ Account \in exists /\ counted' = [counted EXCEPT ![h] = Cardinality(accounts)]
     \/ counted' = [counted EXCEPT ![h] = -1]
  /\ Goto(h, "delete")
  /\ NotAsked /\ UNCHANGED <<file, making, keymap, listed, edited, history>>

AnyLeft(h) == counted[h] > 0
EnoughLeft(h) == counted[h] > 1

\* The number need not be there.
DeleteUser(h, id) ==
  /\ pc[h] = "delete" /\ Goto(h, "open")
  /\ counted' = [counted EXCEPT ![h] = 0]
  /\ IF EnoughLeft(h)
       THEN /\ accounts' = accounts \ {id}
            /\ raced' = (raced \/ (id \in accounts /\ \E o \in Handles \ {h} : pc[o] = "delete"))
       ELSE UNCHANGED <<accounts, raced>>
  /\ NotAsked /\ UNCHANGED <<exists, rows, lastId, making, keymap, listed, edited, made, interrupted, userSet>>

\* The count said no, or the DELETE failed.
DeleteNothing(h) ==
  /\ pc[h] = "delete" /\ Goto(h, "open")
  /\ counted' = [counted EXCEPT ![h] = 0]
  /\ NotAsked /\ UNCHANGED <<file, making, keymap, listed, edited, history>>

\* SearchUsers: ClearMaps, then a call of AddUsertoList for each row, if there are any.
SearchUsers(h) ==
  /\ pc[h] = "open"
  /\ \/ Account \in exists /\ listed' = [listed EXCEPT ![h] = accounts]
     \/ listed' = [listed EXCEPT ![h] = {}]
  /\ NotAsked /\ UNCHANGED <<file, pc, making, keymap, counted, edited, history>>

\* GetUser: SetUserEditData is called for a row only, and otherwise the fields stay what
\* an earlier GetUser left in them.  The list is cleared in either case.
GetUser(h, id) ==
  /\ pc[h] = "open"
  /\ listed' = [listed EXCEPT ![h] = {}]
  /\ \/ Account \in exists /\ id \in accounts /\ edited' = [edited EXCEPT ![h] = id]
     \/ UNCHANGED edited
  /\ NotAsked /\ UNCHANGED <<file, pc, making, keymap, counted, history>>

-----------------------------------------------------------------------------

\* The destructor, or the end of the program at any statement.
Close(h) ==
  /\ pc[h] # "closed" /\ Goto(h, "closed")
  /\ counted' = [counted EXCEPT ![h] = 0]
  /\ interrupted' = IF pc[h] = "insert" THEN interrupted \cup {TableOf(h)} ELSE interrupted
  /\ NotAsked /\ UNCHANGED <<file, making, keymap, listed, edited, made, userSet, raced>>

Construct(h) == Open(h) \/ Check(h) \/ Create(h) \/ InsertDefault(h)
Use(h) ==
  \/ \E p \in Rows : GetValue(h, p) \/ SetValue(h, p)
  \/ AddUser(h) \/ CountUsers(h) \/ DeleteNothing(h) \/ SearchUsers(h)
  \/ \E id \in 1 .. lastId : UpdateUser(h, id)
  \/ \E id \in 1 .. lastId + 1 : DeleteUser(h, id) \/ GetUser(h, id)

Next == \E h \in Handles : Construct(h) \/ Use(h) \/ Close(h)

Spec == Init /\ [][Next]_vars

-----------------------------------------------------------------------------
(* Properties                                                              *)

BeingFilled(t) == \E h \in Handles : pc[h] = "insert" /\ TableOf(h) = t

TypeOK ==
  /\ exists \subseteq Tables /\ rows \in [Rows -> Values]
  /\ lastId \in Nat /\ accounts \subseteq 1 .. lastId
  /\ pc \in [Handles -> {"closed", "check", "create", "insert", "open", "unopened", "delete"}]
  /\ at \in [Handles -> DOMAIN Order] /\ row \in [Handles -> Nat \ {0}]
  /\ \A h \in Handles : row[h] <= LastRow(TableOf(h))
  /\ keymap \in [Handles -> [Keys -> Values]]
  /\ answer # NoAnswer => \E p \in Rows, v \in Values : answer = <<p[1], p[2], v>>
  /\ counted \in [Handles -> Int]
  /\ listed \in [Handles -> SUBSET (1 .. lastId)] /\ edited \in [Handles -> 0 .. lastId]
  /\ made \in [Tables -> Nat] /\ interrupted \subseteq exists
  /\ userSet \subseteq Rows /\ raced \in BOOLEAN

\* Handlers that find a table missing at the same time create it once and fill it once:
\* there are never two default administrators, and no rows without their table.
FilledOnce ==
  /\ \A t \in Tables : made[t] <= 1
  /\ \A h, o \in Handles : pc[h] = "insert" /\ pc[o] = "insert" /\ h # o => at[h] # at[o]

\* A table that exists and that nobody is filling has all its default rows, unless its
\* maker ended or an INSERT failed in between: that is never made good.
CompleteUnlessInterrupted ==
  \A t \in exists \ interrupted :
    \/ BeingFilled(t)
    \/ IF t = Account THEN lastId > 0 ELSE \A k \in KeysOf(t) : rows[<<t, k>>] # None

\* What a user has set is never set back to the default, also when SetValue comes
\* before the maker of the table inserts that row.
UserValueStays == \A p \in userSet : rows[p] = WrittenBy("SetValue", p[1])

\* keymap is keyed without the section and never cleared, so GetValue can answer with what
\* another section says, or with what its own said before another handler's SetValue.  Of a
\* table that was filled without interruption it does neither, while other handlers write
\* and fill other tables: it answers with the row as it is now, or, when the SELECT fails,
\* with the caller's default.
AnswersOwnSection ==
  LET p == <<answer[1], answer[2]>>
  IN  answer # NoAnswer /\ p[1] \in exists \ interrupted /\ ~BeingFilled(p[1])
        => answer[3] \in {None, rows[p]}

\* DeleteUser leaves an account, unless two of them run at the same time: each counts
\* first and deletes after.
AccountLeft == Account \in exists /\ lastId > 0 /\ ~raced => accounts # {}
=============================================================================
