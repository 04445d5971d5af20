--------------------------- MODULE SettingsProofs ---------------------------
(***************************************************************************)
(* Proofs about Settings, for any number of handlers, tables and rows.     *)
(*                                                                         *)
(* That a table is filled once and completely rests on CREATE TABLE being  *)
(* refused the second time: a table has at most one filler, which has set  *)
(* all rows before the one it is at.  That an account is left rests on     *)
(* what a count is worth as long as no other handler deletes.              *)
(***************************************************************************)
EXTENDS Settings, FiniteSetTheorems, TLAPS

\* A table is made once, and the handlers in the middle of filling are at tables of
\* their own.
Making ==
  /\ \A t \in Tables : made[t] = IF t \in exists THEN 1 ELSE 0
  /\ \A h \in Handles : pc[h] = "insert" => TableOf(h) \in exists
  /\ \A h \in Handles : pc[h] \in {"check", "create"} => row[h] = 1
  /\ \A h, o \in Handles : pc[h] = "insert" /\ pc[o] = "insert" /\ h # o => at[h] # at[o]

\* What has been inserted of a table, by the handler that fills it, or in all.
SoFar(t, n) == \A i \in 1 .. n - 1 : rows[<<t, Defaults[t][i]>>] # None
Complete(t) == IF t = Account THEN lastId > 0 ELSE \A k \in KeysOf(t) : rows[<<t, k>>] # None
Fills(h, t) == pc[h] = "insert" /\ TableOf(h) = t /\ (t # Account => SoFar(t, row[h]))

Filling ==
  \A t \in exists \ interrupted : Complete(t) \/ \E h \in Handles : Fills(h, t)

\* A count of two or more holds until somebody else deletes.
TwoAccounts == \E a, b \in accounts : a # b
Counting ==
  /\ lastId > 0 /\ ~raced => accounts # {}
  /\ \A h \in Handles : pc[h] = "delete" /\ counted[h] > 1 /\ ~raced => TwoAccounts

SettingsInv == TypeOK /\ Making /\ Filling /\ Counting /\ UserValueStays /\ AnswersOwnSection

-----------------------------------------------------------------------------
(* Tables, rows and values                                                 *)

LEMMA OrderFacts ==
  /\ Len(Order) \in Nat \ {0} /\ DOMAIN Order = 1 .. Len(Order)
  /\ Order[1] = Account /\ Account \in Tables /\ KeyTables \subseteq Tables
  /\ \A i \in DOMAIN Order : Order[i] \in Tables
  /\ \A i, j \in DOMAIN Order : Order[i] = Order[j] => i = j
<1>1. TableOrder \in Seq(KeyTables)
  BY SettingsAssumption
<1>2. Len(Order) \in Nat \ {0} /\ DOMAIN Order = 1 .. Len(Order) /\ Order[1] = Account
  BY <1>1 DEF Order
<1>3. \A i \in DOMAIN Order : Order[i] \in Tables
  BY DEF Tables
<1> QED BY <1>2, <1>3, SettingsAssumption DEF KeyTables

LEMMA DefaultFacts ==
  ASSUME NEW t \in KeyTables
  PROVE  /\ Len(Defaults[t]) \in Nat \ {0}
         /\ \A i \in 1 .. Len(Defaults[t]) :
              Defaults[t][i] \in KeysOf(t) /\ <<t, Defaults[t][i]>> \in Rows
         /\ \A k \in KeysOf(t) : \E i \in 1 .. Len(Defaults[t]) : k = Defaults[t][i]
<1>1. Defaults[t] \in Seq(KeysOf(t)) \ {<<>>}
  BY SettingsAssumption
<1>2. Len(Defaults[t]) \in Nat \ {0} /\ DOMAIN Defaults[t] = 1 .. Len(Defaults[t])
  BY <1>1
<1>3. \A k \in KeysOf(t) : <<t, k>> \in Rows
  BY DEF Rows
<1> QED BY <1>2, <1>3 DEF KeysOf

LEMMA RowFacts ==
  ASSUME NEW p \in Rows
  PROVE  p[1] \in KeyTables /\ p[2] \in Keys /\ p = <<p[1], p[2]>>
BY DEF Rows, Keys

LEMMA ValueFacts ==
  /\ None \in Values
  /\ \A t \in KeyTables : \A who \in {"constructor", "SetValue"} :
       WrittenBy(who, t) \in Values /\ WrittenBy(who, t) # None
BY DEF Values, None, WrittenBy

-----------------------------------------------------------------------------
(* The initial state                                                       *)

LEMMA InitSettingsInv == Init => SettingsInv
<1> SUFFICES ASSUME Init PROVE SettingsInv
  OBVIOUS
<1> USE DEF Init
<1>1. \A h \in Handles : row[h] <= LastRow(TableOf(h))
  BY OrderFacts DEF TableOf, LastRow
<1>2. TypeOK
  <2>1. rows \in [Rows -> Values] /\ keymap \in [Handles -> [Keys -> Values]]
    BY ValueFacts DEF EmptyMap
  <2>2. accounts \subseteq 1 .. lastId /\ listed \in [Handles -> SUBSET (1 .. lastId)]
    OBVIOUS
  <2>3. /\ at \in [Handles -> DOMAIN Order] /\ row \in [Handles -> Nat \ {0}]
        /\ pc \in [Handles -> {"closed", "check", "create", "insert", "open", "unopened", "delete"}]
    BY OrderFacts
  <2>4. /\ counted \in [Handles -> Int] /\ edited \in [Handles -> 0 .. lastId]
        /\ made \in [Tables -> Nat] /\ lastId \in Nat
    OBVIOUS
  <2> QED BY <1>1, <2>1, <2>2, <2>3, <2>4 DEF TypeOK
<1>3. Making /\ Filling
  BY DEF Making, Filling
<1>4. Counting /\ UserValueStays
  BY DEF Counting, UserValueStays
<1>5. AnswersOwnSection
  BY DEF AnswersOwnSection
<1> QED BY <1>2, <1>3, <1>4, <1>5 DEF SettingsInv

-----------------------------------------------------------------------------
(* The parts that a step leaves alone                                      *)

\* What the constructors have come to stays as long as nobody begins to fill a table.
LEMMA MakingAlone ==
  ASSUME TypeOK, Making, UNCHANGED <<exists, made>>,
         \A h \in Handles : pc'[h] = "insert" => pc[h] = "insert" /\ at'[h] = at[h],
         \A h \in Handles : pc'[h] \in {"check", "create"} => row'[h] = 1
  PROVE  Making'
BY DEF Making, TableOf

\* And what has been filled, as long as no row is lost and a filler goes on or is done.
LEMMA FillingStep ==
  ASSUME TypeOK, Filling, UNCHANGED exists, interrupted \subseteq interrupted',
         lastId' \in Nat, lastId' >= lastId,
         \A p \in Rows : rows[p] # None => rows'[p] # None,
         \A h \in Handles, t \in exists \ interrupted' :
            Fills(h, t) => Fills(h, t)' \/ Complete(t)'
  PROVE  Filling'
<1> SUFFICES ASSUME NEW t \in exists' \ interrupted'
             PROVE  Complete(t)' \/ \E h \in Handles : Fills(h, t)'
  BY DEF Filling
<1>1. t \in exists \ interrupted /\ t \in Tables
  BY DEF TypeOK
<1>2. CASE Complete(t)
  <2>1. t # Account => \A k \in KeysOf(t) : <<t, k>> \in Rows
    BY <1>1 DEF Rows, KeyTables
  <2>2. Complete(t)'
    BY <1>2, <2>1 DEF Complete, TypeOK
  <2> QED BY <2>2
<1> QED BY <1>1, <1>2 DEF Filling

\* The rows a filler has tried are rows of the file.
LEMMA TriedRows ==
  ASSUME TypeOK, NEW h \in Handles, NEW t \in Tables \ {Account}, TableOf(h) = t
  PROVE  /\ t \in KeyTables /\ row[h] \in 1 .. Len(Defaults[t])
         /\ \A i \in 1 .. row[h] : <<t, Defaults[t][i]>> \in Rows
<1>1. t \in KeyTables /\ row[h] \in Nat \ {0} /\ row[h] <= Len(Defaults[t])
  BY DEF KeyTables, TypeOK, LastRow
<1> QED BY <1>1, DefaultFacts

LEMMA FillingAlone ==
  ASSUME TypeOK, Filling, UNCHANGED exists, interrupted \subseteq interrupted',
         lastId' \in Nat, lastId' >= lastId,
         \A p \in Rows : rows[p] # None => rows'[p] # None,
         \A h \in Handles : pc[h] = "insert" =>
            \/ pc'[h] = "insert" /\ at'[h] = at[h] /\ row'[h] = row[h]
            \/ TableOf(h) \in interrupted'
  PROVE  Filling'
<1>1. ASSUME NEW h \in Handles, NEW t \in exists \ interrupted', Fills(h, t)
      PROVE  Fills(h, t)'
  <2>1. t \in Tables /\ pc[h] = "insert" /\ TableOf(h) = t
    BY <1>1 DEF Fills, TypeOK
  <2>2. t # Account => \A i \in 1 .. row[h] - 1 : <<t, Defaults[t][i]>> \in Rows
    BY <2>1, TriedRows
  <2> QED BY <1>1, <2>1, <2>2 DEF Fills, SoFar, TableOf
<1> QED BY <1>1, FillingStep

\* What counts are worth stays as long as no account goes and no count is taken.
LEMMA CountingAlone ==
  ASSUME Counting, accounts \subseteq accounts', raced => raced',
         lastId' = lastId \/ accounts' # {},
         \A h \in Handles : pc'[h] = "delete" => pc[h] = "delete" /\ counted'[h] = counted[h]
  PROVE  Counting'
BY DEF Counting, TwoAccounts

LEMMA RowsAlone ==
  ASSUME UserValueStays, UNCHANGED <<rows, userSet>>
  PROVE  UserValueStays'
BY DEF UserValueStays

LEMMA NotAskedAnswers ==
  ASSUME NotAsked PROVE AnswersOwnSection'
BY DEF NotAsked, AnswersOwnSection

-----------------------------------------------------------------------------
(* The constructor                                                         *)

LEMMA OpenKeeps ==
  ASSUME SettingsInv, NEW h \in Handles, Open(h)
  PROVE  SettingsInv'
<1> USE DEF SettingsInv, Open, Goto, file, history
<1>1. pc' \in {[pc EXCEPT ![h] = "check"], [pc EXCEPT ![h] = "unopened"]}
  OBVIOUS
<1>2. TypeOK'
  <2>1. /\ at' \in [Handles -> DOMAIN Order] /\ row' \in [Handles -> Nat \ {0}]
        /\ \A o \in Handles : row'[o] <= LastRow(TableOf(o)')
    BY OrderFacts DEF TypeOK, TableOf, LastRow
  <2>2. keymap' \in [Handles -> [Keys -> Values]]
    BY ValueFacts DEF TypeOK, EmptyMap
  <2>3. /\ listed' \in [Handles -> SUBSET (1 .. lastId')] /\ edited' \in [Handles -> 0 .. lastId']
    BY DEF TypeOK
  <2> QED BY <1>1, <2>1, <2>2, <2>3 DEF TypeOK, NotAsked
<1>3. Making'
  <2>1. \A o \in Handles : o # h => pc'[o] = pc[o] /\ at'[o] = at[o] /\ row'[o] = row[o]
    BY <1>1 DEF TypeOK
  <2>2. row'[h] = 1 /\ pc'[h] # "insert"
    BY <1>1 DEF TypeOK
  <2> QED BY <2>1, <2>2, MakingAlone DEF Making
<1>4. Filling'
  <2>1. \A o \in Handles : pc[o] = "insert" =>
          pc'[o] = "insert" /\ at'[o] = at[o] /\ row'[o] = row[o]
    BY <1>1 DEF TypeOK
  <2>2. lastId' \in Nat /\ lastId' >= lastId
    BY DEF TypeOK
  <2> QED BY <2>1, <2>2, FillingAlone
<1>5. Counting'
  BY <1>1 DEF Counting, TwoAccounts, TypeOK
<1> QED BY <1>2, <1>3, <1>4, <1>5, RowsAlone, NotAskedAnswers

\* Where a constructor stands after a table.
LEMMA ToNextTableFacts ==
  ASSUME TypeOK, NEW h \in Handles, ToNextTable(h)
  PROVE  /\ pc' \in {[pc EXCEPT ![h] = "check"], [pc EXCEPT ![h] = "open"]}
         /\ row' = [row EXCEPT ![h] = 1]
         /\ at' \in [Handles -> DOMAIN Order]
         /\ \A o \in Handles : o # h => at'[o] = at[o]
         /\ \A o \in Handles : row'[o] \in Nat \ {0} /\ row'[o] <= LastRow(TableOf(o)')
<1>1. /\ pc' \in {[pc EXCEPT ![h] = "check"], [pc EXCEPT ![h] = "open"]}
      /\ row' = [row EXCEPT ![h] = 1]
      /\ at' = at \/ (TablesLeft(h) /\ at' = [at EXCEPT ![h] = @ + 1])
  BY DEF ToNextTable, Goto
<1>2. at[h] \in 1 .. Len(Order)
  BY OrderFacts DEF TypeOK
<1>3. TablesLeft(h) => at[h] + 1 \in DOMAIN Order
  BY <1>2, OrderFacts DEF TablesLeft
<1>4. at' \in [Handles -> DOMAIN Order] /\ \A o \in Handles : o # h => at'[o] = at[o]
  BY <1>1, <1>3 DEF TypeOK
<1>5. \A t \in Tables : LastRow(t) >= 1
  BY DefaultFacts DEF LastRow, KeyTables
<1>6. TableOf(h)' \in Tables
  BY <1>4, OrderFacts DEF TableOf
<1>7. \A o \in Handles : row'[o] \in Nat \ {0} /\ row'[o] <= LastRow(TableOf(o)')
  BY <1>1, <1>4, <1>5, <1>6 DEF TypeOK, TableOf
<1> QED BY <1>1, <1>4, <1>7

LEMMA CheckKeeps ==
  ASSUME SettingsInv, NEW h \in Handles, Check(h)
  PROVE  SettingsInv'
<1> USE DEF SettingsInv, Check, Goto, file, users, history, making
<1>1. \/ pc' = [pc EXCEPT ![h] = "create"] /\ UNCHANGED <<at, row>>
      \/ ToNextTable(h)
  OBVIOUS
<1>2. pc' \in {[pc EXCEPT ![h] = "check"], [pc EXCEPT ![h] = "open"], [pc EXCEPT ![h] = "create"]}
  BY <1>1, ToNextTableFacts
<1>3. /\ at' \in [Handles -> DOMAIN Order] /\ row' \in [Handles -> Nat \ {0}]
      /\ \A o \in Handles : row'[o] <= LastRow(TableOf(o)')
      /\ \A o \in Handles : o # h => at'[o] = at[o] /\ row'[o] = row[o]
      /\ row'[h] = 1
  <2>1. CASE pc' = [pc EXCEPT ![h] = "create"] /\ UNCHANGED <<at, row>>
    BY <2>1 DEF TypeOK, TableOf, Making
  <2>2. CASE ToNextTable(h)
    BY <2>2, ToNextTableFacts DEF TypeOK
  <2> QED BY <1>1, <2>1, <2>2
<1>4. TypeOK'
  BY <1>2, <1>3 DEF TypeOK, NotAsked
<1>5. Making'
  <2>1. \A o \in Handles : o # h => pc'[o] = pc[o] /\ at'[o] = at[o] /\ row'[o] = row[o]
    BY <1>2, <1>3 DEF TypeOK
  <2>2. row'[h] = 1 /\ pc'[h] # "insert"
    BY <1>2, <1>3 DEF TypeOK
  <2> QED BY <2>1, <2>2, MakingAlone DEF Making
<1>6. Filling'
  <2>1. \A o \in Handles : pc[o] = "insert" =>
          pc'[o] = "insert" /\ at'[o] = at[o] /\ row'[o] = row[o]
    BY <1>2, <1>3 DEF TypeOK
  <2>2. lastId' \in Nat /\ lastId' >= lastId
    BY DEF TypeOK
  <2> QED BY <2>1, <2>2, FillingAlone
<1>7. Counting'
  BY <1>2 DEF Counting, TwoAccounts, TypeOK
<1> QED BY <1>4, <1>5, <1>6, <1>7, RowsAlone, NotAskedAnswers

LEMMA CreateKeeps ==
  ASSUME SettingsInv, NEW h \in Handles, Create(h)
  PROVE  SettingsInv'
<1> USE DEF SettingsInv, Goto, making, users
<1> DEFINE t == TableOf(h)
<1>1. /\ pc[h] = "create"
      /\ UNCHANGED <<rows, accounts, lastId, keymap, counted, listed, edited>>
      /\ UNCHANGED <<interrupted, userSet, raced>> /\ NotAsked
      /\ \/ /\ t \notin exists /\ exists' = exists \cup {t} /\ made' = [made EXCEPT ![t] = @ + 1]
            /\ pc' = [pc EXCEPT ![h] = "insert"] /\ UNCHANGED <<at, row>>
         \/ ToNextTable(h) /\ UNCHANGED <<exists, made>>
  BY DEF Create, Creatable
<1>2. t \in Tables /\ row[h] = 1
  BY <1>1, OrderFacts DEF TypeOK, TableOf, Making
<1>3. Counting'
  BY <1>1, ToNextTableFacts DEF Counting, TwoAccounts, TypeOK
<1>4. CASE /\ t \notin exists /\ exists' = exists \cup {t} /\ made' = [made EXCEPT ![t] = @ + 1]
           /\ pc' = [pc EXCEPT ![h] = "insert"] /\ UNCHANGED <<at, row>>
  <2>1. TypeOK'
    BY <1>1, <1>2, <1>4 DEF TypeOK, TableOf, NotAsked
  <2>2. \A o \in Handles : pc[o] = "insert" => at[o] # at[h]
    BY <1>4 DEF Making, TableOf
  <2>3. Making'
    BY <1>1, <1>2, <1>4, <2>2 DEF Making, TypeOK, TableOf
  <2>4. Filling'
    <3> SUFFICES ASSUME NEW u \in exists' \ interrupted'
                 PROVE  Complete(u)' \/ \E o \in Handles : Fills(o, u)'
      BY DEF Filling
    <3>1. CASE u = t
      <4>1. Fills(h, u)'
        BY <1>1, <1>2, <1>4, <3>1 DEF Fills, SoFar, TableOf, TypeOK
      <4> QED BY <4>1
    <3>2. CASE u # t
      <4>1. Complete(u) \/ \E o \in Handles : Fills(o, u)
        BY <1>1, <1>4, <3>2 DEF Filling
      <4>2. Complete(u) => Complete(u)'
        BY <1>1 DEF Complete
      <4>3. \A o \in Handles : Fills(o, u) => Fills(o, u)'
        BY <1>1, <1>4 DEF Fills, SoFar, TableOf, TypeOK
      <4> QED BY <4>1, <4>2, <4>3
    <3> QED BY <3>1, <3>2
  <2> QED BY <1>1, <1>3, <2>1, <2>3, <2>4, RowsAlone, NotAskedAnswers
<1>5. CASE ToNextTable(h) /\ UNCHANGED <<exists, made>>
  <2>1. TypeOK'
    BY <1>1, <1>5, ToNextTableFacts DEF TypeOK, NotAsked
  <2>2. Making'
    <3>1. \A o \in Handles : o # h => pc'[o] = pc[o] /\ at'[o] = at[o] /\ row'[o] = row[o]
      BY <1>5, ToNextTableFacts DEF TypeOK
    <3>2. row'[h] = 1 /\ pc'[h] # "insert"
      BY <1>5, ToNextTableFacts DEF TypeOK
    <3> QED BY <1>5, <3>1, <3>2, MakingAlone DEF Making
  <2>3. Filling'
    <3>1. \A o \in Handles : pc[o] = "insert" =>
            pc'[o] = "insert" /\ at'[o] = at[o] /\ row'[o] = row[o]
      BY <1>1, <1>5, ToNextTableFacts DEF TypeOK
    <3>2. lastId' \in Nat /\ lastId' >= lastId
      BY <1>1 DEF TypeOK
    <3> QED BY <1>1, <1>5, <3>1, <3>2, FillingAlone
  <2> QED BY <1>1, <1>3, <2>1, <2>2, <2>3, RowsAlone, NotAskedAnswers
<1> QED BY <1>1, <1>4, <1>5

\* What an INSERT of the constructor does to the file: it loses nothing, and it sets what
\* it is to set or is noticed.
LEMMA InsertFacts ==
  ASSUME SettingsInv, NEW h \in Handles, InsertDefault(h), NEW t, t = TableOf(h)
  PROVE  /\ t \in exists /\ t \in Tables
         /\ rows' \in [Rows -> Values] /\ (\A q \in Rows : rows[q] # None => rows'[q] = rows[q])
         /\ interrupted \subseteq interrupted' /\ interrupted' \subseteq interrupted \cup {t}
         /\ lastId' \in Nat /\ lastId' >= lastId
         /\ accounts \subseteq accounts' /\ accounts' \subseteq 1 .. lastId'
         /\ lastId' = lastId \/ accounts' # {}
         /\ t # Account => rows'[<<t, Defaults[t][row[h]]>>] # None \/ t \in interrupted'
         /\ t = Account => lastId' > 0 \/ t \in interrupted'
<1>1. t \in exists /\ t \in Tables
  BY OrderFacts DEF SettingsInv, TypeOK, Making, InsertDefault, TableOf
<1>2. lastId \in Nat /\ accounts \subseteq 1 .. lastId /\ rows \in [Rows -> Values]
  BY DEF SettingsInv, TypeOK
<1>3. CASE t = Account
  <2>1. InsertAdmin /\ UNCHANGED rows
    BY <1>3 DEF InsertDefault
  <2>2. CASE lastId' = lastId + 1 /\ accounts' = accounts \cup {lastId'} /\ UNCHANGED interrupted
    BY <1>1, <1>2, <1>3, <2>1, <2>2
  <2>3. CASE interrupted' = interrupted \cup {Account} /\ UNCHANGED <<accounts, lastId>>
    BY <1>1, <1>2, <1>3, <2>1, <2>3
  <2> QED BY <2>1, <2>2, <2>3 DEF InsertAdmin
<1>4. CASE t # Account
  <2> DEFINE p == <<t, Defaults[t][row[h]]>>
  <2>1. InsertRow(h) /\ UNCHANGED <<accounts, lastId>>
    BY <1>4 DEF InsertDefault
  <2>2. p \in Rows /\ t \in KeyTables
    BY <1>1, <1>4, TriedRows DEF SettingsInv, TypeOK
  <2>3. CASE rows[p] # None /\ UNCHANGED <<rows, interrupted>>
    BY <1>1, <1>2, <1>4, <2>1, <2>3
  <2>4. CASE /\ rows[p] = None /\ UNCHANGED interrupted
             /\ rows' = [rows EXCEPT ![p] = WrittenBy("constructor", t)]
    <3>1. WrittenBy("constructor", t) \in Values /\ WrittenBy("constructor", t) # None
      BY <2>2, ValueFacts
    <3> QED BY <1>1, <1>2, <1>4, <2>1, <2>2, <2>4, <3>1
  <2>5. CASE interrupted' = interrupted \cup {t} /\ UNCHANGED rows
    BY <1>1, <1>2, <1>4, <2>1, <2>5
  <2> QED BY <2>1, <2>3, <2>4, <2>5 DEF InsertRow, Conflicts
<1> QED BY <1>3, <1>4

LEMMA InsertDefaultKeeps ==
  ASSUME SettingsInv, NEW h \in Handles, InsertDefault(h)
  PROVE  SettingsInv'
<1>1. PICK t : t = TableOf(h)
  OBVIOUS
<1>2. /\ TypeOK /\ Making /\ Filling /\ Counting /\ UserValueStays
  BY DEF SettingsInv
<1>3. /\ UNCHANGED <<exists, keymap, counted, listed, edited, made, userSet, raced>>
      /\ NotAsked /\ pc[h] = "insert"
      /\ \/ row[h] < LastRow(t) /\ row' = [row EXCEPT ![h] = @ + 1] /\ UNCHANGED <<pc, at>>
         \/ row[h] >= LastRow(t) /\ ToNextTable(h)
  <2>1. row[h] \in Nat /\ LastRow(t) \in Nat
    BY <1>1, <1>2, OrderFacts, DefaultFacts DEF TypeOK, LastRow, TableOf, KeyTables
  <2> QED BY <1>1, <2>1 DEF InsertDefault, users
<1>4. /\ t \in exists /\ t \in Tables
      /\ rows' \in [Rows -> Values] /\ (\A q \in Rows : rows[q] # None => rows'[q] = rows[q])
      /\ interrupted \subseteq interrupted' /\ interrupted' \subseteq interrupted \cup {t}
      /\ lastId' \in Nat /\ lastId' >= lastId
      /\ accounts \subseteq accounts' /\ accounts' \subseteq 1 .. lastId'
      /\ lastId' = lastId \/ accounts' # {}
      /\ t # Account => rows'[<<t, Defaults[t][row[h]]>>] # None \/ t \in interrupted'
      /\ t = Account => lastId' > 0 \/ t \in interrupted'
  BY <1>1, InsertFacts
<1>5. /\ at' \in [Handles -> DOMAIN Order] /\ row' \in [Handles -> Nat \ {0}]
      /\ \A o \in Handles : row'[o] <= LastRow(TableOf(o)')
      /\ \A o \in Handles : o # h => at'[o] = at[o] /\ row'[o] = row[o] /\ pc'[o] = pc[o]
      /\ pc' \in {pc, [pc EXCEPT ![h] = "check"], [pc EXCEPT ![h] = "open"]}
  <2>1. CASE row[h] < LastRow(t) /\ row' = [row EXCEPT ![h] = @ + 1] /\ UNCHANGED <<pc, at>>
    <3>1. row[h] + 1 <= LastRow(t)
      BY <1>1, <1>2, <2>1, OrderFacts, DefaultFacts DEF TypeOK, LastRow, TableOf, KeyTables
    <3> QED BY <1>1, <1>2, <2>1, <3>1 DEF TypeOK, TableOf
  <2>2. CASE ToNextTable(h)
    <3>1. row' \in [Handles -> Nat \ {0}]
      BY <1>2, <2>2, ToNextTableFacts DEF TypeOK
    <3> QED BY <1>2, <2>2, <3>1, ToNextTableFacts DEF TypeOK
  <2> QED BY <1>3, <2>1, <2>2
<1>6. TypeOK'
  <2>1. listed' \in [Handles -> SUBSET (1 .. lastId')] /\ edited' \in [Handles -> 0 .. lastId']
    BY <1>2, <1>3, <1>4 DEF TypeOK
  <2>2. pc' \in [Handles -> {"closed", "check", "create", "insert", "open", "unopened", "delete"}]
    BY <1>2, <1>5 DEF TypeOK
  <2>3. interrupted' \subseteq exists'
    BY <1>2, <1>3, <1>4 DEF TypeOK
  <2> QED BY <1>2, <1>3, <1>4, <1>5, <2>1, <2>2, <2>3 DEF TypeOK, NotAsked
<1>7. Making'
  <2>1. ASSUME NEW o \in Handles, pc'[o] = "insert" PROVE pc[o] = "insert" /\ at'[o] = at[o]
    <3>1. CASE o # h
      BY <1>5, <2>1, <3>1
    <3>2. CASE o = h
      BY <1>2, <1>3, <2>1, <3>2, ToNextTableFacts DEF TypeOK
    <3> QED BY <3>1, <3>2
  <2>2. ASSUME NEW o \in Handles, pc'[o] \in {"check", "create"} PROVE row'[o] = 1
    <3>1. CASE o # h
      BY <1>2, <1>5, <2>2, <3>1 DEF Making
    <3>2. CASE o = h
      BY <1>2, <1>3, <2>2, <3>2, ToNextTableFacts DEF TypeOK
    <3> QED BY <3>1, <3>2
  <2> QED BY <1>2, <1>3, <2>1, <2>2, MakingAlone
<1>8. Filling'
  <2>1. ASSUME NEW o \in Handles, NEW u \in exists \ interrupted', Fills(o, u)
        PROVE  Fills(o, u)' \/ Complete(u)'
    <3>1. pc[o] = "insert" /\ TableOf(o) = u /\ u \in Tables
      BY <1>2, <2>1 DEF Fills, TypeOK
    <3>2. u # Account => \A i \in 1 .. row[o] - 1 :
            <<u, Defaults[u][i]>> \in Rows /\ rows'[<<u, Defaults[u][i]>>] # None
      BY <1>2, <1>4, <2>1, <3>1, TriedRows DEF Fills, SoFar
    <3>3. CASE o # h
      BY <1>5, <2>1, <3>1, <3>2, <3>3 DEF Fills, SoFar, TableOf
    <3>4. CASE o = h
      <4>1. u = t
        BY <1>1, <3>1, <3>4
      <4>2. CASE u = Account
        BY <1>4, <2>1, <4>1, <4>2 DEF Complete
      <4>3. CASE u # Account
        <5>1. /\ row[h] \in 1 .. Len(Defaults[u]) /\ u \in KeyTables
              /\ Len(Defaults[u]) \in Nat
          BY <1>2, <3>1, <3>4, <4>3, TriedRows, DefaultFacts
        <5>2. \A i \in 1 .. row[h] : rows'[<<u, Defaults[u][i]>>] # None
          <6>1. rows'[<<u, Defaults[u][row[h]]>>] # None
            BY <1>4, <2>1, <4>1, <4>3
          <6>2. \A i \in 1 .. row[h] : i = row[h] \/ i \in 1 .. row[h] - 1
            BY <5>1
          <6> QED BY <3>2, <3>4, <4>3, <6>1, <6>2
        <5>3. CASE row[h] < LastRow(t) /\ row' = [row EXCEPT ![h] = @ + 1] /\ UNCHANGED <<pc, at>>
          <6>1. row'[h] = row[h] + 1
            BY <1>2, <5>3 DEF TypeOK
          <6>2. Fills(h, u)'
            BY <3>1, <3>4, <5>1, <5>2, <5>3, <6>1 DEF Fills, SoFar, TableOf
          <6> QED BY <3>4, <6>2
        <5>4. CASE row[h] >= LastRow(t)
          <6>1. row[h] = Len(Defaults[u])
            BY <4>1, <4>3, <5>1, <5>4 DEF LastRow
          <6>2. Complete(u)'
            BY <4>3, <5>1, <5>2, <6>1, DefaultFacts DEF Complete
          <6> QED BY <6>2
        <5> QED BY <1>3, <5>3, <5>4
      <4> QED BY <4>2, <4>3
    <3> QED BY <3>3, <3>4
  <2> QED BY <1>2, <1>3, <1>4, <2>1, FillingStep
<1>9. Counting'
  <2>1. \A o \in Handles : pc'[o] = "delete" => pc[o] = "delete" /\ counted'[o] = counted[o]
    BY <1>2, <1>3, <1>5 DEF TypeOK
  <2> QED BY <1>2, <1>3, <1>4, <2>1, CountingAlone
<1>10. UserValueStays'
  BY <1>2, <1>3, <1>4, ValueFacts, RowFacts DEF UserValueStays, TypeOK
<1> QED BY <1>3, <1>6, <1>7, <1>8, <1>9, <1>10, NotAskedAnswers DEF SettingsInv

-----------------------------------------------------------------------------
(* The uses of an open handler                                             *)

\* A use that adds what it adds to the file and leaves every constructor where it is.
LEMMA UseKeeps ==
  ASSUME SettingsInv, NEW h \in Handles,
         UNCHANGED <<exists, at, row, made, interrupted, userSet, rows>>,
         pc' = pc \/ pc' = [pc EXCEPT ![h] = "open"] \/ pc' = [pc EXCEPT ![h] = "delete"],
         pc[h] \in {"open", "unopened", "delete"},
         lastId' \in Nat, lastId' >= lastId, accounts' \subseteq 1 .. lastId',
         keymap' \in [Handles -> [Keys -> Values]],
         answer' # NoAnswer => \E p \in Rows, v \in Values : answer' = <<p[1], p[2], v>>,
         counted' \in [Handles -> Int],
         listed' \in [Handles -> SUBSET (1 .. lastId')], edited' \in [Handles -> 0 .. lastId'],
         raced' \in BOOLEAN
  PROVE  TypeOK' /\ Making' /\ Filling' /\ UserValueStays'
<1>1. TypeOK /\ Making /\ Filling /\ UserValueStays
  BY DEF SettingsInv
<1>2. \A o \in Handles : pc'[o] = pc[o] \/ (o = h /\ pc'[o] \in {"open", "delete"})
  BY <1>1 DEF TypeOK
<1>3. pc' \in [Handles -> {"closed", "check", "create", "insert", "open", "unopened", "delete"}]
  BY <1>1 DEF TypeOK
<1>4. TypeOK'
  BY <1>1, <1>3 DEF TypeOK, TableOf
<1>5. Making'
  BY <1>1, <1>2, MakingAlone DEF Making
<1>6. Filling'
  BY <1>1, <1>2, FillingAlone
<1> QED BY <1>1, <1>4, <1>5, <1>6, RowsAlone

LEMMA GetValueKeeps ==
  ASSUME SettingsInv, NEW h \in Handles, NEW p \in Rows, GetValue(h, p)
  PROVE  SettingsInv'
<1>1. TypeOK /\ Counting
  BY DEF SettingsInv
<1>2. /\ UNCHANGED <<exists, rows, accounts, lastId, pc, at, row, counted, listed, edited>>
      /\ UNCHANGED <<made, interrupted, userSet, raced>>
      /\ pc[h] \in {"open", "unopened"}
  BY DEF GetValue, file, making, users, history
<1>3. rows[p] \in Values /\ p[1] \in KeyTables /\ p[2] \in Keys
  BY <1>1, RowFacts DEF TypeOK
<1>4. Refreshed(h, p) \in Values /\ (rows[p] # None => Refreshed(h, p) = rows[p])
  BY <1>1, <1>3 DEF TypeOK, Refreshed
<1>5. /\ keymap' \in [Handles -> [Keys -> Values]]
      /\ \E v \in Values : answer' = <<p[1], p[2], v>> /\ (rows[p] # None => v \in {None, rows[p]})
  <2>1. CASE /\ keymap' = [keymap EXCEPT ![h][p[2]] = Refreshed(h, p)]
             /\ answer' = <<p[1], p[2], Refreshed(h, p)>>
    BY <1>1, <1>3, <1>4, <2>1 DEF TypeOK
  <2>2. CASE answer' = <<p[1], p[2], None>> /\ UNCHANGED keymap
    BY <1>1, <2>2, ValueFacts DEF TypeOK
  <2> QED BY <2>1, <2>2 DEF GetValue
<1>6. TypeOK' /\ Making' /\ Filling' /\ UserValueStays'
  <2>1. /\ counted \in [Handles -> Int] /\ listed \in [Handles -> SUBSET (1 .. lastId)]
        /\ edited \in [Handles -> 0 .. lastId] /\ raced \in BOOLEAN /\ lastId \in Nat
        /\ accounts \subseteq 1 .. lastId
    BY <1>1 DEF TypeOK
  <2>2. /\ counted' \in [Handles -> Int] /\ listed' \in [Handles -> SUBSET (1 .. lastId')]
        /\ edited' \in [Handles -> 0 .. lastId'] /\ raced' \in BOOLEAN /\ lastId' \in Nat
        /\ accounts' \subseteq 1 .. lastId' /\ lastId' >= lastId
    BY <1>2, <2>1
  <2>3. answer' # NoAnswer => \E q \in Rows, v \in Values : answer' = <<q[1], q[2], v>>
    BY <1>5
  <2> QED BY <1>2, <1>5, <2>2, <2>3, UseKeeps
<1>7. Counting'
  BY <1>1, <1>2, CountingAlone
<1>8. AnswersOwnSection'
  <2>1. PICK v \in Values : answer' = <<p[1], p[2], v>> /\ (rows[p] # None => v \in {None, rows[p]})
    BY <1>5
  <2>2. <<answer'[1], answer'[2]>> = p /\ answer'[3] = v
    BY <2>1, RowFacts
  <2>3. ASSUME p[1] \in exists \ interrupted, ~BeingFilled(p[1])
        PROVE  rows[p] # None
    <3>1. Complete(p[1])
      BY <2>3 DEF SettingsInv, Filling, Fills, BeingFilled
    <3>2. p[1] # Account /\ p[2] \in KeysOf(p[1]) /\ p = <<p[1], p[2]>>
      BY RowFacts DEF Rows, KeyTables
    <3> QED BY <3>1, <3>2 DEF Complete
  <2>4. BeingFilled(p[1])' <=> BeingFilled(p[1])
    BY <1>2 DEF BeingFilled, TableOf
  <2> QED BY <1>2, <2>1, <2>2, <2>3, <2>4 DEF AnswersOwnSection
<1> QED BY <1>6, <1>7, <1>8 DEF SettingsInv

LEMMA SetValueKeeps ==
  ASSUME SettingsInv, NEW h \in Handles, NEW p \in Rows, SetValue(h, p)
  PROVE  SettingsInv'
<1>1. TypeOK /\ Making /\ Filling /\ Counting /\ UserValueStays
  BY DEF SettingsInv
<1>2. /\ UNCHANGED <<exists, accounts, lastId, pc, at, row, counted, listed, edited>>
      /\ UNCHANGED <<keymap, made, interrupted, raced>> /\ NotAsked
      /\ rows' = [rows EXCEPT ![p] = WrittenBy("SetValue", p[1])]
      /\ userSet' = userSet \cup {p}
  BY DEF SetValue, making, users
<1>3. WrittenBy("SetValue", p[1]) \in Values /\ WrittenBy("SetValue", p[1]) # None
  BY RowFacts, ValueFacts
<1>4. TypeOK'
  BY <1>1, <1>2, <1>3 DEF TypeOK, NotAsked, TableOf
<1>5. Making'
  BY <1>1, <1>2, MakingAlone DEF Making
<1>6. Filling'
  <2>1. \A q \in Rows : rows[q] # None => rows'[q] # None
    BY <1>1, <1>2, <1>3 DEF TypeOK
  <2>2. lastId' \in Nat /\ lastId' >= lastId
    BY <1>1, <1>2 DEF TypeOK
  <2> QED BY <1>1, <1>2, <2>1, <2>2, FillingAlone
<1>7. Counting'
  BY <1>1, <1>2, CountingAlone
<1>8. UserValueStays'
  BY <1>1, <1>2 DEF UserValueStays, TypeOK
<1> QED BY <1>2, <1>4, <1>5, <1>6, <1>7, <1>8, NotAskedAnswers DEF SettingsInv

LEMMA AddUserKeeps ==
  ASSUME SettingsInv, NEW h \in Handles, AddUser(h) \/ \E id \in 1 .. lastId : UpdateUser(h, id)
  PROVE  SettingsInv'
<1>1. TypeOK /\ Counting
  BY DEF SettingsInv
<1>2. /\ UNCHANGED <<exists, rows, pc, at, row, counted, listed, edited, keymap>>
      /\ UNCHANGED <<made, interrupted, userSet, raced>> /\ NotAsked /\ pc[h] = "open"
  BY DEF AddUser, UpdateUser, making, users, history
<1>3. /\ lastId' \in Nat /\ lastId' >= lastId /\ accounts' \subseteq 1 .. lastId'
      /\ accounts \subseteq accounts' /\ accounts' # {}
  <2>1. lastId \in Nat /\ accounts \subseteq 1 .. lastId /\ MaxId \in Nat
    BY <1>1, SettingsAssumption DEF TypeOK
  <2>2. CASE AddUser(h)
    BY <2>1, <2>2 DEF AddUser
  <2>3. ASSUME NEW id \in 1 .. lastId, UpdateUser(h, id)
        PROVE  UNCHANGED lastId /\ id \in 1 .. lastId /\ accounts' = accounts \cup {id}
    BY <2>1, <2>3 DEF UpdateUser
  <2>4. CASE \E id \in 1 .. lastId : UpdateUser(h, id)
    <3>1. PICK id \in 1 .. lastId : UNCHANGED lastId /\ accounts' = accounts \cup {id}
      BY <2>3, <2>4
    <3> QED BY <2>1, <3>1
  <2> QED BY <2>2, <2>4
<1>4. TypeOK' /\ Making' /\ Filling' /\ UserValueStays'
  <2>1. /\ counted' \in [Handles -> Int] /\ keymap' \in [Handles -> [Keys -> Values]]
        /\ raced' \in BOOLEAN
    BY <1>1, <1>2 DEF TypeOK
  <2>2. listed' \in [Handles -> SUBSET (1 .. lastId')] /\ edited' \in [Handles -> 0 .. lastId']
    BY <1>1, <1>2, <1>3 DEF TypeOK
  <2> QED BY <1>2, <1>3, <2>1, <2>2, UseKeeps DEF NotAsked
<1>5. Counting'
  BY <1>1, <1>2, <1>3, CountingAlone
<1> QED BY <1>2, <1>4, <1>5, NotAskedAnswers DEF SettingsInv

\* SearchUsers and GetUser read only.
LEMMA LookKeeps ==
  ASSUME SettingsInv, NEW h \in Handles, SearchUsers(h) \/ \E id \in 1 .. lastId + 1 : GetUser(h, id)
  PROVE  SettingsInv'
<1>1. TypeOK /\ Counting
  BY DEF SettingsInv
<1>2. /\ UNCHANGED <<exists, rows, accounts, lastId, pc, at, row, counted, keymap>>
      /\ UNCHANGED <<made, interrupted, userSet, raced>> /\ NotAsked /\ pc[h] = "open"
  BY DEF SearchUsers, GetUser, file, making, history
<1>3. lastId \in Nat /\ accounts \subseteq 1 .. lastId
  BY <1>1 DEF TypeOK
<1>4. listed' \in [Handles -> SUBSET (1 .. lastId')] /\ edited' \in [Handles -> 0 .. lastId']
  <2>1. listed \in [Handles -> SUBSET (1 .. lastId)] /\ edited \in [Handles -> 0 .. lastId]
    BY <1>1 DEF TypeOK
  <2>2. CASE SearchUsers(h)
    BY <1>2, <1>3, <2>1, <2>2 DEF SearchUsers
  <2>3. ASSUME NEW id \in 1 .. lastId + 1, GetUser(h, id)
        PROVE  /\ listed' \in [Handles -> SUBSET (1 .. lastId')]
               /\ edited' \in [Handles -> 0 .. lastId']
    BY <1>2, <1>3, <2>1, <2>3 DEF GetUser
  <2> QED BY <2>2, <2>3
<1>5. TypeOK' /\ Making' /\ Filling' /\ UserValueStays'
  <2>1. /\ counted' \in [Handles -> Int] /\ keymap' \in [Handles -> [Keys -> Values]]
        /\ raced' \in BOOLEAN
    BY <1>1, <1>2 DEF TypeOK
  <2> QED BY <1>2, <1>3, <1>4, <2>1, UseKeeps DEF NotAsked
<1>6. Counting'
  BY <1>1, <1>2, CountingAlone
<1> QED BY <1>2, <1>5, <1>6, NotAskedAnswers DEF SettingsInv

-----------------------------------------------------------------------------
(* DeleteUser                                                              *)

LEMMA CardinalityTwo ==
  ASSUME NEW S, IsFiniteSet(S), Cardinality(S) > 1
  PROVE  \E a, b \in S : a # b
<1> SUFFICES ASSUME \A a, b \in S : a = b PROVE FALSE
  OBVIOUS
<1>1. CASE S = {}
  BY <1>1, FS_EmptySet
<1>2. CASE S # {}
  <2>1. PICK a \in S : S = {a}
    BY <1>2
  <2>2. Cardinality(S) = 1
    BY <2>1, FS_Singleton
  <2> QED BY <2>2
<1> QED BY <1>1, <1>2

LEMMA CountKeeps ==
  ASSUME SettingsInv, NEW h \in Handles, CountUsers(h)
  PROVE  SettingsInv'
<1>1. TypeOK /\ Counting
  BY DEF SettingsInv
<1>2. /\ UNCHANGED <<exists, rows, accounts, lastId, at, row, listed, edited, keymap>>
      /\ UNCHANGED <<made, interrupted, userSet, raced>> /\ NotAsked /\ pc[h] = "open"
      /\ pc' = [pc EXCEPT ![h] = "delete"]
      /\ counted' \in {[counted EXCEPT ![h] = Cardinality(accounts)], [counted EXCEPT ![h] = -1]}
  BY DEF CountUsers, file, making, history, Goto
<1>3. lastId \in Nat /\ accounts \subseteq 1 .. lastId
  BY <1>1 DEF TypeOK
<1>4. IsFiniteSet(accounts) /\ Cardinality(accounts) \in Nat
  <2>1. IsFiniteSet(1 .. lastId)
    BY <1>3, FS_Interval
  <2>2. IsFiniteSet(accounts)
    BY <1>3, <2>1, FS_Subset
  <2> QED BY <2>2, FS_CardinalityType
<1>5. counted' \in [Handles -> Int]
  BY <1>1, <1>2, <1>4 DEF TypeOK
<1>6. TypeOK' /\ Making' /\ Filling' /\ UserValueStays'
  <2>1. /\ keymap' \in [Handles -> [Keys -> Values]] /\ raced' \in BOOLEAN
        /\ listed' \in [Handles -> SUBSET (1 .. lastId')] /\ edited' \in [Handles -> 0 .. lastId']
    BY <1>1, <1>2 DEF TypeOK
  <2>2. answer' = NoAnswer /\ accounts' \subseteq 1 .. lastId' /\ lastId' \in Nat /\ lastId' >= lastId
    BY <1>2, <1>3 DEF NotAsked
  <2> QED BY <1>2, <1>5, <2>1, <2>2, UseKeeps
<1>7. Counting'
  <2>1. counted'[h] > 1 => TwoAccounts
    <3>1. counted'[h] = Cardinality(accounts) \/ counted'[h] = -1
      BY <1>1, <1>2 DEF TypeOK
    <3>2. Cardinality(accounts) > 1 => \E a, b \in accounts : a # b
      BY <1>4, CardinalityTwo
    <3> QED BY <3>1, <3>2 DEF TwoAccounts
  <2>2. \A o \in Handles : o # h => pc'[o] = pc[o] /\ counted'[o] = counted[o]
    BY <1>1, <1>2 DEF TypeOK
  <2> QED BY <1>1, <1>2, <2>1, <2>2 DEF Counting, TwoAccounts
<1> QED BY <1>2, <1>6, <1>7, NotAskedAnswers DEF SettingsInv

LEMMA DeleteKeeps ==
  ASSUME SettingsInv, NEW h \in Handles,
         DeleteNothing(h) \/ \E id \in 1 .. lastId + 1 : DeleteUser(h, id)
  PROVE  SettingsInv'
<1>1. TypeOK /\ Counting
  BY DEF SettingsInv
<1>2. /\ UNCHANGED <<exists, rows, lastId, at, row, listed, edited, keymap>>
      /\ UNCHANGED <<made, interrupted, userSet>> /\ NotAsked /\ pc[h] = "delete"
      /\ pc' = [pc EXCEPT ![h] = "open"]
      /\ counted' = [counted EXCEPT ![h] = 0]
  BY DEF DeleteNothing, DeleteUser, file, making, history, Goto
<1>3. \/ UNCHANGED <<accounts, raced>>
      \/ \E id \in 1 .. lastId + 1 :
           /\ counted[h] > 1 /\ accounts' = accounts \ {id}
           /\ raced' = (raced \/ (id \in accounts /\ \E o \in Handles \ {h} : pc[o] = "delete"))
  BY DEF DeleteNothing, DeleteUser, file, history, EnoughLeft
<1>4. lastId \in Nat /\ accounts' \subseteq 1 .. lastId /\ raced' \in BOOLEAN
  BY <1>1, <1>3 DEF TypeOK
<1>5. TypeOK' /\ Making' /\ Filling' /\ UserValueStays'
  <2>1. /\ keymap' \in [Handles -> [Keys -> Values]] /\ counted' \in [Handles -> Int]
        /\ listed' \in [Handles -> SUBSET (1 .. lastId')] /\ edited' \in [Handles -> 0 .. lastId']
    BY <1>1, <1>2 DEF TypeOK
  <2>2. answer' = NoAnswer /\ accounts' \subseteq 1 .. lastId' /\ lastId' \in Nat /\ lastId' >= lastId
    BY <1>2, <1>4 DEF NotAsked
  <2> QED BY <1>2, <1>4, <2>1, <2>2, UseKeeps
<1>6. Counting'
  <2>1. \A o \in Handles : pc'[o] = "delete" => o # h /\ pc[o] = "delete" /\ counted'[o] = counted[o]
    BY <1>1, <1>2 DEF TypeOK
  <2>2. CASE UNCHANGED <<accounts, raced>>
    BY <1>1, <1>2, <2>1, <2>2, CountingAlone
  <2>3. ASSUME NEW id \in 1 .. lastId + 1, counted[h] > 1, accounts' = accounts \ {id},
               raced' = (raced \/ (id \in accounts /\ \E o \in Handles \ {h} : pc[o] = "delete"))
        PROVE  Counting'
    <3>1. ~raced => accounts' # {}
      BY <1>1, <1>2, <2>3 DEF Counting, TwoAccounts
    <3>2. ASSUME NEW o \in Handles, pc'[o] = "delete", ~raced' PROVE accounts' = accounts /\ ~raced
      BY <2>1, <2>3, <3>2
    <3>3. raced => raced'
      BY <2>3
    <3> QED BY <1>1, <2>1, <3>1, <3>2, <3>3 DEF Counting, TwoAccounts
  <2> QED BY <1>3, <2>2, <2>3
<1> QED BY <1>2, <1>5, <1>6, NotAskedAnswers DEF SettingsInv

LEMMA CloseKeeps ==
  ASSUME SettingsInv, NEW h \in Handles, Close(h)
  PROVE  SettingsInv'
<1>1. TypeOK /\ Making /\ Filling /\ Counting /\ UserValueStays
  BY DEF SettingsInv
<1>2. /\ UNCHANGED <<exists, rows, accounts, lastId, at, row, listed, edited, keymap>>
      /\ UNCHANGED <<made, userSet, raced>> /\ NotAsked
      /\ pc' = [pc EXCEPT ![h] = "closed"]
      /\ counted' = [counted EXCEPT ![h] = 0]
      /\ interrupted' = IF pc[h] = "insert" THEN interrupted \cup {TableOf(h)} ELSE interrupted
  BY DEF Close, file, making, Goto
<1>3. \A o \in Handles : (o # h => pc'[o] = pc[o] /\ counted'[o] = counted[o]) /\ (o = h => pc'[o] = "closed")
  BY <1>1, <1>2 DEF TypeOK
<1>4. TypeOK'
  <2>1. interrupted' \subseteq exists
    BY <1>1, <1>2 DEF TypeOK, Making
  <2>2. counted' \in [Handles -> Int]
    BY <1>1, <1>2 DEF TypeOK
  <2>3. pc' \in [Handles -> {"closed", "check", "create", "insert", "open", "unopened", "delete"}]
    BY <1>1, <1>2 DEF TypeOK
  <2> QED BY <1>1, <1>2, <2>1, <2>2, <2>3 DEF TypeOK, NotAsked, TableOf
<1>5. Making'
  BY <1>1, <1>2, <1>3, MakingAlone DEF Making
<1>6. Filling'
  <2>1. lastId' \in Nat /\ lastId' >= lastId
    BY <1>1, <1>2 DEF TypeOK
  <2> QED BY <1>1, <1>2, <1>3, <2>1, FillingAlone
<1>7. Counting'
  BY <1>1, <1>2, <1>3, CountingAlone
<1>8. UserValueStays'
  BY <1>1, <1>2, RowsAlone
<1> QED BY <1>2, <1>4, <1>5, <1>6, <1>7, <1>8, NotAskedAnswers DEF SettingsInv

LEMMA SettingsStepKeeps == SettingsInv /\ [Next]_vars => SettingsInv'
<1> SUFFICES ASSUME SettingsInv, [Next]_vars PROVE SettingsInv'
  OBVIOUS
<1>1. ASSUME NEW h \in Handles, Construct(h) PROVE SettingsInv'
  BY <1>1, OpenKeeps, CheckKeeps, CreateKeeps, InsertDefaultKeeps DEF Construct
<1>2. ASSUME NEW h \in Handles, Use(h) PROVE SettingsInv'
  BY <1>2, GetValueKeeps, SetValueKeeps, AddUserKeeps, LookKeeps, CountKeeps, DeleteKeeps DEF Use
<1>3. CASE UNCHANGED vars
  <2>1. TypeOK' /\ Making' /\ Filling'
    BY <1>3 DEF vars, file, making, users, history, SettingsInv, TypeOK, Making, Filling, Fills,
                SoFar, Complete, TableOf
  <2>2. Counting' /\ UserValueStays' /\ AnswersOwnSection'
    BY <1>3 DEF vars, file, making, users, history, SettingsInv, Counting, TwoAccounts,
                UserValueStays, AnswersOwnSection, BeingFilled, TableOf
  <2> QED BY <2>1, <2>2 DEF SettingsInv
<1> QED BY <1>1, <1>2, <1>3, CloseKeeps DEF Next

-----------------------------------------------------------------------------
(* The theorems                                                            *)

\* The inductive invariant, and with it TypeOK, holds however handlers come, go and crash.
THEOREM SettingsInductive == Spec => []SettingsInv
<1>1. Init => SettingsInv
  BY InitSettingsInv
<1>2. SettingsInv /\ [Next]_vars => SettingsInv'
  BY SettingsStepKeeps
<1> QED BY <1>1, <1>2, PTL DEF Spec

\* However many handlers find a table missing, it is made and filled by one of them.
THEOREM TablesFilledOnce == Spec => []FilledOnce
<1>1. SettingsInv => FilledOnce
  BY DEF SettingsInv, Making, FilledOnce
<1> QED BY <1>1, SettingsInductive, PTL

\* A table without a filler lacks a row only if its filler ended or an INSERT failed.
THEOREM TablesComplete == Spec => []CompleteUnlessInterrupted
<1>1. SettingsInv => CompleteUnlessInterrupted
  BY DEF SettingsInv, Filling, Fills, Complete, CompleteUnlessInterrupted, BeingFilled
<1> QED BY <1>1, SettingsInductive, PTL

\* No constructor writes over what SetValue has written.
THEOREM UserValuesStay == Spec => []UserValueStays
<1>1. SettingsInv => UserValueStays
  BY DEF SettingsInv
<1> QED BY <1>1, SettingsInductive, PTL

\* The shared, never cleared keymap does not make GetValue answer anything stale, or of
\* another section, about a table that was filled without interruption.
THEOREM OwnSection == Spec => []AnswersOwnSection
<1>1. SettingsInv => AnswersOwnSection
  BY DEF SettingsInv
<1> QED BY <1>1, SettingsInductive, PTL

\* DeleteUser leaves an account unless another deletes between its count and its DELETE.
THEOREM OneAccountLeft == Spec => []AccountLeft
<1>1. SettingsInv => AccountLeft
  BY DEF SettingsInv, Counting, AccountLeft
<1> QED BY <1>1, SettingsInductive, PTL
=============================================================================
