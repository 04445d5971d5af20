---------------------------- MODULE RecordsProofs ----------------------------
(***************************************************************************)
(* Proofs about Records, for any number of CDb objects and recordings.     *)
(*                                                                         *)
(* The inductive invariant has a part for the recordings, which says what  *)
(* a result that a purge still works on may hold after others have worked  *)
(* on the same rows, and one for the connection of each object.            *)
(***************************************************************************)
EXTENDS Records, FiniteSetTheorems, TLAPS

\* The statements between Connect and Close.
Connected == {"database", "table", "select", "file", "row"}

\* The rows, the files and what was removed are of recordings made; no row comes back.
StoreInv ==
  /\ rows \cup files \cup removed \subseteq 1 .. recorded
  /\ rows \cap removed = {}
  /\ removed \cap files = {}
  /\ outdated <= recorded

\* What a purge has left to remove has, or had, a row, and is out of date; the row that
\* it removes next has lost its file, whoever deleted it.
PurgeInv ==
  \A d \in Dbs :
    /\ cut[d] <= outdated
    /\ \A i \in DOMAIN todo[d] : todo[d][i] \in rows \cup removed /\ todo[d][i] <= outdated
    /\ pc[d] = "row" => todo[d] # <<>> /\ Head(todo[d]) \notin files

\* An object at rest that has a handle has it for a reason that excuses its loss.
HandleInv ==
  \A d \in Dbs :
    /\ pc[d] \in Connected => dbOpen[d]
    /\ pc[d] \in {"idle", "connect"} /\ con[d] # "none" => excused[d]
    /\ leaked[d] => excused[d]

RecordsInv == TypeOK /\ StoreInv /\ PurgeInv /\ HandleInv

-----------------------------------------------------------------------------
(* Sequences                                                               *)

LEMMA TailFacts ==
  ASSUME NEW S, NEW q \in Seq(S), q # <<>>
  PROVE  /\ Head(q) = q[1] /\ 1 \in DOMAIN q /\ Head(q) \in S /\ Tail(q) \in Seq(S)
         /\ \A i \in DOMAIN Tail(q) : i + 1 \in DOMAIN q /\ Tail(q)[i] = q[i + 1]
OBVIOUS

\* A result has the rows that the SELECT asks for, and no others.
LEMMA ResultFacts ==
  ASSUME NEW n \in Nat, NEW S \in SUBSET (1 .. n), NEW q \in SetToSeqs(S)
  PROVE  q \in Seq(Nat) /\ \A i \in DOMAIN q : q[i] \in S
<1>1. IsFiniteSet(1 .. n)
  BY FS_Interval
<1>2. Cardinality(S) \in Nat
  BY <1>1, FS_Subset, FS_CardinalityType
<1>3. PICK k \in Nat : q \in [1 .. k -> S]
  BY <1>2 DEF SetToSeqs
<1>4. S \subseteq Nat
  OBVIOUS
<1>5. q \in Seq(S)
  BY <1>3
<1>6. q \in Seq(Nat)
  <2>1. Len(q) \in Nat /\ DOMAIN q = 1 .. Len(q) /\ \A i \in 1 .. Len(q) : q[i] \in S
    BY <1>5
  <2>2. q = [i \in 1 .. Len(q) |-> q[i]]
    BY <1>5
  <2>3. \A i \in 1 .. Len(q) : q[i] \in Nat
    BY <2>1, <1>4
  <2>4. [i \in 1 .. Len(q) |-> q[i]] \in [1 .. Len(q) -> Nat]
    BY <2>3
  <2> QED BY <2>1, <2>2, <2>4
<1> QED BY <1>3, <1>6

-----------------------------------------------------------------------------
(* Every step keeps the invariant                                          *)

LEMMA InitRecordsInv == Init => RecordsInv
<1> SUFFICES ASSUME Init PROVE RecordsInv
  OBVIOUS
<1> USE DEF Init
<1>1. TypeOK
  <2>1. todo \in [Dbs -> Seq(Nat)]
    OBVIOUS
  <2> QED BY <2>1 DEF TypeOK
<1>2. StoreInv
  BY DEF StoreInv
<1>3. PurgeInv
  BY DEF PurgeInv
<1>4. HandleInv
  BY DEF HandleInv, Connected
<1> QED BY <1>1, <1>2, <1>3, <1>4 DEF RecordsInv

\* How many rows there are is a number.
LEMMA RowsCounted == RecordsInv => Cardinality(rows) \in Nat
<1> SUFFICES ASSUME RecordsInv PROVE Cardinality(rows) \in Nat
  OBVIOUS
<1>1. recorded \in Nat /\ rows \subseteq 1 .. recorded
  BY DEF RecordsInv, TypeOK, StoreInv
<1>2. IsFiniteSet(1 .. recorded)
  BY <1>1, FS_Interval
<1> QED BY <1>1, <1>2, FS_Subset, FS_CardinalityType

\* A step that leaves the recordings alone, and of d's purge leaves no more to do than
\* there was: all but those that add or remove something.
LEMMA StoreStays ==
  ASSUME RecordsInv, NEW d \in Dbs, UNCHANGED <<rows, files, removed, recorded, outdated>>,
         \/ UNCHANGED <<cut, todo>>
         \/ /\ todo' = [todo EXCEPT ![d] = <<>>] \/ UNCHANGED todo
            /\ cut' = [cut EXCEPT ![d] = 0] \/ cut' = [cut EXCEPT ![d] = outdated],
         \A o \in Dbs : pc'[o] = "row" => pc[o] = "row" /\ todo'[o] = todo[o]
  PROVE  StoreInv' /\ PurgeInv'
<1>1. StoreInv'
  BY DEF RecordsInv, StoreInv
<1>2. ASSUME NEW o \in Dbs
      PROVE  /\ cut'[o] <= outdated
             /\ todo'[o] = todo[o] \/ todo'[o] = <<>>
  BY <1>2 DEF RecordsInv, PurgeInv, TypeOK
<1>3. PurgeInv'
  BY <1>2 DEF RecordsInv, PurgeInv, TypeOK
<1> QED BY <1>1, <1>3

LEMMA BeginKeeps ==
  ASSUME RecordsInv, NEW d \in Dbs, NEW what \in {"establish", "search", "purge"}, Begin(d, what)
  PROVE  RecordsInv'
<1> USE DEF RecordsInv, Begin, Goto, store, world, handle
<1>1. TypeOK'
  BY DEF TypeOK
<1>2. cut' = [cut EXCEPT ![d] = 0] \/ cut' = [cut EXCEPT ![d] = outdated]
  BY DEF TypeOK
<1>3. StoreInv' /\ PurgeInv'
  BY <1>2, StoreStays DEF TypeOK
<1>4. HandleInv'
  BY DEF HandleInv, Connected, TypeOK
<1> QED BY <1>1, <1>3, <1>4

LEMMA ConnectKeeps ==
  ASSUME RecordsInv, NEW d \in Dbs, Connect(d) \/ CheckDataBase(d)
  PROVE  RecordsInv'
<1> USE DEF RecordsInv, Connect, CheckDataBase, NewHandle, Goto, store, world, work
<1>1. TypeOK'
  BY DEF TypeOK
<1>2. StoreInv' /\ PurgeInv'
  BY StoreStays DEF TypeOK
<1>3. CASE Connect(d)
  BY <1>1, <1>2, <1>3 DEF HandleInv, Connected, TypeOK
<1>4. CASE CheckDataBase(d)
  BY <1>1, <1>2, <1>4 DEF HandleInv, Connected, TypeOK
<1> QED BY <1>3, <1>4

\* The failures that end an operation leave a handle behind, and excuse it.
LEMMA FailKeeps ==
  ASSUME RecordsInv, NEW d \in Dbs, ConnectFails(d) \/ StatementFails(d)
  PROVE  RecordsInv'
<1> USE DEF RecordsInv, Fail, Return, store, world
<1>1. /\ Fail(d) /\ con' \in [Dbs -> {"none", "failed", "open", "ready"}]
      /\ leaked' \in [Dbs -> BOOLEAN] /\ UNCHANGED dbOpen
      /\ \A o \in Dbs \ {d} : con'[o] = con[o] /\ leaked'[o] = leaked[o]
  <2>1. CASE ConnectFails(d)
    <3>1. dbOpen' = [dbOpen EXCEPT ![d] = dbOpen[d]] /\ Fail(d)
      BY <2>1 DEF ConnectFails, NewHandle
    <3> QED BY <2>1, <3>1 DEF ConnectFails, NewHandle, TypeOK
  <2>2. CASE StatementFails(d)
    BY <2>2 DEF StatementFails, handle, TypeOK
  <2> QED BY <2>1, <2>2
<1>2. TypeOK'
  BY <1>1 DEF TypeOK
<1>3. StoreInv' /\ PurgeInv'
  BY <1>1, StoreStays DEF TypeOK
<1>4. HandleInv'
  BY <1>1 DEF HandleInv, Connected, TypeOK
<1> QED BY <1>2, <1>3, <1>4

LEMMA CheckTableKeeps ==
  ASSUME RecordsInv, NEW d \in Dbs, CheckTable(d)
  PROVE  RecordsInv'
<1> USE DEF RecordsInv, CheckTable, Return, world, handle
<1>1. TypeOK'
  BY DEF TypeOK
<1>2. StoreInv' /\ PurgeInv'
  BY StoreStays DEF TypeOK
<1>3. HandleInv'
  BY DEF HandleInv, Connected, TypeOK
<1> QED BY <1>1, <1>2, <1>3

\* Search and EndPurge, whose Close finds dbOpen set, and leaves no handle.
LEMMA ReturnKeeps ==
  ASSUME RecordsInv, NEW d \in Dbs, Search(d) \/ EndPurge(d)
  PROVE  RecordsInv'
<1> USE DEF RecordsInv, Return, CloseCon, store, world
<1>1. found' \in [Dbs -> Nat]
  <2>1. CASE Search(d)
    <3>1. PICK k \in 0 .. Cardinality(rows) : found' = [found EXCEPT ![d] = @ + k]
      BY <2>1 DEF Search
    <3>2. k \in Nat
      BY <3>1, RowsCounted
    <3> QED BY <3>1, <3>2 DEF TypeOK
  <2>2. CASE EndPurge(d)
    BY <2>2 DEF EndPurge, TypeOK
  <2> QED BY <2>1, <2>2
<1>2. /\ pc[d] \in Connected /\ Return(d) /\ CloseCon(d)
      /\ UNCHANGED <<rows, files, removed, hasTable, recorded, outdated, excused>>
  BY DEF Search, EndPurge, Connected
<1>3. TypeOK'
  BY <1>1, <1>2 DEF TypeOK
<1>4. StoreInv' /\ PurgeInv'
  BY <1>2, StoreStays DEF TypeOK
<1>5. HandleInv'
  BY <1>2 DEF HandleInv, Connected, TypeOK
<1> QED BY <1>3, <1>4, <1>5

LEMMA CloseKeeps ==
  ASSUME RecordsInv, NEW d \in Dbs, Close(d) \/ GetSearchResult(d) \/ Destroy(d)
  PROVE  RecordsInv'
<1> USE DEF RecordsInv, store, world, work, handle
<1>1. found' \in [Dbs -> Nat]
  <2>1. CASE Close(d) \/ Destroy(d)
    BY <2>1 DEF Close, Destroy, TypeOK
  <2>2. CASE GetSearchResult(d)
    BY <2>2 DEF GetSearchResult, TypeOK
  <2> QED BY <2>1, <2>2
<1>2. TypeOK'
  BY <1>1 DEF Close, GetSearchResult, Destroy, CloseCon, TypeOK
<1>3. StoreInv' /\ PurgeInv'
  BY StoreStays DEF Close, GetSearchResult, Destroy
<1>4. HandleInv'
  BY DEF Close, GetSearchResult, Destroy, CloseCon, HandleInv, Connected, TypeOK
<1> QED BY <1>2, <1>3, <1>4

LEMMA CrashKeeps ==
  ASSUME RecordsInv, NEW d \in Dbs, Crash(d)
  PROVE  RecordsInv'
<1> USE DEF RecordsInv, Crash, Return, store, world
<1>1. TypeOK'
  BY DEF TypeOK
<1>2. StoreInv' /\ PurgeInv'
  BY StoreStays DEF TypeOK
<1>3. HandleInv'
  BY DEF HandleInv, Connected, TypeOK
<1> QED BY <1>1, <1>2, <1>3

\* Rows and recordings that are added are none that a purge is removing.
LEMMA AddKeeps ==
  ASSUME RecordsInv, Record \/ Age \/ \E d \in Dbs, r \in 1 .. MaxRecord : AddRecord(d, r)
  PROVE  RecordsInv'
<1> USE DEF RecordsInv, handle, work
<1>1. CASE Record
  <2> USE <1>1 DEF Record
  <2>1. TypeOK'
    BY DEF TypeOK
  <2>2. StoreInv'
    BY DEF StoreInv, TypeOK
  <2>3. PurgeInv'
    <3>1. ASSUME NEW d \in Dbs, pc[d] = "row" PROVE Head(todo[d]) # recorded + 1
      <4>1. todo[d] \in Seq(Nat) /\ todo[d] # <<>>
        BY <3>1 DEF PurgeInv, TypeOK
      <4>2. Head(todo[d]) \in rows \cup removed
        BY <4>1, TailFacts DEF PurgeInv
      <4> QED BY <4>2 DEF StoreInv, TypeOK
    <3> QED BY <3>1 DEF PurgeInv
  <2>4. HandleInv'
    BY DEF HandleInv
  <2> QED BY <2>1, <2>2, <2>3, <2>4
<1>2. CASE Age
  <2> USE <1>2 DEF Age, store
  <2>1. TypeOK'
    BY DEF TypeOK
  <2>2. StoreInv'
    BY DEF StoreInv, TypeOK
  <2>3. PurgeInv'
    <3>1. \A k \in Nat : k <= outdated => k <= outdated'
      BY DEF TypeOK
    <3>2. \A d \in Dbs : cut[d] \in Nat /\ \A i \in DOMAIN todo[d] : todo[d][i] \in Nat
      BY DEF TypeOK
    <3> QED BY <3>1, <3>2 DEF PurgeInv
  <2>4. HandleInv'
    BY DEF HandleInv
  <2> QED BY <2>1, <2>2, <2>3, <2>4
<1>3. ASSUME NEW d \in Dbs, NEW r \in 1 .. MaxRecord, AddRecord(d, r) PROVE RecordsInv'
  <2> USE <1>3 DEF AddRecord, world
  <2>1. TypeOK'
    BY DEF TypeOK
  <2>2. StoreInv'
    BY DEF StoreInv
  <2>3. PurgeInv'
    BY DEF PurgeInv
  <2>4. HandleInv'
    BY DEF HandleInv
  <2> QED BY <2>1, <2>2, <2>3, <2>4
<1> QED BY <1>1, <1>2, <1>3

\* The result of the SELECT is of rows that are there, and out of date.
LEMMA SelectKeeps ==
  ASSUME RecordsInv, NEW d \in Dbs, Select(d)
  PROVE  RecordsInv'
<1> USE DEF RecordsInv, Select, Goto, store, world, handle
<1>1. PICK q \in SetToSeqs(OutOfDate(d)) : todo' = [todo EXCEPT ![d] = q]
  OBVIOUS
<1>2. recorded \in Nat /\ OutOfDate(d) \in SUBSET (1 .. recorded)
  BY DEF OutOfDate, StoreInv, TypeOK
<1>3. q \in Seq(Nat) /\ \A i \in DOMAIN q : q[i] \in OutOfDate(d)
  BY <1>2, ResultFacts
<1>4. \A i \in DOMAIN q : q[i] \in rows /\ q[i] <= outdated
  <2>1. cut[d] \in Nat /\ outdated \in Nat /\ cut[d] <= outdated
    BY DEF TypeOK, PurgeInv
  <2>2. ASSUME NEW i \in DOMAIN q PROVE q[i] \in rows /\ q[i] <= outdated
    BY <1>3, <2>1, <2>2 DEF OutOfDate, TypeOK
  <2> QED BY <2>2
<1>5. TypeOK'
  BY <1>1, <1>3 DEF TypeOK
<1>6. StoreInv'
  BY DEF StoreInv
<1>7. PurgeInv'
  BY <1>1, <1>4 DEF PurgeInv, TypeOK
<1>8. HandleInv'
  BY DEF HandleInv, Connected, TypeOK
<1> QED BY <1>5, <1>6, <1>7, <1>8

LEMMA DeleteFileKeeps ==
  ASSUME RecordsInv, NEW d \in Dbs, DeleteFile(d)
  PROVE  RecordsInv'
<1> USE DEF RecordsInv, DeleteFile, Goto, world, handle, work
<1>1. TypeOK'
  BY DEF TypeOK
<1>2. StoreInv'
  BY DEF StoreInv
<1>3. PurgeInv'
  BY DEF PurgeInv, TypeOK
<1>4. HandleInv'
  BY DEF HandleInv, Connected, TypeOK
<1> QED BY <1>1, <1>2, <1>3, <1>4

\* What is left of a result after its first row is of the same rows.
LEMMA RestFacts ==
  ASSUME RecordsInv, NEW d \in Dbs, todo[d] # <<>>
  PROVE  /\ Head(todo[d]) \in rows \cup removed /\ Head(todo[d]) \in Nat
         /\ Tail(todo[d]) \in Seq(Nat)
         /\ \A i \in DOMAIN Tail(todo[d]) :
              Tail(todo[d])[i] \in rows \cup removed /\ Tail(todo[d])[i] <= outdated
<1>1. todo[d] \in Seq(Nat)
  BY DEF RecordsInv, TypeOK
<1> QED BY <1>1, TailFacts DEF RecordsInv, PurgeInv

LEMMA SkipRowKeeps ==
  ASSUME RecordsInv, NEW d \in Dbs, DeleteFileFails(d) \/ DeleteRowFails(d)
  PROVE  RecordsInv'
<1> USE DEF RecordsInv, DeleteFileFails, DeleteRowFails, Goto, store, world, handle
<1>1. /\ pc[d] \in Connected /\ pc' = [pc EXCEPT ![d] = "file"]
      /\ todo[d] # <<>> /\ todo' = [todo EXCEPT ![d] = Tail(todo[d])]
  BY DEF Connected, PurgeInv, TypeOK
<1>2. TypeOK'
  BY <1>1, RestFacts DEF TypeOK
<1>3. StoreInv'
  BY DEF StoreInv
<1>4. ASSUME NEW o \in Dbs, o = d
      PROVE  /\ cut'[o] <= outdated' /\ pc'[o] # "row"
             /\ \A i \in DOMAIN todo'[o] :
                  todo'[o][i] \in rows' \cup removed' /\ todo'[o][i] <= outdated'
  <2>1. todo'[o] = Tail(todo[d]) /\ pc'[o] = "file" /\ cut'[o] <= outdated
    BY <1>1, <1>4 DEF TypeOK, PurgeInv
  <2> QED BY <1>1, <2>1, RestFacts
<1>5. ASSUME NEW o \in Dbs, o # d
      PROVE  cut'[o] = cut[o] /\ todo'[o] = todo[o] /\ pc'[o] = pc[o]
  BY <1>1, <1>5 DEF TypeOK
<1>6. PurgeInv'
  BY <1>4, <1>5 DEF PurgeInv
<1>7. HandleInv'
  BY <1>1 DEF HandleInv, Connected, TypeOK
<1> QED BY <1>2, <1>3, <1>6, <1>7

\* The row may be gone already: then nothing is removed.
LEMMA DeleteRowKeeps ==
  ASSUME RecordsInv, NEW d \in Dbs, DeleteRow(d)
  PROVE  RecordsInv'
<1> USE DEF RecordsInv, DeleteRow, Goto, world, handle
<1>1. todo[d] # <<>> /\ Head(todo[d]) \notin files /\ pc[d] = "row"
  BY DEF PurgeInv
<1>2. /\ rows' \cup removed' = rows \cup removed
      /\ rows' = rows \ {Head(todo[d])} /\ removed' = removed \cup (rows \cap {Head(todo[d])})
  OBVIOUS
<1>3. TypeOK'
  BY <1>1, <1>2, RestFacts DEF TypeOK
<1>4. StoreInv'
  BY <1>1, <1>2 DEF StoreInv
<1>5. PurgeInv'
  BY <1>1, <1>2, RestFacts DEF PurgeInv, TypeOK
<1>6. HandleInv'
  BY <1>1 DEF HandleInv, Connected, TypeOK
<1> QED BY <1>3, <1>4, <1>5, <1>6

LEMMA StepKeeps == RecordsInv /\ [Next]_vars => RecordsInv'
<1> SUFFICES ASSUME RecordsInv, [Next]_vars PROVE RecordsInv'
  OBVIOUS
<1>1. ASSUME NEW d \in Dbs, Call(d) PROVE RecordsInv'
  BY <1>1, BeginKeeps, CloseKeeps, AddKeeps DEF Call
<1>2. ASSUME NEW d \in Dbs, Succeed(d) PROVE RecordsInv'
  BY <1>2, ConnectKeeps, CheckTableKeeps, ReturnKeeps, SelectKeeps, DeleteFileKeeps,
     DeleteRowKeeps DEF Succeed
<1>3. ASSUME NEW d \in Dbs, FailSome(d) PROVE RecordsInv'
  BY <1>3, FailKeeps, SkipRowKeeps DEF FailSome
<1>4. CASE UNCHANGED vars
  BY <1>4 DEF vars, store, world, handle, work, RecordsInv, TypeOK, StoreInv, PurgeInv, HandleInv
<1> QED BY <1>1, <1>2, <1>3, <1>4, AddKeeps, CrashKeeps DEF Next

-----------------------------------------------------------------------------
(* Records implements Archive                                              *)

\* Every step on the recordings is one that Archive allows.
LEMMA StepArchives == RecordsInv /\ [Next]_vars => [Keeping!Next]_(Keeping!avars)
<1> SUFFICES ASSUME RecordsInv, [Next]_vars PROVE [Keeping!Next]_(Keeping!avars)
  OBVIOUS
<1> USE DEF Keeping!avars
<1>1. CASE UNCHANGED <<rows, files, recorded, outdated, removed>>
  BY <1>1
<1>2. CASE Record
  <2>1. Keeping!Record
    BY <1>2 DEF Record, Keeping!Record
  <2> QED BY <2>1 DEF Keeping!Next
<1>3. CASE Age
  <2>1. Keeping!Age
    BY <1>3 DEF Age, Keeping!Age, store
  <2> QED BY <2>1 DEF Keeping!Next
<1>4. ASSUME NEW d \in Dbs, NEW r \in 1 .. MaxRecord, AddRecord(d, r)
      PROVE  Keeping!Next
  <2>1. r \in 1 .. recorded /\ Keeping!Enter(r)
    BY <1>4 DEF AddRecord, Keeping!Enter, world
  <2> QED BY <2>1 DEF Keeping!Next
<1>5. ASSUME NEW d \in Dbs, DeleteFile(d) PROVE [Keeping!Next]_(Keeping!avars)
  <2> DEFINE r == Head(todo[d])
  <2>1. files' = files \ {r} /\ todo[d] # <<>> /\ UNCHANGED <<rows, removed, recorded, outdated>>
    BY <1>5 DEF DeleteFile, world
  <2>2. r \in rows \cup removed /\ r <= outdated
    <3>1. todo[d] \in Seq(Nat)
      BY DEF RecordsInv, TypeOK
    <3> QED BY <2>1, <3>1, TailFacts DEF RecordsInv, PurgeInv
  <2>3. CASE r \in files
    <3>1. r \in rows /\ r \in 1 .. recorded
      BY <2>2, <2>3 DEF RecordsInv, StoreInv
    <3>2. Keeping!LoseFile(r)
      BY <2>1, <2>2, <2>3, <3>1 DEF Keeping!LoseFile
    <3> QED BY <3>1, <3>2 DEF Keeping!Next
  <2>4. CASE r \notin files
    BY <2>1, <2>4
  <2> QED BY <2>3, <2>4
<1>6. ASSUME NEW d \in Dbs, DeleteRow(d) PROVE [Keeping!Next]_(Keeping!avars)
  <2> DEFINE r == Head(todo[d])
  <2>1. /\ rows' = rows \ {r} /\ removed' = removed \cup (rows \ rows')
        /\ UNCHANGED <<files, recorded, outdated>>
    BY <1>6 DEF DeleteRow, world
  <2>2. r \notin files
    BY <1>6 DEF DeleteRow, RecordsInv, PurgeInv
  <2>3. CASE r \in rows
    <3>1. r \in 1 .. recorded
      BY <2>3 DEF RecordsInv, StoreInv
    <3>2. Keeping!LoseRow(r)
      BY <2>1, <2>2, <2>3 DEF Keeping!LoseRow
    <3> QED BY <3>1, <3>2 DEF Keeping!Next
  <2>4. CASE r \notin rows
    BY <2>1, <2>4
  <2> QED BY <2>3, <2>4
<1>7. ASSUME NEW d \in Dbs, Call(d)
      PROVE  \/ UNCHANGED <<rows, files, recorded, outdated, removed>>
             \/ \E r \in 1 .. MaxRecord : AddRecord(d, r)
  BY <1>7 DEF Call, Begin, GetSearchResult, Close, Destroy, store, world
<1>8. ASSUME NEW d \in Dbs, Succeed(d)
      PROVE  \/ UNCHANGED <<rows, files, recorded, outdated, removed>>
             \/ DeleteFile(d) \/ DeleteRow(d)
  BY <1>8 DEF Succeed, Connect, CheckDataBase, CheckTable, Search, Select, EndPurge, store, world
<1>9. ASSUME NEW d \in Dbs, FailSome(d) \/ Crash(d)
      PROVE  UNCHANGED <<rows, files, recorded, outdated, removed>>
  BY <1>9 DEF FailSome, ConnectFails, StatementFails, Fail, DeleteFileFails, DeleteRowFails,
              Crash, store, world
<1>10. CASE UNCHANGED vars
  BY <1>1, <1>10 DEF vars, store, world
<1> QED BY <1>1, <1>2, <1>3, <1>4, <1>5, <1>6, <1>7, <1>8, <1>9, <1>10 DEF Next

-----------------------------------------------------------------------------
(* The theorems                                                            *)

\* The inductive invariant, with the types, holds in every state that the objects reach.
THEOREM RecordsInductive == Spec => []RecordsInv
<1>1. Init => RecordsInv
  BY InitRecordsInv
<1>2. RecordsInv /\ [Next]_vars => RecordsInv'
  BY StepKeeps
<1> QED BY <1>1, <1>2, PTL DEF Spec

\* No recording loses its row while its file is there, whatever fails or ends between
\* the two deletions, and whoever else removes the same recording.
THEOREM NothingOrphaned == Spec => []NoOrphan
<1>1. RecordsInv => NoOrphan
  BY DEF RecordsInv, StoreInv, NoOrphan
<1> QED BY <1>1, RecordsInductive, PTL

\* Connect overwrites no handle that was not closed but where an operation failed before,
\* or EstablishConnection left it open.
THEOREM ConnectionsKept == Spec => []LeaksExcused
<1>1. RecordsInv => LeaksExcused
  BY DEF RecordsInv, HandleInv, LeaksExcused
<1> QED BY <1>1, RecordsInductive, PTL

\* Records implements Archive: only what is out of date loses its file, and its row
\* only after that.
THEOREM RecordsIsArchive == Spec => ArchivePromise
<1>1. Init => Keeping!Init
  BY DEF Init, Keeping!Init
<1>2. RecordsInv /\ [Next]_vars => [Keeping!Next]_(Keeping!avars)
  BY StepArchives
<1> QED BY <1>1, <1>2, RecordsInductive, PTL DEF Spec, ArchivePromise, Keeping!Spec

-----------------------------------------------------------------------------
(* A purge goes through its result                                         *)

\* A recording leaves the result of a purge only when its row and its file are gone, by
\* this purge or another, or when one of the two deletions fails, or with the process.
PurgeStep ==
  \A d \in Dbs : pc[d] \in {"file", "row"} /\ todo[d] # <<>> =>
    \/ todo'[d] = todo[d]
    \/ todo'[d] = Tail(todo[d]) /\ Head(todo[d]) \notin rows' \cup files'
    \/ DeleteFileFails(d) \/ DeleteRowFails(d) \/ Crash(d)

\* What an object does leaves the results of the others alone.
LEMMA ResultOfOthers ==
  ASSUME RecordsInv, NEW o \in Dbs, Call(o) \/ Succeed(o) \/ FailSome(o) \/ Crash(o),
         NEW d \in Dbs, d # o
  PROVE  todo'[d] = todo[d]
<1>1. todo \in [Dbs -> Seq(Nat)]
  BY DEF RecordsInv, TypeOK
<1>2. CASE Call(o)
  BY <1>2 DEF Call, Begin, GetSearchResult, Close, Destroy, AddRecord, work
<1>3. CASE Succeed(o)
  BY <1>1, <1>3 DEF Succeed, Connect, CheckDataBase, CheckTable, Search, Select, DeleteFile,
                    DeleteRow, EndPurge, Return, work
<1>4. CASE FailSome(o) \/ Crash(o)
  BY <1>1, <1>4 DEF FailSome, ConnectFails, StatementFails, DeleteFileFails, DeleteRowFails,
                    Fail, Crash, Return, work
<1> QED BY <1>2, <1>3, <1>4

LEMMA StepPurges == RecordsInv /\ [Next]_vars => PurgeStep
<1> SUFFICES ASSUME RecordsInv, [Next]_vars, NEW d \in Dbs,
                    pc[d] \in {"file", "row"}, todo[d] # <<>>
             PROVE  \/ todo'[d] = todo[d]
                    \/ todo'[d] = Tail(todo[d]) /\ Head(todo[d]) \notin rows' \cup files'
                    \/ DeleteFileFails(d) \/ DeleteRowFails(d) \/ Crash(d)
  BY DEF PurgeStep
<1>1. CASE Record \/ Age \/ UNCHANGED vars
  BY <1>1 DEF Record, Age, vars, work
<1>2. ASSUME NEW o \in Dbs, Call(o) \/ Succeed(o) \/ FailSome(o) \/ Crash(o), d # o
      PROVE  todo'[d] = todo[d]
  BY <1>2, ResultOfOthers
<1>3. CASE Call(d)
  BY <1>3 DEF Call, Begin, GetSearchResult, Close, Destroy, AddRecord, work
<1>4. CASE Succeed(d)
  <2>1. DeleteFile(d) \/ DeleteRow(d)
    BY <1>4 DEF Succeed, Connect, CheckDataBase, CheckTable, Search, Select, EndPurge
  <2>2. CASE DeleteFile(d)
    BY <2>2 DEF DeleteFile, work
  <2>3. CASE DeleteRow(d)
    <3>1. Head(todo[d]) \notin files
      BY <2>3 DEF DeleteRow, RecordsInv, PurgeInv
    <3>2. todo'[d] = Tail(todo[d])
      BY <2>3 DEF DeleteRow, RecordsInv, TypeOK
    <3> QED BY <2>3, <3>1, <3>2 DEF DeleteRow
  <2> QED BY <2>1, <2>2, <2>3
<1>5. CASE FailSome(d)
  BY <1>5 DEF FailSome, ConnectFails, StatementFails
<1> QED BY <1>1, <1>2, <1>3, <1>4, <1>5 DEF Next

\* A purge that comes to the end of its result has left nothing of it behind but what
\* could not be deleted, whatever others did to the same recordings meanwhile.
THEOREM PurgeGoesOn == Spec => [][PurgeStep]_vars
<1>1. RecordsInv /\ [Next]_vars => [PurgeStep]_vars
  BY StepPurges
<1> QED BY <1>1, RecordsInductive, PTL DEF Spec
=============================================================================
