------------------------------- MODULE Records -------------------------------
(***************************************************************************)
(* The call records of CDb (Db_.cpp): a row of the MySQL table Records and *)
(* a file for each recording of a channel, and the CDb objects that add    *)
(* recordings, search them and remove those that are out of date.          *)
(*                                                                         *)
(* Every statement, and the deletion of every file, is a step of its own   *)
(* and may fail; the process of a CDb may end at any of them.  Recordings  *)
(* are numbered in the order of their epochs.  The recorder that writes    *)
(* the files, the clock, and the MySQL server are external.                *)
(***************************************************************************)
EXTENDS Naturals, Sequences, FiniteSetsExt, SequencesExt

CONSTANTS
  Dbs,        \* the CDb objects, each used by one process
  Purger,     \* the one that removes what is out of date again and again
  MaxRecord,  \* bound: recordings
  MaxFound    \* bound: search results queued

ASSUME RecordsAssumption == Purger \in Dbs /\ MaxRecord \in Nat /\ MaxFound \in Nat

VARIABLES
  rows,      \* the recordings in the table
  files,     \* the recordings on disk
  recorded,  \* the recordings made so far
  outdated,  \* recordings 1 .. outdated are older than retentionDays
  hasTable,
  pc,        \* pc[d]: "idle", or the statement that is next
  op,        \* op[d]: "establish", "search" or "purge", or "none"
  cut,       \* cut[d]: t of GetOutOfDateRecords, as a number of recordings
  con,       \* con[d]: m_pCon: "none", "failed", "open", or "ready" when TR4DB is in use
  dbOpen,    \* dbOpen[d]: m_dbOpen
  todo,      \* todo[d]: the rows of the result that are left to remove
  found,     \* found[d]: the length of m_searchResult
  removed,   \* history: the recordings whose rows were removed
  leaked,    \* history: leaked[d]: a MYSQL was lost without mysql_close
  excused    \* history: excused[d]: an operation failed, or EstablishConnection left d open

store == <<rows, files, removed, hasTable>>
world == <<recorded, outdated>>
handle == <<con, dbOpen, leaked>>
work == <<op, cut, todo>>
vars == <<store, world, handle, work, pc, found, excused>>

Init ==
  /\ rows = {} /\ files = {} /\ removed = {} /\ hasTable = FALSE
  /\ recorded = 0 /\ outdated = 0
  /\ pc = [d \in Dbs |-> "idle"] /\ op = [d \in Dbs |-> "none"]
  /\ cut = [d \in Dbs |-> 0] /\ todo = [d \in Dbs |-> <<>>]
  /\ con = [d \in Dbs |-> "none"] /\ dbOpen = [d \in Dbs |-> FALSE]
  /\ found = [d \in Dbs |-> 0]
  /\ leaked = [d \in Dbs |-> FALSE] /\ excused = [d \in Dbs |-> FALSE]

Goto(d, where) == pc' = [pc EXCEPT ![d] = where]

\* An operation returns, and its locals are gone.
Return(d) ==
  /\ pc' = [pc EXCEPT ![d] = "idle"] /\ op' = [op EXCEPT ![d] = "none"]
  /\ cut' = [cut EXCEPT ![d] = 0] /\ todo' = [todo EXCEPT ![d] = <<>>]

-----------------------------------------------------------------------------
(* Connect, CheckDataBase, CheckTable, Close                               *)

\* EstablishConnection, SearchRecords and GetOutOfDateRecords all begin with Connect.
Begin(d, what) ==
  /\ pc[d] = "idle" /\ Goto(d, "connect")
  /\ op' = [op EXCEPT ![d] = what]
  /\ cut' = [cut EXCEPT ![d] = IF what = "purge" THEN outdated ELSE 0]
  /\ UNCHANGED <<store, world, handle, todo, found, excused>>

\* FAILURE is returned at once, and nothing is closed.
Fail(d) ==
  /\ Return(d) /\ excused' = [excused EXCEPT ![d] = TRUE]
  /\ UNCHANGED <<store, world, found>>

\* mysql_init gives m_pCon a new value, whatever it had.
NewHandle(d, c, o) ==
  /\ con' = [con EXCEPT ![d] = c]
  /\ dbOpen' = [dbOpen EXCEPT ![d] = o]
  /\ leaked' = [leaked EXCEPT ![d] = @ \/ con[d] # "none"]

Connect(d) ==
  /\ pc[d] = "connect" /\ Goto(d, "database") /\ NewHandle(d, "open", TRUE)
  /\ UNCHANGED <<store, world, work, found, excused>>

ConnectFails(d) ==
  /\ pc[d] = "connect" /\ NewHandle(d, "failed", dbOpen[d]) /\ Fail(d)

CheckDataBase(d) ==
  /\ pc[d] = "database"
  /\ Goto(d, IF op[d] = "establish" THEN "table" ELSE "select")
  /\ con' = [con EXCEPT ![d] = "ready"]
  /\ UNCHANGED <<store, world, work, dbOpen, leaked, found, excused>>

CheckTable(d) ==
  /\ pc[d] = "table" /\ Return(d) /\ hasTable' = TRUE
  /\ excused' = [excused EXCEPT ![d] = TRUE]
  /\ UNCHANGED <<rows, files, removed, world, handle, found>>

StatementFails(d) ==
  /\ pc[d] \in {"database", "table", "select"}
  /\ Fail(d) /\ UNCHANGED handle

CloseForgotten(d) == UNCHANGED handle

CloseCon(d) ==
  /\ con' = [con EXCEPT ![d] = IF dbOpen[d] THEN "none" ELSE @]
  /\ dbOpen' = [dbOpen EXCEPT ![d] = FALSE]
  /\ UNCHANGED leaked

Close(d) ==
  /\ pc[d] = "idle" /\ CloseCon(d)
  /\ UNCHANGED <<store, world, work, pc, found, excused>>

-----------------------------------------------------------------------------
(* SearchRecords, GetSearchResult, AddRecord                               *)

\* Those of the rows that match and are no short call without numbers are queued behind
\* what is queued already: m_searchResult.empty() clears nothing.
Search(d) ==
  /\ pc[d] = "select" /\ op[d] = "search" /\ hasTable
  /\ \E k \in 0 .. Cardinality(rows) :
       found[d] + k <= MaxFound /\ found' = [found EXCEPT ![d] = @ + k]
  /\ Return(d) /\ CloseCon(d)
  /\ UNCHANGED <<store, world, excused>>

GetSearchResult(d) ==
  /\ pc[d] = "idle" /\ found[d] > 0
  /\ found' = [found EXCEPT ![d] = @ - 1]
  /\ UNCHANGED <<store, world, handle, work, pc, excused>>

\* Called with the connection that EstablishConnection left open; an error changes nothing.
AddRecord(d, r) ==
  /\ pc[d] = "idle" /\ con[d] = "ready" /\ hasTable
  /\ r \in 1 .. recorded /\ r \notin rows \cup removed
  /\ rows' = rows \cup {r}
  /\ UNCHANGED <<files, removed, hasTable, world, handle, work, pc, found, excused>>

-----------------------------------------------------------------------------
(* GetOutOfDateRecords and RemoveRecord                                    *)

\* epoch < t.
AlsoNextOne(d) == {r \in rows : r <= cut[d] + 1}
OutOfDate(d) == {r \in rows : r <= cut[d]}

\* The rows come in no order that the SELECT asks for.
Select(d) ==
  /\ pc[d] = "select" /\ op[d] = "purge" /\ hasTable
  /\ Goto(d, "file")
  /\ \E q \in SetToSeqs(OutOfDate(d)) : todo' = [todo EXCEPT ![d] = q]
  /\ UNCHANGED <<store, world, handle, op, cut, found, excused>>

\* DeleteRecordFile: no such file, no such path and an invalid name are as good as having
\* deleted it (the file of a row is under its name, or nowhere); with any other error the
\* row is left alone.
DeleteFileFound(d) ==
  /\ pc[d] = "file" /\ todo[d] # <<>> /\ Head(todo[d]) \in files
  /\ files' = files \ {Head(todo[d])}
  /\ Goto(d, "row")
  /\ UNCHANGED <<rows, removed, hasTable, world, handle, work, found, excused>>

DeleteFile(d) ==
  /\ pc[d] = "file" /\ todo[d] # <<>>
  /\ files' = files \ {Head(todo[d])}
  /\ Goto(d, "row")
  /\ UNCHANGED <<rows, removed, hasTable, world, handle, work, found, excused>>

DeleteRowAnyway(d) ==
  /\ pc[d] = "file" /\ todo[d] # <<>> /\ Goto(d, "row")
  /\ UNCHANGED <<store, world, handle, work, found, excused>>

DeleteFileFails(d) ==
  /\ pc[d] = "file" /\ todo[d] # <<>>
  /\ todo' = [todo EXCEPT ![d] = Tail(@)]
  /\ UNCHANGED <<store, world, handle, op, cut, pc, found, excused>>

\* The DELETE, whose outcome the loop does not look at.
DeleteRow(d) ==
  /\ pc[d] = "row" /\ Goto(d, "file")
  /\ rows' = rows \ {Head(todo[d])} /\ removed' = removed \cup (rows \ rows')
  /\ todo' = [todo EXCEPT ![d] = Tail(@)]
  /\ UNCHANGED <<files, hasTable, world, handle, op, cut, found, excused>>

DeleteRowFails(d) ==
  /\ pc[d] = "row" /\ Goto(d, "file")
  /\ todo' = [todo EXCEPT ![d] = Tail(@)]
  /\ UNCHANGED <<store, world, handle, op, cut, found, excused>>

EndPurge(d) ==
  /\ pc[d] = "file" /\ todo[d] = <<>>
  /\ Return(d) /\ CloseCon(d)
  /\ UNCHANGED <<store, world, found, excused>>

-----------------------------------------------------------------------------
(* The objects, the processes and the rest of the world                    *)

\* ~CDb, and a new one: Close does not free a connection that was never made.
Destroy(d) ==
  /\ pc[d] = "idle"
  /\ leaked' = [leaked EXCEPT ![d] = @ \/ (con[d] # "none" /\ ~dbOpen[d])]
  /\ con' = [con EXCEPT ![d] = "none"] /\ dbOpen' = [dbOpen EXCEPT ![d] = FALSE]
  /\ found' = [found EXCEPT ![d] = 0]
  /\ UNCHANGED <<store, world, work, pc, excused>>

\* The process ends, at any statement, and is started again.
Crash(d) ==
  /\ Return(d)
  /\ con' = [con EXCEPT ![d] = "none"] /\ dbOpen' = [dbOpen EXCEPT ![d] = FALSE]
  /\ leaked' = [leaked EXCEPT ![d] = FALSE] /\ excused' = [excused EXCEPT ![d] = FALSE]
  /\ found' = [found EXCEPT ![d] = 0]
  /\ UNCHANGED <<store, world>>

\* The recorder finishes a file; a recording becomes older than it is to be kept.
Record ==
  /\ recorded < MaxRecord /\ recorded' = recorded + 1
  /\ files' = files \cup {recorded'}
  /\ UNCHANGED <<rows, removed, hasTable, outdated, handle, work, pc, found, excused>>

Age ==
  /\ outdated < recorded /\ outdated' = outdated + 1
  /\ UNCHANGED <<store, recorded, handle, work, pc, found, excused>>

Succeed(d) == Connect(d) \/ CheckDataBase(d) \/ CheckTable(d) \/ Search(d) \/ Select(d)
              \/ DeleteFile(d) \/ DeleteRow(d) \/ EndPurge(d)
FailSome(d) == ConnectFails(d) \/ StatementFails(d) \/ DeleteFileFails(d) \/ DeleteRowFails(d)
Call(d) == \/ \E what \in {"establish", "search", "purge"} : Begin(d, what)
           \/ GetSearchResult(d) \/ Close(d) \/ Destroy(d)
           \/ \E r \in 1 .. MaxRecord : AddRecord(d, r)

Next == Record \/ Age \/ \E d \in Dbs : Call(d) \/ Succeed(d) \/ FailSome(d) \/ Crash(d)

Spec == Init /\ [][Next]_vars

(* One process purges again and again, and again and again a SELECT of its *)
(* answers (of a server without the table nothing is asked); and what the  *)
(* purges try again and again does not fail for ever: neither the deletion *)
(* of one file nor that of one row.  Of the others nothing is asked.       *)
Fairness ==
  /\ []<>hasTable => []<><<Select(Purger)>>_vars
  /\ \A r \in 1 .. MaxRecord :
       /\ SF_vars(IsPrefix(<<r>>, todo[Purger]) /\ DeleteFile(Purger))
       /\ SF_vars(IsPrefix(<<r>>, todo[Purger]) /\ DeleteRow(Purger))

LiveSpec == Spec /\ Fairness

-----------------------------------------------------------------------------
(* Properties                                                              *)

TypeOK ==
  /\ rows \in SUBSET Nat /\ files \in SUBSET Nat /\ removed \in SUBSET Nat
  /\ hasTable \in BOOLEAN /\ recorded \in Nat /\ outdated \in Nat
  /\ pc \in [Dbs -> {"idle", "connect", "database", "table", "select", "file", "row"}]
  /\ op \in [Dbs -> {"none", "establish", "search", "purge"}]
  /\ cut \in [Dbs -> Nat] /\ todo \in [Dbs -> Seq(Nat)]
  /\ con \in [Dbs -> {"none", "failed", "open", "ready"}]
  /\ dbOpen \in [Dbs -> BOOLEAN] /\ found \in [Dbs -> Nat]
  /\ leaked \in [Dbs -> BOOLEAN] /\ excused \in [Dbs -> BOOLEAN]

Keeping == INSTANCE Archive

\* Through all statements, failures, crashes and processes, the recordings live as those
\* of Archive: nothing that is not out of date is touched by a purge, no file is deleted
\* that has no row, and no row before its file.
ArchivePromise == Keeping!Spec

\* No recording loses its row while its file is there: whatever fails, and wherever a
\* process ends, the disk holds no file that nothing points to any more.
NoOrphan == removed \cap files = {}

\* A CDb that searches and purges, however often, beside others and over any result,
\* loses no connection: only one of whose operations failed, or which EstablishConnection
\* left open to the next operation, overwrites a MYSQL that was not closed.
LeaksExcused == \A d \in Dbs : leaked[d] => excused[d]

\* What is out of date goes in the end, row and file, also when a process ended between
\* the two, and beside others that remove the same.
OutdatedGoes ==
  \A r \in 1 .. MaxRecord : (r \in rows /\ r <= outdated) ~> (r \notin rows \cup files)
=============================================================================
