# A TLA+ model of the TR4 web server

The program (`pocoWebServer/`) is the web front end of a four-channel telephone
recorder ("TR4"). It holds one TCP connection to the recorder, keeps what the
recorder says of each channel (state, dialled number, caller number, audio), and
gives it to browsers over WebSocket, beside ordinary pages behind a login. It is
a Windows program on the Poco libraries; Poco and SQLite are outside the model.

## Inventory

| Component | State | Operations | Talks to |
|---|---|---|---|
| Audio queue (`ShortQWriter`, `ShortQReader`) | ring `Q`, atomic `index`, `m_mutex`; `read_index` per reader | Insert, GetData, GetIndex; GetQSize, Remove, EmptyQueue | filled by the TR4 thread, read by handler threads |
| TR4 byte queue (`TR4Connection`: AddQ ... GetBuffer, `Cmd`) | `StBuffer`, `front`, `rear` | AddQ, ProcessQ, GetBuffer, ResetQ | the TR4 thread only |
| TR4 connection (`TR4Connection::Routine`) | socket `ss1`, `established`, `m_running`; `channelState`, `dial`, `cid` under `mtx[4]` | connect, receive, drain, reconnect; GetState, GetDial, GetCID | recorder; handler threads; audio queues |
| WebSocket handler (`WebSocketRequestHandler`) | what was sent last of 12 entries, `m_LiveChannel`, `m_time`, `PingTimer`, four readers | receive, signal, ping, send voice, each 16 ms | table, audio queues, browser |
| Settings (`IniHandler`) | SQLite file with ACCOUNT, SERVER, CH0..CH3; `keymap` | open and create, GetValue, SetValue, accounts | login, `HTTPClientServer` |
| Configuration cache (`RegReader`) | copies of settings, `lastUpdate` | GetInstance, ReadData | settings; nobody that is compiled calls it |
| Pages and session (`ClientHandler`, `ClientHandlerFactory`) | the browser's cookies | login, logout, page, upgrade to WebSocket | settings, WebSocket handler |
| Call records (`Db_`) | MySQL connection, search result; a table and the recordings' files | EstablishConnection, AddRecord, SearchRecords, GetOutOfDateRecords, Close | MySQL, files; the member of `ClientHandler` is commented out |
| Start (`pocoWebServer.cpp`, `HTTPClientServer`) | named mutex | single-instance check, start, stop | all |
| Codecs (`URLEncode`, `base64`, `sha1`, `general`), vendored code | none | pure functions | |

One TR4 thread and one thread per browser connection run at the same time. They
meet in two places: the table, behind one mutex per channel, and the audio rings,
behind one mutex per ring but for the index, which readers load without it. What
is hard is in those two places, in the byte stream that TCP cuts anywhere, and in
connections that come and go. `PROJECT.json` lists the hazards line by line.

What makes each part correct:

- Audio queue: a browser hears consecutive pieces of the stream from the moment it
  asks for it, whatever is inserted between the reader's two calls, as long as its
  handler keeps up.
- Byte queue: what is processed are the recorder's frames, whole, once, in order;
  the buffer is never overrun.
- Connection: while the byte queue is in step, what handlers see belongs to the present
  connection; no value is read half written but while InitVars runs; every loss is
  followed by another attempt, no lock is kept.
- Handler: the browser comes to show the table; the connection is never silent for
  longer than PING_TIME; the loop ends by a CLOSE only, which is also its flaw: a
  browser that goes without one leaves its handler running for ever.
- Settings: each table is made and filled once, whoever starts together; what a user
  has set stays; GetValue gives the value of the section asked for, where the section
  was filled without interruption; an account is left to log in with.
- Session: a login or logout ends at the page it should, through all redirects; no
  page but the login without the cookie of a login; redirects come to an end.
- Call records: no file is left behind without a row; what is out of date goes, over
  failures and restarts; connections are closed.
- Start: the program runs once, unless two starts meet or a call fails.

## Modules

| Module | Models | Composes or refines |
|---|---|---|
| `AudioStream` | the abstract promise of an audio queue: producer, listeners that tune in and take consecutive chunks, listeners that are lost | - |
| `ShortQ` | writer and readers of one ring | implements `AudioStream` (`StreamPromise`) |
| `ShortQTimely` | `ShortQ` when handlers come round in time | extends `ShortQ` |
| `FrameStream` | the abstract promise of the byte queue: frames of a stream are handed on whole, in their turn, and junk is passed over, until the stream is lost | - |
| `TR4Queue` | StBuffer, front, rear and the drain loop | implements `FrameStream` (`FramePromise`) |
| `TR4Link` | Routine, the table, the handlers' reads | takes the byte queue as a sequence of frames while it is in step, and as anything else out of step |
| `Mirror` | the abstract promise to a browser: it looks at one item of a source at a time, shows what it saw, or loses the message; some values cannot be shown | - |
| `Bridge` | Routine, the table and the handlers' rounds over it | extends `TR4Link`; implements `Mirror` (`MirrorPromise`) |
| `WsHandler` | one handler in whole | takes the table as variables that change, the ring as "a chunk is there or not" |
| `Settings` | the database file and the `IniHandler`s on it | - |
| `WebSession` | page requests of one browser, and what the server answers | takes the accounts as "right or wrong" |
| `Archive` | the abstract promise of the recordings: file, then row; what is out of date loses first its file, then its row | - |
| `Records` | the table Records, the files, and the `CDb`s on them | implements `Archive` (`ArchivePromise`) |
| `SingleInstance` | starts of the program | - |
| `ShortQProofs`, `TR4QueueProofs`, `BridgeProofs`, `WsHandlerProofs`, `SettingsProofs`, `WebSessionProofs`, `RecordsProofs`, `SingleInstanceProofs` | theorems | extend the modules they prove about; `BridgeProofs` has those about `TR4Link` too |
| `MC...` | instances for TLC | extend the modules they check |

### ShortQ

The samples are numbered, and a cell holds the number of its sample, so that "the
right sample" can be said. `Insert` is two steps, because `GetIndex` is an atomic
load without the mutex and may fall before or after the store to `index`; the
copies themselves are inside the lock and only `GetData` looks at cells, under the
same lock. `GetQSize` and `Remove` are two calls of the handler (line 358 and 365
of `WebSocketRequestHandler.cpp`) and two actions, `Check` and `Remove`. `Play` is
a LivePlay message (`EmptyQueue`), `Stop` a LiveStop, a LivePlay of another channel
or the end of the handler.

A reader that falls more than a ring behind is `lapped`: its `GetQSize` is then the
true distance modulo the ring, nothing in the code notices, and it hears newer
samples as if they were next. The properties except such a reader until it plays
again. `ShortQTimely` says when it cannot happen. At 8000 samples a second, in
inserts of 512 (every 64 ms), against a loop of 16 ms and chunks of 2000, a handler
has 16 seconds of ring, less one chunk, to come round.

### TR4Queue

The recorder's bytes are numbered, frames start at given numbers, junk may lie
between them, and a cell holds the number of its byte. Of the 16 header bytes the
model keeps a first one (the preamble) and a last one (the length); TCP may end a
receive anywhere. A cell never written can look like anything. `split`,
`overrun` and `misled` are history variables that mark the three ways to lose step
with the stream: a receive that ended within the last header-length bytes of a frame,
so that the arrival test of line 309 may pass too early; a queue of more bytes
than StBuffer has; and a byte that looks like a preamble and is none (`Lookalikes`:
junk, or a parameter of a frame whose beginning a ResetQ has dropped), taken for a
header. The invariants hold while none has happened; `bytes_torn`
shows the first. `origin` is where the present connection began: as long as the
frames since then fit the buffer and follow each other without junk, the second
cannot happen (`NeverOverrun`), although AddQ has no test for it. After a torn frame
`rear` is ahead of `front`, the size wraps to nearly 128 KB, and what is processed next
is what earlier traffic left there.

`FrameStream` is the queue without its buffer: `rd` is where the reader is in the
stream, a receive is an arrival, `GetBuffer` hands on the frame at `rd`, `ResetQ` drops
what has arrived, and the end of being in step is the loss of the stream, after which
only a new connection promises anything. A byte that misleads is `Mislead` there. It
is what `TR4Link` takes the queue for, as long as it is in step.

A header that announces a negative length is not modelled: the length bytes read as a
negative number only where there is no header (`WildLens`).

### TR4Link

An entry of the table holds what a frame said of it (`Contents`), or `Unset`. `queue`
is what the present connection has sent and Routine has not taken; `sent` is history,
all that its frames have said of each entry. A receive may end where it puts the queue
out of step (`torn`; the three ways of `TR4Queue`). ResetQ moves only the indices, so
StBuffer then gives out what earlier connections left in it: `Found` is any command at
all until the next `Connect`, and may be so without end, because out of step the size
does not fall below a header and old frames may tile the ring. The properties about the
content of the table are stated in step, those about locks and the socket always.

`Nulled`, `sock` and `threw` are the life of `ss1`: the catch of the connect block deletes
it and leaves it pointing there, and when the next attempt fails, or the thread ends, it
is deleted again, which in the model is the end of the process (`crashed`).
`SocketMatches` allows that one case and no other.

A write is
two steps (`WriteBegin`, `WriteEnd`), so that a read which it does not exclude can
overlap it: a string then reads as anything. What a handler read is not kept: the
property is which writes a read can overlap. `InitVars` takes
no lock; the loop at `n == 0` takes the lock of the last command's channel for
every entry. `Shutdown` is the destructor; `main` never reaches its
`delete m_pTr4`, which stands behind a `return`, so in this program the thread ends
with the process. The model keeps it as the contract of the class.

### Bridge and Mirror

`Bridge` adds to `TR4Link` what each handler does with what it read: it goes round
the entries (`Round` is the order of `ProcessSignaling`: all channels of one kind,
then of the next), keeps the copy in `got` after the mutex is free again, compares it
with `last`, sets `last`, and sends, which may throw. The switch over the states has no
case for REC_UNKNOWN and for numbers that are no state (`Unspoken`): `last` is set, an
empty frame goes out, and the browser shows what it showed before (`Silent`). A copy of a string that `InitVars` is writing may be
the old value, the new one, or torn; it may also crash the program. `view` is what the
browser was told; `missed` the entries whose last message threw, for which nothing is
promised, because `last` was set before; the same goes for a state without words
(`Untold` is both).

`Mirror` says the same without threads: a source that is set item by item and reset
now and then, viewers that look at one item at one moment and show what they saw.
`table` is the source, a reset is `pc = "init"`, a look is the moment of the copy, and
every step of `Turn`, `Locks` and of the locking half of a write stutters. The mirror
is what a browser may rely on: it never shows a value that the table did not have at
one moment after the one shown before, but for strings looked at during a reset. `Mute`
are the values without words, whose messages are lost. The mirror is of the table as it
is, in step or not; what the table holds is the matter of `CurrentConnectionOnly`.

`WsHandler` is the same handler with all four parts of its turn, against a table that
changes at will; `Bridge` keeps the signalling part only, against the real table. A
`CLOSE`, an exception outside the `try`, and the end of the browser are `End`.

### WsHandler

A turn is `receive`, `signal`, `ping`, `voice`. `n` and `flags` are kept because the
loop's condition reads them; `gone` says that the connection broke without a CLOSE:
`receiveFrame` then throws or returns 0, and every send throws. A LivePlay number
that is not 1, 2, 4 or 8 leaves `ch` uninitialised; the handler goes on with some
reader or crashes.

### Settings

The file is `exists`, `rows` and `accounts`; everything else belongs to a handler.
Each `sqlite3_exec` is a step of its own, because each is a transaction of its own:
nothing in `IniHandler.cpp` opens a longer one. Any may fail. `Check`, `Create` and
`InsertDefault` are the constructor, `Close` its destructor or the end of the program
at any statement. A row's value says who wrote it. History variables mark the two
things that the code does not protect against: `interrupted`, a table whose filling
stopped half way or met a failing INSERT (a later start looks only whether the table
exists), and `raced`, a deletion between another's count and its deletion. The
comment at line 505 asks for more than two accounts, the test is `> 1`; the property
takes what both give, that one is left. `GetUser` of an account that is gone leaves
the fields of the one read before, and says SUCCESS; `listed` and `edited` are kept as
state of the handler, and no property is stated of them.

In this program nothing calls `SetValue` or the operations of the accounts; they are
modelled as the class offers them, to handlers that work on one file. `AnswersOwnSection`
looks past `GetValue` to how the tables come about: `keymap` has no sections and is never
cleared, so the answer for a row that is missing is that of another section, or an old
one. It says that this befalls only tables whose filling was interrupted or is under way.

### WebSession

The server keeps no session: it is the browser's cookie. So the browser is in the
model, as an external part: a request carries the cookie as it is when it is sent,
an answer changes it when it arrives, a redirect is followed after that with the
cookie as it is by then, and several tabs do so at once. The addresses
are kept by what the code tests them for. The redirects are relative
(`Default.htm`), so an `.htm` address below a directory without a login is redirected
to a `Default.htm` below that directory, which gets the same answer: the property
`RedirectsEnd` leaves those tabs out (`Astray`) and holds for all others.

The cookie of a login is the constant `Session=Login` (`ClientHandler.cpp:186`, `:271`), the
same for everybody, so whoever sends it is logged in. `Meddle` sets the jar to it as well
as to something else, and `forged` remembers that. `PagesAfterLogin` says what is left:
no page without that cookie, and the cookie from nowhere but a login or a forgery.

### Records

Each statement and each deletion of a file is a step that may fail, and a process may
end at any of them. Recordings are numbered by age, so that `epoch < t` is a comparison
of numbers; `cut` is the `t` that `GetOutOfDateRecords` computes before it connects.
`con` is `m_pCon` and `dbOpen` is `m_dbOpen`, which are not always changed together. A
search's filter is reduced to how many rows match, which the queue of results can tell
apart; `MaxFound` bounds it. `leaked` and `excused` are history: a `MYSQL` that was
overwritten, and whether an operation failed or `EstablishConnection` left the object
open. The `SELECT` of a purge names no order, so the rows of its result come in any.
`Archive` keeps the recordings only, with no objects on them: every statement that is
not a deletion or an `INSERT` stutters there, and so does a deletion of what another
purge has deleted already. The recorder and the clock are external. `DeleteRecordFile` takes a path that is
not there and an invalid name for a file that is gone (`Db_.cpp:265`), and so does the
model, in which the file of a row is under its name or nowhere. `Db_.cpp` is not in the
build and includes a header, `Db.h`, that does not exist; the class has no caller
in this program, so the steps' order is that of its own operations and of `test()`.

### SingleInstance

`OpenMutex` and `CreateMutex` are two calls, and the result of the second is not asked
whether the mutex was there. Two processes that look before either creates both take
themselves for the first (`together`). Either call may fail: line 32 of
`pocoWebServer.cpp` takes no handle, for whatever reason, as no mutex, and nothing looks
at whether `CreateMutexA` gave one. `failed` are the processes to which that happened; the
property is about the others, also while those that failed come and go. A refused process keeps its handle for its
three seconds, so that a start can be refused while nobody runs.

## Runs

| Run | Bounds | Question |
|---|---|---|
| `ring` | ring 7, inserts of 2, chunks of 3: every straddling of the end occurs; two readers; 16 samples, twice around | invariants under all interleavings, lapped readers included; refinement of `AudioStream` |
| `ring_timely` | ring 8, inserts 2, chunks 4, at most 4 per turn: the tightest case that the condition allows | no reader is lapped; every chunk is delivered |
| `bytes` | buffer 11 (a receive and the longest fitting frame), receives to 6, header 2; four frames back to back that fit, then junk, a frame, one that is too long, more junk and a last frame; a junk byte and a parameter byte that look like a preamble; a connection begins at any frame; 27 bytes | framing, loss, overrun, refinement of `FrameStream`, progress |
| `bytes_torn` | as above | violation, see below |
| `link` | 2 channels, state and one string, one thing to say of each, one handler, any number of connections, 1 queued item | table, locks, socket; reconnecting, ending, handlers served |
| `link_eof` | as `link`, three queued items | violation, see below |
| `bridge` | one channel, its state, which may have words or not, and a string, one of the two at a time with a value to show; one handler, any number of connections, 1 queued item | freshness, refinement of `Mirror` with strings read torn, convergence, loss |
| `handler` | 2 channels x 3 kinds, 1 change at any time, PING_TIME of 2 turns, masks 1 and the wrong 3, 3 chunks, sends that throw, a broken connection | consistency, starvation, ping timer, numbering, the ways to end |
| `settings` | 2 handlers (symmetric), ACCOUNT and two tables that share a key, one of them with a second; AddUser up to number 2; accounts at work only while there is no other table | creation, user values, key map, an account is left |
| `session` | 2 tabs, 16 kinds of request, 4 asked or meddled, also with the cookie of a login | where redirects lead, which pages show |
| `instance` | 3 processes (symmetric), 6 starts, calls that fail | one instance |
| `records` | 2 processes, one recording, one result queued | files and rows over failures, refinement of `Archive`, connections, purging |

Deadlock is not checked where the bounds end the behaviour: in the rings, the byte
queue, `WebSession` and `SingleInstance` (`MaxTotal`, `MaxBytes`, `MaxAsks`,
`MaxStarts`). All others are checked for it.

Bounds: `MaxTotal` and `MaxBytes` let the indices go round twice or more, so
that each of the wrapping branches is taken at every offset that can occur;
connections are not counted, and one more may always follow: in `TR4Link` what an
earlier one sent is told from what this one sent by `sent`, not by a number; one value
besides `Unset` is enough for that in `link`, because both what is shown without having
been sent and what stays after InitVars is a difference from `Unset`; one channel is
enough for `bridge` because entries of different channels share nothing but the
handler's round, which `handler` runs over two channels and `bridge` over two entries.
Its specification, `MCSpec`, keeps a second entry from getting a value while the first
has one in the table, on its way or with the browser (`OneAtATime`): entries share the
loops that go over all of them, which run in full, and the queue, which holds one item.
`MCSpec` of `settings` keeps the accounts idle once another table is made
(`AccountsAlone`): no statement touches both. Either drops steps that the code could take
and adds none, and the proofs do without them. With one queued item nothing is left
in the queue from one receive to the next; `link_eof` has three, and the proofs any number; `MaxId` = 2 lets AddUser make a second account, so that
the default one and another can both be counted by two handlers and both be deleted,
which empties ACCOUNT in the run (`raced`), and a number that was never given out can be
deleted; `MaxAsks` = 4 lets a login, a logout and two other requests overlap;
two processes and one recording let one process meet in `records` what the other left
half done. `MaxTime`, `MaxQueue`, `MaxFound` and `MaxStarts` only cut counters. Symmetry
is used in safety runs only. `dial` and `cid` are treated alike by the code, and one of
them stands for both in `link` and `bridge`.

Fairness. The TR4 thread and each handler run on: a loop whose sleeps end
(`WF` on its steps). Strong fairness is assumed only of getting a mutex that is
free again and again, which is what a thread that blocks in `lock()` gets; in `Bridge`,
where each thread has one next step at a time and only a lock disables it, strong fairness
of a thread's steps taken together says the same. The recorder, the network
and the browser owe nothing: `Converges` and `LossShown` say in their premises when the
table rests and when the recorder stays away.
`StopsUnlessLinked` and `LossShown` assume besides that the drain loop ends (`DrainsEnd`):
in step it does, out of step nothing in the code makes it. In `WebSession` every request
gets its thread, every answer arrives and every redirect is followed; that a thread is
free is more than the code sees to, since a handler of a browser that went without a
CLOSE keeps its thread for ever and the pool is finite. `Records` asks that a process purges again and again and, once there is a
table, again and again has its SELECT answered, and that the deletion of one file or one
row that it tries again and again does not fail for ever; of the other processes it asks
nothing. `Settings` and `SingleInstance` assume no fairness.

### What the violations show

- `bytes_torn`: line 309 of `TR4Connection.cpp` compares the length of the
  parameters with what is queued, and then takes 16 bytes more.
- `link_eof`: the states set to REC_DISCONNECT at `n == 0` can be set again, in the
  same turn, by frames of the dead connection, and stay until InitVars.

## Proofs

| Theorem | Statement |
|---|---|
| `ShortQProofs`: `TypeCorrect`, `RingIsWindow`, `SizeCorrect`, `CheckStays`, `ChunksContiguous` | the invariants of `ring`, for all sizes and readers |
| `ShortQProofs`: `RingImplementsStream` | `Spec => StreamPromise` |
| `ShortQProofs`: `TimelyKeepsUp` | no reader that comes round in time is lapped |
| `ShortQProofs`: `EachTurnDrains` | such a reader's turn leaves less than a chunk queued |
| `TR4QueueProofs`: `TypeCorrect`, `HoldsBytes`, `WholeFrames`, `FramesNotSkipped`, `BackToBackNeverOverruns` | the safety properties of `bytes`, for all sizes and streams |
| `TR4QueueProofs`: `QueueIsFrameStream` | `Spec => FramePromise` |
| `TR4QueueProofs`: `DrainGoesOn` | a pass of the drain loop moves on, or ends it in front of an incomplete frame or header |
| `BridgeProofs`: `TableOfConnection`, `Exclusion`, `SocketLife` | the invariants of `link`, for all channels, handlers and connections |
| `BridgeProofs`: `NoDeadlock` | whoever holds a mutex waits for nothing |
| `BridgeProofs`: `NothingOlderShown`, `BridgeIsMirror` | the safety properties of `bridge`: freshness in step, and `BSpec => MirrorPromise` |
| `BridgeProofs`: `SettlesAndStays` | what a browser shows right stays right while the table rests, and a copy that is told puts it right |
| `WsHandlerProofs`: `ClientView`, `EntryServed`, `Pinged`, `TimeCounts`, `EndsOnlySo` | all properties of `handler` |
| `SettingsProofs`: `TablesFilledOnce`, `TablesComplete`, `UserValuesStay`, `OwnSection`, `OneAccountLeft` | all properties of `settings`, for all handlers, tables and keys |
| `WebSessionProofs`: `LoginFirst`, `GoalReached` | the invariants of `session`, for all tabs, files and requests |
| `WebSessionProofs`: `RedirectsSettle` | a redirect's target redirects once more at most |
| `RecordsProofs`: `NothingOrphaned`, `ConnectionsKept` | the invariants of `records`, for all objects and recordings |
| `RecordsProofs`: `RecordsIsArchive` | `Spec => ArchivePromise` |
| `RecordsProofs`: `PurgeGoesOn` | a purge leaves nothing of its result behind but what could not be deleted |
| `SingleInstanceProofs`: `AloneUnlessTogether` | the invariant of `instance`, for any number of processes and starts |

Assumptions are those of the modules: an insert and a chunk are shorter than the
ring (`SizeAssumption`), a turn's samples fit (`PaceAssumption`), the buffer is
longer than a receive and frames do not overlap (`QueueSizes`,
`FrameAssumption`), there is a channel and a mutex is held by one of the threads
(`LinkAssumption`, `HandlerAssumption`), lookalikes start no frame (`FrameAssumption`), a
state without words is not REC_DISCONNECT (`UnspokenAssumption`), tables have rows and are listed once
(`SettingsAssumption`), the three pages are files (`FilesAssumption`), and the purging
object is one of the objects (`RecordsAssumption`).

`ShortQ`: `SizeIsLag` is not inductive. The strengthening says where `index` and
each `read_index` are relative to the stream (`index` is `total` modulo the ring, a
reader that is not lapped stands at its position modulo the ring and is at most a
ring behind), that the cells are the window, and that a reader past its check has
a chunk (`CheckedChunkSurvives`). Modulo arithmetic is done once, in the lemmas on
`Advance` and `NextIndex`. The refinement then follows action by action: an insert's
first step stutters, its second publishes, a check stutters, a remove takes.

`TR4Queue`: the strengthening adds that `rd` never stands inside a frame, that
`rear` is where `rd` is, and what an unsplit receive implies: if the length test
passes at a header then the whole frame is there. That last part is why `split` is
needed; it is exactly what the code's test does not establish by itself. For
`NeverOverrun` a second invariant bounds what is queued when a receive begins: less
than one frame, as long as the stream since `origin` is frames back to back. For the
refinement, `CopyIsFrame` says that the two copies of `GetBuffer` are the frame at `rd`;
each step of the loop is then one of `FrameStream`, and out of step nothing is asked.

`TR4Link`: `LinkInv` has a part per property. `LockInv` ties `mtx` to the program
counters: Routine has a mutex exactly while it writes under it, a handler exactly
while it copies. `QueueInv` has that in step all that is queued, and the command that is
being carried out, is something the present connection sent. `TableInv` says how far
`InitVars` has come: what it is not to write any more is unset, so that a table full of
old values, as an earlier connection out of step leaves it, is empty when the next is
made. `SockInv` says what `ss1` is at each point of the two loops, the exits by exception
included.

`Bridge`: every step is one of `TR4Link` or leaves its variables alone, so `LinkInv`
comes for nothing. `BridgeInv` adds that a handler's copy is of the entry it visits
and that what it keeps as sent is what the browser shows of all it was told (`Coupled`),
and what an entry copied since `InitVars` may hold (`Fresh`): as long as the queue is in
step, and also out of step until the connection is made anew, which is what carries
`NothingOlder` over a reconnect. For the refinement, a step
that copies is a look, the end of `InitVars` is the end of the reset because `TableInv`
has every entry unset by then, and everything else is a set, a show, or nothing.

`WsHandler`: two properties need a measure. `Pace` says that nothing is longer ago than
`PingTimer` counts. `Waits` counts the turns left before an entry is visited (`Left`):
its age and that number together stay below one round, and a turn that does not visit
it takes one from the latter.

`Settings`: CREATE TABLE is refused the second time, so a table has one filler (`Making`),
and all its rows before the one the filler is at are there (`Filling`). `Counting` says
what a count is worth later: two accounts, as long as nobody else deleted. A table that
was filled without interruption has all its rows, so `GetValue` finds one and never falls
back on the key map: `AnswersOwnSection` follows from `Filling`, over every step that a
handler may take between.

`WebSession`: what the server answers is settled first, in lemmas on `HandleRequest`
for every method, address and cookie (`RequestForms`). `OnTheWay` then follows a tab from
the answer that sets the cookie, over the redirect, to the page; `Barred` says that
before a login is accepted or a cookie forged, the cookie Login is neither in the jar,
nor carried by a request, nor under way in an answer; `Behind`, that a page behind the
login is under way or shown only where the request carried it.

For the redirects, every answer that redirects leads to one of three pages, and of
those, with a given cookie, at most one redirects again (`TargetsSettle`).

`Records`: `PurgeInv` says what the result that a purge works on may hold while others
work on the same rows: recordings that have or had a row and are out of date, and, at
the `DELETE`, one whose file is gone, whoever deleted it. `StoreInv` has that no file or
row comes back. The steps of `Archive` follow from these two.

`SingleInstance`: the invariant speaks of processes in the program; its strengthening
takes in those between the two calls, since that is where a pair is formed, and says
that all processes past a call that did not fail have a handle.

Only model-checked is liveness, which is out of the prover's reach. Of most of it the
safety part is proved: what each step may do, without that steps are taken:

| Property | Proved of it |
|---|---|
| `EveryChunkDelivered` | `EachTurnDrains` |
| `CompleteFrameLeaves` | `DrainGoesOn` |
| `HandlersServed`, `StopsUnlessLinked`, `Reconnects` | `NoDeadlock`, `SocketLife` |
| `Converges`, `LossShown` | `SettlesAndStays`, `TableOfConnection`, `EntryServed` |
| `RedirectsEnd` | `RedirectsSettle` |
| `OutdatedGoes` | `PurgeGoesOn`; and `RecordsIsArchive`, that nothing else goes |

## Not modelled

- The text of JSON and base64 messages, HTML pages and files; Poco, SQLite and MySQL,
  which the program calls as libraries: they are in the modules as the statements and
  calls the code makes of them.
- `RegReader` (`ConfigReader`), the 30-second cache of the settings: its only caller is
  `CDb::Connect`, and no `CDb` is made in this build (`ClientHandler.cpp:26` is a
  comment); `Records` takes the user name and password it gives as part of a connect that may fail.
- `URLEncode`, the calendar of `general.cpp`, `minIni`: stateless or vendored, and
  without a caller. `DialogServer` is not compiled. `sha1` and `base64` are codecs of
  third parties.
- Of the start: the command line options and the start and stop of Poco's HTTPServer,
  which have no state of their own in this code.
- Of `Db_`: the directories that `DeleteRecordFile` removes when they are empty, and
  which rows a search matches.
- A channel number above 2^31 from the recorder (`TR4Connection.cpp:194`), which would
  index before the arrays: the models take the channel from `Channels`. A frame that
  announces a negative length (line 305). A browser that sends PINGs without a pause,
  which keeps its handler in `continue`.
- A failing allocation, anywhere. A string assignment that throws between `lock` and
  `unlock` (lines 202 to 217) would be caught at line 229 with the mutex still locked, and
  every handler would wait for it.
