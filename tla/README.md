# MultiGet in TLA+

MultiGet is a multi-threaded download manager (HTTP and FTP, mirrors, proxies,
resume) with a wxWidgets user interface. This directory models it from the part file
and its index up to the table of tasks, and outwards to the sessions with servers and
proxies, the databases, the dialogs and the lock file. Every definition is translated
from the sources under `src/src/`; `PROJECT.json` maps each one to its lines and lists
the runs, the mutants and the hazards.

## 1. Inventory

| Component (sources) | State | Operations | Interacts with | What makes it correct | Modelled in |
|---|---|---|---|---|---|
| File manager (`mgfilemanager.*`) | segments `m_Index`, `m_nFileLen`, `m_nSumBytes`, `m_nOriginBytes`; files `.mg`, `.mgidx` | CheckFile, GetTask, FileData, ThreadQuit, IsTaskFinish | called by the ants and the task; mutex `m_IndexMutex` | every byte the index claims is in the part file, also after a crash; no gap is forgotten | `FileManager`, `Download` |
| Ants (`proants.*`, `mghttpants.*`, `mgftpants.*`) | `m_nRetry`, `m_nFrom` | WorkThread, Retry, ThreadQuit | file manager, task, server | each ends, and releases what it fetched | `FileManager`, `SingleTask`, `UrlList`, the sessions |
| Single task (`mgsingletask.*`) | `m_nAnts`, `m_nRunningAnts`, `m_pAnts`, `m_nStatus`, `m_bInitAnts` | InitThread, ThreadUp/Down/Quit, FinishTask, destructor | creates the ants; posts events to the main window | the last ant is recognised; the end is reported; no thread outlives the task | `SingleTask` |
| Task table (`mainframe.*`, `taskmanager.*`, `tasklist.*`) | `m_AllTaskList`, `m_TaskList`, `gRunTaskNum`, the event queue | OnStartTask ... OnTaskFinish, ScheduleTask | creates and destroys tasks; gets their events | a running task has one object, unless its thread was refused; the limit holds; free slots are used | `TaskTable` |
| Databases (`mainframe.cpp`, `mgapp.cpp`) | `task.db`, `proxy.db`, `config.db` | Save/Read of each, OnClose | task table, proxies | a crash loses no task; a running task has an object | `Databases` |
| Mirror list (`mgfilemanager.cpp` 1218-1360) | `m_UrlList`, `m_nSwap`, speeds | GetTask (URL), ReportUrl, ReportRedirect, AddMirrorUrl | ants | a mirror is checked once; an invalid one is avoided while others are better; a slow ant moves | `UrlList` |
| HTTP sessions (`mghttp*`) | buffers, redirect, `m_nRetry` | GetInfo, Go, GetData | sockets, init thread, ants | a question ends; bytes land in their place | `GetData`, `HttpSession` |
| FTP sessions (`mgftp*`) | control connection, `m_nRetry` | GetInfo, Go, GetData | as above | as above, and every reply belongs to its command | `GetData`, `FtpSession` |
| Sockets and proxies (`mgsocket.*`, `mgproxysocket.*`) | handshake | Connect, DoV4/V4A/V5Connect | sessions | a connection reported was granted, nothing of the server is lost | `ProxySocket` |
| Speed control (`speedctrl.*`) | window of byte counts | DataIn | FileData of all tasks | the rate stays below the limit; no ant sleeps without need | `SpeedCtrl` |
| Single instance (`singlecheck.*`, `listenpipe.*`, `mgapp.cpp`) | lock file, FIFO | constructors, destructor, OnInit, Entry | another process | one program runs; arguments reach it | `SingleInstance` |
| URL parser, batch names (`mgurlparser.*`, `batch.*`) | the last URL | SetUrl, RebuildUrl, Precode; CBatch | sessions, dialogs | the parts of a URL come back | `UrlParser`, `Batch` |
| Window and dialogs (`mainframe.*`, `mgnewtaskdlg.*`, `propertydlg.*`, `proxydlg.*`, `addproxydlg.*`, `mirroradmin.*`) | selection, buttons, the open dialog | handlers, ShowModal, OnProperty, DoNewTask | table, events | a handler means the task the user sees | `MainWindow` |
| Trees, meters, other windows; MD5; strings | display; none; none | - | - | - | not modelled, except Trim |

What is hard: several threads fill one file through an index that identifies
segments by position; the index is rewritten after every piece and the program may
die at any time; ants are cancelled asynchronously while they may hold a mutex; the
end of a task is decided by whoever quits last, and its report reaches the main
window late, even inside a modal dialog; servers and proxies answer in parts, late, or
not at all, and sessions are retried with state left by the one before; processes race
for a lock file. The hazards, each at its line, are in `PROJECT.json`.

## 2. Modules

**`Download`** is the abstract promise of a download with a part file: `have` (bytes
the running task counts), `written` (bytes in the part file), `safe` (bytes a restart
would not fetch again) and what was delivered. `Sound` and `Whole` say
that nothing is counted that was not written, and that a delivered file has no hole. (That an
open task loses nothing is in the action `Receive`; `NothingLost` of `FileManager` is the
property about it.)

**`FileManager`** is `CMgFileManager` with its ants. `index` is `m_Index`, a sequence of
`[start, end, mark]`; `part` and `saved` are the two files; `pc[t]` is where ant `t`
is: `new` (label `again`, before GetTask), `run` (its session), `quit`, `off`. Every
method holds `m_IndexMutex` from its first to its last access, so a method is one
action. FileData is two, `FileData` (up to the end of WriteData) and `SaveIndex`
(WriteIndex and the count), because the program may die between them (`Crash`).
CheckFile is split where the disk changes: `Open`, `CreateIndex`, `Allocate`. `Stop`
is the end of a task by the user or by a death with no piece in flight: both forget
the memory and leave the disk. Pieces, closed connections, failing sessions and the
request to change the URL (`swap`) are choices. The ant is the unit of choice; which URL it uses
is not state. The loops over the index (`MergeIndex`, `SumBytes`, `ReadIndex`) are recursive
functions over the positions of its segments, and `OrderIndex` puts each segment at the place
given by the number of those before it. The index file after a crash is the old one or a
prefix of the new one, as `endl` flushes every line. A torn line yields a prefix that ends in a shorter
or invalid segment; it is not modelled separately.

**`FileManager` implements `Download`**: `have` is the bytes of the index below the
file length, `written` the bytes of the part file, `safe` the bytes ReadIndex would
return if CheckFile accepted the files, and the phases of CheckFile after the
truncation are `opening`. TLC checks `ImplementsDownload == Abstract!Spec`.

**`SingleTask`** is `CMgSingleTask`: the init thread, up to ten ants and the thread of
the user interface, at the granularity of their locks and cancellation points. The
file manager is reduced to a number of pieces and the mirrors it was given: GetTask hands a
piece out, FileData stores it, its ThreadQuit gives back one that was not stored. `indexMutex`
and `listMutex` (`m_UListMutex`) are kept because an ant may be killed while holding one of them,
and because FileData waits for the second with the first one held (`compare`); `antsMutex`
because ThreadDown keeps it while it joins. AddMirrorUrl takes no lock of the task: `ClickMirror`
grows `m_sMirrorUrl`, `TestFM` reads `m_pFM`, and `AddMirrorUrl` uses it, three steps between which
the init thread makes, deletes or fills the file manager (`InfoDone`, `CheckFails`, `GiveMirrors`);
a list that grew under the iterator of the init thread is `torn`, and what is given of it is any
part. A call of an object that was deleted is undefined; here it returns. Branches that cannot
be taken (ThreadDown before the ants run, a NULL entry below `m_nAnts`) have no action.

**`TaskTable`** is `MainFrame` with `CTaskManager`: `order` and `status` are
`m_AllTaskList`, `objects[t]` the objects with id `t` in `m_TaskList` (a sequence, since nothing
in the code forbids two), `events[t]` the finish events of `t` in the queue. A handler is
an action, with the ScheduleTask it ends with; `Row` is the position of a task in the table,
and ScheduleTask starts the first waiting tasks by rows. Its guard is what UpdateToolBar
enables: for the status of the selected task, and at the root of the tree (`root`), where
UpdateTaskList returns early, for the status the buttons were last set for (`bar`). So Start may
meet a task that runs: OnStartTask does not look, and the task waits while its object runs
(`requeued`, also after a reload that is confirmed late). AddTask lists no object when Go() fails;
the task is shown as running all the same (`stuck`; `Refused` bounds the tasks it happens to). A
Go() that succeeds leaves an object that need never end. A thread of an object sets the status
(`SetResult`) and posts the event later (`PostEvent`); removing an object joins its threads, so
the event may be posted in that step (`late`). While OnReloadFile asks (`asked`), only the tray
menu, events and new tasks from other programs act; a new row may move the table under its
pointer (`dangling`), and the answer then goes to freed memory: the row stays as it is.

**`GetData`** is the loop that both kinds of ants share: bytes collect in a buffer
(`held`), WriteData stores it when it is nearly full, when the server closes and when the
connection breaks, and FileData answers `more`, `stop`, `url` or `fail`. `file` is the set
of pairs <<place, byte of the server>> that were written. `FtpSession` and `HttpSession`
extend it and add the dialogue around it.

**`FtpSession`** is GetInfo and Go, command by command: `at` is the command whose reply
is awaited, `wire` the lines that were not read yet. GetRetCode takes what has
arrived and forgets the rest (`Answered`). A `server` (external) is a record of what it can
do; every command may meet a timeout.

**`HttpSession`** is GetInfo, called by the init thread (`checking = "init"`) or by an ant,
and Go. A header is a sequence of lines, and `buf` what the buffer holds: behind the header lies
what a longer one before left there (`Filled`), or what was on the stack, as the buffers are not
initialised (`Stack`), or, after a GET, anything (`Under`). GetBufLine reads on into it, so a length, a
place or a status there counts. The servers (external) answer from `Replies`.

**`ProxySocket`** is Connect. The proxy (external) answers two bytes per request; `in` is what
was not read of them. A Read takes a part of an answer, an answer, or an answer with the
first bytes of the server behind it.

**`UrlList`** is the list of URLs with the priorities by which GetTask picks one, the check of
a mirror at its first use, ReportUrl, ReportRedirect, and the swap of slow ants. FileData
increments a priority without the mutex of the list, so that is two steps, `Load` and
`Store`.

**`Databases`** is the program from its start to its end, once and again: a save is the
truncation of a file, a header, records, and the header again, with a crash or a full disk
between any two; the next start reads what is there. Tasks only run and leave here;
`TaskTable` has their handlers.

**`MainWindow`** is the list of tasks, its selection and buttons, and two dialogs.
`OnProperty` opens one, `OkProperty` is what follows ShowModal; between them tasks end,
arrive and leave the list. A text is an address in parts. What it tells an object (`Told`) is one
step here; the steps of AddMirrorUrl against the init thread are those of `SingleTask`.

**`SingleInstance`** is CSingleCheck, OnInit and CListenPipe of several processes: an action is
a call that other processes can see. A FIFO is named by the process that made it. `pace`
says how patient the user is, of the choices in `Paces`: `any`; `starts`: one start at a time looks at the lock;
`turns`: ends wait too; `waits`: also for the listener. The lock is written in one step: a
lock found empty names no process and is treated like one of a dead process.

**`UrlParser`** has one step, a call of SetUrl of an object that keeps what the call
before left; RebuildUrl, Precode and GetFileName are operators. URLs are
sequences of characters because the properties are about characters. **`Batch`** is CBatch,
with the width of `size_t` a choice. **`SpeedCtrl`** is CSpeedCtrl with its window; integers
wrap at `Half`.

**`Session`** puts the two sessions and the talk with a proxy side by side: `kind` chooses one of
them at the start. The two sessions share the variables of `GetData`, which is what the two classes
of ants do with the same code.

**The MC modules** that check several instances in one run (`MCDatabases`, `MCMainWindow`,
`MCSingleInstance`) or several modules (`MCHelpers`) instantiate
each of them and choose one in the initial state: the state space is the union of theirs.

Operators named `...Mutant` are plausible bugs. Put in the place of the definition after it,
each one listed in `PROJECT.json` makes a property of a run fail. `IndexRight`, `BytesTrue`,
`UrlsRight`, `ListsRight`, `ReadBack`, `SelectionTrue` and `MirrorsRight` are conjunctions of
the named properties before them, and have a mutant for every conjunct that matters.

## 3. Runs

| Run | Instance | Shows |
|---|---|---|
| `Download` | file of 3 bytes, all runs of bytes as pieces | `Sound`, `Whole` |
| `FileManager_threads` | 3 ants on 12 bytes, two clicks; split limit 4, pieces of 4 | `IndexRight` (segments ordered and apart, their sum counted), `MarksAlive`, `NothingLost`, and `IndexBounded` (the bound, ants + 1, is reached) |
| `FileManager_restart` | 2 ants, 5 bytes, opened twice, pieces of 0, 2 and 4, 1 byte too many, known and unknown length, fairness | `BytesTrue` (no byte of the index, of a restart or of a delivered file was not written), `ErrorHasCause`, `ImplementsDownload`, `TaskEnds` |
| `SingleTask` | 3 ants at the start, or 1 by the server; table of 3, 2 pieces, 1 added, 2 removed, a mirror, one report or new attempt, fairness | `CountedUntilDown`, `NeverOvercounted`, `Reported`, `ErrorHasCause`, `ThreadsDieWithTask`, `MirrorsGiven`, `ClicksReturn` |
| `SingleTask_count` | 1 removed | violation of `RunningCounted` |
| `TaskTable` | 3 tasks, or 2 and a reload or the root of the tree; limits 1 and 2, and 3 with two tasks; the thread of one may be refused; 2 events in the queue | `OneObjectEach`, `EndReported`, `LimitKept`, `SlotsFilled` |
| `UrlList` | 2 ants, the main URL, a mirror redirected to it, one of another length redirected to an unsupported URL; 4 uses, 2 pieces | `UrlsRight` (every mirror checked once, doubles only by redirects), `InvalidShunned` (an invalid one is used when all others are charged down to it) |
| `Session` | files of 2 bytes, buffer of 2, 2 sessions; 6 kinds of FTP servers; 3 HTTP URLs with 14 replies, two of which redirect to each other, and 3 contents of a buffer; 256 kinds of proxies with 4 versions; fairness | `InfoTrue`, `BytesInPlace`, `ResumeWritten`, `ConnectTrue`, `SessionEnds` |
| `Databases` | 2 tasks and 3 starts; or 2 proxies and a task, 2 starts; or 3 directories in a history of 2, 2 starts | `ReadBack` (all or nothing, and what was saved), `RunningHasObject`, `DirectHasReason`, `ListsRight` |
| `MainWindow` | 2 tasks of one address, 3 lists, a limit of 1; or a pattern that makes 2 tasks and a directory among the mirrors | `SelectionTrue`, `MirrorsRight` (told to the object, of the task the dialog was opened for; named) |
| `SingleInstance` | 3 starts; at the paces `starts` and `turns` two may die and a number is reused; at `turns` and `waits` without deaths, with fairness | `OneProgram`, `ListensInTurns`, `HandOvers` |
| `Helpers` | 200 URLs in 2 calls; 6144 texts in 2 builds; 2 ants with changes of the mode, 2 ants, or 1 with pieces of two lengths, window of 3 | `UrlsParsed`, `PatternsOnly`, `SpeedKept` |

*Bounds.* `RECVBUF` scales the split of gaps: with 4 and a file of 12, gaps are
split two or three times, at places that are no multiples of a piece, and every branch of GetTask, MergeIndex and WriteData is
taken. A piece of 4 lets an ant reach, pass and swallow the next segment; one of 0, at a
restart, is a connection closed at once. Two
starts are enough for a restart: what a start finds is only what is on disk, and a
second crash is like the first; `Databases` has three for a task list saved, read and
saved again. `MaxClicks`, `MaxUps`, `MaxDowns`, `MaxReloads`, `MaxEvents`, `MaxUses`,
`MaxPieces`, `MaxCalls`, `MaxModes` and `MaxTime` bound the user, the queue, the
counters and the clock, `MaxMirrors` and `MaxReports` what else occupies the mutexes. With the 4 uses
and 2 pieces of `UrlList` no URL is charged (500 a use) down to the -100000 of an invalid one, which takes about 200
uses: that half of `InvalidShunned` is beyond the run, and the theorem, which has no bounds, covers it.
(The preset of the main URL is 10000, as in the code at 118; the comment at 1213 says 20000.)
Two tasks show every confusion of ids, three are needed for a queue behind a limit of two; `Few` leaves out
the root of the tree, reloads and second objects there, combines neither the first two nor a refused thread with a
second object, and lets one task at a time be queued again. A session that is retried once and a
second piece show what a session leaves behind, a file of two bytes and a
buffer of two that its pieces go to their places. The lists of the parser have a URL for each of
its tests, with a name of at most 2 and a server of at most 2 characters (30 and 256 in the
code). The HTTP replies redirect in a circle; the code does not end it, and `SessionEnds` says so. Ants
are interchangeable (their number is only compared), so they are
symmetric in `FileManager_threads`.

*Deadlock* is checked for `TaskTable`, `Download` and `Session`. Elsewhere the system may
stop: a task that is over and may not be opened again, a task object that is destroyed, a
program that has ended, a bound that is reached. The real hangs of a task are named
(`MutexLost`, `ListLost`, `Embraced`), and `ClicksReturn` shows that there are no others; `HandOvers`
does the same for processes that wait in open.

*Fairness.* Threads and processes are scheduled by the system: weak fairness of each ant, of the
init thread, of a handler that has started, of each process and of its listener, and of the
client of a session, whose waits are cut off by timeouts. (Weak fairness is enough to get a mutex in `SingleTask`, because
`MaxReports` keeps ants from taking it again and again for ever.) Nothing is assumed of the user, and a
server is never obliged to anything in a safety property. `TaskEnds` needs more: a server
asked again and again sends a byte, or closes at the end of the file, at some time (strong
fairness of `ServerAnswers`; like the weak fairness of GetTask and of ThreadQuit it is written
out with the guard of the action in place of ENABLED), and it says nothing of a file that a server made longer than
its length. Without that assumption an ant whose connections are all closed empty asks for ever,
since such a session costs no retry. `SessionEnds` also uses that the server ends a listing it
has begun (`ListingSent`).

## 4. Where documents and code disagree

The run `SingleTask_count` shows one such place: the comment at `mgsingletask.cpp` 657 says that
the removal of an ant that has quit merely clears it away; it is counted out twice, so the task
may be reported as over while an ant still works (`RunningCounted`). `CountedUntilDown`
and `NeverOvercounted` are what remains true.

The modules state more of what comments promise, as definitions that no run lists since TLC
refutes them; add one to a configuration to see its counterexample:

| Definition | The source says | and does |
|---|---|---|
| `IndexWithinFile` | `mgfilemanager.cpp` 835, 893: data past the end are cut | not when a piece joins two segments (910) |
| `CheckedBeforeUse` | 1266: a URL used before need not be checked | it is marked as used when its check begins |
| `NoMoreChance` | `proants.cpp` 276: an invalid URL gets no more chance | the unlocked increment at `mgfilemanager.cpp` 674, or a first use (1259), can overwrite the report; and (beyond the bounds) the others are charged down to it |
| `NoSameUrl` | 1330: "must filter out the same" | ReportRedirect does not |
| `SwapAlive` | 704: speeds are compared and slow ants moved | m_nSwap may name an ant that is gone, and is then never cleared |
| `Ftp!Found` | `mgftpinfo.cpp` 145: "file NOT exists" | also when 226 arrived together with 150, since GetRetCode forgets it |
| `Ftp!FailureCosts` | `mgftpants.cpp` 89: "<0 : something wrong, task fail" | -3, of a refused TYPE, is taken for a change of URL |
| `Http!ReplyTrue` | `mghttpbase.cpp` 247: -1 when no line ends in the buffer | lines behind the header are read, of an earlier reply or of whatever the buffer held |
| `Http!RangeHonoured` | `mghttpinfo.cpp` 61: resuming is "default true for http" | a 200 to a request with Range is taken like a 206 |
| `Http!OwnProtocol` | `mghttpinfo.cpp` 214: Location may begin with ftp:// | an ant then goes on by HTTP |
| `Proxy!AutoFinds` | `mgproxysocket.cpp` 89: the proxy closes after a rejected request | the other versions are tried on that connection |
| `Proxy!NothingEaten` | 92: "as if it were directly connected" | a greeting that arrives with the answer is dropped |
| `RunningKept`, `FinishKept`, `CurrentExists` | `mainframe.cpp` 4637, 4636, 4622: what a running or finished task may change, and that there is a task | the dialog's task is looked up again after it, and may be another one or none |
| `DefaultNotAdded` | `propertydlg.cpp` 839: default names are not put into the address | pointers are compared |
| `MirrorsNamed` | 896: the file name is put behind a directory | not while the spin control was never touched |
| `MirrorsFit` | `mgnewtaskdlg.cpp` 872: "too many murl" | the count is tested before the last is added |
| `PortFits` | `mgurlparser.cpp` 498: "max port is 65535" | five digits are accepted |
| `NameHasNoPath` | 218: "only file name without path" | %2F is decoded after the cut |
| `PlainKeptWide` | `batch.cpp` 40: "find if there have '-' and it's in []" | npos is cut to 32 bits |
| `OnlyDigits` | 110: "confirm all char is digit" | IsDigital is always true |
| `OneProgram` with `any` in `Paces` | `mgapp.cpp` 79: "single check" | the lock is looked for and made in two steps |
| `OldRuns` | `singlecheck.cpp` 101: "prog exists" | the number may be another program's |

Some need inputs of their own: `MirrorsNamed` a directory that is entered in the property
dialog, `MirrorsFit` more mirrors than `Room`, `PortFits` the port 99999, `NameHasNoPath` an escaped slash.

Other limits the properties state openly:

- `OneObjectEach` and `EndReported` exclude a task that was queued again while an object ran it
  (`requeued`): by Start at the root of the tree, whose buttons go stale, or by a reload confirmed
  after the tray menu had started the task. `OneObjectEach` also excludes a task whose thread was
  refused (`stuck`), which is shown as running without an object until it is stopped.
- `LimitKept` excludes the task that takes the place of such a one when the two are moved, and
  `SlotsFilled` a deletion, a raised limit, a move up whose thread is refused, and the second object of
  a task that was queued again, which takes a slot from another when the task is moved up (found
  while proving; TLC shows it with a limit of 3).
- `ClicksReturn` excludes three hangs: an ant was killed with `m_IndexMutex` locked, or with
  `m_UListMutex` (`ListLost`: FileData of other ants then blocks with the index locked), or the ant that
  is joined waits for the `m_AntsMutex` of the joiner.
- `MirrorsGiven` excludes a list that grew under the iterator of the init thread. Mirrors entered
  for a task that left the list during the dialog go to the task that is selected at OK
  (`mainframe.cpp` 4639): `SameTask` excludes it, and the model does it.
- `Reported`, `CountedUntilDown` and `ErrorHasCause` promise nothing once an ant was removed.
- `InvalidShunned` excludes a report that a piece or a first use overwrote, and allows an invalid URL when
  every other one was charged down to it. `UrlsRight` is not about a second ant that
  fetches from a URL while the first checks it (`CheckedBeforeUse`), nor about a lost report.
- `SessionEnds` excludes a redirect that goes on for ever (`proants.cpp` 266, `mgsingletask.cpp` 364).
  `InfoTrue` is about FTP only: what CMgHttpInfo tells may come from any text behind the header.
- `RunningHasObject` excludes a list that was saved while tasks ran; a thread that is refused is
  left to `TaskTable`.
- `SpeedKept` excludes, for the sleep, times that an int cannot hold.
- `OneProgram` is not about two starts that look for the lock between each other's two steps.

## 5. Proofs

Each theorem is for every value of the constants that the named assumptions allow. Nothing
else is assumed, except where a theorem states a hypothesis.

**`DownloadProofs`** proves `TypeOK`, `Sound` and `Whole` of `Download` for
every file length, set of lengths and set of pieces (`DownloadAssumption`).
The inductive invariant is `IInv == TypeOK /\ Sound /\ Whole`: `Sound` is inductive with the
types, and `Whole` follows at `Deliver` from `Sound` and the guard `Full`.

**`FileManagerProofs`** proves `IndexRight`, `IndexBounded`, `NothingLost`, `BytesTrue`,
`ErrorHasCause`, `MarksAlive` and `ImplementsDownload` for every number of ants, length of the file, size of the pieces,
number of openings, and every place of a crash.

Its first half is about the operators of the segment index, for every index and piece.
Segments are ordered and apart (`Ordered`), and an index is the set of its bytes (`Bytes`);
with these two, each operator has a lemma of one line of meaning: MergeIndex returns an ordered
index with the same bytes (`Merged`), putting a piece away adds its bytes and no others
(`PieceWritten`), GetTask gives a gap that no ant has and keeps all bytes (`TaskGiven`), the sum
of the segments is the number of bytes (`SumCounts`), ReadIndex keeps what lies within the file
(`ReadKeeps`). The loops are recursive functions. The induction theorems of the
library take an operator as a parameter, which the provers cannot instantiate, so `Least`
derives from well-foundedness that a set of numbers has a least element, `Induct` is induction
for a set of numbers, and `Iterated` says that a function computed from its value at the place before
exists; a lemma about one turn of the loop (`TurnKeeps`, `ReadTurn`) does the rest.

The second half is about the actions. `BytesTrue` is not inductive. Beside the types,
the phases (`Asleep`), the order of the index and its marks (`Shape`, `Alive`) and the index on
disk (`DiskSound`), `IInv` needs

- `SavedHeld`: what a restart would resume from is in the index, because a piece may give the part
  file the length at which a restart begins to accept it;
- `Growing`: while the part file may be longer than the task believes, the index is one segment
  that grows from the first byte, and the part file has no hole, because the index file is
  rewritten meanwhile;
- `Solo`: while no length is known the ant at work extends that only segment, which keeps `Growing`;
- `Counting`: the count is the sum of the index, but for the piece that is being stored.

`ErrorHasCause` has an invariant above it, `EInv`: a segment is marked only by an ant that is at
work or used up its retries (`Marked`), so an ant that GetTask gives no position leaves a finished
index, or one that others still extend; and as long as no retries are used up and the index is not
finished, an ant is at work (`Attended`).

`MarksAlive` has another one, `MInv`: a marked segment reaches its ant, or the end of the file
(`Reached`), also where the ant will go on once the piece being saved is counted. The second
alternative was found while proving. When a server sends at least two bytes more than
the file has, a piece that joins two segments may mark a segment beyond the end of the file; the
next piece cuts it back to the end, under the ant that goes on there. TLC shows it with three ants,
a file of 20, `RECVBUF` of 10, pieces of 1, 3, 9 and 10, and 3 bytes too many. It does no harm,
since no gap is left behind such a segment.

The refinement maps every step, crashes and restarts included, to a step of `Download` or a
stutter (`InitMaps`, `StepMaps`); with it the theorems of `DownloadProofs` hold of the file
manager.

**`UrlListProofs`** proves `UrlsRight` (with the types, `CheckedOnce` and `SameOnlyByRedirect`) and
`InvalidShunned` for any number of ants and mirrors, retries, packs and uses, whatever the servers redirect to and
whatever an increment without the mutex overwrites. It assumes finitely many mirrors, as the list is
a vector. `IInv` consists of what the list holds (`Listing`), that only redirects make entries
alike (`Twins`), that an ant has an entry of the list (`Places`) and, at work, retries left (`Tries`),
that an increment belongs to the ant that stores a piece, so that the packs counted are
pieces delivered (`Packs`), and that an entry nobody used was not checked (`Checked`), without which
GetTask could hand out a checked entry for a check again. `Foremost` and `BestListed` show that
GetTask finds an entry at all: a list has a first entry of the highest priority. `InvalidShunned`
needs one more invariant (`Credited`): the priority of an entry is at most what it was ever credited
with, less 100000 if it was reported as invalid and the report was not overwritten. Every step is
`Fair` to an entry: it gives it no more than it is credited with. As GetTask takes the first entry of the
highest priority (`BestIsBest`), the others are not above that bound when an invalid one is taken.

**`TaskTableProofs`** proves `TypeOK`, `OneObjectEach`, `EndReported`, `LimitKept` and
`SlotsFilled` for every number of tasks, limits, reloads and events. `OneObjectEach` is not
inductive: `IInv` adds the types, that an id not yet
given has no row, no answer awaited and no reload (`IdsInTurn`), without which `NewTask` could
overwrite the row of an object that is already there, that only running tasks are stuck and only tasks
with an object queued again (`Ghosts`), and that a running task that is not stuck has an object
(`Fed`). `Rows` says that the table has one row for each task that has a status,
and `Reporting` that an object that has ended is due to post its event, or the
event is in the queue (`Told`), which rests on a running task having an object (`Fed`).
The two action properties count objects over the rows: there is a first
row of every kind (`LeastRow`), ScheduleTask gives objects to the first waiting rows as far as
the slots go (`RanksFit`, `FirstOnes`, `Scheduled`), and every step is one of four kinds
(`StepKinds`): it schedules (`Schedules`), leaves the slots alone (`Keeps`), frees them and lets no task
wait (`Leaves`), or lets two tasks change places (`Exchanges`).

**`SingleTaskProofs`** proves `TypeOK`, `NeverOvercounted`, `ThreadsDieWithTask`,
`CountedUntilDown`, `Reported`, `ErrorHasCause` and `MirrorsGiven` for every
number of ants, pieces, mirrors and clicks. The inductive invariant has four parts beside the types:

- `Fetched`: pieces waiting and pieces being fetched are at most `Pieces`;
- `Handlers`: what a half-done click relies on, since ThreadUpDown tests its conditions
  before it takes any lock;
- `Owned`: a living thread has an object in m_pAnts, where the destructor finds it, and there
  is none before the init thread is done;
- `Counting`: while ThreadDown joins the ant it takes away, that ant is still in the count,
  dead or alive; between clicks, and while an ant is added, the count never exceeds the living.

Each thread has a lemma (`InitStepIInv`, `AntIInv`, `ClickIInv`, `ThreadUpDownIInv`,
`DestructorIInv`); `AntSets`, `Less` and `More` are the facts on cardinalities they share.
The last three properties have an invariant of their own above it, `JInv`: as long as no ant was
removed the count is exact, the ant that brings it to 0 has reported, and each ant that was
added allows one report more (`Exact`); only the
destructor stops a task whose ants run (`Stopped`); and an ant that leaves undisturbed has found
no piece (`Fetching`). `MirrorsGiven` has a third one (`Mirrored`): once the init thread is through with
`m_sMirrorUrl`, all its URLs are given but the one a click is about to give.

**`SingleInstanceProofs`** proves `OneProgram`, `ListensInTurns` and the types for any number of
starts, deaths, ends and reused numbers, when `any` is not in `Paces`. `OneProgram` is not inductive:
`IInv == TypeOK /\ Ends /\ Turns` adds that a FIFO that is read or written exists (`Ends`), and
(`Turns`) that a later program only hands over and ends, that from its own lock on the program
has its number in the lock (`Locked`), that one start at a time looks at the lock
(`OneStart`), and that nothing is up while a start replaces the lock (`Vacant`). A lemma each covers
the start, the hand-over, the listener and the ends. For `ListensInTurns`, `EarInv` adds that only
the program listens, up to its end (`Owned`), on the FIFO of the path (`Tuned`), and that it is
alone when it ends (`Alone`): then nobody listens when a FIFO is removed.

**`SessionProofs`** proves `ResumeWritten` for both protocols, `BytesInPlace` by FTP and
`InPlaceByRange` by HTTP, what CMgFtpInfo
tells (`Ftp!InfoTrue`), and `InfoTrue` and `ConnectTrue` of their composition
`Session`, for every file, size of the buffer, number of
sessions, set of servers and set of proxies. Four lemmas are about GetData: bytes go to their place if the server
sends from the place of the buffer on (`InStep`), and only what was written is counted. By FTP,
`InStep` rests on the restart marker: it is 0 up to REST, and then `ResumeAt` if REST was
granted (`Marked`); and this rests on replies that answer the command that was sent last
(`InTurn`), which is false in the listing of GetInfo alone, whose 226 may be left unread until the
next connection. By HTTP, the code trusts servers to honour Range and takes any 2xx, so a byte may
be out of place (`Http!RangeHonoured` in section 4); `HttpInPlace` says without any hypothesis
when: only while the server of the URL ignores Range (`InPlaceByRange`). In the run every HTTP server
honours it, so that there `BytesInPlace` holds. `HttpResumeWritten` holds for every server.
Nothing is proved of what CMgHttpInfo tells, but that it is of its type whatever lies in the buffer.

For `InfoTrue`, `FtpBounds` and `HttpBounds` add the bounds of the counters: the retries and the
budget that are left where they are tested, the buffer, and the place in the file. For
`ConnectTrue`, `ProxyInv` says of each state of Connect what the proxy has answered and what was not
read of it (`Awaited`): the answer to the request sent last, or a part of it, or nothing because
the proxy closed; no byte of the server is among it until the proxy has granted (`Heard`), and
only bytes of the server can lie behind a grant (`Quiet`). So an answer that is cut, joined or left
over is never taken for a grant. `Persistent` says that Connect has no reason to give up on a proxy
that obliges: one that speaks the version, reaches a server that does not speak first, and has had no
trouble (`Obliging`).

**`DatabasesProofs`** proves `ListsRight`, `RunningHasObject`, `DirectHasReason` and `ReadBack` for
any tasks, proxies and directories, any length of the history, and any number of starts, crashes
and full disks. `ReadBack` says what a start reads; what makes it true lies between: the
lists stand still while a handler saves them, since the handler runs to its end before another
(`Writing`); a final header announces what the save was to store and no more is behind it, and a
file that was stored is of a version that can be read, with every field that version has
(`Kept`). A crash keeps this because the first header announces nothing: a draft is
read as an empty list. For `RunningHasObject` no task list may be stored with a running task
(`Quiet`), for `DirectHasReason` the proxy of a task has to be known or removed (`Routes`). That no name is listed
twice goes through every list and every file (`Storable`). `NamesAssumption` keeps the two marks
of a task without a proxy or an object apart from the names of proxies.

*Only model-checked:* liveness (`TaskEnds`, `SessionEnds`, `HandOvers`) and `ClicksReturn`, which
rest on fairness or are about everything that waits; `MainWindow`, whose lists are filtered with SelectSeq, an operator that the
provers cannot expand; and the helpers, where the properties of the parser and of the batch
names are about what folds over characters return. The types of `SingleTask`,
`SingleInstance`, `TaskTable` and `Download` are proved and therefore not listed as properties of
their runs.

## 6. Not modelled

- Of the file manager: the heartbeat and copies for display, refusals of MoveFile, the result of
  fclose and full buffers of stdio, files left open after a failed write, two tasks with one file
  name, a file that was replaced on the server by one of the same length.
- Of the task: the display, which locks `m_IndexMutex` too (UpdateRunningTable), and calls of a file manager
  that was deleted. Of the table: the message box of OnTaskFinish, memory that was freed.
- Of the sessions: the text of headers, replies and listings, name resolution, the choice among
  several proxies; plain sockets are the choices that the sessions make.
- Of the window: display, trees, meters, menus, tips, the view without a list, the second half of
  dialogs other than the two modelled; pointers kept across handlers (`CFileMd5`), and MD5 itself.
- Of the parser: the limit of 510 characters, schemes in upper case, an empty server.
- Of the single instance: the text of arguments and languages; OnExit is not called when OnInit
  returns false, and a broken pipe is caught by nobody, as in the model.
- `mirroradmin.cpp` is not used by any code: its global is commented out in `common.cpp` 190.

## 7. What is left

The next proof is that of `SelectionTrue` of `MainWindow`, with the filter of its lists written as
a function of positions, as `OrderIndex` is. The composition
of `UrlList` with the loop of `FileManager`, and of `Databases` with all handlers of
`TaskTable`, would tie priorities to pieces and saves to clicks.
