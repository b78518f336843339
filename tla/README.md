# Verification of i-can-code

TLA+ models of [i-can-code](../src/README.md), the TLC runs that check them and the
proofs about them. i-can-code is a browser application that teaches programming:
lessons in Markdown, Python in the page (WebAssembly in a worker), Tkinter
programs on a Linux virtual machine in the page (v86), and the micro:bit over
WebUSB. Nearly all of it is Dart (Flutter); the machine and the Python workers
are JavaScript, the machine's agent and the micro:bit driver are Rust.

## 1. Inventory

What is modelled is in bold. "Correct" says what would make the component right.

| Component | State | Operations | Hard part | Correct |
| --- | --- | --- | --- | --- |
| **VM run layer** `web/vm/vm_run.js` | `#state`, `#run`, `#queued`, open HELLOs, strikes, STOP timer, park in progress, waiters | `load`, `run`, `stop`, `setVisible`, `destroy`; frames; deadlines | Every method awaits, and anything comes in between; timers race answers; second goes | Every run ends once; a new run never waits; `stop()` resolves; no start hangs |
| **VM machine** `web/vm/vm_machine.js` | queue of operations, wanted and actual CPU state, visibility, snapshot, guest clock; rootfs reads and kept files | restore, resume, pause, setVisible, destroy; read, retry, keep, evict | Reads that outlive a restore; a clock that v86 sets wrong | CPU follows the page; no reply to a guest that did not ask; the guest reads its own time |
| **Watchdog** `web/vm/vm_watchdog.js` | deadline, holds, time held for fetches | start, stop, pause, resume, setFetching, sample | Which time counts | No expiry while hidden; a hung guest expires |
| **Flow control** `web/vm/vm_protocol.js`, `vm/agent/src/agent.rs` | credit, held frames; bytes not reported | send, grant, reset; report | Snapshot and respawn cut across the count | No overflow, no deadlock, no credit made or lost |
| **Codecs** `vm_protocol.js`, `frame.rs`, `proto.rs` | decoder buffer | encode, push, reset | resynchronisation, limits | What is sent after a delimiter arrives, in order, and nothing else |
| VM agent `vm/agent/src` | current run, outbox, output batches, supervisor, prelude | frames from the host, output, reaping | fork server, kill and reap, output before EXIT | One EXIT per run, after its output |
| **Bundle download and cache** `vm_download.js`, `vm_bundle.js`, `vm_cache.js` | parts, joiners, locks, pieces kept, cache entries | load, prefetch, join, leave, retry, keep, forget | resumed, aborted and shared downloads; other tabs | The bytes are those of the manifest; each caller is told; no tab loses files it uses |
| VM runtime and sessions `lib/services/vm`, `lib/views/components/vm` | the page's view of loads and runs | forward calls and events | reports of old runs | The report shown is that of the last run |
| Standard input ring `web/python/stdin_channel.js` | ring in shared memory | write, end, signal; read | two threads, `Atomics.wait` | No byte lost or doubled, no lost wake-up |
| File channel `web/python/file_channel.js` | a one-batch mailbox in shared memory | send, take | two threads, polling | Batches arrive whole and in order |
| **Python REPL** `web/python/python_repl_worker.js`, `python_repl_web.dart` | the folder, in the page and in the worker | edits of either side, report, refuse, restart | both sides edit the same folder | The two folders agree once both are quiet |
| **WASI files** `web/python/wasi.js` | tree, nodes, descriptors, bytes used | the file calls; `writeFile`, `removeFile` of the page | open files whose names are gone; renames | The quota charges what can be reached; files hold what POSIX says |
| **Image build and publishing** `vm/tools` | the image directory, the archive, the pin | build-state, write-notices, package-image, fetch-image, check-image-pin | a tool stops half way; several images about | The entry point names a whole, warm image; a pin one that may be published |
| Image checks, benchmarks `vm/tools` | - | - | - | - |
| Python program worker, build | one run per worker | run, terminate | - | - |
| Progress, drafts, preferences `lib/services/progress`, ... | stored values | save, merge, remove | saves in the background | The last edit is kept |
| Lessons `lib/services/lessons` | parsed courses | parse | - | - |
| micro:bit `rust/src`, `lib/services/microbit` | connection, flash progress | connect, flash, poll, disconnect | unplugging at any time | The session ends in a known state |
| Routing, startup, screens, tools | - | - | - | - |

How they interact. A screen calls `VmRuntime` (Dart), which calls `Vm` (JS) and
hears its events. `Vm` owns one `VmHost` (the machine) and through it v86; it
sends frames on a serial line with `CreditedSender` and takes the agent's. The
agent, inside the guest, starts the program in a warm interpreter, and reports.
Every run ends in a *park*: the machine is restored from its snapshot and
stopped. The REPL's worker blocks in `Atomics.wait` while the page writes to the
rings it shares with it. The machine and its files come as a bundle that the image tools
make, publish and pin; the page downloads it in pieces, keeps it, and shares the
download among those who wait for it. Rootfs files are fetched while the guest runs.

`PROJECT.json` lists every component with its sources, and under `hazards` what
in this code is hard to test, each with the property that watches it or the
module planned for it.

## 2. Modules

| Module | Models | Runs |
| --- | --- | --- |
| `VmRun` | `class Vm` of `vm_run.js`, on the queue of `vm_machine.js` | `VmRun*.cfg` |
| `RunPromise` | what `Vm` promises the page about runs | as `KeepsItsPromise` in `VmRunSafety.cfg` |
| `VmRun_proofs` | its inductive invariant and safety properties, and the refinement of `RunPromise` | `tlapm` |
| `CreditFlow` | flow control, both ends and the snapshot | `CreditFlow.cfg` |
| `ReplChannel` | the memory the page shares with the REPL's worker: `stdin_channel.js`, `file_channel.js` | `ReplChannel.cfg` |
| `Terminal` | what standard input promises | as `IsATerminal` in `ReplChannel.cfg` |
| `Channels_proofs` | the inductive invariants and safety properties of `CreditFlow`, `ReplChannel` and `Frames`, and the refinement of `Terminal` | `tlapm` |
| `FolderSync` | the folder both sides of that channel edit | `FolderSync.cfg` |
| `FolderSync_proofs` | its inductive invariant and `FoldersAgree` | `tlapm` |
| `WasiFiles` | the file system of a Python program | `WasiFiles.cfg` |
| `WasiFiles_proofs` | its inductive invariant and safety properties | `tlapm` |
| `PieceReader` | `readInPieces()` of `vm_download.js` | `PieceReader.cfg` |
| `BundleDownload` | who waits for a bundle's download, its parts, the locks | `BundleDownload.cfg` |
| `Download_proofs` | the inductive invariants and safety properties of `PieceReader` and `BundleDownload` | `tlapm` |
| `RootfsReads` | `VmHost` of `vm_machine.js` with `Watchdog` | `RootfsReads.cfg` |
| `Frames` | frames and messages on the control line | `Frames.cfg` |
| `ImageRelease` | the tools of `vm/tools` that change an image | `ImageRelease.cfg` |
| `Image_proofs` | the inductive invariants and safety properties of `RootfsReads` and `ImageRelease` | `tlapm` |
| `Sums` | nothing of the code: what is true of sums over finite sets | `tlapm` |
| `FoldFacts` | nothing of the code: what is true of a fold over a sequence | `tlapm` |

### 2.1 VmRun

One variable, `vm`, a record whose fields are the private fields of `Vm` and what
its methods change in the machine; the module's head lists them. The code is
single threaded, so a method up to its first `await` is an operator from a `Vm`
to a `Vm` with the source's name (`Park`, `StopRun`, `Fail`, `End`, ...) and
composes with the others as the calls do. An action is one task of the event
loop: a call of the page, a frame, a timer, or the continuation of an `await`.

- *The awaits.* `vm_machine.js` serialises its operations; `jobs` is that queue,
  and one action per kind of operation completes its head together with the code
  that awaits it (`ParkRestoreJob` is the restore and the rest of `#park()`).
  `park` and `load` say which `await` of `#park()` and `#load()` is pending.
- *The guest.* `line` holds the frames the agent has not answered. `AnswerNext`
  answers the first of them, as `agent.rs` does, or never. A program may end, the
  agent may die with what it had read (`AgentRestarts`), a frame may not decode.
- *Time.* A deadline may expire whenever it is armed, the CPU runs and the page
  is visible. Any order of a deadline and an answer is therefore possible.
- *Faults.* The constant `Faults` selects what may happen besides. Three kinds,
  `lateStart`, `lateFetch` and `lateFail`, stand for events that fall inside the
  short window of an await; they are the ones under which the code breaks what
  its documentation says (section 5).

Abstracted: contents of programs, output, hints, windows, logs and progress; the
fields of `ended` other than its reason; `#stats`. Ids: a run is numbered in the
order of `run()`; `NextId` takes any id no open conversation uses, since the code
compares ids only for equality. The page is hidden and shown in any state, with anything under way; `Ids`
bounds only how many times it is shown before the guest has answered the HELLO of the last time
(`ClockHellos`), so that an id is left for a run and for a PING. `strikes` and the counters of what was observed
stop at 2, the largest value anything compares them with.

`Table` is README 9.2's, row by row. The code leaves it in two places, the second deadline of a start
(`SecondDeadline`, section 5) and a frame of another version, which README 10 has fail a VM in any state: so
`KeepsToTheTable` does not hold, and `LeavesTheTableTwice` says that it is by these two only.

### 2.2 RunPromise

The abstract specification: runs are accepted, superseded at once, started at
most once and ended once; a failed VM refuses. `VmRun!KeepsItsPromise` is that
specification with `live` the one run that has not ended. `RunPromise` does not
allow two open runs, nor a second `started`.

### 2.3 CreditFlow

Positions are offsets into the bytes sent since the last restore, so the queue of
held frames is a set of offsets and a CREDIT is the offset up to which it
reports. `Send`, `Grant` and `RestoreOf` are `CreditedSender`'s `send`, `grant` and
`reset`, each with the `#drain()` it calls; `OnSerial` and `OnPrepared` are
`Agent::on_serial` and `on_prepared` with their `report_credit` and
`flush_credit`. `Save` is the build's `save_state` after PARKED, and `Restore` a
park in the page. `AgentRestarts` is init respawning a dead agent, which flushes
the tty (`serial.rs`) and forgets the count: `lost` grows by all the host had
written and not been granted.

### 2.4 ReplChannel and Terminal

Page and worker run at once, so an action is one `Atomics` operation with the
steps around it that touch only what the other side does not write; the plain
copies into and out of the ring, and into and out of the mailbox, are actions of
their own. `page` and `worker` say which comes next: `WriteBytes`, `CopyIn`,
`Publish`, `Signal`, `Notify` are `writeBytes()`; `SendFiles`, `Fill`, `Post` and the
same signal are `sendFiles()`; `StartRead` to `Return` is `BlockingStdin.read()` with
its loop, where `Idle`, `TakeMail` and `ClearMail` are the part of `idle` that uses
the mailbox. A byte carries its place in the input and whether it is an end of
input; a batch is its number. `Terminal` is the abstract line: it is refined with
`line` the unread slots of the ring. Left out: `IDX_WAITING`, which only
`isWaiting()` reads and whose answer "can go stale the instant it is read", and the
wrap of the signal at 2^32, which would need as many signals inside one wait.

### 2.5 FolderSync

`page` is the Dart side: its folder, what it has said and not sent (`queued`), and
what the worker has not taken yet (`inFlight`). `w` is the worker: its files and the
order they are listed in, what the page last heard (`reported`), what was `refused`.
`Put`, `Take` and `Applied` are `takePageFiles()`, `Report` is `reportFiles()`, `Idle` the
`idle` callback; `Say`, `SendFiles`, `OnFiles` and `OnTaken` are the page's. `a` may be a file
or the directory of `a/b`, so either side can put one in the way of the other. Any
put may be too big for the quota. `mail` is the mailbox of `ReplChannel`, whose grain
of atomics is not repeated here. A content stands for its version: `wasi.js` tells two
by inode and version, which never come back.

### 2.6 WasiFiles

Each action is a system call (or `writeFile()` and `removeFile()`) that does something;
a refusal changes nothing and is no step, apart from refusals that come after a
change, such as directories that were made on the way. `Resolve` is `resolve()`, `Dropped` is `drop()`,
`Added` puts a new node in an entry, `Resized` is `resize()`; a buffer may be longer than what is live in it and keeps the old
bytes there. `says` is not the program's: it follows, per call, what POSIX says the file
holds, and `HoldsWhatItSays` compares. What `sink` makes of writes is in `Writable`, and what
`fd_filestat_set_size()` makes of it, which does not ask, in `FdSetSize`. `FdPwrite` is one of the buffers of a call, which are
written one by one and stop at the first that does not fit. Times, listings, the offset of a descriptor that only
reads, and the copies in and out of wasm memory are left out.

### 2.7 PieceReader

One read of one file. Each of the workers has a request that is asked, streaming,
waiting for a retry, or off; a byte is its offset, and `bad` are those that came
wrong. A server may answer 206, 200, a wrong range or length, 404 or 503, break or
stall; the cache may be full, or full later, and may hold pieces of an earlier
visit, also bad, torn or overlapping ones (`KeptBefore`). `load` counts the visits, so that what
one left is what the next starts from.

### 2.8 BundleDownload

A call is at the manifest, at the lock, joined, loaded or ended; a download is at
the lock, at the room it checks, at its three parts, at the forgetting of other images,
or done. Each part's awaits are actions, so a caller may leave and another join between any
two. Locks are the page's view of Web Locks: shared for who uses an image, exclusive
and only if free for who deletes it; `other` is a tab with another image doing the
same. Of the state's part only its outcome matters, which is what `PieceReader` says. `Hears` says which awaits
listen to the deadline and to the stop: the requests do, a lookup in the Cache API, a hash and `keepLib()` do not. Left out
is what a part still keeps after the download it belonged to has failed and let go of the lock: a checked copy, or a
piece that had arrived.

### 2.9 RootfsReads

`host` has the machine's queue with one operation at its head, the epoch that a
restore increments, and the guest's clock as three values: v86's offset, whether
the counter is right, and whether a right one is frozen. `set_tsc` is v86's, as the
comment at `vm_machine.js:597` describes it. `loads` is `#loads`: a download
per file with its readers per epoch, so `Answered` can tell those of the guest that is gone.
`Sample` is the watchdog's timer, whose step is clipped to one sample however late it
is. `spent` and `silent` count, beside the code's own fields, what the properties speak of.

### 2.10 Frames

The bytes of a small alphabet, with `Block` for 255: COBS, a checksum, the decoder
with its limit, and `decodeMessage()` with its errors. `due` is computed from what was sent
and where the delimiters were, `heard` by the decoder from reads of any size. A cut frame
and noise may come at any time.

### 2.11 ImageRelease

`proc` is the running tool and where it is; `Stop` may end it anywhere, with a file half
written (`TornWrite`). `line` is the build's control line with the agent: a request, its
answer or an event out of turn, a timeout (`RequestFails`), the debug image's root shell (`Shell`).
`Verified` is `verifyBundle()`. `Package` reads what the directory holds, `Upload` and `CommitPin`
are what a developer does with the result, in any order; `Fetch` to `CopyOver` are
fetch-image with its rename that may not cross a file system. `CheckPin` is the check that the
build runs. An archive stands for its own sha256. `spoilt` says that somebody damaged the directory, or that
a tool stopped while it changed it, which no tool can promise to survive.

## 3. Runs

`Spec` is used for safety, `FairSpec` for liveness.

| Run | Bounds | Shows |
| --- | --- | --- |
| `VmRunSafety` | 2 runs, 4 ids, all faults that are in time, the page hidden and shown in any state | `EveryRunIsKept`, `StartsAndStops`, `MachineIsRight`, `LeavesTheTableTwice`; `KeepsItsPromise`, the refinement of `RunPromise` |
| `VmRunLive` | 2 runs, failed restores, dying agents, late answers | `StopSettles`, `RunIsDecidedOrRetried` |
| `VmRunLostRun` | 2 runs, late answers | that `EveryRunIsKept` is violated (section 5) |
| `CreditFlow` | window 6, step 3, frames to 4, reads to 3, 12 bytes | `Conserved`, `LineHasRoom`, `NeverStalls`, `HeldFramesLeave` |
| `ReplChannel` | 3 slots, texts and reads of 1 or 2 bytes, 5 bytes, 2 batches | `NoLostWakeUp`, `BatchesAreTaken`, `NothingOverwritten`, `IsATerminal`, `ReadsReturn`, `FilesArrive` |
| `FolderSync` | 4 changes, 3 paths, batches of 1, 4 messages, 2 interpreters | `FoldersAgree`, `FoldersSettle` |
| `WasiFiles` | 1 name beside the fixed ones, two levels deep, 2 nodes, 2 descriptors, quota 1 | `BytesAreCounted`, `FilesAreSound` |
| `PieceReader` | 5 bytes in pieces of 3, 2 connections, 1 retry, 1 byte that may come bad, 2 visits | `BytesAreRight`, `WhatArrivedStays`, `ReadsEnd` |
| `BundleDownload` | 1 load, 1 prefetch, 2 downloads, 1 retry, 1 other tab | `CallersAreHeard`, `FilesAreSafe`, `InUseFilesStay`, `OnlyLibIsAwaited` |
| `RootfsReads` | 2 files, one too large to be kept beside the other; 2 restores, 2 reads per guest, 1 retry | `FilesAreRight`, `GuestClockIsRight`, `HungGuestExpires`, `ExpiresForCause`, `ReadsSettle` |
| `Frames` | payloads to 2 of 4 byte values, 2 frames or noises | `MessagesArrive` |
| `ImageRelease` | 2 images, 1 edit, 2 stops or damages | `EntryIsGood`, `PinsAreGood`, `FetchIsRight` |

`StartsAndStops` and `MachineIsRight` are conjunctions. The first says that a newer
run takes over at once (`SupersedesNeverWaits`), that a start has something that moves it on
(`StartingIsLive`), that no STOP timer outlives its run (`StopTimerIsTheRuns`), and that
`ready` is true (`Readiness`). The second says that a failed machine's CPU stops, that otherwise it follows the page, that a
parked machine is as restored, and that a restore is given one RUN. Likewise
`BytesAreRight`, `CallersAreHeard`, `FilesAreSafe`, `FilesAreRight`, `FilesAreSound`, `FoldersAgree` and `FetchIsRight` are
conjunctions of the parts defined above them.

Why the bounds are enough. A `Vm` holds two runs at most (`#run` and `#queued`): in
`VmRunSafety` the second takes over from the first wherever that is, starting, running, stopping, queued during the load, or
queued and in hand at once for its second go; that any number of runs keep to the same is proved (section 4). `VmRunLive` has late answers too, under which a run
can be lost (section 5): `stop()` resolves even then, and a run that is not lost is decided or retried. Two ids cover a load's or run's HELLO
beside a PING; in `VmRunSafety` there are four, so that two HELLOs for the clock may be open
beside them, which is a page hidden and shown twice while the first is not answered; it need not
be hidden while nothing else is under way. `MaxJobs` bounds the
machine's queue where the page or a frame adds to it: a restore or resume with
two more waiting. `CreditFlow` keeps the order of the real sizes (a frame fits in
what a window leaves beside a step) at the limit `MaxFrame = Window - Step + 1`,
and 12 bytes are two windows, so the host waits for credit more than once.
In `ReplChannel` three slots hold two bytes, so the ring is full, wraps in the middle
of a text, and drops a tail; five bytes go around it; the second batch needs a
mailbox that was emptied. In `FolderSync` a batch of one makes every second edit wait, four
changes let both sides edit a path twice, and three paths stay under the cap on reports (section 5 says what
happens above it). In `WasiFiles` two nodes let a file be replaced, or renamed over, while the old one is open: one name is enough for that, since
`/lib` may be moved and its name taken. Two descriptors append and write behind each other, and the first close keeps what the second still reads; a quota of one
has a byte in the tree or refused. Its constraint, `OpensItsOwn`, keeps descriptors to /dev/null and what was made: the library and the fixed directories cannot be
written, and an open one is only counted. The proofs are without it. `PieceReader` needs a last piece that
is shorter, two connections for a 200 to come while the other streams, and two visits for what is kept to be met again.
`BundleDownload` has one caller of each kind and two downloads, so one may join the other's, leave, and come back to find it stopping.
`RootfsReads` has three guests whose reads may share a download. `Frames` has full blocks (two bytes long here), the empty
payload, a payload of the greatest length, and noise longer than a frame. `ImageRelease` has an image to replace, to lose and to mix up with.
Deadlock is not checked: the page may stop calling, and the guest, the server or the program answering.

Fairness. The event loop runs every task that is due: continuations, timers and
deadlines while they count are weakly fair. Nothing is assumed of the page or of
the guest (`AnswerNext` is not fair): `stop()` has to resolve without it. In
`CreditFlow` the agent's poll loop and the host's taking of frames are weakly
fair, and a machine whose agent died is restored, which is what its READY or a
deadline makes `Vm` do. In `ReplChannel` both threads run on through the call they
are in; the page need not type and the program need not read. In `FolderSync` messages and
wake-ups arrive; the student and the program owe nothing. In `PieceReader` a request is answered or given up by the browser
and the stall timer ends a body that stops. In `BundleDownload` the server owes a download nothing: the deadline is there for v86.wasm and the state, and for
`libv86.mjs` nothing is, which is why `OnlyLibIsAwaited` excepts a call that waits for it alone. A manifest is answered or refused, and a lock
that is free again and again is granted in the end (strong fairness: requests queue in order). In `RootfsReads` a download that is under way lands or fails.

## 4. Proofs

`Channels_proofs` proves of `CreditFlow` that `Conserved`, `LineHasRoom` and `NeverStalls` hold for every
window, step, read size and frame length with `MaxFrame <= Window - Step + 1`
(`CreditAssumption`). The inductive invariant `CreditInv` adds to them that

- offsets are ordered: `reported <= taken <= written`, credits lie between what is
  granted and reported, held frames beyond what is written (`InOrder`, `Held`);
- the agent keeps less than a step (`KeepsLittle`);
- neighbouring held frames are at most `MaxFrame` apart and the first does not fit
  into the credit (`Spaced`, `Held`): with `Conserved` and `KeepsLittle`, a held frame
  with nothing under way would be longer than `Window - Step + 1`;
- the saved agent owes nothing (`OwesNothing`), which is why a restore may grant a
  whole window.

`DrainKeeps` states what `#drain()` does with any frames and credit; one lemma
per action carries `CreditInv` over it. The bound on frames is needed: with longer ones
host and agent could wait on each other. The real sizes satisfy it (16384 - 4096
+ 1 against at most 4096 and some 30 bytes).

`VmRun_proofs` proves `TypeOK` for every number of runs, set of ids and set of
faults: one lemma per operator of `VmRun` that it keeps `VmType`, one per group of
actions. The other properties are proved under `InTime`: `Faults` has none of `lateStart`,
`lateFetch` and `lateFail`, because with them the code breaks these properties (section 5,
and the run `VmRunLostRun`); all other faults may be there. None of the properties is inductive. `Inv` is `Whole(vm)`,
whose parts are `Kept` (the one run that is open is the newest, and it is in hand or queued), `Moving` (a
start has a queued write, a HELLO or STARTED under a deadline, or a fetch that moves it on) and `Safe`, which ties
each timer, operation of the queue, conversation, frame and the program to the state it may be pending in. Each
method of `Vm` gets a lemma that says what of `Inv` it keeps, and one that it `Goes`: what it does to
the state is a row of the table or a failure (`Rows`), what it does to the runs is an action of `RunPromise` or nothing
(`PromiseIsKept`, the step simulation; `LiveIs` says that `live` is the one open run). That the table is left in two places
only (`TableIsLeft`) needs more than `Inv`: a run that has started has no strike against it (`Unstruck`), so a PING's deadline
is the first and parks. `Calm` is what every method but `Fail` and `Expired` is, one lemma for each kind of task.

`Channels_proofs` proves of `ReplChannel` that `NoLostWakeUp`, `BatchesAreTaken` and `NothingOverwritten` hold
for every capacity and every length of texts and reads. Its invariant says in
`Woken` that once the reader has found the ring or the mailbox empty, whatever is
put there is followed by a signal it has not loaded, and that a sleeper with such
a signal is about to be notified; in `RingRoom` that the indices each side loaded
are still good when it uses them, for the other side only makes room or adds
bytes; in `MailOrder` where a batch may be. `FilledIs`, `Grows` and `Shrinks` are the
arithmetic of indices that wrap. `RingIsATerminal` is the refinement of `Terminal`: `Publish` is its `Accept`,
`Return` its `ReadText` or `ReadEnd`, every other step leaves the line alone. It needs to know what is in the ring while
it is copied: the bytes are numbered in order around the wrap (`Numbered`), what the page has copied and
not published is what it will publish (`Written`), and what the reader has copied is the head of the line, whatever the
page adds meanwhile (`Copied`).

And it proves `MessagesArrive` of `Frames`, for any size of block and payload and any history. `CobsIsUndone` is about the
codec alone: for all bytes the decoding of an encoding is what was encoded, no zero is in it, and it is no longer than
`maxEncodedLength()`, so a longest message still fits into the decoder's buffer. `FrameIsUndone` and `MessageIsUndone` carry that through checksum,
version, type and body. The line has a listener beside it that takes one byte at a time and has room for any number (`Listen`), and
`HearInv` says that, were it to go on from what the decoder `Holds` over the bytes still on the line, it would end with what is due;
`SplitHowever` says that the decoder, with its limit and its parts of any size, does as it does. Of the noise the proof
uses only that it is bytes, and of the checksum that it is a byte; where it is right by chance, what is due is what the damaged bytes say.

`FolderSync_proofs` proves `FoldersAgree` for any number of changes, messages on their way, interpreters and
batches of any length, under `AllReported`: no more than `MaxReported` paths, without which it is false (section 5). The property speaks of a
moment when both sides are quiet; the invariant `Agree` has to say of every moment, path by path, what will make it true (`Heard`).
Unless the page's word on the path is still under way, or the worker has refused it and not said so yet, the last report on its
way that the page will not leave out tells what the worker believes it holds (`HeardOf`, `Tells`), and `Reported` says that this
is what it holds. `Delivered` says where a batch may be, `Shown` what of it the page shows already, `Starts` and `Waits` what goes
with `start` and with parking. Each action is one or two half-steps (`SendAgrees`, `ApplyAgrees`, `ReportAgrees`, `StartAgrees`, ...)
that keep it. A batch is a fold over its operations: `AppliedSteps` says there are states between them, from
which `AppliedFacts` follows by the least operation at which it would be wrong.

`Download_proofs` proves `BytesAreRight` and `WhatArrivedStays` of `PieceReader` for files and pieces of any length, any number of
connections and retries, and any bytes that come bad. In the invariant `ReadInv`, `Base` ties what each request has brought to what it was asked
for and to the two counters, `Apart` puts each byte in one place and `Sound` says of the pieces kept that they are of what is held, and wrong only where
that is; both hold only of a read in ranges. Methods call one another in the middle of a step, when a worker has
let go of one request and not taken up the next. `Base` and `Apart` therefore name the workers they speak of, and `rest`, what the one left out
has still to fetch (`Between`); `AgainSteps`, `TakeNextSteps` and `FillStarts` take such a read to one that `ReadInv` holds of, and `FailEnds`
any read to one that is over. `MissingIs` says that gaps and their segments cover what is missing once, `NthIs` that a sorted queue has as many
places as segments, so that no two workers start with the same.

It proves of `BundleDownload` that `CallersAreHeard`, `FilesAreSafe` and `InUseFilesStay` hold for any calls, downloads,
retries and faults. `Inv` is over the record of the page: `Joined` (a call is on a download's list exactly while it
waits for that download), `Running` (how joiners, `linger`, `stopping` and the module's map of downloads belong
together), `Holding` (who has the image's lock, and why) and `Checked` (`v86.wasm` is what the manifest names whenever it is used).
`HoldersAssumption` says only that a call and a download are not the same holder of a lock.

`Image_proofs` proves `GuestClockIsRight`, `HungGuestExpires`, `ExpiresForCause` and the whole of `FilesAreRight`
for any files, restores, reads, retries and deadlines. `Clock` follows the three values of the clock through each
operation of the queue; `Holding` says that the watchdog's holds are what the machine does; `Counted` that each
sample of an armed deadline took from what remains or from the allowance for fetches, which bounds the silence. `OnlyPast` keeps
the reads of guests that are gone apart. Two counters the code keeps by hand are sums: the fetches the watchdog was
told of (`Summed`) and the bytes kept (`AddedUp`), and that neither goes wrong takes induction over a set.

`Sums` has what that takes. The library's induction theorems need an operator as a parameter, which no prover here can
be given; `LeastSet` and `LeastNumber` take their place (a family of subsets of a finite set has a least one), and
from them come the sum of a disjoint union, of a set with an element changed, and that a sum of naturals bounds its parts. `FoldFacts` has an operator as a CONSTANT and says that a fold is
a function with one step per element, so that the least index at which something is wrong stands in for an induction; a
module takes it by `INSTANCE FoldFacts WITH Op <- EncodeByte`, once for each operator it folds.

`Image_proofs` also proves of `ImageRelease` that `EntryIsGood`, `PinsAreGood` and `FetchIsRight` hold for any images, edits, stops and damage.
What a tool may take for granted depends on the steps it has done, so `ReleaseInv` says for each tool and each step what is
written and what it has in hand (`Building`, `Noting`, `Packing`, `Fetching`), that a new image goes into a bundle
nothing has touched (`Directory`), and what pins (`Pinned`) and reports (`Telling`) then say. A stop leaves the
first half of a write behind, and the invariant holds of that too.

`WasiFiles_proofs` proves `BytesAreCounted` and `FilesAreSound` for any quota and any finite numbers of names, nodes
and descriptors, with paths at most two names long, as in the model. `Inv` says of the tree that a node that is not there is blank and
only directories have entries (`Shaped`), that each node has one name unless it was taken off (`Linked`), and that no
directories name only one another (`Rooted`), which reachability from the root comes to without a path to induct on; `Charged` is
a sum over all nodes, `Open` counts descriptors, `Holds` ties each buffer to what POSIX says. The operations are made of five
changes of a tree (`Made`, `Changed`, `Unnamed`, `Gone`, `Renamed`), each shown to keep it sound once, also where
the tree is one between two steps of an operation, as in `path_rename()` and `writeFile()`. `NotBelow` is the reason a directory never
moves into itself, `ResizedIs` and `WrittenIs` the reason a hole reads as zeroes whatever the buffer held.
`InodesAssumption` and `BoundsAssumption` say that the model's nodes are not among the fixed ones and that there are finitely many.

Left to TLC: the liveness properties (`HeldFramesLeave`, `StopSettles`, `RunIsDecidedOrRetried`, `ReadsReturn`,
`FilesArrive`, `FoldersSettle`, `ReadsEnd`, `OnlyLibIsAwaited`, `ReadsSettle`), since fairness and `ENABLED` are out of
TLAPS's reach here. Every safety property that a passing run checks is stated by a theorem. No module that is proved about declares a
RECURSIVE operator.

## 5. Where code and documentation differ

One run must find its property violated; `PROJECT.json` quotes the lines.

- `VmRunLostRun`, `EveryRunIsKept`: a run is never reported as ended. An answer that arrives
  while the park of a retried start waits for its paint sets `running` (`vm_run.js:780`); a stop
  then sets a timer that outlives the park and parks the next run.

Three properties state what the documentation says and are no part of a run, since the code refutes them at once. TLC does so when
a configuration has them in place of its own:

- `KeepsToTheTable` of `VmRun`, in `VmRunLostRun.cfg` with one run and no faults: at the second HELLO or RUN deadline of a start
  the VM fails at once (`vm_run.js:545`), where `vm/protocol/README.md:746` has "parking, then failed(`unresponsive`)".
- `CallersAreTold` of `BundleDownload`, under `FairSpec` with one prefetch and the fault `late`: a download awaits `keepLib()` with its
  other parts (`vm_download.js:327`), and that hears of no stop and no deadline, so a `libv86.mjs` that is never answered keeps the
  page waiting for ever, where `vm_download.js:50` has "past this the page is told, and offers its Retry", and
  `docs/vm-build.md:980` "Either way the page is told `failed`". The import of the same file (`vm_bundle.js:73`) listens to nothing
  either. `OnlyLibIsAwaited` says that this file is the only one that can keep a page.
- `NullStaysEmpty` of `WasiFiles`, in `WasiFiles.cfg`: `fd_filestat_set_size()` does not ask whether it has /dev/null (`wasi.js:669`), so
  `os.ftruncate()` makes that grow: it reads as zeroes from then on and is charged to the quota, where `wasi.js:118` has "writable,
  but whatever is written is gone".

The model of `VmRunLostRun` shows five more, each when the faults of a configuration like `VmRunLostRun.cfg` are
replaced by the ones named and the property by the one named:

- `lateFetch` and `fetch`, `StartsAndStops`: the 50 ms timer of a failed read (`vm_run.js:874`) ends a run that is about to
  get its second go; the VM then stays `starting` with no deadline.
- `lateFail` and `version`, `LeavesTheTableTwice`: a park brings a VM that failed during it back to `parked` (`vm_run.js:610`), where
  `vm/protocol/README.md:723` has "after the machine was ready, only a new host leaves this state".
- `lateFail`, `version` and `fetch`, `StartsAndStops`: `ready` after `failed`, when a read fails during the load's
  last pause (`vm_run.js:369`).
- the same, `MachineIsRight`: the CPU of a VM that failed during the load's restore runs (`vm_run.js:361`).
- `restore`, `RunIsDecided` under `FairSpec`: a guest that answers HELLO and never RUN is retried for ever, since READY
  clears the strikes (`vm_run.js:834`), where `vm/protocol/README.md:746` ends the run at the second deadline.

Met while modelling, and read off the code rather than run. The models have the code's
behaviour, with an instance that stays clear of it or a property that does not speak of it:

- `python_repl_worker.js:101` reports files beyond 200 as `removed` though they exist; `python_repl.dart:51` says
  "the paths it removed". `MaxReported` is the cap, and `FoldersAgree` fails when the paths exceed it.
- `vm_download.js:778` arms the stall timer when an answer's body starts, so a request that is never answered has
  no timer but the bundle's deadline; `docs/vm-build.md:963` says "a request that receives nothing for 15 s is ended
  and tried again".
- `vm_bundle.js:74` leaves the download when `libv86.mjs` does not import, so the load rejects as `aborted`, which
  `vm_download.js:150` keeps for its signal.
- Renaming `/lib` moves the read-only standard library (`wasi.js:905` protects only the node named);
  `fd_pwrite` of zero bytes past the end grows the file (`wasi.js:590`); `writeFile` leaves the directories it made
  when it then refuses, where `wasi.js:960` says "nothing changed".
- Two `createVmHost()` at once, with a previous host, leave two emulators (`vm_machine.js:63`).
- Two tabs can exceed the budget of `RootfsCache` (`vm_cache.js:149`), and its `get` throws when the entry goes
  while it awaits it (`vm_cache.js:201` compares `undefined` with `undefined`), where line 152 says that every
  method swallows failures; its one caller catches it.
- `build-state.mjs:192` hashes the sources at the end of a build, not when they were staged, so an edit in
  between names sources that `source-hash.mjs:1` calls "what the image was built from".
- A torn top manifest makes `fetch-image` fail until `--force` (`fetch-image.mjs:46`), and a `libv86.mjs` cut short passes
  `verifyBundle` (`image-archive.mjs:155`), which only looks whether it is there.

## 6. Not modelled

- `RootfsCache` (`vm_cache.js` from line 143): planned; the hazards name its awaits.
- `vm_screen.js`, inflating and hashing, the Docker build, the tar format, the licence texts, the image checks and the
  benchmarks: geometry, pure functions, or drivers that run the system and keep none of its state.
- `python_worker.js`: one request and one answer per worker, which is terminated to stop it.
- The hex images, lesson parsing and the Python check library are pure functions over text and bytes, with fixtures and tests; the
  views, themes, routing and preferences keep no state that two parties change.
- X11, WebUSB and v86 are outside the repository and appear only as environments.
- The Rust halves of the codecs are held to the page's by shared fixtures; the Rust agent appears as the
  environment of `VmRun`, and with its own counting in `CreditFlow`.

## 7. Plan

In order of importance; each with its run, and proofs where noted.

1. `RootfsCache`: eviction against `get()` and against another tab.
2. `Agent`: `agent.rs` with the supervisor, the outbox and the output batches, as a
   refinement of the guest `VmRun` assumes.
3. `VmSession`: the screens' view of runs over `RunPromise`.
4. `Drafts`, `Microbit`.
