------------------------------ MODULE ReplChannel ------------------------------
(***************************************************************************)
(* The memory the page shares with the worker that runs the Python console *)
(* (web/python/stdin_channel.js and file_channel.js): a ring that carries  *)
(* standard input, and a mailbox that carries files.  The worker is parked *)
(* inside CPython's read and takes no message, so this is all it can hear. *)
(*                                                                         *)
(* Both sides run at once.  An action is one Atomics operation, together   *)
(* with the steps around it that touch only memory the other side does not *)
(* write; the copies into and out of the plain bytes have actions of their *)
(* own.  `write`, `read`, `signal` and `full` are the header slots IDX_WRITE,   *)
(* IDX_READ, IDX_SIGNAL and IDX_FULL.  Bytes carry their place in the      *)
(* input, so a lost, doubled or overtaken one shows; a batch of files is   *)
(* its number.                                                             *)
(***************************************************************************)
EXTENDS Integers, Sequences, FiniteSets

CONSTANTS
  Capacity,     \* slots of the ring
  MaxText,      \* bound: the longest text of one write
  MaxRead,      \* bound: the most one fd_read asks for
  MaxBytes,     \* bound: how many bytes the ring takes in all
  MaxBatches    \* bound: the batches of files the page sends

ASSUME SizesAssumption ==
  /\ Capacity \in Nat /\ Capacity >= 2
  /\ MaxText \in Nat /\ MaxText >= 1
  /\ MaxRead \in Nat /\ MaxRead >= 1
  /\ MaxBytes \in Nat
  /\ MaxBatches \in Nat

VARIABLES
  \* shared memory
  write, read, signal,
  data,         \* the ring's bytes
  full,         \* the mailbox's flag
  mail,         \* the batch in the mailbox
  \* the page
  page,         \* what it does next
  batch,        \* the bytes it is about to add to the ring
  accepted,     \* how many bytes the ring has taken
  sent,         \* how many batches it has sent
  \* the worker
  worker,       \* what it does next
  asked,        \* how much the fd_read asks for
  signalled,    \* the signal loaded before the ring was looked at
  seen,         \* the write index it loaded
  out,          \* the bytes copied out
  answer,       \* what its last read returned
  took          \* the last batch it took

ring == << write, read, data >>
mailbox == << full, mail >>
pageVars == << page, batch, accepted, sent >>
workerVars == << worker, asked, signalled, seen, out, answer, took >>
vars == << ring, signal, mailbox, pageVars, workerVars >>

Slots == 0 .. Capacity - 1
Byte == [at : 0 .. MaxBytes, eof : BOOLEAN]
Empty == [at |-> 0, eof |-> FALSE]    \* a slot as it was allocated

PageSteps == {"free", "copy", "publish", "fill", "post", "signal", "notify"}
ReadSteps == {"load", "idle", "takeMail", "clearMail", "look", "wait", "asleep",
              "copy", "return"}

Filled(w, r) == (w - r + Capacity) % Capacity

TypeOK ==
  /\ write \in Slots /\ read \in Slots
  /\ signal \in Nat
  /\ data \in [Slots -> Byte]
  /\ full \in BOOLEAN
  /\ mail \in 0 .. MaxBatches
  /\ page \in PageSteps
  /\ batch \in Seq(Byte)
  /\ accepted \in 0 .. MaxBytes
  /\ sent \in 0 .. MaxBatches
  /\ worker \in {"running"} \cup ReadSteps
  /\ asked \in 0 .. MaxRead
  /\ signalled \in Nat
  /\ seen \in Slots
  /\ out \in Seq(Byte) /\ answer \in Seq(Byte)
  /\ took \in 0 .. MaxBatches

Init ==
  /\ write = 0 /\ read = 0 /\ signal = 0
  /\ data = [slot \in Slots |-> Empty]
  /\ full = FALSE /\ mail = 0
  /\ page = "free" /\ batch = << >> /\ accepted = 0 /\ sent = 0
  /\ worker = "running" /\ asked = 0 /\ signalled = 0 /\ seen = 0
  /\ out = << >> /\ answer = << >> /\ took = 0

-----------------------------------------------------------------------------
(* Plausible mistakes: each is a form of the action named with it, which   *)
(* some property has to notice.                                            *)

(* Free: a ring filled to its last slot.                                   *)
FreeToTheLast == Capacity - Filled(write, read)

(* Publish: the index is not wrapped.                                      *)
PublishUnwrapped ==
  /\ page = "publish"
  /\ write' = write + Len(batch)
  /\ accepted' = accepted + Len(batch)
  /\ batch' = << >>
  /\ page' = "signal"
  /\ UNCHANGED << read, data, signal, mailbox, sent, workerVars >>

(* SendFiles: the flag is not looked at.                                   *)
SendFilesAnyway ==
  /\ page = "free"
  /\ sent < MaxBatches
  /\ page' = "fill"
  /\ UNCHANGED << ring, signal, mailbox, batch, accepted, sent, workerVars >>

(* Signal: the counter alone, without Atomics.notify.                      *)
SignalOnly ==
  /\ page = "signal"
  /\ signal' = signal + 1
  /\ page' = "free"
  /\ UNCHANGED << ring, mailbox, batch, accepted, sent, workerVars >>

(* Look: the signal is loaded once the ring was looked at.                 *)
LookThenLoad ==
  /\ worker = "look"
  /\ seen' = write
  /\ signalled' = signal
  /\ worker' = IF write = read THEN "wait" ELSE "copy"
  /\ UNCHANGED << ring, signal, mailbox, pageVars, asked, out, answer, took >>

(* Wait: on the write index, which a wake without bytes leaves alone.      *)
WaitOnWrite ==
  /\ worker = "wait"
  /\ worker' = IF write = seen THEN "asleep" ELSE "load"
  /\ UNCHANGED << ring, signal, mailbox, pageVars, asked, signalled, seen, out, answer, took >>

(* CopyOut: an end of input behind some text is run over.                  *)
CopyOutAll ==
  /\ worker = "copy"
  /\ LET available == Filled(seen, read)
         count == IF available < asked THEN available ELSE asked
         At(i) == data[(read + i) % Capacity]
     IN out' = IF At(0).eof THEN << >> ELSE [i \in 1 .. count |-> At(i - 1)]
  /\ worker' = "return"
  /\ UNCHANGED << ring, signal, mailbox, pageVars, asked, signalled, seen, answer, took >>

-----------------------------------------------------------------------------
(* The page.  One slot stays empty, so that equal indices mean an empty    *)
(* ring, and the tail that has no room is dropped.                         *)

Free == Capacity - Filled(write, read) - 1

WriteBytes(length, eof) ==
  /\ page = "free"
  /\ accepted + length <= MaxBytes
  /\ LET count == IF length < Free THEN length ELSE Free
     IN /\ count > 0
        /\ batch' = [i \in 1 .. count |-> [at |-> accepted + i, eof |-> eof]]
  /\ page' = "copy"
  /\ UNCHANGED << ring, signal, mailbox, accepted, sent, workerVars >>

(* write() is never given U+0004; endOfInput() is that byte alone.         *)
Write == \E length \in 1 .. MaxText : WriteBytes(length, FALSE)
EndOfInput == WriteBytes(1, TRUE)

CopyIn ==
  /\ page = "copy"
  /\ data' = [slot \in Slots |->
                LET i == Filled(slot, write) + 1
                IN IF i <= Len(batch) THEN batch[i] ELSE data[slot]]
  /\ page' = "publish"
  /\ UNCHANGED << write, read, signal, mailbox, batch, accepted, sent, workerVars >>

Publish ==
  /\ page = "publish"
  /\ write' = (write + Len(batch)) % Capacity
  /\ accepted' = accepted + Len(batch)
  /\ batch' = << >>
  /\ page' = "signal"
  /\ UNCHANGED << read, data, signal, mailbox, sent, workerVars >>

(* sendFiles() takes nothing while the last batch is in the mailbox.       *)
SendFiles ==
  /\ page = "free"
  /\ sent < MaxBatches
  /\ ~ full
  /\ page' = "fill"
  /\ UNCHANGED << ring, signal, mailbox, batch, accepted, sent, workerVars >>

Fill ==
  /\ page = "fill"
  /\ mail' = sent + 1
  /\ sent' = sent + 1
  /\ page' = "post"
  /\ UNCHANGED << ring, signal, full, batch, accepted, workerVars >>

Post ==
  /\ page = "post"
  /\ full' = TRUE
  /\ page' = "signal"
  /\ UNCHANGED << ring, signal, mail, batch, accepted, sent, workerVars >>

Signal ==
  /\ page = "signal"
  /\ signal' = signal + 1
  /\ page' = "notify"
  /\ UNCHANGED << ring, mailbox, batch, accepted, sent, workerVars >>

(* A reader that sleeps is woken; one that is not there yet is not.        *)
Notify ==
  /\ page = "notify"
  /\ worker' = IF worker = "asleep" THEN "load" ELSE worker
  /\ page' = "free"
  /\ UNCHANGED << ring, signal, mailbox, batch, accepted, sent,
                  asked, signalled, seen, out, answer, took >>

-----------------------------------------------------------------------------
(* The worker: BlockingStdin.read(), its loop and the `idle` it runs, which *)
(* empties the mailbox.                                                    *)

StartRead ==
  /\ worker = "running"
  /\ asked' \in 1 .. MaxRead
  /\ worker' = "load"
  /\ UNCHANGED << ring, signal, mailbox, pageVars, signalled, seen, out, answer, took >>

LoadSignal ==
  /\ worker = "load"
  /\ signalled' = signal
  /\ worker' = "idle"
  /\ UNCHANGED << ring, signal, mailbox, pageVars, asked, seen, out, answer, took >>

Idle ==
  /\ worker = "idle"
  /\ worker' = IF full THEN "takeMail" ELSE "look"
  /\ UNCHANGED << ring, signal, mailbox, pageVars, asked, signalled, seen, out, answer, took >>

(* Copied out first: the page may refill the mailbox once it is empty.     *)
TakeMail ==
  /\ worker = "takeMail"
  /\ took' = mail
  /\ worker' = "clearMail"
  /\ UNCHANGED << ring, signal, mailbox, pageVars, asked, signalled, seen, out, answer >>

ClearMail ==
  /\ worker = "clearMail"
  /\ full' = FALSE
  /\ worker' = "look"
  /\ UNCHANGED << ring, signal, mail, pageVars, asked, signalled, seen, out, answer, took >>

Look ==
  /\ worker = "look"
  /\ seen' = write
  /\ worker' = IF write = read THEN "wait" ELSE "copy"
  /\ UNCHANGED << ring, signal, mailbox, pageVars, asked, signalled, out, answer, took >>

(* Atomics.wait: at once if there was a signal since it was loaded.        *)
Wait ==
  /\ worker = "wait"
  /\ worker' = IF signal = signalled THEN "asleep" ELSE "load"
  /\ UNCHANGED << ring, signal, mailbox, pageVars, asked, signalled, seen, out, answer, took >>

(* The text up to an end of input or to what was asked, whichever is first. *)
CopyOut ==
  /\ worker = "copy"
  /\ LET available == Filled(seen, read)
         limit == IF available < asked THEN available ELSE asked
         At(i) == data[(read + i) % Capacity]
     IN \E count \in 0 .. limit :
          /\ \A i \in 0 .. count - 1 : ~ At(i).eof
          /\ count = limit \/ At(count).eof
          /\ out' = [i \in 1 .. count |-> At(i - 1)]
  /\ worker' = "return"
  /\ UNCHANGED << ring, signal, mailbox, pageVars, asked, signalled, seen, answer, took >>

(* An end of input, which is what an empty copy has found, is used up.     *)
Return ==
  /\ worker = "return"
  /\ read' = (read + (IF out = << >> THEN 1 ELSE Len(out))) % Capacity
  /\ answer' = out
  /\ out' = << >>
  /\ worker' = "running"
  /\ UNCHANGED << write, data, signal, mailbox, pageVars, asked, signalled, seen, took >>

-----------------------------------------------------------------------------
WriteStep == CopyIn \/ Publish
SendStep == Fill \/ Post
SignalStep == Signal \/ Notify
PageStep == WriteStep \/ SendStep \/ SignalStep
ReadStep ==
  \/ LoadSignal \/ Idle \/ TakeMail \/ ClearMail \/ Look \/ Wait \/ CopyOut \/ Return

Next ==
  \/ Write \/ EndOfInput \/ SendFiles
  \/ PageStep
  \/ StartRead
  \/ ReadStep

Spec == Init /\ [][Next]_vars

(* Both threads run on through what they have begun.  The page need not    *)
(* type, nor the program read.                                             *)
FairSpec == Spec /\ WF_vars(PageStep) /\ WF_vars(ReadStep)

-----------------------------------------------------------------------------
Reading == worker \in ReadSteps

(* The bytes of the ring, in the order they will be read.                  *)
Unread == [i \in 1 .. Filled(write, read) |-> data[(read + i - 1) % Capacity]]

(* No wake-up is lost: if the reader sleeps while there is something for   *)
(* it to do, the page has yet to signal or to notify, so it will not sleep *)
(* on.  This is the race that the order of the loads in read() is for.     *)
NoLostWakeUp ==
  worker = "asleep" /\ (write # read \/ full) => page \in {"signal", "notify"}

(* The mailbox holds one batch: the page never writes into one the worker  *)
(* has not copied out, and no batch is skipped or taken twice.             *)
BatchesAreTaken ==
  /\ took \in {sent, sent - 1}
  /\ full /\ worker # "clearMail" => mail = took + 1 /\ mail = sent
  /\ worker = "clearMail" => mail = took

(* The page writes only into slots that hold nothing unread, whatever the  *)
(* reader has done since the page loaded the read index; one slot stays    *)
(* empty, or a full ring would read as an empty one.                       *)
NothingOverwritten ==
  page \in {"copy", "publish"} => Filled(write, read) + Len(batch) < Capacity

(* The ring is a terminal: accepted bytes are read once, in order, and     *)
(* every end of input is the empty answer of exactly one read.             *)
Tty == INSTANCE Terminal WITH Room <- Capacity - 1, line <- Unread
IsATerminal == Tty!Spec

(* A read with something in the ring returns.                              *)
ReadsReturn == (Reading /\ write # read) ~> ~ Reading

(* Files sent to an interpreter in a read are taken, unless the read       *)
(* returns first; then the next read takes them.                           *)
FilesArrive == (full /\ Reading) ~> (~ full \/ ~ Reading)

=============================================================================
