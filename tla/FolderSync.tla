---- MODULE FolderSync ----
(***************************************************************************)
(* One folder in two places: the page's, which the student edits, and the   *)
(* interpreter's, which the program works on (python_repl_worker.js, and    *)
(* python_repl_web.dart with the folder it keeps).                          *)
(*                                                                         *)
(*   page   its folder, what it said and has not sent, what is sent and not *)
(*          taken, and whether `start` was posted                           *)
(*   mail   the batch in the mailbox of file_channel.js                     *)
(*   msgs   what the worker posted, in order                                *)
(*   w      the worker: where it is, the files and the order they are       *)
(*          listed in, what the page last heard, what was refused, whether  *)
(*          anything changed since the last report, and the files to start  *)
(*          with                                                           *)
(*   made   how many changes were made                                      *)
(* A content is the number of its change, and is also the (ino, version) it is   *)
(* recognised by; 0 is no file. "a" may be a directory, which "a/b" is in.  *)
(* How a reader parks, and is woken for a batch, is in ReplChannel.         *)
(***************************************************************************)
EXTENDS Integers, Sequences, FiniteSets, SequencesExt

CONSTANTS
  MaxMade,      \* bounds the changes of either side
  MaxMsgs,      \* bounds the messages on their way
  Batch,        \* the operations that fit into the mailbox
  MaxReported,  \* MAX_REPORTED_FILES
  MaxSessions,  \* bounds the interpreters
  Faults        \* "quota": a file may be too big for the quota

ASSUME BoundsAssumption == {MaxMade, MaxReported} \subseteq Nat /\ {Batch, MaxSessions, MaxMsgs} \subseteq Nat \ {0}

VARIABLES page, mail, msgs, w, made, session
vars == <<page, mail, msgs, w, made, session>>

Flat == {"a", "b"}
Paths == Flat \cup {"a/b"}
NoFiles == [p \in Paths |-> 0]
Contents == 0..MaxMade

Names(ops) == {op[1] : op \in ToSet(ops)}
\* A path is listed once, and queued once.
Without(order, p) == RemoveFirst(order, p)
WithoutOp(ops, p) == RemoveFirstMatch(ops, LAMBDA op : op[1] = p)

---------------------------------------------------------------------------
(* The worker's file system. *)

NewWorker == [pc |-> "loading", files |-> NoFiles, order |-> <<>>, dir |-> FALSE, reported |-> NoFiles,
              refused |-> {}, news |-> FALSE, start |-> NoFiles]

\* files(): the root's first, each directory in the order its names were put there, up to a
\* number of files.
Listing(x) ==
  LET Depth(i) == IF x.order[i] \in Flat THEN 0 ELSE 1
      Before(i, j) == Depth(i) < Depth(j) \/ (Depth(i) = Depth(j) /\ i < j)
      First == {j \in DOMAIN x.order : Cardinality({i \in DOMAIN x.order : Before(i, j)}) < MaxReported}
  IN IF Len(x.order) <= MaxReported THEN ToSet(x.order) ELSE {x.order[j] : j \in First}

CanHold(x, p) == IF p = "a/b" THEN x.files["a"] = 0 ELSE ~(p = "a" /\ x.dir)

Placed(x, p, content) ==
  LET others == Without(x.order, p) IN
  [x EXCEPT !.files = [x.files EXCEPT ![p] = content], !.order = IF content = 0 THEN others ELSE Append(others, p), !.news = TRUE]

\* writeFile(): the way there is made, also when the file is then refused.
Put(x, p, content, fits) ==
  LET way == IF p = "a/b" /\ x.files["a"] = 0 /\ ~x.dir THEN [x EXCEPT !.dir = TRUE, !.news = TRUE] ELSE x IN
  IF CanHold(x, p) /\ fits THEN [Placed(way, p, content) EXCEPT !.reported = [x.reported EXCEPT ![p] = content]]
  ELSE [way EXCEPT !.refused = x.refused \cup {p}]

\* removeFile(): what is gone already is done, and a directory is refused.
Take(x, p) ==
  IF p = "a" /\ x.dir THEN [x EXCEPT !.refused = x.refused \cup {p}]
  ELSE [(IF x.files[p] = 0 THEN x ELSE Placed(x, p, 0)) EXCEPT !.reported = [x.reported EXCEPT ![p] = 0]]

\* The operations of a batch, one by one; those on big files do not fit into the quota.
Apply(x, op, big) == IF op[2] = 0 THEN Take(x, op[1]) ELSE Put(x, op[1], op[2], op[1] \notin big)
Applied(x, ops, big) == FoldLeft(LAMBDA y, op : Apply(y, op, big), x, ops)
Big == IF "quota" \in Faults THEN SUBSET Paths ELSE {{}}

---------------------------------------------------------------------------
(* Reports. *)

\* reportFiles(): what changed or went since the page last heard, and what was refused.
Report(x) ==
  LET now == Listing(x)
      told == {p \in now : x.reported[p] # x.files[p]} \cup {p \in Paths \ now : x.reported[p] # 0} \cup x.refused
      what == [p \in told |-> IF p \in now THEN x.files[p] ELSE 0]
  IN IF ~x.news /\ x.refused = {} THEN [w |-> x, said |-> <<>>]
     ELSE [w |-> [x EXCEPT !.reported = [p \in Paths |-> IF p \in now THEN x.files[p] ELSE 0], !.refused = {}, !.news = FALSE],
           said |-> IF told = {} THEN <<>> ELSE <<[type |-> "files", what |-> what]>>]

Taken == [type |-> "filesTaken", what |-> <<>>]
Exited == [type |-> "exited", what |-> <<>>]

\* idle: first what the page sent, then what the program did.
Idle ==
  \E big \in Big :
    LET r == Report(Applied(w, mail, big)) IN
    /\ Len(msgs) + 1 < MaxMsgs
    /\ w' = [r.w EXCEPT !.pc = "parked"]
    /\ mail' = <<>>
    /\ msgs' = msgs \o (IF mail = <<>> THEN <<>> ELSE <<Taken>>) \o r.said
    /\ UNCHANGED <<page, made, session>>

\* start: the folder as the page had it, then the program.
Start ==
  /\ w.pc = "starting"
  /\ \E order \in SetToSeqs({p \in Paths : w.start[p] # 0}), big \in Big :
       LET x == Applied([w EXCEPT !.start = NoFiles], [i \in DOMAIN order |-> <<order[i], w.start[order[i]]>>], big)
           now == Listing(x)
       IN w' = [x EXCEPT !.pc = "running", !.news = FALSE, !.reported = [p \in Paths |-> IF p \in now THEN x.files[p] ELSE 0]]
  /\ UNCHANGED <<page, mail, msgs, made, session>>

---------------------------------------------------------------------------
(* The program. *)

Program(x) ==
  /\ w.pc = "running" /\ made < MaxMade
  /\ w' = x /\ made' = made + 1
  /\ UNCHANGED <<page, mail, msgs, session>>

Reachable(p) == p = "a/b" => w.dir

WritesFile(p) ==
  /\ Reachable(p) /\ CanHold(w, p)
  /\ Program(IF w.files[p] = 0 THEN Placed(w, p, made + 1) ELSE [w EXCEPT !.files = [w.files EXCEPT ![p] = made + 1], !.news = TRUE])

RemovesFile(p) == w.files[p] # 0 /\ Program(Placed(w, p, 0))

RenamesFile(p, q) ==
  /\ p # q /\ w.files[p] # 0 /\ Reachable(q) /\ CanHold(w, q)
  /\ Program(Placed(Placed(w, p, 0), q, w.files[p]))

ChangesDirectory ==
  /\ IF w.dir THEN w.files["a/b"] = 0 ELSE w.files["a"] = 0
  /\ Program([w EXCEPT !.dir = ~w.dir, !.news = TRUE])

\* onFileClosed, when the last report is long enough ago.
ClosesFile ==
  /\ w.pc = "running" /\ Len(msgs) + 1 < MaxMsgs
  /\ w' = Report(w).w /\ msgs' = msgs \o Report(w).said
  /\ UNCHANGED <<page, mail, made, session>>

ReadsInput == w.pc = "running" /\ Idle

Exits ==
  /\ w.pc = "running" /\ Len(msgs) + 1 < MaxMsgs
  /\ w' = [Report(w).w EXCEPT !.pc = "exited"]
  /\ msgs' = msgs \o Report(w).said \o <<Exited>>
  /\ UNCHANGED <<page, mail, made, session>>

\* A batch wakes the reader, which takes it and parks again; input ends the read.
Wakes == w.pc = "parked" /\ mail # <<>> /\ Idle
InputComes == w.pc = "parked" /\ w' = [w EXCEPT !.pc = "running"] /\ UNCHANGED <<page, mail, msgs, made, session>>

---------------------------------------------------------------------------
(* The page. *)

\* _sendFiles(): one batch at a time, as much as fits, in the order it was said.
SendFiles(x) ==
  IF ~x.started \/ x.inFlight # <<>> \/ mail # <<>> THEN page' = x /\ UNCHANGED mail
  ELSE LET batch == SubSeq(x.queued, 1, IF Len(x.queued) < Batch THEN Len(x.queued) ELSE Batch) IN
       /\ mail' = batch
       /\ page' = [x EXCEPT !.inFlight = batch, !.queued = SubSeq(x.queued, Len(batch) + 1, Len(x.queued))]

\* saveFile() and deleteFile(): the folder, and what _say() tells the interpreter.
Say(p, content) ==
  LET told == [page EXCEPT !.folder = [page.folder EXCEPT ![p] = content]] IN
  /\ p \in Flat \/ page.folder[p] # 0
  /\ made < MaxMade /\ made' = made + 1
  /\ SendFiles(IF page.started THEN [told EXCEPT !.queued = Append(WithoutOp(page.queued, p), <<p, content>>)] ELSE told)
  /\ UNCHANGED <<msgs, w, session>>

Saves(p) == Say(p, made + 1)
Deletes(p) == page.folder[p] # 0 /\ Say(p, 0)

\* `ready`: the folder goes with `start`, and what is said from now on through the mailbox.
PostStart ==
  /\ w.pc = "loading"
  /\ w' = [w EXCEPT !.pc = "starting", !.start = page.folder]
  /\ SendFiles([page EXCEPT !.started = TRUE])
  /\ UNCHANGED <<msgs, made, session>>

Unsettled(x) == Names(x.queued) \cup Names(x.inFlight)

\* Mutant: what waits to be sent is not looked at, only what is on its way.
OnFilesSent(what) ==
  page' = [page EXCEPT !.folder = [p \in Paths |->
             IF p \in DOMAIN what /\ p \notin Names(page.inFlight) THEN what[p] ELSE page.folder[p]]]

\* _onFiles(): a report about what the page has spoken of since is left out.
OnFiles(what) ==
  page' = [page EXCEPT !.folder = [p \in Paths |->
             IF p \in DOMAIN what /\ p \notin Unsettled(page) THEN what[p] ELSE page.folder[p]]]

\* Mutant: what waited is sent with the next thing said.
OnTakenOnly == page' = [page EXCEPT !.inFlight = <<>>] /\ UNCHANGED mail

\* `filesTaken`
OnTaken == SendFiles([page EXCEPT !.inFlight = <<>>])

Hears ==
  /\ msgs # <<>>
  /\ msgs' = Tail(msgs)
  /\ CASE Head(msgs).type = "files" -> OnFiles(Head(msgs).what) /\ UNCHANGED mail
       [] Head(msgs).type = "filesTaken" -> OnTaken
       [] Head(msgs).type = "exited" -> UNCHANGED <<page, mail>>
  /\ UNCHANGED <<w, made, session>>

\* restart(), and the next run(): the old interpreter is terminated and no longer heard.
Restart ==
  /\ session < MaxSessions
  /\ session' = session + 1
  /\ page' = [page EXCEPT !.queued = <<>>, !.inFlight = <<>>, !.started = FALSE]
  /\ mail' = <<>> /\ msgs' = <<>> /\ w' = NewWorker
  /\ UNCHANGED made

Init ==
  /\ page = [folder |-> NoFiles, queued |-> <<>>, inFlight |-> <<>>, started |-> FALSE]
  /\ mail = <<>> /\ msgs = <<>> /\ w = NewWorker /\ made = 0 /\ session = 1

ProgramStep ==
  \/ \E p \in Paths : WritesFile(p) \/ RemovesFile(p) \/ \E q \in Paths : RenamesFile(p, q)
  \/ ChangesDirectory \/ ClosesFile \/ ReadsInput \/ Exits \/ InputComes

Next ==
  \/ ProgramStep \/ Start \/ Wakes
  \/ PostStart \/ Hears \/ Restart
  \/ \E p \in Paths : Saves(p) \/ Deletes(p)

Spec == Init /\ [][Next]_vars

\* Messages and wake-ups arrive; the program and the student owe nothing.
FairSpec == Spec /\ WF_vars(Hears) /\ WF_vars(Wakes) /\ WF_vars(PostStart) /\ WF_vars(Start)

---------------------------------------------------------------------------
(* Properties *)

Ops == Paths \X Contents

TypeOK ==
  /\ page \in [folder : [Paths -> Contents], queued : Seq(Ops), inFlight : Seq(Ops), started : BOOLEAN]
  /\ mail \in Seq(Ops) /\ Len(mail) <= Batch /\ IsInjective([i \in DOMAIN page.queued |-> page.queued[i][1]])
  /\ \A m \in ToSet(msgs) : m.type \in {"files", "filesTaken", "exited"}
  /\ w \in [pc : {"loading", "starting", "running", "parked", "exited"}, files : [Paths -> Contents], order : Seq(Paths),
            dir : BOOLEAN, reported : [Paths -> Contents], refused : SUBSET Paths, news : BOOLEAN, start : [Paths -> Contents]]
  /\ ToSet(w.order) = {p \in Paths : w.files[p] # 0} /\ IsInjective(w.order)

\* What the student said last is what the student sees, until the interpreter has heard it: no
\* report that was on its way puts an older content back, or takes the file away.
SaidIsShown ==
  \A op \in ToSet(page.queued) \cup ToSet(page.inFlight) :
    op[1] \notin Names(page.queued) \/ op \in ToSet(page.queued) => page.folder[op[1]] = op[2]

\* Once both are quiet the two folders are the same, whatever was written, renamed, refused or
\* removed on either side meanwhile, and also what a program that exited left behind.
QuietIsSame ==
  w.pc \in {"parked", "exited"} /\ msgs = <<>> /\ mail = <<>> /\ page.queued = <<>> => page.folder = w.files

\* Whichever side writes, and whatever crosses on the way, both hold one folder and neither loses
\* what it was told.
FoldersAgree == TypeOK /\ SaidIsShown /\ QuietIsSame

\* An interpreter that goes on waiting for input hears all the page said, however little fits
\* into one batch, and the page hears all it did.
FoldersSettle == <>[](w.pc = "parked") => <>[](page.folder = w.files)

====
