---- MODULE Image_proofs ----
(***************************************************************************)
(* Proofs about the VM image, on both sides of its publication.             *)
(*                                                                         *)
(* First the page's machine, which reads the files of the image, and its    *)
(* watchdog, for any number of files, restores, reads and retries and for   *)
(* any deadline: a guest that runs reads its own time; one that says        *)
(* nothing is ended, and only for time it had; a read is answered once, or  *)
(* reported, whichever guest it belonged to; and the reads under way and    *)
(* the bytes kept are what the code counted them up to.                     *)
(*                                                                         *)
(* Then the tools that make, correct, pack and fetch the image: whatever    *)
(* builds, stops, damage, edits and uploads come, and in whatever order,    *)
(* the entry point of the directory, the pins and the reports of            *)
(* fetch-image and check-image-pin are what EntryIsGood, PinsAreGood and    *)
(* FetchIsRight say. None of the three is inductive. What a tool may do     *)
(* next depends on what it has done so far, so the invariant ReleaseInv     *)
(* says for each tool what it has in hand at each of its steps; and a new   *)
(* image is written into a bundle that nothing has touched, so it also says *)
(* which bundles those are.                                                *)
(***************************************************************************)
EXTENDS RootfsReads, ImageRelease, Sums, SequenceTheorems, TLAPS

Ops == {"none", "stopping", "halting", "restoring"}
HostType ==
  [epoch : Epochs, cpu : BOOLEAN, want : BOOLEAN, visible : BOOLEAN, shown : BOOLEAN, op : Ops,
   destroyed : BOOLEAN, fetching : Int, tsc : Clocks]
WatchdogType ==
  [armed : BOOLEAN, remaining : Int, held : Int, holds : SUBSET {"cpu", "hidden"}, fetching : BOOLEAN,
   expired : BOOLEAN, spent : Int, silent : Int]

Typed == host \in HostType /\ wd \in WatchdogType

\* #tscOffset and #frozenTsc at each operation of the queue: what is written when the CPU starts is what
\* was read when it stopped, or the snapshot's, and nothing starts a guest that was never restored.
Clock ==
  /\ host.cpu => host.tsc.right
  /\ host.tsc.frozen # "wrong"
  /\ host.tsc.frozen = "none" => ~host.want /\ ~host.cpu
  /\ host.op = "restoring" => host.tsc.offset = "zero" /\ ~host.cpu
  /\ host.op \in {"stopping", "halting"} => host.cpu
  /\ host.op = "stopping" => host.epoch < MaxRestores

\* The holds stand for what the machine does, and a deadline for a machine that is there.
Holding ==
  /\ ~host.destroyed /\ "cpu" \notin wd.holds => host.cpu /\ host.op = "none"
  /\ "hidden" \notin wd.holds => host.shown
  /\ host.destroyed => ~wd.armed

\* Each sample of an armed deadline takes from what remains of it, or from the allowance for fetches.
Counted ==
  wd.armed =>
    /\ 1 <= wd.remaining /\ wd.remaining + wd.spent = Timeout
    /\ 0 <= wd.held /\ wd.held <= Cap
    /\ wd.silent <= wd.spent + wd.held

WatchInv == Typed /\ Clock /\ Holding /\ Counted

---------------------------------------------------------------------------
(* Every read *)

LoadType == [at : {"none", "cache", "fetch", "wait"}, attempt : Nat, readers : [Epochs -> Nat]]
ReadType == [asked : [Names -> Nat], answered : [Names -> Nat], told : [Names -> Nat]]

FilesType == DOMAIN files = {"data", "kept", "keptBytes", "copies", "digested"}

\* No load has readers of a guest that is not there yet.
OnlyPast == \A n \in Names : \A e \in Epochs : e > host.epoch => loads[n].readers[e] = 0

ReadInv ==
  /\ guest \in ReadType /\ loads \in [Names -> LoadType]
  /\ FilesType /\ files.copies \in [Names -> {"none", "good", "torn"}]
  /\ OnlyPast /\ NoStrayAnswer /\ LostReadsAreTold

Inv == WatchInv /\ ReadInv

---------------------------------------------------------------------------
(* The helpers *)

\* A deadline whose counts are set anew.
Reset(w, left, held, spent, silent) ==
  [w EXCEPT !.remaining = left, !.held = held, !.spent = spent, !.silent = silent]

LEMMA ResetIs ==
  ASSUME NEW w \in WatchdogType, NEW left \in Int, NEW held \in Int, NEW spent \in Int, NEW silent \in Int,
         NEW x, x = Reset(w, left, held, spent, silent)
  PROVE  /\ x \in WatchdogType /\ x.armed = w.armed /\ x.holds = w.holds /\ x.expired = w.expired
         /\ x.fetching = w.fetching /\ x.remaining = left /\ x.held = held /\ x.spent = spent /\ x.silent = silent
<1> DEFINE b == [w EXCEPT !.remaining = left]
<1>2. b \in WatchdogType
  BY DEF WatchdogType
<1> HIDE DEF b
<1> DEFINE c == [b EXCEPT !.held = held]
<1>3. c \in WatchdogType
  BY <1>2 DEF WatchdogType
<1> HIDE DEF c
<1> DEFINE d == [c EXCEPT !.spent = spent]
<1>4. d \in WatchdogType
  BY <1>3 DEF WatchdogType
<1> HIDE DEF d
<1> DEFINE e == [d EXCEPT !.silent = silent]
<1>5. e \in WatchdogType
  BY <1>4 DEF WatchdogType
<1> HIDE DEF e
<1>6. x = e
  BY Zenon DEF Reset, b, c, d, e
<1>7. /\ x.armed = w.armed /\ x.holds = w.holds /\ x.expired = w.expired
      /\ x.fetching = w.fetching /\ x.remaining = left /\ x.held = held /\ x.spent = spent /\ x.silent = silent
  BY DEF Reset, WatchdogType
<1> QED BY <1>5, <1>6, <1>7

LEMMA DisarmedIs ==
  ASSUME NEW w \in WatchdogType, NEW x, x = Disarmed(w)
  PROVE  /\ x \in WatchdogType /\ ~x.armed /\ x.holds = w.holds /\ x.expired = w.expired /\ x.fetching = w.fetching
         /\ x.remaining = 0 /\ x.held = 0 /\ x.spent = 0 /\ x.silent = 0
<1> DEFINE a == [w EXCEPT !.armed = FALSE]
<1>1. a \in WatchdogType /\ ~a.armed /\ a.holds = w.holds /\ a.expired = w.expired /\ a.fetching = w.fetching
  BY DEF WatchdogType
<1> HIDE DEF a
<1>2. x = Reset(a, 0, 0, 0, 0)
  BY Zenon DEF Disarmed, Reset, a
<1> QED BY <1>1, <1>2, ResetIs

LEMMA RearmedIs ==
  ASSUME NEW w \in WatchdogType, NEW x, x = Rearmed(w)
  PROVE  /\ x \in WatchdogType /\ x.holds = w.holds /\ x.expired = w.expired /\ x.fetching = w.fetching
         /\ x.remaining = Timeout /\ x.held = 0 /\ x.spent = 0 /\ x.silent = 0
<1> DEFINE a == [w EXCEPT !.armed = TRUE]
<1>1. a \in WatchdogType /\ a.holds = w.holds /\ a.expired = w.expired /\ a.fetching = w.fetching
  BY DEF WatchdogType
<1> HIDE DEF a
<1>2. x = Reset(a, Timeout, 0, 0, 0)
  BY Zenon DEF Rearmed, Reset, a
<1> QED BY <1>1, <1>2, ResetIs, BoundsAssumption

LEMMA HeldIs ==
  ASSUME NEW w \in WatchdogType, NEW reason, reason \in {"cpu", "hidden"}, NEW x, x = Held(w, reason)
  PROVE  /\ x \in WatchdogType /\ x.holds = w.holds \cup {reason} /\ x.armed = w.armed /\ x.expired = w.expired
         /\ x.fetching = w.fetching
         /\ x.remaining = w.remaining /\ x.held = w.held /\ x.spent = w.spent /\ x.silent = w.silent
BY DEF Held, WatchdogType

LEMMA ReleasedIs ==
  ASSUME NEW w \in WatchdogType, NEW reason, reason \in {"cpu", "hidden"}, NEW x, x = Released(w, reason)
  PROVE  /\ x \in WatchdogType /\ x.holds = w.holds \ {reason} /\ x.armed = w.armed /\ x.expired = w.expired
         /\ x.fetching = w.fetching /\ x.held = w.held
         /\ \/ x.remaining = w.remaining /\ x.spent = w.spent /\ x.silent = w.silent
            \/ x.remaining = Timeout /\ x.spent = 0 /\ x.silent = 0
<1>1. CASE reason \notin w.holds
  BY <1>1 DEF Released, WatchdogType
<1>2. CASE reason \in w.holds /\ ~w.armed
  BY <1>2 DEF Released, WatchdogType
<1>3. CASE reason \in w.holds /\ w.armed
  <2> DEFINE a == [w EXCEPT !.holds = @ \ {reason}]
  <2>1. a \in WatchdogType
    BY DEF WatchdogType
  <2> HIDE DEF a
  <2> DEFINE b == [a EXCEPT !.remaining = Timeout]
  <2>2. b \in WatchdogType
    BY <2>1, BoundsAssumption DEF WatchdogType
  <2> HIDE DEF b
  <2> DEFINE c == [b EXCEPT !.spent = 0]
  <2>3. c \in WatchdogType
    BY <2>2 DEF WatchdogType
  <2> HIDE DEF c
  <2> DEFINE d == [c EXCEPT !.silent = 0]
  <2>4. d \in WatchdogType
    BY <2>3 DEF WatchdogType
  <2> HIDE DEF d
  <2>5. x = [w EXCEPT !.holds = @ \ {reason}, !.remaining = Timeout, !.spent = 0, !.silent = 0]
    BY <1>3 DEF Released
  <2>6. x = d
    BY <2>5, Zenon DEF a, b, c, d
  <2>7. /\ x.holds = w.holds \ {reason} /\ x.armed = w.armed /\ x.expired = w.expired
        /\ x.fetching = w.fetching /\ x.held = w.held /\ x.remaining = Timeout /\ x.spent = 0 /\ x.silent = 0
    BY <2>5 DEF WatchdogType
  <2> QED BY <2>4, <2>6, <2>7
<1> QED BY <1>1, <1>2, <1>3

LEMMA FreezeIs ==
  ASSUME NEW c \in Clocks, NEW x, x = FreezeTsc(c)
  PROVE  x \in Clocks /\ x.frozen # "none" /\ (c.right => x.frozen = "right")
BY DEF FreezeTsc, Clocks

\* The clock of the snapshot is the guest's if the offset was made zero before.
LEMMA SnapshotIs ==
  ASSUME NEW c \in Clocks, NEW x, x = set_tsc(c, "right")
  PROVE  x \in Clocks /\ x.frozen = c.frozen /\ (c.offset = "zero" => x.right)
BY DEF set_tsc, Clocks

LEMMA ZeroIs ==
  ASSUME NEW c \in Clocks, NEW x, x = zeroTscOffset(c)
  PROVE  x \in Clocks /\ x.frozen = c.frozen /\ x.offset = "zero"
BY DEF zeroTscOffset, Clocks

LEMMA WriteIs ==
  ASSUME NEW c \in Clocks, NEW x, x = writeTsc(c)
  PROVE  x \in Clocks /\ x.frozen = c.frozen /\ (c.frozen = "right" => x.right)
<1>1. zeroTscOffset(c) \in Clocks /\ zeroTscOffset(c).frozen = c.frozen /\ zeroTscOffset(c).offset = "zero"
  BY ZeroIs
<1> QED BY <1>1 DEF writeTsc, set_tsc, Clocks

\* The clock whose frozen value is dropped, as a restore does first.
LEMMA DroppedIs ==
  ASSUME NEW c \in Clocks, NEW x, x = zeroTscOffset([c EXCEPT !.frozen = "none"])
  PROVE  x \in Clocks /\ x.frozen = "none" /\ x.offset = "zero"
<1>1. [c EXCEPT !.frozen = "none"] \in Clocks /\ [c EXCEPT !.frozen = "none"].frozen = "none"
  BY DEF Clocks
<1> QED BY <1>1, ZeroIs

LEMMA HostIs ==
  ASSUME NEW h \in HostType
  PROVE  /\ h.epoch \in Epochs /\ h.cpu \in BOOLEAN /\ h.want \in BOOLEAN /\ h.visible \in BOOLEAN /\ h.shown \in BOOLEAN
         /\ h.op \in Ops /\ h.destroyed \in BOOLEAN /\ h.fetching \in Int /\ h.tsc \in Clocks
BY DEF HostType

---------------------------------------------------------------------------
(* The machine and its deadline *)

LEMMA RestoringKeeps ==
  ASSUME WatchInv, Restoring, wd' = [wd EXCEPT !.fetching = FALSE],
         host.epoch < MaxRestores, host.op = "stopping" \/ ~host.cpu
  PROVE  WatchInv'
<1> DEFINE tsc == zeroTscOffset([host.tsc EXCEPT !.frozen = "none"])
<1>1. tsc \in Clocks /\ tsc.frozen = "none" /\ tsc.offset = "zero"
  BY DroppedIs, HostIs DEF WatchInv, Typed
<1>2. host' = [host EXCEPT !.op = "restoring", !.want = FALSE, !.cpu = FALSE, !.epoch = @ + 1, !.fetching = 0, !.tsc = tsc]
  BY DEF Restoring
<1> HIDE DEF tsc
<1>3. host.epoch + 1 \in Epochs
  BY HostIs, BoundsAssumption DEF WatchInv, Typed, Epochs
<1>4. /\ host' \in HostType /\ host'.op = "restoring" /\ ~host'.want /\ ~host'.cpu /\ host'.tsc = tsc
      /\ host'.shown = host.shown /\ host'.destroyed = host.destroyed
  <2> DEFINE a == [host EXCEPT !.op = "restoring", !.want = FALSE]
  <2>1. a \in HostType
    BY DEF WatchInv, Typed, HostType, Ops
  <2> HIDE DEF a
  <2> DEFINE b == [a EXCEPT !.cpu = FALSE]
  <2>2. b \in HostType
    BY <2>1 DEF HostType
  <2> HIDE DEF b
  <2> DEFINE c == [b EXCEPT !.epoch = @ + 1]
  <2>3. b.epoch = host.epoch
    BY DEF a, b, WatchInv, Typed, HostType
  <2>4. c \in HostType
    BY <1>3, <2>2, <2>3 DEF HostType
  <2> HIDE DEF c
  <2> DEFINE d == [c EXCEPT !.fetching = 0]
  <2>5. d \in HostType
    BY <2>4 DEF HostType
  <2> HIDE DEF d
  <2> DEFINE e == [d EXCEPT !.tsc = tsc]
  <2>6. e \in HostType
    BY <1>1, <2>5 DEF HostType
  <2> HIDE DEF e
  <2>7. host' = e
    BY <1>2, Zenon DEF a, b, c, d, e
  <2>8. /\ host'.op = "restoring" /\ ~host'.want /\ ~host'.cpu /\ host'.tsc = tsc
        /\ host'.shown = host.shown /\ host'.destroyed = host.destroyed /\ host'.epoch = host.epoch + 1
    BY <1>2 DEF WatchInv, Typed, HostType
  <2> QED BY <2>6, <2>7, <2>8
<1>5. /\ wd' \in WatchdogType /\ wd'.armed = wd.armed /\ wd'.holds = wd.holds /\ wd'.remaining = wd.remaining
      /\ wd'.held = wd.held /\ wd'.spent = wd.spent /\ wd'.silent = wd.silent
  BY DEF WatchInv, Typed, WatchdogType
<1>6. Clock'
  BY <1>1, <1>4 DEF Clock
<1>7. Holding'
  BY <1>4, <1>5 DEF WatchInv, Clock, Holding
<1>8. Counted'
  BY <1>5 DEF WatchInv, Counted
<1> QED BY <1>4, <1>5, <1>6, <1>7, <1>8 DEF WatchInv, Typed

LEMMA SnapshotKeeps == ASSUME WatchInv, RestoreSnapshot PROVE WatchInv'
<1>1. CASE ~host.cpu
  BY <1>1, RestoringKeeps DEF RestoreSnapshot
<1>2. CASE host.cpu
  <2>1. host' = [host EXCEPT !.op = "stopping", !.want = FALSE] /\ wd' = Held(wd, "cpu")
    BY <1>2 DEF RestoreSnapshot
  <2>2. /\ host' \in HostType /\ host'.op = "stopping" /\ ~host'.want /\ host'.cpu /\ host'.tsc = host.tsc /\ host'.epoch = host.epoch
        /\ host'.shown = host.shown /\ host'.destroyed = host.destroyed
    BY <1>2, <2>1 DEF WatchInv, Typed, HostType, Ops
  <2>3. /\ wd' \in WatchdogType /\ wd'.holds = wd.holds \cup {"cpu"} /\ wd'.armed = wd.armed
        /\ wd'.remaining = wd.remaining /\ wd'.held = wd.held /\ wd'.spent = wd.spent /\ wd'.silent = wd.silent
    BY <2>1, HeldIs DEF WatchInv, Typed
  <2>4. Clock' /\ Holding'
    BY <1>2, <2>2, <2>3 DEF WatchInv, Clock, Holding, RestoreSnapshot
  <2>5. Counted'
    BY <2>3 DEF WatchInv, Counted
  <2> QED BY <2>2, <2>3, <2>4, <2>5 DEF WatchInv, Typed
<1> QED BY <1>1, <1>2

LEMMA StoppedKeeps == ASSUME WatchInv, Stopped PROVE WatchInv'
<1>1. CASE host.op = "stopping"
  BY <1>1, RestoringKeeps DEF Stopped, WatchInv, Clock
<1>2. CASE host.op = "halting"
  <2> DEFINE tsc == FreezeTsc(host.tsc)
  <2>1. host.tsc.right /\ host.tsc \in Clocks
    BY <1>2, HostIs DEF WatchInv, Clock, Typed
  <2>2. tsc \in Clocks /\ tsc.frozen = "right"
    BY <2>1, FreezeIs
  <2>3. host' = [host EXCEPT !.op = "none", !.cpu = FALSE, !.tsc = tsc] /\ wd' = wd
    BY <1>2 DEF Stopped
  <2> HIDE DEF tsc
  <2>4. /\ host' \in HostType /\ host'.op = "none" /\ ~host'.cpu /\ host'.tsc = tsc
        /\ host'.shown = host.shown /\ host'.destroyed = host.destroyed
    BY <2>2, <2>3 DEF WatchInv, Typed, HostType, Ops
  <2>5. Clock' /\ Holding'
    BY <1>2, <2>2, <2>3, <2>4 DEF WatchInv, Clock, Holding
  <2> QED BY <2>3, <2>4, <2>5 DEF WatchInv, Typed, Counted
<1> QED BY <1>1, <1>2 DEF Stopped

LEMMA RestoredKeeps == ASSUME WatchInv, Restored PROVE WatchInv'
<1>1. CASE host' = [host EXCEPT !.op = "none"]
  <2>1. /\ host' \in HostType /\ host'.op = "none" /\ host'.cpu = host.cpu /\ host'.tsc = host.tsc /\ host'.want = host.want
        /\ host'.shown = host.shown /\ host'.destroyed = host.destroyed /\ wd' = wd
    BY <1>1 DEF WatchInv, Typed, HostType, Ops, Restored
  <2>2. Clock' /\ Holding'
    BY <2>1 DEF WatchInv, Clock, Holding
  <2> QED BY <2>1, <2>2 DEF WatchInv, Typed, Counted
<1>2. CASE host' = [host EXCEPT !.op = "none", !.tsc = FreezeTsc(set_tsc(@, "right"))]
  <2> DEFINE set == set_tsc(host.tsc, "right")
  <2> DEFINE tsc == FreezeTsc(set)
  <2>1. host.tsc \in Clocks /\ host.tsc.offset = "zero" /\ ~host.cpu /\ host.op = "restoring"
    BY HostIs DEF WatchInv, Clock, Typed, Restored
  <2>2. set \in Clocks /\ set.right
    BY <2>1, SnapshotIs
  <2>3. tsc \in Clocks /\ tsc.frozen = "right"
    BY <2>2, FreezeIs
  <2>4. host' = [host EXCEPT !.op = "none", !.tsc = tsc] /\ wd' = wd
    BY <1>2 DEF Restored
  <2> HIDE DEF set, tsc
  <2>5. /\ host' \in HostType /\ host'.op = "none" /\ host'.cpu = host.cpu /\ host'.tsc = tsc
        /\ host'.shown = host.shown /\ host'.destroyed = host.destroyed
    BY <2>3, <2>4 DEF WatchInv, Typed, HostType, Ops
  <2>6. Clock' /\ Holding'
    BY <2>1, <2>3, <2>4, <2>5 DEF WatchInv, Clock, Holding
  <2> QED BY <2>4, <2>5, <2>6 DEF WatchInv, Typed, Counted
<1> QED BY <1>1, <1>2 DEF Restored

\* #applyCpu(), for a machine whose page or wish has changed.
LEMMA ApplyKeeps ==
  ASSUME WatchInv, ~host.destroyed, host.op = "none", NEW h \in HostType, ApplyCpu(h),
         h.epoch = host.epoch, h.cpu = host.cpu, h.shown = host.shown, h.op = host.op, h.destroyed = host.destroyed,
         h.tsc = host.tsc, h.tsc.frozen = "none" => ~h.want
  PROVE  WatchInv'
<1>1. CASE h.want /\ h.visible /\ ~h.cpu
  <2> DEFINE tsc == writeTsc(h.tsc)
  <2>1. host' = [h EXCEPT !.cpu = TRUE, !.tsc = tsc] /\ wd' = Released(wd, "cpu")
    BY <1>1 DEF ApplyCpu
  <2>2. h.tsc.frozen = "right" /\ h.tsc \in Clocks
    BY <1>1, HostIs DEF WatchInv, Clock, Clocks
  <2>3. tsc \in Clocks /\ tsc.frozen = "right" /\ tsc.right
    BY <2>2, WriteIs
  <2> HIDE DEF tsc
  <2>4. /\ host' \in HostType /\ host'.cpu /\ host'.op = "none" /\ host'.tsc = tsc
        /\ host'.shown = host.shown /\ host'.destroyed = host.destroyed
    BY <2>1, <2>3 DEF HostType
  <2>5. /\ wd' \in WatchdogType /\ wd'.holds = wd.holds \ {"cpu"} /\ wd'.armed = wd.armed /\ wd'.held = wd.held
        /\ \/ wd'.remaining = wd.remaining /\ wd'.spent = wd.spent /\ wd'.silent = wd.silent
           \/ wd'.remaining = Timeout /\ wd'.spent = 0 /\ wd'.silent = 0
    BY <2>1, ReleasedIs DEF WatchInv, Typed
  <2>6. Clock' /\ Holding'
    BY <2>3, <2>4, <2>5 DEF WatchInv, Clock, Holding
  <2>7. Counted'
    BY <2>5, BoundsAssumption DEF WatchInv, Typed, WatchdogType, Counted
  <2> QED BY <2>4, <2>5, <2>6, <2>7 DEF WatchInv, Typed
<1>2. CASE ~(h.want /\ h.visible) /\ h.cpu
  <2>1. host' = [h EXCEPT !.op = "halting"] /\ wd' = Held(wd, "cpu")
    BY <1>2 DEF ApplyCpu
  <2>2. /\ host' \in HostType /\ host'.op = "halting" /\ host'.cpu /\ host'.tsc = host.tsc
        /\ host'.shown = host.shown /\ host'.destroyed = host.destroyed
    BY <1>2, <2>1 DEF HostType, Ops
  <2>3. /\ wd' \in WatchdogType /\ wd'.holds = wd.holds \cup {"cpu"} /\ wd'.armed = wd.armed
        /\ wd'.remaining = wd.remaining /\ wd'.held = wd.held /\ wd'.spent = wd.spent /\ wd'.silent = wd.silent
    BY <2>1, HeldIs DEF WatchInv, Typed
  <2>4. Clock' /\ Holding'
    BY <1>2, <2>2, <2>3 DEF WatchInv, Clock, Holding
  <2>5. Counted'
    BY <2>3 DEF WatchInv, Counted
  <2> QED BY <2>2, <2>3, <2>4, <2>5 DEF WatchInv, Typed
<1>3. CASE host' = h /\ wd' = wd
  BY <1>3 DEF WatchInv, Typed, Clock, Holding, Counted
<1> QED BY <1>1, <1>2, <1>3 DEF ApplyCpu

LEMMA ResumeKeeps == ASSUME WatchInv, Resume \/ Pause \/ VisibilityApplied PROVE WatchInv'
<1>1. ~host.destroyed /\ host.op = "none" /\ host \in HostType
  BY DEF Resume, Pause, VisibilityApplied, WatchInv, Typed
<1>2. CASE Resume
  <2> DEFINE h == [host EXCEPT !.want = TRUE]
  <2>1. /\ h \in HostType /\ h.epoch = host.epoch /\ h.cpu = host.cpu /\ h.shown = host.shown /\ h.op = host.op
        /\ h.destroyed = host.destroyed /\ h.tsc = host.tsc
    BY <1>1 DEF HostType
  <2>2. ApplyCpu(h) /\ host.tsc.frozen # "none"
    BY <1>2 DEF Resume
  <2> HIDE DEF h
  <2> QED BY <1>1, <2>1, <2>2, ApplyKeeps
<1>3. CASE Pause
  <2> DEFINE h == [host EXCEPT !.want = FALSE]
  <2>1. /\ h \in HostType /\ h.epoch = host.epoch /\ h.cpu = host.cpu /\ h.shown = host.shown /\ h.op = host.op
        /\ h.destroyed = host.destroyed /\ h.tsc = host.tsc /\ ~h.want
    BY <1>1 DEF HostType
  <2>2. ApplyCpu(h)
    BY <1>3 DEF Pause
  <2> HIDE DEF h
  <2> QED BY <1>1, <2>1, <2>2, ApplyKeeps
<1>4. CASE VisibilityApplied
  <2> DEFINE h == [host EXCEPT !.visible = host.shown]
  <2>1. /\ h \in HostType /\ h.epoch = host.epoch /\ h.cpu = host.cpu /\ h.shown = host.shown /\ h.op = host.op
        /\ h.destroyed = host.destroyed /\ h.tsc = host.tsc /\ h.want = host.want
    BY <1>1 DEF HostType
  <2>2. ApplyCpu(h)
    BY <1>4 DEF VisibilityApplied
  <2>3. h.tsc.frozen = "none" => ~h.want
    BY <2>1 DEF WatchInv, Clock
  <2> HIDE DEF h
  <2> QED BY <1>1, <2>1, <2>2, <2>3, ApplyKeeps
<1> QED BY <1>2, <1>3, <1>4

LEMMA ShownKeeps == ASSUME WatchInv, VisibilityChanges PROVE WatchInv'
<1>1. /\ host' \in HostType /\ host'.shown = ~host.shown /\ host'.cpu = host.cpu /\ host'.op = host.op
      /\ host'.want = host.want /\ host'.tsc = host.tsc /\ host'.destroyed = host.destroyed /\ host'.epoch = host.epoch
  BY DEF VisibilityChanges, WatchInv, Typed, HostType
<1>2. Clock'
  BY <1>1 DEF WatchInv, Clock
<1>3. wd \in WatchdogType /\ host.shown \in BOOLEAN
  BY HostIs DEF WatchInv, Typed
<1>4. CASE host.shown
  <2>1. wd' = Held(wd, "hidden")
    BY <1>4 DEF VisibilityChanges
  <2>2. /\ wd' \in WatchdogType /\ wd'.holds = wd.holds \cup {"hidden"} /\ wd'.armed = wd.armed
        /\ wd'.remaining = wd.remaining /\ wd'.held = wd.held /\ wd'.spent = wd.spent /\ wd'.silent = wd.silent
    BY <1>3, <2>1, HeldIs
  <2>3. Holding' /\ Counted'
    BY <1>1, <1>4, <2>2 DEF WatchInv, Holding, Counted
  <2> QED BY <1>1, <1>2, <2>2, <2>3 DEF WatchInv, Typed
<1>5. CASE ~host.shown
  <2>1. wd' = Released(wd, "hidden")
    BY <1>5 DEF VisibilityChanges
  <2>2. /\ wd' \in WatchdogType /\ wd'.holds = wd.holds \ {"hidden"} /\ wd'.armed = wd.armed /\ wd'.held = wd.held
        /\ \/ wd'.remaining = wd.remaining /\ wd'.spent = wd.spent /\ wd'.silent = wd.silent
           \/ wd'.remaining = Timeout /\ wd'.spent = 0 /\ wd'.silent = 0
    BY <1>3, <2>1, ReleasedIs
  <2>3. Holding'
    BY <1>1, <1>5, <2>2 DEF WatchInv, Holding
  <2>4. Counted'
    BY <2>2, <1>3, BoundsAssumption DEF WatchInv, Counted, WatchdogType
  <2> QED BY <1>1, <1>2, <2>2, <2>3, <2>4 DEF WatchInv, Typed
<1> QED BY <1>3, <1>4, <1>5

LEMMA DestroyKeeps == ASSUME WatchInv, Destroy \/ Destroyed PROVE WatchInv'
<1>1. CASE Destroy
  <2>1. /\ host' \in HostType /\ host'.shown = host.shown /\ host'.cpu = host.cpu /\ host'.op = host.op
        /\ host'.want = host.want /\ host'.tsc = host.tsc /\ host'.destroyed /\ host'.epoch = host.epoch
    BY <1>1 DEF Destroy, WatchInv, Typed, HostType
  <2>2. wd' \in WatchdogType /\ ~wd'.armed /\ wd'.holds = wd.holds
    BY <1>1, DisarmedIs DEF Destroy, WatchInv, Typed
  <2>3. Clock' /\ Holding' /\ Counted'
    BY <2>1, <2>2 DEF WatchInv, Clock, Holding, Counted
  <2> QED BY <2>1, <2>2, <2>3 DEF WatchInv, Typed
<1>2. CASE Destroyed
  <2>1. /\ host' \in HostType /\ host'.shown = host.shown /\ ~host'.cpu /\ host'.op = "none" /\ host.op = "none"
        /\ host'.want = host.want /\ host'.tsc = host.tsc /\ host'.destroyed /\ host.destroyed /\ wd' = wd
    BY <1>2 DEF Destroyed, WatchInv, Typed, HostType
  <2>2. Clock' /\ Holding' /\ Counted'
    BY <2>1 DEF WatchInv, Clock, Holding, Counted
  <2> QED BY <2>1, <2>2 DEF WatchInv, Typed
<1> QED BY <1>1, <1>2

\* A read is asked for, or a load ends: only the count of the reads under way.
LEMMA FetchingKeeps ==
  ASSUME WatchInv, NEW k \in Int, host' = [host EXCEPT !.fetching = k],
         wd' = wd \/ wd' = [wd EXCEPT !.fetching = TRUE] \/ wd' = [wd EXCEPT !.fetching = FALSE]
  PROVE  WatchInv'
<1>1. /\ host' \in HostType /\ host'.shown = host.shown /\ host'.cpu = host.cpu /\ host'.op = host.op
      /\ host'.want = host.want /\ host'.tsc = host.tsc /\ host'.destroyed = host.destroyed /\ host'.epoch = host.epoch
  BY DEF WatchInv, Typed, HostType
<1>2. /\ wd' \in WatchdogType /\ wd'.armed = wd.armed /\ wd'.holds = wd.holds /\ wd'.remaining = wd.remaining
      /\ wd'.held = wd.held /\ wd'.spent = wd.spent /\ wd'.silent = wd.silent
  BY DEF WatchInv, Typed, WatchdogType
<1>3. Clock' /\ Holding' /\ Counted'
  BY <1>1, <1>2 DEF WatchInv, Clock, Holding, Counted
<1> QED BY <1>1, <1>2, <1>3 DEF WatchInv, Typed

LEMMA BesideKeeps == ASSUME WatchInv, host' = host, wd' = wd PROVE WatchInv'
BY DEF WatchInv, Typed, Clock, Holding, Counted

\* A sample that counts takes one from what remains, or from the allowance.
LEMMA SampleKeeps == ASSUME WatchInv, Sample PROVE WatchInv'
<1>1. host' = host /\ wd.armed /\ wd \in WatchdogType /\ wd.held \in Int /\ wd.silent \in Int /\ wd.remaining \in Int /\ wd.spent \in Int
  BY DEF Sample, WatchInv, Typed, WatchdogType
<1>2. CASE wd' = [wd EXCEPT !.held = @ + 1, !.silent = @ + 1] /\ wd.held < Cap
  <2> DEFINE a == [wd EXCEPT !.held = @ + 1]
  <2>1. a \in WatchdogType /\ a.silent \in Int
    BY <1>1 DEF WatchdogType
  <2> HIDE DEF a
  <2> DEFINE b == [a EXCEPT !.silent = @ + 1]
  <2>2. b \in WatchdogType
    BY <2>1 DEF WatchdogType
  <2> HIDE DEF b
  <2>3. wd' = b
    BY <1>2, Zenon DEF a, b
  <2>4. /\ wd'.armed = wd.armed /\ wd'.holds = wd.holds /\ wd'.remaining = wd.remaining /\ wd'.held = wd.held + 1
        /\ wd'.spent = wd.spent /\ wd'.silent = wd.silent + 1
    BY <1>1, <1>2 DEF WatchdogType
  <2>5. Counted'
    BY <1>1, <1>2, <2>4, BoundsAssumption DEF WatchInv, Counted
  <2>6. Clock' /\ Holding'
    BY <1>1, <2>4 DEF WatchInv, Clock, Holding
  <2> QED BY <1>1, <2>2, <2>3, <2>5, <2>6 DEF WatchInv, Typed
<1>3. CASE wd' = [wd EXCEPT !.remaining = @ - 1, !.spent = @ + 1, !.silent = @ + 1] /\ wd.remaining > 1
  <2> DEFINE a == [wd EXCEPT !.remaining = @ - 1]
  <2>1. a \in WatchdogType /\ a.spent \in Int
    BY <1>1 DEF WatchdogType
  <2> HIDE DEF a
  <2> DEFINE b == [a EXCEPT !.spent = @ + 1]
  <2>2. b \in WatchdogType /\ b.silent \in Int
    BY <2>1 DEF WatchdogType
  <2> HIDE DEF b
  <2> DEFINE c == [b EXCEPT !.silent = @ + 1]
  <2>3. c \in WatchdogType
    BY <2>2 DEF WatchdogType
  <2> HIDE DEF c
  <2>4. wd' = c
    BY <1>3, Zenon DEF a, b, c
  <2>5. /\ wd'.armed = wd.armed /\ wd'.holds = wd.holds /\ wd'.remaining = wd.remaining - 1 /\ wd'.held = wd.held
        /\ wd'.spent = wd.spent + 1 /\ wd'.silent = wd.silent + 1
    BY <1>1, <1>3 DEF WatchdogType
  <2>6. Counted'
    BY <1>1, <1>3, <2>5, BoundsAssumption DEF WatchInv, Counted
  <2>7. Clock' /\ Holding'
    BY <1>1, <2>5 DEF WatchInv, Clock, Holding
  <2> QED BY <1>1, <2>3, <2>4, <2>6, <2>7 DEF WatchInv, Typed
<1>4. CASE wd' = [Disarmed(wd) EXCEPT !.spent = wd.spent + 1, !.expired = TRUE]
  <2> DEFINE a == Disarmed(wd)
  <2>1. a \in WatchdogType /\ ~a.armed /\ a.holds = wd.holds
    BY <1>1, DisarmedIs
  <2>2. wd' = [a EXCEPT !.spent = wd.spent + 1, !.expired = TRUE]
    BY <1>4
  <2> HIDE DEF a
  <2> DEFINE b == [a EXCEPT !.spent = wd.spent + 1]
  <2>3. b \in WatchdogType /\ ~b.armed /\ b.holds = wd.holds
    BY <1>1, <2>1 DEF WatchdogType
  <2> HIDE DEF b
  <2> DEFINE c == [b EXCEPT !.expired = TRUE]
  <2>4. c \in WatchdogType /\ ~c.armed /\ c.holds = wd.holds
    BY <2>3 DEF WatchdogType
  <2>5. wd' = c
    BY <2>2, Zenon DEF b
  <2> HIDE DEF c
  <2>6. wd' \in WatchdogType /\ ~wd'.armed /\ wd'.holds = wd.holds
    BY <2>4, <2>5
  <2>7. Clock' /\ Holding' /\ Counted'
    BY <1>1, <2>6 DEF WatchInv, Clock, Holding, Counted
  <2> QED BY <1>1, <2>6, <2>7 DEF WatchInv, Typed
<1> QED BY <1>2, <1>3, <1>4 DEF Sample, StepOf, FetchExcused

LEMMA ArmKeeps == ASSUME WatchInv, Arm \/ Kick \/ Disarm PROVE WatchInv'
<1>1. host' = host /\ wd \in WatchdogType
  BY DEF Arm, Kick, Disarm, WatchInv, Typed
<1>2. ~host.destroyed \/ Disarm
  BY DEF Arm, Kick, WatchInv, Holding
<1>3. CASE Disarm
  <2>1. wd' \in WatchdogType /\ ~wd'.armed /\ wd'.holds = wd.holds
    BY <1>1, <1>3, DisarmedIs DEF Disarm
  <2>2. Clock' /\ Holding' /\ Counted'
    BY <1>1, <2>1 DEF WatchInv, Clock, Holding, Counted
  <2> QED BY <1>1, <2>1, <2>2 DEF WatchInv, Typed
<1>4. CASE Kick \/ Arm
  <2> DEFINE a == Rearmed(wd)
  <2>1. /\ a \in WatchdogType /\ a.holds = wd.holds /\ a.remaining = Timeout /\ a.held = 0 /\ a.spent = 0 /\ a.silent = 0
    BY <1>1, RearmedIs
  <2>2. wd' = a \/ wd' = [a EXCEPT !.expired = FALSE]
    BY <1>4 DEF Arm, Kick
  <2> HIDE DEF a
  <2>3. /\ wd' \in WatchdogType /\ wd'.holds = wd.holds /\ wd'.remaining = Timeout /\ wd'.held = 0
        /\ wd'.spent = 0 /\ wd'.silent = 0
    BY <2>1, <2>2 DEF WatchdogType
  <2>4. ~host.destroyed
    BY <1>4 DEF Arm, Kick, WatchInv, Holding
  <2>5. Clock' /\ Holding'
    BY <1>1, <2>3, <2>4 DEF WatchInv, Clock, Holding
  <2>6. Counted'
    BY <2>3, BoundsAssumption DEF Counted
  <2> QED BY <1>1, <2>3, <2>5, <2>6 DEF WatchInv, Typed
<1> QED BY <1>3, <1>4

---------------------------------------------------------------------------
(* The reads *)

LEMMA WaitingIs == ASSUME Typed, ReadInv, NEW n \in Names PROVE Waiting(n) \in Nat /\ host.epoch \in Epochs
BY HostIs DEF Typed, ReadInv, LoadType, Waiting

\* Steps of the machine that leave its guest.
LEMMA SameGuest ==
  ASSUME ReadInv, UNCHANGED <<guest, loads, files>>, host'.epoch = host.epoch, host.destroyed => host'.destroyed
  PROVE  ReadInv'
<1>1. \A n \in Names : Waiting(n)' = Waiting(n)
  BY DEF Waiting
<1>2. OnlyPast'
  BY DEF ReadInv, OnlyPast
<1>3. NoStrayAnswer'
  BY <1>1 DEF ReadInv, NoStrayAnswer
<1>4. LostReadsAreTold'
  BY <1>1 DEF ReadInv, LostReadsAreTold
<1> QED BY <1>2, <1>3, <1>4 DEF ReadInv, FilesType

\* Another guest: no load has readers of it, and none of its reads is answered or lost.
LEMMA NewGuestKeeps ==
  ASSUME Typed, ReadInv, Restoring, host.epoch < MaxRestores PROVE ReadInv'
<1>1. /\ host'.epoch = host.epoch + 1 /\ host.epoch \in Epochs /\ host.epoch + 1 \in Epochs
      /\ guest' = NewGuest /\ loads' = loads /\ files' = files
  BY HostIs, BoundsAssumption DEF Typed, Restoring, Epochs, HostType
<1>2. guest' \in ReadType /\ \A n \in Names : guest'.asked[n] = 0 /\ guest'.answered[n] = 0 /\ guest'.told[n] = 0
  BY <1>1 DEF NewGuest, NoReads, ReadType
<1>3. \A n \in Names : Waiting(n)' = 0
  BY <1>1 DEF Waiting, ReadInv, OnlyPast, Epochs
<1>4. OnlyPast'
  <2> SUFFICES ASSUME NEW n \in Names, NEW e \in Epochs, e > host'.epoch PROVE loads'[n].readers[e] = 0
    BY <1>1 DEF OnlyPast, Epochs
  <2> QED BY <1>1 DEF ReadInv, OnlyPast, Epochs
<1>5. NoStrayAnswer' /\ LostReadsAreTold'
  BY <1>2, <1>3 DEF NoStrayAnswer, LostReadsAreTold
<1> QED BY <1>1, <1>2, <1>4, <1>5 DEF ReadInv, FilesType

\* The guest reads a file, and the load that reads it has one more reader.
LEMMA AskReads == ASSUME Typed, ReadInv, NEW n \in Names, Ask(n) PROVE ReadInv'
<1>1. host'.epoch = host.epoch /\ host'.destroyed = host.destroyed /\ host.epoch \in Epochs
  BY HostIs DEF Ask, Typed, HostType
<1>2. /\ guest' = [guest EXCEPT !.asked[n] = @ + 1] /\ files' = files
      /\ loads' = [loads EXCEPT ![n].at = IF @ = "none" THEN "cache" ELSE @, ![n].readers[host.epoch] = @ + 1]
  BY DEF Ask
<1>3. guest \in ReadType /\ loads \in [Names -> LoadType]
  BY DEF ReadInv
<1>4. /\ guest' \in ReadType /\ guest'.answered = guest.answered /\ guest'.told = guest.told
      /\ \A m \in Names : guest'.asked[m] = IF m = n THEN guest.asked[m] + 1 ELSE guest.asked[m]
  BY <1>2, <1>3 DEF ReadType
<1>5. loads' \in [Names -> LoadType]
  BY <1>1, <1>2, <1>3 DEF LoadType
<1>6. \A m \in Names : \A e \in Epochs :
        loads'[m].readers[e] = IF m = n /\ e = host.epoch THEN loads[m].readers[e] + 1 ELSE loads[m].readers[e]
  BY <1>1, <1>2, <1>3 DEF LoadType
<1>7. \A m \in Names : Waiting(m) \in Nat /\ Waiting(m)' = IF m = n THEN Waiting(m) + 1 ELSE Waiting(m)
  BY <1>1, <1>6, WaitingIs DEF Waiting
<1>8. OnlyPast'
  BY <1>1, <1>6 DEF ReadInv, OnlyPast, Epochs
<1>9. NoStrayAnswer'
  BY <1>3, <1>4, <1>7 DEF ReadInv, NoStrayAnswer, ReadType
<1>10. LostReadsAreTold'
  <2> SUFFICES ASSUME ~host'.destroyed, NEW m \in Names
               PROVE  (guest'.asked[m] - guest'.answered[m] - Waiting(m)' > 0) <=> (guest'.told[m] > 0)
    BY DEF LostReadsAreTold
  <2>1. (guest.asked[m] - guest.answered[m] - Waiting(m) > 0) <=> (guest.told[m] > 0)
    BY <1>1 DEF ReadInv, LostReadsAreTold
  <2>2. guest.asked[m] \in Nat /\ guest.answered[m] \in Nat
    BY <1>3 DEF ReadType
  <2>3. guest'.asked[m] - guest'.answered[m] - Waiting(m)' = guest.asked[m] - guest.answered[m] - Waiting(m)
    BY <2>2, <1>4, <1>7
  <2> QED BY <2>1, <2>3, <1>4
<1> QED BY <1>2, <1>4, <1>5, <1>8, <1>9, <1>10 DEF ReadInv, FilesType

\* A load ends: its readers count no more, and those of the other files do.
LEMMA EndedLoad ==
  ASSUME Typed, ReadInv, NEW n \in Names, LoadEnds(n)
  PROVE  /\ host'.epoch = host.epoch /\ host'.destroyed = host.destroyed
         /\ loads' \in [Names -> LoadType] /\ OnlyPast'
         /\ \A m \in Names : Waiting(m) \in Nat /\ Waiting(m)' = IF m = n THEN 0 ELSE Waiting(m)
<1>1. host'.epoch = host.epoch /\ host'.destroyed = host.destroyed /\ host.epoch \in Epochs
  BY HostIs DEF LoadEnds, Settled, Typed, HostType
<1>2. loads' = [loads EXCEPT ![n] = NoLoad] /\ loads \in [Names -> LoadType]
  BY DEF LoadEnds, ReadInv
<1>3. NoLoad \in LoadType /\ \A e \in Epochs : NoLoad.readers[e] = 0
  BY DEF NoLoad, LoadType
<1>4. loads' \in [Names -> LoadType] /\ \A m \in Names : loads'[m] = IF m = n THEN NoLoad ELSE loads[m]
  BY <1>2, <1>3
<1>5. OnlyPast'
  BY <1>1, <1>3, <1>4 DEF ReadInv, OnlyPast
<1>6. \A m \in Names : Waiting(m) \in Nat /\ Waiting(m)' = IF m = n THEN 0 ELSE Waiting(m)
  BY <1>1, <1>3, <1>4, WaitingIs DEF Waiting
<1> QED BY <1>1, <1>4, <1>5, <1>6

FilesKept == DOMAIN files' = DOMAIN files /\ files'.copies \in [Names -> {"none", "good", "torn"}]

\* Nobody waits for it any more, or the machine is gone.
LEMMA EndedUnheard ==
  ASSUME Typed, ReadInv, NEW n \in Names, LoadEnds(n), host.destroyed \/ Waiting(n) = 0, guest' = guest, FilesKept
  PROVE  ReadInv'
<1>1. /\ host'.destroyed = host.destroyed /\ loads' \in [Names -> LoadType] /\ OnlyPast'
      /\ \A m \in Names : Waiting(m) \in Nat /\ Waiting(m)' = IF m = n THEN 0 ELSE Waiting(m)
  BY EndedLoad
<1>2. NoStrayAnswer'
  BY <1>1 DEF ReadInv, NoStrayAnswer, ReadType
<1>3. LostReadsAreTold'
  BY <1>1 DEF ReadInv, LostReadsAreTold
<1> QED BY <1>1, <1>2, <1>3 DEF ReadInv, FilesType, FilesKept

\* All that waited for it are answered.
LEMMA EndedAnswered ==
  ASSUME Typed, ReadInv, NEW n \in Names, LoadEnds(n), guest' = [guest EXCEPT !.answered[n] = @ + Waiting(n)], FilesKept
  PROVE  ReadInv'
<1>1. /\ host'.destroyed = host.destroyed /\ loads' \in [Names -> LoadType] /\ OnlyPast'
      /\ \A m \in Names : Waiting(m) \in Nat /\ Waiting(m)' = IF m = n THEN 0 ELSE Waiting(m)
  BY EndedLoad
<1>2. guest \in ReadType
  BY DEF ReadInv
<1>3. /\ guest' \in ReadType /\ guest'.asked = guest.asked /\ guest'.told = guest.told
      /\ \A m \in Names : guest'.answered[m] = IF m = n THEN guest.answered[m] + Waiting(m) ELSE guest.answered[m]
  BY <1>1, <1>2 DEF ReadType
<1>4. \A m \in Names : guest.asked[m] \in Nat /\ guest.answered[m] \in Nat /\ guest.told[m] \in Nat
  BY <1>2 DEF ReadType
<1>5. NoStrayAnswer'
  BY <1>1, <1>3, <1>4 DEF ReadInv, NoStrayAnswer
<1>6. LostReadsAreTold'
  BY <1>1, <1>3, <1>4 DEF ReadInv, LostReadsAreTold
<1> QED BY <1>1, <1>3, <1>5, <1>6 DEF ReadInv, FilesType, FilesKept

\* None of them is, and that is reported.
LEMMA EndedFailed ==
  ASSUME Typed, ReadInv, NEW n \in Names, LoadEnds(n), Failed(n), FilesKept
  PROVE  ReadInv'
<1>1. CASE host.destroyed \/ Waiting(n) = 0
  BY <1>1, EndedUnheard DEF Failed
<1>2. CASE ~host.destroyed /\ Waiting(n) # 0
  <2>1. /\ host'.destroyed = host.destroyed /\ loads' \in [Names -> LoadType] /\ OnlyPast'
        /\ \A m \in Names : Waiting(m) \in Nat /\ Waiting(m)' = IF m = n THEN 0 ELSE Waiting(m)
    BY EndedLoad
  <2>2. guest \in ReadType /\ guest' = [guest EXCEPT !.told[n] = @ + 1]
    BY <1>2 DEF ReadInv, Failed
  <2>3. /\ guest' \in ReadType /\ guest'.asked = guest.asked /\ guest'.answered = guest.answered
        /\ \A m \in Names : guest'.told[m] = IF m = n THEN guest.told[m] + 1 ELSE guest.told[m]
    BY <2>2 DEF ReadType
  <2>4. \A m \in Names : guest.asked[m] \in Nat /\ guest.answered[m] \in Nat /\ guest.told[m] \in Nat
    BY <2>2 DEF ReadType
  <2>5. NoStrayAnswer'
    BY <2>1, <2>3, <2>4 DEF ReadInv, NoStrayAnswer
  <2>6. LostReadsAreTold'
    <3> SUFFICES ASSUME ~host'.destroyed, NEW m \in Names
                 PROVE  (guest'.asked[m] - guest'.answered[m] - Waiting(m)' > 0) <=> (guest'.told[m] > 0)
      BY DEF LostReadsAreTold
    <3>1. CASE m = n
      BY <1>2, <2>1, <2>3, <2>4, <3>1 DEF ReadInv, NoStrayAnswer
    <3>2. CASE m # n
      BY <1>2, <2>1, <2>3, <3>2 DEF ReadInv, LostReadsAreTold
    <3> QED BY <3>1, <3>2
  <2> QED BY <2>1, <2>3, <2>5, <2>6 DEF ReadInv, FilesType, FilesKept
<1> QED BY <1>1, <1>2

\* The load goes on, for the same readers.
LEMMA LoadGoesOn ==
  ASSUME ReadInv, NEW n \in Names, host' = host, guest' = guest, FilesKept, loads' \in [Names -> LoadType],
         \A m \in Names : loads'[m].readers = loads[m].readers
  PROVE  ReadInv'
<1>1. \A m \in Names : Waiting(m)' = Waiting(m)
  BY DEF Waiting
<1>2. OnlyPast'
  BY DEF ReadInv, OnlyPast
<1>3. NoStrayAnswer' /\ LostReadsAreTold'
  BY <1>1 DEF ReadInv, NoStrayAnswer, LostReadsAreTold
<1> QED BY <1>2, <1>3 DEF ReadInv, FilesType, FilesKept

\* The count of the reads under way, when a load ends.
LEMMA EndedWatch == ASSUME WatchInv, ReadInv, NEW n \in Names, LoadEnds(n) PROVE WatchInv'
<1> DEFINE left == host.fetching - Waiting(n)
<1>1. left \in Int
  BY WaitingIs, HostIs DEF WatchInv, Typed
<1>2. /\ host' = [host EXCEPT !.fetching = left]
      /\ wd' = wd \/ wd' = [wd EXCEPT !.fetching = FALSE]
  BY DEF LoadEnds, Settled
<1> HIDE DEF left
<1> QED BY <1>1, <1>2, FetchingKeeps

LEMMA CacheKeeps == ASSUME Inv, NEW n \in Names, CacheRead(n) PROVE Inv'
<1>1. WatchInv /\ ReadInv /\ Typed
  BY DEF Inv, WatchInv
<1>2. FilesType /\ files.copies \in [Names -> {"none", "good", "torn"}] /\ loads \in [Names -> LoadType]
  BY <1>1 DEF ReadInv
<1>3. CASE LoadEnds(n) /\ Answered(n)
  <2>1. CASE host.destroyed \/ Waiting(n) = 0
    <3>1. guest' = guest /\ FilesKept
      BY <1>2, <1>3, <2>1 DEF Answered, FilesKept
    <3> QED BY <1>1, <1>3, <2>1, <3>1, EndedUnheard, EndedWatch DEF Inv
  <2>2. CASE ~(host.destroyed \/ Waiting(n) = 0)
    <3>1. guest' = [guest EXCEPT !.answered[n] = @ + Waiting(n)] /\ files' = [files EXCEPT !.data = @ \cup {n}]
      BY <1>3, <2>2 DEF Answered
    <3>2. FilesKept
      BY <1>2, <3>1 DEF FilesType, FilesKept
    <3> QED BY <1>1, <1>3, <3>1, <3>2, EndedAnswered, EndedWatch DEF Inv
  <2> QED BY <2>1, <2>2
<1>4. CASE /\ files' = [files EXCEPT !.copies[n] = "none"]
           /\ loads' = [loads EXCEPT ![n].at = "fetch"] /\ UNCHANGED <<host, guest, wd>>
  <2>1. FilesKept
    BY <1>2, <1>4 DEF FilesType, FilesKept
  <2>2. loads' \in [Names -> LoadType] /\ \A m \in Names : loads'[m].readers = loads[m].readers
    BY <1>2, <1>4 DEF LoadType
  <2>3. host' = host /\ guest' = guest /\ wd' = wd
    BY <1>4
  <2> QED BY <1>1, <2>1, <2>2, <2>3, LoadGoesOn, BesideKeeps DEF Inv
<1> QED BY <1>3, <1>4 DEF CacheRead

LEMMA FetchedKeeps == ASSUME Inv, NEW n \in Names, Fetched(n) PROVE Inv'
<1>1. WatchInv /\ ReadInv /\ Typed /\ LoadEnds(n)
  BY DEF Inv, WatchInv, Fetched
<1>2. FilesType /\ files.copies \in [Names -> {"none", "good", "torn"}]
  BY <1>1 DEF ReadInv
<1>3. PICK content \in {"good", "wrong"} :
        LET digesting == [files EXCEPT !.digested[n] = content] IN
        IF host.destroyed \/ Waiting(n) = 0 THEN files' = digesting /\ UNCHANGED guest
        ELSE /\ guest' = [guest EXCEPT !.answered[n] = @ + Waiting(n)]
             /\ files' = [digesting EXCEPT !.data = @ \cup {n}]
  BY DEF Fetched
<1> DEFINE digesting == [files EXCEPT !.digested[n] = content]
<1>4. DOMAIN digesting = DOMAIN files /\ digesting.copies = files.copies
  BY <1>2 DEF FilesType
<1>5. FilesKept
  <2>1. files' = digesting \/ files' = [digesting EXCEPT !.data = @ \cup {n}]
    BY <1>3
  <2> HIDE DEF digesting
  <2>2. "copies" \in DOMAIN digesting
    BY <1>2, <1>4 DEF FilesType
  <2> QED BY <1>2, <1>4, <2>1, <2>2 DEF FilesKept
<1>6. CASE host.destroyed \/ Waiting(n) = 0
  BY <1>1, <1>3, <1>5, <1>6, EndedUnheard, EndedWatch DEF Inv
<1>7. CASE ~(host.destroyed \/ Waiting(n) = 0)
  <2>1. guest' = [guest EXCEPT !.answered[n] = @ + Waiting(n)]
    BY <1>3, <1>7
  <2> QED BY <1>1, <1>5, <2>1, EndedAnswered, EndedWatch DEF Inv
<1> QED BY <1>6, <1>7

LEMMA FailsKeeps == ASSUME Inv, NEW n \in Names, FetchFails(n) \/ FetchRefused(n) \/ RetryFetch(n) PROVE Inv'
<1>1. WatchInv /\ ReadInv /\ Typed /\ files' = files
  BY DEF Inv, WatchInv, FetchFails, FetchRefused, RetryFetch
<1>2. FilesKept /\ loads \in [Names -> LoadType]
  BY <1>1 DEF ReadInv, FilesKept
<1>3. CASE LoadEnds(n) /\ Failed(n)
  BY <1>1, <1>2, <1>3, EndedFailed, EndedWatch DEF Inv
<1>4. CASE /\ \/ loads' = [loads EXCEPT ![n].at = "wait", ![n].attempt = @ + 1]
              \/ loads' = [loads EXCEPT ![n].at = "fetch"]
           /\ UNCHANGED <<host, guest, wd>>
  <2>1. loads' \in [Names -> LoadType] /\ \A m \in Names : loads'[m].readers = loads[m].readers
    <3>1. loads[n] \in LoadType /\ loads[n].attempt + 1 \in Nat
      BY <1>2 DEF LoadType
    <3>2. CASE loads' = [loads EXCEPT ![n].at = "fetch"]
      BY <1>2, <3>1, <3>2 DEF LoadType
    <3>3. CASE loads' = [loads EXCEPT ![n].at = "wait", ![n].attempt = @ + 1]
      <4> DEFINE load == [loads[n] EXCEPT !.at = "wait", !.attempt = @ + 1]
      <4>1. load \in LoadType /\ load.readers = loads[n].readers
        BY <3>1 DEF LoadType
      <4>2. \A m \in Names : loads'[m] = IF m = n THEN load ELSE loads[m]
        BY <1>2, <3>3
      <4>3. loads' = [m \in Names |-> loads'[m]]
        BY <1>2, <3>3
      <4> HIDE DEF load
      <4> QED BY <1>2, <4>1, <4>2, <4>3
    <3> QED BY <1>4, <3>2, <3>3
  <2>2. host' = host /\ guest' = guest /\ wd' = wd
    BY <1>4
  <2> QED BY <1>1, <1>2, <2>1, <2>2, LoadGoesOn, BesideKeeps DEF Inv
<1> QED BY <1>3, <1>4 DEF FetchFails, FetchRefused, RetryFetch

LEMMA KeepKeeps == ASSUME Inv, NEW n \in Names, KeepFetched(n) \/ Close(n) PROVE Inv'
<1>1. WatchInv /\ ReadInv /\ host' = host /\ guest' = guest /\ loads' = loads /\ wd' = wd
  BY DEF Inv, KeepFetched, Close
<1>2. FilesType /\ files.copies \in [Names -> {"none", "good", "torn"}] /\ loads \in [Names -> LoadType]
  BY <1>1 DEF ReadInv
<1>3. CASE KeepFetched(n)
  <2>1. files' = [files EXCEPT !.digested[n] = "none",
                    !.copies[n] = IF files.digested[n] = "good" /\ ~host.destroyed THEN "good" ELSE @]
    BY <1>3 DEF KeepFetched
  <2>2. FilesKept
    BY <1>2, <2>1 DEF FilesType, FilesKept
  <2> QED BY <1>1, <1>2, <2>2, LoadGoesOn, BesideKeeps DEF Inv
<1>4. CASE Close(n)
  <2> DEFINE kept == Keep(files, n)
  <2>1. DOMAIN kept = DOMAIN files /\ kept.copies = files.copies
    BY <1>2 DEF FilesType, Keep
  <2>2. files' = Evict(kept)
    BY <1>4 DEF Close
  <2> HIDE DEF kept
  <2>3. DOMAIN Evict(kept) = DOMAIN kept /\ Evict(kept).copies = kept.copies
    BY <1>2, <2>1 DEF FilesType, Evict
  <2>4. FilesKept
    BY <1>2, <2>1, <2>2, <2>3 DEF FilesKept
  <2> QED BY <1>1, <1>2, <2>4, LoadGoesOn, BesideKeeps DEF Inv
<1> QED BY <1>3, <1>4

LEMMA AskKeeps == ASSUME Inv, NEW n \in Names, Ask(n) PROVE Inv'
<1>1. WatchInv /\ ReadInv /\ Typed
  BY DEF Inv, WatchInv
<1> DEFINE more == host.fetching + 1
<1>2. more \in Int /\ host' = [host EXCEPT !.fetching = more] /\ wd' = [wd EXCEPT !.fetching = TRUE]
  BY <1>1, HostIs DEF Typed, Ask
<1> HIDE DEF more
<1> QED BY <1>1, <1>2, AskReads, FetchingKeeps DEF Inv

LEMMA MachineKeeps ==
  ASSUME Inv, RestoreSnapshot \/ Stopped \/ Restored \/ Resume \/ Pause \/ VisibilityChanges \/ VisibilityApplied
              \/ Destroy \/ Destroyed \/ Sample \/ Arm \/ Kick \/ Disarm
  PROVE  Inv'
<1>1. WatchInv /\ ReadInv /\ Typed /\ host \in HostType
  BY DEF Inv, WatchInv, Typed
<1>2. WatchInv'
  BY <1>1, SnapshotKeeps, StoppedKeeps, RestoredKeeps, ResumeKeeps, ShownKeeps, DestroyKeeps, SampleKeeps, ArmKeeps
<1>3. CASE Restoring /\ host.epoch < MaxRestores
  BY <1>1, <1>2, <1>3, NewGuestKeeps DEF Inv
<1>4. CASE /\ UNCHANGED <<guest, loads, files>> /\ host'.epoch = host.epoch
           /\ host.destroyed => host'.destroyed
  BY <1>1, <1>2, <1>4, SameGuest DEF Inv
<1>5. CASE RestoreSnapshot
  <2>1. CASE ~host.cpu
    BY <1>3, <1>5, <2>1 DEF RestoreSnapshot
  <2>2. CASE host.cpu
    BY <1>1, <1>4, <1>5, <2>2 DEF RestoreSnapshot, HostType
  <2> QED BY <2>1, <2>2
<1>6. CASE Stopped
  <2>1. CASE host.op = "stopping"
    BY <1>1, <1>3, <1>6, <2>1 DEF Stopped, WatchInv, Clock
  <2>2. CASE host.op = "halting"
    BY <1>1, <1>4, <1>6, <2>2 DEF Stopped, HostType
  <2> QED BY <1>6, <2>1, <2>2 DEF Stopped
<1>7. CASE Restored
  BY <1>1, <1>4, <1>7 DEF Restored, HostType
<1>8. CASE Resume \/ Pause \/ VisibilityApplied
  BY <1>1, <1>4, <1>8 DEF Resume, Pause, VisibilityApplied, ApplyCpu, HostType
<1>9. CASE VisibilityChanges \/ Destroy \/ Destroyed
  BY <1>1, <1>4, <1>9 DEF VisibilityChanges, Destroy, Destroyed, HostType
<1>10. CASE Sample \/ Arm \/ Kick \/ Disarm
  BY <1>1, <1>4, <1>10 DEF Sample, Arm, Kick, Disarm
<1> QED BY <1>5, <1>6, <1>7, <1>8, <1>9, <1>10

LEMMA NextKeeps == ASSUME Inv, [Next]_vars PROVE Inv'
<1>1. CASE UNCHANGED vars
  BY <1>1, BesideKeeps, SameGuest DEF Inv, vars
<1>2. CASE \E n \in Names : Ask(n) \/ LoadStep(n) \/ KeepFetched(n) \/ Close(n)
  <2>1. PICK n \in Names : Ask(n) \/ LoadStep(n) \/ KeepFetched(n) \/ Close(n)
    BY <1>2
  <2> QED BY <2>1, AskKeeps, CacheKeeps, FetchedKeeps, FailsKeeps, KeepKeeps DEF LoadStep
<1>3. CASE RestoreSnapshot \/ Stopped \/ Restored \/ Resume \/ Pause \/ VisibilityChanges \/ VisibilityApplied
           \/ Destroy \/ Destroyed \/ Sample \/ Arm \/ Kick \/ Disarm
  BY <1>3, MachineKeeps
<1> QED BY <1>1, <1>2, <1>3 DEF Next

LEMMA InitIsInv == Init => Inv
<1> SUFFICES ASSUME Init PROVE Inv
  OBVIOUS
<1>1. host \in HostType /\ wd \in WatchdogType
  BY BoundsAssumption DEF Init, HostType, WatchdogType, Clocks, Ops, Epochs
<1>2. Clock /\ Holding /\ Counted
  BY DEF Init, Clock, Holding, Counted
<1>3. guest \in ReadType /\ loads \in [Names -> LoadType] /\ \A n \in Names : \A e \in Epochs : loads[n].readers[e] = 0
  BY DEF Init, NewGuest, NoReads, ReadType, NoLoad, LoadType
<1>4. FilesType /\ files.copies \in [Names -> {"none", "good", "torn"}]
  BY DEF Init, FilesType
<1>5. host.epoch \in Epochs
  BY <1>1, HostIs
<1>6. \A n \in Names : Waiting(n) = 0 /\ guest.asked[n] = 0 /\ guest.answered[n] = 0 /\ guest.told[n] = 0
  BY <1>3, <1>5 DEF Waiting, Init, NewGuest, NoReads
<1>7. OnlyPast /\ NoStrayAnswer /\ LostReadsAreTold
  BY <1>3, <1>6 DEF OnlyPast, NoStrayAnswer, LostReadsAreTold
<1> QED BY <1>1, <1>2, <1>3, <1>4, <1>7 DEF Inv, WatchInv, Typed, ReadInv

---------------------------------------------------------------------------
(* How many, and how much: the sums, and what bounds them. *)

Waits == [n \in Names |-> Waiting(n)]

\* Each read that is under way for the present guest is counted once, wherever its load is shared.
Summed ==
  /\ host.fetching = Total(Waits, Names)
  /\ wd.fetching <=> host.fetching > 0
  /\ Total(guest.asked, Names) <= MaxReads
  /\ \A n \in Names : guest.answered[n] + Waiting(n) + guest.told[n] <= guest.asked[n]
  /\ \A n \in Names : loads[n].attempt <= Retries /\ \A e \in Epochs : loads[n].readers[e] <= MaxReads

InRange(w) ==
  w.remaining \in 0 .. Timeout /\ w.held \in 0 .. Cap /\ w.spent \in Nat /\ w.silent \in Nat

FileType ==
  [data : SUBSET Names, kept : Seq(Names), keptBytes : Int, copies : [Names -> {"none", "good", "torn"}],
   digested : [Names -> {"none", "good", "wrong"}]]

\* The kept files are some of v86's, each once, and their bytes are what was added up.
AddedUp(f) ==
  /\ f \in FileType /\ IsInjective(f.kept) /\ ToSet(f.kept) \subseteq f.data
  /\ f.keptBytes = Total(Size, ToSet(f.kept))

SumInv == Summed /\ InRange(wd) /\ AddedUp(files) /\ files.keptBytes <= KeepBytes

AllInv == Inv /\ SumInv

LEMMA SizeIs == Size \in [Names -> Nat] /\ \A S : S \subseteq Names => IsFiniteSet(S)
BY SizeAssumption, FS_Subset DEF Size

LEMMA WaitsAre ==
  ASSUME Typed, ReadInv
  PROVE  /\ \A n \in Names : Waits[n] = Waiting(n) /\ Waits[n] \in Nat /\ guest.asked[n] \in Nat
                             /\ guest.answered[n] \in Nat /\ guest.told[n] \in Nat
         /\ Total(Waits, Names) \in Nat /\ Total(guest.asked, Names) \in Nat
         /\ \A n \in Names : Waits[n] <= Total(Waits, Names) /\ guest.asked[n] <= Total(guest.asked, Names)
         /\ Total(Waits, Names) = 0 <=> \A n \in Names : Waits[n] = 0
<1>1. \A n \in Names : Waits[n] = Waiting(n) /\ Waits[n] \in Nat
  BY WaitingIs DEF Waits
<1>2. \A n \in Names : guest.asked[n] \in Nat /\ guest.answered[n] \in Nat /\ guest.told[n] \in Nat
  BY DEF ReadInv, ReadType
<1> HIDE DEF Waits
<1>3. /\ Total(Waits, Names) \in Nat /\ \A n \in Names : Waits[n] <= Total(Waits, Names)
      /\ Total(Waits, Names) = 0 <=> \A n \in Names : Waits[n] = 0
  BY <1>1, SizeAssumption, TotalNat
<1> DEFINE asked == guest.asked
<1>4. \A n \in Names : asked[n] \in Nat
  BY <1>2
<1> HIDE DEF asked
<1>5. Total(asked, Names) \in Nat /\ \A n \in Names : asked[n] <= Total(asked, Names)
  BY <1>4, SizeAssumption, TotalNat
<1> QED BY <1>1, <1>2, <1>3, <1>5 DEF asked

\* Steps that leave the guest, its reads and their loads as they are.
LEMMA SameReads ==
  ASSUME Summed, host'.epoch = host.epoch, host'.fetching = host.fetching, guest' = guest,
         wd'.fetching = wd.fetching, \A n \in Names : loads'[n].readers = loads[n].readers,
         \A n \in Names : loads'[n].attempt <= Retries
  PROVE  Summed'
<1>1. \A n \in Names : Waiting(n)' = Waiting(n)
  BY DEF Waiting
<1>2. Waits' = Waits
  BY <1>1 DEF Waits
<1>3. host'.fetching = Total(Waits, Names)' /\ (wd'.fetching <=> host'.fetching > 0) /\ Total(guest.asked, Names)' <= MaxReads
  BY <1>2 DEF Summed
<1>4. \A n \in Names : guest'.answered[n] + Waiting(n)' + guest'.told[n] <= guest'.asked[n]
  BY <1>1 DEF Summed
<1>5. \A n \in Names : \A e \in Epochs : loads'[n].readers[e] <= MaxReads
  BY DEF Summed
<1> QED BY <1>3, <1>4, <1>5 DEF Summed

\* Another guest has asked for nothing yet.
LEMMA NewGuestSums ==
  ASSUME Typed, ReadInv, ReadInv', Typed', Summed, Restoring, host.epoch < MaxRestores,
         wd' = [wd EXCEPT !.fetching = FALSE]
  PROVE  Summed'
<1>1. /\ host'.epoch = host.epoch + 1 /\ host.epoch \in Epochs /\ host.epoch + 1 \in Epochs
      /\ guest' = NewGuest /\ loads' = loads /\ host'.fetching = 0
  BY HostIs, BoundsAssumption DEF Typed, Restoring, Epochs, HostType
<1>2. \A n \in Names : guest'.asked[n] = 0 /\ guest'.answered[n] = 0 /\ guest'.told[n] = 0
  BY <1>1 DEF NewGuest, NoReads
<1>3. \A n \in Names : Waiting(n)' = 0
  BY <1>1 DEF Waiting, ReadInv, OnlyPast, Epochs
<1>4. Total(Waits, Names)' = 0
  <2> DEFINE waits == Waits'
  <2>1. \A n \in Names : waits[n] = 0
    BY <1>3 DEF Waits
  <2> HIDE DEF waits
  <2>2. Total(waits, Names) = 0
    BY <2>1, SizeAssumption, TotalNat
  <2> QED BY <2>2 DEF waits, Total
<1>5. Total(guest.asked, Names)' = 0
  <2> DEFINE asked == guest'.asked
  <2>1. \A n \in Names : asked[n] = 0
    BY <1>2
  <2> HIDE DEF asked
  <2>2. Total(asked, Names) = 0
    BY <2>1, SizeAssumption, TotalNat
  <2> QED BY <2>2 DEF asked, Total
<1>6. ~wd'.fetching
  BY DEF Typed, WatchdogType
<1>7. host'.fetching = Total(Waits, Names)' /\ (wd'.fetching <=> host'.fetching > 0) /\ Total(guest.asked, Names)' <= MaxReads
  BY <1>1, <1>4, <1>5, <1>6, BoundsAssumption
<1>8. \A n \in Names : guest'.answered[n] + Waiting(n)' + guest'.told[n] <= guest'.asked[n]
  BY <1>2, <1>3
<1>9. \A n \in Names : loads'[n].attempt <= Retries /\ \A e \in Epochs : loads'[n].readers[e] <= MaxReads
  BY <1>1 DEF Summed
<1> QED BY <1>7, <1>8, <1>9 DEF Summed

\* A read more, of the guest and of the load.
LEMMA AskSums ==
  ASSUME Typed, ReadInv, Typed', ReadInv', Summed, NEW n \in Names, Ask(n)
  PROVE  Summed'
<1>1. host'.epoch = host.epoch /\ host'.fetching = host.fetching + 1 /\ host.epoch \in Epochs /\ wd'.fetching
  BY HostIs DEF Ask, Typed, HostType, WatchdogType
<1>2. guest \in ReadType /\ loads \in [Names -> LoadType]
  BY DEF ReadInv
<1>3. /\ guest'.answered = guest.answered /\ guest'.told = guest.told
      /\ \A m \in Names : guest'.asked[m] = IF m = n THEN guest.asked[m] + 1 ELSE guest.asked[m]
  BY <1>2 DEF Ask, ReadType
<1>4. \A m \in Names : /\ loads'[m].attempt = loads[m].attempt
                       /\ \A e \in Epochs : loads'[m].readers[e] = IF m = n /\ e = host.epoch THEN loads[m].readers[e] + 1 ELSE loads[m].readers[e]
  BY <1>1, <1>2 DEF Ask, LoadType
<1>5. \A m \in Names : Waiting(m)' = IF m = n THEN Waiting(m) + 1 ELSE Waiting(m)
  BY <1>1, <1>4 DEF Waiting
<1>6. \A m \in Names : Waits[m] = Waiting(m) /\ Waits[m] \in Nat /\ guest.asked[m] \in Nat
  BY WaitsAre
<1>7. Total(Waits, Names)' = Total(Waits, Names) + 1
  <2> DEFINE waits == Waits'
  <2>1. \A m \in Names : waits[m] = IF m = n THEN Waits[m] + 1 ELSE Waits[m]
    BY <1>5, <1>6 DEF Waits
  <2> HIDE DEF waits
  <2>2. Total(waits, Names) = Total(Waits, Names) - Waits[n] + waits[n]
    BY <1>6, <2>1, SizeAssumption, TotalChange
  <2>3. Total(Waits, Names) \in Nat
    BY WaitsAre
  <2>4. Total(waits, Names) = Total(Waits, Names) + 1
    BY <1>6, <2>1, <2>2, <2>3
  <2> QED BY <2>4 DEF waits, Total
<1>8. Total(guest.asked, Names)' = Total(guest.asked, Names) + 1
  <2> DEFINE asked == guest.asked
  <2> DEFINE more == guest'.asked
  <2>1. \A m \in Names : asked[m] \in Nat /\ more[m] = IF m = n THEN asked[m] + 1 ELSE asked[m]
    BY <1>3, <1>6
  <2> HIDE DEF asked, more
  <2>2. Total(more, Names) = Total(asked, Names) - asked[n] + more[n]
    BY <2>1, SizeAssumption, TotalChange
  <2>3. Total(asked, Names) \in Nat
    BY WaitsAre DEF asked
  <2>4. Total(more, Names) = Total(asked, Names) + 1
    BY <2>1, <2>2, <2>3
  <2> QED BY <2>4 DEF asked, more, Total
<1>9. Total(guest.asked, Names) \in Nat /\ Total(guest.asked, Names) < MaxReads
  <2>1. DOMAIN guest.asked = Names
    BY <1>2 DEF ReadType
  <2>2. SumFunction(guest.asked) = Total(guest.asked, Names)
    BY <2>1 DEF SumFunction, Total
  <2> QED BY <2>2, WaitsAre DEF Ask
<1>10. host.fetching = Total(Waits, Names) /\ Total(Waits, Names) \in Nat
  BY WaitsAre DEF Summed
<1>11. host'.fetching = Total(Waits, Names)' /\ (wd'.fetching <=> host'.fetching > 0) /\ Total(guest.asked, Names)' <= MaxReads
  BY <1>1, <1>7, <1>8, <1>9, <1>10, BoundsAssumption
<1>12. \A m \in Names : guest'.answered[m] + Waiting(m)' + guest'.told[m] <= guest'.asked[m]
  BY <1>2, <1>3, <1>5, WaitsAre DEF Summed
<1>13. \A m \in Names : \A e \in Epochs : loads'[m].readers[e] <= MaxReads
  <2> SUFFICES ASSUME NEW m \in Names, NEW e \in Epochs PROVE loads'[m].readers[e] <= MaxReads
    OBVIOUS
  <2>1. CASE ~(m = n /\ e = host.epoch)
    BY <1>4, <2>1 DEF Summed
  <2>2. CASE m = n /\ e = host.epoch
    <3>1. loads'[m].readers[e] = Waiting(n) + 1
      BY <1>1, <1>4, <2>2 DEF Waiting
    <3>2. guest.asked[n] <= Total(guest.asked, Names) /\ Waiting(n) <= guest.asked[n]
      BY WaitsAre DEF ReadInv, NoStrayAnswer
    <3>3. Waiting(n) \in Nat /\ guest.asked[n] \in Nat
      BY <1>6
    <3> QED BY <1>9, <3>1, <3>2, <3>3, BoundsAssumption
  <2> QED BY <2>1, <2>2
<1> QED BY <1>4, <1>11, <1>12, <1>13 DEF Summed

\* A load ends: its readers of the present guest have been answered, or the machine is gone, or they
\* were told.
LEMMA EndedSums ==
  ASSUME Typed, ReadInv, Typed', ReadInv', Summed, NEW n \in Names, LoadEnds(n), guest'.asked = guest.asked,
         \A m \in Names : guest'.answered[m] + Waiting(m)' + guest'.told[m] <= guest'.asked[m]
  PROVE  Summed'
<1>1. host'.epoch = host.epoch /\ \A m \in Names : Waiting(m) \in Nat /\ Waiting(m)' = IF m = n THEN 0 ELSE Waiting(m)
  BY EndedLoad
<1>2. \A m \in Names : Waits[m] = Waiting(m) /\ Waits[m] \in Nat
  BY WaitsAre
<1>3. Total(Waits, Names)' = Total(Waits, Names) - Waiting(n)
  <2> DEFINE waits == Waits'
  <2>1. \A m \in Names : waits[m] = IF m = n THEN 0 ELSE Waits[m]
    BY <1>1, <1>2 DEF Waits
  <2> HIDE DEF waits
  <2>2. Total(waits, Names) = Total(Waits, Names) - Waits[n] + waits[n]
    BY <1>2, <2>1, SizeAssumption, TotalChange
  <2>3. Total(Waits, Names) \in Nat
    BY WaitsAre
  <2>4. Total(waits, Names) = Total(Waits, Names) - Waiting(n)
    BY <1>2, <2>1, <2>2, <2>3
  <2> QED BY <2>4 DEF waits, Total
<1>4. Total(Waits, Names) \in Nat /\ host.fetching = Total(Waits, Names) /\ Waiting(n) \in Nat /\ Waiting(n) <= Total(Waits, Names)
  BY <1>2, WaitsAre DEF Summed
<1>5. host'.fetching = host.fetching - Waiting(n) /\ host.fetching \in Int
  BY HostIs DEF LoadEnds, Settled, Typed, HostType
<1>6. wd'.fetching = IF Waiting(n) > 0 /\ host'.fetching = 0 THEN FALSE ELSE wd.fetching
  BY <1>5 DEF LoadEnds, Settled, Typed, WatchdogType
<1>7. wd.fetching <=> host.fetching > 0
  BY DEF Summed
<1>8. wd'.fetching <=> host'.fetching > 0
  BY <1>4, <1>5, <1>6, <1>7
<1>9. host'.fetching = Total(Waits, Names)' /\ Total(guest.asked, Names)' <= MaxReads
  BY <1>3, <1>4, <1>5 DEF Summed
<1>10. \A m \in Names : loads'[m].attempt <= Retries /\ \A e \in Epochs : loads'[m].readers[e] <= MaxReads
  <2>1. \A m \in Names : loads'[m] = IF m = n THEN NoLoad ELSE loads[m]
    BY DEF LoadEnds, ReadInv
  <2>2. NoLoad.attempt = 0 /\ \A e \in Epochs : NoLoad.readers[e] = 0
    BY DEF NoLoad
  <2> QED BY <2>1, <2>2, BoundsAssumption DEF Summed
<1> QED BY <1>8, <1>9, <1>10 DEF Summed

LEMMA UnheardSums ==
  ASSUME Typed, ReadInv, Typed', ReadInv', Summed, NEW n \in Names, LoadEnds(n), guest' = guest
  PROVE  Summed'
<1>1. \A m \in Names : Waiting(m) \in Nat /\ Waiting(m)' = IF m = n THEN 0 ELSE Waiting(m)
  BY EndedLoad
<1>2. \A m \in Names : guest.asked[m] \in Nat /\ guest.answered[m] \in Nat /\ guest.told[m] \in Nat
  BY WaitsAre
<1>3. \A m \in Names : guest'.answered[m] + Waiting(m)' + guest'.told[m] <= guest'.asked[m]
  BY <1>1, <1>2 DEF Summed
<1> QED BY <1>3, EndedSums

LEMMA AnsweredSums ==
  ASSUME Typed, ReadInv, Typed', ReadInv', Summed, NEW n \in Names, LoadEnds(n),
         guest' = [guest EXCEPT !.answered[n] = @ + Waiting(n)]
  PROVE  Summed'
<1>1. \A m \in Names : Waiting(m) \in Nat /\ Waiting(m)' = IF m = n THEN 0 ELSE Waiting(m)
  BY EndedLoad
<1>2. \A m \in Names : guest.asked[m] \in Nat /\ guest.answered[m] \in Nat /\ guest.told[m] \in Nat
  BY WaitsAre
<1>3. /\ guest'.asked = guest.asked /\ guest'.told = guest.told
      /\ \A m \in Names : guest'.answered[m] = IF m = n THEN guest.answered[m] + Waiting(m) ELSE guest.answered[m]
  BY DEF ReadInv, ReadType
<1>4. \A m \in Names : guest'.answered[m] + Waiting(m)' + guest'.told[m] <= guest'.asked[m]
  BY <1>1, <1>2, <1>3 DEF Summed
<1> QED BY <1>3, <1>4, EndedSums

LEMMA FailedSums ==
  ASSUME Typed, ReadInv, Typed', ReadInv', Summed, NEW n \in Names, LoadEnds(n), Failed(n)
  PROVE  Summed'
<1>1. CASE host.destroyed \/ Waiting(n) = 0
  BY <1>1, UnheardSums DEF Failed
<1>2. CASE ~host.destroyed /\ Waiting(n) # 0
  <2>1. \A m \in Names : Waiting(m) \in Nat /\ Waiting(m)' = IF m = n THEN 0 ELSE Waiting(m)
    BY EndedLoad
  <2>2. \A m \in Names : guest.asked[m] \in Nat /\ guest.answered[m] \in Nat /\ guest.told[m] \in Nat
    BY WaitsAre
  <2>3. /\ guest'.asked = guest.asked /\ guest'.answered = guest.answered
        /\ \A m \in Names : guest'.told[m] = IF m = n THEN guest.told[m] + 1 ELSE guest.told[m]
    BY <1>2 DEF Failed, ReadInv, ReadType
  <2>4. \A m \in Names : guest'.answered[m] + Waiting(m)' + guest'.told[m] <= guest'.asked[m]
    BY <1>2, <2>1, <2>2, <2>3 DEF Summed
  <2> QED BY <2>3, <2>4, EndedSums
<1> QED BY <1>1, <1>2

\* What a step makes of the watchdog, other than a sample, a rearmed deadline, and the fetches it hears of.
LEMMA WatchdogSteps ==
  ASSUME [Next]_vars
  PROVE  \/ Sample \/ Arm \/ Kick \/ wd' = wd
         \/ /\ Restoring \/ \E n \in Names : Ask(n) \/ LoadEnds(n)
            /\ wd' = [wd EXCEPT !.fetching = FALSE] \/ wd' = [wd EXCEPT !.fetching = TRUE]
         \/ wd' = Disarmed(wd)
         \/ \E reason \in {"cpu", "hidden"} : wd' = Held(wd, reason) \/ wd' = Released(wd, reason)
<1>1. CASE \E n \in Names : Ask(n) \/ LoadStep(n) \/ KeepFetched(n) \/ Close(n)
  BY <1>1 DEF Ask, LoadStep, CacheRead, Fetched, FetchFails, RetryFetch, FetchRefused, LoadEnds, Settled, KeepFetched, Close
<1>2. CASE RestoreSnapshot \/ Stopped \/ Restored \/ Destroy \/ Destroyed \/ VisibilityChanges
  BY <1>2 DEF RestoreSnapshot, Stopped, Restored, Destroy, Destroyed, VisibilityChanges
<1>3. CASE Resume \/ Pause \/ VisibilityApplied
  <2> SUFFICES ASSUME NEW h, ApplyCpu(h) PROVE wd' = wd \/ wd' = Held(wd, "cpu") \/ wd' = Released(wd, "cpu")
    BY <1>3 DEF Resume, Pause, VisibilityApplied
  <2> QED BY DEF ApplyCpu
<1>4. CASE Disarm
  BY <1>4 DEF Disarm
<1>5. CASE UNCHANGED vars
  BY <1>5 DEF vars
<1> QED BY <1>1, <1>2, <1>3, <1>4, <1>5 DEF Next

LEMMA RangeKeeps == ASSUME Typed, InRange(wd), [Next]_vars PROVE InRange(wd)'
<1>1. wd \in WatchdogType /\ wd.remaining \in Int /\ wd.held \in Int /\ wd.spent \in Int /\ wd.silent \in Int
  BY DEF Typed, WatchdogType
<1>2. SUFFICES InRange(wd')
  BY DEF InRange
<1>3. CASE wd' = wd \/ wd' = [wd EXCEPT !.fetching = FALSE] \/ wd' = [wd EXCEPT !.fetching = TRUE]
  BY <1>1, <1>3 DEF InRange, WatchdogType
<1>4. CASE wd' = Disarmed(wd)
  BY <1>1, <1>4, DisarmedIs, BoundsAssumption DEF InRange
<1>5. CASE \E reason \in {"cpu", "hidden"} : wd' = Held(wd, reason) \/ wd' = Released(wd, reason)
  <2>1. PICK reason \in {"cpu", "hidden"} : wd' = Held(wd, reason) \/ wd' = Released(wd, reason)
    BY <1>5
  <2>2. CASE wd' = Held(wd, reason)
    BY <1>1, <2>2, HeldIs DEF InRange
  <2>3. CASE wd' = Released(wd, reason)
    BY <1>1, <2>3, ReleasedIs, BoundsAssumption DEF InRange
  <2> QED BY <2>1, <2>2, <2>3
<1>6. CASE Arm \/ Kick
  <2> DEFINE a == Rearmed(wd)
  <2>1. a \in WatchdogType /\ InRange(a)
    BY <1>1, RearmedIs, BoundsAssumption DEF InRange
  <2>2. wd' = a \/ wd' = [a EXCEPT !.expired = FALSE]
    BY <1>6 DEF Arm, Kick
  <2> HIDE DEF a
  <2> QED BY <2>1, <2>2 DEF InRange, WatchdogType
<1>7. CASE Sample
  <2>1. CASE wd' = [wd EXCEPT !.held = @ + 1, !.silent = @ + 1] /\ wd.held < Cap
    <3>1. wd'.remaining = wd.remaining /\ wd'.held = wd.held + 1 /\ wd'.spent = wd.spent /\ wd'.silent = wd.silent + 1
      BY <1>1, <2>1 DEF WatchdogType
    <3> QED BY <2>1, <3>1, BoundsAssumption DEF InRange
  <2>2. CASE wd' = [wd EXCEPT !.remaining = @ - 1, !.spent = @ + 1, !.silent = @ + 1] /\ wd.remaining > 1
    <3>1. wd'.remaining = wd.remaining - 1 /\ wd'.held = wd.held /\ wd'.spent = wd.spent + 1 /\ wd'.silent = wd.silent + 1
      BY <1>1, <2>2 DEF WatchdogType
    <3> QED BY <2>2, <3>1, BoundsAssumption DEF InRange
  <2>3. CASE wd' = [Disarmed(wd) EXCEPT !.spent = wd.spent + 1, !.expired = TRUE]
    <3> DEFINE a == Disarmed(wd)
    <3>1. a \in WatchdogType /\ a.remaining = 0 /\ a.held = 0 /\ a.silent = 0
      BY <1>1, DisarmedIs
    <3>2. wd' = [a EXCEPT !.spent = wd.spent + 1, !.expired = TRUE]
      BY <2>3
    <3> HIDE DEF a
    <3>3. wd'.remaining = 0 /\ wd'.held = 0 /\ wd'.silent = 0 /\ wd'.spent = wd.spent + 1
      BY <3>1, <3>2 DEF WatchdogType
    <3> QED BY <3>3, BoundsAssumption DEF InRange
  <2> QED BY <1>7, <2>1, <2>2, <2>3 DEF Sample, StepOf, FetchExcused
<1> QED BY <1>3, <1>4, <1>5, <1>6, <1>7, WatchdogSteps

\* Whether the watchdog knows of a fetch changes with the reads alone.
LEMMA FetchingStays ==
  ASSUME Typed, [Next]_vars
  PROVE  wd'.fetching = wd.fetching \/ Restoring \/ \E n \in Names : Ask(n) \/ LoadEnds(n)
<1>1. wd \in WatchdogType
  BY DEF Typed
<1>2. CASE wd' = Disarmed(wd)
  BY <1>1, <1>2, DisarmedIs
<1>3. CASE \E reason \in {"cpu", "hidden"} : wd' = Held(wd, reason) \/ wd' = Released(wd, reason)
  BY <1>1, <1>3, HeldIs, ReleasedIs
<1>4. CASE Arm \/ Kick
  <2> DEFINE a == Rearmed(wd)
  <2>1. a \in WatchdogType /\ a.fetching = wd.fetching
    BY <1>1, RearmedIs
  <2>2. wd' = a \/ wd' = [a EXCEPT !.expired = FALSE]
    BY <1>4 DEF Arm, Kick
  <2> HIDE DEF a
  <2> QED BY <2>1, <2>2 DEF WatchdogType
<1>5. CASE Sample
  <2>1. CASE wd' = [wd EXCEPT !.held = @ + 1, !.silent = @ + 1]
    BY <1>1, <2>1 DEF WatchdogType
  <2>2. CASE wd' = [wd EXCEPT !.remaining = @ - 1, !.spent = @ + 1, !.silent = @ + 1]
    BY <1>1, <2>2 DEF WatchdogType
  <2>3. CASE wd' = [Disarmed(wd) EXCEPT !.spent = wd.spent + 1, !.expired = TRUE]
    <3> DEFINE a == Disarmed(wd)
    <3>1. a \in WatchdogType /\ a.fetching = wd.fetching
      BY <1>1, DisarmedIs
    <3>2. wd' = [a EXCEPT !.spent = wd.spent + 1, !.expired = TRUE]
      BY <2>3
    <3> HIDE DEF a
    <3> QED BY <3>1, <3>2 DEF WatchdogType
  <2> QED BY <1>5, <2>1, <2>2, <2>3 DEF Sample, StepOf
<1> QED BY <1>2, <1>3, <1>4, <1>5, WatchdogSteps

---------------------------------------------------------------------------
(* What is kept of closed files *)

\* A file closed again moves to the end.
LEMMA RemovedIs ==
  ASSUME NEW s \in Seq(Names), IsInjective(s), NEW n, NEW t, t = RemoveFirst(s, n)
  PROVE  t \in Seq(Names) /\ IsInjective(t) /\ ToSet(t) = ToSet(s) \ {n}
<1>1. CASE ~ \E i \in 1 .. Len(s) : s[i] = n
  BY <1>1 DEF RemoveFirst, ToSet
<1>2. CASE \E i \in 1 .. Len(s) : s[i] = n
  <2>1. PICK i \in 1 .. Len(s) : s[i] = n
    BY <1>2
  <2>2. {j \in 1 .. Len(s) : s[j] = n} = {i}
    BY <2>1 DEF IsInjective
  <2>3. SelectInSeq(s, LAMBDA v : v = n) = i
    <3>1. Min({i}) = i
      BY <2>1 DEF Min
    <3> QED BY <2>2, <3>1 DEF SelectInSeq
  <2>4. t = SubSeq(s, 1, i - 1) \o SubSeq(s, i + 1, Len(s))
    BY <1>2, <2>3 DEF RemoveFirst, RemoveAt
  <2> DEFINE a == SubSeq(s, 1, i - 1)
  <2> DEFINE b == SubSeq(s, i + 1, Len(s))
  <2>a. a \in Seq(Names) /\ Len(a) = i - 1 /\ \A k \in 1 .. Len(a) : a[k] = s[k]
    BY <2>1, SubSeqProperties
  <2>b. b \in Seq(Names) /\ Len(b) = Len(s) - i /\ \A k \in 1 .. Len(b) : b[k] = s[i + k]
    BY <2>1, SubSeqProperties
  <2> HIDE DEF a, b
  <2>c. /\ t \in Seq(Names) /\ Len(t) = Len(a) + Len(b)
        /\ \A k \in 1 .. Len(t) : t[k] = IF k <= Len(a) THEN a[k] ELSE b[k - Len(a)]
    <3>1. t = a \o b
      BY <2>4 DEF a, b
    <3>2. a \in Seq(Names) /\ b \in Seq(Names)
      BY <2>a, <2>b
    <3> QED BY <3>1, <3>2
  <2>5. /\ t \in Seq(Names) /\ Len(t) = Len(s) - 1 /\ Len(s) \in Nat /\ DOMAIN t = 1 .. Len(t) /\ DOMAIN s = 1 .. Len(s)
        /\ \A k \in 1 .. Len(t) : t[k] = IF k < i THEN s[k] ELSE s[k + 1]
    <3>1. Len(s) \in Nat /\ Len(t) = Len(s) - 1
      BY <2>1, <2>a, <2>b, <2>c
    <3>2. ASSUME NEW k \in 1 .. Len(t) PROVE t[k] = IF k < i THEN s[k] ELSE s[k + 1]
      <4>1. CASE k < i
        BY <2>1, <2>a, <2>c, <3>1, <4>1
      <4>2. CASE ~(k < i)
        <5>1. k - Len(a) \in 1 .. Len(b) /\ i + (k - Len(a)) = k + 1 /\ ~(k <= Len(a))
          BY <2>1, <2>a, <2>b, <2>c, <3>1, <4>2
        <5> QED BY <2>b, <2>c, <4>2, <5>1
      <4> QED BY <4>1, <4>2
    <3> QED BY <2>c, <3>1, <3>2
  <2>6. IsInjective(t)
    <3> SUFFICES ASSUME NEW k \in 1 .. Len(t), NEW m \in 1 .. Len(t), t[k] = t[m] PROVE k = m
      BY <2>5 DEF IsInjective
    <3> DEFINE K == IF k < i THEN k ELSE k + 1
    <3> DEFINE M == IF m < i THEN m ELSE m + 1
    <3>1. K \in 1 .. Len(s) /\ M \in 1 .. Len(s) /\ t[k] = s[K] /\ t[m] = s[M]
      BY <2>1, <2>5
    <3>2. K = M
      BY <2>5, <3>1 DEF IsInjective
    <3> QED BY <2>1, <2>5, <3>2
  <2>7. ToSet(t) \subseteq ToSet(s) \ {n}
    <3> SUFFICES ASSUME NEW k \in 1 .. Len(t) PROVE t[k] \in ToSet(s) \ {n}
      BY <2>5 DEF ToSet
    <3> DEFINE K == IF k < i THEN k ELSE k + 1
    <3>1. K \in 1 .. Len(s) /\ t[k] = s[K] /\ K # i
      BY <2>1, <2>5
    <3>2. s[K] # n
      BY <2>1, <2>5, <3>1 DEF IsInjective
    <3> QED BY <2>5, <3>1, <3>2 DEF ToSet
  <2>8. ToSet(s) \ {n} \subseteq ToSet(t)
    <3> SUFFICES ASSUME NEW k \in 1 .. Len(s), s[k] # n PROVE s[k] \in ToSet(t)
      BY DEF ToSet
    <3>1. CASE k < i
      <4>1. k \in 1 .. Len(t) /\ t[k] = s[k]
        BY <2>1, <2>5, <3>1
      <4> QED BY <2>5, <4>1 DEF ToSet
    <3>2. CASE k > i
      <4>1. k - 1 \in 1 .. Len(t) /\ t[k - 1] = s[k]
        BY <2>1, <2>5, <3>2
      <4> QED BY <2>5, <4>1 DEF ToSet
    <3> QED BY <2>1, <3>1, <3>2
  <2> QED BY <2>5, <2>6, <2>7, <2>8
<1> QED BY <1>1, <1>2

LEMMA KeptIs ==
  ASSUME NEW f, AddedUp(f), NEW n \in f.data, NEW x, x = Keep(f, n)
  PROVE  AddedUp(x) /\ x.copies = f.copies
<1>1. /\ f \in FileType /\ f.kept \in Seq(Names) /\ f.keptBytes \in Int /\ f.data \subseteq Names /\ n \in Names
      /\ IsInjective(f.kept) /\ ToSet(f.kept) \subseteq f.data /\ f.keptBytes = Total(Size, ToSet(f.kept))
  BY DEF AddedUp, FileType
<1> DEFINE rest == RemoveFirst(f.kept, n)
<1> DEFINE kept == Append(rest, n)
<1> DEFINE bytes == IF Contains(f.kept, n) THEN f.keptBytes ELSE f.keptBytes + Size[n]
<1>2. rest \in Seq(Names) /\ IsInjective(rest) /\ ToSet(rest) = ToSet(f.kept) \ {n}
  BY <1>1, RemovedIs
<1> HIDE DEF rest
<1>3. kept \in Seq(Names) /\ IsInjective(kept) /\ ToSet(kept) = ToSet(f.kept) \cup {n}
  <2>1. kept \in Seq(Names) /\ Len(kept) = Len(rest) + 1 /\ \A k \in 1 .. Len(kept) : kept[k] = IF k <= Len(rest) THEN rest[k] ELSE n
    BY <1>1, <1>2
  <2> HIDE DEF kept
  <2>2. \A k \in 1 .. Len(rest) : rest[k] # n
    BY <1>2 DEF ToSet
  <2>3. IsInjective(kept)
    BY <1>2, <2>1, <2>2 DEF IsInjective
  <2>4. ToSet(kept) = ToSet(rest) \cup {n}
    <3>1. kept[Len(rest) + 1] = n /\ Len(rest) + 1 \in 1 .. Len(kept) /\ \A k \in 1 .. Len(rest) : k \in 1 .. Len(kept) /\ kept[k] = rest[k]
      BY <1>2, <2>1
    <3>2. ToSet(kept) \subseteq ToSet(rest) \cup {n}
      BY <1>2, <2>1 DEF ToSet
    <3>3. ToSet(rest) \cup {n} \subseteq ToSet(kept)
      BY <1>2, <2>1, <3>1 DEF ToSet
    <3> QED BY <3>2, <3>3
  <2> QED BY <1>2, <2>1, <2>3, <2>4
<1>4. Size[n] \in Nat /\ ToSet(f.kept) \subseteq Names /\ IsFiniteSet(ToSet(f.kept))
  BY <1>1, SizeIs
<1>5. bytes \in Int /\ bytes = Total(Size, ToSet(kept))
  <2>1. CASE n \in ToSet(f.kept)
    <3>1. Contains(f.kept, n)
      BY <1>1, <2>1 DEF Contains, ToSet
    <3>2. ToSet(kept) = ToSet(f.kept)
      BY <1>3, <2>1
    <3> QED BY <1>1, <3>1, <3>2
  <2>2. CASE n \notin ToSet(f.kept)
    <3>1. ~Contains(f.kept, n)
      BY <1>1, <2>2 DEF Contains, ToSet
    <3>2. \A y \in ToSet(f.kept) \cup {n} : Size[y] \in Int
      BY <1>1, SizeIs
    <3>3. Total(Size, ToSet(f.kept) \cup {n}) = Total(Size, ToSet(f.kept)) + Size[n]
      BY <1>4, <2>2, <3>2, TotalAdd
    <3> QED BY <1>1, <1>3, <1>4, <3>1, <3>3
  <2> QED BY <2>1, <2>2
<1>6. x = [f EXCEPT !.kept = kept, !.keptBytes = bytes]
  BY <1>1, Zenon DEF Keep, kept, rest, bytes
<1> HIDE DEF kept, bytes
<1>7. x \in FileType /\ x.kept = kept /\ x.keptBytes = bytes /\ x.data = f.data /\ x.copies = f.copies
  BY <1>1, <1>3, <1>5, <1>6 DEF FileType
<1> QED BY <1>1, <1>3, <1>5, <1>7 DEF AddedUp

\* The oldest go, until the rest fit: there is always such a rest, be it none.
LEMMA EvictedIs ==
  ASSUME NEW f, AddedUp(f), NEW x, x = Evict(f)
  PROVE  AddedUp(x) /\ x.keptBytes <= KeepBytes /\ x.copies = f.copies
<1> DEFINE s == f.kept
<1> DEFINE top == Len(s) + 1
<1> DEFINE Gone(i) == {s[k] : k \in 1 .. (i - 1)}
<1> DEFINE BytesFrom(i) == f.keptBytes - SumFunctionOnSet(Size, Gone(i))
<1> DEFINE Fits(i) == BytesFrom(i) <= KeepBytes \/ i = top
<1> DEFINE IsFirst(i) == Fits(i) /\ \A j \in 1 .. (i - 1) : BytesFrom(j) > KeepBytes
<1>1. /\ f \in FileType /\ s \in Seq(Names) /\ f.keptBytes \in Int /\ f.data \subseteq Names
      /\ IsInjective(s) /\ ToSet(s) \subseteq f.data /\ f.keptBytes = Total(Size, ToSet(s))
      /\ top \in Nat /\ Len(s) \in Nat
  BY DEF AddedUp, FileType
<1>2. ASSUME NEW i \in 1 .. top
      PROVE  BytesFrom(i) = Total(Size, ToSet(s) \ Gone(i)) /\ BytesFrom(i) \in Int
  <2>1. Gone(i) \subseteq ToSet(s) /\ ToSet(s) \subseteq Names
    BY <1>1 DEF ToSet
  <2>2. IsFiniteSet(ToSet(s)) /\ IsFiniteSet(Gone(i)) /\ IsFiniteSet(ToSet(s) \ Gone(i)) /\ \A n \in ToSet(s) : Size[n] \in Int
    BY <1>1, <2>1, SizeIs
  <2> DEFINE gone == Gone(i)
  <2> DEFINE all == ToSet(s)
  <2>3. gone \subseteq all /\ IsFiniteSet(all) /\ IsFiniteSet(gone) /\ IsFiniteSet(all \ gone) /\ \A n \in all : Size[n] \in Int
    BY <2>1, <2>2
  <2>4. f.keptBytes = Total(Size, all) /\ BytesFrom(i) = f.keptBytes - Total(Size, gone)
    BY <1>1 DEF Total
  <2> HIDE DEF gone, all, Gone, BytesFrom
  <2>5. Total(Size, all) = Total(Size, gone) + Total(Size, all \ gone)
    BY <2>3, TotalSplit
  <2>6. Total(Size, gone) \in Int /\ Total(Size, all \ gone) \in Int
    BY <2>3, TotalInt
  <2>7. BytesFrom(i) = Total(Size, all \ gone) /\ BytesFrom(i) \in Int
    BY <2>4, <2>5, <2>6
  <2> QED BY <2>7 DEF gone, all
<1>3. BytesFrom(top) <= KeepBytes
  <2>1. ToSet(s) \ Gone(top) = {}
    <3>1. DOMAIN s = 1 .. (top - 1)
      BY <1>1
    <3> QED BY <3>1 DEF ToSet
  <2>2. top \in 1 .. top
    BY <1>1
  <2>3. BytesFrom(top) = Total(Size, {})
    BY <1>2, <2>1, <2>2
  <2> QED BY <2>3, TotalEmpty, SizeAssumption
<1>4. \E i \in 1 .. top : IsFirst(i)
  <2> DEFINE N == {i \in 1 .. top : Fits(i)}
  <2>1. N \subseteq Nat /\ N # {}
    <3>1. top \in 1 .. top /\ Fits(top)
      BY <1>1
    <3>2. 1 .. top \subseteq Nat
      OBVIOUS
    <3> HIDE DEF Fits
    <3> QED BY <3>1, <3>2
  <2> HIDE DEF N
  <2>2. PICK i \in N : \A m \in N : i <= m
    BY <2>1, LeastNumber
  <2>3. i \in 1 .. top /\ Fits(i)
    BY <2>2 DEF N
  <2>4. ASSUME NEW j \in 1 .. (i - 1) PROVE BytesFrom(j) > KeepBytes
    <3>1. j \in 1 .. top /\ j \notin N
      BY <1>1, <2>2, <2>3
    <3>2. BytesFrom(j) \in Int /\ ~(BytesFrom(j) <= KeepBytes)
      BY <1>2, <3>1 DEF N
    <3> HIDE DEF BytesFrom
    <3> QED BY <3>2, SizeAssumption
  <2> QED BY <2>3, <2>4
<1> DEFINE first == CHOOSE i \in 1 .. top : IsFirst(i)
<1>5. first \in 1 .. top /\ IsFirst(first)
  BY <1>4
<1>6. x = [f EXCEPT !.kept = SubSeq(@, first, Len(@)), !.keptBytes = BytesFrom(first), !.data = @ \ Gone(first)]
  BY Zenon DEF Evict
<1> HIDE DEF first
<1>7. BytesFrom(first) <= KeepBytes
  BY <1>3, <1>5
<1>8. BytesFrom(first) \in Int /\ BytesFrom(first) = Total(Size, ToSet(s) \ Gone(first))
  BY <1>2, <1>5
<1> DEFINE rest == SubSeq(s, first, Len(s))
<1>9. /\ rest \in Seq(Names) /\ IsInjective(rest) /\ ToSet(rest) = ToSet(s) \ Gone(first)
  <2>1. rest \in Seq(Names) /\ Len(rest) = Len(s) - first + 1 /\ \A k \in 1 .. Len(rest) : rest[k] = s[first + k - 1]
    BY <1>1, <1>5
  <2> HIDE DEF rest
  <2>2. \A k \in 1 .. Len(rest) : first + k - 1 \in 1 .. Len(s) /\ first + k - 1 \notin 1 .. (first - 1)
    BY <1>1, <1>5, <2>1
  <2>a. DOMAIN rest = 1 .. Len(rest) /\ DOMAIN s = 1 .. Len(s) /\ first \in Nat
    BY <1>1, <1>5, <2>1
  <2>3. IsInjective(rest)
    <3> SUFFICES ASSUME NEW k \in 1 .. Len(rest), NEW m \in 1 .. Len(rest), rest[k] = rest[m] PROVE k = m
      BY <2>a DEF IsInjective
    <3>1. s[first + k - 1] = s[first + m - 1] /\ first + k - 1 \in DOMAIN s /\ first + m - 1 \in DOMAIN s
      BY <2>1, <2>2, <2>a
    <3>2. first + k - 1 = first + m - 1
      BY <1>1, <3>1 DEF IsInjective
    <3> QED BY <2>a, <3>2
  <2>4. ToSet(rest) \subseteq ToSet(s) \ Gone(first)
    <3> SUFFICES ASSUME NEW k \in 1 .. Len(rest) PROVE rest[k] \in ToSet(s) \ Gone(first)
      BY <2>1 DEF ToSet
    <3>1. rest[k] \in ToSet(s)
      <4>1. first + k - 1 \in DOMAIN s /\ rest[k] = s[first + k - 1]
        BY <2>1, <2>2, <2>a
      <4> QED BY <4>1 DEF ToSet
    <3>2. ASSUME NEW j \in 1 .. (first - 1), s[j] = rest[k] PROVE FALSE
      <4>1. j \in 1 .. Len(s) /\ j # first + k - 1 /\ s[j] = s[first + k - 1]
        <5>1. first \in Nat /\ first <= Len(s) + 1 /\ Len(s) \in Nat
          BY <1>1, <1>5
        <5>2. j \in Nat /\ 1 <= j /\ j < first
          BY <5>1
        <5>3. first + k - 1 \notin 1 .. (first - 1) /\ j \in 1 .. (first - 1)
          BY <2>2
        <5>4. j \in 1 .. Len(s)
          BY <5>1, <5>2
        <5>5. j # first + k - 1
          BY <5>3
        <5>6. s[j] = s[first + k - 1]
          BY <2>1, <3>2
        <5> QED BY <5>4, <5>5, <5>6
      <4> QED BY <1>1, <2>2, <4>1 DEF IsInjective
    <3> QED BY <3>1, <3>2
  <2>5. ToSet(s) \ Gone(first) \subseteq ToSet(rest)
    <3> SUFFICES ASSUME NEW j \in 1 .. Len(s), s[j] \notin Gone(first) PROVE s[j] \in ToSet(rest)
      BY <1>1 DEF ToSet
    <3>1. j >= first
      BY <1>1, <1>5
    <3>2. j - first + 1 \in 1 .. Len(rest) /\ rest[j - first + 1] = s[j]
      BY <1>1, <1>5, <2>1, <3>1
    <3> QED BY <2>1, <3>2 DEF ToSet
  <2> QED BY <2>1, <2>3, <2>4, <2>5
<1> DEFINE data == f.data \ Gone(first)
<1>10. data \subseteq Names /\ ToSet(rest) \subseteq data
  BY <1>1, <1>9
<1> DEFINE bytes == BytesFrom(first)
<1>11. bytes \in Int /\ bytes = Total(Size, ToSet(rest)) /\ bytes <= KeepBytes
  BY <1>7, <1>8, <1>9
<1>12. x = [f EXCEPT !.kept = rest, !.keptBytes = bytes, !.data = data]
  BY <1>6
<1> HIDE DEF rest, data, bytes
<1>13. /\ x \in FileType /\ x.kept = rest /\ x.keptBytes = bytes /\ x.data = data /\ x.copies = f.copies
  BY <1>1, <1>9, <1>10, <1>11, <1>12 DEF FileType
<1> QED BY <1>9, <1>10, <1>11, <1>13 DEF AddedUp

---------------------------------------------------------------------------
(* Every step *)

\* The machine's steps read and keep no file.
LEMMA MachineSums ==
  ASSUME AllInv, Inv', [Next]_vars,
         RestoreSnapshot \/ Stopped \/ Restored \/ Resume \/ Pause \/ VisibilityChanges \/ VisibilityApplied
         \/ Destroy \/ Destroyed \/ Sample \/ Arm \/ Kick \/ Disarm
  PROVE  Summed' /\ files' = files
<1>1. Typed /\ ReadInv /\ Typed' /\ ReadInv' /\ Summed /\ host \in HostType /\ Clock
  BY DEF AllInv, SumInv, Inv, WatchInv, Typed
<1>2. CASE Restoring /\ host.epoch < MaxRestores /\ wd' = [wd EXCEPT !.fetching = FALSE]
  BY <1>1, <1>2, NewGuestSums DEF Restoring
<1>3. CASE UNCHANGED <<guest, loads, files>> /\ host'.epoch = host.epoch /\ host'.fetching = host.fetching
  <2>1. \A n \in Names : loads'[n].readers = loads[n].readers /\ loads'[n].attempt <= Retries
    BY <1>1, <1>3 DEF Summed
  <2>2. ~Restoring
    <3> SUFFICES ASSUME Restoring PROVE FALSE
      OBVIOUS
    <3>1. host'.epoch = host.epoch + 1
      BY <1>1 DEF Restoring, HostType
    <3>2. host.epoch \in Int
      BY <1>1, HostIs DEF Epochs
    <3> QED BY <1>3, <3>1, <3>2
  <2>3. ASSUME NEW n \in Names PROVE ~Ask(n)
    BY <1>1, <1>3, HostIs DEF Ask, HostType
  <2>4. ASSUME NEW n \in Names, LoadEnds(n) PROVE wd'.fetching = wd.fetching
    <3>1. host'.fetching = host.fetching - Waiting(n)
      BY <1>1, <2>4 DEF LoadEnds, Settled, HostType
    <3>2. Waiting(n) = 0
      BY <1>1, <1>3, <3>1, WaitingIs, HostIs
    <3> QED BY <2>4, <3>2 DEF LoadEnds, Settled
  <2>5. wd'.fetching = wd.fetching
    BY <1>1, <2>2, <2>3, <2>4, FetchingStays
  <2> QED BY <1>1, <1>3, <2>1, <2>5, SameReads
<1>4. CASE RestoreSnapshot
  <2>1. CASE ~host.cpu
    BY <1>2, <1>4, <2>1 DEF RestoreSnapshot
  <2>2. CASE host.cpu
    BY <1>1, <1>3, <1>4, <2>2 DEF RestoreSnapshot, HostType
  <2> QED BY <2>1, <2>2
<1>5. CASE Stopped
  <2>1. CASE host.op = "stopping"
    BY <1>1, <1>2, <1>5, <2>1 DEF Stopped, Clock
  <2>2. CASE host.op = "halting"
    BY <1>1, <1>3, <1>5, <2>2 DEF Stopped, HostType
  <2> QED BY <1>5, <2>1, <2>2 DEF Stopped
<1>6. CASE Restored
  BY <1>1, <1>3, <1>6 DEF Restored, HostType
<1>7. CASE Resume \/ Pause \/ VisibilityApplied
  BY <1>1, <1>3, <1>7 DEF Resume, Pause, VisibilityApplied, ApplyCpu, HostType
<1>8. CASE VisibilityChanges \/ Destroy \/ Destroyed
  BY <1>1, <1>3, <1>8 DEF VisibilityChanges, Destroy, Destroyed, HostType
<1>9. CASE Sample \/ Arm \/ Kick \/ Disarm
  BY <1>1, <1>3, <1>9 DEF Sample, Arm, Kick, Disarm
<1> QED BY <1>4, <1>5, <1>6, <1>7, <1>8, <1>9

\* A load ends or goes on.
LEMMA LoadSums ==
  ASSUME AllInv, Inv', NEW n \in Names, LoadStep(n)
  PROVE  Summed' /\ AddedUp(files)' /\ files'.keptBytes <= KeepBytes
<1>1. Typed /\ ReadInv /\ Typed' /\ ReadInv' /\ Summed /\ AddedUp(files) /\ files.keptBytes <= KeepBytes
  BY DEF AllInv, SumInv, Inv, WatchInv
<1>2. files \in FileType /\ loads \in [Names -> LoadType]
  BY <1>1 DEF AddedUp, ReadInv
<1>3. SUFFICES Summed' /\ AddedUp(files') /\ files'.keptBytes <= KeepBytes
  BY DEF AddedUp
<1>4. ASSUME loads' = [loads EXCEPT ![n].at = "fetch"], UNCHANGED <<host, guest, wd>>
      PROVE  Summed'
  BY <1>1, <1>2, <1>4, SameReads DEF LoadType, Summed
<1>5. ASSUME loads' = [loads EXCEPT ![n].at = "wait", ![n].attempt = @ + 1], loads[n].attempt < Retries,
             UNCHANGED <<host, guest, wd>>
      PROVE  Summed'
  <2>1. /\ \A m \in Names : loads'[m].readers = loads[m].readers
        /\ \A m \in Names : loads'[m].attempt = IF m = n THEN loads[m].attempt + 1 ELSE loads[m].attempt
    BY <1>2, <1>5 DEF LoadType
  <2>2. loads[n].attempt \in Nat
    BY <1>2 DEF LoadType
  <2>3. \A m \in Names : loads'[m].attempt <= Retries
    <3>1. loads[n].attempt + 1 <= Retries /\ \A m \in Names : loads[m].attempt <= Retries
      BY <1>1, <1>5, <2>2, BoundsAssumption DEF Summed
    <3> QED BY <2>1, <3>1
  <2> QED BY <1>1, <1>5, <2>1, <2>3, SameReads
<1>6. ASSUME files' = files PROVE AddedUp(files') /\ files'.keptBytes <= KeepBytes
  BY <1>1, <1>6
<1>7. ASSUME NEW g \in FileType, g.kept = files.kept, g.keptBytes = files.keptBytes, files.data \subseteq g.data,
             files' = g
      PROVE  AddedUp(files') /\ files'.keptBytes <= KeepBytes
  BY <1>1, <1>7 DEF AddedUp
<1>8. CASE CacheRead(n)
  <2>1. CASE LoadEnds(n) /\ Answered(n)
    <3>1. CASE host.destroyed \/ Waiting(n) = 0
      BY <1>1, <1>6, <2>1, <3>1, UnheardSums DEF Answered
    <3>2. CASE ~(host.destroyed \/ Waiting(n) = 0)
      <4>1. guest' = [guest EXCEPT !.answered[n] = @ + Waiting(n)] /\ files' = [files EXCEPT !.data = @ \cup {n}]
        BY <2>1, <3>2 DEF Answered
      <4> DEFINE g == [files EXCEPT !.data = @ \cup {n}]
      <4>2. g \in FileType /\ g.kept = files.kept /\ g.keptBytes = files.keptBytes /\ files.data \subseteq g.data
        BY <1>2 DEF FileType
      <4> HIDE DEF g
      <4>3. AddedUp(files') /\ files'.keptBytes <= KeepBytes
        BY <1>7, <4>1, <4>2 DEF g
      <4> QED BY <1>1, <2>1, <4>1, <4>3, AnsweredSums
    <3> QED BY <3>1, <3>2
  <2>2. CASE /\ files' = [files EXCEPT !.copies[n] = "none"]
             /\ loads' = [loads EXCEPT ![n].at = "fetch"] /\ UNCHANGED <<host, guest, wd>>
    <3> DEFINE g == [files EXCEPT !.copies[n] = "none"]
    <3>1. g \in FileType /\ g.kept = files.kept /\ g.keptBytes = files.keptBytes /\ files.data \subseteq g.data
      BY <1>2 DEF FileType
    <3> HIDE DEF g
    <3>2. AddedUp(files') /\ files'.keptBytes <= KeepBytes
      BY <1>7, <2>2, <3>1 DEF g
    <3>3. Summed'
      BY <1>4, <2>2
    <3> QED BY <3>2, <3>3
  <2> QED BY <1>8, <2>1, <2>2 DEF CacheRead
<1>9. CASE Fetched(n)
  <2>1. PICK content \in {"good", "wrong"} :
          LET digesting == [files EXCEPT !.digested[n] = content] IN
          IF host.destroyed \/ Waiting(n) = 0 THEN files' = digesting /\ UNCHANGED guest
          ELSE /\ guest' = [guest EXCEPT !.answered[n] = @ + Waiting(n)]
               /\ files' = [digesting EXCEPT !.data = @ \cup {n}]
    BY <1>9 DEF Fetched
  <2>2. LoadEnds(n)
    BY <1>9 DEF Fetched
  <2> DEFINE g == [files EXCEPT !.digested[n] = content]
  <2>3. g \in FileType /\ g.kept = files.kept /\ g.keptBytes = files.keptBytes /\ g.data = files.data
    BY <1>2 DEF FileType
  <2>4. CASE host.destroyed \/ Waiting(n) = 0
    <3>1. files' = g /\ guest' = guest
      BY <2>1, <2>4
    <3> HIDE DEF g
    <3> QED BY <1>1, <1>7, <2>2, <2>3, <3>1, UnheardSums
  <2>5. CASE ~(host.destroyed \/ Waiting(n) = 0)
    <3>1. files' = [g EXCEPT !.data = @ \cup {n}] /\ guest' = [guest EXCEPT !.answered[n] = @ + Waiting(n)]
      BY <2>1, <2>5
    <3> HIDE DEF g
    <3> DEFINE h == [g EXCEPT !.data = @ \cup {n}]
    <3>2. h \in FileType /\ h.kept = files.kept /\ h.keptBytes = files.keptBytes /\ files.data \subseteq h.data
      BY <2>3 DEF FileType
    <3> HIDE DEF h
    <3>3. AddedUp(files') /\ files'.keptBytes <= KeepBytes
      BY <1>7, <3>1, <3>2 DEF h
    <3> QED BY <1>1, <2>2, <3>1, <3>3, AnsweredSums
  <2> QED BY <2>4, <2>5
<1>10. CASE FetchFails(n) \/ FetchRefused(n) \/ RetryFetch(n)
  BY <1>1, <1>4, <1>5, <1>6, <1>10, FailedSums DEF FetchFails, FetchRefused, RetryFetch
<1> QED BY <1>8, <1>9, <1>10 DEF LoadStep

\* A file is kept for later visits, or closed; its reads are not touched.
LEMMA KeepSums ==
  ASSUME AllInv, NEW n \in Names, KeepFetched(n) \/ Close(n)
  PROVE  Summed' /\ AddedUp(files)' /\ files'.keptBytes <= KeepBytes
<1>1. Summed /\ AddedUp(files) /\ files.keptBytes <= KeepBytes /\ files \in FileType
  BY DEF AllInv, SumInv, AddedUp
<1>2. Summed'
  BY <1>1, SameReads DEF KeepFetched, Close, Summed
<1>3. SUFFICES AddedUp(files') /\ files'.keptBytes <= KeepBytes
  BY <1>2 DEF AddedUp
<1>4. CASE KeepFetched(n)
  <2> DEFINE copy == IF files.digested[n] = "good" /\ ~host.destroyed THEN "good" ELSE files.copies[n]
  <2> DEFINE a == [files EXCEPT !.digested[n] = "none"]
  <2>1. a \in FileType /\ a.kept = files.kept /\ a.keptBytes = files.keptBytes /\ a.data = files.data /\ copy \in {"none", "good", "torn"}
    BY <1>1 DEF FileType
  <2>2. files' = [a EXCEPT !.copies[n] = copy]
    BY <1>1, <1>4 DEF KeepFetched, FileType
  <2> HIDE DEF a, copy
  <2>3. files' \in FileType /\ files'.kept = files.kept /\ files'.keptBytes = files.keptBytes /\ files'.data = files.data
    BY <2>1, <2>2 DEF FileType
  <2> QED BY <1>1, <2>3 DEF AddedUp
<1>5. CASE Close(n)
  <2>1. AddedUp(Keep(files, n)) /\ files' = Evict(Keep(files, n))
    BY <1>1, <1>5, KeptIs DEF Close
  <2> QED BY <2>1, EvictedIs
<1> QED BY <1>4, <1>5

LEMMA SumsKeep == ASSUME AllInv, [Next]_vars PROVE AllInv'
<1>1. Inv' /\ InRange(wd)'
  BY NextKeeps, RangeKeeps DEF AllInv, SumInv, Inv, WatchInv
<1>2. Summed /\ AddedUp(files) /\ files.keptBytes <= KeepBytes /\ Typed /\ ReadInv /\ Typed' /\ ReadInv'
  BY <1>1 DEF AllInv, SumInv, Inv, WatchInv
<1>3. SUFFICES Summed' /\ AddedUp(files)' /\ files'.keptBytes <= KeepBytes
  BY <1>1 DEF AllInv, SumInv
<1>4. CASE \E n \in Names : Ask(n) \/ LoadStep(n) \/ KeepFetched(n) \/ Close(n)
  <2>1. PICK n \in Names : Ask(n) \/ LoadStep(n) \/ KeepFetched(n) \/ Close(n)
    BY <1>4
  <2>2. CASE Ask(n)
    BY <1>2, <2>2, AskSums DEF Ask, AddedUp
  <2>3. CASE LoadStep(n)
    BY <1>1, <2>3, LoadSums
  <2>4. CASE KeepFetched(n) \/ Close(n)
    BY <2>4, KeepSums
  <2> QED BY <2>1, <2>2, <2>3, <2>4
<1>5. CASE RestoreSnapshot \/ Stopped \/ Restored \/ Resume \/ Pause \/ VisibilityChanges \/ VisibilityApplied
           \/ Destroy \/ Destroyed \/ Sample \/ Arm \/ Kick \/ Disarm
  <2>1. Summed' /\ files' = files
    BY <1>1, <1>5, MachineSums
  <2> QED BY <1>2, <2>1 DEF AddedUp
<1>6. CASE UNCHANGED vars
  BY <1>2, <1>6, SameReads DEF vars, Summed, AddedUp
<1> QED BY <1>4, <1>5, <1>6 DEF Next

LEMMA InitSums == Init => AllInv
<1> SUFFICES ASSUME Init PROVE AllInv
  OBVIOUS
<1>1. Inv
  BY InitIsInv
<1>2. Typed /\ ReadInv
  BY <1>1 DEF Inv, WatchInv
<1>3. host.epoch \in Epochs
  BY <1>2, HostIs DEF Typed
<1>4. \A n \in Names : Waits[n] = 0 /\ guest.asked[n] = 0 /\ guest.answered[n] = 0 /\ guest.told[n] = 0
  BY <1>3 DEF Waits, Waiting, Init, NewGuest, NoReads, NoLoad
<1>5. Total(Waits, Names) = 0 /\ Total(guest.asked, Names) = 0
  <2>1. Total(Waits, Names) = 0
    BY <1>2, <1>4, WaitsAre
  <2> DEFINE asked == guest.asked
  <2>2. \A n \in Names : asked[n] = 0
    BY <1>4
  <2> HIDE DEF asked
  <2>3. Total(asked, Names) = 0
    BY <2>2, SizeAssumption, TotalNat
  <2> QED BY <2>1, <2>3 DEF asked
<1>6. \A n \in Names : loads[n].attempt = 0 /\ \A e \in Epochs : loads[n].readers[e] = 0
  BY DEF Init, NoLoad
<1>7. host.fetching = 0 /\ ~wd.fetching /\ InRange(wd)
  BY BoundsAssumption DEF Init, InRange
<1>8. Summed
  BY <1>2, <1>4, <1>5, <1>6, <1>7, WaitsAre, BoundsAssumption DEF Summed
<1>9. files \in FileType /\ files.kept = << >> /\ files.keptBytes = 0
  BY DEF Init, FileType
<1>10. AddedUp(files)
  <2>1. ToSet(files.kept) = {} /\ IsInjective(files.kept)
    BY <1>9 DEF ToSet, IsInjective
  <2>2. Total(Size, {}) = 0
    BY TotalEmpty
  <2> QED BY <1>9, <2>1, <2>2 DEF AddedUp
<1> QED BY <1>1, <1>7, <1>8, <1>9, <1>10, SizeAssumption DEF AllInv, SumInv

---------------------------------------------------------------------------
(* What holds *)

\* Every state keeps the inductive invariant.
THEOREM InvHolds == Spec => []Inv
<1>1. Init => Inv
  BY InitIsInv
<1>2. Inv /\ [Next]_vars => Inv'
  BY NextKeeps
<1> QED BY <1>1, <1>2, PTL DEF Spec

\* A guest that runs reads its own time (#setTsc, #freezeTsc and restoreSnapshot() of vm_machine.js), however
\* often it was parked, hidden and restored.
THEOREM ClockStaysRight == Spec => []GuestClockIsRight
<1>1. Inv => GuestClockIsRight
  BY DEF Inv, WatchInv, Clock, GuestClockIsRight
<1> QED BY <1>1, InvHolds, PTL

\* A guest that says nothing while its deadline is armed has been silent for less than the deadline and the
\* allowance for its fetches (#sample() of vm_watchdog.js).
THEOREM SilenceIsBounded == Spec => []HungGuestExpires
<1>1. Inv => HungGuestExpires
  BY BoundsAssumption DEF Inv, WatchInv, Typed, WatchdogType, Counted, HungGuestExpires
<1> QED BY <1>1, InvHolds, PTL

\* The sums and their bounds, with it.
LEMMA SumsHold == Spec => []AllInv
<1>1. Init => AllInv
  BY InitSums
<1>2. AllInv /\ [Next]_vars => AllInv'
  BY SumsKeep
<1> QED BY <1>1, <1>2, PTL DEF Spec

\* The reads under way are no more than those the guest asked for.
LEMMA FetchingIsBounded == ASSUME AllInv PROVE host.fetching \in 0 .. MaxReads
<1>1. Typed /\ ReadInv /\ Summed
  BY DEF AllInv, SumInv, Inv, WatchInv
<1> DEFINE asked == guest.asked
<1>2. \A n \in Names : Waits[n] \in Nat /\ asked[n] \in Nat /\ Waits[n] <= asked[n]
  <2> SUFFICES ASSUME NEW n \in Names PROVE Waits[n] \in Nat /\ asked[n] \in Nat /\ Waits[n] <= asked[n]
    OBVIOUS
  <2>1. /\ Waits[n] = Waiting(n) /\ Waits[n] \in Nat /\ guest.asked[n] \in Nat /\ guest.answered[n] \in Nat
        /\ guest.answered[n] + Waiting(n) <= guest.asked[n]
    BY <1>1, WaitsAre DEF ReadInv, NoStrayAnswer
  <2> QED BY <2>1
<1>3. Total(asked, Names) \in Nat /\ Total(Waits, Names) \in Nat /\ Total(asked, Names) <= MaxReads
  BY <1>1, WaitsAre DEF Summed
<1> HIDE DEF asked
<1>4. Total(Waits, Names) <= Total(asked, Names)
  BY <1>2, SizeAssumption, TotalGrows
<1> QED BY <1>1, <1>3, <1>4, BoundsAssumption DEF Summed

LEMMA TypesFollow == ASSUME AllInv PROVE TypeOK
<1>1. Typed /\ ReadInv /\ Summed /\ InRange(wd) /\ AddedUp(files)
  BY DEF AllInv, SumInv, Inv, WatchInv
<1>2. host \in [epoch : Epochs, cpu : BOOLEAN, want : BOOLEAN, visible : BOOLEAN, shown : BOOLEAN,
                op : {"none", "stopping", "halting", "restoring"}, destroyed : BOOLEAN,
                fetching : 0..MaxReads, tsc : Clocks]
  BY <1>1, FetchingIsBounded DEF Typed, HostType, Ops
<1>3. guest \in [asked : [Names -> 0..MaxReads], answered : [Names -> 0..MaxReads], told : [Names -> 0..MaxReads]]
  <2>1. guest \in ReadType /\ Total(guest.asked, Names) \in Nat /\ Total(guest.asked, Names) <= MaxReads
    BY <1>1, WaitsAre DEF ReadInv, Summed
  <2>2. ASSUME NEW n \in Names
        PROVE  guest.asked[n] \in 0..MaxReads /\ guest.answered[n] \in 0..MaxReads /\ guest.told[n] \in 0..MaxReads
    <3>1. /\ guest.asked[n] \in Nat /\ guest.answered[n] \in Nat /\ guest.told[n] \in Nat /\ Waiting(n) \in Nat
          /\ guest.asked[n] <= Total(guest.asked, Names)
          /\ guest.answered[n] + Waiting(n) + guest.told[n] <= guest.asked[n]
      BY <1>1, WaitsAre, WaitingIs DEF Summed
    <3> QED BY <2>1, <3>1, BoundsAssumption
  <2>3. guest.asked \in [Names -> 0..MaxReads] /\ guest.answered \in [Names -> 0..MaxReads] /\ guest.told \in [Names -> 0..MaxReads]
    BY <2>1, <2>2 DEF ReadType
  <2> QED BY <2>1, <2>3 DEF ReadType
<1>4. loads \in [Names -> [at : {"none", "cache", "fetch", "wait"}, attempt : 0..Retries,
                           readers : [Epochs -> 0..MaxReads]]]
  <2>1. loads \in [Names -> LoadType]
    BY <1>1 DEF ReadInv
  <2>2. ASSUME NEW n \in Names
        PROVE  loads[n] \in [at : {"none", "cache", "fetch", "wait"}, attempt : 0..Retries, readers : [Epochs -> 0..MaxReads]]
    <3>1. loads[n] \in LoadType /\ loads[n].attempt <= Retries /\ \A e \in Epochs : loads[n].readers[e] <= MaxReads
      BY <1>1, <2>1 DEF Summed
    <3>2. loads[n].readers \in [Epochs -> 0..MaxReads] /\ loads[n].attempt \in 0..Retries
      BY <3>1, BoundsAssumption DEF LoadType
    <3> QED BY <3>1, <3>2 DEF LoadType
  <2> QED BY <2>1, <2>2
<1>5. /\ files.data \subseteq Names /\ files.kept \in Seq(Names) /\ files.keptBytes \in Nat
      /\ files.copies \in [Names -> {"none", "good", "torn", "wrong"}]
      /\ files.digested \in [Names -> {"none", "good", "wrong"}]
  <2>1. files \in FileType /\ ToSet(files.kept) \subseteq Names /\ files.keptBytes = Total(Size, ToSet(files.kept))
    BY <1>1 DEF AddedUp, FileType
  <2>2. Total(Size, ToSet(files.kept)) \in Nat
    <3> DEFINE kept == ToSet(files.kept)
    <3>1. IsFiniteSet(kept) /\ \A n \in kept : Size[n] \in Nat
      BY <2>1, SizeIs
    <3> HIDE DEF kept
    <3>2. Total(Size, kept) \in Nat
      BY <3>1, TotalNat
    <3> QED BY <3>2 DEF kept
  <2> QED BY <2>1, <2>2 DEF FileType
<1>6. wd \in [armed : BOOLEAN, remaining : 0..Timeout, held : 0..Cap, holds : SUBSET {"cpu", "hidden"},
              fetching : BOOLEAN, expired : BOOLEAN, spent : Nat, silent : Nat]
  BY <1>1 DEF Typed, WatchdogType, InRange
<1> QED BY <1>2, <1>3, <1>4, <1>5, <1>6 DEF TypeOK

\* The rootfs reads (#readRootfsFile and #keep of vm_machine.js), across restores, shared loads and failures:
\* a read is answered once, for the guest that asked, or reported; the watchdog is suspended exactly while the
\* guest waits; and what is kept is bounded, accounted for, and what its name says.
THEOREM ReadsStayRight == Spec => []FilesAreRight
<1>1. ASSUME AllInv PROVE FilesAreRight
  <2>1. ReadInv /\ Summed /\ AddedUp(files) /\ files.keptBytes <= KeepBytes
    BY <1>1 DEF AllInv, SumInv, Inv
  <2>2. FetchesAreCounted
    <3>1. SumFunction([n \in Names |-> Waiting(n)]) = Total(Waits, Names)
      BY DEF SumFunction, Total, Waits
    <3> QED BY <2>1, <3>1 DEF Summed, FetchesAreCounted
  <2>3. KeptAddsUp
    BY <2>1 DEF AddedUp, KeptAddsUp, Total
  <2>4. NoStrayAnswer /\ LostReadsAreTold /\ OnlyNamedIsKept
    BY <2>1 DEF ReadInv, OnlyNamedIsKept
  <2> QED BY <1>1, <2>2, <2>3, <2>4, TypesFollow DEF FilesAreRight
<1>2. AllInv => FilesAreRight
  BY <1>1
<1> QED BY <1>2, SumsHold, PTL

\* Only a sample ends a guest.
LEMMA ExpiryIsSampled == ASSUME Inv, [Next]_vars, wd'.expired, ~wd.expired PROVE Sample
<1>1. wd \in WatchdogType /\ host \in HostType
  BY DEF Inv, WatchInv, Typed
<1>2. ASSUME wd' = [wd EXCEPT !.fetching = FALSE] \/ wd' = [wd EXCEPT !.fetching = TRUE] \/ wd' = wd PROVE FALSE
  BY <1>1, <1>2 DEF WatchdogType
<1>3. ASSUME NEW reason, reason \in {"cpu", "hidden"}, wd' = Held(wd, reason) \/ wd' = Released(wd, reason) PROVE FALSE
  BY <1>1, <1>3, HeldIs, ReleasedIs
<1>4. ASSUME wd' = Disarmed(wd) \/ wd' = Rearmed(wd) PROVE FALSE
  BY <1>1, <1>4, DisarmedIs, RearmedIs
<1>5. ~Arm
  <2> SUFFICES ASSUME Arm PROVE FALSE
    OBVIOUS
  <2> DEFINE a == Rearmed(wd)
  <2>1. a \in WatchdogType
    BY <1>1, RearmedIs
  <2>2. wd' = [a EXCEPT !.expired = FALSE]
    BY DEF Arm
  <2> HIDE DEF a
  <2> QED BY <2>1, <2>2 DEF WatchdogType
<1>6. ~Kick /\ ~Disarm /\ ~Destroy
  BY <1>4 DEF Kick, Disarm, Destroy
<1>7. ~RestoreSnapshot /\ ~Stopped /\ ~Restored /\ ~Destroyed
  BY <1>2, <1>3 DEF RestoreSnapshot, Stopped, Restored, Destroyed
<1>8. ~VisibilityChanges /\ ~Resume /\ ~Pause /\ ~VisibilityApplied
  BY <1>2, <1>3 DEF VisibilityChanges, Resume, Pause, VisibilityApplied, ApplyCpu
<1>9. ASSUME NEW n \in Names PROVE ~LoadStep(n) /\ ~Ask(n) /\ ~KeepFetched(n) /\ ~Close(n)
  <2>1. LoadEnds(n) => FALSE
    BY <1>2 DEF LoadEnds, Settled
  <2>2. ~LoadStep(n)
    BY <1>2, <2>1 DEF LoadStep, CacheRead, Fetched, FetchFails, RetryFetch, FetchRefused
  <2>3. ~Ask(n) /\ ~KeepFetched(n) /\ ~Close(n)
    BY <1>2 DEF Ask, KeepFetched, Close
  <2> QED BY <2>2, <2>3
<1>10. ~UNCHANGED vars
  BY <1>2 DEF vars
<1> QED BY <1>5, <1>6, <1>7, <1>8, <1>9, <1>10 DEF Next

\* A guest is ended only for time it had (#sample() of vm_watchdog.js, and the holds of vm_machine.js).
THEOREM EndedForCause == Spec => ExpiresForCause
<1>1. ASSUME Inv, [Next]_vars, wd'.expired, ~wd.expired
      PROVE  wd'.spent >= Timeout /\ host.cpu /\ host.tsc.frozen # "none" /\ host.shown
  <2>1. Sample
    BY <1>1, ExpiryIsSampled
  <2>2. wd.armed /\ wd.holds = {} /\ wd \in WatchdogType
    BY <1>1, <2>1 DEF Sample, Inv, WatchInv, Typed
  <2>3. host.cpu /\ host.shown /\ host.tsc.frozen # "none"
    BY <1>1, <2>2 DEF Inv, WatchInv, Holding, Clock
  <2>4. ~(wd' = [wd EXCEPT !.held = @ + 1, !.silent = @ + 1])
    BY <1>1, <2>2 DEF WatchdogType
  <2>5. ~(wd' = [wd EXCEPT !.remaining = @ - 1, !.spent = @ + 1, !.silent = @ + 1])
    BY <1>1, <2>2 DEF WatchdogType
  <2>6. wd' = [Disarmed(wd) EXCEPT !.spent = wd.spent + 1, !.expired = TRUE] /\ ~(wd.remaining > 1)
    BY <2>1, <2>4, <2>5 DEF Sample, StepOf
  <2>7. wd'.spent = wd.spent + 1
    <3> DEFINE a == Disarmed(wd)
    <3>1. a \in WatchdogType
      BY <2>2, DisarmedIs
    <3>2. wd' = [a EXCEPT !.spent = wd.spent + 1, !.expired = TRUE]
      BY <2>6
    <3> HIDE DEF a
    <3> QED BY <3>1, <3>2 DEF WatchdogType
  <2>8. wd.remaining \in Int /\ wd.spent \in Int /\ 1 <= wd.remaining /\ wd.remaining + wd.spent = Timeout
    BY <1>1, <2>2 DEF Inv, WatchInv, Counted, WatchdogType
  <2> QED BY <2>3, <2>6, <2>7, <2>8, BoundsAssumption
<1>2. Inv /\ [Next]_vars =>
        [wd'.expired /\ ~wd.expired => wd'.spent >= Timeout /\ host.cpu /\ host.tsc.frozen # "none" /\ host.shown]_vars
  BY <1>1
<1> QED BY <1>2, InvHolds, PTL DEF Spec, ExpiresForCause

---------------------------------------------------------------------------
(* The tools that make, correct, pack and fetch the image. *)

ManifestType ==
  [is : {"manifest"}, id : Images, source : Nat, proto : Nat, debug : BOOLEAN, notices : Texts, named : BOOLEAN]
EntryType == ManifestType \cup {None, Torn}
BundleType == [manifest : EntryType, parts : SUBSET (Parts \cup {"junk"}), text : Texts]
DirType == [top : EntryType, bundles : [Images -> BundleType]]
PinType == [is : {"pin"}, id : Images, sum : DirType, source : Nat, proto : Nat]
PinOrNone == PinType \cup {None}
BoxType == [archive : [Images -> DirType], pin : [Images -> PinOrNone]]
TreeType == [source : Nat, proto : Nat]

Before == {"prompt", "stty", "boot", "hello", "prepare", "save"}
Saved == {"files", "manifest", "restore", "greet", "name", "entry", "sweep"}
Unchanged == {"download", "unpack", "sweep"}
Replacing == {"remove", "move", "copy"}
AtType == {"none", "top", "bundle", "pin"} \cup Before \cup Saved \cup Unchanged \cup Replacing
ToolType == {"none", "build", "notices", "package", "fetch"}
ProcType ==
  [tool : ToolType \cup {"check"}, at : AtType, force : BOOLEAN, proto : Nat, man : EntryType, pin : PinOrNone,
   before : DirType]
ReportType == [tool : ToolType \cup {"check"}, ok : BOOLEAN, pin : PinOrNone, proto : Nat]

\* Every record has the shape the code gives it, and an image that came up warm was saved.
ReleaseTyped ==
  /\ dir \in DirType /\ box \in BoxType /\ lock \in PinOrNone /\ tree \in TreeType
  /\ proc \in ProcType /\ proc.tool \in ToolType /\ told \in ReportType
  /\ made \in 0..MaxImages /\ faults \in 0..MaxFaults /\ spoilt \in BOOLEAN
  /\ warmed \subseteq 1..made

\* Nothing was ever written for an image that no build has saved yet.
Seen(d) == \A i \in Images : i > made => d.bundles[i] = NoBundle
Named(man) == man.is = "manifest" /\ man.id \in warmed /\ man.named
Complete(d) == d.bundles[d.top.id] = [manifest |-> d.top, parts |-> Parts, text |-> d.top.notices]

\* What package-image packs and fetch-image puts in place.
GoodPin(pin) ==
  LET man == pin.sum.top IN
  /\ pin \in PinType /\ Named(man) /\ Seen(pin.sum)
  /\ man.id = pin.id /\ ~man.debug /\ man.notices = "full" /\ man.source = pin.source
  /\ pin.sum = Only(pin.sum, pin.id) /\ Verified(pin.sum, pin.proto)

\* A tool is changing the image that the entry point names.
Changing == proc.tool = "notices" \/ (proc.tool = "fetch" /\ proc.at \in Replacing)

Directory ==
  /\ Seen(dir)
  /\ dir.top.is = "manifest" => Named(dir.top)
  /\ dir.top.is = "manifest" /\ ~spoilt /\ ~Changing => Complete(dir)

\* build-state: its bundle is its own until it becomes the entry point, and is whole by then.
Building ==
  LET man == proc.man
      bundle == dir.bundles[proc.man.id]
  IN
  proc.tool = "build" =>
    /\ proc.at \in Before \cup Saved
    /\ man.is = "manifest"
    /\ proc.at \in Before => man.id = made + 1
    /\ proc.at \in Saved => man.id <= made
    /\ proc.at # "sweep" /\ dir.top.is = "manifest" => dir.top.id # man.id
    /\ proc.at = "files" => "state" \in bundle.parts /\ bundle.parts \subseteq {"state", "rootfs"}
    /\ proc.at \in {"manifest", "restore", "greet", "name", "entry"} => bundle.parts = Parts
    /\ proc.at \in {"restore", "greet", "name", "entry"} => bundle.text = man.notices
    /\ proc.at \in {"name", "entry", "sweep"} => Named(man)
    /\ proc.at = "entry" => bundle.manifest = man
    /\ proc.at = "sweep" => dir.top = man

\* write-notices: the text is there before a manifest says so.
Noting ==
  proc.tool = "notices" =>
    /\ proc.at \in {"top", "bundle"} /\ Named(proc.man)
    /\ dir.top.is = "manifest" /\ dir.top.id = proc.man.id
    /\ proc.at = "bundle" => dir.top = proc.man
    /\ ~spoilt => /\ dir.bundles[proc.man.id].parts = Parts
                  /\ dir.bundles[proc.man.id].text = proc.man.notices

\* fetch-image: it has a good pin of the page's protocol, and has not touched the directory before
\* it is about to replace it.
Fetching ==
  proc.tool = "fetch" =>
    /\ proc.at \in Unchanged \cup Replacing
    /\ GoodPin(proc.pin) /\ proc.proto = proc.pin.proto
    /\ ~proc.force => proc.before.top = None \/ proc.before.top.id = proc.pin.id
    /\ proc.at \in {"download", "unpack"} => dir = proc.before
    /\ proc.at = "sweep" =>
         Verified(dir, proc.proto) /\ dir.top.id = proc.pin.id /\ dir.top.source = proc.pin.source

Packing == proc.tool = "package" => GoodPin(proc.pin)

Pinned ==
  /\ \A id \in Images : box.pin[id] # None => GoodPin(box.pin[id])
  /\ lock # None => GoodPin(lock)

Telling ==
  /\ proc.tool # "none" => told = NoReport
  /\ FetchedIsPinned /\ CheckedIsLoadable

ReleaseInv == ReleaseTyped /\ Directory /\ Building /\ Noting /\ Fetching /\ Packing /\ Pinned /\ Telling

---------------------------------------------------------------------------
(* Records, and what the helpers make of a directory *)

LEMMA EntryIs ==
  /\ None \in EntryType /\ Torn \in EntryType /\ None.is = "none" /\ Torn.is = "torn"
  /\ \A m \in EntryType : m.is = "manifest" <=> m \in ManifestType
BY DEF EntryType, ManifestType, None, Torn

LEMMA ManifestIs ==
  ASSUME NEW id \in Images, NEW source \in Nat, NEW proto \in Nat, NEW debug \in BOOLEAN, NEW text, text \in Texts,
         NEW m, m = Manifest(id, source, proto, debug, text)
  PROVE  /\ m \in ManifestType /\ m \in EntryType
         /\ m.is = "manifest" /\ m.id = id /\ m.source = source /\ m.proto = proto /\ m.debug = debug
         /\ m.notices = text /\ m.named = FALSE
BY DEF Manifest, ManifestType, EntryType

LEMMA PinOrNot ==
  /\ None \in PinOrNone
  /\ \A pin \in PinOrNone : pin # None => pin \in PinType
  /\ \A pin \in PinType : pin # None /\ pin.id \in Images /\ pin.sum \in DirType /\ pin.source \in Nat /\ pin.proto \in Nat
BY DEF PinOrNone, PinType, None

LEMMA NoBundleIs ==
  NoBundle \in BundleType /\ NoBundle.manifest = None /\ NoBundle.parts = {} /\ NoBundle.text = "none"
BY EntryIs DEF NoBundle, BundleType, Texts

LEMMA DirIs ==
  ASSUME NEW d \in DirType
  PROVE  /\ d.top \in EntryType
         /\ \A i \in Images : /\ d.bundles[i] \in BundleType
                              /\ d.bundles[i].manifest \in EntryType
                              /\ d.bundles[i].parts \subseteq Parts \cup {"junk"}
                              /\ d.bundles[i].text \in Texts
         /\ d.top.is = "manifest" => d.top \in ManifestType /\ d.top.id \in Images
BY EntryIs DEF DirType, BundleType, ManifestType

LEMMA EmptyDirIs ==
  EmptyDir \in DirType /\ EmptyDir.top = None /\ \A i \in Images : EmptyDir.bundles[i] = NoBundle
BY EntryIs, NoBundleIs DEF EmptyDir, DirType

LEMMA SameDir ==
  ASSUME NEW d \in DirType, NEW e \in DirType, d.top = e.top, \A i \in Images : d.bundles[i] = e.bundles[i]
  PROVE  d = e
<1>1. d = [top |-> d.top, bundles |-> d.bundles] /\ e = [top |-> e.top, bundles |-> e.bundles]
  BY DEF DirType
<1>2. d.bundles = [i \in Images |-> d.bundles[i]] /\ e.bundles = [i \in Images |-> e.bundles[i]]
  BY DEF DirType
<1>3. d.bundles = e.bundles
  BY <1>2
<1> QED BY <1>1, <1>3

LEMMA OnlyIs ==
  ASSUME NEW d \in DirType, NEW id \in Images
  PROVE  /\ Only(d, id) \in DirType /\ Only(d, id).top = d.top /\ Only(d, id).bundles[id] = d.bundles[id]
         /\ \A i \in Images : i # id => Only(d, id).bundles[i] = NoBundle
         /\ d = Only(d, id) <=> \A i \in Images : i # id => d.bundles[i] = NoBundle
<1>1. /\ Only(d, id) \in DirType /\ Only(d, id).top = d.top /\ Only(d, id).bundles[id] = d.bundles[id]
      /\ \A i \in Images : i # id => Only(d, id).bundles[i] = NoBundle
  BY NoBundleIs DEF Only, DirType
<1>2. ASSUME \A i \in Images : i # id => d.bundles[i] = NoBundle PROVE d = Only(d, id)
  BY <1>1, <1>2, SameDir
<1> QED BY <1>1, <1>2

\* One bundle is replaced.
LEMMA PutIs ==
  ASSUME NEW d \in DirType, NEW id \in Images, NEW bundle \in BundleType,
         NEW e, e = [d EXCEPT !.bundles[id] = bundle]
  PROVE  /\ e \in DirType /\ e.top = d.top /\ e.bundles[id] = bundle
         /\ \A i \in Images : i # id => e.bundles[i] = d.bundles[i]
BY DEF DirType

LEMMA TopIs ==
  ASSUME NEW d \in DirType, NEW man \in EntryType, NEW e, e = [d EXCEPT !.top = man]
  PROVE  e \in DirType /\ e.top = man /\ e.bundles = d.bundles
BY DEF DirType

\* One field of one bundle is.
WithManifest(d, id, man) == [d EXCEPT !.bundles[id].manifest = man]
WithParts(d, id, parts) == [d EXCEPT !.bundles[id].parts = parts]
WithText(d, id, text) == [d EXCEPT !.bundles[id].text = text]

LEMMA ManifestPut ==
  ASSUME NEW d \in DirType, NEW id \in Images, NEW man \in EntryType,
         NEW e, e = WithManifest(d, id, man)
  PROVE  /\ e \in DirType /\ e.top = d.top
         /\ e.bundles[id].manifest = man
         /\ e.bundles[id].parts = d.bundles[id].parts /\ e.bundles[id].text = d.bundles[id].text
         /\ \A i \in Images : i # id => e.bundles[i] = d.bundles[i]
<1> DEFINE bundle == [d.bundles[id] EXCEPT !.manifest = man]
<1>1. /\ bundle \in BundleType /\ bundle.manifest = man
      /\ bundle.parts = d.bundles[id].parts /\ bundle.text = d.bundles[id].text
  BY DirIs DEF BundleType
<1>2. e = [d EXCEPT !.bundles[id] = bundle]
  BY DEF WithManifest
<1> HIDE DEF bundle
<1>3. bundle \in BundleType
  BY <1>1
<1>4. /\ e \in DirType /\ e.top = d.top /\ e.bundles[id] = bundle
      /\ \A i \in Images : i # id => e.bundles[i] = d.bundles[i]
  BY <1>2, <1>3 DEF DirType
<1> QED BY <1>1, <1>4

LEMMA PartsPut ==
  ASSUME NEW d \in DirType, NEW id \in Images, NEW parts \in SUBSET (Parts \cup {"junk"}),
         NEW e, e = WithParts(d, id, parts)
  PROVE  /\ e \in DirType /\ e.top = d.top
         /\ e.bundles[id].parts = parts
         /\ e.bundles[id].manifest = d.bundles[id].manifest /\ e.bundles[id].text = d.bundles[id].text
         /\ \A i \in Images : i # id => e.bundles[i] = d.bundles[i]
<1> DEFINE bundle == [d.bundles[id] EXCEPT !.parts = parts]
<1>1. /\ bundle \in BundleType /\ bundle.parts = parts
      /\ bundle.manifest = d.bundles[id].manifest /\ bundle.text = d.bundles[id].text
  BY DirIs DEF BundleType
<1>2. e = [d EXCEPT !.bundles[id] = bundle]
  BY DEF WithParts
<1> HIDE DEF bundle
<1>3. bundle \in BundleType
  BY <1>1
<1>4. /\ e \in DirType /\ e.top = d.top /\ e.bundles[id] = bundle
      /\ \A i \in Images : i # id => e.bundles[i] = d.bundles[i]
  BY <1>2, <1>3 DEF DirType
<1> QED BY <1>1, <1>4

LEMMA TextPut ==
  ASSUME NEW d \in DirType, NEW id \in Images, NEW text, text \in Texts,
         NEW e, e = WithText(d, id, text)
  PROVE  /\ e \in DirType /\ e.top = d.top
         /\ e.bundles[id].text = text
         /\ e.bundles[id].manifest = d.bundles[id].manifest /\ e.bundles[id].parts = d.bundles[id].parts
         /\ \A i \in Images : i # id => e.bundles[i] = d.bundles[i]
<1> DEFINE bundle == [d.bundles[id] EXCEPT !.text = text]
<1>1. /\ bundle \in BundleType /\ bundle.text = text
      /\ bundle.manifest = d.bundles[id].manifest /\ bundle.parts = d.bundles[id].parts
  BY DirIs DEF BundleType
<1>2. e = [d EXCEPT !.bundles[id] = bundle]
  BY DEF WithText
<1> HIDE DEF bundle
<1>3. bundle \in BundleType
  BY <1>1
<1>4. /\ e \in DirType /\ e.top = d.top /\ e.bundles[id] = bundle
      /\ \A i \in Images : i # id => e.bundles[i] = d.bundles[i]
  BY <1>2, <1>3 DEF DirType
<1> QED BY <1>1, <1>4

LEMMA ShrunkIs ==
  ASSUME NEW d \in DirType, NEW id \in Images, NEW e, e = Shrunk(d, id)
  PROVE  /\ e \in DirType /\ e.top = d.top
         /\ \A i \in Images : i # id => e.bundles[i] = d.bundles[i]
         /\ d.bundles[id] = NoBundle => e.bundles[id] = NoBundle
<1> DEFINE bundle == IF d.bundles[id].parts = {} THEN NoBundle ELSE [d.bundles[id] EXCEPT !.parts = {}]
<1>1. bundle \in BundleType /\ (d.bundles[id] = NoBundle => bundle = NoBundle)
  BY DirIs, NoBundleIs DEF BundleType
<1>2. e = [d EXCEPT !.bundles[id] = bundle]
  BY DEF Shrunk
<1> HIDE DEF bundle
<1> QED BY <1>1, <1>2, PutIs

LEMMA IdleIs ==
  /\ Idle \in ProcType /\ Idle.tool = "none" /\ Idle.at = "none" /\ Idle.force = FALSE /\ Idle.proto = 0
  /\ NoReport \in ReportType /\ NoReport.ok = FALSE
BY EntryIs, PinOrNot, EmptyDirIs DEF Idle, NoReport, Report, ProcType, ReportType, ToolType, AtType

\* GoTo() changes where a tool is, and nothing else of it.
LEMMA StepIs ==
  ASSUME proc \in ProcType, NEW at, at \in AtType, GoTo(at)
  PROVE  /\ proc' \in ProcType /\ proc'.at = at
         /\ proc'.tool = proc.tool /\ proc'.force = proc.force /\ proc'.proto = proc.proto
         /\ proc'.man = proc.man /\ proc'.pin = proc.pin /\ proc'.before = proc.before
BY DEF GoTo, ProcType

LEMMA ToolIs ==
  ASSUME tree \in TreeType, NEW name, name \in ToolType \cup {"check"}, NEW at, at \in AtType,
         NEW man \in EntryType, NEW pin \in PinOrNone,
         NEW p, p = [Tool(name, at) EXCEPT !.man = man, !.pin = pin]
  PROVE  /\ p \in ProcType /\ p.tool = name /\ p.at = at /\ p.man = man /\ p.pin = pin /\ p.proto = tree.proto
BY IdleIs DEF Tool, ProcType, TreeType

---------------------------------------------------------------------------
(* What stays *)

\* Saving and restoring more machines makes no image worse.
LEMMA NamedStays ==
  ASSUME warmed \subseteq warmed', NEW man, Named(man)
  PROVE  Named(man)'
BY DEF Named

LEMMA SeenStays ==
  ASSUME made \in Int, made' \in Int, made <= made', NEW d, Seen(d)
  PROVE  Seen(d)'
<1> SUFFICES ASSUME NEW i \in Images, i > made' PROVE d.bundles[i] = NoBundle
  BY DEF Seen
<1>1. i > made
  BY DEF Images
<1> QED BY <1>1 DEF Seen

LEMMA PinStays ==
  ASSUME made \in Int, made' \in Int, made <= made', warmed \subseteq warmed', NEW pin, GoodPin(pin)
  PROVE  GoodPin(pin)'
BY NamedStays, SeenStays DEF GoodPin, Verified

LEMMA PinnedStays ==
  ASSUME Pinned, UNCHANGED <<box, lock>>, made \in Int, made' \in Int, made <= made', warmed \subseteq warmed'
  PROVE  Pinned'
BY PinStays DEF Pinned

LEMMA Bounds == ASSUME ReleaseTyped PROVE made \in Int /\ faults \in Int /\ made <= MaxImages /\ made >= 0 /\ MaxImages \in Int
BY ReleaseAssumption DEF ReleaseTyped

\* A tool that has ended has nothing in hand.
LEMMA AtRest ==
  ASSUME proc' = Idle
  PROVE  Building' /\ Noting' /\ Fetching' /\ Packing' /\ ~Changing'
BY IdleIs DEF Building, Noting, Fetching, Packing, Changing

\* Steps of the agent on the control line, and of the developer: the directory and the tool that
\* runs stay, and a pin that is committed is one that package-image wrote.
LEMMA Beside ==
  ASSUME ReleaseInv, UNCHANGED <<dir, box, proc, told, warmed, spoilt, made>>,
         tree' \in TreeType, faults' \in 0..MaxFaults, lock' = lock \/ \E id \in Images : lock' = box.pin[id]
  PROVE  ReleaseInv'
<1>1. lock' \in PinOrNone /\ (lock' # None => GoodPin(lock)')
  <2>1. lock' \in PinOrNone
    BY DEF ReleaseInv, ReleaseTyped, BoxType
  <2>2. lock' # None => GoodPin(lock')
    BY DEF ReleaseInv, Pinned
  <2>3. GoodPin(lock') => GoodPin(lock)'
    BY DEF GoodPin, Named, Seen, Verified
  <2> QED BY <2>1, <2>2, <2>3
<1>2. ReleaseTyped' BY <1>1 DEF ReleaseInv, ReleaseTyped
<1>3. Directory' BY DEF ReleaseInv, Directory, Changing, Seen, Named, Complete
<1>4. Building' BY DEF ReleaseInv, Building, Named
<1>5. Noting' BY DEF ReleaseInv, Noting, Named
<1>6. GoodPin(proc.pin)' <=> GoodPin(proc.pin)
  BY DEF GoodPin, Named, Seen, Verified
<1>7. Fetching' /\ Packing' BY <1>6 DEF ReleaseInv, Fetching, Packing, Verified
<1>8. Pinned' BY <1>1, PinStays, Bounds DEF ReleaseInv, Pinned
<1>9. Telling' BY DEF ReleaseInv, Telling, FetchedIsPinned, CheckedIsLoadable, Verified
<1> QED BY <1>2, <1>3, <1>4, <1>5, <1>7, <1>8, <1>9 DEF ReleaseInv

LEMMA QuietTyped ==
  ASSUME ReleaseTyped, UNCHANGED <<box, lock, tree, made, warmed>>, dir' \in DirType, spoilt' \in BOOLEAN, faults' \in 0..MaxFaults,
         proc' \in ProcType, proc'.tool \in ToolType, told' \in ReportType
  PROVE  ReleaseTyped'
BY DEF ReleaseTyped

LEMMA SameDirectory ==
  ASSUME ReleaseTyped, Directory, UNCHANGED <<dir, made, warmed, spoilt>>, Changing' \/ ~Changing
  PROVE  Directory'
BY DEF Directory, Seen, Named, Complete

\* A tool that fails before it has changed what is there.
LEMMA ToolFailsKeeps ==
  ASSUME ReleaseInv, ~Changing, proc' = Idle, told' = NoReport,
         UNCHANGED <<dir, box, lock, tree, warmed, spoilt, made, faults>>
  PROVE  ReleaseInv'
<1>1. ReleaseTyped' BY IdleIs, QuietTyped DEF ReleaseInv, ReleaseTyped, ToolType
<1>2. Directory' BY SameDirectory DEF ReleaseInv
<1>3. Building' /\ Noting' /\ Fetching' /\ Packing' BY AtRest
<1>4. Pinned' BY PinnedStays, Bounds DEF ReleaseInv
<1>5. Telling' BY IdleIs DEF Telling, FetchedIsPinned, CheckedIsLoadable
<1> QED BY <1>1, <1>2, <1>3, <1>4, <1>5 DEF ReleaseInv

---------------------------------------------------------------------------
(* build-state *)

LEMMA Builds == ASSUME NEW debug \in BOOLEAN, ReleaseInv, Build(debug) PROVE ReleaseInv'
<1> DEFINE man == Manifest(made + 1, 0, tree.proto, debug, "none")
<1> DEFINE at == IF debug THEN "prompt" ELSE "boot"
<1>1. made + 1 \in Images /\ tree.proto \in Nat /\ at \in Before
  BY Bounds DEF ReleaseInv, ReleaseTyped, Build, Images, TreeType, Before
<1>2. man \in EntryType /\ man.is = "manifest" /\ man.id = made + 1
  BY <1>1 DEF Manifest, ManifestType, EntryType, Texts
<1>3. proc' = [Tool("build", at) EXCEPT !.man = man]
  BY DEF Build
<1> HIDE DEF man
<1>4. ReleaseTyped /\ tree \in TreeType /\ proc = Idle
  BY DEF ReleaseInv, ReleaseTyped, Build
<1>5. at \in AtType
  BY DEF AtType, Before
<1> HIDE DEF at
<1>6. proc' \in ProcType /\ proc'.tool = "build" /\ proc'.at = at /\ proc'.man = man
  BY <1>2, <1>3, <1>4, <1>5, IdleIs DEF Tool, ProcType, TreeType, ToolType
<1>7. told' = NoReport /\ UNCHANGED <<dir, box, lock, tree, warmed, spoilt, made, faults>>
  BY DEF Build, outside
<1>8. ReleaseTyped'
  BY <1>4, <1>6, <1>7, IdleIs, QuietTyped DEF ReleaseTyped, ToolType
<1>9. Directory'
  BY <1>4, <1>7, IdleIs, SameDirectory DEF ReleaseInv, Changing
<1>10. dir.top.is = "manifest" => dir.top.id # made + 1
  BY <1>4, Bounds DEF ReleaseInv, ReleaseTyped, Directory, Named
<1>11. Building'
  BY <1>1, <1>2, <1>6, <1>7, <1>10 DEF Building, Before, Saved
<1>12. Noting' /\ Fetching' /\ Packing'
  BY <1>6 DEF Noting, Fetching, Packing
<1>13. Pinned'
  BY <1>4, <1>7, PinnedStays, Bounds DEF ReleaseInv
<1>14. Telling'
  BY <1>7, IdleIs DEF Telling, FetchedIsPinned, CheckedIsLoadable
<1> QED BY <1>8, <1>9, <1>11, <1>12, <1>13, <1>14 DEF ReleaseInv

\* Between two of its writes, or before the first.
LEMMA MovesOn ==
  ASSUME ReleaseInv, proc.tool = "build", NEW at, GoTo(at),
         \/ proc.at \in Before /\ at \in Before
         \/ proc.at = "restore" /\ at = "greet",
         UNCHANGED <<dir, box, lock, tree, told, warmed, spoilt, made, faults>>
  PROVE  ReleaseInv'
<1>1. ReleaseTyped /\ at \in AtType /\ proc \in ProcType
  BY DEF ReleaseInv, ReleaseTyped, AtType, Before, Saved
<1>2. /\ proc' \in ProcType /\ proc'.at = at /\ proc'.tool = "build" /\ proc'.man = proc.man
  BY <1>1, StepIs
<1>3. ReleaseTyped'
  BY <1>1, <1>2, QuietTyped DEF ReleaseTyped, ToolType
<1>4. Directory'
  BY <1>1, SameDirectory DEF ReleaseInv, Changing
<1>5. Building'
  BY <1>2 DEF ReleaseInv, Building, Before, Saved
<1>6. Noting' /\ Fetching' /\ Packing'
  BY <1>2 DEF Noting, Fetching, Packing
<1>7. Pinned'
  BY <1>1, PinnedStays, Bounds DEF ReleaseInv
<1>8. Telling'
  BY IdleIs DEF ReleaseInv, Telling, FetchedIsPinned, CheckedIsLoadable
<1> QED BY <1>3, <1>4, <1>5, <1>6, <1>7, <1>8 DEF ReleaseInv

LEMMA ShellKeeps == ReleaseInv /\ Shell => ReleaseInv'
BY MovesOn DEF Shell, At, outside, Before

LEMMA UpKeeps == ReleaseInv /\ AgentIsUp => ReleaseInv'
BY MovesOn DEF AgentIsUp, Hears, At, outside, Before

LEMMA ReadyKeeps == ReleaseInv /\ AgentIsReady => ReleaseInv'
BY MovesOn DEF AgentIsReady, Hears, At, outside, Before

LEMMA RestoreKeeps == ReleaseInv /\ RestoreAndGreet => ReleaseInv'
BY MovesOn DEF RestoreAndGreet, At, outside

LEMMA ParkedKeeps == ASSUME ReleaseInv, Parked PROVE ReleaseInv'
<1>1. proc.tool = "build" /\ proc.at = "prepare" /\ ~Changing
  BY DEF Parked, Hears, At, Changing
<1>2. UNCHANGED <<dir, box, lock, tree, warmed, spoilt, made, faults>>
  BY DEF Parked, outside
<1>3. CASE Head(line.wire).warm
  BY <1>1, <1>2, <1>3, MovesOn DEF Parked, Before
<1>4. CASE ~Head(line.wire).warm
  BY <1>1, <1>2, <1>4, ToolFailsKeeps DEF Parked, Ends
<1> QED BY <1>3, <1>4

LEMMA RequestFailsKeeps == ASSUME ReleaseInv, RequestFails PROVE ReleaseInv'
<1>1. ~Changing /\ proc' = Idle /\ told' = NoReport
  BY DEF RequestFails, Expecting, At, Changing, Ends
<1> QED BY <1>1, ToolFailsKeeps DEF RequestFails, outside

\* Its own bundle changes, which is not the one the entry point names.
LEMMA OwnBundle ==
  ASSUME ReleaseInv, proc.tool = "build", proc.at # "sweep",
         dir' \in DirType, dir'.top = dir.top,
         \A i \in Images : i # proc.man.id => dir'.bundles[i] = dir.bundles[i],
         made' \in Int, made <= made', proc.man.id <= made', warmed \subseteq warmed', UNCHANGED spoilt
  PROVE  Directory'
<1>1. ReleaseTyped /\ Directory /\ Building /\ ~Changing /\ made \in Int
  BY Bounds DEF ReleaseInv, Changing
<1>2. Seen(dir)'
  BY <1>1 DEF Directory, Seen, Images
<1>3. dir.top.is = "manifest" => dir.top.id # proc.man.id /\ dir.top.id \in Images
  BY <1>1, DirIs DEF Building, ReleaseTyped
<1>4. (dir.top.is = "manifest" => Named(dir.top))'
  BY <1>1, NamedStays DEF Directory, Named
<1>5. (dir.top.is = "manifest" /\ ~spoilt => Complete(dir))'
  BY <1>1, <1>3 DEF Directory, Complete
<1> QED BY <1>2, <1>4, <1>5 DEF Directory

\* While a build runs, nothing but the bundles of the directory and its own progress changes.
LEMMA BuildGoesOn ==
  ASSUME ReleaseInv, proc.tool = "build", proc' \in ProcType, proc'.tool = "build",
         dir' \in DirType, made' \in 0..MaxImages, made <= made', warmed \subseteq warmed', warmed' \subseteq 1..made',
         spoilt' \in BOOLEAN, UNCHANGED <<box, lock, tree, told, faults>>
  PROVE  ReleaseTyped' /\ Noting' /\ Fetching' /\ Packing' /\ Pinned' /\ Telling'
<1>1. ReleaseTyped' 
  BY DEF ReleaseInv, ReleaseTyped, ToolType
<1>2. Noting' /\ Fetching' /\ Packing'
  BY DEF Noting, Fetching, Packing
<1>3. Pinned'
  BY PinnedStays, Bounds, ReleaseAssumption DEF ReleaseInv
<1>4. Telling'
  BY IdleIs DEF ReleaseInv, Telling, FetchedIsPinned, CheckedIsLoadable
<1> QED BY <1>1, <1>2, <1>3, <1>4

\* What Building says of a running build.
LEMMA InHand ==
  ASSUME ReleaseInv, proc.tool = "build"
  PROVE  /\ ReleaseTyped /\ dir \in DirType /\ proc \in ProcType
         /\ proc.man \in EntryType /\ proc.man \in ManifestType /\ Id \in Images /\ made \in Int /\ Id \in Int
         /\ proc.at \in AtType
<1>1. ReleaseTyped /\ dir \in DirType /\ proc \in ProcType /\ proc.man.is = "manifest"
  BY DEF ReleaseInv, ReleaseTyped, Building
<1>2. proc.man \in EntryType /\ proc.at \in AtType
  BY <1>1 DEF ProcType
<1>3. proc.man \in ManifestType
  BY <1>1, <1>2, EntryIs
<1>4. Id \in Images
  BY <1>3 DEF ManifestType, Id
<1> QED BY <1>1, <1>2, <1>3, <1>4, Bounds DEF Images

LEMMA SaveKeeps == ASSUME ReleaseInv, SaveState PROVE ReleaseInv'
<1>1. proc.tool = "build" /\ proc.at = "save"
  BY DEF SaveState, At
<1>2. /\ made' = Id /\ GoTo("files") /\ UNCHANGED <<box, lock, tree, told, warmed, spoilt, faults>>
      /\ Id = made + 1
  BY <1>1 DEF SaveState, outside, ReleaseInv, Building, Before, Id
<1>3. /\ ReleaseTyped /\ dir \in DirType /\ proc \in ProcType /\ Id \in Images /\ made \in Int /\ "files" \in AtType
      /\ made' \in 0..MaxImages /\ made <= made' /\ warmed' \subseteq 1..made'
  BY <1>1, <1>2, InHand DEF AtType, Saved, Images, ReleaseTyped
<1>4. proc' \in ProcType /\ proc'.at = "files" /\ proc'.tool = "build" /\ proc'.man = proc.man
  BY <1>1, <1>2, <1>3, StepIs
<1>5. dir.bundles[Id].parts = {}
  BY <1>2, <1>3, NoBundleIs DEF ReleaseInv, Directory, Seen, Images
<1>6. dir' = WithParts(dir, Id, {"state"})
  BY <1>5 DEF SaveState, Written, WithParts
<1>7. /\ dir' \in DirType /\ dir'.top = dir.top /\ dir'.bundles[Id].parts = {"state"}
      /\ \A i \in Images : i # Id => dir'.bundles[i] = dir.bundles[i]
  <2>1. {"state"} \in SUBSET (Parts \cup {"junk"})
    BY DEF Parts
  <2> QED BY <2>1, <1>3, <1>6, PartsPut
<1>8. Directory'
  BY <1>1, <1>2, <1>3, <1>7, OwnBundle DEF Id
<1>9. Building'
  BY <1>1, <1>2, <1>3, <1>4, <1>7 DEF ReleaseInv, Building, Before, Saved, Id
<1>10. ReleaseTyped' /\ Noting' /\ Fetching' /\ Packing' /\ Pinned' /\ Telling'
  BY <1>1, <1>2, <1>3, <1>4, <1>7, BuildGoesOn DEF ReleaseTyped
<1> QED BY <1>8, <1>9, <1>10 DEF ReleaseInv

LEMMA FilesKeeps == ASSUME ReleaseInv, WriteFiles PROVE ReleaseInv'
<1>1. proc.tool = "build" /\ proc.at = "files"
  BY DEF WriteFiles, At
<1>2. UNCHANGED <<box, lock, tree, told, warmed, spoilt, made, faults>> /\ Id <= made
  BY <1>1 DEF WriteFiles, outside, ReleaseInv, Building, Saved, Id
<1>3. /\ ReleaseTyped /\ dir \in DirType /\ proc \in ProcType /\ Id \in Images /\ made \in Int /\ "manifest" \in AtType
      /\ warmed \subseteq 1..made /\ made \in 0..MaxImages /\ spoilt \in BOOLEAN
  BY <1>1, InHand DEF AtType, Saved, ReleaseTyped
<1>4. "state" \in dir.bundles[Id].parts /\ dir.bundles[Id].parts \subseteq {"state", "rootfs"}
  BY <1>1 DEF ReleaseInv, Building, Id
<1>5. CASE "rootfs" \in dir.bundles[Id].parts
  <2>1. dir' = WithParts(dir, Id, Parts)
    <3>1. dir.bundles[Id].parts \cup {"v86"} = Parts
      BY <1>4, <1>5 DEF Parts
    <3> QED BY <1>5, <3>1 DEF WriteFiles, Written, WithParts
  <2>2. Parts \in SUBSET (Parts \cup {"junk"})
    OBVIOUS
  <2>3. /\ dir' \in DirType /\ dir'.top = dir.top /\ dir'.bundles[Id].parts = Parts
        /\ \A i \in Images : i # Id => dir'.bundles[i] = dir.bundles[i]
    BY <2>1, <2>2, <1>3, PartsPut
  <2>4. proc' \in ProcType /\ proc'.at = "manifest" /\ proc'.tool = "build" /\ proc'.man = proc.man
    BY <1>1, <1>3, <1>5, StepIs DEF WriteFiles
  <2>5. Directory'
    BY <1>1, <1>2, <1>3, <2>3, OwnBundle DEF Id
  <2>6. Building'
    BY <1>1, <1>2, <2>3, <2>4 DEF ReleaseInv, Building, Before, Saved, Id
  <2>7. ReleaseTyped' /\ Noting' /\ Fetching' /\ Packing' /\ Pinned' /\ Telling'
    BY <1>1, <1>2, <1>3, <2>3, <2>4, BuildGoesOn
  <2> QED BY <2>5, <2>6, <2>7 DEF ReleaseInv
<1>6. CASE "rootfs" \notin dir.bundles[Id].parts
  <2>1. dir' = WithParts(dir, Id, {"state", "rootfs"})
    <3>1. dir.bundles[Id].parts \cup {"rootfs"} = {"state", "rootfs"}
      BY <1>4, <1>6
    <3> QED BY <1>6, <3>1 DEF WriteFiles, Written, WithParts
  <2>2. {"state", "rootfs"} \in SUBSET (Parts \cup {"junk"})
    BY DEF Parts
  <2>3. /\ dir' \in DirType /\ dir'.top = dir.top /\ dir'.bundles[Id].parts = {"state", "rootfs"}
        /\ \A i \in Images : i # Id => dir'.bundles[i] = dir.bundles[i]
    BY <2>1, <2>2, <1>3, PartsPut
  <2>4. proc' = proc
    BY <1>6 DEF WriteFiles
  <2>5. Directory'
    BY <1>1, <1>2, <1>3, <2>3, OwnBundle DEF Id
  <2>6. Building'
    BY <1>1, <1>2, <2>3, <2>4 DEF ReleaseInv, Building, Before, Saved, Id
  <2>7. ReleaseTyped' /\ Noting' /\ Fetching' /\ Packing' /\ Pinned' /\ Telling'
    BY <1>1, <1>2, <1>3, <2>3, <2>4, BuildGoesOn
  <2> QED BY <2>5, <2>6, <2>7 DEF ReleaseInv
<1> QED BY <1>5, <1>6

LEMMA DescribedKeeps == ASSUME NEW text, text \in Texts, ReleaseInv, Described(text) PROVE ReleaseInv'
<1> DEFINE man == Manifest(Id, sourceHash, proc.proto, proc.man.debug, text)
<1> DEFINE d == WithText(dir, Id, text)
<1>1. proc.tool = "build" /\ proc.at = "manifest"
  BY DEF Described, At
<1>2. UNCHANGED <<box, lock, tree, told, warmed, spoilt, made, faults>> /\ Id <= made
  BY <1>1 DEF Described, outside, ReleaseInv, Building, Saved, Id
<1>3. /\ ReleaseTyped /\ dir \in DirType /\ proc \in ProcType /\ Id \in Images /\ made \in Int /\ proc.man \in ManifestType
      /\ warmed \subseteq 1..made /\ made \in 0..MaxImages /\ spoilt \in BOOLEAN /\ tree \in TreeType
  BY <1>1, InHand DEF ReleaseTyped
<1>4. sourceHash \in Nat /\ proc.proto \in Nat /\ proc.man.debug \in BOOLEAN
  BY <1>3 DEF TreeType, ProcType, ManifestType, sourceHash
<1>5. /\ man \in EntryType /\ man.is = "manifest" /\ man.id = Id /\ man.notices = text
  BY <1>3, <1>4 DEF Manifest, ManifestType, EntryType
<1>6. dir' = WithManifest(d, Id, man)
  BY <1>5 DEF Described, writeManifest, WithManifest, WithText
<1>7. proc' = [proc EXCEPT !.at = "restore", !.man = man]
  BY DEF Described
<1> HIDE DEF man, d
<1>8. proc' \in ProcType /\ proc'.at = "restore" /\ proc'.tool = "build" /\ proc'.man = man
  BY <1>1, <1>3, <1>5, <1>7 DEF ProcType, AtType, Saved
<1>9. /\ d \in DirType /\ d.top = dir.top /\ d.bundles[Id].text = text /\ d.bundles[Id].parts = dir.bundles[Id].parts
      /\ \A i \in Images : i # Id => d.bundles[i] = dir.bundles[i]
  BY <1>3, TextPut DEF d
<1>10. /\ dir' \in DirType /\ dir'.top = d.top
       /\ dir'.bundles[Id].text = d.bundles[Id].text /\ dir'.bundles[Id].parts = d.bundles[Id].parts
       /\ \A i \in Images : i # Id => dir'.bundles[i] = d.bundles[i]
  BY <1>3, <1>5, <1>6, <1>9, ManifestPut
<1>11. Directory'
  BY <1>1, <1>2, <1>3, <1>9, <1>10, OwnBundle DEF Id
<1>12. Building'
  BY <1>1, <1>2, <1>5, <1>8, <1>9, <1>10 DEF ReleaseInv, Building, Before, Saved, Id
<1>13. ReleaseTyped' /\ Noting' /\ Fetching' /\ Packing' /\ Pinned' /\ Telling'
  BY <1>1, <1>2, <1>3, <1>8, <1>10, BuildGoesOn
<1> QED BY <1>11, <1>12, <1>13 DEF ReleaseInv

LEMMA GreetedKeeps == ASSUME ReleaseInv, Greeted PROVE ReleaseInv'
<1>1. proc.tool = "build" /\ proc.at = "greet" /\ ~Changing
  BY DEF Greeted, Hears, At, Changing
<1>2. UNCHANGED <<dir, box, lock, tree, spoilt, made, faults>> /\ Id <= made
  BY <1>1 DEF Greeted, outside, ReleaseInv, Building, Saved, Id
<1>3. CASE ~Head(line.wire).warm
  BY <1>1, <1>2, <1>3, ToolFailsKeeps DEF Greeted, Ends
<1>4. CASE Head(line.wire).warm
  <2> DEFINE man == [proc.man EXCEPT !.named = TRUE]
  <2>1. /\ ReleaseTyped /\ dir \in DirType /\ proc \in ProcType /\ Id \in Images /\ made \in Int /\ proc.man \in ManifestType
        /\ warmed \subseteq 1..made /\ made \in 0..MaxImages /\ spoilt \in BOOLEAN /\ Id \in Int
    BY <1>1, InHand DEF ReleaseTyped
  <2>2. /\ warmed' = warmed \cup {Id} /\ told' = told
        /\ proc' = [proc EXCEPT !.at = "name", !.man = man]
    BY <1>4 DEF Greeted
  <2>3. man \in EntryType /\ man.is = "manifest" /\ man.id = Id /\ man.named = TRUE /\ man.notices = proc.man.notices
    BY <2>1 DEF EntryType, ManifestType, Id
  <2> HIDE DEF man
  <2>4. proc' \in ProcType /\ proc'.at = "name" /\ proc'.tool = "build" /\ proc'.man = man
    BY <1>1, <2>1, <2>2, <2>3 DEF ProcType, AtType, Saved
  <2>5. Directory'
    BY <1>1, <1>2, <2>1, <2>2, OwnBundle DEF Id
  <2>6. Named(proc.man)'
    BY <2>2, <2>3, <2>4 DEF Named
  <2>7. Building'
    BY <1>1, <1>2, <2>2, <2>3, <2>4, <2>6 DEF ReleaseInv, Building, Before, Saved, Id
  <2>8. warmed' \subseteq 1..made'
    BY <1>2, <2>1, <2>2 DEF Images
  <2>9. ReleaseTyped' /\ Noting' /\ Fetching' /\ Packing' /\ Pinned' /\ Telling'
    BY <1>1, <1>2, <2>1, <2>2, <2>4, <2>8, BuildGoesOn
  <2> QED BY <2>5, <2>7, <2>9 DEF ReleaseInv
<1> QED BY <1>3, <1>4

LEMMA NameKeeps == ASSUME ReleaseInv, NameInterpreter PROVE ReleaseInv'
<1>1. proc.tool = "build" /\ proc.at = "name"
  BY DEF NameInterpreter, At
<1>2. UNCHANGED <<box, lock, tree, told, warmed, spoilt, made, faults>> /\ Id <= made
  BY <1>1 DEF NameInterpreter, outside, ReleaseInv, Building, Saved, Id
<1>3. /\ ReleaseTyped /\ dir \in DirType /\ proc \in ProcType /\ Id \in Images /\ made \in Int /\ proc.man \in EntryType
      /\ warmed \subseteq 1..made /\ made \in 0..MaxImages /\ spoilt \in BOOLEAN /\ "entry" \in AtType
  BY <1>1, InHand DEF ReleaseTyped, AtType, Saved
<1>4. dir' = WithManifest(dir, Id, proc.man)
  BY DEF NameInterpreter, writeManifest, WithManifest, Id
<1>5. proc' \in ProcType /\ proc'.at = "entry" /\ proc'.tool = "build" /\ proc'.man = proc.man
  BY <1>1, <1>3, StepIs DEF NameInterpreter
<1>6. /\ dir' \in DirType /\ dir'.top = dir.top /\ dir'.bundles[Id].manifest = proc.man
      /\ dir'.bundles[Id].text = dir.bundles[Id].text /\ dir'.bundles[Id].parts = dir.bundles[Id].parts
      /\ \A i \in Images : i # Id => dir'.bundles[i] = dir.bundles[i]
  BY <1>3, <1>4, ManifestPut
<1>7. Directory'
  BY <1>1, <1>2, <1>3, <1>6, OwnBundle DEF Id
<1>8. Named(proc.man)'
  BY <1>1, <1>2, <1>5 DEF ReleaseInv, Building, Named
<1>9. Building'
  BY <1>1, <1>2, <1>5, <1>6, <1>8 DEF ReleaseInv, Building, Before, Saved, Id
<1>10. ReleaseTyped' /\ Noting' /\ Fetching' /\ Packing' /\ Pinned' /\ Telling'
  BY <1>1, <1>2, <1>3, <1>5, <1>6, BuildGoesOn
<1> QED BY <1>7, <1>9, <1>10 DEF ReleaseInv

\* What stands in a bundle is what its three fields say.
LEMMA BundleIs ==
  ASSUME NEW bundle \in BundleType
  PROVE  bundle = [manifest |-> bundle.manifest, parts |-> bundle.parts, text |-> bundle.text]
BY DEF BundleType

LEMMA EntryKeeps == ASSUME ReleaseInv, WriteEntry PROVE ReleaseInv'
<1>1. proc.tool = "build" /\ proc.at = "entry"
  BY DEF WriteEntry, At
<1>2. UNCHANGED <<box, lock, tree, told, warmed, made, faults>> /\ Id <= made /\ spoilt' \in BOOLEAN
  BY <1>1 DEF WriteEntry, outside, ReleaseInv, Building, Saved, Id
<1>3. /\ ReleaseTyped /\ dir \in DirType /\ proc \in ProcType /\ Id \in Images /\ made \in Int /\ proc.man \in EntryType
      /\ warmed \subseteq 1..made /\ made \in 0..MaxImages /\ "sweep" \in AtType
  BY <1>1, InHand DEF ReleaseTyped, AtType, Saved
<1> DEFINE d == WithManifest(dir, Id, proc.man)
<1>4. dir' = [d EXCEPT !.top = proc.man]
  BY DEF WriteEntry, writeManifest, WithManifest, Id
<1> HIDE DEF d
<1>5. proc' \in ProcType /\ proc'.at = "sweep" /\ proc'.tool = "build" /\ proc'.man = proc.man
  BY <1>1, <1>3, StepIs DEF WriteEntry
<1>6. /\ d \in DirType /\ d.bundles[Id].manifest = proc.man
      /\ d.bundles[Id].text = dir.bundles[Id].text /\ d.bundles[Id].parts = dir.bundles[Id].parts
      /\ \A i \in Images : i # Id => d.bundles[i] = dir.bundles[i]
  BY <1>3, ManifestPut DEF d
<1>7. dir' \in DirType /\ dir'.top = proc.man /\ dir'.bundles = d.bundles
  BY <1>3, <1>4, <1>6, TopIs
<1>8. Named(proc.man) /\ Named(proc.man)'
  BY <1>1, <1>2, <1>5 DEF ReleaseInv, Building, Named
<1>9. dir'.bundles[Id] = [manifest |-> proc.man, parts |-> Parts, text |-> proc.man.notices]
  <2>1. dir.bundles[Id].parts = Parts /\ dir.bundles[Id].text = proc.man.notices
    BY <1>1 DEF ReleaseInv, Building, Id
  <2>2. d.bundles[Id] \in BundleType
    BY <1>3, <1>6, DirIs
  <2> QED BY <1>6, <1>7, <2>1, <2>2, BundleIs
<1>10. Seen(dir)'
  BY <1>2, <1>3, <1>6, <1>7 DEF ReleaseInv, Directory, Seen, Images
<1>11. Complete(dir)'
  BY <1>7, <1>9 DEF Complete, Id
<1>12. Directory'
  BY <1>5, <1>7, <1>8, <1>10, <1>11 DEF Directory
<1>13. Building'
  BY <1>1, <1>2, <1>5, <1>7, <1>8 DEF ReleaseInv, Building, Before, Saved, Id
<1>14. ReleaseTyped' /\ Noting' /\ Fetching' /\ Packing' /\ Pinned' /\ Telling'
  BY <1>1, <1>2, <1>3, <1>5, <1>7, BuildGoesOn
<1> QED BY <1>12, <1>13, <1>14 DEF ReleaseInv

\* A bundle beside the one that the entry point names goes, or half of it.
LEMMA OtherShrinks ==
  ASSUME ReleaseTyped, Directory, ~Changing, NEW i \in Images, dir.top.is = "manifest" => dir.top.id # i, dir' = Shrunk(dir, i),
         UNCHANGED <<made, warmed, spoilt>>
  PROVE  Directory' /\ dir' \in DirType /\ dir'.top = dir.top /\ (\A j \in Images : j # i => dir'.bundles[j] = dir.bundles[j])
<1>1. dir \in DirType
  BY DEF ReleaseTyped
<1>2. /\ dir' \in DirType /\ dir'.top = dir.top
      /\ \A j \in Images : j # i => dir'.bundles[j] = dir.bundles[j]
      /\ dir.bundles[i] = NoBundle => dir'.bundles[i] = NoBundle
  BY <1>1, ShrunkIs
<1>3. dir.top.is = "manifest" => dir.top.id \in Images
  BY <1>1, DirIs
<1>4. Seen(dir)'
  BY <1>2 DEF Directory, Seen
<1>5. (dir.top.is = "manifest" => Named(dir.top))'
  BY <1>2 DEF Directory, Named
<1>6. (dir.top.is = "manifest" /\ ~spoilt /\ ~Changing => Complete(dir))'
  BY <1>2, <1>3 DEF Directory, Complete
<1> QED BY <1>2, <1>4, <1>5, <1>6 DEF Directory

LEMMA RemoveKeeps == ASSUME ReleaseInv, RemoveOtherBundles PROVE ReleaseInv'
<1>1. proc.tool = "build" /\ proc.at = "sweep" /\ ~Changing
  BY DEF RemoveOtherBundles, At, Changing
<1>2. UNCHANGED <<box, lock, tree, warmed, spoilt, made, faults>>
  BY DEF RemoveOtherBundles, outside
<1>3. CASE Ends(proc, TRUE) /\ UNCHANGED dir
  BY <1>1, <1>2, <1>3, ToolFailsKeeps DEF Ends
<1>4. ASSUME NEW i \in Images \ {Id}, dir' = Shrunk(dir, i), UNCHANGED <<proc, told>> PROVE ReleaseInv'
  <2>1. /\ ReleaseTyped /\ proc.man = dir.top /\ i # dir.top.id /\ made \in 0..MaxImages /\ warmed \subseteq 1..made
        /\ proc \in ProcType /\ spoilt \in BOOLEAN /\ made \in Int
    BY <1>1, InHand DEF ReleaseInv, Building, Id, ReleaseTyped
  <2>2. Directory' /\ dir' \in DirType /\ dir'.top = dir.top
    BY <1>1, <1>2, <1>4, <2>1, OtherShrinks DEF ReleaseInv
  <2>3. Building'
    BY <1>1, <1>2, <1>4, <2>1, <2>2 DEF ReleaseInv, Building, Before, Saved, Named
  <2>4. ReleaseTyped' /\ Noting' /\ Fetching' /\ Packing' /\ Pinned' /\ Telling'
    BY <1>1, <1>2, <1>4, <2>1, <2>2, BuildGoesOn
  <2> QED BY <2>2, <2>3, <2>4 DEF ReleaseInv
<1> QED BY <1>3, <1>4 DEF RemoveOtherBundles

LEMMA BuildKeeps == ASSUME ReleaseInv, BuildStep PROVE ReleaseInv'
BY Builds, ShellKeeps, UpKeeps, ReadyKeeps, ParkedKeeps, SaveKeeps, FilesKeeps, DescribedKeeps, RestoreKeeps, GreetedKeeps,
   NameKeeps, EntryKeeps, RemoveKeeps DEF BuildStep

---------------------------------------------------------------------------
(* write-notices and package-image *)

\* An image that the entry point names was saved.
LEMMA TopIsSaved ==
  ASSUME ReleaseTyped, Directory, dir.top.is = "manifest"
  PROVE  /\ dir \in DirType /\ dir.top \in ManifestType /\ dir.top.id \in Images /\ dir.top.id <= made /\ Named(dir.top)
<1>1. dir \in DirType
  BY DEF ReleaseTyped
<1>2. dir.top \in ManifestType /\ dir.top.id \in Images /\ Named(dir.top)
  BY <1>1, DirIs DEF Directory
<1>3. dir.top.id \in 1..made
  BY <1>2 DEF ReleaseTyped, Named
<1> QED BY <1>1, <1>2, <1>3, Bounds

LEMMA NoticesKeeps == ASSUME NEW text, text \in {"bare", "full"}, ReleaseInv, WriteNotices(text) PROVE ReleaseInv'
<1> DEFINE man == [dir.top EXCEPT !.notices = text]
<1>1. /\ ReleaseTyped /\ Directory /\ proc = Idle /\ ~Changing /\ dir.top.is = "manifest" /\ tree \in TreeType
      /\ spoilt \in BOOLEAN /\ faults \in 0..MaxFaults /\ made \in Int
  BY IdleIs, Bounds DEF ReleaseInv, WriteNotices, Changing, ReleaseTyped
<1>2. /\ dir \in DirType /\ dir.top \in ManifestType /\ dir.top.id \in Images /\ dir.top.id <= made /\ Named(dir.top)
  BY <1>1, TopIsSaved
<1>3. UNCHANGED <<box, lock, tree, warmed, spoilt, made, faults>> /\ told' = NoReport
  BY DEF WriteNotices, outside
<1>4. dir' = WithText(dir, dir.top.id, text)
  BY DEF WriteNotices, WithText
<1>5. /\ dir' \in DirType /\ dir'.top = dir.top /\ dir'.bundles[dir.top.id].text = text
      /\ dir'.bundles[dir.top.id].parts = dir.bundles[dir.top.id].parts
      /\ \A i \in Images : i # dir.top.id => dir'.bundles[i] = dir.bundles[i]
  <2>1. text \in Texts
    BY DEF Texts
  <2> QED BY <1>2, <1>4, <2>1, TextPut
<1>6. man \in EntryType /\ man.is = "manifest" /\ man.id = dir.top.id /\ man.named = dir.top.named /\ man.notices = text
  BY <1>2 DEF ManifestType, EntryType, Texts
<1>7. proc' = [Tool("notices", "top") EXCEPT !.man = man]
  BY DEF WriteNotices
<1> HIDE DEF man
<1>8. proc' \in ProcType /\ proc'.tool = "notices" /\ proc'.at = "top" /\ proc'.man = man
  BY <1>1, <1>6, <1>7, IdleIs DEF Tool, ProcType, TreeType, ToolType, AtType
<1>9. ReleaseTyped'
  BY <1>1, <1>3, <1>5, <1>8, IdleIs, QuietTyped DEF ToolType
<1>10. Directory'
  BY <1>1, <1>2, <1>3, <1>5, <1>8 DEF Directory, Seen, Named, Changing, Images
<1>11. Noting'
  <2>1. Named(proc.man)'
    BY <1>2, <1>3, <1>6, <1>8 DEF Named
  <2>2. ~spoilt => dir.bundles[dir.top.id].parts = Parts
    BY <1>1 DEF Directory, Complete
  <2> QED BY <1>1, <1>3, <1>5, <1>6, <1>8, <2>1, <2>2 DEF Noting
<1>12. Building' /\ Fetching' /\ Packing'
  BY <1>8 DEF Building, Fetching, Packing
<1>13. Pinned'
  BY <1>1, <1>3, PinnedStays, Bounds DEF ReleaseInv
<1>14. Telling'
  BY <1>3, IdleIs DEF Telling, FetchedIsPinned, CheckedIsLoadable
<1> QED BY <1>9, <1>10, <1>11, <1>12, <1>13, <1>14 DEF ReleaseInv

LEMMA NamedKeeps == ASSUME ReleaseInv, NoticesNamed PROVE ReleaseInv'
<1>1. /\ ReleaseTyped /\ Directory /\ proc.tool = "notices" /\ Noting /\ dir \in DirType /\ proc \in ProcType /\ made \in Int
      /\ spoilt \in BOOLEAN /\ faults \in 0..MaxFaults
  BY Bounds DEF ReleaseInv, NoticesNamed, ReleaseTyped
<1>2. UNCHANGED <<box, lock, tree, warmed, spoilt, made, faults>>
  BY DEF NoticesNamed, outside
<1>3. /\ Named(proc.man) /\ dir.top.id = proc.man.id /\ dir.top.is = "manifest" /\ proc.at \in {"top", "bundle"}
      /\ proc.man \in EntryType /\ proc.man.id \in Images /\ proc.man.id <= made
  <2>1. proc.man \in EntryType /\ Named(proc.man) /\ dir.top.id = proc.man.id /\ dir.top.is = "manifest" /\ proc.at \in {"top", "bundle"}
    BY <1>1 DEF ProcType, Noting
  <2>2. proc.man.id \in Images /\ proc.man.id <= made
    BY <1>1, <2>1, TopIsSaved
  <2> QED BY <2>1, <2>2
<1>4. CASE proc.at = "top"
  <2>1. dir' = [dir EXCEPT !.top = proc.man] /\ GoTo("bundle") /\ UNCHANGED told
    BY <1>4 DEF NoticesNamed
  <2>2. dir' \in DirType /\ dir'.top = proc.man /\ dir'.bundles = dir.bundles
    BY <1>1, <1>3, <2>1, TopIs
  <2>3. proc' \in ProcType /\ proc'.tool = "notices" /\ proc'.at = "bundle" /\ proc'.man = proc.man
    BY <1>1, <2>1, StepIs DEF AtType
  <2>4. ReleaseTyped'
    BY <1>1, <1>2, <2>1, <2>2, <2>3, QuietTyped DEF ReleaseTyped, ToolType
  <2>5. Directory'
    BY <1>1, <1>2, <1>3, <2>2, <2>3 DEF Directory, Seen, Named, Changing
  <2>6. Noting'
    BY <1>1, <1>2, <1>3, <2>2, <2>3 DEF Noting, Named
  <2>7. Building' /\ Fetching' /\ Packing'
    BY <2>3 DEF Building, Fetching, Packing
  <2>8. Pinned'
    BY <1>1, <1>2, PinnedStays, Bounds DEF ReleaseInv
  <2>9. Telling'
    BY <1>1, <2>1, <2>3, IdleIs DEF ReleaseInv, Telling, FetchedIsPinned, CheckedIsLoadable
  <2> QED BY <2>4, <2>5, <2>6, <2>7, <2>8, <2>9 DEF ReleaseInv
<1>5. CASE proc.at = "bundle"
  <2>1. dir' = WithManifest(dir, proc.man.id, proc.man) /\ proc' = Idle /\ told' = NoReport
    BY <1>1, <1>5 DEF NoticesNamed, writeManifest, WithManifest, Ends
  <2>2. /\ dir' \in DirType /\ dir'.top = dir.top /\ dir'.bundles[proc.man.id].manifest = proc.man
        /\ dir'.bundles[proc.man.id].text = dir.bundles[proc.man.id].text
        /\ dir'.bundles[proc.man.id].parts = dir.bundles[proc.man.id].parts
        /\ \A i \in Images : i # proc.man.id => dir'.bundles[i] = dir.bundles[i]
    BY <1>1, <1>3, <2>1, ManifestPut
  <2>3. ReleaseTyped'
    BY <1>1, <1>2, <2>1, <2>2, IdleIs, QuietTyped DEF ToolType
  <2>4. dir.top = proc.man
    BY <1>1, <1>5 DEF Noting
  <2>5. ~spoilt => dir'.bundles[proc.man.id] = [manifest |-> proc.man, parts |-> Parts, text |-> proc.man.notices]
    <3>1. dir'.bundles[proc.man.id] \in BundleType
      BY <1>3, <2>2, DirIs
    <3> QED BY <1>1, <2>2, <3>1, BundleIs DEF Noting
  <2>6. Seen(dir)'
    BY <1>1, <1>2, <1>3, <2>2 DEF Directory, Seen, Images
  <2>7. (dir.top.is = "manifest" => Named(dir.top))'
    BY <1>2, <1>3, <2>2, <2>4 DEF Named
  <2>8. (~spoilt => Complete(dir))'
    BY <1>2, <2>2, <2>4, <2>5 DEF Complete
  <2>9. Directory'
    BY <2>6, <2>7, <2>8 DEF Directory
  <2>10. Building' /\ Noting' /\ Fetching' /\ Packing'
    BY <2>1, AtRest
  <2>11. Pinned'
    BY <1>1, <1>2, PinnedStays, Bounds DEF ReleaseInv
  <2>12. Telling'
    BY <2>1, IdleIs DEF Telling, FetchedIsPinned, CheckedIsLoadable
  <2> QED BY <2>3, <2>9, <2>10, <2>11, <2>12 DEF ReleaseInv
<1> QED BY <1>3, <1>4, <1>5

\* What is packed is the image that the entry point names, and nothing beside it.
LEMMA PackedIsGood ==
  ASSUME ReleaseTyped, Directory, Verified(dir, tree.proto), ~dir.top.debug, dir.top.notices = "full",
         NEW archive, archive = Only(dir, dir.top.id)
  PROVE  /\ archive \in DirType /\ archive.top.id \in Images
         /\ Pin(archive) \in PinType /\ Pin(archive).id = archive.top.id /\ GoodPin(Pin(archive))
<1>1. dir.top.is = "manifest" /\ dir.top.proto = tree.proto
  BY DEF Verified
<1>2. /\ dir \in DirType /\ dir.top \in ManifestType /\ dir.top.id \in Images /\ Named(dir.top)
  BY <1>1, TopIsSaved
<1>3. /\ archive \in DirType /\ archive.top = dir.top /\ archive.bundles[dir.top.id] = dir.bundles[dir.top.id]
      /\ \A i \in Images : i # dir.top.id => archive.bundles[i] = NoBundle
  BY <1>2, OnlyIs
<1>4. archive = Only(archive, dir.top.id)
  BY <1>2, <1>3, OnlyIs
<1> DEFINE pin == Pin(archive)
<1>5. /\ pin \in PinType /\ pin.id = dir.top.id /\ pin.sum = archive /\ pin.source = dir.top.source /\ pin.proto = dir.top.proto
  BY <1>2, <1>3 DEF Pin, PinType, ManifestType
<1> HIDE DEF pin
<1>6. Seen(archive)
  BY <1>2, <1>3 DEF Directory, Seen
<1>7. Verified(archive, pin.proto)
  BY <1>1, <1>3, <1>5 DEF Verified
<1>8. GoodPin(pin)
  BY <1>2, <1>3, <1>4, <1>5, <1>6, <1>7 DEF GoodPin
<1> QED BY <1>2, <1>3, <1>5, <1>8 DEF pin

LEMMA PackageKeeps == ASSUME NEW stale \in BOOLEAN, ReleaseInv, Package(stale) PROVE ReleaseInv'
<1> DEFINE archive == Only(dir, dir.top.id)
<1> DEFINE ok == /\ Verified(dir, tree.proto) /\ ~dir.top.debug /\ dir.top.notices = "full"
                 /\ stale \/ dir.top.source = sourceHash
<1>1. /\ ReleaseTyped /\ Directory /\ proc = Idle /\ ~Changing /\ tree \in TreeType /\ dir \in DirType /\ box \in BoxType
      /\ spoilt \in BOOLEAN /\ faults \in 0..MaxFaults /\ made \in Int /\ proc.tool = "none"
  BY IdleIs, Bounds DEF ReleaseInv, Package, Changing, ReleaseTyped
<1>2. UNCHANGED <<dir, lock, tree, warmed, spoilt, made, faults>>
  BY DEF Package
<1>3. CASE ~ok
  <2>1. proc' = Idle /\ told' = NoReport /\ box' = box
    BY <1>3 DEF Package, Ends
  <2> QED BY <1>1, <1>2, <2>1, ToolFailsKeeps
<1>4. CASE ok
  <2>1. /\ box' = [box EXCEPT !.archive[archive.top.id] = archive] /\ told' = NoReport
        /\ proc' = [Tool("package", "pin") EXCEPT !.pin = Pin(archive)]
    BY <1>4 DEF Package
  <2>2. /\ archive \in DirType /\ archive.top.id \in Images
        /\ Pin(archive) \in PinType /\ GoodPin(Pin(archive))
    BY <1>1, <1>4, PackedIsGood
  <2> HIDE DEF archive
  <2>3. box' \in BoxType /\ box'.pin = box.pin
    BY <1>1, <2>1, <2>2 DEF BoxType
  <2>4. proc' \in ProcType /\ proc'.tool = "package" /\ proc'.pin = Pin(archive)
    BY <1>1, <2>1, <2>2, IdleIs DEF Tool, ProcType, TreeType, ToolType, AtType, PinOrNone
  <2>5. ReleaseTyped'
    BY <1>1, <1>2, <2>1, <2>3, <2>4, IdleIs DEF ReleaseTyped, ToolType
  <2>6. Directory'
    BY <1>1, <1>2, SameDirectory
  <2>7. GoodPin(proc.pin)'
    <3>1. \A pin : GoodPin(pin) => GoodPin(pin)'
      BY <1>1, <1>2, PinStays
    <3>2. \A pin : GoodPin(pin)' /\ pin = proc'.pin => GoodPin(proc.pin)'
      BY DEF GoodPin, Named, Seen, Verified
    <3>3. \A pin : GoodPin(pin) /\ pin = proc'.pin => GoodPin(proc.pin)'
      BY <3>1, <3>2
    <3> QED BY <2>2, <2>4, <3>3
  <2>8. Packing' /\ Building' /\ Noting' /\ Fetching'
    BY <2>4, <2>7 DEF Packing, Building, Noting, Fetching
  <2>9. Pinned'
    BY <1>1, <1>2, <2>3, PinStays DEF ReleaseInv, Pinned
  <2>10. Telling'
    BY <2>1, IdleIs DEF Telling, FetchedIsPinned, CheckedIsLoadable
  <2> QED BY <2>5, <2>6, <2>8, <2>9, <2>10 DEF ReleaseInv
<1> QED BY <1>3, <1>4

LEMMA PackedKeeps == ASSUME ReleaseInv, PackagePin PROVE ReleaseInv'
<1>1. /\ ReleaseTyped /\ Directory /\ ~Changing /\ box \in BoxType /\ proc \in ProcType /\ GoodPin(proc.pin) /\ dir \in DirType
      /\ spoilt \in BOOLEAN /\ faults \in 0..MaxFaults /\ made \in Int
  BY Bounds DEF ReleaseInv, PackagePin, At, Changing, ReleaseTyped, Packing
<1>2. /\ UNCHANGED <<dir, lock, tree, warmed, spoilt, made, faults>> /\ proc' = Idle /\ told' = NoReport
      /\ box' = [box EXCEPT !.pin[proc.pin.id] = proc.pin]
  BY DEF PackagePin, At, Ends
<1>3. proc.pin \in PinType /\ proc.pin \in PinOrNone /\ proc.pin.id \in Images
  BY <1>1 DEF GoodPin, PinType, PinOrNone
<1>4. /\ box' \in BoxType /\ box'.pin[proc.pin.id] = proc.pin
      /\ \A id \in Images : id # proc.pin.id => box'.pin[id] = box.pin[id]
  BY <1>1, <1>2, <1>3 DEF BoxType
<1>5. ReleaseTyped'
  BY <1>1, <1>2, <1>4, IdleIs DEF ReleaseTyped, ToolType
<1>6. Directory'
  BY <1>1, <1>2, SameDirectory
<1>7. Building' /\ Noting' /\ Fetching' /\ Packing'
  BY <1>2, AtRest
<1>8. \A id \in Images : box'.pin[id] # None => GoodPin(box'.pin[id])
  BY <1>1, <1>4 DEF ReleaseInv, Pinned
<1>9. lock # None => GoodPin(lock)
  BY DEF ReleaseInv, Pinned
<1>10. \A pin : GoodPin(pin) => GoodPin(pin)'
  BY <1>1, <1>2, PinStays
<1>11. Pinned'
  BY <1>2, <1>8, <1>9, <1>10 DEF Pinned
<1>12. Telling'
  BY <1>2, IdleIs DEF Telling, FetchedIsPinned, CheckedIsLoadable
<1> QED BY <1>5, <1>6, <1>7, <1>11, <1>12 DEF ReleaseInv

---------------------------------------------------------------------------
(* fetch-image and check-image-pin *)

LEMMA SamePin ==
  ASSUME UNCHANGED <<made, warmed>>, NEW pin, GoodPin(pin), proc'.pin = pin
  PROVE  GoodPin(proc.pin)'
BY DEF GoodPin, Named, Seen, Verified

LEMMA FetchKeeps == ASSUME NEW force \in BOOLEAN, ReleaseInv, Fetch(force) PROVE ReleaseInv'
<1> DEFINE p == [Tool("fetch", "download") EXCEPT !.force = force, !.pin = lock, !.before = dir]
<1> DEFINE looks == ~force /\ dir.top # None
<1> DEFINE refused == \/ lock = None \/ lock.proto # tree.proto
                      \/ looks /\ (dir.top = Torn \/ dir.top.id # lock.id)
<1>1. /\ ReleaseTyped /\ Directory /\ proc = Idle /\ ~Changing /\ tree \in TreeType /\ dir \in DirType /\ lock \in PinOrNone
      /\ spoilt \in BOOLEAN /\ faults \in 0..MaxFaults /\ made \in Int
  BY IdleIs, Bounds DEF ReleaseInv, Fetch, Changing, ReleaseTyped
<1>2. UNCHANGED <<dir, box, lock, tree, warmed, spoilt, made, faults>>
  BY DEF Fetch, outside
<1>3. CASE refused
  <2>1. proc' = Idle /\ told' = NoReport
    BY <1>3 DEF Fetch, Ends
  <2> QED BY <1>1, <1>2, <2>1, ToolFailsKeeps
<1>4. CASE ~refused
  <2>1. /\ p \in ProcType /\ p.tool = "fetch" /\ p.at = "download" /\ p.force = force /\ p.pin = lock /\ p.before = dir
        /\ p.proto = tree.proto
    BY <1>1, IdleIs DEF Tool, ProcType, TreeType, ToolType, AtType, Unchanged
  <2>2. told' = NoReport /\ proc' = IF looks /\ Kept(lock, p.proto) THEN [p EXCEPT !.at = "sweep"] ELSE p
    BY <1>4 DEF Fetch
  <2> HIDE DEF p
  <2>3. /\ proc' \in ProcType /\ proc'.tool = "fetch" /\ proc'.force = force /\ proc'.pin = lock /\ proc'.before = dir
        /\ proc'.proto = tree.proto /\ proc'.at = IF looks /\ Kept(lock, p.proto) THEN "sweep" ELSE "download"
    BY <2>1, <2>2 DEF ProcType, AtType, Unchanged
  <2>4. GoodPin(lock) /\ lock.proto = tree.proto
    BY <1>4 DEF ReleaseInv, Pinned
  <2>5. GoodPin(proc.pin)'
    BY <1>2, <2>3, <2>4, SamePin
  <2>6. ReleaseTyped'
    BY <1>1, <1>2, <2>2, <2>3, IdleIs, QuietTyped DEF ToolType
  <2>7. Directory'
    BY <1>1, <1>2, SameDirectory
  <2>8. Fetching'
    <3>1. ~force => dir.top = None \/ dir.top.id = lock.id
      BY <1>4
    <3>2. looks /\ Kept(lock, p.proto) => Verified(dir, tree.proto) /\ dir.top.id = lock.id /\ dir.top.source = lock.source
      BY <1>4, <2>1 DEF Kept
    <3>3. Verified(dir, tree.proto) => Verified(dir, proc.proto)'
      BY <1>2, <2>3 DEF Verified
    <3> QED BY <1>2, <2>3, <2>4, <2>5, <3>1, <3>2, <3>3 DEF Fetching, Unchanged
  <2>9. Building' /\ Noting' /\ Packing'
    BY <2>3 DEF Building, Noting, Packing
  <2>10. Pinned'
    BY <1>1, <1>2, PinnedStays DEF ReleaseInv
  <2>11. Telling'
    BY <2>2, IdleIs DEF Telling, FetchedIsPinned, CheckedIsLoadable
  <2> QED BY <2>6, <2>7, <2>8, <2>9, <2>10, <2>11 DEF ReleaseInv
<1> QED BY <1>3, <1>4

\* fetch-image goes on: to the end of its checks, or with the directory in pieces.
LEMMA FetchGoesOn ==
  ASSUME ReleaseInv, proc.tool = "fetch", NEW at, at \in Unchanged \cup Replacing, GoTo(at) \/ (proc' = proc /\ at = proc.at),
         dir' \in DirType, Directory', UNCHANGED <<box, lock, tree, told, warmed, spoilt, made, faults>>,
         at \in {"download", "unpack"} => proc.at \in {"download", "unpack"} /\ dir' = dir,
         at = "sweep" => (Verified(dir, proc.proto) /\ dir.top.id = proc.pin.id /\ dir.top.source = proc.pin.source)'
  PROVE  ReleaseInv'
<1>1. /\ ReleaseTyped /\ proc \in ProcType /\ at \in AtType /\ Fetching /\ proc.at \in Unchanged \cup Replacing /\ made \in Int
      /\ spoilt \in BOOLEAN /\ faults \in 0..MaxFaults
  BY Bounds DEF ReleaseInv, ReleaseTyped, AtType, Fetching
<1>2. /\ proc' \in ProcType /\ proc'.at = at /\ proc'.tool = "fetch" /\ proc'.force = proc.force /\ proc'.proto = proc.proto
      /\ proc'.pin = proc.pin /\ proc'.before = proc.before
  BY <1>1, StepIs
<1>3. ReleaseTyped'
  BY <1>1, <1>2, QuietTyped DEF ReleaseTyped, ToolType
<1>4. GoodPin(proc.pin)'
  BY <1>1, <1>2, SamePin DEF Fetching
<1>5. Fetching'
  BY <1>1, <1>2, <1>4 DEF Fetching
<1>6. Building' /\ Noting' /\ Packing'
  BY <1>2 DEF Building, Noting, Packing
<1>7. Pinned'
  BY <1>1, PinnedStays DEF ReleaseInv
<1>8. Telling'
  BY <1>2, IdleIs DEF ReleaseInv, Telling, FetchedIsPinned, CheckedIsLoadable
<1> QED BY <1>3, <1>5, <1>6, <1>7, <1>8 DEF ReleaseInv

\* ... and ends when the pinned image is all that is there.
LEMMA FetchEnds ==
  ASSUME ReleaseInv, proc.tool = "fetch", Ends(proc, TRUE), dir' \in DirType, Directory',
         (Verified(dir, told.proto) /\ dir = Only(dir, told.pin.id) /\ dir.top.id = told.pin.id
          /\ dir.top.source = told.pin.source)',
         UNCHANGED <<box, lock, tree, warmed, made, faults>>, spoilt' \in BOOLEAN
  PROVE  ReleaseInv'
<1>1. ReleaseTyped /\ proc \in ProcType /\ made \in Int /\ faults \in 0..MaxFaults
  BY Bounds DEF ReleaseInv, ReleaseTyped
<1>2. proc' = Idle /\ told' = Report(proc, TRUE)
  BY DEF Ends
<1>3. told' \in ReportType /\ told'.tool = "fetch"
  BY <1>1, <1>2 DEF Report, ReportType, ProcType, ToolType
<1>4. ReleaseTyped'
  BY <1>1, <1>2, <1>3, IdleIs, QuietTyped DEF ToolType
<1>5. Building' /\ Noting' /\ Fetching' /\ Packing'
  BY <1>2, AtRest
<1>6. Pinned'
  BY <1>1, PinnedStays DEF ReleaseInv
<1>7. Telling'
  BY <1>2, <1>3, IdleIs DEF Telling, FetchedIsPinned, CheckedIsLoadable
<1> QED BY <1>4, <1>5, <1>6, <1>7 DEF ReleaseInv

LEMMA ReportIs ==
  ASSUME Ends(proc, TRUE), proc.tool = "fetch"
  PROVE  told'.pin = proc.pin /\ told'.proto = proc.proto
BY DEF Ends, Report

LEMMA SweepsKeeps == ASSUME ReleaseInv, FetchSweeps PROVE ReleaseInv'
<1>1. /\ ReleaseTyped /\ Directory /\ ~Changing /\ dir \in DirType /\ proc.tool = "fetch" /\ proc.at = "sweep" /\ spoilt \in BOOLEAN
      /\ Verified(dir, proc.proto) /\ dir.top.id = proc.pin.id /\ dir.top.source = proc.pin.source /\ proc.pin.id \in Images
  BY DEF ReleaseInv, FetchSweeps, At, Changing, Replacing, ReleaseTyped, Fetching, GoodPin, PinType
<1>2. UNCHANGED <<box, lock, tree, warmed, spoilt, made, faults>>
  BY DEF FetchSweeps, outside
<1>3. CASE {i \in Images \ {proc.pin.id} : dir.bundles[i] # NoBundle} = {}
  <2>1. Ends(proc, TRUE) /\ dir' = dir
    BY <1>3 DEF FetchSweeps
  <2>2. dir = Only(dir, proc.pin.id)
    BY <1>1, <1>3, OnlyIs
  <2>3. told'.pin = proc.pin /\ told'.proto = proc.proto
    BY <1>1, <2>1, ReportIs
  <2>4. (Verified(dir, told.proto) /\ dir = Only(dir, told.pin.id) /\ dir.top.id = told.pin.id
         /\ dir.top.source = told.pin.source)'
    BY <1>1, <2>1, <2>2, <2>3 DEF Verified, Only
  <2>5. Directory'
    BY <1>1, <1>2, <2>1, SameDirectory
  <2> QED BY <1>1, <1>2, <2>1, <2>4, <2>5, FetchEnds
<1>4. CASE {i \in Images \ {proc.pin.id} : dir.bundles[i] # NoBundle} # {}
  <2>1. PICK i \in Images \ {proc.pin.id} : dir' = Shrunk(dir, i) /\ UNCHANGED <<proc, told>>
    BY <1>4 DEF FetchSweeps
  <2>2. /\ Directory' /\ dir' \in DirType /\ dir'.top = dir.top
        /\ \A j \in Images : j # i => dir'.bundles[j] = dir.bundles[j]
    BY <1>1, <1>2, <2>1, OtherShrinks
  <2>3. (Verified(dir, proc.proto) /\ dir.top.id = proc.pin.id /\ dir.top.source = proc.pin.source)'
    BY <1>1, <2>1, <2>2 DEF Verified
  <2>4. proc' = proc
    BY <2>1
  <2> QED BY <1>1, <1>2, <2>1, <2>2, <2>3, <2>4, FetchGoesOn DEF Unchanged
<1> QED BY <1>3, <1>4

\* Until here it has only looked.
LEMMA LooksKeep == ASSUME ReleaseInv, Download \/ Unpack PROVE ReleaseInv'
<1>1. /\ ReleaseTyped /\ Directory /\ ~Changing /\ dir \in DirType /\ proc.tool = "fetch" /\ proc.at \in {"download", "unpack"}
  BY DEF ReleaseInv, Download, Unpack, At, Changing, Replacing, ReleaseTyped
<1>2. UNCHANGED <<dir, box, lock, tree, warmed, spoilt, made, faults>>
  BY DEF Download, Unpack, outside
<1>3. CASE Ends(proc, FALSE)
  BY <1>1, <1>2, <1>3, ToolFailsKeeps DEF Ends
<1>4. ASSUME NEW at, at \in {"unpack", "remove"}, GoTo(at), UNCHANGED told PROVE ReleaseInv'
  <2>1. Directory'
    BY <1>1, <1>2, SameDirectory
  <2> QED BY <1>1, <1>2, <1>4, <2>1, FetchGoesOn DEF Unchanged, Replacing
<1> QED BY <1>3, <1>4 DEF Download, Unpack

\* While the directory is replaced it need not be whole, but what it has is good.
LEMMA RemovesKeep == ASSUME ReleaseInv, RemoveOld PROVE ReleaseInv'
<1>1. /\ ReleaseTyped /\ Directory /\ Changing /\ dir \in DirType /\ proc.tool = "fetch" /\ proc.at = "remove" /\ spoilt \in BOOLEAN
  BY DEF ReleaseInv, RemoveOld, At, Changing, Replacing, ReleaseTyped
<1>2. UNCHANGED <<box, lock, tree, told, warmed, spoilt, made, faults>>
  BY DEF RemoveOld, outside
<1>3. CASE dir = EmptyDir
  <2>1. dir' = dir /\ GoTo("move")
    BY <1>3 DEF RemoveOld
  <2>2. proc'.tool = "fetch" /\ proc'.at = "move"
    BY <1>1, <2>1, StepIs DEF ReleaseTyped, AtType, Replacing
  <2>3. Directory'
    BY <1>1, <1>2, <2>1, <2>2 DEF Directory, Changing, Replacing, Seen, Named
  <2> QED BY <1>1, <1>2, <2>1, <2>3, FetchGoesOn DEF Unchanged, Replacing
<1>4. CASE dir # EmptyDir
  <2>1. proc' = proc /\ Changing'
    BY <1>1, <1>4 DEF RemoveOld, Changing
  <2>2. /\ dir' \in DirType /\ dir'.top \in {dir.top, None}
        /\ \A i \in Images : dir.bundles[i] = NoBundle => dir'.bundles[i] = NoBundle
    <3>1. CASE dir' = [dir EXCEPT !.top = None]
      BY <1>1, <3>1, EntryIs, TopIs
    <3>2. ASSUME NEW i \in Images, dir' = Shrunk(dir, i)
          PROVE  /\ dir' \in DirType /\ dir'.top = dir.top
                 /\ \A j \in Images : dir.bundles[j] = NoBundle => dir'.bundles[j] = NoBundle
      BY <1>1, <3>2, ShrunkIs
    <3> QED BY <1>4, <3>1, <3>2 DEF RemoveOld
  <2>3. Directory'
    BY <1>1, <1>2, <2>1, <2>2, EntryIs DEF Directory, Seen, Named
  <2> QED BY <1>1, <1>2, <2>1, <2>2, <2>3, FetchGoesOn DEF Unchanged, Replacing
<1> QED BY <1>3, <1>4

\* What has passed the checks of fetch-image.
LEMMA StagedIs ==
  ASSUME ReleaseInv, proc.tool = "fetch"
  PROVE  LET new == proc.pin.sum
             id == proc.pin.id
         IN /\ new \in DirType /\ id \in Images /\ Seen(new) /\ Named(new.top) /\ Complete(new) /\ new.top.id = id
            /\ new.top \in EntryType /\ new.bundles[id] \in BundleType
            /\ Verified(new, proc.proto) /\ new = Only(new, id) /\ new.top.source = proc.pin.source
<1>1. GoodPin(proc.pin) /\ proc.proto = proc.pin.proto
  BY DEF ReleaseInv, Fetching
<1>2. proc.pin.sum \in DirType /\ proc.pin.id \in Images
  BY <1>1 DEF GoodPin, PinType
<1>3. proc.pin.sum.top \in EntryType /\ proc.pin.sum.bundles[proc.pin.id] \in BundleType
  BY <1>2, DirIs
<1> QED BY <1>1, <1>2, <1>3 DEF GoodPin, Verified, Complete

LEMMA ReplacedKeeps ==
  ASSUME ReleaseInv, proc.tool = "fetch", dir' = proc.pin.sum, spoilt' = FALSE, Ends(proc, TRUE),
         UNCHANGED <<box, lock, tree, warmed, made, faults>>
  PROVE  ReleaseInv'
<1> DEFINE new == proc.pin.sum
<1>1. /\ new \in DirType /\ Seen(new) /\ Named(new.top) /\ Complete(new) /\ new.top.id = proc.pin.id
      /\ Verified(new, proc.proto) /\ new = Only(new, proc.pin.id) /\ new.top.source = proc.pin.source
  BY StagedIs
<1>2. told'.pin = proc.pin /\ told'.proto = proc.proto
  BY ReportIs
<1>3. dir' = new
  OBVIOUS
<1> HIDE DEF new
<1>4. (Verified(dir, told.proto) /\ dir = Only(dir, told.pin.id) /\ dir.top.id = told.pin.id /\ dir.top.source = told.pin.source)'
  BY <1>1, <1>2, <1>3 DEF Verified, Only
<1>5. Directory'
  BY <1>1, <1>3 DEF Directory, Seen, Named, Complete
<1>6. spoilt' \in BOOLEAN
  OBVIOUS
<1> QED BY <1>1, <1>3, <1>4, <1>5, <1>6, FetchEnds

LEMMA MoveKeeps == ASSUME ReleaseInv, Move PROVE ReleaseInv'
<1>1. proc.tool = "fetch" /\ proc.at = "move" /\ UNCHANGED <<box, lock, tree, warmed, made, faults>>
  BY DEF Move, At, outside
<1>2. CASE dir' = proc.pin.sum /\ spoilt' = FALSE /\ Ends(proc, TRUE)
  BY <1>1, <1>2, ReplacedKeeps
<1>3. CASE GoTo("copy") /\ UNCHANGED <<dir, spoilt, told>>
  <2>1. proc \in ProcType /\ dir \in DirType /\ "copy" \in AtType /\ Directory
    BY DEF ReleaseInv, ReleaseTyped, AtType, Replacing
  <2>2. proc'.tool = "fetch" /\ proc'.at = "copy"
    BY <1>1, <1>3, <2>1, StepIs
  <2>3. Directory'
    BY <1>1, <1>3, <2>1, <2>2 DEF Directory, Changing, Replacing, Seen, Named
  <2> QED BY <1>1, <1>3, <2>1, <2>3, FetchGoesOn DEF Unchanged, Replacing
<1> QED BY <1>2, <1>3 DEF Move

LEMMA CopyKeeps == ASSUME ReleaseInv, CopyOver PROVE ReleaseInv'
<1> DEFINE new == proc.pin.sum
<1> DEFINE id == proc.pin.id
<1>1. proc.tool = "fetch" /\ proc.at = "copy" /\ UNCHANGED <<box, lock, tree, warmed, made, faults>>
  BY DEF CopyOver, At, outside
<1>2. CASE dir = new
  <2>1. dir' = new /\ spoilt' = FALSE /\ Ends(proc, TRUE)
    BY <1>2 DEF CopyOver
  <2> QED BY <1>1, <2>1, ReplacedKeeps
<1>3. CASE dir # new
  <2>1. proc' = proc /\ UNCHANGED <<told, spoilt>>
    BY <1>3 DEF CopyOver
  <2>2. /\ new \in DirType /\ id \in Images /\ Seen(new) /\ Named(new.top) /\ new.top.id = id
        /\ new.top \in EntryType /\ new.bundles[id] \in BundleType
    BY <1>1, StagedIs
  <2>3. /\ \/ dir' = [dir EXCEPT !.top = new.top]
           \/ dir' = WithManifest(dir, id, new.top)
           \/ dir' = [dir EXCEPT !.bundles[id] = new.bundles[id]]
    BY <1>3 DEF CopyOver, WithManifest
  <2> HIDE DEF new, id
  <2>4. dir \in DirType /\ Directory /\ ReleaseTyped /\ made \in Int
    BY Bounds DEF ReleaseInv, ReleaseTyped
  <2>5. id <= made /\ id \in Int
    <3>1. id \in warmed
      BY <2>2 DEF Named
    <3> QED BY <2>4, <3>1 DEF ReleaseTyped
  <2>6. /\ dir' \in DirType /\ dir'.top \in {dir.top, new.top}
        /\ \A i \in Images : i # id => dir'.bundles[i] = dir.bundles[i]
    <3>1. CASE dir' = [dir EXCEPT !.top = new.top]
      BY <2>2, <2>4, <3>1, TopIs
    <3>2. CASE dir' = WithManifest(dir, id, new.top)
      BY <2>2, <2>4, <3>2, ManifestPut
    <3>3. CASE dir' = [dir EXCEPT !.bundles[id] = new.bundles[id]]
      BY <2>2, <2>4, <3>3, PutIs
    <3> QED BY <2>3, <3>1, <3>2, <3>3
  <2>7. Directory'
    <3>1. Seen(dir)'
      BY <1>1, <2>4, <2>5, <2>6 DEF Directory, Seen, Images
    <3>2. (dir.top.is = "manifest" => Named(dir.top))'
      BY <1>1, <2>2, <2>4, <2>6 DEF Directory, Named
    <3>3. Changing'
      BY <1>1, <2>1 DEF Changing, Replacing
    <3> QED BY <3>1, <3>2, <3>3 DEF Directory
  <2> QED BY <1>1, <2>1, <2>6, <2>7, FetchGoesOn DEF Unchanged, Replacing
<1> QED BY <1>2, <1>3

LEMMA FetchStepKeeps == ASSUME ReleaseInv, FetchStep PROVE ReleaseInv'
BY FetchKeeps, SweepsKeeps, LooksKeep, RemovesKeep, MoveKeeps, CopyKeeps DEF FetchStep

LEMMA CheckKeeps == ASSUME ReleaseInv, CheckPin PROVE ReleaseInv'
<1> DEFINE p == [Tool("check", "none") EXCEPT !.pin = lock]
<1> DEFINE ok == lock = None \/ (lock.proto = tree.proto /\ lock.source = sourceHash)
<1>1. /\ ReleaseTyped /\ Directory /\ proc = Idle /\ ~Changing /\ tree \in TreeType /\ dir \in DirType /\ lock \in PinOrNone
      /\ spoilt \in BOOLEAN /\ faults \in 0..MaxFaults /\ made \in Int
  BY IdleIs, Bounds DEF ReleaseInv, CheckPin, Changing, ReleaseTyped
<1>2. UNCHANGED <<dir, box, lock, tree, warmed, spoilt, made, faults>>
  BY DEF CheckPin, outside
<1>3. proc' = Idle /\ told' = IF ok THEN Report(p, TRUE) ELSE NoReport
  <2>1. p.tool = "check"
    BY IdleIs, <1>1 DEF Tool, ProcType
  <2>2. Ends(p, ok)
    BY DEF CheckPin
  <2> HIDE DEF p, ok
  <2> QED BY <2>1, <2>2 DEF Ends
<1>4. CASE ~ok
  BY <1>1, <1>2, <1>3, <1>4, ToolFailsKeeps
<1>5. CASE ok
  <2>1. /\ p \in ProcType /\ p.tool = "check" /\ p.pin = lock /\ p.proto = tree.proto
    BY <1>1, IdleIs DEF Tool, ProcType, TreeType, ToolType, AtType
  <2>2. told' = Report(p, TRUE)
    BY <1>3, <1>5
  <2> HIDE DEF p
  <2>3. told' \in ReportType /\ told'.tool = "check" /\ told'.pin = lock /\ told'.proto = tree.proto
    BY <1>1, <2>1, <2>2 DEF Report, ReportType, ProcType, TreeType, ToolType
  <2>4. ReleaseTyped'
    BY <1>1, <1>2, <1>3, <2>3, IdleIs, QuietTyped DEF ToolType
  <2>5. Directory'
    BY <1>1, <1>2, SameDirectory
  <2>6. Building' /\ Noting' /\ Fetching' /\ Packing'
    BY <1>3, AtRest
  <2>7. Pinned'
    BY <1>1, <1>2, PinnedStays DEF ReleaseInv
  <2>8. lock # None => Verified(lock.sum, tree.proto)
    BY <1>5 DEF ReleaseInv, Pinned, GoodPin
  <2>9. Telling'
    BY <1>3, <2>3, <2>8, IdleIs DEF Telling, FetchedIsPinned, CheckedIsLoadable, Verified
  <2> QED BY <2>4, <2>5, <2>6, <2>7, <2>9 DEF ReleaseInv
<1> QED BY <1>4, <1>5

---------------------------------------------------------------------------
(* What nobody planned, and what the developer does *)

\* A manifest that is left torn is that of the bundle a build writes, or it is the entry point, or
\* the tool was changing the image that is in place.
LEMMA TornIs ==
  ASSUME ReleaseInv, NEW d, d = TornWrite
  PROVE  /\ d \in DirType /\ d.top \in {dir.top, Torn} /\ Seen(d)
         /\ d.top.is = "manifest" /\ ~spoilt /\ ~Changing => Complete(d)
<1>1. /\ ReleaseTyped /\ Directory /\ dir \in DirType /\ Torn \in EntryType /\ Torn.is = "torn" /\ Seen(dir) /\ made \in Int
  BY EntryIs, Bounds DEF ReleaseInv, ReleaseTyped, Directory
<1>2. dir.top.is = "manifest" => dir.top.id \in Images
  BY <1>1, DirIs
<1>3. CASE At("build", "manifest") \/ At("build", "name")
  <2>1. d = WithManifest(dir, Id, Torn)
    BY <1>3 DEF TornWrite, WithManifest, At
  <2>2. proc.tool = "build" /\ proc.at \in Saved /\ proc.at # "sweep"
    BY <1>3 DEF At, Saved
  <2>3. Id \in Images /\ Id <= made /\ Id \in Int /\ (dir.top.is = "manifest" => dir.top.id # Id)
    BY <2>2, InHand DEF ReleaseInv, Building, Id
  <2>4. d \in DirType /\ d.top = dir.top /\ (\A i \in Images : i # Id => d.bundles[i] = dir.bundles[i])
    BY <1>1, <2>1, <2>3, ManifestPut
  <2>5. Seen(d)
    BY <1>1, <2>3, <2>4 DEF Seen, Images
  <2>6. d.top.is = "manifest" /\ ~spoilt /\ ~Changing => Complete(d)
    BY <1>1, <1>2, <2>3, <2>4 DEF Directory, Complete
  <2> QED BY <2>4, <2>5, <2>6
<1>4. CASE At("notices", "bundle")
  <2>1. d = WithManifest(dir, Id, Torn)
    BY <1>4 DEF TornWrite, WithManifest, At
  <2>2. dir.top.is = "manifest" /\ Id = dir.top.id /\ Changing
    BY <1>4 DEF ReleaseInv, Noting, Id, At, Changing
  <2>3. Id \in Images /\ Id <= made /\ Id \in Int
    BY <1>1, <2>2, TopIsSaved DEF Images
  <2>4. d \in DirType /\ d.top = dir.top /\ (\A i \in Images : i # Id => d.bundles[i] = dir.bundles[i])
    <3>1. dir \in DirType /\ Torn \in EntryType /\ Id \in Images
      BY <1>1, <2>3
    <3> QED BY <2>1, <3>1, ManifestPut
  <2>5. Seen(d)
    BY <1>1, <2>3, <2>4 DEF Seen, Images
  <2> QED BY <2>2, <2>4, <2>5
<1>5. CASE d = [dir EXCEPT !.top = Torn]
  <2>1. d \in DirType /\ d.top = Torn /\ d.bundles = dir.bundles
    BY <1>1, <1>5, TopIs
  <2> QED BY <1>1, <2>1 DEF Seen
<1>6. CASE d = dir
  BY <1>1, <1>6 DEF Directory
<1>7. \/ At("build", "manifest") \/ At("build", "name") \/ At("notices", "bundle")
      \/ d = [dir EXCEPT !.top = Torn] \/ d = dir
  BY DEF TornWrite, At
<1> QED BY <1>3, <1>4, <1>5, <1>6, <1>7

LEMMA StopKeeps == ASSUME ReleaseInv, Stop PROVE ReleaseInv'
<1>1. /\ ReleaseTyped /\ Directory /\ made \in Int /\ dir \in DirType /\ spoilt \in BOOLEAN /\ faults' \in 0..MaxFaults
  BY Bounds, ReleaseAssumption DEF ReleaseInv, ReleaseTyped, Stop
<1>2. UNCHANGED <<box, lock, tree, warmed, made>> /\ proc' = Idle /\ told' = NoReport
  BY DEF Stop, outside, Ends
<1>3. dir' \in {dir, TornWrite} /\ (spoilt' <=> spoilt \/ Changing) /\ spoilt' \in BOOLEAN
  BY <1>1 DEF Stop, Changing, Replacing
<1>4. /\ dir' \in DirType /\ dir'.top \in {dir.top, Torn} /\ Seen(dir')
      /\ dir'.top.is = "manifest" /\ ~spoilt /\ ~Changing => Complete(dir')
  <2>1. CASE dir' = dir
    BY <1>1, <2>1 DEF Directory
  <2>2. CASE dir' = TornWrite
    BY <2>2, TornIs
  <2> QED BY <1>3, <2>1, <2>2
<1>5. ReleaseTyped'
  BY <1>1, <1>2, <1>3, <1>4, IdleIs, QuietTyped DEF ToolType
<1>6. Directory'
  <2>1. Torn.is = "torn"
    BY EntryIs
  <2> QED BY <1>1, <1>2, <1>3, <1>4, <2>1 DEF Directory, Seen, Named, Complete
<1>7. Building' /\ Noting' /\ Fetching' /\ Packing'
  BY <1>2, AtRest
<1>8. Pinned'
  BY <1>1, <1>2, PinnedStays DEF ReleaseInv
<1>9. Telling'
  BY <1>2, IdleIs DEF Telling, FetchedIsPinned, CheckedIsLoadable
<1> QED BY <1>5, <1>6, <1>7, <1>8, <1>9 DEF ReleaseInv

LEMMA DamageKeeps == ASSUME ReleaseInv, Damage PROVE ReleaseInv'
<1>1. /\ ReleaseTyped /\ Directory /\ dir.top.is = "manifest" /\ made \in Int /\ proc = Idle /\ faults' \in 0..MaxFaults
  BY Bounds, ReleaseAssumption DEF ReleaseInv, ReleaseTyped, Damage
<1>2. dir \in DirType /\ dir.top.id \in Images /\ dir.top.id <= made
  BY <1>1, TopIsSaved
<1>3. UNCHANGED <<box, lock, tree, warmed, made>> /\ proc' = Idle /\ told' = NoReport /\ spoilt' = TRUE
  BY <1>1 DEF Damage, outside
<1>4. PICK parts \in SUBSET (Parts \cup {"junk"}) : dir' = WithParts(dir, dir.top.id, parts)
  <2>1. PICK part \in {"rootfs", "junk"} :
          dir' = WithParts(dir, dir.top.id, (dir.bundles[dir.top.id].parts \ {part}) \cup ({part} \ dir.bundles[dir.top.id].parts))
    BY DEF Damage, WithParts
  <2>2. dir.bundles[dir.top.id].parts \subseteq Parts \cup {"junk"}
    BY <1>2, DirIs
  <2>3. ((dir.bundles[dir.top.id].parts \ {part}) \cup ({part} \ dir.bundles[dir.top.id].parts)) \in SUBSET (Parts \cup {"junk"})
    BY <2>2 DEF Parts
  <2> QED BY <2>1, <2>3
<1>5. /\ dir' \in DirType /\ dir'.top = dir.top
      /\ \A i \in Images : i # dir.top.id => dir'.bundles[i] = dir.bundles[i]
  BY <1>2, <1>4, PartsPut
<1>6. spoilt' \in BOOLEAN
  BY <1>3
<1>7. ReleaseTyped'
  BY <1>1, <1>3, <1>5, <1>6, IdleIs, QuietTyped DEF ToolType
<1>8. Directory'
  BY <1>1, <1>2, <1>3, <1>5 DEF Directory, Seen, Named, Images
<1>9. Building' /\ Noting' /\ Fetching' /\ Packing'
  BY <1>3, AtRest
<1>10. Pinned'
  BY <1>1, <1>3, PinnedStays DEF ReleaseInv
<1>11. Telling'
  BY <1>3, IdleIs DEF Telling, FetchedIsPinned, CheckedIsLoadable
<1> QED BY <1>7, <1>8, <1>9, <1>10, <1>11 DEF ReleaseInv

LEMMA EditKeeps == ASSUME ReleaseInv, Edit PROVE ReleaseInv'
<1>1. tree \in TreeType /\ faults \in 0..MaxFaults
  BY DEF ReleaseInv, ReleaseTyped
<1>2. tree' \in TreeType
  <2>1. PICK proto \in {tree.proto, tree.proto + 1} : tree' = [source |-> tree.source + 1, proto |-> proto]
    BY DEF Edit
  <2>2. tree.source + 1 \in Nat /\ proto \in Nat
    BY <1>1 DEF TreeType
  <2> QED BY <2>1, <2>2 DEF TreeType
<1> QED BY <1>1, <1>2, Beside DEF Edit

LEMMA DeveloperKeeps == ASSUME NEW id \in Images, ReleaseInv, Upload(id) \/ CommitPin(id) PROVE ReleaseInv'
<1>1. tree \in TreeType /\ faults \in 0..MaxFaults
  BY DEF ReleaseInv, ReleaseTyped
<1>2. faults' \in 0..MaxFaults
  BY <1>1, ReleaseAssumption DEF Upload, CommitPin
<1> QED BY <1>1, <1>2, Beside DEF Upload, CommitPin

LEMMA LineKeeps == ASSUME ReleaseInv, AgentBoots \/ AgentAnswers \/ AgentTalks \/ Noted PROVE ReleaseInv'
<1>1. tree \in TreeType /\ faults \in 0..MaxFaults
  BY DEF ReleaseInv, ReleaseTyped
<1> QED BY <1>1, Beside DEF AgentBoots, AgentAnswers, AgentTalks, Noted, outside

LEMMA ReleaseNextKeeps == ASSUME ReleaseInv, ReleaseNext PROVE ReleaseInv'
BY LineKeeps, RequestFailsKeeps, BuildKeeps, FetchStepKeeps, PackedKeeps, NamedKeeps, CheckKeeps, NoticesKeeps, PackageKeeps,
   DeveloperKeeps, StopKeeps, DamageKeeps, EditKeeps DEF ReleaseNext

LEMMA InitHolds == ASSUME ReleaseInit PROVE ReleaseInv
<1>1. /\ dir = EmptyDir /\ lock = None /\ tree = [source |-> 0, proto |-> 0]
      /\ box = [archive |-> [i \in Images |-> EmptyDir], pin |-> [i \in Images |-> None]]
      /\ proc = Idle /\ told = NoReport /\ warmed = {} /\ spoilt = FALSE /\ made = 0 /\ faults = 0
  BY DEF ReleaseInit
<1>2. box \in BoxType /\ \A i \in Images : box.pin[i] = None
  BY <1>1, EmptyDirIs, PinOrNot DEF BoxType
<1>3. 0 \in 0..MaxImages /\ 0 \in 0..MaxFaults
  BY ReleaseAssumption
<1>4. tree \in TreeType
  BY <1>1 DEF TreeType
<1>5. ReleaseTyped
  BY <1>1, <1>2, <1>3, <1>4, EmptyDirIs, PinOrNot, IdleIs DEF ReleaseTyped, ToolType
<1>6. Directory
  BY <1>1, EmptyDirIs, EntryIs DEF Directory, Seen
<1>7. Building /\ Noting /\ Fetching /\ Packing
  BY <1>1, IdleIs DEF Building, Noting, Fetching, Packing
<1>8. Pinned
  BY <1>1, <1>2 DEF Pinned
<1>9. Telling
  BY <1>1, IdleIs DEF Telling, FetchedIsPinned, CheckedIsLoadable
<1> QED BY <1>5, <1>6, <1>7, <1>8, <1>9 DEF ReleaseInv

---------------------------------------------------------------------------
(* The theorems *)

\* Whatever tools run, fail and stop, and whatever is edited, damaged, uploaded and committed
\* between: what each tool has in hand, the directory, the archives' pins and the last report are
\* what the code relies on (build-state.mjs, write-notices.mjs, package-image.mjs, fetch-image.mjs).
THEOREM ReleaseInvHolds == ReleaseSpec => []ReleaseInv
<1>1. ReleaseInv /\ UNCHANGED releaseVars => ReleaseInv'
  <2> SUFFICES ASSUME ReleaseInv, UNCHANGED releaseVars PROVE ReleaseInv'
    OBVIOUS
  <2>1. tree \in TreeType /\ faults \in 0..MaxFaults
    BY DEF ReleaseInv, ReleaseTyped
  <2> QED BY <2>1, Beside DEF releaseVars, outside
<1>2. ReleaseInv /\ [ReleaseNext]_releaseVars => ReleaseInv'
  BY <1>1, ReleaseNextKeeps
<1> QED BY <1>2, InitHolds, PTL DEF ReleaseSpec

\* For any number of images and faults: the entry point that a page loads names only an image whose
\* state came up warm in a fresh machine, and unless somebody damaged it or a tool was stopped while
\* it changed it, that image is there, whole (restoreAndGreet(), writeManifest() and
\* removeOtherBundles() of build-state.mjs, moveDir() of fetch-image.mjs).
THEOREM EntryStaysGood == ReleaseSpec => []EntryIsGood
<1>1. ReleaseInv => EntryIsGood
  <2> SUFFICES ASSUME ReleaseInv PROVE EntryIsGood
    OBVIOUS
  <2>1. ReleaseTyped /\ Directory /\ dir \in DirType
    BY DEF ReleaseInv, ReleaseTyped
  <2>2. dir.top.is \in {"none", "torn", "manifest"}
    BY <2>1, DirIs, EntryIs DEF EntryType, ManifestType
  <2>3. \A i \in Images : dir.bundles[i].parts \subseteq Parts \cup {"junk"} /\ dir.bundles[i].text \in Texts
    BY <2>1, DirIs
  <2>4. lock.is \in {"none", "pin"}
    BY <2>1, EntryIs DEF ReleaseTyped, PinOrNone, PinType
  <2>5. warmed \subseteq Images
    BY <2>1, Bounds DEF ReleaseTyped, Images
  <2>6. ReleaseTypeOK
    BY <2>1, <2>2, <2>3, <2>4, <2>5 DEF ReleaseTypeOK, ReleaseTyped, ToolType
  <2>7. proc.tool \notin {"notices", "fetch"} => ~Changing
    BY DEF Changing
  <2> QED BY <2>1, <2>6, <2>7 DEF EntryIsGood, Directory, Named, Complete
<1> QED BY <1>1, ReleaseInvHolds, PTL

\* A pin that anybody committed is that of an image a page may be given: restored, whole, without a
\* root shell, with the text of every licence it names (package-image.mjs).
THEOREM PinsStayGood == ReleaseSpec => []PinsAreGood
<1>1. ReleaseInv => PinsAreGood
  BY DEF ReleaseInv, Pinned, PinsAreGood, GoodPin, Named
<1> QED BY <1>1, ReleaseInvHolds, PTL

\* What fetch-image and check-image-pin report is so, and fetch-image gives up nothing before all its
\* checks have passed (fetch-image.mjs, check-image-pin.mjs).
THEOREM FetchStaysRight == ReleaseSpec => []FetchIsRight
<1>1. ReleaseInv => FetchIsRight
  BY DEF ReleaseInv, Telling, Fetching, FetchIsRight, FetchChecksFirst
<1> QED BY <1>1, ReleaseInvHolds, PTL

====
