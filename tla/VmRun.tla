------------------------------- MODULE VmRun -------------------------------
(***************************************************************************)
(* The page's VM: class Vm of web/vm/vm_run.js, on the machine of          *)
(* web/vm/vm_machine.js, with the guest's agent as its environment.        *)
(*                                                                         *)
(* The code is single threaded: a method runs to its first await without   *)
(* interruption.  So every method is an operator from a Vm to a Vm, named  *)
(* as in the source, and an action is one task of the event loop: a call   *)
(* from the page, a frame from the guest, a timer, or the continuation of  *)
(* an await.  Whatever may happen between two tasks is an interleaving.    *)
(*                                                                         *)
(* `vm` is one record, whose fields are the private fields of the class    *)
(* and what its methods change in the machine:                             *)
(*                                                                         *)
(*   state      #state                                                     *)
(*   loading    #loading: "none", "pending", or "ready" once it resolved   *)
(*   load       where #load() waits; tries counts its restores             *)
(*   bundle     whether #bundle is held; built, whether #machine is usable *)
(*   accepted   how many runs run() has taken; a run is its number         *)
(*   run        #run, or None; queued is #queued                           *)
(*   phase      run.phase; ended is the reason of its `ended` event        *)
(*   helloId    run.helloId of the current run                             *)
(*   hellos     #hellos: what each HELLO awaiting READY is for             *)
(*   pingId     #pingId; strikes is #strikes                               *)
(*   stopTimer  the timer #stopTimer names is pending; orphans counts the  *)
(*              pending ones whose handle was overwritten                  *)
(*   park       where #park() waits, or "no": #parking                     *)
(*   visible    #visible; waiting, a stop() promise in #parkedWaiters      *)
(*   writing    runs whose #sendFiles() waits for create_file              *)
(*   grace      runs with a pending timer of a failed rootfs read          *)
(*   deadline   the one the watchdog is armed with, or "off"               *)
(*   jobs       the machine's #queue: operations not done yet, in order    *)
(*   want       the machine's #wantRunning; shown, its #visible            *)
(*   cpu        the machine's #cpuRunning                                  *)
(*   line       the frames sent that the agent has not answered yet        *)
(*   prog       the run whose program the agent runs, or None              *)
(*   starts, ran, told   what was reported: see the properties             *)
(***************************************************************************)
EXTENDS Naturals, Sequences, FiniteSets

CONSTANTS
  MaxRuns,    \* bound: the runs the page asks for
  MaxJobs,    \* bound: machine operations waiting when the page or a frame adds one
  Ids,        \* the ids of HELLO and PING conversations that may be open at once
  Faults      \* what may happen besides calls and answers

FaultKinds ==
  { "hide",       \* the page is hidden and shown again
    "bundle",     \* the bundle does not download
    "build",      \* the emulator does not start
    "cold",       \* the image has no warm interpreter
    "restore",    \* restore_state throws
    "crash",      \* the agent dies and init respawns it
    "refuse",     \* the agent answers RUN with ERROR
    "garbled",    \* a message about the run does not decode
    "files",      \* create_file rejects
    "version",    \* a frame of another protocol version
    "fetch",      \* a rootfs file cannot be fetched
    "lateStart",  \* READY or STARTED comes after its deadline, before the restore
    "lateFetch",  \* a failed read's 50 ms end between a deadline and the restore
    "lateFail" }  \* the VM fails while it awaits a restore or a pause

ASSUME BoundsAssumption == MaxRuns \in Nat /\ MaxJobs \in Nat
ASSUME IdsAssumption == Ids \subseteq Nat \ {0} /\ Ids # {}
ASSUME FaultsAssumption == Faults \subseteq FaultKinds

VARIABLE vm

None == 0

(* Counters stop at 2, where all that reads them has been decided.         *)
Count(n) == IF n < 2 THEN n + 1 ELSE n

Runs == 1 .. MaxRuns

States == {"unloaded", "loading", "parked", "starting", "running",
           "stopping", "parking", "failed", "destroyed"}
Phases == {"queued", "hello", "files", "run", "running"}
Reasons == {"exit", "stopped", "unresponsive", "fetch", "broken"}
Purposes == {"load", "run", "clock"}
Deadlines == {"load", "HELLO", "STARTED", "ping", "PONG"}

Ops == {"loadRestore", "loadResume", "loadPause", "begin", "parkRestore", "pause", "show", "hide"}
Frames == {"HELLO", "RUN", "STOP", "PING"}

VmType ==
  [ state : States, loading : {"none", "pending", "ready"},
    load : {"no", "bundle", "build", "restore", "resume", "greet", "pause"}, tries : Nat,
    bundle : BOOLEAN, built : BOOLEAN, accepted : 0 .. MaxRuns,
    run : 0 .. MaxRuns, queued : 0 .. MaxRuns,
    phase : [Runs -> Phases], ended : [Runs -> Reasons \cup {"no"}],
    helloId : Nat, hellos : [Ids -> Purposes \cup {"none"}], pingId : Nat, strikes : 0 .. 2,
    stopTimer : BOOLEAN, orphans : Nat, park : {"no", "paint", "restore", "rebuild"},
    visible : BOOLEAN, waiting : BOOLEAN, writing : SUBSET Runs, grace : SUBSET Runs,
    deadline : Deadlines \cup {"off"}, jobs : Seq([op : Ops, run : 0 .. MaxRuns]),
    want : BOOLEAN, shown : BOOLEAN, cpu : BOOLEAN,
    line : Seq([type : Frames, id : Nat]), prog : Nat,
    starts : [Runs -> 0 .. 2], ran : 0 .. 2, told : {"nothing", "ready", "failed"} ]

NoHellos == [i \in Ids |-> "none"]

Init ==
  vm = [ state |-> "unloaded", loading |-> "none", load |-> "no", tries |-> 0,
         bundle |-> FALSE, built |-> FALSE, accepted |-> 0,
         run |-> None, queued |-> None,
         phase |-> [r \in Runs |-> "queued"], ended |-> [r \in Runs |-> "no"],
         helloId |-> 0, hellos |-> NoHellos, pingId |-> 0, strikes |-> 0,
         stopTimer |-> FALSE, orphans |-> 0, park |-> "no",
         visible |-> TRUE, waiting |-> FALSE, writing |-> {}, grace |-> {},
         deadline |-> "off", jobs |-> << >>, want |-> FALSE, shown |-> TRUE,
         cpu |-> FALSE, line |-> << >>, prog |-> None,
         starts |-> [r \in Runs |-> 0], ran |-> 0, told |-> "nothing" ]

-----------------------------------------------------------------------------
(* The machine and the line, as the methods of Vm use them.                *)

Job(op, r) == [op |-> op, run |-> r]
Enqueue(v, op, r) == [v EXCEPT !.jobs = Append(@, Job(op, r))]

ApplyCpu(v) == [v EXCEPT !.cpu = v.want /\ v.shown]

(* A machine under construction runs nothing and has no operation waiting. *)
NoMachine(v) ==
  [v EXCEPT !.built = FALSE, !.jobs = << >>, !.want = FALSE, !.cpu = FALSE,
            !.deadline = "off"]

(* Mutant: a machine built while the page is hidden is not told so.        *)
NewMachineUntold(v) ==
  [v EXCEPT !.built = TRUE, !.shown = TRUE, !.line = << >>, !.prog = None, !.jobs = << >>]

(* A new machine is visible; it is told at once when the page is not.      *)
NewMachine(v) ==
  [v EXCEPT !.built = TRUE, !.shown = TRUE, !.line = << >>, !.prog = None,
            !.jobs = IF v.visible THEN << >> ELSE << Job("hide", None) >>]

(* A restore replaces the guest and with it whatever it had not read.      *)
Restored(v) ==
  [v EXCEPT !.want = FALSE, !.cpu = FALSE, !.prog = None, !.line = << >>, !.ran = 0]

Send(v, type, id) == [v EXCEPT !.line = Append(@, [type |-> type, id |-> id])]

IdsInUse(v) ==
  {v.pingId, v.helloId} \cup {i \in Ids : v.hellos[i] # "none"}
    \cup {v.line[k].id : k \in {j \in DOMAIN v.line : v.line[j].type \in {"HELLO", "PING"}}}

(* #nextId++: only its being in nobody's use matters.  SetVisible sees to  *)
(* it that Ids has a free one.                                             *)
NextId(v) ==
  LET free == Ids \ IdsInUse(v) IN CHOOSE id \in Ids : free # {} => id \in free

Hello(v, purpose) ==
  LET id == NextId(v) IN Send([v EXCEPT !.hellos[id] = purpose], "HELLO", id)

Arm(v, deadline) == [v EXCEPT !.deadline = deadline]

AbandonHellos(v) == [v EXCEPT !.hellos = NoHellos]

ResetLine(v) == [AbandonHellos(v) EXCEPT !.line = << >>, !.pingId = 0]

-----------------------------------------------------------------------------
(* The life of a run.                                                      *)

SetState(v, state) ==
  [v EXCEPT !.state = IF @ = "destroyed" THEN @ ELSE state]

(* Mutant: `ended` reports the phase in place of the reason.               *)
EndWithPhase(v, r, reason) ==
  IF r = None \/ v.ended[r] # "no" THEN v ELSE [v EXCEPT !.ended[r] = v.phase[r]]

End(v, r, reason) ==
  IF r = None \/ v.ended[r] # "no" THEN v ELSE [v EXCEPT !.ended[r] = reason]

Begin(v, r) ==
  Enqueue([SetState(v, "starting") EXCEPT !.run = r, !.phase[r] = "hello"], "begin", r)

StartQueued(v) ==
  IF v.queued = None \/ v.state # "parked"
  THEN v
  ELSE Begin([v EXCEPT !.queued = None], v.queued)

(* Mutant: the timer of a STOP goes on after its park.                     *)
ParkLeavesTimer(v) ==
  IF v.park # "no" \/ ~v.built \/ v.state \in {"destroyed", "failed"}
  THEN v
  ELSE [SetState(v, "parking") EXCEPT !.deadline = "off", !.pingId = 0, !.park = "paint"]

Park(v) ==
  IF v.park # "no" \/ ~v.built \/ v.state \in {"destroyed", "failed"}
  THEN v
  ELSE [SetState(v, "parking") EXCEPT
          !.stopTimer = FALSE, !.deadline = "off", !.pingId = 0, !.park = "paint"]

(* setTimeout: a pending timer whose handle this overwrites goes on.       *)
SetStopTimer(v) ==
  [v EXCEPT !.stopTimer = TRUE, !.orphans = IF v.stopTimer THEN @ + 1 ELSE @]

(* Mutant: a stop while the machine is restored counts like any other.     *)
StopRunAnytime(v) ==
  LET e == End(v, v.run, "stopped") IN
  IF v.run = None THEN v
  ELSE IF v.phase[v.run] \in {"run", "running"}
  THEN SetStopTimer([SetState(Send(e, "STOP", v.run), "stopping") EXCEPT !.deadline = "off"])
  ELSE Park(e)

StopRun(v) ==
  LET e == End(v, v.run, "stopped") IN
  CASE v.run = None \/ v.state \in {"stopping", "parking"} -> v
    [] v.run # None /\ v.state \notin {"stopping", "parking"}
         /\ v.phase[v.run] \in {"run", "running"} ->
         SetStopTimer([SetState(Send(e, "STOP", v.run), "stopping") EXCEPT !.deadline = "off"])
    [] OTHER -> Park(e)

(* The load that waits for READY hears null and is over.                   *)
LoadOver(v, loading) == [v EXCEPT !.load = "no", !.loading = loading]

Fail(v) ==
  LET e == End(End(v, v.run, "broken"), v.queued, "broken")
      f == [AbandonHellos(e) EXCEPT
              !.state = "failed", !.deadline = "off", !.stopTimer = FALSE,
              !.run = None, !.queued = None, !.told = "failed", !.waiting = FALSE,
              !.jobs = IF v.built THEN Append(@, Job("pause", None)) ELSE @]
  IN CASE v.state = "destroyed" -> v
       [] v.state # "destroyed" /\ v.load = "greet" -> LoadOver(f, "none")
       [] OTHER -> f

(* A failed load is dropped, so that the next call tries again.            *)
FailLoad(v) == LoadOver(Fail(v), "none")

EndAndPark(v, r, reason) == Park(End(v, r, reason))

(* Mutant: a stop() that waits for the park is forgotten.                  *)
FinishParkUnsettled(v) ==
  StartQueued([SetState(ResetLine(v), "parked") EXCEPT
    !.phase = [r \in Runs |-> IF r = v.run THEN "queued" ELSE @[r]],
    !.helloId = 0, !.run = None, !.park = "no"])

(* A run that has its second go is `queued` again; of any other, nobody    *)
(* reads the phase and the HELLO once #run is null.                        *)
FinishPark(v) ==
  StartQueued([SetState(ResetLine(v), "parked") EXCEPT
    !.phase = [r \in Runs |-> IF r = v.run THEN "queued" ELSE @[r]],
    !.helloId = 0, !.run = None, !.park = "no", !.waiting = FALSE])

-----------------------------------------------------------------------------
(* Loading.                                                                *)

LoadCall(v) ==
  IF v.loading # "none" \/ v.state = "destroyed"
  THEN v
  ELSE [SetState(v, "loading") EXCEPT
          !.loading = "pending", !.load = "bundle", !.tries = 0, !.told = "nothing"]

DropBundle(v) == [v EXCEPT !.bundle = FALSE]

(* The head of #load()'s loop, for its first and its second restore.       *)
TryRestore(v) ==
  CASE v.state # "loading" -> LoadOver(v, "none")
    [] v.state = "loading" /\ v.tries < 2 ->
         Enqueue([v EXCEPT !.load = "restore", !.tries = @ + 1], "loadRestore", None)
    [] OTHER -> FailLoad(DropBundle(v))

(* #load() goes on with what #greet() resolved with.                       *)
Greeted(v, warm) ==
  CASE v.state # "loading" -> LoadOver(v, "none")
    [] v.state = "loading" /\ ~warm -> FailLoad(v)
    [] OTHER -> Enqueue([v EXCEPT !.load = "pause"], "loadPause", None)

Downloaded ==
  /\ vm.load = "bundle"
  /\ vm' = [NoMachine(vm) EXCEPT !.bundle = TRUE, !.load = "build"]

NotDownloaded ==
  /\ vm.load = "bundle" /\ ~vm.bundle
  /\ "bundle" \in Faults
  /\ vm' = FailLoad(vm)

Built ==
  /\ vm.load = "build"
  /\ vm' = TryRestore(NewMachine(vm))

NotBuilt ==
  /\ vm.load = "build"
  /\ "build" \in Faults
  /\ vm' = FailLoad(vm)

-----------------------------------------------------------------------------
(* The page's calls.                                                       *)

LoadRequested ==
  /\ vm.loading = "none" /\ vm.state # "destroyed" /\ Len(vm.jobs) < MaxJobs
  /\ vm' = LoadCall(vm)

(* Mutant: the run queued before this one is overwritten.                  *)
RunRequestedOverwrites ==
  LET v == [vm EXCEPT !.accepted = @ + 1, !.queued = vm.accepted + 1] IN
  /\ vm.accepted < MaxRuns
  /\ vm' = CASE v.state = "loading" -> v
              [] v.run # None -> StopRun(v)
              [] v.state = "parked" /\ v.run = None -> StartQueued(v)
              [] OTHER -> LoadCall(v)

(* Mutant: a run in progress goes on, and the new one waits for it.        *)
RunRequestedWaits ==
  LET r == vm.accepted + 1
      v == [vm EXCEPT !.accepted = r]
      q == [End(v, v.queued, "stopped") EXCEPT !.queued = r]
  IN /\ vm.accepted < MaxRuns
     /\ vm' =
          CASE v.state = "destroyed" \/ (v.state = "failed" /\ v.loading # "none") ->
                 End(v, r, "broken")
            [] v.state = "parked" -> StartQueued(q)
            [] v.state = "unloaded" \/ (v.state = "failed" /\ v.loading = "none") -> LoadCall(q)
            [] OTHER -> q

RunRequested ==
  LET r == vm.accepted + 1
      v == [vm EXCEPT !.accepted = r]
      q == [End(v, v.queued, "stopped") EXCEPT !.queued = r]
  IN /\ vm.accepted < MaxRuns
     /\ vm' =
          CASE v.state = "destroyed" \/ (v.state = "failed" /\ v.loading # "none") ->
                 End(v, r, "broken")
            [] v.state \notin {"destroyed", "failed"} /\ v.run # None -> StopRun(q)
            [] v.state = "parked" /\ v.run = None -> StartQueued(q)
            [] v.state = "unloaded" \/ (v.state = "failed" /\ v.loading = "none") -> LoadCall(q)
            [] OTHER -> q

Busy(v) == v.state \in {"starting", "running", "stopping", "parking"} \/ v.run # None

StopRequested ==
  LET v == StopRun([End(vm, vm.queued, "stopped") EXCEPT !.queued = None]) IN
  /\ vm.state # "destroyed"
  /\ vm' = [v EXCEPT !.waiting = @ \/ Busy(v)]

(* The HELLOs for the guest's clock, answered or not, that are or will be  *)
(* under way when the page is shown once more.                             *)
ClockHellos(v) ==
  Cardinality(IdsInUse(v) \ {0, v.helloId, v.pingId}) + 1
    + Cardinality({k \in DOMAIN v.jobs : v.jobs[k].op = "show"})

(* The page is hidden in any state; Ids bounds how often it is shown       *)
(* before the guest has answered, and leaves an id for a run and a PING.   *)
SetVisible ==
  /\ "hide" \in Faults
  /\ vm.state # "destroyed" /\ Len(vm.jobs) < MaxJobs
  /\ ~vm.visible => ClockHellos(vm) + 2 <= Cardinality(Ids)
  /\ LET v == [vm EXCEPT !.visible = ~@] IN
     vm' = IF v.built THEN Enqueue(v, IF v.visible THEN "show" ELSE "hide", None) ELSE v

(* A machine operation under way when destroy() comes still resolves; one  *)
(* that waits is rejected.  Only the load's pause does anything then.      *)
Destroy ==
  LET e == End(End(vm, vm.queued, "stopped"), vm.run, "stopped")
      underWay == "lateFail" \in Faults /\ vm.jobs # << >> /\ Head(vm.jobs).op = "loadPause"
  IN /\ vm.state # "destroyed"
     /\ vm' = [NoMachine(AbandonHellos(e)) EXCEPT
                 !.state = "destroyed", !.stopTimer = FALSE, !.park = "no",
                 !.run = None, !.queued = None, !.waiting = FALSE, !.writing = {},
                 !.load = IF underWay THEN @ ELSE "no",
                 !.jobs = IF underWay THEN << Head(vm.jobs) >> ELSE << >>]

-----------------------------------------------------------------------------
(* The machine's queue, one operation at a time, each with the code that   *)
(* awaits it.                                                              *)

JobDone == [vm EXCEPT !.jobs = Tail(@)]
NextJob(op) == vm.jobs # << >> /\ Head(vm.jobs).op = op

LoadRestoreJob ==
  /\ NextJob("loadRestore")
  /\ \/ vm' = Enqueue([ResetLine(Restored(JobDone)) EXCEPT !.load = "resume"], "loadResume", None)
     \/ /\ "restore" \in Faults
        /\ vm' = FailLoad(DropBundle(Restored(JobDone)))

LoadResumeJob ==
  /\ NextJob("loadResume")
  /\ vm' = Arm(Hello([ApplyCpu([JobDone EXCEPT !.want = TRUE]) EXCEPT !.load = "greet"],
                     "load"), "load")

LoadPauseJob ==
  /\ NextJob("loadPause")
  /\ vm' = StartQueued(SetState(
             [LoadOver(ApplyCpu([JobDone EXCEPT !.want = FALSE]), "ready") EXCEPT !.told = "ready"],
             "parked"))

(* Mutant: HELLO is sent and no deadline armed.                            *)
BeginJobUnwatched ==
  LET r == Head(vm.jobs).run
      v == ApplyCpu([JobDone EXCEPT !.want = TRUE])
  IN /\ NextJob("begin")
     /\ vm' = IF v.run # r \/ v.ended[r] # "no"
              THEN v
              ELSE [Hello(v, "run") EXCEPT !.helloId = NextId(v)]

BeginJob ==
  LET r == Head(vm.jobs).run
      v == ApplyCpu([JobDone EXCEPT !.want = TRUE])
  IN /\ NextJob("begin")
     /\ vm' = IF v.run # r \/ v.ended[r] # "no"
              THEN v
              ELSE Arm([Hello(v, "run") EXCEPT !.helloId = NextId(v)], "HELLO")

ParkRestoreJob ==
  /\ NextJob("parkRestore")
  /\ \/ vm' = FinishPark(Restored(JobDone))
     \/ /\ "restore" \in Faults
        /\ vm' = [NoMachine(Restored(JobDone)) EXCEPT !.park = "rebuild"]

PauseJob ==
  /\ NextJob("pause")
  /\ vm' = ApplyCpu([JobDone EXCEPT !.want = FALSE])

ShowJob ==
  LET v == ApplyCpu([JobDone EXCEPT !.shown = TRUE]) IN
  /\ NextJob("show")
  /\ vm' = IF v.visible /\ v.cpu /\ v.state \in {"starting", "running", "stopping"}
           THEN Hello(v, "clock")
           ELSE v

HideJob ==
  /\ NextJob("hide")
  /\ vm' = ApplyCpu([JobDone EXCEPT !.shown = FALSE])

MachineStep ==
  \/ LoadRestoreJob \/ LoadResumeJob \/ LoadPauseJob \/ BeginJob
  \/ ParkRestoreJob \/ PauseJob \/ ShowJob \/ HideJob

(* #park() after the page has painted, and after the fallback: a new       *)
(* emulator.                                                               *)
Painted ==
  /\ vm.park = "paint"
  /\ vm' = Enqueue([vm EXCEPT !.park = "restore"], "parkRestore", None)

Rebuilt ==
  /\ vm.park = "rebuild"
  /\ vm' = FinishPark(Restored(NewMachine(vm)))

NotRebuilt ==
  /\ vm.park = "rebuild"
  /\ "restore" \in Faults
  /\ vm' = [Fail(vm) EXCEPT !.park = "no"]

(* create_file resolved for the run's last file.                           *)
FilesWritten ==
  \E r \in vm.writing :
    LET v == [vm EXCEPT !.writing = @ \ {r}] IN
    vm' = IF v.run # r \/ v.ended[r] # "no"
          THEN v
          ELSE Arm([Send(v, "RUN", r) EXCEPT !.phase[r] = "run", !.ran = Count(@)], "STARTED")

FilesNotWritten ==
  /\ "files" \in Faults
  /\ \E r \in vm.writing :
       LET v == [vm EXCEPT !.writing = @ \ {r}] IN
       vm' = IF v.run # r \/ v.ended[r] # "no" THEN v ELSE EndAndPark(v, r, "broken")

-----------------------------------------------------------------------------
(* Timers.                                                                 *)

(* The watchdog counts while the CPU runs and the page is visible.         *)
Counting == vm.deadline # "off" /\ vm.cpu /\ vm.visible

Expired(v) ==
  LET s == [v EXCEPT !.strikes = Count(@)] IN
  CASE s.strikes >= 2 -> Fail(End(s, s.run, "unresponsive"))
    [] s.strikes < 2 /\ s.run = None -> s
    [] s.strikes < 2 /\ s.run # None /\ s.phase[s.run] = "running" ->
         EndAndPark(s, s.run, "unresponsive")
    [] OTHER -> Park([s EXCEPT !.queued = IF @ = None THEN s.run ELSE @])

Ping(v) ==
  LET id == NextId(v) IN
  IF v.state # "running"
  THEN v
  ELSE Arm(Send([v EXCEPT !.pingId = id], "PING", id), "PONG")

LoadDeadline ==
  LET v == [vm EXCEPT !.deadline = "off", !.strikes = Count(@),
                      !.hellos = [i \in Ids |-> IF @[i] = "load" THEN "none" ELSE @[i]]] IN
  /\ Counting /\ vm.deadline = "load"
  /\ vm' = TryRestore(v)

AnswerDeadline ==
  /\ Counting /\ vm.deadline \in {"HELLO", "STARTED", "PONG"}
  /\ vm' = Expired([vm EXCEPT !.deadline = "off"])

PingDue ==
  /\ Counting /\ vm.deadline = "ping"
  /\ vm' = Ping([vm EXCEPT !.deadline = "off"])

StopGraceOver ==
  \/ vm.stopTimer /\ vm' = Park([vm EXCEPT !.stopTimer = FALSE])
  \/ vm.orphans > 0 /\ vm' = Park([vm EXCEPT !.orphans = @ - 1])

(* A deadline of the run's start has passed, and the restore after which   *)
(* it has its second go is not done.                                       *)
Retrying == vm.park # "no" /\ vm.run # None /\ vm.ended[vm.run] = "no"

FetchGraceOver ==
  \E r \in vm.grace :
    LET v == [vm EXCEPT !.grace = @ \ {r}] IN
    /\ Retrying => "lateFetch" \in Faults
    /\ vm' = IF v.run # r \/ v.ended[r] # "no" THEN v ELSE EndAndPark(v, r, "fetch")

-----------------------------------------------------------------------------
(* What the guest sends, as #onFrame() takes it.                           *)

OnReady(v, id, warm) ==
  LET purpose == IF id \in Ids THEN v.hellos[id] ELSE "none"
      k == IF purpose = "none" THEN v ELSE [v EXCEPT !.hellos[id] = "none", !.strikes = 0]
  IN CASE id = 0 ->
            IF v.run # None /\ v.state \in {"starting", "running"}
                 /\ v.ended[v.run] = "no"
            THEN EndAndPark(v, v.run, "broken") ELSE v
       [] id # 0 /\ purpose = "load" -> Greeted([k EXCEPT !.deadline = "off"], warm)
       [] id # 0 /\ purpose = "run" /\ k.run # None /\ k.helloId = id
            /\ k.phase[k.run] = "hello" /\ k.ended[k.run] = "no" ->
            [k EXCEPT !.phase[k.run] = "files", !.deadline = "off", !.writing = @ \cup {k.run}]
       [] OTHER -> k

Current(v, r) == r # None /\ v.run = r /\ v.ended[r] = "no"

OnStarted(v, r) ==
  IF Current(v, r) /\ v.phase[r] = "run"
  THEN Arm([SetState(v, "running") EXCEPT
              !.phase[r] = "running", !.strikes = 0, !.starts[r] = Count(@)], "ping")
  ELSE v

OnExit(v, r) ==
  CASE Current(v, r) -> EndAndPark(v, r, "exit")
    [] ~Current(v, r) /\ v.run = r /\ v.state = "stopping" -> Park(v)
    [] OTHER -> v

OnError(v, r) == IF Current(v, r) THEN EndAndPark(v, r, "broken") ELSE v

OnPong(v, id) ==
  IF id = v.pingId THEN Arm([v EXCEPT !.pingId = 0, !.strikes = 0], "ping") ELSE v

AnswerNext ==
  LET m == Head(vm.line)
      v == [vm EXCEPT !.line = Tail(@)]
  IN /\ vm.cpu /\ vm.line # << >> /\ (Retrying => "lateStart" \in Faults)
     /\ \/ m.type = "HELLO" /\ vm' = OnReady(v, m.id, TRUE)
        \/ m.type = "HELLO" /\ "cold" \in Faults /\ vm' = OnReady(v, m.id, FALSE)
        \/ m.type = "PING" /\ vm' = OnPong(v, m.id)
        \/ m.type = "RUN" /\ v.prog = None /\ vm' = OnStarted([v EXCEPT !.prog = m.id], m.id)
        \/ m.type = "RUN" /\ v.prog = None /\ "refuse" \in Faults /\ vm' = OnError(v, m.id)
        \/ m.type = "STOP" /\ v.prog = m.id /\ vm' = OnExit([v EXCEPT !.prog = None], m.id)
        \/ m.type = "STOP" /\ v.prog # m.id /\ vm' = v

(* The program ends of itself.                                             *)
ProgramExits ==
  /\ vm.cpu /\ vm.prog # None
  /\ vm' = OnExit([vm EXCEPT !.prog = None], vm.prog)

(* The agent dies with its program and some of what it had read, and the   *)
(* one init starts instead announces itself.                               *)
AgentRestarts ==
  /\ "crash" \in Faults
  /\ vm.cpu
  /\ \E lost \in 0 .. Len(vm.line) :
       vm' = OnReady([vm EXCEPT !.prog = None, !.line = SubSeq(@, lost + 1, Len(@))], 0, FALSE)

InvalidMessage ==
  /\ "garbled" \in Faults
  /\ vm.cpu /\ Current(vm, vm.prog)
  /\ vm' = EndAndPark(vm, vm.run, "broken")

(* While #park() or #load() awaits a restore or a pause, a failure is late *)
FailsInTime ==
  vm.park # "no" \/ vm.load \in {"restore", "pause"} => "lateFail" \in Faults

WrongVersion ==
  /\ "version" \in Faults
  /\ vm.cpu /\ FailsInTime /\ Len(vm.jobs) < MaxJobs
  /\ vm' = Fail(vm)

(* A rootfs file the guest has read since the restore cannot be had.       *)
FetchFailed ==
  /\ "fetch" \in Faults
  /\ vm.want /\ FailsInTime
  /\ \/ vm.state = "loading" /\ vm' = Fail(vm)
     \/ /\ vm.state \in {"starting", "running"}
        /\ Current(vm, vm.run)
        /\ vm' = [vm EXCEPT !.grace = @ \cup {vm.run}]

-----------------------------------------------------------------------------
PageStep == LoadRequested \/ RunRequested \/ StopRequested \/ SetVisible \/ Destroy
TimerStep == LoadDeadline \/ AnswerDeadline \/ PingDue \/ StopGraceOver \/ FetchGraceOver
GuestStep ==
  AnswerNext \/ ProgramExits \/ AgentRestarts \/ InvalidMessage \/ WrongVersion \/ FetchFailed
HostStep ==
  \/ MachineStep \/ Painted \/ Rebuilt \/ NotRebuilt \/ FilesWritten \/ FilesNotWritten
  \/ Downloaded \/ NotDownloaded \/ Built \/ NotBuilt

Next == PageStep \/ TimerStep \/ GuestStep \/ HostStep

vars == << vm >>

Spec == Init /\ [][Next]_vars

(* The event loop runs every task that is due; the guest owes nothing.     *)
Fairness ==
  /\ WF_vars(MachineStep) /\ WF_vars(Painted) /\ WF_vars(Rebuilt \/ NotRebuilt)
  /\ WF_vars(FilesWritten \/ FilesNotWritten)
  /\ WF_vars(Downloaded \/ NotDownloaded) /\ WF_vars(Built \/ NotBuilt)
  /\ WF_vars(StopGraceOver) /\ WF_vars(FetchGraceOver)
  /\ WF_vars(LoadDeadline) /\ WF_vars(AnswerDeadline) /\ WF_vars(PingDue)

FairSpec == Spec /\ Fairness

-----------------------------------------------------------------------------
(* Properties.                                                             *)

(* Every field has its type: the state is one of README 9.1, a run in hand *)
(* is one of the page's, and the watchdog waits for one thing at a time.   *)
TypeOK == vm \in VmType

(* The runs accepted whose `ended` has not been reported.                  *)
Open == {r \in 1 .. vm.accepted : vm.ended[r] = "no"}

(* No run is lost: one that has not ended is #run or #queued, so something *)
(* will still end it.  vm_run.js's class comment promises an `ended`       *)
(* exactly once for every run.                                             *)
EveryRunIsKept == Open \subseteq {vm.run, vm.queued}

(* run() ends every run before it at once, in whichever state it comes: "it *)
(* supersedes, it never waits".                                            *)
SupersedesNeverWaits == Open \subseteq {vm.accepted}

(* A VM that is starting or running has a run that has not ended, and      *)
(* something that moves it on: an armed deadline, files being written, or  *)
(* the machine's resume.  Without one the student's Run would hang.        *)
StartingIsLive ==
  vm.state \in {"starting", "running"} =>
    /\ vm.run \in Open
    /\ \/ vm.deadline # "off"
       \/ vm.run \in vm.writing
       \/ \E k \in DOMAIN vm.jobs : vm.jobs[k] = Job("begin", vm.run)

(* The warm interpreter is single-use (README 9.4): no two RUNs are sent   *)
(* to one restored machine.                                                *)
OneProgramPerRestore == vm.ran <= 1

(* A parked machine is stopped, and nothing of an earlier run or guest is  *)
(* left: no conversation, no frame, no program.                            *)
ParkedIsQuiet ==
  vm.state = "parked" =>
    /\ vm.run = None /\ ~vm.cpu /\ ~vm.want /\ vm.park = "no"
    /\ vm.hellos = NoHellos /\ vm.line = << >> /\ vm.prog = None

(* The 500 ms of a STOP run only while that run is stopping, so they never *)
(* park the machine under a later run.                                     *)
StopTimerIsTheRuns == vm.stopTimer \/ vm.orphans > 0 => vm.state = "stopping"

(* What the page was told last agrees with what the VM can do: `ready` and *)
(* no `failed` since exactly while it takes runs.                          *)
Readiness ==
  /\ vm.state \in {"parked", "starting", "running", "stopping", "parking"}
       => vm.told = "ready"
  /\ vm.told = "ready" => vm.state \notin {"unloaded", "loading", "failed"}

(* One run at a time is on its way: each start has something that moves it *)
(* on, each newer run takes over at once, no timer of an older run         *)
(* outlives it, and the page is told `ready` when and only when that is so. *)
StartsAndStops == SupersedesNeverWaits /\ StartingIsLive /\ StopTimerIsTheRuns /\ Readiness

(* README 9.1: the CPU of a failed VM is stopped, once what was asked of   *)
(* the machine is done.                                                    *)
FailedStopsCpu ==
  vm.state = "failed" /\ vm.jobs = << >> /\ vm.load = "no" => ~vm.cpu

(* Once nothing waits in the machine's queue, the CPU stands still exactly *)
(* while the page is hidden, however often it was hidden and shown while a *)
(* run was starting, running or stopping (README 9.6).                     *)
CpuFollowsThePage ==
  vm.jobs = << >> /\ vm.state \in {"starting", "running", "stopping"}
    => vm.cpu = vm.visible

(* The machine is what the state says: its CPU runs exactly when the state *)
(* and the page ask for it, a parked one is as it was restored, and each   *)
(* restored one is given one program.                                      *)
MachineIsRight == FailedStopsCpu /\ CpuFollowsThePage /\ ParkedIsQuiet /\ OneProgramPerRestore

(* The rows of README 9.2 that change the state, with the queued run's     *)
(* start folded into the step that parks.                                  *)
Table ==
  {<< "unloaded", "loading" >>, << "loading", "parked" >>, << "loading", "starting" >>,
   << "loading", "failed" >>, << "failed", "loading" >>, << "parked", "starting" >>,
   << "starting", "running" >>, << "stopping", "parking" >>}
  \cup ({"starting", "running"} \X {"stopping", "parking"})
  \cup ({"parking"} \X {"parked", "starting", "failed"})
  \cup (States \X {"destroyed"})

ByTheTable == vm'.state = vm.state \/ << vm.state, vm'.state >> \in Table

(* The state changes only along README 9.2's table.  It does not: at the   *)
(* second deadline of a start, `starting` is `failed` with no park between. *)
KeepsToTheTable == [][ByTheTable]_vars

(* A deadline of a start, with a strike already.                           *)
SecondDeadline == AnswerDeadline /\ vm.state = "starting" /\ vm.strikes > 0

(* Two things only fail a VM in a state in which the table does not: that  *)
(* second deadline, and a frame of another version (README 10).  Nothing   *)
(* else, a late timer, an answer or a park that ends, leaves the table.    *)
LeavesTheTableTwice ==
  [][ByTheTable \/ (vm'.state = "failed" /\ (SecondDeadline \/ WrongVersion))]_vars

(* stop() resolves, whatever the guest does or does not do.                *)
StopSettles == vm.waiting ~> ~vm.waiting

(* A run asked for is reported as started or as ended, with no answer of   *)
(* the guest's: README 9.2 gives a start one more go and then ends the run. *)
Decided(r) == vm.starts[r] > 0 \/ vm.ended[r] # "no"
RunIsDecided == \A r \in Runs : (vm.accepted >= r) ~> Decided(r)

(* A run stays undecided in two ways only: with a guest that answers HELLO *)
(* every time and RUN never, for READY clears the strike of the RUN before *)
(* it; or lost by an answer that comes after its deadline.                 *)
RunIsDecidedOrRetried ==
  RunIsDecided \/ []<>(vm.deadline = "STARTED") \/ <>~EveryRunIsKept

(* The run that has not ended, or None.                                    *)
LiveRun == IF Open = {} THEN None ELSE CHOOSE r \in Open : TRUE

(* The VM keeps what RunPromise promises the page.                         *)
Promise == INSTANCE RunPromise WITH
  accepted <- vm.accepted,
  live <- LiveRun,
  verdict <- vm.ended,
  starts <- vm.starts

KeepsItsPromise == Promise!Spec
=============================================================================
