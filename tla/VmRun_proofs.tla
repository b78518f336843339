----------------------------- MODULE VmRun_proofs -----------------------------
(***************************************************************************)
(* What VmRun keeps, for every number of runs, of waiting operations and   *)
(* of open conversations: its type, whatever comes late; and when nothing  *)
(* does, no run is lost, one at a time is on its way, the machine is what  *)
(* the state says, the state leaves its table in two places only, and the  *)
(* VM implements RunPromise.                                               *)
(*                                                                         *)
(* The methods of Vm are operators from a Vm to a Vm, so there is a lemma  *)
(* for each method: what type it returns, what it does to a Vm, and what   *)
(* of Inv it keeps; then one for every action; then the theorems. They     *)
(* rest on Updates and Fields, what a record of VmType is field by field.  *)
(***************************************************************************)
EXTENDS VmRun, TLAPS

(* A field may take any value of its type.                                 *)
LEMMA Updates ==
  ASSUME NEW v \in VmType
  PROVE
    /\ \A x \in States : [v EXCEPT !.state = x] \in VmType
    /\ \A x \in {"none", "pending", "ready"} : [v EXCEPT !.loading = x] \in VmType
    /\ \A x \in {"no", "bundle", "build", "restore", "resume", "greet", "pause"} :
         [v EXCEPT !.load = x] \in VmType
    /\ \A x \in Nat : [v EXCEPT !.tries = x] \in VmType
    /\ \A x \in BOOLEAN : [v EXCEPT !.bundle = x] \in VmType
    /\ \A x \in BOOLEAN : [v EXCEPT !.built = x] \in VmType
    /\ \A x \in 0 .. MaxRuns : [v EXCEPT !.accepted = x] \in VmType
    /\ \A x \in 0 .. MaxRuns : [v EXCEPT !.run = x] \in VmType
    /\ \A x \in 0 .. MaxRuns : [v EXCEPT !.queued = x] \in VmType
    /\ \A x \in [Runs -> Phases] : [v EXCEPT !.phase = x] \in VmType
    /\ \A x \in [Runs -> Reasons \cup {"no"}] : [v EXCEPT !.ended = x] \in VmType
    /\ \A x \in Nat : [v EXCEPT !.helloId = x] \in VmType
    /\ \A x \in [Ids -> Purposes \cup {"none"}] : [v EXCEPT !.hellos = x] \in VmType
    /\ \A x \in Nat : [v EXCEPT !.pingId = x] \in VmType
    /\ \A x \in 0 .. 2 : [v EXCEPT !.strikes = x] \in VmType
    /\ \A x \in BOOLEAN : [v EXCEPT !.stopTimer = x] \in VmType
    /\ \A x \in Nat : [v EXCEPT !.orphans = x] \in VmType
    /\ \A x \in {"no", "paint", "restore", "rebuild"} : [v EXCEPT !.park = x] \in VmType
    /\ \A x \in BOOLEAN : [v EXCEPT !.visible = x] \in VmType
    /\ \A x \in BOOLEAN : [v EXCEPT !.waiting = x] \in VmType
    /\ \A x \in SUBSET Runs : [v EXCEPT !.writing = x] \in VmType
    /\ \A x \in SUBSET Runs : [v EXCEPT !.grace = x] \in VmType
    /\ \A x \in Deadlines \cup {"off"} : [v EXCEPT !.deadline = x] \in VmType
    /\ \A x \in Seq([op : Ops, run : 0 .. MaxRuns]) : [v EXCEPT !.jobs = x] \in VmType
    /\ \A x \in BOOLEAN : [v EXCEPT !.want = x] \in VmType
    /\ \A x \in BOOLEAN : [v EXCEPT !.shown = x] \in VmType
    /\ \A x \in BOOLEAN : [v EXCEPT !.cpu = x] \in VmType
    /\ \A x \in Seq([type : Frames, id : Nat]) : [v EXCEPT !.line = x] \in VmType
    /\ \A x \in Nat : [v EXCEPT !.prog = x] \in VmType
    /\ \A x \in [Runs -> 0 .. 2] : [v EXCEPT !.starts = x] \in VmType
    /\ \A x \in 0 .. 2 : [v EXCEPT !.ran = x] \in VmType
    /\ \A x \in {"nothing", "ready", "failed"} : [v EXCEPT !.told = x] \in VmType
<1>1. ASSUME NEW x \in States
      PROVE  [v EXCEPT !.state = x] \in VmType
  BY ZenonT(60) DEF VmType
<1>2. ASSUME NEW x \in {"none", "pending", "ready"}
      PROVE  [v EXCEPT !.loading = x] \in VmType
  BY ZenonT(60) DEF VmType
<1>3. ASSUME NEW x \in {"no", "bundle", "build", "restore", "resume", "greet", "pause"}
      PROVE  [v EXCEPT !.load = x] \in VmType
  BY ZenonT(60) DEF VmType
<1>4. ASSUME NEW x \in Nat
      PROVE  [v EXCEPT !.tries = x] \in VmType
  BY ZenonT(60) DEF VmType
<1>5. ASSUME NEW x \in BOOLEAN
      PROVE  [v EXCEPT !.bundle = x] \in VmType
  BY ZenonT(60) DEF VmType
<1>6. ASSUME NEW x \in BOOLEAN
      PROVE  [v EXCEPT !.built = x] \in VmType
  BY ZenonT(60) DEF VmType
<1>7. ASSUME NEW x \in 0 .. MaxRuns
      PROVE  [v EXCEPT !.accepted = x] \in VmType
  BY ZenonT(60) DEF VmType
<1>8. ASSUME NEW x \in 0 .. MaxRuns
      PROVE  [v EXCEPT !.run = x] \in VmType
  BY ZenonT(60) DEF VmType
<1>9. ASSUME NEW x \in 0 .. MaxRuns
      PROVE  [v EXCEPT !.queued = x] \in VmType
  BY ZenonT(60) DEF VmType
<1>10. ASSUME NEW x \in [Runs -> Phases]
       PROVE  [v EXCEPT !.phase = x] \in VmType
  BY ZenonT(60) DEF VmType
<1>11. ASSUME NEW x \in [Runs -> Reasons \cup {"no"}]
       PROVE  [v EXCEPT !.ended = x] \in VmType
  BY ZenonT(60) DEF VmType
<1>12. ASSUME NEW x \in Nat
       PROVE  [v EXCEPT !.helloId = x] \in VmType
  BY ZenonT(60) DEF VmType
<1>13. ASSUME NEW x \in [Ids -> Purposes \cup {"none"}]
       PROVE  [v EXCEPT !.hellos = x] \in VmType
  BY ZenonT(60) DEF VmType
<1>14. ASSUME NEW x \in Nat
       PROVE  [v EXCEPT !.pingId = x] \in VmType
  BY ZenonT(60) DEF VmType
<1>15. ASSUME NEW x \in 0 .. 2
       PROVE  [v EXCEPT !.strikes = x] \in VmType
  BY ZenonT(60) DEF VmType
<1>16. ASSUME NEW x \in BOOLEAN
       PROVE  [v EXCEPT !.stopTimer = x] \in VmType
  BY ZenonT(60) DEF VmType
<1>17. ASSUME NEW x \in Nat
       PROVE  [v EXCEPT !.orphans = x] \in VmType
  BY ZenonT(60) DEF VmType
<1>18. ASSUME NEW x \in {"no", "paint", "restore", "rebuild"}
       PROVE  [v EXCEPT !.park = x] \in VmType
  BY ZenonT(60) DEF VmType
<1>19. ASSUME NEW x \in BOOLEAN
       PROVE  [v EXCEPT !.visible = x] \in VmType
  BY ZenonT(60) DEF VmType
<1>20. ASSUME NEW x \in BOOLEAN
       PROVE  [v EXCEPT !.waiting = x] \in VmType
  BY ZenonT(60) DEF VmType
<1>21. ASSUME NEW x \in SUBSET Runs
       PROVE  [v EXCEPT !.writing = x] \in VmType
  BY ZenonT(60) DEF VmType
<1>22. ASSUME NEW x \in SUBSET Runs
       PROVE  [v EXCEPT !.grace = x] \in VmType
  BY ZenonT(60) DEF VmType
<1>23. ASSUME NEW x \in Deadlines \cup {"off"}
       PROVE  [v EXCEPT !.deadline = x] \in VmType
  BY ZenonT(60) DEF VmType
<1>24. ASSUME NEW x \in Seq([op : Ops, run : 0 .. MaxRuns])
       PROVE  [v EXCEPT !.jobs = x] \in VmType
  BY ZenonT(60) DEF VmType
<1>25. ASSUME NEW x \in BOOLEAN
       PROVE  [v EXCEPT !.want = x] \in VmType
  BY ZenonT(60) DEF VmType
<1>26. ASSUME NEW x \in BOOLEAN
       PROVE  [v EXCEPT !.shown = x] \in VmType
  BY ZenonT(60) DEF VmType
<1>27. ASSUME NEW x \in BOOLEAN
       PROVE  [v EXCEPT !.cpu = x] \in VmType
  BY ZenonT(60) DEF VmType
<1>28. ASSUME NEW x \in Seq([type : Frames, id : Nat])
       PROVE  [v EXCEPT !.line = x] \in VmType
  BY ZenonT(60) DEF VmType
<1>29. ASSUME NEW x \in Nat
       PROVE  [v EXCEPT !.prog = x] \in VmType
  BY ZenonT(60) DEF VmType
<1>30. ASSUME NEW x \in [Runs -> 0 .. 2]
       PROVE  [v EXCEPT !.starts = x] \in VmType
  BY ZenonT(60) DEF VmType
<1>31. ASSUME NEW x \in 0 .. 2
       PROVE  [v EXCEPT !.ran = x] \in VmType
  BY ZenonT(60) DEF VmType
<1>32. ASSUME NEW x \in {"nothing", "ready", "failed"}
       PROVE  [v EXCEPT !.told = x] \in VmType
  BY ZenonT(60) DEF VmType
<1> QED
  BY <1>1, <1>2, <1>3, <1>4, <1>5, <1>6, <1>7, <1>8, <1>9, <1>10, <1>11, <1>12,
     <1>13, <1>14, <1>15, <1>16, <1>17, <1>18, <1>19, <1>20, <1>21, <1>22, <1>23, <1>24,
     <1>25, <1>26, <1>27, <1>28, <1>29, <1>30, <1>31, <1>32

(* A field has a value of its type.                                        *)
LEMMA Fields ==
  ASSUME NEW v \in VmType
  PROVE
    /\ v.state \in States
    /\ v.loading \in {"none", "pending", "ready"}
    /\ v.load \in {"no", "bundle", "build", "restore", "resume", "greet", "pause"}
    /\ v.tries \in Nat
    /\ v.bundle \in BOOLEAN
    /\ v.built \in BOOLEAN
    /\ v.accepted \in 0 .. MaxRuns
    /\ v.run \in 0 .. MaxRuns
    /\ v.queued \in 0 .. MaxRuns
    /\ v.phase \in [Runs -> Phases]
    /\ v.ended \in [Runs -> Reasons \cup {"no"}]
    /\ v.helloId \in Nat
    /\ v.hellos \in [Ids -> Purposes \cup {"none"}]
    /\ v.pingId \in Nat
    /\ v.strikes \in 0 .. 2
    /\ v.stopTimer \in BOOLEAN
    /\ v.orphans \in Nat
    /\ v.park \in {"no", "paint", "restore", "rebuild"}
    /\ v.visible \in BOOLEAN
    /\ v.waiting \in BOOLEAN
    /\ v.writing \in SUBSET Runs
    /\ v.grace \in SUBSET Runs
    /\ v.deadline \in Deadlines \cup {"off"}
    /\ v.jobs \in Seq([op : Ops, run : 0 .. MaxRuns])
    /\ v.want \in BOOLEAN
    /\ v.shown \in BOOLEAN
    /\ v.cpu \in BOOLEAN
    /\ v.line \in Seq([type : Frames, id : Nat])
    /\ v.prog \in Nat
    /\ v.starts \in [Runs -> 0 .. 2]
    /\ v.ran \in 0 .. 2
    /\ v.told \in {"nothing", "ready", "failed"}
BY DEF VmType

(* None and zero belong to every type of numbers.                          *)
LEMMA AssumeTypes ==
  MaxRuns \in Nat /\ 0 \in 0 .. MaxRuns /\ None \in 0 .. MaxRuns /\ 0 \in Nat /\ 0 \in 0 .. 2
BY BoundsAssumption DEF None

(* Sequences grow within their type.                                       *)
LEMMA AppendType ==
  ASSUME NEW S, NEW seq \in Seq(S), NEW e \in S
  PROVE  Append(seq, e) \in Seq(S) /\ << >> \in Seq(S) /\ << e >> \in Seq(S)
OBVIOUS

(* The machine: its queue, its CPU, its replacement and its restore.       *)
LEMMA EnqueueType ==
  ASSUME NEW v \in VmType, NEW op \in Ops, NEW r \in 0 .. MaxRuns
  PROVE  Enqueue(v, op, r) \in VmType
<1>1. Job(op, r) \in [op : Ops, run : 0 .. MaxRuns]
  BY DEF Job
<1>2. v.jobs \in Seq([op : Ops, run : 0 .. MaxRuns])
  BY Fields
<1>3. Append(v.jobs, Job(op, r)) \in Seq([op : Ops, run : 0 .. MaxRuns])
  BY <1>1, <1>2, AppendType
<1> QED BY <1>3, Updates DEF Enqueue

(* The CPU runs or not.                                                    *)
LEMMA ApplyCpuType == ASSUME NEW v \in VmType PROVE ApplyCpu(v) \in VmType
<1>1. (v.want /\ v.shown) \in BOOLEAN
  OBVIOUS
<1> QED BY <1>1, Updates DEF ApplyCpu

(* A machine under construction is still a machine.                        *)
LEMMA NoMachineType == ASSUME NEW v \in VmType PROVE NoMachine(v) \in VmType
<1>1. << >> \in Seq([op : Ops, run : 0 .. MaxRuns])
  OBVIOUS
<1> QED BY <1>1, Updates DEF NoMachine

(* So is a new one, whether it was told to hide or not.                    *)
LEMMA NewMachineType == ASSUME NEW v \in VmType PROVE NewMachine(v) \in VmType
<1>1. Job("hide", None) \in [op : Ops, run : 0 .. MaxRuns]
  BY AssumeTypes DEF Job, Ops
<1>2. << Job("hide", None) >> \in Seq([op : Ops, run : 0 .. MaxRuns])
      /\ << >> \in Seq([op : Ops, run : 0 .. MaxRuns])
  BY <1>1, AppendType
<1>3. << >> \in Seq([type : Frames, id : Nat]) /\ None \in Nat
  BY DEF None
<1> QED BY <1>2, <1>3, Updates DEF NewMachine

(* And a restored one.                                                     *)
LEMMA RestoredType == ASSUME NEW v \in VmType PROVE Restored(v) \in VmType
<1>1. << >> \in Seq([type : Frames, id : Nat]) /\ None \in Nat /\ 0 \in 0 .. 2
  BY DEF None
<1> QED BY <1>1, Updates DEF Restored

(* The line to the guest.                                                  *)
LEMMA SendType ==
  ASSUME NEW v \in VmType, NEW type \in Frames, NEW id \in Nat
  PROVE  Send(v, type, id) \in VmType
<1>1. /\ v.line \in Seq([type : Frames, id : Nat])
      /\ [type |-> type, id |-> id] \in [type : Frames, id : Nat]
  BY Fields
<1>2. Append(v.line, [type |-> type, id |-> id]) \in Seq([type : Frames, id : Nat])
  BY <1>1, AppendType
<1> QED BY <1>2, Updates DEF Send

(* The id of a conversation is one of Ids, whichever are in use.           *)
LEMMA NextIdType == ASSUME NEW v PROVE NextId(v) \in Ids /\ NextId(v) \in Nat
BY IdsAssumption DEF NextId

(* HELLO opens a conversation with an id of its own.                       *)
LEMMA HelloType ==
  ASSUME NEW v \in VmType, NEW purpose \in Purposes
  PROVE  Hello(v, purpose) \in VmType
<1> DEFINE id == NextId(v)
<1>1. id \in Ids /\ id \in Nat
  BY NextIdType
<1> HIDE DEF id
<1>2. [v.hellos EXCEPT ![id] = purpose] \in [Ids -> Purposes \cup {"none"}]
  BY Fields
<1>3. [v EXCEPT !.hellos[id] = purpose] \in VmType
  BY <1>2, Updates
<1>4. Send([v EXCEPT !.hellos[id] = purpose], "HELLO", id) \in VmType
  BY <1>1, <1>3, SendType DEF Frames
<1> QED BY <1>4 DEF Hello, id

(* The watchdog waits for one of the deadlines.                            *)
LEMMA ArmType ==
  ASSUME NEW v \in VmType, NEW deadline \in Deadlines
  PROVE  Arm(v, deadline) \in VmType
BY Updates DEF Arm

(* No conversation is open any more.                                       *)
LEMMA AbandonHellosType == ASSUME NEW v \in VmType PROVE AbandonHellos(v) \in VmType
<1>1. NoHellos \in [Ids -> Purposes \cup {"none"}]
  BY DEF NoHellos
<1> QED BY <1>1, Updates DEF AbandonHellos

(* An empty line has its type.                                             *)
LEMMA ResetLineType == ASSUME NEW v \in VmType PROVE ResetLine(v) \in VmType
<1>1. << >> \in Seq([type : Frames, id : Nat])
  OBVIOUS
<1> QED BY <1>1, AbandonHellosType, Updates DEF ResetLine

(* The life of a run, up to its park.                                      *)
LEMMA SetStateType ==
  ASSUME NEW v \in VmType, NEW state \in States
  PROVE  SetState(v, state) \in VmType
<1>1. (IF v.state = "destroyed" THEN v.state ELSE state) \in States
  BY Fields
<1> QED BY <1>1, Updates DEF SetState

(* A run ends with one of the reasons.                                     *)
LEMMA EndType ==
  ASSUME NEW v \in VmType, NEW r \in 0 .. MaxRuns, NEW reason \in Reasons
  PROVE  End(v, r, reason) \in VmType
<1>1. r # None => r \in Runs
  BY AssumeTypes DEF Runs, None
<1>2. [v.ended EXCEPT ![r] = reason] \in [Runs -> Reasons \cup {"no"}]
  BY Fields
<1> QED BY <1>2, Updates DEF End

(* A run begins with HELLO.                                                *)
LEMMA BeginType == ASSUME NEW v \in VmType, NEW r \in Runs PROVE Begin(v, r) \in VmType
<1> DEFINE s == [SetState(v, "starting") EXCEPT !.run = r]
<1>1. r \in 0 .. MaxRuns
  BY AssumeTypes DEF Runs
<1>2. s \in VmType
  BY <1>1, SetStateType, Updates DEF States
<1> HIDE DEF s
<1>3. [s.phase EXCEPT ![r] = "hello"] \in [Runs -> Phases]
  BY <1>2, Fields DEF Phases
<1>4. [s EXCEPT !.phase[r] = "hello"] \in VmType
  BY <1>2, <1>3, Updates
<1>5. Enqueue([s EXCEPT !.phase[r] = "hello"], "begin", r) \in VmType
  BY <1>1, <1>4, EnqueueType DEF Ops
<1> QED BY <1>5 DEF Begin, s

(* A queued run is one of the runs.                                        *)
LEMMA StartQueuedType == ASSUME NEW v \in VmType PROVE StartQueued(v) \in VmType
<1>1. [v EXCEPT !.queued = None] \in VmType
  BY AssumeTypes, Updates
<1>2. v.queued # None => v.queued \in Runs
  BY AssumeTypes, Fields DEF Runs, None
<1> QED BY <1>1, <1>2, BeginType DEF StartQueued

(* Parking changes the state and drops timers.                             *)
LEMMA ParkType == ASSUME NEW v \in VmType PROVE Park(v) \in VmType
<1>1. SetState(v, "parking") \in VmType
  BY SetStateType DEF States
<1> QED BY <1>1, Updates DEF Park

(* A second timer leaves the first one an orphan.                          *)
LEMMA SetStopTimerType == ASSUME NEW v \in VmType PROVE SetStopTimer(v) \in VmType
<1>1. (IF v.stopTimer THEN v.orphans + 1 ELSE v.orphans) \in Nat
  BY Fields
<1> QED BY <1>1, Updates DEF SetStopTimer

(* stop() sends STOP or parks.                                             *)
LEMMA StopRunType == ASSUME NEW v \in VmType PROVE StopRun(v) \in VmType
<1> DEFINE e == End(v, v.run, "stopped")
<1>1. v.run \in 0 .. MaxRuns /\ v.run \in Nat
  BY AssumeTypes, Fields
<1>2. e \in VmType
  BY <1>1, EndType DEF Reasons
<1> HIDE DEF e
<1>3. SetState(Send(e, "STOP", v.run), "stopping") \in VmType
  BY <1>1, <1>2, SendType, SetStateType DEF Frames, States
<1>4. [SetState(Send(e, "STOP", v.run), "stopping") EXCEPT !.deadline = "off"] \in VmType
  BY <1>3, Updates
<1>5. SetStopTimer([SetState(Send(e, "STOP", v.run), "stopping") EXCEPT !.deadline = "off"])
        \in VmType
  BY <1>4, SetStopTimerType
<1>6. Park(e) \in VmType
  BY <1>2, ParkType
<1> QED BY <1>5, <1>6 DEF StopRun, e

(* A load that is over has no place to wait.                               *)
LEMMA LoadOverType ==
  ASSUME NEW v \in VmType, NEW loading \in {"none", "pending", "ready"}
  PROVE  LoadOver(v, loading) \in VmType
BY Updates DEF LoadOver

(* A failure ends both runs and asks for a pause.                          *)
LEMMA FailType == ASSUME NEW v \in VmType PROVE Fail(v) \in VmType
<1> DEFINE a == AbandonHellos(End(End(v, v.run, "broken"), v.queued, "broken"))
           q == IF v.built THEN Append(a.jobs, Job("pause", None)) ELSE a.jobs
           f == [a EXCEPT
                   !.state = "failed", !.deadline = "off", !.stopTimer = FALSE,
                   !.run = None, !.queued = None, !.told = "failed", !.waiting = FALSE,
                   !.jobs = q]
<1>1. a \in VmType
  BY Fields, EndType, AbandonHellosType DEF Reasons
<1> HIDE DEF a
<1>2. a.jobs \in Seq([op : Ops, run : 0 .. MaxRuns])
  BY <1>1, Fields
<1>3. Job("pause", None) \in [op : Ops, run : 0 .. MaxRuns]
  BY AssumeTypes DEF Job, Ops
<1>4. q \in Seq([op : Ops, run : 0 .. MaxRuns])
  BY <1>2, <1>3, AppendType
<1> HIDE DEF q
<1>5. "failed" \in States
  BY DEF States
<1>6. f \in VmType
  BY <1>1, <1>4, <1>5, AssumeTypes, Updates
<1> HIDE DEF f
<1>7. LoadOver(f, "none") \in VmType
  BY <1>6, LoadOverType
<1> QED BY <1>6, <1>7 DEF Fail, f, q, a

(* So does a failed load.                                                  *)
LEMMA FailLoadType == ASSUME NEW v \in VmType PROVE FailLoad(v) \in VmType
BY FailType, LoadOverType DEF FailLoad

(* Ending and parking is one after the other.                              *)
LEMMA EndAndParkType ==
  ASSUME NEW v \in VmType, NEW r \in 0 .. MaxRuns, NEW reason \in Reasons
  PROVE  EndAndPark(v, r, reason) \in VmType
BY EndType, ParkType DEF EndAndPark

(* A finished park starts what is queued.                                  *)
LEMMA FinishParkType == ASSUME NEW v \in VmType PROVE FinishPark(v) \in VmType
<1> DEFINE p == SetState(ResetLine(v), "parked")
           q == [r \in Runs |-> IF r = v.run THEN "queued" ELSE p.phase[r]]
           f == [p EXCEPT !.phase = q, !.helloId = 0, !.run = None, !.park = "no",
                          !.waiting = FALSE]
<1>1. p \in VmType
  BY ResetLineType, SetStateType DEF States
<1> HIDE DEF p
<1>2. q \in [Runs -> Phases]
  BY <1>1, Fields DEF Phases
<1> HIDE DEF q
<1>3. f \in VmType
  BY <1>1, <1>2, AssumeTypes, Updates
<1> HIDE DEF f
<1>4. StartQueued(f) \in VmType
  BY <1>3, StartQueuedType
<1> QED BY <1>4 DEF FinishPark, f, q, p

(* Loading.                                                                *)
LEMMA LoadCallType == ASSUME NEW v \in VmType PROVE LoadCall(v) \in VmType
<1>1. SetState(v, "loading") \in VmType
  BY SetStateType DEF States
<1> QED BY <1>1, Updates DEF LoadCall

(* The bundle is held or not.                                              *)
LEMMA DropBundleType == ASSUME NEW v \in VmType PROVE DropBundle(v) \in VmType
BY Updates DEF DropBundle

(* A load restores, or is over.                                            *)
LEMMA TryRestoreType == ASSUME NEW v \in VmType PROVE TryRestore(v) \in VmType
<1> DEFINE w == [v EXCEPT !.load = "restore", !.tries = @ + 1]
<1>1. v.tries + 1 \in Nat
  BY Fields
<1>2. w \in VmType
  BY <1>1, Updates
<1> HIDE DEF w
<1>3. Enqueue(w, "loadRestore", None) \in VmType
  BY <1>2, AssumeTypes, EnqueueType DEF Ops
<1>4. LoadOver(v, "none") \in VmType /\ FailLoad(DropBundle(v)) \in VmType
  BY LoadOverType, DropBundleType, FailLoadType
<1> QED BY <1>3, <1>4 DEF TryRestore, w

(* A load pauses, or is over.                                              *)
LEMMA GreetedType ==
  ASSUME NEW v \in VmType, NEW warm \in BOOLEAN
  PROVE  Greeted(v, warm) \in VmType
<1>1. [v EXCEPT !.load = "pause"] \in VmType
  BY Updates
<1>2. Enqueue([v EXCEPT !.load = "pause"], "loadPause", None) \in VmType
  BY <1>1, AssumeTypes, EnqueueType DEF Ops
<1>3. LoadOver(v, "none") \in VmType /\ FailLoad(v) \in VmType
  BY LoadOverType, FailLoadType
<1> QED BY <1>2, <1>3 DEF Greeted

(* Counters stay at or below 2.                                            *)
LEMMA CountType == ASSUME NEW n \in 0 .. 2 PROVE Count(n) \in 0 .. 2
BY DEF Count

(* Deadlines.                                                              *)
LEMMA ExpiredType == ASSUME NEW v \in VmType PROVE Expired(v) \in VmType
<1> DEFINE s == [v EXCEPT !.strikes = Count(@)]
<1>1. s \in VmType
  BY Fields, CountType, Updates
<1> HIDE DEF s
<1>2. s.run \in 0 .. MaxRuns /\ s.queued \in 0 .. MaxRuns
  BY <1>1, Fields
<1>3. Fail(End(s, s.run, "unresponsive")) \in VmType
  BY <1>1, <1>2, EndType, FailType DEF Reasons
<1>4. EndAndPark(s, s.run, "unresponsive") \in VmType
  BY <1>1, <1>2, EndAndParkType DEF Reasons
<1>5. [s EXCEPT !.queued = IF @ = None THEN s.run ELSE @] \in VmType
  BY <1>1, <1>2, Updates
<1>6. Park([s EXCEPT !.queued = IF @ = None THEN s.run ELSE @]) \in VmType
  BY <1>5, ParkType
<1> QED BY <1>1, <1>3, <1>4, <1>6 DEF Expired, s

(* PING has an id of its own.                                              *)
LEMMA PingType == ASSUME NEW v \in VmType PROVE Ping(v) \in VmType
<1> DEFINE id == NextId(v)
<1>1. id \in Nat
  BY NextIdType
<1> HIDE DEF id
<1>2. [v EXCEPT !.pingId = id] \in VmType
  BY <1>1, Updates
<1>3. Arm(Send([v EXCEPT !.pingId = id], "PING", id), "PONG") \in VmType
  BY <1>1, <1>2, SendType, ArmType DEF Frames, Deadlines
<1> QED BY <1>3 DEF Ping, id

(* What the guest sends.                                                   *)
LEMMA OnReadyType ==
  ASSUME NEW v \in VmType, NEW id \in Nat, NEW warm \in BOOLEAN
  PROVE  OnReady(v, id, warm) \in VmType
<1> DEFINE purpose == IF id \in Ids THEN v.hellos[id] ELSE "none"
           k == IF purpose = "none" THEN v ELSE [v EXCEPT !.hellos[id] = "none", !.strikes = 0]
           h == [v EXCEPT !.hellos[id] = "none"]
           d == [k EXCEPT !.phase[k.run] = "files", !.deadline = "off", !.writing = @ \cup {k.run}]
           p == [k EXCEPT !.phase[k.run] = "files"]
<1>1. h \in VmType
  <2>1. [v.hellos EXCEPT ![id] = "none"] \in [Ids -> Purposes \cup {"none"}]
    BY Fields
  <2> QED BY <2>1, Updates
<1>2. [h EXCEPT !.strikes = 0] \in VmType
  <2> HIDE DEF h
  <2> QED BY <1>1, AssumeTypes, Updates
<1>3. k \in VmType
  BY <1>2
<1>4. EndAndPark(v, v.run, "broken") \in VmType
  BY Fields, EndAndParkType DEF Reasons
<1> HIDE DEF k
<1>5. Greeted([k EXCEPT !.deadline = "off"], warm) \in VmType
  BY <1>3, Updates, GreetedType
<1>6. p \in VmType
  <2>1. [k.phase EXCEPT ![k.run] = "files"] \in [Runs -> Phases]
    BY <1>3, Fields DEF Phases
  <2> QED BY <1>3, <2>1, Updates
<1>7. k.run # None => k.writing \cup {k.run} \in SUBSET Runs
  BY <1>3, Fields, AssumeTypes DEF Runs, None
<1>8. k.run # None => d \in VmType
  <2>1. p.writing = k.writing
    BY <1>3 DEF VmType
  <2> HIDE DEF p
  <2>2. k.run # None => [p EXCEPT !.deadline = "off", !.writing = k.writing \cup {k.run}] \in VmType
    BY <1>6, <1>7, Updates
  <2> QED BY <1>3, <2>2 DEF p, VmType
<1> QED BY <1>3, <1>4, <1>5, <1>8 DEF OnReady, k

(* STARTED makes the run a running one.                                    *)
LEMMA OnStartedType == ASSUME NEW v \in VmType, NEW r \in Nat PROVE OnStarted(v, r) \in VmType
<1> DEFINE s == SetState(v, "running")
           t == [s EXCEPT !.phase[r] = "running"]
           u == [t EXCEPT !.strikes = 0]
           w == [u EXCEPT !.starts[r] = Count(@)]
<1>1. s \in VmType
  BY SetStateType DEF States
<1> HIDE DEF s
<1>2. t \in VmType
  <2>1. [s.phase EXCEPT ![r] = "running"] \in [Runs -> Phases]
    BY <1>1, Fields DEF Phases
  <2> QED BY <1>1, <2>1, Updates
<1> HIDE DEF t
<1>3. u \in VmType
  BY <1>2, AssumeTypes, Updates
<1> HIDE DEF u
<1>4. w \in VmType
  <2>1. [u.starts EXCEPT ![r] = Count(@)] \in [Runs -> 0 .. 2]
    BY <1>3, Fields, CountType
  <2> QED BY <1>3, <2>1, Updates
<1> HIDE DEF w
<1>5. Arm(w, "ping") \in VmType
  BY <1>4, ArmType DEF Deadlines
<1> QED BY <1>5 DEF OnStarted, w, u, t, s

(* EXIT ends the run or completes its STOP.                                *)
LEMMA OnExitType == ASSUME NEW v \in VmType, NEW r \in Nat PROVE OnExit(v, r) \in VmType
<1>1. Current(v, r) => r \in 0 .. MaxRuns
  BY Fields DEF Current
<1>2. Current(v, r) => EndAndPark(v, r, "exit") \in VmType
  BY <1>1, EndAndParkType DEF Reasons
<1>3. Park(v) \in VmType
  BY ParkType
<1> QED BY <1>2, <1>3 DEF OnExit

(* ERROR ends the run.                                                     *)
LEMMA OnErrorType == ASSUME NEW v \in VmType, NEW r \in Nat PROVE OnError(v, r) \in VmType
<1>1. Current(v, r) => r \in 0 .. MaxRuns
  BY Fields DEF Current
<1> QED BY <1>1, EndAndParkType DEF Reasons, OnError

(* PONG is followed by the next PING.                                      *)
LEMMA OnPongType == ASSUME NEW v \in VmType, NEW id \in Nat PROVE OnPong(v, id) \in VmType
<1>1. [v EXCEPT !.pingId = 0, !.strikes = 0] \in VmType
  BY AssumeTypes, Updates
<1> QED BY <1>1, ArmType DEF OnPong, Deadlines

-----------------------------------------------------------------------------
(* No call of the page leaves the type.                                    *)
LEMMA PageStepType == TypeOK /\ PageStep => TypeOK'
<1> SUFFICES ASSUME vm \in VmType, PageStep PROVE vm' \in VmType
  BY DEF TypeOK
<1>1. CASE LoadRequested
  BY <1>1, LoadCallType DEF LoadRequested
<1>2. CASE RunRequested
  <2> DEFINE r == vm.accepted + 1
             v == [vm EXCEPT !.accepted = r]
             q == [End(v, v.queued, "stopped") EXCEPT !.queued = r]
  <2>1. r \in 0 .. MaxRuns
    BY <1>2, AssumeTypes, Fields DEF RunRequested
  <2> HIDE DEF r
  <2>2. v \in VmType
    BY <2>1, Updates
  <2> HIDE DEF v
  <2>3. End(v, v.queued, "stopped") \in VmType
    BY <2>2, Fields, EndType DEF Reasons
  <2>4. q \in VmType
    BY <2>1, <2>3, Updates
  <2> HIDE DEF q
  <2>5. /\ End(v, r, "broken") \in VmType
        /\ StopRun(q) \in VmType /\ StartQueued(q) \in VmType /\ LoadCall(q) \in VmType
    BY <2>1, <2>2, <2>4, EndType, StopRunType, StartQueuedType, LoadCallType DEF Reasons
  <2> QED BY <1>2, <2>4, <2>5 DEF RunRequested, r, v, q
<1>3. CASE StopRequested
  <2> DEFINE e == [End(vm, vm.queued, "stopped") EXCEPT !.queued = None]
             v == StopRun(e)
  <2>1. e \in VmType
    BY Fields, AssumeTypes, EndType, Updates DEF Reasons
  <2> HIDE DEF e
  <2>2. v \in VmType
    BY <2>1, StopRunType
  <2> HIDE DEF v
  <2>3. (v.waiting \/ Busy(v)) \in BOOLEAN
    OBVIOUS
  <2>4. [v EXCEPT !.waiting = v.waiting \/ Busy(v)] \in VmType
    BY <2>2, <2>3, Updates
  <2> QED BY <1>3, <2>4 DEF StopRequested, v, e
<1>4. CASE SetVisible
  <2> DEFINE v == [vm EXCEPT !.visible = ~@]
  <2>1. v \in VmType
    BY Updates
  <2> HIDE DEF v
  <2>2. Enqueue(v, "show", None) \in VmType /\ Enqueue(v, "hide", None) \in VmType
    BY <2>1, AssumeTypes, EnqueueType DEF Ops
  <2> QED BY <1>4, <2>1, <2>2 DEF SetVisible, v
<1>5. CASE Destroy
  <2> DEFINE e == End(End(vm, vm.queued, "stopped"), vm.run, "stopped")
             n == NoMachine(AbandonHellos(e))
             underWay == /\ "lateFail" \in Faults
                         /\ vm.jobs # << >> /\ Head(vm.jobs).op = "loadPause"
             load == IF underWay THEN n.load ELSE "no"
             jobs == IF underWay THEN << Head(vm.jobs) >> ELSE << >>
             w == [n EXCEPT
                     !.state = "destroyed", !.stopTimer = FALSE, !.park = "no",
                     !.run = None, !.queued = None, !.waiting = FALSE, !.writing = {}]
  <2>1. n \in VmType
    BY Fields, EndType, AbandonHellosType, NoMachineType DEF Reasons
  <2> HIDE DEF n
  <2>2. "destroyed" \in States /\ {} \in SUBSET Runs
    BY DEF States
  <2>3. w \in VmType
    BY <2>1, <2>2, AssumeTypes, Updates
  <2>4. w.load = n.load
    BY <2>1 DEF VmType
  <2>5. load \in {"no", "bundle", "build", "restore", "resume", "greet", "pause"}
    BY <2>1, Fields
  <2>6. jobs \in Seq([op : Ops, run : 0 .. MaxRuns])
    <3> DEFINE S == [op : Ops, run : 0 .. MaxRuns]
    <3>1. vm.jobs \in Seq(S)
      BY Fields
    <3> HIDE DEF S
    <3>2. vm.jobs # << >> => Head(vm.jobs) \in S
      BY <3>1
    <3>3. jobs \in Seq(S)
      BY <3>2, AppendType
    <3> QED BY <3>3 DEF S
  <2> HIDE DEF w, load, jobs
  <2>7. [w EXCEPT !.load = load, !.jobs = jobs] \in VmType
    BY <2>3, <2>5, <2>6, Updates
  <2> QED BY <1>5, <2>7 DEF Destroy, w, load, jobs, n
<1> QED BY <1>1, <1>2, <1>3, <1>4, <1>5 DEF PageStep

(* A job done leaves the rest of the queue.                                *)
LEMMA JobDoneType == ASSUME vm \in VmType, vm.jobs # << >> PROVE JobDone \in VmType
<1> DEFINE S == [op : Ops, run : 0 .. MaxRuns]
<1>1. vm.jobs \in Seq(S)
  BY Fields
<1> HIDE DEF S
<1>2. Tail(vm.jobs) \in Seq(S)
  BY <1>1
<1> QED BY <1>2, Updates DEF JobDone, S

(* Nor does the end of a machine operation.                                *)
LEMMA MachineStepType == TypeOK /\ MachineStep => TypeOK'
<1> SUFFICES ASSUME vm \in VmType, MachineStep PROVE vm' \in VmType
  BY DEF TypeOK
<1>1. JobDone \in VmType
  BY JobDoneType
  DEF MachineStep, NextJob, LoadRestoreJob, LoadResumeJob, LoadPauseJob, BeginJob, ParkRestoreJob,
      PauseJob, ShowJob, HideJob
<1> DEFINE d == JobDone
<1>2. d \in VmType
  BY <1>1
<1> HIDE DEF d
<1>3. CASE LoadRestoreJob
  <2>1. ResetLine(Restored(d)) \in VmType /\ FailLoad(DropBundle(Restored(d))) \in VmType
    BY <1>2, RestoredType, ResetLineType, DropBundleType, FailLoadType
  <2>2. [ResetLine(Restored(d)) EXCEPT !.load = "resume"] \in VmType
    BY <2>1, Updates
  <2>3. Enqueue([ResetLine(Restored(d)) EXCEPT !.load = "resume"], "loadResume", None) \in VmType
    BY <2>2, AssumeTypes, EnqueueType DEF Ops
  <2> QED BY <1>3, <2>1, <2>3 DEF LoadRestoreJob, d
<1>4. CASE LoadResumeJob
  <2>1. [ApplyCpu([d EXCEPT !.want = TRUE]) EXCEPT !.load = "greet"] \in VmType
    BY <1>2, ApplyCpuType, Updates
  <2> QED BY <1>4, <2>1, HelloType, ArmType DEF LoadResumeJob, d, Purposes, Deadlines
<1>5. CASE LoadPauseJob
  <2>1. LoadOver(ApplyCpu([d EXCEPT !.want = FALSE]), "ready") \in VmType
    BY <1>2, ApplyCpuType, LoadOverType, Updates
  <2>2. [LoadOver(ApplyCpu([d EXCEPT !.want = FALSE]), "ready") EXCEPT !.told = "ready"] \in VmType
    BY <2>1, Updates
  <2> QED BY <1>5, <2>2, SetStateType, StartQueuedType DEF LoadPauseJob, d, States
<1>6. CASE BeginJob
  <2> DEFINE v == ApplyCpu([d EXCEPT !.want = TRUE])
  <2>1. v \in VmType
    BY <1>2, ApplyCpuType, Updates
  <2> HIDE DEF v
  <2>2. Hello(v, "run") \in VmType /\ NextId(v) \in Nat
    BY <2>1, HelloType, NextIdType DEF Purposes
  <2>3. [Hello(v, "run") EXCEPT !.helloId = NextId(v)] \in VmType
    BY <2>2, Updates
  <2>4. Arm([Hello(v, "run") EXCEPT !.helloId = NextId(v)], "HELLO") \in VmType
    BY <2>3, ArmType DEF Deadlines
  <2> QED BY <1>6, <2>1, <2>4 DEF BeginJob, v, d
<1>7. CASE ParkRestoreJob
  <2>1. FinishPark(Restored(d)) \in VmType
    BY <1>2, RestoredType, FinishParkType
  <2>2. [NoMachine(Restored(d)) EXCEPT !.park = "rebuild"] \in VmType
    BY <1>2, RestoredType, NoMachineType, Updates
  <2> QED BY <1>7, <2>1, <2>2 DEF ParkRestoreJob, d
<1>8. CASE PauseJob
  BY <1>2, <1>8, ApplyCpuType, Updates DEF PauseJob, d
<1>9. CASE ShowJob
  <2>1. ApplyCpu([d EXCEPT !.shown = TRUE]) \in VmType
    BY <1>2, ApplyCpuType, Updates
  <2> QED BY <1>9, <2>1, HelloType DEF ShowJob, d, Purposes
<1>10. CASE HideJob
  BY <1>2, <1>10, ApplyCpuType, Updates DEF HideJob, d
<1> QED
  BY <1>3, <1>4, <1>5, <1>6, <1>7, <1>8, <1>9, <1>10 DEF MachineStep

(* Nor any other continuation of an await.                                 *)
LEMMA HostStepType == TypeOK /\ HostStep => TypeOK'
<1> SUFFICES ASSUME vm \in VmType, HostStep PROVE vm' \in VmType
  BY DEF TypeOK
<1>1. CASE MachineStep
  BY <1>1, MachineStepType DEF TypeOK
<1>2. CASE Painted
  <2>1. [vm EXCEPT !.park = "restore"] \in VmType
    BY Updates
  <2> QED BY <1>2, <2>1, AssumeTypes, EnqueueType DEF Painted, Ops
<1>3. CASE Rebuilt
  BY <1>3, NewMachineType, RestoredType, FinishParkType DEF Rebuilt
<1>4. CASE NotRebuilt
  BY <1>4, FailType, Updates DEF NotRebuilt
<1>5. CASE FilesWritten
  <2>1. PICK r \in vm.writing :
          LET v == [vm EXCEPT !.writing = @ \ {r}] IN
          vm' = IF v.run # r \/ v.ended[r] # "no"
                THEN v
                ELSE Arm([Send(v, "RUN", r) EXCEPT !.phase[r] = "run", !.ran = Count(@)], "STARTED")
    BY <1>5 DEF FilesWritten
  <2> DEFINE v == [vm EXCEPT !.writing = @ \ {r}]
             s == Send(v, "RUN", r)
             t == [s EXCEPT !.phase[r] = "run"]
  <2>2. r \in Runs /\ r \in Nat
    BY Fields DEF Runs
  <2>3. v \in VmType
    <3>1. vm.writing \ {r} \in SUBSET Runs
      BY Fields
    <3> QED BY <3>1, Updates
  <2> HIDE DEF v
  <2>4. s \in VmType
    BY <2>2, <2>3, SendType DEF Frames
  <2> HIDE DEF s
  <2>5. t \in VmType
    <3>1. [s.phase EXCEPT ![r] = "run"] \in [Runs -> Phases]
      BY <2>4, Fields DEF Phases
    <3> QED BY <2>4, <3>1, Updates
  <2> HIDE DEF t
  <2>6. [t EXCEPT !.ran = Count(@)] \in VmType
    BY <2>5, Fields, CountType, Updates
  <2>7. Arm([t EXCEPT !.ran = Count(@)], "STARTED") \in VmType
    BY <2>6, ArmType DEF Deadlines
  <2> QED BY <2>1, <2>3, <2>7 DEF v, s, t
<1>6. CASE Downloaded
  BY <1>6, NoMachineType, Updates DEF Downloaded
<1>7. CASE NotDownloaded
  BY <1>7, FailLoadType DEF NotDownloaded
<1>8. CASE Built
  BY <1>8, NewMachineType, TryRestoreType DEF Built
<1>9. CASE NotBuilt
  BY <1>9, FailLoadType DEF NotBuilt
<1>10. CASE FilesNotWritten
  <2>1. PICK r \in vm.writing :
          LET v == [vm EXCEPT !.writing = @ \ {r}] IN
          vm' = IF v.run # r \/ v.ended[r] # "no" THEN v ELSE EndAndPark(v, r, "broken")
    BY <1>10 DEF FilesNotWritten
  <2> DEFINE v == [vm EXCEPT !.writing = @ \ {r}]
  <2>2. r \in 0 .. MaxRuns
    BY Fields, AssumeTypes DEF Runs
  <2>3. v \in VmType
    <3>1. vm.writing \ {r} \in SUBSET Runs
      BY Fields
    <3> QED BY <3>1, Updates
  <2> HIDE DEF v
  <2>4. EndAndPark(v, r, "broken") \in VmType
    BY <2>2, <2>3, EndAndParkType DEF Reasons
  <2> QED BY <2>1, <2>3, <2>4 DEF v
<1> QED
  BY <1>1, <1>2, <1>3, <1>4, <1>5, <1>6, <1>7, <1>8, <1>9, <1>10 DEF HostStep

(* Nor a timer.                                                            *)
LEMMA TimerStepType == TypeOK /\ TimerStep => TypeOK'
<1> SUFFICES ASSUME vm \in VmType, TimerStep PROVE vm' \in VmType
  BY DEF TypeOK
<1>1. [vm EXCEPT !.deadline = "off"] \in VmType
  BY Updates
<1>2. CASE LoadDeadline
  <2> DEFINE hellos == [i \in Ids |-> IF vm.hellos[i] = "load" THEN "none" ELSE vm.hellos[i]]
             strikes == Count(vm.strikes)
             v == [vm EXCEPT !.deadline = "off", !.strikes = strikes, !.hellos = hellos]
  <2>1. hellos \in [Ids -> Purposes \cup {"none"}]
    BY Fields
  <2>2. strikes \in 0 .. 2
    BY Fields, CountType
  <2> HIDE DEF hellos, strikes
  <2>3. v \in VmType
    BY <2>1, <2>2, Updates
  <2> HIDE DEF v
  <2>4. TryRestore(v) \in VmType
    BY <2>3, TryRestoreType
  <2> QED BY <1>2, <2>4 DEF LoadDeadline, v, hellos, strikes
<1>3. CASE AnswerDeadline
  BY <1>1, <1>3, ExpiredType DEF AnswerDeadline
<1>4. CASE PingDue
  BY <1>1, <1>4, PingType DEF PingDue
<1>5. CASE StopGraceOver
  <2>1. [vm EXCEPT !.stopTimer = FALSE] \in VmType
    BY Updates
  <2>2. vm.orphans > 0 => [vm EXCEPT !.orphans = @ - 1] \in VmType
    <3>1. vm.orphans > 0 => vm.orphans - 1 \in Nat
      BY Fields
    <3> QED BY <3>1, Updates
  <2> QED BY <1>5, <2>1, <2>2, ParkType DEF StopGraceOver
<1>6. CASE FetchGraceOver
  <2>1. PICK r \in vm.grace :
          LET v == [vm EXCEPT !.grace = @ \ {r}] IN
          vm' = IF v.run # r \/ v.ended[r] # "no" THEN v ELSE EndAndPark(v, r, "fetch")
    BY <1>6 DEF FetchGraceOver
  <2> DEFINE v == [vm EXCEPT !.grace = @ \ {r}]
  <2>2. r \in 0 .. MaxRuns
    BY Fields, AssumeTypes DEF Runs
  <2>3. v \in VmType
    <3>1. vm.grace \ {r} \in SUBSET Runs
      BY Fields
    <3> QED BY <3>1, Updates
  <2> HIDE DEF v
  <2>4. EndAndPark(v, r, "fetch") \in VmType
    BY <2>2, <2>3, EndAndParkType DEF Reasons
  <2> QED BY <2>1, <2>3, <2>4 DEF v
<1> QED BY <1>2, <1>3, <1>4, <1>5, <1>6 DEF TimerStep

(* Nor a frame of the guest.                                               *)
LEMMA GuestStepType == TypeOK /\ GuestStep => TypeOK'
<1> SUFFICES ASSUME vm \in VmType, GuestStep PROVE vm' \in VmType
  BY DEF TypeOK
<1> DEFINE F == [type : Frames, id : Nat]
<1>1. vm.line \in Seq(F)
  BY Fields
<1>2. None \in Nat
  BY DEF None
<1>3. CASE AnswerNext
  <2> DEFINE m == Head(vm.line)
             v == [vm EXCEPT !.line = Tail(@)]
  <2>1. m \in F /\ Tail(vm.line) \in Seq(F)
    <3> HIDE DEF F
    <3> QED BY <1>1, <1>3 DEF AnswerNext
  <2>2. v \in VmType
    BY <2>1, Updates
  <2>3. m.id \in Nat
    BY <2>1
  <2> HIDE DEF v, m, F
  <2>4. [v EXCEPT !.prog = m.id] \in VmType /\ [v EXCEPT !.prog = None] \in VmType
    BY <1>2, <2>2, <2>3, Updates
  <2>5. \/ vm' = OnReady(v, m.id, TRUE)
        \/ vm' = OnReady(v, m.id, FALSE)
        \/ vm' = OnPong(v, m.id)
        \/ vm' = OnStarted([v EXCEPT !.prog = m.id], m.id)
        \/ vm' = OnError(v, m.id)
        \/ vm' = OnExit([v EXCEPT !.prog = None], m.id)
        \/ vm' = v
    BY <1>3 DEF AnswerNext, v, m
  <2> QED
    BY <2>2, <2>3, <2>4, <2>5, OnReadyType, OnPongType, OnStartedType, OnErrorType, OnExitType
<1>4. CASE ProgramExits
  <2>1. [vm EXCEPT !.prog = None] \in VmType /\ vm.prog \in Nat
    BY <1>2, Fields, Updates
  <2> QED BY <1>4, <2>1, OnExitType DEF ProgramExits
<1>5. CASE AgentRestarts
  <2>1. PICK lost \in 0 .. Len(vm.line) :
          vm' = OnReady([vm EXCEPT !.prog = None, !.line = SubSeq(@, lost + 1, Len(@))], 0, FALSE)
    BY <1>5 DEF AgentRestarts
  <2>2. SubSeq(vm.line, lost + 1, Len(vm.line)) \in Seq(F)
    <3> HIDE DEF F
    <3> QED BY <1>1
  <2> DEFINE rest == SubSeq(vm.line, lost + 1, Len(vm.line))
  <2> HIDE DEF rest
  <2>3. [vm EXCEPT !.prog = None, !.line = rest] \in VmType
    BY <1>2, <2>2, Updates DEF rest
  <2> QED BY <2>1, <2>3, AssumeTypes, OnReadyType DEF rest
<1>6. CASE InvalidMessage
  BY <1>6, Fields, EndAndParkType DEF InvalidMessage, Reasons
<1>7. CASE WrongVersion
  BY <1>7, FailType DEF WrongVersion
<1>8. CASE FetchFailed
  <2>1. CASE vm' = Fail(vm)
    BY <2>1, FailType
  <2>2. CASE Current(vm, vm.run) /\ vm' = [vm EXCEPT !.grace = @ \cup {vm.run}]
    <3>1. vm.grace \cup {vm.run} \in SUBSET Runs
      BY <2>2, Fields, AssumeTypes DEF Current, Runs, None
    <3> QED BY <2>2, <3>1, Updates
  <2> QED BY <1>8, <2>1, <2>2 DEF FetchFailed
<1> QED BY <1>3, <1>4, <1>5, <1>6, <1>7, <1>8 DEF GuestStep

(* A new Vm is unloaded and has its type.                                  *)
LEMMA InitType == Init => TypeOK
BY AssumeTypes
  DEF Init, TypeOK, VmType, States, Runs, Phases, Reasons, Purposes, Deadlines, NoHellos, None

(* TypeOK: whatever the page, the guest, the timers and the machine do,    *)
(* every field of the Vm (vm_run.js) has its type.                         *)
THEOREM TypeCorrect == Spec => []TypeOK
<1>1. TypeOK /\ [Next]_vars => TypeOK'
  <2>1. TypeOK /\ Next => TypeOK'
    BY PageStepType, TimerStepType, GuestStepType, HostStepType DEF Next
  <2>2. TypeOK /\ UNCHANGED vars => TypeOK'
    BY DEF TypeOK, vars
  <2> QED BY <2>1, <2>2
<1> QED BY InitType, <1>1, PTL DEF Spec

-----------------------------------------------------------------------------
(* None of the other properties is inductive.  Inv is: Kept says what is   *)
(* known of the runs, Moving what moves a start on, and Safe ties each     *)
(* timer, queued operation, conversation, frame and the program to the     *)
(* state it may be pending in.  Goes says what a step may do.              *)

(* No answer, failed read or failure comes late: what the code does when   *)
(* one does is what VmRunLostRun shows, and Inv is then not kept.          *)
InTime == Faults \cap {"lateStart", "lateFetch", "lateFail"} = {}

Active == {"starting", "running", "stopping", "parking"}
Greeting == {"restore", "resume", "greet", "pause"}
Settling == {"loadRestore", "loadResume", "loadPause", "parkRestore"}

(* The runs: at most one is open, the newest, and it is in hand.           *)
Kept(v) ==
  /\ v.run <= v.accepted /\ v.queued <= v.accepted
  /\ \A r \in Runs : r > v.accepted => v.ended[r] = "no" /\ v.starts[r] = 0
  /\ \A r \in 1 .. v.accepted : v.ended[r] = "no" => r = v.accepted /\ r \in {v.run, v.queued}
  /\ v.queued # None => v.ended[v.queued] = "no" /\ v.state \in {"loading", "stopping", "parking"}
  /\ v.state \in {"starting", "running"} => v.ended[v.run] = "no"
  /\ v.state = "stopping" => v.ended[v.run] # "no"
  /\ v.state = "parking" /\ v.ended[v.run] = "no" => v.queued = v.run
  /\ \A r \in Runs : v.ended[r] = "no" /\ v.starts[r] # 0 => v.state = "running" /\ v.run = r

(* What moves a start on.                                                  *)
BeginPending(v) == \E k \in DOMAIN v.jobs : v.jobs[k] = Job("begin", v.run)
Moving(v) ==
  /\ v.state = "starting" =>
       \/ v.phase[v.run] = "hello" /\ v.deadline = "off" /\ BeginPending(v) /\ v.ran = 0
       \/ v.phase[v.run] = "hello" /\ v.deadline = "HELLO" /\ v.ran = 0
       \/ v.phase[v.run] = "files" /\ v.deadline = "off" /\ v.run \in v.writing /\ v.ran = 0
       \/ v.phase[v.run] = "run" /\ v.deadline = "STARTED"
  /\ v.state = "running" => v.phase[v.run] = "running" /\ v.deadline \in {"ping", "PONG"}

Timers(v) ==
  /\ v.run # None <=> v.state \in Active
  /\ v.deadline \in {"HELLO", "STARTED"} => v.state = "starting"
  /\ v.deadline = "PONG" => v.state = "running"
  /\ v.deadline = "load" => v.load = "greet"
  /\ v.load \in {"build", "pause"} => v.deadline = "off"
  /\ v.state \in {"parking", "parked"} => v.deadline = "off"
  /\ v.stopTimer => v.state = "stopping"
  /\ v.orphans = 0
  /\ v.park # "no" <=> v.state = "parking"
  /\ \A r \in v.writing : v.ended[r] = "no" => v.state = "starting" /\ v.run = r /\ v.phase[r] = "files"
  /\ v.pingId # 0 => v.state \in {"running", "stopping", "failed", "destroyed"} \/ v.load \in {"bundle", "build", "restore"}

(* The page is seen when the last of what waits says so, or else the       *)
(* machine.                                                                *)
Sights == {"show", "hide"}
InSight(jobs, shown, visible) ==
  /\ (\A i \in DOMAIN jobs : jobs[i].op \notin Sights) => shown = visible
  /\ \A i \in DOMAIN jobs :
       jobs[i].op \in Sights /\ (\A j \in DOMAIN jobs : j > i => jobs[j].op \notin Sights)
         => visible = (jobs[i].op = "show")

Seen(v) ==
  /\ v.cpu = (v.want /\ v.shown)
  /\ ~v.built => v.jobs = << >> /\ ~v.want
  /\ v.built => InSight(v.jobs, v.shown, v.visible)

Machine(v) ==
  /\ v.state \in {"parked", "starting", "running", "stopping"} => v.built
  /\ v.load \in Greeting \/ v.park \in {"paint", "restore"} => v.built
  /\ v.load = "build" \/ v.park = "rebuild" \/ v.state = "destroyed" => ~v.built
  /\ v.ran <= 1
  /\ v.state = "parked" \/ v.load \in {"resume", "greet", "pause"} => v.ran = 0
  /\ v.state \in {"running", "stopping"} => v.want
  /\ v.state = "starting" => v.want \/ BeginPending(v)
  /\ v.state = "parked" \/ v.load \in {"resume"} => ~v.want
  /\ v.state = "failed" /\ v.load = "no" =>
       \/ ~v.want /\ \A j \in DOMAIN v.jobs : v.jobs[j].op # "begin"
       \/ \E i \in DOMAIN v.jobs : v.jobs[i].op = "pause" /\ \A j \in DOMAIN v.jobs : j > i => v.jobs[j].op # "begin"

Queue(v) ==
  /\ \A i, j \in DOMAIN v.jobs : v.jobs[i].op \in Settling /\ j > i => v.jobs[j].op \in Sights
  /\ \A i, j \in DOMAIN v.jobs : v.jobs[i].op = "begin" /\ v.jobs[j].op = "begin" => i = j
  /\ \A i \in DOMAIN v.jobs :
       /\ v.jobs[i].op = "loadRestore" => v.load = "restore"
       /\ v.jobs[i].op = "loadResume" => v.load = "resume"
       /\ v.jobs[i].op = "loadPause" => v.load = "pause"
       /\ v.jobs[i].op = "parkRestore" => v.park = "restore"
       /\ v.jobs[i].op = "pause" => v.state = "failed" \/ v.load = "bundle"
       /\ v.jobs[i].op = "begin" => v.jobs[i].run # None
       /\ v.jobs[i].op = "begin" =>
            \/ v.state = "failed" \/ v.load = "bundle"
            \/ v.state = "parking" /\ v.ended[v.run] # "no"
            \/ /\ v.state = "starting" /\ v.jobs[i].run = v.run
               /\ v.phase[v.run] = "hello" /\ v.deadline = "off" /\ \A h \in Ids : v.hellos[h] # "run"

(* The conversations, and what of them is under way.                       *)
Talk(v) ==
  /\ \A k \in DOMAIN v.line : v.line[k].type \in {"HELLO", "PING"} => v.line[k].id \in Ids
  /\ \A i, j \in Ids : v.hellos[i] = "load" /\ v.hellos[j] = "load" => i = j
  /\ \A i \in Ids : v.hellos[i] = "load" => v.load = "greet"
  /\ v.load = "greet" =>
       /\ Len(v.line) <= 1 /\ \A k \in DOMAIN v.line : v.line[k].type = "HELLO"
       /\ \A i \in Ids : v.hellos[i] \in {"load", "none"}
  /\ v.state = "parked" \/ v.load \in {"resume", "pause"} => v.hellos = NoHellos /\ v.line = << >>

(* The program of a restored machine: one RUN, sent or taken.              *)
Program(v) ==
  /\ v.state = "parked" \/ v.load \in {"resume", "pause", "greet"} => v.prog = None
  /\ v.ran = 0 => v.prog = None /\ \A k \in DOMAIN v.line : v.line[k].type # "RUN"
  /\ \A k \in DOMAIN v.line : v.line[k].type = "RUN" =>
       v.prog = None /\ v.line[k].id \in Runs /\ \A l \in DOMAIN v.line : v.line[l].type = "RUN" => k = l
  /\ \A k \in DOMAIN v.line : v.line[k].type = "RUN" /\ v.ended[v.line[k].id] = "no" =>
       v.run = v.line[k].id /\ (v.state = "parking" \/ (v.state = "starting" /\ v.phase[v.run] = "run"))
  /\ v.prog # None => v.prog \in Runs /\ (v.ended[v.prog] = "no" => v.run = v.prog /\ v.state = "running")

Load(v) ==
  /\ v.load # "no" => v.loading = "pending" /\ v.state \in {"loading", "failed"}
  /\ v.loading = "none" => v.state \in {"unloaded", "failed", "destroyed"}
  /\ v.loading = "pending" => v.state \in {"loading", "failed", "destroyed"}
  /\ v.state \in {"unloaded"} => v.loading = "none" /\ ~v.built
  /\ v.state = "loading" => v.load # "no"
  /\ v.load \in Greeting => v.state = "loading"
  /\ v.state \in {"parked", "starting", "running", "stopping", "parking"} => v.told = "ready"
  /\ v.told = "ready" => v.state \notin {"unloaded", "loading", "failed"}

Safe(v) ==
  /\ v \in VmType
  /\ Timers(v) /\ Seen(v) /\ Machine(v) /\ Queue(v)
  /\ Talk(v) /\ Program(v) /\ Load(v)

Whole(v) == Safe(v) /\ Kept(v) /\ Moving(v)

Inv == Whole(vm)

(* A step from v to x goes along the table, and does to the runs what       *)
(* RunPromise has one of its actions do.                                   *)
Ending(v, x, reason) ==
  \A r \in Runs : x.ended[r] = IF r <= v.accepted /\ v.ended[r] = "no" THEN reason ELSE v.ended[r]

Ends(v, x) ==
  /\ x.accepted = v.accepted /\ x.starts = v.starts
  /\ \E reason \in Reasons : Ending(v, x, reason)

Leaves(v, x) == x.accepted = v.accepted /\ x.starts = v.starts /\ \A r \in Runs : x.ended[r] = v.ended[r]

Accepts(v, x) ==
  /\ v.accepted < MaxRuns /\ x.accepted = v.accepted + 1 /\ x.starts = v.starts
  /\ Ending(v, x, "stopped")

Refuses(v, x) ==
  /\ v.accepted < MaxRuns /\ x.accepted = v.accepted + 1 /\ x.starts = v.starts
  /\ \A r \in 1 .. v.accepted : v.ended[r] # "no"
  /\ \A r \in Runs : x.ended[r] = IF r = x.accepted THEN "broken" ELSE v.ended[r]

Starts(v, x) ==
  /\ x.accepted = v.accepted /\ \A r \in Runs : x.ended[r] = v.ended[r]
  /\ \E q \in 1 .. v.accepted :
       /\ v.ended[q] = "no" /\ v.starts[q] = 0
       /\ \A r \in Runs : x.starts[r] = IF r = q THEN 1 ELSE v.starts[r]

(* The rows of the table, and a VM in use that fails: TableIsLeft says when *)
(* it may.                                                                 *)
Rows == Table \cup ({"starting", "running", "stopping"} \X {"failed"})

Goes(v, x) ==
  /\ x.state = v.state \/ << v.state, x.state >> \in Rows
  /\ Leaves(v, x) \/ Ends(v, x) \/ Accepts(v, x) \/ Refuses(v, x) \/ Starts(v, x)

-----------------------------------------------------------------------------
(* What a method leaves alone.                                             *)
SameRuns(x, v) ==
  /\ x.accepted = v.accepted /\ x.run = v.run /\ x.queued = v.queued
  /\ x.ended = v.ended /\ x.starts = v.starts
SameJobs(x, v) == x.jobs = v.jobs /\ x.built = v.built
SameCpu(x, v) == x.want = v.want /\ x.shown = v.shown /\ x.cpu = v.cpu /\ x.visible = v.visible
SameLine(x, v) == x.hellos = v.hellos /\ x.line = v.line /\ x.prog = v.prog /\ x.ran = v.ran
SameLoad(x, v) == x.loading = v.loading /\ x.load = v.load /\ x.told = v.told
SameTimers(x, v) ==
  /\ x.stopTimer = v.stopTimer /\ x.orphans = v.orphans /\ x.deadline = v.deadline
  /\ x.park = v.park /\ x.pingId = v.pingId /\ x.writing = v.writing
SamePhase(x, v) == x.state = v.state /\ x.phase = v.phase

(* What two steps leave alone, both do.                                    *)
LEMMA SameAgain ==
  ASSUME NEW x, NEW w, NEW v
  PROVE  /\ SameRuns(x, w) /\ SameRuns(w, v) => SameRuns(x, v)
         /\ SameJobs(x, w) /\ SameJobs(w, v) => SameJobs(x, v)
         /\ SameCpu(x, w) /\ SameCpu(w, v) => SameCpu(x, v)
         /\ SameLine(x, w) /\ SameLine(w, v) => SameLine(x, v)
         /\ SameLoad(x, w) /\ SameLoad(w, v) => SameLoad(x, v)
         /\ SameTimers(x, w) /\ SameTimers(w, v) => SameTimers(x, v)
         /\ SamePhase(x, w) /\ SamePhase(w, v) => SamePhase(x, v)
BY DEF SameRuns, SameJobs, SameCpu, SameLine, SameLoad, SameTimers, SamePhase

-----------------------------------------------------------------------------
(* The queue.                                                              *)
JobType == [op : Ops, run : 0 .. MaxRuns]

LEMMA TailIs ==
  ASSUME NEW S, NEW s \in Seq(S), s # << >>
  PROVE  /\ Tail(s) \in Seq(S) /\ Len(Tail(s)) = Len(s) - 1 /\ Head(s) = s[1] /\ 1 \in DOMAIN s
         /\ \A i \in DOMAIN Tail(s) : i \in Nat \ {0} /\ i + 1 \in DOMAIN s /\ Tail(s)[i] = s[i + 1]
         /\ \A i \in DOMAIN s : i # 1 => i - 1 \in DOMAIN Tail(s) /\ Tail(s)[i - 1] = s[i]
OBVIOUS

LEMMA AppendIs ==
  ASSUME NEW S, NEW s \in Seq(S), NEW e \in S
  PROVE  /\ Append(s, e) \in Seq(S) /\ DOMAIN Append(s, e) = DOMAIN s \cup {Len(s) + 1}
         /\ Append(s, e)[Len(s) + 1] = e /\ \A i \in DOMAIN s : i \in Nat /\ i < Len(s) + 1 /\ Append(s, e)[i] = s[i]
OBVIOUS

LEMMA JobsAre ==
  ASSUME NEW v \in VmType
  PROVE  /\ v.jobs \in Seq(JobType)
         /\ \A k \in DOMAIN v.jobs : v.jobs[k].op \in Ops /\ v.jobs[k].run \in 0 .. MaxRuns /\ k \in Nat \ {0}
<1>1. v.jobs \in Seq(JobType)
  BY Fields DEF JobType
<1>2. \A k \in DOMAIN v.jobs : v.jobs[k] \in JobType /\ k \in Nat \ {0}
  BY <1>1
<1> QED BY <1>1, <1>2 DEF JobType

(* The operation at the head is done.                                      *)
LEMMA SightTail ==
  ASSUME NEW jobs \in Seq(JobType), jobs # << >>, NEW shown \in BOOLEAN, NEW visible \in BOOLEAN,
         InSight(jobs, shown, visible)
  PROVE  /\ Head(jobs).op = "show" => InSight(Tail(jobs), TRUE, visible)
         /\ Head(jobs).op = "hide" => InSight(Tail(jobs), FALSE, visible)
         /\ Head(jobs).op \notin Sights => InSight(Tail(jobs), shown, visible)
<1> DEFINE rest == Tail(jobs)
<1>1. /\ Head(jobs) = jobs[1] /\ 1 \in DOMAIN jobs
      /\ \A i \in DOMAIN rest : i \in Nat \ {0} /\ i + 1 \in DOMAIN jobs /\ rest[i] = jobs[i + 1]
      /\ \A i \in DOMAIN jobs : i \in Nat /\ (i # 1 => i - 1 \in DOMAIN rest /\ rest[i - 1] = jobs[i])
  <2> HIDE DEF rest
  <2> QED BY TailIs DEF rest
<1> HIDE DEF rest
<1>2. ASSUME NEW i \in DOMAIN rest, rest[i].op \in Sights, \A j \in DOMAIN rest : j > i => rest[j].op \notin Sights
      PROVE  visible = (rest[i].op = "show")
  <2>1. i + 1 \in DOMAIN jobs /\ jobs[i + 1].op \in Sights /\ i \in Nat
    BY <1>1, <1>2
  <2>2. ASSUME NEW j \in DOMAIN jobs, j > i + 1 PROVE jobs[j].op \notin Sights
    <3>1. j - 1 \in DOMAIN rest /\ rest[j - 1] = jobs[j] /\ j - 1 > i
      BY <1>1, <2>1, <2>2
    <3> QED BY <1>2, <3>1
  <2> QED BY <1>1, <2>1, <2>2 DEF InSight
<1>3. ASSUME \A i \in DOMAIN rest : rest[i].op \notin Sights
      PROVE  \A j \in DOMAIN jobs : j > 1 => jobs[j].op \notin Sights
  <2> TAKE j \in DOMAIN jobs
  <2> HAVE j > 1
  <2>1. j \in Nat
    BY <1>1
  <2>2. j - 1 \in DOMAIN rest /\ rest[j - 1] = jobs[j]
    BY <1>1, <2>1
  <2> QED BY <1>3, <2>2
<1>4. ASSUME \A i \in DOMAIN rest : rest[i].op \notin Sights, Head(jobs).op \in Sights
      PROVE  visible = (Head(jobs).op = "show")
  BY <1>1, <1>3, <1>4 DEF InSight
<1>5. ASSUME \A i \in DOMAIN rest : rest[i].op \notin Sights, Head(jobs).op \notin Sights
      PROVE  shown = visible
  <2>1. \A j \in DOMAIN jobs : jobs[j].op \notin Sights
    BY <1>1, <1>3, <1>5
  <2> QED BY <2>1 DEF InSight
<1>6. CASE Head(jobs).op = "show"
  <2>1. InSight(rest, TRUE, visible)
    BY <1>2, <1>4, <1>6 DEF InSight, Sights
  <2> QED BY <1>6, <2>1 DEF rest, Sights
<1>7. CASE Head(jobs).op = "hide"
  <2>1. InSight(rest, FALSE, visible)
    BY <1>2, <1>4, <1>7 DEF InSight, Sights
  <2> QED BY <1>7, <2>1 DEF rest, Sights
<1>8. CASE Head(jobs).op \notin Sights
  <2>1. InSight(rest, shown, visible)
    BY <1>2, <1>5, <1>8 DEF InSight
  <2> QED BY <1>8, <2>1 DEF rest, Sights
<1> QED BY <1>6, <1>7, <1>8 DEF Sights

(* One more operation.                                                     *)
LEMMA SightAppend ==
  ASSUME NEW jobs \in Seq(JobType), NEW shown \in BOOLEAN, NEW visible \in BOOLEAN, NEW job \in JobType
  PROVE  /\ InSight(jobs, shown, visible) /\ job.op \notin Sights => InSight(Append(jobs, job), shown, visible)
         /\ job.op \in Sights => InSight(Append(jobs, job), shown, job.op = "show")
<1> DEFINE more == Append(jobs, job)
<1>1. /\ DOMAIN more = DOMAIN jobs \cup {Len(jobs) + 1} /\ more[Len(jobs) + 1] = job
      /\ \A i \in DOMAIN jobs : i \in Nat /\ i < Len(jobs) + 1 /\ more[i] = jobs[i]
  BY AppendIs
<1>2. Len(jobs) \in Nat
  OBVIOUS
<1> HIDE DEF more
<1>3. ASSUME InSight(jobs, shown, visible), job.op \notin Sights PROVE InSight(more, shown, visible)
  <2>1. ASSUME \A i \in DOMAIN more : more[i].op \notin Sights PROVE shown = visible
    BY <1>1, <1>3, <2>1 DEF InSight
  <2>2. ASSUME NEW i \in DOMAIN more, more[i].op \in Sights, \A j \in DOMAIN more : j > i => more[j].op \notin Sights
        PROVE  visible = (more[i].op = "show")
    <3>1. i \in DOMAIN jobs /\ more[i] = jobs[i]
      BY <1>1, <1>3, <2>2
    <3>2. \A j \in DOMAIN jobs : j > i => jobs[j].op \notin Sights
      BY <1>1, <2>2
    <3> QED BY <1>3, <2>2, <3>1, <3>2 DEF InSight
  <2> QED BY <2>1, <2>2 DEF InSight
<1>4. ASSUME job.op \in Sights PROVE InSight(more, shown, job.op = "show")
  <2>1. ASSUME NEW i \in DOMAIN more, \A j \in DOMAIN more : j > i => more[j].op \notin Sights
        PROVE  i = Len(jobs) + 1
    BY <1>1, <1>2, <1>4, <2>1
  <2> QED BY <1>1, <1>4, <2>1 DEF InSight
<1> QED BY <1>3, <1>4 DEF more

-----------------------------------------------------------------------------
(* What only takes away.                                                   *)
IsRest(s, t) ==
  \E d \in Nat : /\ Len(s) + d = Len(t)
                 /\ \A k \in DOMAIN s : k + d \in DOMAIN t /\ s[k] = t[k + d]

Less(x, v) ==
  /\ SamePhase(x, v) /\ SameJobs(x, v) /\ SameCpu(x, v) /\ SameLoad(x, v)
  /\ x.run = v.run /\ x.park = v.park /\ x.orphans = v.orphans /\ x.ran = v.ran
  /\ \A r \in Runs : v.ended[r] # "no" => x.ended[r] # "no"
  /\ x.stopTimer => v.stopTimer
  /\ x.deadline \in {v.deadline, "off"} /\ x.pingId \in {v.pingId, 0}
  /\ x.writing \subseteq v.writing
  /\ \A i \in Ids : x.hellos[i] \in {v.hellos[i], "none"}
  /\ x.prog \in {v.prog, None}
  /\ IsRest(x.line, v.line)

LEMMA LessIsSafe ==
  ASSUME NEW v \in VmType, Safe(v), NEW x \in VmType, Less(x, v)
  PROVE  Safe(x)
<1>1. /\ v.run \in 0 .. MaxRuns /\ v.ended \in [Runs -> Reasons \cup {"no"}]
      /\ v.hellos \in [Ids -> Purposes \cup {"none"}] /\ v.line \in Seq([type : Frames, id : Nat])
      /\ x.hellos \in [Ids -> Purposes \cup {"none"}] /\ x.line \in Seq([type : Frames, id : Nat])
      /\ x.writing \in SUBSET Runs /\ v.writing \in SUBSET Runs
      /\ x.state = v.state /\ x.phase = v.phase /\ x.jobs = v.jobs /\ x.built = v.built
      /\ x.want = v.want /\ x.shown = v.shown /\ x.cpu = v.cpu /\ x.visible = v.visible
      /\ x.loading = v.loading /\ x.load = v.load /\ x.told = v.told
      /\ x.run = v.run /\ x.park = v.park /\ x.orphans = v.orphans /\ x.ran = v.ran
  BY Fields DEF Less, SamePhase, SameJobs, SameCpu, SameLoad
<1>2. /\ \A r \in Runs : v.ended[r] # "no" => x.ended[r] # "no"
      /\ \A r \in Runs : x.ended[r] = "no" => v.ended[r] = "no"
      /\ x.stopTimer => v.stopTimer
      /\ x.deadline \in {v.deadline, "off"} /\ x.pingId \in {v.pingId, 0}
      /\ x.writing \subseteq v.writing
      /\ \A i \in Ids : x.hellos[i] \in {v.hellos[i], "none"}
      /\ x.prog \in {v.prog, None}
  BY DEF Less
<1>3. PICK d \in Nat : /\ Len(x.line) + d = Len(v.line)
                       /\ \A k \in DOMAIN x.line : k + d \in DOMAIN v.line /\ x.line[k] = v.line[k + d]
  BY DEF Less, IsRest
<1>4. Timers(x)
  BY <1>1, <1>2 DEF Safe, Timers
<1>5. Seen(x)
  BY <1>1, <1>2 DEF Safe, Seen
<1>6. Machine(x)
  BY <1>1, <1>2 DEF Safe, Machine, BeginPending
<1>7. Queue(x)
  <2>1. v.state \in {"starting", "parking"} => v.run \in Runs
    BY <1>1 DEF Safe, Timers, Active, Runs, None
  <2> QED BY <1>1, <1>2, <2>1 DEF Safe, Queue
<1>8. Talk(x)
  <2>1. ASSUME v.hellos = NoHellos PROVE x.hellos = NoHellos
    BY <1>1, <1>2, <2>1 DEF NoHellos
  <2>2. ASSUME v.line = << >> PROVE x.line = << >>
    BY <1>1, <1>3, <2>2
  <2>3. Len(x.line) <= Len(v.line)
    BY <1>1, <1>3
  <2>4. \A i \in Ids : x.hellos[i] = "load" => v.hellos[i] = "load"
    BY <1>2
  <2>5. ASSUME v.load = "greet"
        PROVE  /\ Len(x.line) <= 1 /\ \A k \in DOMAIN x.line : x.line[k].type = "HELLO"
               /\ \A i \in Ids : x.hellos[i] \in {"load", "none"}
    BY <1>1, <1>2, <1>3, <2>3, <2>5 DEF Safe, Talk
  <2>6. \A k \in DOMAIN x.line : x.line[k].type \in {"HELLO", "PING"} => x.line[k].id \in Ids
    BY <1>3 DEF Safe, Talk
  <2> QED BY <1>1, <2>1, <2>2, <2>4, <2>5, <2>6 DEF Safe, Talk
<1>9. Program(x)
  <2>1. \A k \in DOMAIN x.line : k \in Nat
    BY <1>1
  <2>2. ASSUME NEW k \in DOMAIN x.line, x.line[k].type = "RUN"
        PROVE  /\ x.prog = None /\ x.line[k].id \in Runs
               /\ \A l \in DOMAIN x.line : x.line[l].type = "RUN" => k = l
               /\ x.ended[x.line[k].id] = "no" =>
                    x.run = x.line[k].id /\ (x.state = "parking" \/ (x.state = "starting" /\ x.phase[x.run] = "run"))
    <3>1. k + d \in DOMAIN v.line /\ x.line[k] = v.line[k + d] /\ v.line[k + d].type = "RUN"
      BY <1>3, <2>2
    <3>2. v.prog = None /\ x.line[k].id \in Runs
      BY <3>1 DEF Safe, Program
    <3>3. ASSUME NEW l \in DOMAIN x.line, x.line[l].type = "RUN" PROVE k = l
      <4>1. l + d \in DOMAIN v.line /\ v.line[l + d].type = "RUN"
        BY <1>3, <3>3
      <4>2. k + d = l + d
        BY <3>1, <4>1 DEF Safe, Program
      <4> QED BY <2>1, <4>2
    <3>4. v.ended[x.line[k].id] = "no" =>
            v.run = x.line[k].id /\ (v.state = "parking" \/ (v.state = "starting" /\ v.phase[v.run] = "run"))
      BY <3>1 DEF Safe, Program
    <3> QED BY <1>1, <1>2, <3>2, <3>3, <3>4
  <2>3. v.ran = 0 => \A k \in DOMAIN x.line : x.line[k].type # "RUN"
    BY <1>3 DEF Safe, Program
  <2>4. x.prog # None => x.prog = v.prog
    BY <1>2
  <2> QED BY <1>1, <1>2, <2>2, <2>3, <2>4 DEF Safe, Program
<1>10. Load(x)
  BY <1>1, <1>2 DEF Safe, Load
<1> QED BY <1>4, <1>5, <1>6, <1>7, <1>8, <1>9, <1>10 DEF Safe
-----------------------------------------------------------------------------
(* The methods, by what they change.                                       *)

SameButEnds(x, v) ==
  /\ SamePhase(x, v) /\ SameJobs(x, v) /\ SameCpu(x, v) /\ SameLine(x, v) /\ SameLoad(x, v)
  /\ SameTimers(x, v)
  /\ x.accepted = v.accepted /\ x.run = v.run /\ x.queued = v.queued /\ x.starts = v.starts

LEMMA EndIs ==
  ASSUME NEW v \in VmType, NEW r \in 0 .. MaxRuns, NEW reason \in Reasons, NEW x, x = End(v, r, reason)
  PROVE  /\ x \in VmType /\ SameButEnds(x, v)
         /\ \A q \in Runs : (q = r /\ v.ended[q] = "no" /\ x.ended[q] = reason) \/ (~(q = r /\ v.ended[q] = "no") /\ x.ended[q] = v.ended[q])
<1>1. x \in VmType
  BY EndType
<1>2. SameButEnds(x, v)
  BY DEF End, VmType, SameButEnds, SamePhase, SameJobs, SameCpu, SameLine, SameLoad, SameTimers
<1>3. \A q \in Runs : (q = r /\ v.ended[q] = "no" /\ x.ended[q] = reason) \/ (~(q = r /\ v.ended[q] = "no") /\ x.ended[q] = v.ended[q])
  <2>1. v.ended \in [Runs -> Reasons \cup {"no"}] /\ 0 \notin Runs
    BY Fields DEF Runs
  <2>2. x.ended = IF r = None \/ v.ended[r] # "no" THEN v.ended ELSE [v.ended EXCEPT ![r] = reason]
    BY DEF End, VmType
  <2> QED BY <2>1, <2>2 DEF None
<1> QED BY <1>1, <1>2, <1>3

(* A line is the rest of itself.                                           *)
LEMMA AllIsRest == ASSUME NEW S, NEW s \in Seq(S) PROVE IsRest(s, s)
<1>1. \A k \in DOMAIN s : k \in Nat /\ k + 0 = k
  OBVIOUS
<1>2. Len(s) \in Nat /\ Len(s) + 0 = Len(s)
  OBVIOUS
<1> QED BY <1>1, <1>2 DEF IsRest

(* Ending runs takes away.                                                 *)
LEMMA EndsAreLess ==
  ASSUME NEW v \in VmType, NEW x \in VmType, SamePhase(x, v), SameJobs(x, v), SameCpu(x, v),
         SameLine(x, v), SameLoad(x, v), SameTimers(x, v), x.run = v.run,
         \A r \in Runs : v.ended[r] # "no" => x.ended[r] # "no"
  PROVE  Less(x, v)
<1>1. v.line \in Seq([type : Frames, id : Nat])
  BY Fields
<1>2. IsRest(x.line, v.line)
  BY <1>1, AllIsRest DEF SameLine
<1> QED BY <1>2 DEF Less, SameLine, SameTimers

LEMMA ParkIs ==
  ASSUME NEW v \in VmType, NEW x, x = Park(v), v.park = "no", v.built, v.state \notin {"destroyed", "failed"}
  PROVE  /\ x \in VmType
         /\ x.state = "parking" /\ ~x.stopTimer /\ x.deadline = "off" /\ x.pingId = 0 /\ x.park = "paint"
         /\ x.orphans = v.orphans /\ x.phase = v.phase /\ x.writing = v.writing
         /\ SameRuns(x, v) /\ SameJobs(x, v) /\ SameCpu(x, v) /\ SameLine(x, v) /\ SameLoad(x, v)
<1>1. x \in VmType
  BY ParkType
<1>2. /\ x.state = "parking" /\ ~x.stopTimer /\ x.deadline = "off" /\ x.pingId = 0 /\ x.park = "paint"
      /\ x.orphans = v.orphans /\ x.phase = v.phase /\ x.writing = v.writing
      /\ SameRuns(x, v) /\ SameJobs(x, v) /\ SameCpu(x, v) /\ SameLine(x, v) /\ SameLoad(x, v)
  BY DEF Park, SetState, VmType, SameRuns, SameJobs, SameCpu, SameLine, SameLoad
<1> QED BY <1>1, <1>2

(* Parking keeps what is not about the runs.                               *)
LEMMA ParksSafely ==
  ASSUME NEW v \in VmType, Safe(v), v.state \in {"starting", "running", "stopping"}, NEW x \in VmType,
         x.state = "parking", ~x.stopTimer, x.deadline = "off", x.pingId = 0, x.park = "paint",
         x.orphans = v.orphans, x.phase = v.phase, x.writing = v.writing, x.run = v.run,
         SameJobs(x, v), SameCpu(x, v), SameLine(x, v), SameLoad(x, v),
         \A r \in Runs : v.ended[r] # "no" => x.ended[r] # "no",
         x.ended[v.run] = "no" =>
           /\ v.state = "starting" /\ v.run \notin v.writing
           /\ \A k \in DOMAIN v.jobs : v.jobs[k].op # "begin"
  PROVE  Safe(x)
<1>1. /\ v.run \in Runs /\ v.ended \in [Runs -> Reasons \cup {"no"}] /\ v.writing \in SUBSET Runs
      /\ v.state \in Active
      /\ x.jobs = v.jobs /\ x.built = v.built
      /\ x.want = v.want /\ x.shown = v.shown /\ x.cpu = v.cpu /\ x.visible = v.visible
      /\ x.loading = v.loading /\ x.load = v.load /\ x.told = v.told
      /\ x.hellos = v.hellos /\ x.line = v.line /\ x.prog = v.prog /\ x.ran = v.ran
  BY Fields DEF SameJobs, SameCpu, SameLoad, SameLine, Safe, Timers, Active, Runs, None
<1>2. \A r \in Runs : x.ended[r] = "no" => v.ended[r] = "no"
  OBVIOUS
<1>3. v.load = "no" /\ v.park = "no"
  BY DEF Safe, Load, Timers
<1>4. Timers(x)
  BY <1>1, <1>2, <1>3 DEF Safe, Timers, Active, None
<1>5. Seen(x)
  BY <1>1 DEF Safe, Seen
<1>6. Machine(x)
  BY <1>1, <1>3 DEF Safe, Machine, Greeting
<1>7. Queue(x)
  BY <1>1, <1>2, <1>3 DEF Safe, Queue, Settling
<1>8. Talk(x)
  BY <1>1, <1>3 DEF Safe, Talk
<1>9. Program(x)
  BY <1>1, <1>2, <1>3 DEF Safe, Program
<1>10. Load(x)
  BY <1>1, <1>3 DEF Safe, Load, Greeting
<1> QED BY <1>4, <1>5, <1>6, <1>7, <1>8, <1>9, <1>10 DEF Safe

(* The runs accepted are runs, and those after them are not accepted.      *)
LEMMA UpTo ==
  ASSUME NEW n \in 0 .. MaxRuns
  PROVE  /\ \A q \in 1 .. n : q \in Runs
         /\ \A q \in Runs : q > n \/ q \in 1 .. n
         /\ \A q \in Runs : (q <= n \/ q > n) /\ ~(q <= n /\ q > n)
         /\ n < MaxRuns => n + 1 \in Runs /\ n + 1 \in 0 .. MaxRuns /\ n + 1 # None
         /\ \A q \in Runs : q \in 0 .. MaxRuns /\ q # None
         /\ \A q \in 0 .. MaxRuns : q # None => q \in Runs
BY BoundsAssumption DEF Runs, None

(* A Vm that has a run in hand is loaded, and has a machine unless it       *)
(* replaces it.                                                            *)
LEMMA InHand ==
  ASSUME NEW v \in VmType, Safe(v), v.state \in {"starting", "running", "stopping", "parking"}
  PROVE  /\ v.run \in Runs /\ v.run \in 0 .. MaxRuns /\ v.run # None
         /\ v.load = "no" /\ v.loading = "ready" /\ v.told = "ready" /\ v.orphans = 0
         /\ v.state # "parking" => v.built /\ v.park = "no"
         /\ v.state # "stopping" => ~v.stopTimer
<1>1. v.run \in 0 .. MaxRuns /\ v.loading \in {"none", "pending", "ready"}
  BY Fields
<1>2. v.run # None /\ v.orphans = 0
  BY DEF Safe, Timers, Active
<1>3. v.load = "no" /\ v.loading = "ready" /\ v.told = "ready"
  BY <1>1 DEF Safe, Load
<1>4. (v.state # "parking" => v.built /\ v.park = "no") /\ (v.state # "stopping" => ~v.stopTimer)
  BY DEF Safe, Timers, Machine
<1> QED BY <1>1, <1>2, <1>3, <1>4, UpTo

(* Nothing needs to move on a Vm that neither starts nor runs.             *)
LEMMA Still == ASSUME NEW v, v.state \notin {"starting", "running"} PROVE Moving(v)
BY DEF Moving

(* The open run ends and the machine parks.                                *)
LEMMA EndAndParkKeeps ==
  ASSUME NEW v \in VmType, Safe(v), Kept(v), v.state \in {"starting", "running"},
         NEW reason \in Reasons, NEW x, x = EndAndPark(v, v.run, reason)
  PROVE  Whole(x) /\ x \in VmType /\ x.state = "parking" /\ Ends(v, x)
<1> DEFINE e == End(v, v.run, reason)
<1>0. v.run \in 0 .. MaxRuns /\ v.run \in Runs /\ v.accepted \in 0 .. MaxRuns /\ v.queued \in 0 .. MaxRuns
  BY Fields DEF Safe, Timers, Active, Runs, None
<1>1. /\ e \in VmType /\ SameButEnds(e, v)
      /\ \A q \in Runs : (q = v.run /\ v.ended[q] = "no" /\ e.ended[q] = reason) \/ (~(q = v.run /\ v.ended[q] = "no") /\ e.ended[q] = v.ended[q])
  BY <1>0, EndIs
<1> HIDE DEF e
<1>2. e.park = "no" /\ e.built /\ e.state \notin {"destroyed", "failed"} /\ e.state = v.state
  BY <1>1 DEF SameButEnds, SamePhase, SameTimers, SameJobs, Safe, Timers, Machine
<1>3. /\ x \in VmType
      /\ x.state = "parking" /\ ~x.stopTimer /\ x.deadline = "off" /\ x.pingId = 0 /\ x.park = "paint"
      /\ x.orphans = e.orphans /\ x.phase = e.phase /\ x.writing = e.writing
      /\ SameRuns(x, e) /\ SameJobs(x, e) /\ SameCpu(x, e) /\ SameLine(x, e) /\ SameLoad(x, e)
  <2>1. x = Park(e)
    BY DEF EndAndPark, e
  <2> QED BY <1>1, <1>2, <2>1, ParkIs
<1>4. /\ x.orphans = v.orphans /\ x.phase = v.phase /\ x.writing = v.writing /\ x.run = v.run
      /\ x.accepted = v.accepted /\ x.queued = v.queued /\ x.starts = v.starts
      /\ SameJobs(x, v) /\ SameCpu(x, v) /\ SameLine(x, v) /\ SameLoad(x, v)
      /\ \A q \in Runs : (q = v.run /\ v.ended[q] = "no" /\ x.ended[q] = reason) \/ (~(q = v.run /\ v.ended[q] = "no") /\ x.ended[q] = v.ended[q])
  BY <1>1, <1>3
  DEF SameButEnds, SameRuns, SamePhase, SameTimers, SameJobs, SameCpu, SameLine, SameLoad
<1>5. reason # "no" /\ v.ended[v.run] = "no" /\ v.queued = None
  BY <1>0 DEF Reasons, Kept, None
<1>6. Safe(x)
  <2>1. x.ended[v.run] # "no" /\ \A q \in Runs : v.ended[q] # "no" => x.ended[q] # "no"
    BY <1>0, <1>4, <1>5
  <2> QED BY <1>3, <1>4, <2>1, ParksSafely
<1>7. Kept(x)
  <2>1. \A q \in Runs : x.ended[q] = "no" => q # v.run /\ v.ended[q] = "no"
    BY <1>4, <1>5
  <2>2. \A q \in 1 .. v.accepted : q \in Runs
    BY <1>0, UpTo
  <2>3. \A q \in 1 .. v.accepted : x.ended[q] # "no"
    BY <1>5, <2>1, <2>2 DEF Kept, None
  <2>4. \A r \in Runs : r > x.accepted => x.ended[r] = "no" /\ x.starts[r] = 0
    BY <1>0, <1>4, <1>5 DEF Kept
  <2>5. \A r \in Runs : x.ended[r] = "no" /\ x.starts[r] # 0 => x.state = "running" /\ x.run = r
    BY <1>4, <2>1 DEF Kept
  <2> QED BY <1>0, <1>3, <1>4, <1>5, <2>3, <2>4, <2>5 DEF Kept, None
<1>8. Ending(v, x, reason)
  BY <1>0, <1>4, <1>5 DEF Ending, Kept, Runs, None
<1> QED BY <1>3, <1>4, <1>6, <1>7, <1>8, Still DEF Whole, Ends

(* A stopping run has ended before; its machine parks.                     *)
LEMMA StopParks ==
  ASSUME NEW v \in VmType, Safe(v), Kept(v), v.state = "stopping", NEW x, x = Park(v)
  PROVE  Whole(x) /\ x \in VmType /\ x.state = "parking" /\ Leaves(v, x)
<1>0. v.run \in Runs /\ v.ended[v.run] # "no" /\ v.park = "no" /\ v.built
  BY Fields DEF Safe, Timers, Machine, Kept, Active, Runs, None
<1>1. /\ x \in VmType
      /\ x.state = "parking" /\ ~x.stopTimer /\ x.deadline = "off" /\ x.pingId = 0 /\ x.park = "paint"
      /\ x.orphans = v.orphans /\ x.phase = v.phase /\ x.writing = v.writing
      /\ SameRuns(x, v) /\ SameJobs(x, v) /\ SameCpu(x, v) /\ SameLine(x, v) /\ SameLoad(x, v)
  BY <1>0, ParkIs
<1>2. Safe(x)
  BY <1>0, <1>1, ParksSafely DEF SameRuns
<1>3. Kept(x)
  BY <1>0, <1>1 DEF Kept, SameRuns
<1> QED BY <1>1, <1>2, <1>3, Still DEF Whole, Leaves, SameRuns

(* A run whose start was not answered in time waits for its second go.     *)
LEMMA RetryKeeps ==
  ASSUME NEW v \in VmType, Safe(v), Kept(v), v.state = "starting", v.run \notin v.writing,
         \A k \in DOMAIN v.jobs : v.jobs[k].op # "begin",
         NEW x, x = Park([v EXCEPT !.queued = IF @ = None THEN v.run ELSE @])
  PROVE  Whole(x) /\ x \in VmType /\ x.state = "parking" /\ Leaves(v, x)
<1> DEFINE w == [v EXCEPT !.queued = v.run]
<1>0. /\ v.run \in Runs /\ v.run \in 0 .. MaxRuns /\ v.run # None /\ v.ended[v.run] = "no"
      /\ v.park = "no" /\ v.built /\ v.queued = None /\ v.accepted \in 0 .. MaxRuns
  BY Fields DEF Safe, Timers, Machine, Kept, Active, Runs, None
<1>1. /\ w \in VmType /\ w.queued = v.run /\ w.park = "no" /\ w.built /\ w.state = "starting"
      /\ w.run = v.run /\ w.accepted = v.accepted /\ w.ended = v.ended /\ w.starts = v.starts
      /\ w.orphans = v.orphans /\ w.phase = v.phase /\ w.writing = v.writing
      /\ SameJobs(w, v) /\ SameCpu(w, v) /\ SameLine(w, v) /\ SameLoad(w, v)
  <2>1. w \in VmType
    BY <1>0, Updates
  <2> QED BY <1>0, <2>1 DEF VmType, SameJobs, SameCpu, SameLine, SameLoad
<1>2. x = Park(w)
  BY <1>0
<1> HIDE DEF w
<1>3. /\ x \in VmType
      /\ x.state = "parking" /\ ~x.stopTimer /\ x.deadline = "off" /\ x.pingId = 0 /\ x.park = "paint"
      /\ x.orphans = w.orphans /\ x.phase = w.phase /\ x.writing = w.writing
      /\ SameRuns(x, w) /\ SameJobs(x, w) /\ SameCpu(x, w) /\ SameLine(x, w) /\ SameLoad(x, w)
  BY <1>1, <1>2, ParkIs
<1>4. /\ x.orphans = v.orphans /\ x.phase = v.phase /\ x.writing = v.writing /\ x.run = v.run
      /\ x.accepted = v.accepted /\ x.queued = v.run /\ x.starts = v.starts /\ x.ended = v.ended
      /\ SameJobs(x, v) /\ SameCpu(x, v) /\ SameLine(x, v) /\ SameLoad(x, v)
  <2>1. /\ x.orphans = v.orphans /\ x.phase = v.phase /\ x.writing = v.writing /\ x.run = v.run
        /\ x.accepted = v.accepted /\ x.queued = v.run /\ x.starts = v.starts /\ x.ended = v.ended
    BY <1>1, <1>3 DEF SameRuns
  <2> QED BY <1>1, <1>3, <2>1, SameAgain
<1>5. Safe(x)
  BY <1>3, <1>4, ParksSafely
<1>6. Kept(x)
  <2>1. \A r \in Runs : v.ended[r] # "no" \/ v.starts[r] = 0
    BY DEF Kept
  <2>2. \A r \in 1 .. v.accepted : v.ended[r] = "no" => r = v.accepted /\ r = v.run
    BY <1>0 DEF Kept, None
  <2>3. \A r \in Runs : r > v.accepted => v.ended[r] = "no" /\ v.starts[r] = 0
    BY DEF Kept
  <2>4. v.run <= v.accepted
    BY DEF Kept
  <2> QED BY <1>0, <1>3, <1>4, <2>1, <2>2, <2>3, <2>4 DEF Kept
<1> QED BY <1>3, <1>4, <1>5, <1>6, Still DEF Whole, Leaves

(* The queued run is ended, and the one asked for, if any, takes its place. *)
Replaced(q, v) ==
  /\ q \in VmType
  /\ SamePhase(q, v) /\ SameJobs(q, v) /\ SameCpu(q, v) /\ SameLine(q, v) /\ SameLoad(q, v)
  /\ SameTimers(q, v) /\ q.run = v.run /\ q.starts = v.starts
  /\ \A r \in Runs : q.ended[r] = IF r = v.queued THEN "stopped" ELSE v.ended[r]
  /\ \/ q.accepted = v.accepted + 1 /\ q.queued = q.accepted /\ v.accepted < MaxRuns
     \/ q.accepted = v.accepted /\ q.queued = None

LEMMA ReplacedIsSafe ==
  ASSUME NEW v \in VmType, Safe(v), Kept(v), NEW q, Replaced(q, v)
  PROVE  /\ Safe(q)
         /\ v.state \notin {"starting", "running"} =>
              /\ Ending(v, q, "stopped")
              /\ (q.queued # None => v.state \in {"loading", "stopping", "parking"}) => Kept(q)
<1>0. /\ v.accepted \in 0 .. MaxRuns /\ v.queued \in 0 .. MaxRuns /\ v.run \in 0 .. MaxRuns
      /\ q.accepted \in 0 .. MaxRuns
  BY Fields DEF Replaced
<1>1. \A r \in Runs : q.ended[r] = IF r = v.queued THEN "stopped" ELSE v.ended[r]
  BY DEF Replaced
<1>2. Safe(q)
  <2>1. \A r \in Runs : v.ended[r] # "no" => q.ended[r] # "no"
    BY <1>1
  <2>2. Less(q, v)
    BY <2>1, EndsAreLess DEF Replaced
  <2> QED BY <2>2, LessIsSafe DEF Replaced
<1>3. ASSUME v.state \notin {"starting", "running"}
      PROVE  \A r \in Runs : r <= v.accepted => q.ended[r] # "no" /\ (v.ended[r] = "no" => r = v.queued)
  <2> TAKE r \in Runs
  <2> HAVE r <= v.accepted
  <2>1. r \in 1 .. v.accepted
    BY DEF Runs
  <2>2. v.ended[r] = "no" => r \in {v.run, v.queued}
    BY <2>1 DEF Kept
  <2>3. v.run # None => v.state \in Active
    BY DEF Safe, Timers
  <2>4. v.ended[r] = "no" => r = v.queued
    BY <1>3, <2>2, <2>3 DEF Kept, Active, Runs, None
  <2> QED BY <1>1, <2>4
<1>4. ASSUME v.state \notin {"starting", "running"} PROVE Ending(v, q, "stopped")
  <2>1. v.queued # None => v.ended[v.queued] = "no" /\ v.queued <= v.accepted
    BY DEF Kept
  <2> QED BY <1>1, <1>3, <1>4, <2>1 DEF Ending, Runs, None
<1>5. ASSUME v.state \notin {"starting", "running"},
             q.queued # None => v.state \in {"loading", "stopping", "parking"}
      PROVE  Kept(q)
  <2>1. q.state = v.state /\ q.run = v.run /\ q.starts = v.starts
    BY DEF Replaced, SamePhase
  <2>2. \A r \in Runs : r > v.accepted => q.ended[r] = "no" /\ v.starts[r] = 0
    <3> TAKE r \in Runs
    <3> HAVE r > v.accepted
    <3>1. v.ended[r] = "no" /\ v.starts[r] = 0 /\ v.queued <= v.accepted
      BY DEF Kept
    <3>2. r # v.queued
      BY <1>0, <3>1, UpTo
    <3> QED BY <1>1, <3>1, <3>2
  <2>3. \A r \in Runs : v.ended[r] = "no" /\ v.starts[r] # 0 => r = v.run /\ v.state = "running"
    BY DEF Kept
  <2>4. \A r \in Runs : q.ended[r] = "no" /\ q.starts[r] # 0 => FALSE
    BY <1>1, <1>5, <2>1, <2>3
  <2>5. q.run <= q.accepted /\ q.queued <= q.accepted
    BY <1>0, <2>1 DEF Kept, Replaced, None
  <2>6. \A r \in Runs : r > q.accepted => q.ended[r] = "no" /\ q.starts[r] = 0
    <3> TAKE r \in Runs
    <3> HAVE r > q.accepted
    <3>1. r > v.accepted
      BY <1>0, UpTo DEF Replaced
    <3> QED BY <2>1, <2>2, <3>1
  <2>7. \A r \in 1 .. q.accepted : q.ended[r] = "no" => r = q.accepted /\ r = q.queued
    BY <1>0, <1>3, <1>5, UpTo DEF Replaced
  <2>8. q.queued # None => q.ended[q.queued] = "no" /\ q.state \in {"loading", "stopping", "parking"}
    BY <1>0, <1>5, <2>1, <2>2, UpTo DEF Replaced
  <2>9. q.state = "stopping" => q.ended[q.run] # "no"
    BY <1>0, <1>1, <2>1, UpTo DEF Kept, Safe, Timers, Active
  <2>10. q.state = "parking" /\ q.ended[q.run] = "no" => q.queued = q.run
    BY <1>0, <1>3, <1>5, <2>1, UpTo DEF Safe, Timers, Kept, Active
  <2> QED BY <1>5, <2>1, <2>4, <2>5, <2>6, <2>7, <2>8, <2>9, <2>10 DEF Kept
<1> QED BY <1>2, <1>4, <1>5

(* STOP is sent, and its timer set.                                        *)
StopSent(v) ==
  SetStopTimer([SetState(Send(v, "STOP", v.run), "stopping") EXCEPT !.deadline = "off"])

LEMMA StopSentIs ==
  ASSUME NEW v \in VmType, ~v.stopTimer, v.state # "destroyed", NEW x, x = StopSent(v)
  PROVE  /\ x \in VmType
         /\ x.state = "stopping" /\ x.stopTimer /\ x.deadline = "off"
         /\ x.line = Append(v.line, [type |-> "STOP", id |-> v.run])
         /\ x.hellos = v.hellos /\ x.prog = v.prog /\ x.ran = v.ran
         /\ x.orphans = v.orphans /\ x.phase = v.phase /\ x.writing = v.writing /\ x.pingId = v.pingId
         /\ x.park = v.park
         /\ SameRuns(x, v) /\ SameJobs(x, v) /\ SameCpu(x, v) /\ SameLoad(x, v)
<1> DEFINE l == Append(v.line, [type |-> "STOP", id |-> v.run])
           a == [v EXCEPT !.line = l]
           b == [a EXCEPT !.state = "stopping"]
           c == [b EXCEPT !.deadline = "off"]
           d == [c EXCEPT !.stopTimer = TRUE]
<1>1. a \in VmType
  <2>1. v.run \in Nat
    BY Fields, AssumeTypes
  <2>2. a = Send(v, "STOP", v.run)
    BY DEF Send
  <2> QED BY <2>1, <2>2, SendType DEF Frames
<1>2. b \in VmType
  <2> HIDE DEF a
  <2> QED BY <1>1, Updates DEF States
<1>3. c \in VmType
  <2> HIDE DEF b
  <2> QED BY <1>2, Updates DEF Deadlines
<1>4. d \in VmType
  <2> HIDE DEF c
  <2> QED BY <1>3, Updates
<1>5. /\ d.state = "stopping" /\ d.stopTimer /\ d.deadline = "off" /\ d.line = l
      /\ d.hellos = v.hellos /\ d.prog = v.prog /\ d.ran = v.ran
      /\ d.orphans = v.orphans /\ d.phase = v.phase /\ d.writing = v.writing /\ d.pingId = v.pingId
      /\ d.park = v.park
      /\ SameRuns(d, v) /\ SameJobs(d, v) /\ SameCpu(d, v) /\ SameLoad(d, v)
  <2> HIDE DEF l
  <2> QED BY DEF VmType, SameRuns, SameJobs, SameCpu, SameLoad
<1>6. x = [d EXCEPT !.orphans = v.orphans]
  <2> HIDE DEF l
  <2>1. Send(v, "STOP", v.run) = a
    BY DEF Send, l
  <2>2. SetState(a, "stopping") = b
    BY DEF SetState, VmType
  <2>3. x = SetStopTimer(c)
    BY <2>1, <2>2 DEF StopSent
  <2>4. ~c.stopTimer /\ c.orphans = v.orphans
    BY DEF VmType
  <2> HIDE DEF c
  <2> QED BY <2>3, <2>4, <1>3 DEF SetStopTimer
<1>7. x = d
  <2>1. v.orphans \in Nat
    BY Fields
  <2> HIDE DEF d
  <2> QED BY <1>4, <1>5, <1>6, <2>1 DEF VmType
<1>8. d.line = Append(v.line, [type |-> "STOP", id |-> v.run])
  BY <1>5 DEF l
<1> HIDE DEF d, l
<1> QED BY <1>4, <1>5, <1>7, <1>8

(* Sending STOP keeps what is not about the runs.                          *)
LEMMA StopsSafely ==
  ASSUME NEW v \in VmType, Safe(v), v.state \in {"starting", "running"}, v.phase[v.run] \in {"run", "running"},
         v.ended[v.run] # "no", NEW x, x = StopSent(v)
  PROVE  /\ Safe(x) /\ x \in VmType /\ x.state = "stopping" /\ SameRuns(x, v)
<1>0. /\ ~v.stopTimer /\ v.run \in Runs /\ v.run \in 0 .. MaxRuns
      /\ v.ended \in [Runs -> Reasons \cup {"no"}] /\ v.writing \in SUBSET Runs
      /\ v.line \in Seq([type : Frames, id : Nat])
      /\ v.load = "no" /\ v.park = "no" /\ v.orphans = 0
  BY Fields, InHand
<1> DEFINE stop == [type |-> "STOP", id |-> v.run]
<1>1. /\ x \in VmType
      /\ x.state = "stopping" /\ x.stopTimer /\ x.deadline = "off"
      /\ x.line = Append(v.line, stop)
      /\ x.hellos = v.hellos /\ x.prog = v.prog /\ x.ran = v.ran
      /\ x.orphans = v.orphans /\ x.phase = v.phase /\ x.writing = v.writing /\ x.pingId = v.pingId
      /\ x.park = v.park
      /\ SameRuns(x, v) /\ SameJobs(x, v) /\ SameCpu(x, v) /\ SameLoad(x, v)
  BY <1>0, StopSentIs
<1>2. /\ DOMAIN x.line = DOMAIN v.line \cup {Len(v.line) + 1}
      /\ x.line[Len(v.line) + 1].type = "STOP"
      /\ \A i \in DOMAIN v.line : i \in Nat /\ i < Len(v.line) + 1 /\ x.line[i] = v.line[i]
  <2>1. stop \in [type : Frames, id : Nat] /\ stop.type = "STOP"
    BY <1>0 DEF Frames
  <2> HIDE DEF stop
  <2> QED BY <1>0, <1>1, <2>1, AppendIs
<1>3. \A k \in DOMAIN x.line : x.line[k].type # "STOP" => k \in DOMAIN v.line /\ x.line[k] = v.line[k]
  BY <1>2
<1>4. /\ x.run = v.run /\ x.ended = v.ended /\ x.jobs = v.jobs /\ x.built = v.built
      /\ x.want = v.want /\ x.shown = v.shown /\ x.cpu = v.cpu /\ x.visible = v.visible
      /\ x.loading = v.loading /\ x.load = v.load /\ x.told = v.told
  BY <1>1 DEF SameRuns, SameJobs, SameCpu, SameLoad
<1>5. Timers(x)
  BY <1>0, <1>1, <1>4 DEF Safe, Timers, Active, None
<1>6. Seen(x)
  BY <1>4 DEF Safe, Seen
<1>7. \A k \in DOMAIN v.jobs : v.jobs[k].op # "begin"
  BY <1>0 DEF Safe, Queue
<1>8. v.want /\ v.built
  BY <1>7 DEF Safe, Machine, BeginPending, Job
<1>9. Machine(x)
  BY <1>0, <1>1, <1>4, <1>8 DEF Safe, Machine, Greeting
<1>10. Queue(x)
  BY <1>0, <1>1, <1>4, <1>7 DEF Safe, Queue
<1>11. Talk(x)
  <2>1. \A k \in DOMAIN x.line : x.line[k].type \in {"HELLO", "PING"} => x.line[k].id \in Ids
    BY <1>3 DEF Safe, Talk
  <2> QED BY <1>0, <1>1, <1>4, <2>1 DEF Safe, Talk
<1>12. Program(x)
  <2>1. ASSUME NEW k \in DOMAIN x.line, x.line[k].type = "RUN"
        PROVE  k \in DOMAIN v.line /\ x.line[k] = v.line[k] /\ v.line[k].type = "RUN"
    BY <1>3, <2>1
  <2>2. \A k \in DOMAIN x.line : x.line[k].type = "RUN" => v.ended[x.line[k].id] # "no"
    BY <2>1 DEF Safe, Program
  <2>3. \A k \in DOMAIN x.line : x.line[k].type = "RUN" =>
          v.prog = None /\ x.line[k].id \in Runs /\ \A l \in DOMAIN x.line : x.line[l].type = "RUN" => k = l
    BY <2>1 DEF Safe, Program
  <2>4. v.prog # None => v.prog \in Runs /\ v.ended[v.prog] # "no"
    BY DEF Safe, Program
  <2> QED BY <1>0, <1>1, <1>4, <2>1, <2>2, <2>3, <2>4 DEF Safe, Program
<1>13. Load(x)
  BY <1>0, <1>1, <1>4 DEF Safe, Load, Greeting
<1> QED BY <1>1, <1>5, <1>6, <1>9, <1>10, <1>11, <1>12, <1>13 DEF Safe

(* What stop() leaves of the runs.                                         *)
LEMMA StoppedIsKept ==
  ASSUME NEW v \in VmType, Safe(v), Kept(v), v.state \in {"starting", "running"}, NEW x \in VmType,
         x.run = v.run, x.starts = v.starts, x.state \in {"stopping", "parking"}, Ending(v, x, "stopped"),
         \/ v.accepted < MaxRuns /\ x.accepted = v.accepted + 1 /\ x.queued = x.accepted
         \/ x.accepted = v.accepted /\ x.queued = None
  PROVE  Kept(x)
<1>0. /\ v.accepted \in 0 .. MaxRuns /\ x.accepted \in 0 .. MaxRuns /\ v.run \in Runs /\ v.run <= v.accepted
  BY Fields DEF Kept, Safe, Timers, Active, Runs, None
<1>1. \A r \in Runs : r <= v.accepted => x.ended[r] # "no"
  BY DEF Ending
<1>2. \A r \in Runs : r > v.accepted => x.ended[r] = "no" /\ v.ended[r] = "no" /\ v.starts[r] = 0
  BY <1>0, UpTo DEF Ending, Kept
<1>3. \A r \in Runs : r > x.accepted => x.ended[r] = "no" /\ x.starts[r] = 0
  <2> TAKE r \in Runs
  <2> HAVE r > x.accepted
  <2>1. r > v.accepted
    BY <1>0, UpTo
  <2> QED BY <1>2, <2>1
<1>4. \A r \in 1 .. x.accepted : x.ended[r] = "no" => r = x.accepted /\ r = x.queued
  BY <1>0, <1>1, UpTo
<1>5. x.queued # None => x.ended[x.queued] = "no"
  BY <1>0, <1>2, UpTo
<1>6. \A r \in Runs : x.ended[r] # "no" \/ x.starts[r] = 0
  BY <1>0, <1>1, <1>2, UpTo
<1>7. x.run <= x.accepted /\ x.queued <= x.accepted
  BY <1>0, UpTo DEF None
<1>8. x.ended[x.run] # "no"
  BY <1>0, <1>1
<1> QED BY <1>3, <1>4, <1>5, <1>6, <1>7, <1>8 DEF Kept

(* stop(), and run() while a run is in hand.                               *)
LEMMA StopRunKeeps ==
  ASSUME NEW v \in VmType, Safe(v), Kept(v), NEW q, Replaced(q, v),
         q.queued # None => v.state \in {"loading", "starting", "running", "stopping", "parking"},
         NEW x, x = StopRun(q)
  PROVE  /\ Whole(x) /\ x \in VmType
         /\ Ending(v, x, "stopped") /\ x.accepted = q.accepted /\ x.starts = v.starts
         /\ x.state = v.state \/ << v.state, x.state >> \in Rows
<1>0. /\ q \in VmType /\ q.run = v.run /\ q.state = v.state /\ q.phase = v.phase /\ q.starts = v.starts
      /\ Safe(q)
  BY ReplacedIsSafe DEF Replaced, SamePhase
<1>1. CASE v.state \notin {"starting", "running"}
  <2>1. x = q
    <3>1. q.run = None \/ q.state \in {"stopping", "parking"}
      BY <1>0, <1>1 DEF Safe, Timers, Active
    <3> QED BY <3>1 DEF StopRun
  <2>2. Kept(q) /\ Ending(v, q, "stopped")
    BY <1>1, ReplacedIsSafe
  <2> QED BY <1>0, <1>1, <2>1, <2>2, Still DEF Whole
<1>2. CASE v.state \in {"starting", "running"}
  <2> DEFINE e == End(q, q.run, "stopped")
  <2>0. v.run \in Runs /\ v.run \in 0 .. MaxRuns /\ v.run # None /\ v.built /\ v.park = "no" /\ v.queued = None
    BY <1>2, InHand DEF Kept
  <2>1. /\ e \in VmType /\ SameButEnds(e, q)
        /\ \A r \in Runs : (r = q.run /\ q.ended[r] = "no" /\ e.ended[r] = "stopped") \/ (~(r = q.run /\ q.ended[r] = "no") /\ e.ended[r] = q.ended[r])
    <3>1. e = End(q, q.run, "stopped") /\ q.run \in 0 .. MaxRuns /\ "stopped" \in Reasons
      BY <1>0, <2>0 DEF Reasons
    <3> HIDE DEF e
    <3> QED BY <1>0, <3>1, EndIs
  <2> HIDE DEF e
  <2>2. /\ SamePhase(e, v) /\ SameJobs(e, v) /\ SameCpu(e, v) /\ SameLine(e, v) /\ SameLoad(e, v)
        /\ SameTimers(e, v) /\ e.run = v.run /\ e.starts = v.starts /\ e.accepted = q.accepted
        /\ e.queued = q.queued
    <3>1. e.run = v.run /\ e.starts = v.starts /\ e.accepted = q.accepted /\ e.queued = q.queued
      BY <1>0, <2>1 DEF SameButEnds
    <3> QED BY <2>1, <3>1, SameAgain DEF SameButEnds, Replaced
  <2>3. \A r \in Runs : e.ended[r] = IF r = v.run THEN (IF v.ended[r] = "no" THEN "stopped" ELSE v.ended[r]) ELSE v.ended[r]
    <3>1. \A r \in Runs : q.ended[r] = v.ended[r]
      BY <2>0, UpTo DEF Replaced
    <3> QED BY <1>0, <2>1, <3>1
  <2>4. Ending(v, e, "stopped")
    <3> SUFFICES ASSUME NEW r \in Runs
                 PROVE  e.ended[r] = IF r <= v.accepted /\ v.ended[r] = "no" THEN "stopped" ELSE v.ended[r]
      BY DEF Ending
    <3>1. v.accepted \in 0 .. MaxRuns /\ v.run <= v.accepted
      BY Fields DEF Kept
    <3>2. r <= v.accepted /\ v.ended[r] = "no" => r = v.run
      BY <2>0, <3>1, UpTo DEF Kept
    <3> QED BY <2>3, <3>1, <3>2
  <2>5. Safe(e)
    <3>1. \A r \in Runs : v.ended[r] # "no" => e.ended[r] # "no"
      BY <2>3
    <3> QED BY <2>1, <2>2, <3>1, EndsAreLess, LessIsSafe
  <2>6. e.state = v.state /\ e.phase = v.phase /\ e.built /\ e.park = "no" /\ e.ended[e.run] # "no"
    BY <2>0, <2>2, <2>3 DEF SamePhase, SameJobs, SameTimers
  <2>7. ASSUME x \in VmType, Safe(x), SameRuns(x, e), x.state \in {"stopping", "parking"}
        PROVE  Whole(x) /\ Ending(v, x, "stopped") /\ x.accepted = q.accepted /\ x.starts = v.starts
    <3>1. x.run = v.run /\ x.starts = v.starts /\ x.accepted = q.accepted /\ x.queued = q.queued
      BY <2>2, <2>7 DEF SameRuns
    <3>2. Ending(v, x, "stopped")
      BY <2>4, <2>7 DEF SameRuns, Ending
    <3>3. Kept(x)
      BY <1>2, <2>7, <3>1, <3>2, StoppedIsKept DEF Replaced
    <3> QED BY <2>7, <3>1, <3>2, <3>3, Still DEF Whole
  <2>8. CASE v.phase[v.run] \in {"run", "running"}
    <3>1. x = StopSent(e)
      BY <1>0, <1>2, <2>0, <2>2, <2>8 DEF StopRun, StopSent, e
    <3>2. Safe(x) /\ x \in VmType /\ x.state = "stopping" /\ SameRuns(x, e)
      BY <1>2, <2>1, <2>2, <2>5, <2>6, <2>8, <3>1, StopsSafely
    <3> QED BY <1>2, <2>7, <3>2 DEF Rows, Table
  <2>9. CASE v.phase[v.run] \notin {"run", "running"}
    <3>1. x = Park(e)
      BY <1>0, <1>2, <2>0, <2>9 DEF StopRun, e
    <3>2. /\ x \in VmType
          /\ x.state = "parking" /\ ~x.stopTimer /\ x.deadline = "off" /\ x.pingId = 0 /\ x.park = "paint"
          /\ x.orphans = e.orphans /\ x.phase = e.phase /\ x.writing = e.writing
          /\ SameRuns(x, e) /\ SameJobs(x, e) /\ SameCpu(x, e) /\ SameLine(x, e) /\ SameLoad(x, e)
      BY <1>2, <2>1, <2>6, <3>1, ParkIs
    <3>3. Safe(x)
      <4>1. x.run = e.run /\ x.ended = e.ended
        BY <3>2 DEF SameRuns
      <4> QED BY <1>2, <2>1, <2>5, <2>6, <3>2, <4>1, ParksSafely
    <3> QED BY <1>2, <2>7, <3>2, <3>3 DEF Rows, Table
  <2> QED
    <3>1. x \in VmType
      BY <1>0, StopRunType
    <3> QED BY <2>8, <2>9, <3>1
<1> QED BY <1>1, <1>2

(* The queued run becomes the one in hand.                                 *)
LEMMA BeginIs ==
  ASSUME NEW v \in VmType, v.queued # None, v.state = "parked", NEW x, x = StartQueued(v)
  PROVE  /\ x \in VmType
         /\ x.state = "starting" /\ x.run = v.queued /\ x.queued = None
         /\ x.phase = [v.phase EXCEPT ![v.queued] = "hello"]
         /\ x.jobs = Append(v.jobs, Job("begin", v.queued)) /\ x.built = v.built
         /\ x.accepted = v.accepted /\ x.ended = v.ended /\ x.starts = v.starts
         /\ SameCpu(x, v) /\ SameLine(x, v) /\ SameLoad(x, v) /\ SameTimers(x, v)
<1> DEFINE r == v.queued
           j == Append(v.jobs, Job("begin", r))
<1>1. x \in VmType
  BY StartQueuedType
<1>2. x = Begin([v EXCEPT !.queued = None], r)
  BY DEF StartQueued
<1>3. x.jobs = j
  BY <1>2 DEF Begin, Enqueue, SetState, VmType
<1>4. /\ x.state = "starting" /\ x.run = r /\ x.queued = None
      /\ x.phase = [v.phase EXCEPT ![r] = "hello"] /\ x.built = v.built
      /\ x.accepted = v.accepted /\ x.ended = v.ended /\ x.starts = v.starts
  BY <1>2 DEF Begin, Enqueue, SetState, VmType
<1>5. SameCpu(x, v) /\ SameLine(x, v) /\ SameLoad(x, v) /\ SameTimers(x, v)
  BY <1>2 DEF Begin, Enqueue, SetState, VmType, SameCpu, SameLine, SameLoad, SameTimers
<1> HIDE DEF j
<1>6. x.jobs = Append(v.jobs, Job("begin", v.queued))
  BY <1>3 DEF j
<1> QED BY <1>1, <1>4, <1>5, <1>6

(* The runs of a parked Vm that has not looked at its queue.               *)
Waits(v) ==
  /\ v.queued <= v.accepted
  /\ \A r \in Runs : r > v.accepted => v.ended[r] = "no" /\ v.starts[r] = 0
  /\ \A r \in 1 .. v.accepted : v.ended[r] = "no" => r = v.accepted /\ r = v.queued
  /\ v.queued # None => v.ended[v.queued] = "no"
  /\ \A r \in Runs : v.ended[r] = "no" => v.starts[r] = 0

(* A parked Vm has nothing under way.                                      *)
LEMMA ParkedIs ==
  ASSUME NEW v \in VmType, Safe(v), v.state = "parked"
  PROVE  /\ v.run = None /\ v.load = "no" /\ v.told = "ready" /\ v.loading = "ready" /\ v.park = "no"
         /\ v.deadline = "off" /\ v.pingId = 0 /\ ~v.stopTimer /\ v.orphans = 0 /\ v.built /\ ~v.want /\ ~v.cpu
         /\ v.hellos = NoHellos /\ v.line = << >> /\ v.prog = None /\ v.ran = 0
         /\ \A k \in DOMAIN v.jobs : v.jobs[k].op \in Sights
         /\ \A r \in v.writing : v.ended[r] # "no"
<1>1. v.run = None /\ v.park = "no" /\ v.deadline = "off" /\ ~v.stopTimer /\ v.orphans = 0
      /\ \A r \in v.writing : v.ended[r] # "no"
  BY DEF Safe, Timers, Active
<1>2. v.load = "no" /\ v.told = "ready" /\ v.loading = "ready"
  BY Fields DEF Safe, Load
<1>3. v.pingId = 0
  BY <1>2 DEF Safe, Timers
<1>4. v.built /\ ~v.want /\ v.ran = 0
  BY DEF Safe, Machine
<1>5. ~v.cpu
  BY <1>4 DEF Safe, Seen
<1>6. v.hellos = NoHellos /\ v.line = << >> /\ v.prog = None
  BY DEF Safe, Talk, Program
<1>7. \A k \in DOMAIN v.jobs : v.jobs[k].op \in Sights
  <2> TAKE k \in DOMAIN v.jobs
  <2>1. v.jobs[k].op \in Ops
    BY JobsAre
  <2>2. v.jobs[k].op \notin Settling \cup {"pause", "begin"}
    BY <1>1, <1>2 DEF Safe, Queue, Settling
  <2> QED BY <2>1, <2>2 DEF Ops, Sights, Settling
<1> QED BY <1>1, <1>2, <1>3, <1>4, <1>5, <1>6, <1>7

LEMMA StartQueuedKeeps ==
  ASSUME NEW v \in VmType, Safe(v), v.state = "parked", Waits(v), NEW x, x = StartQueued(v)
  PROVE  /\ Whole(x) /\ x \in VmType /\ x.state \in {"parked", "starting"}
         /\ x.accepted = v.accepted /\ x.ended = v.ended /\ x.starts = v.starts
<1>0. /\ v.run = None /\ v.load = "no" /\ v.told = "ready" /\ v.loading = "ready" /\ v.park = "no"
      /\ v.deadline = "off" /\ v.pingId = 0 /\ ~v.stopTimer /\ v.orphans = 0 /\ v.built /\ ~v.want /\ ~v.cpu
      /\ v.hellos = NoHellos /\ v.line = << >> /\ v.prog = None /\ v.ran = 0
      /\ \A k \in DOMAIN v.jobs : v.jobs[k].op \in Sights
      /\ \A r \in v.writing : v.ended[r] # "no"
  BY ParkedIs
<1>1. CASE v.queued = None
  <2>1. x = v
    BY <1>1 DEF StartQueued
  <2>2. Kept(v)
    <3>1. v.accepted \in 0 .. MaxRuns /\ 0 <= v.accepted
      BY Fields
    <3> QED BY <1>0, <1>1, <3>1, UpTo DEF Waits, Kept, None
  <2> QED BY <2>1, <2>2, Still DEF Whole
<1>2. CASE v.queued # None
  <2> DEFINE r == v.queued
             job == Job("begin", r)
  <2>1. /\ x \in VmType
        /\ x.state = "starting" /\ x.run = r /\ x.queued = None
        /\ x.phase = [v.phase EXCEPT ![r] = "hello"]
        /\ x.jobs = Append(v.jobs, job) /\ x.built = v.built
        /\ x.accepted = v.accepted /\ x.ended = v.ended /\ x.starts = v.starts
        /\ SameCpu(x, v) /\ SameLine(x, v) /\ SameLoad(x, v) /\ SameTimers(x, v)
    BY <1>2, BeginIs
  <2>2. /\ r \in Runs /\ r \in 0 .. MaxRuns /\ v.accepted \in 0 .. MaxRuns
        /\ v.phase \in [Runs -> Phases] /\ v.jobs \in Seq(JobType)
    BY <1>2, Fields, UpTo DEF JobType
  <2>3. job \in JobType /\ job.op = "begin" /\ job.run = r
    BY <2>2 DEF Job, JobType, Ops
  <2>4. x.phase[r] = "hello"
    BY <2>1, <2>2
  <2> HIDE DEF job
  <2>5. /\ DOMAIN x.jobs = DOMAIN v.jobs \cup {Len(v.jobs) + 1}
        /\ x.jobs[Len(v.jobs) + 1] = job
        /\ \A i \in DOMAIN v.jobs : i \in Nat /\ i < Len(v.jobs) + 1 /\ x.jobs[i] = v.jobs[i]
    BY <2>1, <2>2, <2>3, AppendIs
  <2>6. \A i \in DOMAIN x.jobs : x.jobs[i].op \notin Sights => i = Len(v.jobs) + 1 /\ x.jobs[i] = job
    BY <1>0, <2>5
  <2>7. /\ x.want = v.want /\ x.shown = v.shown /\ x.cpu = v.cpu /\ x.visible = v.visible
        /\ x.hellos = v.hellos /\ x.line = v.line /\ x.prog = v.prog /\ x.ran = v.ran
        /\ x.loading = v.loading /\ x.load = v.load /\ x.told = v.told
        /\ x.stopTimer = v.stopTimer /\ x.orphans = v.orphans /\ x.deadline = v.deadline
        /\ x.park = v.park /\ x.pingId = v.pingId /\ x.writing = v.writing
    BY <2>1 DEF SameCpu, SameLine, SameLoad, SameTimers
  <2>8. Timers(x)
    BY <1>0, <2>1, <2>2, <2>7, UpTo DEF Timers, Active
  <2>9. Seen(x)
    <3>1. job.op \notin Sights
      BY <2>3 DEF Sights
    <3>2. v.shown \in BOOLEAN /\ v.visible \in BOOLEAN
      BY Fields
    <3>3. InSight(v.jobs, v.shown, v.visible)
      BY <1>0 DEF Safe, Seen
    <3>4. InSight(x.jobs, v.shown, v.visible)
      BY <2>1, <2>2, <2>3, <3>1, <3>2, <3>3, SightAppend
    <3>5. v.cpu = (v.want /\ v.shown)
      BY DEF Safe, Seen
    <3>6. x.cpu = (x.want /\ x.shown)
      BY <2>7, <3>5
    <3> QED BY <1>0, <2>1, <2>7, <3>4, <3>6 DEF Seen
  <2>10. BeginPending(x)
    BY <2>1, <2>5 DEF BeginPending, job
  <2>11. Machine(x)
    BY <1>0, <2>1, <2>7, <2>10 DEF Machine, Greeting
  <2>12. Queue(x)
    <3>1. \A i \in DOMAIN x.jobs : x.jobs[i].op \in Sights \/ (i = Len(v.jobs) + 1 /\ x.jobs[i].op = "begin" /\ x.jobs[i].run = r)
      BY <2>3, <2>6
    <3>2. \A h \in Ids : x.hellos[h] # "run"
      BY <1>0, <2>7 DEF NoHellos
    <3> QED BY <1>0, <1>2, <2>1, <2>4, <2>7, <3>1, <3>2 DEF Queue, Settling, Sights
  <2>13. Talk(x) /\ Program(x)
    <3>1. DOMAIN x.line = {}
      BY <1>0, <2>7
    <3> QED BY <1>0, <2>1, <2>7, <3>1 DEF Talk, Program, NoHellos
  <2>14. Load(x)
    BY <1>0, <2>1, <2>7 DEF Load, Greeting
  <2>15. Kept(x)
    <3>1. v.ended[r] = "no" /\ r <= v.accepted
      BY <1>2 DEF Waits
    <3> QED BY <1>0, <2>1, <2>2, <3>1, UpTo DEF Waits, Kept, None
  <2>16. Moving(x)
    BY <1>0, <2>1, <2>4, <2>7, <2>10 DEF Moving
  <2> QED BY <2>1, <2>8, <2>9, <2>11, <2>12, <2>13, <2>14, <2>15, <2>16 DEF Whole, Safe
<1> QED BY <1>1, <1>2

(* The park is over, and what it waited for begins.                        *)
Parked(v) ==
  [SetState(ResetLine(v), "parked") EXCEPT
    !.phase = [r \in Runs |-> IF r = v.run THEN "queued" ELSE @[r]],
    !.helloId = 0, !.run = None, !.park = "no", !.waiting = FALSE]

LEMMA ParkedFrom ==
  ASSUME NEW v \in VmType, v.state = "parking", NEW x, x = Parked(v)
  PROVE  /\ x \in VmType /\ x.state = "parked" /\ x.run = None /\ x.park = "no" /\ x.pingId = 0
         /\ x.hellos = NoHellos /\ x.line = << >> /\ x.prog = v.prog /\ x.ran = v.ran
         /\ x.accepted = v.accepted /\ x.queued = v.queued /\ x.ended = v.ended /\ x.starts = v.starts
         /\ x.stopTimer = v.stopTimer /\ x.orphans = v.orphans /\ x.deadline = v.deadline
         /\ x.writing = v.writing
         /\ SameJobs(x, v) /\ SameCpu(x, v) /\ SameLoad(x, v)
<1> DEFINE q == [r \in Runs |-> IF r = v.run THEN "queued" ELSE v.phase[r]]
           a == ResetLine(v)
           b == [a EXCEPT !.state = "parked"]
           c == [b EXCEPT !.phase = q]
           d == [c EXCEPT !.helloId = 0]
           e == [d EXCEPT !.run = None]
           f == [e EXCEPT !.park = "no"]
           g == [f EXCEPT !.waiting = FALSE]
<1>1. /\ a \in VmType /\ a.state = "parking" /\ a.phase = v.phase
      /\ a.hellos = NoHellos /\ a.line = << >> /\ a.pingId = 0 /\ a.run = v.run
      /\ a.prog = v.prog /\ a.ran = v.ran
      /\ a.accepted = v.accepted /\ a.queued = v.queued /\ a.ended = v.ended /\ a.starts = v.starts
      /\ a.stopTimer = v.stopTimer /\ a.orphans = v.orphans /\ a.deadline = v.deadline
      /\ a.writing = v.writing
      /\ SameJobs(a, v) /\ SameCpu(a, v) /\ SameLoad(a, v)
  <2>1. a \in VmType
    BY ResetLineType
  <2> QED BY <2>1 DEF ResetLine, AbandonHellos, VmType, SameJobs, SameCpu, SameLoad
<1> HIDE DEF a
<1>2. b \in VmType
  BY <1>1, Updates DEF States
<1>3. q \in [Runs -> Phases]
  BY Fields DEF Phases
<1>4. x = g
  <2>1. SetState(a, "parked") = b
    BY <1>1 DEF SetState
  <2>2. b.phase = v.phase
    BY <1>1 DEF VmType
  <2>3. x = [SetState(a, "parked") EXCEPT
              !.phase = [r \in Runs |-> IF r = v.run THEN "queued" ELSE @[r]],
              !.helloId = 0, !.run = None, !.park = "no", !.waiting = FALSE]
    BY DEF Parked, a
  <2> HIDE DEF b
  <2> QED BY <2>1, <2>2, <2>3
<1> HIDE DEF q
<1>5. c \in VmType
  <2> HIDE DEF b
  <2> QED BY <1>2, <1>3, Updates
<1>6. d \in VmType
  <2> HIDE DEF c
  <2> QED BY <1>5, AssumeTypes, Updates
<1>7. e \in VmType
  <2> HIDE DEF d
  <2> QED BY <1>6, AssumeTypes, Updates
<1>8. f \in VmType
  <2> HIDE DEF e
  <2> QED BY <1>7, Updates
<1>9. g \in VmType
  <2> HIDE DEF f
  <2> QED BY <1>8, Updates
<1>10. /\ g.state = "parked" /\ g.run = None /\ g.park = "no" /\ g.pingId = 0
       /\ g.hellos = NoHellos /\ g.line = << >> /\ g.prog = v.prog /\ g.ran = v.ran
       /\ g.accepted = v.accepted /\ g.queued = v.queued /\ g.ended = v.ended /\ g.starts = v.starts
       /\ g.stopTimer = v.stopTimer /\ g.orphans = v.orphans /\ g.deadline = v.deadline
       /\ g.writing = v.writing
       /\ SameJobs(g, a) /\ SameCpu(g, a) /\ SameLoad(g, a)
  BY <1>1 DEF VmType, SameJobs, SameCpu, SameLoad
<1> HIDE DEF g
<1> QED BY <1>1, <1>4, <1>9, <1>10, SameAgain

LEMMA FinishParkKeeps ==
  ASSUME NEW v \in VmType, v.state = "parking", Kept(v), v.run # None,
         v.load = "no", v.told = "ready", v.loading = "ready", v.deadline = "off",
         ~v.stopTimer, v.orphans = 0, v.built, ~v.want, ~v.cpu,
         v.prog = None, v.ran = 0, v.line = << >>,
         InSight(v.jobs, v.shown, v.visible), \A k \in DOMAIN v.jobs : v.jobs[k].op \in Sights,
         \A r \in v.writing : v.ended[r] # "no",
         NEW x, x = FinishPark(v)
  PROVE  /\ Whole(x) /\ x \in VmType /\ x.state \in {"parked", "starting"}
         /\ x.accepted = v.accepted /\ x.ended = v.ended /\ x.starts = v.starts
<1> DEFINE p == Parked(v)
<1>1. x = StartQueued(p)
  BY DEF FinishPark, Parked
<1>2. /\ p \in VmType /\ p.state = "parked" /\ p.run = None /\ p.park = "no" /\ p.pingId = 0
      /\ p.hellos = NoHellos /\ p.line = << >> /\ p.prog = v.prog /\ p.ran = v.ran
      /\ p.accepted = v.accepted /\ p.queued = v.queued /\ p.ended = v.ended /\ p.starts = v.starts
      /\ p.stopTimer = v.stopTimer /\ p.orphans = v.orphans /\ p.deadline = v.deadline
      /\ p.writing = v.writing
      /\ SameJobs(p, v) /\ SameCpu(p, v) /\ SameLoad(p, v)
  BY ParkedFrom
<1> HIDE DEF p
<1>3. /\ p.want = v.want /\ p.shown = v.shown /\ p.cpu = v.cpu /\ p.visible = v.visible
      /\ p.loading = v.loading /\ p.load = v.load /\ p.told = v.told
      /\ p.jobs = v.jobs /\ p.built = v.built
  BY <1>2 DEF SameCpu, SameJobs, SameLoad
<1>4. Timers(p)
  BY <1>2, <1>3 DEF Timers, Active
<1>5. Seen(p)
  <2>1. v.cpu \in BOOLEAN /\ v.want \in BOOLEAN
    BY Fields
  <2>2. p.cpu = (p.want /\ p.shown)
    BY <1>3, <2>1
  <2> QED BY <1>3, <2>2 DEF Seen
<1>6. Machine(p)
  BY <1>2, <1>3 DEF Machine, Greeting
<1>7. Queue(p)
  BY <1>3 DEF Queue, Settling, Sights
<1>8. Talk(p) /\ Program(p)
  <2>1. DOMAIN p.line = {}
    BY <1>2
  <2> QED BY <1>2, <1>3, <2>1 DEF Talk, Program, NoHellos
<1>9. Load(p)
  BY <1>2, <1>3 DEF Load, Greeting
<1>10. Waits(p)
  <2>1. v.accepted \in 0 .. MaxRuns
    BY Fields
  <2>2. \A r \in 1 .. v.accepted : v.ended[r] = "no" => r = v.accepted /\ r = v.queued
    BY <2>1, UpTo DEF Kept
  <2> QED BY <1>2, <2>1, <2>2 DEF Waits, Kept
<1>11. Safe(p)
  BY <1>2, <1>4, <1>5, <1>6, <1>7, <1>8, <1>9 DEF Safe
<1> QED BY <1>1, <1>2, <1>10, <1>11, StartQueuedKeeps

(* A failure, field by field.                                              *)
LEMMA FailIs ==
  ASSUME NEW v \in VmType, v.state # "destroyed", NEW x, x = Fail(v)
  PROVE  /\ x \in VmType /\ x.state = "failed" /\ x.deadline = "off" /\ ~x.stopTimer
         /\ x.run = None /\ x.queued = None /\ x.told = "failed" /\ x.hellos = NoHellos
         /\ x.jobs = (IF v.built THEN Append(v.jobs, Job("pause", None)) ELSE v.jobs) /\ x.built = v.built
         /\ x.accepted = v.accepted /\ x.starts = v.starts
         /\ \A r \in Runs : x.ended[r] = IF r \in {v.run, v.queued} /\ v.ended[r] = "no" THEN "broken" ELSE v.ended[r]
         /\ x.park = v.park /\ x.orphans = v.orphans /\ x.pingId = v.pingId /\ x.writing = v.writing
         /\ x.line = v.line /\ x.prog = v.prog /\ x.ran = v.ran
         /\ SameCpu(x, v)
         /\ x.load = (IF v.load = "greet" THEN "no" ELSE v.load)
         /\ x.loading = (IF v.load = "greet" THEN "none" ELSE v.loading)
<1> DEFINE d == End(v, v.run, "broken")
           e == End(d, v.queued, "broken")
           j == IF v.built THEN Append(v.jobs, Job("pause", None)) ELSE v.jobs
           f == [AbandonHellos(e) EXCEPT
                   !.state = "failed", !.deadline = "off", !.stopTimer = FALSE,
                   !.run = None, !.queued = None, !.told = "failed", !.waiting = FALSE,
                   !.jobs = IF v.built THEN Append(@, Job("pause", None)) ELSE @]
<1>0. x \in VmType /\ v.run \in 0 .. MaxRuns /\ v.queued \in 0 .. MaxRuns /\ "broken" \in Reasons
  BY Fields, FailType DEF Reasons
<1>1. /\ d \in VmType /\ SameButEnds(d, v)
      /\ \A q \in Runs : (q = v.run /\ v.ended[q] = "no" /\ d.ended[q] = "broken") \/ (~(q = v.run /\ v.ended[q] = "no") /\ d.ended[q] = v.ended[q])
  <2>1. d = End(v, v.run, "broken")
    OBVIOUS
  <2> HIDE DEF d
  <2> QED BY <1>0, <2>1, EndIs
<1>2. /\ e \in VmType /\ SameButEnds(e, d)
      /\ \A q \in Runs : (q = v.queued /\ d.ended[q] = "no" /\ e.ended[q] = "broken") \/ (~(q = v.queued /\ d.ended[q] = "no") /\ e.ended[q] = d.ended[q])
  <2>1. e = End(d, v.queued, "broken")
    OBVIOUS
  <2> HIDE DEF e, d
  <2> QED BY <1>0, <1>1, <2>1, EndIs
<1>3. x = IF v.load = "greet" THEN LoadOver(f, "none") ELSE f
  BY DEF Fail
<1> HIDE DEF e, d
<1>4. \A r \in Runs : e.ended[r] = IF r \in {v.run, v.queued} /\ v.ended[r] = "no" THEN "broken" ELSE v.ended[r]
  BY <1>1, <1>2
<1>5. /\ e.jobs = v.jobs /\ e.built = v.built
      /\ e.accepted = v.accepted /\ e.starts = v.starts
      /\ e.park = v.park /\ e.orphans = v.orphans /\ e.pingId = v.pingId /\ e.writing = v.writing
      /\ e.line = v.line /\ e.prog = v.prog /\ e.ran = v.ran
      /\ e.load = v.load /\ e.loading = v.loading
  BY <1>1, <1>2 DEF SameButEnds, SameJobs, SameTimers, SameLine, SameLoad
<1>6. SameCpu(e, v)
  BY <1>1, <1>2, SameAgain DEF SameButEnds
<1> DEFINE a == AbandonHellos(e)
           q == IF v.built THEN Append(a.jobs, Job("pause", None)) ELSE a.jobs
           g == [a EXCEPT
                   !.state = "failed", !.deadline = "off", !.stopTimer = FALSE,
                   !.run = None, !.queued = None, !.told = "failed", !.waiting = FALSE,
                   !.jobs = q]
<1>7. /\ f.state = "failed" /\ f.deadline = "off" /\ ~f.stopTimer
      /\ f.run = None /\ f.queued = None /\ f.told = "failed" /\ f.hellos = NoHellos
      /\ f.jobs = (IF v.built THEN Append(e.jobs, Job("pause", None)) ELSE e.jobs) /\ f.built = e.built
      /\ f.accepted = e.accepted /\ f.starts = e.starts /\ f.ended = e.ended
      /\ f.park = e.park /\ f.orphans = e.orphans /\ f.pingId = e.pingId /\ f.writing = e.writing
      /\ f.line = e.line /\ f.prog = e.prog /\ f.ran = e.ran
      /\ f.load = e.load /\ f.loading = e.loading /\ SameCpu(f, e)
      /\ f \in VmType
  <2>1. /\ a \in VmType /\ a.hellos = NoHellos /\ a.jobs = e.jobs /\ a.built = e.built
        /\ a.accepted = e.accepted /\ a.starts = e.starts /\ a.ended = e.ended
        /\ a.park = e.park /\ a.orphans = e.orphans /\ a.pingId = e.pingId /\ a.writing = e.writing
        /\ a.line = e.line /\ a.prog = e.prog /\ a.ran = e.ran
        /\ a.load = e.load /\ a.loading = e.loading /\ SameCpu(a, e)
    <3>1. a \in VmType
      BY <1>2, AbandonHellosType
    <3> QED BY <1>2, <3>1 DEF AbandonHellos, VmType, SameCpu
  <2>2. f = g
    OBVIOUS
  <2>3. q \in Seq([op : Ops, run : 0 .. MaxRuns]) /\ q = (IF v.built THEN Append(e.jobs, Job("pause", None)) ELSE e.jobs)
    <3>1. Job("pause", None) \in [op : Ops, run : 0 .. MaxRuns]
      BY AssumeTypes DEF Job, Ops
    <3>2. a.jobs \in Seq([op : Ops, run : 0 .. MaxRuns])
      BY <2>1, Fields
    <3> HIDE DEF a
    <3> QED BY <2>1, <3>1, <3>2, AppendType
  <2> HIDE DEF a, q
  <2>4. g \in VmType
    <3>1. "failed" \in States
      BY DEF States
    <3>2. a \in VmType
      BY <2>1
    <3>3. q \in Seq([op : Ops, run : 0 .. MaxRuns])
      BY <2>3
    <3> QED BY <3>1, <3>2, <3>3, AssumeTypes, Updates
  <2>5. /\ g.state = "failed" /\ g.deadline = "off" /\ ~g.stopTimer
        /\ g.run = None /\ g.queued = None /\ g.told = "failed" /\ g.hellos = a.hellos
        /\ g.jobs = q /\ g.built = a.built
        /\ g.accepted = a.accepted /\ g.starts = a.starts /\ g.ended = a.ended
        /\ g.park = a.park /\ g.orphans = a.orphans /\ g.pingId = a.pingId /\ g.writing = a.writing
        /\ g.line = a.line /\ g.prog = a.prog /\ g.ran = a.ran
        /\ g.load = a.load /\ g.loading = a.loading /\ SameCpu(g, a)
    BY <2>1 DEF VmType, SameCpu
  <2> HIDE DEF g, f
  <2> QED BY <2>1, <2>2, <2>3, <2>4, <2>5, SameAgain
<1>8. f \in VmType
  BY <1>7
<1> HIDE DEF g, q, a
<1> HIDE DEF f
<1>9. /\ x.state = "failed" /\ x.deadline = "off" /\ ~x.stopTimer
      /\ x.run = None /\ x.queued = None /\ x.told = "failed" /\ x.hellos = NoHellos
      /\ x.jobs = f.jobs /\ x.built = f.built
      /\ x.accepted = f.accepted /\ x.starts = f.starts /\ x.ended = f.ended
      /\ x.park = f.park /\ x.orphans = f.orphans /\ x.pingId = f.pingId /\ x.writing = f.writing
      /\ x.line = f.line /\ x.prog = f.prog /\ x.ran = f.ran
      /\ SameCpu(x, f)
      /\ x.load = (IF v.load = "greet" THEN "no" ELSE f.load)
      /\ x.loading = (IF v.load = "greet" THEN "none" ELSE f.loading)
  <2>1. CASE v.load = "greet"
    <3>1. x = LoadOver(f, "none")
      BY <1>3, <2>1
    <3>2. /\ x.state = f.state /\ x.deadline = f.deadline /\ x.stopTimer = f.stopTimer
          /\ x.run = f.run /\ x.queued = f.queued /\ x.told = f.told /\ x.hellos = f.hellos
          /\ x.jobs = f.jobs /\ x.built = f.built
          /\ x.accepted = f.accepted /\ x.starts = f.starts /\ x.ended = f.ended
          /\ x.park = f.park /\ x.orphans = f.orphans /\ x.pingId = f.pingId /\ x.writing = f.writing
          /\ x.line = f.line /\ x.prog = f.prog /\ x.ran = f.ran
          /\ SameCpu(x, f) /\ x.load = "no" /\ x.loading = "none"
      BY <1>8, <3>1 DEF LoadOver, SameCpu, VmType
    <3> QED BY <1>7, <2>1, <3>2
  <2>2. CASE v.load # "greet"
    <3>1. x = f
      BY <1>3, <2>2
    <3> QED BY <1>7, <2>2, <3>1 DEF SameCpu
  <2> QED BY <2>1, <2>2
<1>10. SameCpu(x, v)
  BY <1>6, <1>7, <1>9, SameAgain
<1>11. x.jobs = (IF v.built THEN Append(v.jobs, Job("pause", None)) ELSE v.jobs)
  <2>1. f.jobs = (IF v.built THEN Append(e.jobs, Job("pause", None)) ELSE e.jobs)
    BY Zenon, <1>7
  <2>2. x.jobs = f.jobs /\ e.jobs = v.jobs
    BY Zenon, <1>5, <1>9
  <2> QED BY Zenon, <2>1, <2>2
<1>12. \A r \in Runs : x.ended[r] = IF r \in {v.run, v.queued} /\ v.ended[r] = "no" THEN "broken" ELSE v.ended[r]
  <2>1. x.ended = e.ended
    BY <1>7, <1>9
  <2> QED BY Zenon, <1>4, <2>1
<1>13. /\ x.built = v.built
       /\ x.accepted = v.accepted /\ x.starts = v.starts
       /\ x.park = v.park /\ x.orphans = v.orphans /\ x.pingId = v.pingId /\ x.writing = v.writing
       /\ x.line = v.line /\ x.prog = v.prog /\ x.ran = v.ran
       /\ f.load = v.load /\ f.loading = v.loading
  BY <1>5, <1>7, <1>9
<1> QED BY Zenon, <1>0, <1>9, <1>10, <1>11, <1>12, <1>13

(* A Vm that may fail: no operation that a load or a park awaits is        *)
(* waiting, and its runs are those in hand.                                *)
Gathered(v) ==
  /\ v.run <= v.accepted /\ v.queued <= v.accepted
  /\ \A r \in Runs : r > v.accepted => v.ended[r] = "no" /\ v.starts[r] = 0
  /\ \A r \in 1 .. v.accepted : v.ended[r] = "no" => r \in {v.run, v.queued}

MayFail(v) ==
  /\ v.state # "destroyed" /\ v.orphans = 0 /\ v.ran <= 1
  /\ \A k \in DOMAIN v.jobs : v.jobs[k].op \notin Settling
  /\ \A k \in DOMAIN v.jobs : v.jobs[k].op = "begin" => v.jobs[k].run # None
  /\ \A i, j \in DOMAIN v.jobs : v.jobs[i].op = "begin" /\ v.jobs[j].op = "begin" => i = j
  /\ \A k \in DOMAIN v.line : v.line[k].type \in {"HELLO", "PING"} => v.line[k].id \in Ids
  /\ \A r \in v.writing : v.ended[r] = "no" => v.run = r
  /\ Program(v) /\ Seen(v) /\ Gathered(v)

Failed(x, v) ==
  /\ x.state = "failed" /\ x.deadline = "off" /\ ~x.stopTimer
  /\ x.run = None /\ x.queued = None /\ x.told = "failed" /\ x.hellos = NoHellos
  /\ x.jobs = (IF v.built THEN Append(v.jobs, Job("pause", None)) ELSE v.jobs) /\ x.built = v.built
  /\ x.accepted = v.accepted /\ x.starts = v.starts
  /\ \A r \in Runs : x.ended[r] = IF r \in {v.run, v.queued} /\ v.ended[r] = "no" THEN "broken" ELSE v.ended[r]
  /\ x.park = "no" /\ x.orphans = v.orphans /\ x.pingId = v.pingId /\ x.writing = v.writing
  /\ x.line = v.line /\ x.prog = v.prog /\ x.ran = v.ran
  /\ SameCpu(x, v)

LEMMA FailsSafely ==
  ASSUME NEW v \in VmType, MayFail(v), NEW x \in VmType, Failed(x, v),
         \/ x.load = "no" /\ x.loading \in {"none", "pending", "ready"}
         \/ x.load = "bundle" /\ x.loading = "pending"
         \/ x.load = "build" /\ x.loading = "pending" /\ ~v.built
  PROVE  Whole(x) /\ Ending(v, x, "broken")
<1>0. /\ v.accepted \in 0 .. MaxRuns /\ v.run \in 0 .. MaxRuns /\ v.queued \in 0 .. MaxRuns
      /\ x.writing \in SUBSET Runs /\ v.built \in BOOLEAN /\ v.want \in BOOLEAN
      /\ v.shown \in BOOLEAN /\ v.visible \in BOOLEAN
      /\ v.jobs \in Seq(JobType) /\ v.ended \in [Runs -> Reasons \cup {"no"}]
  BY Fields, JobsAre
<1>1. /\ x.state = "failed" /\ x.deadline = "off" /\ ~x.stopTimer
      /\ x.run = None /\ x.queued = None /\ x.told = "failed" /\ x.hellos = NoHellos
      /\ x.built = v.built /\ x.accepted = v.accepted /\ x.starts = v.starts
      /\ x.park = "no" /\ x.orphans = v.orphans /\ x.pingId = v.pingId /\ x.writing = v.writing
      /\ x.line = v.line /\ x.prog = v.prog /\ x.ran = v.ran
      /\ x.want = v.want /\ x.shown = v.shown /\ x.cpu = v.cpu /\ x.visible = v.visible
  BY DEF Failed, SameCpu
<1>2. \A r \in Runs : x.ended[r] = IF r \in {v.run, v.queued} /\ v.ended[r] = "no" THEN "broken" ELSE v.ended[r]
  BY DEF Failed
<1>3. \A r \in Runs : r <= v.accepted => x.ended[r] # "no"
  BY <1>0, <1>2, UpTo DEF MayFail, Gathered
<1>4. \A r \in Runs : r > v.accepted => x.ended[r] = "no" /\ v.ended[r] = "no" /\ v.starts[r] = 0
  <2> TAKE r \in Runs
  <2> HAVE r > v.accepted
  <2>1. r \notin {v.run, v.queued} /\ v.ended[r] = "no" /\ v.starts[r] = 0
    BY <1>0, UpTo DEF MayFail, Gathered
  <2> QED BY <1>2, <2>1
<1>5. Ending(v, x, "broken")
  <2> SUFFICES ASSUME NEW r \in Runs
               PROVE  x.ended[r] = IF r <= v.accepted /\ v.ended[r] = "no" THEN "broken" ELSE v.ended[r]
    BY DEF Ending
  <2>1. r <= v.accepted /\ v.ended[r] = "no" => r \in {v.run, v.queued}
    BY <1>0, UpTo DEF MayFail, Gathered
  <2>2. ~(r <= v.accepted) => r > v.accepted
    BY <1>0, UpTo
  <2> QED BY <1>2, <1>4, <2>1, <2>2
<1>6. Kept(x)
  <2>1. x.run <= x.accepted /\ x.queued <= x.accepted
    BY <1>0, <1>1 DEF None
  <2>2. \A r \in 1 .. x.accepted : x.ended[r] # "no"
    BY <1>0, <1>1, <1>3, UpTo
  <2>3. \A r \in Runs : x.ended[r] # "no" \/ x.starts[r] = 0
    BY <1>0, <1>1, <1>3, <1>4, UpTo
  <2> QED BY <1>1, <1>4, <2>1, <2>2, <2>3 DEF Kept
<1>7. \A r \in Runs : v.ended[r] # "no" => x.ended[r] # "no"
  BY <1>2
<1> DEFINE pause == Job("pause", None)
<1>8. pause \in JobType /\ pause.op = "pause"
  BY AssumeTypes DEF Job, JobType, Ops
<1>9. x.jobs = IF v.built THEN Append(v.jobs, pause) ELSE v.jobs
  BY DEF Failed
<1> HIDE DEF pause
<1>10. ASSUME v.built
       PROVE  /\ DOMAIN x.jobs = DOMAIN v.jobs \cup {Len(v.jobs) + 1}
              /\ x.jobs[Len(v.jobs) + 1] = pause
              /\ \A i \in DOMAIN v.jobs : i \in Nat /\ i < Len(v.jobs) + 1 /\ x.jobs[i] = v.jobs[i]
  BY <1>0, <1>8, <1>9, <1>10, AppendIs
<1>11. ~v.built => x.jobs = << >> /\ ~v.want
  BY <1>9 DEF MayFail, Seen
<1>12. Timers(x)
  <2>1. \A r \in x.writing : x.ended[r] # "no"
    BY <1>0, <1>1, <1>2 DEF MayFail
  <2> QED BY <1>1, <2>1 DEF Timers, Active, MayFail
<1>13. Seen(x)
  <2>1. pause.op \notin Sights
    BY <1>8 DEF Sights
  <2>2. v.cpu = (v.want /\ v.shown) /\ (v.built => InSight(v.jobs, v.shown, v.visible))
    BY DEF MayFail, Seen
  <2>3. v.built => InSight(x.jobs, v.shown, v.visible)
    BY <1>0, <1>8, <1>9, <2>1, <2>2, SightAppend
  <2>4. x.cpu = (x.want /\ x.shown)
    BY <1>1, <2>2
  <2> QED BY <1>1, <1>11, <2>3, <2>4 DEF Seen
<1>14. Machine(x)
  <2>1. ASSUME v.built, x.load = "no"
        PROVE  \E i \in DOMAIN x.jobs : x.jobs[i].op = "pause" /\ \A j \in DOMAIN x.jobs : j > i => x.jobs[j].op # "begin"
    <3>1. Len(v.jobs) \in Nat
      BY <1>0
    <3>2. \A j \in DOMAIN x.jobs : ~(j > Len(v.jobs) + 1)
      BY <1>10, <2>1, <3>1
    <3> QED BY <1>8, <1>10, <2>1, <3>2
  <2>2. ~v.built => \A j \in DOMAIN x.jobs : FALSE
    BY <1>11
  <2> QED BY <1>0, <1>1, <1>11, <2>1, <2>2 DEF Machine, Greeting, MayFail
<1>15. Queue(x)
  <2>1. \A k \in DOMAIN x.jobs : x.jobs[k].op = "pause" \/ (k \in DOMAIN v.jobs /\ x.jobs[k] = v.jobs[k])
    <3>1. CASE v.built
      <4> TAKE k \in DOMAIN x.jobs
      <4>1. k = Len(v.jobs) + 1 \/ k \in DOMAIN v.jobs
        BY <1>10, <3>1
      <4>2. k = Len(v.jobs) + 1 => x.jobs[k].op = "pause"
        BY Zenon, <1>8, <1>10, <3>1
      <4>3. k \in DOMAIN v.jobs => x.jobs[k] = v.jobs[k]
        BY <1>10, <3>1
      <4> QED BY <4>1, <4>2, <4>3
    <3>2. CASE ~v.built
      BY <1>11, <3>2
    <3> QED BY <3>1, <3>2
  <2>2. \A k \in DOMAIN x.jobs : x.jobs[k].op \notin Settling
    BY <2>1 DEF MayFail, Settling
  <2>3. \A i, j \in DOMAIN x.jobs : x.jobs[i].op = "begin" /\ x.jobs[j].op = "begin" => i = j
    BY <2>1 DEF MayFail
  <2>4. \A k \in DOMAIN x.jobs : x.jobs[k].op = "begin" => x.jobs[k].run # None
    BY <2>1 DEF MayFail
  <2> QED BY <1>1, <2>2, <2>3, <2>4 DEF Queue, Settling
<1>16. Talk(x)
  BY <1>1 DEF MayFail, Talk, NoHellos, Greeting
<1>17. Program(x)
  <2>1. \A k \in DOMAIN v.line : v.line[k].type = "RUN" => v.line[k].id \in Runs /\ x.ended[v.line[k].id] # "no"
    BY <1>2 DEF MayFail, Program
  <2>2. v.prog # None => v.prog \in Runs /\ x.ended[v.prog] # "no"
    BY <1>2 DEF MayFail, Program
  <2> QED BY <1>1, <2>1, <2>2 DEF MayFail, Program
<1>18. Load(x)
  <2>1. v.built \/ ~v.built
    OBVIOUS
  <2> QED BY <1>1 DEF Load, Greeting
<1> QED
  BY <1>1, <1>5, <1>6, <1>12, <1>13, <1>14, <1>15, <1>16, <1>17, <1>18, Still DEF Whole, Safe

(* What nothing here looks at may change.                                  *)
LEMMA AlikeIsWhole ==
  ASSUME NEW v \in VmType, Whole(v), NEW x \in VmType, SameButEnds(x, v), x.ended = v.ended
  PROVE  Whole(x)
<1>1. Less(x, v)
  <2>1. x.run = v.run
    BY DEF SameButEnds
  <2> QED BY <2>1, EndsAreLess DEF SameButEnds
<1>2. Safe(x)
  BY <1>1, LessIsSafe DEF Whole
<1>3. Kept(x)
  BY DEF Whole, Kept, SameButEnds, SamePhase
<1>4. Moving(x)
  BY DEF Whole, Moving, BeginPending, SameButEnds, SamePhase, SameTimers, SameJobs, SameLine
<1> QED BY <1>2, <1>3, <1>4 DEF Whole

-----------------------------------------------------------------------------
(* Every step leaves a Vm of its type.                                     *)
LEMMA StepType ==
  ASSUME Whole(vm), PageStep \/ TimerStep \/ GuestStep \/ HostStep
  PROVE  vm' \in VmType
BY PageStepType, TimerStepType, GuestStepType, HostStepType DEF TypeOK, Whole, Safe

-----------------------------------------------------------------------------
(* The page's calls.                                                       *)

(* A Vm with no run in hand has at most its queue to look at.              *)
LEMMA KeptWaits ==
  ASSUME NEW v \in VmType, Safe(v), Kept(v), v.state \in {"unloaded", "loading", "parked", "failed", "destroyed"}
  PROVE  /\ Waits(v) /\ v.run = None
         /\ v.state # "loading" => v.queued = None /\ \A r \in 1 .. v.accepted : v.ended[r] # "no"
<1>1. v.run = None /\ v.accepted \in 0 .. MaxRuns
  BY Fields DEF Safe, Timers, Active
<1>2. \A r \in 1 .. v.accepted : v.ended[r] = "no" => r = v.accepted /\ r = v.queued
  BY <1>1, UpTo DEF Kept
<1>3. v.state # "loading" => v.queued = None
  BY DEF Kept
<1>4. \A r \in Runs : v.ended[r] = "no" => v.starts[r] = 0
  BY DEF Kept
<1>5. v.state # "loading" => \A r \in 1 .. v.accepted : v.ended[r] # "no"
  BY <1>1, <1>2, <1>3, UpTo
<1> QED BY <1>1, <1>2, <1>3, <1>4, <1>5 DEF Waits, Kept

(* load(), also from run().                                                *)
LEMMA LoadCallKeeps ==
  ASSUME NEW v \in VmType, Safe(v), v.state \in {"unloaded", "failed"}, v.loading = "none", Waits(v),
         NEW x, x = LoadCall(v)
  PROVE  /\ Whole(x) /\ x \in VmType /\ x.state = "loading"
         /\ x.accepted = v.accepted /\ x.ended = v.ended /\ x.starts = v.starts
<1>0. v.run = None /\ v.load = "no" /\ v.park = "no" /\ v.accepted \in 0 .. MaxRuns
  BY Fields DEF Safe, Timers, Load, Active
<1>1. x \in VmType
  BY LoadCallType
<1>2. /\ x.state = "loading" /\ x.loading = "pending" /\ x.load = "bundle" /\ x.told = "nothing"
      /\ x.phase = v.phase /\ SameRuns(x, v) /\ SameJobs(x, v) /\ SameCpu(x, v) /\ SameLine(x, v)
      /\ SameTimers(x, v)
  BY DEF LoadCall, SetState, VmType, SameRuns, SameJobs, SameCpu, SameLine, SameTimers
<1>3. /\ x.accepted = v.accepted /\ x.run = v.run /\ x.queued = v.queued
      /\ x.ended = v.ended /\ x.starts = v.starts /\ x.jobs = v.jobs /\ x.built = v.built
      /\ x.want = v.want /\ x.shown = v.shown /\ x.cpu = v.cpu /\ x.visible = v.visible
      /\ x.hellos = v.hellos /\ x.line = v.line /\ x.prog = v.prog /\ x.ran = v.ran
      /\ x.stopTimer = v.stopTimer /\ x.orphans = v.orphans /\ x.deadline = v.deadline
      /\ x.park = v.park /\ x.pingId = v.pingId /\ x.writing = v.writing
  BY <1>2 DEF SameRuns, SameJobs, SameCpu, SameLine, SameTimers
<1>4. Timers(x)
  BY <1>0, <1>2, <1>3 DEF Safe, Timers, Active
<1>5. Seen(x)
  BY <1>3 DEF Safe, Seen
<1>6. Machine(x)
  BY <1>0, <1>2, <1>3 DEF Safe, Machine, Greeting
<1>7. Queue(x)
  BY <1>0, <1>2, <1>3 DEF Safe, Queue, Settling
<1>8. Talk(x)
  BY <1>0, <1>2, <1>3 DEF Safe, Talk
<1>9. Program(x)
  BY <1>0, <1>2, <1>3 DEF Safe, Program
<1>10. Load(x)
  BY <1>2 DEF Load, Greeting
<1>11. Kept(x)
  <2>1. x.run <= x.accepted
    BY <1>0, <1>3 DEF None
  <2> QED BY <1>0, <1>2, <1>3, <2>1 DEF Waits, Kept
<1> QED BY <1>1, <1>2, <1>3, <1>4, <1>5, <1>6, <1>7, <1>8, <1>9, <1>10, <1>11, Still DEF Whole, Safe

LEMMA LoadRequestedKeeps ==
  ASSUME Whole(vm), LoadRequested, NEW x, x = vm'
  PROVE  Whole(x) /\ Goes(vm, x)
<1>1. /\ vm \in VmType /\ Safe(vm) /\ Kept(vm) /\ vm.loading = "none" /\ vm.state # "destroyed"
      /\ x = LoadCall(vm)
  BY DEF Whole, Safe, LoadRequested
<1>2. vm.state \in {"unloaded", "failed"}
  BY <1>1 DEF Safe, Load
<1>3. Waits(vm)
  BY <1>1, <1>2, KeptWaits
<1>4. /\ Whole(x) /\ x \in VmType /\ x.state = "loading"
      /\ x.accepted = vm.accepted /\ x.ended = vm.ended /\ x.starts = vm.starts
  BY <1>1, <1>2, <1>3, LoadCallKeeps
<1>5. << vm.state, x.state >> \in Rows
  BY <1>2, <1>4 DEF Rows, Table
<1> QED BY <1>4, <1>5 DEF Goes, Leaves

(* The next run of the queue is named.                                     *)
WithQueued(e, n) == [e EXCEPT !.queued = n]

LEMMA QueueIs ==
  ASSUME NEW e \in VmType, NEW n \in 0 .. MaxRuns, NEW q, q = WithQueued(e, n)
  PROVE  /\ q \in VmType /\ q.queued = n
         /\ SamePhase(q, e) /\ SameJobs(q, e) /\ SameCpu(q, e) /\ SameLine(q, e) /\ SameLoad(q, e)
         /\ SameTimers(q, e) /\ q.run = e.run /\ q.starts = e.starts /\ q.accepted = e.accepted /\ q.ended = e.ended
<1>1. q \in VmType
  BY Updates DEF WithQueued
<1>2. q.queued = n
  BY DEF VmType, WithQueued
<1>3. /\ SamePhase(q, e) /\ SameJobs(q, e) /\ SameCpu(q, e) /\ SameLine(q, e) /\ SameLoad(q, e)
      /\ SameTimers(q, e)
  BY DEF VmType, WithQueued, SamePhase, SameJobs, SameCpu, SameLine, SameLoad, SameTimers
<1>4. q.run = e.run /\ q.starts = e.starts /\ q.accepted = e.accepted /\ q.ended = e.ended
  BY DEF VmType, WithQueued
<1> QED BY <1>1, <1>2, <1>3, <1>4

(* run() and stop() first look at the queue.                               *)
LEMMA ReplaceIs ==
  ASSUME NEW v \in VmType, Safe(v), Kept(v), NEW n \in 0 .. MaxRuns, NEW w \in VmType,
         SamePhase(w, v), SameJobs(w, v), SameCpu(w, v), SameLine(w, v), SameLoad(w, v), SameTimers(w, v),
         w.run = v.run, w.starts = v.starts, w.ended = v.ended,
         \/ w.accepted = v.accepted + 1 /\ n = w.accepted /\ v.accepted < MaxRuns
         \/ w.accepted = v.accepted /\ n = None,
         NEW q, q = WithQueued(End(w, v.queued, "stopped"), n)
  PROVE  Replaced(q, v) /\ q.queued = n /\ q.accepted = w.accepted
<1> DEFINE e == End(w, v.queued, "stopped")
<1>0. v.queued \in 0 .. MaxRuns /\ "stopped" \in Reasons /\ v.queued <= v.accepted
  BY Fields DEF Reasons, Kept
<1>1. /\ e \in VmType /\ SameButEnds(e, w)
      /\ \A r \in Runs : (r = v.queued /\ w.ended[r] = "no" /\ e.ended[r] = "stopped") \/ (~(r = v.queued /\ w.ended[r] = "no") /\ e.ended[r] = w.ended[r])
  <2>1. e = End(w, v.queued, "stopped")
    OBVIOUS
  <2> HIDE DEF e
  <2> QED BY <1>0, <2>1, EndIs
<1> HIDE DEF e
<1>2. q = WithQueued(e, n)
  BY DEF e, WithQueued
<1>3. e \in VmType
  BY <1>1
<1>4. /\ q \in VmType /\ q.queued = n
      /\ SamePhase(q, e) /\ SameJobs(q, e) /\ SameCpu(q, e) /\ SameLine(q, e) /\ SameLoad(q, e)
      /\ SameTimers(q, e) /\ q.run = e.run /\ q.starts = e.starts /\ q.accepted = e.accepted /\ q.ended = e.ended
  BY <1>2, <1>3, QueueIs
<1>7. /\ SamePhase(q, w) /\ SameJobs(q, w) /\ SameCpu(q, w) /\ SameLine(q, w) /\ SameLoad(q, w)
      /\ SameTimers(q, w) /\ q.run = w.run /\ q.starts = w.starts /\ q.accepted = w.accepted
  BY <1>1, <1>4, SameAgain DEF SameButEnds
<1>8. /\ SamePhase(q, v) /\ SameJobs(q, v) /\ SameCpu(q, v) /\ SameLine(q, v) /\ SameLoad(q, v)
      /\ SameTimers(q, v) /\ q.run = v.run /\ q.starts = v.starts
  BY <1>7, SameAgain
<1>9. \A r \in Runs : q.ended[r] = IF r = v.queued THEN "stopped" ELSE v.ended[r]
  <2>1. \A r \in Runs : r = v.queued => v.ended[r] = "no"
    BY UpTo, <1>0 DEF Kept
  <2>2. \A r \in Runs : q.ended[r] = e.ended[r] /\ w.ended[r] = v.ended[r]
    BY <1>4
  <2> QED BY <1>1, <2>1, <2>2
<1> QED BY <1>4, <1>7, <1>8, <1>9 DEF Replaced

LEMMA RunRequestedKeeps ==
  ASSUME Whole(vm), RunRequested, NEW x, x = vm'
  PROVE  Whole(x) /\ Goes(vm, x)
<1> DEFINE r == vm.accepted + 1
           v == [vm EXCEPT !.accepted = r]
           q == [End(v, v.queued, "stopped") EXCEPT !.queued = r]
<1>0. /\ vm \in VmType /\ Safe(vm) /\ Kept(vm) /\ vm.accepted < MaxRuns /\ vm.accepted \in 0 .. MaxRuns
      /\ vm.state \in States /\ vm.loading \in {"none", "pending", "ready"}
  BY Fields DEF Whole, Safe, RunRequested
<1>1. r \in Runs /\ r \in 0 .. MaxRuns /\ r # None
  BY <1>0, UpTo
<1>2. x = CASE v.state = "destroyed" \/ (v.state = "failed" /\ v.loading # "none") ->
                 End(v, r, "broken")
            [] v.state \notin {"destroyed", "failed"} /\ v.run # None -> StopRun(q)
            [] v.state = "parked" /\ v.run = None -> StartQueued(q)
            [] v.state = "unloaded" \/ (v.state = "failed" /\ v.loading = "none") -> LoadCall(q)
            [] OTHER -> q
  BY DEF RunRequested
<1>3. v \in VmType /\ v.ended = vm.ended
      /\ v.accepted = r /\ v.queued = vm.queued /\ v.state = vm.state /\ v.run = vm.run /\ v.loading = vm.loading
      /\ v.starts = vm.starts
      /\ SamePhase(v, vm) /\ SameJobs(v, vm) /\ SameCpu(v, vm) /\ SameLine(v, vm) /\ SameLoad(v, vm)
      /\ SameTimers(v, vm)
  <2> HIDE DEF r
  <2>1. v \in VmType
    BY <1>0, <1>1, Updates
  <2> QED BY <1>0, <2>1 DEF VmType, SamePhase, SameJobs, SameCpu, SameLine, SameLoad, SameTimers
<1> HIDE DEF v
<1>4. Replaced(q, vm) /\ q.queued = r /\ q.accepted = r
  <2>1. q = WithQueued(End(v, vm.queued, "stopped"), r)
    BY <1>3 DEF WithQueued
  <2>2. v.accepted = vm.accepted + 1 /\ r = v.accepted
    BY <1>3
  <2> HIDE DEF q, r
  <2>4. Replaced(q, vm) /\ q.queued = r /\ q.accepted = v.accepted
    BY <1>0, <1>1, <1>3, <2>1, <2>2, ReplaceIs
  <2> QED BY <2>2, <2>4
<1> HIDE DEF q
<1>5. /\ Safe(q) /\ q \in VmType /\ q.state = vm.state /\ q.loading = vm.loading /\ q.run = vm.run
      /\ q.starts = vm.starts
  BY <1>0, <1>4, ReplacedIsSafe DEF Replaced, SamePhase, SameLoad
<1>6. CASE vm.state = "destroyed" \/ (vm.state = "failed" /\ vm.loading # "none")
  <2>1. x = End(v, r, "broken")
    BY <1>2, <1>3, <1>6
  <2>2. /\ x \in VmType /\ SameButEnds(x, v)
        /\ \A i \in Runs : (i = r /\ v.ended[i] = "no" /\ x.ended[i] = "broken") \/ (~(i = r /\ v.ended[i] = "no") /\ x.ended[i] = v.ended[i])
    <3>1. v \in VmType /\ "broken" \in Reasons
      BY <1>3 DEF Reasons
    <3> HIDE DEF r
    <3>2. x \in VmType /\ SameButEnds(x, v)
      BY <1>1, <2>1, <3>1, EndIs
    <3>3. \A i \in Runs : (i = r /\ v.ended[i] = "no" /\ x.ended[i] = "broken") \/ (~(i = r /\ v.ended[i] = "no") /\ x.ended[i] = v.ended[i])
      BY <1>1, <2>1, <3>1, EndIs
    <3> QED BY <3>2, <3>3
  <2>3. /\ SamePhase(x, vm) /\ SameJobs(x, vm) /\ SameCpu(x, vm) /\ SameLine(x, vm) /\ SameLoad(x, vm)
        /\ SameTimers(x, vm) /\ x.run = vm.run /\ x.starts = vm.starts /\ x.accepted = r /\ x.queued = vm.queued
    <3>1. x.run = vm.run /\ x.starts = vm.starts /\ x.accepted = r /\ x.queued = vm.queued
      BY <1>3, <2>2 DEF SameButEnds
    <3> QED BY <1>3, <2>2, <3>1, SameAgain DEF SameButEnds
  <2>4. vm.ended[r] = "no" /\ vm.starts[r] = 0
    BY <1>0, <1>1 DEF Kept
  <2>5. \A i \in Runs : x.ended[i] = IF i = r THEN "broken" ELSE vm.ended[i]
    BY <1>3, <2>2, <2>4
  <2>6. vm.queued = None /\ vm.run = None /\ \A i \in 1 .. vm.accepted : vm.ended[i] # "no"
    BY <1>0, <1>6, KeptWaits
  <2>7. Safe(x)
    <3>1. \A i \in Runs : vm.ended[i] # "no" => x.ended[i] # "no"
      BY <2>5
    <3> QED BY <1>0, <2>2, <2>3, <3>1, EndsAreLess, LessIsSafe
  <2>8. Kept(x)
    <3>1. \A i \in 1 .. r : i \in Runs /\ (i = r \/ i \in 1 .. vm.accepted)
      BY <1>0, <1>1, UpTo
    <3>2. \A i \in 1 .. x.accepted : x.ended[i] # "no"
      BY <2>3, <2>5, <2>6, <3>1
    <3>3. \A i \in Runs : i > r => i # r /\ vm.ended[i] = "no" /\ vm.starts[i] = 0
      BY <1>0, UpTo DEF Kept
    <3>4. \A i \in Runs : x.ended[i] # "no" \/ x.starts[i] = 0
      <4>1. \A i \in Runs : vm.ended[i] # "no" \/ vm.starts[i] = 0
        BY <1>0, <1>6 DEF Kept
      <4> QED BY <2>3, <2>5, <4>1
    <3>5. x.state = vm.state /\ x.run <= x.accepted /\ x.queued <= x.accepted
      BY <1>0, <2>3, <2>6 DEF SamePhase, None
    <3> QED BY <1>6, <2>3, <2>5, <2>6, <3>2, <3>3, <3>4, <3>5 DEF Kept
  <2>9. Refuses(vm, x) /\ x.state = vm.state
    BY <1>0, <2>3, <2>5, <2>6 DEF Refuses, SamePhase
  <2> QED BY <1>6, <2>7, <2>8, <2>9, Still DEF Whole, Goes
<1>7. CASE vm.state \in Active
  <2>1. vm.run # None
    BY <1>0, <1>7 DEF Safe, Timers
  <2>2. x = StopRun(q)
    BY <1>2, <1>3, <1>7, <2>1 DEF Active
  <2>3. /\ Whole(x) /\ x \in VmType
        /\ Ending(vm, x, "stopped") /\ x.accepted = q.accepted /\ x.starts = vm.starts
        /\ x.state = vm.state \/ << vm.state, x.state >> \in Rows
    BY <1>0, <1>4, <1>7, <2>2, StopRunKeeps DEF Active
  <2> QED BY <1>0, <1>4, <2>3 DEF Goes, Accepts
<1>8. CASE vm.state \in {"parked", "unloaded", "loading"} \/ (vm.state = "failed" /\ vm.loading = "none")
  <2>1. vm.run = None
    BY <1>0, <1>8, KeptWaits
  <2>2. Ending(vm, q, "stopped")
    BY <1>0, <1>4, <1>8, ReplacedIsSafe
  <2>3. Waits(q)
    <3>1. \A i \in Runs : i <= vm.accepted => q.ended[i] # "no"
      BY <2>2 DEF Ending
    <3>2. \A i \in Runs : i > vm.accepted => q.ended[i] = "no" /\ vm.starts[i] = 0
      <4> TAKE i \in Runs
      <4> HAVE i > vm.accepted
      <4>1. ~(i <= vm.accepted)
        BY <1>0, UpTo
      <4> QED BY <1>0, <2>2, <4>1 DEF Ending, Kept
    <3>3. \A i \in Runs : i > r => i > vm.accepted
      BY <1>0, UpTo
    <3>4. \A i \in 1 .. r : i \in Runs /\ (i = r \/ i <= vm.accepted)
      BY <1>0, <1>1, UpTo
    <3>5. r > vm.accepted /\ r <= r
      BY <1>0
    <3>6. \A i \in Runs : i <= vm.accepted \/ i > vm.accepted
      BY <1>0, UpTo
    <3> HIDE DEF r
    <3> QED BY <1>1, <1>4, <1>5, <3>1, <3>2, <3>3, <3>4, <3>5, <3>6 DEF Waits
  <2>4. ASSUME Whole(x), x.accepted = q.accepted, x.ended = q.ended, x.starts = q.starts,
               x.state = vm.state \/ << vm.state, x.state >> \in Rows
        PROVE  Whole(x) /\ Goes(vm, x)
    BY <1>0, <1>4, <1>5, <2>2, <2>4 DEF Goes, Accepts, Ending
  <2>5. CASE vm.state = "parked"
    <3>1. x = StartQueued(q)
      BY <1>2, <1>3, <2>1, <2>5
    <3> QED BY <1>5, <2>3, <2>4, <2>5, <3>1, StartQueuedKeeps DEF Rows, Table
  <2>6. CASE vm.state \in {"unloaded", "failed"}
    <3>1. x = LoadCall(q)
      BY <1>2, <1>3, <1>8, <2>1, <2>6
    <3>2. vm.loading = "none"
      BY <1>0, <1>8, <2>6 DEF Safe, Load
    <3> QED BY <1>5, <2>3, <2>4, <2>6, <3>1, <3>2, LoadCallKeeps DEF Rows, Table
  <2>7. CASE vm.state = "loading"
    <3>1. x = q
      BY <1>2, <1>3, <2>1, <2>7
    <3>2. Kept(q)
      BY <1>0, <1>4, <2>7, ReplacedIsSafe
    <3>3. Whole(x)
      BY <1>5, <2>7, <3>1, <3>2, Still DEF Whole
    <3> QED BY <1>5, <2>4, <3>1, <3>3
  <2> QED BY <1>8, <2>5, <2>6, <2>7
<1> QED BY <1>0, <1>6, <1>7, <1>8 DEF States, Active

LEMMA StopRequestedKeeps ==
  ASSUME Whole(vm), StopRequested, NEW x, x = vm'
  PROVE  Whole(x) /\ Goes(vm, x)
<1> DEFINE q == [End(vm, vm.queued, "stopped") EXCEPT !.queued = None]
           y == StopRun(q)
<1>0. /\ vm \in VmType /\ Safe(vm) /\ Kept(vm) /\ None \in 0 .. MaxRuns /\ vm.accepted \in 0 .. MaxRuns
  BY AssumeTypes, Fields DEF Whole, Safe
<1>1. x = [y EXCEPT !.waiting = @ \/ Busy(y)]
  BY DEF StopRequested
<1>2. Replaced(q, vm) /\ q.queued = None /\ q.accepted = vm.accepted
  <2>1. q = WithQueued(End(vm, vm.queued, "stopped"), None)
    BY DEF WithQueued
  <2>2. /\ SamePhase(vm, vm) /\ SameJobs(vm, vm) /\ SameCpu(vm, vm) /\ SameLine(vm, vm) /\ SameLoad(vm, vm)
        /\ SameTimers(vm, vm)
    BY DEF SamePhase, SameJobs, SameCpu, SameLine, SameLoad, SameTimers
  <2> HIDE DEF q
  <2> QED BY <1>0, <2>1, <2>2, ReplaceIs
<1> HIDE DEF q
<1>3. /\ Whole(y) /\ y \in VmType /\ Ending(vm, y, "stopped") /\ y.accepted = q.accepted /\ y.starts = vm.starts
      /\ y.state = vm.state \/ << vm.state, y.state >> \in Rows
  BY <1>0, <1>2, StopRunKeeps
<1> HIDE DEF y
<1>4. x \in VmType /\ SameButEnds(x, y) /\ x.ended = y.ended
  <2> DEFINE b == y.waiting \/ Busy(y)
  <2>1. x = [y EXCEPT !.waiting = b] /\ y \in VmType
    BY <1>1, <1>3
  <2> HIDE DEF b
  <2>2. x \in VmType
    BY StepType DEF PageStep
  <2>3. /\ SamePhase(x, y) /\ SameJobs(x, y) /\ SameCpu(x, y) /\ SameLine(x, y) /\ SameLoad(x, y)
        /\ SameTimers(x, y)
    BY <2>1 DEF VmType, SamePhase, SameJobs, SameCpu, SameLine, SameLoad, SameTimers
  <2>4. SameRuns(x, y)
    BY <2>1 DEF VmType, SameRuns
  <2> QED BY <2>2, <2>3, <2>4 DEF SameButEnds, SameRuns
<1>5. Whole(x)
  BY <1>3, <1>4, AlikeIsWhole
<1>6. x.state = y.state /\ x.ended = y.ended /\ x.accepted = y.accepted /\ x.starts = y.starts
  BY <1>4 DEF SameButEnds, SamePhase
<1>7. Ends(vm, x)
  BY <1>2, <1>3, <1>6 DEF Ends, Ending, Reasons
<1> QED BY <1>3, <1>5, <1>6, <1>7 DEF Goes

(* The page is hidden or shown: a machine is told so.                      *)
LEMMA SightQueues ==
  ASSUME NEW v \in VmType, Whole(v), v.built, NEW x \in VmType, NEW job \in JobType, job.op \in Sights,
         x.jobs = Append(v.jobs, job), x.built = v.built, x.visible = (job.op = "show"),
         x.want = v.want, x.shown = v.shown, x.cpu = v.cpu,
         SamePhase(x, v), SameRuns(x, v), SameLine(x, v), SameLoad(x, v), SameTimers(x, v)
  PROVE  Whole(x)
<1>1. /\ v.jobs \in Seq(JobType) /\ v.shown \in BOOLEAN /\ v.visible \in BOOLEAN /\ Len(v.jobs) \in Nat
  BY JobsAre, Fields
<1>2. /\ DOMAIN x.jobs = DOMAIN v.jobs \cup {Len(v.jobs) + 1} /\ x.jobs[Len(v.jobs) + 1] = job
      /\ \A i \in DOMAIN v.jobs : i \in Nat /\ i < Len(v.jobs) + 1 /\ x.jobs[i] = v.jobs[i]
  BY <1>1, AppendIs
<1>3. /\ x.state = v.state /\ x.phase = v.phase
      /\ x.accepted = v.accepted /\ x.run = v.run /\ x.queued = v.queued
      /\ x.ended = v.ended /\ x.starts = v.starts
      /\ x.hellos = v.hellos /\ x.line = v.line /\ x.prog = v.prog /\ x.ran = v.ran
      /\ x.loading = v.loading /\ x.load = v.load /\ x.told = v.told
      /\ x.stopTimer = v.stopTimer /\ x.orphans = v.orphans /\ x.deadline = v.deadline
      /\ x.park = v.park /\ x.pingId = v.pingId /\ x.writing = v.writing
  BY DEF SamePhase, SameRuns, SameLine, SameLoad, SameTimers
<1>4. BeginPending(v) => BeginPending(x)
  BY <1>2, <1>3 DEF BeginPending
<1>5. \A i \in DOMAIN x.jobs : x.jobs[i].op \in Sights \/ (i \in DOMAIN v.jobs /\ x.jobs[i] = v.jobs[i])
  BY <1>2
<1>6. Timers(x)
  BY <1>3 DEF Whole, Safe, Timers
<1>7. Seen(x)
  <2>1. InSight(x.jobs, v.shown, job.op = "show")
    BY <1>1, SightAppend
  <2> QED BY <2>1 DEF Whole, Safe, Seen
<1>8. Machine(x)
  <2>1. ASSUME v.state = "failed", v.load = "no"
        PROVE  \/ ~v.want /\ \A j \in DOMAIN x.jobs : x.jobs[j].op # "begin"
               \/ \E i \in DOMAIN x.jobs : x.jobs[i].op = "pause" /\ \A j \in DOMAIN x.jobs : j > i => x.jobs[j].op # "begin"
    <3>1. CASE ~v.want /\ \A j \in DOMAIN v.jobs : v.jobs[j].op # "begin"
      BY <1>5, <3>1 DEF Sights
    <3>2. ASSUME NEW i \in DOMAIN v.jobs, v.jobs[i].op = "pause",
                 \A j \in DOMAIN v.jobs : j > i => v.jobs[j].op # "begin"
          PROVE  i \in DOMAIN x.jobs /\ x.jobs[i].op = "pause" /\ \A j \in DOMAIN x.jobs : j > i => x.jobs[j].op # "begin"
      BY <1>2, <1>5, <3>2 DEF Sights
    <3> QED BY <2>1, <3>1, <3>2 DEF Whole, Safe, Machine
  <2> QED BY <1>3, <1>4, <2>1 DEF Whole, Safe, Machine
<1>9. Queue(x)
  <2>1. \A i, j \in DOMAIN x.jobs : x.jobs[i].op \in Settling /\ j > i => x.jobs[j].op \in Sights
    BY <1>5 DEF Whole, Safe, Queue, Settling, Sights
  <2>2. \A i, j \in DOMAIN x.jobs : x.jobs[i].op = "begin" /\ x.jobs[j].op = "begin" => i = j
    BY <1>5 DEF Whole, Safe, Queue, Sights
  <2> QED BY <1>3, <1>5, <2>1, <2>2 DEF Whole, Safe, Queue, Sights
<1>10. Talk(x)
  BY <1>3 DEF Whole, Safe, Talk
<1>11. Program(x)
  BY <1>3 DEF Whole, Safe, Program
<1>12. Load(x)
  BY <1>3 DEF Whole, Safe, Load
<1>13. Kept(x)
  BY <1>3 DEF Whole, Kept
<1>14. Moving(x)
  BY <1>3, <1>4 DEF Whole, Moving
<1> QED BY <1>6, <1>7, <1>8, <1>9, <1>10, <1>11, <1>12, <1>13, <1>14 DEF Whole, Safe

LEMMA SetVisibleKeeps ==
  ASSUME Whole(vm), SetVisible, NEW x, x = vm'
  PROVE  Whole(x) /\ Goes(vm, x)
<1> DEFINE b == ~vm.visible
           v == [vm EXCEPT !.visible = b]
           job == Job(IF b THEN "show" ELSE "hide", None)
<1>0. vm \in VmType /\ b \in BOOLEAN /\ vm.jobs \in Seq(JobType)
  BY JobsAre DEF Whole, Safe
<1>1. /\ v \in VmType /\ v.visible = b /\ v.ended = vm.ended
      /\ v.want = vm.want /\ v.shown = vm.shown /\ v.cpu = vm.cpu /\ SameRuns(v, vm)
      /\ SamePhase(v, vm) /\ SameJobs(v, vm) /\ SameLine(v, vm) /\ SameLoad(v, vm) /\ SameTimers(v, vm)
  <2> HIDE DEF b
  <2>1. v \in VmType
    BY <1>0, Updates
  <2> QED BY <1>0, <2>1 DEF VmType, SamePhase, SameJobs, SameLine, SameLoad, SameTimers, SameRuns
<1>2. x = IF v.built THEN Enqueue(v, IF v.visible THEN "show" ELSE "hide", None) ELSE v
  BY DEF SetVisible
<1>3. job \in JobType /\ job.op \in Sights /\ b = (job.op = "show")
  BY <1>0, AssumeTypes DEF Job, JobType, Ops, Sights
<1> HIDE DEF v, b, job
<1>4. CASE vm.built
  <2> DEFINE s == Append(vm.jobs, job)
  <2>1. s \in Seq([op : Ops, run : 0 .. MaxRuns])
    BY <1>0, <1>3, AppendIs DEF JobType
  <2>2. x = [v EXCEPT !.jobs = s]
    BY <1>1, <1>2, <1>4 DEF Enqueue, job, SameJobs
  <2> HIDE DEF s
  <2>3. x \in VmType
    BY StepType DEF PageStep
  <2>4. /\ x.jobs = s /\ x.built = v.built /\ x.visible = v.visible /\ x.want = v.want /\ x.shown = v.shown
        /\ x.cpu = v.cpu
        /\ SamePhase(x, v) /\ SameRuns(x, v) /\ SameLine(x, v) /\ SameLoad(x, v) /\ SameTimers(x, v)
    BY <1>1, <2>2, <2>3 DEF VmType, SamePhase, SameRuns, SameLine, SameLoad, SameTimers
  <2>5. /\ x.jobs = Append(vm.jobs, job) /\ x.built = vm.built /\ x.visible = (job.op = "show")
        /\ x.want = vm.want /\ x.shown = vm.shown /\ x.cpu = vm.cpu
        /\ SamePhase(x, vm) /\ SameRuns(x, vm) /\ SameLine(x, vm) /\ SameLoad(x, vm) /\ SameTimers(x, vm)
    <3>1. x.jobs = Append(vm.jobs, job)
      BY <2>4 DEF s
    <3>2. x.built = vm.built /\ x.visible = (job.op = "show")
      BY <1>1, <1>3, <2>4 DEF SameJobs
    <3> QED BY <1>1, <2>4, <3>1, <3>2, SameAgain
  <2>6. Whole(x)
    BY <1>0, <1>3, <1>4, <2>3, <2>5, SightQueues
  <2> QED BY <2>5, <2>6 DEF Goes, Leaves, SamePhase, SameRuns
<1>5. CASE ~vm.built
  <2>1. x = v
    BY <1>1, <1>2, <1>5 DEF SameJobs
  <2>2. /\ x.state = vm.state /\ x.phase = vm.phase
        /\ x.accepted = vm.accepted /\ x.run = vm.run /\ x.queued = vm.queued
        /\ x.ended = vm.ended /\ x.starts = vm.starts
        /\ x.hellos = vm.hellos /\ x.line = vm.line /\ x.prog = vm.prog /\ x.ran = vm.ran
        /\ x.loading = vm.loading /\ x.load = vm.load /\ x.told = vm.told
        /\ x.stopTimer = vm.stopTimer /\ x.orphans = vm.orphans /\ x.deadline = vm.deadline
        /\ x.park = vm.park /\ x.pingId = vm.pingId /\ x.writing = vm.writing
        /\ x.jobs = vm.jobs /\ x.built = vm.built /\ x.want = vm.want /\ x.cpu = vm.cpu /\ x.shown = vm.shown
    BY <1>1, <2>1 DEF SamePhase, SameRuns, SameLine, SameLoad, SameTimers, SameJobs
  <2>3. Timers(x) /\ Machine(x) /\ Queue(x)
    BY <2>2 DEF Whole, Safe, Timers, Machine, Queue, BeginPending
  <2>4. Seen(x)
    BY <1>5, <2>2 DEF Whole, Safe, Seen
  <2>5. Talk(x) /\ Program(x) /\ Load(x)
    BY <2>2 DEF Whole, Safe, Talk, Program, Load
  <2>6. Kept(x) /\ Moving(x)
    BY <2>2 DEF Whole, Kept, Moving, BeginPending
  <2>7. x \in VmType
    BY <1>1, <2>1
  <2> QED BY <2>2, <2>3, <2>4, <2>5, <2>6, <2>7 DEF Whole, Safe, Goes, Leaves
<1> QED BY <1>4, <1>5

(* Nothing is left of a destroyed Vm but what its runs came to.            *)
LEMMA DestroyKeeps ==
  ASSUME InTime, Whole(vm), Destroy, NEW x, x = vm'
  PROVE  Whole(x) /\ Goes(vm, x)
<1> DEFINE d == End(vm, vm.queued, "stopped")
           e == End(d, vm.run, "stopped")
           a == AbandonHellos(e)
           g == NoMachine(a)
<1>0. /\ vm \in VmType /\ vm.run \in 0 .. MaxRuns /\ vm.queued \in 0 .. MaxRuns /\ "stopped" \in Reasons
      /\ vm.accepted \in 0 .. MaxRuns /\ vm.state # "destroyed" /\ vm.state \in States
  BY Fields DEF Reasons, Whole, Safe, Destroy
<1>1. x \in VmType
  BY StepType DEF PageStep
<1>2. x = [g EXCEPT
             !.state = "destroyed", !.stopTimer = FALSE, !.park = "no",
             !.run = None, !.queued = None, !.waiting = FALSE, !.writing = {},
             !.load = "no", !.jobs = << >>]
  <2>1. "lateFail" \notin Faults
    BY DEF InTime
  <2> QED BY <2>1 DEF Destroy
<1>3. /\ d \in VmType /\ SameButEnds(d, vm)
      /\ \A q \in Runs : (q = vm.queued /\ vm.ended[q] = "no" /\ d.ended[q] = "stopped") \/ (~(q = vm.queued /\ vm.ended[q] = "no") /\ d.ended[q] = vm.ended[q])
  <2>1. d = End(vm, vm.queued, "stopped")
    OBVIOUS
  <2> HIDE DEF d
  <2> QED BY <1>0, <2>1, EndIs
<1>4. /\ e \in VmType /\ SameButEnds(e, d)
      /\ \A q \in Runs : (q = vm.run /\ d.ended[q] = "no" /\ e.ended[q] = "stopped") \/ (~(q = vm.run /\ d.ended[q] = "no") /\ e.ended[q] = d.ended[q])
  <2>1. e = End(d, vm.run, "stopped")
    OBVIOUS
  <2> HIDE DEF e, d
  <2> QED BY <1>0, <1>3, <2>1, EndIs
<1> HIDE DEF d, e
<1>5. /\ e.accepted = vm.accepted /\ e.starts = vm.starts /\ e.orphans = vm.orphans /\ e.pingId = vm.pingId
      /\ e.line = vm.line /\ e.prog = vm.prog /\ e.ran = vm.ran /\ e.loading = vm.loading /\ e.told = vm.told
      /\ \A q \in Runs : e.ended[q] = IF q \in {vm.run, vm.queued} /\ vm.ended[q] = "no" THEN "stopped" ELSE vm.ended[q]
  <2>1. \A q \in Runs : e.ended[q] = IF q \in {vm.run, vm.queued} /\ vm.ended[q] = "no" THEN "stopped" ELSE vm.ended[q]
    BY <1>3, <1>4
  <2> QED BY <1>3, <1>4, <2>1 DEF SameButEnds, SameTimers, SameLine, SameLoad
<1>6. /\ g \in VmType /\ ~g.built /\ ~g.want /\ ~g.cpu /\ g.deadline = "off" /\ g.hellos = NoHellos
      /\ g.accepted = e.accepted /\ g.starts = e.starts /\ g.orphans = e.orphans /\ g.pingId = e.pingId
      /\ g.line = e.line /\ g.prog = e.prog /\ g.ran = e.ran /\ g.loading = e.loading /\ g.told = e.told
      /\ g.ended = e.ended
  <2>1. a \in VmType
    BY <1>4, AbandonHellosType
  <2>2. g \in VmType
    BY <2>1, NoMachineType
  <2>3. /\ ~g.built /\ ~g.want /\ ~g.cpu /\ g.deadline = "off" /\ g.hellos = a.hellos
        /\ g.accepted = a.accepted /\ g.starts = a.starts /\ g.orphans = a.orphans /\ g.pingId = a.pingId
        /\ g.line = a.line /\ g.prog = a.prog /\ g.ran = a.ran /\ g.loading = a.loading /\ g.told = a.told
        /\ g.ended = a.ended
    <3> HIDE DEF a
    <3> QED BY <2>1 DEF NoMachine, VmType
  <2>4. /\ a.hellos = NoHellos
        /\ a.accepted = e.accepted /\ a.starts = e.starts /\ a.orphans = e.orphans /\ a.pingId = e.pingId
        /\ a.line = e.line /\ a.prog = e.prog /\ a.ran = e.ran /\ a.loading = e.loading /\ a.told = e.told
        /\ a.ended = e.ended
    BY <1>4 DEF AbandonHellos, VmType
  <2> HIDE DEF a, g
  <2> QED BY <2>2, <2>3, <2>4
<1> HIDE DEF g
<1>7. /\ x.state = "destroyed" /\ ~x.stopTimer /\ x.park = "no" /\ x.run = None /\ x.queued = None
      /\ x.writing = {} /\ x.load = "no" /\ x.jobs = << >>
      /\ x.built = g.built /\ x.want = g.want /\ x.cpu = g.cpu /\ x.deadline = g.deadline /\ x.hellos = g.hellos
      /\ x.accepted = g.accepted /\ x.starts = g.starts /\ x.orphans = g.orphans /\ x.pingId = g.pingId
      /\ x.line = g.line /\ x.prog = g.prog /\ x.ran = g.ran /\ x.loading = g.loading /\ x.told = g.told
      /\ x.ended = g.ended
  <2>1. g \in VmType
    BY <1>6
  <2> QED BY <1>2, <2>1 DEF VmType
<1>8. /\ ~x.built /\ ~x.want /\ ~x.cpu /\ x.deadline = "off" /\ x.hellos = NoHellos
      /\ x.accepted = vm.accepted /\ x.starts = vm.starts /\ x.orphans = vm.orphans /\ x.pingId = vm.pingId
      /\ x.line = vm.line /\ x.prog = vm.prog /\ x.ran = vm.ran /\ x.loading = vm.loading /\ x.told = vm.told
      /\ \A q \in Runs : x.ended[q] = IF q \in {vm.run, vm.queued} /\ vm.ended[q] = "no" THEN "stopped" ELSE vm.ended[q]
  BY <1>5, <1>6, <1>7
<1>9. /\ \A r \in Runs : r <= vm.accepted => x.ended[r] # "no" /\ (vm.ended[r] = "no" => r \in {vm.run, vm.queued})
      /\ \A r \in Runs : r > vm.accepted => x.ended[r] = "no" /\ vm.ended[r] = "no" /\ vm.starts[r] = 0
  <2>1. \A r \in Runs : r <= vm.accepted /\ vm.ended[r] = "no" => r \in {vm.run, vm.queued}
    BY <1>0, UpTo DEF Whole, Kept
  <2>2. \A r \in Runs : r <= vm.accepted => x.ended[r] # "no"
    BY <1>8, <2>1
  <2>3. ASSUME NEW r \in Runs, r > vm.accepted PROVE x.ended[r] = "no" /\ vm.ended[r] = "no" /\ vm.starts[r] = 0
    <3>1. r \notin {vm.run, vm.queued}
      BY <1>0, <2>3, UpTo DEF Whole, Kept
    <3>2. vm.ended[r] = "no" /\ vm.starts[r] = 0
      BY <2>3 DEF Whole, Kept
    <3> QED BY <1>8, <3>1, <3>2
  <2> QED BY <2>1, <2>2, <2>3
<1>10. Ending(vm, x, "stopped")
  <2> SUFFICES ASSUME NEW r \in Runs
               PROVE  x.ended[r] = IF r <= vm.accepted /\ vm.ended[r] = "no" THEN "stopped" ELSE vm.ended[r]
    BY DEF Ending
  <2>1. ~(r <= vm.accepted) => r > vm.accepted
    BY <1>0, UpTo
  <2> QED BY <1>8, <1>9, <2>1
<1>11. Kept(x)
  <2>1. x.run <= x.accepted /\ x.queued <= x.accepted
    BY <1>0, <1>7, <1>8 DEF None
  <2>2. \A r \in 1 .. x.accepted : x.ended[r] # "no"
    BY <1>0, <1>8, <1>9, UpTo
  <2>3. \A r \in Runs : x.ended[r] # "no" \/ x.starts[r] = 0
    BY <1>0, <1>8, <1>9, UpTo
  <2> QED BY <1>7, <1>8, <1>9, <2>1, <2>2, <2>3 DEF Kept
<1>12. Timers(x) /\ Seen(x)
  <2>1. x.cpu = FALSE /\ x.want = FALSE
    BY <1>1, <1>8, Fields
  <2>2. Seen(x)
    BY <1>7, <1>8, <2>1 DEF Seen
  <2> QED BY <1>7, <1>8, <2>2 DEF Whole, Safe, Timers, Active
<1>13. Machine(x) /\ Queue(x)
  BY <1>7, <1>8 DEF Whole, Safe, Machine, Queue, Greeting
<1>14. Talk(x)
  BY <1>7, <1>8 DEF Whole, Safe, Talk, NoHellos
<1>15. Program(x)
  <2>1. \A r \in Runs : vm.ended[r] # "no" => x.ended[r] # "no"
    BY <1>8
  <2>2. vm.run # None => x.ended[vm.run] # "no"
    BY <1>0, <1>9, UpTo DEF Whole, Kept
  <2> QED BY <1>7, <1>8, <2>1, <2>2 DEF Whole, Safe, Program, None
<1>16. Load(x)
  BY <1>7, <1>8 DEF Load, Greeting
<1>17. << vm.state, x.state >> \in Rows
  BY <1>0, <1>7 DEF Rows, Table
<1>18. Ends(vm, x)
  BY <1>0, <1>8, <1>10 DEF Ends
<1> QED BY <1>1, <1>7, <1>11, <1>12, <1>13, <1>14, <1>15, <1>16, <1>17, <1>18, Still DEF Whole, Safe, Goes

-----------------------------------------------------------------------------
(* The machine's queue.                                                    *)

(* The operation at the head is off the queue.                             *)
LEMMA JobDoneIs ==
  ASSUME vm \in VmType, vm.jobs # << >>, NEW y, y = JobDone
  PROVE  /\ y \in VmType /\ y.jobs = Tail(vm.jobs) /\ y.built = vm.built
         /\ SamePhase(y, vm) /\ SameRuns(y, vm) /\ SameCpu(y, vm) /\ SameLine(y, vm) /\ SameLoad(y, vm)
         /\ SameTimers(y, vm)
<1>1. y \in VmType
  BY JobDoneType
<1>2. y.jobs = Tail(vm.jobs) /\ y.built = vm.built
  BY DEF JobDone, VmType
<1>3. /\ SamePhase(y, vm) /\ SameRuns(y, vm) /\ SameCpu(y, vm) /\ SameLine(y, vm) /\ SameLoad(y, vm)
      /\ SameTimers(y, vm)
  BY DEF JobDone, VmType, SamePhase, SameRuns, SameCpu, SameLine, SameLoad, SameTimers
<1> QED BY <1>1, <1>2, <1>3

(* The rest of the queue.                                                  *)
LEMMA RestIs ==
  ASSUME NEW v \in VmType, Safe(v), v.jobs # << >>, NEW t, t = Tail(v.jobs)
  PROVE  /\ v.built /\ 1 \in DOMAIN v.jobs /\ Head(v.jobs) = v.jobs[1] /\ t \in Seq(JobType)
         /\ Head(v.jobs).op \in Ops /\ Head(v.jobs).run \in 0 .. MaxRuns
         /\ \A k \in DOMAIN t : k \in Nat \ {0} /\ k + 1 \in DOMAIN v.jobs /\ t[k] = v.jobs[k + 1]
         /\ \A i \in DOMAIN v.jobs : i \in Nat \ {0} /\ (i # 1 => i - 1 \in DOMAIN t /\ t[i - 1] = v.jobs[i])
         /\ Head(v.jobs).op \in Settling => \A k \in DOMAIN t : t[k].op \in Sights
         /\ Head(v.jobs).op = "begin" => \A k \in DOMAIN t : t[k].op # "begin"
         /\ \A i, j \in DOMAIN t : t[i].op \in Settling /\ j > i => t[j].op \in Sights
         /\ \A i, j \in DOMAIN t : t[i].op = "begin" /\ t[j].op = "begin" => i = j
<1>1. v.jobs \in Seq(JobType) /\ \A k \in DOMAIN v.jobs : v.jobs[k].op \in Ops /\ v.jobs[k].run \in 0 .. MaxRuns /\ k \in Nat \ {0}
  BY JobsAre
<1>2. /\ t \in Seq(JobType) /\ Head(v.jobs) = v.jobs[1] /\ 1 \in DOMAIN v.jobs
      /\ \A i \in DOMAIN t : i \in Nat \ {0} /\ i + 1 \in DOMAIN v.jobs /\ t[i] = v.jobs[i + 1]
      /\ \A i \in DOMAIN v.jobs : i # 1 => i - 1 \in DOMAIN t /\ t[i - 1] = v.jobs[i]
  BY <1>1, TailIs
<1>3. v.built
  BY DEF Safe, Seen
<1>4. ASSUME Head(v.jobs).op \in Settling, NEW k \in DOMAIN t PROVE t[k].op \in Sights
  <2>1. k + 1 > 1 /\ k + 1 \in DOMAIN v.jobs /\ t[k] = v.jobs[k + 1]
    BY <1>2, <1>4
  <2> QED BY <1>2, <1>4, <2>1 DEF Safe, Queue
<1>5. ASSUME Head(v.jobs).op = "begin", NEW k \in DOMAIN t PROVE t[k].op # "begin"
  <2>1. k + 1 # 1 /\ k + 1 \in DOMAIN v.jobs /\ t[k] = v.jobs[k + 1]
    BY <1>2, <1>5
  <2> QED BY <1>2, <1>5, <2>1 DEF Safe, Queue
<1>6. ASSUME NEW i \in DOMAIN t, NEW j \in DOMAIN t
      PROVE  /\ t[i].op \in Settling /\ j > i => t[j].op \in Sights
             /\ t[i].op = "begin" /\ t[j].op = "begin" => i = j
  <2>1. /\ i + 1 \in DOMAIN v.jobs /\ t[i] = v.jobs[i + 1] /\ i \in Nat
        /\ j + 1 \in DOMAIN v.jobs /\ t[j] = v.jobs[j + 1] /\ j \in Nat
        /\ (j > i => j + 1 > i + 1) /\ (j + 1 = i + 1 => j = i)
    BY <1>2, <1>6
  <2> QED BY <2>1 DEF Safe, Queue
<1> QED BY <1>1, <1>2, <1>3, <1>4, <1>5, <1>6

(* An operation that nobody awaits is done, or a resume comes too late.    *)
LEMMA JobTaken ==
  ASSUME NEW v \in VmType, Whole(v), v.jobs # << >>, NEW x \in VmType,
         NEW t, t = Tail(v.jobs), x.jobs = t, x.built = v.built, x.visible = v.visible,
         SamePhase(x, v), SameRuns(x, v), SameLine(x, v), SameLoad(x, v), SameTimers(x, v),
         x.cpu = (x.want /\ x.shown),
         InSight(x.jobs, x.shown, x.visible),
         \/ Head(v.jobs).op \in Sights /\ x.want = v.want
         \/ Head(v.jobs).op = "pause" /\ ~x.want
         \/ Head(v.jobs).op = "begin" /\ x.want /\ v.state # "starting"
  PROVE  Whole(x)
<1>1. /\ v.built /\ 1 \in DOMAIN v.jobs /\ Head(v.jobs) = v.jobs[1]
      /\ \A k \in DOMAIN t : k \in Nat \ {0} /\ k + 1 \in DOMAIN v.jobs /\ t[k] = v.jobs[k + 1]
      /\ \A i \in DOMAIN v.jobs : i \in Nat \ {0} /\ (i # 1 => i - 1 \in DOMAIN t /\ t[i - 1] = v.jobs[i])
      /\ Head(v.jobs).op = "begin" => \A k \in DOMAIN t : t[k].op # "begin"
      /\ \A i, j \in DOMAIN t : t[i].op \in Settling /\ j > i => t[j].op \in Sights
      /\ \A i, j \in DOMAIN t : t[i].op = "begin" /\ t[j].op = "begin" => i = j
  <2>1. Safe(v)
    BY DEF Whole
  <2> QED BY <2>1, RestIs
<1>2. x.jobs = t
  OBVIOUS
<1>3. /\ x.state = v.state /\ x.phase = v.phase
      /\ x.accepted = v.accepted /\ x.run = v.run /\ x.queued = v.queued
      /\ x.ended = v.ended /\ x.starts = v.starts
      /\ x.hellos = v.hellos /\ x.line = v.line /\ x.prog = v.prog /\ x.ran = v.ran
      /\ x.loading = v.loading /\ x.load = v.load /\ x.told = v.told
      /\ x.stopTimer = v.stopTimer /\ x.orphans = v.orphans /\ x.deadline = v.deadline
      /\ x.park = v.park /\ x.pingId = v.pingId /\ x.writing = v.writing
  BY DEF SamePhase, SameRuns, SameLine, SameLoad, SameTimers
<1>4. /\ Head(v.jobs).op = "pause" => v.state = "failed" \/ v.load = "bundle"
      /\ Head(v.jobs).op = "begin" => v.state \in {"failed", "parking", "starting"} \/ v.load = "bundle"
  BY <1>1 DEF Whole, Safe, Queue
<1>5. v.load = "bundle" \/ v.load \in Greeting => v.state \in {"loading", "failed"} /\ (v.load \in Greeting => v.state = "loading")
  BY DEF Whole, Safe, Load, Greeting
<1>6. v.state = "starting" => (BeginPending(v) => BeginPending(x))
  <2> HAVE v.state = "starting"
  <2> HAVE BeginPending(v)
  <2>1. Head(v.jobs).op \in Sights
    BY <1>4, <1>5
  <2>2. PICK k \in DOMAIN v.jobs : v.jobs[k] = Job("begin", v.run)
    BY DEF BeginPending
  <2>3. k # 1
    BY <1>1, <2>1, <2>2 DEF Job, Sights
  <2>4. k - 1 \in DOMAIN x.jobs /\ x.jobs[k - 1] = Job("begin", x.run)
    BY <1>1, <1>2, <1>3, <2>2, <2>3
  <2> QED BY <2>4 DEF BeginPending
<1>7. Timers(x)
  BY <1>3 DEF Whole, Safe, Timers
<1>8. Seen(x)
  BY <1>1 DEF Seen
<1>9. Machine(x)
  <2>1. ASSUME v.state = "failed", v.load = "no"
        PROVE  \/ ~x.want /\ \A j \in DOMAIN t : t[j].op # "begin"
               \/ \E i \in DOMAIN t : t[i].op = "pause" /\ \A j \in DOMAIN t : j > i => t[j].op # "begin"
    <3>1. ASSUME ~v.want, \A j \in DOMAIN v.jobs : v.jobs[j].op # "begin"
          PROVE  ~x.want /\ \A j \in DOMAIN t : t[j].op # "begin"
      BY <1>1, <3>1
    <3>2. ASSUME NEW i \in DOMAIN v.jobs, v.jobs[i].op = "pause",
                 \A j \in DOMAIN v.jobs : j > i => v.jobs[j].op # "begin"
          PROVE  \/ ~x.want /\ \A j \in DOMAIN t : t[j].op # "begin"
                 \/ i - 1 \in DOMAIN t /\ t[i - 1].op = "pause" /\ \A j \in DOMAIN t : j > i - 1 => t[j].op # "begin"
      <4>1. CASE i = 1
        <5>1. Head(v.jobs).op = "pause"
          BY <1>1, <3>2, <4>1
        <5>2. ~x.want
          BY <5>1 DEF Sights
        <5>3. \A j \in DOMAIN t : t[j].op # "begin"
          BY <1>1, <3>2, <4>1
        <5> QED BY <5>2, <5>3
      <4>2. CASE i # 1
        BY <1>1, <3>2, <4>2
      <4> QED BY <4>1, <4>2
    <3> QED BY <2>1, <3>1, <3>2 DEF Whole, Safe, Machine
  <2>2. /\ x.state \in {"running", "stopping"} => x.want
        /\ x.state = "starting" => x.want \/ BeginPending(x)
        /\ x.state = "parked" \/ x.load = "resume" => ~x.want
    BY <1>3, <1>4, <1>5, <1>6 DEF Whole, Safe, Machine, Greeting, Load
  <2> QED BY <1>2, <1>3, <2>1, <2>2 DEF Whole, Safe, Machine
<1>10. Queue(x)
  <2>1. \A k \in DOMAIN x.jobs : k + 1 \in DOMAIN v.jobs /\ x.jobs[k] = v.jobs[k + 1]
    BY <1>1, <1>2
  <2>2. /\ \A i, j \in DOMAIN x.jobs : x.jobs[i].op \in Settling /\ j > i => x.jobs[j].op \in Sights
        /\ \A i, j \in DOMAIN x.jobs : x.jobs[i].op = "begin" /\ x.jobs[j].op = "begin" => i = j
    BY <1>1, <1>2
  <2>3. Queue(v)
    BY DEF Whole, Safe
  <2> QED BY <1>3, <2>1, <2>2, <2>3 DEF Queue
<1>11. Talk(x)
  BY <1>3 DEF Whole, Safe, Talk
<1>12. Program(x)
  BY <1>3 DEF Whole, Safe, Program
<1>13. Load(x)
  BY <1>3 DEF Whole, Safe, Load
<1>14. Kept(x)
  BY <1>3 DEF Whole, Kept
<1>15. Moving(x)
  BY <1>3, <1>6 DEF Whole, Moving
<1> QED BY <1>7, <1>8, <1>9, <1>10, <1>11, <1>12, <1>13, <1>14, <1>15 DEF Whole, Safe

(* The CPU runs when the machine wants it to and is seen.                   *)
LEMMA CpuIs ==
  ASSUME NEW w \in VmType, NEW x, x = ApplyCpu(w)
  PROVE  /\ x \in VmType /\ x.want = w.want /\ x.cpu = (w.want /\ w.shown) /\ x.shown = w.shown /\ x.visible = w.visible
         /\ SamePhase(x, w) /\ SameRuns(x, w) /\ SameJobs(x, w) /\ SameLine(x, w) /\ SameLoad(x, w) /\ SameTimers(x, w)
<1> DEFINE c == w.want /\ w.shown
<1>1. x \in VmType
  BY ApplyCpuType
<1>2. x = [w EXCEPT !.cpu = c]
  BY DEF ApplyCpu
<1>3. x.cpu = c
  BY <1>2 DEF VmType
<1> HIDE DEF c
<1>4. x.want = w.want /\ x.shown = w.shown /\ x.visible = w.visible
  BY <1>2 DEF VmType
<1>5. SamePhase(x, w) /\ SameRuns(x, w) /\ SameJobs(x, w) /\ SameLine(x, w) /\ SameLoad(x, w) /\ SameTimers(x, w)
  BY <1>2 DEF VmType, SamePhase, SameRuns, SameJobs, SameLine, SameLoad, SameTimers
<1> QED BY <1>1, <1>3, <1>4, <1>5 DEF c

(* The CPU is asked for, or not, and does as it is asked.                   *)
LEMMA WantIs ==
  ASSUME NEW v \in VmType, NEW b \in BOOLEAN, NEW x, x = ApplyCpu([v EXCEPT !.want = b])
  PROVE  /\ x \in VmType /\ x.want = b /\ x.cpu = (b /\ v.shown) /\ x.shown = v.shown /\ x.visible = v.visible
         /\ SamePhase(x, v) /\ SameRuns(x, v) /\ SameJobs(x, v) /\ SameLine(x, v) /\ SameLoad(x, v) /\ SameTimers(x, v)
<1> DEFINE w == [v EXCEPT !.want = b]
<1>1. /\ w \in VmType /\ w.want = b /\ w.shown = v.shown /\ w.visible = v.visible
      /\ SamePhase(w, v) /\ SameRuns(w, v) /\ SameJobs(w, v) /\ SameLine(w, v) /\ SameLoad(w, v) /\ SameTimers(w, v)
  <2>1. w \in VmType
    BY Updates
  <2> QED BY <2>1 DEF VmType, SamePhase, SameRuns, SameJobs, SameLine, SameLoad, SameTimers
<1>2. x = ApplyCpu(w)
  OBVIOUS
<1> HIDE DEF w
<1>3. x \in VmType /\ x.want = w.want /\ x.cpu = (w.want /\ w.shown) /\ x.shown = w.shown /\ x.visible = w.visible
      /\ SamePhase(x, w) /\ SameRuns(x, w) /\ SameJobs(x, w) /\ SameLine(x, w) /\ SameLoad(x, w) /\ SameTimers(x, w)
  BY <1>1, <1>2, CpuIs
<1> QED BY <1>1, <1>3, SameAgain

(* The machine hears that the page is seen, or not.                         *)
LEMMA ShownIs ==
  ASSUME NEW v \in VmType, NEW b \in BOOLEAN, NEW x, x = ApplyCpu([v EXCEPT !.shown = b])
  PROVE  /\ x \in VmType /\ x.shown = b /\ x.cpu = (v.want /\ b) /\ x.want = v.want /\ x.visible = v.visible
         /\ SamePhase(x, v) /\ SameRuns(x, v) /\ SameJobs(x, v) /\ SameLine(x, v) /\ SameLoad(x, v) /\ SameTimers(x, v)
<1> DEFINE w == [v EXCEPT !.shown = b]
<1>1. /\ w \in VmType /\ w.shown = b /\ w.want = v.want /\ w.visible = v.visible
      /\ SamePhase(w, v) /\ SameRuns(w, v) /\ SameJobs(w, v) /\ SameLine(w, v) /\ SameLoad(w, v) /\ SameTimers(w, v)
  <2>1. w \in VmType
    BY Updates
  <2> QED BY <2>1 DEF VmType, SamePhase, SameRuns, SameJobs, SameLine, SameLoad, SameTimers
<1>2. x = ApplyCpu(w)
  OBVIOUS
<1> HIDE DEF w
<1>3. x \in VmType /\ x.want = w.want /\ x.cpu = (w.want /\ w.shown) /\ x.shown = w.shown /\ x.visible = w.visible
      /\ SamePhase(x, w) /\ SameRuns(x, w) /\ SameJobs(x, w) /\ SameLine(x, w) /\ SameLoad(x, w) /\ SameTimers(x, w)
  BY <1>1, <1>2, CpuIs
<1> QED BY <1>1, <1>3, SameAgain

(* HELLO is sent, and its purpose kept under its id.                       *)
LEMMA HelloIs ==
  ASSUME NEW v \in VmType, NEW purpose \in Purposes, NEW x, x = Hello(v, purpose)
  PROVE  /\ x \in VmType /\ x.line = Append(v.line, [type |-> "HELLO", id |-> NextId(v)]) /\ NextId(v) \in Ids
         /\ x.hellos[NextId(v)] = purpose /\ \A i \in Ids : i # NextId(v) => x.hellos[i] = v.hellos[i]
         /\ x.prog = v.prog /\ x.ran = v.ran
         /\ SamePhase(x, v) /\ SameRuns(x, v) /\ SameJobs(x, v) /\ SameCpu(x, v) /\ SameLoad(x, v) /\ SameTimers(x, v)
<1> DEFINE id == NextId(v)
           h == [v.hellos EXCEPT ![id] = purpose]
           l == Append(v.line, [type |-> "HELLO", id |-> id])
           w == [v EXCEPT !.hellos = h]
<1>1. x \in VmType /\ id \in Ids
  BY HelloType, NextIdType
<1>2. v.hellos \in [Ids -> Purposes \cup {"none"}]
  BY Fields
<1> HIDE DEF id
<1>3. x = [w EXCEPT !.line = l]
  BY DEF Hello, Send, VmType, id
<1>4. h[id] = purpose /\ \A i \in Ids : i # id => h[i] = v.hellos[i]
  BY <1>1, <1>2
<1> HIDE DEF h, l
<1>5. /\ x.line = l /\ x.hellos = h /\ x.prog = v.prog /\ x.ran = v.ran
      /\ SamePhase(x, v) /\ SameRuns(x, v) /\ SameJobs(x, v) /\ SameCpu(x, v) /\ SameLoad(x, v) /\ SameTimers(x, v)
  BY <1>3 DEF VmType, SamePhase, SameRuns, SameJobs, SameCpu, SameLoad, SameTimers
<1> QED BY <1>1, <1>4, <1>5 DEF id, l

(* A question to the agent of a machine in use.                            *)
LEMMA AsksSafely ==
  ASSUME NEW v \in VmType, Safe(v), v.load = "no", v.state # "parked", NEW x \in VmType,
         x.load = v.load, x.state = v.state, x.phase = v.phase, x.run = v.run, x.ended = v.ended,
         x.prog = v.prog, x.ran = v.ran,
         NEW m \in [type : Frames, id : Nat], m.type \in {"HELLO", "PING"}, m.id \in Ids,
         x.line = Append(v.line, m),
         \A i \in Ids : x.hellos[i] \in {v.hellos[i], "run", "clock"}
  PROVE  Talk(x) /\ Program(x)
<1>1. v.line \in Seq([type : Frames, id : Nat])
  BY Fields
<1>2. /\ DOMAIN x.line = DOMAIN v.line \cup {Len(v.line) + 1} /\ x.line[Len(v.line) + 1] = m
      /\ \A i \in DOMAIN v.line : i \in Nat /\ i < Len(v.line) + 1 /\ x.line[i] = v.line[i]
  BY <1>1, AppendIs
<1>3. \A k \in DOMAIN x.line : x.line[k] = m \/ (k \in DOMAIN v.line /\ x.line[k] = v.line[k])
  BY <1>2
<1>4. Talk(x)
  <2>1. \A k \in DOMAIN x.line : x.line[k].type \in {"HELLO", "PING"} => x.line[k].id \in Ids
    BY <1>3 DEF Safe, Talk
  <2>2. \A i \in Ids : x.hellos[i] # "load"
    BY DEF Safe, Talk
  <2> QED BY <2>1, <2>2 DEF Talk
<1>5. Program(x)
  <2>1. \A k \in DOMAIN x.line : x.line[k].type = "RUN" => k \in DOMAIN v.line /\ x.line[k] = v.line[k]
    BY <1>3
  <2> QED BY <2>1 DEF Safe, Program
<1> QED BY <1>4, <1>5

(* A step on which nothing is reported.                                    *)
LEMMA Silent ==
  ASSUME NEW v, NEW x, SameRuns(x, v), x.state = v.state
  PROVE  Goes(v, x)
BY DEF SameRuns, Goes, Leaves

LEMMA PauseJobKeeps ==
  ASSUME Whole(vm), PauseJob, NEW x, x = vm'
  PROVE  Whole(x) /\ Goes(vm, x)
<1> DEFINE y == JobDone
<1>0. vm \in VmType /\ Safe(vm) /\ vm.jobs # << >> /\ Head(vm.jobs).op = "pause"
  BY DEF PauseJob, NextJob, Whole, Safe
<1>1. /\ y \in VmType /\ y.jobs = Tail(vm.jobs) /\ y.built = vm.built
      /\ SamePhase(y, vm) /\ SameRuns(y, vm) /\ SameCpu(y, vm) /\ SameLine(y, vm) /\ SameLoad(y, vm)
      /\ SameTimers(y, vm)
  BY <1>0, JobDoneIs
<1>2. x = ApplyCpu([y EXCEPT !.want = FALSE])
  BY DEF PauseJob
<1> HIDE DEF y
<1>3. /\ x \in VmType /\ x.want = FALSE /\ x.cpu = (FALSE /\ y.shown) /\ x.shown = y.shown /\ x.visible = y.visible
      /\ SamePhase(x, y) /\ SameRuns(x, y) /\ SameJobs(x, y) /\ SameLine(x, y) /\ SameLoad(x, y) /\ SameTimers(x, y)
  BY <1>1, <1>2, WantIs
<1>4. /\ SamePhase(x, vm) /\ SameRuns(x, vm) /\ SameLine(x, vm) /\ SameLoad(x, vm) /\ SameTimers(x, vm)
      /\ x.jobs = Tail(vm.jobs) /\ x.built = vm.built /\ x.visible = vm.visible /\ x.shown = vm.shown
  <2>1. x.jobs = Tail(vm.jobs) /\ x.built = vm.built /\ x.visible = vm.visible /\ x.shown = vm.shown
    BY <1>1, <1>3 DEF SameJobs, SameCpu
  <2> QED BY <1>1, <1>3, <2>1, SameAgain
<1>5. InSight(x.jobs, x.shown, x.visible)
  <2>1. /\ vm.jobs \in Seq(JobType) /\ vm.shown \in BOOLEAN /\ vm.visible \in BOOLEAN
        /\ InSight(vm.jobs, vm.shown, vm.visible)
    BY <1>0, JobsAre, Fields DEF Safe, Seen
  <2>2. InSight(Tail(vm.jobs), vm.shown, vm.visible)
    BY <1>0, <2>1, SightTail DEF Sights
  <2> QED BY <1>4, <2>2
<1>6. Whole(x)
  <2>1. x.cpu = (x.want /\ x.shown)
    BY <1>3
  <2> QED BY <1>0, <1>3, <1>4, <1>5, <2>1, JobTaken
<1> QED BY <1>4, <1>6, Silent DEF SamePhase

LEMMA HideJobKeeps ==
  ASSUME Whole(vm), HideJob, NEW x, x = vm'
  PROVE  Whole(x) /\ Goes(vm, x)
<1> DEFINE y == JobDone
<1>0. vm \in VmType /\ Safe(vm) /\ vm.jobs # << >> /\ Head(vm.jobs).op = "hide"
  BY DEF HideJob, NextJob, Whole, Safe
<1>1. /\ y \in VmType /\ y.jobs = Tail(vm.jobs) /\ y.built = vm.built
      /\ SamePhase(y, vm) /\ SameRuns(y, vm) /\ SameCpu(y, vm) /\ SameLine(y, vm) /\ SameLoad(y, vm)
      /\ SameTimers(y, vm)
  BY <1>0, JobDoneIs
<1>2. x = ApplyCpu([y EXCEPT !.shown = FALSE])
  BY DEF HideJob
<1> HIDE DEF y
<1>3. /\ x \in VmType /\ x.shown = FALSE /\ x.cpu = (y.want /\ FALSE) /\ x.want = y.want /\ x.visible = y.visible
      /\ SamePhase(x, y) /\ SameRuns(x, y) /\ SameJobs(x, y) /\ SameLine(x, y) /\ SameLoad(x, y) /\ SameTimers(x, y)
  BY <1>1, <1>2, ShownIs
<1>4. /\ SamePhase(x, vm) /\ SameRuns(x, vm) /\ SameLine(x, vm) /\ SameLoad(x, vm) /\ SameTimers(x, vm)
      /\ x.jobs = Tail(vm.jobs) /\ x.built = vm.built /\ x.visible = vm.visible /\ x.want = vm.want
  <2>1. x.jobs = Tail(vm.jobs) /\ x.built = vm.built /\ x.visible = vm.visible /\ x.want = vm.want
    BY <1>1, <1>3 DEF SameJobs, SameCpu
  <2> QED BY <1>1, <1>3, <2>1, SameAgain
<1>5. InSight(x.jobs, x.shown, x.visible)
  <2>1. /\ vm.jobs \in Seq(JobType) /\ vm.shown \in BOOLEAN /\ vm.visible \in BOOLEAN
        /\ InSight(vm.jobs, vm.shown, vm.visible)
    BY <1>0, JobsAre, Fields DEF Safe, Seen
  <2>2. InSight(Tail(vm.jobs), FALSE, vm.visible)
    BY <1>0, <2>1, SightTail
  <2> QED BY <1>3, <1>4, <2>2
<1>6. Whole(x)
  <2>1. x.cpu = (x.want /\ x.shown) /\ Head(vm.jobs).op \in Sights
    BY <1>0, <1>3 DEF Sights
  <2> QED BY <1>0, <1>3, <1>4, <1>5, <2>1, JobTaken
<1> QED BY <1>4, <1>6, Silent DEF SamePhase

(* The clock's HELLO changes nothing else.                                 *)
LEMMA ClockKeeps ==
  ASSUME NEW v \in VmType, Whole(v), v.state \in {"starting", "running", "stopping"},
         NEW x, x = Hello(v, "clock")
  PROVE  Whole(x) /\ SameRuns(x, v) /\ x.state = v.state
<1> DEFINE m == [type |-> "HELLO", id |-> NextId(v)]
<1>0. Safe(v) /\ v.load = "no" /\ "clock" \in Purposes
  BY InHand DEF Whole, Purposes
<1>1. /\ x \in VmType /\ x.line = Append(v.line, m) /\ NextId(v) \in Ids
      /\ x.hellos[NextId(v)] = "clock" /\ \A i \in Ids : i # NextId(v) => x.hellos[i] = v.hellos[i]
      /\ x.prog = v.prog /\ x.ran = v.ran
      /\ SamePhase(x, v) /\ SameRuns(x, v) /\ SameJobs(x, v) /\ SameCpu(x, v) /\ SameLoad(x, v) /\ SameTimers(x, v)
  BY <1>0, HelloIs
<1>2. m \in [type : Frames, id : Nat] /\ m.type = "HELLO" /\ m.id \in Ids
  BY <1>1, IdsAssumption DEF Frames
<1> HIDE DEF m
<1>3. /\ x.state = v.state /\ x.phase = v.phase
      /\ x.accepted = v.accepted /\ x.run = v.run /\ x.queued = v.queued
      /\ x.ended = v.ended /\ x.starts = v.starts /\ x.jobs = v.jobs /\ x.built = v.built
      /\ x.want = v.want /\ x.shown = v.shown /\ x.cpu = v.cpu /\ x.visible = v.visible
      /\ x.loading = v.loading /\ x.load = v.load /\ x.told = v.told
      /\ x.stopTimer = v.stopTimer /\ x.orphans = v.orphans /\ x.deadline = v.deadline
      /\ x.park = v.park /\ x.pingId = v.pingId /\ x.writing = v.writing
  BY <1>1 DEF SamePhase, SameRuns, SameJobs, SameCpu, SameLoad, SameTimers
<1>4. \A i \in Ids : x.hellos[i] \in {v.hellos[i], "clock"}
  BY <1>1
<1>5. Talk(x) /\ Program(x)
  BY <1>0, <1>1, <1>2, <1>3, <1>4, AsksSafely
<1>6. Timers(x) /\ Seen(x)
  BY <1>3 DEF Whole, Safe, Timers, Seen
<1>7. Machine(x)
  BY <1>1, <1>3 DEF Whole, Safe, Machine, BeginPending
<1>8. Queue(x)
  BY <1>3, <1>4 DEF Whole, Safe, Queue
<1>9. Load(x)
  BY <1>3 DEF Whole, Safe, Load
<1>10. Kept(x)
  BY <1>3 DEF Whole, Kept
<1>11. Moving(x)
  BY <1>1, <1>3 DEF Whole, Moving, BeginPending
<1> QED BY <1>1, <1>3, <1>5, <1>6, <1>7, <1>8, <1>9, <1>10, <1>11 DEF Whole, Safe

LEMMA ShowJobKeeps ==
  ASSUME Whole(vm), ShowJob, NEW x, x = vm'
  PROVE  Whole(x) /\ Goes(vm, x)
<1> DEFINE y == JobDone
           w == ApplyCpu([y EXCEPT !.shown = TRUE])
<1>0. vm \in VmType /\ Safe(vm) /\ vm.jobs # << >> /\ Head(vm.jobs).op = "show"
  BY DEF ShowJob, NextJob, Whole, Safe
<1>1. /\ y \in VmType /\ y.jobs = Tail(vm.jobs) /\ y.built = vm.built
      /\ SamePhase(y, vm) /\ SameRuns(y, vm) /\ SameCpu(y, vm) /\ SameLine(y, vm) /\ SameLoad(y, vm)
      /\ SameTimers(y, vm)
  BY <1>0, JobDoneIs
<1>2. x = IF w.visible /\ w.cpu /\ w.state \in {"starting", "running", "stopping"} THEN Hello(w, "clock") ELSE w
  BY DEF ShowJob
<1>3. /\ w \in VmType /\ w.shown = TRUE /\ w.cpu = (y.want /\ TRUE) /\ w.want = y.want /\ w.visible = y.visible
      /\ SamePhase(w, y) /\ SameRuns(w, y) /\ SameJobs(w, y) /\ SameLine(w, y) /\ SameLoad(w, y) /\ SameTimers(w, y)
  <2> HIDE DEF y
  <2> QED BY <1>1, ShownIs
<1> HIDE DEF w, y
<1>4. /\ SamePhase(w, vm) /\ SameRuns(w, vm) /\ SameLine(w, vm) /\ SameLoad(w, vm) /\ SameTimers(w, vm)
      /\ w.jobs = Tail(vm.jobs) /\ w.built = vm.built /\ w.visible = vm.visible /\ w.want = vm.want
  <2>1. w.jobs = Tail(vm.jobs) /\ w.built = vm.built /\ w.visible = vm.visible /\ w.want = vm.want
    BY <1>1, <1>3 DEF SameJobs, SameCpu
  <2> QED BY <1>1, <1>3, <2>1, SameAgain
<1>5. InSight(w.jobs, w.shown, w.visible)
  <2>1. /\ vm.jobs \in Seq(JobType) /\ vm.shown \in BOOLEAN /\ vm.visible \in BOOLEAN
        /\ InSight(vm.jobs, vm.shown, vm.visible)
    BY <1>0, JobsAre, Fields DEF Safe, Seen
  <2>2. InSight(Tail(vm.jobs), TRUE, vm.visible)
    BY <1>0, <2>1, SightTail
  <2> QED BY <1>3, <1>4, <2>2
<1>6. Whole(w)
  <2>1. w.cpu = (w.want /\ w.shown) /\ Head(vm.jobs).op \in Sights
    BY <1>0, <1>3 DEF Sights
  <2> QED BY <1>0, <1>3, <1>4, <1>5, <2>1, JobTaken
<1>7. Whole(x) /\ SameRuns(x, w) /\ x.state = w.state
  <2>1. w.state \in {"starting", "running", "stopping"} => \A z : z = Hello(w, "clock") => Whole(z) /\ SameRuns(z, w) /\ z.state = w.state
    BY <1>3, <1>6, ClockKeeps
  <2>2. SameRuns(w, w)
    BY DEF SameRuns
  <2> QED BY <1>2, <1>6, <2>1, <2>2
<1>8. SameRuns(x, vm) /\ x.state = vm.state
  BY <1>4, <1>7, SameAgain DEF SamePhase
<1> QED BY <1>7, <1>8, Silent

(* The machine resumes for a run: HELLO is sent, and its answer waited for. *)
LEMMA BeginJobKeeps ==
  ASSUME Whole(vm), BeginJob, NEW x, x = vm'
  PROVE  Whole(x) /\ Goes(vm, x)
<1> DEFINE y == JobDone
           w == ApplyCpu([y EXCEPT !.want = TRUE])
           r == Head(vm.jobs).run
<1>0. vm \in VmType /\ Safe(vm) /\ vm.jobs # << >> /\ Head(vm.jobs).op = "begin"
  BY DEF BeginJob, NextJob, Whole, Safe
<1>1. /\ y \in VmType /\ y.jobs = Tail(vm.jobs) /\ y.built = vm.built
      /\ SamePhase(y, vm) /\ SameRuns(y, vm) /\ SameCpu(y, vm) /\ SameLine(y, vm) /\ SameLoad(y, vm)
      /\ SameTimers(y, vm)
  BY <1>0, JobDoneIs
<1>2. x = IF w.run # r \/ w.ended[r] # "no"
          THEN w
          ELSE Arm([Hello(w, "run") EXCEPT !.helloId = NextId(w)], "HELLO")
  BY DEF BeginJob
<1>3. /\ w \in VmType /\ w.want = TRUE /\ w.cpu = (TRUE /\ y.shown) /\ w.shown = y.shown /\ w.visible = y.visible
      /\ SamePhase(w, y) /\ SameRuns(w, y) /\ SameJobs(w, y) /\ SameLine(w, y) /\ SameLoad(w, y) /\ SameTimers(w, y)
  <2> HIDE DEF y
  <2> QED BY <1>1, WantIs
<1> HIDE DEF w, y
<1>4. /\ SamePhase(w, vm) /\ SameRuns(w, vm) /\ SameLine(w, vm) /\ SameLoad(w, vm) /\ SameTimers(w, vm)
      /\ w.jobs = Tail(vm.jobs) /\ w.built = vm.built /\ w.visible = vm.visible /\ w.shown = vm.shown
  <2>1. w.jobs = Tail(vm.jobs) /\ w.built = vm.built /\ w.visible = vm.visible /\ w.shown = vm.shown
    BY <1>1, <1>3 DEF SameJobs, SameCpu
  <2> QED BY <1>1, <1>3, <2>1, SameAgain
<1>5. InSight(w.jobs, w.shown, w.visible)
  <2>1. /\ vm.jobs \in Seq(JobType) /\ vm.shown \in BOOLEAN /\ vm.visible \in BOOLEAN
        /\ InSight(vm.jobs, vm.shown, vm.visible)
    BY <1>0, JobsAre, Fields DEF Safe, Seen
  <2>2. InSight(Tail(vm.jobs), vm.shown, vm.visible)
    BY <1>0, <2>1, SightTail DEF Sights
  <2> QED BY <1>4, <2>2
<1>6. /\ vm.built /\ 1 \in DOMAIN vm.jobs /\ Head(vm.jobs) = vm.jobs[1] /\ r \in 0 .. MaxRuns
      /\ \A k \in DOMAIN w.jobs : k + 1 \in DOMAIN vm.jobs /\ w.jobs[k] = vm.jobs[k + 1]
      /\ \A k \in DOMAIN w.jobs : w.jobs[k].op # "begin"
      /\ \A i, j \in DOMAIN w.jobs : w.jobs[i].op \in Settling /\ j > i => w.jobs[j].op \in Sights
  <2>1. PICK t : t = Tail(vm.jobs)
    OBVIOUS
  <2>2. /\ vm.built /\ 1 \in DOMAIN vm.jobs /\ Head(vm.jobs) = vm.jobs[1] /\ r \in 0 .. MaxRuns
        /\ \A k \in DOMAIN t : k + 1 \in DOMAIN vm.jobs /\ t[k] = vm.jobs[k + 1]
        /\ \A k \in DOMAIN t : t[k].op # "begin"
        /\ \A i, j \in DOMAIN t : t[i].op \in Settling /\ j > i => t[j].op \in Sights
    <3>1. vm.built /\ 1 \in DOMAIN vm.jobs /\ Head(vm.jobs) = vm.jobs[1] /\ r \in 0 .. MaxRuns
      BY <1>0, <2>1, RestIs
    <3>2. \A k \in DOMAIN t : k + 1 \in DOMAIN vm.jobs /\ t[k] = vm.jobs[k + 1]
      BY <1>0, <2>1, RestIs
    <3>3. \A k \in DOMAIN t : t[k].op # "begin"
      BY <1>0, <2>1, RestIs
    <3>4. \A i, j \in DOMAIN t : t[i].op \in Settling /\ j > i => t[j].op \in Sights
      BY <1>0, <2>1, RestIs
    <3> QED BY <3>1, <3>2, <3>3, <3>4
  <2>3. w.jobs = t
    BY <1>4, <2>1
  <2> QED BY <2>2, <2>3
<1>7. /\ r # None
      /\ \/ vm.state = "failed" \/ vm.load = "bundle"
         \/ vm.state = "parking" /\ vm.ended[vm.run] # "no"
         \/ vm.state = "starting" /\ r = vm.run /\ vm.phase[vm.run] = "hello" /\ vm.deadline = "off"
  BY <1>0, <1>6 DEF Safe, Queue
<1> HIDE DEF r
<1>8. CASE vm.state # "starting"
  <2>1. w.run # r \/ w.ended[r] # "no"
    BY <1>0, <1>4, <1>7, <1>8 DEF SameRuns, Safe, Timers, Load, Active
  <2>2. x = w
    BY <1>2, <2>1
  <2>3. x.cpu = (x.want /\ x.shown) /\ x.want
    BY <1>3, <2>2
  <2>4. Whole(x)
    BY <1>0, <1>3, <1>4, <1>5, <1>8, <2>2, <2>3, JobTaken
  <2> QED BY <1>4, <2>2, <2>4, Silent DEF SamePhase
<1>9. CASE vm.state = "starting"
  <2>0. vm.run = r /\ vm.phase[r] = "hello" /\ vm.deadline = "off" /\ vm.ended[r] = "no" /\ vm.load = "no" /\ vm.ran = 0
    <3>1. vm.load = "no"
      BY <1>0, <1>9, InHand
    <3>2. vm.run = r /\ vm.phase[r] = "hello" /\ vm.deadline = "off"
      BY <1>7, <1>9, <3>1
    <3> QED BY <1>9, <3>1, <3>2 DEF Whole, Kept, Moving
  <2> DEFINE h == Hello(w, "run")
             m == [type |-> "HELLO", id |-> NextId(w)]
             g == [h EXCEPT !.helloId = NextId(w)]
  <2>1. x = Arm(g, "HELLO")
    BY <1>2, <1>4, <2>0 DEF SameRuns
  <2>2. /\ h \in VmType /\ h.line = Append(w.line, m) /\ NextId(w) \in Ids
        /\ h.hellos[NextId(w)] = "run" /\ \A i \in Ids : i # NextId(w) => h.hellos[i] = w.hellos[i]
        /\ h.prog = w.prog /\ h.ran = w.ran
        /\ SamePhase(h, w) /\ SameRuns(h, w) /\ SameJobs(h, w) /\ SameCpu(h, w) /\ SameLoad(h, w) /\ SameTimers(h, w)
    <3>1. "run" \in Purposes /\ w \in VmType
      BY <1>3 DEF Purposes
    <3> QED BY <3>1, HelloIs
  <2>3. m \in [type : Frames, id : Nat] /\ m.type = "HELLO" /\ m.id \in Ids
    BY <2>2, IdsAssumption DEF Frames
  <2> HIDE DEF h, m
  <2>4. /\ x.deadline = "HELLO" /\ x.stopTimer = h.stopTimer /\ x.orphans = h.orphans
        /\ x.park = h.park /\ x.pingId = h.pingId /\ x.writing = h.writing
        /\ SamePhase(x, h) /\ SameRuns(x, h) /\ SameJobs(x, h) /\ SameCpu(x, h) /\ SameLine(x, h) /\ SameLoad(x, h)
    <3>1. x = [h EXCEPT !.helloId = NextId(w), !.deadline = "HELLO"] /\ h \in VmType
      BY <2>1, <2>2 DEF Arm
    <3> QED BY <3>1 DEF VmType, SamePhase, SameRuns, SameJobs, SameCpu, SameLine, SameLoad
  <2>5. x \in VmType
    BY StepType DEF HostStep, MachineStep
  <2>6. /\ x.state = vm.state /\ x.phase = vm.phase
        /\ x.accepted = vm.accepted /\ x.run = vm.run /\ x.queued = vm.queued
        /\ x.ended = vm.ended /\ x.starts = vm.starts /\ x.jobs = w.jobs /\ x.built = vm.built
        /\ x.want = TRUE /\ x.shown = w.shown /\ x.cpu = w.cpu /\ x.visible = w.visible
        /\ x.loading = vm.loading /\ x.load = vm.load /\ x.told = vm.told
        /\ x.stopTimer = vm.stopTimer /\ x.orphans = vm.orphans
        /\ x.park = vm.park /\ x.pingId = vm.pingId /\ x.writing = vm.writing
        /\ x.prog = vm.prog /\ x.ran = vm.ran /\ x.line = Append(vm.line, m)
        /\ \A i \in Ids : x.hellos[i] \in {vm.hellos[i], "run"}
    <3>1. /\ h.state = vm.state /\ h.phase = vm.phase
          /\ h.accepted = vm.accepted /\ h.run = vm.run /\ h.queued = vm.queued
          /\ h.ended = vm.ended /\ h.starts = vm.starts /\ h.jobs = w.jobs /\ h.built = vm.built
          /\ h.want = TRUE /\ h.shown = w.shown /\ h.cpu = w.cpu /\ h.visible = w.visible
          /\ h.loading = vm.loading /\ h.load = vm.load /\ h.told = vm.told
          /\ h.stopTimer = vm.stopTimer /\ h.orphans = vm.orphans
          /\ h.park = vm.park /\ h.pingId = vm.pingId /\ h.writing = vm.writing
      BY <1>3, <1>4, <2>2 DEF SamePhase, SameRuns, SameJobs, SameCpu, SameLoad, SameTimers
    <3>2. /\ h.prog = vm.prog /\ h.ran = vm.ran /\ h.line = Append(vm.line, m)
          /\ \A i \in Ids : h.hellos[i] \in {vm.hellos[i], "run"}
      BY <1>4, <2>2 DEF SameLine
    <3> QED BY <2>4, <3>1, <3>2 DEF SamePhase, SameRuns, SameJobs, SameCpu, SameLoad, SameTimers, SameLine
  <2>7. Timers(x)
    BY <1>9, <2>4, <2>6 DEF Whole, Safe, Timers, Load
  <2>8. Seen(x)
    <3>1. x.cpu = (x.want /\ x.shown)
      BY <1>3, <2>6
    <3> QED BY <1>5, <1>6, <2>6, <3>1 DEF Seen
  <2>9. Machine(x)
    BY <1>9, <2>0, <2>6 DEF Whole, Safe, Machine
  <2>10. Queue(x)
    <3>1. Queue(vm)
      BY <1>0 DEF Safe
    <3> QED BY <1>6, <2>6, <3>1 DEF Queue
  <2>11. Talk(x) /\ Program(x)
    BY <1>0, <1>9, <2>0, <2>3, <2>5, <2>6, AsksSafely
  <2>12. Load(x) /\ Kept(x)
    BY <2>6 DEF Whole, Safe, Load, Kept
  <2>13. Moving(x)
    BY <1>9, <2>0, <2>4, <2>6 DEF Moving
  <2>14. Whole(x)
    BY <2>5, <2>7, <2>8, <2>9, <2>10, <2>11, <2>12, <2>13 DEF Whole, Safe
  <2> QED BY <2>6, <2>14, Silent DEF SameRuns
<1> QED BY <1>8, <1>9

-----------------------------------------------------------------------------
(* Loading and parking, operation by operation.                            *)

LEMMA EnqueueIs ==
  ASSUME NEW v \in VmType, NEW op \in Ops, NEW r \in 0 .. MaxRuns, NEW x, x = Enqueue(v, op, r)
  PROVE  /\ x \in VmType /\ x.jobs = Append(v.jobs, Job(op, r)) /\ x.built = v.built
         /\ SamePhase(x, v) /\ SameRuns(x, v) /\ SameCpu(x, v) /\ SameLine(x, v) /\ SameLoad(x, v)
         /\ SameTimers(x, v)
<1> DEFINE j == Append(v.jobs, Job(op, r))
<1>1. x \in VmType
  BY EnqueueType
<1>2. x = [v EXCEPT !.jobs = j]
  BY DEF Enqueue
<1> HIDE DEF j
<1>3. x.jobs = j /\ x.built = v.built
  BY <1>2 DEF VmType
<1>4. /\ SamePhase(x, v) /\ SameRuns(x, v) /\ SameCpu(x, v) /\ SameLine(x, v) /\ SameLoad(x, v)
      /\ SameTimers(x, v)
  BY <1>2 DEF VmType, SamePhase, SameRuns, SameCpu, SameLine, SameLoad, SameTimers
<1> QED BY <1>1, <1>3, <1>4 DEF j

LEMMA ResetLineIs ==
  ASSUME NEW v \in VmType, NEW x, x = ResetLine(v)
  PROVE  /\ x \in VmType /\ x.hellos = NoHellos /\ x.line = << >> /\ x.pingId = 0
         /\ x.prog = v.prog /\ x.ran = v.ran
         /\ x.stopTimer = v.stopTimer /\ x.orphans = v.orphans /\ x.deadline = v.deadline
         /\ x.park = v.park /\ x.writing = v.writing
         /\ SamePhase(x, v) /\ SameRuns(x, v) /\ SameJobs(x, v) /\ SameCpu(x, v) /\ SameLoad(x, v)
<1>1. x \in VmType
  BY ResetLineType
<1>2. /\ x.hellos = NoHellos /\ x.line = << >> /\ x.pingId = 0
      /\ x.prog = v.prog /\ x.ran = v.ran
      /\ x.stopTimer = v.stopTimer /\ x.orphans = v.orphans /\ x.deadline = v.deadline
      /\ x.park = v.park /\ x.writing = v.writing
  BY DEF ResetLine, AbandonHellos, VmType
<1>3. SamePhase(x, v) /\ SameRuns(x, v) /\ SameJobs(x, v) /\ SameCpu(x, v) /\ SameLoad(x, v)
  BY DEF ResetLine, AbandonHellos, VmType, SamePhase, SameRuns, SameJobs, SameCpu, SameLoad
<1> QED BY <1>1, <1>2, <1>3

LEMMA RestoredIs ==
  ASSUME NEW v \in VmType, NEW x, x = Restored(v)
  PROVE  /\ x \in VmType /\ ~x.want /\ ~x.cpu /\ x.prog = None /\ x.line = << >> /\ x.ran = 0
         /\ x.hellos = v.hellos /\ x.shown = v.shown /\ x.visible = v.visible
         /\ SamePhase(x, v) /\ SameRuns(x, v) /\ SameJobs(x, v) /\ SameLoad(x, v) /\ SameTimers(x, v)
<1>1. x \in VmType
  BY RestoredType
<1>2. /\ ~x.want /\ ~x.cpu /\ x.prog = None /\ x.line = << >> /\ x.ran = 0
      /\ x.hellos = v.hellos /\ x.shown = v.shown /\ x.visible = v.visible
  BY DEF Restored, VmType
<1>3. SamePhase(x, v) /\ SameRuns(x, v) /\ SameJobs(x, v) /\ SameLoad(x, v) /\ SameTimers(x, v)
  BY DEF Restored, VmType, SamePhase, SameRuns, SameJobs, SameLoad, SameTimers
<1> QED BY <1>1, <1>2, <1>3

LEMMA LoadIs ==
  ASSUME NEW v \in VmType, NEW l \in {"no", "bundle", "build", "restore", "resume", "greet", "pause"},
         NEW x, x = [v EXCEPT !.load = l]
  PROVE  /\ x \in VmType /\ x.load = l /\ x.loading = v.loading /\ x.told = v.told
         /\ SamePhase(x, v) /\ SameRuns(x, v) /\ SameJobs(x, v) /\ SameCpu(x, v) /\ SameLine(x, v) /\ SameTimers(x, v)
<1>1. x \in VmType
  BY Updates
<1>2. x.load = l /\ x.loading = v.loading /\ x.told = v.told
  BY DEF VmType
<1>3. SamePhase(x, v) /\ SameRuns(x, v) /\ SameJobs(x, v) /\ SameCpu(x, v) /\ SameLine(x, v) /\ SameTimers(x, v)
  BY DEF VmType, SamePhase, SameRuns, SameJobs, SameCpu, SameLine, SameTimers
<1> QED BY <1>1, <1>2, <1>3

(* What a load or a park awaits comes last but for the page's sights.       *)
LEMMA AwaitedQueues ==
  ASSUME NEW v \in VmType, InSight(v.jobs, v.shown, v.visible), NEW x \in VmType,
         \A i, j \in DOMAIN v.jobs : v.jobs[i].op = "begin" /\ v.jobs[j].op = "begin" => i = j,
         \A k \in DOMAIN v.jobs :
           \/ v.jobs[k].op \in Sights
           \/ v.jobs[k].op = "begin" /\ v.jobs[k].run # None /\ x.state = "parking" /\ x.ended[x.run] # "no",
         NEW op \in Settling, x.jobs = Append(v.jobs, Job(op, None)),
         /\ op = "loadRestore" => x.load = "restore"
         /\ op = "loadResume" => x.load = "resume"
         /\ op = "loadPause" => x.load = "pause"
         /\ op = "parkRestore" => x.park = "restore"
  PROVE  Queue(x) /\ InSight(x.jobs, v.shown, v.visible)
<1> DEFINE job == Job(op, None)
<1>1. v.jobs \in Seq(JobType) /\ v.shown \in BOOLEAN /\ v.visible \in BOOLEAN /\ Len(v.jobs) \in Nat
  BY JobsAre, Fields
<1>2. job \in JobType /\ job.op = op /\ job.op \notin Sights
  BY AssumeTypes DEF Job, JobType, Settling, Sights, Ops
<1> HIDE DEF job
<1>3. x.jobs = Append(v.jobs, job)
  BY DEF job
<1>4. /\ DOMAIN x.jobs = DOMAIN v.jobs \cup {Len(v.jobs) + 1} /\ x.jobs[Len(v.jobs) + 1] = job
      /\ \A i \in DOMAIN v.jobs : i \in Nat /\ i < Len(v.jobs) + 1 /\ x.jobs[i] = v.jobs[i]
  BY <1>1, <1>2, <1>3, AppendIs
<1>5. InSight(x.jobs, v.shown, v.visible)
  BY <1>1, <1>2, <1>3, SightAppend
<1>6. \A i \in DOMAIN x.jobs : \/ i = Len(v.jobs) + 1 /\ x.jobs[i] = job
                               \/ i \in DOMAIN v.jobs /\ x.jobs[i] = v.jobs[i]
  BY <1>4
<1>7. \A i, j \in DOMAIN x.jobs : x.jobs[i].op \in Settling /\ j > i => x.jobs[j].op \in Sights
  <2> TAKE i, j \in DOMAIN x.jobs
  <2> HAVE x.jobs[i].op \in Settling /\ j > i
  <2>1. i = Len(v.jobs) + 1
    BY <1>6 DEF Settling, Sights
  <2>2. j = Len(v.jobs) + 1 \/ j < Len(v.jobs) + 1
    BY <1>4, <1>6
  <2> QED BY <1>1, <1>4, <2>1, <2>2
<1>8. \A i, j \in DOMAIN x.jobs : x.jobs[i].op = "begin" /\ x.jobs[j].op = "begin" => i = j
  BY <1>2, <1>6 DEF Settling
<1>9. \A i \in DOMAIN x.jobs :
           \/ x.jobs[i].op \in Sights
           \/ x.jobs[i].op = "begin" /\ x.jobs[i].run # None /\ x.state = "parking" /\ x.ended[x.run] # "no"
           \/ x.jobs[i].op = op
  BY <1>2, <1>6
<1> QED BY <1>5, <1>7, <1>8, <1>9 DEF Queue, Settling, Sights

(* No load or park awaits the machine: then a failure is in time.          *)
LEMMA NothingAwaited ==
  ASSUME NEW v \in VmType, Safe(v), v.load \notin {"restore", "resume", "pause"}, v.park # "restore"
  PROVE  \A k \in DOMAIN v.jobs : v.jobs[k].op \notin Settling
BY DEF Safe, Queue, Settling

LEMMA FailsInSafety ==
  ASSUME NEW v \in VmType, Safe(v), Kept(v), v.state # "destroyed",
         \A k \in DOMAIN v.jobs : v.jobs[k].op \notin Settling
  PROVE  MayFail(v)
<1>1. Gathered(v)
  BY DEF Kept, Gathered
<1>2. v.orphans = 0 /\ v.ran <= 1 /\ Program(v) /\ Seen(v) /\ \A r \in v.writing : v.ended[r] = "no" => v.run = r
  BY DEF Safe, Timers, Machine
<1>3. \A k \in DOMAIN v.line : v.line[k].type \in {"HELLO", "PING"} => v.line[k].id \in Ids
  BY DEF Safe, Talk
<1>4. /\ \A k \in DOMAIN v.jobs : v.jobs[k].op = "begin" => v.jobs[k].run # None
      /\ \A i, j \in DOMAIN v.jobs : v.jobs[i].op = "begin" /\ v.jobs[j].op = "begin" => i = j
  BY DEF Safe, Queue
<1> QED BY <1>1, <1>2, <1>3, <1>4 DEF MayFail

LEMMA FailKeeps ==
  ASSUME NEW v \in VmType, MayFail(v), v.park = "no",
         \/ v.load = "greet" \/ v.load = "no"
         \/ v.load = "bundle" /\ v.loading = "pending"
         \/ v.load = "build" /\ v.loading = "pending" /\ ~v.built,
         NEW x, x = Fail(v)
  PROVE  /\ Whole(x) /\ x \in VmType /\ x.state = "failed" /\ Ending(v, x, "broken")
         /\ x.accepted = v.accepted /\ x.starts = v.starts
<1>0. v.loading \in {"none", "pending", "ready"} /\ v.state # "destroyed"
  BY Fields DEF MayFail
<1>1. /\ x \in VmType /\ x.state = "failed" /\ x.deadline = "off" /\ ~x.stopTimer
      /\ x.run = None /\ x.queued = None /\ x.told = "failed" /\ x.hellos = NoHellos
      /\ x.jobs = (IF v.built THEN Append(v.jobs, Job("pause", None)) ELSE v.jobs) /\ x.built = v.built
      /\ x.accepted = v.accepted /\ x.starts = v.starts
      /\ \A r \in Runs : x.ended[r] = IF r \in {v.run, v.queued} /\ v.ended[r] = "no" THEN "broken" ELSE v.ended[r]
      /\ x.park = v.park /\ x.orphans = v.orphans /\ x.pingId = v.pingId /\ x.writing = v.writing
      /\ x.line = v.line /\ x.prog = v.prog /\ x.ran = v.ran
      /\ SameCpu(x, v)
      /\ x.load = (IF v.load = "greet" THEN "no" ELSE v.load)
      /\ x.loading = (IF v.load = "greet" THEN "none" ELSE v.loading)
  BY <1>0, FailIs
<1>2. Failed(x, v)
  BY <1>1 DEF Failed
<1>3. \/ x.load = "no" /\ x.loading \in {"none", "pending", "ready"}
      \/ x.load = "bundle" /\ x.loading = "pending"
      \/ x.load = "build" /\ x.loading = "pending" /\ ~v.built
  BY <1>0, <1>1
<1>4. x \in VmType /\ x.state = "failed" /\ x.accepted = v.accepted /\ x.starts = v.starts
  BY <1>1
<1> QED BY <1>2, <1>3, <1>4, FailsSafely

(* A load that fails leaves nothing to await.                              *)
LEMMA FailLoadKeeps ==
  ASSUME NEW v \in VmType, MayFail(v), v.park = "no", NEW x, x = FailLoad(v)
  PROVE  /\ Whole(x) /\ x \in VmType /\ x.state = "failed" /\ Ending(v, x, "broken")
         /\ x.accepted = v.accepted /\ x.starts = v.starts
<1> DEFINE f == Fail(v)
<1>0. v.state # "destroyed"
  BY DEF MayFail
<1>1. /\ f \in VmType /\ f.state = "failed" /\ f.deadline = "off" /\ ~f.stopTimer
      /\ f.run = None /\ f.queued = None /\ f.told = "failed" /\ f.hellos = NoHellos
      /\ f.jobs = (IF v.built THEN Append(v.jobs, Job("pause", None)) ELSE v.jobs) /\ f.built = v.built
      /\ f.accepted = v.accepted /\ f.starts = v.starts
      /\ \A r \in Runs : f.ended[r] = IF r \in {v.run, v.queued} /\ v.ended[r] = "no" THEN "broken" ELSE v.ended[r]
      /\ f.park = v.park /\ f.orphans = v.orphans /\ f.pingId = v.pingId /\ f.writing = v.writing
      /\ f.line = v.line /\ f.prog = v.prog /\ f.ran = v.ran
      /\ SameCpu(f, v)
  BY <1>0, FailIs
<1>2. x = LoadOver(f, "none")
  BY DEF FailLoad
<1> HIDE DEF f
<1>3. x \in VmType
  BY FailLoadType
<1>4. /\ x.load = "no" /\ x.loading = "none"
      /\ x.state = f.state /\ x.deadline = f.deadline /\ x.stopTimer = f.stopTimer
      /\ x.run = f.run /\ x.queued = f.queued /\ x.told = f.told /\ x.hellos = f.hellos
      /\ x.jobs = f.jobs /\ x.built = f.built
      /\ x.accepted = f.accepted /\ x.starts = f.starts /\ x.ended = f.ended
      /\ x.park = f.park /\ x.orphans = f.orphans /\ x.pingId = f.pingId /\ x.writing = f.writing
      /\ x.line = f.line /\ x.prog = f.prog /\ x.ran = f.ran
      /\ SameCpu(x, f)
  <2>1. f \in VmType
    BY <1>1
  <2> QED BY <1>2, <2>1 DEF LoadOver, VmType, SameCpu
<1>5. Failed(x, v)
  <2>1. SameCpu(x, v)
    BY <1>1, <1>4, SameAgain
  <2>2. x.jobs = (IF v.built THEN Append(v.jobs, Job("pause", None)) ELSE v.jobs)
    BY Zenon, <1>1, <1>4
  <2>3. \A r \in Runs : x.ended[r] = IF r \in {v.run, v.queued} /\ v.ended[r] = "no" THEN "broken" ELSE v.ended[r]
    BY Zenon, <1>1, <1>4
  <2>4. /\ x.state = "failed" /\ x.deadline = "off" /\ ~x.stopTimer
        /\ x.run = None /\ x.queued = None /\ x.told = "failed" /\ x.hellos = NoHellos
        /\ x.built = v.built /\ x.accepted = v.accepted /\ x.starts = v.starts
        /\ x.park = "no" /\ x.orphans = v.orphans /\ x.pingId = v.pingId /\ x.writing = v.writing
        /\ x.line = v.line /\ x.prog = v.prog /\ x.ran = v.ran
    BY <1>1, <1>4
  <2> QED BY Zenon, <2>1, <2>2, <2>3, <2>4 DEF Failed
<1>6. x.state = "failed" /\ x.accepted = v.accepted /\ x.starts = v.starts
  BY <1>1, <1>4
<1> QED BY <1>3, <1>4, <1>5, <1>6, FailsSafely

(* The machine is as it was saved, and the restore is off its queue.       *)
LEMMA RestoreDone ==
  ASSUME Whole(vm), vm.jobs # << >>, Head(vm.jobs).op \in {"loadRestore", "parkRestore"},
         NEW w, w = Restored(JobDone)
  PROVE  /\ Safe(w) /\ Kept(w) /\ w \in VmType /\ w.built
         /\ ~w.want /\ ~w.cpu /\ w.prog = None /\ w.line = << >> /\ w.ran = 0
         /\ SamePhase(w, vm) /\ SameRuns(w, vm) /\ SameLoad(w, vm) /\ SameTimers(w, vm)
         /\ InSight(w.jobs, w.shown, w.visible) /\ \A k \in DOMAIN w.jobs : w.jobs[k].op \in Sights
         /\ Head(vm.jobs).op = "loadRestore" => vm.state = "loading" /\ vm.load = "restore" /\ vm.park = "no"
         /\ Head(vm.jobs).op = "parkRestore" => vm.state = "parking" /\ vm.park = "restore"
<1> DEFINE y == JobDone
<1>0. vm \in VmType /\ Safe(vm)
  BY DEF Whole, Safe
<1>1. /\ y \in VmType /\ y.jobs = Tail(vm.jobs) /\ y.built = vm.built
      /\ SamePhase(y, vm) /\ SameRuns(y, vm) /\ SameCpu(y, vm) /\ SameLine(y, vm) /\ SameLoad(y, vm)
      /\ SameTimers(y, vm)
  BY <1>0, JobDoneIs
<1>2. w = Restored(y)
  OBVIOUS
<1> HIDE DEF y
<1>3. /\ w \in VmType /\ ~w.want /\ ~w.cpu /\ w.prog = None /\ w.line = << >> /\ w.ran = 0
      /\ w.hellos = y.hellos /\ w.shown = y.shown /\ w.visible = y.visible
      /\ SamePhase(w, y) /\ SameRuns(w, y) /\ SameJobs(w, y) /\ SameLoad(w, y) /\ SameTimers(w, y)
  BY <1>1, <1>2, RestoredIs
<1>4. /\ SamePhase(w, vm) /\ SameRuns(w, vm) /\ SameLoad(w, vm) /\ SameTimers(w, vm)
      /\ w.jobs = Tail(vm.jobs) /\ w.built = vm.built /\ w.visible = vm.visible /\ w.shown = vm.shown
      /\ w.hellos = vm.hellos
  <2>1. w.jobs = Tail(vm.jobs) /\ w.built = vm.built /\ w.visible = vm.visible /\ w.shown = vm.shown /\ w.hellos = vm.hellos
    BY <1>1, <1>3 DEF SameJobs, SameCpu, SameLine
  <2> QED BY <1>1, <1>3, <2>1, SameAgain
<1>5. /\ vm.built /\ 1 \in DOMAIN vm.jobs /\ Head(vm.jobs) = vm.jobs[1]
      /\ \A k \in DOMAIN w.jobs : w.jobs[k].op \in Sights
  BY <1>0, <1>4, RestIs DEF Settling
<1>6. /\ Head(vm.jobs).op = "loadRestore" => vm.state = "loading" /\ vm.load = "restore" /\ vm.park = "no"
      /\ Head(vm.jobs).op = "parkRestore" => vm.state = "parking" /\ vm.park = "restore" /\ vm.load = "no"
  BY <1>0, <1>5 DEF Safe, Queue, Load, Timers, Greeting
<1>7. InSight(w.jobs, w.shown, w.visible)
  <2>1. /\ vm.jobs \in Seq(JobType) /\ vm.shown \in BOOLEAN /\ vm.visible \in BOOLEAN
        /\ InSight(vm.jobs, vm.shown, vm.visible)
    BY <1>0, JobsAre, Fields DEF Safe, Seen
  <2>2. InSight(Tail(vm.jobs), vm.shown, vm.visible)
    BY <1>0, <2>1, SightTail DEF Sights
  <2> QED BY <1>4, <2>2
<1>8. /\ w.state = vm.state /\ w.phase = vm.phase
      /\ w.accepted = vm.accepted /\ w.run = vm.run /\ w.queued = vm.queued
      /\ w.ended = vm.ended /\ w.starts = vm.starts
      /\ w.loading = vm.loading /\ w.load = vm.load /\ w.told = vm.told
      /\ w.stopTimer = vm.stopTimer /\ w.orphans = vm.orphans /\ w.deadline = vm.deadline
      /\ w.park = vm.park /\ w.pingId = vm.pingId /\ w.writing = vm.writing
  BY <1>4 DEF SamePhase, SameRuns, SameLoad, SameTimers
<1>9. Timers(w)
  BY <1>8 DEF Whole, Safe, Timers
<1>10. Seen(w)
  <2>1. w.cpu = FALSE /\ w.want = FALSE
    BY <1>3, Fields
  <2> QED BY <1>4, <1>5, <1>7, <2>1 DEF Seen
<1>11. Machine(w)
  BY <1>0, <1>3, <1>4, <1>6, <1>8 DEF Safe, Machine, Greeting
<1>12. Queue(w)
  BY <1>5 DEF Queue, Settling, Sights
<1>13. Talk(w) /\ Program(w)
  <2>1. DOMAIN w.line = {}
    BY <1>3
  <2> QED BY <1>0, <1>3, <1>4, <1>6, <1>8, <2>1 DEF Safe, Talk, Program
<1>14. Load(w)
  BY <1>4, <1>8 DEF Whole, Safe, Load
<1>15. Kept(w)
  BY <1>8 DEF Whole, Kept
<1>16. Safe(w)
  BY <1>3, <1>9, <1>10, <1>11, <1>12, <1>13, <1>14 DEF Safe
<1> QED BY <1>3, <1>4, <1>5, <1>6, <1>7, <1>15, <1>16

(* What is not kept of a bundle that does not restore is no matter here.    *)
LEMMA DropBundleIs ==
  ASSUME NEW v \in VmType, NEW x, x = DropBundle(v)
  PROVE  x \in VmType /\ SameButEnds(x, v) /\ x.ended = v.ended
<1>1. x \in VmType
  BY DropBundleType
<1>2. SameRuns(x, v)
  BY DEF DropBundle, VmType, SameRuns
<1>3. /\ SamePhase(x, v) /\ SameJobs(x, v) /\ SameCpu(x, v) /\ SameLine(x, v) /\ SameLoad(x, v)
      /\ SameTimers(x, v)
  BY DEF DropBundle, VmType, SamePhase, SameJobs, SameCpu, SameLine, SameLoad, SameTimers
<1> QED BY <1>1, <1>2, <1>3 DEF SameButEnds, SameRuns

LEMMA DropKeepsSafe ==
  ASSUME NEW v \in VmType, Safe(v), Kept(v), NEW x, x = DropBundle(v)
  PROVE  x \in VmType /\ Safe(x) /\ Kept(x) /\ SamePhase(x, v) /\ SameRuns(x, v) /\ x.jobs = v.jobs /\ x.park = v.park
<1>1. x \in VmType /\ SameButEnds(x, v) /\ x.ended = v.ended
  BY DropBundleIs
<1>2. Less(x, v)
  <2>1. x.run = v.run
    BY <1>1 DEF SameButEnds
  <2> QED BY <1>1, <2>1, EndsAreLess DEF SameButEnds
<1>3. Safe(x)
  BY <1>1, <1>2, LessIsSafe
<1>4. Kept(x)
  BY <1>1 DEF Kept, SameButEnds, SamePhase
<1> QED BY <1>1, <1>3, <1>4 DEF SameButEnds, SameRuns, SameJobs, SameTimers

LEMMA LoadRestoreJobKeeps ==
  ASSUME Whole(vm), LoadRestoreJob, NEW x, x = vm'
  PROVE  Whole(x) /\ Goes(vm, x)
<1> DEFINE w == Restored(JobDone)
           d == DropBundle(w)
           a == ResetLine(w)
           b == [a EXCEPT !.load = "resume"]
<1>1. vm.jobs # << >> /\ Head(vm.jobs).op = "loadRestore"
  BY DEF LoadRestoreJob, NextJob
<1>2. /\ Safe(w) /\ Kept(w) /\ w \in VmType /\ w.built
      /\ ~w.want /\ ~w.cpu /\ w.prog = None /\ w.line = << >> /\ w.ran = 0
      /\ SamePhase(w, vm) /\ SameRuns(w, vm) /\ SameLoad(w, vm) /\ SameTimers(w, vm)
      /\ InSight(w.jobs, w.shown, w.visible) /\ \A k \in DOMAIN w.jobs : w.jobs[k].op \in Sights
      /\ vm.state = "loading" /\ vm.load = "restore" /\ vm.park = "no"
  BY <1>1, RestoreDone
<1>3. x = Enqueue(b, "loadResume", None) \/ x = FailLoad(d)
  BY DEF LoadRestoreJob
<1> HIDE DEF w
<1>4. CASE x = FailLoad(d)
  <2>1. d \in VmType /\ Safe(d) /\ Kept(d) /\ SamePhase(d, w) /\ SameRuns(d, w) /\ d.jobs = w.jobs /\ d.park = w.park
    BY <1>2, DropKeepsSafe
  <2> HIDE DEF d
  <2>2. /\ d.state = "loading" /\ d.park = "no" /\ d.accepted = vm.accepted /\ d.starts = vm.starts
        /\ d.ended = vm.ended
    BY <1>2, <2>1 DEF SamePhase, SameRuns, SameTimers
  <2>3. \A k \in DOMAIN d.jobs : d.jobs[k].op \notin Settling
    BY <1>2, <2>1 DEF Sights, Settling
  <2>4. MayFail(d)
    BY <2>1, <2>2, <2>3, FailsInSafety
  <2>5. /\ Whole(x) /\ x \in VmType /\ x.state = "failed" /\ Ending(d, x, "broken")
        /\ x.accepted = d.accepted /\ x.starts = d.starts
    BY <1>4, <2>1, <2>2, <2>4, FailLoadKeeps
  <2>6. Ends(vm, x)
    BY <2>2, <2>5 DEF Ends, Ending, Reasons
  <2> QED BY <1>2, <2>5, <2>6 DEF Goes, Rows, Table
<1>5. CASE x = Enqueue(b, "loadResume", None)
  <2>1. /\ a \in VmType /\ a.hellos = NoHellos /\ a.line = << >> /\ a.pingId = 0
        /\ a.prog = w.prog /\ a.ran = w.ran
        /\ a.stopTimer = w.stopTimer /\ a.orphans = w.orphans /\ a.deadline = w.deadline
        /\ a.park = w.park /\ a.writing = w.writing
        /\ SamePhase(a, w) /\ SameRuns(a, w) /\ SameJobs(a, w) /\ SameCpu(a, w) /\ SameLoad(a, w)
    BY <1>2, ResetLineIs
  <2> HIDE DEF a
  <2>2. /\ b \in VmType /\ b.load = "resume" /\ b.loading = a.loading /\ b.told = a.told
        /\ SamePhase(b, a) /\ SameRuns(b, a) /\ SameJobs(b, a) /\ SameCpu(b, a) /\ SameLine(b, a) /\ SameTimers(b, a)
    BY <2>1, LoadIs
  <2> HIDE DEF b
  <2>3. /\ x \in VmType /\ x.jobs = Append(b.jobs, Job("loadResume", None)) /\ x.built = b.built
        /\ SamePhase(x, b) /\ SameRuns(x, b) /\ SameCpu(x, b) /\ SameLine(x, b) /\ SameLoad(x, b)
        /\ SameTimers(x, b)
    <3>1. "loadResume" \in Ops /\ None \in 0 .. MaxRuns
      BY AssumeTypes DEF Ops
    <3> QED BY <1>5, <2>2, <3>1, EnqueueIs
  <2>4. /\ x.hellos = NoHellos /\ x.line = << >> /\ x.pingId = 0 /\ x.prog = None /\ x.ran = 0
        /\ x.load = "resume" /\ x.loading = w.loading /\ x.told = w.told
        /\ x.stopTimer = w.stopTimer /\ x.orphans = w.orphans /\ x.deadline = w.deadline
        /\ x.park = w.park /\ x.writing = w.writing /\ x.built
        /\ x.want = w.want /\ x.cpu = w.cpu /\ x.shown = w.shown /\ x.visible = w.visible
        /\ x.jobs = Append(w.jobs, Job("loadResume", None))
    BY <1>2, <2>1, <2>2, <2>3 DEF SameJobs, SameCpu, SameLine, SameLoad, SameTimers
  <2>5. SamePhase(x, w) /\ SameRuns(x, w)
    BY <2>1, <2>2, <2>3, SameAgain
  <2>6. x.state = "loading" /\ x.phase = w.phase /\ w.state = "loading" /\ w.load = "restore" /\ w.park = "no"
    BY <1>2, <2>5 DEF SamePhase, SameLoad, SameTimers
  <2>7. /\ x.accepted = w.accepted /\ x.run = w.run /\ x.queued = w.queued
        /\ x.ended = w.ended /\ x.starts = w.starts
    BY <2>5 DEF SameRuns
  <2>8. Queue(x) /\ InSight(x.jobs, w.shown, w.visible)
    <3>1. "loadResume" \in Settling
      BY DEF Settling
    <3>2. \A k \in DOMAIN w.jobs : w.jobs[k].op # "begin"
      BY <1>2 DEF Sights
    <3> QED BY <1>2, <2>3, <2>4, <3>1, <3>2, AwaitedQueues
  <2>9. Timers(x)
    BY <1>2, <2>4, <2>6, <2>7 DEF Safe, Timers, Active
  <2>10. Seen(x)
    BY <1>2, <2>4, <2>8 DEF Safe, Seen
  <2>11. Machine(x)
    BY <1>2, <2>4, <2>6 DEF Machine, Greeting
  <2>12. Talk(x) /\ Program(x)
    <3>1. DOMAIN x.line = {}
      BY <2>4
    <3> QED BY <2>4, <2>6, <3>1 DEF Talk, Program, NoHellos
  <2>13. Load(x)
    BY <1>2, <2>4, <2>6 DEF Safe, Load, Greeting
  <2>14. Kept(x)
    BY <1>2, <2>6, <2>7 DEF Kept
  <2>15. Whole(x)
    BY <2>3, <2>6, <2>8, <2>9, <2>10, <2>11, <2>12, <2>13, <2>14, Still DEF Whole, Safe
  <2>16. SameRuns(x, vm) /\ x.state = vm.state
    BY <1>2, <2>5, <2>6, SameAgain
  <2> QED BY <2>15, <2>16, Silent
<1> QED BY <1>3, <1>4, <1>5

(* The restored machine runs, and is asked how warm it is.                 *)
LEMMA LoadResumeJobKeeps ==
  ASSUME Whole(vm), LoadResumeJob, NEW x, x = vm'
  PROVE  Whole(x) /\ Goes(vm, x)
<1> DEFINE y == JobDone
           w == ApplyCpu([y EXCEPT !.want = TRUE])
           a == [w EXCEPT !.load = "greet"]
           h == Hello(a, "load")
           m == [type |-> "HELLO", id |-> NextId(a)]
<1>0. vm \in VmType /\ Safe(vm) /\ vm.jobs # << >> /\ Head(vm.jobs).op = "loadResume"
  BY DEF LoadResumeJob, NextJob, Whole, Safe
<1>1. /\ y \in VmType /\ y.jobs = Tail(vm.jobs) /\ y.built = vm.built
      /\ SamePhase(y, vm) /\ SameRuns(y, vm) /\ SameCpu(y, vm) /\ SameLine(y, vm) /\ SameLoad(y, vm)
      /\ SameTimers(y, vm)
  BY <1>0, JobDoneIs
<1>2. x = Arm(h, "load")
  BY DEF LoadResumeJob
<1>3. /\ w \in VmType /\ w.want = TRUE /\ w.cpu = (TRUE /\ y.shown) /\ w.shown = y.shown /\ w.visible = y.visible
      /\ SamePhase(w, y) /\ SameRuns(w, y) /\ SameJobs(w, y) /\ SameLine(w, y) /\ SameLoad(w, y) /\ SameTimers(w, y)
  <2> HIDE DEF y
  <2> QED BY <1>1, WantIs
<1> HIDE DEF w, y
<1>4. /\ a \in VmType /\ a.load = "greet" /\ a.loading = w.loading /\ a.told = w.told
      /\ SamePhase(a, w) /\ SameRuns(a, w) /\ SameJobs(a, w) /\ SameCpu(a, w) /\ SameLine(a, w) /\ SameTimers(a, w)
  BY <1>3, LoadIs
<1> HIDE DEF a
<1>5. /\ h \in VmType /\ h.line = Append(a.line, m) /\ NextId(a) \in Ids
      /\ h.hellos[NextId(a)] = "load" /\ \A i \in Ids : i # NextId(a) => h.hellos[i] = a.hellos[i]
      /\ h.prog = a.prog /\ h.ran = a.ran
      /\ SamePhase(h, a) /\ SameRuns(h, a) /\ SameJobs(h, a) /\ SameCpu(h, a) /\ SameLoad(h, a) /\ SameTimers(h, a)
  <2>1. "load" \in Purposes
    BY DEF Purposes
  <2> QED BY <1>4, <2>1, HelloIs
<1> HIDE DEF h
<1>6. /\ x.deadline = "load" /\ x.stopTimer = h.stopTimer /\ x.orphans = h.orphans
      /\ x.park = h.park /\ x.pingId = h.pingId /\ x.writing = h.writing
      /\ SamePhase(x, h) /\ SameRuns(x, h) /\ SameJobs(x, h) /\ SameCpu(x, h) /\ SameLine(x, h) /\ SameLoad(x, h)
  <2>1. x = [h EXCEPT !.deadline = "load"] /\ h \in VmType
    BY <1>2, <1>5 DEF Arm
  <2> QED BY <2>1 DEF VmType, SamePhase, SameRuns, SameJobs, SameCpu, SameLine, SameLoad
<1>7. x \in VmType
  BY StepType DEF HostStep, MachineStep
<1>8. /\ vm.built /\ 1 \in DOMAIN vm.jobs /\ Head(vm.jobs) = vm.jobs[1]
      /\ \A k \in DOMAIN Tail(vm.jobs) : Tail(vm.jobs)[k].op \in Sights
  BY <1>0, RestIs DEF Settling
<1>9. vm.load = "resume" /\ vm.state = "loading" /\ vm.loading = "pending" /\ vm.park = "no"
  BY <1>0, <1>8 DEF Safe, Queue, Load, Timers, Greeting
<1>10. vm.ran = 0 /\ vm.prog = None /\ vm.line = << >> /\ vm.hellos = NoHellos
  BY <1>0, <1>9 DEF Safe, Machine, Talk, Program
<1>11. InSight(Tail(vm.jobs), vm.shown, vm.visible)
  <2>1. /\ vm.jobs \in Seq(JobType) /\ vm.shown \in BOOLEAN /\ vm.visible \in BOOLEAN
        /\ InSight(vm.jobs, vm.shown, vm.visible)
    BY <1>0, <1>8, JobsAre, Fields DEF Safe, Seen
  <2> QED BY <1>0, <2>1, SightTail DEF Sights
<1>12. /\ SamePhase(x, vm) /\ SameRuns(x, vm)
  BY <1>1, <1>3, <1>4, <1>5, <1>6, SameAgain
<1>13. /\ x.stopTimer = vm.stopTimer /\ x.orphans = vm.orphans
       /\ x.park = vm.park /\ x.pingId = vm.pingId /\ x.writing = vm.writing
       /\ x.load = "greet" /\ x.loading = "pending" /\ x.told = vm.told
       /\ x.jobs = Tail(vm.jobs) /\ x.built = vm.built
       /\ x.want = TRUE /\ x.cpu = (TRUE /\ vm.shown) /\ x.shown = vm.shown /\ x.visible = vm.visible
  <2>1. SameJobs(x, w) /\ SameCpu(x, w)
    BY <1>4, <1>5, <1>6, SameAgain
  <2>2. /\ x.jobs = Tail(vm.jobs) /\ x.built = vm.built
        /\ x.want = TRUE /\ x.cpu = (TRUE /\ vm.shown) /\ x.shown = vm.shown /\ x.visible = vm.visible
    BY <1>1, <1>3, <2>1 DEF SameJobs, SameCpu
  <2>3. x.load = "greet" /\ x.loading = "pending" /\ x.told = vm.told
    BY <1>1, <1>3, <1>4, <1>5, <1>6, <1>9 DEF SameLoad
  <2>4. /\ x.stopTimer = vm.stopTimer /\ x.orphans = vm.orphans
        /\ x.park = vm.park /\ x.pingId = vm.pingId /\ x.writing = vm.writing
    BY <1>1, <1>3, <1>4, <1>5, <1>6 DEF SameTimers
  <2> QED BY <2>2, <2>3, <2>4
<1>14. /\ x.prog = None /\ x.ran = 0 /\ x.line = << m >>
       /\ x.hellos[NextId(a)] = "load" /\ \A i \in Ids : i # NextId(a) => x.hellos[i] = "none"
  <2>1. a.line = << >> /\ a.hellos = NoHellos /\ a.prog = None /\ a.ran = 0
    BY <1>1, <1>3, <1>4, <1>10 DEF SameLine
  <2>2. x.line = << m >>
    <3> HIDE DEF m
    <3> QED BY <1>5, <1>6, <2>1 DEF SameLine
  <2>3. x.hellos[NextId(a)] = "load" /\ \A i \in Ids : i # NextId(a) => x.hellos[i] = "none"
    BY <1>5, <1>6, <2>1 DEF SameLine, NoHellos
  <2> QED BY <1>5, <1>6, <2>1, <2>2, <2>3 DEF SameLine
<1>15. /\ x.state = "loading" /\ vm.state = "loading"
       /\ x.accepted = vm.accepted /\ x.run = vm.run /\ x.queued = vm.queued
       /\ x.ended = vm.ended /\ x.starts = vm.starts
  BY <1>9, <1>12 DEF SamePhase, SameRuns
<1>16. m.type = "HELLO" /\ m.id \in Ids
  BY <1>5
<1>17. Timers(x)
  BY <1>0, <1>6, <1>9, <1>13, <1>15 DEF Safe, Timers, Active
<1>18. Seen(x)
  <2>1. x.cpu = (x.want /\ x.shown)
    BY <1>13
  <2> QED BY <1>8, <1>11, <1>13, <2>1 DEF Seen
<1>19. Machine(x)
  BY <1>8, <1>9, <1>13, <1>14, <1>15 DEF Machine, Greeting
<1>20. Queue(x)
  BY <1>8, <1>13 DEF Queue, Settling, Sights
<1> HIDE DEF m
<1>21. Talk(x) /\ Program(x)
  <2>1. Len(x.line) = 1 /\ DOMAIN x.line = {1} /\ x.line[1] = m
    BY <1>14
  <2>2. \A k \in DOMAIN x.line : x.line[k].type = "HELLO" /\ x.line[k].id \in Ids
    BY <1>16, <2>1
  <2> QED BY <1>13, <1>14, <1>15, <2>1, <2>2 DEF Talk, Program
<1>22. Load(x)
  BY <1>0, <1>9, <1>13, <1>15 DEF Safe, Load, Greeting
<1>23. Kept(x)
  BY <1>15 DEF Whole, Kept
<1>24. Whole(x)
  BY <1>7, <1>15, <1>17, <1>18, <1>19, <1>20, <1>21, <1>22, <1>23, Still DEF Whole, Safe
<1> QED BY <1>12, <1>24, Silent DEF SamePhase

(* What the end of a load leaves.                                          *)
Loaded(w) == SetState([LoadOver(w, "ready") EXCEPT !.told = "ready"], "parked")

LEMMA LoadedIs ==
  ASSUME NEW w \in VmType, w.state # "destroyed", NEW x, x = Loaded(w)
  PROVE  /\ x \in VmType /\ x.state = "parked" /\ x.load = "no" /\ x.loading = "ready" /\ x.told = "ready"
         /\ x.phase = w.phase
         /\ SameRuns(x, w) /\ SameJobs(x, w) /\ SameCpu(x, w) /\ SameLine(x, w) /\ SameTimers(x, w)
<1> DEFINE l == LoadOver(w, "ready")
           t == [l EXCEPT !.told = "ready"]
<1>1. l \in VmType /\ l.load = "no" /\ l.loading = "ready" /\ l.state = w.state
  <2>1. l \in VmType
    BY LoadOverType
  <2> QED BY <2>1 DEF LoadOver, VmType
<1>2. /\ l.phase = w.phase
      /\ SameRuns(l, w) /\ SameJobs(l, w) /\ SameCpu(l, w) /\ SameLine(l, w) /\ SameTimers(l, w)
  BY DEF LoadOver, VmType, SameRuns, SameJobs, SameCpu, SameLine, SameTimers
<1> HIDE DEF l
<1>3. /\ t \in VmType /\ t.load = l.load /\ t.loading = l.loading /\ t.told = "ready" /\ t.state = l.state
      /\ t.phase = l.phase
  <2>1. t \in VmType
    BY <1>1, Updates
  <2> QED BY <1>1, <2>1 DEF VmType
<1>4. SameRuns(t, l) /\ SameJobs(t, l) /\ SameCpu(t, l) /\ SameLine(t, l) /\ SameTimers(t, l)
  BY <1>1 DEF VmType, SameRuns, SameJobs, SameCpu, SameLine, SameTimers
<1>5. x = SetState(t, "parked")
  BY DEF Loaded, l
<1> HIDE DEF t
<1>6. x = [t EXCEPT !.state = "parked"]
  BY <1>1, <1>3, <1>5 DEF SetState
<1>7. x \in VmType
  BY <1>3, <1>5, SetStateType DEF States
<1>8. /\ x.state = "parked" /\ x.load = t.load /\ x.loading = t.loading /\ x.told = t.told /\ x.phase = t.phase
      /\ SameRuns(x, t) /\ SameJobs(x, t) /\ SameCpu(x, t) /\ SameLine(x, t) /\ SameTimers(x, t)
  BY <1>3, <1>6 DEF VmType, SameRuns, SameJobs, SameCpu, SameLine, SameTimers
<1>9. x.load = "no" /\ x.loading = "ready" /\ x.told = "ready" /\ x.phase = w.phase
  BY <1>1, <1>2, <1>3, <1>8
<1> QED BY <1>2, <1>4, <1>7, <1>8, <1>9, SameAgain

(* The load is over: the VM is ready, and what waited for it begins.        *)
LEMMA LoadPauseJobKeeps ==
  ASSUME Whole(vm), LoadPauseJob, NEW x, x = vm'
  PROVE  Whole(x) /\ Goes(vm, x)
<1> DEFINE y == JobDone
           w == ApplyCpu([y EXCEPT !.want = FALSE])
           p == Loaded(w)
<1>0. vm \in VmType /\ Safe(vm) /\ Kept(vm) /\ vm.jobs # << >> /\ Head(vm.jobs).op = "loadPause"
  BY DEF LoadPauseJob, NextJob, Whole, Safe
<1>1. /\ y \in VmType /\ y.jobs = Tail(vm.jobs) /\ y.built = vm.built
      /\ SamePhase(y, vm) /\ SameRuns(y, vm) /\ SameCpu(y, vm) /\ SameLine(y, vm) /\ SameLoad(y, vm)
      /\ SameTimers(y, vm)
  BY <1>0, JobDoneIs
<1>2. x = StartQueued(p)
  BY DEF LoadPauseJob, Loaded
<1>3. /\ w \in VmType /\ w.want = FALSE /\ w.cpu = (FALSE /\ y.shown) /\ w.shown = y.shown /\ w.visible = y.visible
      /\ SamePhase(w, y) /\ SameRuns(w, y) /\ SameJobs(w, y) /\ SameLine(w, y) /\ SameLoad(w, y) /\ SameTimers(w, y)
  <2> HIDE DEF y
  <2> QED BY <1>1, WantIs
<1> HIDE DEF w, y
<1>4. /\ vm.built /\ 1 \in DOMAIN vm.jobs /\ Head(vm.jobs) = vm.jobs[1]
      /\ \A k \in DOMAIN Tail(vm.jobs) : Tail(vm.jobs)[k].op \in Sights
  BY <1>0, RestIs DEF Settling
<1>5. vm.load = "pause" /\ vm.state = "loading" /\ vm.park = "no" /\ vm.deadline = "off" /\ vm.run = None
      /\ ~vm.stopTimer /\ vm.orphans = 0
  <2>1. vm.load = "pause" /\ vm.state = "loading"
    BY <1>0, <1>4 DEF Safe, Queue, Load, Greeting
  <2>2. ~vm.stopTimer
    BY <1>0, <2>1 DEF Safe, Timers
  <2> QED BY <1>0, <2>1, <2>2 DEF Safe, Timers, Active
<1>6. vm.ran = 0 /\ vm.prog = None /\ vm.line = << >> /\ vm.hellos = NoHellos /\ vm.pingId = 0
  BY <1>0, <1>5 DEF Safe, Machine, Talk, Program, Timers
<1>7. InSight(Tail(vm.jobs), vm.shown, vm.visible)
  <2>1. /\ vm.jobs \in Seq(JobType) /\ vm.shown \in BOOLEAN /\ vm.visible \in BOOLEAN
        /\ InSight(vm.jobs, vm.shown, vm.visible)
    BY <1>0, <1>4, JobsAre, Fields DEF Safe, Seen
  <2> QED BY <1>0, <2>1, SightTail DEF Sights
<1>8. /\ p \in VmType /\ p.state = "parked" /\ p.load = "no" /\ p.loading = "ready" /\ p.told = "ready"
      /\ p.phase = w.phase
      /\ SameRuns(p, w) /\ SameJobs(p, w) /\ SameCpu(p, w) /\ SameLine(p, w) /\ SameTimers(p, w)
  <2>1. w.state # "destroyed"
    BY <1>1, <1>3, <1>5 DEF SamePhase
  <2> QED BY <1>3, <2>1, LoadedIs
<1> HIDE DEF p
<1>9. /\ SameRuns(p, vm) /\ SameLine(p, vm) /\ SameTimers(p, vm)
  BY <1>1, <1>3, <1>8, SameAgain
<1>10. /\ p.jobs = Tail(vm.jobs) /\ p.built = vm.built
       /\ p.want = FALSE /\ p.cpu = FALSE /\ p.shown = vm.shown /\ p.visible = vm.visible
  BY <1>1, <1>3, <1>8 DEF SameJobs, SameCpu
<1>11. /\ p.accepted = vm.accepted /\ p.run = vm.run /\ p.queued = vm.queued
       /\ p.ended = vm.ended /\ p.starts = vm.starts
       /\ p.hellos = NoHellos /\ p.line = << >> /\ p.prog = None /\ p.ran = 0
       /\ ~p.stopTimer /\ p.orphans = 0 /\ p.deadline = "off" /\ p.park = "no" /\ p.pingId = 0
       /\ p.writing = vm.writing
  BY <1>5, <1>6, <1>9 DEF SameRuns, SameLine, SameTimers
<1>12. Timers(p)
  <2>1. \A r \in vm.writing : vm.ended[r] # "no"
    BY <1>0, <1>5 DEF Safe, Timers
  <2> QED BY <1>5, <1>8, <1>11, <2>1 DEF Timers, Active
<1>13. Seen(p)
  BY <1>4, <1>7, <1>10 DEF Seen
<1>14. Machine(p)
  BY <1>4, <1>8, <1>10, <1>11 DEF Machine, Greeting
<1>15. Queue(p)
  BY <1>4, <1>10 DEF Queue, Settling, Sights
<1>16. Talk(p) /\ Program(p)
  <2>1. DOMAIN p.line = {}
    BY <1>11
  <2> QED BY <1>8, <1>11, <2>1 DEF Talk, Program, NoHellos
<1>17. Load(p)
  BY <1>8 DEF Load, Greeting
<1>18. Safe(p)
  BY <1>8, <1>12, <1>13, <1>14, <1>15, <1>16, <1>17 DEF Safe
<1>19. Waits(p)
  <2>1. Waits(vm)
    BY <1>0, <1>5, KeptWaits
  <2> QED BY <1>11, <2>1 DEF Waits
<1>20. /\ Whole(x) /\ x \in VmType /\ x.state \in {"parked", "starting"}
       /\ x.accepted = p.accepted /\ x.ended = p.ended /\ x.starts = p.starts
  BY <1>2, <1>8, <1>18, <1>19, StartQueuedKeeps
<1>21. Leaves(vm, x)
  BY <1>11, <1>20 DEF Leaves
<1>22. << vm.state, x.state >> \in Rows
  BY <1>5, <1>20 DEF Rows, Table
<1> QED BY <1>20, <1>21, <1>22 DEF Goes

(* What a machine given up, and a new one, are.                            *)
LEMMA NoMachineIs ==
  ASSUME NEW v \in VmType, NEW x, x = NoMachine(v)
  PROVE  /\ x \in VmType /\ x.built = FALSE /\ x.jobs = << >> /\ x.want = FALSE /\ x.cpu = FALSE /\ x.deadline = "off"
         /\ x.shown = v.shown /\ x.visible = v.visible
         /\ x.stopTimer = v.stopTimer /\ x.orphans = v.orphans
         /\ x.park = v.park /\ x.pingId = v.pingId /\ x.writing = v.writing
         /\ SamePhase(x, v) /\ SameRuns(x, v) /\ SameLine(x, v) /\ SameLoad(x, v)
<1>1. x \in VmType
  BY NoMachineType
<1>2. /\ x.built = FALSE /\ x.jobs = << >> /\ x.want = FALSE /\ x.cpu = FALSE /\ x.deadline = "off"
      /\ x.shown = v.shown /\ x.visible = v.visible
      /\ x.stopTimer = v.stopTimer /\ x.orphans = v.orphans
      /\ x.park = v.park /\ x.pingId = v.pingId /\ x.writing = v.writing
  BY DEF NoMachine, VmType
<1>3. SamePhase(x, v) /\ SameRuns(x, v) /\ SameLine(x, v) /\ SameLoad(x, v)
  BY DEF NoMachine, VmType, SamePhase, SameRuns, SameLine, SameLoad
<1> QED BY <1>1, <1>2, <1>3

LEMMA NewMachineIs ==
  ASSUME NEW v \in VmType, NEW x, x = NewMachine(v)
  PROVE  /\ x \in VmType /\ x.built = TRUE /\ x.shown = TRUE /\ x.line = << >> /\ x.prog = None
         /\ x.jobs \in Seq(JobType) /\ InSight(x.jobs, x.shown, x.visible)
         /\ \A k \in DOMAIN x.jobs : x.jobs[k].op \in Sights
         /\ x.want = v.want /\ x.cpu = v.cpu /\ x.visible = v.visible /\ x.hellos = v.hellos /\ x.ran = v.ran
         /\ SamePhase(x, v) /\ SameRuns(x, v) /\ SameLoad(x, v) /\ SameTimers(x, v)
<1>1. x \in VmType
  BY NewMachineType
<1>2. /\ x.built = TRUE /\ x.shown = TRUE /\ x.line = << >> /\ x.prog = None
      /\ x.jobs = (IF v.visible THEN << >> ELSE << Job("hide", None) >>)
      /\ x.want = v.want /\ x.cpu = v.cpu /\ x.visible = v.visible /\ x.hellos = v.hellos /\ x.ran = v.ran
  BY DEF NewMachine, VmType
<1>3. SamePhase(x, v) /\ SameRuns(x, v) /\ SameLoad(x, v) /\ SameTimers(x, v)
  BY DEF NewMachine, VmType, SamePhase, SameRuns, SameLoad, SameTimers
<1>4. x.jobs \in Seq(JobType)
  BY <1>1, JobsAre
<1>5. /\ InSight(x.jobs, x.shown, x.visible)
      /\ \A k \in DOMAIN x.jobs : x.jobs[k].op \in Sights
  <2>0. v.visible \in BOOLEAN
    BY Fields
  <2>1. CASE v.visible = TRUE
    <3>1. x.jobs = << >>
      BY <1>2, <2>1
    <3>2. DOMAIN x.jobs = {}
      BY <3>1
    <3> QED BY <1>2, <2>1, <3>2 DEF InSight
  <2>2. CASE v.visible = FALSE
    <3> DEFINE j == Job("hide", None)
    <3>1. x.jobs = << j >> /\ j.op = "hide"
      BY <1>2, <2>2 DEF Job
    <3> HIDE DEF j
    <3>2. DOMAIN x.jobs = {1} /\ x.jobs[1].op = "hide"
      BY <3>1
    <3> QED BY <1>2, <2>2, <3>2 DEF InSight, Sights
  <2> QED BY <2>0, <2>1, <2>2
<1> QED BY <1>1, <1>2, <1>3, <1>4, <1>5

(* The park is over, or the machine would not restore.                     *)
LEMMA ParkOver ==
  ASSUME NEW w \in VmType, Safe(w), Kept(w), w.state = "parking",
         w.built, ~w.want, ~w.cpu, w.prog = None, w.line = << >>, w.ran = 0,
         InSight(w.jobs, w.shown, w.visible), \A k \in DOMAIN w.jobs : w.jobs[k].op \in Sights,
         NEW x, x = FinishPark(w)
  PROVE  /\ Whole(x) /\ x \in VmType /\ x.state \in {"parked", "starting"}
         /\ x.accepted = w.accepted /\ x.ended = w.ended /\ x.starts = w.starts
<1>1. /\ w.run # None /\ w.load = "no" /\ w.loading = "ready" /\ w.told = "ready" /\ w.orphans = 0
      /\ ~w.stopTimer
  BY InHand
<1>2. w.deadline = "off" /\ \A r \in w.writing : w.ended[r] # "no"
  BY DEF Safe, Timers
<1> QED BY <1>1, <1>2, FinishParkKeeps

LEMMA ParkRestoreJobKeeps ==
  ASSUME Whole(vm), ParkRestoreJob, NEW x, x = vm'
  PROVE  Whole(x) /\ Goes(vm, x)
<1> DEFINE w == Restored(JobDone)
           n == NoMachine(w)
<1>1. vm.jobs # << >> /\ Head(vm.jobs).op = "parkRestore"
  BY DEF ParkRestoreJob, NextJob
<1>2. /\ Safe(w) /\ Kept(w) /\ w \in VmType /\ w.built
      /\ ~w.want /\ ~w.cpu /\ w.prog = None /\ w.line = << >> /\ w.ran = 0
      /\ SamePhase(w, vm) /\ SameRuns(w, vm) /\ SameLoad(w, vm) /\ SameTimers(w, vm)
      /\ InSight(w.jobs, w.shown, w.visible) /\ \A k \in DOMAIN w.jobs : w.jobs[k].op \in Sights
      /\ vm.state = "parking" /\ vm.park = "restore"
  BY <1>1, RestoreDone
<1>3. x = FinishPark(w) \/ x = [n EXCEPT !.park = "rebuild"]
  BY DEF ParkRestoreJob
<1> HIDE DEF w
<1>4. w.state = "parking"
  BY <1>2 DEF SamePhase
<1>5. CASE x = FinishPark(w)
  <2>1. /\ Whole(x) /\ x \in VmType /\ x.state \in {"parked", "starting"}
        /\ x.accepted = w.accepted /\ x.ended = w.ended /\ x.starts = w.starts
    BY <1>2, <1>4, <1>5, ParkOver
  <2>2. Leaves(vm, x)
    BY <1>2, <2>1 DEF Leaves, SameRuns
  <2>3. << vm.state, x.state >> \in Rows
    BY <1>2, <2>1 DEF Rows, Table
  <2> QED BY <2>1, <2>2, <2>3 DEF Goes
<1>6. CASE x = [n EXCEPT !.park = "rebuild"]
  <2>1. /\ n \in VmType /\ n.built = FALSE /\ n.jobs = << >> /\ n.want = FALSE /\ n.cpu = FALSE /\ n.deadline = "off"
        /\ n.shown = w.shown /\ n.visible = w.visible
        /\ n.stopTimer = w.stopTimer /\ n.orphans = w.orphans
        /\ n.park = w.park /\ n.pingId = w.pingId /\ n.writing = w.writing
        /\ SamePhase(n, w) /\ SameRuns(n, w) /\ SameLine(n, w) /\ SameLoad(n, w)
    BY <1>2, NoMachineIs
  <2> HIDE DEF n
  <2>2. /\ x.built = FALSE /\ x.jobs = << >> /\ x.want = FALSE /\ x.cpu = FALSE /\ x.deadline = "off"
        /\ x.stopTimer = n.stopTimer /\ x.orphans = n.orphans
        /\ x.park = "rebuild" /\ x.pingId = n.pingId /\ x.writing = n.writing
        /\ SamePhase(x, n) /\ SameRuns(x, n) /\ SameLine(x, n) /\ SameLoad(x, n)
    BY <1>6, <2>1 DEF VmType, SamePhase, SameRuns, SameLine, SameLoad
  <2>3. x \in VmType
    BY StepType DEF HostStep, MachineStep
  <2>4. SamePhase(x, w) /\ SameRuns(x, w) /\ SameLine(x, w) /\ SameLoad(x, w)
    BY <2>1, <2>2, SameAgain
  <2>5. /\ x.state = "parking" /\ x.phase = w.phase
        /\ x.accepted = w.accepted /\ x.run = w.run /\ x.queued = w.queued /\ x.ended = w.ended /\ x.starts = w.starts
        /\ x.hellos = w.hellos /\ x.line = << >> /\ x.prog = None /\ x.ran = 0
        /\ x.loading = w.loading /\ x.load = w.load /\ x.told = w.told
        /\ x.stopTimer = w.stopTimer /\ x.orphans = w.orphans /\ x.pingId = w.pingId /\ x.writing = w.writing
    BY <1>2, <1>4, <2>1, <2>2, <2>4 DEF SamePhase, SameRuns, SameLine, SameLoad
  <2>6. w.load = "no"
    BY <1>2, <1>4, InHand
  <2>7. Timers(x)
    BY <1>2, <1>4, <2>2, <2>5, <2>6 DEF Safe, Timers
  <2>8. Seen(x)
    BY <2>2 DEF Seen
  <2>9. Machine(x)
    BY <2>2, <2>5, <2>6 DEF Machine, Greeting
  <2>10. DOMAIN x.jobs = {} /\ DOMAIN x.line = {}
    BY <2>2, <2>5
  <2>11. Queue(x)
    BY <2>10 DEF Queue
  <2>12. Talk(x)
    BY <1>2, <2>5, <2>6, <2>10 DEF Safe, Talk
  <2>13. Program(x)
    BY <2>5, <2>10 DEF Program
  <2>14. Load(x)
    BY <1>2, <1>4, <2>5, <2>6 DEF Safe, Load
  <2>15. Kept(x)
    BY <1>2, <1>4, <2>5 DEF Kept
  <2>16. Whole(x)
    BY <2>3, <2>5, <2>7, <2>8, <2>9, <2>11, <2>12, <2>13, <2>14, <2>15, Still DEF Whole, Safe
  <2>17. SameRuns(x, vm) /\ x.state = vm.state
    BY <1>2, <2>4, <2>5, SameAgain
  <2> QED BY <2>16, <2>17, Silent
<1> QED BY <1>3, <1>5, <1>6

(* The page has painted: the machine is restored.                          *)
LEMMA PaintedKeeps ==
  ASSUME Whole(vm), Painted, NEW x, x = vm'
  PROVE  Whole(x) /\ Goes(vm, x)
<1> DEFINE a == [vm EXCEPT !.park = "restore"]
<1>0. vm \in VmType /\ Safe(vm) /\ vm.park = "paint" /\ vm.built
  BY DEF Painted, Whole, Safe, Machine
<1>1. x = Enqueue(a, "parkRestore", None)
  BY DEF Painted
<1>2. /\ a \in VmType /\ a.park = "restore"
      /\ a.stopTimer = vm.stopTimer /\ a.orphans = vm.orphans /\ a.deadline = vm.deadline
      /\ a.pingId = vm.pingId /\ a.writing = vm.writing
      /\ SamePhase(a, vm) /\ SameRuns(a, vm) /\ SameJobs(a, vm) /\ SameCpu(a, vm) /\ SameLine(a, vm) /\ SameLoad(a, vm)
  <2>1. a \in VmType
    BY <1>0, Updates
  <2> QED BY <1>0, <2>1 DEF VmType, SamePhase, SameRuns, SameJobs, SameCpu, SameLine, SameLoad
<1> HIDE DEF a
<1>3. /\ x \in VmType /\ x.jobs = Append(a.jobs, Job("parkRestore", None)) /\ x.built = a.built
      /\ SamePhase(x, a) /\ SameRuns(x, a) /\ SameCpu(x, a) /\ SameLine(x, a) /\ SameLoad(x, a)
      /\ SameTimers(x, a)
  <2>1. "parkRestore" \in Ops /\ None \in 0 .. MaxRuns
    BY AssumeTypes DEF Ops
  <2> QED BY <1>1, <1>2, <2>1, EnqueueIs
<1>4. SamePhase(x, vm) /\ SameRuns(x, vm) /\ SameCpu(x, vm) /\ SameLine(x, vm) /\ SameLoad(x, vm)
  BY <1>2, <1>3, SameAgain
<1>5. /\ x.park = "restore"
      /\ x.stopTimer = vm.stopTimer /\ x.orphans = vm.orphans /\ x.deadline = vm.deadline
      /\ x.pingId = vm.pingId /\ x.writing = vm.writing
      /\ x.jobs = Append(vm.jobs, Job("parkRestore", None)) /\ x.built = vm.built
  BY <1>2, <1>3 DEF SameJobs, SameTimers
<1>6. vm.state = "parking" /\ vm.load = "no" /\ vm.loading = "ready" /\ vm.told = "ready"
  <2>1. vm.state = "parking"
    BY <1>0 DEF Safe, Timers
  <2> QED BY <1>0, <2>1, InHand
<1>7. /\ x.state = vm.state /\ x.phase = vm.phase
      /\ x.accepted = vm.accepted /\ x.run = vm.run /\ x.queued = vm.queued
      /\ x.ended = vm.ended /\ x.starts = vm.starts
      /\ x.want = vm.want /\ x.shown = vm.shown /\ x.cpu = vm.cpu /\ x.visible = vm.visible
      /\ x.hellos = vm.hellos /\ x.line = vm.line /\ x.prog = vm.prog /\ x.ran = vm.ran
      /\ x.loading = vm.loading /\ x.load = vm.load /\ x.told = vm.told
  BY <1>4 DEF SamePhase, SameRuns, SameCpu, SameLine, SameLoad
<1>8. Queue(x) /\ InSight(x.jobs, vm.shown, vm.visible)
  <2>1. InSight(vm.jobs, vm.shown, vm.visible)
    BY <1>0 DEF Safe, Seen
  <2>2. \A i, j \in DOMAIN vm.jobs : vm.jobs[i].op = "begin" /\ vm.jobs[j].op = "begin" => i = j
    BY <1>0 DEF Safe, Queue
  <2>3. \A k \in DOMAIN vm.jobs :
          \/ vm.jobs[k].op \in Sights
          \/ vm.jobs[k].op = "begin" /\ vm.jobs[k].run # None /\ x.state = "parking" /\ x.ended[x.run] # "no"
    <3> TAKE k \in DOMAIN vm.jobs
    <3>1. vm.jobs[k].op \in Ops
      BY <1>0, JobsAre
    <3>2. vm.jobs[k].op \notin {"loadRestore", "loadResume", "loadPause", "parkRestore", "pause"}
      BY <1>0, <1>6 DEF Safe, Queue
    <3>3. vm.jobs[k].op = "begin" => vm.jobs[k].run # None /\ vm.ended[vm.run] # "no"
      BY <1>0, <1>6 DEF Safe, Queue
    <3> QED BY <1>6, <1>7, <3>1, <3>2, <3>3 DEF Ops, Sights
  <2>4. "parkRestore" \in Settling
    BY DEF Settling
  <2> QED BY <1>0, <1>3, <1>5, <2>1, <2>2, <2>3, <2>4, AwaitedQueues
<1>9. Timers(x)
  BY <1>0, <1>5, <1>6, <1>7 DEF Safe, Timers
<1>10. Seen(x)
  BY <1>0, <1>5, <1>7, <1>8 DEF Safe, Seen
<1>11. Machine(x)
  BY <1>0, <1>5, <1>6, <1>7 DEF Safe, Machine, Greeting
<1>12. Talk(x) /\ Program(x)
  BY <1>0, <1>7 DEF Safe, Talk, Program
<1>13. Load(x)
  BY <1>0, <1>5, <1>7 DEF Safe, Load
<1>14. Kept(x)
  BY <1>7 DEF Whole, Kept
<1>15. Whole(x)
  BY <1>3, <1>6, <1>7, <1>8, <1>9, <1>10, <1>11, <1>12, <1>13, <1>14, Still DEF Whole, Safe
<1> QED BY <1>4, <1>7, <1>15, Silent

(* A new emulator takes the place of the one that would not restore.       *)
LEMMA RebuiltKeeps ==
  ASSUME Whole(vm), Rebuilt, NEW x, x = vm'
  PROVE  Whole(x) /\ Goes(vm, x)
<1> DEFINE n == NewMachine(vm)
           w == Restored(n)
<1>0. vm \in VmType /\ Safe(vm) /\ Kept(vm) /\ vm.park = "rebuild" /\ vm.state = "parking"
  BY DEF Rebuilt, Whole, Safe, Timers
<1>1. x = FinishPark(w)
  BY DEF Rebuilt
<1>2. /\ n \in VmType /\ n.built = TRUE /\ n.shown = TRUE /\ n.line = << >> /\ n.prog = None
      /\ n.jobs \in Seq(JobType) /\ InSight(n.jobs, n.shown, n.visible)
      /\ \A k \in DOMAIN n.jobs : n.jobs[k].op \in Sights
      /\ n.want = vm.want /\ n.cpu = vm.cpu /\ n.visible = vm.visible /\ n.hellos = vm.hellos /\ n.ran = vm.ran
      /\ SamePhase(n, vm) /\ SameRuns(n, vm) /\ SameLoad(n, vm) /\ SameTimers(n, vm)
  BY <1>0, NewMachineIs
<1> HIDE DEF n
<1>3. /\ w \in VmType /\ ~w.want /\ ~w.cpu /\ w.prog = None /\ w.line = << >> /\ w.ran = 0
      /\ w.hellos = n.hellos /\ w.shown = n.shown /\ w.visible = n.visible
      /\ SamePhase(w, n) /\ SameRuns(w, n) /\ SameJobs(w, n) /\ SameLoad(w, n) /\ SameTimers(w, n)
  BY <1>2, RestoredIs
<1> HIDE DEF w
<1>4. SamePhase(w, vm) /\ SameRuns(w, vm) /\ SameLoad(w, vm) /\ SameTimers(w, vm)
  BY <1>2, <1>3, SameAgain
<1>5. w.jobs = n.jobs /\ w.built = TRUE /\ InSight(w.jobs, w.shown, w.visible)
      /\ \A k \in DOMAIN w.jobs : w.jobs[k].op \in Sights
  BY <1>2, <1>3 DEF SameJobs
<1>6. /\ w.state = "parking" /\ w.accepted = vm.accepted /\ w.run = vm.run /\ w.queued = vm.queued
      /\ w.ended = vm.ended /\ w.starts = vm.starts
      /\ w.loading = vm.loading /\ w.load = vm.load /\ w.told = vm.told
      /\ w.stopTimer = vm.stopTimer /\ w.orphans = vm.orphans /\ w.deadline = vm.deadline /\ w.writing = vm.writing
  BY <1>0, <1>4 DEF SamePhase, SameRuns, SameLoad, SameTimers
<1>7. /\ vm.run # None /\ vm.load = "no" /\ vm.loading = "ready" /\ vm.told = "ready" /\ vm.orphans = 0
      /\ ~vm.stopTimer
  BY <1>0, InHand
<1>8. vm.deadline = "off" /\ \A r \in vm.writing : vm.ended[r] # "no"
  BY <1>0 DEF Safe, Timers
<1>9. Kept(w)
  BY <1>0, <1>6 DEF Kept
<1>10. /\ Whole(x) /\ x \in VmType /\ x.state \in {"parked", "starting"}
       /\ x.accepted = w.accepted /\ x.ended = w.ended /\ x.starts = w.starts
  BY <1>1, <1>3, <1>5, <1>6, <1>7, <1>8, <1>9, FinishParkKeeps
<1>11. Leaves(vm, x)
  BY <1>6, <1>10 DEF Leaves
<1>12. << vm.state, x.state >> \in Rows
  BY <1>0, <1>10 DEF Rows, Table
<1> QED BY <1>10, <1>11, <1>12 DEF Goes

(* There is no machine to go on with.                                      *)
LEMMA NotRebuiltKeeps ==
  ASSUME Whole(vm), NotRebuilt, NEW x, x = vm'
  PROVE  Whole(x) /\ Goes(vm, x)
<1> DEFINE f == Fail(vm)
<1>0. vm \in VmType /\ Safe(vm) /\ Kept(vm) /\ vm.park = "rebuild" /\ vm.state = "parking"
  BY DEF NotRebuilt, Whole, Safe, Timers
<1>1. x = [f EXCEPT !.park = "no"]
  BY DEF NotRebuilt
<1>2. vm.load = "no" /\ vm.loading = "ready"
  BY <1>0, InHand
<1>3. /\ f \in VmType /\ f.state = "failed" /\ f.deadline = "off" /\ ~f.stopTimer
      /\ f.run = None /\ f.queued = None /\ f.told = "failed" /\ f.hellos = NoHellos
      /\ f.jobs = (IF vm.built THEN Append(vm.jobs, Job("pause", None)) ELSE vm.jobs) /\ f.built = vm.built
      /\ f.accepted = vm.accepted /\ f.starts = vm.starts
      /\ \A r \in Runs : f.ended[r] = IF r \in {vm.run, vm.queued} /\ vm.ended[r] = "no" THEN "broken" ELSE vm.ended[r]
      /\ f.park = vm.park /\ f.orphans = vm.orphans /\ f.pingId = vm.pingId /\ f.writing = vm.writing
      /\ f.line = vm.line /\ f.prog = vm.prog /\ f.ran = vm.ran
      /\ SameCpu(f, vm)
      /\ f.load = (IF vm.load = "greet" THEN "no" ELSE vm.load)
      /\ f.loading = (IF vm.load = "greet" THEN "none" ELSE vm.loading)
  BY <1>0, FailIs
<1> HIDE DEF f
<1>4. x \in VmType
  BY StepType DEF HostStep
<1>5. /\ x.park = "no"
      /\ x.state = f.state /\ x.deadline = f.deadline /\ x.stopTimer = f.stopTimer
      /\ x.run = f.run /\ x.queued = f.queued /\ x.told = f.told /\ x.hellos = f.hellos
      /\ x.jobs = f.jobs /\ x.built = f.built
      /\ x.accepted = f.accepted /\ x.starts = f.starts /\ x.ended = f.ended
      /\ x.orphans = f.orphans /\ x.pingId = f.pingId /\ x.writing = f.writing
      /\ x.line = f.line /\ x.prog = f.prog /\ x.ran = f.ran
      /\ x.load = f.load /\ x.loading = f.loading
      /\ SameCpu(x, f)
  <2>1. f \in VmType
    BY <1>3
  <2> QED BY <1>1, <2>1 DEF VmType, SameCpu
<1>6. Failed(x, vm)
  <2>1. SameCpu(x, vm)
    BY <1>3, <1>5, SameAgain
  <2>2. x.jobs = (IF vm.built THEN Append(vm.jobs, Job("pause", None)) ELSE vm.jobs)
    BY Zenon, <1>3, <1>5
  <2>3. \A r \in Runs : x.ended[r] = IF r \in {vm.run, vm.queued} /\ vm.ended[r] = "no" THEN "broken" ELSE vm.ended[r]
    BY Zenon, <1>3, <1>5
  <2>4. /\ x.state = "failed" /\ x.deadline = "off" /\ ~x.stopTimer
        /\ x.run = None /\ x.queued = None /\ x.told = "failed" /\ x.hellos = NoHellos
        /\ x.built = vm.built /\ x.accepted = vm.accepted /\ x.starts = vm.starts
        /\ x.park = "no" /\ x.orphans = vm.orphans /\ x.pingId = vm.pingId /\ x.writing = vm.writing
        /\ x.line = vm.line /\ x.prog = vm.prog /\ x.ran = vm.ran
    BY <1>3, <1>5
  <2> QED BY Zenon, <2>1, <2>2, <2>3, <2>4 DEF Failed
<1>7. x.load = "no" /\ x.loading = "ready"
  BY <1>2, <1>3, <1>5
<1>8. MayFail(vm)
  <2>1. \A k \in DOMAIN vm.jobs : vm.jobs[k].op \notin Settling
    BY <1>0, <1>2, NothingAwaited
  <2> QED BY <1>0, <2>1, FailsInSafety
<1>9. Whole(x) /\ Ending(vm, x, "broken")
  BY <1>0, <1>4, <1>6, <1>7, <1>8, FailsSafely
<1>10. x.state = "failed" /\ x.accepted = vm.accepted /\ x.starts = vm.starts
  BY <1>3, <1>5
<1>11. Ends(vm, x)
  BY <1>9, <1>10 DEF Ends, Reasons
<1>12. << vm.state, x.state >> \in Rows
  BY <1>0, <1>10 DEF Rows, Table
<1> QED BY <1>9, <1>11, <1>12 DEF Goes

(* One run's files are written, or not.                                    *)
LEMMA WrittenIs ==
  ASSUME NEW v \in VmType, NEW r \in Runs, NEW x, x = [v EXCEPT !.writing = @ \ {r}]
  PROVE  /\ x \in VmType /\ x.writing = v.writing \ {r}
         /\ x.stopTimer = v.stopTimer /\ x.orphans = v.orphans /\ x.deadline = v.deadline
         /\ x.park = v.park /\ x.pingId = v.pingId
         /\ SamePhase(x, v) /\ SameRuns(x, v) /\ SameJobs(x, v) /\ SameCpu(x, v) /\ SameLine(x, v) /\ SameLoad(x, v)
<1>1. v.writing \ {r} \in SUBSET Runs
  <2>1. v.writing \in SUBSET Runs
    BY Fields
  <2> QED BY <2>1
<1>2. x \in VmType
  BY <1>1, Updates
<1>3. /\ x.writing = v.writing \ {r}
      /\ x.stopTimer = v.stopTimer /\ x.orphans = v.orphans /\ x.deadline = v.deadline
      /\ x.park = v.park /\ x.pingId = v.pingId
  BY DEF VmType
<1>4. SamePhase(x, v) /\ SameRuns(x, v) /\ SameJobs(x, v) /\ SameCpu(x, v) /\ SameLine(x, v) /\ SameLoad(x, v)
  BY DEF VmType, SamePhase, SameRuns, SameJobs, SameCpu, SameLine, SameLoad
<1> QED BY <1>2, <1>3, <1>4

LEMMA WrittenKeeps ==
  ASSUME NEW v \in VmType, Whole(v), NEW r \in v.writing, NEW x, x = [v EXCEPT !.writing = @ \ {r}]
  PROVE  /\ Safe(x) /\ Kept(x) /\ x \in VmType /\ x.writing = v.writing \ {r} /\ x.deadline = v.deadline
         /\ SamePhase(x, v) /\ SameRuns(x, v) /\ SameJobs(x, v) /\ SameCpu(x, v) /\ SameLine(x, v) /\ SameLoad(x, v)
         /\ v.run # r \/ v.ended[r] # "no" => Moving(x)
         /\ v.run = r /\ v.ended[r] = "no" =>
              v.state = "starting" /\ v.phase[r] = "files" /\ v.ran = 0 /\ v.deadline = "off"
<1>0. r \in Runs /\ Safe(v)
  BY Fields DEF Whole
<1>1. /\ x \in VmType /\ x.writing = v.writing \ {r}
      /\ x.stopTimer = v.stopTimer /\ x.orphans = v.orphans /\ x.deadline = v.deadline
      /\ x.park = v.park /\ x.pingId = v.pingId
      /\ SamePhase(x, v) /\ SameRuns(x, v) /\ SameJobs(x, v) /\ SameCpu(x, v) /\ SameLine(x, v) /\ SameLoad(x, v)
  BY <1>0, WrittenIs
<1>2. /\ x.state = v.state /\ x.phase = v.phase /\ x.jobs = v.jobs /\ x.ran = v.ran
      /\ x.accepted = v.accepted /\ x.run = v.run /\ x.queued = v.queued /\ x.ended = v.ended /\ x.starts = v.starts
      /\ x.hellos = v.hellos /\ x.line = v.line /\ x.prog = v.prog
  BY <1>1 DEF SamePhase, SameRuns, SameJobs, SameLine
<1>3. Less(x, v)
  <2>1. IsRest(x.line, v.line)
    <3>1. v.line \in Seq([type : Frames, id : Nat])
      BY Fields
    <3> QED BY <1>2, <3>1, AllIsRest
  <2> QED BY <1>1, <1>2, <2>1 DEF Less
<1>4. Safe(x)
  BY <1>0, <1>1, <1>3, LessIsSafe
<1>5. Kept(x)
  BY <1>2 DEF Whole, Kept
<1>6. ASSUME v.run # r \/ v.ended[r] # "no" PROVE Moving(x)
  <2>1. v.state \in {"starting", "running"} => v.run # r
    BY <1>6 DEF Whole, Kept
  <2>2. v.run \in v.writing /\ v.run # r => x.run \in x.writing
    BY <1>1, <1>2
  <2> QED BY <1>1, <1>2, <2>1, <2>2 DEF Whole, Moving, BeginPending
<1>7. ASSUME v.run = r, v.ended[r] = "no"
      PROVE  v.state = "starting" /\ v.phase[r] = "files" /\ v.ran = 0 /\ v.deadline = "off"
  <2>1. v.state = "starting" /\ v.phase[r] = "files"
    BY <1>0, <1>7 DEF Safe, Timers
  <2> QED BY <1>7, <2>1 DEF Whole, Moving
<1> QED BY <1>1, <1>4, <1>5, <1>6, <1>7

RunSent(v, r) == Arm([Send(v, "RUN", r) EXCEPT !.phase[r] = "run", !.ran = Count(@)], "STARTED")

LEMMA RunSentIs ==
  ASSUME NEW v \in VmType, NEW r \in Runs, v.ran = 0, NEW x, x = RunSent(v, r)
  PROVE  /\ x.line = Append(v.line, [type |-> "RUN", id |-> r])
         /\ x.phase = [v.phase EXCEPT ![r] = "run"] /\ x.ran = 1 /\ x.deadline = "STARTED"
         /\ x.state = v.state /\ x.hellos = v.hellos /\ x.prog = v.prog
         /\ x.stopTimer = v.stopTimer /\ x.orphans = v.orphans
         /\ x.park = v.park /\ x.pingId = v.pingId /\ x.writing = v.writing
         /\ SameRuns(x, v) /\ SameJobs(x, v) /\ SameCpu(x, v) /\ SameLoad(x, v)
<1> DEFINE m == [type |-> "RUN", id |-> r]
           s == Send(v, "RUN", r)
           g == [s EXCEPT !.phase[r] = "run", !.ran = Count(@)]
<1>1. s = [v EXCEPT !.line = Append(v.line, m)]
  BY DEF Send
<1> HIDE DEF m
<1>2. /\ s.line = Append(v.line, m) /\ s.ran = v.ran /\ s.phase = v.phase /\ DOMAIN s = DOMAIN v
      /\ s.state = v.state /\ s.hellos = v.hellos /\ s.prog = v.prog /\ s.deadline = v.deadline
      /\ s.stopTimer = v.stopTimer /\ s.orphans = v.orphans
      /\ s.park = v.park /\ s.pingId = v.pingId /\ s.writing = v.writing
      /\ SameRuns(s, v) /\ SameJobs(s, v) /\ SameCpu(s, v) /\ SameLoad(s, v)
  BY <1>1 DEF VmType, SameRuns, SameJobs, SameCpu, SameLoad
<1>3. s \in VmType
  <2>1. "RUN" \in Frames /\ r \in Nat
    BY AssumeTypes DEF Frames, Runs
  <2> QED BY <2>1, SendType
<1> HIDE DEF s
<1>4. x = [g EXCEPT !.deadline = "STARTED"]
  BY DEF RunSent, Arm, s
<1>5. Count(0) = 1
  BY DEF Count
<1>6. /\ g.line = s.line /\ g.ran = Count(s.ran) /\ g.phase = [s.phase EXCEPT ![r] = "run"] /\ DOMAIN g = DOMAIN s
      /\ g.state = s.state /\ g.hellos = s.hellos /\ g.prog = s.prog
      /\ g.stopTimer = s.stopTimer /\ g.orphans = s.orphans
      /\ g.park = s.park /\ g.pingId = s.pingId /\ g.writing = s.writing
      /\ SameRuns(g, s) /\ SameJobs(g, s) /\ SameCpu(g, s) /\ SameLoad(g, s)
  BY <1>3 DEF VmType, SameRuns, SameJobs, SameCpu, SameLoad
<1> HIDE DEF g
<1>8. /\ x.line = g.line /\ x.ran = g.ran /\ x.phase = g.phase /\ x.deadline = "STARTED"
      /\ x.state = g.state /\ x.hellos = g.hellos /\ x.prog = g.prog
      /\ x.stopTimer = g.stopTimer /\ x.orphans = g.orphans
      /\ x.park = g.park /\ x.pingId = g.pingId /\ x.writing = g.writing
      /\ SameRuns(x, g) /\ SameJobs(x, g) /\ SameCpu(x, g) /\ SameLoad(x, g)
  <2>1. DOMAIN g = DOMAIN s
    BY <1>6
  <2>2. {"line", "ran", "phase", "deadline", "state", "hellos", "prog", "stopTimer", "orphans", "park", "pingId",
         "writing", "accepted", "run", "queued", "ended", "starts", "jobs", "built", "want", "shown", "cpu", "visible",
         "loading", "load", "told"} \subseteq DOMAIN g
    BY <1>3, <2>1 DEF VmType
  <2> QED BY <1>4, <2>2 DEF SameRuns, SameJobs, SameCpu, SameLoad
<1>9. SameRuns(x, v) /\ SameJobs(x, v) /\ SameCpu(x, v) /\ SameLoad(x, v)
  BY <1>2, <1>6, <1>8, SameAgain
<1>10. x.line = Append(v.line, m) /\ x.phase = [v.phase EXCEPT ![r] = "run"] /\ x.ran = 1
  <2>1. x.line = Append(v.line, m)
    BY Zenon, <1>2, <1>6, <1>8
  <2>2. x.phase = [v.phase EXCEPT ![r] = "run"]
    BY Zenon, <1>2, <1>6, <1>8
  <2> QED BY <1>2, <1>5, <1>6, <1>8, <2>1, <2>2
<1> QED BY <1>2, <1>6, <1>8, <1>9, <1>10 DEF m

LEMMA FilesWrittenKeeps ==
  ASSUME Whole(vm), FilesWritten, NEW x, x = vm'
  PROVE  Whole(x) /\ Goes(vm, x)
<1>0. vm \in VmType /\ Safe(vm) /\ Kept(vm)
  BY DEF Whole, Safe
<1>1. PICK r \in vm.writing :
        LET v == [vm EXCEPT !.writing = @ \ {r}] IN
        x = IF v.run # r \/ v.ended[r] # "no" THEN v ELSE RunSent(v, r)
  BY DEF FilesWritten, RunSent
<1> DEFINE v == [vm EXCEPT !.writing = @ \ {r}]
           m == [type |-> "RUN", id |-> r]
<1>2. r \in Runs /\ r # None
  BY <1>0, Fields DEF Runs, None
<1>3. x = IF v.run # r \/ v.ended[r] # "no" THEN v ELSE RunSent(v, r)
  BY <1>1
<1>4. /\ Safe(v) /\ Kept(v) /\ v \in VmType /\ v.writing = vm.writing \ {r} /\ v.deadline = vm.deadline
      /\ SamePhase(v, vm) /\ SameRuns(v, vm) /\ SameJobs(v, vm) /\ SameCpu(v, vm) /\ SameLine(v, vm) /\ SameLoad(v, vm)
      /\ vm.run # r \/ vm.ended[r] # "no" => Moving(v)
      /\ vm.run = r /\ vm.ended[r] = "no" =>
           vm.state = "starting" /\ vm.phase[r] = "files" /\ vm.ran = 0 /\ vm.deadline = "off"
  BY <1>0, WrittenKeeps
<1> HIDE DEF v
<1>5. v.run = vm.run /\ v.ended = vm.ended /\ v.state = vm.state /\ v.phase = vm.phase /\ v.ran = vm.ran
  BY <1>4 DEF SameRuns, SamePhase, SameLine
<1>6. CASE vm.run # r \/ vm.ended[r] # "no"
  <2>1. x = v
    BY <1>3, <1>5, <1>6
  <2>2. Whole(v)
    BY <1>4, <1>6 DEF Whole
  <2> QED BY <1>4, <1>5, <2>1, <2>2, Silent
<1>7. CASE vm.run = r /\ vm.ended[r] = "no"
  <2>1. x = RunSent(v, r)
    BY <1>3, <1>5, <1>7
  <2>2. /\ v.state = "starting" /\ v.phase[r] = "files" /\ v.ran = 0 /\ v.run = r /\ v.ended[r] = "no"
        /\ v.load = "no" /\ r \notin v.writing
    <3>1. v.state = "starting" /\ v.phase[r] = "files" /\ v.ran = 0 /\ v.run = r /\ v.ended[r] = "no"
      BY <1>4, <1>5, <1>7
    <3> QED BY <1>4, <3>1, InHand
  <2>3. /\ x.line = Append(v.line, m)
        /\ x.phase = [v.phase EXCEPT ![r] = "run"] /\ x.ran = 1 /\ x.deadline = "STARTED"
        /\ x.state = v.state /\ x.hellos = v.hellos /\ x.prog = v.prog
        /\ x.stopTimer = v.stopTimer /\ x.orphans = v.orphans
        /\ x.park = v.park /\ x.pingId = v.pingId /\ x.writing = v.writing
        /\ SameRuns(x, v) /\ SameJobs(x, v) /\ SameCpu(x, v) /\ SameLoad(x, v)
    BY <1>2, <1>4, <2>1, <2>2, RunSentIs
  <2>4. x \in VmType
    BY StepType DEF HostStep
  <2>5. /\ x.accepted = v.accepted /\ x.run = v.run /\ x.queued = v.queued /\ x.ended = v.ended /\ x.starts = v.starts
        /\ x.jobs = v.jobs /\ x.built = v.built
        /\ x.want = v.want /\ x.shown = v.shown /\ x.cpu = v.cpu /\ x.visible = v.visible
        /\ x.loading = v.loading /\ x.load = v.load /\ x.told = v.told
    BY <2>3 DEF SameRuns, SameJobs, SameCpu, SameLoad
  <2>6. x.phase[r] = "run" /\ \A q \in Runs : q # r => x.phase[q] = v.phase[q]
    <3>1. v.phase \in [Runs -> Phases]
      BY <1>4, Fields
    <3> QED BY <1>2, <2>3, <3>1
  <2>7. Timers(x)
    <3>1. \A q \in v.writing : v.ended[q] # "no"
      BY <1>4, <2>2 DEF Safe, Timers
    <3> QED BY <1>4, <2>2, <2>3, <2>5, <3>1 DEF Safe, Timers
  <2>8. Seen(x)
    BY <1>4, <2>5 DEF Safe, Seen
  <2>9. Machine(x)
    BY <1>4, <2>2, <2>3, <2>5 DEF Safe, Machine, BeginPending, Greeting
  <2>10. Queue(x)
    <3>1. \A k \in DOMAIN v.jobs : v.jobs[k].op # "begin"
      BY <1>4, <2>2 DEF Safe, Queue
    <3> QED BY <1>4, <2>2, <2>3, <2>5, <3>1 DEF Safe, Queue
  <2>11. Talk(x) /\ Program(x)
    <3>1. /\ v.line \in Seq([type : Frames, id : Nat]) /\ m \in [type : Frames, id : Nat]
          /\ m.type = "RUN" /\ m.id = r
      <4>1. "RUN" \in Frames /\ r \in Nat
        BY <1>2, AssumeTypes DEF Frames, Runs
      <4> QED BY <1>4, <4>1, Fields
    <3> HIDE DEF m
    <3>2. /\ DOMAIN x.line = DOMAIN v.line \cup {Len(v.line) + 1} /\ x.line[Len(v.line) + 1] = m
          /\ \A k \in DOMAIN v.line : x.line[k] = v.line[k]
      BY <2>3, <3>1, AppendIs
    <3>3. v.prog = None /\ \A k \in DOMAIN v.line : v.line[k].type # "RUN"
      BY <1>4, <2>2 DEF Safe, Program
    <3>4. \A k \in DOMAIN x.line : x.line[k].type = "RUN" => k = Len(v.line) + 1 /\ x.line[k].id = r
      BY <3>1, <3>2, <3>3
    <3>5. \A k \in DOMAIN x.line : x.line[k].type \in {"HELLO", "PING"} => x.line[k].id \in Ids
      <4>1. \A k \in DOMAIN v.line : v.line[k].type \in {"HELLO", "PING"} => v.line[k].id \in Ids
        BY <1>4 DEF Safe, Talk
      <4> QED BY <3>1, <3>2, <4>1
    <3>6. Talk(x)
      BY <1>4, <2>2, <2>3, <2>5, <3>5 DEF Safe, Talk
    <3>7. Program(x)
      BY <1>2, <2>2, <2>3, <2>5, <2>6, <3>3, <3>4 DEF Program
    <3> QED BY <3>6, <3>7
  <2>12. Load(x)
    BY <1>4, <2>2, <2>3, <2>5 DEF Safe, Load
  <2>13. Kept(x)
    BY <1>4, <2>3, <2>5 DEF Kept
  <2>14. Moving(x)
    BY <2>2, <2>3, <2>5, <2>6 DEF Moving
  <2>15. Whole(x)
    BY <2>4, <2>7, <2>8, <2>9, <2>10, <2>11, <2>12, <2>13, <2>14 DEF Whole, Safe
  <2>16. SameRuns(x, vm) /\ x.state = vm.state
    BY <1>4, <1>5, <2>3, SameAgain
  <2> QED BY <2>15, <2>16, Silent
<1> QED BY <1>6, <1>7

LEMMA FilesNotWrittenKeeps ==
  ASSUME Whole(vm), FilesNotWritten, NEW x, x = vm'
  PROVE  Whole(x) /\ Goes(vm, x)
<1>0. vm \in VmType /\ Safe(vm) /\ Kept(vm)
  BY DEF Whole, Safe
<1>1. PICK r \in vm.writing :
        LET v == [vm EXCEPT !.writing = @ \ {r}] IN
        x = IF v.run # r \/ v.ended[r] # "no" THEN v ELSE EndAndPark(v, r, "broken")
  BY DEF FilesNotWritten
<1> DEFINE v == [vm EXCEPT !.writing = @ \ {r}]
<1>3. x = IF v.run # r \/ v.ended[r] # "no" THEN v ELSE EndAndPark(v, r, "broken")
  BY <1>1
<1>4. /\ Safe(v) /\ Kept(v) /\ v \in VmType
      /\ SamePhase(v, vm) /\ SameRuns(v, vm)
      /\ vm.run # r \/ vm.ended[r] # "no" => Moving(v)
      /\ vm.run = r /\ vm.ended[r] = "no" => vm.state = "starting"
  BY <1>0, WrittenKeeps
<1> HIDE DEF v
<1>5. v.run = vm.run /\ v.ended = vm.ended /\ v.state = vm.state /\ v.accepted = vm.accepted /\ v.starts = vm.starts
  BY <1>4 DEF SameRuns, SamePhase
<1>6. CASE vm.run # r \/ vm.ended[r] # "no"
  <2>1. x = v
    BY <1>3, <1>5, <1>6
  <2>2. Whole(v)
    BY <1>4, <1>6 DEF Whole
  <2> QED BY <1>4, <1>5, <2>1, <2>2, Silent
<1>7. CASE vm.run = r /\ vm.ended[r] = "no"
  <2>1. x = EndAndPark(v, v.run, "broken") /\ v.state = "starting"
    BY <1>3, <1>4, <1>5, <1>7
  <2>2. "broken" \in Reasons
    BY DEF Reasons
  <2>3. Whole(x) /\ x.state = "parking" /\ Ends(v, x)
    BY <1>4, <2>1, <2>2, EndAndParkKeeps
  <2>4. Ends(vm, x)
    BY <1>5, <2>3 DEF Ends, Ending
  <2>5. << vm.state, x.state >> \in Rows
    BY <1>5, <2>1, <2>3 DEF Rows, Table
  <2> QED BY <2>3, <2>4, <2>5 DEF Goes
<1> QED BY <1>6, <1>7

-----------------------------------------------------------------------------
(* The steps of a load.                                                    *)
LEMMA DownloadedKeeps ==
  ASSUME Whole(vm), Downloaded, NEW x, x = vm'
  PROVE  Whole(x) /\ Goes(vm, x)
<1> DEFINE n == NoMachine(vm)
<1>0. vm \in VmType /\ Safe(vm) /\ Kept(vm) /\ vm.load = "bundle"
  BY DEF Downloaded, Whole, Safe
<1>1. x = [n EXCEPT !.bundle = TRUE, !.load = "build"]
  BY DEF Downloaded
<1>2. /\ n \in VmType /\ n.built = FALSE /\ n.jobs = << >> /\ n.want = FALSE /\ n.cpu = FALSE /\ n.deadline = "off"
      /\ n.shown = vm.shown /\ n.visible = vm.visible
      /\ n.stopTimer = vm.stopTimer /\ n.orphans = vm.orphans
      /\ n.park = vm.park /\ n.pingId = vm.pingId /\ n.writing = vm.writing
      /\ SamePhase(n, vm) /\ SameRuns(n, vm) /\ SameLine(n, vm) /\ SameLoad(n, vm)
  BY <1>0, NoMachineIs
<1> HIDE DEF n
<1>3. /\ x.built = FALSE /\ x.jobs = << >> /\ x.want = FALSE /\ x.cpu = FALSE /\ x.deadline = "off"
      /\ x.stopTimer = n.stopTimer /\ x.orphans = n.orphans
      /\ x.park = n.park /\ x.pingId = n.pingId /\ x.writing = n.writing
      /\ x.load = "build" /\ x.loading = n.loading /\ x.told = n.told
      /\ SamePhase(x, n) /\ SameRuns(x, n) /\ SameLine(x, n)
  BY <1>1, <1>2 DEF VmType, SamePhase, SameRuns, SameLine
<1>4. x \in VmType
  BY StepType DEF HostStep
<1>5. SamePhase(x, vm) /\ SameRuns(x, vm) /\ SameLine(x, vm)
  BY <1>2, <1>3, SameAgain
<1>6. /\ x.state = vm.state /\ x.phase = vm.phase
      /\ x.accepted = vm.accepted /\ x.run = vm.run /\ x.queued = vm.queued
      /\ x.ended = vm.ended /\ x.starts = vm.starts
      /\ x.hellos = vm.hellos /\ x.line = vm.line /\ x.prog = vm.prog /\ x.ran = vm.ran
      /\ x.loading = vm.loading /\ x.told = vm.told
      /\ x.stopTimer = vm.stopTimer /\ x.orphans = vm.orphans
      /\ x.park = vm.park /\ x.pingId = vm.pingId /\ x.writing = vm.writing
  BY <1>2, <1>3, <1>5 DEF SamePhase, SameRuns, SameLine, SameLoad
<1>7. vm.state \in {"loading", "failed"} /\ vm.loading = "pending" /\ vm.park = "no"
  BY <1>0 DEF Safe, Load, Timers
<1>8. Timers(x)
  BY <1>0, <1>3, <1>6, <1>7 DEF Safe, Timers
<1>9. Seen(x)
  BY <1>3 DEF Seen
<1>10. Machine(x)
  BY <1>0, <1>3, <1>6, <1>7 DEF Safe, Machine, Greeting
<1>11. Queue(x)
  <2>1. DOMAIN x.jobs = {}
    BY <1>3
  <2> QED BY <2>1 DEF Queue
<1>12. Talk(x) /\ Program(x)
  BY <1>0, <1>3, <1>6, <1>7 DEF Safe, Talk, Program
<1>13. Load(x)
  BY <1>0, <1>3, <1>6, <1>7 DEF Safe, Load, Greeting
<1>14. Kept(x)
  BY <1>0, <1>6 DEF Kept
<1>15. Whole(x)
  BY <1>4, <1>6, <1>7, <1>8, <1>9, <1>10, <1>11, <1>12, <1>13, <1>14, Still DEF Whole, Safe
<1> QED BY <1>5, <1>6, <1>15, Silent

(* The bundle is not there, or no emulator starts.                         *)
LEMMA LoadFails ==
  ASSUME Whole(vm), vm.load \in {"bundle", "build"}, NEW x, x = FailLoad(vm)
  PROVE  Whole(x) /\ Goes(vm, x)
<1>0. vm \in VmType /\ Safe(vm) /\ Kept(vm) /\ vm.state \in {"loading", "failed"}
  BY DEF Whole, Safe, Load
<1>1. vm.park = "no"
  BY <1>0 DEF Safe, Timers
<1>2. \A k \in DOMAIN vm.jobs : vm.jobs[k].op \notin Settling
  BY <1>0, <1>1, NothingAwaited
<1>3. MayFail(vm)
  BY <1>0, <1>2, FailsInSafety
<1>4. /\ Whole(x) /\ x.state = "failed" /\ Ending(vm, x, "broken")
      /\ x.accepted = vm.accepted /\ x.starts = vm.starts
  BY <1>0, <1>1, <1>3, FailLoadKeeps
<1>5. Ends(vm, x)
  BY <1>4 DEF Ends, Reasons
<1>6. x.state = vm.state \/ << vm.state, x.state >> \in Rows
  BY <1>0, <1>4 DEF Rows, Table
<1> QED BY <1>4, <1>5, <1>6 DEF Goes

LEMMA NotDownloadedKeeps ==
  ASSUME Whole(vm), NotDownloaded, NEW x, x = vm'
  PROVE  Whole(x) /\ Goes(vm, x)
<1>1. vm.load = "bundle" /\ x = FailLoad(vm)
  BY DEF NotDownloaded
<1> QED BY <1>1, LoadFails

LEMMA NotBuiltKeeps ==
  ASSUME Whole(vm), NotBuilt, NEW x, x = vm'
  PROVE  Whole(x) /\ Goes(vm, x)
<1>1. vm.load = "build" /\ x = FailLoad(vm)
  BY DEF NotBuilt
<1> QED BY <1>1, LoadFails

(* A machine that may be restored for a load.                              *)
Restorable(v) ==
  /\ v.state = "loading" /\ v.built /\ v.loading = "pending" /\ v.told # "ready"
  /\ v.run = None /\ v.deadline = "off" /\ ~v.stopTimer /\ v.orphans = 0 /\ v.park = "no" /\ v.ran <= 1
  /\ \A r \in v.writing : v.ended[r] # "no"
  /\ \A k \in DOMAIN v.jobs : v.jobs[k].op \in Sights
  /\ v.cpu = (v.want /\ v.shown) /\ InSight(v.jobs, v.shown, v.visible)
  /\ \A i \in Ids : v.hellos[i] # "load"
  /\ \A k \in DOMAIN v.line : v.line[k].type \in {"HELLO", "PING"} => v.line[k].id \in Ids
  /\ Program(v) /\ Kept(v)

LEMMA TriesIs ==
  ASSUME NEW v \in VmType, NEW t \in Nat, NEW x, x = [v EXCEPT !.tries = t]
  PROVE  x \in VmType /\ SameButEnds(x, v) /\ x.ended = v.ended
<1>1. x \in VmType
  BY Updates
<1>2. SameRuns(x, v)
  BY DEF VmType, SameRuns
<1>3. /\ SamePhase(x, v) /\ SameJobs(x, v) /\ SameCpu(x, v) /\ SameLine(x, v) /\ SameLoad(x, v)
      /\ SameTimers(x, v)
  BY DEF VmType, SamePhase, SameJobs, SameCpu, SameLine, SameLoad, SameTimers
<1> QED BY <1>1, <1>2, <1>3 DEF SameButEnds, SameRuns

LEMMA TryIs ==
  ASSUME NEW v \in VmType, NEW t \in Nat, NEW x, x = [v EXCEPT !.load = "restore", !.tries = t]
  PROVE  /\ x \in VmType /\ x.load = "restore" /\ x.loading = v.loading /\ x.told = v.told
         /\ SamePhase(x, v) /\ SameRuns(x, v) /\ SameJobs(x, v) /\ SameCpu(x, v) /\ SameLine(x, v) /\ SameTimers(x, v)
<1> DEFINE a == [v EXCEPT !.tries = t]
<1>1. a \in VmType /\ SameButEnds(a, v) /\ a.ended = v.ended
  BY TriesIs
<1>2. x = [a EXCEPT !.load = "restore"]
  BY DEF VmType
<1> HIDE DEF a
<1>3. /\ x \in VmType /\ x.load = "restore" /\ x.loading = a.loading /\ x.told = a.told
      /\ SamePhase(x, a) /\ SameRuns(x, a) /\ SameJobs(x, a) /\ SameCpu(x, a) /\ SameLine(x, a) /\ SameTimers(x, a)
  BY <1>1, <1>2, LoadIs
<1>4. /\ SamePhase(a, v) /\ SameRuns(a, v) /\ SameJobs(a, v) /\ SameCpu(a, v) /\ SameLine(a, v) /\ SameTimers(a, v)
      /\ a.loading = v.loading /\ a.told = v.told
  BY <1>1 DEF SameButEnds, SameRuns, SameLoad
<1> QED BY <1>3, <1>4, SameAgain

LEMMA TryRestoreKeeps ==
  ASSUME NEW v \in VmType, Restorable(v), NEW x, x = TryRestore(v)
  PROVE  /\ Whole(x)
         /\ \/ x.state = "loading" /\ SameRuns(x, v)
            \/ x.state = "failed" /\ x.accepted = v.accepted /\ x.starts = v.starts /\ Ending(v, x, "broken")
<1> DEFINE a == [v EXCEPT !.load = "restore", !.tries = v.tries + 1]
           d == DropBundle(v)
<1>0. v.state = "loading" /\ v.tries \in Nat
  BY Fields DEF Restorable
<1>1. x = Enqueue(a, "loadRestore", None) \/ x = FailLoad(d)
  BY <1>0 DEF TryRestore
<1>2. CASE x = Enqueue(a, "loadRestore", None)
  <2>1. /\ a \in VmType /\ a.load = "restore" /\ a.loading = v.loading /\ a.told = v.told
        /\ SamePhase(a, v) /\ SameRuns(a, v) /\ SameJobs(a, v) /\ SameCpu(a, v) /\ SameLine(a, v) /\ SameTimers(a, v)
    <3>1. v.tries + 1 \in Nat
      BY <1>0
    <3> QED BY <3>1, TryIs
  <2> HIDE DEF a
  <2>2. /\ x \in VmType /\ x.jobs = Append(a.jobs, Job("loadRestore", None)) /\ x.built = a.built
        /\ SamePhase(x, a) /\ SameRuns(x, a) /\ SameCpu(x, a) /\ SameLine(x, a) /\ SameLoad(x, a)
        /\ SameTimers(x, a)
    <3>1. "loadRestore" \in Ops /\ None \in 0 .. MaxRuns
      BY AssumeTypes DEF Ops
    <3> QED BY <1>2, <2>1, <3>1, EnqueueIs
  <2>3. SamePhase(x, v) /\ SameRuns(x, v) /\ SameCpu(x, v) /\ SameLine(x, v) /\ SameTimers(x, v)
    BY <2>1, <2>2, SameAgain
  <2>4. x.jobs = Append(v.jobs, Job("loadRestore", None)) /\ x.built = v.built
        /\ x.load = "restore" /\ x.loading = v.loading /\ x.told = v.told
    BY <2>1, <2>2 DEF SameJobs, SameLoad
  <2>5. /\ x.state = v.state /\ x.phase = v.phase
        /\ x.accepted = v.accepted /\ x.run = v.run /\ x.queued = v.queued
        /\ x.ended = v.ended /\ x.starts = v.starts
        /\ x.want = v.want /\ x.shown = v.shown /\ x.cpu = v.cpu /\ x.visible = v.visible
        /\ x.hellos = v.hellos /\ x.line = v.line /\ x.prog = v.prog /\ x.ran = v.ran
        /\ x.stopTimer = v.stopTimer /\ x.orphans = v.orphans /\ x.deadline = v.deadline
        /\ x.park = v.park /\ x.pingId = v.pingId /\ x.writing = v.writing
    BY <2>3 DEF SamePhase, SameRuns, SameCpu, SameLine, SameTimers
  <2>6. Queue(x) /\ InSight(x.jobs, v.shown, v.visible)
    <3>1. "loadRestore" \in Settling
      BY DEF Settling
    <3>2. \A k \in DOMAIN v.jobs : v.jobs[k].op # "begin" /\ v.jobs[k].op \in Sights
      BY DEF Restorable, Sights
    <3>3. InSight(v.jobs, v.shown, v.visible)
      BY DEF Restorable
    <3> QED BY <2>2, <2>4, <3>1, <3>2, <3>3, AwaitedQueues
  <2>7. Timers(x)
    BY <2>4, <2>5 DEF Restorable, Timers, Active
  <2>8. Seen(x)
    BY <2>4, <2>5, <2>6 DEF Restorable, Seen
  <2>9. Machine(x)
    BY <2>4, <2>5 DEF Restorable, Machine, Greeting
  <2>10. Talk(x)
    BY <2>4, <2>5 DEF Restorable, Talk
  <2>11. Program(x)
    BY <2>4, <2>5 DEF Restorable, Program
  <2>12. Load(x)
    BY <2>4, <2>5 DEF Restorable, Load, Greeting
  <2>13. Kept(x)
    BY <2>5 DEF Restorable, Kept
  <2>14. Whole(x)
    BY <1>0, <2>2, <2>5, <2>6, <2>7, <2>8, <2>9, <2>10, <2>11, <2>12, <2>13, Still DEF Whole, Safe
  <2> QED BY <1>0, <2>3, <2>5, <2>14
<1>3. CASE x = FailLoad(d)
  <2>1. d \in VmType /\ SameButEnds(d, v) /\ d.ended = v.ended
    BY DropBundleIs
  <2> HIDE DEF d
  <2>2. /\ d.state = v.state /\ d.phase = v.phase /\ d.jobs = v.jobs /\ d.built = v.built
        /\ d.accepted = v.accepted /\ d.run = v.run /\ d.queued = v.queued
        /\ d.ended = v.ended /\ d.starts = v.starts
        /\ d.want = v.want /\ d.shown = v.shown /\ d.cpu = v.cpu /\ d.visible = v.visible
        /\ d.hellos = v.hellos /\ d.line = v.line /\ d.prog = v.prog /\ d.ran = v.ran
        /\ d.load = v.load /\ d.orphans = v.orphans /\ d.park = v.park /\ d.writing = v.writing
    BY <2>1 DEF SameButEnds, SamePhase, SameJobs, SameCpu, SameLine, SameLoad, SameTimers
  <2>3. Program(d)
    BY <2>2 DEF Restorable, Program
  <2>4. Seen(d)
    BY <2>2 DEF Restorable, Seen
  <2>5. Gathered(d)
    BY <2>2 DEF Restorable, Kept, Gathered
  <2>6. /\ \A k \in DOMAIN d.jobs : d.jobs[k].op \notin Settling
        /\ \A k \in DOMAIN d.jobs : d.jobs[k].op = "begin" => d.jobs[k].run # None
        /\ \A i, j \in DOMAIN d.jobs : d.jobs[i].op = "begin" /\ d.jobs[j].op = "begin" => i = j
    BY <2>2 DEF Restorable, Sights, Settling
  <2>7. MayFail(d)
    BY <2>2, <2>3, <2>4, <2>5, <2>6 DEF Restorable, MayFail
  <2>8. d.park = "no"
    BY <2>2 DEF Restorable
  <2>9. /\ Whole(x) /\ x.state = "failed" /\ Ending(d, x, "broken")
        /\ x.accepted = d.accepted /\ x.starts = d.starts
    BY <1>3, <2>1, <2>7, <2>8, FailLoadKeeps
  <2> QED BY <2>2, <2>9 DEF Ending
<1> QED BY <1>1, <1>2, <1>3

(* The load is over for a VM that failed meanwhile.                        *)
LEMMA LoadOverIs ==
  ASSUME NEW v \in VmType, NEW x, x = LoadOver(v, "none")
  PROVE  /\ x \in VmType /\ x.load = "no" /\ x.loading = "none" /\ x.told = v.told
         /\ SamePhase(x, v) /\ SameRuns(x, v) /\ SameJobs(x, v) /\ SameCpu(x, v) /\ SameLine(x, v) /\ SameTimers(x, v)
<1>1. x \in VmType
  BY LoadOverType
<1>2. x.load = "no" /\ x.loading = "none" /\ x.told = v.told
  BY DEF LoadOver, VmType
<1>3. SamePhase(x, v) /\ SameRuns(x, v) /\ SameJobs(x, v) /\ SameCpu(x, v) /\ SameLine(x, v) /\ SameTimers(x, v)
  BY DEF LoadOver, VmType, SamePhase, SameRuns, SameJobs, SameCpu, SameLine, SameTimers
<1> QED BY <1>1, <1>2, <1>3

LEMMA BuiltKeeps ==
  ASSUME Whole(vm), Built, NEW x, x = vm'
  PROVE  Whole(x) /\ Goes(vm, x)
<1> DEFINE n == NewMachine(vm)
<1>0. vm \in VmType /\ Safe(vm) /\ Kept(vm) /\ vm.load = "build"
  BY DEF Built, Whole, Safe
<1>1. x = TryRestore(n)
  BY DEF Built
<1>2. /\ n \in VmType /\ n.built = TRUE /\ n.shown = TRUE /\ n.line = << >> /\ n.prog = None
      /\ n.jobs \in Seq(JobType) /\ InSight(n.jobs, n.shown, n.visible)
      /\ \A k \in DOMAIN n.jobs : n.jobs[k].op \in Sights
      /\ n.want = vm.want /\ n.cpu = vm.cpu /\ n.visible = vm.visible /\ n.hellos = vm.hellos /\ n.ran = vm.ran
      /\ SamePhase(n, vm) /\ SameRuns(n, vm) /\ SameLoad(n, vm) /\ SameTimers(n, vm)
  BY <1>0, NewMachineIs
<1> HIDE DEF n
<1>3. /\ n.state = vm.state /\ n.phase = vm.phase
      /\ n.accepted = vm.accepted /\ n.run = vm.run /\ n.queued = vm.queued
      /\ n.ended = vm.ended /\ n.starts = vm.starts
      /\ n.loading = vm.loading /\ n.load = vm.load /\ n.told = vm.told
      /\ n.stopTimer = vm.stopTimer /\ n.orphans = vm.orphans /\ n.deadline = vm.deadline
      /\ n.park = vm.park /\ n.pingId = vm.pingId /\ n.writing = vm.writing
  BY <1>2 DEF SamePhase, SameRuns, SameLoad, SameTimers
<1>4. /\ vm.state \in {"loading", "failed"} /\ vm.loading = "pending" /\ vm.park = "no" /\ vm.orphans = 0 /\ ~vm.stopTimer
      /\ vm.run = None /\ vm.told # "ready" /\ ~vm.built /\ vm.ran <= 1
      /\ \A r \in vm.writing : vm.ended[r] # "no"
      /\ \A i \in Ids : vm.hellos[i] # "load"
  <2>1. vm.state \in {"loading", "failed"} /\ vm.loading = "pending" /\ vm.told # "ready"
    BY <1>0 DEF Safe, Load
  <2>2. /\ vm.park = "no" /\ vm.orphans = 0 /\ ~vm.stopTimer /\ vm.run = None
        /\ \A r \in vm.writing : vm.ended[r] # "no"
    BY <1>0, <2>1 DEF Safe, Timers, Active
  <2>3. ~vm.built /\ vm.ran <= 1
    BY <1>0 DEF Safe, Machine
  <2>4. \A i \in Ids : vm.hellos[i] # "load"
    BY <1>0 DEF Safe, Talk
  <2> QED BY <2>1, <2>2, <2>3, <2>4
<1>5. /\ vm.want = FALSE /\ vm.cpu = FALSE
  <2>1. vm.want \in BOOLEAN /\ vm.cpu \in BOOLEAN
    BY <1>0, Fields
  <2>2. ~vm.want /\ vm.cpu = (vm.want /\ vm.shown)
    BY <1>0, <1>4 DEF Safe, Seen
  <2> QED BY <2>1, <2>2
<1>6. n.cpu = (n.want /\ n.shown)
  BY <1>2, <1>5
<1>7. Program(n)
  <2>1. DOMAIN n.line = {}
    BY <1>2
  <2> QED BY <1>2, <2>1 DEF Program
<1>8. Kept(n)
  BY <1>0, <1>3 DEF Kept
<1>9. vm.deadline = "off"
  BY <1>0 DEF Safe, Timers
<1>10. DOMAIN n.line = {}
  BY <1>2
<1>11. CASE vm.state = "loading"
  <2>1. Restorable(n)
    BY <1>2, <1>3, <1>4, <1>6, <1>7, <1>8, <1>9, <1>10, <1>11 DEF Restorable
  <2>2. /\ Whole(x)
        /\ \/ x.state = "loading" /\ SameRuns(x, n)
           \/ x.state = "failed" /\ x.accepted = n.accepted /\ x.starts = n.starts /\ Ending(n, x, "broken")
    BY <1>1, <1>2, <2>1, TryRestoreKeeps
  <2>3. CASE x.state = "loading" /\ SameRuns(x, n)
    <3>1. SameRuns(x, vm)
      BY <1>2, <2>3, SameAgain
    <3> QED BY <1>11, <2>2, <2>3, <3>1, Silent
  <2>4. CASE x.state = "failed" /\ x.accepted = n.accepted /\ x.starts = n.starts /\ Ending(n, x, "broken")
    <3>1. Ends(vm, x)
      BY <1>3, <2>4 DEF Ends, Ending, Reasons
    <3>2. << vm.state, x.state >> \in Rows
      BY <1>11, <2>4 DEF Rows, Table
    <3> QED BY <2>2, <3>1, <3>2 DEF Goes
  <2> QED BY <2>2, <2>3, <2>4
<1>12. CASE vm.state = "failed"
  <2>1. x = LoadOver(n, "none")
    BY <1>1, <1>3, <1>12 DEF TryRestore
  <2>2. /\ x \in VmType /\ x.load = "no" /\ x.loading = "none" /\ x.told = n.told
        /\ SamePhase(x, n) /\ SameRuns(x, n) /\ SameJobs(x, n) /\ SameCpu(x, n) /\ SameLine(x, n) /\ SameTimers(x, n)
    BY <1>2, <2>1, LoadOverIs
  <2>3. /\ x.state = "failed" /\ x.phase = n.phase
        /\ x.accepted = n.accepted /\ x.run = n.run /\ x.queued = n.queued
        /\ x.ended = n.ended /\ x.starts = n.starts
        /\ x.jobs = n.jobs /\ x.built = TRUE
        /\ x.want = n.want /\ x.shown = n.shown /\ x.cpu = n.cpu /\ x.visible = n.visible
        /\ x.hellos = n.hellos /\ x.line = n.line /\ x.prog = n.prog /\ x.ran = n.ran
        /\ x.stopTimer = n.stopTimer /\ x.orphans = n.orphans /\ x.deadline = n.deadline
        /\ x.park = n.park /\ x.pingId = n.pingId /\ x.writing = n.writing
    BY <1>2, <1>3, <1>12, <2>2 DEF SamePhase, SameRuns, SameJobs, SameCpu, SameLine, SameTimers
  <2>4. Timers(x)
    BY <1>3, <1>4, <1>9, <1>12, <2>2, <2>3 DEF Timers, Active
  <2>5. Seen(x)
    BY <1>2, <1>6, <2>3 DEF Seen
  <2>6. Machine(x)
    BY <1>2, <1>3, <1>4, <1>5, <2>2, <2>3 DEF Machine, Greeting, Sights
  <2>7. Queue(x)
    BY <1>2, <2>3 DEF Queue, Settling, Sights
  <2>8. Talk(x)
    BY <1>2, <1>4, <1>10, <2>2, <2>3 DEF Talk
  <2>9. Program(x)
    BY <1>2, <1>10, <2>3 DEF Program
  <2>10. Load(x)
    BY <1>3, <1>4, <2>2, <2>3 DEF Load, Greeting
  <2>11. Kept(x)
    BY <1>3, <1>8, <1>12, <2>3 DEF Kept
  <2>12. Whole(x)
    BY <2>2, <2>3, <2>4, <2>5, <2>6, <2>7, <2>8, <2>9, <2>10, <2>11, Still DEF Whole, Safe
  <2>13. SameRuns(x, vm) /\ x.state = vm.state
    BY <1>2, <1>12, <2>2, <2>3, SameAgain
  <2> QED BY <2>12, <2>13, Silent
<1> QED BY <1>4, <1>11, <1>12

-----------------------------------------------------------------------------
(* Timers.                                                                 *)
LoadLate(v) ==
  [v EXCEPT !.deadline = "off", !.strikes = Count(@),
            !.hellos = [i \in Ids |-> IF @[i] = "load" THEN "none" ELSE @[i]]]

LEMMA LoadLateIs ==
  ASSUME NEW v \in VmType, NEW x, x = LoadLate(v)
  PROVE  /\ x \in VmType /\ x.deadline = "off"
         /\ x.stopTimer = v.stopTimer /\ x.orphans = v.orphans
         /\ x.park = v.park /\ x.pingId = v.pingId /\ x.writing = v.writing
         /\ \A i \in Ids : x.hellos[i] # "load"
         /\ x.line = v.line /\ x.prog = v.prog /\ x.ran = v.ran
         /\ SamePhase(x, v) /\ SameRuns(x, v) /\ SameJobs(x, v) /\ SameCpu(x, v) /\ SameLoad(x, v)
<1> DEFINE h == [i \in Ids |-> IF v.hellos[i] = "load" THEN "none" ELSE v.hellos[i]]
<1>1. h \in [Ids -> Purposes \cup {"none"}] /\ \A i \in Ids : h[i] # "load"
  <2>1. v.hellos \in [Ids -> Purposes \cup {"none"}]
    BY Fields
  <2> QED BY <2>1
<1>2. x = [v EXCEPT !.deadline = "off", !.strikes = Count(v.strikes), !.hellos = h]
  BY DEF LoadLate
<1>3. Count(v.strikes) \in 0 .. 2
  <2>1. v.strikes \in 0 .. 2
    BY Fields
  <2> QED BY <2>1, CountType
<1> HIDE DEF h
<1>4. x \in VmType
  <2> DEFINE d == [v EXCEPT !.deadline = "off"]
             e == [d EXCEPT !.strikes = Count(v.strikes)]
  <2>1. d \in VmType
    BY Updates DEF Deadlines
  <2>2. x = [e EXCEPT !.hellos = h]
    BY <1>2
  <2> HIDE DEF d
  <2>3. e \in VmType
    BY <1>3, <2>1, Updates
  <2> HIDE DEF e
  <2>4. \A y \in [Ids -> Purposes \cup {"none"}] : [e EXCEPT !.hellos = y] \in VmType
    BY <2>3, Updates
  <2> QED BY <1>1, <2>2, <2>4
<1>5. /\ x.deadline = "off" /\ x.hellos = h
      /\ x.stopTimer = v.stopTimer /\ x.orphans = v.orphans
      /\ x.park = v.park /\ x.pingId = v.pingId /\ x.writing = v.writing
      /\ x.line = v.line /\ x.prog = v.prog /\ x.ran = v.ran
  BY <1>2 DEF VmType
<1>6. SamePhase(x, v) /\ SameRuns(x, v) /\ SameJobs(x, v) /\ SameCpu(x, v) /\ SameLoad(x, v)
  BY <1>2 DEF VmType, SamePhase, SameRuns, SameJobs, SameCpu, SameLoad
<1> QED BY <1>1, <1>4, <1>5, <1>6

LEMMA LoadDeadlineKeeps ==
  ASSUME Whole(vm), LoadDeadline, NEW x, x = vm'
  PROVE  Whole(x) /\ Goes(vm, x)
<1> DEFINE v == LoadLate(vm)
<1>0. vm \in VmType /\ Safe(vm) /\ Kept(vm) /\ vm.deadline = "load"
  BY DEF LoadDeadline, Whole, Safe
<1>1. x = TryRestore(v)
  BY DEF LoadDeadline, LoadLate
<1>2. /\ v \in VmType /\ v.deadline = "off"
      /\ v.stopTimer = vm.stopTimer /\ v.orphans = vm.orphans
      /\ v.park = vm.park /\ v.pingId = vm.pingId /\ v.writing = vm.writing
      /\ \A i \in Ids : v.hellos[i] # "load"
      /\ v.line = vm.line /\ v.prog = vm.prog /\ v.ran = vm.ran
      /\ SamePhase(v, vm) /\ SameRuns(v, vm) /\ SameJobs(v, vm) /\ SameCpu(v, vm) /\ SameLoad(v, vm)
  BY <1>0, LoadLateIs
<1> HIDE DEF v
<1>3. /\ v.state = vm.state /\ v.phase = vm.phase
      /\ v.accepted = vm.accepted /\ v.run = vm.run /\ v.queued = vm.queued
      /\ v.ended = vm.ended /\ v.starts = vm.starts
      /\ v.jobs = vm.jobs /\ v.built = vm.built
      /\ v.want = vm.want /\ v.shown = vm.shown /\ v.cpu = vm.cpu /\ v.visible = vm.visible
      /\ v.loading = vm.loading /\ v.load = vm.load /\ v.told = vm.told
  BY <1>2 DEF SamePhase, SameRuns, SameJobs, SameCpu, SameLoad
<1>4. vm.load = "greet" /\ vm.state = "loading" /\ vm.loading = "pending" /\ vm.told # "ready" /\ vm.built /\ vm.ran <= 1
  BY <1>0 DEF Safe, Timers, Load, Machine, Greeting
<1>5. /\ vm.park = "no" /\ vm.orphans = 0 /\ ~vm.stopTimer /\ vm.run = None
      /\ \A r \in vm.writing : vm.ended[r] # "no"
  BY <1>0, <1>4 DEF Safe, Timers, Active
<1>6. vm.cpu = (vm.want /\ vm.shown) /\ InSight(vm.jobs, vm.shown, vm.visible)
  BY <1>0, <1>4 DEF Safe, Seen
<1>7. \A k \in DOMAIN vm.jobs : vm.jobs[k].op \in Sights
  <2> TAKE k \in DOMAIN vm.jobs
  <2>1. vm.jobs[k].op \in Ops
    BY <1>0, JobsAre
  <2> QED BY <1>0, <1>4, <1>5, <2>1 DEF Safe, Queue, Ops, Sights
<1>8. \A k \in DOMAIN vm.line : vm.line[k].type \in {"HELLO", "PING"} => vm.line[k].id \in Ids
  BY <1>0 DEF Safe, Talk
<1>9. Program(v)
  BY <1>0, <1>2, <1>3 DEF Safe, Program
<1>10. Kept(v)
  BY <1>0, <1>3 DEF Kept
<1>11. Restorable(v)
  BY <1>2, <1>3, <1>4, <1>5, <1>6, <1>7, <1>8, <1>9, <1>10 DEF Restorable
<1>12. /\ Whole(x)
       /\ \/ x.state = "loading" /\ SameRuns(x, v)
          \/ x.state = "failed" /\ x.accepted = v.accepted /\ x.starts = v.starts /\ Ending(v, x, "broken")
  BY <1>1, <1>2, <1>11, TryRestoreKeeps
<1>13. CASE x.state = "loading" /\ SameRuns(x, v)
  <2>1. SameRuns(x, vm)
    BY <1>2, <1>13, SameAgain
  <2> QED BY <1>4, <1>12, <1>13, <2>1, Silent
<1>14. CASE x.state = "failed" /\ x.accepted = v.accepted /\ x.starts = v.starts /\ Ending(v, x, "broken")
  <2>1. Ends(vm, x)
    BY <1>3, <1>14 DEF Ends, Ending, Reasons
  <2>2. << vm.state, x.state >> \in Rows
    BY <1>4, <1>14 DEF Rows, Table
  <2> QED BY <1>12, <2>1, <2>2 DEF Goes
<1> QED BY <1>12, <1>13, <1>14

(* A deadline is no longer awaited, and the watchdog may have struck.      *)
Struck(v, n) == [v EXCEPT !.deadline = "off", !.strikes = n]

LEMMA OffIs ==
  ASSUME NEW v \in VmType, NEW n \in 0 .. 2, NEW x, x = Struck(v, n)
  PROVE  /\ x \in VmType /\ x.deadline = "off" /\ x.strikes = n
         /\ x.stopTimer = v.stopTimer /\ x.orphans = v.orphans
         /\ x.park = v.park /\ x.pingId = v.pingId /\ x.writing = v.writing
         /\ SamePhase(x, v) /\ SameRuns(x, v) /\ SameJobs(x, v) /\ SameCpu(x, v) /\ SameLine(x, v) /\ SameLoad(x, v)
<1>1. x \in VmType
  <2> DEFINE d == [v EXCEPT !.deadline = "off"]
  <2>1. d \in VmType
    BY Updates DEF Deadlines
  <2>2. x = [d EXCEPT !.strikes = n]
    BY DEF Struck
  <2> HIDE DEF d
  <2>3. \A y \in 0 .. 2 : [d EXCEPT !.strikes = y] \in VmType
    BY <2>1, Updates
  <2> QED BY <2>2, <2>3
<1>2. /\ x.deadline = "off" /\ x.strikes = n
      /\ x.stopTimer = v.stopTimer /\ x.orphans = v.orphans
      /\ x.park = v.park /\ x.pingId = v.pingId /\ x.writing = v.writing
  BY DEF Struck, VmType
<1>3. SamePhase(x, v) /\ SameRuns(x, v) /\ SameJobs(x, v) /\ SameCpu(x, v) /\ SameLine(x, v) /\ SameLoad(x, v)
  BY DEF Struck, VmType, SamePhase, SameRuns, SameJobs, SameCpu, SameLine, SameLoad
<1> QED BY <1>1, <1>2, <1>3

LEMMA OffKeeps ==
  ASSUME NEW v \in VmType, Safe(v), Kept(v), NEW n \in 0 .. 2, NEW x, x = Struck(v, n)
  PROVE  /\ x \in VmType /\ Safe(x) /\ Kept(x) /\ x.deadline = "off" /\ x.strikes = n
         /\ x.writing = v.writing /\ x.park = v.park /\ x.pingId = v.pingId
         /\ x.stopTimer = v.stopTimer /\ x.orphans = v.orphans
         /\ SamePhase(x, v) /\ SameRuns(x, v) /\ SameJobs(x, v) /\ SameCpu(x, v) /\ SameLine(x, v) /\ SameLoad(x, v)
<1>1. /\ x \in VmType /\ x.deadline = "off" /\ x.strikes = n
      /\ x.stopTimer = v.stopTimer /\ x.orphans = v.orphans
      /\ x.park = v.park /\ x.pingId = v.pingId /\ x.writing = v.writing
      /\ SamePhase(x, v) /\ SameRuns(x, v) /\ SameJobs(x, v) /\ SameCpu(x, v) /\ SameLine(x, v) /\ SameLoad(x, v)
  BY OffIs
<1>2. /\ x.state = v.state
      /\ x.accepted = v.accepted /\ x.run = v.run /\ x.queued = v.queued /\ x.ended = v.ended /\ x.starts = v.starts
      /\ x.hellos = v.hellos /\ x.line = v.line /\ x.prog = v.prog /\ x.ran = v.ran
  BY <1>1 DEF SamePhase, SameRuns, SameLine
<1>3. Less(x, v)
  <2>1. IsRest(x.line, v.line)
    <3>1. v.line \in Seq([type : Frames, id : Nat])
      BY Fields
    <3> QED BY <1>2, <3>1, AllIsRest
  <2> QED BY <1>1, <1>2, <2>1 DEF Less
<1>4. Safe(x)
  BY <1>1, <1>3, LessIsSafe
<1>5. Kept(x)
  BY <1>2 DEF Kept
<1> QED BY <1>1, <1>4, <1>5

LEMMA ExpiredIs ==
  ASSUME NEW v \in VmType, NEW s, s = Struck(v, Count(v.strikes)), NEW x, x = Expired([v EXCEPT !.deadline = "off"])
  PROVE  \/ x = Fail(End(s, s.run, "unresponsive"))
         \/ s.run = None
         \/ s.run # None /\ s.phase[s.run] = "running" /\ x = EndAndPark(s, s.run, "unresponsive")
         \/ s.run # None /\ s.phase[s.run] # "running" /\ x = Park([s EXCEPT !.queued = IF @ = None THEN s.run ELSE @])
<1> DEFINE w == [v EXCEPT !.deadline = "off"]
           t == [w EXCEPT !.strikes = Count(@)]
<1>1. w.strikes = v.strikes
  BY DEF VmType
<1>2. t = s
  BY <1>1 DEF Struck
<1> HIDE DEF w
<1>3. x = Expired(w)
  BY DEF w
<1>4. s.strikes \in Nat
  <2>1. v.strikes \in 0 .. 2
    BY Fields
  <2>2. Count(v.strikes) \in 0 .. 2
    BY <2>1, CountType
  <2>3. s.strikes = Count(v.strikes)
    BY <2>2, OffIs
  <2> QED BY <2>2, <2>3
<1> HIDE DEF t
<1>5. \/ t.strikes >= 2 /\ x = Fail(End(t, t.run, "unresponsive"))
      \/ t.strikes < 2 /\ t.run = None /\ x = t
      \/ t.strikes < 2 /\ t.run # None /\ t.phase[t.run] = "running" /\ x = EndAndPark(t, t.run, "unresponsive")
      \/ /\ ~(t.strikes >= 2) /\ ~(t.strikes < 2 /\ t.run = None) /\ ~(t.strikes < 2 /\ t.run # None /\ t.phase[t.run] = "running")
         /\ x = Park([t EXCEPT !.queued = IF @ = None THEN t.run ELSE @])
  BY <1>3 DEF Expired, t
<1>6. t.strikes >= 2 \/ t.strikes < 2
  BY <1>2, <1>4
<1> QED BY <1>2, <1>5, <1>6

(* No answer twice: the VM fails, and its run ends for want of an answer.  *)
LEMMA UnresponsiveKeeps ==
  ASSUME NEW v \in VmType, Safe(v), Kept(v), v.state \in {"starting", "running"},
         NEW x, x = Fail(End(v, v.run, "unresponsive"))
  PROVE  Whole(x) /\ x.state = "failed" /\ Ends(v, x)
<1> DEFINE e == End(v, v.run, "unresponsive")
<1>0. /\ v.run \in Runs /\ v.run \in 0 .. MaxRuns /\ v.run # None /\ v.load = "no" /\ v.orphans = 0 /\ v.park = "no"
      /\ v.accepted \in 0 .. MaxRuns
  BY InHand, Fields
<1>1. /\ e \in VmType /\ SameButEnds(e, v)
      /\ \A q \in Runs : (q = v.run /\ v.ended[q] = "no" /\ e.ended[q] = "unresponsive")
                           \/ (~(q = v.run /\ v.ended[q] = "no") /\ e.ended[q] = v.ended[q])
  <2>1. "unresponsive" \in Reasons
    BY DEF Reasons
  <2> QED BY <1>0, <2>1, EndIs
<1> HIDE DEF e
<1>2. x = Fail(e)
  BY DEF e
<1>3. /\ e.state = v.state /\ e.phase = v.phase /\ e.jobs = v.jobs /\ e.built = v.built
      /\ e.accepted = v.accepted /\ e.run = v.run /\ e.queued = v.queued /\ e.starts = v.starts
      /\ e.want = v.want /\ e.shown = v.shown /\ e.cpu = v.cpu /\ e.visible = v.visible
      /\ e.hellos = v.hellos /\ e.line = v.line /\ e.prog = v.prog /\ e.ran = v.ran
      /\ e.load = v.load /\ e.orphans = v.orphans /\ e.park = v.park /\ e.writing = v.writing
  BY <1>1 DEF SameButEnds, SamePhase, SameJobs, SameCpu, SameLine, SameLoad, SameTimers
<1>4. MayFail(v)
  <2>1. \A k \in DOMAIN v.jobs : v.jobs[k].op \notin Settling
    BY <1>0, NothingAwaited
  <2> QED BY <2>1, FailsInSafety
<1>5. \A r \in Runs : v.ended[r] # "no" => e.ended[r] = v.ended[r]
  BY <1>1
<1>6. \A r \in Runs : e.ended[r] = "no" => v.ended[r] = "no"
  BY <1>1
<1>7. MayFail(e)
  <2>1. \A k \in DOMAIN e.line : e.line[k].type = "RUN" => e.line[k].id \in Runs
    BY <1>3, <1>4 DEF MayFail, Program
  <2>2. e.prog # None => e.prog \in Runs
    BY <1>3, <1>4 DEF MayFail, Program
  <2>3. Program(e)
    BY <1>3, <1>4, <1>6, <2>1, <2>2 DEF MayFail, Program
  <2>4. Seen(e)
    BY <1>3, <1>4 DEF MayFail, Seen
  <2>5. Gathered(e)
    <3>1. \A r \in Runs : r > v.accepted => e.ended[r] = "no" /\ e.starts[r] = 0
      <4> TAKE r \in Runs
      <4> HAVE r > v.accepted
      <4>1. v.run <= v.accepted /\ v.run \in Nat /\ v.accepted \in Nat /\ r \in Nat
        BY <1>0 DEF Kept, Runs
      <4>2. r # v.run
        BY <4>1
      <4> QED BY <1>1, <1>3, <4>2 DEF Kept
    <3>2. \A r \in 1 .. v.accepted : r \in Runs
      BY <1>0, UpTo
    <3>3. \A r \in 1 .. v.accepted : e.ended[r] = "no" => r \in {v.run, v.queued}
      BY <1>6, <3>2 DEF Kept
    <3> QED BY <1>3, <3>1, <3>3 DEF Kept, Gathered
  <2>6. \A r \in e.writing : r \in Runs
    BY <1>1, Fields
  <2>7. \A r \in e.writing : e.ended[r] = "no" => e.run = r
    BY <1>3, <1>4, <1>6, <2>6 DEF MayFail
  <2> QED BY <1>3, <1>4, <2>3, <2>4, <2>5, <2>7 DEF MayFail
<1>8. /\ Whole(x) /\ x \in VmType /\ x.state = "failed" /\ Ending(e, x, "broken")
      /\ x.accepted = e.accepted /\ x.starts = e.starts
  BY <1>0, <1>1, <1>2, <1>3, <1>7, FailKeeps
<1>9. v.ended[v.run] = "no" /\ v.queued = None
  BY DEF Kept
<1>10. \A r \in Runs : r <= v.accepted => e.ended[r] # "no"
  <2> TAKE r \in Runs
  <2> HAVE r <= v.accepted
  <2>1. CASE r = v.run
    BY <1>1, <1>9, <2>1
  <2>2. CASE r # v.run
    <3>1. r \in 1 .. v.accepted /\ r # None
      BY <1>0 DEF Runs, None
    <3>2. v.ended[r] # "no"
      BY <1>9, <2>2, <3>1 DEF Kept
    <3> QED BY <1>5, <3>2
  <2> QED BY <2>1, <2>2
<1>11. \A r \in Runs : r = v.run => r <= v.accepted
  BY DEF Kept
<1>12. Ending(v, x, "unresponsive")
  <2>1. \A r \in Runs : x.ended[r] = e.ended[r]
    BY <1>3, <1>8, <1>10 DEF Ending
  <2>2. \A r \in Runs : r <= v.accepted /\ v.ended[r] = "no" => r = v.run
    <3> TAKE r \in Runs
    <3> HAVE r <= v.accepted /\ v.ended[r] = "no"
    <3>1. r \in 1 .. v.accepted /\ r # None
      BY <1>0 DEF Runs, None
    <3> QED BY <1>9, <3>1 DEF Kept
  <2> QED BY <1>1, <1>11, <2>1, <2>2 DEF Ending
<1> QED BY <1>3, <1>8, <1>12 DEF Ends, Reasons

LEMMA AnswerDeadlineKeeps ==
  ASSUME Whole(vm), AnswerDeadline, NEW x, x = vm'
  PROVE  Whole(x) /\ Goes(vm, x)
<1> DEFINE s == Struck(vm, Count(vm.strikes))
<1>0. /\ vm \in VmType /\ Safe(vm) /\ Kept(vm) /\ vm.deadline \in {"HELLO", "STARTED", "PONG"}
      /\ x = Expired([vm EXCEPT !.deadline = "off"])
  BY DEF AnswerDeadline, Whole, Safe
<1>1. vm.state \in {"starting", "running"}
  BY <1>0 DEF Safe, Timers
<1>2. Count(vm.strikes) \in 0 .. 2
  <2>1. vm.strikes \in 0 .. 2
    BY <1>0, Fields
  <2> QED BY <2>1, CountType
<1>3. /\ s \in VmType /\ Safe(s) /\ Kept(s) /\ s.writing = vm.writing
      /\ SamePhase(s, vm) /\ SameRuns(s, vm) /\ SameJobs(s, vm)
  BY <1>0, <1>2, OffKeeps
<1>4. \/ x = Fail(End(s, s.run, "unresponsive"))
      \/ s.run = None
      \/ s.run # None /\ s.phase[s.run] = "running" /\ x = EndAndPark(s, s.run, "unresponsive")
      \/ s.run # None /\ s.phase[s.run] # "running" /\ x = Park([s EXCEPT !.queued = IF @ = None THEN s.run ELSE @])
  BY <1>0, ExpiredIs
<1> HIDE DEF s
<1>5. /\ s.state = vm.state /\ s.phase = vm.phase /\ s.jobs = vm.jobs
      /\ s.accepted = vm.accepted /\ s.run = vm.run /\ s.ended = vm.ended /\ s.starts = vm.starts
  BY <1>3 DEF SamePhase, SameRuns, SameJobs
<1>6. s.state \in {"starting", "running"} /\ s.run # None
  <2>1. s.state \in {"starting", "running"}
    BY <1>1, <1>5
  <2> QED BY <1>3, <2>1, InHand
<1>7. CASE x = Fail(End(s, s.run, "unresponsive"))
  <2>1. Whole(x) /\ x.state = "failed" /\ Ends(s, x)
    BY <1>3, <1>6, <1>7, UnresponsiveKeeps
  <2>2. Ends(vm, x)
    BY <1>5, <2>1 DEF Ends, Ending
  <2>3. << vm.state, x.state >> \in Rows
    BY <1>1, <2>1 DEF Rows, Table
  <2> QED BY <2>1, <2>2, <2>3 DEF Goes
<1>8. CASE s.phase[s.run] = "running" /\ x = EndAndPark(s, s.run, "unresponsive")
  <2>1. Whole(x) /\ x.state = "parking" /\ Ends(s, x)
    BY <1>3, <1>6, <1>8, EndAndParkKeeps DEF Reasons
  <2>2. Ends(vm, x)
    BY <1>5, <2>1 DEF Ends, Ending
  <2>3. << vm.state, x.state >> \in Rows
    BY <1>1, <2>1 DEF Rows, Table
  <2> QED BY <2>1, <2>2, <2>3 DEF Goes
<1>9. CASE s.phase[s.run] # "running" /\ x = Park([s EXCEPT !.queued = IF @ = None THEN s.run ELSE @])
  <2>1. vm.state = "starting" /\ vm.ended[vm.run] = "no"
    BY <1>1, <1>5, <1>9 DEF Whole, Moving, Kept
  <2>2. vm.phase[vm.run] # "files"
    BY <1>0, <2>1 DEF Whole, Moving
  <2>3. s.run \notin s.writing
    BY <1>0, <1>3, <1>5, <2>1, <2>2 DEF Safe, Timers
  <2>4. \A k \in DOMAIN s.jobs : s.jobs[k].op # "begin"
    <3>1. vm.load = "no"
      BY <1>0, <1>1, InHand
    <3> QED BY <1>0, <1>5, <2>1, <3>1 DEF Safe, Queue
  <2>5. s.state = "starting"
    BY <1>5, <2>1
  <2>6. Whole(x) /\ x.state = "parking" /\ Leaves(s, x)
    BY <1>3, <1>9, <2>3, <2>4, <2>5, RetryKeeps
  <2>7. Leaves(vm, x)
    BY <1>5, <2>6 DEF Leaves
  <2>8. << vm.state, x.state >> \in Rows
    BY <1>1, <2>6 DEF Rows, Table
  <2> QED BY <2>6, <2>7, <2>8 DEF Goes
<1> QED BY <1>4, <1>6, <1>7, <1>8, <1>9

(* A program that runs is asked whether it is there.                       *)
Asked(v) == Arm(Send([v EXCEPT !.pingId = NextId(v)], "PING", NextId(v)), "PONG")

LEMMA AskedIs ==
  ASSUME NEW v \in VmType, NEW x, x = Asked(v)
  PROVE  /\ x.line = Append(v.line, [type |-> "PING", id |-> NextId(v)]) /\ x.pingId = NextId(v) /\ x.deadline = "PONG"
         /\ NextId(v) \in Ids /\ NextId(v) \in Nat
         /\ x.hellos = v.hellos /\ x.prog = v.prog /\ x.ran = v.ran
         /\ x.stopTimer = v.stopTimer /\ x.orphans = v.orphans /\ x.park = v.park /\ x.writing = v.writing
         /\ SamePhase(x, v) /\ SameRuns(x, v) /\ SameJobs(x, v) /\ SameCpu(x, v) /\ SameLoad(x, v)
<1> DEFINE n == NextId(v)
           l == Append(v.line, [type |-> "PING", id |-> n])
<1>1. n \in Ids /\ n \in Nat
  BY NextIdType
<1> HIDE DEF n
<1>2. x = Arm(Send([v EXCEPT !.pingId = n], "PING", n), "PONG")
  BY DEF Asked, n
<1>3. x = [v EXCEPT !.pingId = n, !.line = l, !.deadline = "PONG"]
  <2>1. [v EXCEPT !.pingId = n].line = v.line
    BY DEF VmType
  <2> QED BY <1>2, <2>1 DEF Arm, Send
<1> HIDE DEF l
<1>4. /\ x.line = l /\ x.pingId = n /\ x.deadline = "PONG"
      /\ x.hellos = v.hellos /\ x.prog = v.prog /\ x.ran = v.ran
      /\ x.stopTimer = v.stopTimer /\ x.orphans = v.orphans /\ x.park = v.park /\ x.writing = v.writing
  BY <1>3 DEF VmType
<1>5. SamePhase(x, v) /\ SameRuns(x, v) /\ SameJobs(x, v) /\ SameCpu(x, v) /\ SameLoad(x, v)
  BY <1>3 DEF VmType, SamePhase, SameRuns, SameJobs, SameCpu, SameLoad
<1> QED BY <1>1, <1>4, <1>5 DEF l, n

LEMMA AsksKeeps ==
  ASSUME NEW v \in VmType, Safe(v), Kept(v), v.state = "running", v.phase[v.run] = "running",
         NEW x \in VmType, x = Asked(v)
  PROVE  Whole(x) /\ SameRuns(x, v) /\ x.state = v.state
<1> DEFINE m == [type |-> "PING", id |-> NextId(v)]
<1>1. /\ x.line = Append(v.line, m) /\ x.pingId = NextId(v) /\ x.deadline = "PONG"
      /\ NextId(v) \in Ids /\ NextId(v) \in Nat
      /\ x.hellos = v.hellos /\ x.prog = v.prog /\ x.ran = v.ran
      /\ x.stopTimer = v.stopTimer /\ x.orphans = v.orphans /\ x.park = v.park /\ x.writing = v.writing
      /\ SamePhase(x, v) /\ SameRuns(x, v) /\ SameJobs(x, v) /\ SameCpu(x, v) /\ SameLoad(x, v)
  BY AskedIs
<1>2. /\ x.state = v.state /\ x.phase = v.phase /\ x.jobs = v.jobs /\ x.built = v.built
      /\ x.accepted = v.accepted /\ x.run = v.run /\ x.queued = v.queued
      /\ x.ended = v.ended /\ x.starts = v.starts
      /\ x.want = v.want /\ x.shown = v.shown /\ x.cpu = v.cpu /\ x.visible = v.visible
      /\ x.loading = v.loading /\ x.load = v.load /\ x.told = v.told
  BY <1>1 DEF SamePhase, SameRuns, SameJobs, SameCpu, SameLoad
<1>3. v.load = "no"
  BY InHand
<1>4. m \in [type : Frames, id : Nat] /\ m.type \in {"HELLO", "PING"} /\ m.id \in Ids
  BY <1>1 DEF Frames
<1> HIDE DEF m
<1>5. Talk(x) /\ Program(x)
  <2>1. \A i \in Ids : x.hellos[i] \in {v.hellos[i], "run", "clock"}
    BY <1>1
  <2>2. v.state # "parked" /\ x.load = v.load
    BY <1>2
  <2> QED BY <1>1, <1>2, <1>3, <1>4, <2>1, <2>2, AsksSafely
<1>6. Timers(x)
  BY <1>1, <1>2, <1>3 DEF Safe, Timers
<1>7. Seen(x)
  BY <1>2 DEF Safe, Seen
<1>8. Machine(x)
  BY <1>1, <1>2, <1>3 DEF Safe, Machine, BeginPending
<1>9. Queue(x)
  BY <1>1, <1>2, <1>3 DEF Safe, Queue
<1>10. Load(x)
  BY <1>2 DEF Safe, Load
<1>11. Kept(x)
  BY <1>2 DEF Kept
<1>12. Moving(x)
  BY <1>1, <1>2 DEF Moving
<1> QED BY <1>1, <1>2, <1>5, <1>6, <1>7, <1>8, <1>9, <1>10, <1>11, <1>12 DEF Whole, Safe

LEMMA PingDueKeeps ==
  ASSUME Whole(vm), PingDue, NEW x, x = vm'
  PROVE  Whole(x) /\ Goes(vm, x)
<1> DEFINE s == Struck(vm, vm.strikes)
<1>0. vm \in VmType /\ Safe(vm) /\ Kept(vm) /\ vm.deadline = "ping"
  BY DEF PingDue, Whole, Safe
<1>1. x = Ping(s)
  <2>1. [vm EXCEPT !.deadline = "off"] = s
    BY <1>0 DEF Struck, VmType
  <2> QED BY <2>1 DEF PingDue
<1>2. vm.strikes \in 0 .. 2
  BY <1>0, Fields
<1>3. /\ s \in VmType /\ Safe(s) /\ Kept(s) /\ SamePhase(s, vm) /\ SameRuns(s, vm)
  BY <1>0, <1>2, OffKeeps
<1> HIDE DEF s
<1>4. s.state = vm.state /\ s.phase = vm.phase /\ s.run = vm.run
  BY <1>3 DEF SamePhase, SameRuns
<1>5. CASE s.state # "running"
  <2>1. x = s
    BY <1>1, <1>5 DEF Ping
  <2>2. s.state # "starting"
    BY <1>0, <1>4 DEF Whole, Moving
  <2>3. Whole(s)
    BY <1>3, <1>5, <2>2, Still DEF Whole
  <2> QED BY <1>3, <1>4, <2>1, <2>3, Silent
<1>6. CASE s.state = "running"
  <2>1. x = Asked(s)
    BY <1>1, <1>6 DEF Ping, Asked
  <2>2. s.phase[s.run] = "running"
    BY <1>4, <1>6 DEF Whole, Moving
  <2>3. x \in VmType
    BY StepType DEF TimerStep
  <2>4. Whole(x) /\ SameRuns(x, s) /\ x.state = s.state
    BY <1>3, <1>6, <2>1, <2>2, <2>3, AsksKeeps
  <2>5. SameRuns(x, vm)
    BY <1>3, <2>4, SameAgain
  <2> QED BY <1>4, <2>4, <2>5, Silent
<1> QED BY <1>5, <1>6

(* The guest has not stopped the program in time.                          *)
LEMMA StopGraceOverKeeps ==
  ASSUME Whole(vm), StopGraceOver, NEW x, x = vm'
  PROVE  Whole(x) /\ Goes(vm, x)
<1> DEFINE v == [vm EXCEPT !.stopTimer = FALSE]
<1>0. vm \in VmType /\ Safe(vm) /\ Kept(vm) /\ vm.orphans = 0
  BY DEF Whole, Safe, Timers
<1>1. vm.stopTimer /\ x = Park(v)
  BY <1>0 DEF StopGraceOver
<1>2. vm.state = "stopping"
  BY <1>0, <1>1 DEF Safe, Timers
<1>3. v \in VmType
  BY <1>0, Updates
<1>4. /\ ~v.stopTimer /\ v.orphans = vm.orphans /\ v.deadline = vm.deadline
      /\ v.park = vm.park /\ v.pingId = vm.pingId /\ v.writing = vm.writing
  BY <1>0 DEF VmType
<1>5. SamePhase(v, vm) /\ SameRuns(v, vm) /\ SameJobs(v, vm) /\ SameCpu(v, vm) /\ SameLine(v, vm) /\ SameLoad(v, vm)
  BY <1>0 DEF VmType, SamePhase, SameRuns, SameJobs, SameCpu, SameLine, SameLoad
<1> HIDE DEF v
<1>6. /\ v.state = vm.state /\ v.accepted = vm.accepted /\ v.run = vm.run /\ v.queued = vm.queued
      /\ v.ended = vm.ended /\ v.starts = vm.starts
      /\ v.hellos = vm.hellos /\ v.line = vm.line /\ v.prog = vm.prog /\ v.ran = vm.ran
  BY <1>5 DEF SamePhase, SameRuns, SameLine
<1>7. Less(v, vm)
  <2>1. IsRest(v.line, vm.line)
    <3>1. vm.line \in Seq([type : Frames, id : Nat])
      BY <1>0, Fields
    <3> QED BY <1>6, <3>1, AllIsRest
  <2> QED BY <1>4, <1>5, <1>6, <2>1 DEF Less
<1>8. Safe(v)
  BY <1>0, <1>3, <1>7, LessIsSafe
<1>9. Kept(v)
  BY <1>0, <1>6 DEF Kept
<1>10. Whole(x) /\ x.state = "parking" /\ Leaves(v, x)
  BY <1>1, <1>2, <1>3, <1>6, <1>8, <1>9, StopParks
<1>11. Leaves(vm, x)
  BY <1>6, <1>10 DEF Leaves
<1>12. << vm.state, x.state >> \in Rows
  BY <1>2, <1>10 DEF Rows, Table
<1> QED BY <1>10, <1>11, <1>12 DEF Goes

(* The 50 ms of a failed read are over.                                    *)
LEMMA GraceIs ==
  ASSUME NEW v \in VmType, NEW g \in SUBSET Runs, NEW x, x = [v EXCEPT !.grace = g]
  PROVE  x \in VmType /\ SameButEnds(x, v) /\ x.ended = v.ended
<1>1. x \in VmType
  BY Updates
<1>2. SameRuns(x, v)
  BY DEF VmType, SameRuns
<1>3. /\ SamePhase(x, v) /\ SameJobs(x, v) /\ SameCpu(x, v) /\ SameLine(x, v) /\ SameLoad(x, v)
      /\ SameTimers(x, v)
  BY DEF VmType, SamePhase, SameJobs, SameCpu, SameLine, SameLoad, SameTimers
<1> QED BY <1>1, <1>2, <1>3 DEF SameButEnds, SameRuns

LEMMA FetchGraceOverKeeps ==
  ASSUME InTime, Whole(vm), FetchGraceOver, NEW x, x = vm'
  PROVE  Whole(x) /\ Goes(vm, x)
<1>0. vm \in VmType /\ Safe(vm) /\ Kept(vm)
  BY DEF Whole, Safe
<1>1. PICK r \in vm.grace :
        LET v == [vm EXCEPT !.grace = @ \ {r}] IN
        /\ Retrying => "lateFetch" \in Faults
        /\ x = IF v.run # r \/ v.ended[r] # "no" THEN v ELSE EndAndPark(v, r, "fetch")
  BY DEF FetchGraceOver
<1> DEFINE g == vm.grace \ {r}
           v == [vm EXCEPT !.grace = g]
<1>2. g \in SUBSET Runs
  <2>1. vm.grace \in SUBSET Runs
    BY <1>0, Fields
  <2> QED BY <2>1
<1>3. x = IF v.run # r \/ v.ended[r] # "no" THEN v ELSE EndAndPark(v, r, "fetch")
  BY <1>1
<1>4. ~Retrying
  BY <1>1 DEF InTime
<1> HIDE DEF g
<1>5. v \in VmType /\ SameButEnds(v, vm) /\ v.ended = vm.ended
  BY <1>0, <1>2, GraceIs
<1> HIDE DEF v
<1>6. Whole(v)
  BY <1>0, <1>5, AlikeIsWhole
<1>7. v.run = vm.run /\ v.state = vm.state /\ v.accepted = vm.accepted /\ v.starts = vm.starts /\ SameRuns(v, vm)
  BY <1>5 DEF SameButEnds, SamePhase, SameRuns
<1>8. CASE v.run # r \/ v.ended[r] # "no"
  <2>1. x = v
    BY <1>3, <1>8
  <2> QED BY <1>6, <1>7, <2>1, Silent
<1>9. CASE v.run = r /\ v.ended[r] = "no"
  <2>1. x = EndAndPark(v, v.run, "fetch")
    BY <1>3, <1>9
  <2>2. vm.run # None
    BY <1>0, <1>1, <1>7, <1>9, Fields DEF Runs, None
  <2>3. vm.state \in Active /\ vm.ended[vm.run] = "no"
    BY <1>0, <1>5, <1>7, <1>9, <2>2 DEF Safe, Timers
  <2>4. vm.state \in {"starting", "running"}
    <3>1. vm.state # "parking"
      BY <1>0, <1>4, <2>2, <2>3 DEF Retrying, Safe, Timers
    <3>2. vm.state # "stopping"
      BY <1>0, <2>3 DEF Kept
    <3> QED BY <2>3, <3>1, <3>2 DEF Active
  <2>5. "fetch" \in Reasons
    BY DEF Reasons
  <2>6. Whole(x) /\ x.state = "parking" /\ Ends(v, x)
    BY <1>5, <1>6, <1>7, <2>1, <2>4, <2>5, EndAndParkKeeps DEF Whole
  <2>7. Ends(vm, x)
    BY <1>5, <1>7, <2>6 DEF Ends, Ending
  <2>8. << vm.state, x.state >> \in Rows
    BY <2>4, <2>6 DEF Rows, Table
  <2> QED BY <2>6, <2>7, <2>8 DEF Goes
<1> QED BY <1>8, <1>9

-----------------------------------------------------------------------------
(* What the guest sends.                                                   *)
LEMMA GoesFrom ==
  ASSUME NEW u, NEW v, NEW x, SameRuns(v, u), v.state = u.state, Goes(v, x)
  PROVE  Goes(u, x)
<1>1. v.accepted = u.accepted /\ v.ended = u.ended /\ v.starts = u.starts
  BY DEF SameRuns
<1> QED BY <1>1 DEF Goes, Leaves, Ends, Ending, Accepts, Refuses, Starts

LEMMA EndsGo ==
  ASSUME NEW v, NEW x, v.state \in {"starting", "running"}, x.state \in {"parking", "failed"}, Ends(v, x)
  PROVE  Goes(v, x)
<1>1. << v.state, x.state >> \in Rows
  BY DEF Rows, Table
<1> QED BY <1>1 DEF Goes

(* Frames that are read, or lost, and a program that is gone.              *)
LEMMA TakenKeeps ==
  ASSUME NEW v \in VmType, Whole(v), NEW x \in VmType,
         SamePhase(x, v), SameJobs(x, v), SameCpu(x, v), SameLoad(x, v), SameRuns(x, v), SameTimers(x, v),
         x.ran = v.ran, x.hellos = v.hellos, x.prog \in {v.prog, None}, IsRest(x.line, v.line)
  PROVE  Whole(x)
<1>1. /\ x.state = v.state /\ x.phase = v.phase /\ x.jobs = v.jobs
      /\ x.accepted = v.accepted /\ x.run = v.run /\ x.queued = v.queued /\ x.ended = v.ended /\ x.starts = v.starts
      /\ x.stopTimer = v.stopTimer /\ x.orphans = v.orphans /\ x.deadline = v.deadline
      /\ x.park = v.park /\ x.pingId = v.pingId /\ x.writing = v.writing
  BY DEF SamePhase, SameJobs, SameRuns, SameTimers
<1>2. Less(x, v)
  BY <1>1 DEF Less
<1>3. Safe(x)
  BY <1>2, LessIsSafe DEF Whole
<1>4. Kept(x)
  BY <1>1 DEF Whole, Kept
<1>5. Moving(x)
  BY <1>1 DEF Whole, Moving, BeginPending
<1> QED BY <1>3, <1>4, <1>5 DEF Whole

LEMMA NoProgIs ==
  ASSUME NEW v \in VmType, NEW n \in Nat, NEW x, x = [v EXCEPT !.prog = n]
  PROVE  /\ x \in VmType /\ x.prog = n /\ x.hellos = v.hellos /\ x.line = v.line /\ x.ran = v.ran
         /\ SamePhase(x, v) /\ SameRuns(x, v) /\ SameJobs(x, v) /\ SameCpu(x, v) /\ SameLoad(x, v) /\ SameTimers(x, v)
<1>1. x \in VmType
  BY Updates
<1>2. x.prog = n /\ x.hellos = v.hellos /\ x.line = v.line /\ x.ran = v.ran
  BY DEF VmType
<1>3. SamePhase(x, v) /\ SameRuns(x, v) /\ SameJobs(x, v) /\ SameCpu(x, v) /\ SameLoad(x, v) /\ SameTimers(x, v)
  BY DEF VmType, SamePhase, SameRuns, SameJobs, SameCpu, SameLoad, SameTimers
<1> QED BY <1>1, <1>2, <1>3

LEMMA NoProgKeeps ==
  ASSUME NEW v \in VmType, Whole(v), NEW x, x = [v EXCEPT !.prog = None]
  PROVE  Whole(x) /\ x \in VmType /\ SameRuns(x, v) /\ x.state = v.state
<1>1. /\ x \in VmType /\ x.prog = None /\ x.hellos = v.hellos /\ x.line = v.line /\ x.ran = v.ran
      /\ SamePhase(x, v) /\ SameRuns(x, v) /\ SameJobs(x, v) /\ SameCpu(x, v) /\ SameLoad(x, v) /\ SameTimers(x, v)
  <2>1. None \in Nat
    BY DEF None
  <2> QED BY <2>1, NoProgIs
<1>2. IsRest(x.line, v.line)
  <2>1. v.line \in Seq([type : Frames, id : Nat])
    BY Fields
  <2> QED BY <1>1, <2>1, AllIsRest
<1> QED BY <1>1, <1>2, TakenKeeps DEF SamePhase

(* The program ends.                                                       *)
LEMMA ExitKeeps ==
  ASSUME NEW v \in VmType, Whole(v), NEW x, x = OnExit([v EXCEPT !.prog = None], v.prog)
  PROVE  Whole(x) /\ Goes(v, x)
<1> DEFINE p == [v EXCEPT !.prog = None]
           r == v.prog
<1>1. Whole(p) /\ p \in VmType /\ SameRuns(p, v) /\ p.state = v.state
  BY NoProgKeeps
<1>2. x = OnExit(p, r)
  OBVIOUS
<1> HIDE DEF p
<1>3. p.run = v.run /\ p.ended = v.ended /\ Safe(p) /\ Kept(p)
  BY <1>1 DEF SameRuns, Whole
<1>4. CASE Current(p, r)
  <2>1. v.run = r /\ v.ended[r] = "no" /\ r # None
    BY <1>3, <1>4 DEF Current
  <2>2. v.state = "running"
    BY <2>1 DEF Whole, Safe, Program
  <2>3. x = EndAndPark(p, p.run, "exit")
    BY <1>2, <1>3, <1>4, <2>1 DEF OnExit
  <2>4. Whole(x) /\ x.state = "parking" /\ Ends(p, x)
    BY <1>1, <1>3, <2>2, <2>3, EndAndParkKeeps DEF Reasons
  <2>5. Goes(p, x)
    BY <1>1, <2>2, <2>4, EndsGo
  <2> QED BY <1>1, <2>4, <2>5, GoesFrom
<1>5. CASE ~Current(p, r) /\ p.run = r /\ p.state = "stopping"
  <2>1. x = Park(p)
    BY <1>2, <1>5 DEF OnExit
  <2>2. Whole(x) /\ x.state = "parking" /\ Leaves(p, x)
    BY <1>1, <1>3, <1>5, <2>1, StopParks
  <2>3. Goes(p, x)
    BY <1>5, <2>2 DEF Goes, Rows, Table
  <2> QED BY <1>1, <2>2, <2>3, GoesFrom
<1>6. CASE ~Current(p, r) /\ ~(p.run = r /\ p.state = "stopping")
  <2>1. x = p
    BY <1>2, <1>6 DEF OnExit
  <2> QED BY <1>1, <2>1, Silent
<1> QED BY <1>4, <1>5, <1>6

LEMMA ProgramExitsKeeps ==
  ASSUME Whole(vm), ProgramExits, NEW x, x = vm'
  PROVE  Whole(x) /\ Goes(vm, x)
<1>1. vm \in VmType /\ x = OnExit([vm EXCEPT !.prog = None], vm.prog)
  BY DEF ProgramExits, Whole, Safe
<1> QED BY <1>1, ExitKeeps

LEMMA InvalidMessageKeeps ==
  ASSUME Whole(vm), InvalidMessage, NEW x, x = vm'
  PROVE  Whole(x) /\ Goes(vm, x)
<1>0. vm \in VmType /\ Safe(vm) /\ Kept(vm)
  BY DEF Whole, Safe
<1>1. x = EndAndPark(vm, vm.run, "broken") /\ Current(vm, vm.prog)
  BY DEF InvalidMessage
<1>2. vm.state = "running"
  BY <1>0, <1>1 DEF Current, Safe, Program
<1>3. Whole(x) /\ x.state = "parking" /\ Ends(vm, x)
  BY <1>0, <1>1, <1>2, EndAndParkKeeps DEF Reasons
<1> QED BY <1>2, <1>3, EndsGo

(* A frame of another version, or a read that fails while the VM loads.    *)
LEMMA FailsKeeps ==
  ASSUME InTime, Whole(vm), FailsInTime, vm.want, vm.state # "parked", NEW x, x = Fail(vm)
  PROVE  Whole(x) /\ Goes(vm, x)
<1>0. vm \in VmType /\ Safe(vm) /\ Kept(vm)
  BY DEF Whole, Safe
<1>1. vm.built /\ vm.load # "build" /\ vm.load # "resume" /\ vm.state \notin {"unloaded", "destroyed"}
  BY <1>0 DEF Safe, Seen, Machine, Load
<1>2. vm.park = "no" /\ vm.load \notin {"restore", "pause"}
  BY DEF InTime, FailsInTime
<1>3. \A k \in DOMAIN vm.jobs : vm.jobs[k].op \notin Settling
  BY <1>0, <1>1, <1>2, NothingAwaited
<1>4. MayFail(vm)
  BY <1>0, <1>1, <1>3, FailsInSafety
<1>5. \/ vm.load = "greet" \/ vm.load = "no"
      \/ vm.load = "bundle" /\ vm.loading = "pending"
  <2>1. vm.load \in {"no", "bundle", "build", "restore", "resume", "greet", "pause"}
    BY <1>0, Fields
  <2> QED BY <1>0, <1>1, <1>2, <2>1 DEF Safe, Load
<1>6. /\ Whole(x) /\ x.state = "failed" /\ Ending(vm, x, "broken")
      /\ x.accepted = vm.accepted /\ x.starts = vm.starts
  BY <1>0, <1>2, <1>4, <1>5, FailKeeps
<1>7. Ends(vm, x)
  BY <1>6 DEF Ends, Reasons
<1>8. x.state = vm.state \/ << vm.state, x.state >> \in Rows
  <2>1. vm.state \in States
    BY <1>0, Fields
  <2>2. vm.state # "parking"
    BY <1>0, <1>2 DEF Safe, Timers
  <2> QED BY <1>1, <1>6, <2>1, <2>2 DEF States, Rows, Table
<1> QED BY <1>6, <1>7, <1>8 DEF Goes

LEMMA WrongVersionKeeps ==
  ASSUME InTime, Whole(vm), WrongVersion, NEW x, x = vm'
  PROVE  Whole(x) /\ Goes(vm, x)
<1>0. vm \in VmType /\ Safe(vm) /\ vm.cpu /\ FailsInTime /\ x = Fail(vm)
  BY DEF WrongVersion, Whole, Safe
<1>1. vm.want
  BY <1>0 DEF Safe, Seen
<1>2. vm.state # "parked"
  BY <1>0, <1>1 DEF Safe, Machine
<1> QED BY <1>0, <1>1, <1>2, FailsKeeps

LEMMA FetchFailedKeeps ==
  ASSUME InTime, Whole(vm), FetchFailed, NEW x, x = vm'
  PROVE  Whole(x) /\ Goes(vm, x)
<1>0. vm \in VmType /\ vm.want /\ FailsInTime
  BY DEF FetchFailed, Whole, Safe
<1>1. CASE vm.state = "loading" /\ x = Fail(vm)
  BY <1>0, <1>1, FailsKeeps
<1>2. CASE x = [vm EXCEPT !.grace = @ \cup {vm.run}] /\ vm.state \in {"starting", "running"}
  <2> DEFINE g == vm.grace \cup {vm.run}
  <2>1. g \in SUBSET Runs
    <3>1. vm.run \in Runs
      BY <1>2, InHand DEF Whole, Safe
    <3>2. vm.grace \in SUBSET Runs
      BY <1>0, Fields
    <3> QED BY <3>1, <3>2
  <2>2. x = [vm EXCEPT !.grace = g]
    BY <1>2
  <2> HIDE DEF g
  <2>3. x \in VmType /\ SameButEnds(x, vm) /\ x.ended = vm.ended
    BY <1>0, <2>1, <2>2, GraceIs
  <2>4. Whole(x)
    BY <1>0, <2>3, AlikeIsWhole
  <2>5. SameRuns(x, vm) /\ x.state = vm.state
    BY <2>3 DEF SameButEnds, SameRuns, SamePhase
  <2> QED BY <2>4, <2>5, Silent
<1> QED BY <1>1, <1>2 DEF FetchFailed

(* The agent dies, and what it had not answered with it.                   *)
LEMMA SuffixIs ==
  ASSUME NEW S, NEW s \in Seq(S), NEW d \in 0 .. Len(s), NEW t, t = SubSeq(s, d + 1, Len(s))
  PROVE  t \in Seq(S) /\ IsRest(t, s)
<1>1. d \in Nat /\ Len(s) \in Nat /\ d <= Len(s)
  OBVIOUS
<1>2. t \in Seq(S) /\ Len(t) + d = Len(s)
  BY <1>1
<1>3. \A k \in DOMAIN t : k + d \in DOMAIN s /\ t[k] = s[k + d]
  <2> TAKE k \in DOMAIN t
  <2>1. k \in 1 .. Len(t) /\ k \in Nat
    BY <1>2
  <2>2. k + d \in 1 .. Len(s)
    BY <1>1, <1>2, <2>1
  <2>3. t[k] = s[k + d]
    BY <1>1, <1>2, <2>1
  <2> QED BY <2>2, <2>3
<1> QED BY <1>1, <1>2, <1>3 DEF IsRest

Reset(v, l) == [v EXCEPT !.prog = None, !.line = l]

LEMMA ResetIs ==
  ASSUME NEW v \in VmType, NEW l \in Seq([type : Frames, id : Nat]), NEW x, x = Reset(v, l)
  PROVE  /\ x \in VmType /\ x.prog = None /\ x.hellos = v.hellos /\ x.line = l /\ x.ran = v.ran
         /\ SamePhase(x, v) /\ SameRuns(x, v) /\ SameJobs(x, v) /\ SameCpu(x, v) /\ SameLoad(x, v) /\ SameTimers(x, v)
<1>1. x.prog = None /\ x.hellos = v.hellos /\ x.line = l /\ x.ran = v.ran
  BY DEF Reset, VmType
<1>2. SamePhase(x, v) /\ SameRuns(x, v) /\ SameJobs(x, v) /\ SameCpu(x, v) /\ SameLoad(x, v) /\ SameTimers(x, v)
  BY DEF Reset, VmType, SamePhase, SameRuns, SameJobs, SameCpu, SameLoad, SameTimers
<1>3. x \in VmType
  <2> DEFINE d == [v EXCEPT !.prog = None]
  <2>1. d \in VmType
    BY NoProgIs DEF None
  <2>2. x = [d EXCEPT !.line = l]
    BY DEF Reset
  <2> HIDE DEF d
  <2>3. \A y \in Seq([type : Frames, id : Nat]) : [d EXCEPT !.line = y] \in VmType
    BY <2>1, Updates
  <2> QED BY <2>2, <2>3
<1> QED BY <1>1, <1>2, <1>3

LEMMA AgentRestartsKeeps ==
  ASSUME Whole(vm), AgentRestarts, NEW x, x = vm'
  PROVE  Whole(x) /\ Goes(vm, x)
<1>0. vm \in VmType /\ vm.line \in Seq([type : Frames, id : Nat])
  BY Fields DEF Whole, Safe
<1>1. PICK lost \in 0 .. Len(vm.line) :
        x = OnReady([vm EXCEPT !.prog = None, !.line = SubSeq(@, lost + 1, Len(@))], 0, FALSE)
  BY DEF AgentRestarts
<1> DEFINE l == SubSeq(vm.line, lost + 1, Len(vm.line))
           v == Reset(vm, l)
<1>2. l \in Seq([type : Frames, id : Nat]) /\ IsRest(l, vm.line)
  BY <1>0, SuffixIs
<1>3. x = OnReady(v, 0, FALSE)
  <2>1. [vm EXCEPT !.prog = None].line = vm.line
    BY <1>0 DEF VmType
  <2>2. [vm EXCEPT !.prog = None, !.line = SubSeq(@, lost + 1, Len(@))] = v
    BY <2>1 DEF Reset
  <2> QED BY <1>1, <2>2
<1> HIDE DEF l
<1>4. /\ v \in VmType /\ v.prog = None /\ v.hellos = vm.hellos /\ v.line = l /\ v.ran = vm.ran
      /\ SamePhase(v, vm) /\ SameRuns(v, vm) /\ SameJobs(v, vm) /\ SameCpu(v, vm) /\ SameLoad(v, vm) /\ SameTimers(v, vm)
  BY <1>0, <1>2, ResetIs
<1> HIDE DEF v
<1>5. Whole(v)
  BY <1>0, <1>2, <1>4, TakenKeeps
<1>6. v.state = vm.state
  BY <1>4 DEF SamePhase
<1>7. CASE v.run # None /\ v.state \in {"starting", "running"} /\ v.ended[v.run] = "no"
  <2>1. x = EndAndPark(v, v.run, "broken")
    BY <1>3, <1>7 DEF OnReady
  <2>2. Whole(x) /\ x.state = "parking" /\ Ends(v, x)
    BY <1>4, <1>5, <1>7, <2>1, EndAndParkKeeps DEF Reasons, Whole
  <2>3. Goes(v, x)
    BY <1>7, <2>2, EndsGo
  <2> QED BY <1>4, <1>6, <2>2, <2>3, GoesFrom
<1>8. CASE ~(v.run # None /\ v.state \in {"starting", "running"} /\ v.ended[v.run] = "no")
  <2>1. x = v
    BY <1>3, <1>8 DEF OnReady
  <2> QED BY <1>4, <1>5, <1>6, <2>1, Silent
<1> QED BY <1>7, <1>8

(* One frame is answered.                                                  *)
LEMMA LineIs ==
  ASSUME NEW v \in VmType, NEW l \in Seq([type : Frames, id : Nat]), NEW x, x = [v EXCEPT !.line = l]
  PROVE  /\ x \in VmType /\ x.prog = v.prog /\ x.hellos = v.hellos /\ x.line = l /\ x.ran = v.ran
         /\ SamePhase(x, v) /\ SameRuns(x, v) /\ SameJobs(x, v) /\ SameCpu(x, v) /\ SameLoad(x, v) /\ SameTimers(x, v)
<1>1. x \in VmType
  BY Updates
<1>2. x.prog = v.prog /\ x.hellos = v.hellos /\ x.line = l /\ x.ran = v.ran
  BY DEF VmType
<1>3. SamePhase(x, v) /\ SameRuns(x, v) /\ SameJobs(x, v) /\ SameCpu(x, v) /\ SameLoad(x, v) /\ SameTimers(x, v)
  BY DEF VmType, SamePhase, SameRuns, SameJobs, SameCpu, SameLoad, SameTimers
<1> QED BY <1>1, <1>2, <1>3

FrameType == [type : Frames, id : Nat]

LEMMA FramesAre ==
  ASSUME NEW v \in VmType
  PROVE  \A k \in DOMAIN v.line : v.line[k].type \in Frames /\ v.line[k].id \in Nat
<1>1. v.line \in Seq(FrameType)
  BY Fields DEF FrameType
<1>2. \A k \in DOMAIN v.line : v.line[k] \in FrameType
  BY <1>1
<1> QED BY <1>2 DEF FrameType

LEMMA Answered ==
  ASSUME NEW u \in VmType, Whole(u), u.line # << >>, NEW v, v = [u EXCEPT !.line = Tail(@)],
         NEW m, m = Head(u.line)
  PROVE  /\ v \in VmType /\ Whole(v) /\ v.line = Tail(u.line)
         /\ v.prog = u.prog /\ v.hellos = u.hellos /\ v.ran = u.ran
         /\ SamePhase(v, u) /\ SameRuns(v, u) /\ SameJobs(v, u) /\ SameCpu(v, u) /\ SameLoad(v, u) /\ SameTimers(v, u)
         /\ m.type \in Frames /\ m.id \in Nat
         /\ 1 \in DOMAIN u.line /\ m = u.line[1] /\ Len(v.line) + 1 = Len(u.line) /\ Len(v.line) \in Nat
         /\ \A k \in DOMAIN v.line : k \in Nat \ {0} /\ k + 1 \in DOMAIN u.line /\ v.line[k] = u.line[k + 1]
<1> DEFINE l == Tail(u.line)
<1>1. u.line \in Seq([type : Frames, id : Nat])
  BY Fields
<1>2. /\ l \in Seq([type : Frames, id : Nat]) /\ Len(l) = Len(u.line) - 1 /\ m = u.line[1] /\ 1 \in DOMAIN u.line
      /\ \A k \in DOMAIN l : k \in Nat \ {0} /\ k + 1 \in DOMAIN u.line /\ l[k] = u.line[k + 1]
  BY <1>1, TailIs
<1>3. m.type \in Frames /\ m.id \in Nat
  BY <1>2, FramesAre
<1>4. Len(l) + 1 = Len(u.line) /\ Len(l) \in Nat
  <2>1. Len(u.line) \in Nat /\ Len(l) \in Nat
    BY <1>1, <1>2
  <2> QED BY <1>2, <2>1
<1>5. IsRest(l, u.line)
  <2>1. 1 \in Nat
    OBVIOUS
  <2> HIDE DEF l
  <2> QED BY <1>2, <1>4, <2>1 DEF IsRest
<1> HIDE DEF l
<1>6. v = [u EXCEPT !.line = l]
  BY DEF l
<1>7. /\ v \in VmType /\ v.prog = u.prog /\ v.hellos = u.hellos /\ v.line = l /\ v.ran = u.ran
      /\ SamePhase(v, u) /\ SameRuns(v, u) /\ SameJobs(v, u) /\ SameCpu(v, u) /\ SameLoad(v, u) /\ SameTimers(v, u)
  BY <1>2, <1>6, LineIs
<1>8. Whole(v)
  BY <1>5, <1>7, TakenKeeps
<1> QED BY <1>2, <1>3, <1>4, <1>7, <1>8 DEF l

(* A HELLO has its READY.                                                  *)
Heard(v, id) == [v EXCEPT !.hellos[id] = "none", !.strikes = 0]

LEMMA HeardIs ==
  ASSUME NEW v \in VmType, NEW id \in Ids, NEW x, x = Heard(v, id)
  PROVE  /\ x \in VmType /\ x.prog = v.prog /\ x.line = v.line /\ x.ran = v.ran
         /\ x.hellos[id] = "none" /\ \A i \in Ids : i # id => x.hellos[i] = v.hellos[i]
         /\ SamePhase(x, v) /\ SameRuns(x, v) /\ SameJobs(x, v) /\ SameCpu(x, v) /\ SameLoad(x, v) /\ SameTimers(x, v)
         /\ x.helloId = v.helloId
<1> DEFINE h == [v.hellos EXCEPT ![id] = "none"]
           d == [v EXCEPT !.hellos = h]
<1>1. h \in [Ids -> Purposes \cup {"none"}] /\ h[id] = "none" /\ \A i \in Ids : i # id => h[i] = v.hellos[i]
  <2>1. v.hellos \in [Ids -> Purposes \cup {"none"}]
    BY Fields
  <2> QED BY <2>1
<1>2. x = [v EXCEPT !.hellos = h, !.strikes = 0]
  BY DEF Heard
<1> HIDE DEF h
<1>3. x \in VmType
  <2>1. d \in VmType
    BY <1>1, Updates
  <2>2. x = [d EXCEPT !.strikes = 0]
    BY <1>2
  <2> HIDE DEF d
  <2>3. \A y \in 0 .. 2 : [d EXCEPT !.strikes = y] \in VmType
    BY <2>1, Updates
  <2> QED BY <2>2, <2>3
<1>4. x.prog = v.prog /\ x.line = v.line /\ x.ran = v.ran /\ x.hellos = h /\ x.helloId = v.helloId
  BY <1>2 DEF VmType
<1>5. SamePhase(x, v) /\ SameRuns(x, v) /\ SameJobs(x, v) /\ SameCpu(x, v) /\ SameLoad(x, v) /\ SameTimers(x, v)
  BY <1>2 DEF VmType, SamePhase, SameRuns, SameJobs, SameCpu, SameLoad, SameTimers
<1> QED BY <1>1, <1>3, <1>4, <1>5

LEMMA HeardKeeps ==
  ASSUME NEW v \in VmType, Whole(v), NEW id \in Ids, NEW x, x = Heard(v, id)
  PROVE  Whole(x) /\ x \in VmType /\ SameRuns(x, v) /\ SamePhase(x, v)
<1>1. /\ x \in VmType /\ x.prog = v.prog /\ x.line = v.line /\ x.ran = v.ran
      /\ x.hellos[id] = "none" /\ \A i \in Ids : i # id => x.hellos[i] = v.hellos[i]
      /\ SamePhase(x, v) /\ SameRuns(x, v) /\ SameJobs(x, v) /\ SameCpu(x, v) /\ SameLoad(x, v) /\ SameTimers(x, v)
  BY HeardIs
<1>2. /\ x.state = v.state /\ x.phase = v.phase /\ x.jobs = v.jobs
      /\ x.accepted = v.accepted /\ x.run = v.run /\ x.queued = v.queued /\ x.ended = v.ended /\ x.starts = v.starts
      /\ x.stopTimer = v.stopTimer /\ x.orphans = v.orphans /\ x.deadline = v.deadline
      /\ x.park = v.park /\ x.pingId = v.pingId /\ x.writing = v.writing
  BY <1>1 DEF SamePhase, SameJobs, SameRuns, SameTimers
<1>3. IsRest(x.line, v.line)
  <2>1. v.line \in Seq([type : Frames, id : Nat])
    BY Fields
  <2> QED BY <1>1, <2>1, AllIsRest
<1>4. Less(x, v)
  <2>1. \A i \in Ids : x.hellos[i] \in {v.hellos[i], "none"}
    BY <1>1
  <2> QED BY <1>1, <1>2, <1>3, <2>1 DEF Less
<1>5. Safe(x)
  BY <1>1, <1>4, LessIsSafe DEF Whole
<1>6. Kept(x)
  BY <1>2 DEF Whole, Kept
<1>7. Moving(x)
  BY <1>1, <1>2 DEF Whole, Moving, BeginPending
<1> QED BY <1>1, <1>5, <1>6, <1>7 DEF Whole

(* The greeting is over: the machine is stopped where runs begin.          *)
LEMMA GreetedKeeps ==
  ASSUME NEW g \in VmType, Safe(g), Kept(g), g.load = "greet", g.deadline = "off", g.hellos = NoHellos, g.line = << >>,
         NEW warm \in BOOLEAN, NEW x, x = Greeted(g, warm)
  PROVE  Whole(x) /\ Goes(g, x)
<1> DEFINE a == [g EXCEPT !.load = "pause"]
<1>0. /\ g.state = "loading" /\ g.loading = "pending" /\ g.built /\ g.ran = 0 /\ g.prog = None
      /\ g.told # "ready"
  BY DEF Safe, Load, Machine, Program, Greeting
<1>1. /\ g.park = "no" /\ g.orphans = 0 /\ ~g.stopTimer /\ g.run = None
      /\ \A r \in g.writing : g.ended[r] # "no"
  BY <1>0 DEF Safe, Timers, Active
<1>2. CASE warm = FALSE
  <2>1. x = FailLoad(g)
    BY <1>0, <1>2 DEF Greeted
  <2>2. \A k \in DOMAIN g.jobs : g.jobs[k].op \notin Settling
    BY <1>1, NothingAwaited
  <2>3. MayFail(g)
    BY <1>0, <2>2, FailsInSafety
  <2>4. /\ Whole(x) /\ x.state = "failed" /\ Ending(g, x, "broken")
        /\ x.accepted = g.accepted /\ x.starts = g.starts
    BY <1>1, <2>1, <2>3, FailLoadKeeps
  <2>5. Ends(g, x)
    BY <2>4 DEF Ends, Reasons
  <2>6. << g.state, x.state >> \in Rows
    BY <1>0, <2>4 DEF Rows, Table
  <2> QED BY <2>4, <2>5, <2>6 DEF Goes
<1>3. CASE warm = TRUE
  <2>1. x = Enqueue(a, "loadPause", None)
    BY <1>0, <1>3 DEF Greeted
  <2>2. /\ a \in VmType /\ a.load = "pause" /\ a.loading = g.loading /\ a.told = g.told
        /\ SamePhase(a, g) /\ SameRuns(a, g) /\ SameJobs(a, g) /\ SameCpu(a, g) /\ SameLine(a, g) /\ SameTimers(a, g)
    BY LoadIs
  <2> HIDE DEF a
  <2>3. /\ x \in VmType /\ x.jobs = Append(a.jobs, Job("loadPause", None)) /\ x.built = a.built
        /\ SamePhase(x, a) /\ SameRuns(x, a) /\ SameCpu(x, a) /\ SameLine(x, a) /\ SameLoad(x, a)
        /\ SameTimers(x, a)
    <3>1. "loadPause" \in Ops /\ None \in 0 .. MaxRuns
      BY AssumeTypes DEF Ops
    <3> QED BY <2>1, <2>2, <3>1, EnqueueIs
  <2>4. SamePhase(x, g) /\ SameRuns(x, g) /\ SameCpu(x, g) /\ SameLine(x, g) /\ SameTimers(x, g)
    BY <2>2, <2>3, SameAgain
  <2>5. x.jobs = Append(g.jobs, Job("loadPause", None)) /\ x.built = g.built
        /\ x.load = "pause" /\ x.loading = g.loading /\ x.told = g.told
    BY <2>2, <2>3 DEF SameJobs, SameLoad
  <2>6. /\ x.state = g.state /\ x.phase = g.phase
        /\ x.accepted = g.accepted /\ x.run = g.run /\ x.queued = g.queued
        /\ x.ended = g.ended /\ x.starts = g.starts
        /\ x.want = g.want /\ x.shown = g.shown /\ x.cpu = g.cpu /\ x.visible = g.visible
        /\ x.hellos = g.hellos /\ x.line = g.line /\ x.prog = g.prog /\ x.ran = g.ran
        /\ x.stopTimer = g.stopTimer /\ x.orphans = g.orphans /\ x.deadline = g.deadline
        /\ x.park = g.park /\ x.pingId = g.pingId /\ x.writing = g.writing
    BY <2>4 DEF SamePhase, SameRuns, SameCpu, SameLine, SameTimers
  <2>7. \A k \in DOMAIN g.jobs : g.jobs[k].op \in Sights
    <3> TAKE k \in DOMAIN g.jobs
    <3>1. g.jobs[k].op \in Ops
      BY JobsAre
    <3> QED BY <1>0, <1>1, <3>1 DEF Safe, Queue, Ops, Sights
  <2>8. Queue(x) /\ InSight(x.jobs, g.shown, g.visible)
    <3>1. "loadPause" \in Settling
      BY DEF Settling
    <3>2. \A k \in DOMAIN g.jobs : g.jobs[k].op # "begin"
      BY <2>7 DEF Sights
    <3>3. InSight(g.jobs, g.shown, g.visible)
      BY <1>0 DEF Safe, Seen
    <3> QED BY <2>3, <2>5, <2>7, <3>1, <3>2, <3>3, AwaitedQueues
  <2>9. Timers(x)
    BY <1>0, <1>1, <2>5, <2>6 DEF Safe, Timers, Active
  <2>10. Seen(x)
    BY <1>0, <2>5, <2>6, <2>8 DEF Safe, Seen
  <2>11. Machine(x)
    BY <1>0, <1>1, <2>5, <2>6 DEF Machine, Greeting
  <2>12. DOMAIN x.line = {}
    BY <2>6
  <2>13. Talk(x)
    BY <1>0, <2>5, <2>6, <2>12 DEF Talk, NoHellos
  <2>14. Program(x)
    BY <1>0, <2>6, <2>12 DEF Program
  <2>15. Load(x)
    BY <1>0, <2>5, <2>6 DEF Load, Greeting
  <2>16. Kept(x)
    BY <2>6 DEF Kept
  <2>17. Whole(x)
    BY <1>0, <2>3, <2>6, <2>8, <2>9, <2>10, <2>11, <2>13, <2>14, <2>15, <2>16, Still DEF Whole, Safe
  <2> QED BY <2>4, <2>6, <2>17, Silent
<1> QED BY <1>2, <1>3

(* The files of a run whose HELLO has its READY are written.               *)
Prepared(v) == [v EXCEPT !.phase[v.run] = "files", !.deadline = "off", !.writing = @ \cup {v.run}]

LEMMA PreparedIs ==
  ASSUME NEW v \in VmType, v.run \in Runs, NEW x, x = Prepared(v)
  PROVE  /\ x.phase[v.run] = "files" /\ x.state = v.state /\ \A r \in Runs : r # v.run => x.phase[r] = v.phase[r]
         /\ x.deadline = "off" /\ x.writing = v.writing \cup {v.run}
         /\ x.stopTimer = v.stopTimer /\ x.orphans = v.orphans /\ x.park = v.park /\ x.pingId = v.pingId
         /\ SameRuns(x, v) /\ SameJobs(x, v) /\ SameCpu(x, v) /\ SameLine(x, v) /\ SameLoad(x, v)
<1> DEFINE f == [v.phase EXCEPT ![v.run] = "files"]
<1>1. f[v.run] = "files" /\ \A r \in Runs : r # v.run => f[r] = v.phase[r]
  <2>1. v.phase \in [Runs -> Phases]
    BY Fields
  <2> QED BY <2>1
<1>2. x = [v EXCEPT !.phase = f, !.deadline = "off", !.writing = v.writing \cup {v.run}]
  BY DEF Prepared, VmType
<1> HIDE DEF f
<1>3. /\ x.phase = f /\ x.state = v.state /\ x.deadline = "off" /\ x.writing = v.writing \cup {v.run}
      /\ x.stopTimer = v.stopTimer /\ x.orphans = v.orphans /\ x.park = v.park /\ x.pingId = v.pingId
  BY <1>2 DEF VmType
<1>4. SameRuns(x, v) /\ SameJobs(x, v) /\ SameCpu(x, v) /\ SameLine(x, v) /\ SameLoad(x, v)
  BY <1>2 DEF VmType, SameRuns, SameJobs, SameCpu, SameLine, SameLoad
<1> QED BY <1>1, <1>3, <1>4

LEMMA PreparedKeeps ==
  ASSUME NEW v \in VmType, Whole(v), v.state = "starting", v.phase[v.run] = "hello", v.ran = 0, v.want,
         \A k \in DOMAIN v.jobs : v.jobs[k].op # "begin",
         NEW x \in VmType, x = Prepared(v)
  PROVE  Whole(x) /\ SameRuns(x, v) /\ x.state = v.state
<1>0. v.run \in Runs /\ v.load = "no" /\ v.ended[v.run] = "no" /\ Safe(v) /\ Kept(v)
  BY InHand DEF Whole, Kept
<1>1. /\ x.phase[v.run] = "files" /\ x.state = v.state /\ \A r \in Runs : r # v.run => x.phase[r] = v.phase[r]
      /\ x.deadline = "off" /\ x.writing = v.writing \cup {v.run}
      /\ x.stopTimer = v.stopTimer /\ x.orphans = v.orphans /\ x.park = v.park /\ x.pingId = v.pingId
      /\ SameRuns(x, v) /\ SameJobs(x, v) /\ SameCpu(x, v) /\ SameLine(x, v) /\ SameLoad(x, v)
  BY <1>0, PreparedIs
<1>2. /\ x.accepted = v.accepted /\ x.run = v.run /\ x.queued = v.queued
      /\ x.ended = v.ended /\ x.starts = v.starts /\ x.jobs = v.jobs /\ x.built = v.built
      /\ x.want = v.want /\ x.shown = v.shown /\ x.cpu = v.cpu /\ x.visible = v.visible
      /\ x.hellos = v.hellos /\ x.line = v.line /\ x.prog = v.prog /\ x.ran = v.ran
      /\ x.loading = v.loading /\ x.load = v.load /\ x.told = v.told
  BY <1>1 DEF SameRuns, SameJobs, SameCpu, SameLine, SameLoad
<1>3. Timers(x)
  <2>1. \A r \in v.writing : v.ended[r] = "no" => r = v.run
    BY <1>0 DEF Safe, Timers
  <2> QED BY <1>0, <1>1, <1>2, <2>1 DEF Safe, Timers
<1>4. Seen(x)
  BY <1>0, <1>2 DEF Safe, Seen
<1>5. Machine(x)
  BY <1>0, <1>1, <1>2 DEF Safe, Machine, BeginPending
<1>6. Queue(x)
  BY <1>0, <1>1, <1>2 DEF Safe, Queue
<1>7. Talk(x)
  BY <1>0, <1>1, <1>2 DEF Safe, Talk
<1>8. Program(x)
  BY <1>0, <1>1, <1>2 DEF Safe, Program
<1>9. Load(x)
  BY <1>0, <1>1, <1>2 DEF Safe, Load
<1>10. Kept(x)
  BY <1>0, <1>1, <1>2 DEF Kept
<1>11. Moving(x)
  BY <1>1, <1>2 DEF Moving
<1> QED BY <1>1, <1>3, <1>4, <1>5, <1>6, <1>7, <1>8, <1>9, <1>10, <1>11 DEF Whole, Safe

(* A deadline of the run's start has passed, and its second go is to come. *)
Late(v) == v.park # "no" /\ v.run # None /\ v.ended[v.run] = "no"

LEMMA NotLate ==
  ASSUME NEW v \in VmType, Whole(v), ~Late(v), v.run # None, v.ended[v.run] = "no"
  PROVE  v.state \in {"starting", "running"}
BY DEF Late, Whole, Safe, Timers, Active, Kept

LEMMA OnReadyIs ==
  ASSUME NEW v, NEW id \in Ids, NEW warm, NEW k, k = Heard(v, id), NEW x, x = OnReady(v, id, warm)
  PROVE  /\ v.hellos[id] = "none" => x = v
         /\ v.hellos[id] = "load" => x = Greeted([k EXCEPT !.deadline = "off"], warm)
         /\ v.hellos[id] \notin {"none", "load"} =>
              \/ x = k
              \/ /\ v.hellos[id] = "run" /\ k.run # None /\ k.phase[k.run] = "hello" /\ k.ended[k.run] = "no"
                 /\ x = Prepared(k)
<1>1. id # 0
  BY IdsAssumption
<1>2. CASE v.hellos[id] = "none"
  BY <1>1, <1>2 DEF OnReady
<1>3. CASE v.hellos[id] = "load"
  BY <1>1, <1>3 DEF OnReady, Heard
<1>4. CASE v.hellos[id] \notin {"none", "load"}
  BY <1>1, <1>4 DEF OnReady, Heard, Prepared
<1> QED BY <1>2, <1>3, <1>4

LEMMA OnReadyKeeps ==
  ASSUME NEW v \in VmType, Whole(v), ~Late(v), NEW id \in Ids, NEW warm \in BOOLEAN,
         v.load = "greet" => v.line = << >>,
         NEW x \in VmType, x = OnReady(v, id, warm)
  PROVE  Whole(x) /\ Goes(v, x)
<1> DEFINE k == Heard(v, id)
           g == [k EXCEPT !.deadline = "off"]
<1>1. /\ v.hellos[id] = "none" => x = v
      /\ v.hellos[id] = "load" => x = Greeted(g, warm)
      /\ v.hellos[id] \notin {"none", "load"} =>
           \/ x = k
           \/ /\ v.hellos[id] = "run" /\ k.run # None /\ k.phase[k.run] = "hello" /\ k.ended[k.run] = "no"
              /\ x = Prepared(k)
  BY OnReadyIs
<1>2. /\ k \in VmType /\ k.prog = v.prog /\ k.line = v.line /\ k.ran = v.ran
      /\ k.hellos[id] = "none" /\ \A i \in Ids : i # id => k.hellos[i] = v.hellos[i]
      /\ SamePhase(k, v) /\ SameRuns(k, v) /\ SameJobs(k, v) /\ SameCpu(k, v) /\ SameLoad(k, v) /\ SameTimers(k, v)
  BY HeardIs
<1>3. Whole(k)
  BY HeardKeeps
<1>4. g = Struck(k, k.strikes) /\ k.strikes \in 0 .. 2
  <2>1. k.strikes \in 0 .. 2
    BY <1>2, Fields
  <2> HIDE DEF k
  <2>2. g = Struck(k, k.strikes)
    BY <1>2 DEF Struck, VmType
  <2> QED BY <2>1, <2>2
<1> HIDE DEF k, g
<1>5. /\ k.state = v.state /\ k.run = v.run /\ k.ended = v.ended /\ k.phase = v.phase /\ k.jobs = v.jobs
      /\ k.want = v.want /\ k.load = v.load
  BY <1>2 DEF SamePhase, SameRuns, SameJobs, SameCpu, SameLoad
<1>6. CASE v.hellos[id] = "none"
  <2>1. SameRuns(v, v)
    BY DEF SameRuns
  <2> QED BY <1>1, <1>6, <2>1, Silent
<1>7. CASE v.hellos[id] = "load"
  <2>1. v.load = "greet" /\ \A i \in Ids : i # id => v.hellos[i] = "none"
    BY <1>7 DEF Whole, Safe, Talk
  <2>2. k.hellos = NoHellos
    <3>1. k.hellos \in [Ids -> Purposes \cup {"none"}]
      BY <1>2, Fields
    <3>2. \A i \in Ids : k.hellos[i] = "none"
      BY <1>2, <2>1
    <3> QED BY <3>1, <3>2 DEF NoHellos
  <2>3. /\ g \in VmType /\ Safe(g) /\ Kept(g) /\ g.deadline = "off"
        /\ SamePhase(g, k) /\ SameRuns(g, k) /\ SameLine(g, k) /\ SameLoad(g, k)
    BY <1>2, <1>3, <1>4, OffKeeps DEF Whole
  <2>4. g.load = "greet" /\ g.hellos = NoHellos /\ g.line = << >> /\ g.state = v.state
    BY <1>2, <1>5, <2>1, <2>2, <2>3 DEF SameLine, SameLoad, SamePhase
  <2>5. Whole(x) /\ Goes(g, x)
    BY <1>1, <1>7, <2>3, <2>4, GreetedKeeps
  <2>6. SameRuns(g, v)
    BY <1>2, <2>3, SameAgain
  <2> QED BY <2>4, <2>5, <2>6, GoesFrom
<1>8. CASE v.hellos[id] \notin {"none", "load"} /\ x = k
  BY <1>2, <1>3, <1>5, <1>8, Silent
<1>9. CASE /\ v.hellos[id] = "run" /\ k.run # None /\ k.phase[k.run] = "hello" /\ k.ended[k.run] = "no"
           /\ x = Prepared(k)
  <2>1. v.state \in {"starting", "running"}
    BY <1>5, <1>9, NotLate
  <2>2. v.state = "starting" /\ v.ran = 0
    BY <1>5, <1>9, <2>1 DEF Whole, Moving
  <2>3. v.load = "no"
    BY <2>2, InHand DEF Whole
  <2>4. \A j \in DOMAIN v.jobs : v.jobs[j].op # "begin"
    BY <1>9, <2>2, <2>3 DEF Whole, Safe, Queue
  <2>5. v.want
    BY <2>2, <2>4 DEF Whole, Safe, Machine, BeginPending, Job
  <2>6. Whole(x) /\ SameRuns(x, k) /\ x.state = k.state
    BY <1>2, <1>3, <1>5, <1>9, <2>2, <2>4, <2>5, PreparedKeeps
  <2>7. SameRuns(x, v)
    BY <1>2, <2>6, SameAgain
  <2> QED BY <1>5, <2>6, <2>7, Silent
<1> QED BY <1>1, <1>6, <1>7, <1>8, <1>9

(* The guest is alive.                                                     *)
LEMMA PongIs ==
  ASSUME NEW v \in VmType, NEW x, x = Arm([v EXCEPT !.pingId = 0, !.strikes = 0], "ping")
  PROVE  /\ x.deadline = "ping" /\ x.pingId = 0
         /\ x.stopTimer = v.stopTimer /\ x.orphans = v.orphans /\ x.park = v.park /\ x.writing = v.writing
         /\ SamePhase(x, v) /\ SameRuns(x, v) /\ SameJobs(x, v) /\ SameCpu(x, v) /\ SameLine(x, v) /\ SameLoad(x, v)
<1>1. x = [v EXCEPT !.pingId = 0, !.strikes = 0, !.deadline = "ping"]
  BY DEF Arm
<1>2. /\ x.deadline = "ping" /\ x.pingId = 0
      /\ x.stopTimer = v.stopTimer /\ x.orphans = v.orphans /\ x.park = v.park /\ x.writing = v.writing
  BY <1>1 DEF VmType
<1>3. SamePhase(x, v) /\ SameRuns(x, v) /\ SameJobs(x, v)
  BY <1>1 DEF VmType, SamePhase, SameRuns, SameJobs
<1>4. SameCpu(x, v) /\ SameLine(x, v) /\ SameLoad(x, v)
  BY <1>1 DEF VmType, SameCpu, SameLine, SameLoad
<1> QED BY <1>2, <1>3, <1>4

LEMMA OnPongKeeps ==
  ASSUME NEW v \in VmType, Whole(v), v.cpu, v.load # "pause", NEW id \in Ids,
         NEW x \in VmType, x = OnPong(v, id)
  PROVE  Whole(x) /\ Goes(v, x)
<1>0. Safe(v) /\ Kept(v) /\ id # 0
  BY IdsAssumption DEF Whole
<1>1. CASE id # v.pingId
  <2>1. x = v
    BY <1>1 DEF OnPong
  <2>2. SameRuns(v, v)
    BY DEF SameRuns
  <2> QED BY <2>1, <2>2, Silent
<1>2. CASE id = v.pingId
  <2>1. x = Arm([v EXCEPT !.pingId = 0, !.strikes = 0], "ping")
    BY <1>2 DEF OnPong
  <2>2. /\ x.deadline = "ping" /\ x.pingId = 0
        /\ x.stopTimer = v.stopTimer /\ x.orphans = v.orphans /\ x.park = v.park /\ x.writing = v.writing
        /\ SamePhase(x, v) /\ SameRuns(x, v) /\ SameJobs(x, v) /\ SameCpu(x, v) /\ SameLine(x, v) /\ SameLoad(x, v)
    BY <2>1, PongIs
  <2>3. /\ x.state = v.state /\ x.phase = v.phase
        /\ x.accepted = v.accepted /\ x.run = v.run /\ x.queued = v.queued
        /\ x.ended = v.ended /\ x.starts = v.starts /\ x.jobs = v.jobs /\ x.built = v.built
        /\ x.want = v.want /\ x.shown = v.shown /\ x.cpu = v.cpu /\ x.visible = v.visible
        /\ x.hellos = v.hellos /\ x.line = v.line /\ x.prog = v.prog /\ x.ran = v.ran
        /\ x.loading = v.loading /\ x.load = v.load /\ x.told = v.told
    BY <2>2 DEF SamePhase, SameRuns, SameJobs, SameCpu, SameLine, SameLoad
  <2>4. v.state \notin {"starting", "parking", "parked"}
    <3>1. v.state \in {"running", "stopping", "failed", "destroyed"} \/ v.load \in {"bundle", "build", "restore"}
      BY <1>0, <1>2 DEF Safe, Timers
    <3>2. v.load # "no" => v.state \in {"loading", "failed"}
      BY <1>0 DEF Safe, Load
    <3> QED BY <3>1, <3>2
  <2>5. v.load \notin {"build", "pause"}
    BY <1>0 DEF Safe, Seen, Machine
  <2>6. Timers(x)
    BY <1>0, <2>2, <2>3, <2>4, <2>5 DEF Safe, Timers
  <2>7. Seen(x)
    BY <1>0, <2>3 DEF Safe, Seen
  <2>8. Machine(x)
    <3>1. x.park = v.park
      BY <2>2
    <3> QED BY <1>0, <2>3, <3>1 DEF Safe, Machine, BeginPending
  <2>9. Queue(x)
    BY <1>0, <2>2, <2>3, <2>4 DEF Safe, Queue
  <2>10. Talk(x)
    BY <1>0, <2>3 DEF Safe, Talk
  <2>11. Program(x)
    BY <1>0, <2>3 DEF Safe, Program
  <2>12. Load(x)
    BY <1>0, <2>3 DEF Safe, Load
  <2>13. Kept(x)
    BY <1>0, <2>3 DEF Kept
  <2>14. Moving(x)
    BY <2>2, <2>3, <2>4 DEF Whole, Moving
  <2> QED BY <2>2, <2>3, <2>6, <2>7, <2>8, <2>9, <2>10, <2>11, <2>12, <2>13, <2>14, Silent DEF Whole, Safe
<1> QED BY <1>1, <1>2

(* The program starts.                                                     *)
Started(v, r) ==
  Arm([SetState([v EXCEPT !.prog = r], "running") EXCEPT
         !.phase[r] = "running", !.strikes = 0, !.starts[r] = Count(@)], "ping")

LEMMA StartedIs ==
  ASSUME NEW v \in VmType, NEW r \in Runs, v.state = "starting", v.starts[r] = 0, NEW x, x = Started(v, r)
  PROVE  /\ x.state = "running" /\ x.deadline = "ping" /\ x.prog = r
         /\ x.phase[r] = "running" /\ \A q \in Runs : q # r => x.phase[q] = v.phase[q]
         /\ \A q \in Runs : x.starts[q] = IF q = r THEN 1 ELSE v.starts[q]
         /\ x.accepted = v.accepted /\ x.run = v.run /\ x.queued = v.queued /\ x.ended = v.ended
         /\ x.hellos = v.hellos /\ x.line = v.line /\ x.ran = v.ran
         /\ x.stopTimer = v.stopTimer /\ x.orphans = v.orphans /\ x.park = v.park /\ x.pingId = v.pingId
         /\ x.writing = v.writing
         /\ SameJobs(x, v) /\ SameCpu(x, v) /\ SameLoad(x, v)
<1> DEFINE f == [v.phase EXCEPT ![r] = "running"]
           s == [v.starts EXCEPT ![r] = Count(@)]
<1>1. f[r] = "running" /\ \A q \in Runs : q # r => f[q] = v.phase[q]
  <2>1. v.phase \in [Runs -> Phases]
    BY Fields
  <2> QED BY <2>1
<1>2. \A q \in Runs : s[q] = IF q = r THEN 1 ELSE v.starts[q]
  <2>1. v.starts \in [Runs -> 0 .. 2]
    BY Fields
  <2>2. Count(0) = 1
    BY DEF Count
  <2> QED BY <2>1, <2>2
<1>3. x = [v EXCEPT !.prog = r, !.state = "running", !.phase = f, !.strikes = 0, !.starts = s, !.deadline = "ping"]
  <2>1. SetState([v EXCEPT !.prog = r], "running") = [v EXCEPT !.prog = r, !.state = "running"]
    BY DEF SetState, VmType
  <2> QED BY <2>1 DEF Started, Arm, VmType
<1> HIDE DEF f, s
<1>4. /\ x.state = "running" /\ x.deadline = "ping" /\ x.prog = r /\ x.phase = f /\ x.starts = s
      /\ x.accepted = v.accepted /\ x.run = v.run /\ x.queued = v.queued /\ x.ended = v.ended
      /\ x.hellos = v.hellos /\ x.line = v.line /\ x.ran = v.ran
      /\ x.stopTimer = v.stopTimer /\ x.orphans = v.orphans /\ x.park = v.park /\ x.pingId = v.pingId
      /\ x.writing = v.writing
  BY <1>3 DEF VmType
<1>5. SameJobs(x, v) /\ SameCpu(x, v) /\ SameLoad(x, v)
  BY <1>3 DEF VmType, SameJobs, SameCpu, SameLoad
<1> QED BY <1>1, <1>2, <1>4, <1>5

(* A RUN is taken up.                                                      *)
TakesUp(v, r) ==
  /\ v.prog = None /\ v.ran # 0 /\ \A k \in DOMAIN v.line : v.line[k].type # "RUN"
  /\ v.ended[r] = "no" => v.run = r /\ v.state = "starting" /\ v.phase[r] = "run"

LEMMA StartedKeeps ==
  ASSUME NEW v \in VmType, Whole(v), NEW r \in Runs, TakesUp(v, r), v.ended[r] = "no",
         NEW x \in VmType, x = Started(v, r)
  PROVE  Whole(x) /\ Goes(v, x)
<1>0. /\ Safe(v) /\ Kept(v) /\ v.run = r /\ v.state = "starting" /\ v.phase[r] = "run" /\ v.load = "no"
      /\ v.prog = None /\ v.ran # 0 /\ \A k \in DOMAIN v.line : v.line[k].type # "RUN"
  BY InHand DEF Whole, TakesUp
<1>1. v.starts[r] = 0
  BY <1>0 DEF Kept
<1>2. /\ x.state = "running" /\ x.deadline = "ping" /\ x.prog = r
      /\ x.phase[r] = "running" /\ \A q \in Runs : q # r => x.phase[q] = v.phase[q]
      /\ \A q \in Runs : x.starts[q] = IF q = r THEN 1 ELSE v.starts[q]
      /\ x.accepted = v.accepted /\ x.run = v.run /\ x.queued = v.queued /\ x.ended = v.ended
      /\ x.hellos = v.hellos /\ x.line = v.line /\ x.ran = v.ran
      /\ x.stopTimer = v.stopTimer /\ x.orphans = v.orphans /\ x.park = v.park /\ x.pingId = v.pingId
      /\ x.writing = v.writing
      /\ SameJobs(x, v) /\ SameCpu(x, v) /\ SameLoad(x, v)
  BY <1>0, <1>1, StartedIs
<1>3. /\ x.jobs = v.jobs /\ x.built = v.built
      /\ x.want = v.want /\ x.shown = v.shown /\ x.cpu = v.cpu /\ x.visible = v.visible
      /\ x.loading = v.loading /\ x.load = v.load /\ x.told = v.told
  BY <1>2 DEF SameJobs, SameCpu, SameLoad
<1>4. \A k \in DOMAIN v.jobs : v.jobs[k].op # "begin"
  BY <1>0 DEF Safe, Queue
<1>5. Timers(x)
  <2>1. v.pingId = 0
    BY <1>0 DEF Safe, Timers
  <2>2. \A q \in v.writing : v.ended[q] # "no"
    BY <1>0 DEF Safe, Timers
  <2> QED BY <1>0, <1>2, <1>3, <2>1, <2>2 DEF Safe, Timers, Active
<1>6. Seen(x)
  BY <1>0, <1>3 DEF Safe, Seen
<1>7. Machine(x)
  BY <1>0, <1>2, <1>3, <1>4 DEF Safe, Machine, BeginPending, Job
<1>8. Queue(x)
  BY <1>0, <1>2, <1>3, <1>4 DEF Safe, Queue
<1>9. Talk(x)
  BY <1>0, <1>2, <1>3 DEF Safe, Talk
<1>10. Program(x)
  BY <1>0, <1>2, <1>3 DEF Program
<1>11. Load(x)
  BY <1>0, <1>2, <1>3 DEF Safe, Load
<1>12. Kept(x)
  <2>1. \A q \in Runs : x.starts[q] # 0 /\ q # r => v.starts[q] # 0
    BY <1>2
  <2>2. r <= v.accepted
    BY <1>0 DEF Kept
  <2>3. \A q \in Runs : q > v.accepted => q # r
    BY <1>0, <2>2, UpTo, Fields
  <2>4. \A q \in Runs : q > x.accepted => x.ended[q] = "no" /\ x.starts[q] = 0
    BY <1>0, <1>2, <2>3 DEF Kept
  <2>5. \A q \in Runs : x.ended[q] = "no" /\ x.starts[q] # 0 => x.state = "running" /\ x.run = q
    BY <1>0, <1>2, <2>1 DEF Kept
  <2>6. v.queued = None
    BY <1>0 DEF Kept
  <2> QED BY <1>0, <1>2, <2>4, <2>5, <2>6 DEF Kept
<1>13. Moving(x)
  BY <1>0, <1>2 DEF Moving
<1>14. Goes(v, x)
  <2>1. r \in 1 .. v.accepted
    <3>1. r <= v.accepted /\ v.accepted \in 0 .. MaxRuns
      BY <1>0, Fields DEF Kept
    <3> QED BY <3>1 DEF Runs
  <2>2. Starts(v, x)
    BY <1>1, <1>2, <2>1 DEF Starts
  <2>3. << v.state, x.state >> \in Rows
    BY <1>0, <1>2 DEF Rows, Table
  <2> QED BY <2>2, <2>3 DEF Goes
<1> QED BY <1>5, <1>6, <1>7, <1>8, <1>9, <1>10, <1>11, <1>12, <1>13, <1>14 DEF Whole, Safe

LEMMA OnStartedKeeps ==
  ASSUME NEW v \in VmType, Whole(v), NEW r \in Runs, TakesUp(v, r),
         NEW x \in VmType, x = OnStarted([v EXCEPT !.prog = r], r)
  PROVE  Whole(x) /\ Goes(v, x)
<1> DEFINE p == [v EXCEPT !.prog = r]
<1>0. r # None /\ r \in Nat /\ Safe(v) /\ Kept(v)
  BY AssumeTypes DEF Runs, None, Whole
<1>1. /\ p \in VmType /\ p.prog = r /\ p.hellos = v.hellos /\ p.line = v.line /\ p.ran = v.ran
      /\ SamePhase(p, v) /\ SameRuns(p, v) /\ SameJobs(p, v) /\ SameCpu(p, v) /\ SameLoad(p, v) /\ SameTimers(p, v)
  BY <1>0, NoProgIs
<1>2. /\ p.state = v.state /\ p.phase = v.phase
      /\ p.accepted = v.accepted /\ p.run = v.run /\ p.queued = v.queued
      /\ p.ended = v.ended /\ p.starts = v.starts /\ p.jobs = v.jobs /\ p.built = v.built
      /\ p.want = v.want /\ p.shown = v.shown /\ p.cpu = v.cpu /\ p.visible = v.visible
      /\ p.loading = v.loading /\ p.load = v.load /\ p.told = v.told
      /\ p.stopTimer = v.stopTimer /\ p.orphans = v.orphans /\ p.deadline = v.deadline
      /\ p.park = v.park /\ p.pingId = v.pingId /\ p.writing = v.writing
  BY <1>1 DEF SamePhase, SameRuns, SameJobs, SameCpu, SameLoad, SameTimers
<1>3. CASE v.ended[r] = "no"
  <2>1. Current(p, r) /\ p.phase[r] = "run"
    BY <1>0, <1>2, <1>3 DEF TakesUp, Current
  <2>2. x = Started(v, r)
    BY <2>1 DEF OnStarted, Started
  <2> QED BY <1>3, <2>2, StartedKeeps
<1>4. CASE v.ended[r] # "no"
  <2>1. x = p
    BY <1>2, <1>4 DEF OnStarted, Current
  <2> HIDE DEF p
  <2>2. Timers(p) /\ Load(p)
    BY <1>0, <1>2 DEF Safe, Timers, Load
  <2>3. Seen(p)
    BY <1>0, <1>2 DEF Safe, Seen
  <2>4. Machine(p)
    BY <1>0, <1>1, <1>2 DEF Safe, Machine, BeginPending
  <2>5. Queue(p)
    BY <1>0, <1>1, <1>2 DEF Safe, Queue
  <2>6. Talk(p)
    BY <1>0, <1>1, <1>2 DEF Safe, Talk
  <2>7. Program(p)
    <3>1. v.ran # 0 /\ \A k \in DOMAIN v.line : v.line[k].type # "RUN"
      BY DEF TakesUp
    <3>2. ~(v.state = "parked" \/ v.load \in {"resume", "pause", "greet"})
      BY <1>0, <3>1 DEF Safe, Machine
    <3> QED BY <1>1, <1>2, <1>4, <3>1, <3>2 DEF Program
  <2>8. Kept(p)
    BY <1>0, <1>2 DEF Kept
  <2>9. Moving(p)
    BY <1>1, <1>2 DEF Whole, Moving, BeginPending
  <2> QED BY <1>1, <1>2, <2>1, <2>2, <2>3, <2>4, <2>5, <2>6, <2>7, <2>8, <2>9, Silent DEF Whole, Safe
<1> QED BY <1>3, <1>4

LEMMA OnErrorKeeps ==
  ASSUME NEW v \in VmType, Whole(v), NEW r \in Runs, TakesUp(v, r), NEW x, x = OnError(v, r)
  PROVE  Whole(x) /\ Goes(v, x)
<1>1. CASE Current(v, r)
  <2>1. v.run = r /\ v.state = "starting"
    BY <1>1 DEF Current, TakesUp
  <2>2. x = EndAndPark(v, v.run, "broken")
    BY <1>1, <2>1 DEF OnError
  <2>3. Whole(x) /\ x.state = "parking" /\ Ends(v, x)
    BY <2>1, <2>2, EndAndParkKeeps DEF Reasons, Whole
  <2> QED BY <2>1, <2>3, EndsGo
<1>2. CASE ~Current(v, r)
  <2>1. x = v
    BY <1>2 DEF OnError
  <2>2. SameRuns(v, v)
    BY DEF SameRuns
  <2> QED BY <2>1, <2>2, Silent
<1> QED BY <1>1, <1>2

LEMMA AnswerNextKeeps ==
  ASSUME InTime, Whole(vm), AnswerNext, NEW x, x = vm'
  PROVE  Whole(x) /\ Goes(vm, x)
<1> DEFINE m == Head(vm.line)
           v == [vm EXCEPT !.line = Tail(@)]
<1>0. vm \in VmType /\ Safe(vm) /\ vm.cpu /\ vm.line # << >> /\ x \in VmType
  BY StepType DEF GuestStep, AnswerNext, Whole, Safe
<1>1. \/ m.type = "HELLO" /\ x = OnReady(v, m.id, TRUE)
      \/ m.type = "HELLO" /\ x = OnReady(v, m.id, FALSE)
      \/ m.type = "PING" /\ x = OnPong(v, m.id)
      \/ m.type = "RUN" /\ v.prog = None /\ x = OnStarted([v EXCEPT !.prog = m.id], m.id)
      \/ m.type = "RUN" /\ v.prog = None /\ x = OnError(v, m.id)
      \/ m.type = "STOP" /\ v.prog = m.id /\ x = OnExit([v EXCEPT !.prog = None], m.id)
      \/ m.type = "STOP" /\ v.prog # m.id /\ x = v
  BY DEF AnswerNext
<1>2. ~Late(vm)
  BY DEF AnswerNext, InTime, Retrying, Late
<1>3. /\ v \in VmType /\ Whole(v) /\ v.line = Tail(vm.line)
      /\ v.prog = vm.prog /\ v.hellos = vm.hellos /\ v.ran = vm.ran
      /\ SamePhase(v, vm) /\ SameRuns(v, vm) /\ SameJobs(v, vm) /\ SameCpu(v, vm) /\ SameLoad(v, vm) /\ SameTimers(v, vm)
      /\ m.type \in Frames /\ m.id \in Nat
      /\ 1 \in DOMAIN vm.line /\ m = vm.line[1] /\ Len(v.line) + 1 = Len(vm.line) /\ Len(v.line) \in Nat
      /\ \A k \in DOMAIN v.line : k \in Nat \ {0} /\ k + 1 \in DOMAIN vm.line /\ v.line[k] = vm.line[k + 1]
  BY <1>0, Answered
<1> HIDE DEF v, m
<1>4. /\ v.state = vm.state /\ v.phase = vm.phase /\ v.run = vm.run /\ v.ended = vm.ended
      /\ v.load = vm.load /\ v.cpu = vm.cpu /\ v.park = vm.park
  BY <1>3 DEF SamePhase, SameRuns, SameLoad, SameCpu, SameTimers
<1>5. ~Late(v)
  BY <1>2, <1>4 DEF Late
<1>6. m.type \in {"HELLO", "PING"} => m.id \in Ids
  BY <1>0, <1>3 DEF Safe, Talk
<1>7. v.load = "greet" => v.line = << >>
  <2> HAVE v.load = "greet"
  <2>1. Len(vm.line) <= 1
    BY <1>0, <1>4 DEF Safe, Talk
  <2>2. Len(v.line) = 0
    <3>1. \A a \in Nat : a + 1 <= 1 => a = 0
      OBVIOUS
    <3>2. Len(v.line) + 1 <= 1 /\ Len(v.line) \in Nat
      BY Zenon, <1>3, <2>1
    <3> QED BY <3>1, <3>2
  <2>3. v.line \in Seq([type : Frames, id : Nat])
    BY <1>3, Fields
  <2> QED BY <2>2, <2>3
<1>8. v.load # "pause"
  BY <1>0, <1>4 DEF Safe, Talk
<1>9. ASSUME m.type = "RUN", v.prog = None PROVE m.id \in Runs /\ TakesUp(v, m.id)
  <2>1. m.id \in Runs /\ v.ran # 0
    BY <1>0, <1>3, <1>9 DEF Safe, Program
  <2>2. \A k \in DOMAIN v.line : v.line[k].type # "RUN"
    <3> TAKE k \in DOMAIN v.line
    <3>1. k + 1 # 1
      BY <1>3
    <3> QED BY <1>0, <1>3, <1>9, <3>1 DEF Safe, Program
  <2>3. ASSUME v.ended[m.id] = "no" PROVE v.run = m.id /\ v.state = "starting" /\ v.phase[m.id] = "run"
    <3>1. vm.run = m.id /\ (vm.state = "parking" \/ (vm.state = "starting" /\ vm.phase[vm.run] = "run"))
      BY <1>0, <1>3, <1>4, <1>9, <2>3 DEF Safe, Program
    <3>2. v.run # None
      BY <1>4, <2>1, <3>1 DEF Runs, None
    <3>3. v.state \in {"starting", "running"}
      BY <1>3, <1>4, <1>5, <2>3, <3>1, <3>2, NotLate
    <3> QED BY <1>4, <3>1, <3>3
  <2> QED BY <1>9, <2>1, <2>2, <2>3 DEF TakesUp
<1>10. Whole(x) /\ Goes(v, x)
  <2>1. CASE m.type = "HELLO" /\ x = OnReady(v, m.id, TRUE)
    BY <1>0, <1>3, <1>5, <1>6, <1>7, <2>1, OnReadyKeeps
  <2>2. CASE m.type = "HELLO" /\ x = OnReady(v, m.id, FALSE)
    BY <1>0, <1>3, <1>5, <1>6, <1>7, <2>2, OnReadyKeeps
  <2>3. CASE m.type = "PING" /\ x = OnPong(v, m.id)
    BY <1>0, <1>3, <1>4, <1>6, <1>8, <2>3, OnPongKeeps
  <2>4. CASE m.type = "RUN" /\ v.prog = None /\ x = OnStarted([v EXCEPT !.prog = m.id], m.id)
    BY <1>0, <1>3, <1>9, <2>4, OnStartedKeeps
  <2>5. CASE m.type = "RUN" /\ v.prog = None /\ x = OnError(v, m.id)
    BY <1>3, <1>9, <2>5, OnErrorKeeps
  <2>6. CASE m.type = "STOP" /\ v.prog = m.id /\ x = OnExit([v EXCEPT !.prog = None], m.id)
    BY <1>3, <2>6, ExitKeeps
  <2>7. CASE m.type = "STOP" /\ v.prog # m.id /\ x = v
    <3>1. SameRuns(v, v)
      BY DEF SameRuns
    <3> QED BY <1>3, <2>7, <3>1, Silent
  <2> QED BY <1>1, <2>1, <2>2, <2>3, <2>4, <2>5, <2>6, <2>7
<1> QED BY <1>3, <1>4, <1>10, GoesFrom

-----------------------------------------------------------------------------
(* Every step of the system.                                               *)
LEMMA MachineKeeps ==
  ASSUME Whole(vm), MachineStep, NEW x, x = vm'
  PROVE  Whole(x) /\ Goes(vm, x)
BY LoadRestoreJobKeeps, LoadResumeJobKeeps, LoadPauseJobKeeps, BeginJobKeeps, ParkRestoreJobKeeps,
   PauseJobKeeps, ShowJobKeeps, HideJobKeeps
DEF MachineStep

LEMMA StepKeeps ==
  ASSUME InTime, Whole(vm), Next, NEW x, x = vm'
  PROVE  Whole(x) /\ Goes(vm, x)
<1>1. CASE PageStep
  BY <1>1, LoadRequestedKeeps, RunRequestedKeeps, StopRequestedKeeps, SetVisibleKeeps, DestroyKeeps DEF PageStep
<1>2. CASE TimerStep
  BY <1>2, LoadDeadlineKeeps, AnswerDeadlineKeeps, PingDueKeeps, StopGraceOverKeeps, FetchGraceOverKeeps
  DEF TimerStep
<1>3. CASE GuestStep
  BY <1>3, AnswerNextKeeps, ProgramExitsKeeps, AgentRestartsKeeps, InvalidMessageKeeps, WrongVersionKeeps,
     FetchFailedKeeps
  DEF GuestStep
<1>4. CASE HostStep
  BY <1>4, MachineKeeps, PaintedKeeps, RebuiltKeeps, NotRebuiltKeeps, FilesWrittenKeeps, FilesNotWrittenKeeps,
     DownloadedKeeps, NotDownloadedKeeps, BuiltKeeps, NotBuiltKeeps
  DEF HostStep
<1> QED BY <1>1, <1>2, <1>3, <1>4 DEF Next

LEMMA InitHolds == Init => Inv
<1> SUFFICES ASSUME Init PROVE Whole(vm)
  BY DEF Inv
<1>1. vm \in VmType
  BY InitType DEF TypeOK
<1>2. /\ vm.state = "unloaded" /\ vm.loading = "none" /\ vm.load = "no" /\ vm.built = FALSE
      /\ vm.accepted = 0 /\ vm.run = None /\ vm.queued = None
      /\ vm.ended = [r \in Runs |-> "no"] /\ vm.starts = [r \in Runs |-> 0]
      /\ vm.hellos = NoHellos /\ vm.pingId = 0 /\ vm.stopTimer = FALSE /\ vm.orphans = 0 /\ vm.park = "no"
      /\ vm.visible = TRUE /\ vm.writing = {} /\ vm.deadline = "off" /\ vm.jobs = << >>
      /\ vm.want = FALSE /\ vm.shown = TRUE /\ vm.cpu = FALSE /\ vm.line = << >> /\ vm.prog = None
      /\ vm.ran = 0 /\ vm.told = "nothing"
  BY DEF Init
<1>3. DOMAIN vm.jobs = {} /\ DOMAIN vm.line = {}
  BY <1>2
<1>4. Timers(vm) /\ Load(vm) /\ Moving(vm)
  BY <1>2 DEF Timers, Active, Load, Greeting, Moving
<1>5. Seen(vm) /\ Machine(vm) /\ Queue(vm)
  <2>1. Seen(vm)
    BY <1>2 DEF Seen
  <2>2. Machine(vm)
    BY <1>2 DEF Machine, Greeting
  <2>3. Queue(vm)
    BY <1>3 DEF Queue
  <2> QED BY <2>1, <2>2, <2>3
<1>6. \A i \in Ids : vm.hellos[i] = "none"
  BY <1>2 DEF NoHellos
<1>7. Talk(vm) /\ Program(vm)
  BY <1>2, <1>3, <1>6 DEF Talk, Program
<1>8. Kept(vm)
  <2>1. \A r \in Runs : vm.ended[r] = "no" /\ vm.starts[r] = 0
    BY <1>2
  <2>2. 1 .. vm.accepted = {}
    BY <1>2
  <2> QED BY <1>2, <2>1, <2>2 DEF Kept, None
<1> QED BY <1>1, <1>4, <1>5, <1>7, <1>8 DEF Whole, Safe

LEMMA NextHolds == ASSUME InTime PROVE Inv /\ [Next]_vars => Inv' /\ (vm' = vm \/ Goes(vm, vm'))
<1> SUFFICES ASSUME Inv, [Next]_vars PROVE Inv' /\ (vm' = vm \/ Goes(vm, vm'))
  OBVIOUS
<1>1. CASE Next
  <2>1. Whole(vm)
    BY DEF Inv
  <2>2. Whole(vm') /\ Goes(vm, vm')
    BY <1>1, <2>1, StepKeeps
  <2> QED BY <2>2 DEF Inv
<1>2. CASE UNCHANGED vars
  <2>1. vm' = vm
    BY <1>2 DEF vars
  <2> QED BY <2>1 DEF Inv
<1> QED BY <1>1, <1>2

-----------------------------------------------------------------------------
(* What follows for the page.  Nothing comes late, in all of it: how each  *)
(* late answer breaks it is what the run VmRunLostRun shows.               *)

(* The Vm is whole after every task of the event loop (vm_run.js).         *)
THEOREM InvHolds == ASSUME InTime PROVE Spec => []Inv
<1>1. Inv /\ [Next]_vars => Inv'
  BY NextHolds
<1> QED BY InitHolds, <1>1, PTL DEF Spec

LEMMA KeptRuns == Inv => EveryRunIsKept
BY DEF Inv, Whole, Kept, EveryRunIsKept, Open

(* EveryRunIsKept: a run the page asked for and that has not ended is in   *)
(* hand or queued, as the class comment of vm_run.js promises.             *)
THEOREM RunsAreKept == ASSUME InTime PROVE Spec => []EveryRunIsKept
BY InvHolds, KeptRuns, PTL

LEMMA RightStarts == Inv => StartsAndStops
<1> SUFFICES ASSUME Inv PROVE StartsAndStops
  OBVIOUS
<1>1. Safe(vm) /\ Kept(vm) /\ Moving(vm) /\ vm \in VmType
  BY DEF Inv, Whole, Safe
<1>2. SupersedesNeverWaits
  BY <1>1 DEF Kept, SupersedesNeverWaits, Open
<1>3. StartingIsLive
  <2> SUFFICES ASSUME vm.state \in {"starting", "running"} PROVE StartingIsLive
    BY DEF StartingIsLive
  <2>1. vm.run \in Runs /\ vm.run <= vm.accepted /\ vm.ended[vm.run] = "no" /\ vm.accepted \in 0 .. MaxRuns
    BY <1>1, InHand, Fields DEF Kept
  <2>2. vm.run \in Open
    <3>1. vm.run \in 1 .. vm.accepted
      BY <2>1 DEF Runs
    <3> QED BY <2>1, <3>1 DEF Open
  <2>3. \/ vm.deadline # "off" \/ vm.run \in vm.writing
        \/ \E k \in DOMAIN vm.jobs : vm.jobs[k] = Job("begin", vm.run)
    BY <1>1 DEF Moving, BeginPending
  <2> QED BY <2>2, <2>3 DEF StartingIsLive
<1>4. StopTimerIsTheRuns
  BY <1>1 DEF Safe, Timers, StopTimerIsTheRuns
<1>5. Readiness
  BY <1>1 DEF Safe, Load, Readiness
<1> QED BY <1>2, <1>3, <1>4, <1>5 DEF StartsAndStops

(* StartsAndStops: one run at a time is on its way, with something that    *)
(* moves it on and no timer of an older one, and the page is told `ready`  *)
(* when that is so (run(), stop(), #armStart(), #park() of vm_run.js).     *)
THEOREM RunsStartAndStop == ASSUME InTime PROVE Spec => []StartsAndStops
BY InvHolds, RightStarts, PTL

LEMMA RightMachine == Inv => MachineIsRight
<1> SUFFICES ASSUME Inv PROVE MachineIsRight
  OBVIOUS
<1>1. Safe(vm) /\ vm \in VmType
  BY DEF Inv, Whole, Safe
<1>2. vm.jobs = << >> => DOMAIN vm.jobs = {}
  OBVIOUS
<1>3. FailedStopsCpu
  BY <1>1, <1>2 DEF Safe, Seen, Machine, FailedStopsCpu
<1>4. CpuFollowsThePage
  <2> SUFFICES ASSUME vm.jobs = << >>, vm.state \in {"starting", "running", "stopping"} PROVE vm.cpu = vm.visible
    BY DEF CpuFollowsThePage
  <2>1. vm.built /\ vm.want
    BY <1>1, <1>2 DEF Safe, Machine, BeginPending
  <2>2. vm.shown = vm.visible
    BY <1>1, <1>2, <2>1 DEF Safe, Seen, InSight
  <2>3. vm.cpu = (vm.want /\ vm.shown) /\ vm.cpu \in BOOLEAN /\ vm.shown \in BOOLEAN
    BY <1>1, Fields DEF Safe, Seen
  <2> QED BY <2>1, <2>2, <2>3
<1>5. ParkedIsQuiet
  <2> SUFFICES ASSUME vm.state = "parked" PROVE ParkedIsQuiet
    BY DEF ParkedIsQuiet
  <2>1. vm.run = None /\ vm.park = "no"
    BY <1>1 DEF Safe, Timers, Active
  <2>2. ~vm.want /\ ~vm.cpu
    BY <1>1 DEF Safe, Machine, Seen
  <2>3. vm.hellos = NoHellos /\ vm.line = << >> /\ vm.prog = None
    BY <1>1 DEF Safe, Talk, Program
  <2> QED BY <2>1, <2>2, <2>3 DEF ParkedIsQuiet
<1>6. OneProgramPerRestore
  BY <1>1 DEF Safe, Machine, OneProgramPerRestore
<1> QED BY <1>3, <1>4, <1>5, <1>6 DEF MachineIsRight

(* MachineIsRight: the CPU runs when the state and the page ask for it, a  *)
(* parked machine is as it was restored, and no restored one is given two  *)
(* programs (vm_machine.js as vm_run.js uses it).                          *)
THEOREM MachineStaysRight == ASSUME InTime PROVE Spec => []MachineIsRight
BY InvHolds, RightMachine, PTL

-----------------------------------------------------------------------------
(* A method that does not fail the Vm, nor counts a strike against a run   *)
(* that has started.                                                       *)
Calm(v, x) ==
  /\ x.state = "failed" => v.state = "failed"
  /\ x.state = "running" => x.strikes = 0 \/ (v.state = "running" /\ x.strikes = v.strikes)

(* A run is under way, and no park.                                        *)
InUse == {"starting", "running", "stopping"}

(* Two calm methods after each other are calm.                             *)
LEMMA CalmAgain ==
  ASSUME NEW v, NEW w, NEW x, Calm(v, w), Calm(w, x)
  PROVE  Calm(v, x)
BY DEF Calm

(* Calm is whatever assigns neither the state nor the strikes.             *)
LEMMA CalmFields ==
  ASSUME NEW v \in VmType
  PROVE
    /\ \A y : Calm(v, [v EXCEPT !.accepted = y])
    /\ \A y : Calm(v, [v EXCEPT !.queued = y])
    /\ \A y : Calm(v, [v EXCEPT !.helloId = y])
    /\ \A y : Calm(v, [v EXCEPT !.phase = y])
    /\ \A y : Calm(v, [v EXCEPT !.pingId = y])
    /\ \A y : Calm(v, [v EXCEPT !.stopTimer = y])
    /\ \A y : Calm(v, [v EXCEPT !.visible = y])
    /\ \A y : Calm(v, [v EXCEPT !.waiting = y])
    /\ \A y : Calm(v, [v EXCEPT !.writing = y])
    /\ \A y : Calm(v, [v EXCEPT !.grace = y])
    /\ \A y : Calm(v, [v EXCEPT !.deadline = y])
    /\ \A y : Calm(v, [v EXCEPT !.jobs = y])
    /\ \A y : Calm(v, [v EXCEPT !.want = y])
    /\ \A y : Calm(v, [v EXCEPT !.shown = y])
    /\ \A y : Calm(v, [v EXCEPT !.line = y])
    /\ \A y : Calm(v, [v EXCEPT !.prog = y])
    /\ \A y : Calm(v, [v EXCEPT !.ran = y])
<1>1. \A y : Calm(v, [v EXCEPT !.accepted = y])
  BY DEF Calm, VmType
<1>2. \A y : Calm(v, [v EXCEPT !.queued = y])
  BY DEF Calm, VmType
<1>3. \A y : Calm(v, [v EXCEPT !.helloId = y])
  BY DEF Calm, VmType
<1>4. \A y : Calm(v, [v EXCEPT !.phase = y])
  BY DEF Calm, VmType
<1>5. \A y : Calm(v, [v EXCEPT !.pingId = y])
  BY DEF Calm, VmType
<1>6. \A y : Calm(v, [v EXCEPT !.stopTimer = y])
  BY DEF Calm, VmType
<1>7. \A y : Calm(v, [v EXCEPT !.visible = y])
  BY DEF Calm, VmType
<1>8. \A y : Calm(v, [v EXCEPT !.waiting = y])
  BY DEF Calm, VmType
<1>9. \A y : Calm(v, [v EXCEPT !.writing = y])
  BY DEF Calm, VmType
<1>10. \A y : Calm(v, [v EXCEPT !.grace = y])
  BY DEF Calm, VmType
<1>11. \A y : Calm(v, [v EXCEPT !.deadline = y])
  BY DEF Calm, VmType
<1>12. \A y : Calm(v, [v EXCEPT !.jobs = y])
  BY DEF Calm, VmType
<1>13. \A y : Calm(v, [v EXCEPT !.want = y])
  BY DEF Calm, VmType
<1>14. \A y : Calm(v, [v EXCEPT !.shown = y])
  BY DEF Calm, VmType
<1>15. \A y : Calm(v, [v EXCEPT !.line = y])
  BY DEF Calm, VmType
<1>16. \A y : Calm(v, [v EXCEPT !.prog = y])
  BY DEF Calm, VmType
<1>17. \A y : Calm(v, [v EXCEPT !.ran = y])
  BY DEF Calm, VmType
<1> QED BY <1>1, <1>2, <1>3, <1>4, <1>5, <1>6, <1>7, <1>8, <1>9, <1>10, <1>11, <1>12, <1>13, <1>14, <1>15, <1>16, <1>17

(* Operations given to the machine, frames sent and ends are calm.         *)
LEMMA CalmTakes ==
  ASSUME NEW v \in VmType
  PROVE  /\ Calm(v, v) /\ Calm(v, ApplyCpu(v))
         /\ Calm(v, SetStopTimer(v))
         /\ \A deadline : Calm(v, Arm(v, deadline))
         /\ \A type, id : Calm(v, Send(v, type, id))
         /\ \A op, r : Calm(v, Enqueue(v, op, r))
         /\ \A r, reason : Calm(v, End(v, r, reason))
<1>1. Calm(v, v) /\ Calm(v, ApplyCpu(v))
  BY DEF Calm, ApplyCpu, VmType
<1>2. Calm(v, SetStopTimer(v))
  BY DEF Calm, SetStopTimer, VmType
<1>3. \A deadline : Calm(v, Arm(v, deadline))
  BY DEF Calm, Arm, VmType
<1>4. \A type, id : Calm(v, Send(v, type, id))
  BY DEF Calm, Send, VmType
<1>5. \A op, r : Calm(v, Enqueue(v, op, r))
  BY DEF Calm, Enqueue, VmType
<1>6. \A r, reason : Calm(v, End(v, r, reason))
  BY DEF Calm, End, VmType
<1> QED BY <1>1, <1>2, <1>3, <1>4, <1>5, <1>6

(* A conversation begun keeps the state and the strikes.                   *)
LEMMA CalmHello ==
  ASSUME NEW v \in VmType, NEW purpose \in Purposes
  PROVE  Calm(v, Hello(v, purpose))
<1>1. SamePhase(Hello(v, purpose), v)
  BY HelloIs
<1>2. Hello(v, purpose).strikes = v.strikes
  BY DEF Hello, Send, VmType
<1> QED BY <1>1, <1>2 DEF Calm, SamePhase

(* A state that is neither "failed" nor "running" is calm.                 *)
LEMMA CalmState ==
  ASSUME NEW v \in VmType, NEW state, state \notin {"failed", "running"}
  PROVE  Calm(v, SetState(v, state))
BY DEF Calm, SetState, VmType

(* A run that begins is `starting`.                                        *)
LEMMA CalmBegin ==
  ASSUME NEW v \in VmType, NEW r
  PROVE  Calm(v, Begin(v, r))
BY DEF Begin, Enqueue, Calm, SetState, VmType

(* So is one that a parked VM takes from the queue.                        *)
LEMMA CalmStart ==
  ASSUME NEW v \in VmType
  PROVE  Calm(v, StartQueued(v))
<1> DEFINE w == [v EXCEPT !.queued = None]
<1>1. w \in VmType /\ Calm(v, w)
  BY Updates, AssumeTypes, CalmFields
<1> HIDE DEF w
<1>2. Calm(v, Begin(w, v.queued))
  BY <1>1, CalmBegin, CalmAgain
<1> QED BY <1>2, CalmTakes DEF StartQueued, w

(* A park makes it `parking`.                                              *)
LEMMA CalmPark ==
  ASSUME NEW v \in VmType
  PROVE  Calm(v, Park(v)) /\ \A r, reason : r \in 0 .. MaxRuns /\ reason \in Reasons => Calm(v, EndAndPark(v, r, reason))
<1>1. \A w \in VmType : Calm(w, Park(w))
  BY DEF Calm, Park, SetState, VmType
<1>2. ASSUME NEW r \in 0 .. MaxRuns, NEW reason \in Reasons
      PROVE  Calm(v, EndAndPark(v, r, reason))
  <2>1. End(v, r, reason) \in VmType /\ Calm(v, End(v, r, reason))
    BY EndType, CalmTakes
  <2> QED BY <1>1, <2>1, CalmAgain DEF EndAndPark
<1> QED BY <1>1, <1>2

(* A stop makes it `stopping` or `parking`.                                *)
LEMMA CalmStop ==
  ASSUME NEW v \in VmType
  PROVE  Calm(v, StopRun(v))
<1> DEFINE e == End(v, v.run, "stopped")
           s == Send(e, "STOP", v.run)
           t == SetState(s, "stopping")
           u == [t EXCEPT !.deadline = "off"]
<1>1. e \in VmType /\ Calm(v, e)
  BY EndType, CalmTakes, Fields DEF Reasons
<1>2. Calm(v, Park(e))
  BY <1>1, CalmPark, CalmAgain
<1>3. s \in VmType /\ Calm(v, s)
  <2>1. v.run \in Nat
    BY Fields, AssumeTypes
  <2> HIDE DEF e
  <2> QED BY <1>1, <2>1, SendType, CalmTakes, CalmAgain DEF Frames
<1>4. t \in VmType /\ Calm(v, t)
  <2> HIDE DEF s
  <2> QED BY <1>3, SetStateType, CalmState, CalmAgain DEF States
<1>5. u \in VmType /\ Calm(v, u)
  <2> HIDE DEF t
  <2>1. u = Arm(t, "off")
    BY DEF Arm
  <2>2. u \in VmType
    BY <1>4, Updates
  <2> QED BY <1>4, <2>1, <2>2, CalmTakes, CalmAgain
<1>6. Calm(v, SetStopTimer(u))
  <2> HIDE DEF u
  <2> QED BY <1>5, CalmTakes, CalmAgain
<1>7. Calm(v, v)
  BY CalmTakes
<1> HIDE DEF e
<1> QED BY <1>2, <1>6, <1>7 DEF StopRun, e


LEMMA InUseIs ==
  ASSUME Whole(vm), vm.state \in InUse
  PROVE  /\ vm \in VmType /\ vm.built /\ vm.load = "no" /\ vm.loading # "none" /\ vm.park = "no" /\ vm.orphans = 0
         /\ vm.deadline # "load" /\ vm.run # None /\ vm.run \in 0 .. MaxRuns
         /\ \A i \in Ids : vm.hellos[i] # "load"
         /\ vm.jobs # << >> => Head(vm.jobs).op \notin Settling
<1>1. vm \in VmType /\ Safe(vm)
  BY DEF Whole, Safe
<1>2. vm.load = "no" /\ vm.loading # "none" /\ vm.park = "no" /\ vm.orphans = 0 /\ vm.run # None /\ vm.built
  BY <1>1 DEF Safe, Load, Timers, Machine, Active, InUse
<1>3. vm.deadline # "load" /\ \A i \in Ids : vm.hellos[i] # "load"
  BY <1>1, <1>2 DEF Safe, Timers, Talk
<1>4. vm.jobs # << >> => Head(vm.jobs).op \notin Settling
  <2> SUFFICES ASSUME vm.jobs # << >> PROVE Head(vm.jobs).op \notin Settling
    OBVIOUS
  <2>1. vm.jobs \in Seq(JobType)
    BY <1>1, JobsAre
  <2>2. Head(vm.jobs) = vm.jobs[1] /\ 1 \in DOMAIN vm.jobs
    <3> HIDE DEF JobType
    <3> QED BY <2>1, TailIs
  <2> QED BY <1>1, <1>2, <2>2 DEF Safe, Queue, Settling
<1> QED BY <1>1, <1>2, <1>3, <1>4, Fields

(* The page's calls.                                                       *)
LEMMA CalmCalls ==
  ASSUME Whole(vm), vm.state \in InUse, PageStep
  PROVE  Calm(vm, vm')
<1>0. /\ vm \in VmType /\ vm.run # None /\ vm.loading # "none"
      /\ vm.queued \in 0 .. MaxRuns /\ "stopped" \in Reasons
  BY InUseIs, Fields DEF Reasons
<1>1. ~LoadRequested
  BY <1>0 DEF LoadRequested
<1>2. CASE RunRequested
  <2> DEFINE r == vm.accepted + 1
             v == [vm EXCEPT !.accepted = r]
             e == End(v, v.queued, "stopped")
             q == [e EXCEPT !.queued = r]
  <2>1. r \in 0 .. MaxRuns
    BY <1>0, <1>2, AssumeTypes, Fields DEF RunRequested
  <2> HIDE DEF r
  <2>2. v \in VmType /\ Calm(vm, v)
    BY <1>0, <2>1, Updates, CalmFields
  <2>6. v.state = vm.state /\ v.run = vm.run /\ v.queued = vm.queued
    BY <1>0 DEF VmType
  <2> HIDE DEF v
  <2>3. e \in VmType /\ Calm(vm, e)
    BY <1>0, <2>2, <2>6, EndType, CalmTakes, CalmAgain
  <2>4. Calm(e, q) /\ q \in VmType
    <3> HIDE DEF e
    <3> QED BY <2>1, <2>3, Updates, CalmFields
  <2> HIDE DEF e
  <2>5. vm' = StopRun(q)
    BY <1>0, <1>2, <2>6 DEF RunRequested, InUse, q, e, v, r
  <2> HIDE DEF q
  <2> QED BY <2>3, <2>4, <2>5, CalmStop, CalmAgain
<1>3. CASE StopRequested
  <2> DEFINE e == End(vm, vm.queued, "stopped")
             q == [e EXCEPT !.queued = None]
             v == StopRun(q)
  <2>1. e \in VmType /\ Calm(vm, e)
    BY <1>0, EndType, CalmTakes
  <2>2. q \in VmType /\ Calm(e, q)
    <3> HIDE DEF e
    <3> QED BY <2>1, AssumeTypes, Updates, CalmFields
  <2>3. v \in VmType /\ Calm(q, v)
    <3> HIDE DEF q
    <3> QED BY <2>2, StopRunType, CalmStop
  <2>4. vm' = [v EXCEPT !.waiting = @ \/ Busy(v)]
    BY <1>3 DEF StopRequested
  <2>5. Calm(v, vm')
    <3> HIDE DEF v
    <3> QED BY <2>3, <2>4 DEF Calm, VmType
  <2> HIDE DEF e, q, v
  <2> QED BY <2>1, <2>2, <2>3, <2>5, CalmAgain
<1>4. CASE SetVisible
  <2> DEFINE v == [vm EXCEPT !.visible = ~@]
  <2>1. v \in VmType /\ Calm(vm, v)
    BY <1>0, Updates, CalmFields
  <2>2. vm' = IF v.built THEN Enqueue(v, IF v.visible THEN "show" ELSE "hide", None) ELSE v
    BY <1>4 DEF SetVisible
  <2> HIDE DEF v
  <2> QED BY <2>1, <2>2, CalmTakes, CalmAgain
<1>5. CASE Destroy
  <2> DEFINE e == End(End(vm, vm.queued, "stopped"), vm.run, "stopped")
             n == NoMachine(AbandonHellos(e))
  <2>1. n \in VmType
    BY <1>0, Fields, EndType, AbandonHellosType, NoMachineType
  <2>2. vm'.state = "destroyed"
    <3>1. \E load, jobs :
            vm' = [n EXCEPT !.state = "destroyed", !.stopTimer = FALSE, !.park = "no",
                            !.run = None, !.queued = None, !.waiting = FALSE, !.writing = {},
                            !.load = load, !.jobs = jobs]
      BY <1>5 DEF Destroy
    <3> HIDE DEF n
    <3> QED BY <2>1, <3>1 DEF VmType
  <2> QED BY <2>2 DEF Calm
<1> QED BY <1>1, <1>2, <1>3, <1>4, <1>5 DEF PageStep

(* The machine, and what else is awaited.                                  *)
LEMMA CalmHost ==
  ASSUME Whole(vm), vm.state \in InUse, HostStep
  PROVE  Calm(vm, vm')
<1>0. vm \in VmType /\ vm.load = "no" /\ vm.park = "no" /\ (vm.jobs # << >> => Head(vm.jobs).op \notin Settling)
  BY InUseIs
<1>1. ~LoadRestoreJob /\ ~LoadResumeJob /\ ~LoadPauseJob /\ ~ParkRestoreJob
  BY <1>0 DEF LoadRestoreJob, LoadResumeJob, LoadPauseJob, ParkRestoreJob, NextJob, Settling
<1>2. ~Painted /\ ~Rebuilt /\ ~NotRebuilt /\ ~Downloaded /\ ~NotDownloaded /\ ~Built /\ ~NotBuilt
  BY <1>0 DEF Painted, Rebuilt, NotRebuilt, Downloaded, NotDownloaded, Built, NotBuilt
<1>3. ASSUME vm.jobs # << >> PROVE JobDone \in VmType /\ Calm(vm, JobDone)
  <2>1. JobDone \in VmType
    BY <1>0, <1>3, JobDoneType
  <2> QED BY <1>0, <2>1 DEF Calm, JobDone, VmType
<1> DEFINE d == JobDone
           b == ApplyCpu([d EXCEPT !.want = TRUE])
           p == ApplyCpu([d EXCEPT !.want = FALSE])
           s == ApplyCpu([d EXCEPT !.shown = TRUE])
           h == ApplyCpu([d EXCEPT !.shown = FALSE])
<1>4. ASSUME vm.jobs # << >>
      PROVE  /\ b \in VmType /\ Calm(vm, b) /\ Calm(vm, p)
             /\ s \in VmType /\ Calm(vm, s) /\ Calm(vm, h)
  <2>1. d \in VmType /\ Calm(vm, d)
    BY <1>3, <1>4
  <2> HIDE DEF d
  <2>2. /\ [d EXCEPT !.want = TRUE] \in VmType /\ Calm(d, [d EXCEPT !.want = TRUE])
        /\ [d EXCEPT !.want = FALSE] \in VmType /\ Calm(d, [d EXCEPT !.want = FALSE])
        /\ [d EXCEPT !.shown = TRUE] \in VmType /\ Calm(d, [d EXCEPT !.shown = TRUE])
        /\ [d EXCEPT !.shown = FALSE] \in VmType /\ Calm(d, [d EXCEPT !.shown = FALSE])
    BY <2>1, Updates, CalmFields
  <2>3. b \in VmType /\ s \in VmType
    BY <2>2, ApplyCpuType
  <2>4. Calm(d, b) /\ Calm(d, p) /\ Calm(d, s) /\ Calm(d, h)
    BY <2>2, CalmTakes, CalmAgain
  <2> HIDE DEF b, p, s, h
  <2> QED BY <2>1, <2>3, <2>4, CalmAgain
<1>5. CASE BeginJob
  <2> DEFINE g == Hello(b, "run")
             n == NextId(b)
             k == [g EXCEPT !.helloId = n]
  <2>1. vm.jobs # << >> /\ (vm' = b \/ vm' = Arm(k, "HELLO"))
    BY <1>5 DEF BeginJob, NextJob
  <2>2. b \in VmType /\ Calm(vm, b)
    BY <1>4, <2>1
  <2> HIDE DEF b
  <2>3. g \in VmType /\ Calm(b, g) /\ n \in Nat
    BY <2>2, HelloType, CalmHello, NextIdType DEF Purposes
  <2> HIDE DEF g, n
  <2>4. k \in VmType /\ Calm(g, k)
    BY <2>3, Updates, CalmFields
  <2> HIDE DEF k
  <2>5. Calm(k, Arm(k, "HELLO"))
    BY <2>4, CalmTakes
  <2> QED BY <2>1, <2>2, <2>3, <2>4, <2>5, CalmAgain
<1>6. CASE PauseJob
  <2>1. vm.jobs # << >> /\ vm' = p
    BY <1>6 DEF PauseJob, NextJob
  <2> QED BY <1>4, <2>1
<1>7. CASE ShowJob
  <2>1. vm.jobs # << >> /\ (vm' = s \/ vm' = Hello(s, "clock"))
    BY <1>7 DEF ShowJob, NextJob
  <2>2. s \in VmType /\ Calm(vm, s)
    BY <1>4, <2>1
  <2> HIDE DEF s
  <2>3. Calm(s, Hello(s, "clock"))
    BY <2>2, CalmHello DEF Purposes
  <2> QED BY <2>1, <2>2, <2>3, CalmAgain
<1>8. CASE HideJob
  <2>1. vm.jobs # << >> /\ vm' = h
    BY <1>8 DEF HideJob, NextJob
  <2> QED BY <1>4, <2>1
<1>9. ASSUME NEW r \in vm.writing
      PROVE  r \in Runs /\ [vm EXCEPT !.writing = @ \ {r}] \in VmType /\ Calm(vm, [vm EXCEPT !.writing = @ \ {r}])
  <2>1. r \in Runs /\ vm.writing \ {r} \in SUBSET Runs
    BY <1>0, Fields
  <2> QED BY <1>0, <2>1, Updates, CalmFields
<1>10. CASE FilesWritten
  <2>1. PICK r \in vm.writing :
          LET v == [vm EXCEPT !.writing = @ \ {r}] IN
          vm' = IF v.run # r \/ v.ended[r] # "no"
                THEN v
                ELSE Arm([Send(v, "RUN", r) EXCEPT !.phase[r] = "run", !.ran = Count(@)], "STARTED")
    BY <1>10 DEF FilesWritten
  <2> DEFINE v == [vm EXCEPT !.writing = @ \ {r}]
             t == Send(v, "RUN", r)
             u == [t EXCEPT !.phase[r] = "run"]
             w == [u EXCEPT !.ran = Count(@)]
  <2>2. v \in VmType /\ Calm(vm, v) /\ r \in Runs /\ r \in Nat
    BY <1>9 DEF Runs
  <2>3. vm' = v \/ vm' = Arm(w, "STARTED")
    BY <2>1
  <2> HIDE DEF v
  <2>4. t \in VmType /\ Calm(v, t)
    BY <2>2, SendType, CalmTakes DEF Frames
  <2> HIDE DEF t
  <2>5. u \in VmType /\ Calm(t, u)
    <3>1. [t.phase EXCEPT ![r] = "run"] \in [Runs -> Phases]
      BY <2>4, Fields DEF Phases
    <3> QED BY <2>4, <3>1, Updates, CalmFields
  <2> HIDE DEF u
  <2>6. w \in VmType /\ Calm(u, w)
    BY <2>5, Fields, CountType, Updates, CalmFields
  <2> HIDE DEF w
  <2>7. Calm(w, Arm(w, "STARTED"))
    BY <2>6, CalmTakes
  <2> QED BY <2>2, <2>3, <2>4, <2>5, <2>6, <2>7, CalmAgain
<1>11. CASE FilesNotWritten
  <2>1. PICK r \in vm.writing :
          LET v == [vm EXCEPT !.writing = @ \ {r}] IN
          vm' = IF v.run # r \/ v.ended[r] # "no" THEN v ELSE EndAndPark(v, r, "broken")
    BY <1>11 DEF FilesNotWritten
  <2> DEFINE v == [vm EXCEPT !.writing = @ \ {r}]
  <2>2. v \in VmType /\ Calm(vm, v) /\ r \in 0 .. MaxRuns
    BY <1>9 DEF Runs
  <2>3. vm' = v \/ vm' = EndAndPark(v, r, "broken")
    BY <2>1
  <2> HIDE DEF v
  <2>4. Calm(v, EndAndPark(v, r, "broken"))
    BY <2>2, CalmPark DEF Reasons
  <2> QED BY <2>2, <2>3, <2>4, CalmAgain
<1> QED BY <1>1, <1>2, <1>5, <1>6, <1>7, <1>8, <1>10, <1>11 DEF HostStep, MachineStep

(* The timers, but for a deadline that passes.                             *)
LEMMA CalmTimers ==
  ASSUME Whole(vm), vm.state \in InUse, TimerStep, ~AnswerDeadline
  PROVE  Calm(vm, vm')
<1>0. vm \in VmType /\ vm.deadline # "load" /\ vm.orphans = 0
  BY InUseIs
<1>1. ~LoadDeadline
  BY <1>0 DEF LoadDeadline
<1>2. CASE PingDue
  <2> DEFINE v == [vm EXCEPT !.deadline = "off"]
             n == NextId(v)
             w == [v EXCEPT !.pingId = n]
             u == Send(w, "PING", n)
  <2>1. v \in VmType /\ Calm(vm, v)
    BY <1>0, Updates, CalmFields
  <2>2. vm' = Ping(v)
    BY <1>2 DEF PingDue
  <2> HIDE DEF v
  <2>3. vm' = v \/ vm' = Arm(u, "PONG")
    BY <2>2 DEF Ping
  <2>4. n \in Nat
    BY NextIdType
  <2> HIDE DEF n
  <2>5. w \in VmType /\ Calm(v, w)
    BY <2>1, <2>4, Updates, CalmFields
  <2> HIDE DEF w
  <2>6. u \in VmType /\ Calm(w, u)
    BY <2>4, <2>5, SendType, CalmTakes DEF Frames
  <2> HIDE DEF u
  <2>7. Calm(u, Arm(u, "PONG"))
    BY <2>6, CalmTakes
  <2> QED BY <2>1, <2>3, <2>5, <2>6, <2>7, CalmAgain
<1>3. CASE StopGraceOver
  <2> DEFINE v == [vm EXCEPT !.stopTimer = FALSE]
  <2>1. v \in VmType /\ Calm(vm, v)
    BY <1>0, Updates, CalmFields
  <2>2. vm' = Park(v)
    BY <1>0, <1>3 DEF StopGraceOver
  <2> HIDE DEF v
  <2> QED BY <2>1, <2>2, CalmPark, CalmAgain
<1>4. CASE FetchGraceOver
  <2>1. PICK r \in vm.grace :
          LET v == [vm EXCEPT !.grace = @ \ {r}] IN
          vm' = IF v.run # r \/ v.ended[r] # "no" THEN v ELSE EndAndPark(v, r, "fetch")
    BY <1>4 DEF FetchGraceOver
  <2> DEFINE v == [vm EXCEPT !.grace = @ \ {r}]
  <2>2. v \in VmType /\ Calm(vm, v) /\ r \in 0 .. MaxRuns
    <3>1. vm.grace \ {r} \in SUBSET Runs /\ r \in Runs
      BY <1>0, Fields
    <3>2. r \in 0 .. MaxRuns
      BY <3>1, AssumeTypes DEF Runs
    <3> QED BY <1>0, <3>1, <3>2, Updates, CalmFields
  <2>3. vm' = v \/ vm' = EndAndPark(v, r, "fetch")
    BY <2>1
  <2> HIDE DEF v
  <2>4. Calm(v, EndAndPark(v, r, "fetch"))
    BY <2>2, CalmPark DEF Reasons
  <2> QED BY <2>2, <2>3, <2>4, CalmAgain
<1> QED BY <1>1, <1>2, <1>3, <1>4 DEF TimerStep

(* What the guest sends.                                                   *)
LEMMA CalmReady ==
  ASSUME NEW v \in VmType, NEW id \in Nat, NEW warm \in BOOLEAN, \A i \in Ids : v.hellos[i] # "load"
  PROVE  Calm(v, OnReady(v, id, warm))
<1> DEFINE purpose == IF id \in Ids THEN v.hellos[id] ELSE "none"
           k == IF purpose = "none" THEN v ELSE [v EXCEPT !.hellos[id] = "none", !.strikes = 0]
           f == [k EXCEPT !.phase[k.run] = "files", !.deadline = "off", !.writing = @ \cup {k.run}]
<1>1. Calm(v, EndAndPark(v, v.run, "broken")) /\ Calm(v, v)
  BY Fields, CalmPark, CalmTakes DEF Reasons
<1>2. Calm(v, k)
  <2>1. Calm(v, [v EXCEPT !.hellos[id] = "none", !.strikes = 0])
    BY DEF Calm, VmType
  <2> QED BY <1>1, <2>1
<1>3. k \in VmType
  <2> DEFINE h == [v EXCEPT !.hellos[id] = "none"]
  <2>1. h \in VmType
    <3>1. [v.hellos EXCEPT ![id] = "none"] \in [Ids -> Purposes \cup {"none"}]
      BY Fields
    <3> QED BY <3>1, Updates
  <2>2. [h EXCEPT !.strikes = 0] \in VmType
    <3> HIDE DEF h
    <3> QED BY <2>1, AssumeTypes, Updates
  <2> QED BY <2>2
<1>4. purpose # "load"
  OBVIOUS
<1> HIDE DEF k
<1>5. Calm(k, f)
  BY <1>3 DEF Calm, VmType
<1>6. Calm(v, f)
  BY <1>2, <1>5, CalmAgain
<1>7. OnReady(v, id, warm) \in {v, EndAndPark(v, v.run, "broken"), f, k}
  <2> HIDE DEF f, purpose
  <2> QED BY <1>4 DEF OnReady, k, f, purpose
<1> QED BY <1>1, <1>2, <1>6, <1>7

(* Only STARTED makes it `running`, and clears the strikes.                *)
LEMMA CalmAnswers ==
  ASSUME NEW v \in VmType, NEW r \in Nat
  PROVE  Calm(v, OnStarted(v, r)) /\ Calm(v, OnExit(v, r)) /\ Calm(v, OnError(v, r)) /\ Calm(v, OnPong(v, r))
<1> DEFINE s == SetState(v, "running")
           t == [s EXCEPT !.phase[r] = "running", !.strikes = 0, !.starts[r] = Count(@)]
           p == [v EXCEPT !.pingId = 0, !.strikes = 0]
<1>1. Calm(v, v) /\ Calm(v, Park(v))
  BY CalmTakes, CalmPark
<1>2. ASSUME Current(v, r), NEW reason \in Reasons PROVE Calm(v, EndAndPark(v, r, reason))
  BY <1>2, Fields, CalmPark DEF Current
<1>3. Calm(v, OnExit(v, r)) /\ Calm(v, OnError(v, r))
  BY <1>1, <1>2 DEF OnExit, OnError, Reasons
<1>4. s \in VmType /\ (s.state = "failed" => v.state = "failed")
  <2>1. s \in VmType
    BY SetStateType DEF States
  <2>2. s.state = "failed" => v.state = "failed"
    BY DEF SetState, VmType
  <2> QED BY <2>1, <2>2
<1> HIDE DEF s
<1>5. t.strikes = 0 /\ t.state = s.state
  BY <1>4 DEF VmType
<1>6. Arm(t, "ping").strikes = 0 /\ Arm(t, "ping").state = s.state
  BY <1>4 DEF Arm, VmType
<1>7. Calm(v, OnStarted(v, r))
  <2>1. OnStarted(v, r) = Arm(t, "ping") \/ OnStarted(v, r) = v
    BY DEF OnStarted, s
  <2> HIDE DEF t
  <2>2. Calm(v, Arm(t, "ping"))
    BY <1>4, <1>6 DEF Calm
  <2> QED BY <1>1, <2>1, <2>2
<1>8. Calm(v, OnPong(v, r))
  <2>1. Calm(v, Arm(p, "ping"))
    BY DEF Arm, Calm, VmType
  <2> QED BY <1>1, <2>1 DEF OnPong
<1> QED BY <1>3, <1>7, <1>8

(* A guest fails a VM in use by a frame of another version only.           *)
LEMMA CalmGuest ==
  ASSUME Whole(vm), vm.state \in InUse, GuestStep, ~WrongVersion
  PROVE  Calm(vm, vm')
<1> DEFINE F == [type : Frames, id : Nat]
<1>0. vm \in VmType /\ vm.line \in Seq(F) /\ vm.run \in 0 .. MaxRuns /\ \A i \in Ids : vm.hellos[i] # "load"
  BY InUseIs, Fields
<1>1. CASE AnswerNext
  <2> DEFINE m == Head(vm.line)
             v == [vm EXCEPT !.line = Tail(@)]
             p == [v EXCEPT !.prog = m.id]
             n == [v EXCEPT !.prog = None]
  <2>1. m \in F /\ Tail(vm.line) \in Seq(F)
    <3> HIDE DEF F
    <3> QED BY <1>0, <1>1 DEF AnswerNext
  <2>2. v \in VmType /\ Calm(vm, v)
    BY <1>0, <2>1, Updates, CalmFields
  <2>3. m.id \in Nat /\ None \in Nat
    BY <2>1, AssumeTypes DEF None
  <2>4. \/ \E warm \in BOOLEAN : vm' = OnReady(v, m.id, warm)
        \/ vm' = OnPong(v, m.id)
        \/ vm' = OnStarted(p, m.id)
        \/ vm' = OnError(v, m.id)
        \/ vm' = OnExit(n, m.id)
        \/ vm' = v
    BY <1>1 DEF AnswerNext
  <2>5. \A i \in Ids : v.hellos[i] # "load"
    BY <1>0 DEF VmType
  <2> HIDE DEF v, m, F
  <2>6. p \in VmType /\ Calm(v, p) /\ n \in VmType /\ Calm(v, n)
    BY <2>2, <2>3, Updates, CalmFields
  <2> HIDE DEF p, n
  <2>7. /\ \A warm \in BOOLEAN : Calm(v, OnReady(v, m.id, warm))
        /\ Calm(v, OnPong(v, m.id)) /\ Calm(v, OnError(v, m.id)) /\ Calm(v, v)
    BY <2>2, <2>3, <2>5, CalmReady, CalmAnswers, CalmTakes
  <2>8. Calm(v, OnStarted(p, m.id)) /\ Calm(v, OnExit(n, m.id))
    BY <2>3, <2>6, CalmAnswers, CalmAgain
  <2> QED BY <2>2, <2>4, <2>7, <2>8, CalmAgain
<1>2. CASE ProgramExits
  <2> DEFINE n == [vm EXCEPT !.prog = None]
  <2>1. n \in VmType /\ Calm(vm, n) /\ vm.prog \in Nat
    BY <1>0, AssumeTypes, Fields, Updates, CalmFields DEF None
  <2>2. vm' = OnExit(n, vm.prog)
    BY <1>2 DEF ProgramExits
  <2> HIDE DEF n
  <2> QED BY <2>1, <2>2, CalmAnswers, CalmAgain
<1>3. CASE AgentRestarts
  <2>1. PICK lost \in 0 .. Len(vm.line) :
          vm' = OnReady([vm EXCEPT !.prog = None, !.line = SubSeq(@, lost + 1, Len(@))], 0, FALSE)
    BY <1>3 DEF AgentRestarts
  <2> DEFINE rest == SubSeq(vm.line, lost + 1, Len(vm.line))
             v == [vm EXCEPT !.prog = None, !.line = rest]
  <2>2. rest \in Seq(F)
    <3> HIDE DEF F
    <3> QED BY <1>0
  <2>3. vm' = OnReady(v, 0, FALSE)
    BY <2>1
  <2> HIDE DEF rest
  <2>4. v \in VmType
    BY <1>0, <2>2, AssumeTypes, Updates DEF None
  <2>5. Calm(vm, v) /\ \A i \in Ids : v.hellos[i] # "load"
    BY <1>0 DEF Calm, VmType
  <2> HIDE DEF v
  <2> QED BY <2>3, <2>4, <2>5, CalmReady, CalmAgain
<1>4. CASE InvalidMessage
  BY <1>0, <1>4, CalmPark DEF InvalidMessage, Reasons
<1>5. CASE FetchFailed
  <2>1. vm' = [vm EXCEPT !.grace = @ \cup {vm.run}]
    BY <1>5 DEF FetchFailed, InUse
  <2> QED BY <1>0, <2>1, CalmFields
<1> QED BY <1>1, <1>2, <1>3, <1>4, <1>5 DEF GuestStep

(* A deadline that passes: at the first the machine parks.                 *)
LEMMA DeadlineIs ==
  ASSUME Whole(vm), AnswerDeadline, vm.state = "running" => vm.strikes = 0
  PROVE  vm'.state # "running" /\ (vm'.state = "failed" => SecondDeadline)
<1> DEFINE w == [vm EXCEPT !.deadline = "off"]
           s == [w EXCEPT !.strikes = Count(@)]
           q == [s EXCEPT !.queued = IF @ = None THEN s.run ELSE @]
<1>1. /\ vm \in VmType /\ vm.state \in {"starting", "running"} /\ vm.deadline \in {"HELLO", "STARTED", "PONG"}
      /\ vm.deadline = "PONG" => vm.state = "running"
      /\ vm' = Expired(w)
  BY DEF Whole, Safe, Timers, AnswerDeadline
<1>2. vm.built /\ vm.park = "no" /\ vm.run # None
  BY <1>1, InUseIs DEF InUse
<1>3. w \in VmType
  BY <1>1, Updates
<1>4. w.state = vm.state /\ w.built = vm.built /\ w.park = vm.park /\ w.run = vm.run /\ w.strikes = vm.strikes
  BY <1>1 DEF VmType
<1> HIDE DEF w
<1>5. s \in VmType
  BY <1>3, Fields, CountType, Updates
<1>6. s.strikes = Count(vm.strikes) /\ s.state = vm.state /\ s.built /\ s.park = "no" /\ s.run = vm.run
  BY <1>2, <1>3, <1>4 DEF VmType
<1>7. /\ s.strikes >= 2 => vm' = Fail(End(s, s.run, "unresponsive"))
      /\ s.strikes < 2 => vm' = EndAndPark(s, s.run, "unresponsive") \/ vm' = Park(q)
  <2>1. vm' = Expired(w) /\ s.run # None
    BY <1>1, <1>2, <1>6
  <2>2. Expired(w) = CASE s.strikes >= 2 -> Fail(End(s, s.run, "unresponsive"))
                       [] s.strikes < 2 /\ s.run = None -> s
                       [] s.strikes < 2 /\ s.run # None /\ s.phase[s.run] = "running" ->
                            EndAndPark(s, s.run, "unresponsive")
                       [] OTHER -> Park(q)
    BY DEF Expired
  <2> HIDE DEF s, q
  <2>3. s.strikes \in 0 .. 2
    BY <1>5, Fields
  <2>4. CASE s.strikes >= 2
    <3>1. ~(s.strikes < 2)
      BY <2>3, <2>4
    <3> QED BY <2>1, <2>2, <2>4, <3>1
  <2>5. CASE s.strikes < 2
    <3>1. ~(s.strikes >= 2)
      BY <2>3, <2>5
    <3> QED BY <2>1, <2>2, <2>5, <3>1
  <2> QED BY <2>4, <2>5
<1>8. vm.strikes \in 0 .. 2
  BY <1>1, Fields
<1> HIDE DEF s
<1>9. s.run \in 0 .. MaxRuns /\ s.queued \in 0 .. MaxRuns
  BY <1>5, Fields
<1>10. CASE vm.strikes = 0
  <2>1. vm' = EndAndPark(s, s.run, "unresponsive") \/ vm' = Park(q)
    BY <1>6, <1>7, <1>10 DEF Count
  <2>2. PICK e : e = End(s, s.run, "unresponsive")
    OBVIOUS
  <2>3. e \in VmType /\ SameButEnds(e, s)
    BY <1>5, <1>9, <2>2, EndIs DEF Reasons
  <2>4. e.built /\ e.park = "no" /\ e.state \notin {"destroyed", "failed"}
    BY <1>1, <1>6, <2>3 DEF SameButEnds, SamePhase, SameJobs, SameCpu, SameTimers
  <2>5. Park(e).state = "parking"
    BY <2>3, <2>4, ParkIs
  <2> DEFINE n == IF s.queued = None THEN s.run ELSE s.queued
  <2>6. n \in 0 .. MaxRuns /\ q = [s EXCEPT !.queued = n]
    BY <1>5, <1>9 DEF VmType
  <2> HIDE DEF n, q
  <2>7. q \in VmType
    BY <1>5, <2>6, Updates
  <2>8. q.built /\ q.park = "no" /\ q.state \notin {"destroyed", "failed"}
    BY <1>1, <1>5, <1>6, <2>6 DEF VmType
  <2>9. Park(q).state = "parking"
    BY <2>7, <2>8, ParkIs
  <2> QED BY <2>1, <2>2, <2>5, <2>9 DEF EndAndPark
<1>11. CASE vm.strikes > 0
  <2>1. SecondDeadline
    BY <1>1, <1>11, AnswerDeadline DEF SecondDeadline
  <2>2. vm' = Fail(End(s, s.run, "unresponsive"))
    BY <1>6, <1>7, <1>8, <1>11 DEF Count
  <2>3. End(s, s.run, "unresponsive") \in VmType /\ End(s, s.run, "unresponsive").state # "destroyed"
    BY <1>1, <1>5, <1>6, <1>9, EndIs DEF Reasons, SameButEnds, SamePhase
  <2>4. vm'.state = "failed"
    BY <2>2, <2>3, FailIs
  <2> QED BY <2>1, <2>4
<1> QED BY <1>8, <1>10, <1>11

(* A run that has started has no strike against it.                        *)
Unstruck == vm.state = "running" => vm.strikes = 0

LEMMA LeavesOnlyTwice ==
  ASSUME InTime, Inv, Unstruck, Next
  PROVE  /\ Unstruck'
         /\ ByTheTable \/ (vm'.state = "failed" /\ (SecondDeadline \/ WrongVersion))
<1>1. Whole(vm) /\ (vm'.state = vm.state \/ << vm.state, vm'.state >> \in Rows)
  BY StepKeeps DEF Inv, Goes
<1>2. CASE vm.state \notin InUse
  BY <1>1, <1>2 DEF Rows, Table, InUse, Unstruck, ByTheTable
<1>3. CASE vm.state \in InUse /\ ~AnswerDeadline /\ ~WrongVersion
  <2>1. Calm(vm, vm')
    BY <1>1, <1>3, CalmCalls, CalmHost, CalmTimers, CalmGuest DEF Next
  <2> QED BY <1>1, <1>3, <2>1 DEF Calm, Unstruck, Rows, InUse, ByTheTable
<1>4. CASE AnswerDeadline
  <2>1. vm'.state # "running" /\ (vm'.state = "failed" => SecondDeadline)
    BY <1>1, <1>4, DeadlineIs DEF Unstruck
  <2>2. vm'.state # "failed" => ByTheTable
    BY <1>1 DEF Rows, ByTheTable
  <2> QED BY <2>1, <2>2 DEF Unstruck
<1>5. CASE vm.state \in InUse /\ WrongVersion
  <2>1. vm'.state = "failed"
    BY <1>1, <1>5, FailIs DEF WrongVersion, Whole, Safe, InUse
  <2> QED BY <1>5, <2>1 DEF Unstruck
<1> QED BY <1>2, <1>3, <1>4, <1>5

(* LeavesTheTableTwice: no method, frame or timer changes #state otherwise *)
(* than the table of README 9.2 says, but for the second deadline of a     *)
(* start and a frame of another version.                                   *)
THEOREM TableIsLeft == ASSUME InTime PROVE Spec => LeavesTheTableTwice
<1>1. Init => Unstruck
  BY DEF Init, Unstruck
<1>2. Inv /\ Unstruck /\ [Next]_vars
        => /\ Unstruck'
           /\ [ByTheTable \/ (vm'.state = "failed" /\ (SecondDeadline \/ WrongVersion))]_vars
  BY LeavesOnlyTwice DEF Unstruck, vars
<1> QED BY <1>1, <1>2, InvHolds, PTL DEF Spec, LeavesTheTableTwice

-----------------------------------------------------------------------------
(* The VM keeps its promise: what a step does to the runs, some action of   *)
(* RunPromise does, or none.                                               *)
OpenOf(v) == {r \in 1 .. v.accepted : v.ended[r] = "no"}
LiveOf(v) == IF OpenOf(v) = {} THEN None ELSE CHOOSE r \in OpenOf(v) : TRUE

(* The one open run is the last one asked for.                             *)
LEMMA LiveIs ==
  ASSUME NEW v \in VmType, Kept(v)
  PROVE  \/ /\ LiveOf(v) = v.accepted /\ v.accepted \in Runs /\ v.accepted \in 1 .. v.accepted
            /\ v.ended[v.accepted] = "no"
         \/ LiveOf(v) = None /\ \A r \in 1 .. v.accepted : v.ended[r] # "no"
<1>1. v.accepted \in 0 .. MaxRuns
  BY Fields
<1>2. \A r \in OpenOf(v) : r = v.accepted /\ r \in Runs /\ r \in 1 .. v.accepted /\ v.ended[r] = "no"
  BY <1>1, UpTo DEF Kept, OpenOf
<1>3. CASE OpenOf(v) = {}
  <2>1. \A r \in 1 .. v.accepted : v.ended[r] # "no"
    BY <1>3 DEF OpenOf
  <2> QED BY <1>3, <2>1 DEF LiveOf
<1>4. CASE OpenOf(v) # {}
  <2>1. LiveOf(v) \in OpenOf(v)
    BY <1>4 DEF LiveOf
  <2> QED BY <1>2, <2>1
<1> QED BY <1>3, <1>4

(* What RunPromise's actions do, of two Vms.                               *)
Stutters(v, x) ==
  x.accepted = v.accepted /\ LiveOf(x) = LiveOf(v) /\ x.ended = v.ended /\ x.starts = v.starts
Accepting(v, x) ==
  /\ v.accepted < MaxRuns /\ x.accepted = v.accepted + 1 /\ LiveOf(x) = x.accepted
  /\ x.ended = IF LiveOf(v) = None THEN v.ended ELSE [v.ended EXCEPT ![LiveOf(v)] = "stopped"]
  /\ x.starts = v.starts
Refusing(v, x) ==
  /\ v.accepted < MaxRuns /\ LiveOf(v) = None /\ x.accepted = v.accepted + 1
  /\ x.ended = [v.ended EXCEPT ![x.accepted] = "broken"]
  /\ LiveOf(x) = LiveOf(v) /\ x.starts = v.starts
Starting(v, x) ==
  /\ LiveOf(v) # None /\ v.starts[LiveOf(v)] = 0
  /\ x.starts = [v.starts EXCEPT ![LiveOf(v)] = 1]
  /\ x.accepted = v.accepted /\ LiveOf(x) = LiveOf(v) /\ x.ended = v.ended
Finishing(v, x) ==
  /\ LiveOf(v) # None
  /\ \E reason \in Reasons : x.ended = [v.ended EXCEPT ![LiveOf(v)] = reason]
  /\ LiveOf(x) = None /\ x.accepted = v.accepted /\ x.starts = v.starts

(* The last run ends, if it has not: the others have.                      *)
LEMMA EndingIs ==
  ASSUME NEW v \in VmType, Kept(v), NEW x \in VmType, NEW reason, Ending(v, x, reason)
  PROVE  x.ended = IF LiveOf(v) = None THEN v.ended ELSE [v.ended EXCEPT ![LiveOf(v)] = reason]
<1>1. /\ v.ended \in [Runs -> Reasons \cup {"no"}] /\ x.ended \in [Runs -> Reasons \cup {"no"}]
      /\ v.accepted \in 0 .. MaxRuns
  BY Fields
<1>2. CASE /\ LiveOf(v) = v.accepted /\ v.accepted \in Runs /\ v.accepted \in 1 .. v.accepted
           /\ v.ended[v.accepted] = "no"
  <2>1. LiveOf(v) # None
    BY <1>2 DEF Runs, None
  <2>2. \A r \in Runs : r <= v.accepted /\ v.ended[r] = "no" => r = v.accepted
    <3> TAKE r \in Runs
    <3> HAVE r <= v.accepted /\ v.ended[r] = "no"
    <3>1. r \in 1 .. v.accepted
      BY <1>1 DEF Runs
    <3> QED BY <3>1 DEF Kept
  <2>3. v.accepted <= v.accepted
    BY <1>1
  <2>4. \A r \in Runs : x.ended[r] = IF r = v.accepted THEN reason ELSE v.ended[r]
    BY <1>2, <2>2, <2>3 DEF Ending
  <2>5. x.ended = [v.ended EXCEPT ![v.accepted] = reason]
    BY <1>1, <2>4
  <2> QED BY <1>2, <2>1, <2>5
<1>3. CASE LiveOf(v) = None /\ \A r \in 1 .. v.accepted : v.ended[r] # "no"
  <2>1. \A r \in Runs : r <= v.accepted => r \in 1 .. v.accepted
    BY <1>1 DEF Runs
  <2>2. \A r \in Runs : x.ended[r] = v.ended[r]
    BY <1>3, <2>1 DEF Ending
  <2>3. x.ended = v.ended
    BY <1>1, <2>2
  <2> QED BY <1>3, <2>3
<1> QED BY <1>2, <1>3, LiveIs

LEMMA GoesAsPromised ==
  ASSUME NEW v \in VmType, Kept(v), NEW x \in VmType, Kept(x), Goes(v, x)
  PROVE  Stutters(v, x) \/ Accepting(v, x) \/ Refusing(v, x) \/ Starting(v, x) \/ Finishing(v, x)
<1>0. /\ v.ended \in [Runs -> Reasons \cup {"no"}] /\ x.ended \in [Runs -> Reasons \cup {"no"}]
      /\ v.starts \in [Runs -> 0 .. 2] /\ x.starts \in [Runs -> 0 .. 2]
      /\ v.accepted \in 0 .. MaxRuns /\ x.accepted \in 0 .. MaxRuns
  BY Fields
<1>1. CASE Leaves(v, x)
  <2>1. x.accepted = v.accepted /\ x.starts = v.starts /\ x.ended = v.ended
    BY <1>0, <1>1 DEF Leaves
  <2>2. LiveOf(x) = LiveOf(v)
    BY <2>1 DEF LiveOf, OpenOf
  <2> QED BY <2>1, <2>2 DEF Stutters
<1>2. CASE Ends(v, x)
  <2>1. PICK reason \in Reasons : Ending(v, x, reason)
    BY <1>2 DEF Ends
  <2>2. x.accepted = v.accepted /\ x.starts = v.starts
    BY <1>2 DEF Ends
  <2>3. x.ended = IF LiveOf(v) = None THEN v.ended ELSE [v.ended EXCEPT ![LiveOf(v)] = reason]
    BY <2>1, EndingIs
  <2>4. CASE LiveOf(v) = None
    <3>1. x.ended = v.ended
      BY <2>3, <2>4
    <3>2. LiveOf(x) = LiveOf(v)
      BY <2>2, <3>1 DEF LiveOf, OpenOf
    <3> QED BY <2>2, <3>1, <3>2 DEF Stutters
  <2>5. CASE LiveOf(v) # None
    <3>1. LiveOf(v) = v.accepted /\ v.accepted \in Runs
      BY <2>5, LiveIs
    <3>2. x.ended = [v.ended EXCEPT ![LiveOf(v)] = reason]
      BY <2>3, <2>5
    <3>3. x.ended[x.accepted] = reason /\ reason # "no"
      BY <1>0, <2>2, <3>1, <3>2 DEF Reasons
    <3>4. LiveOf(x) = None
      BY <3>3, LiveIs
    <3> QED BY <2>2, <2>5, <3>2, <3>4 DEF Finishing
  <2> QED BY <2>4, <2>5
<1>3. CASE Accepts(v, x)
  <2>1. /\ v.accepted < MaxRuns /\ x.accepted = v.accepted + 1 /\ x.starts = v.starts
        /\ Ending(v, x, "stopped")
    BY <1>3 DEF Accepts
  <2>2. x.ended = IF LiveOf(v) = None THEN v.ended ELSE [v.ended EXCEPT ![LiveOf(v)] = "stopped"]
    BY <2>1, EndingIs
  <2>3. x.accepted \in Runs /\ x.accepted > v.accepted /\ ~(x.accepted <= v.accepted) /\ x.accepted \in 1 .. x.accepted
    BY <1>0, <2>1, BoundsAssumption DEF Runs
  <2>4. x.ended[x.accepted] = "no"
    BY <2>1, <2>3 DEF Kept, Ending
  <2>5. LiveOf(x) = x.accepted
    BY <2>3, <2>4, LiveIs
  <2> QED BY <2>1, <2>2, <2>5 DEF Accepting
<1>4. CASE Refuses(v, x)
  <2>1. /\ v.accepted < MaxRuns /\ x.accepted = v.accepted + 1 /\ x.starts = v.starts
        /\ \A r \in 1 .. v.accepted : v.ended[r] # "no"
        /\ \A r \in Runs : x.ended[r] = IF r = x.accepted THEN "broken" ELSE v.ended[r]
    BY <1>4 DEF Refuses
  <2>2. LiveOf(v) = None
    BY <2>1, LiveIs
  <2>3. x.accepted \in Runs
    BY <1>0, <2>1, BoundsAssumption DEF Runs
  <2>4. x.ended = [v.ended EXCEPT ![x.accepted] = "broken"]
    BY <1>0, <2>1, <2>3
  <2>5. x.ended[x.accepted] # "no"
    BY <2>1, <2>3
  <2>6. LiveOf(x) = None
    BY <2>5, LiveIs
  <2> QED BY <2>1, <2>2, <2>4, <2>6 DEF Refusing
<1>5. CASE Starts(v, x)
  <2>1. x.accepted = v.accepted /\ x.ended = v.ended
    BY <1>0, <1>5 DEF Starts
  <2>2. PICK q \in 1 .. v.accepted :
          /\ v.ended[q] = "no" /\ v.starts[q] = 0
          /\ \A r \in Runs : x.starts[r] = IF r = q THEN 1 ELSE v.starts[r]
    BY <1>5 DEF Starts
  <2>3. LiveOf(v) = v.accepted /\ v.accepted \in Runs /\ q = v.accepted
    BY <2>2, LiveIs DEF Kept
  <2>4. LiveOf(v) # None
    BY <2>3 DEF Runs, None
  <2>5. LiveOf(x) = LiveOf(v)
    BY <2>1 DEF LiveOf, OpenOf
  <2>6. x.starts = [v.starts EXCEPT ![LiveOf(v)] = 1]
    BY <1>0, <2>2, <2>3
  <2>7. v.starts[LiveOf(v)] = 0
    BY <2>2, <2>3
  <2> QED BY <2>1, <2>4, <2>5, <2>6, <2>7 DEF Starting
<1> QED BY <1>1, <1>2, <1>3, <1>4, <1>5 DEF Goes

LEMMA PromisedStep == ASSUME InTime PROVE Inv /\ [Next]_vars => [Promise!Next]_(Promise!vars)
<1> SUFFICES ASSUME Inv, [Next]_vars PROVE [Promise!Next]_(Promise!vars)
  OBVIOUS
<1>1. Inv' /\ (vm' = vm \/ Goes(vm, vm'))
  BY NextHolds
<1>2. vm \in VmType /\ Kept(vm) /\ vm' \in VmType /\ Kept(vm')
  BY <1>1 DEF Inv, Whole, Safe
<1>3. Stutters(vm, vm') \/ Accepting(vm, vm') \/ Refusing(vm, vm') \/ Starting(vm, vm') \/ Finishing(vm, vm')
  <2>1. CASE vm' = vm
    BY <2>1 DEF Stutters
  <2> QED BY <1>1, <1>2, <2>1, GoesAsPromised
<1>4. LiveOf(vm) = LiveRun /\ LiveOf(vm') = LiveRun'
  BY DEF LiveOf, OpenOf, LiveRun, Open
<1>5. CASE Stutters(vm, vm')
  BY <1>4, <1>5 DEF Stutters, Promise!vars
<1>6. CASE Accepting(vm, vm')
  BY <1>4, <1>6 DEF Accepting, Promise!Next, Promise!Accept, Promise!Superseded, Promise!None, None
<1>7. CASE Refusing(vm, vm')
  BY <1>4, <1>7 DEF Refusing, Promise!Next, Promise!Refuse, Promise!None, None
<1>8. CASE Starting(vm, vm')
  BY <1>4, <1>8 DEF Starting, Promise!Next, Promise!Start, Promise!None, None
<1>9. CASE Finishing(vm, vm')
  BY <1>4, <1>9 DEF Finishing, Promise!Next, Promise!Finish, Promise!Reasons, Promise!None, Reasons, None
<1> QED BY <1>3, <1>5, <1>6, <1>7, <1>8, <1>9

LEMMA PromisedInit == Init => Promise!Init
<1> SUFFICES ASSUME Init PROVE Promise!Init
  OBVIOUS
<1>1. vm.accepted = 0 /\ vm.ended = [r \in Runs |-> "no"] /\ vm.starts = [r \in Runs |-> 0]
  BY DEF Init
<1>2. Open = {}
  BY <1>1 DEF Open
<1> QED BY <1>1, <1>2 DEF LiveRun, Promise!Init, Promise!None, Promise!Runs, None, Runs

(* KeepsItsPromise: the Vm implements RunPromise, whatever the machine,    *)
(* the guest and the network do in time.                                   *)
THEOREM PromiseIsKept == ASSUME InTime PROVE Spec => KeepsItsPromise
BY InvHolds, PromisedInit, PromisedStep, PTL DEF Spec, KeepsItsPromise, Promise!Spec
=============================================================================
