---- MODULE RootfsReads ----
(***************************************************************************)
(* The rootfs reads of the page's machine, and the deadline they suspend:   *)
(* VmHost of web/vm/vm_machine.js and Watchdog of web/vm/vm_watchdog.js.     *)
(*                                                                         *)
(*   host    the machine: which guest it holds (epoch), whether its CPU      *)
(*           runs and should run, the operation its queue is at, whether     *)
(*           the page sees it, and the guest's clock                         *)
(*   guest   the guest now in it: the reads it asked for, those that were    *)
(*           answered, and the failures the run layer was told of            *)
(*   loads   each file's download and the readers that share it, by guest    *)
(*   files   v86's filedata, the closed files kept in it and their bytes,    *)
(*           and each file's copy in the Cache API and on its way there       *)
(*   wd      the watchdog; `spent` and `silent` count the samples since its   *)
(*           deadline was last restarted, those of fetches left out and in     *)
(* A restore, a guest's read and a sample are steps apart; what one task does   *)
(* with its microtasks is one step. v86 itself is not under src/.              *)
(***************************************************************************)
EXTENDS Integers, Sequences, FiniteSets, FiniteSetsExt, SequencesExt

CONSTANTS
  Names,          \* rootfs files, named by their content
  Large,          \* those of twice the size of the others
  KeepBytes,      \* ROOTFS_KEEP_BYTES
  MaxRestores,    \* bounds the restores
  MaxReads,       \* bounds the reads of one guest
  Retries,        \* the length of FETCH_RETRY_DELAYS_MS
  Timeout, Cap    \* a deadline and FETCH_HOLD_CAP_MS, in samples

ASSUME SizeAssumption == IsFiniteSet(Names) /\ Large \subseteq Names /\ KeepBytes \in Nat
ASSUME BoundsAssumption == {MaxRestores, MaxReads, Retries, Cap} \subseteq Nat /\ Timeout \in Nat \ {0}

VARIABLES host, guest, loads, files, wd
vars == <<host, guest, loads, files, wd>>

Epochs == 0..MaxRestores
Size == [n \in Names |-> IF n \in Large THEN 2 ELSE 1]
NoReads == [n \in Names |-> 0]
NewGuest == [asked |-> NoReads, answered |-> NoReads, told |-> NoReads]
NoLoad == [at |-> "none", attempt |-> 0, readers |-> [e \in Epochs |-> 0]]

\* The reads of the present guest that wait for a file.
Waiting(n) == loads[n].readers[host.epoch]

---------------------------------------------------------------------------
(* The watchdog. *)

Disarmed(w) == [w EXCEPT !.armed = FALSE, !.remaining = 0, !.held = 0, !.spent = 0, !.silent = 0]

\* start() and kick(): in full, and with the whole allowance for fetches.
Rearmed(w) == [w EXCEPT !.armed = TRUE, !.remaining = Timeout, !.held = 0, !.spent = 0, !.silent = 0]

Held(w, reason) == [w EXCEPT !.holds = @ \cup {reason}]

\* resume(): in full again, but not the allowance for fetches.
Released(w, reason) ==
  IF reason \notin w.holds THEN w
  ELSE IF ~w.armed THEN [w EXCEPT !.holds = @ \ {reason}]
  ELSE [w EXCEPT !.holds = @ \ {reason}, !.remaining = Timeout, !.spent = 0, !.silent = 0]

\* Mutant: a fetch under way always excuses the guest.
ExcusedForEver(w) == w.fetching

FetchExcused(w) == w.fetching /\ w.held < Cap

\* Mutant: a late sample counts all the time since the one before.
StepOfAll(late) == IF late THEN 2 ELSE 1

\* min(now - last, SAMPLE_MS): a busy page costs the guest one sample.
StepOf(late) == 1

\* #sample(), while it counts.
Sample ==
  \E late \in BOOLEAN :
    LET step == StepOf(late) IN
    /\ wd.armed /\ wd.holds = {}
    /\ wd' = IF FetchExcused(wd) THEN [wd EXCEPT !.held = @ + step, !.silent = @ + 1]
             ELSE IF wd.remaining > step
                  THEN [wd EXCEPT !.remaining = @ - step, !.spent = @ + 1, !.silent = @ + 1]
                  ELSE [Disarmed(wd) EXCEPT !.spent = wd.spent + 1, !.expired = TRUE]
    /\ UNCHANGED <<host, guest, loads, files>>

\* The run layer arms the deadline, hears from the guest, and takes the deadline back.
Arm ==
  /\ ~host.destroyed /\ host.op = "none" /\ host.cpu
  /\ wd' = [Rearmed(wd) EXCEPT !.expired = FALSE]
  /\ UNCHANGED <<host, guest, loads, files>>

Kick == host.cpu /\ wd.armed /\ wd' = Rearmed(wd) /\ UNCHANGED <<host, guest, loads, files>>
Disarm == wd.armed /\ wd' = Disarmed(wd) /\ UNCHANGED <<host, guest, loads, files>>

---------------------------------------------------------------------------
(* The guest's clock, which v86 keeps as the page's time less an offset:    *)
(*   offset   "zero", or another                                            *)
(*   right    the guest reads the time it had, and the time it ran since     *)
(*   frozen   #frozenTsc: none, or what was read, which may be wrong         *)

Clocks == [offset : {"zero", "other"}, right : BOOLEAN, frozen : {"none", "right", "wrong"}]

\* v86's set_tsc(): the guest reads the value plus the offset there was.
set_tsc(c, value) == [c EXCEPT !.right = value = "right" /\ c.offset = "zero", !.offset = "other"]

\* Setting the clock to what it reads makes the offset zero.
zeroTscOffset(c) == [c EXCEPT !.right = FALSE, !.offset = "zero"]

writeTsc(c) == set_tsc(zeroTscOffset(c), c.frozen)

\* The CPU stops: what the clock reads is kept, and it goes on counting.
FreezeTsc(c) == [c EXCEPT !.frozen = IF c.right THEN "right" ELSE "wrong", !.right = FALSE]

---------------------------------------------------------------------------
(* The machine: one operation at a time, as #serially() has it. *)

Init ==
  /\ host = [epoch |-> 0, cpu |-> FALSE, want |-> FALSE, visible |-> TRUE, shown |-> TRUE,
             op |-> "none", destroyed |-> FALSE, fetching |-> 0,
             tsc |-> [offset |-> "zero", right |-> FALSE, frozen |-> "none"]]
  /\ guest = NewGuest
  /\ loads = [n \in Names |-> NoLoad]
  /\ \E copy \in {"none", "good", "torn"} :
       files = [data |-> {}, kept |-> << >>, keptBytes |-> 0,
                copies |-> [n \in Names |-> copy], digested |-> [n \in Names |-> "none"]]
  /\ wd = [armed |-> FALSE, remaining |-> 0, held |-> 0, holds |-> {"cpu"}, fetching |-> FALSE,
           expired |-> FALSE, spent |-> 0, silent |-> 0]

\* Mutant: the snapshot's clock is set on top of the offset there is.
RestoringUnzeroed ==
  /\ host' = [host EXCEPT !.op = "restoring", !.want = FALSE, !.cpu = FALSE, !.epoch = @ + 1,
                         !.fetching = 0, !.tsc.frozen = "none"]
  /\ guest' = NewGuest
  /\ UNCHANGED <<loads, files>>

\* restoreSnapshot() up to restore_state(), once the CPU stands still: another guest from here on.
Restoring ==
  /\ host' = [host EXCEPT !.op = "restoring", !.want = FALSE, !.cpu = FALSE, !.epoch = @ + 1,
                         !.fetching = 0, !.tsc = zeroTscOffset([@ EXCEPT !.frozen = "none"])]
  /\ guest' = NewGuest
  /\ UNCHANGED <<loads, files>>

RestoreSnapshot ==
  /\ ~host.destroyed /\ host.op = "none" /\ host.epoch < MaxRestores
  /\ IF host.cpu
     THEN /\ host' = [host EXCEPT !.op = "stopping", !.want = FALSE]
          /\ wd' = Held(wd, "cpu")
          /\ UNCHANGED <<guest, loads, files>>
     ELSE Restoring /\ wd' = [wd EXCEPT !.fetching = FALSE]

\* emulator.stop() resolves.
Stopped ==
  \/ host.op = "stopping" /\ Restoring /\ wd' = [wd EXCEPT !.fetching = FALSE]
  \/ /\ host.op = "halting" /\ host' = [host EXCEPT !.op = "none", !.cpu = FALSE, !.tsc = FreezeTsc(@)]
     /\ UNCHANGED <<guest, loads, files, wd>>

\* restore_state() resolves, with the snapshot's clock, or throws half way.
Restored ==
  /\ host.op = "restoring"
  /\ \/ host' = [host EXCEPT !.op = "none", !.tsc = FreezeTsc(set_tsc(@, "right"))]
     \/ host' = [host EXCEPT !.op = "none"]
  /\ UNCHANGED <<guest, loads, files, wd>>

\* #applyCpu(): the CPU runs while it is wanted and the page is seen.
ApplyCpu(h) ==
  IF h.want /\ h.visible /\ ~h.cpu
  THEN host' = [h EXCEPT !.cpu = TRUE, !.tsc = writeTsc(@)] /\ wd' = Released(wd, "cpu")
  ELSE IF ~(h.want /\ h.visible) /\ h.cpu THEN host' = [h EXCEPT !.op = "halting"] /\ wd' = Held(wd, "cpu")
  ELSE host' = h /\ UNCHANGED wd

Resume ==
  /\ ~host.destroyed /\ host.op = "none" /\ host.tsc.frozen # "none"
  /\ ApplyCpu([host EXCEPT !.want = TRUE])
  /\ UNCHANGED <<guest, loads, files>>

Pause ==
  /\ ~host.destroyed /\ host.op = "none"
  /\ ApplyCpu([host EXCEPT !.want = FALSE])
  /\ UNCHANGED <<guest, loads, files>>

\* setVisible(): the watchdog at once, the CPU when the queue gets there.
VisibilityChanges ==
  /\ host' = [host EXCEPT !.shown = ~@]
  /\ wd' = IF host.shown THEN Held(wd, "hidden") ELSE Released(wd, "hidden")
  /\ UNCHANGED <<guest, loads, files>>

VisibilityApplied ==
  /\ ~host.destroyed /\ host.op = "none" /\ host.visible # host.shown
  /\ ApplyCpu([host EXCEPT !.visible = host.shown])
  /\ UNCHANGED <<guest, loads, files>>

\* destroy(): the emulator goes once the queue is empty, and its guest with it.
Destroy ==
  /\ ~host.destroyed
  /\ host' = [host EXCEPT !.destroyed = TRUE]
  /\ wd' = Disarmed(wd)
  /\ UNCHANGED <<guest, loads, files>>

Destroyed ==
  /\ host.destroyed /\ host.op = "none" /\ host.cpu
  /\ host' = [host EXCEPT !.cpu = FALSE]
  /\ UNCHANGED <<guest, loads, files, wd>>

---------------------------------------------------------------------------
(* The reads. *)

\* #readRootfsFile(), for a file v86 does not hold: one download at a time for a file.
Ask(n) ==
  /\ host.cpu /\ n \notin files.data
  /\ SumFunction(guest.asked) < MaxReads
  /\ guest' = [guest EXCEPT !.asked[n] = @ + 1]
  /\ loads' = [loads EXCEPT ![n].at = IF @ = "none" THEN "cache" ELSE @, ![n].readers[host.epoch] = @ + 1]
  /\ host' = [host EXCEPT !.fetching = @ + 1]
  /\ wd' = [wd EXCEPT !.fetching = TRUE]
  /\ UNCHANGED files

\* settled(), for every read that shared the load: those of a guest that is gone count no more.
Settled(n) ==
  LET left == host.fetching - Waiting(n) IN
  /\ host' = [host EXCEPT !.fetching = left]
  /\ wd' = IF Waiting(n) > 0 /\ left = 0 THEN [wd EXCEPT !.fetching = FALSE] ELSE wd

\* Mutant: every reader gets the file, whichever guest it belonged to.
AnsweredAll(n) ==
  /\ guest' = [guest EXCEPT !.answered[n] = @ + SumFunction(loads[n].readers)]
  /\ files' = [files EXCEPT !.data = @ \cup {n}]

\* The file is there: it is cached in v86 and given to the reads of the present guest.
Answered(n) ==
  IF host.destroyed \/ Waiting(n) = 0 THEN UNCHANGED <<guest, files>>
  ELSE /\ guest' = [guest EXCEPT !.answered[n] = @ + Waiting(n)]
       /\ files' = [files EXCEPT !.data = @ \cup {n}]

\* It cannot be had: the reads stay unanswered, and fetch-failed is reported once for the load.
Failed(n) ==
  guest' = IF host.destroyed \/ Waiting(n) = 0 THEN guest ELSE [guest EXCEPT !.told[n] = @ + 1]

LoadEnds(n) == Settled(n) /\ loads' = [loads EXCEPT ![n] = NoLoad]

\* fileCache.get(): a copy that does not decompress is deleted, and the network is next.
CacheRead(n) ==
  /\ loads[n].at = "cache"
  /\ \/ files.copies[n] = "good" /\ LoadEnds(n) /\ Answered(n)
     \/ /\ files.copies[n] # "good"
        /\ files' = [files EXCEPT !.copies[n] = "none"]
        /\ loads' = [loads EXCEPT ![n].at = "fetch"]
        /\ UNCHANGED <<host, guest, wd>>

\* #fetchOnce() gives the file, or one that only looks like it: it is put into the Cache API by
\* and by, once its digest is known.
Fetched(n) ==
  /\ loads[n].at = "fetch"
  /\ LoadEnds(n)
  /\ \E content \in {"good", "wrong"} :
       LET digesting == [files EXCEPT !.digested[n] = content] IN
       IF host.destroyed \/ Waiting(n) = 0 THEN files' = digesting /\ UNCHANGED guest
       ELSE /\ guest' = [guest EXCEPT !.answered[n] = @ + Waiting(n)]
            /\ files' = [digesting EXCEPT !.data = @ \cup {n}]

\* A network error, a 5xx or no answer in time: tried again while there are retries.
FetchFails(n) ==
  /\ loads[n].at = "fetch"
  /\ IF loads[n].attempt < Retries /\ ~host.destroyed
     THEN loads' = [loads EXCEPT ![n].at = "wait", ![n].attempt = @ + 1] /\ UNCHANGED <<host, guest, wd>>
     ELSE LoadEnds(n) /\ Failed(n)
  /\ UNCHANGED files

\* Mutant: there is always another retry.
RetryFetchAnew(n) ==
  /\ loads[n].at = "wait"
  /\ loads' = [loads EXCEPT ![n].at = "fetch", ![n].attempt = 0]
  /\ UNCHANGED <<host, guest, files, wd>>

RetryFetch(n) ==
  /\ loads[n].at = "wait"
  /\ loads' = [loads EXCEPT ![n].at = "fetch"]
  /\ UNCHANGED <<host, guest, files, wd>>

\* A 4xx, or a body that does not decompress: at once.
FetchRefused(n) ==
  /\ loads[n].at = "fetch"
  /\ LoadEnds(n) /\ Failed(n)
  /\ UNCHANGED files

\* #keepFetched(): only what the name says, and nothing once the machine is gone.
KeepFetched(n) ==
  /\ files.digested[n] # "none"
  /\ files' = [files EXCEPT !.digested[n] = "none",
                 !.copies[n] = IF files.digested[n] = "good" /\ ~host.destroyed THEN "good" ELSE @]
  /\ UNCHANGED <<host, guest, loads, wd>>

\* #keep(), before the oldest make room: most recently closed last.
Keep(f, n) ==
  [f EXCEPT !.kept = Append(RemoveFirst(@, n), n), !.keptBytes = IF Contains(f.kept, n) THEN @ ELSE @ + Size[n]]

\* The oldest go, until the rest fit.
Evict(f) ==
  LET BytesFrom(i) == f.keptBytes - SumFunctionOnSet(Size, {f.kept[k] : k \in 1..(i - 1)})
      first == CHOOSE i \in 1..(Len(f.kept) + 1) :
                 /\ BytesFrom(i) <= KeepBytes \/ i = Len(f.kept) + 1
                 /\ \A j \in 1..(i - 1) : BytesFrom(j) > KeepBytes
  IN [f EXCEPT !.kept = SubSeq(@, first, Len(@)), !.keptBytes = BytesFrom(first),
               !.data = @ \ {f.kept[k] : k \in 1..(first - 1)}]

\* The guest closes a file: v86's uncache, which the host replaces.
Close(n) ==
  /\ host.cpu /\ n \in files.data
  /\ files' = Evict(Keep(files, n))
  /\ UNCHANGED <<host, guest, loads, wd>>

LoadStep(n) ==
  \/ CacheRead(n) \/ Fetched(n) \/ FetchFails(n) \/ RetryFetch(n) \/ FetchRefused(n)

Next ==
  \/ RestoreSnapshot \/ Stopped \/ Restored \/ Resume \/ Pause
  \/ VisibilityChanges \/ VisibilityApplied \/ Destroy \/ Destroyed
  \/ \E n \in Names : Ask(n) \/ LoadStep(n) \/ KeepFetched(n) \/ Close(n)
  \/ Sample \/ Arm \/ Kick \/ Disarm

Spec == Init /\ [][Next]_vars

\* A fetch that is not answered ends after FETCH_ATTEMPT_TIMEOUT_MS, and the Cache API answers.
FairSpec == Spec /\ \A n \in Names : WF_vars(LoadStep(n))

---------------------------------------------------------------------------
(* Properties *)

TypeOK ==
  /\ host \in [epoch : Epochs, cpu : BOOLEAN, want : BOOLEAN, visible : BOOLEAN, shown : BOOLEAN,
               op : {"none", "stopping", "halting", "restoring"}, destroyed : BOOLEAN,
               fetching : 0..MaxReads, tsc : Clocks]
  /\ guest \in [asked : [Names -> 0..MaxReads], answered : [Names -> 0..MaxReads], told : [Names -> 0..MaxReads]]
  /\ loads \in [Names -> [at : {"none", "cache", "fetch", "wait"}, attempt : 0..Retries,
                          readers : [Epochs -> 0..MaxReads]]]
  /\ files.data \subseteq Names /\ files.kept \in Seq(Names) /\ files.keptBytes \in Nat
  /\ files.copies \in [Names -> {"none", "good", "torn", "wrong"}]
  /\ files.digested \in [Names -> {"none", "good", "wrong"}]
  /\ wd \in [armed : BOOLEAN, remaining : 0..Timeout, held : 0..Cap, holds : SUBSET {"cpu", "hidden"},
             fetching : BOOLEAN, expired : BOOLEAN, spent : Nat, silent : Nat]

\* A file is never given to a guest that did not ask for it: a reply that lands after a restore
\* would write into a machine that never made the request.
NoStrayAnswer == \A n \in Names : guest.answered[n] + Waiting(n) <= guest.asked[n]

\* A read the guest will never see answered has been reported, or the program would hang with
\* an agent that goes on answering; and nothing is reported to a guest that lost nothing.
LostReadsAreTold ==
  ~host.destroyed => \A n \in Names :
    (guest.asked[n] - guest.answered[n] - Waiting(n) > 0) <=> (guest.told[n] > 0)

\* The watchdog is suspended exactly while the present guest waits for a file, however loads
\* are shared across a restore.
FetchesAreCounted ==
  /\ host.fetching = SumFunction([n \in Names |-> Waiting(n)])
  /\ wd.fetching <=> host.fetching > 0

\* The kept bytes are those of the kept files, within the budget, and v86 still has each of them.
KeptAddsUp ==
  /\ files.keptBytes = SumFunctionOnSet(Size, ToSet(files.kept))
  /\ files.keptBytes <= KeepBytes
  /\ ToSet(files.kept) \subseteq files.data /\ IsInjective(files.kept)

\* What is kept for later visits is what its name says: a wrong copy would be served for ever.
OnlyNamedIsKept == \A n \in Names : files.copies[n] # "wrong"

\* Restores, shared loads and failures in any order: every read is answered once or reported, and
\* what is kept is bounded, accounted for, and right.
FilesAreRight ==
  TypeOK /\ NoStrayAnswer /\ LostReadsAreTold /\ FetchesAreCounted /\ KeptAddsUp /\ OnlyNamedIsKept

\* A running guest reads its own time: that of the snapshot and of the time it ran, however often it was
\* parked, hidden and restored before. A restore that failed leaves nothing to run.
GuestClockIsRight == host.cpu => host.tsc.right

\* A guest that says nothing is ended: nothing but a restart of its deadline puts that off by
\* more than the deadline and the allowance for its fetches.
HungGuestExpires == wd.armed => wd.silent < Timeout + Cap

\* A guest is ended only for time it had: after a whole deadline's samples, with its CPU
\* running on a machine that was restored, and with the page seen.
ExpiresForCause ==
  [][wd'.expired /\ ~wd.expired => wd'.spent >= Timeout /\ host.cpu /\ host.tsc.frozen # "none" /\ host.shown]_vars

\* Every read that is under way lands or fails.
ReadsSettle == []<>(\A n \in Names : loads[n].at = "none")

====
