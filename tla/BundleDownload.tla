---- MODULE BundleDownload ----
(***************************************************************************)
(* One image's download and who waits for it: loadBundle() and              *)
(* prefetchBundle() of web/vm/vm_bundle.js, joinDownload(), BundleDownload  *)
(* and readWhole() of web/vm/vm_download.js, and the Web Locks that keep    *)
(* the image's files from other tabs, of web/vm/vm_cache.js.                *)
(*                                                                         *)
(* The one variable, `p`, is the page with what it shares with other tabs:  *)
(*   caller    each call: `at`, the download it joined, whether its signal   *)
(*             aborted, for a load its two halves, and how it ended         *)
(*   dl        the downloads, in the order they were started                *)
(*   inFlight  the module's map: the download for this image, or 0          *)
(*   cached    what the Cache API holds: the manifest, libv86.mjs, v86.wasm *)
(*   files     it holds files of this image, rootfs files included          *)
(*   holders   who holds the image's lock shared: calls and downloads       *)
(*   other     another tab, with a newer image: where it is, and whether    *)
(*             its files are there                                          *)
(* The state's part is PieceReader, of which only the outcome matters here. *)
(***************************************************************************)
EXTENDS Integers, Sequences, FiniteSets

CONSTANTS
  Loads, Prefetches,  \* the calls: loadBundle() and prefetchBundle()
  MaxDownloads,       \* bounds the downloads a page starts
  MaxRetries,         \* the length of RETRY_DELAYS_MS
  Faults              \* what may happen besides

ASSUME CallsAssumption == Loads \cap Prefetches = {}
\* A call and a download, as holders of a lock, are told apart.
ASSUME HoldersAssumption == \A d \in 1..MaxDownloads : <<d>> \notin Loads \cup Prefetches
ASSUME BoundsAssumption == MaxDownloads \in Nat /\ MaxRetries \in Nat
ASSUME FaultsAssumption ==
  Faults \subseteq {"offline", "old", "refused", "broken", "corrupt", "noLib", "late", "leave", "full", "otherTab"}

VARIABLE p
vars == <<p>>

Callers == Loads \cup Prefetches
Downloads(x) == 1..Len(x.dl)

NewCaller == [at |-> "out", on |-> 0, left |-> FALSE, files |-> "none", lib |-> "none", outcome |-> "none"]
NewDownload ==
  [pc |-> "hold", joiners |-> {}, stopping |-> FALSE, linger |-> FALSE, keeps |-> FALSE,
   wasm |-> "none", again |-> FALSE, tries |-> 0, copy |-> "none",
   state |-> "none", lib |-> "none", outcome |-> "none"]

---------------------------------------------------------------------------
(* Who waits: joinDownload() and the joiners of a BundleDownload. *)

\* #lingerIfAlone(): the timer that stops a download nobody waits for.
LingerIfAlone(x, d) ==
  IF x.dl[d].joiners # {} \/ x.dl[d].outcome # "none" THEN x ELSE [x EXCEPT !.dl[d].linger = TRUE]

\* A call ends with a failure. A load then leaves the download and lets go of the image.
EndCall(x, c, why) ==
  [x EXCEPT !.caller[c] = [NewCaller EXCEPT !.at = "ended", !.outcome = why, !.left = x.caller[c].left],
            !.holders = @ \ {c}]

\* #leave(): the joiner is rejected as aborted, and Promise.all with it.
Leave(x, c, d) ==
  IF d = 0 \/ c \notin x.dl[d].joiners THEN x
  ELSE LingerIfAlone(EndCall([x EXCEPT !.dl[d].joiners = @ \ {c}], c, "aborted"), d)

Started(x) == [x EXCEPT !.dl = Append(@, NewDownload), !.inFlight = Len(x.dl) + 1]

\* join(): it is one more to hear the outcome, and the timer is off.
JoinerOf(x, c, d) ==
  LET job == [x.dl[d] EXCEPT !.joiners = @ \cup {c}, !.linger = FALSE]
      call == [x.caller[c] EXCEPT !.at = "joined", !.on = d, !.files = "pending",
                                  !.lib = IF c \in Loads THEN "pending" ELSE "ok"]
  IN [x EXCEPT !.dl[d] = job, !.caller[c] = call]

\* Mutant: one that is stopping is joined all the same.
JoinStopping(x, c) ==
  LET started == IF x.inFlight = 0 THEN Started(x) ELSE x
      d == started.inFlight
  IN IF x.caller[c].left THEN LingerIfAlone(EndCall(started, c, "aborted"), d)
     ELSE JoinerOf(started, c, d)

\* joinDownload(): one that is stopping is left to itself, and another started.
WithDownload(x) == IF x.inFlight = 0 \/ x.dl[x.inFlight].stopping THEN Started(x) ELSE x

JoinDownload(x, c) ==
  LET started == WithDownload(x)
      d == started.inFlight
  IN IF x.caller[c].left THEN LingerIfAlone(EndCall(started, c, "aborted"), d)
     ELSE JoinerOf(started, c, d)

\* Both halves of a load are there; a prefetch has but one.
Loaded(x, c) ==
  IF x.caller[c].files = "ok" /\ x.caller[c].lib = "ok"
  THEN [x EXCEPT !.caller[c] = [NewCaller EXCEPT !.at = IF c \in Loads THEN "loaded" ELSE "ended", !.outcome = "ok"]]
  ELSE x

\* What a joiner makes of the outcome.
Heard(x, c, why) ==
  IF why = "ok" THEN Loaded([x EXCEPT !.caller[c].files = "ok"], c).caller[c] ELSE EndCall(x, c, why).caller[c]

\* #settle(), and what #run() releases: every joiner hears the outcome once.
SettleDownload(x, d, why) ==
  LET heard == [c \in Callers |-> IF c \in x.dl[d].joiners THEN Heard(x, c, why) ELSE x.caller[c]]
      freed == {<<d>>} \cup (IF why = "ok" THEN {} ELSE x.dl[d].joiners)
      job == [NewDownload EXCEPT !.pc = "done", !.outcome = why]
      next == IF x.inFlight = d THEN 0 ELSE x.inFlight
  IN [x EXCEPT !.dl[d] = job, !.caller = heard, !.holders = @ \ freed, !.inFlight = next]

\* failFast: the first part that fails, the deadline or the stop aborts the others, and #run() ends
\* without them. A part it leaves at a check may still keep a good v86.wasm, or a piece, after
\* the lock is let go of: that is left out.
FailDownload(x, d, why) ==
  SettleDownload(x, d, IF x.dl[d].stopping THEN "aborted" ELSE why)

\* Every part is there: other images' files may go.
PartsDone(x, d) ==
  LET job == x.dl[d] IN
  IF job.wasm = "ok" /\ job.state = "ok" /\ job.lib = "ok" THEN [x EXCEPT !.dl[d].pc = "forget"] ELSE x

---------------------------------------------------------------------------
(* The callers. *)

Init == \E wasm \in {"none", "good", "bad"} :
  p = [caller |-> [c \in Callers |-> NewCaller], dl |-> <<>>, inFlight |-> 0,
       cached |-> [manifest |-> FALSE, lib |-> "none", wasm |-> wasm],
       files |-> wasm # "none", holders |-> {}, other |-> [at |-> "away", files |-> FALSE]]

Call(c) ==
  /\ p.caller[c].at = "out"
  /\ p' = [p EXCEPT !.caller[c].at = "manifest"]

\* readManifest(): from the network, and kept, or else the copy of the last load.
ManifestsRead(x) ==
  {[x EXCEPT !.cached.manifest = TRUE]} \cup {y \in {x} : "offline" \in Faults /\ y.cached.manifest}

\* manifestOf(): neither is there, or the image speaks another protocol than the page.
ReadManifest(c) ==
  /\ p.caller[c].at = "manifest"
  /\ \/ \E x \in ManifestsRead(p) : p' = [x EXCEPT !.caller[c].at = "holding"]
     \/ "offline" \in Faults /\ ~p.cached.manifest /\ p' = EndCall(p, c, "network")
     \/ "old" \in Faults /\ p' = EndCall(p, c, "incompatible")

\* Mutant: a load leaves the lock to its download.
JoinUnheld(c) ==
  /\ p.caller[c].at = "holding"
  /\ Len(WithDownload(p).dl) <= MaxDownloads
  /\ p' = JoinDownload(p, c)

\* holdImage() of a load, which waits while another tab deletes; a prefetch holds nothing itself.
\* Then the download is joined, and a load imports libv86.mjs beside it.
Join(c) ==
  /\ p.caller[c].at = "holding"
  /\ c \in Loads => p.other.at # "deleting"
  /\ Len(WithDownload(p).dl) <= MaxDownloads
  /\ p' = JoinDownload(IF c \in Loads THEN [p EXCEPT !.holders = @ \cup {c}] ELSE p, c)

\* The caller's signal, or its Vm destroyed while it loads.
LeaveRequested(c) ==
  /\ "leave" \in Faults
  /\ p.caller[c].at \in {"manifest", "holding", "joined"} /\ ~p.caller[c].left
  /\ p' = Leave([p EXCEPT !.caller[c].left = TRUE], c, p.caller[c].on)

\* importLib(): over the network, or else from the kept copy.
LibImported(c) ==
  /\ p.caller[c].at = "joined" /\ p.caller[c].lib = "pending"
  /\ p' = Loaded([p EXCEPT !.caller[c].lib = "ok"], c)

\* Both fail, and a copy that does not import goes: the load leaves the download, whose joiner is rejected before the import is.
LibFailed(c) ==
  /\ "noLib" \in Faults
  /\ p.caller[c].at = "joined" /\ p.caller[c].lib = "pending" /\ p.cached.lib # "good"
  /\ LET dropped == [p EXCEPT !.cached.lib = "none"]
         left == Leave(dropped, c, p.caller[c].on)
         ended == IF left.caller[c].at = "ended" THEN left ELSE EndCall(dropped, c, "network")
     IN p' = [ended EXCEPT !.caller[c].lib = "failed"]

\* The Vm is destroyed: release() lets go of the image.
Release(c) ==
  /\ p.caller[c].at = "loaded"
  /\ p' = EndCall(p, c, "ok")

---------------------------------------------------------------------------
(* #run() of a download. *)

\* holdImage() of the download itself.
Held(d) ==
  /\ p.dl[d].pc = "hold" /\ p.other.at # "deleting"
  /\ p' = [p EXCEPT !.dl[d].pc = "room", !.holders = @ \cup {<<d>>}]

\* #roomFor(), and the parts start; those of a download stopped meanwhile are aborted at once.
RoomFound(d) ==
  /\ p.dl[d].pc = "room"
  /\ \E keeps \in {TRUE, ("full" \notin Faults)} :
       LET started == [p EXCEPT !.dl[d] =
             [@ EXCEPT !.pc = "parts", !.keeps = keeps, !.wasm = "match", !.state = "pending",
                       !.lib = IF keeps /\ p.cached.lib = "none" THEN "pending" ELSE "ok"]]
       IN p' = IF p.dl[d].stopping THEN FailDownload(started, d, "aborted") ELSE started

\* A request hears that it is aborted; looking v86.wasm up and checking it do not, nor does keepLib().
Hears(d) == p.dl[d].pc = "parts" /\ (p.dl[d].wasm = "asked" \/ p.dl[d].state = "pending")

\* LINGER_MS after the last caller left.
LingerOver(d) ==
  /\ p.dl[d].linger
  /\ LET stopped == [p EXCEPT !.dl[d] = [@ EXCEPT !.stopping = TRUE, !.linger = FALSE]]
     IN p' = IF Hears(d) THEN FailDownload(stopped, d, "aborted") ELSE stopped

\* Mutant: the deadline is not linked to what is read.
DeadlineUnheard(d) == Hears(d) /\ UNCHANGED p

\* DEADLINE_MS: aborts what listens to it.
DeadlineOver(d) ==
  /\ "late" \in Faults
  /\ Hears(d)
  /\ p' = FailDownload(p, d, "network")

\* withRetries(): the request of a download that was stopped meanwhile is aborted at once.
Asks(x, d) == IF x.dl[d].stopping THEN FailDownload(x, d, "network") ELSE x

\* readWhole(): the kept copy, which goes when it fails the check.
WasmMatched(d) ==
  /\ p.dl[d].pc = "parts" /\ p.dl[d].wasm = "match"
  /\ p' = IF p.cached.wasm = "good"
          THEN PartsDone([p EXCEPT !.dl[d] = [@ EXCEPT !.wasm = "ok", !.copy = "good"]], d)
          ELSE Asks([p EXCEPT !.cached.wasm = "none",
                               !.dl[d] = [@ EXCEPT !.wasm = "asked", !.again = (p.cached.wasm = "bad")]], d)

\* download(): all of it arrives, for better or worse.
WasmArrived(d) ==
  /\ p.dl[d].pc = "parts" /\ p.dl[d].wasm = "asked"
  /\ \E copy \in {"good", IF "corrupt" \in Faults THEN "bad" ELSE "good"} :
       p' = [p EXCEPT !.dl[d] = [@ EXCEPT !.wasm = "check", !.copy = copy]]

\* withRetries(): it starts over from byte zero, so many times; a 404 is not tried again.
WasmBroke(d) ==
  /\ "broken" \in Faults
  /\ p.dl[d].pc = "parts" /\ p.dl[d].wasm = "asked"
  /\ p' = IF p.dl[d].tries < MaxRetries THEN [p EXCEPT !.dl[d].tries = @ + 1] ELSE FailDownload(p, d, "network")

WasmRefused(d) ==
  /\ "refused" \in Faults
  /\ p.dl[d].pc = "parts" /\ p.dl[d].wasm = "asked"
  /\ p' = FailDownload(p, d, "network")

\* Mutant: the second copy is taken as it is.
WasmCheckedOnce(d) ==
  LET job == p.dl[d] IN
  /\ job.pc = "parts" /\ job.wasm = "check"
  /\ p' = IF job.copy = "good" \/ job.again
          THEN PartsDone([p EXCEPT !.dl[d].wasm = "ok",
                            !.cached.wasm = IF job.keeps THEN job.copy ELSE @, !.files = @ \/ job.keeps], d)
          ELSE [p EXCEPT !.dl[d] = [@ EXCEPT !.wasm = "asked", !.again = TRUE, !.tries = 0]]

\* mismatch(): a bad copy is fetched once more, past the HTTP cache; a good one is kept.
WasmChecked(d) ==
  LET job == p.dl[d] IN
  /\ job.pc = "parts" /\ job.wasm = "check"
  /\ p' = IF job.copy = "good"
          THEN PartsDone([p EXCEPT !.dl[d] = [@ EXCEPT !.wasm = "ok", !.again = FALSE, !.tries = 0],
                            !.cached.wasm = IF job.keeps THEN "good" ELSE @, !.files = @ \/ job.keeps], d)
          ELSE IF ~job.again
          THEN Asks([p EXCEPT !.dl[d] = [@ EXCEPT !.wasm = "asked", !.again = TRUE, !.tries = 0]], d)
          ELSE FailDownload(p, d, "network")

\* readInPieces(), as PieceReader has it: pieces are kept whether or not it gets through.
StateRead(d) ==
  /\ p.dl[d].pc = "parts" /\ p.dl[d].state = "pending"
  /\ LET kept == [p EXCEPT !.files = @ \/ p.dl[d].keeps] IN
     \/ p' = PartsDone([kept EXCEPT !.dl[d].state = "ok"], d)
     \/ "refused" \in Faults /\ p' = FailDownload(kept, d, "network")

\* keepLib(): kept if the server answers with JavaScript; never a failure.
LibKept(d) ==
  /\ p.dl[d].pc = "parts" /\ p.dl[d].lib = "pending"
  /\ \E lib \in {"none", "good", IF "corrupt" \in Faults THEN "bad" ELSE "good"} :
       p' = PartsDone([p EXCEPT !.dl[d].lib = "ok", !.cached.lib = lib, !.files = @ \/ lib # "none"], d)

\* forgetOtherImages(): the other tab's image goes unless that tab holds it.
Forget(d) ==
  /\ p.dl[d].pc = "forget"
  /\ p' = SettleDownload([p EXCEPT !.other.files = @ /\ p.other.at # "away"], d, "ok")

---------------------------------------------------------------------------
(* The other tab: it loads its image, deletes others' files, and closes. *)

OtherLoads ==
  /\ "otherTab" \in Faults
  /\ p.other.at = "away"
  /\ p' = [p EXCEPT !.other = [at |-> "loading", files |-> TRUE]]

\* The exclusive lock on this page's image, if nobody holds it; what to delete was listed before.
OtherForgets ==
  /\ p.other.at = "loading"
  /\ p' = [p EXCEPT !.other.at = IF p.holders = {} THEN "deleting" ELSE "running"]

OtherDeletes ==
  /\ p.other.at = "deleting"
  /\ p' = [p EXCEPT !.other.at = "running", !.files = FALSE, !.cached.wasm = "none", !.cached.lib = "none"]

OtherCloses ==
  /\ p.other.at = "running"
  /\ p' = [p EXCEPT !.other.at = "away"]

CallStep(c) ==
  \/ Call(c) \/ ReadManifest(c) \/ Join(c) \/ LeaveRequested(c)
  \/ LibImported(c) \/ LibFailed(c) \/ Release(c)

PartStep(d) ==
  \/ WasmMatched(d) \/ WasmArrived(d) \/ WasmBroke(d) \/ WasmRefused(d) \/ WasmChecked(d)
  \/ StateRead(d) \/ LibKept(d)

RunStep(d) == Held(d) \/ RoomFound(d) \/ Forget(d)

Next ==
  \/ \E c \in Callers : CallStep(c)
  \/ \E d \in Downloads(p) : RunStep(d) \/ PartStep(d) \/ LingerOver(d) \/ DeadlineOver(d)
  \/ OtherLoads \/ OtherForgets \/ OtherDeletes \/ OtherCloses

Spec == Init /\ [][Next]_vars

\* What the page, its timers and the browser do is done in the end; requests for a lock
\* are granted in order, so none is passed over for ever. The server need not send
\* anything of a download: neither v86.wasm nor the state, nor libv86.mjs, be it for the
\* import or for keepLib().
FairSpec ==
  /\ Spec
  /\ \A c \in Callers : WF_vars(ReadManifest(c)) /\ SF_vars(Join(c))
  /\ \A d \in 1..MaxDownloads :
       /\ SF_vars(d \in Downloads(p) /\ Held(d))
       /\ WF_vars(d \in Downloads(p) /\ (RoomFound(d) \/ Forget(d)))
       /\ WF_vars(d \in Downloads(p) /\ (WasmMatched(d) \/ WasmChecked(d)))
       /\ WF_vars(d \in Downloads(p) /\ LingerOver(d))
       /\ WF_vars(d \in Downloads(p) /\ DeadlineOver(d))
  /\ WF_vars(OtherForgets) /\ WF_vars(OtherDeletes)

---------------------------------------------------------------------------
(* Properties *)

CallType ==
  [at : {"out", "manifest", "holding", "joined", "loaded", "ended"},
   on : 0..MaxDownloads, left : BOOLEAN, files : {"none", "pending", "ok"},
   lib : {"none", "pending", "ok", "failed"},
   outcome : {"none", "ok", "network", "incompatible", "aborted"}]
DownloadType ==
  [pc : {"hold", "room", "parts", "forget", "done"}, joiners : SUBSET Callers,
   stopping : BOOLEAN, linger : BOOLEAN, keeps : BOOLEAN,
   wasm : {"none", "match", "asked", "check", "ok"}, again : BOOLEAN, tries : 0..MaxRetries,
   copy : {"none", "good", "bad"}, state : {"none", "pending", "ok"}, lib : {"none", "pending", "ok"},
   outcome : {"none", "ok", "network", "aborted"}]
PageType ==
  [caller : [Callers -> CallType], dl : Seq(DownloadType), inFlight : 0..MaxDownloads,
   cached : [manifest : BOOLEAN, lib : {"none", "good", "bad"}, wasm : {"none", "good", "bad"}],
   files : BOOLEAN, holders : SUBSET (Callers \cup {<<d>> : d \in 1..MaxDownloads}),
   other : [at : {"away", "loading", "deleting", "running"}, files : BOOLEAN]]
TypeOK == p \in PageType /\ Len(p.dl) <= MaxDownloads

\* Every caller that waits is told: it is a joiner of a download that has not settled, and
\* nobody who has been told, has failed or has left still hears a download's progress.
JoinersWait ==
  /\ \A c \in Callers : p.caller[c].files = "pending" /\ p.caller[c].at = "joined" =>
       /\ c \in p.dl[p.caller[c].on].joiners
       /\ p.dl[p.caller[c].on].pc # "done"
  /\ \A d \in Downloads(p) : \A c \in p.dl[d].joiners : p.caller[c].at = "joined" /\ p.caller[c].on = d

\* One download per image, whoever asks: another is started only beside one that is stopping.
OneDownload == Cardinality({d \in Downloads(p) : p.dl[d].pc # "done" /\ ~p.dl[d].stopping}) <= 1

\* A caller hears `aborted` only if its own signal went, or its own import of libv86.mjs made
\* it leave: never because it joined a download that was on its way out, or because of others.
WhoStaysIsNotAborted ==
  \A c \in Callers : p.caller[c].outcome = "aborted" => p.caller[c].left \/ p.caller[c].lib = "failed"

\* v86.wasm is used and kept only when it is what the manifest names, also when the Cache API
\* or the HTTP cache has a bad copy of it.
OnlyGoodWasm == \A d \in Downloads(p) : p.dl[d].wasm = "ok" => p.dl[d].copy = "good" /\ p.cached.wasm # "bad"

\* Every lock is let go of: once each call and each download has ended, failures included.
LocksAreReleased ==
  (\A c \in Callers : p.caller[c].at \in {"out", "ended"}) /\ (\A d \in Downloads(p) : p.dl[d].pc = "done")
    => p.holders = {}

\* A download nobody waits for is on its way out: however callers come and go, the timer that
\* stops it is set, or has stopped it, and it does not run for those who come later to share.
AloneIsStopping ==
  \A d \in Downloads(p) :
    p.dl[d].pc # "done" /\ p.dl[d].joiners = {} => p.dl[d].linger \/ p.dl[d].stopping

\* Callers come, leave and fail as they like, and each is heard by one download that it waits
\* for.
CallersAreHeard == TypeOK /\ JoinersWait /\ OneDownload /\ WhoStaysIsNotAborted /\ AloneIsStopping

\* The files are right, and once nobody needs them nothing keeps another tab from them.
FilesAreSafe == OnlyGoodWasm /\ LocksAreReleased

\* Another tab never deletes files under a download that reads or keeps them, or a machine
\* that runs from them.
InUse ==
  \/ \E c \in Loads : p.caller[c].at \in {"joined", "loaded"}
  \/ \E d \in Downloads(p) : p.dl[d].pc \in {"room", "parts", "forget"}
InUseFilesStay == [][p.files /\ ~p'.files => ~InUse]_vars

\* Past the deadline the page is told, says the comment of DEADLINE_MS: a call that joined is
\* told in the end, though the server sends nothing. It need not be: keepLib() hears of no
\* deadline, and #run() awaits it with the rest.
CallersAreTold == []<>(\A c \in Callers : p.caller[c].at # "joined")

\* libv86.mjs is all that is out: the download has its v86.wasm and its state, or the load
\* has its files and awaits its import.
OnlyLibIsOut(c) ==
  LET call == p.caller[c] IN
  /\ call.at = "joined"
  /\ \/ call.files = "ok" /\ call.lib = "pending"
     \/ call.files = "pending"
        /\ LET job == p.dl[call.on] IN
           job.pc = "parts" /\ job.wasm = "ok" /\ job.state = "ok" /\ job.lib = "pending"

\* Every call that joined is told in the end though the server sends nothing, unless
\* libv86.mjs alone keeps it waiting: not the state, nor v86.wasm, nor another tab, another
\* caller or a download it shares.
OnlyLibIsAwaited ==
  \A c \in Callers : []<>(p.caller[c].at # "joined") \/ <>[]OnlyLibIsOut(c)

====
