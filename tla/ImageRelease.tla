---- MODULE ImageRelease ----
(***************************************************************************)
(* The tools that make, correct, pack and fetch the VM image: build-state,  *)
(* write-notices, package-image and fetch-image, which work on the          *)
(* directory a page loads from (web/vm/image/), one tool at a time. A tool  *)
(* can stop at any step, killed, out of disk or refused by the system, and  *)
(* leaves the directory as it was then; a developer edits the sources,      *)
(* uploads what was packed and commits a pin whenever he likes.             *)
(*                                                                         *)
(*   dir     the directory: its top manifest and the bundles beside it      *)
(*   box     what package-image wrote: an archive and a pin per image       *)
(*   asset   what downloads from each image's URL                           *)
(*   lock    vm/image.lock                                                  *)
(*   tree    the sources: a number for their hash, and the protocol         *)
(*   proc    the running tool; told, what the last one reported             *)
(*   line    build-state's control line, and the agent at its other end     *)
(*   warmed  the images whose state was restored and found warm             *)
(*   spoilt  the directory was damaged, or left half changed by a stop      *)
(*   made, faults   counters that bound a history                          *)
(* A bundle is its manifest, the files that are as the manifest says        *)
(* (anything else among them is "junk"), and its NOTICES.txt. An absent     *)
(* bundle is an empty one, an archive is a directory, and an archive stands *)
(* for its own sha256.                                                      *)
(***************************************************************************)
EXTENDS Integers, Sequences

CONSTANTS
  MaxImages,  \* bounds the builds that save a machine
  MaxEdits,   \* bounds the edits of the sources
  MaxFaults   \* bounds the stops, the damage and the spoiled uploads

ASSUME ReleaseAssumption == MaxImages \in Nat \ {0} /\ {MaxEdits, MaxFaults} \subseteq Nat

VARIABLES dir, box, asset, lock, tree, proc, told, line, warmed, spoilt, made, faults
outside == <<box, asset, lock, tree>>
releaseVars == <<dir, outside, proc, told, line, warmed, spoilt, made, faults>>

Images == 1..MaxImages
Parts == {"state", "rootfs", "v86"}
\* NOTICES.txt: not there, naming a copyleft licence whose text it lacks, or complete.
Texts == {"none", "bare", "full"}

None == [is |-> "none"]
Torn == [is |-> "torn"]
Manifest(id, source, proto, debug, text) ==
  [is |-> "manifest", id |-> id, source |-> source, proto |-> proto, debug |-> debug, notices |-> text, named |-> FALSE]
Pin(archive) ==
  [is |-> "pin", id |-> archive.top.id, sum |-> archive, source |-> archive.top.source, proto |-> archive.top.proto]

NoBundle == [manifest |-> None, parts |-> {}, text |-> "none"]
EmptyDir == [top |-> None, bundles |-> [i \in Images |-> NoBundle]]
Only(d, id) == [d EXCEPT !.bundles = [i \in Images |-> IF i = id THEN @[i] ELSE NoBundle]]

Idle == [tool |-> "none", at |-> "none", force |-> FALSE, proto |-> 0, man |-> None, pin |-> None, before |-> EmptyDir]
Tool(name, at) == [Idle EXCEPT !.tool = name, !.at = at, !.proto = tree.proto]
At(tool, at) == proc.tool = tool /\ proc.at = at
GoTo(at) == proc' = [proc EXCEPT !.at = at]

\* A tool ends with exit code 0, or with another. What is read later is that of fetch-image and of
\* check-image-pin, when it is 0.
Report(p, ok) == [tool |-> p.tool, ok |-> ok, pin |-> p.pin, proto |-> p.proto]
NoReport == Report(Idle, FALSE)
Ends(p, ok) == proc' = Idle /\ told' = IF ok /\ p.tool \in {"fetch", "check"} THEN Report(p, TRUE) ELSE NoReport

sourceHash == tree.source

\* What verifyBundle() lets pass, of a page that speaks `proto`. It only looks whether libv86.mjs is
\* there, so damage to that file alone is not among the damage here.
Verified(d, proto) ==
  /\ d.top.is = "manifest" /\ d.top.proto = proto
  /\ d.bundles[d.top.id] = [manifest |-> d.top, parts |-> Parts, text |-> d.top.notices]

---------------------------------------------------------------------------
(* The control line as AgentLine speaks it: a request has an id, and the    *)
(* first message from then on with that id and a type it waits for answers  *)
(* it; anything else is only noted. The agent has to be asked before it     *)
(* answers, except for the READY it says when it is up, under id 0.         *)

Message(type, id, warm) == [type |-> type, id |-> id, warm |-> warm]
NoWait == [id |-> -1, types |-> {}]
NewLine == [nextId |-> 1, wait |-> NoWait, asked |-> <<>>, wire |-> <<>>]

Request(l, type, answer) ==
  [l EXCEPT !.nextId = @ + 1, !.wait = [id |-> l.nextId, types |-> {answer, "ERROR"}],
            !.asked = Append(@, [answer |-> answer, id |-> l.nextId])]

Expecting == proc.tool = "build" /\ line.wait # NoWait
Matches(m) == m.id = line.wait.id /\ m.type \in line.wait.types

\* Nobody may ask a parked machine anything, so the READY at boot is heard first or was missed.
AgentBoots ==
  /\ At("build", "boot") /\ line.wire = <<>>
  /\ line' = [line EXCEPT !.wire = <<Message("READY", 0, FALSE)>>]
  /\ UNCHANGED <<dir, outside, proc, told, warmed, spoilt, made, faults>>

\* PARKED without a warm interpreter, a restored machine that lost it, and a refusal are answers too.
AgentAnswers ==
  /\ Expecting /\ line.asked # <<>>
  /\ LET asked == Head(line.asked) IN
     \E type \in {asked.answer, "ERROR"}, warm \in BOOLEAN :
       line' = [line EXCEPT !.asked = Tail(@), !.wire = Append(@, Message(type, asked.id, warm))]
  /\ UNCHANGED <<dir, outside, proc, told, warmed, spoilt, made, faults>>

\* LOG and CREDIT, or a frame that does not decode.
AgentTalks ==
  /\ Expecting /\ line.wire = <<>>
  /\ line' = [line EXCEPT !.wire = <<Message("LOG", 0, FALSE)>>]
  /\ UNCHANGED <<dir, outside, proc, told, warmed, spoilt, made, faults>>

Noted ==
  /\ Expecting /\ line.wire # <<>> /\ ~Matches(Head(line.wire))
  /\ line' = [line EXCEPT !.wire = Tail(@)]
  /\ UNCHANGED <<dir, outside, proc, told, warmed, spoilt, made, faults>>

\* An answer of the type that was waited for.
Hears(at) ==
  /\ At("build", at) /\ Expecting /\ line.wire # <<>>
  /\ Matches(Head(line.wire)) /\ Head(line.wire).type # "ERROR"
Heard == [line EXCEPT !.wire = Tail(@), !.wait = NoWait]

\* An ERROR rejects the request, and so does its timeout, whatever comes after it; the shell's
\* waitFor() has one too.
RequestFails ==
  /\ Expecting \/ At("build", "prompt") \/ At("build", "stty")
  /\ Ends(proc, FALSE) /\ line' = NewLine
  /\ UNCHANGED <<dir, outside, warmed, spoilt, made, faults>>

---------------------------------------------------------------------------
(* build-state.mjs *)

\* bootImage(). A debug machine comes here only with --out; without, it has a directory of its own.
Build(debug) ==
  /\ proc = Idle /\ made < MaxImages
  /\ proc' = [Tool("build", IF debug THEN "prompt" ELSE "boot") EXCEPT
                !.man = Manifest(made + 1, 0, tree.proto, debug, "none")]
  /\ line' = IF debug THEN NewLine ELSE [NewLine EXCEPT !.wait = [id |-> 0, types |-> {"READY"}]]
  /\ told' = NoReport
  /\ UNCHANGED <<dir, outside, warmed, spoilt, made, faults>>

\* A debug machine's root shell, whose prompt ready() waits for and whose echo run() then turns off,
\* up to the marker only the shell can compute. The agent's READY has passed by then.
Shell ==
  /\ \/ At("build", "prompt") /\ GoTo("stty") /\ UNCHANGED line
     \/ At("build", "stty") /\ GoTo("hello") /\ line' = Request(NewLine, "HELLO", "READY")
  /\ UNCHANGED <<dir, outside, told, warmed, spoilt, made, faults>>

AgentIsUp ==
  /\ Hears("boot")
  /\ line' = Request(Heard, "HELLO", "READY") /\ GoTo("hello")
  /\ UNCHANGED <<dir, outside, told, warmed, spoilt, made, faults>>

AgentIsReady ==
  /\ Hears("hello")
  /\ line' = Request(Heard, "PREPARE", "PARKED") /\ GoTo("prepare")
  /\ UNCHANGED <<dir, outside, told, warmed, spoilt, made, faults>>

\* Only a machine with a warm interpreter is saved.
Parked ==
  /\ Hears("prepare")
  /\ line' = NewLine
  /\ IF Head(line.wire).warm THEN GoTo("save") /\ UNCHANGED told ELSE Ends(proc, FALSE)
  /\ UNCHANGED <<dir, outside, warmed, spoilt, made, faults>>

Id == proc.man.id
Written(d, part) == [d EXCEPT !.bundles[Id].parts = @ \cup {part}]

\* The state names its image, so no image is written twice. Then linkRootfs(), then the v86 build.
SaveState ==
  /\ At("build", "save")
  /\ made' = Id /\ dir' = Written(dir, "state") /\ GoTo("files")
  /\ UNCHANGED <<outside, told, line, warmed, spoilt, faults>>

WriteFiles ==
  /\ At("build", "files")
  /\ IF "rootfs" \in dir.bundles[Id].parts
     THEN dir' = Written(dir, "v86") /\ GoTo("manifest")
     ELSE dir' = Written(dir, "rootfs") /\ UNCHANGED proc
  /\ UNCHANGED <<outside, told, line, warmed, spoilt, made, faults>>

\* writeManifest(): into the bundle, and with `entry` also beside it.
writeManifest(d, man, entry) ==
  LET inBundle == [d EXCEPT !.bundles[man.id].manifest = man] IN
  IF entry THEN [inBundle EXCEPT !.top = man] ELSE inBundle

\* Mutant: the manifest becomes the entry point before the state was restored.
DescribedAsEntry(text) ==
  LET man == Manifest(Id, sourceHash, proc.proto, proc.man.debug, text) IN
  /\ At("build", "manifest")
  /\ dir' = writeManifest([dir EXCEPT !.bundles[Id].text = text], man, TRUE)
  /\ proc' = [proc EXCEPT !.at = "restore", !.man = man]
  /\ UNCHANGED <<outside, told, line, warmed, spoilt, made, faults>>

\* The sources are hashed here, and writeNotices() writes a text if the build left what it needs.
Described(text) ==
  LET man == Manifest(Id, sourceHash, proc.proto, proc.man.debug, text) IN
  /\ At("build", "manifest")
  /\ dir' = writeManifest([dir EXCEPT !.bundles[Id].text = text], man, FALSE)
  /\ proc' = [proc EXCEPT !.at = "restore", !.man = man]
  /\ UNCHANGED <<outside, told, line, warmed, spoilt, made, faults>>

\* loadBundle(), openHost() and restoreAndGreet(): a line of its own, to a machine that was parked.
RestoreAndGreet ==
  /\ At("build", "restore")
  /\ line' = Request(NewLine, "HELLO", "READY") /\ GoTo("greet")
  /\ UNCHANGED <<dir, outside, told, warmed, spoilt, made, faults>>

Greeted ==
  /\ Hears("greet")
  /\ line' = NewLine
  /\ IF Head(line.wire).warm
     THEN /\ proc' = [proc EXCEPT !.at = "name", !.man.named = TRUE]
          /\ warmed' = warmed \cup {Id} /\ UNCHANGED told
     ELSE Ends(proc, FALSE) /\ UNCHANGED warmed
  /\ UNCHANGED <<dir, outside, spoilt, made, faults>>

\* writeManifest() with `entry` is two writes.
NameInterpreter ==
  /\ At("build", "name")
  /\ dir' = writeManifest(dir, proc.man, FALSE) /\ GoTo("entry")
  /\ UNCHANGED <<outside, told, line, warmed, spoilt, made, faults>>

WriteEntry ==
  /\ At("build", "entry")
  /\ dir' = writeManifest(dir, proc.man, TRUE) /\ spoilt' = FALSE /\ GoTo("sweep")
  /\ UNCHANGED <<outside, told, line, warmed, made, faults>>

\* rmSync() of a bundle takes its files one by one; two steps stand for them.
Shrunk(d, i) ==
  [d EXCEPT !.bundles[i] = IF @.parts = {} THEN NoBundle ELSE [@ EXCEPT !.parts = {}]]

\* removeOtherBundles(): those that hold a manifest.
RemoveOtherBundles ==
  LET others == {i \in Images \ {Id} : dir.bundles[i].manifest # None} IN
  /\ At("build", "sweep")
  /\ IF others = {} THEN Ends(proc, TRUE) /\ UNCHANGED dir
     ELSE (\E i \in others : dir' = Shrunk(dir, i)) /\ UNCHANGED <<proc, told>>
  /\ UNCHANGED <<outside, line, warmed, spoilt, made, faults>>

BuildStep ==
  \/ \E debug \in BOOLEAN : Build(debug)
  \/ Shell \/ AgentIsUp \/ AgentIsReady \/ Parked \/ SaveState \/ WriteFiles
  \/ \E text \in Texts : Described(text)
  \/ RestoreAndGreet \/ Greeted \/ NameInterpreter \/ WriteEntry \/ RemoveOtherBundles

---------------------------------------------------------------------------
(* write-notices.mjs: the text, the top manifest, the bundle's own. *)

WriteNotices(text) ==
  /\ proc = Idle /\ dir.top.is = "manifest" /\ dir.bundles[dir.top.id] # NoBundle
  /\ dir' = [dir EXCEPT !.bundles[dir.top.id].text = text]
  /\ proc' = [Tool("notices", "top") EXCEPT !.man = [dir.top EXCEPT !.notices = text]]
  /\ told' = NoReport
  /\ UNCHANGED <<outside, line, warmed, spoilt, made, faults>>

NoticesNamed ==
  /\ proc.tool = "notices"
  /\ IF proc.at = "top" THEN dir' = [dir EXCEPT !.top = proc.man] /\ GoTo("bundle") /\ UNCHANGED told
     ELSE dir' = writeManifest(dir, proc.man, FALSE) /\ Ends(proc, TRUE)
  /\ UNCHANGED <<outside, line, warmed, spoilt, made, faults>>

---------------------------------------------------------------------------
(* package-image.mjs *)

\* Mutant: a machine with a root shell may be packed.
PackageShell(stale) ==
  LET ok == Verified(dir, tree.proto) /\ dir.top.notices = "full" /\ (stale \/ dir.top.source = sourceHash)
      archive == Only(dir, dir.top.id)
      p == Tool("package", "pin")
  IN
  /\ proc = Idle
  /\ IF ~ok THEN Ends(p, FALSE) /\ UNCHANGED box
     ELSE /\ box' = [box EXCEPT !.archive[archive.top.id] = archive]
          /\ proc' = [p EXCEPT !.pin = Pin(archive)] /\ told' = NoReport
  /\ UNCHANGED <<dir, asset, lock, tree, line, warmed, spoilt, made, faults>>

\* With --allow-stale the sources may be others. The archive is written first.
Package(stale) ==
  LET ok == /\ Verified(dir, tree.proto) /\ ~dir.top.debug /\ dir.top.notices = "full"
            /\ stale \/ dir.top.source = sourceHash
      archive == Only(dir, dir.top.id)
      p == Tool("package", "pin")
  IN
  /\ proc = Idle
  /\ IF ~ok THEN Ends(p, FALSE) /\ UNCHANGED box
     ELSE /\ box' = [box EXCEPT !.archive[archive.top.id] = archive]
          /\ proc' = [p EXCEPT !.pin = Pin(archive)] /\ told' = NoReport
  /\ UNCHANGED <<dir, asset, lock, tree, line, warmed, spoilt, made, faults>>

PackagePin ==
  /\ At("package", "pin")
  /\ box' = [box EXCEPT !.pin[proc.pin.id] = proc.pin]
  /\ Ends(proc, TRUE)
  /\ UNCHANGED <<dir, asset, lock, tree, line, warmed, spoilt, made, faults>>

---------------------------------------------------------------------------
(* fetch-image.mjs *)

\* Mutant: an image in place is kept for its name.
KeptUnread(pin, proto) == dir.top.id = pin.id

Kept(pin, proto) == Verified(dir, proto) /\ dir.top.source = pin.source

\* Up to the download. A top manifest that does not parse fails the tool, and so does one that
\* names another image, unless --force.
Fetch(force) ==
  LET p == [Tool("fetch", "download") EXCEPT !.force = force, !.pin = lock, !.before = dir]
      looks == ~force /\ dir.top # None
      refused == \/ lock = None \/ lock.proto # tree.proto
                 \/ looks /\ (dir.top = Torn \/ dir.top.id # lock.id)
  IN
  /\ proc = Idle
  /\ IF refused THEN Ends(p, FALSE)
     ELSE /\ proc' = IF looks /\ Kept(lock, p.proto) THEN [p EXCEPT !.at = "sweep"] ELSE p
          /\ told' = NoReport
  /\ UNCHANGED <<dir, outside, line, warmed, spoilt, made, faults>>

\* What lies beside an image that is kept goes.
FetchSweeps ==
  LET others == {i \in Images \ {proc.pin.id} : dir.bundles[i] # NoBundle} IN
  /\ At("fetch", "sweep")
  /\ IF others = {} THEN Ends(proc, TRUE) /\ UNCHANGED dir
     ELSE (\E i \in others : dir' = Shrunk(dir, i)) /\ UNCHANGED <<proc, told>>
  /\ UNCHANGED <<outside, line, warmed, spoilt, made, faults>>

\* fetchTo(), and what came held to the pin's sha256 and size. Nothing there is an HTTP error.
Download ==
  /\ At("fetch", "download")
  /\ IF asset[proc.pin.id] = proc.pin.sum THEN GoTo("unpack") /\ UNCHANGED told ELSE Ends(proc, FALSE)
  /\ UNCHANGED <<dir, outside, line, warmed, spoilt, made, faults>>

\* The archive is unpacked away from the directory, and checked as a bundle and as the pin's.
Unpack ==
  LET staging == proc.pin.sum IN
  /\ At("fetch", "unpack")
  /\ IF /\ Verified(staging, proc.proto) /\ staging = Only(staging, proc.pin.id)
        /\ staging.top.id = proc.pin.id /\ staging.top.source = proc.pin.source
     THEN GoTo("remove") /\ UNCHANGED told
     ELSE Ends(proc, FALSE)
  /\ UNCHANGED <<dir, outside, line, warmed, spoilt, made, faults>>

\* rmSync() of the directory, in any order.
RemoveOld ==
  /\ At("fetch", "remove")
  /\ IF dir = EmptyDir THEN GoTo("move") /\ UNCHANGED dir
     ELSE /\ \/ dir.top # None /\ dir' = [dir EXCEPT !.top = None]
             \/ \E i \in Images : dir.bundles[i] # NoBundle /\ dir' = Shrunk(dir, i)
          /\ UNCHANGED proc
  /\ UNCHANGED <<outside, told, line, warmed, spoilt, made, faults>>

\* moveDir(): a rename, or across file systems a copy, file by file.
Move ==
  /\ At("fetch", "move")
  /\ \/ dir' = proc.pin.sum /\ spoilt' = FALSE /\ Ends(proc, TRUE)
     \/ GoTo("copy") /\ UNCHANGED <<dir, spoilt, told>>
  /\ UNCHANGED <<outside, line, warmed, made, faults>>

CopyOver ==
  LET new == proc.pin.sum
      id == proc.pin.id
  IN
  /\ At("fetch", "copy")
  /\ IF dir = new THEN Ends(proc, TRUE) /\ spoilt' = FALSE /\ UNCHANGED dir
     ELSE /\ \/ dir.top = None /\ dir' = [dir EXCEPT !.top = new.top]
             \/ dir.bundles[id] = NoBundle /\ dir' = [dir EXCEPT !.bundles[id].manifest = new.top]
             \/ dir.bundles[id].manifest # None /\ dir' = [dir EXCEPT !.bundles[id] = new.bundles[id]] /\ dir' # dir
          /\ UNCHANGED <<proc, told, spoilt>>
  /\ UNCHANGED <<outside, line, warmed, made, faults>>

FetchStep == (\E force \in BOOLEAN : Fetch(force)) \/ FetchSweeps \/ Download \/ Unpack \/ RemoveOld \/ Move \/ CopyOver

---------------------------------------------------------------------------
(* check-image-pin.mjs, which CI runs first. No pin is no mistake: the page is left out then. *)

CheckPin ==
  /\ proc = Idle
  /\ Ends([Tool("check", "none") EXCEPT !.pin = lock],
          lock = None \/ (lock.proto = tree.proto /\ lock.source = sourceHash))
  /\ UNCHANGED <<dir, outside, line, warmed, spoilt, made, faults>>

---------------------------------------------------------------------------
(* What nobody planned, and what the developer does. *)

\* The manifest being written when the tool stops may be left torn.
TornWrite ==
  CASE At("build", "manifest") \/ At("build", "name") \/ At("notices", "bundle") ->
         [dir EXCEPT !.bundles[Id].manifest = Torn]
    [] At("build", "entry") \/ At("notices", "top") -> [dir EXCEPT !.top = Torn]
    [] At("fetch", "copy") /\ dir.top = None -> [dir EXCEPT !.top = Torn]
    [] OTHER -> dir

\* A kill, a full disk, the thirty minutes of build-state, an error of the file system.
Stop ==
  /\ proc # Idle /\ faults < MaxFaults
  /\ faults' = faults + 1
  /\ dir' \in {dir, TornWrite}
  /\ spoilt' = (spoilt \/ proc.tool = "notices" \/ (proc.tool = "fetch" /\ proc.at \in {"remove", "move", "copy"}))
  /\ Ends(proc, FALSE) /\ line' = NewLine
  /\ UNCHANGED <<outside, warmed, made>>

\* A file of the current image is damaged, or something is put beside it.
Damage ==
  /\ proc = Idle /\ faults < MaxFaults /\ dir.top.is = "manifest"
  /\ dir.bundles[dir.top.id].parts # {}
  /\ \E part \in {"rootfs", "junk"} :
       dir' = [dir EXCEPT !.bundles[dir.top.id].parts = (@ \ {part}) \cup ({part} \ @)]
  /\ faults' = faults + 1 /\ spoilt' = TRUE /\ told' = NoReport
  /\ UNCHANGED <<outside, proc, line, warmed, made>>

Edit ==
  /\ tree.source < MaxEdits
  /\ tree' \in {[source |-> tree.source + 1, proto |-> p] : p \in {tree.proto, tree.proto + 1}}
  /\ UNCHANGED <<dir, box, asset, lock, proc, told, line, warmed, spoilt, made, faults>>

\* An upload may be cut short.
Upload(id) ==
  /\ proc = Idle /\ box.archive[id] # EmptyDir
  /\ \/ asset' = [asset EXCEPT ![id] = box.archive[id]] /\ UNCHANGED faults
     \/ /\ faults < MaxFaults /\ faults' = faults + 1
        /\ asset' = [asset EXCEPT ![id] = [box.archive[id] EXCEPT !.top = Torn]]
  /\ UNCHANGED <<dir, box, lock, tree, proc, told, line, warmed, spoilt, made>>

CommitPin(id) ==
  /\ proc = Idle /\ box.pin[id] # None /\ lock' = box.pin[id]
  /\ UNCHANGED <<dir, box, asset, tree, proc, told, line, warmed, spoilt, made, faults>>

ReleaseInit ==
  /\ dir = EmptyDir /\ lock = None /\ tree = [source |-> 0, proto |-> 0]
  /\ box = [archive |-> [i \in Images |-> EmptyDir], pin |-> [i \in Images |-> None]]
  /\ asset = [i \in Images |-> EmptyDir]
  /\ proc = Idle /\ told = NoReport /\ line = NewLine
  /\ warmed = {} /\ spoilt = FALSE /\ made = 0 /\ faults = 0

ReleaseNext ==
  \/ AgentBoots \/ AgentAnswers \/ AgentTalks \/ Noted \/ RequestFails
  \/ BuildStep \/ FetchStep \/ PackagePin \/ NoticesNamed \/ CheckPin
  \/ \E text \in {"bare", "full"} : WriteNotices(text)
  \/ \E stale \in BOOLEAN : Package(stale)
  \/ \E id \in Images : Upload(id) \/ CommitPin(id)
  \/ Stop \/ Damage \/ Edit

ReleaseSpec == ReleaseInit /\ [][ReleaseNext]_releaseVars

---------------------------------------------------------------------------
(* Properties *)

ReleaseTypeOK ==
  /\ dir.top.is \in {"none", "torn", "manifest"}
  /\ \A i \in Images : dir.bundles[i].parts \subseteq Parts \cup {"junk"} /\ dir.bundles[i].text \in Texts
  /\ lock.is \in {"none", "pin"} /\ proc.tool \in {"none", "build", "notices", "package", "fetch"}
  /\ warmed \subseteq Images /\ made \in 0..MaxImages /\ faults \in 0..MaxFaults

\* The entry point only ever names an image whose state came up warm in a fresh machine, with its
\* interpreter named; and until somebody damages it, or a tool stops while it changes it, that image is
\* there, whole, whatever builds failed or stopped since.
EntryIsGood ==
  /\ ReleaseTypeOK
  /\ dir.top.is = "manifest" => dir.top.id \in warmed /\ dir.top.named
  /\ dir.top.is = "manifest" /\ ~spoilt /\ proc.tool \notin {"notices", "fetch"} =>
       dir.bundles[dir.top.id] = [manifest |-> dir.top, parts |-> Parts, text |-> dir.top.notices]

\* A committed pin is that of an image a page may be given: restored, whole, without a root shell,
\* with the text of every licence it names, and of the sources it says.
PinsAreGood ==
  lock # None =>
    LET man == lock.sum.top IN
    /\ man.id = lock.id /\ lock.id \in warmed /\ ~man.debug /\ man.notices = "full"
    /\ lock.sum = Only(lock.sum, lock.id) /\ Verified(lock.sum, lock.proto)
    /\ man.source = lock.source

\* When fetch-image reports success, the pinned image is what is there, whole, and nothing else.
FetchedIsPinned ==
  told.tool = "fetch" /\ told.ok =>
    /\ Verified(dir, told.proto) /\ dir = Only(dir, told.pin.id)
    /\ dir.top.id = told.pin.id /\ dir.top.source = told.pin.source

\* Until its download has passed every check, fetch-image has changed nothing; and without --force it
\* replaces only an image the pin names, or nothing.
FetchChecksFirst ==
  proc.tool = "fetch" =>
    /\ proc.at \in {"download", "unpack"} => dir = proc.before
    /\ proc.at \in {"remove", "move", "copy"} /\ ~proc.force =>
         proc.before.top = None \/ proc.before.top.id = proc.pin.id
    /\ proc.at = "sweep" => Verified(dir, proc.proto) /\ dir.top.id = proc.pin.id

\* A pin that check-image-pin lets pass names an image that the page of the same tree can load.
CheckedIsLoadable ==
  told.tool = "check" /\ told.ok /\ told.pin # None => Verified(told.pin.sum, told.proto)

\* What fetch-image and check-image-pin report is so, and fetch-image gives nothing up before it is.
FetchIsRight == FetchedIsPinned /\ FetchChecksFirst /\ CheckedIsLoadable

====
