---------------------------- MODULE Download_proofs ----------------------------
(***************************************************************************)
(* vm_download.js, from both sides.                                        *)
(*                                                                         *)
(* BundleDownload, for any number of calls, downloads and retries: callers *)
(* are heard, the files are safe, and another tab deletes nothing that is  *)
(* in use. The invariant, Inv, is over one page x: Typed, Joined (a call   *)
(* is on a download's list exactly while it waits for that download),      *)
(* Running (how `linger`, `stopping`, the joiners and the module's map     *)
(* belong together), Holding (who holds the image's lock, and why) and     *)
(* Checked (v86.wasm). First what each helper does to a page, then that    *)
(* each keeps the parts, then one lemma per action.                        *)
(*                                                                         *)
(* PieceReader (from `Multiples` on), for files and pieces of any length   *)
(* and any number of workers and retries: what is held, counted and still  *)
(* to be fetched add up, and nothing unchecked is used. The invariant,     *)
(* ReadInv, is over one read x: Base (fields, arrivals and counts), Apart  *)
(* (each byte is in one place) and Sound (the pieces kept). In the middle  *)
(* of a step worker i is left out of both, and `rest` is what it is still  *)
(* to fetch; each method takes such a read to one the invariant holds of.  *)
(***************************************************************************)
EXTENDS BundleDownload, PieceReader, Sums, SequenceTheorems

(* The parts of the invariant. *)

Typed(x) == x \in PageType /\ Len(x.dl) <= MaxDownloads

Joined(x) ==
  /\ \A c \in Callers :
       /\ IF x.caller[c].at = "joined"
          THEN x.caller[c].on \in Downloads(x) /\ x.caller[c].files # "none"
          ELSE x.caller[c].on = 0 /\ x.caller[c].files = "none"
       /\ x.caller[c].outcome = "aborted" =>
            x.caller[c].at = "ended" /\ (x.caller[c].left \/ x.caller[c].lib = "failed")
  /\ \A d \in Downloads(x) : \A c \in Callers :
       c \in x.dl[d].joiners <=> x.caller[c].on = d /\ x.caller[c].files = "pending"

Running(x) ==
  /\ \A d \in Downloads(x) :
       /\ x.dl[d].pc = "done" <=> x.dl[d].outcome # "none"
       /\ x.dl[d].pc = "done" => x.dl[d].joiners = {} /\ ~x.dl[d].linger /\ ~x.dl[d].stopping
       /\ x.dl[d].linger \/ x.dl[d].stopping => x.dl[d].joiners = {}
       /\ x.dl[d].pc # "done" /\ x.dl[d].joiners = {} => x.dl[d].linger \/ x.dl[d].stopping
       /\ x.dl[d].pc # "done" /\ ~x.dl[d].stopping => x.inFlight = d
  /\ x.inFlight # 0 => x.inFlight \in Downloads(x) /\ x.dl[x.inFlight].pc # "done"

Holding(x) ==
  /\ \A c \in Callers : c \in x.holders <=> c \in Loads /\ x.caller[c].at \in {"joined", "loaded"}
  /\ \A d \in 1..MaxDownloads :
       <<d>> \in x.holders <=> d \in Downloads(x) /\ x.dl[d].pc \in {"room", "parts", "forget"}
  /\ x.other.at = "deleting" => x.holders = {}

Checked(x) ==
  \A d \in Downloads(x) :
    /\ x.dl[d].wasm \in {"asked", "check", "ok"} => x.cached.wasm # "bad"
    /\ x.dl[d].wasm = "ok" => x.dl[d].copy = "good"
    /\ x.dl[d].wasm # "none" => x.dl[d].pc \in {"parts", "forget"}

---------------------------------------------------------------------------
LEMMA PageFields ==
  ASSUME NEW x, x \in PageType
  PROVE  /\ x.caller \in [Callers -> CallType] /\ x.dl \in Seq(DownloadType)
         /\ x.inFlight \in 0..MaxDownloads
         /\ x.cached \in [manifest : BOOLEAN, lib : {"none", "good", "bad"}, wasm : {"none", "good", "bad"}]
         /\ x.files \in BOOLEAN
         /\ x.holders \in SUBSET (Callers \cup {<<d>> : d \in 1..MaxDownloads})
         /\ x.other \in [at : {"away", "loading", "deleting", "running"}, files : BOOLEAN]
         /\ Len(x.dl) \in Nat /\ DOMAIN x.dl = Downloads(x)
         /\ \A d \in Downloads(x) : x.dl[d] \in DownloadType
BY DEF PageType, Downloads

LEMMA NewOnes == NewCaller \in CallType /\ NewDownload \in DownloadType
BY BoundsAssumption DEF NewCaller, CallType, NewDownload, DownloadType

(* Setting one download's record, and one call's.                          *)
LEMMA JobSet ==
  ASSUME NEW x, Typed(x), NEW d \in Downloads(x), NEW job \in DownloadType
  PROVE  /\ [x.dl EXCEPT ![d] = job] \in Seq(DownloadType)
         /\ Len([x.dl EXCEPT ![d] = job]) = Len(x.dl)
         /\ [x.dl EXCEPT ![d] = job][d] = job
         /\ \A e \in Downloads(x) : e # d => [x.dl EXCEPT ![d] = job][e] = x.dl[e]
BY PageFields, ExceptSeq DEF Typed, Downloads

LEMMA CallSet ==
  ASSUME NEW x, Typed(x), NEW c \in Callers, NEW call \in CallType
  PROVE  /\ [x.caller EXCEPT ![c] = call] \in [Callers -> CallType]
         /\ [x.caller EXCEPT ![c] = call][c] = call
         /\ \A e \in Callers : e # c => [x.caller EXCEPT ![c] = call][e] = x.caller[e]
BY PageFields DEF Typed

---------------------------------------------------------------------------
(* What the helpers do. *)

LEMMA EndCallDoes ==
  ASSUME NEW x, Typed(x), NEW c \in Callers, NEW why, why \in {"ok", "network", "incompatible", "aborted"},
         NEW y, y = EndCall(x, c, why)
  PROVE  /\ Typed(y)
         /\ y.dl = x.dl /\ y.inFlight = x.inFlight /\ y.cached = x.cached /\ y.files = x.files /\ y.other = x.other
         /\ y.holders = x.holders \ {c}
         /\ y.caller[c].at = "ended" /\ y.caller[c].on = 0 /\ y.caller[c].left = x.caller[c].left
         /\ y.caller[c].files = "none" /\ y.caller[c].lib = "none" /\ y.caller[c].outcome = why
         /\ \A e \in Callers : e # c => y.caller[e] = x.caller[e]
<1> DEFINE ended == [NewCaller EXCEPT !.at = "ended", !.outcome = why, !.left = x.caller[c].left]
<1>1. x.caller[c].left \in BOOLEAN
  BY PageFields DEF Typed, CallType
<1>2. /\ ended.at = "ended" /\ ended.on = 0 /\ ended.left = x.caller[c].left
      /\ ended.files = "none" /\ ended.lib = "none" /\ ended.outcome = why
  BY DEF NewCaller
<1>3. ended \in CallType
  BY <1>1, NewOnes, BoundsAssumption DEF CallType
<1>4. y = [x EXCEPT !.caller = [x.caller EXCEPT ![c] = ended], !.holders = x.holders \ {c}]
  BY DEF EndCall
<1> HIDE DEF ended
<1>5. /\ [x.caller EXCEPT ![c] = ended] \in [Callers -> CallType]
      /\ [x.caller EXCEPT ![c] = ended][c] = ended
      /\ \A e \in Callers : e # c => [x.caller EXCEPT ![c] = ended][e] = x.caller[e]
  BY <1>3, CallSet
<1>6. /\ y \in PageType
      /\ y.caller = [x.caller EXCEPT ![c] = ended] /\ y.holders = x.holders \ {c}
      /\ y.dl = x.dl /\ y.inFlight = x.inFlight /\ y.cached = x.cached /\ y.files = x.files /\ y.other = x.other
  BY <1>4, <1>5 DEF Typed, PageType
<1>7. Typed(y)
  BY <1>6 DEF Typed
<1> QED BY <1>2, <1>5, <1>6, <1>7

LEMMA LingerIfAloneDoes ==
  ASSUME NEW x, Typed(x), NEW d \in Downloads(x), NEW y, y = LingerIfAlone(x, d)
  PROVE  /\ Typed(y)
         /\ y.caller = x.caller /\ y.holders = x.holders /\ Len(y.dl) = Len(x.dl)
         /\ y.inFlight = x.inFlight /\ y.cached = x.cached /\ y.files = x.files /\ y.other = x.other
         /\ \A e \in Downloads(x) : e # d => y.dl[e] = x.dl[e]
         /\ y.dl[d].pc = x.dl[d].pc /\ y.dl[d].joiners = x.dl[d].joiners /\ y.dl[d].stopping = x.dl[d].stopping
         /\ y.dl[d].outcome = x.dl[d].outcome /\ y.dl[d].wasm = x.dl[d].wasm /\ y.dl[d].copy = x.dl[d].copy
         /\ IF x.dl[d].joiners = {} /\ x.dl[d].outcome = "none" THEN y.dl[d].linger ELSE y.dl[d].linger = x.dl[d].linger
<1>1. CASE x.dl[d].joiners # {} \/ x.dl[d].outcome # "none"
  BY <1>1 DEF LingerIfAlone
<1>2. CASE x.dl[d].joiners = {} /\ x.dl[d].outcome = "none"
  <2> DEFINE job == [x.dl[d] EXCEPT !.linger = TRUE]
  <2>1. x.dl[d] \in DownloadType
    BY PageFields DEF Typed
  <2>2. /\ job \in DownloadType /\ job.pc = x.dl[d].pc /\ job.joiners = x.dl[d].joiners /\ job.stopping = x.dl[d].stopping
        /\ job.outcome = x.dl[d].outcome /\ job.wasm = x.dl[d].wasm /\ job.copy = x.dl[d].copy /\ job.linger
    BY <2>1 DEF DownloadType
  <2>3. y = [x EXCEPT !.dl = [x.dl EXCEPT ![d] = job]]
    BY <1>2 DEF LingerIfAlone
  <2> HIDE DEF job
  <2>4. /\ [x.dl EXCEPT ![d] = job] \in Seq(DownloadType) /\ Len([x.dl EXCEPT ![d] = job]) = Len(x.dl)
        /\ [x.dl EXCEPT ![d] = job][d] = job
        /\ \A e \in Downloads(x) : e # d => [x.dl EXCEPT ![d] = job][e] = x.dl[e]
    BY <2>2, JobSet
  <2>5. /\ y \in PageType /\ y.dl = [x.dl EXCEPT ![d] = job]
        /\ y.caller = x.caller /\ y.holders = x.holders
        /\ y.inFlight = x.inFlight /\ y.cached = x.cached /\ y.files = x.files /\ y.other = x.other
    BY <2>3, <2>4 DEF Typed, PageType
  <2>6. Typed(y)
    BY <2>4, <2>5 DEF Typed
  <2> QED BY <1>2, <2>2, <2>4, <2>5, <2>6
<1> QED BY <1>1, <1>2

LEMMA StartedDoes ==
  ASSUME NEW x, Typed(x), Len(x.dl) < MaxDownloads, NEW y, y = Started(x)
  PROVE  /\ Typed(y)
         /\ y.caller = x.caller /\ y.holders = x.holders /\ y.inFlight = Len(x.dl) + 1
         /\ y.cached = x.cached /\ y.files = x.files /\ y.other = x.other
         /\ Len(y.dl) = Len(x.dl) + 1
         /\ \A e \in Downloads(x) : y.dl[e] = x.dl[e]
         /\ y.dl[Len(x.dl) + 1] = NewDownload
<1>1. x.dl \in Seq(DownloadType) /\ Len(x.dl) \in Nat
  BY PageFields DEF Typed
<1>2. /\ Append(x.dl, NewDownload) \in Seq(DownloadType)
      /\ Len(Append(x.dl, NewDownload)) = Len(x.dl) + 1
      /\ Append(x.dl, NewDownload)[Len(x.dl) + 1] = NewDownload
      /\ \A e \in Downloads(x) : Append(x.dl, NewDownload)[e] = x.dl[e]
  BY <1>1, NewOnes, AppendProperties DEF Downloads
<1>3. Len(x.dl) + 1 \in 0..MaxDownloads
  BY <1>1, BoundsAssumption
<1>4. /\ y \in PageType /\ y.dl = Append(x.dl, NewDownload) /\ y.inFlight = Len(x.dl) + 1
      /\ y.caller = x.caller /\ y.holders = x.holders
      /\ y.cached = x.cached /\ y.files = x.files /\ y.other = x.other
  BY <1>2, <1>3 DEF Started, Typed, PageType
<1>5. Typed(y)
  BY <1>1, <1>2, <1>4, BoundsAssumption DEF Typed
<1> QED BY <1>2, <1>4, <1>5

LEMMA JoinerOfDoes ==
  ASSUME NEW x, Typed(x), NEW c \in Callers, NEW d \in Downloads(x), NEW y, y = JoinerOf(x, c, d)
  PROVE  /\ Typed(y)
         /\ y.holders = x.holders /\ Len(y.dl) = Len(x.dl) /\ y.inFlight = x.inFlight
         /\ y.cached = x.cached /\ y.files = x.files /\ y.other = x.other
         /\ \A e \in Downloads(x) : e # d => y.dl[e] = x.dl[e]
         /\ y.dl[d].pc = x.dl[d].pc /\ y.dl[d].joiners = x.dl[d].joiners \cup {c} /\ ~y.dl[d].linger
         /\ y.dl[d].stopping = x.dl[d].stopping
         /\ y.dl[d].outcome = x.dl[d].outcome /\ y.dl[d].wasm = x.dl[d].wasm /\ y.dl[d].copy = x.dl[d].copy
         /\ \A e \in Callers : e # c => y.caller[e] = x.caller[e]
         /\ y.caller[c].at = "joined" /\ y.caller[c].on = d /\ y.caller[c].files = "pending"
         /\ y.caller[c].outcome = x.caller[c].outcome
<1> DEFINE job == [x.dl[d] EXCEPT !.joiners = @ \cup {c}, !.linger = FALSE]
           lib == IF c \in Loads THEN "pending" ELSE "ok"
           call == [x.caller[c] EXCEPT !.at = "joined", !.on = d, !.files = "pending", !.lib = lib]
<1>1. x.dl[d] \in DownloadType /\ x.caller[c] \in CallType /\ d \in 0..MaxDownloads
  BY PageFields, BoundsAssumption DEF Typed, Downloads
<1>2. /\ job \in DownloadType /\ job.pc = x.dl[d].pc /\ job.joiners = x.dl[d].joiners \cup {c} /\ ~job.linger
      /\ job.stopping = x.dl[d].stopping /\ job.outcome = x.dl[d].outcome /\ job.wasm = x.dl[d].wasm /\ job.copy = x.dl[d].copy
  BY <1>1 DEF DownloadType
<1>3. lib \in {"none", "pending", "ok", "failed"}
  OBVIOUS
<1> HIDE DEF lib
<1>4. /\ call \in CallType /\ call.at = "joined" /\ call.on = d /\ call.files = "pending"
      /\ call.outcome = x.caller[c].outcome
  BY <1>1, <1>3 DEF CallType
<1>5. [x EXCEPT !.dl = [x.dl EXCEPT ![d] = job]].caller = x.caller
  BY DEF Typed, PageType
<1>6. y = [x EXCEPT !.dl = [x.dl EXCEPT ![d] = job], !.caller = [x.caller EXCEPT ![c] = call]]
  BY <1>5, Zenon DEF JoinerOf, lib
<1> HIDE DEF job, call
<1>7. /\ [x.dl EXCEPT ![d] = job] \in Seq(DownloadType) /\ Len([x.dl EXCEPT ![d] = job]) = Len(x.dl)
      /\ [x.dl EXCEPT ![d] = job][d] = job
      /\ \A e \in Downloads(x) : e # d => [x.dl EXCEPT ![d] = job][e] = x.dl[e]
  BY <1>2, JobSet
<1>8. /\ [x.caller EXCEPT ![c] = call] \in [Callers -> CallType]
      /\ [x.caller EXCEPT ![c] = call][c] = call
      /\ \A e \in Callers : e # c => [x.caller EXCEPT ![c] = call][e] = x.caller[e]
  BY <1>4, CallSet
<1>9. /\ y \in PageType /\ y.dl = [x.dl EXCEPT ![d] = job] /\ y.caller = [x.caller EXCEPT ![c] = call]
      /\ y.holders = x.holders /\ y.inFlight = x.inFlight
      /\ y.cached = x.cached /\ y.files = x.files /\ y.other = x.other
  BY <1>6, <1>7, <1>8 DEF Typed, PageType
<1>10. Typed(y)
  BY <1>7, <1>9 DEF Typed
<1> QED BY <1>2, <1>4, <1>7, <1>8, <1>9, <1>10

LEMMA LeaveDoes ==
  ASSUME NEW x, Typed(x), NEW c \in Callers, NEW d \in Downloads(x), c \in x.dl[d].joiners,
         NEW y, y = Leave(x, c, d)
  PROVE  /\ Typed(y)
         /\ y.holders = x.holders \ {c} /\ Len(y.dl) = Len(x.dl) /\ y.inFlight = x.inFlight
         /\ y.cached = x.cached /\ y.files = x.files /\ y.other = x.other
         /\ \A e \in Downloads(x) : e # d => y.dl[e] = x.dl[e]
         /\ y.dl[d].pc = x.dl[d].pc /\ y.dl[d].joiners = x.dl[d].joiners \ {c} /\ y.dl[d].stopping = x.dl[d].stopping
         /\ y.dl[d].outcome = x.dl[d].outcome /\ y.dl[d].wasm = x.dl[d].wasm /\ y.dl[d].copy = x.dl[d].copy
         /\ IF y.dl[d].joiners = {} /\ x.dl[d].outcome = "none" THEN y.dl[d].linger ELSE y.dl[d].linger = x.dl[d].linger
         /\ y.caller[c].at = "ended" /\ y.caller[c].on = 0 /\ y.caller[c].left = x.caller[c].left
         /\ y.caller[c].files = "none" /\ y.caller[c].lib = "none" /\ y.caller[c].outcome = "aborted"
         /\ \A e \in Callers : e # c => y.caller[e] = x.caller[e]
<1> DEFINE job == [x.dl[d] EXCEPT !.joiners = @ \ {c}]
           less == [x EXCEPT !.dl[d] = job]
           ended == EndCall(less, c, "aborted")
<1>0. d # 0 /\ y = LingerIfAlone(ended, d)
  <2>1. d # 0
    BY DEF Downloads
  <2> QED BY <2>1 DEF Leave
<1>1. x.dl[d] \in DownloadType
  BY PageFields DEF Typed
<1>2. /\ job \in DownloadType /\ job.pc = x.dl[d].pc /\ job.joiners = x.dl[d].joiners \ {c}
      /\ job.stopping = x.dl[d].stopping /\ job.linger = x.dl[d].linger
      /\ job.outcome = x.dl[d].outcome /\ job.wasm = x.dl[d].wasm /\ job.copy = x.dl[d].copy
  BY <1>1 DEF DownloadType
<1> HIDE DEF job
<1>3. /\ [x.dl EXCEPT ![d] = job] \in Seq(DownloadType) /\ Len([x.dl EXCEPT ![d] = job]) = Len(x.dl)
      /\ [x.dl EXCEPT ![d] = job][d] = job
      /\ \A e \in Downloads(x) : e # d => [x.dl EXCEPT ![d] = job][e] = x.dl[e]
  BY <1>2, JobSet
<1>4. /\ less \in PageType /\ less.dl = [x.dl EXCEPT ![d] = job]
      /\ less.caller = x.caller /\ less.holders = x.holders
      /\ less.inFlight = x.inFlight /\ less.cached = x.cached /\ less.files = x.files /\ less.other = x.other
  BY <1>3 DEF Typed, PageType
<1>5. Typed(less)
  BY <1>3, <1>4 DEF Typed
<1> HIDE DEF less
<1>6. /\ Typed(ended)
      /\ ended.dl = less.dl /\ ended.inFlight = less.inFlight /\ ended.cached = less.cached /\ ended.files = less.files
      /\ ended.other = less.other
      /\ ended.holders = less.holders \ {c}
      /\ ended.caller[c].at = "ended" /\ ended.caller[c].on = 0 /\ ended.caller[c].left = less.caller[c].left
      /\ ended.caller[c].files = "none" /\ ended.caller[c].lib = "none" /\ ended.caller[c].outcome = "aborted"
      /\ \A e \in Callers : e # c => ended.caller[e] = less.caller[e]
  <2>1. ended = EndCall(less, c, "aborted") /\ "aborted" \in {"ok", "network", "incompatible", "aborted"}
    OBVIOUS
  <2> HIDE DEF ended
  <2> QED BY <1>5, <2>1, EndCallDoes
<1> HIDE DEF ended
<1>7. Downloads(ended) = Downloads(x) /\ d \in Downloads(ended)
  BY <1>3, <1>4, <1>6 DEF Downloads
<1>8. /\ Typed(y)
      /\ y.caller = ended.caller /\ y.holders = ended.holders /\ Len(y.dl) = Len(ended.dl)
      /\ y.inFlight = ended.inFlight /\ y.cached = ended.cached /\ y.files = ended.files /\ y.other = ended.other
      /\ \A e \in Downloads(ended) : e # d => y.dl[e] = ended.dl[e]
      /\ y.dl[d].pc = ended.dl[d].pc /\ y.dl[d].joiners = ended.dl[d].joiners /\ y.dl[d].stopping = ended.dl[d].stopping
      /\ y.dl[d].outcome = ended.dl[d].outcome /\ y.dl[d].wasm = ended.dl[d].wasm /\ y.dl[d].copy = ended.dl[d].copy
      /\ IF ended.dl[d].joiners = {} /\ ended.dl[d].outcome = "none"
         THEN y.dl[d].linger ELSE y.dl[d].linger = ended.dl[d].linger
  BY <1>0, <1>6, <1>7, LingerIfAloneDoes
<1> QED BY <1>2, <1>3, <1>4, <1>6, <1>7, <1>8

LEMMA LoadedDoes ==
  ASSUME NEW x, Typed(x), NEW c \in Callers, NEW y, y = Loaded(x, c)
  PROVE  /\ Typed(y)
         /\ y.dl = x.dl /\ y.holders = x.holders /\ y.inFlight = x.inFlight
         /\ y.cached = x.cached /\ y.files = x.files /\ y.other = x.other
         /\ \A e \in Callers : e # c => y.caller[e] = x.caller[e]
         /\ IF x.caller[c].files = "ok" /\ x.caller[c].lib = "ok"
            THEN /\ y.caller[c].at = IF c \in Loads THEN "loaded" ELSE "ended"
                 /\ y.caller[c].on = 0 /\ y.caller[c].files = "none" /\ y.caller[c].outcome = "ok"
            ELSE y.caller[c] = x.caller[c]
<1>1. CASE ~(x.caller[c].files = "ok" /\ x.caller[c].lib = "ok")
  BY <1>1 DEF Loaded
<1>2. CASE x.caller[c].files = "ok" /\ x.caller[c].lib = "ok"
  <2> DEFINE at == IF c \in Loads THEN "loaded" ELSE "ended"
             call == [NewCaller EXCEPT !.at = at, !.outcome = "ok"]
  <2>1. at \in {"loaded", "ended"}
    OBVIOUS
  <2> HIDE DEF at
  <2>2. call.at = at /\ call.on = 0 /\ call.files = "none" /\ call.outcome = "ok"
    BY DEF NewCaller
  <2>3. call \in CallType
    BY <2>1, NewOnes DEF CallType
  <2>4. y = [x EXCEPT !.caller[c] = call]
    BY <1>2 DEF Loaded, at
  <2> HIDE DEF call
  <2>5. /\ [x.caller EXCEPT ![c] = call] \in [Callers -> CallType]
        /\ [x.caller EXCEPT ![c] = call][c] = call
        /\ \A e \in Callers : e # c => [x.caller EXCEPT ![c] = call][e] = x.caller[e]
    BY <2>3, CallSet
  <2>6. /\ y \in PageType /\ y.caller = [x.caller EXCEPT ![c] = call]
        /\ y.dl = x.dl /\ y.holders = x.holders /\ y.inFlight = x.inFlight
        /\ y.cached = x.cached /\ y.files = x.files /\ y.other = x.other
    BY <2>4, <2>5 DEF Typed, PageType
  <2>7. Typed(y)
    BY <2>6 DEF Typed
  <2> QED BY <1>2, <2>2, <2>5, <2>6, <2>7 DEF at
<1> QED BY <1>1, <1>2

LEMMA HeardIs ==
  ASSUME NEW x, Typed(x), NEW c \in Callers, NEW why, why \in {"ok", "network", "aborted"},
         NEW call, call = Heard(x, c, why)
  PROVE  /\ call \in CallType
         /\ IF why = "ok"
            THEN IF x.caller[c].lib = "ok"
                 THEN /\ call.at = IF c \in Loads THEN "loaded" ELSE "ended"
                      /\ call.on = 0 /\ call.files = "none" /\ call.outcome = "ok"
                 ELSE /\ call.at = x.caller[c].at /\ call.on = x.caller[c].on /\ call.files = "ok"
                      /\ call.left = x.caller[c].left /\ call.lib = x.caller[c].lib /\ call.outcome = x.caller[c].outcome
            ELSE /\ call.at = "ended" /\ call.on = 0 /\ call.left = x.caller[c].left
                 /\ call.files = "none" /\ call.lib = "none" /\ call.outcome = why
<1>1. CASE why # "ok"
  <2> DEFINE y == EndCall(x, c, why)
  <2>1. call = y.caller[c]
    BY <1>1 DEF Heard
  <2>2. /\ Typed(y)
        /\ y.caller[c].at = "ended" /\ y.caller[c].on = 0 /\ y.caller[c].left = x.caller[c].left
        /\ y.caller[c].files = "none" /\ y.caller[c].lib = "none" /\ y.caller[c].outcome = why
    <3>1. y = EndCall(x, c, why) /\ why \in {"ok", "network", "incompatible", "aborted"}
      OBVIOUS
    <3> HIDE DEF y
    <3> QED BY <3>1, EndCallDoes
  <2> HIDE DEF y
  <2>3. y.caller[c] \in CallType
    BY <2>2, PageFields DEF Typed
  <2> QED BY <1>1, <2>1, <2>2, <2>3
<1>2. CASE why = "ok"
  <2> DEFINE told == [x.caller[c] EXCEPT !.files = "ok"]
             x2 == [x EXCEPT !.caller[c] = told]
             y == Loaded(x2, c)
  <2>1. call = y.caller[c]
    BY <1>2 DEF Heard
  <2>2. x.caller[c] \in CallType
    BY PageFields DEF Typed
  <2>3. /\ told \in CallType /\ told.files = "ok" /\ told.at = x.caller[c].at /\ told.on = x.caller[c].on
        /\ told.left = x.caller[c].left /\ told.lib = x.caller[c].lib /\ told.outcome = x.caller[c].outcome
    BY <2>2 DEF CallType
  <2> HIDE DEF told
  <2>4. /\ [x.caller EXCEPT ![c] = told] \in [Callers -> CallType]
        /\ [x.caller EXCEPT ![c] = told][c] = told
    BY <2>3, CallSet
  <2>5. x2 \in PageType /\ x2.caller = [x.caller EXCEPT ![c] = told] /\ x2.dl = x.dl
    BY <2>4 DEF Typed, PageType
  <2>6. Typed(x2) /\ x2.caller[c] = told
    BY <2>4, <2>5 DEF Typed
  <2> HIDE DEF x2
  <2>7. /\ Typed(y)
        /\ IF x2.caller[c].files = "ok" /\ x2.caller[c].lib = "ok"
            THEN /\ y.caller[c].at = IF c \in Loads THEN "loaded" ELSE "ended"
                 /\ y.caller[c].on = 0 /\ y.caller[c].files = "none" /\ y.caller[c].outcome = "ok"
            ELSE y.caller[c] = x2.caller[c]
    BY <2>6, LoadedDoes
  <2> HIDE DEF y
  <2>8. y.caller[c] \in CallType
    BY <2>7, PageFields DEF Typed
  <2> QED BY <1>2, <2>1, <2>3, <2>6, <2>7, <2>8
<1> QED BY <1>1, <1>2

LEMMA SettleDoes ==
  ASSUME NEW x, Typed(x), NEW d \in Downloads(x), NEW why, why \in {"ok", "network", "aborted"},
         NEW y, y = SettleDownload(x, d, why)
  PROVE  /\ Typed(y)
         /\ y.inFlight = (IF x.inFlight = d THEN 0 ELSE x.inFlight)
         /\ y.cached = x.cached /\ y.files = x.files /\ y.other = x.other
         /\ y.holders = x.holders \ ({<<d>>} \cup (IF why = "ok" THEN {} ELSE x.dl[d].joiners))
         /\ Len(y.dl) = Len(x.dl)
         /\ \A e \in Downloads(x) : e # d => y.dl[e] = x.dl[e]
         /\ y.dl[d].pc = "done" /\ y.dl[d].outcome = why /\ y.dl[d].joiners = {} /\ ~y.dl[d].stopping
         /\ ~y.dl[d].linger /\ y.dl[d].wasm = "none"
         /\ \A c \in Callers : c \notin x.dl[d].joiners => y.caller[c] = x.caller[c]
         /\ \A c \in Callers : c \in x.dl[d].joiners =>
              IF why = "ok"
              THEN IF x.caller[c].lib = "ok"
                   THEN /\ y.caller[c].at = IF c \in Loads THEN "loaded" ELSE "ended"
                        /\ y.caller[c].on = 0 /\ y.caller[c].files = "none" /\ y.caller[c].outcome = "ok"
                   ELSE /\ y.caller[c].at = x.caller[c].at /\ y.caller[c].on = x.caller[c].on
                        /\ y.caller[c].files = "ok" /\ y.caller[c].left = x.caller[c].left
                        /\ y.caller[c].lib = x.caller[c].lib /\ y.caller[c].outcome = x.caller[c].outcome
              ELSE /\ y.caller[c].at = "ended" /\ y.caller[c].on = 0 /\ y.caller[c].left = x.caller[c].left
                   /\ y.caller[c].files = "none" /\ y.caller[c].lib = "none" /\ y.caller[c].outcome = why
<1> DEFINE heard == [c \in Callers |-> IF c \in x.dl[d].joiners THEN Heard(x, c, why) ELSE x.caller[c]]
           freed == {<<d>>} \cup (IF why = "ok" THEN {} ELSE x.dl[d].joiners)
           job == [NewDownload EXCEPT !.pc = "done", !.outcome = why]
           next == IF x.inFlight = d THEN 0 ELSE x.inFlight
<1>1. x.dl[d] \in DownloadType /\ x.caller \in [Callers -> CallType] /\ x.inFlight \in 0..MaxDownloads
  BY PageFields DEF Typed
<1>2. /\ job \in DownloadType /\ job.pc = "done" /\ job.outcome = why /\ job.joiners = {} /\ ~job.stopping
      /\ ~job.linger /\ job.wasm = "none"
  BY NewOnes DEF NewDownload, DownloadType
<1>3. \A c \in Callers : Heard(x, c, why) \in CallType
  BY HeardIs
<1>4. heard \in [Callers -> CallType]
  BY <1>1, <1>3
<1>5. next \in 0..MaxDownloads /\ x.holders \ freed \in SUBSET (Callers \cup {<<e>> : e \in 1..MaxDownloads})
  BY <1>1, PageFields, BoundsAssumption DEF Typed
<1>6. /\ [x.dl EXCEPT ![d] = job] \in Seq(DownloadType) /\ Len([x.dl EXCEPT ![d] = job]) = Len(x.dl)
      /\ [x.dl EXCEPT ![d] = job][d] = job
      /\ \A e \in Downloads(x) : e # d => [x.dl EXCEPT ![d] = job][e] = x.dl[e]
  BY <1>2, JobSet
<1> HIDE DEF heard, freed, job, next
<1>7. y = [x EXCEPT !.dl[d] = job, !.caller = heard, !.holders = x.holders \ freed, !.inFlight = next]
  <2>1. y = [x EXCEPT !.dl[d] = job, !.caller = heard, !.holders = @ \ freed, !.inFlight = next]
    BY DEF SettleDownload, heard, freed, job, next
  <2>2. [x EXCEPT !.dl[d] = job, !.caller = heard].holders = x.holders
    BY DEF Typed, PageType
  <2> QED BY <2>1, <2>2, Zenon
<1>8. /\ y \in PageType /\ y.dl = [x.dl EXCEPT ![d] = job] /\ y.caller = heard
      /\ y.holders = x.holders \ freed /\ y.inFlight = next
      /\ y.cached = x.cached /\ y.files = x.files /\ y.other = x.other
  BY <1>4, <1>5, <1>6, <1>7 DEF Typed, PageType
<1>9. Typed(y)
  BY <1>6, <1>8 DEF Typed
<1>10. \A c \in Callers : y.caller[c] = IF c \in x.dl[d].joiners THEN Heard(x, c, why) ELSE x.caller[c]
  BY <1>8 DEF heard
<1>11. \A c \in Callers : LET call == Heard(x, c, why) IN
         IF why = "ok"
         THEN IF x.caller[c].lib = "ok"
              THEN /\ call.at = IF c \in Loads THEN "loaded" ELSE "ended"
                   /\ call.on = 0 /\ call.files = "none" /\ call.outcome = "ok"
              ELSE /\ call.at = x.caller[c].at /\ call.on = x.caller[c].on /\ call.files = "ok"
                   /\ call.left = x.caller[c].left /\ call.lib = x.caller[c].lib /\ call.outcome = x.caller[c].outcome
         ELSE /\ call.at = "ended" /\ call.on = 0 /\ call.left = x.caller[c].left
              /\ call.files = "none" /\ call.lib = "none" /\ call.outcome = why
  BY HeardIs
<1>12. /\ Len(y.dl) = Len(x.dl) /\ y.dl[d] = job
       /\ \A e \in Downloads(x) : e # d => y.dl[e] = x.dl[e]
  BY <1>6, <1>8
<1>13. \A c \in Callers : c \in x.dl[d].joiners =>
              IF why = "ok"
              THEN IF x.caller[c].lib = "ok"
                   THEN /\ y.caller[c].at = IF c \in Loads THEN "loaded" ELSE "ended"
                        /\ y.caller[c].on = 0 /\ y.caller[c].files = "none" /\ y.caller[c].outcome = "ok"
                   ELSE /\ y.caller[c].at = x.caller[c].at /\ y.caller[c].on = x.caller[c].on
                        /\ y.caller[c].files = "ok" /\ y.caller[c].left = x.caller[c].left
                        /\ y.caller[c].lib = x.caller[c].lib /\ y.caller[c].outcome = x.caller[c].outcome
              ELSE /\ y.caller[c].at = "ended" /\ y.caller[c].on = 0 /\ y.caller[c].left = x.caller[c].left
                   /\ y.caller[c].files = "none" /\ y.caller[c].lib = "none" /\ y.caller[c].outcome = why
  BY <1>10, <1>11
<1>14. \A c \in Callers : c \notin x.dl[d].joiners => y.caller[c] = x.caller[c]
  BY <1>10
<1> QED BY <1>2, <1>8, <1>9, <1>12, <1>13, <1>14 DEF next, freed

LEMMA PartsDoneDoes ==
  ASSUME NEW x, Typed(x), NEW d \in Downloads(x), NEW y, y = PartsDone(x, d)
  PROVE  /\ Typed(y)
         /\ y.caller = x.caller /\ y.holders = x.holders /\ Len(y.dl) = Len(x.dl)
         /\ y.inFlight = x.inFlight /\ y.cached = x.cached /\ y.files = x.files /\ y.other = x.other
         /\ \A e \in Downloads(x) : e # d => y.dl[e] = x.dl[e]
         /\ y.dl[d].pc \in {x.dl[d].pc, "forget"} /\ y.dl[d].joiners = x.dl[d].joiners
         /\ y.dl[d].stopping = x.dl[d].stopping /\ y.dl[d].linger = x.dl[d].linger
         /\ y.dl[d].outcome = x.dl[d].outcome /\ y.dl[d].wasm = x.dl[d].wasm /\ y.dl[d].copy = x.dl[d].copy
<1> DEFINE ready == x.dl[d].wasm = "ok" /\ x.dl[d].state = "ok" /\ x.dl[d].lib = "ok"
<1>1. CASE ~ready
  BY <1>1 DEF PartsDone
<1>2. CASE ready
  <2> DEFINE job == [x.dl[d] EXCEPT !.pc = "forget"]
  <2>1. x.dl[d] \in DownloadType
    BY PageFields DEF Typed
  <2>2. /\ job \in DownloadType /\ job.pc = "forget" /\ job.joiners = x.dl[d].joiners /\ job.stopping = x.dl[d].stopping
        /\ job.outcome = x.dl[d].outcome /\ job.wasm = x.dl[d].wasm /\ job.copy = x.dl[d].copy
        /\ job.linger = x.dl[d].linger
    BY <2>1 DEF DownloadType
  <2>3. y = [x EXCEPT !.dl = [x.dl EXCEPT ![d] = job]]
    BY <1>2 DEF PartsDone
  <2> HIDE DEF job
  <2>4. /\ [x.dl EXCEPT ![d] = job] \in Seq(DownloadType) /\ Len([x.dl EXCEPT ![d] = job]) = Len(x.dl)
        /\ [x.dl EXCEPT ![d] = job][d] = job
        /\ \A e \in Downloads(x) : e # d => [x.dl EXCEPT ![d] = job][e] = x.dl[e]
    BY <2>2, JobSet
  <2>5. /\ y \in PageType /\ y.dl = [x.dl EXCEPT ![d] = job]
        /\ y.caller = x.caller /\ y.holders = x.holders
        /\ y.inFlight = x.inFlight /\ y.cached = x.cached /\ y.files = x.files /\ y.other = x.other
    BY <2>3, <2>4 DEF Typed, PageType
  <2>6. Typed(y)
    BY <2>4, <2>5 DEF Typed
  <2> QED BY <2>2, <2>4, <2>5, <2>6
<1> QED BY <1>1, <1>2

---------------------------------------------------------------------------
(* What keeps the invariant. *)

Waiting(x) == Joined(x) /\ Running(x) /\ Holding(x)

AtWork == {"room", "parts", "forget"}

(* Nobody waits for anything else than before.                             *)
SameWaiting(x, y) ==
  /\ y.caller = x.caller /\ y.holders = x.holders /\ y.inFlight = x.inFlight
  /\ y.other.at = x.other.at /\ Len(y.dl) = Len(x.dl)
  /\ \A e \in Downloads(x) :
       /\ y.dl[e].joiners = x.dl[e].joiners /\ y.dl[e].stopping = x.dl[e].stopping
       /\ y.dl[e].linger = x.dl[e].linger /\ y.dl[e].outcome = x.dl[e].outcome
       /\ y.dl[e].pc = x.dl[e].pc \/ (x.dl[e].pc \in AtWork /\ y.dl[e].pc \in AtWork)

LEMMA WaitingKept ==
  ASSUME NEW x, Waiting(x), NEW y, SameWaiting(x, y)
  PROVE  Waiting(y)
<1>1. Downloads(y) = Downloads(x)
  BY DEF SameWaiting, Downloads
<1>2. Joined(y)
  BY <1>1 DEF Waiting, Joined, SameWaiting
<1>3. Running(y)
  BY <1>1 DEF Waiting, Running, SameWaiting, AtWork
<1>4. Holding(y)
  BY <1>1 DEF Waiting, Holding, SameWaiting, AtWork
<1> QED BY <1>2, <1>3, <1>4 DEF Waiting

(* However a download ends, those who waited for it are heard.             *)
LEMMA SettleKeeps ==
  ASSUME NEW x, Typed(x), Waiting(x), Checked(x), NEW d \in Downloads(x),
         NEW why, why \in {"ok", "network", "aborted"},
         why = "aborted" => x.dl[d].joiners = {},
         NEW y, y = SettleDownload(x, d, why)
  PROVE  /\ Typed(y) /\ Waiting(y) /\ Checked(y)
         /\ y.cached = x.cached /\ y.files = x.files /\ y.other = x.other
<1>1. /\ Typed(y)
      /\ y.inFlight = (IF x.inFlight = d THEN 0 ELSE x.inFlight)
      /\ y.cached = x.cached /\ y.files = x.files /\ y.other = x.other
      /\ y.holders = x.holders \ ({<<d>>} \cup (IF why = "ok" THEN {} ELSE x.dl[d].joiners))
      /\ Len(y.dl) = Len(x.dl)
  BY SettleDoes
<1>2. /\ \A e \in Downloads(x) : e # d => y.dl[e] = x.dl[e]
      /\ y.dl[d].pc = "done" /\ y.dl[d].outcome = why /\ y.dl[d].joiners = {} /\ ~y.dl[d].stopping
      /\ ~y.dl[d].linger /\ y.dl[d].wasm = "none"
  BY SettleDoes
<1>3. \A c \in Callers : c \notin x.dl[d].joiners => y.caller[c] = x.caller[c]
  BY SettleDoes
<1>4. \A c \in Callers : c \in x.dl[d].joiners =>
              IF why = "ok"
              THEN IF x.caller[c].lib = "ok"
                   THEN /\ y.caller[c].at = IF c \in Loads THEN "loaded" ELSE "ended"
                        /\ y.caller[c].on = 0 /\ y.caller[c].files = "none" /\ y.caller[c].outcome = "ok"
                   ELSE /\ y.caller[c].at = x.caller[c].at /\ y.caller[c].on = x.caller[c].on
                        /\ y.caller[c].files = "ok" /\ y.caller[c].left = x.caller[c].left
                        /\ y.caller[c].lib = x.caller[c].lib /\ y.caller[c].outcome = x.caller[c].outcome
              ELSE /\ y.caller[c].at = "ended" /\ y.caller[c].on = 0 /\ y.caller[c].left = x.caller[c].left
                   /\ y.caller[c].files = "none" /\ y.caller[c].lib = "none" /\ y.caller[c].outcome = why
  BY SettleDoes
<1>5. Downloads(y) = Downloads(x) /\ d # 0 /\ d \in 1..MaxDownloads
  BY <1>1, PageFields, BoundsAssumption DEF Downloads, Typed
<1>6. \A c \in Callers : c \in x.dl[d].joiners <=> x.caller[c].on = d /\ x.caller[c].files = "pending"
  BY DEF Waiting, Joined
<1>7. \A c \in Callers : x.caller[c].on = d => x.caller[c].at = "joined"
  BY <1>5 DEF Waiting, Joined
<1>8. Joined(y)
  <2>1. ASSUME NEW c \in Callers
        PROVE  /\ IF y.caller[c].at = "joined"
                  THEN y.caller[c].on \in Downloads(y) /\ y.caller[c].files # "none"
                  ELSE y.caller[c].on = 0 /\ y.caller[c].files = "none"
               /\ y.caller[c].outcome = "aborted" =>
                    y.caller[c].at = "ended" /\ (y.caller[c].left \/ y.caller[c].lib = "failed")
    <3>1. CASE c \notin x.dl[d].joiners
      BY <3>1, <1>3, <1>5 DEF Waiting, Joined
    <3>2. CASE c \in x.dl[d].joiners
      BY <3>2, <1>4, <1>5, <1>6, <1>7 DEF Waiting, Joined
    <3> QED BY <3>1, <3>2
  <2>2. ASSUME NEW e \in Downloads(y), NEW c \in Callers
        PROVE  c \in y.dl[e].joiners <=> y.caller[c].on = e /\ y.caller[c].files = "pending"
    <3>1. c \in x.dl[e].joiners <=> x.caller[c].on = e /\ x.caller[c].files = "pending"
      BY <1>5 DEF Waiting, Joined
    <3>2. CASE c \notin x.dl[d].joiners
      BY <3>1, <3>2, <1>2, <1>3, <1>5, <1>6
    <3>3. CASE c \in x.dl[d].joiners
      <4>1. y.caller[c].files # "pending"
        BY <3>3, <1>4
      <4>2. c \notin y.dl[e].joiners
        BY <3>1, <3>3, <1>2, <1>5, <1>6
      <4> QED BY <4>1, <4>2
    <3> QED BY <3>2, <3>3
  <2> QED BY <2>1, <2>2 DEF Joined
<1>9. Running(y)
  <2>1. \A e \in Downloads(y) :
       /\ y.dl[e].pc = "done" <=> y.dl[e].outcome # "none"
       /\ y.dl[e].pc = "done" => y.dl[e].joiners = {} /\ ~y.dl[e].linger /\ ~y.dl[e].stopping
       /\ y.dl[e].linger \/ y.dl[e].stopping => y.dl[e].joiners = {}
       /\ y.dl[e].pc # "done" /\ y.dl[e].joiners = {} => y.dl[e].linger \/ y.dl[e].stopping
       /\ y.dl[e].pc # "done" /\ ~y.dl[e].stopping => y.inFlight = e
    BY <1>1, <1>2, <1>5 DEF Waiting, Running
  <2>2. y.inFlight # 0 => y.inFlight \in Downloads(y) /\ y.dl[y.inFlight].pc # "done"
    BY <1>1, <1>2, <1>5 DEF Waiting, Running
  <2> QED BY <2>1, <2>2 DEF Running
<1>10. Holding(y)
  <2>1. ASSUME NEW c \in Callers
        PROVE  c \in y.holders <=> c \in Loads /\ y.caller[c].at \in {"joined", "loaded"}
    <3>1. c # <<d>>
      BY <1>5, HoldersAssumption DEF Callers
    <3>2. CASE c \notin x.dl[d].joiners
      BY <3>1, <3>2, <1>1, <1>3 DEF Waiting, Holding
    <3>3. CASE c \in x.dl[d].joiners
      BY <3>1, <3>3, <1>1, <1>4, <1>6, <1>7 DEF Waiting, Holding
    <3> QED BY <3>2, <3>3
  <2>2. ASSUME NEW e \in 1..MaxDownloads
        PROVE  <<e>> \in y.holders <=> e \in Downloads(y) /\ y.dl[e].pc \in {"room", "parts", "forget"}
    <3>1. <<e>> \notin x.dl[d].joiners
      <4>1. x.dl[d].joiners \in SUBSET Callers
        BY PageFields DEF Typed, DownloadType
      <4> QED BY <4>1, HoldersAssumption DEF Callers
    <3>2. <<e>> = <<d>> <=> e = d
      OBVIOUS
    <3> QED BY <3>1, <3>2, <1>1, <1>2, <1>5 DEF Waiting, Holding
  <2>3. y.other.at = "deleting" => y.holders = {}
    BY <1>1 DEF Waiting, Holding
  <2> QED BY <2>1, <2>2, <2>3 DEF Holding
<1>11. Checked(y)
  BY <1>1, <1>2, <1>5 DEF Checked
<1> QED BY <1>1, <1>8, <1>9, <1>10, <1>11 DEF Waiting

LEMMA FailKeeps ==
  ASSUME NEW x, Typed(x), Waiting(x), Checked(x), NEW d \in Downloads(x),
         NEW why, why \in {"network", "aborted"}, why = "aborted" => x.dl[d].stopping,
         NEW y, y = FailDownload(x, d, why)
  PROVE  /\ Typed(y) /\ Waiting(y) /\ Checked(y)
         /\ y.cached = x.cached /\ y.files = x.files /\ y.other = x.other
<1> DEFINE heard == IF x.dl[d].stopping THEN "aborted" ELSE why
<1>1. heard \in {"ok", "network", "aborted"} /\ (heard = "aborted" => x.dl[d].joiners = {})
  BY DEF Waiting, Running
<1>2. y = SettleDownload(x, d, heard)
  BY DEF FailDownload
<1> HIDE DEF heard
<1> QED BY <1>1, <1>2, SettleKeeps

LEMMA PartKeeps ==
  ASSUME NEW x, Typed(x), Waiting(x), Checked(x), NEW d \in Downloads(x), NEW job, job \in DownloadType,
         job.joiners = x.dl[d].joiners, job.stopping = x.dl[d].stopping,
         job.linger = x.dl[d].linger, job.outcome = x.dl[d].outcome,
         job.pc = x.dl[d].pc \/ (x.dl[d].pc \in AtWork /\ job.pc \in AtWork),
         NEW z, z \in PageType, z.dl = [x.dl EXCEPT ![d] = job],
         z.caller = x.caller, z.holders = x.holders, z.inFlight = x.inFlight, z.other.at = x.other.at,
         z.cached.wasm = x.cached.wasm \/ z.cached.wasm # "bad",
         job.wasm \in {"asked", "check", "ok"} => z.cached.wasm # "bad",
         job.wasm = "ok" => job.copy = "good",
         job.wasm # "none" => job.pc \in {"parts", "forget"}
  PROVE  Typed(z) /\ Waiting(z) /\ Checked(z)
<1>1. /\ [x.dl EXCEPT ![d] = job] \in Seq(DownloadType) /\ Len([x.dl EXCEPT ![d] = job]) = Len(x.dl)
      /\ [x.dl EXCEPT ![d] = job][d] = job
      /\ \A e \in Downloads(x) : e # d => [x.dl EXCEPT ![d] = job][e] = x.dl[e]
  BY JobSet
<1>2. Len(z.dl) = Len(x.dl) /\ z.dl[d] = job /\ \A e \in Downloads(x) : e # d => z.dl[e] = x.dl[e]
  BY <1>1
<1>3. Typed(z)
  BY <1>2 DEF Typed
<1>4. SameWaiting(x, z)
  BY <1>2 DEF SameWaiting
<1>5. Waiting(z)
  BY <1>4, WaitingKept
<1>6. Checked(z)
  <2>1. Downloads(z) = Downloads(x)
    BY <1>2 DEF Downloads
  <2>2. ASSUME NEW e \in Downloads(x)
        PROVE  /\ z.dl[e].wasm \in {"asked", "check", "ok"} => z.cached.wasm # "bad"
               /\ z.dl[e].wasm = "ok" => z.dl[e].copy = "good"
               /\ z.dl[e].wasm # "none" => z.dl[e].pc \in {"parts", "forget"}
    <3>1. CASE e = d
      BY <3>1, <1>2
    <3>2. CASE e # d
      BY <3>2, <1>2 DEF Checked
    <3> QED BY <3>1, <3>2
  <2> QED BY <2>1, <2>2 DEF Checked
<1> QED BY <1>3, <1>5, <1>6

LEMMA PartsDoneKeeps ==
  ASSUME NEW x, Typed(x), Waiting(x), Checked(x), NEW d \in Downloads(x), x.dl[d].pc = "parts",
         NEW y, y = PartsDone(x, d)
  PROVE  Typed(y) /\ Waiting(y) /\ Checked(y) /\ y.files = x.files
<1>1. /\ Typed(y)
      /\ y.caller = x.caller /\ y.holders = x.holders /\ Len(y.dl) = Len(x.dl)
      /\ y.inFlight = x.inFlight /\ y.cached = x.cached /\ y.files = x.files /\ y.other = x.other
      /\ \A e \in Downloads(x) : e # d => y.dl[e] = x.dl[e]
      /\ y.dl[d].pc \in {x.dl[d].pc, "forget"} /\ y.dl[d].joiners = x.dl[d].joiners
      /\ y.dl[d].stopping = x.dl[d].stopping /\ y.dl[d].linger = x.dl[d].linger
      /\ y.dl[d].outcome = x.dl[d].outcome /\ y.dl[d].wasm = x.dl[d].wasm /\ y.dl[d].copy = x.dl[d].copy
  BY PartsDoneDoes
<1>2. SameWaiting(x, y)
  BY <1>1 DEF SameWaiting, AtWork
<1>3. Waiting(y)
  BY <1>2, WaitingKept
<1>4. Checked(y)
  BY <1>1 DEF Checked, Downloads
<1> QED BY <1>1, <1>3, <1>4

(* A call that is in no download's list ends, or has its machine.          *)
LEMMA EndedKeeps ==
  ASSUME NEW x, Typed(x), Waiting(x), Checked(x), NEW c \in Callers, x.caller[c].files # "pending",
         NEW z, Typed(z), z.dl = x.dl, z.inFlight = x.inFlight, z.other.at = x.other.at,
         z.cached.wasm = x.cached.wasm,
         \A e \in Callers : e # c => z.caller[e] = x.caller[e],
         z.caller[c].at \notin {"joined"}, z.caller[c].on = 0, z.caller[c].files = "none",
         z.caller[c].outcome = "aborted" =>
           z.caller[c].at = "ended" /\ (z.caller[c].left \/ z.caller[c].lib = "failed"),
         c \in z.holders <=> c \in Loads /\ z.caller[c].at \in {"joined", "loaded"},
         z.holders \subseteq x.holders, x.holders \subseteq z.holders \cup {c}
  PROVE  Waiting(z) /\ Checked(z)
<1>1. Downloads(z) = Downloads(x) /\ 0 \notin Downloads(x)
  BY DEF Downloads
<1>2. Joined(z)
  <2>1. \A e \in Callers :
       /\ IF z.caller[e].at = "joined"
          THEN z.caller[e].on \in Downloads(z) /\ z.caller[e].files # "none"
          ELSE z.caller[e].on = 0 /\ z.caller[e].files = "none"
       /\ z.caller[e].outcome = "aborted" =>
            z.caller[e].at = "ended" /\ (z.caller[e].left \/ z.caller[e].lib = "failed")
    BY <1>1 DEF Waiting, Joined
  <2>2. \A d \in Downloads(z) : \A e \in Callers :
          e \in z.dl[d].joiners <=> z.caller[e].on = d /\ z.caller[e].files = "pending"
    BY <1>1 DEF Waiting, Joined
  <2> QED BY <2>1, <2>2 DEF Joined
<1>3. Running(z)
  BY <1>1 DEF Waiting, Running
<1>4. Holding(z)
  <2>1. \A e \in 1..MaxDownloads : <<e>> # c
    BY HoldersAssumption DEF Callers
  <2> QED BY <1>1, <2>1 DEF Waiting, Holding
<1>5. Checked(z)
  BY <1>1 DEF Checked
<1> QED BY <1>2, <1>3, <1>4, <1>5 DEF Waiting

(* A joiner leaves its download, which then may be alone.                  *)
LEMMA GoneKeeps ==
  ASSUME NEW x, Typed(x), Waiting(x), Checked(x), NEW c \in Callers, NEW d \in Downloads(x), c \in x.dl[d].joiners,
         NEW z, Typed(z), z.inFlight = x.inFlight, z.other.at = x.other.at, z.cached.wasm = x.cached.wasm,
         Len(z.dl) = Len(x.dl), z.holders = x.holders \ {c},
         \A e \in Callers : e # c => z.caller[e] = x.caller[e],
         z.caller[c].at = "ended", z.caller[c].on = 0, z.caller[c].files = "none",
         z.caller[c].left \/ z.caller[c].lib = "failed",
         \A e \in Downloads(x) : e # d => z.dl[e] = x.dl[e],
         z.dl[d].pc = x.dl[d].pc, z.dl[d].joiners = x.dl[d].joiners \ {c}, z.dl[d].stopping = x.dl[d].stopping,
         z.dl[d].outcome = x.dl[d].outcome, z.dl[d].wasm = x.dl[d].wasm, z.dl[d].copy = x.dl[d].copy,
         IF z.dl[d].joiners = {} /\ x.dl[d].outcome = "none" THEN z.dl[d].linger ELSE z.dl[d].linger = x.dl[d].linger
  PROVE  Waiting(z) /\ Checked(z)
<1>1. Downloads(z) = Downloads(x) /\ 0 \notin Downloads(x)
  BY DEF Downloads
<1>2. x.caller[c].on = d /\ \A e \in Downloads(x) : c \in x.dl[e].joiners => e = d
  BY DEF Waiting, Joined
<1>3. Joined(z)
  <2>1. \A e \in Callers :
       /\ IF z.caller[e].at = "joined"
          THEN z.caller[e].on \in Downloads(z) /\ z.caller[e].files # "none"
          ELSE z.caller[e].on = 0 /\ z.caller[e].files = "none"
       /\ z.caller[e].outcome = "aborted" =>
            z.caller[e].at = "ended" /\ (z.caller[e].left \/ z.caller[e].lib = "failed")
    BY <1>1 DEF Waiting, Joined
  <2>2. ASSUME NEW f \in Downloads(z), NEW e \in Callers
        PROVE e \in z.dl[f].joiners <=> z.caller[e].on = f /\ z.caller[e].files = "pending"
    <3>1. e \in x.dl[f].joiners <=> x.caller[e].on = f /\ x.caller[e].files = "pending"
      BY <1>1 DEF Waiting, Joined
    <3>2. CASE e # c
      BY <3>1, <3>2, <1>1
    <3>3. CASE e = c
      BY <3>1, <3>3, <1>1, <1>2
    <3> QED BY <3>2, <3>3
  <2> QED BY <2>1, <2>2 DEF Joined
<1>4. Running(z)
  <2>1. x.dl[d].pc # "done" /\ x.dl[d].outcome = "none" /\ ~x.dl[d].linger /\ ~x.dl[d].stopping
    BY DEF Waiting, Running
  <2>2. ASSUME NEW e \in Downloads(z)
        PROVE /\ z.dl[e].pc = "done" <=> z.dl[e].outcome # "none"
              /\ z.dl[e].pc = "done" => z.dl[e].joiners = {} /\ ~z.dl[e].linger /\ ~z.dl[e].stopping
              /\ z.dl[e].linger \/ z.dl[e].stopping => z.dl[e].joiners = {}
              /\ z.dl[e].pc # "done" /\ z.dl[e].joiners = {} => z.dl[e].linger \/ z.dl[e].stopping
              /\ z.dl[e].pc # "done" /\ ~z.dl[e].stopping => z.inFlight = e
    <3>1. CASE e # d
      BY <3>1, <1>1 DEF Waiting, Running
    <3>2. CASE e = d
      BY <3>2, <2>1, <1>1 DEF Waiting, Running
    <3> QED BY <3>1, <3>2
  <2>3. z.inFlight # 0 => z.inFlight \in Downloads(z) /\ z.dl[z.inFlight].pc # "done"
    BY <1>1, <2>1 DEF Waiting, Running
  <2> QED BY <2>2, <2>3 DEF Running
<1>5. Holding(z)
  <2>1. \A e \in 1..MaxDownloads : <<e>> # c
    BY HoldersAssumption DEF Callers
  <2>2. \A e \in Downloads(x) : z.dl[e].pc = x.dl[e].pc
    OBVIOUS
  <2> QED BY <1>1, <2>1, <2>2 DEF Waiting, Holding
<1>6. Checked(z)
  <2>1. \A e \in Downloads(x) : z.dl[e].pc = x.dl[e].pc /\ z.dl[e].wasm = x.dl[e].wasm /\ z.dl[e].copy = x.dl[e].copy
    OBVIOUS
  <2> QED BY <1>1, <2>1 DEF Checked
<1> QED BY <1>3, <1>4, <1>5, <1>6 DEF Waiting

(* A download that may be joined: only the caller that is about to join    *)
(* it keeps a lock it has no other reason for.                             *)
Joinable(x, c, d) ==
  /\ Typed(x) /\ Joined(x) /\ Checked(x)
  /\ d \in Downloads(x) /\ x.inFlight = d
  /\ x.dl[d].pc # "done" /\ x.dl[d].outcome = "none" /\ ~x.dl[d].stopping
  /\ x.caller[c].at = "holding"
  /\ \A e \in Downloads(x) :
       /\ x.dl[e].pc = "done" <=> x.dl[e].outcome # "none"
       /\ x.dl[e].pc = "done" => x.dl[e].joiners = {} /\ ~x.dl[e].linger /\ ~x.dl[e].stopping
       /\ x.dl[e].linger \/ x.dl[e].stopping => x.dl[e].joiners = {}
       /\ e # d /\ x.dl[e].pc # "done" /\ x.dl[e].joiners = {} => x.dl[e].linger \/ x.dl[e].stopping
       /\ x.dl[e].pc # "done" /\ ~x.dl[e].stopping => d = e
  /\ \A e \in Callers : e # c => (e \in x.holders <=> e \in Loads /\ x.caller[e].at \in {"joined", "loaded"})
  /\ c \in x.holders <=> c \in Loads
  /\ \A e \in 1..MaxDownloads :
       <<e>> \in x.holders <=> e \in Downloads(x) /\ x.dl[e].pc \in {"room", "parts", "forget"}
  /\ x.other.at = "deleting" => x.holders = {}

LEMMA JoinableAfter ==
  ASSUME NEW x, Typed(x), Joined(x), Running(x), Checked(x), NEW c \in Callers, x.caller[c].at = "holding",
         \A e \in Callers : e # c => (e \in x.holders <=> e \in Loads /\ x.caller[e].at \in {"joined", "loaded"}),
         c \in x.holders <=> c \in Loads,
         \A e \in 1..MaxDownloads :
           <<e>> \in x.holders <=> e \in Downloads(x) /\ x.dl[e].pc \in {"room", "parts", "forget"},
         x.other.at = "deleting" => x.holders = {},
         NEW s, s = WithDownload(x),
         Len(s.dl) <= MaxDownloads
  PROVE  Joinable(s, c, s.inFlight) /\ s.files = x.files
<1>1. CASE ~(x.inFlight = 0 \/ x.dl[x.inFlight].stopping)
  <2>1. s = x
    BY <1>1 DEF WithDownload
  <2>2. x.inFlight \in Downloads(x) /\ x.dl[x.inFlight].pc # "done" /\ ~x.dl[x.inFlight].stopping
    BY <1>1 DEF Running
  <2> QED BY <2>1, <2>2 DEF Joinable, Running
<1>2. CASE x.inFlight = 0 \/ x.dl[x.inFlight].stopping
  <2> DEFINE d == Len(x.dl) + 1
  <2>1. s = Started(x)
    BY <1>2 DEF WithDownload
  <2>2. x.dl \in Seq(DownloadType) /\ Len(x.dl) \in Nat
    BY PageFields DEF Typed
  <2>3. Len(x.dl) < MaxDownloads
    <3>1. s.dl = Append(x.dl, NewDownload)
      BY <2>1 DEF Started, Typed, PageType
    <3>2. Len(s.dl) = Len(x.dl) + 1
      BY <3>1, <2>2, NewOnes, AppendProperties
    <3> QED BY <3>2, <2>2, BoundsAssumption
  <2>4. /\ Typed(s)
        /\ s.caller = x.caller /\ s.holders = x.holders /\ s.inFlight = d
        /\ s.cached = x.cached /\ s.files = x.files /\ s.other = x.other
        /\ Len(s.dl) = d
        /\ \A e \in Downloads(x) : s.dl[e] = x.dl[e]
        /\ s.dl[d] = NewDownload
    BY <2>1, <2>3, StartedDoes
  <2>5. /\ Downloads(s) = Downloads(x) \cup {d} /\ d \notin Downloads(x) /\ d \in Downloads(s) /\ d # 0
    BY <2>2, <2>4 DEF Downloads
  <2>6. /\ s.dl[d].pc = "hold" /\ s.dl[d].outcome = "none" /\ ~s.dl[d].stopping /\ ~s.dl[d].linger
        /\ s.dl[d].joiners = {} /\ s.dl[d].wasm = "none"
    BY <2>4 DEF NewDownload
  <2> HIDE DEF d
  <2>7. Joined(s)
    <3>1. \A e \in Callers : x.caller[e].on # d
      BY <2>5 DEF Joined
    <3>2. \A f \in Downloads(s) : \A e \in Callers :
            e \in s.dl[f].joiners <=> s.caller[e].on = f /\ s.caller[e].files = "pending"
      BY <3>1, <2>4, <2>5, <2>6 DEF Joined
    <3> QED BY <3>2, <2>4, <2>5 DEF Joined
  <2>8. Checked(s)
    BY <2>4, <2>5, <2>6 DEF Checked
  <2>9. \A e \in Downloads(s) :
       /\ s.dl[e].pc = "done" <=> s.dl[e].outcome # "none"
       /\ s.dl[e].pc = "done" => s.dl[e].joiners = {} /\ ~s.dl[e].linger /\ ~s.dl[e].stopping
       /\ s.dl[e].linger \/ s.dl[e].stopping => s.dl[e].joiners = {}
       /\ e # d /\ s.dl[e].pc # "done" /\ s.dl[e].joiners = {} => s.dl[e].linger \/ s.dl[e].stopping
       /\ s.dl[e].pc # "done" /\ ~s.dl[e].stopping => d = e
    <3>1. 0 \notin Downloads(x)
      BY DEF Downloads
    <3>2. \A e \in Downloads(x) : x.dl[e].pc = "done" \/ x.dl[e].stopping
      BY <1>2, <3>1 DEF Running
    <3> QED BY <3>2, <2>4, <2>5, <2>6 DEF Running
  <2>10. \A e \in 1..MaxDownloads :
       <<e>> \in s.holders <=> e \in Downloads(s) /\ s.dl[e].pc \in {"room", "parts", "forget"}
    BY <2>4, <2>5, <2>6
  <2> QED BY <2>4, <2>5, <2>6, <2>7, <2>8, <2>9, <2>10 DEF Joinable
<1> QED BY <1>1, <1>2

LEMMA JoinKeeps ==
  ASSUME NEW x, Typed(x), Joined(x), Running(x), Checked(x), NEW c \in Callers, x.caller[c].at = "holding",
         \A e \in Callers : e # c => (e \in x.holders <=> e \in Loads /\ x.caller[e].at \in {"joined", "loaded"}),
         c \in x.holders <=> c \in Loads,
         \A e \in 1..MaxDownloads :
           <<e>> \in x.holders <=> e \in Downloads(x) /\ x.dl[e].pc \in {"room", "parts", "forget"},
         x.other.at = "deleting" => x.holders = {},
         Len(WithDownload(x).dl) <= MaxDownloads, NEW y, y = JoinDownload(x, c)
  PROVE  Typed(y) /\ Waiting(y) /\ Checked(y) /\ y.files = x.files
<1> DEFINE s == WithDownload(x)
           d == s.inFlight
<1>1. y = IF s.caller[c].left THEN LingerIfAlone(EndCall(s, c, "aborted"), d) ELSE JoinerOf(s, c, d)
  <2>1. s.caller = x.caller
    BY DEF WithDownload, Started, Typed, PageType
  <2> QED BY <2>1 DEF JoinDownload
<1> HIDE DEF s
<1>2. Joinable(s, c, d) /\ s.files = x.files
  BY JoinableAfter DEF s
<1> HIDE DEF d
<1>3. Typed(s) /\ d \in Downloads(s) /\ 0 \notin Downloads(s)
  BY <1>2 DEF Joinable, Downloads
<1>4. \A e \in 1..MaxDownloads : <<e>> # c
  BY HoldersAssumption DEF Callers
<1>5. CASE s.caller[c].left
  <2> DEFINE x2 == EndCall(s, c, "aborted")
  <2>1. x2 = EndCall(s, c, "aborted") /\ y = LingerIfAlone(x2, d)
    BY <1>1, <1>5
  <2> HIDE DEF x2
  <2>2. /\ Typed(x2)
        /\ x2.dl = s.dl /\ x2.inFlight = s.inFlight /\ x2.cached = s.cached /\ x2.files = s.files /\ x2.other = s.other
        /\ x2.holders = s.holders \ {c}
        /\ x2.caller[c].at = "ended" /\ x2.caller[c].on = 0 /\ x2.caller[c].left = s.caller[c].left
        /\ x2.caller[c].files = "none" /\ x2.caller[c].lib = "none" /\ x2.caller[c].outcome = "aborted"
        /\ \A e \in Callers : e # c => x2.caller[e] = s.caller[e]
    BY <1>3, <2>1, EndCallDoes
  <2>3. d \in Downloads(x2)
    BY <1>3, <2>2 DEF Downloads
  <2>4. /\ Typed(y)
        /\ y.caller = x2.caller /\ y.holders = x2.holders /\ Len(y.dl) = Len(x2.dl)
        /\ y.inFlight = x2.inFlight /\ y.cached = x2.cached /\ y.files = x2.files /\ y.other = x2.other
        /\ \A e \in Downloads(x2) : e # d => y.dl[e] = x2.dl[e]
        /\ y.dl[d].pc = x2.dl[d].pc /\ y.dl[d].joiners = x2.dl[d].joiners /\ y.dl[d].stopping = x2.dl[d].stopping
        /\ y.dl[d].outcome = x2.dl[d].outcome /\ y.dl[d].wasm = x2.dl[d].wasm /\ y.dl[d].copy = x2.dl[d].copy
        /\ IF x2.dl[d].joiners = {} /\ x2.dl[d].outcome = "none"
           THEN y.dl[d].linger ELSE y.dl[d].linger = x2.dl[d].linger
    BY <2>1, <2>2, <2>3, LingerIfAloneDoes
  <2>5. Downloads(y) = Downloads(s) /\ Downloads(x2) = Downloads(s)
    BY <2>2, <2>4 DEF Downloads
  <2>6. Joined(y)
    <3>1. ASSUME NEW e \in Callers
          PROVE  /\ IF y.caller[e].at = "joined"
                    THEN y.caller[e].on \in Downloads(y) /\ y.caller[e].files # "none"
                    ELSE y.caller[e].on = 0 /\ y.caller[e].files = "none"
                 /\ y.caller[e].outcome = "aborted" =>
                      y.caller[e].at = "ended" /\ (y.caller[e].left \/ y.caller[e].lib = "failed")
      <4>1. CASE e = c
        BY <4>1, <1>5, <2>2, <2>4
      <4>2. CASE e # c
        BY <4>2, <1>2, <2>2, <2>4, <2>5 DEF Joinable, Joined
      <4> QED BY <4>1, <4>2
    <3>2. ASSUME NEW f \in Downloads(y), NEW e \in Callers
          PROVE  e \in y.dl[f].joiners <=> y.caller[e].on = f /\ y.caller[e].files = "pending"
      <4>1. e \in s.dl[f].joiners <=> s.caller[e].on = f /\ s.caller[e].files = "pending"
        BY <1>2, <2>5 DEF Joinable, Joined
      <4>2. s.caller[c].on = 0
        BY <1>2 DEF Joinable, Joined
      <4>3. y.dl[f].joiners = s.dl[f].joiners
        BY <2>2, <2>4, <2>5
      <4>4. CASE e # c
        BY <4>1, <4>3, <4>4, <2>2, <2>4
      <4>5. CASE e = c
        BY <4>1, <4>2, <4>3, <4>5, <1>3, <2>2, <2>4, <2>5
      <4> QED BY <4>4, <4>5
    <3> QED BY <3>1, <3>2 DEF Joined
  <2>7. Running(y)
    <3>1. ASSUME NEW e \in Downloads(y)
          PROVE /\ y.dl[e].pc = "done" <=> y.dl[e].outcome # "none"
                /\ y.dl[e].pc = "done" => y.dl[e].joiners = {} /\ ~y.dl[e].linger /\ ~y.dl[e].stopping
                /\ y.dl[e].linger \/ y.dl[e].stopping => y.dl[e].joiners = {}
                /\ y.dl[e].pc # "done" /\ y.dl[e].joiners = {} => y.dl[e].linger \/ y.dl[e].stopping
                /\ y.dl[e].pc # "done" /\ ~y.dl[e].stopping => y.inFlight = e
      <4>1. CASE e # d
        BY <4>1, <1>2, <2>2, <2>4, <2>5 DEF Joinable
      <4>2. CASE e = d
        BY <4>2, <1>2, <2>2, <2>4, <2>5 DEF Joinable
      <4> QED BY <4>1, <4>2
    <3>2. y.inFlight # 0 => y.inFlight \in Downloads(y) /\ y.dl[y.inFlight].pc # "done"
      BY <1>2, <2>2, <2>4, <2>5 DEF Joinable
    <3> QED BY <3>1, <3>2 DEF Running
  <2>8. Holding(y)
    <3>1. \A e \in Downloads(s) : y.dl[e].pc = s.dl[e].pc
      BY <2>2, <2>4, <2>5
    <3>2. \A e \in Callers : e \in y.holders <=> e \in Loads /\ y.caller[e].at \in {"joined", "loaded"}
      BY <1>2, <2>2, <2>4 DEF Joinable
    <3>3. ASSUME NEW e \in 1..MaxDownloads
          PROVE  <<e>> \in y.holders <=> e \in Downloads(y) /\ y.dl[e].pc \in {"room", "parts", "forget"}
      <4>1. <<e>> \in y.holders <=> <<e>> \in s.holders
        BY <1>4, <2>2, <2>4
      <4>2. <<e>> \in s.holders <=> e \in Downloads(s) /\ s.dl[e].pc \in {"room", "parts", "forget"}
        BY <1>2 DEF Joinable
      <4> QED BY <3>1, <4>1, <4>2, <2>5
    <3>4. y.other.at = "deleting" => y.holders = {}
      BY <1>2, <2>2, <2>4 DEF Joinable
    <3> QED BY <3>2, <3>3, <3>4 DEF Holding
  <2>9. Checked(y)
    <3>1. \A e \in Downloads(s) : y.dl[e].pc = s.dl[e].pc /\ y.dl[e].wasm = s.dl[e].wasm /\ y.dl[e].copy = s.dl[e].copy
      BY <2>2, <2>4, <2>5
    <3> QED BY <3>1, <1>2, <2>2, <2>4, <2>5 DEF Joinable, Checked
  <2> QED BY <1>2, <2>2, <2>4, <2>6, <2>7, <2>8, <2>9 DEF Waiting
<1>6. CASE ~s.caller[c].left
  <2>1. y = JoinerOf(s, c, d)
    BY <1>1, <1>6
  <2>2. /\ Typed(y)
        /\ y.holders = s.holders /\ Len(y.dl) = Len(s.dl) /\ y.inFlight = s.inFlight
        /\ y.cached = s.cached /\ y.files = s.files /\ y.other = s.other
        /\ \A e \in Downloads(s) : e # d => y.dl[e] = s.dl[e]
        /\ y.dl[d].pc = s.dl[d].pc /\ y.dl[d].joiners = s.dl[d].joiners \cup {c} /\ ~y.dl[d].linger
        /\ y.dl[d].stopping = s.dl[d].stopping
        /\ y.dl[d].outcome = s.dl[d].outcome /\ y.dl[d].wasm = s.dl[d].wasm /\ y.dl[d].copy = s.dl[d].copy
        /\ \A e \in Callers : e # c => y.caller[e] = s.caller[e]
        /\ y.caller[c].at = "joined" /\ y.caller[c].on = d /\ y.caller[c].files = "pending"
        /\ y.caller[c].outcome = s.caller[c].outcome
    BY <1>3, <2>1, JoinerOfDoes
  <2>3. Downloads(y) = Downloads(s)
    BY <2>2 DEF Downloads
  <2>4. s.caller[c].on = 0 /\ s.caller[c].outcome # "aborted"
    BY <1>2 DEF Joinable, Joined
  <2>5. Joined(y)
    <3>1. \A e \in Callers :
         /\ IF y.caller[e].at = "joined"
            THEN y.caller[e].on \in Downloads(y) /\ y.caller[e].files # "none"
            ELSE y.caller[e].on = 0 /\ y.caller[e].files = "none"
         /\ y.caller[e].outcome = "aborted" =>
              y.caller[e].at = "ended" /\ (y.caller[e].left \/ y.caller[e].lib = "failed")
      BY <1>2, <1>3, <2>2, <2>3, <2>4 DEF Joinable, Joined
    <3>2. ASSUME NEW f \in Downloads(y), NEW e \in Callers
          PROVE  e \in y.dl[f].joiners <=> y.caller[e].on = f /\ y.caller[e].files = "pending"
      <4>1. e \in s.dl[f].joiners <=> s.caller[e].on = f /\ s.caller[e].files = "pending"
        BY <1>2, <2>3 DEF Joinable, Joined
      <4>2. y.dl[f].joiners = s.dl[f].joiners \/ (f = d /\ y.dl[f].joiners = s.dl[f].joiners \cup {c})
        BY <2>2, <2>3
      <4>3. CASE e # c
        BY <4>1, <4>2, <4>3, <2>2
      <4>4. CASE e = c
        <5>1. c \notin s.dl[f].joiners
          BY <4>1, <4>4, <2>3, <2>4, <1>3
        <5>2. CASE f = d
          BY <5>2, <4>4, <2>2
        <5>3. CASE f # d
          BY <5>1, <5>3, <4>2, <4>4, <2>2
        <5> QED BY <5>2, <5>3
      <4> QED BY <4>3, <4>4
    <3> QED BY <3>1, <3>2 DEF Joined
  <2>6. Running(y)
    <3>1. ASSUME NEW e \in Downloads(y)
          PROVE /\ y.dl[e].pc = "done" <=> y.dl[e].outcome # "none"
                /\ y.dl[e].pc = "done" => y.dl[e].joiners = {} /\ ~y.dl[e].linger /\ ~y.dl[e].stopping
                /\ y.dl[e].linger \/ y.dl[e].stopping => y.dl[e].joiners = {}
                /\ y.dl[e].pc # "done" /\ y.dl[e].joiners = {} => y.dl[e].linger \/ y.dl[e].stopping
                /\ y.dl[e].pc # "done" /\ ~y.dl[e].stopping => y.inFlight = e
      <4>1. CASE e # d
        BY <4>1, <1>2, <2>2, <2>3 DEF Joinable
      <4>2. CASE e = d
        BY <4>2, <1>2, <2>2, <2>3 DEF Joinable
      <4> QED BY <4>1, <4>2
    <3>2. y.inFlight # 0 => y.inFlight \in Downloads(y) /\ y.dl[y.inFlight].pc # "done"
      BY <1>2, <2>2, <2>3 DEF Joinable
    <3> QED BY <3>1, <3>2 DEF Running
  <2>7. Holding(y)
    <3>1. \A e \in Downloads(s) : y.dl[e].pc = s.dl[e].pc
      BY <2>2
    <3>2. \A e \in Callers : e \in y.holders <=> e \in Loads /\ y.caller[e].at \in {"joined", "loaded"}
      BY <1>2, <2>2 DEF Joinable
    <3>3. \A e \in 1..MaxDownloads :
       <<e>> \in y.holders <=> e \in Downloads(y) /\ y.dl[e].pc \in {"room", "parts", "forget"}
      BY <3>1, <1>2, <2>2, <2>3 DEF Joinable
    <3> QED BY <3>2, <3>3, <1>2, <2>2 DEF Joinable, Holding
  <2>8. Checked(y)
    <3>1. \A e \in Downloads(s) : y.dl[e].pc = s.dl[e].pc /\ y.dl[e].wasm = s.dl[e].wasm /\ y.dl[e].copy = s.dl[e].copy
      BY <2>2
    <3> QED BY <3>1, <1>2, <2>2, <2>3 DEF Joinable, Checked
  <2> QED BY <1>2, <2>2, <2>5, <2>6, <2>7, <2>8 DEF Waiting
<1> QED BY <1>5, <1>6

---------------------------------------------------------------------------
(* Every action keeps it. *)

Inv == Typed(p) /\ Waiting(p) /\ Checked(p)

Kept == Inv' /\ (p.files => p'.files)

LEMMA InitInv == Init => Inv
<1> SUFFICES ASSUME Init PROVE Inv
  OBVIOUS
<1>1. PICK wasm \in {"none", "good", "bad"} :
        p = [caller |-> [c \in Callers |-> NewCaller], dl |-> <<>>, inFlight |-> 0,
             cached |-> [manifest |-> FALSE, lib |-> "none", wasm |-> wasm],
             files |-> wasm # "none", holders |-> {}, other |-> [at |-> "away", files |-> FALSE]]
  BY DEF Init
<1>2. /\ p.caller = [c \in Callers |-> NewCaller] /\ p.dl = <<>> /\ p.inFlight = 0
      /\ p.cached = [manifest |-> FALSE, lib |-> "none", wasm |-> wasm]
      /\ p.files = (wasm # "none") /\ p.holders = {} /\ p.other = [at |-> "away", files |-> FALSE]
  BY <1>1
<1>3. p.dl \in Seq(DownloadType) /\ Len(p.dl) = 0 /\ Downloads(p) = {}
  BY <1>2 DEF Downloads
<1>4. p.caller \in [Callers -> CallType]
  BY <1>2, NewOnes
<1>5. p \in PageType
  BY <1>1, <1>2, <1>3, <1>4, BoundsAssumption DEF PageType
<1>6. Typed(p)
  BY <1>3, <1>5, BoundsAssumption DEF Typed
<1>7. Joined(p)
  BY <1>2, <1>3 DEF Joined, NewCaller
<1>8. Running(p) /\ Checked(p)
  BY <1>2, <1>3 DEF Running, Checked
<1>9. Holding(p)
  BY <1>2, <1>3 DEF Holding, NewCaller
<1> QED BY <1>6, <1>7, <1>8, <1>9 DEF Inv, Waiting

LEMMA CallKeeps ==
  ASSUME Inv, NEW c \in Callers, Call(c)
  PROVE  Kept
<1> DEFINE call == [p.caller[c] EXCEPT !.at = "manifest"]
<1>1. p.caller[c].at = "out" /\ p' = [p EXCEPT !.caller[c] = call]
  BY DEF Call
<1>2. Typed(p) /\ Waiting(p) /\ Checked(p) /\ p.caller[c] \in CallType
  BY PageFields DEF Inv, Typed
<1>3. /\ call \in CallType /\ call.at = "manifest" /\ call.on = p.caller[c].on /\ call.files = p.caller[c].files
      /\ call.outcome = p.caller[c].outcome
  BY <1>2 DEF CallType
<1> HIDE DEF call
<1>4. /\ [p.caller EXCEPT ![c] = call] \in [Callers -> CallType]
      /\ [p.caller EXCEPT ![c] = call][c] = call
      /\ \A e \in Callers : e # c => [p.caller EXCEPT ![c] = call][e] = p.caller[e]
  BY <1>2, <1>3, CallSet
<1>5. /\ p' \in PageType /\ p'.caller = [p.caller EXCEPT ![c] = call]
      /\ p'.dl = p.dl /\ p'.holders = p.holders /\ p'.inFlight = p.inFlight
      /\ p'.cached = p.cached /\ p'.files = p.files /\ p'.other = p.other
  BY <1>1, <1>2, <1>4 DEF Typed, PageType
<1>6. Typed(p')
  BY <1>2, <1>5 DEF Typed
<1>7. p.caller[c].on = 0 /\ p.caller[c].files = "none" /\ p.caller[c].outcome # "aborted" /\ c \notin p.holders
  BY <1>1, <1>2 DEF Waiting, Joined, Holding
<1>8. Waiting(p') /\ Checked(p')
  BY <1>2, <1>3, <1>4, <1>5, <1>6, <1>7, EndedKeeps
<1> QED BY <1>5, <1>6, <1>8 DEF Kept, Inv

LEMMA ReadManifestKeeps ==
  ASSUME Inv, NEW c \in Callers, ReadManifest(c)
  PROVE  Kept
<1>1. Typed(p) /\ Waiting(p) /\ Checked(p) /\ p.caller[c] \in CallType /\ p.caller[c].at = "manifest"
  BY PageFields DEF Inv, Typed, ReadManifest
<1>2. p.caller[c].on = 0 /\ p.caller[c].files = "none" /\ p.caller[c].outcome # "aborted" /\ c \notin p.holders
  BY <1>1 DEF Waiting, Joined, Holding
<1>3. ASSUME NEW x \in ManifestsRead(p), p' = [x EXCEPT !.caller[c].at = "holding"]
      PROVE  Kept
  <2> DEFINE call == [p.caller[c] EXCEPT !.at = "holding"]
  <2>1. /\ x \in PageType /\ x.caller = p.caller /\ x.dl = p.dl /\ x.holders = p.holders /\ x.inFlight = p.inFlight
        /\ x.cached.wasm = p.cached.wasm /\ x.files = p.files /\ x.other = p.other
    <3>1. CASE x = p
      BY <3>1, <1>1 DEF Typed
    <3>2. CASE x = [p EXCEPT !.cached.manifest = TRUE]
      BY <3>2, <1>1 DEF Typed, PageType
    <3> QED BY <3>1, <3>2, <1>3 DEF ManifestsRead
  <2>2. /\ call \in CallType /\ call.at = "holding" /\ call.on = p.caller[c].on /\ call.files = p.caller[c].files
        /\ call.outcome = p.caller[c].outcome
    BY <1>1 DEF CallType
  <2>3. p' = [x EXCEPT !.caller[c] = call]
    BY <1>3, <2>1
  <2> HIDE DEF call
  <2>4. /\ [p.caller EXCEPT ![c] = call] \in [Callers -> CallType]
        /\ [p.caller EXCEPT ![c] = call][c] = call
        /\ \A e \in Callers : e # c => [p.caller EXCEPT ![c] = call][e] = p.caller[e]
    BY <1>1, <2>2, CallSet
  <2>5. /\ p' \in PageType /\ p'.caller = [p.caller EXCEPT ![c] = call]
        /\ p'.dl = x.dl /\ p'.holders = x.holders /\ p'.inFlight = x.inFlight
        /\ p'.cached = x.cached /\ p'.files = x.files /\ p'.other = x.other
    BY <2>1, <2>3, <2>4 DEF PageType
  <2>6. Typed(p')
    BY <1>1, <2>1, <2>5 DEF Typed
  <2>7. Waiting(p') /\ Checked(p')
    BY <1>1, <1>2, <2>1, <2>2, <2>4, <2>5, <2>6, EndedKeeps
  <2> QED BY <2>1, <2>5, <2>6, <2>7 DEF Kept, Inv
<1>4. ASSUME NEW why, why \in {"network", "incompatible"}, p' = EndCall(p, c, why)
      PROVE  Kept
  <2>1. why \in {"ok", "network", "incompatible", "aborted"}
    BY <1>4
  <2>2. /\ Typed(p')
        /\ p'.dl = p.dl /\ p'.inFlight = p.inFlight /\ p'.cached = p.cached /\ p'.files = p.files /\ p'.other = p.other
        /\ p'.holders = p.holders \ {c}
        /\ p'.caller[c].at = "ended" /\ p'.caller[c].on = 0 /\ p'.caller[c].files = "none"
        /\ p'.caller[c].outcome = why
        /\ \A e \in Callers : e # c => p'.caller[e] = p.caller[e]
    BY <1>1, <1>4, <2>1, EndCallDoes
  <2>3. Waiting(p') /\ Checked(p')
    BY <1>1, <1>2, <1>4, <2>2, EndedKeeps
  <2> QED BY <2>2, <2>3 DEF Kept, Inv
<1> QED BY <1>3, <1>4 DEF ReadManifest

LEMMA JoinedKeeps ==
  ASSUME Inv, NEW c \in Callers, Join(c)
  PROVE  Kept
<1> DEFINE x == IF c \in Loads THEN [p EXCEPT !.holders = @ \cup {c}] ELSE p
<1>1. Typed(p) /\ Waiting(p) /\ Checked(p) /\ p.caller[c].at = "holding"
  BY DEF Inv, Join
<1>2. /\ x \in PageType /\ x.caller = p.caller /\ x.dl = p.dl /\ x.inFlight = p.inFlight
      /\ x.cached = p.cached /\ x.files = p.files /\ x.other = p.other
      /\ x.holders = IF c \in Loads THEN p.holders \cup {c} ELSE p.holders
  BY <1>1 DEF Typed, PageType
<1>3. (c \in Loads => p.other.at # "deleting") /\ Len(WithDownload(p).dl) <= MaxDownloads /\ p' = JoinDownload(x, c)
  BY DEF Join
<1>4. Len(WithDownload(x).dl) <= MaxDownloads
  <2>1. CASE p.inFlight = 0 \/ p.dl[p.inFlight].stopping
    <3>1. WithDownload(x).dl = WithDownload(p).dl
      BY <1>1, <1>2, <2>1 DEF WithDownload, Started, Typed, PageType
    <3> QED BY <3>1, <1>3
  <2>2. CASE ~(p.inFlight = 0 \/ p.dl[p.inFlight].stopping)
    BY <1>2, <1>3, <2>2 DEF WithDownload
  <2> QED BY <2>1, <2>2
<1> HIDE DEF x
<1>5. Downloads(x) = Downloads(p)
  BY <1>2 DEF Downloads
<1>6. Typed(x) /\ Joined(x) /\ Running(x) /\ Checked(x)
  BY <1>1, <1>2, <1>5 DEF Typed, Waiting, Joined, Running, Checked
<1>7. c \notin p.holders /\ \A e \in 1..MaxDownloads : <<e>> # c
  BY <1>1, HoldersAssumption DEF Waiting, Holding, Callers
<1>8. /\ \A e \in Callers : e # c => (e \in x.holders <=> e \in Loads /\ x.caller[e].at \in {"joined", "loaded"})
      /\ c \in x.holders <=> c \in Loads
      /\ x.other.at = "deleting" => x.holders = {}
  BY <1>1, <1>2, <1>3, <1>7 DEF Waiting, Holding
<1>9. \A e \in 1..MaxDownloads : <<e>> \in x.holders <=> e \in Downloads(x) /\ x.dl[e].pc \in {"room", "parts", "forget"}
  BY <1>1, <1>2, <1>5, <1>7 DEF Waiting, Holding
<1>10. Typed(p') /\ Waiting(p') /\ Checked(p') /\ p'.files = x.files
  BY <1>1, <1>2, <1>3, <1>4, <1>6, <1>8, <1>9, JoinKeeps
<1> QED BY <1>2, <1>10 DEF Kept, Inv

LEMMA LeaveRequestedKeeps ==
  ASSUME Inv, NEW c \in Callers, LeaveRequested(c)
  PROVE  Kept
<1> DEFINE call == [p.caller[c] EXCEPT !.left = TRUE]
           x == [p EXCEPT !.caller[c] = call]
           d == p.caller[c].on
<1>1. Typed(p) /\ Waiting(p) /\ Checked(p) /\ p.caller[c] \in CallType
  BY PageFields DEF Inv, Typed
<1>2. p.caller[c].at \in {"manifest", "holding", "joined"} /\ p' = Leave(x, c, d)
  BY DEF LeaveRequested
<1>3. /\ call \in CallType /\ call.at = p.caller[c].at /\ call.on = p.caller[c].on /\ call.files = p.caller[c].files
      /\ call.outcome = p.caller[c].outcome /\ call.left
  BY <1>1 DEF CallType
<1> HIDE DEF call
<1>4. /\ [p.caller EXCEPT ![c] = call] \in [Callers -> CallType]
      /\ [p.caller EXCEPT ![c] = call][c] = call
      /\ \A e \in Callers : e # c => [p.caller EXCEPT ![c] = call][e] = p.caller[e]
  BY <1>1, <1>3, CallSet
<1>5. /\ x \in PageType /\ x.caller = [p.caller EXCEPT ![c] = call]
      /\ x.dl = p.dl /\ x.holders = p.holders /\ x.inFlight = p.inFlight
      /\ x.cached = p.cached /\ x.files = p.files /\ x.other = p.other
  BY <1>1, <1>4 DEF Typed, PageType
<1>6. Typed(x) /\ Downloads(x) = Downloads(p)
  BY <1>1, <1>5 DEF Typed, Downloads
<1> HIDE DEF x
<1>7. p.caller[c].outcome # "aborted"
  BY <1>1, <1>2 DEF Waiting, Joined
<1>8. Waiting(x) /\ Checked(x)
  <2>1. \A e \in Callers : /\ x.caller[e].at = p.caller[e].at /\ x.caller[e].on = p.caller[e].on
                           /\ x.caller[e].files = p.caller[e].files
                           /\ x.caller[e].outcome = "aborted" => x.caller[e] = p.caller[e]
    BY <1>3, <1>4, <1>5, <1>7
  <2>2. Joined(x)
    BY <1>1, <1>5, <1>6, <2>1 DEF Waiting, Joined
  <2>3. Running(x) /\ Checked(x)
    BY <1>1, <1>5, <1>6 DEF Waiting, Running, Checked
  <2>4. Holding(x)
    BY <1>1, <1>5, <1>6, <2>1 DEF Waiting, Holding
  <2> QED BY <2>2, <2>3, <2>4 DEF Waiting
<1>9. CASE d = 0 \/ c \notin x.dl[d].joiners
  <2>1. p' = x
    BY <1>2, <1>9 DEF Leave
  <2> QED BY <2>1, <1>5, <1>6, <1>8 DEF Kept, Inv
<1>10. CASE d # 0 /\ c \in x.dl[d].joiners
  <2>1. d \in Downloads(x)
    BY <1>1, <1>6, <1>10 DEF Waiting, Joined
  <2>2. x.caller[c].left
    BY <1>3, <1>4, <1>5
  <2> HIDE DEF d
  <2>3. /\ Typed(p')
        /\ p'.holders = x.holders \ {c} /\ Len(p'.dl) = Len(x.dl) /\ p'.inFlight = x.inFlight
        /\ p'.cached = x.cached /\ p'.files = x.files /\ p'.other = x.other
        /\ \A e \in Downloads(x) : e # d => p'.dl[e] = x.dl[e]
        /\ p'.dl[d].pc = x.dl[d].pc /\ p'.dl[d].joiners = x.dl[d].joiners \ {c} /\ p'.dl[d].stopping = x.dl[d].stopping
        /\ p'.dl[d].outcome = x.dl[d].outcome /\ p'.dl[d].wasm = x.dl[d].wasm /\ p'.dl[d].copy = x.dl[d].copy
        /\ IF p'.dl[d].joiners = {} /\ x.dl[d].outcome = "none" THEN p'.dl[d].linger ELSE p'.dl[d].linger = x.dl[d].linger
        /\ p'.caller[c].at = "ended" /\ p'.caller[c].on = 0 /\ p'.caller[c].left = x.caller[c].left
        /\ p'.caller[c].files = "none" /\ p'.caller[c].outcome = "aborted"
        /\ \A e \in Callers : e # c => p'.caller[e] = x.caller[e]
    BY <1>2, <1>6, <1>10, <2>1, LeaveDoes
  <2>4. p'.caller[c].left
    BY <2>2, <2>3
  <2>5. Waiting(p') /\ Checked(p')
    BY <1>6, <1>8, <1>10, <2>1, <2>3, <2>4, GoneKeeps
  <2> QED BY <1>5, <2>3, <2>5 DEF Kept, Inv
<1> QED BY <1>9, <1>10

LEMMA LibImportedKeeps ==
  ASSUME Inv, NEW c \in Callers, LibImported(c)
  PROVE  Kept
<1> DEFINE call == [p.caller[c] EXCEPT !.lib = "ok"]
           x == [p EXCEPT !.caller[c] = call]
<1>1. Typed(p) /\ Waiting(p) /\ Checked(p) /\ p.caller[c] \in CallType
  BY PageFields DEF Inv, Typed
<1>2. p.caller[c].at = "joined" /\ p' = Loaded(x, c)
  BY DEF LibImported
<1>3. /\ call \in CallType /\ call.at = p.caller[c].at /\ call.on = p.caller[c].on /\ call.files = p.caller[c].files
      /\ call.outcome = p.caller[c].outcome
  BY <1>1 DEF CallType
<1> HIDE DEF call
<1>4. /\ [p.caller EXCEPT ![c] = call] \in [Callers -> CallType]
      /\ [p.caller EXCEPT ![c] = call][c] = call
      /\ \A e \in Callers : e # c => [p.caller EXCEPT ![c] = call][e] = p.caller[e]
  BY <1>1, <1>3, CallSet
<1>5. /\ x \in PageType /\ x.caller = [p.caller EXCEPT ![c] = call]
      /\ x.dl = p.dl /\ x.holders = p.holders /\ x.inFlight = p.inFlight
      /\ x.cached = p.cached /\ x.files = p.files /\ x.other = p.other
  BY <1>1, <1>4 DEF Typed, PageType
<1>6. Typed(x) /\ Downloads(x) = Downloads(p)
  BY <1>1, <1>5 DEF Typed, Downloads
<1> HIDE DEF x
<1>7. p.caller[c].outcome # "aborted"
  BY <1>1, <1>2 DEF Waiting, Joined
<1>8. Waiting(x) /\ Checked(x)
  <2>1. \A e \in Callers : /\ x.caller[e].at = p.caller[e].at /\ x.caller[e].on = p.caller[e].on
                           /\ x.caller[e].files = p.caller[e].files
                           /\ x.caller[e].outcome = "aborted" => x.caller[e] = p.caller[e]
    BY <1>3, <1>4, <1>5, <1>7
  <2>2. Joined(x)
    BY <1>1, <1>5, <1>6, <2>1 DEF Waiting, Joined
  <2>3. Running(x) /\ Checked(x)
    BY <1>1, <1>5, <1>6 DEF Waiting, Running, Checked
  <2>4. Holding(x)
    BY <1>1, <1>5, <1>6, <2>1 DEF Waiting, Holding
  <2> QED BY <2>2, <2>3, <2>4 DEF Waiting
<1>9. /\ Typed(p')
      /\ p'.dl = x.dl /\ p'.holders = x.holders /\ p'.inFlight = x.inFlight
      /\ p'.cached = x.cached /\ p'.files = x.files /\ p'.other = x.other
      /\ \A e \in Callers : e # c => p'.caller[e] = x.caller[e]
      /\ IF x.caller[c].files = "ok" /\ x.caller[c].lib = "ok"
         THEN /\ p'.caller[c].at = IF c \in Loads THEN "loaded" ELSE "ended"
              /\ p'.caller[c].on = 0 /\ p'.caller[c].files = "none" /\ p'.caller[c].outcome = "ok"
         ELSE p'.caller[c] = x.caller[c]
  BY <1>2, <1>6, LoadedDoes
<1>10. CASE x.caller[c].files = "ok" /\ x.caller[c].lib = "ok"
  <2>1. c \in x.holders <=> c \in Loads
    BY <1>2, <1>3, <1>4, <1>5, <1>8 DEF Waiting, Holding
  <2>2. Waiting(p') /\ Checked(p')
    BY <1>6, <1>8, <1>9, <1>10, <2>1, EndedKeeps
  <2> QED BY <1>5, <1>9, <2>2 DEF Kept, Inv
<1>11. CASE ~(x.caller[c].files = "ok" /\ x.caller[c].lib = "ok")
  <2>1. p' = x
    BY <1>2, <1>11 DEF Loaded
  <2> QED BY <2>1, <1>5, <1>6, <1>8 DEF Kept, Inv
<1> QED BY <1>10, <1>11

LEMMA LibFailedKeeps ==
  ASSUME Inv, NEW c \in Callers, LibFailed(c)
  PROVE  Kept
<1> DEFINE x == [p EXCEPT !.cached.lib = "none"]
           d == p.caller[c].on
           left == Leave(x, c, d)
           ended == IF left.caller[c].at = "ended" THEN left ELSE EndCall(x, c, "network")
           call == [ended.caller[c] EXCEPT !.lib = "failed"]
<1>1. Typed(p) /\ Waiting(p) /\ Checked(p)
  BY DEF Inv
<1>2. p.caller[c].at = "joined" /\ p' = [ended EXCEPT !.caller[c] = call]
  BY DEF LibFailed
<1>3. /\ x \in PageType /\ x.caller = p.caller /\ x.dl = p.dl /\ x.holders = p.holders /\ x.inFlight = p.inFlight
      /\ x.cached.wasm = p.cached.wasm /\ x.files = p.files /\ x.other = p.other
  BY <1>1 DEF Typed, PageType
<1>4. Typed(x) /\ Downloads(x) = Downloads(p)
  BY <1>1, <1>3 DEF Typed, Downloads
<1> HIDE DEF x
<1>5. Waiting(x) /\ Checked(x)
  BY <1>1, <1>3, <1>4 DEF Waiting, Joined, Running, Holding, Checked
<1>6. d \in Downloads(x) /\ d # 0 /\ x.caller[c].at = "joined" /\ x.caller[c].on = d
  <2>1. 0 \notin Downloads(p)
    BY DEF Downloads
  <2>2. d \in Downloads(p)
    BY <1>1, <1>2 DEF Waiting, Joined
  <2> QED BY <2>1, <2>2, <1>2, <1>3, <1>4
<1> HIDE DEF d
<1>7. CASE c \in x.dl[d].joiners
  <2>1. left = Leave(x, c, d)
    OBVIOUS
  <2> HIDE DEF left
  <2>2. /\ Typed(left)
        /\ left.holders = x.holders \ {c} /\ Len(left.dl) = Len(x.dl) /\ left.inFlight = x.inFlight
        /\ left.cached = x.cached /\ left.files = x.files /\ left.other = x.other
        /\ \A e \in Downloads(x) : e # d => left.dl[e] = x.dl[e]
        /\ left.dl[d].pc = x.dl[d].pc /\ left.dl[d].joiners = x.dl[d].joiners \ {c}
        /\ left.dl[d].stopping = x.dl[d].stopping /\ left.dl[d].outcome = x.dl[d].outcome
        /\ left.dl[d].wasm = x.dl[d].wasm /\ left.dl[d].copy = x.dl[d].copy
        /\ IF left.dl[d].joiners = {} /\ x.dl[d].outcome = "none"
           THEN left.dl[d].linger ELSE left.dl[d].linger = x.dl[d].linger
        /\ left.caller[c].at = "ended" /\ left.caller[c].on = 0 /\ left.caller[c].files = "none"
        /\ \A e \in Callers : e # c => left.caller[e] = x.caller[e]
    BY <1>4, <1>6, <1>7, <2>1, LeaveDoes
  <2>3. ended = left
    BY <2>2
  <2>4. left.caller[c] \in CallType
    BY <2>2, PageFields DEF Typed
  <2>5. /\ call \in CallType /\ call.at = "ended" /\ call.on = 0 /\ call.files = "none" /\ call.lib = "failed"
    BY <2>2, <2>3, <2>4 DEF CallType
  <2>6. p' = [left EXCEPT !.caller[c] = call]
    BY <1>2, <2>3
  <2> HIDE DEF ended, call
  <2>7. /\ [left.caller EXCEPT ![c] = call] \in [Callers -> CallType]
        /\ [left.caller EXCEPT ![c] = call][c] = call
        /\ \A e \in Callers : e # c => [left.caller EXCEPT ![c] = call][e] = left.caller[e]
    BY <2>2, <2>5, CallSet
  <2>8. /\ p' \in PageType /\ p'.caller = [left.caller EXCEPT ![c] = call]
        /\ p'.dl = left.dl /\ p'.holders = left.holders /\ p'.inFlight = left.inFlight
        /\ p'.cached = left.cached /\ p'.files = left.files /\ p'.other = left.other
    BY <2>2, <2>6, <2>7 DEF Typed, PageType
  <2>9. Typed(p')
    BY <2>2, <2>8 DEF Typed
  <2>10. Waiting(p') /\ Checked(p')
    <3>1. /\ p'.inFlight = x.inFlight /\ p'.other.at = x.other.at /\ p'.cached.wasm = x.cached.wasm
          /\ Len(p'.dl) = Len(x.dl) /\ p'.holders = x.holders \ {c}
          /\ \A e \in Callers : e # c => p'.caller[e] = x.caller[e]
          /\ p'.caller[c].at = "ended" /\ p'.caller[c].on = 0 /\ p'.caller[c].files = "none"
          /\ p'.caller[c].left \/ p'.caller[c].lib = "failed"
      BY <2>2, <2>5, <2>7, <2>8
    <3>2. /\ \A e \in Downloads(x) : e # d => p'.dl[e] = x.dl[e]
          /\ p'.dl[d].pc = x.dl[d].pc /\ p'.dl[d].joiners = x.dl[d].joiners \ {c}
          /\ p'.dl[d].stopping = x.dl[d].stopping /\ p'.dl[d].outcome = x.dl[d].outcome
          /\ p'.dl[d].wasm = x.dl[d].wasm /\ p'.dl[d].copy = x.dl[d].copy
          /\ IF p'.dl[d].joiners = {} /\ x.dl[d].outcome = "none"
             THEN p'.dl[d].linger ELSE p'.dl[d].linger = x.dl[d].linger
      BY <2>2, <2>8
    <3> QED BY <1>4, <1>5, <1>6, <1>7, <2>9, <3>1, <3>2, GoneKeeps
  <2> QED BY <1>3, <2>2, <2>8, <2>9, <2>10 DEF Kept, Inv
<1>8. CASE c \notin x.dl[d].joiners
  <2> DEFINE y == EndCall(x, c, "network")
  <2>1. left = x /\ ended = y
    BY <1>6, <1>8 DEF Leave
  <2>2. y = EndCall(x, c, "network")
    OBVIOUS
  <2> HIDE DEF y
  <2>3. /\ Typed(y)
        /\ y.dl = x.dl /\ y.inFlight = x.inFlight /\ y.cached = x.cached /\ y.files = x.files /\ y.other = x.other
        /\ y.holders = x.holders \ {c}
        /\ y.caller[c].at = "ended" /\ y.caller[c].on = 0 /\ y.caller[c].files = "none"
        /\ \A e \in Callers : e # c => y.caller[e] = x.caller[e]
    BY <1>4, <2>2, EndCallDoes
  <2>4. y.caller[c] \in CallType
    BY <2>3, PageFields DEF Typed
  <2>5. /\ call \in CallType /\ call.at = "ended" /\ call.on = 0 /\ call.files = "none" /\ call.lib = "failed"
    BY <2>1, <2>3, <2>4 DEF CallType
  <2>6. p' = [y EXCEPT !.caller[c] = call]
    BY <1>2, <2>1
  <2> HIDE DEF ended, call, left
  <2>7. /\ [y.caller EXCEPT ![c] = call] \in [Callers -> CallType]
        /\ [y.caller EXCEPT ![c] = call][c] = call
        /\ \A e \in Callers : e # c => [y.caller EXCEPT ![c] = call][e] = y.caller[e]
    BY <2>3, <2>5, CallSet
  <2>8. /\ p' \in PageType /\ p'.caller = [y.caller EXCEPT ![c] = call]
        /\ p'.dl = y.dl /\ p'.holders = y.holders /\ p'.inFlight = y.inFlight
        /\ p'.cached = y.cached /\ p'.files = y.files /\ p'.other = y.other
    BY <2>3, <2>6, <2>7 DEF Typed, PageType
  <2>9. Typed(p')
    BY <2>3, <2>8 DEF Typed
  <2>10. x.caller[c].files # "pending"
    BY <1>5, <1>6, <1>8 DEF Waiting, Joined
  <2>11. Waiting(p') /\ Checked(p')
    BY <1>4, <1>5, <2>3, <2>5, <2>7, <2>8, <2>9, <2>10, EndedKeeps
  <2> QED BY <1>3, <2>3, <2>8, <2>9, <2>11 DEF Kept, Inv
<1> QED BY <1>7, <1>8

LEMMA ReleaseKeeps ==
  ASSUME Inv, NEW c \in Callers, Release(c)
  PROVE  Kept
<1>1. Typed(p) /\ Waiting(p) /\ Checked(p) /\ p.caller[c].at = "loaded" /\ p' = EndCall(p, c, "ok")
  BY DEF Inv, Release
<1>2. p.caller[c].files = "none"
  BY <1>1 DEF Waiting, Joined
<1>3. /\ Typed(p')
      /\ p'.dl = p.dl /\ p'.inFlight = p.inFlight /\ p'.cached = p.cached /\ p'.files = p.files /\ p'.other = p.other
      /\ p'.holders = p.holders \ {c}
      /\ p'.caller[c].at = "ended" /\ p'.caller[c].on = 0 /\ p'.caller[c].files = "none"
      /\ p'.caller[c].outcome = "ok"
      /\ \A e \in Callers : e # c => p'.caller[e] = p.caller[e]
  BY <1>1, EndCallDoes
<1>4. Waiting(p') /\ Checked(p')
  BY <1>1, <1>2, <1>3, EndedKeeps
<1> QED BY <1>3, <1>4 DEF Kept, Inv

LEMMA HeldKeeps ==
  ASSUME Inv, NEW d \in Downloads(p), Held(d)
  PROVE  Kept
<1> DEFINE job == [p.dl[d] EXCEPT !.pc = "room"]
<1>1. Typed(p) /\ Waiting(p) /\ Checked(p) /\ p.dl[d] \in DownloadType
  BY PageFields DEF Inv, Typed
<1>2. p.dl[d].pc = "hold" /\ p.other.at # "deleting" /\ p' = [p EXCEPT !.dl[d] = job, !.holders = @ \cup {<<d>>}]
  BY DEF Held
<1>3. /\ job \in DownloadType /\ job.pc = "room" /\ job.joiners = p.dl[d].joiners /\ job.stopping = p.dl[d].stopping
      /\ job.linger = p.dl[d].linger /\ job.outcome = p.dl[d].outcome /\ job.wasm = p.dl[d].wasm /\ job.copy = p.dl[d].copy
  BY <1>1 DEF DownloadType
<1> HIDE DEF job
<1>4. /\ [p.dl EXCEPT ![d] = job] \in Seq(DownloadType) /\ Len([p.dl EXCEPT ![d] = job]) = Len(p.dl)
      /\ [p.dl EXCEPT ![d] = job][d] = job
      /\ \A e \in Downloads(p) : e # d => [p.dl EXCEPT ![d] = job][e] = p.dl[e]
  BY <1>1, <1>3, JobSet
<1>5. d \in 1..MaxDownloads
  BY <1>1, PageFields, BoundsAssumption DEF Typed, Downloads
<1>6. /\ p' \in PageType /\ p'.dl = [p.dl EXCEPT ![d] = job] /\ p'.holders = p.holders \cup {<<d>>}
      /\ p'.caller = p.caller /\ p'.inFlight = p.inFlight
      /\ p'.cached = p.cached /\ p'.files = p.files /\ p'.other = p.other
  BY <1>1, <1>2, <1>4, <1>5 DEF Typed, PageType
<1>7. Typed(p') /\ Downloads(p') = Downloads(p)
  BY <1>1, <1>4, <1>6 DEF Typed, Downloads
<1>8. p'.dl[d] = job /\ \A e \in Downloads(p) : e # d => p'.dl[e] = p.dl[e]
  BY <1>4, <1>6
<1>9. p.dl[d].wasm = "none"
  BY <1>1, <1>2 DEF Checked
<1>10. \A e \in Downloads(p) :
         /\ p'.dl[e].joiners = p.dl[e].joiners /\ p'.dl[e].stopping = p.dl[e].stopping
         /\ p'.dl[e].linger = p.dl[e].linger /\ p'.dl[e].outcome = p.dl[e].outcome
         /\ p'.dl[e].wasm = p.dl[e].wasm /\ p'.dl[e].copy = p.dl[e].copy
         /\ p'.dl[e].pc = IF e = d THEN "room" ELSE p.dl[e].pc
  BY <1>3, <1>8
<1>11. Joined(p')
  BY <1>1, <1>6, <1>7, <1>10 DEF Waiting, Joined
<1>12. Running(p')
  BY <1>1, <1>2, <1>6, <1>7, <1>10 DEF Waiting, Running
<1>13. Holding(p')
  <2>1. \A c \in Callers : c \in p'.holders <=> c \in Loads /\ p'.caller[c].at \in {"joined", "loaded"}
    BY <1>1, <1>5, <1>6, HoldersAssumption DEF Waiting, Holding, Callers
  <2>2. ASSUME NEW e \in 1..MaxDownloads
        PROVE  <<e>> \in p'.holders <=> e \in Downloads(p') /\ p'.dl[e].pc \in {"room", "parts", "forget"}
    <3>1. <<e>> = <<d>> <=> e = d
      OBVIOUS
    <3>2. CASE e = d
      BY <3>2, <1>6, <1>7, <1>10
    <3>3. CASE e # d
      BY <3>1, <3>3, <1>1, <1>6, <1>7, <1>10 DEF Waiting, Holding
    <3> QED BY <3>2, <3>3
  <2> QED BY <2>1, <2>2, <1>2, <1>6 DEF Holding
<1>14. Checked(p')
  BY <1>1, <1>6, <1>7, <1>9, <1>10 DEF Checked
<1> QED BY <1>6, <1>7, <1>11, <1>12, <1>13, <1>14 DEF Kept, Inv, Waiting

LEMMA RoomFoundKeeps ==
  ASSUME Inv, NEW d \in Downloads(p), RoomFound(d)
  PROVE  Kept
<1>1. Typed(p) /\ Waiting(p) /\ Checked(p) /\ p.dl[d] \in DownloadType /\ p.dl[d].pc = "room"
  BY PageFields DEF Inv, Typed, RoomFound
<1>2. PICK keeps \in BOOLEAN :
        LET started == [p EXCEPT !.dl[d] =
              [@ EXCEPT !.pc = "parts", !.keeps = keeps, !.wasm = "match", !.state = "pending",
                        !.lib = IF keeps /\ p.cached.lib = "none" THEN "pending" ELSE "ok"]]
        IN p' = IF p.dl[d].stopping THEN FailDownload(started, d, "aborted") ELSE started
  BY DEF RoomFound
<1> DEFINE lib == IF keeps /\ p.cached.lib = "none" THEN "pending" ELSE "ok"
           job == [p.dl[d] EXCEPT !.pc = "parts", !.keeps = keeps, !.wasm = "match", !.state = "pending", !.lib = lib]
           x == [p EXCEPT !.dl[d] = job]
<1>3. p' = IF p.dl[d].stopping THEN FailDownload(x, d, "aborted") ELSE x
  BY <1>2
<1>4. lib \in {"none", "pending", "ok"}
  OBVIOUS
<1> HIDE DEF lib
<1>5. /\ job \in DownloadType /\ job.pc = "parts" /\ job.joiners = p.dl[d].joiners /\ job.stopping = p.dl[d].stopping
      /\ job.linger = p.dl[d].linger /\ job.outcome = p.dl[d].outcome /\ job.wasm = "match"
  BY <1>1, <1>4 DEF DownloadType
<1> HIDE DEF job
<1>6. [p.dl EXCEPT ![d] = job] \in Seq(DownloadType)
  BY <1>1, <1>5, JobSet
<1>7. /\ x \in PageType /\ x.dl = [p.dl EXCEPT ![d] = job] /\ x.holders = p.holders
      /\ x.caller = p.caller /\ x.inFlight = p.inFlight
      /\ x.cached = p.cached /\ x.files = p.files /\ x.other = p.other
  BY <1>1, <1>6 DEF Typed, PageType
<1> HIDE DEF x
<1>8. Typed(x) /\ Waiting(x) /\ Checked(x)
  BY <1>1, <1>5, <1>7, PartKeeps DEF AtWork
<1>9. CASE ~p.dl[d].stopping
  BY <1>3, <1>7, <1>8, <1>9 DEF Kept, Inv
<1>10. CASE p.dl[d].stopping
  <2>1. /\ d \in Downloads(x) /\ x.dl[d].stopping
    <3>1. /\ Len([p.dl EXCEPT ![d] = job]) = Len(p.dl) /\ [p.dl EXCEPT ![d] = job][d] = job
      BY <1>1, <1>5, JobSet
    <3> QED BY <3>1, <1>5, <1>7, <1>10 DEF Downloads
  <2>2. p' = FailDownload(x, d, "aborted")
    BY <1>3, <1>10
  <2>3. Typed(p') /\ Waiting(p') /\ Checked(p') /\ p'.files = x.files
    BY <1>8, <2>1, <2>2, FailKeeps
  <2> QED BY <1>7, <2>3 DEF Kept, Inv
<1> QED BY <1>9, <1>10

LEMMA LingerOverKeeps ==
  ASSUME Inv, NEW d \in Downloads(p), LingerOver(d)
  PROVE  Kept
<1> DEFINE job == [p.dl[d] EXCEPT !.stopping = TRUE, !.linger = FALSE]
           x == [p EXCEPT !.dl[d] = job]
<1>1. Typed(p) /\ Waiting(p) /\ Checked(p) /\ p.dl[d] \in DownloadType
  BY PageFields DEF Inv, Typed
<1>2. p.dl[d].linger /\ p' = IF Hears(d) THEN FailDownload(x, d, "aborted") ELSE x
  BY DEF LingerOver
<1>3. /\ job \in DownloadType /\ job.pc = p.dl[d].pc /\ job.joiners = p.dl[d].joiners /\ job.stopping /\ ~job.linger
      /\ job.outcome = p.dl[d].outcome /\ job.wasm = p.dl[d].wasm /\ job.copy = p.dl[d].copy
  BY <1>1 DEF DownloadType
<1> HIDE DEF job
<1>4. /\ [p.dl EXCEPT ![d] = job] \in Seq(DownloadType) /\ Len([p.dl EXCEPT ![d] = job]) = Len(p.dl)
      /\ [p.dl EXCEPT ![d] = job][d] = job
      /\ \A e \in Downloads(p) : e # d => [p.dl EXCEPT ![d] = job][e] = p.dl[e]
  BY <1>1, <1>3, JobSet
<1>5. /\ x \in PageType /\ x.dl = [p.dl EXCEPT ![d] = job] /\ x.holders = p.holders
      /\ x.caller = p.caller /\ x.inFlight = p.inFlight
      /\ x.cached = p.cached /\ x.files = p.files /\ x.other = p.other
  BY <1>1, <1>4 DEF Typed, PageType
<1> HIDE DEF x
<1>6. Typed(x) /\ Downloads(x) = Downloads(p)
  BY <1>1, <1>4, <1>5 DEF Typed, Downloads
<1>7. \A e \in Downloads(p) :
        /\ x.dl[e].joiners = p.dl[e].joiners /\ x.dl[e].pc = p.dl[e].pc /\ x.dl[e].outcome = p.dl[e].outcome
        /\ x.dl[e].wasm = p.dl[e].wasm /\ x.dl[e].copy = p.dl[e].copy
  BY <1>3, <1>4, <1>5
<1>8. Joined(x) /\ Holding(x) /\ Checked(x)
  BY <1>1, <1>5, <1>6, <1>7 DEF Waiting, Joined, Holding, Checked
<1>9. x.dl[d] = job /\ \A e \in Downloads(p) : e # d => x.dl[e] = p.dl[e]
  BY <1>4, <1>5
<1>10. Running(x)
  <2>1. p.dl[d].pc # "done" /\ p.dl[d].joiners = {}
    BY <1>1, <1>2 DEF Waiting, Running
  <2>2. ASSUME NEW e \in Downloads(x)
        PROVE /\ x.dl[e].pc = "done" <=> x.dl[e].outcome # "none"
              /\ x.dl[e].pc = "done" => x.dl[e].joiners = {} /\ ~x.dl[e].linger /\ ~x.dl[e].stopping
              /\ x.dl[e].linger \/ x.dl[e].stopping => x.dl[e].joiners = {}
              /\ x.dl[e].pc # "done" /\ x.dl[e].joiners = {} => x.dl[e].linger \/ x.dl[e].stopping
              /\ x.dl[e].pc # "done" /\ ~x.dl[e].stopping => x.inFlight = e
    <3>1. CASE e = d
      BY <3>1, <2>1, <1>1, <1>3, <1>6, <1>7, <1>9 DEF Waiting, Running
    <3>2. CASE e # d
      BY <3>2, <1>1, <1>5, <1>6, <1>9 DEF Waiting, Running
    <3> QED BY <3>1, <3>2
  <2>3. x.inFlight # 0 => x.inFlight \in Downloads(x) /\ x.dl[x.inFlight].pc # "done"
    BY <1>1, <1>5, <1>6, <1>7 DEF Waiting, Running
  <2> QED BY <2>2, <2>3 DEF Running
<1>11. CASE ~Hears(d)
  BY <1>2, <1>5, <1>6, <1>8, <1>10, <1>11 DEF Kept, Inv, Waiting
<1>12. CASE Hears(d)
  <2>1. p' = FailDownload(x, d, "aborted") /\ Waiting(x)
    BY <1>2, <1>8, <1>10, <1>12 DEF Waiting
  <2>2. x.dl[d].stopping /\ d \in Downloads(x)
    BY <1>3, <1>6, <1>9
  <2>3. Typed(p') /\ Waiting(p') /\ Checked(p') /\ p'.files = x.files
    BY <1>6, <1>8, <2>1, <2>2, FailKeeps
  <2> QED BY <1>5, <2>3 DEF Kept, Inv
<1> QED BY <1>11, <1>12

(* A part that fails takes the download with it.                           *)
LEMMA FailedKeeps ==
  ASSUME Inv, NEW d \in Downloads(p), NEW x, x \in PageType, x.dl = p.dl, x.caller = p.caller, x.holders = p.holders,
         x.inFlight = p.inFlight, x.cached = p.cached, x.other = p.other, p.files => x.files,
         p' = FailDownload(x, d, "network")
  PROVE  Kept
<1>1. Typed(p) /\ Waiting(p) /\ Checked(p)
  BY DEF Inv
<1>2. Typed(x) /\ Downloads(x) = Downloads(p)
  BY <1>1 DEF Typed, Downloads
<1>3. Waiting(x) /\ Checked(x)
  BY <1>1, <1>2 DEF Waiting, Joined, Running, Holding, Checked
<1>4. Typed(p') /\ Waiting(p') /\ Checked(p') /\ p'.files = x.files
  BY <1>2, <1>3, FailKeeps
<1> QED BY <1>4 DEF Kept, Inv

LEMMA DeadlineOverKeeps ==
  ASSUME Inv, NEW d \in Downloads(p), DeadlineOver(d)
  PROVE  Kept
BY FailedKeeps DEF Inv, Typed, DeadlineOver

LEMMA WasmRefusedKeeps ==
  ASSUME Inv, NEW d \in Downloads(p), WasmRefused(d)
  PROVE  Kept
BY FailedKeeps DEF Inv, Typed, WasmRefused

(* A part that goes on: the record of its download changes, nobody else's. *)
LEMMA PartKept ==
  ASSUME Inv, NEW d \in Downloads(p), p.dl[d].pc = "parts", NEW job, job \in DownloadType, job.pc = "parts",
         job.joiners = p.dl[d].joiners, job.stopping = p.dl[d].stopping,
         job.linger = p.dl[d].linger, job.outcome = p.dl[d].outcome,
         NEW x, x \in PageType, x.dl = [p.dl EXCEPT ![d] = job],
         x.caller = p.caller, x.holders = p.holders, x.inFlight = p.inFlight, x.other = p.other,
         x.cached.wasm = p.cached.wasm \/ x.cached.wasm # "bad",
         job.wasm \in {"asked", "check", "ok"} => x.cached.wasm # "bad",
         job.wasm = "ok" => job.copy = "good",
         p.files => x.files
  PROVE  /\ p' = x => Kept
         /\ p' = PartsDone(x, d) => Kept
         /\ p' = Asks(x, d) => Kept
<1>1. Typed(p) /\ Waiting(p) /\ Checked(p)
  BY DEF Inv
<1>2. Typed(x) /\ Waiting(x) /\ Checked(x)
  BY <1>1, PartKeeps DEF AtWork
<1>3. d \in Downloads(x) /\ x.dl[d].pc = "parts"
  <2>1. Len([p.dl EXCEPT ![d] = job]) = Len(p.dl) /\ [p.dl EXCEPT ![d] = job][d] = job
    BY <1>1, JobSet
  <2> QED BY <2>1 DEF Downloads
<1>4. ASSUME p' = PartsDone(x, d)
      PROVE  Kept
  <2>1. Typed(p') /\ Waiting(p') /\ Checked(p') /\ p'.files = x.files
    BY <1>2, <1>3, <1>4, PartsDoneKeeps
  <2> QED BY <2>1 DEF Kept, Inv
<1>5. p' = x => Kept
  BY <1>2 DEF Kept, Inv
<1>6. ASSUME p' = FailDownload(x, d, "network")
      PROVE  Kept
  <2>1. Typed(p') /\ Waiting(p') /\ Checked(p') /\ p'.files = x.files /\ p'.cached = x.cached /\ p'.other = x.other
    BY <1>2, <1>3, <1>6, FailKeeps
  <2> QED BY <2>1 DEF Kept, Inv
<1> QED BY <1>4, <1>5, <1>6 DEF Asks

LEMMA WasmMatchedKeeps ==
  ASSUME Inv, NEW d \in Downloads(p), WasmMatched(d)
  PROVE  Kept
<1>1. Typed(p) /\ p.dl[d] \in DownloadType /\ p.dl[d].pc = "parts" /\ p.dl[d].wasm = "match"
  BY PageFields DEF Inv, Typed, WasmMatched
<1>2. CASE p.cached.wasm = "good"
  <2> DEFINE job == [p.dl[d] EXCEPT !.wasm = "ok", !.copy = "good"]
             x == [p EXCEPT !.dl[d] = job]
  <2>1. p' = PartsDone(x, d)
    BY <1>2 DEF WasmMatched
  <2>2. /\ job \in DownloadType /\ job.pc = "parts" /\ job.joiners = p.dl[d].joiners /\ job.stopping = p.dl[d].stopping
        /\ job.linger = p.dl[d].linger /\ job.outcome = p.dl[d].outcome /\ job.copy = "good"
    BY <1>1 DEF DownloadType
  <2> HIDE DEF job
  <2>3. [p.dl EXCEPT ![d] = job] \in Seq(DownloadType)
    BY <1>1, <2>2, JobSet
  <2>4. /\ x \in PageType /\ x.dl = [p.dl EXCEPT ![d] = job] /\ x.holders = p.holders
        /\ x.caller = p.caller /\ x.inFlight = p.inFlight
        /\ x.cached = p.cached /\ x.files = p.files /\ x.other = p.other
    BY <1>1, <2>3 DEF Typed, PageType
  <2> HIDE DEF x
  <2> QED BY <1>1, <1>2, <2>1, <2>2, <2>4, PartKept
<1>3. CASE p.cached.wasm # "good"
  <2> DEFINE again == p.cached.wasm = "bad"
             job == [p.dl[d] EXCEPT !.wasm = "asked", !.again = again]
             x == [p EXCEPT !.cached.wasm = "none", !.dl[d] = job]
  <2>1. p' = Asks(x, d)
    <3>1. [p EXCEPT !.cached.wasm = "none"].dl = p.dl
      BY <1>1 DEF Typed, PageType
    <3> QED BY <3>1, <1>3 DEF WasmMatched
  <2>2. again \in BOOLEAN
    OBVIOUS
  <2> HIDE DEF again
  <2>3. /\ job \in DownloadType /\ job.pc = "parts" /\ job.joiners = p.dl[d].joiners /\ job.stopping = p.dl[d].stopping
        /\ job.linger = p.dl[d].linger /\ job.outcome = p.dl[d].outcome /\ job.wasm = "asked"
    BY <1>1, <2>2 DEF DownloadType
  <2> HIDE DEF job
  <2>4. [p.dl EXCEPT ![d] = job] \in Seq(DownloadType)
    BY <1>1, <2>3, JobSet
  <2>5. /\ x \in PageType /\ x.dl = [p.dl EXCEPT ![d] = job] /\ x.holders = p.holders
        /\ x.caller = p.caller /\ x.inFlight = p.inFlight
        /\ x.cached.wasm = "none" /\ x.files = p.files /\ x.other = p.other
    BY <1>1, <2>4 DEF Typed, PageType
  <2> HIDE DEF x
  <2> QED BY <1>1, <2>1, <2>3, <2>5, PartKept
<1> QED BY <1>2, <1>3

LEMMA WasmArrivedKeeps ==
  ASSUME Inv, NEW d \in Downloads(p), WasmArrived(d)
  PROVE  Kept
<1>1. /\ Typed(p) /\ p.dl[d] \in DownloadType /\ p.dl[d].pc = "parts" /\ p.dl[d].wasm = "asked"
      /\ p.cached.wasm # "bad"
  BY PageFields DEF Inv, Typed, WasmArrived, Checked
<1>2. PICK copy \in {"good", "bad"} : p' = [p EXCEPT !.dl[d] = [@ EXCEPT !.wasm = "check", !.copy = copy]]
  BY DEF WasmArrived
<1> DEFINE job == [p.dl[d] EXCEPT !.wasm = "check", !.copy = copy]
           x == [p EXCEPT !.dl[d] = job]
<1>3. p' = x
  BY <1>2
<1>4. /\ job \in DownloadType /\ job.pc = "parts" /\ job.joiners = p.dl[d].joiners /\ job.stopping = p.dl[d].stopping
      /\ job.linger = p.dl[d].linger /\ job.outcome = p.dl[d].outcome /\ job.wasm = "check"
  BY <1>1 DEF DownloadType
<1> HIDE DEF job
<1>5. [p.dl EXCEPT ![d] = job] \in Seq(DownloadType)
  BY <1>1, <1>4, JobSet
<1>6. /\ x \in PageType /\ x.dl = [p.dl EXCEPT ![d] = job] /\ x.holders = p.holders
      /\ x.caller = p.caller /\ x.inFlight = p.inFlight
      /\ x.cached = p.cached /\ x.files = p.files /\ x.other = p.other
  BY <1>1, <1>5 DEF Typed, PageType
<1> HIDE DEF x
<1> QED BY <1>1, <1>3, <1>4, <1>6, PartKept

LEMMA WasmBrokeKeeps ==
  ASSUME Inv, NEW d \in Downloads(p), WasmBroke(d)
  PROVE  Kept
<1>1. /\ Typed(p) /\ p.dl[d] \in DownloadType /\ p.dl[d].pc = "parts" /\ p.dl[d].wasm = "asked"
      /\ p.cached.wasm # "bad"
  BY PageFields DEF Inv, Typed, WasmBroke, Checked
<1>2. CASE p.dl[d].tries < MaxRetries
  <2> DEFINE job == [p.dl[d] EXCEPT !.tries = @ + 1]
             x == [p EXCEPT !.dl[d] = job]
  <2>1. p' = x
    BY <1>2 DEF WasmBroke
  <2>2. p.dl[d].tries + 1 \in 0..MaxRetries
    BY <1>1, <1>2, BoundsAssumption DEF DownloadType
  <2>3. /\ job \in DownloadType /\ job.pc = "parts" /\ job.joiners = p.dl[d].joiners /\ job.stopping = p.dl[d].stopping
        /\ job.linger = p.dl[d].linger /\ job.outcome = p.dl[d].outcome /\ job.wasm = "asked"
    BY <1>1, <2>2 DEF DownloadType
  <2> HIDE DEF job
  <2>4. [p.dl EXCEPT ![d] = job] \in Seq(DownloadType)
    BY <1>1, <2>3, JobSet
  <2>5. /\ x \in PageType /\ x.dl = [p.dl EXCEPT ![d] = job] /\ x.holders = p.holders
        /\ x.caller = p.caller /\ x.inFlight = p.inFlight
        /\ x.cached = p.cached /\ x.files = p.files /\ x.other = p.other
    BY <1>1, <2>4 DEF Typed, PageType
  <2> HIDE DEF x
  <2> QED BY <1>1, <2>1, <2>3, <2>5, PartKept
<1>3. CASE ~(p.dl[d].tries < MaxRetries)
  BY <1>1, <1>3, FailedKeeps DEF Typed, WasmBroke
<1> QED BY <1>2, <1>3

LEMMA WasmCheckedKeeps ==
  ASSUME Inv, NEW d \in Downloads(p), WasmChecked(d)
  PROVE  Kept
<1>1. /\ Typed(p) /\ p.dl[d] \in DownloadType /\ p.dl[d].pc = "parts" /\ p.dl[d].wasm = "check"
      /\ p.cached.wasm # "bad"
  BY PageFields DEF Inv, Typed, WasmChecked, Checked
<1>2. CASE p.dl[d].copy = "good"
  <2> DEFINE job == [p.dl[d] EXCEPT !.wasm = "ok", !.again = FALSE, !.tries = 0]
             x == [p EXCEPT !.dl[d] = job, !.cached.wasm = IF p.dl[d].keeps THEN "good" ELSE @,
                            !.files = @ \/ p.dl[d].keeps]
  <2>1. p' = PartsDone(x, d)
    BY <1>2 DEF WasmChecked
  <2>2. /\ job \in DownloadType /\ job.pc = "parts" /\ job.joiners = p.dl[d].joiners /\ job.stopping = p.dl[d].stopping
        /\ job.linger = p.dl[d].linger /\ job.outcome = p.dl[d].outcome /\ job.copy = "good"
    <3>1. p.dl[d] \in DownloadType /\ 0 \in 0..MaxRetries
      BY <1>1, BoundsAssumption
    <3> QED BY <3>1, <1>1, <1>2 DEF DownloadType
  <2> HIDE DEF job
  <2>3. [p.dl EXCEPT ![d] = job] \in Seq(DownloadType)
    BY <1>1, <2>2, JobSet
  <2>4. /\ x \in PageType /\ x.dl = [p.dl EXCEPT ![d] = job] /\ x.holders = p.holders
        /\ x.caller = p.caller /\ x.inFlight = p.inFlight /\ x.other = p.other
        /\ x.cached.wasm \in {p.cached.wasm, "good"} /\ (p.files => x.files)
    BY <1>1, <2>3 DEF Typed, PageType
  <2> HIDE DEF x
  <2> QED BY <1>1, <2>1, <2>2, <2>4, PartKept
<1>3. CASE p.dl[d].copy # "good" /\ ~p.dl[d].again
  <2> DEFINE job == [p.dl[d] EXCEPT !.wasm = "asked", !.again = TRUE, !.tries = 0]
             x == [p EXCEPT !.dl[d] = job]
  <2>1. p' = Asks(x, d)
    BY <1>3 DEF WasmChecked
  <2>2. /\ job \in DownloadType /\ job.pc = "parts" /\ job.joiners = p.dl[d].joiners /\ job.stopping = p.dl[d].stopping
        /\ job.linger = p.dl[d].linger /\ job.outcome = p.dl[d].outcome /\ job.wasm = "asked"
    <3>1. p.dl[d] \in DownloadType /\ 0 \in 0..MaxRetries
      BY <1>1, BoundsAssumption
    <3> QED BY <3>1, <1>1 DEF DownloadType
  <2> HIDE DEF job
  <2>3. [p.dl EXCEPT ![d] = job] \in Seq(DownloadType)
    BY <1>1, <2>2, JobSet
  <2>4. /\ x \in PageType /\ x.dl = [p.dl EXCEPT ![d] = job] /\ x.holders = p.holders
        /\ x.caller = p.caller /\ x.inFlight = p.inFlight
        /\ x.cached = p.cached /\ x.files = p.files /\ x.other = p.other
    BY <1>1, <2>3 DEF Typed, PageType
  <2> HIDE DEF x
  <2> QED BY <1>1, <2>1, <2>2, <2>4, PartKept
<1>4. CASE p.dl[d].copy # "good" /\ p.dl[d].again
  BY <1>1, <1>4, FailedKeeps DEF Typed, WasmChecked
<1> QED BY <1>2, <1>3, <1>4

LEMMA StateReadKeeps ==
  ASSUME Inv, NEW d \in Downloads(p), StateRead(d)
  PROVE  Kept
<1> DEFINE kept == [p EXCEPT !.files = @ \/ p.dl[d].keeps]
           job == [p.dl[d] EXCEPT !.state = "ok"]
           x == [kept EXCEPT !.dl[d] = job]
<1>1. Typed(p) /\ Checked(p) /\ p.dl[d] \in DownloadType /\ p.dl[d].pc = "parts"
  BY PageFields DEF Inv, Typed, StateRead
<1>2. /\ kept \in PageType /\ kept.dl = p.dl /\ kept.caller = p.caller /\ kept.holders = p.holders
      /\ kept.inFlight = p.inFlight /\ kept.cached = p.cached /\ kept.other = p.other /\ (p.files => kept.files)
  BY <1>1 DEF Typed, PageType, DownloadType
<1>3. p' = PartsDone(x, d) \/ p' = FailDownload(kept, d, "network")
  BY <1>2 DEF StateRead
<1> HIDE DEF kept
<1>4. /\ job \in DownloadType /\ job.pc = "parts" /\ job.joiners = p.dl[d].joiners /\ job.stopping = p.dl[d].stopping
      /\ job.linger = p.dl[d].linger /\ job.outcome = p.dl[d].outcome /\ job.wasm = p.dl[d].wasm
      /\ job.copy = p.dl[d].copy
  BY <1>1 DEF DownloadType
<1> HIDE DEF job
<1>5. [p.dl EXCEPT ![d] = job] \in Seq(DownloadType)
  BY <1>1, <1>4, JobSet
<1>6. /\ x \in PageType /\ x.dl = [p.dl EXCEPT ![d] = job] /\ x.holders = p.holders
      /\ x.caller = p.caller /\ x.inFlight = p.inFlight
      /\ x.cached = p.cached /\ x.files = kept.files /\ x.other = p.other
  BY <1>2, <1>5 DEF PageType
<1> HIDE DEF x
<1>7. /\ job.wasm \in {"asked", "check", "ok"} => x.cached.wasm # "bad"
      /\ job.wasm = "ok" => job.copy = "good"
  BY <1>1, <1>4, <1>6 DEF Checked
<1>8. CASE p' = PartsDone(x, d)
  BY <1>1, <1>2, <1>4, <1>6, <1>7, <1>8, PartKept
<1>9. CASE p' = FailDownload(kept, d, "network")
  BY <1>2, <1>9, FailedKeeps
<1> QED BY <1>3, <1>8, <1>9

LEMMA LibKeptKeeps ==
  ASSUME Inv, NEW d \in Downloads(p), LibKept(d)
  PROVE  Kept
<1>1. Typed(p) /\ Checked(p) /\ p.dl[d] \in DownloadType /\ p.dl[d].pc = "parts"
  BY PageFields DEF Inv, Typed, LibKept
<1>2. PICK lib \in {"none", "good", "bad"} :
        p' = PartsDone([p EXCEPT !.dl[d].lib = "ok", !.cached.lib = lib, !.files = @ \/ lib # "none"], d)
  BY DEF LibKept
<1> DEFINE job == [p.dl[d] EXCEPT !.lib = "ok"]
           x == [p EXCEPT !.dl[d] = job, !.cached.lib = lib, !.files = @ \/ lib # "none"]
<1>3. p' = PartsDone(x, d)
  BY <1>2
<1>4. /\ job \in DownloadType /\ job.pc = "parts" /\ job.joiners = p.dl[d].joiners /\ job.stopping = p.dl[d].stopping
      /\ job.linger = p.dl[d].linger /\ job.outcome = p.dl[d].outcome /\ job.wasm = p.dl[d].wasm
      /\ job.copy = p.dl[d].copy
  BY <1>1 DEF DownloadType
<1> HIDE DEF job
<1>5. [p.dl EXCEPT ![d] = job] \in Seq(DownloadType)
  BY <1>1, <1>4, JobSet
<1>6. /\ x \in PageType /\ x.dl = [p.dl EXCEPT ![d] = job] /\ x.holders = p.holders
      /\ x.caller = p.caller /\ x.inFlight = p.inFlight /\ x.other = p.other
      /\ x.cached.wasm = p.cached.wasm /\ (p.files => x.files)
  BY <1>1, <1>5 DEF Typed, PageType
<1> HIDE DEF x
<1>7. /\ job.wasm \in {"asked", "check", "ok"} => x.cached.wasm # "bad"
      /\ job.wasm = "ok" => job.copy = "good"
  BY <1>1, <1>4, <1>6 DEF Checked
<1> QED BY <1>1, <1>3, <1>4, <1>6, <1>7, PartKept

LEMMA ForgetKeeps ==
  ASSUME Inv, NEW d \in Downloads(p), Forget(d)
  PROVE  Kept
<1> DEFINE x == [p EXCEPT !.other.files = @ /\ p.other.at # "away"]
<1>1. Typed(p) /\ Waiting(p) /\ Checked(p) /\ p' = SettleDownload(x, d, "ok")
  BY DEF Inv, Forget
<1>2. /\ x \in PageType /\ x.dl = p.dl /\ x.caller = p.caller /\ x.holders = p.holders
      /\ x.inFlight = p.inFlight /\ x.cached = p.cached /\ x.other.at = p.other.at /\ x.files = p.files
  BY <1>1 DEF Typed, PageType
<1> HIDE DEF x
<1>3. Typed(x) /\ Downloads(x) = Downloads(p)
  BY <1>1, <1>2 DEF Typed, Downloads
<1>4. Waiting(x) /\ Checked(x)
  BY <1>1, <1>2, <1>3 DEF Waiting, Joined, Running, Holding, Checked
<1>5. Typed(p') /\ Waiting(p') /\ Checked(p') /\ p'.files = x.files
  BY <1>1, <1>3, <1>4, SettleKeeps
<1> QED BY <1>2, <1>5 DEF Kept, Inv

(* The other tab: it deletes only once nobody holds the image.             *)
LEMMA OtherKeeps ==
  ASSUME Inv, OtherLoads \/ OtherForgets \/ OtherDeletes \/ OtherCloses
  PROVE  Inv' /\ (p.files /\ ~p'.files => p.other.at = "deleting")
<1>1. Typed(p) /\ Waiting(p) /\ Checked(p)
  BY DEF Inv
<1>2. /\ p' \in PageType /\ p'.dl = p.dl /\ p'.caller = p.caller /\ p'.holders = p.holders
      /\ p'.inFlight = p.inFlight /\ p'.cached.wasm \in {p.cached.wasm, "none"}
      /\ (p'.other.at = "deleting" => p.holders = {})
      /\ (p.files /\ ~p'.files => p.other.at = "deleting")
  <2>1. CASE OtherLoads
    BY <1>1, <2>1 DEF Typed, PageType, OtherLoads
  <2>2. CASE OtherForgets
    BY <1>1, <2>2 DEF Typed, PageType, OtherForgets
  <2>3. CASE OtherDeletes
    BY <1>1, <2>3 DEF Typed, PageType, OtherDeletes
  <2>4. CASE OtherCloses
    BY <1>1, <2>4 DEF Typed, PageType, OtherCloses
  <2> QED BY <2>1, <2>2, <2>3, <2>4
<1>3. Typed(p') /\ Downloads(p') = Downloads(p)
  BY <1>1, <1>2 DEF Typed, Downloads
<1>4. Waiting(p')
  BY <1>1, <1>2, <1>3 DEF Waiting, Joined, Running, Holding
<1>5. Checked(p')
  BY <1>1, <1>2, <1>3 DEF Checked
<1> QED BY <1>2, <1>3, <1>4, <1>5 DEF Inv

LEMMA NextInv ==
  ASSUME Inv, Next
  PROVE  Inv' /\ (p.files /\ ~p'.files => p.other.at = "deleting")
<1>1. ASSUME NEW c \in Callers, CallStep(c)
      PROVE  Kept
  BY <1>1, CallKeeps, ReadManifestKeeps, JoinedKeeps, LeaveRequestedKeeps, LibImportedKeeps, LibFailedKeeps,
     ReleaseKeeps DEF CallStep
<1>2. ASSUME NEW d \in Downloads(p), RunStep(d) \/ PartStep(d) \/ LingerOver(d) \/ DeadlineOver(d)
      PROVE  Kept
  <2>1. CASE RunStep(d)
    BY <2>1, HeldKeeps, RoomFoundKeeps, ForgetKeeps DEF RunStep
  <2>2. CASE PartStep(d)
    BY <2>2, WasmMatchedKeeps, WasmArrivedKeeps, WasmBrokeKeeps, WasmRefusedKeeps, WasmCheckedKeeps,
       StateReadKeeps, LibKeptKeeps DEF PartStep
  <2> QED BY <1>2, <2>1, <2>2, LingerOverKeeps, DeadlineOverKeeps
<1>3. Kept => Inv' /\ (p.files /\ ~p'.files => p.other.at = "deleting")
  BY DEF Kept
<1> QED BY <1>1, <1>2, <1>3, OtherKeeps DEF Next

---------------------------------------------------------------------------
(* The theorems *)

\* Whoever calls, leaves or fails, and in whatever order: every call, download and lock has
\* the record the code would give it (the page's `p`, as loadBundle() and BundleDownload keep it).
THEOREM InvHolds == Spec => []Inv
<1>1. Inv /\ UNCHANGED vars => Inv'
  BY DEF Inv, vars, Typed, Waiting, Joined, Running, Holding, Checked, Downloads
<1>2. Inv /\ [Next]_vars => Inv'
  BY <1>1, NextInv
<1> QED BY <1>2, InitInv, PTL DEF Spec

LEMMA HeardFollows == Inv => CallersAreHeard
<1> SUFFICES ASSUME Inv PROVE CallersAreHeard
  OBVIOUS
<1>1. Typed(p) /\ Joined(p) /\ Running(p)
  BY DEF Inv, Waiting
<1>2. TypeOK
  BY <1>1 DEF Typed, TypeOK
<1>3. JoinersWait
  <2>1. \A d \in Downloads(p) : p.dl[d].joiners \subseteq Callers
    BY <1>1, PageFields DEF Typed, DownloadType
  <2>2. 0 \notin Downloads(p)
    BY DEF Downloads
  <2> QED BY <1>1, <2>1, <2>2 DEF Joined, Running, JoinersWait
<1>4. OneDownload
  <2> DEFINE alive == {d \in Downloads(p) : p.dl[d].pc # "done" /\ ~p.dl[d].stopping}
  <2>1. alive \subseteq {p.inFlight}
    BY <1>1 DEF Running
  <2>2. IsFiniteSet({p.inFlight}) /\ Cardinality({p.inFlight}) = 1
    BY FS_Singleton
  <2>3. Cardinality(alive) <= 1
    BY <2>1, <2>2, FS_Subset
  <2> QED BY <2>3 DEF OneDownload
<1>5. WhoStaysIsNotAborted
  BY <1>1 DEF Joined, WhoStaysIsNotAborted
<1>6. AloneIsStopping
  BY <1>1 DEF Running, AloneIsStopping
<1> QED BY <1>2, <1>3, <1>4, <1>5, <1>6 DEF CallersAreHeard

LEMMA SafeFollows == Inv => FilesAreSafe
<1> SUFFICES ASSUME Inv PROVE FilesAreSafe
  OBVIOUS
<1>1. Typed(p) /\ Holding(p) /\ Checked(p)
  BY DEF Inv, Waiting
<1>2. OnlyGoodWasm
  BY <1>1 DEF Checked, OnlyGoodWasm
<1>3. LocksAreReleased
  <2>1. p.holders \subseteq Callers \cup {<<d>> : d \in 1..MaxDownloads}
    BY <1>1, PageFields DEF Typed
  <2> QED BY <1>1, <2>1 DEF Holding, LocksAreReleased
<1> QED BY <1>2, <1>3 DEF FilesAreSafe

\* For any calls, any number of downloads and retries: each caller that waits is a joiner of one
\* download that has not settled, one download runs at a time beside those that are stopping, one
\* that nobody waits for is on its way out, and only who left hears `aborted` (joinDownload(),
\* #leave(), #lingerIfAlone() and #settle() of vm_download.js).
THEOREM CallersHeard == Spec => []CallersAreHeard
BY InvHolds, HeardFollows, PTL

\* v86.wasm is used only when it is what the manifest names, and in the end no lock is left
\* (readWhole() of vm_download.js, holdImage() of vm_cache.js).
THEOREM FilesSafe == Spec => []FilesAreSafe
BY InvHolds, SafeFollows, PTL

\* Another tab deletes no file under a download or a machine of this page: the lock it takes
\* for that, it gets only when nobody here needs the files (forgetOtherImages() of vm_cache.js).
THEOREM FilesStay == Spec => InUseFilesStay
<1>1. Inv /\ Next => (p.files /\ ~p'.files => ~InUse)
  <2> SUFFICES ASSUME Inv, Next, p.files, ~p'.files PROVE ~InUse
    OBVIOUS
  <2>1. Typed(p) /\ Holding(p) /\ p.holders = {}
    BY NextInv DEF Inv, Waiting, Holding
  <2>2. \A d \in Downloads(p) : d \in 1..MaxDownloads
    BY <2>1, PageFields, BoundsAssumption DEF Typed, Downloads
  <2> QED BY <2>1, <2>2 DEF Holding, InUse, Callers
<1>2. Inv /\ [Next]_vars => [p.files /\ ~p'.files => ~InUse]_vars
  BY <1>1
<1> QED BY <1>2, InvHolds, PTL DEF Spec, InUseFilesStay
-----------------------------------------------------------------------------
(* Multiples of a piece's length. *)

LEMMA MultipleIs ==
  ASSUME NEW P \in Nat \ {0}, NEW k \in Nat
  PROVE  (P * k) % P = 0
<1> DEFINE y == P * k
           d == y \div P
           m == y % P
<1>1. y \in Nat
  OBVIOUS
<1> HIDE DEF y
<1>2. d \in Nat /\ m \in 0 .. (P - 1) /\ y = P * d + m
  BY <1>1
<1> HIDE DEF d, m
<1>3. P * d + m = P * k
  BY <1>2 DEF y
<1>4. CASE k > d
  <2>1. P * k >= P * (d + 1)
    BY <1>2, <1>4
  <2>2. P * (d + 1) = P * d + P
    BY <1>2
  <2> QED BY <1>2, <1>3, <2>1, <2>2
<1>5. CASE k < d
  <2>1. P * d >= P * (k + 1)
    BY <1>2, <1>5
  <2>2. P * (k + 1) = P * k + P
    BY <1>2
  <2> QED BY <1>2, <1>3, <2>1, <2>2
<1>6. CASE k = d
  <2>1. m = 0
    <3>1. P * k = P * d /\ P * k \in Int
      BY <1>2, <1>6
    <3> HIDE <1>6
    <3> QED BY <1>2, <1>3, <3>1
  <2> QED BY <2>1 DEF m, y
<1> QED BY <1>2, <1>4, <1>5, <1>6

LEMMA NextMultiple ==
  ASSUME NEW P \in Nat \ {0}, NEW x \in Nat, x % P = 0
  PROVE  (x + P) % P = 0
<1> DEFINE q == x \div P
<1>1. q \in Nat /\ x = P * q
  OBVIOUS
<1> HIDE DEF q
<1>2. x + P = P * (q + 1)
  BY <1>1
<1> QED BY <1>1, <1>2, MultipleIs

LEMMA MultiplesApart ==
  ASSUME NEW P \in Nat \ {0}, NEW x \in Nat, NEW y \in Nat, x % P = 0, y % P = 0, x < y
  PROVE  x + P <= y
<1> DEFINE q == x \div P
           u == y \div P
<1>1. q \in Nat /\ x = P * q /\ u \in Nat /\ y = P * u
  OBVIOUS
<1> HIDE DEF q, u
<1>2. q < u
  <2> SUFFICES ASSUME u <= q PROVE FALSE
    BY <1>1
  <2>1. P * u <= P * q
    BY <1>1
  <2> QED BY <1>1, <2>1
<1>3. P * (q + 1) <= P * u
  BY <1>1, <1>2
<1>4. P * (q + 1) = x + P
  BY <1>1
<1> QED BY <1>1, <1>3, <1>4

-----------------------------------------------------------------------------
(* gaps() and split(): every byte that is not held is in one segment.      *)

LEMMA SegmentIs ==
  /\ \A s \in Segments : s.from \in Bytes /\ s.to \in Bytes /\ s.from <= s.to
  /\ \A s \in Segments : Of(s) \subseteq Bytes
  /\ \A a, b \in Bytes : a <= b => [from |-> a, to |-> b] \in Segments
  /\ \A s, t \in Segments : s.from = t.from /\ s.to = t.to => s = t
  /\ \A s \in Segments : s.from \in Of(s)
BY SizesAssumption DEF Segments, Bytes, Of

LEMMA GapOf ==
  ASSUME NEW have \in SUBSET Bytes, NEW b \in Bytes \ have
  PROVE  \E g \in Gaps(have) : b \in Of(g)
<1> USE SizesAssumption
<1> DEFINE Before == {a \in 0 .. b : (a .. b) \cap have = {}}
           After == {n \in Nat : \E e \in Bytes : n = Size - e /\ e >= b /\ (b .. e) \cap have = {}}
<1>1. b \in Before /\ Before \subseteq Nat
  BY DEF Bytes
<1>2. PICK a \in Before : \A m \in Before : a <= m
  <2> HIDE DEF Before
  <2> QED BY <1>1, LeastNumber
<1>3. After # {} /\ After \subseteq Nat
  <2>1. Size - b \in After
    BY DEF Bytes
  <2> QED BY <2>1
<1>4. PICK n \in After : \A m \in After : n <= m
  <2> HIDE DEF After
  <2> QED BY <1>3, LeastNumber
<1>5. PICK e \in Bytes : n = Size - e /\ e >= b /\ (b .. e) \cap have = {}
  BY <1>4
<1> DEFINE g == [from |-> a, to |-> e]
<1>6. a \in Bytes /\ a <= b /\ (a .. b) \cap have = {}
  BY <1>2 DEF Bytes
<1>7. g \in Segments /\ b \in Of(g) /\ Of(g) \cap have = {}
  BY <1>5, <1>6, SegmentIs DEF Of, Bytes
<1>8. ASSUME a - 1 \in Bytes PROVE a - 1 \in have
  <2> SUFFICES ASSUME a - 1 \notin have PROVE FALSE
    OBVIOUS
  <2>1. a - 1 \in 0 .. b
    BY <1>6, <1>8 DEF Bytes
  <2>2. ((a - 1) .. b) \cap have = {}
    BY <1>6, <1>8 DEF Bytes
  <2> QED BY <1>2, <1>6, <2>1, <2>2 DEF Bytes
<1>9. ASSUME e + 1 \in Bytes PROVE e + 1 \in have
  <2> SUFFICES ASSUME e + 1 \notin have PROVE FALSE
    OBVIOUS
  <2>1. (b .. (e + 1)) \cap have = {}
    BY <1>5, <1>9 DEF Bytes
  <2>2. Size - (e + 1) \in After
    BY <1>5, <1>9, <2>1 DEF Bytes
  <2> QED BY <1>4, <1>5, <2>2 DEF Bytes
<1>10. g \in Gaps(have)
  BY <1>7, <1>8, <1>9 DEF Gaps
<1> HIDE DEF g
<1> QED BY <1>7, <1>10

LEMMA GapsApart ==
  ASSUME NEW have \in SUBSET Bytes, NEW g \in Gaps(have), NEW h \in Gaps(have),
         NEW b \in Of(g), b \in Of(h)
  PROVE  g = h
<1> USE SizesAssumption
<1>1. g \in Segments /\ h \in Segments
  BY DEF Gaps
<1>2. \A x, y \in Gaps(have) : b \in Of(x) /\ b \in Of(y) => x.from <= y.from /\ x.to >= y.to
  <2> SUFFICES ASSUME NEW x \in Gaps(have), NEW y \in Gaps(have), b \in Of(x), b \in Of(y)
               PROVE  x.from <= y.from /\ x.to >= y.to
    OBVIOUS
  <2>1. x \in Segments /\ y \in Segments
    BY DEF Gaps
  <2>2. /\ x.from \in Nat /\ x.to \in Nat /\ y.from \in Nat /\ y.to \in Nat /\ x.to < Size
        /\ x.from <= b /\ b <= x.to /\ y.from <= b /\ b <= y.to /\ b \in Nat /\ y.to < Size
    BY <2>1, SegmentIs DEF Of, Bytes
  <2>3. ASSUME y.from < x.from PROVE FALSE
    <3>1. x.from - 1 \in Bytes /\ x.from - 1 \in Of(y)
      BY <2>2, <2>3 DEF Of, Bytes
    <3>2. x.from - 1 \in have
      BY <3>1 DEF Gaps
    <3> QED BY <3>1, <3>2 DEF Gaps
  <2>4. ASSUME x.to < y.to PROVE FALSE
    <3>1. x.to + 1 \in Bytes /\ x.to + 1 \in Of(y)
      BY <2>2, <2>4 DEF Of, Bytes
    <3>2. x.to + 1 \in have
      BY <3>1 DEF Gaps
    <3> QED BY <3>1, <3>2 DEF Gaps
  <2> QED BY <2>2, <2>3, <2>4
<1>3. g.from = h.from /\ g.to = h.to
  BY <1>1, <1>2, SegmentIs DEF Bytes
<1> QED BY <1>1, <1>3, SegmentIs

LEMMA SplitCovers ==
  ASSUME NEW have \in SUBSET Bytes, NEW g \in Gaps(have), NEW b \in Of(g)
  PROVE  \E s \in Missing(have) : b \in Of(s)
<1> USE SizesAssumption
<1>1. g \in Segments
  BY DEF Gaps
<1>2. /\ g.from \in Nat /\ g.to \in Nat /\ g.to < Size /\ b \in Nat /\ g.from <= b /\ b <= g.to
  BY <1>1, SegmentIs DEF Of, Bytes
<1> DEFINE Starts == {n \in Nat : \E m \in Of(g) : n = b - m /\ (m - g.from) % PieceBytes = 0}
<1>3. Starts # {} /\ Starts \subseteq Nat
  <2>1. (g.from - g.from) % PieceBytes = 0
    <3>1. g.from - g.from = PieceBytes * 0
      BY <1>2
    <3> QED BY <3>1, MultipleIs
  <2>2. b - g.from \in Starts
    BY <1>2, <2>1 DEF Of
  <2> QED BY <2>2
<1>4. PICK n \in Starts : \A m \in Starts : n <= m
  <2> HIDE DEF Starts
  <2> QED BY <1>3, LeastNumber
<1>5. PICK m \in Of(g) : n = b - m /\ (m - g.from) % PieceBytes = 0
  BY <1>4
<1>6. m \in Nat /\ g.from <= m /\ m <= b
  BY <1>2, <1>4, <1>5 DEF Of
<1>7. b < m + PieceBytes
  <2> SUFFICES ASSUME m + PieceBytes <= b PROVE FALSE
    BY <1>2, <1>6
  <2>1. ((m - g.from) + PieceBytes) % PieceBytes = 0
    <3>1. m - g.from \in Nat
      BY <1>2, <1>6
    <3> QED BY <1>5, <3>1, NextMultiple
  <2>2. (m - g.from) + PieceBytes = (m + PieceBytes) - g.from
    BY <1>2, <1>6
  <2>3. ((m + PieceBytes) - g.from) % PieceBytes = 0
    BY <2>1, <2>2
  <2>4. m + PieceBytes \in Of(g)
    BY <1>2, <1>6 DEF Of
  <2>5. b - (m + PieceBytes) \in Starts
    BY <1>2, <1>6, <2>3, <2>4
  <2> HIDE DEF Starts
  <2> QED BY <1>2, <1>4, <1>5, <1>6, <2>5
<1> DEFINE to == IF m + PieceBytes - 1 <= g.to THEN m + PieceBytes - 1 ELSE g.to
           s == [from |-> m, to |-> to]
<1>8. to \in Bytes /\ m \in Bytes /\ m <= to /\ b <= to
  BY <1>2, <1>6, <1>7 DEF Bytes
<1>9. s \in Segments /\ b \in Of(s)
  BY <1>2, <1>6, <1>8, SegmentIs DEF Of
<1>10. s \in Missing(have)
  BY <1>5, <1>9 DEF Missing, Split
<1> HIDE DEF s
<1> QED BY <1>9, <1>10

LEMMA MissingIs ==
  ASSUME NEW have \in SUBSET Bytes
  PROVE  /\ Missing(have) \subseteq Segments
         /\ \A s \in Missing(have) : \A b \in Of(s) : b \notin have
         /\ \A s, t \in Missing(have) : s # t => \A b \in Of(s) : b \notin Of(t)
         /\ \A b \in Bytes : b \in have \/ \E s \in Missing(have) : b \in Of(s)
<1> USE SizesAssumption
<1>1. Missing(have) \subseteq Segments
  BY DEF Missing, Split
<1>2. ASSUME NEW s \in Missing(have)
      PROVE  \E g \in Gaps(have) :
               /\ s.from \in Of(g) /\ (s.from - g.from) % PieceBytes = 0
               /\ s.to = IF s.from + PieceBytes - 1 <= g.to THEN s.from + PieceBytes - 1 ELSE g.to
               /\ Of(s) \subseteq Of(g)
  <2>1. PICK g \in Gaps(have) :
               /\ s.from \in Of(g) /\ (s.from - g.from) % PieceBytes = 0
               /\ s.to = IF s.from + PieceBytes - 1 <= g.to THEN s.from + PieceBytes - 1 ELSE g.to
    BY DEF Missing, Split
  <2>2. g \in Segments /\ s \in Segments
    BY <1>1 DEF Gaps
  <2>3. Of(s) \subseteq Of(g)
    BY <2>1, <2>2, SegmentIs DEF Of, Bytes
  <2> QED BY <2>1, <2>3
<1>3. \A s \in Missing(have) : \A b \in Of(s) : b \notin have
  BY <1>2 DEF Gaps
<1>4. ASSUME NEW s \in Missing(have), NEW t \in Missing(have), NEW b \in Of(s), b \in Of(t)
      PROVE  s = t
  <2>1. PICK g \in Gaps(have) :
               /\ s.from \in Of(g) /\ (s.from - g.from) % PieceBytes = 0
               /\ s.to = IF s.from + PieceBytes - 1 <= g.to THEN s.from + PieceBytes - 1 ELSE g.to
               /\ Of(s) \subseteq Of(g)
    BY <1>2
  <2>2. PICK h \in Gaps(have) :
               /\ t.from \in Of(h) /\ (t.from - h.from) % PieceBytes = 0
               /\ t.to = IF t.from + PieceBytes - 1 <= h.to THEN t.from + PieceBytes - 1 ELSE h.to
               /\ Of(t) \subseteq Of(h)
    BY <1>2
  <2>3. g = h
    BY <1>4, <2>1, <2>2, GapsApart
  <2>4. s \in Segments /\ t \in Segments /\ g \in Segments
    BY <1>1 DEF Gaps
  <2>5. /\ s.from \in Nat /\ s.to \in Nat /\ t.from \in Nat /\ t.to \in Nat /\ g.from \in Nat /\ g.to \in Nat
        /\ g.from <= s.from /\ g.from <= t.from
        /\ b \in Nat /\ s.from <= b /\ b <= s.to /\ t.from <= b /\ b <= t.to
    BY <1>4, <2>1, <2>2, <2>3, <2>4, SegmentIs DEF Of, Bytes
  <2>6. b < s.from + PieceBytes /\ b < t.from + PieceBytes
    BY <2>1, <2>2, <2>3, <2>5
  <2>7. s.from - g.from \in Nat /\ t.from - g.from \in Nat
    BY <2>5
  <2>8. ~ s.from < t.from
    <3> SUFFICES ASSUME s.from < t.from PROVE FALSE
      OBVIOUS
    <3>1. (s.from - g.from) + PieceBytes <= t.from - g.from
      <4>1. s.from - g.from < t.from - g.from
        BY <2>5
      <4> QED BY <2>1, <2>2, <2>3, <2>7, <4>1, MultiplesApart
    <3> QED BY <2>5, <2>6, <3>1
  <2>9. ~ t.from < s.from
    <3> SUFFICES ASSUME t.from < s.from PROVE FALSE
      OBVIOUS
    <3>1. (t.from - g.from) + PieceBytes <= s.from - g.from
      <4>1. t.from - g.from < s.from - g.from
        BY <2>5
      <4> QED BY <2>1, <2>2, <2>3, <2>7, <4>1, MultiplesApart
    <3> QED BY <2>5, <2>6, <3>1
  <2>10. s.from = t.from
    BY <2>5, <2>8, <2>9
  <2> QED BY <2>1, <2>2, <2>3, <2>4, <2>10, SegmentIs
<1>5. \A b \in Bytes : b \in have \/ \E s \in Missing(have) : b \in Of(s)
  BY GapOf, SplitCovers
<1> QED BY <1>1, <1>3, <1>4, <1>5

-----------------------------------------------------------------------------
(* The n-th segment of a queue, for every n up to its length.              *)

SegmentsApart(q) == \A s, t \in q : s # t => \A b \in Of(s) : b \notin Of(t)
Rank(q, s) == Cardinality({t \in q : t.from < s.from})

LEMMA QueueIsFinite ==
  ASSUME NEW q \in SUBSET Segments, SegmentsApart(q)
  PROVE  /\ IsFiniteSet(q) /\ Cardinality(q) \in Nat
         /\ \A s, t \in q : s # t => s.from # t.from
<1>1. \A s, t \in q : s # t => s.from # t.from
  BY SegmentIs DEF SegmentsApart
<1> DEFINE f == [s \in q |-> s.from]
<1>2. f \in Injection(q, Bytes)
  <2>1. f \in [q -> Bytes]
    BY SegmentIs
  <2>2. \A s, t \in q : f[s] = f[t] => s = t
    BY <1>1
  <2> HIDE DEF f
  <2> QED BY <2>1, <2>2 DEF Injection, IsInjective
<1>3. IsFiniteSet(Bytes)
  BY SizesAssumption, FS_Interval DEF Bytes
<1> HIDE DEF f
<1>4. IsFiniteSet(q)
  BY <1>2, <1>3, FS_Injection
<1> QED BY <1>1, <1>4, FS_CardinalityType

LEMMA NthIs ==
  ASSUME NEW q \in SUBSET Segments, SegmentsApart(q), NEW n \in 1 .. Cardinality(q)
  PROVE  Nth(q, n) \in q /\ Rank(q, Nth(q, n)) = n - 1
<1>1. /\ IsFiniteSet(q) /\ Cardinality(q) \in Nat
      /\ \A s, t \in q : s # t => s.from # t.from
  BY QueueIsFinite
<1> DEFINE c == Cardinality(q)
           rank == [s \in q |-> Rank(q, s)]
           Below(s) == {t \in q : t.from < s.from}
<1>2. \A s \in q : s.from \in Nat
  BY SegmentIs DEF Bytes
<1>3. ASSUME NEW s \in q
      PROVE  IsFiniteSet(Below(s)) /\ Rank(q, s) \in 0 .. (c - 1)
  <2>1. Below(s) \in SUBSET q /\ s \notin Below(s)
    BY <1>2
  <2>2. IsFiniteSet(Below(s)) /\ Cardinality(Below(s)) <= c /\ Cardinality(Below(s)) # c
    <3> HIDE DEF Below
    <3> QED BY <1>1, <2>1, FS_Subset
  <2>3. Cardinality(Below(s)) \in Nat
    BY <2>2, FS_CardinalityType
  <2>4. Rank(q, s) = Cardinality(Below(s))
    BY DEF Rank
  <2> HIDE DEF Below
  <2> QED BY <1>1, <2>2, <2>3, <2>4
<1>4. ASSUME NEW s \in q, NEW t \in q, s.from < t.from
      PROVE  Rank(q, s) # Rank(q, t)
  <2>1. Below(s) \in SUBSET Below(t) /\ s \in Below(t) /\ s \notin Below(s)
    BY <1>2, <1>4
  <2>2. Rank(q, s) = Cardinality(Below(s)) /\ Rank(q, t) = Cardinality(Below(t))
    BY DEF Rank
  <2>3. IsFiniteSet(Below(t))
    BY <1>3
  <2> HIDE DEF Below
  <2> QED BY <2>1, <2>2, <2>3, FS_Subset
<1>5. rank \in Injection(q, 0 .. (c - 1))
  <2>1. rank \in [q -> 0 .. (c - 1)]
    BY <1>3
  <2>2. \A s, t \in q : rank[s] = rank[t] => s = t
    BY <1>1, <1>2, <1>4
  <2> HIDE DEF rank
  <2> QED BY <2>1, <2>2 DEF Injection, IsInjective
<1>6. IsFiniteSet(0 .. (c - 1)) /\ Cardinality(0 .. (c - 1)) = c
  <2>1. c \in Nat
    BY <1>1
  <2> HIDE DEF c
  <2>2. IsFiniteSet(0 .. (c - 1)) /\ Cardinality(0 .. (c - 1)) = IF 0 > c - 1 THEN 0 ELSE c - 1 - 0 + 1
    BY <2>1, FS_Interval
  <2> QED BY <2>1, <2>2
<1>7. rank \in Surjection(q, 0 .. (c - 1))
  <2> HIDE DEF rank, c
  <2> QED BY <1>5, <1>6, FS_Injection DEF c
<1>8. n - 1 \in 0 .. (c - 1)
  BY <1>1
<1>9. PICK s \in q : rank[s] = n - 1
  <2> HIDE DEF rank, c
  <2> QED BY <1>7, <1>8 DEF Surjection
<1>10. \E t \in q : Rank(q, t) = n - 1
  BY <1>9
<1> QED BY <1>10 DEF Nth, Rank

LEMMA FirstIs ==
  ASSUME NEW q \in SUBSET Segments, SegmentsApart(q), q # {}
  PROVE  Nth(q, 1) \in q
<1>1. IsFiniteSet(q) /\ Cardinality(q) \in Nat
  BY QueueIsFinite
<1>2. Cardinality(q) # 0
  BY <1>1, FS_EmptySet
<1>3. 1 \in 1 .. Cardinality(q)
  BY <1>1, <1>2
<1> QED BY <1>3, NthIs

-----------------------------------------------------------------------------
(* The invariant.                                                          *)

Readers ==
  [cache : SUBSET Pieces, full : BOOLEAN, ranges : BOOLEAN, store : BOOLEAN,
   have : SUBSET Bytes, bad : SUBSET Bytes, counted : [cache : 0..Size, network : 0..Size],
   queue : SUBSET Segments, mode : {"none", "ranged", "whole"},
   worker : [Workers -> [at : {"off", "asked", "stream", "waiting"}, from : Bytes, to : Bytes,
                         expected : 0..Size, got : 0..Size, streak : 0..MaxReadRetries]],
   pc : {"idle", "reading", "check", "failed", "done"}, attempt : 0..1,
   why : {"none", "ok", "notIntact", "network", "http", "aborted"},
   aborted : BOOLEAN, load : 0..MaxLoads]

(* A request writes inside the segment it was made for.                    *)
Fits(x, i) ==
  LET w == x.worker[i] IN
  /\ w.at # "off" => w.from <= w.to
  /\ w.at = "stream" =>
       /\ w.got <= w.expected /\ w.expected >= 1
       /\ x.mode = "ranged" => w.expected <= w.to - w.from + 1
       /\ x.mode = "whole" => w.expected = Size

(* What is held, with what has arrived for the workers of W.               *)
Coming(x, W) == UNION {Arrived(x, i) : i \in W \cap Streaming(x)}
HereOf(x, W) == x.have \cup Coming(x, W)
CountsOf(x, W) == x.counted.cache + x.counted.network = Cardinality(HereOf(x, W))

(* The workers but those of W are between two requests: whatever the mode. *)
Base(x, W) ==
  /\ x \in Readers
  /\ \A piece \in x.cache : piece.bad \subseteq Of(piece)
  /\ \A i \in W : Fits(x, i)
  /\ CountsOf(x, W)
  /\ x.mode # "ranged" => W \cap Active(x) \subseteq {1}
  /\ x.mode = "none" => W \cap Streaming(x) = {}
  /\ x.mode = "whole" /\ W \cap Streaming(x) # {} => x.have = {} /\ x.counted.cache = 0

(* The pieces kept are sound: of the bytes that are held, and wrong only   *)
(* where those are.                                                        *)
Sound(x) == \A piece \in x.cache : ~ piece.torn /\ Of(piece) \subseteq x.have /\ piece.bad \subseteq x.bad

(* A byte is held, or left for a worker that is not of W, or in the        *)
(* segment of one worker, or in one that waits.                            *)
Apart(x, W, rest) ==
  LET busy == W \cap Active(x) IN
  /\ rest \subseteq Bytes \ x.have
  /\ \A i \in busy : \A b \in Of(x.worker[i]) : b \notin x.have /\ b \notin rest
  /\ \A s \in x.queue : \A b \in Of(s) : b \notin x.have /\ b \notin rest
  /\ \A i, j \in busy : i # j => \A b \in Of(x.worker[i]) : b \notin Of(x.worker[j])
  /\ \A s, t \in x.queue : s # t => \A b \in Of(s) : b \notin Of(t)
  /\ \A i \in busy, s \in x.queue : \A b \in Of(s) : b \notin Of(x.worker[i])
  /\ \A b \in Bytes : \/ b \in x.have \/ b \in rest
                      \/ \E i \in busy : b \in Of(x.worker[i])
                      \/ \E s \in x.queue : b \in Of(s)

(* A read that is on its way.                                              *)
Goes(x, W, rest) ==
  /\ Base(x, W) /\ x.pc = "reading" /\ x.why = "none"
  /\ x.mode # "whole" => Apart(x, W, rest) /\ Sound(x)

(* One that is not.                                                        *)
Ended(x) ==
  /\ Base(x, Workers) /\ Active(x) = {}
  /\ x.pc \in {"idle", "check"} => x.why = "none"
  /\ x.pc = "failed" => x.why \notin {"none", "ok"}
  /\ x.pc = "check" => x.have = Bytes /\ Sound(x)
  /\ x.pc = "done" => /\ x.why # "none"
                      /\ x.why = "ok" => x.have = Bytes /\ x.bad = {} /\ Sound(x)
                      /\ x.why = "notIntact" /\ ~ x.aborted => x.cache = {}

ReaderInv(x) == IF x.pc = "reading" THEN Goes(x, Workers, {}) ELSE Ended(x)
ReadInv == ReaderInv(r)

-----------------------------------------------------------------------------
(* What the parts of the invariant are about.                              *)

LEMMA WorkerIs ==
  ASSUME NEW x \in Readers, NEW i \in Workers
  PROVE  /\ x.worker[i].from \in Bytes /\ x.worker[i].to \in Bytes
         /\ x.worker[i].expected \in 0 .. Size /\ x.worker[i].got \in 0 .. Size
         /\ x.worker[i].streak \in 0 .. MaxReadRetries
         /\ x.worker[i].at \in {"off", "asked", "stream", "waiting"}
         /\ x.worker[i] \in [at : {"off", "asked", "stream", "waiting"}, from : Bytes, to : Bytes,
                             expected : 0 .. Size, got : 0 .. Size, streak : 0 .. MaxReadRetries]
BY DEF Readers

(* What has arrived is of the file, and of the segment it was asked for.   *)
LEMMA ArrivedIs ==
  ASSUME NEW x, NEW W \in SUBSET Workers, Base(x, W), NEW i \in W, i \in Streaming(x)
  PROVE  /\ Arrived(x, i) \subseteq Bytes
         /\ x.mode = "ranged" => Arrived(x, i) \subseteq Of(x.worker[i])
         /\ x.mode \in {"ranged", "whole"}
<1> USE SizesAssumption
<1>1. x \in Readers /\ i \in Workers /\ Fits(x, i) /\ x.worker[i].at = "stream"
  BY DEF Base, Streaming
<1>2. x.mode \in {"none", "ranged", "whole"} /\ x.mode # "none"
  BY <1>1 DEF Base, Readers
<1>3. /\ x.worker[i].from \in Nat /\ x.worker[i].to \in Nat /\ x.worker[i].to < Size
      /\ x.worker[i].got \in Nat /\ x.worker[i].expected \in Nat
  BY <1>1, WorkerIs DEF Bytes
<1>4. CASE x.mode = "ranged"
  BY <1>1, <1>3, <1>4 DEF Fits, Arrived, Bytes, Of
<1>5. CASE x.mode = "whole"
  BY <1>1, <1>3, <1>5 DEF Fits, Arrived, Bytes
<1> QED BY <1>2, <1>4, <1>5

LEMMA HereIs ==
  ASSUME NEW x, NEW W \in SUBSET Workers, Base(x, W)
  PROVE  /\ x.have \subseteq Bytes /\ HereOf(x, W) \subseteq Bytes
         /\ IsFiniteSet(HereOf(x, W)) /\ Cardinality(HereOf(x, W)) \in 0 .. Size
<1>1. x.have \subseteq Bytes
  BY DEF Base, Readers
<1>2. HereOf(x, W) \subseteq Bytes
  BY <1>1, ArrivedIs DEF HereOf, Coming
<1>3. IsFiniteSet(Bytes) /\ Cardinality(Bytes) = Size
  <2>1. IsFiniteSet(0 .. (Size - 1)) /\ Cardinality(0 .. (Size - 1)) = IF 0 > Size - 1 THEN 0 ELSE Size - 1 - 0 + 1
    BY SizesAssumption, FS_Interval
  <2> QED BY <2>1, SizesAssumption DEF Bytes
<1>4. /\ IsFiniteSet(HereOf(x, W)) /\ Cardinality(HereOf(x, W)) <= Size
      /\ Cardinality(HereOf(x, W)) \in Nat
  BY <1>2, <1>3, FS_Subset, FS_CardinalityType
<1> QED BY <1>1, <1>2, <1>4, SizesAssumption

(* Reads that agree in what a part is about.                               *)
Alike(x, y, W) == y.mode = x.mode /\ \A i \in W : y.worker[i] = x.worker[i]

LEMMA SameArrivals ==
  ASSUME NEW x, NEW y, NEW W, Alike(x, y, W)
  PROVE  /\ W \cap Streaming(y) = W \cap Streaming(x) /\ W \cap Active(y) = W \cap Active(x)
         /\ \A i \in W : Arrived(y, i) = Arrived(x, i)
         /\ Coming(y, W) = Coming(x, W)
<1>1. W \cap Streaming(y) = W \cap Streaming(x) /\ W \cap Active(y) = W \cap Active(x)
  BY DEF Streaming, Active, Alike
<1>2. \A i \in W : Arrived(y, i) = Arrived(x, i)
  BY DEF Arrived, Alike
<1>3. Coming(y, W) = Coming(x, W)
  BY <1>1, <1>2 DEF Coming
<1> QED BY <1>1, <1>2, <1>3

CountAlike(x, y, W) == y.have = x.have /\ y.counted = x.counted /\ Alike(x, y, W)

LEMMA SameBase ==
  ASSUME NEW x, NEW y \in Readers, NEW W, Base(x, W), CountAlike(x, y, W),
         \A piece \in y.cache : piece.bad \subseteq Of(piece)
  PROVE  Base(y, W) /\ HereOf(y, W) = HereOf(x, W)
<1>2. /\ W \cap Streaming(y) = W \cap Streaming(x) /\ W \cap Active(y) = W \cap Active(x)
      /\ Coming(y, W) = Coming(x, W)
  <2>1. Alike(x, y, W)
    BY DEF CountAlike
  <2> QED BY <2>1, SameArrivals
<1>1. HereOf(y, W) = HereOf(x, W)
  BY <1>2 DEF HereOf, CountAlike
<1>3. CountsOf(y, W)
  BY <1>1 DEF CountsOf, Base, CountAlike
<1>4. \A i \in W : Fits(y, i)
  BY DEF Fits, Base, CountAlike, Alike
<1> QED BY <1>1, <1>2, <1>3, <1>4 DEF Base, CountAlike, Alike

PlacesAlike(x, y, W) == y.have = x.have /\ y.queue = x.queue /\ \A i \in W : y.worker[i] = x.worker[i]

LEMMA SameApart ==
  ASSUME NEW x, NEW y, NEW W, NEW rest, Apart(x, W, rest), PlacesAlike(x, y, W)
  PROVE  Apart(y, W, rest)
<1>1. W \cap Active(y) = W \cap Active(x)
  BY DEF Active, PlacesAlike
<1> QED BY <1>1 DEF Apart, PlacesAlike

LEMMA SameSound ==
  ASSUME NEW x, NEW y, Sound(x), y.cache = x.cache, y.have = x.have, y.bad = x.bad
  PROVE  Sound(y)
BY DEF Sound

-----------------------------------------------------------------------------
(* #keep() changes the cache at most, and never for the worse.             *)

SameButCache(x, y) ==
  /\ y.full = x.full /\ y.ranges = x.ranges /\ y.have = x.have /\ y.bad = x.bad /\ y.counted = x.counted
  /\ y.queue = x.queue /\ y.mode = x.mode /\ y.worker = x.worker /\ y.pc = x.pc
  /\ y.attempt = x.attempt /\ y.why = x.why /\ y.aborted = x.aborted /\ y.load = x.load

LEMMA KeepIs ==
  ASSUME NEW x \in Readers, \A piece \in x.cache : piece.bad \subseteq Of(piece), NEW spans \in SUBSET Segments
  PROVE  /\ Keep(x, spans) \in Readers /\ SameButCache(x, Keep(x, spans))
         /\ \A piece \in Keep(x, spans).cache : piece.bad \subseteq Of(piece)
         /\ Sound(x) /\ (\A s \in spans : Of(s) \subseteq x.have) => Sound(Keep(x, spans))
<1> DEFINE new == {[from |-> s.from, to |-> s.to, bad |-> x.bad \cap Of(s), torn |-> FALSE] : s \in spans}
           put == Put(x.cache, new)
<1>1. CASE Keep(x, spans) = x
  BY <1>1 DEF SameButCache
<1>2. CASE Keep(x, spans) = [x EXCEPT !.store = FALSE]
  <2>1. [x EXCEPT !.store = FALSE] \in Readers
    BY DEF Readers
  <2> DEFINE y == [x EXCEPT !.store = FALSE]
  <2>2. SameButCache(x, y) /\ y.cache = x.cache
    BY DEF Readers, SameButCache
  <2> HIDE DEF y
  <2>3. Sound(x) => Sound(y)
    BY <2>2 DEF SameButCache, Sound
  <2> QED BY <1>2, <2>1, <2>2, <2>3 DEF y
<1>3. CASE Keep(x, spans) = [x EXCEPT !.cache = put]
  <2>1. \A piece \in new : \E s \in spans :
          /\ piece = [from |-> s.from, to |-> s.to, bad |-> x.bad \cap Of(s), torn |-> FALSE]
          /\ Of(piece) = Of(s) /\ piece.bad = x.bad \cap Of(s) /\ ~ piece.torn
    BY DEF Of
  <2>2. \A s \in spans : s.from \in Bytes /\ s.to \in Bytes /\ Of(s) \subseteq Bytes
    BY SegmentIs
  <2>3. new \subseteq Pieces
    <3>1. x.bad \subseteq Bytes
      BY DEF Readers
    <3>2. ASSUME NEW piece \in new PROVE piece \in Pieces
      <4>1. PICK s \in spans : piece = [from |-> s.from, to |-> s.to, bad |-> x.bad \cap Of(s), torn |-> FALSE]
        OBVIOUS
      <4>2. x.bad \cap Of(s) \subseteq Bytes
        BY <3>1
      <4> QED BY <2>2, <4>1, <4>2 DEF Pieces
    <3> QED BY <3>2
  <2>4. put \subseteq x.cache \cup new
    BY DEF Put
  <2>5. put \in SUBSET Pieces
    BY <2>3, <2>4 DEF Readers
  <2> HIDE DEF new, put
  <2> DEFINE y == [x EXCEPT !.cache = put]
  <2>6. y \in Readers
    BY <2>5 DEF Readers
  <2>7. SameButCache(x, y) /\ y.cache = put
    BY DEF Readers, SameButCache
  <2>8. \A piece \in put : piece.bad \subseteq Of(piece)
    BY <2>1, <2>4
  <2> HIDE DEF y
  <2>9. ASSUME Sound(x), \A s \in spans : Of(s) \subseteq x.have
        PROVE  Sound(y)
    <3>1. \A piece \in put : ~ piece.torn /\ Of(piece) \subseteq x.have /\ piece.bad \subseteq x.bad
      BY <2>1, <2>4, <2>9 DEF Sound
    <3> QED BY <2>7, <3>1 DEF Sound, SameButCache
  <2> QED BY <1>3, <2>6, <2>7, <2>8, <2>9 DEF y
<1> QED BY <1>1, <1>2, <1>3 DEF Keep

-----------------------------------------------------------------------------
(* A read that fails, and the requests that end with it.                   *)

(* StartOver(), of all that had arrived in the mode without ranges.        *)
LEMMA StartOverIs ==
  ASSUME NEW x, Base(x, Workers), x.mode = "whole"
  PROVE  LET n == Cardinality(Coming(x, Workers)) IN
         /\ n \in Nat /\ n <= x.counted.network
         /\ Streaming(x) # {} => x.have = {} /\ x.counted.cache = 0
         /\ x.counted.cache + (x.counted.network - n) = Cardinality(x.have)
<1> DEFINE came == Coming(x, Workers)
           n == Cardinality(came)
<1>1. /\ x.counted.cache \in 0 .. Size /\ x.counted.network \in 0 .. Size
      /\ x.counted.cache + x.counted.network = Cardinality(x.have \cup came)
  BY DEF Base, Readers, CountsOf, HereOf
<1>2. IsFiniteSet(x.have \cup came) /\ IsFiniteSet(came) /\ n \in Nat /\ Cardinality(x.have \cup came) \in Nat
  <2>1. IsFiniteSet(x.have \cup came)
    BY HereIs DEF HereOf
  <2>2. came \in SUBSET (x.have \cup came)
    OBVIOUS
  <2> HIDE DEF came
  <2> QED BY <2>1, <2>2, FS_Subset, FS_CardinalityType
<1>3. CASE Streaming(x) = {}
  <2>1. came = {}
    BY <1>3 DEF Coming
  <2>2. n = 0
    BY <2>1, FS_EmptySet
  <2>3. x.have \cup came = x.have
    BY <2>1
  <2>4. /\ x.counted.cache + (x.counted.network - n) = Cardinality(x.have)
        /\ n \in Nat /\ n <= x.counted.network
    <3> HIDE DEF came, n
    <3>1. Cardinality(x.have \cup came) = Cardinality(x.have)
      BY <2>3
    <3>2. x.counted.cache + x.counted.network = Cardinality(x.have)
      BY <1>1, <3>1
    <3>3. x.counted.cache \in Nat /\ x.counted.network \in Nat
      BY <1>1, SizesAssumption
    <3> QED BY <2>2, <3>2, <3>3
  <2> QED BY <1>3, <2>4
<1>4. CASE Streaming(x) # {}
  <2>1. x.have = {} /\ x.counted.cache = 0
    <3>1. Workers \cap Streaming(x) # {}
      BY <1>4 DEF Streaming
    <3> QED BY <3>1 DEF Base
  <2>2. x.have \cup came = came /\ Cardinality(x.have) = 0
    BY <2>1, FS_EmptySet
  <2> HIDE DEF came
  <2> QED BY <1>1, <1>2, <2>1, <2>2, SizesAssumption DEF came
<1> QED BY <1>3, <1>4

LEMMA EndIs ==
  ASSUME NEW x, Base(x, Workers), x.mode # "whole", NEW ends \in SUBSET Streaming(x)
  PROVE  LET held == [x EXCEPT !.have = @ \cup UNION {Arrived(x, i) : i \in ends}]
             y == EndRequests(x, ends)
         IN /\ held \in Readers /\ y \in Readers /\ SameButCache(held, y)
            /\ \A piece \in y.cache : piece.bad \subseteq Of(piece)
            /\ Sound(x) => Sound(y)
<1> USE SizesAssumption
<1> DEFINE came == UNION {Arrived(x, i) : i \in ends}
           held == [x EXCEPT !.have = @ \cup came]
           worth == {i \in ends : x.worker[i].got >= Enough}
           Span(i) == [from |-> x.worker[i].from, to |-> x.worker[i].from + x.worker[i].got - 1]
           spans == {Span(i) : i \in worth}
<1>1. x \in Readers /\ \A piece \in x.cache : piece.bad \subseteq Of(piece)
  BY DEF Base
<1>2. \A i \in ends : i \in Workers /\ i \in Streaming(x)
  BY DEF Streaming
<1>3. \A i \in ends : Arrived(x, i) \subseteq Bytes /\ x.mode = "ranged"
  <2> SUFFICES ASSUME NEW i \in ends PROVE Arrived(x, i) \subseteq Bytes /\ x.mode = "ranged"
    OBVIOUS
  <2> QED BY <1>2, ArrivedIs
<1>4. came \subseteq Bytes
  BY <1>3
<1>5. held \in Readers
  <2>1. x.have \cup came \in SUBSET Bytes
    BY <1>1, <1>4 DEF Readers
  <2> HIDE DEF came
  <2> QED BY <1>1, <2>1 DEF Readers
<1>6. held.have = x.have \cup came /\ held.cache = x.cache /\ held.bad = x.bad
  BY <1>1 DEF Readers
<1>7. ASSUME NEW i \in worth
      PROVE  Span(i) \in Segments /\ Of(Span(i)) = Arrived(x, i)
  <2>1. Of(Span(i)) = Arrived(x, i)
    BY <1>3 DEF Of, Arrived
  <2>2. i \in Workers /\ x.worker[i].from \in Nat /\ x.worker[i].got \in Nat /\ x.worker[i].got >= 1
    BY <1>1, <1>2, WorkerIs DEF Bytes
  <2>3. x.worker[i].from + x.worker[i].got - 1 \in Arrived(x, i) /\ x.worker[i].from \in Arrived(x, i)
    BY <1>3, <2>2 DEF Arrived
  <2>4. Arrived(x, i) \subseteq Bytes
    BY <1>3
  <2>5. x.worker[i].from <= x.worker[i].from + x.worker[i].got - 1
    BY <2>2
  <2> QED BY <2>1, <2>3, <2>4, <2>5, SegmentIs
<1>8. spans \in SUBSET Segments
  BY <1>7
<1>9. \A s \in spans : Of(s) \subseteq held.have
  <2> SUFFICES ASSUME NEW i \in worth PROVE Of(Span(i)) \subseteq held.have
    OBVIOUS
  <2> QED BY <1>6, <1>7
<1>10. Sound(x) => Sound(held)
  BY <1>6 DEF Sound
<1>11. EndRequests(x, ends) = Keep(held, spans)
  BY DEF EndRequests
<1>12. \A piece \in held.cache : piece.bad \subseteq Of(piece)
  BY <1>1, <1>6
<1> HIDE DEF held, spans
<1>13. /\ Keep(held, spans) \in Readers /\ SameButCache(held, Keep(held, spans))
       /\ \A piece \in Keep(held, spans).cache : piece.bad \subseteq Of(piece)
       /\ Sound(held) => Sound(Keep(held, spans))
  BY <1>5, <1>8, <1>9, <1>12, KeepIs
<1> QED BY <1>5, <1>10, <1>11, <1>13 DEF held

LEMMA FailEnds ==
  ASSUME NEW x, Base(x, Workers), NEW why \in {"notIntact", "network", "http", "aborted"}
  PROVE  /\ Ended(Fail(x, why)) /\ Fail(x, why).pc = "failed" /\ Fail(x, why).mode = x.mode
         /\ Fail(x, why).counted.cache = x.counted.cache
         /\ x.mode # "whole" => Fail(x, why).have = HereOf(x, Workers)
<1> USE SizesAssumption
<1> DEFINE y == EndRequests(x, Streaming(x))
           z == Fail(x, why)
           came == Coming(x, Workers)
<1>1. x \in Readers /\ \A piece \in x.cache : piece.bad \subseteq Of(piece)
  BY DEF Base
<1>2. Workers \cap Streaming(x) = Streaming(x)
  BY DEF Streaming
<1>3. came = UNION {Arrived(x, i) : i \in Streaming(x)}
  BY <1>2 DEF Coming
<1>4. /\ y \in Readers /\ \A piece \in y.cache : piece.bad \subseteq Of(piece)
      /\ y.counted.cache + y.counted.network = Cardinality(y.have)
      /\ y.mode = x.mode /\ y.counted.cache = x.counted.cache
      /\ x.mode # "whole" => y.have = HereOf(x, Workers)
  <2>1. CASE x.mode = "whole"
    <3> DEFINE n == Cardinality(came)
    <3>1. /\ n \in Nat /\ n <= x.counted.network
          /\ x.counted.cache + (x.counted.network - n) = Cardinality(x.have)
      BY <2>1, StartOverIs
    <3>2. y = StartOver(x, Streaming(x))
      BY <2>1 DEF EndRequests
    <3> DEFINE stopped == [i \in Workers |-> IF i \in Streaming(x) THEN [x.worker[i] EXCEPT !.got = 0] ELSE x.worker[i]]
    <3>3. y = [x EXCEPT !.counted.network = @ - n, !.worker = stopped]
      BY <1>3, <3>2 DEF StartOver
    <3>4. x.counted \in [cache : 0 .. Size, network : 0 .. Size]
      BY <1>1 DEF Readers
    <3>5. x.counted.network - n \in 0 .. Size
      BY <3>1, <3>4
    <3>6. stopped \in [Workers -> [at : {"off", "asked", "stream", "waiting"}, from : Bytes, to : Bytes,
                         expected : 0..Size, got : 0..Size, streak : 0..MaxReadRetries]]
      BY <1>1, WorkerIs
    <3> HIDE DEF n, came, stopped, y
    <3>7. y \in Readers
      BY <1>1, <3>3, <3>4, <3>5, <3>6 DEF Readers
    <3>8. /\ y.cache = x.cache /\ y.have = x.have /\ y.mode = x.mode
          /\ y.counted.cache = x.counted.cache /\ y.counted.network = x.counted.network - n
      BY <1>1, <3>3 DEF Readers
    <3> QED BY <1>1, <2>1, <3>1, <3>7, <3>8
  <2>2. CASE x.mode # "whole"
    <3> DEFINE held == [x EXCEPT !.have = @ \cup UNION {Arrived(x, i) : i \in Streaming(x)}]
    <3>1. Streaming(x) \in SUBSET Streaming(x)
      OBVIOUS
    <3>2. /\ y \in Readers /\ SameButCache(held, y)
          /\ \A piece \in y.cache : piece.bad \subseteq Of(piece)
      BY <2>2, <3>1, EndIs
    <3>3. held.have = x.have \cup came /\ held.counted = x.counted /\ held.mode = x.mode
      BY <1>1, <1>3 DEF Readers
    <3> HIDE DEF held, y, came
    <3>4. y.have = HereOf(x, Workers) /\ y.counted = x.counted /\ y.mode = x.mode
      BY <3>2, <3>3 DEF SameButCache, HereOf, came
    <3> QED BY <2>2, <3>2, <3>4 DEF Base, CountsOf
  <2> QED BY <2>1, <2>2
<1> HIDE DEF y, came
<1>5. z = [y EXCEPT !.worker = [i \in Workers |-> Off], !.queue = {}, !.pc = "failed", !.why = why]
  BY DEF Fail, y
<1>6. Off \in [at : {"off", "asked", "stream", "waiting"}, from : Bytes, to : Bytes,
               expected : 0..Size, got : 0..Size, streak : 0..MaxReadRetries]
  BY DEF Off, Bytes
<1> HIDE DEF z
<1>7. z \in Readers
  BY <1>4, <1>5, <1>6 DEF Readers
<1>8. /\ z.cache = y.cache /\ z.have = y.have /\ z.counted = y.counted /\ z.mode = y.mode
      /\ z.pc = "failed" /\ z.why = why /\ z.worker = [i \in Workers |-> Off]
  BY <1>4, <1>5 DEF Readers
<1>9. Active(z) = {} /\ Streaming(z) = {}
  BY <1>8 DEF Active, Streaming, Off
<1>10. HereOf(z, Workers) = z.have
  BY <1>9 DEF HereOf, Coming
<1>11. \A i \in Workers : Fits(z, i)
  BY <1>8 DEF Fits, Off
<1>12. Base(z, Workers)
  BY <1>4, <1>7, <1>8, <1>9, <1>10, <1>11 DEF Base, CountsOf
<1> QED BY <1>4, <1>8, <1>9, <1>12 DEF Ended, z

-----------------------------------------------------------------------------
(* A worker between two requests.                                          *)

Requests == [at : {"off", "asked", "stream", "waiting"}, from : Bytes, to : Bytes,
             expected : 0 .. Size, got : 0 .. Size, streak : 0 .. MaxReadRetries]

(* What worker i is to fetch is left aside, and nothing of it had arrived. *)
LEMMA SetAside ==
  ASSUME NEW x, Base(x, Workers), NEW i \in Workers, i \notin Streaming(x)
  PROVE  /\ Base(x, Workers \ {i}) /\ HereOf(x, Workers \ {i}) = HereOf(x, Workers)
         /\ i \in Active(x) /\ Apart(x, Workers, {}) => Apart(x, Workers \ {i}, Of(x.worker[i]))
<1>1. (Workers \ {i}) \cap Streaming(x) = Workers \cap Streaming(x)
  OBVIOUS
<1>2. HereOf(x, Workers \ {i}) = HereOf(x, Workers)
  BY <1>1 DEF HereOf, Coming
<1>3. Base(x, Workers \ {i})
  BY <1>1, <1>2 DEF Base, CountsOf
<1>4. ASSUME i \in Active(x), Apart(x, Workers, {})
      PROVE  Apart(x, Workers \ {i}, Of(x.worker[i]))
  <2> DEFINE rest == Of(x.worker[i])
             busy == (Workers \ {i}) \cap Active(x)
  <2>1. busy \subseteq Workers \cap Active(x) /\ i \in Workers \cap Active(x) /\ i \notin busy
    BY <1>4
  <2>2. rest \subseteq Bytes
    <3>1. x \in Readers
      BY DEF Base
    <3> QED BY <3>1, WorkerIs, SizesAssumption DEF Of, Bytes
  <2>3. /\ \A b \in rest : b \notin x.have
        /\ \A j \in busy : \A b \in Of(x.worker[j]) : b \notin rest
        /\ \A s \in x.queue : \A b \in Of(s) : b \notin rest
    BY <1>4, <2>1 DEF Apart
  <2>4. \A b \in Bytes : \/ b \in x.have \/ b \in rest
                         \/ \E j \in busy : b \in Of(x.worker[j])
                         \/ \E s \in x.queue : b \in Of(s)
    BY <1>4, <2>1 DEF Apart
  <2>5. /\ \A j \in busy : \A b \in Of(x.worker[j]) : b \notin x.have
        /\ \A s \in x.queue : \A b \in Of(s) : b \notin x.have
        /\ \A j, k \in busy : j # k => \A b \in Of(x.worker[j]) : b \notin Of(x.worker[k])
        /\ \A s, t \in x.queue : s # t => \A b \in Of(s) : b \notin Of(t)
        /\ \A j \in busy, s \in x.queue : \A b \in Of(s) : b \notin Of(x.worker[j])
    BY <1>4, <2>1 DEF Apart
  <2> HIDE DEF rest
  <2>6. rest \subseteq Bytes \ x.have
    BY <2>2, <2>3
  <2> HIDE DEF busy
  <2>7. Apart(x, Workers \ {i}, rest)
    BY <2>3, <2>4, <2>5, <2>6 DEF Apart, busy
  <2> QED BY <2>7 DEF rest
<1> QED BY <1>2, <1>3, <1>4

(* It goes off, or to its next request.                                    *)
LEMMA GoesOn ==
  ASSUME NEW x, NEW i \in Workers, Base(x, Workers \ {i}), NEW u \in Requests, u.at # "stream",
         u.at # "off" => u.from <= u.to /\ (x.mode # "ranged" => i = 1)
  PROVE  LET y == [x EXCEPT !.worker[i] = u] IN
         /\ y = [x EXCEPT !.worker = y.worker] /\ y.worker = [x.worker EXCEPT ![i] = u]
         /\ Base(y, Workers) /\ HereOf(y, Workers) = HereOf(x, Workers \ {i})
         /\ u.at = "off" => /\ Active(y) = Active(x) \ {i}
                            /\ Apart(x, Workers \ {i}, {}) => Apart(y, Workers, {})
         /\ u.at # "off" => /\ Active(y) = Active(x) \cup {i}
                            /\ Apart(x, Workers \ {i}, Of(u)) => Apart(y, Workers, {})
<1> DEFINE y == [x EXCEPT !.worker[i] = u]
           W == Workers \ {i}
<1>1. x \in Readers /\ x.worker \in [Workers -> Requests]
  BY DEF Base, Readers, Requests
<1>2. /\ y = [x EXCEPT !.worker = y.worker] /\ y.worker = [x.worker EXCEPT ![i] = u]
      /\ y.have = x.have /\ y.counted = x.counted /\ y.mode = x.mode /\ y.cache = x.cache /\ y.queue = x.queue
  BY <1>1 DEF Readers
<1>3. y.worker \in [Workers -> Requests]
  BY <1>1, <1>2
<1>4. y \in Readers
  <2> DEFINE ws == y.worker
  <2>1. y = [x EXCEPT !.worker = ws] /\ ws \in [Workers -> Requests]
    BY <1>2, <1>3
  <2> HIDE DEF y, ws
  <2> QED BY <1>1, <2>1 DEF Readers, Requests
<1>5. y.worker[i] = u /\ \A j \in W : y.worker[j] = x.worker[j]
  BY <1>1, <1>2
<1> HIDE DEF y
<1>6. Base(y, W) /\ HereOf(y, W) = HereOf(x, W)
  <2>1. \A piece \in y.cache : piece.bad \subseteq Of(piece)
    BY <1>2 DEF Base
  <2>2. CountAlike(x, y, W)
    BY <1>2, <1>5 DEF CountAlike, Alike
  <2> QED BY <1>4, <2>1, <2>2, SameBase
<1>7. Workers \cap Streaming(y) = W \cap Streaming(y)
  BY <1>5 DEF Streaming
<1>8. HereOf(y, Workers) = HereOf(y, W)
  BY <1>7 DEF HereOf, Coming
<1>9. Active(y) = IF u.at = "off" THEN Active(x) \ {i} ELSE Active(x) \cup {i}
  BY <1>5 DEF Active
<1>10. Fits(y, i)
  BY <1>5 DEF Fits
<1>11. Workers \cap Active(y) \subseteq (W \cap Active(y)) \cup (IF u.at = "off" THEN {} ELSE {i})
  BY <1>9
<1>12. Base(y, Workers)
  BY <1>2, <1>4, <1>6, <1>7, <1>8, <1>10, <1>11 DEF Base, CountsOf
<1>13. ASSUME u.at = "off", Apart(x, W, {}) PROVE Apart(y, Workers, {})
  <2>1. Apart(y, W, {})
    <3>1. PlacesAlike(x, y, W)
      BY <1>2, <1>5 DEF PlacesAlike
    <3> QED BY <1>13, <3>1, SameApart
  <2>2. Workers \cap Active(y) = W \cap Active(y)
    BY <1>9, <1>13
  <2> QED BY <2>1, <2>2 DEF Apart
<1>14. ASSUME u.at # "off", Apart(x, W, Of(u)) PROVE Apart(y, Workers, {})
  <2>1. Apart(y, W, Of(u))
    <3>1. PlacesAlike(x, y, W)
      BY <1>2, <1>5 DEF PlacesAlike
    <3> QED BY <1>14, <3>1, SameApart
  <2>2. Workers \cap Active(y) = (W \cap Active(y)) \cup {i} /\ i \notin W
    BY <1>9, <1>14 DEF Active
  <2> DEFINE busy == W \cap Active(y)
             of == Of(u)
  <2>3. /\ of \subseteq Bytes \ y.have
        /\ \A j \in busy : \A b \in Of(y.worker[j]) : b \notin y.have /\ b \notin of
        /\ \A s \in y.queue : \A b \in Of(s) : b \notin y.have /\ b \notin of
        /\ \A j, k \in busy : j # k => \A b \in Of(y.worker[j]) : b \notin Of(y.worker[k])
        /\ \A s, t \in y.queue : s # t => \A b \in Of(s) : b \notin Of(t)
        /\ \A j \in busy, s \in y.queue : \A b \in Of(s) : b \notin Of(y.worker[j])
        /\ \A b \in Bytes : \/ b \in y.have \/ b \in of
                            \/ \E j \in busy : b \in Of(y.worker[j])
                            \/ \E s \in y.queue : b \in Of(s)
    BY <2>1 DEF Apart
  <2>4. Of(y.worker[i]) = of
    BY <1>5
  <2> HIDE DEF busy, of
  <2> QED BY <2>2, <2>3, <2>4 DEF Apart, busy
<1> QED BY <1>2, <1>6, <1>8, <1>9, <1>12, <1>13, <1>14 DEF y

(* What has arrived for worker i is held, and the rest of its segment is   *)
(* left aside.                                                             *)
LEMMA HoldIs ==
  ASSUME NEW x, Base(x, Workers), NEW i \in Streaming(x)
  PROVE  LET held == [x EXCEPT !.have = @ \cup Arrived(x, i)]
             w == x.worker[i] IN
         /\ held \in Readers /\ held = [x EXCEPT !.have = held.have] /\ held.have = x.have \cup Arrived(x, i)
         /\ Base(held, Workers \ {i}) /\ HereOf(held, Workers \ {i}) = HereOf(x, Workers)
         /\ x.mode = "ranged" /\ Apart(x, Workers, {}) => Apart(held, Workers \ {i}, (w.from + w.got) .. w.to)
         /\ Sound(x) => Sound(held)
<1> USE SizesAssumption
<1> DEFINE held == [x EXCEPT !.have = @ \cup Arrived(x, i)]
           w == x.worker[i]
           W == Workers \ {i}
<1>1. x \in Readers /\ i \in Workers /\ w.at = "stream"
  BY DEF Base, Streaming
<1>2. /\ Arrived(x, i) \subseteq Bytes /\ x.mode \in {"ranged", "whole"}
      /\ x.mode = "ranged" => Arrived(x, i) \subseteq Of(w)
  BY <1>1, ArrivedIs
<1>3. held.have = x.have \cup Arrived(x, i)
  BY <1>1 DEF Readers
<1>4. /\ held = [x EXCEPT !.have = held.have]
      /\ held.cache = x.cache /\ held.bad = x.bad /\ held.counted = x.counted
      /\ held.mode = x.mode /\ held.worker = x.worker /\ held.queue = x.queue
  BY <1>1, <1>3 DEF Readers
<1>5. held \in Readers
  <2> DEFINE h == held.have
  <2>1. h \in SUBSET Bytes /\ held = [x EXCEPT !.have = h]
    BY <1>1, <1>2, <1>3, <1>4 DEF Readers
  <2> HIDE DEF held, h
  <2> QED BY <1>1, <2>1 DEF Readers
<1> HIDE DEF held
<1>6. W \cap Streaming(held) = W \cap Streaming(x) /\ W \cap Active(held) = W \cap Active(x) /\ Coming(held, W) = Coming(x, W)
  <2>1. Alike(x, held, W)
    BY <1>4 DEF Alike
  <2> QED BY <2>1, SameArrivals
<1>7. HereOf(held, W) = HereOf(x, Workers)
  <2>1. Workers \cap Streaming(x) = (W \cap Streaming(x)) \cup {i}
    BY <1>1
  <2>2. Coming(x, Workers) = Coming(x, W) \cup Arrived(x, i)
    BY <2>1 DEF Coming
  <2> QED BY <1>3, <1>6, <2>2 DEF HereOf
<1>8. Base(held, W)
  <2>1. CountsOf(held, W)
    BY <1>4, <1>7 DEF CountsOf, Base
  <2>2. \A j \in W : Fits(held, j)
    BY <1>4 DEF Fits, Base
  <2>3. x.mode = "whole" => W \cap Streaming(x) = {}
    BY <1>1 DEF Base, Streaming, Active
  <2> QED BY <1>4, <1>5, <1>6, <2>1, <2>2, <2>3 DEF Base
<1>9. ASSUME x.mode = "ranged", Apart(x, Workers, {})
      PROVE  Apart(held, W, (w.from + w.got) .. w.to)
  <2> DEFINE rest == (w.from + w.got) .. w.to
             came == Arrived(x, i)
             of == Of(w)
             busy == W \cap Active(x)
  <2>1. i \in Workers \cap Active(x) /\ busy \subseteq Workers \cap Active(x) /\ i \notin busy
    BY <1>1 DEF Active
  <2>2. of = came \cup rest /\ came \cap rest = {} /\ of \subseteq Bytes
    <3>1. /\ w.from \in Nat /\ w.to \in Nat /\ w.to < Size /\ w.got \in Nat /\ w.expected \in Nat
          /\ w.got <= w.to - w.from + 1
      <4>1. /\ w.from \in Nat /\ w.to \in Nat /\ w.to < Size /\ w.got \in Nat /\ w.expected \in Nat
        BY <1>1, WorkerIs DEF Bytes
      <4>2. w.got <= w.expected /\ w.expected <= w.to - w.from + 1
        BY <1>1, <1>9 DEF Base, Fits
      <4> QED BY <4>1, <4>2
    <3>2. came = w.from .. (w.from + w.got - 1)
      BY <1>9 DEF Arrived
    <3>3. of = w.from .. w.to
      BY DEF Of
    <3> DEFINE a == w.from
               t == w.to
               g == w.got
    <3>4. a \in Nat /\ t \in Nat /\ t < Size /\ g \in Nat /\ g <= t - a + 1
      BY <3>1
    <3>5. of = a .. t /\ came = a .. (a + g - 1) /\ rest = (a + g) .. t
      BY <3>2, <3>3
    <3> HIDE DEF of, came, rest, a, t, g
    <3>6. of = came \cup rest
      BY <3>4, <3>5
    <3>7. came \cap rest = {}
      BY <3>4, <3>5
    <3>8. of \subseteq Bytes
      BY <3>4, <3>5 DEF Bytes
    <3> QED BY <3>6, <3>7, <3>8
  <2>3. /\ \A b \in of : b \notin x.have
        /\ \A j \in busy : \A b \in Of(x.worker[j]) : b \notin of
        /\ \A s \in x.queue : \A b \in Of(s) : b \notin of
    BY <1>9, <2>1 DEF Apart
  <2>4. \A b \in Bytes : \/ b \in x.have \/ b \in of
                         \/ \E j \in busy : b \in Of(x.worker[j])
                         \/ \E s \in x.queue : b \in Of(s)
    BY <1>9, <2>1 DEF Apart
  <2>5. /\ \A j \in busy : \A b \in Of(x.worker[j]) : b \notin x.have
        /\ \A s \in x.queue : \A b \in Of(s) : b \notin x.have
        /\ \A j, k \in busy : j # k => \A b \in Of(x.worker[j]) : b \notin Of(x.worker[k])
        /\ \A s, t \in x.queue : s # t => \A b \in Of(s) : b \notin Of(t)
        /\ \A j \in busy, s \in x.queue : \A b \in Of(s) : b \notin Of(x.worker[j])
    BY <1>9, <2>1 DEF Apart
  <2>6. held.have = x.have \cup came /\ W \cap Active(held) = busy /\ held.worker = x.worker /\ held.queue = x.queue
    BY <1>3, <1>4, <1>6
  <2> HIDE DEF rest, came, of, busy
  <2>7. Apart(held, W, rest)
    BY <2>2, <2>3, <2>4, <2>5, <2>6 DEF Apart
  <2> QED BY <2>7 DEF rest
<1>10. Sound(x) => Sound(held)
  BY <1>3, <1>4 DEF Sound
<1> QED BY <1>3, <1>4, <1>5, <1>7, <1>8, <1>9, <1>10 DEF held

(* A plain request that ends starts over.                                  *)
LEMMA PlainEndIs ==
  ASSUME NEW x, Base(x, Workers), NEW i \in Streaming(x), x.mode = "whole"
  PROVE  LET y == EndRequests(x, {i}) IN
         /\ Base(y, Workers \ {i}) /\ y.mode = "whole" /\ y.pc = x.pc /\ y.why = x.why /\ i = 1
         /\ y.worker[i] \in Requests /\ y.worker[i].from <= y.worker[i].to
<1> USE SizesAssumption
<1> DEFINE y == EndRequests(x, {i})
           n == Cardinality(Arrived(x, i))
           W == Workers \ {i}
           stopped == [j \in Workers |-> IF j \in {i} THEN [x.worker[j] EXCEPT !.got = 0] ELSE x.worker[j]]
<1>1. x \in Readers /\ i \in Workers /\ i \in Active(x) /\ x.worker[i].at = "stream"
  BY DEF Base, Streaming, Active
<1>2. Workers \cap Active(x) \subseteq {1} /\ i = 1 /\ W \cap Streaming(x) = {} /\ Workers \cap Streaming(x) = {i}
  BY <1>1 DEF Base, Streaming, Active
<1>3. Coming(x, Workers) = Arrived(x, i) /\ UNION {Arrived(x, j) : j \in {i}} = Arrived(x, i)
  BY <1>2 DEF Coming
<1>4. /\ n \in Nat /\ n <= x.counted.network /\ x.have = {} /\ x.counted.cache = 0
      /\ x.counted.cache + (x.counted.network - n) = Cardinality(x.have)
  BY <1>2, <1>3, StartOverIs
<1>5. y = [x EXCEPT !.counted.network = @ - n, !.worker = stopped]
  BY <1>3 DEF EndRequests, StartOver
<1>6. x.counted \in [cache : 0 .. Size, network : 0 .. Size] /\ x.counted.network - n \in 0 .. Size
  BY <1>1, <1>4 DEF Readers
<1>7. stopped \in [Workers -> Requests] /\ \A j \in W : stopped[j] = x.worker[j]
  BY <1>1, WorkerIs DEF Requests
<1>8. stopped[i].at = "stream" /\ stopped[i].from = x.worker[i].from /\ stopped[i].to = x.worker[i].to
  BY <1>1, WorkerIs
<1> HIDE DEF n, stopped, y
<1>9. y \in Readers
  BY <1>1, <1>5, <1>6, <1>7 DEF Readers, Requests
<1>10. /\ y.cache = x.cache /\ y.have = x.have /\ y.mode = x.mode /\ y.pc = x.pc /\ y.why = x.why
       /\ y.worker = stopped /\ y.counted.cache + y.counted.network = Cardinality(x.have)
  BY <1>1, <1>4, <1>5 DEF Readers
<1>11. W \cap Streaming(y) = {} /\ W \cap Active(y) \subseteq {1}
  <2>1. Alike(x, y, W)
    BY <1>7, <1>10 DEF Alike
  <2>2. W \cap Streaming(y) = W \cap Streaming(x) /\ W \cap Active(y) = W \cap Active(x)
    BY <2>1, SameArrivals
  <2> QED BY <1>2, <2>2
<1>12. HereOf(y, W) = x.have
  BY <1>10, <1>11 DEF HereOf, Coming
<1>13. Base(y, W)
  BY <1>7, <1>9, <1>10, <1>11, <1>12 DEF Base, CountsOf, Fits
<1>14. y.worker[i] \in Requests /\ y.worker[i].from <= y.worker[i].to
  BY <1>1, <1>7, <1>8, <1>10 DEF Base, Fits
<1> QED BY <1>2, <1>10, <1>13, <1>14 DEF y

-----------------------------------------------------------------------------
(* #fetchSegment() and #work(): where the worker goes from there.          *)

Between(x, i, rest) ==
  Goes(x, Workers \ {i}, rest) /\ i \in Workers /\ (x.mode # "ranged" => i = 1)

(* A step of worker i: nothing that was held or had come is given up.      *)
Steps(x, i, z) ==
  /\ ReaderInv(z) /\ z.mode = x.mode
  /\ x.mode = "ranged" => HereOf(x, Workers \ {i}) \subseteq HereOf(z, Workers)

LEMMA AskedIs ==
  ASSUME NEW s, s.from \in Bytes, s.to \in Bytes
  PROVE  /\ Asked(s) \in Requests /\ Asked(s).at = "asked" /\ Asked(s).from = s.from /\ Asked(s).to = s.to
         /\ Of(Asked(s)) = Of(s) /\ Off \in Requests /\ Off.at = "off"
<1>1. 0 \in Bytes /\ 0 \in 0 .. Size /\ 0 \in 0 .. MaxReadRetries
  BY SizesAssumption DEF Bytes
<1>2. Off \in Requests /\ Off.at = "off"
  BY <1>1 DEF Off, Requests
<1>3. /\ Asked(s) \in Requests /\ Asked(s).at = "asked" /\ Asked(s).from = s.from /\ Asked(s).to = s.to
  BY <1>2 DEF Asked, Requests
<1> QED BY <1>2, <1>3 DEF Of

LEMMA Fetches ==
  ASSUME NEW x, NEW i, NEW rest, Between(x, i, rest), NEW u \in Requests, u.at \in {"asked", "waiting"},
         u.from <= u.to, x.mode # "whole" => Of(u) = rest
  PROVE  LET z == [x EXCEPT !.worker[i] = u] IN Steps(x, i, z) /\ z.pc = "reading" /\ i \in Active(z)
<1> DEFINE z == [x EXCEPT !.worker[i] = u]
<1>1. /\ Base(x, Workers \ {i}) /\ i \in Workers /\ (x.mode # "ranged" => i = 1)
      /\ x.pc = "reading" /\ x.why = "none" /\ x \in Readers
      /\ x.mode # "whole" => Apart(x, Workers \ {i}, rest) /\ Sound(x)
  BY DEF Between, Goes, Base
<1>2. /\ z = [x EXCEPT !.worker = z.worker]
      /\ Base(z, Workers) /\ HereOf(z, Workers) = HereOf(x, Workers \ {i})
      /\ Active(z) = Active(x) \cup {i}
      /\ Apart(x, Workers \ {i}, Of(u)) => Apart(z, Workers, {})
  BY <1>1, GoesOn
<1>3. /\ z.pc = "reading" /\ z.why = "none" /\ z.mode = x.mode
      /\ z.cache = x.cache /\ z.have = x.have /\ z.bad = x.bad
  BY <1>1, <1>2 DEF Readers
<1> HIDE DEF z
<1>4. Sound(x) => Sound(z)
  BY <1>3 DEF Sound
<1>5. Goes(z, Workers, {})
  BY <1>1, <1>2, <1>3, <1>4 DEF Goes
<1>6. ReaderInv(z)
  BY <1>3, <1>5 DEF ReaderInv
<1>7. Steps(x, i, z)
  BY <1>2, <1>3, <1>6 DEF Steps
<1> QED BY <1>2, <1>3, <1>7 DEF z

(* Off it goes.                                                            *)
LEMMA GoesOff ==
  ASSUME NEW x, NEW i, NEW rest, Between(x, i, rest)
  PROVE  LET z == [x EXCEPT !.worker[i] = Off] IN
         /\ Base(z, Workers) /\ HereOf(z, Workers) = HereOf(x, Workers \ {i}) /\ z.pc = "reading" /\ z.why = "none"
         /\ z.mode = x.mode /\ z.have = x.have /\ z.cache = x.cache /\ z.queue = x.queue /\ z.bad = x.bad
         /\ Active(z) = Active(x) \ {i}
         /\ rest = {} /\ x.mode # "whole" => Apart(z, Workers, {})
         /\ Sound(x) => Sound(z)
<1> DEFINE z == [x EXCEPT !.worker[i] = Off]
<1>1. /\ Base(x, Workers \ {i}) /\ i \in Workers /\ x.pc = "reading" /\ x.why = "none" /\ x \in Readers
      /\ x.mode # "whole" => Apart(x, Workers \ {i}, rest) /\ Sound(x)
  BY DEF Between, Goes, Base
<1>2. Off \in Requests /\ Off.at = "off"
  BY SizesAssumption DEF Off, Requests, Bytes
<1>3. /\ z = [x EXCEPT !.worker = z.worker]
      /\ Base(z, Workers) /\ HereOf(z, Workers) = HereOf(x, Workers \ {i})
      /\ Active(z) = Active(x) \ {i}
      /\ Apart(x, Workers \ {i}, {}) => Apart(z, Workers, {})
  BY <1>1, <1>2, GoesOn
<1>4. /\ z.pc = "reading" /\ z.why = "none" /\ z.mode = x.mode
      /\ z.cache = x.cache /\ z.have = x.have /\ z.bad = x.bad /\ z.queue = x.queue
  BY <1>1, <1>3 DEF Readers
<1> HIDE DEF z
<1>5. Sound(x) => Sound(z)
  BY <1>4 DEF Sound
<1> QED BY <1>1, <1>3, <1>4, <1>5 DEF z

LEMMA FailsInstead ==
  ASSUME NEW x, NEW z, NEW i, Base(z, Workers), z.mode = x.mode,
         HereOf(z, Workers) = HereOf(x, Workers \ {i}), NEW why \in {"notIntact", "network", "http", "aborted"}
  PROVE  Steps(x, i, Fail(z, why))
<1> DEFINE f == Fail(z, why)
<1>1. /\ Ended(f) /\ f.pc = "failed" /\ f.mode = z.mode
      /\ z.mode # "whole" => f.have = HereOf(z, Workers)
  BY FailEnds
<1> HIDE DEF f
<1>2. ReaderInv(f)
  BY <1>1 DEF ReaderInv
<1>3. x.mode = "ranged" => HereOf(x, Workers \ {i}) \subseteq HereOf(f, Workers)
  BY <1>1 DEF HereOf
<1> QED BY <1>1, <1>2, <1>3 DEF Steps, f

LEMMA AgainSteps ==
  ASSUME NEW x, NEW i, Between(x, i, Of(x.worker[i])), x.worker[i].from <= x.worker[i].to,
         NEW got \in Nat, NEW short \in BOOLEAN
  PROVE  Steps(x, i, Again(x, i, got, short))
<1> DEFINE w == x.worker[i]
           streak == IF got >= Enough THEN 0 ELSE w.streak
           atOnce == [Asked(w) EXCEPT !.streak = 0]
           later == [Asked(w) EXCEPT !.at = "waiting", !.streak = streak + 1]
<1>1. x \in Readers /\ i \in Workers
  BY DEF Between, Goes, Base
<1>2. /\ w.from \in Bytes /\ w.to \in Bytes /\ w.streak \in 0 .. MaxReadRetries
  BY <1>1, WorkerIs
<1>3. CASE short /\ got >= Enough
  <2>1. /\ atOnce \in Requests /\ atOnce.at = "asked" /\ atOnce.from <= atOnce.to /\ Of(atOnce) = Of(w)
    <3>1. Asked(w) \in Requests /\ Asked(w).at = "asked" /\ Asked(w).from = w.from /\ Asked(w).to = w.to
      BY <1>2, AskedIs
    <3>2. 0 \in 0 .. MaxReadRetries
      BY SizesAssumption
    <3>3. /\ atOnce \in Requests /\ atOnce.at = "asked" /\ atOnce.from = w.from /\ atOnce.to = w.to
      BY <3>1, <3>2 DEF Requests
    <3> HIDE DEF atOnce, w
    <3> QED BY <3>3 DEF Of, w
  <2>2. Again(x, i, got, short) = [x EXCEPT !.worker[i] = atOnce]
    BY <1>1, <1>3 DEF Again, Readers
  <2> HIDE DEF atOnce
  <2> QED BY <2>1, <2>2, Fetches
<1>4. CASE ~ (short /\ got >= Enough) /\ streak < MaxReadRetries
  <2>1. streak \in 0 .. MaxReadRetries /\ streak + 1 \in 0 .. MaxReadRetries
    BY <1>2, <1>4, SizesAssumption
  <2>2. /\ later \in Requests /\ later.at = "waiting" /\ later.from <= later.to /\ Of(later) = Of(w)
    <3> HIDE DEF streak
    <3>1. Asked(w) \in Requests /\ Asked(w).from = w.from /\ Asked(w).to = w.to
      BY <1>2, AskedIs
    <3>2. later \in Requests /\ later.at = "waiting" /\ later.from = w.from /\ later.to = w.to
      BY <2>1, <3>1 DEF Requests
    <3> HIDE DEF later, w
    <3> QED BY <3>2 DEF Of, w
  <2>3. Again(x, i, got, short) = [x EXCEPT !.worker[i] = later]
    BY <1>1, <1>4 DEF Again, Readers
  <2> HIDE DEF later
  <2> QED BY <2>2, <2>3, Fetches
<1>5. CASE ~ (short /\ got >= Enough) /\ ~ streak < MaxReadRetries
  <2> DEFINE z == [x EXCEPT !.worker[i] = Off]
  <2>1. Again(x, i, got, short) = Fail(z, "network")
    BY <1>1, <1>5 DEF Again, Readers
  <2>2. Base(z, Workers) /\ HereOf(z, Workers) = HereOf(x, Workers \ {i}) /\ z.mode = x.mode
    <3> DEFINE rest == Of(x.worker[i])
    <3>1. Between(x, i, rest)
      OBVIOUS
    <3> HIDE DEF rest
    <3> QED BY <3>1, GoesOff
  <2> HIDE DEF z
  <2> QED BY <2>1, <2>2, FailsInstead
<1> QED BY <1>3, <1>4, <1>5

LEMMA QueueOf ==
  ASSUME NEW x \in Readers, NEW W, NEW rest, Apart(x, W, rest)
  PROVE  x.queue \in SUBSET Segments /\ SegmentsApart(x.queue)
BY DEF Readers, Apart, SegmentsApart

(* The first of the queue is what worker i is to fetch.                    *)
LEMMA Dequeues ==
  ASSUME NEW x, NEW i, Between(x, i, {}), x.mode # "whole", NEW s \in x.queue
  PROVE  LET y == [x EXCEPT !.queue = @ \ {s}] IN
         Between(y, i, Of(s)) /\ y.mode = x.mode /\ HereOf(y, Workers \ {i}) = HereOf(x, Workers \ {i})
<1> DEFINE y == [x EXCEPT !.queue = @ \ {s}]
           W == Workers \ {i}
<1>1. /\ Base(x, W) /\ i \in Workers /\ (x.mode # "ranged" => i = 1)
      /\ x.pc = "reading" /\ x.why = "none" /\ x \in Readers /\ x.queue \in SUBSET Segments
      /\ Apart(x, W, {}) /\ Sound(x)
  BY DEF Between, Goes, Base, Readers
<1>2. y \in Readers
  BY <1>1 DEF Readers
<1>3. /\ y.queue = x.queue \ {s} /\ y.have = x.have /\ y.counted = x.counted /\ y.mode = x.mode
      /\ y.worker = x.worker /\ y.cache = x.cache /\ y.bad = x.bad /\ y.pc = x.pc /\ y.why = x.why
  BY <1>1 DEF Readers
<1> HIDE DEF y
<1>4. Base(y, W) /\ HereOf(y, W) = HereOf(x, W)
  <2>1. CountAlike(x, y, W)
    BY <1>3 DEF CountAlike, Alike
  <2>2. \A piece \in y.cache : piece.bad \subseteq Of(piece)
    BY <1>1, <1>3 DEF Base
  <2> QED BY <1>1, <1>2, <2>1, <2>2, SameBase
<1>5. Sound(y)
  BY <1>1, <1>3 DEF Sound
<1>6. Apart(y, W, Of(s))
  <2> DEFINE busy == W \cap Active(x)
             of == Of(s)
  <2>1. W \cap Active(y) = busy
    BY <1>3 DEF Active
  <2>2. /\ of \subseteq Bytes \ x.have
        /\ \A t \in x.queue : t # s => \A b \in Of(t) : b \notin of
        /\ \A j \in busy : \A b \in Of(x.worker[j]) : b \notin x.have /\ b \notin of
    BY <1>1, SegmentIs DEF Apart
  <2>3. /\ \A t \in x.queue : \A b \in Of(t) : b \notin x.have
        /\ \A j, k \in busy : j # k => \A b \in Of(x.worker[j]) : b \notin Of(x.worker[k])
        /\ \A t, u \in x.queue : t # u => \A b \in Of(t) : b \notin Of(u)
        /\ \A j \in busy, t \in x.queue : \A b \in Of(t) : b \notin Of(x.worker[j])
        /\ \A b \in Bytes : \/ b \in x.have
                            \/ \E j \in busy : b \in Of(x.worker[j])
                            \/ \E t \in x.queue : b \in Of(t)
    BY <1>1 DEF Apart
  <2>4. \A b \in Bytes : \/ b \in x.have \/ b \in of
                         \/ \E j \in busy : b \in Of(x.worker[j])
                         \/ \E t \in x.queue \ {s} : b \in Of(t)
    BY <2>3
  <2> HIDE DEF busy, of
  <2>5. Apart(y, W, of)
    BY <1>3, <2>1, <2>2, <2>3, <2>4 DEF Apart
  <2> QED BY <2>5 DEF of
<1> QED BY <1>1, <1>3, <1>4, <1>5, <1>6 DEF Between, Goes, y

LEMMA TakeNextSteps ==
  ASSUME NEW x, NEW i, Between(x, i, {}), x.mode # "none",
         x.mode = "whole" => x.have = Bytes /\ Sound(x)
  PROVE  Steps(x, i, TakeNext(x, i))
<1>1. /\ Base(x, Workers \ {i}) /\ i \in Workers /\ (x.mode # "ranged" => i = 1)
      /\ x.pc = "reading" /\ x.why = "none" /\ x \in Readers
      /\ x.mode # "whole" => Apart(x, Workers \ {i}, {}) /\ Sound(x)
      /\ x.mode \in {"none", "ranged", "whole"}
  BY DEF Between, Goes, Base, Readers
<1>2. CASE x.mode # "whole" /\ x.queue # {}
  <2> DEFINE s == Nth(x.queue, 1)
             y == [x EXCEPT !.queue = @ \ {s}]
             z == [y EXCEPT !.worker[i] = Asked(s)]
  <2>1. s \in x.queue /\ x.queue \in SUBSET Segments
    BY <1>1, <1>2, QueueOf, FirstIs
  <2>2. s.from \in Bytes /\ s.to \in Bytes /\ s.from <= s.to
    BY <2>1, SegmentIs
  <2>3. Between(y, i, Of(s)) /\ y.mode = x.mode /\ HereOf(y, Workers \ {i}) = HereOf(x, Workers \ {i})
    BY <1>2, <2>1, Dequeues
  <2>4. /\ Asked(s) \in Requests /\ Asked(s).at = "asked" /\ Asked(s).from <= Asked(s).to /\ Of(Asked(s)) = Of(s)
    <3> HIDE DEF s
    <3> QED BY <2>2, AskedIs
  <2> HIDE DEF s, y
  <2>5. Steps(y, i, z) /\ i \in Active(z)
    <3> DEFINE u == Asked(s)
    <3>1. u \in Requests /\ u.at \in {"asked", "waiting"} /\ u.from <= u.to /\ Of(u) = Of(s)
      BY <2>4
    <3> HIDE DEF u
    <3>2. LET zz == [y EXCEPT !.worker[i] = u] IN Steps(y, i, zz) /\ i \in Active(zz)
      BY <2>3, <3>1, Fetches
    <3> QED BY <3>2 DEF u
  <2>6. TakeNext(x, i) = z
    <3>1. z = [x EXCEPT !.queue = @ \ {Nth(@, 1)}, !.worker[i] = Asked(Nth(x.queue, 1))]
      BY <1>1 DEF y, s
    <3>2. Active(z) # {}
      BY <2>5
    <3> HIDE DEF z
    <3> QED BY <1>2, <3>1, <3>2 DEF TakeNext
  <2> HIDE DEF z
  <2> QED BY <2>3, <2>5, <2>6 DEF Steps
<1>3. CASE x.mode = "whole" \/ x.queue = {}
  <2> DEFINE z == [x EXCEPT !.worker[i] = Off]
  <2>1. /\ Base(z, Workers) /\ HereOf(z, Workers) = HereOf(x, Workers \ {i}) /\ z.pc = "reading" /\ z.why = "none"
        /\ z.mode = x.mode /\ z.have = x.have /\ z.cache = x.cache /\ z.queue = x.queue /\ z.bad = x.bad
        /\ Active(z) = Active(x) \ {i}
        /\ x.mode # "whole" => Apart(z, Workers, {})
        /\ Sound(x) => Sound(z)
    <3> DEFINE rest == {}
    <3>1. Between(x, i, rest) /\ rest = {}
      OBVIOUS
    <3> HIDE DEF rest
    <3> QED BY <3>1, GoesOff
  <2>2. TakeNext(x, i) = IF Active(z) # {} THEN z
                         ELSE IF z.have = Bytes THEN [z EXCEPT !.pc = "check"] ELSE Fail(z, "notIntact")
    BY <1>3 DEF TakeNext
  <2> HIDE DEF z
  <2>3. CASE Active(z) # {}
    <3>1. z.mode # "whole"
      BY <1>1, <2>1, <2>3 DEF Base, Active
    <3>2. Goes(z, Workers, {})
      BY <1>1, <2>1, <3>1 DEF Goes
    <3> QED BY <2>1, <2>2, <2>3, <3>2 DEF Steps, ReaderInv
  <2>4. CASE Active(z) = {} /\ z.have = Bytes
    <3> DEFINE y == [z EXCEPT !.pc = "check"]
    <3>1. z \in Readers
      BY <2>1 DEF Base
    <3>2. /\ y \in Readers /\ y.pc = "check" /\ y.why = "none" /\ y.mode = z.mode /\ y.have = z.have
          /\ y.cache = z.cache /\ y.bad = z.bad /\ y.counted = z.counted /\ y.worker = z.worker
      BY <2>1, <3>1 DEF Readers
    <3> HIDE DEF y
    <3>3. CountAlike(z, y, Workers)
      BY <3>2 DEF CountAlike, Alike
    <3>4. Base(y, Workers) /\ HereOf(y, Workers) = HereOf(z, Workers)
      BY <2>1, <3>2, <3>3, SameBase DEF Base
    <3>5. Active(y) = {}
      BY <2>4, <3>2 DEF Active
    <3>6. Sound(y)
      BY <1>1, <2>1, <3>2 DEF Sound
    <3>7. Ended(y)
      BY <2>4, <3>2, <3>4, <3>5, <3>6 DEF Ended
    <3>8. TakeNext(x, i) = y
      BY <2>2, <2>4 DEF y
    <3> QED BY <2>1, <3>2, <3>4, <3>7, <3>8 DEF Steps, ReaderInv
  <2>5. CASE Active(z) = {} /\ z.have # Bytes
    <3>1. TakeNext(x, i) = Fail(z, "notIntact")
      BY <2>2, <2>5
    <3> QED BY <2>1, <3>1, FailsInstead
  <2> QED BY <2>3, <2>4, <2>5
<1> QED BY <1>1, <1>2, <1>3

-----------------------------------------------------------------------------
(* #fill(): what was kept is held, and the rest is in segments.            *)

(* A read that starts: nothing is counted and no request is open.          *)
Fresh(x) ==
  /\ x \in Readers /\ Active(x) = {} /\ x.why = "none"
  /\ x.counted.cache = 0 /\ x.counted.network = 0
  /\ \A piece \in x.cache : piece.bad \subseteq Of(piece)

(* Before its first request.                                               *)
Prepared(x) ==
  /\ x \in Readers /\ Active(x) = {} /\ x.why = "none" /\ x.pc = "reading" /\ x.mode = "none"
  /\ x.counted.cache + x.counted.network = Cardinality(x.have)
  /\ \A piece \in x.cache : piece.bad \subseteq Of(piece)
  /\ Sound(x)

Emptied(x) == [x EXCEPT !.have = {}, !.bad = {}, !.mode = "none", !.pc = "reading"]

LEMMA EmptiedIs ==
  ASSUME NEW x, Fresh(x)
  PROVE  LET e == Emptied(x) IN
         /\ Fresh(e) /\ e.pc = "reading" /\ e.mode = "none" /\ e.have = {} /\ e.bad = {}
         /\ e.cache = x.cache /\ e.ranges = x.ranges
<1> DEFINE e == Emptied(x)
<1>1. /\ e \in Readers /\ e.pc = "reading" /\ e.mode = "none" /\ e.have = {} /\ e.bad = {} /\ e.why = x.why
      /\ e.cache = x.cache /\ e.counted = x.counted /\ e.worker = x.worker /\ e.ranges = x.ranges
  BY DEF Fresh, Readers, Emptied
<1> HIDE DEF e
<1>2. Active(e) = {}
  BY <1>1 DEF Active, Fresh
<1> QED BY <1>1, <1>2 DEF Fresh, e

LEMMA LoadKeptIs ==
  ASSUME NEW e, Fresh(e), e.pc = "reading", e.mode = "none"
  PROVE  Prepared(LoadKept(e)) /\ LoadKept(e).ranges = e.ranges
<1> USE SizesAssumption
<1> DEFINE kept == {piece \in e.cache : piece \in ListPieces(e.cache) /\ ~piece.torn}
           held == UNION {Of(piece) : piece \in kept}
           bad == UNION {piece.bad : piece \in kept}
           l == LoadKept(e)
<1>1. e \in Readers /\ e.cache \subseteq Pieces
  BY DEF Fresh, Readers
<1>2. kept \subseteq e.cache /\ kept \subseteq Pieces /\ \A piece \in kept : ~ piece.torn
  BY <1>1
<1> HIDE DEF kept
<1>3. held \in SUBSET Bytes
  BY <1>1, <1>2 DEF Pieces, Of, Bytes
<1>4. bad \in SUBSET Bytes
  BY <1>2 DEF Pieces
<1>5. IsFiniteSet(held) /\ Cardinality(held) \in 0 .. Size
  <2>1. IsFiniteSet(Bytes) /\ Cardinality(Bytes) = Size
    <3>1. IsFiniteSet(0 .. (Size - 1)) /\ Cardinality(0 .. (Size - 1)) = IF 0 > Size - 1 THEN 0 ELSE Size - 1 - 0 + 1
      BY FS_Interval
    <3> QED BY <3>1 DEF Bytes
  <2> HIDE DEF held
  <2>2. IsFiniteSet(held) /\ Cardinality(held) <= Size /\ Cardinality(held) \in Nat
    BY <1>3, <2>1, FS_Subset, FS_CardinalityType
  <2> QED BY <2>2
<1>6. \A piece \in kept : Of(piece) \subseteq held /\ piece.bad \subseteq bad
  OBVIOUS
<1>7. l = [e EXCEPT !.cache = kept, !.have = held, !.bad = bad, !.counted.cache = @ + Cardinality(held)]
  BY DEF LoadKept, kept
<1> HIDE DEF held, bad, l
<1>8. e.counted \in [cache : 0 .. Size, network : 0 .. Size] /\ e.counted.cache + Cardinality(held) \in 0 .. Size
  BY <1>1, <1>5 DEF Fresh, Readers
<1>9. l \in Readers
  BY <1>1, <1>2, <1>3, <1>4, <1>7, <1>8 DEF Readers
<1>10. /\ l.cache = kept /\ l.have = held /\ l.bad = bad /\ l.worker = e.worker /\ l.pc = e.pc /\ l.why = e.why
       /\ l.mode = e.mode /\ l.ranges = e.ranges
       /\ l.counted.cache + l.counted.network = Cardinality(held)
  BY <1>1, <1>5, <1>7, <1>8 DEF Readers, Fresh
<1>11. Active(l) = {}
  BY <1>10 DEF Fresh, Active
<1>12. Sound(l) /\ \A piece \in l.cache : piece.bad \subseteq Of(piece)
  BY <1>2, <1>6, <1>10 DEF Sound, Fresh
<1> QED BY <1>9, <1>10, <1>11, <1>12 DEF Prepared, Fresh, l

LEMMA QuietBase ==
  ASSUME NEW x \in Readers, Active(x) = {}, x.counted.cache + x.counted.network = Cardinality(x.have),
         \A piece \in x.cache : piece.bad \subseteq Of(piece), NEW W \in SUBSET Workers
  PROVE  Base(x, W)
<1>1. Streaming(x) = {}
  BY DEF Active, Streaming
<1>2. HereOf(x, W) = x.have
  BY <1>1 DEF HereOf, Coming
<1>3. \A i \in W : Fits(x, i)
  BY DEF Fits, Active
<1> QED BY <1>1, <1>2, <1>3 DEF Base, CountsOf

LEMMA FillStarts ==
  ASSUME NEW x, Fresh(x), NEW fresh \in BOOLEAN, fresh => x.cache = {}
  PROVE  ReaderInv(Fill(x, fresh))
<1> USE SizesAssumption
<1> DEFINE e == Emptied(x)
           l == IF fresh THEN e ELSE LoadKept(e)
           missing == Missing(l.have)
           first == Nth(missing, 1)
<1>1. /\ Fresh(e) /\ e.pc = "reading" /\ e.mode = "none" /\ e.have = {} /\ e.bad = {}
      /\ e.cache = x.cache /\ e.ranges = x.ranges
  BY EmptiedIs
<1>2. Prepared(l) /\ l.ranges = x.ranges
  <2>1. CASE fresh
    <3>1. l = e
      BY <2>1
    <3> HIDE DEF e, l
    <3>2. Cardinality(e.have) = 0
      BY <1>1, FS_EmptySet
    <3>3. e.cache = {}
      BY <1>1, <2>1
    <3>4. Sound(e)
      BY <3>3 DEF Sound
    <3> QED BY <1>1, <3>1, <3>2, <3>3, <3>4 DEF Prepared, Fresh
  <2>2. CASE ~ fresh
    <3>1. l = LoadKept(e)
      BY <2>2
    <3> HIDE DEF e, l
    <3> QED BY <1>1, <3>1, LoadKeptIs
  <2> QED BY <2>1, <2>2
<1>3. Fill(x, fresh) =
        IF missing = {} THEN [l EXCEPT !.pc = "check"]
        ELSE IF x.ranges
          THEN [l EXCEPT !.queue = missing \ {first}, !.worker[1] = Asked(first)]
          ELSE [l EXCEPT !.queue = {}, !.mode = "whole", !.worker[1] = Asked(All)]
  BY DEF Fill, Emptied
<1> HIDE DEF l
<1>4. l \in Readers /\ l.have \in SUBSET Bytes
  BY <1>2 DEF Prepared, Readers
<1>5. /\ missing \in SUBSET Segments
      /\ \A s \in missing : \A b \in Of(s) : b \notin l.have
      /\ SegmentsApart(missing)
      /\ \A b \in Bytes : b \in l.have \/ \E s \in missing : b \in Of(s)
  BY <1>4, MissingIs DEF SegmentsApart
<1> HIDE DEF missing
<1>6. 1 \in Workers
  BY DEF Workers
<1>7. CASE missing = {}
  <2> DEFINE y == [l EXCEPT !.pc = "check"]
  <2>1. /\ y \in Readers /\ y.pc = "check" /\ y.why = "none" /\ y.have = l.have /\ y.cache = l.cache /\ y.bad = l.bad
        /\ y.counted = l.counted /\ y.worker = l.worker
    BY <1>2, <1>4 DEF Prepared, Readers
  <2>2. Fill(x, fresh) = y
    BY <1>3, <1>7
  <2> HIDE DEF y
  <2>3. Active(y) = {} /\ Sound(y)
    BY <1>2, <2>1 DEF Prepared, Active, Sound
  <2>4. Base(y, Workers)
    BY <1>2, <2>1, <2>3, QuietBase DEF Prepared
  <2>5. y.have = Bytes
    BY <1>4, <1>5, <1>7, <2>1
  <2> QED BY <2>1, <2>2, <2>3, <2>4, <2>5 DEF ReaderInv, Ended
<1>8. CASE missing # {} /\ x.ranges
  <2> DEFINE y == [l EXCEPT !.queue = missing \ {first}]
             W == Workers \ {1}
             u == Asked(first)
  <2>1. first \in missing
    BY <1>5, <1>8, FirstIs
  <2>2. first \in Segments /\ first.from \in Bytes /\ first.to \in Bytes /\ first.from <= first.to /\ Of(first) \subseteq Bytes
    BY <1>5, <2>1, SegmentIs
  <2> HIDE DEF first
  <2>3. /\ y \in Readers /\ y.pc = "reading" /\ y.why = "none" /\ y.mode = "none" /\ y.queue = missing \ {first}
        /\ y.have = l.have /\ y.cache = l.cache /\ y.bad = l.bad /\ y.counted = l.counted /\ y.worker = l.worker
    BY <1>2, <1>4, <1>5 DEF Prepared, Readers
  <2>4. Fill(x, fresh) = [y EXCEPT !.worker[1] = u]
    BY <1>3, <1>8 DEF first
  <2>5. u \in Requests /\ u.at \in {"asked", "waiting"} /\ u.from <= u.to /\ Of(u) = Of(first)
    BY <2>2, AskedIs
  <2> HIDE DEF y, u
  <2>6. Active(y) = {} /\ Sound(y)
    BY <1>2, <2>3 DEF Prepared, Active, Sound
  <2>7. Base(y, W)
    BY <1>2, <2>3, <2>6, QuietBase DEF Prepared
  <2>8. Apart(y, W, Of(first))
    BY <1>5, <2>1, <2>2, <2>3, <2>6 DEF Apart, SegmentsApart
  <2>9. Between(y, 1, Of(first))
    BY <1>6, <2>3, <2>6, <2>7, <2>8 DEF Between, Goes
  <2> DEFINE rest == Of(first)
             one == 1
  <2>10. Between(y, one, rest) /\ Of(u) = rest
    BY <2>5, <2>9
  <2> HIDE DEF rest, one
  <2>11. LET z == [y EXCEPT !.worker[one] = u] IN Steps(y, one, z)
    BY <2>5, <2>10, Fetches
  <2> QED BY <2>4, <2>11 DEF Steps, one
<1>9. CASE missing # {} /\ ~ x.ranges
  <2> DEFINE y == [l EXCEPT !.queue = {}, !.mode = "whole"]
             W == Workers \ {1}
             u == Asked(All)
  <2>1. All.from \in Bytes /\ All.to \in Bytes /\ All.from <= All.to
    BY DEF All, Bytes
  <2>2. /\ y \in Readers /\ y.pc = "reading" /\ y.why = "none" /\ y.mode = "whole"
        /\ y.have = l.have /\ y.cache = l.cache /\ y.counted = l.counted /\ y.worker = l.worker
    BY <1>2, <1>4 DEF Prepared, Readers
  <2>3. Fill(x, fresh) = [y EXCEPT !.worker[1] = u]
    BY <1>3, <1>9
  <2>4. u \in Requests /\ u.at \in {"asked", "waiting"} /\ u.from <= u.to
    BY <2>1, AskedIs
  <2> HIDE DEF y, u
  <2>5. Active(y) = {}
    BY <1>2, <2>2 DEF Prepared, Active
  <2>6. Base(y, W)
    BY <1>2, <2>2, <2>5, QuietBase DEF Prepared
  <2>7. Between(y, 1, {})
    BY <1>6, <2>2, <2>6 DEF Between, Goes
  <2> DEFINE rest == {}
             one == 1
  <2>8. Between(y, one, rest)
    BY <2>7
  <2> HIDE DEF rest, one
  <2>9. LET z == [y EXCEPT !.worker[one] = u] IN Steps(y, one, z)
    BY <2>2, <2>4, <2>8, Fetches
  <2> QED BY <2>3, <2>9 DEF Steps, one
<1> QED BY <1>7, <1>8, <1>9

-----------------------------------------------------------------------------
(* The steps. What had come is given up at most in a change of mode.       *)

Stays(x, z) ==
  /\ ReaderInv(z)
  /\ x.pc = "reading" /\ z.pc \in {"reading", "failed"} /\ z.mode = "ranged" =>
       HereOf(x, Workers) \subseteq HereOf(z, Workers)

LEMMA AnyBase ==
  ASSUME NEW x, ReaderInv(x)
  PROVE  Base(x, Workers) /\ x \in Readers
BY DEF ReaderInv, Goes, Ended, Base

LEMMA OnItsWay ==
  ASSUME NEW x, ReaderInv(x), NEW i \in Active(x)
  PROVE  /\ Goes(x, Workers, {}) /\ Base(x, Workers) /\ x \in Readers /\ i \in Workers
         /\ x.pc = "reading" /\ x.why = "none" /\ x.mode \in {"none", "ranged", "whole"}
         /\ x.mode # "ranged" => i = 1
         /\ x.mode # "whole" => Apart(x, Workers, {}) /\ Sound(x)
         /\ x.worker[i].from <= x.worker[i].to
<1>1. Goes(x, Workers, {}) /\ x.pc = "reading"
  BY DEF ReaderInv, Ended
<1>2. Base(x, Workers) /\ x \in Readers /\ i \in Workers /\ x.worker[i].at # "off"
  BY <1>1 DEF Goes, Base, Active
<1>3. x.mode # "ranged" => i = 1
  BY <1>2 DEF Base
<1> QED BY <1>1, <1>2, <1>3 DEF Goes, Base, Readers, Fits

LEMMA FailStays ==
  ASSUME NEW x, ReaderInv(x), NEW why \in {"notIntact", "network", "http", "aborted"}
  PROVE  Stays(x, Fail(x, why))
<1> DEFINE f == Fail(x, why)
<1>1. Base(x, Workers)
  BY AnyBase
<1>2. /\ Ended(f) /\ f.pc = "failed" /\ f.mode = x.mode
      /\ x.mode # "whole" => f.have = HereOf(x, Workers)
  BY <1>1, FailEnds
<1> HIDE DEF f
<1>3. ReaderInv(f)
  BY <1>2 DEF ReaderInv
<1>4. f.mode = "ranged" => HereOf(x, Workers) \subseteq HereOf(f, Workers)
  BY <1>2 DEF HereOf
<1> QED BY <1>3, <1>4 DEF Stays, f

(* A worker that has no open answer is between two requests.               *)
LEMMA AsideIs ==
  ASSUME NEW x, ReaderInv(x), NEW i \in Active(x), i \notin Streaming(x)
  PROVE  /\ Between(x, i, Of(x.worker[i])) /\ i \in Workers
         /\ HereOf(x, Workers \ {i}) = HereOf(x, Workers)
<1>1. /\ Base(x, Workers) /\ i \in Workers
      /\ x.pc = "reading" /\ x.why = "none"
      /\ x.mode # "ranged" => i = 1
      /\ x.mode # "whole" => Apart(x, Workers, {}) /\ Sound(x)
  BY OnItsWay
<1> DEFINE rest == Of(x.worker[i])
<1>2. /\ Base(x, Workers \ {i}) /\ HereOf(x, Workers \ {i}) = HereOf(x, Workers)
      /\ Apart(x, Workers, {}) => Apart(x, Workers \ {i}, rest)
  BY <1>1, SetAside
<1> HIDE DEF rest
<1>3. Between(x, i, rest)
  BY <1>1, <1>2 DEF Between, Goes
<1> QED BY <1>1, <1>2, <1>3 DEF rest

LEMMA StepsStay ==
  ASSUME NEW x, NEW i, NEW z, Steps(x, i, z), HereOf(x, Workers \ {i}) = HereOf(x, Workers)
  PROVE  Stays(x, z)
BY DEF Steps, Stays

LEMMA NotAnsweredStays ==
  ASSUME ReadInv, NEW i \in Workers, NotAnswered(i)
  PROVE  Stays(r, r')
<1>1. ReaderInv(r) /\ i \in Active(r) /\ i \notin Streaming(r)
  BY DEF ReadInv, NotAnswered, Active, Streaming
<1>2. Between(r, i, Of(r.worker[i])) /\ HereOf(r, Workers \ {i}) = HereOf(r, Workers)
  BY <1>1, AsideIs
<1>3. r.worker[i].from <= r.worker[i].to
  BY <1>1, OnItsWay
<1> DEFINE got == 0
           short == FALSE
<1>4. r' = Again(r, i, got, short) /\ got \in Nat /\ short \in BOOLEAN
  BY DEF NotAnswered
<1> HIDE DEF got, short
<1>5. Steps(r, i, Again(r, i, got, short))
  BY <1>2, <1>3, <1>4, AgainSteps
<1> QED BY <1>2, <1>4, <1>5, StepsStay

LEMMA WaitOverStays ==
  ASSUME ReadInv, NEW i \in Workers, WaitOver(i)
  PROVE  Stays(r, r')
<1>1. ReaderInv(r) /\ i \in Active(r) /\ i \notin Streaming(r)
  BY DEF ReadInv, WaitOver, Active, Streaming
<1>2. Between(r, i, Of(r.worker[i])) /\ HereOf(r, Workers \ {i}) = HereOf(r, Workers)
  BY <1>1, AsideIs
<1>3. r.worker[i].from <= r.worker[i].to /\ r \in Readers
  BY <1>1, OnItsWay
<1> DEFINE w == r.worker[i]
           u == [w EXCEPT !.at = "asked"]
           rest == Of(w)
<1>4. w \in Requests
  BY <1>3, WorkerIs DEF Requests
<1> HIDE DEF w
<1>5. u \in Requests /\ u.at = "asked" /\ u.from = w.from /\ u.to = w.to
  BY <1>4 DEF Requests
<1>6. r' = [r EXCEPT !.worker[i] = u]
  BY <1>3 DEF WaitOver, Readers, w
<1> HIDE DEF u, rest
<1>7. Between(r, i, rest) /\ u.from <= u.to /\ Of(u) = rest
  BY <1>2, <1>3, <1>5 DEF Of, w, rest
<1>8. LET z == [r EXCEPT !.worker[i] = u] IN Steps(r, i, z)
  BY <1>5, <1>7, Fetches
<1> QED BY <1>2, <1>6, <1>8, StepsStay

LEMMA RefusedStays ==
  ASSUME ReadInv, NEW i \in Workers, Refused(i)
  PROVE  Stays(r, r')
BY FailStays DEF Refused, ReadInv

LEMMA TooLongStays ==
  ASSUME ReadInv, NEW i \in Workers, TooLong(i)
  PROVE  Stays(r, r')
BY FailStays DEF TooLong, ReadInv

LEMMA OtherAnsweredStays ==
  ASSUME ReadInv, NEW i \in Workers, OtherAnswered(i)
  PROVE  Stays(r, r')
<1>1. ReaderInv(r) /\ i \in Active(r)
  BY DEF ReadInv, OtherAnswered, Active
<1>2. /\ Base(r, Workers) /\ r \in Readers /\ r.pc = "reading" /\ r.why = "none"
      /\ r.mode \in {"none", "ranged", "whole"}
  BY <1>1, OnItsWay
<1>3. CASE r.mode = "ranged"
  BY <1>1, <1>3, FailStays DEF OtherAnswered
<1>4. CASE r.mode # "ranged"
  <2> DEFINE z == [r EXCEPT !.mode = "whole"]
  <2>1. r.mode = "none" /\ r' = z
    BY <1>2, <1>4 DEF OtherAnswered
  <2>2. /\ z \in Readers /\ z.mode = "whole" /\ z.pc = "reading" /\ z.why = "none" /\ z.cache = r.cache
        /\ z.have = r.have /\ z.counted = r.counted /\ z.worker = r.worker
    BY <1>2 DEF Readers
  <2> HIDE DEF z
  <2>3. Workers \cap Streaming(r) = {} /\ Workers \cap Streaming(z) = {} /\ Workers \cap Active(z) = Workers \cap Active(r)
    BY <1>2, <2>1, <2>2 DEF Base, Streaming, Active
  <2>4. HereOf(z, Workers) = HereOf(r, Workers)
    BY <2>2, <2>3 DEF HereOf, Coming
  <2>5. \A j \in Workers : Fits(z, j)
    BY <1>2, <2>2, <2>3 DEF Base, Fits, Streaming
  <2>6. Base(z, Workers)
    BY <1>2, <2>1, <2>2, <2>3, <2>4, <2>5 DEF Base, CountsOf
  <2> QED BY <2>1, <2>2, <2>6 DEF Stays, ReaderInv, Goes
<1> QED BY <1>3, <1>4

LEMMA WholeAnsweredStays ==
  ASSUME ReadInv, NEW i \in Workers, WholeAnswered(i)
  PROVE  Stays(r, r')
<1> USE SizesAssumption
<1>1. ReaderInv(r) /\ i \in Active(r) /\ i \notin Streaming(r)
  BY DEF ReadInv, WholeAnswered, Active, Streaming
<1>2. /\ Base(r, Workers) /\ r \in Readers /\ r.pc = "reading" /\ r.why = "none"
      /\ r.mode \in {"none", "ranged", "whole"} /\ (r.mode # "ranged" => i = 1)
      /\ r.worker[i].from <= r.worker[i].to
  BY <1>1, OnItsWay
<1>3. CASE r.mode = "ranged"
  BY <1>1, <1>3, FailStays DEF WholeAnswered
<1>4. CASE r.mode # "ranged"
  <2> DEFINE u == [r.worker[i] EXCEPT !.at = "stream", !.got = 0, !.expected = Size]
             z == [TakeBack(r) EXCEPT !.mode = "whole", !.queue = {}, !.worker[i] = u]
             ws == [r.worker EXCEPT ![i] = u]
  <2>1. r' = z
    BY <1>2, <1>4 DEF WholeAnswered, TakeBack, Readers
  <2>2. /\ u \in Requests /\ u.at = "stream" /\ u.got = 0 /\ u.expected = Size /\ u.from <= u.to
    <3>1. r.worker[i] \in Requests
      BY <1>2, WorkerIs DEF Requests
    <3> DEFINE w == r.worker[i]
    <3>2. w \in Requests /\ w.from <= w.to /\ u = [w EXCEPT !.at = "stream", !.got = 0, !.expected = Size]
      BY <1>2, <3>1
    <3> HIDE DEF w, u
    <3>3. Size \in 0 .. Size /\ 0 \in 0 .. Size
      OBVIOUS
    <3>4. u \in Requests
      BY <3>2, <3>3 DEF Requests
    <3> QED BY <3>2, <3>4 DEF Requests
  <2> HIDE DEF u
  <2>3. ws \in [Workers -> Requests] /\ ws[i] = u /\ \A j \in Workers \ {i} : ws[j] = r.worker[j]
    BY <1>2, <2>2 DEF Readers, Requests
  <2> DEFINE none == [cache |-> 0, network |-> 0]
  <2>4. z = [r EXCEPT !.counted = none, !.have = {}, !.bad = {}, !.mode = "whole", !.queue = {}, !.worker = ws]
    BY <1>2 DEF TakeBack, Readers
  <2>5. none \in [cache : 0 .. Size, network : 0 .. Size] /\ none.cache = 0 /\ none.network = 0
    OBVIOUS
  <2> HIDE DEF z, ws, none
  <2>6. z \in Readers
    BY <1>2, <2>3, <2>4, <2>5 DEF Readers, Requests
  <2>7. /\ z.mode = "whole" /\ z.pc = "reading" /\ z.why = "none" /\ z.cache = r.cache
        /\ z.have = {} /\ z.counted = none /\ z.worker = ws
    BY <1>2, <2>4 DEF Readers
  <2>8. Workers \cap Active(r) \subseteq {i} /\ Workers \cap Active(z) \subseteq {i}
    BY <1>2, <1>4, <2>3, <2>7 DEF Base, Active
  <2>9. Streaming(z) = {i} /\ Arrived(z, i) = {}
    <3>1. Streaming(z) \subseteq {i} /\ i \in Streaming(z)
      BY <2>2, <2>3, <2>7, <2>8 DEF Active, Streaming
    <3>2. Arrived(z, i) = 0 .. (0 + 0 - 1)
      BY <2>2, <2>3, <2>7 DEF Arrived
    <3> QED BY <3>1, <3>2
  <2>10. HereOf(z, Workers) = {}
    BY <2>7, <2>9 DEF HereOf, Coming
  <2>11. CountsOf(z, Workers)
    BY <2>5, <2>7, <2>10, FS_EmptySet DEF CountsOf
  <2>12. \A j \in Workers : Fits(z, j)
    <3> SUFFICES ASSUME NEW j \in Workers PROVE Fits(z, j)
      OBVIOUS
    <3>1. CASE j = i
      BY <2>2, <2>3, <2>7, <3>1 DEF Fits
    <3>2. CASE j # i
      <4>1. z.worker[j].at = "off"
        BY <2>8, <3>2 DEF Active
      <4> QED BY <4>1 DEF Fits
    <3> QED BY <3>1, <3>2
  <2>13. Base(z, Workers)
    BY <1>2, <1>4, <2>5, <2>6, <2>7, <2>8, <2>11, <2>12 DEF Base
  <2> QED BY <2>1, <2>7, <2>13 DEF Stays, ReaderInv, Goes
<1> QED BY <1>3, <1>4

(* Reads that differ in nothing the invariant is about but how they stand. *)
LEMMA SameEnded ==
  ASSUME NEW x, NEW z \in Readers, Base(x, Workers), z.have = x.have, z.counted = x.counted,
         z.mode = x.mode, z.worker = x.worker, z.cache = x.cache, z.bad = x.bad
  PROVE  /\ Base(z, Workers) /\ HereOf(z, Workers) = HereOf(x, Workers) /\ Active(z) = Active(x)
         /\ Sound(x) => Sound(z)
<1>1. CountAlike(x, z, Workers)
  BY DEF CountAlike, Alike
<1>2. \A piece \in z.cache : piece.bad \subseteq Of(piece)
  BY DEF Base
<1>3. Base(z, Workers) /\ HereOf(z, Workers) = HereOf(x, Workers)
  BY <1>1, <1>2, SameBase
<1> QED BY <1>3 DEF Active, Sound

LEMMA StorageFillsStays ==
  ASSUME ReadInv, StorageFills
  PROVE  Stays(r, r')
<1> DEFINE z == [r EXCEPT !.full = TRUE]
<1>1. ReaderInv(r) /\ Base(r, Workers) /\ r \in Readers /\ r' = z
  BY AnyBase DEF ReadInv, StorageFills
<1>2. /\ z \in Readers /\ z.have = r.have /\ z.counted = r.counted /\ z.queue = r.queue /\ z.aborted = r.aborted
      /\ z.mode = r.mode /\ z.worker = r.worker /\ z.cache = r.cache /\ z.bad = r.bad /\ z.pc = r.pc /\ z.why = r.why
  BY <1>1 DEF Readers
<1> HIDE DEF z
<1>3. /\ Base(z, Workers) /\ HereOf(z, Workers) = HereOf(r, Workers) /\ Active(z) = Active(r)
      /\ Sound(r) => Sound(z)
  BY <1>1, <1>2, SameEnded
<1>4. ASSUME r.pc = "reading" PROVE ReaderInv(z)
  <2>1. Apart(r, Workers, {}) => Apart(z, Workers, {})
    BY <1>2, <1>3 DEF Apart
  <2> QED BY <1>1, <1>2, <1>3, <1>4, <2>1 DEF ReaderInv, Goes
<1>5. ASSUME r.pc # "reading" PROVE ReaderInv(z)
  BY <1>1, <1>2, <1>3, <1>5 DEF ReaderInv, Ended
<1> QED BY <1>1, <1>3, <1>4, <1>5 DEF Stays

LEMMA CheckStays ==
  ASSUME ReadInv, Check
  PROVE  Stays(r, r')
<1> DEFINE right == [r EXCEPT !.pc = "done", !.why = "ok"]
           wrong == [r EXCEPT !.pc = "failed", !.why = "notIntact"]
<1>1. /\ ReaderInv(r) /\ Base(r, Workers) /\ r \in Readers /\ r.pc = "check" /\ Ended(r)
      /\ r' = IF r.bad = {} THEN right ELSE wrong
  BY AnyBase DEF ReadInv, Check, ReaderInv
<1>2. CASE r.bad = {}
  <2>1. /\ right \in Readers /\ right.have = r.have /\ right.counted = r.counted
        /\ right.mode = r.mode /\ right.worker = r.worker /\ right.cache = r.cache /\ right.bad = r.bad
        /\ right.pc = "done" /\ right.why = "ok"
    BY <1>1 DEF Readers
  <2> HIDE DEF right
  <2>2. /\ Base(right, Workers) /\ Active(right) = Active(r) /\ (Sound(r) => Sound(right))
    BY <1>1, <2>1, SameEnded
  <2>3. ReaderInv(right)
    BY <1>1, <1>2, <2>1, <2>2 DEF ReaderInv, Ended
  <2> QED BY <1>1, <1>2, <2>3 DEF Stays
<1>3. CASE r.bad # {}
  <2>1. /\ wrong \in Readers /\ wrong.have = r.have /\ wrong.counted = r.counted
        /\ wrong.mode = r.mode /\ wrong.worker = r.worker /\ wrong.cache = r.cache /\ wrong.bad = r.bad
        /\ wrong.pc = "failed" /\ wrong.why = "notIntact"
    BY <1>1 DEF Readers
  <2> HIDE DEF wrong
  <2>2. /\ Base(wrong, Workers) /\ Active(wrong) = Active(r)
    BY <1>1, <2>1, SameEnded
  <2>3. ReaderInv(wrong)
    BY <1>1, <2>1, <2>2 DEF ReaderInv, Ended
  <2> QED BY <1>1, <1>3, <2>3 DEF Stays
<1> QED BY <1>2, <1>3

LEMMA AbortStays ==
  ASSUME ReadInv, Abort
  PROVE  Stays(r, r')
<1>1. ReaderInv(r) /\ Base(r, Workers) /\ r \in Readers /\ r.pc \in {"reading", "check", "failed"}
  BY AnyBase DEF ReadInv, Abort
<1>2. CASE r.pc = "reading"
  <2> DEFINE f == Fail(r, "aborted")
             z == [f EXCEPT !.aborted = TRUE]
  <2>1. /\ Ended(f) /\ f.pc = "failed" /\ f.mode = r.mode
        /\ r.mode # "whole" => f.have = HereOf(r, Workers)
    BY <1>1, FailEnds
  <2>2. r' = z
    BY <1>2 DEF Abort
  <2> HIDE DEF f
  <2>3. Base(f, Workers) /\ f \in Readers
    BY <2>1 DEF Ended, Base
  <2>4. /\ z \in Readers /\ z.have = f.have /\ z.counted = f.counted
        /\ z.mode = f.mode /\ z.worker = f.worker /\ z.cache = f.cache /\ z.bad = f.bad
        /\ z.pc = f.pc /\ z.why = f.why
    BY <2>3 DEF Readers
  <2> HIDE DEF z
  <2>5. /\ Base(z, Workers) /\ HereOf(z, Workers) = HereOf(f, Workers) /\ Active(z) = Active(f)
    BY <2>3, <2>4, SameEnded
  <2>6. ReaderInv(z)
    BY <2>1, <2>4, <2>5 DEF ReaderInv, Ended
  <2>7. z.mode = "ranged" => HereOf(r, Workers) \subseteq HereOf(z, Workers)
    BY <2>1, <2>4 DEF HereOf
  <2> QED BY <2>2, <2>6, <2>7 DEF Stays
<1>3. CASE r.pc # "reading"
  <2> DEFINE z == [r EXCEPT !.aborted = TRUE]
  <2>1. r' = z /\ Ended(r)
    BY <1>1, <1>3 DEF Abort, ReaderInv
  <2>2. /\ z \in Readers /\ z.have = r.have /\ z.counted = r.counted
        /\ z.mode = r.mode /\ z.worker = r.worker /\ z.cache = r.cache /\ z.bad = r.bad
        /\ z.pc = r.pc /\ z.why = r.why
    BY <1>1 DEF Readers
  <2> HIDE DEF z
  <2>3. /\ Base(z, Workers) /\ Active(z) = Active(r) /\ (Sound(r) => Sound(z))
    BY <1>1, <2>2, SameEnded
  <2>4. ReaderInv(z)
    BY <1>1, <1>3, <2>1, <2>2, <2>3 DEF ReaderInv, Ended
  <2> QED BY <1>3, <2>1, <2>4 DEF Stays
<1> QED BY <1>2, <1>3

LEMMA SettleStays ==
  ASSUME ReadInv, Settle
  PROVE  Stays(r, r')
<1>1. /\ ReaderInv(r) /\ Base(r, Workers) /\ r \in Readers /\ r.pc = "failed" /\ Ended(r)
      /\ r.why \notin {"none", "ok"} /\ Active(r) = {}
  BY AnyBase DEF ReadInv, Settle, ReaderInv, Ended
<1>2. CASE r.why # "notIntact" \/ r.aborted
  <2> DEFINE z == [r EXCEPT !.pc = "done"]
  <2>1. r' = z
    BY <1>2 DEF Settle
  <2>2. /\ z \in Readers /\ z.have = r.have /\ z.counted = r.counted
        /\ z.mode = r.mode /\ z.worker = r.worker /\ z.cache = r.cache /\ z.bad = r.bad
        /\ z.pc = "done" /\ z.why = r.why /\ z.aborted = r.aborted
    BY <1>1 DEF Readers
  <2> HIDE DEF z
  <2>3. /\ Base(z, Workers) /\ Active(z) = Active(r)
    BY <1>1, <2>2, SameEnded
  <2>4. ReaderInv(z)
    BY <1>1, <1>2, <2>2, <2>3 DEF ReaderInv, Ended
  <2> QED BY <1>1, <2>1, <2>4 DEF Stays
<1>3. CASE ~ (r.why # "notIntact" \/ r.aborted)
  <2> DEFINE empty == TakeBack(deletePieces(r))
             zero == [cache |-> 0, network |-> 0]
             again == [empty EXCEPT !.attempt = 1, !.why = "none"]
             over == [empty EXCEPT !.pc = "done"]
  <2>1. r' = IF r.attempt = 0 THEN Fill(again, TRUE) ELSE over
    BY <1>1, <1>3 DEF Settle, Discard, TakeBack, deletePieces, Readers
  <2>2. zero \in [cache : 0 .. Size, network : 0 .. Size] /\ zero.cache = 0 /\ zero.network = 0
    BY SizesAssumption
  <2>3. empty = [r EXCEPT !.cache = {}, !.counted = zero, !.have = {}, !.bad = {}]
    BY <1>1 DEF TakeBack, deletePieces, Readers
  <2> HIDE DEF zero, empty
  <2>4. /\ empty \in Readers /\ empty.cache = {} /\ empty.counted = zero /\ empty.have = {} /\ empty.bad = {}
        /\ empty.worker = r.worker /\ empty.why = r.why /\ empty.pc = r.pc
    BY <1>1, <2>2, <2>3 DEF Readers
  <2>5. CASE r.attempt = 0
    <3>1. /\ again \in Readers /\ again.cache = {} /\ again.counted = zero /\ again.why = "none" /\ again.worker = r.worker
      <4>1. 1 \in 0 .. 1 /\ zero \in [cache : 0 .. Size, network : 0 .. Size]
        BY <2>2
      <4> HIDE <2>2
      <4>2. again \in Readers
        BY <2>4, <4>1 DEF Readers
      <4>3. /\ again.cache = empty.cache /\ again.counted = empty.counted /\ again.why = "none"
            /\ again.worker = empty.worker
        BY <2>4 DEF Readers
      <4> QED BY <2>4, <4>2, <4>3
    <3> HIDE DEF again
    <3>2. Active(again) = {}
      BY <1>1, <3>1 DEF Active
    <3>3. Fresh(again)
      BY <2>2, <3>1, <3>2 DEF Fresh
    <3> DEFINE fresh == TRUE
    <3>4. fresh \in BOOLEAN /\ (fresh => again.cache = {})
      BY <3>1
    <3> HIDE DEF fresh
    <3>5. ReaderInv(Fill(again, fresh))
      BY <3>3, <3>4, FillStarts
    <3>6. r' = Fill(again, fresh)
      BY <2>1, <2>5 DEF fresh
    <3> QED BY <1>1, <3>5, <3>6 DEF Stays
  <2>6. CASE r.attempt # 0
    <3>1. /\ over \in Readers /\ over.cache = {} /\ over.counted = zero /\ over.have = {} /\ over.pc = "done"
          /\ over.why = r.why /\ over.worker = r.worker
      BY <2>4 DEF Readers
    <3>2. r' = over
      BY <2>1, <2>6
    <3> HIDE DEF over
    <3>3. Active(over) = {}
      BY <1>1, <3>1 DEF Active
    <3>4. Cardinality(over.have) = 0 /\ over.counted.cache + over.counted.network = 0
      BY <2>2, <3>1, FS_EmptySet
    <3>5. \A piece \in over.cache : piece.bad \subseteq Of(piece)
      BY <3>1
    <3>6. Base(over, Workers)
      BY <3>1, <3>3, <3>4, <3>5, QuietBase
    <3>7. ReaderInv(over)
      BY <1>1, <3>1, <3>3, <3>6 DEF ReaderInv, Ended
    <3> QED BY <1>1, <3>2, <3>7 DEF Stays
  <2> QED BY <2>5, <2>6
<1> QED BY <1>2, <1>3

LEMMA ReadStays ==
  ASSUME ReadInv, Read
  PROVE  Stays(r, r')
<1> DEFINE zero == [cache |-> 0, network |-> 0]
           x == [r EXCEPT !.counted = zero, !.store = TRUE,
                 !.attempt = 0, !.why = "none", !.aborted = FALSE, !.load = @ + 1]
<1>1. /\ ReaderInv(r) /\ Base(r, Workers) /\ r \in Readers /\ r.pc \in {"idle", "done"} /\ r.load < MaxLoads
      /\ Active(r) = {} /\ \A piece \in r.cache : piece.bad \subseteq Of(piece)
  BY AnyBase DEF ReadInv, Read, ReaderInv, Ended, Base
<1>2. r' = Fill(x, FALSE)
  BY DEF Read
<1>3. zero \in [cache : 0 .. Size, network : 0 .. Size] /\ zero.cache = 0 /\ zero.network = 0
  BY SizesAssumption
<1>4. r.load + 1 \in 0 .. MaxLoads
  BY <1>1, SizesAssumption DEF Readers
<1> HIDE DEF zero
<1>5. x \in Readers /\ x.counted = zero /\ x.why = "none" /\ x.cache = r.cache /\ x.worker = r.worker
  <2>1. 0 \in 0 .. 1 /\ TRUE \in BOOLEAN /\ FALSE \in BOOLEAN
    OBVIOUS
  <2>2. r \in Readers /\ zero \in [cache : 0 .. Size, network : 0 .. Size] /\ r.load + 1 \in 0 .. MaxLoads
    BY <1>1, <1>3, <1>4
  <2>3. x \in Readers
    BY <2>1, <2>2 DEF Readers
  <2>4. x.counted = zero /\ x.why = "none" /\ x.cache = r.cache /\ x.worker = r.worker
    BY <2>2 DEF Readers
  <2> QED BY <2>3, <2>4
<1> HIDE DEF x
<1>6. Active(x) = {}
  BY <1>1, <1>5 DEF Active
<1>7. Fresh(x)
  BY <1>1, <1>3, <1>5, <1>6 DEF Fresh
<1> DEFINE fresh == FALSE
<1>8. fresh \in BOOLEAN /\ (fresh => x.cache = {}) /\ r' = Fill(x, fresh)
  BY <1>2
<1> HIDE DEF fresh
<1>9. ReaderInv(r')
  BY <1>7, <1>8, FillStarts
<1> QED BY <1>1, <1>9 DEF Stays

-----------------------------------------------------------------------------
(* What an open answer brings.                                             *)

LEMMA ChunkStays ==
  ASSUME ReadInv, NEW i \in Workers, Chunk(i)
  PROVE  Stays(r, r')
<1> USE SizesAssumption
<1> DEFINE w == r.worker[i]
           at == (IF r.mode = "whole" THEN 0 ELSE w.from) + w.got
           here == HereOf(r, Workers)
<1>1. ReaderInv(r) /\ i \in Active(r) /\ i \in Streaming(r)
  BY DEF ReadInv, Chunk, Active, Streaming
<1>2. /\ Base(r, Workers) /\ r \in Readers /\ r.pc = "reading" /\ r.why = "none"
      /\ r.mode # "ranged" => i = 1
      /\ r.mode # "whole" => Apart(r, Workers, {}) /\ Sound(r)
      /\ w.from <= w.to
  BY <1>1, OnItsWay
<1>3. r.mode \in {"ranged", "whole"}
  BY <1>1, <1>2, ArrivedIs
<1>4. PICK bad \in {r.bad \cup {at}, r.bad \ {at}} :
        r' = [r EXCEPT !.worker[i].got = @ + 1, !.counted.network = @ + 1, !.bad = bad]
  BY DEF Chunk
<1>5. /\ w \in Requests /\ w.at = "stream" /\ w.got < w.expected
      /\ w.got \in Nat /\ w.expected \in Nat /\ w.expected <= Size /\ w.from \in Nat /\ w.to \in Nat /\ w.to < Size
  BY <1>2, WorkerIs DEF Requests, Chunk, Bytes
<1>6. /\ r.mode = "ranged" => w.expected <= w.to - w.from + 1
      /\ r.mode = "whole" => w.expected = Size
  BY <1>2, <1>5 DEF Base, Fits
<1>7. at \in Bytes /\ (r.mode = "ranged" => at \in Of(w))
  BY <1>3, <1>5, <1>6 DEF Bytes, Of
<1>8. Arrived(r, i) \cup {at} = (IF r.mode = "whole" THEN 0 ELSE w.from) .. at /\ at \notin Arrived(r, i)
  <2> DEFINE start == IF r.mode = "whole" THEN 0 ELSE w.from
             g == w.got
  <2>1. Arrived(r, i) = start .. (start + g - 1) /\ at = start + g /\ start \in Nat /\ g \in Nat
    BY <1>5 DEF Arrived
  <2> HIDE DEF start, g, at
  <2>2. (start .. (start + g - 1)) \cup {start + g} = start .. (start + g) /\ start + g \notin start .. (start + g - 1)
    BY <2>1
  <2> QED BY <2>1, <2>2 DEF start
<1>9. at \notin here
  <2>1. ASSUME r.mode = "whole" PROVE at \notin here
    <3>1. Workers \cap Streaming(r) = {i} /\ r.have = {}
      <4>1. Workers \cap Streaming(r) \subseteq {i} /\ i \in Workers \cap Streaming(r)
        BY <1>1, <1>2, <2>1 DEF Base, Active, Streaming
      <4> QED BY <1>2, <2>1, <4>1 DEF Base
    <3>2. here = Arrived(r, i)
      BY <3>1 DEF HereOf, Coming
    <3> QED BY <1>8, <3>2
  <2>2. ASSUME r.mode = "ranged" PROVE at \notin here
    <3>1. Apart(r, Workers, {}) /\ at \in Of(w)
      BY <1>2, <1>7, <2>2
    <3>2. at \notin r.have
      BY <1>1, <3>1 DEF Apart
    <3>3. ASSUME NEW j \in Workers \cap Streaming(r) PROVE at \notin Arrived(r, j)
      <4>1. CASE j = i
        BY <1>8, <4>1
      <4>2. CASE j # i
        <5>1. j \in Workers \cap Active(r) /\ i \in Workers \cap Active(r)
          BY <1>1 DEF Active, Streaming
        <5>2. at \notin Of(r.worker[j])
          BY <3>1, <4>2, <5>1 DEF Apart
        <5>3. Arrived(r, j) \subseteq Of(r.worker[j])
          BY <1>2, <2>2, <3>3, ArrivedIs
        <5> QED BY <5>2, <5>3
      <4> QED BY <4>1, <4>2
    <3> QED BY <3>2, <3>3 DEF HereOf, Coming
  <2> QED BY <1>3, <2>1, <2>2
<1> DEFINE u == [w EXCEPT !.got = @ + 1]
           ws == [r.worker EXCEPT ![i] = u]
           counted == [r.counted EXCEPT !.network = @ + 1]
           z == [r EXCEPT !.worker = ws, !.counted = counted, !.bad = bad]
<1>10. r' = z
  BY <1>2, <1>4 DEF Readers
<1>11. u \in Requests /\ u.at = "stream" /\ u.from = w.from /\ u.to = w.to /\ u.got = w.got + 1 /\ u.expected = w.expected
  <2>1. w.got + 1 \in 0 .. Size
    BY <1>5
  <2> HIDE DEF w
  <2> QED BY <1>5, <2>1 DEF Requests
<1> HIDE DEF u
<1>12. ws \in [Workers -> Requests] /\ ws[i] = u /\ \A j \in Workers \ {i} : ws[j] = r.worker[j]
  BY <1>2, <1>11 DEF Readers, Requests
<1>13. Cardinality(here \cup {at}) = Cardinality(here) + 1 /\ Cardinality(here) + 1 \in 0 .. Size
  <2>1. here \subseteq Bytes /\ IsFiniteSet(here) /\ Cardinality(here) \in 0 .. Size
    BY <1>2, HereIs
  <2>2. Cardinality(here \cup {at}) = Cardinality(here) + 1
    <3> HIDE DEF here, at
    <3> QED BY <1>9, <2>1, FS_AddElement
  <2>3. IsFiniteSet(Bytes) /\ Cardinality(Bytes) = Size
    <3>1. IsFiniteSet(0 .. (Size - 1)) /\ Cardinality(0 .. (Size - 1)) = IF 0 > Size - 1 THEN 0 ELSE Size - 1 - 0 + 1
      BY FS_Interval
    <3> QED BY <3>1 DEF Bytes
  <2> DEFINE more == here \cup {at}
  <2>4. more \in SUBSET Bytes
    BY <1>7, <2>1
  <2> HIDE DEF more
  <2>5. Cardinality(more) <= Size
    BY <2>3, <2>4, FS_Subset
  <2> HIDE DEF here
  <2> QED BY <2>1, <2>2, <2>5 DEF more
<1>14. counted \in [cache : 0 .. Size, network : 0 .. Size] /\ counted.cache + counted.network = Cardinality(here) + 1
  <2>1. r.counted \in [cache : 0 .. Size, network : 0 .. Size] /\ r.counted.cache + r.counted.network = Cardinality(here)
    BY <1>2 DEF Readers, Base, CountsOf
  <2> HIDE DEF here
  <2> QED BY <1>13, <2>1
<1>15. bad \in SUBSET Bytes
  BY <1>2, <1>7 DEF Readers
<1> HIDE DEF ws, counted, z
<1>16. z \in Readers
  BY <1>2, <1>12, <1>14, <1>15 DEF Readers, Requests, z
<1>17. /\ z.worker = ws /\ z.counted = counted /\ z.bad = bad /\ z.have = r.have /\ z.mode = r.mode /\ z.cache = r.cache
       /\ z.queue = r.queue /\ z.pc = r.pc /\ z.why = r.why
  BY <1>2 DEF z, Readers
<1>18. Streaming(z) = Streaming(r) /\ Active(z) = Active(r)
  BY <1>1, <1>11, <1>12, <1>17 DEF Streaming, Active
<1>19. Arrived(z, i) = Arrived(r, i) \cup {at} /\ \A j \in Workers \ {i} : Arrived(z, j) = Arrived(r, j)
  <2>1. \A j \in Workers \ {i} : Arrived(z, j) = Arrived(r, j)
    BY <1>12, <1>17 DEF Arrived
  <2>2. Arrived(z, i) = (IF r.mode = "whole" THEN 0 ELSE w.from) .. at
    <3>1. z.worker[i].from = w.from /\ z.worker[i].got = w.got + 1 /\ z.mode = r.mode
      BY <1>11, <1>12, <1>17
    <3> QED BY <1>5, <3>1 DEF Arrived
  <2> QED BY <1>8, <2>1, <2>2
<1>20. HereOf(z, Workers) = here \cup {at}
  BY <1>1, <1>17, <1>18, <1>19 DEF HereOf, Coming
<1>21. \A j \in Workers : Fits(z, j)
  <2>1. Fits(z, i)
    BY <1>2, <1>5, <1>6, <1>11, <1>12, <1>17 DEF Fits
  <2>2. \A j \in Workers \ {i} : Fits(z, j)
    BY <1>2, <1>12, <1>17 DEF Base, Fits
  <2> QED BY <2>1, <2>2
<1>22. CountsOf(z, Workers)
  BY <1>13, <1>14, <1>17, <1>20 DEF CountsOf
<1>23. r.mode = "whole" => z.have = {} /\ z.counted.cache = 0
  <2>1. counted.cache = r.counted.cache
    BY <1>2 DEF counted, Readers
  <2>2. Workers \cap Streaming(r) # {}
    BY <1>1
  <2> QED BY <1>2, <1>17, <2>1, <2>2 DEF Base
<1>24. Base(z, Workers)
  BY <1>2, <1>3, <1>16, <1>17, <1>18, <1>21, <1>22, <1>23 DEF Base
<1>25. ASSUME r.mode # "whole" PROVE Sound(z)
  <2>1. Sound(r) /\ \A piece \in r.cache : piece.bad \subseteq r.have
    BY <1>2, <1>25 DEF Sound, Base
  <2>2. at \notin r.have
    BY <1>9 DEF HereOf
  <2> HIDE DEF at
  <2>3. \A piece \in r.cache : piece.bad \subseteq bad
    BY <2>1, <2>2 DEF Sound
  <2> QED BY <1>17, <2>1, <2>3 DEF Sound
<1>26. ASSUME r.mode # "whole" PROVE Apart(z, Workers, {})
  <2>1. \A j \in Workers : Of(z.worker[j]) = Of(r.worker[j])
    BY <1>11, <1>12, <1>17 DEF Of
  <2>2. Apart(r, Workers, {})
    BY <1>2, <1>26
  <2> DEFINE busy == Workers \cap Active(r)
  <2>3. Workers \cap Active(z) = busy /\ \A j \in busy : Of(z.worker[j]) = Of(r.worker[j])
    BY <1>18, <2>1
  <2> HIDE DEF busy
  <2> QED BY <1>17, <2>2, <2>3 DEF Apart, busy
<1>27. ReaderInv(z)
  BY <1>2, <1>17, <1>24, <1>25, <1>26 DEF ReaderInv, Goes
<1> QED BY <1>10, <1>20, <1>27 DEF Stays

LEMMA KeptAlike ==
  ASSUME NEW x, NEW y \in Readers, NEW W, NEW rest, Base(x, W), SameButCache(x, y),
         \A piece \in y.cache : piece.bad \subseteq Of(piece)
  PROVE  /\ Base(y, W) /\ HereOf(y, W) = HereOf(x, W)
         /\ Apart(x, W, rest) => Apart(y, W, rest)
<1>1. CountAlike(x, y, W) /\ PlacesAlike(x, y, W)
  BY DEF SameButCache, CountAlike, Alike, PlacesAlike
<1> QED BY <1>1, SameBase, SameApart

(* What came of a range is held; the rest of the segment, if any, is what  *)
(* the worker is to fetch next.                                            *)
LEMMA MovesOn ==
  ASSUME NEW x, NEW i \in Workers, x.mode = "ranged", x.worker[i].from + x.worker[i].got <= x.worker[i].to,
         Between(x, i, (x.worker[i].from + x.worker[i].got) .. x.worker[i].to)
  PROVE  LET y == [x EXCEPT !.worker[i].from = x.worker[i].from + x.worker[i].got] IN
         /\ Between(y, i, Of(y.worker[i])) /\ y.worker[i].from <= y.worker[i].to
         /\ y.mode = "ranged" /\ HereOf(y, Workers \ {i}) = HereOf(x, Workers \ {i})
<1> DEFINE w == x.worker[i]
           from == w.from + w.got
           u == [w EXCEPT !.from = from]
           ws == [x.worker EXCEPT ![i] = u]
           y == [x EXCEPT !.worker[i].from = from]
           W == Workers \ {i}
           rest == from .. w.to
<1>1. /\ Base(x, W) /\ x \in Readers /\ x.pc = "reading" /\ x.why = "none"
      /\ Apart(x, W, rest) /\ Sound(x)
  BY DEF Between, Goes, Base
<1>2. w \in Requests /\ w.from \in Nat /\ w.got \in Nat /\ w.to \in Nat /\ w.to < Size /\ from <= w.to
  BY <1>1, WorkerIs, SizesAssumption DEF Requests, Bytes
<1>3. from \in Bytes
  <2>1. from \in Nat
    <3> HIDE DEF w
    <3> QED BY <1>2
  <2> HIDE DEF from, w
  <2> QED BY <1>2, <2>1, SizesAssumption DEF Bytes
<1>4. y = [x EXCEPT !.worker = ws]
  BY <1>1 DEF Readers
<1> HIDE DEF from, y
<1>5. u \in Requests /\ u.from = from /\ u.to = w.to
  <2> HIDE DEF w
  <2> QED BY <1>2, <1>3 DEF Requests
<1> HIDE DEF u
<1>6. ws \in [Workers -> Requests] /\ ws[i] = u /\ \A j \in W : ws[j] = x.worker[j]
  BY <1>1, <1>5 DEF Readers, Requests
<1> HIDE DEF ws
<1>7. y \in Readers
  BY <1>1, <1>4, <1>6 DEF Readers, Requests
<1>8. /\ y.worker = ws /\ y.have = x.have /\ y.counted = x.counted /\ y.mode = x.mode /\ y.cache = x.cache
      /\ y.bad = x.bad /\ y.queue = x.queue /\ y.pc = x.pc /\ y.why = x.why
  BY <1>1, <1>4 DEF Readers
<1>9. Base(y, W) /\ HereOf(y, W) = HereOf(x, W)
  <2>1. CountAlike(x, y, W)
    BY <1>6, <1>8 DEF CountAlike, Alike
  <2>2. \A piece \in y.cache : piece.bad \subseteq Of(piece)
    BY <1>1, <1>8 DEF Base
  <2> QED BY <1>1, <1>7, <2>1, <2>2, SameBase
<1>10. Apart(y, W, rest)
  <2>1. PlacesAlike(x, y, W)
    BY <1>6, <1>8 DEF PlacesAlike
  <2> HIDE DEF rest
  <2> QED BY <1>1, <2>1, SameApart
<1>11. Sound(y)
  BY <1>1, <1>8 DEF Sound
<1>12. Of(y.worker[i]) = rest
  BY <1>5, <1>6, <1>8 DEF Of
<1>13. Between(y, i, rest)
  BY <1>1, <1>8, <1>9, <1>10, <1>11 DEF Between, Goes
<1>14. y.worker[i].from <= y.worker[i].to
  BY <1>2, <1>5, <1>6, <1>8
<1> QED BY <1>8, <1>9, <1>12, <1>13, <1>14 DEF y, from

(* The worker's next, after what had come of a range is held: all of its   *)
(* segment, or part of it.                                                 *)
LEMMA HeldGoesOn ==
  ASSUME NEW x, NEW i \in Workers, x.mode = "ranged", NEW short \in BOOLEAN,
         Between(x, i, (x.worker[i].from + x.worker[i].got) .. x.worker[i].to)
  PROVE  LET w == x.worker[i]
             z == IF w.from + w.got > w.to THEN TakeNext(x, i)
                  ELSE Again([x EXCEPT !.worker[i].from = w.from + w.got], i, w.got, short)
         IN  Steps(x, i, z)
<1> DEFINE w == x.worker[i]
           from == w.from + w.got
           y == [x EXCEPT !.worker[i].from = from]
           rest == from .. w.to
<1>1. Base(x, Workers \ {i}) /\ x \in Readers /\ Between(x, i, rest)
  BY DEF Between, Goes, Base
<1>2. w.from \in Nat /\ w.got \in Nat /\ w.to \in Nat
  BY <1>1, WorkerIs, SizesAssumption DEF Bytes
<1>3. CASE from > w.to
  <2>1. rest = {}
    <3>1. from \in Nat
      <4> HIDE DEF w
      <4> QED BY <1>2
    <3> HIDE DEF from, w
    <3> QED BY <1>2, <1>3, <3>1
  <2>2. Between(x, i, {})
    BY <1>1, <2>1
  <2>3. Steps(x, i, TakeNext(x, i))
    BY <2>2, TakeNextSteps
  <2> QED BY <1>3, <2>3
<1>4. CASE ~ from > w.to
  <2>1. from <= w.to
    BY <1>2, <1>4
  <2>2. /\ Between(y, i, Of(y.worker[i])) /\ y.worker[i].from <= y.worker[i].to
        /\ y.mode = "ranged" /\ HereOf(y, Workers \ {i}) = HereOf(x, Workers \ {i})
    BY <1>1, <2>1, MovesOn
  <2> DEFINE got == w.got
  <2>3. got \in Nat
    BY <1>2
  <2> HIDE DEF y, got
  <2>4. Steps(y, i, Again(y, i, got, short))
    BY <2>2, <2>3, AgainSteps
  <2>5. Steps(x, i, Again(y, i, got, short))
    BY <2>2, <2>4 DEF Steps
  <2> QED BY <1>4, <2>5 DEF y, got
<1> QED BY <1>3, <1>4

LEMMA SpanIs ==
  ASSUME NEW x, Base(x, Workers), x.mode = "ranged", NEW i \in Streaming(x), x.worker[i].got = x.worker[i].expected
  PROVE  LET span == [from |-> x.worker[i].from, to |-> x.worker[i].from + x.worker[i].got - 1] IN
         span \in Segments /\ Of(span) = Arrived(x, i)
<1> DEFINE w == x.worker[i]
           span == [from |-> w.from, to |-> w.from + w.got - 1]
<1>1. x \in Readers /\ i \in Workers /\ w.at = "stream"
  BY DEF Base, Streaming
<1>2. w.from \in Nat /\ w.to \in Nat /\ w.to < Size /\ w.got \in Nat
  BY <1>1, WorkerIs, SizesAssumption DEF Bytes
<1>3. 1 <= w.got /\ w.got <= w.to - w.from + 1
  BY <1>1 DEF Base, Fits
<1>4. w.from \in Bytes /\ w.from + w.got - 1 \in Bytes /\ w.from <= w.from + w.got - 1
  BY <1>2, <1>3, SizesAssumption DEF Bytes
<1>5. Of(span) = Arrived(x, i)
  BY DEF Of, Arrived
<1> QED BY <1>4, <1>5, SegmentIs

LEMMA CompleteStays ==
  ASSUME ReadInv, NEW i \in Workers, Complete(i)
  PROVE  Stays(r, r')
<1> USE SizesAssumption
<1> DEFINE w == r.worker[i]
           held == [r EXCEPT !.have = @ \cup Arrived(r, i)]
           rest == (w.from + w.got) .. w.to
           W == Workers \ {i}
<1>1. ReaderInv(r) /\ i \in Active(r) /\ i \in Streaming(r) /\ w.got = w.expected
  BY DEF ReadInv, Complete, Active, Streaming
<1>2. /\ Base(r, Workers) /\ r \in Readers /\ r.pc = "reading" /\ r.why = "none"
      /\ r.mode # "ranged" => i = 1
      /\ r.mode # "whole" => Apart(r, Workers, {}) /\ Sound(r)
  BY <1>1, OnItsWay
<1>3. r.mode \in {"ranged", "whole"}
  BY <1>1, <1>2, ArrivedIs
<1>4. /\ held \in Readers /\ held = [r EXCEPT !.have = held.have] /\ held.have = r.have \cup Arrived(r, i)
      /\ Base(held, W) /\ HereOf(held, W) = HereOf(r, Workers)
      /\ r.mode = "ranged" /\ Apart(r, Workers, {}) => Apart(held, W, rest)
      /\ Sound(r) => Sound(held)
  BY <1>1, <1>2, HoldIs
<1>5. /\ held.mode = r.mode /\ held.pc = r.pc /\ held.why = r.why /\ held.worker = r.worker
  BY <1>2, <1>4 DEF Readers
<1>6. CASE r.mode = "ranged"
  <2> DEFINE span == [from |-> w.from, to |-> w.from + w.got - 1]
             kept == Keep(held, {span})
  <2>1. r' = IF w.from + w.got > w.to THEN TakeNext(kept, i)
             ELSE Again([kept EXCEPT !.worker[i].from = w.from + w.got], i, w.got, TRUE)
    BY <1>6 DEF Complete
  <2>2. span \in Segments /\ Of(span) = Arrived(r, i)
    BY <1>1, <1>2, <1>6, SpanIs
  <2>3. Sound(held) /\ Apart(held, W, rest) /\ \A piece \in held.cache : piece.bad \subseteq Of(piece)
    BY <1>2, <1>4, <1>6 DEF Base
  <2> HIDE DEF held, span, rest
  <2>4. /\ kept \in Readers /\ SameButCache(held, kept) /\ Sound(kept)
        /\ \A piece \in kept.cache : piece.bad \subseteq Of(piece)
    <3> DEFINE spans == {span}
    <3>1. spans \in SUBSET Segments /\ \A s \in spans : Of(s) \subseteq held.have
      BY <1>4, <2>2
    <3> HIDE DEF spans
    <3>2. /\ Keep(held, spans) \in Readers /\ SameButCache(held, Keep(held, spans)) /\ Sound(Keep(held, spans))
          /\ \A piece \in Keep(held, spans).cache : piece.bad \subseteq Of(piece)
      BY <1>4, <2>3, <3>1, KeepIs
    <3> QED BY <3>2 DEF spans
  <2> HIDE DEF kept
  <2>5. /\ Base(kept, W) /\ HereOf(kept, W) = HereOf(held, W) /\ Apart(kept, W, rest)
    BY <1>4, <2>3, <2>4, KeptAlike
  <2>6. kept.worker = r.worker /\ kept.mode = "ranged" /\ kept.pc = "reading" /\ kept.why = "none"
    BY <1>2, <1>5, <1>6, <2>4 DEF SameButCache
  <2>7. Between(kept, i, rest)
    BY <2>4, <2>5, <2>6 DEF Between, Goes
  <2> DEFINE short == TRUE
  <2>8. /\ short \in BOOLEAN
        /\ Between(kept, i, (kept.worker[i].from + kept.worker[i].got) .. kept.worker[i].to)
    BY <2>6, <2>7 DEF rest
  <2>9. r' = IF kept.worker[i].from + kept.worker[i].got > kept.worker[i].to THEN TakeNext(kept, i)
             ELSE Again([kept EXCEPT !.worker[i].from = kept.worker[i].from + kept.worker[i].got], i, kept.worker[i].got, short)
    BY <2>1, <2>6
  <2> HIDE DEF short, w
  <2>10. Steps(kept, i, r')
    BY <2>6, <2>8, <2>9, HeldGoesOn
  <2> QED BY <1>4, <2>5, <2>10 DEF Steps, Stays
<1>7. CASE r.mode = "whole"
  <2> DEFINE alone == deletePieces(held)
             kept == Keep(alone, {All})
  <2>1. r' = TakeNext(kept, i)
    BY <1>7 DEF Complete
  <2>2. held.have = Bytes
    <3>1. r.have \in SUBSET Bytes
      BY <1>2 DEF Readers
    <3>2. w.expected = Size
      BY <1>1, <1>2, <1>7 DEF Base, Fits, Streaming
    <3>3. Arrived(r, i) = 0 .. (0 + Size - 1)
      BY <1>1, <1>7, <3>2 DEF Arrived
    <3>4. Arrived(r, i) = Bytes
      BY <3>3 DEF Bytes
    <3> QED BY <1>4, <3>1, <3>4
  <2> HIDE DEF held
  <2>3. /\ alone \in Readers /\ alone.cache = {} /\ alone.have = Bytes /\ SameButCache(held, alone)
    <3>1. {} \in SUBSET Pieces
      OBVIOUS
    <3>2. alone \in Readers
      BY <1>4, <3>1 DEF deletePieces, Readers
    <3>3. alone.cache = {} /\ SameButCache(held, alone)
      BY <1>4 DEF deletePieces, Readers, SameButCache
    <3> QED BY <2>2, <3>2, <3>3 DEF SameButCache
  <2> HIDE DEF alone
  <2>4. Sound(alone) /\ \A piece \in alone.cache : piece.bad \subseteq Of(piece)
    BY <2>3 DEF Sound
  <2>5. /\ kept \in Readers /\ SameButCache(alone, kept) /\ Sound(kept)
        /\ \A piece \in kept.cache : piece.bad \subseteq Of(piece)
    <3> DEFINE spans == {All}
    <3>1. All \in Segments /\ Of(All) = Bytes
      BY DEF All, Segments, Of, Bytes
    <3>2. spans \in SUBSET Segments /\ \A s \in spans : Of(s) \subseteq alone.have
      BY <2>3, <3>1
    <3> HIDE DEF spans
    <3>3. /\ Keep(alone, spans) \in Readers /\ SameButCache(alone, Keep(alone, spans)) /\ Sound(Keep(alone, spans))
          /\ \A piece \in Keep(alone, spans).cache : piece.bad \subseteq Of(piece)
      BY <2>3, <2>4, <3>2, KeepIs
    <3> QED BY <3>3 DEF spans
  <2> HIDE DEF kept
  <2>6. Base(alone, W)
    BY <1>4, <2>3, <2>4, KeptAlike
  <2>7. Base(kept, W)
    BY <2>5, <2>6, KeptAlike
  <2>8. kept.mode = "whole" /\ kept.pc = "reading" /\ kept.why = "none" /\ kept.have = Bytes
    BY <1>2, <1>5, <1>7, <2>3, <2>5 DEF SameButCache
  <2>9. Between(kept, i, {})
    BY <1>2, <1>7, <2>7, <2>8 DEF Between, Goes
  <2>10. Steps(kept, i, TakeNext(kept, i))
    BY <2>5, <2>8, <2>9, TakeNextSteps
  <2> QED BY <2>1, <2>8, <2>10 DEF Steps, Stays
<1> QED BY <1>3, <1>6, <1>7

LEMMA BrokenStays ==
  ASSUME ReadInv, NEW i \in Workers, Broken(i)
  PROVE  Stays(r, r')
<1> USE SizesAssumption
<1> DEFINE w == r.worker[i]
           held == [r EXCEPT !.have = @ \cup Arrived(r, i)]
           ended == EndRequests(r, {i})
           rest == (w.from + w.got) .. w.to
           W == Workers \ {i}
<1>1. ReaderInv(r) /\ i \in Active(r) /\ i \in Streaming(r)
  BY DEF ReadInv, Broken, Active, Streaming
<1>2. /\ Base(r, Workers) /\ r \in Readers /\ r.pc = "reading" /\ r.why = "none"
      /\ r.mode # "ranged" => i = 1
      /\ r.mode # "whole" => Apart(r, Workers, {}) /\ Sound(r)
  BY <1>1, OnItsWay
<1>3. r.mode \in {"ranged", "whole"}
  BY <1>1, <1>2, ArrivedIs
<1>4. CASE r.mode = "ranged"
  <2>1. r' = IF w.from + w.got > w.to THEN TakeNext(ended, i)
             ELSE Again([ended EXCEPT !.worker[i].from = w.from + w.got], i, w.got, FALSE)
    BY <1>4 DEF Broken
  <2>2. /\ Base(held, W) /\ HereOf(held, W) = HereOf(r, Workers) /\ held \in Readers
        /\ held = [r EXCEPT !.have = held.have]
        /\ Apart(held, W, rest)
    BY <1>1, <1>2, <1>4, HoldIs
  <2>3. held.mode = r.mode /\ held.pc = r.pc /\ held.why = r.why /\ held.worker = r.worker
    BY <1>2, <2>2 DEF Readers
  <2>4. /\ ended \in Readers /\ SameButCache(held, ended) /\ Sound(ended)
        /\ \A piece \in ended.cache : piece.bad \subseteq Of(piece)
    <3> DEFINE ends == {i}
               same == [r EXCEPT !.have = @ \cup UNION {Arrived(r, j) : j \in ends}]
    <3>1. same = held
      BY <1>2
    <3>2. ends \in SUBSET Streaming(r)
      BY <1>1
    <3> HIDE DEF ends, held
    <3>3. /\ EndRequests(r, ends) \in Readers /\ SameButCache(same, EndRequests(r, ends)) /\ Sound(EndRequests(r, ends))
          /\ \A piece \in EndRequests(r, ends).cache : piece.bad \subseteq Of(piece)
      BY <1>2, <1>4, <3>2, EndIs
    <3> QED BY <3>1, <3>3 DEF ends
  <2> HIDE DEF held, ended, rest
  <2>5. /\ Base(ended, W) /\ HereOf(ended, W) = HereOf(held, W) /\ Apart(ended, W, rest)
    BY <2>2, <2>4, KeptAlike
  <2>6. ended.worker = r.worker /\ ended.mode = "ranged" /\ ended.pc = "reading" /\ ended.why = "none"
    BY <1>2, <1>4, <2>3, <2>4 DEF SameButCache
  <2>7. Between(ended, i, rest)
    BY <2>4, <2>5, <2>6 DEF Between, Goes
  <2> DEFINE short == FALSE
  <2>8. /\ short \in BOOLEAN
        /\ Between(ended, i, (ended.worker[i].from + ended.worker[i].got) .. ended.worker[i].to)
    BY <2>6, <2>7 DEF rest
  <2>9. r' = IF ended.worker[i].from + ended.worker[i].got > ended.worker[i].to THEN TakeNext(ended, i)
             ELSE Again([ended EXCEPT !.worker[i].from = ended.worker[i].from + ended.worker[i].got], i, ended.worker[i].got, short)
    BY <2>1, <2>6
  <2> HIDE DEF short, w
  <2>10. Steps(ended, i, r')
    BY <2>6, <2>8, <2>9, HeldGoesOn
  <2> QED BY <2>2, <2>5, <2>10 DEF Steps, Stays
<1>5. CASE r.mode = "whole"
  <2>1. r' = Again(ended, i, 0, FALSE)
    BY <1>5 DEF Broken
  <2>2. /\ Base(ended, W) /\ ended.mode = "whole" /\ ended.pc = r.pc /\ ended.why = r.why /\ i = 1
        /\ ended.worker[i].from <= ended.worker[i].to
    BY <1>1, <1>2, <1>5, PlainEndIs
  <2> HIDE DEF ended
  <2>3. Between(ended, i, Of(ended.worker[i]))
    BY <1>2, <2>2 DEF Between, Goes
  <2> DEFINE got == 0
             short == FALSE
  <2>4. got \in Nat /\ short \in BOOLEAN /\ r' = Again(ended, i, got, short)
    BY <2>1
  <2> HIDE DEF got, short
  <2>5. Steps(ended, i, Again(ended, i, got, short))
    BY <2>2, <2>3, <2>4, AgainSteps
  <2> QED BY <2>2, <2>4, <2>5 DEF Steps, Stays
<1> QED BY <1>3, <1>4, <1>5

-----------------------------------------------------------------------------
(* The first range that is answered lets the other workers start.          *)

Starters(x, i) == {j \in Workers \ {i} : x.mode = "none" /\ j - 1 <= Cardinality(x.queue)}

LEMMA StartersTake ==
  ASSUME NEW x \in Readers, Apart(x, Workers, {}), NEW i \in Workers, x.mode # "ranged" => i = 1
  PROVE  /\ \A j \in Starters(x, i) : Nth(x.queue, j - 1) \in x.queue
         /\ \A j, k \in Starters(x, i) : j # k => Nth(x.queue, j - 1) # Nth(x.queue, k - 1)
<1> USE SizesAssumption
<1>1. x.queue \in SUBSET Segments /\ SegmentsApart(x.queue)
  BY QueueOf
<1>2. Cardinality(x.queue) \in Nat
  BY <1>1, QueueIsFinite
<1>3. ASSUME NEW j \in Starters(x, i)
      PROVE  j \in Nat /\ Nth(x.queue, j - 1) \in x.queue /\ Rank(x.queue, Nth(x.queue, j - 1)) = j - 2
  <2> DEFINE n == j - 1
  <2>1. j \in Nat /\ n \in 1 .. Cardinality(x.queue) /\ n - 1 = j - 2
    BY <1>2 DEF Starters, Workers
  <2> HIDE DEF n
  <2>2. Nth(x.queue, n) \in x.queue /\ Rank(x.queue, Nth(x.queue, n)) = n - 1
    BY <1>1, <2>1, NthIs
  <2> QED BY <2>1, <2>2 DEF n
<1>4. ASSUME NEW j \in Starters(x, i), NEW k \in Starters(x, i), j # k
      PROVE  Nth(x.queue, j - 1) # Nth(x.queue, k - 1)
  <2>1. j - 2 # k - 2
    BY <1>3, <1>4
  <2> QED BY <1>3, <2>1
<1> QED BY <1>3, <1>4

LEMMA RangeAnsweredStays ==
  ASSUME ReadInv, NEW i \in Workers, RangeAnswered(i)
  PROVE  Stays(r, r')
<1> USE SizesAssumption
<1> DEFINE w == r.worker[i]
           others == {j \in Workers \ {i} : r.mode = "none" /\ j - 1 <= Cardinality(r.queue)}
           Seg(j) == Nth(r.queue, j - 1)
           taken == {Seg(j) : j \in others}
<1>1. ReaderInv(r) /\ i \in Active(r) /\ i \notin Streaming(r)
  BY DEF ReadInv, RangeAnswered, Active, Streaming
<1>2. /\ Base(r, Workers) /\ r \in Readers /\ r.pc = "reading" /\ r.why = "none"
      /\ r.mode \in {"none", "ranged"} /\ (r.mode # "ranged" => i = 1)
      /\ Apart(r, Workers, {}) /\ Sound(r) /\ w.from <= w.to
  BY <1>1, OnItsWay DEF RangeAnswered
<1>3. PICK to \in Of(w) :
        r' = [r EXCEPT !.mode = "ranged", !.queue = @ \ taken,
               !.worker = [j \in Workers |->
                 IF j = i THEN [@[i] EXCEPT !.at = "stream", !.got = 0, !.expected = to - w.from + 1]
                 ELSE IF j \in others THEN Asked(Seg(j)) ELSE @[j]]]
  BY Zenon DEF RangeAnswered
<1> DEFINE u == [w EXCEPT !.at = "stream", !.got = 0, !.expected = to - w.from + 1]
           ws == [j \in Workers |-> IF j = i THEN u ELSE IF j \in others THEN Asked(Seg(j)) ELSE r.worker[j]]
           left == r.queue \ taken
           z == [r EXCEPT !.mode = "ranged", !.queue = left, !.worker = ws]
<1>4. r' = z
  BY <1>2, <1>3 DEF Readers
<1>5. /\ others \subseteq Workers \ {i} /\ (r.mode = "ranged" => others = {})
      /\ \A j \in others : Seg(j) \in r.queue
      /\ \A j, k \in others : j # k => Seg(j) # Seg(k)
  BY <1>2, StartersTake DEF Starters
<1>6. /\ u \in Requests /\ u.at = "stream" /\ u.got = 0 /\ u.from = w.from /\ u.to = w.to
      /\ u.expected >= 1 /\ u.expected <= w.to - w.from + 1
  <2>1. w \in Requests /\ w.from \in Nat /\ w.to \in Nat /\ w.to < Size
    BY <1>2, WorkerIs DEF Requests, Bytes
  <2>2. to \in Nat /\ w.from <= to /\ to <= w.to
    BY <2>1 DEF Of
  <2> HIDE DEF w
  <2> DEFINE e == to - w.from + 1
  <2>3. e \in 0 .. Size /\ e >= 1 /\ e <= w.to - w.from + 1 /\ 0 \in 0 .. Size
    BY <2>1, <2>2
  <2> HIDE DEF e
  <2>4. u = [w EXCEPT !.at = "stream", !.got = 0, !.expected = e]
    BY DEF e
  <2> HIDE DEF u
  <2>5. u \in Requests
    BY <2>1, <2>3, <2>4 DEF Requests
  <2>6. /\ u.at = "stream" /\ u.got = 0 /\ u.from = w.from /\ u.to = w.to /\ u.expected = e
    BY <2>1, <2>4 DEF Requests
  <2> QED BY <2>3, <2>5, <2>6
<1>7. ASSUME NEW j \in others
      PROVE  /\ Asked(Seg(j)) \in Requests /\ Asked(Seg(j)).at = "asked" /\ Of(Asked(Seg(j))) = Of(Seg(j))
             /\ Asked(Seg(j)).from <= Asked(Seg(j)).to
  <2> DEFINE s == Seg(j)
  <2>1. s \in r.queue /\ r.queue \subseteq Segments
    BY <1>2, <1>5 DEF Readers
  <2>2. s.from \in Bytes /\ s.to \in Bytes /\ s.from <= s.to
    BY <2>1, SegmentIs
  <2> HIDE DEF s
  <2>3. /\ Asked(s) \in Requests /\ Asked(s).at = "asked" /\ Of(Asked(s)) = Of(s) /\ Asked(s).from <= Asked(s).to
    BY <2>2, AskedIs
  <2> QED BY <2>3 DEF s
<1> HIDE DEF u, others, z
<1>8. ws \in [Workers -> Requests]
  BY <1>2, <1>6, <1>7 DEF Readers, Requests
<1>9. /\ ws[i] = u
      /\ \A j \in others : ws[j] = Asked(Seg(j)) /\ ws[j].at = "asked" /\ Of(ws[j]) = Of(Seg(j)) /\ ws[j].from <= ws[j].to
      /\ \A j \in Workers : j # i /\ j \notin others => ws[j] = r.worker[j]
  <2> HIDE DEF Seg
  <2> QED BY <1>5, <1>7
<1> HIDE DEF ws, taken, left
<1>10. left \in SUBSET Segments
  BY <1>2 DEF left, Readers
<1>11. z \in Readers
  BY <1>2, <1>8, <1>10 DEF Readers, Requests, z
<1>12. /\ z.worker = ws /\ z.queue = left /\ z.mode = "ranged" /\ z.have = r.have /\ z.counted = r.counted
       /\ z.cache = r.cache /\ z.bad = r.bad /\ z.pc = "reading" /\ z.why = "none"
  BY <1>2 DEF z, Readers
<1>13. others # {} => Active(r) \subseteq {i}
  <2>1. others # {} => r.mode = "none" /\ i = 1
    BY <1>2, <1>5
  <2>2. Active(r) \subseteq Workers
    BY DEF Active
  <2> QED BY <1>2, <2>1, <2>2 DEF Base
<1>14. Active(z) = Active(r) \cup others /\ Streaming(z) = Streaming(r) \cup {i} /\ others \cap Streaming(r) = {}
  <2>1. others \cap Streaming(r) = {}
    BY <1>5, <1>13 DEF Active, Streaming
  <2>2. ASSUME NEW j \in Workers
        PROVE  /\ z.worker[j].at # "off" <=> r.worker[j].at # "off" \/ j \in others
               /\ z.worker[j].at = "stream" <=> r.worker[j].at = "stream" \/ j = i
    <3>1. CASE j = i
      <4>1. r.worker[j].at # "off"
        BY <1>1, <3>1 DEF Active
      <4> QED BY <1>5, <1>6, <1>9, <1>12, <3>1, <4>1
    <3>2. CASE j \in others
      <4>1. r.worker[j].at # "stream"
        BY <2>1, <3>2 DEF Streaming
      <4>2. j # i /\ z.worker[j].at = "asked"
        BY <1>5, <1>9, <1>12, <3>2
      <4> QED BY <3>2, <4>1, <4>2
    <3>3. CASE j # i /\ j \notin others
      BY <1>9, <1>12, <3>3
    <3> QED BY <3>1, <3>2, <3>3
  <2> QED BY <1>5, <2>1, <2>2 DEF Active, Streaming
<1>15. Coming(z, Workers) = Coming(r, Workers)
  <2>1. Arrived(z, i) = {}
    <3>1. Arrived(z, i) = w.from .. (w.from + 0 - 1)
      BY <1>6, <1>9, <1>12 DEF Arrived
    <3>2. w.from \in Nat
      BY <1>2, WorkerIs DEF Bytes
    <3> HIDE DEF w
    <3> QED BY <3>1, <3>2
  <2>2. \A j \in Streaming(r) : Arrived(z, j) = Arrived(r, j)
    <3> SUFFICES ASSUME NEW j \in Streaming(r) PROVE Arrived(z, j) = Arrived(r, j)
      OBVIOUS
    <3>1. j \in Workers /\ j # i /\ j \notin others
      BY <1>1, <1>14 DEF Streaming
    <3>2. r.mode = "ranged"
      BY <1>2, <3>1 DEF Base
    <3> QED BY <1>9, <1>12, <3>1, <3>2 DEF Arrived
  <2> QED BY <1>14, <2>1, <2>2 DEF Coming
<1>16. HereOf(z, Workers) = HereOf(r, Workers)
  BY <1>12, <1>15 DEF HereOf
<1>17. \A j \in Workers : Fits(z, j)
  <2> SUFFICES ASSUME NEW j \in Workers PROVE Fits(z, j)
    OBVIOUS
  <2>1. CASE j = i
    <3>1. u.got <= u.expected
      BY <1>6 DEF Requests
    <3> QED BY <1>2, <1>6, <1>9, <1>12, <2>1, <3>1 DEF Fits
  <2>2. CASE j \in others
    BY <1>9, <1>12, <2>2 DEF Fits
  <2>3. CASE j # i /\ j \notin others
    <3>1. Fits(r, j) /\ (r.worker[j].at = "stream" => r.mode = "ranged")
      BY <1>2 DEF Base, Streaming
    <3> QED BY <1>9, <1>12, <2>3, <3>1 DEF Fits
  <2> QED BY <2>1, <2>2, <2>3
<1>18. Base(z, Workers)
  BY <1>2, <1>11, <1>12, <1>16, <1>17 DEF Base, CountsOf
<1>19. Sound(z)
  BY <1>2, <1>12 DEF Sound
<1>20. Apart(z, Workers, {})
  <2> DEFINE busy == Workers \cap Active(r)
             Part(j) == Of(z.worker[j])
  <2>1. Workers \cap Active(z) = busy \cup others /\ busy \cap others = {}
    BY <1>5, <1>13, <1>14
  <2>2. /\ \A j \in busy : Part(j) = Of(r.worker[j])
        /\ \A j \in others : Part(j) = Of(Seg(j))
    <3>1. \A j \in busy : j \notin others
      BY <2>1
    <3>2. Of(u) = Of(w)
      BY <1>6 DEF Of
    <3> QED BY <1>9, <1>12, <3>1, <3>2
  <2>3. /\ \A j \in busy : \A b \in Part(j) : b \notin r.have
        /\ \A s \in r.queue : \A b \in Of(s) : b \notin r.have
        /\ \A j, k \in busy : j # k => \A b \in Part(j) : b \notin Part(k)
        /\ \A s, t \in r.queue : s # t => \A b \in Of(s) : b \notin Of(t)
        /\ \A j \in busy, s \in r.queue : \A b \in Of(s) : b \notin Part(j)
        /\ \A b \in Bytes : \/ b \in r.have
                            \/ \E j \in busy : b \in Part(j)
                            \/ \E s \in r.queue : b \in Of(s)
    <3>1. Apart(r, Workers, {})
      BY <1>2
    <3> HIDE DEF Part
    <3> QED BY <2>2, <3>1 DEF Apart
  <2>4. z.queue \subseteq r.queue /\ \A s \in r.queue : s \in z.queue \/ \E j \in others : s = Seg(j)
    BY <1>12 DEF left, taken
  <2>5. \A j \in others : Seg(j) \in r.queue /\ Seg(j) \notin z.queue
    BY <1>5, <1>12 DEF left, taken
  <2> HIDE DEF busy, Part, Seg
  <2>6. \A j \in busy \cup others : \A b \in Part(j) : b \notin z.have
    BY <1>12, <2>2, <2>3, <2>5
  <2>7. \A j, k \in busy \cup others : j # k => \A b \in Part(j) : b \notin Part(k)
    BY <1>5, <2>2, <2>3, <2>5
  <2>8. \A j \in busy \cup others, s \in z.queue : \A b \in Of(s) : b \notin Part(j)
    BY <2>2, <2>3, <2>4, <2>5
  <2>9. \A b \in Bytes : \/ b \in z.have
                         \/ \E j \in busy \cup others : b \in Part(j)
                         \/ \E s \in z.queue : b \in Of(s)
    BY <1>12, <2>2, <2>3, <2>4
  <2>10. /\ \A s \in z.queue : \A b \in Of(s) : b \notin z.have
         /\ \A s, t \in z.queue : s # t => \A b \in Of(s) : b \notin Of(t)
    BY <1>12, <2>3, <2>4
  <2> QED BY <2>1, <2>6, <2>7, <2>8, <2>9, <2>10 DEF Apart, Part
<1>21. ReaderInv(z)
  BY <1>12, <1>18, <1>19, <1>20 DEF ReaderInv, Goes
<1> QED BY <1>4, <1>16, <1>21 DEF Stays

-----------------------------------------------------------------------------
(* The theorems.                                                           *)

LEMMA ReadStarts ==
  ASSUME ReadInit
  PROVE  ReadInv
<1> USE SizesAssumption
<1>1. PICK cache \in KeptBefore, ranges \in {TRUE, ("whole" \notin ReadFaults)} :
  r = [cache |-> cache, full |-> FALSE, ranges |-> ranges, store |-> TRUE,
       have |-> {}, bad |-> {}, counted |-> [cache |-> 0, network |-> 0],
       queue |-> {}, mode |-> "none", worker |-> [i \in Workers |-> Off],
       pc |-> "idle", attempt |-> 0, why |-> "none", aborted |-> FALSE, load |-> 0]
  BY DEF ReadInit
<1>2. cache \in SUBSET Pieces /\ \A piece \in cache : piece.bad \subseteq Of(piece)
  <2> DEFINE Left == {piece \in Pieces : piece.from <= piece.to /\ piece.bad \in {{}, {piece.from}} /\ (piece.bad # {} => piece.from \in Corruptible)}
  <2>1. cache \subseteq Left
    BY DEF KeptBefore
  <2>2. ASSUME NEW piece \in Left PROVE piece \in Pieces /\ piece.bad \subseteq Of(piece)
    <3>1. piece.from \in Nat /\ piece.to \in Nat /\ piece.from <= piece.to
      BY DEF Pieces, Bytes
    <3>2. piece.from \in Of(piece)
      BY <3>1 DEF Of
    <3> QED BY <3>2
  <2> HIDE DEF Left
  <2> QED BY <2>1, <2>2
<1> DEFINE zero == [cache |-> 0, network |-> 0]
           ws == [i \in Workers |-> Off]
<1>3. zero \in [cache : 0 .. Size, network : 0 .. Size] /\ zero.cache = 0 /\ zero.network = 0
  OBVIOUS
<1>4. ws \in [Workers -> Requests] /\ \A i \in Workers : ws[i].at = "off"
  BY DEF Off, Requests, Bytes
<1>5. r \in Readers
  <2>1. 0 \in 0 .. 1 /\ 0 \in 0 .. MaxLoads /\ ranges \in BOOLEAN
    <3>1. 0 \in 0 .. 1 /\ 0 \in 0 .. MaxLoads
      OBVIOUS
    <3>2. TRUE \in BOOLEAN /\ ("whole" \notin ReadFaults) \in BOOLEAN
      BY Zenon
    <3>3. ranges \in BOOLEAN
      BY <3>2, Zenon
    <3> QED BY <3>1, <3>3
  <2>2. r = [cache |-> cache, full |-> FALSE, ranges |-> ranges, store |-> TRUE,
       have |-> {}, bad |-> {}, counted |-> zero,
       queue |-> {}, mode |-> "none", worker |-> ws,
       pc |-> "idle", attempt |-> 0, why |-> "none", aborted |-> FALSE, load |-> 0]
    BY <1>1
  <2> HIDE DEF zero, ws
  <2> QED BY <1>2, <1>3, <1>4, <2>1, <2>2 DEF Readers, Requests
<1>6. /\ r.cache = cache /\ r.have = {} /\ r.counted = zero /\ r.worker = ws /\ r.pc = "idle" /\ r.why = "none"
  BY <1>1
<1> HIDE DEF zero, ws
<1>7. Active(r) = {}
  BY <1>4, <1>6 DEF Active
<1>8. r.counted.cache + r.counted.network = Cardinality(r.have)
  BY <1>3, <1>6, FS_EmptySet
<1>9. Base(r, Workers)
  BY <1>2, <1>5, <1>6, <1>7, <1>8, QuietBase
<1> QED BY <1>6, <1>7, <1>9 DEF ReadInv, ReaderInv, Ended

LEMMA ReadStepStays ==
  ASSUME ReadInv, ReadNext
  PROVE  Stays(r, r')
<1>1. CASE Read
  BY <1>1, ReadStays
<1>2. CASE Check
  BY <1>2, CheckStays
<1>3. CASE Settle
  BY <1>3, SettleStays
<1>4. CASE Abort
  BY <1>4, AbortStays
<1>5. CASE StorageFills
  BY <1>5, StorageFillsStays
<1>6. ASSUME NEW i \in Workers, Answered(i) PROVE Stays(r, r')
  BY <1>6, RangeAnsweredStays, OtherAnsweredStays, WholeAnsweredStays, RefusedStays, NotAnsweredStays DEF Answered
<1>7. ASSUME NEW i \in Workers, Received(i) PROVE Stays(r, r')
  BY <1>7, ChunkStays, CompleteStays, BrokenStays, TooLongStays DEF Received
<1>8. ASSUME NEW i \in Workers, WaitOver(i) PROVE Stays(r, r')
  BY <1>8, WaitOverStays
<1> QED BY <1>1, <1>2, <1>3, <1>4, <1>5, <1>6, <1>7, <1>8 DEF ReadNext

(* Every read is at all times in a state that the invariant describes.     *)
THEOREM ReadInvariance == ReadSpec => []ReadInv
<1>1. ReadInit => ReadInv
  BY ReadStarts
<1>2. ReadInv /\ [ReadNext]_r => ReadInv'
  <2> SUFFICES ASSUME ReadInv, [ReadNext]_r PROVE ReadInv'
    OBVIOUS
  <2>1. CASE ReadNext
    BY <2>1, ReadStepStays DEF Stays, ReadInv
  <2>2. CASE UNCHANGED r
    BY <2>2 DEF ReadInv
  <2> QED BY <2>1, <2>2
<1> QED BY <1>1, <1>2, PTL DEF ReadSpec

(* The invariant, and what is promised.                                    *)

LEMMA HereOfAll ==
  ASSUME NEW x
  PROVE  HereOf(x, Workers) = Here(x)
<1>1. Workers \cap Streaming(x) = Streaming(x)
  BY DEF Streaming
<1> QED BY <1>1 DEF HereOf, Coming, Here

LEMMA PlacesAreOne ==
  ASSUME NEW x, Apart(x, Workers, {}), NEW b \in Bytes
  PROVE  IF b \in x.have THEN Places(x, b) = {} ELSE \E piece \in Places(x, b) : Places(x, b) = {piece}
<1> DEFINE busy == Workers \cap Active(x)
           AtWorker == {<<"worker", i>> : i \in {j \in Active(x) : b \in Of(x.worker[j])}}
           InQueue == {<<"queue", s>> : s \in {q \in x.queue : b \in Of(q)}}
<1>1. Places(x, b) = AtWorker \cup InQueue
  BY DEF Places
<1>2. busy = Active(x)
  BY DEF Active
<1>3. CASE b \in x.have
  <2>1. AtWorker = {} /\ InQueue = {}
    BY <1>2, <1>3 DEF Apart
  <2> QED BY <1>1, <1>3, <2>1
<1>4. CASE b \notin x.have
  <2>1. CASE \E i \in busy : b \in Of(x.worker[i])
    <3>1. PICK i \in busy : b \in Of(x.worker[i])
      BY <2>1
    <3>2. \A j \in busy : b \in Of(x.worker[j]) => j = i
      BY <3>1 DEF Apart
    <3>3. InQueue = {}
      BY <3>1 DEF Apart
    <3>4. AtWorker = {<<"worker", i>>}
      BY <1>2, <3>1, <3>2
    <3>5. Places(x, b) = {<<"worker", i>>}
      BY <1>1, <3>3, <3>4
    <3> QED BY <1>4, <3>5
  <2>2. CASE ~ \E i \in busy : b \in Of(x.worker[i])
    <3>1. AtWorker = {}
      BY <1>2, <2>2
    <3>2. PICK s \in x.queue : b \in Of(s)
      BY <1>4, <2>2 DEF Apart
    <3>3. \A t \in x.queue : b \in Of(t) => t = s
      BY <3>2 DEF Apart
    <3>4. InQueue = {<<"queue", s>>}
      BY <3>2, <3>3
    <3>5. Places(x, b) = {<<"queue", s>>}
      BY <1>1, <3>1, <3>4
    <3> QED BY <1>4, <3>5
  <2> QED BY <2>1, <2>2
<1> QED BY <1>3, <1>4

LEMMA ReadInvMeans ==
  ASSUME ReadInv
  PROVE  BytesAreRight
<1>1. Base(r, Workers) /\ r \in Readers /\ ReaderInv(r)
  BY AnyBase DEF ReadInv
<1>2. ReadTypeOK
  BY <1>1 DEF ReadTypeOK, Readers
<1>3. CountedIsHeld
  BY <1>1, HereOfAll DEF Base, CountsOf, CountedIsHeld
<1>4. EveryByteHasAPlace
  <2> SUFFICES ASSUME r.pc = "reading", r.mode # "whole", NEW b \in Bytes
               PROVE  IF b \in r.have THEN Places(r, b) = {} ELSE \E piece \in Places(r, b) : Places(r, b) = {piece}
    BY DEF EveryByteHasAPlace
  <2>1. Apart(r, Workers, {})
    BY <1>1 DEF ReaderInv, Goes
  <2> QED BY <2>1, PlacesAreOne
<1>5. OnlyCheckedIsUsed
  BY <1>1 DEF OnlyCheckedIsUsed, ReaderInv, Ended, Sound
<1>6. BadCopiesGo
  BY <1>1 DEF BadCopiesGo, ReaderInv, Ended
<1> QED BY <1>2, <1>3, <1>4, <1>5, <1>6 DEF BytesAreRight

(* What is held, what is counted and what is still to be fetched add up at *)
(* all times, however the requests of #work() end and overlap; nothing is  *)
(* handed over that was not checked, and no piece of a bad copy stays.     *)
THEOREM BytesAreAlwaysRight == ReadSpec => []BytesAreRight
<1>1. ReadSpec => []ReadInv
  BY ReadInvariance
<1>2. ReadInv => BytesAreRight
  BY ReadInvMeans
<1> QED BY <1>1, <1>2, PTL

(* No step of a read in ranges gives up a byte that is held or has come:   *)
(* #requestOnce() holds what arrived before it throws.                     *)
THEOREM WhatArrivedAlwaysStays == ReadSpec => WhatArrivedStays
<1>1. ReadSpec => []ReadInv
  BY ReadInvariance
<1>2. ReadInv /\ [ReadNext]_r =>
        [r.pc = "reading" /\ r'.pc \in {"reading", "failed"} /\ r'.mode = "ranged" => Here(r) \subseteq Here(r')]_r
  <2> SUFFICES ASSUME ReadInv, ReadNext, r.pc = "reading", r'.pc \in {"reading", "failed"}, r'.mode = "ranged"
               PROVE  Here(r) \subseteq Here(r')
    OBVIOUS
  <2>1. HereOf(r, Workers) \subseteq HereOf(r', Workers)
    BY ReadStepStays DEF Stays
  <2> QED BY <2>1, HereOfAll
<1> QED BY <1>1, <1>2, PTL DEF ReadSpec, WhatArrivedStays
================================================================================
