---- MODULE PieceReader ----
(***************************************************************************)
(* readInPieces() of web/vm/vm_download.js: a file of the bundle read in    *)
(* HTTP Range pieces, several at a time, each kept in the Cache API.        *)
(*                                                                         *)
(* A byte is its offset. The one variable, `r`, has the private fields of   *)
(* PieceReader with the state of its awaits:                               *)
(*   cache     the pieces the Cache API holds, with the bytes that are wrong*)
(*   full      the origin's storage is full                                *)
(*   ranges, store   options.ranges, #store                                *)
(*   have, bad #have as a set of bytes; the bytes of #whole that are wrong  *)
(*   counted   #counted                                                    *)
(*   queue     #queue; as a set, since it is sorted by offset               *)
(*   mode      #mode                                                       *)
(*   worker    where the request of each #work() is, and its segment        *)
(*   pc, attempt, why   where read() is, and how it ended                   *)
(*   aborted   the caller's signal                                         *)
(*   load      how many times the page called it: a Retry, or a later visit *)
(* An operator named after a method takes the record to what the method     *)
(* makes of it; an action is one answer, chunk, timer or continuation.      *)
(* A byte stands for as much of a file as one chunk brings.                 *)
(***************************************************************************)
EXTENDS Integers, FiniteSets, SequencesExt

CONSTANTS
  Size,         \* check.bytes
  PieceBytes, Parallel,
  MaxReadRetries,   \* the length of RETRY_DELAYS_MS
  Enough,       \* MIN_PROGRESS_BYTES and MIN_KEPT_BYTES, which are equal
  Corruptible,  \* the bytes that may arrive wrong
  MaxLoads,     \* bounds the loads
  ReadFaults        \* what may happen beside plain 206 answers

ASSUME SizesAssumption ==
  /\ Size \in Nat \ {0} /\ PieceBytes \in Nat \ {0} /\ Parallel \in Nat \ {0}
  /\ MaxReadRetries \in Nat /\ Enough \in Nat \ {0} /\ MaxLoads \in Nat
ASSUME CorruptibleAssumption == Corruptible \subseteq 0..(Size - 1)
ASSUME ReadFaultsAssumption == ReadFaults \subseteq
  {"short", "break", "silent", "busy", "gone", "plain", "other", "longer", "quota", "abort", "whole"}

VARIABLE r

Bytes == 0..(Size - 1)
Segments == {s \in [from : Bytes, to : Bytes] : s.from <= s.to}
Of(s) == s.from..s.to
All == [from |-> 0, to |-> Size - 1]
Workers == 1..Parallel

Off == [at |-> "off", from |-> 0, to |-> 0, expected |-> 0, got |-> 0, streak |-> 0]
Asked(s) == [Off EXCEPT !.at = "asked", !.from = s.from, !.to = s.to]

\* Where the request of worker i writes to: a plain answer starts at byte 0.
Arrived(x, i) ==
  LET start == IF x.mode = "whole" THEN 0 ELSE x.worker[i].from
  IN start..(start + x.worker[i].got - 1)
Active(x) == {i \in Workers : x.worker[i].at # "off"}
Streaming(x) == {i \in Workers : x.worker[i].at = "stream"}

---------------------------------------------------------------------------
(* The pieces kept in the Cache API. A key is a piece's first and last byte. *)

Pieces == [from : Bytes, to : Bytes, bad : SUBSET Bytes, torn : BOOLEAN]

Put(cache, new) == {q \in cache : \A p \in new : q.from # p.from \/ q.to # p.to} \cup new

\* listPieces(): sorted, and apart: a piece that overlaps one before it is deleted.
ListPieces(cache) ==
  LET Before(p, q) == p.from < q.from \/ (p.from = q.from /\ p.to > q.to)
      Take(apart, p) == IF \E q \in apart : p.from <= q.to THEN apart ELSE apart \cup {p}
  IN FoldLeft(Take, {}, SetToSortSeq(cache, Before))

\* #keep() of some spans of #whole: nothing once storing failed.
Keep(x, spans) ==
  IF spans = {} \/ ~x.store THEN x
  ELSE IF x.full THEN [x EXCEPT !.store = FALSE]
  ELSE [x EXCEPT !.cache = Put(@, {[from |-> s.from, to |-> s.to, bad |-> x.bad \cap Of(s), torn |-> FALSE] : s \in spans})]

---------------------------------------------------------------------------
(* The methods of PieceReader. *)

\* gaps(): the longest runs of bytes that are not held.
Gaps(have) == {g \in Segments :
  /\ Of(g) \cap have = {}
  /\ \A b \in Bytes \cap {g.from - 1, g.to + 1} : b \in have}

\* split(): a run in segments of PieceBytes, the last of which may be shorter.
Split(g) == {s \in Segments :
  /\ s.from \in Of(g) /\ (s.from - g.from) % PieceBytes = 0
  /\ s.to = IF s.from + PieceBytes - 1 <= g.to THEN s.from + PieceBytes - 1 ELSE g.to}

Missing(have) == UNION {Split(g) : g \in Gaps(have)}

\* The n-th of the segments, by offset.
Nth(q, n) == CHOOSE s \in q : Cardinality({t \in q : t.from < s.from}) = n - 1

\* #loadKept(): a piece whose body is not its size is deleted, the others are held and counted.
LoadKept(x) ==
  LET listed == ListPieces(x.cache)
      kept == {p \in x.cache : p \in listed /\ ~p.torn}
      held == UNION {Of(p) : p \in kept}
  IN [x EXCEPT !.cache = kept, !.have = held, !.bad = UNION {p.bad : p \in kept},
        !.counted.cache = @ + Cardinality(held)]

\* #fill(), up to its first request: what is missing after #loadKept(), or the whole file.
Fill(x, fresh) ==
  LET emptied == [x EXCEPT !.have = {}, !.bad = {}, !.mode = "none", !.pc = "reading"]
      loaded == IF fresh THEN emptied ELSE LoadKept(emptied)
      missing == Missing(loaded.have)
  IN IF missing = {} THEN [loaded EXCEPT !.pc = "check"]
     ELSE IF x.ranges
       THEN [loaded EXCEPT !.queue = missing \ {Nth(missing, 1)}, !.worker[1] = Asked(Nth(missing, 1))]
       ELSE [loaded EXCEPT !.queue = {}, !.mode = "whole", !.worker[1] = Asked(All)]

\* A plain request starts over, and what came of it is taken back.
StartOver(x, ends) ==
  [x EXCEPT !.counted.network = @ - Cardinality(UNION {Arrived(x, i) : i \in ends}),
            !.worker = [i \in Workers |-> IF i \in ends THEN [@[i] EXCEPT !.got = 0] ELSE @[i]]]

\* Mutant: what arrived of a range is dropped.
EndRequestsForgets(x, ends) == StartOver(x, ends)

\* The catch of #requestOnce(), for the requests of `ends`: what arrived of a range is held,
\* and kept if it is worth it.
EndRequests(x, ends) ==
  IF x.mode = "whole" THEN StartOver(x, ends)
  ELSE LET worth == {i \in ends : x.worker[i].got >= Enough}
       IN Keep([x EXCEPT !.have = @ \cup UNION {Arrived(x, i) : i \in ends}],
               {[from |-> x.worker[i].from, to |-> x.worker[i].from + x.worker[i].got - 1] : i \in worth})

\* The catch of #fill(): the other requests are aborted, and settle.
Fail(x, why) ==
  [EndRequests(x, Streaming(x)) EXCEPT
     !.worker = [i \in Workers |-> Off], !.queue = {}, !.pc = "failed", !.why = why]

\* #work(): the next segment; once no worker has one the file is there, or bytes are missing.
TakeNext(x, i) ==
  LET next == IF x.mode # "whole" /\ x.queue # {}
              THEN [x EXCEPT !.queue = @ \ {Nth(@, 1)}, !.worker[i] = Asked(Nth(x.queue, 1))]
              ELSE [x EXCEPT !.worker[i] = Off]
  IN IF Active(next) # {} THEN next
     ELSE IF next.have = Bytes THEN [next EXCEPT !.pc = "check"] ELSE Fail(next, "notIntact")

\* Mutant: the retries are not counted.
AgainForEver(x, i, got, short) ==
  [x EXCEPT !.worker[i] = [Asked(@) EXCEPT !.at = "waiting"]]

\* #fetchSegment(), when a request ended short of its segment with `got` bytes: what is
\* left is asked for at once after a short answer of enough bytes, or after a wait, or not again.
Again(x, i, got, short) ==
  LET streak == IF got >= Enough THEN 0 ELSE x.worker[i].streak
  IN IF short /\ got >= Enough
     THEN [x EXCEPT !.worker[i] = [Asked(@) EXCEPT !.streak = 0]]
     ELSE IF streak < MaxReadRetries
     THEN [x EXCEPT !.worker[i] = [Asked(@) EXCEPT !.at = "waiting", !.streak = streak + 1]]
     ELSE Fail([x EXCEPT !.worker[i] = Off], "network")

\* #takeBack()
TakeBack(x) == [x EXCEPT !.counted = [cache |-> 0, network |-> 0], !.have = {}, !.bad = {}]

\* Every piece of the file, in one go.
deletePieces(x) == [x EXCEPT !.cache = {}]

\* #discard(), and the second attempt of read(), or its end.
Discard(x) ==
  LET empty == TakeBack(deletePieces(x))
  IN IF x.attempt = 0 THEN Fill([empty EXCEPT !.attempt = 1, !.why = "none"], TRUE)
     ELSE [empty EXCEPT !.pc = "done"]

---------------------------------------------------------------------------
(* The actions: what the page does, what the server answers, what comes due. *)

\* What earlier loads left: at most two pieces, which may be wrong, cut short, or overlap.
KeptBefore ==
  LET Left == {p \in Pieces : p.from <= p.to /\ p.bad \in {{}, {p.from}} /\ (p.bad # {} => p.from \in Corruptible)}
      Key(p) == <<p.from, p.to>>
  IN {{}} \cup {{p} : p \in Left}
       \cup {c \in {{p, q} : p \in Left, q \in Left} : \A p, q \in c : Key(p) = Key(q) => p = q}

ReadInit == \E cache \in KeptBefore, ranges \in {TRUE, ("whole" \notin ReadFaults)} :
  r = [cache |-> cache, full |-> FALSE, ranges |-> ranges, store |-> TRUE,
       have |-> {}, bad |-> {}, counted |-> [cache |-> 0, network |-> 0],
       queue |-> {}, mode |-> "none", worker |-> [i \in Workers |-> Off],
       pc |-> "idle", attempt |-> 0, why |-> "none", aborted |-> FALSE, load |-> 0]

\* readInPieces(), of a new reader; the Cache API has what the last one left.
Read ==
  /\ r.pc \in {"idle", "done"} /\ r.load < MaxLoads
  /\ r' = Fill([r EXCEPT !.counted = [cache |-> 0, network |-> 0], !.store = TRUE,
                 !.attempt = 0, !.why = "none", !.aborted = FALSE, !.load = @ + 1], FALSE)

\* A 206 whose Content-Range fits. The first one lets the other workers start.
RangeAnswered(i) ==
  /\ r.worker[i].at = "asked" /\ r.mode # "whole"
  /\ \E to \in Of(r.worker[i]) :
       LET others == {j \in Workers \ {i} : r.mode = "none" /\ j - 1 <= Cardinality(r.queue)}
       IN /\ "short" \in ReadFaults \/ to = r.worker[i].to
          /\ r' = [r EXCEPT !.mode = "ranged",
               !.queue = @ \ {Nth(@, j - 1) : j \in others},
               !.worker = [j \in Workers |->
                 IF j = i THEN [@[i] EXCEPT !.at = "stream", !.got = 0, !.expected = to - r.worker[i].from + 1]
                 ELSE IF j \in others THEN Asked(Nth(r.queue, j - 1)) ELSE @[j]]]

\* A 206 of something else than the file: it is asked for without a Range.
OtherAnswered(i) ==
  /\ "other" \in ReadFaults
  /\ r.worker[i].at = "asked" /\ r.mode # "whole"
  /\ r' = IF r.mode = "ranged" THEN Fail(r, "notIntact") ELSE [r EXCEPT !.mode = "whole"]

\* A 200: the whole file from the start, and nothing that was held counts.
WholeAnswered(i) ==
  /\ r.worker[i].at = "asked"
  /\ r.mode = "whole" \/ "plain" \in ReadFaults
  /\ r' = IF r.mode = "ranged" THEN Fail(r, "notIntact")
          ELSE [TakeBack(r) EXCEPT !.mode = "whole", !.queue = {},
                 !.worker[i] = [@ EXCEPT !.at = "stream", !.got = 0, !.expected = Size]]

\* A 404 is permanent, and so is a 416, which says the file is shorter.
Refused(i) ==
  /\ "gone" \in ReadFaults
  /\ r.worker[i].at = "asked"
  /\ \E why \in {"http", "notIntact"} : r' = Fail(r, why)

\* No answer, a 5xx, a 429: worth another try.
NotAnswered(i) ==
  /\ "busy" \in ReadFaults
  /\ r.worker[i].at = "asked"
  /\ r' = Again(r, i, 0, FALSE)

\* #stream(): a chunk.
Chunk(i) ==
  LET w == r.worker[i]
      at == (IF r.mode = "whole" THEN 0 ELSE w.from) + w.got
  IN /\ w.at = "stream" /\ w.got < w.expected
     /\ \E wrong \in {FALSE, (at \in Corruptible)} :
          r' = [r EXCEPT !.worker[i].got = @ + 1, !.counted.network = @ + 1,
                         !.bad = IF wrong THEN @ \cup {at} ELSE @ \ {at}]

\* Mutant: a whole file is kept beside the pieces that were there.
CompleteBeside(i) ==
  LET w == r.worker[i]
      held == [r EXCEPT !.have = @ \cup Arrived(r, i)]
  IN /\ w.at = "stream" /\ w.got = w.expected
     /\ r' = IF r.mode = "whole" THEN TakeNext(Keep(held, {All}), i)
             ELSE LET kept == Keep(held, {[from |-> w.from, to |-> w.from + w.got - 1]})
                  IN IF w.from + w.got > w.to THEN TakeNext(kept, i)
                     ELSE Again([kept EXCEPT !.worker[i].from = w.from + w.got], i, w.got, TRUE)

\* The answer is complete: held and kept, and the rest of the segment asked for.
Complete(i) ==
  LET w == r.worker[i]
      held == [r EXCEPT !.have = @ \cup Arrived(r, i)]
  IN /\ w.at = "stream" /\ w.got = w.expected
     /\ r' = IF r.mode = "whole"
             THEN TakeNext(Keep(deletePieces(held), {All}), i)
             ELSE LET kept == Keep(held, {[from |-> w.from, to |-> w.from + w.got - 1]})
                  IN IF w.from + w.got > w.to THEN TakeNext(kept, i)
                     ELSE Again([kept EXCEPT !.worker[i].from = w.from + w.got], i, w.got, TRUE)

\* The connection breaks, the body ends early, or nothing arrives for STALL_MS.
Broken(i) ==
  LET w == r.worker[i]
      ended == EndRequests(r, {i})
  IN /\ w.at = "stream" /\ "break" \in ReadFaults
     /\ r' = IF r.mode = "whole" THEN Again(ended, i, 0, FALSE)
             ELSE IF w.from + w.got > w.to THEN TakeNext(ended, i)
             ELSE Again([ended EXCEPT !.worker[i].from = w.from + w.got], i, w.got, FALSE)

\* More arrives than the answer's length: this is not the file.
TooLong(i) ==
  /\ "longer" \in ReadFaults
  /\ r.worker[i].at = "stream" /\ r.worker[i].got = r.worker[i].expected
  /\ r' = Fail(r, "notIntact")

\* #waitToRetry() is over.
WaitOver(i) ==
  /\ r.worker[i].at = "waiting"
  /\ r' = [r EXCEPT !.worker[i].at = "asked"]

\* read(): the whole is held to the manifest.
Check ==
  /\ r.pc = "check"
  /\ r' = IF r.bad = {} THEN [r EXCEPT !.pc = "done", !.why = "ok"]
          ELSE [r EXCEPT !.pc = "failed", !.why = "notIntact"]

\* The catch of read().
Settle ==
  /\ r.pc = "failed"
  /\ r' = IF r.why # "notIntact" \/ r.aborted THEN [r EXCEPT !.pc = "done"] ELSE Discard(r)

\* The caller's signal. It stops the requests; a check under way goes on.
Abort ==
  /\ "abort" \in ReadFaults
  /\ r.pc \in {"reading", "check", "failed"} /\ ~r.aborted
  /\ r' = IF r.pc = "reading" THEN [Fail(r, "aborted") EXCEPT !.aborted = TRUE]
          ELSE [r EXCEPT !.aborted = TRUE]

\* From here on a put fails with QuotaExceededError.
StorageFills ==
  /\ "quota" \in ReadFaults
  /\ ~r.full
  /\ r' = [r EXCEPT !.full = TRUE]

Answered(i) == RangeAnswered(i) \/ OtherAnswered(i) \/ WholeAnswered(i) \/ Refused(i) \/ NotAnswered(i)
Received(i) == Chunk(i) \/ Complete(i) \/ Broken(i) \/ TooLong(i)

ReadNext ==
  \/ Read \/ Check \/ Settle \/ Abort \/ StorageFills
  \/ \E i \in Workers : Answered(i) \/ Received(i) \/ WaitOver(i)

ReadSpec == ReadInit /\ [][ReadNext]_r

\* The event loop runs what is due, and a server answers in the end: the browser ends a
\* connection that does not, and the stall timer one whose body stops.
ReadsDue == /\ WF_r(Check) /\ WF_r(Settle)
       /\ \A i \in Workers : WF_r(Received(i)) /\ WF_r(WaitOver(i))
FairReadSpec == ReadSpec /\ ReadsDue /\ \A i \in Workers : WF_r(Answered(i))

---------------------------------------------------------------------------
(* Properties *)

Here(x) == x.have \cup UNION {Arrived(x, i) : i \in Streaming(x)}

ReadTypeOK ==
  r \in [cache : SUBSET Pieces, full : BOOLEAN, ranges : BOOLEAN, store : BOOLEAN,
         have : SUBSET Bytes, bad : SUBSET Bytes, counted : [cache : 0..Size, network : 0..Size],
         queue : SUBSET Segments, mode : {"none", "ranged", "whole"},
         worker : [Workers -> [at : {"off", "asked", "stream", "waiting"}, from : Bytes, to : Bytes,
                               expected : 0..Size, got : 0..Size, streak : 0..MaxReadRetries]],
         pc : {"idle", "reading", "check", "failed", "done"}, attempt : 0..1,
         why : {"none", "ok", "notIntact", "network", "http", "aborted"},
         aborted : BOOLEAN, load : 0..MaxLoads]

\* Progress is what is there: the bytes reported through onBytes, less those taken back, are
\* those held and those arriving, through retries, resumed segments and a change of mode.
CountedIsHeld == r.counted.cache + r.counted.network = Cardinality(Here(r))

Places(x, b) ==
  {<<"worker", i>> : i \in {j \in Active(x) : b \in Of(x.worker[j])}}
    \cup {<<"queue", s>> : s \in {q \in x.queue : b \in Of(q)}}

\* While pieces are read every byte is in one place: held, in one worker's segment, or in one
\* that waits; so nothing is fetched twice at once, and nothing is forgotten.
EveryByteHasAPlace ==
  r.pc = "reading" /\ r.mode # "whole" =>
    \A b \in Bytes : IF b \in r.have THEN Places(r, b) = {} ELSE \E p \in Places(r, b) : Places(r, b) = {p}

\* Nothing is used unchecked, and nothing bad is left for later: a file that is handed over
\* is whole and right, and so is each piece then kept of it.
OnlyCheckedIsUsed ==
  r.pc = "done" /\ r.why = "ok" =>
    /\ r.have = Bytes /\ r.bad = {}
    /\ \A p \in r.cache : p.bad = {} /\ ~p.torn

\* A read that gave up on a bad copy leaves no piece of it, for a Retry would trip over it again.
BadCopiesGo == r.pc = "done" /\ r.why = "notIntact" /\ ~r.aborted => r.cache = {}

\* What is held, what is counted and what is still to be fetched always add up, and no bad byte
\* gets past a check, into use or into the pieces a later read starts from.
BytesAreRight == ReadTypeOK /\ CountedIsHeld /\ EveryByteHasAPlace /\ OnlyCheckedIsUsed /\ BadCopiesGo

\* A piece cut short, by a connection or by an abort, keeps what arrived.
WhatArrivedStays ==
  [][r.pc = "reading" /\ r'.pc \in {"reading", "failed"} /\ r'.mode = "ranged" => Here(r) \subseteq Here(r')]_r

\* Every read ends: whatever the server truncates, breaks or refuses, the retries run out.
ReadsEnd == r.pc = "reading" ~> r.pc = "done"

====
