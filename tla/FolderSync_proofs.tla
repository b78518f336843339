---- MODULE FolderSync_proofs ----
(***************************************************************************)
(* Proofs about FolderSync: as long as no more files are reported than      *)
(* there may be, both sides hold one folder, for every batch size, number   *)
(* of changes, of messages on their way and of interpreters.                *)
(*                                                                         *)
(* FoldersAgree speaks of a moment when both are quiet. What makes it        *)
(* true then holds at every moment, of each path apart (Heard): unless the   *)
(* page has spoken of it and the worker has not heard that yet, or the      *)
(* worker has refused it and has not said so yet, the last report on its    *)
(* way that the page will not leave out says what the worker believes it    *)
(* to hold (`reported`), and where there is no such report the page holds   *)
(* that already. Beside it stand where a batch can be (Delivered), what the  *)
(* worker believes of its own files (Reported), and what goes with `start`. *)
(***************************************************************************)
EXTENDS FolderSync, SequenceTheorems, Sums

---------------------------------------------------------------------------
(* The inductive invariant. *)

Files == [type : {"files"}, what : UNION {[D -> Contents] : D \in SUBSET Paths}]
Messages == {Taken, Exited} \cup Files
Pages == [folder : [Paths -> Contents], queued : Seq(Ops), inFlight : Seq(Ops), started : BOOLEAN]
Workers == [pc : {"loading", "starting", "running", "parked", "exited"}, files : [Paths -> Contents], order : Seq(Paths),
            dir : BOOLEAN, reported : [Paths -> Contents], refused : SUBSET Paths, news : BOOLEAN, start : [Paths -> Contents]]

\* The parts are about a page g, a mailbox `box`, messages ms and a worker x, so that what half a
\* step leaves can be spoken of.

\* No two operations that wait are about one path.
ApartAt(s, l) == \A i, j \in 1..l : s[i][1] = s[j][1] => i = j
Apart(s) == ApartAt(s, Len(s))

\* The files a worker has are those it lists, each once.
Listed(x) == ToSet(x.order) = {p \in Paths : x.files[p] # 0} /\ IsInjective(x.order)
WorkerOK(x) == x \in Workers /\ Listed(x)

Typed(g, box, ms, x) ==
  g \in Pages /\ Apart(g.queued) /\ box \in Seq(Ops) /\ Len(box) <= Batch /\ ms \in Seq(Messages) /\ WorkerOK(x)

\* SaidIsShown
Shown(g) ==
  \A op \in ToSet(g.queued) \cup ToSet(g.inFlight) :
    op[1] \notin Names(g.queued) \/ op \in ToSet(g.queued) => g.folder[op[1]] = op[2]

\* A batch is in the mailbox, or taken and on its way to be acknowledged, or none is sent.
Delivered(g, box, ms) ==
  /\ box # <<>> => g.inFlight = box
  /\ (box # <<>> \/ g.inFlight = <<>>) => \A i \in 1..Len(ms) : ms[i].type # "filesTaken"
  /\ (box = <<>> /\ g.inFlight # <<>>) => \E i \in 1..Len(ms) : ms[i].type = "filesTaken"
  /\ \A i, j \in 1..Len(ms) : ms[i].type = "filesTaken" /\ ms[j].type = "filesTaken" => i = j

\* Before the program runs nothing was sent by it, and `start` goes with what the page then held.
Starts(g, box, ms, x) ==
  /\ g.started <=> x.pc # "loading"
  /\ ~g.started => g.queued = <<>> /\ g.inFlight = <<>> /\ box = <<>>
  /\ x.pc \in {"loading", "starting"} =>
       /\ ms = <<>> /\ x.files = NoFiles /\ x.reported = NoFiles /\ x.order = <<>>
       /\ ~x.dir /\ ~x.news /\ x.refused = {}
  /\ x.pc = "starting" => \A p \in Paths : p \notin Unsettled(g) => g.folder[p] = x.start[p]

\* What the worker takes the page to know is what it has, unless something changed since.
Reported(x) == ~x.news => x.reported = x.files
Waits(x) == x.pc \in {"parked", "exited"} => ~x.news /\ x.refused = {}

\* The i-th message says something of p that the page will not leave out.
Tells(g, ms, p, i) ==
  /\ ms[i].type = "files" /\ p \in DOMAIN ms[i].what
  /\ p \in Names(g.inFlight) => \E j \in 1..(i - 1) : ms[j].type = "filesTaken"

\* The page holds what the worker last said, or will once it has heard it.
HeardOf(g, ms, x, p) ==
  /\ (\A i \in 1..Len(ms) : ~Tells(g, ms, p, i)) => g.folder[p] = x.reported[p]
  /\ \A i \in 1..Len(ms) :
       Tells(g, ms, p, i) /\ (\A j \in 1..Len(ms) : j > i => ~Tells(g, ms, p, j)) => ms[i].what[p] = x.reported[p]
Heard(g, box, ms, x) ==
  x.pc \in {"running", "parked", "exited"} =>
    \A p \in Paths : p \notin Names(g.queued) \cup Names(box) \cup x.refused => HeardOf(g, ms, x, p)

Agree(g, box, ms, x) ==
  Typed(g, box, ms, x) /\ Shown(g) /\ Delivered(g, box, ms) /\ Starts(g, box, ms, x) /\ Reported(x) /\ Heard(g, box, ms, x)

IInv == Agree(page, mail, msgs, w) /\ Waits(w) /\ made \in Contents

---------------------------------------------------------------------------
(* Sequences whose elements differ by a key. *)

LEMMA RemoveAtFacts ==
  ASSUME NEW S, NEW s \in Seq(S), NEW i \in 1..Len(s)
  PROVE  /\ RemoveAt(s, i) \in Seq(S)
         /\ Len(RemoveAt(s, i)) = Len(s) - 1
         /\ \A j \in 1..(Len(s) - 1) : RemoveAt(s, i)[j] = IF j < i THEN s[j] ELSE s[j + 1]
<1> DEFINE l == Len(s)
           a == SubSeq(s, 1, i - 1)
           b == SubSeq(s, i + 1, l)
<1>1. l \in Nat /\ i \in 1..l /\ \A j \in 1..l : s[j] \in S
  BY LenProperties, ElementOfSeq
<1>2. a \in Seq(S) /\ Len(a) = i - 1 /\ \A j \in 1..(i - 1) : a[j] = s[j]
  <2>1. \A j \in 1..(i - 1) : s[j] \in S
    BY <1>1
  <2>2. 1 \in Int /\ i - 1 \in Int
    BY <1>1
  <2>3. /\ a \in Seq(S) /\ Len(a) = IF 1 <= i - 1 THEN (i - 1) - 1 + 1 ELSE 0
        /\ \A j \in 1..((i - 1) - 1 + 1) : a[j] = s[1 + j - 1]
    BY <2>1, <2>2, SubSeqProperties
  <2> HIDE DEF a
  <2>4. \A j \in 1..(i - 1) : 1 + j - 1 = j /\ j \in 1..((i - 1) - 1 + 1)
    BY <1>1
  <2> QED BY <1>1, <2>3, <2>4
<1>3. b \in Seq(S) /\ Len(b) = l - i /\ \A j \in 1..(l - i) : b[j] = s[i + j]
  <2>1. \A j \in (i + 1)..l : s[j] \in S
    BY <1>1
  <2>2. i + 1 \in Int /\ l \in Int
    BY <1>1
  <2>3. /\ b \in Seq(S) /\ Len(b) = IF i + 1 <= l THEN l - (i + 1) + 1 ELSE 0
        /\ \A j \in 1..(l - (i + 1) + 1) : b[j] = s[(i + 1) + j - 1]
    BY <2>1, <2>2, SubSeqProperties
  <2> HIDE DEF b
  <2>4. \A j \in 1..(l - i) : (i + 1) + j - 1 = i + j /\ j \in 1..(l - (i + 1) + 1)
    BY <1>1
  <2> QED BY <1>1, <2>3, <2>4
<1>4. RemoveAt(s, i) = a \o b
  BY DEF RemoveAt
<1> HIDE DEF a, b
<1>5. /\ a \o b \in Seq(S) /\ Len(a \o b) = Len(a) + Len(b)
      /\ \A j \in 1..(Len(a) + Len(b)) : (a \o b)[j] = IF j <= Len(a) THEN a[j] ELSE b[j - Len(a)]
  BY <1>2, <1>3, ConcatProperties
<1>6. ASSUME NEW j \in 1..(l - 1)
      PROVE  (a \o b)[j] = IF j < i THEN s[j] ELSE s[j + 1]
  <2>1. j \in 1..(Len(a) + Len(b))
    BY <1>1, <1>2, <1>3
  <2>2. (a \o b)[j] = IF j <= i - 1 THEN a[j] ELSE b[j - (i - 1)]
    BY <1>2, <1>5, <2>1
  <2>3. CASE j < i
    <3>1. j <= i - 1 /\ j \in 1..(i - 1)
      BY <1>1, <2>3
    <3> QED BY <1>2, <2>2, <2>3, <3>1
  <2>4. CASE ~ (j < i)
    <3>1. ~ (j <= i - 1) /\ j - (i - 1) \in 1..(l - i) /\ i + (j - (i - 1)) = j + 1
      BY <1>1, <2>4
    <3>2. (a \o b)[j] = b[j - (i - 1)] /\ b[j - (i - 1)] = s[i + (j - (i - 1))]
      BY <1>3, <2>2, <3>1
    <3> QED BY <2>4, <3>1, <3>2
  <2> QED BY <2>3, <2>4
<1>7. Len(a \o b) = l - 1
  BY <1>1, <1>2, <1>3, <1>5
<1> QED BY <1>4, <1>5, <1>6, <1>7

\* The first of some positions is one of them.
LEMMA MinIsOne ==
  ASSUME NEW N, N \subseteq Nat, N # {}
  PROVE  Min(N) \in N
<1>1. \E n \in N : \A m \in N : n <= m
  BY LeastNumber
<1> QED BY <1>1 DEF Min

LEMMA MaxOfInterval ==
  ASSUME NEW n \in Nat, n # 0, NEW N, N \subseteq 1..n, n \in N
  PROVE  Max(N) = n
<1>1. n \in N /\ \A m \in N : n >= m
  OBVIOUS
<1>2. Max(N) \in N /\ \A m \in N : Max(N) >= m
  BY <1>1 DEF Max
<1>3. Max(N) \in 1..n /\ Max(N) >= n
  BY <1>1, <1>2
<1> QED BY <1>3

LEMMA WithoutFacts ==
  ASSUME NEW S, NEW s \in Seq(S), IsInjective(s), NEW p
  PROVE  /\ Without(s, p) \in Seq(S)
         /\ IsInjective(Without(s, p))
         /\ ToSet(Without(s, p)) = ToSet(s) \ {p}
<1> DEFINE l == Len(s)
           N == {i \in 1..l : s[i] = p}
<1>1. l \in Nat /\ DOMAIN s = 1..l
  BY LenProperties
<1>2. \A i, j \in 1..l : s[i] = s[j] => i = j
  BY <1>1 DEF IsInjective
<1>3. CASE N = {}
  <2>1. Without(s, p) = s
    BY <1>3 DEF Without, RemoveFirst, SelectInSeq
  <2>2. p \notin ToSet(s)
    BY <1>1, <1>3 DEF ToSet
  <2> QED BY <2>1, <2>2
<1>4. CASE N # {}
  <2> DEFINE k == Min(N)
             t == RemoveAt(s, k)
  <2>1. k \in 1..l /\ s[k] = p
    <3>1. N \subseteq Nat
      BY <1>1
    <3> QED BY <1>4, <3>1, MinIsOne
  <2>2. Without(s, p) = t
    BY <1>4 DEF Without, RemoveFirst, SelectInSeq
  <2> HIDE DEF k
  <2>3. /\ t \in Seq(S) /\ Len(t) = l - 1
        /\ \A j \in 1..(l - 1) : t[j] = IF j < k THEN s[j] ELSE s[j + 1]
    BY <2>1, RemoveAtFacts
  <2>4. DOMAIN t = 1..(l - 1)
    BY <2>3, LenProperties
  <2> HIDE DEF t, l
  <2>5. IsInjective(t)
    <3>1. ASSUME NEW i \in 1..(l - 1), NEW j \in 1..(l - 1), t[i] = t[j]
          PROVE  i = j
      <4> DEFINE at(m) == IF m < k THEN m ELSE m + 1
      <4>1. at(i) \in 1..l /\ at(j) \in 1..l
        BY <1>1, <2>1
      <4>2. t[i] = s[at(i)] /\ t[j] = s[at(j)]
        BY <2>3
      <4>3. at(i) = at(j)
        BY <1>2, <3>1, <4>1, <4>2
      <4> QED BY <1>1, <2>1, <4>3
    <3> QED BY <2>4, <3>1 DEF IsInjective
  <2>6. ASSUME NEW q \in ToSet(t)
        PROVE  q \in ToSet(s) /\ q # p
    <3>1. PICK j \in 1..(l - 1) : q = t[j]
      BY <2>4 DEF ToSet
    <3> DEFINE m == IF j < k THEN j ELSE j + 1
    <3>2. m \in 1..l /\ m # k /\ q = s[m]
      BY <1>1, <2>1, <2>3, <3>1
    <3> HIDE DEF m
    <3> QED BY <1>1, <1>2, <2>1, <3>2 DEF ToSet
  <2>7. ASSUME NEW q \in ToSet(s), q # p
        PROVE  q \in ToSet(t)
    <3>1. PICK m \in 1..l : q = s[m]
      BY <1>1 DEF ToSet
    <3>2. m # k
      BY <2>1, <2>7, <3>1
    <3> DEFINE j == IF m < k THEN m ELSE m - 1
    <3>3. j \in 1..(l - 1) /\ t[j] = s[m]
      BY <1>1, <2>1, <2>3, <3>2
    <3> HIDE DEF j
    <3> QED BY <2>4, <3>1, <3>3 DEF ToSet
  <2>8. ToSet(t) = ToSet(s) \ {p}
    BY <2>6, <2>7
  <2> QED BY <2>2, <2>3, <2>5, <2>8
<1> QED BY <1>3, <1>4

LEMMA WithoutOpFacts ==
  ASSUME NEW S, NEW s \in Seq(S), Apart(s), NEW p
  PROVE  /\ WithoutOp(s, p) \in Seq(S)
         /\ Apart(WithoutOp(s, p))
         /\ ToSet(WithoutOp(s, p)) = {op \in ToSet(s) : op[1] # p}
<1> DEFINE l == Len(s)
           N == {i \in 1..l : s[i][1] = p}
<1>1. l \in Nat /\ DOMAIN s = 1..l
  BY LenProperties
<1>2. \A i, j \in 1..l : s[i][1] = s[j][1] => i = j
  BY DEF Apart, ApartAt
<1>3. CASE N = {}
  <2>1. WithoutOp(s, p) = s
    BY <1>3 DEF WithoutOp, RemoveFirstMatch, SelectInSeq
  <2>2. \A op \in ToSet(s) : op[1] # p
    BY <1>1, <1>3 DEF ToSet
  <2> QED BY <2>1, <2>2
<1>4. CASE N # {}
  <2> DEFINE k == Min(N)
             t == RemoveAt(s, k)
  <2>1. k \in 1..l /\ s[k][1] = p
    <3>1. N \subseteq Nat
      BY <1>1
    <3> QED BY <1>4, <3>1, MinIsOne
  <2>2. WithoutOp(s, p) = t
    BY <1>4 DEF WithoutOp, RemoveFirstMatch, SelectInSeq
  <2> HIDE DEF k
  <2>3. /\ t \in Seq(S) /\ Len(t) = l - 1
        /\ \A j \in 1..(l - 1) : t[j] = IF j < k THEN s[j] ELSE s[j + 1]
    BY <2>1, RemoveAtFacts
  <2>4. DOMAIN t = 1..(l - 1)
    BY <2>3, LenProperties
  <2> HIDE DEF t, l
  <2>5. Apart(t)
    <3>1. ASSUME NEW i \in 1..(l - 1), NEW j \in 1..(l - 1), t[i][1] = t[j][1]
          PROVE  i = j
      <4> DEFINE at(m) == IF m < k THEN m ELSE m + 1
      <4>1. at(i) \in 1..l /\ at(j) \in 1..l
        BY <1>1, <2>1
      <4>2. t[i] = s[at(i)] /\ t[j] = s[at(j)]
        BY <2>3
      <4>3. at(i) = at(j)
        BY <1>2, <3>1, <4>1, <4>2
      <4> QED BY <1>1, <2>1, <4>3
    <3> QED BY <2>3, <3>1 DEF Apart, ApartAt
  <2>6. ASSUME NEW q \in ToSet(t)
        PROVE  q \in ToSet(s) /\ q[1] # p
    <3>1. PICK j \in 1..(l - 1) : q = t[j]
      BY <2>4 DEF ToSet
    <3> DEFINE m == IF j < k THEN j ELSE j + 1
    <3>2. m \in 1..l /\ m # k /\ q = s[m]
      BY <1>1, <2>1, <2>3, <3>1
    <3> HIDE DEF m
    <3> QED BY <1>1, <1>2, <2>1, <3>2 DEF ToSet
  <2>7. ASSUME NEW q \in ToSet(s), q[1] # p
        PROVE  q \in ToSet(t)
    <3>1. PICK m \in 1..l : q = s[m]
      BY <1>1 DEF ToSet
    <3>2. m # k
      BY <2>1, <2>7, <3>1
    <3> DEFINE j == IF m < k THEN m ELSE m - 1
    <3>3. j \in 1..(l - 1) /\ t[j] = s[m]
      BY <1>1, <2>1, <2>3, <3>2
    <3> HIDE DEF j
    <3> QED BY <2>4, <3>1, <3>3 DEF ToSet
  <2>8. ToSet(t) = {op \in ToSet(s) : op[1] # p}
    BY <2>6, <2>7
  <2> QED BY <2>2, <2>3, <2>5, <2>8
<1> QED BY <1>3, <1>4

LEMMA ToSetAppend ==
  ASSUME NEW S, NEW s \in Seq(S), NEW e \in S
  PROVE  ToSet(Append(s, e)) = ToSet(s) \cup {e}
<1> DEFINE l == Len(s)
           t == Append(s, e)
<1>1. l \in Nat /\ DOMAIN s = 1..l
  BY LenProperties
<1>2. t \in Seq(S) /\ Len(t) = l + 1 /\ (\A i \in 1..l : t[i] = s[i]) /\ t[l + 1] = e
  BY AppendProperties
<1>3. DOMAIN t = 1..(l + 1)
  BY <1>2, LenProperties
<1> HIDE DEF t, l
<1>4. 1..(l + 1) = 1..l \cup {l + 1}
  BY <1>1
<1>5. {t[i] : i \in 1..(l + 1)} = {s[i] : i \in 1..l} \cup {e}
  BY <1>2, <1>4
<1> QED BY <1>1, <1>3, <1>5 DEF ToSet, t

LEMMA AppendApart ==
  ASSUME NEW S, NEW s \in Seq(S), Apart(s), NEW e \in S, \A op \in ToSet(s) : op[1] # e[1]
  PROVE  Apart(Append(s, e))
<1> DEFINE l == Len(s)
           t == Append(s, e)
<1>1. l \in Nat /\ DOMAIN s = 1..l
  BY LenProperties
<1>2. t \in Seq(S) /\ Len(t) = l + 1 /\ (\A i \in 1..l : t[i] = s[i]) /\ t[l + 1] = e
  BY AppendProperties
<1>3. \A i, j \in 1..l : s[i][1] = s[j][1] => i = j
  BY DEF Apart, ApartAt
<1>4. \A i \in 1..l : s[i][1] # e[1]
  BY <1>1 DEF ToSet
<1> HIDE DEF t, l
<1>5. \A i, j \in 1..(l + 1) : t[i][1] = t[j][1] => i = j
  <2> SUFFICES ASSUME NEW i \in 1..(l + 1), NEW j \in 1..(l + 1), t[i][1] = t[j][1]
               PROVE  i = j
    OBVIOUS
  <2>1. CASE i \in 1..l /\ j \in 1..l
    BY <1>2, <1>3, <2>1
  <2>2. CASE i = l + 1 /\ j \in 1..l
    BY <1>2, <1>4, <2>2
  <2>3. CASE j = l + 1 /\ i \in 1..l
    BY <1>2, <1>4, <2>3
  <2> QED BY <1>1, <2>1, <2>2, <2>3
<1> QED BY <1>2, <1>5 DEF Apart, ApartAt, t

LEMMA AppendInjectiveTo ==
  ASSUME NEW S, NEW s \in Seq(S), IsInjective(s), NEW e \in S, e \notin ToSet(s)
  PROVE  IsInjective(Append(s, e))
<1> DEFINE l == Len(s)
           t == Append(s, e)
<1>1. l \in Nat /\ DOMAIN s = 1..l
  BY LenProperties
<1>2. t \in Seq(S) /\ Len(t) = l + 1 /\ (\A i \in 1..l : t[i] = s[i]) /\ t[l + 1] = e
  BY AppendProperties
<1>3. DOMAIN t = 1..(l + 1)
  BY <1>2, LenProperties
<1>4. \A i, j \in 1..l : s[i] = s[j] => i = j
  BY <1>1 DEF IsInjective
<1>5. \A i \in 1..l : s[i] # e
  BY <1>1 DEF ToSet
<1> HIDE DEF t, l
<1>6. \A i, j \in 1..(l + 1) : t[i] = t[j] => i = j
  <2> SUFFICES ASSUME NEW i \in 1..(l + 1), NEW j \in 1..(l + 1), t[i] = t[j]
               PROVE  i = j
    OBVIOUS
  <2>1. CASE i \in 1..l /\ j \in 1..l
    BY <1>2, <1>4, <2>1
  <2>2. CASE i = l + 1 /\ j \in 1..l
    BY <1>2, <1>5, <2>2
  <2>3. CASE j = l + 1 /\ i \in 1..l
    BY <1>2, <1>5, <2>3
  <2> QED BY <1>1, <2>1, <2>2, <2>3
<1> QED BY <1>3, <1>6 DEF IsInjective, t

\* A batch and what is left after it.
LEMMA SplitQueue ==
  ASSUME NEW S, NEW s \in Seq(S), NEW n \in Nat, n <= Len(s)
  PROVE  LET a == SubSeq(s, 1, n)
             b == SubSeq(s, n + 1, Len(s))
         IN /\ a \in Seq(S) /\ Len(a) = n
            /\ b \in Seq(S) /\ (b = <<>> <=> n = Len(s))
            /\ ToSet(s) = ToSet(a) \cup ToSet(b)
            /\ Apart(s) => Apart(b) /\ \A x \in ToSet(a), y \in ToSet(b) : x[1] # y[1]
<1> DEFINE l == Len(s)
           a == SubSeq(s, 1, n)
           b == SubSeq(s, n + 1, l)
<1>1. l \in Nat /\ n \in 0..l /\ DOMAIN s = 1..l /\ \A j \in 1..l : s[j] \in S
  BY LenProperties, ElementOfSeq
<1>2. a \in Seq(S) /\ Len(a) = n /\ \A j \in 1..n : a[j] = s[j]
  <2>1. \A j \in 1..n : s[j] \in S
    BY <1>1
  <2>2. 1 \in Int /\ n \in Int
    BY <1>1
  <2>3. /\ a \in Seq(S) /\ Len(a) = IF 1 <= n THEN n - 1 + 1 ELSE 0
        /\ \A j \in 1..(n - 1 + 1) : a[j] = s[1 + j - 1]
    BY <2>1, <2>2, SubSeqProperties
  <2> HIDE DEF a
  <2>4. n - 1 + 1 = n /\ \A j \in 1..n : 1 + j - 1 = j
    BY <1>1
  <2>5. Len(a) = n
    BY <1>1, <2>3, <2>4
  <2>6. \A j \in 1..n : a[j] = s[1 + j - 1]
    BY <2>3, <2>4
  <2> QED BY <2>3, <2>4, <2>5, <2>6
<1>3. b \in Seq(S) /\ Len(b) = l - n /\ \A j \in 1..(l - n) : b[j] = s[n + j]
  <2>1. \A j \in (n + 1)..l : s[j] \in S
    BY <1>1
  <2>2. n + 1 \in Int /\ l \in Int
    BY <1>1
  <2>3. /\ b \in Seq(S) /\ Len(b) = IF n + 1 <= l THEN l - (n + 1) + 1 ELSE 0
        /\ \A j \in 1..(l - (n + 1) + 1) : b[j] = s[(n + 1) + j - 1]
    BY <2>1, <2>2, SubSeqProperties
  <2> HIDE DEF b, l
  <2>4. l - (n + 1) + 1 = l - n /\ \A j \in 1..(l - n) : (n + 1) + j - 1 = n + j
    BY <1>1
  <2>5. Len(b) = l - n
    BY <1>1, <2>3, <2>4
  <2>6. \A j \in 1..(l - n) : b[j] = s[(n + 1) + j - 1]
    BY <2>3, <2>4
  <2> QED BY <2>3, <2>4, <2>5, <2>6
<1>4. DOMAIN a = 1..n /\ DOMAIN b = 1..(l - n)
  BY <1>2, <1>3, LenProperties
<1>5. b = <<>> <=> n = l
  <2>1. b = <<>> => Len(b) = 0
    BY EmptySeq
  <2>2. Len(b) = 0 => b = <<>>
    BY <1>3, EmptySeq
  <2>3. Len(b) = 0 <=> n = l
    <3>1. Len(b) = l - n
      BY <1>3
    <3> HIDE DEF b, l
    <3> QED BY <1>1, <3>1
  <2> HIDE DEF b, l
  <2> QED BY <2>1, <2>2, <2>3
<1> HIDE DEF a, b, l
<1>6. ToSet(s) = ToSet(a) \cup ToSet(b)
  <2>1. ASSUME NEW x \in ToSet(s)
        PROVE  x \in ToSet(a) \cup ToSet(b)
    <3>1. PICK j \in 1..l : x = s[j]
      BY <1>1 DEF ToSet
    <3>2. CASE j <= n
      <4>1. j \in 1..n /\ x = a[j]
        BY <1>1, <1>2, <3>1, <3>2
      <4> QED BY <1>4, <4>1 DEF ToSet
    <3>3. CASE ~ (j <= n)
      <4>1. j - n \in 1..(l - n) /\ n + (j - n) = j
        BY <1>1, <3>3
      <4>2. x = b[j - n]
        BY <1>3, <3>1, <4>1
      <4> QED BY <1>4, <4>1, <4>2 DEF ToSet
    <3> QED BY <3>2, <3>3
  <2>2. ASSUME NEW x \in ToSet(a)
        PROVE  x \in ToSet(s)
    <3>1. PICK j \in 1..n : x = a[j]
      BY <1>4 DEF ToSet
    <3>2. j \in 1..l /\ x = s[j]
      BY <1>1, <1>2, <3>1
    <3> QED BY <1>1, <3>2 DEF ToSet
  <2>3. ASSUME NEW x \in ToSet(b)
        PROVE  x \in ToSet(s)
    <3>1. PICK j \in 1..(l - n) : x = b[j]
      BY <1>4 DEF ToSet
    <3>2. n + j \in 1..l /\ x = s[n + j]
      BY <1>1, <1>3, <3>1
    <3> QED BY <1>1, <3>2 DEF ToSet
  <2> QED BY <2>1, <2>2, <2>3
<1>7. ASSUME Apart(s)
      PROVE  Apart(b) /\ \A x \in ToSet(a), y \in ToSet(b) : x[1] # y[1]
  <2>1. \A i, j \in 1..l : s[i][1] = s[j][1] => i = j
    BY <1>7 DEF Apart, ApartAt, l
  <2>2. ASSUME NEW i \in 1..(l - n), NEW j \in 1..(l - n), b[i][1] = b[j][1]
        PROVE  i = j
    <3>1. n + i \in 1..l /\ n + j \in 1..l /\ b[i] = s[n + i] /\ b[j] = s[n + j]
      BY <1>1, <1>3
    <3>2. n + i = n + j
      BY <2>1, <2>2, <3>1
    <3> QED BY <1>1, <3>2
  <2>3. ASSUME NEW x \in ToSet(a), NEW y \in ToSet(b), x[1] = y[1]
        PROVE  FALSE
    <3>1. PICK i \in 1..n : x = a[i]
      BY <1>4 DEF ToSet
    <3>2. PICK j \in 1..(l - n) : y = b[j]
      BY <1>4 DEF ToSet
    <3>3. i \in 1..l /\ n + j \in 1..l /\ i # n + j /\ x = s[i] /\ y = s[n + j]
      BY <1>1, <1>2, <1>3, <3>1, <3>2
    <3> QED BY <2>1, <2>3, <3>3
  <2> QED BY <1>3, <2>2, <2>3 DEF Apart, ApartAt
<1> QED BY <1>2, <1>3, <1>5, <1>6, <1>7 DEF a, b, l

---------------------------------------------------------------------------
(* The operations of a batch, one by one. *)

FoldsTo(f, x, ops, big, S) ==
  f = [s \in SUBSET S |-> IF s = {} THEN x ELSE Apply(f[s \ {Max(s)}], ops[Max(s)], big)]

LEMMA AppliedIs ==
  ASSUME NEW x, NEW ops, NEW big
  PROVE  Applied(x, ops, big) = (CHOOSE f : FoldsTo(f, x, ops, big, DOMAIN ops))[DOMAIN ops]
BY DEF Applied, FoldLeft, MapThenFoldSet, FoldsTo

LEMMA FoldExists ==
  ASSUME NEW x, NEW ops, NEW big, NEW n \in Nat
  PROVE  \E f : FoldsTo(f, x, ops, big, 1..n)
<1> DEFINE N == {m \in Nat : ~ \E f : FoldsTo(f, x, ops, big, 1..m)}
<1>1. N = {}
  <2> SUFFICES ASSUME N # {} PROVE FALSE
    OBVIOUS
  <2>0. N \subseteq Nat
    OBVIOUS
  <2> HIDE DEF N
  <2>1. PICK m \in N : \A k \in N : m <= k
    BY <2>0, LeastNumber
  <2> USE DEF N
  <2>2. m # 0
    <3> SUFFICES ASSUME m = 0 PROVE FALSE
      OBVIOUS
    <3> DEFINE f == [s \in SUBSET (1..0) |-> x]
    <3>1. \A s \in SUBSET (1..0) : s = {}
      OBVIOUS
    <3>2. f = [s \in SUBSET (1..0) |-> IF s = {} THEN x ELSE Apply(f[s \ {Max(s)}], ops[Max(s)], big)]
      BY <3>1
    <3> HIDE DEF f
    <3>3. FoldsTo(f, x, ops, big, 1..0)
      BY <3>2 DEF FoldsTo
    <3> QED BY <3>3
  <2>3. m - 1 \in Nat /\ ~ (m <= m - 1)
    BY <2>0, <2>2
  <2>4. PICK g : FoldsTo(g, x, ops, big, 1..(m - 1))
    BY <2>1, <2>3
  <2> DEFINE f == [s \in SUBSET (1..m) |-> IF m \in s THEN Apply(g[s \ {m}], ops[m], big) ELSE g[s]]
  <2>5. ASSUME NEW s \in SUBSET (1..m)
        PROVE  f[s] = IF s = {} THEN x ELSE Apply(f[s \ {Max(s)}], ops[Max(s)], big)
    <3>1. CASE m \in s
      <4>1. Max(s) = m
        BY <2>2, <3>1, MaxOfInterval
      <4>2. s \ {m} \in SUBSET (1..m) /\ m \notin s \ {m}
        OBVIOUS
      <4>3. f[s \ {m}] = g[s \ {m}]
        BY <4>2
      <4>4. f[s] = Apply(g[s \ {m}], ops[m], big)
        BY <3>1
      <4> HIDE DEF f
      <4> QED BY <3>1, <4>1, <4>3, <4>4
    <3>2. CASE m \notin s
      <4>1. s \in SUBSET (1..(m - 1))
        BY <2>3, <3>2
      <4>2. g[s] = IF s = {} THEN x ELSE Apply(g[s \ {Max(s)}], ops[Max(s)], big)
        BY <2>4, <4>1 DEF FoldsTo
      <4>3. f[s] = g[s] /\ f[s \ {Max(s)}] = g[s \ {Max(s)}]
        BY <3>2
      <4> HIDE DEF f
      <4> QED BY <4>2, <4>3
    <3> QED BY <3>1, <3>2
  <2>6. f = [s \in SUBSET (1..m) |-> IF s = {} THEN x ELSE Apply(f[s \ {Max(s)}], ops[Max(s)], big)]
    BY <2>5
  <2> HIDE DEF f
  <2>7. FoldsTo(f, x, ops, big, 1..m)
    BY <2>6 DEF FoldsTo
  <2> QED BY <2>1, <2>7
<1> QED BY <1>1

\* What a batch makes of a worker, with what each of its operations made of it.
LEMMA AppliedSteps ==
  ASSUME NEW x, NEW S, NEW ops \in Seq(S), NEW big
  PROVE  \E g : /\ g[0] = x
                /\ \A k \in 1..Len(ops) : g[k] = Apply(g[k - 1], ops[k], big)
                /\ Applied(x, ops, big) = g[Len(ops)]
<1> DEFINE l == Len(ops)
           f == CHOOSE h : FoldsTo(h, x, ops, big, 1..l)
           g == [k \in 0..l |-> f[1..k]]
<1>1. l \in Nat /\ DOMAIN ops = 1..l
  BY LenProperties
<1> HIDE DEF l
<1>2. FoldsTo(f, x, ops, big, 1..l)
  BY <1>1, FoldExists
<1>3. Applied(x, ops, big) = f[1..l]
  BY <1>1, AppliedIs
<1> HIDE DEF f
<1>4. \A s \in SUBSET (1..l) : f[s] = IF s = {} THEN x ELSE Apply(f[s \ {Max(s)}], ops[Max(s)], big)
  BY <1>2 DEF FoldsTo
<1>5. g[0] = x
  <2>1. 0 \in 0..l /\ 1..0 = {} /\ {} \in SUBSET (1..l)
    BY <1>1
  <2> QED BY <1>4, <2>1
<1>6. ASSUME NEW k \in 1..l
      PROVE  g[k] = Apply(g[k - 1], ops[k], big)
  <2>1. k \in 0..l /\ k - 1 \in 0..l /\ k \in Nat /\ k # 0
    BY <1>1
  <2>2. 1..k \in SUBSET (1..l) /\ k \in 1..k /\ 1..k # {} /\ (1..k) \ {k} = 1..(k - 1)
    BY <1>1
  <2>3. Max(1..k) = k
    BY <2>1, <2>2, MaxOfInterval
  <2>4. f[1..k] = Apply(f[(1..k) \ {Max(1..k)}], ops[Max(1..k)], big)
    BY <1>4, <2>2
  <2> QED BY <2>1, <2>2, <2>3, <2>4
<1>7. Applied(x, ops, big) = g[l]
  BY <1>1, <1>3
<1> HIDE DEF g
<1> QED BY <1>5, <1>6, <1>7 DEF l

---------------------------------------------------------------------------
(* What one operation makes of a worker, and what a batch does. *)

LEMMA PathsAre == Paths = {"a", "b", "a/b"}
BY DEF Paths, Flat

IsPlaced(x, p, c, y) ==
  /\ WorkerOK(y) /\ y.files = [x.files EXCEPT ![p] = c] /\ y.news = TRUE
  /\ y.pc = x.pc /\ y.start = x.start /\ y.reported = x.reported /\ y.refused = x.refused

LEMMA PlacedFacts ==
  ASSUME NEW x, WorkerOK(x), NEW p \in Paths, NEW c \in Contents
  PROVE  IsPlaced(x, p, c, Placed(x, p, c))
<1> DEFINE others == Without(x.order, p)
           order == IF c = 0 THEN others ELSE Append(others, p)
           files == [x.files EXCEPT ![p] = c]
           y == Placed(x, p, c)
<1>1. x \in Workers /\ x.order \in Seq(Paths) /\ IsInjective(x.order) /\ ToSet(x.order) = {q \in Paths : x.files[q] # 0}
  BY DEF WorkerOK, Listed, Workers
<1>2. others \in Seq(Paths) /\ IsInjective(others) /\ ToSet(others) = ToSet(x.order) \ {p}
  BY <1>1, WithoutFacts
<1>3. files \in [Paths -> Contents] /\ \A q \in Paths : files[q] = IF q = p THEN c ELSE x.files[q]
  BY <1>1 DEF Workers
<1> HIDE DEF others, files
<1>4. order \in Seq(Paths) /\ IsInjective(order) /\ ToSet(order) = {q \in Paths : files[q] # 0}
  <2>1. CASE c = 0
    BY <1>1, <1>2, <1>3, <2>1
  <2>2. CASE c # 0
    <3>1. order = Append(others, p)
      BY <2>2
    <3>2. order \in Seq(Paths) /\ IsInjective(order) /\ ToSet(order) = ToSet(others) \cup {p}
      BY <1>2, <3>1, AppendProperties, AppendInjectiveTo, ToSetAppend
    <3> QED BY <1>1, <1>2, <1>3, <2>2, <3>2
  <2> QED BY <2>1, <2>2
<1> HIDE DEF order
<1>5. y = [x EXCEPT !.files = files, !.order = order, !.news = TRUE]
  BY DEF Placed, files, order, others
<1> HIDE DEF y
<1>6. y \in Workers
  BY <1>1, <1>3, <1>4, <1>5 DEF Workers
<1>7. y.files = files /\ y.order = order /\ y.news = TRUE
  BY <1>1, <1>5 DEF Workers
<1>8. y.pc = x.pc /\ y.reported = x.reported /\ y.refused = x.refused /\ y.start = x.start
  BY <1>1, <1>5 DEF Workers
<1>9. Listed(y)
  BY <1>4, <1>7 DEF Listed
<1> QED BY <1>6, <1>7, <1>8, <1>9 DEF IsPlaced, WorkerOK, y, files

\* What an operation on p, with content c, leaves of x.
Changed(x, y, p, c) ==
  /\ WorkerOK(y) /\ y.pc = x.pc /\ y.start = x.start
  /\ x.refused \subseteq y.refused
  /\ Reported(x) => Reported(y)
  /\ \A q \in Paths : q # p => y.files[q] = x.files[q] /\ y.reported[q] = x.reported[q]
  /\ p \in y.refused \/ (y.files[p] = c /\ y.reported[p] = c)

LEMMA TakeFacts ==
  ASSUME NEW x, WorkerOK(x), NEW p \in Paths
  PROVE  Changed(x, Take(x, p), p, 0)
<1>1. x \in Workers /\ Listed(x)
  BY DEF WorkerOK
<1>2. 0 \in Contents
  BY BoundsAssumption DEF Contents
<1> DEFINE y == Take(x, p)
<1>3. CASE p = "a" /\ x.dir
  <2>1. y = [x EXCEPT !.refused = x.refused \cup {p}]
    BY <1>3 DEF Take
  <2>2. y \in Workers
    BY <1>1, <2>1 DEF Workers
  <2>3. /\ y.pc = x.pc /\ y.start = x.start /\ y.files = x.files /\ y.reported = x.reported
        /\ y.order = x.order /\ y.news = x.news /\ y.refused = x.refused \cup {p}
    BY <1>1, <2>1 DEF Workers
  <2> HIDE DEF y
  <2> QED BY <1>1, <2>2, <2>3 DEF Changed, WorkerOK, Listed, Reported, y
<1>4. CASE ~ (p = "a" /\ x.dir)
  <2> DEFINE z == IF x.files[p] = 0 THEN x ELSE Placed(x, p, 0)
  <2>1. y = [z EXCEPT !.reported = [x.reported EXCEPT ![p] = 0]]
    BY <1>4 DEF Take
  <2>2. WorkerOK(z) /\ z.files = [x.files EXCEPT ![p] = 0] /\ (z.news = x.news \/ z.news = TRUE)
        /\ z.pc = x.pc /\ z.start = x.start /\ z.reported = x.reported /\ z.refused = x.refused
        /\ (z.news = x.news => z.files = x.files \/ x.news)
    <3>1. CASE x.files[p] = 0
      <4>1. [x.files EXCEPT ![p] = 0] = x.files
        BY <1>1, <3>1 DEF Workers
      <4> QED BY <3>1, <4>1
    <3>2. CASE x.files[p] # 0
      <4>1. z = Placed(x, p, 0)
        BY <3>2
      <4>2. x.news \in BOOLEAN
        BY <1>1 DEF Workers
      <4> HIDE DEF z
      <4>5. IsPlaced(x, p, 0, Placed(x, p, 0))
        BY <1>2, PlacedFacts
      <4>3. /\ WorkerOK(z) /\ z.files = [x.files EXCEPT ![p] = 0] /\ z.news = TRUE
            /\ z.pc = x.pc /\ z.start = x.start /\ z.reported = x.reported /\ z.refused = x.refused
        BY <4>1, <4>5 DEF IsPlaced
      <4>4. z.news = x.news => x.news
        BY <4>3
      <4> QED BY <4>3, <4>4
    <3> QED BY <3>1, <3>2
  <2> HIDE DEF z, y
  <2>3. z \in Workers /\ x.reported \in [Paths -> Contents] /\ x.files \in [Paths -> Contents]
    BY <1>1, <2>2 DEF WorkerOK, Workers
  <2>4. y \in Workers
    BY <1>2, <2>1, <2>3 DEF Workers
  <2>5. /\ y.pc = z.pc /\ y.start = z.start /\ y.files = z.files /\ y.reported = [x.reported EXCEPT ![p] = 0]
        /\ y.order = z.order /\ y.news = z.news /\ y.refused = z.refused
    BY <2>1, <2>3 DEF Workers
  <2>6. Listed(y)
    BY <2>2, <2>5 DEF Listed, WorkerOK
  <2>7. Reported(x) => Reported(y)
    <3> SUFFICES ASSUME Reported(x), ~y.news PROVE y.reported = y.files
      BY DEF Reported
    <3>1. ~x.news /\ z.news = x.news
      BY <2>2, <2>5
    <3>2. x.reported = x.files
      BY <3>1 DEF Reported
    <3> QED BY <2>2, <2>5, <3>2
  <2>8. \A q \in Paths : q # p => y.files[q] = x.files[q] /\ y.reported[q] = x.reported[q]
    BY <2>2, <2>3, <2>5
  <2>9. y.files[p] = 0 /\ y.reported[p] = 0
    BY <2>2, <2>3, <2>5
  <2> QED BY <2>2, <2>4, <2>5, <2>6, <2>7, <2>8, <2>9 DEF Changed, WorkerOK, y
<1> QED BY <1>3, <1>4

LEMMA PutFacts ==
  ASSUME NEW x, WorkerOK(x), NEW p \in Paths, NEW c \in Contents, NEW fits
  PROVE  Changed(x, Put(x, p, c, fits), p, c)
<1>1. x \in Workers /\ Listed(x) /\ x.news \in BOOLEAN
  BY DEF WorkerOK, Workers
<1> DEFINE y == Put(x, p, c, fits)
           way == IF p = "a/b" /\ x.files["a"] = 0 /\ ~x.dir THEN [x EXCEPT !.dir = TRUE, !.news = TRUE] ELSE x
<1>2. /\ way \in Workers
      /\ way.pc = x.pc /\ way.start = x.start /\ way.files = x.files /\ way.reported = x.reported
      /\ way.order = x.order /\ way.refused = x.refused /\ (way.news = x.news \/ way.news = TRUE)
  <2>1. CASE way = x
    BY <1>1, <2>1
  <2>2. CASE way = [x EXCEPT !.dir = TRUE, !.news = TRUE]
    <3> HIDE DEF way
    <3> QED BY <1>1, <2>2 DEF Workers
  <2> QED BY <2>1, <2>2
<1>3. y = IF CanHold(x, p) /\ fits THEN [Placed(way, p, c) EXCEPT !.reported = [x.reported EXCEPT ![p] = c]]
          ELSE [way EXCEPT !.refused = x.refused \cup {p}]
  BY DEF Put
<1> HIDE DEF way
<1>4. Listed(way)
  BY <1>1, <1>2 DEF Listed
<1>5. CASE ~ (CanHold(x, p) /\ fits)
  <2>1. y = [way EXCEPT !.refused = x.refused \cup {p}]
    BY <1>3, <1>5
  <2> HIDE DEF y
  <2>2. y \in Workers
    BY <1>2, <2>1 DEF Workers
  <2>3. /\ y.pc = way.pc /\ y.start = way.start /\ y.files = way.files /\ y.reported = way.reported
        /\ y.order = way.order /\ y.news = way.news /\ y.refused = way.refused \cup {p}
    BY <1>2, <2>1 DEF Workers
  <2>4. Listed(y)
    BY <1>4, <2>3 DEF Listed
  <2>5. Reported(x) => Reported(y)
    BY <1>1, <1>2, <2>3 DEF Reported
  <2> QED BY <1>2, <2>2, <2>3, <2>4, <2>5 DEF Changed, WorkerOK, y
<1>6. CASE CanHold(x, p) /\ fits
  <2> DEFINE z == Placed(way, p, c)
  <2>1. y = [z EXCEPT !.reported = [x.reported EXCEPT ![p] = c]]
    BY <1>3, <1>6
  <2> HIDE DEF y
  <2>2. /\ WorkerOK(z) /\ z.files = [way.files EXCEPT ![p] = c] /\ z.news = TRUE
        /\ z.pc = way.pc /\ z.start = way.start /\ z.reported = way.reported /\ z.refused = way.refused
    <3>1. WorkerOK(way)
      BY <1>2, <1>4 DEF WorkerOK
    <3> QED BY <3>1, PlacedFacts DEF IsPlaced
  <2> HIDE DEF z
  <2>3. z \in Workers /\ x.reported \in [Paths -> Contents] /\ x.files \in [Paths -> Contents]
    BY <1>1, <2>2 DEF WorkerOK, Workers
  <2>4. y \in Workers
    BY <2>1, <2>3 DEF Workers
  <2>5. /\ y.pc = z.pc /\ y.start = z.start /\ y.files = z.files /\ y.reported = [x.reported EXCEPT ![p] = c]
        /\ y.order = z.order /\ y.news = z.news /\ y.refused = z.refused
    BY <2>1, <2>3 DEF Workers
  <2>6. Listed(y)
    BY <2>2, <2>5 DEF Listed, WorkerOK
  <2>7. Reported(y)
    BY <2>2, <2>5 DEF Reported
  <2>8. \A q \in Paths : q # p => y.files[q] = x.files[q] /\ y.reported[q] = x.reported[q]
    BY <1>2, <2>2, <2>3, <2>5
  <2>9. y.files[p] = c /\ y.reported[p] = c
    BY <1>2, <2>2, <2>3, <2>5
  <2> QED BY <1>2, <2>2, <2>4, <2>5, <2>6, <2>7, <2>8, <2>9 DEF Changed, WorkerOK, y
<1> QED BY <1>5, <1>6

LEMMA ApplyFacts ==
  ASSUME NEW x, WorkerOK(x), NEW op \in Ops, NEW big
  PROVE  Changed(x, Apply(x, op, big), op[1], op[2])
<1>1. op[1] \in Paths /\ op[2] \in Contents
  BY DEF Ops
<1>2. CASE op[2] = 0
  BY <1>1, <1>2, TakeFacts DEF Apply
<1>3. CASE op[2] # 0
  BY <1>1, <1>3, PutFacts DEF Apply
<1> QED BY <1>2, <1>3

\* What the operations of `ops` at the positions in D leave of x.
ChangedBy(x, y, ops, D) ==
  /\ WorkerOK(y) /\ y.pc = x.pc /\ y.start = x.start
  /\ x.refused \subseteq y.refused
  /\ Reported(x) => Reported(y)
  /\ \A q \in Paths :
       \/ q \in y.refused
       \/ (\A i \in D : ops[i][1] # q) /\ y.files[q] = x.files[q] /\ y.reported[q] = x.reported[q]
       \/ \E i \in D : ops[i][1] = q /\ y.files[q] = ops[i][2] /\ y.reported[q] = ops[i][2]

LEMMA ChangedByOneMore ==
  ASSUME NEW x, NEW y, NEW z, NEW ops \in Seq(Ops), NEW k \in 1..Len(ops),
         ChangedBy(x, y, ops, 1..(k - 1)), Changed(y, z, ops[k][1], ops[k][2])
  PROVE  ChangedBy(x, z, ops, 1..k)
<1> DEFINE p == ops[k][1]
           c == ops[k][2]
<1>1. k \in Nat /\ k - 1 \in Int /\ 1..k = 1..(k - 1) \cup {k}
  BY LenProperties
<1>2. \A q \in Paths :
       \/ q \in y.refused
       \/ (\A i \in 1..(k - 1) : ops[i][1] # q) /\ y.files[q] = x.files[q] /\ y.reported[q] = x.reported[q]
       \/ \E i \in 1..(k - 1) : ops[i][1] = q /\ y.files[q] = ops[i][2] /\ y.reported[q] = ops[i][2]
  BY DEF ChangedBy
<1>3. /\ y.refused \subseteq z.refused
      /\ \A q \in Paths : q # p => z.files[q] = y.files[q] /\ z.reported[q] = y.reported[q]
      /\ p \in z.refused \/ (z.files[p] = c /\ z.reported[p] = c)
  BY DEF Changed
<1>4. ASSUME NEW q \in Paths, q \notin z.refused
      PROVE  \/ (\A i \in 1..k : ops[i][1] # q) /\ z.files[q] = x.files[q] /\ z.reported[q] = x.reported[q]
             \/ \E i \in 1..k : ops[i][1] = q /\ z.files[q] = ops[i][2] /\ z.reported[q] = ops[i][2]
  <2>1. CASE q = p
    <3>1. k \in 1..k /\ ops[k][1] = q /\ z.files[q] = ops[k][2] /\ z.reported[q] = ops[k][2]
      BY <1>1, <1>3, <1>4, <2>1
    <3> QED BY <3>1
  <2>2. CASE q # p
    <3>1. z.files[q] = y.files[q] /\ z.reported[q] = y.reported[q] /\ q \notin y.refused
      BY <1>3, <1>4, <2>2
    <3>2. CASE (\A i \in 1..(k - 1) : ops[i][1] # q) /\ y.files[q] = x.files[q] /\ y.reported[q] = x.reported[q]
      <4>1. \A i \in 1..k : ops[i][1] # q
        BY <1>1, <2>2, <3>2
      <4> QED BY <3>1, <3>2, <4>1
    <3>3. CASE \E i \in 1..(k - 1) : ops[i][1] = q /\ y.files[q] = ops[i][2] /\ y.reported[q] = ops[i][2]
      <4>1. PICK i \in 1..(k - 1) : ops[i][1] = q /\ y.files[q] = ops[i][2] /\ y.reported[q] = ops[i][2]
        BY <3>3
      <4>2. i \in 1..k /\ ops[i][1] = q /\ z.files[q] = ops[i][2] /\ z.reported[q] = ops[i][2]
        BY <1>1, <3>1, <4>1
      <4> QED BY <4>2
    <3> QED BY <1>2, <3>1, <3>2, <3>3
  <2> QED BY <2>1, <2>2
<1>5. /\ WorkerOK(z) /\ z.pc = x.pc /\ z.start = x.start
      /\ x.refused \subseteq z.refused /\ (Reported(x) => Reported(z))
  BY DEF ChangedBy, Changed
<1> QED BY <1>4, <1>5 DEF ChangedBy

LEMMA AppliedChanges ==
  ASSUME NEW x, WorkerOK(x), NEW ops \in Seq(Ops), NEW big
  PROVE  ChangedBy(x, Applied(x, ops, big), ops, 1..Len(ops))
<1> DEFINE l == Len(ops)
<1>1. l \in Nat /\ \A k \in 1..l : ops[k] \in Ops
  BY LenProperties, ElementOfSeq
<1>2. PICK g : /\ g[0] = x
               /\ \A k \in 1..l : g[k] = Apply(g[k - 1], ops[k], big)
               /\ Applied(x, ops, big) = g[l]
  BY AppliedSteps
<1> DEFINE N == {k \in 0..l : ~ ChangedBy(x, g[k], ops, 1..k)}
<1>3. N = {}
  <2> SUFFICES ASSUME N # {} PROVE FALSE
    OBVIOUS
  <2>0. N \subseteq Nat
    OBVIOUS
  <2> HIDE DEF N
  <2>1. PICK m \in N : \A k \in N : m <= k
    BY <2>0, LeastNumber
  <2> USE DEF N
  <2> HIDE DEF l
  <2>2. CASE m = 0
    <3>1. 1..0 = {}
      OBVIOUS
    <3>2. ChangedBy(x, x, ops, {})
      BY DEF ChangedBy, WorkerOK, Workers
    <3> QED BY <1>2, <2>1, <2>2, <3>1, <3>2
  <2>3. CASE m # 0
    <3>1. m \in 1..l /\ m - 1 \in 0..l /\ ~ (m <= m - 1)
      BY <1>1, <2>3
    <3>2. ChangedBy(x, g[m - 1], ops, 1..(m - 1))
      BY <2>1, <3>1
    <3>3. WorkerOK(g[m - 1])
      BY <3>2 DEF ChangedBy
    <3>4. Changed(g[m - 1], g[m], ops[m][1], ops[m][2])
      BY <1>1, <1>2, <3>1, <3>3, ApplyFacts
    <3>5. ChangedBy(x, g[m], ops, 1..m)
      BY <3>1, <3>2, <3>4, ChangedByOneMore DEF l
    <3> QED BY <2>1, <3>5
  <2> QED BY <2>2, <2>3
<1>4. l \in 0..l
  BY <1>1
<1> QED BY <1>2, <1>3, <1>4

\* The same by the names of the operations.
LEMMA AppliedFacts ==
  ASSUME NEW x, WorkerOK(x), NEW ops \in Seq(Ops), NEW big
  PROVE  LET y == Applied(x, ops, big)
         IN /\ WorkerOK(y) /\ y.pc = x.pc /\ y.start = x.start
            /\ x.refused \subseteq y.refused
            /\ Reported(x) => Reported(y)
            /\ \A q \in Paths : q \in y.refused
                 \/ (q \notin Names(ops) /\ y.files[q] = x.files[q] /\ y.reported[q] = x.reported[q])
                 \/ \E op \in ToSet(ops) : op[1] = q /\ y.files[q] = op[2] /\ y.reported[q] = op[2]
<1> DEFINE y == Applied(x, ops, big)
<1>1. ChangedBy(x, y, ops, 1..Len(ops))
  BY AppliedChanges
<1>2. DOMAIN ops = 1..Len(ops)
  BY LenProperties
<1> HIDE DEF y
<1>3. ASSUME NEW q \in Paths, \A i \in 1..Len(ops) : ops[i][1] # q
      PROVE  q \notin Names(ops)
  BY <1>2, <1>3 DEF Names, ToSet
<1>4. ASSUME NEW q \in Paths, NEW i \in 1..Len(ops), ops[i][1] = q, y.files[q] = ops[i][2], y.reported[q] = ops[i][2]
      PROVE  \E op \in ToSet(ops) : op[1] = q /\ y.files[q] = op[2] /\ y.reported[q] = op[2]
  <2>1. ops[i] \in ToSet(ops)
    BY <1>2 DEF ToSet
  <2> QED BY <1>4, <2>1
<1>5. ASSUME NEW q \in Paths
      PROVE  \/ q \in y.refused
             \/ (q \notin Names(ops) /\ y.files[q] = x.files[q] /\ y.reported[q] = x.reported[q])
             \/ \E op \in ToSet(ops) : op[1] = q /\ y.files[q] = op[2] /\ y.reported[q] = op[2]
  <2>1. \/ q \in y.refused
        \/ (\A i \in 1..Len(ops) : ops[i][1] # q) /\ y.files[q] = x.files[q] /\ y.reported[q] = x.reported[q]
        \/ \E i \in 1..Len(ops) : ops[i][1] = q /\ y.files[q] = ops[i][2] /\ y.reported[q] = ops[i][2]
    BY <1>1 DEF ChangedBy
  <2> QED BY <1>3, <1>4, <2>1
<1>6. /\ WorkerOK(y) /\ y.pc = x.pc /\ y.start = x.start
      /\ x.refused \subseteq y.refused /\ (Reported(x) => Reported(y))
  BY <1>1 DEF ChangedBy
<1> QED BY <1>5, <1>6 DEF y

---------------------------------------------------------------------------
(* Reports. *)

\* Every file there may be is reported.
AllReported == MaxReported >= Cardinality(Paths)

LEMMA ListingFacts ==
  ASSUME AllReported, NEW x, WorkerOK(x)
  PROVE  Listing(x) = {p \in Paths : x.files[p] # 0}
<1>1. x.order \in Seq(Paths) /\ IsInjective(x.order) /\ ToSet(x.order) = {p \in Paths : x.files[p] # 0}
  BY DEF WorkerOK, Listed, Workers
<1> DEFINE l == Len(x.order)
<1>2. l \in Nat /\ x.order \in [1..l -> Paths]
  BY <1>1, LenProperties
<1>3. IsFiniteSet(Paths)
  <2>1. IsFiniteSet({"a"}) /\ IsFiniteSet({"a"} \cup {"b"}) /\ IsFiniteSet(({"a"} \cup {"b"}) \cup {"a/b"})
    BY FS_Singleton, FS_AddElement
  <2>2. Paths = ({"a"} \cup {"b"}) \cup {"a/b"}
    BY PathsAre
  <2> QED BY <2>1, <2>2
<1>4. Cardinality(1..l) = l
  <2>1. 1 \in Int /\ l \in Int
    BY <1>2
  <2>2. Cardinality(1..l) = IF 1 > l THEN 0 ELSE l - 1 + 1
    BY <2>1, FS_Interval
  <2> HIDE DEF l
  <2> QED BY <1>2, <2>2
<1>5. x.order \in Injection(1..l, Paths)
  BY <1>1, <1>2 DEF Injection
<1>6. Cardinality(1..l) <= Cardinality(Paths)
  BY <1>3, <1>5, FS_Injection
<1>7. MaxReported \in Nat /\ Cardinality(Paths) \in Nat
  BY <1>3, FS_CardinalityType, BoundsAssumption
<1> HIDE DEF l
<1>8. l <= MaxReported
  BY <1>2, <1>4, <1>6, <1>7 DEF AllReported
<1> QED BY <1>1, <1>8 DEF Listing, l

Says(x, said) ==
  IF said = <<>> THEN \A p \in Paths : x.reported[p] = x.files[p] /\ p \notin x.refused
  ELSE \E m \in Files :
         /\ said = <<m>>
         /\ \A p \in Paths : IF p \in DOMAIN m.what THEN m.what[p] = x.files[p]
                             ELSE x.reported[p] = x.files[p] /\ p \notin x.refused

LEMMA ReportFacts ==
  ASSUME AllReported, NEW x, WorkerOK(x), Reported(x)
  PROVE  /\ WorkerOK(Report(x).w) /\ Report(x).w.pc = x.pc /\ Report(x).w.start = x.start
         /\ Report(x).w.files = x.files /\ Report(x).w.reported = x.files
         /\ ~Report(x).w.news /\ Report(x).w.refused = {}
         /\ Says(x, Report(x).said)
<1>1. x \in Workers /\ Listed(x) /\ x.files \in [Paths -> Contents] /\ x.reported \in [Paths -> Contents]
      /\ x.refused \in SUBSET Paths
  BY DEF WorkerOK, Workers
<1>2. Listing(x) = {p \in Paths : x.files[p] # 0}
  BY ListingFacts
<1> DEFINE now == Listing(x)
           told == {p \in now : x.reported[p] # x.files[p]} \cup {p \in Paths \ now : x.reported[p] # 0} \cup x.refused
           what == [p \in told |-> IF p \in now THEN x.files[p] ELSE 0]
           y == [x EXCEPT !.reported = [p \in Paths |-> IF p \in now THEN x.files[p] ELSE 0], !.refused = {}, !.news = FALSE]
           said == IF told = {} THEN <<>> ELSE <<[type |-> "files", what |-> what]>>
<1>3. Report(x) = IF ~x.news /\ x.refused = {} THEN [w |-> x, said |-> <<>>] ELSE [w |-> y, said |-> said]
  BY DEF Report
<1>4. CASE ~x.news /\ x.refused = {}
  <2>1. x.reported = x.files
    BY <1>4 DEF Reported
  <2>2. Report(x).w = x /\ Report(x).said = <<>>
    BY <1>3, <1>4
  <2>3. Says(x, <<>>)
    BY <1>4, <2>1 DEF Says
  <2> QED BY <1>4, <2>1, <2>2, <2>3
<1>5. CASE ~ (~x.news /\ x.refused = {})
  <2>1. Report(x).w = y /\ Report(x).said = said
    BY <1>3, <1>5
  <2>2. [p \in Paths |-> IF p \in now THEN x.files[p] ELSE 0] = x.files
    BY <1>1, <1>2
  <2>3. y = [x EXCEPT !.reported = x.files, !.refused = {}, !.news = FALSE]
    BY <2>2
  <2>4. told \subseteq Paths /\ \A p \in Paths : p \notin told => x.reported[p] = x.files[p] /\ p \notin x.refused
    BY <1>1, <1>2
  <2>5. \A p \in told : what[p] = x.files[p] /\ x.files[p] \in Contents
    BY <1>1, <1>2, <2>4
  <2>6. DOMAIN what = told
    OBVIOUS
  <2> HIDE DEF y, what, told
  <2>7. /\ y \in Workers /\ y.files = x.files /\ y.order = x.order /\ y.reported = x.files
        /\ ~y.news /\ y.refused = {} /\ y.pc = x.pc /\ y.start = x.start
    BY <1>1, <2>3 DEF Workers
  <2>8. WorkerOK(y)
    BY <1>1, <2>7 DEF WorkerOK, Listed
  <2>9. Says(x, said)
    <3>1. CASE told = {}
      BY <2>4, <3>1 DEF Says
    <3>2. CASE told # {}
      <4> DEFINE m == [type |-> "files", what |-> what]
      <4>1. what \in [told -> Contents]
        BY <2>5 DEF what
      <4>2. m \in Files
        BY <2>4, <4>1 DEF Files
      <4>3. m.what = what
        OBVIOUS
      <4>4. said = <<m>> /\ said # <<>>
        BY <3>2
      <4>5. \A p \in Paths : IF p \in DOMAIN m.what THEN m.what[p] = x.files[p]
                             ELSE x.reported[p] = x.files[p] /\ p \notin x.refused
        BY <2>4, <2>5, <2>6, <4>3
      <4> HIDE DEF m, said
      <4> QED BY <4>2, <4>4, <4>5 DEF Says
    <3> QED BY <3>1, <3>2
  <2> QED BY <2>1, <2>7, <2>8, <2>9
<1> QED BY <1>4, <1>5

---------------------------------------------------------------------------
(* What the page does. *)

LEMMA HeardSame ==
  ASSUME NEW g, NEW h, NEW ms, NEW x, NEW y, NEW p,
         p \in Names(h.inFlight) <=> p \in Names(g.inFlight),
         h.folder[p] = g.folder[p], y.reported[p] = x.reported[p], HeardOf(g, ms, x, p)
  PROVE  HeardOf(h, ms, y, p)
<1>1. \A i : Tells(h, ms, p, i) <=> Tells(g, ms, p, i)
  BY DEF Tells
<1> QED BY <1>1 DEF HeardOf

LEMMA NamesEmpty == Names(<<>>) = {} /\ ToSet(<<>>) = {}
<1>1. DOMAIN <<>> = {}
  OBVIOUS
<1> QED BY <1>1 DEF Names, ToSet

LEMMA SendAgrees ==
  ASSUME NEW g, NEW ms, NEW x, Agree(g, mail, ms, x), SendFiles(g)
  PROVE  Agree(page', mail', ms, x)
<1>1. CASE ~g.started \/ g.inFlight # <<>> \/ mail # <<>>
  <2>1. page' = g /\ mail' = mail
    BY <1>1 DEF SendFiles
  <2> QED BY <2>1
<1>2. CASE ~ (~g.started \/ g.inFlight # <<>> \/ mail # <<>>)
  <2> DEFINE l == Len(g.queued)
             n == IF l < Batch THEN l ELSE Batch
             batch == SubSeq(g.queued, 1, n)
             rest == SubSeq(g.queued, n + 1, l)
  <2>1. g \in Pages /\ Apart(g.queued) /\ ms \in Seq(Messages) /\ WorkerOK(x) /\ g.queued \in Seq(Ops)
    BY DEF Agree, Typed, Pages
  <2>2. l \in Nat /\ Batch \in Nat /\ n \in Nat /\ n <= l /\ n <= Batch
    BY <2>1, LenProperties, BoundsAssumption
  <2> HIDE DEF n
  <2>3. /\ batch \in Seq(Ops) /\ Len(batch) = n /\ rest \in Seq(Ops)
        /\ ToSet(g.queued) = ToSet(batch) \cup ToSet(rest) /\ Apart(rest)
    BY <2>1, <2>2, SplitQueue
  <2>4. mail' = batch /\ page' = [g EXCEPT !.inFlight = batch, !.queued = SubSeq(g.queued, Len(batch) + 1, l)]
    BY <1>2 DEF SendFiles, n
  <2>5. page' = [g EXCEPT !.inFlight = batch, !.queued = rest]
    BY <2>3, <2>4
  <2> HIDE DEF batch, rest, l
  <2>6. /\ page' \in Pages /\ page'.folder = g.folder /\ page'.queued = rest
        /\ page'.inFlight = batch /\ page'.started = g.started
    BY <2>1, <2>3, <2>5 DEF Pages
  <2>7. Names(g.queued) = Names(batch) \cup Names(rest)
    BY <2>3 DEF Names
  <2>8. Typed(page', mail', ms, x)
    BY <2>1, <2>2, <2>3, <2>4, <2>6 DEF Typed
  <2>9. Shown(page')
    <3> SUFFICES ASSUME NEW op \in ToSet(rest) \cup ToSet(batch)
                 PROVE  g.folder[op[1]] = op[2]
      BY <2>6 DEF Shown
    <3> QED BY <2>3 DEF Agree, Shown
  <2>10. Delivered(page', mail', ms)
    BY <1>2, <2>4, <2>6 DEF Agree, Delivered
  <2>11. Starts(page', mail', ms, x)
    <3>1. Unsettled(page') = Unsettled(g)
      BY <1>2, <2>6, <2>7, NamesEmpty DEF Unsettled
    <3> QED BY <1>2, <2>6, <3>1 DEF Agree, Starts
  <2>12. Heard(page', mail', ms, x)
    <3> SUFFICES ASSUME x.pc \in {"running", "parked", "exited"}, NEW p \in Paths,
                        p \notin Names(rest) \cup Names(batch) \cup x.refused
                 PROVE  HeardOf(page', ms, x, p)
      BY <2>4, <2>6 DEF Heard
    <3>1. HeardOf(g, ms, x, p)
      BY <1>2, <2>7, NamesEmpty DEF Agree, Heard
    <3>2. p \in Names(page'.inFlight) <=> p \in Names(g.inFlight)
      BY <1>2, <2>6, NamesEmpty
    <3> QED BY <2>6, <3>1, <3>2, HeardSame
  <2> QED BY <2>8, <2>9, <2>10, <2>11, <2>12 DEF Agree
<1> QED BY <1>1, <1>2

\* The page after it was told of p: it is queued if it may be spoken of (Say).
Told(g, p, c) ==
  LET told == [g EXCEPT !.folder = [g.folder EXCEPT ![p] = c]]
  IN IF g.started THEN [told EXCEPT !.queued = Append(WithoutOp(g.queued, p), <<p, c>>)] ELSE told

LEMMA TellAgrees ==
  ASSUME NEW g, NEW box, NEW ms, NEW x, Agree(g, box, ms, x), NEW p \in Paths, NEW c \in Contents
  PROVE  Agree(Told(g, p, c), box, ms, x)
<1> DEFINE folder == [g.folder EXCEPT ![p] = c]
           others == WithoutOp(g.queued, p)
           queued == IF g.started THEN Append(others, <<p, c>>) ELSE g.queued
           h == Told(g, p, c)
<1> HIDE DEF h
<1>1. /\ g \in Pages /\ Apart(g.queued) /\ g.queued \in Seq(Ops) /\ g.folder \in [Paths -> Contents]
  BY DEF Agree, Typed, Pages
<1>2. others \in Seq(Ops) /\ Apart(others) /\ ToSet(others) = {op \in ToSet(g.queued) : op[1] # p}
  BY <1>1, WithoutOpFacts
<1>3. folder \in [Paths -> Contents] /\ \A q \in Paths : folder[q] = IF q = p THEN c ELSE g.folder[q]
  BY <1>1
<1> HIDE DEF folder, others
<1>4. <<p, c>> \in Ops
  BY DEF Ops
<1>5. g.started => /\ queued \in Seq(Ops) /\ Apart(queued)
                   /\ ToSet(queued) = {op \in ToSet(g.queued) : op[1] # p} \cup {<<p, c>>}
  <2>1. Append(others, <<p, c>>) \in Seq(Ops) /\ ToSet(Append(others, <<p, c>>)) = ToSet(others) \cup {<<p, c>>}
    BY <1>2, <1>4, AppendProperties, ToSetAppend
  <2>2. \A op \in ToSet(others) : op[1] # <<p, c>>[1]
    BY <1>2
  <2>3. Apart(Append(others, <<p, c>>))
    BY <1>2, <1>4, <2>2, AppendApart
  <2> QED BY <1>2, <2>1, <2>3
<1>6. ~g.started => queued = g.queued
  OBVIOUS
<1>7. g.started \in BOOLEAN
  BY <1>1 DEF Pages
<1> HIDE DEF queued
<1>8. h = [g EXCEPT !.folder = folder, !.queued = queued]
  BY <1>1 DEF Pages, folder, queued, others, h, Told
<1>9. queued \in Seq(Ops) /\ Apart(queued)
  BY <1>1, <1>5, <1>6, <1>7
<1>10. /\ h \in Pages /\ h.folder = folder /\ h.queued = queued /\ h.inFlight = g.inFlight /\ h.started = g.started
  BY <1>1, <1>3, <1>8, <1>9 DEF Pages
<1>11. Typed(h, box, ms, x)
  BY <1>9, <1>10 DEF Agree, Typed
<1>12. Names(queued) = IF g.started THEN Names(g.queued) \cup {p} ELSE Names(g.queued)
  <2>1. CASE g.started
    <3>1. \A op \in ToSet(queued) : op[1] \in Names(g.queued) \cup {p}
      BY <1>5, <2>1 DEF Names
    <3>2. \A op \in ToSet(g.queued) : op[1] # p => op \in ToSet(queued)
      BY <1>5, <2>1
    <3>3. <<p, c>> \in ToSet(queued) /\ <<p, c>>[1] = p
      BY <1>5, <2>1
    <3>4. Names(queued) \subseteq Names(g.queued) \cup {p}
      BY <3>1 DEF Names
    <3>5. p \in Names(queued)
      BY <3>3 DEF Names
    <3>6. \A op \in ToSet(g.queued) : op[1] \in Names(queued)
      BY <3>2, <3>5 DEF Names
    <3>7. Names(g.queued) \subseteq Names(queued)
      BY <3>6 DEF Names
    <3> QED BY <2>1, <3>4, <3>5, <3>7
  <2> QED BY <1>6, <2>1
<1>13. ~g.started => g.queued = <<>> /\ g.inFlight = <<>> /\ box = <<>>
  BY DEF Agree, Starts
<1>14. Shown(h)
  <2>1. CASE g.started
    <3> SUFFICES ASSUME NEW op \in ToSet(queued) \cup ToSet(g.inFlight),
                        op[1] \notin Names(queued) \/ op \in ToSet(queued)
                 PROVE  folder[op[1]] = op[2]
      BY <1>10 DEF Shown
    <3>1. CASE op = <<p, c>>
      BY <1>3, <3>1
    <3>2. CASE op # <<p, c>>
      <4>1. op[1] # p /\ (op \in ToSet(g.queued) \/ (op \in ToSet(g.inFlight) /\ op[1] \notin Names(g.queued)))
        BY <1>5, <1>12, <2>1, <3>2
      <4>2. g.folder[op[1]] = op[2]
        BY <4>1 DEF Agree, Shown
      <4>3. op[1] \in Paths
        <5>1. \A s \in Seq(Ops) : \A o \in ToSet(s) : o[1] \in Paths
          BY LenProperties, ElementOfSeq DEF ToSet, Ops
        <5> QED BY <1>1, <4>1, <5>1 DEF Pages
      <4> QED BY <1>3, <4>1, <4>2, <4>3
    <3> QED BY <3>1, <3>2
  <2>2. CASE ~g.started
    BY <1>6, <1>10, <1>13, <2>2, NamesEmpty DEF Shown
  <2> QED BY <2>1, <2>2
<1>15. Delivered(h, box, ms)
  BY <1>10 DEF Agree, Delivered
<1>16. Starts(h, box, ms, x)
  <2>1. ~h.started => h.queued = <<>> /\ h.inFlight = <<>> /\ box = <<>>
    BY <1>6, <1>10, <1>13
  <2>2. ASSUME x.pc = "starting", NEW q \in Paths, q \notin Unsettled(h)
        PROVE  h.folder[q] = x.start[q]
    <3>1. g.started
      BY <2>2 DEF Agree, Starts
    <3>2. q # p /\ q \notin Unsettled(g)
      <4>1. Unsettled(h) = (Names(g.queued) \cup {p}) \cup Names(g.inFlight)
        BY <1>10, <1>12, <3>1 DEF Unsettled
      <4> QED BY <2>2, <4>1 DEF Unsettled
    <3>3. g.folder[q] = x.start[q]
      BY <2>2, <3>2 DEF Agree, Starts
    <3> QED BY <1>3, <1>10, <3>2, <3>3
  <2> QED BY <1>10, <2>1, <2>2 DEF Agree, Starts
<1>17. Heard(h, box, ms, x)
  <2> SUFFICES ASSUME x.pc \in {"running", "parked", "exited"}, NEW q \in Paths,
                      q \notin Names(queued) \cup Names(box) \cup x.refused
               PROVE  HeardOf(h, ms, x, q)
    BY <1>10 DEF Heard
  <2>1. g.started
    BY DEF Agree, Starts
  <2>2. q # p /\ q \notin Names(g.queued)
    BY <1>12, <2>1
  <2>3. HeardOf(g, ms, x, q)
    BY <2>2 DEF Agree, Heard
  <2>4. h.folder[q] = g.folder[q]
    BY <1>3, <1>10, <2>2
  <2> QED BY <1>10, <2>3, <2>4, HeardSame
<1> QED BY <1>11, <1>14, <1>15, <1>16, <1>17 DEF Agree, h

\* A message is heard: the page takes over what it says, unless it is to be left out.
LEMMA HeardShifts ==
  ASSUME NEW g, NEW h, NEW ms \in Seq(Messages), ms # <<>>, NEW x, NEW p, HeardOf(g, ms, x, p),
         \A i \in 1..(Len(ms) - 1) : Tells(h, Tail(ms), p, i) <=> Tells(g, ms, p, i + 1),
         h.folder[p] = IF Tells(g, ms, p, 1) THEN ms[1].what[p] ELSE g.folder[p]
  PROVE  HeardOf(h, Tail(ms), x, p)
<1> DEFINE t == Tail(ms)
           l == Len(ms)
<1>1. l \in Nat /\ l # 0
  BY LenProperties, EmptySeq
<1>2. Len(t) = l - 1 /\ \A i \in 1..(l - 1) : t[i] = ms[i + 1]
  BY HeadTailProperties
<1>3. \A i \in 1..(l - 1) : Tells(h, t, p, i) <=> Tells(g, ms, p, i + 1)
  OBVIOUS
<1>4. /\ (\A i \in 1..l : ~Tells(g, ms, p, i)) => g.folder[p] = x.reported[p]
      /\ \A i \in 1..l :
           Tells(g, ms, p, i) /\ (\A j \in 1..l : j > i => ~Tells(g, ms, p, j)) => ms[i].what[p] = x.reported[p]
  BY DEF HeardOf
<1> HIDE DEF t, l
<1>5. ASSUME NEW i \in 1..l, i # 1
      PROVE  i - 1 \in 1..(l - 1) /\ (i - 1) + 1 = i
  BY <1>1, <1>5
<1>6. ASSUME \A i \in 1..(l - 1) : ~Tells(h, t, p, i)
      PROVE  h.folder[p] = x.reported[p]
  <2>1. \A i \in 1..l : i # 1 => ~Tells(g, ms, p, i)
    BY <1>3, <1>5, <1>6
  <2>2. CASE Tells(g, ms, p, 1)
    <3>1. 1 \in 1..l /\ \A j \in 1..l : j > 1 => ~Tells(g, ms, p, j)
      BY <1>1, <2>1
    <3>2. ms[1].what[p] = x.reported[p]
      BY <1>4, <2>2, <3>1
    <3> QED BY <2>2, <3>2
  <2>3. CASE ~Tells(g, ms, p, 1)
    BY <1>4, <2>1, <2>3
  <2> QED BY <2>2, <2>3
<1>7. ASSUME NEW i \in 1..(l - 1), Tells(h, t, p, i), \A j \in 1..(l - 1) : j > i => ~Tells(h, t, p, j)
      PROVE  t[i].what[p] = x.reported[p]
  <2>1. i + 1 \in 1..l /\ Tells(g, ms, p, i + 1)
    BY <1>1, <1>3, <1>7
  <2>2. ASSUME NEW j \in 1..l, j > i + 1
        PROVE  ~Tells(g, ms, p, j)
    <3>1. j # 1 /\ j - 1 > i
      BY <1>1, <2>2
    <3> QED BY <1>3, <1>5, <1>7, <3>1
  <2>3. ms[i + 1].what[p] = x.reported[p]
    BY <1>4, <2>1, <2>2
  <2> QED BY <1>2, <2>3
<1> QED BY <1>2, <1>6, <1>7 DEF HeardOf, t

\* The messages left after the first.
LEMMA TailDelivered ==
  ASSUME NEW g, NEW box, NEW ms \in Seq(Messages), ms # <<>>, Delivered(g, box, ms)
  PROVE  /\ Head(ms).type # "filesTaken" => Delivered(g, box, Tail(ms))
         /\ Head(ms).type = "filesTaken" =>
              /\ box = <<>>
              /\ \A i \in 1..Len(Tail(ms)) : Tail(ms)[i].type # "filesTaken"
<1> DEFINE t == Tail(ms)
           l == Len(ms)
<1>1. l \in Nat /\ l # 0
  BY LenProperties, EmptySeq
<1>2. Len(t) = l - 1 /\ (\A i \in 1..(l - 1) : t[i] = ms[i + 1]) /\ Head(ms) = ms[1]
  BY HeadTailProperties
<1>3. /\ box # <<>> => g.inFlight = box
      /\ (box # <<>> \/ g.inFlight = <<>>) => \A i \in 1..l : ms[i].type # "filesTaken"
      /\ (box = <<>> /\ g.inFlight # <<>>) => \E i \in 1..l : ms[i].type = "filesTaken"
      /\ \A i, j \in 1..l : ms[i].type = "filesTaken" /\ ms[j].type = "filesTaken" => i = j
  BY DEF Delivered
<1> HIDE DEF t, l
<1>4. ASSUME NEW i \in 1..(l - 1)
      PROVE  i + 1 \in 1..l /\ i + 1 # 1 /\ t[i] = ms[i + 1]
  BY <1>1, <1>2
<1>5. 1 \in 1..l
  BY <1>1
<1>6. ASSUME ms[1].type # "filesTaken"
      PROVE  Delivered(g, box, t)
  <2>1. (box # <<>> \/ g.inFlight = <<>>) => \A i \in 1..(l - 1) : t[i].type # "filesTaken"
    BY <1>3, <1>4
  <2>2. ASSUME box = <<>>, g.inFlight # <<>>
        PROVE  \E i \in 1..(l - 1) : t[i].type = "filesTaken"
    <3>1. PICK i \in 1..l : ms[i].type = "filesTaken"
      BY <1>3, <2>2
    <3>2. i - 1 \in 1..(l - 1) /\ (i - 1) + 1 = i
      BY <1>1, <1>6, <3>1
    <3>3. t[i - 1] = ms[i]
      BY <1>2, <3>2
    <3> QED BY <3>1, <3>2, <3>3
  <2>3. ASSUME NEW i \in 1..(l - 1), NEW j \in 1..(l - 1), t[i].type = "filesTaken", t[j].type = "filesTaken"
        PROVE  i = j
    <3>1. i + 1 = j + 1
      BY <1>3, <1>4, <2>3
    <3> QED BY <3>1
  <2> QED BY <1>2, <1>3, <2>1, <2>2, <2>3 DEF Delivered
<1>7. ASSUME ms[1].type = "filesTaken"
      PROVE  box = <<>> /\ \A i \in 1..(l - 1) : t[i].type # "filesTaken"
  BY <1>3, <1>4, <1>5, <1>7
<1> QED BY <1>2, <1>6, <1>7 DEF t

LEMMA FilesAgree ==
  ASSUME NEW g, NEW box, NEW ms, NEW x, Agree(g, box, ms, x), ms # <<>>, Head(ms).type # "filesTaken", NEW h,
         h = IF Head(ms).type # "files" THEN g
             ELSE [g EXCEPT !.folder = [p \in Paths |->
                    IF p \in DOMAIN Head(ms).what /\ p \notin Unsettled(g) THEN Head(ms).what[p] ELSE g.folder[p]]]
  PROVE  Agree(h, box, Tail(ms), x)
<1> DEFINE m == Head(ms)
           t == Tail(ms)
           l == Len(ms)
           folder == IF m.type # "files" THEN g.folder
                     ELSE [p \in Paths |-> IF p \in DOMAIN m.what /\ p \notin Unsettled(g) THEN m.what[p] ELSE g.folder[p]]
<1>1. g \in Pages /\ Apart(g.queued) /\ ms \in Seq(Messages) /\ g.folder \in [Paths -> Contents]
  BY DEF Agree, Typed, Pages
<1>2. /\ l \in Nat /\ l # 0 /\ m = ms[1] /\ m \in Messages
      /\ t \in Seq(Messages) /\ Len(t) = l - 1 /\ \A i \in 1..(l - 1) : t[i] = ms[i + 1]
  BY <1>1, LenProperties, EmptySeq, HeadTailProperties
<1>3. m.type = "files" => m \in Files
  BY <1>2 DEF Messages, Taken, Exited
<1>4. m.type = "files" => \A p \in DOMAIN m.what : m.what[p] \in Contents
  BY <1>3 DEF Files
<1> HIDE DEF m, t, l
<1>5. folder \in [Paths -> Contents]
  BY <1>1, <1>4
<1>6. /\ m.type = "files" => \A p \in Paths :
           folder[p] = IF p \in DOMAIN m.what /\ p \notin Unsettled(g) THEN m.what[p] ELSE g.folder[p]
      /\ m.type # "files" => folder = g.folder
  OBVIOUS
<1> HIDE DEF folder
<1>7. h = [g EXCEPT !.folder = folder]
  <2>1. CASE m.type = "files"
    BY <2>1 DEF folder, m
  <2>2. CASE m.type # "files"
    <3>1. h = g /\ folder = g.folder
      BY <2>2 DEF folder, m
    <3> QED BY <1>1, <3>1 DEF Pages
  <2> QED BY <2>1, <2>2
<1>8. /\ h \in Pages /\ h.folder = folder /\ h.queued = g.queued /\ h.inFlight = g.inFlight /\ h.started = g.started
  BY <1>1, <1>5, <1>7 DEF Pages
<1>9. Typed(h, box, t, x)
  BY <1>1, <1>2, <1>8 DEF Agree, Typed
<1>10. x.pc \notin {"loading", "starting"}
  BY DEF Agree, Starts
<1>11. \A q \in Unsettled(g) : q \in Paths => folder[q] = g.folder[q]
  BY <1>6
<1>12. Shown(h)
  <2> SUFFICES ASSUME NEW op \in ToSet(g.queued) \cup ToSet(g.inFlight),
                      op[1] \notin Names(g.queued) \/ op \in ToSet(g.queued)
               PROVE  folder[op[1]] = op[2]
    BY <1>8 DEF Shown
  <2>1. g.folder[op[1]] = op[2]
    BY DEF Agree, Shown
  <2>2. op[1] \in Unsettled(g)
    BY DEF Unsettled, Names
  <2>3. op[1] \in Paths
    <3>1. \A s \in Seq(Ops) : \A o \in ToSet(s) : o[1] \in Paths
      BY LenProperties, ElementOfSeq DEF ToSet, Ops
    <3> QED BY <1>1, <3>1 DEF Pages
  <2> QED BY <1>11, <2>1, <2>2, <2>3
<1>13. Delivered(h, box, t)
  <2>1. Delivered(g, box, t)
    BY <1>1, TailDelivered DEF Agree, t
  <2> QED BY <1>8, <2>1 DEF Delivered
<1>14. Starts(h, box, t, x)
  BY <1>8, <1>10 DEF Agree, Starts
<1>15. Heard(h, box, t, x)
  <2> SUFFICES ASSUME NEW p \in Paths, p \notin Names(g.queued) \cup Names(box) \cup x.refused
               PROVE  HeardOf(h, t, x, p)
    BY <1>8 DEF Heard
  <2>1. HeardOf(g, ms, x, p)
    <3>1. x.pc \in {"running", "parked", "exited"}
      BY <1>10 DEF Agree, Typed, WorkerOK, Workers
    <3> QED BY <3>1 DEF Agree, Heard
  <2>2. ASSUME NEW i \in 1..(l - 1)
        PROVE  Tells(h, t, p, i) <=> Tells(g, ms, p, i + 1)
    <3>1. t[i] = ms[i + 1]
      BY <1>2
    <3>2. (\E j \in 1..(i - 1) : t[j].type = "filesTaken") <=> (\E j \in 1..((i + 1) - 1) : ms[j].type = "filesTaken")
      <4>1. ASSUME NEW j \in 1..(i - 1)
            PROVE  j + 1 \in 1..((i + 1) - 1) /\ t[j] = ms[j + 1]
        BY <1>2
      <4>2. ASSUME NEW j \in 1..((i + 1) - 1), ms[j].type = "filesTaken"
            PROVE  j - 1 \in 1..(i - 1) /\ t[j - 1] = ms[j]
        <5>1. j # 1
          BY <1>2, <4>2 DEF m
        <5>2. j - 1 \in 1..(i - 1) /\ j - 1 \in 1..(l - 1) /\ (j - 1) + 1 = j
          BY <1>2, <5>1
        <5> QED BY <1>2, <5>2
      <4> QED BY <4>1, <4>2
    <3> QED BY <1>8, <3>1, <3>2 DEF Tells
  <2>3. h.folder[p] = IF Tells(g, ms, p, 1) THEN ms[1].what[p] ELSE g.folder[p]
    <3>1. ~ \E j \in 1..(1 - 1) : ms[j].type = "filesTaken"
      OBVIOUS
    <3>2. Tells(g, ms, p, 1) <=> (m.type = "files" /\ p \in DOMAIN m.what /\ p \notin Names(g.inFlight))
      BY <1>2, <3>1 DEF Tells
    <3>3. p \in Unsettled(g) <=> p \in Names(g.inFlight)
      BY DEF Unsettled
    <3> QED BY <1>2, <1>6, <1>8, <3>2, <3>3
  <2> QED BY <1>1, <2>1, <2>2, <2>3, HeardShifts DEF t, l
<1> QED BY <1>9, <1>12, <1>13, <1>14, <1>15 DEF Agree, t

LEMMA TakenAgrees ==
  ASSUME NEW g, NEW box, NEW ms, NEW x, Agree(g, box, ms, x), ms # <<>>, Head(ms).type = "filesTaken"
  PROVE  Agree([g EXCEPT !.inFlight = <<>>], box, Tail(ms), x)
<1> DEFINE t == Tail(ms)
           l == Len(ms)
           h == [g EXCEPT !.inFlight = <<>>]
<1>1. g \in Pages /\ Apart(g.queued) /\ ms \in Seq(Messages)
  BY DEF Agree, Typed
<1>2. /\ l \in Nat /\ l # 0 /\ ms[1].type = "filesTaken"
      /\ t \in Seq(Messages) /\ Len(t) = l - 1 /\ \A i \in 1..(l - 1) : t[i] = ms[i + 1]
  BY <1>1, LenProperties, EmptySeq, HeadTailProperties
<1>3. box = <<>> /\ \A i \in 1..Len(t) : t[i].type # "filesTaken"
  <2>1. Delivered(g, box, ms)
    BY DEF Agree
  <2> QED BY <1>1, <2>1, TailDelivered
<1> HIDE DEF t, l
<1>4. /\ h \in Pages /\ h.folder = g.folder /\ h.queued = g.queued /\ h.inFlight = <<>> /\ h.started = g.started
  BY <1>1, EmptySeq DEF Pages
<1> HIDE DEF h
<1>5. Typed(h, box, t, x)
  BY <1>1, <1>2, <1>4 DEF Agree, Typed
<1>6. x.pc \in {"running", "parked", "exited"}
  BY DEF Agree, Starts, Typed, WorkerOK, Workers
<1>7. Shown(h)
  BY <1>4, NamesEmpty DEF Agree, Shown
<1>8. Delivered(h, box, t)
  BY <1>2, <1>3, <1>4 DEF Delivered
<1>9. Starts(h, box, t, x)
  BY <1>4, <1>6 DEF Agree, Starts
<1>10. Heard(h, box, t, x)
  <2> SUFFICES ASSUME NEW p \in Paths, p \notin Names(g.queued) \cup Names(box) \cup x.refused
               PROVE  HeardOf(h, t, x, p)
    BY <1>4 DEF Heard
  <2>1. HeardOf(g, ms, x, p)
    BY <1>6 DEF Agree, Heard
  <2>2. ASSUME NEW i \in 1..(l - 1)
        PROVE  Tells(h, t, p, i) <=> Tells(g, ms, p, i + 1)
    <3>1. t[i] = ms[i + 1] /\ 1 \in 1..((i + 1) - 1)
      BY <1>2
    <3>2. p \notin Names(h.inFlight)
      BY <1>4, NamesEmpty
    <3> QED BY <1>2, <3>1, <3>2 DEF Tells
  <2>3. ~Tells(g, ms, p, 1)
    BY <1>2 DEF Tells
  <2> QED BY <1>1, <1>4, <2>1, <2>2, <2>3, HeardShifts DEF t, l
<1> QED BY <1>5, <1>7, <1>8, <1>9, <1>10 DEF Agree, h, t


---------------------------------------------------------------------------
(* What the worker does. *)

LEMMA AppendIs ==
  ASSUME NEW ms \in Seq(Messages), NEW m \in Messages
  PROVE  /\ Append(ms, m) \in Seq(Messages) /\ Len(ms) \in Nat /\ Len(Append(ms, m)) = Len(ms) + 1
         /\ \A i \in 1..Len(ms) : Append(ms, m)[i] = ms[i]
         /\ Append(ms, m)[Len(ms) + 1] = m
         /\ 1..(Len(ms) + 1) = 1..Len(ms) \cup {Len(ms) + 1}
<1>1. Len(ms) \in Nat
  BY LenProperties
<1> QED BY <1>1, AppendProperties

LEMMA TellsAppend ==
  ASSUME NEW g, NEW ms \in Seq(Messages), NEW m \in Messages, NEW p
  PROVE  /\ \A i \in 1..Len(ms) : Tells(g, Append(ms, m), p, i) <=> Tells(g, ms, p, i)
         /\ Tells(g, Append(ms, m), p, Len(ms) + 1) <=>
              /\ m.type = "files" /\ p \in DOMAIN m.what
              /\ p \in Names(g.inFlight) => \E j \in 1..Len(ms) : ms[j].type = "filesTaken"
<1> DEFINE t == Append(ms, m)
           l == Len(ms)
<1>1. l \in Nat /\ (\A i \in 1..l : t[i] = ms[i]) /\ t[l + 1] = m
  BY AppendIs
<1> HIDE DEF t, l
<1>2. ASSUME NEW i \in 1..l
      PROVE  Tells(g, t, p, i) <=> Tells(g, ms, p, i)
  <2>1. \A j \in 1..(i - 1) : t[j] = ms[j]
    BY <1>1
  <2> QED BY <1>1, <2>1 DEF Tells
<1>3. (l + 1) - 1 = l
  BY <1>1
<1>4. Tells(g, t, p, l + 1) <=>
        /\ m.type = "files" /\ p \in DOMAIN m.what
        /\ p \in Names(g.inFlight) => \E j \in 1..l : ms[j].type = "filesTaken"
  BY <1>1, <1>3 DEF Tells
<1> QED BY <1>2, <1>4 DEF t, l

\* What is said last counts; what says nothing of p changes nothing.
LEMMA HeardAppend ==
  ASSUME NEW g, NEW ms \in Seq(Messages), NEW m \in Messages, NEW x, NEW p,
         IF Tells(g, Append(ms, m), p, Len(ms) + 1) THEN m.what[p] = x.reported[p] ELSE HeardOf(g, ms, x, p)
  PROVE  HeardOf(g, Append(ms, m), x, p)
<1> DEFINE t == Append(ms, m)
           l == Len(ms)
<1>1. /\ l \in Nat /\ Len(t) = l + 1 /\ (\A i \in 1..l : t[i] = ms[i]) /\ t[l + 1] = m
      /\ 1..(l + 1) = 1..l \cup {l + 1}
  BY AppendIs
<1>2. \A i \in 1..l : Tells(g, t, p, i) <=> Tells(g, ms, p, i)
  BY TellsAppend
<1>3. IF Tells(g, t, p, l + 1) THEN m.what[p] = x.reported[p] ELSE HeardOf(g, ms, x, p)
  OBVIOUS
<1> HIDE DEF t, l
<1>0. Len(t) = l + 1
  BY <1>1
<1>4. CASE Tells(g, t, p, l + 1)
  <2>1. l + 1 \in 1..(l + 1)
    BY <1>1
  <2>2. ASSUME NEW i \in 1..(l + 1), \A j \in 1..(l + 1) : j > i => ~Tells(g, t, p, j)
        PROVE  i = l + 1
    BY <1>1, <1>4, <2>1, <2>2
  <2>3. ~ \A i \in 1..(l + 1) : ~Tells(g, t, p, i)
    BY <1>4, <2>1
  <2>4. t[l + 1].what[p] = x.reported[p]
    BY <1>1, <1>3, <1>4
  <2>5. \A i \in 1..(l + 1) :
          Tells(g, t, p, i) /\ (\A j \in 1..(l + 1) : j > i => ~Tells(g, t, p, j)) => t[i].what[p] = x.reported[p]
    BY <2>2, <2>4
  <2> QED BY <1>0, <2>3, <2>5 DEF HeardOf, t
<1>5. CASE ~Tells(g, t, p, l + 1)
  <2>1. /\ (\A i \in 1..l : ~Tells(g, ms, p, i)) => g.folder[p] = x.reported[p]
        /\ \A i \in 1..l :
             Tells(g, ms, p, i) /\ (\A j \in 1..l : j > i => ~Tells(g, ms, p, j)) => ms[i].what[p] = x.reported[p]
    BY <1>3, <1>5 DEF HeardOf, l
  <2>2. (\A i \in 1..(l + 1) : ~Tells(g, t, p, i)) => g.folder[p] = x.reported[p]
    BY <1>1, <1>2, <2>1
  <2>3. ASSUME NEW i \in 1..(l + 1), Tells(g, t, p, i), \A j \in 1..(l + 1) : j > i => ~Tells(g, t, p, j)
        PROVE  t[i].what[p] = x.reported[p]
    <3>1. i \in 1..l /\ Tells(g, ms, p, i) /\ t[i] = ms[i]
      BY <1>1, <1>2, <1>5, <2>3
    <3>2. \A j \in 1..l : j > i => ~Tells(g, ms, p, j)
      BY <1>1, <1>2, <2>3
    <3> QED BY <2>1, <3>1, <3>2
  <2>4. \A i \in 1..(l + 1) :
          Tells(g, t, p, i) /\ (\A j \in 1..(l + 1) : j > i => ~Tells(g, t, p, j)) => t[i].what[p] = x.reported[p]
    BY <2>3
  <2> QED BY <1>0, <2>2, <2>4 DEF HeardOf, t
<1> QED BY <1>4, <1>5 DEF t

LEMMA DeliveredAppend ==
  ASSUME NEW g, NEW box, NEW ms \in Seq(Messages), NEW m \in Messages, m.type # "filesTaken", Delivered(g, box, ms)
  PROVE  Delivered(g, box, Append(ms, m))
<1> DEFINE t == Append(ms, m)
           l == Len(ms)
<1>1. /\ l \in Nat /\ Len(t) = l + 1 /\ (\A i \in 1..l : t[i] = ms[i]) /\ t[l + 1] = m
      /\ 1..(l + 1) = 1..l \cup {l + 1}
  BY AppendIs
<1>2. /\ box # <<>> => g.inFlight = box
      /\ (box # <<>> \/ g.inFlight = <<>>) => \A i \in 1..l : ms[i].type # "filesTaken"
      /\ (box = <<>> /\ g.inFlight # <<>>) => \E i \in 1..l : ms[i].type = "filesTaken"
      /\ \A i, j \in 1..l : ms[i].type = "filesTaken" /\ ms[j].type = "filesTaken" => i = j
  BY DEF Delivered
<1> HIDE DEF t, l
<1>3. \A i \in 1..(l + 1) : t[i].type = "filesTaken" => i \in 1..l /\ ms[i].type = "filesTaken"
  BY <1>1
<1>4. \A i \in 1..l : i \in 1..(l + 1) /\ t[i] = ms[i]
  BY <1>1
<1>5. (box # <<>> \/ g.inFlight = <<>>) => \A i \in 1..(l + 1) : t[i].type # "filesTaken"
  BY <1>2, <1>3
<1>6. (box = <<>> /\ g.inFlight # <<>>) => \E i \in 1..(l + 1) : t[i].type = "filesTaken"
  BY <1>2, <1>4
<1>7. \A i, j \in 1..(l + 1) : t[i].type = "filesTaken" /\ t[j].type = "filesTaken" => i = j
  BY <1>2, <1>3
<1> QED BY <1>1, <1>2, <1>5, <1>6, <1>7 DEF Delivered, t

Works(x) == x.pc \in {"running", "parked", "exited"}

\* What is so of a worker that runs: `start` is over.
LEMMA WorksFacts ==
  ASSUME NEW g, NEW box, NEW ms, NEW x, Works(x)
  PROVE  Agree(g, box, ms, x) <=>
           /\ Typed(g, box, ms, x) /\ Shown(g) /\ Delivered(g, box, ms) /\ Reported(x) /\ g.started
           /\ \A p \in Paths : p \notin Names(g.queued) \cup Names(box) \cup x.refused => HeardOf(g, ms, x, p)
<1>1. x.pc \notin {"loading", "starting"}
  BY DEF Works
<1>2. Starts(g, box, ms, x) <=> g.started
  BY <1>1 DEF Starts
<1>3. Heard(g, box, ms, x) <=>
        \A p \in Paths : p \notin Names(g.queued) \cup Names(box) \cup x.refused => HeardOf(g, ms, x, p)
  BY DEF Heard, Works
<1> QED BY <1>2, <1>3 DEF Agree

\* The program, or a read, changes files and pc only.
LEMMA ProgramAgrees ==
  ASSUME NEW g, NEW box, NEW ms, NEW x, Agree(g, box, ms, x), Works(x), NEW y, WorkerOK(y), Works(y), Reported(y),
         y.reported = x.reported, x.refused \subseteq y.refused
  PROVE  Agree(g, box, ms, y)
<1>1. /\ Typed(g, box, ms, x) /\ Shown(g) /\ Delivered(g, box, ms) /\ g.started
      /\ \A p \in Paths : p \notin Names(g.queued) \cup Names(box) \cup x.refused => HeardOf(g, ms, x, p)
  BY WorksFacts
<1>2. Typed(g, box, ms, y)
  BY <1>1 DEF Typed
<1>3. \A p \in Paths : HeardOf(g, ms, x, p) => HeardOf(g, ms, y, p)
  BY HeardSame
<1>4. \A p \in Paths : p \notin Names(g.queued) \cup Names(box) \cup y.refused => HeardOf(g, ms, y, p)
  BY <1>1, <1>3
<1> QED BY <1>1, <1>2, <1>4, WorksFacts

\* A report is put behind what was said.
LEMMA ReportAgrees ==
  ASSUME AllReported, NEW g, NEW box, NEW ms, NEW x, Agree(g, box, ms, x), Works(x)
  PROVE  Agree(g, box, ms \o Report(x).said, Report(x).w)
<1> DEFINE y == Report(x).w
           said == Report(x).said
<1>1. /\ Typed(g, box, ms, x) /\ Shown(g) /\ Delivered(g, box, ms) /\ Reported(x) /\ g.started
      /\ \A p \in Paths : p \notin Names(g.queued) \cup Names(box) \cup x.refused => HeardOf(g, ms, x, p)
  BY WorksFacts
<1>2. WorkerOK(x) /\ ms \in Seq(Messages)
  BY <1>1 DEF Typed
<1>3. WorkerOK(y) /\ y.pc = x.pc /\ y.files = x.files /\ y.reported = x.files /\ ~y.news /\ y.refused = {} /\ Says(x, said)
  BY <1>1, <1>2, ReportFacts
<1> HIDE DEF y, said
<1>4. Works(y) /\ Reported(y)
  BY <1>3 DEF Works, Reported
<1>5. CASE said = <<>>
  <2>1. ms \o said = ms
    BY <1>2, <1>5, ConcatEmptySeq
  <2>2. \A p \in Paths : x.reported[p] = x.files[p] /\ p \notin x.refused
    BY <1>3, <1>5 DEF Says
  <2>3. \A p \in Paths : p \notin Names(g.queued) \cup Names(box) \cup y.refused => HeardOf(g, ms, y, p)
    <3> SUFFICES ASSUME NEW p \in Paths, p \notin Names(g.queued) \cup Names(box)
                 PROVE  HeardOf(g, ms, y, p)
      OBVIOUS
    <3>1. HeardOf(g, ms, x, p) /\ y.reported[p] = x.reported[p]
      BY <1>1, <1>3, <2>2
    <3> QED BY <3>1, HeardSame
  <2>4. Typed(g, box, ms, y)
    BY <1>1, <1>3 DEF Typed
  <2> QED BY <1>1, <1>4, <2>1, <2>3, <2>4, WorksFacts DEF y, said
<1>6. CASE said # <<>>
  <2>1. PICK m \in Files : /\ said = <<m>>
                           /\ \A p \in Paths : IF p \in DOMAIN m.what THEN m.what[p] = x.files[p]
                                               ELSE x.reported[p] = x.files[p] /\ p \notin x.refused
    BY <1>3, <1>6 DEF Says
  <2>2. m \in Messages /\ m.type = "files"
    BY DEF Messages, Files
  <2>3. ms \o said = Append(ms, m)
    BY <1>2, <2>1, <2>2
  <2>4. Append(ms, m) \in Seq(Messages)
    BY <1>2, <2>2, AppendIs
  <2>5. Typed(g, box, Append(ms, m), y)
    BY <1>1, <1>3, <2>4 DEF Typed
  <2>6. Delivered(g, box, Append(ms, m))
    BY <1>1, <1>2, <2>2, DeliveredAppend
  <2>7. ASSUME NEW p \in Paths, p \notin Names(g.queued) \cup Names(box)
        PROVE  HeardOf(g, Append(ms, m), y, p)
    <3>1. p \in Names(g.inFlight) => \E j \in 1..Len(ms) : ms[j].type = "filesTaken"
      <4> SUFFICES ASSUME p \in Names(g.inFlight) PROVE \E j \in 1..Len(ms) : ms[j].type = "filesTaken"
        OBVIOUS
      <4>1. g.inFlight # <<>> /\ box # g.inFlight
        BY <2>7, NamesEmpty
      <4> QED BY <1>1, <4>1 DEF Delivered
    <3>2. CASE p \in DOMAIN m.what
      <4>1. Tells(g, Append(ms, m), p, Len(ms) + 1)
        BY <1>2, <2>2, <3>1, <3>2, TellsAppend
      <4>2. m.what[p] = y.reported[p]
        BY <1>3, <2>1, <3>2
      <4> QED BY <1>2, <2>2, <4>1, <4>2, HeardAppend
    <3>3. CASE p \notin DOMAIN m.what
      <4>1. ~Tells(g, Append(ms, m), p, Len(ms) + 1)
        BY <1>2, <2>2, <3>3, TellsAppend
      <4>2. p \notin x.refused /\ y.reported[p] = x.reported[p]
        BY <1>3, <2>1, <3>3
      <4>3. HeardOf(g, ms, x, p)
        BY <1>1, <2>7, <4>2
      <4>4. HeardOf(g, ms, y, p)
        BY <4>2, <4>3, HeardSame
      <4> QED BY <1>2, <2>2, <4>1, <4>4, HeardAppend
    <3> QED BY <3>2, <3>3
  <2>8. Agree(g, box, Append(ms, m), y)
    BY <1>1, <1>4, <2>5, <2>6, <2>7, WorksFacts
  <2> QED BY <2>3, <2>8 DEF y, said
<1> QED BY <1>5, <1>6

LEMMA ExitedAgrees ==
  ASSUME NEW g, NEW box, NEW ms, NEW x, Agree(g, box, ms, x), Works(x)
  PROVE  Agree(g, box, Append(ms, Exited), x)
<1>1. /\ Typed(g, box, ms, x) /\ Shown(g) /\ Delivered(g, box, ms) /\ Reported(x) /\ g.started
      /\ \A p \in Paths : p \notin Names(g.queued) \cup Names(box) \cup x.refused => HeardOf(g, ms, x, p)
  BY WorksFacts
<1>2. ms \in Seq(Messages) /\ Exited \in Messages /\ Exited.type = "exited"
  BY <1>1 DEF Typed, Messages, Exited
<1>3. Typed(g, box, Append(ms, Exited), x)
  BY <1>1, <1>2, AppendIs DEF Typed
<1>4. Delivered(g, box, Append(ms, Exited))
  BY <1>1, <1>2, DeliveredAppend
<1>5. ASSUME NEW p \in Paths, HeardOf(g, ms, x, p)
      PROVE  HeardOf(g, Append(ms, Exited), x, p)
  <2>1. ~Tells(g, Append(ms, Exited), p, Len(ms) + 1)
    BY <1>2, TellsAppend
  <2> QED BY <1>2, <1>5, <2>1, HeardAppend
<1> QED BY <1>1, <1>3, <1>4, <1>5, WorksFacts

\* The batch of the mailbox, if any, is taken, done, and said to be taken.
TakenBy(box, ms) == IF box = <<>> THEN ms ELSE Append(ms, Taken)

LEMMA ApplyAgrees ==
  ASSUME NEW g, NEW box, NEW ms, NEW x, Agree(g, box, ms, x), Works(x), NEW big
  PROVE  /\ Agree(g, <<>>, TakenBy(box, ms), Applied(x, box, big))
         /\ Applied(x, box, big).pc = x.pc /\ Applied(x, box, big).start = x.start
<1> DEFINE y == Applied(x, box, big)
           t == TakenBy(box, ms)
<1>1. /\ Typed(g, box, ms, x) /\ Shown(g) /\ Delivered(g, box, ms) /\ Reported(x) /\ g.started
      /\ \A p \in Paths : p \notin Names(g.queued) \cup Names(box) \cup x.refused => HeardOf(g, ms, x, p)
  BY WorksFacts
<1>2. WorkerOK(x) /\ ms \in Seq(Messages) /\ box \in Seq(Ops)
  BY <1>1 DEF Typed
<1>3. /\ WorkerOK(y) /\ y.pc = x.pc /\ y.start = x.start /\ x.refused \subseteq y.refused
      /\ Reported(x) => Reported(y)
      /\ \A q \in Paths : q \in y.refused
           \/ (q \notin Names(box) /\ y.files[q] = x.files[q] /\ y.reported[q] = x.reported[q])
           \/ \E op \in ToSet(box) : op[1] = q /\ y.files[q] = op[2] /\ y.reported[q] = op[2]
  BY <1>2, AppliedFacts
<1> HIDE DEF y
<1>4. Taken \in Messages /\ Taken.type = "filesTaken"
  BY DEF Messages, Taken
<1>5. t \in Seq(Messages)
  BY <1>2, <1>4, AppendIs DEF TakenBy
<1>6. Works(y) /\ Reported(y)
  BY <1>1, <1>3 DEF Works
<1>7. Typed(g, <<>>, t, y)
  <2>1. <<>> \in Seq(Ops) /\ Len(<<>>) <= Batch
    BY EmptySeq, BoundsAssumption
  <2> QED BY <1>1, <1>3, <1>5, <2>1 DEF Typed
<1>8. CASE box = <<>>
  <2>1. t = ms
    BY <1>8 DEF TakenBy
  <2>2. Delivered(g, <<>>, t)
    BY <1>1, <1>8, <2>1
  <2>3. ASSUME NEW p \in Paths, p \notin Names(g.queued) \cup Names(<<>>) \cup y.refused
        PROVE  HeardOf(g, t, y, p)
    <3>1. \A op \in ToSet(box) : FALSE
      BY <1>8, NamesEmpty
    <3>2. y.reported[p] = x.reported[p] /\ p \notin x.refused
      BY <1>3, <2>3, <3>1
    <3>3. HeardOf(g, ms, x, p)
      BY <1>1, <1>8, <2>3, <3>2
    <3> QED BY <2>1, <3>2, <3>3, HeardSame
  <2>4. Agree(g, <<>>, t, y)
    BY <1>1, <1>6, <1>7, <2>2, <2>3, WorksFacts
  <2> QED BY <1>3, <2>4 DEF y
<1>9. CASE box # <<>>
  <2> DEFINE l == Len(ms)
  <2>1. t = Append(ms, Taken)
    BY <1>9 DEF TakenBy
  <2>2. /\ l \in Nat /\ Len(t) = l + 1 /\ (\A i \in 1..l : t[i] = ms[i]) /\ t[l + 1] = Taken
        /\ 1..(l + 1) = 1..l \cup {l + 1}
    BY <1>2, <1>4, <2>1, AppendIs
  <2>3. g.inFlight = box /\ \A i \in 1..l : ms[i].type # "filesTaken"
    BY <1>1, <1>9 DEF Delivered
  <2> HIDE DEF t, l
  <2>4. l + 1 \in 1..(l + 1) /\ \A i \in 1..(l + 1) : t[i].type = "filesTaken" <=> i = l + 1
    BY <1>4, <2>2, <2>3
  <2>5. Delivered(g, <<>>, t)
    <3>1. \E i \in 1..(l + 1) : t[i].type = "filesTaken"
      BY <2>4
    <3>2. \A i, j \in 1..(l + 1) : t[i].type = "filesTaken" /\ t[j].type = "filesTaken" => i = j
      BY <2>4
    <3>3. Len(t) = l + 1
      BY <2>2
    <3> QED BY <1>9, <2>3, <3>1, <3>2, <3>3 DEF Delivered
  <2>6. ASSUME NEW p \in Paths, p \notin Names(g.queued) \cup Names(<<>>) \cup y.refused
        PROVE  HeardOf(g, t, y, p)
    <3>1. CASE p \in Names(box)
      <4>1. PICK op \in ToSet(box) : op[1] = p /\ y.reported[p] = op[2]
        BY <1>3, <2>6, <3>1
      <4>2. g.folder[p] = y.reported[p]
        BY <1>1, <2>3, <2>6, <4>1 DEF Shown
      <4>3. ASSUME NEW i \in 1..(l + 1)
            PROVE  ~Tells(g, t, p, i)
        <5>1. \A j \in 1..(i - 1) : t[j].type # "filesTaken"
          BY <2>2, <2>4
        <5> QED BY <2>3, <3>1, <5>1 DEF Tells
      <4>4. Len(t) = l + 1
        BY <2>2
      <4> QED BY <4>2, <4>3, <4>4 DEF HeardOf
    <3>2. CASE p \notin Names(box)
      <4>1. \A op \in ToSet(box) : op[1] # p
        BY <3>2 DEF Names
      <4>2. y.reported[p] = x.reported[p] /\ p \notin x.refused
        BY <1>3, <2>6, <4>1
      <4>3. HeardOf(g, ms, x, p)
        BY <1>1, <2>6, <3>2, <4>2
      <4>4. HeardOf(g, ms, y, p)
        BY <4>2, <4>3, HeardSame
      <4>5. ~Tells(g, Append(ms, Taken), p, Len(ms) + 1)
        BY <1>2, <1>4, TellsAppend
      <4> QED BY <1>2, <1>4, <2>1, <4>4, <4>5, HeardAppend
    <3> QED BY <3>1, <3>2
  <2>7. Agree(g, <<>>, t, y)
    BY <1>1, <1>6, <1>7, <2>5, <2>6, WorksFacts
  <2> QED BY <1>3, <2>7 DEF y, t
<1> QED BY <1>8, <1>9

LEMMA OnePcFacts ==
  ASSUME NEW x, WorkerOK(x), NEW pc \in {"loading", "starting", "running", "parked", "exited"}
  PROVE  LET y == [x EXCEPT !.pc = pc]
         IN /\ WorkerOK(y) /\ y.pc = pc /\ y.files = x.files /\ y.reported = x.reported
            /\ y.refused = x.refused /\ y.news = x.news
<1> DEFINE y == [x EXCEPT !.pc = pc]
<1>1. x \in Workers /\ Listed(x)
  BY DEF WorkerOK
<1>2. y \in Workers
  BY <1>1 DEF Workers
<1>3. y.pc = pc /\ y.files = x.files /\ y.order = x.order /\ y.reported = x.reported /\ y.refused = x.refused /\ y.news = x.news
  BY <1>1 DEF Workers
<1> HIDE DEF y
<1> QED BY <1>1, <1>2, <1>3 DEF WorkerOK, Listed, y

\* The operations that `start` does: every file it goes with, in some order.
LEMMA StartOps ==
  ASSUME NEW start \in [Paths -> Contents], NEW order \in SetToSeqs({p \in Paths : start[p] # 0})
  PROVE  LET ops == [i \in DOMAIN order |-> <<order[i], start[order[i]]>>]
         IN /\ ops \in Seq(Ops)
            /\ \A op \in ToSet(ops) : op[1] \in Paths /\ op[2] = start[op[1]]
            /\ \A p \in Paths : start[p] # 0 => p \in Names(ops)
<1> DEFINE T == {p \in Paths : start[p] # 0}
           n == Cardinality(T)
           ops == [i \in DOMAIN order |-> <<order[i], start[order[i]]>>]
<1>1. IsFiniteSet(T) /\ n \in Nat
  <2>1. IsFiniteSet({"a"}) /\ IsFiniteSet({"a"} \cup {"b"}) /\ IsFiniteSet(({"a"} \cup {"b"}) \cup {"a/b"})
    BY FS_Singleton, FS_AddElement
  <2>2. Paths = ({"a"} \cup {"b"}) \cup {"a/b"}
    BY PathsAre
  <2>3. T \in SUBSET Paths
    OBVIOUS
  <2> HIDE DEF T
  <2> QED BY <2>1, <2>2, <2>3, FS_Subset, FS_CardinalityType
<1>2. order \in [1..n -> T] /\ \A i, j \in 1..n : i # j => order[i] # order[j]
  BY DEF SetToSeqs
<1>3. T \subseteq Paths
  OBVIOUS
<1>4. \A p \in Paths : p \in T <=> start[p] # 0
  OBVIOUS
<1> HIDE DEF T, n
<1>5. Cardinality(1..n) = n
  <2>1. Cardinality(1..n) = IF 1 > n THEN 0 ELSE n - 1 + 1
    BY <1>1, FS_Interval
  <2> QED BY <1>1, <2>1
<1>6. order \in Injection(1..n, T)
  BY <1>2 DEF Injection, IsInjective
<1>7. order \in Surjection(1..n, T)
  <2>1. Cardinality(1..n) = Cardinality(T)
    BY <1>5 DEF n
  <2> QED BY <1>1, <1>6, <2>1, FS_Injection
<1>8. DOMAIN ops = 1..n /\ \A i \in 1..n : ops[i] = <<order[i], start[order[i]]>> /\ order[i] \in T
  BY <1>2
<1> HIDE DEF ops
<1>9. ops \in Seq(Ops)
  <2>1. ASSUME NEW i \in 1..n
        PROVE  ops[i] \in Ops
    <3>1. order[i] \in Paths
      BY <1>3, <1>8
    <3>2. start[order[i]] \in Contents
      BY <3>1
    <3> QED BY <1>8, <3>1, <3>2 DEF Ops
  <2>2. ops = [i \in 1..n |-> ops[i]]
    BY <1>8 DEF ops
  <2>3. ops \in [1..n -> Ops]
    BY <2>1, <2>2
  <2> QED BY <1>1, <2>3
<1>10. \A op \in ToSet(ops) : op[1] \in Paths /\ op[2] = start[op[1]]
  BY <1>3, <1>8 DEF ToSet
<1>11. ASSUME NEW p \in Paths, start[p] # 0
       PROVE  p \in Names(ops)
  <2>1. PICK i \in 1..n : order[i] = p
    BY <1>4, <1>7, <1>11 DEF Surjection
  <2>2. ops[i] \in ToSet(ops) /\ ops[i][1] = p
    BY <1>8, <2>1 DEF ToSet
  <2> QED BY <2>2 DEF Names
<1> QED BY <1>9, <1>10, <1>11 DEF ops

\* What `start` makes of the worker (Start).
Started(x, order, big) ==
  LET y == Applied([x EXCEPT !.start = NoFiles], [i \in DOMAIN order |-> <<order[i], x.start[order[i]]>>], big)
      now == Listing(y)
  IN [y EXCEPT !.pc = "running", !.news = FALSE, !.reported = [p \in Paths |-> IF p \in now THEN y.files[p] ELSE 0]]

LEMMA StartAgrees ==
  ASSUME AllReported, NEW g, NEW box, NEW ms, NEW x, Agree(g, box, ms, x), x.pc = "starting",
         NEW order \in SetToSeqs({p \in Paths : x.start[p] # 0}), NEW big
  PROVE  Agree(g, box, ms, Started(x, order, big)) /\ Started(x, order, big).pc = "running"
<1> DEFINE x0 == [x EXCEPT !.start = NoFiles]
           ops == [i \in DOMAIN order |-> <<order[i], x.start[order[i]]>>]
           y == Applied(x0, ops, big)
           z == Started(x, order, big)
           listed == [p \in Paths |-> IF p \in Listing(y) THEN y.files[p] ELSE 0]
<1>0. z = [y EXCEPT !.pc = "running", !.news = FALSE, !.reported = listed]
  BY DEF Started
<1> HIDE DEF z
<1>1. Typed(g, box, ms, x) /\ Shown(g) /\ Delivered(g, box, ms) /\ Starts(g, box, ms, x)
  BY DEF Agree
<1>2. x \in Workers /\ Listed(x) /\ ms = <<>> /\ x.files = NoFiles /\ x.start \in [Paths -> Contents] /\ g.started
  BY <1>1 DEF Typed, WorkerOK, Workers, Starts
<1>3. WorkerOK(x0) /\ x0.files = NoFiles
  <2>1. NoFiles \in [Paths -> Contents]
    BY BoundsAssumption DEF NoFiles, Contents
  <2>2. x0 \in Workers
    BY <1>2, <2>1 DEF Workers
  <2>3. x0.files = x.files /\ x0.order = x.order
    BY <1>2 DEF Workers
  <2> HIDE DEF x0
  <2> QED BY <1>2, <2>2, <2>3 DEF WorkerOK, Listed
<1>4. /\ ops \in Seq(Ops)
      /\ \A op \in ToSet(ops) : op[1] \in Paths /\ op[2] = x.start[op[1]]
      /\ \A p \in Paths : x.start[p] # 0 => p \in Names(ops)
  BY <1>2, StartOps
<1> HIDE DEF x0, ops
<1>5. /\ WorkerOK(y)
      /\ \A q \in Paths : q \in y.refused
           \/ (q \notin Names(ops) /\ y.files[q] = x0.files[q] /\ y.reported[q] = x0.reported[q])
           \/ \E op \in ToSet(ops) : op[1] = q /\ y.files[q] = op[2] /\ y.reported[q] = op[2]
  BY <1>3, <1>4, AppliedFacts
<1> HIDE DEF y
<1>6. Listing(y) = {p \in Paths : y.files[p] # 0}
  BY <1>5, ListingFacts
<1>7. y \in Workers /\ Listed(y) /\ y.files \in [Paths -> Contents]
  BY <1>5 DEF WorkerOK, Workers
<1>8. listed = y.files
  BY <1>6, <1>7
<1> HIDE DEF listed
<1>9. z = [y EXCEPT !.pc = "running", !.news = FALSE, !.reported = y.files]
  BY <1>0, <1>8
<1>10. z \in Workers
  BY <1>7, <1>9 DEF Workers
<1>11. z.files = y.files /\ z.order = y.order /\ z.reported = y.files /\ z.pc = "running" /\ z.refused = y.refused
  BY <1>7, <1>9 DEF Workers
<1>12. WorkerOK(z) /\ Reported(z) /\ Works(z)
  BY <1>7, <1>10, <1>11 DEF WorkerOK, Listed, Reported, Works
<1>13. Typed(g, box, ms, z)
  BY <1>1, <1>12 DEF Typed
<1>14. ASSUME NEW p \in Paths, p \notin Names(g.queued) \cup Names(box) \cup z.refused
       PROVE  HeardOf(g, ms, z, p)
  <2>1. 1..Len(ms) = {}
    BY <1>2, EmptySeq
  <2>2. g.inFlight = <<>> \/ g.inFlight = box
    BY <1>1, <2>1 DEF Delivered
  <2>3. p \notin Unsettled(g)
    BY <1>14, <2>2, NamesEmpty DEF Unsettled
  <2>4. g.folder[p] = x.start[p]
    BY <1>1, <2>3 DEF Starts
  <2>5. y.files[p] = x.start[p]
    <3>1. CASE p \notin Names(ops) /\ y.files[p] = x0.files[p]
      BY <1>3, <1>4, <3>1 DEF NoFiles
    <3>2. CASE \E op \in ToSet(ops) : op[1] = p /\ y.files[p] = op[2]
      BY <1>4, <3>2
    <3> QED BY <1>5, <1>11, <1>14, <3>1, <3>2
  <2> QED BY <1>11, <2>1, <2>4, <2>5 DEF HeardOf
<1>15. Agree(g, box, ms, z)
  BY <1>1, <1>2, <1>12, <1>13, <1>14, WorksFacts
<1> QED BY <1>11, <1>15 DEF z

---------------------------------------------------------------------------
(* The steps. *)

LEMMA MadeMore ==
  ASSUME made \in Contents, made < MaxMade
  PROVE  made + 1 \in Contents /\ made + 1 # 0
BY BoundsAssumption DEF Contents

LEMMA MessagesTyped ==
  ASSUME IInv
  PROVE  WorkerOK(w) /\ w \in Workers /\ msgs \in Seq(Messages) /\ page \in Pages /\ page.folder \in [Paths -> Contents]
BY DEF IInv, Agree, Typed, WorkerOK, Pages

LEMMA InitAgrees == Init => IInv
<1> SUFFICES ASSUME Init PROVE IInv
  OBVIOUS
<1>1. 0 \in Contents /\ NoFiles \in [Paths -> Contents] /\ \A p \in Paths : NoFiles[p] = 0
  BY BoundsAssumption DEF Contents, NoFiles
<1>2. \A S : <<>> \in Seq(S) /\ Len(<<>>) = 0
  BY EmptySeq
<1>3. page \in Pages
  BY <1>1, <1>2 DEF Init, Pages
<1>4. w \in Workers
  BY <1>1, <1>2 DEF Init, NewWorker, Workers
<1>5. Listed(w)
  <2>1. w.order = <<>> /\ w.files = NoFiles
    BY DEF Init, NewWorker
  <2>2. ToSet(w.order) = {p \in Paths : w.files[p] # 0}
    BY <1>1, <2>1, NamesEmpty
  <2>3. DOMAIN w.order = {}
    BY <2>1
  <2> QED BY <2>2, <2>3 DEF Listed, IsInjective
<1>6. Typed(page, mail, msgs, w)
  <2>1. page.queued = <<>> /\ mail = <<>> /\ msgs = <<>>
    BY DEF Init
  <2>2. Apart(page.queued)
    BY <1>2, <2>1 DEF Apart, ApartAt
  <2> QED BY <1>2, <1>3, <1>4, <1>5, <2>1, <2>2, BoundsAssumption DEF Typed, WorkerOK
<1>7. Shown(page)
  BY NamesEmpty DEF Init, Shown
<1>8. Delivered(page, mail, msgs)
  <2>1. Len(msgs) = 0 /\ mail = <<>> /\ page.inFlight = <<>>
    BY <1>2 DEF Init
  <2> QED BY <2>1 DEF Delivered
<1>9. Starts(page, mail, msgs, w) /\ Reported(w) /\ Heard(page, mail, msgs, w) /\ Waits(w) /\ made \in Contents
  BY <1>1 DEF Init, NewWorker, Starts, Reported, Heard, Waits
<1> QED BY <1>6, <1>7, <1>8, <1>9 DEF IInv, Agree

\* Any change the program makes of its files.
LEMMA ProgramKeeps ==
  ASSUME IInv, NEW x, Program(x), WorkerOK(x), x.pc = w.pc, x.news = TRUE, x.reported = w.reported, x.refused = w.refused
  PROVE  IInv'
<1>1. /\ w' = x /\ page' = page /\ mail' = mail /\ msgs' = msgs /\ made' = made + 1
      /\ w.pc = "running" /\ made < MaxMade
  BY DEF Program
<1>2. Works(w) /\ Works(x) /\ Reported(x) /\ Waits(x)
  BY <1>1 DEF Works, Reported, Waits
<1>3. Agree(page, mail, msgs, w) /\ made \in Contents
  BY DEF IInv
<1>4. Agree(page, mail, msgs, x)
  BY <1>2, <1>3, ProgramAgrees
<1>5. made' \in Contents
  BY <1>1, <1>3, MadeMore
<1> QED BY <1>1, <1>2, <1>4, <1>5 DEF IInv

LEMMA WritesFileKeeps ==
  ASSUME IInv, NEW p \in Paths, WritesFile(p)
  PROVE  IInv'
<1>1. WorkerOK(w) /\ w \in Workers /\ Listed(w) /\ made \in Contents
  BY MessagesTyped DEF IInv, WorkerOK
<1>2. made + 1 \in Contents /\ made + 1 # 0
  BY <1>1, MadeMore DEF WritesFile, Program
<1>3. CASE w.files[p] = 0
  <2>1. Program(Placed(w, p, made + 1))
    BY <1>3 DEF WritesFile
  <2>2. IsPlaced(w, p, made + 1, Placed(w, p, made + 1))
    BY <1>1, <1>2, PlacedFacts
  <2> QED BY <2>1, <2>2, ProgramKeeps DEF IsPlaced
<1>4. CASE w.files[p] # 0
  <2> DEFINE files == [w.files EXCEPT ![p] = made + 1]
             x == [w EXCEPT !.files = files, !.news = TRUE]
  <2>1. Program(x)
    BY <1>4 DEF WritesFile
  <2>2. files \in [Paths -> Contents] /\ \A q \in Paths : files[q] # 0 <=> w.files[q] # 0
    BY <1>1, <1>2, <1>4 DEF Workers
  <2> HIDE DEF files
  <2>3. x \in Workers
    BY <1>1, <2>2 DEF Workers
  <2>4. /\ x.files = files /\ x.order = w.order /\ x.pc = w.pc /\ x.news = TRUE
        /\ x.reported = w.reported /\ x.refused = w.refused
    BY <1>1 DEF Workers
  <2> HIDE DEF x
  <2>5. Listed(x)
    BY <1>1, <2>2, <2>4 DEF Listed
  <2> QED BY <2>1, <2>3, <2>4, <2>5, ProgramKeeps DEF WorkerOK
<1> QED BY <1>3, <1>4

LEMMA RemovesFileKeeps ==
  ASSUME IInv, NEW p \in Paths, RemovesFile(p)
  PROVE  IInv'
<1>1. WorkerOK(w)
  BY MessagesTyped
<1>2. 0 \in Contents
  BY BoundsAssumption DEF Contents
<1>3. IsPlaced(w, p, 0, Placed(w, p, 0))
  BY <1>1, <1>2, PlacedFacts
<1>4. Program(Placed(w, p, 0))
  BY DEF RemovesFile
<1> QED BY <1>3, <1>4, ProgramKeeps DEF IsPlaced

LEMMA RenamesFileKeeps ==
  ASSUME IInv, NEW p \in Paths, NEW q \in Paths, RenamesFile(p, q)
  PROVE  IInv'
<1> DEFINE x == Placed(w, p, 0)
           c == w.files[p]
           y == Placed(x, q, c)
<1>1. WorkerOK(w) /\ c \in Contents
  BY MessagesTyped DEF Workers
<1>2. 0 \in Contents
  BY BoundsAssumption DEF Contents
<1>3. IsPlaced(w, p, 0, x)
  BY <1>1, <1>2, PlacedFacts
<1>4. Program(y)
  BY DEF RenamesFile
<1> HIDE DEF x, c
<1>5. IsPlaced(x, q, c, y)
  BY <1>1, <1>3, PlacedFacts DEF IsPlaced
<1> HIDE DEF y
<1>6. WorkerOK(y) /\ y.pc = w.pc /\ y.news = TRUE /\ y.reported = w.reported /\ y.refused = w.refused
  BY <1>3, <1>5 DEF IsPlaced
<1> QED BY <1>4, <1>6, ProgramKeeps

LEMMA ChangesDirectoryKeeps ==
  ASSUME IInv, ChangesDirectory
  PROVE  IInv'
<1> DEFINE x == [w EXCEPT !.dir = ~w.dir, !.news = TRUE]
<1>1. WorkerOK(w) /\ w \in Workers /\ Listed(w)
  BY MessagesTyped DEF WorkerOK
<1>2. Program(x)
  BY DEF ChangesDirectory
<1>3. x \in Workers
  BY <1>1 DEF Workers
<1>4. /\ x.files = w.files /\ x.order = w.order /\ x.pc = w.pc /\ x.news = TRUE
      /\ x.reported = w.reported /\ x.refused = w.refused
  BY <1>1 DEF Workers
<1> HIDE DEF x
<1> QED BY <1>1, <1>2, <1>3, <1>4, ProgramKeeps DEF WorkerOK, Listed

LEMMA ClosesFileKeeps ==
  ASSUME AllReported, IInv, ClosesFile
  PROVE  IInv'
<1> DEFINE x == Report(w).w
<1>1. /\ w.pc = "running" /\ w' = x /\ msgs' = msgs \o Report(w).said
      /\ page' = page /\ mail' = mail /\ made' = made
  BY DEF ClosesFile
<1>2. Works(w) /\ Agree(page, mail, msgs, w) /\ made \in Contents /\ WorkerOK(w) /\ Reported(w)
  BY <1>1, MessagesTyped DEF IInv, Works, Agree
<1>3. Agree(page, mail, msgs \o Report(w).said, x)
  BY <1>2, ReportAgrees
<1>4. ~x.news /\ x.refused = {}
  BY <1>2, ReportFacts
<1> QED BY <1>1, <1>2, <1>3, <1>4 DEF IInv, Waits

LEMMA ExitsKeeps ==
  ASSUME AllReported, IInv, Exits
  PROVE  IInv'
<1> DEFINE x == Report(w).w
           y == [x EXCEPT !.pc = "exited"]
           ms == msgs \o Report(w).said
<1>1. w.pc = "running" /\ w' = y /\ msgs' = ms \o <<Exited>> /\ page' = page /\ mail' = mail /\ made' = made
  BY DEF Exits
<1>2. Works(w) /\ Agree(page, mail, msgs, w) /\ made \in Contents /\ WorkerOK(w) /\ Reported(w)
  BY <1>1, MessagesTyped DEF IInv, Works, Agree
<1>3. Agree(page, mail, ms, x)
  BY <1>2, ReportAgrees
<1>4. WorkerOK(x) /\ x.pc = w.pc /\ ~x.news /\ x.refused = {}
  BY <1>2, ReportFacts
<1> HIDE DEF x, ms
<1>5. /\ WorkerOK(y) /\ y.pc = "exited" /\ y.files = x.files /\ y.reported = x.reported
      /\ y.refused = x.refused /\ y.news = x.news
  BY <1>4, OnePcFacts
<1> HIDE DEF y
<1>6. Works(x) /\ Works(y) /\ Reported(y) /\ Waits(y)
  <2>1. Reported(x)
    BY <1>3 DEF Agree
  <2> QED BY <1>1, <1>4, <1>5, <2>1 DEF Works, Reported, Waits
<1>7. Agree(page, mail, ms, y)
  BY <1>3, <1>5, <1>6, ProgramAgrees
<1>8. Agree(page, mail, Append(ms, Exited), y)
  BY <1>6, <1>7, ExitedAgrees
<1>9. msgs' = Append(ms, Exited)
  <2>1. ms \in Seq(Messages) /\ Exited \in Messages
    BY <1>7 DEF Agree, Typed, Messages
  <2> QED BY <1>1, <2>1
<1> QED BY <1>1, <1>2, <1>6, <1>8, <1>9 DEF IInv

LEMMA IdleKeeps ==
  ASSUME AllReported, IInv, w.pc \in {"running", "parked"}, Idle
  PROVE  IInv'
<1>1. PICK big \in Big :
        /\ w' = [Report(Applied(w, mail, big)).w EXCEPT !.pc = "parked"]
        /\ mail' = <<>>
        /\ msgs' = msgs \o (IF mail = <<>> THEN <<>> ELSE <<Taken>>) \o Report(Applied(w, mail, big)).said
        /\ page' = page /\ made' = made
  BY DEF Idle
<1> DEFINE x == Applied(w, mail, big)
           y == Report(x).w
           z == [y EXCEPT !.pc = "parked"]
           ms == TakenBy(mail, msgs)
<1>2. Works(w) /\ Agree(page, mail, msgs, w) /\ made \in Contents
  BY DEF IInv, Works
<1>3. Agree(page, <<>>, ms, x) /\ x.pc = w.pc
  BY <1>2, ApplyAgrees
<1>4. w' = z /\ msgs' = ms \o Report(x).said
  <2>1. msgs \in Seq(Messages) /\ Taken \in Messages
    BY MessagesTyped DEF Messages
  <2>2. msgs \o (IF mail = <<>> THEN <<>> ELSE <<Taken>>) = ms
    <3>1. msgs \o <<>> = msgs
      BY <2>1, ConcatEmptySeq
    <3>2. msgs \o <<Taken>> = Append(msgs, Taken)
      BY <2>1
    <3> QED BY <3>1, <3>2 DEF TakenBy
  <2> QED BY <1>1, <2>2
<1> HIDE DEF x, ms
<1>5. Works(x) /\ WorkerOK(x) /\ Reported(x)
  BY <1>2, <1>3 DEF Works, Agree, Typed
<1>6. Agree(page, <<>>, ms \o Report(x).said, y)
  BY <1>3, <1>5, ReportAgrees
<1>7. WorkerOK(y) /\ y.pc = x.pc /\ ~y.news /\ y.refused = {}
  BY <1>5, ReportFacts
<1> HIDE DEF y
<1>8. /\ WorkerOK(z) /\ z.pc = "parked" /\ z.files = y.files /\ z.reported = y.reported
      /\ z.refused = y.refused /\ z.news = y.news
  BY <1>7, OnePcFacts
<1> HIDE DEF z
<1>9. Works(y) /\ Works(z) /\ Reported(z) /\ Waits(z)
  <2>1. Reported(y)
    BY <1>6 DEF Agree
  <2> QED BY <1>5, <1>7, <1>8, <2>1 DEF Works, Reported, Waits
<1>10. Agree(page, <<>>, ms \o Report(x).said, z)
  BY <1>6, <1>8, <1>9, ProgramAgrees
<1> QED BY <1>1, <1>2, <1>4, <1>9, <1>10 DEF IInv

LEMMA InputComesKeeps ==
  ASSUME IInv, InputComes
  PROVE  IInv'
<1> DEFINE x == [w EXCEPT !.pc = "running"]
<1>1. w.pc = "parked" /\ w' = x /\ page' = page /\ mail' = mail /\ msgs' = msgs /\ made' = made
  BY DEF InputComes
<1>2. Works(w) /\ Agree(page, mail, msgs, w) /\ made \in Contents /\ WorkerOK(w) /\ Reported(w)
  BY <1>1, MessagesTyped DEF IInv, Works, Agree
<1>3. /\ WorkerOK(x) /\ x.pc = "running" /\ x.files = w.files /\ x.reported = w.reported
      /\ x.refused = w.refused /\ x.news = w.news
  BY <1>2, OnePcFacts
<1> HIDE DEF x
<1>4. Works(x) /\ Reported(x) /\ Waits(x)
  BY <1>2, <1>3 DEF Works, Reported, Waits
<1>5. Agree(page, mail, msgs, x)
  BY <1>2, <1>3, <1>4, ProgramAgrees
<1> QED BY <1>1, <1>2, <1>4, <1>5 DEF IInv

LEMMA StartKeeps ==
  ASSUME AllReported, IInv, Start
  PROVE  IInv'
<1>1. PICK order \in SetToSeqs({p \in Paths : w.start[p] # 0}), big \in Big :
        w' = Started(w, order, big)
  BY Zenon DEF Start, Started
<1>2. w.pc = "starting" /\ page' = page /\ mail' = mail /\ msgs' = msgs /\ made' = made
  BY DEF Start
<1>3. Agree(page, mail, msgs, w) /\ made \in Contents
  BY DEF IInv
<1>4. Agree(page, mail, msgs, w') /\ w'.pc = "running"
  BY <1>1, <1>2, <1>3, StartAgrees
<1>5. Waits(w')
  BY <1>4 DEF Waits
<1> QED BY <1>2, <1>3, <1>4, <1>5 DEF IInv

LEMMA PostStartKeeps ==
  ASSUME IInv, PostStart
  PROVE  IInv'
<1> DEFINE x == [w EXCEPT !.pc = "starting", !.start = page.folder]
           g == [page EXCEPT !.started = TRUE]
<1>1. w.pc = "loading" /\ w' = x /\ SendFiles(g) /\ msgs' = msgs /\ made' = made
  BY DEF PostStart
<1>2. /\ Typed(page, mail, msgs, w) /\ Shown(page) /\ Delivered(page, mail, msgs)
      /\ Starts(page, mail, msgs, w) /\ Reported(w) /\ made \in Contents
  BY DEF IInv, Agree
<1>3. WorkerOK(w) /\ w \in Workers /\ page \in Pages /\ page.folder \in [Paths -> Contents] /\ Listed(w)
  BY MessagesTyped DEF WorkerOK
<1>4. /\ msgs = <<>> /\ mail = <<>> /\ page.queued = <<>> /\ page.inFlight = <<>>
      /\ w.files = NoFiles /\ w.reported = NoFiles /\ w.order = <<>> /\ ~w.dir /\ ~w.news /\ w.refused = {}
  BY <1>1, <1>2 DEF Starts
<1>5. x \in Workers
  BY <1>3 DEF Workers
<1>6. /\ x.pc = "starting" /\ x.start = page.folder /\ x.files = w.files /\ x.order = w.order /\ x.dir = w.dir
      /\ x.reported = w.reported /\ x.refused = w.refused /\ x.news = w.news
  BY <1>3 DEF Workers
<1>7. g \in Pages /\ g.folder = page.folder /\ g.queued = page.queued /\ g.inFlight = page.inFlight /\ g.started = TRUE
  BY <1>3 DEF Pages
<1> HIDE DEF x, g
<1>8. WorkerOK(x)
  BY <1>3, <1>5, <1>6 DEF WorkerOK, Listed
<1>9. Typed(g, mail, msgs, x)
  BY <1>2, <1>7, <1>8 DEF Typed
<1>10. Shown(g)
  BY <1>2, <1>7 DEF Shown
<1>11. Delivered(g, mail, msgs)
  BY <1>2, <1>7 DEF Delivered
<1>12. Starts(g, mail, msgs, x)
  BY <1>4, <1>6, <1>7 DEF Starts
<1>13. Reported(x) /\ Heard(g, mail, msgs, x) /\ Waits(x)
  BY <1>2, <1>6 DEF Reported, Heard, Waits
<1>14. Agree(g, mail, msgs, x)
  BY <1>9, <1>10, <1>11, <1>12, <1>13 DEF Agree
<1>15. Agree(page', mail', msgs, x)
  BY <1>1, <1>14, SendAgrees
<1> QED BY <1>1, <1>2, <1>13, <1>15 DEF IInv

LEMMA SayKeeps ==
  ASSUME IInv, NEW p \in Paths, NEW c \in Contents, Say(p, c)
  PROVE  IInv'
<1>1. made < MaxMade /\ made' = made + 1 /\ msgs' = msgs /\ w' = w
  BY DEF Say
<1>2. Agree(page, mail, msgs, w) /\ Waits(w) /\ made \in Contents
  BY DEF IInv
<1>4. Agree(page', mail', msgs, w)
  <2>1. SendFiles(Told(page, p, c))
    BY DEF Say, Told
  <2>2. Agree(Told(page, p, c), mail, msgs, w)
    BY <1>2, TellAgrees
  <2> QED BY <2>1, <2>2, SendAgrees
<1>5. made' \in Contents
  BY <1>1, <1>2, MadeMore
<1> QED BY <1>1, <1>2, <1>4, <1>5 DEF IInv

LEMMA SaysKeeps ==
  ASSUME IInv, NEW p \in Paths, Saves(p) \/ Deletes(p)
  PROVE  IInv'
<1>1. made \in Contents /\ 0 \in Contents
  BY BoundsAssumption DEF IInv, Contents
<1>2. CASE Saves(p)
  <2>1. Say(p, made + 1)
    BY <1>2 DEF Saves
  <2>2. made + 1 \in Contents
    BY <1>1, <2>1, MadeMore DEF Say
  <2> QED BY <2>1, <2>2, SayKeeps
<1>3. CASE Deletes(p)
  <2>1. Say(p, 0)
    BY <1>3 DEF Deletes
  <2> QED BY <1>1, <2>1, SayKeeps
<1> QED BY <1>2, <1>3

LEMMA HearsKeeps ==
  ASSUME IInv, Hears
  PROVE  IInv'
<1> DEFINE m == Head(msgs)
           t == Tail(msgs)
<1>1. msgs # <<>> /\ msgs' = t /\ w' = w /\ made' = made
  BY DEF Hears
<1>2. Agree(page, mail, msgs, w) /\ Waits(w) /\ made \in Contents
  BY DEF IInv
<1>3. m.type \in {"files", "filesTaken", "exited"}
  <2>1. m \in Messages
    BY <1>1, MessagesTyped, HeadTailProperties
  <2> QED BY <2>1 DEF Messages, Files, Taken, Exited
<1>4. Agree(page', mail', t, w)
  <2>1. CASE m.type = "files"
    <3>1. OnFiles(m.what) /\ mail' = mail
      BY <2>1 DEF Hears
    <3>2. page' = IF m.type # "files" THEN page
                  ELSE [page EXCEPT !.folder = [p \in Paths |->
                         IF p \in DOMAIN m.what /\ p \notin Unsettled(page) THEN m.what[p] ELSE page.folder[p]]]
      BY <2>1, <3>1 DEF OnFiles
    <3>3. m.type # "filesTaken"
      BY <2>1
    <3>4. Agree(page', mail, t, w)
      BY <1>1, <1>2, <3>2, <3>3, FilesAgree
    <3> QED BY <3>1, <3>4
  <2>2. CASE m.type = "filesTaken"
    <3>1. SendFiles([page EXCEPT !.inFlight = <<>>])
      BY <2>2 DEF Hears, OnTaken
    <3>2. Agree([page EXCEPT !.inFlight = <<>>], mail, t, w)
      BY <1>1, <1>2, <2>2, TakenAgrees
    <3> QED BY <3>1, <3>2, SendAgrees
  <2>3. CASE m.type = "exited"
    <3>1. page' = page /\ mail' = mail
      BY <2>3 DEF Hears
    <3>2. m.type # "filesTaken" /\ page = IF m.type # "files" THEN page
                  ELSE [page EXCEPT !.folder = [p \in Paths |->
                         IF p \in DOMAIN m.what /\ p \notin Unsettled(page) THEN m.what[p] ELSE page.folder[p]]]
      BY <2>3
    <3>3. Agree(page, mail, t, w)
      BY <1>1, <1>2, <3>2, FilesAgree
    <3> QED BY <3>1, <3>3
  <2> QED BY <1>3, <2>1, <2>2, <2>3
<1> QED BY <1>1, <1>2, <1>4 DEF IInv

LEMMA RestartKeeps ==
  ASSUME IInv, Restart
  PROVE  IInv'
<1> DEFINE g == [page EXCEPT !.queued = <<>>, !.inFlight = <<>>, !.started = FALSE]
<1>1. page' = g /\ mail' = <<>> /\ msgs' = <<>> /\ w' = NewWorker /\ made' = made
  BY DEF Restart
<1>2. page \in Pages /\ page.folder \in [Paths -> Contents] /\ made \in Contents
  BY MessagesTyped DEF IInv
<1>3. 0 \in Contents /\ NoFiles \in [Paths -> Contents] /\ \A p \in Paths : NoFiles[p] = 0
  BY BoundsAssumption DEF Contents, NoFiles
<1>4. \A S : <<>> \in Seq(S) /\ Len(<<>>) = 0
  BY EmptySeq
<1>5. g \in Pages /\ g.queued = <<>> /\ g.inFlight = <<>> /\ g.started = FALSE
  BY <1>2, <1>4 DEF Pages
<1> HIDE DEF g
<1>6. WorkerOK(NewWorker)
  <2>1. NewWorker \in Workers
    BY <1>3, <1>4 DEF NewWorker, Workers
  <2>2. NewWorker.order = <<>> /\ NewWorker.files = NoFiles
    BY DEF NewWorker
  <2>3. ToSet(NewWorker.order) = {p \in Paths : NewWorker.files[p] # 0}
    BY <1>3, <2>2, NamesEmpty
  <2>4. DOMAIN NewWorker.order = {}
    BY <2>2
  <2> QED BY <2>1, <2>3, <2>4 DEF WorkerOK, Listed, IsInjective
<1>7. Typed(g, <<>>, <<>>, NewWorker)
  <2>1. Apart(g.queued)
    BY <1>4, <1>5 DEF Apart, ApartAt
  <2> QED BY <1>4, <1>5, <1>6, <2>1, BoundsAssumption DEF Typed
<1>8. Shown(g)
  BY <1>5, NamesEmpty DEF Shown
<1>9. Delivered(g, <<>>, <<>>)
  BY <1>4, <1>5 DEF Delivered
<1>10. Starts(g, <<>>, <<>>, NewWorker)
  BY <1>5 DEF Starts, NewWorker
<1>11. Reported(NewWorker) /\ Heard(g, <<>>, <<>>, NewWorker) /\ Waits(NewWorker)
  BY DEF Reported, Heard, Waits, NewWorker
<1> QED BY <1>1, <1>2, <1>7, <1>8, <1>9, <1>10, <1>11 DEF IInv, Agree

LEMMA StutterKeeps ==
  ASSUME IInv, UNCHANGED vars
  PROVE  IInv'
BY DEF IInv, vars

LEMMA NextKeeps ==
  ASSUME AllReported, IInv, [Next]_vars
  PROVE  IInv'
<1>1. ASSUME NEW p \in Paths, WritesFile(p) \/ RemovesFile(p) \/ \E q \in Paths : RenamesFile(p, q)
      PROVE  IInv'
  BY <1>1, WritesFileKeeps, RemovesFileKeeps, RenamesFileKeeps
<1>2. ASSUME ReadsInput \/ Wakes
      PROVE  IInv'
  BY <1>2, IdleKeeps DEF ReadsInput, Wakes
<1>3. CASE ProgramStep
  BY <1>1, <1>2, <1>3, ChangesDirectoryKeeps, ClosesFileKeeps, ExitsKeeps, InputComesKeeps DEF ProgramStep
<1>4. CASE Start \/ Wakes \/ PostStart \/ Hears \/ Restart
  BY <1>2, <1>4, StartKeeps, PostStartKeeps, HearsKeeps, RestartKeeps
<1>5. CASE \E p \in Paths : Saves(p) \/ Deletes(p)
  BY <1>5, SaysKeeps
<1>6. CASE UNCHANGED vars
  BY <1>6, StutterKeeps
<1> QED BY <1>3, <1>4, <1>5, <1>6 DEF Next

---------------------------------------------------------------------------
(* What follows. *)

LEMMA AgreeMeansTyped == IInv => TypeOK
<1> SUFFICES ASSUME IInv PROVE TypeOK
  OBVIOUS
<1>1. Typed(page, mail, msgs, w)
  BY DEF IInv, Agree
<1>2. page \in Pages /\ mail \in Seq(Ops) /\ Len(mail) <= Batch /\ Apart(page.queued) /\ msgs \in Seq(Messages) /\ w \in Workers /\ Listed(w)
  BY <1>1 DEF Typed, WorkerOK
<1>3. IsInjective([i \in DOMAIN page.queued |-> page.queued[i][1]])
  <2>1. DOMAIN page.queued = 1..Len(page.queued)
    BY <1>2, LenProperties DEF Pages
  <2> QED BY <1>2, <2>1 DEF Apart, ApartAt, IsInjective
<1>4. \A m \in ToSet(msgs) : m.type \in {"files", "filesTaken", "exited"}
  <2>1. \A m \in ToSet(msgs) : m \in Messages
    BY <1>2, LenProperties, ElementOfSeq DEF ToSet
  <2>2. \A m \in Messages : m.type \in {"files", "filesTaken", "exited"}
    BY DEF Messages, Files, Taken, Exited
  <2> QED BY <2>1, <2>2
<1> QED BY <1>2, <1>3, <1>4 DEF TypeOK, Pages, Workers, Listed

LEMMA AgreeWhenQuiet == IInv => QuietIsSame
<1> SUFFICES ASSUME IInv, w.pc \in {"parked", "exited"}, msgs = <<>>, mail = <<>>, page.queued = <<>>
             PROVE  page.folder = w.files
  BY DEF QuietIsSame
<1>1. ~w.news /\ w.refused = {} /\ w.reported = w.files
  BY DEF IInv, Agree, Waits, Reported
<1>2. 1..Len(msgs) = {}
  BY EmptySeq
<1>3. ASSUME NEW p \in Paths
      PROVE  page.folder[p] = w.reported[p]
  <2>1. HeardOf(page, msgs, w, p)
    BY <1>1, NamesEmpty DEF IInv, Agree, Heard
  <2> QED BY <1>2, <2>1 DEF HeardOf
<1>4. page.folder \in [Paths -> Contents] /\ w.files \in [Paths -> Contents]
  BY MessagesTyped DEF Workers
<1> QED BY <1>1, <1>3, <1>4

\* FoldersAgree, at whatever size of a batch, number of changes, messages and interpreters: no
\* report that was on its way undoes what the student said last, and once both sides are quiet
\* the page (python_repl_web.dart) and the worker (python_repl_worker.js) hold the same folder.
\* It needs that the files are no more than a report may list.
THEOREM FoldersAlwaysAgree ==
  ASSUME AllReported
  PROVE  Spec => []FoldersAgree
<1>1. Init => IInv
  BY InitAgrees
<1>2. IInv /\ [Next]_vars => IInv'
  BY NextKeeps
<1>3. IInv => FoldersAgree
  <2>1. IInv => SaidIsShown
    BY DEF IInv, Agree, Shown, SaidIsShown
  <2> QED BY <2>1, AgreeMeansTyped, AgreeWhenQuiet DEF FoldersAgree
<1> QED BY <1>1, <1>2, <1>3, PTL DEF Spec
====
