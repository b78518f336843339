---- MODULE FoldFacts ----
(***************************************************************************)
(* Facts about FoldLeft of the community modules, for every operator and    *)
(* every sequence: a fold is its steps, one element after another. A module *)
(* that folds takes them by INSTANCE, with its own operator for Op, and     *)
(* shows that its FoldLeft is this Fold by the definitions alone.           *)
(***************************************************************************)
EXTENDS Sums, SequenceTheorems

CONSTANT Op(_, _)

\* The last index: Max of the community modules.
Greatest(s) == CHOOSE x \in s : \A y \in s : x >= y

\* The function FoldLeft goes through, and what it makes of it.
FoldsTo(f, x, ops, S) ==
  f = [s \in SUBSET S |-> IF s = {} THEN x ELSE Op(f[s \ {Greatest(s)}], ops[Greatest(s)])]

Fold(x, ops) == (CHOOSE f : FoldsTo(f, x, ops, DOMAIN ops))[DOMAIN ops]

\* What there is after each element.
Steps(g, x, ops) == g[0] = x /\ \A k \in 1..Len(ops) : g[k] = Op(g[k - 1], ops[k])

LEMMA GreatestIs ==
  ASSUME NEW n \in Nat, NEW N, N \subseteq 1..n, n \in N
  PROVE  Greatest(N) = n
<1>1. n \in N /\ \A m \in N : n >= m
  OBVIOUS
<1>2. Greatest(N) \in N /\ \A m \in N : Greatest(N) >= m
  BY <1>1 DEF Greatest
<1>3. Greatest(N) \in 1..n /\ Greatest(N) >= n
  BY <1>1, <1>2
<1> QED BY <1>3

LEMMA FoldsToSome ==
  ASSUME NEW x, NEW ops, NEW n \in Nat
  PROVE  \E f : FoldsTo(f, x, ops, 1..n)
<1> DEFINE N == {m \in Nat : ~ \E f : FoldsTo(f, x, ops, 1..m)}
<1>1. N = {}
  <2> SUFFICES ASSUME N # {} PROVE FALSE
    OBVIOUS
  <2>0. N \subseteq Nat
    OBVIOUS
  <2> HIDE DEF N
  <2>1. PICK m \in N : \A k \in N : m <= k
    BY <2>0, LeastNumber
  <2> USE DEF N
  <2>2. m # 0
    <3> SUFFICES ASSUME m = 0 PROVE FALSE
      OBVIOUS
    <3> DEFINE f == [s \in SUBSET (1..0) |-> x]
    <3>1. \A s \in SUBSET (1..0) : s = {}
      OBVIOUS
    <3>2. f = [s \in SUBSET (1..0) |-> IF s = {} THEN x ELSE Op(f[s \ {Greatest(s)}], ops[Greatest(s)])]
      BY <3>1
    <3> HIDE DEF f
    <3>3. FoldsTo(f, x, ops, 1..0)
      BY <3>2 DEF FoldsTo
    <3> QED BY <3>3
  <2>3. m - 1 \in Nat /\ ~ (m <= m - 1)
    BY <2>0, <2>2
  <2>4. PICK g : FoldsTo(g, x, ops, 1..(m - 1))
    BY <2>1, <2>3
  <2> DEFINE f == [s \in SUBSET (1..m) |-> IF m \in s THEN Op(g[s \ {m}], ops[m]) ELSE g[s]]
  <2>5. ASSUME NEW s \in SUBSET (1..m)
        PROVE  f[s] = IF s = {} THEN x ELSE Op(f[s \ {Greatest(s)}], ops[Greatest(s)])
    <3>1. CASE m \in s
      <4>1. Greatest(s) = m
        BY <2>2, <3>1, GreatestIs
      <4>2. s \ {m} \in SUBSET (1..m) /\ m \notin s \ {m}
        OBVIOUS
      <4>3. f[s \ {m}] = g[s \ {m}]
        BY <4>2
      <4>4. f[s] = Op(g[s \ {m}], ops[m])
        BY <3>1
      <4> HIDE DEF f
      <4> QED BY <3>1, <4>1, <4>3, <4>4
    <3>2. CASE m \notin s
      <4>1. s \in SUBSET (1..(m - 1))
        BY <2>3, <3>2
      <4>2. g[s] = IF s = {} THEN x ELSE Op(g[s \ {Greatest(s)}], ops[Greatest(s)])
        BY <2>4, <4>1 DEF FoldsTo
      <4>3. f[s] = g[s] /\ f[s \ {Greatest(s)}] = g[s \ {Greatest(s)}]
        BY <3>2
      <4> HIDE DEF f
      <4> QED BY <4>2, <4>3
    <3> QED BY <3>1, <3>2
  <2>6. f = [s \in SUBSET (1..m) |-> IF s = {} THEN x ELSE Op(f[s \ {Greatest(s)}], ops[Greatest(s)])]
    BY <2>5
  <2> HIDE DEF f
  <2>7. FoldsTo(f, x, ops, 1..m)
    BY <2>6 DEF FoldsTo
  <2> QED BY <2>1, <2>7
<1> QED BY <1>1

\* A fold has steps, and it is where they end.
LEMMA FoldSteps ==
  ASSUME NEW x, NEW S, NEW ops \in Seq(S)
  PROVE  \E g : Steps(g, x, ops) /\ Fold(x, ops) = g[Len(ops)]
<1> DEFINE l == Len(ops)
           f == CHOOSE h : FoldsTo(h, x, ops, 1..l)
           g == [k \in 0..l |-> f[1..k]]
<1>1. l \in Nat /\ DOMAIN ops = 1..l
  BY LenProperties
<1> HIDE DEF l
<1>2. FoldsTo(f, x, ops, 1..l)
  BY <1>1, FoldsToSome
<1>3. Fold(x, ops) = f[1..l]
  BY <1>1 DEF Fold
<1> HIDE DEF f
<1>4. \A s \in SUBSET (1..l) : f[s] = IF s = {} THEN x ELSE Op(f[s \ {Greatest(s)}], ops[Greatest(s)])
  BY <1>2 DEF FoldsTo
<1>5. g[0] = x
  <2>1. 0 \in 0..l /\ 1..0 = {} /\ {} \in SUBSET (1..l)
    BY <1>1
  <2> QED BY <1>4, <2>1
<1>6. ASSUME NEW k \in 1..l
      PROVE  g[k] = Op(g[k - 1], ops[k])
  <2>1. k \in 0..l /\ k - 1 \in 0..l /\ k \in Nat /\ k # 0
    BY <1>1
  <2>2. 1..k \in SUBSET (1..l) /\ k \in 1..k /\ 1..k # {} /\ (1..k) \ {k} = 1..(k - 1)
    BY <1>1
  <2>3. Greatest(1..k) = k
    BY <2>1, <2>2, GreatestIs
  <2>4. f[1..k] = Op(f[(1..k) \ {Greatest(1..k)}], ops[Greatest(1..k)])
    BY <1>4, <2>2
  <2> QED BY <2>1, <2>2, <2>3, <2>4
<1>7. Fold(x, ops) = g[l]
  BY <1>1, <1>3
<1> HIDE DEF g
<1> QED BY <1>5, <1>6, <1>7 DEF l, Steps

LEMMA StepsEnd ==
  ASSUME NEW x, NEW S, NEW ops \in Seq(S), NEW h, Steps(h, x, ops)
  PROVE  h[Len(ops)] = Fold(x, ops)
<1>1. PICK g : Steps(g, x, ops) /\ Fold(x, ops) = g[Len(ops)]
  BY FoldSteps
<1> DEFINE N == {k \in 0..Len(ops) : g[k] # h[k]}
<1>2. N = {}
  <2> SUFFICES ASSUME N # {} PROVE FALSE
    OBVIOUS
  <2>0. N \subseteq Nat
    OBVIOUS
  <2> HIDE DEF N
  <2>1. PICK m \in N : \A k \in N : m <= k
    BY <2>0, LeastNumber
  <2> USE DEF N
  <2>2. CASE m = 0
    BY <1>1, <2>1, <2>2 DEF Steps
  <2>3. CASE m # 0
    <3>1. m \in 1..Len(ops) /\ m - 1 \in 0..Len(ops) /\ ~ (m <= m - 1)
      BY <2>1, <2>3, LenProperties
    <3>2. g[m - 1] = h[m - 1]
      BY <2>1, <3>1
    <3> QED BY <1>1, <2>1, <3>1, <3>2 DEF Steps
  <2> QED BY <2>2, <2>3
<1>3. Len(ops) \in 0..Len(ops)
  BY LenProperties
<1> QED BY <1>1, <1>2, <1>3

LEMMA FoldNothing ==
  ASSUME NEW x
  PROVE  Fold(x, <<>>) = x
<1>1. PICK g : Steps(g, x, <<>>) /\ Fold(x, <<>>) = g[Len(<<>>)]
  BY FoldSteps, EmptySeq
<1> QED BY <1>1 DEF Steps

\* First the one sequence, then the other.
LEMMA FoldConcat ==
  ASSUME NEW x, NEW S, NEW s \in Seq(S), NEW t \in Seq(S)
  PROVE  Fold(x, s \o t) = Fold(Fold(x, s), t)
<1> DEFINE m == Len(s)
           n == Len(t)
           u == s \o t
<1>1. m \in Nat /\ n \in Nat
  BY LenProperties
<1>2. /\ u \in Seq(S) /\ Len(u) = m + n
      /\ \A k \in 1..(m + n) : u[k] = IF k <= m THEN s[k] ELSE t[k - m]
  BY ConcatProperties
<1>3. PICK g : Steps(g, x, s) /\ Fold(x, s) = g[m]
  BY FoldSteps
<1>4. PICK h : Steps(h, Fold(x, s), t) /\ Fold(Fold(x, s), t) = h[n]
  BY FoldSteps
<1> DEFINE c == [k \in 0..(m + n) |-> IF k <= m THEN g[k] ELSE h[k - m]]
<1>5. g[0] = x /\ \A k \in 1..m : g[k] = Op(g[k - 1], s[k])
  BY <1>3 DEF Steps
<1>6. h[0] = g[m] /\ \A k \in 1..n : h[k] = Op(h[k - 1], t[k])
  BY <1>3, <1>4 DEF Steps
<1> HIDE DEF m, n, u
<1>7. c[0] = x
  BY <1>1, <1>5
<1>8. ASSUME NEW k \in 1..(m + n)
      PROVE  c[k] = Op(c[k - 1], u[k])
  <2>1. k \in 0..(m + n) /\ k - 1 \in 0..(m + n)
    BY <1>1
  <2>2. CASE k <= m
    <3>1. k \in 1..m /\ k - 1 <= m
      BY <1>1, <2>2
    <3>2. c[k] = g[k] /\ c[k - 1] = g[k - 1] /\ u[k] = s[k]
      BY <1>2, <2>1, <2>2, <3>1
    <3> HIDE DEF c
    <3> QED BY <1>5, <3>1, <3>2
  <2>3. CASE k = m + 1
    <3>1. 1 \in 1..n /\ k - m = 1 /\ k - 1 = m /\ ~ (k <= m)
      BY <1>1, <2>3
    <3>2. c[k] = h[1] /\ c[k - 1] = g[m] /\ u[k] = t[1]
      BY <1>1, <1>2, <2>1, <3>1
    <3>3. h[1] = Op(h[0], t[1])
      <4>1. 1 - 1 = 0
        OBVIOUS
      <4> QED BY <1>6, <3>1, <4>1
    <3> HIDE DEF c
    <3> QED BY <1>6, <3>2, <3>3
  <2>4. CASE ~ (k <= m) /\ k # m + 1
    <3>1. k - m \in 1..n /\ ~ (k - 1 <= m) /\ (k - 1) - m = (k - m) - 1
      BY <1>1, <2>4
    <3>2. c[k] = h[k - m] /\ c[k - 1] = h[(k - m) - 1] /\ u[k] = t[k - m]
      BY <1>2, <2>1, <2>4, <3>1
    <3> HIDE DEF c
    <3> QED BY <1>6, <3>1, <3>2
  <2> QED BY <2>2, <2>3, <2>4
<1>9. c[m + n] = h[n]
  <2>1. CASE n = 0
    <3>1. m + n = m /\ m \in 0..(m + n) /\ m <= m
      BY <1>1, <2>1
    <3>2. c[m + n] = g[m]
      BY <3>1
    <3> QED BY <1>6, <2>1, <3>2
  <2>2. CASE n # 0
    <3>1. m + n \in 0..(m + n) /\ ~ (m + n <= m) /\ (m + n) - m = n
      BY <1>1, <2>2
    <3> QED BY <3>1
  <2> QED BY <2>1, <2>2
<1> HIDE DEF c
<1>10. Steps(c, x, u)
  BY <1>2, <1>7, <1>8 DEF Steps
<1>11. c[m + n] = Fold(x, u)
  BY <1>2, <1>10, StepsEnd
<1> QED BY <1>4, <1>9, <1>11 DEF u

LEMMA FoldOne ==
  ASSUME NEW x, NEW b
  PROVE  Fold(x, <<b>>) = Op(x, b)
<1>1. <<b>> \in Seq({b}) /\ Len(<<b>>) = 1 /\ <<b>>[1] = b
  OBVIOUS
<1>2. PICK g : Steps(g, x, <<b>>) /\ Fold(x, <<b>>) = g[1]
  BY <1>1, FoldSteps
<1>3. 1 \in 1..Len(<<b>>) /\ 1 - 1 = 0
  BY <1>1
<1>4. g[1] = Op(g[0], b)
  BY <1>1, <1>2, <1>3 DEF Steps
<1> QED BY <1>2, <1>4 DEF Steps

LEMMA FoldAppend ==
  ASSUME NEW x, NEW S, NEW s \in Seq(S), NEW b \in S
  PROVE  Fold(x, Append(s, b)) = Op(Fold(x, s), b)
<1> DEFINE t == <<b>>
<1>1. Append(s, b) = s \o t /\ t \in Seq(S)
  BY AppendIsConcat
<1>2. Fold(Fold(x, s), t) = Op(Fold(x, s), b)
  BY FoldOne
<1> HIDE DEF t
<1>3. Fold(x, s \o t) = Fold(Fold(x, s), t)
  BY <1>1, FoldConcat
<1> QED BY <1>1, <1>2, <1>3

====
