---- MODULE Sums ----
(***************************************************************************)
(* Facts about SumFunctionOnSet of the community modules, which the models  *)
(* add bytes and reads up with, for every finite set.                       *)
(*                                                                         *)
(* The library's induction theorems have an operator as a parameter, which  *)
(* no prover here can be given. LeastSet takes their place: a fact about    *)
(* every subset of S is shown by looking at a least one that it does not    *)
(* hold of, and LeastNumber does the same for numbers.                      *)
(***************************************************************************)
EXTENDS Integers, FiniteSets, Functions, FiniteSetTheorems, TLAPS

\* Among sets of elements of a finite set one has none of the others below it.
LEMMA LeastSet ==
  ASSUME NEW S, IsFiniteSet(S), NEW F, F \subseteq SUBSET S, F # {}
  PROVE  \E T \in F : \A U \in F : U \subseteq T => U = T
<1>1. IsWellFoundedOn(StrictSubsetOrdering(S), FiniteSubsetsOf(S))
  BY FS_StrictSubsetOrderingWellFounded
<1>2. FiniteSubsetsOf(S) = SUBSET S
  BY FS_FiniteSubsetsOfFinite
<1>3. PICK T \in F : \A U \in F : ~ (<<U, T>> \in StrictSubsetOrdering(S))
  BY <1>1, <1>2, WFMin
<1> QED BY <1>3 DEF StrictSubsetOrdering

\* Among numbers one is the least.
LEMMA LeastNumber ==
  ASSUME NEW N, N \subseteq Nat, N # {}
  PROVE  \E n \in N : \A m \in N : n <= m
<1>1. PICK top \in N : TRUE
  OBVIOUS
<1> DEFINE F == {0 .. n : n \in {m \in N : m <= top}}
<1>2. IsFiniteSet(0 .. top)
  BY FS_Interval
<1>3. F \subseteq SUBSET (0 .. top) /\ F # {}
  <2>1. ASSUME NEW k \in N, k <= top
        PROVE  0 .. k \in SUBSET (0 .. top)
    BY <1>1, <2>1
  <2>2. top <= top
    BY <1>1
  <2> QED BY <1>1, <2>1, <2>2
<1> DEFINE all == 0 .. top
<1>4. \E T \in F : \A U \in F : U \subseteq T => U = T
  <2>1. IsFiniteSet(all) /\ F \subseteq SUBSET all /\ F # {}
    BY <1>2, <1>3
  <2> HIDE DEF F, all
  <2> QED BY <2>1, LeastSet
<1>5. PICK n \in N :
        n <= top /\ \A U \in F : U \subseteq 0 .. n => U = 0 .. n
  BY <1>4
<1>6. ASSUME NEW m \in N, ~ (n <= m)
      PROVE  FALSE
  <2>1. m <= top /\ 0 .. m \in F /\ 0 .. m \subseteq 0 .. n
    BY <1>5, <1>6
  <2>2. 0 .. m = 0 .. n
    BY <1>5, <2>1
  <2>3. n \in 0 .. n /\ n \notin 0 .. m
    BY <1>6
  <2> QED BY <2>2, <2>3
<1> QED BY <1>6

---------------------------------------------------------------------------
(* The sum is what its definition says: one member after another.           *)

Total(f, S) == SumFunctionOnSet(f, S)

Picked(T) == CHOOSE x \in T : TRUE
SumsOf(f, S, sum) ==
  sum = [T \in SUBSET S |-> IF T = {} THEN 0 ELSE f[Picked(T)] + sum[T \ {Picked(T)}]]

LEMMA TotalIs ==
  ASSUME NEW f, NEW S
  PROVE  Total(f, S) = (CHOOSE sum : SumsOf(f, S, sum))[S]
BY DEF Total, SumFunctionOnSet, FoldFunctionOnSet, MapThenFoldSet, SumsOf, Picked

LEMMA SumsAreEqual ==
  ASSUME NEW f, NEW S, IsFiniteSet(S), NEW a, NEW b, SumsOf(f, S, a), SumsOf(f, S, b)
  PROVE  a = b
<1> DEFINE F == {T \in SUBSET S : a[T] # b[T]}
<1>1. F = {}
  <2> SUFFICES ASSUME F # {} PROVE FALSE
    OBVIOUS
  <2>0. F \subseteq SUBSET S
    OBVIOUS
  <2> HIDE DEF F
  <2>1. PICK T \in F : \A U \in F : U \subseteq T => U = T
    BY <2>0, LeastSet
  <2> USE DEF F
  <2> DEFINE U == T \ {Picked(T)}
  <2>2. /\ a[T] = IF T = {} THEN 0 ELSE f[Picked(T)] + a[U]
        /\ b[T] = IF T = {} THEN 0 ELSE f[Picked(T)] + b[U]
    BY DEF SumsOf
  <2>3. T # {} /\ Picked(T) \in T
    BY <2>2 DEF Picked
  <2>4. a[U] = b[U]
    BY <2>1, <2>3
  <2> QED BY <2>1, <2>2, <2>3, <2>4
<1> QED BY <1>1 DEF SumsOf

LEMMA SumsWithin ==
  ASSUME NEW f, NEW S, IsFiniteSet(S), NEW a, SumsOf(f, S, a), NEW T \in SUBSET S
  PROVE  a[T] = Total(f, T)
<1> DEFINE b == [U \in SUBSET T |-> a[U]]
<1>1. IsFiniteSet(T)
  BY FS_Subset
<1>2. SumsOf(f, T, b)
  <2>1. ASSUME NEW U \in SUBSET T
        PROVE  b[U] = IF U = {} THEN 0 ELSE f[Picked(U)] + b[U \ {Picked(U)}]
    <3>1. U \in SUBSET S /\ U \ {Picked(U)} \in SUBSET T
      OBVIOUS
    <3>2. a[U] = IF U = {} THEN 0 ELSE f[Picked(U)] + a[U \ {Picked(U)}]
      BY <3>1 DEF SumsOf
    <3> QED BY <3>1, <3>2
  <2>2. b = [U \in SUBSET T |-> IF U = {} THEN 0 ELSE f[Picked(U)] + b[U \ {Picked(U)}]]
    BY <2>1
  <2> HIDE DEF b
  <2> QED BY <2>2 DEF SumsOf
<1> HIDE DEF b
<1> DEFINE c == CHOOSE sum : SumsOf(f, T, sum)
<1>3. SumsOf(f, T, c)
  BY <1>2
<1> HIDE DEF c
<1>4. b = c
  BY <1>1, <1>2, <1>3, SumsAreEqual
<1>5. Total(f, T) = c[T]
  BY TotalIs DEF c
<1> QED BY <1>4, <1>5 DEF b

LEMMA SumsExist ==
  ASSUME NEW f, NEW S, IsFiniteSet(S)
  PROVE  \E sum : SumsOf(f, S, sum)
<1> DEFINE F == {T \in SUBSET S : ~ \E sum : SumsOf(f, T, sum)}
<1>1. F = {}
  <2> SUFFICES ASSUME F # {} PROVE FALSE
    OBVIOUS
  <2>0. F \subseteq SUBSET S
    OBVIOUS
  <2> HIDE DEF F
  <2>1. PICK T \in F : \A U \in F : U \subseteq T => U = T
    BY <2>0, LeastSet
  <2> USE DEF F
  <2>2. ASSUME NEW U \in SUBSET T, U # T
        PROVE  Total(f, U) = IF U = {} THEN 0 ELSE f[Picked(U)] + Total(f, U \ {Picked(U)})
    <3>1. IsFiniteSet(U) /\ U \in SUBSET U /\ U \ {Picked(U)} \in SUBSET U
      BY FS_Subset
    <3>2. PICK a : SumsOf(f, U, a)
      BY <2>1, <2>2
    <3>3. a[U] = IF U = {} THEN 0 ELSE f[Picked(U)] + a[U \ {Picked(U)}]
      BY <3>1, <3>2 DEF SumsOf
    <3>4. a[U] = Total(f, U) /\ a[U \ {Picked(U)}] = Total(f, U \ {Picked(U)})
      BY <3>1, <3>2, SumsWithin
    <3> QED BY <3>3, <3>4
  <2> DEFINE a == [U \in SUBSET T |-> IF U = {} THEN 0 ELSE f[Picked(U)] + Total(f, U \ {Picked(U)})]
  <2>3. ASSUME NEW U \in SUBSET T, U # {}
        PROVE  a[U \ {Picked(U)}] = Total(f, U \ {Picked(U)})
    <3>1. Picked(U) \in U
      BY <2>3 DEF Picked
    <3>2. U \ {Picked(U)} \in SUBSET T /\ U \ {Picked(U)} # T
      BY <3>1
    <3> QED BY <3>2, <2>2
  <2>4. a = [U \in SUBSET T |-> IF U = {} THEN 0 ELSE f[Picked(U)] + a[U \ {Picked(U)}]]
    BY <2>3
  <2> HIDE DEF a
  <2>5. SumsOf(f, T, a)
    BY <2>4 DEF SumsOf
  <2> QED BY <2>1, <2>5
<1> QED BY <1>1

---------------------------------------------------------------------------
(* Sums, as they are used.                                                  *)

LEMMA TotalStep ==
  ASSUME NEW f, NEW S, IsFiniteSet(S)
  PROVE  Total(f, S) = IF S = {} THEN 0 ELSE f[Picked(S)] + Total(f, S \ {Picked(S)})
<1>1. PICK a : SumsOf(f, S, a)
  BY SumsExist
<1>2. S \in SUBSET S /\ S \ {Picked(S)} \in SUBSET S
  OBVIOUS
<1>3. a[S] = IF S = {} THEN 0 ELSE f[Picked(S)] + a[S \ {Picked(S)}]
  BY <1>1, <1>2 DEF SumsOf
<1>4. a[S] = Total(f, S) /\ a[S \ {Picked(S)}] = Total(f, S \ {Picked(S)})
  BY <1>1, <1>2, SumsWithin
<1> QED BY <1>3, <1>4

LEMMA TotalInt ==
  ASSUME NEW f, NEW S, IsFiniteSet(S), \A x \in S : f[x] \in Int
  PROVE  Total(f, S) \in Int
<1> DEFINE F == {T \in SUBSET S : Total(f, T) \notin Int}
<1>1. F = {}
  <2> SUFFICES ASSUME F # {} PROVE FALSE
    OBVIOUS
  <2>0. F \subseteq SUBSET S
    OBVIOUS
  <2> HIDE DEF F
  <2>1. PICK T \in F : \A U \in F : U \subseteq T => U = T
    BY <2>0, LeastSet
  <2> USE DEF F
  <2>2. IsFiniteSet(T)
    BY FS_Subset
  <2>3. Total(f, T) = IF T = {} THEN 0 ELSE f[Picked(T)] + Total(f, T \ {Picked(T)})
    BY <2>2, TotalStep
  <2>4. T # {} /\ Picked(T) \in T
    BY <2>3 DEF Picked
  <2>5. Total(f, T \ {Picked(T)}) \in Int
    BY <2>1, <2>4
  <2> QED BY <2>3, <2>4, <2>5
<1> QED BY <1>1

\* Whichever member is taken first, the sum is the same.
LEMMA TotalTake ==
  ASSUME NEW f, NEW S, IsFiniteSet(S), \A x \in S : f[x] \in Int, NEW x \in S
  PROVE  Total(f, S) = f[x] + Total(f, S \ {x})
<1> DEFINE F == {T \in SUBSET S : \E y \in T : Total(f, T) # f[y] + Total(f, T \ {y})}
<1>1. F = {}
  <2> SUFFICES ASSUME F # {} PROVE FALSE
    OBVIOUS
  <2>0. F \subseteq SUBSET S
    OBVIOUS
  <2> HIDE DEF F
  <2>1. PICK T \in F : \A U \in F : U \subseteq T => U = T
    BY <2>0, LeastSet
  <2> USE DEF F
  <2>2. PICK y \in T : Total(f, T) # f[y] + Total(f, T \ {y})
    BY <2>1
  <2> DEFINE p == Picked(T)
  <2>3. p \in T
    BY <2>2 DEF Picked
  <2>4. IsFiniteSet(T)
    BY FS_Subset
  <2>5. Total(f, T) = f[p] + Total(f, T \ {p})
    BY <2>2, <2>4, TotalStep
  <2>6. y # p
    BY <2>2, <2>5
  <2> HIDE DEF p
  <2>7. Total(f, T \ {p}) = f[y] + Total(f, (T \ {p}) \ {y})
    <3>1. T \ {p} \in SUBSET S /\ T \ {p} # T /\ y \in T \ {p}
      BY <2>2, <2>3, <2>6
    <3>2. T \ {p} \notin F
      BY <2>1, <3>1
    <3> QED BY <3>1, <3>2
  <2>8. Total(f, T \ {y}) = f[p] + Total(f, (T \ {y}) \ {p})
    <3>1. T \ {y} \in SUBSET S /\ T \ {y} # T /\ p \in T \ {y}
      BY <2>2, <2>3, <2>6
    <3>2. T \ {y} \notin F
      BY <2>1, <3>1
    <3> QED BY <3>1, <3>2
  <2>9. (T \ {p}) \ {y} = (T \ {y}) \ {p}
    OBVIOUS
  <2> DEFINE rest == Total(f, (T \ {y}) \ {p})
  <2>10. rest \in Int
    <3>1. IsFiniteSet((T \ {y}) \ {p})
      BY <2>4, FS_Subset
    <3> QED BY <3>1, TotalInt
  <2>11. f[y] \in Int /\ f[p] \in Int
    BY <2>3
  <2> HIDE DEF rest
  <2>12. f[p] + (f[y] + rest) = f[y] + (f[p] + rest)
    BY <2>10, <2>11
  <2> QED BY <2>2, <2>5, <2>7, <2>8, <2>9, <2>12 DEF rest
<1> QED BY <1>1

LEMMA TotalEmpty == \A f : Total(f, {}) = 0
<1> TAKE f
<1>1. IsFiniteSet({})
  BY FS_EmptySet
<1> QED BY <1>1, TotalStep

LEMMA TotalAdd ==
  ASSUME NEW f, NEW S, IsFiniteSet(S), NEW x, x \notin S, \A y \in S \cup {x} : f[y] \in Int
  PROVE  Total(f, S \cup {x}) = Total(f, S) + f[x]
<1> DEFINE T == S \cup {x}
<1>1. IsFiniteSet(T) /\ x \in T /\ T \ {x} = S
  BY FS_AddElement
<1> HIDE DEF T
<1>2. Total(f, T) = f[x] + Total(f, S)
  BY <1>1, TotalTake DEF T
<1>3. Total(f, S) \in Int /\ f[x] \in Int
  BY TotalInt
<1> QED BY <1>2, <1>3 DEF T

\* A part of the set and what is left of it make up the whole.
LEMMA TotalSplit ==
  ASSUME NEW f, NEW S, IsFiniteSet(S), \A x \in S : f[x] \in Int, NEW T \in SUBSET S
  PROVE  Total(f, S) = Total(f, T) + Total(f, S \ T)
<1> DEFINE F == {U \in SUBSET S : Total(f, S) # Total(f, U) + Total(f, S \ U)}
<1>1. F = {}
  <2> SUFFICES ASSUME F # {} PROVE FALSE
    OBVIOUS
  <2>0. F \subseteq SUBSET S
    OBVIOUS
  <2> HIDE DEF F
  <2>1. PICK U \in F : \A V \in F : V \subseteq U => V = U
    BY <2>0, LeastSet
  <2> USE DEF F
  <2>2. U # {}
    <3>1. Total(f, {}) = 0 /\ S \ {} = S
      BY TotalEmpty
    <3>2. Total(f, S) \in Int
      BY TotalInt
    <3>3. Total(f, S) = 0 + Total(f, S)
      BY <3>2
    <3>4. Total(f, S) # Total(f, U) + Total(f, S \ U)
      BY <2>1
    <3> QED BY <3>1, <3>3, <3>4
  <2>3. PICK p \in U : TRUE
    BY <2>2
  <2> DEFINE V == U \ {p}
  <2>4. /\ V \in SUBSET S /\ p \notin V /\ V \cup {p} = U
        /\ p \notin S \ U /\ S \ V = (S \ U) \cup {p}
    OBVIOUS
  <2>5. Total(f, S) = Total(f, V) + Total(f, S \ V)
    BY <2>1, <2>3, <2>4
  <2>6. IsFiniteSet(V) /\ IsFiniteSet(S \ U)
    BY FS_Subset
  <2> HIDE DEF V
  <2>7. Total(f, U) = Total(f, V) + f[p]
    BY <2>4, <2>6, TotalAdd
  <2>8. Total(f, S \ V) = Total(f, S \ U) + f[p]
    <3>1. \A y \in (S \ U) \cup {p} : f[y] \in Int
      OBVIOUS
    <3>2. Total(f, (S \ U) \cup {p}) = Total(f, S \ U) + f[p]
      BY <2>4, <2>6, <3>1, TotalAdd
    <3> QED BY <2>4, <3>2
  <2>9. Total(f, V) \in Int /\ Total(f, S \ U) \in Int /\ f[p] \in Int
    BY <2>4, <2>6, TotalInt
  <2>10. Total(f, S) = Total(f, U) + Total(f, S \ U)
    BY <2>5, <2>7, <2>8, <2>9
  <2> QED BY <2>1, <2>10
<1> QED BY <1>1

\* Only the values in the set count, and one that changes changes the sum as much.
LEMMA TotalSame ==
  ASSUME NEW f, NEW g, NEW S, IsFiniteSet(S), \A x \in S : f[x] = g[x]
  PROVE  Total(f, S) = Total(g, S)
<1> DEFINE F == {T \in SUBSET S : Total(f, T) # Total(g, T)}
<1>1. F = {}
  <2> SUFFICES ASSUME F # {} PROVE FALSE
    OBVIOUS
  <2>0. F \subseteq SUBSET S
    OBVIOUS
  <2> HIDE DEF F
  <2>1. PICK T \in F : \A U \in F : U \subseteq T => U = T
    BY <2>0, LeastSet
  <2> USE DEF F
  <2>2. IsFiniteSet(T)
    BY FS_Subset
  <2>3. /\ Total(f, T) = IF T = {} THEN 0 ELSE f[Picked(T)] + Total(f, T \ {Picked(T)})
        /\ Total(g, T) = IF T = {} THEN 0 ELSE g[Picked(T)] + Total(g, T \ {Picked(T)})
    BY <2>2, TotalStep
  <2>4. T # {} /\ Picked(T) \in T
    BY <2>3 DEF Picked
  <2>5. Total(f, T \ {Picked(T)}) = Total(g, T \ {Picked(T)})
    BY <2>1, <2>4
  <2> QED BY <2>3, <2>4, <2>5
<1> QED BY <1>1

LEMMA TotalChange ==
  ASSUME NEW f, NEW g, NEW S, IsFiniteSet(S), NEW x \in S, \A y \in S \ {x} : f[y] = g[y],
         \A y \in S : f[y] \in Int, g[x] \in Int
  PROVE  Total(g, S) = Total(f, S) - f[x] + g[x]
<1>1. IsFiniteSet(S \ {x})
  BY FS_RemoveElement
<1>2. \A y \in S : g[y] \in Int
  OBVIOUS
<1>3. Total(f, S) = f[x] + Total(f, S \ {x})
  BY TotalTake
<1>4. Total(g, S) = g[x] + Total(g, S \ {x})
  BY <1>2, TotalTake
<1>5. Total(f, S \ {x}) = Total(g, S \ {x})
  BY <1>1, TotalSame
<1>6. Total(f, S \ {x}) \in Int /\ f[x] \in Int
  BY <1>1, TotalInt
<1> QED BY <1>3, <1>4, <1>5, <1>6

\* A sum is at least each of its parts, and grows with them.
LEMMA TotalGrows ==
  ASSUME NEW f, NEW g, NEW S, IsFiniteSet(S), \A x \in S : f[x] \in Int /\ g[x] \in Int /\ f[x] <= g[x]
  PROVE  Total(f, S) <= Total(g, S)
<1> DEFINE F == {T \in SUBSET S : ~ (Total(f, T) <= Total(g, T))}
<1>1. F = {}
  <2> SUFFICES ASSUME F # {} PROVE FALSE
    OBVIOUS
  <2>0. F \subseteq SUBSET S
    OBVIOUS
  <2> HIDE DEF F
  <2>1. PICK T \in F : \A U \in F : U \subseteq T => U = T
    BY <2>0, LeastSet
  <2> USE DEF F
  <2>2. IsFiniteSet(T)
    BY FS_Subset
  <2> DEFINE U == T \ {Picked(T)}
  <2>3. /\ Total(f, T) = IF T = {} THEN 0 ELSE f[Picked(T)] + Total(f, U)
        /\ Total(g, T) = IF T = {} THEN 0 ELSE g[Picked(T)] + Total(g, U)
    BY <2>2, TotalStep
  <2>4. T # {} /\ Picked(T) \in T
    BY <2>1, <2>3 DEF Picked
  <2>5. Total(f, U) <= Total(g, U)
    BY <2>1, <2>4
  <2>6. IsFiniteSet(U) /\ U \subseteq S
    BY <2>2, FS_Subset
  <2> HIDE DEF U
  <2>7. Total(f, U) \in Int /\ Total(g, U) \in Int
    BY <2>6, TotalInt
  <2>8. f[Picked(T)] \in Int /\ g[Picked(T)] \in Int /\ f[Picked(T)] <= g[Picked(T)]
    BY <2>4
  <2>9. Total(f, T) <= Total(g, T)
    BY <2>3, <2>4, <2>5, <2>7, <2>8
  <2> QED BY <2>1, <2>9
<1> QED BY <1>1

LEMMA TotalNat ==
  ASSUME NEW f, NEW S, IsFiniteSet(S), \A x \in S : f[x] \in Nat
  PROVE  /\ Total(f, S) \in Nat
         /\ \A x \in S : f[x] <= Total(f, S)
         /\ Total(f, S) = 0 <=> \A x \in S : f[x] = 0
<1> DEFINE zero == [x \in S |-> 0]
<1>1. ASSUME NEW T \in SUBSET S
      PROVE  Total(zero, T) = 0
  <2> DEFINE F == {U \in SUBSET S : Total(zero, U) # 0}
  <2>1. F = {}
    <3> SUFFICES ASSUME F # {} PROVE FALSE
      OBVIOUS
    <3>0. F \subseteq SUBSET S
      OBVIOUS
    <3> HIDE DEF F
    <3>1. PICK U \in F : \A V \in F : V \subseteq U => V = U
      BY <3>0, LeastSet
    <3> USE DEF F
    <3>2. IsFiniteSet(U)
      BY FS_Subset
    <3> DEFINE V == U \ {Picked(U)}
    <3>3. Total(zero, U) = IF U = {} THEN 0 ELSE zero[Picked(U)] + Total(zero, V)
      BY <3>2, TotalStep
    <3>4. U # {} /\ Picked(U) \in U /\ zero[Picked(U)] = 0
      BY <3>1, <3>3 DEF Picked
    <3>5. Total(zero, V) = 0
      BY <3>1, <3>4
    <3> QED BY <3>1, <3>3, <3>4, <3>5
  <2> QED BY <2>1
<1>2. ASSUME NEW T \in SUBSET S
      PROVE  Total(f, T) \in Int /\ 0 <= Total(f, T)
  <2>1. IsFiniteSet(T)
    BY FS_Subset
  <2>2. Total(f, T) \in Int
    BY <2>1, TotalInt
  <2>3. \A x \in T : zero[x] \in Int /\ f[x] \in Int /\ zero[x] <= f[x]
    OBVIOUS
  <2> HIDE DEF zero
  <2>4. Total(zero, T) <= Total(f, T)
    BY <2>1, <2>3, TotalGrows
  <2> QED BY <1>1, <2>2, <2>4
<1>3. Total(f, S) \in Nat
  BY <1>2
<1>4. ASSUME NEW x \in S
      PROVE  f[x] <= Total(f, S)
  <2>1. Total(f, S) = f[x] + Total(f, S \ {x})
    BY TotalTake
  <2>2. Total(f, S \ {x}) \in Int /\ 0 <= Total(f, S \ {x})
    BY <1>2
  <2> QED BY <2>1, <2>2
<1>5. ASSUME \A x \in S : f[x] = 0
      PROVE  Total(f, S) = 0
  <2>1. Total(f, S) = Total(zero, S)
    BY <1>5, TotalSame
  <2> QED BY <1>1, <2>1
<1>6. ASSUME Total(f, S) = 0, NEW x \in S
      PROVE  f[x] = 0
  <2>1. f[x] <= 0 /\ f[x] \in Nat
    BY <1>4, <1>6
  <2> QED BY <2>1
<1> QED BY <1>3, <1>4, <1>5, <1>6

====
