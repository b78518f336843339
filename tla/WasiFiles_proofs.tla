---- MODULE WasiFiles_proofs ----
(***************************************************************************)
(* Proofs about the file system of a Python program, for any names, nodes,  *)
(* descriptors and quota: the quota charges the bytes something can still   *)
(* reach, the tree stays one, the library stays in it, and a file holds     *)
(* what POSIX says.                                                         *)
(*                                                                         *)
(* Operations are put together from a few changes of the tree: a node is    *)
(* made, changed, dropped, moved or gone. Each keeps Sound.                  *)
(***************************************************************************)
EXTENDS WasiFiles, Sums, SequenceTheorems, TLAPS

Kinds == {None, "dir", "file", "sink"}
NodeType == [kind : Kinds, buf : Seq({0, 1}), size : Nat, opens : Nat, unlinked : BOOLEAN]
FdType == [node : Nodes \cup {None}, append : BOOLEAN, writable : BOOLEAN, offset : Nat]
TreeType == [node : [Nodes -> NodeType], kids : [Nodes -> [AllNames -> Nodes \cup {None}]], used : Nat]

\* A node that is not there is blank, only directories have entries, and only files and /dev/null
\* have bytes.
Shaped(t) ==
  /\ t \in TreeType
  /\ \A n \in Nodes :
       /\ t.node[n].size <= Len(t.node[n].buf)
       /\ t.node[n].kind = None => t.node[n] = NoNode
       /\ t.node[n].kind # "dir" => t.kids[n] = NoKids
       /\ t.node[n].kind \notin {"file", "sink"} => t.node[n].size = 0
       /\ t.node[n].unlinked => t.node[n].opens > 0 /\ t.kids[n] = NoKids

\* Each node but the root has one name, unless it was taken off.
Linked(t) ==
  /\ \A d, e \in Nodes, x, y \in AllNames : t.kids[d][x] = t.kids[e][y] /\ t.kids[d][x] # None => d = e /\ x = y
  /\ \A d \in Nodes, x \in AllNames :
       t.kids[d][x] # None => /\ t.kids[d][x] \in Nodes \ {"root"} /\ t.node[t.kids[d][x]].kind # None
                              /\ ~t.node[t.kids[d][x]].unlinked
  /\ \A n \in Nodes \ {"root"} :
       t.node[n].kind # None /\ ~t.node[n].unlinked => \E d \in Nodes, x \in AllNames : t.kids[d][x] = n

Dirs(t) == {n \in Nodes \ {"root"} : t.node[n].kind = "dir" /\ ~t.node[n].unlinked}

\* No directories name but one another.
Rooted(t) ==
  \A D \in SUBSET Dirs(t) : D # {} => \E n \in D : \E d \in Nodes \ D, x \in AllNames : t.kids[d][x] = n

Own(t) ==
  /\ t.node["root"].kind = "dir" /\ ~t.node["root"].unlinked
  /\ t.kids["lib"]["zip"] = "zip" /\ t.node["zip"].kind = "file"
  /\ SubSeq(t.node["zip"].buf, 1, t.node["zip"].size) = <<1>>
  /\ t.kids["root"]["dev"] = "dev" /\ t.node["dev"].kind = "dir"
  /\ t.kids["dev"]["null"] = "null" /\ t.node["null"].kind = "sink"
  /\ SubSeq(t.node["null"].buf, 1, t.node["null"].size) = Zeros(t.node["null"].size)

Sizes(t) == [n \in Nodes |-> t.node[n].size]
Charged(t) == t.used = Total(Sizes(t), Nodes) /\ t.used <= Limit

Sound(t) == Shaped(t) /\ Linked(t) /\ Rooted(t) /\ Own(t) /\ Charged(t)

\* The descriptors of each node are those that are open, and none of the library's writes.
HeldBy(fs, n) == {f \in 1..MaxFds : fs[f].node = n}
Open(t, fs) ==
  /\ fs \in [1..MaxFds -> FdType]
  /\ \A n \in Nodes : t.node[n].opens = Cardinality(HeldBy(fs, n))
  /\ \A f \in 1..MaxFds : fs[f].writable => fs[f].node # "zip"

\* The live bytes of a node.
Text(r) == SubSeq(r.buf, 1, r.size)
Holds(t, s) ==
  /\ s \in [Nodes -> Seq({0, 1})]
  /\ \A n \in Nodes : s[n] = IF t.node[n].kind = "file" THEN Text(t.node[n]) ELSE <<>>

Inv == Sound(Tree) /\ Open(Tree, fds) /\ Holds(Tree, says)

---------------------------------------------------------------------------
(* The constants *)

LEMMA NodesAre ==
  /\ IsFiniteSet(Nodes) /\ None \notin Nodes /\ Fixed \subseteq Nodes /\ Inodes \subseteq Nodes
  /\ \A n \in Inodes : n \notin Fixed
<1>1. IsFiniteSet(Fixed)
  <2>1. IsFiniteSet({"root"}) /\ IsFiniteSet({"lib"}) /\ IsFiniteSet({"zip"}) /\ IsFiniteSet({"dev"}) /\ IsFiniteSet({"null"})
    BY FS_Singleton
  <2>2. IsFiniteSet({"root"} \cup {"lib"}) /\ IsFiniteSet({"zip"} \cup {"dev"})
    BY <2>1, FS_Union
  <2>3. IsFiniteSet(({"root"} \cup {"lib"}) \cup ({"zip"} \cup {"dev"}))
    BY <2>2, FS_Union
  <2>4. IsFiniteSet((({"root"} \cup {"lib"}) \cup ({"zip"} \cup {"dev"})) \cup {"null"})
    BY <2>1, <2>3, FS_Union
  <2>5. Fixed = (({"root"} \cup {"lib"}) \cup ({"zip"} \cup {"dev"})) \cup {"null"}
    BY DEF Fixed
  <2> QED BY <2>4, <2>5
<1>2. IsFiniteSet(Nodes)
  BY <1>1, FS_Union, BoundsAssumption DEF Nodes
<1> QED BY <1>2, InodesAssumption DEF Nodes, Fixed, None

LEMMA NamesAre ==
  /\ {"lib", "zip", "dev", "null"} \subseteq AllNames /\ Names \subseteq AllNames
  /\ NoNode \in NodeType /\ NoKids \in [AllNames -> Nodes \cup {None}] /\ \A x \in AllNames : NoKids[x] = None
<1>1. {"lib", "zip", "dev", "null"} \subseteq AllNames /\ Names \subseteq AllNames
  BY DEF AllNames, Fixed
<1>2. NoNode \in NodeType
  BY DEF NoNode, NodeType, Kinds
<1> QED BY <1>1, <1>2 DEF NoKids

LEMMA NodeIs ==
  ASSUME NEW r \in NodeType
  PROVE  /\ r.kind \in Kinds /\ r.buf \in Seq({0, 1}) /\ r.size \in Nat /\ r.opens \in Nat /\ r.unlinked \in BOOLEAN
BY DEF NodeType

LEMMA TreeIs ==
  ASSUME NEW t \in TreeType
  PROVE  /\ t.node \in [Nodes -> NodeType] /\ t.kids \in [Nodes -> [AllNames -> Nodes \cup {None}]] /\ t.used \in Nat
         /\ \A n \in Nodes : /\ t.node[n] \in NodeType /\ t.node[n].kind \in Kinds /\ t.node[n].buf \in Seq({0, 1})
                             /\ t.node[n].size \in Nat /\ t.node[n].opens \in Nat /\ t.node[n].unlinked \in BOOLEAN
                             /\ t.kids[n] \in [AllNames -> Nodes \cup {None}]
                             /\ \A x \in AllNames : t.kids[n][x] \in Nodes \cup {None}
<1>1. t.node \in [Nodes -> NodeType] /\ t.kids \in [Nodes -> [AllNames -> Nodes \cup {None}]] /\ t.used \in Nat
  BY DEF TreeType
<1>2. \A n \in Nodes : t.node[n] \in NodeType /\ t.kids[n] \in [AllNames -> Nodes \cup {None}]
  BY <1>1
<1> QED BY <1>1, <1>2, NodeIs

\* The bytes charged, when one node's change.
LEMMA ChargedChanges ==
  ASSUME NEW t \in TreeType, NEW u, Charged(t), NEW n \in Nodes, NEW size \in Nat, u.used = t.used - t.node[n].size + size,
         u.used <= Limit, \A m \in Nodes : u.node[m].size = IF m = n THEN size ELSE t.node[m].size
  PROVE  Charged(u) /\ u.used \in Nat
<1> DEFINE f == Sizes(t)
<1> DEFINE g == Sizes(u)
<1>1. \A m \in Nodes : f[m] = t.node[m].size /\ f[m] \in Nat /\ g[m] = IF m = n THEN size ELSE f[m]
  BY TreeIs DEF Sizes
<1>2. t.used = Total(f, Nodes) /\ f[n] = t.node[n].size
  BY <1>1 DEF Charged
<1> HIDE DEF f, g
<1>3. Total(g, Nodes) = Total(f, Nodes) - f[n] + g[n]
  BY <1>1, NodesAre, TotalChange
<1>4. \A m \in Nodes : g[m] \in Nat
  BY <1>1
<1>5. Total(g, Nodes) \in Nat
  BY <1>4, NodesAre, TotalNat
<1>6. u.used = Total(g, Nodes)
  BY <1>1, <1>2, <1>3
<1> QED BY <1>5, <1>6 DEF Charged, g

\* A tree that another becomes when a node, an entry and the count are set.
LEMMA NodeSet ==
  ASSUME NEW N \in [Nodes -> NodeType], NEW n \in Nodes, NEW r \in NodeType
  PROVE  /\ [N EXCEPT ![n] = r] \in [Nodes -> NodeType]
         /\ \A m \in Nodes : [N EXCEPT ![n] = r][m] = IF m = n THEN r ELSE N[m]
OBVIOUS

LEMMA KidSet ==
  ASSUME NEW K \in [Nodes -> [AllNames -> Nodes \cup {None}]], NEW d \in Nodes, NEW x \in AllNames, NEW n \in Nodes \cup {None}
  PROVE  /\ [K EXCEPT ![d][x] = n] \in [Nodes -> [AllNames -> Nodes \cup {None}]]
         /\ \A e \in Nodes : e # d => [K EXCEPT ![d][x] = n][e] = K[e]
         /\ \A e \in Nodes, y \in AllNames : [K EXCEPT ![d][x] = n][e][y] = IF e = d /\ y = x THEN n ELSE K[e][y]
<1> DEFINE row == [K[d] EXCEPT ![x] = n]
<1>1. K[d] \in [AllNames -> Nodes \cup {None}]
  OBVIOUS
<1>2. row \in [AllNames -> Nodes \cup {None}] /\ \A y \in AllNames : row[y] = IF y = x THEN n ELSE K[d][y]
  BY <1>1
<1>3. [K EXCEPT ![d][x] = n] = [K EXCEPT ![d] = row]
  OBVIOUS
<1> HIDE DEF row
<1>4. [K EXCEPT ![d] = row] \in [Nodes -> [AllNames -> Nodes \cup {None}]]
      /\ \A e \in Nodes : [K EXCEPT ![d] = row][e] = IF e = d THEN row ELSE K[e]
  BY <1>2
<1> QED BY <1>2, <1>3, <1>4

LEMMA TreeOf ==
  ASSUME NEW N \in [Nodes -> NodeType], NEW K \in [Nodes -> [AllNames -> Nodes \cup {None}]], NEW w \in Nat
  PROVE  [node |-> N, kids |-> K, used |-> w] \in TreeType
BY DEF TreeType

---------------------------------------------------------------------------
(* What changes of the tree keep. *)

\* A node that was not there gets an entry where there was none.
Made(t, u, n, d, x) ==
  /\ u \in TreeType
  /\ n \in Inodes /\ t.node[n].kind = None /\ u.node[n].kind \in {"dir", "file"} /\ ~u.node[n].unlinked
  /\ u.node[n].size <= Len(u.node[n].buf) /\ (u.node[n].kind = "dir" => u.node[n].size = 0)
  /\ \A m \in Nodes : m # n => u.node[m] = t.node[m]
  /\ d \in Nodes /\ x \in AllNames /\ t.node[d].kind = "dir" /\ ~t.node[d].unlinked /\ t.kids[d][x] = None
  /\ \A e \in Nodes : e # d => u.kids[e] = t.kids[e]
  /\ \A e \in Nodes, y \in AllNames : u.kids[e][y] = IF e = d /\ y = x THEN n ELSE t.kids[e][y]
  /\ u.used = t.used + u.node[n].size /\ u.used <= Limit

LEMMA MadeIsSound ==
  ASSUME NEW t, Sound(t), NEW u, NEW n, NEW d, NEW x, Made(t, u, n, d, x)
  PROVE  Sound(u)
<1>1. t \in TreeType /\ u \in TreeType /\ n \in Nodes /\ n \notin Fixed /\ d # n /\ d \in Nodes /\ x \in AllNames
  BY NodesAre DEF Made, Sound, Shaped, None
<1>2. t.node[n] = NoNode /\ t.node[n].size = 0 /\ t.kids[n] = NoKids /\ \A y \in AllNames : t.kids[n][y] = None
  BY <1>1, NamesAre DEF Made, Sound, Shaped, NoNode, None
<1>3. \A e \in Nodes, y \in AllNames : t.kids[e][y] # n
  BY <1>1, NodesAre DEF Made, Sound, Linked
<1>4. Shaped(u)
  BY <1>1, <1>2 DEF Made, Sound, Shaped, None
<1>5. Linked(u)
  <2>1. \A a, b \in Nodes, y, z \in AllNames : u.kids[a][y] = u.kids[b][z] /\ u.kids[a][y] # None => a = b /\ y = z
    BY <1>1, <1>3 DEF Made, Sound, Linked
  <2>2. \A a \in Nodes, y \in AllNames :
          u.kids[a][y] # None => /\ u.kids[a][y] \in Nodes \ {"root"} /\ u.node[u.kids[a][y]].kind # None
                                 /\ ~u.node[u.kids[a][y]].unlinked
    <3> TAKE a \in Nodes, y \in AllNames
    <3>1. CASE a = d /\ y = x
      BY <3>1, <1>1 DEF Made, None, Fixed
    <3>2. CASE ~(a = d /\ y = x)
      <4>1. u.kids[a][y] = t.kids[a][y] /\ t.kids[a][y] # n
        BY <3>2, <1>1, <1>3 DEF Made
      <4> QED BY <4>1 DEF Made, Sound, Linked
    <3> QED BY <3>1, <3>2
  <2>3. ASSUME NEW m \in Nodes \ {"root"}, u.node[m].kind # None, ~u.node[m].unlinked
        PROVE  \E a \in Nodes, y \in AllNames : u.kids[a][y] = m
    <3>1. CASE m = n
      BY <3>1, <1>1 DEF Made
    <3>2. CASE m # n
      <4>1. PICK a \in Nodes, y \in AllNames : t.kids[a][y] = m
        BY <3>2, <2>3 DEF Made, Sound, Linked
      <4>2. m # None
        BY NodesAre
      <4> QED BY <4>1, <4>2 DEF Made
    <3> QED BY <3>1, <3>2
  <2> QED BY <2>1, <2>2, <2>3 DEF Linked
<1>6. Rooted(u)
  <2> SUFFICES ASSUME NEW D \in SUBSET Dirs(u), D # {}
               PROVE  \E m \in D : \E e \in Nodes \ D, y \in AllNames : u.kids[e][y] = m
    BY DEF Rooted
  <2>1. D \ {n} \subseteq Dirs(t)
    BY DEF Dirs, Made
  <2>2. CASE D \ {n} = {}
    <3>1. n \in D /\ d \in Nodes \ D /\ u.kids[d][x] = n
      BY <2>2, <1>1 DEF Made
    <3> QED BY <3>1, <1>1
  <2>3. CASE D \ {n} # {}
    <3>1. PICK m \in D \ {n} : \E e \in Nodes \ (D \ {n}), y \in AllNames : t.kids[e][y] = m
      BY <2>1, <2>3 DEF Sound, Rooted
    <3>2. PICK e \in Nodes \ (D \ {n}), y \in AllNames : t.kids[e][y] = m
      BY <3>1
    <3>3. m \in Nodes /\ m # None
      BY NodesAre DEF Dirs
    <3>4. e # n
      BY <3>2, <3>3, <1>2
    <3>5. u.kids[e][y] = m
      BY <3>2, <3>3 DEF Made
    <3> QED BY <3>2, <3>4, <3>5
  <2> QED BY <2>2, <2>3
<1>7. Own(u)
  BY <1>1, NamesAre DEF Made, Sound, Own, Fixed, Nodes, None
<1>8. Charged(u)
  <2>1. u.node[n].size \in Nat /\ t.used \in Nat
    BY <1>1, TreeIs
  <2>2. Charged(t) /\ u.used = t.used - t.node[n].size + u.node[n].size /\ u.used <= Limit
    BY <1>2, <2>1 DEF Made, Sound
  <2>3. \A m \in Nodes : u.node[m].size = IF m = n THEN u.node[n].size ELSE t.node[m].size
    BY DEF Made
  <2> QED BY <1>1, <2>1, <2>2, <2>3, ChargedChanges
<1> QED BY <1>4, <1>5, <1>6, <1>7, <1>8 DEF Sound

\* A node gets other bytes or another descriptor, and stays what and where it is.
Changed(t, u, n) ==
  /\ u \in TreeType /\ n \in Nodes /\ u.kids = t.kids
  /\ \A m \in Nodes : m # n => u.node[m] = t.node[m]
  /\ u.node[n].kind = t.node[n].kind /\ u.node[n].unlinked = t.node[n].unlinked /\ t.node[n].kind # None
  /\ u.node[n].size <= Len(u.node[n].buf) /\ (u.node[n].kind \notin {"file", "sink"} => u.node[n].size = 0)
  /\ u.node[n].unlinked => u.node[n].opens > 0
  /\ n = "zip" => u.node[n].buf = t.node[n].buf /\ u.node[n].size = t.node[n].size
  /\ n = "null" => SubSeq(u.node[n].buf, 1, u.node[n].size) = Zeros(u.node[n].size)
  /\ u.used = t.used - t.node[n].size + u.node[n].size /\ u.used <= Limit

LEMMA ChangedIsSound ==
  ASSUME NEW t, Sound(t), NEW u, NEW n, Changed(t, u, n)
  PROVE  Sound(u)
<1>1. t \in TreeType /\ u \in TreeType /\ n \in Nodes /\ u.kids = t.kids
  BY DEF Changed, Sound, Shaped
<1>2. \A m \in Nodes : u.node[m].kind = t.node[m].kind /\ u.node[m].unlinked = t.node[m].unlinked
  BY DEF Changed
<1>3. Shaped(u)
  BY <1>1, <1>2 DEF Changed, Sound, Shaped
<1>4. Linked(u)
  BY <1>1, <1>2 DEF Sound, Linked
<1>5. Rooted(u)
  <2>1. Dirs(u) = Dirs(t)
    BY <1>2 DEF Dirs
  <2> QED BY <1>1, <2>1 DEF Sound, Rooted
<1>6. Own(u)
  BY <1>1, <1>2, NamesAre DEF Changed, Sound, Own, Fixed, Nodes
<1>7. Charged(u)
  <2>1. u.node[n].size \in Nat
    BY <1>1, TreeIs
  <2>2. \A m \in Nodes : u.node[m].size = IF m = n THEN u.node[n].size ELSE t.node[m].size
    BY DEF Changed
  <2>3. Charged(t) /\ u.used = t.used - t.node[n].size + u.node[n].size /\ u.used <= Limit
    BY DEF Changed, Sound
  <2> QED BY <1>1, <2>1, <2>2, <2>3, ChargedChanges
<1> QED BY <1>3, <1>4, <1>5, <1>6, <1>7 DEF Sound

\* The name x of directory d goes, and with it a node that no descriptor reaches.
Unnamed(t, u, d, x) ==
  LET n == t.kids[d][x] IN
  /\ u \in TreeType /\ d \in Nodes /\ x \in AllNames
  /\ n # None /\ n \notin ReadOnly \cup Pinned /\ t.kids[n] = NoKids
  /\ \A m \in Nodes : m # n => u.node[m] = t.node[m]
  /\ u.node[n] = IF t.node[n].opens = 0 THEN NoNode ELSE [t.node[n] EXCEPT !.unlinked = TRUE]
  /\ \A e \in Nodes : e # d => u.kids[e] = t.kids[e]
  /\ \A e \in Nodes, y \in AllNames : u.kids[e][y] = IF e = d /\ y = x THEN None ELSE t.kids[e][y]
  /\ u.used = IF t.node[n].opens = 0 THEN t.used - t.node[n].size ELSE t.used

LEMMA UnnamedIsSound ==
  ASSUME NEW t, Sound(t), NEW u, NEW d, NEW x, Unnamed(t, u, d, x)
  PROVE  Sound(u)
<1> DEFINE n == t.kids[d][x]
<1>1. t \in TreeType /\ u \in TreeType /\ d \in Nodes /\ x \in AllNames
  BY DEF Unnamed, Sound, Shaped
<1>2. /\ n \in Nodes \ {"root"} /\ n \notin {"zip", "dev", "null"} /\ t.kids[n] = NoKids /\ t.node[n].kind # None
      /\ ~t.node[n].unlinked
      /\ u.node[n] = IF t.node[n].opens = 0 THEN NoNode ELSE [t.node[n] EXCEPT !.unlinked = TRUE]
  BY <1>1 DEF Unnamed, Sound, Linked, ReadOnly, Pinned
<1>3. \A y \in AllNames : t.kids[n][y] = None
  BY <1>2, NamesAre
<1>4. d # n
  BY <1>1, <1>2, <1>3 DEF Unnamed
<1>5. /\ t.node[n] \in NodeType /\ t.node[n].size \in Nat /\ t.node[n].opens \in Nat
      /\ \A m \in Nodes : t.kids[m] \in [AllNames -> Nodes \cup {None}]
  BY <1>1, <1>2, TreeIs
<1>6. IF t.node[n].opens = 0
      THEN u.node[n].kind = None /\ u.node[n].size = 0 /\ ~u.node[n].unlinked /\ Len(u.node[n].buf) = 0
      ELSE /\ u.node[n].kind = t.node[n].kind /\ u.node[n].size = t.node[n].size /\ u.node[n].unlinked
           /\ u.node[n].buf = t.node[n].buf /\ u.node[n].opens = t.node[n].opens /\ u.node[n].opens > 0
  BY <1>2, <1>5 DEF NoNode, NodeType
<1>7. \A m \in Nodes : m # n => u.node[m] = t.node[m]
  BY DEF Unnamed
<1>8. /\ \A e \in Nodes : e # d => u.kids[e] = t.kids[e]
      /\ \A e \in Nodes, y \in AllNames : u.kids[e][y] = IF e = d /\ y = x THEN None ELSE t.kids[e][y]
  BY DEF Unnamed
<1>9. u.used = IF t.node[n].opens = 0 THEN t.used - t.node[n].size ELSE t.used
  BY DEF Unnamed
<1>10. n = t.kids[d][x] /\ n # None
  BY <1>2, NodesAre
<1> HIDE DEF n
<1>11. Shaped(u)
  <2>1. ASSUME NEW m \in Nodes, u.node[m].kind # "dir" PROVE u.kids[m] = NoKids
    <3>1. CASE m = d
      <4>1. t.node[d].kind = "dir"
        BY <1>1, <1>10, NamesAre DEF Sound, Shaped
      <4> QED BY <2>1, <3>1, <4>1, <1>4, <1>7
    <3>2. CASE m = n
      BY <3>2, <1>2, <1>4, <1>8
    <3>3. CASE m # d /\ m # n
      BY <2>1, <3>3, <1>7, <1>8 DEF Sound, Shaped
    <3> QED BY <3>1, <3>2, <3>3
  <2>2. ASSUME NEW m \in Nodes
        PROVE  /\ u.node[m].size <= Len(u.node[m].buf)
               /\ u.node[m].kind = None => u.node[m] = NoNode
               /\ u.node[m].kind \notin {"file", "sink"} => u.node[m].size = 0
               /\ u.node[m].unlinked => u.node[m].opens > 0
    <3>1. CASE m = n
      <4>1. t.node[n].size <= Len(t.node[n].buf) /\ (t.node[n].kind \notin {"file", "sink"} => t.node[n].size = 0)
        BY <1>2 DEF Sound, Shaped
      <4> QED BY <3>1, <4>1, <1>2, <1>6
    <3>2. CASE m # n
      BY <3>2, <1>7 DEF Sound, Shaped
    <3> QED BY <3>1, <3>2
  <2>3. ASSUME NEW m \in Nodes, u.node[m].unlinked PROVE u.kids[m] = NoKids
    <3>1. CASE m = n
      BY <3>1, <1>2, <1>4, <1>8
    <3>2. CASE m # n
      <4>1. t.node[m].unlinked /\ t.kids[m] = NoKids
        BY <2>3, <3>2, <1>7 DEF Sound, Shaped
      <4>2. m # d
        BY <4>1, <1>1, <1>10, NamesAre
      <4> QED BY <4>1, <4>2, <1>8
    <3> QED BY <3>1, <3>2
  <2> QED BY <1>1, <2>1, <2>2, <2>3 DEF Shaped
<1>12. \A a \in Nodes, y \in AllNames : u.kids[a][y] # None => u.kids[a][y] = t.kids[a][y] /\ u.kids[a][y] # n
  <2> TAKE a \in Nodes, y \in AllNames
  <2>1. CASE a = d /\ y = x
    BY <2>1, <1>8
  <2>2. CASE ~(a = d /\ y = x)
    <3>1. u.kids[a][y] = t.kids[a][y]
      BY <2>2, <1>8
    <3>2. t.kids[a][y] # n
      BY <1>1, <1>10, <2>2 DEF Sound, Linked
    <3> QED BY <3>1, <3>2
  <2> QED BY <2>1, <2>2
<1>13. \A m \in Nodes, a \in Nodes, y \in AllNames : t.kids[a][y] = m /\ m # n => u.kids[a][y] = m
  BY <1>8, <1>10
<1>14. Linked(u)
  <2>1. \A a, b \in Nodes, y, z \in AllNames : u.kids[a][y] = u.kids[b][z] /\ u.kids[a][y] # None => a = b /\ y = z
    BY <1>12 DEF Sound, Linked
  <2>2. \A a \in Nodes, y \in AllNames :
          u.kids[a][y] # None => /\ u.kids[a][y] \in Nodes \ {"root"} /\ u.node[u.kids[a][y]].kind # None
                                 /\ ~u.node[u.kids[a][y]].unlinked
    BY <1>12, <1>7 DEF Sound, Linked
  <2>3. ASSUME NEW m \in Nodes \ {"root"}, u.node[m].kind # None, ~u.node[m].unlinked
        PROVE  \E a \in Nodes, y \in AllNames : u.kids[a][y] = m
    <3>1. m # n
      BY <2>3, <1>6
    <3>2. PICK a \in Nodes, y \in AllNames : t.kids[a][y] = m
      BY <3>1, <2>3, <1>7 DEF Sound, Linked
    <3> QED BY <3>1, <3>2, <1>13
  <2> QED BY <2>1, <2>2, <2>3 DEF Linked
<1>15. Rooted(u)
  <2> SUFFICES ASSUME NEW D \in SUBSET Dirs(u), D # {}
               PROVE  \E m \in D : \E e \in Nodes \ D, y \in AllNames : u.kids[e][y] = m
    BY DEF Rooted
  <2>1. D \subseteq Dirs(t) /\ n \notin D
    <3>1. D \subseteq Dirs(u) /\ n \notin Dirs(u)
      BY <1>6 DEF Dirs, None
    <3> QED BY <3>1, <1>7 DEF Dirs
  <2>2. PICK m \in D : \E e \in Nodes \ D, y \in AllNames : t.kids[e][y] = m
    BY <2>1 DEF Sound, Rooted
  <2>3. m \in Nodes /\ m # n
    BY <2>1, <2>2 DEF Dirs
  <2> QED BY <2>2, <2>3, <1>13
<1>16. Own(u)
  <2>1. {"root", "lib", "zip", "dev", "null"} \subseteq Nodes
    BY DEF Nodes, Fixed
  <2>2. u.kids["lib"]["zip"] = "zip" /\ u.kids["root"]["dev"] = "dev" /\ u.kids["dev"]["null"] = "null"
    BY <2>1, <1>2, <1>13, NamesAre DEF Sound, Own
  <2>3. u.node["root"] = t.node["root"] /\ u.node["zip"] = t.node["zip"] /\ u.node["dev"] = t.node["dev"] /\ u.node["null"] = t.node["null"]
    BY <2>1, <1>2, <1>7
  <2> QED BY <2>2, <2>3 DEF Sound, Own
<1>17. Charged(u)
  <2>1. u.node[n].size \in Nat /\ t.used \in Nat
    BY <1>1, <1>2, TreeIs
  <2>2. Charged(t) /\ t.used <= Limit
    BY DEF Charged, Sound
  <2>3. u.used = t.used - t.node[n].size + u.node[n].size
    BY <1>5, <1>6, <1>9, <2>1
  <2>4. u.used <= Limit
    BY <1>5, <1>9, <2>1, <2>2, BoundsAssumption DEF Limit
  <2>5. \A m \in Nodes : u.node[m].size = IF m = n THEN u.node[n].size ELSE t.node[m].size
    BY <1>7
  <2> QED BY <1>1, <1>2, <2>1, <2>2, <2>3, <2>4, <2>5, ChargedChanges
<1> QED BY <1>11, <1>14, <1>15, <1>16, <1>17 DEF Sound

\* The last descriptor of a file without a name goes.
Gone(t, u, n) ==
  /\ u \in TreeType /\ n \in Nodes /\ t.node[n].unlinked /\ u.kids = t.kids
  /\ \A m \in Nodes : m # n => u.node[m] = t.node[m]
  /\ u.node[n] = NoNode
  /\ u.used = t.used - t.node[n].size

LEMMA GoneIsSound ==
  ASSUME NEW t, Sound(t), NEW u, NEW n, Gone(t, u, n)
  PROVE  Sound(u)
<1>1. t \in TreeType /\ u \in TreeType /\ n \in Nodes /\ u.kids = t.kids
  BY DEF Gone, Sound, Shaped
<1>2. u.node[n].kind = None /\ u.node[n].size = 0 /\ ~u.node[n].unlinked /\ Len(u.node[n].buf) = 0 /\ u.node[n] = NoNode
  BY DEF Gone, NoNode
<1>3. \A m \in Nodes : m # n => u.node[m] = t.node[m]
  BY DEF Gone
<1>4. t.node[n].unlinked /\ t.kids[n] = NoKids /\ \A a \in Nodes, y \in AllNames : t.kids[a][y] # n
  <2>1. t.node[n].unlinked /\ t.kids[n] = NoKids
    BY <1>1 DEF Gone, Sound, Shaped
  <2> QED BY <2>1, <1>1, NodesAre DEF Sound, Linked
<1>5. n \notin Fixed \ {"lib"}
  <2>1. {"root", "lib", "zip", "dev", "null"} \subseteq Nodes
    BY DEF Nodes, Fixed
  <2>2. t.kids["lib"]["zip"] = "zip" /\ t.kids["root"]["dev"] = "dev" /\ t.kids["dev"]["null"] = "null" /\ ~t.node["root"].unlinked
    BY DEF Sound, Own
  <2> QED BY <1>4, <2>1, <2>2, NamesAre DEF Fixed
<1>6. Shaped(u)
  <2>1. ASSUME NEW m \in Nodes
        PROVE  /\ u.node[m].size <= Len(u.node[m].buf)
               /\ u.node[m].kind = None => u.node[m] = NoNode
               /\ u.node[m].kind # "dir" => u.kids[m] = NoKids
               /\ u.node[m].kind \notin {"file", "sink"} => u.node[m].size = 0
               /\ u.node[m].unlinked => u.node[m].opens > 0 /\ u.kids[m] = NoKids
    <3>1. CASE m = n
      BY <3>1, <1>1, <1>2, <1>4
    <3>2. CASE m # n
      BY <3>2, <1>1, <1>3 DEF Sound, Shaped
    <3> QED BY <3>1, <3>2
  <2> QED BY <1>1, <2>1 DEF Shaped
<1>7. Linked(u)
  <2>1. \A a, b \in Nodes, y, z \in AllNames : u.kids[a][y] = u.kids[b][z] /\ u.kids[a][y] # None => a = b /\ y = z
    BY <1>1 DEF Sound, Linked
  <2>2. \A a \in Nodes, y \in AllNames :
          u.kids[a][y] # None => /\ u.kids[a][y] \in Nodes \ {"root"} /\ u.node[u.kids[a][y]].kind # None
                                 /\ ~u.node[u.kids[a][y]].unlinked
    BY <1>1, <1>3, <1>4 DEF Sound, Linked
  <2>3. \A m \in Nodes \ {"root"} :
          u.node[m].kind # None /\ ~u.node[m].unlinked => \E a \in Nodes, y \in AllNames : u.kids[a][y] = m
    BY <1>1, <1>2, <1>3 DEF Sound, Linked
  <2> QED BY <2>1, <2>2, <2>3 DEF Linked
<1>8. Rooted(u)
  <2>1. Dirs(u) = Dirs(t)
    BY <1>2, <1>3, <1>4 DEF Dirs, None
  <2> QED BY <1>1, <2>1 DEF Sound, Rooted
<1>9. Own(u)
  <2>1. {"root", "lib", "zip", "dev", "null"} \subseteq Nodes
    BY DEF Nodes, Fixed
  <2>2. u.node["root"] = t.node["root"] /\ u.node["zip"] = t.node["zip"] /\ u.node["dev"] = t.node["dev"] /\ u.node["null"] = t.node["null"]
    BY <2>1, <1>3, <1>5 DEF Fixed
  <2> QED BY <1>1, <2>2 DEF Sound, Own
<1>10. Charged(u)
  <2>1. t.node[n].size \in Nat /\ t.used \in Nat /\ u.used = t.used - t.node[n].size /\ t.used <= Limit /\ Limit \in Nat
    BY <1>1, TreeIs, BoundsAssumption DEF Gone, Sound, Charged, Limit
  <2>2. u.used = t.used - t.node[n].size + 0 /\ u.used <= Limit
    BY <2>1
  <2>3. \A m \in Nodes : u.node[m].size = IF m = n THEN 0 ELSE t.node[m].size
    BY <1>2, <1>3
  <2> QED BY <1>1, <2>2, <2>3, ChargedChanges DEF Sound
<1> QED BY <1>6, <1>7, <1>8, <1>9, <1>10 DEF Sound

\* Node m, known as x in directory p, becomes y in directory q, which is not itself below m: q is the
\* root, or is named by it and not m.
Renamed(t, u, m, p, x, q, y) ==
  /\ u \in TreeType /\ {p, q} \subseteq Nodes /\ {x, y} \subseteq AllNames
  /\ m = t.kids[p][x] /\ m # None /\ m \notin ReadOnly \cup Pinned
  /\ t.kids[q][y] = None /\ t.node[q].kind = "dir" /\ ~t.node[q].unlinked /\ q # m
  /\ q = "root" \/ \E z \in AllNames : t.kids["root"][z] = q
  /\ u.node = t.node /\ u.used = t.used
  /\ \A e \in Nodes : e \notin {p, q} => u.kids[e] = t.kids[e]
  /\ \A e \in Nodes, z \in AllNames :
       u.kids[e][z] = IF e = q /\ z = y THEN m ELSE IF e = p /\ z = x THEN None ELSE t.kids[e][z]

LEMMA RenamedIsSound ==
  ASSUME NEW t, Sound(t), NEW u, NEW m, NEW p, NEW x, NEW q, NEW y, Renamed(t, u, m, p, x, q, y)
  PROVE  Sound(u)
<1>1. t \in TreeType /\ u \in TreeType /\ p \in Nodes /\ q \in Nodes /\ x \in AllNames /\ y \in AllNames
      /\ u.node = t.node /\ u.used = t.used
  BY DEF Renamed, Sound, Shaped
<1>2. /\ m = t.kids[p][x] /\ m \in Nodes \ {"root"} /\ m # None /\ m \notin {"zip", "dev", "null"}
      /\ t.node[m].kind # None /\ ~t.node[m].unlinked
  BY <1>1 DEF Renamed, Sound, Linked, ReadOnly, Pinned
<1>3. t.node[p].kind = "dir" /\ ~t.node[p].unlinked /\ t.node[q].kind = "dir" /\ ~t.node[q].unlinked
  BY <1>1, <1>2, NamesAre DEF Renamed, Sound, Shaped
<1>4. t.kids[q][y] = None /\ q # m
  BY DEF Renamed
<1>5. \A e \in Nodes, z \in AllNames :
        u.kids[e][z] = IF e = q /\ z = y THEN m ELSE IF e = p /\ z = x THEN None ELSE t.kids[e][z]
  BY DEF Renamed
<1>6. \A e \in Nodes, z \in AllNames : t.kids[e][z] = m => e = p /\ z = x
  BY <1>1, <1>2 DEF Sound, Linked
<1>7. \A n \in Nodes, e \in Nodes, z \in AllNames : t.kids[e][z] = n /\ n # m => u.kids[e][z] = n
  BY <1>2, <1>4, <1>5, NodesAre
<1>8. \A e \in Nodes, z \in AllNames : u.kids[e][z] # None =>
        (u.kids[e][z] = m /\ e = q /\ z = y) \/ (u.kids[e][z] = t.kids[e][z] /\ t.kids[e][z] # m)
  BY <1>5, <1>6
<1>9. Shaped(u)
  <2>1. \A e \in Nodes : t.node[e].kind # "dir" \/ t.node[e].unlinked => u.kids[e] = t.kids[e]
    BY <1>3 DEF Renamed
  <2> QED BY <1>1, <2>1 DEF Sound, Shaped
<1>10. Linked(u)
  <2>1. \A a, b \in Nodes, v, z \in AllNames : u.kids[a][v] = u.kids[b][z] /\ u.kids[a][v] # None => a = b /\ v = z
    BY <1>8 DEF Sound, Linked
  <2>2. \A a \in Nodes, v \in AllNames :
          u.kids[a][v] # None => /\ u.kids[a][v] \in Nodes \ {"root"} /\ u.node[u.kids[a][v]].kind # None
                                 /\ ~u.node[u.kids[a][v]].unlinked
    <3> TAKE a \in Nodes, v \in AllNames
    <3>1. CASE u.kids[a][v] = m
      BY <3>1, <1>1, <1>2
    <3>2. CASE u.kids[a][v] = t.kids[a][v]
      BY <3>2, <1>1 DEF Sound, Linked
    <3> QED BY <3>1, <3>2, <1>8
  <2>3. ASSUME NEW n \in Nodes \ {"root"}, u.node[n].kind # None, ~u.node[n].unlinked
        PROVE  \E a \in Nodes, v \in AllNames : u.kids[a][v] = n
    <3>1. CASE n = m
      BY <3>1, <1>1, <1>5
    <3>2. CASE n # m
      <4>1. PICK a \in Nodes, v \in AllNames : t.kids[a][v] = n
        BY <2>3, <1>1 DEF Sound, Linked
      <4> QED BY <3>2, <4>1, <1>7
    <3> QED BY <3>1, <3>2
  <2> QED BY <2>1, <2>2, <2>3 DEF Linked
<1>11. Rooted(u)
  <2> SUFFICES ASSUME NEW D \in SUBSET Dirs(u), D # {}
               PROVE  \E n \in D : \E e \in Nodes \ D, z \in AllNames : u.kids[e][z] = n
    BY DEF Rooted
  <2>1. D \subseteq Dirs(t) /\ D \subseteq Nodes \ {"root"}
    BY <1>1 DEF Dirs
  <2>2. PICK n \in D : \E e \in Nodes \ D, z \in AllNames : t.kids[e][z] = n
    BY <2>1 DEF Sound, Rooted
  <2>3. CASE n # m
    BY <2>1, <2>2, <2>3, <1>7
  <2>4. CASE n = m /\ q \notin D
    BY <2>2, <2>4, <1>1, <1>5
  <2>5. CASE n = m /\ q \in D
    <3>1. "root" \in Nodes \ D
      BY <2>1 DEF Nodes, Fixed
    <3>2. PICK z \in AllNames : t.kids["root"][z] = q
      BY <2>1, <2>5 DEF Renamed
    <3>3. u.kids["root"][z] = q
      BY <3>1, <3>2, <1>1, <1>4, <1>7
    <3> QED BY <2>5, <3>1, <3>3
  <2> QED BY <2>3, <2>4, <2>5
<1>12. Own(u)
  <2>1. {"root", "lib", "zip", "dev", "null"} \subseteq Nodes
    BY DEF Nodes, Fixed
  <2>2. u.kids["lib"]["zip"] = "zip" /\ u.kids["root"]["dev"] = "dev" /\ u.kids["dev"]["null"] = "null"
    BY <2>1, <1>2, <1>7, NamesAre DEF Sound, Own
  <2> QED BY <2>2, <1>1 DEF Sound, Own
<1>13. Charged(u)
  <2>1. Sizes(u) = Sizes(t)
    BY <1>1 DEF Sizes
  <2> QED BY <1>1, <2>1 DEF Sound, Charged
<1> QED BY <1>9, <1>10, <1>11, <1>12, <1>13 DEF Sound

---------------------------------------------------------------------------
(* What a file holds. *)

LEMMA HeadIs ==
  ASSUME NEW s \in Seq({0, 1}), NEW k \in 0..Len(s)
  PROVE  /\ SubSeq(s, 1, k) = [i \in 1..k |-> s[i]]
         /\ SubSeq(s, 1, k) \in Seq({0, 1}) /\ Len(SubSeq(s, 1, k)) = k
         /\ \A i \in 1..k : SubSeq(s, 1, k)[i] = s[i] /\ s[i] \in {0, 1}
<1>1. \A i \in 1..Len(s) : s[i] \in {0, 1}
  OBVIOUS
<1>2. k \in Nat /\ k <= Len(s) /\ 1..k \subseteq 1..Len(s)
  BY LenProperties
<1>3. SubSeq(s, 1, k) \in Seq({0, 1}) /\ Len(SubSeq(s, 1, k)) = k /\ \A i \in 1..k : SubSeq(s, 1, k)[i] = s[i]
  BY <1>1, <1>2, SubSeqProperties
<1>4. SubSeq(s, 1, k) = [i \in 1..k |-> s[i]]
  BY <1>3, LenProperties
<1> QED BY <1>1, <1>2, <1>3, <1>4

LEMMA MaxIs ==
  ASSUME NEW a \in Nat, NEW b \in Nat
  PROVE  Max({a, b}) = IF a >= b THEN a ELSE b
<1>1. \E x \in {a, b} : \A y \in {a, b} : x >= y
  OBVIOUS
<1>2. Max({a, b}) \in {a, b} /\ \A y \in {a, b} : Max({a, b}) >= y
  BY <1>1 DEF Max
<1> QED BY <1>2

LEMMA HalfUp ==
  ASSUME NEW k \in Nat
  PROVE  2 * ((k + 1) \div 2) \in Nat /\ 2 * ((k + 1) \div 2) >= k
OBVIOUS

Fits(r) == r \in NodeType /\ r.size <= Len(r.buf)

LEMMA TextIs ==
  ASSUME NEW r, Fits(r)
  PROVE  /\ Text(r) \in Seq({0, 1}) /\ Len(Text(r)) = r.size /\ Text(r) = [i \in 1..r.size |-> r.buf[i]]
         /\ DOMAIN Text(r) = 1..r.size /\ \A i \in 1..r.size : Text(r)[i] = r.buf[i] /\ r.buf[i] \in {0, 1}
<1>1. r.buf \in Seq({0, 1}) /\ r.size \in Nat /\ r.size <= Len(r.buf)
  BY NodeIs DEF Fits
<1>2. r.size \in 0..Len(r.buf)
  BY <1>1, LenProperties
<1> QED BY <1>1, <1>2, HeadIs DEF Text

\* A sequence is a function on its length.
LEMMA RowIs ==
  ASSUME NEW k \in Nat, NEW s, s = [i \in 1..k |-> s[i]], \A i \in 1..k : s[i] \in {0, 1}
  PROVE  s \in Seq({0, 1}) /\ Len(s) = k /\ DOMAIN s = 1..k
<1>1. s \in [1..k -> {0, 1}]
  OBVIOUS
<1>2. s \in Seq({0, 1})
  BY <1>1, IsASeq
<1> QED BY <1>1, <1>2, LenProperties

LEMMA ResizedIs ==
  ASSUME NEW n, Fits(node[n]), NEW size \in Nat
  PROVE  /\ Fits(Resized(n, size)) /\ Resized(n, size).size = size
         /\ Resized(n, size).kind = node[n].kind /\ Resized(n, size).opens = node[n].opens
         /\ Resized(n, size).unlinked = node[n].unlinked
         /\ Text(Resized(n, size)) = SetLength(Text(node[n]), size)
<1> DEFINE old == node[n]
<1> DEFINE capacity == IF size <= Len(old.buf) THEN Len(old.buf) ELSE IF size <= 1 THEN 1 ELSE 2 * ((size + 1) \div 2)
<1> DEFINE head == SubSeq(old.buf, 1, old.size)
<1> DEFINE rest == IF capacity = Len(old.buf) THEN SubSeq(old.buf, old.size + 1, capacity) ELSE Zeros(capacity - old.size)
<1> DEFINE kept == head \o rest
<1> DEFINE buf == [i \in 1..capacity |-> IF i \in (old.size + 1)..size THEN 0 ELSE kept[i]]
<1>1. old \in NodeType /\ old.buf \in Seq({0, 1}) /\ old.size \in Nat /\ old.size <= Len(old.buf) /\ Len(old.buf) \in Nat
  BY NodeIs, LenProperties DEF Fits
<1>2. capacity \in Nat /\ capacity >= size /\ capacity >= old.size
  BY <1>1, HalfUp
<1>3. Resized(n, size) = [old EXCEPT !.buf = buf, !.size = size]
  BY Zenon DEF Resized
<1>4. head = Text(old)
  BY DEF Text
<1>5. rest \in Seq({0, 1}) /\ Len(rest) = capacity - old.size
  <2>1. CASE capacity = Len(old.buf)
    <3>1. \A i \in (old.size + 1)..capacity : old.buf[i] \in {0, 1}
      BY <1>1, <2>1
    <3>2. old.size + 1 \in Int /\ capacity \in Int
      BY <1>1, <1>2
    <3>3. rest = SubSeq(old.buf, old.size + 1, capacity)
      BY <2>1
    <3> HIDE DEF rest, capacity, old
    <3>4. rest \in Seq({0, 1}) /\ Len(rest) = IF old.size + 1 <= capacity THEN capacity - (old.size + 1) + 1 ELSE 0
      BY <3>1, <3>2, <3>3, SubSeqProperties
    <3> QED BY <3>4, <1>1, <1>2
  <2>2. CASE capacity # Len(old.buf)
    <3>1. rest = Zeros(capacity - old.size)
      BY <2>2
    <3>2. rest = [i \in 1..(capacity - old.size) |-> 0]
      BY <3>1 DEF Zeros
    <3>3. capacity - old.size \in Nat
      BY <1>1, <1>2
    <3> HIDE DEF rest, capacity, old
    <3>4. rest = [i \in 1..(capacity - old.size) |-> rest[i]] /\ \A i \in 1..(capacity - old.size) : rest[i] \in {0, 1}
      BY <3>2
    <3> QED BY <3>3, <3>4, RowIs
  <2> QED BY <2>1, <2>2
<1> HIDE DEF rest, capacity
<1>6. /\ \A i \in 1..old.size : kept[i] = old.buf[i] /\ old.buf[i] \in {0, 1}
      /\ \A i \in 1..capacity : kept[i] \in {0, 1}
  <2>1. head \in Seq({0, 1}) /\ Len(head) = old.size /\ \A i \in 1..old.size : head[i] = old.buf[i] /\ old.buf[i] \in {0, 1}
    BY <1>4, TextIs
  <2> HIDE DEF head, old
  <2>2. kept \in Seq({0, 1}) /\ Len(kept) = capacity
    BY <1>1, <1>2, <1>5, <2>1, ConcatProperties
  <2>3. \A i \in 1..old.size : kept[i] = head[i]
    BY <1>1, <1>2, <1>5, <2>1, ConcatProperties
  <2> HIDE DEF kept
  <2> QED BY <2>1, <2>2, <2>3
<1> HIDE DEF kept
<1>7. buf \in Seq({0, 1}) /\ Len(buf) = capacity
  <2>1. buf = [i \in 1..capacity |-> buf[i]] /\ \A i \in 1..capacity : buf[i] \in {0, 1}
    BY <1>6
  <2> HIDE DEF buf
  <2> QED BY <2>1, <1>2, RowIs
<1>8. \A i \in 1..size : buf[i] = IF i \in 1..old.size THEN old.buf[i] ELSE 0
  BY <1>1, <1>2, <1>6
<1> HIDE DEF buf
<1> DEFINE r == Resized(n, size)
<1>9. r \in NodeType /\ r.buf = buf /\ r.size = size /\ r.kind = old.kind /\ r.opens = old.opens /\ r.unlinked = old.unlinked
  BY <1>1, <1>3, <1>7 DEF NodeType
<1>10. Fits(r)
  BY <1>2, <1>7, <1>9 DEF Fits
<1>11. Text(r) = SetLength(Text(old), size)
  <2>1. Text(r) = [i \in 1..size |-> buf[i]]
    BY <1>9, <1>10, TextIs
  <2>2. DOMAIN Text(old) = 1..old.size /\ \A i \in 1..old.size : Text(old)[i] = old.buf[i]
    BY TextIs
  <2>3. SetLength(Text(old), size) = [i \in 1..size |-> IF i \in 1..old.size THEN old.buf[i] ELSE 0]
    BY <2>2 DEF SetLength
  <2> QED BY <2>1, <2>3, <1>8
<1> QED BY <1>9, <1>10, <1>11

LEMMA WrittenIs ==
  ASSUME NEW n, Fits(node[n]), NEW at \in Nat, NEW bytes \in Seq({0, 1})
  PROVE  LET top == Max({node[n].size, at + Len(bytes)})
             r == WrittenAt(n, at, bytes)
         IN /\ top \in Nat /\ Fits(r) /\ r.size = top
            /\ r.kind = node[n].kind /\ r.opens = node[n].opens /\ r.unlinked = node[n].unlinked
            /\ Text(r) = Overwrite(Text(node[n]), at, bytes)
<1> DEFINE top == Max({node[n].size, at + Len(bytes)})
<1> DEFINE grown == Resized(n, top)
<1> DEFINE new == (at + 1)..(at + Len(bytes))
<1> DEFINE buf == [i \in DOMAIN grown.buf |-> IF i \in new THEN bytes[i - at] ELSE grown.buf[i]]
<1> DEFINE r == WrittenAt(n, at, bytes)
<1>1. node[n].size \in Nat /\ Len(bytes) \in Nat /\ \A i \in 1..Len(bytes) : bytes[i] \in {0, 1}
  BY NodeIs DEF Fits
<1>2. at + Len(bytes) \in Nat
  BY <1>1
<1>3. top = IF node[n].size >= at + Len(bytes) THEN node[n].size ELSE at + Len(bytes)
  BY <1>1, <1>2, MaxIs
<1>4. top \in Nat /\ top >= node[n].size /\ top >= at + Len(bytes)
  BY <1>1, <1>3
<1>5. r = [grown EXCEPT !.buf = buf]
  BY Zenon DEF WrittenAt
<1> HIDE DEF top
<1>6. /\ Fits(grown) /\ grown.size = top /\ grown.kind = node[n].kind /\ grown.opens = node[n].opens
      /\ grown.unlinked = node[n].unlinked /\ Text(grown) = SetLength(Text(node[n]), top)
  BY <1>4, ResizedIs
<1> HIDE DEF grown
<1>7. grown \in NodeType /\ grown.buf \in Seq({0, 1}) /\ top <= Len(grown.buf) /\ Len(grown.buf) \in Nat
      /\ DOMAIN grown.buf = 1..Len(grown.buf) /\ \A i \in 1..Len(grown.buf) : grown.buf[i] \in {0, 1}
  BY <1>6, NodeIs, LenProperties DEF Fits
<1>8. \A i \in new : i - at \in 1..Len(bytes)
  BY <1>1
<1>9. buf \in Seq({0, 1}) /\ Len(buf) = Len(grown.buf)
  <2>1. \A i \in 1..Len(grown.buf) : buf[i] \in {0, 1}
    BY <1>1, <1>7, <1>8
  <2>2. buf = [i \in 1..Len(grown.buf) |-> buf[i]]
    BY <1>7
  <2> HIDE DEF buf
  <2> QED BY <2>1, <2>2, <1>7, RowIs
<1>10. \A i \in 1..top : buf[i] = IF i \in new THEN bytes[i - at] ELSE grown.buf[i]
  BY <1>4, <1>7
<1> HIDE DEF buf
<1>11. r \in NodeType /\ r.buf = buf /\ r.size = top /\ r.kind = grown.kind /\ r.opens = grown.opens /\ r.unlinked = grown.unlinked
  BY <1>5, <1>6, <1>7, <1>9 DEF NodeType
<1>12. Fits(r)
  BY <1>7, <1>9, <1>11 DEF Fits
<1>13. Text(r) = Overwrite(Text(node[n]), at, bytes)
  <2> DEFINE s == Text(node[n])
  <2>1. Text(r) = [i \in 1..top |-> buf[i]]
    BY <1>11, <1>12, TextIs
  <2>2. Len(s) = node[n].size
    BY TextIs
  <2>3. \A i \in 1..top : grown.buf[i] = IF i \in DOMAIN s THEN s[i] ELSE 0
    <3>1. \A i \in 1..top : grown.buf[i] = Text(grown)[i]
      BY <1>6, TextIs
    <3> QED BY <3>1, <1>6 DEF SetLength
  <2>4. Overwrite(s, at, bytes) = [i \in 1..top |-> IF i \in new THEN bytes[i - at] ELSE IF i \in DOMAIN s THEN s[i] ELSE 0]
    BY <2>2, Zenon DEF Overwrite, top
  <2> HIDE DEF s, new
  <2>5. \A i \in 1..top : buf[i] = IF i \in new THEN bytes[i - at] ELSE IF i \in DOMAIN s THEN s[i] ELSE 0
    BY <2>3, <1>10
  <2> QED BY <2>1, <2>4, <2>5 DEF s
<1> HIDE DEF r
<1>14. /\ top \in Nat /\ Fits(r) /\ r.size = top
       /\ r.kind = node[n].kind /\ r.opens = node[n].opens /\ r.unlinked = node[n].unlinked
       /\ Text(r) = Overwrite(Text(node[n]), at, bytes)
  BY <1>4, <1>6, <1>11, <1>12, <1>13
<1> QED BY <1>14 DEF top, r

---------------------------------------------------------------------------
(* Paths. *)

Step(dir, name) == IF dir = None \/ node[dir].kind # "dir" THEN None ELSE kids[dir][name]
IsWay(path, way) == way = [k \in 0..Len(path) |-> LET dir == way[k - 1] IN
  IF k = 0 THEN "root" ELSE IF dir = None \/ node[dir].kind # "dir" THEN None ELSE kids[dir][path[k]]]
Way(path) == CHOOSE way : IsWay(path, way)
Spot(path, parent) ==
  IF path = <<>> THEN [found |-> TRUE, parent |-> None, name |-> None, node |-> "root"]
  ELSE IF parent = None \/ node[parent].kind # "dir"
  THEN [found |-> FALSE, parent |-> None, name |-> None, node |-> None]
  ELSE [found |-> TRUE, parent |-> parent, name |-> Last(path), node |-> kids[parent][Last(path)]]

LEMMA ResolveBy ==
  ASSUME NEW path
  PROVE  Resolve(path) = Spot(path, Way(path)[Len(path) - 1])
BY DEF Resolve, Spot, Way, IsWay

LEMMA WayIs ==
  ASSUME NEW path, Len(path) = 1 \/ Len(path) = 2
  PROVE  Way(path)[Len(path) - 1] = IF Len(path) = 1 THEN "root" ELSE Step("root", path[1])
<1> DEFINE a == Step("root", path[1])
<1> DEFINE b == Step(a, path[2])
<1> DEFINE w == [k \in 0..Len(path) |-> IF k = 0 THEN "root" ELSE IF k = 1 THEN a ELSE b]
<1> DEFINE v == [k \in 0..Len(path) |-> LET dir == w[k - 1] IN
                  IF k = 0 THEN "root" ELSE IF dir = None \/ node[dir].kind # "dir" THEN None ELSE kids[dir][path[k]]]
<1>1. \A k \in 0..Len(path) : k \in {0, 1, 2} /\ (k # 0 => k - 1 \in 0..Len(path))
  <2>1. CASE Len(path) = 1
    BY <2>1
  <2>2. CASE Len(path) = 2
    BY <2>2
  <2> QED BY <2>1, <2>2
<1>2. \A k \in 0..Len(path) : v[k] = w[k]
  <2> TAKE k \in 0..Len(path)
  <2>1. CASE k = 0
    BY <2>1
  <2>2. CASE k = 1
    <3>1. w[k - 1] = "root" /\ w[k] = a
      BY <2>2
    <3>2. v[k] = LET dir == w[k - 1] IN IF dir = None \/ node[dir].kind # "dir" THEN None ELSE kids[dir][path[k]]
      BY <2>2
    <3> HIDE DEF w, v
    <3> QED BY <2>2, <3>1, <3>2 DEF Step
  <2>3. CASE k = 2
    <3>1. w[k - 1] = a /\ w[k] = b
      BY <2>3
    <3>2. v[k] = LET dir == w[k - 1] IN IF dir = None \/ node[dir].kind # "dir" THEN None ELSE kids[dir][path[k]]
      BY <2>3
    <3> HIDE DEF w, v, a
    <3> QED BY <2>3, <3>1, <3>2 DEF Step
  <2> QED BY <1>1, <2>1, <2>2, <2>3
<1>3. v = w
  <2>1. v = [k \in 0..Len(path) |-> v[k]] /\ w = [k \in 0..Len(path) |-> w[k]]
    OBVIOUS
  <2> HIDE DEF v, w
  <2> QED BY <1>2, <2>1
<1>4. IsWay(path, w)
  BY <1>3 DEF IsWay
<1>5. IsWay(path, Way(path))
  BY <1>4 DEF Way
<1> HIDE DEF w, v, b
<1> DEFINE way == Way(path)
<1>6. \A k \in 0..Len(path) : way[k] = LET dir == way[k - 1] IN
        IF k = 0 THEN "root" ELSE IF dir = None \/ node[dir].kind # "dir" THEN None ELSE kids[dir][path[k]]
  BY <1>5 DEF IsWay
<1> HIDE DEF way
<1>7. way[0] = "root"
  BY <1>6
<1>8. way[1] = a
  <2>1. 1 \in 0..Len(path) /\ 1 - 1 = 0
    <3>1. CASE Len(path) = 1
      BY <3>1
    <3>2. CASE Len(path) = 2
      BY <3>2
    <3> QED BY <3>1, <3>2
  <2>2. way[1] = IF way[0] = None \/ node[way[0]].kind # "dir" THEN None ELSE kids[way[0]][path[1]]
    BY <1>6, <2>1
  <2> QED BY <1>7, <2>2 DEF Step
<1>9. CASE Len(path) = 1
  <2>1. Len(path) - 1 = 0
    BY <1>9
  <2> QED BY <2>1, <1>7, <1>9 DEF way
<1>10. CASE Len(path) = 2
  <2>1. Len(path) - 1 = 1
    BY <1>10
  <2> QED BY <2>1, <1>8, <1>10 DEF way
<1> QED BY <1>9, <1>10

\* Where a path leads: its directory is the root, or is named by the root.
LEMMA ResolveIs ==
  ASSUME Sound(Tree), NEW path \in Seq(AllNames), Len(path) <= 2
  PROVE  LET spot == Resolve(path) IN
         /\ ~spot.found => spot.node = None /\ path # <<>>
         /\ spot.found /\ path = <<>> => spot.node = "root" /\ spot.parent = None
         /\ spot.found /\ path # <<>> =>
              /\ spot.parent \in Nodes /\ node[spot.parent].kind = "dir" /\ ~node[spot.parent].unlinked
              /\ spot.name \in AllNames /\ spot.node = kids[spot.parent][spot.name] /\ spot.node \in Nodes \cup {None}
              /\ spot.parent # None /\ spot.node # "root"
              /\ \/ Len(path) = 1 /\ spot.parent = "root" /\ spot.name = path[1]
                 \/ Len(path) = 2 /\ spot.parent = kids["root"][path[1]] /\ path[1] \in AllNames /\ spot.name = path[2]
         /\ path # <<>> /\ Len(path) = 1 => spot.found
<1>1. /\ Tree.node = node /\ Tree.kids = kids /\ Tree \in TreeType /\ "root" \in Nodes
      /\ node["root"].kind = "dir" /\ ~node["root"].unlinked
  BY DEF Sound, Own, Shaped, Tree, Nodes, Fixed
<1>2. kids \in [Nodes -> [AllNames -> Nodes \cup {None}]]
  BY <1>1 DEF TreeType
<1>3. \A d \in Nodes, x \in AllNames : kids[d][x] # None => kids[d][x] \in Nodes \ {"root"} /\ ~node[kids[d][x]].unlinked
  BY <1>1 DEF Sound, Linked
<1>4. CASE path = <<>>
  BY <1>4, ResolveBy DEF Spot
<1>5. CASE path # <<>>
  <2>1. /\ Len(path) = 1 \/ Len(path) = 2
        /\ Last(path) = path[Len(path)] /\ Last(path) \in AllNames /\ path[1] \in AllNames
    <3>1. Len(path) # 0 /\ Len(path) \in Nat
      BY <1>5, EmptySeq, LenProperties
    <3> DEFINE l == Len(path)
    <3>0. l # 0 /\ l \in Nat /\ l <= 2
      BY <3>1
    <3> HIDE DEF l
    <3>5. l = 1 \/ l = 2
      BY <3>0
    <3>2. Len(path) = 1 \/ Len(path) = 2
      BY <3>5 DEF l
    <3>3. 1 \in 1..Len(path) /\ Len(path) \in 1..Len(path)
      BY <3>2
    <3>4. path[1] \in AllNames /\ path[Len(path)] \in AllNames
      BY <3>3
    <3> QED BY <3>2, <3>4 DEF Last
  <2> DEFINE parent == IF Len(path) = 1 THEN "root" ELSE Step("root", path[1])
  <2>2. Resolve(path) = Spot(path, parent)
    BY <2>1, ResolveBy, WayIs
  <2>3. parent = IF Len(path) = 1 THEN "root" ELSE kids["root"][path[1]]
    BY <1>1, NodesAre DEF Step
  <2>4. parent \in Nodes \cup {None} /\ (parent # None => parent \in Nodes /\ ~node[parent].unlinked)
    BY <1>1, <1>2, <1>3, <2>1, <2>3
  <2> HIDE DEF parent
  <2>5. CASE parent = None \/ node[parent].kind # "dir"
    <3>1. ~(Len(path) = 1)
      BY <1>1, <2>3, <2>5, NodesAre
    <3>2. Resolve(path) = [found |-> FALSE, parent |-> None, name |-> None, node |-> None]
      BY <1>5, <2>2, <2>5 DEF Spot
    <3> QED BY <1>5, <3>1, <3>2
  <2>6. CASE ~(parent = None \/ node[parent].kind # "dir")
    <3>1. Resolve(path) = [found |-> TRUE, parent |-> parent, name |-> Last(path), node |-> kids[parent][Last(path)]]
      BY <1>5, <2>2, <2>6 DEF Spot
    <3>2. kids[parent][Last(path)] \in Nodes \cup {None} /\ kids[parent][Last(path)] # "root"
      <4>1. parent \in Nodes
        BY <2>4, <2>6
      <4>2. kids[parent][Last(path)] \in Nodes \cup {None}
        BY <4>1, <2>1, <1>2
      <4>3. "root" # None
        BY NodesAre, <1>1
      <4> QED BY <4>1, <4>2, <4>3, <2>1, <1>3
    <3>3. Len(path) = 1 \/ Len(path) = 2
      BY <2>1
    <3> QED BY <1>5, <2>1, <2>3, <2>4, <2>6, <3>1, <3>2, <3>3
  <2> QED BY <2>5, <2>6
<1> QED BY <1>4, <1>5

LEMMA PathsAre == \A path \in Paths : path \in Seq(AllNames) /\ Len(path) <= 2
<1>1. Names \subseteq AllNames /\ {"lib", "zip", "dev", "null"} \subseteq AllNames
  BY NamesAre
<1>2. ASSUME NEW x \in AllNames PROVE <<x>> \in Seq(AllNames) /\ Len(<<x>>) <= 2
  OBVIOUS
<1>3. ASSUME NEW x \in AllNames, NEW y \in AllNames PROVE <<x, y>> \in Seq(AllNames) /\ Len(<<x, y>>) <= 2
  OBVIOUS
<1>4. <<>> \in Seq(AllNames) /\ Len(<<>>) <= 2
  OBVIOUS
<1> SUFFICES ASSUME NEW path \in Paths PROVE path \in Seq(AllNames) /\ Len(path) <= 2
  OBVIOUS
<1>5. \/ path = <<>> \/ path = <<"lib">> \/ path = <<"lib", "zip">> \/ path = <<"dev">> \/ path = <<"dev", "null">>
      \/ \E x \in Names : path = <<x>>
      \/ \E x \in Names, y \in Names \cup {"zip"} : path = <<x, y>>
  BY DEF Paths
<1>6. \A x \in Names \cup {"zip", "lib", "dev", "null"} : x \in AllNames
  BY <1>1
<1> QED BY <1>2, <1>3, <1>4, <1>5, <1>6

---------------------------------------------------------------------------
(* Descriptors. *)

LEMMA HeldIsFinite ==
  ASSUME NEW fs, NEW n
  PROVE  IsFiniteSet(HeldBy(fs, n)) /\ Cardinality(HeldBy(fs, n)) \in Nat /\ Cardinality(HeldBy(fs, n)) <= MaxFds
<1>1. IsFiniteSet(1..MaxFds) /\ Cardinality(1..MaxFds) = MaxFds
  BY FS_Interval, BoundsAssumption
<1>2. HeldBy(fs, n) \subseteq 1..MaxFds
  BY DEF HeldBy
<1> QED BY <1>1, <1>2, FS_Subset, FS_CardinalityType

\* Nobody opened or closed anything.
SameHolders(t, u, fs, gs) ==
  /\ gs \in [1..MaxFds -> FdType]
  /\ \A n \in Nodes : u.node[n].opens = t.node[n].opens
  /\ \A f \in 1..MaxFds : gs[f].node = fs[f].node /\ gs[f].writable = fs[f].writable

LEMMA OpenSame ==
  ASSUME NEW t, NEW u, NEW fs, NEW gs, Open(t, fs), SameHolders(t, u, fs, gs)
  PROVE  Open(u, gs)
<1>1. \A n \in Nodes : HeldBy(gs, n) = HeldBy(fs, n)
  BY DEF HeldBy, SameHolders
<1> QED BY <1>1 DEF Open, SameHolders

LEMMA OpenMore ==
  ASSUME NEW t, NEW u, NEW fs, Open(t, fs), NEW f \in 1..MaxFds, fs[f].node = None, NEW r \in FdType, NEW n \in Nodes,
         r.node = n, r.writable => n # "zip", u.node[n].opens = t.node[n].opens + 1,
         \A m \in Nodes : m # n => u.node[m].opens = t.node[m].opens
  PROVE  Open(u, [fs EXCEPT ![f] = r])
<1> DEFINE gs == [fs EXCEPT ![f] = r]
<1>1. fs \in [1..MaxFds -> FdType] /\ n # None
  BY NodesAre DEF Open
<1>2. gs \in [1..MaxFds -> FdType] /\ \A g \in 1..MaxFds : gs[g] = IF g = f THEN r ELSE fs[g]
  BY <1>1
<1> HIDE DEF gs
<1>3. HeldBy(gs, n) = HeldBy(fs, n) \cup {f} /\ f \notin HeldBy(fs, n)
  BY <1>1, <1>2 DEF HeldBy
<1>4. \A m \in Nodes : m # n => HeldBy(gs, m) = HeldBy(fs, m)
  BY <1>2, NodesAre DEF HeldBy
<1>5. Cardinality(HeldBy(gs, n)) = Cardinality(HeldBy(fs, n)) + 1
  BY <1>3, HeldIsFinite, FS_AddElement
<1>6. \A m \in Nodes : u.node[m].opens = Cardinality(HeldBy(gs, m))
  BY <1>4, <1>5 DEF Open
<1>7. \A g \in 1..MaxFds : gs[g].writable => gs[g].node # "zip"
  BY <1>2 DEF Open
<1> QED BY <1>2, <1>6, <1>7 DEF Open, gs

LEMMA OpenLess ==
  ASSUME NEW t, NEW u, NEW fs, Open(t, fs), NEW f \in 1..MaxFds, NEW n \in Nodes, fs[f].node = n,
         u.node[n].opens = t.node[n].opens - 1,
         \A m \in Nodes : m # n => u.node[m].opens = t.node[m].opens
  PROVE  Open(u, [fs EXCEPT ![f] = NoFd]) /\ t.node[n].opens \in Nat /\ t.node[n].opens > 0
<1> DEFINE gs == [fs EXCEPT ![f] = NoFd]
<1>1. NoFd \in FdType /\ NoFd.node = None /\ ~NoFd.writable
  BY DEF NoFd, FdType
<1>2. fs \in [1..MaxFds -> FdType] /\ n # None
  BY NodesAre DEF Open
<1>3. gs \in [1..MaxFds -> FdType] /\ \A g \in 1..MaxFds : gs[g] = IF g = f THEN NoFd ELSE fs[g]
  BY <1>1, <1>2
<1> HIDE DEF gs
<1>4. HeldBy(gs, n) = HeldBy(fs, n) \ {f} /\ f \in HeldBy(fs, n)
  BY <1>1, <1>2, <1>3 DEF HeldBy
<1>5. \A m \in Nodes : m # n => HeldBy(gs, m) = HeldBy(fs, m)
  BY <1>1, <1>3, NodesAre DEF HeldBy
<1>6. Cardinality(HeldBy(gs, n)) = Cardinality(HeldBy(fs, n)) - 1 /\ Cardinality(HeldBy(gs, n)) \in Nat
  <2>1. IsFiniteSet(HeldBy(fs, n)) /\ IsFiniteSet(HeldBy(gs, n))
    BY HeldIsFinite
  <2>2. Cardinality(HeldBy(fs, n) \ {f}) = Cardinality(HeldBy(fs, n)) - 1
    BY <1>4, <2>1, FS_RemoveElement, Zenon
  <2>3. Cardinality(HeldBy(gs, n)) \in Nat
    BY <2>1, FS_CardinalityType
  <2> QED BY <1>4, <2>2, <2>3, Zenon
<1>7. \A m \in Nodes : u.node[m].opens = Cardinality(HeldBy(gs, m))
  BY <1>5, <1>6 DEF Open
<1>8. \A g \in 1..MaxFds : gs[g].writable => gs[g].node # "zip"
  BY <1>1, <1>3 DEF Open
<1>9. t.node[n].opens = Cardinality(HeldBy(fs, n)) /\ Cardinality(HeldBy(fs, n)) \in Nat
  BY HeldIsFinite DEF Open
<1>10. t.node[n].opens \in Nat /\ t.node[n].opens > 0
  BY <1>6, <1>9
<1>11. Open(u, gs)
  BY <1>3, <1>7, <1>8 DEF Open
<1> QED BY <1>10, <1>11 DEF gs

\* What is held open is there: a node that is not has no descriptors.
LEMMA OpenIsThere ==
  ASSUME NEW t, Sound(t), NEW fs, Open(t, fs), NEW f \in 1..MaxFds, fs[f].node # None
  PROVE  /\ fs[f] \in FdType /\ fs[f].node \in Nodes /\ t.node[fs[f].node].kind # None
         /\ t.node[fs[f].node].opens \in Nat /\ t.node[fs[f].node].opens > 0
<1> DEFINE n == fs[f].node
<1>1. fs[f] \in FdType /\ n \in Nodes
  BY DEF Open, FdType
<1>2. f \in HeldBy(fs, n) /\ t.node[n].opens = Cardinality(HeldBy(fs, n))
  BY <1>1 DEF HeldBy, Open
<1>3. t.node[n].opens \in Nat /\ t.node[n].opens # 0
  BY <1>2, HeldIsFinite, FS_EmptySet
<1>4. t.node[n].kind # None
  BY <1>1, <1>3 DEF Sound, Shaped, NoNode
<1> QED BY <1>1, <1>3, <1>4

---------------------------------------------------------------------------
(* The steps. *)

LEMMA Now ==
  ASSUME Inv
  PROVE  /\ Sound(Tree) /\ Tree \in TreeType /\ Tree.node = node /\ Tree.kids = kids /\ Tree.used = used
         /\ node \in [Nodes -> NodeType] /\ kids \in [Nodes -> [AllNames -> Nodes \cup {None}]]
         /\ used \in Nat /\ used <= Limit /\ Limit \in Nat
         /\ fds \in [1..MaxFds -> FdType] /\ says \in [Nodes -> Seq({0, 1})]
         /\ \A n \in Nodes : /\ Fits(node[n]) /\ node[n].size \in Nat /\ node[n].opens \in Nat
                             /\ says[n] = IF node[n].kind = "file" THEN Text(node[n]) ELSE <<>>
<1>1. Sound(Tree) /\ Tree \in TreeType /\ Tree.node = node /\ Tree.kids = kids /\ Tree.used = used
  BY DEF Inv, Sound, Shaped, Tree
<1>2. /\ node \in [Nodes -> NodeType] /\ kids \in [Nodes -> [AllNames -> Nodes \cup {None}]] /\ used \in Nat
      /\ \A n \in Nodes : node[n] \in NodeType /\ node[n].size \in Nat /\ node[n].opens \in Nat
  BY <1>1, TreeIs
<1>3. \A n \in Nodes : Fits(node[n])
  BY <1>1, <1>2 DEF Fits, Sound, Shaped
<1>4. used <= Limit /\ Limit \in Nat
  BY <1>1, BoundsAssumption DEF Sound, Charged, Limit
<1>5. /\ fds \in [1..MaxFds -> FdType] /\ says \in [Nodes -> Seq({0, 1})]
      /\ \A n \in Nodes : says[n] = IF node[n].kind = "file" THEN Text(node[n]) ELSE <<>>
  BY <1>1 DEF Inv, Open, Holds
<1> QED BY <1>1, <1>2, <1>3, <1>4, <1>5

LEMMA Then ==
  ASSUME NEW N \in [Nodes -> NodeType], NEW K \in [Nodes -> [AllNames -> Nodes \cup {None}]], NEW w \in Nat,
         node' = N, kids' = K, used' = w
  PROVE  Tree' \in TreeType /\ Tree'.node = N /\ Tree'.kids = K /\ Tree'.used = w
<1>1. Tree' = [node |-> N, kids |-> K, used |-> w]
  BY DEF Tree
<1> QED BY <1>1, TreeOf

\* Bytes, or descriptors, of one node.
LEMMA ChangeKeeps ==
  ASSUME Inv, NEW n \in Nodes, NEW r, Fits(r), r.kind = node[n].kind, r.unlinked = node[n].unlinked,
         node[n].kind # None, r.kind \notin {"file", "sink"} => r.size = 0, r.unlinked => r.opens > 0,
         n = "zip" => r.buf = node[n].buf /\ r.size = node[n].size, n = "null" => Text(r) = Zeros(r.size),
         node' = [node EXCEPT ![n] = r], kids' = kids, used' = used - node[n].size + r.size, used' <= Limit,
         says' = [says EXCEPT ![n] = IF r.kind = "file" THEN Text(r) ELSE <<>>]
  PROVE  /\ Sound(Tree)' /\ Holds(Tree, says)'
         /\ \A m \in Nodes : Tree'.node[m] = IF m = n THEN r ELSE node[m]
<1>1. /\ r \in NodeType /\ r.size \in Nat /\ node \in [Nodes -> NodeType] /\ kids \in [Nodes -> [AllNames -> Nodes \cup {None}]]
      /\ Sound(Tree) /\ Tree \in TreeType /\ Tree.node = node /\ Tree.kids = kids /\ Tree.used = used
  BY Now, NodeIs DEF Fits
<1> DEFINE N == [node EXCEPT ![n] = r]
<1>2. N \in [Nodes -> NodeType] /\ \A m \in Nodes : N[m] = IF m = n THEN r ELSE node[m]
  BY <1>1, NodeSet
<1> HIDE DEF N
<1>3. used' \in Nat
  <2> DEFINE u == [node |-> N, kids |-> kids, used |-> used']
  <2>1. /\ u.used = Tree.used - Tree.node[n].size + r.size /\ u.used <= Limit
        /\ \A m \in Nodes : u.node[m].size = IF m = n THEN r.size ELSE Tree.node[m].size
    BY <1>1, <1>2
  <2>2. Charged(Tree)
    BY <1>1 DEF Sound
  <2> HIDE DEF u
  <2>3. u.used \in Nat
    BY <1>1, <2>1, <2>2, ChargedChanges
  <2> QED BY <2>3 DEF u
<1>4. Tree' \in TreeType /\ Tree'.node = N /\ Tree'.kids = kids /\ Tree'.used = used'
  BY <1>1, <1>2, <1>3, Then DEF N
<1>5. Changed(Tree, Tree', n)
  BY <1>1, <1>2, <1>4 DEF Changed, Fits, Text
<1>6. Sound(Tree')
  BY <1>1, <1>5, ChangedIsSound
<1>7. Holds(Tree', says')
  <2> DEFINE text == IF r.kind = "file" THEN Text(r) ELSE <<>>
  <2>1. text \in Seq({0, 1})
    BY TextIs
  <2>2. says \in [Nodes -> Seq({0, 1})] /\ \A m \in Nodes : says[m] = IF node[m].kind = "file" THEN Text(node[m]) ELSE <<>>
    BY Now
  <2>3. says' = [says EXCEPT ![n] = text]
    OBVIOUS
  <2> HIDE DEF text
  <2>4. says' \in [Nodes -> Seq({0, 1})] /\ \A m \in Nodes : says'[m] = IF m = n THEN text ELSE says[m]
    BY <2>1, <2>2, <2>3
  <2>5. \A m \in Nodes : says'[m] = IF Tree'.node[m].kind = "file" THEN Text(Tree'.node[m]) ELSE <<>>
    <3> TAKE m \in Nodes
    <3>1. CASE m = n
      BY <3>1, <2>4, <1>2, <1>4 DEF text
    <3>2. CASE m # n
      BY <3>2, <2>2, <2>4, <1>2, <1>4
    <3> QED BY <3>1, <3>2
  <2> QED BY <2>4, <2>5 DEF Holds
<1> QED BY <1>2, <1>4, <1>6, <1>7

LEMMA BytesAre == \A b \in Bytes : b \in Seq({0, 1}) /\ Len(b) = 1
<1>1. <<1>> \in Seq({0, 1}) /\ Len(<<1>>) = 1
  OBVIOUS
<1> QED BY <1>1 DEF Bytes

\* A descriptor that may change contents is that of a file other than the library's, or of /dev/null.
LEMMA WriterIs ==
  ASSUME Inv, NEW f \in 1..MaxFds, Changeable(f)
  PROVE  /\ fds[f] \in FdType /\ fds[f].node \in Nodes /\ fds[f].node # "zip" /\ node[fds[f].node].kind # "dir"
         /\ node[fds[f].node].opens > 0 /\ node[fds[f].node].kind # None
<1>1. fds[f].node # None /\ node[fds[f].node].kind # "dir" /\ fds[f].node # "zip"
  BY DEF Changeable, ReadOnly
<1>2. Sound(Tree) /\ Tree.node = node /\ Open(Tree, fds)
  BY Now DEF Inv
<1> QED BY <1>1, <1>2, OpenIsThere

\* Descriptors stay with their nodes.
Steady ==
  /\ fds' \in [1..MaxFds -> FdType]
  /\ \A g \in 1..MaxFds : fds'[g].node = fds[g].node /\ fds'[g].writable = fds[g].writable

\* The node of a writer changes and nobody opens or closes anything.
LEMMA WriterKeeps ==
  ASSUME Inv, NEW f \in 1..MaxFds, Changeable(f), NEW r, NEW n, n = fds[f].node,
         Fits(r), r.kind = node[n].kind, r.unlinked = node[n].unlinked, r.opens = node[n].opens,
         node' = [node EXCEPT ![n] = r], kids' = kids, used' = used - node[n].size + r.size, used' <= Limit,
         says' = [says EXCEPT ![n] = IF r.kind = "file" THEN Text(r) ELSE <<>>],
         n = "null" => Text(r) = Zeros(r.size),
         Steady
  PROVE  Inv'
<1>0. node[n].kind \in Kinds
  BY WriterIs, Now, NodeIs DEF Fits
<1>1. n \in Nodes /\ n # "zip" /\ node[n].kind \in {"file", "sink"} /\ node[n].opens > 0 /\ node[n].kind # None
  BY <1>0, WriterIs DEF Kinds
<1>2. /\ Sound(Tree)' /\ Holds(Tree, says)'
      /\ \A m \in Nodes : Tree'.node[m] = IF m = n THEN r ELSE node[m]
  BY <1>1, ChangeKeeps
<1>3. \A m \in Nodes : Tree'.node[m].opens = Tree.node[m].opens
  BY <1>2, Now
<1>4. Open(Tree, fds)
  BY DEF Inv
<1>5. SameHolders(Tree, Tree', fds, fds')
  BY <1>3 DEF SameHolders, Steady
<1>6. Open(Tree', fds')
  BY <1>4, <1>5, OpenSame
<1> QED BY <1>2, <1>6 DEF Inv

\* No descriptor, or an offset or a flag of one.
LEMMA SteadyIs ==
  ASSUME Inv, NEW f \in 1..MaxFds,
         \/ fds' = fds
         \/ \E at \in Nat : fds' = [fds EXCEPT ![f].offset = at]
         \/ fds' = [fds EXCEPT ![f].append = ~@]
  PROVE  Steady
<1>1. fds \in [1..MaxFds -> FdType] /\ fds[f] \in FdType
  BY Now
<1>2. ASSUME NEW r \in FdType, r.node = fds[f].node, r.writable = fds[f].writable, fds' = [fds EXCEPT ![f] = r]
      PROVE  Steady
  BY <1>1, <1>2 DEF Steady
<1>3. CASE fds' = fds
  BY <1>1, <1>3 DEF Steady
<1>4. ASSUME NEW at \in Nat, fds' = [fds EXCEPT ![f].offset = at] PROVE Steady
  <2> DEFINE r == [fds[f] EXCEPT !.offset = at]
  <2>1. fds' = [fds EXCEPT ![f] = r]
    BY <1>4
  <2>2. r \in FdType /\ r.node = fds[f].node /\ r.writable = fds[f].writable
    BY <1>1 DEF FdType
  <2> HIDE DEF r
  <2> QED BY <1>2, <2>1, <2>2
<1>5. CASE fds' = [fds EXCEPT ![f].append = ~@]
  <2> DEFINE r == [fds[f] EXCEPT !.append = ~@]
  <2>1. fds' = [fds EXCEPT ![f] = r]
    BY <1>5
  <2>2. r \in FdType /\ r.node = fds[f].node /\ r.writable = fds[f].writable
    BY <1>1 DEF FdType
  <2> HIDE DEF r
  <2> QED BY <1>2, <2>1, <2>2
<1> QED BY <1>3, <1>4, <1>5

LEMMA WriteKeeps ==
  ASSUME Inv, NEW f \in 1..MaxFds, Writable(f), NEW at \in Nat, NEW bytes \in Bytes, WriteFile(f, at, bytes),
         says' = [says EXCEPT ![fds[f].node] = Overwrite(says[fds[f].node], at, bytes)], Steady
  PROVE  Inv'
<1> DEFINE n == fds[f].node
<1> DEFINE top == Max({node[n].size, at + Len(bytes)})
<1> DEFINE r == WrittenAt(n, at, bytes)
<1>1. n \in Nodes /\ node[n].kind = "file" /\ Changeable(f)
  BY WriterIs DEF Writable
<1>2. Fits(node[n]) /\ node[n].size \in Nat /\ says[n] = Text(node[n]) /\ used \in Nat /\ used <= Limit /\ Limit \in Nat
  BY <1>1, Now
<1>3. bytes \in Seq({0, 1})
  BY BytesAre
<1>4. /\ top \in Nat /\ Fits(r) /\ r.size = top /\ r.kind = node[n].kind /\ r.opens = node[n].opens
      /\ r.unlinked = node[n].unlinked /\ Text(r) = Overwrite(Text(node[n]), at, bytes)
  BY <1>2, <1>3, WrittenIs
<1>5. /\ MayResize(n, top) /\ used' = Claimed(n, top) /\ node' = [node EXCEPT ![n] = r]
      /\ says' = [says EXCEPT ![n] = Overwrite(says[n], at, bytes)] /\ kids' = kids
  BY Zenon DEF WriteFile
<1> HIDE DEF r, top
<1>6. used' = used - node[n].size + r.size /\ used' <= Limit
  BY <1>2, <1>4, <1>5 DEF MayResize, Claimed
<1>7. says' = [says EXCEPT ![n] = IF r.kind = "file" THEN Text(r) ELSE <<>>]
  BY <1>1, <1>2, <1>4, <1>5
<1>8. n = fds[f].node
  OBVIOUS
<1>9. n # "null"
  BY <1>1, Now DEF Sound, Own
<1> HIDE DEF n
<1> QED BY <1>1, <1>4, <1>5, <1>6, <1>7, <1>8, <1>9, WriterKeeps

LEMMA FdWriteKeeps ==
  ASSUME Inv, NEW f \in 1..MaxFds, NEW bytes \in Bytes, FdWrite(f, bytes)
  PROVE  Inv'
<1> DEFINE at == IF fds[f].append THEN node[fds[f].node].size ELSE fds[f].offset
<1>1. Writable(f) /\ WriteFile(f, at, bytes) /\ SaysWritten(f, bytes) /\ fds' = [fds EXCEPT ![f].offset = at + Len(bytes)]
  BY Zenon DEF FdWrite
<1>2. fds[f] \in FdType /\ fds[f].node \in Nodes /\ node[fds[f].node].kind = "file"
  BY <1>1, WriterIs DEF Writable
<1>3. at \in Nat
  BY <1>2, Now DEF FdType
<1>6. says' = [says EXCEPT ![fds[f].node] = Overwrite(says[fds[f].node], at, bytes)]
  <2>1. Len(says[fds[f].node]) = node[fds[f].node].size
    BY <1>2, Now, TextIs
  <2> QED BY <1>1, <2>1 DEF SaysWritten
<1> HIDE DEF at
<1>4. at + Len(bytes) \in Nat
  BY <1>3, BytesAre
<1>5. Steady
  BY <1>1, <1>4, SteadyIs
<1> QED BY <1>1, <1>3, <1>5, <1>6, WriteKeeps

LEMMA FdPwriteKeeps ==
  ASSUME Inv, NEW f \in 1..MaxFds, NEW bytes \in Bytes, NEW at \in {0, Quota}, FdPwrite(f, at, bytes)
  PROVE  Inv'
<1>1. at \in Nat
  BY BoundsAssumption
<1>2. /\ Writable(f) /\ WriteFile(f, at, bytes) /\ fds' = fds
      /\ says' = [says EXCEPT ![fds[f].node] = Overwrite(says[fds[f].node], at, bytes)]
  BY DEF FdPwrite
<1>3. Steady
  BY <1>2, SteadyIs
<1> QED BY <1>1, <1>2, <1>3, WriteKeeps

\* /dev/null holds nothing but zeroes, and at another length as well.
LEMMA NullIs ==
  ASSUME Inv
  PROVE  Text(node["null"]) = Zeros(node["null"].size)
BY Now DEF Sound, Own, Text

\* Zeroes cut or filled to another length are zeroes.
LEMMA ZerosGrow ==
  ASSUME NEW k \in Nat, NEW size \in Nat
  PROVE  SetLength(Zeros(k), size) = Zeros(size)
BY DEF SetLength, Zeros

LEMMA FdSetSizeKeeps ==
  ASSUME Inv, NEW f \in 1..MaxFds, NEW size \in 0..Quota, FdSetSize(f, size)
  PROVE  Inv'
<1> DEFINE n == fds[f].node
<1> DEFINE r == Resized(n, size)
<1>0. size \in Nat
  BY BoundsAssumption
<1>1. /\ Changeable(f) /\ MayResize(n, size) /\ used' = Claimed(n, size) /\ node' = [node EXCEPT ![n] = r]
      /\ says' = [says EXCEPT ![n] = IF node[n].kind = "file" THEN SetLength(says[n], size) ELSE says[n]]
      /\ kids' = kids /\ fds' = fds
  BY Zenon DEF FdSetSize
<1>2. n \in Nodes
  BY <1>1, WriterIs
<1>3. /\ Fits(node[n]) /\ node[n].size \in Nat /\ used \in Nat /\ used <= Limit /\ Limit \in Nat
      /\ says[n] = IF node[n].kind = "file" THEN Text(node[n]) ELSE <<>>
  BY <1>2, Now
<1>4. /\ Fits(r) /\ r.size = size /\ r.kind = node[n].kind /\ r.opens = node[n].opens
      /\ r.unlinked = node[n].unlinked /\ Text(r) = SetLength(Text(node[n]), size)
  BY <1>0, <1>3, ResizedIs
<1> HIDE DEF r
<1>5. used' = used - node[n].size + r.size /\ used' <= Limit
  BY <1>0, <1>1, <1>3, <1>4 DEF MayResize, Claimed
<1>6. says' = [says EXCEPT ![n] = IF r.kind = "file" THEN Text(r) ELSE <<>>] /\ n = fds[f].node
  BY <1>1, <1>3, <1>4
<1>7. Steady
  BY <1>1, SteadyIs
<1>8. ASSUME n = "null" PROVE Text(r) = Zeros(r.size)
  BY <1>0, <1>3, <1>4, <1>8, NullIs, ZerosGrow
<1> HIDE DEF n
<1> QED BY <1>1, <1>4, <1>5, <1>6, <1>7, <1>8, WriterKeeps

\* Nothing of the tree changes.
LEMMA OnlyFds ==
  ASSUME Inv, node' = node, kids' = kids, used' = used, says' = says, Steady
  PROVE  Inv'
<1>1. Tree' = Tree
  BY DEF Tree
<1>2. SameHolders(Tree, Tree, fds, fds')
  BY DEF SameHolders, Steady
<1>3. Sound(Tree) /\ Holds(Tree, says) /\ Open(Tree, fds)
  BY DEF Inv
<1>4. Open(Tree, fds')
  BY <1>2, <1>3, OpenSame
<1> QED BY <1>1, <1>3, <1>4 DEF Inv

LEMMA MovedKeeps ==
  ASSUME Inv, NEW f \in 1..MaxFds, NEW at \in Nat, Moved(f, at)
  PROVE  Inv'
<1>1. fds' = [fds EXCEPT ![f].offset = at] /\ node' = node /\ kids' = kids /\ used' = used /\ says' = says
  BY DEF Moved
<1> QED BY <1>1, SteadyIs, OnlyFds

LEMMA FdSeekKeeps ==
  ASSUME Inv, NEW f \in 1..MaxFds, NEW at \in 0..Quota, FdSeek(f, at)
  PROVE  Inv'
BY MovedKeeps, BoundsAssumption DEF FdSeek

LEMMA FdReadKeeps ==
  ASSUME Inv, NEW f \in 1..MaxFds, FdRead(f)
  PROVE  Inv'
<1>1. fds[f] \in FdType /\ Moved(f, fds[f].offset + 1)
  BY Now DEF FdRead
<1>2. fds[f].offset + 1 \in Nat
  BY <1>1 DEF FdType
<1> QED BY <1>1, <1>2, MovedKeeps

LEMMA FdSetFlagsKeeps ==
  ASSUME Inv, NEW f \in 1..MaxFds, FdSetFlags(f)
  PROVE  Inv'
<1>1. fds' = [fds EXCEPT ![f].append = ~@] /\ node' = node /\ kids' = kids /\ used' = used /\ says' = says
  BY DEF FdSetFlags
<1> QED BY <1>1, SteadyIs, OnlyFds

---------------------------------------------------------------------------
(* What is put together from those changes, for the tree at hand or one in between. *)

LEMMA UsedCovers ==
  ASSUME NEW t, Sound(t), NEW n \in Nodes
  PROVE  t.node[n].size \in Nat /\ t.used \in Nat /\ t.node[n].size <= t.used
<1> DEFINE f == Sizes(t)
<1>1. \A m \in Nodes : f[m] = t.node[m].size /\ f[m] \in Nat
  BY TreeIs DEF Sizes, Sound, Shaped
<1>2. t.used = Total(f, Nodes) /\ t.used \in Nat
  BY TreeIs DEF Sound, Shaped, Charged
<1> HIDE DEF f
<1>3. f[n] <= Total(f, Nodes)
  BY <1>1, NodesAre, TotalNat
<1> QED BY <1>1, <1>2, <1>3

Makes(t, u, n, d, x, r) ==
  /\ n \in Free(t) /\ Fits(r) /\ r.kind \in {"dir", "file"} /\ ~r.unlinked /\ (r.kind = "dir" => r.size = 0)
  /\ d \in Nodes /\ x \in AllNames /\ t.node[d].kind = "dir" /\ ~t.node[d].unlinked /\ t.kids[d][x] = None
  /\ t.used + r.size <= Limit
  /\ u = [node |-> [t.node EXCEPT ![n] = r], kids |-> [t.kids EXCEPT ![d][x] = n], used |-> t.used + r.size]

LEMMA MakesIs ==
  ASSUME NEW t, Sound(t), NEW u, NEW n, NEW d, NEW x, NEW r, Makes(t, u, n, d, x, r)
  PROVE  /\ Sound(u) /\ n \in Nodes /\ n \in Inodes /\ n \notin Fixed /\ t.node[n].opens = 0 /\ t.node[n].kind = None
         /\ u.node \in [Nodes -> NodeType] /\ \A m \in Nodes : u.node[m] = IF m = n THEN r ELSE t.node[m]
         /\ \A e \in Nodes, y \in AllNames : u.kids[e][y] = IF e = d /\ y = x THEN n ELSE t.kids[e][y]
         /\ u.kids[n] = NoKids
<1>1. /\ n \in Nodes /\ n \in Inodes /\ n \notin Fixed /\ t.node[n].kind = None /\ d \in Nodes /\ x \in AllNames
      /\ t \in TreeType /\ r \in NodeType /\ r.size <= Len(r.buf) /\ t.node[d].kind = "dir"
  BY NodesAre DEF Makes, Free, Fits, Sound, Shaped
<1>2. t.node \in [Nodes -> NodeType] /\ t.kids \in [Nodes -> [AllNames -> Nodes \cup {None}]] /\ t.used \in Nat /\ r.size \in Nat
  BY <1>1, TreeIs, NodeIs
<1> DEFINE N == [t.node EXCEPT ![n] = r]
<1> DEFINE K == [t.kids EXCEPT ![d][x] = n]
<1>3. N \in [Nodes -> NodeType] /\ \A m \in Nodes : N[m] = IF m = n THEN r ELSE t.node[m]
  BY <1>1, <1>2, NodeSet
<1>4. /\ K \in [Nodes -> [AllNames -> Nodes \cup {None}]] /\ \A e \in Nodes : e # d => K[e] = t.kids[e]
      /\ \A e \in Nodes, y \in AllNames : K[e][y] = IF e = d /\ y = x THEN n ELSE t.kids[e][y]
  BY <1>1, <1>2, KidSet
<1>5. u = [node |-> N, kids |-> K, used |-> t.used + r.size]
  BY DEF Makes
<1> HIDE DEF N, K
<1>6. t.used + r.size \in Nat
  BY <1>2
<1>7. u \in TreeType /\ u.node = N /\ u.kids = K /\ u.used = t.used + r.size
  BY <1>3, <1>4, <1>5, <1>6, TreeOf
<1>8. Made(t, u, n, d, x)
  BY <1>1, <1>3, <1>4, <1>7 DEF Made, Makes
<1>9. Sound(u)
  BY <1>8, MadeIsSound
<1>10. t.node[n] = NoNode /\ t.kids[n] = NoKids /\ d # n
  BY <1>1 DEF Sound, Shaped, None
<1>11. t.node[n].opens = 0
  BY <1>10 DEF NoNode
<1> QED BY <1>1, <1>3, <1>4, <1>7, <1>9, <1>10, <1>11

LEMMA MakesHolds ==
  ASSUME NEW t, Sound(t), NEW u, NEW n, NEW d, NEW x, NEW r, Makes(t, u, n, d, x, r), NEW s, Holds(t, s)
  PROVE  Holds(u, [s EXCEPT ![n] = IF r.kind = "file" THEN Text(r) ELSE <<>>])
<1> DEFINE text == IF r.kind = "file" THEN Text(r) ELSE <<>>
<1>1. text \in Seq({0, 1})
  BY TextIs DEF Makes
<1>2. n \in Nodes /\ \A m \in Nodes : u.node[m] = IF m = n THEN r ELSE t.node[m]
  BY MakesIs
<1> DEFINE now == [s EXCEPT ![n] = text]
<1>3. s \in [Nodes -> Seq({0, 1})] /\ \A m \in Nodes : s[m] = IF t.node[m].kind = "file" THEN Text(t.node[m]) ELSE <<>>
  BY DEF Holds
<1>4. text = IF r.kind = "file" THEN Text(r) ELSE <<>>
  OBVIOUS
<1> HIDE DEF text
<1>5. now \in [Nodes -> Seq({0, 1})] /\ \A m \in Nodes : now[m] = IF m = n THEN text ELSE s[m]
  BY <1>1, <1>3
<1> HIDE DEF now
<1>6. \A m \in Nodes : now[m] = IF u.node[m].kind = "file" THEN Text(u.node[m]) ELSE <<>>
  <2> TAKE m \in Nodes
  <2>1. CASE m = n
    BY <2>1, <1>2, <1>4, <1>5
  <2>2. CASE m # n
    BY <2>2, <1>2, <1>3, <1>5
  <2> QED BY <2>1, <2>2
<1>7. Holds(u, now)
  BY <1>5, <1>6 DEF Holds
<1> QED BY <1>7 DEF now, text

LEMMA MakesOpen ==
  ASSUME NEW t, Sound(t), NEW u, NEW n, NEW d, NEW x, NEW r, Makes(t, u, n, d, x, r), r.opens = 0, NEW fs, Open(t, fs)
  PROVE  Open(u, fs)
<1>1. \A m \in Nodes : u.node[m].opens = t.node[m].opens
  BY MakesIs
<1>2. SameHolders(t, u, fs, fs)
  BY <1>1 DEF SameHolders, Open
<1> QED BY <1>2, OpenSame

MayDrop(t, d, x) ==
  /\ d \in Nodes /\ x \in AllNames /\ t.kids[d][x] # None
  /\ t.kids[d][x] \notin ReadOnly \cup Pinned /\ t.kids[t.kids[d][x]] = NoKids

LEMMA DroppedIs ==
  ASSUME NEW t, Sound(t), NEW d, NEW x, MayDrop(t, d, x)
  PROVE  LET n == t.kids[d][x]
             u == Dropped(t, d, x)
         IN /\ Sound(u) /\ n \in Nodes
            /\ \A m \in Nodes : /\ m # n => u.node[m] = t.node[m]
                                /\ u.node[m].opens = t.node[m].opens
                                /\ u.node[m].kind = "file" => Text(u.node[m]) = Text(t.node[m]) /\ t.node[m].kind = "file"
                                /\ u.node[m].kind # "dir" => t.node[m].kind # "dir" \/ m = n
            /\ \A e \in Nodes, y \in AllNames : u.kids[e][y] = IF e = d /\ y = x THEN None ELSE t.kids[e][y]
            /\ u.used = IF t.node[n].opens = 0 THEN t.used - t.node[n].size ELSE t.used
<1> DEFINE n == t.kids[d][x]
<1> DEFINE u == Dropped(t, d, x)
<1>1. d \in Nodes /\ x \in AllNames /\ n # None /\ n \notin ReadOnly \cup Pinned /\ t.kids[n] = NoKids /\ t \in TreeType
  BY DEF MayDrop, Sound, Shaped
<1>2. /\ t.node \in [Nodes -> NodeType] /\ t.kids \in [Nodes -> [AllNames -> Nodes \cup {None}]] /\ t.used \in Nat
      /\ n \in Nodes /\ t.node[n] \in NodeType
  BY <1>1, TreeIs
<1> DEFINE r == IF t.node[n].opens = 0 THEN NoNode ELSE [t.node[n] EXCEPT !.unlinked = TRUE]
<1> DEFINE N == [t.node EXCEPT ![n] = r]
<1> DEFINE K == [t.kids EXCEPT ![d][x] = None]
<1> DEFINE w == IF t.node[n].opens = 0 THEN t.used - t.node[n].size ELSE t.used
<1>3. r \in NodeType
  BY <1>2, NamesAre DEF NodeType
<1>4. /\ r.opens = t.node[n].opens
      /\ r.kind = "file" => r.buf = t.node[n].buf /\ r.size = t.node[n].size /\ t.node[n].kind = "file"
  BY <1>2 DEF NodeType, NoNode, None
<1>5. w \in Nat
  BY <1>2, UsedCovers
<1>6. u = [node |-> N, kids |-> K, used |-> w]
  BY <1>2, Zenon DEF Dropped
<1>7. r = IF t.node[n].opens = 0 THEN NoNode ELSE [t.node[n] EXCEPT !.unlinked = TRUE]
  OBVIOUS
<1> HIDE DEF r
<1>8. N \in [Nodes -> NodeType] /\ \A m \in Nodes : N[m] = IF m = n THEN r ELSE t.node[m]
  BY <1>2, <1>3, NodeSet
<1>9. /\ K \in [Nodes -> [AllNames -> Nodes \cup {None}]] /\ \A e \in Nodes : e # d => K[e] = t.kids[e]
      /\ \A e \in Nodes, y \in AllNames : K[e][y] = IF e = d /\ y = x THEN None ELSE t.kids[e][y]
  BY <1>1, <1>2, KidSet
<1>10. w = IF t.node[n].opens = 0 THEN t.used - t.node[n].size ELSE t.used
  OBVIOUS
<1> HIDE DEF N, K, w, u
<1>11. u \in TreeType /\ u.node = N /\ u.kids = K /\ u.used = w
  BY <1>5, <1>6, <1>8, <1>9, TreeOf
<1>12. Unnamed(t, u, d, x)
  BY <1>1, <1>2, <1>7, <1>8, <1>9, <1>10, <1>11 DEF Unnamed
<1>13. Sound(u)
  BY <1>12, UnnamedIsSound
<1>14. ASSUME NEW m \in Nodes
       PROVE  /\ m # n => u.node[m] = t.node[m]
              /\ u.node[m].opens = t.node[m].opens
              /\ u.node[m].kind = "file" => Text(u.node[m]) = Text(t.node[m]) /\ t.node[m].kind = "file"
              /\ u.node[m].kind # "dir" => t.node[m].kind # "dir" \/ m = n
  BY <1>4, <1>8, <1>11 DEF Text
<1> QED BY <1>2, <1>9, <1>10, <1>11, <1>13, <1>14 DEF u

LEMMA DroppedOpen ==
  ASSUME NEW t, Sound(t), NEW d, NEW x, MayDrop(t, d, x), NEW fs, Open(t, fs)
  PROVE  Open(Dropped(t, d, x), fs)
<1> DEFINE u == Dropped(t, d, x)
<1>1. \A m \in Nodes : u.node[m].opens = t.node[m].opens
  BY DroppedIs
<1> HIDE DEF u
<1>2. SameHolders(t, u, fs, fs)
  BY <1>1 DEF SameHolders, Open
<1>3. Open(u, fs)
  BY <1>2, OpenSame
<1> QED BY <1>3 DEF u

\* What remains of says.
Kept(t, s) == [n \in Nodes |-> IF t.node[n].kind = "file" THEN s[n] ELSE <<>>]

LEMMA DroppedHolds ==
  ASSUME NEW t, Sound(t), NEW d, NEW x, MayDrop(t, d, x), NEW s, Holds(t, s)
  PROVE  Holds(Dropped(t, d, x), Kept(Dropped(t, d, x), s))
<1> DEFINE u == Dropped(t, d, x)
<1>1. \A m \in Nodes : u.node[m].kind = "file" => Text(u.node[m]) = Text(t.node[m]) /\ t.node[m].kind = "file"
  BY DroppedIs
<1> HIDE DEF u
<1>2. Holds(u, Kept(u, s))
  <2>1. s \in [Nodes -> Seq({0, 1})] /\ \A m \in Nodes : s[m] = IF t.node[m].kind = "file" THEN Text(t.node[m]) ELSE <<>>
    BY DEF Holds
  <2>2. Kept(u, s) \in [Nodes -> Seq({0, 1})] /\ \A m \in Nodes : Kept(u, s)[m] = IF u.node[m].kind = "file" THEN s[m] ELSE <<>>
    BY <2>1 DEF Kept
  <2> QED BY <1>1, <2>1, <2>2 DEF Holds
<1> QED BY <1>2 DEF u

\* Nothing of a sound tree that is kept is lost.
LEMMA KeptIs ==
  ASSUME NEW t, NEW s, Holds(t, s)
  PROVE  Kept(t, s) = s
BY DEF Kept, Holds

---------------------------------------------------------------------------
(* Opening and closing. *)

\* Where a path of the program leads, as things are.
LEMMA SpotIs ==
  ASSUME Inv, NEW path \in Paths
  PROVE  LET spot == Resolve(path) IN
         /\ path \in Seq(AllNames)
         /\ spot.found /\ spot.node # None => spot.node \in Nodes /\ node[spot.node].kind # None /\ ~node[spot.node].unlinked
         /\ spot.found /\ spot.parent = None => spot.node = "root"
         /\ spot.found /\ (spot.node # "root" \/ spot.parent # None) =>
              /\ path # <<>> /\ spot.parent \in Nodes /\ spot.name \in AllNames
              /\ spot.node = kids[spot.parent][spot.name] /\ spot.node # "root"
              /\ node[spot.parent].kind = "dir" /\ ~node[spot.parent].unlinked
              /\ \/ Len(path) = 1 /\ spot.parent = "root" /\ spot.name = path[1]
                 \/ Len(path) = 2 /\ spot.parent = kids["root"][path[1]] /\ path[1] \in AllNames /\ spot.name = path[2]
<1> DEFINE spot == Resolve(path)
<1>1. Sound(Tree) /\ Tree.node = node /\ Tree.kids = kids
  BY Now
<1>2. path \in Seq(AllNames) /\ Len(path) <= 2
  BY PathsAre
<1>3. /\ ~spot.found => spot.node = None /\ path # <<>>
      /\ spot.found /\ path = <<>> => spot.node = "root" /\ spot.parent = None
      /\ spot.found /\ path # <<>> =>
           /\ spot.parent \in Nodes /\ node[spot.parent].kind = "dir" /\ ~node[spot.parent].unlinked
           /\ spot.name \in AllNames /\ spot.node = kids[spot.parent][spot.name] /\ spot.node \in Nodes \cup {None}
           /\ spot.parent # None /\ spot.node # "root"
           /\ \/ Len(path) = 1 /\ spot.parent = "root" /\ spot.name = path[1]
              \/ Len(path) = 2 /\ spot.parent = kids["root"][path[1]] /\ path[1] \in AllNames /\ spot.name = path[2]
  BY <1>1, <1>2, ResolveIs
<1> HIDE DEF spot
<1>4. \A d \in Nodes, x \in AllNames :
        kids[d][x] # None => kids[d][x] \in Nodes /\ node[kids[d][x]].kind # None /\ ~node[kids[d][x]].unlinked
  BY <1>1 DEF Sound, Linked
<1>5. "root" \in Nodes /\ node["root"].kind # None /\ ~node["root"].unlinked
  BY <1>1 DEF Sound, Own, Nodes, Fixed, None
<1>6. spot.found /\ spot.node # None => spot.node \in Nodes /\ node[spot.node].kind # None /\ ~node[spot.node].unlinked
  BY <1>3, <1>4, <1>5
<1>7. spot.found /\ (spot.node # "root" \/ spot.parent # None) => path # <<>>
  BY <1>3
<1>8. spot.found /\ spot.parent = None => spot.node = "root"
  BY <1>3
<1> QED BY <1>2, <1>3, <1>6, <1>7, <1>8 DEF spot

\* One more descriptor of a node.
OneMore(t, u, fs, f, r, n) ==
  /\ f \in 1..MaxFds /\ fs[f].node = None /\ r \in FdType /\ n \in Nodes /\ r.node = n /\ (r.writable => n # "zip")
  /\ u.node[n].opens = t.node[n].opens + 1
  /\ \A m \in Nodes : m # n => u.node[m].opens = t.node[m].opens

LEMMA OneMoreIsOpen ==
  ASSUME NEW t, NEW u, NEW fs, NEW f, NEW r, NEW n, Open(t, fs), OneMore(t, u, fs, f, r, n)
  PROVE  Open(u, [fs EXCEPT ![f] = r])
<1>1. /\ f \in 1..MaxFds /\ fs[f].node = None /\ r \in FdType /\ n \in Nodes /\ r.node = n /\ (r.writable => n # "zip")
      /\ u.node[n].opens = t.node[n].opens + 1
      /\ \A m \in Nodes : m # n => u.node[m].opens = t.node[m].opens
  BY DEF OneMore
<1> QED BY <1>1, OpenMore

FdOf(n, append, forWriting) ==
  [node |-> n, append |-> append /\ forWriting, writable |-> forWriting, offset |-> 0]

LEMMA FdOfIs ==
  ASSUME Inv, NEW n \in Nodes, NEW append \in BOOLEAN, NEW forWriting \in BOOLEAN
  PROVE  /\ FdOf(n, append, forWriting) \in FdType /\ FdOf(n, append, forWriting).node = n
         /\ FdOf(n, append, forWriting).writable = forWriting
BY DEF FdOf, FdType

LEMMA FreeFdIs ==
  ASSUME \E f \in 1..MaxFds : fds[f].node = None
  PROVE  FreeFd \in 1..MaxFds /\ fds[FreeFd].node = None
BY DEF FreeFd

LEMMA PathOpenKeeps ==
  ASSUME Inv, NEW path \in Paths, NEW truncate \in BOOLEAN, NEW append \in BOOLEAN, NEW write \in BOOLEAN,
         PathOpen(path, truncate, append, write)
  PROVE  Inv'
<1> DEFINE n == Resolve(path).node
<1> DEFINE forWriting == write \/ truncate
<1> DEFINE emptied == IF truncate THEN Resized(n, 0) ELSE node[n]
<1> DEFINE r == [emptied EXCEPT !.opens = @ + 1]
<1> DEFINE q == FdOf(n, append, forWriting)
<1>1. /\ \E f \in 1..MaxFds : fds[f].node = None
      /\ Resolve(path).found /\ n # None
      /\ forWriting => node[n].kind # "dir" /\ n \notin ReadOnly
      /\ node' = [node EXCEPT ![n] = r]
      /\ used' = used - (node[n].size - emptied.size)
      /\ says' = [says EXCEPT ![n] = IF truncate THEN <<>> ELSE says[n]]
      /\ fds' = [fds EXCEPT ![FreeFd] = q]
      /\ kids' = kids
  BY Zenon DEF PathOpen, Opened, FdOf
<1>2. n \in Nodes /\ node[n].kind # None /\ ~node[n].unlinked /\ path \in Seq(AllNames)
  BY <1>1, SpotIs
<1>3. Fits(node[n]) /\ node[n].size \in Nat /\ node[n].opens \in Nat /\ used \in Nat /\ used <= Limit /\ Limit \in Nat
      /\ says[n] = IF node[n].kind = "file" THEN Text(node[n]) ELSE <<>>
  BY <1>2, Now
<1>4. /\ Fits(Resized(n, 0)) /\ Resized(n, 0).size = 0 /\ Resized(n, 0).kind = node[n].kind
      /\ Resized(n, 0).opens = node[n].opens /\ Resized(n, 0).unlinked = node[n].unlinked
  BY <1>3, ResizedIs
<1>5. /\ Fits(emptied) /\ emptied.kind = node[n].kind /\ emptied.opens = node[n].opens /\ emptied.unlinked = node[n].unlinked
      /\ emptied.size \in Nat /\ emptied.size <= node[n].size
      /\ truncate => emptied.size = 0
      /\ ~truncate => emptied = node[n]
  BY <1>3, <1>4
<1>6. forWriting \in BOOLEAN /\ (truncate => forWriting)
  OBVIOUS
<1> HIDE DEF emptied
<1>7. /\ Fits(r) /\ r.kind = node[n].kind /\ r.unlinked = node[n].unlinked /\ r.opens = node[n].opens + 1
      /\ r.size = emptied.size /\ r.buf = emptied.buf
  BY <1>3, <1>5 DEF Fits, NodeType
<1> HIDE DEF r, forWriting
<1>8. n = "zip" => r.buf = node[n].buf /\ r.size = node[n].size
  BY <1>1, <1>5, <1>6, <1>7 DEF ReadOnly
<1>9. r.kind \notin {"file", "sink"} => r.size = 0
  <2>1. node[n].kind \notin {"file", "sink"} => node[n].size = 0
    BY <1>2, Now DEF Sound, Shaped
  <2> QED BY <2>1, <1>3, <1>5, <1>7
<1>19. n = "null" => Text(r) = Zeros(r.size)
  <2> SUFFICES ASSUME n = "null" PROVE Text(r) = Zeros(r.size)
    OBVIOUS
  <2>1. CASE truncate
    <3>1. SetLength(Text(node["null"]), 0) = Zeros(0)
      BY NullIs, Now, ZerosGrow, NodesAre DEF Fixed
    <3>2. Text(r) = SetLength(Text(node[n]), 0)
      BY <2>1, <1>3, <1>7, ResizedIs DEF emptied, Text
    <3> QED BY <3>1, <3>2, <2>1, <1>5, <1>7
  <2>2. CASE ~truncate
    BY <2>2, <1>5, <1>7, NullIs DEF Text
  <2> QED BY <2>1, <2>2
<1>10. used' = used - node[n].size + r.size /\ used' <= Limit
  BY <1>1, <1>3, <1>5, <1>7
<1>11. says' = [says EXCEPT ![n] = IF r.kind = "file" THEN Text(r) ELSE <<>>]
  <2>1. CASE truncate
    <3>1. Text(r) = <<>>
      <4>1. Text(r) \in Seq({0, 1}) /\ Len(Text(r)) = 0
        BY <2>1, <1>5, <1>7, TextIs
      <4> QED BY <4>1, EmptySeq
    <3>2. (IF r.kind = "file" THEN Text(r) ELSE <<>>) = <<>>
      BY <3>1
    <3> QED BY <2>1, <3>2, <1>1
  <2>2. CASE ~truncate
    <3>1. Text(r) = Text(node[n])
      BY <2>2, <1>5, <1>7 DEF Text
    <3>2. (IF r.kind = "file" THEN Text(r) ELSE <<>>) = IF truncate THEN <<>> ELSE says[n]
      BY <2>2, <3>1, <1>3, <1>7
    <3> QED BY <3>2, <1>1
  <2> QED BY <2>1, <2>2
<1>12. r.unlinked => r.opens > 0
  BY <1>2, <1>7
<1>13. q \in FdType /\ q.node = n /\ q.writable = forWriting
  BY <1>2, <1>6, FdOfIs
<1> HIDE DEF n, q
<1>14. /\ Sound(Tree)' /\ Holds(Tree, says)'
       /\ \A m \in Nodes : Tree'.node[m] = IF m = n THEN r ELSE node[m]
  BY <1>1, <1>2, <1>7, <1>8, <1>9, <1>10, <1>11, <1>12, <1>19, ChangeKeeps
<1>15. OneMore(Tree, Tree', fds, FreeFd, q, n)
  BY <1>1, <1>2, <1>7, <1>13, <1>14, Now, FreeFdIs DEF OneMore, ReadOnly
<1>16. Open(Tree, fds)
  BY DEF Inv
<1>17. Open(Tree', fds')
  BY <1>1, <1>15, <1>16, OneMoreIsOpen
<1> QED BY <1>14, <1>17 DEF Inv

\* A node is made in the tree at hand.
LEMMA NewIs ==
  ASSUME Inv, NEW n, NEW d, NEW x, NEW r, NEW u, Makes(Tree, u, n, d, x, r), node' = u.node, kids' = u.kids, used' = u.used
  PROVE  /\ Tree' = u /\ Sound(Tree') /\ n \in Nodes /\ n \in Inodes /\ n \notin Fixed /\ node[n].kind = None
         /\ \A m \in Nodes : Tree'.node[m] = IF m = n THEN r ELSE node[m]
<1>1. Sound(Tree) /\ Tree.node = node
  BY Now
<1>2. Tree' = u
  BY DEF Tree, Makes
<1> QED BY <1>1, <1>2, MakesIs

LEMMA NoNodeIs ==
  /\ NoNode \in NodeType /\ NoNode.kind = None /\ NoNode.buf = <<>> /\ NoNode.size = 0 /\ NoNode.opens = 0 /\ ~NoNode.unlinked
  /\ Len(NoNode.buf) = 0
BY NamesAre DEF NoNode

LEMMA NewFileIs ==
  LET r == [NoNode EXCEPT !.kind = "file", !.opens = 1] IN
  r \in NodeType /\ r.kind = "file" /\ ~r.unlinked /\ r.size = 0 /\ r.opens = 1 /\ r.size <= Len(r.buf)
<1>1. "file" \in Kinds /\ 1 \in Nat
  BY DEF Kinds
<1> DEFINE r == [NoNode EXCEPT !.kind = "file", !.opens = 1]
<1>2. r \in NodeType
  BY <1>1, NoNodeIs DEF NodeType
<1>3. r.kind = "file" /\ r.opens = 1 /\ r.unlinked = NoNode.unlinked /\ r.size = NoNode.size /\ r.buf = NoNode.buf
  BY <1>1, NoNodeIs DEF NodeType
<1> HIDE DEF r
<1>4. ~r.unlinked /\ r.size <= Len(r.buf) /\ r.size = 0
  BY <1>3, NoNodeIs
<1> QED BY <1>2, <1>3, <1>4 DEF r

LEMMA NewDirIs ==
  LET r == [NoNode EXCEPT !.kind = "dir"] IN Fits(r) /\ r.kind = "dir" /\ ~r.unlinked /\ r.size = 0 /\ r.opens = 0
<1>1. "dir" \in Kinds
  BY DEF Kinds
<1> DEFINE r == [NoNode EXCEPT !.kind = "dir"]
<1>2. r \in NodeType
  BY <1>1, NoNodeIs DEF NodeType
<1>3. r.kind = "dir" /\ r.opens = NoNode.opens /\ r.unlinked = NoNode.unlinked /\ r.size = NoNode.size /\ r.buf = NoNode.buf
  BY <1>1, NoNodeIs DEF NodeType
<1> HIDE DEF r
<1>4. ~r.unlinked /\ r.size <= Len(r.buf) /\ r.size = 0 /\ r.opens = 0
  BY <1>3, NoNodeIs
<1>5. Fits(r) /\ r.kind = "dir"
  BY <1>2, <1>3, <1>4 DEF Fits
<1> QED BY <1>4, <1>5 DEF r

LEMMA PathOpenNewKeeps ==
  ASSUME Inv, NEW path \in Paths, NEW append \in BOOLEAN, NEW forWriting \in BOOLEAN, PathOpenNew(path, append, forWriting)
  PROVE  Inv'
<1> DEFINE spot == Resolve(path)
<1>1. /\ \E f \in 1..MaxFds : fds[f].node = None
      /\ spot.found /\ spot.node = None /\ used' = used /\ says' = says
  BY DEF PathOpenNew
<1> DEFINE r == [NoNode EXCEPT !.kind = "file", !.opens = 1]
<1>2. PICK n \in Free(Tree) :
        /\ node' = [node EXCEPT ![n] = r]
        /\ kids' = [kids EXCEPT ![spot.parent][spot.name] = n]
        /\ fds' = [fds EXCEPT ![FreeFd] = FdOf(n, append, forWriting)]
  BY Zenon DEF PathOpenNew, Opened, FdOf
<1>3. Fits(r) /\ r.kind = "file" /\ ~r.unlinked /\ r.size = 0 /\ r.opens = 1
  BY NewFileIs DEF Fits
<1> DEFINE d == spot.parent
<1> DEFINE x == spot.name
<1>4. d \in Nodes /\ x \in AllNames /\ kids[d][x] = None /\ node[d].kind = "dir" /\ ~node[d].unlinked /\ path \in Seq(AllNames)
  BY <1>1, SpotIs, NodesAre DEF Fixed
<1> DEFINE u == [node |-> [node EXCEPT ![n] = r], kids |-> [kids EXCEPT ![d][x] = n], used |-> used + r.size]
<1> HIDE DEF r, spot
<1>5. used \in Nat /\ used <= Limit /\ Limit \in Nat /\ Tree.node = node /\ Tree.kids = kids /\ Tree.used = used
  BY Now
<1>6. Makes(Tree, u, n, d, x, r)
  BY <1>2, <1>3, <1>4, <1>5 DEF Makes
<1>7. node' = u.node /\ kids' = u.kids /\ used' = u.used
  BY <1>1, <1>2, <1>3, <1>5
<1> DEFINE q == FdOf(n, append, forWriting)
<1> HIDE DEF u, d, x
<1>8. /\ Tree' = u /\ Sound(Tree') /\ n \in Nodes /\ n \notin Fixed /\ node[n].kind = None
      /\ \A m \in Nodes : Tree'.node[m] = IF m = n THEN r ELSE node[m]
  BY <1>6, <1>7, NewIs
<1>9. q \in FdType /\ q.node = n /\ q.writable = forWriting
  BY <1>4, <1>8, FdOfIs
<1> HIDE DEF q
<1>10. Sound(Tree) /\ Open(Tree, fds) /\ Holds(Tree, says)
  BY DEF Inv
<1>11. node[n] = NoNode
  BY <1>5, <1>8, <1>10 DEF Sound, Shaped
<1>12. OneMore(Tree, Tree', fds, FreeFd, q, n)
  <2>1. Tree'.node[n].opens = Tree.node[n].opens + 1
    BY <1>3, <1>5, <1>8, <1>11, NoNodeIs
  <2>2. \A m \in Nodes : m # n => Tree'.node[m].opens = Tree.node[m].opens
    BY <1>5, <1>8
  <2>3. n # "zip"
    BY <1>8 DEF Fixed
  <2> QED BY <2>1, <2>2, <2>3, <1>1, <1>8, <1>9, FreeFdIs DEF OneMore
<1>13. Open(Tree', fds')
  BY <1>2, <1>10, <1>12, OneMoreIsOpen DEF q
<1>14. Holds(u, [says EXCEPT ![n] = IF r.kind = "file" THEN Text(r) ELSE <<>>])
  BY <1>6, <1>10, MakesHolds
<1>15. [says EXCEPT ![n] = IF r.kind = "file" THEN Text(r) ELSE <<>>] = says
  <2>1. Text(r) = <<>>
    <3>1. Text(r) \in Seq({0, 1}) /\ Len(Text(r)) = 0
      BY <1>3, TextIs
    <3> QED BY <3>1, EmptySeq
  <2>2. says \in [Nodes -> Seq({0, 1})] /\ says[n] = <<>>
    BY <1>8, Now DEF None
  <2> QED BY <2>1, <2>2, <1>3
<1>16. Holds(Tree', says')
  BY <1>1, <1>8, <1>14, <1>15
<1> QED BY <1>8, <1>13, <1>16 DEF Inv

LEMMA PathCreateDirectoryKeeps ==
  ASSUME Inv, NEW path \in Paths, PathCreateDirectory(path)
  PROVE  Inv'
<1> DEFINE r == [NoNode EXCEPT !.kind = "dir"]
<1> DEFINE d == Resolve(path).parent
<1> DEFINE x == Resolve(path).name
<1>1. Resolve(path).found /\ Resolve(path).node = None /\ used' = used /\ fds' = fds /\ says' = says
  BY DEF PathCreateDirectory
<1>2. PICK n \in Free(Tree) : node' = [node EXCEPT ![n] = r] /\ kids' = [kids EXCEPT ![d][x] = n]
  BY Zenon DEF PathCreateDirectory
<1>3. Fits(r) /\ r.kind = "dir" /\ ~r.unlinked /\ r.size = 0 /\ r.opens = 0
  BY NewDirIs
<1>4. d \in Nodes /\ x \in AllNames /\ kids[d][x] = None /\ node[d].kind = "dir" /\ ~node[d].unlinked
  BY <1>1, SpotIs, NodesAre DEF Fixed
<1> DEFINE u == [node |-> [node EXCEPT ![n] = r], kids |-> [kids EXCEPT ![d][x] = n], used |-> used + r.size]
<1> HIDE DEF r, d, x
<1>5. used \in Nat /\ used <= Limit /\ Limit \in Nat /\ Tree.node = node /\ Tree.kids = kids /\ Tree.used = used
  BY Now
<1>6. Makes(Tree, u, n, d, x, r)
  BY <1>2, <1>3, <1>4, <1>5 DEF Makes
<1>7. node' = u.node /\ kids' = u.kids /\ used' = u.used
  BY <1>1, <1>2, <1>3, <1>5
<1> HIDE DEF u
<1>8. Tree' = u /\ Sound(Tree') /\ n \in Nodes /\ node[n].kind = None
  BY <1>6, <1>7, NewIs
<1>9. Sound(Tree) /\ Open(Tree, fds) /\ Holds(Tree, says)
  BY DEF Inv
<1>10. Open(u, fds)
  BY <1>3, <1>6, <1>9, MakesOpen
<1>11. Holds(u, [says EXCEPT ![n] = IF r.kind = "file" THEN Text(r) ELSE <<>>])
  BY <1>6, <1>9, MakesHolds
<1>12. [says EXCEPT ![n] = IF r.kind = "file" THEN Text(r) ELSE <<>>] = says
  <2>1. says \in [Nodes -> Seq({0, 1})] /\ says[n] = <<>>
    BY <1>8, Now DEF None
  <2> QED BY <2>1, <1>3
<1> QED BY <1>1, <1>8, <1>10, <1>11, <1>12 DEF Inv

\* Closing: one descriptor fewer of a node.
OneLess(t, u, fs, f, n) ==
  /\ f \in 1..MaxFds /\ n \in Nodes /\ fs[f].node = n
  /\ u.node[n].opens = t.node[n].opens - 1
  /\ \A m \in Nodes : m # n => u.node[m].opens = t.node[m].opens

LEMMA OneLessIsOpen ==
  ASSUME NEW t, NEW u, NEW fs, NEW f, NEW n, Open(t, fs), OneLess(t, u, fs, f, n)
  PROVE  Open(u, [fs EXCEPT ![f] = NoFd])
<1>1. /\ f \in 1..MaxFds /\ n \in Nodes /\ fs[f].node = n
      /\ u.node[n].opens = t.node[n].opens - 1
      /\ \A m \in Nodes : m # n => u.node[m].opens = t.node[m].opens
  BY DEF OneLess
<1> QED BY <1>1, OpenLess

LEMMA FdCloseKeeps ==
  ASSUME Inv, NEW f \in 1..MaxFds, FdClose(f)
  PROVE  Inv'
<1> DEFINE n == fds[f].node
<1> DEFINE last == node[n].unlinked /\ node[n].opens = 1
<1>1. /\ n # None
      /\ node' = [node EXCEPT ![n] = IF last THEN NoNode ELSE [node[n] EXCEPT !.opens = node[n].opens - 1]]
      /\ used' = IF last THEN used - node[n].size ELSE used
      /\ says' = [says EXCEPT ![n] = IF last THEN <<>> ELSE says[n]]
      /\ fds' = [fds EXCEPT ![f] = NoFd]
      /\ kids' = kids
  <2>1. n # None /\ kids' = kids /\ fds' = [fds EXCEPT ![f] = NoFd]
    BY DEF FdClose
  <2>2. used' = IF last THEN used - node[n].size ELSE used
    BY Zenon DEF FdClose
  <2>3. says' = [says EXCEPT ![n] = IF last THEN <<>> ELSE says[n]]
    BY Zenon DEF FdClose
  <2>4. node' = [node EXCEPT ![n] = IF last THEN NoNode ELSE [node[n] EXCEPT !.opens = node[n].opens - 1]]
    BY Zenon DEF FdClose
  <2> QED BY <2>1, <2>2, <2>3, <2>4
<1>2. Sound(Tree) /\ Open(Tree, fds) /\ Holds(Tree, says) /\ Tree.node = node /\ Tree.kids = kids /\ Tree.used = used
  BY Now DEF Inv
<1>3. n \in Nodes /\ node[n].kind # None /\ node[n].opens \in Nat /\ node[n].opens > 0
  BY <1>1, <1>2, OpenIsThere
<1>4. /\ Fits(node[n]) /\ node[n].size \in Nat /\ used \in Nat /\ used <= Limit /\ Limit \in Nat
      /\ says[n] = IF node[n].kind = "file" THEN Text(node[n]) ELSE <<>>
  BY <1>3, Now
<1>5. ASSUME Sound(Tree'), Holds(Tree', says'), \A m \in Nodes : m # n => Tree'.node[m] = node[m],
             Tree'.node[n].opens = node[n].opens - 1
      PROVE  Inv'
  <2>1. OneLess(Tree, Tree', fds, f, n)
    BY <1>2, <1>3, <1>5 DEF OneLess
  <2> HIDE DEF n
  <2>2. Open(Tree', fds')
    BY <1>1, <1>2, <2>1, OneLessIsOpen
  <2> QED BY <1>5, <2>2 DEF Inv
<1>6. CASE last
  <2>1. /\ node' = [node EXCEPT ![n] = NoNode] /\ used' = used - node[n].size /\ says' = [says EXCEPT ![n] = <<>>]
        /\ node[n].unlinked /\ node[n].opens = 1
    BY <1>1, <1>6
  <2> HIDE DEF last, n
  <2>2. node \in [Nodes -> NodeType] /\ kids \in [Nodes -> [AllNames -> Nodes \cup {None}]]
    BY Now
  <2> DEFINE N == [node EXCEPT ![n] = NoNode]
  <2>3. N \in [Nodes -> NodeType] /\ \A m \in Nodes : N[m] = IF m = n THEN NoNode ELSE node[m]
    BY <1>3, <2>2, NoNodeIs, NodeSet
  <2>4. used' \in Nat
    BY <1>2, <1>3, <2>1, UsedCovers
  <2>5. Tree' \in TreeType /\ Tree'.node = N /\ Tree'.kids = kids /\ Tree'.used = used'
    BY <1>1, <2>1, <2>2, <2>3, <2>4, Then
  <2> HIDE DEF N
  <2>6. Gone(Tree, Tree', n)
    BY <1>2, <1>3, <2>1, <2>3, <2>5 DEF Gone
  <2>7. Sound(Tree')
    BY <1>2, <2>6, GoneIsSound
  <2>8. Holds(Tree', says')
    <3>1. /\ says \in [Nodes -> Seq({0, 1})]
          /\ \A m \in Nodes : says[m] = IF node[m].kind = "file" THEN Text(node[m]) ELSE <<>>
      BY Now
    <3>2. <<>> \in Seq({0, 1})
      OBVIOUS
    <3>3. says' \in [Nodes -> Seq({0, 1})] /\ \A m \in Nodes : says'[m] = IF m = n THEN <<>> ELSE says[m]
      BY <2>1, <3>1, <3>2
    <3>4. NoNode.kind # "file"
      BY NoNodeIs DEF None
    <3>5. \A m \in Nodes : says'[m] = IF Tree'.node[m].kind = "file" THEN Text(Tree'.node[m]) ELSE <<>>
      <4> TAKE m \in Nodes
      <4>1. CASE m = n
        BY <4>1, <2>3, <2>5, <3>3, <3>4
      <4>2. CASE m # n
        BY <4>2, <2>3, <2>5, <3>1, <3>3
      <4> QED BY <4>1, <4>2
    <3> QED BY <3>3, <3>5 DEF Holds
  <2>9. (\A m \in Nodes : m # n => Tree'.node[m] = node[m]) /\ Tree'.node[n].opens = node[n].opens - 1
    <3>1. Tree'.node[n] = NoNode /\ NoNode.opens = 0
      BY <1>3, <2>3, <2>5, NoNodeIs
    <3>2. \A m \in Nodes : m # n => Tree'.node[m] = node[m]
      BY <2>3, <2>5
    <3> QED BY <2>1, <3>1, <3>2
  <2> QED BY <1>5, <2>7, <2>8, <2>9
<1>7. CASE ~last
  <2> DEFINE r == [node[n] EXCEPT !.opens = node[n].opens - 1]
  <2>1. /\ node' = [node EXCEPT ![n] = r] /\ used' = used /\ says' = [says EXCEPT ![n] = says[n]]
        /\ ~(node[n].unlinked /\ node[n].opens = 1) /\ kids' = kids
    BY <1>1, <1>7
  <2>2. node[n].opens - 1 \in Nat /\ (node[n].unlinked => node[n].opens - 1 > 0)
    BY <1>3, <2>1
  <2>3. /\ Fits(r) /\ r.kind = node[n].kind /\ r.unlinked = node[n].unlinked /\ r.opens = node[n].opens - 1
        /\ r.size = node[n].size /\ r.buf = node[n].buf
    BY <1>4, <2>2 DEF Fits, NodeType
  <2> HIDE DEF r, last, n
  <2>4. Text(r) = Text(node[n])
    BY <2>3 DEF Text
  <2>5. says' = [says EXCEPT ![n] = IF r.kind = "file" THEN Text(r) ELSE <<>>]
    BY <1>4, <2>1, <2>3, <2>4
  <2>6. used' = used - node[n].size + r.size /\ used' <= Limit
    BY <1>4, <2>1, <2>3
  <2>7. (r.kind \notin {"file", "sink"} => r.size = 0) /\ (r.unlinked => r.opens > 0)
    BY <1>2, <1>3, <2>2, <2>3 DEF Sound, Shaped
  <2>8. n = "null" => Text(r) = Zeros(r.size)
    BY <2>3, <2>4, NullIs
  <2>9. /\ Sound(Tree)' /\ Holds(Tree, says)'
        /\ \A m \in Nodes : Tree'.node[m] = IF m = n THEN r ELSE node[m]
    BY <1>3, <2>1, <2>3, <2>5, <2>6, <2>7, <2>8, ChangeKeeps
  <2>10. (\A m \in Nodes : m # n => Tree'.node[m] = node[m]) /\ Tree'.node[n].opens = node[n].opens - 1
    BY <1>3, <2>3, <2>9
  <2> QED BY <1>5, <2>9, <2>10
<1> QED BY <1>6, <1>7

---------------------------------------------------------------------------
(* Names that go. *)

LEMMA RemovesKeeps ==
  ASSUME Inv, NEW t, Sound(t), Open(t, fds), Holds(t, Kept(t, says)), Removes(t)
  PROVE  Inv'
<1>1. t \in TreeType
  BY DEF Sound, Shaped
<1>2. /\ node' = t.node /\ kids' = t.kids /\ used' = t.used /\ fds' = fds /\ says' = Kept(t, says)
      /\ t.node \in [Nodes -> NodeType] /\ t.kids \in [Nodes -> [AllNames -> Nodes \cup {None}]] /\ t.used \in Nat
  BY <1>1, TreeIs DEF Removes, TreeBecomes, Says, Kept
<1>3. Tree' = t
  <2>1. Tree' = [node |-> t.node, kids |-> t.kids, used |-> t.used]
    BY <1>2 DEF Tree
  <2>2. t = [node |-> t.node, kids |-> t.kids, used |-> t.used]
    BY <1>1 DEF TreeType
  <2> QED BY <2>1, <2>2
<1> QED BY <1>2, <1>3 DEF Inv

LEMMA DropKeeps ==
  ASSUME Inv, NEW d, NEW x, MayDrop(Tree, d, x), Removes(Dropped(Tree, d, x))
  PROVE  Inv'
<1>1. Sound(Tree) /\ Open(Tree, fds) /\ Holds(Tree, says)
  BY DEF Inv
<1>2. Sound(Dropped(Tree, d, x)) /\ Open(Dropped(Tree, d, x), fds) /\ Holds(Dropped(Tree, d, x), Kept(Dropped(Tree, d, x), says))
  BY <1>1, DroppedIs, DroppedOpen, DroppedHolds
<1> QED BY <1>2, RemovesKeeps

\* A name of something that is not a directory, nor of the program's own, may go.
LEMMA LeafMayDrop ==
  ASSUME Inv, NEW path \in Paths, Resolve(path).found, Resolve(path).node # None, node[Resolve(path).node].kind # "dir",
         Resolve(path).node \notin ReadOnly \cup Pinned
  PROVE  MayDrop(Tree, Resolve(path).parent, Resolve(path).name)
<1> DEFINE spot == Resolve(path)
<1>1. Sound(Tree) /\ Tree.node = node /\ Tree.kids = kids
  BY Now
<1>2. spot.node # "root"
  BY <1>1 DEF Sound, Own
<1>3. spot.node \in Nodes /\ spot.parent \in Nodes /\ spot.name \in AllNames /\ spot.node = kids[spot.parent][spot.name]
  BY <1>2, SpotIs
<1>4. kids[spot.node] = NoKids
  BY <1>1, <1>3 DEF Sound, Shaped
<1> QED BY <1>1, <1>3, <1>4 DEF MayDrop

LEMMA PathUnlinkFileKeeps ==
  ASSUME Inv, NEW path \in Paths, PathUnlinkFile(path)
  PROVE  Inv'
BY LeafMayDrop, DropKeeps DEF PathUnlinkFile

LEMMA PageRemovesKeeps ==
  ASSUME Inv, NEW path \in Paths, PageRemoves(path)
  PROVE  Inv'
<1>1. "file" # "dir"
  OBVIOUS
<1> QED BY <1>1, LeafMayDrop, DropKeeps DEF PageRemoves

LEMMA PathRemoveDirectoryKeeps ==
  ASSUME Inv, NEW path \in Paths, PathRemoveDirectory(path)
  PROVE  Inv'
<1> DEFINE spot == Resolve(path)
<1>1. /\ spot.found /\ spot.node # None /\ spot.parent # None /\ spot.node \notin Pinned /\ node[spot.node].kind = "dir"
      /\ kids[spot.node] = NoKids /\ Removes(Dropped(Tree, spot.parent, spot.name))
  BY DEF PathRemoveDirectory
<1>2. spot.parent \in Nodes /\ spot.name \in AllNames /\ spot.node = kids[spot.parent][spot.name]
  BY <1>1, SpotIs
<1>3. Sound(Tree) /\ Tree.node = node /\ Tree.kids = kids
  BY Now
<1>4. spot.node # "zip"
  BY <1>1, <1>3 DEF Sound, Own
<1>5. MayDrop(Tree, spot.parent, spot.name)
  BY <1>1, <1>2, <1>3, <1>4 DEF MayDrop, ReadOnly
<1> QED BY <1>1, <1>5, DropKeeps

---------------------------------------------------------------------------
(* Renaming. *)

\* The entry x of p becomes entry y of q.
Shifted(t, p, x, q, y, m) == [node |-> t.node, kids |-> [[t.kids EXCEPT ![p][x] = None] EXCEPT ![q][y] = m], used |-> t.used]

LEMMA ShiftIs ==
  ASSUME NEW t \in TreeType, NEW K
  PROVE  [t EXCEPT !.kids = K] = [node |-> t.node, kids |-> K, used |-> t.used]
BY DEF TreeType

\* In a sound tree the entry x of p, not the library's own, may move to a free entry of a directory
\* that is the root or is in it, and is not what moves.
MayShift(t, p, x, q, y, m) ==
  /\ {p, q} \subseteq Nodes /\ {x, y} \subseteq AllNames
  /\ m = t.kids[p][x] /\ m # None /\ m \notin ReadOnly \cup Pinned
  /\ t.kids[q][y] = None /\ t.node[q].kind = "dir" /\ ~t.node[q].unlinked /\ q # m
  /\ q = "root" \/ \E z \in AllNames : t.kids["root"][z] = q

LEMMA ShiftKeeps ==
  ASSUME NEW t, Sound(t), NEW p, NEW x, NEW q, NEW y, NEW m, MayShift(t, p, x, q, y, m)
  PROVE  Sound(Shifted(t, p, x, q, y, m)) /\ Shifted(t, p, x, q, y, m).node = t.node
<1> DEFINE u == Shifted(t, p, x, q, y, m)
<1>1. p \in Nodes /\ q \in Nodes /\ x \in AllNames /\ y \in AllNames /\ m = t.kids[p][x] /\ m # None /\ t \in TreeType
  BY DEF MayShift, Sound, Shaped
<1>2. t.node \in [Nodes -> NodeType] /\ t.kids \in [Nodes -> [AllNames -> Nodes \cup {None}]] /\ t.used \in Nat
  BY <1>1, TreeIs
<1>3. m \in Nodes
  BY <1>1, <1>2
<1> DEFINE K == [t.kids EXCEPT ![p][x] = None]
<1>4. /\ K \in [Nodes -> [AllNames -> Nodes \cup {None}]]
      /\ \A e \in Nodes : e # p => K[e] = t.kids[e]
      /\ \A e \in Nodes, z \in AllNames : K[e][z] = IF e = p /\ z = x THEN None ELSE t.kids[e][z]
  BY <1>1, <1>2, KidSet
<1> HIDE DEF K
<1> DEFINE J == [K EXCEPT ![q][y] = m]
<1>5. /\ J \in [Nodes -> [AllNames -> Nodes \cup {None}]]
      /\ \A e \in Nodes : e # q => J[e] = K[e]
      /\ \A e \in Nodes, z \in AllNames : J[e][z] = IF e = q /\ z = y THEN m ELSE K[e][z]
  BY <1>1, <1>3, <1>4, KidSet
<1>6. u = [node |-> t.node, kids |-> J, used |-> t.used]
  BY DEF Shifted, K
<1> HIDE DEF J, u
<1>7. u \in TreeType /\ u.node = t.node /\ u.kids = J /\ u.used = t.used
  BY <1>2, <1>5, <1>6, TreeOf
<1>8. \A e \in Nodes : e \notin {p, q} => u.kids[e] = t.kids[e]
  BY <1>4, <1>5, <1>7
<1>9. \A e \in Nodes, z \in AllNames :
        u.kids[e][z] = IF e = q /\ z = y THEN m ELSE IF e = p /\ z = x THEN None ELSE t.kids[e][z]
  BY <1>4, <1>5, <1>7
<1>10. Renamed(t, u, m, p, x, q, y)
  BY <1>7, <1>8, <1>9 DEF Renamed, MayShift
<1>11. Sound(u)
  BY <1>10, RenamedIsSound
<1> QED BY <1>7, <1>11 DEF u

LEMMA ShiftHolds ==
  ASSUME NEW t, Sound(t), NEW u, Sound(u), u.node = t.node, Open(t, fds), NEW s, Holds(t, s)
  PROVE  Open(u, fds) /\ Holds(u, s)
BY DEF Open, Holds

\* A directory does not move into itself.
LEMMA NotBelow ==
  ASSUME Inv, NEW old \in Paths, NEW new \in Paths, MayRename(Resolve(old), Resolve(new), old, new)
  PROVE  Resolve(new).parent # Resolve(old).node
<1> DEFINE from == Resolve(old)
<1> DEFINE to == Resolve(new)
<1>1. /\ from.found /\ from.node # None /\ from.parent # None /\ to.found /\ to.parent # None
      /\ node[from.node].kind = "dir" => ~IsStrictPrefix(old, new)
  BY DEF MayRename
<1>2. /\ old \in Seq(AllNames) /\ from.parent \in Nodes /\ from.name \in AllNames /\ from.node = kids[from.parent][from.name]
      /\ from.node # "root"
      /\ \/ Len(old) = 1 /\ from.parent = "root" /\ from.name = old[1]
         \/ Len(old) = 2 /\ from.parent = kids["root"][old[1]] /\ old[1] \in AllNames /\ from.name = old[2]
  BY <1>1, SpotIs
<1>3. /\ new \in Seq(AllNames) /\ to.parent \in Nodes /\ node[to.parent].kind = "dir"
      /\ \/ Len(new) = 1 /\ to.parent = "root" /\ to.name = new[1]
         \/ Len(new) = 2 /\ to.parent = kids["root"][new[1]] /\ new[1] \in AllNames /\ to.name = new[2]
  BY <1>1, SpotIs
<1> HIDE DEF from, to
<1> SUFFICES ASSUME to.parent = from.node PROVE FALSE
  BY DEF from, to
<1>4. Sound(Tree) /\ Tree.node = node /\ Tree.kids = kids /\ "root" \in Nodes
  BY Now DEF Nodes, Fixed
<1>5. Len(new) = 2 /\ from.node = kids["root"][new[1]] /\ new[1] \in AllNames
  BY <1>2, <1>3
<1>6. from.parent = "root" /\ from.name = new[1]
  <2>1. \A d, e \in Nodes, x, y \in AllNames : kids[d][x] = kids[e][y] /\ kids[d][x] # None => d = e /\ x = y
    BY <1>4 DEF Sound, Linked
  <2>2. kids[from.parent][from.name] = kids["root"][new[1]] /\ kids[from.parent][from.name] # None
    BY <1>1, <1>2, <1>5
  <2> QED BY <1>2, <1>4, <1>5, <2>1, <2>2
<1>7. \A x \in AllNames : kids["root"][x] # "root"
  BY <1>4, NodesAre DEF Sound, Linked, Fixed
<1>8. Len(old) = 1 /\ old[1] = new[1]
  BY <1>2, <1>6, <1>7
<1>9. IsStrictPrefix(old, new)
  <2>1. Len(old) <= Len(new) /\ old # new
    BY <1>5, <1>8
  <2>2. 1 \in 1..Len(old) /\ 1 \in 1..Len(new) /\ 1 <= Len(old) + 1 /\ 1 <= Len(new) + 1
    BY <1>5, <1>8
  <2>3. /\ SubSeq(old, 1, 1) \in Seq(AllNames) /\ Len(SubSeq(old, 1, 1)) = 1 /\ SubSeq(old, 1, 1)[1] = old[1]
        /\ SubSeq(new, 1, 1) \in Seq(AllNames) /\ Len(SubSeq(new, 1, 1)) = 1 /\ SubSeq(new, 1, 1)[1] = new[1]
    <3>1. \A s \in Seq(AllNames) : Len(s) >= 1 =>
            SubSeq(s, 1, 1) \in Seq(AllNames) /\ Len(SubSeq(s, 1, 1)) = 1 /\ SubSeq(s, 1, 1)[1] = s[1]
      OBVIOUS
    <3> QED BY <1>2, <1>3, <1>5, <1>8, <3>1
  <2>4. SubSeq(old, 1, 1) = SubSeq(new, 1, 1)
    BY <1>8, <2>3, SeqEqual
  <2> QED BY <1>8, <2>1, <2>4 DEF IsStrictPrefix, IsPrefix
<1> QED BY <1>1, <1>3, <1>9

\* What the name moves to is freed first.
Room(to) == IF to.node = None THEN Tree ELSE Dropped(Tree, to.parent, to.name)

LEMMA RoomIs ==
  ASSUME Inv, NEW old \in Paths, NEW new \in Paths, MayRename(Resolve(old), Resolve(new), old, new),
         Resolve(old).node # Resolve(new).node
  PROVE  LET from == Resolve(old)
             to == Resolve(new)
             room == Room(to)
         IN /\ Sound(room) /\ Open(room, fds) /\ Holds(room, Kept(room, says))
            /\ MayShift(room, from.parent, from.name, to.parent, to.name, from.node)
<1> DEFINE from == Resolve(old)
<1> DEFINE to == Resolve(new)
<1> DEFINE room == Room(to)
<1> DEFINE m == from.node
<1> DEFINE q == to.parent
<1> DEFINE y == to.name
<1>1. /\ from.found /\ m # None /\ from.parent # None /\ m \notin ReadOnly \cup Pinned
      /\ to.found /\ to.parent # None
      /\ to.node # None =>
           /\ (node[to.node].kind = "dir") <=> (node[m].kind = "dir")
           /\ node[to.node].kind = "dir" => kids[to.node] = NoKids
           /\ to.node \notin ReadOnly \cup Pinned
      /\ m # to.node /\ q # m
  BY NotBelow DEF MayRename
<1>2. from.parent \in Nodes /\ from.name \in AllNames /\ m = kids[from.parent][from.name]
  BY <1>1, SpotIs
<1>3. /\ q \in Nodes /\ y \in AllNames /\ to.node = kids[q][y] /\ node[q].kind = "dir" /\ ~node[q].unlinked
      /\ q = "root" \/ \E z \in AllNames : q = kids["root"][z]
  BY <1>1, SpotIs
<1>4. Sound(Tree) /\ Open(Tree, fds) /\ Holds(Tree, says) /\ Tree.node = node /\ Tree.kids = kids
  BY Now DEF Inv
<1>5. CASE to.node = None
  <2>1. room = Tree
    BY <1>5 DEF Room
  <2>2. Kept(room, says) = says
    BY <1>4, <2>1, KeptIs
  <2>3. MayShift(Tree, from.parent, from.name, q, y, m)
    BY <1>1, <1>2, <1>3, <1>4, <1>5 DEF MayShift
  <2> QED BY <1>4, <2>1, <2>2, <2>3
<1>6. CASE to.node # None
  <2>1. room = Dropped(Tree, q, y)
    BY <1>6 DEF Room
  <2>2. kids[to.node] = NoKids /\ to.node \in Nodes
    <3>1. to.node \in Nodes
      BY <1>1, <1>6, SpotIs
    <3> QED BY <1>1, <1>4, <1>6, <3>1 DEF Sound, Shaped
  <2>3. MayDrop(Tree, q, y)
    BY <1>1, <1>3, <1>4, <1>6, <2>2 DEF MayDrop
  <2> DEFINE n == to.node
  <2>4. /\ Sound(room)
        /\ \A k \in Nodes : k # n => room.node[k] = node[k]
        /\ \A e \in Nodes, z \in AllNames : room.kids[e][z] = IF e = q /\ z = y THEN None ELSE kids[e][z]
    BY <1>3, <1>4, <2>1, <2>3, DroppedIs
  <2>5. Open(room, fds) /\ Holds(room, Kept(room, says))
    BY <1>4, <2>1, <2>3, DroppedOpen, DroppedHolds
  <2> HIDE DEF room, m, q, y, n
  <2>6. q # n
    <3>1. kids[n][y] = None
      BY <1>3, <2>2, NamesAre DEF n
    <3> QED BY <1>3, <1>6, <3>1 DEF n
  <2>7. room.kids[from.parent][from.name] = m
    BY <1>1, <1>2, <1>3, <2>4
  <2>8. room.kids[q][y] = None /\ room.node[q].kind = "dir" /\ ~room.node[q].unlinked
    BY <1>3, <2>4, <2>6
  <2>9. q = "root" \/ \E z \in AllNames : room.kids["root"][z] = q
    <3>1. ASSUME NEW z \in AllNames, q = kids["root"][z] PROVE room.kids["root"][z] = q
      <4>1. "root" \in Nodes /\ ~("root" = q /\ z = y)
        BY <1>3, <2>6, <3>1 DEF n, Nodes, Fixed
      <4> QED BY <2>4, <3>1, <4>1
    <3> QED BY <1>3, <3>1
  <2>10. MayShift(room, from.parent, from.name, q, y, m)
    BY <1>1, <1>2, <1>3, <2>7, <2>8, <2>9 DEF MayShift
  <2> QED BY <2>4, <2>5, <2>10 DEF room, m, q, y
<1> QED BY <1>5, <1>6

LEMMA PathRenameKeeps ==
  ASSUME Inv, NEW old \in Paths, NEW new \in Paths, PathRename(old, new)
  PROVE  Inv'
<1> DEFINE from == Resolve(old)
<1> DEFINE to == Resolve(new)
<1> DEFINE room == Room(to)
<1> DEFINE u == Shifted(room, from.parent, from.name, to.parent, to.name, from.node)
<1>1. MayRename(from, to, old, new) /\ from.node # to.node
  BY DEF PathRename
<1>2. /\ Sound(room) /\ Open(room, fds) /\ Holds(room, Kept(room, says))
      /\ MayShift(room, from.parent, from.name, to.parent, to.name, from.node)
  BY <1>1, RoomIs
<1>3. room \in TreeType
  BY <1>2 DEF Sound, Shaped
<1>4. Removes(u)
  <2> DEFINE moved == [room.kids EXCEPT ![from.parent][from.name] = None]
  <2> DEFINE K == [moved EXCEPT ![to.parent][to.name] = from.node]
  <2>1. Removes([room EXCEPT !.kids = K])
    BY Zenon DEF PathRename, Room
  <2>2. u = [node |-> room.node, kids |-> K, used |-> room.used]
    BY DEF Shifted
  <2> HIDE DEF room, K, u
  <2>3. u = [room EXCEPT !.kids = K]
    BY <1>3, <2>2, ShiftIs
  <2> QED BY <2>1, <2>3
<1>5. Sound(u) /\ u.node = room.node
  BY <1>2, ShiftKeeps
<1> HIDE DEF u, room
<1>6. Kept(u, says) = Kept(room, says)
  BY <1>5 DEF Kept
<1>7. Open(u, fds) /\ Holds(u, Kept(u, says))
  BY <1>2, <1>5, <1>6, ShiftHolds
<1> QED BY <1>4, <1>5, <1>7, RemovesKeeps

---------------------------------------------------------------------------
(* The page. *)

LEMMA AddedIs ==
  ASSUME NEW t, Sound(t), NEW n, NEW r, NEW d, NEW x, n \in Free(t), Fits(r), r.kind \in {"dir", "file"}, ~r.unlinked,
         r.kind = "dir" => r.size = 0, d \in Nodes, x \in AllNames, t.node[d].kind = "dir", ~t.node[d].unlinked,
         t.kids[d][x] = None, t.used + r.size <= Limit
  PROVE  Makes(t, Added(t, n, r, d, x), n, d, x, r) /\ t.used + r.size \in Nat
<1>1. t.used \in Nat /\ r.size \in Nat
  BY TreeIs, NodeIs DEF Sound, Shaped, Fits
<1> QED BY <1>1 DEF Makes, Added

\* The tree that has the directory of a path of the page, or is as it was where that is not needed.
LEMMA WithParentIs ==
  ASSUME Inv, NEW path \in Paths, path # <<>>, NEW t \in WithParent(path)
  PROVE  LET parent == IF Len(path) = 1 THEN "root" ELSE t.kids["root"][path[1]] IN
         /\ Sound(t) /\ Open(t, fds) /\ Holds(t, says)
         /\ parent \in Nodes /\ ~t.node[parent].unlinked /\ Last(path) \in AllNames
<1>1. Sound(Tree) /\ Open(Tree, fds) /\ Holds(Tree, says) /\ Tree.node = node /\ Tree.kids = kids /\ Tree.used = used
  BY Now DEF Inv
<1>2. path \in Seq(AllNames) /\ (Len(path) = 1 \/ Len(path) = 2) /\ path[1] \in AllNames /\ Last(path) \in AllNames
  <2> DEFINE l == Len(path)
  <2>1. path \in Seq(AllNames) /\ l <= 2 /\ l \in Nat /\ l # 0
    BY PathsAre, EmptySeq, LenProperties
  <2> HIDE DEF l
  <2>2. l = 1 \/ l = 2
    BY <2>1
  <2>3. 1 \in 1..Len(path) /\ Len(path) \in 1..Len(path) /\ (Len(path) = 1 \/ Len(path) = 2)
    BY <2>2 DEF l
  <2>4. path[1] \in AllNames /\ path[Len(path)] \in AllNames
    BY <2>1, <2>3
  <2> QED BY <2>1, <2>3, <2>4 DEF Last
<1> DEFINE parent == IF Len(path) = 1 THEN "root" ELSE t.kids["root"][path[1]]
<1>3. ASSUME Sound(t), Len(path) = 2 => t.kids["root"][path[1]] # None
      PROVE  parent \in Nodes /\ ~t.node[parent].unlinked
  <2>1. "root" \in Nodes /\ ~t.node["root"].unlinked
    BY <1>3 DEF Sound, Own, Nodes, Fixed
  <2>2. \A y \in AllNames : t.kids["root"][y] # None => t.kids["root"][y] \in Nodes /\ ~t.node[t.kids["root"][y]].unlinked
    BY <1>3, <2>1 DEF Sound, Linked
  <2>3. CASE Len(path) = 1
    BY <2>1, <2>3
  <2>4. CASE Len(path) = 2
    BY <1>2, <1>3, <2>2, <2>4
  <2> QED BY <1>2, <2>3, <2>4
<1>4. CASE Len(path) < 2
  <2>1. t = Tree
    BY <1>4 DEF WithParent
  <2>2. ~(Len(path) = 2)
    BY <1>4
  <2> QED BY <1>1, <1>2, <1>3, <2>1, <2>2
<1>5. CASE ~(Len(path) < 2)
  <2> DEFINE head == SubSeq(path, 1, 1)
  <2>1. head \in Seq(AllNames) /\ Len(head) = 1 /\ head[1] = path[1] /\ Len(path) = 2
    <3>1. \A s \in Seq(AllNames) : Len(s) >= 1 =>
            SubSeq(s, 1, 1) \in Seq(AllNames) /\ Len(SubSeq(s, 1, 1)) = 1 /\ SubSeq(s, 1, 1)[1] = s[1]
      OBVIOUS
    <3> DEFINE l == Len(path)
    <3>2. (l = 1 \/ l = 2) /\ ~(l < 2)
      BY <1>2, <1>5
    <3> HIDE DEF l
    <3>3. l = 2
      BY <3>2
    <3>4. Len(path) = 2
      BY <3>3 DEF l
    <3> QED BY <1>2, <3>1, <3>4
  <2>2. Resolve(head).node = kids["root"][path[1]]
    <3>1. head # <<>> /\ Len(head) <= 2 /\ ~(Len(head) = 2)
      BY <2>1
    <3> HIDE DEF head
    <3> DEFINE spot == Resolve(head)
    <3>2. spot.found /\ spot.node = kids[spot.parent][spot.name] /\ spot.parent = "root" /\ spot.name = head[1]
      BY <1>1, <2>1, <3>1, ResolveIs
    <3> QED BY <2>1, <3>2
  <2>3. t \in (IF Resolve(head).node # None THEN {Tree}
               ELSE {Added(Tree, n, [NoNode EXCEPT !.kind = "dir"], "root", path[1]) : n \in Free(Tree)})
    BY <1>5 DEF WithParent
  <2> HIDE DEF head
  <2>4. CASE kids["root"][path[1]] # None
    BY <1>1, <1>2, <1>3, <2>2, <2>3, <2>4
  <2>5. CASE kids["root"][path[1]] = None
    <3> DEFINE r == [NoNode EXCEPT !.kind = "dir"]
    <3>1. PICK n \in Free(Tree) : t = Added(Tree, n, r, "root", path[1])
      BY <2>2, <2>3, <2>5
    <3>2. Fits(r) /\ r.kind = "dir" /\ ~r.unlinked /\ r.size = 0 /\ r.opens = 0
      BY NewDirIs
    <3> HIDE DEF r
    <3>3. used + r.size <= Limit /\ "root" \in Nodes /\ node["root"].kind = "dir" /\ ~node["root"].unlinked
      BY <1>1, <3>2, Now DEF Sound, Own, Nodes, Fixed
    <3> DEFINE d == "root"
    <3>4. d \in Nodes /\ node[d].kind = "dir" /\ ~node[d].unlinked /\ kids[d][path[1]] = None /\ t = Added(Tree, n, r, d, path[1])
      BY <2>5, <3>1, <3>3
    <3>10. d = "root"
      OBVIOUS
    <3> HIDE DEF d
    <3>5. Makes(Tree, t, n, d, path[1], r)
      BY <1>1, <1>2, <3>1, <3>2, <3>3, <3>4, AddedIs
    <3>6. Sound(t) /\ n \in Nodes /\ node[n].kind = None /\ t.kids[d][path[1]] = n
      BY <1>1, <1>2, <3>4, <3>5, MakesIs
    <3>7. Open(t, fds)
      BY <1>1, <3>2, <3>5, MakesOpen
    <3>8. Holds(t, says)
      <4>1. Holds(t, [says EXCEPT ![n] = IF r.kind = "file" THEN Text(r) ELSE <<>>])
        BY <1>1, <3>5, MakesHolds
      <4>2. says \in [Nodes -> Seq({0, 1})] /\ says[n] = <<>>
        BY <3>6, Now DEF None
      <4> QED BY <3>2, <4>1, <4>2
    <3>9. t.kids["root"][path[1]] # None
      BY <3>6, <3>10, NodesAre
    <3> QED BY <1>2, <1>3, <3>6, <3>7, <3>8, <3>9
  <2> QED BY <2>4, <2>5
<1> QED BY <1>4, <1>5

LEMMA NewTextIs ==
  ASSUME NEW bytes \in Seq({0, 1})
  PROVE  LET r == [NoNode EXCEPT !.kind = "file", !.buf = bytes, !.size = Len(bytes)] IN
         Fits(r) /\ r.kind = "file" /\ ~r.unlinked /\ r.size = Len(bytes) /\ r.opens = 0 /\ Text(r) = bytes
<1>1. "file" \in Kinds /\ Len(bytes) \in Nat
  BY DEF Kinds
<1> DEFINE r == [NoNode EXCEPT !.kind = "file", !.buf = bytes, !.size = Len(bytes)]
<1>2. r \in NodeType
  BY <1>1, NoNodeIs DEF NodeType
<1>3. r.kind = "file" /\ r.opens = NoNode.opens /\ r.unlinked = NoNode.unlinked /\ r.size = Len(bytes) /\ r.buf = bytes
  BY <1>1, NoNodeIs DEF NodeType
<1> HIDE DEF r
<1>4. ~r.unlinked /\ r.size <= Len(r.buf) /\ r.opens = 0
  BY <1>1, <1>3, NoNodeIs
<1>5. Fits(r)
  BY <1>2, <1>4 DEF Fits
<1>6. Text(r) = bytes
  <2>1. Text(r) \in Seq({0, 1}) /\ Len(Text(r)) = Len(bytes) /\ \A i \in 1..Len(bytes) : Text(r)[i] = bytes[i]
    BY <1>3, <1>5, TextIs
  <2> QED BY <2>1, SeqEqual
<1> QED BY <1>3, <1>4, <1>5, <1>6 DEF r

\* The tree a file is written in, once the way to it is there: what the name had before goes first.
LEMMA WriteRoomIs ==
  ASSUME NEW t, Sound(t), Open(t, fds), Holds(t, says), NEW d, NEW x, d \in Nodes, x \in AllNames,
         t.node[d].kind = "dir", ~t.node[d].unlinked,
         t.kids[d][x] # None => t.node[t.kids[d][x]].kind = "file" /\ t.kids[d][x] \notin ReadOnly \cup Pinned
  PROVE  LET old == t.kids[d][x]
             room == IF old = None THEN t ELSE Dropped(t, d, x)
         IN /\ Sound(room) /\ Open(room, fds) /\ Holds(room, Kept(room, says))
            /\ room.kids[d][x] = None /\ room.node[d].kind = "dir" /\ ~room.node[d].unlinked
            /\ room.used = t.used - (IF old # None /\ t.node[old].opens = 0 THEN t.node[old].size ELSE 0)
<1> DEFINE old == t.kids[d][x]
<1> DEFINE room == IF old = None THEN t ELSE Dropped(t, d, x)
<1>1. CASE old = None
  <2>1. room = t /\ Kept(t, says) = says /\ t.used \in Nat
    BY <1>1, KeptIs, TreeIs DEF Sound, Shaped
  <2> HIDE DEF room
  <2>2. t.used = t.used - 0
    BY <2>1
  <2> QED BY <1>1, <2>1, <2>2 DEF room
<1>2. CASE old # None
  <2>1. old \in Nodes /\ t.node[old].kind = "file" /\ old \notin ReadOnly \cup Pinned /\ t.used \in Nat
    BY <1>2, TreeIs DEF Sound, Linked, Shaped
  <2>2. t.kids[old] = NoKids
    BY <2>1 DEF Sound, Shaped
  <2>3. MayDrop(t, d, x)
    BY <1>2, <2>1, <2>2 DEF MayDrop
  <2>4. room = Dropped(t, d, x)
    BY <1>2
  <2> HIDE DEF room
  <2>5. /\ Sound(room) /\ Open(room, fds) /\ Holds(room, Kept(room, says))
    BY <2>3, <2>4, DroppedIs, DroppedOpen, DroppedHolds
  <2>6. /\ \A m \in Nodes : m # old => room.node[m] = t.node[m]
        /\ \A e \in Nodes, y \in AllNames : room.kids[e][y] = IF e = d /\ y = x THEN None ELSE t.kids[e][y]
        /\ room.used = IF t.node[old].opens = 0 THEN t.used - t.node[old].size ELSE t.used
    BY <2>3, <2>4, DroppedIs
  <2> HIDE DEF old
  <2>7. d # old
    BY <2>1
  <2>8. room.used = t.used - (IF old # None /\ t.node[old].opens = 0 THEN t.node[old].size ELSE 0)
    <3>1. CASE t.node[old].opens = 0
      BY <1>2, <2>6, <3>1
    <3>2. CASE t.node[old].opens # 0
      BY <2>1, <2>6, <3>2
    <3> QED BY <3>1, <3>2
  <2> QED BY <2>5, <2>6, <2>7, <2>8 DEF room, old
<1> QED BY <1>1, <1>2

LEMMA BecomesIs ==
  ASSUME NEW t, Sound(t), TreeBecomes(t)
  PROVE  Tree' = t
<1>1. t = [node |-> t.node, kids |-> t.kids, used |-> t.used]
  BY DEF Sound, Shaped, TreeType
<1> QED BY <1>1 DEF TreeBecomes, Tree

LEMMA PageWritesKeeps ==
  ASSUME Inv, NEW path \in Paths, NEW bytes \in Bytes, PageWrites(path, bytes)
  PROVE  Inv'
<1>1. path # <<>>
  BY DEF PageWrites
<1> DEFINE Parent(t) == IF Len(path) = 1 THEN "root" ELSE t.kids["root"][path[1]]
<1> DEFINE Old(t) == IF t.node[Parent(t)].kind = "dir" THEN t.kids[Parent(t)][Last(path)] ELSE None
<1> DEFINE Freed(t) == IF Old(t) # None /\ t.node[Old(t)].opens = 0 THEN t.node[Old(t)].size ELSE 0
<1> DEFINE Refused(t) == \/ t.node[Parent(t)].kind # "dir"
                         \/ Old(t) # None /\ (t.node[Old(t)].kind # "file" \/ Old(t) \in ReadOnly \cup Pinned)
                         \/ t.used - Freed(t) + Len(bytes) > Limit
<1> DEFINE Made0(t) == IF Old(t) = None THEN t ELSE Dropped(t, Parent(t), Last(path))
<1> DEFINE r == [NoNode EXCEPT !.kind = "file", !.buf = bytes, !.size = Len(bytes)]
<1>2. PICK t \in WithParent(path) :
        IF Refused(t) THEN t # Tree /\ TreeBecomes(t) /\ UNCHANGED <<fds, says>>
        ELSE \E n \in Free(Made0(t)) :
               /\ TreeBecomes(Added(Made0(t), n, r, Parent(t), Last(path)))
               /\ says' = [Says(Made0(t)) EXCEPT ![n] = bytes]
               /\ UNCHANGED fds
  BY Zenon DEF PageWrites
<1> DEFINE d == Parent(t)
<1> DEFINE x == Last(path)
<1>3. Sound(t) /\ Open(t, fds) /\ Holds(t, says) /\ d \in Nodes /\ ~t.node[d].unlinked /\ x \in AllNames
  BY <1>1, WithParentIs
<1>4. bytes \in Seq({0, 1}) /\ Len(bytes) = 1
  BY BytesAre
<1>5. CASE Refused(t)
  <2>1. TreeBecomes(t) /\ fds' = fds /\ says' = says
    BY <1>2, <1>5
  <2>2. Tree' = t
    BY <1>3, <2>1, BecomesIs
  <2> QED BY <1>3, <2>1, <2>2 DEF Inv
<1>6. CASE ~Refused(t)
  <2> DEFINE old == t.kids[d][x]
  <2> DEFINE room == IF old = None THEN t ELSE Dropped(t, d, x)
  <2> DEFINE freed == IF old # None /\ t.node[old].opens = 0 THEN t.node[old].size ELSE 0
  <2>1. t.node[d].kind = "dir"
    BY <1>6
  <2>2. Old(t) = old
    BY <2>1
  <2>3. /\ old # None => t.node[old].kind = "file" /\ old \notin ReadOnly \cup Pinned
        /\ ~(t.used - freed + Len(bytes) > Limit)
    BY <1>6, <2>2
  <2>4. PICK n \in Free(room) :
               /\ TreeBecomes(Added(room, n, r, d, x))
               /\ says' = [Says(room) EXCEPT ![n] = bytes]
               /\ fds' = fds
    <3>1. Made0(t) = room
      BY <2>2
    <3> HIDE DEF Refused, Made0, Old, Freed, Parent
    <3> QED BY <1>2, <1>6, <3>1
  <2>5. /\ Sound(room) /\ Open(room, fds) /\ Holds(room, Kept(room, says))
        /\ room.kids[d][x] = None /\ room.node[d].kind = "dir" /\ ~room.node[d].unlinked
        /\ room.used = t.used - freed
    <3> HIDE DEF d, x, Refused, Made0, Old, Freed, Parent
    <3> QED BY <1>3, <2>1, <2>3, WriteRoomIs
  <2>6. Fits(r) /\ r.kind = "file" /\ ~r.unlinked /\ r.size = Len(bytes) /\ r.opens = 0 /\ Text(r) = bytes
    BY <1>4, NewTextIs
  <2> HIDE DEF d, x, Refused, Made0, Old, Freed, Parent, r, room
  <2>7. room.used + r.size <= Limit
    <3>1. room.used \in Nat /\ Limit \in Nat
      BY <2>5, TreeIs, BoundsAssumption DEF Sound, Shaped, Limit
    <3> DEFINE sum == room.used + Len(bytes)
    <3>2. sum \in Nat /\ ~(sum > Limit)
      BY <1>4, <2>3, <2>5, <3>1
    <3> HIDE DEF sum
    <3>3. sum <= Limit
      BY <3>1, <3>2
    <3> QED BY <2>6, <3>3 DEF sum
  <2> DEFINE u == Added(room, n, r, d, x)
  <2>8. Makes(room, u, n, d, x, r)
    BY <1>3, <2>4, <2>5, <2>6, <2>7, AddedIs
  <2> HIDE DEF u
  <2>9. Sound(u) /\ Open(u, fds)
    BY <2>5, <2>6, <2>8, MakesIs, MakesOpen
  <2>10. Tree' = u
    BY <2>4, <2>9, BecomesIs DEF u
  <2>11. Holds(u, [Kept(room, says) EXCEPT ![n] = IF r.kind = "file" THEN Text(r) ELSE <<>>])
    BY <2>5, <2>8, MakesHolds
  <2>12. says' = [Kept(room, says) EXCEPT ![n] = IF r.kind = "file" THEN Text(r) ELSE <<>>]
    <3>1. Says(room) = Kept(room, says)
      BY DEF Says, Kept
    <3> QED BY <2>4, <2>6, <3>1
  <2> QED BY <2>4, <2>9, <2>10, <2>11, <2>12 DEF Inv
<1> QED BY <1>5, <1>6

---------------------------------------------------------------------------
(* Together. *)

\* The names the constructor gives.
Given(d, x) ==
  \/ d = "root" /\ x \in {"lib", "dev"}
  \/ d = "lib" /\ x = "zip"
  \/ d = "dev" /\ x = "null"

LEMMA InitIs ==
  ASSUME Init
  PROVE  /\ node \in [Nodes -> NodeType] /\ kids \in [Nodes -> [AllNames -> Nodes \cup {None}]] /\ used = 1
         /\ \A n \in Nodes : /\ node[n].opens = 0 /\ ~node[n].unlinked
                             /\ node[n].size = (IF n = "zip" THEN 1 ELSE 0) /\ node[n].size <= Len(node[n].buf)
                             /\ node[n].kind = (IF n \in {"root", "lib", "dev"} THEN "dir" ELSE IF n = "null" THEN "sink"
                                                ELSE IF n = "zip" THEN "file" ELSE None)
                             /\ n \notin Fixed => node[n] = NoNode
                             /\ n \notin {"root", "lib", "dev"} => kids[n] = NoKids
         /\ node["zip"].buf = <<1>>
         /\ \A d \in Nodes, x \in AllNames : kids[d][x] = IF Given(d, x) THEN x ELSE None
<1> DEFINE dir == [NoNode EXCEPT !.kind = "dir"]
<1> DEFINE sink == [NoNode EXCEPT !.kind = "sink"]
<1> DEFINE zip == [NoNode EXCEPT !.kind = "file", !.buf = <<1>>, !.size = 1]
<1>1. dir \in NodeType /\ dir.kind = "dir" /\ dir.opens = 0 /\ ~dir.unlinked /\ dir.size = 0 /\ dir.size <= Len(dir.buf)
  BY NewDirIs DEF Fits
<1>2. sink \in NodeType /\ sink.kind = "sink" /\ sink.opens = 0 /\ ~sink.unlinked /\ sink.size = 0 /\ sink.size <= Len(sink.buf)
  <2>1. "sink" \in Kinds
    BY DEF Kinds
  <2>2. sink \in NodeType
    BY <2>1, NoNodeIs DEF NodeType
  <2>3. /\ sink.kind = "sink" /\ sink.opens = NoNode.opens /\ sink.unlinked = NoNode.unlinked /\ sink.size = NoNode.size
        /\ sink.buf = NoNode.buf
    BY <2>1, NoNodeIs DEF NodeType
  <2> HIDE DEF sink
  <2> QED BY <2>2, <2>3, NoNodeIs
<1>3. zip \in NodeType /\ zip.kind = "file" /\ zip.opens = 0 /\ ~zip.unlinked /\ zip.size = 1 /\ zip.buf = <<1>> /\ zip.size <= Len(zip.buf)
  <2>1. "file" \in Kinds /\ <<1>> \in Seq({0, 1}) /\ Len(<<1>>) = 1 /\ 1 \in Nat
    BY DEF Kinds
  <2>2. zip \in NodeType
    BY <2>1, NoNodeIs DEF NodeType
  <2>3. /\ zip.kind = "file" /\ zip.opens = NoNode.opens /\ zip.unlinked = NoNode.unlinked /\ zip.size = 1
        /\ zip.buf = <<1>>
    BY <2>1, NoNodeIs DEF NodeType
  <2> HIDE DEF zip
  <2> QED BY <2>1, <2>2, <2>3, NoNodeIs
<1>4. node = [n \in Nodes |-> IF n \in {"root", "lib", "dev"} THEN dir ELSE IF n = "null" THEN sink
                              ELSE IF n = "zip" THEN zip ELSE NoNode]
  BY Zenon DEF Init
<1> HIDE DEF dir, sink, zip
<1>5. "zip" \in Nodes /\ Fixed \subseteq Nodes
  BY NodesAre DEF Fixed
<1>6. node \in [Nodes -> NodeType]
  BY <1>1, <1>2, <1>3, <1>4, NoNodeIs
<1>7. ASSUME NEW n \in Nodes
      PROVE  /\ node[n].opens = 0 /\ ~node[n].unlinked
             /\ node[n].size = (IF n = "zip" THEN 1 ELSE 0) /\ node[n].size <= Len(node[n].buf)
             /\ node[n].kind = (IF n \in {"root", "lib", "dev"} THEN "dir" ELSE IF n = "null" THEN "sink"
                                ELSE IF n = "zip" THEN "file" ELSE None)
             /\ n \notin Fixed => node[n] = NoNode
  <2>1. CASE n \in {"root", "lib", "dev"}
    BY <2>1, <1>1, <1>4 DEF Fixed
  <2>2. CASE n = "null"
    BY <2>2, <1>2, <1>4 DEF Fixed
  <2>3. CASE n = "zip"
    BY <2>3, <1>3, <1>4 DEF Fixed
  <2>4. CASE n \notin Fixed
    BY <2>4, <1>4, NoNodeIs DEF Fixed
  <2> QED BY <2>1, <2>2, <2>3, <2>4 DEF Fixed
<1>8. node["zip"].buf = <<1>>
  BY <1>3, <1>4, <1>5
<1> DEFINE rootKids == [NoKids EXCEPT !["lib"] = "lib", !["dev"] = "dev"]
<1> DEFINE libKids == [NoKids EXCEPT !["zip"] = "zip"]
<1> DEFINE devKids == [NoKids EXCEPT !["null"] = "null"]
<1>9. kids = [n \in Nodes |-> IF n = "root" THEN rootKids ELSE IF n = "lib" THEN libKids ELSE IF n = "dev" THEN devKids ELSE NoKids]
  BY Zenon DEF Init
<1>10. /\ \A x \in AllNames : /\ rootKids[x] = IF x \in {"lib", "dev"} THEN x ELSE None
                              /\ libKids[x] = IF x = "zip" THEN x ELSE None
                              /\ devKids[x] = IF x = "null" THEN x ELSE None
       /\ {rootKids, libKids, devKids} \subseteq [AllNames -> Nodes \cup {None}]
  BY NamesAre, NodesAre DEF Fixed
<1> HIDE DEF rootKids, libKids, devKids
<1>11. kids \in [Nodes -> [AllNames -> Nodes \cup {None}]]
  BY <1>9, <1>10, NamesAre
<1>12. ASSUME NEW d \in Nodes, NEW x \in AllNames PROVE kids[d][x] = IF Given(d, x) THEN x ELSE None
  <2>1. CASE d = "root"
    BY <2>1, <1>9, <1>10 DEF Given
  <2>2. CASE d = "lib"
    BY <2>2, <1>9, <1>10 DEF Given
  <2>3. CASE d = "dev"
    BY <2>3, <1>9, <1>10 DEF Given
  <2>4. CASE d \notin {"root", "lib", "dev"}
    BY <2>4, <1>9, NamesAre DEF Given
  <2> QED BY <2>1, <2>2, <2>3, <2>4
<1>13. \A n \in Nodes : n \notin {"root", "lib", "dev"} => kids[n] = NoKids
  BY <1>9
<1>14. used = 1
  BY DEF Init
<1> QED BY <1>6, <1>7, <1>8, <1>11, <1>12, <1>13, <1>14

LEMMA InitHolds ==
  ASSUME Init
  PROVE  Inv
<1>1. Tree \in TreeType /\ Tree.node = node /\ Tree.kids = kids /\ Tree.used = 1
  <2>1. used \in Nat /\ used = 1
    BY InitIs
  <2> QED BY <2>1, InitIs, TreeOf DEF Tree
<1>2. Fixed \subseteq Nodes /\ {"root", "lib", "zip", "dev", "null"} \subseteq Nodes /\ {"lib", "zip", "dev", "null"} \subseteq AllNames
  BY NodesAre, NamesAre DEF Fixed
<1>3. Shaped(Tree)
  BY <1>1, InitIs DEF Shaped, Fixed, None
<1>4. Linked(Tree)
  <2>1. \A d \in Nodes, x \in AllNames : kids[d][x] # None => Given(d, x) /\ kids[d][x] = x
    BY InitIs
  <2>2. \A d, e \in Nodes, x \in AllNames : Given(d, x) /\ Given(e, x) => d = e
    BY DEF Given
  <2>3. \A d \in Nodes, x \in AllNames : Given(d, x) => x \in {"lib", "zip", "dev", "null"}
    BY DEF Given
  <2>4. \A d \in Nodes, x \in AllNames : kids[d][x] # None =>
          kids[d][x] \in Nodes \ {"root"} /\ node[kids[d][x]].kind # None /\ ~node[kids[d][x]].unlinked
    BY <1>2, <2>1, <2>3, InitIs DEF None
  <2>5. ASSUME NEW n \in Nodes \ {"root"}, node[n].kind # None
        PROVE  \E d \in Nodes, x \in AllNames : kids[d][x] = n
    <3>1. n \in {"lib", "zip", "dev", "null"}
      BY <2>5, InitIs
    <3>2. kids["root"]["lib"] = "lib" /\ kids["root"]["dev"] = "dev" /\ kids["lib"]["zip"] = "zip" /\ kids["dev"]["null"] = "null"
      BY <1>2, InitIs DEF Given
    <3>3. CASE n = "lib"
      BY <1>2, <3>2, <3>3
    <3>4. CASE n = "zip"
      BY <1>2, <3>2, <3>4
    <3>5. CASE n = "dev"
      BY <1>2, <3>2, <3>5
    <3>6. CASE n = "null"
      BY <1>2, <3>2, <3>6
    <3> QED BY <3>1, <3>3, <3>4, <3>5, <3>6
  <2>6. \A d, e \in Nodes, x, y \in AllNames : kids[d][x] = kids[e][y] /\ kids[d][x] # None => d = e /\ x = y
    BY <2>1, <2>2
  <2> QED BY <1>1, <2>4, <2>5, <2>6 DEF Linked
<1>5. Rooted(Tree)
  <2> SUFFICES ASSUME NEW D \in SUBSET Dirs(Tree), D # {}
               PROVE  \E n \in D : \E d \in Nodes \ D, x \in AllNames : Tree.kids[d][x] = n
    BY DEF Rooted
  <2>1. PICK n \in D : TRUE
    OBVIOUS
  <2>2. n \in {"lib", "dev"} /\ "root" \notin D
    BY <1>1, <2>1, InitIs DEF Dirs, None
  <2>3. kids["root"][n] = n
    BY <1>2, <2>2, InitIs DEF Given
  <2> QED BY <1>1, <1>2, <2>1, <2>2, <2>3
<1>6. Own(Tree)
  <2>1. kids["lib"]["zip"] = "zip" /\ kids["root"]["dev"] = "dev" /\ kids["dev"]["null"] = "null"
    BY <1>2, InitIs DEF Given
  <2>2. node["root"].kind = "dir" /\ ~node["root"].unlinked /\ node["zip"].kind = "file" /\ node["dev"].kind = "dir" /\ node["null"].kind = "sink"
    BY <1>2, InitIs
  <2>3. SubSeq(node["zip"].buf, 1, node["zip"].size) = <<1>>
    <3>1. node["zip"].buf = <<1>> /\ node["zip"].size = 1
      BY <1>2, InitIs
    <3> DEFINE b == <<1>>
    <3>2. b \in Seq({0, 1}) /\ Len(b) = 1 /\ 1 \in 0..Len(b)
      OBVIOUS
    <3> HIDE DEF b
    <3>3. SubSeq(b, 1, 1) \in Seq({0, 1}) /\ Len(SubSeq(b, 1, 1)) = 1 /\ \A i \in 1..1 : SubSeq(b, 1, 1)[i] = b[i]
      BY <3>2, HeadIs
    <3>4. SubSeq(b, 1, 1) = b
      BY <3>2, <3>3, SeqEqual
    <3> QED BY <3>1, <3>4 DEF b
  <2>4. SubSeq(node["null"].buf, 1, node["null"].size) = Zeros(node["null"].size)
    <3>1. node["null"].buf \in Seq({0, 1}) /\ node["null"].size = 0
      BY <1>2, InitIs DEF NodeType
    <3>2. 0 \in 0..Len(node["null"].buf)
      BY <3>1, LenProperties
    <3>3. SubSeq(node["null"].buf, 1, 0) = [i \in 1..0 |-> node["null"].buf[i]]
      BY <3>1, <3>2, HeadIs
    <3>4. [i \in 1..0 |-> node["null"].buf[i]] = Zeros(0)
      BY DEF Zeros
    <3> QED BY <3>1, <3>3, <3>4
  <2> QED BY <1>1, <2>1, <2>2, <2>3, <2>4 DEF Own
<1>7. Charged(Tree)
  <2> DEFINE f == [n \in Nodes |-> 0]
  <2> DEFINE g == Sizes(Tree)
  <2>1. \A n \in Nodes : f[n] = 0 /\ f[n] \in Nat /\ f[n] \in Int
    OBVIOUS
  <2>2. g["zip"] = 1 /\ g["zip"] \in Int /\ \A n \in Nodes \ {"zip"} : f[n] = g[n]
    BY <1>1, <1>2, InitIs DEF Sizes
  <2> HIDE DEF f, g
  <2>3. Total(f, Nodes) = 0
    BY <2>1, NodesAre, TotalNat
  <2>4. "zip" \in Nodes
    BY <1>2
  <2>5. Total(g, Nodes) = Total(f, Nodes) - f["zip"] + g["zip"]
    BY <2>1, <2>2, <2>4, NodesAre, TotalChange
  <2>6. Total(g, Nodes) = 1
    BY <2>1, <2>2, <2>3, <2>4, <2>5
  <2>7. 1 <= Limit
    BY BoundsAssumption DEF Limit
  <2> QED BY <1>1, <2>6, <2>7 DEF Charged, g
<1>8. Open(Tree, fds)
  <2>1. NoFd \in FdType /\ NoFd.node = None /\ ~NoFd.writable
    BY DEF NoFd, FdType
  <2>2. fds \in [1..MaxFds -> FdType] /\ \A f \in 1..MaxFds : fds[f] = NoFd
    BY <2>1 DEF Init
  <2>3. \A n \in Nodes : HeldBy(fds, n) = {}
    BY <2>1, <2>2, NodesAre DEF HeldBy
  <2>4. \A n \in Nodes : Cardinality(HeldBy(fds, n)) = 0
    BY <2>3, FS_EmptySet
  <2>5. \A n \in Nodes : Tree.node[n].opens = 0
    BY <1>1, InitIs
  <2> QED BY <2>1, <2>2, <2>4, <2>5 DEF Open
<1>9. Holds(Tree, says)
  <2>1. says = [n \in Nodes |-> IF n = "zip" THEN <<1>> ELSE <<>>]
    BY DEF Init
  <2>2. <<1>> \in Seq({0, 1}) /\ <<>> \in Seq({0, 1})
    OBVIOUS
  <2>3. \A n \in Nodes : node[n].kind = "file" <=> n = "zip"
    BY InitIs DEF None
  <2>4. Text(node["zip"]) = <<1>>
    BY <1>1, <1>6 DEF Own, Text
  <2>5. says \in [Nodes -> Seq({0, 1})]
    BY <2>1, <2>2
  <2>6. \A n \in Nodes : says[n] = IF node[n].kind = "file" THEN Text(node[n]) ELSE <<>>
    BY <2>1, <2>3, <2>4
  <2> QED BY <1>1, <2>5, <2>6 DEF Holds
<1> QED BY <1>3, <1>4, <1>5, <1>6, <1>7, <1>8, <1>9 DEF Inv, Sound

LEMMA FdStepKeeps ==
  ASSUME Inv, NEW f \in 1..MaxFds, FdStep(f)
  PROVE  Inv'
<1>1. ASSUME NEW bytes \in Bytes, FdWrite(f, bytes) PROVE Inv'
  BY <1>1, FdWriteKeeps
<1>2. ASSUME NEW bytes \in Bytes, NEW at \in {0, Quota}, FdPwrite(f, at, bytes) PROVE Inv'
  BY <1>2, FdPwriteKeeps
<1>3. ASSUME NEW size \in 0..Quota, FdSetSize(f, size) PROVE Inv'
  BY <1>3, FdSetSizeKeeps
<1>4. ASSUME NEW at \in 0..Quota, FdSeek(f, at) PROVE Inv'
  BY <1>4, FdSeekKeeps
<1>5. CASE FdRead(f)
  BY <1>5, FdReadKeeps
<1>6. CASE FdSetFlags(f)
  BY <1>6, FdSetFlagsKeeps
<1>7. CASE FdClose(f)
  BY <1>7, FdCloseKeeps
<1> QED BY <1>1, <1>2, <1>3, <1>4, <1>5, <1>6, <1>7 DEF FdStep

LEMMA PathStepKeeps ==
  ASSUME Inv, NEW path \in Reached, PathStep(path)
  PROVE  Inv'
<1>0. Reached \subseteq Paths /\ path \in Paths
  BY DEF Reached
<1>1. ASSUME NEW append \in BOOLEAN, NEW write \in BOOLEAN, PathOpenNew(path, append, write) PROVE Inv'
  BY <1>0, <1>1, PathOpenNewKeeps
<1>2. ASSUME NEW append \in BOOLEAN, NEW write \in BOOLEAN, NEW truncate \in BOOLEAN, PathOpen(path, truncate, append, write)
      PROVE  Inv'
  BY <1>0, <1>2, PathOpenKeeps
<1>3. CASE PathCreateDirectory(path)
  BY <1>0, <1>3, PathCreateDirectoryKeeps
<1>4. CASE PathUnlinkFile(path)
  BY <1>0, <1>4, PathUnlinkFileKeeps
<1>5. CASE PathRemoveDirectory(path)
  BY <1>0, <1>5, PathRemoveDirectoryKeeps
<1>6. ASSUME NEW to \in Reached, PathRename(path, to) PROVE Inv'
  BY <1>0, <1>6, PathRenameKeeps
<1> QED BY <1>1, <1>2, <1>3, <1>4, <1>5, <1>6 DEF PathStep

LEMMA PageStepKeeps ==
  ASSUME Inv, NEW path \in Paths, PageStep(path)
  PROVE  Inv'
<1>1. CASE PageRemoves(path)
  BY <1>1, PageRemovesKeeps
<1>2. ASSUME NEW bytes \in Bytes, PageWrites(path, bytes) PROVE Inv'
  BY <1>2, PageWritesKeeps
<1> QED BY <1>1, <1>2 DEF PageStep

LEMMA NextKeeps ==
  ASSUME Inv, [Next]_vars
  PROVE  Inv'
<1>1. CASE UNCHANGED vars
  <2>1. Tree' = Tree /\ fds' = fds /\ says' = says
    BY <1>1 DEF vars, Tree
  <2>2. Sound(Tree) /\ Open(Tree, fds) /\ Holds(Tree, says)
    BY DEF Inv
  <2> QED BY <2>1, <2>2 DEF Inv
<1>2. ASSUME NEW path \in Reached, PathStep(path) PROVE Inv'
  BY <1>2, PathStepKeeps
<1>3. ASSUME NEW path \in Paths, PageStep(path) PROVE Inv'
  BY <1>3, PageStepKeeps
<1>4. ASSUME NEW f \in 1..MaxFds, FdStep(f) PROVE Inv'
  BY <1>4, FdStepKeeps
<1> QED BY <1>1, <1>2, <1>3, <1>4 DEF Next

\* The invariant the others follow from: no call of the program or of the page, in any order, leaves
\* the file system of wasi.js in a state that is not sound.
THEOREM InvHolds == Spec => []Inv
<1>1. Init => Inv
  BY InitHolds
<1>2. Inv /\ [Next]_vars => Inv'
  BY NextKeeps
<1> QED BY <1>1, <1>2, PTL DEF Spec

LEMMA CountedNow ==
  ASSUME Inv
  PROVE  BytesAreCounted
<1>1. Sound(Tree) /\ Open(Tree, fds) /\ Tree.node = node /\ Tree.used = used /\ Tree \in TreeType
  BY Now DEF Inv
<1> DEFINE f == [n \in Nodes |-> node[n].size]
<1> DEFINE there == {n \in Nodes : Exists(n)}
<1>2. used = Total(f, Nodes) /\ used <= Limit
  BY <1>1 DEF Sound, Charged, Sizes
<1>3. \A n \in Nodes : f[n] \in Nat /\ f[n] \in Int /\ (n \notin there => f[n] = 0)
  BY <1>1, TreeIs, NoNodeIs DEF Sound, Shaped, Exists
<1>4. there \in SUBSET Nodes
  OBVIOUS
<1> HIDE DEF f, there
<1>5. Total(f, Nodes) = Total(f, there) + Total(f, Nodes \ there)
  BY <1>3, <1>4, NodesAre, TotalSplit
<1>6. Total(f, Nodes \ there) = 0
  <2> DEFINE gone == Nodes \ there
  <2>1. IsFiniteSet(gone) /\ \A n \in gone : f[n] \in Nat /\ f[n] = 0
    BY <1>3, NodesAre, FS_Subset
  <2> HIDE DEF gone
  <2>2. Total(f, gone) = 0
    BY <2>1, TotalNat
  <2> QED BY <2>2 DEF gone
<1>7. Total(f, there) \in Int
  <2>1. IsFiniteSet(there) /\ \A n \in there : f[n] \in Int
    BY <1>3, <1>4, NodesAre, FS_Subset
  <2> QED BY <2>1, TotalInt
<1>8. used = Total(f, there)
  BY <1>2, <1>5, <1>6, <1>7
<1>9. \A n \in Nodes : node[n].opens = Descriptors(n)
  BY <1>1 DEF Open, Descriptors, HeldBy
<1> QED BY <1>2, <1>8, <1>9 DEF BytesAreCounted, Total, f, there

\* For every quota and any number of files, names and descriptors, what wasi.js has charged is what a
\* name or a descriptor still reaches, and never more than the quota.
THEOREM BytesStayCounted == Spec => []BytesAreCounted
<1>1. Inv => BytesAreCounted
  BY CountedNow
<1> QED BY <1>1, InvHolds, PTL

LEMMA LinksAre ==
  ASSUME Inv, NEW n \in Nodes
  PROVE  /\ n # "root" /\ Exists(n) /\ ~node[n].unlinked => Links(n) = 1
         /\ ~Exists(n) \/ node[n].unlinked => Links(n) = 0
<1>1. Sound(Tree) /\ Tree.node = node /\ Tree.kids = kids /\ n # None
  BY Now, NodesAre
<1> DEFINE at == {l \in Nodes \X AllNames : kids[l[1]][l[2]] = n}
<1>2. Links(n) = Cardinality(at)
  BY DEF Links
<1>3. \A d \in Nodes, x \in AllNames : kids[d][x] = n => node[n].kind # None /\ ~node[n].unlinked
  BY <1>1 DEF Sound, Linked
<1>4. CASE ~Exists(n) \/ node[n].unlinked
  <2>1. at = {}
    BY <1>3, <1>4 DEF Exists
  <2> QED BY <1>2, <1>4, <2>1, FS_EmptySet DEF Exists
<1>5. CASE n # "root" /\ Exists(n) /\ ~node[n].unlinked
  <2>1. PICK d \in Nodes, x \in AllNames : kids[d][x] = n
    BY <1>1, <1>5 DEF Sound, Linked, Exists
  <2>2. \A e \in Nodes, y \in AllNames : kids[e][y] = n => e = d /\ y = x
    <3>1. \A a, e \in Nodes, z, y \in AllNames : kids[a][z] = kids[e][y] /\ kids[a][z] # None => a = e /\ z = y
      BY <1>1 DEF Sound, Linked
    <3> QED BY <1>1, <2>1, <3>1
  <2>3. at = {<<d, x>>}
    BY <2>1, <2>2
  <2> QED BY <1>2, <1>5, <2>3, FS_Singleton
<1> QED BY <1>4, <1>5

LEMMA SoundNow ==
  ASSUME Inv
  PROVE  FilesAreSound
<1>1. Sound(Tree) /\ Open(Tree, fds) /\ Tree.node = node /\ Tree.kids = kids /\ Tree \in TreeType
  BY Now DEF Inv
<1>2. \A n \in Nodes : node[n].opens = Descriptors(n) /\ Descriptors(n) \in 0..MaxFds
  <2> TAKE n \in Nodes
  <2>1. Descriptors(n) = Cardinality(HeldBy(fds, n)) /\ node[n].opens = Cardinality(HeldBy(fds, n))
    BY <1>1 DEF Open, Descriptors, HeldBy
  <2> QED BY <2>1, HeldIsFinite, BoundsAssumption
<1>3. TypeOK
  <2>1. ASSUME NEW n \in Nodes
        PROVE  /\ node[n].kind \in {None, "dir", "file", "sink"} /\ node[n].buf \in Seq({0, 1})
               /\ node[n].size \in 0..Len(node[n].buf) /\ node[n].opens \in 0..MaxFds /\ node[n].unlinked \in BOOLEAN
    <3>1. node[n].size \in Nat /\ node[n].size <= Len(node[n].buf) /\ Len(node[n].buf) \in Nat /\ node[n].buf \in Seq({0, 1})
      BY <1>1, TreeIs, LenProperties DEF Sound, Shaped
    <3>2. node[n].opens \in 0..MaxFds
      BY <1>2
    <3> QED BY <1>1, <3>1, <3>2, TreeIs DEF Kinds
  <2>2. kids \in [Nodes -> [AllNames -> Nodes \cup {None}]] /\ used \in Nat
    BY Now
  <2>3. \A f \in 1..MaxFds : fds[f].node \in Nodes \cup {None} /\ fds[f].offset \in Nat
    BY Now DEF FdType
  <2> QED BY <2>1, <2>2, <2>3 DEF TypeOK
<1>4. StaysATree
  <2>1. \A n \in Nodes \ {"root"} : Exists(n) => Links(n) = (IF node[n].unlinked THEN 0 ELSE 1)
    BY LinksAre
  <2>2. \A n \in Nodes : Exists(n) /\ node[n].unlinked => Descriptors(n) > 0
    BY <1>1, <1>2 DEF Sound, Shaped
  <2>3. \A n \in Nodes : ~Exists(n) => Links(n) = 0 /\ Descriptors(n) = 0
    BY <1>1, <1>2, LinksAre, NoNodeIs DEF Sound, Shaped, Exists
  <2>4. \A D \in SUBSET {n \in Nodes \ {"root"} : node[n].kind = "dir" /\ ~node[n].unlinked} :
          D # {} => \E n \in D : \E d \in Nodes \ D, x \in AllNames : kids[d][x] = n
    <3>1. Dirs(Tree) = {n \in Nodes \ {"root"} : node[n].kind = "dir" /\ ~node[n].unlinked}
      BY <1>1 DEF Dirs
    <3>2. \A D \in SUBSET Dirs(Tree) : D # {} => \E n \in D : \E d \in Nodes \ D, x \in AllNames : kids[d][x] = n
      BY <1>1 DEF Sound, Rooted
    <3> QED BY <3>1, <3>2
  <2> QED BY <2>1, <2>2, <2>3, <2>4 DEF StaysATree
<1>5. KeepsItsOwn
  <2>1. "zip" \in Nodes /\ "lib" \in Nodes /\ "null" \in Nodes /\ "zip" \in AllNames
    BY NodesAre, NamesAre DEF Fixed
  <2>2. kids["lib"]["zip"] = "zip"
    BY <1>1 DEF Sound, Own
  <2>3. ~node["zip"].unlinked
    BY <1>1, <2>1, <2>2, NodesAre DEF Sound, Linked
  <2>4. Live("null") = Zeros(node["null"].size)
    BY NullIs DEF Live, Text
  <2> QED BY <1>1, <2>3, <2>4 DEF Sound, Own, KeepsItsOwn, Live
<1>6. HoldsWhatItSays
  BY Now DEF HoldsWhatItSays, Live, Text
<1> QED BY <1>3, <1>4, <1>5, <1>6 DEF FilesAreSound

\* Whatever a program and the page call, in any order: the nodes of wasi.js stay one tree, the standard
\* library and /dev/null stay in it, and a file holds what was written to it and zeroes.
THEOREM FilesStaySound == Spec => []FilesAreSound
<1>1. Inv => FilesAreSound
  BY SoundNow
<1> QED BY <1>1, InvHolds, PTL

====
