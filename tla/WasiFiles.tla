---- MODULE WasiFiles ----
(***************************************************************************)
(* The file system a Python program runs in: the tree, the nodes and the    *)
(* open descriptors of web/python/wasi.js, and what the page does to it.    *)
(*                                                                         *)
(*   node   each node: its kind, the buffer and how much of it is live, how *)
(*          many descriptors it has and whether its name was taken off      *)
(*   kids   each directory's entries                                       *)
(*   used   the bytes charged so far                                       *)
(*   fds    the open descriptors                                           *)
(*   says   what POSIX says each file holds, to compare with               *)
(* An operation that is refused changes nothing, and is no step; one that   *)
(* is refused late is. Contents are bytes 0 and 1; times, inode numbers and  *)
(* the copies in and out of wasm memory are left out, and so is paging      *)
(* through a listing.                                                      *)
(***************************************************************************)
EXTENDS Integers, Sequences, FiniteSets, FiniteSetsExt, SequencesExt

CONSTANTS
  Names,      \* names a program gives
  Inodes,     \* the files and directories it makes, at most so many at once
  MaxFds,     \* bounds the descriptors open at once
  Quota       \* FS_QUOTA_BYTES

ASSUME NamesAssumption == Names \cap {"lib", "zip", "dev", "null"} = {}
ASSUME InodesAssumption == Inodes \cap {"root", "lib", "zip", "dev", "null", "none"} = {}
ASSUME BoundsAssumption == {MaxFds, Quota} \subseteq Nat /\ IsFiniteSet(Names) /\ IsFiniteSet(Inodes)

VARIABLES node, kids, used, fds, says
vars == <<node, kids, used, fds, says>>

None == "none"
Fixed == {"root", "lib", "zip", "dev", "null"}
Nodes == Fixed \cup Inodes
AllNames == Names \cup (Fixed \ {"root"})
Paths ==
  {<<>>, <<"lib">>, <<"lib", "zip">>, <<"dev">>, <<"dev", "null">>}
  \cup {<<x>> : x \in Names} \cup {<<x, y>> : x \in Names, y \in Names \cup {"zip"}}
Bytes == {<<1>>}

NoNode == [kind |-> None, buf |-> <<>>, size |-> 0, opens |-> 0, unlinked |-> FALSE]
NoKids == [x \in AllNames |-> None]
NoFd == [node |-> None, append |-> FALSE, writable |-> FALSE, offset |-> 0]

Zeros(n) == [i \in 1..n |-> 0]
Live(n) == SubSeq(node[n].buf, 1, node[n].size)
Tree == [node |-> node, kids |-> kids, used |-> used]
Free(t) == {n \in Inodes : t.node[n].kind = None}
Limit == 1 + Quota

\* resolve(): the directory that holds the path, the name in it and the node there.
Resolve(path) ==
  LET At[k \in 0..Len(path)] ==
        LET dir == At[k - 1] IN
        IF k = 0 THEN "root" ELSE IF dir = None \/ node[dir].kind # "dir" THEN None ELSE kids[dir][path[k]]
      parent == At[Len(path) - 1]
  IN IF path = <<>> THEN [found |-> TRUE, parent |-> None, name |-> None, node |-> "root"]
     ELSE IF parent = None \/ node[parent].kind # "dir"
     THEN [found |-> FALSE, parent |-> None, name |-> None, node |-> None]
     ELSE [found |-> TRUE, parent |-> parent, name |-> Last(path), node |-> kids[parent][Last(path)]]

\* pathAt() puts a path behind the one a directory had when it was opened, wherever that has gone
\* since: what a program may name is any path from the root whose directories are there.
Reached == {path \in Paths : Resolve(path).found}

---------------------------------------------------------------------------
(* Nodes. *)

\* resize(): the buffer doubles when it must, and growth is filled with zeroes. What it
\* shrinks by stays in the buffer.
Resized(n, size) ==
  LET old == node[n]
      capacity == IF size <= Len(old.buf) THEN Len(old.buf) ELSE IF size <= 1 THEN 1 ELSE 2 * ((size + 1) \div 2)
      kept == SubSeq(old.buf, 1, old.size) \o (IF capacity = Len(old.buf)
                THEN SubSeq(old.buf, old.size + 1, capacity) ELSE Zeros(capacity - old.size))
  IN [old EXCEPT !.buf = [i \in 1..capacity |-> IF i \in (old.size + 1)..size THEN 0 ELSE kept[i]], !.size = size]

\* resize() as an operation: claim() may refuse growth, release() gives back.
Claimed(n, size) == used + size - node[n].size
MayResize(n, size) == size > node[n].size => Claimed(n, size) <= Limit

WrittenAt(n, at, bytes) ==
  LET grown == Resized(n, Max({node[n].size, at + Len(bytes)})) IN
  [grown EXCEPT !.buf = [i \in DOMAIN @ |-> IF i \in (at + 1)..(at + Len(bytes)) THEN bytes[i - at] ELSE @[i]]]

\* The same of a file as POSIX has it.
SetLength(s, size) == [i \in 1..size |-> IF i \in DOMAIN s THEN s[i] ELSE 0]
Overwrite(s, at, bytes) ==
  [i \in 1..Max({Len(s), at + Len(bytes)}) |->
    IF i \in (at + 1)..(at + Len(bytes)) THEN bytes[i - at] ELSE IF i \in DOMAIN s THEN s[i] ELSE 0]

\* drop(): the name goes; the bytes only once no descriptor reaches them.
Dropped(t, dir, name) ==
  LET n == t.kids[dir][name] IN
  [node |-> [t.node EXCEPT ![n] = IF t.node[n].opens = 0 THEN NoNode ELSE [@ EXCEPT !.unlinked = TRUE]],
   kids |-> [t.kids EXCEPT ![dir][name] = None],
   used |-> IF t.node[n].opens = 0 THEN t.used - t.node[n].size ELSE t.used]

\* A new node takes an entry that is free, and its bytes are charged.
Added(t, n, new, dir, name) ==
  [node |-> [t.node EXCEPT ![n] = new], kids |-> [t.kids EXCEPT ![dir][name] = n], used |-> t.used + new.size]

TreeBecomes(t) == node' = t.node /\ kids' = t.kids /\ used' = t.used

Says(t) == [n \in Nodes |-> IF t.node[n].kind = "file" THEN says[n] ELSE <<>>]

---------------------------------------------------------------------------
(* The program's calls. *)

\* The constructor: the standard library, /tmp left out, and /dev/null.
Init ==
  /\ node = [n \in Nodes |->
       IF n \in {"root", "lib", "dev"} THEN [NoNode EXCEPT !.kind = "dir"]
       ELSE IF n = "null" THEN [NoNode EXCEPT !.kind = "sink"]
       ELSE IF n = "zip" THEN [NoNode EXCEPT !.kind = "file", !.buf = <<1>>, !.size = 1]
       ELSE NoNode]
  /\ kids = [n \in Nodes |->
       IF n = "root" THEN [NoKids EXCEPT !["lib"] = "lib", !["dev"] = "dev"]
       ELSE IF n = "lib" THEN [NoKids EXCEPT !["zip"] = "zip"]
       ELSE IF n = "dev" THEN [NoKids EXCEPT !["null"] = "null"]
       ELSE NoKids]
  /\ used = 1
  /\ fds = [f \in 1..MaxFds |-> NoFd]
  /\ says = [n \in Nodes |-> IF n = "zip" THEN <<1>> ELSE <<>>]

ReadOnly == {"zip"}
Pinned == {"dev", "null"}

FreeFd == CHOOSE f \in 1..MaxFds : fds[f].node = None

\* Only of a writer is it ever asked whether it appends.
Opened(n, append, forWriting) ==
  fds' = [fds EXCEPT ![FreeFd] =
    [node |-> n, append |-> append /\ forWriting, writable |-> forWriting, offset |-> 0]]

\* path_open() of a path where nothing is, with O_CREAT.
PathOpenNew(path, append, forWriting) ==
  LET spot == Resolve(path) IN
  /\ spot.found /\ spot.node = None
  /\ \E f \in 1..MaxFds : fds[f].node = None
  /\ \E n \in Free(Tree) :
       /\ node' = [node EXCEPT ![n] = [NoNode EXCEPT !.kind = "file", !.opens = 1]]
       /\ kids' = [kids EXCEPT ![spot.parent][spot.name] = n]
       /\ Opened(n, append, forWriting)
  /\ UNCHANGED <<used, says>>

\* path_open() of what is there: writing is refused on a directory and on the standard library.
PathOpen(path, truncate, append, write) ==
  LET spot == Resolve(path)
      n == spot.node
      forWriting == write \/ truncate
      emptied == IF truncate THEN Resized(n, 0) ELSE node[n]
  IN
  /\ spot.found /\ n # None
  /\ \E f \in 1..MaxFds : fds[f].node = None
  /\ forWriting => node[n].kind # "dir" /\ n \notin ReadOnly
  /\ node' = [node EXCEPT ![n] = [emptied EXCEPT !.opens = @ + 1]]
  /\ used' = used - (node[n].size - emptied.size)
  /\ says' = [says EXCEPT ![n] = IF truncate THEN <<>> ELSE @]
  /\ Opened(n, append, forWriting)
  /\ UNCHANGED kids

\* fd_write() of a chunk, or a piece of fd_pwrite(): refused whole when it does not fit.
WriteFile(f, at, bytes) ==
  LET n == fds[f].node IN
  /\ MayResize(n, Max({node[n].size, at + Len(bytes)}))
  /\ used' = Claimed(n, Max({node[n].size, at + Len(bytes)}))
  /\ node' = [node EXCEPT ![n] = WrittenAt(n, at, bytes)]
  /\ UNCHANGED kids

\* What every call that changes contents asks of a descriptor. A file takes what is written;
\* a write to /dev/null succeeds and changes nothing, so it is no step.
Changeable(f) ==
  fds[f].node # None /\ node[fds[f].node].kind # "dir" /\ fds[f].writable /\ fds[f].node \notin ReadOnly
Writable(f) == Changeable(f) /\ node[fds[f].node].kind = "file"

\* What POSIX has fd_write() put in the file: at its end as it is now, or where the descriptor is.
SaysWritten(f, bytes) ==
  says' = [says EXCEPT ![fds[f].node] = Overwrite(@, IF fds[f].append THEN Len(@) ELSE fds[f].offset, bytes)]

\* Mutant: a descriptor that appends does so at the end it left behind.
AppendsWhereItWas(f, bytes) ==
  LET at == fds[f].offset IN
  /\ Writable(f)
  /\ WriteFile(f, at, bytes) /\ SaysWritten(f, bytes)
  /\ fds' = [fds EXCEPT ![f].offset = at + Len(bytes)]

FdWrite(f, bytes) ==
  LET at == IF fds[f].append THEN node[fds[f].node].size ELSE fds[f].offset IN
  /\ Writable(f)
  /\ WriteFile(f, at, bytes) /\ SaysWritten(f, bytes)
  /\ fds' = [fds EXCEPT ![f].offset = at + Len(bytes)]

\* One piece of fd_pwrite(), at where the last one ended: a call of several is as many steps, stops
\* at the first that is refused, and keeps those before it.
FdPwrite(f, at, bytes) ==
  /\ Writable(f) /\ WriteFile(f, at, bytes)
  /\ says' = [says EXCEPT ![fds[f].node] = Overwrite(@, at, bytes)]
  /\ UNCHANGED fds

\* fd_filestat_set_size() does not ask whether it is /dev/null: that grows like a file, and is
\* charged for it.
FdSetSize(f, size) ==
  LET n == fds[f].node IN
  /\ Changeable(f) /\ MayResize(n, size)
  /\ node' = [node EXCEPT ![n] = Resized(n, size)]
  /\ used' = Claimed(n, size)
  /\ says' = [says EXCEPT ![n] = IF node[n].kind = "file" THEN SetLength(@, size) ELSE @]
  /\ UNCHANGED <<kids, fds>>

\* fd_seek(), wherever it starts from, and fd_read(), which moves no further than the end. The
\* offset of a descriptor that only reads decides nothing here, and is left at 0.
Moved(f, offset) ==
  /\ fds[f].writable /\ node[fds[f].node].kind = "file" /\ fds[f].offset # offset
  /\ fds' = [fds EXCEPT ![f].offset = offset]
  /\ UNCHANGED <<node, kids, used, says>>

FdSeek(f, offset) == fds[f].node # None /\ Moved(f, offset)
FdRead(f) == fds[f].node # None /\ fds[f].offset < node[fds[f].node].size /\ Moved(f, fds[f].offset + 1)

FdSetFlags(f) ==
  /\ fds[f].node # None /\ fds[f].writable
  /\ fds' = [fds EXCEPT ![f].append = ~@]
  /\ UNCHANGED <<node, kids, used, says>>

\* Mutant: the first descriptor of such a file that is closed gives its bytes back.
ClosedForAll(f) ==
  LET n == fds[f].node IN
  /\ n # None
  /\ node' = [node EXCEPT ![n] = IF @.unlinked /\ @.opens = 1 THEN NoNode ELSE [@ EXCEPT !.opens = @ - 1]]
  /\ used' = IF node[n].unlinked THEN used - node[n].size ELSE used
  /\ says' = [says EXCEPT ![n] = IF node[n].unlinked /\ node[n].opens = 1 THEN <<>> ELSE @]
  /\ fds' = [fds EXCEPT ![f] = NoFd]
  /\ UNCHANGED kids

\* fd_close(): the last descriptor of a file that has no name gives its bytes back.
FdClose(f) ==
  LET n == fds[f].node
      last == node[n].unlinked /\ node[n].opens = 1
  IN
  /\ n # None
  /\ node' = [node EXCEPT ![n] = IF last THEN NoNode ELSE [node[n] EXCEPT !.opens = @ - 1]]
  /\ used' = IF last THEN used - node[n].size ELSE used
  /\ says' = [says EXCEPT ![n] = IF last THEN <<>> ELSE @]
  /\ fds' = [fds EXCEPT ![f] = NoFd]
  /\ UNCHANGED kids

PathCreateDirectory(path) ==
  LET spot == Resolve(path) IN
  /\ spot.found /\ spot.node = None
  /\ \E n \in Free(Tree) :
       /\ node' = [node EXCEPT ![n] = [NoNode EXCEPT !.kind = "dir"]]
       /\ kids' = [kids EXCEPT ![spot.parent][spot.name] = n]
  /\ UNCHANGED <<used, fds, says>>

\* Takes the name off, and keeps what descriptors still reach.
Removes(t) == TreeBecomes(t) /\ says' = Says(t) /\ UNCHANGED fds

PathUnlinkFile(path) ==
  LET spot == Resolve(path) IN
  /\ spot.found /\ spot.node # None /\ node[spot.node].kind # "dir"
  /\ spot.node \notin ReadOnly \cup Pinned
  /\ Removes(Dropped(Tree, spot.parent, spot.name))

PathRemoveDirectory(path) ==
  LET spot == Resolve(path) IN
  /\ spot.found /\ spot.node # None /\ node[spot.node].kind = "dir"
  /\ spot.parent # None /\ spot.node \notin Pinned
  /\ kids[spot.node] = NoKids
  /\ Removes(Dropped(Tree, spot.parent, spot.name))

\* What path_rename() refuses.
MayRename(from, to, oldPath, newPath) ==
  /\ from.found /\ from.node # None /\ from.parent # None /\ from.node \notin ReadOnly \cup Pinned
  /\ to.found /\ to.parent # None
  /\ node[from.node].kind = "dir" => ~IsStrictPrefix(oldPath, newPath)
  /\ to.node # None =>
       /\ (node[to.node].kind = "dir") <=> (node[from.node].kind = "dir")
       /\ node[to.node].kind = "dir" => kids[to.node] = NoKids
       /\ to.node \notin ReadOnly \cup Pinned

PathRename(oldPath, newPath) ==
  LET from == Resolve(oldPath)
      to == Resolve(newPath)
      room == IF to.node = None THEN Tree ELSE Dropped(Tree, to.parent, to.name)
      moved == [room.kids EXCEPT ![from.parent][from.name] = None]
  IN
  /\ MayRename(from, to, oldPath, newPath)
  /\ from.node # to.node
  /\ Removes([room EXCEPT !.kids = [moved EXCEPT ![to.parent][to.name] = from.node]])

---------------------------------------------------------------------------
(* The page. *)

\* makeDirectory() for the way to a file, where nothing is yet.
WithParent(path) ==
  LET spot == Resolve(SubSeq(path, 1, 1)) IN
  IF Len(path) < 2 \/ spot.node # None THEN {Tree}
  ELSE {Added(Tree, n, [NoNode EXCEPT !.kind = "dir"], "root", path[1]) : n \in Free(Tree)}

\* writeFile(): the directories are made first, and stay when the file itself is refused.
PageWrites(path, bytes) ==
  /\ path # <<>>
  /\ \E t \in WithParent(path) :
       LET parent == IF Len(path) = 1 THEN "root" ELSE t.kids["root"][path[1]]
           old == IF t.node[parent].kind = "dir" THEN t.kids[parent][Last(path)] ELSE None
           freed == IF old # None /\ t.node[old].opens = 0 THEN t.node[old].size ELSE 0
           refused == \/ t.node[parent].kind # "dir"
                      \/ old # None /\ (t.node[old].kind # "file" \/ old \in ReadOnly \cup Pinned)
                      \/ t.used - freed + Len(bytes) > Limit
           room == IF old = None THEN t ELSE Dropped(t, parent, Last(path))
       IN IF refused THEN t # Tree /\ TreeBecomes(t) /\ UNCHANGED <<fds, says>>
          ELSE \E n \in Free(room) :
                 /\ TreeBecomes(Added(room, n, [NoNode EXCEPT !.kind = "file", !.buf = bytes, !.size = Len(bytes)],
                                      parent, Last(path)))
                 /\ says' = [Says(room) EXCEPT ![n] = bytes]
                 /\ UNCHANGED fds

\* removeFile()
PageRemoves(path) ==
  LET spot == Resolve(path) IN
  /\ spot.found /\ spot.node # None /\ node[spot.node].kind = "file" /\ spot.node \notin ReadOnly \cup Pinned
  /\ Removes(Dropped(Tree, spot.parent, spot.name))

FdStep(f) ==
  \/ \E bytes \in Bytes : FdWrite(f, bytes) \/ \E at \in {0, Quota} : FdPwrite(f, at, bytes)
  \/ \E size \in 0..Quota : FdSetSize(f, size) \/ FdSeek(f, size)
  \/ FdRead(f) \/ FdSetFlags(f) \/ FdClose(f)

PathStep(path) ==
  \/ \E append \in BOOLEAN, write \in BOOLEAN :
       PathOpenNew(path, append, write) \/ \E truncate \in BOOLEAN : PathOpen(path, truncate, append, write)
  \/ PathCreateDirectory(path) \/ PathUnlinkFile(path) \/ PathRemoveDirectory(path)
  \/ Resolve(path).node \notin {None, "root"} \cup ReadOnly \cup Pinned /\ \E to \in Reached : PathRename(path, to)

PageStep(path) == PageRemoves(path) \/ \E bytes \in Bytes : PageWrites(path, bytes)

Next ==
  \/ \E path \in Reached : PathStep(path)
  \/ \E path \in Paths : PageStep(path)
  \/ \E f \in 1..MaxFds : FdStep(f)

Spec == Init /\ [][Next]_vars

\* Names and inodes are alike: no property tells one from another.
Alike == Permutations(Names) \cup Permutations(Inodes)

\* A bound of the run: no descriptor of what was there from the start but /dev/null. The library and
\* the directories cannot be written, so one would only be counted.
OpensItsOwn == \A f \in 1..MaxFds : fds[f].node \in Inodes \cup {None, "null"}

---------------------------------------------------------------------------
(* Properties *)

TypeOK ==
  /\ \A n \in Nodes :
       /\ node[n].kind \in {None, "dir", "file", "sink"} /\ node[n].buf \in Seq({0, 1})
       /\ node[n].size \in 0..Len(node[n].buf) /\ node[n].opens \in 0..MaxFds /\ node[n].unlinked \in BOOLEAN
  /\ kids \in [Nodes -> [AllNames -> Nodes \cup {None}]]
  /\ used \in Nat
  /\ \A f \in 1..MaxFds : fds[f].node \in Nodes \cup {None} /\ fds[f].offset \in Nat

Descriptors(n) == Cardinality({f \in 1..MaxFds : fds[f].node = n})
Links(n) == Cardinality({l \in Nodes \X AllNames : kids[l[1]][l[2]] = n})
Exists(n) == node[n].kind # None

\* The quota charges exactly the bytes something can still reach, by a name or by a descriptor:
\* removing, replacing, renaming and closing in any order neither give bytes back twice, which
\* would let a program fill the tab's memory, nor lose them, which would refuse its writes.
BytesAreCounted ==
  /\ used = SumFunctionOnSet([n \in Nodes |-> node[n].size], {n \in Nodes : Exists(n)})
  /\ used <= Limit
  /\ \A n \in Nodes : node[n].opens = Descriptors(n)

\* It stays a tree: one name for each node that has one, everything that has a name is found
\* from the root, and a node without a name is gone once no descriptor holds it.
StaysATree ==
  /\ \A n \in Nodes \ {"root"} : Exists(n) => Links(n) = (IF node[n].unlinked THEN 0 ELSE 1)
  /\ \A n \in Nodes : Exists(n) /\ node[n].unlinked => Descriptors(n) > 0
  /\ \A n \in Nodes : ~Exists(n) => Links(n) = 0 /\ Descriptors(n) = 0
  /\ \A D \in SUBSET {n \in Nodes \ {"root"} : node[n].kind = "dir" /\ ~node[n].unlinked} :
       D # {} => \E n \in D : \E d \in Nodes \ D, x \in AllNames : kids[d][x] = n

\* The standard library stays whole and linked, and /dev/null where it is: whatever its length is
\* made, nothing that is written to it can be read back.
KeepsItsOwn ==
  /\ Live("zip") = <<1>> /\ ~node["zip"].unlinked
  /\ kids["root"]["dev"] = "dev" /\ kids["dev"]["null"] = "null" /\ Live("null") = Zeros(node["null"].size)

\* A file holds what POSIX says it does, whichever descriptors wrote it, at their offsets or at its
\* end: a hole reads as zeroes, whatever the buffer held before.
HoldsWhatItSays == \A n \in Nodes : node[n].kind = "file" => Live(n) = says[n]

\* No order of calls breaks the tree, takes the library away, or shows a program bytes it did not write.
FilesAreSound == TypeOK /\ StaysATree /\ KeepsItsOwn /\ HoldsWhatItSays

\* /dev/null stays empty, as the comment of Node.sink has it: whatever is written is gone. A program
\* that sets its length with ftruncate() refutes it: the bytes are there, and count as used.
NullStaysEmpty == node["null"].size = 0

====
