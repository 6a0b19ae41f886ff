------------------------------- MODULE Listings -------------------------------
(***************************************************************************)
(* The applets that look at a tree of files and say what is there: ls, du, *)
(* find, tree, readlink, realpath, which, mountpoint, stat and df; and     *)
(* sddf, which finds files of one content and removes all but one.         *)
(*                                                                         *)
(* Files are those of TreeTools.  What is printed is a sequence of records *)
(* of what a line says; a pattern is the set of the names that match it.   *)
(***************************************************************************)
EXTENDS TreeTools

CONSTANTS
  LsJobs, DuJobs, FindJobs, TreeJobs, PathJobs, WhichJobs, MountJobs, StatJobs, DfJobs, SddfJobs,
  VersionJobs,  \* pairs of names, for ls --sort=version
  HiddenNames,  \* names that begin with a dot
  CharsOf,      \* the characters of a name: digits 0 .. 9, and letters from 10
  ExtensionOf,  \* the rank of a name's extension
  DirSize,      \* the bytes of a directory
  Block,        \* bytes of a block of du and df (1024)
  WordBits      \* bits of a uint64 (64)

ASSUME ListingsAssumption == DirSize \in Nat /\ Block \in Nat \ {0} /\ WordBits \in 1 .. 30

VARIABLE listing   \* <<"none">>; or the applet that was run, its input, and what it printed with its status

lsvars == <<listing>>

Printed(ok, out) == [ok |-> ok, out |-> out]
SizeOf(n) == CASE n.kind = "dir" -> DirSize [] n.kind = "link" -> Len(n.to) [] OTHER -> Len(n.data)
Executable(n) == n.kind = "file" /\ n.mode \cap Xs # {}
LinksOf(t, i) == Cardinality({p \in DOMAIN t.at : t.at[p] = i})
Blocks(n, size) == (n + size - 1) \div size

(* A stable sort. *)
StableSort(s, Less(_, _)) ==
  FoldLeft(LAMBDA r, x : SelectSeq(r, LAMBDA e : ~Less(x, e)) \o <<x>> \o SelectSeq(r, LAMBDA e : Less(x, e)), <<>>, s)
LessPath(p, q) ==
  \E k \in 1 .. Len(q) :
    /\ \A i \in 1 .. k - 1 : i <= Len(p) /\ p[i] = q[i]
    /\ k = Len(p) + 1 \/ (k <= Len(p) /\ RankIn(p[k]) < RankIn(q[k]))

-----------------------------------------------------------------------------
(* ls.  An entry has a name, the path it stands for and, unless it could   *)
(* not be asked for, its inode. The listing of a directory is a section.   *)

EntryAt(t, name, p) ==
  LET w == LstatOf(t, p) IN
  [name |-> name, p |-> p, known |-> w.there, inode |-> IF w.there THEN t.at[w.p] ELSE 0]
NodeOf(t, e) == t.node[e.inode]
IsDirEntry(t, e) == e.known /\ NodeOf(t, e).kind = "dir"
EntrySize(t, e) == IF e.known THEN SizeOf(NodeOf(t, e)) ELSE 0
EntryTime(t, e, by) == IF ~e.known THEN -1 ELSE IF by = "atime" THEN NodeOf(t, e).atime ELSE NodeOf(t, e).mtime

(* versionCompare: runs of digits by their value, other characters one by  *)
(* one.                                                                    *)
IsDigit(ch) == ch < 10
Run1(s) == SubSeq(s, 1, Max({n \in 0 .. Len(s) : \A i \in 1 .. n : IsDigit(s[i])}))
NoZeros(s) == SubSeq(s, Max({n \in 1 .. Len(s) + 1 : \A i \in 1 .. n - 1 : s[i] = 0}), Len(s))
Sign(x, y) == IF x < y THEN -1 ELSE IF x > y THEN 1 ELSE 0
CompareSeq(s, u) ==
  LET differ == {i \in 1 .. Len(s) : s[i] # u[i]} IN IF differ = {} THEN 0 ELSE Sign(s[Min(differ)], u[Min(differ)])
CompareRuns(na, nb) == IF Len(na) # Len(nb) THEN Sign(Len(na), Len(nb)) ELSE CompareSeq(na, nb)
RECURSIVE VersionCompare(_, _)
After(s, n) == SubSeq(s, n + 1, Len(s))
RestOf(cmp, x, y) == IF cmp # 0 THEN cmp ELSE VersionCompare(x, y)
VersionCompare(x, y) ==
  IF x = <<>> \/ y = <<>> THEN Sign(Len(x), Len(y))
  ELSE IF IsDigit(x[1]) /\ IsDigit(y[1])
  THEN RestOf(CompareRuns(NoZeros(Run1(x)), NoZeros(Run1(y))), After(x, Len(Run1(x))), After(y, Len(Run1(y))))
  ELSE RestOf(Sign(x[1], y[1]), Tail(x), Tail(y))

NameLess(d, e) == LessPath(d.name, e.name)
CharsOfEntry(e) == IF Last(e.name) \in DOMAIN CharsOf THEN CharsOf[Last(e.name)] ELSE <<>>
ExtOfEntry(e) == IF Last(e.name) \in DOMAIN ExtensionOf THEN ExtensionOf[Last(e.name)] ELSE 0
KeyLess(t, d, e, j) ==
  CASE j.sort = "none"      -> FALSE
    [] j.sort = "name"      -> NameLess(d, e)
    [] j.sort = "size"      -> EntrySize(t, d) > EntrySize(t, e) \/ (EntrySize(t, d) = EntrySize(t, e) /\ NameLess(d, e))
    [] j.sort = "time"      -> EntryTime(t, d, j.time) > EntryTime(t, e, j.time)
                                 \/ (EntryTime(t, d, j.time) = EntryTime(t, e, j.time) /\ NameLess(d, e))
    [] j.sort = "version"   -> LET c == VersionCompare(CharsOfEntry(d), CharsOfEntry(e)) IN c < 0 \/ (c = 0 /\ NameLess(d, e))
    [] j.sort = "extension" -> ExtOfEntry(d) < ExtOfEntry(e) \/ (ExtOfEntry(d) = ExtOfEntry(e) /\ NameLess(d, e))
EntryLess(t, d, e, j) ==
  IF "groupDirs" \in j.opts /\ IsDirEntry(t, d) # IsDirEntry(t, e) THEN IsDirEntry(t, d) ELSE KeyLess(t, d, e, j)
SortEntries(t, s, j) == StableSort(s, LAMBDA d, e : EntryLess(t, d, e, j))

(* What a line says of an entry: the mark after its name, and with -l its  *)
(* kind, rights, links, owner, size in blocks and target.                  *)
Mark(t, e, style) ==
  IF style = "none" \/ ~e.known THEN ""
  ELSE LET n == NodeOf(t, e) IN
       CASE n.kind = "dir" -> "/"
         [] n.kind = "link" /\ style # "slash" -> "@"
         [] n.kind = "pipe" /\ style # "slash" -> "|"
         [] Executable(n) /\ style = "classify" -> "*"
         [] OTHER -> ""
LongLine(t, e, j) ==
  LET n == NodeOf(t, e) IN
  [kind |-> n.kind, mode |-> NoSpecial(n.mode), links |-> LinksOf(t, e.inode), owner |-> OwnerField(n),
   size |-> IF j.block > 0 THEN Blocks(SizeOf(n), j.block) ELSE SizeOf(n), when |-> EntryTime(t, e, j.time), to |-> n.to]
LineOf(t, e, j) ==
  [name |-> e.name, inode |-> e.inode, mark |-> Mark(t, e, j.style), long |-> IF "l" \in j.opts /\ e.known THEN <<LongLine(t, e, j)>> ELSE <<>>]
ListEntries(t, s, j) == [i \in DOMAIN s |-> LineOf(t, s[i], j)]

ShowsDots(j) == j.opts \cap {"a", "A"} # {}
Filtered(name, j) == name \in j.ignore \/ (name \in j.hide /\ ~ShowsDots(j))
ShownNames(t, p, j) == SelectSeq(Sorted(NamesIn(t, p)), LAMBDA n : (ShowsDots(j) \/ n \notin HiddenNames) /\ ~Filtered(n, j))
Dots(t, p) == <<EntryAt(t, <<".">>, p), EntryAt(t, <<"..">>, Up(p))>>
Items(t, p, j) ==
  (IF "a" \in j.opts THEN Dots(t, p) ELSE <<>>)
    \o [i \in DOMAIN ShownNames(t, LstatOf(t, p).p, j) |->
          EntryAt(t, <<ShownNames(t, LstatOf(t, p).p, j)[i]>>, Append(p, ShownNames(t, LstatOf(t, p).p, j)[i]))]
Section(dir, lines) == [dir |-> dir, lines |-> lines]
IsDot(e) == e.name \in {<<".">>, <<"..">>}
RECURSIVE ListDir(_, _, _)
(* The first directory of a tree that cannot be listed ends its listing.   *)
ListSubdirs(r, subdirs, j, t) ==
  FoldLeft(LAMBDA s, e : IF ~s.ok THEN s ELSE LET sub == ListDir(t, e.p, j) IN Printed(sub.ok, s.out \o sub.out), r, subdirs)
ListItems(t, p, items, j) ==
  ListSubdirs(Printed(TRUE, <<Section(p, ListEntries(t, items, j))>>),
              IF "R" \in j.opts THEN SelectSeq(items, LAMBDA e : ~IsDot(e) /\ IsDirEntry(t, e)) ELSE <<>>, j, t)
ListDir(t, p, j) ==
  IF ~LstatOf(t, p).ok \/ ~Permits(t, LstatOf(t, p).p, "r") THEN Printed(FALSE, <<Section(p, <<>>)>>)
  ELSE ListItems(t, p, SortEntries(t, Items(t, p, j), j), j)
NoDir == <<"-">>
Ls(j) ==
  LET all   == [i \in DOMAIN j.paths |-> EntryAt(j.t, j.paths[i], j.paths[i])]
      known == SelectSeq(all, LAMBDA e : e.known)
      IsListed(e) == IsDirEntry(j.t, e) /\ "d" \notin j.opts
      files == SelectSeq(known, LAMBDA e : ~IsListed(e))
      dirs  == SelectSeq(known, IsListed)
      first == IF files = <<>> THEN <<>> ELSE <<Section(NoDir, ListEntries(j.t, SortEntries(j.t, files, j), j))>>
  IN  FoldLeft(LAMBDA r, e : LET d == ListDir(j.t, e.p, j) IN Printed(r.ok /\ d.ok, r.out \o d.out), Printed(known = all, first), dirs)

-----------------------------------------------------------------------------
(* du.  The depth of a path is the number of its separators: of the        *)
(* current directory "." it is that of the names in it.                    *)

Depth(p) == IF p = <<>> THEN 0 ELSE Len(p) - 1
MountOf(j, p) == {d \in j.mounted : IsPrefix(d, p)}
RECURSIVE DuWalk(_, _, _, _)
DuPruned(p, root, dir, j) ==
  p # root /\ (Last(p) \in j.exclude \/ ("x" \in j.opts /\ dir /\ MountOf(j, p) # MountOf(j, root)))
DuWalk(t, p, root, j) ==
  IF p \notin DOMAIN t.at THEN <<Visit(p, FALSE)>>
  ELSE IF DuPruned(p, root, IsKind(t, p, "dir"), j) THEN <<>>
  ELSE IF ~IsKind(t, p, "dir") THEN <<Visit(p, TRUE)>>
  ELSE IF ~MayList(t, p) THEN <<Visit(p, FALSE)>>
  ELSE <<Visit(p, TRUE)>>
         \o FlattenSeq([i \in 1 .. Cardinality(NamesIn(t, p)) |-> DuWalk(t, Append(p, Sorted(NamesIn(t, p))[i]), root, j)])
BytesUnder(t, walk, p) ==
  LET files == {i \in DOMAIN walk : IsPrefix(p, walk[i].p) /\ ~IsKind(t, walk[i].p, "dir")} IN
  FoldLeft(LAMBDA sum, i : IF i \in files THEN sum + SizeOf(NodeAt(t, walk[i].p)) ELSE sum, 0, [i \in DOMAIN walk |-> i])
DuEntries(t, walk, root) ==
  LET order == StableSort(walk, LAMBDA v, w : Depth(v.p) > Depth(w.p)) IN
  [i \in DOMAIN order |-> [p |-> order[i].p, bytes |-> BytesUnder(t, walk, order[i].p), dir |-> IsKind(t, order[i].p, "dir"),
                           depth |-> Depth(order[i].p) - Depth(root)]]
Report(s, j) ==
  LET root == Last(s).p IN
  IF "s" \in j.opts THEN <<Last(s)>>
  ELSE SelectSeq(s, LAMBDA e : (j.max < 0 \/ e.depth <= j.max \/ e.p = root) /\ ("a" \in j.opts \/ e.dir \/ e.p = root))
InBlocks(n, j) == IF "b" \in j.opts THEN n ELSE Blocks(n, Block)
TotalName == <<"total">>
DuLine(p, n, j) == [p |-> p, n |-> InBlocks(n, j)]
DuOne(r, p, walk, j) ==
  IF \E i \in DOMAIN walk : ~walk[i].ok THEN [r EXCEPT !.ok = FALSE]
  ELSE LET s == DuEntries(j.t, walk, p) IN
       [ok |-> r.ok, out |-> r.out \o [i \in DOMAIN Report(s, j) |-> DuLine(Report(s, j)[i].p, Report(s, j)[i].bytes, j)], grand |-> r.grand + Last(s).bytes]
Du(j) ==
  LET r == FoldLeft(LAMBDA x, p : DuOne(x, p, DuWalk(j.t, p, p, j), j), [ok |-> TRUE, out |-> <<>>, grand |-> 0], j.paths) IN
  Printed(r.ok, IF "c" \in j.opts THEN Append(r.out, DuLine(TotalName, r.grand, j)) ELSE r.out)

-----------------------------------------------------------------------------
(* find.  A directory at the greatest depth is read all the same. *)

EmptyNode(t, p) ==
  IF IsKind(t, p, "dir") THEN MayList(t, p) /\ NamesIn(t, p) = {} ELSE IsKind(t, p, "file") /\ NodeAt(t, p).data = <<>>
Matched(t, p, j) ==
  /\ j.name = {} \/ (p # <<>> /\ Last(p) \in j.name)
  /\ j.type = "" \/ NodeAt(t, p).kind = j.type
  /\ j.empty => EmptyNode(t, p)
RECURSIVE FindWalk(_, _, _, _)
FindWalk(t, p, root, j) ==
  IF p \notin DOMAIN t.at THEN <<Visit(p, FALSE)>>
  ELSE IF j.max >= 0 /\ Len(p) - Len(root) > j.max THEN <<>>
  ELSE IF ~IsKind(t, p, "dir") THEN <<Visit(p, TRUE)>>
  ELSE IF ~MayList(t, p) THEN <<Visit(p, TRUE), Visit(p, FALSE)>>
  ELSE <<Visit(p, TRUE)>>
         \o FlattenSeq([i \in 1 .. Cardinality(NamesIn(t, p)) |-> FindWalk(t, Append(p, Sorted(NamesIn(t, p))[i]), root, j)])
FindIn(t, walk, root, j) ==
  Printed(Visited(walk) = walk,
          WalkPaths(SelectSeq(walk, LAMBDA v : v.ok /\ Len(v.p) - Len(root) >= j.min /\ Matched(t, v.p, j))))
Find(j) ==
  FoldLeft(LAMBDA r, p : LET f == FindIn(j.t, FindWalk(j.t, p, p, j), p, j) IN Printed(r.ok /\ f.ok, r.out \o f.out), Printed(TRUE, <<>>), j.paths)

-----------------------------------------------------------------------------
(* tree.  A line has the level of a name, and whether it is the last of    *)
(* its directory. *)

TreeNames(t, p, j) ==
  SelectSeq(Sorted(NamesIn(t, p)), LAMBDA n : ("a" \in j.opts \/ n \notin HiddenNames) /\ ("d" \in j.opts => IsKind(t, Append(p, n), "dir")))
TreeState(out, dirs, files, ok) == [out |-> out, dirs |-> dirs, files |-> files, ok |-> ok]
Shown(r, n, level, last, dir) ==
  [r EXCEPT !.out = Append(@, [name |-> <<n>>, level |-> level, last |-> last]), !.dirs = IF dir THEN @ + 1 ELSE @, !.files = IF dir THEN @ ELSE @ + 1]
RECURSIVE TreeWalk(_, _, _, _, _)
TreeEntry(t, p, n, level, last, r, j) ==
  IF IsKind(t, Append(p, n), "dir") THEN TreeWalk(t, Append(p, n), level + 1, Shown(r, n, level, last, TRUE), j)
  ELSE Shown(r, n, level, last, FALSE)
TreeEntries(t, p, names, level, r, j) ==
  FoldLeft(LAMBDA x, i : IF x.ok THEN TreeEntry(t, p, names[i], level, i = Len(names), x, j) ELSE x, r, [i \in DOMAIN names |-> i])
TreeWalk(t, p, level, r, j) ==
  LET w == StatOf(t, p) IN
  IF j.max >= 0 /\ level > j.max THEN r
  ELSE IF ~IsDirAt(t, w) \/ ~Permits(t, w.p, "r") THEN [r EXCEPT !.ok = FALSE]
  ELSE TreeEntries(t, w.p, TreeNames(t, w.p, j), level, r, j)
TreeRoot(r, p, j) ==
  LET x == TreeWalk(j.t, p, 1, TreeState(Append(r.out, [name |-> p, level |-> 0, last |-> TRUE]), r.dirs + 1, r.files, TRUE), j) IN
  [x EXCEPT !.ok = r.ok /\ x.ok]
TreeOf(j) == FoldLeft(LAMBDA r, p : TreeRoot(r, p, j), TreeState(<<>>, 0, 0, TRUE), j.paths)

-----------------------------------------------------------------------------
(* readlink and realpath.  The names of an operand are cleaned before its  *)
(* links are followed, so that ".." takes away the name before it.         *)

Found(w) == Printed(w.there, w.p)
Canonical(t, p) == Found(StatOf(t, Rooted(p)))
(* The longest beginning that exists, with the rest as it is.              *)
CanonicalMissing(t, p) ==
  LET n == Max({k \in 0 .. Len(p) : StatOf(t, Begin(p, k)).there}) IN Printed(TRUE, StatOf(t, Begin(p, n)).p \o After(p, n))
CanonicalParent(t, p) ==
  LET w == StatOf(t, Begin(p, Len(p) - 1)) IN Printed(w.there, IF p = <<>> THEN w.p ELSE Append(w.p, Last(p)))
TargetOf(t, w) == IF w.there /\ NodeAt(t, w.p).kind = "link" THEN Printed(TRUE, NodeAt(t, w.p).to) ELSE Printed(FALSE, <<>>)
Readlink(t, p, how) ==
  CASE how = "plain" -> TargetOf(t, LstatOf(t, p))
    [] how = "m"     -> CanonicalMissing(t, Rooted(p))
    [] how = "e"     -> Canonical(t, p)
    [] how = "f"     -> IF Canonical(t, p).ok THEN Canonical(t, p) ELSE CanonicalParent(t, Rooted(p))
Realpath(t, p, how) ==
  IF how = "lexical" \/ (how = "missing" /\ ~Canonical(t, p).ok) THEN Printed(TRUE, Rooted(p)) ELSE Canonical(t, p)
(* Nothing is under the root, for its name has no separator after it.      *)
Beneath(p, base) == p = base \/ (base # <<>> /\ IsPrefix(base, p))
PathLine(p, to, base) ==
  IF to = NoDir \/ (base # NoDir /\ ~Beneath(p, base)) THEN [abs |-> TRUE, p |-> p] ELSE [abs |-> FALSE, p |-> RelTo(to, p, Common(to, p))]
LinkName(j, p) == IF j.cmd = "readlink" THEN Readlink(j.t, p, j.how) ELSE Realpath(j.t, p, j.how)
Anchor(j, p) == IF p = NoDir THEN Printed(TRUE, NoDir) ELSE Realpath(j.t, p, j.how)
AnchorTo(j) == Anchor(j, IF j.to = NoDir THEN j.base ELSE j.to)
PathLines(j, to, base) ==
  FoldLeft(LAMBDA r, p : IF LinkName(j, p).ok THEN [r EXCEPT !.out = Append(@, PathLine(LinkName(j, p).out, to, base))] ELSE [r EXCEPT !.ok = FALSE],
           Printed(TRUE, <<>>), j.paths)
Paths(j) ==
  IF ~AnchorTo(j).ok \/ ~Anchor(j, j.base).ok THEN Printed(FALSE, <<>>) ELSE PathLines(j, AnchorTo(j).out, Anchor(j, j.base).out)

-----------------------------------------------------------------------------
(* which.  exec.LookPath asks whether the caller may execute, and refuses  *)
(* what it finds first in a directory that is not absolute; -a looks at    *)
(* the bits of a regular file.                                             *)

MayExecute(t, w) ==
  /\ w.there /\ NodeAt(t, w.p).kind # "dir"
  /\ IF t.me = 0 THEN NodeAt(t, w.p).mode \cap Xs # {} ELSE Permits(t, w.p, "x")
AnyMayExecute(t, w) == w.there /\ Executable(NodeAt(t, w.p))
Candidates(j) == [i \in DOMAIN j.path |-> j.path[i].dir \o j.name]
LookPath(j) ==
  LET found == {i \in DOMAIN j.path : MayExecute(j.t, StatOf(j.t, Candidates(j)[i]))} IN
  IF j.direct THEN (IF MayExecute(j.t, StatOf(j.t, j.name)) THEN <<j.name>> ELSE <<>>)
  ELSE IF found = {} \/ ~j.path[Min(found)].abs THEN <<>> ELSE <<Candidates(j)[Min(found)]>>
LookPathAll(j) ==
  SelectSeq(IF j.direct THEN <<j.name>> ELSE Candidates(j), LAMBDA p : AnyMayExecute(j.t, StatOf(j.t, p)))
Which(j) == LET s == IF j.all THEN LookPathAll(j) ELSE LookPath(j) IN Printed(s # <<>>, s)

-----------------------------------------------------------------------------
(* mountpoint, with what filepath.Dir makes of its operand.                *)

DirOf(j) == Rooted(IF j.slash THEN j.p ELSE Begin(j.p, Len(j.p) - 1))
OnMount(j, w, above) == MountOf(j, w.p) # MountOf(j, above.p) \/ j.t.at[w.p] = j.t.at[above.p]
MountedAt(j, w, above) ==
  IF ~w.there \/ ~above.there \/ (j.slash /\ ~IsDirAt(j.t, w)) THEN Printed(FALSE, <<>>)
  ELSE Printed(OnMount(j, w, above), <<OnMount(j, w, above)>>)
Mountpoint(j) == MountedAt(j, StatOf(j.t, j.p), StatOf(j.t, DirOf(j)))

(* stat, with the directives of its format. *)
Blank == [num |-> -1, word |-> "", path |-> <<>>, mode |-> {}]
Num(n) == [Blank EXCEPT !.num = n]
Directive(t, p, w, f) ==
  LET n == NodeAt(t, w.p) IN
  CASE f = "n" -> [Blank EXCEPT !.path = p]
    [] f = "s" -> Num(SizeOf(n))
    [] f = "F" -> [Blank EXCEPT !.word = n.kind]
    [] f = "a" -> [Blank EXCEPT !.mode = NoSpecial(n.mode)]
    [] f = "A" -> [Blank EXCEPT !.word = n.kind, !.mode = n.mode]
    [] f = "i" -> Num(t.at[w.p])
    [] f = "h" -> Num(LinksOf(t, t.at[w.p]))
    [] f = "u" -> Num(n.uid)
    [] f = "g" -> Num(n.gid)
    [] f = "X" -> Num(n.atime)
    [] f = "Y" -> Num(n.mtime)
    [] OTHER   -> [Blank EXCEPT !.word = f]
StatLine(t, p, w, fields) == [i \in DOMAIN fields |-> Directive(t, p, w, fields[i])]
StatOne(r, t, p, w, fields) ==
  IF w.there THEN [r EXCEPT !.out = Append(@, StatLine(t, p, w, fields))] ELSE [r EXCEPT !.ok = FALSE]
StatFiles(j) ==
  FoldLeft(LAMBDA r, p : StatOne(r, j.t, p, IF j.follow THEN StatOf(j.t, p) ELSE LstatOf(j.t, p), j.fields), Printed(TRUE, <<>>), j.paths)

-----------------------------------------------------------------------------
(* df.  A mount has a source, a target, a type and what statfs says of it, *)
(* in blocks; later mounts hide those before them at their target.         *)

Word(n) == n % 2 ^ WordBits
Percent(used, total) == IF total = 0 THEN 0 ELSE Word(Word(used * 100) + total - 1) \div total
ComputeUsage(s) ==
  LET total == Word(s.blocks * s.bsize)
      used  == Word(total - s.free * s.bsize)
      avail == Word(s.avail * s.bsize)
  IN  [total |-> total, used |-> used, avail |-> avail, pct |-> Percent(used, Word(used + avail)),
       files |-> s.files, iused |-> Word(s.files - s.ffree), ifree |-> s.ffree, ipct |-> Percent(Word(s.files - s.ffree), s.files)]
Scaled(n, size) == Word(n + size - 1) \div size
SizeColumns(u, j) ==
  LET Size(n) == Scaled(n, IF j.block > 0 THEN j.block ELSE Block) IN
  [u EXCEPT !.total = Size(@), !.used = Size(@), !.avail = Size(@)]

(* The mount that a path is on, and the one df names: the longest target   *)
(* that begins the operand as it was written.                              *)
Holder(mounts, p) ==
  LET over == {i \in DOMAIN mounts : IsPrefix(mounts[i].target, p)}
      long == {i \in over : \A k \in over : Len(mounts[k].target) <= Len(mounts[i].target)}
  IN  Max(long)
Holds(m, x) == m.target = <<>> \/ (x.abs /\ IsPrefix(m.target, x.p))
Identify(mounts, x) ==
  LET over == {i \in DOMAIN mounts : Holds(mounts[i], x)} IN
  {i \in over : \A k \in over : Len(mounts[k].target) < Len(mounts[i].target) \/ (Len(mounts[k].target) = Len(mounts[i].target) /\ i <= k)}
Known(j) == IF j.readable THEN j.mounts ELSE <<>>
FsEntry(name, type, target, s) == [name |-> name, type |-> type, target |-> target, s |-> s]
OperandEntry(j, x, w, named) ==
  LET s == j.mounts[Holder(j.mounts, w.p)].stat IN
  FsEntry(IF named = {} THEN "-" ELSE j.mounts[Min(named)].source, IF named = {} THEN s.type ELSE j.mounts[Min(named)].type, x.p, s)
FromOperands(j, operands) ==
  FoldLeft(LAMBDA r, x :
             IF StatOf(j.t, x.p).there
             THEN [r EXCEPT !.out = Append(@, OperandEntry(j, x, StatOf(j.t, x.p), Identify(Known(j), x)))]
             ELSE [r EXCEPT !.ok = FALSE], Printed(TRUE, <<>>), operands)
Here == <<[p |-> <<>>, abs |-> FALSE]>>
FromMounts(j) ==
  IF ~j.readable THEN Printed(TRUE, <<FsEntry("-", j.mounts[Holder(j.mounts, <<>>)].stat.type, <<>>, j.mounts[Holder(j.mounts, <<>>)].stat)>>)
  ELSE LET Entry1(m) == FsEntry(m.source, m.type, m.target, j.mounts[Holder(j.mounts, m.target)].stat)
           shown == SelectSeq(j.mounts, LAMBDA m : StatOf(j.t, m.target).there /\ ("a" \in j.opts \/ Entry1(m).s.blocks # 0))
       IN  Printed(TRUE, [i \in DOMAIN shown |-> Entry1(shown[i])])
Collected(j) ==
  IF j.operands # <<>> THEN FromOperands(j, j.operands)
  ELSE IF j.opts # {} \/ j.types # {} THEN FromMounts(j) ELSE FromOperands(j, Here)
ByType(s, types) == SelectSeq(s, LAMBDA e : types = {} \/ e.type \in types)
UsageSum(s, f) == FoldLeft(LAMBDA sum, e : Word(sum + ComputeUsage(e.s)[f]), 0, s)
TotalUsage(s) ==
  LET u == [f \in {"total", "used", "avail", "files", "iused", "ifree"} |-> UsageSum(s, f)] IN
  u @@ ("pct" :> Percent(u["used"], Word(u["used"] + u["avail"]))) @@ ("ipct" :> Percent(u["iused"], u["files"]))
DfRows(s, j) ==
  [i \in DOMAIN s |-> [name |-> s[i].name, target |-> s[i].target, u |-> SizeColumns(ComputeUsage(s[i].s), j)]]
    \o (IF "total" \in j.opts THEN <<[name |-> "total", target |-> NoDir, u |-> SizeColumns(TotalUsage(s), j)]>> ELSE <<>>)
Df(j) == LET c == Collected(j) IN Printed(c.ok, DfRows(ByType(c.out, j.types), j))

-----------------------------------------------------------------------------
(* sddf.  Names below the directories of the system are passed over, as    *)
(* far as a name tells: those of "/" are written "//etc".                  *)

Important(j, dir, p) == j.abs /\ dir # <<>> /\ p[1] \in j.important
RECURSIVE SddfFiles(_, _)
SddfName(t, q, l) ==
  IF ~l.there \/ NodeAt(t, l.p).kind = "pipe" THEN <<>> ELSE IF IsDirAt(t, l) THEN SddfFiles(t, q) ELSE <<q>>
SddfFiles(t, p) ==
  LET w == StatOf(t, p) IN
  IF ~IsDirAt(t, w) \/ ~Permits(t, w.p, "r") THEN <<>>
  ELSE FlattenSeq([i \in 1 .. Cardinality(NamesIn(t, w.p)) |->
                     SddfName(t, Append(p, Sorted(NamesIn(t, w.p))[i]), LstatOf(t, Append(p, Sorted(NamesIn(t, w.p))[i])))])
CollectFiles(j, t, dir) == SelectSeq(SddfFiles(t, dir), LAMBDA p : ~Important(j, dir, p))
Readable(t, p) == LET w == StatOf(t, p) IN w.there /\ NodeAt(t, w.p).kind = "file" /\ Permits(t, w.p, "r")
ContentAt(t, p) == NodeAt(t, StatOf(t, p).p).data
FindDuplicates(t, files) ==
  LET read == SelectSeq(files, LAMBDA p : Readable(t, p))
      Same(p) == SelectSeq(read, LAMBDA q : ContentAt(t, q) = ContentAt(t, p))
      first == SelectSeq(read, LAMBDA p : Same(p)[1] = p)
  IN  SelectSeq([i \in DOMAIN first |-> Same(first[i])], LAMBDA g : Len(g) > 1)
(* The mutant of DeleteTargets: the oldest is kept, as if the comparison   *)
(* of times were turned round.                                             *)
TargetsButOldest(t, paths) ==
  LET Time(i) == NodeAt(t, StatOf(t, paths[i]).p).mtime
      oldest  == {i \in DOMAIN paths : \A k \in DOMAIN paths : Time(k) > Time(i) \/ (Time(k) = Time(i) /\ i <= k)}
  IN  SelectSeq(paths, LAMBDA p : \A i \in oldest : p # paths[i])
(* The first of the newest, of those that are there since 1970.            *)
DeleteTargets(t, paths) ==
  LET Time(i) == NodeAt(t, StatOf(t, paths[i]).p).mtime
      dated   == {i \in DOMAIN paths : StatOf(t, paths[i]).there /\ Time(i) >= 0}
      newest  == {i \in dated : \A k \in dated : Time(k) < Time(i) \/ (Time(k) = Time(i) /\ i <= k)}
  IN  SelectSeq(paths, LAMBDA p : \A i \in newest : p # paths[i])
FileSize(t, p) == LET w == StatOf(t, p) IN IF w.there THEN SizeOf(NodeAt(t, w.p)) ELSE 0
Removes(r, path, deleted) ==
  IF deleted.ok THEN [r EXCEPT !.t = deleted.t, !.sum = @ + FileSize(r.t, path)] ELSE [r EXCEPT !.ok = FALSE]
SddfDelete(r, path, j) ==
  IF "n" \in j.opts THEN [r EXCEPT !.sum = @ + FileSize(r.t, path)]
  ELSE IF "i" \notin j.opts THEN Removes(r, path, DeleteAt(r.t, LstatOf(r.t, path)))
  ELSE LET asked == [r EXCEPT !.answers = After(@, 1)] IN
       IF Begin(r.answers, 1) # <<TRUE>> THEN asked ELSE Removes(asked, path, DeleteAt(r.t, LstatOf(r.t, path)))
DeleteGroups(r, groups, j) ==
  FoldLeft(LAMBDA x, p : SddfDelete(x, p, j), r, FlattenSeq([i \in DOMAIN groups |-> DeleteTargets(r.t, groups[i])]))
ScanOf(r, groups, files, j) ==
  IF files = <<>> THEN r
  ELSE IF j.opts \cap {"d", "n"} # {} THEN DeleteGroups(r, groups, j) ELSE [r EXCEPT !.report = <<groups>>]
(* An operand that is a file is not the report: that is for the next run.  *)
SddfOperand(r, p, j) ==
  IF ~IsDirAt(r.t, StatOf(r.t, p)) THEN [r EXCEPT !.ok = FALSE]
  ELSE LET files == CollectFiles(j, r.t, p) IN ScanOf(r, FindDuplicates(r.t, files), files, j)
SddfState(t, j) == [ok |-> TRUE, from |-> t, t |-> t, sum |-> 0, answers |-> j.answers, report |-> <<>>]
(* A run that writes the report, and one that deletes what it says, when   *)
(* the files are those of later.                                           *)
Sddf(j) ==
  LET first == FoldLeft(LAMBDA r, p : SddfOperand(r, p, j), SddfState(j.t, j), j.dirs) IN
  IF first.report = <<>> \/ j.later = <<>> THEN first ELSE DeleteGroups(SddfState(j.later[1], j), first.report[1], j)

-----------------------------------------------------------------------------
ListingsInit == listing = <<"none">>
NotAsked == listing = <<"none">>
Asked(cmd, j, r) == listing' = <<cmd, j, r>>
RunLs         == NotAsked /\ \E j \in LsJobs : Asked("ls", j, Ls(j))
RunDu         == NotAsked /\ \E j \in DuJobs : Asked("du", j, Du(j))
RunFind       == NotAsked /\ \E j \in FindJobs : Asked("find", j, Find(j))
RunTree       == NotAsked /\ \E j \in TreeJobs : Asked("tree", j, TreeOf(j))
RunPaths      == NotAsked /\ \E j \in PathJobs : Asked("paths", j, Paths(j))
RunWhich      == NotAsked /\ \E j \in WhichJobs : Asked("which", j, Which(j))
RunMountpoint == NotAsked /\ \E j \in MountJobs : Asked("mountpoint", j, Mountpoint(j))
RunStat       == NotAsked /\ \E j \in StatJobs : Asked("stat", j, StatFiles(j))
RunDf         == NotAsked /\ \E j \in DfJobs : Asked("df", j, Df(j))
RunSddf       == NotAsked /\ \E j \in SddfJobs : Asked("sddf", j, Sddf(j))
Compared(x, y) == [x |-> x, y |-> y, cmp |-> VersionCompare(x, y)]
RunCompare    == NotAsked /\ \E x, y, z \in VersionJobs : Asked("version", <<x, y, z>>, <<Compared(x, y), Compared(y, z), Compared(x, z), Compared(y, x)>>)
ListingsNext ==
  RunLs \/ RunDu \/ RunFind \/ RunTree \/ RunPaths \/ RunWhich \/ RunMountpoint
    \/ RunStat \/ RunDf \/ RunSddf \/ RunCompare

-----------------------------------------------------------------------------
(* What the applets promise.                                               *)

Subtree(t, root) == {p \in DOMAIN t.at : IsPrefix(root, p)}
Strictly(t, root) == Subtree(t, root) \ {root}
PartsAfter(root, p) == {p[i] : i \in Len(root) + 1 .. Len(p)}
Once(s) == \A i, k \in DOMAIN s : i # k => s[i] # s[k]

(* ls shows each visible name of a directory once, in the order asked for, *)
(* and with -R each directory that is below.                               *)
NamesToShow(t, dir, j) ==
  LET all == j.opts \cap {"a", "A"} # {} IN
  {<<n>> : n \in NamesIn(t, LstatOf(t, dir).p) \ (j.ignore \cup IF all THEN {} ELSE HiddenNames \cup j.hide)}
    \cup (IF "a" \in j.opts THEN {<<".">>, <<"..">>} ELSE {})
PathShown(dir, name) == IF name = <<".">> THEN dir ELSE IF name = <<"..">> THEN Up(dir) ELSE dir \o name
InOrderOf(t, d, e, j) ==
  CASE j.sort = "size" -> EntrySize(t, d) >= EntrySize(t, e)
    [] j.sort = "time" -> EntryTime(t, d, j.time) >= EntryTime(t, e, j.time)
    [] j.sort = "name" -> ~LessPath(e.name, d.name)
    [] j.sort = "extension" -> ExtOfEntry(d) <= ExtOfEntry(e)
    [] j.sort = "version" -> VersionCompare(CharsOfEntry(d), CharsOfEntry(e)) <= 0
    [] j.sort = "none" -> TRUE
SectionIsRight(t, s, j) ==
  LET names == [i \in DOMAIN s.lines |-> s.lines[i].name]
      entry == [i \in DOMAIN s.lines |-> EntryAt(t, names[i], PathShown(s.dir, names[i]))]
  IN  /\ Once(names) /\ ToSet(names) = NamesToShow(t, s.dir, j)
      /\ \A i, k \in DOMAIN names : i < k =>
           LET apart == "groupDirs" \in j.opts /\ IsDirEntry(t, entry[i]) # IsDirEntry(t, entry[k]) IN
           IF apart THEN IsDirEntry(t, entry[i]) ELSE InOrderOf(t, entry[i], entry[k], j)
LsIsRight(j, r) ==
  LET listed == {p \in ToSet(j.paths) : IsDirAt(j.t, LstatOf(j.t, p)) /\ "d" \notin j.opts}
      visible(p) == {q \in Strictly(j.t, p) : LstatOf(j.t, q).there /\ IsKind(j.t, q, "dir") /\ \A k \in Len(p) + 1 .. Len(q) : <<q[k]>> \in NamesToShow(j.t, Begin(q, k - 1), j)}
      sections == {s \in ToSet(r.out) : s.dir # NoDir}
  IN  /\ \A s \in sections : s.lines # <<>> \/ r.ok => SectionIsRight(j.t, s, j)
      /\ r.ok => {Rooted(s.dir) : s \in sections} = UNION {{Rooted(p)} \cup (IF "R" \in j.opts THEN visible(Rooted(p)) ELSE {}) : p \in listed}
      /\ r.ok => \A p \in ToSet(j.paths) : LstatOf(j.t, p).there

(* The order of versions is one: of two names each is not less or not      *)
(* greater, it is transitive, and a number goes by its value.              *)
ValueOf(s) == FoldLeft(LAMBDA v, ch : 10 * v + ch, 0, s)
IsNumber(s) == s # <<>> /\ \A i \in DOMAIN s : IsDigit(s[i])
VersionsAreRight(r) ==
  /\ r[1].cmp = -r[4].cmp
  /\ r[1].cmp <= 0 /\ r[2].cmp <= 0 => r[3].cmp <= 0 /\ (r[3].cmp = 0 => r[1].cmp = 0 /\ r[2].cmp = 0)
  /\ IsNumber(r[1].x) /\ IsNumber(r[1].y) => r[1].cmp = Sign(ValueOf(r[1].x), ValueOf(r[1].y))

(* du tells a directory after what is below it, with the sum of the files  *)
(* below it that are not left out; and the operand last, if not ".".       *)
Counted(j, root) ==
  LET onRoot(p) == IsKind(j.t, p, "dir") /\ "x" \in j.opts => MountOf(j, p) = MountOf(j, root) IN
  {p \in Subtree(j.t, root) : \A k \in Len(root) + 1 .. Len(p) : p[k] \notin j.exclude /\ onRoot(Begin(p, k))}
SumOver(S, f(_)) == FoldSet(LAMBDA p, sum : sum + f(p), 0, S)
BytesOf(j, kept, p) == SumOver({q \in kept : IsPrefix(p, q) /\ ~IsKind(j.t, q, "dir")}, LAMBDA q : SizeOf(NodeAt(j.t, q)))
DuLinesAreRight(j, root, kept, out) ==
  LET body == IF "c" \in j.opts THEN Begin(out, Len(out) - 1) ELSE out
      toTell == {p \in kept : "a" \in j.opts \/ IsKind(j.t, p, "dir") \/ p = root}
  IN  /\ \A i \in DOMAIN body : body[i].p \in kept /\ body[i].n = InBlocks(BytesOf(j, kept, body[i].p), j)
      /\ \A i, k \in DOMAIN body : i < k => body[i].p # body[k].p /\ ~IsPrefix(body[i].p, body[k].p)
      /\ Last(body).p = root
      /\ "c" \in j.opts => Last(out).n = Last(body).n
      /\ {body[i].p : i \in DOMAIN body} =
           IF "s" \in j.opts THEN {root} ELSE {p \in toTell : j.max < 0 \/ p = root \/ Len(p) - Len(root) <= j.max}
DuIsRight(j, r) ==
  LET root == j.paths[1] IN
  r.ok /\ Len(j.paths) = 1 /\ root # <<>> /\ root \in DOMAIN j.t.at => DuLinesAreRight(j, root, Counted(j, root), r.out)

(* find tells what matches, once, a directory before what is in it; and    *)
(* fails when it could not look everywhere.                                *)
FindIsRight(j, r) ==
  LET root == j.paths[1]
      meant == {p \in Subtree(j.t, root) : /\ Len(p) - Len(root) >= j.min /\ (j.max >= 0 => Len(p) - Len(root) <= j.max)
                                         /\ Matched(j.t, p, j)}
  IN  Len(j.paths) = 1 /\ root \in DOMAIN j.t.at =>
        /\ Once(r.out) /\ ToSet(r.out) \subseteq meant /\ (r.ok => ToSet(r.out) = meant)
        /\ \A i, k \in DOMAIN r.out : IsPrefix(r.out[i], r.out[k]) => i <= k

(* tree draws a line for each visible name, the corner at the last of each *)
(* directory and nowhere else, and counts them.                            *)
TreeIsRight(j, r) ==
  LET root == j.paths[1]
      at == StatOf(j.t, root).p
      visible == {p \in Strictly(j.t, at) :
                    /\ j.max >= 0 => Len(p) - Len(at) <= j.max
                    /\ "a" \notin j.opts => PartsAfter(at, p) \cap HiddenNames = {}
                    /\ "d" \in j.opts => IsKind(j.t, p, "dir")}
      ended(i, k) == \E m \in i + 1 .. k - 1 : r.out[m].level < r.out[i].level
  IN  r.ok /\ Len(j.paths) = 1 =>
        /\ Len(r.out) = 1 + Cardinality(visible)
        /\ r.dirs = 1 + Cardinality({p \in visible : IsKind(j.t, p, "dir")}) /\ r.files = Len(r.out) - r.dirs
        /\ \A i \in 2 .. Len(r.out) :
             /\ r.out[i].level <= r.out[i - 1].level + 1
             /\ r.out[i].last <=> \A k \in i + 1 .. Len(r.out) : r.out[k].level = r.out[i].level => ended(i, k)

(* A canonical name has no link in it and stands for what the operand does *)
(* (unless ".." follows a link); a relative one leads to it from DIR.      *)
FreeOfLinks(t, p) == \A n \in 1 .. Len(p) : ~IsKind(t, Begin(p, n), "link")
PathIsRight(j, p, line, to, base) ==
  LET w == StatOf(j.t, p)
      plain == p = Rooted(p)
      full == IF line.abs THEN line.p ELSE Rooted(to \o line.p)
  IN  IF j.how = "plain" THEN line.p = NodeAt(j.t, LstatOf(j.t, p).p).to
      ELSE /\ full = Rooted(full)
           /\ j.how # "lexical" /\ plain /\ w.there => full = w.p
           /\ j.how \in {"e", "physical"} => full \in DOMAIN j.t.at /\ FreeOfLinks(j.t, full)
           /\ j.how = "f" => Up(full) \in DOMAIN j.t.at /\ FreeOfLinks(j.t, Up(full))
           /\ j.how \in {"f", "m"} /\ ~Canonical(j.t, p).ok => Last(full) = Last(Rooted(p))
           /\ ~line.abs => to # NoDir /\ (base # NoDir => IsPrefix(base, full))
PathsAreRight(j, r, to, base) ==
  /\ r.ok => Len(r.out) = Len(j.paths) /\ \A i \in DOMAIN r.out : PathIsRight(j, j.paths[i], r.out[i], to, base)
  /\ j.how \in {"m", "missing", "lexical"} /\ j.to = NoDir /\ j.base = NoDir => r.ok

(* which names what the caller would run: the first that may be, and one   *)
(* that -a also tells if it is a file.                                     *)
WhichIsRight(j, r) ==
  LET may(p) == LET w == StatOf(j.t, p) IN w.there /\ Executable(NodeAt(j.t, w.p)) /\ Permits(j.t, w.p, "x") IN
  /\ r.ok <=> r.out # <<>>
  /\ ~j.all /\ r.ok =>
       /\ Len(r.out) = 1 /\ may(r.out[1])
       /\ ~j.direct => \E i \in DOMAIN j.path : j.path[i].abs /\ r.out[1] = Candidates(j)[i] /\ \A k \in 1 .. i - 1 : ~may(Candidates(j)[k])
       /\ r.out[1] \in ToSet(LookPathAll(j))
  /\ ~j.all /\ ~j.direct /\ (\A i \in DOMAIN j.path : j.path[i].abs) => (r.ok <=> \E p \in ToSet(Candidates(j)) : may(p))

MountpointIsRight(j, r) ==
  j.p # <<>> /\ ~j.slash /\ j.p = Rooted(j.p) /\ FreeOfLinks(j.t, j.p) => (r.ok <=> j.p \in j.mounted /\ StatOf(j.t, j.p).there)

(* Two lines of stat have one inode if they are one file, whose links are  *)
(* its names; and with -L none is a link.                                  *)
StatIsRight(j, r) ==
  LET Look(p) == IF j.follow THEN StatOf(j.t, p) ELSE LstatOf(j.t, p)
      shown == SelectSeq(j.paths, LAMBDA p : Look(p).there)
      Value(i, f) == r.out[i][CHOOSE k \in DOMAIN j.fields : j.fields[k] = f]
      has(f) == f \in ToSet(j.fields)
  IN  /\ r.ok <=> shown = j.paths
      /\ Len(r.out) = Len(shown)
      /\ has("h") => \A i \in DOMAIN shown : Value(i, "h").num = Cardinality({p \in DOMAIN j.t.at : NodeAt(j.t, p) = NodeAt(j.t, Look(shown[i]).p) /\ j.t.at[p] = j.t.at[Look(shown[i]).p]})
      /\ has("i") => \A i, k \in DOMAIN shown : Value(i, "i") = Value(k, "i") <=> j.t.at[Look(shown[i]).p] = j.t.at[Look(shown[k]).p]
      /\ j.follow /\ has("F") => \A i \in DOMAIN shown : Value(i, "F").word # "link"

(* Where 64 bits hold the sizes, df's percentage is between 0 and 100 and  *)
(* is rounded up, and so are its sizes; the total is that of the rows; and *)
(* an absolute operand without links is on the mount that is named.        *)
Held(s) == s.bsize * s.blocks * 101 < 2 ^ WordBits /\ s.files * 101 < 2 ^ WordBits
UpTo100(pct, used, total) == pct \in 0 .. 100 /\ 100 * used <= pct * total /\ (pct > 0 => 100 * used > (pct - 1) * total)
DfIsRight(j, r) ==
  LET rows == SelectSeq(r.out, LAMBDA w : w.target # NoDir)
      fits == SumOver(DOMAIN j.mounts, LAMBDA i : j.mounts[i].stat.bsize * j.mounts[i].stat.blocks) * 202 < 2 ^ WordBits
      columns == {"total", "used", "avail", "files", "iused", "ifree"}
  IN  /\ (\A i \in DOMAIN j.mounts : Held(j.mounts[i].stat)) =>
           \A w \in ToSet(rows) :
             /\ w.u.pct \in 0 .. 100 /\ w.u.ipct \in 0 .. 100 /\ (w.u.used > 0 => w.u.pct > 0) /\ w.u.used <= w.u.total
             /\ j.block = 1 => UpTo100(w.u.pct, w.u.used, w.u.used + w.u.avail)
             /\ UpTo100(w.u.ipct, w.u.iused, w.u.files)
      /\ fits /\ j.block = 1 /\ Len(rows) < Len(r.out) =>
           \A f \in columns : Last(r.out).u[f] = SumOver(DOMAIN rows, LAMBDA i : rows[i].u[f])
      /\ j.types # {} => \A w \in ToSet(rows) : w.name = "-" \/ \E m \in ToSet(j.mounts) : m.source = w.name /\ m.type \in j.types
      /\ r.ok /\ j.readable /\ j.types = {} => \A i \in DOMAIN j.operands :
           LET p == j.operands[i].p IN
           j.operands[i].abs /\ p = Rooted(p) /\ FreeOfLinks(j.t, p) =>
             \E m \in ToSet(j.mounts) : m.source = rows[i].name /\ m.target = j.mounts[Holder(j.mounts, p)].target

(* sddf removes a name only of content that had another; -n removes none,  *)
(* -i none without a yes; and when no file has changed, is a link or is    *)
(* from before 1970, all content is still there, with its newest time.     *)
(* That the paths of the system are always left out (sddf.go:75) is        *)
(* claimed of names that start with one: the code knows neither those of   *)
(* "/" ("//etc") nor relative ones, nor where a link leads.                *)
Recognised(j) == j.abs /\ <<>> \notin ToSet(j.dirs)
Contents(t) == {p \in DOMAIN t.at : IsKind(t, p, "file")}
NewestOf(t, data) == Max({NodeAt(t, p).mtime : p \in {p \in Contents(t) : NodeAt(t, p).data = data}})
SddfIsRight(j, r) ==
  LET start == r.from
      lost  == DOMAIN start.at \ DOMAIN r.t.at
      calm  == start = j.t /\ \A p \in DOMAIN j.t.at : ~IsKind(j.t, p, "link") /\ NodeAt(j.t, p).mtime >= 0
      yes   == Cardinality({i \in DOMAIN j.answers : j.answers[i]})
  IN  /\ \A p \in DOMAIN r.t.at : p \in DOMAIN start.at /\ r.t.at[p] = start.at[p] /\ NodeAt(r.t, p) = NodeAt(start, p)
      /\ "n" \in j.opts => lost = {}
      /\ "i" \in j.opts => Cardinality(lost) <= yes
      /\ \A p \in lost : \E q \in DOMAIN j.t.at \ {p} : Readable(j.t, p) /\ Readable(j.t, q) /\ ContentAt(j.t, p) = ContentAt(j.t, q)
      /\ Recognised(j) => \A p \in lost : p[1] \notin j.important
      /\ calm => \A p \in Contents(start) :
           \E q \in Contents(r.t) : NodeAt(r.t, q).data = NodeAt(start, p).data /\ NodeAt(r.t, q).mtime = NewestOf(start, NodeAt(start, p).data)
      /\ calm /\ "n" \notin j.opts => r.sum = SumOver(lost, LAMBDA p : SizeOf(NodeAt(start, p)))

RightFor(cmd, j, r) ==
  CASE cmd = "ls"         -> LsIsRight(j, r)
    [] cmd = "version"    -> VersionsAreRight(r)
    [] cmd = "du"         -> DuIsRight(j, r)
    [] cmd = "find"       -> FindIsRight(j, r)
    [] cmd = "tree"       -> TreeIsRight(j, r)
    [] cmd = "paths"      -> PathsAreRight(j, r, AnchorTo(j).out, Anchor(j, j.base).out)
    [] cmd = "which"      -> WhichIsRight(j, r)
    [] cmd = "mountpoint" -> MountpointIsRight(j, r)
    [] cmd = "stat"       -> StatIsRight(j, r)
    [] cmd = "df"         -> DfIsRight(j, r)
    [] cmd = "sddf"       -> SddfIsRight(j, r)

(* What an applet said of a tree, or did to it, is what it promises of its *)
(* input: nothing is listed twice, left out, counted twice or lost, except *)
(* as the parts above name (ls, du, find, tree, which, stat, df, sddf).    *)
ListingsAreRight == NotAsked \/ RightFor(listing[1], listing[2], listing[3])
=============================================================================
