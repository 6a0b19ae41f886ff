-------------------------------- MODULE TreeTools --------------------------------
(***************************************************************************)
(* The applets that change a tree of files: chmod, chown and chgrp, ln,    *)
(* install, cp with links, touch, truncate, shred, mkdir, rmdir, mktemp,   *)
(* makedevs and tee.  Each is run once, by root or by a user.              *)
(*                                                                         *)
(* Files are [at, node, me]: the numbers of the inodes at the paths, the   *)
(* inodes, and who runs the applet (root is 0; a user's group has his      *)
(* number).  A mode is a set of pairs <<who, perm>>; of the permissions    *)
(* "s" of u and g are setuid and setgid, of o the sticky bit.  Paths,      *)
(* their order, Clean and State are those of Archives.                     *)
(***************************************************************************)
EXTENDS Archives, TLC

CONSTANTS
  ChmodJobs, OwnerJobs, LnJobs, InstallJobs, LinkCpJobs, TouchJobs, SizeJobs,
  ShredJobs, DirJobs, TempJobs, DeviceJobs, TeeJobs,
  Now,         \* the time on the clock
  MaxLinks,    \* links that are followed on the way to a file (40)
  SizeBits     \* bits of an int64 (64), of which numbers of devices have half

ASSUME TreeToolsAssumption == Now \in Nat /\ MaxLinks \in Nat \ {0} /\ SizeBits \in {2 * n : n \in 2 .. 14}

VARIABLES
  changer,       \* "none", or the applet that was run
  job, done      \* its input, and the files it leaves with its status

trvars == <<changer, job, done>>

Who == {"u", "g", "o"}
Perms(ws, ps) == ws \X ps
ModeOf(u, g, o) == Perms({"u"}, u) \cup Perms({"g"}, g) \cup Perms({"o"}, o)
Umask == ModeOf({}, {"w"}, {"w"})
Rw == {"r", "w"}
Rx == {"r", "x"}
Rwx == {"r", "w", "x"}
M755 == ModeOf(Rwx, Rx, Rx)
M644 == ModeOf(Rw, {"r"}, {"r"})
NoSpecial(mode) == mode \ Perms(Who, {"s"})
INode(kind, mode, uid, data, to) ==
  [kind |-> kind, mode |-> mode, uid |-> uid, gid |-> uid, data |-> data, to |-> to, atime |-> Now, mtime |-> Now]

-----------------------------------------------------------------------------
(* The file system. *)

NodeAt(t, p) == t.node[t.at[p]]
IsKind(t, p, kind) == p \in DOMAIN t.at /\ NodeAt(t, p).kind = kind
ClassOf(t, n) == IF n.uid = t.me THEN "u" ELSE IF n.gid = t.me THEN "g" ELSE "o"
Permits(t, p, perm) == t.me = 0 \/ <<ClassOf(t, NodeAt(t, p)), perm>> \in NodeAt(t, p).mode
NamesIn(t, p) == {q[Len(q)] : q \in {q \in DOMAIN t.at : q # <<>> /\ Up(q) = p}}

(* The way from the root to what the names of a path stand for: no way, or *)
(* the place where it is, or would be made.                                *)
Way(t, p) == [ok |-> TRUE, p |-> p, there |-> p \in DOMAIN t.at, absent |-> p \notin DOMAIN t.at]
NoWay(absent) == [ok |-> FALSE, p |-> <<>>, there |-> FALSE, absent |-> absent]
RECURSIVE Res(_, _, _, _, _)
Through(t, q, rest, follow, links) ==
  IF IsKind(t, q, "link") /\ (follow \/ rest # <<>>)
  THEN IF Begin(NodeAt(t, q).to, 1) = <<"/">> THEN Res(t, <<>>, Tail(NodeAt(t, q).to) \o rest, follow, links - 1)
       ELSE Res(t, Up(q), NodeAt(t, q).to \o rest, follow, links - 1)
  ELSE Res(t, q, rest, follow, links)
Res(t, from, rest, follow, links) ==
  IF rest = <<>> THEN Way(t, from)
  ELSE IF links = 0 \/ ~IsKind(t, from, "dir") \/ ~Permits(t, from, "x") THEN NoWay(from \notin DOMAIN t.at)
  ELSE IF Head(rest) = "." THEN Res(t, from, Tail(rest), follow, links)
  ELSE IF Head(rest) = ".." THEN Res(t, Begin(from, Len(from) - 1), Tail(rest), follow, links)
  ELSE Through(t, Append(from, Head(rest)), Tail(rest), follow, links)
StatOf(t, p)  == Res(t, <<>>, p, TRUE, MaxLinks)
LstatOf(t, p) == Res(t, <<>>, p, FALSE, MaxLinks)
IsDirAt(t, w) == w.there /\ NodeAt(t, w.p).kind = "dir"

(* System calls, at a place; the error leaves all as it was.               *)
Refuse(t) == State(FALSE, t)
SetNode(t, p, node) == State(TRUE, [t EXCEPT !.node[t.at[p]] = node])
MayName(t, w) == w.ok /\ w.p # <<>> /\ Permits(t, Up(w.p), "w")
NewInode(t) == 1 + Max(DOMAIN t.node)
Placed(t, p, n, node) == State(TRUE, [t EXCEPT !.at = @ @@ (p :> n), !.node = @ @@ (n :> node)])
MakeNode(t, w, node) ==
  IF MayName(t, w) /\ ~w.there THEN Placed(t, w.p, NewInode(t), [node EXCEPT !.uid = t.me, !.gid = t.me]) ELSE Refuse(t)
MkdirAt(t, w, mode) == MakeNode(t, w, INode("dir", mode \ Umask, 0, <<>>, <<>>))
SymlinkAt(t, w, to) == MakeNode(t, w, INode("link", Perms(Who, Rwx), 0, <<>>, to))
(* O_CREATE, with or without O_TRUNC. *)
OpenAt(t, w, mode, cut) ==
  IF ~w.there THEN MakeNode(t, w, INode("file", mode \ Umask, 0, <<>>, <<>>))
  ELSE IF NodeAt(t, w.p).kind = "dir" \/ ~Permits(t, w.p, "w") THEN Refuse(t)
  ELSE SetNode(t, w.p, IF cut THEN [NodeAt(t, w.p) EXCEPT !.data = <<>>, !.mtime = Now] ELSE NodeAt(t, w.p))
WriteAt(t, w, data) == SetNode(t, w.p, [NodeAt(t, w.p) EXCEPT !.data = data, !.mtime = Now])
LinkAt(t, from, w) ==
  IF from.there /\ ~IsDirAt(t, from) /\ MayName(t, w) /\ ~w.there THEN State(TRUE, [t EXCEPT !.at = @ @@ (w.p :> t.at[from.p])]) ELSE Refuse(t)
DeleteAt(t, w) ==
  IF w.there /\ MayName(t, w) /\ NamesIn(t, w.p) = {} THEN State(TRUE, [t EXCEPT !.at = [q \in DOMAIN @ \ {w.p} |-> @[q]]]) ELSE Refuse(t)
RenameAt(t, from, w) ==
  LET moved == {q \in DOMAIN t.at : IsPrefix(from.p, q)}
      New(q) == w.p \o SubSeq(q, Len(from.p) + 1, Len(q))
  IN  IF ~from.there \/ ~MayName(t, from) \/ ~MayName(t, w) \/ (w.there /\ (IsDirAt(t, w) \/ IsDirAt(t, from))) THEN Refuse(t)
      ELSE IF w.there /\ t.at[w.p] = t.at[from.p] THEN State(TRUE, t)
      ELSE State(TRUE, [t EXCEPT !.at = [q \in {New(x) : x \in moved} |-> t.at[from.p \o SubSeq(q, Len(w.p) + 1, Len(q))]]
                                        @@ [q \in DOMAIN @ \ moved |-> @[q]]])
Owns(t, w) == w.there /\ (t.me = 0 \/ NodeAt(t, w.p).uid = t.me)
ChmodAt(t, w, mode) == IF Owns(t, w) THEN SetNode(t, w.p, [NodeAt(t, w.p) EXCEPT !.mode = mode]) ELSE Refuse(t)
Given(id, old) == IF id = -1 THEN old ELSE id
ChownAt(t, w, uid, gid) ==
  IF ~Owns(t, w) \/ (t.me # 0 /\ (uid \notin {-1, t.me} \/ gid \notin {-1, t.me})) THEN Refuse(t)
  ELSE SetNode(t, w.p, [NodeAt(t, w.p) EXCEPT !.uid = Given(uid, @), !.gid = Given(gid, @)])
TimesAt(t, w, atime, mtime) ==
  IF Owns(t, w) THEN SetNode(t, w.p, [NodeAt(t, w.p) EXCEPT !.atime = atime, !.mtime = mtime]) ELSE Refuse(t)

(* os.MkdirAll. *)
RECURSIVE MkdirsAt(_, _, _)
MkdirsAt(t, p, mode) ==
  LET w == StatOf(t, p)
      above == MkdirsAt(t, Up(p), mode)
      made == MkdirAt(above.t, LstatOf(above.t, p), mode)
  IN  IF w.there THEN State(IsDirAt(t, w), t)
      ELSE IF p = <<>> \/ ~above.ok THEN Refuse(above.t)
      ELSE IF made.ok THEN made ELSE State(IsDirAt(above.t, LstatOf(above.t, p)), above.t)

(* Runs on after an error, and remembers it; or stops at it.               *)
GoOn(r, next) == State(r.ok /\ next.ok, next.t)
OnAll(t, s, Step(_, _)) == FoldLeft(LAMBDA r, x : GoOn(r, Step(r.t, x)), State(TRUE, t), s)
OnAllUntil(t, s, Step(_, _)) == FoldLeft(LAMBDA r, x : IF r.ok THEN Step(r.t, x) ELSE r, State(TRUE, t), s)

(* filepath.WalkDir, which tells a directory before it fails to list it,   *)
(* and filepath.Walk, which lists it first and asks for each name's inode. *)
Visit(p, ok) == [p |-> p, ok |-> ok]
MayList(t, p) == LstatOf(t, p).ok /\ Permits(t, p, "r")
RECURSIVE WalkDir(_, _), WalkTree(_, _)
WalkDir(t, p) ==
  IF p \notin DOMAIN t.at THEN <<Visit(p, FALSE)>>
  ELSE IF ~IsKind(t, p, "dir") THEN <<Visit(p, TRUE)>>
  ELSE IF ~MayList(t, p) THEN <<Visit(p, TRUE), Visit(p, FALSE)>>
  ELSE <<Visit(p, TRUE)>> \o FlattenSeq([i \in 1 .. Cardinality(NamesIn(t, p)) |-> WalkDir(t, Append(p, Sorted(NamesIn(t, p))[i]))])
WalkTree(t, p) ==
  IF ~LstatOf(t, p).there \/ (IsKind(t, p, "dir") /\ ~MayList(t, p)) THEN <<Visit(p, FALSE)>>
  ELSE IF ~IsKind(t, p, "dir") THEN <<Visit(p, TRUE)>>
  ELSE <<Visit(p, TRUE)>> \o FlattenSeq([i \in 1 .. Cardinality(NamesIn(t, p)) |-> WalkTree(t, Append(p, Sorted(NamesIn(t, p))[i]))])
Visited(walk) == SelectSeq(walk, LAMBDA v : v.ok)

-----------------------------------------------------------------------------
(* chmod. A mode is "octal", its bits, or "symbolic", a sequence of        *)
(* clauses [who, op, perms].                                               *)

Xs == Perms(Who, {"x"})
PermBits(perm, ws, bits, dir) ==
  CASE perm \in Rwx -> Perms(Who, {perm})
    [] perm = "X" -> IF dir \/ bits \cap Xs # {} THEN Xs ELSE {}
    [] perm = "s" -> Perms(ws \cap {"u", "g"}, {"s"})
    [] perm = "t" -> {<<"o", "s">>}
ApplyClause(bits, c, dir) ==
  LET ws    == IF c.who = {} THEN Who ELSE c.who
      mine  == Perms(ws, Rwx \cup {"s"})
      set   == mine \cap UNION {PermBits(c.perms[i], ws, bits, dir) : i \in DOMAIN c.perms}
  IN  CASE c.op = "+" -> bits \cup set [] c.op = "-" -> bits \ set [] c.op = "=" -> (bits \ mine) \cup set
ValidMode(m) == m.kind = "octal" \/ \A i \in DOMAIN m.clauses : "?" \notin ToSet(m.clauses[i].perms)
ApplyMode(bits, m, dir) ==
  IF m.kind = "octal" THEN m.bits ELSE FoldLeft(LAMBDA b, c : ApplyClause(b, c, dir), bits, m.clauses)
ModeChanged(t, w, m) ==
  IF w.there /\ ValidMode(m) THEN ChmodAt(t, w, ApplyMode(NodeAt(t, w.p).mode, m, NodeAt(t, w.p).kind = "dir")) ELSE Refuse(t)
ChangeMode(t, p, m) == ModeChanged(t, StatOf(t, p), m)
ChmodFromTop(t, walk, m) ==  \* a mutant: a directory before its contents
  GoOn(State(Visited(walk) = walk, t), OnAll(t, Visited(walk), LAMBDA u, v : ChangeMode(u, v.p, m)))
ChmodEach(t, walk, m) ==
  GoOn(State(Visited(walk) = walk, t), OnAll(t, Reverse(Visited(walk)), LAMBDA u, v : ChangeMode(u, v.p, m)))
Chmod(j) ==
  OnAll(j.t, j.paths, LAMBDA t, p : IF j.deep THEN ChmodEach(t, WalkDir(t, p), j.mode) ELSE ChangeMode(t, p, j.mode))

(* chown stops a walk at its first error, chgrp goes on.                   *)
ChangeOwner(t, v, j) == IF v.ok THEN ChownAt(t, StatOf(t, v.p), j.uid, j.gid) ELSE Refuse(t)
OwnTree(t, p, j) == IF j.deep THEN WalkTree(t, p) ELSE <<Visit(p, TRUE)>>
ApplyOwner(t, walk, j) ==
  IF j.cmd = "chown" THEN OnAllUntil(t, walk, LAMBDA u, v : ChangeOwner(u, v, j)) ELSE OnAll(t, walk, LAMBDA u, v : ChangeOwner(u, v, j))
Chown(j) == OnAll(j.t, j.paths, LAMBDA t, p : ApplyOwner(t, OwnTree(t, p, j), j))

-----------------------------------------------------------------------------
(* ln. *)

Rooted(p) ==
  FoldLeft(LAMBDA q, n : IF n = "." THEN q ELSE IF n = ".." THEN Begin(q, Len(q) - 1) ELSE Append(q, n), <<>>, p)
Common(p, q) == Max({n \in 0 .. Len(p) : n <= Len(q) /\ \A i \in 1 .. n : p[i] = q[i]})
RelTo(dir, p, n) ==
  IF dir = p THEN <<".">> ELSE [i \in 1 .. Len(dir) - n |-> ".."] \o SubSeq(p, n + 1, Len(p))
RelativeTarget(target, name) == RelTo(Rooted(Up(name)), Rooted(target), Common(Rooted(Up(name)), Rooted(target)))
MakeLink(t, target, name, opts) ==
  IF "s" \in opts THEN SymlinkAt(t, LstatOf(t, name), IF "r" \in opts THEN RelativeTarget(target, name) ELSE target)
  ELSE LinkAt(t, LstatOf(t, target), LstatOf(t, name))
RemoveExisting(t, w) == IF w.there THEN DeleteAt(t, w) ELSE State(w.absent, t)
Cleared(r, target, name, opts) == IF r.ok THEN MakeLink(r.t, target, name, opts) ELSE r
LinkOne(t, target, name, opts) ==
  Cleared(IF "f" \in opts THEN RemoveExisting(t, LstatOf(t, name)) ELSE State(TRUE, t), target, name, opts)
InDirOf(dir, p) == Append(dir, Last(p))
(* The links, as pairs of target and name; none when the operands are no   *)
(* good. No destination is <<"-">>.                                        *)
NoDest == <<"-">>
LnPairs(j) ==
  LET into(dir) == [i \in DOMAIN j.targets |-> <<j.targets[i], InDirOf(dir, j.targets[i])>>]
      one == Len(j.targets) = 1
  IN  CASE j.dest # NoDest /\ "t" \in j.opts -> into(j.dest)
        [] j.dest = NoDest -> IF one THEN into(<<>>) ELSE <<>>
        [] j.dest # NoDest /\ "t" \notin j.opts ->
             IF "T" \notin j.opts /\ IsDirAt(j.t, StatOf(j.t, j.dest)) THEN into(j.dest)
             ELSE IF one THEN << <<j.targets[1], j.dest>> >> ELSE <<>>
Ln(j) ==
  LET pairs == LnPairs(j) IN
  IF pairs = <<>> THEN Refuse(j.t) ELSE OnAll(j.t, pairs, LAMBDA t, x : LinkOne(t, x[1], x[2], j.opts))

-----------------------------------------------------------------------------
(* install. *)

Then(r, Step(_)) == IF r.ok THEN Step(r.t) ELSE r
Suffixed(p, suffix) == [p EXCEPT ![Len(p)] = @ \o suffix]
NumberedName(p, n) == Suffixed(p, ".~" \o ToString(n) \o "~")
RECURSIVE NextNumber(_, _, _)
NextNumber(t, p, n) == IF LstatOf(t, NumberedName(p, n)).there THEN NextNumber(t, p, n + 1) ELSE n
BackupName(t, p, control) ==
  IF control = "numbered" \/ (control = "existing" /\ NextNumber(t, p, 1) > 1) THEN NumberedName(p, NextNumber(t, p, 1))
  ELSE Suffixed(p, "~")
MoveAside(t, p, control) ==
  IF control = "none" \/ ~LstatOf(t, p).there THEN State(TRUE, t)
  ELSE RenameAt(t, LstatOf(t, p), LstatOf(t, BackupName(t, p, control)))
MayRead(t, w) == w.there /\ NodeAt(t, w.p).kind = "file" /\ Permits(t, w.p, "r")
(* The source is open while the target is cut: one file is then empty.     *)
Poured(r, in, out) == IF r.ok THEN WriteAt(r.t, out, NodeAt(r.t, in.p).data) ELSE r
CopyInto(t, in, out, mode) == IF MayRead(t, in) THEN Poured(OpenAt(t, out, mode, TRUE), in, out) ELSE Refuse(t)
InstallCopy(t, src, dest) == CopyInto(t, StatOf(t, src), StatOf(t, dest), ModeOf(Rw, Rw, Rw))
Attributes(t, w, j, info) ==
  Then(Then(ChmodAt(t, w, NoSpecial(j.mode)),
            LAMBDA u : IF "p" \in j.opts THEN TimesAt(u, w, info.mtime, info.mtime) ELSE State(TRUE, u)),
       LAMBDA u : IF j.owner # -1 THEN ChownAt(u, w, j.owner, -1) ELSE State(TRUE, u))
InstallFrom(t, in, src, dest, j) ==
  IF ~in.there \/ NodeAt(t, in.p).kind = "dir" THEN Refuse(t)
  ELSE Then(Then(MoveAside(t, dest, j.backup), LAMBDA u : InstallCopy(u, src, dest)),
            LAMBDA u : Attributes(u, StatOf(u, dest), j, NodeAt(t, in.p)))
InstallOne(t, src, dest, j) ==
  Then(IF "D" \in j.opts THEN MkdirsAt(t, Up(dest), M755) ELSE State(TRUE, t),
       LAMBDA u : InstallFrom(u, StatOf(u, src), src, dest, j))
InstallOut(j, src) ==
  IF "t" \in j.opts \/ ("T" \notin j.opts /\ IsDirAt(j.t, StatOf(j.t, j.dest))) THEN InDirOf(j.dest, src) ELSE j.dest
InstallDir(t, p, mode) == Then(MkdirsAt(t, p, NoSpecial(mode)), LAMBDA u : ChmodAt(u, StatOf(u, p), NoSpecial(mode)))
Install(j) ==
  IF "d" \in j.opts THEN OnAll(j.t, j.srcs, LAMBDA t, p : InstallDir(t, p, j.mode))
  ELSE IF Len(j.srcs) > 1 /\ InstallOut(j, j.srcs[1]) = j.dest THEN Refuse(j.t)
  ELSE OnAll(j.t, j.srcs, LAMBDA t, src : InstallOne(t, src, InstallOut(j, src), j))

-----------------------------------------------------------------------------
(* cp, where there are links, permissions and prefixes; its policy on what *)
(* is there already is in FileOps.  j.deref is "never" (-P, -d), "always"  *)
(* (-L), "cmdline" (-H) or "default"; j.opts is of r, f, p, parents.       *)

SamePath(p, q) == Rooted(p) = Rooted(q)
IsLinkAt(t, w) == w.there /\ NodeAt(t, w.p).kind = "link"
CopySymlink(t, src, dst) ==
  Then(RemoveExisting(t, LstatOf(t, dst)), LAMBDA u : SymlinkAt(u, LstatOf(u, dst), NodeAt(t, src.p).to))
Forced(t, in, dst, mode) ==
  IF MayRead(t, in) THEN Then(DeleteAt(t, LstatOf(t, dst)), LAMBDA u : CopyInto(u, in, StatOf(u, dst), mode)) ELSE Refuse(t)
Denied(t, w) == w.there /\ ~IsDirAt(t, w) /\ ~Permits(t, w.p, "w")
CopyContents(t, in, dst, j) ==
  LET info == NodeAt(t, in.p)
      out  == StatOf(t, dst)
      r    == IF "f" \in j.opts /\ Denied(t, out) THEN Forced(t, in, dst, NoSpecial(info.mode)) ELSE CopyInto(t, in, out, NoSpecial(info.mode))
      made == StatOf(r.t, dst)
      kept == ChmodAt(r.t, made, NoSpecial(info.mode))
  IN  IF r.ok /\ "p" \in j.opts THEN State(TRUE, TimesAt(kept.t, made, info.mtime, info.mtime).t) ELSE r
CpVisited(t, v, target, j) ==
  LET info == NodeAt(t, v.p)
      end  == StatOf(t, v.p)
      made == MkdirsAt(t, target, NoSpecial(info.mode))
  IN  IF ~v.ok THEN Refuse(t)
      ELSE IF info.kind = "link" /\ j.deref \in {"never", "cmdline"} THEN CopySymlink(t, LstatOf(t, v.p), target)
      ELSE IF info.kind = "link" /\ IsDirAt(t, end) THEN State(TRUE, t)
      ELSE IF info.kind = "dir"
      THEN IF made.ok /\ "p" \in j.opts THEN State(TRUE, ChmodAt(made.t, StatOf(made.t, target), NoSpecial(info.mode)).t) ELSE made
      ELSE IF end.there THEN CopyContents(t, end, target, j) ELSE Refuse(t)
CpTree(t, src, root, j) ==
  IF IsPrefix(Rooted(src), Rooted(root)) THEN Refuse(t)
  ELSE OnAllUntil(t, WalkTree(t, src), LAMBDA u, v : CpVisited(u, v, root \o SubSeq(v.p, Len(src) + 1, Len(v.p)), j))
Landing(t, src, dest) == IF IsDirAt(t, StatOf(t, dest)) THEN InDirOf(dest, src) ELSE dest
CpInto(t, src, dest, j) ==
  IF IsDirAt(t, StatOf(t, src)) THEN CpTree(t, src, Landing(t, src, dest), j)
  ELSE IF SamePath(src, Landing(t, src, dest)) THEN Refuse(t)
  ELSE CopyContents(t, StatOf(t, src), Landing(t, src, dest), j)
Prefixed(j, src) == IF "parents" \in j.opts THEN j.dest \o Up(src) ELSE j.dest
CpSource(t, src, j) ==
  IF j.deref = "never" /\ IsLinkAt(t, LstatOf(t, src))
  THEN IF SamePath(src, Landing(t, src, j.dest)) THEN Refuse(t) ELSE CopySymlink(t, LstatOf(t, src), Landing(t, src, j.dest))
  ELSE IF ~StatOf(t, src).there \/ (IsDirAt(t, StatOf(t, src)) /\ "r" \notin j.opts) \/ SamePath(src, j.dest) THEN Refuse(t)
  ELSE Then(IF Prefixed(j, src) # j.dest THEN MkdirsAt(t, Prefixed(j, src), M755) ELSE State(TRUE, t),
            LAMBDA u : CpInto(u, src, Prefixed(j, src), j))
LinkCp(j) ==
  IF (Len(j.srcs) > 1 \/ "parents" \in j.opts) /\ ~IsDirAt(j.t, StatOf(j.t, j.dest)) THEN Refuse(j.t)
  ELSE OnAllUntil(j.t, j.srcs, LAMBDA t, src : CpSource(t, src, j))

-----------------------------------------------------------------------------
(* touch, truncate and shred.  -r and -d of touch are times, -1 for none.  *)

TouchTimes(t, w, p, j) ==
  LET info  == NodeAt(t, w.p)
      given == j.date # -1 \/ j.ref # <<-1, -1>>
      times == IF j.date # -1 THEN <<j.date, j.date>> ELSE IF given THEN j.ref ELSE <<Now, Now>>
      only(c, d) == c \in j.opts /\ d \notin j.opts
  IN  TimesAt(t, IF "h" \in j.opts THEN w ELSE StatOf(t, p),
              IF only("m", "a") THEN info.mtime ELSE times[1], IF only("a", "m") THEN info.mtime ELSE times[2])
TouchOne(t, p, j) ==
  IF LstatOf(t, p).there THEN TouchTimes(t, LstatOf(t, p), p, j)
  ELSE IF "c" \in j.opts \/ ~LstatOf(t, p).absent THEN State(LstatOf(t, p).absent, t)
  ELSE Then(OpenAt(t, StatOf(t, p), ModeOf(Rw, Rw, Rw), TRUE), LAMBDA u : TouchTimes(u, LstatOf(u, p), p, j))
Touch(j) == OnAll(j.t, j.paths, LAMBDA t, p : TouchOne(t, p, j))

Int64(n) == ((n + 2 ^ (SizeBits - 1)) % 2 ^ SizeBits) - 2 ^ (SizeBits - 1)
(* n units after a sign, "+", "-" or none.                                 *)
ResolveSize(size, cur) ==
  LET n == Int64(size.n * size.unit)
      target == CASE size.sign = "+" -> Int64(cur + n) [] size.sign = "-" -> Int64(cur - n) [] size.sign = "" -> n
  IN  Max({0, target})
Resized(data, n) == [i \in 1 .. n |-> IF i <= Len(data) THEN data[i] ELSE 0]
TruncateTo(t, w, n) == Then(OpenAt(t, w, M644, FALSE), LAMBDA u : WriteAt(u, w, Resized(NodeAt(u, w.p).data, n)))
TruncateFile(t, p, j) ==
  LET w == StatOf(t, p) IN
  IF ~w.there /\ ("c" \in j.opts \/ ~w.absent) THEN State(w.absent, t)
  ELSE TruncateTo(t, w, ResolveSize(j.size, IF w.there THEN Len(NodeAt(t, w.p).data) ELSE 0))
TruncateAll(j) == OnAll(j.t, j.paths, LAMBDA t, p : TruncateFile(t, p, j))

Overwritten(t, w, byte) == WriteAt(t, w, [i \in DOMAIN NodeAt(t, w.p).data |-> byte])
Passes(j) == [i \in 1 .. j.passes |-> -1] \o (IF "z" \in j.opts THEN <<0>> ELSE <<>>)
ShredFile(t, w, p, j) ==
  IF ~w.there \/ IsDirAt(t, w) \/ ~Permits(t, w.p, "w") THEN Refuse(t)
  ELSE Then(OnAllUntil(t, Passes(j), LAMBDA u, b : Overwritten(u, w, b)),
            LAMBDA u : IF "u" \in j.opts THEN Then(WriteAt(u, w, <<>>), LAMBDA x : DeleteAt(x, LstatOf(x, p))) ELSE State(TRUE, u))
Shred(j) == OnAll(j.t, j.paths, LAMBDA t, p : ShredFile(t, StatOf(t, p), p, j))

-----------------------------------------------------------------------------
(* mkdir, rmdir, mktemp and makedevs. *)

RmdirOne(t, w) == IF IsDirAt(t, w) THEN DeleteAt(t, w) ELSE Refuse(t)
RECURSIVE RmdirUp(_, _, _)
RmdirUp(t, p, deep) ==
  Then(RmdirOne(t, LstatOf(t, p)), LAMBDA u : IF deep /\ Len(p) > 1 THEN RmdirUp(u, Up(p), deep) ELSE State(TRUE, u))
MkdirOne(t, p, j) == IF j.deep THEN MkdirsAt(t, p, NoSpecial(j.mode)) ELSE MkdirAt(t, LstatOf(t, p), NoSpecial(j.mode))
Dirs(j) == OnAll(j.t, j.paths, LAMBDA t, p : IF j.cmd = "mkdir" THEN MkdirOne(t, p, j) ELSE RmdirUp(t, p, j.deep))

(* The random names that are drawn until one is new.                       *)
NewName(t, dir, draws) == SelectInSeq(draws, LAMBDA n : ~LstatOf(t, Append(dir, n)).there)
MakeTemp(t, p, directory) ==
  IF directory THEN MkdirAt(t, LstatOf(t, p), ModeOf(Rwx, {}, {})) ELSE OpenAt(t, LstatOf(t, p), ModeOf(Rw, {}, {}), FALSE)
MkTemp(j) ==
  IF j.dry THEN State(TRUE, j.t)
  ELSE IF NewName(j.t, j.dir, j.draws) = 0 THEN Refuse(j.t)
  ELSE MakeTemp(j.t, Append(j.dir, j.draws[NewName(j.t, j.dir, j.draws)]), j.directory)

(* A row has [path, type, mode, major, minor, start, inc, count].          *)
Uint32(n) == n % 2 ^ (SizeBits \div 2)
Mknod(t, p, kind, mode, dev) ==
  IF kind # "pipe" /\ t.me # 0 THEN Refuse(t) ELSE MakeNode(t, LstatOf(t, p), INode(kind, mode \ Umask, 0, dev, <<>>))
DeviceAt(row, i) == <<row.major, Uint32(row.minor + i * Max({1, row.inc}))>>
Devices(row) ==
  IF row.count = 0 THEN << <<row.path, <<row.major, row.minor>> >> >>
  ELSE [i \in 1 .. row.count |-> <<Suffixed(row.path, ToString(Uint32(row.start + i - 1))), DeviceAt(row, i - 1)>>]
ApplyRow(t, root, row) ==
  LET p == root \o row.path
      above == MkdirsAt(t, Up(p), M755)
  IN  CASE row.type = "dir"  -> MkdirsAt(t, p, NoSpecial(row.mode))
        [] row.type = "file" -> Then(above, LAMBDA u : OpenAt(u, StatOf(u, p), NoSpecial(row.mode), FALSE))
        [] row.type = "pipe" -> Then(above, LAMBDA u : Mknod(u, p, "pipe", NoSpecial(row.mode), <<>>))
        [] row.type \in {"char", "block"} ->
             Then(above, LAMBDA u : OnAllUntil(u, Devices(row), LAMBDA x, d : Mknod(x, root \o d[1], row.type, NoSpecial(row.mode), d[2])))
MakeDevs(j) ==
  Then(MkdirsAt(j.t, j.root, M755), LAMBDA u : OnAllUntil(u, j.rows, LAMBDA x, row : ApplyRow(x, j.root, row)))

-----------------------------------------------------------------------------
(* tee. An output opens or not, and may break at a chunk (0 is never), as  *)
(* a pipe does or otherwise.                                               *)

IgnoresPipe(mode) == mode \in {"warn-nopipe", "exit-nopipe"}
ExitsOnError(mode) == mode \in {"exit", "exit-nopipe"}
Tee0(outs) == [got |-> [i \in DOMAIN outs |-> 0], dead |-> {}, failed |-> FALSE, stopped |-> FALSE]
WriteChunk(s, i, k, out, mode) ==
  IF s.stopped \/ i \in s.dead \/ ~out.opens THEN s
  ELSE IF out.breaks # k THEN [s EXCEPT !.got[i] = k]
  ELSE [s EXCEPT !.dead = @ \cup {i}, !.stopped = ExitsOnError(mode),
                 !.failed = @ \/ ~(IgnoresPipe(mode) /\ out.pipe)]
WriteChunks(s, outs, k, mode) == FoldLeft(LAMBDA r, i : WriteChunk(r, i, k, outs[i], mode), s, [i \in DOMAIN outs |-> i])
CopyStream(outs, chunks, mode) ==
  FoldLeft(LAMBDA s, k : WriteChunks(s, outs, k, mode), Tee0(outs), [k \in 1 .. chunks |-> k])
TeeEnds(s, unopened) == [ok |-> ~(s.failed \/ s.stopped \/ unopened), got |-> s.got]
Tee(j) ==
  LET unopened == \E i \in DOMAIN j.outs : ~j.outs[i].opens IN
  IF unopened /\ ExitsOnError(j.mode) THEN [ok |-> FALSE, got |-> Tee0(j.outs).got]
  ELSE TeeEnds(CopyStream(j.outs, j.chunks, j.mode), unopened)
-----------------------------------------------------------------------------
NotRun == [ok |-> TRUE]
TreeToolsInit == changer = "none" /\ job = NotRun /\ done = NotRun
Unchanged == changer = "none"
Changed(name, j, r) == changer' = name /\ job' = j /\ done' = r

RunChmod    == Unchanged /\ \E j \in ChmodJobs : Changed("chmod", j, Chmod(j))
RunChown    == Unchanged /\ \E j \in OwnerJobs : Changed("chown", j, Chown(j))
RunLn       == Unchanged /\ \E j \in LnJobs : Changed("ln", j, Ln(j))
RunInstall  == Unchanged /\ \E j \in InstallJobs : Changed("install", j, Install(j))
RunLinkCp   == Unchanged /\ \E j \in LinkCpJobs : Changed("cp", j, LinkCp(j))
RunTouch    == Unchanged /\ \E j \in TouchJobs : Changed("touch", j, Touch(j))
RunTruncate == Unchanged /\ \E j \in SizeJobs : Changed("truncate", j, TruncateAll(j))
RunShred    == Unchanged /\ \E j \in ShredJobs : Changed("shred", j, Shred(j))
RunDirs     == Unchanged /\ \E j \in DirJobs : Changed("dirs", j, Dirs(j))
RunMkTemp   == Unchanged /\ \E j \in TempJobs : Changed("mktemp", j, MkTemp(j))
RunMakeDevs == Unchanged /\ \E j \in DeviceJobs : Changed("makedevs", j, MakeDevs(j))
RunTee      == Unchanged /\ \E j \in TeeJobs : Changed("tee", j, Tee(j))
TreeToolsNext ==
  RunChmod \/ RunChown \/ RunLn \/ RunInstall \/ RunLinkCp \/ RunTouch
    \/ RunTruncate \/ RunShred \/ RunDirs \/ RunMkTemp \/ RunMakeDevs \/ RunTee

-----------------------------------------------------------------------------
(* What the applets promise, of the files before (t) and after (u).        *)

InodeAt(t, p)  == LET w == StatOf(t, p) IN IF w.there THEN {t.at[w.p]} ELSE {}
InodesAt(t, s) == UNION {InodeAt(t, p) : p \in ToSet(s)}
WalkPaths(walk)   == [i \in DOMAIN walk |-> walk[i].p]
Keeps(t, u, S, Field(_)) == \A n \in DOMAIN t.node \ S : Field(u.node[n]) = Field(t.node[n])
ModeField(n)  == n.mode
OwnerField(n) == <<n.uid, n.gid>>
DataField(n)  == n.data
TimeField(n)  == <<n.atime, n.mtime>>
NodeField(n)  == n

(* chmod changes the modes of what it reached and of nothing else.  The    *)
(* owner of a tree that he may list is not stopped on his way, whichever   *)
(* right he takes from himself: directories come after their contents.     *)
Reach(t, j, Seen(_, _)) == FlattenSeq([i \in DOMAIN j.paths |-> IF j.deep THEN Seen(t, j.paths[i]) ELSE <<Visit(j.paths[i], TRUE)>>])
(* What a clause leaves of the bits, one by one.                           *)
Wanted(c, bits, dir, b) ==
  LET ps == ToSet(c.perms) IN
  CASE b[2] = "x" -> "x" \in ps \/ ("X" \in ps /\ (dir \/ \E w \in Who : <<w, "x">> \in bits))
    [] b[2] = "s" -> (IF b[1] = "o" THEN "t" ELSE "s") \in ps
    [] b[2] \in Rw -> b[2] \in ps
AfterClause(c, bits, dir) ==
  {b \in Perms(Who, Rwx \cup {"s"}) :
     IF c.who # {} /\ b[1] \notin c.who THEN b \in bits
     ELSE IF Wanted(c, bits, dir, b) THEN c.op # "-" ELSE b \in bits /\ c.op # "="}
AfterMode(m, bits, dir) == IF m.kind = "octal" THEN m.bits ELSE FoldLeft(LAMBDA b, c : AfterClause(c, b, dir), bits, m.clauses)
HisOwn(t, walk) == \A i \in DOMAIN walk : walk[i].ok /\ Owns(t, StatOf(t, walk[i].p))
ChmodIsRight(j, r, walk) ==
  LET reached == InodesAt(j.t, WalkPaths(walk))
      New(n, bits) == AfterMode(j.mode, bits, j.t.node[n].kind = "dir")
  IN  /\ r.t.at = j.t.at
      /\ Keeps(j.t, r.t, reached, NodeField)
      /\ Keeps(j.t, r.t, {}, OwnerField) /\ Keeps(j.t, r.t, {}, DataField)
      /\ ValidMode(j.mode) /\ HisOwn(j.t, walk) => r.ok
      /\ r.ok => \A n \in reached :
           r.t.node[n].mode \in {New(n, j.t.node[n].mode), New(n, New(n, j.t.node[n].mode))}

(* chown and chgrp give all that they walked through, when all went well;  *)
(* chgrp, whatever happens, all that it may.                               *)
OwnersAreRight(j, r, walk) ==
  LET reached == InodesAt(j.t, WalkPaths(walk))
      mine    == {n \in reached : j.t.me \in {0, j.t.node[n].uid}}
      given(n) == OwnerField(r.t.node[n]) = <<Given(j.uid, j.t.node[n].uid), Given(j.gid, j.t.node[n].gid)>>
  IN  /\ r.t.at = j.t.at
      /\ Keeps(j.t, r.t, mine, NodeField) /\ Keeps(j.t, r.t, {}, ModeField)
      /\ r.ok => \A n \in reached : given(n)
      /\ j.cmd = "chgrp" /\ j.gid \in {-1, j.t.me} => \A n \in mine : given(n)

(* A file loses its last name only to -f, at the name of a link; and a     *)
(* relative link leads where its target is.                                *)
NoLinksAbove(t, p) == \A n \in 1 .. Len(p) - 1 : ~IsKind(t, Begin(p, n), "link")
LnIsRight(j, r, pairs) ==
  LET names == {LstatOf(j.t, pairs[i][2]).p : i \in DOMAIN pairs}
      lost  == {j.t.at[p] : p \in DOMAIN j.t.at} \ {r.t.at[p] : p \in DOMAIN r.t.at}
      alone(i) == \A k \in DOMAIN pairs : pairs[k][1] # pairs[i][2] /\ (k # i => pairs[k][2] # pairs[i][2])
      Points(i) ==
        IF "s" \notin j.opts THEN LstatOf(r.t, pairs[i][2]).there /\ r.t.at[LstatOf(r.t, pairs[i][2]).p] = j.t.at[LstatOf(j.t, pairs[i][1]).p]
        ELSE "r" \in j.opts /\ NoLinksAbove(j.t, Rooted(pairs[i][1])) /\ NoLinksAbove(j.t, Rooted(pairs[i][2]))
             => StatOf(r.t, pairs[i][2]) = StatOf(r.t, pairs[i][1])
  IN  /\ \A n \in lost : "f" \in j.opts /\ \E p \in names \cap DOMAIN j.t.at : j.t.at[p] = n
      /\ \A p \in DOMAIN j.t.at \ names : p \in DOMAIN r.t.at /\ r.t.at[p] = j.t.at[p]
      /\ Keeps(j.t, r.t, {}, NodeField)
      /\ r.ok => \A i \in DOMAIN pairs : alone(i) => Points(i)

(* install writes the places it was told and no others; with a backup,     *)
(* what was there is still there under some name; and what it installed    *)
(* has the data and the mode.  Not claimed is a mode with setuid, setgid   *)
(* or sticky: install.go:86 sets it as chmod does, the code drops the bit. *)
SpecialAsked(mode) == mode # NoSpecial(mode)
InstallIsRight(j, r) ==
  LET src(i)  == j.srcs[i]
      out(i)  == InstallOut(j, src(i))
      outs    == IF "d" \in j.opts THEN j.srcs ELSE [i \in DOMAIN j.srcs |-> out(i)]
      told    == InodesAt(j.t, outs)
      held(t) == {t.node[t.at[p]].data : p \in DOMAIN t.at}
      backups == {NodeAt(j.t, p).data : p \in {p \in DOMAIN j.t.at : \E o \in ToSet(outs) : p = Suffixed(o, "~")}}
      Installed(i) ==
        LET w == StatOf(r.t, out(i)) IN
        /\ w.there /\ (NodeAt(r.t, w.p).mode = j.mode \/ SpecialAsked(j.mode))
        /\ InodeAt(j.t, src(i)) \cap told = {} => NodeAt(r.t, w.p).data = NodeAt(j.t, StatOf(j.t, src(i)).p).data
  IN  /\ Keeps(j.t, r.t, told, NodeField)
      /\ j.backup # "none" => held(j.t) \ backups \subseteq held(r.t)
      /\ r.ok /\ "d" \notin j.opts => \A i \in DOMAIN j.srcs : (\A k \in DOMAIN j.srcs : k > i => out(k) # out(i)) => Installed(i)
      /\ r.ok /\ "d" \in j.opts => \A i \in DOMAIN j.srcs :
           LET w == StatOf(r.t, src(i)) IN IsDirAt(r.t, w) /\ (NodeAt(r.t, w.p).mode = j.mode \/ SpecialAsked(j.mode))

(* cp changes what is in its destination and nothing else, and a source of *)
(* one name not at all, were it its own destination; and a copy of a       *)
(* tree that was not there is like the tree, with its links kept or        *)
(* followed as was asked.                                                  *)
CpIsRight(j, r) ==
  LET src  == j.srcs[1]
      dest == j.dest
      inside == UNION {InodeAt(j.t, p) : p \in {dest \o q : q \in {SubSeq(p, k, Len(p)) : p \in DOMAIN j.t.at, k \in 1 .. 3}}}
      fresh == Len(j.srcs) = 1 /\ ~LstatOf(j.t, dest).there /\ "parents" \notin j.opts /\ LstatOf(j.t, src) = StatOf(j.t, src)
      keepsLinks == j.deref \in {"never", "cmdline"}
      Like(p) ==
        LET q == LstatOf(r.t, dest \o SubSeq(p, Len(src) + 1, Len(p)))
            end == StatOf(j.t, p)
        IN  IF IsKind(j.t, p, "link") /\ ~keepsLinks /\ IsDirAt(j.t, end) THEN ~q.there
            ELSE /\ q.there
                 /\ LET n == NodeAt(j.t, IF keepsLinks THEN p ELSE end.p) IN
                    NodeAt(r.t, q.p).kind = n.kind /\ NodeAt(r.t, q.p).data = n.data /\ NodeAt(r.t, q.p).to = n.to
      only(n) == \A p, q \in DOMAIN j.t.at : InodeAt(j.t, p) = {n} /\ InodeAt(j.t, q) = {n} => p = q
  IN  /\ Keeps(j.t, r.t, inside, NodeField)
      /\ Len(j.srcs) = 1 => \A n \in InodeAt(j.t, src) : only(n) => r.t.node[n] = j.t.node[n]
      /\ \A p \in DOMAIN j.t.at : ~IsPrefix(Rooted(dest), p) => p \in DOMAIN r.t.at /\ r.t.at[p] = j.t.at[p]
      /\ r.ok /\ fresh => \A p \in DOMAIN j.t.at : IsPrefix(src, p) => Like(p)

(* touch changes no data and no times but those of its operands, and makes *)
(* what is missing unless -c; -a leaves the time of modification.  That -m *)
(* changes only that time (touch.go:61) is claimed where the two are one:  *)
(* the code gives the time of access the old time of modification.         *)
AccessLost(node) == node.atime # node.mtime
TouchIsRight(j, r) ==
  /\ Keeps(j.t, r.t, {}, DataField)
  /\ \A n \in DOMAIN j.t.node :
       TimeField(r.t.node[n]) = TimeField(j.t.node[n])
       \/ n \in InodesAt(j.t, j.paths) \/ ("h" \in j.opts /\ \E p \in ToSet(j.paths) : LstatOf(j.t, p).there /\ j.t.at[LstatOf(j.t, p).p] = n)
  /\ \A p \in DOMAIN j.t.at : r.t.at[p] = j.t.at[p]
  /\ "c" \in j.opts => r.t.at = j.t.at
  /\ r.ok /\ "c" \notin j.opts => \A p \in ToSet(j.paths) : LstatOf(r.t, p).there
  /\ \A p \in ToSet(j.paths) : LstatOf(j.t, p) = StatOf(j.t, p) /\ LstatOf(j.t, p).there =>
       \A n \in InodeAt(j.t, p) : (\A q \in ToSet(j.paths) : q # p => n \notin InodeAt(j.t, q)) =>
         /\ "a" \in j.opts /\ "m" \notin j.opts => r.t.node[n].mtime = j.t.node[n].mtime
         /\ "m" \in j.opts /\ "a" \notin j.opts => r.t.node[n].atime = j.t.node[n].atime \/ AccessLost(j.t.node[n])

(* truncate keeps the beginning of a file and adds zeros, to the size that *)
(* was meant when 64 bits hold it.                                         *)
Meant(size, cur) ==
  Max({0, CASE size.sign = "+" -> cur + size.n * size.unit [] size.sign = "-" -> cur - size.n * size.unit [] size.sign = "" -> size.n * size.unit})
SizesAreRight(j, r) ==
  /\ \A n \in DOMAIN j.t.node :
       LET old == j.t.node[n].data  new == r.t.node[n].data IN
       n \notin InodesAt(j.t, j.paths) => new = old
  /\ r.ok /\ Len(j.paths) = 1 /\ j.size.n * j.size.unit < 2 ^ (SizeBits - 1) - 8 =>
       \A n \in InodesAt(r.t, j.paths) :
         LET old == IF n \in DOMAIN j.t.node THEN j.t.node[n].data ELSE <<>>
             new == r.t.node[n].data
         IN  /\ Len(new) = Meant(j.size, Len(old))
             /\ \A i \in DOMAIN new : new[i] = IF i <= Len(old) THEN old[i] ELSE 0
  /\ "c" \in j.opts => r.t.at = j.t.at

(* Nothing of a shredded file is left, under any of its names, once one    *)
(* pass was made; what could not be shredded does not keep the rest.       *)
ShredIsRight(j, r) ==
  LET written == {n \in InodesAt(j.t, j.paths) : j.t.node[n].kind = "file" /\ (j.t.me = 0 \/ <<ClassOf(j.t, j.t.node[n]), "w">> \in j.t.node[n].mode)} IN
  /\ Keeps(j.t, r.t, written, NodeField)
  /\ Passes(j) # <<>> => \A n \in written :
       ToSet(r.t.node[n].data) \cap ToSet(j.t.node[n].data) = {} /\ ("u" \notin j.opts => Len(r.t.node[n].data) = Len(j.t.node[n].data))
  /\ "z" \in j.opts => \A n \in written : ToSet(r.t.node[n].data) \subseteq {0}
  /\ r.ok => InodesAt(j.t, j.paths) \subseteq written
  /\ "u" \notin j.opts => r.t.at = j.t.at

(* mkdir and rmdir change no file; rmdir takes no directory with contents; *)
(* a directory that mkdir made has the mode.  Not claimed is a mode that   *)
(* the umask cuts or with setuid, setgid or sticky: mkdir.go:38 sets the   *)
(* mode as chmod does, without the umask; the code gives it to mkdir(2).   *)
CutByMkdir(mode) == mode \cap Umask # {} \/ SpecialAsked(mode)
DirsAreRight(j, r) ==
  /\ Keeps(j.t, r.t, {}, NodeField)
  /\ \A p \in DOMAIN j.t.at : p \in DOMAIN r.t.at \/ (j.cmd = "rmdir" /\ IsKind(j.t, p, "dir"))
  /\ \A p \in DOMAIN r.t.at : p = <<>> \/ Up(p) \in DOMAIN r.t.at
  /\ r.ok /\ j.cmd = "mkdir" => \A p \in ToSet(j.paths) :
       LET w == StatOf(r.t, p) IN IsDirAt(r.t, w) /\ (w.p \in DOMAIN j.t.at \/ CutByMkdir(j.mode) \/ NodeAt(r.t, w.p).mode = j.mode)
  /\ r.ok /\ j.cmd = "rmdir" => \A p \in ToSet(j.paths) : \A n \in (IF j.deep THEN 1 ELSE Len(p)) .. Len(p) : ~LstatOf(r.t, Begin(p, n)).there

(* A temporary file is new, and its owner's alone.                         *)
TempIsRight(j, r) ==
  LET new == DOMAIN r.t.at \ DOMAIN j.t.at IN
  /\ Keeps(j.t, r.t, {}, NodeField) /\ DOMAIN j.t.at \subseteq DOMAIN r.t.at
  /\ r.ok /\ ~j.dry => \E p \in new : new = {p} /\ \A b \in NodeAt(r.t, p).mode : b[1] = "u"
  /\ ~r.ok \/ j.dry => r.t = j.t

(* The devices of a row have numbers of their own, and none takes the      *)
(* place of another file.                                                  *)
DevicesAreRight(j, r) ==
  LET new == DOMAIN r.t.at \ DOMAIN j.t.at
      devs(row) == {p \in new : Up(p) = Up(j.root \o row.path) /\ NodeAt(r.t, p).kind = row.type}
  IN  /\ Keeps(j.t, r.t, {}, NodeField)
      /\ \A p \in DOMAIN j.t.at : p \in DOMAIN r.t.at /\ r.t.at[p] = j.t.at[p]
      /\ r.ok => \A i \in {k \in DOMAIN j.rows : j.rows[k].type \in {"char", "block"}} :
           /\ Cardinality(devs(j.rows[i])) >= Max({1, j.rows[i].count})
           /\ \A p, q \in devs(j.rows[i]) : p # q => NodeAt(r.t, p).data # NodeAt(r.t, q).data

(* Every output that opened and did not break has all of the input, unless *)
(* an error was to end tee; one that ends well left none without; and none *)
(* fails for a pipe that broke, where those are ignored.  Of the two modes *)
(* that end tee, nothing is claimed of a pipe that breaks: by tee.go:37-40 *)
(* it is no error to them, but the code stops there and fails.             *)
PipeEnds(j) == ExitsOnError(j.mode) /\ \E out \in ToSet(j.outs) : out.pipe /\ out.breaks \in 1 .. j.chunks
TeeIsRight(j, r) ==
  LET breaks(out)   == out.breaks \in 1 .. j.chunks
      harmless(out) == out.opens /\ (~breaks(out) \/ (IgnoresPipe(j.mode) /\ out.pipe))
  IN  /\ \A i \in DOMAIN j.outs :
           LET out == j.outs[i] IN
           /\ r.got[i] <= (IF ~out.opens THEN 0 ELSE IF breaks(out) THEN out.breaks - 1 ELSE j.chunks)
           /\ ~ExitsOnError(j.mode) /\ out.opens /\ ~breaks(out) => r.got[i] = j.chunks
           /\ r.ok => r.got[i] = j.chunks \/ harmless(out)
      /\ (\A out \in ToSet(j.outs) : harmless(out)) => r.ok \/ PipeEnds(j)

TreesAreRight ==
  CASE changer = "chmod"    -> ChmodIsRight(job, done, Reach(job.t, job, WalkDir))
    [] changer = "chown"    -> OwnersAreRight(job, done, Reach(job.t, job, WalkTree))
    [] changer = "ln"       -> LnIsRight(job, done, LnPairs(job))
    [] changer = "install"  -> InstallIsRight(job, done)
    [] changer = "cp"       -> CpIsRight(job, done)
    [] changer = "touch"    -> TouchIsRight(job, done)
    [] changer = "truncate" -> SizesAreRight(job, done)
    [] changer = "shred"    -> ShredIsRight(job, done)
    [] changer = "dirs"     -> DirsAreRight(job, done)
    [] changer = "mktemp"   -> TempIsRight(job, done)
    [] changer = "makedevs" -> DevicesAreRight(job, done)
    [] changer = "tee"      -> TeeIsRight(job, done)
    [] changer = "none"     -> TRUE
=============================================================================
