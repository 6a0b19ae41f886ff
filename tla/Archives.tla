------------------------------- MODULE Archives -------------------------------
(***************************************************************************)
(* The applets that pack files and unpack them: tar, unzip, dpkg and       *)
(* dpkg-deb, cpio, ar, lzop, rpm, makemime and reformime.  What is packed  *)
(* is unpacked in another place, whole, cut off or damaged.                *)
(*                                                                         *)
(* A tree is a function from paths, sequences of names from the current    *)
(* directory <<>> (of dpkg: from the root), to nodes.  A node has a kind,  *)
(* "dir", "file", "link" or "pipe"; whether its owner may write it; a      *)
(* file's data; and a link's target.  A target from the root begins with   *)
(* the name "/".  No name in an archive lies below a link.                 *)
(***************************************************************************)
EXTENDS Integers, FiniteSets, SequencesExt

CONSTANTS
  TarJobs,     \* [tree, base, paths, file, dest, there]
  UnpackJobs,  \* [how, entries, dest, there]
  CpioJobs,    \* [tree, names, cut, there]
  ArJobs,      \* [files, cut, wanted]
  ControlJobs, \* [entries]: of a control tarball
  LzopJobs,    \* [chunks, fault]
  RpmJobs,     \* [base, dirs, index]
  MimeJobs,    \* [files]: a sequence of their data
  Order,       \* the names in lexical order
  NameField,   \* characters of ar's name field (16)
  MimeLine     \* characters of a line of base64 (76)

ASSUME ArchiveAssumption == NameField \in Nat \ {0} /\ MimeLine \in {4 * n : n \in 1 .. 19}

VARIABLES
  packer,         \* "none", or the applet that was run
  packed, result  \* its input and what came of it

arcvars == <<packer, packed, result>>

Node(kind, w, data, to) == [kind |-> kind, w |-> w, data |-> data, to |-> to]
DirNode(w)        == Node("dir", w, <<>>, <<>>)
FileNode(w, data) == Node("file", w, data, <<>>)
Up(p) == SubSeq(p, 1, Len(p) - 1)
Begin(s, n) == SubSeq(s, 1, IF n > Len(s) THEN Len(s) ELSE n)
With(t, p, node)  == [q \in DOMAIN t \cup {p} |-> IF q = p THEN node ELSE t[q]]
Without(t, p)     == [q \in DOMAIN t \ {p} |-> t[q]]
RankIn(name) == SelectInSeq(Order, LAMBDA n : n = name)
RECURSIVE Sorted(_)
Sorted(S) ==
  IF S = {} THEN <<>>
  ELSE LET first == CHOOSE n \in S : \A o \in S : RankIn(n) <= RankIn(o) IN <<first>> \o Sorted(S \ {first})

(* filepath.Clean of a relative path. *)
Clean(p) ==
  FoldLeft(LAMBDA q, n : IF n = "." THEN q
                         ELSE IF n = ".." /\ q # <<>> /\ Last(q) # ".." THEN Up(q) ELSE Append(q, n), <<>>, p)

(* System calls: whether all went well, and the tree they left.            *)
State(ok, t) == [ok |-> ok, t |-> t]
Fails(r) == [r EXCEPT !.ok = FALSE]
MayAdd(t, p) == Up(p) \in DOMAIN t /\ t[Up(p)].kind = "dir" /\ t[Up(p)].w
Add(r, p, node) == IF r.ok /\ MayAdd(r.t, p) THEN State(TRUE, With(r.t, p, node)) ELSE Fails(r)
RECURSIVE MkdirAll(_, _, _)
MkdirAll(r, p, w) ==
  IF ~r.ok THEN r
  ELSE IF p \in DOMAIN r.t THEN State(r.t[p].kind = "dir", r.t)
  ELSE Add(MkdirAll(r, Up(p), w), p, DirNode(w))
(* Opened for writing, and cut: the mode of a file that is there stays.    *)
Overwrite(r, p, w, data) ==
  IF p \notin DOMAIN r.t THEN Add(r, p, FileNode(w, data))
  ELSE IF r.t[p].kind = "file" /\ r.t[p].w THEN State(TRUE, [r.t EXCEPT ![p].data = data]) ELSE Fails(r)
Followed(t, p) == IF p \in DOMAIN t /\ t[p].kind = "link" THEN Clean(Up(p) \o t[p].to) ELSE p
WriteFile(r, p, w, data) == IF r.ok THEN Overwrite(r, Followed(r.t, p), w, data) ELSE r
Symlink(r, p, to) == IF to = <<>> \/ p \in DOMAIN r.t THEN Fails(r) ELSE Add(r, p, Node("link", TRUE, <<>>, to))
Below(t, p) == {q \in DOMAIN t : IsStrictPrefix(p, q)}
(* os.Remove, whose error is ignored.                                      *)
Removed(r, p) ==
  IF p \in DOMAIN r.t /\ MayAdd(r.t, p) /\ Below(r.t, p) = {} THEN [r EXCEPT !.t = Without(@, p)] ELSE r

-----------------------------------------------------------------------------
(* tar. An entry is a node with a name.                                    *)

Item(name, node) == [name |-> name, kind |-> node.kind, w |-> node.w, data |-> node.data, to |-> node.to]
Children(t, p) == {q[Len(p) + 1] : q \in {q \in Below(t, p) : Len(q) = Len(p) + 1}}

(* filepath.Walk: a directory, and what is in it, in lexical order.        *)
RECURSIVE Walk(_, _)
WalkEach(t, p, names) == FlattenSeq([i \in DOMAIN names |-> Walk(t, Append(p, names[i]))])
Walk(t, p) == <<p>> \o IF t[p].kind = "dir" THEN WalkEach(t, p, Sorted(Children(t, p))) ELSE <<>>
(* The header of a link is made without its target.                        *)
Header(t, base, p) == [Item(SubSeq(p, Len(base) + 1, Len(p)), t[p]) EXCEPT !.to = <<>>]
(* The archive is a file of the tree when it lies in it: it grows while it *)
(* is copied, past the size its header has.                                *)
Headers(job, walk) == [i \in DOMAIN walk |-> Header(job.tree, job.base, walk[i])]
AddWalk(made, job, walk) ==
  IF job.file \in ToSet(walk) THEN [made EXCEPT !.ok = FALSE] ELSE [made EXCEPT !.entries = @ \o Headers(job, walk)]
AddPath(made, job, root) ==
  IF made.ok /\ root \in DOMAIN job.tree THEN AddWalk(made, job, Walk(job.tree, root)) ELSE [made EXCEPT !.ok = FALSE]
Create(job) ==
  FoldLeft(LAMBDA made, path : AddPath(made, job, Clean(job.base \o path)), [ok |-> job.paths # <<>>, entries |-> <<>>], job.paths)

(* safeJoin compares with the directory's name and a separator: of "." and *)
(* of the root, nothing passes but the directory itself.                   *)
Inside(dest, target) == target = dest \/ (dest # <<>> /\ IsStrictPrefix(dest, target))
TarEntry(r, target, h) ==
  CASE h.kind = "dir"  -> MkdirAll(r, target, h.w)
    [] h.kind = "file" -> WriteFile(MkdirAll(r, Up(target), TRUE), target, h.w, h.data)
    [] h.kind = "link" -> Symlink(r, target, h.to)
    [] h.kind \in {"pipe", "hard"} -> r
ExtractEntry(r, dest, h) ==
  IF Inside(dest, Clean(dest \o h.name)) THEN TarEntry(r, Clean(dest \o h.name), h) ELSE Fails(r)
Extract(entries, dest, t) ==
  FoldLeft(LAMBDA r, h : IF r.ok THEN ExtractEntry(r, dest, h) ELSE r, State(TRUE, t), entries)
(* What is made is unpacked elsewhere.                                     *)
Elsewhere(made, job) ==
  [made |-> made, out |-> IF made.ok THEN Extract(made.entries, job.dest, job.there) ELSE State(FALSE, job.there)]
Tar(job) == Elsewhere(Create(job), job)

(* unzip: an entry is a directory or is written as a file.                 *)
UnzipEntry(r, target, h) ==
  IF h.kind = "dir" THEN MkdirAll(r, target, h.w)
  ELSE WriteFile(MkdirAll(r, Up(target), TRUE), target, h.w, h.data)
ExtractFile(r, dest, h) ==
  IF Inside(dest, Clean(dest \o h.name)) THEN UnzipEntry(r, Clean(dest \o h.name), h) ELSE Fails(r)

-----------------------------------------------------------------------------
(* dpkg -x and dpkg-deb -x. A "hard" entry's target is a name in the       *)
(* archive; a link's must stay below the directory the link is in.         *)

SafeJoin(base, name) == (name = <<>> \/ name[1] # "/") /\ Inside(base, Clean(base \o name))
HardLink(r, target, from) ==
  IF from \in DOMAIN r.t /\ r.t[from].kind # "dir" THEN Add(r, target, r.t[from]) ELSE Fails(r)
Replaced(r, target) == Removed(MkdirAll(r, Up(target), TRUE), target)
DebEntry(r, dest, target, h) ==
  CASE h.kind = "dir"  -> MkdirAll(r, target, h.w)
    [] h.kind = "file" -> WriteFile(MkdirAll(r, Up(target), TRUE), target, h.w, h.data)
    [] h.kind = "link" -> IF SafeJoin(Up(target), h.to) THEN Symlink(Replaced(r, target), target, h.to) ELSE Fails(r)
    [] h.kind = "hard" -> IF SafeJoin(dest, h.to) THEN HardLink(Replaced(r, target), target, Clean(dest \o h.to)) ELSE Fails(r)
    [] h.kind = "pipe" -> r
ExtractData(r, dest, h) ==
  IF ~r.ok THEN r
  ELSE IF SafeJoin(dest, h.name) THEN DebEntry(r, dest, Clean(dest \o h.name), h) ELSE Fails(r)
Dpkg(entries, dest, t) ==
  FoldLeft(LAMBDA r, h : ExtractData(r, dest, h), MkdirAll(State(TRUE, t), dest, TRUE), entries)

Unpack(job) ==
  CASE job.how = "tar"   -> Extract(job.entries, job.dest, job.there)
    [] job.how = "unzip" -> FoldLeft(LAMBDA r, h : IF r.ok THEN ExtractFile(r, job.dest, h) ELSE r, State(TRUE, job.there), job.entries)
    [] job.how = "dpkg"  -> Dpkg(job.entries, job.dest, job.there)

(* dpkg-deb -e: each name that is no directory, with the data of the first *)
(* entry of that name.                                                     *)
ControlNames(entries) == SelectSeq(entries, LAMBDA h : h.kind # "dir")
ControlFile(entries, name) == entries[SelectInSeq(entries, LAMBDA h : h.name = name)].data
ExtractControl(entries) ==
  FoldLeft(LAMBDA r, h : WriteFile(MkdirAll(r, Up(h.name), TRUE), h.name, TRUE, ControlFile(entries, h.name)),
           State(TRUE, <<>> :> DirNode(TRUE)), ControlNames(entries))

-----------------------------------------------------------------------------
(* cpio.  An archive is a sequence of tokens <<what, value>>; a header has *)
(* HeaderSize of them (110, which leaves the same remainder by four).      *)

HeaderSize == 6
Trailer == <<"TRAILER!!!">>
Pad(n) == [i \in 1 .. (4 - (n % 4)) % 4 |-> <<"pad", 0>>]
WriteEntry(name, dir, w, data) ==
  << <<"hdr", [dir |-> dir, w |-> w, nameSize |-> Len(name) + 1, fileSize |-> Len(data)]>> >>
  \o [i \in 1 .. HeaderSize - 1 |-> <<"field", 0>>]
  \o [i \in DOMAIN name |-> <<"name", name[i]>>] \o << <<"nul", 0>> >> \o Pad(HeaderSize + Len(name) + 1)
  \o [i \in DOMAIN data |-> <<"data", data[i]>>] \o Pad(Len(data))
(* Links are followed; what is not there ends the archive without trailer. *)
AddName(made, t, name) ==
  IF ~made.ok \/ Followed(t, name) \notin DOMAIN t THEN [made EXCEPT !.ok = FALSE]
  ELSE LET node == t[Followed(t, name)] IN
       [made EXCEPT !.stream = @ \o WriteEntry(name, node.kind = "dir", node.w, node.data)]
CopyOut(t, names) ==
  LET made == FoldLeft(LAMBDA m, name : IF name = <<>> THEN m ELSE AddName(m, t, name), [ok |-> TRUE, stream |-> <<>>], names)
  IN  IF made.ok THEN [made EXCEPT !.stream = @ \o WriteEntry(Trailer, FALSE, FALSE, <<>>)] ELSE made

CpioEntry(r, name, h, data) ==
  IF h.dir THEN MkdirAll(r, name, TRUE) ELSE WriteFile(MkdirAll(r, Up(name), TRUE), name, h.w, data)
TokenValues(s, from, n) == [i \in 1 .. n |-> s[from + i - 1][2]]
(* One entry at pos; next is where the next header is.                     *)
RECURSIVE CopyIn(_, _, _)
ReadEntry(s, pos, r, h) ==
  LET nameAt == pos + HeaderSize
      dataAt == nameAt + h.nameSize + Len(Pad(HeaderSize + h.nameSize))
      next   == dataAt + h.fileSize + Len(Pad(h.fileSize))
      name   == TokenValues(s, nameAt, h.nameSize - 1)
  IN  IF dataAt > Len(s) + 1 THEN Fails(r)
      ELSE IF name = Trailer THEN r
      ELSE IF next > Len(s) + 1 THEN Fails(r)
      ELSE CopyIn(s, next, CpioEntry(r, name, h, TokenValues(s, dataAt, h.fileSize)))
CopyIn(s, pos, r) ==
  IF ~r.ok \/ pos = Len(s) + 1 THEN r
  ELSE IF pos + HeaderSize > Len(s) + 1 \/ s[pos][1] # "hdr" THEN Fails(r)
  ELSE ReadEntry(s, pos, r, s[pos][2])
CopiedIn(made, job) == [made |-> made, out |-> CopyIn(Begin(made.stream, job.cut), 1, State(TRUE, job.there))]
Cpio(job) == CopiedIn(CopyOut(job.tree, job.names), job)

-----------------------------------------------------------------------------
(* ar, and the reader of dpkg.  A name is a sequence of characters.        *)

ArName(name) == Begin(Append(name, "/"), NameField)
WriteMember(name, data) ==
  << <<"hdr", [name |-> ArName(name), size |-> Len(data)]>>, <<"field", 0>> >>
  \o [i \in DOMAIN data |-> <<"data", data[i]>>] \o (IF Len(data) % 2 = 1 THEN << <<"pad", 0>> >> ELSE <<>>)
(* The archive is made anew; a file that is not there ends it.             *)
CreateAr(files) ==
  FoldLeft(LAMBDA m, f : IF ~m.ok \/ f.missing THEN [m EXCEPT !.ok = FALSE] ELSE [m EXCEPT !.stream = @ \o WriteMember(f.name, f.data)],
           [ok |-> files # <<>>, stream |-> IF files = <<>> THEN <<>> ELSE << <<"magic", 0>> >>], files)
Unslashed(name) == IF Last(name) = "/" THEN Up(name) ELSE name
Corrupt == [ok |-> FALSE, members |-> <<>>]
RECURSIVE ReadMembers(_, _, _)
ReadMembers(s, pos, members) ==
  IF pos > Len(s) THEN [ok |-> TRUE, members |-> members]
  ELSE IF pos + 1 > Len(s) \/ s[pos][1] # "hdr" \/ pos + 1 + s[pos][2].size > Len(s) THEN Corrupt
  ELSE LET h == s[pos][2] IN
       ReadMembers(s, pos + 2 + h.size + (h.size % 2), Append(members, [name |-> Unslashed(h.name), data |-> TokenValues(s, pos + 2, h.size)]))
ReadArchive(s) == IF s = <<>> \/ s[1][1] # "magic" THEN Corrupt ELSE ReadMembers(s, 2, <<>>)
ExtractMembers(members, wanted) ==
  FoldLeft(LAMBDA t, m : IF wanted = {} \/ m.name \in wanted THEN With(t, m.name, m.data) ELSE t, <<>>, members)
Listed(made, read, job) == [made |-> made, read |-> read, files |-> ExtractMembers(read.members, job.wanted)]
Ar(job) == Listed(CreateAr(job.files), ReadArchive(Begin(CreateAr(job.files).stream, job.cut)), job)

-----------------------------------------------------------------------------
(* lzop.  A chunk that does not shrink is stored; one that does becomes    *)
(* one token.  A checksum is known by what it sums.                        *)

Lzo(src) == << <<"lzo", src>> >>
Payload(chunk) == IF chunk.shrinks THEN Lzo(chunk.data) ELSE [i \in DOMAIN chunk.data |-> <<"byte", chunk.data[i]>>]
WriteBlock(chunk) ==
  << <<"len", Len(chunk.data)>>, <<"len", Len(Payload(chunk))>>, <<"sum", chunk.data>> >>
  \o (IF chunk.shrinks THEN << <<"sum", Payload(chunk)>> >> ELSE <<>>) \o Payload(chunk)
CompressStream(chunks) ==
  << <<"header", 0>> >> \o FlattenSeq([i \in DOMAIN chunks |-> WriteBlock(chunks[i])]) \o << <<"len", 0>> >>
Unpacked(payload, stored) ==
  IF stored THEN TokenValues(payload, 1, Len(payload)) ELSE IF payload[1][1] = "lzo" THEN payload[1][2] ELSE <<>>
RECURSIVE ReadBlocks(_, _, _)
SummedNot(s, next, out, sum, data) == ReadBlocks(s, next, out \o data)   \* mutant: the sum is not compared
Summed(s, next, out, sum, data) ==
  IF sum = <<"sum", data>> THEN ReadBlocks(s, next, out \o data) ELSE [ok |-> FALSE, bytes |-> out]
CheckBlock(s, next, out, sums, payload, stored) ==
  IF ~stored /\ sums[2] # <<"sum", payload>> THEN [ok |-> FALSE, bytes |-> out]
  ELSE Summed(s, next, out, sums[1], Unpacked(payload, stored))
ReadBlock(s, pos, out, n, m) ==
  LET sums == IF m < n THEN 2 ELSE 1
      at   == pos + 2 + sums
  IN  IF m = 0 \/ m > n \/ at + m > Len(s) + 1 THEN [ok |-> FALSE, bytes |-> out]
      ELSE CheckBlock(s, at + m, out, SubSeq(s, pos + 2, at - 1), SubSeq(s, at, at + m - 1), m = n)
ReadBlocks(s, pos, out) ==
  IF pos > Len(s) \/ s[pos][2] = 0 THEN [ok |-> TRUE, bytes |-> out]
  ELSE IF pos = Len(s) THEN [ok |-> FALSE, bytes |-> out]
  ELSE ReadBlock(s, pos, out, s[pos][2], s[pos + 1][2])
DecompressStream(s) ==
  IF s = <<>> \/ s[1] # <<"header", 0>> THEN [ok |-> FALSE, bytes |-> <<>>] ELSE ReadBlocks(s, 2, <<>>)
(* The stream is cut behind its at-th token, or that token is damaged.     *)
Damaged(s, fault) ==
  CASE fault.kind = "none" -> s
    [] fault.kind = "cut"  -> Begin(s, fault.at)
    [] fault.kind = "flip" -> [i \in DOMAIN s |-> IF i = fault.at /\ s[i][1] # "len" THEN <<"flipped", 0>> ELSE s[i]]
Lzop(job) == DecompressStream(Damaged(CompressStream(job.chunks), job.fault))

-----------------------------------------------------------------------------
(* rpm -qpl: strings that end with "nul", one after another in the store.  *)

Store(strings) == FlattenSeq([i \in DOMAIN strings |-> Append(strings[i], "nul")])
Cstr(store, off) ==
  LET rest == SubSeq(store, off + 1, Len(store))
      end  == SelectInSeq(rest, LAMBDA c : c = "nul")
  IN  IF end = 0 THEN rest ELSE SubSeq(rest, 1, end - 1)
RECURSIVE StringArray(_, _, _)
StringArray(store, off, count) ==
  IF count = 0 \/ off >= Len(store) THEN <<>>
  ELSE <<Cstr(store, off)>> \o StringArray(store, off + Len(Cstr(store, off)) + 1, count - 1)
InDir(dirs, index, i) == IF i <= Len(index) /\ index[i] \in 0 .. Len(dirs) - 1 THEN dirs[index[i] + 1] ELSE <<>>
FileNames(base, dirs, index) == [i \in DOMAIN base |-> InDir(dirs, index, i) \o base[i]]
FilesIn(store, job) ==
  FileNames(StringArray(store, 0, Len(job.base)), StringArray(store, Len(Store(job.base)), Len(job.dirs)), job.index)
FileList(job) == FilesIn(Store(job.base \o job.dirs), job)

-----------------------------------------------------------------------------
(* makemime and reformime.  Base64 makes four symbols of up to three       *)
(* bytes: <<group, k>> is the k-th of a group.                             *)

Groups(data) == [g \in 1 .. (Len(data) + 2) \div 3 |-> SubSeq(Begin(data, 3 * g), 3 * g - 2, Len(Begin(data, 3 * g)))]
Base64(data) == FlattenSeq([g \in DOMAIN Groups(data) |-> [k \in 1 .. 4 |-> <<Groups(data)[g], k>>]])
CRLF == <<"crlf">>
RECURSIVE Base64Lines(_)
Base64Lines(encoded) ==
  IF Len(encoded) > MimeLine
  THEN SubSeq(encoded, 1, MimeLine) \o <<CRLF>> \o Base64Lines(SubSeq(encoded, MimeLine + 1, Len(encoded)))
  ELSE Append(encoded, CRLF)
(* One part, or a part between boundaries for each file.                   *)
Build(files) == [i \in DOMAIN files |-> Base64Lines(Base64(files[i]))]
Decodes(clean) ==
  /\ Len(clean) % 4 = 0
  /\ \A i \in DOMAIN clean : clean[i] = <<clean[4 * ((i - 1) \div 4) + 1][1], ((i - 1) % 4) + 1>>
Decoded(body, clean) ==
  IF Decodes(clean) THEN FlattenSeq([g \in 1 .. Len(clean) \div 4 |-> clean[4 * g][1]]) ELSE body
DecodeBody(body) == Decoded(body, SelectSeq(body, LAMBDA c : c # CRLF))
Reformime(parts) == [i \in DOMAIN parts |-> DecodeBody(parts[i])]

-----------------------------------------------------------------------------
(* What the archivers promise.                                             *)

(* Nothing is made, changed or removed beside dest and the way to it.      *)
Beside(dest, before, after) ==
  /\ \A q \in DOMAIN before : ~IsPrefix(dest, q) => q \in DOMAIN after /\ after[q] = before[q]
  /\ \A q \in DOMAIN after \ DOMAIN before : IsPrefix(dest, q) \/ IsPrefix(q, dest)
Alike(n, m) == n.kind = m.kind /\ n.data = m.data

(* An archive made and unpacked without an error is a copy of all files    *)
(* and directories; there is none when the tree has links, and one when    *)
(* nothing is in the way.                                                  *)
TarIsRight(job, r) ==
  LET archived == {q \in DOMAIN job.tree : \E k \in DOMAIN job.paths : IsPrefix(Clean(job.base \o job.paths[k]), q)}
      Copy(q)  == job.dest \o SubSeq(q, Len(job.base) + 1, Len(q))
      simple   == \A q \in archived : job.tree[q].kind # "link" /\ (job.tree[q].kind = "dir" => job.tree[q].w)
      free     == job.dest # <<>> /\ job.there = (<<>> :> DirNode(TRUE))
  IN  /\ Beside(job.dest, job.there, r.out.t)
      /\ r.made.ok => job.file \notin archived
      /\ r.out.ok =>
           \A q \in archived :
             /\ job.tree[q].kind # "link"
             /\ job.tree[q].kind # "pipe" => Copy(q) \in DOMAIN r.out.t /\ Alike(r.out.t[Copy(q)], job.tree[q])
      /\ r.made.ok /\ simple /\ free => r.out.ok

(* Whoever unpacks leaves the rest alone, and says so when a file was not  *)
(* unpacked; dpkg leaves no link that leads out of dest.                   *)
UnpackIsRight(job, r) ==
  LET target(k) == Clean(job.dest \o job.entries[k].name)
      final(k)  == \A i \in DOMAIN job.entries : i > k => target(i) # target(k)
  IN  /\ Beside(job.dest, job.there, r.t)
      /\ r.ok => \A k \in {i \in DOMAIN job.entries : job.entries[i].kind \in {"file", "dir"} /\ final(i)} :
                   target(k) \in DOMAIN r.t /\ Alike(r.t[target(k)], job.entries[k])
      /\ job.how = "dpkg" => \A q \in {p \in DOMAIN r.t \ DOMAIN job.there : r.t[p].kind = "link"} :
                               IsPrefix(job.dest, Clean(Up(q) \o r.t[q].to))

(* Cut anywhere, an archive gives back its first names, each whole.        *)
CpioIsRight(job, r) ==
  LET node(k) == job.tree[Followed(job.tree, job.names[k])]
      Is(k, kind) == Followed(job.tree, job.names[k]) \in DOMAIN job.tree /\ node(k).kind = kind
      Back(n) ==
        \A k \in 1 .. n :
          /\ job.names[k] \in DOMAIN r.out.t
          /\ Is(k, "dir") => r.out.t[job.names[k]].kind = "dir"
          /\ Is(k, "file") => Alike(r.out.t[job.names[k]], node(k))
      Named(q) == q \in DOMAIN job.there \/ \E k \in DOMAIN job.names : IsPrefix(q, job.names[k])
      Files == {k \in DOMAIN job.names : Is(k, "file")}
  IN  /\ \A q \in DOMAIN r.out.t : Named(q)
      /\ \A k \in {n \in Files : job.names[n] \in DOMAIN r.out.t} :
           (job.names[k] \in DOMAIN job.there /\ r.out.t[job.names[k]] = job.there[job.names[k]]) \/ Back(k)
      /\ r.out.ok /\ job.cut >= Len(r.made.stream) /\ r.made.ok => Back(Len(job.names))

(* ar: the members of a cut archive are the first ones, whole; the last of *)
(* a name is the file.                                                     *)
ArIsRight(job, r) ==
  LET known == SelectSeq(job.files, LAMBDA f : ~f.missing)
      short(name) == Begin(name, NameField)
  IN  /\ \A k \in DOMAIN r.read.members : r.read.members[k] = [name |-> short(known[k].name), data |-> known[k].data]
      /\ r.made.ok /\ job.cut >= Len(r.made.stream) => r.read.ok /\ Len(r.read.members) = Len(job.files)
      /\ \A n \in DOMAIN r.files : \E k \in DOMAIN r.read.members :
           short(known[k].name) = n /\ r.files[n] = known[k].data
           /\ \A i \in DOMAIN r.read.members : i > k => short(known[i].name) # n

(* A damaged stream gives its first blocks and an error; one that is cut   *)
(* before a block gives no error.                                          *)
LzopIsRight(job, r) ==
  LET blocks(n) == FlattenSeq([i \in 1 .. n |-> job.chunks[i].data])
      whole == blocks(Len(job.chunks))
  IN  /\ \E n \in 0 .. Len(job.chunks) : r.bytes = blocks(n)
      /\ job.fault.kind # "cut" /\ r.ok => r.bytes = whole
      /\ job.fault.kind = "none" => r.ok

(* The control files are those of the archive, whichever of a name is it.  *)
ControlIsRight(entries, t) ==
  /\ t.ok
  /\ \A k \in {i \in DOMAIN entries : entries[i].kind = "file"} :
       \E i \in 1 .. k : entries[i].name = entries[k].name /\ t.t[entries[k].name].data = entries[i].data
  /\ \A q \in DOMAIN t.t : t.t[q].kind = "file" => \E k \in DOMAIN entries : entries[k].name = q

-----------------------------------------------------------------------------
Nothing == [ok |-> TRUE]
ArcInit == packer = "none" /\ packed = Nothing /\ result = Nothing
Unpackaged == packer = "none"
Archived(name, job, r) == packer' = name /\ packed' = job /\ result' = r

RunTar     == Unpackaged /\ \E job \in TarJobs : Archived("tar", job, Tar(job))
RunUnpack  == Unpackaged /\ \E job \in UnpackJobs : Archived("unpack", job, Unpack(job))
RunControl == Unpackaged /\ \E job \in ControlJobs : Archived("control", job, ExtractControl(job.entries))
RunCpio    == Unpackaged /\ \E job \in CpioJobs : Archived("cpio", job, Cpio(job))
RunAr      == Unpackaged /\ \E job \in ArJobs : Archived("ar", job, Ar(job))
RunLzop    == Unpackaged /\ \E job \in LzopJobs : Archived("lzop", job, Lzop(job))
RunRpm     == Unpackaged /\ \E job \in RpmJobs : Archived("rpm", job, [paths |-> FileList(job)])
RunMime    == Unpackaged /\ \E job \in MimeJobs : Archived("mime", job, [bodies |-> Reformime(Build(job.files))])
ArcNext ==
  RunTar \/ RunUnpack \/ RunControl \/ RunCpio \/ RunAr \/ RunLzop \/ RunRpm \/ RunMime
ArcSpec == ArcInit /\ [][ArcNext]_arcvars

(* What was packed is what is unpacked; of an archive that is not whole,   *)
(* the first units.  lzop, cpio and ar take one that ends between two      *)
(* units for a whole one: there, no failure is claimed.                    *)
ArchivesAreRight ==
  CASE packer = "tar"     -> TarIsRight(packed, result)
    [] packer = "unpack"  -> UnpackIsRight(packed, result)
    [] packer = "control" -> ControlIsRight(packed.entries, result)
    [] packer = "cpio"    -> CpioIsRight(packed, result)
    [] packer = "ar"      -> ArIsRight(packed, result)
    [] packer = "lzop"    -> LzopIsRight(packed, result)
    [] packer = "rpm"     -> result.paths = [i \in DOMAIN packed.base |-> packed.dirs[packed.index[i] + 1] \o packed.base[i]]
    [] packer = "mime"    -> result.bodies = packed.files
    [] packer = "none"    -> TRUE

=============================================================================
