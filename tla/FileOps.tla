------------------------------- MODULE FileOps -------------------------------
(***************************************************************************)
(* mv, cp and rm (fileutils): a command works through its operands, each   *)
(* by stat calls and then by renames, copies and removals that are steps   *)
(* of their own.  At any step it may be killed or meet an error.           *)
(*                                                                         *)
(* A tree of files is a function from the paths that exist to what is      *)
(* there, a directory or a file's data with its time of modification.  A   *)
(* path is the sequence of its names from the root <<>>, and a name a      *)
(* sequence, so that a suffix can be put to it.  Permissions, links and    *)
(* special files are left out.                                             *)
(***************************************************************************)
EXTENDS Naturals, FiniteSets, SequencesExt

CONSTANTS
  Letters,    \* the characters of names
  Mounted,    \* the paths where file systems are mounted, the root among them
  Trees,      \* the trees a command may find
  FileJobs    \* commands: options are one letter each, "x" rm's --one-file-system

FilePaths == Seq(Seq(Letters))

(* Only cp knows --backup; the root has no name to put a suffix to.        *)
ASSUME FileJobAssumption ==
  \A j \in FileJobs :
    /\ j.cmd \in {"mv", "cp", "rm"}
    /\ j.srcs \in Seq(FilePaths) /\ j.srcs # <<>> /\ j.dest \in FilePaths
    /\ j.opts \subseteq {"n", "b", "f", "i", "u", "T", "r", "p", "d", "x"}
    /\ j.backup \in {"none", "simple", "numbered", "existing"}
    /\ j.cmd # "cp" => j.backup = "none"
    /\ "T" \in j.opts => j.dest # <<>>

VARIABLES
  tree, before,  \* the tree now, and when the command began
  fjob,          \* the command
  opc,           \* "new", "operand", "copy", "open", "write", "delete" or "done"
  operand,       \* the operand it is at
  src, dst,      \* what is copied or removed, and where to
  todo, file,    \* paths still to be copied, and the one under way
  errors         \* whether something failed

fovars == <<tree, before, fjob, opc, operand, src, dst, todo, file, errors>>

Dir    == <<"dir", 0>>
NoPath == << <<>> >>   \* the empty string as a path

Exists(t, p)  == p \in DOMAIN t
IsDir(t, p)   == Exists(t, p) /\ t[p] = Dir
IsFile(t, p)  == Exists(t, p) /\ t[p] # Dir
Parent(p)     == Front(p)
Join(p, name) == Append(p, name)
Rebase(p, from, to) == to \o SubSeq(p, Len(from) + 1, Len(p))

Under(t, p)   == {q \in DOMAIN t : IsPrefix(p, q)}
Entries(t, p) == {q \in DOMAIN t : IsStrictPrefix(p, q) /\ Len(q) = Len(p) + 1}
Device(p)     == {m \in Mounted : IsPrefix(m, p)}

Put(t, p, v)  == [q \in DOMAIN t \cup {p} |-> IF q = p THEN v ELSE t[q]]
Unlinked(t, S)   == [q \in DOMAIN t \ S |-> t[q]]

(* The path with n suffixes, and the path of its n-th numbered backup.     *)
Tilde(p, n)    == Join(Parent(p), Last(p) \o [i \in 1 .. n |-> "~"])
Numbered(p, n) == Join(Parent(p), Last(p) \o <<".">> \o [i \in 1 .. n |-> "i"])

(* The first of paths that is unused; there are more of them than files.   *)
FirstUnused(t, paths) == paths[Min({n \in DOMAIN paths : ~Exists(t, paths[n])})]
Numbers == 1 .. Cardinality(DOMAIN tree) + 1

(* os.Rename: never onto a directory; rename(2) works in one file system.  *)
MayRename(t, s, d) ==
  /\ Exists(t, s) /\ s \notin Mounted /\ ~IsStrictPrefix(s, d)
  /\ IsDir(t, s) => ~Exists(t, d)
SameDevice(s, d) == Device(Parent(s)) = Device(Parent(d))
MayExist(t, d) == d \notin {NoPath, <<>>} /\ IsDir(t, Parent(d)) /\ ~IsDir(t, d)

Renamed(t, s, d) ==
  IF s = d THEN t
  ELSE LET moved == Under(t, s)
           there == {Rebase(q, s, d) : q \in moved}
       IN  [q \in (DOMAIN t \ (moved \cup {d})) \cup there |->
              IF q \in there THEN t[Rebase(q, d, s)] ELSE t[q]]

(* MkdirAll, when it can be done: a file is in its way otherwise.          *)
Above(p) == {SubSeq(p, 1, n) : n \in 1 .. Len(p)}
MayMkdir(t, p) == \A q \in Above(p) : ~IsFile(t, q)
Mkdir(t, p)    == [q \in DOMAIN t \cup Above(p) |-> IF Exists(t, q) THEN t[q] ELSE Dir]

Files(t, p)    == {q \in Under(t, p) : IsFile(t, q)}
DataOf(t, P)   == {t[q][1] : q \in P}

(* What there is lies in directories, and all of it below the root.        *)
IsTree(t) ==
  /\ IsFiniteSet(DOMAIN t) /\ DOMAIN t \subseteq FilePaths /\ IsDir(t, <<>>)
  /\ \A p \in DOMAIN t : t[p][2] \in Nat /\ \A q \in Above(p) \ {p} : IsDir(t, q)

ASSUME TreeAssumption ==
  /\ {"~", ".", "i"} \subseteq Letters /\ <<>> \in Mounted
  /\ \A t \in Trees : IsTree(t)

-----------------------------------------------------------------------------
NoFileJob  == [cmd |-> "none", srcs |-> <<>>, dest |-> NoPath, opts |-> {}, backup |-> "none"]
NewerThanAll == 9      \* the time of modification of what is written now
Part       == <<"part", NewerThanAll>>   \* a file that is not yet written
Has(o)     == o \in fjob.opts
Operand    == fjob.srcs[operand]
Dest       == fjob.dest
Newer(s, d) == tree[s][2] > tree[d][2]

FileOpsInit ==
  /\ tree = [p \in {<<>>} |-> Dir] /\ before = tree /\ fjob = NoFileJob /\ opc = "new" /\ operand = 1
  /\ src = NoPath /\ dst = NoPath /\ todo = {} /\ file = NoPath /\ errors = FALSE

FileOpsStart ==
  /\ opc = "new" /\ opc' = "operand" /\ fjob' \in FileJobs
  /\ tree' \in Trees /\ before' = tree'
  /\ UNCHANGED <<operand, src, dst, todo, file, errors>>

-----------------------------------------------------------------------------
(* Ways a step may end: on to the next operand, with or without an error,  *)
(* or to the end of the command.                                           *)

Idle       == src' = NoPath /\ dst' = NoPath /\ todo' = {} /\ file' = NoPath
NextOne    == opc' = "operand" /\ operand' = operand + 1 /\ Idle /\ UNCHANGED errors
FailOne    == opc' = "operand" /\ operand' = operand + 1 /\ Idle /\ errors' = TRUE
Quit       == opc' = "done" /\ Idle /\ errors' = TRUE /\ UNCHANGED operand
(* mv and rm go on after an error, cp does not.                            *)
FailOrQuit == IF fjob.cmd = "cp" THEN Quit ELSE FailOne

At(cmd) == opc = "operand" /\ operand <= Len(fjob.srcs) /\ fjob.cmd = cmd

AllDone ==
  /\ opc = "operand" /\ operand > Len(fjob.srcs) /\ opc' = "done"
  /\ UNCHANGED <<tree, before, fjob, operand, src, dst, todo, file, errors>>

(* The command is killed, or a system call fails.                          *)
Interrupted ==
  /\ opc \notin {"new", "done"} /\ Quit /\ UNCHANGED <<tree, before, fjob>>

BeginCopy(s, d) ==
  /\ opc' = "copy" /\ src' = s /\ dst' = d /\ todo' = Under(tree, s)
  /\ UNCHANGED <<tree, operand, file, errors>>

BeginDelete(s) ==
  /\ opc' = "delete" /\ src' = s
  /\ UNCHANGED <<tree, operand, dst, todo, file, errors>>

-----------------------------------------------------------------------------
(* mv. *)

(* The name with as many suffixes as are in use already; of a file that    *)
(* does not exist, none.                                                   *)
MvBackup(d) ==
  IF ~Exists(tree, d) THEN NoPath
  ELSE FirstUnused(tree, [n \in Numbers |-> Tilde(d, n)])

MvTarget(s, d, b) ==
  LET inside == Join(d, Last(s)) IN
  CASE Has("T")                                     -> IF Exists(tree, d) /\ b THEN MvBackup(d) ELSE d
    [] ~Has("T") /\ IsDir(tree, s) /\ IsDir(tree, d)  -> IF b THEN MvBackup(inside) ELSE inside
    [] ~Has("T") /\ IsFile(tree, s) /\ IsFile(tree, d) -> IF b THEN MvBackup(d) ELSE d
    [] ~Has("T") /\ IsFile(tree, s) /\ IsDir(tree, d) ->
         IF IsFile(tree, inside) /\ b THEN MvBackup(inside) ELSE inside
    [] OTHER                                        -> d

SameName(s, d) ==   \* isSameNameFileOrDir
  \/ (IsDir(tree, s) = IsDir(tree, d)) /\ Exists(tree, d) /\ Last(s) = Last(d)
  \/ IsFile(tree, s) /\ IsDir(tree, d) /\ Exists(tree, Join(d, Last(s)))

(* rename: across devices a copy, and then the removal of the source.      *)
RenameTo(s, d) ==
  CASE ~MayExist(tree, d) -> FailOne /\ UNCHANGED tree
    [] MayExist(tree, d) /\ ~SameDevice(s, d) -> BeginCopy(s, d)
    [] MayExist(tree, d) /\ SameDevice(s, d) ->
         IF MayRename(tree, s, d) THEN tree' = Renamed(tree, s, d) /\ NextOne
                                  ELSE FailOne /\ UNCHANGED tree

ForcedMove == Has("f") \/ (Has("b") /\ Has("i"))
BadOptions ==
  \/ Has("n") /\ (Has("b") \/ Has("f") \/ Has("i"))
  \/ Has("f") /\ Has("i")

MvRefused ==   \* validArgs, and -T with several operands
  /\ At("mv") /\ operand = 1 /\ (BadOptions \/ (Has("T") /\ Len(fjob.srcs) > 1))
  /\ Quit /\ UNCHANGED <<tree, before, fjob>>

MvOperand ==
  LET s == Operand
      d == MvTarget(s, Dest, Has("b"))
      stale == Has("u") /\ Exists(tree, d) /\ ~Newer(s, d)
  IN
  /\ At("mv") /\ ~BadOptions /\ (Has("T") => Len(fjob.srcs) = 1)
  /\ IF ~Exists(tree, s) \/ s = Dest THEN FailOne /\ UNCHANGED tree
     ELSE IF stale THEN NextOne /\ UNCHANGED tree
     ELSE IF Has("n") THEN IF SameName(s, Dest) THEN NextOne /\ UNCHANGED tree
                                               ELSE RenameTo(s, Dest)
     ELSE IF Has("i") /\ ~ForcedMove
       THEN \/ SameName(s, Dest) /\ NextOne /\ UNCHANGED tree   \* the answer is no
            \/ RenameTo(s, MvTarget(s, Dest, FALSE))
     ELSE RenameTo(s, d)
  /\ UNCHANGED <<before, fjob>>

-----------------------------------------------------------------------------
(* cp. *)

CpRefuses ==
  /\ operand = 1
  /\ IF Has("T") THEN Len(fjob.srcs) > 1 \/ IsDir(tree, Dest)
                 ELSE Len(fjob.srcs) > 1 /\ ~IsDir(tree, Dest)
CpRefused ==
  /\ At("cp") /\ CpRefuses
  /\ Quit /\ UNCHANGED <<tree, before, fjob>>

CpOperand ==
  LET s == Operand
      t == IF IsDir(tree, Dest) THEN Join(Dest, Last(s)) ELSE Dest
  IN
  /\ At("cp") /\ ~CpRefuses
  /\ IF ~Exists(tree, s) \/ s = Dest \/ s = t \/ (IsDir(tree, s) /\ (~Has("r") \/ IsPrefix(s, t)))
       THEN Quit /\ UNCHANGED tree
       ELSE BeginCopy(s, t)
  /\ UNCHANGED <<before, fjob>>

(* makeBackup's name for a target that exists.                             *)
CpBackup(t) ==
  IF fjob.backup = "numbered" \/ (fjob.backup = "existing" /\ Exists(tree, Numbered(t, 1)))
  THEN FirstUnused(tree, [n \in Numbers |-> Numbered(t, n)])
  ELSE Tilde(t, 1)

-----------------------------------------------------------------------------
(* CopyTree of mv and the walk of cp: a directory before its entries.      *)

NextPath(p) == p \in todo /\ (p = src \/ Parent(p) \notin todo)
To(p)       == Rebase(p, src, dst)
Leave(p)    == opc' = "copy" /\ todo' = todo \ {p} /\ file' = NoPath /\ UNCHANGED <<operand, src, dst, errors>>

CopyDir(p) ==
  /\ opc = "copy" /\ NextPath(p) /\ IsDir(tree, p)
  /\ IF MayMkdir(tree, To(p)) THEN tree' = Mkdir(tree, To(p)) /\ Leave(p)
                              ELSE FailOrQuit /\ UNCHANGED tree
  /\ UNCHANGED <<before, fjob>>

(* copyRegularFile of cp: -n, -u and -i may leave the file out, and an     *)
(* existing target is moved aside.                                         *)
LeftOut(p) ==
  /\ fjob.cmd = "cp" /\ Exists(tree, To(p))
  /\ (Has("n") \/ (Has("u") /\ ~Newer(p, To(p))) \/ Has("i"))

SkipFile(p) ==
  /\ opc = "copy" /\ NextPath(p) /\ IsFile(tree, p) /\ LeftOut(p)
  /\ Leave(p) /\ UNCHANGED <<tree, before, fjob>>

CopyFile(p) ==
  /\ opc = "copy" /\ NextPath(p) /\ IsFile(tree, p)
  /\ LeftOut(p) => Has("i") /\ ~Has("n") /\ ~(Has("u") /\ ~Newer(p, To(p)))
  /\ IF fjob.backup = "none" \/ ~Exists(tree, To(p))
       THEN /\ opc' = "open" /\ file' = p
            /\ UNCHANGED <<tree, operand, src, dst, todo, errors>>
       ELSE IF MayExist(tree, CpBackup(To(p))) /\ MayRename(tree, To(p), CpBackup(To(p)))
              THEN /\ tree' = Renamed(tree, To(p), CpBackup(To(p)))
                   /\ opc' = "open" /\ file' = p
                   /\ UNCHANGED <<operand, src, dst, todo, errors>>
              ELSE Quit /\ UNCHANGED tree
  /\ UNCHANGED <<before, fjob>>

(* The target is created or truncated ...                                  *)
OpenTarget ==
  /\ opc = "open"
  /\ IF ~Exists(tree, file) \/ IsDir(tree, To(file)) \/ ~IsDir(tree, Parent(To(file)))
       THEN FailOrQuit /\ UNCHANGED tree
       ELSE tree' = Put(tree, To(file), Part) /\ opc' = "write"
            /\ UNCHANGED <<operand, src, dst, todo, file, errors>>
  /\ UNCHANGED <<before, fjob>>

(* ... and written; mv and cp -p keep the time of modification.            *)
WriteTarget ==
  /\ opc = "write"
  /\ tree' = Put(tree, To(file), IF fjob.cmd = "mv" \/ Has("p") THEN tree[file]
                                 ELSE <<tree[file][1], NewerThanAll>>)
  /\ Leave(file)
  /\ UNCHANGED <<before, fjob>>

CopiedInPart ==   \* mutant: the source goes as soon as something is copied
  /\ opc = "copy" /\ todo # Under(tree, src)
  /\ IF fjob.cmd = "mv" THEN BeginDelete(src) ELSE NextOne /\ UNCHANGED tree
  /\ UNCHANGED <<before, fjob>>

Copied ==
  /\ opc = "copy" /\ todo = {}
  /\ IF fjob.cmd = "mv" THEN BeginDelete(src) ELSE NextOne /\ UNCHANGED tree
  /\ UNCHANGED <<before, fjob>>

-----------------------------------------------------------------------------
(* rm, and the removal that ends a move across devices. *)

RmRefuses(s) == IsDir(tree, s) /\ ((~Has("r") /\ ~Has("d")) \/ (Has("r") /\ s = <<>>))

RmOperand ==
  LET s == Operand IN
  /\ At("rm")
  /\ CASE ~Exists(tree, s) -> (IF Has("f") THEN NextOne ELSE FailOne) /\ UNCHANGED tree
       [] RmRefuses(s) -> FailOne /\ UNCHANGED tree
       [] Exists(tree, s) /\ ~RmRefuses(s) ->
            \/ Has("i") /\ NextOne /\ UNCHANGED tree   \* the answer is no
            \/ IsDir(tree, s) /\ Has("r") /\ BeginDelete(s)
            \/ /\ IsDir(tree, s) => ~Has("r")
               /\ IF Entries(tree, s) = {} /\ s \notin Mounted
                    THEN tree' = Unlinked(tree, {s}) /\ NextOne
                    ELSE FailOne /\ UNCHANGED tree
  /\ UNCHANGED <<before, fjob>>

OneFileSystem == fjob.cmd = "rm" /\ Has("x")
Foreign(p)    == Device(p) # Device(src)

RemovableAnywhere(p) ==   \* mutant: the device is not looked at
  p \in Under(tree, src) /\ Entries(tree, p) = {} /\ p \notin Mounted
Removable(p) ==
  /\ p \in Under(tree, src) /\ Entries(tree, p) = {} /\ p \notin Mounted
  /\ OneFileSystem => ~Foreign(p)

DeleteOne(p) ==
  /\ opc = "delete" /\ Removable(p)
  /\ tree' = Unlinked(tree, {p})
  /\ UNCHANGED <<before, fjob, opc, operand, src, dst, todo, file, errors>>

(* removeTree: a directory from which nothing on another device was        *)
(* skipped, and that is not empty all the same, is an error.               *)
Stuck(q) ==
  /\ IsDir(tree, q) /\ ~Foreign(q) /\ \A p \in Under(tree, q) : ~Removable(p)
  /\ OneFileSystem => \A p \in Entries(tree, q) : ~Foreign(p)

Deleted ==
  /\ opc = "delete"
  /\ \/ (\E q \in Under(tree, src) : Stuck(q)) /\ FailOrQuit
     \/ /\ \A p \in Under(tree, src) : ~Removable(p) /\ ~Stuck(p)
        /\ NextOne
  /\ UNCHANGED <<tree, before, fjob>>

FileOpsStep ==
  \/ MvRefused \/ MvOperand \/ CpRefused \/ CpOperand \/ RmOperand \/ AllDone \/ Interrupted
  \/ OpenTarget \/ WriteTarget \/ Copied \/ Deleted
  \/ \E p \in todo : CopyDir(p) \/ SkipFile(p) \/ CopyFile(p)
  \/ \E p \in DOMAIN tree : DeleteOne(p)

FileOpsNext == FileOpsStart \/ FileOpsStep
FileOpsSpec == FileOpsInit /\ [][FileOpsNext]_fovars

-----------------------------------------------------------------------------
(* Properties. *)

FileOpsTypeOK ==
  /\ opc \in {"new", "operand", "copy", "open", "write", "delete", "done"}
  /\ fjob \in FileJobs \cup {NoFileJob}
  /\ operand \in 1 .. Len(fjob.srcs) + 1
  /\ IsTree(tree) /\ IsTree(before)
  /\ todo \subseteq Under(tree, src) /\ errors \in BOOLEAN

Kept(D) == D \subseteq DataOf(tree, DOMAIN tree)
Whole(t) == {p \in DOMAIN t : IsFile(t, p)}

(* Whatever step of mv or cp fails or is the last before a kill, the data  *)
(* of every source is whole somewhere: across devices nothing is removed   *)
(* before all of it is copied.  (Several sources may not get one name, and *)
(* the simple backup of cp's target may not be a source.)                  *)
OneNameEach ==
  /\ Len(fjob.srcs) > 1 => IsDir(before, Dest)
  /\ \A i, j \in DOMAIN fjob.srcs : Last(fjob.srcs[i]) = Last(fjob.srcs[j]) => i = j
BackupIsNoSource ==
  fjob.backup \in {"none", "numbered"} \/ \A i \in DOMAIN fjob.srcs : "~" \notin ToSet(Last(fjob.srcs[i]))
SourcesSurvive ==
  fjob.cmd \in {"mv", "cp"} /\ OneNameEach /\ BackupIsNoSource =>
    \A i \in DOMAIN fjob.srcs : Kept(DataOf(before, Files(before, fjob.srcs[i])))

(* mv -n compares nothing but base names: against its help (mv.go:63,      *)
(* mv.go:73) it renames over a file of another name, and puts several      *)
(* operands onto each other where the last is no directory.  Else it       *)
(* honours -n: onto a file of the same name, and into a directory (where   *)
(* it finds the name in use, or fails).                                    *)
NoClobberHonoured ==
  \/ IsDir(before, Dest)
  \/ Len(fjob.srcs) = 1 /\ (Exists(before, Dest) => Last(fjob.srcs[1]) = Last(Dest))

(* cp -n, cp with numbered backups, mv -b and, where it is honoured, mv -n *)
(* lose no file's data at all, and cp -u and mv -u none that is newer than *)
(* every source's (a simple backup, though, takes the place of the one     *)
(* before, however new).                                                   *)
SourceTimes == UNION {{before[p][2] : p \in Files(before, fjob.srcs[i])} : i \in DOMAIN fjob.srcs}
Promised ==
  IF \/ fjob.cmd = "cp" /\ (Has("n") \/ fjob.backup = "numbered")
     \/ fjob.cmd = "mv" /\ Has("b") /\ ~(Has("i") \/ Has("f"))
     \/ fjob.cmd = "mv" /\ Has("n") /\ NoClobberHonoured
  THEN Whole(before)
  ELSE IF fjob.cmd \in {"cp", "mv"} /\ Has("u") /\ fjob.backup = "none"
  THEN {p \in Whole(before) : \A n \in SourceTimes : before[p][2] > n}
  ELSE {}
OverwritesAreSafe == Kept(DataOf(before, Promised))

(* rm removes nothing but its operands and what is below them, and with    *)
(* --one-file-system nothing of another file system.                       *)
RemovesOnlyOperands ==
  fjob.cmd = "rm" =>
    \A p \in DOMAIN before \ DOMAIN tree :
      \E i \in DOMAIN fjob.srcs :
        /\ IsPrefix(fjob.srcs[i], p)
        /\ Has("x") => Device(p) = Device(fjob.srcs[i])

(* Wherever they stop, what is copied or moved is not lost, nor, of what   *)
(* is there already, the data that Promised names; the three leave a tree, *)
(* and rm has removed nothing of it but what it was told to.               *)
NoDataLost ==
  SourcesSurvive /\ OverwritesAreSafe /\ FileOpsTypeOK /\ RemovesOnlyOperands
=============================================================================
