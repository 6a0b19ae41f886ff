----------------------------- MODULE AccountDB -----------------------------
(***************************************************************************)
(* The account databases /etc/passwd, /etc/shadow and /etc/group and the   *)
(* applets of loginutils that rewrite them: adduser, deluser, addgroup,    *)
(* delgroup, passwd, chpasswd and chsh.                                    *)
(*                                                                         *)
(* Every applet is a process of its own.  It reads a whole file, edits the *)
(* copy in memory, writes the copy to a temporary file and renames that    *)
(* over the original: one step to read, one step (the rename) to replace.  *)
(* Other processes run between the two.  Only passwd takes a lock.         *)
(*                                                                         *)
(* A database is a function from names to the lines whose first field is   *)
(* that name, in file order.  No applet looks at the order of lines of     *)
(* different names, and several take the first line of a name.             *)
(***************************************************************************)
EXTENDS Passwords

CONSTANTS
  Procs,      \* processes that run an applet
  Shells,     \* login shells
  DefaultShell,
  NoGroup,    \* adduser without -G
  NoJob,
  Nobody,     \* the shadow lock is free
  FirstId, LastId,  \* the range ids are assigned from (1000..64999)
  Jobs,       \* the invocations the administrators may make
  AbortChoices,\* whether applets may be killed or meet an I/O error
  MayMissLock,\* whether opening or locking shadow.lock may fail
  MaxJobs     \* bound: number of invocations in a behaviour

NoId == 0     \* no -u or --gid option given, and nextFree's "none left"

PasswdLine == [uid : Nat, gid : Nat, shell : Shells]
GroupLine  == [gid : Nat, members : SUBSET Names]
PasswdDB   == [Names -> Seq(PasswdLine)]
GroupDB    == [Names -> Seq(GroupLine)]

Kinds == {"adduser", "deluser", "addgroup", "delgroup",
          "passwd", "chpasswd", "chsh"}

(* One invocation: the applet, its operand, and the options it may have:   *)
(* id is -u or --gid, ingroup is -G, op and pw are passwd's, batch and pw  *)
(* are the users and the value chpasswd reads, shell is chsh's and         *)
(* adduser's -s.                                                           *)
Job == [kind : Kinds, name : Names, id : Nat, ingroup : Names \cup {NoGroup},
        op : Ops, pw : Password, batch : SUBSET Names, shell : Shells]

ASSUME NameAssumption == NoGroup \notin Names
ASSUME ProcAssumption == Nobody \notin Procs
ASSUME IdAssumption   == FirstId \in Nat \ {0} /\ LastId \in Nat /\ MaxJobs \in Nat
ASSUME JobAssumption  == Jobs \subseteq Job /\ NoJob \notin Job
ASSUME ShellAssumption == DefaultShell \in Shells
ASSUME FaultAssumption == AbortChoices \subseteq BOOLEAN /\ MayMissLock \in BOOLEAN

VARIABLES
  passwd, shadow, group,  \* the files' contents
  lock,                   \* the holder of shadow.lock
  job, pc,                \* what each process runs and where it is
  snap,                   \* the copies each process has read
  newUid, newGid,         \* adduser's and addgroup's choices
  jobs,                   \* invocations made so far
  mayAbort                \* whether this behaviour has faults

files == <<passwd, shadow, group>>
vars  == <<passwd, shadow, group, lock, job, pc, snap, newUid, newGid, jobs, mayAbort>>

-----------------------------------------------------------------------------
(* Reading and editing a copy. *)

NoLines == [n \in Names |-> <<>>]
NoSnap  == [passwd |-> NoLines, shadow |-> NoLines, group |-> NoLines]

AddLine(db, n, l)  == [db EXCEPT ![n] = Append(@, l)]
DropLines(db, n)   == [db EXCEPT ![n] = <<>>]
DropMember(db, u)  ==
  [n \in Names |-> [i \in DOMAIN db[n] |-> [db[n][i] EXCEPT !.members = @ \ {u}]]]

UidUsed(db, u) == \E n \in Names : \E i \in DOMAIN db[n] : db[n][i].uid = u
GidUsed(db, g) == \E n \in Names : \E i \in DOMAIN db[n] : db[n][i].gid = g

Lowest(S)     == CHOOSE i \in S : \A j \in S : i <= j
NextFree(free) == IF free = {} THEN NoId ELSE Lowest(free)
NextUid(db)   == NextFree({i \in FirstId .. LastId : ~UidUsed(db, i)})
NextGid(db)   == NextFree({i \in FirstId .. LastId : ~GidUsed(db, i)})

(* The id asked for with -u or --gid, or NoId when it is taken; without    *)
(* the option, the next free one.                                          *)
ChooseUid(db, asked) ==
  IF asked = NoId THEN NextUid(db) ELSE IF UidUsed(db, asked) THEN NoId ELSE asked
ChooseGid(db, asked) ==
  IF asked = NoId THEN NextGid(db) ELSE IF GidUsed(db, asked) THEN NoId ELSE asked

OwnGidUnchecked(db, uid) == uid  \* mutant: the gid is not looked up

(* adduser's group takes the user's id when that gid is free. *)
OwnGid(db, uid) == IF GidUsed(db, uid) THEN NextGid(db) ELSE uid

LockedPassword == [locked |-> TRUE, hash |-> NoHash]  \* the field "!"

(* chpasswd edits every line of the users it is given. *)
SetAll(db, batch, new) ==
  [n \in Names |-> IF n \in batch THEN [i \in DOMAIN db[n] |-> new] ELSE db[n]]

-----------------------------------------------------------------------------
(* Process steps. *)

Me(p)  == job[p].name
At(p, kind, label) == job[p] # NoJob /\ job[p].kind = kind /\ pc[p] = label
Goto(p, label) == pc' = [pc EXCEPT ![p] = label] /\ UNCHANGED <<job, jobs, mayAbort>>

(* Process p ends, with success or with an error.  The files it has        *)
(* already replaced stay replaced: nothing is rolled back.                 *)
Exit(p) ==
  /\ job'  = [job EXCEPT ![p] = NoJob]
  /\ pc'   = [pc EXCEPT ![p] = "idle"]
  /\ snap' = [snap EXCEPT ![p] = NoSnap]
  /\ newUid' = [newUid EXCEPT ![p] = NoId]
  /\ newGid' = [newGid EXCEPT ![p] = NoId]
  /\ UNCHANGED <<jobs, mayAbort>>

FirstStep(kind) ==
  CASE kind \in {"adduser", "deluser", "chsh"} -> "readPasswd"
    [] kind \in {"addgroup", "delgroup"}       -> "readGroup"
    [] kind = "chpasswd"                       -> "readShadow"
    [] kind = "passwd"                         -> "lock"

Start(p) ==
  /\ pc[p] = "idle" /\ jobs < MaxJobs
  /\ jobs' = jobs + 1
  /\ \E j \in Jobs : /\ job' = [job EXCEPT ![p] = j]
                     /\ pc'  = [pc EXCEPT ![p] = FirstStep(j.kind)]
  /\ UNCHANGED <<passwd, shadow, group, lock, snap, newUid, newGid, mayAbort>>

(* adduser: the name must be new and a uid available ... *)
AdduserReadPasswd(p) ==
  /\ At(p, "adduser", "readPasswd")
  /\ LET uid == ChooseUid(passwd, job[p].id) IN
     \/ /\ HasLine(passwd, Me(p)) \/ uid = NoId
        /\ Exit(p)
     \/ /\ ~HasLine(passwd, Me(p)) /\ uid # NoId
        /\ snap' = [snap EXCEPT ![p].passwd = passwd]
        /\ newUid' = [newUid EXCEPT ![p] = uid]
        /\ Goto(p, "readGroup")
        /\ UNCHANGED newGid
  /\ UNCHANGED <<passwd, shadow, group, lock>>

(* ... the primary group is the first line of -G's name, or a new group    *)
(* named after the user, whose name is not looked up ...                   *)
AdduserReadGroup(p) ==
  /\ At(p, "adduser", "readGroup")
  /\ LET g   == job[p].ingroup
         gid == OwnGid(group, newUid[p])
     IN \/ /\ IF g = NoGroup THEN gid = NoId ELSE ~HasLine(group, g)
           /\ Exit(p)
        \/ /\ g # NoGroup /\ HasLine(group, g)
           /\ newGid' = [newGid EXCEPT ![p] = group[g][1].gid]
           /\ Goto(p, "writePasswd")
           /\ UNCHANGED <<snap, newUid>>
        \/ /\ g = NoGroup /\ gid # NoId
           /\ newGid' = [newGid EXCEPT ![p] = gid]
           /\ snap' = [snap EXCEPT ![p].group = group]
           /\ Goto(p, "writeGroup")
           /\ UNCHANGED newUid
  /\ UNCHANGED <<passwd, shadow, group, lock>>

AdduserWriteGroup(p) ==
  /\ At(p, "adduser", "writeGroup")
  /\ group' = AddLine(snap[p].group, Me(p), [gid |-> newGid[p], members |-> {}])
  /\ Goto(p, "writePasswd")
  /\ snap' = [snap EXCEPT ![p].group = NoLines]
  /\ UNCHANGED <<passwd, shadow, lock, newUid, newGid>>

(* ... then the user's line is added to the copy of passwd read at the     *)
(* beginning, and a locked line to shadow.                                 *)
AdduserWritePasswd(p) ==
  /\ At(p, "adduser", "writePasswd")
  /\ passwd' = AddLine(snap[p].passwd, Me(p),
       [uid |-> newUid[p], gid |-> newGid[p], shell |-> job[p].shell])
  /\ Goto(p, "readShadow")
  /\ snap' = [snap EXCEPT ![p].passwd = NoLines]
  /\ UNCHANGED <<shadow, group, lock, newUid, newGid>>

ReadShadow(p) ==   \* adduser, deluser and chpasswd read shadow unconditionally
  /\ \E kind \in {"adduser", "deluser", "chpasswd"} : At(p, kind, "readShadow")
  /\ snap' = [snap EXCEPT ![p].shadow = shadow]
  /\ Goto(p, "writeShadow")
  /\ UNCHANGED <<passwd, shadow, group, lock, newUid, newGid>>

AdduserWriteShadow(p) ==
  /\ At(p, "adduser", "writeShadow")
  /\ shadow' = AddLine(snap[p].shadow, Me(p), LockedPassword)
  /\ Exit(p)
  /\ UNCHANGED <<passwd, group, lock>>

(* deluser: passwd, then shadow, then the member lists of group.           *)
DeluserReadPasswd(p) ==
  /\ At(p, "deluser", "readPasswd")
  /\ \/ /\ ~HasLine(passwd, Me(p))
        /\ Exit(p)
     \/ /\ HasLine(passwd, Me(p))
        /\ snap' = [snap EXCEPT ![p].passwd = passwd]
        /\ Goto(p, "writePasswd")
        /\ UNCHANGED <<newUid, newGid>>
  /\ UNCHANGED <<passwd, shadow, group, lock>>

DeluserWritePasswd(p) ==
  /\ At(p, "deluser", "writePasswd")
  /\ passwd' = DropLines(snap[p].passwd, Me(p))
  /\ Goto(p, "readShadow")
  /\ snap' = [snap EXCEPT ![p].passwd = NoLines]
  /\ UNCHANGED <<shadow, group, lock, newUid, newGid>>

DeluserWriteShadowKeeps(p) ==  \* mutant: the line of shadow is kept
  /\ At(p, "deluser", "writeShadow")
  /\ shadow' = snap[p].shadow
  /\ Goto(p, "readGroup")
  /\ snap' = [snap EXCEPT ![p].shadow = NoLines]
  /\ UNCHANGED <<passwd, group, lock, newUid, newGid>>

DeluserWriteShadow(p) ==
  /\ At(p, "deluser", "writeShadow")
  /\ shadow' = DropLines(snap[p].shadow, Me(p))
  /\ Goto(p, "readGroup")
  /\ snap' = [snap EXCEPT ![p].shadow = NoLines]
  /\ UNCHANGED <<passwd, group, lock, newUid, newGid>>

DeluserReadGroup(p) ==
  /\ At(p, "deluser", "readGroup")
  /\ snap' = [snap EXCEPT ![p].group = group]
  /\ Goto(p, "writeGroup")
  /\ UNCHANGED <<passwd, shadow, group, lock, newUid, newGid>>

DeluserWriteGroupDrops(p) ==  \* mutant: the user's group goes as well
  /\ At(p, "deluser", "writeGroup")
  /\ group' = DropLines(DropMember(snap[p].group, Me(p)), Me(p))
  /\ Exit(p)
  /\ UNCHANGED <<passwd, shadow, lock>>

DeluserWriteGroup(p) ==
  /\ At(p, "deluser", "writeGroup")
  /\ group' = DropMember(snap[p].group, Me(p))
  /\ Exit(p)
  /\ UNCHANGED <<passwd, shadow, lock>>

(* addgroup and delgroup. *)
AddgroupRead(p) ==
  /\ At(p, "addgroup", "readGroup")
  /\ LET gid == ChooseGid(group, job[p].id) IN
     \/ /\ HasLine(group, Me(p)) \/ gid = NoId
        /\ Exit(p)
     \/ /\ ~HasLine(group, Me(p)) /\ gid # NoId
        /\ snap' = [snap EXCEPT ![p].group = group]
        /\ newGid' = [newGid EXCEPT ![p] = gid]
        /\ Goto(p, "writeGroup")
        /\ UNCHANGED newUid
  /\ UNCHANGED <<passwd, shadow, group, lock>>

AddgroupWrite(p) ==
  /\ At(p, "addgroup", "writeGroup")
  /\ group' = AddLine(snap[p].group, Me(p), [gid |-> newGid[p], members |-> {}])
  /\ Exit(p)
  /\ UNCHANGED <<passwd, shadow, lock>>

DelgroupRead(p) ==
  /\ At(p, "delgroup", "readGroup")
  /\ \/ /\ ~HasLine(group, Me(p))
        /\ Exit(p)
     \/ /\ HasLine(group, Me(p))
        /\ snap' = [snap EXCEPT ![p].group = group]
        /\ Goto(p, "writeGroup")
        /\ UNCHANGED <<newUid, newGid>>
  /\ UNCHANGED <<passwd, shadow, group, lock>>

DelgroupWrite(p) ==
  /\ At(p, "delgroup", "writeGroup")
  /\ group' = DropLines(snap[p].group, Me(p))
  /\ Exit(p)
  /\ UNCHANGED <<passwd, shadow, lock>>

(* chsh: nothing is written when the shell is already the one asked for.   *)
ChshRead(p) ==
  /\ At(p, "chsh", "readPasswd")
  /\ \/ /\ HasLine(passwd, Me(p)) => passwd[Me(p)][1].shell = job[p].shell
        /\ Exit(p)
     \/ /\ HasLine(passwd, Me(p)) /\ passwd[Me(p)][1].shell # job[p].shell
        /\ snap' = [snap EXCEPT ![p].passwd = passwd]
        /\ Goto(p, "writePasswd")
        /\ UNCHANGED <<newUid, newGid>>
  /\ UNCHANGED <<passwd, shadow, group, lock>>

ChshWrite(p) ==
  /\ At(p, "chsh", "writePasswd")
  /\ passwd' = [snap[p].passwd EXCEPT ![Me(p)][1].shell = job[p].shell]
  /\ Exit(p)
  /\ UNCHANGED <<shadow, group, lock>>

(* chpasswd: the file is replaced even when no user of the batch is known. *)
ChpasswdWrite(p) ==
  /\ At(p, "chpasswd", "writeShadow")
  /\ shadow' = SetAll(snap[p].shadow, job[p].batch, job[p].pw)
  /\ Exit(p)
  /\ UNCHANGED <<passwd, group, lock>>

ReleaseNever(p) == lock' = lock  \* mutant: the lock outlives its holder

(* Unlocking or closing a lockfile one does not hold changes nothing.      *)
Release(p) == lock' = IF lock = p THEN Nobody ELSE lock

(* passwd: under the lock when it can be had. *)
PasswdLock(p) ==
  /\ At(p, "passwd", "lock")
  /\ \/ lock = Nobody /\ lock' = p
     \/ MayMissLock /\ lock' = lock
  /\ Goto(p, "readShadow")
  /\ UNCHANGED <<passwd, shadow, group, snap, newUid, newGid>>

PasswdReadUnlocks(p) ==  \* mutant: the lock covers the read only
  /\ At(p, "passwd", "readShadow")
  /\ HasLine(shadow, Me(p))
  /\ snap' = [snap EXCEPT ![p].shadow = shadow]
  /\ Release(p)
  /\ Goto(p, "writeShadow")
  /\ UNCHANGED <<passwd, shadow, group, newUid, newGid>>

PasswdRead(p) ==
  /\ At(p, "passwd", "readShadow")
  /\ \/ /\ ~HasLine(shadow, Me(p))
        /\ Goto(p, "unlock")
        /\ UNCHANGED snap
     \/ /\ HasLine(shadow, Me(p))
        /\ snap' = [snap EXCEPT ![p].shadow = shadow]
        /\ Goto(p, "writeShadow")
  /\ UNCHANGED <<passwd, shadow, group, lock, newUid, newGid>>

PasswdWrite(p) ==
  /\ At(p, "passwd", "writeShadow")
  /\ shadow' = ChangeFirst(snap[p].shadow, Me(p), job[p].op, job[p].pw)
  /\ Goto(p, "unlock")
  /\ snap' = [snap EXCEPT ![p].shadow = NoLines]
  /\ UNCHANGED <<passwd, group, lock, newUid, newGid>>

PasswdUnlock(p) ==
  /\ At(p, "passwd", "unlock")
  /\ Release(p)
  /\ Exit(p)
  /\ UNCHANGED <<passwd, shadow, group>>

(* The process is killed, or a read, a write or the rename fails: the      *)
(* file being replaced is as it was, the kernel drops the lock.            *)
Abort(p) ==
  /\ mayAbort /\ pc[p] # "idle"
  /\ Release(p)
  /\ Exit(p)
  /\ UNCHANGED <<passwd, shadow, group>>

-----------------------------------------------------------------------------
(* Any consistent databases: each user of a set has its line in each file  *)
(* and a group of its own, with no line twice and no id twice; some users  *)
(* are members of the others' groups.                                      *)
IdMaps == {f \in [Names -> FirstId .. LastId] : \A m, n \in Names : f[m] = f[n] => m = n}
Fields == {LockedPassword} \cup [locked : {FALSE}, hash : Hashes]

Begin(users, id, pw, mates) ==
  /\ passwd = [n \in Names |-> IF n \notin users THEN <<>> ELSE
                 <<[uid |-> id[n], gid |-> id[n], shell |-> DefaultShell]>>]
  /\ shadow = [n \in Names |-> IF n \notin users THEN <<>> ELSE <<pw[n]>>]
  /\ group  = [n \in Names |-> IF n \notin users THEN <<>> ELSE
                 <<[gid |-> id[n], members |-> mates \ {n}]>>]
  /\ lock = Nobody
  /\ job  = [p \in Procs |-> NoJob]
  /\ pc   = [p \in Procs |-> "idle"]
  /\ snap = [p \in Procs |-> NoSnap]
  /\ newUid = [p \in Procs |-> NoId]
  /\ newGid = [p \in Procs |-> NoId]
  /\ jobs = 0 /\ mayAbort \in AbortChoices

Init ==
  \E users \in SUBSET Names : \E id \in IdMaps : \E pw \in [users -> Fields] :
  \E mates \in SUBSET users : Begin(users, id, pw, mates)

(* The steps a process takes once it has started, faults apart. *)
Step(p) ==
  \/ AdduserReadPasswd(p) \/ AdduserReadGroup(p) \/ AdduserWriteGroup(p)
  \/ AdduserWritePasswd(p) \/ ReadShadow(p) \/ AdduserWriteShadow(p)
  \/ DeluserReadPasswd(p) \/ DeluserWritePasswd(p) \/ DeluserWriteShadow(p)
  \/ DeluserReadGroup(p) \/ DeluserWriteGroup(p)
  \/ AddgroupRead(p) \/ AddgroupWrite(p) \/ DelgroupRead(p) \/ DelgroupWrite(p)
  \/ ChshRead(p) \/ ChshWrite(p) \/ ChpasswdWrite(p)
  \/ PasswdLock(p) \/ PasswdRead(p) \/ PasswdWrite(p) \/ PasswdUnlock(p)

Next == \E p \in Procs : Start(p) \/ Step(p) \/ Abort(p)

Spec == Init /\ [][Next]_vars

(* The operating system schedules every process that can run. *)
Fairness == \A p \in Procs : WF_vars(Step(p))

-----------------------------------------------------------------------------
Labels == {"idle", "lock", "unlock", "readPasswd", "writePasswd", "readShadow",
           "writeShadow", "readGroup", "writeGroup"}

(* Type invariant: the shape of the databases and of every process.  A     *)
(* process is idle exactly when it has no job.                             *)
FilesOK == passwd \in PasswdDB /\ shadow \in ShadowDB /\ group \in GroupDB
SnapsOK == snap \in [Procs -> [passwd : PasswdDB, shadow : ShadowDB, group : GroupDB]]
ProcsOK ==
  /\ lock \in Procs \cup {Nobody}
  /\ job \in [Procs -> Jobs \cup {NoJob}]
  /\ pc \in [Procs -> Labels]
  /\ \A p \in Procs : (pc[p] = "idle") <=> (job[p] = NoJob)
  /\ newUid \in [Procs -> Nat] /\ newGid \in [Procs -> Nat]
  /\ jobs \in 0 .. MaxJobs
TypeOK == FilesOK /\ ProcsOK /\ SnapsOK

(* No two lines of /etc/passwd have the same user name or the same uid,    *)
(* and no two lines of /etc/group the same gid, whatever applets run at    *)
(* the same time: each replaces the whole file with a copy it has checked, *)
(* so a race loses an account but never duplicates an id.                  *)
UniqueUser(db) ==
  /\ \A n \in Names : Len(db[n]) <= 1
  /\ \A m, n \in Names : \A i \in DOMAIN db[m], j \in DOMAIN db[n] :
       db[m][i].uid = db[n][j].uid => m = n /\ i = j
UniqueGid(db) ==
  \A m, n \in Names : \A i \in DOMAIN db[m], j \in DOMAIN db[n] :
    db[m][i].gid = db[n][j].gid => m = n /\ i = j
UniqueIds == UniqueUser(passwd) /\ UniqueGid(group)

(* A process replaces shadow only with an edit of what shadow holds at     *)
(* that moment, so no password change is lost: what withLock is for.       *)
Replaces(p) == pc[p] = "writeShadow" /\ pc'[p] # "writeShadow" /\ shadow' # shadow
NoLostUpdate == [][\A p \in Procs : Replaces(p) => snap[p].shadow = shadow]_vars

(* With passwd alone at work, shadow changes as if every passwd did its    *)
(* whole read, edit and rename at one moment.                              *)
Store == INSTANCE ShadowStore
ShadowIsStore == Store!Spec

(* The step that gives a new account its line of shadow.                  *)
Creates(p) == At(p, "adduser", "writeShadow") /\ shadow' # shadow

(* Every user's primary group exists, at every moment of adduser and       *)
(* deluser, killed or not: adduser writes group before passwd.             *)
PrimaryGroupExists ==
  \A n \in Names : \A i \in DOMAIN passwd[n] : GidUsed(group, passwd[n][i].gid)

(* Between commands none of which failed, every user has a line in shadow  *)
(* and every line of shadow a user.                                        *)
Consistent ==
  ~mayAbort /\ (\A p \in Procs : pc[p] = "idle") =>
    \A n \in Names : HasLine(passwd, n) <=> HasLine(shadow, n)

(* Every passwd that waits for the lock is done eventually: a holder that  *)
(* is killed or fails does not keep it.                                    *)
LockNeverLeaks == \A p \in Procs : (pc[p] = "lock") ~> (pc[p] = "idle")
=============================================================================
