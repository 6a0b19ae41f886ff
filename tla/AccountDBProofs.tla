-------------------------- MODULE AccountDBProofs --------------------------
(* Proofs about the account databases. *)
EXTENDS AccountAppletsMC, SequenceTheorems, WellFoundedInduction, TLAPS

(* nextFree returns an unused id of the range, or NoId. *)
LEMMA NextFreeIsFree ==
  ASSUME NEW free \in SUBSET (FirstId .. LastId)
  PROVE  /\ NextFree(free) \in Nat
         /\ NextFree(free) # NoId => NextFree(free) \in free
<1>0. free \subseteq Nat
  BY IdAssumption
<1>1. CASE free = {}
  BY <1>1 DEF NextFree, NoId
<1>2. CASE free # {}
  <2>1. \E i \in free : \A j \in free : ~(<<j, i>> \in OpToRel(<, Nat))
    BY <1>0, <1>2, NatLessThanWellFounded, WFMin
  <2>2. \E i \in free : \A j \in free : i <= j
    <3>1. PICK i \in free : \A j \in free : ~(<<j, i>> \in OpToRel(<, Nat))
      BY <2>1
    <3>2. ASSUME NEW j \in free PROVE ~(j < i)
      <4>1. <<j, i>> \in Nat \X Nat
        BY <1>0
      <4>2. j < i => <<j, i>> \in OpToRel(<, Nat)
        BY <4>1 DEF OpToRel
      <4> QED BY <4>2, <3>1
    <3>3. ASSUME NEW j \in free PROVE i <= j
      BY <3>2, <1>0
    <3> QED BY <3>3
  <2>3. Lowest(free) \in free
    BY <2>2 DEF Lowest
  <2> QED BY <2>3, <1>2, <1>0 DEF NextFree
<1> QED BY <1>1, <1>2

-----------------------------------------------------------------------------
(* The edits keep a database a database. *)
LEMMA AddLineType ==
  ASSUME NEW S, NEW db \in [Names -> Seq(S)], NEW n \in Names, NEW l \in S
  PROVE  AddLine(db, n, l) \in [Names -> Seq(S)]
  BY DEF AddLine

(* A deleted name leaves a database (removeByName).                        *)
LEMMA DropLinesType ==
  ASSUME NEW S, NEW db \in [Names -> Seq(S)], NEW n \in Names
  PROVE  DropLines(db, n) \in [Names -> Seq(S)]
  BY DEF DropLines

(* Taking a user off the member lists leaves a group file.                 *)
LEMMA DropMemberType ==
  ASSUME NEW db \in GroupDB, NEW u \in Names
  PROVE  DropMember(db, u) \in GroupDB
<1>1. SUFFICES ASSUME NEW n \in Names
               PROVE  [i \in DOMAIN db[n] |-> [db[n][i] EXCEPT !.members = @ \ {u}]]
                        \in Seq(GroupLine)
  BY DEF DropMember, GroupDB
<1>2. db[n] \in Seq(GroupLine)
  BY DEF GroupDB
<1>3. ASSUME NEW i \in 1 .. Len(db[n])
      PROVE  [db[n][i] EXCEPT !.members = @ \ {u}] \in GroupLine
  <2>1. db[n][i] \in GroupLine
    BY <1>2
  <2> QED BY <2>1 DEF GroupLine
<1> DEFINE f(i) == [db[n][i] EXCEPT !.members = @ \ {u}]
<1>4. \A i \in 1 .. Len(db[n]) : f(i) \in GroupLine
  BY <1>3
<1> HIDE DEF f
<1>5. [i \in 1 .. Len(db[n]) |-> f(i)] \in Seq(GroupLine)
  BY <1>4, <1>2
<1>6. [i \in DOMAIN db[n] |-> f(i)] \in Seq(GroupLine)
  BY <1>5, <1>2
<1> QED BY <1>6 DEF f

(* chpasswd's edit leaves a shadow file.                                   *)
LEMMA SetAllType ==
  ASSUME NEW db \in ShadowDB, NEW batch, NEW new \in Password
  PROVE  SetAll(db, batch, new) \in ShadowDB
<1>1. SUFFICES ASSUME NEW n \in Names
               PROVE  [i \in DOMAIN db[n] |-> new] \in Seq(Password)
  BY DEF SetAll, ShadowDB
<1>2. db[n] \in Seq(Password)
  BY DEF ShadowDB
<1> QED BY <1>2

(* passwd turns a password field into a password field.                    *)
LEMMA ChangedType ==
  ASSUME NEW old \in Password, NEW op \in Ops, NEW new \in Password
  PROVE  Changed(old, op, new) \in Password
  BY DEF Changed, Password, Ops

(* passwd's edit of an existing user leaves a shadow file.                 *)
LEMMA ChangeFirstType ==
  ASSUME NEW db \in ShadowDB, NEW n \in Names, HasLine(db, n),
         NEW op \in Ops, NEW new \in Password
  PROVE  ChangeFirst(db, n, op, new) \in ShadowDB
<1>1. db[n] \in Seq(Password) /\ Len(db[n]) > 0
  BY DEF ShadowDB, HasLine
<1>2. db[n][1] \in Password
  BY <1>1
<1>3. Changed(db[n][1], op, new) \in Password
  BY <1>2, ChangedType
<1>4. [db[n] EXCEPT ![1] = Changed(db[n][1], op, new)] \in Seq(Password)
  BY <1>1, <1>3
<1> QED BY <1>4 DEF ChangeFirst, ShadowDB

-----------------------------------------------------------------------------
(* The inductive invariant.  An id or a name is checked against the copy   *)
(* the process read, and the copy with the new line is what it writes: so  *)
(* the copy is unique and the choice is new to the copy, however old the   *)
(* copy is.  The two appliers of an edit to a first line have seen one.    *)
Copy(p) ==
  /\ UniqueUser(snap[p].passwd) /\ UniqueGid(snap[p].group)
  /\ \A label \in {"readGroup", "writeGroup", "writePasswd"} :
       At(p, "adduser", label) =>
         ~HasLine(snap[p].passwd, Me(p)) /\ ~UidUsed(snap[p].passwd, newUid[p])
  /\ \A kind \in {"adduser", "addgroup"} :
       At(p, kind, "writeGroup") => ~GidUsed(snap[p].group, newGid[p])
  /\ At(p, "chsh", "writePasswd") => HasLine(snap[p].passwd, Me(p))
  /\ At(p, "passwd", "writeShadow") => HasLine(snap[p].shadow, Me(p))
Copies == \A p \in Procs : Copy(p)

IInv == TypeOK /\ UniqueIds /\ Copies

-----------------------------------------------------------------------------
(* The edits keep a checked copy unique. *)
LEMMA NoLinesUnique ==
  /\ NoLines \in PasswdDB /\ NoLines \in ShadowDB /\ NoLines \in GroupDB
  /\ UniqueUser(NoLines) /\ UniqueGid(NoLines)
  BY DEF NoLines, PasswdDB, ShadowDB, GroupDB, UniqueUser, UniqueGid

(* Adding a new name with a new uid keeps names and uids unique.           *)
LEMMA AddLineUniqueUser ==
  ASSUME NEW db \in PasswdDB, UniqueUser(db), NEW n \in Names, ~HasLine(db, n),
         NEW l \in PasswdLine, ~UidUsed(db, l.uid)
  PROVE  UniqueUser(AddLine(db, n, l))
<1> DEFINE new == AddLine(db, n, l)
<1>1. db[n] = <<>> /\ new[n] = <<l>>
  BY DEF HasLine, AddLine, PasswdDB
<1>2. \A m \in Names : m # n => new[m] = db[m]
  BY DEF AddLine, PasswdDB
<1>3. ASSUME NEW m \in Names PROVE Len(new[m]) <= 1
  <2>0. Len(<<l>>) = 1
    OBVIOUS
  <2>1. CASE m = n
    <3>1. Len(new[m]) = 1
      BY <1>1, <2>0, <2>1, Zenon
    <3> QED BY <3>1
  <2>2. CASE m # n
    BY <1>2, <2>2 DEF UniqueUser
  <2> QED BY <2>1, <2>2
<1>4. ASSUME NEW m \in Names, NEW k \in Names, NEW i \in DOMAIN new[m],
             NEW j \in DOMAIN new[k], new[m][i].uid = new[k][j].uid
      PROVE  m = k /\ i = j
  BY <1>1, <1>2, <1>4 DEF UniqueUser, UidUsed
<1> QED BY <1>3, <1>4 DEF UniqueUser

(* Adding a line with a new gid keeps gids unique, its name new or not.    *)
LEMMA AddLineUniqueGid ==
  ASSUME NEW db \in GroupDB, UniqueGid(db), NEW n \in Names,
         NEW l \in GroupLine, ~GidUsed(db, l.gid)
  PROVE  UniqueGid(AddLine(db, n, l))
<1> DEFINE new == AddLine(db, n, l)
<1>1. db[n] \in Seq(GroupLine) /\ new[n] = Append(db[n], l)
  BY DEF AddLine, GroupDB
<1>2. \A m \in Names : m # n => new[m] = db[m]
  BY DEF AddLine, GroupDB
<1>3. \A i \in DOMAIN new[n] :
        \/ i \in DOMAIN db[n] /\ new[n][i] = db[n][i]
        \/ i = Len(db[n]) + 1 /\ new[n][i] = l
  BY <1>1
<1> HIDE DEF new
<1>4. ASSUME NEW m \in Names, NEW k \in Names, NEW i \in DOMAIN new[m],
             NEW j \in DOMAIN new[k], new[m][i].gid = new[k][j].gid
      PROVE  m = k /\ i = j
  BY <1>2, <1>3, <1>4 DEF UniqueGid, GidUsed
<1> QED BY <1>4 DEF UniqueGid, new

(* Deleting a name keeps the rest unique.                                  *)
LEMMA DropLinesUnique ==
  ASSUME NEW db, NEW n \in Names, DOMAIN db = Names
  PROVE  /\ UniqueUser(db) => UniqueUser(DropLines(db, n))
         /\ UniqueGid(db) => UniqueGid(DropLines(db, n))
<1>1. \A m \in Names : DropLines(db, n)[m] = IF m = n THEN <<>> ELSE db[m]
  BY DEF DropLines
<1>2. DOMAIN <<>> = {} /\ Len(<<>>) = 0
  OBVIOUS
<1>3. UniqueUser(db) => UniqueUser(DropLines(db, n))
  BY <1>1, <1>2 DEF UniqueUser
<1>4. UniqueGid(db) => UniqueGid(DropLines(db, n))
  BY <1>1, <1>2 DEF UniqueGid
<1> QED BY <1>3, <1>4

(* Member lists do not matter to the uniqueness of gids.                   *)
LEMMA DropMemberUnique ==
  ASSUME NEW db \in GroupDB, UniqueGid(db), NEW u \in Names
  PROVE  UniqueGid(DropMember(db, u))
<1> DEFINE new == DropMember(db, u)
<1>1. \A m \in Names : DOMAIN new[m] = DOMAIN db[m]
  BY DEF DropMember
<1>2. ASSUME NEW m \in Names, NEW i \in DOMAIN db[m]
      PROVE  new[m][i].gid = db[m][i].gid
  <2>1. db[m][i] \in GroupLine
    BY DEF GroupDB
  <2>2. new[m][i] = [db[m][i] EXCEPT !.members = @ \ {u}]
    BY DEF DropMember
  <2> QED BY <2>1, <2>2 DEF GroupLine
<1> QED BY <1>1, <1>2 DEF UniqueGid

(* chsh's edit touches neither names nor ids.                              *)
LEMMA SetShell ==
  ASSUME NEW db \in PasswdDB, UniqueUser(db), NEW n \in Names, HasLine(db, n),
         NEW s \in Shells
  PROVE  /\ [db EXCEPT ![n][1].shell = s] \in PasswdDB
         /\ UniqueUser([db EXCEPT ![n][1].shell = s])
<1> DEFINE new == [db EXCEPT ![n][1].shell = s]
<1>1. db[n] \in Seq(PasswdLine) /\ Len(db[n]) = 1
  <2>1. db[n] \in Seq(PasswdLine) /\ db[n] # <<>> /\ Len(db[n]) <= 1
    BY DEF PasswdDB, HasLine, UniqueUser
  <2>2. Len(db[n]) \in Nat /\ Len(db[n]) # 0
    BY <2>1, EmptySeq, LenProperties
  <2>3. \A k \in Nat : k # 0 /\ k <= 1 => k = 1
    OBVIOUS
  <2> QED BY <2>1, <2>2, <2>3, Zenon
<1>2. db[n][1] \in PasswdLine
  BY <1>1
<1>3. /\ [db[n][1] EXCEPT !.shell = s] \in PasswdLine
      /\ [db[n][1] EXCEPT !.shell = s].uid = db[n][1].uid
  BY <1>2 DEF PasswdLine
<1>4. new[n] = [db[n] EXCEPT ![1] = [db[n][1] EXCEPT !.shell = s]]
  BY DEF PasswdDB
<1>5. /\ new[n] \in Seq(PasswdLine) /\ DOMAIN new[n] = DOMAIN db[n]
      /\ Len(new[n]) = 1 /\ new[n][1].uid = db[n][1].uid
  BY <1>1, <1>3, <1>4
<1>6. \A m \in Names : m # n => new[m] = db[m]
  BY DEF PasswdDB
<1>7. new \in PasswdDB
  BY <1>5, <1>6 DEF PasswdDB
<1>8. UniqueUser(new)
  BY <1>1, <1>5, <1>6 DEF UniqueUser
<1> QED BY <1>7, <1>8

(* The ids adduser and addgroup choose are new to the copy. *)
LEMMA ChosenIds ==
  ASSUME NEW db, NEW asked \in Nat
  PROVE  /\ ChooseUid(db, asked) \in Nat /\ ChooseGid(db, asked) \in Nat
         /\ OwnGid(db, asked) \in Nat
         /\ ChooseUid(db, asked) # NoId => ~UidUsed(db, ChooseUid(db, asked))
         /\ ChooseGid(db, asked) # NoId => ~GidUsed(db, ChooseGid(db, asked))
         /\ OwnGid(db, asked) # NoId => ~GidUsed(db, OwnGid(db, asked))
<1>1. NextUid(db) \in Nat /\ (NextUid(db) # NoId => ~UidUsed(db, NextUid(db)))
  BY NextFreeIsFree DEF NextUid
<1>2. NextGid(db) \in Nat /\ (NextGid(db) # NoId => ~GidUsed(db, NextGid(db)))
  BY NextFreeIsFree DEF NextGid
<1> QED BY <1>1, <1>2 DEF ChooseUid, ChooseGid, OwnGid, NoId

-----------------------------------------------------------------------------
(* One process's step leaves the others' copies and choices alone. *)
Unmoved(q) ==
  /\ job'[q] = job[q] /\ pc'[q] = pc[q] /\ snap'[q] = snap[q]
  /\ newUid'[q] = newUid[q] /\ newGid'[q] = newGid[q]

(* The invariant of a process depends on that process alone.               *)
LEMMA UnmovedCopy ==
  ASSUME NEW q \in Procs, Copy(q), Unmoved(q)
  PROVE  Copy(q)'
  BY DEF Copy, Unmoved, At, Me

(* A process that ends leaves a well-formed idle process behind. *)
LEMMA ExitStep ==
  ASSUME ProcsOK, SnapsOK, Copies, NEW p \in Procs, Exit(p),
         lock' \in Procs \cup {Nobody}
  PROVE  ProcsOK' /\ SnapsOK' /\ Copies'
<1>1. SnapsOK'
  BY NoLinesUnique DEF SnapsOK, Exit, NoSnap
<1>2. ProcsOK'
  BY IdAssumption DEF ProcsOK, Exit, Labels, NoId
<1>3. Copy(p)'
  <2>1. job'[p] = NoJob /\ snap'[p] = NoSnap
    BY DEF Exit, ProcsOK, SnapsOK
  <2> QED BY <2>1, NoLinesUnique DEF Copy, At, NoSnap
<1>4. ASSUME NEW q \in Procs, q # p PROVE Copy(q)'
  <2>1. Unmoved(q)
    BY <1>4 DEF Exit, ProcsOK, SnapsOK, Unmoved
  <2> QED BY <2>1, UnmovedCopy DEF Copies
<1> QED BY <1>1, <1>2, <1>3, <1>4 DEF Copies

(* A process that goes on keeps its job; what it has read and chosen must  *)
(* be as its next step needs it.                                           *)
LEMMA GotoStep ==
  ASSUME ProcsOK, SnapsOK, Copies, NEW p \in Procs,
         NEW label \in Labels, label # "idle", pc[p] # "idle", Goto(p, label),
         lock' \in Procs \cup {Nobody},
         NEW s \in [passwd : PasswdDB, shadow : ShadowDB, group : GroupDB],
         NEW u \in Nat, NEW g \in Nat,
         snap' = [snap EXCEPT ![p] = s],
         newUid' = [newUid EXCEPT ![p] = u], newGid' = [newGid EXCEPT ![p] = g],
         Copy(p)'
  PROVE  ProcsOK' /\ SnapsOK' /\ Copies'
<1>1. SnapsOK'
  BY DEF SnapsOK
<1>2. ProcsOK'
  BY DEF ProcsOK, Goto
<1>3. ASSUME NEW q \in Procs, q # p PROVE Copy(q)'
  <2>1. Unmoved(q)
    BY <1>3 DEF Goto, ProcsOK, SnapsOK, Unmoved
  <2> QED BY <2>1, UnmovedCopy DEF Copies
<1> QED BY <1>1, <1>2, <1>3 DEF Copies

(* Unchanged choices, in the form GotoStep wants them. *)
LEMMA Kept ==
  ASSUME ProcsOK, SnapsOK, NEW p \in Procs
  PROVE  /\ UNCHANGED newUid => newUid' = [newUid EXCEPT ![p] = newUid[p]]
         /\ UNCHANGED newGid => newGid' = [newGid EXCEPT ![p] = newGid[p]]
         /\ UNCHANGED snap => snap' = [snap EXCEPT ![p] = snap[p]]
         /\ newUid[p] \in Nat /\ newGid[p] \in Nat
         /\ snap[p] \in [passwd : PasswdDB, shadow : ShadowDB, group : GroupDB]
  BY DEF ProcsOK, SnapsOK

(* Releasing or keeping the lock leaves it with a process or with nobody.  *)
LEMMA StoreLock ==
  ASSUME ProcsOK, NEW p \in Procs, Release(p) \/ UNCHANGED lock
  PROVE  lock' \in Procs \cup {Nobody}
  BY DEF ProcsOK, Release

(* A step that ends the process and leaves the files alone. *)
LEMMA Quit ==
  ASSUME IInv, NEW p \in Procs, Exit(p), UNCHANGED files,
         lock' \in Procs \cup {Nobody}
  PROVE  IInv'
<1>1. FilesOK' /\ UniqueIds'
  BY DEF IInv, TypeOK, FilesOK, UniqueIds, files
<1> QED BY <1>1, ExitStep DEF IInv, TypeOK

(* What the invariant says of the job of a process that has one. *)
LEMMA JobOK ==
  ASSUME IInv, NEW p \in Procs, job[p] # NoJob
  PROVE  /\ Me(p) \in Names /\ job[p].id \in Nat /\ job[p].op \in Ops
         /\ job[p].pw \in Password /\ job[p].shell \in Shells
         /\ job[p].ingroup # NoGroup => job[p].ingroup \in Names
         /\ pc[p] # "idle"
  BY JobAssumption DEF IInv, TypeOK, ProcsOK, Job, Me

(* A step that goes on to label with copies s and choices u and g. *)
Snap == [passwd : PasswdDB, shadow : ShadowDB, group : GroupDB]
Ready(p, label, s, u, g) ==
  /\ UniqueUser(s.passwd) /\ UniqueGid(s.group)
  /\ job[p].kind = "adduser" /\ label \in {"readGroup", "writeGroup", "writePasswd"} =>
       ~HasLine(s.passwd, Me(p)) /\ ~UidUsed(s.passwd, u)
  /\ job[p].kind \in {"adduser", "addgroup"} /\ label = "writeGroup" =>
       ~GidUsed(s.group, g)
  /\ job[p].kind = "chsh" /\ label = "writePasswd" => HasLine(s.passwd, Me(p))
  /\ job[p].kind = "passwd" /\ label = "writeShadow" => HasLine(s.shadow, Me(p))

(* Such a step keeps the invariant when the copies are ready for label.    *)
LEMMA Advance ==
  ASSUME IInv, NEW p \in Procs, job[p] # NoJob,
         NEW label \in Labels, label # "idle", Goto(p, label),
         lock' \in Procs \cup {Nobody},
         NEW s \in Snap, NEW u \in Nat, NEW g \in Nat,
         snap' = [snap EXCEPT ![p] = s],
         newUid' = [newUid EXCEPT ![p] = u], newGid' = [newGid EXCEPT ![p] = g],
         Ready(p, label, s, u, g), FilesOK', UniqueIds'
  PROVE  IInv'
<1>1. /\ snap'[p] = s /\ newUid'[p] = u /\ newGid'[p] = g
      /\ pc'[p] = label /\ job'[p] = job[p]
  BY DEF IInv, TypeOK, SnapsOK, ProcsOK, Goto
<1>2. Copy(p)'
  BY <1>1 DEF Copy, Ready, At, Me
<1>3. pc[p] # "idle"
  BY JobOK
<1>4. ProcsOK' /\ SnapsOK' /\ Copies'
  BY <1>2, <1>3, GotoStep DEF IInv, TypeOK, Snap
<1> QED BY <1>4 DEF IInv, TypeOK

(* What a process holds before its step. *)
LEMMA Held ==
  ASSUME IInv, NEW p \in Procs, job[p] # NoJob
  PROVE  /\ snap[p] \in Snap /\ newUid[p] \in Nat /\ newGid[p] \in Nat
         /\ UNCHANGED newUid => newUid' = [newUid EXCEPT ![p] = newUid[p]]
         /\ UNCHANGED newGid => newGid' = [newGid EXCEPT ![p] = newGid[p]]
         /\ UNCHANGED snap => snap' = [snap EXCEPT ![p] = snap[p]]
         /\ Copy(p) /\ UniqueIds /\ FilesOK
         /\ Release(p) \/ UNCHANGED lock => lock' \in Procs \cup {Nobody}
         /\ UNCHANGED files => FilesOK' /\ UniqueIds'
  BY Kept, StoreLock DEF IInv, TypeOK, Copies, FilesOK, UniqueIds, files, Snap

(* Advance for a process whose choices stay as they are. *)
LEMMA Continue ==
  ASSUME IInv, NEW p \in Procs, job[p] # NoJob,
         NEW label \in Labels, label # "idle", Goto(p, label),
         Release(p) \/ UNCHANGED lock, UNCHANGED <<newUid, newGid>>,
         NEW s \in Snap, snap' = [snap EXCEPT ![p] = s],
         Ready(p, label, s, newUid[p], newGid[p]), FilesOK', UniqueIds'
  PROVE  IInv'
<1>1. /\ lock' \in Procs \cup {Nobody} /\ newUid[p] \in Nat /\ newGid[p] \in Nat
      /\ newUid' = [newUid EXCEPT ![p] = newUid[p]]
      /\ newGid' = [newGid EXCEPT ![p] = newGid[p]]
  BY Held
<1> QED BY <1>1, Advance

(* A step that ends the process after replacing a file. *)
LEMMA Finish ==
  ASSUME IInv, NEW p \in Procs, job[p] # NoJob, Exit(p),
         Release(p) \/ UNCHANGED lock, FilesOK', UniqueIds'
  PROVE  IInv'
  BY ExitStep, Held DEF IInv, TypeOK

(* AdduserReadPasswd keeps the inductive invariant.                        *)
LEMMA AdduserReadPasswdStep ==
  ASSUME IInv, NEW p \in Procs, AdduserReadPasswd(p) PROVE IInv'
<1> DEFINE uid == ChooseUid(passwd, job[p].id)
           s   == [snap[p] EXCEPT !.passwd = passwd]
<1>1. /\ At(p, "adduser", "readPasswd") /\ UNCHANGED files /\ UNCHANGED lock
      /\ \/ Exit(p)
         \/ /\ ~HasLine(passwd, Me(p)) /\ uid # NoId
            /\ snap' = [snap EXCEPT ![p] = s]
            /\ newUid' = [newUid EXCEPT ![p] = uid]
            /\ Goto(p, "readGroup") /\ UNCHANGED newGid
  BY DEF AdduserReadPasswd, files
<1>2. job[p] # NoJob
  BY <1>1 DEF At
<1>3. CASE Exit(p)
  BY <1>1, <1>2, <1>3, Quit, Held
<1>4. CASE ~Exit(p)
  <2>1. uid \in Nat /\ ~UidUsed(passwd, uid)
    BY <1>1, <1>2, <1>4, JobOK, ChosenIds
  <2>2. s \in Snap /\ s.passwd = passwd /\ s.group = snap[p].group
    BY <1>2, Held DEF Snap, FilesOK
  <2> HIDE DEF s, uid
  <2>3. Ready(p, "readGroup", s, uid, newGid[p])
    BY <1>1, <1>2, <1>4, <2>1, <2>2, Held DEF Ready, Copy, UniqueIds, At
  <2> QED BY <1>1, <1>2, <1>4, <2>1, <2>2, <2>3, Advance, Held DEF Labels
<1> QED BY <1>3, <1>4

(* AdduserReadGroup keeps the inductive invariant.                         *)
LEMMA AdduserReadGroupStep ==
  ASSUME IInv, NEW p \in Procs, AdduserReadGroup(p) PROVE IInv'
<1> DEFINE g   == job[p].ingroup
           own == OwnGid(group, newUid[p])
           s   == [snap[p] EXCEPT !.group = group]
<1>1. /\ At(p, "adduser", "readGroup") /\ UNCHANGED files /\ UNCHANGED lock
      /\ \/ Exit(p)
         \/ /\ g # NoGroup /\ HasLine(group, g)
            /\ newGid' = [newGid EXCEPT ![p] = group[g][1].gid]
            /\ Goto(p, "writePasswd") /\ UNCHANGED <<snap, newUid>>
         \/ /\ g = NoGroup /\ own # NoId
            /\ newGid' = [newGid EXCEPT ![p] = own]
            /\ snap' = [snap EXCEPT ![p] = s]
            /\ Goto(p, "writeGroup") /\ UNCHANGED newUid
  BY DEF AdduserReadGroup, files
<1>2. job[p] # NoJob /\ At(p, "adduser", "readGroup")
  BY <1>1 DEF At
<1>3. CASE Exit(p)
  BY <1>1, <1>2, <1>3, Quit, Held
<1>4. CASE /\ g # NoGroup /\ HasLine(group, g)
           /\ newGid' = [newGid EXCEPT ![p] = group[g][1].gid]
           /\ Goto(p, "writePasswd") /\ UNCHANGED <<snap, newUid>>
  <2>1. group[g] \in Seq(GroupLine) /\ group[g] # <<>>
    BY <1>2, <1>4, JobOK, Held DEF FilesOK, GroupDB, HasLine
  <2>2. Len(group[g]) \in Nat \ {0}
    BY <2>1, EmptySeq
  <2>3. group[g][1] \in GroupLine
    BY <2>1, <2>2
  <2>4. group[g][1].gid \in Nat
    BY <2>3 DEF GroupLine
  <2>5. Ready(p, "writePasswd", snap[p], newUid[p], group[g][1].gid)
    BY <1>2, Held DEF Ready, Copy, At
  <2> DEFINE gid == group[g][1].gid
  <2>6. newGid' = [newGid EXCEPT ![p] = gid] /\ gid \in Nat /\ Goto(p, "writePasswd")
        /\ Ready(p, "writePasswd", snap[p], newUid[p], gid) /\ UNCHANGED <<snap, newUid>>
    BY <1>4, <2>4, <2>5
  <2> HIDE DEF gid, g
  <2>7. /\ lock' \in Procs \cup {Nobody} /\ newUid[p] \in Nat /\ snap[p] \in Snap
        /\ newUid' = [newUid EXCEPT ![p] = newUid[p]]
        /\ snap' = [snap EXCEPT ![p] = snap[p]] /\ FilesOK' /\ UniqueIds'
    BY <1>1, <1>2, <2>6, Held
  <2> QED BY <1>2, <2>6, <2>7, Advance DEF Labels
<1>5. CASE /\ g = NoGroup /\ own # NoId
           /\ newGid' = [newGid EXCEPT ![p] = own]
           /\ snap' = [snap EXCEPT ![p] = s]
           /\ Goto(p, "writeGroup") /\ UNCHANGED newUid
  <2>1. own \in Nat /\ ~GidUsed(group, own)
    BY <1>2, <1>5, Held, ChosenIds
  <2>2. s \in Snap /\ s.passwd = snap[p].passwd /\ s.group = group
    BY <1>2, Held DEF Snap, FilesOK
  <2> HIDE DEF s, own
  <2>3. Ready(p, "writeGroup", s, newUid[p], own)
    BY <1>2, <2>1, <2>2, Held DEF Ready, Copy, UniqueIds, At
  <2> QED BY <1>1, <1>2, <1>5, <2>1, <2>2, <2>3, Advance, Held DEF Labels
<1> QED BY <1>1, <1>3, <1>4, <1>5

(* AdduserWriteGroup keeps the inductive invariant.                        *)
LEMMA AdduserWriteGroupStep ==
  ASSUME IInv, NEW p \in Procs, AdduserWriteGroup(p) PROVE IInv'
<1> DEFINE l == [gid |-> newGid[p], members |-> {}]
           s == [snap[p] EXCEPT !.group = NoLines]
<1>1. /\ At(p, "adduser", "writeGroup") /\ job[p] # NoJob
      /\ group' = AddLine(snap[p].group, Me(p), l)
      /\ Goto(p, "writePasswd") /\ snap' = [snap EXCEPT ![p] = s]
      /\ UNCHANGED <<passwd, shadow, lock, newUid, newGid>>
  BY DEF AdduserWriteGroup, At
<1>2. l \in GroupLine /\ l.gid = newGid[p]
  BY <1>1, Held DEF GroupLine
<1>3. s \in Snap /\ s.passwd = snap[p].passwd /\ s.group = NoLines
  BY <1>1, Held, NoLinesUnique DEF Snap
<1> HIDE DEF l, s
<1>4. snap[p].group \in GroupDB /\ UniqueGid(snap[p].group) /\ ~GidUsed(snap[p].group, l.gid)
  BY <1>1, <1>2, Held DEF Snap, Copy
<1>5. group' \in GroupDB /\ UniqueGid(group')
  BY <1>1, <1>2, <1>4, AddLineType, AddLineUniqueGid, JobOK DEF GroupDB
<1>6. FilesOK' /\ UniqueIds'
  BY <1>1, <1>5, Held DEF FilesOK, UniqueIds
<1>7. Ready(p, "writePasswd", s, newUid[p], newGid[p])
  BY <1>1, <1>3, Held, NoLinesUnique DEF Ready, Copy, At
<1> QED BY <1>1, <1>3, <1>6, <1>7, Continue DEF Labels

(* AdduserWritePasswd keeps the inductive invariant.                       *)
LEMMA AdduserWritePasswdStep ==
  ASSUME IInv, NEW p \in Procs, AdduserWritePasswd(p) PROVE IInv'
<1> DEFINE l == [uid |-> newUid[p], gid |-> newGid[p], shell |-> job[p].shell]
           s == [snap[p] EXCEPT !.passwd = NoLines]
<1>1. /\ At(p, "adduser", "writePasswd") /\ job[p] # NoJob
      /\ passwd' = AddLine(snap[p].passwd, Me(p), l)
      /\ Goto(p, "readShadow") /\ snap' = [snap EXCEPT ![p] = s]
      /\ UNCHANGED <<shadow, group, lock, newUid, newGid>>
  BY DEF AdduserWritePasswd, At
<1>2. l \in PasswdLine /\ l.uid = newUid[p]
  BY <1>1, Held, JobOK DEF PasswdLine
<1>3. s \in Snap /\ s.passwd = NoLines /\ s.group = snap[p].group
  BY <1>1, Held, NoLinesUnique DEF Snap
<1> HIDE DEF l, s
<1>4. /\ snap[p].passwd \in PasswdDB /\ UniqueUser(snap[p].passwd)
      /\ ~HasLine(snap[p].passwd, Me(p)) /\ ~UidUsed(snap[p].passwd, l.uid)
  BY <1>1, <1>2, Held DEF Snap, Copy
<1>5. passwd' \in PasswdDB /\ UniqueUser(passwd')
  BY <1>1, <1>2, <1>4, AddLineType, AddLineUniqueUser, JobOK DEF PasswdDB
<1>6. FilesOK' /\ UniqueIds'
  BY <1>1, <1>5, Held DEF FilesOK, UniqueIds
<1>7. Ready(p, "readShadow", s, newUid[p], newGid[p])
  BY <1>1, <1>3, Held, NoLinesUnique DEF Ready, Copy, At
<1> QED BY <1>1, <1>3, <1>6, <1>7, Continue DEF Labels

(* ReadShadow keeps the inductive invariant.                               *)
LEMMA ReadShadowStep ==
  ASSUME IInv, NEW p \in Procs, ReadShadow(p) PROVE IInv'
<1> DEFINE s == [snap[p] EXCEPT !.shadow = shadow]
<1>1. /\ job[p] # NoJob /\ job[p].kind # "passwd" /\ UNCHANGED files
      /\ snap' = [snap EXCEPT ![p] = s] /\ Goto(p, "writeShadow")
      /\ UNCHANGED <<lock, newUid, newGid>>
  BY DEF ReadShadow, At, files
<1>2. s \in Snap /\ s.passwd = snap[p].passwd /\ s.group = snap[p].group
  BY <1>1, Held DEF Snap, FilesOK
<1> HIDE DEF s
<1>3. Ready(p, "writeShadow", s, newUid[p], newGid[p])
  BY <1>1, <1>2, Held DEF Ready, Copy
<1> QED BY <1>1, <1>2, <1>3, Held, Continue DEF Labels

(* AdduserWriteShadow keeps the inductive invariant.                       *)
LEMMA AdduserWriteShadowStep ==
  ASSUME IInv, NEW p \in Procs, AdduserWriteShadow(p) PROVE IInv'
<1>1. /\ job[p] # NoJob /\ shadow' = AddLine(snap[p].shadow, Me(p), LockedPassword)
      /\ Exit(p) /\ UNCHANGED <<passwd, group, lock>>
  BY DEF AdduserWriteShadow, At
<1>2. LockedPassword \in Password
  BY DEF LockedPassword, Password
<1>3. shadow' \in ShadowDB
  BY <1>1, <1>2, Held, JobOK, AddLineType DEF Snap, ShadowDB
<1> QED BY <1>1, <1>3, Held, Finish DEF FilesOK, UniqueIds

(* DeluserReadPasswd keeps the inductive invariant.                        *)
LEMMA DeluserReadPasswdStep ==
  ASSUME IInv, NEW p \in Procs, DeluserReadPasswd(p) PROVE IInv'
<1> DEFINE s == [snap[p] EXCEPT !.passwd = passwd]
<1>1. /\ At(p, "deluser", "readPasswd") /\ job[p] # NoJob /\ UNCHANGED files
      /\ UNCHANGED lock
      /\ \/ Exit(p)
         \/ /\ snap' = [snap EXCEPT ![p] = s] /\ Goto(p, "writePasswd")
            /\ UNCHANGED <<newUid, newGid>>
  BY DEF DeluserReadPasswd, At, files
<1>2. s \in Snap /\ s.passwd = passwd /\ s.group = snap[p].group
  BY <1>1, Held DEF Snap, FilesOK
<1> HIDE DEF s
<1>3. Ready(p, "writePasswd", s, newUid[p], newGid[p])
  BY <1>1, <1>2, Held DEF Ready, Copy, At, UniqueIds
<1> QED BY <1>1, <1>2, <1>3, Held, Continue, Finish DEF Labels

(* DeluserWritePasswd keeps the inductive invariant.                       *)
LEMMA DeluserWritePasswdStep ==
  ASSUME IInv, NEW p \in Procs, DeluserWritePasswd(p) PROVE IInv'
<1> DEFINE s == [snap[p] EXCEPT !.passwd = NoLines]
<1>1. /\ At(p, "deluser", "writePasswd") /\ job[p] # NoJob
      /\ passwd' = DropLines(snap[p].passwd, Me(p))
      /\ Goto(p, "readShadow") /\ snap' = [snap EXCEPT ![p] = s]
      /\ UNCHANGED <<shadow, group, lock, newUid, newGid>>
  BY DEF DeluserWritePasswd, At
<1>2. s \in Snap /\ s.passwd = NoLines /\ s.group = snap[p].group
  BY <1>1, Held, NoLinesUnique DEF Snap
<1> HIDE DEF s
<1>3. snap[p].passwd \in PasswdDB /\ UniqueUser(snap[p].passwd)
  BY <1>1, Held DEF Snap, Copy
<1>4. passwd' \in PasswdDB /\ UniqueUser(passwd')
  BY <1>1, <1>3, DropLinesType, DropLinesUnique, JobOK DEF PasswdDB
<1>5. FilesOK' /\ UniqueIds'
  BY <1>1, <1>4, Held DEF FilesOK, UniqueIds
<1>6. Ready(p, "readShadow", s, newUid[p], newGid[p])
  BY <1>1, <1>2, Held, NoLinesUnique DEF Ready, Copy, At
<1> QED BY <1>1, <1>2, <1>5, <1>6, Continue DEF Labels

(* DeluserWriteShadow keeps the inductive invariant.                       *)
LEMMA DeluserWriteShadowStep ==
  ASSUME IInv, NEW p \in Procs, DeluserWriteShadow(p) PROVE IInv'
<1> DEFINE s == [snap[p] EXCEPT !.shadow = NoLines]
<1>1. /\ At(p, "deluser", "writeShadow") /\ job[p] # NoJob
      /\ shadow' = DropLines(snap[p].shadow, Me(p))
      /\ Goto(p, "readGroup") /\ snap' = [snap EXCEPT ![p] = s]
      /\ UNCHANGED <<passwd, group, lock, newUid, newGid>>
  BY DEF DeluserWriteShadow, At
<1>2. s \in Snap /\ s.passwd = snap[p].passwd /\ s.group = snap[p].group
  BY <1>1, Held, NoLinesUnique DEF Snap
<1> HIDE DEF s
<1>3. shadow' \in ShadowDB
  BY <1>1, DropLinesType, JobOK, Held DEF Snap, ShadowDB
<1>4. FilesOK' /\ UniqueIds'
  BY <1>1, <1>3, Held DEF FilesOK, UniqueIds
<1>5. Ready(p, "readGroup", s, newUid[p], newGid[p])
  BY <1>1, <1>2, Held DEF Ready, Copy, At
<1> QED BY <1>1, <1>2, <1>4, <1>5, Continue DEF Labels

(* DeluserReadGroup keeps the inductive invariant.                         *)
LEMMA DeluserReadGroupStep ==
  ASSUME IInv, NEW p \in Procs, DeluserReadGroup(p) PROVE IInv'
<1> DEFINE s == [snap[p] EXCEPT !.group = group]
<1>1. /\ At(p, "deluser", "readGroup") /\ job[p] # NoJob /\ UNCHANGED files
      /\ snap' = [snap EXCEPT ![p] = s] /\ Goto(p, "writeGroup")
      /\ UNCHANGED <<lock, newUid, newGid>>
  BY DEF DeluserReadGroup, At, files
<1>2. s \in Snap /\ s.passwd = snap[p].passwd /\ s.group = group
  BY <1>1, Held DEF Snap, FilesOK
<1> HIDE DEF s
<1>3. Ready(p, "writeGroup", s, newUid[p], newGid[p])
  BY <1>1, <1>2, Held DEF Ready, Copy, At, UniqueIds
<1> QED BY <1>1, <1>2, <1>3, Held, Continue DEF Labels

(* DeluserWriteGroup keeps the inductive invariant.                        *)
LEMMA DeluserWriteGroupStep ==
  ASSUME IInv, NEW p \in Procs, DeluserWriteGroup(p) PROVE IInv'
<1>1. /\ job[p] # NoJob /\ group' = DropMember(snap[p].group, Me(p))
      /\ Exit(p) /\ UNCHANGED <<passwd, shadow, lock>>
  BY DEF DeluserWriteGroup, At
<1>2. group' \in GroupDB /\ UniqueGid(group')
  BY <1>1, Held, JobOK, DropMemberType, DropMemberUnique DEF Snap, Copy
<1> QED BY <1>1, <1>2, Held, Finish DEF FilesOK, UniqueIds

(* AddgroupRead keeps the inductive invariant.                             *)
LEMMA AddgroupReadStep ==
  ASSUME IInv, NEW p \in Procs, AddgroupRead(p) PROVE IInv'
<1> DEFINE gid == ChooseGid(group, job[p].id)
           s   == [snap[p] EXCEPT !.group = group]
<1>1. /\ At(p, "addgroup", "readGroup") /\ job[p] # NoJob /\ UNCHANGED files
      /\ UNCHANGED lock
      /\ \/ Exit(p)
         \/ /\ gid # NoId /\ snap' = [snap EXCEPT ![p] = s]
            /\ newGid' = [newGid EXCEPT ![p] = gid]
            /\ Goto(p, "writeGroup") /\ UNCHANGED newUid
  BY DEF AddgroupRead, At, files
<1>2. gid \in Nat /\ (gid # NoId => ~GidUsed(group, gid))
  BY <1>1, JobOK, ChosenIds
<1>3. s \in Snap /\ s.passwd = snap[p].passwd /\ s.group = group
  BY <1>1, Held DEF Snap, FilesOK
<1> HIDE DEF s, gid
<1>4. CASE Exit(p)
  BY <1>1, <1>4, Held, Finish
<1>5. CASE ~Exit(p)
  <2>1. Ready(p, "writeGroup", s, newUid[p], gid)
    BY <1>1, <1>2, <1>3, <1>5, Held DEF Ready, Copy, At, UniqueIds
  <2>2. /\ lock' \in Procs \cup {Nobody} /\ newUid[p] \in Nat
        /\ newUid' = [newUid EXCEPT ![p] = newUid[p]] /\ FilesOK' /\ UniqueIds'
    BY <1>1, <1>5, Held
  <2> QED BY <1>1, <1>2, <1>3, <1>5, <2>1, <2>2, Advance DEF Labels
<1> QED BY <1>4, <1>5

(* AddgroupWrite keeps the inductive invariant.                            *)
LEMMA AddgroupWriteStep ==
  ASSUME IInv, NEW p \in Procs, AddgroupWrite(p) PROVE IInv'
<1> DEFINE l == [gid |-> newGid[p], members |-> {}]
<1>1. /\ At(p, "addgroup", "writeGroup") /\ job[p] # NoJob
      /\ group' = AddLine(snap[p].group, Me(p), l)
      /\ Exit(p) /\ UNCHANGED <<passwd, shadow, lock>>
  BY DEF AddgroupWrite, At
<1>2. l \in GroupLine /\ l.gid = newGid[p]
  BY <1>1, Held DEF GroupLine
<1> HIDE DEF l
<1>3. snap[p].group \in GroupDB /\ UniqueGid(snap[p].group) /\ ~GidUsed(snap[p].group, l.gid)
  BY <1>1, <1>2, Held DEF Snap, Copy
<1>4. group' \in GroupDB /\ UniqueGid(group')
  BY <1>1, <1>2, <1>3, AddLineType, AddLineUniqueGid, JobOK DEF GroupDB
<1> QED BY <1>1, <1>4, Held, Finish DEF FilesOK, UniqueIds

(* DelgroupRead keeps the inductive invariant.                             *)
LEMMA DelgroupReadStep ==
  ASSUME IInv, NEW p \in Procs, DelgroupRead(p) PROVE IInv'
<1> DEFINE s == [snap[p] EXCEPT !.group = group]
<1>1. /\ At(p, "delgroup", "readGroup") /\ job[p] # NoJob /\ UNCHANGED files
      /\ UNCHANGED lock
      /\ \/ Exit(p)
         \/ /\ snap' = [snap EXCEPT ![p] = s] /\ Goto(p, "writeGroup")
            /\ UNCHANGED <<newUid, newGid>>
  BY DEF DelgroupRead, At, files
<1>2. s \in Snap /\ s.passwd = snap[p].passwd /\ s.group = group
  BY <1>1, Held DEF Snap, FilesOK
<1> HIDE DEF s
<1>3. Ready(p, "writeGroup", s, newUid[p], newGid[p])
  BY <1>1, <1>2, Held DEF Ready, Copy, At, UniqueIds
<1> QED BY <1>1, <1>2, <1>3, Held, Continue, Finish DEF Labels

(* DelgroupWrite keeps the inductive invariant.                            *)
LEMMA DelgroupWriteStep ==
  ASSUME IInv, NEW p \in Procs, DelgroupWrite(p) PROVE IInv'
<1>1. /\ job[p] # NoJob /\ group' = DropLines(snap[p].group, Me(p))
      /\ Exit(p) /\ UNCHANGED <<passwd, shadow, lock>>
  BY DEF DelgroupWrite, At
<1>2. snap[p].group \in GroupDB /\ UniqueGid(snap[p].group)
  BY <1>1, Held DEF Snap, Copy
<1>3. group' \in GroupDB /\ UniqueGid(group')
  BY <1>1, <1>2, JobOK, DropLinesType, DropLinesUnique DEF GroupDB
<1> QED BY <1>1, <1>3, Held, Finish DEF FilesOK, UniqueIds

(* ChshRead keeps the inductive invariant.                                 *)
LEMMA ChshReadStep ==
  ASSUME IInv, NEW p \in Procs, ChshRead(p) PROVE IInv'
<1> DEFINE s == [snap[p] EXCEPT !.passwd = passwd]
<1>1. /\ At(p, "chsh", "readPasswd") /\ job[p] # NoJob /\ UNCHANGED files
      /\ UNCHANGED lock
      /\ \/ Exit(p)
         \/ /\ HasLine(passwd, Me(p)) /\ snap' = [snap EXCEPT ![p] = s]
            /\ Goto(p, "writePasswd") /\ UNCHANGED <<newUid, newGid>>
  BY DEF ChshRead, At, files
<1>2. s \in Snap /\ s.passwd = passwd /\ s.group = snap[p].group
  BY <1>1, Held DEF Snap, FilesOK
<1> HIDE DEF s
<1>3. CASE Exit(p)
  BY <1>1, <1>3, Held, Finish
<1>4. CASE ~Exit(p)
  <2>1. Ready(p, "writePasswd", s, newUid[p], newGid[p])
    BY <1>1, <1>2, <1>4, Held DEF Ready, Copy, At, UniqueIds
  <2> QED BY <1>1, <1>2, <1>4, <2>1, Held, Continue DEF Labels
<1> QED BY <1>3, <1>4

(* ChshWrite keeps the inductive invariant.                                *)
LEMMA ChshWriteStep ==
  ASSUME IInv, NEW p \in Procs, ChshWrite(p) PROVE IInv'
<1>1. /\ At(p, "chsh", "writePasswd") /\ job[p] # NoJob
      /\ passwd' = [snap[p].passwd EXCEPT ![Me(p)][1].shell = job[p].shell]
      /\ Exit(p) /\ UNCHANGED <<shadow, group, lock>>
  BY DEF ChshWrite, At
<1>2. /\ snap[p].passwd \in PasswdDB /\ UniqueUser(snap[p].passwd)
      /\ HasLine(snap[p].passwd, Me(p))
  BY <1>1, Held DEF Snap, Copy
<1>3. passwd' \in PasswdDB /\ UniqueUser(passwd')
  BY <1>1, <1>2, JobOK, SetShell
<1> QED BY <1>1, <1>3, Held, Finish DEF FilesOK, UniqueIds

(* ChpasswdWrite keeps the inductive invariant.                            *)
LEMMA ChpasswdWriteStep ==
  ASSUME IInv, NEW p \in Procs, ChpasswdWrite(p) PROVE IInv'
<1>1. /\ job[p] # NoJob /\ shadow' = SetAll(snap[p].shadow, job[p].batch, job[p].pw)
      /\ Exit(p) /\ UNCHANGED <<passwd, group, lock>>
  BY DEF ChpasswdWrite, At
<1>2. shadow' \in ShadowDB
  BY <1>1, Held, JobOK, SetAllType DEF Snap
<1> QED BY <1>1, <1>2, Held, Finish DEF FilesOK, UniqueIds

(* PasswdLock keeps the inductive invariant.                               *)
LEMMA PasswdLockStep ==
  ASSUME IInv, NEW p \in Procs, PasswdLock(p) PROVE IInv'
<1>1. /\ At(p, "passwd", "lock") /\ job[p] # NoJob /\ UNCHANGED files
      /\ lock' \in {p, lock} /\ Goto(p, "readShadow") /\ UNCHANGED <<snap, newUid, newGid>>
  BY DEF PasswdLock, At, files
<1>2. /\ newUid[p] \in Nat /\ newGid[p] \in Nat /\ snap[p] \in Snap
      /\ FilesOK' /\ UniqueIds'
      /\ newUid' = [newUid EXCEPT ![p] = newUid[p]]
      /\ newGid' = [newGid EXCEPT ![p] = newGid[p]]
      /\ snap' = [snap EXCEPT ![p] = snap[p]]
  BY <1>1, Held
<1>4. lock' \in Procs \cup {Nobody}
  BY <1>1 DEF IInv, TypeOK, ProcsOK
<1>3. Ready(p, "readShadow", snap[p], newUid[p], newGid[p])
  BY <1>1, Held DEF Ready, Copy, At
<1>5. "readShadow" \in Labels /\ "readShadow" # "idle" /\ Goto(p, "readShadow") /\ job[p] # NoJob
  BY <1>1 DEF Labels
<1> QED BY <1>2, <1>3, <1>4, <1>5, Advance

(* PasswdRead keeps the inductive invariant.                               *)
LEMMA PasswdReadStep ==
  ASSUME IInv, NEW p \in Procs, PasswdRead(p) PROVE IInv'
<1> DEFINE s == [snap[p] EXCEPT !.shadow = shadow]
<1>1. /\ At(p, "passwd", "readShadow") /\ job[p] # NoJob /\ UNCHANGED files
      /\ UNCHANGED <<lock, newUid, newGid>>
      /\ \/ Goto(p, "unlock") /\ UNCHANGED snap
         \/ /\ HasLine(shadow, Me(p)) /\ snap' = [snap EXCEPT ![p] = s]
            /\ Goto(p, "writeShadow")
  BY DEF PasswdRead, At, files
<1>2. /\ s \in Snap /\ s.passwd = snap[p].passwd /\ s.group = snap[p].group
      /\ s.shadow = shadow
  BY <1>1, Held DEF Snap, FilesOK
<1> HIDE DEF s
<1>3. CASE Goto(p, "unlock") /\ UNCHANGED snap
  <2>1. Ready(p, "unlock", snap[p], newUid[p], newGid[p])
    BY <1>1, Held DEF Ready, Copy, At
  <2> QED BY <1>1, <1>3, <2>1, Held, Continue DEF Labels
<1>4. CASE /\ HasLine(shadow, Me(p)) /\ snap' = [snap EXCEPT ![p] = s]
           /\ Goto(p, "writeShadow")
  <2>1. Ready(p, "writeShadow", s, newUid[p], newGid[p])
    BY <1>1, <1>2, <1>4, Held DEF Ready, Copy, At
  <2> QED BY <1>1, <1>2, <1>4, <2>1, Held, Continue DEF Labels
<1> QED BY <1>1, <1>3, <1>4

(* PasswdWrite keeps the inductive invariant.                              *)
LEMMA PasswdWriteStep ==
  ASSUME IInv, NEW p \in Procs, PasswdWrite(p) PROVE IInv'
<1> DEFINE s == [snap[p] EXCEPT !.shadow = NoLines]
<1>1. /\ At(p, "passwd", "writeShadow") /\ job[p] # NoJob
      /\ shadow' = ChangeFirst(snap[p].shadow, Me(p), job[p].op, job[p].pw)
      /\ Goto(p, "unlock") /\ snap' = [snap EXCEPT ![p] = s]
      /\ UNCHANGED <<passwd, group, lock, newUid, newGid>>
  BY DEF PasswdWrite, At
<1>2. s \in Snap /\ s.passwd = snap[p].passwd /\ s.group = snap[p].group
  BY <1>1, Held, NoLinesUnique DEF Snap
<1> HIDE DEF s
<1>3. snap[p].shadow \in ShadowDB /\ HasLine(snap[p].shadow, Me(p))
  BY <1>1, Held DEF Snap, Copy
<1>4. shadow' \in ShadowDB
  BY <1>1, <1>3, JobOK, ChangeFirstType
<1>5. FilesOK' /\ UniqueIds'
  BY <1>1, <1>4, Held DEF FilesOK, UniqueIds
<1>6. Ready(p, "unlock", s, newUid[p], newGid[p])
  BY <1>1, <1>2, Held DEF Ready, Copy, At
<1> QED BY <1>1, <1>2, <1>5, <1>6, Continue DEF Labels

(* PasswdUnlock keeps the inductive invariant.                             *)
LEMMA PasswdUnlockStep ==
  ASSUME IInv, NEW p \in Procs, PasswdUnlock(p) PROVE IInv'
<1>1. job[p] # NoJob /\ Release(p) /\ Exit(p) /\ UNCHANGED files
  BY DEF PasswdUnlock, At, files
<1> QED BY <1>1, Held, Finish

(* Abort keeps the inductive invariant.                                    *)
LEMMA AbortStep ==
  ASSUME IInv, NEW p \in Procs, Abort(p) PROVE IInv'
<1>1. job[p] # NoJob /\ Release(p) /\ Exit(p) /\ UNCHANGED files
  BY DEF Abort, files, IInv, TypeOK, ProcsOK
<1> QED BY <1>1, Held, Finish

(* Start keeps the inductive invariant.                                    *)
LEMMA StartStep ==
  ASSUME IInv, NEW p \in Procs, Start(p) PROVE IInv'
<1>1. PICK j \in Jobs :
        /\ pc[p] = "idle" /\ jobs < MaxJobs /\ jobs' = jobs + 1
        /\ job' = [job EXCEPT ![p] = j] /\ pc' = [pc EXCEPT ![p] = FirstStep(j.kind)]
        /\ UNCHANGED <<passwd, shadow, group, lock, snap, newUid, newGid>>
  BY DEF Start
<1>2. /\ j # NoJob
      /\ FirstStep(j.kind) \in {"readPasswd", "readGroup", "readShadow", "lock"}
      /\ j.kind = "adduser" => FirstStep(j.kind) = "readPasswd"
  BY JobAssumption DEF FirstStep, Job, Kinds
<1>3. FilesOK' /\ SnapsOK' /\ UniqueIds'
  BY <1>1 DEF IInv, TypeOK, FilesOK, SnapsOK, UniqueIds
<1>4. ProcsOK'
  BY <1>1, <1>2, IdAssumption DEF IInv, TypeOK, ProcsOK, Labels
<1>5. Copy(p)'
  <2>1. job'[p] = j /\ pc'[p] = FirstStep(j.kind) /\ snap'[p] = snap[p]
    BY <1>1 DEF IInv, TypeOK, ProcsOK
  <2>2. UniqueUser(snap[p].passwd) /\ UniqueGid(snap[p].group)
    BY DEF IInv, Copies, Copy
  <2> QED BY <1>2, <2>1, <2>2 DEF Copy, At
<1>6. ASSUME NEW q \in Procs, q # p PROVE Copy(q)'
  <2>1. Unmoved(q)
    BY <1>1, <1>6 DEF IInv, TypeOK, ProcsOK, Unmoved
  <2> QED BY <2>1, UnmovedCopy DEF IInv, Copies
<1> QED BY <1>3, <1>4, <1>5, <1>6 DEF IInv, TypeOK, Copies

-----------------------------------------------------------------------------
LEMMA InitIInv == Init => IInv
<1> SUFFICES ASSUME Init PROVE IInv
  OBVIOUS
<1>a. PICK users \in SUBSET Names : \E id \in IdMaps : \E pw \in [users -> Fields] :
        \E mates \in SUBSET users : Begin(users, id, pw, mates)
  BY DEF Init
<1>b. PICK id \in IdMaps : \E pw \in [users -> Fields] :
        \E mates \in SUBSET users : Begin(users, id, pw, mates)
  BY <1>a
<1>c. PICK pw \in [users -> Fields] : \E mates \in SUBSET users : Begin(users, id, pw, mates)
  BY <1>b
<1>d. PICK mates \in SUBSET users : Begin(users, id, pw, mates)
  BY <1>c
<1>1. /\ passwd = [n \in Names |-> IF n \notin users THEN <<>> ELSE
                     <<[uid |-> id[n], gid |-> id[n], shell |-> DefaultShell]>>]
      /\ shadow = [n \in Names |-> IF n \notin users THEN <<>> ELSE <<pw[n]>>]
      /\ group  = [n \in Names |-> IF n \notin users THEN <<>> ELSE
                     <<[gid |-> id[n], members |-> mates \ {n}]>>]
      /\ lock = Nobody /\ jobs = 0
      /\ job  = [p \in Procs |-> NoJob] /\ pc = [p \in Procs |-> "idle"]
      /\ snap = [p \in Procs |-> NoSnap]
      /\ newUid = [p \in Procs |-> NoId] /\ newGid = [p \in Procs |-> NoId]
  BY <1>d DEF Begin
<1>2. \A n \in Names : id[n] \in Nat
  BY IdAssumption DEF IdMaps
<1>3. \A m, n \in Names : id[m] = id[n] => m = n
  BY DEF IdMaps
<1>4. passwd \in PasswdDB /\ UniqueUser(passwd)
  <2>1. ASSUME NEW n \in Names
        PROVE  <<[uid |-> id[n], gid |-> id[n], shell |-> DefaultShell]>> \in Seq(PasswdLine)
    BY <1>2, ShellAssumption DEF PasswdLine
  <2>2. passwd \in PasswdDB
    BY <1>1, <2>1 DEF PasswdDB
  <2>3. UniqueUser(passwd)
    <3>1. ASSUME NEW n \in Names PROVE Len(passwd[n]) <= 1
      BY <1>1
    <3>2. ASSUME NEW n \in Names, NEW i \in DOMAIN passwd[n]
          PROVE  i = 1 /\ passwd[n][i].uid = id[n]
      BY <1>1
    <3> QED BY <3>1, <3>2, <1>3 DEF UniqueUser
  <2> QED BY <2>2, <2>3
<1>5. group \in GroupDB /\ UniqueGid(group)
  <2>1. ASSUME NEW n \in Names
        PROVE  <<[gid |-> id[n], members |-> mates \ {n}]>> \in Seq(GroupLine)
    BY <1>2 DEF GroupLine
  <2>2. group \in GroupDB
    BY <1>1, <2>1 DEF GroupDB
  <2>3. UniqueGid(group)
    <3>1. ASSUME NEW n \in Names, NEW i \in DOMAIN group[n]
          PROVE  i = 1 /\ group[n][i].gid = id[n]
      BY <1>1
    <3> QED BY <3>1, <1>3 DEF UniqueGid
  <2> QED BY <2>2, <2>3
<1>6. shadow \in ShadowDB
  <2>0. Fields \subseteq Password
    <3>1. LockedPassword \in Password
      BY DEF LockedPassword, Password
    <3>2. ASSUME NEW f \in [locked : {FALSE}, hash : Hashes] PROVE f \in Password
      BY DEF Password
    <3> QED BY <3>1, <3>2 DEF Fields
  <2>1. ASSUME NEW n \in users PROVE pw[n] \in Password
    BY <2>0
  <2>2. ASSUME NEW n \in users PROVE <<pw[n]>> \in Seq(Password)
    BY <2>1
  <2> QED BY <1>1, <2>2 DEF ShadowDB
<1>7. SnapsOK
  BY <1>1, NoLinesUnique DEF SnapsOK, NoSnap
<1>8. ProcsOK
  BY <1>1, IdAssumption DEF ProcsOK, Labels, NoId
<1>9. Copies
  BY <1>1, NoLinesUnique DEF Copies, Copy, At, NoSnap
<1> QED BY <1>4, <1>5, <1>6, <1>7, <1>8, <1>9 DEF IInv, TypeOK, FilesOK, UniqueIds

(* Every step, or none, keeps the inductive invariant.                     *)
LEMMA NextIInv == IInv /\ [Next]_vars => IInv'
<1> SUFFICES ASSUME IInv, [Next]_vars PROVE IInv'
  OBVIOUS
<1>1. CASE UNCHANGED vars
  BY <1>1 DEF vars, IInv, TypeOK, FilesOK, ProcsOK, SnapsOK, UniqueIds, Copies,
              Copy, At, Me
<1>2. ASSUME NEW p \in Procs, Start(p) PROVE IInv'
  BY <1>2, StartStep
<1>3. ASSUME NEW p \in Procs, Abort(p) PROVE IInv'
  BY <1>3, AbortStep
<1>4. ASSUME NEW p \in Procs, Step(p) PROVE IInv'
  BY <1>4, AdduserReadPasswdStep, AdduserReadGroupStep, AdduserWriteGroupStep,
     AdduserWritePasswdStep, ReadShadowStep, AdduserWriteShadowStep,
     DeluserReadPasswdStep, DeluserWritePasswdStep, DeluserWriteShadowStep,
     DeluserReadGroupStep, DeluserWriteGroupStep, AddgroupReadStep,
     AddgroupWriteStep, DelgroupReadStep, DelgroupWriteStep, ChshReadStep,
     ChshWriteStep, ChpasswdWriteStep, PasswdLockStep, PasswdReadStep,
     PasswdWriteStep, PasswdUnlockStep
     DEF Step
<1> QED BY <1>1, <1>2, <1>3, <1>4 DEF Next

(* The inductive invariant holds in every state.                           *)
THEOREM Invariance == Spec => []IInv
  BY InitIInv, NextIInv, PTL DEF Spec

(* Whatever runs together, the files keep their shape. *)
THEOREM TypeCorrect == Spec => []TypeOK
<1>1. IInv => TypeOK
  BY DEF IInv
<1> QED BY <1>1, Invariance, PTL

(* Whatever runs together, is killed or fails: user names, uids and gids   *)
(* stay unique, although every applet but passwd works without a lock.     *)
THEOREM IdsStayUnique == Spec => []UniqueIds
<1>1. IInv => UniqueIds
  BY DEF IInv
<1> QED BY <1>1, Invariance, PTL

-----------------------------------------------------------------------------
(* passwd alone, with a lockfile that can be opened and locked.  A process *)
(* between the lock and the unlock holds the lock, so there is one at a    *)
(* time, and the copy it has read is what shadow still holds.              *)
OnlyPasswd == ~MayMissLock /\ \A j \in Jobs : j.kind = "passwd"

Critical == {"readShadow", "writeShadow", "unlock"}
Holder(p) ==
  /\ pc[p] \in {"idle", "lock"} \cup Critical
  /\ pc[p] \in Critical => lock = p
  /\ pc[p] = "writeShadow" => snap[p].shadow = shadow
LockInv == IInv /\ \A p \in Procs : Holder(p)

(* With nothing but passwd at work only its four steps can happen.         *)
LEMMA OnlyPasswdSteps ==
  ASSUME OnlyPasswd, IInv, NEW p \in Procs, Step(p)
  PROVE  PasswdLock(p) \/ PasswdRead(p) \/ PasswdWrite(p) \/ PasswdUnlock(p)
<1>1. job[p] # NoJob => job[p].kind = "passwd"
  BY DEF OnlyPasswd, IInv, TypeOK, ProcsOK
<1> QED BY <1>1 DEF Step, At, AdduserReadPasswd, AdduserReadGroup, AdduserWriteGroup,
     AdduserWritePasswd, ReadShadow, AdduserWriteShadow, DeluserReadPasswd,
     DeluserWritePasswd, DeluserWriteShadow, DeluserReadGroup, DeluserWriteGroup,
     AddgroupRead, AddgroupWrite, DelgroupRead, DelgroupWrite, ChshRead, ChshWrite,
     ChpasswdWrite

(* A step of p that keeps the others out of the critical section. *)
LEMMA HolderStep ==
  ASSUME OnlyPasswd, LockInv, NEW p \in Procs, Start(p) \/ Step(p) \/ Abort(p)
  PROVE  \A q \in Procs : Holder(q)'
<1>0. IInv /\ \A q \in Procs : Holder(q)
  BY DEF LockInv
<1>t. /\ job \in [Procs -> Jobs \cup {NoJob}] /\ pc \in [Procs -> Labels]
      /\ snap \in [Procs -> Snap] /\ lock \in Procs \cup {Nobody}
  BY <1>0 DEF IInv, TypeOK, ProcsOK, SnapsOK, Snap
<1>1. CASE Start(p)
  <2>1. pc' = [pc EXCEPT ![p] = "lock"] /\ UNCHANGED <<shadow, lock, snap>>
    BY <1>1 DEF Start, OnlyPasswd, FirstStep
  <2> QED BY <1>0, <1>t, <2>1 DEF Holder, Critical
<1>2. CASE Abort(p) \/ PasswdUnlock(p)
  <2>1. /\ pc' = [pc EXCEPT ![p] = "idle"] /\ UNCHANGED shadow
        /\ snap' = [snap EXCEPT ![p] = NoSnap]
        /\ lock' = IF lock = p THEN Nobody ELSE lock
    BY <1>2 DEF Abort, PasswdUnlock, Exit, Release
  <2> QED BY <1>0, <1>t, <2>1 DEF Holder, Critical
<1>3. CASE PasswdLock(p)
  <2>1. /\ lock = Nobody /\ lock' = p /\ pc' = [pc EXCEPT ![p] = "readShadow"]
        /\ UNCHANGED <<shadow, snap>>
    BY <1>3 DEF PasswdLock, OnlyPasswd, Goto
  <2> QED BY <1>0, <1>t, <2>1, ProcAssumption DEF Holder, Critical
<1>4. CASE PasswdRead(p)
  <2>1. /\ pc[p] = "readShadow" /\ UNCHANGED <<shadow, lock>>
        /\ \/ pc' = [pc EXCEPT ![p] = "unlock"] /\ UNCHANGED snap
           \/ /\ pc' = [pc EXCEPT ![p] = "writeShadow"]
              /\ snap' = [snap EXCEPT ![p].shadow = shadow]
    BY <1>4 DEF PasswdRead, Goto, At
  <2> QED BY <1>0, <1>t, <2>1 DEF Holder, Critical, Snap
<1>5. CASE PasswdWrite(p)
  <2>1. /\ pc[p] = "writeShadow" /\ UNCHANGED lock
        /\ pc' = [pc EXCEPT ![p] = "unlock"]
        /\ snap' = [snap EXCEPT ![p].shadow = NoLines]
    BY <1>5 DEF PasswdWrite, Goto, At
  <2>2. lock = p
    BY <1>0, <2>1 DEF Holder, Critical
  <2>3. \A q \in Procs : q # p => pc[q] \in {"idle", "lock"}
    BY <1>0, <2>2 DEF Holder
  <2> QED BY <1>0, <1>t, <2>1, <2>2, <2>3 DEF Holder, Critical
<1> QED BY <1>0, <1>1, <1>2, <1>3, <1>4, <1>5, OnlyPasswdSteps

(* Mutual exclusion and the freshness of the holder's copy hold always.    *)
LEMMA LockInvariance == ASSUME OnlyPasswd PROVE Spec => []LockInv
<1>1. Init => LockInv
  <2>1. Init => \A p \in Procs : pc[p] = "idle"
    BY DEF Init, Begin
  <2> QED BY <2>1, InitIInv DEF LockInv, Holder, Critical
<1>2. LockInv /\ [Next]_vars => LockInv'
  <2>1. CASE UNCHANGED vars
    BY <2>1, NextIInv DEF LockInv, Holder, vars
  <2>2. CASE Next
    BY <2>2, NextIInv, HolderStep DEF LockInv, Next
  <2> QED BY <2>1, <2>2
<1> QED BY <1>1, <1>2, PTL DEF Spec

(* Only a passwd that holds the lock, with a copy that is still current,   *)
(* changes shadow.                                                         *)
LEMMA WriteIsCurrent ==
  ASSUME OnlyPasswd, LockInv, NEW p \in Procs, Start(p) \/ Step(p) \/ Abort(p)
  PROVE  \/ UNCHANGED shadow
         \/ /\ At(p, "passwd", "writeShadow") /\ snap[p].shadow = shadow
            /\ HasLine(shadow, Me(p)) /\ PasswdWrite(p)
<1>1. IInv /\ Holder(p)
  BY DEF LockInv
<1>2. CASE PasswdWrite(p)
  <2>1. At(p, "passwd", "writeShadow")
    BY <1>2 DEF PasswdWrite
  <2>2. snap[p].shadow = shadow
    BY <1>1, <2>1 DEF Holder, At
  <2>3. HasLine(snap[p].shadow, Me(p))
    BY <1>1, <2>1 DEF IInv, Copies, Copy
  <2> QED BY <1>2, <2>1, <2>2, <2>3
<1>3. CASE ~PasswdWrite(p)
  BY <1>1, <1>3, OnlyPasswdSteps DEF Start, Abort, PasswdLock, PasswdRead, PasswdUnlock
<1> QED BY <1>2, <1>3

(* passwd serialises concurrent password changes: no passwd that gets the  *)
(* lock overwrites a change it has not seen.                               *)
THEOREM PasswdLosesNothing == ASSUME OnlyPasswd PROVE Spec => NoLostUpdate
<1>1. LockInv /\ [Next]_vars =>
        [\A p \in Procs : Replaces(p) => snap[p].shadow = shadow]_vars
  <2> SUFFICES ASSUME LockInv, Next, NEW q \in Procs, Replaces(q)
               PROVE  snap[q].shadow = shadow
    OBVIOUS
  <2>1. pc[q] = "writeShadow"
    BY DEF Replaces
  <2> QED BY <2>1 DEF LockInv, Holder
<1> QED BY <1>1, LockInvariance, PTL DEF Spec, NoLostUpdate

(* passwd under the lock implements the store in which every change of a   *)
(* password happens at one moment.                                         *)
THEOREM PasswdImplementsStore == ASSUME OnlyPasswd PROVE Spec => ShadowIsStore
<1>1. Init => Store!Init
  BY InitIInv DEF IInv, TypeOK, FilesOK, Store!Init, Store!ShadowDB, ShadowDB,
     Store!Password, Password
<1>2. LockInv /\ [Next]_vars => [Store!Next]_shadow
  <2> SUFFICES ASSUME LockInv, Next PROVE [Store!Next]_shadow
    BY DEF vars
  <2>1. PICK p \in Procs : Start(p) \/ Step(p) \/ Abort(p)
    BY DEF Next
  <2>2. CASE UNCHANGED shadow
    BY <2>2
  <2>3. CASE /\ At(p, "passwd", "writeShadow") /\ snap[p].shadow = shadow
             /\ HasLine(shadow, Me(p)) /\ PasswdWrite(p)
    <3>1. Me(p) \in Names /\ job[p].op \in Ops /\ job[p].pw \in Password
      BY <2>3, JobOK DEF LockInv, At
    <3>2. Store!Change(Me(p), job[p].op, job[p].pw)
      BY <2>3 DEF PasswdWrite, Store!Change, Store!HasLine, HasLine,
         Store!ChangeFirst, ChangeFirst, Store!Changed, Changed
    <3> QED BY <3>1, <3>2 DEF Store!Next, Store!Ops, Ops, Store!Password, Password
  <2> QED BY <2>1, <2>2, <2>3, WriteIsCurrent
<1> QED BY <1>1, <1>2, LockInvariance, PTL DEF Spec, ShadowIsStore, Store!Spec

-----------------------------------------------------------------------------
(* Applets that follow one another.  What the only one at work is about to *)
(* replace it has read as it is, and a new user's group exists before the  *)
(* user.                                                                   *)
Fits(kind, label, s, g, P, S, G) ==
  /\ label = "writePasswd" => s.passwd = P
  /\ label = "writeGroup"  => s.group = G
  /\ label = "writeShadow" => s.shadow = S
  /\ kind = "adduser" /\ label \in {"readGroup", "writeGroup"} => s.passwd = P
  /\ kind = "adduser" /\ label = "writePasswd" => GidUsed(G, g)

GroupsExist(P, G) == \A n \in Names : \A i \in DOMAIN P[n] : GidUsed(G, P[n][i].gid)
SameUsers(P, S, others) == \A n \in Names \ others : HasLine(P, n) <=> HasLine(S, n)

(* Between passwd and shadow, adduser and deluser have their user, and     *)
(* nobody else, in one file only.                                          *)
Between == {"readShadow", "writeShadow"}
Agree(kind, label, me, P, S) ==
  /\ kind = "adduser" /\ label \in Between => HasLine(P, me) /\ ~HasLine(S, me)
  /\ kind = "deluser" /\ label \in Between => ~HasLine(P, me)
  /\ kind \in {"adduser", "deluser"} /\ label \in Between => SameUsers(P, S, {me})
  /\ kind \in {"adduser", "deluser"} => label \in Between \/ SameUsers(P, S, {})
  /\ kind \notin {"adduser", "deluser"} => SameUsers(P, S, {})

Alone(p) ==
  /\ GroupsExist(passwd, group)
  /\ job[p] # NoJob => Fits(job[p].kind, pc[p], snap[p], newGid[p], passwd, shadow, group)
  /\ ~mayAbort /\ job[p] # NoJob => Agree(job[p].kind, pc[p], Me(p), passwd, shadow)
  /\ ~mayAbort /\ job[p] = NoJob => SameUsers(passwd, shadow, {})

AgreeIInv ==
  /\ IInv
  /\ together => ~mayAbort
  /\ ~together =>
       /\ \A q \in Procs : job[q] # NoJob => q = p1 /\ job[q].kind # "delgroup"
       /\ Alone(p1)

-----------------------------------------------------------------------------
(* Whose lines an edit leaves: adding, deleting and changing lines. *)
LEMMA AddedLine ==
  ASSUME NEW S, NEW db \in [Names -> Seq(S)], NEW n \in Names, NEW l \in S
  PROVE  /\ HasLine(AddLine(db, n, l), n)
         /\ \A m \in Names : m # n => (HasLine(AddLine(db, n, l), m) <=> HasLine(db, m))
  BY DEF AddLine, HasLine

LEMMA DroppedLines ==
  ASSUME NEW S, NEW db \in [Names -> Seq(S)], NEW n \in Names
  PROVE  /\ ~HasLine(DropLines(db, n), n)
         /\ \A m \in Names : m # n => (HasLine(DropLines(db, n), m) <=> HasLine(db, m))
  BY DEF DropLines, HasLine

(* chpasswd adds and deletes no user.                                      *)
LEMMA SetAllUsers ==
  ASSUME NEW db \in ShadowDB, NEW batch, NEW new \in Password, NEW m \in Names
  PROVE  HasLine(SetAll(db, batch, new), m) <=> HasLine(db, m)
<1>1. db[m] \in Seq(Password)
  BY DEF ShadowDB
<1>2. CASE m \notin batch
  BY <1>2 DEF SetAll, HasLine
<1>3. CASE m \in batch
  <2>1. SetAll(db, batch, new)[m] = [i \in DOMAIN db[m] |-> new]
    BY <1>3 DEF SetAll
  <2>2. DOMAIN SetAll(db, batch, new)[m] = DOMAIN db[m]
    BY <2>1
  <2>3. SetAll(db, batch, new)[m] \in Seq(Password)
    BY <1>1, <2>1
  <2>4. Len(SetAll(db, batch, new)[m]) = Len(db[m])
    BY <1>1, <2>2, <2>3
  <2> QED BY <1>1, <2>3, <2>4, EmptySeq DEF HasLine
<1> QED BY <1>2, <1>3

(* passwd adds and deletes no user.                                        *)
LEMMA ChangeFirstUsers ==
  ASSUME NEW db \in ShadowDB, NEW n \in Names, HasLine(db, n),
         NEW op \in Ops, NEW new \in Password, NEW m \in Names
  PROVE  HasLine(ChangeFirst(db, n, op, new), m) <=> HasLine(db, m)
<1>1. db[n] \in Seq(Password) /\ db[n] # <<>>
  BY DEF ShadowDB, HasLine
<1>2. CASE m # n
  BY <1>2 DEF ChangeFirst, HasLine, ShadowDB
<1>3. CASE m = n
  <2>1. ChangeFirst(db, n, op, new)[n] = [db[n] EXCEPT ![1] = Changed(db[n][1], op, new)]
    BY DEF ChangeFirst, ShadowDB
  <2>2. DOMAIN ChangeFirst(db, n, op, new)[n] = DOMAIN db[n] /\ 1 \in DOMAIN db[n]
    BY <1>1, <2>1
  <2>3. ChangeFirst(db, n, op, new)[n] # <<>>
    BY <2>2
  <2> QED BY <1>1, <1>3, <2>3 DEF HasLine
<1> QED BY <1>2, <1>3

(* chsh adds and deletes no user and moves none to another group.          *)
WithShell(db, n, s) == [db EXCEPT ![n][1].shell = s]
LEMMA SetShellKeeps ==
  ASSUME NEW db \in PasswdDB, NEW n \in Names, HasLine(db, n), NEW s \in Shells,
         NEW m \in Names
  PROVE  /\ HasLine(WithShell(db, n, s), m) <=> HasLine(db, m)
         /\ \A i \in DOMAIN WithShell(db, n, s)[m] :
              i \in DOMAIN db[m] /\ WithShell(db, n, s)[m][i].gid = db[m][i].gid
<1> DEFINE new == [db EXCEPT ![n][1].shell = s]
<1>0. WithShell(db, n, s) = new
  BY DEF WithShell
<1>1. db[n] \in Seq(PasswdLine) /\ db[n] # <<>>
  BY DEF PasswdDB, HasLine
<1>2. 1 \in DOMAIN db[n] /\ db[n][1] \in PasswdLine
  BY <1>1
<1>3. new[n] = [db[n] EXCEPT ![1] = [db[n][1] EXCEPT !.shell = s]]
  BY DEF PasswdDB
<1>4. [db[n][1] EXCEPT !.shell = s].gid = db[n][1].gid
  BY <1>2 DEF PasswdLine
<1>5. CASE m # n
  <2>1. new[m] = db[m]
    BY <1>5 DEF PasswdDB
  <2> HIDE DEF new
  <2> QED BY <1>0, <2>1 DEF HasLine
<1>6. CASE m = n
  <2>1. DOMAIN new[n] = DOMAIN db[n]
    BY <1>3
  <2>2. \A i \in DOMAIN db[n] : i = 1 \/ new[n][i] = db[n][i]
    BY <1>3
  <2>3. new[n][1].gid = db[n][1].gid
    BY <1>2, <1>3, <1>4
  <2>4. new[n] # <<>>
    BY <1>2, <2>1
  <2> HIDE DEF new
  <2> QED BY <1>0, <1>1, <1>6, <2>1, <2>2, <2>3, <2>4 DEF HasLine
<1> QED BY <1>5, <1>6

-----------------------------------------------------------------------------
(* Which gids a group file knows: a new line adds its own and hides none,  *)
(* and member lists do not matter.                                         *)
LEMMA AddedGid ==
  ASSUME NEW G \in GroupDB, NEW n \in Names, NEW l \in GroupLine
  PROVE  /\ GidUsed(AddLine(G, n, l), l.gid)
         /\ \A g : GidUsed(G, g) => GidUsed(AddLine(G, n, l), g)
<1> DEFINE new == AddLine(G, n, l)
<1>1. G[n] \in Seq(GroupLine) /\ new[n] = Append(G[n], l)
  BY DEF AddLine, GroupDB
<1>2. /\ Len(G[n]) + 1 \in DOMAIN new[n] /\ new[n][Len(G[n]) + 1] = l
      /\ \A i \in DOMAIN G[n] : i \in DOMAIN new[n] /\ new[n][i] = G[n][i]
  BY <1>1
<1>3. \A m \in Names : m # n => new[m] = G[m]
  BY DEF AddLine, GroupDB
<1> HIDE DEF new
<1>4. GidUsed(new, l.gid)
  BY <1>2 DEF GidUsed
<1>5. \A g : GidUsed(G, g) => GidUsed(new, g)
  BY <1>2, <1>3 DEF GidUsed
<1> QED BY <1>4, <1>5 DEF new

LEMMA KeptGid ==
  ASSUME NEW G \in GroupDB, NEW u \in Names, NEW g, GidUsed(G, g)
  PROVE  GidUsed(DropMember(G, u), g)
<1>1. PICK n \in Names : \E i \in DOMAIN G[n] : G[n][i].gid = g
  BY DEF GidUsed
<1>2. PICK i \in DOMAIN G[n] : G[n][i].gid = g
  BY <1>1
<1>3. G[n][i] \in GroupLine
  BY DEF GroupDB
<1>4. DropMember(G, u)[n] = [k \in DOMAIN G[n] |-> [G[n][k] EXCEPT !.members = @ \ {u}]]
  BY DEF DropMember
<1>5. i \in DOMAIN DropMember(G, u)[n] /\ DropMember(G, u)[n][i].gid = g
  BY <1>2, <1>3, <1>4 DEF GroupLine
<1> QED BY <1>5 DEF GidUsed

(* A user with an existing group joins, another one leaves.                *)
LEMMA JoinedGroups ==
  ASSUME NEW P \in PasswdDB, NEW G, GroupsExist(P, G), NEW n \in Names,
         NEW l \in PasswdLine, GidUsed(G, l.gid)
  PROVE  GroupsExist(AddLine(P, n, l), G)
<1> DEFINE new == AddLine(P, n, l)
<1>1. P[n] \in Seq(PasswdLine) /\ new[n] = Append(P[n], l)
  BY DEF AddLine, PasswdDB
<1>2. \A i \in DOMAIN new[n] :
        \/ i \in DOMAIN P[n] /\ new[n][i] = P[n][i]
        \/ new[n][i] = l
  BY <1>1
<1>3. \A m \in Names : m # n => new[m] = P[m]
  BY DEF AddLine, PasswdDB
<1> HIDE DEF new
<1>4. GroupsExist(new, G)
  BY <1>2, <1>3 DEF GroupsExist
<1> QED BY <1>4 DEF new

LEMMA LeftGroups ==
  ASSUME NEW P \in PasswdDB, NEW G, GroupsExist(P, G), NEW n \in Names
  PROVE  GroupsExist(DropLines(P, n), G)
<1>1. \A m \in Names : DropLines(P, n)[m] = IF m = n THEN <<>> ELSE P[m]
  BY DEF DropLines, PasswdDB
<1>2. DOMAIN <<>> = {}
  OBVIOUS
<1> QED BY <1>1, <1>2 DEF GroupsExist

-----------------------------------------------------------------------------
(* How the only applet at work ends, and how it goes on. *)
LEMMA AloneEnds ==
  ASSUME IInv, NEW p \in Procs, Exit(p), GroupsExist(passwd', group'),
         ~mayAbort => SameUsers(passwd', shadow', {})
  PROVE  Alone(p)'
<1>1. job'[p] = NoJob /\ mayAbort' = mayAbort
  BY DEF Exit, IInv, TypeOK, ProcsOK
<1> QED BY <1>1 DEF Alone

LEMMA AloneGoesOn ==
  ASSUME IInv, NEW p \in Procs, NEW label, Goto(p, label), NEW s, NEW g,
         snap' = [snap EXCEPT ![p] = s], newGid' = [newGid EXCEPT ![p] = g],
         job[p] # NoJob, GroupsExist(passwd', group'),
         Fits(job[p].kind, label, s, g, passwd', shadow', group'),
         ~mayAbort => Agree(job[p].kind, label, Me(p), passwd', shadow')
  PROVE  Alone(p)'
<1>1. /\ job' = job /\ mayAbort' = mayAbort /\ pc'[p] = label
      /\ snap'[p] = s /\ newGid'[p] = g
  BY DEF Goto, IInv, TypeOK, ProcsOK, SnapsOK
<1> QED BY <1>1 DEF Alone, Me

(* What the only applet at work may rely on. *)
LEMMA AloneHeld ==
  ASSUME IInv, NEW p \in Procs, Alone(p), job[p] # NoJob
  PROVE  /\ snap[p] \in Snap /\ Me(p) \in Names /\ Copy(p) /\ newGid[p] \in Nat
         /\ passwd \in PasswdDB /\ shadow \in ShadowDB /\ group \in GroupDB
         /\ GroupsExist(passwd, group)
         /\ Fits(job[p].kind, pc[p], snap[p], newGid[p], passwd, shadow, group)
         /\ ~mayAbort => Agree(job[p].kind, pc[p], Me(p), passwd, shadow)
         /\ UNCHANGED newGid => newGid' = [newGid EXCEPT ![p] = newGid[p]]
         /\ UNCHANGED snap => snap' = [snap EXCEPT ![p] = snap[p]]
  BY Held, JobOK DEF Alone, FilesOK

(* An applet starts. *)
LEMMA StartAlone ==
  ASSUME IInv, NEW p \in Procs, Alone(p), Start(p), job'[p].kind # "delgroup"
  PROVE  Alone(p)'
<1>1. PICK j \in Jobs :
        /\ pc[p] = "idle" /\ job' = [job EXCEPT ![p] = j]
        /\ pc' = [pc EXCEPT ![p] = FirstStep(j.kind)]
        /\ UNCHANGED <<passwd, shadow, group, mayAbort>>
  BY DEF Start
<1>2. job'[p] = j /\ pc'[p] = FirstStep(j.kind) /\ job[p] = NoJob
  BY <1>1 DEF IInv, TypeOK, ProcsOK
<1>3. /\ j \in Job /\ j # NoJob /\ j.kind \in Kinds
      /\ FirstStep(j.kind) \in {"readPasswd", "readGroup", "readShadow", "lock"}
      /\ j.kind \in {"adduser", "deluser"} => FirstStep(j.kind) = "readPasswd"
  BY JobAssumption DEF FirstStep, Job, Kinds
<1>4. \A s, g : Fits(j.kind, FirstStep(j.kind), s, g, passwd, shadow, group)
  BY <1>3 DEF Fits
<1>5. GroupsExist(passwd, group) /\ (~mayAbort => SameUsers(passwd, shadow, {}))
  BY <1>2 DEF Alone
<1>6. \A n : ~mayAbort => Agree(j.kind, FirstStep(j.kind), n, passwd, shadow)
  BY <1>3, <1>5 DEF Agree, Between
<1> QED BY <1>1, <1>2, <1>3, <1>4, <1>5, <1>6 DEF Alone

(* An applet that is killed leaves no user without a group. *)
LEMMA AbortAlone ==
  ASSUME IInv, NEW p \in Procs, Alone(p), Abort(p) PROVE Alone(p)'
<1>1. mayAbort /\ Exit(p) /\ UNCHANGED <<passwd, shadow, group>>
  BY DEF Abort
<1>2. GroupsExist(passwd', group')
  BY <1>1 DEF Alone
<1> QED BY <1>1, <1>2, AloneEnds

(* A step that leaves the files alone and ends the applet. *)
LEMMA QuitAlone ==
  ASSUME IInv, NEW p \in Procs, Alone(p), job[p] # NoJob, Exit(p), UNCHANGED files,
         job[p].kind \in {"adduser", "deluser"} => pc[p] \notin Between
  PROVE  Alone(p)'
<1>1. passwd' = passwd /\ shadow' = shadow /\ group' = group
  BY DEF files
<1>2. GroupsExist(passwd, group) /\ (~mayAbort => Agree(job[p].kind, pc[p], Me(p), passwd, shadow))
  BY DEF Alone
<1>3. ~mayAbort => SameUsers(passwd, shadow, {})
  BY <1>2 DEF Agree
<1> QED BY <1>1, <1>2, <1>3, AloneEnds

LEMMA AdduserReadPasswdAlone ==
  ASSUME IInv, NEW p \in Procs, Alone(p), AdduserReadPasswd(p) PROVE Alone(p)'
<1> DEFINE s == [snap[p] EXCEPT !.passwd = passwd]
<1>1. /\ job[p] # NoJob /\ job[p].kind = "adduser" /\ pc[p] = "readPasswd"
      /\ UNCHANGED files
      /\ \/ Exit(p)
         \/ snap' = [snap EXCEPT ![p] = s] /\ Goto(p, "readGroup") /\ UNCHANGED newGid
  BY DEF AdduserReadPasswd, At, files
<1>2. s.passwd = passwd
  BY <1>1, AloneHeld DEF Snap
<1> HIDE DEF s
<1>3. CASE Exit(p)
  BY <1>1, <1>3, QuitAlone DEF Between
<1>4. CASE snap' = [snap EXCEPT ![p] = s] /\ Goto(p, "readGroup") /\ UNCHANGED newGid
  <2>1. passwd' = passwd /\ shadow' = shadow /\ group' = group
    BY <1>1 DEF files
  <2>2. Fits("adduser", "readGroup", s, newGid[p], passwd, shadow, group)
    BY <1>2 DEF Fits
  <2>3. ~mayAbort => Agree("adduser", "readGroup", Me(p), passwd, shadow)
    BY <1>1, AloneHeld DEF Agree, Between
  <2>4. /\ GroupsExist(passwd', group') /\ newGid' = [newGid EXCEPT ![p] = newGid[p]]
        /\ Fits(job[p].kind, "readGroup", s, newGid[p], passwd', shadow', group')
        /\ ~mayAbort => Agree(job[p].kind, "readGroup", Me(p), passwd', shadow')
    BY <1>1, <1>4, <2>1, <2>2, <2>3, AloneHeld
  <2> QED BY <1>1, <1>4, <2>4, AloneGoesOn
<1> QED BY <1>1, <1>3, <1>4

LEMMA AdduserReadGroupAlone ==
  ASSUME IInv, NEW p \in Procs, Alone(p), AdduserReadGroup(p) PROVE Alone(p)'
<1> DEFINE g   == job[p].ingroup
           own == OwnGid(group, newUid[p])
           s   == [snap[p] EXCEPT !.group = group]
<1>1. /\ job[p] # NoJob /\ job[p].kind = "adduser" /\ pc[p] = "readGroup"
      /\ UNCHANGED files
      /\ \/ Exit(p)
         \/ /\ g # NoGroup /\ HasLine(group, g)
            /\ newGid' = [newGid EXCEPT ![p] = group[g][1].gid]
            /\ Goto(p, "writePasswd") /\ UNCHANGED snap
         \/ /\ newGid' = [newGid EXCEPT ![p] = own]
            /\ snap' = [snap EXCEPT ![p] = s] /\ Goto(p, "writeGroup")
  BY DEF AdduserReadGroup, At, files
<1>2. /\ s.passwd = snap[p].passwd /\ s.group = group /\ snap[p].passwd = passwd
      /\ passwd' = passwd /\ shadow' = shadow /\ group' = group
  BY <1>1, AloneHeld DEF Snap, Fits, files
<1>3. /\ ~mayAbort => Agree("adduser", "writePasswd", Me(p), passwd, shadow)
      /\ ~mayAbort => Agree("adduser", "writeGroup", Me(p), passwd, shadow)
  BY <1>1, AloneHeld DEF Agree, Between
<1>4. CASE Exit(p)
  BY <1>1, <1>4, QuitAlone DEF Between
<1>5. CASE /\ g # NoGroup /\ HasLine(group, g)
           /\ newGid' = [newGid EXCEPT ![p] = group[g][1].gid]
           /\ Goto(p, "writePasswd") /\ UNCHANGED snap
  <2>1. g \in Names /\ group[g] \in Seq(GroupLine) /\ group[g] # <<>>
    BY <1>1, <1>5, JobOK, AloneHeld DEF GroupDB, HasLine
  <2>2. 1 \in DOMAIN group[g]
    BY <2>1
  <2>3. GidUsed(group, group[g][1].gid)
    BY <2>1, <2>2 DEF GidUsed
  <2> DEFINE gid == group[g][1].gid
  <2>4. Fits("adduser", "writePasswd", snap[p], gid, passwd, shadow, group)
    BY <1>2, <2>3 DEF Fits
  <2>5. newGid' = [newGid EXCEPT ![p] = gid] /\ snap' = [snap EXCEPT ![p] = snap[p]]
    BY <1>1, <1>5, AloneHeld
  <2> HIDE DEF gid, g, s, own
  <2>6. /\ GroupsExist(passwd', group')
        /\ Fits(job[p].kind, "writePasswd", snap[p], gid, passwd', shadow', group')
        /\ ~mayAbort => Agree(job[p].kind, "writePasswd", Me(p), passwd', shadow')
    BY <1>1, <1>2, <1>3, <2>4, AloneHeld
  <2> QED BY <1>1, <1>5, <2>5, <2>6, AloneGoesOn
<1>6. CASE /\ newGid' = [newGid EXCEPT ![p] = own]
           /\ snap' = [snap EXCEPT ![p] = s] /\ Goto(p, "writeGroup")
  <2> HIDE DEF g, s, own
  <2>1. Fits("adduser", "writeGroup", s, own, passwd, shadow, group)
    BY <1>2 DEF Fits
  <2>2. /\ GroupsExist(passwd', group')
        /\ Fits(job[p].kind, "writeGroup", s, own, passwd', shadow', group')
        /\ ~mayAbort => Agree(job[p].kind, "writeGroup", Me(p), passwd', shadow')
    BY <1>1, <1>2, <1>3, <2>1, AloneHeld
  <2> QED BY <1>1, <1>6, <2>2, AloneGoesOn
<1> QED BY <1>1, <1>4, <1>5, <1>6

(* The group is there before the user. *)
LEMMA AdduserWriteGroupAlone ==
  ASSUME IInv, NEW p \in Procs, Alone(p), AdduserWriteGroup(p) PROVE Alone(p)'
<1> DEFINE l == [gid |-> newGid[p], members |-> {}]
           s == [snap[p] EXCEPT !.group = NoLines]
<1>1. /\ job[p] # NoJob /\ job[p].kind = "adduser" /\ pc[p] = "writeGroup"
      /\ group' = AddLine(snap[p].group, Me(p), l)
      /\ Goto(p, "writePasswd") /\ snap' = [snap EXCEPT ![p] = s]
      /\ UNCHANGED <<passwd, shadow, newGid>>
  BY DEF AdduserWriteGroup, At
<1>2. /\ l \in GroupLine /\ l.gid = newGid[p] /\ s.passwd = snap[p].passwd
      /\ snap[p].group = group /\ snap[p].passwd = passwd
  BY <1>1, AloneHeld DEF GroupLine, Snap, Fits
<1> HIDE DEF l, s
<1>3. GidUsed(group', newGid[p]) /\ \A g : GidUsed(group, g) => GidUsed(group', g)
  BY <1>1, <1>2, AloneHeld, AddedGid
<1>4. GroupsExist(passwd', group')
  BY <1>1, <1>3, AloneHeld DEF GroupsExist
<1>5. Fits("adduser", "writePasswd", s, newGid[p], passwd', shadow', group')
  BY <1>1, <1>2, <1>3 DEF Fits
<1>6. ~mayAbort => Agree("adduser", "writePasswd", Me(p), passwd', shadow')
  BY <1>1, AloneHeld DEF Agree, Between
<1>7. newGid' = [newGid EXCEPT ![p] = newGid[p]]
  BY <1>1, AloneHeld
<1> QED BY <1>1, <1>4, <1>5, <1>6, <1>7, AloneGoesOn

LEMMA AdduserWritePasswdAlone ==
  ASSUME IInv, NEW p \in Procs, Alone(p), AdduserWritePasswd(p) PROVE Alone(p)'
<1> DEFINE l == [uid |-> newUid[p], gid |-> newGid[p], shell |-> job[p].shell]
           s == [snap[p] EXCEPT !.passwd = NoLines]
<1>1. /\ job[p] # NoJob /\ job[p].kind = "adduser" /\ pc[p] = "writePasswd"
      /\ passwd' = AddLine(snap[p].passwd, Me(p), l)
      /\ Goto(p, "readShadow") /\ snap' = [snap EXCEPT ![p] = s]
      /\ UNCHANGED <<shadow, group, newGid>>
  BY DEF AdduserWritePasswd, At
<1>2. /\ l \in PasswdLine /\ GidUsed(group, l.gid) /\ snap[p].passwd = passwd
      /\ ~HasLine(passwd, Me(p))
  BY <1>1, AloneHeld, Held, JobOK DEF PasswdLine, Fits, Copy, At
<1> HIDE DEF l, s
<1>3. GroupsExist(passwd', group')
  BY <1>1, <1>2, AloneHeld, JoinedGroups
<1>4. Fits("adduser", "readShadow", s, newGid[p], passwd', shadow', group')
  BY DEF Fits
<1>5. /\ HasLine(passwd', Me(p))
      /\ \A m \in Names : m # Me(p) => (HasLine(passwd', m) <=> HasLine(passwd, m))
  <2>1. passwd \in [Names -> Seq(PasswdLine)] /\ Me(p) \in Names
    BY <1>1, AloneHeld DEF PasswdDB
  <2>2. passwd' = AddLine(passwd, Me(p), l)
    BY <1>1, <1>2
  <2> QED BY <1>2, <2>1, <2>2, AddedLine
<1>6. ASSUME ~mayAbort PROVE Agree("adduser", "readShadow", Me(p), passwd', shadow')
  <2>1. SameUsers(passwd, shadow, {})
    BY <1>1, <1>6, AloneHeld DEF Agree, Between
  <2>2. ~HasLine(shadow', Me(p)) /\ SameUsers(passwd', shadow', {Me(p)})
    BY <1>1, <1>2, <1>5, <2>1, AloneHeld DEF SameUsers
  <2> QED BY <1>5, <2>2 DEF Agree, Between
<1>7. newGid' = [newGid EXCEPT ![p] = newGid[p]]
  BY <1>1, AloneHeld
<1> QED BY <1>1, <1>3, <1>4, <1>6, <1>7, AloneGoesOn

LEMMA ReadShadowAlone ==
  ASSUME IInv, NEW p \in Procs, Alone(p), ReadShadow(p) PROVE Alone(p)'
<1> DEFINE s == [snap[p] EXCEPT !.shadow = shadow]
<1>1. /\ job[p] # NoJob /\ pc[p] = "readShadow" /\ Goto(p, "writeShadow")
      /\ snap' = [snap EXCEPT ![p] = s]
      /\ passwd' = passwd /\ shadow' = shadow /\ group' = group /\ UNCHANGED newGid
  BY DEF ReadShadow, At
<1>2. s.shadow = shadow
  BY <1>1, AloneHeld DEF Snap
<1> HIDE DEF s
<1>3. Fits(job[p].kind, "writeShadow", s, newGid[p], passwd, shadow, group)
  BY <1>2 DEF Fits
<1>4. ~mayAbort => Agree(job[p].kind, "writeShadow", Me(p), passwd, shadow)
  BY <1>1, AloneHeld DEF Agree, Between
<1> QED BY <1>1, <1>3, <1>4, AloneHeld, AloneGoesOn

LEMMA AdduserWriteShadowAlone ==
  ASSUME IInv, NEW p \in Procs, Alone(p), AdduserWriteShadow(p) PROVE Alone(p)'
<1>1. /\ job[p] # NoJob /\ job[p].kind = "adduser" /\ pc[p] = "writeShadow"
      /\ shadow' = AddLine(snap[p].shadow, Me(p), LockedPassword)
      /\ Exit(p) /\ passwd' = passwd /\ group' = group
  BY DEF AdduserWriteShadow, At
<1>2. snap[p].shadow = shadow /\ LockedPassword \in Password
  BY <1>1, AloneHeld DEF Fits, LockedPassword, Password
<1>3. /\ HasLine(shadow', Me(p))
      /\ \A m \in Names : m # Me(p) => (HasLine(shadow', m) <=> HasLine(shadow, m))
  BY <1>1, <1>2, AloneHeld, AddedLine DEF ShadowDB
<1>4. ASSUME ~mayAbort PROVE SameUsers(passwd', shadow', {})
  <2>1. HasLine(passwd, Me(p)) /\ SameUsers(passwd, shadow, {Me(p)})
    BY <1>1, <1>4, AloneHeld DEF Agree, Between
  <2> QED BY <1>1, <1>3, <2>1 DEF SameUsers
<1>5. GroupsExist(passwd', group')
  BY <1>1, AloneHeld
<1> QED BY <1>1, <1>4, <1>5, AloneEnds

LEMMA DeluserReadPasswdAlone ==
  ASSUME IInv, NEW p \in Procs, Alone(p), DeluserReadPasswd(p) PROVE Alone(p)'
<1> DEFINE s == [snap[p] EXCEPT !.passwd = passwd]
<1>1. /\ job[p] # NoJob /\ job[p].kind = "deluser" /\ pc[p] = "readPasswd"
      /\ UNCHANGED files
      /\ \/ Exit(p)
         \/ snap' = [snap EXCEPT ![p] = s] /\ Goto(p, "writePasswd") /\ UNCHANGED newGid
  BY DEF DeluserReadPasswd, At, files
<1>2. s.passwd = passwd /\ passwd' = passwd /\ shadow' = shadow /\ group' = group
  BY <1>1, AloneHeld DEF Snap, files
<1> HIDE DEF s
<1>3. CASE Exit(p)
  BY <1>1, <1>3, QuitAlone DEF Between
<1>4. CASE snap' = [snap EXCEPT ![p] = s] /\ Goto(p, "writePasswd") /\ UNCHANGED newGid
  <2>1. Fits("deluser", "writePasswd", s, newGid[p], passwd, shadow, group)
    BY <1>2 DEF Fits
  <2>2. ~mayAbort => Agree("deluser", "writePasswd", Me(p), passwd, shadow)
    BY <1>1, AloneHeld DEF Agree, Between
  <2>3. /\ GroupsExist(passwd', group') /\ newGid' = [newGid EXCEPT ![p] = newGid[p]]
        /\ Fits(job[p].kind, "writePasswd", s, newGid[p], passwd', shadow', group')
        /\ ~mayAbort => Agree(job[p].kind, "writePasswd", Me(p), passwd', shadow')
    BY <1>1, <1>2, <1>4, <2>1, <2>2, AloneHeld
  <2> QED BY <1>1, <1>4, <2>3, AloneGoesOn
<1> QED BY <1>1, <1>3, <1>4

LEMMA DeluserWritePasswdAlone ==
  ASSUME IInv, NEW p \in Procs, Alone(p), DeluserWritePasswd(p) PROVE Alone(p)'
<1> DEFINE s == [snap[p] EXCEPT !.passwd = NoLines]
<1>1. /\ job[p] # NoJob /\ job[p].kind = "deluser" /\ pc[p] = "writePasswd"
      /\ passwd' = DropLines(snap[p].passwd, Me(p))
      /\ Goto(p, "readShadow") /\ snap' = [snap EXCEPT ![p] = s]
      /\ UNCHANGED <<shadow, group, newGid>>
  BY DEF DeluserWritePasswd, At
<1> HIDE DEF s
<1>2. passwd' = DropLines(passwd, Me(p))
  BY <1>1, AloneHeld DEF Fits
<1>3. GroupsExist(passwd', group')
  <2>1. passwd \in PasswdDB /\ GroupsExist(passwd, group) /\ Me(p) \in Names
    BY <1>1, AloneHeld
  <2>2. GroupsExist(DropLines(passwd, Me(p)), group)
    BY <2>1, LeftGroups
  <2> QED BY <1>1, <1>2, <2>2
<1>4. Fits("deluser", "readShadow", s, newGid[p], passwd', shadow', group')
  BY DEF Fits
<1>5. /\ ~HasLine(passwd', Me(p))
      /\ \A m \in Names : m # Me(p) => (HasLine(passwd', m) <=> HasLine(passwd, m))
  <2>1. passwd \in [Names -> Seq(PasswdLine)] /\ Me(p) \in Names
    BY <1>1, AloneHeld DEF PasswdDB
  <2> QED BY <1>2, <2>1, DroppedLines
<1>6. ASSUME ~mayAbort PROVE Agree("deluser", "readShadow", Me(p), passwd', shadow')
  <2>1. SameUsers(passwd, shadow, {})
    BY <1>1, <1>6, AloneHeld DEF Agree, Between
  <2>2. SameUsers(passwd', shadow', {Me(p)})
    BY <1>1, <1>5, <2>1 DEF SameUsers
  <2> QED BY <1>5, <2>2 DEF Agree, Between
<1>7. newGid' = [newGid EXCEPT ![p] = newGid[p]]
  BY <1>1, AloneHeld
<1> QED BY <1>1, <1>3, <1>4, <1>6, <1>7, AloneGoesOn

LEMMA DeluserWriteShadowAlone ==
  ASSUME IInv, NEW p \in Procs, Alone(p), DeluserWriteShadow(p) PROVE Alone(p)'
<1> DEFINE s == [snap[p] EXCEPT !.shadow = NoLines]
<1>1. /\ job[p] # NoJob /\ job[p].kind = "deluser" /\ pc[p] = "writeShadow"
      /\ shadow' = DropLines(snap[p].shadow, Me(p))
      /\ Goto(p, "readGroup") /\ snap' = [snap EXCEPT ![p] = s]
      /\ UNCHANGED <<passwd, group, newGid>>
  BY DEF DeluserWriteShadow, At
<1> HIDE DEF s
<1>2. shadow' = DropLines(shadow, Me(p))
  BY <1>1, AloneHeld DEF Fits
<1>3. Fits("deluser", "readGroup", s, newGid[p], passwd', shadow', group')
  BY DEF Fits
<1>4. /\ ~HasLine(shadow', Me(p))
      /\ \A m \in Names : m # Me(p) => (HasLine(shadow', m) <=> HasLine(shadow, m))
  <2>1. shadow \in [Names -> Seq(Password)] /\ Me(p) \in Names
    BY <1>1, AloneHeld DEF ShadowDB
  <2> QED BY <1>2, <2>1, DroppedLines
<1>5. ASSUME ~mayAbort PROVE Agree("deluser", "readGroup", Me(p), passwd', shadow')
  <2>1. ~HasLine(passwd, Me(p)) /\ SameUsers(passwd, shadow, {Me(p)})
    BY <1>1, <1>5, AloneHeld DEF Agree, Between
  <2>2. SameUsers(passwd', shadow', {})
    BY <1>1, <1>4, <2>1 DEF SameUsers
  <2> QED BY <2>2 DEF Agree, Between
<1>6. GroupsExist(passwd', group') /\ newGid' = [newGid EXCEPT ![p] = newGid[p]]
  BY <1>1, AloneHeld
<1> QED BY <1>1, <1>3, <1>5, <1>6, AloneGoesOn

LEMMA DeluserReadGroupAlone ==
  ASSUME IInv, NEW p \in Procs, Alone(p), DeluserReadGroup(p) PROVE Alone(p)'
<1> DEFINE s == [snap[p] EXCEPT !.group = group]
<1>1. /\ job[p] # NoJob /\ job[p].kind = "deluser" /\ pc[p] = "readGroup"
      /\ Goto(p, "writeGroup") /\ snap' = [snap EXCEPT ![p] = s]
      /\ passwd' = passwd /\ shadow' = shadow /\ group' = group /\ UNCHANGED newGid
  BY DEF DeluserReadGroup, At
<1>2. s.group = group
  BY <1>1, AloneHeld DEF Snap
<1> HIDE DEF s
<1>3. Fits("deluser", "writeGroup", s, newGid[p], passwd, shadow, group)
  BY <1>2 DEF Fits
<1>4. ~mayAbort => Agree("deluser", "writeGroup", Me(p), passwd, shadow)
  BY <1>1, AloneHeld DEF Agree, Between
<1>5. /\ GroupsExist(passwd', group') /\ newGid' = [newGid EXCEPT ![p] = newGid[p]]
      /\ Fits(job[p].kind, "writeGroup", s, newGid[p], passwd', shadow', group')
      /\ ~mayAbort => Agree(job[p].kind, "writeGroup", Me(p), passwd', shadow')
  BY <1>1, <1>3, <1>4, AloneHeld
<1> QED BY <1>1, <1>5, AloneGoesOn

LEMMA DeluserWriteGroupAlone ==
  ASSUME IInv, NEW p \in Procs, Alone(p), DeluserWriteGroup(p) PROVE Alone(p)'
<1>1. /\ job[p] # NoJob /\ job[p].kind = "deluser" /\ pc[p] = "writeGroup"
      /\ group' = DropMember(snap[p].group, Me(p))
      /\ Exit(p) /\ passwd' = passwd /\ shadow' = shadow
  BY DEF DeluserWriteGroup, At
<1>2. group' = DropMember(group, Me(p))
  BY <1>1, AloneHeld DEF Fits
<1>3. \A g : GidUsed(group, g) => GidUsed(group', g)
  BY <1>1, <1>2, AloneHeld, KeptGid
<1>4. GroupsExist(passwd', group')
  BY <1>1, <1>3, AloneHeld DEF GroupsExist
<1>5. ~mayAbort => SameUsers(passwd', shadow', {})
  BY <1>1, AloneHeld DEF Agree, Between
<1> QED BY <1>1, <1>4, <1>5, AloneEnds

LEMMA AddgroupReadAlone ==
  ASSUME IInv, NEW p \in Procs, Alone(p), AddgroupRead(p) PROVE Alone(p)'
<1> DEFINE s   == [snap[p] EXCEPT !.group = group]
           gid == ChooseGid(group, job[p].id)
<1>1. /\ job[p] # NoJob /\ job[p].kind = "addgroup" /\ UNCHANGED files
      /\ \/ Exit(p)
         \/ /\ snap' = [snap EXCEPT ![p] = s] /\ newGid' = [newGid EXCEPT ![p] = gid]
            /\ Goto(p, "writeGroup")
  BY DEF AddgroupRead, At, files
<1>2. s.group = group /\ passwd' = passwd /\ shadow' = shadow /\ group' = group
  BY <1>1, AloneHeld DEF Snap, files
<1> HIDE DEF s, gid
<1>3. CASE Exit(p)
  BY <1>1, <1>3, QuitAlone
<1>4. CASE /\ snap' = [snap EXCEPT ![p] = s] /\ newGid' = [newGid EXCEPT ![p] = gid]
           /\ Goto(p, "writeGroup")
  <2>1. Fits("addgroup", "writeGroup", s, gid, passwd, shadow, group)
    BY <1>2 DEF Fits
  <2>2. ~mayAbort => Agree("addgroup", "writeGroup", Me(p), passwd, shadow)
    BY <1>1, AloneHeld DEF Agree, Between
  <2>3. /\ GroupsExist(passwd', group')
        /\ Fits(job[p].kind, "writeGroup", s, gid, passwd', shadow', group')
        /\ ~mayAbort => Agree(job[p].kind, "writeGroup", Me(p), passwd', shadow')
    BY <1>1, <1>2, <2>1, <2>2, AloneHeld
  <2> QED BY <1>1, <1>4, <2>3, AloneGoesOn
<1> QED BY <1>1, <1>3, <1>4

LEMMA AddgroupWriteAlone ==
  ASSUME IInv, NEW p \in Procs, Alone(p), AddgroupWrite(p) PROVE Alone(p)'
<1> DEFINE l == [gid |-> newGid[p], members |-> {}]
<1>1. /\ job[p] # NoJob /\ job[p].kind = "addgroup" /\ pc[p] = "writeGroup"
      /\ group' = AddLine(snap[p].group, Me(p), l)
      /\ Exit(p) /\ passwd' = passwd /\ shadow' = shadow
  BY DEF AddgroupWrite, At
<1>2. l \in GroupLine /\ snap[p].group = group
  BY <1>1, AloneHeld DEF GroupLine, Fits
<1> HIDE DEF l
<1>3. \A g : GidUsed(group, g) => GidUsed(group', g)
  BY <1>1, <1>2, AloneHeld, AddedGid
<1>4. GroupsExist(passwd', group')
  BY <1>1, <1>3, AloneHeld DEF GroupsExist
<1>5. ~mayAbort => SameUsers(passwd', shadow', {})
  BY <1>1, AloneHeld DEF Agree, Between
<1> QED BY <1>1, <1>4, <1>5, AloneEnds

LEMMA ChshReadAlone ==
  ASSUME IInv, NEW p \in Procs, Alone(p), ChshRead(p) PROVE Alone(p)'
<1> DEFINE s == [snap[p] EXCEPT !.passwd = passwd]
<1>1. /\ job[p] # NoJob /\ job[p].kind = "chsh" /\ UNCHANGED files
      /\ \/ Exit(p)
         \/ snap' = [snap EXCEPT ![p] = s] /\ Goto(p, "writePasswd") /\ UNCHANGED newGid
  BY DEF ChshRead, At, files
<1>2. s.passwd = passwd /\ passwd' = passwd /\ shadow' = shadow /\ group' = group
  BY <1>1, AloneHeld DEF Snap, files
<1> HIDE DEF s
<1>3. CASE Exit(p)
  BY <1>1, <1>3, QuitAlone
<1>4. CASE snap' = [snap EXCEPT ![p] = s] /\ Goto(p, "writePasswd") /\ UNCHANGED newGid
  <2>1. Fits("chsh", "writePasswd", s, newGid[p], passwd, shadow, group)
    BY <1>2 DEF Fits
  <2>2. ~mayAbort => Agree("chsh", "writePasswd", Me(p), passwd, shadow)
    BY <1>1, AloneHeld DEF Agree, Between
  <2>3. /\ GroupsExist(passwd', group') /\ newGid' = [newGid EXCEPT ![p] = newGid[p]]
        /\ Fits(job[p].kind, "writePasswd", s, newGid[p], passwd', shadow', group')
        /\ ~mayAbort => Agree(job[p].kind, "writePasswd", Me(p), passwd', shadow')
    BY <1>1, <1>2, <1>4, <2>1, <2>2, AloneHeld
  <2> QED BY <1>1, <1>4, <2>3, AloneGoesOn
<1> QED BY <1>1, <1>3, <1>4

LEMMA ChshWriteAlone ==
  ASSUME IInv, NEW p \in Procs, Alone(p), ChshWrite(p) PROVE Alone(p)'
<1> DEFINE new == WithShell(passwd, Me(p), job[p].shell)
<1>1. /\ job[p] # NoJob /\ job[p].kind = "chsh" /\ pc[p] = "writePasswd"
      /\ passwd' = [snap[p].passwd EXCEPT ![Me(p)][1].shell = job[p].shell]
      /\ Exit(p) /\ shadow' = shadow /\ group' = group
  BY DEF ChshWrite, At
<1>2. snap[p].passwd = passwd /\ HasLine(passwd, Me(p)) /\ job[p].shell \in Shells
  BY <1>1, AloneHeld, JobOK DEF Fits, Copy, At
<1>3. passwd' = new
  BY <1>1, <1>2 DEF WithShell
<1>4. \A m \in Names :
        /\ HasLine(new, m) <=> HasLine(passwd, m)
        /\ \A i \in DOMAIN new[m] :
             i \in DOMAIN passwd[m] /\ new[m][i].gid = passwd[m][i].gid
  <2>1. passwd \in PasswdDB /\ Me(p) \in Names
    BY <1>1, AloneHeld
  <2> QED BY <1>2, <2>1, SetShellKeeps
<1> HIDE DEF new
<1>5. GroupsExist(passwd', group')
  <2>1. GroupsExist(passwd, group)
    BY <1>1, AloneHeld
  <2>2. GroupsExist(new, group)
    BY <1>4, <2>1 DEF GroupsExist
  <2> QED BY <1>1, <1>3, <2>2
<1>6. ~mayAbort => SameUsers(passwd, shadow, {})
  BY <1>1, AloneHeld DEF Agree, Between
<1>7. ~mayAbort => SameUsers(passwd', shadow', {})
  BY <1>1, <1>3, <1>4, <1>6 DEF SameUsers
<1> QED BY <1>1, <1>5, <1>7, AloneEnds

LEMMA ChpasswdWriteAlone ==
  ASSUME IInv, NEW p \in Procs, Alone(p), ChpasswdWrite(p) PROVE Alone(p)'
<1>1. /\ job[p] # NoJob /\ job[p].kind = "chpasswd" /\ pc[p] = "writeShadow"
      /\ shadow' = SetAll(snap[p].shadow, job[p].batch, job[p].pw)
      /\ Exit(p) /\ passwd' = passwd /\ group' = group
  BY DEF ChpasswdWrite, At
<1>2. snap[p].shadow = shadow /\ job[p].pw \in Password
  BY <1>1, AloneHeld, JobOK DEF Fits
<1>3. \A m \in Names : HasLine(shadow', m) <=> HasLine(shadow, m)
  BY <1>1, <1>2, AloneHeld, SetAllUsers
<1>4. ~mayAbort => SameUsers(passwd, shadow, {})
  BY <1>1, AloneHeld DEF Agree, Between
<1>5. ~mayAbort => SameUsers(passwd', shadow', {})
  BY <1>1, <1>3, <1>4 DEF SameUsers
<1>6. GroupsExist(passwd', group')
  BY <1>1, AloneHeld
<1> QED BY <1>1, <1>5, <1>6, AloneEnds

(* The four steps of passwd. *)
LEMMA PasswdAlone ==
  ASSUME IInv, NEW p \in Procs, Alone(p),
         PasswdLock(p) \/ PasswdRead(p) \/ PasswdWrite(p) \/ PasswdUnlock(p)
  PROVE  Alone(p)'
<1> DEFINE read == [snap[p] EXCEPT !.shadow = shadow]
           none == [snap[p] EXCEPT !.shadow = NoLines]
<1>1. job[p] # NoJob /\ job[p].kind = "passwd" /\ passwd' = passwd /\ group' = group
  BY DEF PasswdLock, PasswdRead, PasswdWrite, PasswdUnlock, At
<1>2. read.shadow = shadow /\ GroupsExist(passwd', group')
  BY <1>1, AloneHeld DEF Snap
<1> HIDE DEF read, none
<1>3. ~mayAbort => SameUsers(passwd, shadow, {})
  BY <1>1, AloneHeld DEF Agree
<1>4. CASE PasswdUnlock(p)
  BY <1>1, <1>4, QuitAlone DEF PasswdUnlock, files
<1>5. ASSUME NEW label \in {"readShadow", "unlock", "writeShadow"}, NEW s,
             Goto(p, label), snap' = [snap EXCEPT ![p] = s], UNCHANGED newGid,
             label = "writeShadow" => s.shadow = shadow',
             ~mayAbort => SameUsers(passwd, shadow', {})
      PROVE  Alone(p)'
  <2>1. Fits("passwd", label, s, newGid[p], passwd', shadow', group')
    BY <1>5 DEF Fits
  <2>2. ~mayAbort => Agree("passwd", label, Me(p), passwd', shadow')
    BY <1>1, <1>5 DEF Agree
  <2>3. newGid' = [newGid EXCEPT ![p] = newGid[p]]
    BY <1>1, <1>5, AloneHeld
  <2> QED BY <1>1, <1>2, <1>5, <2>1, <2>2, <2>3, AloneGoesOn
<1>6. CASE PasswdLock(p)
  <2>1. /\ Goto(p, "readShadow") /\ snap' = [snap EXCEPT ![p] = snap[p]]
        /\ UNCHANGED newGid /\ shadow' = shadow
    BY <1>1, <1>6, AloneHeld DEF PasswdLock
  <2> QED BY <1>3, <1>5, <2>1
<1>7. CASE PasswdRead(p)
  <2>1. /\ UNCHANGED newGid /\ shadow' = shadow
        /\ \/ Goto(p, "unlock") /\ snap' = [snap EXCEPT ![p] = snap[p]]
           \/ Goto(p, "writeShadow") /\ snap' = [snap EXCEPT ![p] = read]
    BY <1>1, <1>7, AloneHeld DEF PasswdRead, read
  <2> QED BY <1>2, <1>3, <1>5, <2>1
<1>8. CASE PasswdWrite(p)
  <2>1. /\ Goto(p, "unlock") /\ snap' = [snap EXCEPT ![p] = none] /\ UNCHANGED newGid
        /\ shadow' = ChangeFirst(snap[p].shadow, Me(p), job[p].op, job[p].pw)
        /\ pc[p] = "writeShadow" /\ At(p, "passwd", "writeShadow")
    BY <1>8 DEF PasswdWrite, none, At
  <2>2. snap[p].shadow = shadow /\ HasLine(shadow, Me(p))
    BY <1>1, <2>1, AloneHeld DEF Fits, Copy
  <2>3. \A m \in Names : HasLine(shadow', m) <=> HasLine(shadow, m)
    BY <1>1, <2>1, <2>2, AloneHeld, JobOK, ChangeFirstUsers
  <2>4. ~mayAbort => SameUsers(passwd, shadow', {})
    BY <1>3, <2>3 DEF SameUsers
  <2> QED BY <1>5, <2>1, <2>4
<1> QED BY <1>4, <1>6, <1>7, <1>8

-----------------------------------------------------------------------------
(* Every step of the only applet at work but delgroup's.                   *)
LEMMA StepAlone ==
  ASSUME IInv, NEW p \in Procs, Alone(p), job[p].kind # "delgroup", Step(p)
  PROVE  Alone(p)'
<1>1. ~DelgroupRead(p) /\ ~DelgroupWrite(p)
  BY DEF DelgroupRead, DelgroupWrite, At
<1> QED BY <1>1, AdduserReadPasswdAlone, AdduserReadGroupAlone, AdduserWriteGroupAlone,
     AdduserWritePasswdAlone, ReadShadowAlone, AdduserWriteShadowAlone,
     DeluserReadPasswdAlone, DeluserWritePasswdAlone, DeluserWriteShadowAlone,
     DeluserReadGroupAlone, DeluserWriteGroupAlone, AddgroupReadAlone,
     AddgroupWriteAlone, ChshReadAlone, ChshWriteAlone, ChpasswdWriteAlone,
     PasswdAlone DEF Step

(* The invocations that follow one another are not delgroup's.             *)
LEMMA SequentialKinds ==
  ASSUME NEW j \in SequentialJobs PROVE j.kind # "delgroup"
<1>1. \A kind, n : Plain(kind, n).kind = kind
  BY DEF Plain
<1>2. CASE j \in Adduser
  BY <1>1, <1>2 DEF Adduser
<1>3. CASE j \in AdduserG
  <2>1. PICK n \in Names, g \in Names : j = [Plain("adduser", n) EXCEPT !.ingroup = g]
    BY <1>3 DEF AdduserG
  <2> QED BY <2>1 DEF Plain
<1>4. CASE j \in AdduserU
  <2>1. PICK n \in Names : j = [Plain("adduser", n) EXCEPT !.id = FirstId]
    BY <1>4 DEF AdduserU
  <2> QED BY <2>1 DEF Plain
<1>5. CASE j \in Deluser
  BY <1>1, <1>5 DEF Deluser
<1>6. CASE j \in Addgroup
  <2>1. PICK n \in Names, i \in {NoId, FirstId} : j = [Plain("addgroup", n) EXCEPT !.id = i]
    BY <1>6 DEF Addgroup
  <2> QED BY <2>1 DEF Plain
<1>7. CASE j \in Chsh
  <2>1. PICK n \in Names, s \in Shells : j = [Plain("chsh", n) EXCEPT !.shell = s]
    BY <1>7 DEF Chsh
  <2> QED BY <2>1 DEF Plain
<1>8. CASE j \in Passwd
  <2>1. \A n, op : NewPassword(n, op).kind = "passwd"
    BY DEF NewPassword, Plain
  <2> QED BY <1>8, <2>1 DEF Passwd
<1>9. CASE j \in Chpasswd
  <2>1. \A n, t : NewPasswords(n, t).kind = "chpasswd"
    BY DEF NewPasswords, Plain
  <2> QED BY <1>9, <2>1 DEF Chpasswd
<1> QED BY <1>2, <1>3, <1>4, <1>5, <1>6, <1>7, <1>8, <1>9 DEF SequentialJobs, IdJobs

(* Only one process works, so each step is its step.                       *)
LEMMA OnlyStep ==
  ASSUME AgreeIInv, AppletsNext, ~together
  PROVE  /\ Start(p1) \/ Step(p1) \/ Abort(p1)
         /\ \A q \in Procs : job'[q] # NoJob => q = p1 /\ job'[q].kind # "delgroup"
<1>1. \A q \in Procs : job'[q] # NoJob => q = p1 /\ job'[q] \in SequentialJobs
  BY DEF AppletsNext, AtWork, ToRun
<1>2. PICK p \in Procs : Start(p) \/ Step(p) \/ Abort(p)
  BY DEF AppletsNext, Next
<1>3. ASSUME p # p1 PROVE FALSE
  <2>1. job[p] = NoJob /\ pc[p] = "idle" /\ job'[p] = NoJob
    BY <1>1, <1>3 DEF AgreeIInv, IInv, TypeOK, ProcsOK
  <2>2. ~Step(p)
    BY <2>1 DEF Step, At, AdduserReadPasswd, AdduserReadGroup, AdduserWriteGroup,
       AdduserWritePasswd, ReadShadow, AdduserWriteShadow, DeluserReadPasswd,
       DeluserWritePasswd, DeluserWriteShadow, DeluserReadGroup, DeluserWriteGroup,
       AddgroupRead, AddgroupWrite, DelgroupRead, DelgroupWrite, ChshRead, ChshWrite,
       ChpasswdWrite, PasswdLock, PasswdRead, PasswdWrite, PasswdUnlock
  <2>3. ~Abort(p)
    BY <2>1 DEF Abort
  <2>4. ~Start(p)
    <3>1. SUFFICES ASSUME NEW j \in Jobs, job' = [job EXCEPT ![p] = j] PROVE FALSE
      BY DEF Start
    <3>2. job'[p] = j /\ j # NoJob
      BY <3>1, JobAssumption DEF AgreeIInv, IInv, TypeOK, ProcsOK
    <3> QED BY <2>1, <3>2
  <2> QED BY <1>2, <2>2, <2>3, <2>4
<1> QED BY <1>1, <1>2, <1>3, SequentialKinds

LEMMA AgreeInit == AppletsInit => AgreeIInv
<1> SUFFICES ASSUME AppletsInit PROVE AgreeIInv
  OBVIOUS
<1>1. PICK users \in SUBSET Names : \E id \in IdMaps : \E pw \in [users -> Fields] :
        \E mates \in SUBSET users : Begin(users, id, pw, mates)
  BY DEF AppletsInit, Init
<1>2. PICK id \in IdMaps, pw \in [users -> Fields], mates \in SUBSET users :
        Begin(users, id, pw, mates)
  BY <1>1
<1>3. /\ passwd = [n \in Names |-> IF n \notin users THEN <<>> ELSE
                     <<[uid |-> id[n], gid |-> id[n], shell |-> DefaultShell]>>]
      /\ shadow = [n \in Names |-> IF n \notin users THEN <<>> ELSE <<pw[n]>>]
      /\ group  = [n \in Names |-> IF n \notin users THEN <<>> ELSE
                     <<[gid |-> id[n], members |-> mates \ {n}]>>]
      /\ \A p \in Procs : job[p] = NoJob
  BY <1>2 DEF Begin
<1>4. SameUsers(passwd, shadow, {})
  BY <1>3 DEF SameUsers, HasLine
<1>5. GroupsExist(passwd, group)
  <2>1. SUFFICES ASSUME NEW n \in Names, NEW i \in DOMAIN passwd[n]
                 PROVE  GidUsed(group, passwd[n][i].gid)
    BY DEF GroupsExist
  <2>2. n \in users
    BY <1>3
  <2>3. passwd[n] = <<[uid |-> id[n], gid |-> id[n], shell |-> DefaultShell]>>
    BY <1>3, <2>2
  <2>4. group[n] = <<[gid |-> id[n], members |-> mates \ {n}]>>
    BY <1>3, <2>2
  <2>5. i = 1 /\ passwd[n][i].gid = id[n]
    BY <2>3
  <2>6. 1 \in DOMAIN group[n] /\ group[n][1].gid = id[n]
    BY <2>4
  <2> QED BY <2>5, <2>6 DEF GidUsed
<1>6. Alone(p1)
  BY <1>3, <1>4, <1>5, OneProcess DEF Alone
<1> QED BY <1>3, <1>6, InitIInv DEF AgreeIInv, AppletsInit

LEMMA AgreeNext == AgreeIInv /\ [AppletsNext]_<<vars, together>> => AgreeIInv'
<1> SUFFICES ASSUME AgreeIInv, [AppletsNext]_<<vars, together>> PROVE AgreeIInv'
  OBVIOUS
<1>1. CASE UNCHANGED <<vars, together>>
  <2>1. IInv'
    BY <1>1, NextIInv DEF AgreeIInv
  <2> QED BY <1>1, <2>1 DEF vars, AgreeIInv, Alone, Me
<1>2. CASE AppletsNext
  <2>1. IInv' /\ together' = together
    BY <1>2, NextIInv DEF AppletsNext, AgreeIInv
  <2>2. mayAbort' = mayAbort
    <3>1. PICK p \in Procs : Start(p) \/ Step(p) \/ Abort(p)
      BY <1>2 DEF AppletsNext, Next
    <3> QED BY <3>1 DEF Start, Step, Abort, Exit, Goto, AdduserReadPasswd,
       AdduserReadGroup, AdduserWriteGroup, AdduserWritePasswd, ReadShadow,
       AdduserWriteShadow, DeluserReadPasswd, DeluserWritePasswd, DeluserWriteShadow,
       DeluserReadGroup, DeluserWriteGroup, AddgroupRead, AddgroupWrite, DelgroupRead,
       DelgroupWrite, ChshRead, ChshWrite, ChpasswdWrite, PasswdLock, PasswdRead,
       PasswdWrite, PasswdUnlock
  <2>3. ASSUME ~together
        PROVE  Alone(p1)' /\ \A q \in Procs : job'[q] # NoJob => q = p1 /\ job'[q].kind # "delgroup"
    <3>1. /\ Start(p1) \/ Step(p1) \/ Abort(p1)
          /\ \A q \in Procs : job'[q] # NoJob => q = p1 /\ job'[q].kind # "delgroup"
      BY <1>2, <2>3, OnlyStep
    <3>2. IInv /\ Alone(p1) /\ (job[p1] # NoJob => job[p1].kind # "delgroup")
      BY <2>3, OneProcess DEF AgreeIInv
    <3>3. CASE Start(p1)
      <4>1. job'[p1] # NoJob
        BY <3>3, <3>2, JobAssumption, OneProcess DEF Start, IInv, TypeOK, ProcsOK
      <4> QED BY <3>1, <3>2, <3>3, <4>1, StartAlone, OneProcess
    <3>4. CASE Step(p1)
      <4>1. job[p1] # NoJob
        BY <3>4 DEF Step, At, AdduserReadPasswd, AdduserReadGroup, AdduserWriteGroup,
           AdduserWritePasswd, ReadShadow, AdduserWriteShadow, DeluserReadPasswd,
           DeluserWritePasswd, DeluserWriteShadow, DeluserReadGroup, DeluserWriteGroup,
           AddgroupRead, AddgroupWrite, DelgroupRead, DelgroupWrite, ChshRead, ChshWrite,
           ChpasswdWrite, PasswdLock, PasswdRead, PasswdWrite, PasswdUnlock
      <4> QED BY <3>1, <3>2, <3>4, <4>1, StepAlone, OneProcess
    <3>5. CASE Abort(p1)
      BY <3>1, <3>2, <3>5, AbortAlone, OneProcess
    <3> QED BY <3>1, <3>3, <3>4, <3>5
  <2> QED BY <2>1, <2>2, <2>3 DEF AgreeIInv
<1> QED BY <1>1, <1>2

LEMMA AgreeInvariance == AppletsSpec => []AgreeIInv
  BY AgreeInit, AgreeNext, PTL DEF AppletsSpec

(* When applets follow one another, whatever fails or is killed, a user's  *)
(* primary group exists at every moment; and after commands none of which  *)
(* failed, passwd and shadow have the same users.                          *)
THEOREM DatabasesStayInStep == AppletsSpec => []DatabasesAgree
<1>1. AgreeIInv => DatabasesAgree
  <2> SUFFICES ASSUME AgreeIInv, ~together PROVE PrimaryGroupExists /\ Consistent
    BY DEF DatabasesAgree
  <2>1. IInv /\ Alone(p1)
    BY DEF AgreeIInv
  <2>2. PrimaryGroupExists
    BY <2>1 DEF Alone, GroupsExist, PrimaryGroupExists
  <2>3. ASSUME ~mayAbort, \A p \in Procs : pc[p] = "idle"
        PROVE  \A n \in Names : HasLine(passwd, n) <=> HasLine(shadow, n)
    <3>1. job[p1] = NoJob
      BY <2>1, <2>3, OneProcess DEF IInv, TypeOK, ProcsOK
    <3> QED BY <2>1, <2>3, <3>1 DEF Alone, SameUsers
  <2> QED BY <2>2, <2>3 DEF Consistent
<1> QED BY <1>1, AgreeInvariance, PTL

(* A step that gives a new user a line of shadow is adduser's last, and    *)
(* its line is the first of the name: a locked one.                        *)
LEMMA NewLineIsLocked ==
  ASSUME AgreeIInv, AppletsNext, ~together, ~mayAbort,
         NEW p \in Procs, Creates(p), NEW h \in Hashes
  PROVE  ~Authenticates(shadow', Me(p), h)
<1>1. /\ job[p] # NoJob /\ job[p].kind = "adduser" /\ pc[p] = "writeShadow"
      /\ shadow' # shadow
  BY DEF Creates, At
<1>2. p = p1 /\ IInv /\ Alone(p)
  BY <1>1 DEF AgreeIInv
<1>3. AdduserWriteShadow(p)
  <2>1. Start(p) \/ Step(p) \/ Abort(p)
    BY <1>2, OnlyStep
  <2> QED BY <1>1, <2>1 DEF Start, Step, Abort, At, AdduserReadPasswd,
     AdduserReadGroup, AdduserWriteGroup, AdduserWritePasswd, ReadShadow,
     DeluserReadPasswd, DeluserWritePasswd, DeluserWriteShadow, DeluserReadGroup,
     DeluserWriteGroup, AddgroupRead, AddgroupWrite, DelgroupRead, DelgroupWrite,
     ChshRead, ChshWrite, ChpasswdWrite, PasswdLock, PasswdRead, PasswdWrite,
     PasswdUnlock
<1>4. snap[p].shadow = shadow /\ Me(p) \in Names /\ ~HasLine(shadow, Me(p))
  BY <1>1, <1>2, AloneHeld DEF Fits, Agree, Between
<1>5. shadow \in [Names -> Seq(Password)] /\ shadow[Me(p)] = <<>>
  BY <1>1, <1>2, <1>4, AloneHeld DEF ShadowDB, HasLine
<1>6. shadow'[Me(p)] = Append(<<>>, LockedPassword)
  BY <1>3, <1>4, <1>5 DEF AdduserWriteShadow, AddLine
<1>7. shadow'[Me(p)][1] = LockedPassword
  BY <1>6
<1> QED BY <1>7 DEF Authenticates, VerifyHash, LockedPassword

(* When applets follow one another and none is interrupted, an account     *)
(* that adduser has just created opens with no password.                   *)
THEOREM NewAccountsAreLocked == AppletsSpec => AccountsStartLocked
<1>1. AgreeIInv /\ [AppletsNext]_<<vars, together>> =>
        [~together /\ ~mayAbort => \A p \in Procs : Creates(p) =>
           \A h \in Hashes : ~Authenticates(shadow', Me(p), h)]_<<vars, together>>
  BY NewLineIsLocked
<1> QED BY <1>1, AgreeInvariance, PTL DEF AppletsSpec, AccountsStartLocked

=============================================================================
