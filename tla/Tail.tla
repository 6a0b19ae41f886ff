-------------------------------- MODULE Tail --------------------------------
(***************************************************************************)
(* tail -f and -F: a first pass prints the end of a file, then the file is *)
(* opened again and polled for growth, while a writer appends to it, and   *)
(* may rotate or truncate it, between any two of tail's system calls.      *)
(*                                                                         *)
(* A record is a number, in the order of writing, and a size a number of   *)
(* records.  One target is followed: targets share only their headers.     *)
(***************************************************************************)
EXTENDS Naturals, Sequences

CONSTANTS
  Lines,      \* -n
  Retry,      \* -F or --retry
  WatchPid,   \* --pid of the writer
  Modes,      \* the behaviours considered: reopen, for -F or --follow=name, or
              \* not, and what happens to the file
  MaxRecords, MaxFiles  \* bounds: records written, files created

ASSUME OptionAssumption ==
  Lines \in Nat /\ Retry \in BOOLEAN /\ WatchPid \in BOOLEAN
ASSUME ModeAssumption ==
  Modes \subseteq [reopen : BOOLEAN, faults : SUBSET {"rotate", "truncate", "missing", "cancel"}]
ASSUME BoundAssumption == MaxRecords \in Nat /\ MaxFiles \in Nat \ {0}

VARIABLES
  mode,                  \* the behaviour's mode
  content, name, files,  \* the files made, and the one the path names, or 0
  log, written, writer,  \* the file the writer has open; its records; is it alive
  pc, fd, info, offset,  \* tail, and its target's file, identity and offset
  found, size,           \* what Stat said last of the path and of the file
  printed,                  \* what tail has printed
  since                  \* history: the records written when tail began to follow

disk == <<content, name, files>>
env  == <<mode, disk, log, written, writer>>
vars == <<env, pc, fd, info, offset, found, size, printed, since>>

Inode   == 1 .. MaxFiles
Record == 1 .. MaxRecords
Before == {"pass", "open", "seek"}
Polls  == {"wait", "stat", "reopen", "size", "emit", "check"}

TypeOK ==
  /\ mode \in Modes
  /\ content \in [Inode -> Seq(Record)]
  /\ files \in 0 .. MaxFiles /\ name \in 0 .. files /\ log \in 0 .. files
  /\ written \in 0 .. MaxRecords /\ since \in 0 .. MaxRecords /\ writer \in BOOLEAN
  /\ pc \in Before \cup Polls \cup {"done"}
  /\ fd \in 0 .. files /\ info \in 0 .. files /\ found \in 0 .. files
  /\ offset \in 0 .. MaxRecords /\ size \in 0 .. MaxRecords
  /\ printed \in Seq(Record)

Init ==
  /\ mode \in Modes
  /\ content = [f \in Inode |-> <<>>]
  /\ name \in (IF "missing" \in mode.faults THEN {0, 1} ELSE {1}) /\ files = name /\ log = name
  /\ written = 0 /\ writer = TRUE /\ since = 0
  /\ pc = "pass" /\ fd = 0 /\ info = 0 /\ found = 0 /\ offset = 0 /\ size = 0
  /\ printed = <<>>

-----------------------------------------------------------------------------
(* The writer and the rotation of its log. *)

Tails == UNCHANGED <<mode, pc, fd, info, offset, found, size, printed, since>>

Write ==
  /\ writer /\ log # 0 /\ written < MaxRecords
  /\ written' = written + 1
  /\ content' = [content EXCEPT ![log] = Append(@, written + 1)]
  /\ Tails /\ UNCHANGED <<name, files, log, writer>>

MoveAway ==
  /\ "rotate" \in mode.faults /\ name # 0
  /\ name' = 0
  /\ Tails /\ UNCHANGED <<content, files, log, written, writer>>

(* A new file takes the path, also from another one.                       *)
Create ==
  /\ name = 0 \/ "rotate" \in mode.faults
  /\ writer /\ files < MaxFiles
  /\ files' = files + 1 /\ name' = files + 1 /\ log' = files + 1
  /\ Tails /\ UNCHANGED <<content, written, writer>>

Truncate ==
  /\ "truncate" \in mode.faults /\ log # 0 /\ content[log] # <<>>
  /\ content' = [content EXCEPT ![log] = <<>>]
  /\ Tails /\ UNCHANGED <<name, files, log, written, writer>>

Exit ==
  /\ WatchPid /\ writer
  /\ writer' = FALSE
  /\ Tails /\ UNCHANGED <<disk, log, written>>

-----------------------------------------------------------------------------
(* tail. *)

GoTo(l) == pc' = l

FirstPass ==
  /\ pc = "pass" /\ GoTo("open")
  /\ IF name = 0 THEN printed' = printed
     ELSE LET c == content[name] IN
          printed' = SubSeq(c, IF Len(c) > Lines THEN Len(c) - Lines + 1 ELSE 1, Len(c))
  /\ UNCHANGED <<env, fd, info, offset, found, size, since>>

Open ==
  /\ pc = "open"
  /\ \/ /\ name # 0
        /\ fd' = name /\ info' = name /\ GoTo("seek")
     \/ /\ name = 0
        /\ GoTo(IF Retry THEN "wait" ELSE "done") /\ UNCHANGED <<fd, info>>
  /\ since' = written
  /\ UNCHANGED <<env, offset, found, size, printed>>

SeekEnd ==
  /\ pc = "seek" /\ GoTo("wait")
  /\ offset' = Len(content[fd])
  /\ since' = written
  /\ UNCHANGED <<env, fd, info, found, size, printed>>

Cancel ==
  /\ pc = "wait" /\ "cancel" \in mode.faults
  /\ GoTo("done")
  /\ UNCHANGED <<env, fd, info, offset, found, size, printed, since>>

Tick ==
  /\ pc = "wait"
  /\ GoTo(IF mode.reopen THEN "stat" ELSE IF fd = 0 THEN "check" ELSE "size")
  /\ UNCHANGED <<env, fd, info, offset, found, size, printed, since>>

(* maybeReopen: what the path names now ...                                *)
StatPath ==
  /\ pc = "stat"
  /\ \/ /\ name = 0
        /\ fd' = 0 /\ info' = 0 /\ GoTo("check") /\ UNCHANGED found
     \/ /\ name # 0 /\ fd # 0 /\ info = name
        /\ GoTo("size") /\ UNCHANGED <<fd, info, found>>
     \/ /\ name # 0 /\ (fd = 0 \/ info # name)
        /\ found' = name /\ GoTo("reopen") /\ UNCHANGED <<fd, info>>
  /\ UNCHANGED <<env, offset, size, printed, since>>

ReopenKeepsOffset ==    \* mutant: the offset is not reset
  /\ pc = "reopen" /\ name # 0
  /\ fd' = name /\ info' = found /\ GoTo("size")
  /\ UNCHANGED <<env, offset, found, size, printed, since>>

(* ... is opened a moment later, and known by what it was before.          *)
ReopenPath ==
  /\ pc = "reopen"
  /\ \/ /\ name # 0
        /\ fd' = name /\ info' = found /\ offset' = 0 /\ GoTo("size")
     \/ /\ name = 0
        /\ GoTo(IF fd = 0 THEN "check" ELSE "size") /\ UNCHANGED <<fd, info, offset>>
  /\ UNCHANGED <<env, found, size, printed, since>>

(* A file that has become shorter is read from its start.                  *)
StatSize ==
  /\ pc = "size"
  /\ size' = Len(content[fd])
  /\ offset' = IF size' < offset THEN 0 ELSE offset
  /\ GoTo(IF size' > offset' THEN "emit" ELSE "check")
  /\ UNCHANGED <<env, fd, info, found, printed, since>>

(* The copy ends at the size found, or at the end of a file that has been  *)
(* truncated since.                                                        *)
Copied ==
  LET end == IF size < Len(content[fd]) THEN size ELSE Len(content[fd])
  IN SubSeq(content[fd], offset + 1, end)

EmitForgets ==          \* mutant: the offset is not advanced
  /\ pc = "emit" /\ GoTo("check")
  /\ printed' = printed \o Copied
  /\ UNCHANGED <<env, fd, info, offset, found, size, since>>

Emit ==
  /\ pc = "emit" /\ GoTo("check")
  /\ printed' = printed \o Copied /\ offset' = offset + Len(Copied)
  /\ UNCHANGED <<env, fd, info, found, size, since>>

CheckPid ==
  /\ pc = "check"
  /\ GoTo(IF WatchPid /\ ~writer THEN "done" ELSE "wait")
  /\ UNCHANGED <<env, fd, info, offset, found, size, printed, since>>

-----------------------------------------------------------------------------
Environment == Write \/ MoveAway \/ Create \/ Truncate \/ Exit
Follow == FirstPass \/ Open \/ SeekEnd \/ Tick \/ StatPath \/ ReopenPath \/ StatSize
            \/ Emit \/ CheckPid

Next == Environment \/ Follow \/ Cancel

Spec     == Init /\ [][Next]_vars
FairSpec == Spec /\ WF_vars(Follow)

-----------------------------------------------------------------------------
In(n, s)   == \E i \in DOMAIN s : s[i] = n
Printed(n) == In(n, printed)
InPath(n)  == name # 0 /\ In(n, content[name])

(* Without -F, what tail prints is in the order of writing and nothing     *)
(* comes twice, whatever becomes of the file.                              *)
InOrder == ~mode.reopen => \A i, j \in DOMAIN printed : i < j => printed[i] < printed[j]

(* The offset counts "how many bytes have already been emitted": as long   *)
(* as files only grow, all below it that was written since tail began to   *)
(* follow is printed, through every rotation.                              *)
Growing == "truncate" \notin mode.faults
Covered ==
  pc \in Polls /\ fd # 0 =>
    \A i \in DOMAIN content[fd] :
      i <= offset => content[fd][i] <= since \/ Printed(content[fd][i])
NothingSkipped == Growing => Covered

(* "Follow by name": what the file that has the path contains is printed,  *)
(* if the file keeps the path and only grows.                              *)
CaughtUp ==
  \A n \in Record : mode.reopen /\ Growing /\ n > since /\ pc \in Polls /\ InPath(n) ~>
    Printed(n) \/ ~InPath(n) \/ pc = "done"

(* "print new lines as they arrive": also those at the end of a file that  *)
(* is then rotated.                                                        *)
EveryRecord ==
  \A f \in Inode, n \in Record :
    fd = f /\ pc \in Polls /\ n > since /\ In(n, content[f]) ~> Printed(n)

-----------------------------------------------------------------------------
(* Behaviours for the runs: a descriptor or a name is followed, and what   *)
(* may happen to the file meanwhile.                                       *)
BothModes == {[reopen |-> FALSE, faults |-> {"rotate", "truncate", "missing", "cancel"}],
              [reopen |-> TRUE, faults |-> {"rotate", "missing", "cancel"}]}
Rotation  == {[reopen |-> TRUE, faults |-> {"rotate"}]}
=============================================================================
