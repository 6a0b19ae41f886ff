------------------------------- MODULE Runit -------------------------------
(***************************************************************************)
(* runit's supervision: runsv, which keeps the ./run script of a service   *)
(* directory running, runsvdir, which starts a runsv for each of its       *)
(* subdirectories, and the files by which svok, sv and svc see and control *)
(* them.  A runsv is a process of its own or a goroutine of runsvdir's     *)
(* process; killing the process leaves its children and files behind.      *)
(***************************************************************************)
EXTENDS Naturals, Sequences, FiniteSets

CONSTANTS
  Dirs,       \* service directories
  Runsvs,     \* instances of runsv
  Manual,     \* those that are processes of their own
  NoDir,
  Commands,   \* the control bytes sv and svc write
  Scenarios,  \* the faults a behaviour may have and the runsvs it uses
  MaxStarts   \* bound: children started in all

(* "remove": directories come and go; "kill": a process is killed or its   *)
(* scan fails; "io": runsv cannot write its files or start the script;     *)
(* "two": a directory is given to a second runsv.                          *)
FaultKinds == {"remove", "kill", "io", "two"}
ASSUME FaultAssumption == Scenarios \subseteq [faults : SUBSET FaultKinds, crew : SUBSET Runsvs]
ASSUME CommandAssumption == {"none", "empty"} \cap Commands = {}
ASSUME DirAssumption   == NoDir \notin Dirs /\ MaxStarts \in Nat
ASSUME RunsvAssumption == Manual \subseteq Runsvs

VARIABLES
  exists, down,         \* each directory: is it there, and has it a down file
  ok, control, pidfile, \* its supervise files: ok, control's last byte, pid
  pc, dir,              \* each runsv: where it is, and its directory
  child,                \* the child it has started last, 0 for none
  runs, alive,          \* the runsv of every child started; those running
  scanner,              \* runsvdir: run, done, dead
  started,              \* its map of started services
  stopped,              \* runsvs whose ctx is done
  faults                \* what may happen in this behaviour

dirs  == <<exists, down>>
super == <<ok, control, pidfile>>
kids  == <<runs, alive>>
rvars == <<dirs, super, pc, dir, child, kids, scanner, started, stopped, faults>>

Over == {"off", "failed", "done", "dead"}
Supervising == {"check", "down", "loop", "pid", "wait", "delay"}
Supervised(d) == \E i \in Runsvs : dir[i] = d /\ pc[i] \in Supervising

RunitTypeOK ==
  /\ exists \in [Dirs -> BOOLEAN] /\ down \in [Dirs -> BOOLEAN]
  /\ ok \in [Dirs -> BOOLEAN] /\ control \in [Dirs -> {"none", "empty"} \cup Commands]
  /\ pidfile \in [Dirs -> 0 .. MaxStarts]
  /\ pc \in [Runsvs -> Over \cup Supervising \cup {"stat", "ok", "control"}]
  /\ dir \in [Runsvs -> Dirs \cup {NoDir}]
  /\ child \in [Runsvs -> 0 .. Len(runs)]
  /\ runs \in Seq(Runsvs) /\ alive \subseteq 1 .. Len(runs) /\ Len(runs) <= MaxStarts
  /\ stopped \subseteq Runsvs /\ faults \subseteq FaultKinds
  /\ scanner \in {"run", "done", "dead"} /\ started \subseteq Dirs

RunitInit ==
  /\ exists = [d \in Dirs |-> TRUE] /\ down \in [Dirs -> BOOLEAN]
  /\ ok = [d \in Dirs |-> FALSE] /\ control = [d \in Dirs |-> "none"]
  /\ pidfile = [d \in Dirs |-> 0]
  /\ \E s \in Scenarios :
       /\ faults = s.faults
       /\ pc = [i \in Runsvs |-> IF i \in s.crew THEN "off" ELSE "done"]
  /\ dir = [i \in Runsvs |-> NoDir]
  /\ child = [i \in Runsvs |-> 0]
  /\ runs = <<>> /\ alive = {}
  /\ stopped = {}
  /\ scanner = "run" /\ started = {}

-----------------------------------------------------------------------------
(* The administrator. *)

Remove(d) ==
  /\ "remove" \in faults /\ exists[d]
  /\ exists' = [exists EXCEPT ![d] = FALSE]
  /\ down' = [down EXCEPT ![d] = FALSE]
  /\ ok' = [ok EXCEPT ![d] = FALSE] /\ control' = [control EXCEPT ![d] = "none"]
  /\ pidfile' = [pidfile EXCEPT ![d] = 0]
  /\ UNCHANGED <<pc, dir, child, kids, scanner, started, stopped, faults>>

Add(d) ==
  /\ ~exists[d]
  /\ exists' = [exists EXCEPT ![d] = TRUE]
  /\ UNCHANGED <<down, super, pc, dir, child, kids, scanner, started, stopped, faults>>

(* sv and svc: the file is neither appended to nor a pipe.                 *)
SendControl(d, c) ==
  /\ control[d] # "none"
  /\ control' = [control EXCEPT ![d] = c]
  /\ UNCHANGED <<dirs, ok, pidfile, pc, dir, child, kids, scanner, started, stopped, faults>>

Launch(i, d) ==
  /\ pc[i] = "off"
  /\ pc' = [pc EXCEPT ![i] = "stat"] /\ dir' = [dir EXCEPT ![i] = d]

Occupied(d) == \E j \in Runsvs : dir[j] = d /\ pc[j] \notin Over \ {"dead"}

RunManually(i, d) ==
  /\ i \in Manual
  /\ Occupied(d) \/ (scanner = "run" /\ d \notin started) => "two" \in faults
  /\ Launch(i, d)
  /\ UNCHANGED <<dirs, super, child, kids, scanner, started, stopped, faults>>

(* The end of a ctx: a runsv process's, or the one of runsvdir and its own. *)
CancelRunsv(i) ==
  /\ i \notin stopped
  /\ stopped' = stopped \cup (IF i \in Manual THEN {i} ELSE Runsvs \ Manual)
  /\ UNCHANGED <<dirs, super, pc, dir, child, kids, scanner, started, faults>>

(* A killed process takes its goroutines with it, and nothing else.        *)
Die(I) == pc' = [i \in Runsvs |-> IF i \in I /\ pc[i] \notin Over THEN "dead" ELSE pc[i]]

KillRunsv(i) ==
  /\ "kill" \in faults /\ i \in Manual /\ pc[i] \notin Over
  /\ Die({i})
  /\ UNCHANGED <<dirs, super, dir, child, kids, scanner, started, stopped, faults>>

KillRunsvdir ==
  /\ "kill" \in faults /\ scanner = "run"
  /\ scanner' = "dead"
  /\ Die(Runsvs \ Manual)
  /\ UNCHANGED <<dirs, super, dir, child, kids, started, stopped, faults>>

-----------------------------------------------------------------------------
(* runsvdir. *)

(* A scan comes to a subdirectory it has not started.  An entry of the map *)
(* is for ever.                                                            *)
Scan(d) ==
  /\ scanner = "run" /\ exists[d] /\ d \notin started
  /\ started' = started \cup {d}
  /\ \E i \in Runsvs \ Manual : Launch(i, d)
  /\ UNCHANGED <<dirs, super, child, kids, scanner, stopped, faults>>

(* It waits for none of its goroutines, which end with the process.        *)
RunsvdirReturns ==
  /\ scanner = "run" /\ Runsvs \ Manual \subseteq stopped
  /\ scanner' = "done"
  /\ Die(Runsvs \ Manual)
  /\ UNCHANGED <<dirs, super, dir, child, kids, started, stopped, faults>>

-----------------------------------------------------------------------------
(* runsv.  Its own error path leaves an ok file it has written.            *)

At(i, l)   == pc[i] = l
GoTo(i, l) == pc' = [pc EXCEPT ![i] = l]
Still == UNCHANGED <<dirs, dir, scanner, started, stopped, faults>>

HasSupervise(d) == exists[d] /\ (ok[d] \/ control[d] # "none")

Fail(i) ==
  /\ \/ At(i, "stat") /\ ~exists[dir[i]]
     \/ pc[i] \in {"ok", "control"} /\ "io" \in faults
     \/ At(i, "control") /\ ~HasSupervise(dir[i])
  /\ GoTo(i, "failed")
  /\ Still /\ UNCHANGED <<super, child, kids>>

StatDir(i) ==
  /\ At(i, "stat") /\ exists[dir[i]]
  /\ GoTo(i, "ok")
  /\ Still /\ UNCHANGED <<super, child, kids>>

(* MkdirAll brings back a directory that has gone since the test.          *)
WriteOk(i) ==
  /\ At(i, "ok")
  /\ exists' = [exists EXCEPT ![dir[i]] = TRUE]
  /\ ok' = [ok EXCEPT ![dir[i]] = TRUE]
  /\ GoTo(i, "control")
  /\ UNCHANGED <<down, control, pidfile, dir, child, kids, scanner, started, stopped, faults>>

WriteControl(i) ==
  /\ At(i, "control") /\ HasSupervise(dir[i])
  /\ control' = [control EXCEPT ![dir[i]] = "empty"]
  /\ GoTo(i, "check")
  /\ Still /\ UNCHANGED <<ok, pidfile, child, kids>>

CheckDown(i) ==
  /\ At(i, "check")
  /\ GoTo(i, IF down[dir[i]] THEN "down" ELSE "loop")
  /\ Still /\ UNCHANGED <<super, child, kids>>

StartAfterDelay(i) ==   \* mutant: the child is not waited for
  /\ pc[i] \in {"loop", "wait"} /\ i \notin stopped
  /\ Len(runs) < MaxStarts
  /\ runs' = Append(runs, i) /\ alive' = alive \cup {Len(runs) + 1}
  /\ child' = [child EXCEPT ![i] = Len(runs) + 1]
  /\ GoTo(i, "pid")
  /\ Still /\ UNCHANGED super

StartChild(i) ==
  /\ At(i, "loop") /\ i \notin stopped /\ exists[dir[i]]
  /\ Len(runs) < MaxStarts
  /\ runs' = Append(runs, i) /\ alive' = alive \cup {Len(runs) + 1}
  /\ child' = [child EXCEPT ![i] = Len(runs) + 1]
  /\ GoTo(i, "pid")
  /\ Still /\ UNCHANGED super

ChildStartFails(i) ==
  /\ At(i, "loop") /\ i \notin stopped
  /\ exists[dir[i]] => "io" \in faults
  /\ GoTo(i, "delay")
  /\ Still /\ UNCHANGED <<super, child, kids>>

(* An error of this write is ignored.                                      *)
WritePid(i) ==
  /\ At(i, "pid")
  /\ pidfile' = IF HasSupervise(dir[i]) THEN [pidfile EXCEPT ![dir[i]] = child[i]] ELSE pidfile
  /\ GoTo(i, "wait")
  /\ Still /\ UNCHANGED <<ok, control, child, kids>>

ChildExits(n) ==
  /\ n \in alive
  /\ alive' = alive \ {n}
  /\ Still /\ UNCHANGED <<pc, super, child, runs>>

(* exec.CommandContext, once Wait is called.                               *)
KillChild(i) ==
  /\ pc[i] \in {"pid", "wait"} /\ i \in stopped /\ child[i] \in alive
  /\ alive' = alive \ {child[i]}
  /\ Still /\ UNCHANGED <<pc, super, child, runs>>

ChildWaitedOnce(i) ==   \* mutant: runsv ends with its child
  /\ At(i, "wait") /\ child[i] \notin alive
  /\ ok' = [ok EXCEPT ![dir[i]] = FALSE]
  /\ GoTo(i, "done")
  /\ Still /\ UNCHANGED <<control, pidfile, child, kids>>

ChildWaited(i) ==
  /\ At(i, "wait") /\ child[i] \notin alive
  /\ GoTo(i, "delay")
  /\ Still /\ UNCHANGED <<super, child, kids>>

Restart(i) ==
  /\ At(i, "delay") /\ GoTo(i, "loop")
  /\ Still /\ UNCHANGED <<super, child, kids>>

StopLeaving(i) ==       \* mutant: the cleanup is not deferred
  /\ pc[i] \in {"down", "loop", "delay"} /\ i \in stopped
  /\ GoTo(i, "done")
  /\ Still /\ UNCHANGED <<super, child, kids>>

(* The deferred cleanup removes the ok file.                               *)
Stop(i) ==
  /\ pc[i] \in {"down", "loop", "delay"} /\ i \in stopped
  /\ ok' = [ok EXCEPT ![dir[i]] = FALSE]
  /\ GoTo(i, "done")
  /\ Still /\ UNCHANGED <<control, pidfile, child, kids>>

-----------------------------------------------------------------------------
Runsv(i) == \/ Fail(i) \/ StatDir(i) \/ WriteOk(i) \/ WriteControl(i) \/ CheckDown(i)
            \/ StartChild(i) \/ ChildStartFails(i) \/ WritePid(i) \/ KillChild(i)
            \/ ChildWaited(i) \/ Restart(i) \/ Stop(i)

RunitNext ==
  \/ \E i \in Runsvs : Runsv(i) \/ CancelRunsv(i) \/ KillRunsv(i)
                       \/ \E d \in Dirs : RunManually(i, d)
  \/ \E d \in Dirs : Remove(d) \/ Add(d) \/ Scan(d) \/ \E c \in Commands : SendControl(d, c)
  \/ \E n \in 1 .. MaxStarts : ChildExits(n)
  \/ KillRunsvdir \/ RunsvdirReturns

RunitSpec == RunitInit /\ [][RunitNext]_rvars

(* The programs run; children need not end.                                *)
RunitFairSpec == RunitSpec /\ \A i \in Runsvs : WF_rvars(Runsv(i))
                 /\ \A d \in Dirs : WF_rvars(Scan(d))

-----------------------------------------------------------------------------
(* "Check whether the service directory is under active supervision, by    *)
(* testing for its supervise/ok": a runsv that ends in order takes the     *)
(* file with it, so it is there only while one supervises the directory or *)
(* is about to, or after one was killed or failed at a write.              *)
OkMeansSupervised ==
  \A d \in Dirs : ok[d] => \E i \in Runsvs :
    dir[i] = d /\ pc[i] \in Supervising \cup {"control", "failed", "dead"}

(* Nobody removes a directory or gives it to two runsvs, writes succeed.   *)
Orderly == faults \subseteq {"kill"}

(* "While supervising, it maintains DIR/supervise/ok": no other's cleanup  *)
(* takes the file away from a runsv at work.                               *)
MaintainsOk == Orderly => \A i \in Runsvs : pc[i] \in Supervising => ok[dir[i]]

(* Supervisors for all directories run each service at most once, also     *)
(* when one of them takes over a directory from another.                   *)
OneChild == Orderly => \A m, n \in alive : dir[runs[m]] = dir[runs[n]] => m = n

(* A child that runs is the one its runsv waits for, or the runsv was      *)
(* killed while it waited: nothing is started over a living child.         *)
ChildIsAwaited ==
  \A n \in alive : LET i == runs[n] IN
    child[i] = n /\ pc[i] \in {"pid", "wait", "dead"}

(* "Record the supervised child's pid": while a runsv waits for its child, *)
(* the pid file is the child's, of whatever it was before.                 *)
PidIsChild ==
  Orderly => \A i \in Runsvs : pc[i] = "wait" => pidfile[dir[i]] = child[i]

(* A supervisor that takes over a directory as another leaves it finds, or *)
(* makes, the directory's files and its only child its own.                *)
TakeoverIsClean == MaintainsOk /\ OneChild /\ PidIsChild

(* What a directory's files say is so, of one runsv and after takeovers.   *)
FilesTellTruth == OkMeansSupervised /\ TakeoverIsClean

(* "restart it whenever it exits": a service that runsv supervises, and    *)
(* that is not down, always has a child again.                             *)
Restarted ==
  \A i \in Runsvs : Orderly /\ pc[i] \in {"wait", "delay", "loop"} ~>
    child[i] \in alive \/ pc[i] = "dead" \/ i \in stopped \/ Len(runs) = MaxStarts

(* "start a runsv for each subdirectory and keep it running": a directory  *)
(* that stays is supervised as long as runsvdir runs.                      *)
KeptRunning ==
  \A d \in Dirs : Orderly /\ exists[d] ~>
    Supervised(d) \/ scanner # "run" \/ stopped # {}

(* Every directory gets its supervisor, and every service is up again.     *)
ServicesStayUp == Restarted /\ KeptRunning

(* "Stop nginx and keep it down": a control byte takes effect.             *)
DownStops ==
  \A d \in Dirs : control[d] = "d" ~>
    stopped # {} \/ control[d] # "d" \/ \A n \in alive : dir[runs[n]] # d

-----------------------------------------------------------------------------
(* Behaviours for the runs: all the runsvs without faults, or one of each  *)
(* sort, a goroutine of runsvdir and a process beside it, with every fault.*)
Faultless == {[faults |-> {}, crew |-> Runsvs]}
Scenes    == Faultless \cup {[faults |-> FaultKinds, crew |-> Manual \cup {CHOOSE i \in Runsvs \ Manual : TRUE}]}
=============================================================================
