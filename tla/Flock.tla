------------------------------- MODULE Flock -------------------------------
(***************************************************************************)
(* flock (util-linux/flock): several flock processes on one file.  Each    *)
(* takes the lock, waiting as -n and -w say, runs its command while it     *)
(* holds the lock, and lets go when it ends.  The lock belongs to flock's  *)
(* open file, which the command does not inherit.                          *)
(***************************************************************************)
EXTENDS Naturals, FiniteSets

CONSTANTS
  Flockers,      \* flock processes
  FlockOptions   \* -s or -x, and how to wait: for ever, never, or for a time

ASSUME FlockAssumption ==
  FlockOptions \subseteq [how : {"sh", "ex"}, mode : {"block", "nonblock", "wait"}]

VARIABLES
  fpc,     \* "new", "try", "sleep", "locked", "command", "exited" or "killed"
  fopt,    \* the options
  expired, \* whether the deadline of -w is over
  held,    \* the kernel's record: "none", "sh" or "ex"
  cmd,     \* the command: "none", "running" or "ended"
  ran      \* how flock ended: "none", "ran" or "refused"

fvars == <<fpc, fopt, expired, held, cmd, ran>>

NoOption == [how |-> "ex", mode |-> "block"]

FlockInit ==
  /\ fpc = [p \in Flockers |-> "new"]    /\ fopt = [p \in Flockers |-> NoOption]
  /\ expired = [p \in Flockers |-> FALSE] /\ held = [p \in Flockers |-> "none"]
  /\ cmd = [p \in Flockers |-> "none"]   /\ ran = [p \in Flockers |-> "none"]

-----------------------------------------------------------------------------
FlockStart(p) ==
  /\ fpc[p] = "new"
  /\ \E o \in FlockOptions : fopt' = [fopt EXCEPT ![p] = o]
  /\ fpc' = [fpc EXCEPT ![p] = "try"]
  /\ UNCHANGED <<expired, held, cmd, ran>>

(* flock(2): a shared lock is refused by a writer, an exclusive by anybody. *)
Free(p, how) ==
  \A q \in Flockers \ {p} : held[q] = "none" \/ (how = "sh" /\ held[q] = "sh")

Acquire(p) ==
  /\ fpc[p] = "try" /\ Free(p, fopt[p].how)
  /\ held' = [held EXCEPT ![p] = fopt[p].how] /\ fpc' = [fpc EXCEPT ![p] = "locked"]
  /\ UNCHANGED <<fopt, expired, cmd, ran>>

(* The lock is taken by another: -n gives up, -w when its deadline is over  *)
(* and sleeps otherwise; without them the process stays in the call.        *)
Refused(p) ==
  /\ fpc[p] = "try" /\ ~Free(p, fopt[p].how) /\ fopt[p].mode # "block"
  /\ IF fopt[p].mode = "nonblock" \/ expired[p]
       THEN fpc' = [fpc EXCEPT ![p] = "exited"] /\ ran' = [ran EXCEPT ![p] = "refused"]
       ELSE fpc' = [fpc EXCEPT ![p] = "sleep"] /\ UNCHANGED ran
  /\ UNCHANGED <<fopt, expired, held, cmd>>

Wake(p) ==
  /\ fpc[p] = "sleep" /\ fpc' = [fpc EXCEPT ![p] = "try"]
  /\ UNCHANGED <<fopt, expired, held, cmd, ran>>

Deadline(p) ==
  /\ fpc[p] \in {"try", "sleep"} /\ fopt[p].mode = "wait" /\ ~expired[p]
  /\ expired' = [expired EXCEPT ![p] = TRUE]
  /\ UNCHANGED <<fpc, fopt, held, cmd, ran>>

RunCommand(p) ==
  /\ fpc[p] = "locked"
  /\ fpc' = [fpc EXCEPT ![p] = "command"] /\ cmd' = [cmd EXCEPT ![p] = "running"]
  /\ UNCHANGED <<fopt, expired, held, ran>>

FlockCommandEnds(p) ==
  /\ cmd[p] = "running" /\ cmd' = [cmd EXCEPT ![p] = "ended"]
  /\ UNCHANGED <<fpc, fopt, expired, held, ran>>

LetGoEarly(p) ==   \* mutant: flock does not wait for its command
  /\ fpc[p] = "command"
  /\ fpc' = [fpc EXCEPT ![p] = "exited"] /\ held' = [held EXCEPT ![p] = "none"]
  /\ ran' = [ran EXCEPT ![p] = "ran"]
  /\ UNCHANGED <<fopt, expired, cmd>>

(* flock returns when its command has ended: the deferred Close unlocks.   *)
LetGo(p) ==
  /\ fpc[p] = "command" /\ cmd[p] = "ended"
  /\ fpc' = [fpc EXCEPT ![p] = "exited"] /\ held' = [held EXCEPT ![p] = "none"]
  /\ ran' = [ran EXCEPT ![p] = "ran"]
  /\ UNCHANGED <<fopt, expired, cmd>>

(* A killed flock holds nothing any more, though its command runs on.      *)
FlockKilled(p) ==
  /\ fpc[p] \in {"try", "sleep", "locked", "command"}
  /\ fpc' = [fpc EXCEPT ![p] = "killed"] /\ held' = [held EXCEPT ![p] = "none"]
  /\ UNCHANGED <<fopt, expired, cmd, ran>>

FlockOwn(p) == Acquire(p) \/ Refused(p) \/ Wake(p) \/ Deadline(p) \/ RunCommand(p) \/ LetGo(p)
FlockStep(p) == FlockOwn(p) \/ FlockCommandEnds(p) \/ FlockKilled(p)
FlockNext == \E p \in Flockers : FlockStart(p) \/ FlockStep(p)

(* Every flock makes its steps and time passes; commands need not end.     *)
FlockFairness == \A p \in Flockers : WF_fvars(FlockOwn(p)) /\ WF_fvars(Deadline(p))
FlockSpec == FlockInit /\ [][FlockNext]_fvars /\ FlockFairness

-----------------------------------------------------------------------------
(* Properties. *)

FlockTypeOK ==
  /\ fpc \in [Flockers -> {"new", "try", "sleep", "locked", "command", "exited", "killed"}]
  /\ fopt \in [Flockers -> FlockOptions \cup {NoOption}]
  /\ expired \in [Flockers -> BOOLEAN]
  /\ held \in [Flockers -> {"none", "sh", "ex"}]
  /\ cmd \in [Flockers -> {"none", "running", "ended"}]
  /\ ran \in [Flockers -> {"none", "ran", "refused"}]

Guarded(how) ==
  {p \in Flockers : cmd[p] = "running" /\ fpc[p] # "killed" /\ fopt[p].how = how}

(* Commands whose flock lives are guarded as by a lock for many readers or *)
(* one writer: flock implements RWLock, whoever waits, gives up, is killed *)
(* or begins late.                                                         *)
Lock == INSTANCE RWLock WITH Users <- Flockers,
                             readers <- Guarded("sh"), writers <- Guarded("ex")
CommandsAreGuarded == Lock!Spec

(* flock -n and -w come to an end of their waiting, even if the lock is    *)
(* never let go.                                                           *)
WaitIsBounded ==
  \A p \in Flockers :
    fpc[p] = "try" /\ fopt[p].mode # "block" ~> fpc[p] \in {"command", "exited", "killed"}
=============================================================================
