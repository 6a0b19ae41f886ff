------------------------------ MODULE Timeout ------------------------------
(***************************************************************************)
(* timeout (shellutils/timeout): a command in a process group of its own,  *)
(* a goroutine that waits for it, a timer, and with -k a grace period.     *)
(* The group is the command and one process that it left behind.           *)
(***************************************************************************)
EXTENDS Naturals

CONSTANT TimeoutInputs  \* what a run may be given

ASSUME TimeoutAssumption ==
  TimeoutInputs \subseteq
    [sig : {"TERM", "KILL"}, grace : BOOLEAN,   \* -s, whether -k is given
     starts : BOOLEAN, found : BOOLEAN,         \* whether the command can be run
     heeds : SUBSET {"child", "stray"}]         \* who ends at a TERM

VARIABLES
  tpc,     \* "new", "select", "signal", "grace", "kill", "await" or "exited"
  tin,
  member,  \* what each member of the group is: "none", "running", "ended"
           \* (unreaped, for the child) or "gone"
  how,     \* how the child ended: "none", "ok", "failed" or "signalled"
  ready,   \* the value in the channel done
  timer,   \* "off", "armed" or "fired": first the limit, then the grace
  sent,    \* signals that were sent to the group
  tstatus  \* the exit status

tvars == <<tpc, tin, member, how, ready, timer, sent, tstatus>>

Group == {"child", "stray"}
NoRun == [sig |-> "TERM", grace |-> FALSE, starts |-> FALSE, found |-> FALSE, heeds |-> {}]

TimeoutInit ==
  /\ tpc = "new" /\ tin = NoRun /\ member = [m \in Group |-> "none"] /\ how = "none"
  /\ ready = FALSE /\ timer = "off" /\ sent = {} /\ tstatus = "none"

-----------------------------------------------------------------------------
TimeoutStart ==
  /\ tpc = "new"
  /\ tin' \in TimeoutInputs
  /\ IF tin'.starts
       THEN /\ tpc' = "select" /\ timer' = "armed" /\ UNCHANGED tstatus
            /\ member' = [child |-> "running", stray |-> "none"]
       ELSE /\ tpc' = "exited" /\ UNCHANGED <<timer, member>>
            /\ tstatus' = IF tin'.found THEN "126" ELSE "127"
  /\ UNCHANGED <<how, ready, sent>>

(* The environment: the command leaves a process behind, a member ends by  *)
(* itself, and the timer runs out.                                         *)
Forks ==
  /\ member["child"] = "running" /\ member["stray"] = "none"
  /\ member' = [member EXCEPT !["stray"] = "running"]
  /\ UNCHANGED <<tpc, tin, how, ready, timer, sent, tstatus>>

MemberEnds(m) ==
  /\ member[m] = "running"
  /\ IF m = "child"
       THEN member' = [member EXCEPT ![m] = "ended"] /\ how' \in {"ok", "failed"}
       ELSE member' = [member EXCEPT ![m] = "gone"] /\ UNCHANGED how
  /\ UNCHANGED <<tpc, tin, ready, timer, sent, tstatus>>

TimerFires ==
  /\ timer = "armed" /\ timer' = "fired"
  /\ UNCHANGED <<tpc, tin, member, how, ready, sent, tstatus>>

(* The goroutine: cmd.Wait reaps the child and its result is put into done. *)
Reap ==
  /\ member["child"] = "ended" /\ ~ready
  /\ member' = [member EXCEPT !["child"] = "gone"] /\ ready' = TRUE
  /\ UNCHANGED <<tpc, tin, how, timer, sent, tstatus>>

-----------------------------------------------------------------------------
(* The select: when timer and child are both ready, either may be taken.   *)
TakeTimer ==
  /\ tpc \in {"select", "grace"} /\ timer = "fired"
  /\ tpc' = IF tpc = "select" THEN "signal" ELSE "kill"
  /\ timer' = "off"
  /\ UNCHANGED <<tin, member, how, ready, sent, tstatus>>

TakeDone ==
  /\ tpc \in {"select", "grace", "await"} /\ ready
  /\ tpc' = "exited" /\ ready' = FALSE /\ timer' = "off"
  /\ tstatus' = IF tpc # "select" THEN "124" ELSE IF how = "ok" THEN "0" ELSE "child"
  /\ UNCHANGED <<tin, member, how, sent>>

Dies(m, s) == member[m] = "running" /\ (s = "KILL" \/ m \in tin.heeds)

SignalChildOnly(s) ==   \* mutant: only the command is signalled
  /\ sent' = sent \cup {s}
  /\ member' = [member EXCEPT !["child"] = IF Dies("child", s) THEN "ended" ELSE @]
  /\ how' = IF Dies("child", s) THEN "signalled" ELSE how

(* kill(-pid): the whole group.                                            *)
SignalGroup(s) ==
  /\ sent' = sent \cup {s}
  /\ member' = [m \in Group |-> IF ~Dies(m, s) THEN member[m]
                                ELSE IF m = "child" THEN "ended" ELSE "gone"]
  /\ how' = IF Dies("child", s) THEN "signalled" ELSE how

LimitReached ==
  /\ tpc = "signal" /\ SignalGroup(tin.sig)
  /\ IF tin.grace THEN tpc' = "grace" /\ timer' = "armed"
                  ELSE tpc' = "await" /\ UNCHANGED timer
  /\ UNCHANGED <<tin, ready, tstatus>>

GraceOver ==
  /\ tpc = "kill" /\ SignalGroup("KILL") /\ tpc' = "await"
  /\ UNCHANGED <<tin, ready, timer, tstatus>>

TimeoutOwn  == TimerFires \/ Reap \/ TakeTimer \/ TakeDone \/ LimitReached \/ GraceOver
TimeoutStep == TimeoutOwn \/ Forks \/ \E m \in Group : MemberEnds(m)
TimeoutNext == TimeoutStart \/ TimeoutStep

(* Timers run out and goroutines are scheduled; no command need end.       *)
TimeoutFairness == WF_tvars(TimeoutOwn)
TimeoutSpec == TimeoutInit /\ [][TimeoutNext]_tvars /\ TimeoutFairness

-----------------------------------------------------------------------------
(* Properties. *)

TimeoutTypeOK ==
  /\ tpc \in {"new", "select", "signal", "grace", "kill", "await", "exited"}
  /\ tin \in TimeoutInputs \cup {NoRun}
  /\ member \in [Group -> {"none", "running", "ended", "gone"}]
  /\ how \in {"none", "ok", "failed", "signalled"}
  /\ ready \in BOOLEAN /\ timer \in {"off", "armed", "fired"}
  /\ sent \subseteq {"TERM", "KILL"}
  /\ tstatus \in {"none", "0", "child", "124", "126", "127"}

(* Whoever wins the race of timer and command, the exit status tells what  *)
(* happened: 124 just when the limit was enforced; the command's own       *)
(* status means that it ended by itself and that nobody was signalled; and *)
(* a command that was started has been reaped.                             *)
StatusIsTruthful ==
  tpc = "exited" =>
    /\ tstatus = "124" <=> sent # {}
    /\ tstatus = "0" => how = "ok"
    /\ tstatus = "child" => how = "failed"
    /\ tstatus \in {"126", "127"} <=> ~tin.starts
    /\ tin.starts => member["child"] = "gone"

(* What issue 951 was about: no process of the group outlives a limit that *)
(* was enforced with KILL.                                                 *)
KillSparesNobody ==
  tpc = "exited" /\ "KILL" \in sent => \A m \in Group : member[m] # "running"

(* timeout reports a limit it has enforced, and enforces what it reports.  *)
LimitIsReported == StatusIsTruthful /\ KillSparesNobody

(* A limit that can be enforced is: with -s KILL or with -k timeout ends,  *)
(* whatever the command does; without, if the command heeds the signal.    *)
LimitEnforced ==
  tpc = "select" /\ (tin.sig = "KILL" \/ tin.grace \/ "child" \in tin.heeds)
    ~> tpc = "exited"
=============================================================================
