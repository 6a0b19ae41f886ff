---------------------------- MODULE ProcessProofs ----------------------------
(***************************************************************************)
(* Proofs about the applets that live beside another process: the command  *)
(* or the filter they run, the writer of the file they follow, the peer at *)
(* the other end of a line.                                                *)
(*                                                                         *)
(* flock implements a lock for many readers or one writer, timeout reports *)
(* the limit it has enforced, start-stop-daemon keeps track of its daemon, *)
(* popmaildir loses no mail.                                               *)
(*                                                                         *)
(* tail: whatever is written and rotated while tail follows, the records   *)
(* below its offset are printed, as long as no file is truncated; and      *)
(* without -F, whatever happens, they are printed in order.                *)
(*                                                                         *)
(* rx implements FileTransfer's safety, for every file, every range of at  *)
(* least two block numbers and any number of repeats: the packets on the   *)
(* link are one walk from the block rx has last written to the block the   *)
(* sender is at, which stays or goes on by one, in index and in number.    *)
(*                                                                         *)
(* nc, telnet, ssl_client and microcom deliver what they carry.            *)
(*                                                                         *)
(* mbsh: parse accepts the lines of its grammar and keeps their words.     *)
(***************************************************************************)
EXTENDS Flock, Mbsh, Timeout, StartStop, Popmaildir, Tail, Xmodem, Relays, SequenceTheorems,
        FiniteSetTheorems, WellFoundedInduction, TLAPS

-----------------------------------------------------------------------------
(* flock. *)

(* A process has the lock it asked for from when it got it until it lets   *)
(* go, and its command runs only behind that; and the kernel gives the     *)
(* lock to a writer alone or to readers.                                   *)
Pending   == {"new", "try", "sleep", "exited", "killed"}
HoldsAsked ==
  \A p \in Flockers : held[p] = IF fpc[p] \in Pending THEN "none" ELSE fopt[p].how
CommandIsBehind ==
  \A p \in Flockers : cmd[p] = "running" => fpc[p] \in {"command", "killed"}
WriterIsAlone ==
  \A p, q \in Flockers : p # q /\ held[p] = "ex" => held[q] = "none"

FlockIInv == FlockTypeOK /\ HoldsAsked /\ CommandIsBehind /\ WriterIsAlone

LEMMA OptionForm ==
  ASSUME FlockTypeOK, NEW p \in Flockers
  PROVE  fopt[p].how \in {"sh", "ex"}
  BY FlockAssumption DEF FlockTypeOK, NoOption

LEMMA FlockBegins == FlockInit => FlockIInv
  BY DEF FlockInit, FlockIInv, FlockTypeOK, HoldsAsked, CommandIsBehind, WriterIsAlone, Pending

LEMMA FlockKeeps == FlockIInv /\ [FlockNext]_fvars => FlockIInv'
<1> SUFFICES ASSUME FlockIInv, [FlockNext]_fvars PROVE FlockIInv'
  OBVIOUS
<1> USE DEF FlockIInv, FlockTypeOK, HoldsAsked, CommandIsBehind, WriterIsAlone, Pending
<1>1. ASSUME NEW p \in Flockers, FlockStart(p) PROVE FlockIInv'
  BY <1>1 DEF FlockStart
<1>2. ASSUME NEW p \in Flockers, Acquire(p) PROVE FlockIInv'
  <2>1. /\ held' = [held EXCEPT ![p] = fopt[p].how] /\ fpc' = [fpc EXCEPT ![p] = "locked"]
        /\ UNCHANGED <<fopt, expired, cmd, ran>> /\ fpc[p] = "try" /\ Free(p, fopt[p].how)
    BY <1>2 DEF Acquire
  <2>2. fopt[p].how \in {"sh", "ex"}
    BY OptionForm
  <2>3. FlockTypeOK'
    BY <2>1, <2>2
  <2>4. HoldsAsked' /\ CommandIsBehind'
    BY <2>1
  <2>5. WriterIsAlone'
    BY <2>1, <2>2 DEF Free
  <2> QED
    BY <2>3, <2>4, <2>5
<1>3. ASSUME NEW p \in Flockers, Refused(p) PROVE FlockIInv'
  BY <1>3 DEF Refused
<1>4. ASSUME NEW p \in Flockers, Wake(p) PROVE FlockIInv'
  BY <1>4 DEF Wake
<1>5. ASSUME NEW p \in Flockers, Deadline(p) PROVE FlockIInv'
  BY <1>5 DEF Deadline
<1>6. ASSUME NEW p \in Flockers, RunCommand(p) PROVE FlockIInv'
  BY <1>6 DEF RunCommand
<1>7. ASSUME NEW p \in Flockers, FlockCommandEnds(p) PROVE FlockIInv'
  BY <1>7 DEF FlockCommandEnds
<1>8. ASSUME NEW p \in Flockers, LetGo(p) PROVE FlockIInv'
  BY <1>8 DEF LetGo
<1>9. ASSUME NEW p \in Flockers, FlockKilled(p) PROVE FlockIInv'
  BY <1>9 DEF FlockKilled
<1>10. CASE UNCHANGED fvars
  BY <1>10 DEF fvars
<1> QED
  BY <1>1, <1>2, <1>3, <1>4, <1>5, <1>6, <1>7, <1>8, <1>9, <1>10 DEF FlockNext, FlockStep, FlockOwn

(* The strengthened invariant holds of the specification.                  *)
THEOREM FlockInvariance == FlockSpec => []FlockIInv
  BY FlockBegins, FlockKeeps, PTL DEF FlockSpec

(* A step of flock is one of the lock's, or its users do not change.       *)
LEMMA FlockRefines ==
  ASSUME FlockIInv, [FlockNext]_fvars
  PROVE  [Lock!Next]_<<Guarded("sh"), Guarded("ex")>>
<1> USE DEF FlockIInv, FlockTypeOK
<1> DEFINE live(p) == cmd[p] = "running" /\ fpc[p] # "killed"
<1>1. \A p \in Flockers : live(p) => held[p] = fopt[p].how
  BY DEF HoldsAsked, CommandIsBehind, Pending
<1>2. \A p \in Flockers : fopt[p].how \in {"sh", "ex"}
  BY OptionForm
<1>3. ASSUME \A p \in Flockers : live(p)' = live(p) /\ (live(p) => fopt'[p] = fopt[p])
      PROVE  UNCHANGED <<Guarded("sh"), Guarded("ex")>>
  BY <1>3 DEF Guarded
<1>4. ASSUME NEW p \in Flockers, fopt' = fopt, ~live(p)', \A q \in Flockers \ {p} : live(q)' = live(q)
      PROVE  [Lock!Next]_<<Guarded("sh"), Guarded("ex")>>
  <2>1. Guarded("sh")' = Guarded("sh") \ {p} /\ Guarded("ex")' = Guarded("ex") \ {p}
    BY <1>4 DEF Guarded
  <2>2. CASE p \in Guarded("sh") \cup Guarded("ex")
    BY <2>1, <2>2 DEF Lock!Next, Lock!Leave
  <2>3. CASE p \notin Guarded("sh") \cup Guarded("ex")
    BY <2>1, <2>3
  <2> QED
    BY <2>2, <2>3
<1>5. ASSUME NEW p \in Flockers, FlockStart(p) PROVE UNCHANGED <<Guarded("sh"), Guarded("ex")>>
  BY <1>3, <1>5 DEF FlockStart, CommandIsBehind
<1>6. ASSUME NEW p \in Flockers, Acquire(p) \/ Refused(p) \/ Wake(p) \/ Deadline(p)
      PROVE  UNCHANGED <<Guarded("sh"), Guarded("ex")>>
  BY <1>3, <1>6 DEF Acquire, Refused, Wake, Deadline
<1>7. ASSUME NEW p \in Flockers, RunCommand(p) PROVE [Lock!Next]_<<Guarded("sh"), Guarded("ex")>>
  <2>1. /\ fpc[p] = "locked" /\ ~live(p) /\ held[p] = fopt[p].how
        /\ live(p)' /\ \A q \in Flockers \ {p} : live(q)' = live(q)
        /\ fopt' = fopt
    BY <1>7 DEF RunCommand, CommandIsBehind, HoldsAsked, Pending
  <2>2. CASE fopt[p].how = "sh"
    <3>1. Guarded("sh")' = Guarded("sh") \cup {p} /\ Guarded("ex")' = Guarded("ex")
      BY <2>1, <2>2 DEF Guarded
    <3>2. \A q \in Flockers : ~(live(q) /\ fopt[q].how = "ex")
      BY <1>1, <2>1, <2>2 DEF WriterIsAlone
    <3>3. Guarded("ex") = {}
      BY <3>2 DEF Guarded
    <3> QED
      BY <3>1, <3>3 DEF Lock!Next, Lock!EnterRead
  <2>3. CASE fopt[p].how = "ex"
    <3>1. \A q \in Flockers : ~live(q)
      BY <1>1, <1>2, <2>1, <2>3 DEF WriterIsAlone
    <3>2. Guarded("sh") = {} /\ Guarded("ex") = {}
      BY <3>1 DEF Guarded
    <3>3. Guarded("ex")' = {p} /\ Guarded("sh")' = {}
      BY <2>1, <2>3, <3>1 DEF Guarded
    <3> QED
      BY <3>2, <3>3 DEF Lock!Next, Lock!EnterWrite
  <2> QED
    BY <1>2, <2>2, <2>3
<1>8. ASSUME NEW p \in Flockers, FlockCommandEnds(p) \/ LetGo(p) \/ FlockKilled(p)
      PROVE  [Lock!Next]_<<Guarded("sh"), Guarded("ex")>>
  BY <1>4, <1>8 DEF FlockCommandEnds, LetGo, FlockKilled
<1>9. CASE UNCHANGED fvars
  BY <1>3, <1>9 DEF fvars
<1> QED
  BY <1>5, <1>6, <1>7, <1>8, <1>9 DEF FlockNext, FlockStep, FlockOwn

(* flock lets commands run as a lock for many readers or one writer would: *)
(* whoever waits, gives up, is killed or begins late.                      *)
THEOREM FlockImplementsLock == FlockSpec => CommandsAreGuarded
<1>1. FlockInit => Lock!Init
  BY DEF FlockInit, Lock!Init, Guarded
<1>2. FlockSpec => []FlockIInv
  BY FlockInvariance
<1>3. FlockIInv /\ [FlockNext]_fvars => [Lock!Next]_<<Guarded("sh"), Guarded("ex")>>
  BY FlockRefines
<1> QED
  BY <1>1, <1>2, <1>3, PTL DEF FlockSpec, CommandsAreGuarded, Lock!Spec

-----------------------------------------------------------------------------
(* timeout. *)

(* What each place of the select knows: before a command is started there  *)
(* is no group; a limit is enforced once the timer has been taken; and the *)
(* child is reaped once, by the goroutine that hands on its result.        *)
NoGroup ==
  ~tin.starts =>
    /\ tpc \in {"new", "exited"} /\ how = "none" /\ ~ready /\ sent = {}
    /\ \A m \in Group : member[m] = "none"
Started ==
  tin.starts => tpc # "new" /\ member["child"] # "none"
EndIsKnown ==
  tin.starts => (how = "none" <=> member["child"] = "running")
SignalsTold ==
  /\ tpc \in {"new", "select", "signal"} => sent = {}
  /\ tpc \in {"grace", "kill", "await"} => sent # {}
  /\ how = "signalled" => sent # {}
ReapedOnce ==
  /\ ready => tpc # "exited" /\ member["child"] = "gone"
  /\ tin.starts /\ member["child"] = "gone" => ready \/ tpc = "exited"
KillIsFinal ==
  "KILL" \in sent => \A m \in Group : member[m] # "running"

TimeoutIInv ==
  /\ TimeoutTypeOK /\ NoGroup /\ Started /\ EndIsKnown /\ SignalsTold
  /\ ReapedOnce /\ KillIsFinal /\ StatusIsTruthful

LEMMA TimeoutBegins == TimeoutInit => TimeoutIInv
<1> SUFFICES ASSUME TimeoutInit PROVE TimeoutIInv
  OBVIOUS
<1>1. /\ tpc = "new" /\ ~tin.starts /\ \A m \in Group : member[m] = "none"
      /\ how = "none" /\ ready = FALSE /\ sent = {} /\ tin = NoRun
  BY DEF TimeoutInit, NoRun
<1>2. TimeoutTypeOK
  BY DEF TimeoutInit, TimeoutTypeOK
<1> QED
  BY <1>1, <1>2 DEF TimeoutIInv, NoGroup, Started, EndIsKnown, SignalsTold, ReapedOnce,
                    KillIsFinal, StatusIsTruthful

LEMMA InputForm ==
  ASSUME TimeoutTypeOK
  PROVE  tin.sig \in {"TERM", "KILL"}
<1>1. CASE tin \in TimeoutInputs
  BY <1>1, TimeoutAssumption
<1>2. CASE tin = NoRun
  BY <1>2 DEF NoRun
<1> QED
  BY <1>1, <1>2 DEF TimeoutTypeOK

LEMMA TimeoutStarts == TimeoutIInv /\ TimeoutStart => TimeoutIInv'
<1> SUFFICES ASSUME TimeoutIInv, TimeoutStart PROVE TimeoutIInv'
  OBVIOUS
<1> USE DEF TimeoutIInv, TimeoutTypeOK, Group
<1>1. /\ tpc = "new" /\ ~tin.starts /\ tin' \in TimeoutInputs
      /\ how = "none" /\ ~ready /\ sent = {} /\ \A m \in Group : member[m] = "none"
      /\ how' = how /\ ready' = ready /\ sent' = sent
  BY InputForm DEF TimeoutStart, Started, NoGroup
<1>2. CASE tin'.starts
  <2>1. /\ tpc' = "select" /\ timer' = "armed" /\ tstatus' = tstatus
        /\ member' = [child |-> "running", stray |-> "none"]
    BY <1>2 DEF TimeoutStart
  <2>2. /\ member' \in [Group -> {"none", "running", "ended", "gone"}]
        /\ member'["child"] = "running"
    BY <2>1
  <2> QED
    BY <1>1, <1>2, <2>1, <2>2 DEF NoGroup, Started, EndIsKnown, SignalsTold, ReapedOnce,
                             KillIsFinal, StatusIsTruthful
<1>3. CASE ~tin'.starts
  <2>1. /\ tpc' = "exited" /\ timer' = timer /\ member' = member
        /\ tstatus' \in {"126", "127"}
    BY <1>3 DEF TimeoutStart
  <2> QED
    BY <1>1, <1>3, <2>1 DEF NoGroup, Started, EndIsKnown, SignalsTold, ReapedOnce,
                             KillIsFinal, StatusIsTruthful
<1> QED
  BY <1>2, <1>3

(* Signalling the group leaves the type and, with KILL, nobody running.    *)
LEMMA GroupSignalled ==
  ASSUME TimeoutIInv, NEW s \in {"TERM", "KILL"}, SignalGroup(s), tin.starts
  PROVE  /\ sent' = sent \cup {s}
         /\ member' \in [Group -> {"none", "running", "ended", "gone"}]
         /\ how' \in {"none", "ok", "failed", "signalled"}
         /\ member'["child"] # "none" /\ (member'["child"] = "gone" <=> member["child"] = "gone")
         /\ how' = "none" <=> member'["child"] = "running"
         /\ s = "KILL" => \A m \in Group : member'[m] # "running"
         /\ \A m \in Group : member'[m] = "running" => member[m] = "running"
  BY DEF SignalGroup, Dies, Group, TimeoutIInv, TimeoutTypeOK, Started, EndIsKnown

LEMMA TimeoutKeeps == TimeoutIInv /\ [TimeoutNext]_tvars => TimeoutIInv'
<1> SUFFICES ASSUME TimeoutIInv, [TimeoutNext]_tvars PROVE TimeoutIInv'
  OBVIOUS
<1> USE DEF TimeoutIInv, TimeoutTypeOK, Group, NoGroup, Started, EndIsKnown, SignalsTold,
            ReapedOnce, KillIsFinal, StatusIsTruthful
<1>0. tin.sig \in {"TERM", "KILL"}
  BY InputForm
<1>1. CASE TimeoutStart
  BY <1>1, TimeoutStarts
<1>2. CASE Forks
  BY <1>2 DEF Forks
<1>3. ASSUME NEW m \in Group, MemberEnds(m) PROVE TimeoutIInv'
  BY <1>3 DEF MemberEnds
<1>4. CASE TimerFires
  BY <1>4 DEF TimerFires
<1>5. CASE Reap
  BY <1>5 DEF Reap
<1>6. CASE TakeTimer
  BY <1>6 DEF TakeTimer
<1>7. CASE TakeDone
  BY <1>0, <1>7 DEF TakeDone
<1>8. CASE LimitReached
  BY <1>0, <1>8, GroupSignalled DEF LimitReached
<1>9. CASE GraceOver
  BY <1>0, <1>9, GroupSignalled DEF GraceOver
<1>10. CASE UNCHANGED tvars
  BY <1>10 DEF tvars
<1> QED
  BY <1>1, <1>2, <1>3, <1>4, <1>5, <1>6, <1>7, <1>8, <1>9, <1>10
     DEF TimeoutNext, TimeoutStep, TimeoutOwn

(* Whoever wins the race of timer, command and signals, timeout's status   *)
(* says whether the limit was enforced, its command has been reaped, and   *)
(* no process of the group outlives a KILL.                                *)
THEOREM TimeoutTellsTruth == TimeoutSpec => []LimitIsReported
<1>1. TimeoutIInv => LimitIsReported
  BY DEF TimeoutIInv, LimitIsReported, KillIsFinal, KillSparesNobody
<1> QED
  BY <1>1, TimeoutBegins, TimeoutKeeps, PTL DEF TimeoutSpec

-----------------------------------------------------------------------------
(* start-stop-daemon. *)

(* As long as invocations follow one another, what one has read is what    *)
(* the pidfile says, and nobody is running that a start or stop that has   *)
(* done its work will not account for.                                     *)
OneAtATime ==
  \A a, b \in Admins : spc[a] # "idle" /\ spc[b] # "idle" => a = b
ReadIsFresh ==
  \A a \in Admins : spc[a] \in {"test", "act"} => sread[a] = pidfile
StartsOverNobody ==
  \A a \in Admins : spc[a] = "act" /\ sop[a] = "start" => pidfile \notin alive
AccountedFor ==
  \A a \in Admins : spc[a] = "file" =>
    \A d \in alive \ told : sop[a] = "start" /\ sread[a] = d

StartStopIInv ==
  /\ StartStopTypeOK
  /\ orderly => OneAtATime /\ ReadIsFresh /\ StartsOverNobody /\ AccountedFor
  /\ Tracked

LEMMA StartStopBegins == StartStopInit => StartStopIInv
  BY DEF StartStopInit, StartStopIInv, StartStopTypeOK, OneAtATime, ReadIsFresh,
         StartsOverNobody, AccountedFor, Tracked

Places == {"idle", "read", "test", "act", "file"}

LEMMA GoesForm ==
  ASSUME StartStopTypeOK, NEW a \in Admins, NEW l \in Places, Goes(a, l)
  PROVE  spc' \in [Admins -> Places]
  BY DEF StartStopTypeOK, Places, Goes

LEMMA DoneForm ==
  ASSUME StartStopTypeOK, NEW a \in Admins, Done(a)
  PROVE  spc' \in [Admins -> Places] /\ sread' \in [Admins -> Nat]
  BY DEF StartStopTypeOK, Places, Done, Goes

LEMMA StartStopTypes == StartStopTypeOK /\ [StartStopStep]_svars => StartStopTypeOK'
<1> SUFFICES ASSUME StartStopTypeOK, [StartStopStep]_svars PROVE StartStopTypeOK'
  OBVIOUS
<1> USE DEF StartStopTypeOK, Places
<1>1. ASSUME NEW a \in Admins, Invoke(a) PROVE StartStopTypeOK'
  BY <1>1 DEF Invoke, Goes
<1>2. ASSUME NEW a \in Admins, ReadPidfile(a) \/ TestRunning(a) PROVE StartStopTypeOK'
  <2>1. UNCHANGED <<sop, pidfile, alive, told, started, stops, orderly>>
    BY <1>2 DEF ReadPidfile, TestRunning
  <2>2. /\ spc' \in [Admins -> Places]
        /\ sread' \in [Admins -> Nat]
    BY <1>2, GoesForm, DoneForm DEF ReadPidfile, TestRunning
  <2> QED
    BY <2>1, <2>2
<1>3. ASSUME NEW a \in Admins, StartDaemon(a) PROVE StartStopTypeOK'
  <2>1. /\ started' = started + 1 /\ alive' = alive \cup {started + 1}
        /\ sread' = [sread EXCEPT ![a] = started + 1] /\ spc' = [spc EXCEPT ![a] = "file"]
        /\ UNCHANGED <<sop, pidfile, told, stops, orderly>>
    BY <1>3 DEF StartDaemon, Goes
  <2> QED
    BY <2>1
<1>4. ASSUME NEW a \in Admins, CannotStart(a) \/ AdminKilled(a) PROVE StartStopTypeOK'
  <2>1. UNCHANGED <<sop, pidfile, alive, told, started, stops>> /\ orderly' \in BOOLEAN /\ Done(a)
    BY <1>4 DEF CannotStart, AdminKilled
  <2>2. /\ spc' \in [Admins -> Places]
        /\ sread' \in [Admins -> Nat]
    BY <2>1, DoneForm
  <2> QED
    BY <2>1, <2>2
<1>5. ASSUME NEW a \in Admins, SignalDaemon(a) PROVE StartStopTypeOK'
  <2>1. UNCHANGED <<sop, pidfile, alive, started, stops, orderly>> /\ told' \subseteq 1 .. started
    BY <1>5 DEF SignalDaemon
  <2>2. /\ spc' \in [Admins -> Places]
        /\ sread' \in [Admins -> Nat]
    BY <1>5, GoesForm, DoneForm DEF SignalDaemon
  <2> QED
    BY <2>1, <2>2
<1>6. ASSUME NEW a \in Admins, WriteOrRemove(a) PROVE StartStopTypeOK'
  BY <1>6 DEF WriteOrRemove, Goes, Done
<1>7. ASSUME NEW d \in alive, DaemonEnds(d) PROVE StartStopTypeOK'
  BY <1>7 DEF DaemonEnds
<1>8. CASE UNCHANGED svars
  BY <1>8 DEF svars
<1> QED
  BY <1>1, <1>2, <1>3, <1>4, <1>5, <1>6, <1>7, <1>8 DEF StartStopStep

LEMMA StartStopKeeps == StartStopIInv /\ [StartStopStep]_svars => StartStopIInv'
<1> SUFFICES ASSUME StartStopIInv, [StartStopStep]_svars, orderly' PROVE StartStopIInv'
  BY StartStopTypes DEF StartStopIInv, Tracked
<1>0. StartStopTypeOK' /\ orderly
  BY StartStopTypes
     DEF StartStopIInv, StartStopStep, Invoke, ReadPidfile, TestRunning, StartDaemon, CannotStart,
         SignalDaemon, WriteOrRemove, AdminKilled, DaemonEnds, svars
<1> USE <1>0 DEF StartStopIInv, StartStopTypeOK, OneAtATime, ReadIsFresh, StartsOverNobody,
                 AccountedFor, Tracked
<1>1. ASSUME NEW a \in Admins, Invoke(a) PROVE StartStopIInv'
  <2>1. /\ spc' = [spc EXCEPT ![a] = "read"] /\ \A b \in Admins : spc[b] = "idle"
        /\ UNCHANGED <<sread, pidfile, alive, told, started>>
    BY <1>1 DEF Invoke, Goes
  <2>2. OneAtATime' /\ ReadIsFresh' /\ StartsOverNobody' /\ AccountedFor'
    BY <2>1
  <2>3. Tracked'
    BY <2>1
  <2> QED
    BY <2>2, <2>3
<1>2. ASSUME NEW a \in Admins, ReadPidfile(a) PROVE StartStopIInv'
  BY <1>2 DEF ReadPidfile, Goes
<1>3. ASSUME NEW a \in Admins, TestRunning(a) PROVE StartStopIInv'
  BY <1>3 DEF TestRunning, Goes, Done
<1>4. ASSUME NEW a \in Admins, StartDaemon(a) PROVE StartStopIInv'
  <2>1. \A d \in alive : d \in told
    BY <1>4 DEF StartDaemon
  <2> QED
    BY <1>4, <2>1 DEF StartDaemon, Goes
<1>5. ASSUME NEW a \in Admins, CannotStart(a) PROVE StartStopIInv'
  BY <1>5 DEF CannotStart, Goes, Done
<1>6. ASSUME NEW a \in Admins, SignalDaemon(a) PROVE StartStopIInv'
  BY <1>6 DEF SignalDaemon, Goes, Done
<1>7. ASSUME NEW a \in Admins, WriteOrRemove(a) PROVE StartStopIInv'
  BY <1>7 DEF WriteOrRemove, Goes, Done
<1>8. ASSUME NEW a \in Admins, AdminKilled(a) PROVE FALSE
  BY <1>8 DEF AdminKilled
<1>9. ASSUME NEW d \in alive, DaemonEnds(d) PROVE StartStopIInv'
  BY <1>9 DEF DaemonEnds
<1>10. CASE UNCHANGED svars
  BY <1>10 DEF svars
<1> QED
  BY <1>1, <1>2, <1>3, <1>4, <1>5, <1>6, <1>7, <1>8, <1>9, <1>10 DEF StartStopStep

(* Invocations that follow one another, none killed halfway, leave no      *)
(* running daemon unknown to the pidfile unless it was told to stop.       *)
THEOREM DaemonIsTracked == StartStopSpec => []Tracked
<1>1. StartStopIInv => Tracked
  BY DEF StartStopIInv
<1> QED
  BY <1>1, StartStopBegins, StartStopKeeps, PTL DEF StartStopSpec

-----------------------------------------------------------------------------
(* popmaildir. *)

(* A message is removed after a write of it was tried, and what a run that *)
(* did not fail has found is still to be processed, or out.                *)
TriedFirst == pop = "remove" => names # <<>> /\ Message \in ToSet(mailout) \cup unprinted
Out(m) == m \in Reached /\ (popmode = "keep" \/ m \notin inNew)
Progress == popfail \/ \A m \in Printable(batch) : m \in ToSet(names) \/ Out(m)

PopIInv ==
  /\ mailout \in Seq(ToSet(mailout)) /\ names \in Seq(ToSet(names))
  /\ batch \subseteq arrived /\ inNew \subseteq arrived /\ IsFiniteSet(inNew)
  /\ pop = "idle" => names = <<>>
  /\ TriedFirst /\ NoMailLost /\ Progress

LEMMA AppendedSet ==
  ASSUME NEW s, s \in Seq(ToSet(s)), NEW x
  PROVE  /\ ToSet(Append(s, x)) = ToSet(s) \cup {x}
         /\ Append(s, x) \in Seq(ToSet(Append(s, x)))
<1>1. PICK S : S = ToSet(s) \cup {x} /\ s \in Seq(S) /\ x \in S
  <2>1. Seq(ToSet(s)) \subseteq Seq(ToSet(s) \cup {x})
    OBVIOUS
  <2> QED
    BY <2>1
<1>2. Len(s) \in Nat /\ DOMAIN s = 1 .. Len(s)
  BY LenProperties
<1>3. /\ Append(s, x) \in Seq(S) /\ Len(Append(s, x)) = Len(s) + 1
      /\ \A i \in 1 .. Len(s) : Append(s, x)[i] = s[i]
      /\ Append(s, x)[Len(s) + 1] = x
  BY <1>1, AppendProperties
<1>4. DOMAIN Append(s, x) = 1 .. Len(s) + 1
  BY <1>3, LenProperties
<1>5. \A i : i \in 1 .. Len(s) + 1 <=> i \in 1 .. Len(s) \/ i = Len(s) + 1
  BY <1>2
<1>6. ToSet(Append(s, x)) = S
  BY <1>1, <1>2, <1>3, <1>4, <1>5 DEF ToSet
<1> QED
  BY <1>1, <1>3, <1>6

LEMMA WithoutHead ==
  ASSUME NEW s, s \in Seq(ToSet(s)), s # <<>>
  PROVE  /\ Tail(s) \in Seq(ToSet(Tail(s)))
         /\ \A m \in ToSet(s) : m = Head(s) \/ m \in ToSet(Tail(s))
<1>1. /\ Len(s) \in Nat /\ Len(s) # 0 /\ DOMAIN s = 1 .. Len(s) /\ Head(s) = s[1]
      /\ Tail(s) \in Seq(ToSet(s)) /\ Len(Tail(s)) = Len(s) - 1
      /\ \A i \in 1 .. Len(Tail(s)) : Tail(s)[i] = s[i + 1]
  BY HeadTailProperties, EmptySeq, LenProperties
<1>2. DOMAIN Tail(s) = 1 .. Len(s) - 1
  BY <1>1, LenProperties
<1>3. \A i \in DOMAIN s : i = 1 \/ i - 1 \in DOMAIN Tail(s)
  BY <1>1, <1>2
<1>4. \A i \in DOMAIN s : s[i] = Head(s) \/ s[i] \in ToSet(Tail(s))
  BY <1>1, <1>2, <1>3 DEF ToSet
<1>5. Tail(s) \in Seq(ToSet(Tail(s)))
  <2>1. Tail(s) = [i \in 1 .. Len(s) - 1 |-> Tail(s)[i]] /\ Len(s) - 1 \in Nat
    BY <1>1, <1>2, LenProperties
  <2>2. Tail(s) \in [1 .. Len(s) - 1 -> ToSet(Tail(s))]
    BY <1>2, <2>1 DEF ToSet
  <2> QED BY <2>1, <2>2, SeqDef
<1> QED BY <1>4, <1>5 DEF ToSet

(* One message further: what becomes of it is left to show.                *)
LEMMA OneFurther ==
  ASSUME PopIInv, names # <<>>, NEW m, m = Head(names), OneDone, UNCHANGED <<arrived, batch, popmode>>,
         mailout' \in Seq(ToSet(mailout')), inNew' \subseteq inNew, Reached \subseteq Reached', unprinted \subseteq unprinted',
         inNew \ inNew' \subseteq Reached' \cup unprinted',
         popfail' \/ (popfail' = popfail /\ (m \in unprinted' \/ Out(m)'))
  PROVE  PopIInv'
<1> USE DEF PopIInv, OneDone
<1>1. names' \in Seq(ToSet(names')) /\ \A n \in ToSet(names) : n = m \/ n \in ToSet(names')
  BY WithoutHead
<1>2. NoMailLost'
  BY DEF NoMailLost, Printable
<1>3. Progress'
  <2> SUFFICES ASSUME ~popfail', NEW n \in batch, n \notin unprinted'
               PROVE  n \in ToSet(names') \/ Out(n)'
    BY DEF Progress, Printable
  <2>1. n \in ToSet(names) \/ Out(n)
    BY DEF Progress, Printable
  <2>2. Out(n) => Out(n)'
    BY DEF Out
  <2> QED BY <1>1, <2>1, <2>2
<1>4. IsFiniteSet(inNew')
  BY FS_Subset
<1> QED BY <1>1, <1>2, <1>3, <1>4 DEF TriedFirst

LEMMA PopKeeps == PopIInv /\ [PopNext]_popvars => PopIInv'
<1> SUFFICES ASSUME PopIInv, [PopNext]_popvars PROVE PopIInv'
  OBVIOUS
<1> USE DEF PopIInv
<1>1. CASE MailArrives
  <2>1. /\ UNCHANGED <<batch, moved, mailout, unprinted, pops, popmode, names, pop, popfail>>
        /\ inNew \subseteq inNew' /\ arrived' \ arrived = inNew' \ inNew /\ arrived \subseteq arrived'
        /\ \A m \in batch : m \in inNew' => m \in inNew
    BY <1>1 DEF MailArrives
  <2>2. NoMailLost' /\ inNew' \subseteq arrived' /\ IsFiniteSet(inNew')
    <3>1. IsFiniteSet(inNew')
      BY <1>1, FS_AddElement DEF MailArrives
    <3> QED BY <2>1, <3>1 DEF NoMailLost, Printable, Reached
  <2>3. Progress'
    BY <2>1 DEF Progress, Printable, Out, Reached
  <2> QED BY <2>1, <2>2, <2>3 DEF TriedFirst, Message
<1>2. CASE PopStart
  <2>1. /\ UNCHANGED <<arrived, inNew, moved, mailout, unprinted>> /\ pop' = "next" /\ batch' = inNew
        /\ names' \in [1 .. Cardinality(inNew) -> inNew] /\ ToSet(names') = inNew
    BY <1>2 DEF PopStart, ListMessages
  <2>2. names' \in Seq(ToSet(names'))
    <3>1. Cardinality(inNew) \in Nat
      BY FS_CardinalityType
    <3> QED BY <2>1, <3>1, SeqDef
  <2> QED BY <2>1, <2>2 DEF TriedFirst, NoMailLost, Progress, Printable, Reached
<1>0. PICK m : m = Head(names)
  OBVIOUS
<1>3. CASE CannotTake \/ CannotRemove
  <2>1. /\ UNCHANGED <<arrived, batch, inNew, moved, mailout, unprinted, popmode>> /\ OneDone /\ names # <<>> /\ popfail'
    BY <1>3 DEF CannotTake, CannotRemove, Working, TriedFirst
  <2>2. Reached' = Reached
    BY <2>1 DEF Reached
  <2> QED BY <1>0, <2>1, <2>2, OneFurther
<1>4. CASE MoveMessage
  <2>1. /\ UNCHANGED <<arrived, batch, mailout, unprinted, popmode, popfail>> /\ OneDone /\ names # <<>>
        /\ inNew' = inNew \ {m} /\ moved' = moved \cup {m}
    BY <1>0, <1>4 DEF MoveMessage, Working, Message
  <2>2. Reached' = Reached \cup {m} /\ Out(m)'
    BY <2>1 DEF Reached, Out
  <2> QED BY <1>0, <2>1, <2>2, OneFurther
<1>5. CASE PrintMessage
  <2>1. /\ mailout' \in Seq(ToSet(mailout')) /\ Reached \subseteq Reached' /\ unprinted \subseteq unprinted'
        /\ m \in Reached' \cup unprinted' /\ popfail' = popfail /\ names # <<>>
        /\ m \in ToSet(mailout') \cup unprinted'
        /\ UNCHANGED <<arrived, batch, inNew, moved, popmode>>
    <3>1. CASE mailout' = Append(mailout, Message) /\ UNCHANGED unprinted
      BY <1>0, <1>5, <3>1, AppendedSet DEF PrintMessage, Working, Reached, Message
    <3>2. CASE unprinted' = unprinted \cup {Message} /\ UNCHANGED mailout
      BY <1>0, <1>5, <3>2 DEF PrintMessage, Working, Reached, Message
    <3> QED BY <1>5, <3>1, <3>2 DEF PrintMessage
  <2>2. CASE popmode = "keep"
    <3>1. OneDone /\ (m \in unprinted' \/ Out(m)')
      BY <1>5, <2>1, <2>2 DEF PrintMessage, Out
    <3> QED BY <1>0, <2>1, <3>1, OneFurther
  <2>3. CASE popmode # "keep"
    <3>1. pop' = "remove" /\ names' = names
      BY <1>5, <2>3 DEF PrintMessage
    <3>2. NoMailLost' /\ TriedFirst'
      BY <1>0, <2>1, <3>1 DEF NoMailLost, TriedFirst, Printable, Message
    <3>3. Progress'
      BY <2>1, <3>1 DEF Progress, Printable, Out
    <3> QED BY <2>1, <3>1, <3>2, <3>3
  <2> QED BY <2>2, <2>3
<1>6. CASE RemoveMessage
  <2>1. /\ UNCHANGED <<arrived, batch, moved, mailout, unprinted, popmode, popfail>> /\ OneDone /\ names # <<>>
        /\ inNew' = inNew \ {m} /\ m \in Reached \cup unprinted
    BY <1>0, <1>6 DEF RemoveMessage, TriedFirst, Reached, Message
  <2>2. Reached' = Reached /\ (m \in unprinted' \/ Out(m)')
    BY <2>1 DEF Reached, Out
  <2> QED BY <1>0, <2>1, <2>2, OneFurther
<1>8. CASE PopEnds \/ PopKilled
  <2>1. /\ UNCHANGED <<arrived, batch, inNew, moved, mailout, unprinted, pops, popmode>> /\ pop' = "idle"
        /\ names' = <<>>
        /\ popfail' \/ (popfail' = popfail /\ names' = names)
    BY <1>8 DEF PopEnds, PopKilled
  <2>2. Progress' /\ NoMailLost'
    BY <2>1 DEF Progress, NoMailLost, Printable, Out, Reached
  <2>3. names' \in Seq(ToSet(names'))
    BY <2>1, EmptySeq
  <2> QED BY <2>1, <2>2, <2>3 DEF TriedFirst
<1>9. CASE UNCHANGED popvars
  BY <1>9 DEF popvars, TriedFirst, NoMailLost, Progress, Printable, Out, Reached, Message
<1> QED
  BY <1>1, <1>2, <1>3, <1>4, <1>5, <1>6, <1>8, <1>9 DEF PopNext

(* Whatever fails and whenever popmaildir is killed, a message leaves new/ *)
(* only after it was moved or standard output took all of it, and a run    *)
(* with status 0 has done that to each message it found: for all messages  *)
(* but those standard output refused, which the code loses and this        *)
(* excludes (popmaildir.go).                                               *)
THEOREM PopLosesNoMail == PopSpec => []MailKept
<1>1. PopInit => PopIInv
  BY EmptySeq, FS_EmptySet DEF PopInit, PopIInv, TriedFirst, NoMailLost, Progress, Printable
<1>2. PopIInv => MailKept
  <2> SUFFICES ASSUME PopIInv PROVE MailKept
    OBVIOUS
  <2>1. names = <<>> => ToSet(names) = {}
    BY EmptySeq DEF ToSet
  <2> QED BY <2>1 DEF PopIInv, MailKept, SuccessIsComplete, Progress, Out, Printable
<1> QED
  BY <1>1, <1>2, PopKeeps, PTL DEF PopSpec

-----------------------------------------------------------------------------
(* tail. *)

TailTypes ==
  /\ content \in [Inode -> Seq(Nat)] /\ written \in Nat /\ since \in Nat
  /\ files \in 0 .. MaxFiles /\ name \in 0 .. files /\ log \in 0 .. files
  /\ fd \in 0 .. files /\ offset \in Nat /\ size \in Nat
  /\ printed \in Seq(Nat)

(* No record is newer than the last one written.                           *)
Old == \A f \in Inode : \A i \in 1 .. Len(content[f]) : content[f][i] <= written

(* The offset and the size that was found are inside of the file.          *)
Inside ==
  /\ pc \in Polls /\ fd # 0 => offset <= Len(content[fd])
  /\ pc = "emit" => fd # 0 /\ offset < size /\ size <= Len(content[fd])
  /\ pc \in {"seek", "size"} => fd # 0
  /\ pc \in {"pass", "open"} => fd = 0

(* Covered, of an offset that is inside of the file.                       *)
Below ==
  pc \in Polls /\ fd # 0 =>
    \A i \in 1 .. offset : content[fd][i] <= since \/ Printed(content[fd][i])

(* The inductive invariant.                                                *)
TailIInv == TailTypes /\ Old /\ Inside /\ Below

LEMMA TailInit == Init => TailIInv
<1> SUFFICES ASSUME Init PROVE TailIInv
  OBVIOUS
<1>1. name \in {0, 1} /\ 1 \in Inode
  BY BoundAssumption DEF Init, Inode
<1>2. <<>> \in Seq(Nat) /\ Len(<<>>) = 0
  BY EmptySeq
<1>3. TailTypes
  BY <1>1, <1>2, BoundAssumption DEF Init, TailTypes, Inode
<1>4. Old
  BY <1>2 DEF Init, Old
<1>5. Inside /\ Below
  BY DEF Init, Inside, Below, Polls
<1> QED
  BY <1>3, <1>4, <1>5 DEF TailIInv

(* A record that is written is at the end of a file.                       *)
LEMMA WriteKeeps ==
  ASSUME TailIInv, Write
  PROVE  TailIInv'
<1> DEFINE c == content[log]
<1>1. c \in Seq(Nat) /\ log \in Inode
  BY BoundAssumption DEF TailIInv, TailTypes, Write, Inode
<1>2. /\ content'[log] = Append(c, written + 1)
      /\ \A f \in Inode : f # log => content'[f] = content[f]
  BY <1>1 DEF Write, TailIInv, TailTypes
<1>3. /\ Append(c, written + 1) \in Seq(Nat)
      /\ Len(Append(c, written + 1)) = Len(c) + 1
      /\ \A i \in 1 .. Len(c) : Append(c, written + 1)[i] = c[i]
      /\ Append(c, written + 1)[Len(c) + 1] = written + 1
  BY <1>1, AppendProperties, written + 1 \in Nat DEF TailIInv, TailTypes
<1>4. ASSUME NEW f \in Inode
      PROVE  /\ Len(content'[f]) \in Nat /\ Len(content[f]) <= Len(content'[f])
             /\ \A i \in 1 .. Len(content[f]) : content'[f][i] = content[f][i]
  <2>1. Len(content[f]) \in Nat
    BY LenProperties DEF TailIInv, TailTypes
  <2>2. CASE f = log
    BY <2>1, <2>2, <1>2, <1>3
  <2>3. CASE f # log
    BY <2>1, <2>3, <1>2
  <2> QED
    BY <2>2, <2>3
<1>5. TailTypes'
  BY <1>1, <1>3 DEF TailIInv, TailTypes, Write, Tails
<1>6. Old'
  <2> SUFFICES ASSUME NEW f \in Inode, NEW i \in 1 .. Len(content'[f])
               PROVE  content'[f][i] <= written'
    BY DEF Old
  <2>1. written' = written + 1 /\ written \in Nat
    BY DEF Write, TailIInv, TailTypes
  <2>2. CASE f # log
    <3>1. content'[f] = content[f] /\ i \in 1 .. Len(content[f]) /\ content[f] \in Seq(Nat)
      BY <1>2, <2>2 DEF TailIInv, TailTypes
    <3>2. content[f][i] <= written /\ content[f][i] \in Nat
      BY <3>1, ElementOfSeq DEF TailIInv, Old
    <3> QED
      BY <2>1, <3>1, <3>2
  <2>3. CASE f = log /\ i \in 1 .. Len(c)
    <3>1. content'[f][i] = c[i] /\ c[i] <= written /\ c[i] \in Nat
      BY <1>1, <1>2, <1>3, <2>3, ElementOfSeq DEF TailIInv, Old
    <3> QED
      BY <2>1, <3>1
  <2>4. CASE f = log /\ i = Len(c) + 1
    BY <1>2, <1>3, <2>1, <2>4
  <2>5. Len(c) \in Nat
    BY <1>1, LenProperties
  <2>6. f = log => i \in 1 .. Len(c) \/ i = Len(c) + 1
    BY <1>2, <1>3, <2>5
  <2> QED
    BY <2>2, <2>3, <2>4, <2>6
<1>7. fd # 0 => fd \in Inode
  BY BoundAssumption DEF TailIInv, TailTypes, Inode
<1>8. Inside' /\ Below'
  <2>1. UNCHANGED <<pc, fd, offset, size, since, printed>>
    BY DEF Write, Tails
  <2>2. ASSUME fd # 0 PROVE Len(content[fd]) \in Nat
    BY <1>7, <2>2, LenProperties DEF TailIInv, TailTypes
  <2>3. Inside'
    BY <1>4, <1>7, <2>1, <2>2 DEF TailIInv, TailTypes, Inside
  <2>4. ASSUME pc \in Polls, fd # 0, NEW i \in 1 .. offset
        PROVE  content'[fd][i] = content[fd][i]
    <3>1. offset <= Len(content[fd]) /\ offset \in Nat
      BY <2>4 DEF TailIInv, TailTypes, Inside
    <3>2. i \in 1 .. Len(content[fd])
      BY <2>2, <2>4, <3>1
    <3> QED
      BY <1>4, <1>7, <2>4, <3>2
  <2>5. Below'
    BY <2>1, <2>4 DEF TailIInv, Below, Printed, In
  <2> QED
    BY <2>3, <2>5
<1> QED
  BY <1>5, <1>6, <1>8 DEF TailIInv

LEMMA EnvironmentKeeps ==
  ASSUME Growing, TailIInv, MoveAway \/ Create \/ Truncate \/ Exit
  PROVE  TailIInv'
<1>1. UNCHANGED <<content, written, pc, fd, offset, size, since, printed>>
  BY DEF Growing, MoveAway, Create, Truncate, Exit, Tails, disk
<1>2. TailTypes'
  <2>1. CASE MoveAway
    BY <1>1, <2>1 DEF TailIInv, TailTypes, MoveAway
  <2>2. CASE Create
    BY <1>1, <2>2, BoundAssumption DEF TailIInv, TailTypes, Create
  <2>3. CASE Truncate
    BY <2>3 DEF Growing, Truncate
  <2>4. CASE Exit
    BY <1>1, <2>4 DEF TailIInv, TailTypes, Exit, disk
  <2> QED
    BY <2>1, <2>2, <2>3, <2>4
<1>3. Old' /\ Inside' /\ Below'
  BY <1>1 DEF TailIInv, Old, Inside, Below, Printed, In
<1> QED
  BY <1>2, <1>3 DEF TailIInv

(* What is copied is printed, and what was printed stays.                  *)
LEMMA EmitKeeps ==
  ASSUME TailIInv, Emit
  PROVE  TailIInv'
<1>0. PICK c : c = content[fd]
  OBVIOUS
<1> DEFINE more == SubSeq(c, offset + 1, size)
<1>1. /\ fd \in Inode /\ c \in Seq(Nat) /\ Len(c) \in Nat
      /\ offset \in Nat /\ size \in Nat /\ offset < size /\ size <= Len(c)
      /\ pc = "emit" /\ pc \in Polls
  <2>1. fd \in Inode /\ pc = "emit" /\ offset \in Nat /\ size \in Nat /\ offset < size
    BY BoundAssumption DEF TailIInv, Inside, TailTypes, Inode, Emit
  <2>2. c \in Seq(Nat) /\ Len(c) \in Nat /\ size <= Len(c)
    BY <1>0, <2>1, LenProperties DEF TailIInv, Inside, TailTypes
  <2> QED
    BY <2>1, <2>2 DEF Polls
<1>2. (IF size < Len(c) THEN size ELSE Len(c)) = size
  BY <1>1
<1>3. /\ more \in Seq(Nat) /\ Len(more) = size - offset
      /\ \A i \in 1 .. size - offset : more[i] = c[offset + i]
  <2>1. offset + 1 \in 1 .. Len(c) + 1 /\ size \in offset + 1 - 1 .. Len(c)
    BY <1>1
  <2>2. more \in Seq(Nat)
    BY <1>1, <2>1, SubSeqProperties
  <2>3. Len(more) = size - offset
    BY <1>1, <2>1, SubSeqProperties
  <2>4. ASSUME NEW i \in 1 .. size - offset PROVE more[i] = c[offset + i]
    BY <1>1, <2>1, <2>3, SubSeqProperties
  <2> QED
    BY <2>2, <2>3, <2>4
<1>4. printed' = printed \o more /\ offset' = offset + Len(more)
  BY <1>0, <1>2 DEF Emit, Copied
<1>5. offset' = size /\ printed \in Seq(Nat)
  BY <1>1, <1>3, <1>4 DEF TailIInv, TailTypes
<1>6. /\ printed' \in Seq(Nat) /\ Len(printed') = Len(printed) + (size - offset)
      /\ \A i \in 1 .. Len(printed) : printed'[i] = printed[i]
      /\ \A i \in 1 .. size - offset : printed'[Len(printed) + i] = more[i]
      /\ DOMAIN printed = 1 .. Len(printed) /\ DOMAIN printed' = 1 .. Len(printed')
      /\ Len(printed) \in Nat
  <2>1. printed \o more \in Seq(Nat) /\ Len(printed \o more) = Len(printed) + Len(more)
    BY <1>3, <1>5, ConcatProperties
  <2>2. Len(printed) \in Nat /\ DOMAIN printed = 1 .. Len(printed)
    BY <1>5, LenProperties
  <2>3. DOMAIN printed' = 1 .. Len(printed')
    BY <1>4, <2>1, LenProperties
  <2>4. \A i \in 1 .. Len(printed) + Len(more) :
          (printed \o more)[i] = IF i <= Len(printed) THEN printed[i] ELSE more[i - Len(printed)]
    BY <1>3, <1>5, ConcatProperties
  <2>5. ASSUME NEW i \in 1 .. Len(printed) PROVE printed'[i] = printed[i]
    BY <1>1, <1>3, <1>4, <2>2, <2>4
  <2>6. ASSUME NEW i \in 1 .. size - offset PROVE printed'[Len(printed) + i] = more[i]
    <3>1. /\ Len(printed) + i \in 1 .. Len(printed) + Len(more) /\ ~(Len(printed) + i <= Len(printed))
          /\ (Len(printed) + i) - Len(printed) = i
      BY <1>1, <1>3, <2>2
    <3> QED
      BY <1>4, <2>4, <3>1
  <2> QED
    BY <1>3, <1>4, <2>1, <2>2, <2>3, <2>5, <2>6
<1>7. \A n : Printed(n) => Printed(n)'
  <2>1. \A i \in DOMAIN printed : i \in DOMAIN printed' /\ printed'[i] = printed[i]
    BY <1>1, <1>6
  <2> QED
    BY <2>1 DEF Printed, In
<1>8. \A i \in offset + 1 .. size : Printed(c[i])'
  <2> SUFFICES ASSUME NEW i \in offset + 1 .. size
               PROVE  \E j \in DOMAIN printed' : printed'[j] = c[i]
    BY DEF Printed, In
  <2>1. PICK k \in 1 .. size - offset : offset + k = i
    <3>1. i - offset \in 1 .. size - offset /\ offset + (i - offset) = i
      BY <1>1
    <3> QED
      BY <3>1
  <2>2. printed'[Len(printed) + k] = c[i]
    BY <1>3, <1>6, <2>1
  <2>3. Len(printed) + k \in DOMAIN printed'
    BY <1>1, <1>6
  <2> QED
    BY <2>2, <2>3
<1>9. UNCHANGED <<content, written, since, files, name, log, fd, size>> /\ pc' = "check"
  BY DEF Emit, GoTo, env, disk
<1>10. TailTypes' /\ Old'
  BY <1>1, <1>5, <1>6, <1>9 DEF TailIInv, TailTypes, Old
<1>11. Inside'
  BY <1>0, <1>1, <1>5, <1>9 DEF Inside
<1>12. Below'
  <2> SUFFICES ASSUME NEW i \in 1 .. size PROVE c[i] <= since \/ Printed(c[i])'
    BY <1>0, <1>5, <1>9 DEF Below, Printed, In
  <2>1. CASE i \in 1 .. offset
    <3>1. fd # 0
      BY <1>1 DEF Inode
    <3>2. c[i] <= since \/ Printed(c[i])
      BY <1>0, <1>1, <2>1, <3>1 DEF TailIInv, Below
    <3> QED
      BY <1>7, <3>2
  <2>2. CASE i \in offset + 1 .. size
    BY <1>8, <2>2
  <2>3. i \in 1 .. offset \/ i \in offset + 1 .. size
    BY <1>1
  <2> QED
    BY <2>1, <2>2, <2>3
<1> QED
  BY <1>10, <1>11, <1>12 DEF TailIInv

(* The steps that neither print nor look into a file.                      *)
LEMMA OtherKeeps ==
  ASSUME TailIInv, Open \/ Tick \/ StatPath \/ ReopenPath \/ CheckPid \/ Cancel
  PROVE  TailIInv'
<1>1. UNCHANGED <<content, written, files, name, log, size, printed>>
  BY DEF Open, Tick, StatPath, ReopenPath, CheckPid, Cancel, env, disk
<1>2. Old'
  BY <1>1 DEF TailIInv, Old
<1>3. \A f \in Inode : Len(content[f]) \in Nat
  BY LenProperties DEF TailIInv, TailTypes
<1>4. fd # 0 => fd \in Inode
  BY BoundAssumption DEF TailIInv, TailTypes, Inode
<1>5. CASE Open
  <2>1. TailTypes'
    BY <1>1, <1>5 DEF TailIInv, TailTypes, Open
  <2>2. (pc' = "seek" /\ fd' # 0) \/ pc' = "done" \/ (pc' = "wait" /\ fd' = 0)
    <3>1. fd = 0
      BY <1>5 DEF Open, TailIInv, Inside
    <3>2. CASE name # 0
      BY <1>5, <3>2 DEF Open, GoTo
    <3>3. CASE name = 0
      BY <1>5, <3>1, <3>3, OptionAssumption DEF Open, GoTo
    <3> QED
      BY <3>2, <3>3
  <2> QED
    BY <1>2, <2>1, <2>2 DEF TailIInv, Inside, Below, Polls
<1>6. CASE Tick
  <2>1. TailTypes'
    BY <1>1, <1>6 DEF TailIInv, TailTypes, Tick, env
  <2>2. /\ UNCHANGED <<content, fd, offset, since, printed>> /\ pc = "wait"
        /\ pc' \in {"stat", "check", "size"} /\ (pc' = "size" => fd # 0)
    BY <1>1, <1>6 DEF Tick, GoTo
  <2> QED
    BY <1>2, <2>1, <2>2 DEF TailIInv, Inside, Below, Polls, Printed, In
<1>7. CASE StatPath
  <2>1. TailTypes'
    BY <1>1, <1>7 DEF TailIInv, TailTypes, StatPath, env
  <2>2. /\ UNCHANGED <<content, offset, since, printed>> /\ pc = "stat"
        /\ pc' \in {"check", "size", "reopen"} /\ fd' \in {0, fd}
        /\ (pc' = "size" => fd' # 0)
    BY <1>1, <1>7 DEF StatPath, GoTo
  <2> QED
    BY <1>2, <2>1, <2>2 DEF TailIInv, Inside, Below, Polls, Printed, In
<1>8. CASE ReopenPath
  <2>1. CASE name # 0
    <3>1. TailTypes'
      BY <1>1, <1>8, <2>1 DEF TailIInv, TailTypes, ReopenPath, env
    <3>2. /\ UNCHANGED <<content, since, printed>> /\ pc' = "size"
          /\ fd' \in Inode /\ fd' # 0 /\ offset' = 0
      BY <1>1, <1>8, <2>1, BoundAssumption DEF TailIInv, TailTypes, ReopenPath, GoTo, Inode
    <3>3. 0 <= Len(content[fd'])
      BY <1>3, <3>2
    <3>4. Inside'
      BY <3>2, <3>3 DEF Inside
    <3>5. Below'
      BY <3>2 DEF Below
    <3> QED
      BY <1>2, <3>1, <3>4, <3>5 DEF TailIInv
  <2>2. CASE name = 0
    <3>1. TailTypes'
      BY <1>1, <1>8, <2>2 DEF TailIInv, TailTypes, ReopenPath, env
    <3>2. /\ UNCHANGED <<content, fd, offset, since, printed>> /\ pc = "reopen"
          /\ pc' \in {"check", "size"} /\ (pc' = "size" => fd # 0)
      BY <1>1, <1>8, <2>2 DEF ReopenPath, GoTo
    <3> QED
      BY <1>2, <3>1, <3>2 DEF TailIInv, Inside, Below, Polls, Printed, In
  <2> QED
    BY <2>1, <2>2
<1>9. CASE CheckPid \/ Cancel
  <2>1. TailTypes'
    BY <1>1, <1>9 DEF TailIInv, TailTypes, CheckPid, Cancel, env
  <2>2. /\ UNCHANGED <<content, fd, offset, since, printed>> /\ pc \in Polls
        /\ pc' \in {"done", "wait"}
    BY <1>1, <1>9 DEF CheckPid, Cancel, GoTo, Polls
  <2> QED
    BY <1>2, <2>1, <2>2 DEF TailIInv, Inside, Below, Polls, Printed, In
<1> QED
  BY <1>5, <1>6, <1>7, <1>8, <1>9

(* All that a file holds when tail comes to its end is old.                *)
LEMMA SeekKeeps ==
  ASSUME TailIInv, SeekEnd
  PROVE  TailIInv'
<1>1. /\ UNCHANGED <<content, written, files, name, log, fd, size, printed>>
      /\ pc' = "wait" /\ since' = written /\ offset' = Len(content[fd])
  BY DEF SeekEnd, GoTo, env, disk
<1>2. fd \in Inode /\ Len(content[fd]) \in Nat
  <2>1. fd \in Inode
    BY BoundAssumption DEF TailIInv, Inside, TailTypes, SeekEnd, Inode
  <2> QED
    BY <2>1, LenProperties DEF TailIInv, TailTypes
<1>3. TailTypes' /\ Old' /\ Inside'
  BY <1>1, <1>2 DEF TailIInv, TailTypes, Old, Inside
<1>4. Below'
  BY <1>1, <1>2 DEF TailIInv, Old, Below
<1> QED
  BY <1>3, <1>4 DEF TailIInv

LEMMA StatSizeKeeps ==
  ASSUME TailIInv, StatSize
  PROVE  TailIInv'
<1>1. /\ UNCHANGED <<content, written, files, name, log, fd, since, printed>>
      /\ size' = Len(content[fd]) /\ pc = "size" /\ fd # 0
      /\ offset' = (IF size' < offset THEN 0 ELSE offset)
      /\ pc' = (IF size' > offset' THEN "emit" ELSE "check")
  BY DEF StatSize, GoTo, env, disk, TailIInv, Inside
<1>2. fd \in Inode /\ Len(content[fd]) \in Nat /\ offset \in Nat /\ offset <= Len(content[fd])
  <2>1. fd \in Inode /\ offset \in Nat /\ offset <= Len(content[fd])
    BY <1>1, BoundAssumption DEF TailIInv, Inside, TailTypes, Inode, Polls
  <2> QED
    BY <2>1, LenProperties DEF TailIInv, TailTypes
<1>3. offset' = offset
  BY <1>1, <1>2
<1>4. TailTypes' /\ Old'
  BY <1>1, <1>2, <1>3 DEF TailIInv, TailTypes, Old
<1>5. Inside'
  BY <1>1, <1>2, <1>3 DEF Inside
<1>6. Below'
  BY <1>1, <1>3 DEF TailIInv, Below, Polls, Printed, In
<1> QED
  BY <1>4, <1>5, <1>6 DEF TailIInv

LEMMA FirstPassKeeps ==
  ASSUME TailIInv, FirstPass
  PROVE  TailIInv'
<1>1. UNCHANGED <<content, written, files, name, log, fd, offset, size, since>>
      /\ pc = "pass" /\ pc' = "open"
  BY DEF FirstPass, GoTo, env, disk
<1>2. printed' \in Seq(Nat)
  <2>1. CASE name = 0
    BY <2>1 DEF FirstPass, TailIInv, TailTypes
  <2>2. CASE name # 0
    <3> DEFINE c == content[name]
               a == IF Len(c) > Lines THEN Len(c) - Lines + 1 ELSE 1
    <3>1. c \in Seq(Nat) /\ Len(c) \in Nat
      <4>1. name \in Inode
        BY <2>2, BoundAssumption DEF TailIInv, TailTypes, Inode
      <4> QED
        BY <4>1, LenProperties DEF TailIInv, TailTypes
    <3>2. a \in 1 .. Len(c) + 1 /\ Len(c) \in a - 1 .. Len(c)
      BY <3>1, OptionAssumption
    <3>3. printed' = SubSeq(c, a, Len(c))
      BY <2>2 DEF FirstPass
    <3> HIDE DEF a, c
    <3> QED
      BY <3>1, <3>2, <3>3, SubSeqProperties
  <2> QED
    BY <2>1, <2>2
<1>3. TailTypes' /\ Old' /\ Inside' /\ Below'
  BY <1>1, <1>2 DEF TailIInv, TailTypes, Old, Inside, Below, Polls
<1> QED
  BY <1>3 DEF TailIInv

(* The mode of a behaviour stays the same.                                 *)
LEMMA ModeStays == [Next]_vars => mode' = mode
  BY DEF Next, Environment, Write, MoveAway, Create, Truncate, Exit, Tails, Follow,
     FirstPass, Open, SeekEnd, Tick, StatPath, ReopenPath, StatSize, Emit, CheckPid,
     Cancel, vars, env

(* As long as files only grow, each record below the offset that was       *)
(* written since tail began to follow is printed, through every rotation.  *)
THEOREM TailSkipsNothing == Spec => []NothingSkipped
<1>1. Growing /\ TailIInv /\ [Next]_vars => TailIInv'
  <2> SUFFICES ASSUME Growing, TailIInv, [Next]_vars PROVE TailIInv'
    OBVIOUS
  <2>1. CASE Environment
    BY <2>1, WriteKeeps, EnvironmentKeeps DEF Environment
  <2>2. CASE Follow \/ Cancel
    BY <2>2, FirstPassKeeps, OtherKeeps, SeekKeeps, StatSizeKeeps, EmitKeeps DEF Follow
  <2>3. CASE UNCHANGED vars
    BY <2>3 DEF TailIInv, TailTypes, Old, Inside, Below, Printed, In, vars, env, disk
  <2> QED
    BY <2>1, <2>2, <2>3 DEF Next
<1>2. (Growing => TailIInv) /\ [Next]_vars => (Growing => TailIInv)'
  BY <1>1, ModeStays DEF Growing
<1>3. (Growing => TailIInv) => NothingSkipped
  <2> SUFFICES ASSUME TailIInv, pc \in Polls, fd # 0 PROVE Covered
    BY DEF NothingSkipped, Covered
  <2>1. fd \in Inode
    BY BoundAssumption DEF TailIInv, TailTypes, Inode
  <2>2. DOMAIN content[fd] = 1 .. Len(content[fd]) /\ Len(content[fd]) \in Nat
    BY <2>1, LenProperties DEF TailIInv, TailTypes
  <2>3. ASSUME NEW i \in DOMAIN content[fd], i <= offset PROVE i \in 1 .. offset
    BY <2>2, <2>3 DEF TailIInv, TailTypes
  <2> QED
    BY <2>3 DEF TailIInv, Below, Covered
<1> QED
  BY <1>2, <1>3, TailInit, PTL DEF Spec

-----------------------------------------------------------------------------
(* The order of what is printed, whatever becomes of the file.             *)

Rising(s) == \A i, j \in DOMAIN s : i < j => s[i] < s[j]

(* Records are numbered as they are written.                              *)
Sorted ==
  /\ \A f \in Inode : Rising(content[f]) /\ \A i \in DOMAIN content[f] : content[f][i] <= written
  /\ \A j \in DOMAIN printed : printed[j] <= written

Follows ==
  /\ pc \in {"seek", "size", "emit"} => fd # 0
  /\ pc \in {"pass", "open"} => fd = 0
  /\ pc \notin {"stat", "reopen"}

(* Above the offset all is newer than what is printed; and so is all of a  *)
(* file that has become shorter than the offset.                           *)
Ahead ==
  pc \in Polls /\ fd # 0 =>
    \A i \in DOMAIN content[fd], j \in DOMAIN printed :
      offset < i \/ Len(content[fd]) < offset => printed[j] < content[fd][i]

OrderIInv == TailTypes /\ Sorted /\ Follows /\ Ahead /\ Rising(printed)

LEMMA SeqForm ==
  ASSUME NEW s \in Seq(Nat)
  PROVE  /\ Len(s) \in Nat /\ DOMAIN s = 1 .. Len(s)
         /\ \A i \in DOMAIN s : s[i] \in Nat
  BY LenProperties, ElementOfSeq

LEMMA RisingConcat ==
  ASSUME NEW s \in Seq(Nat), NEW t \in Seq(Nat), Rising(s), Rising(t),
         \A i \in DOMAIN s, j \in DOMAIN t : s[i] < t[j]
  PROVE  /\ s \o t \in Seq(Nat) /\ Rising(s \o t)
         /\ \A k \in DOMAIN (s \o t) : \/ \E i \in DOMAIN s : (s \o t)[k] = s[i]
                                       \/ \E j \in DOMAIN t : (s \o t)[k] = t[j]
<1> DEFINE u == s \o t
<1>1. /\ Len(s) \in Nat /\ DOMAIN s = 1 .. Len(s) /\ Len(t) \in Nat /\ DOMAIN t = 1 .. Len(t)
  BY SeqForm
<1>2. /\ u \in Seq(Nat) /\ Len(u) = Len(s) + Len(t)
      /\ \A i \in 1 .. Len(s) + Len(t) : u[i] = IF i <= Len(s) THEN s[i] ELSE t[i - Len(s)]
  BY ConcatProperties
<1>3. DOMAIN u = 1 .. Len(s) + Len(t)
  BY <1>2, SeqForm
<1> HIDE DEF u
<1>4. ASSUME NEW k \in DOMAIN u
      PROVE  \/ k \in DOMAIN s /\ u[k] = s[k]
             \/ k - Len(s) \in DOMAIN t /\ u[k] = t[k - Len(s)] /\ Len(s) < k
  BY <1>1, <1>2, <1>3
<1>5. ASSUME NEW i \in DOMAIN u, NEW j \in DOMAIN u, i < j PROVE u[i] < u[j]
  <2>1. CASE i \in DOMAIN s /\ u[i] = s[i]
    <3>1. CASE j \in DOMAIN s /\ u[j] = s[j]
      BY <1>5, <2>1, <3>1 DEF Rising
    <3>2. CASE j - Len(s) \in DOMAIN t /\ u[j] = t[j - Len(s)]
      BY <2>1, <3>2
    <3> QED
      BY <1>4, <3>1, <3>2
  <2>2. CASE i - Len(s) \in DOMAIN t /\ u[i] = t[i - Len(s)] /\ Len(s) < i
    <3>0. i \in Int /\ j \in Int /\ Len(s) < j /\ i - Len(s) < j - Len(s)
      BY <1>1, <1>3, <1>5, <2>2
    <3>1. j - Len(s) \in DOMAIN t /\ u[j] = t[j - Len(s)]
      <4>1. j \notin DOMAIN s
        BY <1>1, <3>0
      <4> QED BY <1>4, <4>1
    <3> QED
      BY <2>2, <3>0, <3>1 DEF Rising
  <2> QED
    BY <1>4, <2>1, <2>2
<1>6. Rising(u)
  BY <1>5 DEF Rising
<1> QED
  BY <1>2, <1>4, <1>6 DEF u

LEMMA RisingSub ==
  ASSUME NEW s \in Seq(Nat), Rising(s), NEW m \in Nat, NEW n \in Nat, 1 <= m, n <= Len(s)
  PROVE  LET t == SubSeq(s, m, n) IN
         /\ t \in Seq(Nat) /\ Rising(t) /\ Len(t) = IF m <= n THEN n - m + 1 ELSE 0
         /\ \A i \in DOMAIN t : m + i - 1 \in DOMAIN s /\ t[i] = s[m + i - 1]
<1> DEFINE t == SubSeq(s, m, n)
<1>1. /\ Len(s) \in Nat /\ DOMAIN s = 1 .. Len(s) /\ \A i \in m .. n : s[i] \in Nat
  BY SeqForm
<1>2. /\ t \in Seq(Nat) /\ Len(t) = (IF m <= n THEN n - m + 1 ELSE 0)
      /\ \A i \in 1 .. n - m + 1 : t[i] = s[m + i - 1]
  BY <1>1, SubSeqProperties
<1>3. DOMAIN t = 1 .. Len(t)
  BY <1>2, SeqForm
<1> HIDE DEF t
<1>4. ASSUME NEW i \in DOMAIN t PROVE i \in Nat /\ m + i - 1 \in DOMAIN s /\ t[i] = s[m + i - 1]
  <2>1. i \in Nat /\ m <= n /\ i \in 1 .. n - m + 1
    BY <1>2, <1>3
  <2>2. m + i - 1 \in 1 .. Len(s)
    BY <1>1, <2>1
  <2> QED
    BY <1>1, <1>2, <2>1, <2>2
<1>5. ASSUME NEW i \in DOMAIN t, NEW j \in DOMAIN t, i < j PROVE t[i] < t[j]
  <2>1. m + i - 1 < m + j - 1
    BY <1>4, <1>5
  <2> QED
    BY <1>4, <2>1 DEF Rising
<1> QED
  BY <1>2, <1>4, <1>5 DEF Rising, t

LEMMA OrderBegins == Init => OrderIInv
<1> SUFFICES ASSUME Init PROVE OrderIInv
  OBVIOUS
<1>1. TailTypes
  BY TailInit DEF TailIInv
<1>2. printed = <<>> /\ \A f \in Inode : content[f] = <<>>
  BY DEF Init
<1>3. DOMAIN <<>> = {}
  OBVIOUS
<1> QED
  BY <1>1, <1>2, <1>3 DEF Init, OrderIInv, Sorted, Follows, Ahead, Rising, Polls

(* Neither a written record nor a new or an emptied file comes before      *)
(* anything that is printed.                                               *)
LEMMA OrderWrite ==
  ASSUME OrderIInv, Write
  PROVE  OrderIInv'
<1> DEFINE c == content[log]
<1>0. /\ log \in Inode /\ c \in Seq(Nat) /\ written \in Nat /\ written' = written + 1
      /\ content' = [content EXCEPT ![log] = Append(c, written + 1)]
      /\ UNCHANGED <<mode, name, files, log, pc, fd, offset, size, since, printed>>
  BY BoundAssumption DEF OrderIInv, TailTypes, Write, Tails, Inode
<1>1. \A f \in Inode : content[f] \in Seq(Nat)
  BY DEF OrderIInv, TailTypes
<1>2. /\ Len(c) \in Nat /\ DOMAIN c = 1 .. Len(c) /\ \A i \in DOMAIN c : c[i] \in Nat
  BY <1>0, SeqForm
<1>3. PICK d : d = Append(c, written + 1)
  OBVIOUS
<1>4. /\ d \in Seq(Nat) /\ Len(d) = Len(c) + 1 /\ DOMAIN d = 1 .. Len(c) + 1
      /\ \A i \in 1 .. Len(c) : d[i] = c[i]
      /\ d[Len(c) + 1] = written + 1
  BY <1>0, <1>3, AppendProperties, SeqForm, written + 1 \in Nat
<1>5. /\ content'[log] = d /\ \A f \in Inode : f # log => content'[f] = content[f]
      /\ content' \in [Inode -> Seq(Nat)]
  BY <1>0, <1>3, <1>4 DEF OrderIInv, TailTypes
<1>6. ASSUME NEW i \in DOMAIN d
      PROVE  (i \in DOMAIN c /\ d[i] = c[i]) \/ (i = Len(c) + 1 /\ d[i] = written + 1)
  <2>1. i \in 1 .. Len(c) \/ i = Len(c) + 1
    BY <1>2, <1>4
  <2> QED
    BY <1>2, <1>4, <2>1
<1>7. \A i \in DOMAIN c : c[i] <= written
  BY <1>0 DEF OrderIInv, Sorted
<1>8. TailTypes'
  BY <1>0, <1>5 DEF OrderIInv, TailTypes
<1>9. Rising(d) /\ \A i \in DOMAIN d : d[i] <= written + 1
  <2>1. ASSUME NEW i \in DOMAIN d PROVE d[i] <= written + 1
    BY <1>0, <1>2, <1>6, <1>7
  <2>2. ASSUME NEW i \in DOMAIN d, NEW j \in DOMAIN d, i < j PROVE d[i] < d[j]
    <3>1. i \in DOMAIN c /\ d[i] = c[i] /\ d[i] <= written /\ d[i] \in Nat
      BY <1>2, <1>4, <1>7, <2>2
    <3>2. CASE j \in DOMAIN c
      BY <1>0, <1>2, <1>4, <2>2, <3>1, <3>2 DEF OrderIInv, Sorted, Rising
    <3>3. CASE j = Len(c) + 1
      BY <1>0, <1>4, <3>1, <3>3
    <3> QED
      BY <1>6, <2>2, <3>2, <3>3
  <2> QED
    BY <2>1, <2>2 DEF Rising
<1>10. \A j \in DOMAIN printed : printed[j] \in Nat /\ printed[j] <= written
  BY SeqForm DEF OrderIInv, TailTypes, Sorted
<1>11. Sorted'
  <2>1. ASSUME NEW f \in Inode, f # log, NEW i \in DOMAIN content[f]
        PROVE  content[f][i] <= written + 1
    <3>1. content[f][i] \in Nat /\ content[f][i] <= written
      BY <1>1, <2>1, SeqForm DEF OrderIInv, Sorted
    <3> QED
      BY <1>0, <3>1
  <2>2. \A j \in DOMAIN printed : printed[j] <= written + 1
    BY <1>0, <1>10
  <2>3. \A f \in Inode : Rising(content[f])
    BY DEF OrderIInv, Sorted
  <2> QED
    BY <1>0, <1>5, <1>9, <2>1, <2>2, <2>3 DEF Sorted
<1>12. Ahead'
  <2> SUFFICES ASSUME pc \in Polls, fd # 0, NEW i \in DOMAIN content'[fd], NEW j \in DOMAIN printed,
                      offset < i \/ Len(content'[fd]) < offset
               PROVE  printed[j] < content'[fd][i]
    BY <1>0 DEF Ahead
  <2>1. fd \in Inode /\ offset \in Nat
    BY BoundAssumption DEF OrderIInv, TailTypes, Inode
  <2>2. CASE fd # log
    BY <1>5, <2>1, <2>2 DEF OrderIInv, Ahead
  <2>3. CASE fd = log /\ i \in DOMAIN c /\ d[i] = c[i]
    <3>1. offset < i \/ Len(c) < offset
      BY <1>2, <1>4, <1>5, <2>1, <2>3
    <3> QED
      BY <1>5, <2>3, <3>1 DEF OrderIInv, Ahead
  <2>4. CASE fd = log /\ d[i] = written + 1
    BY <1>0, <1>5, <1>10, <2>4
  <2> QED
    BY <1>5, <1>6, <2>2, <2>3, <2>4
<1>13. Follows' /\ Rising(printed)'
  BY <1>0 DEF OrderIInv, Follows, Rising
<1> QED
  BY <1>8, <1>11, <1>12, <1>13 DEF OrderIInv

LEMMA OrderFile ==
  ASSUME OrderIInv, MoveAway \/ Create \/ Truncate \/ Exit
  PROVE  OrderIInv'
<1>1. UNCHANGED <<mode, written, pc, fd, offset, size, since, printed>>
  BY DEF MoveAway, Create, Truncate, Exit, Tails
<1>2. CASE MoveAway \/ Create \/ Exit
  <2>1. content' = content
    BY <1>2 DEF MoveAway, Create, Exit, disk
  <2>2. TailTypes'
    <3>1. CASE MoveAway
      BY <1>1, <3>1 DEF OrderIInv, TailTypes, MoveAway
    <3>2. CASE Create
      BY <1>1, <3>2, BoundAssumption DEF OrderIInv, TailTypes, Create
    <3>3. CASE Exit
      BY <1>1, <3>3 DEF OrderIInv, TailTypes, Exit, disk
    <3> QED
      BY <1>2, <3>1, <3>2, <3>3
  <2> QED
    BY <1>1, <2>1, <2>2 DEF OrderIInv, Sorted, Follows, Ahead, Rising
<1>3. CASE Truncate
  <2>1. /\ content' = [content EXCEPT ![log] = <<>>] /\ UNCHANGED <<name, files, log>>
        /\ DOMAIN <<>> = {} /\ <<>> \in Seq(Nat)
    BY <1>3, EmptySeq DEF Truncate
  <2>2. content \in [Inode -> Seq(Nat)]
    BY DEF OrderIInv, TailTypes
  <2>3. \A f \in Inode : content'[f] = content[f] \/ content'[f] = <<>>
    BY <2>1, <2>2
  <2>4. TailTypes'
    BY <1>1, <2>1, <2>2 DEF OrderIInv, TailTypes
  <2>5. Rising(<<>>)
    BY <2>1 DEF Rising
  <2>6. Sorted'
    BY <1>1, <2>1, <2>3, <2>5 DEF OrderIInv, Sorted
  <2>7. fd # 0 => fd \in Inode
    BY BoundAssumption DEF OrderIInv, TailTypes, Inode
  <2>8. Ahead'
    BY <1>1, <2>1, <2>3, <2>7 DEF OrderIInv, Ahead
  <2>9. Follows' /\ Rising(printed)'
    BY <1>1 DEF OrderIInv, Follows, Rising
  <2> QED
    BY <2>4, <2>6, <2>8, <2>9 DEF OrderIInv
<1> QED
  BY <1>2, <1>3

(* What is printed follows the offset, which is where the newer begins.    *)
LEMMA OrderEmit ==
  ASSUME OrderIInv, Emit
  PROVE  OrderIInv'
<1>0. PICK c : c = content[fd]
  OBVIOUS
<1>1. /\ fd \in Inode /\ fd # 0 /\ c \in Seq(Nat) /\ Rising(c) /\ printed \in Seq(Nat)
      /\ offset \in Nat /\ size \in Nat /\ pc = "emit" /\ pc \in Polls
  <2>1. fd # 0 /\ offset \in Nat /\ size \in Nat /\ pc = "emit" /\ printed \in Seq(Nat)
    BY DEF OrderIInv, Follows, TailTypes, Emit
  <2>2. fd \in Inode
    BY <2>1, BoundAssumption DEF OrderIInv, TailTypes, Inode
  <2> QED
    BY <1>0, <2>1, <2>2 DEF OrderIInv, TailTypes, Sorted, Polls
<1>2. Len(c) \in Nat /\ DOMAIN c = 1 .. Len(c) /\ \A i \in DOMAIN c : c[i] \in Nat
  BY <1>1, SeqForm
<1>3. PICK end : end = IF size < Len(c) THEN size ELSE Len(c)
  OBVIOUS
<1>3a. end \in Nat /\ end <= Len(c)
  <2>1. size \in Nat /\ Len(c) \in Nat
    BY <1>1, <1>2
  <2> QED
    BY <1>3, <2>1
<1>4. PICK more : more = SubSeq(c, offset + 1, end)
  OBVIOUS
<1>5. /\ more \in Seq(Nat) /\ Rising(more)
      /\ Len(more) = IF offset + 1 <= end THEN end - (offset + 1) + 1 ELSE 0
      /\ \A i \in DOMAIN more : offset + 1 + i - 1 \in DOMAIN c /\ more[i] = c[offset + 1 + i - 1]
  <2>1. offset + 1 \in Nat /\ 1 <= offset + 1
    BY <1>1
  <2> QED
    BY <1>1, <1>3a, <1>4, <2>1, RisingSub
<1>6. /\ DOMAIN more = 1 .. Len(more)
      /\ \A i \in DOMAIN more : offset + i \in DOMAIN c /\ more[i] = c[offset + i] /\ i \in Nat /\ 1 <= i
  <2>1. DOMAIN more = 1 .. Len(more) /\ Len(more) \in Nat
    BY <1>5, SeqForm
  <2>2. ASSUME NEW i \in DOMAIN more PROVE i \in Nat /\ 1 <= i /\ offset + 1 + i - 1 = offset + i
    BY <1>1, <2>1
  <2> QED
    BY <1>5, <2>1, <2>2
<1>7. /\ printed' = printed \o more /\ offset' = offset + Len(more) /\ pc' = "check"
      /\ UNCHANGED <<mode, content, name, files, log, written, fd, size, since>>
  BY <1>0, <1>3, <1>4 DEF Emit, Copied, GoTo, env, disk
<1>8. \A i \in DOMAIN c, j \in DOMAIN printed : offset < i => printed[j] < c[i]
  BY <1>0, <1>1 DEF OrderIInv, Ahead
<1>9. \A j \in DOMAIN printed, i \in DOMAIN more : printed[j] < more[i]
  <2> SUFFICES ASSUME NEW j \in DOMAIN printed, NEW i \in DOMAIN more PROVE printed[j] < more[i]
    OBVIOUS
  <2>1. offset < offset + i
    BY <1>1, <1>6
  <2> QED
    BY <1>6, <1>8, <2>1
<1>10. /\ printed' \in Seq(Nat) /\ Rising(printed')
       /\ \A k \in DOMAIN printed' : \/ \E i \in DOMAIN printed : printed'[k] = printed[i]
                                     \/ \E i \in DOMAIN more : printed'[k] = c[offset + i]
  <2>1. Rising(printed)
    BY DEF OrderIInv
  <2>2. /\ printed \o more \in Seq(Nat) /\ Rising(printed \o more)
        /\ \A k \in DOMAIN (printed \o more) :
             \/ \E i \in DOMAIN printed : (printed \o more)[k] = printed[i]
             \/ \E j \in DOMAIN more : (printed \o more)[k] = more[j]
    BY <1>1, <1>5, <1>9, <2>1, RisingConcat
  <2> QED
    BY <1>6, <1>7, <2>2
<1>11. TailTypes'
  <2>1. offset' \in Nat
    BY <1>1, <1>5, <1>7, SeqForm
  <2> QED
    BY <1>7, <1>10, <2>1 DEF OrderIInv, TailTypes
<1>12. Sorted'
  BY <1>0, <1>1, <1>6, <1>7, <1>10 DEF OrderIInv, Sorted
<1>12a. Len(more) = 0 \/ offset' = end
  BY <1>1, <1>3a, <1>5, <1>7
<1>12b. Len(more) \in Nat
  BY <1>5, SeqForm
<1>13. Ahead'
  <2> SUFFICES ASSUME NEW i \in DOMAIN c, NEW j \in DOMAIN printed', offset' < i \/ Len(c) < offset'
               PROVE  printed'[j] < c[i]
    BY <1>0, <1>7 DEF Ahead
  <2>1. CASE \E k \in DOMAIN more : printed'[j] = c[offset + k]
    <3>1. PICK k \in DOMAIN more : printed'[j] = c[offset + k]
      BY <2>1
    <3>2. k \in 1 .. Len(more) /\ offset + k \in DOMAIN c
      BY <1>6, <3>1
    <3>3. k \in Nat /\ k <= Len(more) /\ offset' = end
      BY <1>12a, <1>12b, <3>2
    <3>4. offset' < i /\ i \in Nat
      BY <1>2, <1>3a, <3>3
    <3>5. offset + k < i
      BY <1>1, <1>7, <1>12b, <3>3, <3>4
    <3> QED
      BY <1>1, <3>1, <3>2, <3>5 DEF Rising
  <2>2. CASE \E k \in DOMAIN printed : printed'[j] = printed[k]
    <3>1. PICK k \in DOMAIN printed : printed'[j] = printed[k]
      BY <2>2
    <3>2. offset < i \/ Len(c) < offset
      <4>1. CASE Len(more) = 0
        BY <1>1, <1>7, <4>1
      <4>2. CASE offset' = end
        BY <1>1, <1>2, <1>3a, <1>7, <1>12b, <4>2
      <4> QED
        BY <1>12a, <4>1, <4>2
    <3> QED
      BY <1>0, <1>1, <3>1, <3>2 DEF OrderIInv, Ahead
  <2> QED
    BY <1>10, <2>1, <2>2
<1>14. Follows'
  BY <1>7 DEF Follows
<1> QED
  BY <1>10, <1>11, <1>12, <1>13, <1>14 DEF OrderIInv

LEMMA OrderStatSize ==
  ASSUME OrderIInv, StatSize
  PROVE  OrderIInv'
<1>1. /\ UNCHANGED <<mode, content, written, files, name, log, fd, since, printed>>
      /\ size' = Len(content[fd]) /\ pc = "size" /\ fd # 0
      /\ offset' = (IF size' < offset THEN 0 ELSE offset)
      /\ pc' \in {"emit", "check"}
  BY DEF StatSize, GoTo, env, disk, OrderIInv, Follows
<1>2. fd \in Inode /\ offset \in Nat /\ content[fd] \in Seq(Nat)
  BY <1>1, BoundAssumption DEF OrderIInv, TailTypes, Inode
<1>3. Len(content[fd]) \in Nat
  BY <1>2, SeqForm
<1>4. TailTypes'
  BY <1>1, <1>2, <1>3 DEF OrderIInv, TailTypes
<1>5. Ahead'
  <2> SUFFICES ASSUME NEW i \in DOMAIN content[fd], NEW j \in DOMAIN printed,
                      offset' < i \/ Len(content[fd]) < offset'
               PROVE  printed[j] < content[fd][i]
    BY <1>1 DEF Ahead
  <2>1. offset < i \/ Len(content[fd]) < offset
    BY <1>1, <1>2, <1>3
  <2> QED
    BY <1>1, <2>1 DEF OrderIInv, Ahead, Polls
<1>6. Sorted' /\ Follows' /\ Rising(printed)'
  BY <1>1 DEF OrderIInv, Sorted, Follows, Rising
<1> QED
  BY <1>4, <1>5, <1>6 DEF OrderIInv

(* At the end of the file nothing is above the offset.                     *)
LEMMA OrderSeek ==
  ASSUME OrderIInv, SeekEnd
  PROVE  OrderIInv'
<1>1. /\ UNCHANGED <<mode, content, written, files, name, log, fd, size, printed>>
      /\ pc' = "wait" /\ since' = written /\ offset' = Len(content[fd]) /\ fd # 0
  BY DEF SeekEnd, GoTo, env, disk, OrderIInv, Follows
<1>2. fd \in Inode /\ content[fd] \in Seq(Nat)
  BY <1>1, BoundAssumption DEF OrderIInv, TailTypes, Inode
<1>3. Len(content[fd]) \in Nat /\ DOMAIN content[fd] = 1 .. Len(content[fd])
  BY <1>2, SeqForm
<1>4. TailTypes'
  BY <1>1, <1>3 DEF OrderIInv, TailTypes
<1>5. Ahead'
  BY <1>1, <1>3 DEF Ahead
<1>6. Sorted' /\ Follows' /\ Rising(printed)'
  BY <1>1 DEF OrderIInv, Sorted, Follows, Rising
<1> QED
  BY <1>4, <1>5, <1>6 DEF OrderIInv

LEMMA OrderFirst ==
  ASSUME OrderIInv, FirstPass
  PROVE  OrderIInv'
<1>1. UNCHANGED <<mode, content, written, files, name, log, fd, offset, size, since>>
      /\ pc = "pass" /\ pc' = "open"
  BY DEF FirstPass, GoTo, env, disk
<1>2. /\ printed' \in Seq(Nat) /\ Rising(printed')
      /\ \A j \in DOMAIN printed' : printed'[j] <= written
  <2>1. CASE name = 0
    BY <2>1 DEF FirstPass, OrderIInv, TailTypes, Sorted
  <2>2. CASE name # 0
    <3>0. PICK c : c = content[name]
      OBVIOUS
    <3>1. PICK a : a = IF Len(c) > Lines THEN Len(c) - Lines + 1 ELSE 1
      OBVIOUS
    <3>2. name \in Inode
      BY <2>2, BoundAssumption DEF OrderIInv, TailTypes, Inode
    <3>3. c \in Seq(Nat) /\ Rising(c) /\ \A i \in DOMAIN c : c[i] <= written
      BY <3>0, <3>2 DEF OrderIInv, TailTypes, Sorted
    <3>4. Len(c) \in Nat /\ a \in Nat /\ 1 <= a
      BY <3>1, <3>3, SeqForm, OptionAssumption
    <3>5. printed' = SubSeq(c, a, Len(c))
      BY <2>2, <3>0, <3>1 DEF FirstPass
    <3>6. /\ SubSeq(c, a, Len(c)) \in Seq(Nat) /\ Rising(SubSeq(c, a, Len(c)))
          /\ \A i \in DOMAIN SubSeq(c, a, Len(c)) :
               a + i - 1 \in DOMAIN c /\ SubSeq(c, a, Len(c))[i] = c[a + i - 1]
      <4>1. Len(c) <= Len(c)
        BY <3>4
      <4> QED
        BY <3>3, <3>4, <4>1, RisingSub
    <3> QED
      BY <3>3, <3>5, <3>6
  <2> QED
    BY <2>1, <2>2
<1>3. TailTypes' /\ Sorted' /\ Follows' /\ Ahead'
  BY <1>1, <1>2 DEF OrderIInv, TailTypes, Sorted, Follows, Ahead, Polls
<1> QED
  BY <1>2, <1>3 DEF OrderIInv

(* The other steps print nothing and stay with the file.                   *)
LEMMA OrderOther ==
  ASSUME OrderIInv, ~mode.reopen, Open \/ Tick \/ CheckPid \/ Cancel
  PROVE  OrderIInv'
<1>1. UNCHANGED <<mode, content, written, files, name, log, offset, size, printed>>
  BY DEF Open, Tick, CheckPid, Cancel, env, disk
<1>2. Sorted' /\ Rising(printed)'
  BY <1>1 DEF OrderIInv, Sorted, Rising
<1>3. CASE Open
  <2>1. TailTypes'
    BY <1>1, <1>3 DEF OrderIInv, TailTypes, Open
  <2>2. (pc' = "seek" /\ fd' # 0) \/ (pc' \in {"wait", "done"} /\ fd' = fd)
    BY <1>3 DEF Open, GoTo
  <2>3. fd = 0
    BY <1>3 DEF Open, OrderIInv, Follows
  <2> QED
    BY <1>1, <1>2, <2>1, <2>2, <2>3 DEF OrderIInv, Follows, Ahead, Polls
<1>4. CASE Tick \/ CheckPid \/ Cancel
  <2>1. /\ UNCHANGED <<fd, since>> /\ pc \in Polls
        /\ pc' \in {"check", "wait", "done"} \/ (pc' = "size" /\ fd # 0)
    BY <1>4 DEF Tick, CheckPid, Cancel, GoTo, Polls
  <2>2. TailTypes'
    BY <1>1, <2>1 DEF OrderIInv, TailTypes
  <2>3. Follows' /\ Ahead'
    BY <1>1, <2>1 DEF OrderIInv, Follows, Ahead
  <2> QED
    BY <1>2, <2>2, <2>3 DEF OrderIInv
<1> QED
  BY <1>3, <1>4

(* Without -F what tail prints is in the order of writing, and nothing     *)
(* comes twice, though the file is renamed, replaced or emptied meanwhile. *)
THEOREM TailKeepsOrder == Spec => []InOrder
<1>1. ~mode.reopen /\ OrderIInv /\ [Next]_vars => OrderIInv'
  <2> SUFFICES ASSUME ~mode.reopen, OrderIInv, [Next]_vars PROVE OrderIInv'
    OBVIOUS
  <2>1. CASE Environment
    BY <2>1, OrderWrite, OrderFile DEF Environment
  <2>2. CASE StatPath \/ ReopenPath
    BY <2>2 DEF StatPath, ReopenPath, OrderIInv, Follows
  <2>3. CASE FirstPass \/ SeekEnd \/ StatSize \/ Emit
    BY <2>3, OrderFirst, OrderSeek, OrderStatSize, OrderEmit
  <2>3a. CASE Open \/ Tick \/ CheckPid \/ Cancel
    BY <2>3a, OrderOther
  <2>4. CASE UNCHANGED vars
    BY <2>4 DEF OrderIInv, TailTypes, Sorted, Follows, Ahead, Rising, vars, env, disk
  <2> QED
    BY <2>1, <2>2, <2>3, <2>3a, <2>4 DEF Next, Follow
<1>2. [Next]_vars => mode' = mode
  BY ModeStays
<1>3. (~mode.reopen => OrderIInv) /\ [Next]_vars => (~mode.reopen => OrderIInv)'
  BY <1>1, <1>2
<1>4. (~mode.reopen => OrderIInv) => InOrder
  BY DEF OrderIInv, InOrder, Rising
<1> QED
  BY <1>3, <1>4, OrderBegins, PTL DEF Spec

-----------------------------------------------------------------------------
(* rx. *)

Nums    == 0 .. MaxNum
Indices == 0 .. Len(File) + 1
Packets ==
  {p \in [kind : {"data", "eot", "can"}, index : Indices, num : Nums, good : BOOLEAN] :
     /\ p.kind = "data" => p.index \in 1 .. Len(File)
     /\ p.kind = "eot" => p.index = Len(File) + 1}

(* One step of the walk, from block i with number n to block j with m.     *)
OneOn(i, n, j, m) == (j = i /\ m = n) \/ (j = i + 1 /\ m = Next1(n))

(* The packets l lead from block i with number n to block j with number m. *)
Leads(l, i, n, j, m) ==
  /\ l = <<>> => j = i /\ m = n
  /\ l # <<>> => /\ OneOn(i, n, l[1].index, l[1].num)
                 /\ l[Len(l)].index = j /\ l[Len(l)].num = m
  /\ \A k \in 1 .. Len(l) - 1 : OneOn(l[k].index, l[k].num, l[k + 1].index, l[k + 1].num)

RxTypes ==
  /\ link \in Seq(Packets)
  /\ index \in Indices /\ num \in Nums /\ expected \in Nums
  /\ rx \in {"new", "open", "received", "failed"}

(* What is written is the beginning of the file.                           *)
Written ==
  /\ out \in Seq(Nat) /\ Len(out) <= Len(File)
  /\ \A k \in 1 .. Len(out) : out[k] = File[k]

(* The inductive invariant.  Once rx has ended the link goes nowhere.      *)
RxIInv ==
  /\ RxTypes /\ Written
  /\ rx \in {"new", "open"} => Leads(link, Len(out), Prev1(expected), index, num)
  /\ rx = "received" => out = File

-----------------------------------------------------------------------------
(* Numbers. *)

LEMMA NumberFacts ==
  /\ \A n \in Nums : Next1(n) \in Nums /\ Prev1(n) \in Nums
  /\ \A n \in Nums : Prev1(Next1(n)) = n /\ Next1(Prev1(n)) = n /\ Prev1(n) # n
  BY XmodemAssumption DEF Next1, Prev1, Nums

LEMMA FileFacts ==
  /\ Len(File) \in Nat
  /\ \A k \in 1 .. Len(File) : File[k] \in Nat
  BY XmodemAssumption

-----------------------------------------------------------------------------
(* The walk. *)

(* A packet for the same block or the next prolongs it.                    *)
LEMMA LeadsAppend ==
  ASSUME NEW l \in Seq(Packets), NEW i, NEW n, NEW j, NEW m, Leads(l, i, n, j, m),
         NEW p \in Packets, OneOn(j, m, p.index, p.num)
  PROVE  Leads(Append(l, p), i, n, p.index, p.num)
<1> DEFINE a == Append(l, p)
<1>1. /\ a \in Seq(Packets) /\ Len(a) = Len(l) + 1 /\ Len(l) \in Nat /\ a # <<>>
      /\ a[Len(l) + 1] = p /\ \A k \in 1 .. Len(l) : a[k] = l[k]
  OBVIOUS
<1>2. l # <<>> => Len(l) >= 1
  OBVIOUS
<1>3. l = <<>> => Len(l) = 0
  OBVIOUS
<1> HIDE DEF a
<1>4. OneOn(i, n, a[1].index, a[1].num)
  BY <1>1, <1>2, <1>3 DEF Leads
<1>5. ASSUME NEW k \in 1 .. Len(a) - 1
      PROVE  OneOn(a[k].index, a[k].num, a[k + 1].index, a[k + 1].num)
  <2>1. CASE k = Len(l)
    BY <1>1, <1>2, <1>3, <2>1 DEF Leads
  <2>2. CASE k \in 1 .. Len(l) - 1
    <3>1. a[k] = l[k] /\ a[k + 1] = l[k + 1]
      BY <1>1, <2>2
    <3> QED BY <2>2, <3>1 DEF Leads
  <2> QED BY <1>1, <2>1, <2>2
<1> QED BY <1>1, <1>4, <1>5 DEF Leads, a

(* Without its first packet it begins at that packet.                      *)
LEMMA LeadsTail ==
  ASSUME NEW l \in Seq(Packets), l # <<>>, NEW i, NEW n, NEW j, NEW m, Leads(l, i, n, j, m)
  PROVE  Leads(Tail(l), Head(l).index, Head(l).num, j, m)
<1> DEFINE t == Tail(l)
<1>1. /\ t \in Seq(Packets) /\ Len(t) = Len(l) - 1 /\ Len(l) \in Nat \ {0} /\ Head(l) = l[1]
      /\ \A k \in 1 .. Len(t) : t[k] = l[k + 1]
  OBVIOUS
<1>2. \A s \in Seq(Packets) : s = <<>> <=> Len(s) = 0
  BY EmptySeq
<1> HIDE DEF t
<1>3. CASE Len(l) = 1
  <2>1. t = <<>> /\ Len(t) = 0
    BY <1>1, <1>2, <1>3
  <2>2. l[1].index = j /\ l[1].num = m
    BY <1>1, <1>3 DEF Leads
  <2>3. 1 .. Len(t) - 1 = {}
    BY <2>1
  <2>4. Leads(t, l[1].index, l[1].num, j, m)
    BY <2>1, <2>2, <2>3 DEF Leads
  <2> QED BY <1>1, <2>4 DEF t
<1>4. CASE Len(l) > 1
  <2>1. t # <<>> /\ t[1] = l[2] /\ t[Len(t)] = l[Len(l)]
    BY <1>1, <1>2, <1>4
  <2>2. OneOn(l[1].index, l[1].num, l[1 + 1].index, l[1 + 1].num)
    BY <1>1, <1>4 DEF Leads
  <2>3. ASSUME NEW k \in 1 .. Len(t) - 1
        PROVE  OneOn(t[k].index, t[k].num, t[k + 1].index, t[k + 1].num)
    <3>1. k + 1 \in 1 .. Len(l) - 1 /\ t[k] = l[k + 1] /\ t[k + 1] = l[k + 1 + 1]
      BY <1>1, <2>3
    <3> QED BY <3>1 DEF Leads
  <2> QED BY <1>1, <2>1, <2>2, <2>3 DEF Leads, t
<1>5. Len(l) = 1 \/ Len(l) > 1
  BY <1>1
<1> QED BY <1>3, <1>4, <1>5

(* A packet that is spoilt stays in its place.                             *)
LEMMA Spoilt ==
  ASSUME NEW l \in Seq(Packets), NEW q \in DOMAIN l
  PROVE  LET s == [l EXCEPT ![q].good = FALSE] IN
         /\ s \in Seq(Packets) /\ Len(s) = Len(l)
         /\ \A k \in 1 .. Len(l) : s[k].index = l[k].index /\ s[k].num = l[k].num
<1> DEFINE s == [l EXCEPT ![q].good = FALSE]
<1>1. Len(l) \in Nat /\ DOMAIN l = 1 .. Len(l) /\ \A k \in 1 .. Len(l) : l[k] \in Packets
  OBVIOUS
<1>2. ASSUME NEW k \in 1 .. Len(l)
      PROVE  s[k] \in Packets /\ s[k].index = l[k].index /\ s[k].num = l[k].num
  <2>1. CASE k = q
    <3>1. s[k] = [l[k] EXCEPT !.good = FALSE]
      BY <1>1, <2>1
    <3> QED BY <1>1, <3>1 DEF Packets
  <2>2. CASE k # q
    <3>1. s[k] = l[k]
      BY <1>1, <2>2
    <3> QED BY <1>1, <3>1
  <2> QED BY <2>1, <2>2
<1>3. s = [k \in 1 .. Len(l) |-> s[k]]
  BY <1>1
<1> HIDE DEF s
<1>4. s \in Seq(Packets) /\ Len(s) = Len(l)
  BY <1>1, <1>2, <1>3
<1> QED BY <1>2, <1>4 DEF s

LEMMA LeadsSpoilt ==
  ASSUME NEW l \in Seq(Packets), NEW s \in Seq(Packets), Len(s) = Len(l),
         \A k \in 1 .. Len(l) : s[k].index = l[k].index /\ s[k].num = l[k].num,
         NEW i, NEW n, NEW j, NEW m, Leads(l, i, n, j, m)
  PROVE  Leads(s, i, n, j, m)
<1>1. Len(l) \in Nat /\ (l = <<>> <=> s = <<>>) /\ (l # <<>> => Len(l) >= 1)
  BY EmptySeq
<1>2. \A k \in 1 .. Len(l) - 1 : k \in 1 .. Len(l) /\ k + 1 \in 1 .. Len(l)
  BY <1>1
<1> QED BY <1>1, <1>2 DEF Leads

-----------------------------------------------------------------------------
(* Init and the steps. *)

LEMMA RxInitIInv == XmodemInit => RxIInv
<1> SUFFICES ASSUME XmodemInit PROVE RxIInv
  OBVIOUS
<1>1. link \in Seq(Packets) /\ out \in Seq(Nat) /\ Len(out) = 0
  BY EmptySeq DEF XmodemInit
<1>2. 0 \in Nums /\ 1 \in Nums /\ 0 \in Indices /\ Prev1(1) = 0
  BY XmodemAssumption, FileFacts DEF Nums, Indices, Prev1
<1>3. RxTypes /\ Written
  BY <1>1, <1>2, FileFacts DEF XmodemInit, RxTypes, Written
<1>4. Leads(<<>>, 0, 0, 0, 0)
  <2>1. Len(<<>>) = 0
    OBVIOUS
  <2> QED BY <2>1 DEF Leads
<1> QED BY <1>1, <1>2, <1>3, <1>4 DEF XmodemInit, RxIInv

(* A packet of the sender, for the block it is at or the next one.         *)
LEMMA SendKeeps ==
  ASSUME RxIInv, NEW p \in Packets, link' = Append(link, p), index' = p.index, num' = p.num,
         OneOn(index, num, p.index, p.num), UNCHANGED rxvars
  PROVE  RxIInv'
<1>1. link' \in Seq(Packets) /\ p.index \in Indices /\ p.num \in Nums
  BY DEF RxIInv, RxTypes, Packets
<1>2. rx \in {"new", "open"} => Leads(link', Len(out), Prev1(expected), p.index, p.num)
  BY LeadsAppend DEF RxIInv, RxTypes
<1> QED BY <1>1, <1>2 DEF RxIInv, RxTypes, Written, rxvars

LEMMA PacketType ==
  ASSUME NEW i \in 1 .. Len(File) + 1, NEW n \in Nums
  PROVE  Packet(i, n) \in Packets /\ Packet(i, n).index = i /\ Packet(i, n).num = n
  BY FileFacts DEF Packet, Packets, Indices

LEMMA SenderKeeps ==
  ASSUME RxIInv, HearReply \/ SenderTimeout \/ SenderGone PROVE RxIInv'
<1>1. index \in Indices /\ num \in Nums /\ Next1(num) \in Nums
  BY NumberFacts DEF RxIInv, RxTypes
<1>2. CASE UNCHANGED <<link, index, num, rxvars>>
  BY <1>2 DEF RxIInv, RxTypes, Written, rxvars
<1>3. CASE HearReply /\ ~(index > Len(File))
  <2>1. index + 1 \in 1 .. Len(File) + 1
    BY <1>1, <1>3, FileFacts DEF Indices
  <2>2. link' = Append(link, Packet(index + 1, Next1(num))) /\ UNCHANGED rxvars
        /\ index' = index + 1 /\ num' = Next1(num)
    BY <1>3 DEF HearReply, Advance, SendBlock
  <2> QED BY <1>1, <2>1, <2>2, PacketType, SendKeeps DEF OneOn
<1>4. CASE SenderTimeout /\ index > 0 /\ Repeat
  <2>1. index \in 1 .. Len(File) + 1
    BY <1>1, <1>4, FileFacts DEF Indices
  <2>2. link' = Append(link, Packet(index, num)) /\ UNCHANGED <<index, num, rxvars>>
    BY <1>4 DEF SenderTimeout, Repeat, SendBlock
  <2> QED BY <1>1, <2>1, <2>2, PacketType, SendKeeps DEF OneOn
<1>5. CASE SenderTimeout /\ CancelSend
  <2> DEFINE p == [kind |-> "can", index |-> index, num |-> num, good |-> TRUE]
  <2>1. p \in Packets
    BY <1>1 DEF Packets
  <2>2. link' = Append(link, p) /\ UNCHANGED <<index, num, rxvars>>
    BY <1>5 DEF SenderTimeout, CancelSend
  <2> QED BY <2>1, <2>2, SendKeeps DEF OneOn
<1> QED BY <1>2, <1>3, <1>4, <1>5 DEF HearReply, HangUp, SenderTimeout, SenderGone

LEMMA LinkKeeps ==
  ASSUME RxIInv, Spoil \/ LoseReply PROVE RxIInv'
<1>1. CASE Spoil
  <2>1. PICK i \in DOMAIN link : link' = [link EXCEPT ![i].good = FALSE]
    BY <1>1 DEF Spoil
  <2>2. link' \in Seq(Packets)
        /\ (rx \in {"new", "open"} => Leads(link', Len(out), Prev1(expected), index, num))
    <3>1. /\ link' \in Seq(Packets) /\ Len(link') = Len(link)
          /\ \A k \in 1 .. Len(link) : link'[k].index = link[k].index /\ link'[k].num = link[k].num
      BY <2>1, Spoilt DEF RxIInv, RxTypes
    <3> QED BY <3>1, LeadsSpoilt DEF RxIInv, RxTypes
  <2> QED BY <1>1, <2>2 DEF Spoil, RxIInv, RxTypes, Written, sendvars, rxvars
<1>2. CASE LoseReply
  BY <1>2 DEF LoseReply, RxIInv, RxTypes, Written, sendvars, rxvars
<1> QED BY <1>1, <1>2

(* What rx knows of the packet it reads.                                   *)
LEMMA FirstPacket ==
  ASSUME RxIInv, Receiving
  PROVE  /\ Packet1 \in Packets /\ link' \in Seq(Packets)
         /\ OneOn(Len(out), Prev1(expected), Packet1.index, Packet1.num)
         /\ Leads(link', Packet1.index, Packet1.num, index, num)
<1>1. link \in Seq(Packets) /\ link # <<>> /\ link' = Tail(link)
      /\ Leads(link, Len(out), Prev1(expected), index, num)
  BY DEF RxIInv, RxTypes, Receiving
<1>2. Head(link) = link[1] /\ Head(link) \in Packets /\ Tail(link) \in Seq(Packets)
  BY <1>1
<1>3. OneOn(Len(out), Prev1(expected), Head(link).index, Head(link).num)
  BY <1>1, <1>2 DEF Leads
<1>4. Leads(Tail(link), Head(link).index, Head(link).num, index, num)
  BY <1>1, LeadsTail
<1> QED BY <1>1, <1>2, <1>3, <1>4 DEF Packet1

(* The block with the expected number is the next one of the file.         *)
LEMMA NextBlock ==
  ASSUME RxIInv, Receiving, Good("data"), Packet1.num = expected
  PROVE  Packet1.index = Len(out) + 1 /\ Packet1.index \in 1 .. Len(File)
<1>1. expected \in Nums /\ Prev1(expected) # expected
  BY NumberFacts DEF RxIInv, RxTypes
<1> QED BY <1>1, FirstPacket DEF OneOn, Good, Packets

(* The end comes after the last block.                                     *)
LEMMA LastBlock ==
  ASSUME RxIInv, Receiving, Good("eot") PROVE out = File
<1>1. Packet1.index = Len(File) + 1
  BY FirstPacket DEF Good, Packets
<1>2. Len(out) \in Nat /\ Len(out) <= Len(File)
  BY DEF RxIInv, Written
<1>3. Len(out) = Len(File)
  BY <1>1, <1>2, FirstPacket, FileFacts DEF OneOn
<1> QED BY <1>3, SeqEqual, XmodemAssumption DEF RxIInv, Written

LEMMA ReceiverKeeps ==
  ASSUME RxIInv, AskToStart \/ Receiver \/ WriteFails PROVE RxIInv'
<1>1. CASE AskToStart
  BY <1>1 DEF AskToStart, RxIInv, RxTypes, Written, sendvars
<1>2. CASE TakeBlock
  <2>1. Receiving /\ Good("data") /\ Packet1.num = expected
    BY <1>2 DEF TakeBlock
  <2>2. Packet1.index = Len(out) + 1 /\ Packet1.index \in 1 .. Len(File)
    BY <2>1, NextBlock
  <2>3. out' = Append(out, File[Len(out) + 1]) /\ expected' = Next1(expected)
        /\ UNCHANGED <<sendvars, rx>>
    BY <1>2, <2>2 DEF TakeBlock
  <2>4. expected \in Nums /\ Next1(expected) \in Nums /\ Prev1(Next1(expected)) = expected
    BY NumberFacts DEF RxIInv, RxTypes
  <2>5. out' \in Seq(Nat) /\ Len(out') = Len(out) + 1 /\ Len(out) \in Nat
    BY <2>2, <2>3, FileFacts DEF RxIInv, Written
  <2>6. ASSUME NEW k \in 1 .. Len(out') PROVE out'[k] = File[k]
    BY <2>3, <2>5 DEF RxIInv, Written
  <2>7. link' \in Seq(Packets) /\ Leads(link', Len(out'), Prev1(expected'), index, num)
    BY <2>1, <2>2, <2>3, <2>4, <2>5, FirstPacket
  <2>8. Written'
    BY <2>2, <2>5, <2>6, FileFacts DEF Written
  <2> QED BY <2>1, <2>3, <2>4, <2>7, <2>8 DEF RxIInv, RxTypes, sendvars, Receiving
<1>3. CASE TakeRepeat
  <2>1. Receiving /\ Good("data") /\ Packet1.num # expected /\ UNCHANGED <<sendvars, rxvars>>
    BY <1>3 DEF TakeRepeat
  <2>2. expected \in Nums /\ Next1(Prev1(expected)) = expected
    BY NumberFacts DEF RxIInv, RxTypes
  <2>3. Packet1.index = Len(out) /\ Packet1.num = Prev1(expected)
    BY <2>1, <2>2, FirstPacket DEF OneOn
  <2>4. link' \in Seq(Packets) /\ Leads(link', Len(out), Prev1(expected), index, num)
    BY <2>1, <2>3, FirstPacket
  <2> QED BY <2>1, <2>4 DEF RxIInv, RxTypes, Written, sendvars, rxvars
<1>4. CASE TakeEnd
  <2>1. link' \in Seq(Packets) /\ out = File
    BY <1>4, FirstPacket, LastBlock DEF TakeEnd
  <2> QED BY <1>4, <2>1 DEF TakeEnd, RxIInv, RxTypes, Written, sendvars
<1>5. CASE TakeBad \/ WriteFails \/ LinkEnds
  <2>1. link' \in Seq(Packets)
    BY <1>5, FirstPacket DEF TakeBad, WriteFails, LinkEnds, RxIInv, RxTypes
  <2> QED BY <1>5, <2>1 DEF TakeBad, WriteFails, LinkEnds, Failing, RxIInv, RxTypes, Written, sendvars
<1> QED BY <1>1, <1>2, <1>3, <1>4, <1>5 DEF Receiver

LEMMA RxStepIInv == RxIInv /\ [XmodemNext]_xvars => RxIInv'
<1>1. CASE UNCHANGED xvars
  BY <1>1 DEF xvars, linkvars, sendvars, rxvars, RxIInv, RxTypes, Written
<1> QED BY <1>1, SenderKeeps, LinkKeeps, ReceiverKeeps DEF XmodemNext, Sender

(* When rx exits 0 it has written the file.                                *)
THEOREM ReceivedIsWhole == XmodemSpec => [](rx = "received" => out = File)
<1>1. RxIInv => (rx = "received" => out = File)
  BY DEF RxIInv
<1> QED BY <1>1, RxInitIInv, RxStepIInv, PTL DEF XmodemSpec

-----------------------------------------------------------------------------
(* The refinement. *)

(* A step of rx is a step of the transfer, and the others are none.        *)
LEMMA StepRefines == RxIInv /\ [XmodemNext]_xvars => [Transfer!Next]_Transfer!ftvars
<1> SUFFICES ASSUME RxIInv, [XmodemNext]_xvars PROVE [Transfer!Next]_Transfer!ftvars
  OBVIOUS
<1> USE DEF Transfer!Next, Transfer!Step, Transfer!Start, Transfer!Deliver,
            Transfer!Complete, Transfer!Fail, Transfer!ftvars
<1>1. CASE UNCHANGED rxvars
  BY <1>1 DEF rxvars
<1>2. CASE AskToStart
  BY <1>2 DEF AskToStart
<1>3. CASE TakeBlock
  <2>1. Receiving /\ Good("data") /\ Packet1.num = expected
        /\ out' = Append(out, File[Packet1.index]) /\ rx' = rx
    BY <1>3 DEF TakeBlock
  <2>2. Packet1.index = Len(out) + 1 /\ Len(out) < Len(File)
    <3>1. Packet1.index = Len(out) + 1 /\ Packet1.index \in 1 .. Len(File)
      BY <2>1, NextBlock
    <3> QED BY <3>1, FileFacts DEF RxIInv, Written
  <2> QED BY <2>1, <2>2 DEF Receiving
<1>4. CASE TakeEnd
  BY <1>4, LastBlock DEF TakeEnd, Receiving
<1>5. CASE TakeBad \/ WriteFails \/ LinkEnds
  BY <1>5 DEF TakeBad, WriteFails, LinkEnds, Failing, Receiving
<1>6. CASE TakeRepeat \/ Sender \/ SenderGone \/ Spoil \/ LoseReply
  BY <1>1, <1>6 DEF TakeRepeat, Sender, HearReply, SenderTimeout, SenderGone, Spoil, LoseReply
<1>7. CASE UNCHANGED xvars
  BY <1>1, <1>7 DEF xvars
<1> QED BY <1>2, <1>3, <1>4, <1>5, <1>6, <1>7 DEF XmodemNext, Receiver

(* rx keeps the promises of FileTransfer but for the end of a transfer,    *)
(* which takes fairness.                                                   *)
THEOREM RxImplementsTransfer == XmodemSpec => Transfer!SafeSpec
<1>1. XmodemInit => Transfer!Init
  BY DEF XmodemInit, Transfer!Init
<1> QED BY <1>1, RxInitIInv, RxStepIInv, StepRefines, PTL DEF XmodemSpec, Transfer!SafeSpec

-----------------------------------------------------------------------------
(* nc, telnet, ssl_client and microcom. *)

(* Everything is a sequence of chunks; nothing happens before a session;   *)
(* a copy holds a chunk only to write it.                                  *)
Bytes == Seq(Carried)
RelaysTypes ==
  /\ stdin.left \in Bytes /\ up.held \in Bytes /\ down.held \in Bytes
  /\ sender.chunk \in Bytes /\ receiver.chunk \in Bytes /\ shown \in Bytes
  /\ said \in Bytes /\ heard \in Bytes /\ peer.left \in Bytes /\ peer.hand \in Bytes
  /\ stdin \in [left : Bytes, ended : BOOLEAN]
  /\ up \in [held : Bytes, ended : BOOLEAN, cut : BOOLEAN]
  /\ down \in [held : Bytes, ended : BOOLEAN, cut : BOOLEAN]
  /\ sender \in [pc : {"read", "write", "close", "broken", "done"}, chunk : Bytes]
  /\ receiver \in [pc : {"read", "write", "done"}, chunk : Bytes]
  /\ peer \in [left : Bytes, hand : Bytes, gone : BOOLEAN]
  /\ main \in {"wait", "grace", "fault", "ok", "failed"}
  /\ sender.pc # "write" => sender.chunk = <<>>
  /\ receiver.pc # "write" => receiver.chunk = <<>>
  /\ session = {} => RelaysInit

(* Up: what is given is heard, on its way, in the sender's hand or not yet *)
(* read, in this order, until the peer goes.                               *)
AllGiven ==
  session # {} =>
    /\ \E rest \in Bytes : Given = heard \o rest
    /\ ~peer.gone => Given = (heard \o up.held) \o (sender.chunk \o stdin.left)

(* Down: what is said is shown, in the receiver's hand or on its way, and  *)
(* what is lost is lost from its end, by a reset.                          *)
AllSaid ==
  \E lost \in Bytes :
    /\ said = (shown \o receiver.chunk) \o (down.held \o lost)
    /\ ~down.cut => lost = <<>>

(* Who is gone is no echo, and an echo has said all but what is in its     *)
(* hand; it closes when it has heard all that is given.                    *)
Cuts == down.cut => peer.gone
Echoes ==
  session # {} /\ IsEcho =>
    /\ ~peer.gone /\ heard = said \o peer.hand
    /\ down.ended => up.ended /\ up.held = <<>> /\ peer.hand = <<>>
SendersEnd ==
  /\ sender.pc = "broken" => peer.gone
  /\ sender.pc \in {"close", "done"} => peer.gone \/ stdin.left = <<>>
  /\ up.ended => sender.pc = "done"

(* A receiver is done, without an error, when all that was said is shown   *)
(* and no more will be said; and only then do nc, telnet and ssl_client    *)
(* report success.                                                         *)
ReceiversEnd ==
  /\ receiver.pc = "done" /\ main \in {"wait", "grace", "ok"} =>
       /\ said = shown /\ down.held = <<>> /\ (down.ended \/ peer.gone)
       /\ IsEcho => down.ended
  /\ main = "ok" /\ Relay # "microcom" => receiver.pc = "done"
  /\ main \in {"grace", "fault"} => Relay = "microcom"

RelaysIInv ==
  /\ RelaysTypes /\ AllGiven /\ AllSaid /\ Cuts /\ Echoes /\ SendersEnd /\ ReceiversEnd

(* Sequences: a head and a tail, and what is regrouped.                    *)
LEMMA HeadAndTail ==
  ASSUME NEW S, NEW s \in Seq(S), s # <<>>
  PROVE  s = <<Head(s)>> \o Tail(s) /\ <<Head(s)>> \in Seq(S) /\ Tail(s) \in Seq(S)
<1>1. Head(s) \in S /\ Tail(s) \in Seq(S) /\ Tail(s) = SubSeq(s, 2, Len(s)) /\ Head(s) = s[1]
  BY HeadTailProperties, TailIsSubSeq
<1>2. Len(s) \in Nat \ {0}
  BY EmptySeq
<1>3. SubSeq(s, 1, Len(s)) = <<s[1]>> \o SubSeq(s, 2, Len(s))
  <2>1. 1 \in 1 .. Len(s) /\ Len(s) \in 1 .. Len(s) /\ 1 + 1 = 2
    BY <1>2
  <2> QED
    BY <2>1, SubSeqRecursiveFirst
<1>4. SubSeq(s, 1, Len(s)) = s
  BY SubSeqFull
<1> QED
  BY <1>1, <1>3, <1>4

LEMMA PrefixOfConcat ==
  ASSUME NEW S, NEW s \in Seq(S), NEW t \in Seq(S)
  PROVE  IsPrefix(s, s \o t)
<1>1. Len(s) \in Nat /\ Len(t) \in Nat /\ Len(s \o t) = Len(s) + Len(t)
  BY ConcatProperties, LenProperties
<1>2. SubSeq(s \o t, 1, Len(s)) = SubSeq(s, 1, Len(s))
  <2>1. CASE Len(s) = 0
    BY <2>1, SubSeqEmpty
  <2>2. CASE Len(s) # 0
    <3>1. 1 \in 1 .. Len(s) /\ Len(s) \in 1 .. Len(s)
      BY <1>1, <2>2
    <3> QED
      BY <3>1, SubSeqOfConcat1
  <2> QED
    BY <2>1, <2>2
<1>3. Len(s) <= Len(s \o t)
  BY <1>1
<1> QED
  BY <1>2, <1>3 DEF IsPrefix

LEMMA SplitInTwo ==
  ASSUME NEW S, NEW s \in Seq(S), NEW n \in 0 .. Len(s)
  PROVE  \E t \in Seq(S) : s = SubSeq(s, 1, n) \o t /\ SubSeq(s, 1, n) \in Seq(S)
<1>1. Len(s) \in Nat /\ DOMAIN s = 1 .. Len(s) /\ \A i \in 1 .. Len(s) : s[i] \in S
  BY LenProperties
<1>2. /\ 1 \in 1 .. Len(s) + 1 /\ n \in 1 - 1 .. Len(s) /\ Len(s) \in n .. Len(s) /\ n + 1 \in Int /\ n \in Int
      /\ \A i \in 1 .. n : i \in 1 .. Len(s)
      /\ \A i \in n + 1 .. Len(s) : i \in 1 .. Len(s)
  BY <1>1
<1>3. SubSeq(s, 1, n) \o SubSeq(s, n + 1, Len(s)) = SubSeq(s, 1, Len(s))
  BY <1>2, ConcatAdjacentSubSeq
<1>4. SubSeq(s, 1, n) \in Seq(S)
  BY <1>1, <1>2, SubSeqProperties
<1>5. SubSeq(s, n + 1, Len(s)) \in Seq(S)
  BY <1>1, <1>2, SubSeqProperties
<1> QED
  BY <1>3, <1>4, <1>5, SubSeqFull

(* The same, of bytes.                                                     *)
LEMMA BytesConcat ==
  /\ \A a, b \in Bytes : a \o b \in Bytes
  /\ \A a, b, c \in Bytes : (a \o b) \o c = a \o (b \o c)
  /\ \A a \in Bytes : a \o <<>> = a /\ <<>> \o a = a
<1>1. \A a, b, c \in Bytes : (a \o b) \o c = a \o (b \o c)
  <2> SUFFICES ASSUME NEW a \in Seq(Carried), NEW b \in Seq(Carried), NEW c \in Seq(Carried)
               PROVE  (a \o b) \o c = a \o (b \o c)
    BY DEF Bytes
  <2> QED
    BY ConcatAssociative
<1>2. \A a \in Bytes : a \o <<>> = a /\ <<>> \o a = a
  BY ConcatEmptySeq DEF Bytes
<1>3. \A a, b \in Bytes : a \o b \in Bytes
  BY ConcatProperties DEF Bytes
<1> QED
  BY <1>1, <1>2, <1>3

LEMMA BytesPrefix == \A a, b \in Bytes : IsPrefix(a, a \o b)
  BY PrefixOfConcat DEF Bytes

LEMMA SameSession ==
  ASSUME session' = session
  PROVE  Relay' = Relay /\ Given' = Given /\ (IsEcho' <=> IsEcho)
  BY DEF Relay, Given, IsEcho

LEMMA NoBytes == <<>> \in Bytes
  BY EmptySeq DEF Bytes

LEMMA RelaysBegin == RelaysInit => RelaysIInv
<1> SUFFICES ASSUME RelaysInit PROVE RelaysIInv
  OBVIOUS
<1>1. RelaysTypes
  BY NoBytes DEF RelaysInit, RelaysTypes, Quiet, Copy
<1>2. AllGiven /\ Echoes
  BY DEF RelaysInit, AllGiven, Echoes
<1>3. AllSaid
  <2>1. <<>> = (<<>> \o <<>>) \o (<<>> \o <<>>)
    BY NoBytes, BytesConcat
  <2>2. /\ said = <<>> /\ shown = <<>> /\ receiver.chunk = <<>> /\ down.held = <<>>
    BY DEF RelaysInit, Copy, Quiet
  <2> QED
    BY <2>1, <2>2, NoBytes DEF AllSaid
<1>4. Cuts /\ SendersEnd /\ ReceiversEnd
  BY DEF RelaysInit, Cuts, SendersEnd, ReceiversEnd, Copy, Quiet
<1> QED
  BY <1>1, <1>2, <1>3, <1>4 DEF RelaysIInv

LEMMA ConnectKeeps == RelaysIInv /\ Connect => RelaysIInv'
<1> SUFFICES ASSUME RelaysIInv, Connect PROVE RelaysIInv'
  OBVIOUS
<1> USE DEF RelaysIInv
<1>1. RelaysInit
  BY DEF Connect, RelaysTypes
<1>2. PICK s \in Sessions :
        /\ session' = {s} /\ stdin' = [left |-> s.given, ended |-> ~s.terminal]
        /\ peer' = [peer EXCEPT !.left = s.speech]
  BY DEF Connect
<1>3. UNCHANGED <<up, down, sender, receiver, shown, main, said, heard>>
  BY DEF Connect
<1>4. s.given \in Bytes /\ s.speech \in Bytes
  BY RelaysAssumption DEF Bytes
<1>5. stdin' \in [left : Bytes, ended : BOOLEAN] /\ stdin'.left = s.given
  BY <1>2, <1>4
<1>6. /\ peer' \in [left : Bytes, hand : Bytes, gone : BOOLEAN]
      /\ peer'.hand = <<>> /\ peer'.gone = FALSE /\ peer'.left = s.speech
  BY <1>1, <1>2, <1>4, NoBytes DEF RelaysInit
<1>7. RelaysTypes'
  BY <1>2, <1>3, <1>4, <1>5, <1>6, NoBytes DEF RelaysTypes
<1>8. Given' = s.given
  <2>1. (CHOOSE x \in {s} : TRUE) = s
    OBVIOUS
  <2> QED
    BY <1>2, <2>1 DEF Given
<1>9. /\ said' = <<>> /\ heard' = <<>> /\ up'.held = <<>> /\ down'.held = <<>> /\ sender'.chunk = <<>>
      /\ ~down'.ended /\ ~down'.cut /\ ~up'.ended /\ sender'.pc = "read" /\ receiver'.pc = "read"
      /\ main' = "wait"
  BY <1>1, <1>3 DEF RelaysInit, Quiet, Copy
<1>10. s.given = <<>> \o s.given /\ s.given = (<<>> \o <<>>) \o (<<>> \o s.given) /\ <<>> = <<>> \o <<>>
  BY <1>4, NoBytes, BytesConcat
<1>11. AllGiven'
  BY <1>4, <1>5, <1>8, <1>9, <1>10 DEF AllGiven
<1>12. AllSaid' /\ Cuts'
  BY <1>3, <1>9 DEF AllSaid, Cuts
<1>13. Echoes'
  BY <1>6, <1>9, <1>10 DEF Echoes
<1>14. SendersEnd' /\ ReceiversEnd'
  BY <1>9 DEF SendersEnd, ReceiversEnd
<1> QED
  BY <1>7, <1>11, <1>12, <1>13, <1>14

(* The sender, and a user who closes stdin.                                *)
LEMMA UpKeeps ==
  RelaysIInv /\ (UserCloses \/ SenderReads \/ SenderWrites \/ SenderEnds) => RelaysIInv'
<1> SUFFICES ASSUME RelaysIInv, UserCloses \/ SenderReads \/ SenderWrites \/ SenderEnds
             PROVE  RelaysIInv'
  OBVIOUS
<1> USE DEF RelaysIInv
<1>1. CASE UserCloses
  <2>1. /\ UNCHANGED <<session, up, down, sender, receiver, shown, main, peer, said, heard>>
        /\ stdin'.left = stdin.left /\ stdin' \in [left : Bytes, ended : BOOLEAN] /\ session # {}
    BY <1>1 DEF UserCloses, RelaysTypes
  <2>2. RelaysTypes'
    BY <2>1 DEF RelaysTypes
  <2>3. AllGiven' /\ AllSaid' /\ Cuts' /\ SendersEnd'
    BY <2>1, SameSession DEF AllGiven, AllSaid, Cuts, SendersEnd
  <2>4. Echoes' /\ ReceiversEnd'
    BY <2>1, SameSession DEF Echoes, ReceiversEnd
  <2> QED
    BY <2>2, <2>3, <2>4
<1>2. CASE SenderReads
  <2>1. /\ UNCHANGED <<session, up, down, receiver, shown, main, peer, said, heard>>
        /\ sender.pc = "read" /\ session # {} /\ sender.chunk = <<>>
    BY <1>2 DEF SenderReads, Runs, RelaysTypes
  <2>2. stdin.left \in Bytes /\ heard \in Bytes /\ up.held \in Bytes
    BY DEF RelaysTypes
  <2>3. CASE /\ stdin.left # <<>> /\ sender' = Copy("write", <<Head(stdin.left)>>)
             /\ stdin' = [stdin EXCEPT !.left = Tail(@)]
    <3>1. /\ stdin.left = <<Head(stdin.left)>> \o Tail(stdin.left)
          /\ <<Head(stdin.left)>> \in Bytes /\ Tail(stdin.left) \in Bytes
      BY <2>2, <2>3, HeadAndTail DEF Bytes
    <3>2. /\ stdin' \in [left : Bytes, ended : BOOLEAN] /\ stdin'.left = Tail(stdin.left)
          /\ stdin'.left \in Bytes
      BY <2>3, <3>1 DEF RelaysTypes
    <3>3. /\ sender' \in [pc : {"read", "write", "close", "broken", "done"}, chunk : Bytes]
          /\ sender'.pc = "write" /\ sender'.chunk = <<Head(stdin.left)>> /\ sender'.chunk \in Bytes
      BY <2>3, <3>1 DEF Copy
    <3>4. sender'.chunk \o stdin'.left = sender.chunk \o stdin.left
      BY <2>1, <2>2, <3>1, <3>2, <3>3, BytesConcat
    <3>5. RelaysTypes'
      BY <2>1, <3>2, <3>3 DEF RelaysTypes
    <3>6. AllGiven'
      BY <2>1, <3>4, SameSession DEF AllGiven
    <3>7. AllSaid' /\ Cuts'
      BY <2>1 DEF AllSaid, Cuts
    <3>8. Echoes' /\ ReceiversEnd'
      BY <2>1, SameSession DEF Echoes, ReceiversEnd
    <3>9. SendersEnd'
      BY <2>1, <3>3 DEF SendersEnd
    <3> QED
      BY <3>5, <3>6, <3>7, <3>8, <3>9
  <2>4. CASE stdin.left = <<>> /\ sender' = Copy("close", <<>>) /\ UNCHANGED stdin
    <3>1. /\ sender' \in [pc : {"read", "write", "close", "broken", "done"}, chunk : Bytes]
          /\ sender'.pc = "close" /\ sender'.chunk = <<>>
      BY <2>4, NoBytes DEF Copy
    <3>2. RelaysTypes'
      BY <2>1, <2>4, <3>1, NoBytes DEF RelaysTypes
    <3>3. AllGiven'
      BY <2>1, <2>4, <3>1, SameSession DEF AllGiven
    <3>4. AllSaid' /\ Cuts'
      BY <2>1 DEF AllSaid, Cuts
    <3>5. Echoes' /\ ReceiversEnd'
      BY <2>1, SameSession DEF Echoes, ReceiversEnd
    <3>6. SendersEnd'
      BY <2>1, <2>4, <3>1 DEF SendersEnd
    <3> QED
      BY <3>2, <3>3, <3>4, <3>5, <3>6
  <2> QED
    BY <1>2, <2>3, <2>4 DEF SenderReads
<1>3. CASE SenderWrites
  <2>1. /\ UNCHANGED <<session, stdin, down, receiver, shown, main, peer, said, heard>>
        /\ sender.pc = "write" /\ session # {}
    BY <1>3 DEF SenderWrites, Runs
  <2>2. /\ stdin.left \in Bytes /\ heard \in Bytes /\ up.held \in Bytes /\ sender.chunk \in Bytes
        /\ ~up.ended
    BY <2>1 DEF RelaysTypes, SendersEnd
  <2>3. CASE ~peer.gone /\ up' = [up EXCEPT !.held = @ \o sender.chunk] /\ sender' = Copy("read", <<>>)
    <3>1. up.held \o sender.chunk \in Bytes
      BY <2>2, ConcatProperties DEF Bytes
    <3>2. /\ up' \in [held : Bytes, ended : BOOLEAN, cut : BOOLEAN] /\ up'.held = up.held \o sender.chunk
          /\ up'.ended = up.ended /\ up'.held \in Bytes
      BY <2>3, <3>1 DEF RelaysTypes
    <3>3. /\ sender' \in [pc : {"read", "write", "close", "broken", "done"}, chunk : Bytes]
          /\ sender'.pc = "read" /\ sender'.chunk = <<>>
      BY <2>3, NoBytes DEF Copy
    <3>4. (heard \o up.held) \o (sender.chunk \o stdin.left) = (heard \o up'.held) \o (sender'.chunk \o stdin.left)
      <4>1. (heard \o up.held) \o (sender.chunk \o stdin.left) = (heard \o (up.held \o sender.chunk)) \o stdin.left
        <5>1. sender.chunk \o stdin.left \in Bytes /\ heard \o up.held \in Bytes
          BY <2>2, BytesConcat
        <5>2. (heard \o up.held) \o (sender.chunk \o stdin.left)
                = ((heard \o up.held) \o sender.chunk) \o stdin.left
          BY <2>2, <5>1, BytesConcat
        <5>3. (heard \o up.held) \o sender.chunk = heard \o (up.held \o sender.chunk)
          BY <2>2, BytesConcat
        <5> QED
          BY <5>2, <5>3
      <4>2. <<>> \o stdin.left = stdin.left
        BY <2>2, BytesConcat
      <4>3. sender'.chunk \o stdin.left = stdin.left
        BY <3>3, <4>2
      <4>4. heard \o up'.held = heard \o (up.held \o sender.chunk)
        BY <3>2
      <4> QED
        BY <4>1, <4>3, <4>4, Zenon
    <3>5. RelaysTypes'
      BY <2>1, <3>2, <3>3, NoBytes DEF RelaysTypes
    <3>6. AllGiven'
      BY <2>1, <2>3, <3>4, SameSession DEF AllGiven
    <3>7. AllSaid' /\ Cuts'
      BY <2>1 DEF AllSaid, Cuts
    <3>8. Echoes' /\ ReceiversEnd'
      BY <2>1, <2>2, <3>2, SameSession DEF Echoes, ReceiversEnd
    <3>9. SendersEnd'
      BY <2>1, <2>2, <3>2, <3>3 DEF SendersEnd
    <3> QED
      BY <3>5, <3>6, <3>7, <3>8, <3>9
  <2>4. CASE peer.gone /\ sender' \in {Copy("read", <<>>), Copy("broken", <<>>)} /\ UNCHANGED up
    <3>1. /\ sender' \in [pc : {"read", "write", "close", "broken", "done"}, chunk : Bytes]
          /\ sender'.pc \in {"read", "broken"} /\ sender'.chunk = <<>>
      BY <2>4, NoBytes DEF Copy
    <3>2. RelaysTypes'
      BY <2>1, <2>4, <3>1, NoBytes DEF RelaysTypes
    <3>3. AllGiven'
      BY <2>1, <2>4, SameSession DEF AllGiven
    <3>4. AllSaid' /\ Cuts'
      BY <2>1 DEF AllSaid, Cuts
    <3>5. Echoes' /\ ReceiversEnd'
      BY <2>1, <2>4, SameSession DEF Echoes, ReceiversEnd
    <3>6. SendersEnd'
      BY <2>1, <2>2, <2>4, <3>1 DEF SendersEnd
    <3> QED
      BY <3>2, <3>3, <3>4, <3>5, <3>6
  <2> QED
    BY <1>3, <2>3, <2>4 DEF SenderWrites
<1>4. CASE SenderEnds
  <2>1. /\ UNCHANGED <<session, stdin, down, receiver, shown, peer, said, heard>>
        /\ sender.pc \in {"close", "broken"} /\ session # {} /\ main \in {"wait", "grace", "fault"}
    BY <1>4 DEF SenderEnds, Runs
  <2>2. sender.chunk = <<>>
    BY <2>1 DEF RelaysTypes
  <2>3. /\ sender' \in [pc : {"read", "write", "close", "broken", "done"}, chunk : Bytes]
        /\ sender'.pc = "done" /\ sender'.chunk = <<>>
    BY <1>4, NoBytes DEF SenderEnds, Copy
  <2>4. up' = up \/ up' = [up EXCEPT !.ended = TRUE]
    BY <1>4 DEF SenderEnds
  <2>5. /\ up' \in [held : Bytes, ended : BOOLEAN, cut : BOOLEAN] /\ up'.held = up.held
        /\ up.ended => up'.ended
    BY <2>4 DEF RelaysTypes
  <2>6. /\ main' \in {"grace", "fault", "failed", main}
        /\ main' \in {"grace", "fault"} => Relay = "microcom"
        /\ main' = "grace" => main # "fault"
    <3>1. CASE Relay = "microcom"
      <4>1. main' = Grace(sender.pc = "broken")
        BY <1>4, <3>1 DEF SenderEnds
      <4> QED
        BY <3>1, <4>1 DEF Grace
    <3>2. CASE Relay = "ssl" /\ sender.pc = "broken"
      <4>1. main' = "failed"
        BY <1>4, <3>2 DEF SenderEnds
      <4> QED
        BY <4>1
    <3>3. CASE Relay # "microcom" /\ ~(Relay = "ssl" /\ sender.pc = "broken")
      <4>1. main' = main
        BY <1>4, <3>3 DEF SenderEnds
      <4> QED
        BY <2>1, <3>3, <4>1 DEF ReceiversEnd
    <3> QED
      BY <3>1, <3>2, <3>3
  <2>7. RelaysTypes'
    BY <2>1, <2>3, <2>5, <2>6, NoBytes DEF RelaysTypes
  <2>8. AllGiven'
    BY <2>1, <2>2, <2>3, <2>5, SameSession DEF AllGiven
  <2>9. AllSaid' /\ Cuts'
    BY <2>1 DEF AllSaid, Cuts
  <2>10. Echoes'
    BY <2>1, <2>5, SameSession DEF Echoes
  <2>11. ReceiversEnd'
    BY <2>1, <2>6, SameSession DEF ReceiversEnd
  <2>12. SendersEnd'
    BY <2>1, <2>3 DEF SendersEnd
  <2> QED
    BY <2>7, <2>8, <2>9, <2>10, <2>11, <2>12
<1> QED
  BY <1>1, <1>2, <1>3, <1>4

(* The receiver, and the end of the grace period.                          *)
LEMMA DownKeeps ==
  RelaysIInv /\ (ReceiverReads \/ ReceiverWrites \/ RelayEnds) => RelaysIInv'
<1> SUFFICES ASSUME RelaysIInv, ReceiverReads \/ ReceiverWrites \/ RelayEnds PROVE RelaysIInv'
  OBVIOUS
<1> USE DEF RelaysIInv
<1>1. CASE ReceiverReads
  <2>1. /\ UNCHANGED <<session, stdin, up, sender, shown, peer, said, heard>>
        /\ receiver.pc = "read" /\ session # {} /\ receiver.chunk = <<>>
        /\ main \in {"wait", "grace", "fault"}
    BY <1>1 DEF ReceiverReads, Runs, RelaysTypes
  <2>2. shown \in Bytes /\ down.held \in Bytes
    BY DEF RelaysTypes
  <2>3. PICK lost \in Bytes :
          said = (shown \o receiver.chunk) \o (down.held \o lost) /\ (~down.cut => lost = <<>>)
    BY DEF AllSaid
  <2>4. CASE /\ down.held # <<>> /\ receiver' = Copy("write", <<Head(down.held)>>)
             /\ down' = [down EXCEPT !.held = Tail(@)] /\ UNCHANGED main
    <3>1. /\ down.held = <<Head(down.held)>> \o Tail(down.held)
          /\ <<Head(down.held)>> \in Bytes /\ Tail(down.held) \in Bytes
      BY <2>2, <2>4, HeadAndTail DEF Bytes
    <3>2. /\ down' \in [held : Bytes, ended : BOOLEAN, cut : BOOLEAN] /\ down'.held = Tail(down.held)
          /\ down'.ended = down.ended /\ down'.cut = down.cut /\ down'.held \in Bytes
      BY <2>4, <3>1 DEF RelaysTypes
    <3>3. /\ receiver' \in [pc : {"read", "write", "done"}, chunk : Bytes]
          /\ receiver'.pc = "write" /\ receiver'.chunk = <<Head(down.held)>> /\ receiver'.chunk \in Bytes
      BY <2>4, <3>1 DEF Copy
    <3>4. said = (shown \o receiver'.chunk) \o (down'.held \o lost)
      <4>1. shown \o <<>> = shown
        BY <2>2, BytesConcat
      <4>2. said = shown \o (down.held \o lost)
        BY <2>1, <2>3, <4>1
      <4>3. (shown \o receiver'.chunk) \o (down'.held \o lost)
              = shown \o (receiver'.chunk \o (down'.held \o lost))
        <5>1. down'.held \o lost \in Bytes
          BY <2>3, <3>2, BytesConcat
        <5> QED
          BY <2>2, <3>3, <5>1, BytesConcat
      <4>4. (receiver'.chunk \o down'.held) \o lost = receiver'.chunk \o (down'.held \o lost)
        <5>1. receiver'.chunk \in Bytes /\ down'.held \in Bytes /\ lost \in Bytes
          BY <2>3, <3>2, <3>3
        <5> QED
          BY <5>1, BytesConcat
      <4>5. receiver'.chunk \o down'.held = down.held
        BY <3>1, <3>2, <3>3
      <4> QED
        BY <4>2, <4>3, <4>4, <4>5, Zenon
    <3>5. RelaysTypes'
      BY <2>1, <2>4, <3>2, <3>3, NoBytes DEF RelaysTypes
    <3>6. AllSaid' /\ Cuts'
      BY <2>1, <2>3, <3>2, <3>4 DEF AllSaid, Cuts
    <3>7. AllGiven' /\ Echoes'
      BY <2>1, <3>2, SameSession DEF AllGiven, Echoes
    <3>8. SendersEnd' /\ ReceiversEnd'
      BY <2>1, <2>4, <3>3, SameSession DEF SendersEnd, ReceiversEnd
    <3> QED
      BY <3>5, <3>6, <3>7, <3>8
  <2>5. CASE /\ down.held = <<>> /\ (down.ended \/ down.cut) /\ receiver' = Copy("done", <<>>)
             /\ main' = (CASE Relay = "microcom" -> Grace(down.cut)
                           [] Relay # "microcom" /\ down.cut -> "failed"
                           [] OTHER -> "ok")
             /\ UNCHANGED down
    <3>1. /\ receiver' \in [pc : {"read", "write", "done"}, chunk : Bytes]
          /\ receiver'.pc = "done" /\ receiver'.chunk = <<>>
      BY <2>5, NoBytes DEF Copy
    <3>2. /\ main' \in {"grace", "fault", "failed", "ok"}
          /\ main' \in {"grace", "fault"} => Relay = "microcom"
          /\ main' \in {"grace", "ok"} => ~down.cut
      <4>1. CASE Relay = "microcom"
        <5>1. main' = Grace(down.cut)
          BY <2>5, <4>1
        <5> QED
          BY <4>1, <5>1 DEF Grace
      <4>2. CASE Relay # "microcom" /\ down.cut
        <5>1. main' = "failed"
          BY <2>5, <4>2
        <5> QED
          BY <5>1
      <4>3. CASE Relay # "microcom" /\ ~down.cut
        <5>1. main' = "ok"
          BY <2>5, <4>3
        <5> QED
          BY <4>3, <5>1
      <4> QED
        BY <4>1, <4>2, <4>3
    <3>3. main' \in {"grace", "ok"} => said = shown /\ down.ended
      <4>1. shown \o <<>> = shown /\ <<>> \o <<>> = <<>>
        BY <2>2, NoBytes, BytesConcat
      <4>2. ASSUME ~down.cut PROVE said = shown /\ down.ended
        <5>1. said = (shown \o <<>>) \o (<<>> \o <<>>)
          BY <2>1, <2>3, <2>5, <4>2
        <5> QED
          BY <2>5, <4>1, <4>2, <5>1
      <4> QED
        BY <3>2, <4>2
    <3>4. RelaysTypes'
      BY <2>1, <2>5, <3>1, <3>2, NoBytes DEF RelaysTypes
    <3>5. AllSaid' /\ Cuts'
      BY <2>1, <2>3, <2>5, <3>1 DEF AllSaid, Cuts
    <3>6. AllGiven' /\ Echoes'
      BY <2>1, <2>5, SameSession DEF AllGiven, Echoes
    <3>7. main' # "wait"
      BY <3>2
    <3>8. SendersEnd' /\ ReceiversEnd'
      BY <2>1, <2>5, <3>1, <3>2, <3>3, <3>7, SameSession DEF SendersEnd, ReceiversEnd
    <3> QED
      BY <3>4, <3>5, <3>6, <3>8
  <2> QED
    BY <1>1, <2>4, <2>5 DEF ReceiverReads
<1>2. CASE ReceiverWrites
  <2>1. /\ UNCHANGED <<session, stdin, up, down, sender, main, peer, said, heard>>
        /\ receiver.pc = "write" /\ session # {} /\ main # "ok"
        /\ shown' = shown \o receiver.chunk
    BY <1>2 DEF ReceiverWrites, Runs
  <2>2. /\ receiver' \in [pc : {"read", "write", "done"}, chunk : Bytes]
        /\ receiver'.pc = "read" /\ receiver'.chunk = <<>>
    BY <1>2, NoBytes DEF ReceiverWrites, Copy
  <2>3. shown' \in Bytes /\ shown' \o <<>> = shown'
    BY <2>1, ConcatProperties, ConcatEmptySeq DEF RelaysTypes, Bytes
  <2>4. RelaysTypes'
    BY <2>1, <2>2, <2>3, NoBytes DEF RelaysTypes
  <2>5. shown' \o receiver'.chunk = shown \o receiver.chunk
    BY <2>1, <2>2, <2>3
  <2>6. AllSaid' /\ Cuts'
    BY <2>1, <2>5 DEF AllSaid, Cuts
  <2>7. AllGiven' /\ Echoes'
    BY <2>1, SameSession DEF AllGiven, Echoes
  <2>8. SendersEnd' /\ ReceiversEnd'
    BY <2>1, <2>2, SameSession DEF SendersEnd, ReceiversEnd
  <2> QED
    BY <2>4, <2>6, <2>7, <2>8
<1>3. CASE RelayEnds
  <2>1. /\ UNCHANGED <<session, stdin, up, down, sender, receiver, shown, peer, said, heard>>
        /\ main \in {"grace", "fault"} /\ main' \in {"ok", "failed"}
        /\ main' = "ok" => main = "grace"
    BY <1>3 DEF RelayEnds
  <2>2. Relay = "microcom" /\ session # {}
    BY <2>1 DEF ReceiversEnd, RelaysTypes, RelaysInit
  <2>3. RelaysTypes'
    BY <2>1, <2>2 DEF RelaysTypes
  <2>4. AllGiven' /\ Echoes'
    BY <2>1, SameSession DEF AllGiven, Echoes
  <2>5. AllSaid' /\ Cuts' /\ SendersEnd'
    BY <2>1 DEF AllSaid, Cuts, SendersEnd
  <2>6. ReceiversEnd'
    BY <2>1, <2>2, SameSession DEF ReceiversEnd
  <2> QED
    BY <2>3, <2>4, <2>5, <2>6
<1> QED
  BY <1>1, <1>2, <1>3

(* The peer.                                                               *)
LEMMA PeerKeeps ==
  RelaysIInv /\ (PeerReads \/ PeerSays \/ PeerCloses \/ PeerGoes) => RelaysIInv'
<1> SUFFICES ASSUME RelaysIInv, PeerReads \/ PeerSays \/ PeerCloses \/ PeerGoes PROVE RelaysIInv'
  OBVIOUS
<1> USE DEF RelaysIInv
<1>1. CASE PeerReads
  <2>1. /\ UNCHANGED <<session, stdin, down, sender, receiver, shown, main, said>>
        /\ session # {} /\ ~peer.gone /\ up.held # <<>> /\ peer.hand = <<>>
        /\ heard' = heard \o <<Head(up.held)>>
        /\ up' = [up EXCEPT !.held = Tail(@)]
        /\ peer' = [peer EXCEPT !.hand = IF IsEcho THEN <<Head(up.held)>> ELSE <<>>]
    BY <1>1 DEF PeerReads
  <2>2. /\ up.held \in Bytes /\ heard \in Bytes /\ said \in Bytes
        /\ sender.chunk \in Bytes /\ stdin.left \in Bytes
    BY DEF RelaysTypes
  <2>3. /\ up.held = <<Head(up.held)>> \o Tail(up.held)
        /\ <<Head(up.held)>> \in Bytes /\ Tail(up.held) \in Bytes
    BY <2>1, <2>2, HeadAndTail DEF Bytes
  <2>4. /\ up' \in [held : Bytes, ended : BOOLEAN, cut : BOOLEAN] /\ up'.held = Tail(up.held)
        /\ up'.ended = up.ended /\ up'.held \in Bytes
    BY <2>1, <2>3 DEF RelaysTypes
  <2>5. /\ peer' \in [left : Bytes, hand : Bytes, gone : BOOLEAN]
        /\ peer'.hand = (IF IsEcho THEN <<Head(up.held)>> ELSE <<>>)
        /\ peer'.left = peer.left /\ peer'.gone = peer.gone /\ peer'.hand \in Bytes
    <3>1. (IF IsEcho THEN <<Head(up.held)>> ELSE <<>>) \in Bytes
      BY <2>3, NoBytes
    <3> QED
      BY <2>1, <3>1 DEF RelaysTypes
  <2>6. heard' \in Bytes
    BY <2>1, <2>2, <2>3, ConcatProperties DEF Bytes
  <2>7. RelaysTypes'
    BY <2>1, <2>4, <2>5, <2>6 DEF RelaysTypes
  <2>8. heard' \o up'.held = heard \o up.held
    <3>1. heard \o (<<Head(up.held)>> \o Tail(up.held)) = (heard \o <<Head(up.held)>>) \o Tail(up.held)
      <4>1. heard \in Bytes /\ <<Head(up.held)>> \in Bytes /\ Tail(up.held) \in Bytes
        BY <2>2, <2>3
      <4> QED
        BY <4>1, BytesConcat
    <3> QED
      BY <2>1, <2>3, <2>4, <3>1
  <2>9. AllGiven'
    <3>1. Given = (heard' \o up'.held) \o (sender.chunk \o stdin.left)
      BY <2>1, <2>8 DEF AllGiven
    <3>2. /\ Given = heard' \o (up'.held \o (sender.chunk \o stdin.left))
          /\ up'.held \o (sender.chunk \o stdin.left) \in Bytes
      <4>1. sender.chunk \o stdin.left \in Bytes
        BY <2>2, BytesConcat
      <4>2. up'.held \o (sender.chunk \o stdin.left) \in Bytes
        BY <2>4, <4>1, BytesConcat
      <4>3. (heard' \o up'.held) \o (sender.chunk \o stdin.left)
              = heard' \o (up'.held \o (sender.chunk \o stdin.left))
        BY <2>4, <2>6, <4>1, BytesConcat
      <4> QED
        BY <3>1, <4>2, <4>3
    <3> QED
      BY <2>1, <2>5, <3>1, <3>2, SameSession DEF AllGiven
  <2>10. AllSaid' /\ Cuts' /\ SendersEnd'
    BY <2>1, <2>4, <2>5 DEF AllSaid, Cuts, SendersEnd
  <2>11. Echoes'
    <3>1. ASSUME IsEcho PROVE heard' = said \o peer'.hand
      <4>1. heard = said \o <<>> /\ said \o <<>> = said
        BY <2>1, <2>2, <3>1, ConcatEmptySeq DEF Echoes, Bytes
      <4>2. peer'.hand = <<Head(up.held)>>
        BY <2>5, <3>1
      <4> QED
        BY <2>1, <4>1, <4>2
    <3>2. IsEcho => ~down.ended
      BY <2>1 DEF Echoes
    <3> QED
      BY <2>1, <2>5, <3>1, <3>2, SameSession DEF Echoes
  <2>12. ReceiversEnd'
    BY <2>1, <2>5, SameSession DEF ReceiversEnd
  <2> QED
    BY <2>7, <2>9, <2>10, <2>11, <2>12
<1>2. ASSUME NEW chunk \in Bytes, Says(chunk), Room, session # {},
             UNCHANGED <<session, stdin, up, sender, receiver, shown, main, heard>>,
             peer' \in [left : Bytes, hand : Bytes, gone : BOOLEAN],
             peer'.left \in Bytes, peer'.hand \in Bytes, peer'.gone = peer.gone,
             IsEcho => peer.hand = chunk /\ peer'.hand = <<>>
      PROVE  RelaysIInv'
  <2>1. down' = [down EXCEPT !.held = @ \o chunk] /\ said' = said \o chunk
    BY <1>2 DEF Says
  <2>2. ~peer.gone /\ ~down.ended
    BY <1>2 DEF Room
  <2>3. /\ down.held \in Bytes /\ said \in Bytes /\ shown \in Bytes /\ receiver.chunk \in Bytes
    BY DEF RelaysTypes
  <2>4. down.held \o chunk \in Bytes /\ said' \in Bytes
    BY <2>1, <2>3, <1>2, ConcatProperties DEF Bytes
  <2>5. /\ down' \in [held : Bytes, ended : BOOLEAN, cut : BOOLEAN] /\ down'.held = down.held \o chunk
        /\ down'.ended = down.ended /\ down'.cut = down.cut /\ down'.held \in Bytes
    BY <2>1, <2>4 DEF RelaysTypes
  <2>6. RelaysTypes'
    BY <1>2, <2>4, <2>5 DEF RelaysTypes
  <2>7. AllSaid'
    <3>1. ~down.cut
      BY <2>2 DEF Cuts
    <3>2. said = (shown \o receiver.chunk) \o (down.held \o <<>>)
      BY <3>1 DEF AllSaid
    <3>3. down.held \o <<>> = down.held /\ down'.held \o <<>> = down'.held
      BY <2>3, <2>5, BytesConcat
    <3>4. ((shown \o receiver.chunk) \o down.held) \o chunk = (shown \o receiver.chunk) \o (down.held \o chunk)
      <4>1. shown \o receiver.chunk \in Bytes
        BY <2>3, BytesConcat
      <4>2. down.held \in Bytes /\ chunk \in Bytes
        BY <2>3
      <4> QED
        BY <4>1, <4>2, BytesConcat
    <3>5. said' = (shown \o receiver.chunk) \o (down'.held \o <<>>)
      BY <2>1, <2>5, <3>2, <3>3, <3>4
    <3> QED
      BY <1>2, <3>5, NoBytes DEF AllSaid
  <2>8. AllGiven' /\ Cuts' /\ SendersEnd'
    BY <1>2, <2>2, <2>5, SameSession DEF AllGiven, Cuts, SendersEnd
  <2>9. Echoes'
    <3>1. ASSUME IsEcho PROVE heard' = said' \o peer'.hand
      <4>1. heard = said \o chunk
        BY <1>2, <3>1 DEF Echoes
      <4>2. said' \o <<>> = said'
        BY <2>4, BytesConcat
      <4> QED
        BY <1>2, <2>1, <3>1, <4>1, <4>2
    <3> QED
      BY <1>2, <2>2, <2>5, <3>1, SameSession DEF Echoes
  <2>10. ReceiversEnd'
    BY <1>2, <2>2, SameSession DEF ReceiversEnd
  <2> QED
    BY <2>6, <2>7, <2>8, <2>9, <2>10
<1>3. CASE PeerSays
  <2>1. /\ UNCHANGED <<session, stdin, up, sender, receiver, shown, main, heard>>
        /\ session # {} /\ Room
    BY <1>3 DEF PeerSays
  <2>2. peer.left \in Bytes /\ peer.hand \in Bytes
    BY DEF RelaysTypes
  <2>3. CASE /\ IsEcho /\ peer.hand # <<>> /\ Says(peer.hand)
             /\ peer' = [peer EXCEPT !.hand = <<>>]
    <3>1. /\ peer' \in [left : Bytes, hand : Bytes, gone : BOOLEAN] /\ peer'.left = peer.left
          /\ peer'.hand = <<>> /\ peer'.gone = peer.gone
      BY <2>3, NoBytes DEF RelaysTypes
    <3> QED
      BY <1>2, <2>1, <2>2, <2>3, <3>1, NoBytes
  <2>4. CASE /\ ~IsEcho /\ peer.left # <<>> /\ Says(<<Head(peer.left)>>)
             /\ peer' = [peer EXCEPT !.left = Tail(@)]
    <3>1. <<Head(peer.left)>> \in Bytes /\ Tail(peer.left) \in Bytes
      BY <2>2, <2>4, HeadAndTail DEF Bytes
    <3>2. /\ peer' \in [left : Bytes, hand : Bytes, gone : BOOLEAN] /\ peer'.left = Tail(peer.left)
          /\ peer'.hand = peer.hand /\ peer'.gone = peer.gone
      BY <2>4, <3>1 DEF RelaysTypes
    <3> QED
      BY <1>2, <2>1, <2>2, <2>4, <3>1, <3>2
  <2> QED
    BY <1>3, <2>3, <2>4 DEF PeerSays
<1>4. CASE PeerCloses
  <2>1. /\ UNCHANGED <<session, stdin, up, sender, receiver, shown, main, peer, said, heard>>
        /\ session # {} /\ ~peer.gone /\ ~down.ended
        /\ IsEcho => up.ended /\ up.held = <<>> /\ peer.hand = <<>>
        /\ down' = [down EXCEPT !.ended = TRUE]
    BY <1>4 DEF PeerCloses
  <2>2. /\ down' \in [held : Bytes, ended : BOOLEAN, cut : BOOLEAN] /\ down'.held = down.held
        /\ down'.ended /\ down'.cut = down.cut
    BY <2>1 DEF RelaysTypes
  <2>3. RelaysTypes'
    BY <2>1, <2>2 DEF RelaysTypes
  <2>4. AllSaid' /\ Cuts' /\ SendersEnd'
    BY <2>1, <2>2 DEF AllSaid, Cuts, SendersEnd
  <2>5. AllGiven' /\ Echoes' /\ ReceiversEnd'
    BY <2>1, <2>2, SameSession DEF AllGiven, Echoes, ReceiversEnd
  <2> QED
    BY <2>3, <2>4, <2>5
<1>5. CASE PeerGoes
  <2>1. /\ UNCHANGED <<session, stdin, up, sender, receiver, shown, main, said, heard>>
        /\ session # {} /\ ~IsEcho /\ ~peer.gone /\ peer' = [peer EXCEPT !.gone = TRUE]
    BY <1>5 DEF PeerGoes
  <2>2. /\ peer' \in [left : Bytes, hand : Bytes, gone : BOOLEAN] /\ peer'.gone
        /\ peer'.left = peer.left /\ peer'.hand = peer.hand
    BY <2>1 DEF RelaysTypes
  <2>3. ~down.cut /\ down.held \in Bytes
    BY <2>1 DEF Cuts, RelaysTypes
  <2>4. AllGiven' /\ SendersEnd'
    BY <2>1, <2>2, SameSession DEF AllGiven, SendersEnd
  <2>5. Echoes'
    BY <2>1, SameSession DEF Echoes
  <2>6. Cuts'
    BY <2>2 DEF Cuts
  <2>7. CASE up.held = <<>> /\ down' = [down EXCEPT !.ended = TRUE]
    <3>1. /\ down' \in [held : Bytes, ended : BOOLEAN, cut : BOOLEAN] /\ down'.held = down.held
          /\ down'.ended /\ down'.cut = down.cut
      BY <2>7 DEF RelaysTypes
    <3>2. RelaysTypes'
      BY <2>1, <2>2, <3>1 DEF RelaysTypes
    <3>3. AllSaid'
      BY <2>1, <3>1 DEF AllSaid
    <3>4. ReceiversEnd'
      BY <2>1, <2>2, <3>1, SameSession DEF ReceiversEnd
    <3> QED
      BY <2>4, <2>5, <2>6, <3>2, <3>3, <3>4
  <2>8. ASSUME NEW n \in 0 .. Len(down.held),
               down' = [held |-> SubSeq(down.held, 1, n), ended |-> FALSE, cut |-> TRUE]
        PROVE  RelaysIInv'
    <3>1. PICK t \in Bytes : down.held = SubSeq(down.held, 1, n) \o t /\ SubSeq(down.held, 1, n) \in Bytes
      BY <2>3, SplitInTwo DEF Bytes
    <3>2. /\ down' \in [held : Bytes, ended : BOOLEAN, cut : BOOLEAN]
          /\ down'.held \in Bytes /\ down.held = down'.held \o t /\ down'.cut
      BY <2>8, <3>1
    <3>3. RelaysTypes'
      BY <2>1, <2>2, <3>2 DEF RelaysTypes
    <3>4. AllSaid'
      <4>1. said = (shown \o receiver.chunk) \o (down.held \o <<>>) /\ down.held \o <<>> = down.held
        BY <2>3, ConcatEmptySeq DEF AllSaid, Bytes
      <4>2. said = (shown \o receiver.chunk) \o (down'.held \o t)
        BY <3>2, <4>1
      <4> QED
        BY <2>1, <3>2, <4>2 DEF AllSaid
    <3>5. down.held = <<>> => down'.held = <<>>
      <4>1. SubSeq(down.held, 1, n) \in Seq(Carried) /\ t \in Seq(Carried)
        BY <3>1 DEF Bytes
      <4>2. SubSeq(down.held, 1, n) \o t = <<>> => SubSeq(down.held, 1, n) = <<>>
        BY <4>1, ConcatEqualIffEmpty
      <4> QED
        BY <2>8, <3>1, <4>2
    <3>6. ReceiversEnd'
      BY <2>1, <2>2, <3>5, SameSession DEF ReceiversEnd
    <3> QED
      BY <2>4, <2>5, <2>6, <3>3, <3>4, <3>6
  <2> QED
    BY <1>5, <2>7, <2>8 DEF PeerGoes
<1> QED
  BY <1>1, <1>3, <1>4, <1>5

LEMMA RelaysInvariant == RelaysIInv => RelaysDeliver
<1> SUFFICES ASSUME RelaysIInv PROVE RelaysDeliver
  OBVIOUS
<1> USE DEF RelaysIInv
<1>1. IsPrefix(shown, said)
  <2>1. PICK lost \in Bytes : said = (shown \o receiver.chunk) \o (down.held \o lost)
    BY DEF AllSaid
  <2>2. /\ said = shown \o (receiver.chunk \o (down.held \o lost))
        /\ receiver.chunk \o (down.held \o lost) \in Bytes
    <3>1. /\ shown \in Bytes /\ receiver.chunk \in Bytes /\ down.held \o lost \in Bytes
      BY BytesConcat DEF RelaysTypes
    <3>2. /\ (shown \o receiver.chunk) \o (down.held \o lost)
               = shown \o (receiver.chunk \o (down.held \o lost))
          /\ receiver.chunk \o (down.held \o lost) \in Bytes
      BY <3>1, BytesConcat
    <3> QED
      BY <2>1, <3>2
  <2> QED
    BY <2>2, BytesPrefix DEF RelaysTypes
<1>2. ASSUME session # {} PROVE IsPrefix(heard, Given)
  <2>1. PICK rest \in Bytes : Given = heard \o rest
    BY <1>2 DEF AllGiven
  <2>2. heard \in Bytes
    BY DEF RelaysTypes
  <2>3. IsPrefix(heard, heard \o rest)
    BY <2>2, BytesPrefix
  <2> QED
    BY <2>1, <2>3
<1>3. main = "ok" /\ (Relay # "microcom" \/ BothDone) => shown = said
  BY DEF ReceiversEnd, BothDone
<1>4. ASSUME main = "ok", Relay # "microcom", IsEcho PROVE shown = Given
  <2>1. said = shown /\ down.ended /\ session # {}
    BY <1>4 DEF ReceiversEnd, RelaysTypes, RelaysInit
  <2>2. ~peer.gone /\ heard = said \o <<>> /\ up.ended /\ up.held = <<>>
    BY <1>4, <2>1 DEF Echoes
  <2>3. stdin.left = <<>> /\ sender.chunk = <<>>
    BY <2>2 DEF SendersEnd, RelaysTypes
  <2>4. Given = (heard \o <<>>) \o (<<>> \o <<>>)
    BY <2>1, <2>2, <2>3 DEF AllGiven
  <2>5. heard \o <<>> = heard /\ said \o <<>> = said /\ <<>> \o <<>> = <<>>
    BY NoBytes, BytesConcat DEF RelaysTypes
  <2> QED
    BY <2>1, <2>2, <2>4, <2>5
<1> QED
  BY <1>1, <1>2, <1>3, <1>4 DEF RelaysDeliver

(* Nothing is shown that was not said, in this order, and success means    *)
(* that everything was delivered, whatever the order in which the copies   *)
(* and the peer go on and whenever a peer hangs up.                        *)
THEOREM RelaysDeliverAll == RelaysSpec => []RelaysDeliver
<1>1. ASSUME RelaysIInv, UNCHANGED rvars PROVE RelaysIInv'
  <2>1. RelaysTypes'
    BY <1>1 DEF rvars, RelaysIInv, RelaysTypes, RelaysInit
  <2>2. AllGiven' /\ AllSaid' /\ Cuts' /\ SendersEnd'
    BY <1>1, SameSession DEF rvars, RelaysIInv, AllGiven, AllSaid, Cuts, SendersEnd
  <2>3. Echoes' /\ ReceiversEnd'
    BY <1>1, SameSession DEF rvars, RelaysIInv, Echoes, ReceiversEnd
  <2> QED
    BY <2>1, <2>2, <2>3 DEF RelaysIInv
<1>2. RelaysIInv /\ [RelaysNext]_rvars => RelaysIInv'
  BY <1>1, ConnectKeeps, UpKeeps, DownKeeps, PeerKeeps DEF RelaysNext
<1> QED
  BY <1>2, RelaysBegin, RelaysInvariant, PTL DEF RelaysSpec

-----------------------------------------------------------------------------
(* Numbers, functions defined by recursion, sequences. *)

(* A set of numbers has a least.                                           *)
LEMMA LeastNat ==
  ASSUME NEW T, T \subseteq Nat, T # {}
  PROVE  \E x \in T : \A y \in T : x <= y
<1> DEFINE R == {ss \in Nat \X Nat : ss[1] < ss[2]}
<1>1. OpToRel(<, Nat) = R
  BY Zenon DEF OpToRel
<1>2. IsWellFoundedOn(R, Nat)
  BY <1>1, NatLessThanWellFounded, Zenon
<1> HIDE DEF R
<1>3. PICK x \in T : \A y \in T : <<y, x>> \notin R
  BY <1>2, WFMin
<1>4. \A y \in T : ~(y < x)
  BY <1>3 DEF R
<1> QED
  BY <1>4

(* Induction up to a number.                                               *)
LEMMA UpTo ==
  ASSUME NEW N \in Nat, NEW P, 0 \in P, \A j \in 1 .. N : j - 1 \in P => j \in P
  PROVE  0 .. N \subseteq P
<1> DEFINE T == (0 .. N) \ P
<1> SUFFICES ASSUME T # {} PROVE FALSE
  OBVIOUS
<1>1. PICK x \in T : \A y \in T : x <= y
  <2>1. T \subseteq Nat
    OBVIOUS
  <2> HIDE DEF T
  <2> QED BY <2>1, LeastNat
<1>2. x \in 1 .. N /\ x - 1 \in 0 .. N /\ ~(x <= x - 1)
  OBVIOUS
<1> QED BY <1>1, <1>2

(* Functions defined by recursion on 0 .. N: a definition of one says      *)
(* nothing until such a function is known to exist.                        *)

(* A function on 0 .. N may be given by its first value and the step from  *)
(* each value to the next.                                                 *)
Steps(f, S, N, a, G) ==
  f \in [0 .. N -> S] /\ f[0] = a /\ \A j \in 1 .. N : f[j] = G[<<f[j - 1], j>>]

LEMMA RecursionExists ==
  ASSUME NEW N \in Nat, NEW S, NEW a \in S, NEW G \in [S \X (1 .. N) -> S]
  PROVE  \E f : Steps(f, S, N, a, G)
<1> DEFINE P == {n \in 0 .. N : \E f : Steps(f, S, n, a, G)}
<1>1. 0 \in P
  <2> DEFINE f == [j \in 0 .. 0 |-> a]
  <2>1. Steps(f, S, 0, a, G)
    BY DEF Steps
  <2> QED BY <2>1
<1>2. ASSUME NEW j \in 1 .. N, j - 1 \in P PROVE j \in P
  <2>1. PICK f : Steps(f, S, j - 1, a, G)
    BY <1>2
  <2> DEFINE g == [k \in 0 .. j |-> IF k = j THEN G[<<f[j - 1], j>>] ELSE f[k]]
  <2>2. f \in [0 .. j - 1 -> S] /\ f[0] = a /\ \A k \in 1 .. j - 1 : f[k] = G[<<f[k - 1], k>>]
    BY <2>1 DEF Steps
  <2>3. f[j - 1] \in S /\ <<f[j - 1], j>> \in S \X (1 .. N)
    BY <2>2
  <2>4. g \in [0 .. j -> S] /\ g[0] = a
    BY <2>2, <2>3
  <2>5. ASSUME NEW k \in 1 .. j PROVE g[k] = G[<<g[k - 1], k>>]
    <3>1. CASE k = j
      <4>1. k \in 0 .. j /\ k - 1 \in 0 .. j /\ k - 1 # j
        BY <3>1
      <4>2. g[k] = G[<<f[j - 1], j>>] /\ g[k - 1] = f[k - 1]
        BY <3>1, <4>1
      <4> QED BY <3>1, <4>2
    <3>2. CASE k # j
      <4>1. k \in 1 .. j - 1 /\ k - 1 \in 0 .. j /\ k - 1 # j /\ k \in 0 .. j
        BY <3>2
      <4>2. g[k] = f[k] /\ g[k - 1] = f[k - 1]
        BY <4>1
      <4> QED BY <2>2, <4>1, <4>2
    <3> QED BY <3>1, <3>2
  <2>6. Steps(g, S, j, a, G)
    <3> HIDE DEF g
    <3> QED BY <2>4, <2>5 DEF Steps
  <2> QED BY <2>6
<1> HIDE DEF P
<1>3. 0 .. N \subseteq P
  BY <1>1, <1>2, UpTo
<1> QED BY <1>3 DEF P

(* A sequence that is longer by one.                                       *)
LEMMA AppendFacts ==
  ASSUME NEW S, NEW s \in Seq(S), NEW x \in S
  PROVE  /\ Append(s, x) \in Seq(S) /\ Append(s, x) # <<>> /\ Last(Append(s, x)) = x
         /\ Len(s) \in Nat /\ Len(Append(s, x)) = Len(s) + 1
         /\ DOMAIN s = 1 .. Len(s) /\ DOMAIN Append(s, x) = 1 .. Len(s) + 1
         /\ \A k \in 1 .. Len(s) : Append(s, x)[k] = s[k]
         /\ Append(s, x)[Len(s) + 1] = x
  BY DEF Last

-----------------------------------------------------------------------------
(* mbsh: parsing. *)

(* The total of a sequence, one member after the other.                    *)
LEMMA TotalSteps ==
  ASSUME NEW v \in Seq(Int)
  PROVE  \E f \in [0 .. Len(v) -> Int] :
            /\ Total(v) = f[Len(v)] /\ f[0] = 0
            /\ \A j \in 1 .. Len(v) : f[j] = f[j - 1] + v[j]
<1> DEFINE N == Len(v)
           S == Int
           val(j) == v[j]
           G == [z \in S \X (1 .. N) |-> z[1] + val(z[2])]
<1>1. N \in Nat /\ \A j \in 1 .. N : val(j) \in Int
  OBVIOUS
<1> HIDE DEF N, val
<1>2. PICK f : Steps(f, S, N, 0, G)
  <2>1. G \in [S \X (1 .. N) -> S] /\ 0 \in S
    BY <1>1
  <2> HIDE DEF G, S
  <2> QED BY <1>1, <2>1, RecursionExists
<1>3. f \in [0 .. N -> Int] /\ f[0] = 0 /\ \A j \in 1 .. N : f[j] = f[j - 1] + val(j)
  <2>1. f \in [0 .. N -> Int] /\ f[0] = 0 /\ \A j \in 1 .. N : f[j] = G[<<f[j - 1], j>>]
    BY <1>2, Zenon DEF Steps
  <2>2. ASSUME NEW j \in 1 .. N PROVE f[j] = f[j - 1] + val(j)
    <3>1. f[j - 1] \in Int
      BY <1>1, <2>1
    <3> QED BY <2>1, <3>1
  <2> QED BY <2>1, <2>2
<1> DEFINE Fix(h) == h = [j \in 0 .. N |-> IF j = 0 THEN 0 ELSE h[j - 1] + val(j)]
           t == CHOOSE h : Fix(h)
<1>4. Fix(f)
  BY <1>1, <1>3
<1>5. Fix(t)
  <2> HIDE DEF Fix
  <2> QED BY <1>4
<1>6. Total(v) = t[N]
  BY DEF Total, N, val
<1>7. \A h : Fix(h) => /\ h[0] = 0 /\ \A j \in 1 .. N : h[j] = h[j - 1] + val(j)
                       /\ h = [j \in 0 .. N |-> h[j]]
  <2> SUFFICES ASSUME NEW h, Fix(h)
               PROVE  /\ h[0] = 0 /\ \A j \in 1 .. N : h[j] = h[j - 1] + val(j)
                      /\ h = [j \in 0 .. N |-> h[j]]
    OBVIOUS
  <2>1. 0 \in 0 .. N /\ \A j \in 1 .. N : j \in 0 .. N /\ j # 0
    BY <1>1
  <2>2. h = [j \in 0 .. N |-> h[j]]
    BY Zenon
  <2>3. h[0] = 0
    BY <2>1
  <2>4. \A j \in 1 .. N : h[j] = h[j - 1] + val(j)
    BY <2>1
  <2> QED BY <2>2, <2>3, <2>4
<1> HIDE DEF Fix, t
<1>8. \A j \in 0 .. N : t[j] \in Int
  <2> DEFINE P == {j \in 0 .. N : t[j] \in Int}
  <2>1. 0 \in P /\ \A j \in 1 .. N : j - 1 \in P => j \in P
    BY <1>1, <1>5, <1>7
  <2> HIDE DEF P
  <2>2. 0 .. N \subseteq P
    BY <1>1, <2>1, UpTo
  <2> QED BY <2>2 DEF P
<1>9. t \in [0 .. N -> Int]
  BY <1>5, <1>7, <1>8
<1> QED BY <1>5, <1>6, <1>7, <1>9 DEF N, val

LEMMA TotalOfNone == Total(<<>>) = 0
<1>1. <<>> \in Seq(Int) /\ Len(<<>>) = 0
  OBVIOUS
<1> QED BY <1>1, TotalSteps

LEMMA TotalOfMore ==
  ASSUME NEW v \in Seq(Int), NEW x \in Int
  PROVE  Total(v) \in Int /\ Total(Append(v, x)) = Total(v) + x
<1> DEFINE N == Len(v)
           longer == Append(v, x)
<1>1. /\ N \in Nat /\ longer \in Seq(Int) /\ Len(longer) = N + 1 /\ longer[N + 1] = x
      /\ \A j \in 1 .. N : longer[j] = v[j]
  OBVIOUS
<1>2. PICK f \in [0 .. N -> Int] :
        /\ Total(v) = f[N] /\ f[0] = 0 /\ \A j \in 1 .. N : f[j] = f[j - 1] + longer[j]
  BY <1>1, TotalSteps
<1>3. PICK g \in [0 .. N + 1 -> Int] :
        /\ Total(longer) = g[N + 1] /\ g[0] = 0
        /\ \A j \in 1 .. N + 1 : g[j] = g[j - 1] + longer[j]
  BY <1>1, TotalSteps
<1> HIDE DEF N, longer
<1>4. f[N] = g[N]
  <2> DEFINE P == {j \in 0 .. N : f[j] = g[j]}
  <2>1. 0 \in P /\ \A j \in 1 .. N : j - 1 \in P => j \in P
    BY <1>1, <1>2, <1>3
  <2> HIDE DEF P
  <2>2. 0 .. N \subseteq P
    BY <1>1, <2>1, UpTo
  <2> QED BY <1>1, <2>2 DEF P
<1>5. (N + 1) - 1 = N /\ N + 1 \in 1 .. N + 1 /\ N \in 0 .. N
  BY <1>1
<1>6. g[N + 1] = g[N] + x
  BY <1>1, <1>3, <1>5
<1> QED BY <1>2, <1>3, <1>4, <1>5, <1>6 DEF longer

(* What is counted of a line while it is read.                             *)
LEMMA OccurrenceSteps ==
  ASSUME NEW t \in Seq(Ops \cup Words), NEW kinds
  PROVE  \E f \in [0 .. Len(t) -> Int] :
            /\ Occurrences(t, kinds) = f[Len(t)] /\ f[0] = 0
            /\ \A j \in 1 .. Len(t) : f[j] = f[j - 1] + (IF t[j] \in kinds THEN 1 ELSE 0)
<1> DEFINE v == [i \in DOMAIN t |-> IF t[i] \in kinds THEN 1 ELSE 0]
<1>1. v \in Seq(Int) /\ Len(v) = Len(t) /\ \A j \in 1 .. Len(t) : v[j] = IF t[j] \in kinds THEN 1 ELSE 0
  OBVIOUS
<1>2. Occurrences(t, kinds) = Total(v)
  BY Zenon DEF Occurrences
<1> HIDE DEF v
<1>3. PICK f \in [0 .. Len(t) -> Int] :
        Total(v) = f[Len(t)] /\ f[0] = 0 /\ \A j \in 1 .. Len(t) : f[j] = f[j - 1] + v[j]
  BY <1>1, TotalSteps
<1>4. \A j \in 1 .. Len(t) : f[j] = f[j - 1] + (IF t[j] \in kinds THEN 1 ELSE 0)
  BY <1>1, <1>3
<1> QED BY <1>2, <1>3, <1>4

(* What parse has at hand, and what it has counted.                        *)
Commands  == [args : Seq(Words), assigns : Nat, redirs : Seq(RedirOps \X Words)]
Pipelines == Seq(Commands)
Parses ==
  [list : Seq(Pipelines), pl : Pipelines, cmd : Commands, op : RedirOps \cup {"none"}, ok : BOOLEAN]
WordsOfList(pls) == Total([i \in DOMAIN pls |-> WordsOfPipeline(pls[i])])
BarsOfList(pls)  == Total([i \in DOMAIN pls |-> Len(pls[i]) - 1])

LEMMA CommandFacts ==
  /\ NoCommand \in Commands /\ WordsOf(NoCommand) = 0
  /\ \A c \in Commands : WordsOf(c) \in Int
  BY DEF Commands, NoCommand, WordsOf

LEMMA PipelineGrows ==
  ASSUME NEW pl \in Pipelines, NEW c \in Commands
  PROVE  /\ WordsOfPipeline(pl) \in Int /\ WordsOfPipeline(<<>>) = 0
         /\ Append(pl, c) \in Pipelines /\ Append(pl, c) # <<>> /\ Len(Append(pl, c)) = Len(pl) + 1
         /\ Len(pl) \in Nat /\ <<>> \in Pipelines /\ Len(<<>>) = 0
         /\ WordsOfPipeline(Append(pl, c)) = WordsOfPipeline(pl) + WordsOf(c)
<1> DEFINE v == [i \in DOMAIN pl |-> WordsOf(pl[i])]
           longer == Append(pl, c)
           w == [i \in DOMAIN longer |-> WordsOf(longer[i])]
<1>1. /\ longer \in Pipelines /\ longer # <<>> /\ Len(longer) = Len(pl) + 1 /\ Len(pl) \in Nat
      /\ <<>> \in Pipelines /\ Len(<<>>) = 0
      /\ DOMAIN pl = 1 .. Len(pl) /\ DOMAIN longer = 1 .. Len(pl) + 1 /\ longer[Len(pl) + 1] = c
      /\ \A i \in 1 .. Len(pl) : longer[i] = pl[i] /\ pl[i] \in Commands
  BY DEF Pipelines
<1> HIDE DEF longer
<1>2. v \in Seq(Int)
  BY <1>1, CommandFacts
<1>3. WordsOf(c) \in Int
  BY CommandFacts
<1>4. w = Append(v, WordsOf(c))
  BY <1>1
<1>5. WordsOfPipeline(pl) = Total(v) /\ WordsOfPipeline(longer) = Total(w)
  BY Zenon DEF WordsOfPipeline
<1>6. WordsOfPipeline(<<>>) = 0
  <2>1. [i \in DOMAIN <<>> |-> WordsOf(<<>>[i])] = <<>>
    OBVIOUS
  <2> QED BY <2>1, TotalOfNone DEF WordsOfPipeline
<1> HIDE DEF v, w
<1> QED BY <1>1, <1>2, <1>3, <1>4, <1>5, <1>6, TotalOfMore DEF longer

LEMMA ListGrows ==
  ASSUME NEW pls \in Seq(Pipelines), NEW pl \in Pipelines
  PROVE  /\ WordsOfList(pls) \in Int /\ WordsOfList(<<>>) = 0
         /\ BarsOfList(pls) \in Int /\ BarsOfList(<<>>) = 0
         /\ Append(pls, pl) \in Seq(Pipelines) /\ Len(Append(pls, pl)) = Len(pls) + 1
         /\ Len(pls) \in Nat /\ <<>> \in Seq(Pipelines) /\ Len(<<>>) = 0
         /\ WordsOfList(Append(pls, pl)) = WordsOfList(pls) + WordsOfPipeline(pl)
         /\ BarsOfList(Append(pls, pl)) = BarsOfList(pls) + (Len(pl) - 1)
<1> DEFINE v == [i \in DOMAIN pls |-> WordsOfPipeline(pls[i])]
           b == [i \in DOMAIN pls |-> Len(pls[i]) - 1]
           longer == Append(pls, pl)
           vv == [i \in DOMAIN longer |-> WordsOfPipeline(longer[i])]
           bb == [i \in DOMAIN longer |-> Len(longer[i]) - 1]
<1>1. /\ longer \in Seq(Pipelines) /\ Len(longer) = Len(pls) + 1 /\ Len(pls) \in Nat
      /\ <<>> \in Seq(Pipelines) /\ Len(<<>>) = 0
      /\ DOMAIN pls = 1 .. Len(pls) /\ DOMAIN longer = 1 .. Len(pls) + 1 /\ longer[Len(pls) + 1] = pl
      /\ \A i \in 1 .. Len(pls) : longer[i] = pls[i] /\ pls[i] \in Pipelines
  OBVIOUS
<1> HIDE DEF longer
<1>2. \A q \in Pipelines : WordsOfPipeline(q) \in Int /\ Len(q) - 1 \in Int
  BY PipelineGrows, CommandFacts
<1>3. v \in Seq(Int) /\ b \in Seq(Int) /\ WordsOfPipeline(pl) \in Int /\ Len(pl) - 1 \in Int
  BY <1>1, <1>2
<1>4. vv = Append(v, WordsOfPipeline(pl)) /\ bb = Append(b, Len(pl) - 1)
  BY <1>1
<1>5. WordsOfList(pls) = Total(v) /\ WordsOfList(longer) = Total(vv)
  BY Zenon DEF WordsOfList
<1>6. BarsOfList(pls) = Total(b) /\ BarsOfList(longer) = Total(bb)
  BY Zenon DEF BarsOfList
<1>7. WordsOfList(<<>>) = 0
  <2>1. [i \in DOMAIN <<>> |-> WordsOfPipeline(<<>>[i])] = <<>>
    OBVIOUS
  <2> QED BY <2>1, TotalOfNone DEF WordsOfList
<1>8. BarsOfList(<<>>) = 0
  <2>1. [i \in DOMAIN <<>> |-> Len(<<>>[i]) - 1] = <<>>
    OBVIOUS
  <2> QED BY <2>1, TotalOfNone DEF BarsOfList
<1> HIDE DEF v, vv, b, bb
<1> QED BY <1>1, <1>3, <1>4, <1>5, <1>6, <1>7, <1>8, TotalOfMore DEF longer

LEMMA TokenFacts ==
  /\ "none" \notin RedirOps /\ "none" \notin Ops
  /\ RedirOps \subseteq Ops /\ "|" \in Ops /\ ";" \in Ops /\ "|" # ";"
  /\ "|" \notin RedirOps /\ ";" \notin RedirOps
  /\ \A x \in Words : x \notin Ops
  /\ \A x \in Ops : x \in RedirOps \/ x = "|" \/ x = ";"
<1>1. /\ "none" \notin RedirOps /\ "none" \notin Ops
      /\ RedirOps \subseteq Ops /\ "|" \in Ops /\ ";" \in Ops /\ "|" # ";"
      /\ "|" \notin RedirOps /\ ";" \notin RedirOps
      /\ \A x \in Ops : x \in RedirOps \/ x = "|" \/ x = ";"
  BY DEF RedirOps, Ops
<1>2. ASSUME NEW x \in Words PROVE x \notin Ops
  BY <1>2 DEF Words, Assigns, Ops, RedirOps
<1> QED BY <1>1, <1>2

(* The parts of what parse has at hand.                                    *)
LEMMA ParseParts ==
  ASSUME NEW s \in Parses
  PROVE  /\ s.list \in Seq(Pipelines) /\ s.pl \in Pipelines /\ s.cmd \in Commands
         /\ s.op \in RedirOps \cup {"none"} /\ s.ok \in BOOLEAN
  BY Zenon DEF Parses

(* A command that is full goes into the pipeline; a pipeline that is full  *)
(* goes into the list.                                                     *)
LEMMA FinishCmdFacts ==
  ASSUME NEW s \in Parses, s.ok
  PROVE  /\ FinishCmd(s) \in Parses /\ FinishCmd(s).op = s.op
         /\ (FinishCmd(s).ok <=> s.cmd # NoCommand)
         /\ s.cmd # NoCommand => /\ FinishCmd(s).pl = Append(s.pl, s.cmd)
                                 /\ FinishCmd(s).cmd = NoCommand
                                 /\ FinishCmd(s).list = s.list
<1>1. NoCommand \in Commands
  BY CommandFacts
<1>2. Append(s.pl, s.cmd) \in Pipelines
  BY ParseParts, PipelineGrows
<1> HIDE DEF NoCommand
<1>3. CASE s.cmd = NoCommand
  <2>1. FinishCmd(s) = [s EXCEPT !.ok = FALSE]
    BY <1>3 DEF FinishCmd
  <2> QED BY <1>3, <2>1 DEF Parses
<1>4. CASE s.cmd # NoCommand
  <2>1. FinishCmd(s) = [s EXCEPT !.pl = Append(@, s.cmd), !.cmd = NoCommand]
    BY <1>4 DEF FinishCmd
  <2> QED BY <1>1, <1>2, <1>4, <2>1 DEF Parses
<1> QED BY <1>3, <1>4

LEMMA FinishPipelineFacts ==
  ASSUME NEW s \in Parses, s.ok
  PROVE  /\ FinishPipeline(s) \in Parses /\ FinishPipeline(s).op = s.op
         /\ (FinishPipeline(s).ok <=> s.cmd # NoCommand)
         /\ s.cmd # NoCommand => /\ FinishPipeline(s).list = Append(s.list, Append(s.pl, s.cmd))
                                 /\ FinishPipeline(s).pl = <<>>
                                 /\ FinishPipeline(s).cmd = NoCommand
<1> DEFINE f == FinishCmd(s)
<1>1. /\ f \in Parses /\ f.op = s.op /\ (f.ok <=> s.cmd # NoCommand)
      /\ s.cmd # NoCommand => f.pl = Append(s.pl, s.cmd) /\ f.cmd = NoCommand /\ f.list = s.list
  BY FinishCmdFacts
<1>2. FinishPipeline(s) = IF f.ok THEN [f EXCEPT !.list = Append(@, f.pl), !.pl = <<>>] ELSE f
  BY Zenon DEF FinishPipeline
<1> HIDE DEF f
<1>3. Append(f.list, f.pl) \in Seq(Pipelines) /\ <<>> \in Pipelines
  BY <1>1, ParseParts, ListGrows, PipelineGrows
<1>4. CASE ~f.ok
  <2>1. FinishPipeline(s) = f
    BY <1>2, <1>4
  <2> QED BY <1>1, <1>4, <2>1
<1>5. CASE f.ok
  <2>1. FinishPipeline(s) = [f EXCEPT !.list = Append(@, f.pl), !.pl = <<>>]
    BY <1>2, <1>5
  <2>2. FinishPipeline(s) \in Parses
    BY <1>1, <1>3, <2>1 DEF Parses
  <2>3. f.op = s.op /\ f.ok /\ s.cmd # NoCommand
    BY <1>1, <1>5
  <2>4. /\ FinishPipeline(s).op = f.op /\ FinishPipeline(s).ok = f.ok
        /\ FinishPipeline(s).list = Append(f.list, f.pl) /\ FinishPipeline(s).pl = <<>>
        /\ FinishPipeline(s).cmd = f.cmd
    BY <1>1, <2>1 DEF Parses
  <2> QED BY <1>1, <2>2, <2>3, <2>4
<1> QED BY <1>4, <1>5

(* A word goes into the command.                                           *)
WithRedirection(s, x) == [s EXCEPT !.cmd.redirs = Append(@, <<s.op, x>>), !.op = "none"]
WithWord(s, x) ==
  IF x \in Assigns /\ s.cmd.args = <<>> THEN [s EXCEPT !.cmd.assigns = @ + 1]
                                        ELSE [s EXCEPT !.cmd.args = Append(@, x)]

LEMMA WithRedirectionFacts ==
  ASSUME NEW s \in Parses, s.op # "none", NEW x \in Words
  PROVE  LET n == WithRedirection(s, x)
         IN  /\ n \in Parses /\ n.list = s.list /\ n.pl = s.pl /\ n.op = "none" /\ n.ok = s.ok
             /\ n.cmd # NoCommand /\ WordsOf(n.cmd) = WordsOf(s.cmd) + 2
<1> DEFINE n == WithRedirection(s, x)
           rr == Append(s.cmd.redirs, <<s.op, x>>)
           cc == [s.cmd EXCEPT !.redirs = rr]
<1>1. /\ s.cmd.args \in Seq(Words) /\ s.cmd.assigns \in Nat /\ s.cmd.redirs \in Seq(RedirOps \X Words)
      /\ s.cmd \in Commands
  BY ParseParts DEF Commands
<1>2. <<s.op, x>> \in RedirOps \X Words
  BY ParseParts
<1>3. /\ rr \in Seq(RedirOps \X Words) /\ rr # <<>> /\ Len(rr) = Len(s.cmd.redirs) + 1
      /\ Len(s.cmd.redirs) \in Nat /\ Len(s.cmd.args) \in Nat
  <2> DEFINE R == RedirOps \X Words
  <2>1. s.cmd.redirs \in Seq(R) /\ <<s.op, x>> \in R
    BY <1>1, <1>2
  <2> HIDE DEF R
  <2>2. rr \in Seq(R) /\ rr # <<>> /\ Len(rr) = Len(s.cmd.redirs) + 1 /\ Len(s.cmd.redirs) \in Nat
    BY <2>1, AppendFacts
  <2> QED BY <1>1, <2>2 DEF R
<1> HIDE DEF rr
<1>4. cc \in Commands /\ cc.redirs = rr /\ cc.args = s.cmd.args /\ cc.assigns = s.cmd.assigns
  BY <1>1, <1>3 DEF Commands
<1>5. cc # NoCommand
  <2>1. NoCommand.redirs = <<>>
    BY DEF NoCommand
  <2> QED BY <1>3, <1>4, <2>1
<1>6. WordsOf(cc) = WordsOf(s.cmd) + 2
  <2> HIDE DEF cc
  <2>1. WordsOf(cc) = Len(s.cmd.args) + s.cmd.assigns + 2 * (Len(s.cmd.redirs) + 1)
    BY <1>3, <1>4, Zenon DEF WordsOf
  <2>2. WordsOf(s.cmd) = Len(s.cmd.args) + s.cmd.assigns + 2 * Len(s.cmd.redirs)
    BY Zenon DEF WordsOf
  <2> DEFINE a == Len(s.cmd.args)
             b == s.cmd.assigns
             c == Len(s.cmd.redirs)
  <2>3. a \in Nat /\ b \in Nat /\ c \in Nat
    BY <1>1, <1>3
  <2>4. WordsOf(cc) = a + b + 2 * (c + 1) /\ WordsOf(s.cmd) = a + b + 2 * c
    BY <2>1, <2>2, Zenon
  <2> HIDE DEF a, b, c
  <2> QED BY <2>3, <2>4
<1>7. n = [s EXCEPT !.cmd = cc, !.op = "none"]
  BY DEF WithRedirection, rr
<1> HIDE DEF cc, n
<1>8. n \in Parses /\ n.list = s.list /\ n.pl = s.pl /\ n.op = "none" /\ n.ok = s.ok /\ n.cmd = cc
  BY <1>4, <1>7 DEF Parses
<1> QED BY <1>5, <1>6, <1>8 DEF n

LEMMA WithWordFacts ==
  ASSUME NEW s \in Parses, NEW x \in Words
  PROVE  LET n == WithWord(s, x)
         IN  /\ n \in Parses /\ n.list = s.list /\ n.pl = s.pl /\ n.op = s.op /\ n.ok = s.ok
             /\ n.cmd # NoCommand /\ WordsOf(n.cmd) = WordsOf(s.cmd) + 1
<1> DEFINE n == WithWord(s, x)
<1>1. /\ s.cmd.args \in Seq(Words) /\ s.cmd.assigns \in Nat /\ s.cmd.redirs \in Seq(RedirOps \X Words)
      /\ s.cmd \in Commands
  BY ParseParts DEF Commands
<1>2. Len(s.cmd.redirs) \in Nat /\ Len(s.cmd.args) \in Nat
  BY <1>1
<1>3. CASE x \in Assigns /\ s.cmd.args = <<>>
  <2> DEFINE cc == [s.cmd EXCEPT !.assigns = @ + 1]
  <2>1. /\ cc \in Commands /\ cc.redirs = s.cmd.redirs /\ cc.args = s.cmd.args
        /\ cc.assigns = s.cmd.assigns + 1
    BY <1>1 DEF Commands
  <2>2. cc # NoCommand
    <3>1. NoCommand.assigns = 0 /\ s.cmd.assigns + 1 # 0
      BY <1>1 DEF NoCommand
    <3> QED BY <2>1, <3>1
  <2>3. WordsOf(cc) = WordsOf(s.cmd) + 1
    <3> HIDE DEF cc
    <3>1. WordsOf(cc) = Len(s.cmd.args) + (s.cmd.assigns + 1) + 2 * Len(s.cmd.redirs)
      BY <2>1, Zenon DEF WordsOf
    <3>2. WordsOf(s.cmd) = Len(s.cmd.args) + s.cmd.assigns + 2 * Len(s.cmd.redirs)
      BY Zenon DEF WordsOf
    <3> DEFINE a == Len(s.cmd.args)
               b == s.cmd.assigns
               c == Len(s.cmd.redirs)
    <3>3. a \in Nat /\ b \in Nat /\ c \in Nat
      BY <1>1, <1>2
    <3>4. WordsOf(cc) = a + (b + 1) + 2 * c /\ WordsOf(s.cmd) = a + b + 2 * c
      BY <3>1, <3>2, Zenon
    <3> HIDE DEF a, b, c
    <3> QED BY <3>3, <3>4
  <2>4. n = [s EXCEPT !.cmd = cc]
    BY <1>3 DEF WithWord
  <2> HIDE DEF cc, n
  <2>5. n \in Parses /\ n.list = s.list /\ n.pl = s.pl /\ n.op = s.op /\ n.ok = s.ok /\ n.cmd = cc
    BY <2>1, <2>4 DEF Parses
  <2> QED BY <2>2, <2>3, <2>5 DEF n
<1>4. CASE ~(x \in Assigns /\ s.cmd.args = <<>>)
  <2> DEFINE aa == Append(s.cmd.args, x)
             cc == [s.cmd EXCEPT !.args = aa]
  <2>1. aa \in Seq(Words) /\ aa # <<>> /\ Len(aa) = Len(s.cmd.args) + 1
    BY <1>1
  <2>2. n = [s EXCEPT !.cmd = cc]
    BY <1>4 DEF WithWord
  <2> HIDE DEF aa
  <2>3. cc \in Commands /\ cc.redirs = s.cmd.redirs /\ cc.args = aa /\ cc.assigns = s.cmd.assigns
    BY <1>1, <2>1 DEF Commands
  <2>4. cc # NoCommand
    <3>1. NoCommand.args = <<>>
      BY DEF NoCommand
    <3> QED BY <2>1, <2>3, <3>1
  <2>5. WordsOf(cc) = WordsOf(s.cmd) + 1
    <3> HIDE DEF cc
    <3>1. WordsOf(cc) = (Len(s.cmd.args) + 1) + s.cmd.assigns + 2 * Len(s.cmd.redirs)
      BY <2>1, <2>3, Zenon DEF WordsOf
    <3>2. WordsOf(s.cmd) = Len(s.cmd.args) + s.cmd.assigns + 2 * Len(s.cmd.redirs)
      BY Zenon DEF WordsOf
    <3> DEFINE a == Len(s.cmd.args)
               b == s.cmd.assigns
               c == Len(s.cmd.redirs)
    <3>3. a \in Nat /\ b \in Nat /\ c \in Nat
      BY <1>1, <1>2
    <3>4. WordsOf(cc) = (a + 1) + b + 2 * c /\ WordsOf(s.cmd) = a + b + 2 * c
      BY <3>1, <3>2, Zenon
    <3> HIDE DEF a, b, c
    <3> QED BY <3>3, <3>4
  <2> HIDE DEF cc, n
  <2>6. n \in Parses /\ n.list = s.list /\ n.pl = s.pl /\ n.op = s.op /\ n.ok = s.ok /\ n.cmd = cc
    BY <2>2, <2>3 DEF Parses
  <2> QED BY <2>4, <2>5, <2>6 DEF n
<1> QED BY <1>3, <1>4

(* The line up to a token is one the grammar may begin with, and how the   *)
(* token fits what is before it.                                           *)
Separators == {";", "|"}
GoodUpTo(t, k) ==
  \A i \in 1 .. k : /\ t[i] \in RedirOps /\ i < k => t[i + 1] \notin Ops
                    /\ t[i] \in Separators => i > 1 /\ t[i - 1] \notin Separators
Fits(t, k) ==
  /\ k > 1 /\ t[k - 1] \in RedirOps => t[k] \notin Ops
  /\ t[k] \in Separators => k > 1 /\ t[k - 1] \notin Separators

LEMMA GoodSoFar ==
  ASSUME NEW t \in Seq(Ops \cup Words), NEW k \in 1 .. Len(t)
  PROVE  GoodUpTo(t, k) <=> GoodUpTo(t, k - 1) /\ Fits(t, k)
<1>1. k \in Nat /\ k >= 1 /\ (k - 1) + 1 = k /\ k > k - 1
  OBVIOUS
<1>2. ASSUME GoodUpTo(t, k) PROVE GoodUpTo(t, k - 1) /\ Fits(t, k)
  <2>1. \A i \in 1 .. k - 1 : i \in 1 .. k /\ i < k
    BY <1>1
  <2>2. GoodUpTo(t, k - 1)
    BY <1>2, <2>1 DEF GoodUpTo
  <2>3. k > 1 => k - 1 \in 1 .. k /\ k - 1 < k
    BY <1>1
  <2>4. Fits(t, k)
    BY <1>1, <1>2, <2>3 DEF GoodUpTo, Fits
  <2> QED BY <2>2, <2>4
<1>3. ASSUME GoodUpTo(t, k - 1), Fits(t, k) PROVE GoodUpTo(t, k)
  <2> SUFFICES ASSUME NEW i \in 1 .. k
               PROVE  /\ t[i] \in RedirOps /\ i < k => t[i + 1] \notin Ops
                      /\ t[i] \in Separators => i > 1 /\ t[i - 1] \notin Separators
    BY DEF GoodUpTo
  <2>1. CASE i = k
    BY <1>1, <1>3, <2>1 DEF Fits
  <2>2. CASE i = k - 1 /\ i # k
    <3>1. i \in 1 .. k - 1 /\ i + 1 = k /\ k > 1
      BY <1>1, <2>2
    <3>2. t[i] \in Separators => i > 1 /\ t[i - 1] \notin Separators
      BY <1>3, <3>1 DEF GoodUpTo
    <3>3. t[i] \in RedirOps => t[i + 1] \notin Ops
      BY <1>3, <2>2, <3>1 DEF Fits
    <3> QED BY <3>2, <3>3
  <2>3. CASE i < k - 1
    <3>1. i \in 1 .. k - 1
      BY <1>1, <2>3
    <3> QED BY <1>3, <2>3, <3>1 DEF GoodUpTo
  <2> QED BY <1>1, <2>1, <2>2, <2>3
<1> QED BY <1>2, <1>3

(* What parse has at hand tells of the token it took last ...              *)
AtHand(t, k, s) ==
  /\ k > 0 /\ t[k] \in RedirOps => s.op = t[k]
  /\ k = 0 \/ t[k] \notin RedirOps => s.op = "none"
  /\ s.op = "none" => (s.cmd = NoCommand <=> k = 0 \/ t[k] \in Separators)
  /\ k > 0 /\ t[k] = "|" => s.pl # <<>>
  /\ k = 0 \/ t[k] = ";" => s.pl = <<>>

(* ... and holds all that were taken.                                      *)
Held(s) ==
  WordsOfList(s.list) + WordsOfPipeline(s.pl) + WordsOf(s.cmd) + (IF s.op = "none" THEN 0 ELSE 1)
Bars(s) == BarsOfList(s.list) + Len(s.pl)
Grown(s, n, x) ==
  /\ Held(n) = Held(s) + (IF x \in RedirOps \cup Words THEN 1 ELSE 0)
  /\ Bars(n) = Bars(s) + (IF x \in {"|"} THEN 1 ELSE 0)
  /\ Len(n.list) = Len(s.list) + (IF x \in {";"} THEN 1 ELSE 0)

LEMMA Counts ==
  ASSUME NEW s \in Parses
  PROVE  /\ WordsOfList(s.list) \in Int /\ WordsOfPipeline(s.pl) \in Int /\ WordsOf(s.cmd) \in Int
         /\ BarsOfList(s.list) \in Int /\ Len(s.pl) \in Nat /\ Len(s.list) \in Nat
         /\ Bars(s) \in Int /\ Held(s) \in Int
         /\ s.op = "none" => Held(s) = WordsOfList(s.list) + WordsOfPipeline(s.pl) + WordsOf(s.cmd)
         /\ s.op # "none" => Held(s) = WordsOfList(s.list) + WordsOfPipeline(s.pl) + WordsOf(s.cmd) + 1
<1> DEFINE a == WordsOfList(s.list)
           b == WordsOfPipeline(s.pl)
           c == WordsOf(s.cmd)
           d == BarsOfList(s.list)
           e == Len(s.pl)
<1>1. a \in Int /\ b \in Int /\ c \in Int /\ d \in Int /\ e \in Nat /\ Len(s.list) \in Nat
  BY ParseParts, CommandFacts, PipelineGrows, ListGrows
<1>2. Held(s) = a + b + c + (IF s.op = "none" THEN 0 ELSE 1) /\ Bars(s) = d + e
  BY Zenon DEF Held, Bars
<1> HIDE DEF a, b, c, d, e
<1>3. /\ s.op = "none" => Held(s) = a + b + c
      /\ s.op # "none" => Held(s) = a + b + c + 1
      /\ Held(s) \in Int /\ Bars(s) \in Int
  BY <1>1, <1>2
<1> QED BY <1>1, <1>3 DEF a, b, c, d, e

LEMMA TakeTokenKeeps ==
  ASSUME NEW t \in Seq(Ops \cup Words), NEW k \in 1 .. Len(t), NEW s \in Parses, s.ok,
         AtHand(t, k - 1, s)
  PROVE  LET n == TakeToken(s, t[k])
         IN  /\ n \in Parses /\ (n.ok <=> Fits(t, k))
             /\ n.ok => AtHand(t, k, n) /\ Grown(s, n, t[k])
<1> DEFINE n == TakeToken(s, t[k])
           x == t[k]
           y == t[k - 1]
           a == WordsOfList(s.list)
           b == WordsOfPipeline(s.pl)
           c == WordsOf(s.cmd)
           d == BarsOfList(s.list)
           e == Len(s.pl)
           l == Len(s.list)
<1>1. k \in Nat /\ x \in Ops \cup Words /\ (k > 1 <=> k # 1) /\ (k - 1 = 0 <=> k = 1)
      /\ (k - 1 > 0 <=> k # 1) /\ k # 0 /\ k > 0
  OBVIOUS
<1>2. /\ k # 1 /\ y \in RedirOps => s.op = y
      /\ k = 1 \/ y \notin RedirOps => s.op = "none"
      /\ s.op = "none" => (s.cmd = NoCommand <=> k = 1 \/ y \in Separators)
      /\ k = 1 \/ y = ";" => s.pl = <<>>
  BY <1>1, Zenon DEF AtHand
<1>3. Fits(t, k) <=> /\ k # 1 /\ y \in RedirOps => x \notin Ops
                     /\ x \in Separators => k # 1 /\ y \notin Separators
  BY <1>1, Zenon DEF Fits
<1>4. AtHand(t, k, n) <=> /\ x \in RedirOps => n.op = x
                          /\ x \notin RedirOps => n.op = "none"
                          /\ n.op = "none" => (n.cmd = NoCommand <=> x \in Separators)
                          /\ x = "|" => n.pl # <<>>
                          /\ x = ";" => n.pl = <<>>
  BY <1>1, Zenon DEF AtHand
<1>5. n = CASE ~s.ok           -> s
            [] s.ok /\ s.op # "none"  -> IF x \in Ops THEN [s EXCEPT !.ok = FALSE]
                                  ELSE WithRedirection(s, x)
            [] s.ok /\ s.op = "none" /\ x \in RedirOps -> [s EXCEPT !.op = x]
            [] s.ok /\ s.op = "none" /\ x = "|"        -> FinishCmd(s)
            [] s.ok /\ s.op = "none" /\ x = ";"        -> FinishPipeline(s)
            [] s.ok /\ s.op = "none" /\ x \in Words    -> WithWord(s, x)
  BY Zenon DEF TakeToken, WithRedirection, WithWord
<1>6. Separators = {";", "|"}
  BY DEF Separators
<1>7. /\ a \in Int /\ b \in Int /\ c \in Int /\ d \in Int /\ e \in Nat /\ l \in Nat
      /\ Bars(s) = d + e
      /\ s.op = "none" => Held(s) = a + b + c
      /\ s.op # "none" => Held(s) = a + b + c + 1
  BY Counts DEF Bars
<1>8. x \notin Words => x \in RedirOps \/ x = "|" \/ x = ";"
  BY <1>1, TokenFacts
<1>9. n.list = s.list => WordsOfList(n.list) = a /\ BarsOfList(n.list) = d /\ Len(n.list) = l
  OBVIOUS
<1>10. n.pl = s.pl => WordsOfPipeline(n.pl) = b /\ Len(n.pl) = e
  OBVIOUS
<1>11. Bars(n) = BarsOfList(n.list) + Len(n.pl)
  BY DEF Bars
<1>12. s.op = "none" => ~(k # 1 /\ y \in RedirOps)
  BY <1>2, TokenFacts
<1>13. Grown(s, n, x) <=>
         /\ x \in RedirOps \cup Words => Held(n) = Held(s) + 1
         /\ x \notin RedirOps \cup Words => Held(n) = Held(s)
         /\ x = "|" => Bars(n) = Bars(s) + 1
         /\ x # "|" => Bars(n) = Bars(s)
         /\ x = ";" => Len(n.list) = l + 1
         /\ x # ";" => Len(n.list) = l
  <2> DEFINE o == RedirOps \cup Words
  <2> HIDE DEF x, o
  <2>1. Held(s) \in Int /\ Bars(s) \in Int /\ l \in Int
    BY Counts
  <2>2. Grown(s, n, x) <=> /\ Held(n) = Held(s) + (IF x \in o THEN 1 ELSE 0)
                           /\ Bars(n) = Bars(s) + (IF x \in {"|"} THEN 1 ELSE 0)
                           /\ Len(n.list) = l + (IF x \in {";"} THEN 1 ELSE 0)
    BY Zenon DEF Grown, o
  <2>3. (x \in {"|"} <=> x = "|") /\ (x \in {";"} <=> x = ";")
    OBVIOUS
  <2> HIDE DEF n, l
  <2> DEFINE hs == Held(s)
             hn == Held(n)
             bs == Bars(s)
             bn == Bars(n)
             ln == Len(n.list)
  <2> HIDE DEF hs, hn, bs, bn, ln
  <2>4. hs \in Int /\ bs \in Int
    BY <2>1 DEF hs, bs
  <2>5. hs + 0 = hs /\ bs + 0 = bs /\ l + 0 = l
    BY <2>1, <2>4
  <2>6. hn = hs + (IF x \in o THEN 1 ELSE 0) <=> (x \in o => hn = hs + 1) /\ (x \notin o => hn = hs)
    BY <2>5, Zenon
  <2>7. bn = bs + (IF x \in {"|"} THEN 1 ELSE 0) <=>
          (x \in {"|"} => bn = bs + 1) /\ (x \notin {"|"} => bn = bs)
    BY <2>5, Zenon
  <2>8. ln = l + (IF x \in {";"} THEN 1 ELSE 0) <=>
          (x \in {";"} => ln = l + 1) /\ (x \notin {";"} => ln = l)
    BY <2>5, Zenon
  <2> QED BY <2>2, <2>3, <2>6, <2>7, <2>8, Zenon DEF o, hs, hn, bs, bn, ln
<1> HIDE DEF n, x, y, a, b, c, d, e, l
<1>14. CASE s.op # "none" /\ x \in Ops
  <2>1. n = [s EXCEPT !.ok = FALSE]
    BY <1>5, <1>14
  <2>2. n \in Parses /\ n.ok = FALSE
    BY <2>1 DEF Parses
  <2>3. ~Fits(t, k)
    BY <1>2, <1>3, <1>14, Zenon
  <2> QED BY <2>2, <2>3, Zenon DEF n
<1>15. CASE s.op # "none" /\ x \notin Ops
  <2>1. x \in Words /\ x \notin RedirOps /\ x \notin Separators /\ x # "|" /\ x # ";"
    BY <1>1, <1>6, <1>15, TokenFacts
  <2>2. n = WithRedirection(s, x)
    BY <1>5, <1>15
  <2>3. /\ n \in Parses /\ n.list = s.list /\ n.pl = s.pl /\ n.op = "none" /\ n.ok = s.ok
        /\ n.cmd # NoCommand /\ WordsOf(n.cmd) = c + 2
    BY <1>15, <2>1, <2>2, WithRedirectionFacts DEF c
  <2>4. Fits(t, k)
    BY <1>3, <1>15, <2>1, Zenon
  <2>5. AtHand(t, k, n)
    BY <1>4, <2>1, <2>3, Zenon
  <2>6. Held(n) = a + b + (c + 2) /\ Bars(n) = d + e
    BY <1>9, <1>10, <1>11, <2>3, Counts, Zenon
  <2>7. Grown(s, n, x)
    <3>1. Held(n) = Held(s) + 1 /\ Bars(n) = Bars(s)
      BY <1>7, <1>15, <2>6
    <3> QED BY <1>9, <1>13, <2>1, <2>3, <3>1, Zenon
  <2> QED BY <2>3, <2>4, <2>5, <2>7, Zenon DEF n, x
<1>16. CASE s.op = "none" /\ x \in RedirOps
  <2>1. x \notin Separators /\ x # "|" /\ x # ";" /\ x # "none"
    BY <1>6, <1>16, TokenFacts
  <2>2. n = [s EXCEPT !.op = x]
    BY <1>5, <1>16, <2>1, TokenFacts
  <2>3. n \in Parses /\ n.list = s.list /\ n.pl = s.pl /\ n.op = x /\ n.ok = s.ok /\ n.cmd = s.cmd
    BY <1>16, <2>2 DEF Parses
  <2>4. Fits(t, k)
    BY <1>3, <1>12, <1>16, <2>1, Zenon
  <2>5. AtHand(t, k, n)
    BY <1>4, <1>16, <2>1, <2>3, Zenon
  <2>6. WordsOf(n.cmd) = c
    BY <2>3 DEF c
  <2>7. Held(n) = a + b + c + 1 /\ Bars(n) = d + e
    BY <1>9, <1>10, <1>11, <2>1, <2>3, <2>6, Counts, Zenon
  <2>8. Grown(s, n, x)
    <3>1. Held(n) = Held(s) + 1 /\ Bars(n) = Bars(s)
      BY <1>7, <1>16, <2>7
    <3> QED BY <1>9, <1>13, <1>16, <2>1, <2>3, <3>1, Zenon
  <2> QED BY <2>3, <2>4, <2>5, <2>8, Zenon DEF n, x
<1>17. CASE s.op = "none" /\ x = "|"
  <2>1. x \in Separators /\ x \notin RedirOps /\ x \notin Words /\ x # ";" /\ x \in Ops
    BY <1>6, <1>17, TokenFacts
  <2>2. n = FinishCmd(s)
    BY <1>5, <1>17, <2>1
  <2>3. /\ n \in Parses /\ n.op = s.op /\ (n.ok <=> s.cmd # NoCommand)
        /\ s.cmd # NoCommand => n.pl = Append(s.pl, s.cmd) /\ n.cmd = NoCommand /\ n.list = s.list
    BY <2>2, FinishCmdFacts
  <2>4. n.ok <=> Fits(t, k)
    BY <1>2, <1>3, <1>12, <1>17, <2>1, <2>3, Zenon
  <2>5. ASSUME n.ok PROVE AtHand(t, k, n) /\ Grown(s, n, x)
    <3>1. n.pl = Append(s.pl, s.cmd) /\ n.cmd = NoCommand /\ n.list = s.list
      BY <2>3, <2>5
    <3>2. /\ n.pl # <<>> /\ Len(n.pl) = e + 1 /\ WordsOfPipeline(n.pl) = b + c /\ WordsOf(n.cmd) = 0
      <4>1. s.pl \in Pipelines /\ s.cmd \in Commands
        BY ParseParts
      <4>2. /\ Append(s.pl, s.cmd) # <<>> /\ Len(Append(s.pl, s.cmd)) = e + 1
            /\ WordsOfPipeline(Append(s.pl, s.cmd)) = b + c
        BY <4>1, PipelineGrows DEF b, c, e
      <4> QED BY <3>1, <4>2, CommandFacts, Zenon
    <3>3. AtHand(t, k, n)
      BY <1>4, <1>17, <2>1, <2>3, <3>1, <3>2, Zenon
    <3>4. Held(n) = a + (b + c) + 0 /\ Bars(n) = d + (e + 1)
      BY <1>9, <1>11, <1>17, <2>3, <3>1, <3>2, Counts, Zenon
    <3>5. Grown(s, n, x)
      <4>1. Held(n) = Held(s) /\ Bars(n) = Bars(s) + 1
        BY <1>7, <1>17, <3>4
      <4> QED BY <1>9, <1>13, <1>17, <2>1, <3>1, <4>1, Zenon
    <3> QED BY <3>3, <3>5
  <2> QED BY <2>3, <2>4, <2>5, Zenon DEF n, x
<1>18. CASE s.op = "none" /\ x = ";"
  <2>1. x \in Separators /\ x \notin RedirOps /\ x \notin Words /\ x # "|" /\ x \in Ops
    BY <1>6, <1>18, TokenFacts
  <2>2. n = FinishPipeline(s)
    BY <1>5, <1>18, <2>1
  <2>3. /\ n \in Parses /\ n.op = s.op /\ (n.ok <=> s.cmd # NoCommand)
        /\ s.cmd # NoCommand => /\ n.list = Append(s.list, Append(s.pl, s.cmd))
                                /\ n.pl = <<>> /\ n.cmd = NoCommand
    BY <2>2, FinishPipelineFacts
  <2>4. n.ok <=> Fits(t, k)
    BY <1>2, <1>3, <1>12, <1>18, <2>1, <2>3, Zenon
  <2>5. ASSUME n.ok PROVE AtHand(t, k, n) /\ Grown(s, n, x)
    <3> DEFINE pl == Append(s.pl, s.cmd)
    <3>1. n.list = Append(s.list, pl) /\ n.cmd = NoCommand /\ n.pl = <<>>
      BY <2>3, <2>5
    <3>2. /\ pl \in Pipelines /\ Len(pl) = e + 1 /\ WordsOfPipeline(pl) = b + c
          /\ WordsOfPipeline(<<>>) = 0 /\ Len(<<>>) = 0
      BY ParseParts, PipelineGrows DEF b, c, e
    <3> HIDE DEF pl
    <3>3. /\ Len(n.list) = l + 1
          /\ WordsOfList(n.list) = a + WordsOfPipeline(pl)
          /\ BarsOfList(n.list) = d + (Len(pl) - 1)
      BY <3>1, <3>2, ParseParts, ListGrows DEF a, d, l
    <3>4. AtHand(t, k, n)
      BY <1>4, <1>18, <2>1, <2>3, <3>1, Zenon
    <3>5. WordsOfPipeline(n.pl) = 0 /\ WordsOf(n.cmd) = 0 /\ Len(n.pl) = 0
      BY <3>1, <3>2, CommandFacts, Zenon
    <3>6. Held(n) = (a + (b + c)) + 0 + 0 /\ Bars(n) = (d + ((e + 1) - 1)) + 0
      BY <1>11, <1>18, <2>3, <3>2, <3>3, <3>5, Counts, Zenon
    <3>7. Grown(s, n, x)
      <4>1. Held(n) = Held(s) /\ Bars(n) = Bars(s)
        <5>1. (a + (b + c)) + 0 + 0 = a + b + c /\ (d + ((e + 1) - 1)) + 0 = d + e
          BY <1>7
        <5> QED BY <1>7, <1>18, <3>6, <5>1, Zenon
      <4> QED BY <1>13, <1>18, <2>1, <3>3, <4>1, Zenon
    <3> QED BY <3>4, <3>7
  <2> QED BY <2>3, <2>4, <2>5, Zenon DEF n, x
<1>19. CASE s.op = "none" /\ x \in Words
  <2>1. x \notin Ops /\ x \notin RedirOps /\ x \notin Separators /\ x # "|" /\ x # ";"
    BY <1>6, <1>19, TokenFacts
  <2>2. n = WithWord(s, x)
    BY <1>5, <1>19, <2>1
  <2>3. /\ n \in Parses /\ n.list = s.list /\ n.pl = s.pl /\ n.op = s.op /\ n.ok = s.ok
        /\ n.cmd # NoCommand /\ WordsOf(n.cmd) = c + 1
    BY <1>19, <2>2, WithWordFacts DEF c
  <2>4. Fits(t, k)
    BY <1>3, <2>1, Zenon
  <2>5. AtHand(t, k, n)
    BY <1>4, <1>19, <2>1, <2>3, Zenon
  <2>6. Held(n) = a + b + (c + 1) /\ Bars(n) = d + e
    BY <1>9, <1>10, <1>11, <1>19, <2>3, Counts, Zenon
  <2>7. Grown(s, n, x)
    <3>1. Held(n) = Held(s) + 1 /\ Bars(n) = Bars(s)
      BY <1>7, <1>19, <2>6
    <3> QED BY <1>9, <1>13, <1>19, <2>1, <2>3, <3>1, Zenon
  <2> QED BY <2>3, <2>4, <2>5, <2>7, Zenon DEF n, x
<1> QED BY <1>8, <1>14, <1>15, <1>16, <1>17, <1>18, <1>19, Zenon

LEMMA TakeTokenType ==
  ASSUME NEW s \in Parses, NEW x \in Ops \cup Words
  PROVE  TakeToken(s, x) \in Parses
<1> DEFINE n == TakeToken(s, x)
<1>1. n = CASE ~s.ok           -> s
            [] s.ok /\ s.op # "none"  -> IF x \in Ops THEN [s EXCEPT !.ok = FALSE]
                                  ELSE WithRedirection(s, x)
            [] s.ok /\ s.op = "none" /\ x \in RedirOps -> [s EXCEPT !.op = x]
            [] s.ok /\ s.op = "none" /\ x = "|"        -> FinishCmd(s)
            [] s.ok /\ s.op = "none" /\ x = ";"        -> FinishPipeline(s)
            [] s.ok /\ s.op = "none" /\ x \in Words    -> WithWord(s, x)
  BY Zenon DEF TakeToken, WithRedirection, WithWord
<1>2. s.ok \in BOOLEAN
  BY ParseParts
<1> HIDE DEF n
<1>3. CASE ~s.ok
  BY <1>1, <1>3 DEF n
<1>4. CASE s.ok /\ s.op # "none" /\ x \in Ops
  <2>1. n = [s EXCEPT !.ok = FALSE]
    BY <1>1, <1>4
  <2> QED BY <2>1 DEF Parses, n
<1>5. CASE s.ok /\ s.op # "none" /\ x \notin Ops
  <2>1. n = WithRedirection(s, x) /\ x \in Words
    BY <1>1, <1>5
  <2> QED BY <1>5, <2>1, WithRedirectionFacts DEF n
<1>6. CASE s.ok /\ s.op = "none" /\ x \in RedirOps
  <2>1. x # "|" /\ x # ";" /\ x \notin Words
    BY <1>6, TokenFacts
  <2>2. n = [s EXCEPT !.op = x]
    BY <1>1, <1>6, <2>1
  <2> QED BY <1>6, <2>2 DEF Parses, n
<1>7. CASE s.ok /\ s.op = "none" /\ x = "|"
  <2>1. x \notin RedirOps /\ x # ";" /\ x \notin Words
    BY <1>7, TokenFacts
  <2>2. n = FinishCmd(s)
    BY <1>1, <1>7, <2>1
  <2> QED BY <1>7, <2>2, FinishCmdFacts DEF n
<1>8. CASE s.ok /\ s.op = "none" /\ x = ";"
  <2>1. x \notin RedirOps /\ x # "|" /\ x \notin Words
    BY <1>8, TokenFacts
  <2>2. n = FinishPipeline(s)
    BY <1>1, <1>8, <2>1
  <2> QED BY <1>8, <2>2, FinishPipelineFacts DEF n
<1>9. CASE s.ok /\ s.op = "none" /\ x \in Words
  <2>1. x \notin RedirOps /\ x # "|" /\ x # ";"
    BY <1>9, TokenFacts
  <2>2. n = WithWord(s, x)
    BY <1>1, <1>9, <2>1
  <2> QED BY <1>9, <2>2, WithWordFacts DEF n
<1>10. x \in Words \/ x \in RedirOps \/ x = "|" \/ x = ";"
  BY TokenFacts
<1> QED BY <1>3, <1>4, <1>5, <1>6, <1>7, <1>8, <1>9, <1>10, Zenon

(* What parse has at hand, one token after the other.                      *)
LEMMA ParseSteps ==
  ASSUME NEW t \in Seq(Ops \cup Words)
  PROVE  \E f \in [0 .. Len(t) -> Parses] :
            /\ Parse(t) = FinishLine(f[Len(t)]) /\ f[0] = Blank
            /\ \A j \in 1 .. Len(t) : f[j] = TakeToken(f[j - 1], t[j])
<1> DEFINE N == Len(t)
           G == [z \in Parses \X (1 .. N) |-> TakeToken(z[1], t[z[2]])]
<1>1. N \in Nat /\ \A j \in 1 .. N : t[j] \in Ops \cup Words
  OBVIOUS
<1>2. Blank \in Parses
  <2>1. NoCommand \in Commands /\ <<>> \in Pipelines /\ <<>> \in Seq(Pipelines)
    BY CommandFacts DEF Pipelines
  <2> HIDE DEF NoCommand
  <2> QED BY <2>1 DEF Blank, Parses
<1> HIDE DEF N
<1>3. PICK f : Steps(f, Parses, N, Blank, G)
  <2>1. G \in [Parses \X (1 .. N) -> Parses]
    BY <1>1, TakeTokenType
  <2> HIDE DEF G
  <2> QED BY <1>1, <1>2, <2>1, RecursionExists
<1>4. f \in [0 .. N -> Parses] /\ f[0] = Blank /\ \A j \in 1 .. N : f[j] = TakeToken(f[j - 1], t[j])
  <2>1. f \in [0 .. N -> Parses] /\ f[0] = Blank /\ \A j \in 1 .. N : f[j] = G[<<f[j - 1], j>>]
    BY <1>3, Zenon DEF Steps
  <2>2. ASSUME NEW j \in 1 .. N PROVE f[j] = TakeToken(f[j - 1], t[j])
    <3>1. f[j - 1] \in Parses
      BY <1>1, <2>1
    <3> QED BY <2>1, <3>1
  <2> QED BY <2>1, <2>2
<1> DEFINE Fix(h) == h = [j \in 0 .. N |-> IF j = 0 THEN Blank ELSE TakeToken(h[j - 1], t[j])]
           r == CHOOSE h : Fix(h)
<1>5. Fix(f)
  <2>1. \A j \in 0 .. N : j # 0 => j \in 1 .. N
    BY <1>1
  <2>2. f = [j \in 0 .. N |-> f[j]]
    BY <1>4
  <2> QED BY <1>4, <2>1, <2>2
<1>6. Fix(r)
  <2> HIDE DEF Fix
  <2> QED BY <1>5
<1>7. Parse(t) = FinishLine(r[N])
  BY Zenon DEF Parse, N
<1>8. \A h : Fix(h) => /\ h[0] = Blank /\ \A j \in 1 .. N : h[j] = TakeToken(h[j - 1], t[j])
                       /\ h = [j \in 0 .. N |-> h[j]]
  <2> SUFFICES ASSUME NEW h, Fix(h)
               PROVE  /\ h[0] = Blank /\ \A j \in 1 .. N : h[j] = TakeToken(h[j - 1], t[j])
                      /\ h = [j \in 0 .. N |-> h[j]]
    OBVIOUS
  <2>1. 0 \in 0 .. N /\ \A j \in 1 .. N : j \in 0 .. N /\ j # 0
    BY <1>1
  <2>2. h = [j \in 0 .. N |-> h[j]]
    BY Zenon
  <2>3. h[0] = Blank
    BY <2>1
  <2>4. \A j \in 1 .. N : h[j] = TakeToken(h[j - 1], t[j])
    BY <2>1
  <2> QED BY <2>2, <2>3, <2>4
<1> HIDE DEF Fix, r
<1>9. \A j \in 0 .. N : r[j] \in Parses
  <2> DEFINE P == {j \in 0 .. N : r[j] \in Parses}
  <2>1. 0 \in P
    BY <1>1, <1>2, <1>6, <1>8
  <2>2. ASSUME NEW j \in 1 .. N, j - 1 \in P PROVE j \in P
    BY <1>1, <1>6, <1>8, <2>2, TakeTokenType
  <2> HIDE DEF P
  <2>3. 0 .. N \subseteq P
    BY <1>1, <2>1, <2>2, UpTo
  <2> QED BY <2>3 DEF P
<1>10. r \in [0 .. N -> Parses]
  BY <1>6, <1>8, <1>9
<1> QED BY <1>6, <1>7, <1>8, <1>10 DEF N

(* The end of a line.                                                      *)
LEMMA WellformedIs ==
  ASSUME NEW t \in Seq(Ops \cup Words)
  PROVE  Wellformed(t) <=> /\ GoodUpTo(t, Len(t))
                           /\ Len(t) > 0 => t[Len(t)] \notin RedirOps /\ t[Len(t)] # "|"
<1> DEFINE N == Len(t)
<1>1. N \in Nat /\ DOMAIN t = 1 .. N /\ (t # <<>> <=> N > 0) /\ (N > 0 => N \in 1 .. N)
  OBVIOUS
<1>2. Wellformed(t) <=>
        /\ \A i \in 1 .. N : t[i] \in RedirOps => i < N /\ t[i + 1] \notin Ops
        /\ \A i \in 1 .. N : t[i] \in Separators => i > 1 /\ t[i - 1] \notin Separators
        /\ N > 0 => t[N] # "|"
  BY <1>1, Zenon DEF Wellformed, Separators
<1> HIDE DEF N
<1>3. \A i \in 1 .. N : i < N \/ i = N
  BY <1>1
<1>4. ~(N < N)
  BY <1>1
<1>5. 1 .. N # {} => N > 0
  BY <1>1
<1>6. ASSUME Wellformed(t) PROVE GoodUpTo(t, N) /\ (N > 0 => t[N] \notin RedirOps /\ t[N] # "|")
  BY <1>1, <1>2, <1>4, <1>6, Zenon DEF GoodUpTo
<1>7. ASSUME GoodUpTo(t, N), N > 0 => t[N] \notin RedirOps /\ t[N] # "|" PROVE Wellformed(t)
  BY <1>1, <1>2, <1>3, <1>5, <1>7, Zenon DEF GoodUpTo
<1> QED BY <1>6, <1>7 DEF N

LEMMA FinishLineKeeps ==
  ASSUME NEW t \in Seq(Ops \cup Words), NEW s \in Parses,
         s.ok <=> GoodUpTo(t, Len(t)), s.ok => AtHand(t, Len(t), s)
  PROVE  LET n == FinishLine(s)
         IN  /\ n.ok = Wellformed(t)
             /\ n.ok => /\ WordsOfList(n.list) = Held(s) /\ BarsOfList(n.list) = Bars(s)
                        /\ Len(n.list) = Len(s.list) + (IF t = <<>> \/ Last(t) = ";" THEN 0 ELSE 1)
<1> DEFINE N == Len(t)
           n == FinishLine(s)
           last == t[N]
<1>1. /\ N \in Nat /\ (t # <<>> <=> N > 0) /\ (N = 0 <=> ~(N > 0))
      /\ N > 0 => last \in Ops \cup Words /\ Last(t) = last
  BY DEF Last
<1>2. Wellformed(t) <=> s.ok /\ (N > 0 => last \notin RedirOps /\ last # "|")
  BY WellformedIs, Zenon
<1>3. s.ok =>
        /\ N > 0 /\ last \in RedirOps => s.op = last
        /\ N = 0 \/ last \notin RedirOps => s.op = "none"
        /\ s.op = "none" => (s.cmd = NoCommand <=> N = 0 \/ last \in Separators)
        /\ N > 0 /\ last = "|" => s.pl # <<>>
        /\ N = 0 \/ last = ";" => s.pl = <<>>
  BY Zenon DEF AtHand
<1>4. n = IF ~s.ok \/ s.op # "none" THEN [s EXCEPT !.ok = FALSE]
          ELSE IF s.cmd = NoCommand /\ s.pl = <<>> THEN s ELSE FinishPipeline(s)
  BY Zenon DEF FinishLine
<1>5. s.ok \in BOOLEAN /\ Wellformed(t) \in BOOLEAN
  BY ParseParts, Zenon DEF Wellformed
<1>6. \A x : x \in Separators <=> x = ";" \/ x = "|"
  BY DEF Separators
<1> DEFINE a == WordsOfList(s.list)
           b == WordsOfPipeline(s.pl)
           c == WordsOf(s.cmd)
           d == BarsOfList(s.list)
           e == Len(s.pl)
           l == Len(s.list)
<1>7. /\ a \in Int /\ b \in Int /\ c \in Int /\ d \in Int /\ e \in Nat /\ l \in Nat
      /\ Bars(s) = d + e /\ (s.op = "none" => Held(s) = a + b + c)
  BY Counts DEF Bars
<1>8. l + 0 = l
  BY <1>7
<1> HIDE DEF N, n, last, a, b, c, d, e, l
<1>9. CASE ~s.ok \/ s.op # "none"
  <2>1. n = [s EXCEPT !.ok = FALSE]
    BY <1>4, <1>9
  <2>2. n.ok = FALSE
    BY <2>1 DEF Parses
  <2>3. ~Wellformed(t)
    BY <1>1, <1>2, <1>3, <1>9, Zenon
  <2> QED BY <1>5, <2>2, <2>3, Zenon DEF n
<1>10. CASE s.ok /\ s.op = "none" /\ s.cmd = NoCommand /\ s.pl = <<>>
  <2>1. n = s
    BY <1>4, <1>10
  <2>2. N = 0 \/ last = ";"
    BY <1>1, <1>3, <1>6, <1>10, Zenon
  <2>3. Wellformed(t)
    BY <1>1, <1>2, <1>10, <2>2, TokenFacts, Zenon
  <2>4. t = <<>> \/ Last(t) = ";"
    BY <1>1, <2>2, Zenon
  <2>5. b = 0 /\ c = 0 /\ e = 0
    <3>1. s.pl \in Pipelines /\ s.cmd \in Commands
      BY ParseParts
    <3>2. WordsOfPipeline(<<>>) = 0 /\ Len(<<>>) = 0
      BY <3>1, PipelineGrows
    <3> QED BY <1>10, <3>2, CommandFacts, Zenon DEF b, c, e
  <2>6. Held(s) = a /\ Bars(s) = d
    BY <1>7, <1>10, <2>5
  <2>7. n.ok = Wellformed(t)
    BY <1>5, <1>10, <2>1, <2>3, Zenon
  <2>8. Len(n.list) = l + (IF t = <<>> \/ Last(t) = ";" THEN 0 ELSE 1)
    BY <1>8, <2>1, <2>4, Zenon DEF l
  <2>9. WordsOfList(n.list) = Held(s) /\ BarsOfList(n.list) = Bars(s)
    BY <2>1, <2>6, Zenon DEF a, d
  <2> QED BY <2>7, <2>8, <2>9, Zenon DEF n, l
<1>11. CASE s.ok /\ s.op = "none" /\ ~(s.cmd = NoCommand /\ s.pl = <<>>)
  <2>1. n = FinishPipeline(s)
    BY <1>4, <1>11
  <2>2. /\ (n.ok <=> s.cmd # NoCommand) /\ n.ok \in BOOLEAN
        /\ s.cmd # NoCommand => n.list = Append(s.list, Append(s.pl, s.cmd))
    BY <1>11, <2>1, FinishPipelineFacts, ParseParts
  <2>3. N > 0 => last \notin RedirOps
    BY <1>3, <1>11, TokenFacts, Zenon
  <2>4. N > 0
    BY <1>1, <1>3, <1>11, Zenon
  <2>5. s.cmd = NoCommand <=> last = "|"
    <3>1. s.cmd = NoCommand <=> last = ";" \/ last = "|"
      BY <1>1, <1>3, <1>6, <1>11, <2>4, Zenon
    <3>2. last = ";" => s.pl = <<>>
      BY <1>3, <1>11, Zenon
    <3> QED BY <1>11, <3>1, <3>2, Zenon
  <2>6. Wellformed(t) <=> s.cmd # NoCommand
    BY <1>2, <1>11, <2>3, <2>4, <2>5, Zenon
  <2>7. n.ok = Wellformed(t)
    BY <1>5, <2>2, <2>6
  <2>8. ASSUME n.ok
        PROVE  /\ WordsOfList(n.list) = Held(s) /\ BarsOfList(n.list) = Bars(s)
               /\ Len(n.list) = l + (IF t = <<>> \/ Last(t) = ";" THEN 0 ELSE 1)
    <3> DEFINE pl == Append(s.pl, s.cmd)
    <3>1. n.list = Append(s.list, pl) /\ s.cmd # NoCommand
      BY <2>2, <2>8
    <3>2. pl \in Pipelines /\ Len(pl) = e + 1 /\ WordsOfPipeline(pl) = b + c
      BY ParseParts, PipelineGrows DEF b, c, e
    <3> HIDE DEF pl
    <3>3. /\ Len(n.list) = l + 1
          /\ WordsOfList(n.list) = a + WordsOfPipeline(pl)
          /\ BarsOfList(n.list) = d + (Len(pl) - 1)
      BY <3>1, <3>2, ParseParts, ListGrows DEF a, d, l
    <3>4. ~(t = <<>> \/ Last(t) = ";")
      BY <1>1, <1>3, <1>6, <1>11, <2>4, <3>1, Zenon
    <3>5. a + (b + c) = a + b + c /\ d + ((e + 1) - 1) = d + e
      BY <1>7
    <3> QED BY <1>7, <1>11, <3>2, <3>3, <3>4, <3>5, Zenon
  <2> QED BY <2>7, <2>8, Zenon DEF n, l
<1> QED BY <1>9, <1>10, <1>11, Zenon

LEMMA ParseIsRight ==
  ASSUME NEW t \in Seq(Ops \cup Words)
  PROVE  /\ Parse(t).ok = Wellformed(t)
         /\ Parse(t).ok => KeepsWords(t, Parse(t).list)
<1> DEFINE N == Len(t)
<1>0. \A kinds : \E w \in [0 .. N -> Int] :
        /\ Occurrences(t, kinds) = w[N] /\ w[0] = 0
        /\ \A j \in 1 .. N : w[j] = w[j - 1] + (IF t[j] \in kinds THEN 1 ELSE 0)
  BY OccurrenceSteps
<1>1. PICK f \in [0 .. N -> Parses] :
        /\ Parse(t) = FinishLine(f[N]) /\ f[0] = Blank
        /\ \A j \in 1 .. N : f[j] = TakeToken(f[j - 1], t[j])
  BY ParseSteps
<1>2. PICK w \in [0 .. N -> Int] :
        /\ Occurrences(t, RedirOps \cup Words) = w[N] /\ w[0] = 0
        /\ \A j \in 1 .. N : w[j] = w[j - 1] + (IF t[j] \in RedirOps \cup Words THEN 1 ELSE 0)
  BY <1>0, Zenon
<1>3. PICK b \in [0 .. N -> Int] :
        /\ Occurrences(t, {"|"}) = b[N] /\ b[0] = 0
        /\ \A j \in 1 .. N : b[j] = b[j - 1] + (IF t[j] \in {"|"} THEN 1 ELSE 0)
  BY <1>0, Zenon
<1>4. PICK c \in [0 .. N -> Int] :
        /\ Occurrences(t, {";"}) = c[N] /\ c[0] = 0
        /\ \A j \in 1 .. N : c[j] = c[j - 1] + (IF t[j] \in {";"} THEN 1 ELSE 0)
  BY <1>0, Zenon
<1>5. N \in Nat /\ 0 \in 0 .. N /\ N \in 0 .. N /\ (\A j \in 1 .. N : j - 1 \in 0 .. N /\ j \in 0 .. N)
  OBVIOUS
<1> DEFINE Counted(k) == Held(f[k]) = w[k] /\ Bars(f[k]) = b[k] /\ Len(f[k].list) = c[k]
           P == {k \in 0 .. N : /\ f[k].ok <=> GoodUpTo(t, k)
                                /\ f[k].ok => AtHand(t, k, f[k]) /\ Counted(k)}
<1>6. 0 \in P
  <2>1. GoodUpTo(t, 0)
    <3>1. 1 .. 0 = {}
      OBVIOUS
    <3> QED BY <3>1, Zenon DEF GoodUpTo
  <2>2. /\ Blank.ok = TRUE /\ Blank.op = "none" /\ Blank.cmd = NoCommand /\ Blank.pl = <<>>
        /\ Blank.list = <<>>
    BY DEF Blank
  <2>3. AtHand(t, 0, Blank)
    <3>1. ~(0 > 0)
      OBVIOUS
    <3> QED BY <2>2, <3>1, Zenon DEF AtHand
  <2>4. /\ WordsOfPipeline(<<>>) = 0 /\ WordsOfList(<<>>) = 0 /\ BarsOfList(<<>>) = 0
        /\ WordsOf(NoCommand) = 0 /\ Len(<<>>) = 0
    <3>1. <<>> \in Pipelines /\ <<>> \in Seq(Pipelines) /\ NoCommand \in Commands
      BY CommandFacts DEF Pipelines
    <3> QED BY <3>1, CommandFacts, PipelineGrows, ListGrows
  <2>5. Held(Blank) = 0 + 0 + 0 /\ Bars(Blank) = 0 + 0 /\ Len(Blank.list) = 0
    <3>1. Blank \in Parses
      BY <1>1, <1>5, Zenon
    <3> QED BY <2>2, <2>4, <3>1, Counts, Zenon DEF Bars
  <2>6. 0 + 0 + 0 = 0 /\ 0 + 0 = 0
    OBVIOUS
  <2> QED BY <1>1, <1>2, <1>3, <1>4, <1>5, <2>1, <2>2, <2>3, <2>5, <2>6, Zenon
<1>7. ASSUME NEW j \in 1 .. N, j - 1 \in P PROVE j \in P
  <2> DEFINE s == f[j - 1]
             n == f[j]
             x == t[j]
  <2>1. s \in Parses /\ n \in Parses /\ n = TakeToken(s, x) /\ x \in Ops \cup Words /\ j \in 1 .. Len(t)
    <3>1. x \in Ops \cup Words
      OBVIOUS
    <3>2. s \in Parses /\ n \in Parses
      BY <1>1, <1>5, Zenon
    <3> QED BY <1>1, <3>1, <3>2, Zenon
  <2>2. /\ s.ok <=> GoodUpTo(t, j - 1)
        /\ s.ok => /\ AtHand(t, j - 1, s) /\ Held(s) = w[j - 1] /\ Bars(s) = b[j - 1]
                   /\ Len(s.list) = c[j - 1]
    BY <1>7, Zenon
  <2>3. GoodUpTo(t, j) <=> GoodUpTo(t, j - 1) /\ Fits(t, j)
    BY GoodSoFar
  <2>4. /\ w[j] = w[j - 1] + (IF x \in RedirOps \cup Words THEN 1 ELSE 0)
        /\ b[j] = b[j - 1] + (IF x \in {"|"} THEN 1 ELSE 0)
        /\ c[j] = c[j - 1] + (IF x \in {";"} THEN 1 ELSE 0)
    BY <1>2, <1>3, <1>4, Zenon
  <2> HIDE DEF s, n, x, P
  <2>5. CASE ~s.ok
    <3>1. n = s
      BY <2>1, <2>5 DEF TakeToken
    <3>2. ~GoodUpTo(t, j) /\ ~n.ok
      BY <2>2, <2>3, <2>5, <3>1, Zenon
    <3> QED BY <1>5, <3>2, Zenon DEF P, n
  <2>6. CASE s.ok
    <3>1. /\ n.ok <=> Fits(t, j)
          /\ n.ok => AtHand(t, j, n) /\ Grown(s, n, x)
      BY <2>1, <2>2, <2>6, TakeTokenKeeps, Zenon DEF x
    <3>2. n.ok <=> GoodUpTo(t, j)
      BY <2>2, <2>3, <2>6, <3>1, Zenon
    <3>3. n.ok => Held(n) = w[j] /\ Bars(n) = b[j] /\ Len(n.list) = c[j]
      BY <2>2, <2>4, <2>6, <3>1, Zenon DEF Grown
    <3> QED BY <1>5, <3>1, <3>2, <3>3, Zenon DEF P, n
  <2> QED BY <2>5, <2>6
<1> HIDE DEF P, N
<1>8. 0 .. N \subseteq P
  BY <1>5, <1>6, <1>7, UpTo
<1> DEFINE s == f[N]
           n == FinishLine(s)
<1>9. /\ s \in Parses /\ (s.ok <=> GoodUpTo(t, N))
      /\ s.ok => AtHand(t, N, s) /\ Held(s) = w[N] /\ Bars(s) = b[N] /\ Len(s.list) = c[N]
  BY <1>1, <1>5, <1>8, Zenon DEF P
<1> HIDE DEF s
<1>10. /\ n.ok = Wellformed(t)
       /\ n.ok => /\ WordsOfList(n.list) = Held(s) /\ BarsOfList(n.list) = Bars(s)
                  /\ Len(n.list) = Len(s.list) + (IF t = <<>> \/ Last(t) = ";" THEN 0 ELSE 1)
  BY <1>9, FinishLineKeeps, Zenon DEF N
<1>11. n.ok => s.ok
  <2>1. Wellformed(t) => GoodUpTo(t, N)
    BY WellformedIs, Zenon DEF N
  <2> QED BY <1>9, <1>10, <2>1, Zenon
<1>12. Parse(t) = n
  BY <1>1 DEF s
<1> HIDE DEF n
<1>13. ASSUME n.ok PROVE KeepsWords(t, n.list)
  <2>1. Occurrences(t, RedirOps \cup Words) = WordsOfList(n.list)
    BY <1>2, <1>9, <1>10, <1>11, <1>13, Zenon
  <2>2. Occurrences(t, {"|"}) = BarsOfList(n.list)
    BY <1>3, <1>9, <1>10, <1>11, <1>13, Zenon
  <2>3. Occurrences(t, {";"}) = Len(n.list) - (IF t = <<>> \/ Last(t) = ";" THEN 0 ELSE 1)
    <3> DEFINE o == Occurrences(t, {";"})
               p == t = <<>> \/ Last(t) = ";"
               m == Len(n.list)
    <3>1. m = o + (IF p THEN 0 ELSE 1)
      BY <1>4, <1>9, <1>10, <1>11, <1>13, Zenon
    <3>2. o \in Int
      BY <1>4, <1>5
    <3> HIDE DEF o, p, m
    <3>3. o = m - (IF p THEN 0 ELSE 1)
      BY <3>1, <3>2
    <3> QED BY <3>3 DEF o, p, m
  <2> QED BY <2>1, <2>2, <2>3, Zenon DEF KeepsWords, WordsOfList, BarsOfList
<1> QED BY <1>10, <1>12, <1>13, Zenon

(* What the shell keeps of its lines is what parse makes of them.          *)
LinesParsed ==
  /\ script.lines \in Seq(Seq(Ops \cup Words))
  /\ \A i \in DOMAIN script.lines : script.parsed[i] = Parse(script.lines[i])

(* mbsh accepts the lines of its grammar and no other, and no word, pipe   *)
(* or separator of a line is lost, for every script.                       *)
THEOREM LinesAreParsed == MbshSpec => []ParsesGrammar
<1>1. MbshInit => LinesParsed
  BY DEF MbshInit, LinesParsed
<1>2. LinesParsed /\ [MbshNext]_bvars => LinesParsed'
  <2> SUFFICES ASSUME LinesParsed, [MbshNext]_bvars PROVE LinesParsed'
    OBVIOUS
  <2>1. CASE MbshStart
    <3>1. PICK s \in Scripts :
            script' = [lines |-> s.lines, pipes |-> s.pipes,
                       parsed |-> [i \in DOMAIN s.lines |-> Parse(s.lines[i])]]
      BY <2>1 DEF MbshStart
    <3>2. s.lines \in Seq(Seq(Ops \cup Words))
      BY ScriptAssumption
    <3>3. /\ script'.lines = s.lines
          /\ script'.parsed = [i \in DOMAIN s.lines |-> Parse(s.lines[i])]
      BY <3>1
    <3> QED BY <3>2, <3>3, Zenon DEF LinesParsed
  <2>2. CASE UNCHANGED script
    BY <2>2 DEF LinesParsed
  <2>3. MbshStep => UNCHANGED script
    BY DEF MbshStep, ShellStep, ReadLine, EndOfList, RunSimple, RefusePipeline, WirePipeline,
           CloseEnds, WaitStages, StartStage, StageStep
  <2>4. UNCHANGED bvars => UNCHANGED script
    BY DEF bvars
  <2> QED BY <2>1, <2>2, <2>3, <2>4 DEF MbshNext
<1>3. LinesParsed => ParsesGrammar
  <2> SUFFICES ASSUME LinesParsed, NEW i \in DOMAIN script.lines
               PROVE  /\ script.parsed[i].ok = Wellformed(script.lines[i])
                      /\ script.parsed[i].ok => KeepsWords(script.lines[i], script.parsed[i].list)
    BY DEF ParsesGrammar
  <2>1. script.lines[i] \in Seq(Ops \cup Words) /\ script.parsed[i] = Parse(script.lines[i])
    <3> DEFINE T == Seq(Ops \cup Words)
    <3>1. script.lines \in Seq(T) /\ script.parsed[i] = Parse(script.lines[i])
      BY DEF LinesParsed
    <3> HIDE DEF T
    <3>2. script.lines[i] \in T
      BY <3>1
    <3> QED BY <3>1, <3>2 DEF T
  <2> QED BY <2>1, ParseIsRight, Zenon
<1> QED BY <1>1, <1>2, <1>3, PTL DEF MbshSpec
=============================================================================
