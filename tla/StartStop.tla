----------------------------- MODULE StartStop -----------------------------
(***************************************************************************)
(* start-stop-daemon (loginutils/startstopdaemon): administrators start    *)
(* and stop one daemon, which is known by the pid in a pidfile.  Reading   *)
(* the file, testing the process, starting or signalling, and writing or   *)
(* removing the file are steps between which anything may happen.          *)
(***************************************************************************)
EXTENDS Naturals, FiniteSets

CONSTANTS
  Admins,       \* processes that run start-stop-daemon
  MaxDaemons,   \* bound: number of processes that are ever started
  MaxStops      \* bound: number of invocations with -K

VARIABLES
  spc,      \* "idle", "read", "test", "act" or "file"
  sop,      \* "start" or "stop"
  sread,    \* the pid read from the pidfile (0: there is none), or started
  pidfile,  \* the pid in the file, 0 when the file is missing
  alive,    \* pids of running daemons
  told,     \* pids that -K has signalled
  started,  \* number of daemons started: the last pid
  stops,    \* number of stops so far
  orderly   \* no two invocations overlapped and none was killed

svars == <<spc, sop, sread, pidfile, alive, told, started, stops, orderly>>

StartStopInit ==
  /\ spc = [a \in Admins |-> "idle"] /\ sop = [a \in Admins |-> "start"]
  /\ sread = [a \in Admins |-> 0]
  /\ pidfile = 0 /\ alive = {} /\ told = {} /\ started = 0 /\ stops = 0 /\ orderly = TRUE

-----------------------------------------------------------------------------
Goes(a, label) == spc' = [spc EXCEPT ![a] = label]
Done(a) == /\ Goes(a, "idle") /\ sread' = [sread EXCEPT ![a] = 0]

Invoke(a) ==
  /\ spc[a] = "idle"
  /\ \E op \in {"start", "stop"} :
       /\ sop' = [sop EXCEPT ![a] = op]
       /\ stops' = IF op = "stop" THEN stops + 1 ELSE stops
       /\ IF op = "stop" THEN stops < MaxStops ELSE started < MaxDaemons
  /\ Goes(a, "read")
  /\ orderly' = (orderly /\ \A b \in Admins : spc[b] = "idle")
  /\ UNCHANGED <<sread, pidfile, alive, told, started>>

(* readPidfile.                                                            *)
ReadPidfile(a) ==
  /\ spc[a] = "read"
  /\ sread' = [sread EXCEPT ![a] = pidfile] /\ Goes(a, "test")
  /\ UNCHANGED <<sop, pidfile, alive, told, started, stops, orderly>>

(* isRunning: -S goes on when the daemon does not run, -K when it does.    *)
TestRunning(a) ==
  /\ spc[a] = "test"
  /\ IF (sread[a] \in alive) = (sop[a] = "stop") THEN Goes(a, "act") /\ UNCHANGED sread ELSE Done(a)
  /\ UNCHANGED <<sop, pidfile, alive, told, started, stops, orderly>>

StartDaemon(a) ==
  /\ spc[a] = "act" /\ sop[a] = "start" /\ started < MaxDaemons
  /\ started' = started + 1 /\ alive' = alive \cup {started'}
  /\ sread' = [sread EXCEPT ![a] = started'] /\ Goes(a, "file")
  /\ UNCHANGED <<sop, pidfile, told, stops, orderly>>

CannotStart(a) ==
  /\ spc[a] = "act" /\ sop[a] = "start" /\ Done(a)
  /\ UNCHANGED <<sop, pidfile, alive, told, started, stops, orderly>>

(* The signal, if the process still is there; it asks the daemon to end.   *)
SignalDaemon(a) ==
  /\ spc[a] = "act" /\ sop[a] = "stop"
  /\ IF sread[a] \in alive
       THEN told' = told \cup {sread[a]} /\ Goes(a, "file") /\ UNCHANGED sread
       ELSE Done(a) /\ UNCHANGED told
  /\ UNCHANGED <<sop, pidfile, alive, started, stops, orderly>>

WriteForgotten(a) ==   \* mutant: a start leaves the pidfile as it was
  /\ spc[a] = "file" /\ Done(a)
  /\ pidfile' = IF sop[a] = "start" THEN pidfile ELSE 0
  /\ UNCHANGED <<sop, alive, told, started, stops, orderly>>

(* -S writes its daemon's pid, -K removes the file, whatever is in it now. *)
WriteOrRemove(a) ==
  /\ spc[a] = "file" /\ Done(a)
  /\ pidfile' = IF sop[a] = "start" THEN sread[a] ELSE 0
  /\ UNCHANGED <<sop, alive, told, started, stops, orderly>>

(* The environment: daemons end, also unasked, and invocations are killed  *)
(* (or cannot write the pidfile).                                          *)
DaemonEnds(d) ==
  /\ d \in alive /\ alive' = alive \ {d}
  /\ UNCHANGED <<spc, sop, sread, pidfile, told, started, stops, orderly>>

AdminKilled(a) ==
  /\ spc[a] \in {"act", "file"} /\ Done(a) /\ orderly' = FALSE
  /\ UNCHANGED <<sop, pidfile, alive, told, started, stops>>

StartStopStep ==
  \/ \E a \in Admins : \/ Invoke(a) \/ ReadPidfile(a) \/ TestRunning(a) \/ StartDaemon(a)
                       \/ CannotStart(a) \/ SignalDaemon(a) \/ WriteOrRemove(a) \/ AdminKilled(a)
  \/ \E d \in alive : DaemonEnds(d)

StartStopSpec == StartStopInit /\ [][StartStopStep]_svars

-----------------------------------------------------------------------------
(* Properties. *)

StartStopTypeOK ==
  /\ spc \in [Admins -> {"idle", "read", "test", "act", "file"}]
  /\ sop \in [Admins -> {"start", "stop"}]
  /\ sread \in [Admins -> Nat] /\ pidfile \in Nat
  /\ alive \subseteq 1 .. started /\ told \subseteq 1 .. started
  /\ started \in Nat /\ stops \in Nat /\ orderly \in BOOLEAN

(* As long as invocations follow one another and none is killed halfway,   *)
(* the pidfile names every running daemon that was not told to stop: there *)
(* is one at most, and a stop reaches it.                                  *)
Tracked ==
  orderly =>
    \A d \in alive \ told :
      pidfile = d \/ \E a \in Admins : spc[a] = "file" /\ sop[a] = "start" /\ sread[a] = d
=============================================================================
