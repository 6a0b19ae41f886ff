---------------------------- MODULE ConnServer ----------------------------
(***************************************************************************)
(* The accept loop of tcpsvd, udpsvd, telnetd, fakeidentd and of one       *)
(* service of inetd, as a function that may be cancelled: the goroutine    *)
(* that closes the socket on cancellation, the loop, one goroutine per     *)
(* accepted stream connection counted by a WaitGroup, and, inside the      *)
(* handler, the program os/exec runs, what that program leaves running in  *)
(* the background, and the two goroutines that copy the connection to the  *)
(* program's standard input and its output to the connection.              *)
(*                                                                         *)
(* The state after a loop has returned is that of the goroutines it left   *)
(* behind; that the applet's process soon ends is not modelled.            *)
(***************************************************************************)
EXTENDS Naturals, Integers, FiniteSets

CONSTANTS
  Services,   \* listening sockets, each with its loop
  Stream,     \* those that are TCP; the others receive datagrams
  Exec,       \* those whose handler runs a program; fakeidentd's reads a line
  Conns,      \* connections and datagrams, each made at most once
  SvcOf,      \* the service each one is for
  MayFail     \* whether accept or starting a program may fail by itself

ASSUME ServiceAssumption == Stream \subseteq Services /\ Exec \subseteq Services
ASSUME ConnAssumption    == SvcOf \in [Conns -> Services] /\ IsFiniteSet(Conns)
ASSUME FailAssumption    == MayFail \in BOOLEAN

VARIABLES
  cancelled,  \* ctx is done
  sock,       \* each service's socket: unbound, open, closed
  loop,       \* off, accept, inline (in a datagram's handler), wait, ok, failed
  wg,         \* the loop's WaitGroup
  conn,       \* none, backlog, spawned, running, closed, reset
  prog,       \* the handler's program: none, alive, exited; orphans when it is
              \* gone and a descendant of it still holds its pipes
  input,      \* whether the handler still reads the connection: reading, done
  output,     \* whether it still copies the program's output: copying, done
  client,     \* away, open, gone
  unread      \* whether the client has sent bytes the handler has not read

vars == <<cancelled, sock, loop, wg, conn, prog, input, output, client, unread>>
copiers == <<input, output>>
clients == <<client, unread>>

Active(c)  == conn[c] \in {"spawned", "running"}
Handlers(s) == {c \in Conns : SvcOf[c] = s /\ Active(c)}

TypeOK ==
  /\ cancelled \in BOOLEAN
  /\ sock   \in [Services -> {"unbound", "open", "closed"}]
  /\ loop   \in [Services -> {"off", "accept", "inline", "wait", "ok", "failed"}]
  /\ wg     \in [Services -> Nat]
  /\ conn   \in [Conns -> {"none", "backlog", "spawned", "running", "closed", "reset"}]
  /\ prog   \in [Conns -> {"none", "alive", "orphans", "exited"}]
  /\ input  \in [Conns -> {"reading", "done"}]
  /\ output \in [Conns -> {"copying", "done"}]
  /\ client \in [Conns -> {"away", "open", "gone"}]
  /\ unread \in [Conns -> BOOLEAN]

InitConns ==
  /\ cancelled = FALSE
  /\ wg     = [s \in Services |-> 0]
  /\ conn   = [c \in Conns |-> "none"]
  /\ prog   = [c \in Conns |-> "none"]
  /\ input  = [c \in Conns |-> "reading"]
  /\ output = [c \in Conns |-> "done"]
  /\ client = [c \in Conns |-> "away"]
  /\ unread = [c \in Conns |-> FALSE]

(* Each applet serves one socket; the others are not there. *)
Init ==
  /\ InitConns
  /\ \E s \in Services :
       /\ sock = [t \in Services |-> IF t = s THEN "open" ELSE "unbound"]
       /\ loop = [t \in Services |-> IF t = s THEN "accept" ELSE "off"]

-----------------------------------------------------------------------------
(* The peers and the administrator. *)

(* A datagram is all its sender ever says. *)
Connect(c) ==
  /\ conn[c] = "none" /\ sock[SvcOf[c]] = "open"
  /\ conn'   = [conn EXCEPT ![c] = "backlog"]
  /\ IF SvcOf[c] \in Stream
     THEN /\ client' = [client EXCEPT ![c] = "open"]
          /\ UNCHANGED unread
     ELSE /\ client' = [client EXCEPT ![c] = "gone"]
          /\ unread' = [unread EXCEPT ![c] = TRUE]
  /\ UNCHANGED <<cancelled, sock, loop, wg, prog, copiers>>

(* What nobody reads any more is of no consequence. *)
Send(c) ==
  /\ client[c] = "open" /\ ~unread[c] /\ input[c] = "reading"
  /\ unread' = [unread EXCEPT ![c] = TRUE]
  /\ UNCHANGED <<cancelled, sock, loop, wg, conn, prog, copiers, client>>

Leave(c) ==
  /\ client[c] = "open"
  /\ client' = [client EXCEPT ![c] = "gone"]
  /\ UNCHANGED <<cancelled, sock, loop, wg, conn, prog, copiers, unread>>

Cancel ==
  /\ ~cancelled
  /\ cancelled' = TRUE
  /\ UNCHANGED <<sock, loop, wg, conn, prog, copiers, clients>>

-----------------------------------------------------------------------------
(* The loop. *)

(* Closing the socket resets what waits in its queue. *)
CloseSocket(S) ==
  LET lost == {c \in Conns : SvcOf[c] \in S /\ conn[c] = "backlog"} IN
  /\ sock'   = [s \in Services |-> IF s \in S THEN "closed" ELSE sock[s]]
  /\ conn'   = [c \in Conns |-> IF c \in lost THEN "reset" ELSE conn[c]]
  /\ client' = [c \in Conns |-> IF c \in lost THEN "gone" ELSE client[c]]
  /\ unread' = [c \in Conns |-> unread[c] /\ c \notin lost]

CloseOnCancel(s) ==
  /\ cancelled /\ sock[s] = "open"
  /\ CloseSocket({s})
  /\ UNCHANGED <<cancelled, loop, wg, prog, copiers>>

(* A stream gets a goroutine that is counted before it starts; a datagram  *)
(* is serviced by the loop.                                                *)
Accept(c) ==
  LET s == SvcOf[c] IN
  /\ conn[c] = "backlog" /\ loop[s] = "accept" /\ sock[s] = "open"
  /\ conn' = [conn EXCEPT ![c] = "spawned"]
  /\ IF s \in Stream
     THEN wg' = [wg EXCEPT ![s] = @ + 1] /\ UNCHANGED loop
     ELSE loop' = [loop EXCEPT ![s] = "inline"] /\ UNCHANGED wg
  /\ UNCHANGED <<cancelled, sock, prog, copiers, clients>>

AcceptError(s) ==
  /\ loop[s] = "accept" /\ (sock[s] = "closed" \/ MayFail)
  /\ loop' = [loop EXCEPT ![s] = IF cancelled THEN "wait" ELSE "failed"]
  /\ UNCHANGED <<cancelled, sock, wg, conn, prog, copiers, clients>>

WaitDone(s) ==
  /\ loop[s] = "wait" /\ wg[s] = 0
  /\ loop' = [loop EXCEPT ![s] = "ok"]
  /\ UNCHANGED <<cancelled, sock, wg, conn, prog, copiers, clients>>

-----------------------------------------------------------------------------
(* The handler. *)

(* Closing the connection, which drops what was not read and ends what     *)
(* concerns its peer; then wg.Done, or back to the loop.                   *)
Finish(c) ==
  LET s == SvcOf[c] IN
  /\ conn'   = [conn EXCEPT ![c] = "closed"]
  /\ client' = [client EXCEPT ![c] = "gone"]
  /\ unread' = [unread EXCEPT ![c] = FALSE]
  /\ IF s \in Stream
     THEN wg' = [wg EXCEPT ![s] = @ - 1] /\ UNCHANGED loop
     ELSE loop' = [loop EXCEPT ![s] = "accept"] /\ UNCHANGED wg

(* exec.CommandContext starts nothing once ctx is done. *)
StartHandler(c) ==
  /\ conn[c] = "spawned"
  /\ SvcOf[c] \in Exec => ~cancelled
  /\ conn' = [conn EXCEPT ![c] = "running"]
  /\ IF SvcOf[c] \in Exec
     THEN /\ prog'   = [prog EXCEPT ![c] = "alive"]
          /\ output' = [output EXCEPT ![c] = "copying"]
     ELSE UNCHANGED <<prog, output>>
  /\ UNCHANGED <<cancelled, sock, loop, wg, input, clients>>

StartFails(c) ==
  /\ conn[c] = "spawned" /\ SvcOf[c] \in Exec
  /\ cancelled \/ MayFail
  /\ Finish(c)
  /\ UNCHANGED <<cancelled, sock, prog, copiers>>

(* What ends a program does not end what it started in the background.     *)
Dies(c) ==
  /\ \/ prog' = [prog EXCEPT ![c] = "exited"]
     \/ prog' = [prog EXCEPT ![c] = "orphans"]
  /\ UNCHANGED <<cancelled, sock, loop, wg, conn, copiers, clients>>

ProgExit(c)    == prog[c] = "alive" /\ Dies(c)
KillProgram(c) == cancelled /\ prog[c] = "alive" /\ Dies(c)

OrphansEnd(c) ==
  /\ prog[c] = "orphans"
  /\ prog' = [prog EXCEPT ![c] = "exited"]
  /\ UNCHANGED <<cancelled, sock, loop, wg, conn, copiers, clients>>

ReadInputDeaf(c) ==          \* mutant: the peer's close is not noticed
  /\ conn[c] = "running" /\ input[c] = "reading" /\ unread[c]
  /\ unread' = [unread EXCEPT ![c] = FALSE]
  /\ \/ prog[c] \in {"alive", "orphans"} /\ UNCHANGED input
     \/ input' = [input EXCEPT ![c] = "done"]
  /\ UNCHANGED <<cancelled, sock, loop, wg, conn, prog, output, client>>

(* The goroutine of os/exec that feeds the program reads until the peer    *)
(* has closed, or until what it has read meets the pipe nobody reads any   *)
(* more: the program may close it, and it is closed for certain once the   *)
(* program and its descendants are gone.  fakeidentd's handler has no      *)
(* program and is content with one line.                                   *)
ReadInput(c) ==
  /\ conn[c] = "running" /\ input[c] = "reading"
  /\ \/ /\ unread[c]
        /\ unread' = [unread EXCEPT ![c] = FALSE]
        /\ \/ prog[c] \in {"alive", "orphans"} /\ UNCHANGED input
           \/ input' = [input EXCEPT ![c] = "done"]
     \/ /\ ~unread[c] /\ client[c] = "gone"
        /\ input' = [input EXCEPT ![c] = "done"]
        /\ UNCHANGED unread
  /\ UNCHANGED <<cancelled, sock, loop, wg, conn, prog, output, client>>

(* The other one copies until the last writer of the pipe has closed it,   *)
(* or until writing to a peer that has gone fails.                         *)
CopyOutput(c) ==
  /\ conn[c] = "running" /\ output[c] = "copying"
  /\ prog[c] = "exited" \/ client[c] = "gone"
  /\ output' = [output EXCEPT ![c] = "done"]
  /\ UNCHANGED <<cancelled, sock, loop, wg, conn, prog, input, clients>>

HandlerReturnEarly(c) ==     \* mutant: cmd.Wait does not wait for the program
  /\ conn[c] = "running" /\ input[c] = "done"
  /\ Finish(c)
  /\ UNCHANGED <<cancelled, sock, prog, copiers>>

(* cmd.Wait waits for the program and for both goroutines.                 *)
HandlerReturn(c) ==
  /\ conn[c] = "running" /\ prog[c] # "alive" /\ input[c] = "done" /\ output[c] = "done"
  /\ Finish(c)
  /\ UNCHANGED <<cancelled, sock, prog, copiers>>

-----------------------------------------------------------------------------
Server(c) == \/ Accept(c) \/ StartHandler(c) \/ StartFails(c)
             \/ KillProgram(c) \/ ReadInput(c) \/ CopyOutput(c) \/ HandlerReturn(c)
Peer(c)   == Connect(c) \/ Send(c) \/ Leave(c) \/ ProgExit(c) \/ OrphansEnd(c)
Loop(s)   == CloseOnCancel(s) \/ AcceptError(s) \/ WaitDone(s)

Next ==
  \/ Cancel
  \/ \E c \in Conns : Server(c) \/ Peer(c)
  \/ \E s \in Services : Loop(s)

Spec == Init /\ [][Next]_vars

(* What the runtime schedules, the order of the listen queue and the death *)
(* of a killed program bring about for a connection.  A program that does  *)
(* not read may keep the goroutine that feeds it waiting, and a peer that  *)
(* does not, the one that copies the output: both end for certain when the *)
(* other end of what they wait for is gone.  Each of these steps is taken  *)
(* finitely often, so that fairness to all is fairness to each.            *)
Handle(c) ==
  \/ Accept(c) \/ StartHandler(c) \/ StartFails(c) \/ KillProgram(c) \/ HandlerReturn(c)
  \/ prog[c] \in {"none", "exited"} /\ ReadInput(c)
  \/ prog[c] = "exited" /\ client[c] = "gone" /\ CopyOutput(c)

(* Every peer hangs up one day, and what a program has left running in the *)
(* background ends; nothing in the server makes them.                      *)
LetGo(c) == Leave(c) \/ OrphansEnd(c)

-----------------------------------------------------------------------------
(* Owned connections "are awaited on shutdown": when a loop returns        *)
(* without an error, no handler of its service is left, not even one whose *)
(* goroutine has not run yet, and no program.                              *)
Awaited ==
  \A s \in Services : loop[s] = "ok" =>
    \A c \in Conns : SvcOf[c] = s => ~Active(c) /\ prog[c] # "alive"

(* What Awaited rests on.  The WaitGroup counts the handlers of a stream   *)
(* service, those whose goroutine has yet to run included; a datagram      *)
(* service has one handler, while the loop is in it, or none; a program    *)
(* lives only inside a running handler.                                    *)
Counted == \A s \in Stream : wg[s] = Cardinality(Handlers(s))
Serial ==
  /\ \A s \in Stream : loop[s] # "inline"
  /\ \A s \in Services \ Stream :
       /\ wg[s] = 0
       /\ loop[s] # "inline" => Handlers(s) = {}
       /\ \A c, d \in Handlers(s) : c = d
ProgramsRun == \A c \in Conns : prog[c] = "alive" => conn[c] = "running"

(* What the cancellation brings about: no program of a handler lives, and  *)
(* every loop that was started has returned.                               *)
Ended(s) == loop[s] \in {"off", "ok", "failed"}
ShutDown == /\ \A c \in Conns : prog[c] # "alive"
            /\ \A s \in Services : Ended(s)
=============================================================================
