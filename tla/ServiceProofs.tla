---------------------------- MODULE ServiceProofs ----------------------------
(***************************************************************************)
(* Servers: a loop that returns without an error has awaited its handlers: *)
(* the WaitGroup always equals the number of connections whose handler has *)
(* been spawned and has not returned, for any number of services and       *)
(* connections.                                                            *)
(*                                                                         *)
(* Supervision: a runsv never starts a child over a living one: whatever   *)
(* is killed, removed or fails, a child that runs is the one its runsv     *)
(* waits for.                                                              *)
(***************************************************************************)
EXTENDS Inetd, Runit, FiniteSetTheorems, SequenceTheorems, TLAPS

(* Awaited, for loops that have not started as well.                       *)
Quiesced ==
  \A s \in Services : loop[s] \in {"off", "ok"} =>
    \A c \in Conns : SvcOf[c] = s => ~Active(c) /\ prog[c] # "alive"

(* The inductive invariant: Awaited alone says nothing of a loop that      *)
(* still waits.                                                            *)
IInv == TypeOK /\ Counted /\ Serial /\ ProgramsRun /\ Quiesced

(* The three ways a step touches handlers: one begins, one ends, or the    *)
(* set of handlers and the WaitGroups stay as they are.                    *)
Begins(c) ==
  /\ loop[SvcOf[c]] = "accept"
  /\ conn[c] = "backlog" /\ conn' = [conn EXCEPT ![c] = "spawned"]
  /\ IF SvcOf[c] \in Stream
     THEN wg' = [wg EXCEPT ![SvcOf[c]] = @ + 1] /\ UNCHANGED loop
     ELSE loop' = [loop EXCEPT ![SvcOf[c]] = "inline"] /\ UNCHANGED wg
  /\ UNCHANGED prog
Ends(c) == Active(c) /\ prog[c] # "alive" /\ Finish(c) /\ UNCHANGED prog
LoopMoves ==
  \A s \in Services :
    \/ loop'[s] = loop[s]
    \/ loop[s] = "off" /\ loop'[s] = "accept"
    \/ loop[s] = "accept" /\ loop'[s] \in {"wait", "failed"}
    \/ loop[s] = "wait" /\ wg[s] = 0 /\ loop'[s] = "ok"
Quiet ==
  /\ \A c \in Conns : Active(c)' = Active(c)
  /\ \A c \in Conns : prog'[c] = "alive" => conn'[c] = "running"
  /\ \A c \in Conns : ~Active(c) => ~Active(c)' 
  /\ UNCHANGED wg /\ LoopMoves

(* The service of a connection is a service, and its handlers are finite.  *)
LEMMA Facts ==
  /\ \A c \in Conns : SvcOf[c] \in Services
  /\ \A s : IsFiniteSet(Handlers(s)) /\ IsFiniteSet(Handlers(s)')
<1>1. \A s : Handlers(s) \in SUBSET Conns /\ Handlers(s)' \in SUBSET Conns
  BY DEF Handlers
<1> QED BY <1>1, ConnAssumption, FS_Subset

(* Initially nothing is handled.                                           *)
LEMMA InitIInv == InitConns /\ (\A s \in Services : loop[s] \in {"off", "accept"})
                  /\ TypeOK => IInv
<1> SUFFICES ASSUME InitConns, TypeOK,
                    \A s \in Services : loop[s] \in {"off", "accept"}
             PROVE  IInv
  OBVIOUS
<1>1. \A s : Handlers(s) = {}
  BY DEF Handlers, Active, InitConns
<1>2. Counted
  BY <1>1, FS_EmptySet, ServiceAssumption DEF Counted, InitConns
<1>3. Serial
  BY <1>1, ServiceAssumption DEF Serial, InitConns
<1>4. ProgramsRun /\ Quiesced
  BY Facts DEF ProgramsRun, Quiesced, InitConns, Active
<1> QED BY <1>2, <1>3, <1>4 DEF IInv

(* The WaitGroup is positive while a stream has a handler.                 *)
LEMMA Positive ==
  ASSUME IInv, NEW c \in Conns, Active(c), SvcOf[c] \in Stream
  PROVE  wg[SvcOf[c]] \in Nat /\ wg[SvcOf[c]] - 1 \in Nat
<1> DEFINE s == SvcOf[c]
<1>1. c \in Handlers(s)
  BY DEF Handlers
<1>2. wg[s] \in Nat /\ wg[s] = Cardinality(Handlers(s))
  BY Facts DEF IInv, TypeOK, Counted
<1>3. wg[s] # 0
  BY <1>1, <1>2, Facts, FS_EmptySet
<1> QED BY <1>2, <1>3

(* Every step preserves the type invariant.                                *)
LEMMA TypeStep == IInv /\ Next => TypeOK'
<1> SUFFICES ASSUME IInv, Next PROVE TypeOK'
  OBVIOUS
<1> USE Facts DEF TypeOK
<1>1. ASSUME NEW c \in Conns, Active(c), Finish(c),
             UNCHANGED <<cancelled, sock, prog, copiers>>
      PROVE  TypeOK'
  <2>1. conn' \in [Conns -> {"none", "backlog", "spawned", "running", "closed", "reset"}]
    BY <1>1 DEF Finish, IInv
  <2>2. SvcOf[c] \in Services /\ loop' \in {loop, [loop EXCEPT ![SvcOf[c]] = "accept"]}
    BY <1>1 DEF Finish
  <2>3. loop' \in [Services -> {"off", "accept", "inline", "wait", "ok", "failed"}]
    BY <2>2 DEF IInv
  <2>4. wg' \in [Services -> Nat]
    <3>1. CASE SvcOf[c] \in Stream
      <4>1. wg[SvcOf[c]] - 1 \in Nat
        BY <1>1, <3>1, Positive
      <4>2. wg' = [wg EXCEPT ![SvcOf[c]] = wg[SvcOf[c]] - 1]
        BY <1>1, <3>1 DEF Finish
      <4> QED BY <4>1, <4>2 DEF IInv
    <3>2. CASE SvcOf[c] \notin Stream
      BY <1>1, <3>2 DEF Finish, IInv
    <3> QED BY <3>1, <3>2
  <2>5. /\ client' \in [Conns -> {"away", "open", "gone"}]
        /\ unread' \in [Conns -> BOOLEAN]
    BY <1>1 DEF Finish, IInv
  <2> QED BY <1>1, <2>1, <2>3, <2>4, <2>5 DEF IInv, copiers
<1>2. CASE Cancel
  BY <1>2 DEF Cancel, IInv, clients, copiers
<1>3. ASSUME NEW c \in Conns, Server(c) PROVE TypeOK'
  <2>1. CASE Accept(c)
    BY <2>1 DEF Accept, IInv, clients, copiers
  <2>2. CASE StartHandler(c)
    <3>1. /\ prog' \in {prog, [prog EXCEPT ![c] = "alive"]}
          /\ output' \in {output, [output EXCEPT ![c] = "copying"]}
          /\ conn' = [conn EXCEPT ![c] = "running"]
          /\ UNCHANGED <<cancelled, sock, loop, wg, input, client, unread>>
      BY <2>2 DEF StartHandler, clients
    <3>2. /\ prog' \in [Conns -> {"none", "alive", "orphans", "exited"}]
          /\ output' \in [Conns -> {"copying", "done"}]
          /\ conn' \in [Conns -> {"none", "backlog", "spawned", "running", "closed", "reset"}]
      BY <3>1 DEF IInv
    <3> QED BY <3>1, <3>2 DEF IInv
  <2>3. CASE StartFails(c)
    <3>1. Active(c) /\ Finish(c) /\ UNCHANGED <<cancelled, sock, prog, copiers>>
      BY <2>3 DEF StartFails, Active
    <3> QED BY <1>1, <3>1
  <2>4. CASE KillProgram(c)
    BY <2>4 DEF KillProgram, Dies, IInv, clients, copiers
  <2>5. CASE ReadInput(c)
    BY <2>5 DEF ReadInput, IInv
  <2>7. CASE CopyOutput(c)
    BY <2>7 DEF CopyOutput, IInv, clients
  <2>6. CASE HandlerReturn(c)
    <3>1. Active(c) /\ Finish(c) /\ UNCHANGED <<cancelled, sock, prog, copiers>>
      BY <2>6 DEF HandlerReturn, Active
    <3> QED BY <1>1, <3>1
  <2> QED BY <1>3, <2>1, <2>2, <2>3, <2>4, <2>5, <2>6, <2>7 DEF Server
<1>4. ASSUME NEW c \in Conns, Peer(c) PROVE TypeOK'
  <2>1. CASE Connect(c)
    <3>1. conn' = [conn EXCEPT ![c] = "backlog"]
          /\ client' \in {[client EXCEPT ![c] = "open"], [client EXCEPT ![c] = "gone"]}
          /\ unread' \in {unread, [unread EXCEPT ![c] = TRUE]}
          /\ UNCHANGED <<cancelled, sock, loop, wg, prog, input, output>>
      BY <2>1 DEF Connect, copiers
    <3>2. client' \in [Conns -> {"away", "open", "gone"}]
      BY <3>1 DEF IInv
    <3>3. unread' \in [Conns -> BOOLEAN]
      BY <3>1 DEF IInv
    <3> QED BY <3>1, <3>2, <3>3 DEF IInv
  <2>2. CASE Send(c)
    BY <2>2 DEF Send, IInv, clients, copiers
  <2>3. CASE Leave(c)
    BY <2>3 DEF Leave, IInv, clients, copiers
  <2>4. CASE ProgExit(c)
    BY <2>4 DEF ProgExit, Dies, IInv, clients, copiers
  <2>5. CASE OrphansEnd(c)
    BY <2>5 DEF OrphansEnd, IInv, clients, copiers
  <2> QED BY <1>4, <2>1, <2>2, <2>3, <2>4, <2>5 DEF Peer
<1>5. ASSUME NEW s \in Services, Loop(s) PROVE TypeOK'
  <2>1. CASE CloseOnCancel(s)
    BY <2>1 DEF CloseOnCancel, CloseSocket, IInv, clients, copiers
  <2>2. CASE AcceptError(s)
    BY <2>2 DEF AcceptError, IInv, clients, copiers
  <2>3. CASE WaitDone(s)
    BY <2>3 DEF WaitDone, IInv, clients, copiers
  <2> QED BY <1>5, <2>1, <2>2, <2>3 DEF Loop
<1> QED BY <1>2, <1>3, <1>4, <1>5 DEF Next

(* A step is of one of the three ways.                                     *)
LEMMA Cases ==
  IInv /\ Next => Quiet \/ \E c \in Conns : Begins(c) \/ Ends(c)
<1> SUFFICES ASSUME IInv, Next PROVE Quiet \/ \E c \in Conns : Begins(c) \/ Ends(c)
  OBVIOUS
<1> USE Facts DEF TypeOK, LoopMoves
<1>1. CASE Cancel
  BY <1>1 DEF Cancel, Quiet, IInv, Active, ProgramsRun, clients, copiers
<1>2. ASSUME NEW c \in Conns, Server(c) PROVE Quiet \/ Begins(c) \/ Ends(c)
  <2>1. CASE Accept(c)
    BY <2>1 DEF Accept, Begins
  <2>2. CASE StartHandler(c)
    BY <2>2 DEF StartHandler, Quiet, IInv, Active, ProgramsRun
  <2>3. CASE StartFails(c)
    BY <2>3 DEF StartFails, Ends, IInv, Active, ProgramsRun
  <2>4. CASE KillProgram(c)
    BY <2>4 DEF KillProgram, Dies, Quiet, IInv, Active, ProgramsRun
  <2>5. CASE ReadInput(c)
    BY <2>5 DEF ReadInput, Quiet, IInv, Active, ProgramsRun
  <2>7. CASE CopyOutput(c)
    BY <2>7 DEF CopyOutput, Quiet, IInv, Active, ProgramsRun
  <2>6. CASE HandlerReturn(c)
    BY <2>6 DEF HandlerReturn, Ends, Active
  <2> QED BY <1>2, <2>1, <2>2, <2>3, <2>4, <2>5, <2>6, <2>7 DEF Server
<1>3. ASSUME NEW c \in Conns, Peer(c) PROVE Quiet
  BY <1>3 DEF Peer, Connect, Send, Leave, ProgExit, OrphansEnd, Dies, Quiet, IInv, Active, ProgramsRun
<1>4. ASSUME NEW s \in Services, Loop(s) PROVE Quiet
  BY <1>4 DEF Loop, CloseOnCancel, CloseSocket, AcceptError, WaitDone, Quiet, IInv,
     Active, ProgramsRun
<1> QED BY <1>1, <1>2, <1>3, <1>4 DEF Next

(* A quiet step keeps every part.                                          *)
LEMMA QuietKeeps == IInv /\ Quiet => (Counted /\ Serial /\ ProgramsRun /\ Quiesced)'
<1> SUFFICES ASSUME IInv, Quiet PROVE (Counted /\ Serial /\ ProgramsRun /\ Quiesced)'
  OBVIOUS
<1>1. \A s : Handlers(s)' = Handlers(s)
  BY DEF Handlers, Quiet
<1>2. Counted'
  BY <1>1 DEF Counted, Quiet, IInv
<1>3. Serial'
  BY <1>1, ServiceAssumption DEF Serial, Quiet, LoopMoves, IInv
<1>4. ProgramsRun'
  BY DEF ProgramsRun, Quiet
<1>5. Quiesced'
  <2> SUFFICES ASSUME NEW s \in Services, loop'[s] \in {"off", "ok"} PROVE Handlers(s) = {}
    BY <1>1, <1>4 DEF Quiesced, Handlers, ProgramsRun, Active
  <2>1. CASE loop[s] \in {"off", "ok"}
    BY <2>1 DEF IInv, Quiesced, Handlers
  <2>2. CASE loop[s] = "wait" /\ wg[s] = 0
    <3>1. CASE s \in Stream
      BY <2>2, <3>1, Facts, FS_EmptySet DEF IInv, Counted
    <3>2. CASE s \notin Stream
      BY <2>2, <3>2 DEF IInv, Serial
    <3> QED BY <3>1, <3>2
  <2> QED BY <2>1, <2>2 DEF Quiet, LoopMoves
<1> QED BY <1>2, <1>3, <1>4, <1>5

(* Accepting adds the connection to its service's handlers.                *)
LEMMA BeginsKeeps ==
  ASSUME IInv, NEW c \in Conns, Begins(c)
  PROVE  (Counted /\ Serial /\ ProgramsRun /\ Quiesced)'
<1> DEFINE s == SvcOf[c]
<1>1. s \in Services /\ c \notin Handlers(s)
  BY Facts DEF Begins, Handlers, Active
<1>2. /\ Handlers(s)' = Handlers(s) \cup {c}
      /\ \A t : t # s => Handlers(t)' = Handlers(t)
  BY DEF Begins, Handlers, Active, IInv, TypeOK
<1>3. Cardinality(Handlers(s)') = Cardinality(Handlers(s)) + 1
  BY <1>1, <1>2, Facts, FS_AddElement
<1>4. Counted'
  <2> SUFFICES ASSUME NEW t \in Stream PROVE wg'[t] = Cardinality(Handlers(t)')
    BY DEF Counted
  <2>1. CASE t = s
    BY <2>1, <1>1, <1>3 DEF Begins, IInv, Counted, TypeOK
  <2>2. CASE t # s
    BY <2>2, <1>1, <1>2, ServiceAssumption DEF Begins, IInv, Counted, TypeOK
  <2> QED BY <2>1, <2>2
<1>5. Serial'
  <2>1. \A t \in Stream : loop'[t] # "inline"
    BY <1>1, ServiceAssumption DEF Begins, IInv, Serial, TypeOK
  <2>2. ASSUME NEW t \in Services \ Stream
        PROVE  /\ wg'[t] = 0
               /\ loop'[t] # "inline" => Handlers(t)' = {}
               /\ \A d, e \in Handlers(t)' : d = e
    <3>1. CASE t = s
      BY <3>1, <1>1, <1>2 DEF Begins, IInv, Serial, TypeOK
    <3>2. CASE t # s
      BY <3>2, <1>1, <1>2 DEF Begins, IInv, Serial, TypeOK
    <3> QED BY <3>1, <3>2
  <2> QED BY <2>1, <2>2 DEF Serial
<1>6. ProgramsRun'
  BY DEF Begins, IInv, ProgramsRun, TypeOK
<1>7. Quiesced'
  <2> SUFFICES ASSUME NEW t \in Services, loop'[t] \in {"off", "ok"}, NEW d \in Conns, SvcOf[d] = t
               PROVE  ~Active(d)' /\ prog'[d] # "alive"
    BY DEF Quiesced
  <2>1. t # s /\ loop[t] \in {"off", "ok"}
    BY <1>1 DEF Begins, IInv, TypeOK
  <2> QED BY <2>1 DEF Begins, IInv, Quiesced, Active, TypeOK
<1> QED BY <1>4, <1>5, <1>6, <1>7

(* The end of a handler takes the connection out of them.                  *)
LEMMA EndsKeeps ==
  ASSUME IInv, NEW c \in Conns, Ends(c)
  PROVE  (Counted /\ Serial /\ ProgramsRun /\ Quiesced)'
<1> DEFINE s == SvcOf[c]
<1>1. s \in Services /\ c \in Handlers(s)
  BY Facts DEF Ends, Handlers
<1>2. /\ Handlers(s)' = Handlers(s) \ {c}
      /\ \A t : t # s => Handlers(t)' = Handlers(t)
  BY DEF Ends, Finish, Handlers, Active, IInv, TypeOK
<1>3. Cardinality(Handlers(s)') = Cardinality(Handlers(s)) - 1
  BY <1>1, <1>2, Facts, FS_RemoveElement
<1>4. Counted'
  <2> SUFFICES ASSUME NEW t \in Stream PROVE wg'[t] = Cardinality(Handlers(t)')
    BY DEF Counted
  <2>1. CASE t = s
    BY <2>1, <1>1, <1>3 DEF Ends, Finish, IInv, Counted, TypeOK
  <2>2. CASE t # s
    BY <2>2, <1>1, <1>2, ServiceAssumption DEF Ends, Finish, IInv, Counted, TypeOK
  <2> QED BY <2>1, <2>2
<1>5. Serial'
  <2>1. \A t \in Stream : loop'[t] # "inline"
    BY <1>1, ServiceAssumption DEF Ends, Finish, IInv, Serial, TypeOK
  <2>2. ASSUME NEW t \in Services \ Stream
        PROVE  /\ wg'[t] = 0
               /\ loop'[t] # "inline" => Handlers(t)' = {}
               /\ \A d, e \in Handlers(t)' : d = e
    <3>1. CASE t = s
      BY <3>1, <1>1, <1>2 DEF Ends, Finish, IInv, Serial, TypeOK
    <3>2. CASE t # s
      BY <3>2, <1>1, <1>2 DEF Ends, Finish, IInv, Serial, TypeOK
    <3> QED BY <3>1, <3>2
  <2> QED BY <2>1, <2>2 DEF Serial
<1>6. ProgramsRun'
  BY DEF Ends, Finish, IInv, ProgramsRun, TypeOK
<1>7. Quiesced'
  <2> SUFFICES ASSUME NEW t \in Services, loop'[t] \in {"off", "ok"}, NEW d \in Conns, SvcOf[d] = t
               PROVE  ~Active(d)' /\ prog'[d] # "alive"
    BY DEF Quiesced
  <2>1. loop[t] \in {"off", "ok"}
    BY <1>1 DEF Ends, Finish, IInv, TypeOK
  <2> QED BY <2>1 DEF Ends, Finish, IInv, Quiesced, Active, TypeOK
<1> QED BY <1>4, <1>5, <1>6, <1>7

(* The invariant is inductive.                                             *)
LEMMA StepIInv == IInv /\ [Next]_vars => IInv'
<1>1. IInv /\ Next => IInv'
  BY TypeStep, Cases, QuietKeeps, BeginsKeeps, EndsKeeps DEF IInv
<1>2. ASSUME IInv, UNCHANGED vars PROVE IInv'
  <2>1. /\ cancelled' = cancelled /\ sock' = sock /\ loop' = loop /\ wg' = wg
        /\ conn' = conn /\ prog' = prog /\ input' = input /\ output' = output
        /\ client' = client /\ unread' = unread
    BY <1>2 DEF vars
  <2>2. Quiet
    BY <1>2, <2>1 DEF Quiet, Active, LoopMoves, IInv, ProgramsRun
  <2>3. TypeOK'
    BY <1>2, <2>1 DEF IInv, TypeOK
  <2> QED BY <1>2, <2>2, <2>3, QuietKeeps DEF IInv
<1> QED BY <1>1, <1>2

(* The invariant holds in every reachable state.                           *)
THEOREM ServerInvariance == Spec => []IInv
<1>1. Init => TypeOK /\ \A s \in Services : loop[s] \in {"off", "accept"}
  <2> SUFFICES ASSUME Init PROVE TypeOK /\ \A s \in Services : loop[s] \in {"off", "accept"}
    OBVIOUS
  <2>1. /\ sock \in [Services -> {"unbound", "open", "closed"}]
        /\ loop \in [Services -> {"off", "accept", "inline", "wait", "ok", "failed"}]
        /\ \A s \in Services : loop[s] \in {"off", "accept"}
    BY DEF Init
  <2>2. InitConns
    BY DEF Init
  <2> QED BY <2>1, <2>2 DEF InitConns, TypeOK
<1>2. Init => IInv
  BY <1>1, InitIInv DEF Init
<1> QED BY <1>2, StepIInv, PTL DEF Spec

(* The server's state is always of its type.                               *)
THEOREM ServerTypeCorrect == Spec => []TypeOK
<1>1. IInv => TypeOK
  BY DEF IInv
<1> QED BY <1>1, ServerInvariance, PTL

(* No handler and no program outlives a loop that returned without an      *)
(* error.                                                                  *)
THEOREM HandlersAreAwaited == Spec => []Awaited
<1>1. IInv => Awaited
  BY DEF IInv, Quiesced, Awaited
<1> QED BY <1>1, ServerInvariance, PTL
-----------------------------------------------------------------------------
(* inetd's Serve returns nil only with every service shut down in order,   *)
(* for any configuration: the invariant of the accept loop, carried over   *)
(* to the loops inetd starts one after the other.                          *)

(* A service that is not bound yet has no loop: what lets Bind start one   *)
(* without disturbing the invariant of the loops.                          *)
Unbound == \A i \in next .. Len(Config) : loop[Config[i]] = "off"
MainOK  == /\ main \in {"binding", "waiting", "ok", "failed"}
           /\ next \in 1 .. Len(Config) + 1
InetdInv == IInv /\ Unbound /\ MainOK /\ AllAwaited

(* The configuration names services.                                       *)
LEMMA ConfigFacts ==
  /\ Len(Config) \in Nat
  /\ \A i \in 1 .. Len(Config) : i \in DOMAIN Config /\ Config[i] \in Services
  BY ConfigAssumption

(* A step of the loops starts none and revives none.                       *)
LEMMA LoopsStay ==
  ASSUME IInv, [Next]_vars, NEW s \in Services, loop[s] \in {"off", "ok"}
  PROVE  loop'[s] = loop[s]
<1>1. CASE Cancel
  BY <1>1 DEF Cancel
<1>2. ASSUME NEW c \in Conns, Server(c) PROVE loop'[s] = loop[s]
  <2>1. CASE Accept(c)
    BY <2>1, Facts DEF Accept, IInv, TypeOK
  <2>2. CASE StartFails(c) \/ HandlerReturn(c)
    <3>1. Active(c) /\ Finish(c)
      BY <2>2 DEF StartFails, HandlerReturn, Active
    <3>2. SvcOf[c] # s
      BY <3>1 DEF IInv, Quiesced
    <3> QED BY <3>1, <3>2, Facts DEF Finish, IInv, TypeOK
  <2>3. CASE StartHandler(c) \/ KillProgram(c) \/ ReadInput(c) \/ CopyOutput(c)
    BY <2>3 DEF StartHandler, KillProgram, Dies, ReadInput, CopyOutput
  <2> QED BY <1>2, <2>1, <2>2, <2>3 DEF Server
<1>3. ASSUME NEW c \in Conns, Peer(c) PROVE loop'[s] = loop[s]
  BY <1>3 DEF Peer, Connect, Send, Leave, ProgExit, OrphansEnd, Dies
<1>4. ASSUME NEW t \in Services, Loop(t) PROVE loop'[s] = loop[s]
  BY <1>4 DEF Loop, CloseOnCancel, AcceptError, WaitDone, IInv, TypeOK
<1>5. CASE UNCHANGED vars
  BY <1>5 DEF vars
<1> QED BY <1>1, <1>2, <1>3, <1>4, <1>5 DEF Next

(* The steps inetd takes from the accept loop are its steps.               *)
LEMMA InetdSteps ==
  InetdNext => \/ [Next]_vars /\ (UNCHANGED <<main, next>> \/ AllBound \/ ServeReturns)
               \/ Bind \/ BindFails
  BY DEF InetdNext, InetdClose, InetdError, AllBound, ServeReturns, Next, Loop

(* Binding a service starts a loop that has handled nothing.               *)
LEMMA BindKeeps == ASSUME InetdInv, Bind PROVE IInv' /\ Unbound'
<1> DEFINE s == Config[next]
<1>1. s \in Services /\ next \in DOMAIN Config /\ loop[s] = "off"
  BY ConfigFacts DEF Bind, InetdInv, MainOK, Unbound
<1>2. Quiet
  BY <1>1 DEF Bind, Quiet, LoopMoves, Active, InetdInv, IInv, TypeOK, ProgramsRun, clients, copiers
<1>3. TypeOK'
  <2>1. TypeOK /\ UNCHANGED <<cancelled, wg, conn, prog, input, output, client, unread>>
    BY DEF Bind, InetdInv, IInv, clients, copiers
  <2>2. sock' \in {sock, [sock EXCEPT ![s] = "open"]}
        /\ loop' \in {loop, [loop EXCEPT ![s] = "accept"]}
    BY DEF Bind
  <2> HIDE DEF s
  <2>3. sock' \in [Services -> {"unbound", "open", "closed"}]
    BY <1>1, <2>1, <2>2 DEF TypeOK
  <2>4. loop' \in [Services -> {"off", "accept", "inline", "wait", "ok", "failed"}]
    BY <1>1, <2>1, <2>2 DEF TypeOK
  <2> QED BY <2>1, <2>3, <2>4 DEF TypeOK
<1>4. Unbound'
  <2> SUFFICES ASSUME NEW i \in next' .. Len(Config) PROVE loop'[Config[i]] = "off"
    BY DEF Unbound
  <2>1. i \in next .. Len(Config) /\ i # next /\ i \in 1 .. Len(Config)
    BY ConfigFacts DEF Bind, InetdInv, MainOK
  <2>2. Config[i] # s
    BY <1>1, <2>1, ConfigFacts, ConfigAssumption
  <2>3. loop[Config[i]] = "off"
    BY <2>1 DEF InetdInv, Unbound
  <2>4. loop' = loop \/ loop' = [loop EXCEPT ![s] = "accept"]
    BY DEF Bind
  <2>5. loop \in [Services -> {"off", "accept", "inline", "wait", "ok", "failed"}]
    BY DEF InetdInv, IInv, TypeOK
  <2>6. Config[i] \in Services
    BY <2>1, ConfigFacts
  <2> QED BY <2>2, <2>3, <2>4, <2>5, <2>6
<1> QED BY <1>2, <1>3, <1>4, QuietKeeps DEF InetdInv, IInv

(* A bind error resets queues and touches no handler.                      *)
LEMMA BindFailsKeeps == ASSUME InetdInv, BindFails PROVE IInv' /\ Unbound'
<1>1. Quiet
  BY DEF BindFails, CloseSocket, Quiet, LoopMoves, Active, InetdInv, IInv, TypeOK,
     ProgramsRun, clients, copiers
<1>2. TypeOK'
  BY Facts DEF BindFails, CloseSocket, InetdInv, IInv, TypeOK, clients, copiers
<1>3. Unbound'
  BY DEF BindFails, Unbound, InetdInv
<1> QED BY <1>1, <1>2, <1>3, QuietKeeps DEF InetdInv, IInv

(* The invariant is inductive.                                             *)
LEMMA InetdStep == InetdInv /\ [InetdNext]_ivars => InetdInv'
<1> SUFFICES ASSUME InetdInv, [InetdNext]_ivars PROVE InetdInv'
  OBVIOUS
<1>1. CASE Bind
  BY <1>1, BindKeeps, ConfigFacts DEF Bind, InetdInv, MainOK, AllAwaited
<1>2. CASE BindFails
  BY <1>2, BindFailsKeeps DEF BindFails, InetdInv, MainOK, AllAwaited
<1>3. CASE [Next]_vars /\ (UNCHANGED <<main, next>> \/ AllBound \/ ServeReturns)
  <2>1. IInv'
    BY <1>3, StepIInv DEF InetdInv
  <2>2. next' = next
    BY <1>3 DEF AllBound, ServeReturns
  <2>3. Unbound'
    <3> SUFFICES ASSUME NEW i \in next .. Len(Config) PROVE loop'[Config[i]] = "off"
      BY <2>2 DEF Unbound
    <3>1. i \in 1 .. Len(Config)
      BY ConfigFacts DEF InetdInv, MainOK
    <3>2. Config[i] \in Services /\ loop[Config[i]] = "off"
      BY <3>1, ConfigFacts DEF InetdInv, Unbound
    <3> QED BY <1>3, <3>2, LoopsStay DEF InetdInv
  <2>4. MainOK'
    BY <1>3, <2>2 DEF AllBound, ServeReturns, InetdInv, MainOK
  <2>5. AllAwaited'
    <3> SUFFICES ASSUME main' = "ok"
                 PROVE  \A s \in Services : loop'[s] \in {"off", "ok"}
      BY <2>1, Facts DEF AllAwaited, IInv, Quiesced, Active
    <3>1. \A s \in Services : loop[s] \in {"off", "ok"}
      BY <1>3 DEF AllBound, ServeReturns, Ended, InetdInv, AllAwaited
    <3> QED BY <1>3, <3>1, LoopsStay DEF InetdInv
  <2> QED BY <2>1, <2>3, <2>4, <2>5 DEF InetdInv
<1>4. CASE UNCHANGED ivars
  BY <1>3, <1>4 DEF ivars
<1> QED BY <1>1, <1>2, <1>3, <1>4, InetdSteps

(* Nothing is bound, nobody is connected.                                  *)
LEMMA InitInetdInv == InetdInit => InetdInv
<1> SUFFICES ASSUME InetdInit PROVE InetdInv
  OBVIOUS
<1>1. /\ sock \in [Services -> {"unbound", "open", "closed"}]
      /\ loop \in [Services -> {"off", "accept", "inline", "wait", "ok", "failed"}]
      /\ \A s \in Services : loop[s] \in {"off", "accept"}
      /\ main = "binding" /\ next = 1
  BY DEF InetdInit
<1>2. InitConns
  BY DEF InetdInit
<1>3. IInv
  BY <1>1, <1>2, InitIInv DEF InitConns, TypeOK
<1>4. Unbound
  BY ConfigFacts DEF InetdInit, Unbound
<1> QED BY <1>1, <1>3, <1>4, ConfigFacts DEF InetdInv, MainOK, AllAwaited

(* inetd keeps what its loops keep: its state is of its type, no WaitGroup *)
(* goes below zero, and a service that has ended left no handler behind    *)
(* while others go on (acceptLoop under Serve).                            *)
THEOREM LoopsKeepUnderInetd == InetdSpec => [](InetdTypeOK /\ Awaited)
<1>1. InetdInv => InetdTypeOK /\ Awaited
  BY DEF InetdInv, InetdTypeOK, MainOK, IInv, Quiesced, Awaited
<1> QED BY <1>1, InitInetdInv, InetdStep, PTL DEF InetdSpec

(* Serve returns nil only when no handler, no program and no failed        *)
(* service is left.                                                        *)
THEOREM ServeAwaitsAll == InetdSpec => []AllAwaited
<1>1. InetdInv => AllAwaited
  BY DEF InetdInv
<1> QED BY <1>1, InitInetdInv, InetdStep, PTL DEF InetdSpec

-----------------------------------------------------------------------------

(* The inductive invariant: a new child is no one's yet, so the types say  *)
(* what the numbers of the children are.                                   *)
RunitIInv == RunitTypeOK /\ ChildIsAwaited

(* The steps of the administrator's, of runsvdir and of the children.      *)
Around ==
  \/ \E i \in Runsvs : CancelRunsv(i) \/ KillRunsv(i) \/ \E d \in Dirs : RunManually(i, d)
  \/ \E d \in Dirs : Remove(d) \/ Add(d) \/ Scan(d) \/ \E c \in Commands : SendControl(d, c)
  \/ \E n \in 1 .. MaxStarts : ChildExits(n)
  \/ KillRunsvdir \/ RunsvdirReturns

(* A step that starts no child, and lets a runsv with a living child only  *)
(* go on to wait for it or die, keeps the children awaited.                *)
LEMMA NoNewChild ==
  ASSUME ChildIsAwaited, runs' = runs, child' = child, alive' \subseteq alive,
         \A n \in alive' : pc[runs[n]] \in {"pid", "wait", "dead"}
                              => pc'[runs[n]] \in {"pid", "wait", "dead"}
  PROVE  ChildIsAwaited'
  BY DEF ChildIsAwaited

LEMMA RunitBegins == RunitInit => RunitIInv
<1> SUFFICES ASSUME RunitInit PROVE RunitIInv
  OBVIOUS
<1>1. runs \in Seq(Runsvs) /\ Len(runs) = 0
  BY EmptySeq DEF RunitInit
<1>2. RunitTypeOK
  BY <1>1, DirAssumption, FaultAssumption DEF RunitInit, RunitTypeOK, Over
<1>3. ChildIsAwaited
  BY DEF RunitInit, ChildIsAwaited
<1> QED
  BY <1>2, <1>3 DEF RunitIInv

LEMMA AroundKeepsTypes ==
  ASSUME RunitTypeOK, Around
  PROVE  RunitTypeOK'
<1>1. ASSUME NEW i \in Runsvs, CancelRunsv(i) PROVE RunitTypeOK'
  BY <1>1, RunsvAssumption DEF CancelRunsv, RunitTypeOK, dirs, super, kids
<1>2. ASSUME NEW i \in Runsvs, KillRunsv(i) PROVE RunitTypeOK'
  BY <1>2 DEF KillRunsv, Die, RunitTypeOK, dirs, super, kids, Over
<1>3. ASSUME NEW i \in Runsvs, NEW d \in Dirs, RunManually(i, d) PROVE RunitTypeOK'
  BY <1>3 DEF RunManually, Launch, RunitTypeOK, dirs, super, kids
<1>4. ASSUME NEW d \in Dirs, Remove(d) PROVE RunitTypeOK'
  BY <1>4, DirAssumption DEF Remove, RunitTypeOK, kids
<1>5. ASSUME NEW d \in Dirs, Add(d) PROVE RunitTypeOK'
  BY <1>5 DEF Add, RunitTypeOK, super, kids
<1>6. ASSUME NEW d \in Dirs, Scan(d) PROVE RunitTypeOK'
  BY <1>6 DEF Scan, Launch, RunitTypeOK, dirs, super, kids
<1>7. ASSUME NEW d \in Dirs, NEW c \in Commands, SendControl(d, c) PROVE RunitTypeOK'
  BY <1>7 DEF SendControl, RunitTypeOK, dirs, kids
<1>8. ASSUME NEW n \in 1 .. MaxStarts, ChildExits(n) PROVE RunitTypeOK'
  BY <1>8 DEF ChildExits, Still, RunitTypeOK, dirs, super
<1>9. CASE KillRunsvdir
  BY <1>9 DEF KillRunsvdir, Die, RunitTypeOK, dirs, super, kids, Over
<1>10. CASE RunsvdirReturns
  BY <1>10 DEF RunsvdirReturns, Die, RunitTypeOK, dirs, super, kids, Over
<1> QED
  BY <1>1, <1>2, <1>3, <1>4, <1>5, <1>6, <1>7, <1>8, <1>9, <1>10 DEF Around

LEMMA RunsvKeepsTypes ==
  ASSUME RunitTypeOK, NEW i \in Runsvs, Runsv(i)
  PROVE  RunitTypeOK'
<1> USE DEF RunitTypeOK, Still, GoTo, At, dirs, super, kids
<1>1. CASE Fail(i)         BY <1>1 DEF Fail, Over
<1>2. CASE StatDir(i)      BY <1>2 DEF StatDir
<1>3. CASE WriteOk(i)
  <2>1. exists' \in [Dirs -> BOOLEAN] /\ ok' \in [Dirs -> BOOLEAN]
    BY <1>3 DEF WriteOk
  <2>2. pc' \in [Runsvs -> Over \cup Supervising \cup {"stat", "ok", "control"}]
    BY <1>3 DEF WriteOk
  <2> QED
    BY <1>3, <2>1, <2>2 DEF WriteOk
<1>4. CASE WriteControl(i) BY <1>4 DEF WriteControl, Supervising
<1>5. CASE CheckDown(i)    BY <1>5 DEF CheckDown, Supervising
<1>6. CASE StartChild(i)
  <2>1. runs' \in Seq(Runsvs) /\ Len(runs') = Len(runs) + 1
    BY <1>6, AppendProperties DEF StartChild
  <2>2. Len(runs) \in Nat
    BY LenProperties
  <2>3. child' \in [Runsvs -> 0 .. Len(runs')]
    BY <1>6, <2>1, <2>2 DEF StartChild
  <2>4. alive' \subseteq 1 .. Len(runs') /\ Len(runs') <= MaxStarts
    <3>1. Len(runs') <= MaxStarts
      BY <1>6, <2>1, <2>2, DirAssumption DEF StartChild
    <3>2. alive' = alive \cup {Len(runs) + 1} /\ alive \subseteq 1 .. Len(runs)
      BY <1>6 DEF StartChild
    <3>3. ASSUME NEW n \in alive' PROVE n \in 1 .. Len(runs) + 1
      BY <2>2, <3>2
    <3> QED
      BY <2>1, <3>1, <3>3
  <2>5. pc' \in [Runsvs -> Over \cup Supervising \cup {"stat", "ok", "control"}]
    BY <1>6 DEF StartChild, Supervising
  <2> QED
    BY <1>6, <2>1, <2>3, <2>4, <2>5 DEF StartChild
<1>7. CASE ChildStartFails(i)   BY <1>7 DEF ChildStartFails, Supervising
<1>8. CASE WritePid(i)
  <2>1. child[i] \in 0 .. MaxStarts
    BY LenProperties, DirAssumption
  <2> QED
    BY <1>8, <2>1 DEF WritePid, Supervising
<1>9. CASE KillChild(i)    BY <1>9 DEF KillChild
<1>10. CASE ChildWaited(i) BY <1>10 DEF ChildWaited, Supervising
<1>11. CASE Restart(i)     BY <1>11 DEF Restart, Supervising
<1>12. CASE Stop(i)        BY <1>12 DEF Stop, Over
<1> QED
  BY <1>1, <1>2, <1>3, <1>4, <1>5, <1>6, <1>7, <1>8, <1>9, <1>10, <1>11, <1>12 DEF Runsv

(* A killed runsv stays where it was or is dead.                           *)
LEMMA DeadOrThere ==
  ASSUME RunitTypeOK, NEW I, Die(I), NEW n \in alive
  PROVE  pc'[runs[n]] \in {pc[runs[n]], "dead"}
<1>1. runs[n] \in Runsvs
  BY ElementOfSeq DEF RunitTypeOK
<1> QED
  BY <1>1 DEF Die

LEMMA AroundKeepsAwaited ==
  ASSUME RunitIInv, Around
  PROVE  ChildIsAwaited'
<1> USE DEF RunitIInv
<1>1. ASSUME NEW i, NEW d, Launch(i, d), UNCHANGED <<child, kids>> PROVE ChildIsAwaited'
  <2>1. \A n \in alive : runs[n] # i
    BY <1>1 DEF Launch, ChildIsAwaited
  <2>2. \A n \in alive : runs[n] \in Runsvs
    BY ElementOfSeq DEF RunitTypeOK
  <2> QED
    BY <1>1, <2>1, <2>2, NoNewChild DEF Launch, RunitTypeOK, kids
<1>2. ASSUME NEW I, Die(I), UNCHANGED <<child, kids>> PROVE ChildIsAwaited'
  BY <1>2, DeadOrThere, NoNewChild DEF kids
<1>3. ASSUME pc' = pc, child' = child, runs' = runs, alive' \subseteq alive
      PROVE  ChildIsAwaited'
  BY <1>3, NoNewChild
<1>4. ASSUME NEW i \in Runsvs, CancelRunsv(i) PROVE ChildIsAwaited'
  BY <1>3, <1>4 DEF CancelRunsv, kids
<1>5. ASSUME NEW i \in Runsvs, KillRunsv(i) PROVE ChildIsAwaited'
  BY <1>2, <1>5 DEF KillRunsv
<1>6. ASSUME NEW i \in Runsvs, NEW d \in Dirs, RunManually(i, d) PROVE ChildIsAwaited'
  BY <1>1, <1>6 DEF RunManually
<1>7. ASSUME NEW d \in Dirs, Scan(d) PROVE ChildIsAwaited'
  BY <1>1, <1>7 DEF Scan
<1>8. ASSUME NEW d \in Dirs, Remove(d) \/ Add(d) \/ \E c \in Commands : SendControl(d, c)
      PROVE  ChildIsAwaited'
  BY <1>3, <1>8 DEF Remove, Add, SendControl, kids
<1>9. ASSUME NEW n \in 1 .. MaxStarts, ChildExits(n) PROVE ChildIsAwaited'
  BY <1>3, <1>9 DEF ChildExits
<1>10. CASE KillRunsvdir \/ RunsvdirReturns
  BY <1>2, <1>10 DEF KillRunsvdir, RunsvdirReturns
<1> QED
  BY <1>4, <1>5, <1>6, <1>7, <1>8, <1>9, <1>10 DEF Around

(* A runsv that moves from where no child lives keeps the others awaited.  *)
LEMMA MovesAlone ==
  ASSUME RunitIInv, NEW i \in Runsvs, NEW l, GoTo(i, l), UNCHANGED <<child, kids>>,
         \/ l \in {"pid", "wait", "dead"}
         \/ pc[i] \notin {"pid", "wait", "dead"}
         \/ child[i] \notin alive
  PROVE  ChildIsAwaited'
<1>1. \A n \in alive : runs[n] \in Runsvs
  BY ElementOfSeq DEF RunitIInv, RunitTypeOK
<1>2. \A n \in alive : runs[n] = i => l \in {"pid", "wait", "dead"}
  BY DEF RunitIInv, ChildIsAwaited
<1> QED
  BY <1>1, <1>2, NoNewChild DEF GoTo, RunitIInv, RunitTypeOK, kids

LEMMA RunsvKeepsAwaited ==
  ASSUME RunitIInv, NEW i \in Runsvs, Runsv(i)
  PROVE  ChildIsAwaited'
<1>1. CASE Fail(i)         BY <1>1, MovesAlone DEF Fail, At
<1>2. CASE StatDir(i)      BY <1>2, MovesAlone DEF StatDir, At
<1>3. CASE WriteOk(i)      BY <1>3, MovesAlone DEF WriteOk, At
<1>4. CASE WriteControl(i) BY <1>4, MovesAlone DEF WriteControl, At
<1>5. CASE CheckDown(i)    BY <1>5, MovesAlone DEF CheckDown, At
<1>6. CASE StartChild(i)
  <2> DEFINE new == Len(runs) + 1
  <2>1. /\ runs' \in Seq(Runsvs) /\ Len(runs') = new /\ runs'[new] = i
        /\ \A n \in 1 .. Len(runs) : runs'[n] = runs[n]
    BY <1>6, AppendProperties DEF StartChild, RunitIInv, RunitTypeOK
  <2>2. \A n \in alive : n \in 1 .. Len(runs) /\ runs[n] \in Runsvs /\ runs[n] # i
    BY <1>6, ElementOfSeq DEF StartChild, At, RunitIInv, RunitTypeOK, ChildIsAwaited
  <2>3. ASSUME NEW n \in alive
        PROVE  child'[runs'[n]] = n /\ pc'[runs'[n]] \in {"pid", "wait", "dead"}
    BY <1>6, <2>1, <2>2, <2>3 DEF StartChild, GoTo, RunitIInv, RunitTypeOK, ChildIsAwaited
  <2>4. child'[runs'[new]] = new /\ pc'[runs'[new]] = "pid"
    BY <1>6, <2>1 DEF StartChild, GoTo, RunitIInv, RunitTypeOK
  <2>5. alive' = alive \cup {new}
    BY <1>6 DEF StartChild
  <2> QED
    BY <2>3, <2>4, <2>5 DEF ChildIsAwaited
<1>7. CASE ChildStartFails(i)   BY <1>7, MovesAlone DEF ChildStartFails, At
<1>8. CASE WritePid(i)     BY <1>8, MovesAlone DEF WritePid
<1>9. CASE KillChild(i)
  BY <1>9, NoNewChild DEF KillChild, RunitIInv
<1>10. CASE ChildWaited(i) BY <1>10, MovesAlone DEF ChildWaited
<1>11. CASE Restart(i)     BY <1>11, MovesAlone DEF Restart, At
<1>12. CASE Stop(i)        BY <1>12, MovesAlone DEF Stop, kids
<1> QED
  BY <1>1, <1>2, <1>3, <1>4, <1>5, <1>6, <1>7, <1>8, <1>9, <1>10, <1>11, <1>12 DEF Runsv

(* The strengthened invariant holds of the specification.                  *)
THEOREM RunitInvariance == RunitSpec => []RunitIInv
<1>1. RunitIInv /\ [RunitNext]_rvars => RunitIInv'
  <2> SUFFICES ASSUME RunitIInv, [RunitNext]_rvars PROVE RunitIInv'
    OBVIOUS
  <2>1. CASE Around
    BY <2>1, AroundKeepsTypes, AroundKeepsAwaited DEF RunitIInv
  <2>2. ASSUME NEW i \in Runsvs, Runsv(i) PROVE RunitIInv'
    BY <2>2, RunsvKeepsTypes, RunsvKeepsAwaited DEF RunitIInv
  <2>3. CASE UNCHANGED rvars
    BY <2>3 DEF RunitIInv, RunitTypeOK, ChildIsAwaited, rvars, dirs, super, kids
  <2> QED
    BY <2>1, <2>2, <2>3 DEF RunitNext, Around
<1> QED
  BY <1>1, RunitBegins, PTL DEF RunitSpec

(* The state of the supervisors keeps its types.                           *)
THEOREM RunitTypeCorrect == RunitSpec => []RunitTypeOK
<1>1. RunitIInv => RunitTypeOK
  BY DEF RunitIInv
<1> QED
  BY <1>1, RunitInvariance, PTL

(* runsv waits for every child before it starts the next: a running child  *)
(* is its runsv's last, and the runsv still waits for it or was killed.    *)
THEOREM NothingStartsOverAChild == RunitSpec => []ChildIsAwaited
<1>1. RunitIInv => ChildIsAwaited
  BY DEF RunitIInv
<1> QED
  BY <1>1, RunitInvariance, PTL

-----------------------------------------------------------------------------
(* What the supervise files say.                                           *)

(* A runsv that has been given a directory and not left it, or was killed  *)
(* in it.                                                                  *)
Holds(i) == pc[i] \notin {"off", "failed", "done"}

(* Whoever was started has a directory; if nobody disturbs them, each      *)
(* directory stays, has one runsv at a time, and its ok file from the time *)
(* that runsv has written it; and while runsvdir runs it knows of all.     *)
Placed == \A i \in Runsvs : pc[i] \notin {"off", "done"} => dir[i] \in Dirs
Alone  == \A i, j \in Runsvs : Holds(i) /\ Holds(j) /\ dir[i] = dir[j] => i = j
Known  == scanner = "run" => \A i \in Runsvs : Holds(i) => dir[i] \in started
OkKept == \A i \in Runsvs : pc[i] \in Supervising \cup {"control"} => ok[dir[i]]
Undisturbed == Orderly => (\A d \in Dirs : exists[d]) /\ Alone /\ Known /\ OkKept

FilesIInv == RunitIInv /\ Placed /\ OkMeansSupervised /\ Undisturbed /\ PidIsChild

(* The parts of it that are not yet proved.                                *)
Files == Placed /\ OkMeansSupervised /\ Undisturbed /\ PidIsChild

LEMMA FilesBegin == RunitInit => FilesIInv
<1> SUFFICES ASSUME RunitInit PROVE FilesIInv
  OBVIOUS
<1>1. \A i \in Runsvs : pc[i] \in {"off", "done"}
  BY DEF RunitInit
<1>2. (\A d \in Dirs : ~ok[d]) /\ (\A d \in Dirs : exists[d])
  BY DEF RunitInit
<1> QED
  BY <1>1, <1>2, RunitBegins
  DEF FilesIInv, Placed, OkMeansSupervised, Undisturbed, PidIsChild, Alone, Known, OkKept, Holds,
      Supervising

(* Steps that leave the runsvs and their files alone.                      *)
LEMMA FilesStay ==
  ASSUME Files, UNCHANGED <<exists, ok, pidfile, pc, dir, child, scanner, started, faults>>
  PROVE  Files'
  BY DEF Files, Placed, OkMeansSupervised, Undisturbed, PidIsChild, Orderly, Alone, Known, OkKept, Holds

(* A runsv is started in a directory that nobody holds.                    *)
LEMMA FilesLaunch ==
  ASSUME RunitTypeOK, Files, NEW i \in Runsvs, NEW d \in Dirs, Launch(i, d),
         UNCHANGED <<exists, ok, pidfile, child, faults>>,
         started \subseteq started',
         Orderly => /\ \A j \in Runsvs : Holds(j) => dir[j] # d
                    /\ scanner' = "run" => scanner = "run" /\ d \in started'
  PROVE  Files'
<1>1. /\ pc[i] = "off" /\ pc'[i] = "stat" /\ dir'[i] = d
      /\ \A j \in Runsvs : j # i => pc'[j] = pc[j] /\ dir'[j] = dir[j]
  BY DEF Launch, RunitTypeOK
<1>2. Placed'
  BY <1>1 DEF Placed, Files
<1>3. OkMeansSupervised'
  <2> SUFFICES ASSUME NEW e \in Dirs, ok[e]
               PROVE  \E j \in Runsvs : dir'[j] = e /\ pc'[j] \in Supervising \cup {"control", "failed", "dead"}
    BY DEF OkMeansSupervised
  <2>1. PICK j \in Runsvs : dir[j] = e /\ pc[j] \in Supervising \cup {"control", "failed", "dead"}
    BY DEF Files, OkMeansSupervised
  <2>2. j # i
    BY <1>1, <2>1 DEF Supervising
  <2> QED
    BY <1>1, <2>1, <2>2
<1>4. ASSUME Orderly' PROVE (\A e \in Dirs : exists'[e]) /\ Alone' /\ Known' /\ OkKept'
  <2>1. Orderly /\ (\A e \in Dirs : exists[e]) /\ Alone /\ Known /\ OkKept
    BY <1>4 DEF Orderly, Files, Undisturbed
  <2>2. Alone'
    BY <1>1, <2>1 DEF Alone, Holds
  <2>3. Known'
    BY <1>1, <2>1 DEF Known, Holds
  <2>4. OkKept'
    BY <1>1, <2>1 DEF OkKept, Supervising
  <2> QED
    BY <2>1, <2>2, <2>3, <2>4
<1>5. PidIsChild'
  BY <1>1 DEF PidIsChild, Files, Orderly
<1> QED
  BY <1>2, <1>3, <1>4, <1>5 DEF Files, Undisturbed

(* The end of a process: its runsvs stay where they were, or are dead.     *)
LEMMA FilesDie ==
  ASSUME RunitTypeOK, Files, NEW I, Die(I), UNCHANGED <<exists, ok, pidfile, dir, child, started, faults>>,
         scanner' = "run" => scanner = "run"
  PROVE  Files'
<1>1. \A j \in Runsvs : pc'[j] = pc[j] \/ (pc'[j] = "dead" /\ pc[j] \notin Over)
  BY DEF Die
<1>2. \A j \in Runsvs : Holds(j)' => Holds(j)
  BY <1>1 DEF Holds, Over
<1>3. Placed'
  BY <1>1 DEF Placed, Files, Over
<1>4. OkMeansSupervised'
  BY <1>1 DEF OkMeansSupervised, Files
<1>5. ASSUME Orderly' PROVE (\A e \in Dirs : exists'[e]) /\ Alone' /\ Known' /\ OkKept'
  <2>1. Orderly /\ (\A e \in Dirs : exists[e]) /\ Alone /\ Known /\ OkKept
    BY <1>5 DEF Orderly, Files, Undisturbed
  <2>2. Alone' /\ Known'
    BY <1>2, <2>1 DEF Alone, Known
  <2>3. OkKept'
    BY <1>1, <2>1 DEF OkKept, Supervising
  <2> QED
    BY <2>1, <2>2, <2>3
<1>6. PidIsChild'
  BY <1>1 DEF PidIsChild, Files, Orderly
<1> QED
  BY <1>3, <1>4, <1>5, <1>6 DEF Files, Undisturbed

LEMMA AroundKeepsFiles ==
  ASSUME RunitTypeOK, Files, Around
  PROVE  Files'
<1> USE DEF dirs, super, kids
<1>1. ASSUME NEW i \in Runsvs, CancelRunsv(i) PROVE Files'
  BY <1>1, FilesStay DEF CancelRunsv
<1>2. ASSUME NEW i \in Runsvs, KillRunsv(i) PROVE Files'
  BY <1>2, FilesDie DEF KillRunsv
<1>3. ASSUME NEW i \in Runsvs, NEW d \in Dirs, RunManually(i, d) PROVE Files'
  <2>1. Orderly => ~Occupied(d) /\ (scanner = "run" => d \in started)
    BY <1>3 DEF RunManually, Orderly
  <2>2. Orderly => \A j \in Runsvs : Holds(j) => dir[j] # d
    BY <2>1 DEF Occupied, Holds, Over
  <2> QED
    BY <1>3, <2>1, <2>2, FilesLaunch DEF RunManually
<1>4. ASSUME NEW d \in Dirs, Remove(d) PROVE Files'
  <2>1. ~Orderly /\ ~Orderly'
    BY <1>4 DEF Remove, Orderly
  <2>2. \A e \in Dirs : ok'[e] => ok[e]
    BY <1>4 DEF Remove, RunitTypeOK
  <2> QED
    BY <1>4, <2>1, <2>2 DEF Remove, Files, Placed, OkMeansSupervised, Undisturbed, PidIsChild
<1>5. ASSUME NEW d \in Dirs, Add(d) PROVE Files'
  <2>1. \A e \in Dirs : exists[e] => exists'[e]
    BY <1>5 DEF Add, RunitTypeOK
  <2> QED
    BY <1>5, <2>1
    DEF Add, Files, Placed, OkMeansSupervised, Undisturbed, PidIsChild, Orderly, Alone, Known, OkKept, Holds
<1>6. ASSUME NEW d \in Dirs, Scan(d) PROVE Files'
  <2>1. PICK i \in Runsvs \ Manual : Launch(i, d)
    BY <1>6 DEF Scan
  <2>2. Orderly => \A j \in Runsvs : Holds(j) => dir[j] # d
    BY <1>6 DEF Scan, Files, Undisturbed, Known
  <2> QED
    BY <1>6, <2>1, <2>2, FilesLaunch DEF Scan
<1>7. ASSUME NEW d \in Dirs, NEW c \in Commands, SendControl(d, c) PROVE Files'
  BY <1>7, FilesStay DEF SendControl
<1>8. ASSUME NEW n \in 1 .. MaxStarts, ChildExits(n) PROVE Files'
  BY <1>8, FilesStay DEF ChildExits, Still
<1>9. CASE KillRunsvdir \/ RunsvdirReturns
  BY <1>9, FilesDie DEF KillRunsvdir, RunsvdirReturns
<1> QED
  BY <1>1, <1>2, <1>3, <1>4, <1>5, <1>6, <1>7, <1>8, <1>9 DEF Around

(* A runsv's step that writes no file, or its own.                         *)
LEMMA FilesMove ==
  ASSUME RunitTypeOK, Files, NEW i \in Runsvs, NEW l, GoTo(i, l), Still, UNCHANGED <<ok, pidfile>>,
         pc[i] \notin Over, \A j \in Runsvs : j # i => child'[j] = child[j],
         l \in Supervising \cup {"stat", "ok", "control", "failed"},
         l # "failed" => l # "wait",
         pc[i] \in Supervising \cup {"control"} => l \in Supervising \cup {"control", "failed"},
         l \in Supervising \cup {"control"} /\ pc[i] \notin Supervising \cup {"control"}
           => (Orderly => ok[dir[i]])
  PROVE  Files'
<1>1. pc'[i] = l /\ \A j \in Runsvs : j # i => pc'[j] = pc[j]
  BY DEF GoTo, RunitTypeOK
<1>2. Placed'
  BY <1>1 DEF Placed, Files, Still, Over
<1>3. OkMeansSupervised'
  BY <1>1 DEF OkMeansSupervised, Files, Still, Over
<1>4. ASSUME Orderly' PROVE (\A e \in Dirs : exists'[e]) /\ Alone' /\ Known' /\ OkKept'
  <2>1. Orderly /\ (\A e \in Dirs : exists[e]) /\ Alone /\ Known /\ OkKept
    BY <1>4 DEF Orderly, Files, Undisturbed, Still
  <2>2. \A j \in Runsvs : Holds(j)' => Holds(j)
    BY <1>1 DEF Holds, Over
  <2>3. Alone' /\ Known'
    BY <2>1, <2>2 DEF Alone, Known, Still
  <2>4. OkKept'
    BY <1>1, <2>1 DEF OkKept, Still
  <2>5. UNCHANGED exists
    BY DEF Still, dirs
  <2> QED
    BY <2>1, <2>3, <2>4, <2>5
<1>5. PidIsChild'
  BY <1>1 DEF PidIsChild, Files, Orderly, Still
<1> QED
  BY <1>2, <1>3, <1>4, <1>5 DEF Files, Undisturbed

LEMMA RunsvKeepsFiles ==
  ASSUME RunitTypeOK, Files, NEW i \in Runsvs, Runsv(i)
  PROVE  Files'
<1> USE DEF At, super, kids
<1>1. CASE Fail(i)
  BY <1>1, FilesMove DEF Fail, Over, Supervising
<1>2. CASE StatDir(i)
  BY <1>2, FilesMove DEF StatDir, Over, Supervising
<1>3. CASE WriteOk(i)
  <2>1. pc[i] = "ok" /\ pc'[i] = "control" /\ \A j \in Runsvs : j # i => pc'[j] = pc[j]
    BY <1>3 DEF WriteOk, GoTo, RunitTypeOK
  <2>2. dir[i] \in Dirs
    BY <2>1 DEF Files, Placed
  <2>3. /\ ok'[dir[i]] /\ \A e \in Dirs : ok'[e] => ok[e] \/ e = dir[i]
        /\ \A e \in Dirs : ok[e] => ok'[e]
        /\ \A e \in Dirs : exists[e] => exists'[e]
    BY <1>3, <2>2 DEF WriteOk, RunitTypeOK
  <2>4. Placed'
    BY <1>3, <2>1, <2>2 DEF WriteOk, Placed, Files
  <2>5. OkMeansSupervised'
    BY <1>3, <2>1, <2>3 DEF WriteOk, OkMeansSupervised, Files
  <2>6. ASSUME Orderly' PROVE (\A e \in Dirs : exists'[e]) /\ Alone' /\ Known' /\ OkKept'
    <3>1. Orderly /\ (\A e \in Dirs : exists[e]) /\ Alone /\ Known /\ OkKept
      BY <1>3, <2>6 DEF WriteOk, Orderly, Files, Undisturbed
    <3>2. Alone' /\ Known'
      BY <1>3, <2>1, <3>1 DEF WriteOk, Alone, Known, Holds
    <3>3. \A j \in Runsvs : pc[j] \in Supervising \cup {"control"} => dir[j] \in Dirs
      BY DEF Files, Placed, Supervising
    <3>4. OkKept'
      BY <1>3, <2>1, <2>3, <3>1, <3>3 DEF WriteOk, OkKept
    <3> QED
      BY <2>3, <3>1, <3>2, <3>4
  <2>7. PidIsChild'
    BY <1>3, <2>1 DEF WriteOk, PidIsChild, Files, Orderly
  <2> QED
    BY <2>4, <2>5, <2>6, <2>7 DEF Files, Undisturbed
<1>4. CASE WriteControl(i)
  BY <1>4, FilesMove DEF WriteControl, Over, Supervising
<1>5. CASE CheckDown(i)
  BY <1>5, FilesMove DEF CheckDown, Over, Supervising
<1>6. CASE StartChild(i)
  <2>1. \A j \in Runsvs : j # i => child'[j] = child[j]
    BY <1>6 DEF StartChild, RunitTypeOK
  <2> QED
    BY <1>6, <2>1, FilesMove DEF StartChild, Over, Supervising
<1>7. CASE ChildStartFails(i)
  BY <1>7, FilesMove DEF ChildStartFails, Over, Supervising
<1>8. CASE WritePid(i)
  <2>1. pc[i] = "pid" /\ pc'[i] = "wait" /\ \A j \in Runsvs : j # i => pc'[j] = pc[j]
    BY <1>8 DEF WritePid, GoTo, RunitTypeOK
  <2>2. dir[i] \in Dirs
    BY <2>1 DEF Files, Placed
  <2>3. Placed'
    BY <1>8, <2>1 DEF WritePid, Still, Placed, Files
  <2>4. OkMeansSupervised'
    BY <1>8, <2>1 DEF WritePid, Still, OkMeansSupervised, Files, Supervising
  <2>5. Undisturbed'
    BY <1>8, <2>1 DEF WritePid, Still, dirs, Undisturbed, Files, Orderly, Alone, Known, OkKept, Holds, Supervising
  <2>6. ASSUME Orderly', NEW j \in Runsvs, pc'[j] = "wait"
        PROVE  pidfile'[dir'[j]] = child'[j]
    <3>1. Orderly /\ exists[dir[i]] /\ ok[dir[i]] /\ Alone
      BY <1>8, <2>1, <2>2, <2>6 DEF WritePid, Still, Orderly, Files, Undisturbed, OkKept, Supervising
    <3>2. pidfile' = [pidfile EXCEPT ![dir[i]] = child[i]] /\ UNCHANGED <<dir, child>>
      BY <1>8, <3>1 DEF WritePid, Still, HasSupervise
    <3>3. CASE j = i
      BY <2>2, <3>2, <3>3 DEF RunitTypeOK
    <3>4. CASE j # i
      <4>1. pc[j] = "wait" /\ dir[j] # dir[i]
        BY <2>1, <2>6, <3>1, <3>4 DEF Alone, Holds
      <4>2. dir[j] \in Dirs /\ pidfile[dir[j]] = child[j]
        BY <3>1, <4>1 DEF Files, Placed, PidIsChild
      <4> QED
        BY <3>2, <4>1, <4>2 DEF RunitTypeOK
    <3> QED
      BY <3>3, <3>4
  <2> QED
    BY <2>3, <2>4, <2>5, <2>6 DEF Files, PidIsChild
<1>9. CASE KillChild(i)
  BY <1>9, FilesStay DEF KillChild, Still, dirs
<1>10. CASE ChildWaited(i)
  BY <1>10, FilesMove DEF ChildWaited, Over, Supervising
<1>11. CASE Restart(i)
  BY <1>11, FilesMove DEF Restart, Over, Supervising
<1>12. CASE Stop(i)
  <2>1. /\ pc[i] \in Supervising /\ pc'[i] = "done"
        /\ \A j \in Runsvs : j # i => pc'[j] = pc[j]
    BY <1>12 DEF Stop, GoTo, RunitTypeOK, Supervising
  <2>2. dir[i] \in Dirs
    BY <2>1 DEF Files, Placed, Supervising
  <2>3. \A e \in Dirs : ok'[e] <=> ok[e] /\ e # dir[i]
    BY <1>12, <2>2 DEF Stop, RunitTypeOK
  <2>4. Placed'
    BY <1>12, <2>1 DEF Stop, Still, Placed, Files
  <2>5. OkMeansSupervised'
    BY <1>12, <2>1, <2>3 DEF Stop, Still, OkMeansSupervised, Files
  <2>6. ASSUME Orderly' PROVE (\A e \in Dirs : exists'[e]) /\ Alone' /\ Known' /\ OkKept'
    <3>1. Orderly /\ (\A e \in Dirs : exists[e]) /\ Alone /\ Known /\ OkKept
      BY <1>12, <2>6 DEF Stop, Still, Orderly, Files, Undisturbed
    <3>2. Alone' /\ Known'
      BY <1>12, <2>1, <3>1 DEF Stop, Still, Alone, Known, Holds
    <3>3. ASSUME NEW j \in Runsvs, pc'[j] \in Supervising \cup {"control"} PROVE ok'[dir'[j]]
      <4>1. j # i /\ pc'[j] = pc[j]
        BY <2>1, <3>3 DEF Supervising
      <4>2. dir[j] # dir[i] /\ dir[j] \in Dirs /\ ok[dir[j]]
        BY <2>1, <3>1, <3>3, <4>1 DEF Alone, Holds, OkKept, Supervising, Files, Placed
      <4> QED
        BY <1>12, <2>3, <4>2 DEF Stop, Still
    <3>4. UNCHANGED exists
      BY <1>12 DEF Stop, Still, dirs
    <3> QED
      BY <3>1, <3>2, <3>3, <3>4 DEF OkKept
  <2>7. PidIsChild'
    BY <1>12, <2>1 DEF Stop, Still, PidIsChild, Files, Orderly
  <2> QED
    BY <2>4, <2>5, <2>6, <2>7 DEF Files, Undisturbed
<1> QED
  BY <1>1, <1>2, <1>3, <1>4, <1>5, <1>6, <1>7, <1>8, <1>9, <1>10, <1>11, <1>12 DEF Runsv

(* The strengthened invariant holds of the specification.                  *)
THEOREM FilesInvariance == RunitSpec => []FilesIInv
<1>1. Files /\ RunitTypeOK /\ [RunitNext]_rvars => Files'
  <2> SUFFICES ASSUME Files, RunitTypeOK, [RunitNext]_rvars PROVE Files'
    OBVIOUS
  <2>1. CASE Around
    BY <2>1, AroundKeepsFiles
  <2>2. ASSUME NEW i \in Runsvs, Runsv(i) PROVE Files'
    BY <2>2, RunsvKeepsFiles
  <2>3. CASE UNCHANGED rvars
    BY <2>3, FilesStay DEF rvars, dirs, super, kids
  <2> QED
    BY <2>1, <2>2, <2>3 DEF RunitNext, Around
<1>2. RunitInit => Files
  BY FilesBegin DEF FilesIInv, Files
<1>3. RunitIInv /\ Files => FilesIInv
  BY DEF FilesIInv, Files
<1> QED
  BY <1>1, <1>2, <1>3, RunitTypeCorrect, RunitInvariance, PTL DEF RunitSpec

(* What the files of a directory say is so: the ok file is there only      *)
(* while a runsv is or was about to supervise it; and if nobody disturbs   *)
(* the directories or gives one to two runsvs, the file stays while one    *)
(* supervises, one child runs at a time, and the pid file names it, through*)
(* takeovers and kills.                                                    *)
THEOREM SuperviseFilesTellTruth == RunitSpec => []FilesTellTruth
<1> SUFFICES FilesIInv => FilesTellTruth
  BY FilesInvariance, PTL
<1> SUFFICES ASSUME FilesIInv PROVE FilesTellTruth
  OBVIOUS
<1>1. MaintainsOk
  BY DEF FilesIInv, Undisturbed, OkKept, MaintainsOk
<1>2. OneChild
  <2> SUFFICES ASSUME Orderly, NEW m \in alive, NEW n \in alive, dir[runs[m]] = dir[runs[n]]
               PROVE  m = n
    BY DEF OneChild
  <2>1. runs[m] \in Runsvs /\ runs[n] \in Runsvs
    BY ElementOfSeq DEF FilesIInv, RunitIInv, RunitTypeOK
  <2>2. Holds(runs[m]) /\ Holds(runs[n]) /\ child[runs[m]] = m /\ child[runs[n]] = n
    BY DEF FilesIInv, RunitIInv, ChildIsAwaited, Holds
  <2> QED
    BY <2>1, <2>2 DEF FilesIInv, Undisturbed, Alone
<1> QED
  BY <1>1, <1>2 DEF FilesTellTruth, TakeoverIsClean, FilesIInv
=============================================================================
