------------------------------- MODULE Inetd -------------------------------
(***************************************************************************)
(* inetd: one accept loop of ConnServer for each TCP service of its        *)
(* configuration, bound one after the other and awaited together.  The     *)
(* loops run while later services are still being bound; the goroutine     *)
(* that closes the listeners on cancellation starts after the last one.    *)
(***************************************************************************)
EXTENDS ConnServer, Sequences

CONSTANT Config   \* the services in the order of the configuration file

ASSUME ConfigAssumption ==
  /\ Config \in Seq(Services)
  /\ \A i, j \in DOMAIN Config : Config[i] = Config[j] => i = j

VARIABLES
  main,   \* binding, waiting, ok, failed; alone when there is no inetd
  next    \* the index in Config of the service to bind

ivars == <<vars, main, next>>

InetdTypeOK ==
  /\ TypeOK
  /\ main \in {"binding", "waiting", "ok", "failed", "alone"}
  /\ next \in 1 .. Len(Config) + 1

InetdInit ==
  /\ InitConns
  /\ sock = [s \in Services |-> "unbound"]
  /\ loop = [s \in Services |-> "off"]
  /\ main = "binding" /\ next = 1

Listeners == {s \in Services : sock[s] # "unbound"}

(* Datagram services are reported and skipped. *)
Bind ==
  /\ main = "binding" /\ next <= Len(Config)
  /\ next' = next + 1
  /\ LET s == Config[next] IN
     IF s \in Stream
     THEN /\ sock' = [sock EXCEPT ![s] = "open"]
          /\ loop' = [loop EXCEPT ![s] = "accept"]
     ELSE UNCHANGED <<sock, loop>>
  /\ UNCHANGED <<cancelled, wg, conn, prog, copiers, clients, main>>

(* The listeners bound so far are closed, their loops are not awaited. *)
BindFails ==
  /\ main = "binding" /\ next <= Len(Config) /\ Config[next] \in Stream
  /\ MayFail
  /\ CloseSocket(Listeners)
  /\ main' = "failed"
  /\ UNCHANGED <<cancelled, loop, wg, prog, copiers, next>>

AllBound ==
  /\ main = "binding" /\ next > Len(Config)
  /\ main' = IF Listeners = {} THEN "failed" ELSE "waiting"
  /\ UNCHANGED <<vars, next>>

ServeReturnsFirst == \* mutant: returns with the first loop that ends
  /\ main = "waiting" /\ \E s \in Listeners : Ended(s)
  /\ main' = IF \E s \in Services : loop[s] = "failed" THEN "failed" ELSE "ok"
  /\ UNCHANGED <<vars, next>>

(* wg.Wait, then firstErr. *)
ServeReturns ==
  /\ main = "waiting" /\ \A s \in Services : Ended(s)
  /\ main' = IF \E s \in Services : loop[s] = "failed" THEN "failed" ELSE "ok"
  /\ UNCHANGED <<vars, next>>

InetdClose(s) ==
  main # "binding" /\ CloseOnCancel(s) /\ UNCHANGED <<main, next>>

InetdErrorClosesAll(s) ==  \* mutant: one service's error stops the others
  /\ loop[s] = "accept" /\ (sock[s] = "closed" \/ MayFail)
  /\ loop' = [loop EXCEPT ![s] = IF cancelled THEN "wait" ELSE "failed"]
  /\ CloseSocket(Listeners)
  /\ UNCHANGED <<cancelled, wg, prog, copiers, main, next>>

InetdError(s) == AcceptError(s) /\ UNCHANGED <<main, next>>

InetdNext ==
  \/ Bind \/ BindFails \/ AllBound \/ ServeReturns
  \/ \E s \in Services : \/ InetdClose(s) \/ InetdError(s)
                         \/ WaitDone(s) /\ UNCHANGED <<main, next>>
  \/ Cancel /\ UNCHANGED <<main, next>>
  \/ \E c \in Conns : (Server(c) \/ Peer(c)) /\ UNCHANGED <<main, next>>

InetdSpec == InetdInit /\ [][InetdNext]_ivars

(* Every goroutine that can run does; programs need not exit by themselves *)
(* and accept need not fail while the socket is open.                      *)
InetdFair ==
  /\ WF_ivars(Bind \/ BindFails \/ AllBound \/ ServeReturns)
  /\ \A s \in Services :
       WF_ivars(InetdClose(s) \/ (sock[s] = "closed" /\ InetdError(s))
                  \/ (WaitDone(s) /\ UNCHANGED <<main, next>>))
  /\ \A c \in Conns : WF_ivars(Handle(c) /\ UNCHANGED <<main, next>>)

InetdPeersLeave == \A c \in Conns : WF_ivars(LetGo(c) /\ UNCHANGED <<main, next>>)

-----------------------------------------------------------------------------
(* Serve returns nil only when every service has been shut down in order:  *)
(* no handler, no program and no failed service is left behind.            *)
AllAwaited ==
  main = "ok" => /\ \A c \in Conns : ~Active(c) /\ prog[c] # "alive"
                 /\ \A s \in Services : loop[s] \in {"off", "ok"}

(* A service that fails takes no other with it: as long as inetd is up,    *)
(* whoever connects to a service whose own loop has not failed is served,  *)
(* and nobody is turned away.                                              *)
Isolated ==
  \A i \in DOMAIN Config : \A c \in {d \in Conns : SvcOf[d] = Config[i]} :
    main # "alone" /\ conn[c] = "backlog" ~>
    \/ conn[c] \notin {"backlog", "reset"}
    \/ cancelled \/ main = "failed"
    \/ loop[SvcOf[c]] = "failed" /\ conn[c] # "reset"

(* "until its context is cancelled, then stops accepting and returns":     *)
(* the cancellation, whenever it comes, ends the programs, the loops and   *)
(* Serve of a server by itself and of inetd, once the peers have hung up   *)
(* and what the killed programs had started in the background is gone:     *)
(* nothing in the server closes a connection whose peer stays silent, and  *)
(* nothing ends a descendant that keeps the program's output open.  And    *)
(* once Serve has failed, be it that a later service cannot be bound, the  *)
(* loops of all services end.                                              *)
ServersStop ==
  /\ cancelled ~> ShutDown /\ main \notin {"binding", "waiting"}
  /\ main = "failed" ~> \A s \in Services : Ended(s)

-----------------------------------------------------------------------------
(* For the run: inetd with two TCP services around a datagram service that *)
(* it skips, one peer each; or one server by itself, of each kind, with    *)
(* two peers.  A server by itself has inetd's loops and nothing to bind.   *)
ConfigThree == <<"a", "udp", "b">>
KindOf == [c1 |-> "a", c2 |-> "b", t1 |-> "tcp", t2 |-> "tcp", d1 |-> "udp", d2 |-> "udp", i1 |-> "ident"]

ByItself == Init /\ main = "alone" /\ next = 1
ServersSpec ==
  /\ InetdInit \/ ByItself
  /\ [][InetdNext]_ivars
  /\ InetdFair /\ InetdPeersLeave
=============================================================================
