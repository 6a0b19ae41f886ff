------------------------------- MODULE Dhcp -------------------------------
(***************************************************************************)
(* udhcpd's address pool and the DISCOVER, OFFER, REQUEST, ACK exchange of *)
(* udhcpc's Acquire.  The server keeps one thing, the next address to hand *)
(* out: it remembers no offer and no lease.  Each client has a transport   *)
(* of its own, over which its caller may run Acquire again after a         *)
(* failure; neither side looks at transaction ids.                         *)
(*                                                                         *)
(* Addresses are the numbers below Addresses (2^32); 0 is 0.0.0.0.         *)
(***************************************************************************)
EXTENDS Naturals, Integers, Sequences

CONSTANTS
  Clients,
  Addresses,    \* how many addresses there are
  Start, End,   \* the configured pool
  Scenarios,    \* what may go wrong, and the addresses clients remember
  MaxDiscovers, \* bound: exchanges begun in all
  MaxDups       \* bound: packets the network duplicates

ASSUME PoolAssumption ==
  /\ Addresses \in Nat /\ Start \in 1 .. Addresses - 1 /\ End \in 0 .. Addresses - 1
  /\ MaxDiscovers \in Nat /\ MaxDups \in Nat
(* A client that has had no address before remembers 0.                    *)
ASSUME ScenarioAssumption ==
  Scenarios \subseteq [faults : SUBSET {"lose", "duplicate", "timeout", "fail", "restart"},
                       remembered : [Clients -> Start .. End \cup {0}]]

VARIABLES
  serving,    \* whether udhcpd is in Serve
  next,       \* the allocator's next address
  toServer,   \* requests under way
  toClient,   \* each client's replies under way
  state,      \* each client: idle, selecting, requesting, bound, failed
  lease,      \* each client's address, 0 when it has none
  discovers, dups,
  scene       \* the scenario of this behaviour

vars == <<serving, next, toServer, toClient, state, lease, discovers, dups, scene>>
clients == <<state, lease>>
counts  == <<discovers, dups, scene>>

Address == 0 .. Addresses - 1
Pool    == Start .. End

(* ip is the requested or the assigned address.                            *)
ToServer == [from : Clients, type : {"discover", "request"}, ip : Address]
ToClient == [type : {"offer", "ack"}, ip : Address]

TypeOK ==
  /\ serving \in BOOLEAN /\ next \in Address
  /\ toServer \in Seq(ToServer) /\ toClient \in [Clients -> Seq(ToClient)]
  /\ state \in [Clients -> {"idle", "selecting", "requesting", "bound", "failed"}]
  /\ lease \in [Clients -> Address]
  /\ discovers \in Nat /\ dups \in Nat /\ scene \in Scenarios

Init ==
  /\ serving = TRUE /\ next = Start
  /\ toServer = <<>> /\ toClient = [c \in Clients |-> <<>>]
  /\ state = [c \in Clients |-> "idle"] /\ lease = [c \in Clients |-> 0]
  /\ discovers = 0 /\ dups = 0 /\ scene \in Scenarios

-----------------------------------------------------------------------------
(* The clients. *)

Say(c, type, ip) ==
  toServer' = Append(toServer, [from |-> c, type |-> type, ip |-> ip])

Discover(c) ==
  /\ state[c] \in {"idle", "failed"} /\ discovers < MaxDiscovers
  /\ discovers' = discovers + 1
  /\ state' = [state EXCEPT ![c] = "selecting"]
  /\ Say(c, "discover", 0)
  /\ UNCHANGED <<serving, next, toClient, lease, dups, scene>>

(* Recv: the reply c reads next, whatever it answers. *)
Take(c) == toClient' = [toClient EXCEPT ![c] = Tail(@)]

ReceiveOffer(c) ==
  /\ state[c] = "selecting" /\ toClient[c] # <<>>
  /\ LET reply == Head(toClient[c]) IN
     IF reply.type = "offer"
     THEN /\ state' = [state EXCEPT ![c] = "requesting"]
          /\ Say(c, "request", reply.ip)
     ELSE /\ state' = [state EXCEPT ![c] = "failed"]
          /\ UNCHANGED toServer
  /\ Take(c)
  /\ UNCHANGED <<serving, next, lease, counts>>

ReceiveAck(c) ==
  /\ state[c] = "requesting" /\ toClient[c] # <<>>
  /\ LET reply == Head(toClient[c]) IN
     IF reply.type = "ack"
     THEN /\ lease' = [lease EXCEPT ![c] = reply.ip]
          /\ state' = [state EXCEPT ![c] = "bound"]
     ELSE /\ state' = [state EXCEPT ![c] = "failed"]
          /\ UNCHANGED lease
  /\ Take(c)
  /\ UNCHANGED <<serving, next, toServer, counts>>

(* The transport gives up.                                                 *)
Timeout(c) ==
  /\ "timeout" \in scene.faults /\ state[c] \in {"selecting", "requesting"}
  /\ state' = [state EXCEPT ![c] = "failed"]
  /\ UNCHANGED <<serving, next, toServer, toClient, lease, counts>>

(* Another DHCP client, which asks for an address it has had before.       *)
Rejoin(c) ==
  /\ scene.remembered[c] # 0 /\ state[c] \in {"idle", "failed"} /\ discovers < MaxDiscovers
  /\ discovers' = discovers + 1
  /\ Say(c, "request", scene.remembered[c])
  /\ state' = [state EXCEPT ![c] = "requesting"]
  /\ UNCHANGED <<serving, next, toClient, lease, dups, scene>>

-----------------------------------------------------------------------------
(* The server. *)

IncNone(ip) == ip           \* mutant: the pool does not advance
IncIP(ip) == (ip + 1) % Addresses

Reply(c, type, ip) ==
  toClient' = [toClient EXCEPT ![c] = Append(@, [type |-> type, ip |-> ip])]

(* An error of the transport ends Serve.                                   *)
Fails == "fail" \in scene.faults /\ serving' = FALSE

ReceiveFails ==
  /\ serving /\ Fails
  /\ UNCHANGED <<next, toServer, toClient, clients, counts>>

Answer(c, type, ip) == \/ Reply(c, type, ip) /\ UNCHANGED serving
                       \/ Fails /\ UNCHANGED toClient

HandleDiscoverShort ==      \* mutant: the last address is not handed out
  /\ serving /\ toServer # <<>> /\ Head(toServer).type = "discover"
  /\ toServer' = Tail(toServer)
  /\ IF next >= End
     THEN UNCHANGED <<serving, next, toClient>>
     ELSE /\ Answer(Head(toServer).from, "offer", next)
          /\ next' = IncIP(next)
  /\ UNCHANGED <<clients, counts>>

(* A server whose pool is used up stays silent.  An address is used up     *)
(* even when its offer cannot be sent.                                     *)
HandleDiscover ==
  /\ serving /\ toServer # <<>> /\ Head(toServer).type = "discover"
  /\ toServer' = Tail(toServer)
  /\ IF next > End
     THEN UNCHANGED <<serving, next, toClient>>
     ELSE /\ Answer(Head(toServer).from, "offer", next)
          /\ next' = IncIP(next)
  /\ UNCHANGED <<clients, counts>>

(* Whatever address a client asks for is acknowledged.  A decoded packet   *)
(* always has an address, so the branches for one without are never taken. *)
HandleRequest ==
  /\ serving /\ toServer # <<>> /\ Head(toServer).type = "request"
  /\ toServer' = Tail(toServer)
  /\ Answer(Head(toServer).from, "ack", Head(toServer).ip)
  /\ UNCHANGED <<next, clients, counts>>

(* The pool is in memory only.                                             *)
Restart ==
  /\ "restart" \in scene.faults
  /\ serving' = TRUE /\ next' = Start /\ toServer' = <<>>
  /\ UNCHANGED <<toClient, clients, counts>>

-----------------------------------------------------------------------------
(* The network: packets stay in order on each path. *)

Lose ==
  /\ "lose" \in scene.faults
  /\ \/ /\ toServer # <<>> /\ toServer' = Tail(toServer) /\ UNCHANGED toClient
     \/ \E c \in Clients : toClient[c] # <<>> /\ Take(c) /\ UNCHANGED toServer
  /\ UNCHANGED <<serving, next, clients, counts>>

Duplicate ==
  /\ "duplicate" \in scene.faults /\ dups < MaxDups
  /\ dups' = dups + 1
  /\ \/ /\ toServer # <<>>
        /\ toServer' = Append(toServer, Head(toServer)) /\ UNCHANGED toClient
     \/ \E c \in Clients :
          /\ toClient[c] # <<>>
          /\ toClient' = [toClient EXCEPT ![c] = Append(@, Head(@))]
          /\ UNCHANGED toServer
  /\ UNCHANGED <<serving, next, clients, discovers, scene>>

-----------------------------------------------------------------------------
Client(c) == \/ Discover(c) \/ ReceiveOffer(c) \/ ReceiveAck(c)
             \/ Timeout(c) \/ Rejoin(c)
Server    == HandleDiscover \/ HandleRequest \/ ReceiveFails \/ Restart

Next == (\E c \in Clients : Client(c)) \/ Server \/ Lose \/ Duplicate
Spec == Init /\ [][Next]_vars

FairSpec ==
  /\ Spec /\ WF_vars(HandleDiscover) /\ WF_vars(HandleRequest)
  /\ \A c \in Clients : WF_vars(Discover(c)) /\ WF_vars(ReceiveOffer(c))
                        /\ WF_vars(ReceiveAck(c))

-----------------------------------------------------------------------------
(* No two clients hold the same address, as long as the server is not      *)
(* restarted and every client asks for what it was offered: Allocate       *)
(* "returns the next free IP".                                             *)
AsOffered == "restart" \notin scene.faults /\ \A c \in Clients : scene.remembered[c] = 0
NoSharedLease ==
  AsOffered => \A c, d \in Clients :
    c # d /\ state[c] = "bound" /\ state[d] = "bound" => lease[c] # lease[d]

(* "Allocator hands out IPs from the configured pool": whatever a client   *)
(* is offered or given is in the pool, restarts or not.                    *)
InPool ==
  \A c \in Clients : /\ state[c] = "bound" => lease[c] \in Pool
                     /\ \A i \in DOMAIN toClient[c] : toClient[c][i].ip \in Pool

(* Leases are from the pool, and nobody else's.                            *)
LeasesAreSound == InPool /\ NoSharedLease

(* Without faults every client gets a lease, when the pool is large enough *)
(* for all.                                                                *)
AllServed ==
  scene.faults = {} => <>(\A c \in Clients : state[c] = "bound")
=============================================================================
