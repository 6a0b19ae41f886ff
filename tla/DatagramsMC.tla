---------------------------- MODULE DatagramsMC ----------------------------
(***************************************************************************)
(* The programs that talk in datagrams: tftp with tftpd, and udhcpc with   *)
(* udhcpd.  A behaviour runs one pair; the other one stands still, under a *)
(* scenario of faults, in which nothing is promised.                       *)
(* Eight addresses stand for 2^32.                                         *)
(***************************************************************************)
EXTENDS Tftp, Dhcp
CONSTANTS c1, c2

VARIABLE pair   \* the pair in view
dgvars == <<pair, tftpvars, vars>>

Nothing     == [c \in Clients |-> 0]
FirstOfPool == [c \in Clients |-> IF c = c1 THEN Start ELSE 0]
ThreeScenes ==
  {[faults |-> {}, remembered |-> Nothing],
   [faults |-> {"lose", "duplicate", "timeout", "fail"}, remembered |-> Nothing],
   [faults |-> {"restart", "timeout", "fail"}, remembered |-> FirstOfPool]}

(* As many chunks as there are block numbers; full blocks only; nothing.   *)
Empty == [full |-> 0, rest |-> FALSE]
ThreeContents == {[full |-> 2, rest |-> TRUE], [full |-> 2, rest |-> FALSE], Empty}

DatagramsInit ==
  /\ TftpInit /\ Init
  /\ \/ pair = "tftp" /\ scene = [faults |-> {"restart", "timeout", "fail"}, remembered |-> FirstOfPool]
     \/ pair = "dhcp" /\ faults # {} /\ content = Empty

(* A step of one pair, which the other one does not see. *)
Tftp(A) == pair = "tftp" /\ A /\ UNCHANGED <<pair, vars>>
Dhcp(A) == pair = "dhcp" /\ A /\ UNCHANGED <<pair, tftpvars>>

RunTftp == Tftp(TftpNext)
RunDhcp == Dhcp(Next)
DatagramsNext == RunTftp \/ RunDhcp

(* The fairness of TftpFairSpec and FairSpec. *)
DatagramsSpec ==
  /\ DatagramsInit /\ [][DatagramsNext]_dgvars
  /\ WF_dgvars(Tftp(SendRequest)) /\ WF_dgvars(Tftp(Receive))
  /\ WF_dgvars(Tftp(ServeRequest)) /\ WF_dgvars(Tftp(SendChunk))
  /\ WF_dgvars(Dhcp(HandleDiscover)) /\ WF_dgvars(Dhcp(HandleRequest))
  /\ \A c \in Clients : /\ WF_dgvars(Dhcp(Discover(c)))
                        /\ WF_dgvars(Dhcp(ReceiveOffer(c)))
                        /\ WF_dgvars(Dhcp(ReceiveAck(c)))
=============================================================================
