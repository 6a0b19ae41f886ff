------------------------------- MODULE Tftp -------------------------------
(***************************************************************************)
(* tftp -g against tftpd, over UDP.  The client sends one read request and *)
(* collects DATA packets in the order of their 16-bit block numbers,       *)
(* acknowledging each, until a short one arrives or ten seconds are over.  *)
(* The server sends the whole file without waiting for acknowledgements,   *)
(* and then answers each of them with an ERROR, as it knows no such        *)
(* request.  Neither side ever sends anything again.                       *)
(*                                                                         *)
(* Chunk i of the file is represented by i; what matters of its bytes is   *)
(* whether they fill a block.                                              *)
(***************************************************************************)
EXTENDS Naturals, Integers, Sequences

CONSTANTS
  BlockNumbers,  \* how many block numbers there are: 2^16
  Contents,      \* files: the number of full blocks, and whether a shorter one follows
  TftpScenarios, \* sets of what may go wrong: the network, the deadline, the file
  MaxCopies      \* bound: how often the network duplicates a packet

ASSUME FileAssumption ==
  BlockNumbers \in Nat \ {0} /\ Contents \subseteq [full : Nat, rest : BOOLEAN] /\ MaxCopies \in Nat
ASSUME TftpScenarioAssumption ==
  TftpScenarios \subseteq SUBSET {"lose", "duplicate", "reorder", "deadline", "refuse"}

VARIABLES
  content,     \* the file that is asked for
  getter,      \* the client: start, reading, ok, failed
  expected,    \* the block number it waits for
  out,         \* the chunks it has written
  atServer, atClient,  \* packets under way
  sending,     \* whether the server is in sendFile
  block, off,  \* its next block number and chunk
  copies,      \* packets duplicated so far
  faults       \* what may go wrong in this behaviour

client == <<getter, expected, out>>
server == <<sending, block, off>>
behaviour == <<content, faults>>
tftpvars == <<client, server, atServer, atClient, copies, behaviour>>

(* sendFile stops at the chunk that reaches the end of the file; the chunk *)
(* of an empty file is empty.                                              *)
Full == content.full
LastFullChunk == IF Full > 0 THEN Full - 1 ELSE 0   \* mutant: off-by-one
FullBlocksOnly == Full > 0 /\ ~content.rest
LastChunk == IF FullBlocksOnly THEN Full - 1 ELSE Full
Chunks    == 0 .. LastChunk
Short(c)  == c >= Full

Inc(b)    == (b + 1) % BlockNumbers     \* uint16 arithmetic

Data(b, c)  == [op |-> "DATA", block |-> b, chunk |-> c]
Ack(b)      == [op |-> "ACK", block |-> b]
ErrorPacket == [op |-> "ERROR"]
Request     == [op |-> "RRQ"]

AtServer == {Request} \cup {Ack(b) : b \in 0 .. BlockNumbers - 1}
AtClient == {ErrorPacket}
            \cup {Data(b, c) : b \in 0 .. BlockNumbers - 1, c \in Chunks}

TftpTypeOK ==
  /\ content \in Contents /\ getter \in {"start", "reading", "ok", "failed"}
  /\ expected \in 0 .. BlockNumbers - 1 /\ block \in 0 .. BlockNumbers - 1
  /\ out \in Seq(Chunks) /\ off \in Nat
  /\ atServer \in Seq(AtServer) /\ atClient \in Seq(AtClient)
  /\ sending \in BOOLEAN /\ copies \in Nat /\ faults \in TftpScenarios

TftpInit ==
  /\ content \in Contents /\ getter = "start" /\ expected = Inc(0) /\ out = <<>>
  /\ atServer = <<>> /\ atClient = <<>>
  /\ sending = FALSE /\ block = Inc(0) /\ off = 0
  /\ copies = 0 /\ faults \in TftpScenarios

-----------------------------------------------------------------------------
(* The network. *)

Drop(s, i) == SubSeq(s, 1, i - 1) \o SubSeq(s, i + 1, Len(s))

(* The next packet to arrive: the first one, or any. *)
Arrives(s, i) == i \in DOMAIN s /\ (i = 1 \/ "reorder" \in faults)

TftpLose ==
  /\ "lose" \in faults
  /\ \/ \E i \in DOMAIN atServer : atServer' = Drop(atServer, i) /\ UNCHANGED atClient
     \/ \E i \in DOMAIN atClient : atClient' = Drop(atClient, i) /\ UNCHANGED atServer
  /\ UNCHANGED <<client, server, copies, behaviour>>

TftpDuplicate ==
  /\ "duplicate" \in faults /\ copies < MaxCopies
  /\ copies' = copies + 1
  /\ \/ \E i \in DOMAIN atServer :
          atServer' = Append(atServer, atServer[i]) /\ UNCHANGED atClient
     \/ \E i \in DOMAIN atClient :
          atClient' = Append(atClient, atClient[i]) /\ UNCHANGED atServer
  /\ UNCHANGED <<client, server, behaviour>>

-----------------------------------------------------------------------------
(* The client. *)

SendRequest ==
  /\ getter = "start"
  /\ getter' = "reading"
  /\ atServer' = Append(atServer, Request)
  /\ UNCHANGED <<expected, out, server, atClient, copies, behaviour>>

(* The one deadline of the connection passes. *)
Deadline ==
  /\ "deadline" \in faults /\ getter = "reading"
  /\ getter' = "failed"
  /\ UNCHANGED <<expected, out, server, atServer, atClient, copies, behaviour>>

ReceiveUnordered ==      \* mutant: the block number is not looked at
  /\ getter = "reading"
  /\ \E i \in DOMAIN atClient :
       /\ Arrives(atClient, i)
       /\ atClient' = Drop(atClient, i)
       /\ LET p == atClient[i] IN
          IF p.op = "ERROR"
          THEN getter' = "failed" /\ UNCHANGED <<expected, out, atServer>>
          ELSE /\ out' = Append(out, p.chunk)
               /\ atServer' = Append(atServer, Ack(p.block))
               /\ expected' = Inc(expected)
               /\ getter' = IF Short(p.chunk) THEN "ok" ELSE "reading"
  /\ UNCHANGED <<server, copies, behaviour>>

Receive ==
  /\ getter = "reading"
  /\ \E i \in DOMAIN atClient :
       /\ Arrives(atClient, i)
       /\ atClient' = Drop(atClient, i)
       /\ LET p == atClient[i] IN
          \/ /\ p.op = "ERROR"
             /\ getter' = "failed"
             /\ UNCHANGED <<expected, out, atServer>>
          \/ /\ p.op = "DATA" /\ p.block # expected
             /\ UNCHANGED <<client, atServer>>
          \/ /\ p.op = "DATA" /\ p.block = expected
             /\ out' = Append(out, p.chunk)
             /\ atServer' = Append(atServer, Ack(p.block))
             /\ expected' = Inc(expected)
             /\ getter' = IF Short(p.chunk) THEN "ok" ELSE "reading"
  /\ UNCHANGED <<server, copies, behaviour>>

-----------------------------------------------------------------------------
(* The server, which reads its socket only when it is not sending. *)

ServeRequest ==
  /\ ~sending
  /\ \E i \in DOMAIN atServer :
       /\ Arrives(atServer, i)
       /\ atServer' = Drop(atServer, i)
       /\ IF atServer[i].op = "RRQ"
          THEN sending' = TRUE /\ block' = Inc(0) /\ off' = 0 /\ UNCHANGED atClient
          ELSE atClient' = Append(atClient, ErrorPacket) /\ UNCHANGED server
  /\ UNCHANGED <<client, copies, behaviour>>

(* safeJoin or os.ReadFile fails. *)
Refuse ==
  /\ "refuse" \in faults /\ ~sending
  /\ \E i \in DOMAIN atServer :
       /\ Arrives(atServer, i) /\ atServer[i].op = "RRQ"
       /\ atServer' = Drop(atServer, i)
       /\ atClient' = Append(atClient, ErrorPacket)
  /\ UNCHANGED <<client, server, copies, behaviour>>

SendChunk ==
  /\ sending
  /\ atClient' = Append(atClient, Data(block, off))
  /\ sending' = (off < LastChunk)
  /\ off' = off + 1 /\ block' = Inc(block)
  /\ UNCHANGED <<client, atServer, copies, behaviour>>

-----------------------------------------------------------------------------
TftpNext == \/ SendRequest \/ Receive \/ Deadline
            \/ ServeRequest \/ Refuse \/ SendChunk
            \/ TftpLose \/ TftpDuplicate

TftpSpec == TftpInit /\ [][TftpNext]_tftpvars

(* Both programs run, and what the network does not lose arrives. *)
TftpFairSpec ==
  /\ TftpSpec /\ WF_tftpvars(SendRequest) /\ WF_tftpvars(Receive)
  /\ WF_tftpvars(ServeRequest) /\ WF_tftpvars(SendChunk)

-----------------------------------------------------------------------------
(* "0 the transfer completed": a get that succeeds has written the file,   *)
(* every chunk once and in order.                                          *)
Intact == getter = "ok" => out = [i \in 1 .. LastChunk + 1 |-> i - 1]

(* "A final short block terminates the transfer": where nothing goes wrong *)
(* a get succeeds, as it has its last chunk before the ERRORs that its     *)
(* acknowledgements cause reach it.  The exception is a file that is full  *)
(* blocks and nothing else, for which sendFile sends no short block: the   *)
(* client has the whole file and waits for more until an ERROR ends it.    *)
Completes == faults = {} /\ ~FullBlocksOnly => <>(getter = "ok")
=============================================================================
