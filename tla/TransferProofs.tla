--------------------------- MODULE TransferProofs ---------------------------
(***************************************************************************)
(* TFTP: a get of a file whose blocks have different numbers writes the    *)
(* file or fails, whatever the network loses, repeats or reorders: a DATA  *)
(* packet with the expected number carries the expected chunk.             *)
(*                                                                         *)
(* DHCP: as long as udhcpd is not restarted and its clients ask for the    *)
(* addresses they were offered, no two of them hold the same address,      *)
(* whatever the network does: every address below the allocator's next one *)
(* has been offered to one client.  Whatever happens, no address is from   *)
(* outside the pool.                                                       *)
(*                                                                         *)
(* compress: the file or its .Z holds the data at every step.  For that    *)
(* the codec must invert itself on every file that does not fill the       *)
(* table: the codes stand at places both sides know (Grid), in widths both *)
(* sides switch at the same code (Packing, DecInv), and what a code stands *)
(* for is a piece of the file that both tables hold (TableInv).            *)
(*                                                                         *)
(* mv, cp and rm: wherever they stop, what they carry and what they        *)
(* promise to spare is somewhere.  mv across devices removes a path when   *)
(* all are copied (CopyPart), within one it leaves every file where it was *)
(* or where it goes (LocatedPart), cp leaves its sources alone             *)
(* (SourcesPart), and what overwrites nothing never opens a file that      *)
(* exists (GentlePart).                                                    *)
(***************************************************************************)
EXTENDS Tftp, Dhcp, Compress, FileOps, SequenceTheorems, FiniteSetTheorems,
  WellFoundedInduction, TLAPS


(* The remainder of a number below the modulus, and of the modulus.        *)
LEMMA Remainder ==
  /\ \A k \in Nat : k < BlockNumbers => k % BlockNumbers = k
  /\ BlockNumbers % BlockNumbers = 0
  /\ \A k \in Nat : k % BlockNumbers \in 0 .. BlockNumbers - 1
  BY FileAssumption, SMT

(* A packet less is still a sequence of such packets.                      *)
LEMMA DropType ==
  ASSUME NEW T, NEW s \in Seq(T), NEW i \in DOMAIN s
  PROVE  Drop(s, i) \in Seq(T)
<1>1. i \in 1 .. Len(s) /\ Len(s) \in Nat
  OBVIOUS
<1>2. SubSeq(s, 1, i - 1) \in Seq(T) /\ SubSeq(s, i + 1, Len(s)) \in Seq(T)
  BY <1>1
<1> QED BY <1>2 DEF Drop

(* The chunks and their shortness.                                         *)
LEMMA ChunkFacts ==
  ASSUME content \in Contents
  PROVE
  /\ Full \in Nat /\ LastChunk \in Nat /\ LastChunk <= Full
  /\ \A c \in Chunks : c \in Nat /\ c <= LastChunk
  /\ \A c \in Chunks : Short(c) => c = LastChunk /\ c = Full
  /\ \A c \in Chunks : ~Short(c) => c < Full
<1>1. Full \in Nat /\ content.rest \in BOOLEAN
  <2>1. content \in [full : Nat, rest : BOOLEAN]
    BY FileAssumption
  <2>2. content.full \in Nat /\ content.rest \in BOOLEAN
    BY <2>1
  <2> QED BY <2>2 DEF Full
<1> QED BY <1>1 DEF LastChunk, FullBlocksOnly, Chunks, Short

-----------------------------------------------------------------------------
(* The steps of the network keep the kind of the packets.                  *)
LEMMA NetworkTypes ==
  ASSUME NEW S, NEW C, atServer \in Seq(S), atClient \in Seq(C), TftpLose \/ TftpDuplicate
  PROVE  atServer' \in Seq(S) /\ atClient' \in Seq(C)
<1>1. CASE TftpLose
  BY <1>1, DropType DEF TftpLose
<1>2. CASE TftpDuplicate
  <2>1. \A i \in DOMAIN atServer : Append(atServer, atServer[i]) \in Seq(S)
    OBVIOUS
  <2>2. \A i \in DOMAIN atClient : Append(atClient, atClient[i]) \in Seq(C)
    OBVIOUS
  <2> QED BY <1>2, <2>1, <2>2 DEF TftpDuplicate
<1> QED BY <1>1, <1>2

(* The chunk that goes with a block number.                                *)
BlockOf(c) == (c + 1) % BlockNumbers
Sent == {ErrorPacket} \cup {Data(BlockOf(c), c) : c \in Chunks}

(* The file stays what it is.                                              *)
LEMMA SameFile ==
  ASSUME content' = content
  PROVE  /\ Full' = Full /\ LastChunk' = LastChunk /\ Chunks' = Chunks /\ Sent' = Sent
<1>1. Full' = Full
  BY DEF Full
<1>2. LastChunk' = LastChunk
  BY <1>1 DEF LastChunk, FullBlocksOnly
<1>3. Chunks' = Chunks
  BY <1>2 DEF Chunks
<1> QED BY <1>1, <1>2, <1>3 DEF Sent

(* The client has the first n chunks and waits for the number of the next. *)
Prefix(n) ==
  /\ out = [i \in 1 .. n |-> i - 1]
  /\ n <= LastChunk + 1
  /\ getter = "start" => n = 0 /\ expected = BlockOf(0)
  /\ getter = "reading" => n <= Full /\ expected = BlockOf(n)
  /\ getter = "ok" => n = LastChunk + 1

(* The inductive invariant: packets are well numbered, and the two ends    *)
(* agree on the numbering.                                                 *)
GetIInv ==
  /\ content \in Contents
  /\ getter \in {"start", "reading", "ok", "failed"}
  /\ expected \in 0 .. BlockNumbers - 1 /\ block \in 0 .. BlockNumbers - 1
  /\ sending \in BOOLEAN /\ copies \in Nat /\ off \in Nat
  /\ atServer \in Seq(AtServer) /\ atClient \in Seq(Sent)
  /\ sending => off \in Chunks /\ block = BlockOf(off)
  /\ \E n \in Nat : Prefix(n)

(* A chunk is the next one when its number is the expected one.            *)
LEMMA NumberIsChunk ==
  ASSUME content \in Contents, Full < BlockNumbers, NEW n \in Nat, n <= Full, NEW c \in Chunks,
         BlockOf(c) = BlockOf(n)
  PROVE  c = n
<1>1. c \in Nat /\ c <= Full
  BY ChunkFacts, FileAssumption
<1>2. n + 1 \in Nat /\ c + 1 \in Nat /\ n + 1 <= BlockNumbers /\ c + 1 <= BlockNumbers
  BY <1>1, ChunkFacts, FileAssumption
<1>3. /\ n + 1 < BlockNumbers => BlockOf(n) = n + 1
      /\ n + 1 = BlockNumbers => BlockOf(n) = 0
  BY <1>2, Remainder DEF BlockOf
<1>4. /\ c + 1 < BlockNumbers => BlockOf(c) = c + 1
      /\ c + 1 = BlockNumbers => BlockOf(c) = 0
  BY <1>2, Remainder DEF BlockOf
<1> HIDE DEF BlockOf
<1> QED BY <1>1, <1>2, <1>3, <1>4, FileAssumption

(* The number after a chunk's is the next chunk's.                         *)
LEMMA NextNumber ==
  ASSUME content \in Contents, Full < BlockNumbers, NEW c \in Nat, c < Full
  PROVE  Inc(BlockOf(c)) = BlockOf(c + 1)
<1>1. c + 1 \in Nat /\ c + 1 < BlockNumbers
  BY ChunkFacts, FileAssumption
<1>2. BlockOf(c) = c + 1
  BY <1>1, Remainder DEF BlockOf
<1> QED BY <1>2 DEF Inc, BlockOf

(* Numbers stay in range.                                                  *)
LEMMA IncType == \A b \in 0 .. BlockNumbers - 1 : Inc(b) \in 0 .. BlockNumbers - 1
  BY Remainder, FileAssumption DEF Inc

(* What the client does with an arriving packet.                           *)
LEMMA ReceiveKeeps == ASSUME Full < BlockNumbers, GetIInv, Receive PROVE GetIInv'
<1>1. PICK i \in DOMAIN atClient :
        /\ atClient' = Drop(atClient, i)
        /\ LET p == atClient[i] IN
           \/ /\ p.op = "ERROR"
              /\ getter' = "failed"
              /\ UNCHANGED <<expected, out, atServer>>
           \/ /\ p.op = "DATA" /\ p.block # expected
              /\ UNCHANGED <<client, atServer>>
           \/ /\ p.op = "DATA" /\ p.block = expected
              /\ out' = Append(out, p.chunk)
              /\ atServer' = Append(atServer, Ack(p.block))
              /\ expected' = Inc(expected)
              /\ getter' = IF Short(p.chunk) THEN "ok" ELSE "reading"
  BY DEF Receive
<1> DEFINE p == atClient[i]
<1>2. getter = "reading" /\ UNCHANGED <<sending, block, off, copies, content>>
  BY DEF Receive, server, behaviour
<1>8. content \in Contents /\ Full' = Full /\ LastChunk' = LastChunk /\ Chunks' = Chunks /\ Sent' = Sent
  BY <1>2, SameFile DEF GetIInv
<1>3. PICK n \in Nat : Prefix(n)
  BY DEF GetIInv
<1>4. atClient' \in Seq(Sent) /\ p \in Sent
  BY <1>1, DropType DEF GetIInv
<1>5. CASE p.op = "ERROR"
  <2>1. getter' = "failed" /\ UNCHANGED <<expected, out, atServer>>
    BY <1>1, <1>5
  <2>2. Prefix(n)'
    BY <1>3, <1>8, <2>1 DEF Prefix
  <2> QED BY <1>2, <1>4, <1>8, <2>1, <2>2 DEF GetIInv
<1>6. CASE p.op = "DATA" /\ p.block # expected
  <2>1. UNCHANGED <<getter, expected, out, atServer>>
    BY <1>1, <1>6 DEF client
  <2>2. Prefix(n)'
    BY <1>3, <1>8, <2>1 DEF Prefix
  <2> QED BY <1>2, <1>4, <1>8, <2>1, <2>2 DEF GetIInv
<1>7. CASE p.op = "DATA" /\ p.block = expected
  <2>1. PICK c \in Chunks : p = Data(BlockOf(c), c)
    BY <1>4, <1>7 DEF Sent, ErrorPacket
  <2>2. p.block = BlockOf(c) /\ p.chunk = c
    BY <2>1 DEF Data
  <2>3. n <= Full /\ expected = BlockOf(n)
    BY <1>2, <1>3 DEF Prefix
  <2>4. c = n
    BY <1>7, <1>8, <2>2, <2>3, NumberIsChunk
  <2>5. /\ out' = Append(out, c) /\ atServer' = Append(atServer, Ack(expected))
        /\ expected' = Inc(expected)
        /\ getter' = IF Short(c) THEN "ok" ELSE "reading"
    BY <1>1, <1>7, <2>2
  <2>6. out = [j \in 1 .. n |-> j - 1]
    BY <1>3 DEF Prefix
  <2>7. out' = [j \in 1 .. n + 1 |-> j - 1]
    BY <2>4, <2>5, <2>6
  <2>8. Prefix(n + 1)'
    <3>1. CASE Short(c)
      BY <1>8, <2>4, <2>5, <2>7, <3>1, ChunkFacts DEF Prefix
    <3>2. CASE ~Short(c)
      <4>1. c < Full /\ n + 1 <= Full /\ n + 1 <= LastChunk + 1
        BY <1>8, <2>4, <3>2, ChunkFacts, FileAssumption
      <4>2. expected' = BlockOf(n + 1)
        BY <1>8, <2>3, <2>4, <2>5, <4>1, NextNumber
      <4>3. getter' = "reading"
        BY <2>5, <3>2
      <4> QED BY <1>8, <2>7, <4>1, <4>2, <4>3 DEF Prefix
    <3> QED BY <3>1, <3>2
  <2>9. atServer' \in Seq(AtServer)
    <3>1. Ack(expected) \in AtServer
      BY DEF GetIInv, AtServer
    <3> QED BY <2>5, <3>1 DEF GetIInv
  <2>10. expected' \in 0 .. BlockNumbers - 1 /\ getter' \in {"ok", "reading"}
    BY <2>5, IncType DEF GetIInv
  <2>11. n + 1 \in Nat
    OBVIOUS
  <2> QED BY <1>2, <1>4, <1>8, <2>8, <2>9, <2>10, <2>11 DEF GetIInv
<1> QED BY <1>1, <1>5, <1>6, <1>7

(* What the server sends is well numbered.                                 *)
LEMMA SendKeeps == ASSUME Full < BlockNumbers, GetIInv, SendChunk PROVE GetIInv'
<1>1. off \in Chunks /\ block = BlockOf(off)
  BY DEF SendChunk, GetIInv
<1>2. atClient' = Append(atClient, Data(BlockOf(off), off))
  BY <1>1 DEF SendChunk
<1>3. Data(BlockOf(off), off) \in Sent
  BY <1>1 DEF Sent
<1>4. atClient' \in Seq(Sent)
  BY <1>2, <1>3 DEF GetIInv
<1>5. /\ off' = off + 1 /\ block' = Inc(block) /\ sending' = (off < LastChunk)
      /\ UNCHANGED <<getter, expected, out, atServer, copies, content>>
  BY DEF SendChunk, client, behaviour
<1>9. content \in Contents /\ Full' = Full /\ LastChunk' = LastChunk /\ Chunks' = Chunks /\ Sent' = Sent
  BY <1>5, SameFile DEF GetIInv
<1>6. sending' => off' \in Chunks /\ block' = BlockOf(off')
  <2> SUFFICES ASSUME off < LastChunk PROVE off + 1 \in Chunks /\ Inc(block) = BlockOf(off + 1)
    BY <1>5, <1>9
  <2>1. off \in Nat /\ off < Full /\ off + 1 \in Chunks
    BY <1>1, <1>9, ChunkFacts, FileAssumption DEF Chunks
  <2> QED BY <1>1, <1>9, <2>1, NextNumber
<1>7. \E n \in Nat : Prefix(n)'
  BY <1>5, <1>9 DEF GetIInv, Prefix
<1>8. block' \in 0 .. BlockNumbers - 1 /\ off' \in Nat
  BY <1>5, IncType DEF GetIInv
<1> QED BY <1>4, <1>5, <1>6, <1>7, <1>8, <1>9 DEF GetIInv

(* A request starts the numbering, another packet gets an ERROR.           *)
LEMMA ServeKeeps == ASSUME GetIInv, ServeRequest \/ Refuse PROVE GetIInv'
<1>1. PICK i \in DOMAIN atServer :
        /\ atServer' = Drop(atServer, i)
        /\ \/ /\ sending' = TRUE /\ block' = Inc(0) /\ off' = 0 /\ UNCHANGED atClient
           \/ atClient' = Append(atClient, ErrorPacket) /\ UNCHANGED server
  BY DEF ServeRequest, Refuse
<1>2. ~sending /\ UNCHANGED <<getter, expected, out, copies, content>>
  BY DEF ServeRequest, Refuse, client, behaviour
<1>7. content \in Contents /\ Full' = Full /\ LastChunk' = LastChunk /\ Chunks' = Chunks /\ Sent' = Sent
  BY <1>2, SameFile DEF GetIInv
<1>3. atServer' \in Seq(AtServer)
  BY <1>1, DropType DEF GetIInv
<1>4. atClient' \in Seq(Sent)
  <2>1. atClient \in Seq(Sent) /\ ErrorPacket \in Sent
    BY DEF GetIInv, Sent
  <2>2. Append(atClient, ErrorPacket) \in Seq(Sent)
    BY <2>1, AppendProperties
  <2> QED BY <1>1, <2>1, <2>2
<1>5. \E n \in Nat : Prefix(n)'
  BY <1>2, <1>7 DEF GetIInv, Prefix
<1>6. /\ sending' \in BOOLEAN /\ off' \in Nat /\ block' \in 0 .. BlockNumbers - 1
      /\ sending' => off' \in Chunks /\ block' = BlockOf(off')
  <2>1. 0 \in 0 .. BlockNumbers - 1 /\ 0 \in Chunks /\ Inc(0) = BlockOf(0)
    BY <1>7, FileAssumption, ChunkFacts DEF Chunks, Inc, BlockOf
  <2>2. CASE sending' = TRUE /\ block' = Inc(0) /\ off' = 0
    BY <1>7, <2>1, <2>2, IncType
  <2>3. CASE UNCHANGED server
    BY <1>2, <1>7, <2>3 DEF server, GetIInv
  <2> QED BY <1>1, <2>2, <2>3
<1> QED BY <1>2, <1>3, <1>4, <1>5, <1>6, <1>7 DEF GetIInv

(* The invariant is inductive.                                             *)
LEMMA GetStepIInv ==
  ASSUME \A f \in Contents : f.full < BlockNumbers
  PROVE  GetIInv /\ [TftpNext]_tftpvars => GetIInv'
<1> SUFFICES ASSUME GetIInv, [TftpNext]_tftpvars PROVE GetIInv'
  OBVIOUS
<1>0. Full < BlockNumbers
  BY DEF GetIInv, Full
<1>5. content' = content
  BY DEF TftpNext, SendRequest, Receive, Deadline, ServeRequest, Refuse, SendChunk, TftpLose,
     TftpDuplicate, behaviour, tftpvars
<1>6. content' \in Contents /\ Full' = Full /\ LastChunk' = LastChunk /\ Chunks' = Chunks /\ Sent' = Sent
  BY <1>5, SameFile DEF GetIInv
<1>1. CASE SendRequest
  <2>1. Request \in AtServer
    BY DEF AtServer
  <2>2. atServer' \in Seq(AtServer)
    BY <1>1, <2>1 DEF SendRequest, GetIInv
  <2>3. \E n \in Nat : Prefix(n)'
    BY <1>1, <1>6, ChunkFacts DEF SendRequest, GetIInv, Prefix
  <2> QED BY <1>1, <1>6, <2>2, <2>3 DEF SendRequest, GetIInv, server
<1>2. CASE Deadline
  BY <1>2, <1>6 DEF Deadline, GetIInv, server, Prefix
<1>3. CASE TftpLose \/ TftpDuplicate
  <2>1. atServer' \in Seq(AtServer) /\ atClient' \in Seq(Sent)
    BY <1>3, NetworkTypes DEF GetIInv
  <2>2. UNCHANGED <<getter, expected, out, sending, block, off>> /\ copies' \in Nat
    BY <1>3 DEF TftpLose, TftpDuplicate, client, server, GetIInv
  <2>3. \E n \in Nat : Prefix(n)'
    BY <1>6, <2>2 DEF GetIInv, Prefix
  <2> QED BY <1>6, <2>1, <2>2, <2>3 DEF GetIInv
<1>4. CASE UNCHANGED tftpvars
  BY <1>4, <1>6 DEF tftpvars, client, server, GetIInv, Prefix
<1> QED BY <1>0, <1>1, <1>2, <1>3, <1>4, ReceiveKeeps, SendKeeps, ServeKeeps DEF TftpNext

(* A get that succeeds has written the file, when no file has more full    *)
(* blocks than there are block numbers less one: less than 2^25 bytes.     *)
THEOREM GetIsIntact ==
  ASSUME \A f \in Contents : f.full < BlockNumbers
  PROVE  TftpSpec => []Intact
<1>1. TftpInit => GetIInv
  <2> SUFFICES ASSUME TftpInit PROVE GetIInv
    OBVIOUS
  <2>0. content \in Contents
    BY DEF TftpInit
  <2>1. Prefix(0)
    BY <2>0, ChunkFacts DEF TftpInit, Prefix, Inc, BlockOf
  <2>2. Inc(0) \in 0 .. BlockNumbers - 1
    BY IncType, FileAssumption
  <2>3. atServer \in Seq(AtServer) /\ atClient \in Seq(Sent)
    BY DEF TftpInit
  <2>4. sending = FALSE /\ getter = "start" /\ copies = 0 /\ off = 0
        /\ expected = Inc(0) /\ block = Inc(0)
    BY DEF TftpInit
  <2>5. \E n \in Nat : Prefix(n)
    BY <2>1
  <2> QED BY <2>0, <2>2, <2>3, <2>4, <2>5 DEF GetIInv
<1>2. GetIInv => Intact
  BY DEF GetIInv, Prefix, Intact
<1> QED BY <1>1, <1>2, GetStepIInv, PTL DEF TftpSpec

-----------------------------------------------------------------------------
(* The pool ends below the highest address, so the allocator's next one    *)
(* passes its end.                                                         *)
PoolEnds == End + 1 < Addresses

(* own[ip] is the client that address ip was offered to.  The packets that *)
(* may be under way are those about addresses their client owns.           *)
Owned(own, n, c) == {ip \in Address : Start <= ip /\ ip < n /\ ip <= End /\ own[ip] = c}
Requests(own, n) ==
  {[from |-> c, type |-> "discover", ip |-> 0] : c \in Clients}
  \cup {r \in ToServer : r.type = "request" /\ r.ip \in Owned(own, n, r.from)}
Replies(own, n, c) == {r \in ToClient : r.ip \in Owned(own, n, c)}

(* What the owners say of a state.                                         *)
Consistent(own) ==
  /\ own \in [Address -> Clients \cup {"nobody"}]
  /\ toServer \in Seq(Requests(own, next))
  /\ \A c \in Clients : toClient[c] \in Seq(Replies(own, next, c))
  /\ \A c \in Clients : state[c] = "bound" => lease[c] \in Owned(own, next, c)

(* The inductive invariant.                                                *)
LeaseIInv ==
  /\ next \in Address /\ Start <= next
  /\ toClient \in [Clients -> Seq(ToClient)]
  /\ state \in [Clients -> {"idle", "selecting", "requesting", "bound", "failed"}]
  /\ lease \in [Clients -> Address]
  /\ \E own : Consistent(own)

(* Requests and replies are packets.                                       *)
LEMMA PacketTypes ==
  ASSUME NEW own, NEW n, NEW c \in Clients
  PROVE  Replies(own, n, c) \subseteq ToClient
  BY DEF Replies

(* The first packet of a path is of the path's kind, and so is the rest.   *)
LEMMA HeadTail ==
  ASSUME NEW T, NEW s \in Seq(T), s # <<>>
  PROVE  Head(s) \in T /\ Tail(s) \in Seq(T)
  BY HeadTailProperties

(* A step that leaves the server's pool alone and adds only packets about  *)
(* a client's own addresses keeps the invariant.                           *)
LEMMA Keeps ==
  ASSUME LeaseIInv, NEW own, Consistent(own), next' = next,
         toClient' \in [Clients -> Seq(ToClient)],
         state' \in [Clients -> {"idle", "selecting", "requesting", "bound", "failed"}],
         lease' \in [Clients -> Address],
         toServer' \in Seq(Requests(own, next)),
         \A c \in Clients : toClient'[c] \in Seq(Replies(own, next, c)),
         \A c \in Clients : state'[c] = "bound" => lease'[c] \in Owned(own, next, c)
  PROVE  LeaseIInv'
<1>1. Consistent(own)'
  BY DEF Consistent, Requests, Replies, Owned
<1> QED BY <1>1 DEF LeaseIInv

(* Taking a reply leaves the others.                                       *)
LEMMA TakeKeeps ==
  ASSUME LeaseIInv, NEW own, Consistent(own), NEW c \in Clients, toClient[c] # <<>>, Take(c)
  PROVE  /\ Head(toClient[c]) \in Replies(own, next, c)
         /\ toClient' \in [Clients -> Seq(ToClient)]
         /\ \A d \in Clients : toClient'[d] \in Seq(Replies(own, next, d))
<1>1. toClient[c] \in Seq(Replies(own, next, c)) /\ toClient[c] \in Seq(ToClient)
  BY DEF Consistent, LeaseIInv
<1>2. Head(toClient[c]) \in Replies(own, next, c)
      /\ Tail(toClient[c]) \in Seq(Replies(own, next, c))
  BY <1>1, HeadTail
<1>3. Tail(toClient[c]) \in Seq(ToClient)
  BY <1>1, HeadTail
<1>4. \A d \in Clients :
        toClient'[d] = IF d = c THEN Tail(toClient[c]) ELSE toClient[d]
  BY DEF Take, LeaseIInv
<1>5. toClient' \in [Clients -> Seq(ToClient)]
  BY <1>3 DEF Take, LeaseIInv
<1> QED BY <1>2, <1>4, <1>5 DEF Consistent

(* A reply about an address its client owns may be added, or be lost in    *)
(* the error that ends Serve.                                              *)
LEMMA ReplyKeeps ==
  ASSUME LeaseIInv, NEW own, NEW n, NEW c \in Clients, NEW type \in {"offer", "ack"},
         NEW ip \in Owned(own, n, c), Answer(c, type, ip),
         \A d \in Clients : toClient[d] \in Seq(Replies(own, n, d))
  PROVE  /\ toClient' \in [Clients -> Seq(ToClient)]
         /\ \A d \in Clients : toClient'[d] \in Seq(Replies(own, n, d))
<1> DEFINE r == [type |-> type, ip |-> ip]
<1>1. r \in ToClient /\ r \in Replies(own, n, c)
  BY DEF Owned, ToClient, Replies
<1>2. \/ toClient' = [toClient EXCEPT ![c] = Append(toClient[c], r)]
      \/ toClient' = toClient
  BY DEF Answer, Fails, Reply
<1> HIDE DEF r
<1>3. Append(toClient[c], r) \in Seq(ToClient)
      /\ Append(toClient[c], r) \in Seq(Replies(own, n, c))
  BY <1>1, AppendProperties DEF LeaseIInv
<1> QED BY <1>2, <1>3 DEF LeaseIInv

(* The steps of a client.                                                  *)
LEMMA ClientKeeps ==
  ASSUME PoolEnds, AsOffered, LeaseIInv, NEW own, Consistent(own), NEW c \in Clients, Client(c)
  PROVE  LeaseIInv'
<1> USE DEF clients, counts
<1>1. CASE Discover(c)
  <2>1. PICK p \in Requests(own, next) : p = [from |-> c, type |-> "discover", ip |-> 0]
    BY DEF Requests
  <2>2. toServer' = Append(toServer, p) /\ toServer \in Seq(Requests(own, next))
    BY <1>1, <2>1 DEF Discover, Say, Consistent
  <2>4. toServer' \in Seq(Requests(own, next))
    BY <2>2, AppendProperties
  <2>3. /\ next' = next /\ UNCHANGED <<toClient, lease>>
        /\ state' = [state EXCEPT ![c] = "selecting"]
    BY <1>1 DEF Discover
  <2> QED BY <2>3, <2>4, Keeps DEF LeaseIInv, Consistent
<1>2. CASE ReceiveOffer(c)
  <2> DEFINE reply == Head(toClient[c])
  <2>1. toClient[c] # <<>> /\ Take(c) /\ next' = next /\ lease' = lease
    BY <1>2 DEF ReceiveOffer
  <2>2. /\ reply \in Replies(own, next, c)
        /\ toClient' \in [Clients -> Seq(ToClient)]
        /\ \A d \in Clients : toClient'[d] \in Seq(Replies(own, next, d))
    BY <2>1, TakeKeeps
  <2>3. [from |-> c, type |-> "request", ip |-> reply.ip] \in Requests(own, next)
    BY <2>2 DEF Replies, Requests, ToServer, Owned
  <2>6. toServer \in Seq(Requests(own, next))
    BY DEF Consistent
  <2>7. ASSUME reply.type = "offer" PROVE toServer' \in Seq(Requests(own, next))
    <3>1. PICK q \in Requests(own, next) :
            q = [from |-> c, type |-> "request", ip |-> reply.ip]
      BY <2>3
    <3>2. toServer' = Append(toServer, q)
      BY <1>2, <2>7, <3>1 DEF ReceiveOffer, Say
    <3> QED BY <2>6, <3>1, <3>2, AppendProperties
  <2>8. ASSUME reply.type # "offer" PROVE toServer' \in Seq(Requests(own, next))
    BY <1>2, <2>6, <2>8 DEF ReceiveOffer
  <2>4. toServer' \in Seq(Requests(own, next))
    BY <2>7, <2>8
  <2>5. state' \in [Clients -> {"idle", "selecting", "requesting", "bound", "failed"}]
        /\ \A d \in Clients : state'[d] = "bound" => state[d] = "bound"
    BY <1>2 DEF ReceiveOffer, LeaseIInv
  <2> HIDE DEF reply
  <2> QED BY <2>1, <2>2, <2>4, <2>5, Keeps DEF LeaseIInv, Consistent
<1>3. CASE ReceiveAck(c)
  <2> DEFINE reply == Head(toClient[c])
  <2>1. toClient[c] # <<>> /\ Take(c) /\ next' = next /\ toServer' = toServer
    BY <1>3 DEF ReceiveAck
  <2>2. /\ reply \in Replies(own, next, c)
        /\ toClient' \in [Clients -> Seq(ToClient)]
        /\ \A d \in Clients : toClient'[d] \in Seq(Replies(own, next, d))
    BY <2>1, TakeKeeps
  <2>3. reply.ip \in Owned(own, next, c) /\ reply.ip \in Address
    BY <2>2 DEF Replies, Owned
  <2>4. \/ lease' = [lease EXCEPT ![c] = reply.ip] /\ state' = [state EXCEPT ![c] = "bound"]
        \/ lease' = lease /\ state' = [state EXCEPT ![c] = "failed"]
    BY <1>3 DEF ReceiveAck
  <2> HIDE DEF reply
  <2>5. /\ state' \in [Clients -> {"idle", "selecting", "requesting", "bound", "failed"}]
        /\ lease' \in [Clients -> Address]
        /\ \A d \in Clients : state'[d] = "bound" => lease'[d] \in Owned(own, next, d)
    BY <2>3, <2>4 DEF LeaseIInv, Consistent
  <2> QED BY <2>1, <2>2, <2>5, Keeps DEF Consistent
<1>4. CASE Timeout(c)
  BY <1>4, Keeps DEF Timeout, LeaseIInv, Consistent
<1>5. CASE Rejoin(c)
  BY <1>5 DEF Rejoin, AsOffered
<1> QED BY <1>1, <1>2, <1>3, <1>4, <1>5 DEF Client

(* A DISCOVER is answered with the next address, which nobody owns yet.    *)
LEMMA DiscoverKeeps ==
  ASSUME PoolEnds, AsOffered, LeaseIInv, NEW own, Consistent(own), HandleDiscover
  PROVE  LeaseIInv'
<1> USE DEF clients, counts
<1> DEFINE r == Head(toServer)
           c == r.from
<1>1. toServer # <<>> /\ r.type = "discover" /\ UNCHANGED <<state, lease>>
  BY DEF HandleDiscover
<1>2. r \in Requests(own, next) /\ Tail(toServer) \in Seq(Requests(own, next))
  BY <1>1, HeadTail DEF Consistent
<1>3. c \in Clients
  BY <1>2 DEF Requests, ToServer
<1>4. toServer' = Tail(toServer)
  BY DEF HandleDiscover
<1> HIDE DEF r
<1>5. CASE next > End
  <2>1. UNCHANGED <<next, toClient>>
    BY <1>5 DEF HandleDiscover
  <2> QED BY <1>1, <1>2, <1>4, <2>1, Keeps DEF LeaseIInv, Consistent
<1>6. CASE ~(next > End)
  <2>1. Answer(c, "offer", next) /\ next' = IncIP(next)
    BY <1>6 DEF HandleDiscover, r
  <2>2. next \in Nat /\ End \in Nat /\ next <= End /\ next + 1 < Addresses /\ Addresses \in Nat
    BY <1>6, PoolAssumption DEF LeaseIInv, PoolEnds, Address
  <2>3. next' = next + 1
    BY <2>1, <2>2, SMT DEF IncIP
  <2>4. next' \in Address /\ Start <= next' /\ Start <= next
    BY <2>2, <2>3, PoolAssumption DEF LeaseIInv, Address
  <2>0. PICK new : new = [own EXCEPT ![next] = c]
    OBVIOUS
  <2>5. new \in [Address -> Clients \cup {"nobody"}]
    BY <1>3, <2>0 DEF Consistent
  <2>6. \A d \in Clients : Owned(own, next, d) \subseteq Owned(new, next + 1, d)
    BY <2>0, <2>2, PoolAssumption DEF Owned, Consistent, Address
  <2>7. next \in Owned(new, next + 1, c)
    BY <2>0, <2>2, <2>4 DEF Owned, Consistent, LeaseIInv, Address
  <2>8. Requests(own, next) \subseteq Requests(new, next + 1)
    BY <2>6 DEF Requests, ToServer
  <2>9. \A d \in Clients : Replies(own, next, d) \subseteq Replies(new, next + 1, d)
    BY <2>6 DEF Replies
  <2>10. toServer' \in Seq(Requests(new, next + 1))
    BY <1>2, <1>4, <2>8, SeqMonotonic
  <2>11. \A d \in Clients : toClient[d] \in Seq(Replies(new, next + 1, d))
    BY <2>9, SeqMonotonic DEF Consistent
  <2>12. /\ toClient' \in [Clients -> Seq(ToClient)]
         /\ \A d \in Clients : toClient'[d] \in Seq(Replies(new, next + 1, d))
    BY <1>3, <2>1, <2>7, <2>11, ReplyKeeps
  <2>13. \A d \in Clients : state'[d] = "bound" => lease'[d] \in Owned(new, next', d)
    BY <1>1, <2>3, <2>6 DEF Consistent
  <2>14. Consistent(new)'
    BY <2>3, <2>5, <2>10, <2>12, <2>13 DEF Consistent, Requests, Replies, Owned
  <2> QED BY <1>1, <2>4, <2>12, <2>14 DEF LeaseIInv
<1> QED BY <1>5, <1>6

(* A REQUEST is acknowledged with its own address.                         *)
LEMMA RequestKeeps ==
  ASSUME LeaseIInv, NEW own, Consistent(own), HandleRequest PROVE LeaseIInv'
<1> USE DEF clients, counts
<1> DEFINE r == Head(toServer)
<1>1. toServer # <<>> /\ r.type = "request" /\ UNCHANGED <<next, state, lease>>
      /\ toServer' = Tail(toServer) /\ Answer(r.from, "ack", r.ip)
  BY DEF HandleRequest
<1>2. r \in Requests(own, next) /\ Tail(toServer) \in Seq(Requests(own, next))
  BY <1>1, HeadTail DEF Consistent
<1>3. r.from \in Clients /\ r.ip \in Owned(own, next, r.from)
  BY <1>1, <1>2 DEF Requests, ToServer
<1> HIDE DEF r
<1>4. /\ toClient' \in [Clients -> Seq(ToClient)]
      /\ \A d \in Clients : toClient'[d] \in Seq(Replies(own, next, d))
  BY <1>1, <1>3, ReplyKeeps DEF Consistent
<1> QED BY <1>1, <1>2, <1>4, Keeps DEF LeaseIInv, Consistent

(* What the network drops or repeats is about the same addresses.          *)
LEMMA NetworkKeeps ==
  ASSUME LeaseIInv, NEW own, Consistent(own), Lose \/ Duplicate PROVE LeaseIInv'
<1> USE DEF clients, counts
<1>1. UNCHANGED <<next, state, lease>>
  BY DEF Lose, Duplicate
<1>2. CASE toServer # <<>> /\ UNCHANGED toClient
           /\ toServer' \in {Tail(toServer), Append(toServer, Head(toServer))}
  <2>1. toServer \in Seq(Requests(own, next))
    BY DEF Consistent
  <2>2. Head(toServer) \in Requests(own, next) /\ Tail(toServer) \in Seq(Requests(own, next))
    BY <1>2, <2>1, HeadTail
  <2>3. Append(toServer, Head(toServer)) \in Seq(Requests(own, next))
    BY <2>1, <2>2, AppendProperties
  <2>4. toServer' \in Seq(Requests(own, next))
    BY <1>2, <2>2, <2>3
  <2> QED BY <1>1, <1>2, <2>4, Keeps DEF LeaseIInv, Consistent
<1>3. CASE UNCHANGED toServer /\ \E c \in Clients : toClient[c] # <<>> /\ Take(c)
  <2>1. PICK c \in Clients : toClient[c] # <<>> /\ Take(c)
    BY <1>3
  <2>2. /\ toClient' \in [Clients -> Seq(ToClient)]
        /\ \A d \in Clients : toClient'[d] \in Seq(Replies(own, next, d))
    BY <2>1, TakeKeeps
  <2> QED BY <1>1, <1>3, <2>2, Keeps DEF LeaseIInv, Consistent
<1>4. CASE /\ UNCHANGED toServer
           /\ \E c \in Clients :
                toClient[c] # <<>> /\ toClient' = [toClient EXCEPT ![c] = Append(@, Head(@))]
  <2>1. PICK c \in Clients :
          toClient[c] # <<>> /\ toClient' = [toClient EXCEPT ![c] = Append(@, Head(@))]
    BY <1>4
  <2>2. toClient[c] \in Seq(Replies(own, next, c)) /\ toClient[c] \in Seq(ToClient)
    BY DEF Consistent, LeaseIInv
  <2>3. /\ Append(toClient[c], Head(toClient[c])) \in Seq(Replies(own, next, c))
        /\ Append(toClient[c], Head(toClient[c])) \in Seq(ToClient)
    BY <2>1, <2>2, HeadTail, AppendProperties
  <2>4. /\ toClient' \in [Clients -> Seq(ToClient)]
        /\ \A d \in Clients : toClient'[d] \in Seq(Replies(own, next, d))
    BY <2>1, <2>3 DEF LeaseIInv, Consistent
  <2> QED BY <1>1, <1>4, <2>4, Keeps DEF LeaseIInv, Consistent
<1> QED BY <1>2, <1>3, <1>4 DEF Lose, Duplicate

(* The invariant is inductive.                                             *)
LEMMA LeaseStepIInv ==
  ASSUME PoolEnds, AsOffered PROVE LeaseIInv /\ [Next]_vars => LeaseIInv'
<1> SUFFICES ASSUME LeaseIInv, [Next]_vars PROVE LeaseIInv'
  OBVIOUS
<1>1. PICK own : Consistent(own)
  BY DEF LeaseIInv
<1>2. CASE UNCHANGED vars
  BY <1>1, <1>2, Keeps DEF vars, LeaseIInv, Consistent
<1>3. CASE Restart
  BY <1>3 DEF Restart, AsOffered
<1>4. CASE ReceiveFails
  BY <1>1, <1>4, Keeps DEF ReceiveFails, clients, LeaseIInv, Consistent
<1> QED BY <1>1, <1>2, <1>3, <1>4, ClientKeeps, DiscoverKeeps, RequestKeeps, NetworkKeeps
        DEF Next, Server

(* The scenario of a behaviour stays the same.                             *)
LEMMA SceneStays == [Next]_vars => (AsOffered' <=> AsOffered)
<1>1. [Next]_vars => scene' = scene
  BY DEF Next, Client, Discover, ReceiveOffer, ReceiveAck, Timeout, Rejoin, Server,
     HandleDiscover, HandleRequest, ReceiveFails, Restart, Lose, Duplicate, vars, counts
<1> QED BY <1>1 DEF AsOffered

(* No two clients hold the same address, for any pool, clients and         *)
(* network: the invariant of the owners holds in every reachable state of  *)
(* a behaviour without restarts and remembered addresses.                  *)
THEOREM LeasesAreUnique == ASSUME PoolEnds PROVE Spec => []NoSharedLease
<1>1. Init => LeaseIInv
  <2> SUFFICES ASSUME Init PROVE LeaseIInv
    OBVIOUS
  <2>1. \A T : <<>> \in Seq(T)
    BY EmptySeq
  <2>2. Consistent([ip \in Address |-> "nobody"])
    BY <2>1 DEF Init, Consistent
  <2>3. next \in Address /\ Start <= next
    BY PoolAssumption DEF Init, Address
  <2>4. 0 \in Address
    BY PoolAssumption DEF Address
  <2>5. toClient \in [Clients -> Seq(ToClient)] /\ lease \in [Clients -> Address]
    BY <2>1, <2>4 DEF Init
  <2>6. state \in [Clients -> {"idle", "selecting", "requesting", "bound", "failed"}]
    BY DEF Init
  <2> QED BY <2>2, <2>3, <2>5, <2>6 DEF LeaseIInv
<1>2. (AsOffered => LeaseIInv) /\ [Next]_vars => (AsOffered => LeaseIInv)'
  BY LeaseStepIInv, SceneStays
<1>3. (AsOffered => LeaseIInv) => NoSharedLease
  BY DEF LeaseIInv, Consistent, Owned, NoSharedLease
<1> QED BY <1>1, <1>2, <1>3, PTL DEF Spec

-----------------------------------------------------------------------------
(* The allocator never leaves the pool, in any scenario: all addresses in  *)
(* packets and leases are from it.                                         *)
PoolRequests == {r \in ToServer : r.type = "request" => r.ip \in Pool}
PoolReplies  == {r \in ToClient : r.ip \in Pool}
PoolInv ==
  /\ next \in Address /\ Start <= next
  /\ toServer \in Seq(PoolRequests)
  /\ toClient \in [Clients -> Seq(PoolReplies)]
  /\ state \in [Clients -> {"idle", "selecting", "requesting", "bound", "failed"}]
  /\ lease \in [Clients -> Address]
  /\ \A c \in Clients : state[c] = "bound" => lease[c] \in Pool
  /\ scene \in Scenarios

(* Addresses of the pool are addresses.                                    *)
LEMMA PoolFacts == Pool \subseteq Address /\ 0 \in Address
  BY PoolAssumption DEF Pool, Address

(* The steps of the clients.                                               *)
LEMMA ClientInPool == ASSUME PoolInv, NEW c \in Clients, Client(c) PROVE PoolInv'
<1> USE DEF clients, counts
<1>1. ASSUME NEW p \in PoolRequests, toServer' = Append(toServer, p)
      PROVE  toServer' \in Seq(PoolRequests)
  BY <1>1, AppendProperties DEF PoolInv
<1>2. ASSUME toClient[c] # <<>>
      PROVE  Head(toClient[c]) \in PoolReplies /\ Tail(toClient[c]) \in Seq(PoolReplies)
  BY <1>2, HeadTail DEF PoolInv
<1>3. CASE Discover(c)
  <2>1. [from |-> c, type |-> "discover", ip |-> 0] \in PoolRequests
    BY PoolFacts DEF PoolRequests, ToServer
  <2>2. toServer' \in Seq(PoolRequests)
    BY <1>1, <1>3, <2>1 DEF Discover, Say
  <2> QED BY <1>3, <2>2 DEF Discover, PoolInv
<1>4. CASE ReceiveOffer(c)
  <2> DEFINE reply == Head(toClient[c])
  <2>1. reply \in PoolReplies /\ Tail(toClient[c]) \in Seq(PoolReplies)
    BY <1>2, <1>4 DEF ReceiveOffer
  <2>2. [from |-> c, type |-> "request", ip |-> reply.ip] \in PoolRequests
    BY <2>1, PoolFacts DEF PoolReplies, PoolRequests, ToServer
  <2>3. toServer' \in Seq(PoolRequests)
    BY <1>1, <1>4, <2>2 DEF ReceiveOffer, Say, PoolInv
  <2>4. toClient' \in [Clients -> Seq(PoolReplies)]
    BY <1>4, <2>1 DEF ReceiveOffer, Take, PoolInv
  <2>5. UNCHANGED <<next, lease, scene>>
        /\ \/ state' = [state EXCEPT ![c] = "requesting"]
           \/ state' = [state EXCEPT ![c] = "failed"]
    BY <1>4 DEF ReceiveOffer
  <2> QED BY <2>3, <2>4, <2>5 DEF PoolInv
<1>5. CASE ReceiveAck(c)
  <2> DEFINE reply == Head(toClient[c])
  <2>1. reply \in PoolReplies /\ Tail(toClient[c]) \in Seq(PoolReplies)
    BY <1>2, <1>5 DEF ReceiveAck
  <2>2. reply.ip \in Pool /\ reply.ip \in Address
    BY <2>1, PoolFacts DEF PoolReplies
  <2>3. toClient' \in [Clients -> Seq(PoolReplies)]
    BY <1>5, <2>1 DEF ReceiveAck, Take, PoolInv
  <2>4. UNCHANGED <<next, toServer, scene>>
        /\ \/ lease' = [lease EXCEPT ![c] = reply.ip] /\ state' = [state EXCEPT ![c] = "bound"]
           \/ lease' = lease /\ state' = [state EXCEPT ![c] = "failed"]
    BY <1>5 DEF ReceiveAck
  <2> HIDE DEF reply
  <2> QED BY <2>2, <2>3, <2>4 DEF PoolInv
<1>6. CASE Timeout(c)
  BY <1>6 DEF Timeout, PoolInv
<1>7. CASE Rejoin(c)
  <2>1. scene.remembered[c] \in Pool
    BY <1>7, ScenarioAssumption DEF Rejoin, PoolInv, Pool
  <2>2. [from |-> c, type |-> "request", ip |-> scene.remembered[c]] \in PoolRequests
    BY <2>1, PoolFacts DEF PoolRequests, ToServer
  <2>3. toServer' \in Seq(PoolRequests)
    BY <1>1, <1>7, <2>2 DEF Rejoin, Say
  <2> QED BY <1>7, <2>3 DEF Rejoin, PoolInv
<1> QED BY <1>3, <1>4, <1>5, <1>6, <1>7 DEF Client

(* The steps of the server.                                                *)
LEMMA ServerInPool == ASSUME PoolEnds, PoolInv, Server PROVE PoolInv'
<1> USE DEF clients, counts
<1>1. ASSUME NEW c \in Clients, NEW type \in {"offer", "ack"}, NEW ip \in Pool,
             Answer(c, type, ip)
      PROVE  toClient' \in [Clients -> Seq(PoolReplies)]
  <2> DEFINE p == [type |-> type, ip |-> ip]
  <2>1. p \in PoolReplies
    BY PoolFacts DEF PoolReplies, ToClient
  <2>2. \/ toClient' = [toClient EXCEPT ![c] = Append(toClient[c], p)]
        \/ toClient' = toClient
    BY <1>1 DEF Answer, Fails, Reply
  <2> HIDE DEF p
  <2>3. Append(toClient[c], p) \in Seq(PoolReplies)
    BY <2>1, AppendProperties DEF PoolInv
  <2> QED BY <2>2, <2>3 DEF PoolInv
<1>2. ASSUME toServer # <<>>
      PROVE  Head(toServer) \in PoolRequests /\ Tail(toServer) \in Seq(PoolRequests)
  BY <1>2, HeadTail DEF PoolInv
<1>3. CASE HandleDiscover
  <2>1. Head(toServer).from \in Clients /\ toServer' \in Seq(PoolRequests)
    BY <1>2, <1>3 DEF HandleDiscover, PoolRequests, ToServer
  <2>2. UNCHANGED <<state, lease, scene>>
    BY <1>3 DEF HandleDiscover
  <2>3. CASE next > End
    BY <1>3, <2>1, <2>2, <2>3 DEF HandleDiscover, PoolInv
  <2>4. CASE ~(next > End)
    <3>1. Answer(Head(toServer).from, "offer", next) /\ next' = IncIP(next)
      BY <1>3, <2>4 DEF HandleDiscover
    <3>2. next \in Nat /\ End \in Nat /\ next <= End /\ next + 1 < Addresses
          /\ Addresses \in Nat
      BY <2>4, PoolAssumption DEF PoolInv, PoolEnds, Address
    <3>3. next' = next + 1
      BY <3>1, <3>2, SMT DEF IncIP
    <3>4. next' \in Address /\ Start <= next' /\ next \in Pool
      BY <3>2, <3>3, PoolAssumption DEF PoolInv, Address, Pool
    <3>5. toClient' \in [Clients -> Seq(PoolReplies)]
      BY <1>1, <2>1, <3>1, <3>4
    <3> QED BY <2>1, <2>2, <3>4, <3>5 DEF PoolInv
  <2> QED BY <2>3, <2>4
<1>4. CASE HandleRequest
  <2>1. Head(toServer) \in PoolRequests /\ toServer' \in Seq(PoolRequests)
    BY <1>2, <1>4 DEF HandleRequest
  <2>2. Head(toServer).from \in Clients /\ Head(toServer).ip \in Pool
    BY <1>4, <2>1 DEF HandleRequest, PoolRequests, ToServer
  <2>3. toClient' \in [Clients -> Seq(PoolReplies)]
    BY <1>1, <1>4, <2>2 DEF HandleRequest
  <2> QED BY <1>4, <2>1, <2>3 DEF HandleRequest, PoolInv
<1>5. CASE Restart
  <2>1. Start \in Address /\ Start <= Start
    BY PoolAssumption DEF Address
  <2>2. <<>> \in Seq(PoolRequests)
    BY EmptySeq
  <2> QED BY <1>5, <2>1, <2>2 DEF Restart, PoolInv
<1>6. CASE ReceiveFails
  BY <1>6 DEF ReceiveFails, PoolInv
<1> QED BY <1>3, <1>4, <1>5, <1>6 DEF Server

(* What the network drops or repeats has been there before.                *)
LEMMA NetworkInPool == ASSUME PoolInv, Lose \/ Duplicate PROVE PoolInv'
<1> USE DEF clients, counts
<1>1. ASSUME NEW T, NEW s \in Seq(T), s # <<>>
      PROVE  Tail(s) \in Seq(T) /\ Append(s, Head(s)) \in Seq(T)
  BY <1>1, HeadTail, AppendProperties
<1>2. UNCHANGED <<next, state, lease, scene>>
  BY DEF Lose, Duplicate
<1>3. CASE toServer # <<>> /\ UNCHANGED toClient
           /\ toServer' \in {Tail(toServer), Append(toServer, Head(toServer))}
  BY <1>1, <1>2, <1>3 DEF PoolInv
<1>4. ASSUME NEW c \in Clients, toClient[c] # <<>>, UNCHANGED toServer,
             NEW s \in {Tail(toClient[c]), Append(toClient[c], Head(toClient[c]))},
             toClient' = [toClient EXCEPT ![c] = s]
      PROVE  PoolInv'
  <2>1. s \in Seq(PoolReplies)
    BY <1>1, <1>4 DEF PoolInv
  <2> QED BY <1>2, <1>4, <2>1 DEF PoolInv
<1>5. CASE Lose
  BY <1>3, <1>4, <1>5 DEF Lose, Take
<1>6. CASE Duplicate
  BY <1>3, <1>4, <1>6 DEF Duplicate
<1> QED BY <1>5, <1>6

(* What clients are offered or given is in the pool, whatever happens.     *)
THEOREM LeasesAreInPool == ASSUME PoolEnds PROVE Spec => []InPool
<1>1. Init => PoolInv
  <2>1. \A T : <<>> \in Seq(T)
    BY EmptySeq
  <2>2. Start \in Address /\ Start <= Start
    BY PoolAssumption DEF Address
  <2> QED BY <2>1, <2>2, PoolFacts DEF Init, PoolInv
<1>2. PoolInv /\ [Next]_vars => PoolInv'
  <2>1. PoolInv /\ UNCHANGED vars => PoolInv'
    BY DEF vars, PoolInv
  <2> QED BY <2>1, ClientInPool, ServerInPool, NetworkInPool DEF Next
<1>3. PoolInv => InPool
  <2> SUFFICES ASSUME PoolInv, NEW c \in Clients
               PROVE  /\ state[c] = "bound" => lease[c] \in Pool
                      /\ \A i \in DOMAIN toClient[c] : toClient[c][i].ip \in Pool
    BY DEF InPool
  <2>1. toClient[c] \in Seq(PoolReplies)
    BY DEF PoolInv
  <2>2. \A i \in DOMAIN toClient[c] : toClient[c][i] \in PoolReplies
    BY <2>1
  <2> QED BY <2>2 DEF PoolInv, PoolReplies
<1> QED BY <1>1, <1>2, <1>3, PTL DEF Spec

(* Both: leases are from the pool and shared by nobody.                    *)
THEOREM LeasesHold == ASSUME PoolEnds PROVE Spec => []LeasesAreSound
<1>1. InPool /\ NoSharedLease => LeasesAreSound
  BY DEF LeasesAreSound
<1> QED BY <1>1, LeasesAreInPool, LeasesAreUnique, PTL

-----------------------------------------------------------------------------
(* Induction below a number. *)

(* A set of numbers that is not empty has a least one.                     *)
LEMMA LeastOf ==
  ASSUME NEW T, T \subseteq Nat, T # {}
  PROVE  \E x \in T : \A y \in T : x <= y
<1> DEFINE R == {ss \in Nat \X Nat : ss[1] < ss[2]}
<1>1. OpToRel(<, Nat) = R
  BY Zenon DEF OpToRel
<1>2. IsWellFoundedOn(R, Nat)
  BY <1>1, NatLessThanWellFounded, Zenon
<1> HIDE DEF R
<1>3. PICK x \in T : \A y \in T : <<y, x>> \notin R
  BY <1>2, WFMin
<1>4. \A y \in T : ~(y < x)
  BY <1>3 DEF R
<1> QED
  BY <1>4

(* Induction up to a number.                                               *)
LEMMA UpTo ==
  ASSUME NEW n \in Nat, NEW P, 0 \in P, \A j \in 1 .. n : j - 1 \in P => j \in P
  PROVE  0 .. n \subseteq P
<1> DEFINE T == (0 .. n) \ P
<1> SUFFICES ASSUME T # {} PROVE FALSE
  OBVIOUS
<1>1. PICK x \in T : \A y \in T : x <= y
  <2>1. T \subseteq Nat
    OBVIOUS
  <2> HIDE DEF T
  <2> QED BY <2>1, LeastOf
<1>2. x \in 1 .. n /\ x - 1 \in 0 .. n /\ ~(x <= x - 1)
  OBVIOUS
<1> QED BY <1>1, <1>2

-----------------------------------------------------------------------------
(* The codec of compress: numbers. *)

LEMMA PowersExist ==
  ASSUME NEW n \in Nat
  PROVE  \E f \in [0 .. n -> Nat] : f = [k \in 0 .. n |-> IF k = 0 THEN 1 ELSE 2 * f[k - 1]]
<1> DEFINE Is(f, m) == f \in [0 .. m -> Nat] /\ f = [k \in 0 .. m |-> IF k = 0 THEN 1 ELSE 2 * f[k - 1]]
           P == {m \in 0 .. n : \E f : Is(f, m)}
<1>1. 0 \in P
  <2> DEFINE f == [k \in 0 .. 0 |-> 1]
  <2>1. Is(f, 0)
    <3>1. f \in [0 .. 0 -> Nat] /\ f = [k \in 0 .. 0 |-> IF k = 0 THEN 1 ELSE 2 * f[k - 1]]
      OBVIOUS
    <3> QED BY <3>1
  <2> HIDE DEF f
  <2> QED BY <2>1
<1>2. ASSUME NEW j \in 1 .. n, j - 1 \in P PROVE j \in P
  <2>1. PICK f : Is(f, j - 1)
    BY <1>2
  <2> DEFINE g == [k \in 0 .. j |-> IF k = j THEN 2 * f[j - 1] ELSE f[k]]
  <2>0. f[j - 1] \in Nat /\ \A k \in 0 .. j - 1 : f[k] \in Nat
    <3>1. f \in [0 .. j - 1 -> Nat]
      BY <2>1
    <3>2. j - 1 \in 0 .. j - 1
      OBVIOUS
    <3> QED BY <3>1, <3>2
  <2>2. g \in [0 .. j -> Nat]
    BY <2>0
  <2>3. g[0] = 1 /\ \A k \in 1 .. j : g[k] = 2 * g[k - 1]
    <3>1. f[0] = 1
      BY <2>1
    <3>2. ASSUME NEW k \in 1 .. j - 1 PROVE f[k] = 2 * f[k - 1]
      BY <2>1, <3>2
    <3> QED BY <3>1, <3>2
  <2> HIDE DEF g
  <2>4. Is(g, j)
    BY <2>2, <2>3
  <2> QED BY <2>4
<1> HIDE DEF P
<1>3. n \in P
  BY <1>1, <1>2, UpTo
<1> QED BY <1>3 DEF P

(* What is known of the powers of two.                                     *)
LEMMA Powers ==
  /\ Pow2 \in [0 .. MaxBits -> Nat] /\ Pow2[0] = 1
  /\ \A k \in 1 .. MaxBits : Pow2[k] = 2 * Pow2[k - 1]
<1> DEFINE Fix(f) == f = [k \in 0 .. MaxBits |-> IF k = 0 THEN 1 ELSE 2 * f[k - 1]]
<1>1. MaxBits \in Nat
  BY CodeAssumption
<1>2. PICK f \in [0 .. MaxBits -> Nat] : Fix(f)
  BY <1>1, PowersExist
<1>3. Pow2 = CHOOSE h : Fix(h)
  BY DEF Pow2
<1>4. Fix(Pow2)
  BY <1>2, <1>3
<1> DEFINE P == {k \in 0 .. MaxBits : Pow2[k] \in Nat}
<1>5. /\ DOMAIN Pow2 = 0 .. MaxBits /\ Pow2[0] = 1
      /\ \A k \in 1 .. MaxBits : Pow2[k] = 2 * Pow2[k - 1]
  BY <1>1, <1>4
<1> HIDE DEF Fix
<1>6. 0 \in P
  BY <1>1, <1>5
<1>7. ASSUME NEW j \in 1 .. MaxBits, j - 1 \in P PROVE j \in P
  BY <1>1, <1>5, <1>7
<1> HIDE DEF P
<1>8. 0 .. MaxBits \subseteq P
  BY <1>1, <1>6, <1>7, UpTo
<1>9. \A k \in 0 .. MaxBits : Pow2[k] \in Nat
  BY <1>8 DEF P
<1>10. Pow2 = [k \in 0 .. MaxBits |-> Pow2[k]]
  BY <1>4 DEF Fix
<1> QED BY <1>5, <1>9, <1>10

LEMMA PowersPositive ==
  /\ \A k \in 0 .. MaxBits : Pow2[k] \in Nat /\ Pow2[k] >= 1
  /\ \A k \in 0 .. MaxBits : \A l \in 0 .. MaxBits : k < l => Pow2[k] < Pow2[l]
<1>0. MaxBits \in Nat /\ \A k \in 0 .. MaxBits : Pow2[k] \in Nat
  BY Powers, CodeAssumption
<1> DEFINE P == {k \in 0 .. MaxBits : Pow2[k] >= 1 /\ \A i \in 0 .. MaxBits : i < k => Pow2[i] < Pow2[k]}
<1>1. 0 \in P
  BY <1>0, Powers
<1>2. ASSUME NEW j \in 1 .. MaxBits, j - 1 \in P PROVE j \in P
  <2>1. /\ Pow2[j] = 2 * Pow2[j - 1] /\ Pow2[j - 1] >= 1 /\ j - 1 \in 0 .. MaxBits /\ j \in 0 .. MaxBits
        /\ \A i \in 0 .. MaxBits : i < j - 1 => Pow2[i] < Pow2[j - 1]
    BY <1>0, <1>2, Powers
  <2>2. Pow2[j - 1] \in Nat /\ Pow2[j - 1] < Pow2[j] /\ Pow2[j] >= 1
    BY <1>0, <2>1
  <2>3. ASSUME NEW i \in 0 .. MaxBits, i < j PROVE Pow2[i] < Pow2[j]
    <3>1. Pow2[i] \in Nat /\ (i < j - 1 \/ i = j - 1) /\ Pow2[j] \in Nat
      BY <1>0, <2>1, <2>3
    <3> QED BY <2>1, <2>2, <3>1
  <2> QED BY <2>1, <2>2, <2>3
<1> HIDE DEF P
<1>3. 0 .. MaxBits \subseteq P
  BY <1>0, <1>1, <1>2, UpTo
<1> QED BY <1>0, <1>3 DEF P

(* Division, in the form the provers can use.                              *)
LEMMA Quotient ==
  ASSUME NEW w \in Nat \ {0}, NEW a \in Nat, NEW q \in Nat, NEW r \in 0 .. w - 1, a = w * q + r
  PROVE  a \div w = q /\ a % w = r
  OBVIOUS

LEMMA Division ==
  ASSUME NEW w \in Nat \ {0}, NEW a \in Nat
  PROVE  a \div w \in Nat /\ a % w \in 0 .. w - 1 /\ a = w * (a \div w) + (a % w)
  OBVIOUS

(* The powers from 2^W on are multiples of W.                              *)
LEMMA Multiple ==
  ASSUME NEW w \in Nat \ {0}, NEW a \in Nat, NEW b \in Nat, a % w = 0, b % w = 0
  PROVE  (a + b) % w = 0
<1>1. a = w * (a \div w) /\ b = w * (b \div w) /\ a \div w \in Nat /\ b \div w \in Nat
  OBVIOUS
<1> DEFINE x == a \div w
           y == b \div w
<1>2. x \in Nat /\ y \in Nat /\ a = w * x /\ b = w * y
  BY <1>1
<1> HIDE DEF x, y
<1>3. a + b = w * (x + y) + 0
  BY <1>2
<1> QED BY <1>2, <1>3, Quotient

LEMMA PowersAligned == \A k \in W .. MaxBits : Pow2[k] % W = 0
<1>0. W \in Nat \ {0} /\ MaxBits \in Nat /\ MaxBits > W /\ Pow2[W] % W = 0
  BY CodeAssumption
<1> DEFINE P == {k \in 0 .. MaxBits : k >= W => Pow2[k] % W = 0}
<1>1. 0 \in P
  BY <1>0
<1>2. ASSUME NEW j \in 1 .. MaxBits, j - 1 \in P PROVE j \in P
  <2>0. Pow2[j] = 2 * Pow2[j - 1] /\ j - 1 \in 0 .. MaxBits /\ Pow2 \in [0 .. MaxBits -> Nat]
    <3>1. j - 1 \in 0 .. MaxBits
      BY <1>0
    <3>2. Pow2[j] = 2 * Pow2[j - 1] /\ Pow2 \in [0 .. MaxBits -> Nat]
      BY Powers
    <3> QED BY <3>1, <3>2
  <2>1. Pow2[j] = Pow2[j - 1] + Pow2[j - 1] /\ Pow2[j - 1] \in Nat /\ j - 1 \in 0 .. MaxBits
    BY <2>0
  <2>2. CASE j - 1 >= W
    BY <1>0, <1>2, <2>1, <2>2, Multiple
  <2>3. CASE j = W
    BY <1>0, <2>3
  <2>4. CASE j < W
    BY <1>0, <2>4
  <2> QED BY <1>0, <2>2, <2>3, <2>4
<1> HIDE DEF P
<1>3. 0 .. MaxBits \subseteq P
  BY <1>0, <1>1, <1>2, UpTo
<1> QED BY <1>0, <1>3 DEF P

(* The successor's remainder.                                              *)
LEMMA NextRemainder ==
  ASSUME NEW w \in Nat \ {0}, NEW a \in Nat
  PROVE  /\ a % w \in 0 .. w - 1
         /\ (a + 1) % w = IF a % w = w - 1 THEN 0 ELSE (a % w) + 1
<1> DEFINE q == a \div w
           r == a % w
<1>1. q \in Nat /\ r \in 0 .. w - 1 /\ a = w * q + r
  BY Division
<1> HIDE DEF q, r
<1>2. ASSUME r = w - 1 PROVE (a + 1) % w = 0
  <2>1. a + 1 = w * (q + 1) + 0 /\ a + 1 \in Nat /\ q + 1 \in Nat /\ 0 \in 0 .. w - 1
    BY <1>1, <1>2
  <2> QED BY <2>1, Quotient, Zenon
<1>3. ASSUME r # w - 1 PROVE (a + 1) % w = r + 1
  <2>1. a + 1 = w * q + (r + 1) /\ a + 1 \in Nat /\ r + 1 \in 0 .. w - 1
    BY <1>1, <1>3
  <2> QED BY <1>1, <2>1, Quotient, Zenon
<1>4. r \in 0 .. w - 1 /\ (a + 1) % w = IF r = w - 1 THEN 0 ELSE r + 1
  BY <1>1, <1>2, <1>3
<1> QED BY <1>4, Zenon DEF r

-----------------------------------------------------------------------------
(* The codec of compress: bits. *)

LEMMA Halves ==
  ASSUME NEW c \in Nat, NEW p \in Nat \ {0}
  PROVE  c % (2 * p) = (c % p) + p * ((c \div p) % 2)
<1> DEFINE q == c \div p
           r == c % p
           h == q \div 2
           b == q % 2
<1>1. q \in Nat /\ r \in 0 .. p - 1 /\ c = p * q + r
  BY Division
<1>2. h \in Nat /\ b \in 0 .. 1 /\ q = 2 * h + b
  <2> HIDE DEF q
  <2> QED BY <1>1, Division
<1>3. c % (2 * p) = r + p * b
  <2> HIDE DEF q, r, h, b
  <2>1. c = (2 * p) * h + (r + p * b)
    BY <1>1, <1>2
  <2>2. 2 * p \in Nat \ {0}
    OBVIOUS
  <2>3. r + p * b \in 0 .. 2 * p - 1
    <3>1. b = 0 \/ b = 1
      BY <1>2
    <3>2. p * b = 0 \/ p * b = p
      BY <3>1
    <3> QED BY <1>1, <3>2
  <2> QED BY <1>2, <2>1, <2>2, <2>3, Quotient, Zenon
<1> QED BY <1>3, Zenon

(* A code is told by its bits.                                             *)
LEMMA BitsTell ==
  ASSUME NEW n \in 1 .. MaxBits, NEW c \in 0 .. Pow2[n] - 1, NEW d \in 0 .. Pow2[n] - 1,
         Bits(c, n) = Bits(d, n)
  PROVE  c = d
<1>0. MaxBits \in Nat /\ c \in Nat /\ d \in Nat /\ Pow2[n] \in Nat /\ Pow2[0] = 1
  BY CodeAssumption, Powers
<1> DEFINE P == {k \in 0 .. n : c % Pow2[k] = d % Pow2[k]}
<1>1. 0 \in P
  <2>1. c % 1 = 0 /\ d % 1 = 0
    BY <1>0
  <2> QED BY <1>0, <2>1
<1>2. ASSUME NEW j \in 1 .. n, j - 1 \in P PROVE j \in P
  <2> DEFINE p == Pow2[j - 1]
  <2>1. Pow2[j] = 2 * p /\ p \in Nat \ {0}
    <3>1. j \in 1 .. MaxBits /\ j - 1 \in 0 .. MaxBits
      BY <1>0
    <3> QED BY <3>1, Powers, PowersPositive
  <2>2. Bits(c, n)[j] = (c \div p) % 2 /\ Bits(d, n)[j] = (d \div p) % 2
    BY DEF Bits
  <2>3. c % p = d % p
    BY <1>2
  <2> HIDE DEF p
  <2>4. c % (2 * p) = (c % p) + p * ((c \div p) % 2) /\ d % (2 * p) = (d % p) + p * ((d \div p) % 2)
    BY <1>0, <2>1, Halves
  <2>5. c % (2 * p) = d % (2 * p)
    BY <2>2, <2>3, <2>4, Zenon
  <2> QED BY <2>1, <2>5
<1> HIDE DEF P
<1>3. n \in P
  <2>1. n \in Nat
    BY <1>0
  <2>2. 0 .. n \subseteq P
    BY <1>1, <1>2, <2>1, UpTo
  <2> QED BY <2>1, <2>2
<1>4. c % Pow2[n] = d % Pow2[n]
  BY <1>3 DEF P
<1>5. c % Pow2[n] = c /\ d % Pow2[n] = d
  BY <1>0
<1> QED BY <1>4, <1>5

LEMMA NumberOfBits ==
  ASSUME NEW n \in 1 .. MaxBits, NEW c \in 0 .. Pow2[n] - 1
  PROVE  Number(Bits(c, n)) = c
<1> DEFINE b == Bits(c, n)
<1>1. Len(b) = n
  BY CodeAssumption DEF Bits
<1>2. Number(b) = CHOOSE d \in 0 .. Pow2[n] - 1 : Bits(d, n) = b
  BY <1>1 DEF Number, MaxCode
<1> QED BY <1>2, BitsTell

Bit   == {0, 1}
Octet == [1 .. W -> Bit]

LEMMA BitsType ==
  ASSUME NEW n \in 1 .. MaxBits, NEW c \in 0 .. Pow2[n] - 1
  PROVE  Bits(c, n) \in Seq(Bit) /\ Len(Bits(c, n)) = n
<1>0. MaxBits \in Nat /\ c \in Nat
  BY CodeAssumption, Powers
<1>1. ASSUME NEW i \in 1 .. n PROVE (c \div Pow2[i - 1]) % 2 \in Bit
  <2>1. Pow2[i - 1] \in Nat \ {0}
    <3>1. i - 1 \in 0 .. MaxBits
      BY <1>0
    <3> QED BY <3>1, PowersPositive
  <2>2. c \div Pow2[i - 1] \in Nat
    BY <1>0, <2>1, Division
  <2> QED BY <2>2 DEF Bit
<1>2. Bits(c, n) \in [1 .. n -> Bit]
  BY <1>1 DEF Bits
<1>3. n \in Nat
  BY <1>0
<1> QED BY <1>2, <1>3

(* The place of a bit: its byte and its number in there.                   *)
LEMMA PlaceOfBit ==
  ASSUME NEW l \in Nat, NEW n \in 1 .. W * l
  PROVE  /\ (n - 1) \div W + 1 \in 1 .. l /\ ((n - 1) % W) + 1 \in 1 .. W
         /\ n - 1 \in Nat /\ n - 1 = W * ((n - 1) \div W) + ((n - 1) % W)
<1>0. W \in Nat \ {0}
  BY CodeAssumption
<1> DEFINE a == n - 1
           q == a \div W
           r == a % W
<1>1. a \in Nat
  BY <1>0
<1>2. q \in Nat /\ r \in 0 .. W - 1 /\ a = W * q + r
  <2> HIDE DEF a
  <2> QED BY <1>0, <1>1, Division
<1>3. a < W * l
  BY <1>0
<1>4. q < l
  <2> HIDE DEF q, r, a
  <2> SUFFICES ASSUME q >= l PROVE FALSE
    BY <1>2
  <2>1. W * q >= W * l
    BY <1>0, <1>2
  <2> QED BY <1>0, <1>2, <1>3, <2>1
<1>5. q + 1 \in 1 .. l /\ r + 1 \in 1 .. W
  <2> HIDE DEF q, r, a
  <2> QED BY <1>0, <1>2, <1>4
<1> QED BY <1>1, <1>2, <1>5, Zenon

LEMMA PlaceOf ==
  ASSUME NEW q \in Nat, NEW r \in 1 .. W
  PROVE  (W * q + r - 1) \div W = q /\ (W * q + r - 1) % W = r - 1 /\ W * q + r \in Nat
<1>0. W \in Nat \ {0}
  BY CodeAssumption
<1>1. W * q \in Nat
  BY <1>0
<1>2. W * q + r - 1 = W * q + (r - 1) /\ r - 1 \in 0 .. W - 1 /\ W * q + r - 1 \in Nat /\ W * q + r \in Nat
  BY <1>0, <1>1
<1> QED BY <1>0, <1>2, Quotient, Zenon

LEMMA BitsOfAt ==
  ASSUME NEW z \in Seq(Octet)
  PROVE  /\ BitsOf(z) \in Seq(Bit) /\ Len(BitsOf(z)) = W * Len(z) /\ W * Len(z) \in Nat
         /\ \A q \in 0 .. Len(z) - 1 : \A r \in 1 .. W :
              W * q + r \in 1 .. W * Len(z) /\ BitsOf(z)[W * q + r] = z[q + 1][r]
         /\ \A n \in 1 .. W * Len(z) :
              BitsOf(z)[n] = z[(n - 1) \div W + 1][((n - 1) % W) + 1]
<1>0. W \in Nat \ {0} /\ Len(z) \in Nat
  BY CodeAssumption
<1>1. W * Len(z) \in Nat
  BY <1>0
<1> DEFINE l == W * Len(z)
           b == BitsOf(z)
<1>2. b = [n \in 1 .. l |-> z[(n - 1) \div W + 1][((n - 1) % W) + 1]]
  BY Zenon DEF BitsOf
<1>3. ASSUME NEW n \in 1 .. l PROVE z[(n - 1) \div W + 1][((n - 1) % W) + 1] \in Bit
  <2>1. (n - 1) \div W + 1 \in 1 .. Len(z) /\ ((n - 1) % W) + 1 \in 1 .. W
    BY <1>0, PlaceOfBit, Zenon
  <2>2. z \in [1 .. Len(z) -> Octet]
    BY LenProperties
  <2> QED BY <2>1, <2>2, Zenon DEF Octet
<1>4. b \in [1 .. l -> Bit]
  BY <1>2, <1>3, Zenon
<1>5. b \in Seq(Bit) /\ Len(b) = l
  <2> HIDE DEF b, l
  <2> QED BY <1>1, <1>4 DEF l
<1>6. ASSUME NEW q \in 0 .. Len(z) - 1, NEW r \in 1 .. W
      PROVE  W * q + r \in 1 .. l /\ b[W * q + r] = z[q + 1][r]
  <2>1. W * q + r \in 1 .. l
    <3>1. q \in Nat /\ q + 1 <= Len(z)
      BY <1>0
    <3>2. W * (q + 1) <= W * Len(z)
      BY <1>0, <3>1
    <3>3. W * (q + 1) = W * q + W /\ W * q \in Nat
      BY <1>0, <3>1
    <3> QED BY <1>0, <3>2, <3>3
  <2> DEFINE n == W * q + r
  <2>2. b[n] = z[(n - 1) \div W + 1][((n - 1) % W) + 1]
    BY <1>2, <2>1, Zenon
  <2>3. (n - 1) \div W = q /\ (n - 1) % W = r - 1
    BY <1>0, PlaceOf
  <2>4. (n - 1) \div W + 1 = q + 1 /\ ((n - 1) % W) + 1 = r
    BY <1>0, <2>3
  <2> QED BY <2>1, <2>2, <2>4, Zenon
<1> QED BY <1>1, <1>2, <1>5, <1>6, Zenon

(* Each place of l bytes, and no other, is a byte and a bit of it.         *)
LEMMA EachPlace ==
  ASSUME NEW l \in Nat, NEW n \in 1 .. W * l
  PROVE  \E q \in 0 .. l - 1 : \E r \in 1 .. W : n = W * q + r
<1>0. W \in Nat \ {0}
  BY CodeAssumption
<1> DEFINE q == (n - 1) \div W
           r == (n - 1) % W
<1>1. q + 1 \in 1 .. l /\ r + 1 \in 1 .. W /\ n - 1 \in Nat /\ n - 1 = W * q + r
  BY PlaceOfBit, Zenon
<1>2. q \in Nat
  BY <1>0, <1>1, Division
<1> HIDE DEF q, r
<1>3. q \in 0 .. l - 1
  BY <1>1, <1>2
<1>4. n = W * q + (r + 1)
  <2>1. W * q \in Nat /\ r \in Int /\ n \in Int
    <3>1. r \in Int
      BY <1>0, <1>1, Division DEF r
    <3> QED BY <1>0, <1>2, <1>1, <3>1
  <2> QED BY <1>1, <2>1
<1> QED BY <1>1, <1>3, <1>4

(* A piece of a sequence.                                                  *)
LEMMA PieceOf ==
  ASSUME NEW T, NEW v \in Seq(T), NEW m \in Nat, NEW n \in Nat, m <= n, n <= Len(v)
  PROVE  /\ SubSeq(v, m + 1, n) \in Seq(T) /\ Len(SubSeq(v, m + 1, n)) = n - m
         /\ \A i \in 1 .. n - m : SubSeq(v, m + 1, n)[i] = v[m + i]
<1> DEFINE k == m + 1
<1>1. k \in Int /\ Len(v) \in Nat /\ 1 <= k /\ k <= n + 1
  OBVIOUS
<1>2. \A i \in k .. n : v[i] \in T
  BY <1>1
<1> HIDE DEF k
<1>3. SubSeq(v, k, n) \in Seq(T)
  BY <1>1, <1>2, SubSeqProperties
<1>4. Len(SubSeq(v, k, n)) = IF k <= n THEN n - k + 1 ELSE 0
  BY <1>1
<1>5. \A i \in 1 .. n - k + 1 : SubSeq(v, k, n)[i] = v[k + i - 1]
  BY <1>1, SubSeqProperties
<1>6. n - k + 1 = n - m
  BY DEF k
<1>7. \A i \in 1 .. n - m : k + i - 1 = m + i
  BY DEF k
<1> QED BY <1>1, <1>3, <1>4, <1>5, <1>6, <1>7 DEF k

LEMMA BitsOfSub ==
  ASSUME NEW z \in Seq(Octet), NEW a \in Nat, NEW b \in Nat, a <= b, b <= Len(z)
  PROVE  /\ SubSeq(z, a + 1, b) \in Seq(Octet) /\ Len(SubSeq(z, a + 1, b)) = b - a
         /\ BitsOf(SubSeq(z, a + 1, b)) = SubSeq(BitsOf(z), W * a + 1, W * b)
<1>0. W \in Nat \ {0} /\ Len(z) \in Nat
  BY CodeAssumption
<1> DEFINE y == SubSeq(z, a + 1, b)
           u == BitsOf(y)
           v == BitsOf(z)
           w == SubSeq(v, W * a + 1, W * b)
<1>1. y \in Seq(Octet) /\ Len(y) = b - a /\ \A i \in 1 .. b - a : y[i] = z[a + i]
  <2> HIDE DEF Octet
  <2> QED BY <1>0
<1>2. /\ u \in Seq(Bit) /\ Len(u) = W * (b - a) /\ W * (b - a) \in Nat
      /\ \A q \in 0 .. b - a - 1 : \A r \in 1 .. W : u[W * q + r] = y[q + 1][r]
  <2> HIDE DEF y
  <2> QED BY <1>1, BitsOfAt
<1>3. /\ v \in Seq(Bit) /\ Len(v) = W * Len(z) /\ W * Len(z) \in Nat
      /\ \A q \in 0 .. Len(z) - 1 : \A r \in 1 .. W : v[W * q + r] = z[q + 1][r]
  BY BitsOfAt
<1>4. W * (b - a) = W * b - W * a /\ W * a \in Nat /\ W * b \in Nat /\ W * a <= W * b /\ W * b <= W * Len(z)
  BY <1>0
<1>5. w \in Seq(Bit) /\ Len(w) = W * (b - a) /\ \A i \in 1 .. W * (b - a) : w[i] = v[W * a + i]
  <2> DEFINE m == W * a
             n == W * b
             l == W * Len(z)
  <2>1. m \in Nat /\ n \in Nat /\ m <= n /\ n <= l /\ l \in Nat
    BY <1>3, <1>4
  <2>2. v \in Seq(Bit) /\ Len(v) = l
    BY <1>3
  <2> HIDE DEF m, n, l, v
  <2>3. SubSeq(v, m + 1, n) \in Seq(Bit) /\ Len(SubSeq(v, m + 1, n)) = n - m
        /\ \A i \in 1 .. n - m : SubSeq(v, m + 1, n)[i] = v[m + i]
    BY <2>1, <2>2, PieceOf, Zenon
  <2> QED BY <1>4, <2>3 DEF m, n
<1> HIDE DEF y, u, v, w
<1>6. ASSUME NEW i \in 1 .. W * (b - a) PROVE u[i] = w[i]
  <2>0. b - a \in Nat
    OBVIOUS
  <2>1. PICK q \in 0 .. b - a - 1 : \E r \in 1 .. W : i = W * q + r
    BY <2>0, EachPlace
  <2>2. PICK r \in 1 .. W : i = W * q + r
    BY <2>1
  <2>3. u[i] = y[q + 1][r] /\ y[q + 1] = z[a + q + 1]
    <3>1. q + 1 \in 1 .. b - a /\ a + (q + 1) = a + q + 1
      OBVIOUS
    <3> QED BY <1>1, <1>2, <2>2, <3>1
  <2>4. v[W * a + i] = z[a + q + 1][r]
    <3>1. a + q \in 0 .. Len(z) - 1
      BY <1>0
    <3>2. W * a + i = W * (a + q) + r
      BY <1>0, <2>2
    <3> QED BY <1>3, <3>1, <3>2
  <2>5. w[i] = v[W * a + i]
    BY <1>5
  <2> QED BY <2>3, <2>4, <2>5
<1>7. u = w
  BY <1>2, <1>5, <1>6, SeqEqual
<1> QED BY <1>1, <1>7 DEF y, u, v, w

LEMMA BitsOfConcat ==
  ASSUME NEW y \in Seq(Octet), NEW z \in Seq(Octet)
  PROVE  BitsOf(y \o z) = BitsOf(y) \o BitsOf(z)
<1>0. W \in Nat \ {0} /\ Len(y) \in Nat /\ Len(z) \in Nat
  BY CodeAssumption
<1> DEFINE x == y \o z
           u == BitsOf(x)
           a == BitsOf(y)
           b == BitsOf(z)
           m == Len(y)
           n == Len(z)
           t == m + n
<1>1. x \in Seq(Octet) /\ Len(x) = m + n /\ (\A i \in 1 .. m : x[i] = y[i]) /\ (\A i \in 1 .. n : x[m + i] = z[i])
  <2> HIDE DEF Octet
  <2> QED BY <1>0
<1> HIDE DEF x
<1>2. /\ u \in Seq(Bit) /\ Len(u) = W * t /\ W * t \in Nat
      /\ \A q \in 0 .. t - 1 : \A r \in 1 .. W : u[W * q + r] = x[q + 1][r]
  <2> HIDE DEF t
  <2>1. x \in Seq(Octet) /\ Len(x) = t
    BY <1>1 DEF t
  <2> QED BY <2>1, BitsOfAt, Zenon
<1>3. /\ a \in Seq(Bit) /\ Len(a) = W * m /\ W * m \in Nat
      /\ \A q \in 0 .. m - 1 : \A r \in 1 .. W : W * q + r \in 1 .. W * m /\ a[W * q + r] = y[q + 1][r]
  BY BitsOfAt
<1>4. /\ b \in Seq(Bit) /\ Len(b) = W * n /\ W * n \in Nat
      /\ \A q \in 0 .. n - 1 : \A r \in 1 .. W : W * q + r \in 1 .. W * n /\ b[W * q + r] = z[q + 1][r]
  BY BitsOfAt
<1>5. W * t = W * m + W * n
  BY <1>0
<1> DEFINE c == a \o b
           k == W * m
           l == W * n
<1> HIDE DEF a, b, u
<1>6. c \in Seq(Bit) /\ Len(c) = k + l /\ (\A i \in 1 .. k : c[i] = a[i]) /\ (\A i \in 1 .. l : c[k + i] = b[i])
  <2>1. a \in Seq(Bit) /\ b \in Seq(Bit) /\ Len(a) = k /\ k \in Nat /\ Len(b) = l /\ l \in Nat
    BY <1>3, <1>4
  <2> HIDE DEF k, l
  <2>2. c \in Seq(Bit) /\ Len(c) = k + l
    BY <2>1, ConcatProperties
  <2>3. \A i \in 1 .. k : c[i] = a[i]
    BY <2>1, ConcatProperties
  <2>4. ASSUME NEW i \in 1 .. l PROVE c[k + i] = b[i]
    <3>1. k + i \in 1 .. k + l /\ k + i > k /\ (k + i) - k = i
      BY <2>1
    <3> QED BY <2>1, <3>1, ConcatProperties
  <2> QED BY <2>2, <2>3, <2>4, Zenon
<1>7. ASSUME NEW i \in 1 .. W * t PROVE u[i] = c[i]
  <2>0. t \in Nat
    BY <1>0
  <2>1. PICK q \in 0 .. t - 1 : \E r \in 1 .. W : i = W * q + r
    BY <2>0, EachPlace, Zenon
  <2>2. PICK r \in 1 .. W : i = W * q + r
    BY <2>1
  <2>3. u[i] = x[q + 1][r]
    BY <1>2, <2>2
  <2>4. CASE q < m
    <3>1. q \in 0 .. m - 1 /\ q + 1 \in 1 .. m
      BY <1>0, <2>4
    <3>2. x[q + 1] = y[q + 1]
      BY <1>1, <3>1
    <3>3. i \in 1 .. k /\ a[i] = y[q + 1][r]
      BY <1>3, <2>2, <3>1
    <3> QED BY <1>6, <2>3, <3>2, <3>3
  <2>5. CASE q >= m
    <3> DEFINE p == q - m
    <3>1. p \in 0 .. n - 1 /\ p + 1 \in 1 .. n /\ q + 1 = m + (p + 1)
      BY <1>0, <2>5
    <3>2. x[q + 1] = z[p + 1]
      BY <1>1, <3>1
    <3>3. W * p + r \in 1 .. l /\ b[W * p + r] = z[p + 1][r]
      BY <1>4, <3>1
    <3>4. i = k + (W * p + r)
      BY <1>0, <2>2, <3>1
    <3>5. c[k + (W * p + r)] = b[W * p + r]
      BY <1>6, <3>3, Zenon
    <3>6. c[i] = b[W * p + r]
      BY <3>4, <3>5, Zenon
    <3> HIDE DEF p, c
    <3> QED BY <2>3, <3>1, <3>2, <3>3, <3>6, Zenon
  <2>6. q < m \/ q >= m
    <3>1. q \in Int
      OBVIOUS
    <3> HIDE DEF m, t
    <3>2. m \in Nat
      BY <1>0 DEF m
    <3> QED BY <3>1, <3>2
  <2> QED BY <2>4, <2>5, <2>6, Zenon
<1>8. Len(u) = Len(c)
  BY <1>2, <1>5, <1>6
<1>9. u = c
  <2> HIDE DEF c
  <2> QED BY <1>2, <1>6, <1>7, <1>8, SeqEqual
<1> QED BY <1>9 DEF u, a, b, x

(* Bits as bytes.                                                          *)
LEMMA BytesFacts ==
  ASSUME NEW b \in Seq(Bit)
  PROVE  /\ Bytes(b) \in Seq(Octet)
         /\ W * Len(Bytes(b)) \in Len(b) .. Len(b) + W - 1
         /\ \A i \in 1 .. Len(b) : BitsOf(Bytes(b))[i] = b[i]
         /\ \A n \in Nat : Len(b) = W * n => Len(Bytes(b)) = n /\ BitsOf(Bytes(b)) = b
<1>0. W \in Nat \ {0} /\ Len(b) \in Nat
  BY CodeAssumption
<1> DEFINE a == Len(b) + W - 1
           l == a \div W
           z == Bytes(b)
<1>1. a \in Nat
  BY <1>0
<1>2. l \in Nat /\ a % W \in 0 .. W - 1 /\ a = W * l + (a % W)
  <2> HIDE DEF a
  <2> QED BY <1>0, <1>1, Division
<1>3. W * l \in Nat /\ W * l \in Len(b) .. Len(b) + W - 1
  <2> DEFINE r == a % W
             p == W * l
  <2>1. p \in Nat
    <3> HIDE DEF l
    <3> QED BY <1>0, <1>2
  <2>2. r \in 0 .. W - 1 /\ a = p + r
    BY <1>2
  <2> HIDE DEF r, p, l
  <2>3. Len(b) + W - 1 = p + r
    BY <2>2
  <2> HIDE DEF a
  <2> QED BY <1>0, <2>1, <2>2, <2>3 DEF p
<1> DEFINE Bt(n) == IF n <= Len(b) THEN b[n] ELSE 0
<1>4. z = [k \in 1 .. l |-> [i \in 1 .. W |-> Bt((k - 1) * W + i)]]
  BY Zenon DEF Bytes
<1> HIDE DEF l, a, z
<1>5. ASSUME NEW k \in 1 .. l, NEW i \in 1 .. W PROVE Bt((k - 1) * W + i) \in Bit
  <2> DEFINE n == (k - 1) * W + i
  <2>1. n \in Nat \ {0}
    <3>1. k - 1 \in Nat
      BY <1>2
    <3>2. (k - 1) * W \in Nat
      BY <1>0, <3>1
    <3> QED BY <3>2
  <2> HIDE DEF n
  <2>2. n <= Len(b) => b[n] \in Bit
    BY <1>0, <2>1
  <2>3. Bt(n) \in Bit
    BY <2>2 DEF Bit
  <2> QED BY <2>3 DEF n
<1>6. z \in [1 .. l -> Octet] /\ \A k \in 1 .. l : \A i \in 1 .. W : z[k][i] = Bt((k - 1) * W + i)
  <2> HIDE DEF Bt
  <2> QED BY <1>4, <1>5 DEF Octet
<1>7. z \in Seq(Octet) /\ Len(z) = l
  BY <1>2, <1>6
<1>8. ASSUME NEW i \in 1 .. W * l PROVE BitsOf(z)[i] = Bt(i)
  <2>1. PICK q \in 0 .. l - 1 : \E r \in 1 .. W : i = W * q + r
    BY <1>2, EachPlace, Zenon
  <2>2. PICK r \in 1 .. W : i = W * q + r
    BY <2>1
  <2>3. BitsOf(z)[i] = z[q + 1][r]
    BY <1>7, <2>2, BitsOfAt
  <2>4. q + 1 \in 1 .. l /\ q + 1 - 1 = q /\ q \in Nat
    BY <1>2
  <2>5. (q + 1 - 1) * W + r = i
    BY <1>0, <2>2, <2>4
  <2>6. z[q + 1][r] = Bt((q + 1 - 1) * W + r)
    <3> HIDE DEF Bt
    <3> QED BY <1>6, <2>4
  <2> HIDE DEF Bt
  <2> QED BY <2>3, <2>5, <2>6, Zenon
<1>9. \A i \in 1 .. Len(b) : BitsOf(z)[i] = b[i]
  <2> SUFFICES ASSUME NEW i \in 1 .. Len(b) PROVE BitsOf(z)[i] = b[i]
    OBVIOUS
  <2> DEFINE p == W * l
  <2>1. i \in 1 .. p
    <3>1. p \in Nat /\ Len(b) <= p
      BY <1>0, <1>3
    <3> HIDE DEF p
    <3> QED BY <1>0, <3>1
  <2>2. BitsOf(z)[i] = Bt(i)
    BY <1>8, <2>1
  <2> QED BY <1>0, <2>2
<1>10. ASSUME NEW n \in Nat, Len(b) = W * n PROVE Len(z) = n /\ BitsOf(z) = b
  <2>1. a = W * n + (W - 1) /\ W - 1 \in 0 .. W - 1
    BY <1>0, <1>10 DEF a
  <2>2. l = n
    BY <1>0, <1>1, <2>1, Quotient, Zenon DEF l
  <2>3. BitsOf(z) \in Seq(Bit) /\ Len(BitsOf(z)) = Len(b)
    <3>1. BitsOf(z) \in Seq(Bit) /\ Len(BitsOf(z)) = W * Len(z)
      BY <1>7, BitsOfAt
    <3> QED BY <1>7, <1>10, <2>2, <3>1, Zenon
  <2>4. BitsOf(z) = b
    BY <1>9, <2>3, SeqEqual
  <2> QED BY <1>7, <2>2, <2>4
<1> QED BY <1>3, <1>7, <1>9, <1>10 DEF z

-----------------------------------------------------------------------------
(* The codec of compress: the encoder. *)

Encoder == {"dict", "nBits", "free", "buf", "out", "ent", "full"}
Decoder == {"in", "buf", "nBits", "free", "code", "prev", "table", "out", "state"}

(* What the encoder has written, and what waits in its block.              *)
Stream(e) == BitsOf(e.out) \o e.buf
Packing(e) == DOMAIN e = Encoder /\ e.buf \in Seq(Bit) /\ e.out \in Seq(Octet)

LEMMA FlushFields ==
  ASSUME NEW e, DOMAIN e = Encoder
  PROVE  LET f == FlushBlock(e) IN
         /\ DOMAIN f = Encoder /\ f.dict = e.dict /\ f.nBits = e.nBits /\ f.free = e.free
         /\ f.ent = e.ent /\ f.full = e.full /\ f.buf = <<>> /\ f.out = e.out \o Bytes(e.buf)
  BY DEF FlushBlock, Encoder

(* Whole bytes: nothing is filled up.                                      *)
LEMMA FlushWhole ==
  ASSUME NEW e, Packing(e), NEW n \in Nat, Len(e.buf) = W * n
  PROVE  LET f == FlushBlock(e) IN
         Packing(f) /\ f.buf = <<>> /\ Len(f.out) = Len(e.out) + n /\ Stream(f) = Stream(e)
<1> DEFINE f == FlushBlock(e)
           z == Bytes(e.buf)
<1>1. DOMAIN f = Encoder /\ f.buf = <<>> /\ f.out = e.out \o z
  BY FlushFields, Zenon DEF Packing
<1>2. e.buf \in Seq(Bit) /\ e.out \in Seq(Octet)
  BY DEF Packing
<1>3. z \in Seq(Octet) /\ Len(z) = n /\ BitsOf(z) = e.buf
  BY <1>2, BytesFacts, Zenon
<1> HIDE DEF f, z
<1>4. e.out \o z \in Seq(Octet) /\ Len(e.out \o z) = Len(e.out) + n
  <2> HIDE DEF Octet
  <2> QED BY <1>2, <1>3
<1>5. BitsOf(e.out \o z) = BitsOf(e.out) \o e.buf
  BY <1>2, <1>3, BitsOfConcat, Zenon
<1>6. Stream(f) = Stream(e)
  <2>1. BitsOf(e.out) \o e.buf \in Seq(Bit)
    <3>1. BitsOf(e.out) \in Seq(Bit)
      BY <1>2, BitsOfAt
    <3> QED BY <1>2, <3>1
  <2>2. (BitsOf(e.out) \o e.buf) \o <<>> = BitsOf(e.out) \o e.buf
    BY <2>1, ConcatEmptySeq
  <2> QED BY <1>1, <1>5, <2>2, Zenon DEF Stream
<1>7. <<>> \in Seq(Bit)
  BY EmptySeq
<1>8. Packing(f)
  BY <1>1, <1>4, <1>7, Zenon DEF Packing
<1> QED BY <1>1, <1>4, <1>6, <1>8, Zenon DEF f

LEMMA Products ==
  ASSUME NEW n \in Nat \ {0}, NEW w \in Nat \ {0}, NEW r \in 0 .. w - 1
  PROVE  n * r \in Nat /\ n * (r + 1) = n * r + n /\ (n * r + n = w * n <=> r = w - 1)
<1>1. n * r \in Nat /\ n * (r + 1) = n * r + n
  OBVIOUS
<1>2. r + 1 = w => n * (r + 1) = w * n
  OBVIOUS
<1>3. r + 1 < w => n * (r + 1) < w * n
  OBVIOUS
<1>4. w * n \in Nat
  OBVIOUS
<1> QED BY <1>1, <1>2, <1>3, <1>4

(* The width the codes have while the next entry is this one.              *)
WidthAt(n, free) == n \in W + 1 .. MaxBits /\ free \in Nat /\ Pow2[n - 1] < free /\ free <= Pow2[n]

LEMMA WidthFacts ==
  ASSUME NEW n, NEW free, WidthAt(n, free)
  PROVE  /\ n \in Nat /\ n \in 1 .. MaxBits /\ n - 1 \in W .. MaxBits /\ free \in Nat
         /\ Pow2[n] \in Nat /\ Pow2[n - 1] \in Nat /\ Pow2[W] \in Nat
         /\ Pow2[W] < Pow2[n] /\ Pow2[n] % W = 0 /\ free > Pow2[W]
<1>0. W \in Nat \ {0} /\ MaxBits \in Nat /\ MaxBits > W /\ n \in W + 1 .. MaxBits /\ free \in Nat
  BY CodeAssumption DEF WidthAt
<1>1. n \in 0 .. MaxBits /\ n - 1 \in 0 .. MaxBits /\ W \in 0 .. MaxBits /\ n \in W .. MaxBits
  BY <1>0
<1>2. Pow2[n] \in Nat /\ Pow2[n - 1] \in Nat /\ Pow2[W] \in Nat /\ Pow2[n] % W = 0
  BY <1>1, PowersPositive, PowersAligned
<1>3. Pow2[W] < Pow2[n]
  BY <1>0, <1>1, PowersPositive
<1>4. W < n - 1 => Pow2[W] < Pow2[n - 1]
  BY <1>1, PowersPositive
<1>5. free > Pow2[W]
  <2>1. W < n - 1 \/ W = n - 1
    BY <1>0
  <2> QED BY <1>0, <1>2, <1>4, <2>1 DEF WidthAt
<1> QED BY <1>0, <1>1, <1>2, <1>3, <1>5

(* A code becomes bits; a block that is full, and so is every block before *)
(* the codes grow, is written.                                             *)
LEMMA OutputFacts ==
  ASSUME NEW e, Packing(e), WidthAt(e.nBits, e.free),
         Len(e.buf) = e.nBits * ((e.free - 1) % W),
         NEW c \in 0 .. Pow2[e.nBits] - 1, c # Clear
  PROVE  LET f == Output(e, c)
             n == e.nBits
         IN  /\ Packing(f) /\ f.dict = e.dict /\ f.free = e.free /\ f.full = e.full /\ f.ent = e.ent
             /\ f.nBits = IF e.free = Pow2[n] /\ n < MaxBits THEN n + 1 ELSE n
             /\ Stream(f) = Stream(e) \o Bits(c, n)
             /\ Len(f.out) = Len(e.out) + (IF e.free % W = 0 THEN n ELSE 0)
             /\ Len(f.buf) = n * (e.free % W)
<1> DEFINE n == e.nBits
           added == [e EXCEPT !.buf = @ \o Bits(c, n)]
           g == IF Len(added.buf) = W * n THEN FlushBlock(added) ELSE added
           f == Output(e, c)
           r == (e.free - 1) % W
<1>0. W \in Nat \ {0} /\ n \in Nat /\ n \in 1 .. MaxBits /\ e.free \in Nat /\ e.free > Pow2[W]
      /\ Pow2[n] \in Nat /\ Pow2[W] \in Nat /\ Pow2[n] % W = 0 /\ e.free <= Pow2[n]
  BY WidthFacts, CodeAssumption DEF WidthAt
<1>1. DOMAIN e = Encoder /\ e.buf \in Seq(Bit) /\ e.out \in Seq(Octet)
  BY DEF Packing
<1>2. Bits(c, n) \in Seq(Bit) /\ Len(Bits(c, n)) = n
  BY <1>0, BitsType
<1>3. /\ DOMAIN added = Encoder /\ added.dict = e.dict /\ added.nBits = n /\ added.free = e.free
      /\ added.ent = e.ent /\ added.full = e.full /\ added.buf = e.buf \o Bits(c, n) /\ added.out = e.out
  BY <1>1 DEF Encoder
<1>4. r \in 0 .. W - 1 /\ e.free % W = IF r = W - 1 THEN 0 ELSE r + 1
  <2> DEFINE a == e.free - 1
  <2>1. a \in Nat /\ a + 1 = e.free
    BY <1>0
  <2> HIDE DEF a
  <2>2. a % W \in 0 .. W - 1 /\ (a + 1) % W = IF a % W = W - 1 THEN 0 ELSE (a % W) + 1
    BY <1>0, <2>1, NextRemainder, Zenon
  <2> QED BY <2>1, <2>2, Zenon DEF a
<1> HIDE DEF added, r
<1>5. added.buf \in Seq(Bit) /\ Len(added.buf) = n * r + n /\ n * r \in Nat
  <2>1. Len(e.buf) = n * r
    BY DEF r
  <2>2. n * r \in Nat
    <3> HIDE DEF n
    <3> QED BY <1>0, <1>4, Products
  <2>3. e.buf \o Bits(c, n) \in Seq(Bit) /\ Len(e.buf \o Bits(c, n)) = Len(e.buf) + Len(Bits(c, n))
    BY <1>1, <1>2, ConcatProperties, Zenon
  <2>4. Len(added.buf) = n * r + n
    BY <1>2, <1>3, <2>1, <2>3, Zenon
  <2> QED BY <1>3, <2>2, <2>3, <2>4, Zenon
<1>6. Packing(added)
  BY <1>1, <1>3, <1>5, Zenon DEF Packing
<1>7. Stream(added) = Stream(e) \o Bits(c, n)
  <2>1. BitsOf(e.out) \in Seq(Bit)
    BY <1>1, BitsOfAt
  <2>2. BitsOf(e.out) \o (e.buf \o Bits(c, n)) = (BitsOf(e.out) \o e.buf) \o Bits(c, n)
    <3> DEFINE x == BitsOf(e.out)
               y == e.buf
               z == Bits(c, n)
    <3>1. x \in Seq(Bit) /\ y \in Seq(Bit) /\ z \in Seq(Bit)
      BY <1>1, <1>2, <2>1, Zenon
    <3> HIDE DEF x, y, z
    <3>2. x \o (y \o z) = (x \o y) \o z
      BY <3>1, ConcatAssociative
    <3> QED BY <3>2 DEF x, y, z
  <2> QED BY <1>3, <2>2, Zenon DEF Stream
<1>8. Len(added.buf) = W * n <=> r = W - 1
  <2> HIDE DEF n
  <2>1. n * r + n = W * n <=> r = W - 1
    BY <1>0, <1>4, Products
  <2> QED BY <1>5, <2>1, Zenon
<1>9. /\ Packing(g) /\ g.dict = e.dict /\ g.nBits = n /\ g.free = e.free /\ g.ent = e.ent /\ g.full = e.full
      /\ Stream(g) = Stream(e) \o Bits(c, n)
      /\ Len(g.out) = Len(e.out) + (IF r = W - 1 THEN n ELSE 0)
      /\ Len(g.buf) = IF r = W - 1 THEN 0 ELSE n * r + n
  <2>1. CASE r = W - 1
    <3>1. g = FlushBlock(added) /\ Len(added.buf) = W * n
      BY <1>8, <2>1
    <3> HIDE DEF g
    <3>2. /\ g.dict = e.dict /\ g.nBits = n /\ g.free = e.free /\ g.ent = e.ent /\ g.full = e.full
      BY <1>3, <3>1, FlushFields, Zenon
    <3>3. Packing(g) /\ g.buf = <<>> /\ Len(g.out) = Len(added.out) + n /\ Stream(g) = Stream(added)
      BY <1>0, <1>6, <3>1, FlushWhole, Zenon
    <3>4. Len(<<>>) = 0
      OBVIOUS
    <3>5. Len(g.out) = Len(e.out) + n /\ Len(g.buf) = 0 /\ Stream(g) = Stream(e) \o Bits(c, n)
      BY <1>3, <1>7, <3>3, <3>4, Zenon
    <3> HIDE DEF n
    <3> QED BY <2>1, <3>2, <3>3, <3>5
  <2>2. CASE r # W - 1
    <3>1. g = added
      BY <1>8, <2>2
    <3> HIDE DEF g
    <3>2. Len(e.out) + 0 = Len(e.out)
      <4>1. Len(e.out) \in Nat
        BY <1>1, LenProperties
      <4> QED BY <4>1
    <3> QED BY <1>3, <1>5, <1>6, <1>7, <2>2, <3>1, <3>2, Zenon
  <2> QED BY <2>1, <2>2, Zenon
<1>10. f = IF g.free > Pow2[n] - 1 /\ g.nBits < MaxBits THEN [FlushBlock(g) EXCEPT !.nBits = @ + 1] ELSE g
  <2>1. /\ g.nBits = n
        /\ f = CASE c = Clear -> FlushBlock(g)
                 [] c # Clear /\ g.free > MaxCode(g.nBits) /\ g.nBits < MaxBits ->
                      [FlushBlock(g) EXCEPT !.nBits = @ + 1]
                 [] OTHER -> g
    BY <1>9, Zenon DEF Output, added
  <2> HIDE DEF f, g
  <2> QED BY <2>1 DEF MaxCode
<1> HIDE DEF g, f
<1>11. Len(g.buf) = n * (e.free % W) /\ Len(g.out) = Len(e.out) + (IF e.free % W = 0 THEN n ELSE 0)
  <2>1. CASE r = W - 1
    <3>1. n * 0 = 0 /\ e.free % W = 0
      BY <1>0, <1>4, <2>1
    <3> QED BY <1>9, <2>1, <3>1, Zenon
  <2>2. CASE r # W - 1
    <3>1. n * (r + 1) = n * r + n /\ e.free % W = r + 1 /\ r + 1 # 0
      <4>1. e.free % W = r + 1 /\ r + 1 # 0
        BY <1>4, <2>2
      <4> HIDE DEF n
      <4>2. n * (r + 1) = n * r + n
        BY <1>0, <1>4, Products
      <4> QED BY <4>1, <4>2
    <3> QED BY <1>9, <2>2, <3>1, Zenon
  <2> QED BY <2>1, <2>2
<1>12. CASE e.free = Pow2[n] /\ n < MaxBits
  <2> DEFINE h == FlushBlock(g)
  <2>1. f = [h EXCEPT !.nBits = @ + 1]
    <3>1. g.free > Pow2[n] - 1 /\ g.nBits < MaxBits
      BY <1>0, <1>9, <1>12
    <3> QED BY <1>10, <3>1, Zenon
  <2>2. Len(g.buf) = W * 0 /\ Len(g.buf) = 0 /\ e.free % W = 0
    BY <1>0, <1>11, <1>12
  <2>3. Packing(h) /\ h.buf = <<>> /\ Len(h.out) = Len(g.out) + 0 /\ Stream(h) = Stream(g)
    BY <1>9, <2>2, FlushWhole, Zenon
  <2>4. DOMAIN g = Encoder
    BY <1>9 DEF Packing
  <2>5. h.dict = e.dict /\ h.nBits = n /\ h.free = e.free /\ h.ent = e.ent /\ h.full = e.full
    BY <1>9, <2>4, FlushFields, Zenon
  <2>6. DOMAIN h = Encoder
    BY <2>3 DEF Packing
  <2> HIDE DEF h
  <2>7. /\ DOMAIN f = Encoder /\ f.dict = h.dict /\ f.nBits = h.nBits + 1 /\ f.free = h.free
        /\ f.ent = h.ent /\ f.full = h.full /\ f.buf = h.buf /\ f.out = h.out
    BY <2>1, <2>6 DEF Encoder
  <2>8. Packing(f) /\ Stream(f) = Stream(e) \o Bits(c, n)
    BY <1>9, <2>3, <2>7, Zenon DEF Packing, Stream
  <2>9. Len(f.buf) = n * (e.free % W) /\ Len(f.out) = Len(e.out) + (IF e.free % W = 0 THEN n ELSE 0)
    <3>1. Len(f.buf) = 0 /\ n * (e.free % W) = 0
      BY <1>0, <2>2, <2>3, <2>7
    <3>2. Len(g.out) + 0 = Len(g.out)
      <4>1. g.out \in Seq(Octet)
        BY <1>9 DEF Packing
      <4>2. Len(g.out) \in Nat
        BY <4>1, LenProperties
      <4> QED BY <4>2
    <3> QED BY <1>11, <2>3, <2>7, <3>1, <3>2, Zenon
  <2> QED BY <1>12, <2>5, <2>7, <2>8, <2>9, Zenon DEF f
<1>13. CASE ~(e.free = Pow2[n] /\ n < MaxBits)
  <2>1. f = g
    <3>1. ~(g.free > Pow2[n] - 1 /\ g.nBits < MaxBits)
      BY <1>0, <1>9, <1>13
    <3> QED BY <1>10, <3>1, Zenon
  <2> QED BY <1>9, <1>11, <1>13, <2>1, Zenon DEF f
<1> QED BY <1>12, <1>13, Zenon

(* The place of the k-th code in its block.                                *)
Slot(k) == (Pow2[W] + k - 1) % W
LEMMA Slots ==
  /\ Slot(1) = 0
  /\ \A k \in Nat \ {0} : /\ Slot(k) \in 0 .. W - 1
                          /\ Slot(k + 1) = IF Slot(k) = W - 1 THEN 0 ELSE Slot(k) + 1
                          /\ (FirstCode + k - 1) % W = Slot(k + 1)
<1>0. W \in Nat \ {0} /\ MaxBits \in Nat /\ MaxBits > W /\ Pow2[W] % W = 0
  BY CodeAssumption
<1>1. Pow2[W] \in Nat
  <2>1. W \in 0 .. MaxBits
    BY <1>0
  <2> QED BY <2>1, PowersPositive
<1> DEFINE p == Pow2[W]
<1>2. Slot(1) = 0
  <2>1. p + 1 - 1 = p
    BY <1>1
  <2> QED BY <1>0, <2>1, Zenon DEF Slot
<1>3. ASSUME NEW k \in Nat \ {0}
      PROVE  /\ Slot(k) \in 0 .. W - 1
             /\ Slot(k + 1) = IF Slot(k) = W - 1 THEN 0 ELSE Slot(k) + 1
             /\ (FirstCode + k - 1) % W = Slot(k + 1)
  <2> DEFINE a == p + k - 1
  <2>1. a \in Nat /\ a + 1 = p + (k + 1) - 1 /\ FirstCode + k - 1 = p + (k + 1) - 1
    <3>1. p \in Nat /\ FirstCode = p + 1
      BY <1>1 DEF FirstCode
    <3> HIDE DEF p
    <3> QED BY <3>1
  <2>2. Slot(k) = a % W /\ Slot(k + 1) = (p + (k + 1) - 1) % W
    BY Zenon DEF Slot
  <2> HIDE DEF a, p
  <2>3. a % W \in 0 .. W - 1 /\ (a + 1) % W = IF a % W = W - 1 THEN 0 ELSE (a % W) + 1
    BY <1>0, <2>1, NextRemainder, Zenon
  <2> QED BY <2>1, <2>2, <2>3, Zenon
<1> QED BY <1>2, <1>3, Zenon

(* Where the k-th code begins, and that it stands there.                   *)
Off(N, P, k) == W * P[k] + N[k] * Slot(k)
HoldsAt(b, c, n, o) ==
  /\ c \in 0 .. Pow2[n] - 1 /\ n \in 1 .. MaxBits /\ o \in Nat /\ o + n <= Len(b)
  /\ SubSeq(b, o + 1, o + n) = Bits(c, n)

LEMMA HoldsLonger ==
  ASSUME NEW b \in Seq(Bit), NEW d \in Seq(Bit), NEW c, NEW n, NEW o, HoldsAt(b, c, n, o)
  PROVE  HoldsAt(b \o d, c, n, o)
<1>0. MaxBits \in Nat /\ n \in 1 .. MaxBits /\ o \in Nat /\ o + n <= Len(b) /\ Len(b) \in Nat /\ Len(d) \in Nat
  BY CodeAssumption DEF HoldsAt
<1>1. b \o d \in Seq(Bit) /\ Len(b \o d) = Len(b) + Len(d)
  BY ConcatProperties
<1>2. o + 1 \in Nat /\ o + n \in Nat /\ n \in Nat
  BY <1>0
<1>3. SubSeq(b \o d, o + 1, o + n) = SubSeq(b, o + 1, o + n)
  <2> DEFINE p == o + n
             a == b \o d
             x == SubSeq(a, o + 1, p)
             y == SubSeq(b, o + 1, p)
  <2>0. p \in Nat /\ o <= p /\ p <= Len(b) /\ p <= Len(a) /\ a \in Seq(Bit)
    BY <1>0, <1>1
  <2> HIDE DEF p, a
  <2>1. y \in Seq(Bit) /\ Len(y) = p - o /\ \A i \in 1 .. p - o : y[i] = b[o + i]
    BY <1>0, <2>0, PieceOf, Zenon
  <2>2. x \in Seq(Bit) /\ Len(x) = p - o /\ \A i \in 1 .. p - o : x[i] = a[o + i]
    BY <1>0, <2>0, PieceOf, Zenon
  <2>3. ASSUME NEW i \in 1 .. p - o PROVE a[o + i] = b[o + i]
    <3>1. o + i \in 1 .. Len(b)
      BY <1>0, <2>0
    <3> QED BY <3>1, ConcatProperties DEF a
  <2> HIDE DEF x, y
  <2>4. \A i \in 1 .. Len(x) : x[i] = y[i]
    BY <2>1, <2>2, <2>3, Zenon
  <2>5. x = y
    BY <2>1, <2>2, <2>4, SeqEqual, Zenon
  <2> QED BY <2>5, Zenon DEF x, y, p, a
<1>4. o + n <= Len(b \o d)
  BY <1>0, <1>1
<1> QED BY <1>0, <1>3, <1>4 DEF HoldsAt

LEMMA HoldsLast ==
  ASSUME NEW b \in Seq(Bit), NEW n \in 1 .. MaxBits, NEW c \in 0 .. Pow2[n] - 1
  PROVE  HoldsAt(b \o Bits(c, n), c, n, Len(b)) /\ Len(b \o Bits(c, n)) = Len(b) + n
<1> DEFINE d == Bits(c, n)
           o == Len(b)
<1>0. d \in Seq(Bit) /\ Len(d) = n /\ o \in Nat /\ n \in Nat /\ MaxBits \in Nat
  BY BitsType, CodeAssumption
<1> HIDE DEF d
<1>1. b \o d \in Seq(Bit) /\ Len(b \o d) = o + n
  BY <1>0, ConcatProperties
<1>2. SubSeq(b \o d, o + 1, o + n) = d
  <2> DEFINE x == SubSeq(b \o d, o + 1, o + n)
  <2>1. x \in Seq(Bit) /\ Len(x) = n /\ \A i \in 1 .. n : x[i] = (b \o d)[o + i]
    <3> DEFINE p == o + n
    <3>1. o <= p /\ p <= Len(b \o d) /\ p \in Nat /\ p - o = n
      BY <1>0, <1>1
    <3> HIDE DEF p
    <3>2. LET u == SubSeq(b \o d, o + 1, p)
          IN  u \in Seq(Bit) /\ Len(u) = p - o /\ \A i \in 1 .. p - o : u[i] = (b \o d)[o + i]
      BY <1>0, <1>1, <3>1, PieceOf, Zenon
    <3> QED BY <3>1, <3>2, Zenon DEF p
  <2>2. \A i \in 1 .. n : (b \o d)[o + i] = d[i]
    BY <1>0
  <2> HIDE DEF x
  <2>4. x = d
    BY <1>0, <2>1, <2>2, SeqEqual
  <2> QED BY <2>4 DEF x
<1>3. HoldsAt(b \o d, c, n, o)
  BY <1>0, <1>1, <1>2 DEF HoldsAt, d
<1> QED BY <1>1, <1>3 DEF d

(* The widths N of the codes, and the bytes P before the block each is in. *)
Grid(N, P, m) ==
  /\ N \in Seq(Nat) /\ P \in Seq(Nat) /\ Len(N) = m /\ Len(P) = m
  /\ N[1] = W + 1 /\ P[1] = 0
  /\ \A k \in 1 .. m : WidthAt(N[k], FirstCode + k - 1)
  /\ \A k \in 1 .. m - 1 :
       /\ N[k + 1] = IF FirstCode + k - 1 = Pow2[N[k]] THEN N[k] + 1 ELSE N[k]
       /\ P[k + 1] = P[k] + (IF Slot(k + 1) = 0 THEN N[k] ELSE 0)

(* The encoder has put out the codes C.                                    *)
PackInv(e, C, N, P) ==
  LET m == Len(C) + 1 IN
  /\ Packing(e) /\ C \in Seq(Nat) /\ Grid(N, P, m)
  /\ e.nBits = N[m] /\ e.free = FirstCode + m - 1
  /\ Len(e.out) = P[m] /\ Len(e.buf) = N[m] * Slot(m)
  /\ \A k \in 1 .. m - 1 : HoldsAt(Stream(e), C[k], N[k], Off(N, P, k))

LEMMA StreamFacts ==
  ASSUME NEW e, Packing(e)
  PROVE  Stream(e) \in Seq(Bit) /\ Len(Stream(e)) = W * Len(e.out) + Len(e.buf)
<1>1. e.buf \in Seq(Bit) /\ e.out \in Seq(Octet)
  BY DEF Packing
<1>2. BitsOf(e.out) \in Seq(Bit) /\ Len(BitsOf(e.out)) = W * Len(e.out)
  BY <1>1, BitsOfAt
<1>3. BitsOf(e.out) \o e.buf \in Seq(Bit) /\ Len(BitsOf(e.out) \o e.buf) = Len(BitsOf(e.out)) + Len(e.buf)
  BY <1>1, <1>2, ConcatProperties, Zenon
<1> QED BY <1>2, <1>3, Zenon DEF Stream

(* What has become of the encoder when c is put out after the codes C.     *)
Written(e, f, C, c, N, P) ==
  LET m == Len(C) + 1 IN
  /\ Packing(f) /\ f.dict = e.dict /\ f.free = e.free /\ f.full = e.full /\ f.ent = e.ent
  /\ f.nBits = IF e.free = Pow2[N[m]] /\ N[m] < MaxBits THEN N[m] + 1 ELSE N[m]
  /\ Len(f.out) = P[m] + (IF Slot(m + 1) = 0 THEN N[m] ELSE 0)
  /\ Len(f.buf) = N[m] * Slot(m + 1)
  /\ \A k \in 1 .. m : HoldsAt(Stream(f), Append(C, c)[k], N[k], Off(N, P, k))
  /\ Len(Stream(f)) = Off(N, P, m) + N[m]

LEMMA CodeWritten ==
  ASSUME NEW e, NEW C, NEW N, NEW P, PackInv(e, C, N, P),
         NEW c \in 0 .. Pow2[e.nBits] - 1, c # Clear
  PROVE  Written(e, Output(e, c), C, c, N, P)
<1> DEFINE m == Len(C) + 1
           f == Output(e, c)
           n == e.nBits
           b == Stream(e)
<1>0. /\ Packing(e) /\ C \in Seq(Nat) /\ Grid(N, P, m)
      /\ n = N[m] /\ e.free = FirstCode + m - 1
      /\ Len(e.out) = P[m] /\ Len(e.buf) = N[m] * Slot(m)
      /\ \A k \in 1 .. m - 1 : HoldsAt(b, C[k], N[k], Off(N, P, k))
  BY Zenon DEF PackInv
<1>1. m \in Nat \ {0} /\ m - 1 = Len(C) /\ Len(C) \in Nat
  BY <1>0
<1>2. WidthAt(n, e.free)
  <2>1. m \in 1 .. m
    BY <1>1
  <2> QED BY <1>0, <2>1, Zenon DEF Grid
<1>3. Pow2[W] \in Nat /\ n \in Nat /\ n \in 1 .. MaxBits
  BY <1>2, WidthFacts
<1>4. (e.free - 1) % W = Slot(m) /\ e.free % W = Slot(m + 1)
  <2>1. e.free = FirstCode + m - 1 /\ FirstCode = Pow2[W] + 1
    BY <1>0 DEF FirstCode
  <2>2. e.free - 1 = Pow2[W] + m - 1
    <3> HIDE DEF m
    <3> QED BY <1>1, <1>3, <2>1
  <2>3. (FirstCode + m - 1) % W = Slot(m + 1)
    BY <1>1, Slots, Zenon
  <2> QED BY <2>1, <2>2, <2>3, Zenon DEF Slot
<1> HIDE DEF m
<1>5. /\ Packing(f) /\ f.dict = e.dict /\ f.free = e.free /\ f.full = e.full /\ f.ent = e.ent
      /\ f.nBits = IF e.free = Pow2[n] /\ n < MaxBits THEN n + 1 ELSE n
      /\ Stream(f) = b \o Bits(c, n)
      /\ Len(f.out) = Len(e.out) + (IF e.free % W = 0 THEN n ELSE 0)
      /\ Len(f.buf) = n * (e.free % W)
  <2>1. Len(e.buf) = n * ((e.free - 1) % W)
    BY <1>0, <1>4, Zenon
  <2> QED BY <1>0, <1>2, <2>1, OutputFacts, Zenon
<1>6. b \in Seq(Bit) /\ Len(b) = Off(N, P, m)
  <2>1. b \in Seq(Bit) /\ Len(b) = W * Len(e.out) + Len(e.buf)
    BY <1>0, StreamFacts
  <2> QED BY <1>0, <2>1, Zenon DEF Off
<1>7. HoldsAt(b \o Bits(c, n), c, n, Len(b)) /\ Len(b \o Bits(c, n)) = Len(b) + n
  BY <1>3, <1>6, HoldsLast, Zenon
<1>8. Len(Stream(f)) = Off(N, P, m) + N[m]
  BY <1>0, <1>5, <1>6, <1>7, Zenon
<1>9. ASSUME NEW k \in 1 .. m PROVE HoldsAt(Stream(f), Append(C, c)[k], N[k], Off(N, P, k))
  <2>1. Bits(c, n) \in Seq(Bit)
    BY <1>3, BitsType
  <2>2. CASE k = m
    <3>1. Append(C, c)[m] = c
      BY <1>0, <1>1
    <3> QED BY <1>0, <1>5, <1>6, <1>7, <2>2, <3>1, Zenon
  <2>3. CASE k # m
    <3>1. k \in 1 .. m - 1 /\ k \in 1 .. Len(C)
      BY <1>1, <2>3
    <3>2. Append(C, c)[k] = C[k]
      BY <1>0, <3>1
    <3>3. HoldsAt(b, C[k], N[k], Off(N, P, k))
      BY <1>0, <3>1, Zenon
    <3>4. HoldsAt(b \o Bits(c, n), C[k], N[k], Off(N, P, k))
      BY <1>6, <2>1, <3>3, HoldsLonger, Zenon
    <3> QED BY <1>5, <3>2, <3>4, Zenon
  <2> QED BY <2>2, <2>3
<1> QED BY <1>0, <1>4, <1>5, <1>8, <1>9, Zenon DEF m, Written

(* After a code, with a new entry, the encoder is ready for the next one.  *)
LEMMA PackStep ==
  ASSUME NEW e, NEW C, NEW N, NEW P, PackInv(e, C, N, P), e.free < Pow2[MaxBits],
         NEW c \in Nat, NEW f, Written(e, f, C, c, N, P),
         NEW g, DOMAIN g = Encoder, g.nBits = f.nBits, g.buf = f.buf, g.out = f.out,
         g.free = e.free + 1
  PROVE  PackInv(g, Append(C, c), Append(N, g.nBits), Append(P, Len(g.out)))
<1> DEFINE m == Len(C) + 1
           D == Append(C, c)
           M == Append(N, g.nBits)
           Q == Append(P, Len(g.out))
           n == N[m]
<1>0. /\ Packing(e) /\ C \in Seq(Nat) /\ Grid(N, P, m)
      /\ e.nBits = n /\ e.free = FirstCode + m - 1
  BY Zenon DEF PackInv
<1>1. m \in Nat \ {0} /\ m - 1 = Len(C) /\ Len(C) \in Nat /\ c \in Nat /\ FirstCode \in Nat /\ MaxBits \in Nat
  <2>1. W \in 0 .. MaxBits /\ MaxBits \in Nat
    BY CodeAssumption
  <2>2. Pow2[W] \in Nat
    BY <2>1, PowersPositive
  <2> QED BY <1>0, <2>1, <2>2 DEF FirstCode
<1>2. /\ Packing(f)
      /\ f.nBits = IF e.free = Pow2[n] /\ n < MaxBits THEN n + 1 ELSE n
      /\ Len(f.out) = P[m] + (IF Slot(m + 1) = 0 THEN n ELSE 0)
      /\ Len(f.buf) = n * Slot(m + 1)
      /\ \A k \in 1 .. m : HoldsAt(Stream(f), D[k], N[k], Off(N, P, k))
  BY Zenon DEF Written
<1>3. WidthAt(n, e.free)
  <2>1. m \in 1 .. m
    BY <1>1
  <2> QED BY <1>0, <2>1, Zenon DEF Grid
<1>4. /\ n \in Nat /\ n \in 1 .. MaxBits /\ n - 1 \in W .. MaxBits /\ e.free \in Nat
      /\ Pow2[n] \in Nat /\ Pow2[n] % W = 0 /\ e.free <= Pow2[n]
  BY <1>3, WidthFacts DEF WidthAt
<1>5. /\ WidthAt(f.nBits, e.free + 1) /\ f.nBits \in Nat
      /\ f.nBits = IF e.free = Pow2[n] THEN n + 1 ELSE n
  <2> HIDE DEF n, m
  <2>1. CASE e.free = Pow2[n]
    <3>1. n # MaxBits
      BY <1>4, <2>1
    <3>2. n < MaxBits /\ n + 1 \in 1 .. MaxBits /\ (n + 1) - 1 = n /\ n + 1 \in W + 1 .. MaxBits
      <4>1. W \in Nat /\ n \in W + 1 .. MaxBits
        BY <1>3, CodeAssumption DEF WidthAt
      <4> QED BY <1>1, <1>4, <3>1, <4>1
    <3>3. Pow2[n + 1] = 2 * Pow2[n] /\ Pow2[n] >= 1
      <4>1. Pow2[n + 1] = 2 * Pow2[(n + 1) - 1] /\ n \in 0 .. MaxBits
        BY <1>1, <1>4, <3>2, Powers
      <4> QED BY <3>2, <4>1, PowersPositive
    <3>4. f.nBits = n + 1
      BY <1>2, <2>1, <3>2
    <3>5. Pow2[(n + 1) - 1] < e.free + 1 /\ e.free + 1 <= Pow2[n + 1] /\ e.free + 1 \in Nat
      <4> DEFINE p == Pow2[n]
                 q == Pow2[n + 1]
      <4>1. p \in Nat /\ p >= 1 /\ q = 2 * p /\ e.free = p
        BY <1>4, <2>1, <3>3
      <4> HIDE DEF p, q
      <4>2. p < e.free + 1 /\ e.free + 1 <= q /\ e.free + 1 \in Nat
        BY <4>1
      <4>3. Pow2[(n + 1) - 1] = p
        BY <3>2, Zenon DEF p
      <4> QED BY <4>2, <4>3, Zenon DEF q
    <3>6. WidthAt(n + 1, e.free + 1)
      BY <3>2, <3>5, Zenon DEF WidthAt
    <3>7. n + 1 \in Nat
      BY <1>4
    <3> QED BY <2>1, <3>4, <3>6, <3>7, Zenon
  <2>2. CASE e.free # Pow2[n]
    <3>1. f.nBits = n
      BY <1>2, <2>2
    <3>2. Pow2[n - 1] < e.free + 1 /\ e.free + 1 <= Pow2[n] /\ e.free + 1 \in Nat /\ n \in W + 1 .. MaxBits
      <4>1. Pow2[n - 1] \in Nat
        BY <1>3, WidthFacts
      <4> QED BY <1>3, <1>4, <2>2, <4>1 DEF WidthAt
    <3> QED BY <1>4, <2>2, <3>1, <3>2, Zenon DEF WidthAt
  <2> QED BY <2>1, <2>2, Zenon
<1>6. Packing(g) /\ Stream(g) = Stream(f)
  BY <1>2, Zenon DEF Packing, Stream
<1>7. Slot(m + 1) \in Nat /\ (e.free = Pow2[n] => Slot(m + 1) = 0)
  <2>1. Slot(m + 1) = e.free % W
    BY <1>0, <1>1, Slots, Zenon
  <2>2. W \in Nat \ {0}
    BY CodeAssumption
  <2>3. e.free % W \in Nat
    BY <1>4, <2>2
  <2> QED BY <1>4, <2>1, <2>3, Zenon
<1>8. Len(g.buf) = g.nBits * Slot(m + 1)
  <2>1. CASE e.free = Pow2[n]
    <3>1. n * 0 = 0 /\ (n + 1) * 0 = 0
      BY <1>4
    <3> QED BY <1>2, <1>5, <1>7, <2>1, <3>1, Zenon
  <2>2. CASE e.free # Pow2[n]
    BY <1>2, <1>5, <2>2, Zenon
  <2> QED BY <2>1, <2>2
<1>9. /\ N \in Seq(Nat) /\ P \in Seq(Nat) /\ Len(N) = m /\ Len(P) = m
      /\ N[1] = W + 1 /\ P[1] = 0
      /\ \A k \in 1 .. m : WidthAt(N[k], FirstCode + k - 1)
      /\ \A k \in 1 .. m - 1 :
           /\ N[k + 1] = IF FirstCode + k - 1 = Pow2[N[k]] THEN N[k] + 1 ELSE N[k]
           /\ P[k + 1] = P[k] + (IF Slot(k + 1) = 0 THEN N[k] ELSE 0)
  BY <1>0, Zenon DEF Grid
<1>10. /\ M \in Seq(Nat) /\ Len(M) = m + 1 /\ (\A k \in 1 .. m : M[k] = N[k]) /\ M[m + 1] = g.nBits
  <2>1. g.nBits \in Nat
    BY <1>5
  <2> HIDE DEF m
  <2> QED BY <1>9, <2>1, AppendProperties
<1>11. /\ Q \in Seq(Nat) /\ Len(Q) = m + 1 /\ (\A k \in 1 .. m : Q[k] = P[k]) /\ Q[m + 1] = Len(g.out)
  <2>1. Len(g.out) \in Nat
    BY <1>6, LenProperties DEF Packing
  <2> HIDE DEF m
  <2> QED BY <1>9, <2>1, AppendProperties
<1>12. D \in Seq(Nat) /\ Len(D) = m
  BY <1>0, <1>1
<1> HIDE DEF M, Q, D, m, n
<1>13. Grid(M, Q, m + 1)
  <2>1. M[1] = W + 1 /\ Q[1] = 0
    BY <1>1, <1>9, <1>10, <1>11
  <2>2. ASSUME NEW k \in 1 .. m + 1 PROVE WidthAt(M[k], FirstCode + k - 1)
    <3>1. CASE k = m + 1
      <4>1. FirstCode + k - 1 = e.free + 1
        BY <1>0, <1>1, <3>1
      <4> QED BY <1>5, <1>10, <3>1, <4>1, Zenon
    <3>2. CASE k # m + 1
      <4>1. k \in 1 .. m
        BY <1>1, <3>2
      <4> QED BY <1>9, <1>10, <4>1, Zenon
    <3> QED BY <3>1, <3>2
  <2>3. ASSUME NEW k \in 1 .. (m + 1) - 1
        PROVE  /\ M[k + 1] = IF FirstCode + k - 1 = Pow2[M[k]] THEN M[k] + 1 ELSE M[k]
               /\ Q[k + 1] = Q[k] + (IF Slot(k + 1) = 0 THEN M[k] ELSE 0)
    <3>1. CASE k = m
      <4>0. m \in 1 .. m
        BY <1>1
      <4>1. M[m] = N[m] /\ Q[m] = P[m] /\ M[m + 1] = g.nBits /\ Q[m + 1] = Len(g.out)
            /\ FirstCode + m - 1 = e.free
        BY <1>0, <1>10, <1>11, <4>0, Zenon
      <4> QED BY <1>2, <1>5, <3>1, <4>1, Zenon DEF n
    <3>2. CASE k # m
      <4>1. k \in 1 .. m - 1 /\ k \in 1 .. m /\ k + 1 \in 1 .. m
        BY <1>1, <3>2
      <4>2. M[k] = N[k] /\ M[k + 1] = N[k + 1] /\ Q[k] = P[k] /\ Q[k + 1] = P[k + 1]
        BY <1>10, <1>11, <4>1, Zenon
      <4> QED BY <1>9, <4>1, <4>2, Zenon
    <3> QED BY <3>1, <3>2, Zenon
  <2>4. M \in Seq(Nat) /\ Q \in Seq(Nat) /\ Len(M) = m + 1 /\ Len(Q) = m + 1
    BY <1>10, <1>11, Zenon
  <2> QED BY <2>1, <2>2, <2>3, <2>4, Zenon DEF Grid
<1>14. \A k \in 1 .. (m + 1) - 1 : HoldsAt(Stream(g), D[k], M[k], Off(M, Q, k))
  <2> SUFFICES ASSUME NEW k \in 1 .. m PROVE HoldsAt(Stream(g), D[k], M[k], Off(M, Q, k))
    BY <1>1
  <2>1. Off(M, Q, k) = Off(N, P, k)
    BY <1>10, <1>11, Zenon DEF Off
  <2> QED BY <1>2, <1>6, <1>10, <2>1, Zenon
<1>15. g.free = FirstCode + (m + 1) - 1
  BY <1>0, <1>1
<1>16. Len(D) + 1 = m + 1
  BY <1>12
<1>17. M[m + 1] = g.nBits /\ Q[m + 1] = Len(g.out)
  BY <1>10, <1>11, Zenon
<1>18. PackInv(g, D, M, Q)
  <2>1. g.nBits = M[Len(D) + 1] /\ g.free = FirstCode + (Len(D) + 1) - 1 /\ Len(g.out) = Q[Len(D) + 1]
    BY <1>15, <1>16, <1>17, Zenon
  <2>2. Len(g.buf) = M[Len(D) + 1] * Slot(Len(D) + 1)
    BY <1>8, <1>16, <1>17, Zenon
  <2>3. Grid(M, Q, Len(D) + 1) /\ Packing(g) /\ D \in Seq(Nat)
    BY <1>6, <1>12, <1>13, <1>16, Zenon
  <2>4. \A k \in 1 .. (Len(D) + 1) - 1 : HoldsAt(Stream(g), D[k], M[k], Off(M, Q, k))
    <3>1. (Len(D) + 1) - 1 = (m + 1) - 1
      BY <1>16, Zenon
    <3> QED BY <1>14, <3>1, Zenon
  <2> QED BY <2>1, <2>2, <2>3, <2>4, Zenon DEF PackInv
<1> QED BY <1>18, Zenon DEF M, Q, D

-----------------------------------------------------------------------------
(* The codec of compress: pieces of sequences. *)

LEMMA PieceOfPiece ==
  ASSUME NEW T, NEW v \in Seq(T), NEW m \in Nat, NEW n \in Nat, m <= n, n <= Len(v),
         NEW a \in Nat, NEW b \in Nat, a <= b, b <= n - m, NEW w, w = SubSeq(v, m + 1, n)
  PROVE  SubSeq(w, a + 1, b) = SubSeq(v, (m + a) + 1, m + b)
<1> DEFINE x == SubSeq(w, a + 1, b)
           y == SubSeq(v, (m + a) + 1, m + b)
<1>1. w \in Seq(T) /\ Len(w) = n - m /\ \A i \in 1 .. n - m : w[i] = v[m + i]
  BY PieceOf
<1>2. x \in Seq(T) /\ Len(x) = b - a /\ \A i \in 1 .. b - a : x[i] = w[a + i]
  BY <1>1, PieceOf
<1>3. y \in Seq(T) /\ Len(y) = b - a /\ \A i \in 1 .. b - a : y[i] = v[(m + a) + i]
  <2> DEFINE k == m + a
             l == m + b
  <2>1. k \in Nat /\ l \in Nat /\ k <= l /\ l <= Len(v) /\ l - k = b - a
    OBVIOUS
  <2> HIDE DEF k, l
  <2>2. LET u == SubSeq(v, k + 1, l)
        IN  u \in Seq(T) /\ Len(u) = l - k /\ \A i \in 1 .. l - k : u[i] = v[k + i]
    BY <2>1, PieceOf
  <2> QED BY <2>1, <2>2 DEF k, l
<1> HIDE DEF x, y
<1>4. ASSUME NEW i \in 1 .. b - a PROVE x[i] = y[i]
  <2>1. a + i \in 1 .. n - m /\ m + (a + i) = (m + a) + i
    OBVIOUS
  <2>2. x[i] = w[a + i] /\ w[a + i] = v[m + (a + i)] /\ y[i] = v[(m + a) + i]
    BY <1>1, <1>2, <1>3, <2>1
  <2> QED BY <2>1, <2>2
<1>5. x = y
  BY <1>2, <1>3, <1>4, SeqEqual
<1> QED BY <1>5 DEF x, y

LEMMA PieceLen ==
  ASSUME NEW T, NEW v \in Seq(T), NEW m \in Nat, NEW n \in Nat, m <= n, n <= Len(v),
         NEW w, w = SubSeq(v, m + 1, n)
  PROVE  w \in Seq(T) /\ Len(w) = n - m
  BY PieceOf

LEMMA PieceAppend ==
  ASSUME NEW T, NEW v \in Seq(T), NEW m \in Nat, NEW n \in Nat, m <= n, n + 1 <= Len(v)
  PROVE  /\ Append(SubSeq(v, m + 1, n), v[n + 1]) = SubSeq(v, m + 1, n + 1)
         /\ v[n + 1] \in T
<1> DEFINE x == SubSeq(v, m + 1, n)
           y == SubSeq(v, m + 1, n + 1)
           z == Append(x, v[n + 1])
<1>1. x \in Seq(T) /\ Len(x) = n - m /\ \A i \in 1 .. n - m : x[i] = v[m + i]
  BY PieceOf
<1>2. y \in Seq(T) /\ Len(y) = (n + 1) - m /\ \A i \in 1 .. (n + 1) - m : y[i] = v[m + i]
  <2> DEFINE k == n + 1
  <2>1. k \in Nat /\ m <= k /\ k <= Len(v)
    OBVIOUS
  <2> HIDE DEF k
  <2>2. LET u == SubSeq(v, m + 1, k)
        IN  u \in Seq(T) /\ Len(u) = k - m /\ \A i \in 1 .. k - m : u[i] = v[m + i]
    BY <2>1, PieceOf
  <2> QED BY <2>2 DEF k
<1>3. v[n + 1] \in T
  OBVIOUS
<1> HIDE DEF x, y
<1>4. z \in Seq(T) /\ Len(z) = (n - m) + 1 /\ z[(n - m) + 1] = v[n + 1] /\ \A i \in 1 .. n - m : z[i] = x[i]
  BY <1>1, <1>3, AppendProperties
<1> HIDE DEF z
<1>5. ASSUME NEW i \in 1 .. (n + 1) - m PROVE z[i] = y[i]
  <2>1. CASE i = (n - m) + 1
    <3>1. m + i = n + 1
      BY <2>1
    <3> QED BY <1>2, <1>4, <2>1, <3>1
  <2>2. CASE i # (n - m) + 1
    <3>1. i \in 1 .. n - m
      BY <2>2
    <3> QED BY <1>1, <1>2, <1>4, <3>1
  <2> QED BY <2>1, <2>2, Zenon
<1>6. z = y
  <2>1. (n - m) + 1 = (n + 1) - m
    OBVIOUS
  <2>2. z \in Seq(T) /\ y \in Seq(T) /\ Len(z) = Len(y) /\ \A i \in 1 .. Len(z) : z[i] = y[i]
    BY <1>2, <1>4, <1>5, <2>1
  <2> QED BY <2>2, SeqEqual
<1> QED BY <1>3, <1>6 DEF x, y, z

LEMMA PieceConcat ==
  ASSUME NEW T, NEW v \in Seq(T), NEW l \in Nat, NEW m \in Nat, NEW n \in Nat,
         l <= m, m <= n, n <= Len(v)
  PROVE  SubSeq(v, l + 1, m) \o SubSeq(v, m + 1, n) = SubSeq(v, l + 1, n)
<1> DEFINE x == SubSeq(v, l + 1, m)
           y == SubSeq(v, m + 1, n)
           z == SubSeq(v, l + 1, n)
           u == x \o y
<1>1. x \in Seq(T) /\ Len(x) = m - l /\ \A i \in 1 .. m - l : x[i] = v[l + i]
  BY PieceOf
<1>2. y \in Seq(T) /\ Len(y) = n - m /\ \A i \in 1 .. n - m : y[i] = v[m + i]
  BY PieceOf
<1>3. z \in Seq(T) /\ Len(z) = n - l /\ \A i \in 1 .. n - l : z[i] = v[l + i]
  <2>1. l <= n
    OBVIOUS
  <2> QED BY <2>1, PieceOf
<1> HIDE DEF x, y, z
<1>4. /\ u \in Seq(T) /\ Len(u) = (m - l) + (n - m) /\ \A i \in 1 .. m - l : u[i] = x[i]
      /\ \A i \in 1 .. n - m : u[(m - l) + i] = y[i]
  <2> DEFINE p == m - l
             q == n - m
  <2>1. x \in Seq(T) /\ Len(x) = p /\ p \in Nat /\ y \in Seq(T) /\ Len(y) = q /\ q \in Nat
    BY <1>1, <1>2
  <2> HIDE DEF p, q
  <2>2. u \in Seq(T) /\ Len(u) = p + q
    BY <2>1, ConcatProperties
  <2>4. \A i \in 1 .. p : u[i] = x[i]
    BY <2>1, ConcatProperties
  <2>3. ASSUME NEW i \in 1 .. q PROVE u[p + i] = y[i]
    <3>1. p + i \in 1 .. p + q /\ p + i > p /\ (p + i) - p = i
      BY <2>1
    <3> QED BY <2>1, <3>1, ConcatProperties
  <2> QED BY <2>2, <2>3, <2>4 DEF p, q
<1> HIDE DEF u
<1>5. ASSUME NEW i \in 1 .. n - l PROVE u[i] = z[i]
  <2>1. CASE i <= m - l
    <3>1. i \in 1 .. m - l
      BY <2>1
    <3> QED BY <1>1, <1>3, <1>4, <3>1
  <2>2. CASE i > m - l
    <3> DEFINE k == i - (m - l)
    <3>1. k \in 1 .. n - m /\ i = (m - l) + k /\ m + k = l + i
      BY <2>2
    <3> HIDE DEF k
    <3>2. u[(m - l) + k] = y[k] /\ y[k] = v[m + k] /\ z[i] = v[l + i]
      BY <1>2, <1>3, <1>4, <3>1
    <3> QED BY <3>1, <3>2
  <2> QED BY <2>1, <2>2
<1>6. Len(u) = Len(z)
  BY <1>3, <1>4
<1>7. u = z
  BY <1>3, <1>4, <1>5, <1>6, SeqEqual
<1> QED BY <1>7 DEF x, y, z, u

LEMMA WholePiece ==
  ASSUME NEW T, NEW v \in Seq(T)
  PROVE  SubSeq(v, 0 + 1, Len(v)) = v
<1> DEFINE x == SubSeq(v, 0 + 1, Len(v))
<1>1. x \in Seq(T) /\ Len(x) = Len(v) - 0 /\ \A i \in 1 .. Len(v) - 0 : x[i] = v[0 + i]
  <2>1. Len(v) \in Nat /\ 0 <= Len(v) /\ Len(v) <= Len(v)
    OBVIOUS
  <2> QED BY <2>1, PieceOf
<1> HIDE DEF x
<1>2. Len(x) = Len(v) /\ \A i \in 1 .. Len(v) : x[i] = v[i]
  BY <1>1
<1>3. x = v
  BY <1>1, <1>2, SeqEqual
<1> QED BY <1>3 DEF x

LEMMA EmptyPiece ==
  ASSUME NEW T, NEW v \in Seq(T), NEW m \in Nat, m <= Len(v)
  PROVE  SubSeq(v, m + 1, m) = <<>>
<1>1. SubSeq(v, m + 1, m) \in Seq(T) /\ Len(SubSeq(v, m + 1, m)) = m - m
  BY PieceOf
<1> QED BY <1>1, EmptySeq

(* Beyond the end there is nothing.                                        *)
LEMMA PieceBeyond ==
  ASSUME NEW T, NEW v \in Seq(T), NEW m \in Nat, m >= Len(v)
  PROVE  SubSeq(v, m + 1, Len(v)) = <<>>
<1> DEFINE k == m + 1
<1>1. k \in Nat /\ k > Len(v)
  OBVIOUS
<1> HIDE DEF k
<1>2. SubSeq(v, k, Len(v)) \in Seq(T) /\ Len(SubSeq(v, k, Len(v))) = 0
  BY <1>1
<1>3. SubSeq(v, k, Len(v)) = <<>>
  BY <1>2, EmptySeq
<1> QED BY <1>3 DEF k

-----------------------------------------------------------------------------
(* The codec of compress: what the codes stand for. *)

Byte == 0 .. Clear - 1

(* A byte, or one of the first k entries.                                  *)
Made(c, k) == c \in Byte \/ (c \in Nat /\ FirstCode <= c /\ c < FirstCode + k)

(* The k-th code is put out at byte S[k] of s, and the entry made then are *)
(* the bytes it stands for and the next one.                               *)
Text(s, S, c) ==
  IF c < Clear THEN <<c>>
  ELSE SubSeq(s, S[(c - FirstCode) + 1] + 1, S[(c - FirstCode) + 2] + 1)
Cuts(S, m, i) ==
  /\ S \in Seq(Nat) /\ Len(S) = m /\ m \in Nat \ {0} /\ S[1] = 0 /\ i \in Nat
  /\ \A k \in 1 .. m - 1 : S[k] < S[k + 1]
  /\ \A k \in 1 .. m : S[k] <= i
CodedBy(C, S, s) ==
  \A k \in 1 .. Len(C) : Made(C[k], k - 1) /\ Text(s, S, C[k]) = SubSeq(s, S[k] + 1, S[k + 1])
DictInv(d, s, S, m) ==
  \A key \in DOMAIN d : /\ Made(key[1], m - 1) /\ d[key] \in Nat
                        /\ FirstCode <= d[key] /\ d[key] < FirstCode + (m - 1)
                        /\ Text(s, S, d[key]) = Append(Text(s, S, key[1]), key[2])

(* The encoder has seen i bytes of s and put out the codes C.              *)
TextInv(e, s, i, C, S) ==
  LET m == Len(C) + 1 IN
  /\ s \in Seq(Byte) /\ i \in 1 .. Len(s) /\ C \in Seq(Nat) /\ Cuts(S, m, i) /\ S[m] < i
  /\ CodedBy(C, S, s) /\ DictInv(e.dict, s, S, m)
  /\ Made(e.ent, m - 1) /\ Text(s, S, e.ent) = SubSeq(s, S[m] + 1, i)

LEMMA CodeNumbers == Clear \in Nat /\ Clear >= 1 /\ FirstCode = Clear + 1 /\ FirstCode \in Nat
<1>1. W \in 0 .. MaxBits
  BY CodeAssumption
<1>2. Pow2[W] \in Nat /\ Pow2[W] >= 1
  BY <1>1, PowersPositive
<1> QED BY <1>2 DEF Clear, FirstCode

Same(R, S, m) == \A k \in 1 .. m : R[k] = S[k]

(* What an entry stands for does not change when more are made.            *)
LEMMA TextStays ==
  ASSUME NEW s, NEW S, NEW R, NEW m \in Nat \ {0}, Same(R, S, m),
         NEW c, Made(c, m - 1)
  PROVE  Text(s, R, c) = Text(s, S, c) /\ Made(c, m)
<1>0. Clear \in Nat /\ FirstCode = Clear + 1 /\ FirstCode \in Nat
  BY CodeNumbers
<1>1. CASE c \in Byte
  <2>1. c < Clear
    BY <1>0, <1>1 DEF Byte
  <2> QED BY <1>1, <2>1, Zenon DEF Text, Made
<1>2. CASE c \in Nat /\ FirstCode <= c /\ c < FirstCode + (m - 1)
  <2>1. /\ ~(c < Clear) /\ (c - FirstCode) + 1 \in 1 .. m /\ (c - FirstCode) + 2 \in 1 .. m
        /\ c < FirstCode + m
    BY <1>0, <1>2
  <2> QED BY <1>2, <2>1, Zenon DEF Text, Made, Same
<1> QED BY <1>1, <1>2, Zenon DEF Made

LEMMA CutFacts ==
  ASSUME NEW S, NEW m, NEW i, Cuts(S, m, i)
  PROVE  /\ m \in Nat \ {0} /\ i \in Nat /\ S \in Seq(Nat) /\ Len(S) = m
         /\ \A k \in 1 .. m : S[k] \in Nat /\ S[k] <= i
         /\ \A k \in 1 .. m - 1 : S[k] < S[k + 1] /\ k \in 1 .. m /\ k + 1 \in 1 .. m
<1>1. m \in Nat \ {0} /\ i \in Nat /\ S \in Seq(Nat) /\ Len(S) = m
  BY Zenon DEF Cuts
<1>2. \A k \in 1 .. m : S[k] \in Nat
  BY <1>1
<1>3. \A k \in 1 .. m - 1 : k \in 1 .. m /\ k + 1 \in 1 .. m
  BY <1>1
<1> QED BY <1>1, <1>2, <1>3, Zenon DEF Cuts

(* One place more.                                                         *)
LEMMA CutsLonger ==
  ASSUME NEW S, NEW m, NEW i, Cuts(S, m, i), S[m] < i
  PROVE  /\ Cuts(Append(S, i), m + 1, i) /\ Append(S, i)[m + 1] = i
         /\ Same(Append(S, i), S, m)
<1> DEFINE R == Append(S, i)
<1>1. /\ m \in Nat \ {0} /\ i \in Nat /\ S \in Seq(Nat) /\ Len(S) = m
      /\ \A k \in 1 .. m : S[k] \in Nat /\ S[k] <= i
      /\ \A k \in 1 .. m - 1 : S[k] < S[k + 1] /\ k \in 1 .. m /\ k + 1 \in 1 .. m
  BY CutFacts
<1>2. R \in Seq(Nat) /\ Len(R) = m + 1 /\ (\A k \in 1 .. m : R[k] = S[k]) /\ R[m + 1] = i
  BY <1>1, AppendProperties
<1> HIDE DEF R
<1>3. ASSUME NEW k \in 1 .. (m + 1) - 1 PROVE R[k] < R[k + 1]
  <2>1. CASE k = m
    <3>1. R[m] = S[m] /\ R[m + 1] = i
      BY <1>1, <1>2
    <3> QED BY <2>1, <3>1
  <2>2. CASE k # m
    <3>1. k \in 1 .. m - 1
      BY <1>1, <2>2
    <3> QED BY <1>1, <1>2, <3>1
  <2> QED BY <2>1, <2>2
<1>4. ASSUME NEW k \in 1 .. m + 1 PROVE R[k] <= i
  <2>1. k \in 1 .. m \/ k = m + 1
    BY <1>1
  <2> QED BY <1>1, <1>2, <2>1
<1>5. R[1] = 0 /\ m + 1 \in Nat \ {0}
  <2>1. S[1] = 0 /\ 1 \in 1 .. m
    BY <1>1 DEF Cuts
  <2> QED BY <1>1, <1>2, <2>1
<1>6. Cuts(R, m + 1, i)
  BY <1>1, <1>2, <1>3, <1>4, <1>5, Zenon DEF Cuts
<1> QED BY <1>2, <1>6, Zenon DEF R, Same

(* What an entry stands for is bytes of the file.                          *)
LEMMA TextOf ==
  ASSUME NEW s \in Seq(Byte), NEW S, NEW m, NEW i, Cuts(S, m, i), i < Len(s),
         NEW c, Made(c, m - 1)
  PROVE  Text(s, S, c) \in Seq(Byte) /\ Len(Text(s, S, c)) >= 1 /\ c \in Nat
<1>0. Clear \in Nat /\ FirstCode = Clear + 1 /\ FirstCode \in Nat
  BY CodeNumbers
<1>1. /\ m \in Nat \ {0} /\ i \in Nat /\ \A k \in 1 .. m : S[k] \in Nat /\ S[k] <= i
      /\ \A k \in 1 .. m - 1 : S[k] < S[k + 1] /\ k \in 1 .. m /\ k + 1 \in 1 .. m
  BY CutFacts
<1>2. CASE c \in Byte
  <2>1. c < Clear /\ c \in Nat
    BY <1>0, <1>2 DEF Byte
  <2>2. Text(s, S, c) = <<c>>
    BY <2>1, Zenon DEF Text
  <2> QED BY <1>2, <2>1, <2>2
<1>3. CASE c \in Nat /\ FirstCode <= c /\ c < FirstCode + (m - 1)
  <2> DEFINE k == (c - FirstCode) + 1
             a == S[k]
             b == S[k + 1]
  <2>1. ~(c < Clear) /\ k \in 1 .. m - 1 /\ (c - FirstCode) + 2 = k + 1
    BY <1>0, <1>1, <1>3
  <2>2. Text(s, S, c) = SubSeq(s, a + 1, b + 1)
    BY <2>1, Zenon DEF Text
  <2>3. a \in Nat /\ b \in Nat /\ a < b /\ b <= i
    <3> HIDE DEF k
    <3> QED BY <1>1, <2>1
  <2> HIDE DEF a, b
  <2>4. b + 1 \in Nat /\ a <= b + 1 /\ b + 1 <= Len(s) /\ (b + 1) - a >= 1
    BY <1>1, <2>3
  <2> DEFINE n == b + 1
  <2>5. n \in Nat /\ a <= n /\ n <= Len(s) /\ n - a >= 1
    BY <2>4
  <2> HIDE DEF n
  <2>6. SubSeq(s, a + 1, n) \in Seq(Byte) /\ Len(SubSeq(s, a + 1, n)) = n - a
    BY <2>3, <2>5, PieceOf
  <2>7. Text(s, S, c) = SubSeq(s, a + 1, n)
    BY <2>2 DEF n
  <2> QED BY <1>3, <2>5, <2>6, <2>7
<1> QED BY <1>2, <1>3, Zenon DEF Made

(* A byte that makes the bytes of an entry those of another: no code.      *)
LEMMA TextFound ==
  ASSUME NEW e, NEW s, NEW i, NEW C, NEW S, TextInv(e, s, i, C, S), i < Len(s),
         NEW key, key = <<e.ent, s[i + 1]>>, key \in DOMAIN e.dict,
         NEW g, g.dict = e.dict, g.ent = e.dict[key]
  PROVE  TextInv(g, s, i + 1, C, S)
<1> DEFINE m == Len(C) + 1
           c == e.dict[key]
           x == s[i + 1]
<1>0. /\ s \in Seq(Byte) /\ i \in 1 .. Len(s) /\ C \in Seq(Nat) /\ Cuts(S, m, i) /\ S[m] < i
      /\ CodedBy(C, S, s) /\ DictInv(e.dict, s, S, m)
      /\ Made(e.ent, m - 1) /\ Text(s, S, e.ent) = SubSeq(s, S[m] + 1, i)
  BY Zenon DEF TextInv
<1>1. /\ m \in Nat \ {0} /\ i \in Nat /\ S \in Seq(Nat) /\ Len(S) = m
      /\ \A k \in 1 .. m : S[k] \in Nat /\ S[k] <= i
  BY <1>0, CutFacts, Zenon
<1>2. /\ c \in Nat /\ FirstCode <= c /\ c < FirstCode + (m - 1)
      /\ Text(s, S, c) = Append(Text(s, S, key[1]), key[2])
  BY <1>0, Zenon DEF DictInv
<1>3. Made(c, m - 1)
  BY <1>2, Zenon DEF Made
<1>4. key[1] = e.ent /\ key[2] = x
  OBVIOUS
<1> HIDE DEF m, x, c
<1>5. Append(SubSeq(s, S[m] + 1, i), x) = SubSeq(s, S[m] + 1, i + 1)
  <2>1. S[m] \in Nat /\ S[m] <= i /\ i + 1 <= Len(s)
    <3>1. m \in 1 .. m
      BY <1>1
    <3>2. i \in Nat /\ Len(s) \in Nat
      BY <1>0, <1>1, LenProperties
    <3> QED BY <1>1, <3>1, <3>2
  <2>2. s \in Seq(Byte) /\ i \in Nat
    BY <1>0, <1>1, Zenon
  <2> QED BY <2>1, <2>2, PieceAppend, Zenon DEF x
<1>6. Text(s, S, c) = SubSeq(s, S[m] + 1, i + 1)
  BY <1>0, <1>2, <1>4, <1>5, Zenon
<1>7. i + 1 \in 1 .. Len(s) /\ S[m] < i + 1 /\ i + 1 \in Nat
  <2>1. m \in 1 .. m /\ Len(s) \in Nat
    BY <1>0, <1>1, LenProperties
  <2> QED BY <1>0, <1>1, <2>1
<1>8. Cuts(S, m, i + 1)
  <2>1. \A k \in 1 .. m : S[k] <= i + 1
    BY <1>1
  <2> QED BY <1>0, <1>7, <2>1, Zenon DEF Cuts
<1>9. Made(g.ent, m - 1) /\ Text(s, S, g.ent) = SubSeq(s, S[m] + 1, i + 1) /\ DictInv(g.dict, s, S, m)
  BY <1>0, <1>3, <1>6, Zenon DEF c
<1> QED BY <1>0, <1>7, <1>8, <1>9, Zenon DEF TextInv, m

(* A code for the bytes so far, and an entry for them and the next one.    *)
LEMMA TextNew ==
  ASSUME NEW e, NEW s, NEW i, NEW C, NEW S, TextInv(e, s, i, C, S), i < Len(s),
         NEW key, key = <<e.ent, s[i + 1]>>, e.free = FirstCode + Len(C),
         NEW g, g.ent = s[i + 1],
         g.dict = [k \in DOMAIN e.dict \cup {key} |-> IF k = key THEN e.free ELSE e.dict[k]]
  PROVE  TextInv(g, s, i + 1, Append(C, e.ent), Append(S, i))
<1> DEFINE m == Len(C) + 1
           x == s[i + 1]
           D == Append(C, e.ent)
           R == Append(S, i)
<1>0. /\ s \in Seq(Byte) /\ i \in 1 .. Len(s) /\ C \in Seq(Nat) /\ Cuts(S, m, i) /\ S[m] < i
      /\ CodedBy(C, S, s) /\ DictInv(e.dict, s, S, m)
      /\ Made(e.ent, m - 1) /\ Text(s, S, e.ent) = SubSeq(s, S[m] + 1, i)
  BY Zenon DEF TextInv
<1>1. /\ m \in Nat \ {0} /\ i \in Nat /\ S \in Seq(Nat) /\ Len(S) = m
      /\ \A k \in 1 .. m : S[k] \in Nat /\ S[k] <= i
      /\ \A k \in 1 .. m - 1 : S[k] < S[k + 1] /\ k \in 1 .. m /\ k + 1 \in 1 .. m
  BY <1>0, CutFacts, Zenon
<1>2. Cuts(R, m + 1, i) /\ R[m + 1] = i /\ Same(R, S, m)
  BY <1>0, CutsLonger, Zenon
<1>3. Clear \in Nat /\ FirstCode = Clear + 1 /\ FirstCode \in Nat
  BY CodeNumbers
<1>4. e.free = FirstCode + (m - 1) /\ key[1] = e.ent /\ key[2] = x
  <2>1. Len(C) \in Nat
    BY <1>0, LenProperties
  <2>2. Len(C) = m - 1
    BY <2>1
  <2> QED BY <2>2
<1>5. m \in 1 .. m /\ (m + 1) - 1 = m /\ Len(s) \in Nat
  BY <1>0, <1>1, LenProperties
<1>6. e.ent \in Nat
  <2>1. Byte \subseteq Nat
    BY <1>3 DEF Byte
  <2> QED BY <1>0, <2>1, Zenon DEF Made
<1>7. D \in Seq(Nat) /\ Len(D) = m /\ D[m] = e.ent /\ \A k \in 1 .. Len(C) : D[k] = C[k]
  BY <1>0, <1>6, AppendProperties
<1>8. R[m] = S[m]
  BY <1>2, <1>5, Zenon DEF Same
<1>9. Len(C) = m - 1
  BY <1>0, <1>1, LenProperties
<1> HIDE DEF m, x, D, R
<1>10. i + 1 \in 1 .. Len(s) /\ i + 1 \in Nat /\ i < i + 1 /\ i + 1 <= Len(s)
  BY <1>0, <1>1, <1>5
<1>11. Cuts(R, m + 1, i + 1)
  <2>1. /\ R \in Seq(Nat) /\ Len(R) = m + 1 /\ m + 1 \in Nat \ {0} /\ R[1] = 0
        /\ \A k \in 1 .. (m + 1) - 1 : R[k] < R[k + 1]
    BY <1>2, Zenon DEF Cuts
  <2>2. \A k \in 1 .. m + 1 : R[k] <= i + 1
    <3>1. \A k \in 1 .. m + 1 : R[k] \in Nat /\ R[k] <= i
      BY <1>2, CutFacts, Zenon
    <3> TAKE k \in 1 .. m + 1
    <3>2. R[k] \in Nat /\ R[k] <= i
      BY <3>1, Zenon
    <3>3. i \in Nat
      BY <1>1
    <3> QED BY <3>2, <3>3
  <2> QED BY <1>10, <2>1, <2>2, Zenon DEF Cuts
<1>12. ASSUME NEW c, Made(c, m - 1) PROVE Text(s, R, c) = Text(s, S, c) /\ Made(c, m)
  <2>1. m \in Nat \ {0} /\ Same(R, S, m)
    BY <1>1, <1>2, Zenon
  <2> QED BY <1>12, <2>1, TextStays
<1>13. ASSUME NEW k \in 1 .. Len(D)
       PROVE  Made(D[k], k - 1) /\ Text(s, R, D[k]) = SubSeq(s, R[k] + 1, R[k + 1])
  <2>1. CASE k = m
    BY <1>0, <1>2, <1>7, <1>8, <1>12, <2>1, Zenon
  <2>2. CASE k # m
    <3>1. k \in 1 .. m - 1 /\ k \in 1 .. Len(C) /\ k \in Nat \ {0}
      BY <1>1, <1>7, <1>9, <2>2
    <3>2. k \in 1 .. m /\ k + 1 \in 1 .. m
      BY <1>1, <3>1, Zenon
    <3>3. R[k] = S[k] /\ R[k + 1] = S[k + 1]
      BY <1>2, <3>2, Zenon DEF Same
    <3>4. Same(R, S, k)
      <4>1. 1 .. k \subseteq 1 .. m
        BY <1>1, <3>2
      <4> QED BY <1>2, <4>1, Zenon DEF Same
    <3>5. Made(C[k], k - 1) /\ Text(s, S, C[k]) = SubSeq(s, S[k] + 1, S[k + 1])
      BY <1>0, <3>1, Zenon DEF CodedBy
    <3>6. Text(s, R, C[k]) = Text(s, S, C[k])
      <4>1. k \in Nat \ {0} /\ Made(C[k], k - 1)
        BY <3>1, <3>5, Zenon
      <4> QED BY <3>4, <4>1, TextStays
    <3> QED BY <1>7, <3>1, <3>3, <3>5, <3>6, Zenon
  <2> QED BY <2>1, <2>2, Zenon
<1>14. Append(SubSeq(s, S[m] + 1, i), x) = SubSeq(s, S[m] + 1, i + 1) /\ x \in Byte
  <2>1. S[m] \in Nat /\ S[m] <= i
    BY <1>1, <1>5, Zenon
  <2> QED BY <1>0, <1>1, <1>10, <2>1, PieceAppend, Zenon DEF x
<1>15. Text(s, R, e.free) = Append(Text(s, R, e.ent), x)
  <2>1. ~(e.free < Clear) /\ (e.free - FirstCode) + 1 = m /\ (e.free - FirstCode) + 2 = m + 1
    BY <1>1, <1>3, <1>4
  <2>2. Text(s, R, e.free) = SubSeq(s, R[m] + 1, R[m + 1] + 1)
    BY <2>1, Zenon DEF Text
  <2> QED BY <1>0, <1>2, <1>8, <1>12, <1>14, <2>2, Zenon
<1>16. ASSUME NEW k \in DOMAIN g.dict
       PROVE  /\ Made(k[1], m) /\ g.dict[k] \in Nat
              /\ FirstCode <= g.dict[k] /\ g.dict[k] < FirstCode + m
              /\ Text(s, R, g.dict[k]) = Append(Text(s, R, k[1]), k[2])
  <2>1. CASE k = key
    <3>1. g.dict[k] = e.free
      BY <2>1
    <3>2. e.free \in Nat /\ FirstCode <= e.free /\ e.free < FirstCode + m
      BY <1>1, <1>3, <1>4
    <3> QED BY <1>0, <1>4, <1>12, <1>15, <2>1, <3>1, <3>2, Zenon
  <2>2. CASE k # key
    <3>1. k \in DOMAIN e.dict /\ g.dict[k] = e.dict[k]
      BY <2>2
    <3>2. /\ Made(k[1], m - 1) /\ e.dict[k] \in Nat
          /\ FirstCode <= e.dict[k] /\ e.dict[k] < FirstCode + (m - 1)
          /\ Text(s, S, e.dict[k]) = Append(Text(s, S, k[1]), k[2])
      BY <1>0, <3>1, Zenon DEF DictInv
    <3>3. Made(e.dict[k], m - 1)
      BY <3>2, Zenon DEF Made
    <3>4. e.dict[k] < FirstCode + m
      BY <1>1, <1>3, <3>2
    <3> QED BY <1>12, <3>1, <3>2, <3>3, <3>4, Zenon
  <2> QED BY <2>1, <2>2, Zenon
<1>17. DictInv(g.dict, s, R, m + 1)
  BY <1>5, <1>16, Zenon DEF DictInv
<1>18. Text(s, R, x) = SubSeq(s, i + 1, i + 1)
  <2>1. x < Clear
    BY <1>3, <1>14 DEF Byte
  <2>2. Text(s, R, x) = <<x>>
    BY <2>1, Zenon DEF Text
  <2>3. SubSeq(s, i + 1, i) = <<>> /\ Append(SubSeq(s, i + 1, i), x) = SubSeq(s, i + 1, i + 1)
    <3>1. i <= i /\ i <= Len(s)
      BY <1>0, <1>1
    <3>2. SubSeq(s, i + 1, i) = <<>>
      BY <1>0, <1>1, <3>1, EmptyPiece, Zenon
    <3>3. Append(SubSeq(s, i + 1, i), x) = SubSeq(s, i + 1, i + 1)
      <4>1. s \in Seq(Byte) /\ i \in Nat /\ i + 1 <= Len(s)
        BY <1>0, <1>1, <1>10, Zenon
      <4> QED BY <3>1, <4>1, PieceAppend DEF x
    <3> QED BY <3>2, <3>3, Zenon
  <2>4. Append(<<>>, x) = <<x>>
    OBVIOUS
  <2> QED BY <2>2, <2>3, <2>4, Zenon
<1>19. Made(g.ent, (m + 1) - 1) /\ g.ent = x
  BY <1>14, Zenon DEF Made, x
<1>20. CodedBy(D, R, s)
  BY <1>13, Zenon DEF CodedBy
<1>21. TextInv(g, s, i + 1, D, R)
  <2>1. Len(D) + 1 = m + 1
    BY <1>7
  <2> QED BY <1>0, <1>2, <1>7, <1>10, <1>11, <1>17, <1>18, <1>19, <1>20, <2>1, Zenon DEF TextInv
<1> QED BY <1>21 DEF D, R

-----------------------------------------------------------------------------
(* The codec of compress: what the encoder puts out. *)

EncInv(e, s, i, C, N, P, S) == PackInv(e, C, N, P) /\ TextInv(e, s, i, C, S)

(* A code fits its width and is not the one that clears.                   *)
LEMMA EntFits ==
  ASSUME NEW e, NEW s, NEW i, NEW C, NEW N, NEW P, NEW S, EncInv(e, s, i, C, N, P, S)
  PROVE  e.ent \in 0 .. Pow2[e.nBits] - 1 /\ e.ent # Clear
<1> DEFINE m == Len(C) + 1
<1>1. C \in Seq(Nat) /\ Grid(N, P, m) /\ e.nBits = N[m] /\ e.free = FirstCode + m - 1
  BY Zenon DEF EncInv, PackInv
<1>2. Made(e.ent, m - 1)
  BY Zenon DEF EncInv, TextInv
<1>3. m \in Nat \ {0}
  BY <1>1
<1>4. WidthAt(e.nBits, e.free)
  <2>1. m \in 1 .. m
    BY <1>3
  <2> QED BY <1>1, <2>1, Zenon DEF Grid
<1> HIDE DEF m
<1>5. Clear \in Nat /\ FirstCode = Clear + 1 /\ Clear = Pow2[W]
  BY CodeNumbers DEF Clear
<1>6. Pow2[e.nBits] \in Nat /\ Pow2[W] < Pow2[e.nBits] /\ e.free <= Pow2[e.nBits] /\ e.free \in Nat
  BY <1>4, WidthFacts DEF WidthAt
<1> DEFINE p == Pow2[e.nBits]
<1>7. p \in Nat /\ Clear < p /\ e.free <= p
  BY <1>5, <1>6
<1> HIDE DEF p
<1>8. CASE e.ent \in Byte
  <2>1. e.ent \in 0 .. Clear - 1
    BY <1>8 DEF Byte
  <2> QED BY <1>5, <1>7, <2>1 DEF p
<1>9. CASE e.ent \in Nat /\ FirstCode <= e.ent /\ e.ent < FirstCode + (m - 1)
  <2>1. e.ent \in 0 .. p - 1 /\ e.ent # Clear
    BY <1>1, <1>3, <1>5, <1>6, <1>7, <1>9
  <2> QED BY <2>1 DEF p
<1> QED BY <1>2, <1>8, <1>9, Zenon DEF Made

LEMMA EncodeFound ==
  ASSUME NEW e, NEW s, NEW i, NEW C, NEW N, NEW P, NEW S, EncInv(e, s, i, C, N, P, S), i < Len(s),
         <<e.ent, s[i + 1]>> \in DOMAIN e.dict
  PROVE  EncInv(EncodeByte(e, s[i + 1]), s, i + 1, C, N, P, S)
<1> DEFINE key == <<e.ent, s[i + 1]>>
           g == EncodeByte(e, s[i + 1])
<1>1. PackInv(e, C, N, P) /\ TextInv(e, s, i, C, S)
  BY Zenon DEF EncInv
<1>2. Packing(e) /\ DOMAIN e = Encoder
  BY <1>1, Zenon DEF PackInv, Packing
<1>3. g = [e EXCEPT !.ent = e.dict[key]]
  BY Zenon DEF EncodeByte
<1>4. /\ DOMAIN g = Encoder /\ g.ent = e.dict[key] /\ g.dict = e.dict /\ g.nBits = e.nBits
      /\ g.free = e.free /\ g.buf = e.buf /\ g.out = e.out
  BY <1>2, <1>3 DEF Encoder
<1>5. key = <<e.ent, s[i + 1]>> /\ key \in DOMAIN e.dict
  OBVIOUS
<1> HIDE DEF g, key
<1>6. TextInv(g, s, i + 1, C, S)
  BY <1>1, <1>4, <1>5, TextFound, Zenon
<1>7. Packing(g) /\ Stream(g) = Stream(e)
  BY <1>2, <1>4, Zenon DEF Packing, Stream
<1>8. PackInv(g, C, N, P)
  BY <1>1, <1>4, <1>7, Zenon DEF PackInv
<1> QED BY <1>6, <1>8, Zenon DEF EncInv, g

LEMMA EncodeNew ==
  ASSUME NEW e, NEW s, NEW i, NEW C, NEW N, NEW P, NEW S, EncInv(e, s, i, C, N, P, S), i < Len(s),
         <<e.ent, s[i + 1]>> \notin DOMAIN e.dict, e.free < Pow2[MaxBits]
  PROVE  \E D, M, Q, R : EncInv(EncodeByte(e, s[i + 1]), s, i + 1, D, M, Q, R)
<1> DEFINE key == <<e.ent, s[i + 1]>>
           f == Output(e, e.ent)
           d == [k \in DOMAIN f.dict \cup {key} |-> IF k = key THEN f.free ELSE f.dict[k]]
           u == [f EXCEPT !.dict = d, !.free = @ + 1]
           g == EncodeByte(e, s[i + 1])
<1>1. PackInv(e, C, N, P) /\ TextInv(e, s, i, C, S)
  BY Zenon DEF EncInv
<1>2. e.ent \in 0 .. Pow2[e.nBits] - 1 /\ e.ent # Clear
  BY EntFits, Zenon
<1>3. Written(e, f, C, e.ent, N, P)
  BY <1>1, <1>2, CodeWritten, Zenon
<1>4. Packing(f) /\ f.dict = e.dict /\ f.free = e.free /\ DOMAIN f = Encoder
  BY <1>3, Zenon DEF Written, Packing
<1>5. g = [u EXCEPT !.ent = s[i + 1]]
  <2>1. f.free < Pow2[MaxBits] /\ key \notin DOMAIN e.dict
    BY <1>4, Zenon
  <2> QED BY <2>1 DEF EncodeByte
<1> HIDE DEF f, d
<1>6. /\ DOMAIN g = Encoder /\ g.ent = s[i + 1] /\ g.dict = d /\ g.nBits = f.nBits
      /\ g.free = e.free + 1 /\ g.buf = f.buf /\ g.out = f.out
  BY <1>4, <1>5 DEF Encoder
<1> HIDE DEF g, u
<1>7. g.dict = [k \in DOMAIN e.dict \cup {key} |-> IF k = key THEN e.free ELSE e.dict[k]]
  BY <1>4, <1>6, Zenon DEF d
<1>8. key = <<e.ent, s[i + 1]>>
  OBVIOUS
<1> HIDE DEF key
<1>9. e.free = FirstCode + Len(C) /\ e.ent \in Nat
  <2>1. C \in Seq(Nat) /\ e.free = FirstCode + (Len(C) + 1) - 1
    BY <1>1, Zenon DEF PackInv
  <2>2. FirstCode \in Nat /\ Len(C) \in Nat
    BY <2>1, CodeNumbers, LenProperties
  <2> QED BY <1>2, <2>1, <2>2
<1>10. TextInv(g, s, i + 1, Append(C, e.ent), Append(S, i))
  <2>1. TextInv(e, s, i, C, S) /\ g.ent = s[i + 1] /\ e.free = FirstCode + Len(C)
    BY <1>1, <1>6, <1>9, Zenon
  <2> QED BY <1>7, <1>8, <2>1, TextNew
<1>11. PackInv(g, Append(C, e.ent), Append(N, g.nBits), Append(P, Len(g.out)))
  BY <1>1, <1>3, <1>6, <1>9, PackStep, Zenon
<1> QED BY <1>10, <1>11, Zenon DEF EncInv, g

(* When the table has been full once, the encoder remembers it.            *)
LEMMA OutputKeeps ==
  ASSUME NEW e, NEW c, DOMAIN e = Encoder
  PROVE  DOMAIN Output(e, c) = Encoder /\ Output(e, c).full = e.full
<1> DEFINE added == [e EXCEPT !.buf = @ \o Bits(c, e.nBits)]
           g == IF Len(added.buf) = W * e.nBits THEN FlushBlock(added) ELSE added
           f == Output(e, c)
           h == FlushBlock(g)
<1>1. DOMAIN added = Encoder /\ added.full = e.full
  BY DEF Encoder
<1> HIDE DEF added
<1>2. DOMAIN g = Encoder /\ g.full = e.full
  <2>1. LET a == FlushBlock(added) IN DOMAIN a = Encoder /\ a.full = added.full
    BY <1>1, FlushFields, Zenon
  <2> QED BY <1>1, <2>1
<1>3. f = CASE c = Clear -> h
            [] c # Clear /\ g.free > MaxCode(g.nBits) /\ g.nBits < MaxBits -> [h EXCEPT !.nBits = @ + 1]
            [] OTHER -> g
  BY DEF Output, added
<1> HIDE DEF g, f
<1>4. DOMAIN h = Encoder /\ h.full = e.full
  <2>1. LET a == FlushBlock(g) IN DOMAIN a = Encoder /\ a.full = g.full
    BY <1>2, FlushFields, Zenon
  <2> QED BY <1>2, <2>1
<1> HIDE DEF h
<1>5. LET a == [h EXCEPT !.nBits = @ + 1] IN DOMAIN a = Encoder /\ a.full = e.full
  BY <1>4 DEF Encoder
<1>6. f \in {h, [h EXCEPT !.nBits = @ + 1], g}
  <2>1. CASE c = Clear
    BY <1>3, <2>1
  <2>2. CASE c # Clear /\ g.free > MaxCode(g.nBits) /\ g.nBits < MaxBits
    BY <1>3, <2>2
  <2>3. CASE ~(c = Clear) /\ ~(c # Clear /\ g.free > MaxCode(g.nBits) /\ g.nBits < MaxBits)
    <3>1. f = g
      BY <1>3, <2>3, Zenon
    <3> QED BY <3>1
  <2> QED BY <2>1, <2>2, <2>3, Zenon
<1>7. DOMAIN f = Encoder /\ f.full = e.full
  BY <1>2, <1>4, <1>5, <1>6
<1> QED BY <1>7 DEF f

LEMMA EncodeFull ==
  ASSUME NEW e, NEW c, DOMAIN e = Encoder
  PROVE  /\ DOMAIN EncodeByte(e, c) = Encoder
         /\ e.full = TRUE => EncodeByte(e, c).full = TRUE
         /\ <<e.ent, c>> \notin DOMAIN e.dict /\ ~(Output(e, e.ent).free < Pow2[MaxBits]) =>
              EncodeByte(e, c).full = TRUE
<1> DEFINE key == <<e.ent, c>>
           f == Output(e, e.ent)
           d == [k \in DOMAIN f.dict \cup {key} |-> IF k = key THEN f.free ELSE f.dict[k]]
           u == [f EXCEPT !.dict = d, !.free = @ + 1]
           x == Output(f, Clear)
           v == [ResetDict(x) EXCEPT !.full = TRUE]
           g == EncodeByte(e, c)
<1>1. DOMAIN f = Encoder /\ f.full = e.full
  BY OutputKeeps
<1>2. DOMAIN x = Encoder
  BY <1>1, OutputKeeps, Zenon
<1> HIDE DEF d, x
<1>3. g = IF key \in DOMAIN e.dict THEN [e EXCEPT !.ent = e.dict[key]]
          ELSE [(IF f.free < Pow2[MaxBits] THEN u ELSE v) EXCEPT !.ent = c]
  BY Zenon DEF EncodeByte, d, x
<1> HIDE DEF f, g
<1>4. DOMAIN u = Encoder /\ u.full = e.full
  BY <1>1 DEF Encoder
<1>5. DOMAIN v = Encoder /\ v.full = TRUE
  BY <1>2 DEF ResetDict, Encoder
<1> HIDE DEF u, v, key
<1>6. CASE key \in DOMAIN e.dict
  <2>1. g = [e EXCEPT !.ent = e.dict[key]]
    BY <1>3, <1>6
  <2>2. DOMAIN g = Encoder /\ g.full = e.full
    BY <2>1 DEF Encoder
  <2> QED BY <1>6, <2>2, Zenon DEF g, key
<1>7. CASE key \notin DOMAIN e.dict /\ f.free < Pow2[MaxBits]
  <2>1. g = [u EXCEPT !.ent = c]
    BY <1>3, <1>7
  <2>2. DOMAIN g = Encoder /\ g.full = e.full
    BY <1>4, <2>1 DEF Encoder
  <2> QED BY <1>7, <2>2, Zenon DEF g, f
<1>8. CASE key \notin DOMAIN e.dict /\ ~(f.free < Pow2[MaxBits])
  <2>1. g = [v EXCEPT !.ent = c]
    BY <1>3, <1>8
  <2>2. DOMAIN g = Encoder /\ g.full = TRUE
    BY <1>5, <2>1 DEF Encoder
  <2> QED BY <2>2, Zenon DEF g
<1> QED BY <1>6, <1>7, <1>8, Zenon

(* Each state of the encoder: the table has been full, or the codes so far *)
(* stand for the bytes.                                                    *)
Encoded(e, s, i) ==
  DOMAIN e = Encoder /\ (e.full = TRUE \/ \E C, N, P, S : EncInv(e, s, i, C, N, P, S))

LEMMA EncodeStep ==
  ASSUME NEW e, NEW s, NEW i, Encoded(e, s, i), i < Len(s)
  PROVE  Encoded(EncodeByte(e, s[i + 1]), s, i + 1)
<1> DEFINE c == s[i + 1]
           g == EncodeByte(e, c)
<1>1. /\ DOMAIN e = Encoder /\ DOMAIN g = Encoder
      /\ e.full = TRUE => g.full = TRUE
      /\ <<e.ent, c>> \notin DOMAIN e.dict /\ ~(Output(e, e.ent).free < Pow2[MaxBits]) => g.full = TRUE
  BY EncodeFull, Zenon DEF Encoded
<1>2. CASE e.full = TRUE
  BY <1>1, <1>2, Zenon DEF Encoded
<1>3. ASSUME NEW C, NEW N, NEW P, NEW S, EncInv(e, s, i, C, N, P, S)
      PROVE  Encoded(g, s, i + 1)
  <2>1. CASE <<e.ent, c>> \in DOMAIN e.dict
    <3>1. EncInv(g, s, i + 1, C, N, P, S)
      BY <1>3, <2>1, EncodeFound, Zenon
    <3> QED BY <1>1, <3>1, Zenon DEF Encoded
  <2>2. CASE <<e.ent, c>> \notin DOMAIN e.dict /\ e.free < Pow2[MaxBits]
    <3>1. \E D, M, Q, R : EncInv(g, s, i + 1, D, M, Q, R)
      BY <1>3, <2>2, EncodeNew, Zenon
    <3> QED BY <1>1, <3>1, Zenon DEF Encoded
  <2>3. CASE <<e.ent, c>> \notin DOMAIN e.dict /\ ~(e.free < Pow2[MaxBits])
    <3>1. Output(e, e.ent).free = e.free
      <4>1. e.ent \in 0 .. Pow2[e.nBits] - 1 /\ e.ent # Clear
        BY <1>3, EntFits, Zenon
      <4>2. Written(e, Output(e, e.ent), C, e.ent, N, P)
        BY <1>3, <4>1, CodeWritten, Zenon DEF EncInv
      <4> QED BY <4>2, Zenon DEF Written
    <3>2. g.full = TRUE
      BY <1>1, <2>3, <3>1, Zenon
    <3> QED BY <1>1, <3>2, Zenon DEF Encoded
  <2> QED BY <2>1, <2>2, <2>3, Zenon
<1>4. e.full = TRUE \/ \E C, N, P, S : EncInv(e, s, i, C, N, P, S)
  BY Zenon DEF Encoded
<1>5. CASE \E C, N, P, S : EncInv(e, s, i, C, N, P, S)
  BY <1>3, <1>5, Zenon
<1> QED BY <1>2, <1>4, <1>5, Zenon

(* The codes D, N bits wide each, stand in the bytes z, and stand for the  *)
(* bytes of s between the places S.                                        *)
Holds(b, D, N, P) == \A k \in 1 .. Len(D) : HoldsAt(b, D[k], N[k], Off(N, P, k))
Coded(z, s, D, N, P, S) ==
  LET m == Len(D) IN
  /\ s \in Seq(Byte) /\ z \in Seq(Octet) /\ D \in Seq(Nat) /\ m \in Nat \ {0}
  /\ Grid(N, P, m) /\ Cuts(S, m + 1, Len(s)) /\ S[m + 1] = Len(s)
  /\ Holds(BitsOf(z), D, N, P) /\ CodedBy(D, S, s)
  /\ W * Len(z) < Off(N, P, m) + N[m] + W

(* The bits that wait become bytes, the last one filled up.                *)
LEMMA FlushLast ==
  ASSUME NEW f, Packing(f)
  PROVE  LET z == FlushBlock(f).out IN
         /\ z \in Seq(Octet)
         /\ \E t \in Seq(Bit) : BitsOf(z) = Stream(f) \o t
         /\ W * Len(z) < Len(Stream(f)) + W
<1> DEFINE z == FlushBlock(f).out
           y == Bytes(f.buf)
           b == BitsOf(y)
           n == Len(f.buf)
           t == SubSeq(b, n + 1, Len(b))
           x == SubSeq(b, 0 + 1, n)
<1>1. DOMAIN f = Encoder /\ f.buf \in Seq(Bit) /\ f.out \in Seq(Octet)
  BY DEF Packing
<1>2. z = f.out \o y
  BY <1>1, FlushFields
<1>3. /\ y \in Seq(Octet) /\ W * Len(y) \in n .. n + W - 1 /\ \A i \in 1 .. n : b[i] = f.buf[i]
  BY <1>1, BytesFacts
<1>4. W \in Nat \ {0} /\ n \in Nat
  BY <1>1, CodeAssumption, LenProperties
<1>5. b \in Seq(Bit) /\ Len(b) = W * Len(y)
  BY <1>3, BitsOfAt
<1>6. BitsOf(z) = BitsOf(f.out) \o b /\ z \in Seq(Octet)
  <2>1. z \in Seq(Octet)
    BY <1>1, <1>2, <1>3, ConcatProperties
  <2> QED BY <1>1, <1>2, <1>3, <2>1, BitsOfConcat
<1>7. BitsOf(f.out) \in Seq(Bit)
  BY <1>1, BitsOfAt
<1>8. Len(b) \in n .. n + W - 1 /\ Len(b) \in Nat /\ 0 <= n /\ n <= Len(b)
  <2>1. Len(b) \in n .. n + W - 1
    BY <1>3, <1>5, Zenon
  <2> HIDE DEF b, n
  <2> QED BY <1>4, <2>1
<1> HIDE DEF z, y
<1>9. x = f.buf
  <2>1. x \in Seq(Bit) /\ Len(x) = n - 0 /\ \A i \in 1 .. n - 0 : x[i] = b[0 + i]
    <3> HIDE DEF b, n
    <3> QED BY <1>4, <1>5, <1>8, PieceOf
  <2>2. Len(x) = n /\ \A i \in 1 .. n : x[i] = f.buf[i]
    <3> HIDE DEF b, n, x
    <3>1. n - 0 = n /\ \A i \in 1 .. n : 0 + i = i
      BY <1>4
    <3> QED BY <1>3, <2>1, <3>1
  <2> HIDE DEF b, x
  <2> QED BY <1>1, <2>1, <2>2, SeqEqual DEF n
<1>10. t \in Seq(Bit) /\ Len(t) < W
  <2> HIDE DEF b, n
  <2>1. t \in Seq(Bit) /\ Len(t) = Len(b) - n
    BY <1>4, <1>5, <1>8, PieceOf
  <2> HIDE DEF t
  <2> QED BY <1>4, <1>8, <2>1
<1>11. b = f.buf \o t
  <2>1. SubSeq(b, 0 + 1, n) \o SubSeq(b, n + 1, Len(b)) = SubSeq(b, 0 + 1, Len(b))
    <3> HIDE DEF b, n
    <3>1. 0 \in Nat /\ 0 <= n /\ n <= Len(b) /\ Len(b) <= Len(b)
      BY <1>8
    <3> QED BY <1>4, <1>5, <1>8, <3>1, PieceConcat, Zenon
  <2>2. SubSeq(b, 0 + 1, Len(b)) = b
    <3> HIDE DEF b
    <3> QED BY <1>5, WholePiece
  <2> HIDE DEF b, n
  <2> QED BY <1>9, <2>1, <2>2, Zenon
<1> HIDE DEF t, b, n, x
<1>12. BitsOf(z) = Stream(f) \o t
  <2>1. (BitsOf(f.out) \o f.buf) \o t = BitsOf(f.out) \o (f.buf \o t)
    <3> DEFINE a == BitsOf(f.out)
               c == f.buf
    <3>1. a \in Seq(Bit) /\ c \in Seq(Bit) /\ t \in Seq(Bit)
      BY <1>1, <1>7, <1>10, Zenon
    <3> HIDE DEF a, c
    <3>2. (a \o c) \o t = a \o (c \o t)
      BY <3>1, ConcatAssociative
    <3> QED BY <3>2 DEF a, c
  <2> QED BY <1>6, <1>11, <2>1, Zenon DEF Stream
<1>13. W * Len(z) = Len(Stream(f)) + Len(t) /\ Len(Stream(f)) \in Nat /\ Len(t) \in Nat
  <2>1. Stream(f) \in Seq(Bit)
    BY StreamFacts
  <2>2. Len(BitsOf(z)) = W * Len(z)
    BY <1>6, BitsOfAt
  <2>3. Len(Stream(f) \o t) = Len(Stream(f)) + Len(t)
    BY <1>10, <2>1, ConcatProperties
  <2> QED BY <1>10, <1>12, <2>1, <2>2, <2>3, LenProperties
<1>14. W * Len(z) < Len(Stream(f)) + W
  <2> DEFINE l == W * Len(z)
             q == Len(Stream(f))
             r == Len(t)
  <2>1. l = q + r /\ q \in Nat /\ r \in Nat /\ r < W
    BY <1>10, <1>13
  <2> HIDE DEF l, q, r
  <2>2. l < q + W
    BY <1>4, <2>1
  <2> QED BY <2>2 DEF l, q
<1> QED BY <1>6, <1>10, <1>12, <1>14, Zenon DEF z

LEMMA EncodeLast ==
  ASSUME NEW e, NEW s, NEW C, NEW N, NEW P, NEW S, EncInv(e, s, Len(s), C, N, P, S)
  PROVE  Coded(FlushBlock(Output(e, e.ent)).out, s, Append(C, e.ent), N, P, Append(S, Len(s)))
<1> DEFINE m == Len(C) + 1
           D == Append(C, e.ent)
           R == Append(S, Len(s))
           f == Output(e, e.ent)
           z == FlushBlock(f).out
           i == Len(s)
<1>0. /\ s \in Seq(Byte) /\ C \in Seq(Nat) /\ Cuts(S, m, i) /\ S[m] < i
      /\ CodedBy(C, S, s) /\ Made(e.ent, m - 1) /\ Text(s, S, e.ent) = SubSeq(s, S[m] + 1, i)
  BY Zenon DEF EncInv, TextInv
<1>1. PackInv(e, C, N, P) /\ Grid(N, P, m)
  BY Zenon DEF EncInv, PackInv
<1>2. e.ent \in 0 .. Pow2[e.nBits] - 1 /\ e.ent # Clear
  BY EntFits, Zenon
<1>3. Written(e, f, C, e.ent, N, P)
  BY <1>1, <1>2, CodeWritten, Zenon
<1>4. /\ Packing(f) /\ Len(Stream(f)) = Off(N, P, m) + N[m]
      /\ \A k \in 1 .. m : HoldsAt(Stream(f), D[k], N[k], Off(N, P, k))
  BY <1>3, Zenon DEF Written
<1>5. /\ D \in Seq(Nat) /\ Len(D) = m /\ D[m] = e.ent /\ m \in Nat \ {0} /\ Len(C) = m - 1
      /\ \A k \in 1 .. Len(C) : D[k] = C[k]
  <2>1. e.ent \in Nat
    <3>1. Byte \subseteq Nat
      BY CodeNumbers DEF Byte
    <3> QED BY <1>0, <3>1, Zenon DEF Made
  <2> QED BY <1>0, <2>1, AppendProperties
<1>6. Cuts(R, m + 1, i) /\ R[m + 1] = i /\ Same(R, S, m)
  BY <1>0, CutsLonger, Zenon
<1> HIDE DEF m, D, R, f, i
<1>7. ASSUME NEW k \in 1 .. Len(D)
      PROVE  Made(D[k], k - 1) /\ Text(s, R, D[k]) = SubSeq(s, R[k] + 1, R[k + 1])
  <2>0. k \in Nat \ {0} /\ k \in 1 .. m /\ m \in 1 .. m
    BY <1>5
  <2>1. CASE k = m
    <3>1. R[m] = S[m]
      BY <1>6, <2>0, Zenon DEF Same
    <3>2. Text(s, R, e.ent) = Text(s, S, e.ent)
      BY <1>0, <1>5, <1>6, TextStays
    <3> QED BY <1>0, <1>5, <1>6, <2>1, <3>1, <3>2, Zenon
  <2>2. CASE k # m
    <3>1. k \in 1 .. m - 1 /\ k \in 1 .. Len(C) /\ k + 1 \in 1 .. m
      BY <1>5, <2>0, <2>2
    <3>3. R[k] = S[k] /\ R[k + 1] = S[k + 1]
      BY <1>6, <2>0, <3>1, Zenon DEF Same
    <3>4. Same(R, S, k)
      <4>1. 1 .. k \subseteq 1 .. m
        BY <1>5, <2>0
      <4> QED BY <1>6, <4>1, Zenon DEF Same
    <3>5. Made(C[k], k - 1) /\ Text(s, S, C[k]) = SubSeq(s, S[k] + 1, S[k + 1])
      BY <1>0, <3>1, Zenon DEF CodedBy
    <3>6. Text(s, R, C[k]) = Text(s, S, C[k])
      BY <2>0, <3>4, <3>5, TextStays
    <3> QED BY <1>5, <3>1, <3>3, <3>5, <3>6, Zenon
  <2> QED BY <2>1, <2>2, Zenon
<1>8. /\ z \in Seq(Octet) /\ \E t \in Seq(Bit) : BitsOf(z) = Stream(f) \o t
      /\ W * Len(z) < Len(Stream(f)) + W
  BY <1>4, FlushLast, Zenon
<1> HIDE DEF z
<1>9. ASSUME NEW k \in 1 .. Len(D) PROVE HoldsAt(BitsOf(z), D[k], N[k], Off(N, P, k))
  <2>1. PICK t \in Seq(Bit) : BitsOf(z) = Stream(f) \o t
    BY <1>8, Zenon
  <2>2. HoldsAt(Stream(f), D[k], N[k], Off(N, P, k)) /\ Stream(f) \in Seq(Bit)
    BY <1>4, <1>5, StreamFacts, Zenon
  <2> QED BY <2>1, <2>2, HoldsLonger
<1>10. Coded(z, s, D, N, P, R)
  <2>1. Holds(BitsOf(z), D, N, P) /\ CodedBy(D, R, s)
    BY <1>7, <1>9, Zenon DEF Holds, CodedBy
  <2> QED BY <1>0, <1>1, <1>4, <1>5, <1>6, <1>8, <2>1, Zenon DEF Coded, i
<1> QED BY <1>10 DEF z, D, R, i, f

(* The states of the encoder, one for each byte.                           *)
EncoderRun(f, s, e0, n) ==
  f = [k \in 1 .. n |-> IF k = 1 THEN e0 ELSE EncodeByte(f[k - 1], s[k])]

LEMMA EncoderRuns ==
  ASSUME NEW s, NEW e0, NEW n \in Nat
  PROVE  \E f : EncoderRun(f, s, e0, n)
<1> DEFINE P == {m \in 0 .. n : \E f : EncoderRun(f, s, e0, m)}
<1>1. 0 \in P
  <2> DEFINE f == [k \in 1 .. 0 |-> 0]
  <2>1. EncoderRun(f, s, e0, 0)
    BY DEF EncoderRun
  <2> HIDE DEF f
  <2> QED BY <2>1
<1>2. ASSUME NEW j \in 1 .. n, j - 1 \in P PROVE j \in P
  <2>1. PICK f : EncoderRun(f, s, e0, j - 1)
    BY <1>2
  <2> DEFINE g == [k \in 1 .. j |-> IF k = 1 THEN e0 ELSE IF k = j THEN EncodeByte(f[j - 1], s[j]) ELSE f[k]]
  <2>2. \A k \in 1 .. j - 1 : f[k] = IF k = 1 THEN e0 ELSE EncodeByte(f[k - 1], s[k])
    BY <2>1 DEF EncoderRun
  <2>3. ASSUME NEW k \in 1 .. j PROVE g[k] = IF k = 1 THEN e0 ELSE EncodeByte(g[k - 1], s[k])
    <3>1. CASE k = 1
      BY <3>1
    <3>2. CASE k # 1
      <4>1. k - 1 \in 1 .. j - 1 /\ k - 1 \in 1 .. j /\ k - 1 # j /\ k \in 1 .. j
        BY <3>2
      <4>2. g[k - 1] = f[k - 1]
        <5>1. CASE k - 1 = 1
          <6>1. g[k - 1] = e0 /\ f[k - 1] = e0
            BY <2>2, <4>1, <5>1, Zenon
          <6> QED BY <6>1
        <5>2. CASE k - 1 # 1
          BY <4>1, <5>2
        <5> QED BY <5>1, <5>2
      <4>3. CASE k = j
        <5>1. g[k] = EncodeByte(f[j - 1], s[j])
          BY <3>2, <4>3, Zenon
        <5> QED BY <3>2, <4>2, <4>3, <5>1, Zenon
      <4>4. CASE k # j
        <5>1. g[k] = f[k] /\ k \in 1 .. j - 1
          BY <3>2, <4>1, <4>4
        <5> QED BY <2>2, <3>2, <4>2, <5>1, Zenon
      <4> QED BY <4>3, <4>4
    <3> QED BY <3>1, <3>2
  <2>4. DOMAIN g = 1 .. j /\ g = [k \in 1 .. j |-> g[k]]
    OBVIOUS
  <2> HIDE DEF g
  <2>5. EncoderRun(g, s, e0, j)
    BY <2>3, <2>4, Zenon DEF EncoderRun
  <2> QED BY <2>5
<1> HIDE DEF P
<1>3. n \in P
  BY <1>1, <1>2, UpTo
<1> QED BY <1>3 DEF P

EncoderStart(c) ==
  [dict |-> NoEntries, nBits |-> InitBits, free |-> FirstCode,
   buf |-> <<>>, out |-> <<>>, ent |-> c, full |-> FALSE]

LEMMA EncodeIs ==
  ASSUME NEW s, Len(s) \in Nat
  PROVE  \E f : /\ EncoderRun(f, s, EncoderStart(Head(s)), Len(s))
                /\ Encode(s) = FlushBlock(Output(f[Len(s)], f[Len(s)].ent))
<1> DEFINE e0 == EncoderStart(Head(s))
           f == CHOOSE h : EncoderRun(h, s, e0, Len(s))
<1>1. EncoderRun(f, s, e0, Len(s))
  BY EncoderRuns, Zenon
<1>2. Encode(s) = FlushBlock(Output(f[Len(s)], f[Len(s)].ent))
  BY Zenon DEF Encode, EncoderRun, EncoderStart
<1> QED BY <1>1, <1>2, Zenon

LEMMA EncoderStarts ==
  ASSUME NEW s \in Seq(Byte), s # <<>>
  PROVE  EncInv(EncoderStart(Head(s)), s, 1, <<>>, <<W + 1>>, <<0>>, <<0>>)
<1> DEFINE c == Head(s)
           e == EncoderStart(c)
           N == <<W + 1>>
           P == <<0>>
           C == <<>>
<1>0. W \in Nat \ {0} /\ MaxBits \in Nat /\ MaxBits > W /\ W \in 0 .. MaxBits /\ W + 1 \in 1 .. MaxBits
  BY CodeAssumption
<1>1. Clear \in Nat /\ Clear >= 1 /\ FirstCode = Clear + 1 /\ Clear = Pow2[W]
  BY CodeNumbers DEF Clear
<1>2. WidthAt(W + 1, FirstCode)
  <2>1. Pow2[W + 1] = 2 * Pow2[(W + 1) - 1]
    BY <1>0, Powers
  <2>2. (W + 1) - 1 = W
    BY <1>0
  <2>3. Pow2[W + 1] = 2 * Clear /\ Pow2[(W + 1) - 1] = Clear
    BY <1>1, <2>1, <2>2, Zenon
  <2>4. W + 1 \in W + 1 .. MaxBits /\ FirstCode \in Nat /\ Clear < FirstCode /\ FirstCode <= 2 * Clear
    BY <1>0, <1>1
  <2> QED BY <2>3, <2>4, Zenon DEF WidthAt
<1>3. /\ DOMAIN e = Encoder /\ e.dict = NoEntries /\ e.nBits = W + 1 /\ e.free = FirstCode
      /\ e.buf = <<>> /\ e.out = <<>> /\ e.ent = c
  BY DEF EncoderStart, Encoder, InitBits
<1> HIDE DEF e
<1>4. N \in Seq(Nat) /\ P \in Seq(Nat) /\ Len(N) = 1 /\ Len(P) = 1 /\ N[1] = W + 1 /\ P[1] = 0
  BY <1>0
<1>5. C \in Seq(Nat) /\ Len(C) = 0 /\ C = <<>> /\ C \in Seq(Bit) /\ C \in Seq(Octet)
  OBVIOUS
<1> HIDE DEF N, P, C
<1>6. PackInv(e, C, N, P)
  <2>1. Packing(e)
    BY <1>3, <1>5, Zenon DEF Packing
  <2>2. FirstCode + 1 - 1 = FirstCode /\ 1 .. 1 - 1 = {} /\ Len(C) + 1 = 1 /\ 1 .. 1 = {1} /\ (W + 1) * 0 = 0
    BY <1>0, <1>1, <1>5
  <2>3. Grid(N, P, 1)
    <3>1. ASSUME NEW k \in 1 .. 1 PROVE WidthAt(N[k], FirstCode + k - 1)
      <4>1. k = 1
        OBVIOUS
      <4>2. N[k] = W + 1 /\ FirstCode + k - 1 = FirstCode
        BY <1>1, <1>4, <4>1
      <4> QED BY <1>2, <4>2, Zenon
    <3>2. \A k \in 1 .. 1 - 1 :
            /\ N[k + 1] = IF FirstCode + k - 1 = Pow2[N[k]] THEN N[k] + 1 ELSE N[k]
            /\ P[k + 1] = P[k] + (IF Slot(k + 1) = 0 THEN N[k] ELSE 0)
      BY <2>2, Zenon
    <3> QED BY <1>4, <3>1, <3>2, Zenon DEF Grid
  <2>4. Len(e.buf) = N[1] * Slot(1) /\ Len(e.out) = P[1]
    BY <1>3, <1>4, <1>5, <2>2, Slots, Zenon
  <2>5. \A k \in 1 .. 1 - 1 : HoldsAt(Stream(e), C[k], N[k], Off(N, P, k))
    BY <2>2, Zenon
  <2> QED BY <1>3, <1>4, <1>5, <2>1, <2>2, <2>3, <2>4, <2>5, Zenon DEF PackInv
<1>7. s[1] = c /\ s[1] \in Byte /\ Len(s) \in Nat /\ 1 <= Len(s) /\ 1 \in 1 .. Len(s)
  OBVIOUS
<1>8. Made(c, 0) /\ Text(s, P, c) = SubSeq(s, 0 + 1, 1)
  <2>1. c < Clear
    BY <1>1, <1>7 DEF Byte
  <2>2. Text(s, P, c) = <<c>>
    BY <2>1, Zenon DEF Text
  <2>3. SubSeq(s, 0 + 1, 0) = <<>> /\ Append(SubSeq(s, 0 + 1, 0), s[0 + 1]) = SubSeq(s, 0 + 1, 0 + 1)
    <3>1. 0 \in Nat /\ 0 <= 0 /\ 0 <= Len(s) /\ 0 + 1 <= Len(s)
      BY <1>7
    <3>2. SubSeq(s, 0 + 1, 0) = <<>>
      BY <3>1, EmptyPiece, Zenon
    <3>3. Append(SubSeq(s, 0 + 1, 0), s[0 + 1]) = SubSeq(s, 0 + 1, 0 + 1)
      BY <3>1, PieceAppend, Zenon
    <3> QED BY <3>2, <3>3, Zenon
  <2>4. Append(<<>>, c) = <<c>> /\ 0 + 1 = 1
    OBVIOUS
  <2> QED BY <1>7, <2>2, <2>3, <2>4, Zenon DEF Made
<1>9. TextInv(e, s, 1, C, P)
  <2>1. Len(C) + 1 = 1 /\ 1 .. 1 - 1 = {} /\ 1 .. 0 = {} /\ 1 - 1 = 0 /\ 1 \in Nat \ {0} /\ 0 < 1 /\ 1 \in Nat
    BY <1>5
  <2>2. Cuts(P, 1, 1)
    <3>1. \A k \in 1 .. 1 : P[k] <= 1
      BY <1>4
    <3> QED BY <1>4, <2>1, <3>1, Zenon DEF Cuts
  <2>3. CodedBy(C, P, s)
    BY <1>5, <2>1, Zenon DEF CodedBy
  <2>4. DOMAIN e.dict = {}
    BY <1>3 DEF NoEntries
  <2>5. DictInv(e.dict, s, P, 1)
    BY <2>4, Zenon DEF DictInv
  <2> QED BY <1>3, <1>4, <1>5, <1>7, <1>8, <2>1, <2>2, <2>3, <2>5, Zenon DEF TextInv
<1> QED BY <1>6, <1>9, Zenon DEF EncInv, e, N, P, C

(* What compress makes of a file that does not fill the table.             *)
LEMMA EncodeTells ==
  ASSUME NEW s \in Seq(Byte), s # <<>>, ~Clears(s)
  PROVE  \E D, N, P, S : Coded(Encode(s).out, s, D, N, P, S)
<1> DEFINE n == Len(s)
           e0 == EncoderStart(Head(s))
<1>1. n \in Nat \ {0}
  OBVIOUS
<1>2. PICK f : EncoderRun(f, s, e0, n) /\ Encode(s) = FlushBlock(Output(f[n], f[n].ent))
  BY <1>1, EncodeIs
<1> DEFINE e == f[n]
           P == {i \in 0 .. n - 1 : Encoded(f[i + 1], s, i + 1)}
<1>3. EncInv(e0, s, 1, <<>>, <<W + 1>>, <<0>>, <<0>>) /\ DOMAIN e0 = Encoder
  BY EncoderStarts DEF EncoderStart, Encoder
<1> HIDE DEF n, e0
<1>4. \A k \in 1 .. n : f[k] = IF k = 1 THEN e0 ELSE EncodeByte(f[k - 1], s[k])
  BY <1>2 DEF EncoderRun
<1>5. 0 \in P
  <2>1. f[1] = e0 /\ 0 \in 0 .. n - 1 /\ 0 + 1 = 1
    BY <1>1, <1>4
  <2>2. Encoded(e0, s, 1)
    BY <1>3, Zenon DEF Encoded
  <2> QED BY <2>1, <2>2, Zenon
<1>6. ASSUME NEW j \in 1 .. n - 1, j - 1 \in P PROVE j \in P
  <2>1. Encoded(f[(j - 1) + 1], s, (j - 1) + 1)
    BY <1>6, Zenon
  <2>2. (j - 1) + 1 = j /\ j + 1 \in 1 .. n /\ j + 1 # 1 /\ (j + 1) - 1 = j /\ j \in 0 .. n - 1 /\ j < n
    BY <1>1
  <2>3. Encoded(f[j], s, j)
    BY <2>1, <2>2, Zenon
  <2>4. f[j + 1] = EncodeByte(f[j], s[j + 1])
    BY <1>4, <2>2, Zenon
  <2>5. Encoded(EncodeByte(f[j], s[j + 1]), s, j + 1)
    BY <2>2, <2>3, EncodeStep, Zenon DEF n
  <2> QED BY <2>2, <2>4, <2>5, Zenon
<1> HIDE DEF P
<1>7. n - 1 \in P
  <2>1. n - 1 \in Nat /\ n - 1 \in 0 .. n - 1
    BY <1>1
  <2>2. 0 .. n - 1 \subseteq P
    BY <1>5, <1>6, <2>1, UpTo
  <2> QED BY <2>1, <2>2, Zenon
<1>8. Encoded(e, s, n)
  <2>1. (n - 1) + 1 = n
    BY <1>1
  <2> QED BY <1>7, <2>1, Zenon DEF P
<1>9. DOMAIN e = Encoder /\ e.full # TRUE
  <2>1. DOMAIN e = Encoder
    BY <1>8, Zenon DEF Encoded
  <2>2. DOMAIN Output(e, e.ent) = Encoder /\ Output(e, e.ent).full = e.full
    BY <2>1, OutputKeeps, Zenon
  <2>3. FlushBlock(Output(e, e.ent)).full = e.full
    BY <2>2, FlushFields, Zenon
  <2>4. ~Encode(s).full
    BY Zenon DEF Clears
  <2> QED BY <1>2, <2>1, <2>3, <2>4, Zenon
<1>10. PICK C, N, Q, S : EncInv(e, s, n, C, N, Q, S)
  BY <1>8, <1>9, Zenon DEF Encoded
<1>11. Coded(FlushBlock(Output(e, e.ent)).out, s, Append(C, e.ent), N, Q, Append(S, n))
  BY <1>10, EncodeLast, Zenon DEF n
<1> QED BY <1>2, <1>11, Zenon

-----------------------------------------------------------------------------
(* The codec of compress: what the decoder reads. *)

(* The decoder has taken a code of n bits off these, and in is left.       *)
Read(d, f, n, in, bits) ==
  /\ DOMAIN f = Decoder /\ f.nBits = n /\ f.in = in
  /\ f.buf = SubSeq(bits, n + 1, Len(bits))
  /\ f.code = IF Len(bits) >= n THEN Number(SubSeq(bits, 1, n)) ELSE NoCode
  /\ f.free = d.free /\ f.prev = d.prev /\ f.table = d.table /\ f.out = d.out /\ f.state = d.state

LEMMA ReadFields ==
  ASSUME NEW d, DOMAIN d = Decoder, NEW n, NEW in, NEW bits, NEW f,
         f = [d EXCEPT !.nBits = n, !.in = in, !.buf = SubSeq(bits, n + 1, Len(bits)),
                       !.code = IF Len(bits) >= n THEN Number(SubSeq(bits, 1, n)) ELSE NoCode]
  PROVE  Read(d, f, n, in, bits)
<1> DEFINE v == SubSeq(bits, n + 1, Len(bits))
           c == IF Len(bits) >= n THEN Number(SubSeq(bits, 1, n)) ELSE NoCode
<1>1. f = [d EXCEPT !.nBits = n, !.in = in, !.buf = v, !.code = c]
  OBVIOUS
<1> HIDE DEF v, c
<1>2. /\ DOMAIN f = Decoder /\ f.nBits = n /\ f.in = in /\ f.buf = v /\ f.code = c
      /\ f.free = d.free /\ f.prev = d.prev /\ f.table = d.table /\ f.out = d.out /\ f.state = d.state
  BY <1>1 DEF Decoder
<1> QED BY <1>2, Zenon DEF Read, v, c

(* It reads a block when the last one is used up or the codes have grown.  *)
Outgrown(d)  == d.free > MaxCode(d.nBits)
NextWidth(d) == IF Outgrown(d) /\ d.nBits < MaxBits THEN d.nBits + 1 ELSE d.nBits

LEMMA ReadFresh ==
  ASSUME NEW d, DOMAIN d = Decoder, d.buf = <<>> \/ Outgrown(d),
         NEW n, n = NextWidth(d),
         NEW l, l = IF n <= Len(d.in) THEN n ELSE Len(d.in)
  PROVE  Read(d, ReadCode(d), n, SubSeq(d.in, n + 1, Len(d.in)), BitsOf(SubSeq(d.in, 1, l)))
<1> DEFINE bits == BitsOf(SubSeq(d.in, 1, l))
           in == SubSeq(d.in, n + 1, Len(d.in))
<1>1. ReadCode(d) =
        [d EXCEPT !.nBits = n, !.in = in, !.buf = SubSeq(bits, n + 1, Len(bits)),
                  !.code = IF Len(bits) >= n THEN Number(SubSeq(bits, 1, n)) ELSE NoCode]
  BY DEF ReadCode, Outgrown, NextWidth
<1> QED BY <1>1, ReadFields

LEMMA ReadWaiting ==
  ASSUME NEW d, DOMAIN d = Decoder, d.buf # <<>>, ~Outgrown(d)
  PROVE  Read(d, ReadCode(d), d.nBits, d.in, d.buf)
<1>1. ReadCode(d) =
        [d EXCEPT !.nBits = d.nBits, !.in = d.in, !.buf = SubSeq(d.buf, d.nBits + 1, Len(d.buf)),
                  !.code = IF Len(d.buf) >= d.nBits THEN Number(SubSeq(d.buf, 1, d.nBits)) ELSE NoCode]
  BY DEF ReadCode, Outgrown, NextWidth
<1> QED BY <1>1, ReadFields

(* The code at a place comes off the bits from there on.                   *)
Taken(b, c, n, o, l, bits) ==
  /\ Len(bits) >= n /\ bits # <<>> /\ Number(SubSeq(bits, 1, n)) = c
  /\ SubSeq(bits, n + 1, Len(bits)) = SubSeq(b, (o + n) + 1, l)

LEMMA TakeCode ==
  ASSUME NEW b \in Seq(Bit), NEW c, NEW n, NEW o, HoldsAt(b, c, n, o),
         NEW l \in Nat, o + n <= l, l <= Len(b), NEW bits, bits = SubSeq(b, o + 1, l)
  PROVE  Taken(b, c, n, o, l, bits)
<1>0. c \in 0 .. Pow2[n] - 1 /\ n \in 1 .. MaxBits /\ o \in Nat /\ SubSeq(b, o + 1, o + n) = Bits(c, n)
  BY DEF HoldsAt
<1>1. n \in Nat /\ n >= 1 /\ MaxBits \in Nat
  BY <1>0, CodeAssumption
<1>2. bits \in Seq(Bit) /\ Len(bits) = l - o
  <2>1. o <= l
    BY <1>0, <1>1
  <2>2. SubSeq(b, o + 1, l) \in Seq(Bit) /\ Len(SubSeq(b, o + 1, l)) = l - o
    BY <1>0, <2>1, PieceOf
  <2> QED BY <2>2, Zenon
<1>3. Len(bits) >= n /\ bits # <<>>
  <2> DEFINE k == Len(bits)
  <2>1. k = l - o /\ o \in Nat /\ n \in Nat /\ n >= 1
    BY <1>0, <1>1, <1>2
  <2> HIDE DEF k
  <2>2. k >= n /\ k # 0
    BY <2>1
  <2>3. bits = <<>> => k = 0
    BY DEF k
  <2> QED BY <2>2, <2>3, Zenon DEF k
<1>4. SubSeq(bits, 0 + 1, n) = SubSeq(b, (o + 0) + 1, o + n)
  <2>1. 0 \in Nat /\ 0 <= n /\ n <= l - o /\ o <= l
    BY <1>0, <1>1
  <2> QED BY <1>0, <1>1, <2>1, PieceOfPiece
<1>5. 0 + 1 = 1 /\ o + 0 = o
  BY <1>0
<1>6. SubSeq(bits, 1, n) = Bits(c, n)
  BY <1>0, <1>4, <1>5, Zenon
<1>7. Number(SubSeq(bits, 1, n)) = c
  BY <1>0, <1>6, NumberOfBits, Zenon
<1>8. SubSeq(bits, n + 1, Len(bits)) = SubSeq(b, (o + n) + 1, l)
  <2> DEFINE k == l - o
  <2>1. n <= k /\ k <= l - o /\ o <= l /\ k \in Nat /\ o + k = l
    BY <1>0, <1>1
  <2> HIDE DEF k
  <2>2. SubSeq(bits, n + 1, k) = SubSeq(b, (o + n) + 1, o + k)
    BY <1>0, <1>1, <2>1, PieceOfPiece
  <2> QED BY <1>2, <2>1, <2>2 DEF k
<1> QED BY <1>3, <1>7, <1>8, Zenon DEF Taken

LEMMA Scaling ==
  ASSUME NEW w \in Nat \ {0}, NEW p \in Nat, NEW n \in Nat
  PROVE  /\ w * (p + n) = w * p + w * n /\ w * n >= n
         /\ w * p \in Nat /\ w * n \in Nat /\ (p <= n => w * p <= w * n)
<1>1. w * (p + n) = w * p + w * n /\ w * p \in Nat /\ w * n \in Nat
  OBVIOUS
<1>2. w * n >= n
  <2> DEFINE u == w - 1
  <2>1. u \in Nat /\ w = u + 1
    OBVIOUS
  <2> HIDE DEF u
  <2>2. (u + 1) * n = u * n + n /\ u * n \in Nat
    BY <2>1
  <2> QED BY <2>1, <2>2
<1>3. p <= n => w * p <= w * n
  <2> SUFFICES ASSUME p <= n PROVE w * p <= w * n
    OBVIOUS
  <2> DEFINE q == n - p
  <2>1. q \in Nat /\ n = p + q
    OBVIOUS
  <2> HIDE DEF q
  <2>2. w * (p + q) = w * p + w * q /\ w * q \in Nat
    BY <2>1
  <2> QED BY <1>1, <2>1, <2>2
<1> QED BY <1>1, <1>2, <1>3

(* How much of z has been read when the k-th code has.                     *)
Least2(x, y) == IF x <= y THEN x ELSE y
ReadUpTo(z, N, P, k) == Least2(P[k] + N[k], Len(z))

(* The k-th code has been read.                                            *)
HasRead(f, z, N, P, k) ==
  LET a == ReadUpTo(z, N, P, k) IN
  /\ f.nBits = N[k] /\ f.in = SubSeq(z, a + 1, Len(z))
  /\ f.buf = SubSeq(BitsOf(z), (Off(N, P, k) + N[k]) + 1, W * a)

(* What is left when n more bytes have been read.                          *)
LeftBy(z, p, n, a, in) == SubSeq(in, n + 1, Len(in)) = SubSeq(z, a + 1, Len(z))
LEMMA RestOf ==
  ASSUME NEW T, NEW z \in Seq(T), NEW p \in Nat, p <= Len(z), NEW n \in Nat,
         NEW a, a = Least2(p + n, Len(z)), NEW in, in = SubSeq(z, p + 1, Len(z))
  PROVE  LeftBy(z, p, n, a, in)
<1> DEFINE k == Len(in)
<1>0. Len(z) \in Nat /\ Len(z) <= Len(z)
  OBVIOUS
<1>1. SubSeq(z, p + 1, Len(z)) \in Seq(T) /\ Len(SubSeq(z, p + 1, Len(z))) = Len(z) - p
  BY <1>0, PieceOf
<1>2. in \in Seq(T) /\ k = Len(z) - p
  BY <1>1, Zenon
<1>3. k \in Nat /\ k <= Len(z) - p /\ p + k = Len(z) /\ (n <= k => a = p + n) /\ (~(n <= k) => a = Len(z))
  <2> HIDE DEF k
  <2> QED BY <1>0, <1>2 DEF Least2
<1> HIDE DEF k
<1>4. CASE n <= k
  <2>1. SubSeq(in, n + 1, k) = SubSeq(z, (p + n) + 1, p + k)
    BY <1>0, <1>3, <1>4, PieceOfPiece
  <2> QED BY <1>3, <1>4, <2>1, Zenon DEF k, LeftBy
<1>5. CASE ~(n <= k)
  <2>1. n \in Nat /\ n >= k /\ a = Len(z) /\ a >= Len(z) /\ a \in Nat
    BY <1>0, <1>3, <1>5
  <2>2. SubSeq(in, n + 1, Len(in)) = <<>>
    BY <1>2, <2>1, PieceBeyond, Zenon DEF k
  <2>3. SubSeq(z, a + 1, Len(z)) = <<>>
    BY <2>1, PieceBeyond, Zenon
  <2> QED BY <2>2, <2>3, Zenon DEF LeftBy
<1> QED BY <1>4, <1>5

(* A block that begins at byte p is read.                                  *)
BlockRead(d, f, z, p, c, n, a) ==
  /\ DOMAIN f = Decoder /\ f.nBits = n /\ f.in = SubSeq(z, a + 1, Len(z))
  /\ f.buf = SubSeq(BitsOf(z), (W * p + n) + 1, W * a) /\ f.code = c
  /\ f.free = d.free /\ f.prev = d.prev /\ f.table = d.table /\ f.out = d.out /\ f.state = d.state

LEMMA ReadBlock ==
  ASSUME NEW z \in Seq(Octet), NEW p \in Nat, p <= Len(z), NEW c, NEW n, HoldsAt(BitsOf(z), c, n, W * p),
         NEW a, a = Least2(p + n, Len(z)),
         NEW d, DOMAIN d = Decoder, d.buf = <<>> \/ Outgrown(d), d.in = SubSeq(z, p + 1, Len(z)),
         n = NextWidth(d)
  PROVE  BlockRead(d, ReadCode(d), z, p, c, n, a)
<1> DEFINE in == d.in
           l == IF n <= Len(in) THEN n ELSE Len(in)
           b == BitsOf(z)
           bits == BitsOf(SubSeq(in, 1, l))
           f == ReadCode(d)
<1>0. n \in 1 .. MaxBits /\ W * p + n <= Len(b) /\ W \in Nat \ {0} /\ MaxBits \in Nat /\ Len(z) \in Nat
  BY CodeAssumption, LenProperties DEF HoldsAt
<1>1. in \in Seq(Octet) /\ Len(in) = Len(z) - p
  <2>1. Len(z) <= Len(z)
    BY <1>0
  <2> QED BY <1>0, <2>1, PieceOf
<1>2. b \in Seq(Bit) /\ Len(b) = W * Len(z)
  BY BitsOfAt
<1>3. Read(d, f, n, SubSeq(in, n + 1, Len(in)), bits)
  BY ReadFresh, Zenon
<1>4. l \in Nat /\ 0 <= l /\ l <= Len(z) - p /\ p + l = a /\ a \in Nat /\ p <= a /\ a <= Len(z)
  <2> DEFINE k == Len(in)
             q == Len(z)
  <2>1. k = q - p /\ q \in Nat /\ n \in Nat /\ p <= q /\ a = Least2(p + n, q)
    BY <1>0, <1>1
  <2> HIDE DEF k, q
  <2>2. LET h == IF n <= k THEN n ELSE k
        IN  h \in Nat /\ 0 <= h /\ h <= q - p /\ p + h = a /\ a \in Nat /\ p <= a /\ a <= q
    BY <2>1 DEF Least2
  <2> QED BY <2>2 DEF k, q
<1> HIDE DEF in, l, b, f
<1>5. SubSeq(in, 1, l) = SubSeq(z, p + 1, a)
  <2>1. SubSeq(in, 0 + 1, l) = SubSeq(z, (p + 0) + 1, p + l)
    <3>1. in = SubSeq(z, p + 1, Len(z))
      BY DEF in
    <3>2. 0 \in Nat /\ Len(z) <= Len(z) /\ Len(z) \in Nat
      BY <1>0
    <3>3. 0 <= l /\ p <= Len(z) /\ l <= Len(z) - p
      BY <1>4
    <3> QED BY <1>4, <3>1, <3>2, <3>3, PieceOfPiece
  <2>2. p + 0 = p /\ 0 + 1 = 1
    OBVIOUS
  <2> QED BY <1>4, <2>1, <2>2, Zenon
<1>6. bits = SubSeq(b, W * p + 1, W * a)
  <2>1. BitsOf(SubSeq(z, p + 1, a)) = SubSeq(BitsOf(z), W * p + 1, W * a)
    BY <1>4, BitsOfSub, Zenon
  <2> QED BY <1>5, <2>1, Zenon DEF b
<1>7. W * p + n <= W * a /\ W * a <= Len(b) /\ W * a \in Nat
  <2>1. CASE p + n <= Len(z)
    <3>1. a = p + n
      BY <2>1 DEF Least2
    <3>2. W * (p + n) = W * p + W * n /\ W * n >= n /\ W * p \in Nat /\ W * n \in Nat /\ n \in Nat
      <4>1. n \in Nat
        BY <1>0
      <4> QED BY <1>0, <4>1, Scaling
    <3>3. W * a <= W * Len(z) /\ W * a \in Nat
      BY <1>0, <1>4, Scaling
    <3> DEFINE x == W * p
               y == W * n
               t == W * a
    <3>4. t = x + y /\ y >= n /\ x \in Nat /\ y \in Nat /\ n \in Nat /\ t \in Nat
      BY <3>1, <3>2, <3>3
    <3>5. t <= Len(b)
      BY <1>2, <3>3
    <3> HIDE DEF x, y, t, b
    <3>6. x + n <= t
      BY <3>4
    <3> QED BY <3>4, <3>5, <3>6 DEF x, t
  <2>2. CASE ~(p + n <= Len(z))
    <3>1. a = Len(z)
      BY <2>2 DEF Least2
    <3>2. W * a = Len(b)
      BY <1>2, <3>1, Zenon
    <3>3. W * a \in Nat
      BY <1>0, <1>4, Scaling
    <3> DEFINE o == W * p + n
               t == W * a
    <3>4. o <= Len(b) /\ t = Len(b) /\ t \in Nat
      BY <1>0, <3>2, <3>3, Zenon
    <3> HIDE DEF o, t, b
    <3>5. o <= t /\ t <= Len(b)
      BY <3>4
    <3> QED BY <3>4, <3>5, Zenon DEF o, t
  <2> QED BY <2>1, <2>2
<1> HIDE DEF bits
<1>8. /\ Len(bits) >= n /\ Number(SubSeq(bits, 1, n)) = c
      /\ SubSeq(bits, n + 1, Len(bits)) = SubSeq(b, (W * p + n) + 1, W * a)
  <2>1. HoldsAt(b, c, n, W * p)
    BY DEF b
  <2> DEFINE o == W * p
             k == W * a
  <2>2. /\ b \in Seq(Bit) /\ HoldsAt(b, c, n, o) /\ k \in Nat /\ o + n <= k /\ k <= Len(b)
        /\ bits = SubSeq(b, o + 1, k)
    BY <1>2, <1>6, <1>7, <2>1, Zenon
  <2> HIDE DEF o, k
  <2>3. Taken(b, c, n, o, k, bits)
    BY <2>2, TakeCode, Zenon
  <2> QED BY <2>3, Zenon DEF Taken, o, k
<1>9. SubSeq(in, n + 1, Len(in)) = SubSeq(z, a + 1, Len(z))
  <2>1. n \in Nat /\ in = SubSeq(z, p + 1, Len(z))
    BY <1>0 DEF in
  <2>2. LeftBy(z, p, n, a, in)
    BY <2>1, RestOf, Zenon
  <2> QED BY <2>2, Zenon DEF LeftBy
<1>10. /\ DOMAIN f = Decoder /\ f.nBits = n /\ f.in = SubSeq(in, n + 1, Len(in))
       /\ f.buf = SubSeq(bits, n + 1, Len(bits))
       /\ f.code = (IF Len(bits) >= n THEN Number(SubSeq(bits, 1, n)) ELSE NoCode)
       /\ f.free = d.free /\ f.prev = d.prev /\ f.table = d.table /\ f.out = d.out /\ f.state = d.state
  BY <1>3, Zenon DEF Read
<1>11. f.code = c
  BY <1>8, <1>10, Zenon
<1> QED BY <1>8, <1>9, <1>10, <1>11, Zenon DEF BlockRead, f, b

LEMMA Unscale ==
  ASSUME NEW w \in Nat \ {0}, NEW p \in Nat, NEW n \in Nat, w * p < w * n + w
  PROVE  p <= n
<1> SUFFICES ASSUME ~(p <= n) PROVE FALSE
  OBVIOUS
<1> DEFINE k == n + 1
<1>1. k \in Nat /\ k <= p
  OBVIOUS
<1>2. w * k = w * n + w /\ w * n \in Nat
  OBVIOUS
<1> HIDE DEF k
<1>3. w * k <= w * p
  BY <1>1, Scaling
<1>4. w * k \in Nat /\ w * p \in Nat
  BY <1>1, Scaling
<1> DEFINE x == w * k
           y == w * p
           t == w * n
<1>5. x = t + w /\ x <= y /\ x \in Nat /\ y \in Nat /\ t \in Nat /\ y < t + w
  BY <1>2, <1>3, <1>4
<1> HIDE DEF x, y, t
<1> QED BY <1>5

(* Where the k-th code is.                                                 *)
Place(N, P, k) ==
  /\ N[k] \in 1 .. MaxBits /\ N[k] \in Nat /\ N[k] > W /\ P[k] \in Nat
  /\ Slot(k) \in 0 .. W - 1 /\ Slot(k + 1) \in 0 .. W - 1
  /\ Off(N, P, k) \in Nat /\ W * (P[k] + N[k]) \in Nat
  /\ Slot(k) = 0 => Off(N, P, k) = W * P[k]
  /\ Slot(k + 1) = 0 => Off(N, P, k) + N[k] = W * (P[k] + N[k])
  /\ Slot(k + 1) # 0 => Off(N, P, k) + N[k] < W * (P[k] + N[k])

LEMMA Places ==
  ASSUME NEW N, NEW P, NEW m \in Nat, Grid(N, P, m), NEW k \in 1 .. m
  PROVE  Place(N, P, k) /\ WidthAt(N[k], FirstCode + k - 1)
<1> DEFINE n == N[k]
           p == P[k]
           r == Slot(k)
<1>1. WidthAt(n, FirstCode + k - 1) /\ p \in Nat
  <2>1. P \in Seq(Nat) /\ Len(P) = m
    BY Zenon DEF Grid
  <2>2. WidthAt(n, FirstCode + k - 1)
    BY Zenon DEF Grid
  <2> QED BY <2>1, <2>2
<1>2. W \in Nat \ {0} /\ n \in Nat \ {0} /\ n \in 1 .. MaxBits /\ n > W
  BY <1>1, CodeAssumption, WidthFacts DEF WidthAt
<1>3. k \in Nat \ {0}
  OBVIOUS
<1>4. r \in 0 .. W - 1 /\ Slot(k + 1) = (IF r = W - 1 THEN 0 ELSE r + 1)
  BY <1>3, Slots, Zenon
<1> HIDE DEF n, p, r
<1>5. n * r \in Nat /\ n * (r + 1) = n * r + n /\ (n * r + n = W * n <=> r = W - 1)
  BY <1>2, <1>4, Products
<1>6. W * (p + n) = W * p + W * n /\ W * p \in Nat /\ W * n \in Nat
  BY <1>1, <1>2, Scaling
<1>7. n * r + n <= W * n
  <2> DEFINE q == r + 1
  <2>1. q \in Nat /\ W \in Nat /\ q <= W
    BY <1>2, <1>4
  <2> HIDE DEF q
  <2>2. n * q <= n * W
    BY <1>2, <2>1, Scaling
  <2>3. n * W = W * n
    BY <1>2
  <2> QED BY <1>5, <2>2, <2>3 DEF q
<1>8. r = 0 => n * r = 0
  BY <1>2
<1>9. Slot(k + 1) \in 0 .. W - 1 /\ (Slot(k + 1) = 0 <=> r = W - 1)
  BY <1>2, <1>4
<1> DEFINE x == n * r
           y == W * n
           t == W * p
           u == W * (p + n)
<1>10. /\ x \in Nat /\ y \in Nat /\ t \in Nat /\ u = t + y /\ x + n <= y /\ (x + n = y <=> Slot(k + 1) = 0)
       /\ (r = 0 => x = 0) /\ n \in Nat
  BY <1>2, <1>5, <1>6, <1>7, <1>8, <1>9
<1> HIDE DEF x, y, t, u
<1>11. /\ t + x \in Nat /\ u \in Nat /\ (r = 0 => t + x = t)
       /\ (Slot(k + 1) = 0 => (t + x) + n = u) /\ (Slot(k + 1) # 0 => (t + x) + n < u)
  BY <1>10
<1>12. Off(N, P, k) = t + x
  BY Zenon DEF Off, n, p, r, t, x
<1> QED BY <1>1, <1>2, <1>4, <1>9, <1>10, <1>11, <1>12, Zenon DEF Place, n, p, r, u, t

(* The next one begins where it ends.                                      *)
NextPlace(N, P, k) ==
  /\ Slot(k + 1) = 0 => P[k + 1] = P[k] + N[k]
  /\ Slot(k + 1) # 0 => N[k + 1] = N[k] /\ P[k + 1] = P[k]
  /\ Off(N, P, k + 1) = Off(N, P, k) + N[k]
  /\ N[k + 1] = IF FirstCode + k - 1 = Pow2[N[k]] THEN N[k] + 1 ELSE N[k]
  /\ FirstCode + k - 1 = Pow2[N[k]] => Slot(k + 1) = 0

LEMMA GrownAtEnd ==
  ASSUME NEW n, NEW k \in Nat \ {0}, WidthAt(n, FirstCode + k - 1), FirstCode + k - 1 = Pow2[n]
  PROVE  Slot(k + 1) = 0
<1>1. Pow2[n] % W = 0
  BY WidthFacts
<1>2. (FirstCode + k - 1) % W = Slot(k + 1)
  BY Slots, Zenon
<1> QED BY <1>1, <1>2, Zenon

LEMMA NextPlaces ==
  ASSUME NEW N, NEW P, NEW m \in Nat, Grid(N, P, m), NEW k \in 1 .. m - 1
  PROVE  NextPlace(N, P, k)
<1>1. k \in Nat \ {0} /\ k \in 1 .. m /\ k + 1 \in 1 .. m
  OBVIOUS
<1>2. Place(N, P, k) /\ WidthAt(N[k], FirstCode + k - 1) /\ Place(N, P, k + 1)
  BY <1>1, Places, Zenon
<1>3. /\ N[k + 1] = IF FirstCode + k - 1 = Pow2[N[k]] THEN N[k] + 1 ELSE N[k]
      /\ P[k + 1] = P[k] + (IF Slot(k + 1) = 0 THEN N[k] ELSE 0)
  BY Zenon DEF Grid
<1>4. FirstCode + k - 1 = Pow2[N[k]] => Slot(k + 1) = 0
  BY <1>1, <1>2, GrownAtEnd, Zenon
<1>5. P[k] \in Nat /\ P[k] + 0 = P[k]
  BY <1>2 DEF Place
<1>6. Slot(k + 1) # 0 => N[k + 1] = N[k] /\ P[k + 1] = P[k]
  BY <1>3, <1>4, <1>5, Zenon
<1>7. Slot(k + 1) = 0 => P[k + 1] = P[k] + N[k]
  BY <1>3, Zenon
<1>8. CASE Slot(k + 1) = 0
  <2>1. Off(N, P, k + 1) = W * P[k + 1] /\ Off(N, P, k) + N[k] = W * (P[k] + N[k])
    BY <1>2, <1>8, Zenon DEF Place
  <2> QED BY <1>3, <1>4, <1>6, <1>7, <1>8, <2>1, Zenon DEF NextPlace
<1>9. CASE Slot(k + 1) # 0
  <2>1. Slot(k + 1) = Slot(k) + 1
    BY <1>1, <1>9, Slots, Zenon
  <2> DEFINE n == N[k]
             r == Slot(k)
             t == W * P[k]
             x == n * r
  <2>2. n \in Nat \ {0} /\ r \in 0 .. W - 1 /\ W \in Nat \ {0} /\ t \in Nat
    <3>1. W \in Nat \ {0}
      BY CodeAssumption
    <3>2. n \in Nat \ {0} /\ r \in 0 .. W - 1 /\ P[k] \in Nat
      BY <1>2, <3>1 DEF Place
    <3> HIDE DEF n, r
    <3> QED BY <3>1, <3>2
  <2> HIDE DEF n, r, t
  <2>3. n * (r + 1) = x + n /\ x \in Nat
    BY <2>2, Products
  <2> HIDE DEF x
  <2>4. t + (x + n) = (t + x) + n
    BY <2>2, <2>3
  <2>5. Off(N, P, k + 1) = t + n * (r + 1) /\ Off(N, P, k) = t + x
    BY <1>6, <1>9, <2>1, Zenon DEF Off, n, r, t, x
  <2>6. Off(N, P, k + 1) = Off(N, P, k) + N[k]
    BY <2>3, <2>4, <2>5, Zenon DEF n
  <2> QED BY <1>3, <1>4, <1>6, <1>7, <2>6, Zenon DEF NextPlace
<1> QED BY <1>8, <1>9

(* What has been read holds the code.                                      *)
LEMMA ReadEnough ==
  ASSUME NEW z \in Seq(Octet), NEW N, NEW P, NEW k, Place(N, P, k),
         NEW c, HoldsAt(BitsOf(z), c, N[k], Off(N, P, k))
  PROVE  LET a == ReadUpTo(z, N, P, k) IN
         /\ a \in Nat /\ a <= Len(z) /\ a <= P[k] + N[k] /\ W * a \in Nat /\ W * a <= Len(BitsOf(z))
         /\ Off(N, P, k) + N[k] <= W * a
<1> DEFINE a == ReadUpTo(z, N, P, k)
           p == P[k] + N[k]
           o == Off(N, P, k) + N[k]
<1>1. W \in Nat \ {0} /\ p \in Nat /\ Len(z) \in Nat
  BY CodeAssumption, LenProperties DEF Place
<1>2. Len(BitsOf(z)) = W * Len(z)
  BY BitsOfAt
<1>3. o <= Len(BitsOf(z))
  BY Zenon DEF HoldsAt
<1>4. o <= W * p
  <2>1. Off(N, P, k) \in Nat /\ N[k] \in Nat /\ W * p \in Nat
    BY DEF Place
  <2>2. o = W * p \/ o < W * p
    BY Zenon DEF Place
  <2> HIDE DEF p
  <2> QED BY <2>1, <2>2
<1>5. a = Least2(p, Len(z))
  BY DEF ReadUpTo
<1> HIDE DEF a, p, o
<1>6. a \in Nat /\ a <= Len(z) /\ a <= p /\ (a = p \/ a = Len(z))
  BY <1>1, <1>5 DEF Least2
<1>7. W * a \in Nat /\ W * a <= W * Len(z)
  BY <1>1, <1>6, Scaling
<1>8. W * a \in Nat /\ W * a <= Len(BitsOf(z)) /\ o <= W * a
  BY <1>2, <1>3, <1>4, <1>6, <1>7, Zenon
<1> QED BY <1>6, <1>8, Zenon DEF a, p, o

(* The decoder is about to read the k-th code.                             *)
Awaits(d, z, N, P, k) ==
  /\ DOMAIN d = Decoder /\ NextWidth(d) = N[k]
  /\ Slot(k) = 0 => /\ d.buf = <<>> \/ Outgrown(d)
                    /\ d.in = SubSeq(z, P[k] + 1, Len(z))
  /\ Slot(k) # 0 => /\ ~Outgrown(d) /\ d.nBits = N[k]
                    /\ d.in = SubSeq(z, ReadUpTo(z, N, P, k) + 1, Len(z))
                    /\ d.buf = SubSeq(BitsOf(z), Off(N, P, k) + 1, W * ReadUpTo(z, N, P, k))

Retained(d, f) ==
  /\ DOMAIN f = Decoder /\ f.free = d.free /\ f.prev = d.prev /\ f.table = d.table
  /\ f.out = d.out /\ f.state = d.state

CodeRead(d, f, z, N, P, k, c) == HasRead(f, z, N, P, k) /\ Retained(d, f) /\ f.code = c

LEMMA ReadIt ==
  ASSUME NEW z \in Seq(Octet), NEW N, NEW P, NEW k, Place(N, P, k),
         NEW c, HoldsAt(BitsOf(z), c, N[k], Off(N, P, k)), NEW d, Awaits(d, z, N, P, k)
  PROVE  CodeRead(d, ReadCode(d), z, N, P, k, c)
<1> DEFINE a == ReadUpTo(z, N, P, k)
           n == N[k]
           p == P[k]
           o == Off(N, P, k)
           b == BitsOf(z)
           f == ReadCode(d)
<1>1. a \in Nat /\ a <= Len(z) /\ W * a \in Nat /\ W * a <= Len(b) /\ o + n <= W * a
  BY ReadEnough, Zenon
<1>2. b \in Seq(Bit) /\ Len(b) = W * Len(z)
  BY BitsOfAt
<1>3. DOMAIN d = Decoder /\ NextWidth(d) = n
  BY Zenon DEF Awaits
<1>4. CASE Slot(k) = 0
  <2>1. o = W * p /\ p \in Nat /\ n \in Nat
    BY <1>4, Zenon DEF Place
  <2>2. (d.buf = <<>> \/ Outgrown(d)) /\ d.in = SubSeq(z, p + 1, Len(z)) /\ a = Least2(p + n, Len(z))
    BY <1>4, Zenon DEF Awaits, ReadUpTo
  <2>3. p <= Len(z)
    <3>1. W \in Nat \ {0} /\ Len(z) \in Nat
      BY CodeAssumption, LenProperties
    <3> DEFINE x == W * p
               t == W * Len(z)
    <3>2. x \in Nat /\ t \in Nat
      BY <2>1, <3>1, Scaling
    <3>3. x + n <= W * a /\ W * a <= t /\ W * a \in Nat
      BY <1>1, <1>2, <2>1, Zenon
    <3> HIDE DEF x, t, n
    <3>4. x < t + W
      BY <2>1, <3>1, <3>2, <3>3
    <3> HIDE DEF p
    <3> QED BY <2>1, <3>1, <3>4, Unscale DEF x, t
  <2>4. HoldsAt(b, c, n, W * p)
    BY <2>1, Zenon
  <2> HIDE DEF p, n
  <2>5. BlockRead(d, f, z, p, c, n, a)
    BY <1>3, <2>1, <2>2, <2>3, <2>4, ReadBlock, Zenon
  <2> QED BY <2>1, <2>5, Zenon DEF BlockRead, CodeRead, HasRead, Retained, p, n
<1>5. CASE Slot(k) # 0
  <2>1. /\ ~Outgrown(d) /\ d.nBits = n /\ d.in = SubSeq(z, a + 1, Len(z))
        /\ d.buf = SubSeq(b, o + 1, W * a)
    BY <1>5, Zenon DEF Awaits
  <2> DEFINE l == W * a
             bits == d.buf
  <2>2. /\ b \in Seq(Bit) /\ HoldsAt(b, c, n, o) /\ l \in Nat /\ o + n <= l /\ l <= Len(b)
        /\ bits = SubSeq(b, o + 1, l)
    BY <1>1, <1>2, <2>1, Zenon
  <2>3. Taken(b, c, n, o, l, bits)
    <3> HIDE DEF b, n, o, l, bits
    <3> QED BY <2>2, TakeCode, Zenon
  <2>4. Read(d, f, n, d.in, bits)
    BY <1>3, <2>1, <2>3, ReadWaiting, Zenon DEF Taken
  <2> HIDE DEF f
  <2>5. /\ DOMAIN f = Decoder /\ f.nBits = n /\ f.in = d.in /\ f.buf = SubSeq(bits, n + 1, Len(bits))
        /\ f.code = (IF Len(bits) >= n THEN Number(SubSeq(bits, 1, n)) ELSE NoCode)
        /\ f.free = d.free /\ f.prev = d.prev /\ f.table = d.table /\ f.out = d.out /\ f.state = d.state
    BY <2>4, Zenon DEF Read
  <2>6. f.code = c /\ f.buf = SubSeq(b, (o + n) + 1, l)
    BY <2>3, <2>5, Zenon DEF Taken
  <2> QED BY <2>1, <2>5, <2>6, Zenon DEF CodeRead, HasRead, Retained, f
<1> QED BY <1>4, <1>5

LEMMA Growing ==
  ASSUME NEW d, NEW n, NEW free, WidthAt(n, free), d.nBits = n, d.free = free
  PROVE  Outgrown(d) <=> free = Pow2[n]
<1>1. Pow2[n] \in Nat /\ free \in Nat /\ free <= Pow2[n]
  BY WidthFacts DEF WidthAt
<1> QED BY <1>1 DEF Outgrown, MaxCode

LEMMA NextAwaits ==
  ASSUME NEW z \in Seq(Octet), NEW N, NEW P, NEW m \in Nat, Grid(N, P, m), NEW k \in 1 .. m - 1,
         NEW c, HoldsAt(BitsOf(z), c, N[k], Off(N, P, k)),
         NEW d, DOMAIN d = Decoder, HasRead(d, z, N, P, k), d.free = FirstCode + k - 1
  PROVE  Awaits(d, z, N, P, k + 1)
<1> DEFINE a == ReadUpTo(z, N, P, k)
           n == N[k]
           b == BitsOf(z)
           o == Off(N, P, k) + n
<1>1. Place(N, P, k) /\ WidthAt(n, FirstCode + k - 1) /\ Place(N, P, k + 1) /\ NextPlace(N, P, k)
  <2>1. k \in 1 .. m /\ k + 1 \in 1 .. m
    OBVIOUS
  <2> QED BY <2>1, Places, NextPlaces, Zenon
<1>2. d.nBits = n /\ d.in = SubSeq(z, a + 1, Len(z)) /\ d.buf = SubSeq(b, o + 1, W * a)
  BY Zenon DEF HasRead
<1>3. Outgrown(d) <=> FirstCode + k - 1 = Pow2[n]
  BY <1>1, <1>2, Growing, Zenon
<1>4. /\ a \in Nat /\ a <= Len(z) /\ a <= P[k] + n /\ W * a \in Nat /\ W * a <= Len(b) /\ o <= W * a
  BY <1>1, ReadEnough, Zenon
<1>5. NextWidth(d) = N[k + 1]
  <2>1. CASE Outgrown(d)
    <3>1. N[k + 1] = n + 1
      BY <1>1, <1>3, <2>1, Zenon DEF NextPlace
    <3>2. n + 1 \in 1 .. MaxBits /\ n \in Nat /\ MaxBits \in Nat
      <4>1. N[k + 1] \in 1 .. MaxBits /\ n \in Nat
        BY <1>1, Zenon DEF Place
      <4> QED BY <3>1, <4>1, CodeAssumption, Zenon
    <3>3. n < MaxBits
      <4> HIDE DEF n
      <4> QED BY <3>2
    <3> QED BY <1>2, <2>1, <3>1, <3>3, Zenon DEF NextWidth
  <2>2. CASE ~Outgrown(d)
    <3>1. N[k + 1] = n
      BY <1>1, <1>3, <2>2, Zenon DEF NextPlace
    <3> QED BY <1>2, <2>2, <3>1, Zenon DEF NextWidth
  <2> QED BY <2>1, <2>2
<1>6. ASSUME Slot(k + 1) = 0
      PROVE  d.buf = <<>> /\ d.in = SubSeq(z, P[k + 1] + 1, Len(z))
  <2>1. o = W * (P[k] + n) /\ P[k + 1] = P[k] + n
    BY <1>1, <1>6, Zenon DEF Place, NextPlace
  <2> DEFINE p == P[k] + n
  <2>2. p \in Nat /\ W \in Nat \ {0}
    <3>1. P[k] \in Nat /\ n \in Nat
      BY <1>1, Zenon DEF Place
    <3> HIDE DEF n
    <3> QED BY <3>1, CodeAssumption
  <2> HIDE DEF p, a, o, n, b
  <2>3. o = W * p /\ P[k + 1] = p /\ a <= p
    BY <1>4, <2>1, Zenon DEF p
  <2>4. p <= a
    <3> DEFINE x == W * p
               t == W * a
    <3>1. x <= t /\ x \in Nat /\ t \in Nat
      BY <1>4, <2>2, <2>3, Scaling
    <3> HIDE DEF x, t
    <3>2. x < t + W
      BY <2>2, <3>1
    <3> QED BY <1>4, <2>2, <3>2, Unscale DEF x, t
  <2>5. a = p
    BY <1>4, <2>2, <2>3, <2>4
  <2>6. b \in Seq(Bit)
    BY BitsOfAt DEF b
  <2>7. SubSeq(b, o + 1, W * a) = <<>>
    <3> DEFINE t == W * a
    <3>1. t \in Nat /\ t <= Len(b) /\ o = t
      BY <1>4, <2>3, <2>5, Zenon
    <3> HIDE DEF t
    <3>2. SubSeq(b, t + 1, t) = <<>>
      BY <2>6, <3>1, EmptyPiece
    <3> QED BY <3>1, <3>2, Zenon DEF t
  <2> QED BY <1>2, <2>3, <2>5, <2>7, Zenon
<1>7. ASSUME Slot(k + 1) # 0
      PROVE  /\ ~Outgrown(d) /\ N[k + 1] = n /\ ReadUpTo(z, N, P, k + 1) = a
             /\ Off(N, P, k + 1) = o
  BY <1>1, <1>3, <1>7, Zenon DEF NextPlace, ReadUpTo
<1> QED BY <1>2, <1>5, <1>6, <1>7, Zenon DEF Awaits

(* The first code is in the first block.                                   *)
LEMMA FirstAwaits ==
  ASSUME NEW z \in Seq(Octet), NEW N, NEW P, NEW m \in Nat \ {0}, Grid(N, P, m),
         NEW d, DOMAIN d = Decoder, d.in = z, d.buf = <<>>, d.nBits = InitBits, d.free = FirstCode
  PROVE  Awaits(d, z, N, P, 1)
<1>0. W \in Nat \ {0} /\ MaxBits \in Nat /\ MaxBits > W /\ W \in 0 .. MaxBits /\ W + 1 \in 1 .. MaxBits
      /\ (W + 1) - 1 = W /\ 0 \in 0 .. MaxBits /\ 0 < W
  BY CodeAssumption
<1>1. N[1] = W + 1 /\ P[1] = 0
  BY Zenon DEF Grid
<1>2. ~Outgrown(d)
  <2>1. Pow2[W + 1] = 2 * Pow2[(W + 1) - 1] /\ Pow2[0] = 1
    BY <1>0, Powers
  <2>2. Pow2[W] \in Nat /\ Pow2[0] < Pow2[W]
    BY <1>0, PowersPositive, Zenon
  <2> DEFINE p == Pow2[W]
             q == Pow2[W + 1]
  <2>3. p \in Nat /\ q = 2 * p /\ 1 < p
    BY <1>0, <2>1, <2>2
  <2>4. d.free = p + 1 /\ d.nBits = W + 1
    BY DEF FirstCode, InitBits
  <2>5. MaxCode(d.nBits) = q - 1
    BY <2>4, Zenon DEF MaxCode
  <2> HIDE DEF p, q
  <2>6. ~(p + 1 > q - 1)
    BY <2>3
  <2> QED BY <2>4, <2>5, <2>6, Zenon DEF Outgrown
<1>3. NextWidth(d) = N[1]
  BY <1>1, <1>2, Zenon DEF NextWidth, InitBits
<1>4. d.in = SubSeq(z, 0 + 1, Len(z))
  BY WholePiece, Zenon
<1> QED BY <1>1, <1>3, <1>4, Slots, Zenon DEF Awaits

TailOf(v, o, t, w) == Len(w) < W /\ Len(w) \in Nat
LEMMA TailIsShort ==
  ASSUME NEW v \in Seq(Bit), NEW o \in Nat, NEW t \in Nat, o <= t, t <= Len(v), t < o + W,
         NEW w, w = SubSeq(v, o + 1, t)
  PROVE  TailOf(v, o, t, w)
<1>1. W \in Nat
  BY CodeAssumption
<1>2. Len(SubSeq(v, o + 1, t)) = t - o
  BY PieceOf
<1>3. t - o < W /\ t - o \in Nat
  BY <1>1
<1> QED BY <1>2, <1>3, Zenon DEF TailOf

(* What follows the last code is less than a code.                         *)
LEMMA NoMore ==
  ASSUME NEW z \in Seq(Octet), NEW N, NEW P, NEW m, Place(N, P, m),
         NEW c, HoldsAt(BitsOf(z), c, N[m], Off(N, P, m)),
         W * Len(z) < Off(N, P, m) + N[m] + W,
         NEW d, DOMAIN d = Decoder, HasRead(d, z, N, P, m)
  PROVE  ReadCode(d).code = NoCode /\ Retained(d, ReadCode(d))
<1> DEFINE a == ReadUpTo(z, N, P, m)
           n == N[m]
           o == Off(N, P, m) + n
           b == BitsOf(z)
           f == ReadCode(d)
           w == NextWidth(d)
<1>0. n \in Nat /\ n > W /\ W \in Nat \ {0} /\ Len(z) \in Nat /\ o \in Nat
  BY CodeAssumption, LenProperties DEF Place
<1>1. d.nBits = n /\ d.in = SubSeq(z, a + 1, Len(z)) /\ d.buf = SubSeq(b, o + 1, W * a)
  BY Zenon DEF HasRead
<1>2. a \in Nat /\ a <= Len(z) /\ W * a \in Nat /\ W * a <= Len(b) /\ o <= W * a
  BY ReadEnough, Zenon
<1>3. b \in Seq(Bit) /\ Len(b) = W * Len(z)
  BY BitsOfAt
<1>4. W * Len(z) < o + W
  OBVIOUS
<1> HIDE DEF a, n, o, b
<1> DEFINE x == W * Len(z)
           t == W * a
<1>5. x \in Nat /\ t \in Nat /\ x < o + W /\ o <= t /\ t <= x
  BY <1>0, <1>2, <1>3, <1>4, Scaling
<1>6. a = Len(z)
  <2> HIDE DEF x, t
  <2>1. x < t + W
    BY <1>0, <1>5
  <2>2. Len(z) <= a
    BY <1>0, <1>2, <2>1, Unscale DEF x, t
  <2> QED BY <1>0, <1>2, <2>2
<1>7. d.in = <<>>
  <2>1. a >= Len(z)
    BY <1>0, <1>6
  <2> QED BY <1>1, <1>2, <2>1, PieceBeyond, Zenon
<1>8. Len(d.buf) < W /\ Len(d.buf) \in Nat
  <2> HIDE DEF t, x
  <2>1. t <= Len(b) /\ d.buf = SubSeq(b, o + 1, t) /\ b \in Seq(Bit) /\ o \in Nat /\ t \in Nat /\ o <= t
    BY <1>0, <1>1, <1>2, <1>3, <1>5, Zenon DEF t
  <2>2. t < o + W
    <3> DEFINE l == Len(b)
    <3>1. t <= l /\ l = x
      BY <1>3, <2>1, Zenon DEF x
    <3> HIDE DEF l
    <3> QED BY <1>0, <1>5, <3>1
  <2>3. TailOf(b, o, t, d.buf)
    BY <2>1, <2>2, TailIsShort, Zenon
  <2> QED BY <2>3, Zenon DEF TailOf
<1>9. w \in Nat /\ w > W
  BY <1>0, <1>1 DEF NextWidth
<1>10. CASE d.buf = <<>> \/ Outgrown(d)
  <2> DEFINE l == IF w <= Len(d.in) THEN w ELSE Len(d.in)
             bits == BitsOf(SubSeq(d.in, 1, l))
  <2>1. Read(d, f, w, SubSeq(d.in, w + 1, Len(d.in)), bits)
    BY <1>10, ReadFresh, Zenon
  <2>2. ~(Len(bits) >= w)
    <3>1. l = 0
      BY <1>0, <1>7, <1>9
    <3>2. SubSeq(d.in, 1, l) = <<>>
      BY <1>7, <3>1
    <3>3. Len(BitsOf(<<>>)) = W * Len(<<>>)
      <4>1. <<>> \in Seq(Octet)
        OBVIOUS
      <4> QED BY <4>1, BitsOfAt, Zenon
    <3>4. Len(<<>>) = 0 /\ W * 0 = 0
      BY <1>0
    <3>5. Len(bits) = 0
      BY <3>2, <3>3, <3>4, Zenon
    <3> HIDE DEF w, bits
    <3> QED BY <1>0, <1>9, <3>5
  <2> QED BY <2>1, <2>2, Zenon DEF Read, Retained
<1>11. CASE ~(d.buf = <<>> \/ Outgrown(d))
  <2>1. Read(d, f, d.nBits, d.in, d.buf)
    BY <1>11, ReadWaiting, Zenon
  <2>2. ~(Len(d.buf) >= d.nBits)
    <3> DEFINE l == Len(d.buf)
    <3>1. l \in Nat /\ l < W /\ d.nBits = n
      BY <1>1, <1>8
    <3> HIDE DEF l
    <3>2. ~(l >= n)
      BY <1>0, <3>1
    <3> QED BY <3>1, <3>2, Zenon DEF l
  <2> QED BY <2>1, <2>2, Zenon DEF Read, Retained
<1> QED BY <1>10, <1>11

-----------------------------------------------------------------------------
(* The codec of compress: what the decoder puts out. *)

(* The head of a piece.                                                    *)
HeadIs(v, m, n, w) == w # <<>> /\ Head(w) = v[m + 1]
LEMMA PieceHead ==
  ASSUME NEW T, NEW v \in Seq(T), NEW m \in Nat, NEW n \in Nat, m < n, n <= Len(v),
         NEW w, w = SubSeq(v, m + 1, n)
  PROVE  HeadIs(v, m, n, w)
<1>1. m <= n /\ 1 \in 1 .. n - m /\ n - m # 0
  OBVIOUS
<1>2. w \in Seq(T) /\ Len(w) = n - m /\ w[1] = v[m + 1]
  <2>1. LET u == SubSeq(v, m + 1, n)
        IN  u \in Seq(T) /\ Len(u) = n - m /\ \A i \in 1 .. n - m : u[i] = v[m + i]
    BY <1>1, PieceOf
  <2> QED BY <1>1, <2>1
<1>3. Head(w) = w[1] /\ w # <<>>
  BY <1>1, <1>2
<1> QED BY <1>2, <1>3, Zenon DEF HeadIs

LEMMA CutsAt ==
  ASSUME NEW S, NEW m \in Nat, NEW l, Cuts(S, m + 1, l), NEW k \in 1 .. m
  PROVE  S[k] \in Nat /\ S[k + 1] \in Nat /\ S[k] < S[k + 1] /\ S[k + 1] <= l /\ l \in Nat
<1>1. k \in 1 .. m + 1 /\ k + 1 \in 1 .. m + 1 /\ k \in 1 .. (m + 1) - 1
  OBVIOUS
<1>2. /\ l \in Nat /\ \A i \in 1 .. m + 1 : S[i] \in Nat /\ S[i] <= l
      /\ \A i \in 1 .. (m + 1) - 1 : S[i] < S[i + 1]
  BY CutFacts, Zenon
<1> QED BY <1>1, <1>2, Zenon

(* The table after k codes: each but the first has made an entry.          *)
TableInv(table, s, S, k) ==
  /\ DOMAIN table = FirstCode .. FirstCode + k - 2
  /\ \A c \in DOMAIN table : table[c] = Text(s, S, c)

(* What code c stands for, and the entry made then.                        *)
Stands(c, free, table, prev) ==
  CASE c < Clear -> <<c>>
    [] c >= Clear /\ c < free -> table[c]
    [] OTHER -> Append(prev, Head(prev))
StandsFor(s, S, j, c, free, table, prev, st) ==
  st = SubSeq(s, S[j + 1] + 1, S[j + 2]) /\ Append(prev, Head(st)) = Text(s, S, free)

LEMMA CodeStands ==
  ASSUME NEW s \in Seq(Byte), NEW S, NEW m \in Nat, Cuts(S, m + 1, Len(s)), NEW j \in 1 .. m - 1,
         NEW c, Made(c, j), Text(s, S, c) = SubSeq(s, S[j + 1] + 1, S[j + 2]),
         NEW free, free = FirstCode + j - 1, NEW table, TableInv(table, s, S, j),
         NEW prev, prev = SubSeq(s, S[j] + 1, S[j + 1]), NEW st, st = Stands(c, free, table, prev)
  PROVE  StandsFor(s, S, j, c, free, table, prev, st)
<1> DEFINE p == S[j]
           q == S[j + 1]
           r == S[j + 2]
           x == s[q + 1]
<1>1. j \in Nat \ {0} /\ j \in 1 .. m /\ j + 1 \in 1 .. m /\ (j + 1) + 1 = j + 2
  OBVIOUS
<1>2. p \in Nat /\ q \in Nat /\ r \in Nat /\ p < q /\ q < r /\ r <= Len(s) /\ Len(s) \in Nat
  <2>1. p \in Nat /\ q \in Nat /\ p < q
    BY <1>1, CutsAt, Zenon
  <2>2. q \in Nat /\ r \in Nat /\ q < r /\ r <= Len(s) /\ Len(s) \in Nat
    <3>1. S[(j + 1) + 1] \in Nat /\ S[j + 1] < S[(j + 1) + 1] /\ S[(j + 1) + 1] <= Len(s) /\ Len(s) \in Nat
      BY <1>1, CutsAt, Zenon
    <3> QED BY <1>1, <2>1, <3>1, Zenon
  <2> QED BY <2>1, <2>2, Zenon
<1>3. Clear \in Nat /\ FirstCode = Clear + 1 /\ FirstCode \in Nat
  BY CodeNumbers
<1> HIDE DEF p, q, r, x
<1>4. Text(s, S, free) = SubSeq(s, p + 1, q + 1)
  <2>1. ~(free < Clear) /\ (free - FirstCode) + 1 = j /\ (free - FirstCode) + 2 = j + 1
    BY <1>1, <1>3
  <2> QED BY <2>1, Zenon DEF Text, p, q
<1>5. Append(prev, x) = SubSeq(s, p + 1, q + 1)
  <2>1. p <= q /\ q + 1 <= Len(s)
    BY <1>2
  <2>2. Append(SubSeq(s, p + 1, q), s[q + 1]) = SubSeq(s, p + 1, q + 1)
    BY <1>2, <2>1, PieceAppend, Zenon
  <2> QED BY <2>2, Zenon DEF p, q, x
<1>6. HeadIs(s, p, q, prev)
  <2>1. q <= Len(s) /\ prev = SubSeq(s, p + 1, q)
    BY <1>2 DEF p, q
  <2> QED BY <1>2, <2>1, PieceHead, Zenon
<1> DEFINE v == SubSeq(s, q + 1, r)
<1>7. Text(s, S, c) = v
  BY DEF q, r
<1>8. HeadIs(s, q, r, v)
  BY <1>2, PieceHead, Zenon
<1> HIDE DEF v
<1>9. st = v
  <2>1. CASE c \in Byte
    <3>1. c < Clear /\ ~(c >= Clear)
      BY <1>3, <2>1 DEF Byte
    <3>2. st = <<c>>
      BY <3>1, Zenon DEF Stands
    <3>3. Text(s, S, c) = <<c>>
      BY <3>1, Zenon DEF Text
    <3> QED BY <1>7, <3>2, <3>3, Zenon
  <2>2. CASE c \in Nat /\ FirstCode <= c /\ c < FirstCode + j
    <3>1. ~(c < Clear) /\ c >= Clear
      BY <1>3, <2>2
    <3>2. CASE c < free
      <4>1. st = table[c]
        BY <3>1, <3>2 DEF Stands
      <4>2. c \in FirstCode .. FirstCode + j - 2
        BY <1>1, <1>3, <2>2, <3>2
      <4>3. table[c] = Text(s, S, c)
        BY <4>2, Zenon DEF TableInv
      <4> QED BY <1>7, <4>1, <4>3, Zenon
    <3>3. CASE ~(c < free)
      <4>1. c = free
        BY <1>1, <1>3, <2>2, <3>3
      <4>2. st = Append(prev, Head(prev))
        BY <3>1, <3>3, Zenon DEF Stands
      <4>3. HeadIs(s, p, q + 1, v)
        <5>1. p < q + 1 /\ q + 1 <= Len(s) /\ q + 1 \in Nat /\ v = SubSeq(s, p + 1, q + 1)
          BY <1>2, <1>4, <1>7, <4>1
        <5> QED BY <1>2, <5>1, PieceHead, Zenon
      <4>4. Head(prev) = x
        BY <1>6, <1>8, <4>3, Zenon DEF HeadIs, x
      <4> QED BY <1>4, <1>5, <1>7, <4>1, <4>2, <4>4, Zenon
    <3> QED BY <3>2, <3>3
  <2> QED BY <2>1, <2>2, Zenon DEF Made
<1>10. Head(st) = x
  BY <1>8, <1>9, Zenon DEF HeadIs, x
<1> QED BY <1>4, <1>5, <1>9, <1>10, Zenon DEF StandsFor, v, q, r

(* The decoder has taken j of the codes.                                   *)
DecInv(d, z, s, N, P, S, j) ==
  /\ DOMAIN d = Decoder /\ HasRead(d, z, N, P, j) /\ d.free = FirstCode + j - 1 /\ d.state = "more"
  /\ d.out = SubSeq(s, 1, S[j + 1]) /\ d.prev = SubSeq(s, S[j] + 1, S[j + 1])
  /\ TableInv(d.table, s, S, j)

(* What DecodeCode makes of a code that an encoder writes.                 *)
Decoded(f, g) ==
  LET st == Stands(f.code, f.free, f.table, f.prev) IN
  /\ DOMAIN g = Decoder /\ g.in = f.in /\ g.buf = f.buf /\ g.nBits = f.nBits /\ g.state = f.state
  /\ g.out = f.out \o st /\ g.prev = st /\ g.free = f.free + 1
  /\ g.table = [k \in DOMAIN f.table \cup {f.free} |->
                  IF k = f.free THEN Append(f.prev, Head(st)) ELSE f.table[k]]

LEMMA DecodeFields ==
  ASSUME NEW d, DOMAIN ReadCode(d) = Decoder, ReadCode(d).code \in Nat, ReadCode(d).code # Clear,
         ReadCode(d).free \in Nat, ReadCode(d).code <= ReadCode(d).free,
         ReadCode(d).free < Pow2[MaxBits]
  PROVE  Decoded(ReadCode(d), DecodeCode(d))
<1> DEFINE f == ReadCode(d)
           st == Stands(f.code, f.free, f.table, f.prev)
           tab == [k \in DOMAIN f.table \cup {f.free} |->
                     IF k = f.free THEN Append(f.prev, Head(st)) ELSE f.table[k]]
           h1 == [f EXCEPT !.state = "end"]
           h2 == FirstByte([f EXCEPT !.nBits = InitBits, !.free = FirstCode, !.buf = <<>>])
           h3 == [f EXCEPT !.state = "garbage"]
           h4 == [f EXCEPT !.out = @ \o st, !.prev = st, !.free = @ + 1, !.table = tab]
           h5 == [f EXCEPT !.out = @ \o st, !.prev = st]
           g == DecodeCode(d)
<1>1. g = CASE f.code = NoCode -> h1
            [] f.code = Clear -> h2
            [] f.code > f.free -> h3
            [] f.code \in 0 .. f.free \ {Clear} -> IF f.free < Pow2[MaxBits] THEN h4 ELSE h5
  BY DEF DecodeCode, Stands
<1>2. /\ DOMAIN f = Decoder /\ f.code \in Nat /\ f.code # Clear /\ f.free \in Nat /\ f.code <= f.free
      /\ f.free < Pow2[MaxBits]
  OBVIOUS
<1> HIDE DEF f, g, h1, h2, h3, h5, tab, st
<1>3. f.code # NoCode /\ ~(f.code > f.free) /\ f.code \in 0 .. f.free \ {Clear}
  BY <1>2 DEF NoCode
<1>4. g = h4
  <2> HIDE DEF h4
  <2> QED BY <1>1, <1>2, <1>3, Zenon
<1>5. /\ DOMAIN g = Decoder /\ g.in = f.in /\ g.buf = f.buf /\ g.nBits = f.nBits /\ g.state = f.state
      /\ g.out = f.out \o st /\ g.prev = st /\ g.free = f.free + 1 /\ g.table = tab
  BY <1>2, <1>4 DEF Decoder
<1> QED BY <1>5, Zenon DEF Decoded, f, g, st, tab

LEMMA DecodeNothing ==
  ASSUME NEW d, ReadCode(d).code = NoCode, ReadCode(d).free \in Nat
  PROVE  DecodeCode(d) = [ReadCode(d) EXCEPT !.state = "end"]
<1> DEFINE f == ReadCode(d)
           h1 == [f EXCEPT !.state = "end"]
           h2 == FirstByte([f EXCEPT !.nBits = InitBits, !.free = FirstCode, !.buf = <<>>])
           h3 == [f EXCEPT !.state = "garbage"]
           st == Stands(f.code, f.free, f.table, f.prev)
           h4 == IF f.free < Pow2[MaxBits]
                 THEN [f EXCEPT !.out = @ \o st, !.prev = st, !.free = @ + 1,
                                !.table = [k \in DOMAIN @ \cup {f.free} |->
                                             IF k = f.free THEN Append(f.prev, Head(st)) ELSE @[k]]]
                 ELSE [f EXCEPT !.out = @ \o st, !.prev = st]
           g == DecodeCode(d)
<1>1. g = CASE f.code = NoCode -> h1
            [] f.code = Clear -> h2
            [] f.code > f.free -> h3
            [] f.code \in 0 .. f.free \ {Clear} -> h4
  BY DEF DecodeCode, Stands
<1>2. f.code = NoCode /\ f.free \in Nat
  OBVIOUS
<1> HIDE DEF f, g, h1, h2, h3, h4, st
<1>3. f.code # Clear /\ ~(f.code > f.free) /\ f.code \notin 0 .. f.free \ {Clear}
  BY <1>2, CodeNumbers DEF NoCode
<1>4. g = h1
  BY <1>1, <1>2, <1>3, Zenon
<1> QED BY <1>4, Zenon DEF g, h1, f

(* A code more.                                                            *)
LEMMA DecodeOne ==
  ASSUME NEW z, NEW s, NEW D, NEW N, NEW P, NEW S, Coded(z, s, D, N, P, S),
         NEW j \in 1 .. Len(D) - 1, NEW d, DecInv(d, z, s, N, P, S, j)
  PROVE  DecInv(DecodeCode(d), z, s, N, P, S, j + 1)
<1> DEFINE m == Len(D)
           k == j + 1
           c == D[k]
           f == ReadCode(d)
           g == DecodeCode(d)
           b == BitsOf(z)
           free == FirstCode + j - 1
           st == Stands(c, free, d.table, d.prev)
<1>0. /\ s \in Seq(Byte) /\ z \in Seq(Octet) /\ D \in Seq(Nat) /\ m \in Nat \ {0}
      /\ Grid(N, P, m) /\ Cuts(S, m + 1, Len(s))
      /\ Holds(b, D, N, P) /\ CodedBy(D, S, s)
  BY Zenon DEF Coded
<1>1. j \in Nat \ {0} /\ m \in Nat /\ j \in 1 .. m /\ k \in 1 .. m /\ k - 1 = j /\ k + 1 = j + 2
  BY <1>0
<1>2. Place(N, P, k) /\ WidthAt(N[k], FirstCode + k - 1)
  BY <1>0, <1>1, Places, Zenon
<1>3. HoldsAt(b, D[j], N[j], Off(N, P, j)) /\ HoldsAt(b, c, N[k], Off(N, P, k))
  BY <1>0, <1>1, Zenon DEF Holds
<1>4. /\ DOMAIN d = Decoder /\ HasRead(d, z, N, P, j) /\ d.free = free /\ d.state = "more"
      /\ d.out = SubSeq(s, 1, S[j + 1]) /\ d.prev = SubSeq(s, S[j] + 1, S[j + 1])
      /\ TableInv(d.table, s, S, j)
  BY Zenon DEF DecInv
<1>5. Awaits(d, z, N, P, k)
  BY <1>0, <1>1, <1>3, <1>4, NextAwaits, Zenon
<1>6. HasRead(f, z, N, P, k) /\ Retained(d, f) /\ f.code = c
  <2> HIDE DEF k, c, b, m
  <2>1. HoldsAt(BitsOf(z), c, N[k], Off(N, P, k))
    BY <1>3, Zenon DEF b
  <2>2. CodeRead(d, ReadCode(d), z, N, P, k, c)
    BY <1>0, <1>2, <1>5, <2>1, ReadIt, Zenon
  <2> QED BY <2>2, Zenon DEF CodeRead
<1>7. /\ DOMAIN f = Decoder /\ f.free = free /\ f.prev = d.prev /\ f.table = d.table
      /\ f.out = d.out /\ f.state = "more"
  BY <1>4, <1>6, Zenon DEF Retained
<1>8. Made(c, j) /\ Text(s, S, c) = SubSeq(s, S[j + 1] + 1, S[j + 2])
  <2>1. Made(c, k - 1) /\ Text(s, S, c) = SubSeq(s, S[k] + 1, S[k + 1])
    BY <1>0, <1>1, Zenon DEF CodedBy
  <2> QED BY <1>1, <2>1, Zenon
<1>9. Clear \in Nat /\ FirstCode = Clear + 1 /\ FirstCode \in Nat
  BY CodeNumbers
<1> HIDE DEF f, g, b, c, m
<1>10. c \in Nat /\ c # Clear /\ c <= free /\ free \in Nat /\ free + 1 = FirstCode + k - 1
  <2>1. CASE c \in Byte
    BY <1>1, <1>9, <2>1 DEF Byte
  <2>2. CASE c \in Nat /\ FirstCode <= c /\ c < FirstCode + j
    BY <1>1, <1>9, <2>2
  <2> QED BY <1>8, <2>1, <2>2, Zenon DEF Made
<1>11. free < Pow2[MaxBits]
  <2> DEFINE n == N[k]
             w == FirstCode + k - 1
  <2>1. n \in 1 .. MaxBits /\ n \in Nat /\ w <= Pow2[n] /\ MaxBits \in Nat
    BY <1>2, CodeAssumption, Zenon DEF Place, WidthAt
  <2> HIDE DEF n
  <2>2. Pow2[n] \in Nat /\ Pow2[MaxBits] \in Nat /\ (n < MaxBits => Pow2[n] < Pow2[MaxBits])
    <3>1. n \in 0 .. MaxBits /\ MaxBits \in 0 .. MaxBits
      BY <2>1
    <3> QED BY <3>1, PowersPositive, Zenon
  <2>3. n = MaxBits \/ n < MaxBits
    BY <2>1
  <2>4. Pow2[n] <= Pow2[MaxBits]
    BY <2>2, <2>3
  <2>5. free < w
    BY <1>1, <1>9
  <2>6. w \in Nat
    BY <1>1, <1>9
  <2> HIDE DEF w
  <2> QED BY <1>10, <2>1, <2>2, <2>4, <2>5, <2>6
<1> HIDE DEF free, st
<1>12. Decoded(f, g)
  BY <1>6, <1>7, <1>10, <1>11, DecodeFields, Zenon DEF f, g
<1>13. /\ DOMAIN g = Decoder /\ g.in = f.in /\ g.buf = f.buf /\ g.nBits = f.nBits /\ g.state = "more"
       /\ g.out = d.out \o st /\ g.prev = st /\ g.free = free + 1
       /\ g.table = [x \in DOMAIN d.table \cup {free} |->
                       IF x = free THEN Append(d.prev, Head(st)) ELSE d.table[x]]
  BY <1>6, <1>7, <1>12, Zenon DEF Decoded, st
<1>14. st = SubSeq(s, S[j + 1] + 1, S[j + 2]) /\ Append(d.prev, Head(st)) = Text(s, S, free)
  <2>1. StandsFor(s, S, j, c, free, d.table, d.prev, st)
    BY <1>0, <1>1, <1>4, <1>8, CodeStands, Zenon DEF free, st, m
  <2> QED BY <2>1, Zenon DEF StandsFor
<1>15. g.out = SubSeq(s, 1, S[k + 1])
  <2> DEFINE q == S[j + 1]
             r == S[j + 2]
  <2>1. q \in Nat /\ r \in Nat /\ q < r /\ r <= Len(s) /\ Len(s) \in Nat
    <3>1. S[k] \in Nat /\ S[k + 1] \in Nat /\ S[k] < S[k + 1] /\ S[k + 1] <= Len(s) /\ Len(s) \in Nat
      BY <1>0, <1>1, CutsAt, Zenon
    <3> QED BY <1>1, <3>1, Zenon
  <2> HIDE DEF q, r
  <2>2. 0 \in Nat /\ 0 <= q /\ q <= r
    BY <2>1
  <2>3. SubSeq(s, 0 + 1, q) \o SubSeq(s, q + 1, r) = SubSeq(s, 0 + 1, r)
    BY <1>0, <2>1, <2>2, PieceConcat, Zenon
  <2>4. 0 + 1 = 1
    OBVIOUS
  <2>5. g.out = SubSeq(s, 1, q) \o SubSeq(s, q + 1, r)
    BY <1>4, <1>13, <1>14, Zenon DEF q, r
  <2> QED BY <1>1, <2>3, <2>4, <2>5, Zenon DEF r
<1>16. g.prev = SubSeq(s, S[k] + 1, S[k + 1])
  BY <1>1, <1>13, <1>14, Zenon
<1>17. TableInv(g.table, s, S, k)
  <2>1. DOMAIN d.table = FirstCode .. FirstCode + j - 2 /\ \A x \in DOMAIN d.table : d.table[x] = Text(s, S, x)
    BY <1>4, Zenon DEF TableInv
  <2>2. DOMAIN g.table = DOMAIN d.table \cup {free}
    BY <1>13
  <2>3. DOMAIN g.table = FirstCode .. FirstCode + k - 2
    BY <1>1, <1>9, <2>1, <2>2 DEF free
  <2>4. ASSUME NEW x \in DOMAIN g.table PROVE g.table[x] = Text(s, S, x)
    <3>1. CASE x = free
      <4>1. g.table[x] = Append(d.prev, Head(st))
        BY <1>13, <3>1
      <4> QED BY <1>14, <3>1, <4>1, Zenon
    <3>2. CASE x # free
      <4>1. x \in DOMAIN d.table /\ g.table[x] = d.table[x]
        BY <1>13, <2>2, <3>2
      <4> QED BY <2>1, <4>1, Zenon
    <3> QED BY <3>1, <3>2
  <2> QED BY <2>3, <2>4, Zenon DEF TableInv
<1>18. HasRead(g, z, N, P, k)
  BY <1>6, <1>13, Zenon DEF HasRead
<1>19. g.free = FirstCode + k - 1
  BY <1>10, <1>13, Zenon
<1>20. DecInv(g, z, s, N, P, S, k)
  BY <1>13, <1>15, <1>16, <1>17, <1>18, <1>19, Zenon DEF DecInv
<1> QED BY <1>20, Zenon DEF g

(* The end.                                                                *)
Ends(g, z, s, D, N, P, S) == g.state = "end" /\ g.out = s

LEMMA DecodeEnd ==
  ASSUME NEW z, NEW s, NEW D, NEW N, NEW P, NEW S, Coded(z, s, D, N, P, S),
         NEW d, DecInv(d, z, s, N, P, S, Len(D))
  PROVE  Ends(DecodeCode(d), z, s, D, N, P, S)
<1> DEFINE m == Len(D)
           f == ReadCode(d)
           g == DecodeCode(d)
<1>0. /\ s \in Seq(Byte) /\ z \in Seq(Octet) /\ m \in Nat \ {0} /\ Grid(N, P, m)
      /\ Cuts(S, m + 1, Len(s)) /\ S[m + 1] = Len(s) /\ Holds(BitsOf(z), D, N, P)
      /\ W * Len(z) < Off(N, P, m) + N[m] + W
  BY Zenon DEF Coded
<1>1. m \in 1 .. m /\ m \in Nat
  BY <1>0
<1>2. Place(N, P, m)
  BY <1>0, <1>1, Places, Zenon
<1>3. HoldsAt(BitsOf(z), D[m], N[m], Off(N, P, m))
  BY <1>0, <1>1, Zenon DEF Holds
<1>4. /\ DOMAIN d = Decoder /\ HasRead(d, z, N, P, m) /\ d.out = SubSeq(s, 1, S[m + 1])
      /\ d.free = FirstCode + m - 1
  BY Zenon DEF DecInv
<1>5. f.code = NoCode /\ Retained(d, f)
  <2> HIDE DEF m, f
  <2>1. ReadCode(d).code = NoCode /\ Retained(d, ReadCode(d))
    BY <1>0, <1>2, <1>3, <1>4, NoMore, Zenon
  <2> QED BY <2>1, Zenon DEF f
<1>6. g = [f EXCEPT !.state = "end"]
  <2>1. f.code = NoCode
    BY <1>5, Zenon
  <2>2. f.free \in Nat
    <3>1. f.free = FirstCode + m - 1 /\ FirstCode \in Nat
      BY <1>4, <1>5, CodeNumbers, Zenon DEF Retained
    <3> HIDE DEF f, m
    <3> QED BY <1>0, <3>1
  <2> QED BY <2>1, <2>2, DecodeNothing, Zenon
<1>7. g.state = "end" /\ g.out = f.out
  <2> HIDE DEF f, g
  <2>1. DOMAIN f = Decoder
    BY <1>5, Zenon DEF Retained
  <2> QED BY <1>6, <2>1 DEF Decoder
<1>8. f.out = s
  <2>1. f.out = SubSeq(s, 1, Len(s))
    BY <1>0, <1>4, <1>5, Zenon DEF Retained
  <2>2. SubSeq(s, 0 + 1, Len(s)) = s
    BY <1>0, WholePiece, Zenon
  <2>3. 0 + 1 = 1
    OBVIOUS
  <2> QED BY <2>1, <2>2, <2>3, Zenon
<1> QED BY <1>7, <1>8, Zenon DEF Ends

(* The states of the decoder.                                              *)
DecoderStart(z) ==
  [in |-> z, buf |-> <<>>, nBits |-> InitBits, free |-> FirstCode,
   code |-> NoCode, prev |-> <<>>, table |-> NoEntries, out |-> <<>>, state |-> "more"]
DecoderRun(f, d0, n) == f = [k \in 0 .. n |-> IF k = 0 THEN FirstByte(d0) ELSE DecodeNext(f[k - 1])]

LEMMA DecoderRuns ==
  ASSUME NEW d0, NEW n \in Nat
  PROVE  \E f : DecoderRun(f, d0, n)
<1> DEFINE P == {m \in 0 .. n : \E f : DecoderRun(f, d0, m)}
<1>1. 0 \in P
  <2> DEFINE f == [k \in 0 .. 0 |-> FirstByte(d0)]
  <2>1. DecoderRun(f, d0, 0)
    <3>1. \A k \in 0 .. 0 : k = 0
      OBVIOUS
    <3>2. f = [k \in 0 .. 0 |-> IF k = 0 THEN FirstByte(d0) ELSE DecodeNext(f[k - 1])]
      BY <3>1
    <3> QED BY <3>2, Zenon DEF DecoderRun
  <2> HIDE DEF f
  <2> QED BY <2>1
<1>2. ASSUME NEW j \in 1 .. n, j - 1 \in P PROVE j \in P
  <2>1. PICK f : DecoderRun(f, d0, j - 1)
    BY <1>2
  <2> DEFINE g == [k \in 0 .. j |-> IF k = j THEN DecodeNext(f[j - 1]) ELSE f[k]]
  <2>2. \A k \in 0 .. j - 1 : f[k] = IF k = 0 THEN FirstByte(d0) ELSE DecodeNext(f[k - 1])
    BY <2>1 DEF DecoderRun
  <2>3. ASSUME NEW k \in 0 .. j PROVE g[k] = IF k = 0 THEN FirstByte(d0) ELSE DecodeNext(g[k - 1])
    <3>1. CASE k = 0
      <4>1. k # j /\ k \in 0 .. j - 1
        BY <3>1
      <4>2. g[k] = f[k]
        BY <4>1
      <4> QED BY <2>2, <3>1, <4>1, <4>2, Zenon
    <3>2. CASE k # 0
      <4>1. k - 1 \in 0 .. j - 1 /\ k - 1 \in 0 .. j /\ k - 1 # j
        BY <3>2
      <4>2. g[k - 1] = f[k - 1]
        BY <4>1
      <4>3. CASE k = j
        <5>1. g[k] = DecodeNext(f[j - 1])
          BY <4>3
        <5> QED BY <3>2, <4>2, <4>3, <5>1, Zenon
      <4>4. CASE k # j
        <5>1. g[k] = f[k] /\ k \in 0 .. j - 1
          BY <4>1, <4>4
        <5> QED BY <2>2, <3>2, <4>2, <5>1, Zenon
      <4> QED BY <4>3, <4>4
    <3> QED BY <3>1, <3>2
  <2>4. g = [k \in 0 .. j |-> g[k]]
    OBVIOUS
  <2> HIDE DEF g
  <2>5. DecoderRun(g, d0, j)
    BY <2>3, <2>4, Zenon DEF DecoderRun
  <2> QED BY <2>5
<1> HIDE DEF P
<1>3. n \in P
  BY <1>1, <1>2, UpTo
<1> QED BY <1>3 DEF P

LEMMA DecodeIs ==
  ASSUME NEW z, Len(z) \in Nat
  PROVE  \E f : DecoderRun(f, DecoderStart(z), Len(z) + 1) /\ Decode(z) = f[Len(z) + 1]
<1> DEFINE f == CHOOSE h : DecoderRun(h, DecoderStart(z), Len(z) + 1)
<1>1. Len(z) + 1 \in Nat
  OBVIOUS
<1>2. DecoderRun(f, DecoderStart(z), Len(z) + 1)
  BY <1>1, DecoderRuns, Zenon
<1>3. Decode(z) = f[Len(z) + 1]
  BY Zenon DEF Decode, DecoderRun, DecoderStart
<1> QED BY <1>2, <1>3, Zenon

(* The first byte.                                                         *)
LEMMA DecodeFirst ==
  ASSUME NEW z, NEW s, NEW D, NEW N, NEW P, NEW S, Coded(z, s, D, N, P, S)
  PROVE  DecInv(FirstByte(DecoderStart(z)), z, s, N, P, S, 1)
<1> DEFINE m == Len(D)
           d == DecoderStart(z)
           f == ReadCode(d)
           g == FirstByte(d)
           c == D[1]
<1>0. /\ s \in Seq(Byte) /\ z \in Seq(Octet) /\ m \in Nat \ {0} /\ Grid(N, P, m)
      /\ Cuts(S, m + 1, Len(s)) /\ Holds(BitsOf(z), D, N, P) /\ CodedBy(D, S, s)
  BY Zenon DEF Coded
<1>1. 1 \in 1 .. m /\ m \in Nat /\ 1 - 1 = 0 /\ 1 + 1 = 2
  BY <1>0
<1>2. Place(N, P, 1)
  BY <1>0, <1>1, Places, Zenon
<1>3. HoldsAt(BitsOf(z), c, N[1], Off(N, P, 1))
  BY <1>0, <1>1, Zenon DEF Holds
<1>4. /\ DOMAIN d = Decoder /\ d.in = z /\ d.buf = <<>> /\ d.nBits = InitBits /\ d.free = FirstCode
      /\ d.out = <<>> /\ d.table = NoEntries /\ d.state = "more"
  BY DEF DecoderStart, Decoder
<1> HIDE DEF d, m
<1>5. Awaits(d, z, N, P, 1)
  BY <1>0, <1>4, FirstAwaits, Zenon
<1>6. CodeRead(d, f, z, N, P, 1, c)
  BY <1>0, <1>2, <1>3, <1>5, ReadIt, Zenon
<1>7. /\ HasRead(f, z, N, P, 1) /\ f.code = c /\ DOMAIN f = Decoder /\ f.free = FirstCode
      /\ f.table = NoEntries /\ f.out = <<>> /\ f.state = "more"
  BY <1>4, <1>6, Zenon DEF CodeRead, Retained
<1>8. Made(c, 0) /\ Text(s, S, c) = SubSeq(s, S[1] + 1, S[2])
  BY <1>0, <1>1, Zenon DEF CodedBy, m
<1>9. Clear \in Nat /\ FirstCode = Clear + 1 /\ FirstCode \in Nat
  BY CodeNumbers
<1>10. c \in Nat /\ c < Clear /\ ~(c >= Clear) /\ c # NoCode
  <2>1. ~(c \in Nat /\ FirstCode <= c /\ c < FirstCode + 0)
    BY <1>9
  <2>2. c \in Byte
    BY <1>8, <2>1, Zenon DEF Made
  <2> QED BY <1>9, <2>2 DEF Byte, NoCode
<1>11. g = [f EXCEPT !.out = Append(@, f.code), !.prev = <<f.code>>]
  BY <1>7, <1>10, Zenon DEF FirstByte
<1> HIDE DEF f, g, c
<1>12. /\ DOMAIN g = Decoder /\ g.in = f.in /\ g.buf = f.buf /\ g.nBits = f.nBits /\ g.state = "more"
       /\ g.free = FirstCode /\ g.table = NoEntries /\ g.out = <<c>> /\ g.prev = <<c>>
  BY <1>7, <1>11 DEF Decoder
<1>13. <<c>> = SubSeq(s, S[1] + 1, S[2])
  BY <1>8, <1>10, Zenon DEF Text
<1>14. SubSeq(s, S[1] + 1, S[2]) = SubSeq(s, 1, S[2])
  <2>1. S[1] = 0
    BY <1>0, Zenon DEF Cuts
  <2>2. 0 + 1 = 1
    OBVIOUS
  <2> QED BY <2>1, <2>2, Zenon
<1>15. TableInv(g.table, s, S, 1)
  <2>1. DOMAIN g.table = {}
    BY <1>12 DEF NoEntries
  <2>2. FirstCode .. FirstCode + 1 - 2 = {}
    BY <1>9
  <2> QED BY <2>1, <2>2, Zenon DEF TableInv
<1>16. HasRead(g, z, N, P, 1)
  BY <1>7, <1>12, Zenon DEF HasRead
<1>17. FirstCode + 1 - 1 = FirstCode
  BY <1>9
<1> QED BY <1>1, <1>12, <1>13, <1>14, <1>15, <1>16, <1>17, Zenon DEF DecInv, g, d

(* There are no more codes than bytes.                                     *)
LEMMA CodesFit ==
  ASSUME NEW z, NEW s, NEW D, NEW N, NEW P, NEW S, Coded(z, s, D, N, P, S)
  PROVE  Len(D) <= Len(z) + 1
<1> DEFINE m == Len(D)
           Q == {i \in 0 .. m - 1 : W * i <= Off(N, P, i + 1)}
<1>0. /\ z \in Seq(Octet) /\ m \in Nat \ {0} /\ Grid(N, P, m) /\ Holds(BitsOf(z), D, N, P)
  BY Zenon DEF Coded
<1>1. W \in Nat \ {0} /\ Len(z) \in Nat
  BY <1>0, CodeAssumption, LenProperties
<1>2. 0 \in Q
  <2>1. 1 \in 1 .. m /\ m \in Nat
    BY <1>0
  <2>2. Off(N, P, 1) \in Nat
    BY <1>0, <2>1, Places, Zenon DEF Place
  <2>3. W * 0 = 0 /\ 0 + 1 = 1 /\ 0 \in 0 .. m - 1
    BY <1>0, <1>1
  <2>4. 0 <= Off(N, P, 1)
    BY <2>2
  <2> HIDE DEF m
  <2> QED BY <2>3, <2>4
<1> HIDE DEF m
<1>3. ASSUME NEW j \in 1 .. m - 1, j - 1 \in Q PROVE j \in Q
  <2>1. /\ j \in 1 .. m /\ m \in Nat /\ (j - 1) + 1 = j /\ j - 1 \in Nat /\ j \in 0 .. m - 1 /\ j \in Nat
        /\ j + 1 \in 1 .. m
    BY <1>0
  <2>2. W * (j - 1) <= Off(N, P, j)
    BY <1>3, <2>1, Zenon
  <2>3. Off(N, P, j + 1) = Off(N, P, j) + N[j]
    <3>1. NextPlace(N, P, j)
      BY <1>0, <1>3, <2>1, NextPlaces
    <3> QED BY <3>1, Zenon DEF NextPlace
  <2>4. Off(N, P, j) \in Nat /\ N[j] \in Nat /\ N[j] > W
    BY <1>0, <2>1, Places, Zenon DEF Place
  <2>5. W * j = W * (j - 1) + W /\ W * (j - 1) \in Nat
    <3> DEFINE i == j - 1
    <3>1. i \in Nat /\ j = i + 1
      BY <2>1
    <3> HIDE DEF i
    <3>2. W * (i + 1) = W * i + W * 1 /\ W * i \in Nat
      BY <1>1, <3>1, Scaling
    <3>3. W * 1 = W
      BY <1>1
    <3> QED BY <3>1, <3>2, <3>3, Zenon DEF i
  <2> DEFINE x == W * (j - 1)
             y == W * j
             o == Off(N, P, j)
             q == Off(N, P, j + 1)
             n == N[j]
  <2>6. x <= o /\ q = o + n /\ o \in Nat /\ n \in Nat /\ n > W /\ y = x + W /\ x \in Nat
    BY <2>2, <2>3, <2>4, <2>5, Zenon
  <2> HIDE DEF x, y, o, q, n
  <2>7. y <= q
    BY <1>1, <2>6
  <2> QED BY <2>1, <2>7, Zenon DEF y, q
<1> HIDE DEF Q
<1>4. m - 1 \in Q
  <2>1. m - 1 \in Nat /\ m - 1 \in 0 .. m - 1
    BY <1>0
  <2>2. 0 .. m - 1 \subseteq Q
    BY <1>2, <1>3, <2>1, UpTo
  <2> QED BY <2>1, <2>2, Zenon
<1>5. W * (m - 1) <= Off(N, P, m)
  <2>1. (m - 1) + 1 = m
    BY <1>0
  <2> QED BY <1>4, <2>1, Zenon DEF Q
<1>6. Off(N, P, m) + N[m] <= W * Len(z) /\ Off(N, P, m) \in Nat /\ N[m] \in Nat
  <2>1. m \in 1 .. m /\ m \in Nat
    BY <1>0
  <2>2. HoldsAt(BitsOf(z), D[m], N[m], Off(N, P, m))
    BY <1>0, <2>1, Zenon DEF Holds, m
  <2>3. Off(N, P, m) \in Nat /\ N[m] \in Nat
    BY <1>0, <2>1, Places, Zenon DEF Place
  <2>4. Len(BitsOf(z)) = W * Len(z)
    BY <1>0, BitsOfAt
  <2> QED BY <2>2, <2>3, <2>4, Zenon DEF HoldsAt
<1> DEFINE k == m - 1
           l == Len(z)
           x == W * k
           t == W * l
<1>7. k \in Nat /\ l \in Nat /\ m = k + 1
  BY <1>0, <1>1
<1>8. x \in Nat /\ t \in Nat
  <2> HIDE DEF k, l
  <2> QED BY <1>1, <1>7, Scaling
<1>9. x < t + W
  <2> DEFINE o == Off(N, P, m)
             n == N[m]
  <2>1. x <= o /\ o + n <= t /\ o \in Nat /\ n \in Nat
    BY <1>5, <1>6, Zenon
  <2> HIDE DEF x, t, o, n
  <2> QED BY <1>1, <1>8, <2>1
<1>10. k <= l
  <2> HIDE DEF k, l
  <2> QED BY <1>1, <1>7, <1>9, Unscale
<1>11. m <= l + 1
  <2> HIDE DEF k, l
  <2> QED BY <1>7, <1>10
<1> QED BY <1>11 DEF l, m

(* So what uncompress makes of it is the file.                             *)
LEMMA DecodeTells ==
  ASSUME NEW z, NEW s, NEW D, NEW N, NEW P, NEW S, Coded(z, s, D, N, P, S)
  PROVE  Decode(z).out = s
<1> DEFINE m == Len(D)
           n == Len(z) + 1
           Decoding(g, i) == IF i < m THEN DecInv(g, z, s, N, P, S, i + 1)
                                      ELSE g.state = "end" /\ g.out = s
<1>0. z \in Seq(Octet) /\ m \in Nat \ {0}
  BY Zenon DEF Coded
<1>1. Len(z) \in Nat /\ n \in Nat
  BY <1>0
<1>2. PICK f : DecoderRun(f, DecoderStart(z), n) /\ Decode(z) = f[n]
  BY <1>1, DecodeIs, Zenon
<1>3. \A k \in 0 .. n : f[k] = IF k = 0 THEN FirstByte(DecoderStart(z)) ELSE DecodeNext(f[k - 1])
  BY <1>2 DEF DecoderRun
<1> DEFINE Q == {i \in 0 .. n : Decoding(f[i], i)}
<1>4. m <= n
  BY CodesFit
<1> HIDE DEF n, m
<1>5. 0 \in Q
  <2>1. 0 \in 0 .. n /\ 0 < m /\ 0 + 1 = 1
    BY <1>0, <1>1
  <2>2. f[0] = FirstByte(DecoderStart(z))
    BY <1>3, <2>1, Zenon
  <2>3. DecInv(f[0], z, s, N, P, S, 0 + 1)
    BY <2>1, <2>2, DecodeFirst, Zenon
  <2> QED BY <2>1, <2>3, Zenon
<1>6. ASSUME NEW j \in 1 .. n, j - 1 \in Q PROVE j \in Q
  <2>1. j \in 0 .. n /\ j # 0 /\ (j - 1) + 1 = j /\ j \in Nat
    BY <1>1
  <2>2. f[j] = DecodeNext(f[j - 1])
    BY <1>3, <2>1, Zenon
  <2>3. Decoding(f[j - 1], j - 1)
    BY <1>6, Zenon
  <2>4. CASE j - 1 < m
    <3>1. DecInv(f[j - 1], z, s, N, P, S, j)
      BY <2>1, <2>3, <2>4, Zenon
    <3>2. f[j] = DecodeCode(f[j - 1])
      BY <2>2, <3>1, Zenon DEF DecodeNext, DecInv
    <3>3. CASE j < m
      <4>1. j \in 1 .. m - 1
        BY <1>0, <3>3
      <4>2. DecInv(f[j], z, s, N, P, S, j + 1)
        BY <3>1, <3>2, <4>1, DecodeOne, Zenon DEF m
      <4> QED BY <2>1, <3>3, <4>2, Zenon
    <3>4. CASE ~(j < m)
      <4>1. j = m
        BY <1>0, <2>1, <2>4, <3>4
      <4>2. f[j].state = "end" /\ f[j].out = s
        <5>1. DecInv(f[j - 1], z, s, N, P, S, Len(D))
          BY <3>1, <4>1, Zenon DEF m
        <5>2. Coded(z, s, D, N, P, S)
          OBVIOUS
        <5>3. Ends(DecodeCode(f[j - 1]), z, s, D, N, P, S)
          BY <5>1, <5>2, DecodeEnd, Zenon
        <5> QED BY <3>2, <5>3, Zenon DEF Ends
      <4> QED BY <2>1, <3>4, <4>2, Zenon
    <3> QED BY <3>3, <3>4
  <2>5. CASE ~(j - 1 < m)
    <3>1. f[j - 1].state = "end" /\ f[j - 1].out = s
      BY <2>3, <2>5, Zenon
    <3>2. "end" # "more"
      OBVIOUS
    <3>3. f[j] = f[j - 1]
      BY <2>2, <3>1, <3>2, Zenon DEF DecodeNext
    <3>4. ~(j < m)
      BY <1>0, <2>1, <2>5
    <3> QED BY <2>1, <3>1, <3>3, <3>4, Zenon
  <2> QED BY <2>4, <2>5
<1> HIDE DEF Q
<1>7. n \in Q
  <2>1. 0 .. n \subseteq Q
    BY <1>1, <1>5, <1>6, UpTo
  <2>2. n \in 0 .. n
    BY <1>1
  <2> QED BY <2>1, <2>2, Zenon
<1>8. ~(n < m)
  BY <1>0, <1>1, <1>4
<1> QED BY <1>2, <1>7, <1>8, Zenon DEF Q

LEMMA DropFront ==
  ASSUME NEW T, NEW u \in Seq(T), NEW v \in Seq(T)
  PROVE  SubSeq(u \o v, Len(u) + 1, Len(u \o v)) = v
<1> DEFINE w == u \o v
           m == Len(u)
           n == Len(v)
           x == SubSeq(w, m + 1, Len(w))
<1>1. m \in Nat /\ n \in Nat
  OBVIOUS
<1>2. w \in Seq(T) /\ Len(w) = m + n
  BY ConcatProperties
<1>3. \A i \in 1 .. m + n : w[i] = IF i <= m THEN u[i] ELSE v[i - m]
  BY ConcatProperties
<1> HIDE DEF w, m, n
<1>4. m <= Len(w) /\ Len(w) <= Len(w) /\ Len(w) \in Nat /\ Len(w) - m = n
  BY <1>1, <1>2
<1>5. x \in Seq(T) /\ Len(x) = n /\ \A i \in 1 .. n : x[i] = w[m + i]
  BY <1>1, <1>2, <1>4, PieceOf
<1>6. ASSUME NEW i \in 1 .. Len(x) PROVE x[i] = v[i]
  <2>1. m + i \in 1 .. m + n /\ ~(m + i <= m) /\ (m + i) - m = i /\ i \in 1 .. n
    BY <1>1, <1>5
  <2>2. w[m + i] = v[i]
    BY <1>3, <2>1
  <2> QED BY <1>5, <2>1, <2>2, Zenon
<1> HIDE DEF x
<1>7. x = v
  BY <1>5, <1>6, SeqEqual DEF n
<1> QED BY <1>7 DEF x, w, m

(* There is nothing to decode.                                             *)
LEMMA DecodeEmpty == Decode(<<>>).out = <<>>
<1> DEFINE z == <<>>
           d == DecoderStart(z)
           f == ReadCode(d)
           w == NextWidth(d)
           l == IF w <= Len(d.in) THEN w ELSE Len(d.in)
           bits == BitsOf(SubSeq(d.in, 1, l))
           g == FirstByte(d)
<1>0. Len(z) = 0 /\ z = <<>> /\ z \in Seq(Octet)
  OBVIOUS
<1> HIDE DEF z
<1>1. /\ DOMAIN d = Decoder /\ d.in = z /\ d.buf = <<>> /\ d.nBits = InitBits /\ d.out = <<>>
  BY DEF DecoderStart, Decoder
<1>2. W \in Nat \ {0} /\ InitBits \in Nat /\ InitBits > 0
  BY CodeAssumption DEF InitBits
<1> HIDE DEF d
<1>3. w \in Nat /\ w > 0
  BY <1>1, <1>2 DEF NextWidth
<1>4. Read(d, f, w, SubSeq(d.in, w + 1, Len(d.in)), bits)
  BY <1>1, ReadFresh, Zenon
<1>5. ~(Len(bits) >= w)
  <2>1. l = 0
    BY <1>0, <1>1, <1>3
  <2>2. SubSeq(d.in, 1, l) = z
    BY <1>0, <1>1, <2>1
  <2>3. Len(BitsOf(z)) = W * Len(z)
    BY <1>0, BitsOfAt, Zenon
  <2>4. W * 0 = 0
    BY <1>2
  <2>5. Len(bits) = 0
    BY <1>0, <2>2, <2>3, <2>4, Zenon
  <2> HIDE DEF w, bits
  <2> QED BY <1>3, <2>5
<1>6. f.code = NoCode /\ DOMAIN f = Decoder /\ f.out = <<>>
  BY <1>1, <1>4, <1>5, Zenon DEF Read
<1>7. g = [f EXCEPT !.state = "end"]
  BY <1>6, Zenon DEF FirstByte
<1> HIDE DEF f, g
<1>8. g.state = "end" /\ g.out = <<>>
  BY <1>6, <1>7 DEF Decoder
<1>9. Len(z) \in Nat /\ Len(z) + 1 = 1
  BY <1>0
<1>10. PICK h : DecoderRun(h, d, 1) /\ Decode(z) = h[1]
  BY <1>9, DecodeIs, Zenon DEF d
<1>11. h[0] = g /\ h[1] = DecodeNext(h[0])
  <2>1. \A k \in 0 .. 1 : h[k] = IF k = 0 THEN FirstByte(d) ELSE DecodeNext(h[k - 1])
    BY <1>10 DEF DecoderRun
  <2>2. 0 \in 0 .. 1 /\ 1 \in 0 .. 1 /\ 1 # 0 /\ 1 - 1 = 0
    OBVIOUS
  <2> QED BY <2>1, <2>2, Zenon DEF g
<1>12. h[1] = g
  <2>1. "end" # "more"
    OBVIOUS
  <2> QED BY <1>8, <1>11, <2>1, Zenon DEF DecodeNext
<1> QED BY <1>0, <1>8, <1>10, <1>12, Zenon

(* The codec gives back every file that does not fill the table: a code    *)
(* is put out in bits that the decoder finds at the same place and width,  *)
(* and stands for the same bytes on both sides.                            *)
THEOREM CodecIsInverse == CodecInverts
<1> SUFFICES ASSUME NEW s \in Inputs, ~Clears(s) PROVE Unpacked(Packed(s)) = {s}
  BY Zenon DEF CodecInverts
<1>1. s \in Seq(Byte)
  <2>1. Alphabet \subseteq Byte
    BY CodeAssumption DEF Byte, Clear
  <2>2. PICK n \in 0 .. MaxLength : s \in [1 .. n -> Alphabet]
    BY DEF Inputs
  <2>3. MaxLength \in Nat
    BY CodeAssumption
  <2>4. n \in Nat
    BY <2>3
  <2>5. s \in [1 .. n -> Byte]
    BY <2>1, <2>2
  <2> QED BY <2>4, <2>5
<1> DEFINE x == IF s = <<>> THEN <<>> ELSE Encode(s).out
           T == Octet \cup {<<"magic1">>, <<"magic2">>, <<"maxBits">>}
           z == Packed(s)
<1>2. x \in Seq(Octet) /\ Decode(x).out = s
  <2>1. CASE s = <<>>
    <3>1. x = <<>> /\ <<>> \in Seq(Octet)
      BY <2>1
    <3> QED BY <2>1, <3>1, DecodeEmpty, Zenon
  <2>2. CASE s # <<>>
    <3>1. PICK D, N, P, S : Coded(Encode(s).out, s, D, N, P, S)
      BY <1>1, <2>2, EncodeTells, Zenon
    <3>2. Encode(s).out \in Seq(Octet)
      BY <3>1, Zenon DEF Coded
    <3> QED BY <2>2, <3>1, <3>2, DecodeTells, Zenon
  <2> QED BY <2>1, <2>2
<1>3. z = Magic \o x
  BY DEF Packed
<1>4. Magic \in Seq(T) /\ Len(Magic) = 3
  BY DEF Magic
<1> HIDE DEF x, z
<1>5. x \in Seq(T)
  BY <1>2
<1> HIDE DEF T
<1>6. Len(z) = 3 + Len(x) /\ Len(x) \in Nat
  <2>1. Len(Magic \o x) = Len(Magic) + Len(x)
    BY <1>4, <1>5, ConcatProperties, Zenon
  <2>2. Len(x) \in Nat
    BY <1>5, LenProperties, Zenon
  <2> QED BY <1>3, <1>4, <2>1, <2>2
<1>7. SubSeq(z, 4, Len(z)) = x
  <2>1. SubSeq(z, Len(Magic) + 1, Len(z)) = x
    BY <1>3, <1>4, <1>5, DropFront, Zenon
  <2>2. 3 + 1 = 4
    OBVIOUS
  <2> QED BY <1>4, <2>1, <2>2, Zenon
<1>8. ~(Len(z) < 3)
  BY <1>6
<1>9. Unpacked(z) = {s}
  BY <1>2, <1>7, <1>8, Zenon DEF Unpacked
<1> QED BY <1>9 DEF z

-----------------------------------------------------------------------------
(* compress and uncompress: the frontend. *)

(* The source of the command that runs is whole, and so is the target once *)
(* it is written; between commands one of the two is.                      *)
Sound(cmd) ==
  SourceOf(cmd) = {IF cmd.name = "compress" THEN data ELSE Packed(data)}
FrontendIInv ==
  /\ cpc \in {"new", "idle", "created", "written"}
  /\ cpc # "new" => data \in Inputs
  /\ cpc \in {"created", "written"} => ccmd \in Cmds /\ Sound(ccmd)
  /\ cpc = "written" => TargetOf(ccmd) = {IF ccmd.name = "compress" THEN Packed(data) ELSE data}
  /\ cpc = "idle" => plain = {data} \/ packed = {Packed(data)}

(* A command of the frontend changes its target and leaves its source.     *)
LEMMA WriteToFacts ==
  ASSUME NEW cmd \in Cmds, NEW s, WriteTo(cmd, s), data' = data
  PROVE  (Sound(cmd) <=> Sound(cmd)') /\ TargetOf(cmd)' = {s} /\ SourceOf(cmd)' = SourceOf(cmd)
  BY DEF WriteTo, Sound, SourceOf, TargetOf

(* What the frontend does keeps the file, for the codec inverts itself on  *)
(* it: compress and uncompress lose nothing, wherever they fail or are     *)
(* killed.                                                                 *)
THEOREM FrontendLosesNothing == CompressSpec => []NothingLost
<1> DEFINE Inv == FrontendIInv \/ (cpc # "new" /\ Clears(data))
<1>1. CompressInit => FrontendIInv
  BY DEF CompressInit, FrontendIInv
<1>2. ASSUME NEW cmd \in Cmds, data \in Inputs, ~Clears(data), Sound(cmd)
      PROVE  Transform(cmd) = {IF cmd.name = "compress" THEN Packed(data) ELSE data}
  <2>1. CASE cmd.name = "compress"
    <3>1. plain = {data}
      BY <1>2, <2>1 DEF Sound, SourceOf
    <3> QED BY <2>1, <3>1 DEF Transform
  <2>2. CASE cmd.name # "compress"
    <3>1. packed = {Packed(data)}
      BY <1>2, <2>2 DEF Sound, SourceOf
    <3>2. Unpacked(Packed(data)) = {data}
      BY <1>2, CodecIsInverse DEF CodecInverts
    <3>3. UNION {Unpacked(z) : z \in {Packed(data)}} = Unpacked(Packed(data))
      BY Zenon
    <3> QED BY <2>2, <3>1, <3>2, <3>3, Zenon DEF Transform
  <2> QED BY <2>1, <2>2
<1>3. ASSUME FrontendIInv, ~Clears(data), [CompressNext]_cvars, cpc # "new"
      PROVE  FrontendIInv' /\ data' = data
  <2> USE DEF FrontendIInv
  <2>0. data \in Inputs
    BY <1>3
  <2>1. CASE WriteFile
    BY <1>3, <2>1 DEF WriteFile
  <2>2. CASE Create
    <3>1. data' = data /\ cpc = "idle"
      BY <2>2 DEF Create
    <3>2. PICK cmd \in Cmds :
            /\ Informed(cmd)
            /\ IF SourceOf(cmd) = {} \/ (TargetOf(cmd) # {} /\ ~cmd.force)
               THEN UNCHANGED <<cpc, plain, packed, ccmd>>
               ELSE cpc' = "created" /\ ccmd' = cmd /\ WriteTo(cmd, <<>>)
      BY <2>2 DEF Create
    <3>3. CASE SourceOf(cmd) = {} \/ (TargetOf(cmd) # {} /\ ~cmd.force)
      BY <1>3, <3>1, <3>2, <3>3
    <3>4. CASE ~(SourceOf(cmd) = {} \/ (TargetOf(cmd) # {} /\ ~cmd.force))
      <4>1. cpc' = "created" /\ ccmd' = cmd /\ WriteTo(cmd, <<>>)
        BY <3>2, <3>4
      <4>2. Sound(cmd)
        <5>1. CASE TargetOf(cmd) = {}
          BY <1>3, <3>1, <5>1 DEF Sound, SourceOf, TargetOf
        <5>2. CASE TargetOf(cmd) # {}
          BY <3>2, <3>4, <5>2 DEF Informed, Sound
        <5> QED BY <5>1, <5>2
      <4>3. Sound(cmd)'
        BY <3>1, <4>1, <4>2, WriteToFacts
      <4>4. Sound(ccmd)'
        BY <3>1, <4>1, <4>3 DEF Sound, SourceOf
      <4> QED BY <2>0, <3>1, <4>1, <4>4
    <3> QED BY <3>3, <3>4
  <2>3. CASE WriteResult
    <3>1. data' = data /\ cpc = "created" /\ cpc' = "written" /\ ccmd' = ccmd /\ ccmd \in Cmds /\ Sound(ccmd)
      BY <1>3, <2>3 DEF WriteResult
    <3>2. PICK s \in Transform(ccmd) : WriteTo(ccmd, s)
      BY <2>3 DEF WriteResult
    <3>3. s = IF ccmd.name = "compress" THEN Packed(data) ELSE data
      BY <1>2, <1>3, <2>0, <3>1, <3>2
    <3>4. SourceOf(ccmd)' = SourceOf(ccmd) /\ TargetOf(ccmd)' = {s}
      BY <3>1, <3>2 DEF SourceOf, TargetOf, WriteTo
    <3>5. Sound(ccmd)'
      BY <3>1, <3>4 DEF Sound
    <3>6. (TargetOf(ccmd) = {IF ccmd.name = "compress" THEN Packed(data) ELSE data})'
      BY <3>1, <3>3, <3>4
    <3> QED BY <2>0, <3>1, <3>5, <3>6
  <2>4. CASE WriteFails
    <3>1. data' = data /\ cpc = "created" /\ cpc' = "idle" /\ ccmd' = ccmd /\ ccmd \in Cmds /\ Sound(ccmd)
      BY <1>3, <2>4 DEF WriteFails
    <3>2. SourceOf(ccmd)' = SourceOf(ccmd)
      BY <2>4, <3>1 DEF WriteFails, CutShort, WriteTo, SourceOf
    <3>3. Sound(ccmd)'
      BY <3>1, <3>2 DEF Sound
    <3>4. plain' = {data} \/ packed' = {Packed(data)}
      BY <3>1, <3>3 DEF Sound, SourceOf
    <3> QED BY <2>0, <3>1, <3>4
  <2>5. CASE RemoveFile
    <3>1. data' = data /\ cpc = "written" /\ cpc' = "idle" /\ ccmd' = ccmd /\ ccmd \in Cmds
      BY <1>3, <2>5 DEF RemoveFile
    <3>2. TargetOf(ccmd) = {IF ccmd.name = "compress" THEN Packed(data) ELSE data}
      BY <1>3, <3>1
    <3>3. TargetOf(ccmd)' = TargetOf(ccmd)
      BY <2>5, <3>1 DEF RemoveFile, RemoveSource, TargetOf
    <3>4. plain' = {data} \/ packed' = {Packed(data)}
      BY <3>1, <3>2, <3>3 DEF TargetOf
    <3> QED BY <2>0, <3>1, <3>4
  <2>6. CASE UNCHANGED cvars
    BY <1>3, <2>6 DEF cvars, Sound, SourceOf, TargetOf
  <2> QED BY <1>3, <2>1, <2>2, <2>3, <2>4, <2>5, <2>6 DEF CompressNext
<1>4. ASSUME FrontendIInv, [CompressNext]_cvars, cpc = "new" PROVE FrontendIInv'
  BY <1>4 DEF FrontendIInv, CompressNext, WriteFile, Create, WriteResult, WriteFails, RemoveFile, cvars
<1>5. ASSUME cpc # "new", Clears(data), [CompressNext]_cvars
      PROVE  (cpc # "new" /\ Clears(data))'
  <2>1. data' = data /\ cpc' # "new"
    BY <1>5 DEF CompressNext, WriteFile, Create, WriteResult, WriteFails, RemoveFile, cvars
  <2> QED BY <1>5, <2>1
<1>6. Inv /\ [CompressNext]_cvars => Inv'
  BY <1>3, <1>4, <1>5, Zenon
<1>7. Inv => NothingLost
  <2>1. ASSUME FrontendIInv, ~Clears(data), cpc # "new"
        PROVE  plain = {data} \/ \E z \in packed : Unpacked(z) = {data}
    <3>1. data \in Inputs /\ Unpacked(Packed(data)) = {data}
      BY <2>1, CodecIsInverse DEF FrontendIInv, CodecInverts
    <3>2. plain = {data} \/ packed = {Packed(data)}
      BY <2>1, <3>1 DEF FrontendIInv, Sound, SourceOf
    <3> QED BY <3>1, <3>2
  <2> QED BY <2>1 DEF NothingLost, ComesBack
<1> QED BY <1>1, <1>6, <1>7, PTL DEF CompressSpec

-----------------------------------------------------------------------------
(* Paths. *)

(* What a prefix is, element by element.                                   *)
LEMMA PrefixAt ==
  ASSUME NEW S, NEW p \in Seq(S), NEW q \in Seq(S)
  PROVE  IsPrefix(p, q) <=> Len(p) <= Len(q) /\ \A i \in 1 .. Len(p) : p[i] = q[i]
<1>1. ASSUME Len(p) <= Len(q)
      PROVE  (SubSeq(p, 1, Len(p)) = SubSeq(q, 1, Len(p))) <=> \A i \in 1 .. Len(p) : p[i] = q[i]
  <2> DEFINE a == SubSeq(p, 1, Len(p))
             b == SubSeq(q, 1, Len(p))
  <2>1. a \in Seq(S) /\ Len(a) = Len(p) /\ \A i \in 1 .. Len(p) : a[i] = p[i]
    OBVIOUS
  <2>2. b \in Seq(S) /\ Len(b) = Len(p) /\ \A i \in 1 .. Len(p) : b[i] = q[i]
    BY <1>1
  <2> HIDE DEF a, b
  <2>3. (a = b) <=> \A i \in 1 .. Len(p) : a[i] = b[i]
    BY <2>1, <2>2, SeqEqual
  <2> QED BY <2>1, <2>2, <2>3 DEF a, b
<1> QED BY <1>1 DEF IsPrefix

LEMMA SamePath ==
  ASSUME NEW S, NEW p \in Seq(S), NEW q \in Seq(S)
  PROVE  p = q <=> Len(p) = Len(q) /\ \A i \in 1 .. Len(p) : p[i] = q[i]
  BY SeqEqual

LEMMA PrefixOrder ==
  ASSUME NEW S, NEW p \in Seq(S), NEW q \in Seq(S), NEW r \in Seq(S)
  PROVE  /\ IsPrefix(p, p)
         /\ IsPrefix(p, q) => Len(p) <= Len(q)
         /\ IsPrefix(p, q) /\ Len(p) = Len(q) => p = q
         /\ IsPrefix(p, q) /\ IsPrefix(q, p) => p = q
         /\ IsPrefix(p, q) /\ IsPrefix(q, r) => IsPrefix(p, r)
         /\ IsPrefix(p, r) /\ IsPrefix(q, r) => IsPrefix(p, q) \/ IsPrefix(q, p)
<1> Len(p) \in Nat /\ Len(q) \in Nat /\ Len(r) \in Nat
  OBVIOUS
<1>1. IsPrefix(p, p) /\ (IsPrefix(p, q) => Len(p) <= Len(q))
  BY PrefixAt
<1>2. IsPrefix(p, q) /\ Len(p) = Len(q) => p = q
  BY PrefixAt, SamePath
<1>3. IsPrefix(p, q) /\ IsPrefix(q, p) => p = q
  BY <1>2, PrefixAt
<1>4. IsPrefix(p, q) /\ IsPrefix(q, r) => IsPrefix(p, r)
  BY PrefixAt
<1>5. IsPrefix(p, r) /\ IsPrefix(q, r) => IsPrefix(p, q) \/ IsPrefix(q, p)
  BY PrefixAt
<1> QED BY <1>1, <1>2, <1>3, <1>4, <1>5

LEMMA FrontFacts ==
  ASSUME NEW S, NEW p \in Seq(S), p # <<>>
  PROVE  /\ Parent(p) \in Seq(S) /\ Len(Parent(p)) = Len(p) - 1 /\ Len(p) \in Nat \ {0}
         /\ \A i \in 1 .. Len(p) - 1 : Parent(p)[i] = p[i]
<1>1. Len(p) \in Nat /\ Len(p) # 0
  BY EmptySeq
<1> DEFINE n == Len(p) - 1
<1>2. n \in Nat /\ n <= Len(p)
  BY <1>1
<1>3. Parent(p) = SubSeq(p, 1, n)
  BY DEF Parent, Front
<1> HIDE DEF n
<1>4. SubSeq(p, 1, n) \in Seq(S) /\ Len(SubSeq(p, 1, n)) = n
  BY <1>1, <1>2
<1>5. \A i \in 1 .. n : SubSeq(p, 1, n)[i] = p[i]
  BY <1>1, <1>2
<1> QED BY <1>1, <1>3, <1>4, <1>5 DEF n

(* The parent is the longest of the paths above.                           *)
LEMMA ParentFacts ==
  ASSUME NEW S, NEW p \in Seq(S), p # <<>>
  PROVE  /\ Parent(p) \in Seq(S) /\ IsPrefix(Parent(p), p) /\ Parent(p) # p
         /\ \A q \in Seq(S) : IsPrefix(q, p) /\ q # p => IsPrefix(q, Parent(p))
<1>1. Parent(p) \in Seq(S) /\ Len(Parent(p)) = Len(p) - 1 /\ Len(p) \in Nat \ {0}
  BY FrontFacts
<1>2. \A i \in 1 .. Len(p) - 1 : Parent(p)[i] = p[i]
  BY FrontFacts
<1>3. IsPrefix(Parent(p), p)
  BY <1>1, <1>2, PrefixAt
<1>4. ASSUME NEW q \in Seq(S), IsPrefix(q, p), q # p PROVE IsPrefix(q, Parent(p))
  <2>1. Len(q) <= Len(p) /\ Len(q) # Len(p) /\ Len(q) \in Nat
    BY <1>4, PrefixOrder
  <2>2. \A i \in 1 .. Len(q) : q[i] = p[i]
    BY <1>4, PrefixAt
  <2> QED BY <1>1, <1>2, <2>1, <2>2, PrefixAt
<1> QED BY <1>1, <1>3, <1>4

LEMMA JoinFacts ==
  ASSUME NEW S, NEW p \in Seq(S), NEW x \in S
  PROVE  /\ Join(p, x) \in Seq(S) /\ Join(p, x) # <<>> /\ Parent(Join(p, x)) = p /\ Last(Join(p, x)) = x
         /\ IsPrefix(p, Join(p, x)) /\ Len(Join(p, x)) = Len(p) + 1
         /\ \A q \in Seq(S) : IsPrefix(q, Join(p, x)) => q = Join(p, x) \/ IsPrefix(q, p)
<1> DEFINE j == Join(p, x)
<1>1. j \in Seq(S) /\ Len(j) = Len(p) + 1 /\ Len(p) \in Nat /\ j[Len(p) + 1] = x
  BY DEF Join
<1>2. \A i \in 1 .. Len(p) : j[i] = p[i]
  BY DEF Join
<1> HIDE DEF j
<1>3. j # <<>>
  BY <1>1
<1>4. Parent(j) \in Seq(S) /\ Len(Parent(j)) = Len(j) - 1 /\ \A i \in 1 .. Len(j) - 1 : Parent(j)[i] = j[i]
  BY <1>1, <1>3, FrontFacts
<1>5. Parent(j) = p
  BY <1>1, <1>2, <1>4, SamePath
<1>6. IsPrefix(p, j)
  BY <1>1, <1>2, PrefixAt
<1>7. Last(j) = x
  BY <1>1 DEF Last
<1>8. \A q \in Seq(S) : IsPrefix(q, j) => q = j \/ IsPrefix(q, p)
  BY <1>1, <1>3, <1>5, ParentFacts
<1> QED BY <1>1, <1>3, <1>5, <1>6, <1>7, <1>8 DEF j

(* The same way on from somewhere else.                                    *)
LEMMA RebaseAt ==
  ASSUME NEW S, NEW p \in Seq(S), NEW s \in Seq(S), NEW d \in Seq(S), IsPrefix(s, p)
  PROVE  /\ Rebase(p, s, d) \in Seq(S)
         /\ Len(Rebase(p, s, d)) = (Len(d) + Len(p)) - Len(s)
         /\ \A i \in 1 .. Len(d) : Rebase(p, s, d)[i] = d[i]
         /\ \A k \in Int : k > Len(s) /\ k <= Len(p) => Rebase(p, s, d)[(Len(d) + k) - Len(s)] = p[k]
<1>1. Len(s) <= Len(p) /\ Len(s) \in Nat /\ Len(p) \in Nat /\ Len(d) \in Nat
  BY PrefixOrder
<1> DEFINE rest == SubSeq(p, Len(s) + 1, Len(p))
<1>2. rest \in Seq(S) /\ Len(rest) = Len(p) - Len(s)
  BY <1>1
<1>3. \A i \in 1 .. Len(p) - Len(s) : rest[i] = p[Len(s) + i]
  BY <1>1
<1> HIDE DEF rest
<1>4. /\ d \o rest \in Seq(S) /\ Len(d \o rest) = Len(d) + Len(rest)
      /\ \A i \in 1 .. Len(d) : (d \o rest)[i] = d[i]
      /\ \A i \in 1 .. Len(rest) : (d \o rest)[Len(d) + i] = rest[i]
  <2>1. d \o rest \in Seq(S) /\ Len(d \o rest) = Len(d) + Len(rest)
    BY <1>2, ConcatProperties
  <2>2. \A i \in 1 .. Len(d) : (d \o rest)[i] = d[i]
    BY <1>1, <1>2
  <2>3. \A i \in 1 .. Len(rest) : (d \o rest)[Len(d) + i] = rest[i]
    BY <1>1, <1>2
  <2> QED BY <2>1, <2>2, <2>3
<1>5. Rebase(p, s, d) = d \o rest
  BY DEF Rebase, rest
<1>6. ASSUME NEW k \in Int, k > Len(s), k <= Len(p) PROVE (d \o rest)[(Len(d) + k) - Len(s)] = p[k]
  <2>1. k - Len(s) \in 1 .. Len(rest) /\ Len(d) + (k - Len(s)) = (Len(d) + k) - Len(s)
    BY <1>1, <1>2, <1>6
  <2>2. Len(s) + (k - Len(s)) = k
    BY <1>1
  <2>3. (d \o rest)[Len(d) + (k - Len(s))] = rest[k - Len(s)]
    BY <1>4, <2>1, Zenon
  <2>4. rest[k - Len(s)] = p[Len(s) + (k - Len(s))]
    BY <1>2, <1>3, <2>1, Zenon
  <2> QED BY <2>1, <2>2, <2>3, <2>4, Zenon
<1> QED BY <1>2, <1>4, <1>5, <1>6, <1>1

LEMMA RebaseFacts ==
  ASSUME NEW S, NEW p \in Seq(S), NEW s \in Seq(S), NEW d \in Seq(S), IsPrefix(s, p)
  PROVE  /\ Rebase(p, s, d) \in Seq(S)
         /\ IsPrefix(d, Rebase(p, s, d))
         /\ Rebase(Rebase(p, s, d), d, s) = p
         /\ p = s <=> Rebase(p, s, d) = d
         /\ s = d => Rebase(p, s, d) = p
         /\ Rebase(p, s, d) = p => s = d
<1> DEFINE r == Rebase(p, s, d)
<1>0. Len(s) <= Len(p) /\ Len(s) \in Nat /\ Len(p) \in Nat /\ Len(d) \in Nat
  BY PrefixOrder
<1>a. \A i \in 1 .. Len(s) : s[i] = p[i]
  BY PrefixAt
<1>1. r \in Seq(S) /\ Len(r) = (Len(d) + Len(p)) - Len(s)
  BY RebaseAt
<1>2. \A i \in 1 .. Len(d) : r[i] = d[i]
  BY RebaseAt
<1>3. \A k \in Int : k > Len(s) /\ k <= Len(p) => r[(Len(d) + k) - Len(s)] = p[k]
  BY RebaseAt
<1> HIDE DEF r
<1>4. IsPrefix(d, r)
  BY <1>0, <1>1, <1>2, PrefixAt
<1>5. Rebase(r, d, s) = p
  <2> DEFINE b == Rebase(r, d, s)
  <2>1. b \in Seq(S) /\ Len(b) = (Len(s) + Len(r)) - Len(d)
    BY <1>1, <1>4, RebaseAt
  <2>2. \A i \in 1 .. Len(s) : b[i] = s[i]
    BY <1>1, <1>4, RebaseAt
  <2>3. \A k \in Int : k > Len(d) /\ k <= Len(r) => b[(Len(s) + k) - Len(d)] = r[k]
    <3>1. \A x \in Seq(S) : IsPrefix(d, x) =>
            \A k \in Int : k > Len(d) /\ k <= Len(x) => Rebase(x, d, s)[(Len(s) + k) - Len(d)] = x[k]
      BY RebaseAt
    <3> QED BY <1>1, <1>4, <3>1, Zenon
  <2> HIDE DEF b
  <2>4. Len(b) = Len(p)
    BY <1>0, <1>1, <2>1
  <2>5. ASSUME NEW i \in 1 .. Len(p) PROVE b[i] = p[i]
    <3>1. CASE i <= Len(s)
      BY <1>0, <1>a, <2>2, <3>1
    <3>2. CASE i > Len(s)
      <4> DEFINE k == (Len(d) + i) - Len(s)
      <4>1. k \in Int /\ k > Len(d) /\ k <= Len(r) /\ (Len(s) + k) - Len(d) = i
        BY <1>0, <1>1, <3>2
      <4>2. r[k] = p[i]
        BY <1>0, <1>3, <3>2
      <4> HIDE DEF k
      <4>3. b[(Len(s) + k) - Len(d)] = r[k]
        BY <2>3, <4>1, Zenon
      <4> QED BY <4>1, <4>2, <4>3, Zenon
    <3> QED BY <1>0, <3>1, <3>2
  <2>6. b = p
    BY <2>1, <2>4, <2>5, SamePath
  <2> QED BY <2>6 DEF b
<1>6. p = s <=> r = d
  <2>1. r = d => Len(p) = Len(s)
    BY <1>0, <1>1
  <2>2. p = s => Len(r) = Len(d)
    BY <1>0, <1>1
  <2> QED BY <1>1, <1>4, <2>1, <2>2, PrefixOrder
<1>7. ASSUME s = d PROVE r = p
  <2>1. Len(r) = Len(p)
    BY <1>0, <1>1, <1>7
  <2>2. ASSUME NEW i \in 1 .. Len(p) PROVE r[i] = p[i]
    <3>1. CASE i <= Len(s)
      BY <1>0, <1>a, <1>2, <1>7, <3>1
    <3>2. CASE i > Len(s)
      <4>1. r[(Len(d) + i) - Len(s)] = p[i]
        BY <1>0, <1>3, <3>2
      <4>2. (Len(d) + i) - Len(s) = i
        BY <1>0, <1>7
      <4> QED BY <4>1, <4>2, Zenon
    <3> QED BY <1>0, <3>1, <3>2
  <2> QED BY <1>1, <2>1, <2>2, SamePath
<1>8. ASSUME r = p PROVE s = d
  <2>1. Len(s) = Len(d)
    BY <1>0, <1>1, <1>8
  <2> QED BY <1>0, <1>2, <1>a, <1>8, <2>1, SamePath
<1> QED BY <1>1, <1>4, <1>5, <1>6, <1>7, <1>8 DEF r

(* What is above stays above.                                              *)
LEMMA RebaseMonotone ==
  ASSUME NEW S, NEW p \in Seq(S), NEW q \in Seq(S), NEW s \in Seq(S), NEW d \in Seq(S),
         IsPrefix(s, p), IsPrefix(p, q)
  PROVE  IsPrefix(Rebase(p, s, d), Rebase(q, s, d))
<1>1. IsPrefix(s, q)
  BY PrefixOrder
<1> DEFINE a == Rebase(p, s, d)
           b == Rebase(q, s, d)
<1>2. Len(s) <= Len(p) /\ Len(p) <= Len(q) /\ Len(s) \in Nat /\ Len(p) \in Nat /\ Len(q) \in Nat /\ Len(d) \in Nat
  BY PrefixOrder
<1>3. a \in Seq(S) /\ Len(a) = (Len(d) + Len(p)) - Len(s)
  BY RebaseAt
<1>3a. \A i \in 1 .. Len(d) : a[i] = d[i]
  BY RebaseAt
<1>3b. \A k \in Int : k > Len(s) /\ k <= Len(p) => a[(Len(d) + k) - Len(s)] = p[k]
  BY RebaseAt
<1>4. b \in Seq(S) /\ Len(b) = (Len(d) + Len(q)) - Len(s)
  BY <1>1, RebaseAt
<1>4a. \A i \in 1 .. Len(d) : b[i] = d[i]
  BY <1>1, RebaseAt
<1>4b. \A k \in Int : k > Len(s) /\ k <= Len(q) => b[(Len(d) + k) - Len(s)] = q[k]
  BY <1>1, RebaseAt
<1>5. \A i \in 1 .. Len(p) : p[i] = q[i]
  BY PrefixAt
<1> HIDE DEF a, b
<1>6. ASSUME NEW i \in 1 .. Len(a) PROVE a[i] = b[i]
  <2>1. CASE i <= Len(d)
    BY <1>2, <1>3, <1>3a, <1>4a, <2>1
  <2>2. CASE i > Len(d)
    <3> DEFINE k == (Len(s) + i) - Len(d)
    <3>1. k \in Int /\ k > Len(s) /\ k <= Len(p) /\ k <= Len(q) /\ (Len(d) + k) - Len(s) = i
      BY <1>2, <1>3, <2>2
    <3> HIDE DEF k
    <3>2. k \in 1 .. Len(p)
      BY <1>2, <3>1
    <3>3. a[(Len(d) + k) - Len(s)] = p[k] /\ b[(Len(d) + k) - Len(s)] = q[k]
      BY <1>3b, <1>4b, <3>1, Zenon
    <3> QED BY <1>5, <3>1, <3>2, <3>3, Zenon
  <2> QED BY <1>2, <1>3, <2>1, <2>2
<1>7. Len(a) <= Len(b)
  BY <1>2, <1>3, <1>4
<1> QED BY <1>3, <1>4, <1>6, <1>7, PrefixAt DEF a, b
-----------------------------------------------------------------------------
(* Trees of files. *)

LEMMA ImageFinite ==
  ASSUME NEW S, IsFiniteSet(S), NEW f, f = [x \in S |-> f[x]]
  PROVE  IsFiniteSet({f[x] : x \in S})
<1> DEFINE I == {f[x] : x \in S}
<1>1. f \in Surjection(S, I)
  BY DEF Surjection
<1> QED BY <1>1, FS_Surjection

LEMMA PathOrder ==
  /\ <<>> \in FilePaths
  /\ \A p \in FilePaths : IsPrefix(<<>>, p) /\ IsPrefix(p, p) /\ (IsPrefix(p, <<>>) => p = <<>>)
  /\ \A p, q \in FilePaths : IsPrefix(p, q) /\ IsPrefix(q, p) => p = q
  /\ \A p, q, r \in FilePaths : IsPrefix(p, q) /\ IsPrefix(q, r) => IsPrefix(p, r)
  /\ \A p, q, r \in FilePaths : IsPrefix(p, r) /\ IsPrefix(q, r) => IsPrefix(p, q) \/ IsPrefix(q, p)
<1>1. <<>> \in FilePaths
  BY EmptySeq DEF FilePaths
<1>2. \A p \in FilePaths : IsPrefix(<<>>, p) /\ (IsPrefix(p, <<>>) => p = <<>>)
  <2> SUFFICES ASSUME NEW p \in FilePaths PROVE IsPrefix(<<>>, p) /\ (IsPrefix(p, <<>>) => p = <<>>)
    OBVIOUS
  <2>1. <<>> \in Seq(Seq(Letters)) /\ Len(<<>>) = 0 /\ Len(p) \in Nat /\ p \in Seq(Seq(Letters))
    BY <1>1 DEF FilePaths
  <2>2. Len(p) = 0 => p = <<>>
    BY <2>1, EmptySeq
  <2>3. \A e \in Seq(Seq(Letters)) : Len(e) = 0 => IsPrefix(e, p)
    <3> SUFFICES ASSUME NEW e \in Seq(Seq(Letters)), Len(e) = 0 PROVE IsPrefix(e, p)
      OBVIOUS
    <3>1. IsPrefix(e, p) <=> Len(e) <= Len(p) /\ \A i \in 1 .. Len(e) : e[i] = p[i]
      BY <2>1, PrefixAt, Zenon
    <3> QED BY <2>1, <3>1
  <2>4. IsPrefix(<<>>, p)
    BY <2>1, <2>3, Zenon
  <2>5. IsPrefix(p, <<>>) => Len(p) <= Len(<<>>)
    BY DEF IsPrefix
  <2> QED BY <2>1, <2>2, <2>4, <2>5
<1> QED BY <1>1, <1>2, PrefixOrder, Zenon DEF FilePaths

LEMMA PathAt ==
  \A p, q \in FilePaths :
    /\ Len(p) \in Nat
    /\ IsPrefix(p, q) <=> Len(p) <= Len(q) /\ \A i \in 1 .. Len(p) : p[i] = q[i]
    /\ IsPrefix(p, q) /\ Len(p) = Len(q) => p = q
<1> SUFFICES ASSUME NEW p \in Seq(Seq(Letters)), NEW q \in Seq(Seq(Letters))
    PROVE  /\ Len(p) \in Nat
           /\ IsPrefix(p, q) <=> Len(p) <= Len(q) /\ \A i \in 1 .. Len(p) : p[i] = q[i]
           /\ IsPrefix(p, q) /\ Len(p) = Len(q) => p = q
  BY Zenon DEF FilePaths
<1> QED BY PrefixAt, PrefixOrder

LEMMA PathParent ==
  \A p \in FilePaths : p # <<>> =>
    /\ Parent(p) \in FilePaths /\ IsPrefix(Parent(p), p) /\ Parent(p) # p
    /\ \A q \in FilePaths : IsPrefix(q, p) /\ q # p => IsPrefix(q, Parent(p))
  BY ParentFacts, Zenon DEF FilePaths

LEMMA PathJoin ==
  \A p \in FilePaths, x \in Seq(Letters) :
    /\ Join(p, x) \in FilePaths /\ Join(p, x) # <<>> /\ Parent(Join(p, x)) = p /\ Last(Join(p, x)) = x
    /\ IsPrefix(p, Join(p, x)) /\ Len(Join(p, x)) = Len(p) + 1
    /\ \A q \in FilePaths : IsPrefix(q, Join(p, x)) => q = Join(p, x) \/ IsPrefix(q, p)
  BY JoinFacts, Zenon DEF FilePaths

LEMMA PathLast == \A p \in FilePaths : p # <<>> => Last(p) \in Seq(Letters)
<1> SUFFICES ASSUME NEW p \in FilePaths, p # <<>> PROVE p[Len(p)] \in Seq(Letters)
  BY DEF Last
<1>1. Len(p) \in Nat /\ Len(p) # 0
  BY EmptySeq DEF FilePaths
<1>2. Len(p) \in 1 .. Len(p)
  BY <1>1
<1> QED BY <1>2, ElementOfSeq DEF FilePaths

LEMMA PathRebase ==
  \A p, s, d \in FilePaths : IsPrefix(s, p) =>
    /\ Rebase(p, s, d) \in FilePaths
    /\ IsPrefix(d, Rebase(p, s, d))
    /\ Rebase(Rebase(p, s, d), d, s) = p
    /\ p = s <=> Rebase(p, s, d) = d
    /\ s = d => Rebase(p, s, d) = p
    /\ Rebase(p, s, d) = p => s = d
<1> SUFFICES ASSUME NEW p \in Seq(Seq(Letters)), NEW s \in Seq(Seq(Letters)), NEW d \in Seq(Seq(Letters)),
                    IsPrefix(s, p)
    PROVE  /\ Rebase(p, s, d) \in Seq(Seq(Letters))
           /\ IsPrefix(d, Rebase(p, s, d))
           /\ Rebase(Rebase(p, s, d), d, s) = p
           /\ p = s <=> Rebase(p, s, d) = d
           /\ s = d => Rebase(p, s, d) = p
           /\ Rebase(p, s, d) = p => s = d
  BY Zenon DEF FilePaths
<1> QED BY RebaseFacts

LEMMA PathRebaseUp ==
  \A p, q, s, d \in FilePaths :
    IsPrefix(s, p) /\ IsPrefix(p, q) => IsPrefix(Rebase(p, s, d), Rebase(q, s, d))
  BY RebaseMonotone, Zenon DEF FilePaths

LEMMA AboveFacts ==
  \A p \in FilePaths :
    /\ IsFiniteSet(Above(p))
    /\ Above(p) = {q \in FilePaths : q # <<>> /\ IsPrefix(q, p)}
<1> SUFFICES ASSUME NEW p \in FilePaths
    PROVE  IsFiniteSet(Above(p)) /\ Above(p) = {q \in FilePaths : q # <<>> /\ IsPrefix(q, p)}
  OBVIOUS
<1>0. p \in Seq(Seq(Letters)) /\ Len(p) \in Nat
  BY DEF FilePaths
<1>1. IsFiniteSet(Above(p))
  <2>1. IsFiniteSet(1 .. Len(p))
    BY <1>0, FS_Interval
  <2> DEFINE f == [n \in 1 .. Len(p) |-> SubSeq(p, 1, n)]
  <2>2. Above(p) = {f[n] : n \in 1 .. Len(p)}
    BY DEF Above
  <2>3. f = [n \in 1 .. Len(p) |-> f[n]]
    OBVIOUS
  <2> HIDE DEF f
  <2> QED BY <2>1, <2>2, <2>3, ImageFinite
<1>2. ASSUME NEW n \in 1 .. Len(p)
      PROVE  /\ SubSeq(p, 1, n) \in Seq(Seq(Letters)) /\ Len(SubSeq(p, 1, n)) = n
             /\ \A i \in 1 .. n : SubSeq(p, 1, n)[i] = p[i]
  <2>1. n \in Nat /\ n >= 1 /\ n <= Len(p)
    BY <1>0
  <2>2. SubSeq(p, 1, n) \in Seq(Seq(Letters)) /\ Len(SubSeq(p, 1, n)) = n
    BY <1>0, <2>1
  <2>3. \A i \in 1 .. n : SubSeq(p, 1, n)[i] = p[i]
    BY <1>0, <2>1
  <2> QED BY <2>2, <2>3
<1>3. ASSUME NEW n \in 1 .. Len(p)
      PROVE  SubSeq(p, 1, n) \in FilePaths /\ SubSeq(p, 1, n) # <<>> /\ IsPrefix(SubSeq(p, 1, n), p)
  <2> DEFINE q == SubSeq(p, 1, n)
  <2>1. q \in Seq(Seq(Letters)) /\ Len(q) = n /\ \A i \in 1 .. n : q[i] = p[i]
    BY <1>2
  <2> HIDE DEF q
  <2>2. q # <<>>
    BY <1>0, <2>1
  <2>3. IsPrefix(q, p) <=> Len(q) <= Len(p) /\ \A i \in 1 .. Len(q) : q[i] = p[i]
    BY <1>0, <2>1, PrefixAt, Zenon
  <2>4. IsPrefix(q, p)
    BY <1>0, <2>1, <2>3
  <2> QED BY <2>1, <2>2, <2>4 DEF q, FilePaths
<1>4. ASSUME NEW q \in FilePaths, q # <<>>, IsPrefix(q, p)
      PROVE  Len(q) \in 1 .. Len(p) /\ q = SubSeq(p, 1, Len(q))
  <2>0. q \in Seq(Seq(Letters)) /\ Len(q) \in Nat /\ Len(q) # 0
    BY <1>4, EmptySeq DEF FilePaths
  <2>1. Len(q) \in 1 .. Len(p) /\ \A i \in 1 .. Len(q) : q[i] = p[i]
    BY <1>0, <1>4, <2>0, PrefixAt
  <2> DEFINE u == SubSeq(p, 1, Len(q))
  <2>2. u \in Seq(Seq(Letters)) /\ Len(u) = Len(q) /\ \A i \in 1 .. Len(q) : u[i] = p[i]
    BY <1>2, <2>1
  <2> HIDE DEF u
  <2>3. q = u
    BY <2>0, <2>1, <2>2, SamePath
  <2> QED BY <2>1, <2>3 DEF u
<1> QED BY <1>1, <1>3, <1>4 DEF Above

(* A tree, by what is above its paths.                                     *)
Shaped(t) ==
  \A p \in DOMAIN t : \A q \in FilePaths : IsPrefix(q, p) /\ q # p => IsDir(t, q)

LEMMA TreeIff ==
  ASSUME NEW t
  PROVE  IsTree(t) <=> /\ IsFiniteSet(DOMAIN t) /\ DOMAIN t \subseteq FilePaths /\ IsDir(t, <<>>)
                       /\ \A p \in DOMAIN t : t[p][2] \in Nat
                       /\ Shaped(t)
<1>1. ASSUME DOMAIN t \subseteq FilePaths, IsDir(t, <<>>), NEW p \in DOMAIN t
      PROVE  (\A q \in Above(p) \ {p} : IsDir(t, q))
               <=> (\A q \in FilePaths : IsPrefix(q, p) /\ q # p => IsDir(t, q))
  <2>1. p \in FilePaths /\ Above(p) = {q \in FilePaths : q # <<>> /\ IsPrefix(q, p)}
    BY <1>1, AboveFacts
  <2> HIDE DEF Above
  <2> QED BY <1>1, <2>1
<1> QED BY <1>1 DEF IsTree, Shaped

(* What a rename moves, and what it leaves.                                *)
LEMMA RenamedFacts ==
  ASSUME NEW t, IsTree(t), NEW s \in FilePaths, NEW d \in FilePaths,
         s # d, MayRename(t, s, d), MayExist(t, d)
  PROVE  /\ IsTree(Renamed(t, s, d))
         /\ ~IsPrefix(s, d)
         /\ \A q \in DOMAIN t : ~IsPrefix(s, q) /\ q # d =>
              q \in DOMAIN Renamed(t, s, d) /\ Renamed(t, s, d)[q] = t[q]
         /\ \A q \in DOMAIN t : IsPrefix(s, q) =>
              Rebase(q, s, d) \in DOMAIN Renamed(t, s, d) /\ Renamed(t, s, d)[Rebase(q, s, d)] = t[q]
         /\ \A q \in DOMAIN Renamed(t, s, d) :
              \/ q \in DOMAIN t /\ ~IsPrefix(s, q) /\ ~IsPrefix(d, q) /\ Renamed(t, s, d)[q] = t[q]
              \/ IsPrefix(d, q) /\ Rebase(q, d, s) \in DOMAIN t /\ IsPrefix(s, Rebase(q, d, s))
                   /\ Renamed(t, s, d)[q] = t[Rebase(q, d, s)]
<1> DEFINE moved == Under(t, s)
           there == {Rebase(q, s, d) : q \in moved}
           r     == Renamed(t, s, d)
<1>0. /\ IsFiniteSet(DOMAIN t) /\ DOMAIN t \subseteq FilePaths /\ IsDir(t, <<>>)
      /\ \A p \in DOMAIN t : t[p][2] \in Nat
      /\ Shaped(t)
  BY TreeIff
<1>1. /\ s \in DOMAIN t /\ ~IsPrefix(s, d) /\ (IsDir(t, s) => d \notin DOMAIN t)
      /\ d # <<>> /\ IsDir(t, Parent(d)) /\ ~IsDir(t, d) /\ s # <<>>
  <2>1. s \in DOMAIN t /\ ~IsPrefix(s, d) /\ (IsDir(t, s) => d \notin DOMAIN t)
    BY DEF MayRename, Exists, IsStrictPrefix
  <2>2. d # <<>> /\ IsDir(t, Parent(d)) /\ ~IsDir(t, d)
    BY DEF MayExist
  <2> QED BY <2>1, <2>2, PathOrder
<1>2. /\ DOMAIN r = (DOMAIN t \ (moved \cup {d})) \cup there
      /\ \A q \in DOMAIN r : r[q] = IF q \in there THEN t[Rebase(q, d, s)] ELSE t[q]
  BY DEF Renamed
<1>3. \A q : q \in moved <=> q \in DOMAIN t /\ IsPrefix(s, q)
  BY DEF Under
<1>4. \A q \in there : q \in FilePaths /\ IsPrefix(d, q) /\ Rebase(q, d, s) \in moved
  BY <1>0, <1>3, PathRebase
<1>5. \A q \in moved : Rebase(q, s, d) \in there /\ Rebase(Rebase(q, s, d), d, s) = q
  BY <1>0, <1>3, PathRebase
<1>6. \A q \in DOMAIN t : IsPrefix(d, q) => q = d
  <2> SUFFICES ASSUME NEW q \in DOMAIN t, IsPrefix(d, q), q # d PROVE FALSE
    OBVIOUS
  <2> QED BY <1>0, <1>1 DEF Shaped
<1> HIDE DEF r, there, moved
<1>7. IsFiniteSet(DOMAIN r)
  <2>1. IsFiniteSet(moved)
    BY <1>0, <1>3, FS_Subset DEF moved, Under
  <2> DEFINE f == [q \in moved |-> Rebase(q, s, d)]
  <2>2. there = {f[q] : q \in moved} /\ f = [q \in moved |-> f[q]]
    BY DEF there
  <2> HIDE DEF f
  <2>3. IsFiniteSet(there)
    BY <2>1, <2>2, ImageFinite
  <2>4. IsFiniteSet(DOMAIN t \ (moved \cup {d}))
    BY <1>0, FS_Subset
  <2> QED BY <1>2, <2>3, <2>4, FS_Union
<1>8. DOMAIN r \subseteq FilePaths
  BY <1>0, <1>2, <1>4
<1>9. ASSUME NEW q \in DOMAIN t, ~IsPrefix(s, q), q # d
      PROVE  q \in DOMAIN r /\ r[q] = t[q] /\ ~IsPrefix(d, q)
  <2>1. ~IsPrefix(d, q)
    BY <1>6, <1>9
  <2> QED BY <1>2, <1>3, <1>4, <1>9, <2>1
<1>10. \A q \in DOMAIN t : IsPrefix(s, q) => Rebase(q, s, d) \in DOMAIN r /\ r[Rebase(q, s, d)] = t[q]
  BY <1>2, <1>3, <1>5
<1>11. ASSUME NEW q \in DOMAIN r
       PROVE  \/ q \in DOMAIN t /\ ~IsPrefix(s, q) /\ ~IsPrefix(d, q) /\ r[q] = t[q]
              \/ IsPrefix(d, q) /\ Rebase(q, d, s) \in DOMAIN t /\ IsPrefix(s, Rebase(q, d, s))
                   /\ r[q] = t[Rebase(q, d, s)]
  <2>1. CASE q \in there
    BY <1>2, <1>3, <1>4, <2>1
  <2>2. CASE q \notin there
    BY <1>2, <1>3, <1>9, <2>2
  <2> QED BY <2>1, <2>2
<1>12. \A p \in DOMAIN r : r[p][2] \in Nat
  BY <1>0, <1>11
<1>13. IsDir(r, <<>>)
  <2>1. ~IsPrefix(s, <<>>)
    BY <1>1, PathOrder
  <2> QED BY <1>0, <1>1, <1>9, <2>1 DEF IsDir, Exists
<1>14. ASSUME NEW q \in FilePaths, IsPrefix(q, d), q # d PROVE IsDir(r, q)
  <2>1. IsPrefix(q, Parent(d)) /\ Parent(d) \in DOMAIN t
    BY <1>1, <1>14, PathParent DEF IsDir, Exists
  <2>2. IsDir(t, q)
    BY <1>0, <1>1, <2>1 DEF Shaped
  <2>3. ~IsPrefix(s, q)
    BY <1>1, <1>14, PathOrder
  <2> QED BY <1>9, <1>14, <2>2, <2>3 DEF IsDir, Exists
<1>15. ASSUME NEW p \in DOMAIN r, NEW q \in FilePaths, IsPrefix(q, p), q # p PROVE IsDir(r, q)
  <2>0. p \in FilePaths
    BY <1>8
  <2>1. CASE p \in DOMAIN t /\ ~IsPrefix(s, p) /\ ~IsPrefix(d, p)
    <3>1. IsDir(t, q)
      BY <1>0, <1>15, <2>1 DEF Shaped
    <3>2. ~IsPrefix(s, q) /\ q # d
      BY <1>15, <2>0, <2>1, PathOrder
    <3> QED BY <1>9, <3>1, <3>2 DEF IsDir, Exists
  <2>2. CASE IsPrefix(d, p) /\ Rebase(p, d, s) \in DOMAIN t /\ IsPrefix(s, Rebase(p, d, s))
    <3>1. IsPrefix(q, d) \/ IsPrefix(d, q)
      BY <1>15, <2>0, <2>2, PathOrder
    <3>2. CASE IsPrefix(d, q)
      <4> DEFINE u == Rebase(q, d, s)
                 v == Rebase(p, d, s)
      <4>1. u \in FilePaths /\ v \in FilePaths /\ Rebase(u, s, d) = q /\ Rebase(v, s, d) = p /\ IsPrefix(s, u)
        BY <2>0, <2>2, <3>2, PathRebase
      <4>2. IsPrefix(u, v)
        BY <1>15, <2>0, <3>2, PathRebaseUp
      <4> HIDE DEF u, v
      <4>3. u # v
        BY <1>15, <4>1
      <4>4. IsDir(t, u)
        BY <1>0, <2>2, <4>1, <4>2, <4>3 DEF Shaped, v
      <4> QED BY <1>10, <4>1, <4>4 DEF IsDir, Exists
    <3>3. CASE IsPrefix(q, d) /\ q # d
      BY <1>14, <3>3
    <3> QED BY <3>1, <3>2, <3>3, PathOrder
  <2> QED BY <1>11, <2>1, <2>2
<1>16. IsTree(r)
  BY <1>7, <1>8, <1>12, <1>13, <1>15, TreeIff DEF Shaped
<1> QED BY <1>1, <1>9, <1>10, <1>11, <1>16 DEF r

(* A directory entry more, one less, and directories more.                 *)
LEMMA PutFacts ==
  ASSUME NEW t, IsTree(t), NEW p \in FilePaths, p # <<>>, IsDir(t, Parent(p)), ~IsDir(t, p),
         NEW v, v[2] \in Nat
  PROVE  IsTree(Put(t, p, v))
<1> DEFINE r == Put(t, p, v)
<1>1. /\ IsFiniteSet(DOMAIN t) /\ DOMAIN t \subseteq FilePaths /\ IsDir(t, <<>>)
      /\ \A q \in DOMAIN t : t[q][2] \in Nat
      /\ Shaped(t)
  BY TreeIff
<1>2. DOMAIN r = DOMAIN t \cup {p} /\ r[p] = v /\ \A q \in DOMAIN t : q # p => r[q] = t[q]
  BY DEF Put
<1> HIDE DEF r
<1>3. IsFiniteSet(DOMAIN r)
  BY <1>1, <1>2, FS_AddElement
<1>4. IsDir(r, <<>>) /\ DOMAIN r \subseteq FilePaths /\ \A q \in DOMAIN r : r[q][2] \in Nat
  BY <1>1, <1>2 DEF IsDir, Exists
<1>5. ASSUME NEW q \in DOMAIN r, NEW u \in FilePaths, IsPrefix(u, q), u # q PROVE IsDir(t, u)
  <2>1. CASE q \in DOMAIN t
    BY <1>1, <1>5, <2>1 DEF Shaped
  <2>2. CASE q = p
    <3>1. IsPrefix(u, Parent(p)) /\ Parent(p) \in DOMAIN t
      BY <1>5, <2>2, PathParent DEF IsDir, Exists
    <3> QED BY <1>1, <3>1, <1>5 DEF Shaped
  <2> QED BY <1>2, <2>1, <2>2
<1>6. \A u : IsDir(t, u) => IsDir(r, u)
  BY <1>2 DEF IsDir, Exists
<1>7. IsTree(r)
  BY <1>3, <1>4, <1>5, <1>6, TreeIff DEF Shaped
<1> QED BY <1>7 DEF r

LEMMA MkdirFacts ==
  ASSUME NEW t, IsTree(t), NEW p \in FilePaths, MayMkdir(t, p)
  PROVE  /\ IsTree(Mkdir(t, p)) /\ IsDir(Mkdir(t, p), p)
         /\ DOMAIN Mkdir(t, p) = DOMAIN t \cup Above(p)
         /\ \A q \in DOMAIN t : Mkdir(t, p)[q] = t[q]
         /\ \A q \in DOMAIN Mkdir(t, p) : q \notin DOMAIN t => IsDir(Mkdir(t, p), q) /\ IsPrefix(q, p)
<1> DEFINE r == Mkdir(t, p)
<1>1. /\ IsFiniteSet(DOMAIN t) /\ DOMAIN t \subseteq FilePaths /\ IsDir(t, <<>>)
      /\ \A q \in DOMAIN t : t[q][2] \in Nat
      /\ Shaped(t)
  BY TreeIff
<1>2. /\ DOMAIN r = DOMAIN t \cup Above(p)
      /\ \A q \in DOMAIN t : r[q] = t[q]
      /\ \A q \in Above(p) : q \notin DOMAIN t => r[q] = Dir
  BY DEF Mkdir, Exists
<1> HIDE DEF r
<1>3. IsFiniteSet(Above(p)) /\ \A q : q \in Above(p) <=> q \in FilePaths /\ q # <<>> /\ IsPrefix(q, p)
  BY AboveFacts
<1>4. \A q \in Above(p) : IsDir(r, q)
  BY <1>2 DEF MayMkdir, IsFile, IsDir, Exists
<1>5. IsDir(r, <<>>)
  BY <1>1, <1>2 DEF IsDir, Exists
<1>6. IsFiniteSet(DOMAIN r)
  BY <1>1, <1>2, <1>3, FS_Union
<1>7. DOMAIN r \subseteq FilePaths /\ \A q \in DOMAIN r : r[q][2] \in Nat
  BY <1>1, <1>2, <1>3 DEF Dir
<1>8. \A u : IsDir(t, u) => IsDir(r, u)
  BY <1>2 DEF IsDir, Exists
<1>9. ASSUME NEW q \in DOMAIN r, NEW u \in FilePaths, IsPrefix(u, q), u # q PROVE IsDir(r, u)
  <2>1. CASE q \in DOMAIN t
    BY <1>1, <1>8, <1>9, <2>1 DEF Shaped
  <2>2. CASE q \in Above(p)
    <3>1. IsPrefix(u, p)
      BY <1>3, <1>9, <2>2, PathOrder
    <3> QED BY <1>3, <1>4, <1>5, <1>9, <3>1
  <2> QED BY <1>2, <2>1, <2>2
<1>10. IsTree(r)
  BY <1>5, <1>6, <1>7, <1>9, TreeIff DEF Shaped
<1>11. IsDir(r, p)
  BY <1>3, <1>4, <1>5, PathOrder
<1> QED BY <1>2, <1>3, <1>4, <1>10, <1>11 DEF r

LEMMA UnlinkedFacts ==
  ASSUME NEW t, IsTree(t), NEW p \in DOMAIN t, Entries(t, p) = {}, p # <<>>
  PROVE  /\ IsTree(Unlinked(t, {p}))
         /\ DOMAIN Unlinked(t, {p}) = DOMAIN t \ {p}
         /\ \A q \in DOMAIN t : q # p => Unlinked(t, {p})[q] = t[q]
         /\ \A q \in DOMAIN t : IsPrefix(p, q) => q = p
<1> DEFINE r == Unlinked(t, {p})
<1>1. /\ IsFiniteSet(DOMAIN t) /\ DOMAIN t \subseteq FilePaths /\ IsDir(t, <<>>)
      /\ \A q \in DOMAIN t : t[q][2] \in Nat
      /\ Shaped(t)
  BY TreeIff
<1>2. DOMAIN r = DOMAIN t \ {p} /\ \A q \in DOMAIN t : q # p => r[q] = t[q]
  BY DEF Unlinked
<1> HIDE DEF r
<1>3. ASSUME NEW q \in DOMAIN t, IsPrefix(p, q), q # p PROVE FALSE
  <2>0. p \in FilePaths /\ q \in FilePaths /\ Len(p) \in Nat /\ Len(q) \in Nat
    BY <1>1, PathAt
  <2>1. Len(p) < Len(q)
    <3>1. Len(p) <= Len(q) /\ Len(p) # Len(q)
      BY <1>3, <2>0, PathAt, Zenon
    <3> QED BY <2>0, <3>1
  <2> DEFINE u == SubSeq(q, 1, Len(p) + 1)
  <2>2. u \in FilePaths /\ Len(u) = Len(p) + 1
    BY <2>0, <2>1 DEF FilePaths
  <2>3. \A i \in 1 .. Len(p) + 1 : u[i] = q[i]
    BY <2>0, <2>1 DEF FilePaths
  <2> HIDE DEF u
  <2>4. IsPrefix(u, q) <=> Len(u) <= Len(q) /\ \A i \in 1 .. Len(u) : u[i] = q[i]
    BY <2>0, <2>2, PathAt, Zenon
  <2>5. IsPrefix(u, q)
    BY <2>0, <2>1, <2>2, <2>3, <2>4
  <2>6. \A i \in 1 .. Len(p) : p[i] = q[i]
    BY <1>3, <2>0, PathAt, Zenon
  <2>7. IsPrefix(p, u) <=> Len(p) <= Len(u) /\ \A i \in 1 .. Len(p) : p[i] = u[i]
    BY <2>0, <2>2, PathAt, Zenon
  <2>8. IsPrefix(p, u) /\ p # u
    <3>1. Len(p) <= Len(u) /\ Len(p) # Len(u) /\ \A i \in 1 .. Len(p) : p[i] = u[i]
      BY <2>0, <2>2, <2>3, <2>6
    <3> QED BY <2>7, <3>1
  <2>9. u \in DOMAIN t
    BY <1>1, <2>2, <2>5 DEF Shaped, IsDir, Exists
  <2> QED BY <2>2, <2>8, <2>9 DEF Entries, IsStrictPrefix
<1>4. IsFiniteSet(DOMAIN r)
  BY <1>1, <1>2, FS_Subset
<1>5. IsDir(r, <<>>) /\ DOMAIN r \subseteq FilePaths /\ \A q \in DOMAIN r : r[q][2] \in Nat
  BY <1>1, <1>2 DEF IsDir, Exists
<1>6. ASSUME NEW q \in DOMAIN r, NEW u \in FilePaths, IsPrefix(u, q), u # q PROVE IsDir(r, u)
  <2>1. IsDir(t, u) /\ q \in DOMAIN t /\ q # p
    BY <1>1, <1>2, <1>6 DEF Shaped
  <2>2. u # p
    BY <1>3, <1>6, <2>1
  <2> QED BY <1>2, <2>1, <2>2 DEF IsDir, Exists
<1>7. IsTree(r)
  BY <1>4, <1>5, <1>6, TreeIff DEF Shaped
<1> QED BY <1>2, <1>3, <1>7 DEF r

LEMMA NoInjection ==
  ASSUME NEW S, IsFiniteSet(S), NEW T, IsFiniteSet(T), Cardinality(T) < Cardinality(S)
  PROVE  \A f \in [S -> T] : \E x, y \in S : x # y /\ f[x] = f[y]
  BY FS_PigeonHole

(* Of more paths than there are files, one is unused.                      *)
LEMMA UnusedFacts ==
  ASSUME NEW t, IsFiniteSet(DOMAIN t), NEW f,
         f = [n \in 1 .. Cardinality(DOMAIN t) + 1 |-> f[n]],
         \A m, n \in 1 .. Cardinality(DOMAIN t) + 1 : f[m] = f[n] => m = n
  PROVE  \E n \in 1 .. Cardinality(DOMAIN t) + 1 : FirstUnused(t, f) = f[n] /\ ~Exists(t, f[n])
<1> DEFINE c == Cardinality(DOMAIN t)
           S == 1 .. c + 1
           U == {n \in DOMAIN f : ~Exists(t, f[n])}
<1>1. c \in Nat
  BY FS_CardinalityType
<1>2. IsFiniteSet(S) /\ Cardinality(S) = c + 1
  <2>0. 1 \in Int /\ c + 1 \in Int /\ ~(1 > c + 1)
    BY <1>1
  <2> DEFINE h == c + 1
  <2> HIDE DEF h
  <2>1. IsFiniteSet(1 .. h) /\ Cardinality(1 .. h) = h - 1 + 1
    BY <2>0, FS_Interval DEF h
  <2>2. h - 1 + 1 = h
    BY <2>0 DEF h
  <2> QED BY <2>1, <2>2, Zenon DEF h
<1>3. DOMAIN f = S
  OBVIOUS
<1>4. U # {}
  <2> SUFFICES ASSUME \A n \in S : f[n] \in DOMAIN t PROVE FALSE
    BY <1>3 DEF Exists
  <2>1. f \in [S -> DOMAIN t]
    BY <1>3
  <2>2. c < Cardinality(S)
    BY <1>1, <1>2
  <2>3. \E x, y \in S : x # y /\ f[x] = f[y]
    <3>1. Cardinality(DOMAIN t) < Cardinality(S)
      BY <2>2
    <3> HIDE DEF S, c
    <3>2. \A g \in [S -> DOMAIN t] : \E x, y \in S : x # y /\ g[x] = g[y]
      BY <1>2, <3>1, NoInjection
    <3> QED BY <2>1, <3>2
  <2> QED BY <2>3
<1>5. U \subseteq Nat
  BY <1>1, <1>3
<1>6. Min(U) \in U
  <2>1. \E x \in U : \A y \in U : x <= y
    BY <1>4, <1>5, LeastOf
  <2> HIDE DEF U
  <2> QED BY <2>1 DEF Min
<1> QED BY <1>3, <1>6 DEF FirstUnused

LEMMA Suffixed ==
  ASSUME NEW x \in FilePaths, x # <<>>, NEW n \in Nat
  PROVE  /\ Last(x) \o [i \in 1 .. n |-> "~"] \in Seq(Letters)
         /\ Last(x) \o <<".">> \o [i \in 1 .. n |-> "i"] \in Seq(Letters)
         /\ Len(Last(x) \o [i \in 1 .. n |-> "~"]) = Len(Last(x)) + n
         /\ Len(Last(x) \o <<".">> \o [i \in 1 .. n |-> "i"]) = (Len(Last(x)) + 1) + n
         /\ Len(Last(x)) \in Nat
<1> DEFINE l == Last(x)
<1>0. l \in Seq(Letters) /\ Len(l) \in Nat
  BY PathLast
<1> DEFINE a == [i \in 1 .. n |-> "~"]
           b == [i \in 1 .. n |-> "i"]
           c == <<".">>
<1>1. a \in Seq(Letters) /\ Len(a) = n
  <2>1. a \in [1 .. n -> Letters]
    BY TreeAssumption
  <2>2. a \in Seq(Letters)
    BY <2>1, SeqDef
  <2> QED BY <2>1, <2>2
<1>2. b \in Seq(Letters) /\ Len(b) = n
  <2>1. b \in [1 .. n -> Letters]
    BY TreeAssumption
  <2>2. b \in Seq(Letters)
    BY <2>1, SeqDef
  <2> QED BY <2>1, <2>2
<1>3. c \in Seq(Letters) /\ Len(c) = 1
  BY TreeAssumption
<1> HIDE DEF a, b, c, l
<1>4. l \o a \in Seq(Letters) /\ Len(l \o a) = Len(l) + n
  BY <1>0, <1>1, ConcatProperties
<1>5. l \o c \in Seq(Letters) /\ Len(l \o c) = Len(l) + 1
  <2>1. l \o c \in Seq(Letters) /\ Len(l \o c) = Len(l) + Len(c)
    BY <1>0, <1>3, ConcatProperties, Zenon
  <2> QED BY <1>3, <2>1
<1>6. (l \o c) \o b \in Seq(Letters) /\ Len((l \o c) \o b) = (Len(l) + 1) + n
  BY <1>2, <1>5, ConcatProperties
<1> QED BY <1>0, <1>4, <1>6 DEF a, b, c, l

(* A path with suffixes is a neighbour.                                    *)
Beside(x, y) ==
  /\ y \in FilePaths /\ y # <<>> /\ Parent(y) = Parent(x) /\ IsPrefix(Parent(x), y)
  /\ \A q \in FilePaths : IsPrefix(q, y) => q = y \/ IsPrefix(q, Parent(x))

LEMMA TildeFacts ==
  ASSUME NEW x \in FilePaths, x # <<>>, NEW n \in Nat
  PROVE  /\ Beside(x, Tilde(x, n)) /\ Last(Tilde(x, n)) = Last(x) \o [i \in 1 .. n |-> "~"]
         /\ Beside(x, Numbered(x, n))
         /\ Last(Numbered(x, n)) = Last(x) \o <<".">> \o [i \in 1 .. n |-> "i"]
<1>1. Parent(x) \in FilePaths
  BY PathParent
<1>2. /\ Last(x) \o [i \in 1 .. n |-> "~"] \in Seq(Letters)
      /\ Last(x) \o <<".">> \o [i \in 1 .. n |-> "i"] \in Seq(Letters)
  BY Suffixed
<1>3. Beside(x, Tilde(x, n)) /\ Last(Tilde(x, n)) = Last(x) \o [i \in 1 .. n |-> "~"]
  BY <1>1, <1>2, PathJoin, Zenon DEF Tilde, Beside
<1>4. Beside(x, Numbered(x, n)) /\ Last(Numbered(x, n)) = Last(x) \o <<".">> \o [i \in 1 .. n |-> "i"]
  BY <1>1, <1>2, PathJoin, Zenon DEF Numbered, Beside
<1> QED BY <1>3, <1>4

LEMMA FreshFacts ==
  ASSUME IsTree(tree), NEW x \in FilePaths, x # <<>>
  PROVE  /\ \E n \in Nat : LET y == FirstUnused(tree, [k \in Numbers |-> Tilde(x, k)])
                           IN  y = Tilde(x, n) /\ ~Exists(tree, y)
         /\ \E n \in Nat : LET y == FirstUnused(tree, [k \in Numbers |-> Numbered(x, k)])
                           IN  y = Numbered(x, n) /\ ~Exists(tree, y)
<1> DEFINE c == Cardinality(DOMAIN tree)
           f == [k \in Numbers |-> Tilde(x, k)]
           g == [k \in Numbers |-> Numbered(x, k)]
<1>1. IsFiniteSet(DOMAIN tree) /\ c \in Nat
  BY FS_CardinalityType DEF IsTree
<1>2. Numbers = 1 .. c + 1 /\ Numbers \subseteq Nat
  BY <1>1 DEF Numbers
<1>3. ASSUME NEW m \in Numbers, NEW n \in Numbers, Tilde(x, m) = Tilde(x, n) PROVE m = n
  <2>1. Last(x) \o [i \in 1 .. m |-> "~"] = Last(x) \o [i \in 1 .. n |-> "~"]
    BY <1>2, <1>3, TildeFacts
  <2>2. Len(Last(x)) + m = Len(Last(x)) + n /\ Len(Last(x)) \in Nat /\ m \in Nat /\ n \in Nat
    BY <1>2, <2>1, Suffixed
  <2> QED BY <2>2
<1>4. ASSUME NEW m \in Numbers, NEW n \in Numbers, Numbered(x, m) = Numbered(x, n) PROVE m = n
  <2>1. Last(x) \o <<".">> \o [i \in 1 .. m |-> "i"] = Last(x) \o <<".">> \o [i \in 1 .. n |-> "i"]
    BY <1>2, <1>4, TildeFacts
  <2>2. (Len(Last(x)) + 1) + m = (Len(Last(x)) + 1) + n /\ Len(Last(x)) \in Nat /\ m \in Nat /\ n \in Nat
    BY <1>2, <2>1, Suffixed
  <2> QED BY <2>2
<1>5. f = [n \in Numbers |-> f[n]] /\ \A n \in Numbers : f[n] = Tilde(x, n)
  OBVIOUS
<1>6. g = [n \in Numbers |-> g[n]] /\ \A n \in Numbers : g[n] = Numbered(x, n)
  OBVIOUS
<1> HIDE DEF f, g, c
<1>7. \E n \in Numbers : FirstUnused(tree, f) = f[n] /\ ~Exists(tree, f[n])
  <2>1. \A m, n \in Numbers : f[m] = f[n] => m = n
    BY <1>3, <1>5
  <2> QED BY <1>1, <1>2, <1>5, <2>1, UnusedFacts DEF c
<1>8. \E n \in Numbers : FirstUnused(tree, g) = g[n] /\ ~Exists(tree, g[n])
  <2>1. \A m, n \in Numbers : g[m] = g[n] => m = n
    BY <1>4, <1>6
  <2> QED BY <1>1, <1>2, <1>6, <2>1, UnusedFacts DEF c
<1>9. \E n \in Nat : FirstUnused(tree, f) = Tilde(x, n) /\ ~Exists(tree, FirstUnused(tree, f))
  BY <1>2, <1>5, <1>7
<1>10. \E n \in Nat : FirstUnused(tree, g) = Numbered(x, n) /\ ~Exists(tree, FirstUnused(tree, g))
  BY <1>2, <1>6, <1>8
<1> QED BY <1>9, <1>10 DEF f, g

-----------------------------------------------------------------------------
(* mv, cp and rm. *)

(* Where the i-th operand goes.                                            *)
Target(i) == IF IsDir(before, Dest) THEN Join(Dest, Last(fjob.srcs[i])) ELSE Dest

(* No source is above, below or at the place where a source goes: else a   *)
(* command may overwrite or remove what it has yet to copy.                *)
Apart ==
  fjob.cmd \in {"mv", "cp"} =>
    \A k \in DOMAIN fjob.srcs :
      /\ fjob.srcs[k] # <<>>
      /\ \A i \in DOMAIN fjob.srcs :
           ~IsPrefix(fjob.srcs[k], Target(i)) /\ ~IsPrefix(Target(i), fjob.srcs[k])

Carries == fjob.cmd \in {"mv", "cp"}
Copying == opc \in {"copy", "open", "write"}

(* The commands that overwrite nothing.                                    *)
Sparing == Has("b") \/ (Has("n") /\ NoClobberHonoured)
Gentle ==
  \/ fjob.cmd = "cp" /\ (Has("n") \/ fjob.backup = "numbered")
  \/ fjob.cmd = "mv" /\ Sparing

JobPart ==
  /\ fjob \in FileJobs /\ before \in Trees /\ IsTree(before) /\ IsTree(tree)
  /\ operand \in 1 .. Len(fjob.srcs) + 1 /\ errors \in BOOLEAN
  /\ opc \in {"operand", "copy", "open", "write", "delete", "done"}

PhasePart ==
  /\ opc \in {"operand", "done", "delete"} => todo = {}
  /\ Copying \/ opc = "delete" => operand \in DOMAIN fjob.srcs /\ src = Operand
  /\ Copying => /\ Carries
                /\ dst \in FilePaths /\ dst # <<>> /\ ~IsPrefix(src, dst) /\ ~IsPrefix(dst, src)
                /\ todo \subseteq Under(tree, src)
                /\ fjob.cmd = "cp" \/ ~Has("b") =>
                     \A k \in DOMAIN fjob.srcs : ~IsPrefix(fjob.srcs[k], dst) /\ ~IsPrefix(dst, fjob.srcs[k])
                /\ fjob.cmd = "cp" /\ IsDir(before, Dest) => dst = Target(operand)
  /\ opc \in {"open", "write"} => file \in todo /\ IsFile(tree, file)
  /\ opc = "write" => IsFile(tree, To(file))
  /\ opc = "delete" => fjob.cmd \in {"mv", "rm"}
  /\ opc = "operand" /\ operand = 1 => tree = before
  /\ Carries /\ IsDir(before, Dest) => IsDir(tree, Dest)

(* A move across devices: what is no longer to be copied is there twice.   *)
Twice(p) == To(p) \in DOMAIN tree /\ tree[To(p)] = tree[p]
CopyPart ==
  fjob.cmd = "mv" =>
    /\ Copying => \A p \in Under(tree, src) \ todo : Twice(p)
    /\ opc = "delete" => /\ dst \in FilePaths /\ ~IsPrefix(src, dst) /\ ~IsPrefix(dst, src)
                         /\ \A p \in Under(tree, src) : Twice(p)

(* A command that overwrites nothing: all data are somewhere, and there is *)
(* no file where one is going to be.                                       *)
Somewhere(p) == \E q \in DOMAIN tree : tree[q][1] = before[p][1] /\ (opc = "write" => q # To(file))
GentlePart ==
  Gentle =>
    /\ \A p \in Whole(before) : Somewhere(p)
    /\ opc = "open" => ~IsFile(tree, To(file))
    /\ fjob.cmd = "mv" /\ Copying =>
         \A p \in todo : IsFile(tree, p) /\ (opc = "write" => p # file) => ~IsFile(tree, To(p))

(* cp leaves its sources alone.                                            *)
SourcesPart ==
  fjob.cmd = "cp" /\ BackupIsNoSource =>
    \A i \in DOMAIN fjob.srcs :
      /\ \A q \in Under(before, fjob.srcs[i]) : q \in DOMAIN tree /\ tree[q] = before[q]
      /\ fjob.backup = "none" => Under(tree, fjob.srcs[i]) \subseteq DOMAIN before

(* mv without backups: each file is where it was or where it goes.         *)
Arrived(k) == k < operand \/ (k = operand /\ opc \in {"delete", "done"})
Located(q) ==
  \/ q \in DOMAIN tree /\ tree[q] = before[q]
  \/ \E k \in DOMAIN fjob.srcs :
       /\ Arrived(k) /\ IsPrefix(fjob.srcs[k], q)
       /\ Rebase(q, fjob.srcs[k], Target(k)) \in DOMAIN tree
       /\ tree[Rebase(q, fjob.srcs[k], Target(k))] = before[q]
LocatedPart ==
  fjob.cmd = "mv" /\ ~Has("b") =>
    /\ \A i \in DOMAIN fjob.srcs : \A q \in Under(tree, fjob.srcs[i]) : q \in DOMAIN before /\ tree[q] = before[q]
    /\ OneNameEach /\ (Copying \/ opc = "delete") => dst = Target(operand)
    /\ OneNameEach => \A i \in DOMAIN fjob.srcs : \A q \in Files(before, fjob.srcs[i]) : Located(q)

(* -u: what is newer than all sources stays where it is.                   *)
PromisedPart ==
  Carries /\ ~Gentle /\ Has("u") /\ fjob.backup = "none" =>
    /\ \A q \in Promised : q \in DOMAIN tree /\ tree[q] = before[q]
    /\ opc \in {"open", "write"} => To(file) \notin Promised
    /\ fjob.cmd = "mv" /\ Copying => \A q \in Promised : ~IsPrefix(dst, q)

FilesInv ==
  /\ JobPart /\ PhasePart /\ CopyPart /\ GentlePart /\ SourcesPart /\ LocatedPart /\ PromisedPart
  /\ RemovesOnlyOperands

(* The parameters of a command.                                            *)
LEMMA JobFacts ==
  ASSUME fjob \in FileJobs
  PROVE  /\ fjob.cmd \in {"mv", "cp", "rm"}
         /\ Len(fjob.srcs) \in Nat /\ DOMAIN fjob.srcs = 1 .. Len(fjob.srcs)
         /\ \A i \in DOMAIN fjob.srcs : fjob.srcs[i] \in FilePaths
         /\ Dest \in FilePaths
         /\ fjob.cmd # "cp" => fjob.backup = "none"
         /\ Has("T") => Dest # <<>>
  BY FileJobAssumption DEF Has, Dest

LEMMA TargetFacts ==
  ASSUME fjob \in FileJobs, Carries, Apart, IsTree(before)
  PROVE  /\ \A i \in DOMAIN fjob.srcs :
              /\ fjob.srcs[i] # <<>> /\ Last(fjob.srcs[i]) \in Seq(Letters)
              /\ Target(i) \in FilePaths /\ Target(i) # <<>>
              /\ \A k \in DOMAIN fjob.srcs :
                   ~IsPrefix(fjob.srcs[k], Target(i)) /\ ~IsPrefix(Target(i), fjob.srcs[k])
         /\ IsDir(before, Dest) => \A k \in DOMAIN fjob.srcs : ~IsPrefix(fjob.srcs[k], Dest)
         /\ ~IsDir(before, Dest) =>
              /\ Dest # <<>>
              /\ \A k \in DOMAIN fjob.srcs, x \in Seq(Letters) :
                   /\ ~IsPrefix(fjob.srcs[k], Dest) /\ ~IsPrefix(Dest, fjob.srcs[k])
                   /\ ~IsPrefix(fjob.srcs[k], Join(Dest, x)) /\ ~IsPrefix(Join(Dest, x), fjob.srcs[k])
<1>1. /\ \A i \in DOMAIN fjob.srcs : fjob.srcs[i] \in FilePaths /\ fjob.srcs[i] # <<>>
      /\ Dest \in FilePaths /\ 1 \in DOMAIN fjob.srcs
  <2>1. fjob.srcs # <<>> /\ fjob.srcs \in Seq(FilePaths)
    BY FileJobAssumption
  <2>2. 1 \in DOMAIN fjob.srcs
    BY <2>1, EmptySeq
  <2> QED BY <2>2, JobFacts DEF Apart, Carries
<1>2. \A i \in DOMAIN fjob.srcs : Last(fjob.srcs[i]) \in Seq(Letters)
  BY <1>1, PathLast
<1>3. IsDir(before, <<>>)
  BY DEF IsTree
<1>4. \A k, i \in DOMAIN fjob.srcs : ~IsPrefix(fjob.srcs[k], Target(i)) /\ ~IsPrefix(Target(i), fjob.srcs[k])
  BY DEF Apart, Carries
<1>5. \A i \in DOMAIN fjob.srcs : Target(i) \in FilePaths /\ Target(i) # <<>>
  BY <1>1, <1>2, <1>3, PathJoin DEF Target
<1>6. ASSUME IsDir(before, Dest), NEW k \in DOMAIN fjob.srcs PROVE ~IsPrefix(fjob.srcs[k], Dest)
  <2>1. Target(k) = Join(Dest, Last(fjob.srcs[k])) /\ IsPrefix(Dest, Target(k))
    BY <1>1, <1>2, <1>6, PathJoin DEF Target
  <2> QED BY <1>1, <1>4, <1>5, <1>6, <2>1, PathOrder
<1>7. ASSUME ~IsDir(before, Dest), NEW k \in DOMAIN fjob.srcs, NEW x \in Seq(Letters)
      PROVE  /\ ~IsPrefix(fjob.srcs[k], Dest) /\ ~IsPrefix(Dest, fjob.srcs[k])
             /\ ~IsPrefix(fjob.srcs[k], Join(Dest, x)) /\ ~IsPrefix(Join(Dest, x), fjob.srcs[k])
  <2>1. Target(k) = Dest
    BY <1>7 DEF Target
  <2>2. /\ Join(Dest, x) \in FilePaths /\ IsPrefix(Dest, Join(Dest, x))
        /\ \A q \in FilePaths : IsPrefix(q, Join(Dest, x)) => q = Join(Dest, x) \/ IsPrefix(q, Dest)
    BY <1>1, PathJoin
  <2>3. ~IsPrefix(fjob.srcs[k], Dest) /\ ~IsPrefix(Dest, fjob.srcs[k])
    BY <1>4, <2>1
  <2> QED BY <1>1, <2>2, <2>3, PathOrder
<1> QED BY <1>1, <1>2, <1>3, <1>4, <1>5, <1>6, <1>7

-----------------------------------------------------------------------------
(* The end of an operand's work, or of the command's.                      *)
Leaves ==
  /\ todo' = {} /\ UNCHANGED <<before, fjob>> /\ errors' \in BOOLEAN
  /\ \/ opc' = "operand" /\ operand' = operand + 1 /\ operand \in DOMAIN fjob.srcs
     \/ opc' = "done" /\ operand' = operand

LEMMA LeavingKeeps ==
  ASSUME FilesInv, Leaves, tree' = tree
  PROVE  FilesInv'
<1> USE DEF FilesInv
<1>0. Len(fjob.srcs) \in Nat /\ DOMAIN fjob.srcs = 1 .. Len(fjob.srcs) /\ before' = before /\ fjob' = fjob
  BY JobFacts DEF Leaves, JobPart
<1>1. JobPart'
  BY <1>0 DEF JobPart, Leaves
<1>2. PhasePart'
  <2>1. operand' # 1 \/ opc' # "operand"
    BY <1>0 DEF Leaves, JobPart
  <2>2. opc' \in {"operand", "done"} /\ todo' = {}
    BY DEF Leaves
  <2>3. ~Copying' /\ opc' \notin {"open", "write", "delete"}
    BY <2>2 DEF Copying
  <2> QED BY <1>0, <2>1, <2>2, <2>3 DEF PhasePart, Carries, Dest
<1>3. CopyPart' /\ opc' \notin {"open", "write", "copy", "delete"}
  BY DEF Leaves, CopyPart, Copying
<1>4. GentlePart'
  BY <1>0, <1>3 DEF GentlePart, Gentle, Sparing, NoClobberHonoured, Dest, Has, Somewhere, Copying, Whole
<1>5. SourcesPart'
  BY <1>0 DEF SourcesPart, BackupIsNoSource, Under
<1>6. LocatedPart'
  <2>1. \A k \in DOMAIN fjob.srcs : Arrived(k) => Arrived(k)'
    BY <1>0 DEF Leaves, Arrived, JobPart
  <2>2. \A q : Located(q) => Located(q)'
    BY <1>0, <2>1 DEF Located, Target, Dest
  <2> QED BY <1>0, <1>3, <2>2 DEF LocatedPart, Has, OneNameEach, Copying, Dest, Under, Files
<1>7. PromisedPart'
  BY <1>0, <1>3 DEF PromisedPart, Carries, Gentle, Sparing, NoClobberHonoured, Dest, Has, Promised, SourceTimes, Copying, Whole
<1>8. RemovesOnlyOperands'
  BY <1>0 DEF RemovesOnlyOperands, Has
<1> QED BY <1>1, <1>2, <1>3, <1>4, <1>5, <1>6, <1>7, <1>8

LEMMA UnderFacts ==
  ASSUME IsTree(tree), NEW d \in FilePaths
  PROVE  /\ DOMAIN tree \subseteq FilePaths
         /\ \A q \in DOMAIN tree : IsPrefix(d, q) => q = d \/ IsDir(tree, d)
         /\ ~Exists(tree, d) => \A q \in DOMAIN tree : ~IsPrefix(d, q)
  BY TreeIff DEF Shaped, IsDir, Exists

(* What -u promises is newer than every source.                            *)
LEMMA PromisedFacts ==
  ASSUME IsTree(before), Carries, ~Gentle, Has("u"), fjob.backup = "none"
  PROVE  /\ \A q \in Promised : q \in Whole(before) /\ q \in DOMAIN before /\ IsFile(before, q)
         /\ \A q \in Promised, i \in DOMAIN fjob.srcs : \A p \in Files(before, fjob.srcs[i]) :
              p # q /\ before[q][2] \in Nat /\ before[p][2] \in Nat /\ before[q][2] > before[p][2]
<1>1. \A q \in DOMAIN before : before[q][2] \in Nat
  BY DEF IsTree
<1>2. Promised = {p \in Whole(before) : \A n \in SourceTimes : before[p][2] > n}
  BY DEF Promised, Gentle, Sparing, Carries
<1>3. \A q \in Promised : q \in Whole(before) /\ q \in DOMAIN before /\ IsFile(before, q)
  BY <1>2 DEF Whole
<1>4. \A i \in DOMAIN fjob.srcs : \A p \in Files(before, fjob.srcs[i]) : before[p][2] \in SourceTimes /\ p \in DOMAIN before
  BY DEF SourceTimes, Files, Under
<1>5. ASSUME NEW q \in Promised, NEW i \in DOMAIN fjob.srcs, NEW p \in Files(before, fjob.srcs[i])
      PROVE  p # q /\ before[q][2] \in Nat /\ before[p][2] \in Nat /\ before[q][2] > before[p][2]
  <2>1. before[q][2] > before[p][2] /\ before[p][2] \in Nat /\ before[q][2] \in Nat
    BY <1>1, <1>2, <1>3, <1>4, <1>5
  <2> QED BY <2>1
<1> QED BY <1>3, <1>5

(* mv -u replaces nothing that is promised.                                *)
LEMMA OlderOnly ==
  ASSUME FilesInv, fjob.cmd = "mv", ~Gentle, Has("u"), NEW d, NEW i \in DOMAIN fjob.srcs,
         Exists(tree, fjob.srcs[i]), Exists(tree, d), Newer(fjob.srcs[i], d)
  PROVE  d \notin Promised
<1> SUFFICES ASSUME d \in Promised PROVE FALSE
  OBVIOUS
<1> DEFINE s == fjob.srcs[i]
<1>0. /\ IsTree(before) /\ IsTree(tree) /\ s \in FilePaths /\ s \in DOMAIN tree /\ d \in DOMAIN tree
      /\ Carries /\ ~Has("b") /\ fjob.backup = "none"
  BY JobFacts DEF FilesInv, JobPart, Exists, Carries, Gentle, Sparing
<1>1. tree[s][2] \in Nat /\ tree[d][2] \in Nat /\ tree[s][2] > tree[d][2]
  BY <1>0 DEF IsTree, Newer
<1>2. IsFile(tree, s)
  BY <1>0, <1>1 DEF IsFile, Exists, Dir
<1>3. s \in Under(tree, s)
  BY <1>0, PathOrder DEF Under
<1>4. s \in DOMAIN before /\ tree[s] = before[s]
  BY <1>0, <1>3 DEF FilesInv, LocatedPart
<1>5. s \in Files(before, s)
  BY <1>0, <1>2, <1>4, PathOrder DEF Files, Under, IsFile, Exists
<1>6. tree[d] = before[d]
  BY <1>0 DEF FilesInv, PromisedPart
<1>7. before[d][2] > before[s][2]
  BY <1>0, <1>5, PromisedFacts
<1> QED BY <1>1, <1>4, <1>6, <1>7

(* What the command is told does not change.                               *)
LEMMA PromisedSame ==
  ASSUME before' = before, fjob' = fjob
  PROVE  /\ Promised' = Promised /\ (Carries <=> Carries') /\ (Gentle <=> Gentle')
         /\ Has("u")' = Has("u") /\ Has("b")' = Has("b") /\ Has("x")' = Has("x")
         /\ Whole(before)' = Whole(before) /\ (OneNameEach <=> OneNameEach') /\ Dest' = Dest
         /\ \A k : Target(k)' = Target(k)
<1>0. NoClobberHonoured <=> NoClobberHonoured'
  BY DEF NoClobberHonoured, Dest
<1>1. /\ SourceTimes' = SourceTimes /\ (Carries <=> Carries') /\ (Gentle <=> Gentle') /\ Whole(before)' = Whole(before)
      /\ (OneNameEach <=> OneNameEach') /\ Dest' = Dest
  BY <1>0 DEF SourceTimes, Carries, Gentle, Sparing, Has, Whole, OneNameEach, Dest
<1>2. Has("u")' = Has("u") /\ Has("b")' = Has("b") /\ Has("x")' = Has("x") /\ Has("n")' = Has("n")
      /\ Has("i")' = Has("i") /\ Has("f")' = Has("f")
  BY DEF Has
<1>3. Promised' = Promised
  <2> HIDE DEF Has, Whole, SourceTimes
  <2> QED BY <1>0, <1>1, <1>2 DEF Promised
<1>4. \A k : Target(k)' = Target(k)
  BY DEF Target, Dest
<1> QED BY <1>1, <1>2, <1>3, <1>4

LEMMA CopyBegins ==
  ASSUME FilesInv, Carries, opc = "operand", operand \in DOMAIN fjob.srcs, Exists(tree, Operand),
         NEW d \in FilePaths, d # <<>>, ~IsPrefix(Operand, d), ~IsPrefix(d, Operand),
         BeginCopy(Operand, d), UNCHANGED <<before, fjob>>,
         fjob.cmd = "cp" \/ ~Has("b") =>
           \A k \in DOMAIN fjob.srcs : ~IsPrefix(fjob.srcs[k], d) /\ ~IsPrefix(d, fjob.srcs[k]),
         fjob.cmd = "cp" /\ IsDir(before, Dest) => d = Target(operand),
         Gentle /\ fjob.cmd = "mv" => ~Exists(tree, d) \/ (IsDir(tree, Operand) /\ IsFile(tree, d)),
         fjob.cmd = "mv" /\ ~Has("b") /\ OneNameEach => d = Target(operand),
         fjob.cmd = "mv" /\ ~Has("b") /\ Has("u") /\ Exists(tree, d) => Newer(Operand, d) /\ ~IsDir(tree, d)
  PROVE  FilesInv'
<1> USE DEF FilesInv
<1>0. /\ Len(fjob.srcs) \in Nat /\ DOMAIN fjob.srcs = 1 .. Len(fjob.srcs) /\ before' = before /\ fjob' = fjob
      /\ fjob.srcs[operand] \in FilePaths /\ IsTree(tree) /\ IsTree(before) /\ fjob \in FileJobs
  BY JobFacts DEF JobPart
<1>1. /\ opc' = "copy" /\ src' = Operand /\ dst' = d /\ todo' = Under(tree, Operand)
      /\ tree' = tree /\ operand' = operand /\ file' = file /\ errors' = errors
  BY DEF BeginCopy
<1>2. JobPart'
  BY <1>0, <1>1 DEF JobPart
<1>3. PhasePart'
  BY <1>0, <1>1 DEF PhasePart, Copying, Carries, Operand, Dest, Under, Has, Target
<1>4. CopyPart'
  <2>1. (Under(tree, src) \ todo)' = {} /\ opc' # "delete"
    BY <1>0, <1>1 DEF Under, Operand
  <2> QED BY <2>1 DEF CopyPart
<1>5. GentlePart'
  <2>1. \A p : Somewhere(p) => Somewhere(p)'
    BY <1>0, <1>1 DEF Somewhere
  <2>2. ASSUME Gentle, fjob.cmd = "mv", NEW p \in DOMAIN tree, IsPrefix(Operand, p), IsFile(tree, p)
        PROVE  ~IsFile(tree, Rebase(p, Operand, d))
    <3>0. Operand \in FilePaths /\ DOMAIN tree \subseteq FilePaths
      BY <1>0, UnderFacts DEF Operand
    <3>1. /\ IsPrefix(d, Rebase(p, Operand, d)) /\ (Rebase(p, Operand, d) = d => p = Operand)
      BY <2>2, <3>0, PathRebase
    <3>2. CASE ~Exists(tree, d)
      BY <1>0, <3>0, <3>1, <3>2, UnderFacts DEF IsFile, Exists
    <3>3. CASE IsDir(tree, Operand) /\ IsFile(tree, d)
      <4>1. Rebase(p, Operand, d) # d
        BY <2>2, <3>1, <3>3 DEF IsFile, IsDir
      <4> QED BY <1>0, <3>1, <3>3, <4>1, UnderFacts DEF IsFile, IsDir, Exists
    <3> QED BY <2>2, <3>2, <3>3
  <2>3. (Gentle <=> Gentle') /\ (Whole(before))' = Whole(before)
    BY <1>0, PromisedSame
  <2>4. ASSUME Gentle, fjob.cmd = "mv" PROVE (\A p \in todo : IsFile(tree, p) /\ (opc = "write" => p # file) => ~IsFile(tree, To(p)))'
    BY <1>1, <2>2, <2>4 DEF To, Under
  <2> QED BY <1>0, <1>1, <2>1, <2>3, <2>4 DEF GentlePart
<1>6. SourcesPart'
  BY <1>0, <1>1 DEF SourcesPart, BackupIsNoSource, Under
<1>7. LocatedPart'
  <2>1. \A k \in DOMAIN fjob.srcs : Arrived(k) => Arrived(k)'
    BY <1>0, <1>1 DEF Arrived, JobPart
  <2>2. \A q : Located(q) => Located(q)'
    BY <1>0, <1>1, <2>1 DEF Located, Target, Dest
  <2>3. Target(operand)' = Target(operand) /\ (OneNameEach <=> OneNameEach') /\ Has("b")' = Has("b")
    BY <1>0, <1>1 DEF Target, Dest, OneNameEach, Has
  <2> QED BY <1>0, <1>1, <2>2, <2>3 DEF LocatedPart, Under, Files
<1>8. PromisedPart'
  <2>1. Promised' = Promised /\ (Carries <=> Carries') /\ (Gentle <=> Gentle') /\ Has("u")' = Has("u")
    BY <1>0, PromisedSame
  <2>2. ASSUME Carries, ~Gentle, Has("u"), fjob.backup = "none", fjob.cmd = "mv", NEW q \in Promised, IsPrefix(d, q)
        PROVE  FALSE
    <3>1. q \in DOMAIN tree
      BY <2>2 DEF PromisedPart
    <3>2. Exists(tree, d) /\ ~Has("b")
      BY <1>0, <2>2, <3>1, UnderFacts DEF Gentle, Sparing
    <3>3. q = d /\ Newer(Operand, d)
      BY <1>0, <2>2, <3>1, <3>2, UnderFacts
    <3> QED BY <1>0, <2>2, <3>2, <3>3, OlderOnly DEF Operand
  <2> QED BY <1>0, <1>1, <2>1, <2>2 DEF PromisedPart, Copying
<1>9. RemovesOnlyOperands'
  BY <1>0, <1>1 DEF RemovesOnlyOperands, Has
<1> QED BY <1>2, <1>3, <1>4, <1>5, <1>6, <1>7, <1>8, <1>9

-----------------------------------------------------------------------------
(* mv. *)

(* The place where mv may put its operand.                                 *)
Chosen(d) ==
  /\ d \in FilePaths /\ d # <<>> /\ ~IsPrefix(Operand, d) /\ ~IsPrefix(d, Operand) /\ MayExist(tree, d)
  /\ Sparing => ~Exists(tree, d) \/ (IsDir(tree, Operand) /\ IsFile(tree, d))
  /\ ~Has("b") => \A k \in DOMAIN fjob.srcs : ~IsPrefix(fjob.srcs[k], d) /\ ~IsPrefix(d, fjob.srcs[k])
  /\ ~Has("b") /\ OneNameEach => d = Target(operand)
  /\ ~Has("b") /\ Has("u") /\ Exists(tree, d) => Newer(Operand, d)

Plain == IF IsDir(tree, Dest) THEN Join(Dest, Last(Operand)) ELSE Dest

(* Dest, or the name in it, is no relative of the operand, nor is an       *)
(* unused name beside one of them.                                         *)
LEMMA PlainFacts ==
  ASSUME FilesInv, Apart, Carries, opc = "operand", operand \in DOMAIN fjob.srcs
  PROVE  /\ Plain \in FilePaths /\ Plain # <<>> /\ ~IsPrefix(Operand, Plain) /\ ~IsPrefix(Plain, Operand)
         /\ \A k \in DOMAIN fjob.srcs : ~IsPrefix(fjob.srcs[k], Plain) /\ ~IsPrefix(Plain, fjob.srcs[k])
         /\ ~IsPrefix(Operand, Dest)
         /\ Join(Dest, Last(Operand)) \in FilePaths /\ Join(Dest, Last(Operand)) # <<>>
         /\ OneNameEach => Plain = Target(operand)
<1>0. /\ fjob \in FileJobs /\ IsTree(before) /\ operand \in 1 .. Len(fjob.srcs) /\ Len(fjob.srcs) \in Nat
      /\ Dest \in FilePaths /\ Operand \in FilePaths
  BY JobFacts DEF FilesInv, JobPart, Operand
<1>1. /\ Last(Operand) \in Seq(Letters)
      /\ Target(operand) \in FilePaths /\ Target(operand) # <<>>
      /\ ~IsPrefix(Operand, Target(operand)) /\ ~IsPrefix(Target(operand), Operand)
  BY <1>0, TargetFacts DEF Operand
<1>2. IsDir(before, Dest) => IsDir(tree, Dest) /\ ~IsPrefix(Operand, Dest)
  BY <1>0, TargetFacts DEF FilesInv, PhasePart, Operand
<1>3. ~IsDir(before, Dest) =>
        /\ Dest # <<>> /\ ~IsPrefix(Operand, Dest) /\ ~IsPrefix(Dest, Operand)
        /\ ~IsPrefix(Operand, Join(Dest, Last(Operand))) /\ ~IsPrefix(Join(Dest, Last(Operand)), Operand)
  BY <1>0, <1>1, TargetFacts DEF Operand
<1>4. Join(Dest, Last(Operand)) \in FilePaths /\ Join(Dest, Last(Operand)) # <<>>
  BY <1>0, <1>1, PathJoin
<1>5. IsDir(before, Dest) => Plain = Target(operand)
  BY <1>2 DEF Plain, Target, Operand
<1>6. OneNameEach => Plain = Target(operand)
  <2>1. ASSUME OneNameEach, ~IsDir(before, Dest) PROVE tree = before
    <3>1. ~(Len(fjob.srcs) > 1)
      BY <2>1 DEF OneNameEach
    <3>2. operand = 1
      BY <1>0, <3>1
    <3> QED BY <3>2 DEF FilesInv, PhasePart
  <2> QED BY <1>5, <2>1 DEF Plain, Target
<1>7. ~IsDir(before, Dest) => Plain \in {Dest, Join(Dest, Last(Operand))}
  BY DEF Plain
<1>8. \A k \in DOMAIN fjob.srcs : ~IsPrefix(fjob.srcs[k], Plain) /\ ~IsPrefix(Plain, fjob.srcs[k])
  BY <1>0, <1>1, <1>5, <1>7, TargetFacts
<1> QED BY <1>0, <1>1, <1>2, <1>3, <1>4, <1>5, <1>6, <1>7, <1>8

LEMMA BackupIsApart ==
  ASSUME IsTree(tree), Exists(tree, Operand), Operand \in FilePaths,
         NEW x \in FilePaths, x # <<>>, ~IsPrefix(Operand, x), Exists(tree, x)
  PROVE  LET d == MvBackup(x) IN
         d \in FilePaths /\ d # <<>> /\ ~IsPrefix(Operand, d) /\ ~IsPrefix(d, Operand) /\ ~Exists(tree, d)
<1>1. PICK n \in Nat : MvBackup(x) = Tilde(x, n) /\ ~Exists(tree, Tilde(x, n))
  BY FreshFacts DEF MvBackup
<1> DEFINE d == Tilde(x, n)
<1>2. Beside(x, d)
  BY TildeFacts
<1>3. /\ d \in FilePaths /\ d # <<>> /\ (IsPrefix(Operand, d) => Operand = d \/ IsPrefix(Operand, Parent(x)))
      /\ Parent(x) \in FilePaths /\ IsPrefix(Parent(x), x)
  BY <1>2, PathParent DEF Beside
<1>4. ~IsPrefix(d, Operand) /\ d # Operand
  BY <1>1, <1>3, UnderFacts DEF Exists
<1>5. ~IsPrefix(Operand, Parent(x))
  BY <1>3, PathOrder
<1> QED BY <1>1, <1>3, <1>4, <1>5

LEMMA RenameToSplits ==
  ASSUME NEW s, NEW d, RenameTo(s, d)
  PROVE  \/ tree' = tree /\ FailOne
         \/ MayExist(tree, d) /\ BeginCopy(s, d)
         \/ MayExist(tree, d) /\ MayRename(tree, s, d) /\ tree' = Renamed(tree, s, d) /\ NextOne
<1>1. CASE ~MayExist(tree, d)
  BY <1>1 DEF RenameTo
<1>2. CASE MayExist(tree, d) /\ ~SameDevice(s, d)
  BY <1>2 DEF RenameTo
<1>3. CASE MayExist(tree, d) /\ SameDevice(s, d)
  BY <1>3 DEF RenameTo
<1> QED BY <1>1, <1>2, <1>3

LEMMA PlainTarget ==
  ASSUME Exists(tree, Operand)
  PROVE  /\ MayExist(tree, MvTarget(Operand, Dest, FALSE)) => MvTarget(Operand, Dest, FALSE) = Plain
         /\ MayExist(tree, Dest) => Dest = Plain /\ MvTarget(Operand, Dest, FALSE) = Plain
<1>1. IsDir(tree, Operand) \/ IsFile(tree, Operand)
  BY DEF IsDir, IsFile
<1>2. CASE Has("T")
  <2>1. MvTarget(Operand, Dest, FALSE) = Dest
    BY <1>2 DEF MvTarget
  <2> QED BY <2>1 DEF MayExist, Plain
<1>3. CASE ~Has("T") /\ IsDir(tree, Dest)
  <2>1. MvTarget(Operand, Dest, FALSE) = Join(Dest, Last(Operand))
    <3>1. ~IsFile(tree, Dest)
      BY <1>3 DEF IsDir, IsFile
    <3>2. CASE IsDir(tree, Operand)
      <4>1. ~IsFile(tree, Operand)
        BY <3>2 DEF IsDir, IsFile
      <4> QED BY <1>3, <3>1, <3>2, <4>1 DEF MvTarget
    <3>3. CASE IsFile(tree, Operand)
      <4>1. ~IsDir(tree, Operand)
        BY <3>3 DEF IsDir, IsFile
      <4> QED BY <1>3, <3>1, <3>3, <4>1 DEF MvTarget
    <3> QED BY <1>1, <3>2, <3>3
  <2> QED BY <1>3, <2>1 DEF MayExist, Plain
<1>4. CASE ~Has("T") /\ ~IsDir(tree, Dest)
  <2>1. MvTarget(Operand, Dest, FALSE) = Dest
    BY <1>4 DEF MvTarget
  <2> QED BY <1>4, <2>1 DEF MayExist, Plain
<1> QED BY <1>2, <1>3, <1>4

LEMMA BackupTarget ==
  ASSUME FilesInv, Apart, fjob.cmd = "mv", opc = "operand", operand \in DOMAIN fjob.srcs, Exists(tree, Operand),
         MayExist(tree, MvTarget(Operand, Dest, TRUE))
  PROVE  LET d == MvTarget(Operand, Dest, TRUE) IN
         /\ d \in FilePaths /\ d # <<>> /\ ~IsPrefix(Operand, d) /\ ~IsPrefix(d, Operand)
         /\ ~Exists(tree, d) \/ (IsDir(tree, Operand) /\ IsFile(tree, d))
<1> DEFINE d == MvTarget(Operand, Dest, TRUE)
           inside == Join(Dest, Last(Operand))
           Good(x) == /\ x \in FilePaths /\ x # <<>> /\ ~IsPrefix(Operand, x) /\ ~IsPrefix(x, Operand)
                      /\ ~Exists(tree, x) \/ (IsDir(tree, Operand) /\ IsFile(tree, x))
<1>0. /\ fjob \in FileJobs /\ IsTree(tree) /\ Operand \in FilePaths /\ Carries /\ Dest \in FilePaths
      /\ Has("T") => Dest # <<>>
  BY JobFacts DEF FilesInv, JobPart, Operand, Carries
<1>1. /\ Plain \in FilePaths /\ Plain # <<>> /\ ~IsPrefix(Operand, Plain) /\ ~IsPrefix(Plain, Operand)
      /\ ~IsPrefix(Operand, Dest)
  BY <1>0, PlainFacts
<1>2. IsDir(tree, Operand) \/ IsFile(tree, Operand)
  BY DEF IsDir, IsFile
<1>3. \A x \in FilePaths : x # <<>> /\ ~IsPrefix(Operand, x) /\ Exists(tree, x) => Good(MvBackup(x))
  BY <1>0, BackupIsApart
<1>4. \A x : ~Exists(tree, x) => MvBackup(x) = NoPath
  BY DEF MvBackup
<1>5. MayExist(tree, d) /\ d # NoPath /\ ~IsDir(tree, d)
  BY DEF MayExist
<1>6. IsDir(tree, Dest) => Plain = inside
  BY DEF Plain
<1>7. ~IsDir(tree, Dest) => Plain = Dest
  BY DEF Plain
<1>8. \A x : (IsDir(tree, x) <=> ~IsFile(tree, x) /\ Exists(tree, x)) /\ (IsFile(tree, x) => Exists(tree, x))
  BY DEF IsDir, IsFile
<1>10. CASE Has("T")
  <2>1. d = IF Exists(tree, Dest) THEN MvBackup(Dest) ELSE Dest
    BY <1>10 DEF MvTarget
  <2>2. CASE Exists(tree, Dest)
    BY <1>0, <1>1, <1>3, <1>10, <2>1, <2>2
  <2>3. CASE ~Exists(tree, Dest)
    BY <1>1, <1>7, <1>8, <2>1, <2>3
  <2> QED BY <2>2, <2>3
<1>11. CASE ~Has("T") /\ IsDir(tree, Operand) /\ IsDir(tree, Dest)
  <2>1. d = MvBackup(inside)
    BY <1>8, <1>11 DEF MvTarget
  <2>2. Exists(tree, inside)
    BY <1>4, <1>5, <2>1
  <2> QED BY <1>1, <1>3, <1>6, <1>11, <2>1, <2>2
<1>12. CASE ~Has("T") /\ IsFile(tree, Operand) /\ IsFile(tree, Dest)
  <2>1. d = MvBackup(Dest)
    BY <1>8, <1>12 DEF MvTarget
  <2> QED BY <1>1, <1>3, <1>7, <1>8, <1>12, <2>1
<1>13. CASE ~Has("T") /\ IsFile(tree, Operand) /\ IsDir(tree, Dest)
  <2>1. d = IF IsFile(tree, inside) THEN MvBackup(inside) ELSE inside
    BY <1>8, <1>13 DEF MvTarget
  <2>2. CASE IsFile(tree, inside)
    BY <1>1, <1>3, <1>6, <1>8, <1>13, <2>1, <2>2
  <2>3. CASE ~IsFile(tree, inside)
    BY <1>1, <1>5, <1>6, <1>8, <1>13, <2>1, <2>3
  <2> QED BY <2>2, <2>3
<1>14. CASE ~Has("T") /\ ~IsDir(tree, Dest) /\ ~(IsFile(tree, Operand) /\ IsFile(tree, Dest))
  <2>1. d = Dest
    BY <1>8, <1>14 DEF MvTarget
  <2> QED BY <1>1, <1>2, <1>5, <1>7, <1>8, <1>14, <2>1
<1> QED BY <1>2, <1>10, <1>11, <1>12, <1>13, <1>14

(* mv -n, where it is honoured, renames onto nothing but, which fails, a   *)
(* directory onto a file.                                                  *)
LEMMA NoClobberFacts ==
  ASSUME FilesInv, Apart, fjob.cmd = "mv", opc = "operand", operand \in DOMAIN fjob.srcs,
         NoClobberHonoured, Exists(tree, Operand), MayExist(tree, Dest), ~SameName(Operand, Dest)
  PROVE  ~Exists(tree, Dest) \/ (IsDir(tree, Operand) /\ IsFile(tree, Dest))
<1>1. ~IsDir(tree, Dest) /\ Carries
  BY DEF MayExist, Carries
<1>2. ~IsDir(before, Dest)
  BY <1>1 DEF FilesInv, PhasePart
<1>3. /\ Len(fjob.srcs) = 1 /\ (Exists(before, Dest) => Last(fjob.srcs[1]) = Last(Dest))
      /\ operand \in 1 .. Len(fjob.srcs)
  BY <1>2, JobFacts DEF NoClobberHonoured, FilesInv, JobPart
<1>4. operand = 1 /\ tree = before /\ Operand = fjob.srcs[1]
  BY <1>3 DEF FilesInv, PhasePart, Operand
<1>5. Exists(tree, Dest) => IsDir(tree, Operand)
  BY <1>1, <1>3, <1>4 DEF SameName, IsDir
<1> QED BY <1>1, <1>5 DEF IsFile, IsDir

LEMMA MvChooses ==
  ASSUME FilesInv, Apart, MvOperand
  PROVE  \/ tree' = tree /\ (NextOne \/ FailOne)
         \/ \E d : /\ Chosen(d) /\ Exists(tree, Operand)
                   /\ \/ BeginCopy(Operand, d)
                      \/ MayRename(tree, Operand, d) /\ tree' = Renamed(tree, Operand, d) /\ NextOne
<1> DEFINE s == Operand
           Goes(d) == \/ MayExist(tree, d) /\ BeginCopy(s, d)
                      \/ MayExist(tree, d) /\ MayRename(tree, s, d) /\ tree' = Renamed(tree, s, d) /\ NextOne
           target == MvTarget(s, Dest, Has("b"))
           stale == Has("u") /\ Exists(tree, target) /\ ~Newer(s, target)
<1>0. /\ fjob.cmd = "mv" /\ Carries /\ opc = "operand" /\ operand \in DOMAIN fjob.srcs /\ ~BadOptions
  BY JobFacts DEF MvOperand, At, FilesInv, JobPart, Carries
<1>1. \A d : RenameTo(s, d) => (tree' = tree /\ FailOne) \/ Goes(d)
  BY RenameToSplits
<1>2. (~Has("b") => target = MvTarget(s, Dest, FALSE)) /\ (Has("b") => target = MvTarget(s, Dest, TRUE))
  <2>1. CASE Has("b")
    <3>1. Has("b") = TRUE
      BY <2>1, Zenon DEF Has
    <3> QED BY <2>1, <3>1
  <2>2. CASE ~Has("b")
    <3>1. Has("b") = FALSE
      BY <2>2, SMT DEF Has
    <3> QED BY <2>2, <3>1
  <2> QED BY <2>1, <2>2
<1>3. \/ tree' = tree /\ (NextOne \/ FailOne)
      \/ /\ Exists(tree, s) /\ ~stale
         /\ \/ Has("n") /\ ~Has("b") /\ ~SameName(s, Dest) /\ Goes(Dest)
            \/ ~Has("n") /\ ~Has("b") /\ Goes(MvTarget(s, Dest, FALSE))
            \/ ~Has("n") /\ Goes(target)
  <2> HIDE DEF Goes
  <2>1. Has("n") => ~Has("b")
    BY <1>0 DEF BadOptions
  <2>2. Has("i") /\ ~ForcedMove => ~Has("b")
    BY DEF ForcedMove
  <2>3. \/ tree' = tree /\ (NextOne \/ FailOne)
        \/ /\ Exists(tree, s) /\ ~stale
           /\ \/ Has("n") /\ ~SameName(s, Dest) /\ RenameTo(s, Dest)
              \/ ~Has("n") /\ Has("i") /\ ~ForcedMove /\ RenameTo(s, MvTarget(s, Dest, FALSE))
              \/ ~Has("n") /\ RenameTo(s, target)
    BY DEF MvOperand
  <2> QED BY <1>1, <2>1, <2>2, <2>3
<1>4. Exists(tree, s) /\ MayExist(tree, Dest) => Dest = Plain /\ MvTarget(s, Dest, FALSE) = Plain
  BY PlainTarget
<1>5. Exists(tree, s) /\ MayExist(tree, MvTarget(s, Dest, FALSE)) => MvTarget(s, Dest, FALSE) = Plain
  BY PlainTarget
<1>6. /\ Plain \in FilePaths /\ Plain # <<>> /\ ~IsPrefix(s, Plain) /\ ~IsPrefix(Plain, s)
      /\ \A k \in DOMAIN fjob.srcs : ~IsPrefix(fjob.srcs[k], Plain) /\ ~IsPrefix(Plain, fjob.srcs[k])
      /\ OneNameEach => Plain = Target(operand)
  BY <1>0, PlainFacts
<1>7. ASSUME Exists(tree, s), ~stale, ~Has("b"), MayExist(tree, Plain), target = Plain,
             Has("n") => ~SameName(s, Dest) /\ Plain = Dest
      PROVE  Chosen(Plain)
  <2>1. Sparing => ~Exists(tree, Plain) \/ (IsDir(tree, Operand) /\ IsFile(tree, Plain))
    BY <1>0, <1>7, NoClobberFacts DEF Sparing
  <2> QED BY <1>6, <1>7, <2>1 DEF Chosen
<1>8. ASSUME Exists(tree, s), Has("b"), MayExist(tree, target)
      PROVE  Chosen(target)
  BY <1>0, <1>2, <1>8, BackupTarget DEF Chosen
<1>9. ASSUME Exists(tree, s), ~stale, NEW d, Goes(d),
             \/ ~Has("b") /\ d \in {Dest, MvTarget(s, Dest, FALSE)}
             \/ Has("b") /\ d = target,
             Has("n") => ~SameName(s, Dest) /\ d = Dest
      PROVE  Chosen(d)
  <2>1. MayExist(tree, d)
    BY <1>9
  <2>2. CASE ~Has("b")
    <3>1. d = Plain /\ target = Plain
      BY <1>2, <1>4, <1>5, <1>9, <2>1, <2>2
    <3> QED BY <1>7, <1>9, <2>1, <2>2, <3>1
  <2>3. CASE Has("b")
    BY <1>8, <1>9, <2>1, <2>3
  <2> QED BY <2>2, <2>3
<1>10. CASE tree' = tree /\ (NextOne \/ FailOne)
  BY <1>10
<1>11. CASE ~(tree' = tree /\ (NextOne \/ FailOne))
  <2>1. PICK d : /\ Exists(tree, s) /\ ~stale /\ Goes(d)
                 /\ \/ ~Has("b") /\ d \in {Dest, MvTarget(s, Dest, FALSE)}
                    \/ Has("b") /\ d = target
                 /\ Has("n") => ~SameName(s, Dest) /\ d = Dest
    <3> HIDE DEF Goes, stale
    <3> QED BY <1>2, <1>3, <1>11
  <2>2. Chosen(d)
    BY <1>9, <2>1
  <2> QED BY <2>1, <2>2
<1> QED BY <1>10, <1>11

(* Two operands do not go to one place.                                    *)
LEMMA TargetsDiffer ==
  ASSUME fjob \in FileJobs, OneNameEach, Carries, Apart, IsTree(before),
         NEW i \in DOMAIN fjob.srcs, NEW k \in DOMAIN fjob.srcs, i # k
  PROVE  ~IsPrefix(Target(i), Target(k))
<1>1. Len(fjob.srcs) > 1
  <2>1. DOMAIN fjob.srcs = 1 .. Len(fjob.srcs) /\ Len(fjob.srcs) \in Nat
    BY JobFacts
  <2> QED BY <2>1
<1>2. IsDir(before, Dest) /\ Last(fjob.srcs[i]) # Last(fjob.srcs[k])
  BY <1>1 DEF OneNameEach
<1>3. Dest \in FilePaths /\ Last(fjob.srcs[i]) \in Seq(Letters) /\ Last(fjob.srcs[k]) \in Seq(Letters)
  BY JobFacts, TargetFacts
<1> DEFINE x == Last(fjob.srcs[i])
           y == Last(fjob.srcs[k])
<1>4. Target(i) = Join(Dest, x) /\ Target(k) = Join(Dest, y)
  BY <1>2 DEF Target
<1>5. /\ Join(Dest, x) \in FilePaths /\ Last(Join(Dest, x)) = x /\ Len(Join(Dest, x)) = Len(Dest) + 1
      /\ Join(Dest, y) \in FilePaths /\ Last(Join(Dest, y)) = y
      /\ IsPrefix(Join(Dest, x), Join(Dest, y)) => Join(Dest, x) = Join(Dest, y) \/ IsPrefix(Join(Dest, x), Dest)
  BY <1>3, PathJoin
<1>6. ~IsPrefix(Join(Dest, x), Dest)
  <2>1. IsPrefix(Join(Dest, x), Dest) => Len(Join(Dest, x)) <= Len(Dest) /\ Len(Dest) \in Nat
    BY <1>3, <1>5, PathAt
  <2> QED BY <1>5, <2>1
<1> QED BY <1>2, <1>4, <1>5, <1>6

LEMMA RenameKeeps ==
  ASSUME FilesInv, Apart, fjob.cmd = "mv", opc = "operand", operand \in DOMAIN fjob.srcs, Exists(tree, Operand),
         NEW d, Chosen(d), MayRename(tree, Operand, d), tree' = Renamed(tree, Operand, d), NextOne,
         UNCHANGED <<before, fjob>>
  PROVE  FilesInv'
<1> DEFINE s == Operand
<1>0. /\ Len(fjob.srcs) \in Nat /\ DOMAIN fjob.srcs = 1 .. Len(fjob.srcs) /\ before' = before /\ fjob' = fjob
      /\ s \in FilePaths /\ IsTree(tree) /\ IsTree(before) /\ fjob \in FileJobs /\ Carries
      /\ d \in FilePaths /\ d # <<>> /\ ~IsPrefix(s, d) /\ ~IsPrefix(d, s) /\ MayExist(tree, d)
      /\ DOMAIN tree \subseteq FilePaths /\ DOMAIN before \subseteq FilePaths
      /\ \A i \in DOMAIN fjob.srcs : fjob.srcs[i] \in FilePaths
  BY JobFacts DEF FilesInv, JobPart, Carries, Chosen, Operand, IsTree
<1>1. /\ opc' = "operand" /\ operand' = operand + 1 /\ todo' = {} /\ errors' = errors
  BY DEF NextOne, Idle
<1>2. s # d
  BY <1>0, PathOrder
<1>3. /\ IsTree(tree')
      /\ \A q \in DOMAIN tree : ~IsPrefix(s, q) /\ q # d => q \in DOMAIN tree' /\ tree'[q] = tree[q]
      /\ \A q \in DOMAIN tree : IsPrefix(s, q) =>
           Rebase(q, s, d) \in DOMAIN tree' /\ tree'[Rebase(q, s, d)] = tree[q]
      /\ \A q \in DOMAIN tree' :
           \/ q \in DOMAIN tree /\ ~IsPrefix(s, q) /\ ~IsPrefix(d, q) /\ tree'[q] = tree[q]
           \/ IsPrefix(d, q)
  BY <1>0, <1>2, RenamedFacts
<1>4. opc' \notin {"open", "write", "copy", "delete"} /\ ~Copying'
  BY <1>1 DEF Copying
<1>5. JobPart'
  BY <1>0, <1>1, <1>3 DEF FilesInv, JobPart
<1>6. PhasePart'
  <2>1. operand' # 1
    BY <1>0, <1>1
  <2>2. IsDir(before, Dest) => IsDir(tree', Dest)
    <3> SUFFICES ASSUME IsDir(before, Dest) PROVE IsDir(tree', Dest)
      OBVIOUS
    <3>1. IsDir(tree, Dest)
      BY <1>0 DEF FilesInv, PhasePart
    <3>2. ~IsPrefix(s, Dest)
      BY <1>0, TargetFacts DEF Operand
    <3>3. Dest # d
      BY <1>0, <3>1 DEF MayExist
    <3> QED BY <1>3, <3>1, <3>2, <3>3 DEF IsDir, Exists
  <2> QED BY <1>0, <1>1, <1>4, <2>1, <2>2 DEF PhasePart, Dest, Carries
<1>7. CopyPart'
  BY <1>4 DEF CopyPart
<1>8. GentlePart'
  <2>1. ASSUME Sparing, NEW p \in Whole(before) PROVE Somewhere(p)'
    <3>1. ~Exists(tree, d)
      BY <2>1 DEF Chosen, MayRename
    <3>2. Gentle
      BY <2>1 DEF Gentle
    <3>3. PICK q \in DOMAIN tree : tree[q][1] = before[p][1]
      BY <2>1, <3>2 DEF FilesInv, GentlePart, Somewhere
    <3>4. q # d
      BY <3>1, <3>3 DEF Exists
    <3>5. \E r \in DOMAIN tree' : tree'[r] = tree[q]
      BY <1>3, <3>3, <3>4
    <3> QED BY <1>0, <1>4, <3>3, <3>5 DEF Somewhere
  <2>2. Gentle' => Sparing
    BY <1>0, PromisedSame DEF Gentle
  <2> QED BY <1>0, <1>4, <2>1, <2>2 DEF GentlePart, Whole
<1>9. SourcesPart'
  BY <1>0 DEF SourcesPart
<1>10. LocatedPart'
  <2> SUFFICES ASSUME ~Has("b") PROVE LocatedPart'
    BY <1>0 DEF LocatedPart, Has
  <2>1. \A k \in DOMAIN fjob.srcs : ~IsPrefix(fjob.srcs[k], d) /\ ~IsPrefix(d, fjob.srcs[k])
    BY DEF Chosen
  <2>2. ASSUME NEW i \in DOMAIN fjob.srcs, NEW q \in DOMAIN tree', IsPrefix(fjob.srcs[i], q)
        PROVE  q \in DOMAIN before /\ tree'[q] = before[q]
    <3>1. q \in FilePaths
      BY <1>3 DEF IsTree
    <3>2. ~IsPrefix(d, q)
      BY <1>0, <2>1, <2>2, <3>1, PathOrder
    <3>3. q \in DOMAIN tree /\ tree'[q] = tree[q]
      BY <1>3, <3>2
    <3> QED BY <2>2, <3>3 DEF FilesInv, LocatedPart, Under
  <2>3. ASSUME OneNameEach, NEW i \in DOMAIN fjob.srcs, NEW q \in Files(before, fjob.srcs[i])
        PROVE  Located(q)'
    <3>0. q \in DOMAIN before /\ q \in FilePaths /\ IsPrefix(fjob.srcs[i], q) /\ d = Target(operand)
      BY <1>0, <2>3 DEF Files, Under, Chosen
    <3>1. Located(q)
      BY <2>3 DEF FilesInv, LocatedPart
    <3>2. \A k : Target(k)' = Target(k)
      BY <1>0 DEF Target, Dest
    <3>3. CASE q \in DOMAIN tree /\ tree[q] = before[q]
      <4>1. CASE IsPrefix(s, q)
        <5>1. Rebase(q, s, d) \in DOMAIN tree' /\ tree'[Rebase(q, s, d)] = before[q]
          BY <1>3, <3>3, <4>1
        <5>2. ASSUME NEW k \in DOMAIN fjob.srcs, k = operand PROVE Arrived(k)'
          BY <1>0, <1>1, <5>2 DEF Arrived
        <5>3. PICK k \in DOMAIN fjob.srcs : k = operand
          OBVIOUS
        <5>4. /\ Arrived(k)' /\ fjob.srcs[k] = s /\ Target(k)' = d
          BY <3>0, <3>2, <5>2, <5>3 DEF Operand
        <5> QED BY <1>0, <4>1, <5>1, <5>4 DEF Located
      <4>2. CASE ~IsPrefix(s, q)
        <5>1. q # d
          BY <2>1, <3>0
        <5> QED BY <1>0, <1>3, <3>3, <4>2, <5>1 DEF Located
      <4> QED BY <4>1, <4>2
    <3>4. ASSUME NEW k \in DOMAIN fjob.srcs, Arrived(k), IsPrefix(fjob.srcs[k], q),
                 Rebase(q, fjob.srcs[k], Target(k)) \in DOMAIN tree,
                 tree[Rebase(q, fjob.srcs[k], Target(k))] = before[q]
          PROVE  Located(q)'
      <4> DEFINE r == Rebase(q, fjob.srcs[k], Target(k))
      <4>1. k < operand
        BY <3>4 DEF Arrived
      <4>2. /\ Target(k) \in FilePaths /\ ~IsPrefix(s, Target(k)) /\ ~IsPrefix(Target(k), s)
            /\ ~IsPrefix(Target(k), d)
        BY <1>0, <2>3, <3>0, <4>1, TargetFacts, TargetsDiffer DEF Operand
      <4>3. r \in FilePaths /\ IsPrefix(Target(k), r)
        BY <1>0, <3>0, <3>4, <4>2, PathRebase
      <4>4. ~IsPrefix(s, r) /\ r # d
        BY <1>0, <4>2, <4>3, PathOrder
      <4>5. r \in DOMAIN tree' /\ tree'[r] = before[q]
        BY <1>3, <3>4, <4>4
      <4>6. Arrived(k)'
        BY <1>0, <1>1, <4>1 DEF Arrived
      <4> QED BY <1>0, <3>2, <3>4, <4>5, <4>6 DEF Located
    <3> QED BY <3>1, <3>3, <3>4 DEF Located
  <2> QED BY <1>0, <1>4, <2>2, <2>3 DEF LocatedPart, Under, Files, OneNameEach, Dest
<1>11. PromisedPart'
  <2>1. Promised' = Promised /\ (Carries <=> Carries') /\ (Gentle <=> Gentle') /\ Has("u")' = Has("u")
    BY <1>0, PromisedSame
  <2>2. ASSUME ~Gentle, Has("u"), fjob.backup = "none", NEW q \in Promised
        PROVE  q \in DOMAIN tree' /\ tree'[q] = before[q]
    <3>1. q \in DOMAIN tree /\ tree[q] = before[q] /\ ~Has("b")
      BY <1>0, <2>2 DEF FilesInv, PromisedPart, Gentle, Sparing
    <3>2. ~IsPrefix(s, q)
      <4>1. q \in DOMAIN before /\ IsFile(before, q)
        BY <1>0, <2>2, PromisedFacts
      <4>2. IsPrefix(s, q) => q \in Files(before, fjob.srcs[operand])
        BY <4>1 DEF Files, Under, Operand
      <4>3. q \notin Files(before, fjob.srcs[operand])
        BY <1>0, <2>2, PromisedFacts
      <4> QED BY <4>2, <4>3
    <3>3. q # d
      <4>1. Exists(tree, d) => Newer(fjob.srcs[operand], d)
        BY <2>2, <3>1 DEF Chosen, Operand
      <4>2. Exists(tree, fjob.srcs[operand])
        BY DEF Operand
      <4>3. Exists(tree, d) => d \notin Promised
        BY <2>2, <3>1, <4>1, <4>2, OlderOnly
      <4> QED BY <2>2, <3>1, <4>3 DEF Exists
    <3> QED BY <1>3, <3>1, <3>2, <3>3
  <2> QED BY <1>0, <1>4, <2>1, <2>2 DEF PromisedPart
<1>12. RemovesOnlyOperands'
  BY <1>0 DEF RemovesOnlyOperands
<1> QED BY <1>5, <1>6, <1>7, <1>8, <1>9, <1>10, <1>11, <1>12 DEF FilesInv

LEMMA MvOperandKeeps ==
  ASSUME FilesInv, Apart, MvOperand
  PROVE  FilesInv'
<1>0. /\ fjob.cmd = "mv" /\ Carries /\ opc = "operand" /\ operand \in DOMAIN fjob.srcs /\ ~BadOptions
      /\ UNCHANGED <<before, fjob>> /\ (Gentle <=> Sparing)
  BY JobFacts DEF MvOperand, At, FilesInv, JobPart, Carries, Gentle
<1>1. CASE tree' = tree /\ (NextOne \/ FailOne)
  <2>1. Leaves
    BY <1>0, <1>1 DEF Leaves, NextOne, FailOne, Idle, FilesInv, JobPart
  <2> QED BY <1>1, <2>1, LeavingKeeps
<1>2. ASSUME NEW d, Chosen(d), Exists(tree, Operand), BeginCopy(Operand, d)
      PROVE  FilesInv'
  <2>1. ~IsDir(tree, d)
    BY <1>2 DEF Chosen, MayExist
  <2> QED BY <1>0, <1>2, <2>1, CopyBegins DEF Chosen
<1>3. ASSUME NEW d, Chosen(d), Exists(tree, Operand), MayRename(tree, Operand, d),
             tree' = Renamed(tree, Operand, d), NextOne
      PROVE  FilesInv'
  BY <1>0, <1>3, RenameKeeps
<1> QED BY <1>1, <1>2, <1>3, MvChooses

-----------------------------------------------------------------------------
(* Steps that change no file. *)

LEMMA QuittingKeeps ==
  ASSUME FilesInv, tree' = tree, UNCHANGED <<before, fjob>>,
         \/ Quit
         \/ operand \in DOMAIN fjob.srcs /\ (NextOne \/ FailOne \/ FailOrQuit)
  PROVE  FilesInv'
<1>1. Leaves
  BY DEF Leaves, Quit, NextOne, FailOne, FailOrQuit, Idle, FilesInv, JobPart
<1> QED BY <1>1, LeavingKeeps

LEMMA EndKeeps ==
  ASSUME FilesInv, MvRefused \/ CpRefused \/ Interrupted \/ AllDone
  PROVE  FilesInv'
<1>1. CASE MvRefused \/ CpRefused \/ Interrupted
  <2>1. Quit /\ tree' = tree /\ UNCHANGED <<before, fjob>>
    BY <1>1 DEF MvRefused, CpRefused, Interrupted
  <2> QED BY <2>1, QuittingKeeps
<1>2. CASE AllDone
  <2>1. Leaves /\ tree' = tree
    BY <1>2 DEF AllDone, Leaves, FilesInv, JobPart, PhasePart
  <2> QED BY <2>1, LeavingKeeps
<1> QED BY <1>1, <1>2

LEMMA CpOperandKeeps ==
  ASSUME FilesInv, Apart, CpOperand
  PROVE  FilesInv'
<1>0. /\ fjob.cmd = "cp" /\ Carries /\ opc = "operand" /\ operand \in DOMAIN fjob.srcs
      /\ UNCHANGED <<before, fjob>>
  BY JobFacts DEF CpOperand, At, FilesInv, JobPart, Carries
<1>1. CASE Quit /\ tree' = tree
  BY <1>0, <1>1, QuittingKeeps
<1>2. CASE BeginCopy(Operand, Plain) /\ Exists(tree, Operand)
  <2>1. /\ Plain \in FilePaths /\ Plain # <<>> /\ ~IsPrefix(Operand, Plain) /\ ~IsPrefix(Plain, Operand)
        /\ \A k \in DOMAIN fjob.srcs : ~IsPrefix(fjob.srcs[k], Plain) /\ ~IsPrefix(Plain, fjob.srcs[k])
    BY <1>0, PlainFacts
  <2>2. IsDir(before, Dest) => Plain = Target(operand)
    BY <1>0 DEF FilesInv, PhasePart, Plain, Target, Operand
  <2> QED BY <1>0, <1>2, <2>1, <2>2, CopyBegins
<1> QED BY <1>1, <1>2 DEF CpOperand, Plain

LEMMA CopiedKeeps ==
  ASSUME FilesInv, Copied
  PROVE  FilesInv'
<1> USE DEF FilesInv
<1>0. /\ Len(fjob.srcs) \in Nat /\ DOMAIN fjob.srcs = 1 .. Len(fjob.srcs) /\ before' = before /\ fjob' = fjob
      /\ operand \in DOMAIN fjob.srcs /\ opc = "copy" /\ todo = {} /\ Copying
  BY JobFacts DEF JobPart, Copied, PhasePart, Copying
<1>1. CASE NextOne /\ tree' = tree
  BY <1>0, <1>1, QuittingKeeps
<1>2. CASE fjob.cmd = "mv" /\ BeginDelete(src)
  <2>1. /\ opc' = "delete" /\ src' = src /\ tree' = tree /\ operand' = operand /\ dst' = dst /\ todo' = todo
        /\ file' = file /\ errors' = errors /\ ~Copying'
    BY <1>2 DEF BeginDelete, Copying
  <2>2. JobPart'
    BY <1>0, <2>1 DEF JobPart
  <2>3. PhasePart'
    BY <1>0, <1>2, <2>1 DEF PhasePart, Operand, Carries, Dest
  <2>4. CopyPart'
    BY <1>0, <1>2, <2>1 DEF CopyPart, Twice, To, Under, PhasePart
  <2>5. GentlePart'
    BY <1>0, <2>1, PromisedSame DEF GentlePart, Has, Somewhere, Whole
  <2>6. SourcesPart'
    BY <1>0, <1>2 DEF SourcesPart
  <2>7. LocatedPart'
    <3>1. \A k \in DOMAIN fjob.srcs : Arrived(k) => Arrived(k)'
      BY <1>0, <2>1 DEF Arrived
    <3>2. \A q : Located(q) => Located(q)'
      BY <1>0, <2>1, <3>1 DEF Located, Target, Dest
    <3>3. Target(operand)' = Target(operand) /\ (OneNameEach <=> OneNameEach') /\ Has("b")' = Has("b")
      BY <1>0, <2>1 DEF Target, Dest, OneNameEach, Has
    <3> QED BY <1>0, <2>1, <3>2, <3>3 DEF LocatedPart, Under, Files
  <2>8. PromisedPart'
    <3>1. Promised' = Promised /\ (Carries <=> Carries') /\ (Gentle <=> Gentle') /\ Has("u")' = Has("u")
      BY <1>0, PromisedSame
    <3> QED BY <1>0, <2>1, <3>1 DEF PromisedPart
  <2>9. RemovesOnlyOperands'
    BY <1>0, <1>2 DEF RemovesOnlyOperands
  <2> QED BY <2>2, <2>3, <2>4, <2>5, <2>6, <2>7, <2>8, <2>9
<1> QED BY <1>1, <1>2 DEF Copied

LEMMA DeletedKeeps ==
  ASSUME FilesInv, Deleted
  PROVE  FilesInv'
<1>1. /\ operand \in DOMAIN fjob.srcs /\ tree' = tree /\ UNCHANGED <<before, fjob>> /\ (NextOne \/ FailOrQuit)
  BY DEF Deleted, FilesInv, PhasePart
<1> QED BY <1>1, QuittingKeeps

-----------------------------------------------------------------------------
(* rm. *)

(* Its invariant is only what it removes.                                  *)
LEMMA RmKeeps ==
  ASSUME FilesInv, fjob.cmd = "rm", UNCHANGED <<before, fjob>>, JobPart', PhasePart', RemovesOnlyOperands'
  PROVE  FilesInv'
<1>1. fjob'.cmd = "rm" /\ ~Gentle' /\ ~Carries'
  BY DEF Gentle, Carries
<1> QED BY <1>1 DEF FilesInv, CopyPart, GentlePart, SourcesPart, LocatedPart, PromisedPart

LEMMA RemovesOne ==
  ASSUME FilesInv, fjob.cmd = "rm", UNCHANGED <<before, fjob>>, operand \in DOMAIN fjob.srcs,
         NEW p \in DOMAIN tree, IsPrefix(Operand, p), Has("x") => Device(p) = Device(Operand),
         tree' = Unlinked(tree, {p})
  PROVE  RemovesOnlyOperands'
<1>1. DOMAIN tree' = DOMAIN tree \ {p}
  BY DEF Unlinked
<1>2. ASSUME NEW q \in DOMAIN before \ DOMAIN tree'
      PROVE  \E i \in DOMAIN fjob.srcs : IsPrefix(fjob.srcs[i], q) /\ (Has("x") => Device(q) = Device(fjob.srcs[i]))
  <2>1. CASE q = p
    BY <2>1 DEF Operand
  <2>2. CASE q # p
    BY <1>1, <1>2, <2>2 DEF FilesInv, RemovesOnlyOperands
  <2> QED BY <2>1, <2>2
<1> QED BY <1>2 DEF RemovesOnlyOperands, Has, Device

LEMMA RmOperandKeeps ==
  ASSUME FilesInv, RmOperand
  PROVE  FilesInv'
<1> DEFINE s == Operand
<1>0. /\ Len(fjob.srcs) \in Nat /\ DOMAIN fjob.srcs = 1 .. Len(fjob.srcs) /\ before' = before /\ fjob' = fjob
      /\ operand \in DOMAIN fjob.srcs /\ opc = "operand" /\ fjob.cmd = "rm" /\ ~Carries
      /\ IsTree(tree) /\ s \in FilePaths /\ todo = {}
  BY JobFacts DEF FilesInv, JobPart, PhasePart, RmOperand, At, Carries, Operand
<1>1. \/ (NextOne \/ FailOne) /\ tree' = tree
      \/ BeginDelete(s)
      \/ Exists(tree, s) /\ Entries(tree, s) = {} /\ s \notin Mounted /\ tree' = Unlinked(tree, {s}) /\ NextOne
  BY DEF RmOperand
<1>2. CASE (NextOne \/ FailOne) /\ tree' = tree
  BY <1>0, <1>2, QuittingKeeps
<1>3. CASE BeginDelete(s)
  <2>1. /\ opc' = "delete" /\ src' = s /\ tree' = tree /\ operand' = operand /\ todo' = todo /\ errors' = errors
        /\ ~Copying'
    BY <1>3 DEF BeginDelete, Copying
  <2>2. JobPart'
    BY <1>0, <2>1 DEF FilesInv, JobPart
  <2>3. PhasePart'
    BY <1>0, <2>1 DEF PhasePart, Operand, Carries
  <2>4. RemovesOnlyOperands'
    BY <1>0, <2>1 DEF FilesInv, RemovesOnlyOperands, Has
  <2> QED BY <1>0, <2>2, <2>3, <2>4, RmKeeps
<1>4. CASE Exists(tree, s) /\ Entries(tree, s) = {} /\ s \notin Mounted /\ tree' = Unlinked(tree, {s}) /\ NextOne
  <2>0. s # <<>>
    BY <1>4, TreeAssumption
  <2>1. /\ opc' = "operand" /\ operand' = operand + 1 /\ todo' = {} /\ errors' = errors /\ ~Copying'
    BY <1>4 DEF NextOne, Idle, Copying
  <2>2. IsTree(tree')
    BY <1>0, <1>4, <2>0, UnlinkedFacts DEF Exists
  <2>3. JobPart'
    BY <1>0, <2>1, <2>2 DEF FilesInv, JobPart
  <2>4. PhasePart'
    <3>1. operand' # 1
      BY <1>0, <2>1
    <3> QED BY <1>0, <2>1, <3>1 DEF PhasePart, Carries
  <2>5. RemovesOnlyOperands'
    BY <1>0, <1>4, PathOrder, RemovesOne DEF Exists
  <2> QED BY <1>0, <2>3, <2>4, <2>5, RmKeeps
<1> QED BY <1>1, <1>2, <1>3, <1>4

(* DeleteOne: what a move removes is where it was copied to.               *)
LEMMA DeleteOneKeeps ==
  ASSUME FilesInv, Apart, NEW p, DeleteOne(p)
  PROVE  FilesInv'
<1>0. /\ Len(fjob.srcs) \in Nat /\ DOMAIN fjob.srcs = 1 .. Len(fjob.srcs) /\ before' = before /\ fjob' = fjob
      /\ operand \in DOMAIN fjob.srcs /\ opc = "delete" /\ opc' = opc /\ fjob.cmd \in {"mv", "rm"}
      /\ operand' = operand /\ src' = src /\ dst' = dst /\ todo' = todo /\ file' = file /\ errors' = errors
      /\ IsTree(tree) /\ IsTree(before) /\ src = Operand /\ src \in FilePaths /\ todo = {}
      /\ fjob \in FileJobs /\ ~Copying /\ ~Copying'
  BY JobFacts DEF FilesInv, JobPart, PhasePart, DeleteOne, Operand, Copying
<1>1. /\ p \in DOMAIN tree /\ IsPrefix(src, p) /\ Entries(tree, p) = {} /\ p # <<>> /\ p \in FilePaths
      /\ tree' = Unlinked(tree, {p}) /\ (OneFileSystem => ~Foreign(p))
  BY <1>0, TreeAssumption DEF DeleteOne, Removable, Under, IsTree
<1>2. /\ IsTree(tree') /\ DOMAIN tree' = DOMAIN tree \ {p} /\ \A q \in DOMAIN tree : q # p => tree'[q] = tree[q]
  BY <1>0, <1>1, UnlinkedFacts
<1>3. JobPart'
  BY <1>0, <1>2 DEF FilesInv, JobPart
<1>4. CASE fjob.cmd = "rm"
  <2>1. PhasePart'
    BY <1>0, <1>4 DEF FilesInv, PhasePart, Operand, Carries
  <2>2. RemovesOnlyOperands'
    <3>1. Has("x") => Device(p) = Device(Operand)
      BY <1>0, <1>1, <1>4 DEF OneFileSystem, Foreign
    <3> QED BY <1>0, <1>1, <1>4, <3>1, RemovesOne
  <2> QED BY <1>0, <1>3, <1>4, <2>1, <2>2, RmKeeps
<1>5. CASE fjob.cmd = "mv"
  <2>0. /\ Carries /\ dst \in FilePaths /\ ~IsPrefix(src, dst) /\ ~IsPrefix(dst, src)
        /\ \A q \in Under(tree, src) : Twice(q)
    BY <1>0, <1>5 DEF FilesInv, CopyPart, Carries
  <2>1. To(p) \in DOMAIN tree' /\ tree'[To(p)] = tree[p]
    <3>1. IsPrefix(dst, To(p)) /\ To(p) \in FilePaths
      BY <1>0, <1>1, <2>0, PathRebase DEF To
    <3>2. To(p) # p
      BY <1>0, <1>1, <2>0, <3>1, PathOrder
    <3> QED BY <1>1, <1>2, <2>0, <3>2 DEF Twice, Under
  <2>2. PhasePart'
    <3>1. IsDir(before, Dest) => IsDir(tree', Dest)
      <4>1. IsDir(before, Dest) => IsDir(tree, Dest) /\ Dest # p
        BY <1>0, <1>1, <2>0, TargetFacts DEF FilesInv, PhasePart, Operand
      <4> QED BY <1>2, <4>1 DEF IsDir, Exists
    <3> QED BY <1>0, <3>1 DEF FilesInv, PhasePart, Operand, Carries, Dest
  <2>3. CopyPart'
    <3>1. ASSUME NEW q \in DOMAIN tree', IsPrefix(src, q) PROVE To(q) \in DOMAIN tree' /\ tree'[To(q)] = tree'[q]
      <4>1. q \in DOMAIN tree /\ q # p /\ tree'[q] = tree[q] /\ q \in FilePaths
        BY <1>2, <3>1 DEF IsTree
      <4>2. IsPrefix(dst, To(q)) /\ To(q) \in FilePaths
        BY <1>0, <2>0, <3>1, <4>1, PathRebase DEF To
      <4>3. To(q) # p
        BY <1>0, <1>1, <2>0, <4>2, PathOrder
      <4> QED BY <1>2, <2>0, <3>1, <4>1, <4>3 DEF Twice, Under
    <3> QED BY <1>0, <2>0, <3>1 DEF CopyPart, Twice, To, Under
  <2>4. GentlePart'
    <3>1. ASSUME Gentle, NEW pp \in Whole(before) PROVE \E q \in DOMAIN tree' : tree'[q][1] = before[pp][1]
      <4>1. PICK q \in DOMAIN tree : tree[q][1] = before[pp][1]
        BY <3>1 DEF FilesInv, GentlePart, Somewhere
      <4>2. CASE q = p
        BY <2>1, <4>1, <4>2
      <4>3. CASE q # p
        BY <1>2, <4>1, <4>3
      <4> QED BY <4>2, <4>3
    <3> QED BY <1>0, <3>1, PromisedSame DEF GentlePart, Has, Somewhere, Whole
  <2>5. SourcesPart'
    BY <1>0, <1>5 DEF SourcesPart
  <2>6. LocatedPart'
    <3> SUFFICES ASSUME ~Has("b") PROVE LocatedPart'
      BY <1>0 DEF LocatedPart, Has
    <3>1. ASSUME NEW i \in DOMAIN fjob.srcs, NEW q \in DOMAIN tree', IsPrefix(fjob.srcs[i], q)
          PROVE  q \in DOMAIN before /\ tree'[q] = before[q]
      BY <1>2, <1>5, <3>1 DEF FilesInv, LocatedPart, Under
    <3>2. OneNameEach => dst = Target(operand)
      BY <1>0, <1>5 DEF FilesInv, LocatedPart
    <3>3. \A k : (Arrived(k))' <=> Arrived(k)
      BY <1>0 DEF Arrived
    <3>4. \A k : Target(k)' = Target(k)
      BY <1>0 DEF Target, Dest
    <3>5. ASSUME OneNameEach, NEW i \in DOMAIN fjob.srcs, NEW q \in Files(before, fjob.srcs[i])
          PROVE  Located(q)'
      <4>0. q \in DOMAIN before /\ q \in FilePaths /\ Located(q)
        BY <1>0, <1>5, <3>5 DEF FilesInv, LocatedPart, Files, Under, IsTree
      <4>1. CASE q \in DOMAIN tree /\ tree[q] = before[q]
        <5>1. CASE q # p
          BY <1>0, <1>2, <4>1, <5>1 DEF Located
        <5>2. CASE q = p
          <6>1. PICK k \in DOMAIN fjob.srcs : k = operand
            BY <1>0
          <6>2. Arrived(k) /\ fjob.srcs[k] = src /\ Target(k) = dst
            BY <1>0, <3>2, <3>5, <6>1 DEF Arrived, Operand
          <6>3. Rebase(q, src, dst) = To(p)
            BY <5>2 DEF To
          <6> QED BY <1>0, <1>1, <2>1, <3>3, <3>4, <4>1, <5>2, <6>2, <6>3 DEF Located
        <5> QED BY <5>1, <5>2
      <4>2. ASSUME NEW k \in DOMAIN fjob.srcs, Arrived(k), IsPrefix(fjob.srcs[k], q),
                   Rebase(q, fjob.srcs[k], Target(k)) \in DOMAIN tree,
                   tree[Rebase(q, fjob.srcs[k], Target(k))] = before[q]
            PROVE  Located(q)'
        <5> DEFINE r == Rebase(q, fjob.srcs[k], Target(k))
        <5>1. /\ Target(k) \in FilePaths /\ ~IsPrefix(src, Target(k)) /\ ~IsPrefix(Target(k), src)
              /\ fjob.srcs[k] \in FilePaths
          BY <1>0, <2>0, TargetFacts, JobFacts DEF Operand
        <5>2. r \in FilePaths /\ IsPrefix(Target(k), r)
          BY <4>0, <4>2, <5>1, PathRebase
        <5>3. r # p
          BY <1>0, <1>1, <5>1, <5>2, PathOrder
        <5> QED BY <1>0, <1>2, <3>3, <3>4, <4>2, <5>3 DEF Located
      <4> QED BY <4>0, <4>1, <4>2 DEF Located
    <3> QED BY <1>0, <3>1, <3>2, <3>4, <3>5 DEF LocatedPart, Under, Files, OneNameEach, Dest
  <2>7. PromisedPart'
    <3>1. Promised' = Promised /\ (Carries <=> Carries') /\ (Gentle <=> Gentle') /\ Has("u")' = Has("u")
      BY <1>0, PromisedSame
    <3>2. ASSUME ~Gentle, Has("u"), fjob.backup = "none", NEW q \in Promised
          PROVE  q \in DOMAIN tree' /\ tree'[q] = before[q]
      <4>1. q \in DOMAIN tree /\ tree[q] = before[q] /\ q \in DOMAIN before /\ IsFile(before, q)
        <5>1. q \in DOMAIN tree /\ tree[q] = before[q]
          BY <2>0, <3>2 DEF FilesInv, PromisedPart
        <5>2. q \in DOMAIN before /\ IsFile(before, q)
          BY <1>0, <2>0, <3>2, PromisedFacts
        <5> QED BY <5>1, <5>2
      <4>2. q # p
        <5>1. q = p => q \in Files(before, fjob.srcs[operand])
          BY <1>0, <1>1, <4>1 DEF Files, Under, Operand
        <5>2. q \notin Files(before, fjob.srcs[operand])
          BY <1>0, <2>0, <3>2, PromisedFacts
        <5> QED BY <5>1, <5>2
      <4> QED BY <1>2, <4>1, <4>2
    <3> QED BY <1>0, <3>1, <3>2 DEF PromisedPart
  <2>8. RemovesOnlyOperands'
    BY <1>0, <1>5 DEF RemovesOnlyOperands
  <2> QED BY <1>3, <2>2, <2>3, <2>4, <2>5, <2>6, <2>7, <2>8 DEF FilesInv
<1> QED BY <1>0, <1>4, <1>5

-----------------------------------------------------------------------------
(* Copying. *)

LEMMA ToFacts ==
  ASSUME FilesInv, Copying
  PROVE  /\ src \in FilePaths /\ dst \in FilePaths /\ src = Operand /\ operand \in DOMAIN fjob.srcs
         /\ DOMAIN tree \subseteq FilePaths /\ todo \subseteq Under(tree, src)
         /\ \A q \in FilePaths : IsPrefix(q, dst) \/ IsPrefix(dst, q) => ~IsPrefix(src, q)
         /\ \A q \in FilePaths : IsPrefix(src, q) => To(q) \in FilePaths /\ To(q) # <<>> /\ IsPrefix(dst, To(q))
         /\ \A q, r \in FilePaths : IsPrefix(src, q) /\ IsPrefix(src, r) /\ To(q) = To(r) => q = r
<1>1. /\ src \in FilePaths /\ dst \in FilePaths /\ src = Operand /\ operand \in DOMAIN fjob.srcs
      /\ dst # <<>> /\ ~IsPrefix(src, dst) /\ ~IsPrefix(dst, src)
      /\ DOMAIN tree \subseteq FilePaths /\ todo \subseteq Under(tree, src)
  BY JobFacts DEF FilesInv, JobPart, PhasePart, Operand, IsTree
<1>2. \A q \in FilePaths : IsPrefix(q, dst) \/ IsPrefix(dst, q) => ~IsPrefix(src, q)
  BY <1>1, PathOrder
<1>3. ASSUME NEW q \in FilePaths, IsPrefix(src, q)
      PROVE  To(q) \in FilePaths /\ To(q) # <<>> /\ IsPrefix(dst, To(q)) /\ Rebase(To(q), dst, src) = q
  <2>1. To(q) \in FilePaths /\ IsPrefix(dst, To(q)) /\ Rebase(To(q), dst, src) = q
    BY <1>1, <1>3, PathRebase DEF To
  <2> QED BY <1>1, <2>1, PathOrder
<1>4. ASSUME NEW q \in FilePaths, NEW r \in FilePaths, IsPrefix(src, q), IsPrefix(src, r), To(q) = To(r)
      PROVE  q = r
  <2>1. Rebase(To(q), dst, src) = q /\ Rebase(To(r), dst, src) = r
    BY <1>3, <1>4
  <2> QED BY <1>4, <2>1
<1> QED BY <1>1, <1>2, <1>3, <1>4

(* A step that changes nothing but what is above or below dst.             *)
LEMMA CopyFrame ==
  ASSUME FilesInv, Apart, Copying, before' = before, fjob' = fjob, operand' = operand, src' = src, dst' = dst,
         errors' = errors, opc' \in {"copy", "open", "write"}, IsTree(tree'),
         \A q \in DOMAIN tree : ~IsPrefix(dst, q) => q \in DOMAIN tree' /\ tree'[q] = tree[q],
         \A q \in DOMAIN tree : IsDir(tree, q) => IsDir(tree', q),
         \A q \in DOMAIN tree' : \/ q \in DOMAIN tree /\ tree'[q] = tree[q]
                                 \/ IsPrefix(q, dst) \/ IsPrefix(dst, q),
         todo' \subseteq todo,
         opc' \in {"open", "write"} => file' \in todo' /\ IsFile(tree, file'),
         opc' = "write" => IsFile(tree', Rebase(file', src, dst))
  PROVE  JobPart' /\ PhasePart' /\ SourcesPart' /\ LocatedPart' /\ RemovesOnlyOperands'
<1>0. /\ Len(fjob.srcs) \in Nat /\ DOMAIN fjob.srcs = 1 .. Len(fjob.srcs) /\ Carries /\ Copying'
      /\ operand \in DOMAIN fjob.srcs /\ IsTree(tree) /\ IsTree(before) /\ fjob \in FileJobs
      /\ opc \in {"copy", "open", "write"} /\ dst # <<>> /\ ~IsPrefix(src, dst) /\ ~IsPrefix(dst, src)
      /\ \A i \in DOMAIN fjob.srcs : fjob.srcs[i] \in FilePaths
      /\ DOMAIN before \subseteq FilePaths /\ DOMAIN tree' \subseteq FilePaths
  BY JobFacts DEF FilesInv, JobPart, PhasePart, Copying, IsTree
<1>1. /\ src \in FilePaths /\ dst \in FilePaths /\ src = Operand /\ operand \in DOMAIN fjob.srcs
      /\ DOMAIN tree \subseteq FilePaths /\ todo \subseteq Under(tree, src)
      /\ \A q \in FilePaths : IsPrefix(q, dst) \/ IsPrefix(dst, q) => ~IsPrefix(src, q)
  BY ToFacts
<1>2. ASSUME NEW q \in todo
      PROVE  q \in DOMAIN tree' /\ tree'[q] = tree[q] /\ IsPrefix(src, q)
  <2>1. q \in DOMAIN tree /\ IsPrefix(src, q)
    BY <1>1 DEF Under
  <2>2. ~IsPrefix(dst, q)
    BY <1>1, <2>1
  <2> QED BY <2>1, <2>2
<1>3. JobPart'
  BY <1>0 DEF FilesInv, JobPart
<1>4. PhasePart'
  <2>1. opc' \in {"open", "write"} => IsFile(tree', file')
    BY <1>2 DEF IsFile, Exists
  <2>2. IsDir(before, Dest) => IsDir(tree', Dest)
    <3>1. IsDir(before, Dest) => IsDir(tree, Dest)
      BY <1>0 DEF FilesInv, PhasePart
    <3> QED BY <3>1 DEF IsDir, Exists
  <2>3. todo' \subseteq Under(tree', src)
    BY <1>2 DEF Under
  <2>4. opc' = "write" => IsFile(tree', To(file)')
    BY DEF To
  <2>5. fjob.cmd = "cp" /\ IsDir(before, Dest) => dst = Target(operand)
    BY <1>0 DEF FilesInv, PhasePart
  <2>6. fjob.cmd = "cp" \/ ~Has("b") =>
          \A k \in DOMAIN fjob.srcs : ~IsPrefix(fjob.srcs[k], dst) /\ ~IsPrefix(dst, fjob.srcs[k])
    BY <1>0 DEF FilesInv, PhasePart
  <2>7. Target(operand)' = Target(operand) /\ Dest' = Dest /\ Has("b")' = Has("b") /\ (Carries' <=> Carries)
        /\ Operand' = Operand
    BY PromisedSame DEF Target, Dest, Operand
  <2> QED
    <3> HIDE DEF Target, Dest, Has, Carries, Operand, Under, To, IsDir, IsFile
    <3> QED BY <1>0, <1>1, <2>1, <2>2, <2>3, <2>4, <2>5, <2>6, <2>7 DEF PhasePart
<1>5. SourcesPart'
  <2>1. ASSUME fjob.cmd = "cp", NEW i \in DOMAIN fjob.srcs, NEW q \in FilePaths, IsPrefix(fjob.srcs[i], q)
        PROVE  ~IsPrefix(q, dst) /\ ~IsPrefix(dst, q)
    <3>1. ~IsPrefix(fjob.srcs[i], dst) /\ ~IsPrefix(dst, fjob.srcs[i])
      BY <1>0, <2>1 DEF FilesInv, PhasePart
    <3> QED BY <1>0, <1>1, <2>1, <3>1, PathOrder
  <2>2. ASSUME fjob.cmd = "cp", BackupIsNoSource, NEW i \in DOMAIN fjob.srcs, NEW q \in DOMAIN before,
               IsPrefix(fjob.srcs[i], q)
        PROVE  q \in DOMAIN tree' /\ tree'[q] = before[q]
    <3>1. q \in DOMAIN tree /\ tree[q] = before[q]
      BY <2>2 DEF FilesInv, SourcesPart, Under
    <3> QED BY <1>1, <2>1, <2>2, <3>1
  <2>3. ASSUME fjob.cmd = "cp", BackupIsNoSource, fjob.backup = "none", NEW i \in DOMAIN fjob.srcs,
               NEW q \in DOMAIN tree', IsPrefix(fjob.srcs[i], q)
        PROVE  q \in DOMAIN before
    <3>1. q \in DOMAIN tree
      BY <1>0, <2>1, <2>3
    <3> QED BY <2>3, <3>1 DEF FilesInv, SourcesPart, Under
  <2> QED BY <2>2, <2>3 DEF SourcesPart, BackupIsNoSource, Under
<1>6. LocatedPart'
  <2> SUFFICES ASSUME fjob.cmd = "mv", ~Has("b") PROVE LocatedPart'
    BY DEF LocatedPart, Has
  <2>1. \A k \in DOMAIN fjob.srcs : ~IsPrefix(fjob.srcs[k], dst) /\ ~IsPrefix(dst, fjob.srcs[k])
    BY <1>0 DEF FilesInv, PhasePart
  <2>2. ASSUME NEW k \in DOMAIN fjob.srcs, NEW q \in FilePaths, IsPrefix(fjob.srcs[k], q)
        PROVE  ~IsPrefix(q, dst) /\ ~IsPrefix(dst, q)
    BY <1>0, <1>1, <2>1, <2>2, PathOrder
  <2>3. ASSUME NEW i \in DOMAIN fjob.srcs, NEW q \in DOMAIN tree', IsPrefix(fjob.srcs[i], q)
        PROVE  q \in DOMAIN before /\ tree'[q] = before[q]
    <3>1. q \in DOMAIN tree /\ tree'[q] = tree[q]
      BY <1>0, <2>2, <2>3
    <3> QED BY <2>3, <3>1 DEF FilesInv, LocatedPart, Under
  <2>4. OneNameEach => dst = Target(operand)
    BY DEF FilesInv, LocatedPart
  <2>5. \A k \in DOMAIN fjob.srcs : Arrived(k) => Arrived(k)' /\ k < operand
    BY <1>0 DEF Arrived
  <2>6. \A k : Target(k)' = Target(k)
    BY PromisedSame
  <2>7. ASSUME OneNameEach, NEW i \in DOMAIN fjob.srcs, NEW q \in Files(before, fjob.srcs[i])
        PROVE  Located(q)'
    <3>0. q \in DOMAIN before /\ q \in FilePaths /\ Located(q) /\ IsPrefix(fjob.srcs[i], q)
      BY <1>0, <2>7 DEF FilesInv, LocatedPart, Files, Under
    <3>1. CASE q \in DOMAIN tree /\ tree[q] = before[q]
      BY <1>1, <2>2, <3>0, <3>1 DEF Located
    <3>2. ASSUME NEW k \in DOMAIN fjob.srcs, Arrived(k), IsPrefix(fjob.srcs[k], q),
                 Rebase(q, fjob.srcs[k], Target(k)) \in DOMAIN tree,
                 tree[Rebase(q, fjob.srcs[k], Target(k))] = before[q]
          PROVE  Located(q)'
      <4> DEFINE r == Rebase(q, fjob.srcs[k], Target(k))
      <4>1. k # operand
        BY <1>0, <2>5, <3>2
      <4>2. ~IsPrefix(Target(k), dst) /\ ~IsPrefix(dst, Target(k)) /\ Target(k) \in FilePaths
        BY <1>0, <2>4, <2>7, <4>1, TargetsDiffer, TargetFacts
      <4>3. r \in FilePaths /\ IsPrefix(Target(k), r)
        BY <1>0, <3>0, <3>2, <4>2, PathRebase
      <4>4. ~IsPrefix(dst, r)
        BY <1>1, <4>2, <4>3, PathOrder
      <4>5. r \in DOMAIN tree' /\ tree'[r] = before[q]
        BY <3>2, <4>4
      <4> QED BY <2>5, <2>6, <3>2, <4>5 DEF Located
    <3> QED BY <3>0, <3>1, <3>2 DEF Located
  <2> QED BY <2>3, <2>4, <2>6, <2>7, PromisedSame DEF LocatedPart, Under, Files
<1>7. RemovesOnlyOperands'
  BY <1>0 DEF RemovesOnlyOperands, Carries
<1> QED BY <1>3, <1>4, <1>5, <1>6, <1>7

LEMMA SkipFileKeeps ==
  ASSUME FilesInv, Apart, NEW p, SkipFile(p)
  PROVE  FilesInv'
<1>0. /\ opc = "copy" /\ opc' = "copy" /\ fjob.cmd = "cp" /\ before' = before /\ fjob' = fjob /\ operand' = operand
      /\ src' = src /\ dst' = dst /\ errors' = errors /\ tree' = tree /\ todo' = todo \ {p} /\ Copying
      /\ IsTree(tree)
  BY DEF SkipFile, Leave, LeftOut, Copying, FilesInv, JobPart
<1>1. JobPart' /\ PhasePart' /\ SourcesPart' /\ LocatedPart' /\ RemovesOnlyOperands'
  BY <1>0, CopyFrame
<1>2. CopyPart' /\ Copying'
  BY <1>0 DEF CopyPart, Copying
<1>3. GentlePart'
  <2>1. Gentle => \A q \in Whole(before) : \E r \in DOMAIN tree : tree[r][1] = before[q][1]
    BY DEF FilesInv, GentlePart, Somewhere
  <2> QED BY <1>0, <2>1, PromisedSame DEF GentlePart, Somewhere
<1>4. PromisedPart'
  BY <1>0, PromisedSame DEF FilesInv, PromisedPart
<1> QED BY <1>1, <1>2, <1>3, <1>4 DEF FilesInv

LEMMA CopyDirKeeps ==
  ASSUME FilesInv, Apart, NEW p, CopyDir(p)
  PROVE  FilesInv'
<1>0. /\ opc = "copy" /\ before' = before /\ fjob' = fjob /\ Copying /\ IsTree(tree) /\ p \in todo /\ IsDir(tree, p)
      /\ operand \in DOMAIN fjob.srcs
  BY DEF CopyDir, NextPath, Copying, FilesInv, JobPart, PhasePart
<1>1. CASE FailOrQuit /\ tree' = tree
  BY <1>0, <1>1, QuittingKeeps
<1>2. CASE MayMkdir(tree, To(p)) /\ tree' = Mkdir(tree, To(p)) /\ Leave(p)
  <2>0. /\ opc' = "copy" /\ operand' = operand /\ src' = src /\ dst' = dst /\ errors' = errors /\ todo' = todo \ {p}
        /\ Copying'
    BY <1>2 DEF Leave, Copying
  <2>1. /\ src \in FilePaths /\ dst \in FilePaths
        /\ DOMAIN tree \subseteq FilePaths /\ todo \subseteq Under(tree, src)
        /\ \A q \in FilePaths : IsPrefix(q, dst) \/ IsPrefix(dst, q) => ~IsPrefix(src, q)
    BY <1>0, ToFacts
  <2>2. /\ p \in DOMAIN tree /\ p \in FilePaths /\ IsPrefix(src, p)
        /\ To(p) \in FilePaths /\ To(p) # <<>> /\ IsPrefix(dst, To(p))
    BY <1>0, <2>1, ToFacts DEF Under
  <2>3. /\ IsTree(tree') /\ IsDir(tree', To(p)) /\ DOMAIN tree \subseteq DOMAIN tree'
        /\ \A q \in DOMAIN tree : tree'[q] = tree[q]
        /\ \A q \in DOMAIN tree' : q \notin DOMAIN tree => IsDir(tree', q) /\ IsPrefix(q, To(p))
    BY <1>0, <1>2, <2>2, MkdirFacts
  <2>4. DOMAIN tree' \subseteq FilePaths
    BY <2>3 DEF IsTree
  <2>5. \A q \in DOMAIN tree' : q \notin DOMAIN tree => IsPrefix(q, dst) \/ IsPrefix(dst, q)
    BY <2>1, <2>2, <2>3, <2>4, PathOrder
  <2>6. \A q \in DOMAIN tree : IsDir(tree, q) => IsDir(tree', q)
    BY <2>3 DEF IsDir, Exists
  <2>7. JobPart' /\ PhasePart' /\ SourcesPart' /\ LocatedPart' /\ RemovesOnlyOperands'
    BY <1>0, <2>0, <2>3, <2>5, <2>6, CopyFrame
  <2>8. CopyPart'
    <3>1. ASSUME fjob.cmd = "mv", NEW q \in DOMAIN tree', IsPrefix(src, q), q \notin todo \ {p}
          PROVE  To(q) \in DOMAIN tree' /\ tree'[To(q)] = tree'[q]
      <4>1. q \in DOMAIN tree /\ tree'[q] = tree[q]
        BY <2>1, <2>3, <2>4, <2>5, <3>1
      <4>2. CASE q = p
        BY <1>0, <2>3, <4>1, <4>2 DEF IsDir, Exists
      <4>3. CASE q # p
        <5>1. Twice(q)
          BY <1>0, <3>1, <4>1, <4>3 DEF FilesInv, CopyPart, Under
        <5> QED BY <2>3, <4>1, <5>1 DEF Twice
      <4> QED BY <4>2, <4>3
    <3> QED BY <1>0, <2>0, <3>1 DEF CopyPart, Twice, To, Under
  <2>9. GentlePart'
    <3>1. Gentle => \A q \in Whole(before) : \E r \in DOMAIN tree' : tree'[r][1] = before[q][1]
      BY <2>3 DEF FilesInv, GentlePart, Somewhere
    <3>2. ASSUME Gentle, fjob.cmd = "mv", NEW q \in todo, IsFile(tree', q)
          PROVE  ~IsFile(tree', To(q))
      <4>1. q \in DOMAIN tree /\ IsFile(tree, q)
        BY <2>1, <2>3, <3>2 DEF Under, IsFile, Exists
      <4>2. ~IsFile(tree, To(q))
        BY <1>0, <3>2, <4>1 DEF FilesInv, GentlePart
      <4> QED BY <2>3, <4>2 DEF IsFile, IsDir, Exists
    <3> QED BY <1>0, <2>0, <3>1, <3>2, PromisedSame DEF GentlePart, Somewhere, To
  <2>10. PromisedPart'
    BY <1>0, <2>0, <2>3, PromisedSame DEF FilesInv, PromisedPart
  <2> QED BY <2>7, <2>8, <2>9, <2>10 DEF FilesInv
<1> QED BY <1>1, <1>2 DEF CopyDir

(* A file is written to: over another, when that may be lost.              *)
LEMMA PutKeeps ==
  ASSUME FilesInv, Apart, opc \in {"open", "write"}, NEW v, v[2] \in Nat,
         ~IsDir(tree, To(file)), IsDir(tree, Parent(To(file))), tree' = Put(tree, To(file), v),
         before' = before, fjob' = fjob, operand' = operand, src' = src, dst' = dst, errors' = errors,
         \/ opc = "open" /\ opc' = "write" /\ v # Dir /\ todo' = todo /\ file' = file
         \/ opc = "write" /\ opc' = "copy" /\ todo' = todo \ {file} /\ v[1] = tree[file][1]
              /\ (fjob.cmd = "mv" => v = tree[file])
  PROVE  FilesInv'
<1> DEFINE x == To(file)
<1>0. /\ Copying /\ Copying' /\ IsTree(tree) /\ file \in todo /\ IsFile(tree, file)
      /\ operand \in DOMAIN fjob.srcs /\ Carries
  BY DEF FilesInv, JobPart, PhasePart, Copying
<1>1. /\ src \in FilePaths /\ dst \in FilePaths
      /\ DOMAIN tree \subseteq FilePaths /\ todo \subseteq Under(tree, src)
      /\ \A q \in FilePaths : IsPrefix(q, dst) \/ IsPrefix(dst, q) => ~IsPrefix(src, q)
      /\ \A q \in FilePaths : IsPrefix(src, q) => To(q) \in FilePaths /\ To(q) # <<>> /\ IsPrefix(dst, To(q))
      /\ \A q, r \in FilePaths : IsPrefix(src, q) /\ IsPrefix(src, r) /\ To(q) = To(r) => q = r
  BY <1>0, ToFacts
<1>2. /\ file \in DOMAIN tree /\ file \in FilePaths /\ IsPrefix(src, file)
      /\ x \in FilePaths /\ x # <<>> /\ IsPrefix(dst, x)
  BY <1>0, <1>1 DEF Under
<1> HIDE DEF x
<1>3. /\ IsTree(tree') /\ DOMAIN tree' = DOMAIN tree \cup {x} /\ tree'[x] = v
      /\ \A q \in DOMAIN tree : q # x => tree'[q] = tree[q]
  <2>1. ~IsDir(tree, x) /\ IsDir(tree, Parent(x)) /\ tree' = Put(tree, x, v)
    BY DEF x
  <2>2. IsTree(tree) /\ x \in FilePaths /\ x # <<>> /\ v[2] \in Nat
    BY <1>0, <1>2
  <2>3. IsTree(Put(tree, x, v))
    BY <2>1, <2>2, PutFacts, Zenon
  <2>4. /\ DOMAIN tree' = DOMAIN tree \cup {x} /\ tree'[x] = v
        /\ \A q \in DOMAIN tree : q # x => tree'[q] = tree[q]
    BY <2>1 DEF Put
  <2> QED BY <2>1, <2>3, <2>4
<1>4. \A q \in FilePaths : IsPrefix(src, q) => q # x /\ (To(q) = x => q = file)
  BY <1>1, <1>2 DEF x
<1>5. JobPart' /\ PhasePart' /\ SourcesPart' /\ LocatedPart' /\ RemovesOnlyOperands'
  <2>1. \A q \in DOMAIN tree : IsDir(tree, q) => IsDir(tree', q)
    BY <1>3 DEF IsDir, Exists, x
  <2>2. \A q \in DOMAIN tree : ~IsPrefix(dst, q) => q \in DOMAIN tree' /\ tree'[q] = tree[q]
    BY <1>2, <1>3
  <2>3. \A q \in DOMAIN tree' : (q \in DOMAIN tree /\ tree'[q] = tree[q]) \/ IsPrefix(q, dst) \/ IsPrefix(dst, q)
    BY <1>2, <1>3
  <2>4. opc' = "write" => IsFile(tree', Rebase(file', src, dst))
    BY <1>3 DEF IsFile, Exists, x, To
  <2>5. opc' \in {"copy", "open", "write"} /\ todo' \subseteq todo
        /\ (opc' \in {"open", "write"} => file' \in todo' /\ IsFile(tree, file'))
    BY <1>0
  <2> HIDE DEF IsDir, IsFile
  <2> QED BY <1>0, <1>3, <2>1, <2>2, <2>3, <2>4, <2>5, CopyFrame
<1>6. CopyPart'
  <2>1. ASSUME fjob.cmd = "mv", NEW q \in DOMAIN tree', IsPrefix(src, q), q \notin todo'
        PROVE  To(q) \in DOMAIN tree' /\ tree'[To(q)] = tree'[q]
    <3>1. q \in FilePaths /\ q \in DOMAIN tree /\ q # x /\ tree'[q] = tree[q]
      BY <1>1, <1>2, <1>3, <1>4, <2>1
    <3>2. CASE q = file
      <4>1. v = tree[file]
        BY <1>0, <2>1, <3>2
      <4> QED BY <1>3, <3>1, <3>2, <4>1 DEF x
    <3>3. CASE q # file
      <4>1. q \notin todo
        BY <2>1, <3>3
      <4>2. Twice(q)
        BY <1>0, <2>1, <3>1, <4>1 DEF FilesInv, CopyPart, Under
      <4> QED BY <1>3, <1>4, <2>1, <3>1, <3>3, <4>2 DEF Twice
    <3> QED BY <3>2, <3>3
  <2>2. opc' # "delete"
    OBVIOUS
  <2> QED BY <2>1, <2>2 DEF CopyPart, Twice, To, Under
<1>7. GentlePart'
  <2>1. ASSUME Gentle, NEW p \in Whole(before)
        PROVE  \E q \in DOMAIN tree' : tree'[q][1] = before[p][1] /\ q # x
    <3>1. PICK q \in DOMAIN tree : tree[q][1] = before[p][1] /\ (opc = "write" => q # x)
      BY <2>1 DEF FilesInv, GentlePart, Somewhere, x
    <3>2. q # x
      <4>1. CASE opc = "open"
        <5>1. ~IsFile(tree, x)
          BY <2>1, <4>1 DEF FilesInv, GentlePart, x
        <5> QED BY <3>1, <5>1 DEF IsFile, IsDir, Exists, x
      <4> QED BY <3>1, <4>1
    <3> QED BY <1>3, <3>1, <3>2
  <2>2. ASSUME Gentle, fjob.cmd = "mv", NEW p \in todo, p # file, IsFile(tree', p)
        PROVE  ~IsFile(tree', To(p))
    <3>1. p \in FilePaths /\ p \in DOMAIN tree /\ IsPrefix(src, p)
      BY <1>1, <2>2 DEF Under
    <3>2. p # x /\ To(p) # x
      BY <1>4, <2>2, <3>1
    <3>3. IsFile(tree, p)
      BY <1>3, <2>2, <3>1, <3>2 DEF IsFile, Exists
    <3>4. ~IsFile(tree, To(p))
      BY <1>0, <2>2, <3>3 DEF FilesInv, GentlePart
    <3> QED BY <1>3, <3>2, <3>4 DEF IsFile, Exists
  <2>3. opc' = "write" => To(file)' = x
    BY DEF To, x
  <2>4. \A p \in todo' : p \in todo /\ (p # file \/ opc' = "write")
    OBVIOUS
  <2>5. opc' # "open" /\ (opc' = "write" => file' = file)
    OBVIOUS
  <2>6. \A p \in Whole(before) : Gentle => Somewhere(p)'
    BY <2>1, <2>3 DEF Somewhere
  <2>7. Gentle /\ fjob.cmd = "mv" =>
          \A p \in todo' : IsFile(tree', p) /\ (opc' = "write" => p # file') => ~IsFile(tree', To(p))
    <3> HIDE DEF IsFile
    <3> QED BY <2>2, <2>4, <2>5
  <2>8. \A p : To(p)' = To(p)
    BY DEF To
  <2> QED
    <3> HIDE DEF IsFile, Somewhere, To, Gentle, Whole
    <3> QED BY <2>5, <2>6, <2>7, <2>8, PromisedSame DEF GentlePart
<1>8. PromisedPart'
  <2>1. ASSUME ~Gentle, Has("u"), fjob.backup = "none", NEW q \in Promised
        PROVE  q \in DOMAIN tree' /\ tree'[q] = before[q] /\ q # x /\ (fjob.cmd = "mv" => ~IsPrefix(dst, q))
    <3>1. q \in DOMAIN tree /\ tree[q] = before[q] /\ q # x /\ (fjob.cmd = "mv" => ~IsPrefix(dst, q))
      BY <1>0, <2>1 DEF FilesInv, PromisedPart, x
    <3> QED BY <1>3, <3>1
  <2>2. opc' # "open" /\ (opc' = "write" => To(file)' = x)
    BY DEF To, x
  <2> QED BY <1>0, <2>1, <2>2, PromisedSame DEF PromisedPart
<1> QED BY <1>5, <1>6, <1>7, <1>8 DEF FilesInv

LEMMA OpenTargetKeeps ==
  ASSUME FilesInv, Apart, OpenTarget
  PROVE  FilesInv'
<1>0. opc = "open" /\ before' = before /\ fjob' = fjob /\ operand \in DOMAIN fjob.srcs
  BY DEF OpenTarget, FilesInv, PhasePart, Copying
<1>1. CASE FailOrQuit /\ tree' = tree
  BY <1>0, <1>1, QuittingKeeps
<1>2. CASE /\ ~IsDir(tree, To(file)) /\ IsDir(tree, Parent(To(file)))
           /\ tree' = Put(tree, To(file), Part) /\ opc' = "write"
           /\ UNCHANGED <<operand, src, dst, todo, file, errors>>
  <2>1. Part[2] \in Nat /\ Part # Dir
    BY DEF Part, NewerThanAll, Dir
  <2> HIDE DEF Part
  <2> QED BY <1>0, <1>2, <2>1, PutKeeps
<1> QED BY <1>1, <1>2 DEF OpenTarget

LEMMA WriteTargetKeeps ==
  ASSUME FilesInv, Apart, WriteTarget
  PROVE  FilesInv'
<1> DEFINE v == IF fjob.cmd = "mv" \/ Has("p") THEN tree[file] ELSE <<tree[file][1], NewerThanAll>>
<1>0. /\ opc = "write" /\ before' = before /\ fjob' = fjob /\ IsTree(tree) /\ Copying
      /\ file \in todo /\ IsFile(tree, To(file)) /\ tree' = Put(tree, To(file), v) /\ Leave(file)
  BY DEF WriteTarget, FilesInv, JobPart, PhasePart, Copying
<1>1. file \in DOMAIN tree /\ tree[file][2] \in Nat
  BY <1>0, ToFacts DEF Under, IsTree
<1>2. v[2] \in Nat /\ v[1] = tree[file][1] /\ (fjob.cmd = "mv" => v = tree[file])
  BY <1>1 DEF NewerThanAll
<1>3. ~IsDir(tree, To(file)) /\ IsDir(tree, Parent(To(file)))
  <2>1. To(file) \in DOMAIN tree /\ ~IsDir(tree, To(file))
    BY <1>0 DEF IsFile, IsDir, Exists
  <2>2. To(file) \in FilePaths /\ To(file) # <<>>
    BY <1>0, ToFacts DEF Under
  <2>3. Parent(To(file)) \in FilePaths /\ IsPrefix(Parent(To(file)), To(file)) /\ Parent(To(file)) # To(file)
    BY <2>2, PathParent
  <2>4. Shaped(tree)
    BY <1>0, TreeIff
  <2> QED BY <2>1, <2>3, <2>4 DEF Shaped
<1>4. /\ opc' = "copy" /\ todo' = todo \ {file}
      /\ operand' = operand /\ src' = src /\ dst' = dst /\ errors' = errors
  BY <1>0 DEF Leave
<1> HIDE DEF v
<1> QED BY <1>0, <1>2, <1>3, <1>4, PutKeeps

(* The file is going to be opened: it is not to replace one it may not.    *)
LEMMA OpeningKeeps ==
  ASSUME FilesInv, Apart, NEW p, opc = "copy", NextPath(p), IsFile(tree, p),
         LeftOut(p) => Has("i") /\ ~Has("n") /\ ~(Has("u") /\ ~Newer(p, To(p))),
         fjob.backup = "none" \/ ~Exists(tree, To(p)), opc' = "open", file' = p,
         tree' = tree, operand' = operand, src' = src, dst' = dst, todo' = todo, errors' = errors,
         before' = before, fjob' = fjob
  PROVE  FilesInv'
<1>0. /\ Copying /\ Copying' /\ IsTree(tree) /\ IsTree(before) /\ p \in todo /\ Carries /\ fjob \in FileJobs
      /\ operand \in DOMAIN fjob.srcs /\ src = Operand
  BY DEF NextPath, Copying, FilesInv, JobPart, PhasePart
<1>1. JobPart' /\ PhasePart' /\ SourcesPart' /\ LocatedPart' /\ RemovesOnlyOperands'
  BY <1>0, CopyFrame
<1>2. CopyPart'
  BY <1>0 DEF FilesInv, CopyPart, Twice, To, Under
<1>3. p \in DOMAIN tree /\ IsPrefix(src, p) /\ p \in FilePaths /\ IsPrefix(dst, To(p))
  BY <1>0, ToFacts DEF Under
<1>4. fjob.cmd = "cp" /\ Exists(tree, To(p)) => ~Has("n") /\ (Has("u") => Newer(p, To(p)))
  BY DEF LeftOut
<1>5. GentlePart'
  <2>1. Gentle => \A q \in Whole(before) : \E r \in DOMAIN tree : tree[r][1] = before[q][1]
    BY DEF FilesInv, GentlePart, Somewhere
  <2>2. Gentle => ~IsFile(tree, To(p))
    <3>1. CASE fjob.cmd = "cp"
      BY <1>4, <3>1 DEF Gentle, IsFile
    <3>2. CASE fjob.cmd = "mv"
      BY <1>0, <3>2 DEF FilesInv, GentlePart
    <3> QED BY <1>0, <3>1, <3>2 DEF Carries
  <2>3. Gentle /\ fjob.cmd = "mv" => \A q \in todo : IsFile(tree, q) => ~IsFile(tree, To(q))
    BY <1>0 DEF FilesInv, GentlePart
  <2>4. \A q : To(q)' = To(q)
    BY DEF To
  <2>5. To(file)' = To(p)
    BY DEF To
  <2> QED
    <3> HIDE DEF IsFile, To, Gentle, Whole
    <3> QED BY <2>1, <2>2, <2>3, <2>4, <2>5, PromisedSame DEF GentlePart, Somewhere
<1>6. PromisedPart'
  <2> SUFFICES ASSUME ~Gentle, Has("u"), fjob.backup = "none" PROVE PromisedPart'
    BY PromisedSame DEF PromisedPart
  <2>1. /\ \A q \in Promised : q \in DOMAIN tree /\ tree[q] = before[q]
        /\ fjob.cmd = "mv" => \A q \in Promised : ~IsPrefix(dst, q)
    BY <1>0 DEF FilesInv, PromisedPart
  <2>2. To(p) \notin Promised
    <3>1. CASE fjob.cmd = "mv"
      BY <1>3, <2>1, <3>1
    <3>2. CASE fjob.cmd = "cp"
      <4> SUFFICES ASSUME To(p) \in Promised PROVE FALSE
        OBVIOUS
      <4> DEFINE x == To(p)
      <4>1. x \in DOMAIN tree /\ tree[x] = before[x]
        BY <2>1
      <4>2. tree[p][2] > tree[x][2]
        BY <1>4, <3>2, <4>1 DEF Exists, Newer
      <4>3. BackupIsNoSource
        BY DEF BackupIsNoSource
      <4>4. p \in DOMAIN before /\ tree[p] = before[p]
        BY <1>0, <1>3, <3>2, <4>3 DEF FilesInv, SourcesPart, Under, Operand
      <4>5. p \in Files(before, fjob.srcs[operand])
        BY <1>0, <1>3, <4>4 DEF Files, Under, IsFile, Exists, Operand
      <4>6. before[x][2] \in Nat /\ before[p][2] \in Nat /\ before[x][2] > before[p][2]
        BY <1>0, <4>5, PromisedFacts
      <4> HIDE DEF x
      <4>7. before[p][2] > before[x][2]
        BY <4>1, <4>2, <4>4
      <4> QED BY <4>6, <4>7
    <3> QED BY <1>0, <3>1, <3>2 DEF Carries
  <2>3. opc' \in {"open", "write"} => To(file)' \notin Promised
    BY <2>2 DEF To
  <2> QED BY <2>1, <2>3, PromisedSame DEF PromisedPart
<1> QED BY <1>1, <1>2, <1>5, <1>6 DEF FilesInv

LEMMA BackupFacts ==
  ASSUME IsTree(tree), NEW x \in FilePaths, x # <<>>
  PROVE  LET y == CpBackup(x) IN
         /\ Beside(x, y) /\ y # x
         /\ Exists(tree, y) => fjob.backup # "numbered" /\ "~" \in ToSet(Last(y))
<1> DEFINE y == CpBackup(x)
           Good(z) == /\ Beside(x, z) /\ z # x
                      /\ Exists(tree, z) => fjob.backup # "numbered" /\ "~" \in ToSet(Last(z))
<1>1. Last(x) \in Seq(Letters) /\ Len(Last(x)) \in Nat
  BY PathLast
<1>2. CASE fjob.backup = "numbered" \/ (fjob.backup = "existing" /\ Exists(tree, Numbered(x, 1)))
  <2>1. y = FirstUnused(tree, [n \in Numbers |-> Numbered(x, n)])
    BY <1>2 DEF CpBackup
  <2>2. PICK n \in Nat : y = Numbered(x, n) /\ ~Exists(tree, y)
    BY <2>1, FreshFacts
  <2>3. Beside(x, y) /\ Last(y) = Last(x) \o <<".">> \o [i \in 1 .. n |-> "i"]
    BY <2>2, TildeFacts
  <2>4. Len(Last(y)) = (Len(Last(x)) + 1) + n
    BY <2>3, Suffixed
  <2>5. Len(Last(y)) # Len(Last(x))
    BY <1>1, <2>4
  <2> HIDE DEF y
  <2>6. y # x
    BY <2>5
  <2> QED BY <2>2, <2>3, <2>6 DEF y
<1>3. CASE ~(fjob.backup = "numbered" \/ (fjob.backup = "existing" /\ Exists(tree, Numbered(x, 1))))
  <2> DEFINE e == [i \in 1 .. 1 |-> "~"]
  <2>1. y = Tilde(x, 1) /\ fjob.backup # "numbered"
    BY <1>3 DEF CpBackup
  <2>2. Beside(x, y) /\ Last(y) = Last(x) \o e
    BY <2>1, TildeFacts
  <2>3. Len(Last(y)) = Len(Last(x)) + 1 /\ Last(y) \in Seq(Letters)
    BY <2>2, Suffixed
  <2>4. Len(Last(y)) # Len(Last(x)) /\ Len(Last(y)) \in DOMAIN Last(y)
    BY <1>1, <2>3
  <2>5. "~" \in Letters
    BY TreeAssumption
  <2>6. e \in Seq(Letters) /\ Len(e) = 1 /\ e[1] = "~"
    BY <2>5
  <2>7. Last(y)[Len(Last(y))] = "~"
    <3>1. (Last(x) \o e)[Len(Last(x)) + 1] = "~"
      <4> HIDE DEF e
      <4> QED BY <1>1, <2>6
    <3> QED BY <2>2, <2>3, <3>1
  <2> HIDE DEF y
  <2>8. y # x
    BY <2>4
  <2>9. "~" \in ToSet(Last(y))
    BY <2>4, <2>7 DEF ToSet
  <2> QED BY <2>1, <2>2, <2>8, <2>9 DEF y
<1> QED BY <1>2, <1>3

(* The target is moved aside before it is opened.                          *)
LEMMA BackupKeeps ==
  ASSUME FilesInv, Apart, NEW p, opc = "copy", NextPath(p), IsFile(tree, p),
         LeftOut(p) => ~Has("n"), fjob.backup # "none", Exists(tree, To(p)),
         MayExist(tree, CpBackup(To(p))), MayRename(tree, To(p), CpBackup(To(p))),
         tree' = Renamed(tree, To(p), CpBackup(To(p))), opc' = "open", file' = p,
         operand' = operand, src' = src, dst' = dst, todo' = todo, errors' = errors,
         before' = before, fjob' = fjob
  PROVE  FilesInv'
<1> DEFINE x == To(p)
           y == CpBackup(x)
<1>0. /\ Copying /\ Copying' /\ IsTree(tree) /\ IsTree(before) /\ p \in todo /\ fjob.cmd = "cp" /\ Carries
      /\ fjob \in FileJobs /\ operand \in DOMAIN fjob.srcs /\ src = Operand /\ dst # <<>>
      /\ \A i \in DOMAIN fjob.srcs : fjob.srcs[i] \in FilePaths
  BY JobFacts DEF NextPath, Copying, FilesInv, JobPart, PhasePart, Carries
<1>1. /\ src \in FilePaths /\ dst \in FilePaths
      /\ DOMAIN tree \subseteq FilePaths /\ todo \subseteq Under(tree, src)
      /\ \A q \in FilePaths : IsPrefix(q, dst) \/ IsPrefix(dst, q) => ~IsPrefix(src, q)
      /\ p \in FilePaths /\ p \in DOMAIN tree /\ IsPrefix(src, p)
  BY <1>0, ToFacts DEF Under
<1>2. x \in FilePaths /\ x # <<>> /\ IsPrefix(dst, x)
  BY <1>0, <1>1, ToFacts
<1>3. /\ Beside(x, y) /\ y # x
      /\ Exists(tree, y) => fjob.backup # "numbered" /\ "~" \in ToSet(Last(y))
  BY <1>0, <1>2, BackupFacts
<1>4. /\ MayExist(tree, y) /\ MayRename(tree, x, y) /\ tree' = Renamed(tree, x, y) /\ Exists(tree, x)
      /\ ~IsDir(tree, y)
  BY DEF MayExist
<1> HIDE DEF x, y
<1>5. /\ y \in FilePaths /\ y # <<>> /\ Parent(y) = Parent(x) /\ IsPrefix(Parent(x), y)
      /\ \A q \in FilePaths : IsPrefix(q, y) => q = y \/ IsPrefix(q, Parent(x))
      /\ Parent(x) \in FilePaths /\ IsPrefix(Parent(x), x) /\ Parent(y) # y
      /\ \A q \in FilePaths : IsPrefix(q, x) /\ q # x => IsPrefix(q, Parent(x))
  BY <1>2, <1>3, PathParent DEF Beside
<1>6. /\ IsTree(tree') /\ ~IsPrefix(x, y)
      /\ \A q \in DOMAIN tree : ~IsPrefix(x, q) /\ q # y => q \in DOMAIN tree' /\ tree'[q] = tree[q]
      /\ \A q \in DOMAIN tree : IsPrefix(x, q) => \E r \in DOMAIN tree' : tree'[r] = tree[q]
      /\ IsPrefix(x, x) => Rebase(x, x, y) \in DOMAIN tree' /\ tree'[Rebase(x, x, y)] = tree[x]
      /\ \A q \in DOMAIN tree' :
           \/ q \in DOMAIN tree /\ ~IsPrefix(x, q) /\ tree'[q] = tree[q]
           \/ IsPrefix(y, q)
  BY <1>0, <1>2, <1>3, <1>4, <1>5, RenamedFacts DEF Exists
<1>7. y \in DOMAIN tree' /\ tree'[y] = tree[x]
  <2>1. IsPrefix(x, x) /\ Rebase(x, x, y) = y
    BY <1>2, <1>5, PathOrder, PathRebase
  <2> QED BY <1>6, <2>1
(* No path of a source is touched, but perhaps the source itself.          *)
<1>8. ASSUME NEW k \in DOMAIN fjob.srcs, NEW q \in DOMAIN tree, IsPrefix(fjob.srcs[k], q)
      PROVE  /\ q # y => q \in DOMAIN tree' /\ tree'[q] = tree[q]
             /\ q = y => q = fjob.srcs[k] /\ fjob.backup # "numbered" /\ "~" \in ToSet(Last(fjob.srcs[k]))
  <2>1. ~IsPrefix(fjob.srcs[k], dst) /\ ~IsPrefix(dst, fjob.srcs[k]) /\ fjob.srcs[k] \in FilePaths /\ q \in FilePaths
    BY <1>0, <1>1 DEF FilesInv, PhasePart
  <2>2. ~IsPrefix(x, q)
    BY <1>1, <1>2, <1>8, <2>1, PathOrder
  <2>3. ~IsPrefix(fjob.srcs[k], x)
    BY <1>1, <1>2, <2>1, PathOrder
  <2>4. q = y => q = fjob.srcs[k]
    BY <1>2, <1>5, <1>8, <2>1, <2>3, PathOrder
  <2> QED BY <1>3, <1>6, <2>2, <2>4 DEF Exists
<1>9. JobPart'
  BY <1>0, <1>6 DEF FilesInv, JobPart
<1>10. PhasePart'
  <2>1. ASSUME NEW q \in todo PROVE q \in DOMAIN tree' /\ IsPrefix(src, q)
    <3>1. q \in DOMAIN tree /\ IsPrefix(fjob.srcs[operand], q)
      BY <1>0, <1>1 DEF Under, Operand
    <3> QED BY <1>0, <1>7, <1>8, <3>1 DEF Operand
  <2>2. IsFile(tree', p)
    <3>1. IsPrefix(fjob.srcs[operand], p)
      BY <1>0, <1>1 DEF Operand
    <3>2. CASE p # y
      BY <1>0, <1>1, <1>8, <3>1, <3>2 DEF IsFile, Exists
    <3>3. CASE p = y
      <4>1. ~IsDir(tree, x)
        BY <1>1, <1>4, <3>3 DEF MayRename, Exists
      <4> QED BY <1>4, <1>7, <3>3, <4>1 DEF IsFile, IsDir, Exists
    <3> QED BY <3>2, <3>3
  <2>3. IsDir(before, Dest) => IsDir(tree', Dest)
    <3> SUFFICES ASSUME IsDir(before, Dest) PROVE IsDir(tree', Dest)
      OBVIOUS
    <3>1. IsDir(tree, Dest) /\ dst = Target(operand)
      BY <1>0 DEF FilesInv, PhasePart
    <3>2. Dest # y
      BY <1>4, <3>1
    <3>3. ~IsPrefix(x, Dest)
      <4>1. Dest \in FilePaths /\ Last(fjob.srcs[operand]) \in Seq(Letters)
        BY <1>0, JobFacts, TargetFacts
      <4>2. dst = Join(Dest, Last(fjob.srcs[operand]))
        BY <3>1 DEF Target
      <4>3. Len(dst) = Len(Dest) + 1
        BY <4>1, <4>2, PathJoin
      <4>4. IsPrefix(dst, Dest) => Len(dst) <= Len(Dest)
        BY <1>1, <4>1, PathAt
      <4>5. ~IsPrefix(dst, Dest)
        <5>1. Len(Dest) \in Nat
          BY <4>1, PathAt
        <5> QED BY <4>3, <4>4, <5>1
      <4> QED BY <1>1, <1>2, <4>1, <4>5, PathOrder
    <3> QED BY <1>6, <3>1, <3>2, <3>3 DEF IsDir, Exists
  <2>4. todo' \subseteq Under(tree', src)
    BY <2>1 DEF Under
  <2>5. Target(operand)' = Target(operand) /\ Dest' = Dest /\ Has("b")' = Has("b") /\ (Carries' <=> Carries)
        /\ Operand' = Operand
    BY PromisedSame DEF Target, Dest, Operand
  <2>6. /\ dst # <<>> /\ ~IsPrefix(src, dst) /\ ~IsPrefix(dst, src)
        /\ \A k \in DOMAIN fjob.srcs : ~IsPrefix(fjob.srcs[k], dst) /\ ~IsPrefix(dst, fjob.srcs[k])
        /\ IsDir(before, Dest) => dst = Target(operand)
    BY <1>0 DEF FilesInv, PhasePart
  <2> QED
    <3> HIDE DEF Target, Dest, Has, Carries, Operand, Under, To, IsDir, IsFile
    <3> QED BY <1>0, <1>1, <2>2, <2>3, <2>4, <2>5, <2>6 DEF PhasePart
<1>11. CopyPart'
  BY <1>0 DEF CopyPart
<1>12. GentlePart'
  <2> SUFFICES ASSUME Gentle PROVE GentlePart'
    BY PromisedSame DEF GentlePart
  <2>1. fjob.backup = "numbered"
    <3>1. ~Has("n")
      BY <1>0 DEF LeftOut
    <3> QED BY <1>0, <3>1 DEF Gentle
  <2>2. ~Exists(tree, y)
    BY <1>3, <2>1
  <2>3. ASSUME NEW q \in Whole(before) PROVE \E r \in DOMAIN tree' : tree'[r][1] = before[q][1]
    <3>1. PICK r \in DOMAIN tree : tree[r][1] = before[q][1]
      BY <2>3 DEF FilesInv, GentlePart, Somewhere
    <3>2. r # y
      BY <2>2, <3>1 DEF Exists
    <3>3. \E z \in DOMAIN tree' : tree'[z] = tree[r]
      BY <1>6, <3>1, <3>2
    <3> QED BY <3>1, <3>3
  <2>4. ~Exists(tree', x)
    <3>1. ~IsPrefix(y, x)
      BY <1>2, <1>3, <1>5, PathOrder
    <3>2. IsPrefix(x, x)
      BY <1>2, PathOrder
    <3> QED BY <1>6, <3>1, <3>2 DEF Exists
  <2>5. To(file)' = x
    BY DEF To, x
  <2>6. ~IsFile(tree', To(file)')
    BY <2>4, <2>5 DEF IsFile
  <2>7. \A q \in Whole(before) : Somewhere(q)'
    BY <2>3 DEF Somewhere
  <2> QED
    <3> HIDE DEF IsFile, To, Whole, Somewhere
    <3> QED BY <1>0, <2>6, <2>7, PromisedSame DEF GentlePart
<1>13. SourcesPart'
  <2>1. ASSUME BackupIsNoSource, NEW i \in DOMAIN fjob.srcs, NEW q \in DOMAIN before, IsPrefix(fjob.srcs[i], q)
        PROVE  q \in DOMAIN tree' /\ tree'[q] = before[q]
    <3>1. q \in DOMAIN tree /\ tree[q] = before[q]
      BY <1>0, <2>1 DEF FilesInv, SourcesPart, Under
    <3>2. q # y
      BY <1>8, <2>1, <3>1 DEF BackupIsNoSource
    <3> QED BY <1>8, <2>1, <3>1, <3>2
  <2> QED BY <2>1 DEF SourcesPart, BackupIsNoSource, Under
<1>14. LocatedPart'
  BY <1>0 DEF LocatedPart
<1>15. PromisedPart'
  BY DEF PromisedPart
<1>16. RemovesOnlyOperands'
  BY <1>0 DEF RemovesOnlyOperands
<1> QED BY <1>9, <1>10, <1>11, <1>12, <1>13, <1>14, <1>15, <1>16 DEF FilesInv

LEMMA CopyFileKeeps ==
  ASSUME FilesInv, Apart, NEW p, CopyFile(p)
  PROVE  FilesInv'
<1>0. /\ opc = "copy" /\ NextPath(p) /\ IsFile(tree, p) /\ before' = before /\ fjob' = fjob
      /\ LeftOut(p) => Has("i") /\ ~Has("n") /\ ~(Has("u") /\ ~Newer(p, To(p)))
  BY DEF CopyFile
<1>1. CASE /\ (fjob.backup = "none" \/ ~Exists(tree, To(p))) /\ opc' = "open" /\ file' = p
           /\ UNCHANGED <<tree, operand, src, dst, todo, errors>>
  BY <1>0, <1>1, OpeningKeeps DEF CopyFile
<1>2. CASE Quit /\ tree' = tree
  BY <1>0, <1>2, QuittingKeeps
<1>3. CASE /\ ~(fjob.backup = "none" \/ ~Exists(tree, To(p)))
           /\ MayExist(tree, CpBackup(To(p))) /\ MayRename(tree, To(p), CpBackup(To(p)))
           /\ tree' = Renamed(tree, To(p), CpBackup(To(p)))
           /\ opc' = "open" /\ file' = p /\ UNCHANGED <<operand, src, dst, todo, errors>>
  BY <1>0, <1>3, BackupKeeps
<1> QED BY <1>1, <1>2, <1>3 DEF CopyFile

-----------------------------------------------------------------------------
(* The invariant, from the start of the command on.                        *)

Begun == /\ fjob \in FileJobs /\ tree \in Trees /\ before = tree /\ opc = "operand" /\ operand = 1
         /\ todo = {} /\ errors = FALSE

LEMMA BegunFacts == Begun => FilesInv
<1> SUFFICES ASSUME Begun PROVE FilesInv
  OBVIOUS
<1>0. /\ fjob \in FileJobs /\ IsTree(tree) /\ tree \in Trees /\ before = tree /\ opc = "operand" /\ operand = 1
      /\ todo = {} /\ errors \in BOOLEAN /\ ~Copying /\ Len(fjob.srcs) \in Nat
  BY TreeAssumption, JobFacts DEF Begun, Copying
<1>1. JobPart
  BY <1>0 DEF JobPart
<1>2. PhasePart
  BY <1>0 DEF PhasePart
<1>3. CopyPart
  BY <1>0 DEF CopyPart
<1>4. GentlePart
  BY <1>0 DEF GentlePart, Somewhere, Whole
<1>5. SourcesPart
  BY <1>0 DEF SourcesPart, Under
<1>6. LocatedPart
  BY <1>0 DEF LocatedPart, Under, Located, Files
<1>7. PromisedPart
  <2>1. \A q \in Promised : q \in DOMAIN before
    BY DEF Promised, Whole
  <2> QED BY <1>0, <2>1 DEF PromisedPart
<1>8. RemovesOnlyOperands
  BY <1>0 DEF RemovesOnlyOperands
<1> QED BY <1>1, <1>2, <1>3, <1>4, <1>5, <1>6, <1>7, <1>8 DEF FilesInv

(* What no step changes.                                                   *)
LEMMA StepFrame ==
  ASSUME FileOpsStep
  PROVE  before' = before /\ fjob' = fjob /\ opc # "new" /\ opc' # "new"
<1>0. /\ NextOne => opc' = "operand"
      /\ FailOne => opc' = "operand"
      /\ Quit => opc' = "done"
      /\ FailOrQuit => opc' \in {"operand", "done"}
      /\ \A s, d : BeginCopy(s, d) => opc' = "copy"
      /\ \A s : BeginDelete(s) => opc' = "delete"
      /\ \A p : Leave(p) => opc' = "copy"
  BY DEF NextOne, FailOne, Quit, FailOrQuit, BeginCopy, BeginDelete, Leave
<1>1. CASE MvRefused \/ CpRefused
  BY <1>0, <1>1 DEF MvRefused, CpRefused, At
<1>2. CASE MvOperand
  <2>1. \A s, d : RenameTo(s, d) => opc' \in {"operand", "copy"}
    BY <1>0, RenameToSplits
  <2>2. opc' \in {"operand", "copy"}
    BY <1>0, <1>2, <2>1 DEF MvOperand
  <2> QED BY <1>2, <2>2 DEF MvOperand, At
<1>3. CASE CpOperand
  BY <1>0, <1>3 DEF CpOperand, At
<1>4. CASE RmOperand
  BY <1>0, <1>4 DEF RmOperand, At
<1>5. CASE AllDone \/ Interrupted
  BY <1>0, <1>5 DEF AllDone, Interrupted
<1>6. CASE OpenTarget \/ WriteTarget \/ Copied \/ Deleted
  BY <1>0, <1>6 DEF OpenTarget, WriteTarget, Copied, Deleted
<1>7. ASSUME NEW p \in todo, CopyDir(p) \/ SkipFile(p) \/ CopyFile(p)
      PROVE  before' = before /\ fjob' = fjob /\ opc # "new" /\ opc' # "new"
  BY <1>0, <1>7 DEF CopyDir, SkipFile, CopyFile
<1>8. ASSUME NEW p \in DOMAIN tree, DeleteOne(p)
      PROVE  before' = before /\ fjob' = fjob /\ opc # "new" /\ opc' # "new"
  BY <1>8 DEF DeleteOne
<1> QED BY <1>1, <1>2, <1>3, <1>4, <1>5, <1>6, <1>7, <1>8 DEF FileOpsStep

LEMMA StepKeeps ==
  ASSUME FilesInv, Apart, FileOpsStep
  PROVE  FilesInv'
<1>1. CASE MvRefused \/ CpRefused \/ Interrupted \/ AllDone
  BY <1>1, EndKeeps
<1>2. CASE MvOperand
  BY <1>2, MvOperandKeeps
<1>3. CASE CpOperand
  BY <1>3, CpOperandKeeps
<1>4. CASE RmOperand
  BY <1>4, RmOperandKeeps
<1>5. CASE OpenTarget
  BY <1>5, OpenTargetKeeps
<1>6. CASE WriteTarget
  BY <1>6, WriteTargetKeeps
<1>7. CASE Copied
  BY <1>7, CopiedKeeps
<1>8. CASE Deleted
  BY <1>8, DeletedKeeps
<1>9. ASSUME NEW p \in todo, CopyDir(p) \/ SkipFile(p) \/ CopyFile(p)
      PROVE  FilesInv'
  BY <1>9, CopyDirKeeps, SkipFileKeeps, CopyFileKeeps
<1>10. ASSUME NEW p \in DOMAIN tree, DeleteOne(p)
       PROVE  FilesInv'
  BY <1>10, DeleteOneKeeps
<1> QED BY <1>1, <1>2, <1>3, <1>4, <1>5, <1>6, <1>7, <1>8, <1>9, <1>10 DEF FileOpsStep

LEMMA NothingIsLost == FilesInv => NoDataLost
<1> SUFFICES ASSUME FilesInv PROVE NoDataLost
  OBVIOUS
<1>1. FileOpsTypeOK
  <2>1. todo \subseteq Under(tree, src)
    <3>1. CASE Copying
      BY <3>1 DEF FilesInv, PhasePart
    <3>2. CASE ~Copying
      BY <3>2 DEF FilesInv, PhasePart, JobPart, Copying
    <3> QED BY <3>1, <3>2
  <2> QED BY <2>1 DEF FilesInv, JobPart, FileOpsTypeOK
<1>2. Gentle => \A q \in Whole(before) : before[q][1] \in DataOf(tree, DOMAIN tree)
  BY DEF FilesInv, GentlePart, Somewhere, DataOf
<1>3. SourcesSurvive
  <2> SUFFICES ASSUME Carries, OneNameEach, BackupIsNoSource, NEW i \in DOMAIN fjob.srcs,
                      NEW q \in Files(before, fjob.srcs[i])
               PROVE  before[q][1] \in DataOf(tree, DOMAIN tree)
    BY DEF SourcesSurvive, Carries, Kept, DataOf
  <2>1. q \in Whole(before) /\ q \in Under(before, fjob.srcs[i])
    BY DEF Files, Whole, Under, IsFile
  <2>2. CASE fjob.cmd = "cp"
    <3>1. q \in DOMAIN tree /\ tree[q] = before[q]
      BY <2>1, <2>2 DEF FilesInv, SourcesPart
    <3> QED BY <3>1 DEF DataOf
  <2>3. CASE fjob.cmd = "mv" /\ Has("b")
    BY <1>2, <2>1, <2>3 DEF Gentle, Sparing
  <2>4. CASE fjob.cmd = "mv" /\ ~Has("b")
    <3>1. Located(q)
      BY <2>4 DEF FilesInv, LocatedPart
    <3>2. \E r \in DOMAIN tree : tree[r] = before[q]
      BY <3>1 DEF Located
    <3> QED BY <3>2 DEF DataOf
  <2> QED BY <2>2, <2>3, <2>4 DEF Carries
<1>4. OverwritesAreSafe
  <2> SUFFICES ASSUME NEW q \in Promised PROVE before[q][1] \in DataOf(tree, DOMAIN tree)
    BY DEF OverwritesAreSafe, Kept, DataOf
  <2>1. q \in Whole(before)
    BY DEF Promised
  <2>2. CASE Gentle
    BY <1>2, <2>1, <2>2
  <2>3. CASE ~Gentle
    <3>1. Carries /\ Has("u") /\ fjob.backup = "none"
      BY <2>3 DEF Promised, Gentle, Sparing, Carries
    <3>2. q \in DOMAIN tree /\ tree[q] = before[q]
      BY <2>3, <3>1 DEF FilesInv, PromisedPart
    <3> QED BY <3>2 DEF DataOf
  <2> QED BY <2>2, <2>3
<1> QED BY <1>1, <1>3, <1>4 DEF NoDataLost, FilesInv

LEMMA NothingIsLostYet == FileOpsInit => NoDataLost
<1> SUFFICES ASSUME FileOpsInit PROVE NoDataLost
  OBVIOUS
<1>1. /\ fjob.cmd = "none" /\ fjob = NoFileJob /\ fjob.srcs = <<>> /\ operand = 1 /\ before = tree
      /\ todo = {} /\ errors = FALSE /\ opc = "new" /\ tree = [p \in {<<>>} |-> Dir]
  BY DEF FileOpsInit, NoFileJob
<1>2. IsTree(tree)
  <2>1. DOMAIN tree = {<<>>} /\ tree[<<>>] = Dir
    BY <1>1
  <2>2. IsFiniteSet(DOMAIN tree)
    BY <2>1, FS_Singleton
  <2>3. DOMAIN tree \subseteq FilePaths /\ IsDir(tree, <<>>) /\ Dir[2] \in Nat
    BY <2>1, PathOrder DEF IsDir, Exists, Dir
  <2>4. Shaped(tree)
    BY <2>1, PathOrder DEF Shaped
  <2> QED BY <2>1, <2>2, <2>3, <2>4, TreeIff
<1>3. FileOpsTypeOK
  <2>1. Len(fjob.srcs) = 0
    BY <1>1
  <2>2. operand \in 1 .. Len(fjob.srcs) + 1
    BY <1>1, <2>1
  <2>3. fjob \in FileJobs \cup {NoFileJob}
    BY <1>1
  <2> QED BY <1>1, <1>2, <2>2, <2>3, Zenon DEF FileOpsTypeOK
<1>4. Promised = {}
  BY <1>1 DEF Promised
<1> QED BY <1>1, <1>3, <1>4 DEF NoDataLost, SourcesSurvive, OverwritesAreSafe, Kept, DataOf, RemovesOnlyOperands

FileOpsIInv ==
  \/ FileOpsInit
  \/ opc # "new" /\ (Apart => FilesInv)

LEMMA FilesInvStutters == FilesInv /\ UNCHANGED fovars => FilesInv'
<1> SUFFICES ASSUME FilesInv, UNCHANGED fovars PROVE FilesInv'
  OBVIOUS
<1>0. /\ tree' = tree /\ before' = before /\ fjob' = fjob /\ opc' = opc /\ operand' = operand /\ src' = src
      /\ dst' = dst /\ todo' = todo /\ file' = file /\ errors' = errors
  BY DEF fovars
<1>1. JobPart' /\ RemovesOnlyOperands'
  BY <1>0 DEF FilesInv, JobPart, RemovesOnlyOperands, Has
<1>2. PhasePart'
  BY <1>0 DEF FilesInv, PhasePart, Copying, Operand, Carries, Under, Has, Dest, Target, To
<1>3. CopyPart'
  BY <1>0 DEF FilesInv, CopyPart, Copying, Under, Twice, To
<1>4. GentlePart'
  BY <1>0, PromisedSame DEF FilesInv, GentlePart, Copying, Somewhere, To
<1>5. SourcesPart'
  BY <1>0 DEF FilesInv, SourcesPart, BackupIsNoSource, Under
<1>6. LocatedPart'
  <2>1. \A q : Located(q)' <=> Located(q)
    BY <1>0, PromisedSame DEF Located, Arrived
  <2>2. Target(operand)' = Target(operand)
    BY <1>0 DEF Target, Dest
  <2> QED BY <1>0, <2>1, <2>2, PromisedSame DEF FilesInv, LocatedPart, Copying, Under, Files
<1>7. PromisedPart'
  BY <1>0, PromisedSame DEF FilesInv, PromisedPart, Copying, To
<1> QED BY <1>1, <1>2, <1>3, <1>4, <1>5, <1>6, <1>7 DEF FilesInv

(* Wherever a command stops, killed or by an error, what it carries and    *)
(* what Promised names (all data for cp -n, numbered backups, mv -b and mv *)
(* -n except where mv -n breaks its word, the newer data for -u) is        *)
(* somewhere, the tree is one, and rm removed only its operands (mv.go,    *)
(* cp.go, rm.go): for all trees, and all jobs no source of which lies      *)
(* above, below or at a place where a source goes.                         *)
THEOREM NoDataIsLost == FileOpsSpec => [](Apart => NoDataLost)
<1>1. FileOpsInit => FileOpsIInv
  BY DEF FileOpsIInv
<1>2. FileOpsIInv /\ [FileOpsNext]_fovars => FileOpsIInv'
  <2> SUFFICES ASSUME FileOpsIInv, [FileOpsNext]_fovars PROVE FileOpsIInv'
    OBVIOUS
  <2>1. ASSUME FileOpsStart, FileOpsInit PROVE FileOpsIInv'
    <3>1. Begun' /\ opc' # "new"
      BY <2>1 DEF FileOpsStart, FileOpsInit, Begun
    <3>2. Begun' => FilesInv'
      BY BegunFacts, PTL
    <3> QED BY <3>1, <3>2 DEF FileOpsIInv
  <2>2. CASE FileOpsStep
    <3>1. before' = before /\ fjob' = fjob /\ opc # "new" /\ opc' # "new"
      BY <2>2, StepFrame
    <3>2. Apart' => Apart
      BY <3>1 DEF Apart, Target, Dest
    <3>3. Apart => FilesInv
      BY <3>1 DEF FileOpsIInv, FileOpsInit
    <3> QED BY <2>2, <3>1, <3>2, <3>3, StepKeeps DEF FileOpsIInv
  <2>3. CASE UNCHANGED fovars
    <3>1. CASE FileOpsInit
      BY <2>3, <3>1 DEF FileOpsIInv, FileOpsInit, fovars
    <3>2. CASE opc # "new" /\ (Apart => FilesInv)
      <4>1. Apart' => Apart
        BY <2>3 DEF Apart, Target, Dest, fovars
      <4>2. opc' # "new"
        BY <2>3, <3>2 DEF fovars
      <4> QED BY <2>3, <3>2, <4>1, <4>2, FilesInvStutters DEF FileOpsIInv
    <3> QED BY <3>1, <3>2 DEF FileOpsIInv
  <2>4. FileOpsStart => FileOpsInit
    BY DEF FileOpsStart, FileOpsIInv
  <2> QED BY <2>1, <2>2, <2>3, <2>4 DEF FileOpsNext
<1>3. FileOpsIInv => (Apart => NoDataLost)
  BY NothingIsLost, NothingIsLostYet DEF FileOpsIInv
<1> QED BY <1>1, <1>2, <1>3, PTL DEF FileOpsSpec
=============================================================================
