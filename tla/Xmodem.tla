------------------------------- MODULE Xmodem -------------------------------
(***************************************************************************)
(* rx: the XMODEM receiver, at the end of a serial link.  At the other end *)
(* is a sender that waits for each block to be acknowledged and repeats it *)
(* when it hears nothing.  The link keeps the order of what  *)
(* is sent; it spoils bytes, and loses replies.                            *)
(***************************************************************************)
EXTENDS Naturals, Sequences

CONSTANTS
  File,          \* the blocks of the file
  MaxNum,        \* the largest block number: 255
  MaxRepeats     \* how often the sender repeats something before it gives up

ASSUME XmodemAssumption ==
  /\ File \in Seq(Nat) /\ MaxNum \in Nat \ {0} /\ MaxRepeats \in Nat

VARIABLES
  link,      \* packets on their way: [kind, index, num, good]
  replies,   \* "nak", which rx sends only to start, and "ack", on their way
  closed,    \* the sender has hung up
  index,     \* the block the sender is at: 0 before the first, Len(File) + 1 at the end
  num,       \* and its number
  repeats,   \* how often it has been repeated
  expected,  \* the number the receiver expects
  out,       \* what it has written
  rx         \* "new", "open", "received" or "failed"

linkvars == <<link, replies>>
sendvars == <<closed, index, num, repeats>>
rxvars   == <<expected, out, rx>>
xvars    == <<linkvars, sendvars, rxvars>>

(* Block numbers are bytes: they wrap.                                     *)
Next1(n) == IF n = MaxNum THEN 0 ELSE n + 1
Prev1(n) == IF n = 0 THEN MaxNum ELSE n - 1

XmodemInit ==
  /\ link = <<>> /\ replies = <<>> /\ closed = FALSE
  /\ index = 0 /\ num = 0 /\ repeats = 0
  /\ expected = 1 /\ out = <<>> /\ rx = "new"

-----------------------------------------------------------------------------
(* The sender. *)

Packet(i, n) ==
  [kind |-> IF i > Len(File) THEN "eot" ELSE "data", index |-> i, num |-> n, good |-> TRUE]
SendBlock(i, n) == link' = Append(link, Packet(i, n))
Repeat ==
  /\ repeats < MaxRepeats /\ repeats' = repeats + 1
  /\ SendBlock(index, num) /\ UNCHANGED <<closed, index, num>>
CancelSend ==
  /\ link' = Append(link, [kind |-> "can", index |-> index, num |-> num, good |-> TRUE])
  /\ closed' = TRUE /\ UNCHANGED <<index, num, repeats>>
HangUp == closed' = TRUE /\ UNCHANGED <<link, index, num, repeats>>

(* The nak starts the transfer, an ack moves it on to the next block.      *)
Advance ==
  /\ index' = index + 1 /\ num' = Next1(num) /\ repeats' = 0 /\ UNCHANGED closed
  /\ SendBlock(index + 1, Next1(num))

HearReply ==
  /\ ~closed /\ replies # <<>> /\ replies' = Tail(replies)
  /\ IF index > Len(File) THEN HangUp ELSE Advance
  /\ UNCHANGED rxvars

(* Nothing was heard in time; before the start there is nothing to repeat. *)
SenderTimeout ==
  /\ ~closed /\ rx # "new"
  /\ (index > 0 /\ Repeat) \/ ((index = 0 \/ repeats = MaxRepeats) /\ CancelSend)
  /\ UNCHANGED <<replies, rxvars>>

SenderGone == ~closed /\ HangUp /\ UNCHANGED <<replies, rxvars>>

-----------------------------------------------------------------------------
(* The link. *)

Spoil ==
  /\ \E i \in DOMAIN link : link[i].good /\ link' = [link EXCEPT ![i].good = FALSE]
  /\ UNCHANGED <<replies, sendvars, rxvars>>
LoseReply ==
  /\ replies # <<>> /\ replies' = Tail(replies) /\ UNCHANGED <<link, sendvars, rxvars>>

-----------------------------------------------------------------------------
(* The receiver. *)

Reply(r) == replies' = Append(replies, r)

AskToStart ==
  /\ rx = "new" /\ rx' = "open" /\ Reply("nak")
  /\ UNCHANGED <<link, sendvars, expected, out>>

Receiving == rx = "open" /\ link # <<>> /\ link' = Tail(link)
Packet1   == Head(link)
Good(k)   == Packet1.good /\ Packet1.kind = k
Failing   == rx' = "failed" /\ UNCHANGED <<replies, sendvars, expected, out>>


TakeBlock ==
  /\ Receiving /\ Good("data") /\ Packet1.num = expected
  /\ out' = Append(out, File[Packet1.index]) /\ expected' = Next1(expected) /\ Reply("ack")
  /\ UNCHANGED <<sendvars, rx>>

TakeRepeat ==
  /\ Receiving /\ Good("data") /\ Packet1.num # expected /\ Packet1.num = Prev1(expected)
  /\ Reply("ack") /\ UNCHANGED <<sendvars, rxvars>>

TakeEnd ==
  /\ Receiving /\ Good("eot") /\ rx' = "received" /\ Reply("ack")
  /\ UNCHANGED <<sendvars, expected, out>>

(* A packet that fails its checks, a block that is neither the one         *)
(* expected nor the one before, and a cancellation end the transfer.       *)
Rejects ==
  \/ ~Packet1.good \/ Packet1.kind = "can"
  \/ Packet1.kind = "data" /\ Packet1.num \notin {expected, Prev1(expected)}
TakeBad == Receiving /\ Rejects /\ Failing

(* The file cannot be written.                                             *)
WriteFails ==
  /\ Receiving /\ Good("data") /\ Packet1.num = expected /\ Failing

LinkEnds ==
  /\ rx = "open" /\ closed /\ link = <<>> /\ Failing /\ UNCHANGED link

Receiver == TakeBlock \/ TakeRepeat \/ TakeEnd \/ TakeBad \/ LinkEnds
Sender   == HearReply \/ SenderTimeout

XmodemNext == AskToStart \/ Receiver \/ WriteFails \/ Sender \/ SenderGone \/ Spoil \/ LoseReply

(* rx reads whatever arrives; the sender answers, or times out.            *)
XmodemFairness == WF_xvars(Receiver) /\ WF_xvars(Sender)
XmodemSpec == XmodemInit /\ [][XmodemNext]_xvars /\ XmodemFairness

-----------------------------------------------------------------------------
(* Properties. *)

Transfer == INSTANCE FileTransfer WITH
  got <- out, outcome <- IF rx = "new" THEN "idle" ELSE rx

=============================================================================
