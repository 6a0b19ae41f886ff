------------------------------- MODULE Relays -------------------------------
(***************************************************************************)
(* The programs that carry bytes between the user and a connection: nc and *)
(* telnet (shuttle), ssl_client (DialAndPipe) and, over a serial line,     *)
(* microcom (Relay).  Two copies, each of them read by read and write by   *)
(* write, go on beside each other, or, in ssl_client, one after the other. *)
(*                                                                         *)
(* The peer is an echo, as ssl_server, or a talker with something to say   *)
(* that may hang up in the middle.  Each direction holds Buffer chunks.    *)
(***************************************************************************)
EXTENDS Integers, SequencesExt

CONSTANTS
  Sessions,  \* [relay, given, terminal, peer, speech]: the program, what is on
             \* stdin, whether that is a terminal, the kind of peer, what it says
  Buffer     \* what each direction holds

Carried == UNION {ToSet(s.given) \cup ToSet(s.speech) : s \in Sessions}
ASSUME RelaysAssumption ==
  /\ Buffer \in Nat \ {0}
  /\ \A s \in Sessions : s.given \in Seq(Carried) /\ s.speech \in Seq(Carried)

VARIABLES
  session,   \* the session, or {} before there is one
  stdin,     \* what was not read yet, and whether its end was reached
  up, down,  \* the two directions: [held, ended, cut]
  sender, receiver,  \* the two copies: what they do next, and a chunk they hold
  shown,     \* stdout
  main,      \* "wait", "grace", "fault" (the same, after an error), "ok" or "failed"
  peer,      \* [left, hand, gone]
  said, heard  \* what the peer has written and read

rvars == <<session, stdin, up, down, sender, receiver, shown, main, peer, said, heard>>

Quiet == [held |-> <<>>, ended |-> FALSE, cut |-> FALSE]
Copy(pc, chunk) == [pc |-> pc, chunk |-> chunk]

RelaysInit ==
  /\ session = {} /\ stdin = [left |-> <<>>, ended |-> FALSE] /\ up = Quiet /\ down = Quiet
  /\ sender = Copy("read", <<>>) /\ receiver = Copy("read", <<>>) /\ shown = <<>>
  /\ main = "wait" /\ peer = [left |-> <<>>, hand |-> <<>>, gone |-> FALSE]
  /\ said = <<>> /\ heard = <<>>

Relay  == (CHOOSE s \in session : TRUE).relay
Given  == (CHOOSE s \in session : TRUE).given
IsEcho == (CHOOSE s \in session : TRUE).peer = "echo"

Connect ==
  /\ session = {}
  /\ \E s \in Sessions :
       /\ session' = {s} /\ stdin' = [left |-> s.given, ended |-> ~s.terminal]
       /\ peer' = [peer EXCEPT !.left = s.speech]
  /\ UNCHANGED <<up, down, sender, receiver, shown, main, said, heard>>

UserCloses ==     \* ^D at a terminal
  /\ session # {} /\ ~stdin.ended /\ stdin' = [stdin EXCEPT !.ended = TRUE]
  /\ UNCHANGED <<session, up, down, sender, receiver, shown, main, peer, said, heard>>

-----------------------------------------------------------------------------
(* From the user to the peer. *)

Grace(isError) == IF isError \/ main = "fault" THEN "fault" ELSE "grace"
Runs == session # {} /\ main \in {"wait", "grace", "fault"}

SenderReads ==
  /\ Runs /\ sender.pc = "read"
  /\ \/ /\ stdin.left # <<>>
        /\ sender' = Copy("write", <<Head(stdin.left)>>)
        /\ stdin' = [stdin EXCEPT !.left = Tail(@)]
     \/ /\ stdin.left = <<>> /\ stdin.ended
        /\ sender' = Copy("close", <<>>) /\ UNCHANGED stdin
  /\ UNCHANGED <<session, up, down, receiver, shown, main, peer, said, heard>>

(* Of a peer that is gone a write learns at once or at the next one.       *)
SenderWrites ==
  /\ Runs /\ sender.pc = "write"
  /\ \/ /\ ~peer.gone /\ Len(up.held) < Buffer
        /\ up' = [up EXCEPT !.held = @ \o sender.chunk] /\ sender' = Copy("read", <<>>)
     \/ /\ peer.gone /\ sender' \in {Copy("read", <<>>), Copy("broken", <<>>)}
        /\ UNCHANGED up
  /\ UNCHANGED <<session, stdin, down, receiver, shown, main, peer, said, heard>>

EitherEnds ==     \* mutant: nc returns when the first copy is done
  /\ Runs /\ sender.pc \in {"close", "broken"} /\ sender' = Copy("done", <<>>)
  /\ up' = [up EXCEPT !.ended = TRUE] /\ main' = IF Relay = "microcom" THEN "grace" ELSE "ok"
  /\ UNCHANGED <<session, stdin, down, receiver, shown, peer, said, heard>>
(* What was wrong is not looked at by shuttle; ssl_client returns with it, *)
(* and Relay when the grace period is over.                                *)
SenderEnds ==
  /\ Runs /\ sender.pc \in {"close", "broken"} /\ sender' = Copy("done", <<>>)
  /\ up' = IF Relay = "microcom" THEN up ELSE [up EXCEPT !.ended = TRUE]
  /\ main' = CASE Relay = "microcom" -> Grace(sender.pc = "broken")
               [] Relay = "ssl" /\ sender.pc = "broken" -> "failed"
               [] OTHER -> main
  /\ UNCHANGED <<session, stdin, down, receiver, shown, peer, said, heard>>

-----------------------------------------------------------------------------
(* From the peer to the user. *)

ReceiverReads ==
  /\ Runs /\ receiver.pc = "read" /\ (Relay = "ssl" => sender.pc = "done")
  /\ \/ /\ down.held # <<>>
        /\ receiver' = Copy("write", <<Head(down.held)>>)
        /\ down' = [down EXCEPT !.held = Tail(@)]
        /\ UNCHANGED main
     \/ /\ down.held = <<>> /\ (down.ended \/ down.cut)
        /\ receiver' = Copy("done", <<>>)
        /\ main' = CASE Relay = "microcom" -> Grace(down.cut)
                     [] Relay # "microcom" /\ down.cut -> "failed"
                     [] OTHER -> "ok"
        /\ UNCHANGED down
  /\ UNCHANGED <<session, stdin, up, sender, shown, peer, said, heard>>

ReceiverWrites ==
  /\ Runs /\ receiver.pc = "write" /\ receiver' = Copy("read", <<>>)
  /\ shown' = shown \o receiver.chunk
  /\ UNCHANGED <<session, stdin, up, down, sender, main, peer, said, heard>>

(* Relay waits for both copies, but no longer than gracePeriod.            *)
RelayEnds ==
  /\ main \in {"grace", "fault"} /\ main' = IF main = "fault" THEN "failed" ELSE "ok"
  /\ UNCHANGED <<session, stdin, up, down, sender, receiver, shown, peer, said, heard>>

-----------------------------------------------------------------------------
(* The peer. *)

Says(chunk) == down' = [down EXCEPT !.held = @ \o chunk] /\ said' = said \o chunk
Room == ~peer.gone /\ ~down.ended /\ Len(down.held) < Buffer

PeerReads ==
  /\ session # {} /\ ~peer.gone /\ up.held # <<>> /\ peer.hand = <<>>
  /\ up' = [up EXCEPT !.held = Tail(@)] /\ heard' = heard \o <<Head(up.held)>>
  /\ peer' = [peer EXCEPT !.hand = IF IsEcho THEN <<Head(up.held)>> ELSE <<>>]
  /\ UNCHANGED <<session, stdin, down, sender, receiver, shown, main, said>>

PeerSays ==
  /\ session # {} /\ Room
  /\ \/ /\ IsEcho /\ peer.hand # <<>> /\ Says(peer.hand)
        /\ peer' = [peer EXCEPT !.hand = <<>>]
     \/ /\ ~IsEcho /\ peer.left # <<>> /\ Says(<<Head(peer.left)>>)
        /\ peer' = [peer EXCEPT !.left = Tail(@)]
  /\ UNCHANGED <<session, stdin, up, sender, receiver, shown, main, heard>>

(* An echo closes when it has read the end, a talker when it has said all. *)
PeerCloses ==
  /\ session # {} /\ ~peer.gone /\ ~down.ended
  /\ IF IsEcho THEN up.ended /\ up.held = <<>> /\ peer.hand = <<>> ELSE peer.left = <<>>
  /\ down' = [down EXCEPT !.ended = TRUE]
  /\ UNCHANGED <<session, stdin, up, sender, receiver, shown, main, peer, said, heard>>

(* Or it goes at any time; when it has not read everything, by a reset,    *)
(* and what has not arrived by then does not arrive.                       *)
PeerGoes ==
  /\ session # {} /\ ~IsEcho /\ ~peer.gone
  /\ peer' = [peer EXCEPT !.gone = TRUE]
  /\ IF up.held = <<>> THEN down' = [down EXCEPT !.ended = TRUE]
     ELSE \E n \in 0 .. Len(down.held) : down' = [held |-> SubSeq(down.held, 1, n), ended |-> FALSE, cut |-> TRUE]
  /\ UNCHANGED <<session, stdin, up, sender, receiver, shown, main, said, heard>>

RelaysNext ==
  \/ Connect \/ UserCloses
  \/ SenderReads \/ SenderWrites \/ SenderEnds
  \/ ReceiverReads \/ ReceiverWrites \/ RelayEnds
  \/ PeerReads \/ PeerSays \/ PeerCloses \/ PeerGoes

(* The copies go on when they can; stdout takes what it is given, except   *)
(* microcom's; the timer of the grace period fires; the peer goes on and   *)
(* closes.  Nothing is asked of the user.                                  *)
RelaysFairness ==
  /\ WF_rvars(SenderReads) /\ WF_rvars(SenderWrites) /\ WF_rvars(SenderEnds)
  /\ WF_rvars(ReceiverReads) /\ WF_rvars(ReceiverWrites /\ Relay # "microcom") /\ WF_rvars(RelayEnds)
  /\ WF_rvars(PeerReads) /\ WF_rvars(PeerSays) /\ WF_rvars(PeerCloses)
RelaysSpec == RelaysInit /\ [][RelaysNext]_rvars /\ RelaysFairness

-----------------------------------------------------------------------------
(* Properties. *)

BothDone == sender.pc = "done" /\ receiver.pc = "done"
Over == main \in {"ok", "failed"}

(* "copies in->conn and conn->out concurrently and returns when the        *)
(* connection-to-output direction completes": nothing is shown that was    *)
(* not said, in this order; and when nc, telnet or ssl_client report       *)
(* success, all that the peer has said until it closed is shown, whichever *)
(* side was first and whatever was still on its way: all of stdin, of an   *)
(* echo.  microcom shows all when both sides ended within the grace period.*)
RelaysDeliver ==
  /\ IsPrefix(shown, said) /\ session # {} => IsPrefix(heard, Given)
  /\ main = "ok" /\ (Relay # "microcom" \/ BothDone) => shown = said
  /\ main = "ok" /\ Relay # "microcom" /\ IsEcho => shown = Given

(* A session ends: nc and telnet with the peer, though the user types on;  *)
(* an echo's also with the user, because the end of stdin reaches it;      *)
(* microcom within its grace period, though the other copy is stuck.       *)
(* ssl_client does not read before all is written: with an echo it ends if *)
(* the two directions and the echo hold all that it writes.                *)
EchoFits == Relay = "ssl" => Len(Given) <= 2 * Buffer + 1
RelaysEnd ==
  /\ session # {} /\ Relay = "nc" /\ (down.ended \/ down.cut) ~> Over
  /\ session # {} /\ Relay # "microcom" /\ stdin.ended /\ IsEcho /\ EchoFits ~> Over
  /\ session # {} /\ main \in {"grace", "fault"} ~> Over
=============================================================================
