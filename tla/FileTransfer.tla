---------------------------- MODULE FileTransfer ----------------------------
(***************************************************************************)
(* What the receiver of a file promises, whatever the link does: its       *)
(* blocks arrive in order and once each, it reports success only with the  *)
(* whole file, and once begun it comes to an end.                          *)
(***************************************************************************)
EXTENDS Naturals, Sequences

CONSTANT File        \* the blocks of the file

VARIABLES
  got,       \* the blocks that have arrived
  outcome    \* "idle", "open", "received" or "failed"

ftvars == <<got, outcome>>

Init     == got = <<>> /\ outcome = "idle"
Start    == outcome = "idle" /\ outcome' = "open" /\ UNCHANGED got
Deliver  ==
  /\ outcome = "open" /\ Len(got) < Len(File)
  /\ got' = Append(got, File[Len(got) + 1]) /\ UNCHANGED outcome
Complete == outcome = "open" /\ got = File /\ outcome' = "received" /\ UNCHANGED got
Fail     == outcome = "open" /\ outcome' = "failed" /\ UNCHANGED got

Step     == Deliver \/ Complete \/ Fail
Next     == Start \/ Step
SafeSpec == Init /\ [][Next]_ftvars
Spec     == SafeSpec /\ WF_ftvars(Step)
=============================================================================
