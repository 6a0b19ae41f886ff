---------------------------- MODULE ShadowStore ----------------------------
(* What the passwd applet promises of /etc/shadow: each change of a        *)
(* password happens at one moment, to one user who has a line, and leaves  *)
(* everything else in the file as the previous change left it.             *)
EXTENDS Passwords

VARIABLE shadow

Init == shadow \in ShadowDB

Change(n, op, new) ==
  /\ HasLine(shadow, n)
  /\ shadow' = ChangeFirst(shadow, n, op, new)

Next == \E n \in Names, op \in Ops, new \in Password : Change(n, op, new)

Spec == Init /\ [][Next]_shadow
=============================================================================
