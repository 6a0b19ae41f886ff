-------------------------- MODULE AccountAppletsMC --------------------------
(* The account applets on two names, a few ids and two processes: all of    *)
(* them, two at the same time or one after another, or passwd alone.        *)
EXTENDS AccountDB, TLC

CONSTANTS a, b, h1, h2, sh, bash, p1, p2

ASSUME OneProcess == p1 \in Procs

Set(h) == [locked |-> FALSE, hash |-> h]
Plain(kind, n) ==
  [kind |-> kind, name |-> n, id |-> NoId, ingroup |-> NoGroup, op |-> "set",
   pw |-> Set(h1), batch |-> {}, shell |-> sh]

Adduser   == {Plain("adduser", n) : n \in Names}
AdduserG  == {[Plain("adduser", n) EXCEPT !.ingroup = g] : n, g \in Names}
AdduserU  == {[Plain("adduser", n) EXCEPT !.id = FirstId] : n \in Names}
Deluser   == {Plain("deluser", n) : n \in Names}
Addgroup  == {[Plain("addgroup", n) EXCEPT !.id = i] : n \in Names, i \in {NoId, FirstId}}
Delgroup  == {Plain("delgroup", n) : n \in Names}
Chsh      == {[Plain("chsh", n) EXCEPT !.shell = s] : n \in Names, s \in Shells}
NewPassword(n, op) == [Plain("passwd", n) EXCEPT !.op = op, !.pw = Set(h2)]
NewPasswords(n, s) == [Plain("chpasswd", n) EXCEPT !.batch = s, !.pw = Set(h2)]
Passwd    == {NewPassword(n, op) : n \in Names, op \in Ops}
Chpasswd  == {NewPasswords(n, s) : n \in {a}, s \in (SUBSET Names) \ {{}}}

IdJobs     == Adduser \cup AdduserG \cup AdduserU \cup Deluser \cup Addgroup
                \cup Delgroup \cup Chsh
SequentialJobs == (IdJobs \ Delgroup) \cup Passwd \cup Chpasswd
PasswdJobs == Passwd

-----------------------------------------------------------------------------
(* In a behaviour either two invocations overlap, none of them interrupted, *)
(* or they follow one another, and may be killed or fail.  What the applets *)
(* promise together does not hold of delgroup, which looks at no user.      *)

VARIABLE together
Applets   == IdJobs \cup SequentialJobs
ToRun     == IF together THEN IdJobs ELSE SequentialJobs
MostJobs  == IF together THEN 2 ELSE MaxJobs
AtWork    == IF together THEN Procs ELSE {p1}

AppletsInit == Init /\ together \in BOOLEAN /\ (together => ~mayAbort)
AppletsNext ==
  /\ Next /\ UNCHANGED together
  /\ jobs' <= MostJobs
  /\ \A p \in Procs : job'[p] # NoJob => p \in AtWork /\ job'[p] \in ToRun
AppletsSpec == AppletsInit /\ [][AppletsNext]_<<vars, together>>

(* When all commands are passwd, only its steps are ever enabled.           *)
PasswdInit == Init /\ together = TRUE
PasswdNext ==
  /\ \E p \in Procs : \/ Start(p) \/ PasswdLock(p) \/ PasswdRead(p)
                      \/ PasswdWrite(p) \/ PasswdUnlock(p) \/ Abort(p)
  /\ UNCHANGED together
PasswdSpec == PasswdInit /\ [][PasswdNext]_<<vars, together>> /\ Fairness

(* When invocations do not overlap, the databases agree: every user's       *)
(* primary group exists, at every moment and even when an applet is killed  *)
(* between two of its steps (adduser writes group before passwd), and after *)
(* commands none of which failed the users of passwd and shadow are the     *)
(* same.                                                                    *)
DatabasesAgree == ~together => PrimaryGroupExists /\ Consistent

(* When invocations do not overlap and none was interrupted, an account     *)
(* that adduser has just created opens with no password, whatever deluser   *)
(* left of an earlier account of the name.                                  *)
AccountsStartLocked ==
  [][~together /\ ~mayAbort => \A p \in Procs : Creates(p) =>
       \A h \in Hashes : ~Authenticates(shadow', Me(p), h)]_<<vars, together>>
=============================================================================
