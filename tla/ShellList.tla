------------------------------ MODULE ShellList ------------------------------
(***************************************************************************)
(* add-shell and remove-shell: each reads /etc/shells and then appends to  *)
(* it, or truncates and rewrites it, a line with each write.  Nothing      *)
(* locks the file.  Names are of one length: a line that is written at an  *)
(* offset replaces the line that is there.                                 *)
(***************************************************************************)
EXTENDS Naturals, SequencesExt

CONSTANTS
  ShellProcs,    \* invocations
  ShellJobs,     \* what they may be asked: [op, names]
  ListedFirst    \* the shells that are listed to begin with

Shell == ToSet(ListedFirst) \cup UNION {ToSet(j.names) : j \in ShellJobs}

ASSUME ShellListAssumption ==
  /\ \A j \in ShellJobs : j.op \in {"add", "remove"} /\ j.names \in Seq(Shell) /\ j.names # <<>>
  /\ ListedFirst \in Seq(Shell) /\ IsInjective(ListedFirst)

VARIABLES
  list,     \* the lines of /etc/shells
  sjob,     \* each invocation's job
  sh,       \* "new", "read", "write", "done" or "killed"
  pending,  \* what it has still to write
  offset,   \* where remove-shell writes next
  overlap   \* whether two invocations were ever at work at once

shvars == <<list, sjob, sh, pending, offset, overlap>>

NoShellJob == [op |-> "none", names |-> <<>>]
Hole == "hole"      \* bytes of a file nobody wrote

ShellListInit ==
  /\ list = ListedFirst /\ sjob = [p \in ShellProcs |-> NoShellJob]
  /\ sh = [p \in ShellProcs |-> "new"] /\ pending = [p \in ShellProcs |-> <<>>]
  /\ offset = [p \in ShellProcs |-> 0] /\ overlap = FALSE

AtWork(p) == sh[p] \in {"read", "write"}
Named(p)  == ToSet(sjob[p].names)

ShellStart(p) ==
  /\ sh[p] = "new" /\ sh' = [sh EXCEPT ![p] = "read"]
  /\ \E j \in ShellJobs : sjob' = [sjob EXCEPT ![p] = j]
  /\ overlap' = (overlap \/ \E q \in ShellProcs \ {p} : AtWork(q))
  /\ UNCHANGED <<list, pending, offset>>

(* addShells: the names that are not listed, once each.                    *)
ToAdd(names) ==
  LET new[i \in 0 .. Len(names)] ==
        IF i = 0 THEN <<>>
        ELSE IF names[i] \in ToSet(list \o new[i - 1]) THEN new[i - 1]
        ELSE Append(new[i - 1], names[i])
  IN new[Len(names)]

ReadForAdd(p) ==
  /\ sh[p] = "read" /\ sjob[p].op = "add"
  /\ pending' = [pending EXCEPT ![p] = ToAdd(sjob[p].names)]
  /\ sh' = [sh EXCEPT ![p] = IF pending'[p] = <<>> THEN "done" ELSE "write"]
  /\ UNCHANGED <<list, sjob, offset, overlap>>

WriteAdded(p) ==
  /\ sh[p] = "write" /\ sjob[p].op = "add"
  /\ list' = Append(list, Head(pending[p])) /\ pending' = [pending EXCEPT ![p] = Tail(@)]
  /\ sh' = [sh EXCEPT ![p] = IF pending'[p] = <<>> THEN "done" ELSE "write"]
  /\ UNCHANGED <<sjob, offset, overlap>>

(* removeShells: the lines that name none of the shells to drop.           *)
Unnamed(l, drop) ==
  LET kept[i \in 0 .. Len(l)] ==
        IF i = 0 THEN <<>>
        ELSE IF l[i] \in drop THEN kept[i - 1]
        ELSE Append(kept[i - 1], l[i])
  IN kept[Len(l)]

(* What is kept is read before the file is truncated.                      *)
ReadTruncated(p) ==   \* mutant: the file is opened for writing first
  /\ sh[p] = "read" /\ sjob[p].op = "remove" /\ offset[p] = 0
  /\ list' = <<>> /\ offset' = [offset EXCEPT ![p] = 1]
  /\ UNCHANGED <<sjob, sh, pending, overlap>>

ReadForRemove(p) ==
  /\ sh[p] = "read" /\ sjob[p].op = "remove" /\ offset[p] = 0
  /\ pending' = [pending EXCEPT ![p] = Unnamed(list, Named(p))]
  /\ offset' = [offset EXCEPT ![p] = 1]
  /\ UNCHANGED <<list, sjob, sh, overlap>>

TruncateList(p) ==
  /\ sh[p] = "read" /\ offset[p] = 1
  /\ list' = <<>>
  /\ sh' = [sh EXCEPT ![p] = IF pending[p] = <<>> THEN "done" ELSE "write"]
  /\ UNCHANGED <<sjob, pending, offset, overlap>>

(* Shells that were added since the file was truncated have been written   *)
(* at its end, where remove-shell's own offset may be.                     *)
PutLine(l, n, s) ==
  [i \in 1 .. (IF n > Len(l) THEN n ELSE Len(l)) |->
     IF i = n THEN s ELSE IF i \in DOMAIN l THEN l[i] ELSE Hole]

WriteKept(p) ==
  /\ sh[p] = "write" /\ sjob[p].op = "remove"
  /\ list' = PutLine(list, offset[p], Head(pending[p]))
  /\ offset' = [offset EXCEPT ![p] = @ + 1] /\ pending' = [pending EXCEPT ![p] = Tail(@)]
  /\ sh' = [sh EXCEPT ![p] = IF pending'[p] = <<>> THEN "done" ELSE "write"]
  /\ UNCHANGED <<sjob, overlap>>

ShellKilled(p) ==
  /\ AtWork(p) /\ sh' = [sh EXCEPT ![p] = "killed"]
  /\ UNCHANGED <<list, sjob, pending, offset, overlap>>

ShellStep(p) ==
  \/ ShellStart(p) \/ ReadForAdd(p) \/ WriteAdded(p) \/ ShellKilled(p)
  \/ ReadForRemove(p) \/ TruncateList(p) \/ WriteKept(p)
ShellListNext == \E p \in ShellProcs : ShellStep(p)
ShellListSpec == ShellListInit /\ [][ShellListNext]_shvars

-----------------------------------------------------------------------------
(* Properties. *)

Removers == {p \in ShellProcs : sjob[p].op = "remove"}

(* Shells that nobody names stay listed, in their order, when commands     *)
(* are done, as long as one of them at most removes and is not killed as   *)
(* it rewrites the file.                                                   *)
Untouched ==
  LET others == UNION {Named(p) : p \in ShellProcs} IN
  /\ \A p \in ShellProcs : ~AtWork(p)
  /\ \A p, q \in Removers : p = q
  /\ \A p \in Removers : sh[p] = "done"
  => Unnamed(list, others) = Unnamed(ListedFirst, others)

(* Commands that do not overlap leave a shell listed at most once, also    *)
(* when one of them was killed half-way.                                   *)
ListedOnce == ~overlap => IsInjective(list)

(* Rewriting the list keeps what it should and adds nothing twice.         *)
ShellsKept == Untouched /\ ListedOnce
=============================================================================
