------------------------------- MODULE Xargs -------------------------------
(***************************************************************************)
(* xargs (findutils/xargs): batch splits the items into invocations, and   *)
(* runAll runs these one after the other or, with -P, in goroutines of     *)
(* which a semaphore admits a few at a time.                               *)
(*                                                                         *)
(* An item is the input line it comes from and its length with the space   *)
(* before it; an invocation is the sequence of the items it is given.      *)
(***************************************************************************)
EXTENDS Integers, FiniteSets, SequencesExt

CONSTANTS
  XargsInputs,  \* what a run may be given: a record of items and options
  NumCPU        \* runtime.NumCPU()

Item == [line : Nat, len : Nat]
XargsOptions ==
  [maxArgs : Nat, maxLines : Nat, maxChars : Nat, maxProcs : Nat,
   replace : BOOLEAN, delimited : BOOLEAN, noRunEmpty : BOOLEAN]

ASSUME CPUAssumption == NumCPU \in Nat
(* readItems counts the lines.                                             *)
ASSUME InputAssumption ==
  \A in \in XargsInputs :
    /\ in.items \in Seq(Item) /\ in.opts \in XargsOptions
    /\ \A i, j \in DOMAIN in.items : i <= j => in.items[i].line <= in.items[j].line

VARIABLES
  xpc,       \* "new", "loop" (of runAll), "wait" (wg.Wait) or "done"
  xin,       \* the input of this run
  invs,      \* the invocations it was split into
  xnext,     \* the invocation the loop is at
  worker,    \* where each invocation's goroutine is
  failed,    \* the invocations whose command failed
  sem, wg,   \* tokens in the semaphore, count of the WaitGroup
  printed,   \* the invocations whose output was written, in that order
  firstErr   \* the invocation whose error is reported, 0 for none

xvars == <<xpc, xin, invs, xnext, worker, failed, sem, wg, printed, firstErr>>

-----------------------------------------------------------------------------
(* Splitting. *)

(* readItems: with -0 or -d every item is a line of its own.               *)
LineOf(in, i) == IF in.opts.delimited THEN i ELSE in.items[i].line

CharLen(in, group) ==
  LET total[j \in 0 .. Len(group)] ==
        IF j = 0 THEN 0 ELSE total[j - 1] + in.items[group[j]].len
  IN  total[Len(group)]

(* What batch keeps: the groups that are closed and the open one, with its *)
(* lines and the last of them.                                             *)
Grouped(out, cur, lines, last) == [out |-> out, cur |-> cur, lines |-> lines, last |-> last]
NoGroups == Grouped(<<>>, <<>>, 0, -1)

Flushed(b) == IF b.cur = <<>> THEN b ELSE Grouped(Append(b.out, b.cur), <<>>, 0, -1)

SplitForgetsLine(cond, b, in, i) == IF cond THEN Flushed(b) ELSE b  \* mutant

(* A group split by -n or -s in the middle of a line has that line already. *)
SplitIf(cond, b, in, i) ==
  LET f == Flushed(b) IN
  IF ~cond THEN b
  ELSE IF in.opts.maxLines = 0 THEN f ELSE Grouped(f.out, f.cur, 1, LineOf(in, i))

CountLine(b, in, i) ==
  LET f == IF b.lines >= in.opts.maxLines THEN Flushed(b) ELSE b IN
  IF in.opts.maxLines = 0 \/ LineOf(in, i) = b.last THEN b
  ELSE Grouped(f.out, f.cur, f.lines + 1, LineOf(in, i))

AddItem(b, in, i) ==
  LET o    == in.opts
      byL  == CountLine(b, in, i)
      byN  == SplitIf(o.maxArgs > 0 /\ Len(byL.cur) >= o.maxArgs, byL, in, i)
      over == /\ o.maxChars > 0 /\ byN.cur # <<>>
              /\ CharLen(in, byN.cur) + in.items[i].len > o.maxChars
      byS  == SplitIf(over, byN, in, i)
  IN  Grouped(byS.out, Append(byS.cur, i), byS.lines, byS.last)

Batch(in) ==
  LET b[i \in 0 .. Len(in.items)] ==
        IF i = 0 THEN NoGroups ELSE AddItem(b[i - 1], in, i)
  IN  Flushed(b[Len(in.items)]).out

(* runCommands, and the early return of -r: -I gives every item an         *)
(* invocation, and without items the command runs once with no item.       *)
Invocations(in) ==
  CASE in.items = <<>> /\ in.opts.noRunEmpty    -> <<>>
    [] in.opts.replace                          -> [i \in DOMAIN in.items |-> <<i>>]
    [] in.items = <<>> /\ ~in.opts.replace /\ ~in.opts.noRunEmpty -> << <<>> >>
    [] OTHER                                    -> Batch(in)

AtMost(a, b) == IF a < b THEN a ELSE b
WorkerCount(maxProcs, n) ==
  IF maxProcs > 0 THEN AtMost(maxProcs, n)
  ELSE AtMost(n, IF NumCPU < 1 THEN 1 ELSE NumCPU)

Procs    == WorkerCount(xin.opts.maxProcs, Len(invs))
Parallel == Procs > 1

-----------------------------------------------------------------------------
(* Running. *)

NoInput == [items |-> <<>>,
            opts |-> [maxArgs |-> 0, maxLines |-> 0, maxChars |-> 0, maxProcs |-> 1,
                      replace |-> FALSE, delimited |-> FALSE, noRunEmpty |-> FALSE]]

XargsInit ==
  /\ xpc = "new" /\ xin = NoInput /\ invs = <<>> /\ xnext = 1 /\ worker = <<>>
  /\ failed = {} /\ sem = 0 /\ wg = 0 /\ printed = <<>> /\ firstErr = 0

XargsStart ==
  /\ xpc = "new" /\ xpc' = "loop"
  /\ xin' \in XargsInputs
  /\ invs' = Invocations(xin')
  /\ worker' = [i \in DOMAIN invs' |-> "none"]
  /\ UNCHANGED <<xnext, failed, sem, wg, printed, firstErr>>

(* One command at a time: it runs, and ends the loop if it fails.          *)
RunNext ==
  /\ xpc = "loop" /\ ~Parallel /\ xnext <= Len(invs) /\ worker[xnext] = "none"
  /\ worker' = [worker EXCEPT ![xnext] = "running"]
  /\ UNCHANGED <<xpc, xin, invs, xnext, failed, sem, wg, printed, firstErr>>

Continue ==
  /\ xpc = "loop" /\ ~Parallel /\ xnext <= Len(invs) /\ worker[xnext] = "ended"
  /\ worker'  = [worker EXCEPT ![xnext] = "over"]
  /\ printed' = Append(printed, xnext)
  /\ IF xnext \in failed
       THEN xpc' = "done" /\ firstErr' = xnext /\ UNCHANGED xnext
       ELSE xnext' = xnext + 1 /\ UNCHANGED <<xpc, firstErr>>
  /\ UNCHANGED <<xin, invs, failed, sem, wg>>

LoopEnds ==
  /\ xpc = "loop" /\ xnext > Len(invs)
  /\ xpc' = IF Parallel THEN "wait" ELSE "done"
  /\ UNCHANGED <<xin, invs, xnext, worker, failed, sem, wg, printed, firstErr>>

(* In parallel the loop takes a token before it starts a goroutine.        *)
Spawn ==
  /\ xpc = "loop" /\ Parallel /\ xnext <= Len(invs) /\ sem < Procs
  /\ wg' = wg + 1 /\ sem' = sem + 1
  /\ worker' = [worker EXCEPT ![xnext] = "spawned"] /\ xnext' = xnext + 1
  /\ UNCHANGED <<xpc, xin, invs, failed, printed, firstErr>>

Exec(i) ==
  /\ worker[i] = "spawned"
  /\ worker' = [worker EXCEPT ![i] = "running"]
  /\ UNCHANGED <<xpc, xin, invs, xnext, failed, sem, wg, printed, firstErr>>

(* A command ends, well or not: it exits, or it could not be started.      *)
CommandEnds(i) ==
  /\ worker[i] = "running"
  /\ worker' = [worker EXCEPT ![i] = "ended"]
  /\ \/ failed' = failed \cup {i}
     \/ UNCHANGED failed
  /\ UNCHANGED <<xpc, xin, invs, xnext, sem, wg, printed, firstErr>>

(* Under the mutex: both buffers are written and the first error is kept.  *)
Flush(i) ==
  /\ Parallel /\ worker[i] = "ended"
  /\ worker'   = [worker EXCEPT ![i] = "flushed"]
  /\ printed'  = Append(printed, i)
  /\ firstErr' = IF i \in failed /\ firstErr = 0 THEN i ELSE firstErr
  /\ UNCHANGED <<xpc, xin, invs, xnext, failed, sem, wg>>

(* The deferred calls: the token goes back first, then wg.Done.            *)
Release(i) ==
  /\ worker[i] = "flushed"
  /\ worker' = [worker EXCEPT ![i] = "released"] /\ sem' = sem - 1
  /\ UNCHANGED <<xpc, xin, invs, xnext, failed, wg, printed, firstErr>>

WorkerDone(i) ==
  /\ worker[i] = "released"
  /\ worker' = [worker EXCEPT ![i] = "over"] /\ wg' = wg - 1
  /\ UNCHANGED <<xpc, xin, invs, xnext, failed, sem, printed, firstErr>>

WaitAll ==
  /\ xpc = "wait" /\ wg = 0 /\ xpc' = "done"
  /\ UNCHANGED <<xin, invs, xnext, worker, failed, sem, wg, printed, firstErr>>

XargsStep ==
  \/ RunNext \/ Continue \/ LoopEnds \/ Spawn \/ WaitAll
  \/ \E i \in DOMAIN worker : Exec(i) \/ CommandEnds(i) \/ Flush(i) \/ Release(i) \/ WorkerDone(i)

XargsNext == XargsStart \/ XargsStep

(* Every goroutine is scheduled, and every command ends.                   *)
XargsFairness == WF_xvars(XargsStep)
XargsSpec == XargsInit /\ [][XargsNext]_xvars /\ XargsFairness

-----------------------------------------------------------------------------
(* Properties. *)

XargsTypeOK ==
  /\ xpc \in {"new", "loop", "wait", "done"}
  /\ xin \in XargsInputs \cup {NoInput}
  /\ xnext \in 1 .. Len(invs) + 1
  /\ worker \in [DOMAIN invs ->
       {"none", "spawned", "running", "ended", "flushed", "released", "over"}]
  /\ failed \subseteq DOMAIN invs
  /\ sem \in Nat /\ wg \in Nat
  /\ printed \in Seq(DOMAIN invs) /\ firstErr \in 0 .. Len(invs)

(* Never are more commands under way than -P allows, nor, with -P 0, than  *)
(* there are CPUs: not even while others are starting or being reported.   *)
ChildrenBounded ==
  Cardinality({i \in DOMAIN worker : worker[i] = "running"}) <=
    IF xin.opts.maxProcs > 0 THEN xin.opts.maxProcs
    ELSE IF NumCPU < 1 THEN 1 ELSE NumCPU

(* When xargs ends no command is left running, what each has printed came  *)
(* out whole and once, and it ends with an error just when a command       *)
(* failed: the one whose output was the first of the failing ones.         *)
AllReported ==
  xpc = "done" =>
    /\ \A i \in DOMAIN worker : worker[i] \in {"none", "over"}
    /\ IsInjective(printed)
    /\ {i \in DOMAIN worker : worker[i] = "over"} = ToSet(printed)
    /\ Parallel => \A i \in DOMAIN invs : worker[i] = "over"
    /\ IF failed = {} THEN firstErr = 0
       ELSE \E k \in DOMAIN printed :
              /\ printed[k] = firstErr /\ firstErr \in failed
              /\ \A j \in 1 .. k - 1 : printed[j] \notin failed

(* batch gives every item to one invocation, in their order; an invocation *)
(* stays within -n, -L and -s (unless one item is too long by itself), and *)
(* ends only where the next item would have broken one of them.            *)
Fits(in, group) ==
  LET o == in.opts IN
  /\ o.maxArgs  > 0 => Len(group) <= o.maxArgs
  /\ o.maxLines > 0 => Cardinality({LineOf(in, i) : i \in ToSet(group)}) <= o.maxLines
  /\ o.maxChars > 0 => Len(group) = 1 \/ CharLen(in, group) <= o.maxChars

Successive(group) == group # <<>> /\ \A j \in DOMAIN group : group[j] = group[1] + j - 1
Greedy(in, groups, n) ==
  /\ groups # <<>> /\ \A k \in DOMAIN groups : Successive(groups[k]) /\ Fits(in, groups[k])
  /\ \A k \in DOMAIN groups : groups[k][1] = IF k = 1 THEN 1 ELSE Last(groups[k - 1]) + 1
  /\ Last(Last(groups)) = n
  /\ \A k \in 1 .. Len(groups) - 1 : ~Fits(in, Append(groups[k], groups[k + 1][1]))
BatchesAreGreedy ==
  xin.items # <<>> /\ ~xin.opts.replace => Greedy(xin, invs, Len(xin.items))

(* Every item is in one command, the commands run at once within the       *)
(* limit, and each is reported.                                            *)
XargsRunsAll == BatchesAreGreedy /\ ChildrenBounded /\ AllReported

(* xargs ends when its commands do; a token is not lost to a goroutine     *)
(* that has ended.                                                         *)
XargsEnds == xpc = "loop" ~> xpc = "done"
=============================================================================
