-------------------------------- MODULE Mbsh --------------------------------
(***************************************************************************)
(* mbsh (shellutils/mbsh): a line is parsed into pipelines, which run one  *)
(* after the other; the commands of one pipeline run at once, joined by    *)
(* pipes whose ends the shell has to close after it has started them.      *)
(*                                                                         *)
(* A token is an operator or a word.  The first word of a command says     *)
(* how it behaves: "emit" writes Chunks chunks, "copy" reads to the end    *)
(* and writes what it reads, "drain" reads to the end, "brief" ends without *)
(* reading, "broken" cannot be started, "lost" cannot be found; "exit" and *)
(* "cd" are builtins.  A file "bad" cannot be opened.                      *)
(***************************************************************************)
EXTENDS Integers, SequencesExt

CONSTANTS
  Scripts,   \* the inputs of a shell: [lines, pipes]: token sequences, and
             \* how many pipes the shell can open
  Chunks,    \* bound: chunks that "emit" writes
  Capacity   \* bound: chunks that fit into a pipe

RedirOps == {"<", ">", ">>"}
Ops      == RedirOps \cup {";", "|"}
Assigns  == {"v=1"}
Words    == {"emit", "copy", "drain", "brief", "broken", "lost", "exit", "cd",
             "file", "bad"} \cup Assigns

ASSUME ScriptAssumption ==
  \A s \in Scripts : s.lines \in Seq(Seq(Ops \cup Words)) /\ s.pipes \in Nat
ASSUME PipeAssumption == Chunks \in Nat /\ Capacity \in Nat \ {0}

VARIABLES
  bpc,       \* "new", "line", "next", "start", "close", "wait" or "done"
  script,    \* the input, and what parse makes of each line
  bline,     \* the line the shell is at
  list, bk,  \* its pipelines, and the one that is run
  stage,     \* each command of it: "none", "running", "unstarted" or "ended"
  outcome,   \* the exit status of each
  left,      \* chunks that each has still to write
  buf,       \* chunks in each pipe
  wend, rend,\* who holds the ends of each pipe: "shell" and "stage"
  redirected, \* whether files of redirections are open in the shell
  status,    \* $?
  stop,      \* exit was executed
  code       \* the exit status of mbsh itself, -1 before it ends

bvars == <<bpc, script, bline, list, bk, stage, outcome, left, buf, wend, rend,
           redirected, status, stop, code>>

-----------------------------------------------------------------------------
(* parse. *)

NoCommand == [args |-> <<>>, assigns |-> 0, redirs |-> <<>>]
Blank == [list |-> <<>>, pl |-> <<>>, cmd |-> NoCommand, op |-> "none", ok |-> TRUE]

FinishCmd(s) ==
  IF s.cmd = NoCommand THEN [s EXCEPT !.ok = FALSE]
  ELSE [s EXCEPT !.pl = Append(@, s.cmd), !.cmd = NoCommand]

FinishPipeline(s) ==
  LET f == FinishCmd(s)
  IN  IF f.ok THEN [f EXCEPT !.list = Append(@, f.pl), !.pl = <<>>] ELSE f

TakeToken(s, t) ==
  CASE ~s.ok           -> s
    [] s.ok /\ s.op # "none"  -> IF t \in Ops THEN [s EXCEPT !.ok = FALSE]
                          ELSE [s EXCEPT !.cmd.redirs = Append(@, <<s.op, t>>), !.op = "none"]
    [] s.ok /\ s.op = "none" /\ t \in RedirOps -> [s EXCEPT !.op = t]
    [] s.ok /\ s.op = "none" /\ t = "|"        -> FinishCmd(s)
    [] s.ok /\ s.op = "none" /\ t = ";"        -> FinishPipeline(s)
    [] s.ok /\ s.op = "none" /\ t \in Words    ->
         IF t \in Assigns /\ s.cmd.args = <<>> THEN [s EXCEPT !.cmd.assigns = @ + 1]
                                               ELSE [s EXCEPT !.cmd.args = Append(@, t)]

FinishLineUnlessEmpty(s) ==   \* mutant: a pipe at the end of a line is forgotten
  IF ~s.ok \/ s.op # "none" THEN [s EXCEPT !.ok = FALSE]
  ELSE IF s.cmd = NoCommand THEN s ELSE FinishPipeline(s)

FinishLine(s) ==
  IF ~s.ok \/ s.op # "none" THEN [s EXCEPT !.ok = FALSE]
  ELSE IF s.cmd = NoCommand /\ s.pl = <<>> THEN s ELSE FinishPipeline(s)

Parse(tokens) ==
  LET after[i \in 0 .. Len(tokens)] == IF i = 0 THEN Blank ELSE TakeToken(after[i - 1], tokens[i])
  IN  FinishLine(after[Len(tokens)])

-----------------------------------------------------------------------------
Cmds   == list[bk]       \* the pipeline under way
StageCount == Len(Cmds)
Stages == 1 .. StageCount
Name(i) == Cmds[i].args[1]
Redirected(i, ops) == \E r \in ToSet(Cmds[i].redirs) : r[1] \in ops
CanOpen(i) == \A r \in ToSet(Cmds[i].redirs) : r[2] # "bad"

NoStages == /\ stage' = <<>> /\ outcome' = <<>> /\ left' = <<>> /\ buf' = <<>>
            /\ wend' = <<>> /\ rend' = <<>> /\ redirected' = FALSE
Pipes == <<stage, outcome, left, buf, wend, rend, redirected>>

MbshInit ==
  /\ bpc = "new" /\ script = [lines |-> <<>>, pipes |-> 0, parsed |-> <<>>]
  /\ bline = 1 /\ list = <<>> /\ bk = 1
  /\ stage = <<>> /\ outcome = <<>> /\ left = <<>> /\ buf = <<>> /\ wend = <<>> /\ rend = <<>>
  /\ redirected = FALSE /\ status = 0 /\ stop = FALSE /\ code = -1

MbshStart ==
  /\ bpc = "new" /\ bpc' = "line" 
  /\ \E s \in Scripts :
       script' = [lines |-> s.lines, pipes |-> s.pipes,
                  parsed |-> [i \in DOMAIN s.lines |-> Parse(s.lines[i])]]
  /\ UNCHANGED <<bline, list, bk, status, stop, code, Pipes>>

(* Interpret: the next line; at the end of input the shell returns, and    *)
(* Run reports success whatever the last status was.                       *)
ReadLine ==
  /\ bpc = "line"
  /\ IF bline > Len(script.lines) \/ stop
       THEN bpc' = "done" /\ code' = 0 /\ UNCHANGED <<bline, list, bk, status>>
       ELSE LET p == script.parsed[bline] IN
            /\ bline' = bline + 1 /\ bk' = 1 /\ UNCHANGED code
            /\ IF p.ok THEN list' = p.list /\ bpc' = "next" /\ UNCHANGED status
                       ELSE list' = <<>> /\ bpc' = "line" /\ status' = 2
  /\ UNCHANGED <<script, stop, Pipes>>

(* execList: on to the next pipeline, unless exit was executed.            *)
Finished(s) ==
  /\ status' = s /\ bk' = bk + 1 /\ bpc' = "next"

EndOfList ==
  /\ bpc = "next" /\ (bk > Len(list) \/ stop)
  /\ bpc' = "line"
  /\ UNCHANGED <<script, bline, list, bk, status, stop, code, Pipes>>

(* execSimple, for a pipeline of one command.                              *)
RunSimple ==
  /\ bpc = "next" /\ bk <= Len(list) /\ ~stop /\ StageCount = 1
  /\ IF ~CanOpen(1) THEN Finished(1) /\ UNCHANGED stop
     ELSE IF Cmds[1].args = <<>> THEN Finished(0) /\ UNCHANGED stop
     ELSE CASE Name(1) = "exit"               -> Finished(0) /\ stop' = TRUE
            [] Name(1) \in {"lost", "broken"} -> Finished(127) /\ UNCHANGED stop
            [] OTHER                          -> (Finished(0) \/ Finished(1)) /\ UNCHANGED stop
  /\ UNCHANGED <<script, bline, list, code, Pipes>>

(* execPipeline up to the starts.  Nothing is open when a command is       *)
(* missing or cannot be found; a pipe or a file that cannot be opened      *)
(* closes all those that are.                                              *)
Refusal ==
  CASE \E i \in Stages : Cmds[i].args = <<>> \/ Name(i) = "lost" ->
         LET i == CHOOSE j \in Stages :
                    /\ Cmds[j].args = <<>> \/ Name(j) = "lost"
                    /\ \A k \in 1 .. j - 1 : Cmds[k].args # <<>> /\ Name(k) # "lost"
         IN  IF Cmds[i].args = <<>> THEN 2 ELSE 127
    [] OTHER -> IF script.pipes < StageCount - 1 \/ \E i \in Stages : ~CanOpen(i) THEN 1 ELSE 0

RefusePipeline ==
  /\ bpc = "next" /\ bk <= Len(list) /\ ~stop /\ StageCount > 1 /\ Refusal # 0
  /\ Finished(Refusal)
  /\ UNCHANGED <<script, bline, list, stop, code, Pipes>>

WirePipeline ==
  /\ bpc = "next" /\ bk <= Len(list) /\ ~stop /\ StageCount > 1 /\ Refusal = 0
  /\ bpc' = "start"
  /\ stage' = [i \in Stages |-> "none"] /\ outcome' = [i \in Stages |-> 0]
  /\ left' = [i \in Stages |-> IF Name(i) = "emit" THEN Chunks ELSE 0]
  /\ buf' = [i \in 1 .. StageCount - 1 |-> 0]
  /\ wend' = [i \in 1 .. StageCount - 1 |-> {"shell"}] /\ rend' = [i \in 1 .. StageCount - 1 |-> {"shell"}]
  /\ redirected' = \E i \in Stages : Cmds[i].redirs # <<>>
  /\ UNCHANGED <<script, bline, list, bk, status, stop, code>>

(* A stage that writes into a pipe, or reads from one: a redirection takes *)
(* the place of the pipe.                                                  *)
WritesPipe(i) == i < StageCount /\ ~Redirected(i, {">", ">>"})
ReadsPipe(i)  == i > 1 /\ ~Redirected(i, {"<"})

(* The stages are started in order; one that does not start is reported    *)
(* and the others run all the same.                                        *)
StartStage(i) ==
  /\ bpc = "start" /\ stage[i] = "none" /\ \A k \in 1 .. i - 1 : stage[k] # "none"
  /\ IF Name(i) = "broken"
       THEN stage' = [stage EXCEPT ![i] = "unstarted"] /\ UNCHANGED <<wend, rend>>
       ELSE /\ stage' = [stage EXCEPT ![i] = "running"]
            /\ wend' = IF WritesPipe(i) THEN [wend EXCEPT ![i] = @ \cup {"stage"}] ELSE wend
            /\ rend' = IF ReadsPipe(i) THEN [rend EXCEPT ![i - 1] = @ \cup {"stage"}] ELSE rend
  /\ bpc' = IF i = StageCount THEN "close" ELSE bpc
  /\ UNCHANGED <<script, bline, list, bk, outcome, left, buf, redirected, status, stop, code>>

CloseReadEnds ==   \* mutant: the write ends stay open in the shell
  /\ bpc = "close" /\ bpc' = "wait"
  /\ rend' = [i \in DOMAIN rend |-> rend[i] \ {"shell"}]
  /\ UNCHANGED <<script, bline, list, bk, stage, outcome, left, buf, wend, redirected, status, stop, code>>

CloseEnds ==
  /\ bpc = "close" /\ bpc' = "wait"
  /\ wend' = [i \in DOMAIN wend |-> wend[i] \ {"shell"}]
  /\ rend' = [i \in DOMAIN rend |-> rend[i] \ {"shell"}]
  /\ UNCHANGED <<script, bline, list, bk, stage, outcome, left, buf, redirected, status, stop, code>>

StatusOfLast == IF stage[StageCount] = "unstarted" THEN 127 ELSE outcome[StageCount]

(* Every stage is awaited; the last one's status is the pipeline's.        *)
WaitStages ==
  /\ bpc = "wait" /\ \A i \in Stages : stage[i] # "running"
  /\ Finished(StatusOfLast) /\ NoStages
  /\ UNCHANGED <<script, bline, list, stop, code>>

-----------------------------------------------------------------------------
(* What the commands do with their ends of the pipes.                      *)

Ends(i, s) ==
  /\ stage' = [stage EXCEPT ![i] = "ended"] /\ outcome' = [outcome EXCEPT ![i] = s]
  /\ wend' = IF i < StageCount THEN [wend EXCEPT ![i] = @ \ {"stage"}] ELSE wend
  /\ rend' = IF i > 1 THEN [rend EXCEPT ![i - 1] = @ \ {"stage"}] ELSE rend
  /\ UNCHANGED <<left, buf>>

AtEOF(i)    == ReadsPipe(i) => buf[i - 1] = 0 /\ wend[i - 1] = {}
CanWrite(i) == WritesPipe(i) => rend[i] # {} /\ buf[i] < Capacity
Put(b, i)   == IF WritesPipe(i) THEN [b EXCEPT ![i] = @ + 1] ELSE b
Take(b, i)  == IF ReadsPipe(i) THEN [b EXCEPT ![i - 1] = @ - 1] ELSE b

(* Writing into a pipe that nobody can read kills the writer.              *)
StageStep(i) ==
  /\ i \in DOMAIN stage /\ stage[i] = "running"
  /\ \/ Name(i) \notin {"emit", "copy", "drain"} /\ (Ends(i, 0) \/ Ends(i, 1))
     \/ Name(i) = "emit" /\ left[i] = 0 /\ Ends(i, 0)
     \/ /\ Name(i) = "emit" /\ left[i] > 0 /\ CanWrite(i)
        /\ left' = [left EXCEPT ![i] = @ - 1] /\ buf' = Put(buf, i)
        /\ UNCHANGED <<stage, outcome, wend, rend>>
     \/ Name(i) \in {"copy", "drain"} /\ AtEOF(i) /\ (Ends(i, 0) \/ Ends(i, 1))
     \/ /\ Name(i) = "copy" /\ ReadsPipe(i) /\ buf[i - 1] > 0 /\ CanWrite(i)
        /\ buf' = Put(Take(buf, i), i) /\ UNCHANGED <<stage, outcome, left, wend, rend>>
     \/ /\ Name(i) = "drain" /\ ReadsPipe(i) /\ buf[i - 1] > 0
        /\ buf' = Take(buf, i) /\ UNCHANGED <<stage, outcome, left, wend, rend>>
     \/ /\ WritesPipe(i) /\ rend[i] = {} /\ Ends(i, -1)
        /\ \/ Name(i) = "emit" /\ left[i] > 0
           \/ Name(i) = "copy" /\ ReadsPipe(i) /\ buf[i - 1] > 0
  /\ UNCHANGED <<bpc, script, bline, list, bk, redirected, status, stop, code>>

ShellStep ==
  \/ ReadLine \/ EndOfList \/ RunSimple \/ RefusePipeline \/ WirePipeline
  \/ CloseEnds \/ WaitStages \/ \E i \in DOMAIN stage : StartStage(i)
MbshStep == ShellStep \/ \E i \in DOMAIN stage : StageStep(i)
MbshNext == MbshStart \/ MbshStep

(* The shell and its commands run; that a command waits for ever is for    *)
(* the pipes to prevent.                                                   *)
MbshFairness == WF_bvars(MbshStep)
MbshSpec == MbshInit /\ [][MbshNext]_bvars /\ MbshFairness

-----------------------------------------------------------------------------
(* Properties. *)

MbshTypeOK ==
  /\ bpc \in {"new", "line", "next", "start", "close", "wait", "done"}
  /\ bline \in Nat /\ bk \in Nat /\ status \in {-1, 0, 1, 2, 127} /\ stop \in BOOLEAN
  /\ code \in {-1, 0} /\ redirected \in BOOLEAN
  /\ \A i \in DOMAIN stage : stage[i] \in {"none", "running", "unstarted", "ended"}
  /\ \A i \in DOMAIN buf : /\ buf[i] \in 0 .. Capacity
                           /\ wend[i] \subseteq {"shell", "stage"}
                           /\ rend[i] \subseteq {"shell", "stage"}

(* Whatever the stages are, whichever of them does not start, and wherever *)
(* redirections go, a line comes to its end: no stage waits for an end of  *)
(* a pipe that nobody will close.                                          *)
LinesEnd == bpc = "next" ~> bpc = "line"

(* The words of a line are in its commands, its pipes join their commands  *)
(* and its separators end their pipelines.                                 *)
Total(v) ==
  LET sum[i \in 0 .. Len(v)] == IF i = 0 THEN 0 ELSE sum[i - 1] + v[i] IN sum[Len(v)]
Occurrences(t, kinds) == Total([i \in DOMAIN t |-> IF t[i] \in kinds THEN 1 ELSE 0])
WordsOf(cmd) == Len(cmd.args) + cmd.assigns + 2 * Len(cmd.redirs)
WordsOfPipeline(pl) == Total([i \in DOMAIN pl |-> WordsOf(pl[i])])
KeepsWords(t, pls) ==
  /\ Occurrences(t, RedirOps \cup Words) = Total([i \in DOMAIN pls |-> WordsOfPipeline(pls[i])])
  /\ Occurrences(t, {"|"}) = Total([i \in DOMAIN pls |-> Len(pls[i]) - 1])
  /\ Occurrences(t, {";"}) = Len(pls) - (IF t = <<>> \/ Last(t) = ";" THEN 0 ELSE 1)

(* parse accepts the lines of the grammar and no other, and keeps every    *)
(* word, pipe and separator: commands are separated by operators and are   *)
(* not empty, but for what follows a last ";"; a redirection has a file.   *)
Wellformed(t) ==
  LET Sep == {";", "|"} IN
  /\ \A i \in DOMAIN t : t[i] \in RedirOps => i < Len(t) /\ t[i + 1] \notin Ops
  /\ \A i \in DOMAIN t : t[i] \in Sep => i > 1 /\ t[i - 1] \notin Sep
  /\ t # <<>> => t[Len(t)] # "|"
ParsesGrammar ==
  \A i \in DOMAIN script.lines :
    /\ script.parsed[i].ok = Wellformed(script.lines[i])
    /\ script.parsed[i].ok => KeepsWords(script.lines[i], script.parsed[i].list)
=============================================================================
