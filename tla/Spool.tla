-------------------------------- MODULE Spool --------------------------------
(***************************************************************************)
(* The print queue (printutils): lpr puts a file into the spool directory  *)
(* as a data file dfNNNN and then a control file cfNNNN, lpd writes the    *)
(* jobs it finds into the output directory and removes their files.  There *)
(* is no lock.  One lpr and one lpd run at a time, step by step beside     *)
(* each other, and each may meet an error or be killed at any step; lpq    *)
(* only looks.                                                             *)
(*                                                                         *)
(* A file stands for its name and for what it holds.                       *)
(***************************************************************************)
EXTENDS Integers, Sequences, FiniteSetsExt, Functions

CONSTANTS
  PrintFiles,  \* the files to be printed, no two of one base name
  MaxLpds      \* bound: how often lpd is run

ASSUME SpoolAssumption == "part" \notin PrintFiles /\ MaxLpds \in Nat

VARIABLES
  cf, df,    \* control files: the job's file; data files: what they hold
  prints,    \* the output directory, by the pairs of id and name
  lpr, lpd,  \* the two programs
  queued,    \* the files of which lpr has said that they are queued
  taken,     \* the files lpr was given so far
  lpds       \* how often lpd was run

spvars == <<cf, df, prints, lpr, lpd, queued, taken, lpds>>

Half    == "part"   \* what a file holds that is created and not yet written
Nobody  == [pc |-> "gone", unread |-> {}, jobs |-> {}, file |-> Half, id |-> 0]
Store(f, x, v) == [y \in DOMAIN f \cup {x} |-> IF y = x THEN v ELSE f[y]]
Without(f, x)  == Restrict(f, DOMAIN f \ {x})

SpoolInit ==
  /\ cf = [i \in {} |-> Half] /\ df = cf /\ prints = cf
  /\ lpr = Nobody /\ lpd = Nobody /\ queued = {} /\ taken = {} /\ lpds = 0

-----------------------------------------------------------------------------
(* list: the names of the control files, and then one file after the       *)
(* other.  One that is gone by then, or half written, makes all of it fail.*)

ReadDir(p)  == [p EXCEPT !.pc = "list", !.unread = DOMAIN cf, !.jobs = {}]
ListOne(p, i) ==
  IF i \in DOMAIN cf /\ cf[i] # Half
  THEN [p EXCEPT !.unread = @ \ {i}, !.jobs = @ \cup {<<i, cf[i]>>}]
  ELSE Nobody

LprStart(f) ==
  /\ lpr.pc = "gone" /\ f \notin taken
  /\ lpr' = [ReadDir(lpr) EXCEPT !.file = f] /\ taken' = taken \cup {f}
  /\ UNCHANGED <<cf, df, prints, lpd, queued, lpds>>

LprList ==
  /\ lpr.pc = "list"
  /\ \E i \in lpr.unread : lpr' = ListOne(lpr, i)
  /\ UNCHANGED <<cf, df, prints, lpd, queued, taken, lpds>>

CountID(jobs) == Cardinality(jobs) + 1     \* mutant: jobs are counted
NextID(jobs) == Max({0} \cup {j[1] : j \in jobs}) + 1

CreateData ==
  /\ lpr.pc = "list" /\ lpr.unread = {}
  /\ lpr' = [lpr EXCEPT !.pc = "copy", !.id = NextID(lpr.jobs)]
  /\ df' = Store(df, lpr'.id, Half)
  /\ UNCHANGED <<cf, prints, lpd, queued, taken, lpds>>

CopyData ==
  /\ lpr.pc = "copy" /\ lpr' = [lpr EXCEPT !.pc = "control"]
  /\ df' = IF lpr.id \in DOMAIN df THEN Store(df, lpr.id, lpr.file) ELSE df
  /\ UNCHANGED <<cf, prints, lpd, queued, taken, lpds>>

(* os.WriteFile creates the control file and then writes it.               *)
CreateControl ==
  /\ lpr.pc = "control" /\ lpr' = [lpr EXCEPT !.pc = "write"]
  /\ cf' = Store(cf, lpr.id, Half)
  /\ UNCHANGED <<df, prints, lpd, queued, taken, lpds>>

WriteControl ==
  /\ lpr.pc = "write" /\ lpr' = Nobody
  /\ cf' = IF lpr.id \in DOMAIN cf THEN Store(cf, lpr.id, lpr.file) ELSE cf
  /\ queued' = queued \cup {lpr.file}
  /\ UNCHANGED <<df, prints, lpd, taken, lpds>>

-----------------------------------------------------------------------------
(* lpd. *)

LpdStart ==
  /\ lpd.pc = "gone" /\ lpds < MaxLpds /\ lpds' = lpds + 1
  /\ lpd' = ReadDir(lpd)
  /\ UNCHANGED <<cf, df, prints, lpr, queued, taken>>

LpdList ==
  /\ lpd.pc = "list"
  /\ \E i \in lpd.unread : lpd' = ListOne(lpd, i)
  /\ UNCHANGED <<cf, df, prints, lpr, queued, taken, lpds>>

Listed ==
  /\ lpd.pc = "list" /\ lpd.unread = {}
  /\ lpd' = [lpd EXCEPT !.pc = "next"]
  /\ UNCHANGED <<cf, df, prints, lpr, queued, taken, lpds>>

(* The job with the lowest id; its data file may be missing.               *)
Target == <<lpd.id, lpd.file>>
OpenJob ==
  /\ lpd.pc = "next" /\ lpd.jobs # {}
  /\ LET j == CHOOSE k \in lpd.jobs : \A m \in lpd.jobs : k[1] <= m[1]
         next == [lpd EXCEPT !.jobs = @ \ {j}]
     IN  IF j[1] \in DOMAIN df
         THEN /\ lpd' = [next EXCEPT !.pc = "print", !.id = j[1], !.file = j[2]]
              /\ prints' = Store(prints, j, Half)
         ELSE lpd' = next /\ UNCHANGED prints
  /\ UNCHANGED <<cf, df, lpr, queued, taken, lpds>>

PrintJob ==
  /\ lpd.pc = "print" /\ lpd' = [lpd EXCEPT !.pc = "remove"]
  /\ prints' = Store(prints, Target, df[lpd.id])
  /\ UNCHANGED <<cf, df, lpr, queued, taken, lpds>>

(* An error of the first removal is not looked at.                         *)
RemoveData ==
  /\ lpd.pc = "remove" /\ lpd' = [lpd EXCEPT !.pc = "forget"]
  /\ df' \in {df, Without(df, lpd.id)}
  /\ UNCHANGED <<cf, prints, lpr, queued, taken, lpds>>

RemoveControl ==
  /\ lpd.pc = "forget" /\ lpd' = [lpd EXCEPT !.pc = "next"]
  /\ cf' = Without(cf, lpd.id)
  /\ UNCHANGED <<df, prints, lpr, queued, taken, lpds>>

LpdReturns ==
  /\ lpd.pc = "next" /\ lpd.jobs = {} /\ lpd' = Nobody
  /\ UNCHANGED <<cf, df, prints, lpr, queued, taken, lpds>>

(* An error or a kill ends lpr; an error ends lpd's job, a kill lpd.       *)
LprFails ==
  /\ lpr.pc # "gone" /\ lpr' = Nobody
  /\ UNCHANGED <<cf, df, prints, lpd, queued, taken, lpds>>
LpdFails ==
  /\ lpd.pc # "gone"
  /\ lpd' \in {Nobody} \cup IF lpd.pc = "list" THEN {} ELSE {[lpd EXCEPT !.pc = "next"]}
  /\ UNCHANGED <<cf, df, prints, lpr, queued, taken, lpds>>

SpoolNext ==
  \/ (\E f \in PrintFiles : LprStart(f))
  \/ LprList \/ CreateData \/ CopyData \/ CreateControl \/ WriteControl \/ LprFails
  \/ LpdStart \/ LpdList \/ Listed \/ OpenJob \/ PrintJob \/ RemoveData \/ RemoveControl
  \/ LpdReturns \/ LpdFails
SpoolSpec == SpoolInit /\ [][SpoolNext]_spvars

-----------------------------------------------------------------------------
(* Properties. *)

(* "The control and data files are removed only after the payload is       *)
(* written, so a failed print leaves the job queued": whoever fails or is  *)
(* killed in between, what lpr has queued is in the queue or printed, and  *)
(* whole, though ids are used again and lpr looks while lpd removes.       *)
InQueue(f) == \E i \in DOMAIN cf \cap DOMAIN df : cf[i] = f /\ df[i] = f
IsPrinted(f) == \E t \in DOMAIN prints : t[2] = f /\ prints[t] = f
JobsKept == \A f \in queued : InQueue(f) \/ IsPrinted(f)
=============================================================================
