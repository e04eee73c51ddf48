----------------------------- MODULE Reconcile -----------------------------
(****************************************************************************)
(* A client kept up to date: fsdiff -A, then lapply with what it printed,   *)
(* and again when that has failed (ra.sh: auto, and update() as the login   *)
(* hook calls it; module Rash has the rest of the script).                  *)
(*                                                                          *)
(* fsdiff is taken as one step with the result that module TreeDiff         *)
(* defines and that module Fsdiff prints (EditsExact);                      *)
(* lapply is module Lapply, with its failures and crashes.                  *)
(****************************************************************************)
EXTENDS Lapply

CONSTANTS
  TimesIgnored, \* -t of fsdiff
  Top           \* the path fsdiff walks

VARIABLES
  cmd,    \* the command file and its transcripts
  passes  \* how often lapply has been started

Diff == INSTANCE TreeDiff WITH
  opt <- [editPath |-> "applicable", cksum |-> Cksum, prefix |-> Top,
          ignoreTimestamps |-> TimesIgnored]

allVars == <<vars, cmd, passes>>

(* Does t_print() print a header, of the transcript the line is from?       *)
WithHeader(fate, p) ==
  /\ Diff!Managed(p)
  /\ Diff!Outcome(fate, p, FALSE) \in {"download", "statusNeg"}

FromSpecial(p) == Diff!Tran[Diff!Winner(p)].kind = "special"

(* Links that are right but may be made again                               *)
Relinks ==
  LET fate   == Diff!Fate
      wanted == Diff!Wanted
  IN  { p \in Path : /\ Diff!Managed(p) /\ wanted[p] = Diff!NoEdit
                     /\ Diff!Found(fate, p).type = "h" }

(* What fsdiff prints: the edit of each path, in order, under its header    *)
Printout(again) ==
  LET fate   == Diff!Fate
      wanted == Diff!Wanted
      EditOf(p) == IF p \in again THEN Diff!WantedEdit(Missing, p, "status") ELSE wanted[p]
      Upto[p \in 0..NPath] ==
        IF p = 0 THEN [lines |-> <<>>, special |-> FALSE]
        ELSE LET rest == Upto[p - 1]
                 e    == EditOf(p)
                 s    == IF WithHeader(fate, p) THEN FromSpecial(p) ELSE rest.special
             IN  IF e = Diff!NoEdit THEN rest
                 ELSE [lines   |-> Append(rest.lines,
                                     [op |-> e.op, special |-> s, path |-> e.path,
                                      obj |-> e.obj]),
                       special |-> s]
  IN  Upto[NPath].lines

(* Everything is as the transcripts want it                                 *)
InPlace == Diff!Wanted = [p \in Path |-> Diff!NoEdit]

(* "Nothing to apply"                                                       *)
Idling == ~Working /\ InPlace
-----------------------------------------------------------------------------
Clean ==
  /\ ln' = 0 /\ prev' = 0 /\ found' = "X" /\ st' = Missing /\ heads' = <<>>
  /\ phase' = "line" /\ job' = Idle /\ change' = FALSE /\ exit' = "run"

(* fsdiff has found something, and lapply is started with it                *)
Update ==
  /\ ~Working /\ ~InPlace
  /\ \E again \in SUBSET Relinks : plan' = Printout(again)
  /\ pid' \in Pid
  /\ passes' = passes + 1
  /\ Clean
  /\ UNCHANGED <<tree, faults, cmd, opt>>

ReconcileInit ==
  /\ \E s \in Starts : fs = s.fs /\ node = s.node /\ cmd = s.cmd /\ opt = s.opt
  /\ plan = <<>> /\ pid \in Pid
  /\ ln = 0 /\ prev = 0 /\ found = "X" /\ st = Missing /\ heads = <<>>
  /\ phase = "line" /\ job = Idle /\ change = FALSE /\ exit = "0"
  /\ faults = 0 /\ passes = 0

ReconcileNext ==
  \/ Update
  \/ Step /\ UNCHANGED <<cmd, passes>>
  \/ Idling /\ UNCHANGED allVars

ReconcileSpec == ReconcileInit /\ [][ReconcileNext]_allVars
-----------------------------------------------------------------------------
(* lapply can apply whatever fsdiff prints: the order of the lines, the     *)
(* removals put off until a directory is empty, and the temporary files     *)
(* that are left never make a call fail that works by itself                *)
FeasiblePlans == faults = 0 => exit \in {"run", "0"}

(* One pass brings the client there: when lapply says 0, fsdiff has nothing *)
(* to print.  The owner of a link may need another, see Holds.              *)
NothingLeft ==
  exit = "0" /\ passes > 0 =>
    LET wanted == Diff!Wanted
    IN  \A p \in Path : wanted[p] # Diff!NoEdit => wanted[p].obj.type = "l"

(* If nothing fails, one pass of fsdiff and lapply is enough                *)
OnePassEnough == FeasiblePlans /\ NothingLeft

(* Whatever fails or is killed on the way, the client gets where it should  *)
(* be: a pass that does not bring it there is paid for by a fault, or by    *)
(* the temporary file that a fault has left under the name of the next      *)
(* process.  With module Lapply's Ends: the updates come to an end.         *)
PassesPaidFor == passes <= 2 * faults + 1
=============================================================================
