------------------------------- MODULE Tools --------------------------------
(****************************************************************************)
(* The administrator's tools on the repository, one after the other:        *)
(* lmerge makes or changes a loadset, lcksum checks loadsets.               *)
(****************************************************************************)
EXTENDS Lmerge, Lcksum

(* What lcksum does not refuse: -a needs -n                                 *)
ASSUME ToolsAssumption ==
  \A b \in Jobs :
    /\ b.tran \in [Tran -> Seq(Line)] /\ b.files \in [Tran -> FileDir] /\ b.merge \in BOOLEAN
    /\ b.ck \in CkOptions /\ (b.ck.all => ~b.ck.update)

vars == <<repository, mergeOwn, ckOwn, faults>>

Init ==
  \E b \in Jobs :
    /\ MergeInit(b)
    /\ CkIdle(b.ck)

Called == lm.pc \in {"off", "done"} /\ ckOpt.targets # <<>>

Merge == MergeNext /\ UNCHANGED ckOwn
Cksum == Called /\ (CkStart \/ CkNext) /\ UNCHANGED mergeOwn

Next == Merge \/ Cksum

(* A tool that has been called is scheduled                                 *)
Spec ==
  /\ Init /\ [][Next]_vars
  /\ WF_vars(MergeStep /\ UNCHANGED ckOwn)
  /\ WF_vars(Called /\ (CkStart \/ CkStep) /\ UNCHANGED mergeOwn)

TypeOK == MergeTypeOK /\ CkTypeOK /\ torn \in SUBSET Tran
-----------------------------------------------------------------------------
(* What lmerge has made of complete loadsets satisfies lcksum               *)
MergedVerifies ==
  /\ exit = "0" /\ ckExit \in {"0", "1", "2"} /\ faults = 0 /\ ~opt.only /\ InOrder
  /\ ckOpt.targets = <<Dest>>
  /\ \A t \in Reader : Complete(was.tran[t], was.files[t])
  => ckExit = "0"

(* The files of a merged loadset are those that its lines promise, its      *)
(* directories included, and lcksum finds nothing to object to              *)
FilesFollow == FilesPlaced /\ DirsRemoved /\ MergedVerifies

(* However lmerge ends, and at every moment before, no file is lost that a  *)
(* transcript on the server still names                                     *)
NoFileLost == AlwaysBacked /\ (CkAt("idle") => OthersKept)
=============================================================================
