------------------------------- MODULE Lcksum -------------------------------
(****************************************************************************)
(* lcksum checks the lines of transcripts against the files of their        *)
(* loadsets, and brings them up to date (lcksum.c).                         *)
(*                                                                          *)
(* A transcript is copied line by line to a temporary file that takes its   *)
(* place.  stdio buffers the copy, and nothing closes the stream: until     *)
(* exit() any part of it may have reached the disk.                         *)
(****************************************************************************)
EXTENDS LoadSets

VARIABLES
  ckOpt,   \* update (no -n), all (-a), prefix: the paths that match -P, the transcripts
  ck,      \* pc, the transcript, the line, prepath, ucount, exitval, err of main()
  copy,    \* what has been written to the temporary file
  pending, \* pending[t]: the copies that took the place of transcripts, << >> if none
  found,   \* the transcripts as lcksum found them
  ckExit

ckOwn  == <<ckOpt, ck, copy, pending, found, ckExit>>
ckVars == <<repository, ckOwn, faults>>

CkOptions == [update : BOOLEAN, all : BOOLEAN, prefix : SUBSET Path, targets : Seq(Tran)]

CkAt(pc)   == ck.pc = pc
Leave(status) == ck' = [ck EXCEPT !.pc = "exit", !.err = status]

T == ckOpt.targets[ck.n]
Row == tran[T][ck.at]
-----------------------------------------------------------------------------
(* main() and the head of do_lcksum(), for the next transcript              *)
CkOpen ==
  /\ CkAt("next")
  /\ ck' = IF ck.n > Len(ckOpt.targets) THEN [ck EXCEPT !.pc = "exit"]
           ELSE [ck EXCEPT !.pc = "line", !.at = 1, !.pre = 0, !.ucount = 0, !.exitval = 0]
  /\ copy' = <<>>
  /\ UNCHANGED <<repository, ckOpt, pending, found, ckExit, faults>>

Copied(l) ==
  /\ copy' = IF ckOpt.update THEN Append(copy, l) ELSE copy
  /\ UNCHANGED ckExit

(* A line that cannot be checked.  With -a the closed stream is read again, *)
(* and closed again if that is survived.                                    *)
BadLine ==
  /\ copy' = copy
  /\ IF ckOpt.all
     THEN \/ Leave("2") /\ ckExit' = ckExit
          \/ ck' = [ck EXCEPT !.pc = "end", !.exitval = 1] /\ ckExit' = ckExit
          \/ ck' = [ck EXCEPT !.pc = "done"] /\ ckExit' = "crash"
     ELSE Leave("2") /\ ckExit' = ckExit

(* Mutant: the time of the file is not taken over                           *)
RightUntimed(l) == [l EXCEPT !.data = files[T][l.path]]

(* The line as it should be: with the time of the file, unless it has been  *)
(* made without a checksum                                                  *)
Right(l) ==
  [l EXCEPT !.data = files[T][l.path], !.mtime = IF l.data = NoData THEN l.mtime ELSE 2]

(* Mutant: lines that the prefix leaves out are not copied                  *)
OutsideDropped(l) == UNCHANGED <<copy, ckExit>>

Outside(l) == Copied(l)

Check(l, read) ==
  IF l.data = files[T][l.path]
  THEN ck' = read /\ Copied(l)
  ELSE /\ ck' = IF ckOpt.update THEN [read EXCEPT !.ucount = @ + 1] ELSE [read EXCEPT !.exitval = 1]
       /\ Copied(Right(l))

(* One turn of the loop                                                     *)
CkLine ==
  /\ CkAt("line") /\ ck.at <= Len(tran[T])
  /\ LET l == Row
         next == [ck EXCEPT !.at = @ + 1]
         read == [next EXCEPT !.pre = l.path]
     IN  IF l.path \notin ckOpt.prefix THEN ck' = next /\ Outside(l)
         ELSE IF l.path <= ck.pre THEN Leave("2") /\ UNCHANGED <<copy, ckExit>>
         ELSE IF l.type # "f" \/ l.minus THEN ck' = read /\ Copied(l)
         ELSE IF ~IsFile(files[T][l.path]) THEN BadLine
         ELSE Check(l, read)
  /\ UNCHANGED <<repository, ckOpt, pending, found, faults>>

CkEof ==
  /\ CkAt("line") /\ ck.at > Len(tran[T]) /\ T \notin torn
  /\ ck' = [ck EXCEPT !.pc = "end"]
  /\ UNCHANGED <<repository, ckOpt, copy, pending, found, ckExit, faults>>

(* A piece of a line is taken for one that is too long                      *)
CkTorn ==
  /\ CkAt("line") /\ ck.at > Len(tran[T]) /\ T \in torn
  /\ BadLine
  /\ UNCHANGED <<repository, ckOpt, pending, found, faults>>

(* What main() does with the result: without updates it stops at the first  *)
(* transcript that is wrong                                                 *)
Returned(n) ==
  IF n = 1 /\ ~ckOpt.update THEN Leave("1")
  ELSE ck' = [ck EXCEPT !.pc = "next", !.n = @ + 1, !.err = IF n = 1 THEN "1" ELSE @]

(* The copy is removed, or takes the place of the transcript                *)
CkEnd ==
  /\ CkAt("end")
  /\ IF ckOpt.update /\ ck.ucount > 0
     THEN /\ Partly(T, copy)
          /\ pending' = [pending EXCEPT ![T] = copy]
          /\ Returned(1)
     ELSE /\ UNCHANGED <<tran, torn, pending>>
          /\ Returned(ck.exitval)
  /\ UNCHANGED <<files, ckOpt, copy, found, ckExit, faults>>

(* exit() writes what is left of every copy, and does not tell if it cannot *)
CkFinish ==
  /\ CkAt("exit")
  /\ ck' = [ck EXCEPT !.pc = "done"] /\ ckExit' = ck.err
  /\ \E lost \in SUBSET { t \in Tran : pending[t] # <<>> } :
       /\ lost # {} => faults < MaxFaults
       /\ faults' = IF lost = {} THEN faults ELSE faults + 1
       /\ tran' = [t \in Tran |-> IF pending[t] = <<>> \/ t \in lost THEN tran[t] ELSE pending[t]]
       /\ torn' = { t \in torn : pending[t] = <<>> \/ t \in lost }
  /\ UNCHANGED <<files, ckOpt, copy, pending, found>>

(* A call fails, or the process is killed                                   *)
CkFails ==
  /\ ck.pc \in {"next", "line", "end"} /\ faults < MaxFaults
  /\ Leave("2") /\ faults' = faults + 1
  /\ UNCHANGED <<repository, ckOpt, copy, pending, found, ckExit>>

CkKilled ==
  /\ ck.pc \in {"next", "line", "end", "exit"} /\ faults < MaxFaults
  /\ ck' = [ck EXCEPT !.pc = "done"] /\ ckExit' = "killed" /\ faults' = faults + 1
  /\ UNCHANGED <<repository, ckOpt, copy, pending, found>>

CkStep == CkOpen \/ CkLine \/ CkEof \/ CkTorn \/ CkEnd \/ CkFinish
CkNext == CkStep \/ CkFails \/ CkKilled

(* lcksum [options] transcripts...; called by module Tools                  *)
CkIdle(o) ==
  /\ ckOpt = o
  /\ ck = [pc |-> "idle", n |-> 1, at |-> 1, pre |-> 0, ucount |-> 0, exitval |-> 0, err |-> "0"]
  /\ copy = <<>> /\ pending = [t \in Tran |-> <<>>]
  /\ found = tran /\ ckExit = "none"

CkStart ==
  /\ CkAt("idle")
  /\ ck' = [ck EXCEPT !.pc = "next"]
  /\ found' = tran
  /\ UNCHANGED <<repository, ckOpt, copy, pending, ckExit, faults>>

CkState ==
  [pc : {"idle", "next", "line", "end", "exit", "done"}, n : Nat \ {0}, at : Nat \ {0},
   pre : Path \cup {0}, ucount : Nat, exitval : {0, 1}, err : {"0", "1", "2"}]

CkTypeOK ==
  /\ ckOpt \in CkOptions /\ (ckOpt.all => ~ckOpt.update)
  /\ ck \in CkState
  /\ ck.pc \in {"line", "end"} => ck.n <= Len(ckOpt.targets)
  /\ copy \in Seq(Line) /\ pending \in [Tran -> Seq(Line)] /\ found \in [Tran -> Seq(Line)]
  /\ ckExit \in {"none", "0", "1", "2", "crash", "killed"} /\ (ckExit = "none" <=> ck.pc # "done")
-----------------------------------------------------------------------------
(* What lcksum(1) promises, of whole transcripts                            *)

Targets    == { ckOpt.targets[m] : m \in DOMAIN ckOpt.targets }
Within(t)  == { k \in DOMAIN found[t] : found[t][k].path \in ckOpt.prefix }
Checked(t) == Within(t) \cap FileLines(found[t])

Faulty(t) ==
  \/ \E k, m \in Within(t) : k < m /\ found[t][m].path <= found[t][k].path
  \/ \E k \in Checked(t) : ~IsFile(files[t][found[t][k].path])
Differs(t) == \E k \in Checked(t) : found[t][k].data # files[t][found[t][k].path]

(* "updated using the checksum, file size and modification time of the      *)
(* actual file"                                                             *)
UpToDate(t) ==
  [k \in DOMAIN found[t] |->
     IF k \in Checked(t) /\ found[t][k].data # files[t][found[t][k].path]
     THEN [found[t][k] EXCEPT !.data = files[t][found[t][k].path], !.mtime = 2]
     ELSE found[t][k]]

(* The same, but for the time in lines that have been made without a        *)
(* checksum.  There lcksum writes what was in the line ("use mtime from     *)
(* transcript", against the manual), and nothing is said about it here.     *)
Updated(lines, t) ==
  /\ DOMAIN lines = DOMAIN found[t]
  /\ \A k \in DOMAIN lines :
       \/ lines[k] = UpToDate(t)[k]
       \/ k \in Checked(t) /\ found[t][k].data = NoData /\ lines[k] = [UpToDate(t)[k] EXCEPT !.mtime = 1]

(* 0: "Transcript was verified", whatever has failed                        *)
ZeroMeansVerified ==
  ckExit = "0" => \A t \in Targets :
    ~Faulty(t) /\ ~Differs(t) /\ tran[t] = found[t]

(* -n: nothing changes; 0 is for transcripts that are all right, and no     *)
(* status is without its reason.  Which one it is if one transcript differs *)
(* and another is faulty is not said: the manual has all of them verified,  *)
(* lcksum stops at the first.                                               *)
VerifyWhole ==
  ~ckOpt.update =>
    /\ tran = found
    /\ ckExit = "0" <=> \A t \in Targets : ~Faulty(t) /\ ~Differs(t)
    /\ ckExit = "1" => \E t \in Targets : Differs(t)
    /\ ckExit = "2" => \E t \in Targets : Faulty(t)

(* Updates end at the first transcript with an error (one more than the     *)
(* last if there is none) ...                                               *)
FirstFaulty ==
  LET ends == { m \in DOMAIN ckOpt.targets : Faulty(ckOpt.targets[m]) }
  IN  IF ends = {} THEN Len(ckOpt.targets) + 1 ELSE CHOOSE m \in ends : \A q \in ends : m <= q

(* ... or where one is named again that has been updated: its copy may not  *)
(* be on disk yet, and end in the middle of a line                          *)
UpdatedBefore(m) ==
  Differs(ckOpt.targets[m]) /\ \E q \in 1..(m - 1) : ckOpt.targets[q] = ckOpt.targets[m]

Ends == {FirstFaulty} \cup { m \in 1..(FirstFaulty - 1) : UpdatedBefore(m) }

(* Those before the one where it ends are up to date, all others as they    *)
(* were                                                                     *)
UpdateWhole ==
  ckOpt.update => \E s \in Ends :
    /\ ckExit = IF s <= Len(ckOpt.targets) THEN "2" ELSE IF \E t \in Targets : Differs(t) THEN "1" ELSE "0"
    /\ \A t \in Tran :
         IF \E m \in 1..(s - 1) : ckOpt.targets[m] = t THEN Updated(tran[t], t) ELSE tran[t] = found[t]

(* If nothing of the system fails, the status and all transcripts are as    *)
(* they should be: what lcksum(1) says, where lcksum follows it             *)
CksumWhole == ckExit # "none" /\ faults = 0 /\ ~ckOpt.all => VerifyWhole /\ UpdateWhole

CksumExact == ZeroMeansVerified /\ CksumWhole

(* At any moment each transcript is the old one, or has been replaced by    *)
(* the beginning of one that is as it should be, whose rest exit() writes:  *)
(* if lcksum is killed before, or exit() fails, it stays cut off            *)
OldOrNew ==
  ck.pc # "idle" => \A t \in Tran :
    /\ pending[t] = <<>> => tran[t] = found[t]
    /\ pending[t] # <<>> =>
         /\ t \in Targets /\ ~Faulty(t) /\ Differs(t) /\ Updated(pending[t], t)
         /\ \E k \in 0..Len(pending[t]) : tran[t] = SubSeq(pending[t], 1, k)
    /\ ~ckOpt.update => tran[t] = found[t]
=============================================================================
