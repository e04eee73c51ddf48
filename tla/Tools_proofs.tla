---------------------------- MODULE Tools_proofs ----------------------------
(****************************************************************************)
(* Theorems about the administrator's tools, for any number of transcripts, *)
(* any lines, file directories and options, and any number of faults.       *)
(****************************************************************************)
EXTENDS Tools, FiniteSetTheorems, SequenceTheorems, WellFoundedInduction, TLAPS

Loop    == {"begin", "select", "compare", "place", "output", "skip"}
HasCand == lm.pc \in {"compare", "place", "output", "skip"}

Found == [tran : [Tran -> Seq(Line)], files : [Tran -> FileDir]]

Types ==
  /\ MergeTypeOK /\ CkTypeOK /\ was \in Found
  /\ HasCand => lm.candidate \in Reader /\ lm.fileloc \in Reader /\ lm.candidate < lm.j
  /\ ~CkAt("idle") => lm.pc \in {"off", "done"}

(* The loadsets that NoFileLost is about, without -f and with it            *)
SafeNew ==
  ~opt.force /\ ~opt.only /\ InOrder /\ \A t \in Tran : Complete(was.tran[t], was.files[t])
SafeOld == opt.force /\ InOrder /\ \A t \in {1, 2} : Backed(was.tran[t], was.files[t])

(* lmerge writes to nothing but its destination, the transcript last        *)
Others ==
  CkAt("idle") =>
    /\ lm.pc = "files" => ~opt.force
    /\ lm.pc = "dirs" => opt.force
    /\ \A t \in Tran \ {Dest} : tran[t] = was.tran[t] /\ files[t] = was.files[t]
    /\ lm.pc \notin {"flush", "done"} => tran = was.tran
    /\ ~opt.force /\ lm.pc \notin {"trans", "flush", "done"} => files[0] = was.files[0]
    /\ opt.force => \A p \in Path :
         Listing(p) = {2} /\ IsFile(was.files[2][p]) => files[2][p] = was.files[2][p]

(* The file directory that goes with what has been written                  *)
Made ==
  IF opt.force THEN files[2] ELSE IF lm.pc \in {"trans", "flush"} THEN files[0] ELSE tmp

PositiveFile(l) == l.type = "f" /\ ~l.minus

(* Files are there before the lines that list them are written              *)
CandPlaced == lm.pc = "output" /\ PositiveFile(Cand) => Made[Cand.path] = Cand.data
CandSource ==
  lm.pc \in {"compare", "place"} /\ PositiveFile(Cand) /\ IsFile(Source) => Source = Cand.data

FilesFirst ==
  (SafeNew \/ SafeOld) /\ lm.pc \notin {"off", "done"} =>
    Backed(out, Made) /\ CandPlaced /\ CandSource

(* With -f: what reader r has still to read is beyond what has been written *)
(* and beyond the candidate, and the files of the second transcript's lines *)
(* that are left have not been touched                                      *)
Rest(r) == rd[r].at..Len(tran[r])

EarlierDone == \A r \in Reader : r < lm.i => Eof(r)
Beyond      == \A k \in DOMAIN out, r \in Reader : \A m \in Rest(r) : out[k].path < tran[r][m].path
CandFirst   ==
  HasCand =>
    /\ lm.fileloc = lm.candidate
    /\ (lm.pc = "compare" => lm.j > opt.n) =>
         \A r \in Reader \ {lm.candidate} : \A m \in Rest(r) : Cand.path < tran[r][m].path
LeftBacked  ==
  \A m \in Rest(2) : PositiveFile(tran[2][m]) => files[2][tran[2][m].path] = tran[2][m].data

InTurn == SafeOld /\ lm.pc \in Loop => EarlierDone /\ Beyond /\ CandFirst /\ LeftBacked

NewBacked == SafeNew => \A t \in Tran : Backed(tran[t], files[t])
OldBacked == CkAt("idle") /\ SafeOld /\ tran[2] # was.tran[2] => Backed(tran[2], files[2])

(* What lcksum makes of a transcript, whose lines are all right: the time   *)
(* of a line that was made without a checksum stays                         *)
Refreshed(t) ==
  [k \in DOMAIN found[t] |->
     IF k \in Checked(t) /\ found[t][k].data # files[t][found[t][k].path]
     THEN [found[t][k] EXCEPT !.data = files[t][found[t][k].path],
                              !.mtime = IF found[t][k].data = NoData THEN @ ELSE 2]
     ELSE found[t][k]]

(* lcksum: what it found, what it has put in the place of transcripts ...   *)
Replaced ==
  \A t \in Tran :
    /\ CkAt("idle") => pending[t] = <<>>
    /\ ~CkAt("idle") /\ pending[t] = <<>> => tran[t] = found[t]
    /\ ~CkAt("idle") /\ pending[t] # <<>> =>
         /\ ckOpt.update /\ t \in Targets /\ ~Faulty(t) /\ Differs(t)
         /\ pending[t] = Refreshed(t)
         /\ Len(tran[t]) <= Len(found[t])
         /\ \A k \in DOMAIN tran[t] : tran[t][k] = Refreshed(t)[k]

(* ... and the copy that it makes of the present one: if that has not been  *)
(* replaced before, the copy is what it should be up to the line lcksum is  *)
(* at, and counts as updated only if a line differs                         *)
CopySoFar ==
  ck.pc \in {"line", "end"} =>
    /\ pending[T] # <<>> => ck.ucount = 0
    /\ pending[T] = <<>> /\ ckOpt.update =>
         /\ ck.at <= Len(tran[T]) + 1 /\ Len(copy) = ck.at - 1
         /\ \A k \in 1..(ck.at - 1) : copy[k] = Refreshed(T)[k]
         /\ \A k \in Within(T) : k < ck.at => found[T][k].path <= ck.pre
         /\ \A k, m \in Within(T) : k < m /\ m < ck.at => found[T][k].path < found[T][m].path
         /\ \A k \in Checked(T) : k < ck.at => IsFile(files[T][found[T][k].path])
         /\ ck.ucount > 0 =>
              \E k \in Checked(T) : k < ck.at /\ found[T][k].data # files[T][found[T][k].path]
         /\ ck.pc = "end" => ck.at = Len(tran[T]) + 1

FoundBacked == ~CkAt("idle") /\ SafeNew => \A t \in Tran : Backed(found[t], files[t])

MInv == Others /\ FilesFirst /\ InTurn /\ NewBacked /\ OldBacked

(* Without a fault, a piece of a line is only in what is still to be        *)
(* written by exit()                                                        *)
TornWhy ==
  /\ torn \subseteq Tran
  /\ faults = 0 => \A t \in torn : pending[t] # <<>> \/ (lm.pc = "flush" /\ t = Dest)

IInv == Types /\ MInv /\ Replaced /\ CopySoFar /\ FoundBacked /\ TornWhy
-----------------------------------------------------------------------------
(* Lines and readers                                                        *)

Merging == lm.pc \notin {"off", "done"}

LEMMA Numbers ==
  ASSUME Types
  PROVE  /\ opt \in Options /\ Legal(opt) /\ NTran \in Nat
         /\ opt.n \in 2..NTran /\ (opt.noupload \/ opt.force => opt.n = 2)
         /\ opt.force \in BOOLEAN /\ opt.only \in BOOLEAN /\ opt.copy \in BOOLEAN
         /\ opt.noupload \in BOOLEAN
         /\ Reader \subseteq 1..NTran /\ Reader \subseteq Tran \ {0}
         /\ Dest \in Tran /\ (opt.force => Dest = 2) /\ (~opt.force => Dest = 0)
<1>1. opt \in Options /\ Legal(opt)
  BY DEF Types, MergeTypeOK
<1> QED
  BY <1>1, LoadSetsAssumption DEF Options, Legal, Reader, Dest, Tran

LEMMA ReaderTyped ==
  ASSUME Types, NEW r \in 1..NTran
  PROVE  /\ r \in Tran /\ tran[r] \in Seq(Line) /\ Len(tran[r]) \in Nat /\ files[r] \in FileDir
         /\ DOMAIN tran[r] = 1..Len(tran[r])
         /\ rd[r].at \in Nat \ {0} /\ rd[r].pre \in Path \cup {0}
         /\ Eof(r) \in BOOLEAN
         /\ ~Eof(r) => rd[r].at \in DOMAIN tran[r] /\ Cur(r) \in Line
BY LoadSetsAssumption DEF Types, MergeTypeOK, Tran, Eof, Cur

LEMMA LineTyped ==
  ASSUME NEW l \in Line
  PROVE  /\ l.path \in Path /\ l.path \in Nat /\ l.minus \in BOOLEAN
         /\ l.type \in {"d", "f", "l"} /\ l.data \in Data \cup {NoData, Part}
         /\ l.data # Nothing /\ l.data # Folder /\ IsFile(l.data)
<1>1. "-" # "none" /\ "-" # "dir" /\ "part" # "none" /\ "part" # "dir"
  OBVIOUS
<1> QED
  BY <1>1, LoadSetsAssumption DEF Line, Path, NoData, Part, Nothing, Folder, IsFile

LEMMA CandTyped ==
  ASSUME Types, HasCand
  PROVE  /\ lm.candidate \in Reader /\ lm.candidate \in 1..NTran /\ lm.fileloc \in Reader
         /\ lm.fileloc \in 1..NTran /\ ~Eof(lm.candidate) /\ Cand \in Line
         /\ rd[lm.candidate].at \in DOMAIN tran[lm.candidate]
         /\ lm.candidate < lm.j /\ lm.j \in Nat /\ lm.candidate \in Nat
<1>1. /\ lm.candidate \in Reader /\ lm.candidate \in 1..NTran /\ lm.fileloc \in Reader
      /\ lm.fileloc \in 1..NTran /\ ~Eof(lm.candidate)
      /\ lm.candidate < lm.j /\ lm.j \in Nat /\ lm.candidate \in Nat
  BY LoadSetsAssumption DEF Types, HasCand, MergeTypeOK, MergeState
<1> QED
  BY <1>1, ReaderTyped DEF Cand

(* A reader that goes on by a line                                          *)
LEMMA AdvancedTyped ==
  ASSUME Types, NEW r \in 1..NTran, ~Eof(r)
  PROVE  /\ Advanced(r) \in [1..NTran -> [at : Nat \ {0}, pre : Path \cup {0}]]
         /\ Advanced(r)[r].at = rd[r].at + 1
         /\ \A q \in 1..NTran : q # r => Advanced(r)[q] = rd[q]
<1> DEFINE at == rd[r].at
           X == [at |-> at + 1,
                 pre |-> IF NextBad(r) \/ at >= Len(tran[r]) THEN rd[r].pre ELSE tran[r][at + 1].path]
<1>1. at \in Nat \ {0} /\ rd[r].pre \in Path \cup {0} /\ tran[r] \in Seq(Line)
  BY ReaderTyped
<1>2. at < Len(tran[r]) => tran[r][at + 1] \in Line
  BY <1>1
<1>3. at < Len(tran[r]) => tran[r][at + 1].path \in Path
  BY <1>2, LineTyped
<1>4. Len(tran[r]) \in Nat
  BY <1>1
<1>5. X.pre \in Path \cup {0} /\ X.at \in Nat \ {0}
  BY <1>1, <1>3, <1>4
<1>6. X \in [at : Nat \ {0}, pre : Path \cup {0}]
  BY <1>5
<1>7. rd \in [1..NTran -> [at : Nat \ {0}, pre : Path \cup {0}]]
  BY DEF Types, MergeTypeOK
<1>8. Advanced(r) = [rd EXCEPT ![r] = X]
  BY DEF Advanced
<1>9. X.at = rd[r].at + 1
  OBVIOUS
<1> HIDE DEF X
<1> QED
  BY <1>6, <1>7, <1>8, <1>9

LEMMA MkDirsTyped ==
  ASSUME NEW fd \in FileDir, NEW p \in Path
  PROVE  /\ MkDirs(fd, p) \in FileDir
         /\ \A q \in Path : fd[q] # Nothing => MkDirs(fd, p)[q] = fd[q]
         /\ \A q \in Path : MkDirs(fd, p)[q] \in {fd[q], Folder}
BY DEF MkDirs, FileDir

LEMMA PutTyped ==
  ASSUME NEW fd \in FileDir, NEW p \in Path, NEW x \in Data \cup {Nothing, Folder, Part}
  PROVE  /\ [fd EXCEPT ![p] = x] \in FileDir
         /\ [fd EXCEPT ![p] = x][p] = x
         /\ \A q \in Path : q # p => [fd EXCEPT ![p] = x][q] = fd[q]
BY DEF FileDir
-----------------------------------------------------------------------------
(* Types of lmerge                                                          *)

Busy == HasCand =>
  /\ lm.candidate \in Reader /\ lm.fileloc \in Reader /\ lm.candidate < lm.j
  /\ ~Eof(lm.candidate)

Exits == exit \in {"none", "0", "2", "crash", "killed"} /\ (exit = "none" <=> lm.pc # "done")

(* What a step of lmerge has to keep                                        *)
LEMMA TypesKept ==
  ASSUME Types, CkAt("idle"), UNCHANGED <<opt, was, ckOwn>>,
         tran' \in [Tran -> Seq(Line)], files' \in [Tran -> FileDir], tmp' \in FileDir,
         rd' \in [1..NTran -> [at : Nat \ {0}, pre : Path \cup {0}]],
         lm' \in MergeState, out' \in Seq(Line), faults' \in 0..MaxFaults, Busy', Exits'
  PROVE  Types'
<1>1. MergeTypeOK'
  BY DEF Types, MergeTypeOK, Busy, HasCand, Exits
<1>2. CkTypeOK'
  BY DEF Types, CkTypeOK, ckOwn
<1> QED
  BY <1>1, <1>2 DEF Types, Busy, ckOwn, CkAt

LEMMA MergeIdle ==
  ASSUME Types, Merging
  PROVE  CkAt("idle")
BY DEF Types, Merging

LEMMA MergeParts ==
  ASSUME Types
  PROVE  /\ tran \in [Tran -> Seq(Line)] /\ files \in [Tran -> FileDir] /\ tmp \in FileDir
         /\ rd \in [1..NTran -> [at : Nat \ {0}, pre : Path \cup {0}]]
         /\ lm \in MergeState /\ out \in Seq(Line) /\ faults \in 0..MaxFaults /\ Busy /\ Exits
BY DEF Types, MergeTypeOK, Busy, HasCand, Exits

(* lm with another pc, ...                                                  *)
LEMMA GotoTyped ==
  ASSUME Types, NEW pc \in {"begin", "select", "compare", "place", "output", "skip", "dirs",
                            "files", "trans", "flush", "done", "off"}, lm' = [lm EXCEPT !.pc = pc]
  PROVE  /\ lm' \in MergeState /\ lm'.pc = pc /\ lm'.i = lm.i
         /\ lm'.candidate = lm.candidate /\ lm'.fileloc = lm.fileloc /\ lm'.j = lm.j
         /\ lm'.match = lm.match /\ lm'.dirlist = lm.dirlist
BY DEF Types, MergeTypeOK, MergeState

LEMMA StopTyped ==
  ASSUME Types, Merging, NEW st \in {"0", "2", "crash", "killed"}, Stop(st)
  PROVE  lm' \in MergeState /\ lm'.pc = "done" /\ exit' = st /\ Busy' /\ Exits'
<1>1. lm' = [lm EXCEPT !.pc = "done"] /\ exit' = st
  BY DEF Stop
<1>2. lm' \in MergeState /\ lm'.pc = "done"
  BY <1>1, GotoTyped
<1> QED
  BY <1>1, <1>2 DEF Busy, Exits, HasCand

LEMMA PcTyped ==
  ASSUME Types
  PROVE  /\ lm.pc \in {"begin", "select", "compare", "place", "output", "skip", "dirs",
                       "files", "trans", "flush", "done", "off"}
         /\ lm.i \in 1..(NTran + 1) /\ lm.candidate \in 1..NTran /\ lm.fileloc \in 1..NTran
         /\ lm.match \in BOOLEAN /\ lm.j \in 2..(NTran + 1) /\ lm.dirlist \in Seq(Path)
BY DEF Types, MergeTypeOK, MergeState

LEMMA BeginTypes ==
  ASSUME Types, Begin, UNCHANGED ckOwn
  PROVE  Types'
<1>1. lm' = [lm EXCEPT !.pc = "select"]
  BY DEF Begin, Goto
<1>2. lm' \in MergeState /\ lm'.pc = "select"
  BY <1>1, GotoTyped
<1>3. Busy' /\ Exits'
  BY <1>2, MergeParts DEF Busy, Exits, HasCand, Begin, At
<1> QED
  BY <1>2, <1>3, TypesKept, MergeParts, MergeIdle DEF Begin, At, Merging, repository

LEMMA SelectTypes ==
  ASSUME Types, Select, UNCHANGED ckOwn
  PROVE  Types'
<1>0. /\ lm \in MergeState /\ lm.i \in 1..(NTran + 1) /\ lm.pc = "select" /\ NTran \in Nat
      /\ opt.n \in Nat /\ exit = "none"
  BY PcTyped, MergeParts, Numbers DEF Select, At, Exits
<1>1. CASE lm.i > opt.n
  <2> DEFINE to == IF opt.force THEN "dirs" ELSE "files"
  <2>1. lm' = [lm EXCEPT !.pc = to]
    BY <1>1 DEF Select
  <2>2. lm' \in MergeState /\ lm'.pc = to
    BY <2>1, GotoTyped
  <2>3. Busy' /\ Exits'
    BY <1>0, <2>2 DEF Busy, Exits, HasCand, Select
  <2> QED
    BY <1>0, <2>2, <2>3, TypesKept, MergeParts, MergeIdle DEF Select, Merging, repository
<1>2. CASE lm.i <= opt.n /\ Eof(lm.i)
  <2>1. lm' = [lm EXCEPT !.i = @ + 1]
    BY <1>0, <1>2, Numbers DEF Select
  <2>2. lm.i + 1 \in 1..(NTran + 1)
    BY <1>0, <1>2, Numbers
  <2>3. lm' \in MergeState /\ lm'.pc = "select"
    BY <1>0, <2>1, <2>2 DEF MergeState
  <2>4. Busy' /\ Exits'
    BY <1>0, <2>3 DEF Busy, Exits, HasCand, Select
  <2> QED
    BY <1>0, <2>3, <2>4, TypesKept, MergeParts, MergeIdle DEF Select, Merging, repository
<1>3. CASE lm.i <= opt.n /\ ~Eof(lm.i)
  <2>1. PICK m \in BOOLEAN : lm' = [lm EXCEPT !.candidate = lm.i, !.fileloc = lm.i, !.match = m,
                                     !.pc = IF m THEN "output" ELSE "compare", !.j = lm.i + 1]
    <3> DEFINE last == opt.force /\ lm.i = opt.n
    <3>1. lm' = [lm EXCEPT !.candidate = lm.i, !.fileloc = lm.i, !.match = last,
                           !.pc = IF last THEN "output" ELSE "compare", !.j = lm.i + 1]
      BY <1>0, <1>3 DEF Select
    <3>2. last \in BOOLEAN
      OBVIOUS
    <3> HIDE DEF last
    <3> QED
      BY <3>1, <3>2
  <2>2. lm.i \in 1..NTran /\ lm.i + 1 \in 2..(NTran + 1)
    BY <1>0, <1>3, Numbers
  <2>3. lm' \in MergeState
    BY <1>0, <2>1, <2>2 DEF MergeState
  <2>4. lm'.pc # "done" /\ lm'.candidate = lm.i /\ lm'.fileloc = lm.i /\ lm'.j = lm.i + 1
    BY <1>0, <2>1 DEF MergeState
  <2>5. Busy' /\ Exits'
    BY <1>0, <1>3, <2>2, <2>4 DEF Busy, Exits, HasCand, Select, Reader, Eof, repository
  <2> QED
    BY <1>0, <2>3, <2>5, TypesKept, MergeParts, MergeIdle DEF Select, Merging, repository
<1> QED
  BY <1>0, <1>1, <1>2, <1>3

(* A line of a reader that is at a candidate's path goes to the next        *)
LEMMA PassBusy ==
  ASSUME Types, lm.pc = "compare", NEW j \in Reader, j # lm.candidate, ~Eof(j),
         rd' = Advanced(j), UNCHANGED <<tran, opt>>, NEW fl \in Reader, NEW nj \in 2..(NTran + 1),
         NEW m \in BOOLEAN, lm.candidate < nj,
         lm' = [lm EXCEPT !.match = m, !.fileloc = fl, !.j = nj]
  PROVE  /\ rd' \in [1..NTran -> [at : Nat \ {0}, pre : Path \cup {0}]]
         /\ lm' \in MergeState /\ Busy' /\ lm'.pc = "compare"
<1>1. j \in 1..NTran /\ fl \in 1..NTran
  BY Numbers
<1>2. /\ lm' \in MergeState /\ lm'.pc = "compare" /\ lm'.candidate = lm.candidate
      /\ lm'.fileloc = fl /\ lm'.j = nj
  BY <1>1 DEF Types, MergeTypeOK, MergeState
<1>3. /\ rd' \in [1..NTran -> [at : Nat \ {0}, pre : Path \cup {0}]]
      /\ rd'[lm.candidate] = rd[lm.candidate]
  BY <1>1, AdvancedTyped, PcTyped
<1>4. lm.candidate \in Reader /\ ~Eof(lm.candidate)
  BY CandTyped DEF HasCand
<1> QED
  BY <1>2, <1>3, <1>4 DEF Busy, Eof, Reader

LEMMA MatchCases ==
  ASSUME Types, lm.pc = "compare", NEW j \in Reader, j = lm.j, ~Eof(j), Match(j)
  PROVE  \/ /\ opt.noupload /\ Cand.type = "f" /\ lm' = [lm EXCEPT !.match = TRUE, !.pc = "skip"]
            /\ UNCHANGED <<files, rd, exit>>
         \/ /\ opt.force /\ Cur(j).type = "f" /\ ~IsFile(files[j][Cur(j).path])
            /\ Stop("2") /\ UNCHANGED <<files, rd>>
         \/ /\ \/ opt.force /\ Cur(j).type = "f" /\ RemoveFile(j)
               \/ files' = files
            /\ rd' = Advanced(j) /\ exit' = exit
            /\ \E fl \in {lm.fileloc, j} :
                 /\ lm' = [lm EXCEPT !.match = TRUE, !.fileloc = fl, !.j = j + 1]
                 /\ fl # lm.fileloc =>
                      /\ opt.noupload /\ Cand.type = "f"
                      /\ Cur(j).type = "f" => Cand.data = Cur(j).data
<1> DEFINE fileCase == opt.noupload /\ Cand.type = "f"
           fl == IF fileCase THEN j ELSE lm.fileloc
<1>0. lm \in MergeState
  BY MergeParts
<1>1. PICK same \in SameFile(j) :
        \/ /\ fileCase /\ ~same
           /\ lm' = [lm EXCEPT !.match = TRUE, !.pc = "skip"]
           /\ UNCHANGED <<files, rd, exit>>
        \/ /\ ~fileCase \/ same
           /\ opt.force /\ Cur(j).type = "f"
           /\ IF IsFile(files[j][Cur(j).path])
              THEN /\ RemoveFile(j)
                   /\ rd' = Advanced(j)
                   /\ lm' = [[lm EXCEPT !.match = TRUE, !.fileloc = IF fileCase THEN j ELSE @] EXCEPT !.j = j + 1]
                   /\ exit' = exit
              ELSE Stop("2") /\ UNCHANGED <<files, rd>>
        \/ /\ ~fileCase \/ same
           /\ ~(opt.force /\ Cur(j).type = "f")
           /\ rd' = Advanced(j)
           /\ lm' = [[lm EXCEPT !.match = TRUE, !.fileloc = IF fileCase THEN j ELSE @] EXCEPT !.j = j + 1]
           /\ UNCHANGED <<files, exit>>
  BY DEF Match
<1>2. same /\ Cur(j).type = "f" => Cand.data = Cur(j).data
  BY DEF SameFile
<1>3. [[lm EXCEPT !.match = TRUE, !.fileloc = IF fileCase THEN j ELSE @] EXCEPT !.j = j + 1]
        = [lm EXCEPT !.match = TRUE, !.fileloc = fl, !.j = j + 1]
  BY <1>0 DEF MergeState
<1>4. fl \in {lm.fileloc, j} /\ (fl # lm.fileloc => fileCase)
  OBVIOUS
<1> HIDE DEF fl
<1>5. (~fileCase \/ same) /\ fl # lm.fileloc =>
        opt.noupload /\ Cand.type = "f" /\ (Cur(j).type = "f" => Cand.data = Cur(j).data)
  BY <1>2, <1>4
<1> QED
  BY <1>1, <1>3, <1>4, <1>5

LEMMA CompareTypes ==
  ASSUME Types, Compare, UNCHANGED ckOwn
  PROVE  Types'
<1>0. /\ lm \in MergeState /\ lm.pc = "compare" /\ lm.j \in 2..opt.n /\ NTran \in Nat
      /\ opt.n \in 2..NTran /\ exit = "none" /\ CkAt("idle") /\ Merging
  BY PcTyped, MergeParts, Numbers, MergeIdle DEF Compare, At, Exits, Merging
<1>1. /\ lm.candidate \in Reader /\ lm.fileloc \in Reader /\ lm.candidate < lm.j
      /\ ~Eof(lm.candidate) /\ lm.j \in Reader /\ lm.j \in 1..NTran
      /\ lm.j + 1 \in 2..(NTran + 1) /\ lm.candidate < lm.j + 1
  BY <1>0, CandTyped DEF HasCand, Reader
<1>2. UNCHANGED <<tran, opt, was, tmp, out, faults>>
  BY DEF Compare
<1>3. CASE lm' = [lm EXCEPT !.j = lm.j + 1] /\ UNCHANGED <<files, rd, exit>>
  <2>1. /\ lm' \in MergeState /\ lm'.pc = "compare" /\ lm'.candidate = lm.candidate
        /\ lm'.fileloc = lm.fileloc /\ lm'.j = lm.j + 1
    BY <1>0, <1>1, <1>3 DEF MergeState
  <2>2. Busy' /\ Exits'
    BY <1>0, <1>1, <1>2, <1>3, <2>1 DEF Busy, Exits, Reader, Eof
  <2> QED
    BY <1>0, <1>2, <1>3, <2>1, <2>2, TypesKept, MergeParts
<1>4. CASE ~Eof(lm.j) /\ Change(lm.j) /\ UNCHANGED <<files, rd, exit>>
  <2>0. lm' = [lm EXCEPT !.candidate = lm.j, !.fileloc = lm.j, !.j = lm.j + 1]
    BY <1>4 DEF Change
  <2>1. /\ lm' \in MergeState /\ lm'.pc = "compare" /\ lm'.candidate = lm.j
        /\ lm'.fileloc = lm.j /\ lm'.j = lm.j + 1
    BY <1>0, <1>1, <2>0 DEF MergeState
  <2>2. Busy' /\ Exits'
    BY <1>0, <1>1, <1>2, <1>4, <2>1 DEF Busy, Exits, Reader, Eof
  <2> QED
    BY <1>0, <1>2, <1>4, <2>1, <2>2, TypesKept, MergeParts
<1>5. CASE ~Eof(lm.j) /\ Match(lm.j)
  <2>1. CASE lm' = [lm EXCEPT !.match = TRUE, !.pc = "skip"] /\ UNCHANGED <<files, rd, exit>>
    <3>1. /\ lm' \in MergeState /\ lm'.pc = "skip" /\ lm'.candidate = lm.candidate
          /\ lm'.fileloc = lm.fileloc /\ lm'.j = lm.j
      BY <1>0, <2>1 DEF MergeState
    <3>2. Busy' /\ Exits'
      BY <1>0, <1>1, <1>2, <2>1, <3>1 DEF Busy, Exits, Reader, Eof
    <3> QED
      BY <1>0, <1>2, <2>1, <3>1, <3>2, TypesKept, MergeParts
  <2>2. CASE Stop("2") /\ UNCHANGED <<files, rd>>
    BY <1>0, <1>2, <2>2, StopTyped, TypesKept, MergeParts
  <2>3. CASE /\ RemoveFile(lm.j) \/ files' = files
             /\ rd' = Advanced(lm.j) /\ exit' = exit
             /\ \E fl \in {lm.fileloc, lm.j} : lm' = [lm EXCEPT !.match = TRUE, !.fileloc = fl, !.j = lm.j + 1]
    <3>1. files' \in [Tran -> FileDir]
      <4>1. Cur(lm.j).path \in Path /\ files[lm.j] \in FileDir /\ lm.j \in Tran
        BY <1>1, <1>5, ReaderTyped, LineTyped
      <4>2. [files[lm.j] EXCEPT ![Cur(lm.j).path] = Nothing] \in FileDir
        BY <4>1, PutTyped
      <4>3. files \in [Tran -> FileDir]
        BY MergeParts
      <4> QED
        BY <2>3, <4>1, <4>2, <4>3 DEF RemoveFile
    <3>2. PICK fl \in Reader : lm' = [lm EXCEPT !.match = TRUE, !.fileloc = fl, !.j = lm.j + 1]
      BY <1>1, <2>3
    <3>3. /\ rd' \in [1..NTran -> [at : Nat \ {0}, pre : Path \cup {0}]]
          /\ lm' \in MergeState /\ Busy' /\ lm'.pc = "compare"
      <4>1. lm.j # lm.candidate /\ TRUE \in BOOLEAN
        BY <1>0, <1>1
      <4>2. ~Eof(lm.j) /\ rd' = Advanced(lm.j) /\ UNCHANGED <<tran, opt>>
        BY <1>2, <1>5, <2>3
      <4>3. lm.pc = "compare" /\ lm.j \in Reader /\ lm.j + 1 \in 2..(NTran + 1) /\ lm.candidate < lm.j + 1
        BY <1>0, <1>1
      <4> QED
        BY <3>2, <4>1, <4>2, <4>3, PassBusy
    <3>4. Exits'
      BY <1>0, <2>3, <3>3 DEF Exits
    <3> QED
      BY <1>0, <1>2, <3>1, <3>3, <3>4, TypesKept, MergeParts
  <2> QED
    BY <1>0, <1>1, <1>5, <2>1, <2>2, <2>3, MatchCases
<1> QED
  BY <1>3, <1>4, <1>5 DEF Compare

LEMMA StopTypes ==
  ASSUME Types, Merging, NEW st \in {"0", "2", "crash", "killed"}, Stop(st), UNCHANGED <<opt, was, ckOwn, rd, out>>,
         tran' \in [Tran -> Seq(Line)], files' \in [Tran -> FileDir], tmp' \in FileDir,
         faults' \in 0..MaxFaults
  PROVE  Types'
BY StopTyped, TypesKept, MergeParts, MergeIdle

LEMMA DecideTypes ==
  ASSUME Types, Decide, UNCHANGED ckOwn
  PROVE  Types'
<1>0. /\ lm \in MergeState /\ lm.pc = "compare" /\ exit = "none" /\ CkAt("idle") /\ HasCand
  BY MergeParts, MergeIdle DEF Decide, At, Exits, Merging, HasCand
<1>1. PICK pc \in {"output", "skip", "place"}, d \in Seq(Path) :
        lm' = [lm EXCEPT !.pc = pc, !.dirlist = d]
  <2>1. lm.dirlist \in Seq(Path) /\ Queued \in Seq(Path)
    BY <1>0, CandTyped, LineTyped, PcTyped DEF Queued
  <2>2. CASE opt.force /\ lm.candidate = 2
    <3>1. lm' = [lm EXCEPT !.pc = "output"]
      BY <2>2 DEF Decide
    <3>2. lm' = [lm EXCEPT !.pc = "output", !.dirlist = lm.dirlist]
      BY <1>0, <3>1 DEF MergeState
    <3> QED
      BY <2>1, <3>2
  <2>3. CASE ~(opt.force /\ lm.candidate = 2) /\ Hidden
    <3> DEFINE c == lm.match /\ opt.force /\ Cand.type = "d"
               d == IF c THEN Queued ELSE lm.dirlist
    <3>1. lm' = [lm EXCEPT !.pc = "skip", !.dirlist = d]
      BY <2>3 DEF Decide
    <3>2. d \in Seq(Path)
      BY <2>1
    <3> HIDE DEF d
    <3> QED
      BY <3>1, <3>2
  <2>4. CASE ~(opt.force /\ lm.candidate = 2) /\ ~Hidden
    <3> DEFINE pc == IF Cand.type # "f" \/ opt.only THEN "output" ELSE "place"
    <3>1. lm' = [lm EXCEPT !.pc = pc]
      BY <2>4 DEF Decide
    <3>2. pc \in {"output", "place"}
      OBVIOUS
    <3> HIDE DEF pc
    <3>3. lm' = [lm EXCEPT !.pc = pc, !.dirlist = lm.dirlist]
      BY <1>0, <3>1 DEF MergeState
    <3> QED
      BY <2>1, <3>2, <3>3
  <2> QED
    BY <2>2, <2>3, <2>4
<1>2. /\ lm' \in MergeState /\ lm'.pc = pc /\ lm'.candidate = lm.candidate
      /\ lm'.fileloc = lm.fileloc /\ lm'.j = lm.j
  BY <1>0, <1>1 DEF MergeState
<1>3. Busy' /\ Exits'
  BY <1>0, <1>2, MergeParts DEF Busy, Exits, HasCand, Reader, Eof, Decide, repository
<1> QED
  BY <1>0, <1>2, <1>3, TypesKept, MergeParts DEF Decide, repository

(* Where files are put                                                      *)
LEMMA TargetSet ==
  ASSUME Types, NEW fd \in FileDir, SetTarget(fd)
  PROVE  /\ files' \in [Tran -> FileDir] /\ tmp' \in FileDir
         /\ opt.force => files' = [files EXCEPT ![2] = fd] /\ files'[2] = fd /\ tmp' = tmp
         /\ ~opt.force => tmp' = fd /\ files' = files
         /\ \A t \in Tran : t # 2 => files'[t] = files[t]
<1>1. files \in [Tran -> FileDir] /\ tmp \in FileDir /\ (opt.force => 2 \in Tran)
  BY MergeParts, Numbers
<1>2. CASE opt.force
  BY <1>1, <1>2 DEF SetTarget
<1>3. CASE ~opt.force
  BY <1>1, <1>3 DEF SetTarget
<1> QED
  BY <1>2, <1>3

LEMMA TargetTyped ==
  ASSUME Types
  PROVE  Target \in FileDir
BY MergeParts, Numbers DEF Target

LEMMA SourceTyped ==
  ASSUME Types, HasCand
  PROVE  /\ Source \in Data \cup {Nothing, Folder, Part}
         /\ IsFile(Source) => Source \in Data \cup {Part} /\ Source # Nothing /\ Source # Folder
         /\ Cand.path \in Path
<1>1. lm.fileloc \in 1..NTran /\ Cand.path \in Path
  BY CandTyped, LineTyped
<1>2. files[lm.fileloc] \in FileDir
  BY <1>1, ReaderTyped
<1> QED
  BY <1>1, <1>2 DEF Source, FileDir, IsFile

(* What a file directory is after a file has been put there, in part or not *)
PutAs(x) == [MkDirs(Target, Cand.path) EXCEPT ![Cand.path] = x]

LEMMA PutAsTyped ==
  ASSUME Types, HasCand, NEW x \in Data \cup {Nothing, Folder, Part}
  PROVE  /\ PutAs(x) \in FileDir /\ PutAs(x)[Cand.path] = x
         /\ \A q \in Path : q # Cand.path => PutAs(x)[q] \in {Target[q], Folder}
         /\ \A q \in Path : q # Cand.path /\ Target[q] # Nothing => PutAs(x)[q] = Target[q]
<1>1. Target \in FileDir /\ Cand.path \in Path
  BY TargetTyped, SourceTyped
<1>2. /\ MkDirs(Target, Cand.path) \in FileDir
      /\ \A q \in Path : Target[q] # Nothing => MkDirs(Target, Cand.path)[q] = Target[q]
      /\ \A q \in Path : MkDirs(Target, Cand.path)[q] \in {Target[q], Folder}
  BY <1>1, MkDirsTyped
<1> QED
  BY <1>1, <1>2, PutTyped DEF PutAs

LEMMA PlaceCases ==
  ASSUME Types, Place
  PROVE  /\ lm.pc = "place" /\ UNCHANGED <<tran, opt, was, rd, out, faults>>
         /\ \/ Stop("2") /\ UNCHANGED <<files, tmp>>
            \/ Stop("2") /\ SetTarget(MkDirs(Target, Cand.path))
            \/ Stop("2") /\ Target[Cand.path] = Nothing /\ SetTarget(PutAs(Part))
            \/ /\ IsFile(Source) /\ Target[Cand.path] = Nothing
               /\ SetTarget(PutAs(Source)) /\ lm' = [lm EXCEPT !.pc = "output"] /\ exit' = exit
BY DEF Place, NoSource, Free, Put, At, PutAs, Goto

LEMMA PlaceTypes ==
  ASSUME Types, Place, UNCHANGED ckOwn
  PROVE  Types'
<1>0. lm.pc = "place" /\ UNCHANGED <<tran, opt, was, rd, out, faults>> /\ HasCand /\ Merging
  BY PlaceCases DEF HasCand, Merging
<1>1. CASE Stop("2") /\ UNCHANGED <<files, tmp>>
  BY <1>0, <1>1, StopTypes, MergeParts
<1>2. CASE Stop("2") /\ SetTarget(MkDirs(Target, Cand.path))
  <2>1. MkDirs(Target, Cand.path) \in FileDir
    BY <1>0, MkDirsTyped, TargetTyped, SourceTyped
  <2>2. files' \in [Tran -> FileDir] /\ tmp' \in FileDir
    BY <1>2, <2>1, TargetSet
  <2> QED
    BY <1>0, <1>2, <2>2, StopTypes, MergeParts
<1>4. CASE Stop("2") /\ SetTarget(PutAs(Part))
  <2>1. files' \in [Tran -> FileDir] /\ tmp' \in FileDir
    BY <1>0, <1>4, TargetSet, PutAsTyped
  <2> QED
    BY <1>0, <1>4, <2>1, StopTypes, MergeParts
<1>3. CASE SetTarget(PutAs(Source)) /\ lm' = [lm EXCEPT !.pc = "output"] /\ exit' = exit
  <2>1. files' \in [Tran -> FileDir] /\ tmp' \in FileDir
    BY <1>0, <1>3, TargetSet, PutAsTyped, SourceTyped
  <2>2. /\ lm' \in MergeState /\ lm'.pc = "output" /\ lm'.candidate = lm.candidate
        /\ lm'.fileloc = lm.fileloc /\ lm'.j = lm.j
    BY <1>3, GotoTyped
  <2>3. Busy' /\ Exits'
    BY <1>0, <1>3, <2>2, MergeParts DEF Busy, Exits, HasCand, Reader, Eof
  <2> QED
    BY <1>0, <2>1, <2>2, <2>3, TypesKept, MergeParts, MergeIdle
<1> QED
  BY <1>1, <1>2, <1>3, <1>4, PlaceCases

LEMMA Next1Cases ==
  ASSUME Types, HasCand, Next1
  PROVE  /\ rd' = Advanced(lm.candidate)
         /\ rd' \in [1..NTran -> [at : Nat \ {0}, pre : Path \cup {0}]]
         /\ Stop("2") \/ (lm' = [lm EXCEPT !.pc = "select"] /\ exit' = exit)
<1>1. /\ rd' = Advanced(lm.candidate)
      /\ Stop("2") \/ (lm' = [lm EXCEPT !.pc = "select"] /\ exit' = exit)
  BY DEF Next1, Goto
<1>2. Advanced(lm.candidate) \in [1..NTran -> [at : Nat \ {0}, pre : Path \cup {0}]]
  BY CandTyped, AdvancedTyped
<1> QED
  BY <1>1, <1>2

(* The last of a line: it is written, or it is not                          *)
LEMMA WrittenTypes ==
  ASSUME Types, HasCand, Next1, UNCHANGED <<repository, opt, was, tmp, faults, ckOwn>>,
         out' \in {out, Append(out, Cand)}
  PROVE  Types'
<1>1. out' \in Seq(Line)
  <2>1. Cand \in Line /\ out \in Seq(Line)
    BY CandTyped, MergeParts
  <2> QED
    BY <2>1, AppendProperties
<1>2. Merging /\ rd' \in [1..NTran -> [at : Nat \ {0}, pre : Path \cup {0}]]
  BY Next1Cases DEF HasCand, Merging
<1>3. CASE Stop("2")
  BY <1>1, <1>2, <1>3, StopTyped, TypesKept, MergeParts, MergeIdle DEF repository
<1>4. CASE lm' = [lm EXCEPT !.pc = "select"] /\ exit' = exit
  <2>1. lm' \in MergeState /\ lm'.pc = "select"
    BY <1>4, GotoTyped
  <2>2. Busy' /\ Exits'
    BY <1>2, <1>4, <2>1, MergeParts DEF Busy, Exits, HasCand, Merging
  <2> QED
    BY <1>1, <1>2, <2>1, <2>2, TypesKept, MergeParts, MergeIdle DEF repository
<1> QED
  BY <1>3, <1>4, Next1Cases

LEMMA WriteTypes ==
  ASSUME Types, Output \/ Skip, UNCHANGED ckOwn
  PROVE  Types'
<1>1. HasCand /\ Next1 /\ UNCHANGED <<repository, opt, was, tmp, faults>>
  BY DEF Output, Skip, At, HasCand
<1>2. out' \in {out, Append(out, Cand)}
  BY DEF Output, Skip
<1> QED
  BY <1>1, <1>2, WrittenTypes

LEMMA RemoveDirsTypes ==
  ASSUME Types, RemoveDirs, UNCHANGED ckOwn
  PROVE  Types'
<1>0. /\ lm.pc = "dirs" /\ Merging /\ lm \in MergeState /\ lm.dirlist \in Seq(Path) /\ exit = "none"
      /\ UNCHANGED <<tran, opt, was, rd, tmp, out, faults>>
  BY MergeParts, PcTyped DEF RemoveDirs, At, Merging, Exits
<1>1. CASE lm.dirlist = <<>>
  <2>1. lm' = [lm EXCEPT !.pc = "trans"] /\ UNCHANGED <<files, exit>>
    BY <1>1 DEF RemoveDirs, Goto
  <2>2. lm' \in MergeState /\ lm'.pc = "trans"
    BY <2>1, GotoTyped
  <2>3. Busy' /\ Exits'
    BY <1>0, <2>1, <2>2 DEF Busy, Exits, HasCand
  <2> QED
    BY <1>0, <2>1, <2>2, <2>3, TypesKept, MergeParts, MergeIdle
<1>2. CASE lm.dirlist # <<>>
  <2>1. Head(lm.dirlist) \in Path /\ Tail(lm.dirlist) \in Seq(Path)
    BY <1>0, <1>2, HeadTailProperties
  <2>2. CASE Stop("2") /\ files' = files
    BY <1>0, <2>2, StopTypes, MergeParts
  <2>3. CASE /\ lm' = [lm EXCEPT !.dirlist = Tail(lm.dirlist)] /\ exit' = exit
             /\ files' \in {files, [files EXCEPT ![2][Head(lm.dirlist)] = Nothing]}
    <3>1. lm' \in MergeState /\ lm'.pc = "dirs"
      BY <1>0, <2>1, <2>3 DEF MergeState
    <3>2. Busy' /\ Exits'
      BY <1>0, <2>3, <3>1 DEF Busy, Exits, HasCand
    <3>3. files \in [Tran -> FileDir] /\ 2 \in Tran
      BY MergeParts, Numbers, LoadSetsAssumption DEF Tran
    <3>4. [files[2] EXCEPT ![Head(lm.dirlist)] = Nothing] \in FileDir
      BY <2>1, <3>3, PutTyped
    <3>5. files' \in [Tran -> FileDir]
      BY <2>3, <3>3, <3>4
    <3> QED
      BY <1>0, <3>1, <3>2, <3>5, TypesKept, MergeParts, MergeIdle
  <2> QED
    BY <1>2, <2>2, <2>3 DEF RemoveDirs
<1> QED
  BY <1>1, <1>2

(* A step from one place to the next, or to the end                         *)
LEMMA OnwardTypes ==
  ASSUME Types, Merging, UNCHANGED <<opt, was, rd, out, faults, ckOwn>>,
         tran' \in [Tran -> Seq(Line)], files' \in [Tran -> FileDir], tmp' \in FileDir,
         Stop("2") \/ (exit' = exit /\ \E pc \in {"trans", "flush"} : lm' = [lm EXCEPT !.pc = pc])
  PROVE  Types'
<1>1. CASE Stop("2")
  BY <1>1, StopTypes, MergeParts
<1>2. CASE exit' = exit /\ \E pc \in {"trans", "flush"} : lm' = [lm EXCEPT !.pc = pc]
  <2>1. lm' \in MergeState /\ lm'.pc \in {"trans", "flush"}
    BY <1>2, GotoTyped
  <2>2. Busy' /\ Exits'
    BY <1>2, <2>1, MergeParts DEF Busy, Exits, HasCand, Merging
  <2> QED
    BY <2>1, <2>2, TypesKept, MergeParts, MergeIdle
<1> QED
  BY <1>1, <1>2

LEMMA RenameFilesTypes ==
  ASSUME Types, RenameFiles, UNCHANGED ckOwn
  PROVE  Types'
<1>1. Merging /\ UNCHANGED <<tran, opt, was, rd, out, faults>>
  BY DEF RenameFiles, At, Merging
<1>2. Bare \in FileDir
  BY DEF Bare, FileDir
<1>3. files' \in [Tran -> FileDir] /\ tmp' \in FileDir
  BY <1>2, MergeParts DEF RenameFiles
<1>4. Stop("2") \/ (exit' = exit /\ lm' = [lm EXCEPT !.pc = "trans"])
  BY DEF RenameFiles, Goto
<1> QED
  BY <1>1, <1>3, <1>4, OnwardTypes, MergeParts

(* A part of what has been written                                          *)
LEMMA PartTyped ==
  ASSUME NEW s \in Seq(Line), NEW k \in 0..Len(s)
  PROVE  /\ SubSeq(s, 1, k) \in Seq(Line) /\ Len(SubSeq(s, 1, k)) = k
         /\ \A m \in DOMAIN SubSeq(s, 1, k) : m \in DOMAIN s /\ SubSeq(s, 1, k)[m] = s[m]
OBVIOUS

LEMMA RenameTranTypes ==
  ASSUME Types, RenameTran, UNCHANGED ckOwn
  PROVE  Types'
<1>1. Merging /\ UNCHANGED <<files, opt, was, rd, tmp, out, exit, faults>>
  BY DEF RenameTran, At, Merging
<1>2. PICK k \in 0..Len(out) : tran' = [tran EXCEPT ![Dest] = SubSeq(out, 1, k)]
  BY DEF RenameTran, Partly
<1>3. SubSeq(out, 1, k) \in Seq(Line)
  BY PartTyped, MergeParts
<1>4. tran' \in [Tran -> Seq(Line)]
  BY <1>2, <1>3, MergeParts
<1>5. lm' = [lm EXCEPT !.pc = "flush"]
  BY DEF RenameTran, Goto
<1> QED
  BY <1>1, <1>4, <1>5, OnwardTypes, MergeParts

LEMMA FlushTypes ==
  ASSUME Types, Flush, UNCHANGED ckOwn
  PROVE  Types'
<1>1. Merging /\ UNCHANGED <<files, opt, was, rd, tmp, out>> /\ Stop("0")
  BY DEF Flush, At, Merging
<1>2. tran' \in [Tran -> Seq(Line)]
  BY MergeParts DEF Flush
<1>3. faults' \in 0..MaxFaults
  BY MergeParts, LoadSetsAssumption DEF Flush
<1> QED
  BY <1>1, <1>2, <1>3, StopTypes, MergeParts

LEMMA CutCases ==
  ASSUME Types, Cut
  PROVE  \/ UNCHANGED <<files, tmp>>
         \/ /\ lm.pc = "place" /\ HasCand /\ Target[Cand.path] = Nothing
            /\ SetTarget(PutAs(Part))
BY DEF Cut, Free, Put, At, PutAs, HasCand

LEMMA CutTyped ==
  ASSUME Types, Cut
  PROVE  files' \in [Tran -> FileDir] /\ tmp' \in FileDir
<1>1. CASE UNCHANGED <<files, tmp>>
  BY <1>1, MergeParts
<1>2. CASE HasCand /\ SetTarget(PutAs(Part))
  BY <1>2, TargetSet, PutAsTyped
<1> QED
  BY <1>1, <1>2, CutCases

LEMMA EndTypes ==
  ASSUME Types, Crash \/ Fails \/ Killed, UNCHANGED ckOwn
  PROVE  Types'
<1>1. Merging /\ (\E st \in {"2", "crash", "killed"} : Stop(st)) /\ UNCHANGED <<tran, opt, was, rd, out>>
  BY DEF Crash, Fails, Killed, At, Merging, repository
<1>2. files' \in [Tran -> FileDir] /\ tmp' \in FileDir
  BY CutTyped, MergeParts DEF Crash, Fails, Killed, repository
<1>3. faults' \in 0..MaxFaults
  BY MergeParts, LoadSetsAssumption DEF Crash, Fails, Killed
<1> QED
  BY <1>1, <1>2, <1>3, StopTypes, MergeParts

LEMMA MergeTypes ==
  ASSUME Types, Merge
  PROVE  Types' /\ CkAt("idle") /\ Merging /\ UNCHANGED <<opt, was, ckOwn>>
<1>1. UNCHANGED <<opt, was, ckOwn>> /\ Merging
  BY DEF Merge, MergeNext, MergeStep, Begin, Select, Compare, Crash, Decide, Place, Output, Skip,
         RemoveDirs, RenameFiles, RenameTran, Flush, Fails, Killed, At, Merging
<1>2. MergeNext /\ UNCHANGED ckOwn
  BY DEF Merge
<1>3. Types'
  BY <1>2, BeginTypes, SelectTypes, CompareTypes, DecideTypes, PlaceTypes, WriteTypes, RemoveDirsTypes,
     RenameFilesTypes, RenameTranTypes, FlushTypes, EndTypes DEF MergeNext, MergeStep
<1> QED
  BY <1>1, <1>3, MergeIdle
-----------------------------------------------------------------------------
(* Types of lcksum                                                          *)

Codes == ckExit \in {"none", "0", "1", "2", "crash", "killed"} /\ (ckExit = "none" <=> ck.pc # "done")
InRange == ck.pc \in {"line", "end"} => ck.n <= Len(ckOpt.targets)

LEMMA CkParts ==
  ASSUME Types
  PROVE  /\ ckOpt \in CkOptions /\ (ckOpt.all => ~ckOpt.update) /\ ck \in CkState /\ InRange /\ Codes
         /\ ckOpt.targets \in Seq(Tran) /\ Len(ckOpt.targets) \in Nat
         /\ ckOpt.update \in BOOLEAN /\ ckOpt.all \in BOOLEAN
         /\ copy \in Seq(Line) /\ pending \in [Tran -> Seq(Line)] /\ found \in [Tran -> Seq(Line)]
         /\ ck.n \in Nat \ {0} /\ ck.at \in Nat \ {0} /\ ck.pre \in Path \cup {0} /\ ck.ucount \in Nat
         /\ ck.exitval \in {0, 1} /\ ck.err \in {"0", "1", "2"}
         /\ ck.pc \in {"idle", "next", "line", "end", "exit", "done"}
BY DEF Types, CkTypeOK, CkOptions, CkState, InRange, Codes

LEMMA CkKept ==
  ASSUME Types, Cksum, UNCHANGED files, tran' \in [Tran -> Seq(Line)], faults' \in 0..MaxFaults,
         ckOpt' = ckOpt, ck' \in CkState, InRange', Codes', copy' \in Seq(Line),
         pending' \in [Tran -> Seq(Line)], found' \in [Tran -> Seq(Line)]
  PROVE  Types'
<1>1. UNCHANGED <<opt, was, rd, lm, tmp, out, exit>> /\ lm.pc \in {"off", "done"}
  BY DEF Cksum, Called, mergeOwn
<1>2. CkTypeOK'
  BY CkParts DEF Types, CkTypeOK, InRange, Codes
<1>3. MergeTypeOK'
  BY <1>1 DEF Types, MergeTypeOK
<1>4. ~HasCand'
  BY <1>1 DEF HasCand
<1> QED
  BY <1>1, <1>2, <1>3, <1>4 DEF Types

(* The transcript that lcksum is at                                         *)
LEMMA AtTyped ==
  ASSUME Types, ck.pc \in {"line", "end"}
  PROVE  /\ T \in Tran /\ T \in Targets /\ tran[T] \in Seq(Line) /\ Len(tran[T]) \in Nat
         /\ found[T] \in Seq(Line) /\ files[T] \in FileDir
         /\ ck.at <= Len(tran[T]) => Row \in Line /\ ck.at \in DOMAIN tran[T]
<1>1. ck.n \in 1..Len(ckOpt.targets) /\ ckOpt.targets \in Seq(Tran)
  BY CkParts DEF InRange
<1>2. T \in Tran /\ T \in Targets
  BY <1>1 DEF T, Targets
<1>3. tran[T] \in Seq(Line) /\ files[T] \in FileDir /\ found[T] \in Seq(Line)
  BY <1>2, MergeParts, CkParts
<1>4. ck.at \in Nat \ {0}
  BY CkParts
<1> QED
  BY <1>2, <1>3, <1>4 DEF Row

LEMMA RightTyped ==
  ASSUME Types, ck.pc = "line", NEW l \in Line, IsFile(files[T][l.path])
  PROVE  /\ Right(l) \in Line /\ Right(l).path = l.path
         /\ Right(l) = [l EXCEPT !.data = files[T][l.path], !.mtime = IF l.data = NoData THEN @ ELSE 2]
<1>1. files[T][l.path] \in Data \cup {Part}
  <2>1. files[T] \in FileDir /\ l.path \in Path
    BY AtTyped, LineTyped
  <2> QED
    BY <2>1 DEF FileDir, IsFile
<1> QED
  BY <1>1 DEF Right, Line

(* One turn of the loop: the line cannot be checked, is copied as it is, or *)
(* is copied as it should be                                                *)
Wrong == Row.path \in ckOpt.prefix /\ Row.path <= ck.pre
Next2 == [ck EXCEPT !.at = @ + 1]
Read2 == [Next2 EXCEPT !.pre = Row.path]
Counted2 == IF ckOpt.update THEN [Read2 EXCEPT !.ucount = @ + 1] ELSE [Read2 EXCEPT !.exitval = 1]

Passed == Row.path \notin ckOpt.prefix /\ ck' = Next2 /\ Copied(Row)
InOrder2 == Row.path \in ckOpt.prefix /\ ~(Row.path <= ck.pre)
NoFile == InOrder2 /\ (Row.type # "f" \/ Row.minus) /\ ck' = Read2 /\ Copied(Row)
Good == InOrder2 /\ PositiveFile(Row) /\ IsFile(files[T][Row.path])
Same == Good /\ Row.data = files[T][Row.path] /\ ck' = Read2 /\ Copied(Row)
Other == Good /\ Row.data # files[T][Row.path] /\ ck' = Counted2 /\ Copied(Right(Row))

LEMMA LineCases ==
  ASSUME Types, CkLine
  PROVE  /\ ck.pc = "line" /\ ck.at <= Len(tran[T])
         /\ UNCHANGED <<repository, ckOpt, pending, found, faults>>
         /\ \/ Leave("2") /\ UNCHANGED <<copy, ckExit>>
            \/ BadLine
            \/ Passed \/ NoFile \/ Same \/ Other
BY DEF CkLine, CkAt, Passed, NoFile, Same, Other, Good, InOrder2, Next2, Read2, Counted2, Outside, Check, PositiveFile

LEMMA LeaveTyped ==
  ASSUME Types, NEW st \in {"0", "1", "2"}, Leave(st)
  PROVE  ck' \in CkState /\ ck'.pc = "exit" /\ ck'.err = st /\ InRange'
<1>1. ck' \in CkState /\ ck'.pc = "exit" /\ ck'.err = st
  BY CkParts DEF Leave, CkState
<1> QED
  BY <1>1 DEF InRange

LEMMA CopiedTyped ==
  ASSUME Types, NEW l \in Line, Copied(l)
  PROVE  /\ copy' \in Seq(Line) /\ ckExit' = ckExit
         /\ ckOpt.update => copy' = Append(copy, l)
<1>1. copy \in Seq(Line)
  BY CkParts
<1> QED
  BY <1>1, AppendProperties DEF Copied

(* lcksum at the next line                                                  *)
LEMMA CountTyped ==
  ASSUME Types, ck.pc = "line", ck.at <= Len(tran[T]), ck' \in {Next2, Read2, Counted2}, ckOpt' = ckOpt
  PROVE  /\ ck' \in CkState /\ ck'.pc = "line" /\ ck'.at = ck.at + 1 /\ ck'.n = ck.n /\ InRange'
         /\ ck' = Next2 => ck'.pre = ck.pre /\ ck'.ucount = ck.ucount
         /\ ck' = Read2 => ck'.pre = Row.path /\ ck'.ucount = ck.ucount
         /\ ck' = Counted2 => ck'.pre = Row.path
<1>1. /\ ck \in CkState /\ ck.ucount \in Nat /\ ck.at \in Nat \ {0} /\ ckOpt.update \in BOOLEAN
      /\ ck.pre \in Path \cup {0} /\ InRange
  BY CkParts
<1>2. Row.path \in Path
  BY AtTyped, LineTyped
<1>3. /\ Next2 \in CkState /\ Next2.pc = "line" /\ Next2.at = ck.at + 1 /\ Next2.n = ck.n
      /\ Next2.ucount = ck.ucount /\ Next2.pre = ck.pre
  BY <1>1 DEF Next2, CkState
<1>4. /\ Read2 \in CkState /\ Read2.pc = "line" /\ Read2.at = ck.at + 1 /\ Read2.n = ck.n
      /\ Read2.ucount = ck.ucount /\ Read2.pre = Row.path
  BY <1>2, <1>3 DEF Read2, CkState
<1>5. /\ Counted2 \in CkState /\ Counted2.pc = "line" /\ Counted2.at = ck.at + 1 /\ Counted2.n = ck.n
      /\ Counted2.pre = Row.path
      /\ Counted2.ucount = IF ckOpt.update THEN ck.ucount + 1 ELSE ck.ucount
  BY <1>1, <1>4 DEF Counted2, CkState
<1> HIDE DEF Next2, Read2, Counted2
<1>6. InRange'
  BY <1>1, <1>3, <1>4, <1>5 DEF InRange
<1> QED
  BY <1>1, <1>3, <1>4, <1>5, <1>6

LEMMA CkStartTypes ==
  ASSUME Types, Cksum, CkStart
  PROVE  Types'
<1>1. ck' = [ck EXCEPT !.pc = "next"] /\ ck.pc = "idle"
  BY DEF CkStart, CkAt
<1>2. ck' \in CkState /\ ck'.pc = "next"
  BY <1>1, CkParts DEF CkState
<1>3. InRange' /\ Codes'
  BY <1>1, <1>2, CkParts DEF InRange, Codes, CkStart
<1> QED
  BY <1>2, <1>3, CkKept, CkParts, MergeParts DEF CkStart, repository

LEMMA CkOpenTypes ==
  ASSUME Types, Cksum, CkOpen
  PROVE  /\ Types' /\ ck'.pc \in {"exit", "line"}
         /\ ck'.pc = "line" => ck'.at = 1 /\ ck'.pre = 0 /\ ck'.ucount = 0 /\ copy' = <<>>
<1>1. /\ ck.pc = "next" /\ copy' = <<>> /\ UNCHANGED <<repository, ckOpt, pending, found, ckExit, faults>>
      /\ ck \in CkState
  BY CkParts DEF CkOpen, CkAt
<1>2. /\ ck' \in CkState /\ ck'.pc \in {"exit", "line"} /\ InRange'
      /\ ck'.pc = "line" => ck'.at = 1 /\ ck'.pre = 0 /\ ck'.ucount = 0
  <2>1. CASE ck.n > Len(ckOpt.targets)
    <3>1. ck' = [ck EXCEPT !.pc = "exit"]
      BY <2>1 DEF CkOpen
    <3> QED
      BY <1>1, <3>1 DEF CkState, InRange
  <2>2. CASE ~(ck.n > Len(ckOpt.targets))
    <3>1. ck' = [ck EXCEPT !.pc = "line", !.at = 1, !.pre = 0, !.ucount = 0, !.exitval = 0]
      BY <2>2 DEF CkOpen
    <3>2. /\ ck' \in CkState /\ ck'.pc = "line" /\ ck'.n = ck.n
          /\ ck'.at = 1 /\ ck'.pre = 0 /\ ck'.ucount = 0
      <4> DEFINE A == [ck EXCEPT !.pc = "line"]
                 B == [A EXCEPT !.at = 1]
                 C == [B EXCEPT !.pre = 0]
      <4>1. ck' = [C EXCEPT !.ucount = 0, !.exitval = 0]
        BY <1>1, <3>1 DEF CkState
      <4>2. A \in CkState /\ A.pc = "line" /\ A.n = ck.n
        BY <1>1 DEF CkState
      <4>3. B = [A EXCEPT !.at = 1]
        OBVIOUS
      <4>4. C = [B EXCEPT !.pre = 0]
        OBVIOUS
      <4> HIDE DEF A, B, C
      <4>5. B \in CkState /\ B.pc = "line" /\ B.n = ck.n /\ B.at = 1
        BY <4>2, <4>3 DEF CkState
      <4>6. C \in CkState /\ C.pc = "line" /\ C.n = ck.n /\ C.at = 1 /\ C.pre = 0
        BY <4>4, <4>5 DEF CkState
      <4> QED
        BY <4>1, <4>6 DEF CkState
    <3> QED
      BY <1>1, <2>2, <3>2, CkParts DEF InRange
  <2> QED
    BY <2>1, <2>2
<1>3. Codes'
  BY <1>1, <1>2, CkParts DEF Codes
<1>4. Types'
  BY <1>1, <1>2, <1>3, CkKept, CkParts, MergeParts DEF repository
<1> QED
  BY <1>1, <1>2, <1>4

LEMMA BadTyped ==
  ASSUME Types, ck.pc = "line", BadLine, ckOpt' = ckOpt
  PROVE  /\ ck' \in CkState /\ copy' = copy /\ InRange' /\ Codes'
         /\ ck'.pc \in {"end", "exit", "done"} /\ ck'.n = ck.n /\ ck'.ucount = ck.ucount
         /\ ckOpt.update => ck'.pc # "end"
<1>1. CASE Leave("2") /\ ckExit' = ckExit
  <2>1. ck' = [ck EXCEPT !.pc = "exit", !.err = "2"]
    BY <1>1 DEF Leave
  <2>2. ck' \in CkState /\ ck'.pc = "exit" /\ ck'.n = ck.n /\ ck'.ucount = ck.ucount
    BY <2>1, CkParts DEF CkState
  <2> QED
    BY <1>1, <2>2, CkParts DEF InRange, Codes, BadLine
<1>2. CASE ckOpt.all /\ ck' = [ck EXCEPT !.pc = "end", !.exitval = 1] /\ ckExit' = ckExit
  <2>1. ck' \in CkState /\ ck'.pc = "end" /\ ck'.n = ck.n /\ ck'.ucount = ck.ucount
    BY <1>2, CkParts DEF CkState
  <2> QED
    BY <1>2, <2>1, CkParts DEF InRange, Codes, BadLine
<1>3. CASE ck' = [ck EXCEPT !.pc = "done"] /\ ckExit' = "crash"
  <2>1. ck' \in CkState /\ ck'.pc = "done" /\ ck'.n = ck.n /\ ck'.ucount = ck.ucount
    BY <1>3, CkParts DEF CkState
  <2> QED
    BY <1>3, <2>1, CkParts DEF InRange, Codes, BadLine
<1> QED
  BY <1>1, <1>2, <1>3 DEF BadLine

LEMMA CkLineTypes ==
  ASSUME Types, Cksum, CkLine
  PROVE  Types'
<1>1. /\ ck.pc = "line" /\ ck.at <= Len(tran[T])
      /\ UNCHANGED <<repository, ckOpt, pending, found, faults>>
  BY LineCases
<1>2. ck' \in CkState /\ InRange' /\ Codes' /\ copy' \in Seq(Line)
  <2>1. CASE Leave("2") /\ UNCHANGED <<copy, ckExit>>
    BY <1>1, <2>1, LeaveTyped, CkParts DEF Codes
  <2>2. CASE BadLine
    BY <1>1, <2>2, BadTyped, CkParts
  <2>3. CASE Passed \/ NoFile \/ Same \/ Other
    <3>1. ck' \in {Next2, Read2, Counted2} /\ \E l \in Line : Copied(l)
      <4>1. Row \in Line
        BY <1>1, AtTyped
      <4>2. Good => Right(Row) \in Line
        BY <1>1, <4>1, RightTyped DEF Good
      <4> QED
        BY <2>3, <4>1, <4>2 DEF Passed, NoFile, Same, Other
    <3>2. ck' \in CkState /\ ck'.pc = "line" /\ InRange'
      BY <1>1, <3>1, CountTyped
    <3>3. copy' \in Seq(Line) /\ ckExit' = ckExit
      BY <3>1, CopiedTyped
    <3> QED
      BY <1>1, <3>2, <3>3, CkParts DEF Codes
  <2> QED
    BY <2>1, <2>2, <2>3, LineCases
<1> QED
  BY <1>1, <1>2, CkKept, CkParts, MergeParts DEF repository

LEMMA CkEofTypes ==
  ASSUME Types, Cksum, CkEof
  PROVE  /\ Types' /\ ck.pc = "line" /\ ck.at > Len(tran[T]) /\ ck'.pc = "end"
         /\ ck'.n = ck.n /\ ck'.at = ck.at /\ ck'.pre = ck.pre /\ ck'.ucount = ck.ucount
<1>1. /\ ck.pc = "line" /\ ck.at > Len(tran[T]) /\ ck' = [ck EXCEPT !.pc = "end"]
      /\ UNCHANGED <<repository, ckOpt, copy, pending, found, ckExit, faults>>
  BY DEF CkEof, CkAt
<1>2. /\ ck' \in CkState /\ ck'.pc = "end"
      /\ ck'.n = ck.n /\ ck'.at = ck.at /\ ck'.pre = ck.pre /\ ck'.ucount = ck.ucount
  BY <1>1, CkParts DEF CkState
<1>3. InRange' /\ Codes'
  BY <1>1, <1>2, CkParts DEF InRange, Codes
<1> QED
  BY <1>1, <1>2, <1>3, CkKept, CkParts, MergeParts DEF repository

LEMMA CkTornTypes ==
  ASSUME Types, Cksum, CkTorn
  PROVE  Types'
<1>1. ck.pc = "line" /\ BadLine /\ UNCHANGED <<repository, ckOpt, pending, found, faults>>
  BY DEF CkTorn, CkAt
<1>2. ck' \in CkState /\ InRange' /\ Codes' /\ copy' = copy
  BY <1>1, BadTyped
<1> QED
  BY <1>1, <1>2, CkKept, CkParts, MergeParts DEF repository

LEMMA ReturnedTyped ==
  ASSUME Types, NEW n \in {0, 1}, Returned(n), ckOpt' = ckOpt
  PROVE  ck' \in CkState /\ ck'.pc \in {"next", "exit"} /\ InRange'
<1>1. CASE Leave("1")
  BY <1>1, LeaveTyped
<1>2. CASE ck' = [ck EXCEPT !.pc = "next", !.n = @ + 1, !.err = IF n = 1 THEN "1" ELSE @]
  <2> DEFINE e == IF n = 1 THEN "1" ELSE ck.err
             m == ck.n + 1
  <2>0. e \in {"0", "1", "2"} /\ m \in Nat \ {0} /\ ck \in CkState
    BY CkParts
  <2>a. ck' = [ck EXCEPT !.pc = "next", !.n = m, !.err = e]
    BY <1>2
  <2> HIDE DEF e, m
  <2>1. ck' \in CkState /\ ck'.pc = "next"
    BY <2>0, <2>a DEF CkState
  <2> QED
    BY <2>1 DEF InRange
<1> QED
  BY <1>1, <1>2 DEF Returned

(* The copy takes the place of the transcript, or does not                  *)
LEMMA CkEndCases ==
  ASSUME Types, CkEnd
  PROVE  /\ ck.pc = "end" /\ UNCHANGED <<files, ckOpt, copy, found, ckExit, faults>>
         /\ ck' \in CkState /\ ck'.pc \in {"next", "exit"} /\ InRange'
         /\ \/ UNCHANGED <<tran, torn, pending>>
            \/ /\ ckOpt.update /\ ck.ucount > 0
               /\ pending' = [pending EXCEPT ![T] = copy]
               /\ \E k \in 0..Len(copy) : tran' = [tran EXCEPT ![T] = SubSeq(copy, 1, k)]
<1>1. ck.pc = "end" /\ UNCHANGED <<files, ckOpt, copy, found, ckExit, faults>>
  BY DEF CkEnd, CkAt
<1>2. ck.exitval \in {0, 1}
  BY CkParts
<1>3. \E n \in {0, 1} : Returned(n)
  BY <1>2 DEF CkEnd
<1>4. ck' \in CkState /\ ck'.pc \in {"next", "exit"} /\ InRange'
  BY <1>1, <1>3, ReturnedTyped
<1> QED
  BY <1>1, <1>4 DEF CkEnd, Partly

LEMMA CkEndTypes ==
  ASSUME Types, Cksum, CkEnd
  PROVE  Types'
<1>1. /\ ck.pc = "end" /\ UNCHANGED <<files, ckOpt, copy, found, ckExit, faults>>
      /\ ck' \in CkState /\ ck'.pc \in {"next", "exit"} /\ InRange'
  BY CkEndCases
<1>2. Codes'
  BY <1>1, CkParts DEF Codes
<1>3. tran' \in [Tran -> Seq(Line)] /\ pending' \in [Tran -> Seq(Line)]
  <2>1. CASE UNCHANGED <<tran, pending>>
    BY <2>1, CkParts, MergeParts
  <2>2. CASE /\ pending' = [pending EXCEPT ![T] = copy]
             /\ \E k \in 0..Len(copy) : tran' = [tran EXCEPT ![T] = SubSeq(copy, 1, k)]
    <3>1. PICK k \in 0..Len(copy) : tran' = [tran EXCEPT ![T] = SubSeq(copy, 1, k)]
      BY <2>2
    <3>2. SubSeq(copy, 1, k) \in Seq(Line) /\ copy \in Seq(Line)
      BY CkParts, PartTyped
    <3> QED
      BY <2>2, <3>1, <3>2, CkParts, MergeParts
  <2> QED
    BY <2>1, <2>2, CkEndCases
<1> QED
  BY <1>1, <1>2, <1>3, CkKept, CkParts, MergeParts

LEMMA CkFinishTypes ==
  ASSUME Types, Cksum, CkFinish
  PROVE  Types' /\ ck'.pc = "done"
<1>1. /\ ck.pc = "exit" /\ ck' = [ck EXCEPT !.pc = "done"] /\ ckExit' = ck.err
      /\ UNCHANGED <<files, ckOpt, copy, pending, found>>
  BY DEF CkFinish, CkAt
<1>2. ck' \in CkState /\ ck'.pc = "done"
  BY <1>1, CkParts DEF CkState
<1>3. InRange' /\ Codes'
  BY <1>1, <1>2, CkParts DEF InRange, Codes
<1>4. tran' \in [Tran -> Seq(Line)]
  <2>1. PICK lost : tran' = [t \in Tran |-> IF pending[t] = <<>> \/ t \in lost THEN tran[t] ELSE pending[t]]
    BY DEF CkFinish
  <2> QED
    BY <2>1, CkParts, MergeParts
<1>5. faults' \in 0..MaxFaults
  BY MergeParts, LoadSetsAssumption DEF CkFinish
<1> QED
  BY <1>1, <1>2, <1>3, <1>4, <1>5, CkKept, CkParts, MergeParts

LEMMA CkEndsTypes ==
  ASSUME Types, Cksum, CkFails \/ CkKilled
  PROVE  Types' /\ ck'.pc \in {"exit", "done"}
<1>1. UNCHANGED <<repository, ckOpt, copy, pending, found>> /\ faults' \in 0..MaxFaults
  BY MergeParts, LoadSetsAssumption DEF CkFails, CkKilled
<1>2. CASE CkFails
  <2>1. Leave("2") /\ ckExit' = ckExit /\ ck.pc \in {"next", "line", "end"}
    BY <1>2 DEF CkFails
  <2>2. ck' \in CkState /\ ck'.pc = "exit" /\ InRange'
    BY <2>1, LeaveTyped
  <2>3. Codes'
    BY <2>1, <2>2, CkParts DEF Codes
  <2> QED
    BY <1>1, <2>2, <2>3, CkKept, CkParts, MergeParts DEF repository
<1>3. CASE CkKilled
  <2>1. ck' = [ck EXCEPT !.pc = "done"] /\ ckExit' = "killed"
    BY <1>3 DEF CkKilled
  <2>2. ck' \in CkState /\ ck'.pc = "done"
    BY <2>1, CkParts DEF CkState
  <2>3. InRange' /\ Codes'
    BY <2>1, <2>2, CkParts DEF InRange, Codes
  <2> QED
    BY <1>1, <2>2, <2>3, CkKept, CkParts, MergeParts DEF repository
<1> QED
  BY <1>2, <1>3

LEMMA CksumTypes ==
  ASSUME Types, Cksum
  PROVE  Types' /\ UNCHANGED <<mergeOwn, files, ckOpt>>
<1>1. Types'
  BY CkStartTypes, CkOpenTypes, CkLineTypes, CkEofTypes, CkTornTypes, CkEndTypes, CkFinishTypes, CkEndsTypes
  DEF Cksum, CkNext, CkStep
<1> QED
  BY <1>1 DEF Cksum, CkStart, CkNext, CkStep, CkOpen, CkLine, CkEof, CkTorn, CkEnd, CkFinish, CkFails,
              CkKilled, repository
-----------------------------------------------------------------------------
(* What lcksum does to transcripts                                          *)

LEMMA MeaningKept ==
  ASSUME UNCHANGED <<found, files, ckOpt>>, NEW t
  PROVE  /\ Targets' = Targets /\ Within(t)' = Within(t) /\ Checked(t)' = Checked(t)
         /\ (Faulty(t) <=> Faulty(t)') /\ (Differs(t) <=> Differs(t)') /\ Refreshed(t)' = Refreshed(t)
BY DEF Targets, Within, Checked, FileLines, Faulty, Differs, Refreshed

(* A line that is up to date                                                *)
LEMMA RefreshedLine ==
  ASSUME Types, NEW t \in Tran, NEW k \in DOMAIN found[t]
  PROVE  /\ Refreshed(t)[k].path = found[t][k].path /\ Refreshed(t)[k].type = found[t][k].type
         /\ Refreshed(t)[k].minus = found[t][k].minus
         /\ k \notin Checked(t) => Refreshed(t)[k] = found[t][k]
         /\ k \in Checked(t) => Refreshed(t)[k].data = files[t][found[t][k].path]
         /\ found[t][k].data = files[t][found[t][k].path] => Refreshed(t)[k] = found[t][k]
         /\ k \in Checked(t) /\ found[t][k].data # files[t][found[t][k].path] =>
              Refreshed(t)[k] = [found[t][k] EXCEPT !.data = files[t][found[t][k].path],
                                  !.mtime = IF found[t][k].data = NoData THEN @ ELSE 2]
<1> DEFINE l == found[t][k]
           x == files[t][l.path]
           m == IF l.data = NoData THEN l.mtime ELSE 2
           u == [l EXCEPT !.data = x, !.mtime = m]
<1>1. l \in Line
  BY CkParts
<1>2. u.path = l.path /\ u.type = l.type /\ u.minus = l.minus /\ u.data = x
  BY <1>1 DEF Line
<1>3. Refreshed(t)[k] = IF k \in Checked(t) /\ l.data # x THEN u ELSE l
  BY DEF Refreshed
<1>4. u = [l EXCEPT !.data = x, !.mtime = IF l.data = NoData THEN @ ELSE 2]
  OBVIOUS
<1> HIDE DEF u
<1> QED
  BY <1>2, <1>3, <1>4

LEMMA RefreshedWhole ==
  ASSUME Types, NEW t \in Tran, NEW s \in Seq(Line), Len(s) = Len(found[t]),
         \A k \in 1..Len(s) : s[k] = Refreshed(t)[k]
  PROVE  s = Refreshed(t)
<1>1. found[t] \in Seq(Line)
  BY CkParts
<1>2. DOMAIN found[t] = 1..Len(s)
  BY <1>1
<1>3. Refreshed(t) = [k \in 1..Len(s) |-> Refreshed(t)[k]]
  BY <1>2 DEF Refreshed
<1>4. s = [k \in 1..Len(s) |-> s[k]]
  OBVIOUS
<1> QED
  BY <1>3, <1>4, Zenon

(* ... is what lcksum(1) wants it to be                                     *)
LEMMA RefreshedRight ==
  ASSUME Types, NEW t \in Tran
  PROVE  Updated(Refreshed(t), t) /\ (~Differs(t) => Updated(found[t], t))
<1>1. DOMAIN Refreshed(t) = DOMAIN found[t] /\ DOMAIN UpToDate(t) = DOMAIN found[t]
  BY DEF Refreshed, UpToDate
<1>2. ASSUME NEW k \in DOMAIN found[t]
      PROVE  \/ Refreshed(t)[k] = UpToDate(t)[k]
             \/ /\ k \in Checked(t) /\ found[t][k].data = NoData
                /\ Refreshed(t)[k] = [UpToDate(t)[k] EXCEPT !.mtime = 1]
  <2> DEFINE l == found[t][k]
             x == files[t][l.path]
             m == IF l.data = NoData THEN l.mtime ELSE 2
             u == [l EXCEPT !.data = x, !.mtime = m]
             w == [l EXCEPT !.data = x, !.mtime = 2]
  <2>0. found[t] \in Seq(Line)
    BY CkParts
  <2>a. l \in Line
    BY <1>2, <2>0
  <2>1. l \in Line /\ l.mtime \in {1, 2}
    BY <2>a DEF Line
  <2>2. Refreshed(t)[k] = IF k \in Checked(t) /\ l.data # x THEN u ELSE l
    BY <1>2 DEF Refreshed
  <2>3. UpToDate(t)[k] = IF k \in Checked(t) /\ l.data # x THEN w ELSE l
    BY <1>2 DEF UpToDate
  <2>4. l.data # NoData \/ l.mtime = 2 => u = w
    OBVIOUS
  <2>5. l.data = NoData /\ l.mtime = 1 => u = [w EXCEPT !.mtime = 1]
    BY <2>1 DEF Line
  <2> HIDE DEF u, w
  <2> QED
    BY <2>1, <2>2, <2>3, <2>4, <2>5
<1>3. ~Differs(t) => \A k \in DOMAIN found[t] : UpToDate(t)[k] = found[t][k]
  BY DEF Differs, UpToDate
<1> QED
  BY <1>1, <1>2, <1>3 DEF Updated

LEMMA RefreshedLength ==
  ASSUME Types, NEW t \in Tran, NEW s \in Seq(Line), s = Refreshed(t)
  PROVE  Len(s) = Len(found[t])
<1>1. found[t] \in Seq(Line) /\ DOMAIN s = DOMAIN found[t]
  BY CkParts DEF Refreshed
<1> QED
  BY <1>1

LEMMA StartKeeps ==
  ASSUME Types, Replaced, Cksum, CkStart
  PROVE  Replaced' /\ CopySoFar'
<1>1. /\ CkAt("idle") /\ ck' = [ck EXCEPT !.pc = "next"] /\ found' = tran
      /\ UNCHANGED <<repository, ckOpt, copy, pending, ckExit, faults>>
  BY DEF CkStart
<1>2. ck'.pc = "next" /\ \A t \in Tran : pending[t] = <<>>
  BY <1>1, CkParts DEF CkState, Replaced
<1> QED
  BY <1>1, <1>2 DEF Replaced, CopySoFar, CkAt, repository

(* Steps that put nothing in the place of a transcript                      *)
LEMMA SameReplaced ==
  ASSUME Types, Replaced, ck.pc \notin {"idle", "done"}, ck'.pc # "idle", UNCHANGED <<repository, ckOpt, pending, found>>
  PROVE  Replaced'
<1>1. ck.pc # "idle" /\ ck.pc # "done"
  OBVIOUS
<1> SUFFICES ASSUME NEW t \in Tran
             PROVE  /\ pending[t] = <<>> => tran[t] = found[t]
                    /\ pending[t] # <<>> =>
                         /\ ckOpt.update /\ t \in Targets' /\ ~Faulty(t)' /\ Differs(t)'
                         /\ pending[t] = Refreshed(t)'
                         /\ Len(tran[t]) <= Len(found[t])
                         /\ \A k \in DOMAIN tran[t] : tran[t][k] = Refreshed(t)'[k]
  BY DEF Replaced, CkAt, repository
<1>2. /\ Targets' = Targets /\ (Faulty(t) <=> Faulty(t)') /\ (Differs(t) <=> Differs(t)')
      /\ Refreshed(t)' = Refreshed(t)
  BY MeaningKept DEF repository
<1> QED
  BY <1>1, <1>2 DEF Replaced, CkAt

(* The copy is longer by a line                                             *)
LEMMA Longer ==
  ASSUME Types, NEW l \in Line, ckOpt.update, Copied(l)
  PROVE  /\ Len(copy') = Len(copy) + 1 /\ copy'[Len(copy) + 1] = l
         /\ \A k \in 1..Len(copy) : copy'[k] = copy[k]
<1>1. copy \in Seq(Line) /\ copy' = Append(copy, l)
  BY CkParts, CopiedTyped
<1> QED
  BY <1>1

(* ... as it should be                                                      *)
LEMMA LongerRight ==
  ASSUME Types, Replaced, CopySoFar, ck.pc = "line", ck.at <= Len(tran[T]), ckOpt.update,
         pending[T] = <<>>, Passed \/ NoFile \/ Same \/ Other
  PROVE  /\ Row = found[T][ck.at] /\ ck.at \in DOMAIN found[T]
         /\ Len(copy') = ck.at /\ \A k \in 1..ck.at : copy'[k] = Refreshed(T)[k]
<1>1. tran[T] = found[T] /\ T \in Tran /\ Row \in Line /\ ck.at \in DOMAIN tran[T] /\ ck.at \in Nat
  BY AtTyped, CkParts DEF Replaced, CkAt
<1>2. Row = found[T][ck.at] /\ ck.at \in DOMAIN found[T]
  BY <1>1 DEF Row
<1>3. /\ Len(copy) = ck.at - 1
      /\ \A k \in 1..(ck.at - 1) : copy[k] = Refreshed(T)[k]
  BY DEF CopySoFar
<1> DEFINE u == Refreshed(T)[ck.at]
           k0 == ck.at
<1>a. /\ k0 \notin Checked(T) => Refreshed(T)[k0] = found[T][k0]
      /\ found[T][k0].data = files[T][found[T][k0].path] => Refreshed(T)[k0] = found[T][k0]
  <2>1. T \in Tran /\ k0 \in DOMAIN found[T]
    BY <1>1, <1>2
  <2> HIDE DEF k0
  <2> QED
    BY <2>1, RefreshedLine
<1>b. (ck.at \notin Checked(T) \/ Row.data = files[T][Row.path]) => Row = u
  BY <1>2, <1>a
<1> HIDE DEF u
<1>4. \E l \in Line : Copied(l) /\ l = u
  <2>1. CASE Passed
    <3>1. ck.at \notin Checked(T)
      BY <1>2, <2>1 DEF Passed, Checked, Within
    <3> QED
      BY <1>1, <1>b, <2>1, <3>1 DEF Passed
  <2>2. CASE NoFile
    <3>1. ck.at \notin Checked(T)
      BY <1>2, <2>2, LineTyped DEF NoFile, Checked, FileLines
    <3> QED
      BY <1>1, <1>b, <2>2, <3>1 DEF NoFile
  <2>3. CASE Same
    BY <1>1, <1>b, <2>3 DEF Same
  <2>4. CASE Other
    <3>1. ck.at \in Checked(T)
      BY <1>2, <2>4 DEF Other, Good, InOrder2, PositiveFile, Checked, Within, FileLines
    <3>2. Row.data # files[T][Row.path] /\ IsFile(files[T][Row.path])
      BY <2>4 DEF Other, Good
    <3>3. u = [Row EXCEPT !.data = files[T][Row.path], !.mtime = IF Row.data = NoData THEN @ ELSE 2]
      <4> DEFINE n == ck.at
      <4>1. T \in Tran /\ n \in DOMAIN found[T] /\ Row = found[T][n] /\ n \in Checked(T)
        BY <1>1, <1>2, <3>1
      <4>2. u = Refreshed(T)[n]
        BY DEF u
      <4> HIDE DEF n
      <4>3. Refreshed(T)[n] = [found[T][n] EXCEPT !.data = files[T][found[T][n].path],
                                !.mtime = IF found[T][n].data = NoData THEN @ ELSE 2]
        BY <3>2, <4>1, RefreshedLine, ZenonT(20)
      <4> QED
        BY <4>1, <4>2, <4>3, ZenonT(20)
    <3>4. Right(Row) \in Line /\ Right(Row) = u
      BY <1>1, <3>2, <3>3, RightTyped
    <3> QED
      BY <2>4, <3>4 DEF Other
  <2> QED
    BY <2>1, <2>2, <2>3, <2>4
<1>5. /\ Len(copy') = Len(copy) + 1 /\ copy'[Len(copy) + 1] = u
      /\ \A k \in 1..Len(copy) : copy'[k] = copy[k]
  BY <1>4, Longer
<1>6. Len(copy') = ck.at /\ copy'[ck.at] = u
  BY <1>1, <1>3, <1>5
<1>7. \A k \in 1..(ck.at - 1) : copy'[k] = Refreshed(T)[k]
  BY <1>3, <1>5
<1>8. \A k \in 1..ck.at : k \in 1..(ck.at - 1) \/ k = ck.at
  BY <1>1
<1> QED
  BY <1>2, <1>6, <1>7, <1>8 DEF u

(* A copy that has taken the place of its transcript does not differ        *)
LEMMA NotAgain ==
  ASSUME Types, Replaced, ck.pc = "line", ck.at <= Len(tran[T]), pending[T] # <<>>
  PROVE  ~Other
<1>1. SUFFICES ASSUME Other PROVE FALSE
  OBVIOUS
<1>2. /\ T \in Tran /\ Row \in Line /\ ck.at \in DOMAIN tran[T] /\ ck.at \in Nat
      /\ found[T] \in Seq(Line) /\ tran[T] \in Seq(Line)
  BY AtTyped, CkParts
<1>3. Row = Refreshed(T)[ck.at] /\ Len(tran[T]) <= Len(found[T])
  BY <1>2 DEF Replaced, CkAt, Row
<1>4. ck.at \in DOMAIN found[T]
  BY <1>2, <1>3
<1>5. /\ Row.path = found[T][ck.at].path /\ Row.type = found[T][ck.at].type
      /\ Row.minus = found[T][ck.at].minus
  BY <1>2, <1>3, <1>4, RefreshedLine
<1>6. ck.at \in Checked(T)
  BY <1>1, <1>4, <1>5 DEF Other, Good, InOrder2, PositiveFile, Checked, Within, FileLines
<1> DEFINE k0 == ck.at
<1>7. Refreshed(T)[k0].data = files[T][found[T][k0].path]
  <2>1. T \in Tran /\ k0 \in DOMAIN found[T] /\ k0 \in Checked(T)
    BY <1>2, <1>4, <1>6
  <2> HIDE DEF k0
  <2> QED
    BY <2>1, RefreshedLine
<1> QED
  BY <1>1, <1>3, <1>5, <1>7 DEF Other

LEMMA LineKeeps ==
  ASSUME Types, Types', Replaced, CopySoFar, Cksum, CkLine
  PROVE  Replaced' /\ CopySoFar'
<1>1. /\ ck.pc = "line" /\ ck.at <= Len(tran[T]) /\ ck.pc # "idle"
      /\ UNCHANGED <<repository, ckOpt, pending, found, faults>>
  BY LineCases
<1>2. CASE Leave("2")
  <2>1. ck'.pc = "exit"
    BY <1>2, LeaveTyped
  <2> QED
    BY <1>1, <2>1, SameReplaced DEF CopySoFar
<1>3. CASE BadLine
  <2>1. /\ ck'.pc \in {"end", "exit", "done"} /\ (ckOpt.update => ck'.pc # "end")
        /\ ck'.n = ck.n
    BY <1>1, <1>3, BadTyped
  <2>2. Replaced'
    BY <1>1, <2>1, SameReplaced
  <2>3. CASE ck'.pc = "end"
    <3>1. ~ckOpt.update /\ T' = T /\ T \in Tran
      BY <1>1, <2>1, <2>3, AtTyped DEF T
    <3>2. pending[T] = <<>>
      BY <1>1, <3>1 DEF Replaced, CkAt
    <3> QED
      BY <1>1, <2>2, <3>1, <3>2 DEF CopySoFar
  <2> QED
    BY <2>1, <2>2, <2>3 DEF CopySoFar
<1>4. CASE Passed \/ NoFile \/ Same \/ Other
  <2>1. ck' \in {Next2, Read2, Counted2}
    BY <1>4 DEF Passed, NoFile, Same, Other
  <2>2. /\ ck'.pc = "line" /\ ck'.at = ck.at + 1 /\ ck'.n = ck.n
        /\ ck' = Next2 => ck'.pre = ck.pre /\ ck'.ucount = ck.ucount
        /\ ck' = Read2 => ck'.pre = Row.path /\ ck'.ucount = ck.ucount
        /\ ck' = Counted2 => ck'.pre = Row.path
    BY <1>1, <2>1, CountTyped
  <2>3. T' = T /\ T \in Tran /\ tran' = tran /\ files' = files /\ ck.at \in Nat
    BY <1>1, <2>2, AtTyped, CkParts DEF T, repository
  <2>4. Replaced'
    BY <1>1, <2>2, SameReplaced
  <2>5. ASSUME pending[T] # <<>> PROVE ck'.ucount = 0
    <3>1. ~Other /\ ck.ucount = 0
      BY <1>1, <2>5, NotAgain DEF CopySoFar
    <3> QED
      BY <1>4, <2>2, <3>1 DEF Passed, NoFile, Same
  <2>6. ASSUME pending[T] = <<>>, ckOpt.update
        PROVE  /\ ck'.at <= Len(tran[T]) + 1 /\ Len(copy') = ck'.at - 1
               /\ \A k \in 1..(ck'.at - 1) : copy'[k] = Refreshed(T)[k]
               /\ \A k \in Within(T) : k < ck'.at => found[T][k].path <= ck'.pre
               /\ \A k, m \in Within(T) : k < m /\ m < ck'.at => found[T][k].path < found[T][m].path
               /\ \A k \in Checked(T) : k < ck'.at => IsFile(files[T][found[T][k].path])
               /\ ck'.ucount > 0 =>
                    \E k \in Checked(T) : k < ck'.at /\ found[T][k].data # files[T][found[T][k].path]
    <3>1. /\ Row = found[T][ck.at] /\ ck.at \in DOMAIN found[T]
          /\ Len(copy') = ck.at /\ \A k \in 1..ck.at : copy'[k] = Refreshed(T)[k]
      BY <1>1, <1>4, <2>6, LongerRight
    <3>2. /\ \A k \in Within(T) : k < ck.at => found[T][k].path <= ck.pre
          /\ \A k, m \in Within(T) : k < m /\ m < ck.at => found[T][k].path < found[T][m].path
          /\ \A k \in Checked(T) : k < ck.at => IsFile(files[T][found[T][k].path])
          /\ ck.ucount > 0 =>
               \E k \in Checked(T) : k < ck.at /\ found[T][k].data # files[T][found[T][k].path]
      BY <1>1, <2>6 DEF CopySoFar
    <3>3. \A k \in Within(T) : k \in Nat /\ found[T][k].path \in Nat /\ (k < ck'.at => k < ck.at \/ k = ck.at)
      <4>1. \A k \in DOMAIN found[T] : k \in Nat /\ found[T][k] \in Line
        BY <2>3, CkParts
      <4> QED
        BY <2>2, <2>3, <4>1, LineTyped DEF Within
    <3>4. Checked(T) \subseteq Within(T)
      BY DEF Checked
    <3>5. ck.pre \in Nat /\ Row.path \in Nat
      BY <1>1, AtTyped, LineTyped, CkParts DEF Path
    <3>6. ck.at \in Within(T) => ck'.pre = Row.path /\ ck.pre < Row.path
      BY <1>4, <2>2, <3>1, <3>5 DEF Passed, NoFile, Same, Other, Good, InOrder2, Within
    <3>7. ck'.pre \in {ck.pre, Row.path} /\ (ck.at \notin Within(T) => ck'.pre = ck.pre)
      BY <1>4, <2>1, <2>2, <3>1 DEF Passed, NoFile, Same, Other, Good, InOrder2, Within
    <3>8. ck.at \in Checked(T) => IsFile(files[T][found[T][ck.at].path])
      BY <1>4, <3>1 DEF Passed, NoFile, Same, Other, Good, Checked, Within, FileLines
    <3>9. ck'.ucount = ck.ucount \/
            (ck.at \in Checked(T) /\ found[T][ck.at].data # files[T][found[T][ck.at].path])
      BY <1>4, <2>2, <3>1 DEF Passed, NoFile, Same, Other, Good, InOrder2, PositiveFile, Checked, Within, FileLines
    <3>10. \A k \in Within(T) : k < ck'.at => found[T][k].path <= ck'.pre
      BY <2>2, <3>1, <3>2, <3>3, <3>5, <3>6, <3>7
    <3>11. \A k, m \in Within(T) : k < m /\ m < ck'.at => found[T][k].path < found[T][m].path
      BY <2>2, <2>3, <3>1, <3>2, <3>3, <3>5, <3>6
    <3>12. \A k \in Checked(T) : k < ck'.at => IsFile(files[T][found[T][k].path])
      BY <3>2, <3>3, <3>4, <3>8
    <3>13. ck'.ucount > 0 =>
             \E k \in Checked(T) : k < ck'.at /\ found[T][k].data # files[T][found[T][k].path]
      BY <2>2, <2>3, <3>2, <3>3, <3>4, <3>9
    <3>14. ck'.at <= Len(tran[T]) + 1 /\ Len(copy') = ck'.at - 1
      BY <1>1, <2>2, <2>3, <3>1, AtTyped
    <3>15. \A k \in 1..(ck'.at - 1) : copy'[k] = Refreshed(T)[k]
      BY <2>2, <2>3, <3>1
    <3> QED
      BY <3>10, <3>11, <3>12, <3>13, <3>14, <3>15
  <2>7. /\ Within(T)' = Within(T) /\ Checked(T)' = Checked(T) /\ Refreshed(T)' = Refreshed(T)
    BY <1>1, <2>3, MeaningKept DEF repository, Within, Checked, Refreshed, FileLines
  <2>8. CopySoFar'
    BY <1>1, <2>2, <2>3, <2>5, <2>6, <2>7 DEF CopySoFar
  <2> QED
    BY <2>4, <2>8
<1> QED
  BY <1>2, <1>3, <1>4, LineCases

LEMMA EofKeeps ==
  ASSUME Types, Replaced, CopySoFar, Cksum, CkEof
  PROVE  Replaced' /\ CopySoFar'
<1>1. /\ ck.pc = "line" /\ ck.at > Len(tran[T]) /\ ck'.pc = "end"
      /\ ck'.n = ck.n /\ ck'.at = ck.at /\ ck'.pre = ck.pre /\ ck'.ucount = ck.ucount
      /\ UNCHANGED <<repository, ckOpt, copy, pending, found>>
  BY CkEofTypes DEF CkEof
<1>2. T' = T /\ T \in Tran /\ Len(tran[T]) \in Nat /\ ck.at \in Nat
  BY <1>1, AtTyped, CkParts DEF T
<1>3. Replaced'
  BY <1>1, SameReplaced
<1>4. /\ Within(T)' = Within(T) /\ Checked(T)' = Checked(T) /\ Refreshed(T)' = Refreshed(T)
  BY <1>1, <1>2 DEF repository, Within, Checked, Refreshed, FileLines
<1>5. CopySoFar'
  BY <1>1, <1>2, <1>4 DEF CopySoFar, repository
<1> QED
  BY <1>3, <1>5

LEMMA TornKeeps ==
  ASSUME Types, Replaced, CopySoFar, Cksum, CkTorn
  PROVE  Replaced' /\ CopySoFar'
<1>1. ck.pc = "line" /\ BadLine /\ UNCHANGED <<repository, ckOpt, pending, found, faults>>
  BY DEF CkTorn, CkAt
<1>2. ck'.pc \in {"end", "exit", "done"} /\ (ckOpt.update => ck'.pc # "end") /\ ck'.n = ck.n
  BY <1>1, BadTyped
<1>3. Replaced'
  BY <1>1, <1>2, SameReplaced
<1>4. CASE ck'.pc = "end"
  <2>1. ~ckOpt.update /\ T' = T /\ T \in Tran
    BY <1>1, <1>2, <1>4, AtTyped DEF T
  <2>2. pending[T] = <<>>
    BY <1>1, <2>1 DEF Replaced, CkAt
  <2> QED
    BY <1>1, <1>3, <2>1, <2>2 DEF CopySoFar
<1> QED
  BY <1>2, <1>3, <1>4 DEF CopySoFar

LEMMA OpenKeeps ==
  ASSUME Types, Replaced, Cksum, CkOpen
  PROVE  Replaced' /\ CopySoFar'
<1>1. /\ Types' /\ ck'.pc \in {"exit", "line"} /\ ck.pc = "next"
      /\ ck'.pc = "line" => ck'.at = 1 /\ ck'.pre = 0 /\ ck'.ucount = 0 /\ copy' = <<>>
      /\ UNCHANGED <<repository, ckOpt, pending, found>>
  BY CkOpenTypes DEF CkOpen, CkAt
<1>2. Replaced'
  BY <1>1, SameReplaced
<1>3. CASE ck'.pc = "line"
  <2>1. T' \in Tran /\ Len(tran'[T']) \in Nat /\ found'[T'] \in Seq(Line)
    <3>1. /\ ck'.n \in 1..Len(ckOpt'.targets) /\ ckOpt'.targets \in Seq(Tran)
          /\ tran' \in [Tran -> Seq(Line)] /\ found' \in [Tran -> Seq(Line)]
      BY <1>1, <1>3 DEF Types, CkTypeOK, MergeTypeOK, CkState, CkOptions
    <3>2. T' \in Tran
      BY <3>1 DEF T
    <3> QED
      BY <3>1, <3>2
  <2>2. \A k \in DOMAIN found'[T'] : ~(k < 1)
    BY <2>1
  <2>3. \A k \in Within(T)' : ~(k < 1)
    BY <2>2 DEF Within
  <2>4. \A k \in Checked(T)' : ~(k < 1)
    BY <2>3 DEF Checked, Within
  <2> QED
    BY <1>1, <1>2, <1>3, <2>1, <2>3, <2>4 DEF CopySoFar
<1> QED
  BY <1>1, <1>2, <1>3 DEF CopySoFar

(* The copy that takes the place of a transcript is that transcript, up to  *)
(* date                                                                     *)
LEMMA CopyRight ==
  ASSUME Types, Replaced, CopySoFar, ck.pc = "end", ckOpt.update, ck.ucount > 0
  PROVE  /\ pending[T] = <<>> /\ copy = Refreshed(T) /\ copy # <<>> /\ T \in Targets /\ T \in Tran
         /\ Len(copy) = Len(found[T]) /\ copy \in Seq(Line) /\ ~Faulty(T) /\ Differs(T)
<1>1. ck.ucount \in Nat /\ copy \in Seq(Line) /\ found[T] \in Seq(Line) /\ T \in Tran /\ T \in Targets
  BY AtTyped, CkParts
<1>2. pending[T] = <<>> /\ tran[T] = found[T]
  BY <1>1 DEF CopySoFar, Replaced, CkAt
<1>3. /\ ck.at = Len(found[T]) + 1 /\ Len(copy) = ck.at - 1
      /\ \A k \in 1..(ck.at - 1) : copy[k] = Refreshed(T)[k]
  BY <1>2 DEF CopySoFar
<1>4. Len(copy) = Len(found[T]) /\ \A k \in 1..Len(copy) : copy[k] = Refreshed(T)[k]
  BY <1>1, <1>3
<1>5. copy = Refreshed(T)
  BY <1>1, <1>4, RefreshedWhole
<1>6. \A k \in Within(T) : k < ck.at /\ k \in Nat
  BY <1>1, <1>3 DEF Within
<1>7. /\ \A k, m \in Within(T) : k < m /\ m < ck.at => found[T][k].path < found[T][m].path
      /\ \A k \in Checked(T) : k < ck.at => IsFile(files[T][found[T][k].path])
      /\ \E k \in Checked(T) : found[T][k].data # files[T][found[T][k].path]
  BY <1>2 DEF CopySoFar
<1>8. Differs(T)
  BY <1>7 DEF Differs
<1>9. \A k \in Within(T) : found[T][k].path \in Nat
  BY <1>1, LineTyped DEF Within
<1>10. Checked(T) \subseteq Within(T)
  BY DEF Checked
<1>11. ~Faulty(T)
  BY <1>6, <1>7, <1>9, <1>10 DEF Faulty
<1>12. copy # <<>>
  <2>1. PICK k \in Within(T) : TRUE
    BY <1>7, <1>10
  <2>2. k \in 1..Len(found[T])
    BY <1>1, <2>1 DEF Within
  <2> QED
    BY <1>1, <1>4, <2>2
<1> QED
  BY <1>1, <1>2, <1>4, <1>5, <1>8, <1>11, <1>12

LEMMA EndKeeps ==
  ASSUME Types, Replaced, CopySoFar, Cksum, CkEnd
  PROVE  Replaced' /\ CopySoFar'
<1>1. /\ ck.pc = "end" /\ UNCHANGED <<files, ckOpt, copy, found, ckExit, faults>>
      /\ ck'.pc \in {"next", "exit"}
  BY CkEndCases
<1>2. CopySoFar'
  BY <1>1 DEF CopySoFar
<1>3. CASE UNCHANGED <<tran, torn, pending>>
  BY <1>1, <1>2, <1>3, SameReplaced DEF repository
<1>4. CASE /\ ckOpt.update /\ ck.ucount > 0
           /\ pending' = [pending EXCEPT ![T] = copy]
           /\ \E k \in 0..Len(copy) : tran' = [tran EXCEPT ![T] = SubSeq(copy, 1, k)]
  <2>1. /\ pending[T] = <<>> /\ copy = Refreshed(T) /\ copy # <<>> /\ T \in Targets /\ T \in Tran
        /\ Len(copy) = Len(found[T]) /\ copy \in Seq(Line) /\ ~Faulty(T) /\ Differs(T)
    BY <1>1, <1>4, CopyRight
  <2>2. PICK k \in 0..Len(copy) : tran' = [tran EXCEPT ![T] = SubSeq(copy, 1, k)]
    BY <1>4
  <2>3. /\ Len(SubSeq(copy, 1, k)) = k /\ k <= Len(found[T])
        /\ \A m \in DOMAIN SubSeq(copy, 1, k) : SubSeq(copy, 1, k)[m] = copy[m]
    BY <2>1, <2>2, PartTyped
  <2>4. tran \in [Tran -> Seq(Line)] /\ pending \in [Tran -> Seq(Line)]
    BY MergeParts, CkParts
  <2>5. ASSUME NEW t \in Tran
        PROVE  /\ pending'[t] = <<>> => tran'[t] = found[t]
               /\ pending'[t] # <<>> =>
                    /\ ckOpt.update /\ t \in Targets /\ ~Faulty(t) /\ Differs(t)
                    /\ pending'[t] = Refreshed(t)
                    /\ Len(tran'[t]) <= Len(found[t])
                    /\ \A m \in DOMAIN tran'[t] : tran'[t][m] = Refreshed(t)[m]
    <3>1. CASE t = T
      <4>1. tran'[t] = SubSeq(copy, 1, k) /\ pending'[t] = copy
        BY <1>4, <2>2, <2>4, <3>1
      <4> QED
        BY <1>4, <2>1, <2>3, <3>1, <4>1
    <3>2. CASE t # T
      <4>1. tran'[t] = tran[t] /\ pending'[t] = pending[t]
        BY <1>4, <2>2, <2>4, <3>2
      <4> QED
        BY <1>1, <4>1 DEF Replaced, CkAt
    <3> QED
      BY <3>1, <3>2
  <2>6. \A t \in Tran : /\ Targets' = Targets /\ (Faulty(t) <=> Faulty(t)') /\ (Differs(t) <=> Differs(t)')
                        /\ Refreshed(t)' = Refreshed(t)
    BY <1>1, MeaningKept
  <2>7. Replaced'
    BY <1>1, <2>5, <2>6 DEF Replaced, CkAt
  <2> QED
    BY <1>2, <2>7
<1> QED
  BY <1>3, <1>4, CkEndCases

LEMMA FinishKeeps ==
  ASSUME Types, Replaced, Cksum, CkFinish
  PROVE  Replaced' /\ CopySoFar'
<1>1. /\ ck.pc = "exit" /\ ck'.pc = "done" /\ UNCHANGED <<files, ckOpt, copy, pending, found>>
  BY CkFinishTypes DEF CkFinish, CkAt
<1>2. PICK lost : tran' = [t \in Tran |-> IF pending[t] = <<>> \/ t \in lost THEN tran[t] ELSE pending[t]]
  BY DEF CkFinish
<1>3. \A t \in Tran : /\ Targets' = Targets /\ (Faulty(t) <=> Faulty(t)') /\ (Differs(t) <=> Differs(t)')
                      /\ Refreshed(t)' = Refreshed(t)
  BY <1>1, MeaningKept
<1>4. \A t \in Tran : pending[t] = <<>> => tran'[t] = tran[t]
  BY <1>2
<1>5. \A t \in Tran : tran'[t] \in {tran[t], pending[t]}
  BY <1>2
<1>6. ASSUME NEW t \in Tran, pending[t] # <<>>
      PROVE  Len(tran'[t]) <= Len(found[t]) /\ \A k \in DOMAIN tran'[t] : tran'[t][k] = Refreshed(t)[k]
  <2>1. /\ pending[t] = Refreshed(t) /\ Len(tran[t]) <= Len(found[t])
        /\ \A k \in DOMAIN tran[t] : tran[t][k] = Refreshed(t)[k]
    BY <1>1, <1>6 DEF Replaced, CkAt
  <2>2. pending[t] \in Seq(Line) /\ found[t] \in Seq(Line)
    BY CkParts
  <2>3. Len(pending[t]) = Len(found[t])
    BY <2>1, <2>2, RefreshedLength
  <2> QED
    BY <1>5, <2>1, <2>2, <2>3
<1> QED
  BY <1>1, <1>3, <1>4, <1>6 DEF Replaced, CkAt, CopySoFar

LEMMA FailKeeps ==
  ASSUME Types, Replaced, Cksum, CkFails \/ CkKilled
  PROVE  Replaced' /\ CopySoFar'
<1>1. /\ ck.pc \notin {"idle", "done"} /\ ck'.pc \in {"exit", "done"}
      /\ UNCHANGED <<repository, ckOpt, copy, pending, found>>
  BY CkEndsTypes DEF CkFails, CkKilled
<1> QED
  BY <1>1, SameReplaced DEF CopySoFar

LEMMA CksumKeeps ==
  ASSUME Types, Replaced, CopySoFar, Cksum
  PROVE  Types' /\ Replaced' /\ CopySoFar'
BY CksumTypes, StartKeeps, OpenKeeps, LineKeeps, EofKeeps, TornKeeps, EndKeeps, FinishKeeps, FailKeeps
DEF Cksum, CkNext, CkStep
-----------------------------------------------------------------------------
(* What lmerge does to transcripts and files                                *)

LEMMA RigidKept ==
  ASSUME UNCHANGED <<opt, was>>
  PROVE  /\ Reader' = Reader /\ Dest' = Dest /\ (SafeNew <=> SafeNew') /\ (SafeOld <=> SafeOld')
         /\ \A p \in Path : Listing(p)' = Listing(p)
BY DEF Reader, Dest, SafeNew, SafeOld, InOrder, Complete, Listing

LEMMA WasTyped ==
  ASSUME Types, NEW t \in Tran
  PROVE  was.tran[t] \in Seq(Line) /\ was.files[t] \in FileDir
BY DEF Types, Found

(* The lines that are left come after the one a reader is at                *)
LEMMA LeftSorted ==
  ASSUME Types, Others, CkAt("idle"), SafeNew \/ SafeOld, lm.pc \in Loop, NEW r \in Reader
  PROVE  /\ \A k, m \in DOMAIN tran[r] : k < m => tran[r][k].path < tran[r][m].path
         /\ tran[r] = was.tran[r] /\ r \in Tran /\ tran[r] \in Seq(Line)
         /\ \A m \in Rest(r) : m \in DOMAIN tran[r] /\ tran[r][m] \in Line /\ m \in Nat
         /\ \A m \in Rest(r) : ~Eof(r) /\ Cur(r).path <= tran[r][m].path
         /\ \A m \in Rest(r) : m # rd[r].at => m \in (rd[r].at + 1)..Len(tran[r]) /\ Cur(r).path < tran[r][m].path
<1>1. /\ r \in 1..NTran /\ r \in Tran /\ tran[r] \in Seq(Line) /\ Len(tran[r]) \in Nat
      /\ rd[r].at \in Nat \ {0}
  BY Numbers, ReaderTyped
<1>2. tran = was.tran /\ InOrder
  BY DEF Others, Loop, SafeNew, SafeOld
<1>3. \A k, m \in DOMAIN tran[r] : k < m => tran[r][k].path < tran[r][m].path
  BY <1>2 DEF InOrder, Sorted
<1>4. \A m \in Rest(r) : /\ m \in DOMAIN tran[r] /\ tran[r][m] \in Line /\ m \in Nat /\ ~Eof(r)
                         /\ rd[r].at \in DOMAIN tran[r] /\ (m = rd[r].at \/ rd[r].at < m)
  BY <1>1 DEF Rest, Eof
<1>5. \A m \in Rest(r) : Cur(r).path \in Nat /\ tran[r][m].path \in Nat
  BY <1>1, <1>4, LineTyped DEF Cur
<1>6. \A m \in Rest(r) : m # rd[r].at => Cur(r).path < tran[r][m].path
  BY <1>3, <1>4 DEF Cur
<1>7. \A m \in Rest(r) : m # rd[r].at => m \in (rd[r].at + 1)..Len(tran[r])
  BY <1>1 DEF Rest
<1>8. \A m \in Rest(r) : m = rd[r].at => tran[r][m] = Cur(r)
  BY DEF Cur
<1> QED
  BY <1>1, <1>2, <1>3, <1>4, <1>5, <1>6, <1>7, <1>8

(* When a reader goes on, fewer lines are left                              *)
LEMMA RestAdvanced ==
  ASSUME Types, NEW r \in 1..NTran, ~Eof(r), rd' = Advanced(r), UNCHANGED tran, NEW q \in 1..NTran
  PROVE  /\ q # r => rd'[q] = rd[q] /\ Rest(q)' = Rest(q) /\ Eof(q)' = Eof(q)
         /\ Rest(r)' = (rd[r].at + 1)..Len(tran[r])
         /\ \A m \in Rest(q)' : m \in Rest(q) /\ (q = r => m # rd[r].at)
<1>1. rd'[r].at = rd[r].at + 1 /\ (q # r => rd'[q] = rd[q])
  BY AdvancedTyped
<1>2. rd[r].at \in Nat /\ Len(tran[r]) \in Nat
  BY ReaderTyped
<1>3. /\ q # r => rd'[q] = rd[q] /\ Rest(q)' = Rest(q) /\ Eof(q)' = Eof(q)
      /\ Rest(r)' = (rd[r].at + 1)..Len(tran[r])
  BY <1>1 DEF Rest, Eof
<1>4. \A m \in (rd[r].at + 1)..Len(tran[r]) : m \in rd[r].at..Len(tran[r]) /\ m # rd[r].at
  BY <1>2
<1> QED
  BY <1>3, <1>4 DEF Rest

(* The line of a reader that is in a loadset that is complete               *)
LEMMA FileOfLine ==
  ASSUME NEW lines \in Seq(Line), NEW fd, Backed(lines, fd), NEW k \in DOMAIN lines, PositiveFile(lines[k])
  PROVE  fd[lines[k].path] = lines[k].data
BY DEF Backed, FileLines, PositiveFile

(* What is not touched where the file of a line is                          *)
LEMMA BackedKept ==
  ASSUME NEW lines \in Seq(Line), NEW fd, NEW gd, Backed(lines, fd),
         \A q \in Path : IsFile(fd[q]) => gd[q] = fd[q]
  PROVE  Backed(lines, gd)
<1>1. \A k \in FileLines(lines) : lines[k] \in Line
  BY DEF FileLines
<1> QED
  BY <1>1, LineTyped DEF Backed

LEMMA BackedPart ==
  ASSUME NEW s \in Seq(Line), NEW fd, Backed(s, fd), NEW k \in 0..Len(s)
  PROVE  Backed(SubSeq(s, 1, k), fd)
<1>1. \A m \in DOMAIN SubSeq(s, 1, k) : m \in DOMAIN s /\ SubSeq(s, 1, k)[m] = s[m]
  BY PartTyped
<1> QED
  BY <1>1 DEF Backed, FileLines

LEMMA BackedMore ==
  ASSUME NEW s \in Seq(Line), NEW fd, Backed(s, fd), NEW l \in Line, PositiveFile(l) => fd[l.path] = l.data
  PROVE  Backed(Append(s, l), fd)
<1>1. \A m \in DOMAIN Append(s, l) : (m \in DOMAIN s /\ Append(s, l)[m] = s[m]) \/ Append(s, l)[m] = l
  OBVIOUS
<1> QED
  BY <1>1 DEF Backed, FileLines, PositiveFile

(* Files stay where they are when another one is put where nothing is       *)
LEMMA PutKeeps ==
  ASSUME Types, HasCand, Target[Cand.path] = Nothing, NEW x \in Data \cup {Nothing, Folder, Part}
  PROVE  \A q \in Path : IsFile(Target[q]) => PutAs(x)[q] = Target[q]
BY PutAsTyped DEF IsFile

LEMMA DirsKeep ==
  ASSUME Types, HasCand
  PROVE  \A q \in Path : IsFile(Target[q]) => MkDirs(Target, Cand.path)[q] = Target[q]
BY MkDirsTyped, TargetTyped, SourceTyped DEF IsFile
-----------------------------------------------------------------------------
(* The end of lmerge, wherever it comes                                     *)
LEMMA StopKeeps ==
  ASSUME Types, MInv, CkAt("idle"), Merging, UNCHANGED <<opt, was, ckOwn, tran>>, lm'.pc = "done",
         \A t \in Tran \ {Dest} : files'[t] = files[t],
         ~opt.force => files' = files,
         opt.force => \A q \in Path : IsFile(files[2][q]) => files'[2][q] = files[2][q],
         lm.pc = "flush" => files' = files
  PROVE  MInv'
<1>1. /\ Reader' = Reader /\ Dest' = Dest /\ (SafeNew <=> SafeNew') /\ (SafeOld <=> SafeOld')
      /\ \A p \in Path : Listing(p)' = Listing(p)
  BY RigidKept
<1>2. Others'
  <2>1. \A t \in Tran \ {Dest} : tran'[t] = was.tran[t] /\ files'[t] = was.files[t]
    BY DEF MInv, Others
  <2>2. opt.force => \A p \in Path :
          Listing(p) = {2} /\ IsFile(was.files[2][p]) => files'[2][p] = was.files[2][p]
    BY DEF MInv, Others
  <2> QED
    BY <1>1, <2>1, <2>2 DEF Others
<1>3. NewBacked'
  BY <1>1, Numbers DEF MInv, NewBacked, SafeNew
<1>4. OldBacked'
  <2>1. CASE lm.pc = "flush"
    BY <1>1, <2>1 DEF MInv, OldBacked
  <2>2. CASE lm.pc # "flush"
    <3>1. tran' = was.tran
      BY <2>2 DEF MInv, Others, Merging
    <3> QED
      BY <3>1 DEF OldBacked
  <2> QED
    BY <2>1, <2>2
<1>5. FilesFirst' /\ InTurn'
  BY DEF FilesFirst, InTurn, Loop
<1> QED
  BY <1>2, <1>3, <1>4, <1>5 DEF MInv

(* A step that touches no file                                              *)
LEMMA QuietKeeps ==
  ASSUME Types, MInv, CkAt("idle"), UNCHANGED <<opt, was, ckOwn, repository, tmp>>,
         lm.pc \notin {"trans", "flush", "off", "done"}, lm'.pc \notin {"trans", "flush", "off", "done"},
         lm'.pc = "files" => ~opt.force, lm'.pc = "dirs" => opt.force
  PROVE  /\ Others' /\ NewBacked' /\ OldBacked' /\ Made' = Made
         /\ Reader' = Reader /\ (SafeNew <=> SafeNew') /\ (SafeOld <=> SafeOld')
<1>1. /\ Reader' = Reader /\ Dest' = Dest /\ (SafeNew <=> SafeNew') /\ (SafeOld <=> SafeOld')
      /\ \A p \in Path : Listing(p)' = Listing(p)
  BY RigidKept
<1>2. Others'
  BY <1>1 DEF MInv, Others, repository
<1>3. NewBacked'
  BY <1>1 DEF MInv, NewBacked, repository
<1>4. OldBacked'
  BY <1>1 DEF MInv, OldBacked, repository, CkAt, ckOwn
<1>5. Made' = Made
  BY DEF Made, repository
<1> QED
  BY <1>1, <1>2, <1>3, <1>4, <1>5

LEMMA BeginKeeps ==
  ASSUME Types, MInv, CkAt("idle"), Begin, UNCHANGED ckOwn
  PROVE  MInv'
<1>1. lm' = [lm EXCEPT !.pc = "select"] /\ lm.pc = "begin"
  BY DEF Begin, Goto, At
<1>2. lm'.pc = "select" /\ lm'.i = lm.i
  BY <1>1, GotoTyped
<1>3. UNCHANGED <<opt, was, ckOwn, repository, tmp, rd, out>>
  BY DEF Begin
<1>4. /\ Others' /\ NewBacked' /\ OldBacked' /\ Made' = Made
      /\ Reader' = Reader /\ (SafeNew <=> SafeNew') /\ (SafeOld <=> SafeOld')
  BY <1>1, <1>2, <1>3, QuietKeeps
<1>5. FilesFirst'
  BY <1>1, <1>2, <1>3, <1>4 DEF MInv, FilesFirst, CandPlaced, CandSource
<1>6. InTurn'
  BY <1>1, <1>2, <1>3, <1>4 DEF MInv, InTurn, Loop, EarlierDone, Beyond, CandFirst, LeftBacked, HasCand, Rest, Eof, repository
<1> QED
  BY <1>4, <1>5, <1>6 DEF MInv

(* A reader that is next in turn: its file is where it should be            *)
LEMMA CurBacked ==
  ASSUME Types, MInv, CkAt("idle"), lm.pc \in Loop, SafeNew \/ SafeOld, NEW r \in Reader, ~Eof(r), PositiveFile(Cur(r))
  PROVE  files[r][Cur(r).path] = Cur(r).data
<1>1. /\ r \in 1..NTran /\ r \in Tran \ {0} /\ rd[r].at \in DOMAIN tran[r] /\ tran[r] \in Seq(Line)
      /\ rd[r].at \in Rest(r)
  BY Numbers, ReaderTyped DEF Rest, Eof
<1>2. tran[r] = was.tran[r]
  BY DEF MInv, Others, Loop
<1>3. CASE SafeNew
  <2>1. files[r] = was.files[r]
    BY <1>1, <1>3, Numbers DEF MInv, Others, SafeNew
  <2>2. Backed(was.tran[r], was.files[r])
    BY <1>1, <1>3 DEF SafeNew, Complete
  <2> QED
    BY <1>1, <1>2, <2>1, <2>2, FileOfLine DEF Cur
<1>4. CASE SafeOld
  <2>1. r \in {1, 2} /\ Dest = 2
    BY <1>4, Numbers DEF SafeOld, Reader
  <2>2. CASE r = 1
    <3>1. files[1] = was.files[1] /\ Backed(was.tran[1], was.files[1])
      BY <1>1, <1>4, <2>1, <2>2 DEF MInv, Others, SafeOld
    <3> QED
      BY <1>1, <1>2, <2>2, <3>1, FileOfLine DEF Cur
  <2>3. CASE r = 2
    BY <1>1, <1>4, <2>3 DEF MInv, InTurn, LeftBacked, Cur
  <2> QED
    BY <2>1, <2>2, <2>3
<1> QED
  BY <1>3, <1>4

LEMMA SelectKeeps ==
  ASSUME Types, MInv, CkAt("idle"), Select, UNCHANGED ckOwn
  PROVE  MInv'
<1>0. /\ lm \in MergeState /\ lm.i \in 1..(NTran + 1) /\ lm.pc = "select" /\ NTran \in Nat
      /\ opt.n \in Nat /\ UNCHANGED <<opt, was, ckOwn, repository, tmp, rd, out>>
  BY PcTyped, MergeParts, Numbers DEF Select, At
<1>1. CASE lm.i > opt.n
  <2> DEFINE to == IF opt.force THEN "dirs" ELSE "files"
  <2>1. lm' = [lm EXCEPT !.pc = to]
    BY <1>1 DEF Select
  <2>2. lm'.pc = to
    BY <2>1, GotoTyped
  <2>3. /\ Others' /\ NewBacked' /\ OldBacked' /\ Made' = Made
        /\ Reader' = Reader /\ (SafeNew <=> SafeNew') /\ (SafeOld <=> SafeOld')
    BY <1>0, <2>2, QuietKeeps
  <2>4. FilesFirst' /\ InTurn'
    BY <1>0, <2>2, <2>3 DEF MInv, FilesFirst, CandPlaced, CandSource, InTurn, Loop
  <2> QED
    BY <2>3, <2>4 DEF MInv
<1>2. CASE lm.i <= opt.n /\ Eof(lm.i)
  <2>1. lm' = [lm EXCEPT !.i = @ + 1]
    BY <1>0, <1>2, Numbers DEF Select
  <2>2. lm'.pc = "select" /\ lm'.i = lm.i + 1
    BY <1>0, <2>1 DEF MergeState
  <2>3. /\ Others' /\ NewBacked' /\ OldBacked' /\ Made' = Made
        /\ Reader' = Reader /\ (SafeNew <=> SafeNew') /\ (SafeOld <=> SafeOld')
    BY <1>0, <2>2, QuietKeeps
  <2>4. FilesFirst'
    BY <1>0, <2>2, <2>3 DEF MInv, FilesFirst, CandPlaced, CandSource
  <2>5. ASSUME EarlierDone PROVE EarlierDone'
    <3>1. \A r \in Reader : r < lm.i + 1 => r < lm.i \/ r = lm.i
      BY <1>0 DEF Reader
    <3> QED
      BY <1>0, <1>2, <2>2, <2>3, <2>5, <3>1 DEF EarlierDone, Eof, repository
  <2>6. InTurn'
    BY <1>0, <2>2, <2>3, <2>5 DEF MInv, InTurn, Loop, Beyond, CandFirst, LeftBacked, HasCand, Rest, repository
  <2> QED
    BY <2>3, <2>4, <2>6 DEF MInv
<1>3. CASE lm.i <= opt.n /\ ~Eof(lm.i)
  <2> DEFINE last == opt.force /\ lm.i = opt.n
  <2>1. lm' = [lm EXCEPT !.candidate = lm.i, !.fileloc = lm.i, !.match = last,
                         !.pc = IF last THEN "output" ELSE "compare", !.j = lm.i + 1]
    BY <1>0, <1>3 DEF Select
  <2>2. lm.i \in 1..NTran /\ lm.i \in Reader
    BY <1>0, <1>3, Numbers DEF Reader
  <2>3. /\ lm'.pc = IF last THEN "output" ELSE "compare"
        /\ lm'.candidate = lm.i /\ lm'.fileloc = lm.i /\ lm'.j = lm.i + 1 /\ lm'.i = lm.i
    BY <1>0, <2>1 DEF MergeState
  <2>4. /\ Others' /\ NewBacked' /\ OldBacked' /\ Made' = Made
        /\ Reader' = Reader /\ (SafeNew <=> SafeNew') /\ (SafeOld <=> SafeOld')
    BY <1>0, <2>3, QuietKeeps
  <2>5. Cand' = Cur(lm.i) /\ Source' = files[lm.i][Cur(lm.i).path]
    BY <1>0, <2>3 DEF Cand, Cur, Source, repository
  <2>6. FilesFirst'
    <3>1. SUFFICES ASSUME SafeNew \/ SafeOld PROVE Backed(out, Made) /\ CandPlaced' /\ CandSource'
      BY <1>0, <2>4 DEF FilesFirst
    <3>2. PositiveFile(Cur(lm.i)) => files[lm.i][Cur(lm.i).path] = Cur(lm.i).data
      BY <1>0, <1>3, <2>2, <3>1, CurBacked DEF Loop
    <3>3. CandSource'
      BY <2>5, <3>2 DEF CandSource, PositiveFile
    <3>4. last => Made = files[lm.i]
      BY Numbers DEF Made
    <3>5. CandPlaced'
      BY <2>3, <2>4, <2>5, <3>2, <3>4 DEF CandPlaced, PositiveFile
    <3> QED
      BY <1>0, <3>1, <3>3, <3>5 DEF MInv, FilesFirst
  <2>7. ASSUME SafeOld, EarlierDone PROVE CandFirst'
    <3>1. opt.n = 2 /\ Reader = {1, 2}
      BY <2>7, Numbers DEF SafeOld, Reader
    <3>2. CASE lm.i = 1
      <4>1. lm'.j = 2 /\ lm'.pc = "compare"
        BY <2>3, <3>1, <3>2
      <4> QED
        BY <1>0, <2>3, <3>1, <4>1 DEF CandFirst
    <3>3. CASE lm.i = 2
      <4>1. Rest(1) = {}
        BY <2>7, <3>1, <3>3, ReaderTyped, Numbers DEF EarlierDone, Eof, Rest
      <4>2. Rest(1)' = {}
        BY <1>0, <4>1 DEF Rest, repository
      <4> QED
        BY <2>3, <2>4, <3>1, <3>3, <4>2 DEF CandFirst
    <3> QED
      BY <2>2, <3>1, <3>2, <3>3
  <2>8. InTurn'
    BY <1>0, <2>3, <2>4, <2>7 DEF MInv, InTurn, Loop, EarlierDone, Beyond, LeftBacked, Rest, Eof, repository
  <2> QED
    BY <2>4, <2>6, <2>8 DEF MInv
<1> QED
  BY <1>0, <1>1, <1>2, <1>3

(* With -f there are two transcripts, and the second is the lower one       *)
LEMMA SecondLower ==
  ASSUME Types, opt.force, lm.pc = "compare", lm.j <= opt.n
  PROVE  lm.j = 2 /\ lm.candidate = 1 /\ opt.n = 2 /\ Reader = {1, 2} /\ Dest = 2 /\ ~opt.noupload
<1>1. opt.force /\ opt.n = 2 /\ Dest = 2 /\ ~opt.noupload
  BY Numbers DEF Legal
<1>2. lm.j \in 2..(NTran + 1) /\ lm.candidate \in 1..NTran /\ lm.candidate < lm.j
  BY PcTyped, CandTyped DEF HasCand
<1> QED
  BY <1>1, <1>2, LoadSetsAssumption DEF Reader

LEMMA CompareOnKeeps ==
  ASSUME Types, MInv, CkAt("idle"), Compare, UNCHANGED <<ckOwn, files, rd, exit>>, lm' = [lm EXCEPT !.j = lm.j + 1],
         Eof(lm.j) \/ Cand.path < Cur(lm.j).path
  PROVE  MInv'
<1>0. /\ lm.pc = "compare" /\ lm \in MergeState /\ lm.j <= opt.n /\ lm.j \in Nat
      /\ UNCHANGED <<opt, was, ckOwn, repository, tmp, rd, out>>
  BY MergeParts, PcTyped DEF Compare, At, repository
<1>1. /\ lm'.pc = "compare" /\ lm'.candidate = lm.candidate /\ lm'.fileloc = lm.fileloc
      /\ lm'.i = lm.i /\ lm'.j = lm.j + 1
  BY <1>0 DEF MergeState
<1>2. /\ Others' /\ NewBacked' /\ OldBacked' /\ Made' = Made
      /\ Reader' = Reader /\ (SafeNew <=> SafeNew') /\ (SafeOld <=> SafeOld')
  BY <1>0, <1>1, QuietKeeps
<1>3. Cand' = Cand /\ Source' = Source
  BY <1>0, <1>1 DEF Cand, Cur, Source, repository
<1>4. FilesFirst'
  BY <1>0, <1>1, <1>2, <1>3 DEF MInv, FilesFirst, CandPlaced, CandSource
<1>5. ASSUME SafeOld, CandFirst PROVE CandFirst'
  <2>1. lm.j = 2 /\ lm.candidate = 1 /\ Reader = {1, 2}
    BY <1>0, <1>5, SecondLower DEF SafeOld
  <2>2. \A m \in Rest(2) : ~Eof(2) /\ Cur(2).path <= tran[2][m].path /\ tran[2][m] \in Line
    BY <1>0, <1>5, <2>1, LeftSorted DEF MInv, Loop
  <2>3. Cand.path \in Nat
    BY <1>0, CandTyped, LineTyped DEF HasCand
  <2>4. ~Eof(2) => Cur(2).path \in Nat
    BY <2>1, Numbers, ReaderTyped, LineTyped
  <2>5. \A m \in Rest(2) : tran[2][m].path \in Nat
    BY <2>2, LineTyped
  <2>6. \A m \in Rest(2) : Cand.path < tran[2][m].path
    BY <2>1, <2>2, <2>3, <2>4, <2>5
  <2>7. Rest(2)' = Rest(2) /\ tran' = tran
    BY <1>0 DEF Rest, repository
  <2> QED
    BY <1>0, <1>1, <1>2, <1>3, <1>5, <2>1, <2>6, <2>7 DEF CandFirst, HasCand
<1>6. InTurn'
  BY <1>0, <1>1, <1>2, <1>5 DEF MInv, InTurn, Loop, EarlierDone, Beyond, LeftBacked, Rest, Eof, repository
<1> QED
  BY <1>2, <1>4, <1>6 DEF MInv

LEMMA ChangeKeeps ==
  ASSUME Types, MInv, CkAt("idle"), Compare, UNCHANGED <<ckOwn, files, rd, exit>>, Change(lm.j),
         ~Eof(lm.j), Cand.path > Cur(lm.j).path
  PROVE  MInv'
<1>0. /\ lm.pc = "compare" /\ lm \in MergeState /\ lm.j <= opt.n /\ lm.j \in Nat /\ lm.j \in Reader
      /\ UNCHANGED <<opt, was, ckOwn, repository, tmp, rd, out>>
  <2>1. /\ lm.pc = "compare" /\ lm.j <= opt.n
        /\ UNCHANGED <<opt, was, ckOwn, repository, tmp, rd, out>>
    BY DEF Compare, At, repository
  <2>2. lm \in MergeState /\ lm.j \in 2..(NTran + 1) /\ NTran \in Nat
    BY MergeParts, PcTyped, Numbers
  <2>3. lm.j \in Reader /\ lm.j \in Nat
    BY <2>1, <2>2 DEF Reader
  <2> QED
    BY <2>1, <2>2, <2>3
<1>1. /\ lm'.pc = "compare" /\ lm'.candidate = lm.j /\ lm'.fileloc = lm.j
      /\ lm'.i = lm.i /\ lm'.j = lm.j + 1
  BY <1>0 DEF MergeState, Change
<1>2. /\ Others' /\ NewBacked' /\ OldBacked' /\ Made' = Made
      /\ Reader' = Reader /\ (SafeNew <=> SafeNew') /\ (SafeOld <=> SafeOld')
  BY <1>0, <1>1, QuietKeeps
<1>3. Cand' = Cur(lm.j) /\ Source' = files[lm.j][Cur(lm.j).path]
  BY <1>0, <1>1 DEF Cand, Cur, Source, repository
<1>4. ASSUME SafeNew \/ SafeOld PROVE CandSource'
  BY <1>0, <1>3, <1>4, CurBacked DEF CandSource, Loop
<1>5. FilesFirst'
  BY <1>0, <1>1, <1>2, <1>4 DEF MInv, FilesFirst, CandPlaced
<1>6. ASSUME SafeOld PROVE CandFirst'
  <2>1. lm.j = 2 /\ lm.candidate = 1 /\ Reader = {1, 2}
    BY <1>0, <1>6, SecondLower DEF SafeOld
  <2>2. \A m \in Rest(1) : Cur(1).path <= tran[1][m].path /\ tran[1][m] \in Line
    BY <1>0, <1>6, <2>1, LeftSorted DEF MInv, Loop
  <2>3. Cand = Cur(1) /\ Cand.path \in Nat /\ Cur(2).path \in Nat
    BY <1>0, <2>1, CandTyped, Numbers, ReaderTyped, LineTyped DEF HasCand, Cand
  <2>5. \A m \in Rest(1) : tran[1][m].path \in Nat
    BY <2>2, LineTyped
  <2>6. \A m \in Rest(1) : Cur(2).path < tran[1][m].path
    BY <2>1, <2>2, <2>3, <2>5
  <2>7. Rest(1)' = Rest(1) /\ tran' = tran
    BY <1>0 DEF Rest, repository
  <2> QED
    BY <1>1, <1>2, <1>3, <2>1, <2>6, <2>7 DEF CandFirst
<1>7. InTurn'
  BY <1>0, <1>1, <1>2, <1>6 DEF MInv, InTurn, Loop, EarlierDone, Beyond, LeftBacked, Rest, Eof, repository
<1> QED
  BY <1>2, <1>5, <1>7 DEF MInv

(* With -n: a file of the second transcript that compares as equal, if it   *)
(* is there at all                                                          *)
LEMMA SameBacked ==
  ASSUME Types, MInv, CkAt("idle"), lm.pc = "compare", SafeNew, NEW j \in Reader, ~Eof(j), Cur(j).path = Cand.path,
         Cur(j).type = "f" => Cand.data = Cur(j).data, IsFile(files[j][Cand.path])
  PROVE  files[j][Cand.path] = Cand.data
<1>1. /\ j \in Tran \ {0} /\ rd[j].at \in DOMAIN tran[j] /\ tran[j] \in Seq(Line)
      /\ Cand.path \in Path /\ rd[j].at \in Nat
  BY Numbers, ReaderTyped, CandTyped, LineTyped DEF HasCand
<1>2. tran[j] = was.tran[j] /\ files[j] = was.files[j]
  BY <1>1, Numbers DEF MInv, Others, Loop, SafeNew
<1>3. Backed(tran[j], files[j]) /\ \E k \in FileLines(tran[j]) : tran[j][k].path = Cand.path
  BY <1>1, <1>2 DEF SafeNew, Complete
<1>4. PICK k \in FileLines(tran[j]) : tran[j][k].path = Cand.path
  BY <1>3
<1>5. k \in DOMAIN tran[j] /\ tran[j][k].type = "f" /\ files[j][Cand.path] = tran[j][k].data /\ k \in Nat
  BY <1>1, <1>3, <1>4 DEF FileLines, Backed
<1>6. k = rd[j].at
  <2>1. \A p, q \in DOMAIN tran[j] : p < q => tran[j][p].path < tran[j][q].path
    BY LeftSorted DEF MInv, Loop
  <2>2. tran[j][rd[j].at].path = Cand.path /\ Cand.path \in Nat
    BY <1>1, CandTyped, LineTyped DEF Cur, HasCand
  <2> QED
    BY <1>1, <1>4, <1>5, <2>1, <2>2
<1> QED
  BY <1>5, <1>6 DEF Cur

(* Both transcripts list the path: the lower reader goes on                 *)
Passes(fl) ==
  /\ Compare /\ ~Eof(lm.j) /\ Cand.path = Cur(lm.j).path
  /\ UNCHANGED ckOwn
  /\ \/ opt.force /\ Cur(lm.j).type = "f" /\ RemoveFile(lm.j)
     \/ files' = files
  /\ rd' = Advanced(lm.j) /\ exit' = exit
  /\ lm' = [lm EXCEPT !.match = TRUE, !.fileloc = fl, !.j = lm.j + 1]
  /\ fl # lm.fileloc =>
       /\ opt.noupload /\ Cand.type = "f"
       /\ Cur(lm.j).type = "f" => Cand.data = Cur(lm.j).data

LEMMA PassesTyped ==
  ASSUME Types, NEW fl \in {lm.fileloc, lm.j}, Passes(fl)
  PROVE  /\ lm.pc = "compare" /\ lm.j <= opt.n /\ lm.j \in Nat /\ lm.j \in Reader /\ lm.j \in 1..NTran
         /\ UNCHANGED <<opt, was, ckOwn, tran, tmp, out>>
         /\ lm'.pc = "compare" /\ lm'.candidate = lm.candidate /\ lm'.fileloc = fl
         /\ lm'.i = lm.i /\ lm'.j = lm.j + 1
         /\ lm.candidate \in Reader /\ lm.candidate \in 1..NTran /\ lm.candidate # lm.j
         /\ rd'[lm.candidate] = rd[lm.candidate] /\ Cand' = Cand /\ Cand \in Line
         /\ Source' = files'[fl][Cand.path] /\ Cur(lm.j) \in Line
<1>1. /\ lm.pc = "compare" /\ lm.j <= opt.n /\ lm.j \in Nat /\ lm.j \in Reader /\ lm.j \in 1..NTran
      /\ UNCHANGED <<opt, was, ckOwn, tran, tmp, out>>
  BY PcTyped, Numbers DEF Passes, Compare, At, Reader
<1>2. /\ lm'.pc = "compare" /\ lm'.candidate = lm.candidate /\ lm'.fileloc = fl
      /\ lm'.i = lm.i /\ lm'.j = lm.j + 1
  BY <1>1, MergeParts DEF MergeState, Passes
<1>3. /\ lm.candidate \in Reader /\ lm.candidate \in 1..NTran /\ lm.candidate # lm.j /\ Cand \in Line
  BY <1>1, CandTyped DEF HasCand
<1>4. rd'[lm.candidate] = rd[lm.candidate] /\ Cur(lm.j) \in Line
  BY <1>1, <1>3, AdvancedTyped, ReaderTyped DEF Passes
<1>5. Cand' = Cand
  BY <1>1, <1>2, <1>4 DEF Cand, Cur
<1> QED
  BY <1>1, <1>2, <1>3, <1>4, <1>5 DEF Source

(* ... and a file is removed only with -f, from the second                  *)
LEMMA PassesFiles ==
  ASSUME Types, NEW fl \in {lm.fileloc, lm.j}, Passes(fl)
  PROVE  /\ ~opt.force => files' = files
         /\ \A t \in Tran \ {Dest} : files'[t] = files[t]
         /\ opt.force => \A q \in Path : q # Cand.path => files'[2][q] = files[2][q]
         /\ opt.force => lm.j = 2 /\ lm.candidate = 1 /\ Reader = {1, 2} /\ Dest = 2 /\ ~opt.noupload
<1>1. CASE files' = files
  BY <1>1, SecondLower, PassesTyped
<1>2. CASE opt.force /\ RemoveFile(lm.j)
  <2>1. lm.j = 2 /\ lm.candidate = 1 /\ Reader = {1, 2} /\ Dest = 2 /\ ~opt.noupload
    BY <1>2, SecondLower, PassesTyped
  <2>2. files' = [files EXCEPT ![2] = [files[2] EXCEPT ![Cand.path] = Nothing]]
    BY <1>2, <2>1 DEF RemoveFile, Passes
  <2>3. files \in [Tran -> FileDir] /\ 2 \in Tran
    BY <2>1, MergeParts, Numbers
  <2>4. files'[2] = [files[2] EXCEPT ![Cand.path] = Nothing] /\ files[2] \in FileDir
    BY <2>2, <2>3
  <2>5. \A q \in Path : q # Cand.path => files'[2][q] = files[2][q]
    BY <2>4 DEF FileDir
  <2> QED
    BY <1>2, <2>1, <2>2, <2>3, <2>5
<1> QED
  BY <1>1, <1>2 DEF Passes

LEMMA PassesOthers ==
  ASSUME Types, MInv, CkAt("idle"), NEW fl \in {lm.fileloc, lm.j}, Passes(fl)
  PROVE  Others' /\ NewBacked' /\ OldBacked'
<1>0. /\ Reader' = Reader /\ Dest' = Dest /\ (SafeNew <=> SafeNew') /\ (SafeOld <=> SafeOld')
      /\ \A p \in Path : Listing(p)' = Listing(p)
  BY PassesTyped, RigidKept
<1>1. /\ lm.pc = "compare" /\ lm'.pc = "compare" /\ tran' = tran /\ opt' = opt /\ was' = was /\ tran = was.tran
  BY PassesTyped DEF MInv, Others
<1>2. opt.force => 1 \in Listing(Cand.path)
  <2>1. SUFFICES ASSUME opt.force PROVE 1 \in Listing(Cand.path)
    OBVIOUS
  <2>2. lm.candidate = 1 /\ 1 \in Reader
    BY <2>1, PassesFiles
  <2>3. rd[1].at \in DOMAIN tran[1] /\ Cand = tran[1][rd[1].at]
    BY <1>1, <2>2, CandTyped DEF HasCand, Cand, Cur
  <2> QED
    BY <1>1, <2>2, <2>3 DEF Listing
<1>3. opt.force => \A p \in Path :
        Listing(p) = {2} /\ IsFile(was.files[2][p]) => files'[2][p] = was.files[2][p]
  <2>1. \A p \in Path : Listing(p) = {2} /\ opt.force => p # Cand.path
    BY <1>2
  <2> QED
    BY <2>1, PassesFiles DEF MInv, Others
<1>4. Others'
  BY <1>0, <1>1, <1>3, PassesFiles DEF MInv, Others
<1>5. NewBacked'
  BY <1>0, <1>1, PassesFiles DEF MInv, NewBacked, SafeNew
<1>6. OldBacked'
  BY <1>1 DEF OldBacked
<1> QED
  BY <1>4, <1>5, <1>6

LEMMA PassesInTurn ==
  ASSUME Types, MInv, CkAt("idle"), NEW fl \in {lm.fileloc, lm.j}, Passes(fl)
  PROVE  InTurn'
<1>0. /\ Reader' = Reader /\ Dest' = Dest /\ (SafeOld <=> SafeOld')
  BY PassesTyped, RigidKept
<1>1. SUFFICES ASSUME SafeOld PROVE EarlierDone' /\ Beyond' /\ CandFirst' /\ LeftBacked'
  BY <1>0 DEF InTurn
<1>2. /\ lm.pc = "compare" /\ lm'.pc = "compare" /\ tran' = tran /\ opt' = opt /\ out' = out
      /\ lm'.i = lm.i /\ lm'.j = lm.j + 1 /\ Cand' = Cand /\ lm'.candidate = lm.candidate /\ lm'.fileloc = fl
      /\ Cand.path = Cur(2).path /\ ~Eof(2) /\ rd' = Advanced(2) /\ opt.force
      /\ lm.j = 2 /\ lm.candidate = 1 /\ Reader = {1, 2} /\ ~opt.noupload /\ 2 \in 1..NTran /\ 1 \in 1..NTran
  BY <1>1, PassesTyped, PassesFiles DEF Passes, SafeOld
<1>3. /\ Rest(1)' = Rest(1) /\ Eof(1)' = Eof(1)
      /\ \A m \in Rest(2)' : m \in Rest(2) /\ m # rd[2].at
  BY <1>2, RestAdvanced
<1>4. EarlierDone /\ Beyond /\ CandFirst /\ LeftBacked
  BY <1>1, <1>2 DEF MInv, InTurn, Loop
<1>5. \A m \in Rest(2)' : Cand.path < tran[2][m].path /\ tran[2][m] \in Line
  BY <1>1, <1>2, <1>3, LeftSorted DEF MInv, Loop
<1>6. EarlierDone'
  BY <1>0, <1>2, <1>3, <1>4 DEF EarlierDone
<1>7. Beyond'
  BY <1>0, <1>2, <1>3, <1>4 DEF Beyond
<1>8. CandFirst'
  <2>1. fl = lm.candidate
    BY <1>2, <1>4 DEF CandFirst, HasCand, Passes
  <2> QED
    BY <1>0, <1>2, <1>5, <2>1 DEF CandFirst
<1>9. LeftBacked'
  <2>1. \A m \in Rest(2)' : tran[2][m].path \in Path /\ tran[2][m].path # Cand.path
    <3>1. Cand.path \in Nat
      BY <1>2, CandTyped, LineTyped DEF HasCand
    <3> QED
      BY <1>5, <3>1, LineTyped
  <2> QED
    BY <1>2, <1>3, <1>4, <2>1, PassesFiles DEF LeftBacked
<1> QED
  BY <1>6, <1>7, <1>8, <1>9

LEMMA PassesFilesFirst ==
  ASSUME Types, MInv, CkAt("idle"), NEW fl \in {lm.fileloc, lm.j}, Passes(fl)
  PROVE  FilesFirst'
<1>0. (SafeNew <=> SafeNew') /\ (SafeOld <=> SafeOld')
  BY PassesTyped, RigidKept
<1>1. /\ lm.pc = "compare" /\ lm'.pc = "compare" /\ tran' = tran /\ opt' = opt /\ out' = out /\ tmp' = tmp
      /\ Cand' = Cand /\ lm.j \in Reader /\ Source' = files'[fl][Cand.path] /\ ~Eof(lm.j)
      /\ Cand.path = Cur(lm.j).path /\ Cand \in Line
  BY PassesTyped DEF Passes
<1>2. SUFFICES ASSUME SafeNew \/ SafeOld PROVE Backed(out, Made') /\ CandSource'
  BY <1>0, <1>1 DEF FilesFirst, CandPlaced
<1>3. Backed(out, Made) /\ CandSource
  BY <1>1, <1>2 DEF MInv, FilesFirst
<1>4. CASE SafeNew
  <2>1. files' = files /\ Made' = Made
    BY <1>1, <1>4, PassesFiles DEF SafeNew, Made
  <2>2. CASE fl = lm.fileloc
    BY <1>1, <1>3, <2>1, <2>2 DEF CandSource, Source, PositiveFile
  <2>3. CASE fl # lm.fileloc
    <3>1. fl = lm.j /\ (Cur(lm.j).type = "f" => Cand.data = Cur(lm.j).data)
      BY <2>3 DEF Passes
    <3>2. IsFile(files[lm.j][Cand.path]) => files[lm.j][Cand.path] = Cand.data
      BY <1>1, <1>4, <3>1, SameBacked
    <3> QED
      BY <1>1, <1>3, <2>1, <3>1, <3>2 DEF CandSource
  <2> QED
    BY <1>3, <2>1, <2>2, <2>3
<1>5. CASE SafeOld
  <2>1. opt.force /\ lm.j = 2 /\ lm.candidate = 1 /\ Reader = {1, 2} /\ Dest = 2 /\ ~opt.noupload /\ 1 \in Tran
    BY <1>5, PassesFiles, Numbers DEF SafeOld
  <2>2. lm.fileloc = 1 /\ fl = 1 /\ Beyond
    BY <1>1, <1>5, <2>1 DEF MInv, InTurn, Loop, CandFirst, HasCand, Passes
  <2>3. files'[1] = files[1] /\ \A q \in Path : q # Cand.path => files'[2][q] = files[2][q]
    BY <2>1, PassesFiles
  <2>4. CandSource'
    BY <1>1, <1>3, <2>2, <2>3 DEF CandSource, Source, PositiveFile
  <2>5. Backed(out, files'[2])
    <3>1. rd[2].at \in Rest(2)
      BY <1>1, <2>1, Numbers, ReaderTyped DEF Rest, Eof
    <3>2. \A k \in FileLines(out) : out[k].path < Cand.path /\ out[k] \in Line
      BY <1>1, <2>1, <2>2, <3>1, MergeParts DEF Beyond, FileLines, Cur
    <3>3. \A k \in FileLines(out) : out[k].path \in Path /\ out[k].path # Cand.path
      BY <1>1, <3>2, LineTyped
    <3>4. Backed(out, files[2])
      BY <1>3, <2>1 DEF Made
    <3> QED
      BY <2>3, <3>3, <3>4 DEF Backed
  <2> QED
    BY <1>1, <2>1, <2>4, <2>5 DEF Made
<1> QED
  BY <1>2, <1>4, <1>5

(* A line of another transcript that -n compares unequal                    *)
LEMMA SkipKeeps ==
  ASSUME Types, MInv, CkAt("idle"), lm.pc = "compare", opt.noupload, lm' = [lm EXCEPT !.match = TRUE, !.pc = "skip"],
         UNCHANGED <<opt, was, ckOwn, repository, tmp, out, rd>>
  PROVE  MInv'
<1>1. lm'.pc = "skip"
  BY MergeParts DEF MergeState
<1>2. /\ Others' /\ NewBacked' /\ OldBacked' /\ Made' = Made
      /\ Reader' = Reader /\ (SafeNew <=> SafeNew') /\ (SafeOld <=> SafeOld')
  BY <1>1, QuietKeeps
<1>3. FilesFirst'
  BY <1>1, <1>2 DEF MInv, FilesFirst, CandPlaced, CandSource
<1>4. ~SafeOld
  BY Numbers DEF SafeOld, Legal
<1> QED
  BY <1>2, <1>3, <1>4 DEF MInv, InTurn

LEMMA CompareKeeps ==
  ASSUME Types, MInv, CkAt("idle"), Compare, UNCHANGED ckOwn
  PROVE  MInv'
<1>0. /\ lm.pc = "compare" /\ UNCHANGED <<tran, torn, opt, was, tmp, out, faults>> /\ Merging
      /\ lm.j \in Reader
  BY PcTyped, Numbers DEF Compare, At, Merging, Reader
<1>1. CASE /\ ~Eof(lm.j) => Cand.path < Cur(lm.j).path
           /\ lm' = [lm EXCEPT !.j = lm.j + 1] /\ UNCHANGED <<files, rd, exit>>
  BY <1>1, CompareOnKeeps
<1>2. CASE ~Eof(lm.j) /\ Cand.path > Cur(lm.j).path /\ Change(lm.j) /\ UNCHANGED <<files, rd, exit>>
  BY <1>2, ChangeKeeps
<1>3. CASE ~Eof(lm.j) /\ Cand.path = Cur(lm.j).path /\ Match(lm.j)
  <2>1. CASE opt.noupload /\ lm' = [lm EXCEPT !.match = TRUE, !.pc = "skip"] /\ UNCHANGED <<files, rd, exit>>
    BY <1>0, <2>1, SkipKeeps DEF repository
  <2>2. CASE Stop("2") /\ UNCHANGED <<files, rd>>
    BY <1>0, <2>2, StopKeeps, StopTyped
  <2>3. CASE \E fl \in {lm.fileloc, lm.j} : Passes(fl)
    BY <2>3, PassesOthers, PassesInTurn, PassesFilesFirst DEF MInv
  <2> QED
    BY <1>0, <1>3, <2>1, <2>2, <2>3, MatchCases DEF Passes
<1> QED
  BY <1>1, <1>2, <1>3 DEF Compare

LEMMA DecideKeeps ==
  ASSUME Types, MInv, CkAt("idle"), Decide, UNCHANGED ckOwn
  PROVE  MInv'
<1>0. /\ lm.pc = "compare" /\ lm \in MergeState /\ lm.j > opt.n
      /\ UNCHANGED <<opt, was, ckOwn, repository, tmp, rd, out>>
  BY MergeParts DEF Decide, At
<1>1. /\ lm'.candidate = lm.candidate /\ lm'.fileloc = lm.fileloc /\ lm'.i = lm.i /\ lm'.j = lm.j
      /\ lm'.pc \in {"output", "skip", "place"}
      /\ lm'.pc = "output" =>
           (opt.force /\ lm.candidate = 2) \/ Cand.type # "f" \/ opt.only
  <2>1. CASE opt.force /\ lm.candidate = 2
    <3>1. lm' = [lm EXCEPT !.pc = "output"]
      BY <2>1 DEF Decide
    <3> QED
      BY <1>0, <2>1, <3>1 DEF MergeState
  <2>2. CASE ~(opt.force /\ lm.candidate = 2) /\ Hidden
    <3>1. \E d : lm' = [lm EXCEPT !.pc = "skip", !.dirlist = d]
      BY <2>2 DEF Decide
    <3> QED
      BY <1>0, <3>1 DEF MergeState
  <2>3. CASE ~(opt.force /\ lm.candidate = 2) /\ ~Hidden
    <3>1. lm' = [lm EXCEPT !.pc = IF Cand.type # "f" \/ opt.only THEN "output" ELSE "place"]
      BY <2>3 DEF Decide
    <3> QED
      BY <1>0, <3>1 DEF MergeState
  <2> QED
    BY <2>1, <2>2, <2>3
<1>2. /\ Others' /\ NewBacked' /\ OldBacked' /\ Made' = Made
      /\ Reader' = Reader /\ (SafeNew <=> SafeNew') /\ (SafeOld <=> SafeOld')
  BY <1>0, <1>1, QuietKeeps
<1>3. Cand' = Cand /\ Source' = Source
  BY <1>0, <1>1 DEF Cand, Cur, Source, repository
<1>4. ASSUME SafeNew \/ SafeOld PROVE CandPlaced'
  <2>1. SUFFICES ASSUME lm'.pc = "output", PositiveFile(Cand) PROVE Made[Cand.path] = Cand.data
    BY <1>2, <1>3 DEF CandPlaced, PositiveFile
  <2>2. ~opt.only
    BY <1>4, Numbers DEF SafeNew, SafeOld, Legal
  <2>3. opt.force /\ lm.candidate = 2
    BY <1>1, <2>1, <2>2 DEF PositiveFile
  <2>4. files[2][Cand.path] = Cand.data
    BY <1>0, <1>4, <2>1, <2>3, CurBacked, CandTyped DEF Cand, HasCand, Loop
  <2> QED
    BY <2>3, <2>4 DEF Made
<1>5. FilesFirst'
  BY <1>0, <1>1, <1>2, <1>3, <1>4 DEF MInv, FilesFirst, CandSource
<1>6. ASSUME SafeOld, CandFirst PROVE CandFirst'
  BY <1>0, <1>1, <1>2, <1>3, <1>6 DEF CandFirst, HasCand, Rest, repository
<1>7. InTurn'
  BY <1>0, <1>1, <1>2, <1>6 DEF MInv, InTurn, Loop, EarlierDone, Beyond, LeftBacked, Rest, Eof, repository
<1> QED
  BY <1>2, <1>5, <1>7 DEF MInv

LEMMA PlaceKeeps ==
  ASSUME Types, MInv, CkAt("idle"), Place, UNCHANGED ckOwn
  PROVE  MInv'
<1>0. /\ lm.pc = "place" /\ UNCHANGED <<tran, opt, was, rd, out, faults>> /\ HasCand /\ Merging
      /\ Cand.path \in Path
  BY PlaceCases, SourceTyped DEF HasCand, Merging
<1>a. /\ Reader' = Reader /\ Dest' = Dest /\ (SafeNew <=> SafeNew') /\ (SafeOld <=> SafeOld')
      /\ \A p \in Path : Listing(p)' = Listing(p)
  BY <1>0, RigidKept
<1>1. CASE Stop("2") /\ UNCHANGED <<files, tmp>>
  BY <1>0, <1>1, StopKeeps, StopTyped
<1>2. CASE Stop("2") /\ SetTarget(MkDirs(Target, Cand.path))
  <2>1. MkDirs(Target, Cand.path) \in FileDir
    BY <1>0, MkDirsTyped, TargetTyped
  <2>2. /\ opt.force => files'[2] = MkDirs(Target, Cand.path)
        /\ ~opt.force => files' = files
        /\ \A t \in Tran : t # 2 => files'[t] = files[t]
    BY <1>2, <2>1, TargetSet
  <2>3. opt.force => Target = files[2] /\ Dest = 2
    BY Numbers DEF Target
  <2>4. opt.force => \A q \in Path : IsFile(files[2][q]) => files'[2][q] = files[2][q]
    BY <1>0, <2>2, <2>3, DirsKeep
  <2>5. \A t \in Tran \ {Dest} : files'[t] = files[t]
    BY <2>2, <2>3
  <2>6. lm'.pc = "done"
    BY <1>0, <1>2, StopTyped
  <2> QED
    BY <1>0, <2>2, <2>4, <2>5, <2>6, StopKeeps
<1>4. CASE Stop("2") /\ Target[Cand.path] = Nothing /\ SetTarget(PutAs(Part))
  <2>1. /\ PutAs(Part) \in FileDir
        /\ \A q \in Path : IsFile(Target[q]) => PutAs(Part)[q] = Target[q]
    BY <1>0, <1>4, PutAsTyped, PutKeeps
  <2>2. /\ opt.force => files'[2] = PutAs(Part)
        /\ ~opt.force => files' = files
        /\ \A t \in Tran : t # 2 => files'[t] = files[t]
    BY <1>4, <2>1, TargetSet
  <2>3. opt.force => Target = files[2] /\ Dest = 2
    BY Numbers DEF Target
  <2>4. lm'.pc = "done"
    BY <1>0, <1>4, StopTyped
  <2> QED
    BY <1>0, <1>4, <2>1, <2>2, <2>3, <2>4, StopKeeps
<1>3. CASE /\ IsFile(Source) /\ Target[Cand.path] = Nothing
           /\ SetTarget(PutAs(Source)) /\ lm' = [lm EXCEPT !.pc = "output"] /\ exit' = exit
  <2>1. /\ PutAs(Source) \in FileDir /\ PutAs(Source)[Cand.path] = Source
        /\ \A q \in Path : IsFile(Target[q]) => PutAs(Source)[q] = Target[q]
    BY <1>0, <1>3, SourceTyped, PutAsTyped, PutKeeps
  <2>2. /\ opt.force => files'[2] = PutAs(Source) /\ tmp' = tmp
        /\ ~opt.force => files' = files /\ tmp' = PutAs(Source)
        /\ \A t \in Tran : t # 2 => files'[t] = files[t]
    BY <1>3, <2>1, TargetSet
  <2>3. opt.force => Target = files[2] /\ Dest = 2
    BY Numbers DEF Target
  <2>4. /\ lm'.pc = "output" /\ lm'.candidate = lm.candidate
        /\ lm'.fileloc = lm.fileloc /\ lm'.j = lm.j /\ lm'.i = lm.i
    BY <1>3, GotoTyped
  <2>5. opt.force => \A q \in Path : IsFile(files[2][q]) => files'[2][q] = files[2][q]
    BY <2>1, <2>2, <2>3
  <2>6. \A t \in Tran \ {Dest} : files'[t] = files[t]
    BY <2>2, <2>3
  <2>7. tran' = was.tran
    BY <1>0 DEF MInv, Others
  <2>8. Others'
    <3>1. opt.force => \A p \in Path :
            Listing(p) = {2} /\ IsFile(was.files[2][p]) => files'[2][p] = was.files[2][p]
      BY <2>5 DEF MInv, Others
    <3> QED
      BY <1>0, <1>a, <2>2, <2>4, <2>6, <2>7, <3>1 DEF MInv, Others
  <2>9. NewBacked'
    BY <1>0, <1>a, <2>2 DEF MInv, NewBacked, SafeNew
  <2>10. OldBacked'
    BY <1>0, <2>7 DEF OldBacked
  <2>11. Made = Target /\ Made' = PutAs(Source)
    BY <1>0, <2>2, <2>4 DEF Made, Target
  <2>12. Cand' = Cand
    BY <1>0, <2>4 DEF Cand, Cur
  <2>13. FilesFirst'
    <3>1. SUFFICES ASSUME SafeNew \/ SafeOld PROVE Backed(out, PutAs(Source)) /\ CandPlaced'
      BY <1>0, <1>a, <2>4, <2>11 DEF FilesFirst, CandSource
    <3>2. Backed(out, Target) /\ CandSource
      BY <1>0, <2>11, <3>1 DEF MInv, FilesFirst
    <3>3. Backed(out, PutAs(Source))
      BY <2>1, <3>2, BackedKept, MergeParts
    <3>4. CandPlaced'
      BY <1>0, <1>3, <2>1, <2>11, <2>12, <3>2 DEF CandPlaced, CandSource, PositiveFile
    <3> QED
      BY <3>3, <3>4
  <2>14. ASSUME SafeOld PROVE CandFirst' /\ LeftBacked'
    <3>1. CandFirst /\ LeftBacked /\ opt.force /\ opt.n = 2
      BY <1>0, <2>14, Numbers DEF MInv, InTurn, Loop, SafeOld
    <3>2. CandFirst'
      BY <1>0, <1>a, <2>4, <2>12, <3>1 DEF CandFirst, HasCand, Rest
    <3>3. 2 \in Reader
      BY <3>1 DEF Reader
    <3>4. \A m \in Rest(2) : tran[2][m] \in Line
      BY <1>0, <2>14, <3>3, LeftSorted DEF MInv, Loop
    <3>5. \A m \in Rest(2) : tran[2][m].path \in Path /\ IsFile(tran[2][m].data)
      BY <3>4, LineTyped
    <3>6. LeftBacked'
      BY <1>0, <2>5, <3>1, <3>5 DEF LeftBacked, Rest
    <3> QED
      BY <3>2, <3>6
  <2>15. InTurn'
    BY <1>0, <1>a, <2>4, <2>14 DEF MInv, InTurn, Loop, EarlierDone, Beyond, Rest, Eof
  <2> QED
    BY <2>8, <2>9, <2>10, <2>13, <2>15 DEF MInv
<1> QED
  BY <1>1, <1>2, <1>3, <1>4, PlaceCases

LEMMA WrittenKeeps ==
  ASSUME Types, MInv, CkAt("idle"), lm.pc \in {"output", "skip"}, Next1,
         UNCHANGED <<repository, opt, was, tmp, faults, ckOwn>>,
         out' = out \/ (out' = Append(out, Cand) /\ (lm.pc = "output" \/ Cand.minus))
  PROVE  MInv'
<1>0. HasCand /\ Merging /\ lm.candidate \in 1..NTran /\ lm.candidate \in Reader /\ ~Eof(lm.candidate) /\ Cand \in Line
  BY CandTyped DEF HasCand, Merging
<1>1. CASE Stop("2")
  BY <1>0, <1>1, StopKeeps, StopTyped DEF repository
<1>2. CASE lm' = [lm EXCEPT !.pc = "select"] /\ exit' = exit
  <2>1. lm'.pc = "select" /\ lm'.i = lm.i
    BY <1>2, GotoTyped
  <2>2. /\ Others' /\ NewBacked' /\ OldBacked' /\ Made' = Made
        /\ Reader' = Reader /\ (SafeNew <=> SafeNew') /\ (SafeOld <=> SafeOld')
    BY <2>1, QuietKeeps
  <2>3. out \in Seq(Line) /\ rd' = Advanced(lm.candidate)
    BY MergeParts DEF Next1
  <2>4. FilesFirst'
    <3>1. SUFFICES ASSUME SafeNew \/ SafeOld PROVE Backed(out', Made)
      BY <2>1, <2>2 DEF FilesFirst, CandPlaced, CandSource
    <3>2. Backed(out, Made) /\ CandPlaced
      BY <3>1 DEF MInv, FilesFirst
    <3>3. CASE out' = out
      BY <3>2, <3>3
    <3>4. CASE out' = Append(out, Cand) /\ (lm.pc = "output" \/ Cand.minus)
      <4>1. PositiveFile(Cand) => Made[Cand.path] = Cand.data
        BY <3>2, <3>4 DEF CandPlaced, PositiveFile
      <4> QED
        BY <1>0, <2>3, <3>2, <3>4, <4>1, BackedMore
    <3> QED
      BY <3>3, <3>4
  <2>5. ASSUME SafeOld PROVE EarlierDone' /\ Beyond' /\ CandFirst' /\ LeftBacked'
    <3>1. EarlierDone /\ Beyond /\ CandFirst /\ LeftBacked /\ Reader = {1, 2} /\ Reader \subseteq 1..NTran
      BY <2>5, Numbers DEF MInv, InTurn, Loop, SafeOld, Reader
    <3>2. \A q \in Reader :
            /\ q # lm.candidate => Rest(q)' = Rest(q) /\ Eof(q)' = Eof(q)
            /\ \A m \in Rest(q)' : m \in Rest(q) /\ (q = lm.candidate => m # rd[q].at)
      BY <1>0, <2>3, <3>1, RestAdvanced DEF repository
    <3>3. \A q \in Reader : \A m \in Rest(q)' : Cand.path < tran[q][m].path
      <4>1. ASSUME NEW q \in Reader, NEW m \in Rest(q)' PROVE Cand.path < tran[q][m].path
        <5>1. CASE q = lm.candidate
          BY <2>5, <3>2, <4>1, <5>1, LeftSorted DEF MInv, Loop, Cand
        <5>2. CASE q # lm.candidate
          BY <1>0, <3>1, <3>2, <4>1, <5>2 DEF CandFirst
        <5> QED
          BY <5>1, <5>2
      <4> QED
        BY <4>1
    <3>4. EarlierDone'
      BY <1>0, <2>1, <2>2, <3>1, <3>2 DEF EarlierDone
    <3>5. \A k \in DOMAIN out' : (k \in DOMAIN out /\ out'[k] = out[k]) \/ out'[k] = Cand
      BY <2>3
    <3>6. Beyond'
      BY <2>2, <3>1, <3>2, <3>3, <3>5 DEF Beyond, repository
    <3>7. CandFirst'
      BY <2>1 DEF CandFirst, HasCand
    <3>8. LeftBacked'
      BY <3>1, <3>2 DEF LeftBacked, repository
    <3> QED
      BY <3>4, <3>6, <3>7, <3>8
  <2>6. InTurn'
    BY <2>2, <2>5 DEF InTurn
  <2> QED
    BY <2>2, <2>4, <2>6 DEF MInv
<1> QED
  BY <1>0, <1>1, <1>2, Next1Cases

LEMMA RemoveDirsKeeps ==
  ASSUME Types, MInv, CkAt("idle"), RemoveDirs, UNCHANGED ckOwn
  PROVE  MInv'
<1>0. /\ lm.pc = "dirs" /\ Merging /\ lm \in MergeState /\ opt.force /\ Dest = 2 /\ 2 \in Tran
      /\ UNCHANGED <<tran, opt, was, rd, tmp, out, faults>> /\ files \in [Tran -> FileDir]
  BY MergeParts, Numbers DEF RemoveDirs, At, Merging, MInv, Others
<1>1. CASE lm.dirlist = <<>>
  <2>1. lm'.pc = "trans" /\ UNCHANGED files
    BY <1>0, <1>1, GotoTyped DEF RemoveDirs, Goto
  <2>2. /\ Reader' = Reader /\ Dest' = Dest /\ (SafeNew <=> SafeNew') /\ (SafeOld <=> SafeOld')
        /\ \A p \in Path : Listing(p)' = Listing(p)
    BY <1>0, RigidKept
  <2>3. Made' = Made /\ ~SafeNew
    BY <1>0, <2>1 DEF Made, SafeNew
  <2>4. Others'
    BY <1>0, <2>1, <2>2 DEF MInv, Others
  <2>5. FilesFirst' /\ InTurn' /\ NewBacked' /\ OldBacked'
    BY <1>0, <2>1, <2>2, <2>3 DEF MInv, Others, FilesFirst, CandPlaced, CandSource, InTurn, Loop, NewBacked, OldBacked
  <2> QED
    BY <2>4, <2>5 DEF MInv
<1>2. CASE Stop("2") /\ files' = files
  BY <1>0, <1>2, StopKeeps, StopTyped
<1>3. CASE /\ lm.dirlist # <<>> /\ lm' = [lm EXCEPT !.dirlist = Tail(@)] /\ exit' = exit
           /\ files' = IF Gone(Head(lm.dirlist)) THEN [files EXCEPT ![2][Head(lm.dirlist)] = Nothing] ELSE files
  <2>1. lm'.pc = "dirs"
    BY <1>0, <1>3 DEF MergeState
  <2>2. /\ Reader' = Reader /\ Dest' = Dest /\ (SafeNew <=> SafeNew') /\ (SafeOld <=> SafeOld')
        /\ \A p \in Path : Listing(p)' = Listing(p)
    BY <1>0, RigidKept
  <2>3. \A q \in Path : IsFile(files[2][q]) => files'[2][q] = files[2][q]
    <3>1. CASE Gone(Head(lm.dirlist))
      <4>1. files'[2] = [files[2] EXCEPT ![Head(lm.dirlist)] = Nothing] /\ files[2] \in FileDir
        BY <1>0, <1>3, <3>1
      <4>2. files[2][Head(lm.dirlist)] = Folder
        BY <3>1 DEF Gone
      <4> QED
        BY <4>1, <4>2 DEF IsFile, FileDir
    <3>2. CASE files' = files
      BY <3>2
    <3> QED
      BY <1>3, <3>1, <3>2
  <2>4. \A t \in Tran \ {2} : files'[t] = files[t]
    BY <1>0, <1>3
  <2>5. Others'
    <3>1. \A p \in Path : Listing(p) = {2} /\ IsFile(was.files[2][p]) => files'[2][p] = was.files[2][p]
      BY <1>0, <2>3 DEF MInv, Others
    <3> QED
      BY <1>0, <2>1, <2>2, <2>4, <3>1 DEF MInv, Others
  <2>6. ~SafeNew
    BY <1>0 DEF SafeNew
  <2>7. ASSUME SafeOld PROVE Backed(out, files'[2])
    <3>1. Backed(out, files[2]) /\ out \in Seq(Line)
      BY <1>0, <2>7, MergeParts DEF MInv, FilesFirst, Made, Merging
    <3> QED
      BY <2>3, <3>1, BackedKept
  <2>8. FilesFirst'
    BY <1>0, <2>1, <2>2, <2>6, <2>7 DEF FilesFirst, CandPlaced, CandSource, Made
  <2>9. InTurn' /\ NewBacked' /\ OldBacked'
    BY <1>0, <2>1, <2>2, <2>6 DEF MInv, Others, InTurn, Loop, NewBacked, OldBacked
  <2> QED
    BY <2>5, <2>8, <2>9 DEF MInv
<1> QED
  BY <1>1, <1>2, <1>3 DEF RemoveDirs

(* Where there are no files, complete transcripts list none                 *)
LEMMA BareBacks ==
  ASSUME NEW lines \in Seq(Line), Backed(lines, Bare), NEW fd
  PROVE  Backed(lines, fd)
<1>1. \A k \in FileLines(lines) : lines[k] \in Line
  BY DEF FileLines
<1>2. \A k \in FileLines(lines) : lines[k].path \in Path /\ lines[k].data # Nothing
  BY <1>1, LineTyped
<1>3. FileLines(lines) = {}
  BY <1>2 DEF Backed, Bare
<1> QED
  BY <1>3 DEF Backed

LEMMA RenameFilesKeeps ==
  ASSUME Types, MInv, CkAt("idle"), RenameFiles, UNCHANGED ckOwn
  PROVE  MInv'
<1>0. /\ lm.pc = "files" /\ Merging /\ ~opt.force /\ Dest = 0 /\ 0 \in Tran
      /\ UNCHANGED <<tran, opt, was, rd, out, faults>> /\ files \in [Tran -> FileDir]
      /\ tran = was.tran /\ files[0] = was.files[0] /\ ~SafeOld
  BY MergeParts, Numbers DEF RenameFiles, At, Merging, MInv, Others, SafeOld
<1>1. /\ Reader' = Reader /\ Dest' = Dest /\ (SafeNew <=> SafeNew') /\ (SafeOld <=> SafeOld')
      /\ \A p \in Path : Listing(p)' = Listing(p)
  BY <1>0, RigidKept
<1>2. CASE Stop("2") /\ UNCHANGED <<files, tmp>>
  BY <1>0, <1>2, StopKeeps, StopTyped
<1>3. CASE lm' = [lm EXCEPT !.pc = "trans"] /\ files' \in {files, [files EXCEPT ![0] = tmp]}
           /\ (~opt.only => files[0] = Bare /\ files' = [files EXCEPT ![0] = tmp])
  <2>1. lm'.pc = "trans"
    BY <1>3, GotoTyped
  <2>2. \A t \in Tran \ {0} : files'[t] = files[t]
    BY <1>0, <1>3
  <2>3. Others'
    BY <1>0, <1>1, <2>1, <2>2 DEF MInv, Others
  <2>4. ASSUME SafeNew PROVE Backed(out, files'[0]) /\ \A t \in Tran : Backed(tran'[t], files'[t])
    <3>1. files[0] = Bare /\ files'[0] = tmp
      BY <1>0, <1>3, <2>4 DEF SafeNew
    <3>2. Backed(out, tmp)
      BY <1>0, <2>4 DEF MInv, FilesFirst, Made
    <3>3. \A t \in Tran : Backed(tran[t], files[t])
      BY <2>4 DEF MInv, NewBacked
    <3>4. Backed(tran[0], tmp)
      BY <1>0, <3>1, <3>3, BareBacks, MergeParts
    <3> QED
      BY <1>0, <2>2, <3>1, <3>2, <3>3, <3>4
  <2>5. FilesFirst'
    BY <1>0, <1>1, <2>1, <2>4 DEF FilesFirst, CandPlaced, CandSource, Made
  <2>6. NewBacked' /\ InTurn' /\ OldBacked'
    BY <1>0, <1>1, <2>1, <2>4 DEF NewBacked, InTurn, OldBacked
  <2> QED
    BY <2>3, <2>5, <2>6 DEF MInv
<1> QED
  BY <1>2, <1>3 DEF RenameFiles, Goto

(* What has been written takes the place of the transcript, in part ...     *)
LEMMA RenameTranKeeps ==
  ASSUME Types, MInv, CkAt("idle"), RenameTran, UNCHANGED ckOwn
  PROVE  MInv'
<1>0. /\ lm.pc = "trans" /\ UNCHANGED <<files, opt, was, rd, tmp, out, exit, faults>>
      /\ tran \in [Tran -> Seq(Line)] /\ Dest \in Tran /\ out \in Seq(Line)
      /\ lm' = [lm EXCEPT !.pc = "flush"]
  BY MergeParts, Numbers DEF RenameTran, At, Goto
<1>1. /\ Reader' = Reader /\ Dest' = Dest /\ (SafeNew <=> SafeNew') /\ (SafeOld <=> SafeOld')
      /\ \A p \in Path : Listing(p)' = Listing(p)
  BY <1>0, RigidKept
<1>2. lm'.pc = "flush" /\ Made' = Made
  BY <1>0, GotoTyped DEF Made
<1>3. PICK k \in 0..Len(out) : tran' = [tran EXCEPT ![Dest] = SubSeq(out, 1, k)]
  BY DEF RenameTran, Partly
<1>4. tran'[Dest] = SubSeq(out, 1, k) /\ \A t \in Tran \ {Dest} : tran'[t] = tran[t]
  BY <1>0, <1>3
<1>5. Others'
  BY <1>0, <1>1, <1>2, <1>4 DEF MInv, Others
<1>6. ASSUME SafeNew \/ SafeOld PROVE Backed(out, Made) /\ Backed(tran'[Dest], Made) /\ Made = files[Dest]
  <2>1. Backed(out, Made)
    BY <1>0, <1>6 DEF MInv, FilesFirst
  <2> QED
    BY <1>0, <1>4, <2>1, BackedPart, Numbers DEF Made
<1>7. FilesFirst' /\ InTurn'
  BY <1>0, <1>1, <1>2, <1>6 DEF FilesFirst, CandPlaced, CandSource, InTurn, Loop
<1>8. NewBacked'
  BY <1>0, <1>1, <1>4, <1>6 DEF MInv, NewBacked
<1>9. OldBacked'
  BY <1>0, <1>1, <1>4, <1>6, Numbers DEF OldBacked, SafeOld
<1> QED
  BY <1>5, <1>7, <1>8, <1>9 DEF MInv

(* ... and as a whole                                                       *)
LEMMA FlushKeeps ==
  ASSUME Types, MInv, CkAt("idle"), Flush, UNCHANGED ckOwn
  PROVE  MInv'
<1>0. /\ lm.pc = "flush" /\ UNCHANGED <<files, opt, was, rd, tmp, out>> /\ Stop("0") /\ Merging
      /\ tran \in [Tran -> Seq(Line)] /\ Dest \in Tran
  BY MergeParts, Numbers DEF Flush, At, Merging
<1>1. /\ Reader' = Reader /\ Dest' = Dest /\ (SafeNew <=> SafeNew') /\ (SafeOld <=> SafeOld')
      /\ \A p \in Path : Listing(p)' = Listing(p)
  BY <1>0, RigidKept
<1>2. lm'.pc = "done"
  BY <1>0, StopTyped
<1>3. CASE tran' = tran
  BY <1>0, <1>2, <1>3, StopKeeps
<1>4. CASE tran' = [tran EXCEPT ![Dest] = out]
  <2>1. tran'[Dest] = out /\ \A t \in Tran \ {Dest} : tran'[t] = tran[t]
    BY <1>0, <1>4
  <2>2. Others'
    BY <1>0, <1>1, <1>2, <2>1 DEF MInv, Others
  <2>3. ASSUME SafeNew \/ SafeOld PROVE Backed(tran'[Dest], files[Dest])
    BY <1>0, <2>1, <2>3, Numbers DEF MInv, FilesFirst, Made
  <2>4. FilesFirst' /\ InTurn'
    BY <1>2 DEF FilesFirst, InTurn, Loop
  <2>5. NewBacked'
    BY <1>0, <1>1, <2>1, <2>3 DEF MInv, NewBacked
  <2>6. OldBacked'
    BY <1>0, <1>1, <2>1, <2>3, Numbers DEF OldBacked, SafeOld
  <2> QED
    BY <2>2, <2>4, <2>5, <2>6 DEF MInv
<1> QED
  BY <1>3, <1>4 DEF Flush

LEMMA EndedKeeps ==
  ASSUME Types, MInv, CkAt("idle"), Crash \/ Fails \/ Killed, UNCHANGED ckOwn
  PROVE  MInv'
<1>1. /\ Merging /\ (\E st \in {"2", "crash", "killed"} : Stop(st)) /\ UNCHANGED <<tran, opt, was>>
      /\ Cut \/ UNCHANGED <<files, tmp>>
  BY DEF Crash, Fails, Killed, At, Merging, repository
<1>2. lm'.pc = "done"
  BY <1>1, StopTyped
<1>3. CASE UNCHANGED <<files, tmp>>
  BY <1>1, <1>2, <1>3, StopKeeps
<1>4. CASE lm.pc = "place" /\ HasCand /\ Target[Cand.path] = Nothing /\ SetTarget(PutAs(Part))
  <2>1. /\ PutAs(Part) \in FileDir
        /\ \A q \in Path : IsFile(Target[q]) => PutAs(Part)[q] = Target[q]
    BY <1>4, PutAsTyped, PutKeeps
  <2>2. /\ opt.force => files'[2] = PutAs(Part)
        /\ ~opt.force => files' = files
        /\ \A t \in Tran : t # 2 => files'[t] = files[t]
    BY <1>4, <2>1, TargetSet
  <2>3. opt.force => Target = files[2] /\ Dest = 2
    BY Numbers DEF Target
  <2> QED
    BY <1>1, <1>2, <1>4, <2>1, <2>2, <2>3, StopKeeps
<1> QED
  BY <1>1, <1>3, <1>4, CutCases

LEMMA MergeKeeps ==
  ASSUME Types, MInv, Merge
  PROVE  MInv'
<1>1. CkAt("idle") /\ UNCHANGED ckOwn /\ MergeNext
  BY MergeTypes DEF Merge
<1>2. CASE Output \/ Skip
  <2>1. /\ lm.pc \in {"output", "skip"} /\ Next1 /\ UNCHANGED <<repository, opt, was, tmp, faults>>
        /\ out' = out \/ (out' = Append(out, Cand) /\ (lm.pc = "output" \/ Cand.minus))
    BY <1>2 DEF Output, Skip, At, Again
  <2> QED
    BY <1>1, <2>1, WrittenKeeps
<1> QED
  BY <1>1, <1>2, BeginKeeps, SelectKeeps, CompareKeeps, DecideKeeps, PlaceKeeps, RemoveDirsKeeps,
     RenameFilesKeeps, RenameTranKeeps, FlushKeeps, EndedKeeps DEF MergeNext, MergeStep
-----------------------------------------------------------------------------
(* The two together                                                         *)

LEMMA CkBusy ==
  ASSUME Types, Cksum
  PROVE  ck'.pc # "idle"
<1>1. CASE CkStart
  <2>1. ck' = [ck EXCEPT !.pc = "next"]
    BY <1>1 DEF CkStart
  <2> QED
    BY <2>1, CkParts DEF CkState
<1>2. CASE CkOpen
  BY <1>2, CkOpenTypes
<1>3. CASE CkLine
  <2>1. \/ ck' \in {Next2, Read2, Counted2}
        \/ ck' = [ck EXCEPT !.pc = "exit", !.err = "2"]
        \/ ck' = [ck EXCEPT !.pc = "end", !.exitval = 1]
        \/ ck' = [ck EXCEPT !.pc = "done"]
    BY <1>3, LineCases DEF Passed, NoFile, Same, Other, Leave, BadLine
  <2>2. ck.pc = "line" /\ ck \in CkState
    BY <1>3, LineCases, CkParts
  <2> QED
    BY <2>1, <2>2 DEF CkState, Next2, Read2, Counted2
<1>4. CASE CkEof \/ CkFinish \/ CkFails \/ CkKilled
  BY <1>4, CkEofTypes, CkFinishTypes, CkEndsTypes
<1>5. CASE CkEnd
  BY <1>5, CkEndCases
<1>6. CASE CkTorn
  BY <1>6, BadTyped DEF CkTorn, CkAt
<1> QED
  BY <1>1, <1>2, <1>3, <1>4, <1>5, <1>6 DEF Cksum, CkNext, CkStep

(* lcksum has nothing to change in loadsets that are complete               *)
LEMMA BackedSame ==
  ASSUME Replaced, ~CkAt("idle"), NEW t \in Tran, Backed(found[t], files[t])
  PROVE  tran[t] = found[t]
<1>1. ~Differs(t)
  BY DEF Backed, Differs, Checked
<1> QED
  BY <1>1 DEF Replaced

LEMMA FoundKept ==
  ASSUME Types, Types', Replaced', FoundBacked, MInv, Cksum
  PROVE  MInv' /\ FoundBacked'
<1>1. UNCHANGED <<opt, was, lm, files>> /\ lm.pc \in {"off", "done"} /\ ck'.pc # "idle"
  BY CksumTypes, CkBusy DEF Cksum, Called, mergeOwn
<1>2. SafeNew <=> SafeNew'
  BY <1>1, RigidKept
<1>3. FoundBacked'
  <2>1. CASE CkStart
    BY <1>1, <1>2, <2>1 DEF CkStart, repository, MInv, NewBacked, FoundBacked
  <2>2. CASE CkNext
    <3>1. found' = found /\ ~CkAt("idle")
      BY <2>2 DEF CkNext, CkStep, CkOpen, CkLine, CkEof, CkTorn, CkEnd, CkFinish, CkFails, CkKilled, CkAt
    <3> QED
      BY <1>1, <1>2, <3>1 DEF FoundBacked
  <2> QED
    BY <2>1, <2>2 DEF Cksum
<1>4. SafeNew' => \A t \in Tran : Backed(found'[t], files'[t]) /\ tran'[t] = found'[t]
  <2>1. ASSUME Replaced, FoundBacked, SafeNew, ~CkAt("idle"), NEW t \in Tran
        PROVE  Backed(found[t], files[t]) /\ tran[t] = found[t]
    BY <2>1, BackedSame DEF FoundBacked
  <2>2. (Replaced /\ FoundBacked /\ SafeNew /\ ~CkAt("idle")) =>
          \A t \in Tran : Backed(found[t], files[t]) /\ tran[t] = found[t]
    BY <2>1
  <2>3. ~CkAt("idle")'
    BY <1>1 DEF CkAt
  <2>4. ASSUME SafeNew', NEW t \in Tran
        PROVE  Backed(found'[t], files'[t]) /\ tran'[t] = found'[t]
    <3>1. Backed(found'[t], files'[t])
      BY <1>3, <2>3, <2>4 DEF FoundBacked
    <3>2. ~Differs(t)'
      BY <3>1 DEF Backed, Differs, Checked
    <3> QED
      BY <2>3, <3>1, <3>2 DEF Replaced
  <2> QED
    BY <2>4
<1>5. NewBacked'
  BY <1>4 DEF NewBacked
<1>6. Others' /\ OldBacked'
  BY <1>1 DEF Others, OldBacked, CkAt
<1>7. FilesFirst' /\ InTurn'
  BY <1>1 DEF FilesFirst, InTurn, Loop
<1> QED
  BY <1>3, <1>5, <1>6, <1>7 DEF MInv

LEMMA FoundIdle ==
  ASSUME Types, Replaced, CopySoFar, FoundBacked, Merge
  PROVE  Replaced' /\ CopySoFar' /\ FoundBacked'
<1>1. CkAt("idle") /\ UNCHANGED ckOwn
  BY MergeTypes DEF Merge
<1>2. ck' = ck /\ pending' = pending /\ ck.pc = "idle"
  BY <1>1 DEF ckOwn, CkAt
<1> QED
  BY <1>2 DEF Replaced, CopySoFar, FoundBacked, CkAt
-----------------------------------------------------------------------------
(* A piece of a line comes with the rename of what has been buffered        *)
LEMMA TornStep ==
  ASSUME Types, TornWhy, [Next]_vars
  PROVE  TornWhy'
<1>0. faults \in Nat /\ pending \in [Tran -> Seq(Line)]
  BY MergeParts, CkParts, LoadSetsAssumption
<1>1. CASE Merge
  <2>1. UNCHANGED <<opt, pending>> /\ MergeNext
    BY <1>1, MergeTypes DEF Merge, ckOwn
  <2>2. Dest' = Dest /\ Dest \in Tran
    BY <2>1, Numbers DEF Dest
  <2>3. CASE RenameTran
    <3>1. /\ lm.pc = "trans" /\ lm' = [lm EXCEPT !.pc = "flush"] /\ faults' = faults
          /\ torn' = torn \ {Dest} \/ torn' = torn \cup {Dest}
      BY <2>3 DEF RenameTran, Partly, At, Goto
    <3>2. lm'.pc = "flush"
      BY <3>1, GotoTyped
    <3> QED
      BY <2>1, <2>2, <3>1, <3>2 DEF TornWhy
  <2>4. CASE Flush
    <3>1. /\ lm.pc = "flush"
          /\ \/ torn' = torn \ {Dest} /\ faults' = faults
             \/ torn' = torn /\ faults' = faults + 1
      BY <2>4 DEF Flush, At
    <3> QED
      BY <1>0, <2>1, <2>2, <3>1 DEF TornWhy
  <2>5. CASE Fails \/ Killed
    <3>1. torn' = torn /\ faults' = faults + 1
      BY <2>5 DEF Fails, Killed
    <3> QED
      BY <1>0, <3>1 DEF TornWhy
  <2>6. CASE /\ ~(RenameTran \/ Flush \/ Fails \/ Killed)
    <3>1. torn' = torn /\ faults' = faults /\ lm.pc # "flush"
      BY <2>1, <2>6 DEF MergeNext, MergeStep, Begin, Select, Compare, Crash, Decide, Place, Output, Skip,
         RemoveDirs, RenameFiles, At, repository
    <3> QED
      BY <2>1, <3>1 DEF TornWhy
  <2> QED
    BY <2>3, <2>4, <2>5, <2>6
<1>2. CASE Cksum
  <2>1. lm.pc \in {"off", "done"} /\ lm' = lm
    BY <1>2 DEF Cksum, Called, mergeOwn
  <2>2. CASE CkEnd
    <3>1. T \in Tran /\ faults' = faults
      BY <2>2, AtTyped DEF CkEnd, CkAt
    <3>2. CASE UNCHANGED <<torn, pending>>
      BY <2>1, <3>1, <3>2 DEF TornWhy
    <3>3. CASE Partly(T, copy) /\ pending' = [pending EXCEPT ![T] = copy]
      <4>1. copy \in Seq(Line) /\ \A t \in Tran : pending'[t] = IF t = T THEN copy ELSE pending[t]
        BY <1>0, <3>1, <3>3, CkParts
      <4>2. torn' = torn \ {T} \/ (torn' = torn \cup {T} /\ copy # <<>>)
        BY <3>3, <4>1 DEF Partly
      <4> QED
        BY <2>1, <3>1, <4>1, <4>2 DEF TornWhy
    <3> QED
      BY <2>2, <3>2, <3>3 DEF CkEnd
  <2>3. CASE CkFinish
    <3>1. PICK lost : /\ torn' = { t \in torn : pending[t] = <<>> \/ t \in lost }
                      /\ faults' = IF lost = {} THEN faults ELSE faults + 1
      BY <2>3 DEF CkFinish
    <3>2. pending' = pending
      BY <2>3 DEF CkFinish
    <3> QED
      BY <1>0, <2>1, <3>1, <3>2 DEF TornWhy
  <2>4. CASE CkStart \/ CkOpen \/ CkLine \/ CkEof \/ CkTorn \/ CkFails \/ CkKilled
    <3>1. UNCHANGED <<torn, pending>> /\ (faults' = faults \/ faults' = faults + 1)
      BY <2>4 DEF CkStart, CkOpen, CkLine, CkEof, CkTorn, CkFails, CkKilled, repository
    <3> QED
      BY <1>0, <2>1, <3>1 DEF TornWhy
  <2> QED
    BY <1>2, <2>2, <2>3, <2>4 DEF Cksum, CkNext, CkStep
<1>3. CASE UNCHANGED vars
  BY <1>3 DEF TornWhy, vars, repository, mergeOwn, ckOwn, Dest
<1> QED
  BY <1>1, <1>2, <1>3 DEF Next

LEMMA FirstTyped ==
  ASSUME NEW s \in Seq(Line)
  PROVE  FirstLine(s) \in [at : Nat \ {0}, pre : Path \cup {0}]
<1>1. CASE s = <<>>
  BY <1>1 DEF FirstLine
<1>2. CASE s # <<>>
  <2>1. s[1] \in Line
    BY <1>2
  <2> QED
    BY <1>2, <2>1, LineTyped DEF FirstLine
<1> QED
  BY <1>1, <1>2

LEMMA InitTypes == Init => Types
<1> SUFFICES ASSUME Init PROVE Types
  OBVIOUS
<1>1. PICK b \in Jobs : MergeInit(b) /\ CkIdle(b.ck)
  BY DEF Init
<1>2. /\ b.tran \in [Tran -> Seq(Line)] /\ b.files \in [Tran -> FileDir] /\ b.merge \in BOOLEAN
      /\ b.ck \in CkOptions /\ (b.ck.all => ~b.ck.update)
      /\ b.opt \in Options /\ Legal(b.opt)
  BY ToolsAssumption, LmergeAssumption
<1>3. NTran \in Nat /\ MaxFaults \in Nat /\ NTran >= 2 /\ 1..NTran \subseteq Tran
  BY <1>2, LoadSetsAssumption DEF Options, Legal, Tran
<1>4. Bare \in FileDir
  BY DEF Bare, FileDir
<1>5. rd \in [1..NTran -> [at : Nat \ {0}, pre : Path \cup {0}]]
  <2>1. \A r \in 1..NTran : FirstLine(b.tran[r]) \in [at : Nat \ {0}, pre : Path \cup {0}]
    BY <1>2, <1>3, FirstTyped
  <2>2. rd = [r \in 1..NTran |-> FirstLine(b.tran[r])]
    BY <1>1 DEF MergeInit
  <2> QED
    BY <2>1, <2>2
<1>6. lm \in MergeState /\ lm.pc \in {"begin", "off"}
  <2>1. lm = [pc |-> IF b.merge THEN "begin" ELSE "off", i |-> 1, candidate |-> 1, fileloc |-> 1,
              match |-> FALSE, j |-> 2, dirlist |-> <<>>]
    BY <1>1 DEF MergeInit
  <2>2. 1 \in 1..NTran /\ 1 \in 1..(NTran + 1) /\ 2 \in 2..(NTran + 1)
    BY <1>3
  <2>3. <<>> \in Seq(Path)
    OBVIOUS
  <2> QED
    BY <2>1, <2>2, <2>3 DEF MergeState
<1>7. MergeTypeOK
  BY <1>1, <1>2, <1>3, <1>4, <1>5, <1>6 DEF MergeInit, MergeTypeOK
<1>8. ck \in CkState /\ ck.pc = "idle"
  BY <1>1 DEF CkIdle, CkState
<1>9. CkTypeOK
  BY <1>1, <1>2, <1>7, <1>8 DEF CkIdle, CkTypeOK, MergeTypeOK
<1>10. was \in Found
  BY <1>1, <1>2 DEF MergeInit, Found
<1> QED
  BY <1>6, <1>7, <1>8, <1>9, <1>10 DEF Types, HasCand, CkAt

LEMMA InitKeeps == Init => IInv
<1> SUFFICES ASSUME Init PROVE IInv
  OBVIOUS
<1>1. PICK b \in Jobs : MergeInit(b) /\ CkIdle(b.ck)
  BY DEF Init
<1>2. Types
  BY InitTypes
<1>3. /\ tran = was.tran /\ files = was.files /\ out = <<>>
      /\ lm.pc \in {"begin", "off"} /\ lm.i = 1
      /\ ck.pc = "idle" /\ pending = [t \in Tran |-> <<>>]
  BY <1>1 DEF MergeInit, CkIdle
<1>4. Others
  BY <1>3, Numbers, <1>2 DEF Others
<1>5. FilesFirst
  BY <1>3 DEF FilesFirst, CandPlaced, CandSource, Backed, FileLines
<1>6. Replaced /\ CopySoFar /\ FoundBacked /\ TornWhy
  BY <1>1, <1>3 DEF Replaced, CopySoFar, FoundBacked, TornWhy, CkAt, MergeInit
<1>7. NewBacked /\ OldBacked
  BY <1>3 DEF NewBacked, OldBacked, SafeNew, Complete
<1>8. InTurn
  <2> SUFFICES ASSUME SafeOld, lm.pc \in Loop PROVE EarlierDone /\ Beyond /\ CandFirst /\ LeftBacked
    BY DEF InTurn
  <2>1. EarlierDone
    BY <1>2, <1>3, Numbers DEF EarlierDone
  <2>2. Beyond /\ CandFirst
    BY <1>3 DEF Beyond, CandFirst, HasCand
  <2>3. LeftBacked
    <3>1. opt.n = 2 /\ 2 \in Reader /\ opt.force
      BY <1>2, Numbers DEF SafeOld, Reader
    <3>2. Backed(tran[2], files[2])
      BY <1>3 DEF SafeOld
    <3>3. \A m \in Rest(2) : m \in DOMAIN tran[2]
      BY <1>2, <3>1, Numbers, ReaderTyped DEF Rest
    <3> QED
      BY <3>2, <3>3 DEF LeftBacked, Backed, FileLines, PositiveFile
  <2> QED
    BY <2>1, <2>2, <2>3
<1> QED
  BY <1>2, <1>4, <1>5, <1>6, <1>7, <1>8 DEF IInv, MInv

LEMMA StutterKeeps == IInv /\ UNCHANGED vars => IInv'
<1> SUFFICES ASSUME IInv, UNCHANGED vars PROVE IInv'
  OBVIOUS
<1>1. UNCHANGED <<tran, files, opt, was, rd, lm, tmp, out, exit, faults,
                  ckOpt, ck, copy, pending, found, ckExit>>
  BY DEF vars, repository, mergeOwn, ckOwn
<1>2. Types' /\ TornWhy'
  BY <1>1, TornStep DEF IInv, Types, MergeTypeOK, CkTypeOK, HasCand, Eof, Reader, CkAt
<1>3. /\ Reader' = Reader /\ Dest' = Dest /\ (SafeNew <=> SafeNew') /\ (SafeOld <=> SafeOld')
      /\ \A p \in Path : Listing(p)' = Listing(p)
  BY <1>1, RigidKept
<1>4. Others' /\ NewBacked' /\ OldBacked' /\ FoundBacked'
  BY <1>1, <1>3 DEF IInv, MInv, Others, NewBacked, OldBacked, FoundBacked, CkAt
<1>5. FilesFirst'
  BY <1>1, <1>3 DEF IInv, MInv, FilesFirst, CandPlaced, CandSource, Made, Cand, Cur, Source
<1>6. InTurn'
  BY <1>1, <1>3 DEF IInv, MInv, InTurn, EarlierDone, Beyond, CandFirst, LeftBacked, Rest, Eof, Cand, Cur, HasCand
<1>7. Replaced'
  <2> SUFFICES ASSUME NEW t \in Tran
               PROVE  /\ CkAt("idle") => pending[t] = <<>>
                      /\ ~CkAt("idle") /\ pending[t] = <<>> => tran[t] = found[t]
                      /\ ~CkAt("idle") /\ pending[t] # <<>> =>
                           /\ ckOpt.update /\ t \in Targets' /\ ~Faulty(t)' /\ Differs(t)'
                           /\ pending[t] = Refreshed(t)'
                           /\ Len(tran[t]) <= Len(found[t])
                           /\ \A k \in DOMAIN tran[t] : tran[t][k] = Refreshed(t)'[k]
    BY <1>1 DEF Replaced, CkAt
  <2>1. /\ Targets' = Targets /\ (Faulty(t) <=> Faulty(t)') /\ (Differs(t) <=> Differs(t)')
        /\ Refreshed(t)' = Refreshed(t)
    BY <1>1, MeaningKept
  <2> QED
    BY <2>1 DEF IInv, Replaced
<1>8. CopySoFar'
  <2>1. T' = T
    BY <1>1 DEF T
  <2>2. Within(T)' = Within(T) /\ Checked(T)' = Checked(T) /\ Refreshed(T)' = Refreshed(T)
    BY <1>1, <2>1, MeaningKept DEF Within, Checked, Refreshed, FileLines
  <2> QED
    BY <1>1, <2>1, <2>2 DEF IInv, CopySoFar
<1> QED
  BY <1>2, <1>4, <1>5, <1>6, <1>7, <1>8 DEF IInv, MInv

LEMMA StepKeeps == IInv /\ [Next]_vars => IInv'
<1> SUFFICES ASSUME IInv, [Next]_vars PROVE IInv'
  OBVIOUS
<1>1. CASE Merge
  BY <1>1, MergeTypes, MergeKeeps, FoundIdle, TornStep DEF IInv
<1>2. CASE Cksum
  BY <1>2, CksumKeeps, FoundKept, TornStep DEF IInv
<1>3. CASE UNCHANGED vars
  BY <1>3, StutterKeeps
<1> QED
  BY <1>1, <1>2, <1>3 DEF Next

LEMMA Invariance == Spec => []IInv
BY InitKeeps, StepKeeps, PTL DEF Spec

(* Whatever lmerge and lcksum are called with, their variables stay in the  *)
(* ranges of the code: readers do not pass the end of their transcripts by  *)
(* more than a line, and no candidate is used that has none                 *)
THEOREM TypeCorrect == Spec => []TypeOK
<1>1. IInv => TypeOK
  BY DEF IInv, Types, TornWhy, TypeOK
<1> QED
  BY <1>1, Invariance, PTL

(* rename() of the copy: at every moment, whatever fails, a transcript that *)
(* lcksum works on is the one it found or the beginning of the one it       *)
(* should be, whose rest the exit() of lcksum writes; and only one whose    *)
(* lines differ from its files, and none without updates, is replaced       *)
THEOREM TranscriptsOldOrNew == Spec => []OldOrNew
<1>1. IInv => OldOrNew
  <2> SUFFICES ASSUME IInv, ck.pc # "idle", NEW t \in Tran
               PROVE  /\ pending[t] = <<>> => tran[t] = found[t]
                      /\ pending[t] # <<>> =>
                           /\ t \in Targets /\ ~Faulty(t) /\ Differs(t) /\ Updated(pending[t], t)
                           /\ \E k \in 0..Len(pending[t]) : tran[t] = SubSeq(pending[t], 1, k)
                      /\ ~ckOpt.update => tran[t] = found[t]
    BY DEF OldOrNew
  <2>1. Types /\ Replaced /\ ~CkAt("idle")
    BY DEF IInv, CkAt
  <2>2. ASSUME pending[t] # <<>>
        PROVE  /\ Updated(pending[t], t)
               /\ \E k \in 0..Len(pending[t]) : tran[t] = SubSeq(pending[t], 1, k)
    <3>1. /\ pending[t] = Refreshed(t) /\ Len(tran[t]) <= Len(found[t])
          /\ \A k \in DOMAIN tran[t] : tran[t][k] = pending[t][k]
      BY <2>1, <2>2 DEF Replaced
    <3>2. pending[t] \in Seq(Line) /\ tran[t] \in Seq(Line) /\ found[t] \in Seq(Line)
      BY <2>1, CkParts, MergeParts
    <3>3. Len(pending[t]) = Len(found[t]) /\ Updated(pending[t], t)
      BY <2>1, <3>1, <3>2, RefreshedLength, RefreshedRight
    <3>4. Len(tran[t]) \in 0..Len(pending[t])
      BY <3>1, <3>2, <3>3
    <3>5. tran[t] = SubSeq(pending[t], 1, Len(tran[t]))
      BY <3>1, <3>2, <3>4
    <3> QED
      BY <3>3, <3>4, <3>5
  <2> QED
    BY <2>1, <2>2 DEF Replaced
<1> QED
  BY <1>1, Invariance, PTL

(* lmerge renames its files before its transcript, and with -f changes only *)
(* files of paths that the first transcript lists: whatever fails, wherever *)
(* it is killed, and whatever exit() could not write, no client is promised *)
(* a file that is not there                                                 *)
THEOREM NoFileLostEver == Spec => []NoFileLost
<1>1. IInv => AlwaysBacked
  BY DEF IInv, MInv, NewBacked, SafeNew, AlwaysBacked
<1>2. IInv /\ CkAt("idle") => OthersKept
  <2> SUFFICES ASSUME IInv, CkAt("idle"), opt.force, InOrder PROVE OthersKept
    BY DEF OthersKept
  <2>1. Dest = 2 /\ 1 \in Tran
    BY Numbers, LoadSetsAssumption DEF IInv, Tran
  <2>2. tran[1] = was.tran[1] /\ files[1] = was.files[1]
    BY <2>1 DEF IInv, MInv, Others
  <2>3. \A p \in Path : Listing(p) = {2} => (IsFile(was.files[2][p]) => files[2][p] = was.files[2][p])
    BY DEF IInv, MInv, Others
  <2>4. /\ tran[2] # was.tran[2] /\ (\A t \in {1, 2} : Backed(was.tran[t], was.files[t])) =>
             Backed(tran[2], files[2])
    BY DEF IInv, MInv, OldBacked, SafeOld
  <2> QED
    BY <2>2, <2>3, <2>4 DEF OthersKept
<1>3. IInv => NoFileLost
  BY <1>1, <1>2 DEF NoFileLost
<1> QED
  BY <1>3, Invariance, PTL
-----------------------------------------------------------------------------
(* What lcksum has found out                                                *)

Tg(m) == ckOpt.targets[m]
Diff(t, k) == found[t][k].data # files[t][found[t][k].path]

(* The first n - 1 transcripts that lcksum is called with                   *)
PassedBy(n)  == \A m \in 1..(n - 1) : ~Faulty(Tg(m)) /\ (~ckOpt.update => ~Differs(Tg(m)))
Differing(n) == \E m \in 1..(n - 1) : Differs(Tg(m))
Swapped(n) ==
  \A t \in Tran :
    pending[t] # <<>> <=> ckOpt.update /\ Differs(t) /\ \E m \in 1..(n - 1) : Tg(m) = t

Resting == CkAt("idle") => ck.n = 1 /\ ck.err = "0"

Progress ==
  ck.pc \in {"next", "line", "end"} =>
    /\ ck.n <= Len(ckOpt.targets) + 1 /\ PassedBy(ck.n) /\ Swapped(ck.n)
    /\ ck.err = IF Differing(ck.n) THEN "1" ELSE "0"

(* The lines of the present transcript before the one that lcksum is at     *)
InOrderSoFar ==
  /\ ck.pre = 0 \/ \E k \in Within(T) : k < ck.at /\ found[T][k].path = ck.pre
  /\ \A k \in Within(T) : k < ck.at => found[T][k].path <= ck.pre
  /\ \A k, m \in Within(T) : k < m /\ m < ck.at => found[T][k].path < found[T][m].path
  /\ \A k \in Checked(T) : k < ck.at => IsFile(files[T][found[T][k].path])

CountedSoFar ==
  /\ ckOpt.update => ck.exitval = 0
  /\ (IF ckOpt.update THEN pending[T] = <<>> /\ ck.ucount = 0 ELSE ck.exitval = 0) =>
       \A k \in Checked(T) : k < ck.at => ~Diff(T, k)
  /\ ~ckOpt.update /\ ~ckOpt.all /\ ck.exitval = 1 => \E k \in Checked(T) : k < ck.at /\ Diff(T, k)

ReadSoFar ==
  ck.pc \in {"line", "end"} =>
    /\ ck.at <= Len(tran[T]) + 1 /\ InOrderSoFar /\ CountedSoFar
    /\ ck.pc = "end" /\ ~(ckOpt.all /\ ck.exitval = 1) => ck.at = Len(tran[T]) + 1

(* What main() returns, and why                                             *)
Repeated(n) == Differs(Tg(n)) /\ \E m \in 1..(n - 1) : Tg(m) = Tg(n)

Reason ==
  \/ ck.err = "2" /\ ck.n <= Len(ckOpt.targets) /\ Faulty(Tg(ck.n))
  \/ ck.err = "2" /\ ck.n <= Len(ckOpt.targets) /\ ckOpt.update /\ Repeated(ck.n)
  \/ /\ ck.err = "1" /\ ck.n <= Len(ckOpt.targets) /\ ~Faulty(Tg(ck.n))
     /\ ~ckOpt.update /\ Differs(Tg(ck.n))
  \/ ck.n = Len(ckOpt.targets) + 1 /\ ck.err = IF Differing(ck.n) THEN "1" ELSE "0"

Verdict ==
  ck.pc = "exit" \/ ckExit \in {"0", "1", "2"} =>
    /\ ck.err = "0" => ck.n = Len(ckOpt.targets) + 1 /\ PassedBy(ck.n) /\ ~Differing(ck.n)
    /\ faults = 0 /\ ~ckOpt.all => PassedBy(ck.n) /\ Swapped(ck.n) /\ Reason

Written ==
  /\ ckExit \in {"0", "1", "2"} =>
       /\ ckExit = ck.err
       /\ faults = 0 => \A t \in Tran : pending[t] # <<>> => tran[t] = pending[t]
  /\ ckExit = "crash" => ckOpt.all
  /\ ckExit = "killed" => faults # 0

VInv == Resting /\ Progress /\ ReadSoFar /\ Verdict /\ Written
-----------------------------------------------------------------------------
(* Steps that leave the transcripts that lcksum has found alone             *)
LEMMA RunKept ==
  ASSUME UNCHANGED <<found, files, ckOpt>>
  PROVE  /\ \A n : (PassedBy(n)' <=> PassedBy(n)) /\ (Differing(n)' <=> Differing(n))
         /\ \A m : Tg(m)' = Tg(m)
         /\ \A n : Repeated(n)' <=> Repeated(n)
         /\ \A t : (Faulty(t)' <=> Faulty(t)) /\ (Differs(t)' <=> Differs(t))
         /\ \A t : Within(t)' = Within(t) /\ Checked(t)' = Checked(t)
         /\ \A t, k : (Diff(t, k)' <=> Diff(t, k))
BY DEF PassedBy, Differing, Repeated, Tg, Faulty, Differs, Within, Checked, FileLines, Diff

LEMMA SwappedKept ==
  ASSUME UNCHANGED <<found, files, ckOpt, pending>>
  PROVE  \A n : (Swapped(n)' <=> Swapped(n))
<1>1. \A m : Tg(m)' = Tg(m)
  BY RunKept
<1>2. \A t : (Differs(t)' <=> Differs(t))
  BY RunKept
<1> QED
  BY <1>1, <1>2 DEF Swapped

(* lcksum leaves the first transcripts behind it                            *)
LEMMA OneMore ==
  ASSUME NEW n \in Nat \ {0}
  PROVE  /\ PassedBy(n + 1) <=> PassedBy(n) /\ ~Faulty(Tg(n)) /\ (~ckOpt.update => ~Differs(Tg(n)))
         /\ Differing(n + 1) <=> Differing(n) \/ Differs(Tg(n))
         /\ \A t : (\E m \in 1..n : Tg(m) = t) <=> (\E m \in 1..(n - 1) : Tg(m) = t) \/ t = Tg(n)
<1>1. 1..((n + 1) - 1) = 1..n /\ \A m : m \in 1..n <=> m \in 1..(n - 1) \/ m = n
  OBVIOUS
<1> QED
  BY <1>1 DEF PassedBy, Differing

(* The line that lcksum is at, as it found it                               *)
LEMMA RowFound ==
  ASSUME Types, Replaced, ck.pc = "line", ck.at <= Len(tran[T])
  PROVE  /\ ck.at \in DOMAIN found[T] /\ Row.path = found[T][ck.at].path
         /\ ck.at \in Within(T) <=> Row.path \in ckOpt.prefix
         /\ ck.at \in Checked(T) <=> Row.path \in ckOpt.prefix /\ PositiveFile(Row)
         /\ pending[T] = <<>> => Row = found[T][ck.at]
         /\ pending[T] # <<>> /\ ck.at \in Checked(T) => Row.data = files[T][Row.path]
<1> DEFINE k0 == ck.at
<1>1. /\ T \in Tran /\ k0 \in DOMAIN tran[T] /\ tran[T] \in Seq(Line) /\ found[T] \in Seq(Line)
      /\ ck.pc # "done" /\ ~CkAt("idle") /\ Row = tran[T][k0]
  BY AtTyped DEF CkAt, Row
<1> HIDE DEF k0
<1>2. pending[T] = <<>> => k0 \in DOMAIN found[T] /\ Row = found[T][k0]
  BY <1>1 DEF Replaced
<1>3. ASSUME pending[T] # <<>>
      PROVE  k0 \in DOMAIN found[T] /\ Row = Refreshed(T)[k0]
  BY <1>1, <1>3 DEF Replaced
<1>4. k0 \in DOMAIN found[T]
  BY <1>2, <1>3
<1>5. /\ Refreshed(T)[k0].path = found[T][k0].path /\ Refreshed(T)[k0].type = found[T][k0].type
      /\ Refreshed(T)[k0].minus = found[T][k0].minus
      /\ k0 \in Checked(T) => Refreshed(T)[k0].data = files[T][found[T][k0].path]
  BY <1>1, <1>4, RefreshedLine
<1>6. Row.path = found[T][k0].path /\ Row.type = found[T][k0].type /\ Row.minus = found[T][k0].minus
  BY <1>2, <1>3, <1>5
<1>7. /\ k0 \in Within(T) <=> Row.path \in ckOpt.prefix
      /\ k0 \in Checked(T) <=> Row.path \in ckOpt.prefix /\ PositiveFile(Row)
  BY <1>4, <1>6 DEF Within, Checked, FileLines, PositiveFile
<1> QED
  BY <1>2, <1>3, <1>4, <1>5, <1>6, <1>7 DEF k0

(* The fields of lcksum's state after a line                                *)
LEMMA CountFields ==
  ASSUME Types, ck.pc = "line", ck.at <= Len(tran[T]), ck' \in {Next2, Read2, Counted2}, ckOpt' = ckOpt
  PROVE  /\ ck'.pc = "line" /\ ck'.at = ck.at + 1 /\ ck'.n = ck.n /\ ck'.err = ck.err
         /\ ck' = Next2 => ck'.pre = ck.pre /\ ck'.ucount = ck.ucount /\ ck'.exitval = ck.exitval
         /\ ck' = Read2 => ck'.pre = Row.path /\ ck'.ucount = ck.ucount /\ ck'.exitval = ck.exitval
         /\ ck' = Counted2 =>
              /\ ck'.pre = Row.path
              /\ ck'.ucount = IF ckOpt.update THEN ck.ucount + 1 ELSE ck.ucount
              /\ ck'.exitval = IF ckOpt.update THEN ck.exitval ELSE 1
<1>1. ck \in CkState
  BY CkParts
<1>2. /\ Next2.pc = "line" /\ Next2.at = ck.at + 1 /\ Next2.n = ck.n /\ Next2.err = ck.err
      /\ Next2.pre = ck.pre /\ Next2.ucount = ck.ucount /\ Next2.exitval = ck.exitval
      /\ DOMAIN Next2 = DOMAIN ck
  BY <1>1 DEF Next2, CkState
<1>3. DOMAIN ck = {"pc", "n", "at", "pre", "ucount", "exitval", "err"}
  BY <1>1 DEF CkState
<1> HIDE DEF Next2
<1>4. /\ Read2.pc = "line" /\ Read2.at = ck.at + 1 /\ Read2.n = ck.n /\ Read2.err = ck.err
      /\ Read2.pre = Row.path /\ Read2.ucount = ck.ucount /\ Read2.exitval = ck.exitval
      /\ DOMAIN Read2 = DOMAIN ck
  BY <1>2, <1>3 DEF Read2
<1> HIDE DEF Read2
<1>5. /\ Counted2.pc = "line" /\ Counted2.at = ck.at + 1 /\ Counted2.n = ck.n /\ Counted2.err = ck.err
      /\ Counted2.pre = Row.path
      /\ Counted2.ucount = IF ckOpt.update THEN ck.ucount + 1 ELSE ck.ucount
      /\ Counted2.exitval = IF ckOpt.update THEN ck.exitval ELSE 1
  <2>1. CASE ckOpt.update
    BY <1>3, <1>4, <2>1 DEF Counted2
  <2>2. CASE ~ckOpt.update
    BY <1>3, <1>4, <2>2 DEF Counted2
  <2> QED
    BY <2>1, <2>2
<1> QED
  BY <1>2, <1>4, <1>5, CountTyped

(* Why a line is not copied                                                 *)
LEMMA LineWhy ==
  ASSUME Types, CkLine
  PROVE  \/ Leave("2") /\ ckExit' = ckExit /\ Wrong
         \/ BadLine /\ Row.path \in ckOpt.prefix /\ PositiveFile(Row) /\ ~IsFile(files[T][Row.path])
         \/ Passed \/ NoFile \/ Same \/ Other
BY DEF CkLine, Passed, NoFile, Same, Other, Good, InOrder2, Wrong, Next2, Read2, Counted2, Outside, Check, PositiveFile

(* ... and that it is right not to copy it                                  *)
LEMMA FaultFound ==
  ASSUME Types, Replaced, ReadSoFar, ck.pc = "line", ck.at <= Len(tran[T]),
         Wrong \/ (Row.path \in ckOpt.prefix /\ PositiveFile(Row) /\ ~IsFile(files[T][Row.path]))
  PROVE  Faulty(T)
<1>1. /\ ck.at \in DOMAIN found[T] /\ Row.path = found[T][ck.at].path
      /\ ck.at \in Within(T) <=> Row.path \in ckOpt.prefix
      /\ ck.at \in Checked(T) <=> Row.path \in ckOpt.prefix /\ PositiveFile(Row)
  BY RowFound
<1>2. CASE Wrong
  <2>1. Row.path \in Nat \ {0} /\ ck.pre \in Nat
    BY AtTyped, LineTyped, CkParts, SMTT(20), ZenonT(20) DEF Path
  <2>2. PICK k \in Within(T) : k < ck.at /\ found[T][k].path = ck.pre
    BY <1>2, <2>1 DEF Wrong, ReadSoFar, InOrderSoFar
  <2> QED
    BY <1>1, <1>2, <2>2 DEF Wrong, Faulty
<1>3. CASE Row.path \in ckOpt.prefix /\ PositiveFile(Row) /\ ~IsFile(files[T][Row.path])
  BY <1>1, <1>3 DEF Faulty
<1> QED
  BY <1>2, <1>3

(* lcksum gives up                                                          *)
LEMMA LeaveFields ==
  ASSUME Types, NEW st \in {"0", "1", "2"}, Leave(st)
  PROVE  ck'.pc = "exit" /\ ck'.err = st /\ ck'.n = ck.n
BY CkParts DEF Leave, CkState

LEMMA LeftAtFault ==
  ASSUME Types, Progress, ck.pc \in {"line", "end"}, UNCHANGED <<ckOpt, files, found, pending>>,
         Leave("2"), ckExit' = ckExit, Faulty(T) \/ pending[T] # <<>> \/ faults' # 0
  PROVE  VInv'
<1>1. ck'.pc = "exit" /\ ck'.err = "2" /\ ck'.n = ck.n
  BY LeaveFields
<1>2. ckExit' = "none"
  BY CkParts DEF Codes
<1>3. PassedBy(ck.n)' /\ Swapped(ck.n)'
  BY <1>1, RunKept, SwappedKept DEF Progress
<1>4. Faulty(T) \/ pending[T] # <<>> => Reason'
  <2>1. T = Tg(ck.n) /\ T \in Tran /\ ck.n <= Len(ckOpt.targets)
    BY AtTyped, CkParts DEF T, Tg, InRange
  <2>2. (Faulty(T) <=> Faulty(Tg(ck.n))') /\ (Repeated(ck.n)' <=> Repeated(ck.n))
    BY <1>1, <2>1, RunKept
  <2>3. pending[T] # <<>> => ckOpt.update /\ Repeated(ck.n)
    BY <2>1 DEF Progress, Swapped, Repeated
  <2> QED
    BY <1>1, <2>1, <2>2, <2>3 DEF Reason
<1> QED
  BY <1>1, <1>2, <1>3, <1>4 DEF VInv, Resting, Progress, ReadSoFar, Verdict, Written, CkAt

LEMMA BadVerdict ==
  ASSUME Types, Replaced, Progress, ReadSoFar, ck.pc = "line", BadLine,
         UNCHANGED <<repository, ckOpt, pending, found, faults>>,
         Faulty(T) \/ pending[T] # <<>> \/ faults # 0
  PROVE  VInv'
<1>1. /\ ck.pc = "line" /\ ck.at <= Len(tran[T]) + 1
      /\ UNCHANGED <<repository, ckOpt, pending, found, faults>>
  BY DEF ReadSoFar
<1>2. CASE Leave("2") /\ ckExit' = ckExit
  BY <1>1, <1>2, LeftAtFault DEF repository
<1>3. CASE ckOpt.all /\ ck' = [ck EXCEPT !.pc = "end", !.exitval = 1] /\ ckExit' = ckExit
  <2>1. /\ ck'.pc = "end" /\ ck'.exitval = 1 /\ ck'.n = ck.n /\ ck'.err = ck.err /\ ck'.at = ck.at
        /\ ck'.pre = ck.pre
    BY <1>3, CkParts DEF CkState
  <2>2. ckExit' = "none" /\ ~ckOpt.update /\ T' = T
    BY <1>1, <1>3, <2>1, CkParts DEF Codes, T
  <2>3. Progress'
    BY <1>1, <2>1, RunKept, SwappedKept DEF Progress, repository
  <2>4. InOrderSoFar'
    BY <1>1, <2>1, <2>2, RunKept DEF ReadSoFar, InOrderSoFar, repository
  <2>5. ReadSoFar'
    BY <1>1, <1>3, <2>1, <2>2, <2>4 DEF ReadSoFar, CountedSoFar, repository
  <2> QED
    BY <2>1, <2>2, <2>3, <2>5 DEF VInv, Resting, Verdict, Written, CkAt
<1>4. CASE ckOpt.all /\ ck' = [ck EXCEPT !.pc = "done"] /\ ckExit' = "crash"
  <2>1. ck'.pc = "done"
    BY <1>4, CkParts DEF CkState
  <2> QED
    BY <1>1, <1>4, <2>1 DEF VInv, Resting, Progress, ReadSoFar, Verdict, Written, CkAt
<1> QED
  BY <1>2, <1>3, <1>4 DEF BadLine

(* The lines before the one that lcksum is at, when it is at the next       *)
LEMMA OrderGrows ==
  ASSUME Types, Replaced, ReadSoFar, Cksum, CkLine, Passed \/ NoFile \/ Same \/ Other
  PROVE  InOrderSoFar'
<1>1. /\ ck.pc = "line" /\ ck.at <= Len(tran[T])
      /\ UNCHANGED <<repository, ckOpt, pending, found, faults>>
  BY LineCases
<1>2. ck' \in {Next2, Read2, Counted2}
  BY DEF Passed, NoFile, Same, Other
<1>3. /\ ck'.at = ck.at + 1 /\ ck'.n = ck.n /\ T' = T /\ T \in Tran /\ ck.at \in Nat
      /\ ck' = Next2 => ck'.pre = ck.pre
      /\ ck' \in {Read2, Counted2} => ck'.pre = Row.path
  BY <1>1, <1>2, CountFields, AtTyped, CkParts DEF T
<1>4. /\ ck.at \in DOMAIN found[T] /\ Row.path = found[T][ck.at].path
      /\ ck.at \in Within(T) <=> Row.path \in ckOpt.prefix
      /\ ck.at \in Checked(T) <=> Row.path \in ckOpt.prefix /\ PositiveFile(Row)
  BY <1>1, RowFound
<1>5. /\ ck.pre = 0 \/ \E k \in Within(T) : k < ck.at /\ found[T][k].path = ck.pre
      /\ \A k \in Within(T) : k < ck.at => found[T][k].path <= ck.pre
      /\ \A k, m \in Within(T) : k < m /\ m < ck.at => found[T][k].path < found[T][m].path
      /\ \A k \in Checked(T) : k < ck.at => IsFile(files[T][found[T][k].path])
  BY <1>1 DEF ReadSoFar, InOrderSoFar
<1>6. \A k \in Within(T) : k \in Nat /\ found[T][k].path \in Nat /\ (k < ck'.at => k < ck.at \/ k = ck.at)
  <2>1. \A k \in DOMAIN found[T] : k \in Nat /\ found[T][k] \in Line
    BY <1>3, CkParts
  <2> QED
    BY <1>3, <2>1, LineTyped DEF Within
<1>7. Checked(T) \subseteq Within(T)
  BY DEF Checked
<1>8. ck.pre \in Nat /\ Row.path \in Nat
  BY <1>1, AtTyped, LineTyped, CkParts DEF Path
<1>9. IF ck.at \in Within(T) THEN ck'.pre = Row.path /\ ck.pre < Row.path ELSE ck'.pre = ck.pre
  BY <1>3, <1>4, <1>8 DEF Passed, NoFile, Same, Other, Good, InOrder2
<1>10. ck'.pre = 0 \/ \E k \in Within(T) : k < ck'.at /\ found[T][k].path = ck'.pre
  BY <1>3, <1>4, <1>5, <1>6, <1>9
<1>11. \A k \in Within(T) : k < ck'.at => found[T][k].path <= ck'.pre
  BY <1>3, <1>4, <1>5, <1>6, <1>8, <1>9
<1>12. \A k, m \in Within(T) : k < m /\ m < ck'.at => found[T][k].path < found[T][m].path
  BY <1>3, <1>4, <1>5, <1>6, <1>8, <1>9
<1>13. ck.at \in Checked(T) => IsFile(files[T][found[T][ck.at].path])
  BY <1>4 DEF Passed, NoFile, Same, Other, Good, PositiveFile
<1>14. \A k \in Checked(T) : k < ck'.at => IsFile(files[T][found[T][k].path])
  BY <1>5, <1>6, <1>7, <1>13
<1> QED
  BY <1>1, <1>3, <1>10, <1>11, <1>12, <1>14, RunKept DEF InOrderSoFar, repository

(* Every difference is noticed, and nothing else                            *)
LEMMA CountGrows ==
  ASSUME Types, Replaced, ReadSoFar, Cksum, CkLine, Passed \/ NoFile \/ Same \/ Other
  PROVE  CountedSoFar'
<1>1. /\ ck.pc = "line" /\ ck.at <= Len(tran[T])
      /\ UNCHANGED <<repository, ckOpt, pending, found, faults>>
  BY LineCases
<1>2. ck' \in {Next2, Read2, Counted2}
  BY DEF Passed, NoFile, Same, Other
<1>3. /\ ck'.at = ck.at + 1 /\ T' = T /\ T \in Tran /\ ck.at \in Nat /\ ck.ucount \in Nat
      /\ ck.exitval \in {0, 1} /\ ckOpt.update \in BOOLEAN /\ ckOpt.all \in BOOLEAN /\ found[T] \in Seq(Line)
  BY <1>1, <1>2, CountFields, AtTyped, CkParts DEF T
<1>4. /\ ck.at \in DOMAIN found[T] /\ Row.path = found[T][ck.at].path
      /\ ck.at \in Checked(T) <=> Row.path \in ckOpt.prefix /\ PositiveFile(Row)
      /\ pending[T] = <<>> => Row = found[T][ck.at]
  BY <1>1, RowFound
<1>5. CountedSoFar
  BY <1>1 DEF ReadSoFar
<1>6. \A k \in Checked(T) : k \in Nat /\ (k < ck'.at => k < ck.at \/ k = ck.at)
  BY <1>3 DEF Checked, Within
<1>7. ~ckOpt.update => pending[T] = <<>>
  BY <1>1, <1>3 DEF Replaced, CkAt
<1>8. CASE Other
  <2>1. /\ ck'.pre = Row.path
        /\ ck'.ucount = IF ckOpt.update THEN ck.ucount + 1 ELSE ck.ucount
        /\ ck'.exitval = IF ckOpt.update THEN ck.exitval ELSE 1
    BY <1>1, <1>2, <1>8, CountFields DEF Other
  <2>2. ~ckOpt.update => ck.at \in Checked(T) /\ Diff(T, ck.at)
    BY <1>4, <1>7, <1>8 DEF Other, Good, InOrder2, Diff
  <2>3. ckOpt.update => ck'.exitval = 0
    BY <1>5, <2>1 DEF CountedSoFar
  <2>4. IF ckOpt.update THEN ck'.ucount # 0 ELSE ck'.exitval # 0
    BY <1>3, <2>1
  <2>5. ~ckOpt.update => \E k \in Checked(T) : k < ck'.at /\ Diff(T, k)
    BY <1>3, <2>2
  <2> QED
    BY <1>1, <1>3, <2>3, <2>4, <2>5, RunKept DEF CountedSoFar, repository
<1>9. CASE Passed \/ NoFile \/ Same
  <2>1. ck'.ucount = ck.ucount /\ ck'.exitval = ck.exitval
    BY <1>1, <1>2, <1>9, CountFields DEF Passed, NoFile, Same
  <2>2. pending[T] = <<>> /\ ck.at \in Checked(T) => ~Diff(T, ck.at)
    BY <1>4, <1>9 DEF Passed, NoFile, Same, PositiveFile, Diff
  <2>3. ckOpt.update => ck'.exitval = 0
    BY <1>5, <2>1 DEF CountedSoFar
  <2>4. (IF ckOpt.update THEN pending[T] = <<>> /\ ck'.ucount = 0 ELSE ck'.exitval = 0) =>
          \A k \in Checked(T) : k < ck'.at => ~Diff(T, k)
    BY <1>5, <1>6, <1>7, <2>1, <2>2 DEF CountedSoFar
  <2>5. ~ckOpt.update /\ ~ckOpt.all /\ ck'.exitval = 1 => \E k \in Checked(T) : k < ck'.at /\ Diff(T, k)
    BY <1>3, <1>5, <1>6, <2>1 DEF CountedSoFar
  <2> QED
    BY <1>1, <1>3, <2>3, <2>4, <2>5, RunKept DEF CountedSoFar, repository
<1> QED
  BY <1>8, <1>9

LEMMA LineVerdict ==
  ASSUME IInv, VInv, Cksum, CkLine
  PROVE  VInv'
<1>0. Types /\ Replaced /\ Progress /\ ReadSoFar
  BY DEF IInv, VInv
<1>1. /\ ck.pc = "line" /\ ck.at <= Len(tran[T])
      /\ UNCHANGED <<repository, ckOpt, pending, found, faults>>
  BY <1>0, LineCases
<1>2. CASE Leave("2") /\ ckExit' = ckExit /\ Wrong
  BY <1>0, <1>1, <1>2, FaultFound, LeftAtFault DEF repository
<1>3. CASE BadLine /\ Row.path \in ckOpt.prefix /\ PositiveFile(Row) /\ ~IsFile(files[T][Row.path])
  BY <1>0, <1>1, <1>3, FaultFound, BadVerdict
<1>4. CASE Passed \/ NoFile \/ Same \/ Other
  <2>1. ck' \in {Next2, Read2, Counted2}
    BY <1>4 DEF Passed, NoFile, Same, Other
  <2>2. ck'.pc = "line" /\ ck'.at = ck.at + 1 /\ ck'.n = ck.n /\ ck'.err = ck.err
    BY <1>0, <1>1, <2>1, CountFields
  <2>3. T' = T /\ Len(tran[T]) \in Nat /\ ck.at \in Nat
    BY <1>0, <1>1, <2>2, AtTyped, CkParts DEF T
  <2>4. ckExit' = ckExit /\ ckExit = "none"
    BY <1>0, <1>1, <1>4, CkParts DEF Passed, NoFile, Same, Other, Copied, Codes
  <2>5. Progress'
    BY <1>0, <1>1, <2>2, RunKept, SwappedKept DEF Progress, repository
  <2>6. ReadSoFar'
    BY <1>0, <1>1, <1>4, <2>2, <2>3, OrderGrows, CountGrows DEF ReadSoFar, repository
  <2> QED
    BY <2>2, <2>4, <2>5, <2>6 DEF VInv, Resting, Verdict, Written, CkAt
<1> QED
  BY <1>0, <1>2, <1>3, <1>4, LineWhy

LEMMA EofVerdict ==
  ASSUME IInv, VInv, Cksum, CkEof
  PROVE  VInv'
<1>0. Types /\ Progress /\ ReadSoFar
  BY DEF IInv, VInv
<1>1. /\ ck.pc = "line" /\ ck.at > Len(tran[T]) /\ ck' = [ck EXCEPT !.pc = "end"]
      /\ UNCHANGED <<repository, ckOpt, copy, pending, found, ckExit, faults>>
  BY DEF CkEof, CkAt
<1>2. /\ ck'.pc = "end" /\ ck'.n = ck.n /\ ck'.at = ck.at /\ ck'.pre = ck.pre /\ ck'.ucount = ck.ucount
      /\ ck'.exitval = ck.exitval /\ ck'.err = ck.err
  BY <1>0, <1>1, CkParts DEF CkState
<1>3. T' = T /\ ckExit = "none" /\ Len(tran[T]) \in Nat /\ ck.at \in Nat
  BY <1>0, <1>1, <1>2, AtTyped, CkParts DEF T, Codes
<1>4. Progress'
  BY <1>0, <1>1, <1>2, RunKept, SwappedKept DEF Progress, repository
<1>5. InOrderSoFar' /\ CountedSoFar'
  BY <1>0, <1>1, <1>2, <1>3, RunKept DEF ReadSoFar, InOrderSoFar, CountedSoFar, repository
<1>6. ReadSoFar'
  BY <1>0, <1>1, <1>2, <1>3, <1>5 DEF ReadSoFar, repository
<1> QED
  BY <1>1, <1>2, <1>3, <1>4, <1>6 DEF VInv, Resting, Verdict, Written, CkAt

(* Only a transcript that has been replaced before has a piece of a line    *)
LEMMA TornVerdict ==
  ASSUME IInv, VInv, Cksum, CkTorn
  PROVE  VInv'
<1>1. Types /\ Replaced /\ Progress /\ ReadSoFar
  BY DEF IInv, VInv
<1>2. ck.pc = "line" /\ T \in torn /\ BadLine /\ UNCHANGED <<repository, ckOpt, pending, found, faults>>
  BY DEF CkTorn, CkAt
<1>3. lm.pc \in {"off", "done"}
  BY DEF Cksum, Called
<1>4. pending[T] # <<>> \/ faults # 0
  BY <1>2, <1>3 DEF IInv, TornWhy
<1> QED
  BY <1>1, <1>2, <1>4, BadVerdict

LEMMA StartVerdict ==
  ASSUME IInv, VInv, Cksum, CkStart
  PROVE  VInv'
<1>0. Types /\ Replaced /\ Resting
  BY DEF IInv, VInv
<1>1. /\ ck.pc = "idle" /\ ck' = [ck EXCEPT !.pc = "next"] /\ ck.n = 1 /\ ck.err = "0"
      /\ UNCHANGED <<repository, ckOpt, copy, pending, ckExit, faults>>
  BY <1>0 DEF CkStart, CkAt, Resting
<1>2. ck'.pc = "next" /\ ck'.n = 1 /\ ck'.err = "0"
  BY <1>0, <1>1, CkParts DEF CkState
<1>3. ckExit' = "none" /\ Len(ckOpt.targets) \in Nat
  BY <1>0, <1>1, CkParts DEF Codes
<1>4. \A t \in Tran : pending'[t] = <<>>
  BY <1>0, <1>1 DEF Replaced, CkAt
<1>5. PassedBy(1)' /\ ~Differing(1)' /\ Swapped(1)'
  BY <1>4 DEF PassedBy, Differing, Swapped
<1> QED
  BY <1>1, <1>2, <1>3, <1>5 DEF VInv, Resting, Progress, ReadSoFar, Verdict, Written, CkAt

LEMMA OpenVerdict ==
  ASSUME IInv, VInv, Cksum, CkOpen
  PROVE  VInv'
<1>0. Types /\ Progress
  BY DEF IInv, VInv
<1>1. /\ ck.pc = "next" /\ UNCHANGED <<repository, ckOpt, pending, found, ckExit, faults>>
      /\ ck \in CkState
  BY <1>0, CkParts DEF CkOpen, CkAt
<1>2. ckExit' = "none" /\ ck.n \in Nat \ {0} /\ Len(ckOpt.targets) \in Nat
  BY <1>0, <1>1, CkParts DEF Codes
<1>3. /\ ck.n <= Len(ckOpt.targets) + 1 /\ PassedBy(ck.n) /\ Swapped(ck.n)
      /\ ck.err = IF Differing(ck.n) THEN "1" ELSE "0"
  BY <1>0, <1>1 DEF Progress
<1>4. CASE ck.n > Len(ckOpt.targets)
  <2>1. ck' = [ck EXCEPT !.pc = "exit"]
    BY <1>4 DEF CkOpen
  <2>2. ck'.pc = "exit" /\ ck'.n = ck.n /\ ck'.err = ck.err
    BY <1>1, <2>1 DEF CkState
  <2>3. PassedBy(ck.n)' /\ Swapped(ck.n)' /\ (Differing(ck.n)' <=> Differing(ck.n))
    BY <1>1, <1>3, <2>2, RunKept, SwappedKept DEF repository
  <2>4. ck.n = Len(ckOpt.targets) + 1
    BY <1>2, <1>3, <1>4
  <2>5. Verdict'
    BY <1>1, <1>3, <2>2, <2>3, <2>4 DEF Verdict, Reason
  <2> QED
    BY <1>2, <2>2, <2>5 DEF VInv, Resting, Progress, ReadSoFar, Written, CkAt
<1>5. CASE ~(ck.n > Len(ckOpt.targets))
  <2>1. ck' = [ck EXCEPT !.pc = "line", !.at = 1, !.pre = 0, !.ucount = 0, !.exitval = 0]
    BY <1>5 DEF CkOpen
  <2>2. /\ ck'.pc = "line" /\ ck'.n = ck.n /\ ck'.err = ck.err
        /\ ck'.at = 1 /\ ck'.pre = 0 /\ ck'.ucount = 0 /\ ck'.exitval = 0
    <3> DEFINE A == [ck EXCEPT !.pc = "line", !.at = 1, !.pre = 0]
    <3>1. A.n = ck.n /\ A.err = ck.err /\ A.pc = "line" /\ A.at = 1 /\ A.pre = 0 /\ DOMAIN A = DOMAIN ck
      BY <1>1 DEF CkState
    <3>2. ck' = [A EXCEPT !.ucount = 0, !.exitval = 0]
      BY <1>1, <2>1 DEF CkState
    <3>3. DOMAIN ck = {"pc", "n", "at", "pre", "ucount", "exitval", "err"}
      BY <1>1 DEF CkState
    <3> HIDE DEF A
    <3> QED
      BY <3>1, <3>2, <3>3
  <2>3. Progress'
    BY <1>1, <1>3, <2>2, RunKept, SwappedKept DEF Progress, repository
  <2>4. T \in Tran /\ found[T] \in Seq(Line) /\ T' = T /\ tran' = tran /\ Len(tran[T]) \in Nat
    <3>1. ck.n \in 1..Len(ckOpt.targets) /\ ckOpt.targets \in Seq(Tran)
      BY <1>0, <1>2, <1>5, CkParts
    <3>2. T \in Tran
      BY <3>1 DEF T
    <3>3. found \in [Tran -> Seq(Line)] /\ tran \in [Tran -> Seq(Line)]
      BY <1>0, CkParts, MergeParts
    <3>4. found[T] \in Seq(Line) /\ tran[T] \in Seq(Line)
      BY <3>2, <3>3
    <3>5. T' = T /\ tran' = tran
      BY <1>1, <2>2 DEF T, repository
    <3> QED
      BY <3>2, <3>4, <3>5
  <2>5. \A k \in Within(T) : ~(k < 1)
    BY <2>4 DEF Within
  <2>6. Within(T)' = Within(T) /\ Checked(T)' = Checked(T) /\ Checked(T) \subseteq Within(T)
    BY <1>1, <2>4, RunKept DEF Checked, repository
  <2>7. InOrderSoFar' /\ CountedSoFar'
    BY <2>2, <2>5, <2>6 DEF InOrderSoFar, CountedSoFar
  <2>8. ReadSoFar'
    BY <2>2, <2>4, <2>7 DEF ReadSoFar
  <2> QED
    BY <1>2, <2>2, <2>3, <2>8 DEF VInv, Resting, Verdict, Written, CkAt
<1> QED
  BY <1>4, <1>5

(* What the end of a transcript tells about it                              *)
LEMMA EndKnows ==
  ASSUME Types, Replaced, CopySoFar, ReadSoFar, ck.pc = "end"
  PROVE  /\ ~(ckOpt.all /\ ck.exitval = 1) => ~Faulty(T)
         /\ ckOpt.update => ck.exitval = 0
         /\ ~ckOpt.update /\ ck.exitval = 0 => ~Differs(T)
         /\ ~ckOpt.update /\ ~ckOpt.all /\ ck.exitval = 1 => Differs(T)
         /\ ckOpt.update /\ pending[T] = <<>> => (ck.ucount > 0 <=> Differs(T))
         /\ pending[T] # <<>> => ~(ck.ucount > 0) /\ Differs(T) /\ ckOpt.update
<1>1. /\ T \in Tran /\ found[T] \in Seq(Line) /\ ck.exitval \in {0, 1} /\ ck.ucount \in Nat
      /\ ckOpt.update \in BOOLEAN /\ ckOpt.all \in BOOLEAN /\ ~CkAt("idle") /\ (ckOpt.all => ~ckOpt.update)
  BY AtTyped, CkParts DEF CkAt
<1>2. pending[T] # <<>> => ~(ck.ucount > 0) /\ Differs(T) /\ ~Faulty(T) /\ ckOpt.update
  BY <1>1 DEF Replaced, CopySoFar
<1>3. InOrderSoFar /\ CountedSoFar /\ (~(ckOpt.all /\ ck.exitval = 1) => ck.at = Len(tran[T]) + 1)
  BY DEF ReadSoFar
<1>4. ASSUME pending[T] = <<>>, ~(ckOpt.all /\ ck.exitval = 1)
      PROVE  \A k \in Within(T) : k < ck.at /\ k \in Nat /\ found[T][k].path \in Nat
  <2>1. tran[T] = found[T]
    BY <1>1, <1>4 DEF Replaced
  <2>2. \A k \in DOMAIN found[T] : k \in Nat /\ k < ck.at /\ found[T][k] \in Line
    BY <1>1, <1>3, <1>4, <2>1
  <2> QED
    BY <2>2, LineTyped DEF Within
<1>5. Checked(T) \subseteq Within(T)
  BY DEF Checked
<1>6. ~(ckOpt.all /\ ck.exitval = 1) => ~Faulty(T)
  <2>1. ASSUME pending[T] = <<>>, ~(ckOpt.all /\ ck.exitval = 1)
        PROVE  ~Faulty(T)
    BY <1>3, <1>4, <1>5, <2>1 DEF InOrderSoFar, Faulty
  <2> QED
    BY <1>2, <2>1
<1>7. ~ckOpt.update => pending[T] = <<>>
  BY <1>2
<1>8. ckOpt.update => ck.exitval = 0
  BY <1>3 DEF CountedSoFar
<1>9. ~ckOpt.update /\ ck.exitval = 0 => ~Differs(T)
  BY <1>3, <1>4, <1>5, <1>7 DEF CountedSoFar, Differs, Diff
<1>10. ~ckOpt.update /\ ~ckOpt.all /\ ck.exitval = 1 => Differs(T)
  BY <1>3 DEF CountedSoFar, Differs, Diff
<1>11. ckOpt.update /\ pending[T] = <<>> => (ck.ucount > 0 <=> Differs(T))
  <2>1. ASSUME ckOpt.update, pending[T] = <<>>, ck.ucount = 0
        PROVE  ~Differs(T)
    BY <1>1, <1>3, <1>4, <1>5, <2>1 DEF CountedSoFar, Differs, Diff
  <2>2. ASSUME ckOpt.update, pending[T] = <<>>, ck.ucount > 0
        PROVE  Differs(T)
    BY <2>2 DEF CopySoFar, Differs
  <2> QED
    BY <1>1, <2>1, <2>2
<1> QED
  BY <1>2, <1>6, <1>8, <1>9, <1>10, <1>11

(* main() after a transcript                                                *)
LEMMA ReturnedFields ==
  ASSUME Types, NEW x \in {0, 1}, Returned(x)
  PROVE  /\ ck'.pc \in {"next", "exit"}
         /\ x = 1 /\ ~ckOpt.update => ck'.pc = "exit" /\ ck'.n = ck.n /\ ck'.err = "1"
         /\ ~(x = 1 /\ ~ckOpt.update) =>
              ck'.pc = "next" /\ ck'.n = ck.n + 1 /\ ck'.err = IF x = 1 THEN "1" ELSE ck.err
<1>1. CASE x = 1 /\ ~ckOpt.update
  BY <1>1, LeaveFields DEF Returned
<1>2. CASE ~(x = 1 /\ ~ckOpt.update)
  <2> DEFINE e == IF x = 1 THEN "1" ELSE ck.err
             m == ck.n + 1
  <2>1. ck' = [ck EXCEPT !.pc = "next", !.n = m, !.err = e] /\ ck \in CkState
    BY <1>2, CkParts DEF Returned
  <2> HIDE DEF e, m
  <2>2. ck'.pc = "next" /\ ck'.n = m /\ ck'.err = e
    BY <2>1 DEF CkState
  <2> QED
    BY <1>2, <2>2 DEF e, m
<1> QED
  BY <1>1, <1>2

(* ... that has been found right, or has been brought up to date            *)
LEMMA OnwardVerdict ==
  ASSUME Types, Types', Progress, ck.pc = "end", UNCHANGED <<files, ckOpt, found, ckExit>>,
         ~Faulty(T), ck'.pc = "next", ck'.n = ck.n + 1,
         ~ckOpt.update => ~Differs(T),
         ck'.err = IF Differs(T) THEN "1" ELSE ck.err,
         \A t \in Tran : pending'[t] # <<>> <=> pending[t] # <<>> \/ (ckOpt.update /\ t = T /\ Differs(T))
  PROVE  VInv'
<1>1. /\ T = Tg(ck.n) /\ ck.n \in Nat \ {0} /\ ck.n <= Len(ckOpt.targets) /\ Len(ckOpt.targets) \in Nat
      /\ ckExit = "none" /\ T \in Tran
  BY AtTyped, CkParts DEF T, Tg, InRange, Codes
<1>2. /\ PassedBy(ck.n) /\ Swapped(ck.n)
      /\ ck.err = IF Differing(ck.n) THEN "1" ELSE "0"
  BY DEF Progress
<1>3. /\ PassedBy(ck.n + 1) <=> PassedBy(ck.n) /\ ~Faulty(Tg(ck.n)) /\ (~ckOpt.update => ~Differs(Tg(ck.n)))
      /\ Differing(ck.n + 1) <=> Differing(ck.n) \/ Differs(Tg(ck.n))
      /\ \A t : (\E m \in 1..ck.n : Tg(m) = t) <=> (\E m \in 1..(ck.n - 1) : Tg(m) = t) \/ t = Tg(ck.n)
  BY <1>1, OneMore
<1>4. PassedBy(ck.n)' /\ ck'.err = IF Differing(ck.n)' THEN "1" ELSE "0"
  <2>1. PassedBy(ck.n + 1) /\ ck'.err = IF Differing(ck.n + 1) THEN "1" ELSE "0"
    BY <1>1, <1>2, <1>3
  <2> QED
    BY <2>1, RunKept
<1>5. Swapped(ck.n)'
  <2>1. /\ \A m : Tg(m)' = Tg(m)
        /\ \A t : (Differs(t)' <=> Differs(t))
        /\ (ck.n + 1) - 1 = ck.n
    BY <1>1, RunKept
  <2>2. ASSUME NEW t \in Tran
        PROVE  pending'[t] # <<>> <=> ckOpt.update /\ Differs(t) /\ \E m \in 1..ck.n : Tg(m) = t
    <3>1. pending[t] # <<>> <=> ckOpt.update /\ Differs(t) /\ \E m \in 1..(ck.n - 1) : Tg(m) = t
      BY <1>2 DEF Swapped
    <3> QED
      BY <1>1, <1>3, <3>1
  <2> QED
    BY <2>1, <2>2 DEF Swapped
<1>6. Progress'
  BY <1>1, <1>4, <1>5 DEF Progress
<1> QED
  BY <1>1, <1>6 DEF VInv, Resting, ReadSoFar, Verdict, Written, CkAt

LEMMA EndVerdict ==
  ASSUME IInv, VInv, Cksum, CkEnd
  PROVE  VInv'
<1>0. Types /\ Types' /\ Replaced /\ CopySoFar /\ Progress /\ ReadSoFar
  BY CkEndTypes DEF IInv, VInv
<1>1. ck.pc = "end" /\ UNCHANGED <<files, ckOpt, copy, found, ckExit, faults>>
  BY DEF CkEnd, CkAt
<1>2. /\ ~(ckOpt.all /\ ck.exitval = 1) => ~Faulty(T)
      /\ ckOpt.update => ck.exitval = 0
      /\ ~ckOpt.update /\ ck.exitval = 0 => ~Differs(T)
      /\ ~ckOpt.update /\ ~ckOpt.all /\ ck.exitval = 1 => Differs(T)
      /\ ckOpt.update /\ pending[T] = <<>> => (ck.ucount > 0 <=> Differs(T))
      /\ pending[T] # <<>> => ~(ck.ucount > 0) /\ Differs(T) /\ ckOpt.update
  BY <1>0, <1>1, EndKnows
<1>3. /\ T = Tg(ck.n) /\ ck.n \in Nat \ {0} /\ ck.n <= Len(ckOpt.targets) /\ T \in Tran /\ ckExit = "none"
      /\ pending \in [Tran -> Seq(Line)] /\ ck.exitval \in {0, 1}
  BY <1>0, <1>1, AtTyped, CkParts DEF T, Tg, InRange, Codes
<1>4. CASE ckOpt.update /\ ck.ucount > 0
  <2>1. Returned(1) /\ pending' = [pending EXCEPT ![T] = copy]
    BY <1>4 DEF CkEnd
  <2>2. ck'.pc = "next" /\ ck'.n = ck.n + 1 /\ ck'.err = "1"
    BY <1>0, <1>4, <2>1, ReturnedFields
  <2>3. copy # <<>> /\ ~Faulty(T) /\ Differs(T)
    BY <1>0, <1>1, <1>4, CopyRight
  <2>4. \A t \in Tran : pending'[t] = IF t = T THEN copy ELSE pending[t]
    BY <1>3, <2>1
  <2>5. \A t \in Tran : pending'[t] # <<>> <=> pending[t] # <<>> \/ (ckOpt.update /\ t = T /\ Differs(T))
    BY <1>4, <2>3, <2>4
  <2> QED
    BY <1>0, <1>1, <1>4, <2>2, <2>3, <2>5, OnwardVerdict
<1>5. CASE ~(ckOpt.update /\ ck.ucount > 0)
  <2>1. Returned(ck.exitval) /\ UNCHANGED <<tran, pending>>
    BY <1>5 DEF CkEnd
  <2>2. CASE ck.exitval = 1
    <3>1. ~ckOpt.update
      BY <1>2, <2>2
    <3>2. ck'.pc = "exit" /\ ck'.n = ck.n /\ ck'.err = "1"
      BY <1>0, <1>3, <2>1, <2>2, <3>1, ReturnedFields
    <3>3. PassedBy(ck.n)' /\ Swapped(ck.n)'
      BY <1>0, <1>1, <2>1, <3>2, RunKept, SwappedKept DEF Progress
    <3>4. ~ckOpt.all => ~Faulty(Tg(ck.n))' /\ Differs(Tg(ck.n))'
      BY <1>1, <1>2, <1>3, <2>2, <3>1, <3>2, RunKept
    <3>5. Verdict'
      BY <1>1, <1>3, <3>1, <3>2, <3>3, <3>4 DEF Verdict, Reason
    <3> QED
      BY <1>1, <1>3, <3>2, <3>5 DEF VInv, Resting, Progress, ReadSoFar, Written, CkAt
  <2>3. CASE ck.exitval = 0
    <3>1. ck'.pc = "next" /\ ck'.n = ck.n + 1 /\ ck'.err = ck.err
      BY <1>0, <2>1, <2>3, ReturnedFields
    <3>2. ~Faulty(T) /\ (~ckOpt.update => ~Differs(T))
      BY <1>2, <2>3
    <3>3. Differs(T) => pending[T] # <<>>
      BY <1>2, <1>5, <3>2
    <3>4. Differs(T) => ck.err = "1"
      <4>1. Differs(T) => \E m \in 1..(ck.n - 1) : Tg(m) = T
        BY <1>0, <1>1, <1>3, <3>3 DEF Progress, Swapped
      <4> QED
        BY <1>0, <1>1, <4>1 DEF Progress, Differing
    <3>5. \A t \in Tran : pending'[t] # <<>> <=> pending[t] # <<>> \/ (ckOpt.update /\ t = T /\ Differs(T))
      BY <2>1, <3>3
    <3> QED
      BY <1>0, <1>1, <3>1, <3>2, <3>4, <3>5, OnwardVerdict
  <2> QED
    BY <1>3, <2>2, <2>3
<1> QED
  BY <1>4, <1>5

LEMMA FinishVerdict ==
  ASSUME IInv, VInv, Cksum, CkFinish
  PROVE  VInv'
<1>0. Types /\ Verdict
  BY DEF IInv, VInv
<1>1. /\ ck.pc = "exit" /\ ck' = [ck EXCEPT !.pc = "done"] /\ ckExit' = ck.err
      /\ UNCHANGED <<files, ckOpt, copy, pending, found>>
  BY DEF CkFinish, CkAt
<1>2. ck'.pc = "done" /\ ck'.n = ck.n /\ ck'.err = ck.err
  BY <1>0, <1>1, CkParts DEF CkState
<1>3. PICK lost \in SUBSET { t \in Tran : pending[t] # <<>> } :
        /\ faults' = IF lost = {} THEN faults ELSE faults + 1
        /\ tran' = [t \in Tran |-> IF pending[t] = <<>> \/ t \in lost THEN tran[t] ELSE pending[t]]
  BY DEF CkFinish
<1>4. faults \in Nat
  BY <1>0, MergeParts, LoadSetsAssumption
<1>5. faults' = 0 => faults = 0 /\ \A t \in Tran : pending[t] # <<>> => tran'[t] = pending[t]
  BY <1>3, <1>4
<1>6. Written'
  BY <1>0, <1>1, <1>2, <1>5, CkParts DEF Written
<1>7. /\ PassedBy(ck.n)' <=> PassedBy(ck.n)
      /\ Differing(ck.n)' <=> Differing(ck.n)
      /\ Repeated(ck.n)' <=> Repeated(ck.n)
      /\ Swapped(ck.n)' <=> Swapped(ck.n)
      /\ Faulty(Tg(ck.n))' <=> Faulty(Tg(ck.n))
      /\ Differs(Tg(ck.n))' <=> Differs(Tg(ck.n))
  BY <1>1, <1>2, RunKept, SwappedKept
<1>8. Reason' <=> Reason
  BY <1>1, <1>2, <1>7 DEF Reason
<1>9. Verdict'
  BY <1>0, <1>1, <1>2, <1>5, <1>7, <1>8 DEF Verdict
<1> QED
  BY <1>2, <1>6, <1>9 DEF VInv, Resting, Progress, ReadSoFar, CkAt

LEMMA FailVerdict ==
  ASSUME IInv, VInv, Cksum, CkFails \/ CkKilled
  PROVE  VInv'
<1>0. Types /\ Progress /\ faults \in Nat
  BY MergeParts, LoadSetsAssumption DEF IInv, VInv
<1>1. CASE CkKilled
  <2>1. ck' = [ck EXCEPT !.pc = "done"] /\ ckExit' = "killed" /\ faults' # 0
    BY <1>0, <1>1 DEF CkKilled
  <2>2. ck'.pc = "done"
    BY <1>0, <2>1, CkParts DEF CkState
  <2> QED
    BY <2>1, <2>2 DEF VInv, Resting, Progress, ReadSoFar, Verdict, Written, CkAt
<1>2. CASE CkFails
  <2>1. /\ Leave("2") /\ faults' # 0 /\ UNCHANGED <<repository, ckOpt, copy, pending, found, ckExit>>
        /\ ck.pc \in {"next", "line", "end"}
    BY <1>0, <1>2 DEF CkFails
  <2>2. ck'.pc = "exit" /\ ck'.err = "2" /\ ckExit' = "none"
    BY <1>0, <2>1, LeaveFields, CkParts DEF Codes
  <2> QED
    BY <2>1, <2>2 DEF VInv, Resting, Progress, ReadSoFar, Verdict, Written, CkAt
<1> QED
  BY <1>1, <1>2

LEMMA VerdictStep == IInv /\ VInv /\ [Next]_vars => VInv'
<1> SUFFICES ASSUME IInv, VInv, [Next]_vars PROVE VInv'
  OBVIOUS
<1>1. CASE Merge
  <2>1. CkAt("idle") /\ UNCHANGED ckOwn
    BY <1>1, MergeTypes DEF Merge, IInv
  <2>2. ck' = ck /\ ckExit' = ckExit /\ ck.pc = "idle" /\ ckExit = "none"
    BY <2>1, CkParts DEF ckOwn, CkAt, IInv, Codes
  <2> QED
    BY <2>2 DEF VInv, Resting, Progress, ReadSoFar, Verdict, Written, CkAt
<1>2. CASE Cksum
  BY <1>2, StartVerdict, OpenVerdict, LineVerdict, EofVerdict, TornVerdict, EndVerdict, FinishVerdict, FailVerdict
  DEF Cksum, CkNext, CkStep
<1>3. CASE UNCHANGED vars
  <2>1. UNCHANGED <<tran, files, faults, ckOpt, ck, copy, pending, found, ckExit>>
    BY <1>3 DEF vars, repository, ckOwn
  <2>2. /\ PassedBy(ck.n)' <=> PassedBy(ck.n)
        /\ Differing(ck.n)' <=> Differing(ck.n)
        /\ Repeated(ck.n)' <=> Repeated(ck.n)
        /\ Swapped(ck.n)' <=> Swapped(ck.n)
        /\ Faulty(Tg(ck.n))' <=> Faulty(Tg(ck.n))
        /\ Differs(Tg(ck.n))' <=> Differs(Tg(ck.n))
    BY <2>1, RunKept, SwappedKept
  <2>3. Resting' /\ Progress' /\ Written'
    BY <2>1, <2>2 DEF VInv, Resting, Progress, Written, CkAt
  <2>4. Verdict'
    BY <2>1, <2>2 DEF VInv, Verdict, Reason
  <2>5. T' = T
    BY <2>1 DEF T
  <2>6. InOrderSoFar' <=> InOrderSoFar
    BY <2>1, <2>5, RunKept DEF InOrderSoFar
  <2>7. CountedSoFar' <=> CountedSoFar
    BY <2>1, <2>5, RunKept DEF CountedSoFar
  <2>8. ReadSoFar'
    BY <2>1, <2>5, <2>6, <2>7 DEF VInv, ReadSoFar
  <2> QED
    BY <2>3, <2>4, <2>8 DEF VInv
<1> QED
  BY <1>1, <1>2, <1>3 DEF Next

LEMMA VerdictInvariance == Spec => [](IInv /\ VInv)
<1>1. Init => VInv
  BY DEF Init, CkIdle, VInv, Resting, Progress, ReadSoFar, Verdict, Written, CkAt
<1>2. IInv /\ VInv /\ [Next]_vars => (IInv /\ VInv)'
  BY StepKeeps, VerdictStep
<1> QED
  BY <1>1, <1>2, InitKeeps, PTL DEF Spec

LEMMA LeastNat ==
  ASSUME NEW S, S \subseteq Nat, S # {}
  PROVE  \E m \in S : \A q \in S : m <= q
<1> DEFINE less == OpToRel(<, Nat)
<1>1. IsWellFoundedOn(less, Nat)
  BY NatLessThanWellFounded
<1>2. \A x, y \in Nat : x < y => <<x, y>> \in less
  BY DEF OpToRel
<1> HIDE DEF less
<1>3. PICK w \in S : \A r \in S : ~(<<r, w>> \in less)
  BY <1>1, WFMin
<1>4. ASSUME NEW r \in S PROVE w <= r
  <2>1. ~(<<r, w>> \in less)
    BY <1>3
  <2>2. ~(r < w) /\ r \in Nat /\ w \in Nat
    BY <1>2, <2>1
  <2> QED
    BY <2>2
<1> QED
  BY <1>4

(* The first transcript with an error                                       *)
LEMMA FirstFaultyIs ==
  ASSUME Types, NEW n \in Nat \ {0}, n <= Len(ckOpt.targets) + 1, PassedBy(n)
  PROVE  /\ FirstFaulty \in Nat /\ n <= FirstFaulty
         /\ n <= Len(ckOpt.targets) /\ Faulty(Tg(n)) => FirstFaulty = n
         /\ n <= Len(ckOpt.targets) /\ ~Faulty(Tg(n)) => n < FirstFaulty
         /\ n = Len(ckOpt.targets) + 1 => FirstFaulty = n
<1> DEFINE ends == { m \in DOMAIN ckOpt.targets : Faulty(ckOpt.targets[m]) }
           first == CHOOSE m \in ends : \A q \in ends : m <= q
<1>1. DOMAIN ckOpt.targets = 1..Len(ckOpt.targets) /\ Len(ckOpt.targets) \in Nat
  BY CkParts
<1>2. \A m \in 1..(n - 1) : m \notin ends
  BY DEF PassedBy, Tg
<1>3. FirstFaulty = IF ends = {} THEN Len(ckOpt.targets) + 1 ELSE first
  BY DEF FirstFaulty
<1>4. n <= Len(ckOpt.targets) => (n \in ends <=> Faulty(Tg(n)))
  BY <1>1 DEF Tg
<1>5. ends \subseteq Nat /\ (\A q \in ends : n <= q /\ q <= Len(ckOpt.targets))
  BY <1>1, <1>2
<1> HIDE DEF ends
<1>6. ends # {} => first \in ends /\ \A q \in ends : first <= q
  <2> SUFFICES ASSUME ends # {} PROVE \E m \in ends : \A q \in ends : m <= q
    OBVIOUS
  <2> QED
    BY <1>5, LeastNat
<1> HIDE DEF first
<1>7. CASE ends = {}
  BY <1>1, <1>3, <1>4, <1>7
<1>8. CASE ends # {}
  BY <1>1, <1>3, <1>4, <1>5, <1>6, <1>8
<1> QED
  BY <1>7, <1>8

(* lcksum exits with 0 only if every transcript has been read to its end    *)
(* and nothing differs.  Without a fault, verifying changes nothing and has *)
(* every status for a reason; updating brings all transcripts up to date    *)
(* before the first that is faulty, or one that is named a second time (its *)
(* copy may end in a half line), and leaves the others alone.  Of lines     *)
(* made without a checksum the time is left out: it is not the file's.      *)
THEOREM ChecksWhole == Spec => []CksumExact
<1>1. IInv /\ VInv => ZeroMeansVerified
  <2> SUFFICES ASSUME IInv, VInv, ckExit = "0", NEW t \in Targets
               PROVE  ~Faulty(t) /\ ~Differs(t) /\ tran[t] = found[t]
    BY DEF ZeroMeansVerified
  <2>1. ck.err = "0" /\ ck.n = Len(ckOpt.targets) + 1 /\ PassedBy(ck.n) /\ ~Differing(ck.n)
    BY DEF VInv, Verdict, Written
  <2>2. PICK m \in 1..Len(ckOpt.targets) : t = Tg(m)
    BY CkParts DEF IInv, Targets, Tg
  <2>3. t \in Tran /\ m \in 1..(ck.n - 1) /\ ~CkAt("idle")
    BY <2>1, <2>2, CkParts DEF IInv, Tg, CkAt, Codes
  <2>4. ~Faulty(t) /\ ~Differs(t)
    BY <2>1, <2>2, <2>3 DEF PassedBy, Differing
  <2> QED
    BY <2>3, <2>4 DEF IInv, Replaced
<1>2. IInv /\ VInv => CksumWhole
  <2> SUFFICES ASSUME IInv, VInv, ckExit # "none", faults = 0, ~ckOpt.all
               PROVE  VerifyWhole /\ UpdateWhole
    BY DEF CksumWhole
  <2>0. Types /\ Replaced
    BY DEF IInv
  <2>1. /\ ckExit \in {"0", "1", "2"} /\ ckExit = ck.err
        /\ \A t \in Tran : pending[t] # <<>> => tran[t] = pending[t]
    BY <2>0, CkParts DEF VInv, Written, Codes
  <2>2. PassedBy(ck.n) /\ Swapped(ck.n) /\ Reason
    BY <2>1 DEF VInv, Verdict
  <2>3. /\ ck.n \in Nat \ {0} /\ Len(ckOpt.targets) \in Nat /\ ~CkAt("idle")
        /\ DOMAIN ckOpt.targets = 1..Len(ckOpt.targets) /\ ck.n <= Len(ckOpt.targets) + 1
    BY <2>0, <2>2, CkParts DEF CkAt, Codes, Reason
  <2>4. (\E t \in Targets : Differs(t)) <=> Differing(Len(ckOpt.targets) + 1)
    <3>1. (Len(ckOpt.targets) + 1) - 1 = Len(ckOpt.targets)
      BY <2>3
    <3>2. (\E t \in Targets : Differs(t)) <=> \E m \in DOMAIN ckOpt.targets : Differs(ckOpt.targets[m])
      BY DEF Targets
    <3> QED
      BY <2>3, <3>1, <3>2 DEF Differing, Tg
  <2>5. ck.n <= Len(ckOpt.targets) => Tg(ck.n) \in Targets
    BY <2>3 DEF Tg, Targets
  <2>6. ASSUME ~ckOpt.update PROVE VerifyWhole
    <3>1. tran = found
      <4>1. \A t \in Tran : tran[t] = found[t]
        BY <2>0, <2>3, <2>6 DEF Replaced
      <4>2. tran \in [Tran -> Seq(Line)] /\ found \in [Tran -> Seq(Line)]
        BY <2>0, MergeParts, CkParts
      <4> QED
        BY <4>1, <4>2
    <3>2. ckExit = "2" => \E t \in Targets : Faulty(t)
      BY <2>1, <2>2, <2>5, <2>6 DEF Reason
    <3>3. ckExit = "1" => \E t \in Targets : Differs(t)
      BY <2>1, <2>2, <2>4, <2>5 DEF Reason
    <3>4. ckExit = "0" => \A t \in Targets : ~Faulty(t) /\ ~Differs(t)
      BY <1>1 DEF ZeroMeansVerified
    <3> QED
      BY <2>1, <3>1, <3>2, <3>3, <3>4 DEF VerifyWhole
  <2>7. ASSUME ckOpt.update PROVE UpdateWhole
    <3> DEFINE s == ck.n
    <3>1. s \in Ends
      <4>1. /\ FirstFaulty \in Nat /\ s <= FirstFaulty
            /\ s <= Len(ckOpt.targets) /\ Faulty(Tg(s)) => FirstFaulty = s
            /\ s <= Len(ckOpt.targets) /\ ~Faulty(Tg(s)) => s < FirstFaulty
            /\ s = Len(ckOpt.targets) + 1 => FirstFaulty = s
        BY <2>0, <2>2, <2>3, FirstFaultyIs
      <4>2. CASE FirstFaulty = s
        BY <4>2 DEF Ends
      <4>3. CASE FirstFaulty # s
        <5>1. s <= Len(ckOpt.targets) /\ ~Faulty(Tg(s)) /\ s \in 1..(FirstFaulty - 1)
          BY <2>3, <4>1, <4>3
        <5>2. Repeated(s)
          BY <2>2, <2>3, <2>7, <5>1 DEF Reason
        <5> QED
          BY <5>1, <5>2 DEF Ends, UpdatedBefore, Repeated, Tg
      <4> QED
        BY <4>2, <4>3
    <3>2. ckExit = IF s <= Len(ckOpt.targets) THEN "2" ELSE IF \E t \in Targets : Differs(t) THEN "1" ELSE "0"
      BY <2>1, <2>2, <2>3, <2>4, <2>7 DEF Reason
    <3>3. ASSUME NEW t \in Tran
          PROVE  IF \E m \in 1..(s - 1) : ckOpt.targets[m] = t THEN Updated(tran[t], t) ELSE tran[t] = found[t]
      <4>1. pending[t] # <<>> <=> Differs(t) /\ \E m \in 1..(s - 1) : ckOpt.targets[m] = t
        BY <2>2, <2>7 DEF Swapped, Tg
      <4>2. /\ pending[t] = <<>> => tran[t] = found[t]
            /\ pending[t] # <<>> => tran[t] = Refreshed(t)
        BY <2>0, <2>1, <2>3 DEF Replaced
      <4>3. Updated(Refreshed(t), t) /\ (~Differs(t) => Updated(found[t], t))
        BY <2>0, RefreshedRight
      <4> QED
        BY <4>1, <4>2, <4>3
    <3> QED
      BY <3>1, <3>2, <3>3 DEF UpdateWhole
  <2> QED
    BY <2>6, <2>7 DEF VerifyWhole, UpdateWhole
<1> QED
  BY <1>1, <1>2, VerdictInvariance, PTL DEF CksumExact

-----------------------------------------------------------------------------

(* What lmerge makes of sorted transcripts                                  *)

(* The readers that have still to come to a line for p                      *)
Still(p) == { r \in Reader : \E m \in Rest(r) : tran[r][m].path = p }

(* What has been written for p is what should be                            *)
PositiveOf(p) ==
  ~Mismatched(p) =>
    { out[k] : k \in { m \in DOMAIN out : out[m].path = p /\ ~out[m].minus } }
      = { l \in Deciding(p) : ~l.minus }

WrittenMinus(p) ==
  ~opt.noupload => \A k \in DOMAIN out : out[k].path = p /\ out[k].minus =>
    /\ Listing(p) # {} /\ out[k] = LineOf(Winner(p), p)
    /\ opt.n = 2 => Listing(p) = {Winner(p)}

AloneMinus(p) ==
  \A r \in Reader :
    Listing(p) = {r} /\ LineOf(r, p).minus /\ (r = 1 \/ (opt.n = 2 /\ ~opt.noupload)) =>
      \E k \in DOMAIN out : out[k] = LineOf(r, p)

(* ... and it has been read, not made up                                    *)
Taken(p) == \A k \in DOMAIN out : out[k].path = p => \E r \in Listing(p) : out[k] = LineOf(r, p)

Settled(p) == PositiveOf(p) /\ WrittenMinus(p) /\ AloneMinus(p) /\ Taken(p)

(* -n: the line of the first transcript has been skipped for that of the    *)
(* second                                                                   *)
Passed1(p) ==
  /\ opt.noupload /\ Listing(p) = {1, 2} /\ LineOf(1, p).type = "f"
  /\ LineOf(2, p).type = "f" => LineOf(1, p).data # LineOf(2, p).data

(* The line of the highest precedence is the last to go                     *)
WinnerLeft == \A p \in Path : Still(p) # {} =>
  (\A r \in Listing(p) : \E w \in Still(p) : w <= r) \/ (Still(p) = {2} /\ Passed1(p))

BeyondOut == \A k \in DOMAIN out : \A p \in Path : Still(p) # {} => out[k].path < p
AllSettled == \A p \in Path : Still(p) = {} => Settled(p)

(* Of two transcripts, the second goes first only if it matches             *)
Together == opt.n = 2 => \A p \in Path : 1 \in Still(p) /\ 2 \in Listing(p) =>
  2 \in Still(p) \/ (HasCand /\ lm.candidate = 1 /\ Cand.path = p /\ lm.match)

(* The candidate against the readers that it has been compared with         *)
CandLow == \A p \in Path : \A r \in Still(p) : r # lm.candidate /\ r < lm.j => Cand.path < p

(* -n: the two lines clash, and the one of the first is skipped             *)
Clash == opt.noupload /\ lm.candidate = 1 /\ lm.match /\ 2 \in Still(Cand.path) /\ Passed1(Cand.path)

Stage ==
  /\ lm.pc \in {"place", "output"} => lm.j > opt.n /\ (~Hidden \/ (opt.force /\ lm.candidate = 2))
  /\ lm.pc = "skip" => Clash \/ (lm.j > opt.n /\ Hidden /\ ~(opt.force /\ lm.candidate = 2))

Matches ==
  /\ lm.candidate = 1 /\ lm.match => \E q \in Listing(Cand.path) : q # 1
  /\ opt.n = 2 /\ lm.candidate = 2 /\ lm.match => opt.force
  /\ lm.pc = "compare" /\ lm.j = 2 => ~lm.match

Located ==
  opt.noupload /\ lm.candidate = 1 =>
    /\ lm.fileloc # 1 =>
         /\ 2 \in Listing(Cand.path) /\ Cand.type = "f"
         /\ LineOf(2, Cand.path).type = "f" => Cand.data = LineOf(2, Cand.path).data
    /\ lm.fileloc = 1 /\ lm.j > 2 => Cand.type # "f" \/ 2 \notin Listing(Cand.path)

Base  == Sorted(out) /\ BeyondOut /\ AllSettled /\ WinnerLeft
Round == Base /\ Together /\ (HasCand => CandLow /\ Stage /\ Matches /\ Located)

(* Lines that are out of order                                              *)
Upset(r, k) == tran[r][k].path <= tran[r][k - 1].path
Covered(r, k) == \E q \in 1..(r - 1) : \E m \in DOMAIN tran[q] : tran[q][m].path = tran[r][k - 1].path

SeenSoFar ==
  \A r \in Reader :
    /\ ~Eof(r) => Cur(r).path <= rd[r].pre
    /\ \A k \in 2..Len(tran[r]) : k <= rd[r].at /\ Upset(r, k) => Covered(r, k)

Ended == lm.pc \in {"dirs", "files", "trans", "flush"} \/ exit = "0"
Whole == (InOrder => Sorted(out) /\ \A p \in Path : Settled(p))
OrderWhole ==
  \A r \in Reader : \A k \in 2..Len(was.tran[r]) :
    was.tran[r][k].path <= was.tran[r][k - 1].path =>
      \E q \in 1..(r - 1) : \E m \in DOMAIN was.tran[q] :
        was.tran[q][m].path = was.tran[r][k - 1].path

LoopInv == lm.pc \in Loop => EarlierDone /\ SeenSoFar /\ (InOrder => Round)
EndInv  == Ended => Whole /\ OrderWhole
RInv == LoopInv /\ EndInv

-----------------------------------------------------------------------------
(* Lines and readers of sorted transcripts                                  *)
LEMMA LineOfIs ==
  ASSUME Types, InOrder, NEW r \in Reader, NEW k \in DOMAIN was.tran[r]
  PROVE  LineOf(r, was.tran[r][k].path) = was.tran[r][k]
<1> DEFINE p == was.tran[r][k].path
           c == CHOOSE m \in DOMAIN was.tran[r] : was.tran[r][m].path = p
<1>1. r \in Tran
  BY Numbers
<1>2. was.tran[r] \in Seq(Line)
  BY <1>1, WasTyped
<1>3. c \in DOMAIN was.tran[r] /\ was.tran[r][c].path = p
  OBVIOUS
<1>4. \A a, b \in DOMAIN was.tran[r] : a < b => was.tran[r][a].path < was.tran[r][b].path
  BY DEF InOrder, Sorted
<1>5. p \in Nat /\ c \in Nat /\ k \in Nat
  BY <1>2, <1>3, LineTyped
<1>6. LineOf(r, p) = was.tran[r][c]
  BY DEF LineOf
<1> HIDE DEF c
<1>7. c = k
  BY <1>3, <1>4, <1>5
<1> QED
  BY <1>6, <1>7

LEMMA LineOfTyped ==
  ASSUME Types, InOrder, NEW p \in Path, NEW r \in Listing(p)
  PROVE  r \in Reader /\ LineOf(r, p) \in Line /\ LineOf(r, p).path = p
<1>1. PICK k \in DOMAIN was.tran[r] : was.tran[r][k].path = p
  BY DEF Listing
<1>2. r \in Reader /\ r \in Tran
  BY Numbers DEF Listing
<1>3. LineOf(r, p) = was.tran[r][k]
  BY <1>1, <1>2, LineOfIs
<1> QED
  BY <1>1, <1>2, <1>3, WasTyped

(* The reader of the highest precedence                                     *)
LEMMA WinnerIs ==
  ASSUME Types, NEW p \in Path, NEW w \in Listing(p), \A r \in Listing(p) : w <= r
  PROVE  Winner(p) = w
<1>1. Listing(p) \subseteq Nat
  BY Numbers DEF Listing, Reader
<1>2. Winner(p) \in Listing(p) /\ \A q \in Listing(p) : Winner(p) <= q
  BY DEF Winner
<1> QED
  BY <1>1, <1>2

LEMMA StillListed ==
  ASSUME Types, tran = was.tran, NEW p \in Path
  PROVE  Still(p) \subseteq Listing(p) /\ Listing(p) \subseteq Reader /\ Listing(p) \subseteq Nat
<1>1. Listing(p) \subseteq Reader /\ Listing(p) \subseteq Nat
  BY Numbers DEF Listing, Reader
<1>2. ASSUME NEW r \in Still(p)
      PROVE  r \in Listing(p)
  <2>1. r \in Reader /\ r \in 1..NTran
    BY Numbers DEF Still
  <2>2. PICK m \in Rest(r) : tran[r][m].path = p
    BY DEF Still
  <2>3. m \in DOMAIN tran[r]
    BY <2>1, <2>2, ReaderTyped DEF Rest
  <2> QED
    BY <2>1, <2>2, <2>3 DEF Listing
<1> QED
  BY <1>1, <1>2

(* The line that a reader is at, and those it has still to come to          *)
LEMMA Heads ==
  ASSUME Types, tran = was.tran, InOrder, NEW r \in Reader
  PROVE  /\ Eof(r) => \A p \in Path : r \notin Still(p)
         /\ ~Eof(r) =>
              /\ Cur(r) \in Line /\ Cur(r).path \in Path /\ r \in Still(Cur(r).path)
              /\ Cur(r) = LineOf(r, Cur(r).path) /\ r \in Listing(Cur(r).path)
              /\ \A p \in Path : r \in Still(p) => Cur(r).path <= p
<1>1. /\ r \in 1..NTran /\ r \in Tran /\ tran[r] \in Seq(Line) /\ Len(tran[r]) \in Nat
      /\ rd[r].at \in Nat \ {0}
  BY Numbers, ReaderTyped
<1>2. CASE Eof(r)
  <2>1. Rest(r) = {}
    BY <1>1, <1>2 DEF Rest, Eof
  <2> QED
    BY <1>2, <2>1 DEF Still
<1>3. CASE ~Eof(r)
  <2>1. rd[r].at \in DOMAIN tran[r] /\ Cur(r) \in Line /\ rd[r].at \in Rest(r)
    BY <1>1, <1>3, ReaderTyped DEF Rest, Eof
  <2>2. Cur(r).path \in Path
    BY <2>1, LineTyped
  <2>3. r \in Still(Cur(r).path) /\ r \in Listing(Cur(r).path)
    BY <2>1 DEF Still, Cur, Listing
  <2>4. Cur(r) = LineOf(r, Cur(r).path)
    BY <2>1, LineOfIs DEF Cur
  <2>5. ASSUME NEW m \in Rest(r)
        PROVE  Cur(r).path <= tran[r][m].path
    <3>1. m \in DOMAIN tran[r] /\ m \in Nat /\ (m = rd[r].at \/ rd[r].at < m) /\ tran[r][m] \in Line
      BY <1>1 DEF Rest
    <3>2. rd[r].at < m => Cur(r).path < tran[r][m].path
      BY <2>1, <3>1 DEF InOrder, Sorted, Cur
    <3>3. m = rd[r].at => Cur(r) = tran[r][m]
      BY DEF Cur
    <3>4. Cur(r).path \in Nat /\ tran[r][m].path \in Nat
      BY <2>1, <3>1, LineTyped
    <3> QED
      BY <3>1, <3>2, <3>3, <3>4
  <2>6. \A p \in Path : r \in Still(p) => Cur(r).path <= p
    BY <2>5 DEF Still
  <2> QED
    BY <1>3, <2>1, <2>2, <2>3, <2>4, <2>6
<1> QED
  BY <1>2, <1>3

(* A reader goes on by a line                                               *)
LEMMA StillAdvanced ==
  ASSUME Types, tran = was.tran, InOrder, NEW r \in Reader, ~Eof(r), rd' = Advanced(r), UNCHANGED <<tran, opt>>
  PROVE  \A p \in Path : Still(p)' = IF p = Cur(r).path THEN Still(p) \ {r} ELSE Still(p)
<1>1. r \in 1..NTran /\ tran[r] \in Seq(Line) /\ rd[r].at \in Nat /\ Reader' = Reader /\ Len(tran[r]) \in Nat
  BY Numbers, ReaderTyped DEF Reader
<1>2. \A q \in Reader : q # r => Rest(q)' = Rest(q)
  BY <1>1, Numbers, RestAdvanced
<1>3. Rest(r)' = (rd[r].at + 1)..Len(tran[r]) /\ rd[r].at \in DOMAIN tran[r]
  BY <1>1, RestAdvanced, ReaderTyped
<1>4. \A m \in Rest(r) : m = rd[r].at \/ m \in Rest(r)'
  <2>1. \A m \in rd[r].at..Len(tran[r]) : m = rd[r].at \/ m \in (rd[r].at + 1)..Len(tran[r])
    BY <1>1
  <2> QED
    BY <1>3, <2>1 DEF Rest
<1>5. \A m \in Rest(r)' : m \in Rest(r) /\ tran[r][m].path # Cur(r).path
  <2>1. ASSUME NEW m \in (rd[r].at + 1)..Len(tran[r])
        PROVE  m \in Rest(r) /\ tran[r][m].path # Cur(r).path
    <3>1. m \in Rest(r) /\ m \in DOMAIN tran[r] /\ rd[r].at < m /\ tran[r][m] \in Line /\ tran[r][rd[r].at] \in Line
      BY <1>1, <1>3 DEF Rest
    <3>2. Cur(r).path < tran[r][m].path
      BY <1>3, <3>1 DEF InOrder, Sorted, Cur
    <3>3. Cur(r).path \in Nat /\ tran[r][m].path \in Nat
      BY <3>1, LineTyped DEF Cur
    <3> QED
      BY <3>1, <3>2, <3>3
  <2> QED
    BY <1>3, <2>1
<1>6. ASSUME NEW p \in Path, NEW q \in Reader
      PROVE  (\E m \in Rest(q)' : tran[q][m].path = p) <=>
               (\E m \in Rest(q) : tran[q][m].path = p) /\ ~(q = r /\ p = Cur(r).path)
  <2>1. CASE q = r
    BY <1>4, <1>5, <2>1 DEF Cur
  <2>2. CASE q # r
    BY <1>2, <2>2
  <2> QED
    BY <2>1, <2>2
<1>7. ASSUME NEW p \in Path
      PROVE  Still(p)' = IF p = Cur(r).path THEN Still(p) \ {r} ELSE Still(p)
  <2>1. Still(p)' = { q \in Reader : \E m \in Rest(q)' : tran[q][m].path = p }
    BY <1>1 DEF Still
  <2>2. Still(p) = { q \in Reader : \E m \in Rest(q) : tran[q][m].path = p }
    BY DEF Still
  <2> QED
    BY <1>6, <2>1, <2>2
<1> QED
  BY <1>7

(* What was found does not change                                           *)
LEMMA WasKept ==
  ASSUME UNCHANGED <<opt, was>>
  PROVE  /\ Reader' = Reader /\ (InOrder <=> InOrder')
         /\ \A p \in Path : /\ Listing(p)' = Listing(p) /\ Winner(p)' = Winner(p)
                            /\ Deciding(p)' = Deciding(p)
                            /\ (Mismatched(p) <=> Mismatched(p)') /\ (Passed1(p) <=> Passed1(p)')
                            /\ \A r \in Reader : LineOf(r, p)' = LineOf(r, p)
<1>1. Reader' = Reader /\ (InOrder <=> InOrder')
  BY DEF Reader, InOrder
<1>2. \A p \in Path : Listing(p)' = Listing(p) /\ \A r : LineOf(r, p)' = LineOf(r, p)
  BY <1>1 DEF Listing, LineOf
<1>3. \A p \in Path : Winner(p)' = Winner(p)
  BY <1>2 DEF Winner
<1>4. \A p \in Path : /\ (Mismatched(p) <=> Mismatched(p)') /\ (Passed1(p) <=> Passed1(p)')
                      /\ Uploaded(p)' = Uploaded(p)
  BY <1>2 DEF Mismatched, Passed1, Uploaded
<1>5. \A p \in Path : LineOf(Winner(p), p)' = LineOf(Winner(p), p)
  BY <1>3 DEF LineOf
<1>6. \A p \in Path : Deciding(p)' = Deciding(p)
  BY <1>2, <1>4, <1>5 DEF Deciding
<1> QED
  BY <1>1, <1>2, <1>3, <1>4, <1>6

LEMMA WinningLine ==
  ASSUME UNCHANGED <<opt, was>>, NEW p \in Path
  PROVE  LineOf(Winner(p), p)' = LineOf(Winner(p), p)
BY WasKept DEF LineOf

(* What is settled stays so, unless another line is written for the path    *)
LEMMA SettledKept ==
  ASSUME UNCHANGED <<opt, was>>, NEW p \in Path, Settled(p), out' = out
  PROVE  Settled(p)'
<1>1. PositiveOf(p)'
  BY WasKept DEF Settled, PositiveOf
<1>2. WrittenMinus(p)'
  BY WasKept, WinningLine DEF Settled, WrittenMinus
<1>3. AloneMinus(p)'
  BY WasKept DEF Settled, AloneMinus
<1>4. Taken(p)'
  BY WasKept DEF Settled, Taken, Listing
<1> QED
  BY <1>1, <1>2, <1>3, <1>4 DEF Settled

LEMMA SettledMore ==
  ASSUME UNCHANGED <<opt, was>>, out \in Seq(Line), NEW p \in Path, Settled(p),
         NEW l \in Line, l.path # p, out' = Append(out, l)
  PROVE  Settled(p)'
<1>1. /\ DOMAIN out = 1..Len(out) /\ DOMAIN out' = 1..(Len(out) + 1) /\ Len(out) \in Nat
      /\ \A k \in DOMAIN out : out'[k] = out[k]
      /\ out'[Len(out) + 1] = l
  OBVIOUS
<1>2. \A k \in DOMAIN out' : k \in DOMAIN out \/ out'[k] = l
  BY <1>1
<1>3. \A k \in DOMAIN out : k \in DOMAIN out'
  BY <1>1
<1>4. \A k \in DOMAIN out' : out'[k].path = p => k \in DOMAIN out /\ out'[k] = out[k]
  BY <1>1, <1>2
<1>5. { out'[k] : k \in { m \in DOMAIN out' : out'[m].path = p /\ ~out'[m].minus } }
        = { out[k] : k \in { m \in DOMAIN out : out[m].path = p /\ ~out[m].minus } }
  BY <1>1, <1>3, <1>4
<1>6. PositiveOf(p)'
  BY <1>5, WasKept DEF Settled, PositiveOf
<1>7. WrittenMinus(p)'
  BY <1>4, WasKept, WinningLine DEF Settled, WrittenMinus
<1>8. AloneMinus(p)'
  BY <1>1, <1>3, WasKept DEF Settled, AloneMinus
<1>9. Taken(p)'
  BY <1>4, WasKept DEF Settled, Taken, Listing
<1> QED
  BY <1>6, <1>7, <1>8, <1>9 DEF Settled

(* A step that neither reads nor writes a line                              *)
LEMMA NothingRead ==
  ASSUME UNCHANGED <<opt, was, tran, rd, out>>
  PROVE  /\ \A p \in Path : Still(p)' = Still(p)
         /\ Base => Base'
         /\ SeenSoFar => SeenSoFar'
         /\ \A r \in Reader : (Eof(r) <=> Eof(r)') /\ Cur(r)' = Cur(r)
<1>1. \A p \in Path : Still(p)' = Still(p)
  BY WasKept DEF Still, Rest
<1>2. Base => Base'
  <2>1. BeyondOut => BeyondOut'
    BY <1>1 DEF BeyondOut
  <2>2. AllSettled => AllSettled'
    BY <1>1, SettledKept DEF AllSettled
  <2>3. WinnerLeft => WinnerLeft'
    BY <1>1, WasKept DEF WinnerLeft
  <2>4. Sorted(out)' <=> Sorted(out)
    BY DEF Sorted
  <2> QED
    BY <2>1, <2>2, <2>3, <2>4 DEF Base
<1>3. SeenSoFar => SeenSoFar'
  BY WasKept DEF SeenSoFar, Eof, Cur, Upset, Covered
<1>4. \A r \in Reader : (Eof(r) <=> Eof(r)') /\ Cur(r)' = Cur(r)
  BY DEF Eof, Cur
<1> QED
  BY <1>1, <1>2, <1>3, <1>4

(* A reader that goes on notices a line that is out of order                *)
LEMMA SeenAdvanced ==
  ASSUME Types, SeenSoFar, NEW r \in Reader, ~Eof(r), rd' = Advanced(r), UNCHANGED <<tran, opt>>,
         NextBad(r) => Covered(r, rd[r].at + 1)
  PROVE  SeenSoFar'
<1> DEFINE at == rd[r].at
<1>1. /\ r \in 1..NTran /\ tran[r] \in Seq(Line) /\ at \in Nat \ {0} /\ Reader' = Reader /\ Len(tran[r]) \in Nat
      /\ at \in DOMAIN tran[r] /\ rd[r].pre \in Nat /\ Cur(r) \in Line
  BY Numbers, ReaderTyped, LoadSetsAssumption DEF Reader, Path
<1>2. rd \in [1..NTran -> [at : Nat \ {0}, pre : Path \cup {0}]]
  BY MergeParts
<1>3. /\ rd'[r].at = at + 1
      /\ rd'[r].pre = IF NextBad(r) \/ at >= Len(tran[r]) THEN rd[r].pre ELSE tran[r][at + 1].path
      /\ \A q \in 1..NTran : q # r => rd'[q] = rd[q]
  BY <1>1, <1>2 DEF Advanced
<1>4. ASSUME NEW q \in Reader, q # r
      PROVE  /\ ~Eof(q)' => Cur(q)'.path <= rd'[q].pre
             /\ \A k \in 2..Len(tran[q]) : k <= rd'[q].at /\ Upset(q, k) => Covered(q, k)
  <2>1. rd'[q] = rd[q]
    BY <1>3, <1>4, Numbers
  <2>2. (Eof(q)' <=> Eof(q)) /\ Cur(q)' = Cur(q)
    BY <2>1 DEF Eof, Cur
  <2> QED
    BY <2>1, <2>2 DEF SeenSoFar
<1>5. ~Eof(r)' => Cur(r)'.path <= rd'[r].pre
  <2> SUFFICES ASSUME ~Eof(r)' PROVE Cur(r)'.path <= rd'[r].pre
    OBVIOUS
  <2>1. at + 1 <= Len(tran[r]) /\ Cur(r)' = tran[r][at + 1]
    BY <1>1, <1>3 DEF Eof, Cur
  <2>2. tran[r][at + 1] \in Line
    BY <1>1, <2>1
  <2>3. tran[r][at + 1].path \in Nat
    BY <2>2, LineTyped
  <2> QED
    BY <1>1, <1>3, <2>1, <2>3 DEF NextBad
<1>6. ASSUME NEW k \in 2..Len(tran[r]), k <= rd'[r].at, Upset(r, k)
      PROVE  Covered(r, k)
  <2>0. \A m \in 2..Len(tran[r]) : m <= rd[r].at /\ Upset(r, m) => Covered(r, m)
    BY DEF SeenSoFar
  <2>1. CASE k <= at
    BY <1>6, <2>0, <2>1
  <2>2. CASE k = at + 1
    <3>1. tran[r][at + 1] \in Line /\ tran[r][at] = Cur(r) /\ at < Len(tran[r]) /\ k - 1 = at
      BY <1>1, <2>2 DEF Cur
    <3>2. tran[r][at + 1].path \in Nat /\ Cur(r).path \in Nat
      BY <1>1, <3>1, LineTyped
    <3>3. Cur(r).path <= rd[r].pre
      BY DEF SeenSoFar
    <3>4. tran[r][at + 1].path <= Cur(r).path
      BY <1>6, <2>2, <3>1 DEF Upset
    <3>5. NextBad(r)
      BY <1>1, <3>1, <3>2, <3>3, <3>4 DEF NextBad
    <3> QED
      BY <2>2, <3>5
  <2>3. k <= at \/ k = at + 1
    <3>1. k \in Nat /\ k <= at + 1 /\ at \in Nat
      BY <1>1, <1>3, <1>6
    <3> HIDE DEF at
    <3> QED
      BY <3>1
  <2> QED
    BY <2>1, <2>2, <2>3
<1>7. \A q \in Reader : \A k \in 2..Len(tran[q]) : (Upset(q, k)' <=> Upset(q, k)) /\ (Covered(q, k)' <=> Covered(q, k))
  BY DEF Upset, Covered
<1>8. SeenSoFar' = \A q \in Reader :
        /\ ~Eof(q)' => Cur(q)'.path <= rd'[q].pre
        /\ \A k \in 2..Len(tran[q]) : k <= rd'[q].at /\ Upset(q, k)' => Covered(q, k)'
  BY <1>1 DEF SeenSoFar
<1> QED
  BY <1>4, <1>5, <1>6, <1>7, <1>8

(* The readers that were done are done                                      *)
LEMMA DoneAdvanced ==
  ASSUME Types, EarlierDone, NEW r \in Reader, ~Eof(r), rd' = Advanced(r), UNCHANGED <<tran, opt>>, lm'.i = lm.i
  PROVE  EarlierDone'
<1>1. r \in 1..NTran /\ Reader' = Reader /\ Reader \subseteq 1..NTran
  BY Numbers DEF Reader
<1>2. \A q \in Reader : q # r => (Eof(q)' <=> Eof(q))
  BY <1>1, RestAdvanced
<1> QED
  BY <1>1, <1>2 DEF EarlierDone

LEMMA CandFacts ==
  ASSUME Types, tran = was.tran, InOrder, HasCand
  PROVE  /\ Cand \in Line /\ Cand.path \in Path /\ Cand.path \in Nat /\ Path \subseteq Nat
         /\ lm.candidate \in Reader /\ lm.candidate \in Still(Cand.path) /\ lm.candidate \in Listing(Cand.path)
         /\ Cand = LineOf(lm.candidate, Cand.path)
         /\ \A p \in Path : lm.candidate \in Still(p) => Cand.path <= p
<1>1. lm.candidate \in Reader /\ ~Eof(lm.candidate) /\ Cand = Cur(lm.candidate)
  BY CandTyped DEF Cand
<1>2. Cand \in Line
  BY CandTyped
<1>3. Path \subseteq Nat
  BY LoadSetsAssumption DEF Path
<1> QED
  BY <1>1, <1>2, <1>3, Heads, LineTyped

(* The loop, from one transcript to the next                                *)
LEMMA BeginRound ==
  ASSUME Types, LoopInv, Begin
  PROVE  LoopInv' /\ ~Ended'
<1>1. lm.pc = "begin" /\ exit = "none" /\ lm' = [lm EXCEPT !.pc = "select"]
  BY MergeParts DEF Begin, Goto, At, Exits
<1>2. lm'.pc = "select" /\ lm'.i = lm.i
  BY <1>1, GotoTyped
<1>3. UNCHANGED <<opt, was, tran, rd, out, exit>>
  BY DEF Begin, repository
<1>4. EarlierDone /\ SeenSoFar /\ (InOrder => Round)
  BY <1>1 DEF LoopInv, Loop
<1>5. EarlierDone' /\ SeenSoFar'
  BY <1>2, <1>3, <1>4, NothingRead, WasKept DEF EarlierDone
<1>6. InOrder => Round'
  <2>1. InOrder => Base' /\ Together
    BY <1>3, <1>4, NothingRead DEF Round
  <2>2. InOrder => Together'
    BY <1>1, <1>2, <1>3, <2>1, NothingRead, WasKept DEF Together, HasCand
  <2> QED
    BY <1>2, <2>1, <2>2 DEF Round, HasCand
<1> QED
  BY <1>1, <1>2, <1>3, <1>5, <1>6, WasKept DEF LoopInv, Ended

LEMMA SelectRound ==
  ASSUME Types, tran = was.tran, LoopInv, Select
  PROVE  LoopInv' /\ EndInv'
<1>0. /\ lm \in MergeState /\ lm.i \in 1..(NTran + 1) /\ lm.pc = "select" /\ NTran \in Nat /\ exit = "none"
      /\ opt.n \in 2..NTran /\ UNCHANGED <<opt, was, tran, rd, out, exit>>
  BY PcTyped, MergeParts, Numbers DEF Select, At, Exits, repository
<1>1. EarlierDone /\ SeenSoFar /\ (InOrder => Round)
  BY <1>0 DEF LoopInv, Loop
<1>2. SeenSoFar' /\ (InOrder => Base' /\ Together) /\ (InOrder <=> InOrder') /\ Reader' = Reader
  BY <1>0, <1>1, NothingRead, WasKept DEF Round
<1>3. CASE lm.i > opt.n
  <2>1. \A r \in Reader : Eof(r)
    BY <1>0, <1>1, <1>3 DEF EarlierDone, Reader
  <2>2. InOrder => Sorted(out) /\ \A p \in Path : Settled(p)
    <3>1. InOrder => \A p \in Path : Still(p) = {}
      BY <2>1, Heads DEF Still
    <3> QED
      BY <1>1, <3>1 DEF Round, Base, AllSettled
  <2>3. Whole'
    BY <1>0, <2>2, SettledKept, WasKept DEF Whole, Sorted
  <2>4. OrderWhole
    <3>1. ASSUME NEW r \in Reader, NEW k \in 2..Len(tran[r]), Upset(r, k)
          PROVE  Covered(r, k)
      <4>1. k <= rd[r].at
        BY <2>1, ReaderTyped, Numbers DEF Eof
      <4> QED
        BY <1>1, <3>1, <4>1 DEF SeenSoFar
    <3> QED
      BY <3>1 DEF OrderWhole, Upset, Covered
  <2>5. OrderWhole'
    <3>1. Reader' = Reader /\ was' = was
      BY <1>0, WasKept
    <3> DEFINE Ordered(R, w) == \A r \in R : \A k \in 2..Len(w.tran[r]) :
                                 w.tran[r][k].path <= w.tran[r][k - 1].path =>
                                   \E q \in 1..(r - 1) : \E m \in DOMAIN w.tran[q] :
                                     w.tran[q][m].path = w.tran[r][k - 1].path
    <3>2. (OrderWhole <=> Ordered(Reader, was)) /\ (OrderWhole' <=> Ordered(Reader', was'))
      BY DEF OrderWhole
    <3> HIDE DEF Ordered
    <3> QED
      BY <2>4, <3>1, <3>2
  <2>6. lm'.pc \in {"dirs", "files"}
    BY <1>0, <1>3 DEF Select, MergeState
  <2> QED
    BY <2>3, <2>5, <2>6 DEF LoopInv, EndInv, Loop
<1>4. CASE lm.i <= opt.n /\ Eof(lm.i)
  <2>1. lm' = [lm EXCEPT !.i = @ + 1]
    BY <1>0, <1>4, Numbers DEF Select
  <2>2. lm'.pc = "select" /\ lm'.i = lm.i + 1
    BY <1>0, <2>1 DEF MergeState
  <2>3. EarlierDone'
    <3>1. \A r \in Reader : r < lm.i + 1 => r < lm.i \/ r = lm.i
      BY <1>0 DEF Reader
    <3> QED
      BY <1>0, <1>1, <1>2, <1>4, <2>2, <3>1 DEF EarlierDone, Eof
  <2>4. InOrder => Together'
    BY <1>0, <1>2, <2>2, NothingRead, WasKept DEF Together, HasCand
  <2> QED
    BY <1>0, <1>2, <2>2, <2>3, <2>4 DEF LoopInv, Round, HasCand, EndInv, Ended
<1>5. CASE lm.i <= opt.n /\ ~Eof(lm.i)
  <2> DEFINE last == opt.force /\ lm.i = opt.n
  <2>1. lm' = [lm EXCEPT !.candidate = lm.i, !.fileloc = lm.i, !.match = last,
                         !.pc = IF last THEN "output" ELSE "compare", !.j = lm.i + 1]
    BY <1>0, <1>5 DEF Select
  <2>2. lm.i \in 1..NTran /\ lm.i \in Reader /\ (opt.noupload \/ opt.force => opt.n = 2) /\ lm.i \in Nat
    BY <1>0, <1>5, Numbers DEF Reader
  <2>3. /\ lm'.pc = IF last THEN "output" ELSE "compare"
        /\ lm'.candidate = lm.i /\ lm'.fileloc = lm.i /\ lm'.j = lm.i + 1 /\ lm'.i = lm.i
        /\ lm'.match = last
    BY <1>0, <2>1 DEF MergeState
  <2>4. EarlierDone'
    BY <1>0, <1>1, <1>2, <2>3 DEF EarlierDone, Eof
  <2>5. InOrder => Together'
    BY <1>0, <1>2, <2>3, NothingRead, WasKept DEF Together, HasCand
  <2>6. InOrder => CandLow'
    <3>1. \A p \in Path : \A r \in Still(p) : r \in Reader /\ r \in Nat
      BY Numbers DEF Still, Reader
    <3>2. InOrder => \A p \in Path : \A r \in Still(p) : ~(r < lm.i)
      BY <1>1, <3>1, Heads DEF EarlierDone
    <3>3. InOrder => \A p \in Path : \A r \in Still(p)' : ~(r # lm.i /\ r < lm.i + 1)
      BY <1>0, <2>2, <3>1, <3>2, NothingRead
    <3> QED
      BY <2>3, <3>3 DEF CandLow
  <2>7. last => lm'.candidate = 2 /\ lm'.j > opt.n
    BY <1>0, <2>2, <2>3
  <2>8. Stage'
    BY <1>0, <2>3, <2>7 DEF Stage
  <2>9. Matches' /\ Located'
    <3>1. lm'.match => lm'.candidate = 2 /\ opt.force /\ lm'.pc = "output"
      BY <2>3, <2>7
    <3>2. lm'.candidate = 1 => lm'.fileloc = 1 /\ ~(lm'.j > 2)
      BY <2>2, <2>3
    <3>3. Matches'
      BY <1>0, <3>1 DEF Matches
    <3>4. Located'
      BY <3>2 DEF Located
    <3> QED
      BY <3>3, <3>4
  <2>10. lm'.pc \in {"output", "compare"} /\ ~Ended'
    BY <1>0, <2>3 DEF Ended
  <2> QED
    BY <1>0, <1>2, <2>4, <2>5, <2>6, <2>8, <2>9, <2>10 DEF LoopInv, Round, EndInv
<1> QED
  BY <1>0, <1>3, <1>4, <1>5

(* With -n or -f, or of two transcripts, the first is compared with the     *)
(* second                                                                   *)
LEMMA Comparing ==
  ASSUME Types, Compare
  PROVE  /\ lm.pc = "compare" /\ HasCand /\ exit = "none" /\ lm \in MergeState
         /\ lm.j \in Nat /\ lm.j \in Reader /\ lm.j <= opt.n /\ lm.j >= 2 /\ opt.n \in Nat
         /\ lm.candidate \in Nat /\ lm.candidate < lm.j
         /\ opt.noupload \/ opt.force => opt.n = 2
         /\ opt.n = 2 => lm.j = 2 /\ lm.candidate = 1 /\ Reader = {1, 2}
         /\ UNCHANGED <<tran, opt, was, out>>
<1>1. /\ lm.pc = "compare" /\ HasCand /\ exit = "none" /\ lm \in MergeState
      /\ UNCHANGED <<tran, opt, was, out>> /\ lm.j <= opt.n
  BY MergeParts DEF Compare, At, Exits, HasCand
<1>2. /\ lm.j \in 2..(NTran + 1) /\ NTran \in Nat /\ lm.candidate \in 1..NTran /\ lm.candidate < lm.j
      /\ opt.n \in 2..NTran /\ (opt.noupload \/ opt.force => opt.n = 2)
  BY <1>1, PcTyped, Numbers, CandTyped
<1> QED
  BY <1>1, <1>2 DEF Reader

LEMMA RoundParts ==
  ASSUME LoopInv, lm.pc \in Loop
  PROVE  EarlierDone /\ SeenSoFar /\ (InOrder => Base /\ Together)
         /\ (InOrder /\ HasCand => CandLow /\ Stage /\ Matches /\ Located)
BY DEF LoopInv, Round

LEMMA OnRound ==
  ASSUME Types, tran = was.tran, LoopInv, Compare, Eof(lm.j) \/ Cand.path < Cur(lm.j).path,
         lm' = [lm EXCEPT !.j = lm.j + 1], UNCHANGED <<rd, exit>>
  PROVE  LoopInv' /\ ~Ended'
<1>0. /\ lm.pc = "compare" /\ HasCand /\ exit = "none" /\ lm.j \in Nat /\ lm.j \in Reader /\ lm.j >= 2
      /\ opt.noupload \/ opt.force => opt.n = 2
      /\ opt.n = 2 => lm.j = 2 /\ lm.candidate = 1 /\ Reader = {1, 2}
      /\ UNCHANGED <<tran, opt, was, out, rd, exit>>
  BY Comparing
<1>1. /\ lm'.pc = "compare" /\ lm'.candidate = lm.candidate /\ lm'.fileloc = lm.fileloc
      /\ lm'.i = lm.i /\ lm'.j = lm.j + 1 /\ lm'.match = lm.match
  BY Comparing DEF MergeState
<1>2. EarlierDone /\ SeenSoFar /\ (InOrder => Base /\ Together /\ CandLow /\ Matches /\ Located)
  BY <1>0, RoundParts DEF Loop
<1>3. Cand' = Cand /\ HasCand'
  BY <1>0, <1>1 DEF Cand, Cur, HasCand
<1>4. EarlierDone' /\ SeenSoFar' /\ (InOrder => Base') /\ (InOrder <=> InOrder')
  BY <1>0, <1>1, <1>2, NothingRead, WasKept DEF EarlierDone
<1>5. ASSUME InOrder PROVE Round'
  <2>1. /\ Cand.path \in Nat /\ Cand.path \in Path /\ Path \subseteq Nat
        /\ lm.candidate \in Still(Cand.path) /\ Cand = LineOf(lm.candidate, Cand.path)
    BY <1>0, <1>5, CandFacts
  <2>2. \A p \in Path : lm.j \in Still(p) => Cand.path < p
    <3>1. ~Eof(lm.j) => Cur(lm.j).path \in Nat /\ \A p \in Path : lm.j \in Still(p) => Cur(lm.j).path <= p
      BY <1>0, <1>5, <2>1, Heads
    <3>2. Eof(lm.j) => \A p \in Path : lm.j \notin Still(p)
      BY <1>0, <1>5, Heads
    <3> QED
      BY <2>1, <3>1, <3>2
  <2>3. CandLow'
    <3>1. \A p \in Path : \A r \in Still(p) : r \in Nat
      BY Numbers DEF Still, Reader
    <3>2. \A p \in Path : \A r \in Still(p) : r # lm.candidate /\ r < lm.j + 1 => Cand.path < p
      BY <1>0, <1>2, <1>5, <2>2, <3>1 DEF CandLow
    <3> QED
      BY <1>0, <1>1, <1>3, <3>2, NothingRead DEF CandLow
  <2>4. Stage'
    BY <1>1 DEF Stage
  <2>5. Matches'
    <3>1. lm'.j # 2
      BY <1>0, <1>1
    <3> QED
      BY <1>0, <1>1, <1>2, <1>3, <1>5, <2>1, <3>1, WasKept DEF Matches
  <2>6. Together'
    BY <1>0, <1>1, <1>2, <1>3, <1>5, NothingRead, WasKept DEF Together
  <2>7. opt.noupload => Cand.type # "f" \/ 2 \notin Listing(Cand.path)
    <3> SUFFICES ASSUME opt.noupload PROVE 2 \notin Listing(Cand.path)
      OBVIOUS
    <3>1. lm.j = 2 /\ lm.candidate = 1 /\ opt.n = 2 /\ ~lm.match
      BY <1>0, <1>2, <1>5 DEF Matches
    <3>2. 1 \in Still(Cand.path) /\ 2 \notin Still(Cand.path)
      BY <2>1, <2>2, <3>1
    <3> QED
      BY <1>2, <1>5, <2>1, <3>1, <3>2 DEF Together
  <2>8. Located'
    BY <1>0, <1>1, <1>2, <1>3, <1>5, <2>1, <2>7, WasKept DEF Located
  <2> QED
    BY <1>4, <1>5, <2>3, <2>4, <2>5, <2>6, <2>8 DEF Round
<1> QED
  BY <1>0, <1>1, <1>4, <1>5 DEF LoopInv, Ended

LEMMA ChangeRound ==
  ASSUME Types, tran = was.tran, LoopInv, Compare, ~Eof(lm.j), Cand.path > Cur(lm.j).path,
         Change(lm.j), UNCHANGED <<rd, exit>>
  PROVE  LoopInv' /\ ~Ended'
<1>0. /\ lm.pc = "compare" /\ HasCand /\ exit = "none" /\ lm.j \in Nat /\ lm.j \in Reader /\ lm.j >= 2
      /\ opt.noupload \/ opt.force => opt.n = 2
      /\ opt.n = 2 => lm.j = 2 /\ lm.candidate = 1 /\ Reader = {1, 2}
      /\ UNCHANGED <<tran, opt, was, out, rd, exit>>
  BY Comparing
<1>1. /\ lm'.pc = "compare" /\ lm'.candidate = lm.j /\ lm'.fileloc = lm.j
      /\ lm'.i = lm.i /\ lm'.j = lm.j + 1 /\ lm'.match = lm.match
  BY Comparing DEF MergeState, Change
<1>2. EarlierDone /\ SeenSoFar /\ (InOrder => Base /\ Together /\ CandLow /\ Matches /\ Located)
  BY <1>0, RoundParts DEF Loop
<1>3. Cand' = Cur(lm.j) /\ HasCand'
  BY <1>0, <1>1 DEF Cand, Cur, HasCand
<1>4. EarlierDone' /\ SeenSoFar' /\ (InOrder => Base') /\ (InOrder <=> InOrder')
  BY <1>0, <1>1, <1>2, NothingRead, WasKept DEF EarlierDone
<1>5. ASSUME InOrder PROVE Round'
  <2>1. /\ Cand.path \in Nat /\ Path \subseteq Nat /\ Cur(lm.j).path \in Nat
        /\ \A p \in Path : lm.candidate \in Still(p) => Cand.path <= p
    BY <1>0, <1>5, CandFacts, Heads
  <2>2. lm'.candidate # 1 /\ lm'.j # 2
    BY <1>0, <1>1
  <2>3. CandLow'
    <3>1. \A p \in Path : \A r \in Still(p) : r \in Nat
      BY Numbers DEF Still, Reader
    <3>2. \A p \in Path : \A r \in Still(p) : r # lm.j /\ r < lm.j + 1 => Cand.path <= p
      BY <1>0, <1>2, <1>5, <2>1, <3>1 DEF CandLow
    <3>3. \A p \in Path : \A r \in Still(p) : r # lm.j /\ r < lm.j + 1 => Cur(lm.j).path < p
      BY <2>1, <3>2
    <3> QED
      BY <1>0, <1>1, <1>3, <3>3, NothingRead DEF CandLow
  <2>4. Stage' /\ Located'
    BY <1>1, <2>2 DEF Stage, Located
  <2>5. Matches'
    <3>1. opt.n = 2 => ~lm.match
      BY <1>0, <1>2, <1>5 DEF Matches
    <3> QED
      BY <1>0, <1>1, <2>2, <3>1 DEF Matches
  <2>6. Together'
    <3>1. opt.n = 2 => ~lm.match
      BY <1>0, <1>2, <1>5 DEF Matches
    <3> QED
      BY <1>0, <1>2, <1>5, <3>1, NothingRead, WasKept DEF Together
  <2> QED
    BY <1>4, <1>5, <2>3, <2>4, <2>5, <2>6 DEF Round
<1> QED
  BY <1>0, <1>1, <1>4, <1>5 DEF LoopInv, Ended

(* -n: the two files differ                                                 *)
LEMMA ClashRound ==
  ASSUME Types, tran = was.tran, LoopInv, Compare, ~Eof(lm.j), Cand.path = Cur(lm.j).path,
         opt.noupload, Cand.type = "f", Cur(lm.j).type = "f" => Cand.data # Cur(lm.j).data,
         lm' = [lm EXCEPT !.match = TRUE, !.pc = "skip"], UNCHANGED <<rd, exit>>
  PROVE  LoopInv' /\ ~Ended'
<1>0. /\ lm.pc = "compare" /\ HasCand /\ exit = "none" /\ opt.n = 2 /\ lm.j = 2 /\ lm.candidate = 1 /\ Reader = {1, 2}
      /\ UNCHANGED <<tran, opt, was, out, rd, exit>>
  BY Comparing
<1>1. /\ lm'.pc = "skip" /\ lm'.candidate = 1 /\ lm'.fileloc = lm.fileloc
      /\ lm'.i = lm.i /\ lm'.j = 2 /\ lm'.match = TRUE
  BY <1>0, Comparing DEF MergeState
<1>2. EarlierDone /\ SeenSoFar /\ (InOrder => Base /\ Together /\ CandLow /\ Matches /\ Located)
  BY <1>0, RoundParts DEF Loop
<1>3. Cand' = Cand /\ HasCand'
  BY <1>0, <1>1 DEF Cand, Cur, HasCand
<1>4. EarlierDone' /\ SeenSoFar' /\ (InOrder => Base') /\ (InOrder <=> InOrder')
  BY <1>0, <1>1, <1>2, NothingRead, WasKept DEF EarlierDone
<1>5. ASSUME InOrder PROVE Round'
  <2>1. /\ Cand.path \in Path /\ 1 \in Still(Cand.path) /\ 1 \in Listing(Cand.path) /\ Cand = LineOf(1, Cand.path)
        /\ 2 \in Still(Cand.path) /\ 2 \in Listing(Cand.path) /\ Cur(2) = LineOf(2, Cand.path)
    BY <1>0, <1>5, CandFacts, Heads
  <2>2. Listing(Cand.path) = {1, 2}
    BY <1>0, <2>1 DEF Listing
  <2>3. Clash'
    <3>1. Passed1(Cand.path)
      BY <1>0, <2>1, <2>2 DEF Passed1
    <3>2. Passed1(Cand.path)' /\ 2 \in Still(Cand.path)'
      BY <1>0, <1>3, <2>1, <3>1, WasKept, NothingRead
    <3> QED
      BY <1>0, <1>1, <1>3, <3>2 DEF Clash
  <2>4. CandLow'
    BY <1>0, <1>1, <1>2, <1>3, <1>5, NothingRead DEF CandLow
  <2>5. Stage'
    BY <1>1, <2>3 DEF Stage
  <2>6. Matches'
    BY <1>0, <1>1, <1>3, <2>1, WasKept DEF Matches
  <2>7. Located'
    BY <1>0, <1>1, <1>2, <1>3, <1>5, <2>1, WasKept DEF Located
  <2>8. Together'
    BY <1>0, <1>1, <1>2, <1>3, <1>5, NothingRead, WasKept DEF Together
  <2> QED
    BY <1>4, <1>5, <2>4, <2>5, <2>6, <2>7, <2>8 DEF Round
<1> QED
  BY <1>0, <1>1, <1>4, <1>5 DEF LoopInv, Ended

(* The lower transcript has the path as well, and goes on                   *)
LEMMA MatchRound ==
  ASSUME Types, tran = was.tran, LoopInv, Compare, ~Eof(lm.j), Cand.path = Cur(lm.j).path,
         rd' = Advanced(lm.j), exit' = exit, NEW fl \in {lm.fileloc, lm.j},
         fl # lm.fileloc => opt.noupload /\ Cand.type = "f" /\ (Cur(lm.j).type = "f" => Cand.data = Cur(lm.j).data),
         opt.noupload /\ Cand.type = "f" => fl = lm.j,
         lm' = [lm EXCEPT !.match = TRUE, !.fileloc = fl, !.j = lm.j + 1]
  PROVE  LoopInv' /\ ~Ended'
<1>0. /\ lm.pc = "compare" /\ HasCand /\ exit = "none" /\ lm.j \in Nat /\ lm.j \in Reader /\ lm.j >= 2
      /\ opt.noupload \/ opt.force => opt.n = 2
      /\ opt.n = 2 => lm.j = 2 /\ lm.candidate = 1 /\ Reader = {1, 2}
      /\ lm.candidate \in Nat /\ lm.candidate < lm.j /\ lm.j <= opt.n
      /\ UNCHANGED <<tran, opt, was, out, exit>>
  BY Comparing
<1>1. /\ lm'.pc = "compare" /\ lm'.candidate = lm.candidate /\ lm'.fileloc = fl
      /\ lm'.i = lm.i /\ lm'.j = lm.j + 1 /\ lm'.match = TRUE
  BY Comparing DEF MergeState
<1>2. EarlierDone /\ SeenSoFar /\ (InOrder => Base /\ Together /\ CandLow /\ Matches /\ Located)
  BY <1>0, RoundParts DEF Loop
<1>3. /\ lm.candidate \in Reader /\ lm.candidate \in 1..NTran /\ lm.j \in 1..NTran
      /\ rd[lm.candidate].at \in DOMAIN tran[lm.candidate] /\ Cand = tran[lm.candidate][rd[lm.candidate].at]
      /\ rd[lm.j].at \in Nat
  BY <1>0, CandTyped, Numbers, ReaderTyped DEF Cand, Cur
<1>4. rd'[lm.candidate] = rd[lm.candidate]
  BY <1>0, <1>3, AdvancedTyped
<1>5. Cand' = Cand /\ HasCand'
  BY <1>0, <1>1, <1>4 DEF Cand, Cur, HasCand
<1>6. EarlierDone'
  BY <1>0, <1>1, <1>2, DoneAdvanced
<1>7. SeenSoFar'
  <2>1. Covered(lm.j, rd[lm.j].at + 1)
    <3>1. tran[lm.j][(rd[lm.j].at + 1) - 1].path = Cand.path
      BY <1>3 DEF Cur
    <3>2. lm.candidate \in 1..(lm.j - 1)
      BY <1>0, <1>3
    <3> QED
      BY <1>3, <3>1, <3>2 DEF Covered
  <2> QED
    BY <1>0, <1>2, <2>1, SeenAdvanced
<1>8. ASSUME InOrder PROVE Round'
  <2> DEFINE c == lm.candidate
             p0 == Cand.path
  <2>1. /\ p0 \in Path /\ p0 \in Nat /\ Path \subseteq Nat /\ c \in Still(p0) /\ c \in Listing(p0)
        /\ Cand = LineOf(c, p0)
    BY <1>0, <1>8, CandFacts
  <2>2. /\ lm.j \in Still(p0) /\ lm.j \in Listing(p0) /\ Cur(lm.j) = LineOf(lm.j, p0)
        /\ \A p \in Path : lm.j \in Still(p) => p0 <= p
    BY <1>0, <1>8, Heads
  <2>3. \A p \in Path : Still(p)' = IF p = p0 THEN Still(p) \ {lm.j} ELSE Still(p)
    BY <1>0, <1>8, StillAdvanced
  <2>4. c # lm.j /\ c \in Still(p0)' /\ \A p \in Path : Still(p)' \subseteq Still(p)
    BY <1>0, <1>5, <2>1, <2>3
  <2>5. \A p \in Path : (Still(p) = {}) <=> (Still(p)' = {})
    BY <2>1, <2>3, <2>4
  <2>6. Sorted(out)' /\ BeyondOut'
    BY <1>0, <1>2, <1>8, <2>5 DEF Base, BeyondOut, Sorted
  <2>7. AllSettled'
    BY <1>0, <1>2, <1>8, <2>5, SettledKept DEF Base, AllSettled
  <2>8. WinnerLeft'
    <3>0. \A p \in Path : Still(p) \subseteq Nat
      BY Numbers DEF Still, Reader
    <3>1. ASSUME NEW p \in Path, Still(p)' # {}
          PROVE  \/ \A r \in Listing(p) : \E w \in Still(p)' : w <= r
                 \/ Still(p)' = {2} /\ Passed1(p)
      <4>1. CASE p = p0
        <5>1. ~(Still(p0) = {2})
          BY <2>1, <2>2, <2>4
        <5>2. \A r \in Listing(p0) : \E w \in Still(p0) : w <= r
          BY <1>2, <1>8, <2>1, <5>1 DEF Base, WinnerLeft
        <5>3. ASSUME NEW r \in Listing(p0) PROVE \E w \in Still(p0)' : w <= r
          <6>1. PICK w \in Still(p0) : w <= r
            BY <5>2, <5>3
          <6>2. CASE w = lm.j
            <7>1. r \in Nat
              BY <5>3, Numbers DEF Listing, Reader
            <7>2. c <= r
              BY <1>0, <6>1, <6>2, <7>1
            <7> QED
              BY <2>4, <7>2
          <6>3. CASE w # lm.j
            BY <1>5, <2>1, <2>3, <6>1, <6>3
          <6> QED
            BY <6>2, <6>3
        <5> QED
          BY <1>5, <4>1, <5>3
      <4>2. CASE p # p0
        <5>1. Still(p)' = Still(p)
          BY <2>3, <4>2
        <5> QED
          BY <1>2, <1>8, <3>1, <5>1 DEF Base, WinnerLeft
      <4> QED
        BY <4>1, <4>2
    <3> QED
      BY <1>0, <3>1, WasKept DEF WinnerLeft
  <2>9. Together'
    <3> SUFFICES ASSUME opt.n = 2, NEW p \in Path, 1 \in Still(p)', 2 \in Listing(p), p # p0
                 PROVE  2 \in Still(p)'
      BY <1>0, <1>1, <1>5, WasKept DEF Together
    <3>1. ~lm.match
      BY <1>0, <1>2, <1>8 DEF Matches
    <3> QED
      BY <1>2, <1>8, <2>3, <3>1 DEF Together
  <2>10. CandLow'
    <3>1. ASSUME NEW p \in Path, NEW r \in Still(p)', r # c, r < lm.j + 1
          PROVE  p0 < p
      <4>1. r \in Still(p) /\ r \in Nat
        BY <2>4, <3>1, Numbers DEF Still, Reader
      <4>2. CASE r = lm.j
        <5>1. p # p0
          BY <2>3, <3>1, <4>2
        <5> QED
          BY <2>1, <2>2, <4>1, <4>2, <5>1
      <4>3. CASE r # lm.j
        BY <1>0, <1>2, <1>8, <3>1, <4>1, <4>3 DEF CandLow
      <4> QED
        BY <4>2, <4>3
    <3> QED
      BY <1>1, <1>5, <3>1 DEF CandLow
  <2>11. Stage'
    BY <1>1 DEF Stage
  <2>12. Matches'
    <3>1. lm'.j # 2 /\ (c = 1 => lm.j # 1) /\ (opt.n = 2 => c = 1)
      BY <1>0, <1>1
    <3> QED
      BY <1>0, <1>1, <1>5, <2>1, <2>2, <3>1, WasKept DEF Matches
  <2>13. Located'
    <3> SUFFICES ASSUME opt.noupload, c = 1
                 PROVE  /\ fl # 1 =>
                             /\ 2 \in Listing(p0) /\ Cand.type = "f"
                             /\ LineOf(2, p0).type = "f" => Cand.data = LineOf(2, p0).data
                        /\ fl = 1 => Cand.type # "f"
      BY <1>0, <1>1, <1>5, <2>1, WasKept DEF Located
    <3>1. lm.j = 2 /\ 2 \in Listing(p0) /\ Cur(2) = LineOf(2, p0)
      BY <1>0, <2>2
    <3>2. lm.fileloc # 1 =>
            /\ 2 \in Listing(p0) /\ Cand.type = "f"
            /\ LineOf(2, p0).type = "f" => Cand.data = LineOf(2, p0).data
      BY <1>2, <1>8 DEF Located
    <3> QED
      BY <3>1, <3>2
  <2> QED
    BY <1>5, <2>6, <2>7, <2>8, <2>9, <2>10, <2>11, <2>12, <2>13 DEF Round, Base
<1> QED
  BY <1>0, <1>1, <1>6, <1>7, <1>8, WasKept DEF LoopInv, Ended

LEMMA CompareRound ==
  ASSUME Types, tran = was.tran, LoopInv, Compare
  PROVE  LoopInv' /\ EndInv'
<1>1. ~Ended' => EndInv'
  BY DEF EndInv
<1>2. lm.j \in Reader /\ lm \in MergeState
  BY Comparing
<1>3. CASE ~Eof(lm.j) /\ Cand.path = Cur(lm.j).path /\ Match(lm.j)
  <2> DEFINE fileCase == opt.noupload /\ Cand.type = "f"
             fl == IF fileCase THEN lm.j ELSE lm.fileloc
  <2>1. PICK same \in SameFile(lm.j) :
          \/ /\ fileCase /\ ~same
             /\ lm' = [lm EXCEPT !.match = TRUE, !.pc = "skip"]
             /\ UNCHANGED <<rd, exit>>
          \/ Stop("2")
          \/ /\ ~fileCase \/ same
             /\ rd' = Advanced(lm.j) /\ exit' = exit
             /\ lm' = [[lm EXCEPT !.match = TRUE, !.fileloc = IF fileCase THEN lm.j ELSE @] EXCEPT !.j = lm.j + 1]
    BY <1>3 DEF Match
  <2>2. Cur(lm.j).type = "f" => (same <=> Cand.data = Cur(lm.j).data)
    BY DEF SameFile
  <2>3. [[lm EXCEPT !.match = TRUE, !.fileloc = IF fileCase THEN lm.j ELSE @] EXCEPT !.j = lm.j + 1]
          = [lm EXCEPT !.match = TRUE, !.fileloc = fl, !.j = lm.j + 1]
    BY <1>2 DEF MergeState
  <2>4. fl \in {lm.fileloc, lm.j} /\ (fl # lm.fileloc => fileCase) /\ (fileCase => fl = lm.j)
    OBVIOUS
  <2> HIDE DEF fl
  <2>5. CASE /\ fileCase /\ ~same
             /\ lm' = [lm EXCEPT !.match = TRUE, !.pc = "skip"]
             /\ UNCHANGED <<rd, exit>>
    BY <1>1, <1>3, <2>2, <2>5, ClashRound
  <2>6. CASE Stop("2")
    <3>1. lm'.pc = "done" /\ exit' = "2"
      BY <1>2, <2>6 DEF Stop, MergeState
    <3> QED
      BY <3>1 DEF LoopInv, EndInv, Loop, Ended
  <2>7. CASE /\ ~fileCase \/ same
             /\ rd' = Advanced(lm.j) /\ exit' = exit
             /\ lm' = [[lm EXCEPT !.match = TRUE, !.fileloc = IF fileCase THEN lm.j ELSE @] EXCEPT !.j = lm.j + 1]
    BY <1>1, <1>3, <2>2, <2>3, <2>4, <2>7, MatchRound
  <2> QED
    BY <2>1, <2>5, <2>6, <2>7
<1>4. CASE ~Eof(lm.j) /\ Cand.path > Cur(lm.j).path /\ Change(lm.j) /\ UNCHANGED <<rd, exit>>
  BY <1>1, <1>4, ChangeRound
<1>5. CASE (~Eof(lm.j) => Cand.path < Cur(lm.j).path) /\ lm' = [lm EXCEPT !.j = lm.j + 1] /\ UNCHANGED <<rd, exit>>
  BY <1>1, <1>5, OnRound
<1> QED
  BY <1>3, <1>4, <1>5 DEF Compare

(* It is settled what becomes of the candidate                              *)
LEMMA DecidedRound ==
  ASSUME Types, LoopInv, HasCand, UNCHANGED <<tran, opt, was, rd, out, exit>>, lm'.pc \in {"place", "output", "skip"},
         lm'.i = lm.i, lm'.candidate = lm.candidate, lm'.fileloc = lm.fileloc, lm'.match = lm.match, lm'.j = lm.j,
         InOrder => Stage'
  PROVE  LoopInv' /\ ~Ended'
<1>0. lm.pc \in Loop /\ exit = "none"
  BY MergeParts DEF HasCand, Loop, Exits
<1>1. EarlierDone /\ SeenSoFar /\ (InOrder => Base /\ Together /\ CandLow /\ Matches /\ Located)
  BY <1>0, RoundParts
<1>2. Cand' = Cand /\ HasCand'
  BY DEF Cand, Cur, HasCand
<1>3. EarlierDone' /\ SeenSoFar' /\ (InOrder => Base') /\ (InOrder <=> InOrder')
  BY <1>1, NothingRead, WasKept DEF EarlierDone
<1>4. ASSUME InOrder PROVE Round'
  <2>0. Cand.path \in Path
    BY CandTyped, LineTyped
  <2>1. CandLow'
    BY <1>1, <1>2, <1>4, NothingRead DEF CandLow
  <2>2. Matches'
    BY <1>1, <1>2, <1>4, <2>0, WasKept DEF Matches
  <2>3. Located'
    BY <1>1, <1>2, <1>4, <2>0, WasKept, CandTyped DEF Located, Listing
  <2>4. Together'
    BY <1>1, <1>2, <1>4, NothingRead, WasKept DEF Together
  <2> QED
    BY <1>3, <1>4, <2>1, <2>2, <2>3, <2>4 DEF Round
<1> QED
  BY <1>0, <1>3, <1>4 DEF LoopInv, Ended

LEMMA DecideRound ==
  ASSUME Types, LoopInv, Decide
  PROVE  LoopInv' /\ EndInv'
<1>0. /\ lm.pc = "compare" /\ lm \in MergeState /\ lm.j > opt.n /\ HasCand
      /\ UNCHANGED <<tran, opt, was, rd, out, exit>>
  BY MergeParts DEF Decide, At, repository, HasCand
<1>1. /\ lm'.candidate = lm.candidate /\ lm'.fileloc = lm.fileloc
      /\ lm'.i = lm.i /\ lm'.j = lm.j /\ lm'.match = lm.match
      /\ lm'.pc \in {"output", "skip", "place"}
      /\ lm'.pc \in {"output", "place"} => ~Hidden \/ (opt.force /\ lm.candidate = 2)
      /\ lm'.pc = "skip" => Hidden /\ ~(opt.force /\ lm.candidate = 2)
  <2>1. CASE opt.force /\ lm.candidate = 2
    <3>1. lm' = [lm EXCEPT !.pc = "output"]
      BY <2>1 DEF Decide
    <3> QED
      BY <1>0, <2>1, <3>1 DEF MergeState
  <2>2. CASE ~(opt.force /\ lm.candidate = 2) /\ Hidden
    <3>1. \E d : lm' = [lm EXCEPT !.pc = "skip", !.dirlist = d]
      BY <2>2 DEF Decide
    <3> QED
      BY <1>0, <2>2, <3>1 DEF MergeState
  <2>3. CASE ~(opt.force /\ lm.candidate = 2) /\ ~Hidden
    <3>1. lm' = [lm EXCEPT !.pc = IF Cand.type # "f" \/ opt.only THEN "output" ELSE "place"]
      BY <2>3 DEF Decide
    <3> QED
      BY <1>0, <2>3, <3>1 DEF MergeState
  <2> QED
    BY <2>1, <2>2, <2>3
<1>2. Cand' = Cand
  BY <1>0, <1>1 DEF Cand, Cur
<1>3. Hidden' <=> Hidden
  BY <1>0, <1>1, <1>2 DEF Hidden
<1>4. Stage'
  BY <1>0, <1>1, <1>3 DEF Stage
<1> QED
  BY <1>0, <1>1, <1>4, DecidedRound DEF EndInv

LEMMA PlaceRound ==
  ASSUME Types, LoopInv, Place
  PROVE  LoopInv' /\ EndInv'
<1>1. lm.pc = "place" /\ UNCHANGED <<tran, opt, was, rd, out>> /\ HasCand /\ Merging
  BY PlaceCases DEF HasCand, Merging
<1>2. CASE Stop("2")
  BY <1>1, <1>2, StopTyped DEF LoopInv, EndInv, Loop, Ended
<1>3. CASE lm' = [lm EXCEPT !.pc = "output"] /\ exit' = exit
  <2>1. /\ lm'.pc = "output" /\ lm'.candidate = lm.candidate /\ lm'.fileloc = lm.fileloc /\ lm'.i = lm.i
        /\ lm'.j = lm.j /\ lm'.match = lm.match
    BY <1>3, GotoTyped
  <2>2. Cand' = Cand
    BY <1>1, <2>1 DEF Cand, Cur
  <2>3. Hidden' <=> Hidden
    BY <1>1, <2>1, <2>2 DEF Hidden
  <2>4. InOrder => Stage'
    <3>1. InOrder => Stage
      BY <1>1, RoundParts DEF Loop
    <3> QED
      BY <1>1, <2>1, <2>3, <3>1 DEF Stage
  <2> QED
    BY <1>1, <1>3, <2>1, <2>4, DecidedRound DEF EndInv
<1> QED
  BY <1>2, <1>3, PlaceCases

(* What the transcripts say of the candidate's path, when they have all     *)
(* been compared                                                            *)
LEMMA LastLeft ==
  ASSUME Types, tran = was.tran, InOrder, Round, HasCand, lm.j > opt.n
  PROVE  /\ Still(Cand.path) = {lm.candidate}
         /\ \A p \in Path : Still(p) # {} => Cand.path <= p
<1>1. /\ Cand.path \in Path /\ Cand.path \in Nat /\ Path \subseteq Nat /\ lm.candidate \in Still(Cand.path)
      /\ \A p \in Path : lm.candidate \in Still(p) => Cand.path <= p
  BY CandFacts
<1>2. \A p \in Path : \A r \in Still(p) : r # lm.candidate => Cand.path < p
  <2>1. \A p \in Path : \A r \in Still(p) : r < lm.j
    BY Numbers, CandTyped DEF Still, Reader
  <2> QED
    BY <2>1 DEF Round, CandLow
<1>3. Still(Cand.path) = {lm.candidate}
  <2>1. Cand.path \in Nat => ~(Cand.path < Cand.path)
    OBVIOUS
  <2>2. \A r \in Still(Cand.path) : r = lm.candidate
    BY <1>1, <1>2, <2>1, Zenon
  <2> QED
    BY <1>1, <2>2
<1>4. ASSUME NEW p \in Path, NEW r \in Still(p) PROVE Cand.path <= p
  <2>1. p \in Nat /\ Cand.path \in Nat
    BY <1>1
  <2>2. r = lm.candidate => lm.candidate \in Still(p)
    BY <1>4
  <2> QED
    BY <1>1, <1>2, <1>4, <2>1, <2>2
<1> QED
  BY <1>3, <1>4

LEMMA DecidedBy ==
  ASSUME Types, tran = was.tran, InOrder, Round, HasCand, lm.j > opt.n, ~Mismatched(Cand.path)
  PROVE  Deciding(Cand.path) = IF opt.noupload /\ lm.candidate = 1 /\ lm.fileloc = 1 THEN {} ELSE {Cand}
<1> DEFINE c == lm.candidate
           p == Cand.path
<1>1. p \in Path /\ c \in Listing(p) /\ Cand = LineOf(c, p) /\ c \in Reader
  BY CandFacts
<1>2. (\A r \in Listing(p) : c <= r) \/ (c = 2 /\ Passed1(p))
  <2>1. Still(p) = {c}
    BY LastLeft
  <2> QED
    BY <1>1, <2>1 DEF Round, Base, WinnerLeft
<1>3. CASE ~opt.noupload
  BY <1>1, <1>2, <1>3, WinnerIs DEF Passed1, Deciding
<1>4. CASE opt.noupload
  <2>1. opt.n = 2 /\ Reader = {1, 2} /\ Listing(p) \subseteq {1, 2} /\ Listing(p) # {}
    BY <1>1, <1>4, Numbers DEF Reader, Listing
  <2>2. Deciding(p) = Uploaded(p)
    BY <1>4, <2>1 DEF Deciding
  <2>3. CASE c = 1
    <3>1. lm.fileloc # 1 =>
            /\ 2 \in Listing(p) /\ Cand.type = "f"
            /\ LineOf(2, p).type = "f" => Cand.data = LineOf(2, p).data
      BY <1>4, <2>3 DEF Round, Located
    <3>2. lm.fileloc = 1 => Cand.type # "f" \/ 2 \notin Listing(p)
      BY <1>4, <2>1, <2>3 DEF Round, Located
    <3>3. CASE lm.fileloc = 1
      <4>1. Listing(p) = {1} \/ LineOf(1, p).type # "f"
        BY <1>1, <2>1, <2>3, <3>2, <3>3
      <4> QED
        BY <1>1, <1>4, <2>2, <2>3, <3>3, <4>1 DEF Uploaded
    <3>4. CASE lm.fileloc # 1
      <4>1. Listing(p) = {1, 2} /\ LineOf(1, p) = Cand /\ Cand.type = "f"
        BY <1>1, <2>1, <2>3, <3>1, <3>4
      <4>2. LineOf(2, p).type = "f"
        BY <1>4, <4>1 DEF Mismatched
      <4> QED
        BY <1>1, <1>4, <2>2, <2>3, <3>1, <3>4, <4>1, <4>2 DEF Uploaded
    <3> QED
      BY <3>3, <3>4
  <2>4. CASE c = 2
    <3>1. CASE \A r \in Listing(p) : c <= r
      BY <1>1, <2>2, <2>4, <3>1 DEF Uploaded
    <3>2. CASE Passed1(p)
      <4>1. LineOf(2, p).type = "f"
        BY <1>4, <3>2 DEF Passed1, Mismatched
      <4> QED
        BY <1>1, <2>2, <2>4, <3>2, <4>1 DEF Uploaded, Passed1
    <3> QED
      BY <1>2, <3>1, <3>2
  <2> QED
    BY <1>1, <2>1, <2>3, <2>4
<1> QED
  BY <1>3, <1>4

(* The candidate's line is written (w), or it is not                        *)
Leaves(w) ==
  /\ out' = IF w THEN Append(out, Cand) ELSE out
  /\ rd' = Advanced(lm.candidate) /\ UNCHANGED <<tran, opt, was>>
  /\ lm'.pc = "select"
  /\ w /\ ~Cand.minus => ~(opt.noupload /\ lm.candidate = 1 /\ lm.fileloc = 1)
  /\ ~w => Cand.minus \/ (opt.noupload /\ lm.candidate = 1 /\ lm.fileloc = 1)
  /\ w /\ Cand.minus => (opt.force /\ lm.candidate = 2) \/ ~lm.match
  /\ ~w /\ Cand.minus => lm.match /\ ~(opt.force /\ lm.candidate = 2)

(* ... and is all that is written for its path                              *)
LEMMA NewLine ==
  ASSUME Types, tran = was.tran, InOrder, Round, HasCand, lm.j > opt.n, NEW w \in BOOLEAN, Leaves(w)
  PROVE  /\ DOMAIN out' = IF w THEN 1..(Len(out) + 1) ELSE 1..Len(out)
         /\ \A k \in 1..Len(out) : out'[k] = out[k] /\ out[k] \in Line /\ out[k].path < Cand.path
         /\ w => out'[Len(out) + 1] = Cand
         /\ DOMAIN out = 1..Len(out) /\ Len(out) \in Nat
         /\ { out'[k] : k \in { m \in DOMAIN out' : out'[m].path = Cand.path } } = IF w THEN {Cand} ELSE {}
<1>1. out \in Seq(Line) /\ Cand \in Line /\ Cand.path \in Path /\ Cand.path \in Nat
  BY MergeParts, CandFacts
<1>2. \A k \in 1..Len(out) : out[k] \in Line /\ out[k].path < Cand.path
  <2>1. Still(Cand.path) # {} /\ Cand.path \in Path
    BY CandFacts
  <2> QED
    BY <1>1, <2>1 DEF Round, Base, BeyondOut
<1>3. /\ DOMAIN out' = IF w THEN 1..(Len(out) + 1) ELSE 1..Len(out)
      /\ \A k \in 1..Len(out) : out'[k] = out[k]
      /\ w => out'[Len(out) + 1] = Cand
      /\ DOMAIN out = 1..Len(out) /\ Len(out) \in Nat
  BY <1>1 DEF Leaves
<1>4. \A k \in 1..Len(out) : out'[k].path # Cand.path
  BY <1>1, <1>2, <1>3
<1>5. \A k \in 1..(Len(out) + 1) : k \in 1..Len(out) \/ k = Len(out) + 1
  BY <1>3
<1>6. { m \in DOMAIN out' : out'[m].path = Cand.path } = IF w THEN {Len(out) + 1} ELSE {}
  <2>1. CASE w
    <3>1. Len(out) + 1 \in DOMAIN out'
      BY <1>3, <2>1
    <3> QED
      BY <1>3, <1>4, <1>5, <2>1, <3>1
  <2>2. CASE ~w
    BY <1>3, <1>4, <2>2
  <2> QED
    BY <2>1, <2>2
<1>7. { out'[k] : k \in { m \in DOMAIN out' : out'[m].path = Cand.path } } = IF w THEN {Cand} ELSE {}
  BY <1>3, <1>6
<1> QED
  BY <1>2, <1>3, <1>7

LEMMA CandSettled ==
  ASSUME Types, tran = was.tran, InOrder, Round, HasCand, lm.j > opt.n, NEW w \in BOOLEAN, Leaves(w),
         NEW p \in Path, p = Cand.path
  PROVE  Settled(p)'
<1> DEFINE c == lm.candidate
           new == { k \in DOMAIN out' : out'[k].path = p }
<1>1. /\ c \in Listing(p) /\ Cand = LineOf(c, p) /\ c \in Reader /\ Cand.minus \in BOOLEAN
      /\ c \in Nat /\ Listing(p) \subseteq Reader /\ Reader \subseteq Nat
  BY CandFacts, LineTyped, Numbers DEF Listing, Reader
<1>2. /\ { out'[k] : k \in new } = IF w THEN {Cand} ELSE {}
      /\ w => \E k \in DOMAIN out' : out'[k] = Cand
  BY NewLine
<1>3. \A k \in new : w /\ out'[k] = Cand
  BY <1>2
<1>4. UNCHANGED <<opt, was>>
  BY DEF Leaves
<1>5. PositiveOf(p)'
  <2>1. { out'[k] : k \in { m \in DOMAIN out' : out'[m].path = p /\ ~out'[m].minus } }
          = { l \in { out'[k] : k \in new } : ~l.minus }
    OBVIOUS
  <2>2. ~Mismatched(p) => Deciding(p) = IF opt.noupload /\ c = 1 /\ lm.fileloc = 1 THEN {} ELSE {Cand}
    BY DecidedBy
  <2>3. ~Mismatched(p) => { l \in Deciding(p) : ~l.minus } = { l \in IF w THEN {Cand} ELSE {} : ~l.minus }
    BY <2>2 DEF Leaves
  <2>4. (Mismatched(p) <=> Mismatched(p)') /\ Deciding(p)' = Deciding(p)
    BY <1>4, WasKept
  <2> QED
    BY <1>2, <2>1, <2>3, <2>4 DEF PositiveOf
<1>6. /\ Still(p) = {c}
      /\ ~opt.noupload => \A r \in Listing(p) : c <= r
  <2>1. Still(p) = {c}
    BY LastLeft
  <2> QED
    BY <1>1, <2>1 DEF Round, Base, WinnerLeft, Passed1
<1>7. WrittenMinus(p)'
  <2> SUFFICES ASSUME ~opt.noupload, w, Cand.minus
               PROVE  Cand = LineOf(Winner(p), p) /\ (opt.n = 2 => Listing(p) = {Winner(p)})
    BY <1>1, <1>3, <1>4, WasKept, WinningLine DEF WrittenMinus
  <2>1. Winner(p) = c
    BY <1>1, <1>6, WinnerIs
  <2>2. ASSUME opt.n = 2 PROVE Listing(p) = {c}
    <3>1. Reader = {1, 2}
      BY <2>2 DEF Reader
    <3>2. CASE c = 2
      BY <1>1, <1>6, <3>1, <3>2
    <3>3. CASE c = 1
      <4>1. ~lm.match
        BY <3>3 DEF Leaves
      <4>2. 2 \notin Listing(p)
        BY <1>6, <2>2, <3>3, <4>1 DEF Round, Together
      <4> QED
        BY <1>1, <3>1, <3>3, <4>2
    <3> QED
      BY <1>1, <3>1, <3>2, <3>3
  <2> QED
    BY <1>1, <2>1, <2>2
<1>8. AloneMinus(p)'
  <2>1. ASSUME NEW r \in Reader, Listing(p) = {r}, LineOf(r, p).minus, r = 1 \/ (opt.n = 2 /\ ~opt.noupload)
        PROVE  \E k \in DOMAIN out' : out'[k] = LineOf(r, p)
    <3>1. r = c /\ Cand.minus /\ Cand = LineOf(r, p)
      BY <1>1, <2>1
    <3>2. w
      <4> SUFFICES ASSUME ~w PROVE FALSE
        OBVIOUS
      <4>1. lm.match /\ ~(opt.force /\ c = 2)
        BY <3>1 DEF Leaves
      <4>2. CASE c = 1
        BY <2>1, <3>1, <4>1, <4>2 DEF Round, Matches
      <4>3. CASE c # 1
        <5>1. c = 2 /\ opt.n = 2
          BY <1>1, <2>1, <3>1, <4>3 DEF Reader
        <5> QED
          BY <4>1, <5>1 DEF Round, Matches
      <4> QED
        BY <4>2, <4>3
    <3> QED
      BY <1>2, <3>1, <3>2
  <2> QED
    BY <1>4, <2>1, WasKept DEF AloneMinus
<1>9. Taken(p)'
  BY <1>1, <1>3, <1>4, WasKept DEF Taken
<1> QED
  BY <1>5, <1>7, <1>8, <1>9 DEF Settled

LEMMA LeftRound ==
  ASSUME Types, tran = was.tran, InOrder, Round, HasCand, lm.j > opt.n, NEW w \in BOOLEAN, Leaves(w)
  PROVE  Round'
<1> DEFINE c == lm.candidate
<1>1. PICK p0 \in Path : p0 = Cand.path
  BY CandFacts
<1>2. /\ Still(p0) = {c} /\ c \in Reader /\ Path \subseteq Nat /\ Cand \in Line
      /\ \A p \in Path : Still(p) # {} => p0 <= p
  BY <1>1, LastLeft, CandFacts
<1>3. \A p \in Path : Still(p)' = IF p = p0 THEN {} ELSE Still(p)
  <2>1. ~Eof(c) /\ Cand = Cur(c) /\ rd' = Advanced(c) /\ UNCHANGED <<tran, opt>>
    BY CandTyped DEF Cand, Leaves
  <2>2. \A p \in Path : Still(p)' = IF p = Cur(c).path THEN Still(p) \ {c} ELSE Still(p)
    BY <1>2, <2>1, StillAdvanced
  <2>3. Cur(c).path = p0 /\ Still(p0) \ {c} = {}
    BY <1>1, <1>2, <2>1
  <2> QED
    BY <2>2, <2>3
<1>4. /\ DOMAIN out' = IF w THEN 1..(Len(out) + 1) ELSE 1..Len(out)
      /\ \A k \in 1..Len(out) : out'[k] = out[k] /\ out[k] \in Line /\ out[k].path < p0
      /\ w => out'[Len(out) + 1] = Cand
      /\ DOMAIN out = 1..Len(out) /\ Len(out) \in Nat
  BY <1>1, NewLine
<1>5. UNCHANGED <<opt, was, tran>> /\ ~HasCand'
  BY DEF Leaves, HasCand
<1>6. \A k \in DOMAIN out' : k \in 1..Len(out) \/ (w /\ k = Len(out) + 1)
  BY <1>4
<1>7. Sorted(out)'
  <2>1. ASSUME NEW k \in DOMAIN out', NEW m \in DOMAIN out', k < m
        PROVE  out'[k].path < out'[m].path
    <3>1. k \in 1..Len(out)
      BY <1>4, <1>6, <2>1
    <3>2. CASE m \in 1..Len(out)
      BY <1>4, <2>1, <3>1, <3>2 DEF Round, Base, Sorted
    <3>3. CASE w /\ m = Len(out) + 1
      BY <1>1, <1>4, <3>1, <3>3
    <3> QED
      BY <1>6, <3>2, <3>3
  <2> QED
    BY <2>1 DEF Sorted
<1>8. BeyondOut'
  <2>1. ASSUME NEW k \in DOMAIN out', NEW p \in Path, Still(p)' # {}
        PROVE  out'[k].path < p
    <3>1. p # p0 /\ Still(p) # {} /\ p \in Nat /\ p0 \in Nat /\ p0 <= p
      BY <1>1, <1>2, <1>3, <2>1
    <3>2. CASE k \in 1..Len(out)
      <4>1. out'[k] = out[k] /\ out[k].path < p
        BY <1>4, <3>1, <3>2 DEF Round, Base, BeyondOut
      <4> QED
        BY <4>1
    <3>3. CASE w /\ k = Len(out) + 1
      BY <1>1, <1>4, <3>1, <3>3
    <3> QED
      BY <1>6, <3>2, <3>3
  <2> QED
    BY <2>1 DEF BeyondOut
<1>9. AllSettled'
  <2>1. ASSUME NEW p \in Path, Still(p)' = {}
        PROVE  Settled(p)'
    <3>1. CASE p = p0
      BY <1>1, <3>1, CandSettled
    <3>2. CASE p # p0
      <4>1. Settled(p)
        BY <1>3, <2>1, <3>2 DEF Round, Base, AllSettled
      <4>2. CASE w
        <5>1. out' = Append(out, Cand) /\ Cand.path # p /\ out \in Seq(Line)
          BY <1>1, <3>2, <4>2, MergeParts DEF Leaves
        <5> QED
          BY <1>2, <1>5, <4>1, <5>1, SettledMore
      <4>3. CASE ~w
        <5>1. out' = out
          BY <4>3 DEF Leaves
        <5> QED
          BY <1>5, <4>1, <5>1, SettledKept
      <4> QED
        BY <4>2, <4>3
    <3> QED
      BY <3>1, <3>2
  <2> QED
    BY <2>1 DEF AllSettled
<1>10. WinnerLeft'
  <2>1. ASSUME NEW p \in Path, Still(p)' # {}
        PROVE  \/ \A r \in Listing(p) : \E v \in Still(p)' : v <= r
               \/ Still(p)' = {2} /\ Passed1(p)
    <3>1. Still(p)' = Still(p)
      BY <1>3, <2>1
    <3> QED
      BY <2>1, <3>1 DEF Round, Base, WinnerLeft
  <2> QED
    BY <1>5, <2>1, WasKept DEF WinnerLeft
<1>11. Together'
  <2>1. ASSUME opt.n = 2, NEW p \in Path, 1 \in Still(p)', 2 \in Listing(p)
        PROVE  2 \in Still(p)'
    <3>1. p # p0 /\ Still(p)' = Still(p)
      BY <1>3, <2>1
    <3> QED
      BY <1>1, <2>1, <3>1 DEF Round, Together
  <2> QED
    BY <1>5, <2>1, WasKept DEF Together
<1> QED
  BY <1>5, <1>7, <1>8, <1>9, <1>10, <1>11 DEF Round, Base

(* The reader of a line that is done with                                   *)
LEMMA ReadOn ==
  ASSUME Types, EarlierDone, SeenSoFar, HasCand, UNCHANGED <<tran, opt>>, Next1
  PROVE  /\ rd' = Advanced(lm.candidate)
         /\ \/ lm'.pc = "done" /\ exit' = "2"
            \/ lm'.pc = "select" /\ exit' = "none" /\ EarlierDone' /\ SeenSoFar'
<1>1. lm.candidate \in Reader /\ ~Eof(lm.candidate) /\ lm \in MergeState /\ exit = "none"
  BY CandTyped, MergeParts DEF Exits, HasCand
<1>2. rd' = Advanced(lm.candidate)
  BY DEF Next1
<1>3. CASE NextBad(lm.candidate)
  BY <1>1, <1>2, <1>3 DEF Next1, Stop, MergeState
<1>4. CASE ~NextBad(lm.candidate)
  <2>1. lm' = [lm EXCEPT !.pc = "select"] /\ exit' = exit
    BY <1>4 DEF Next1, Goto
  <2>2. lm'.pc = "select" /\ lm'.i = lm.i
    BY <2>1, GotoTyped
  <2> QED
    BY <1>1, <1>2, <1>4, <2>1, <2>2, SeenAdvanced, DoneAdvanced
<1> QED
  BY <1>3, <1>4

LEMMA WriteRound ==
  ASSUME Types, tran = was.tran, LoopInv, Output \/ Skip
  PROVE  LoopInv' /\ EndInv'
<1>1. HasCand /\ lm.pc \in Loop /\ Next1 /\ UNCHANGED <<tran, opt, was>>
  BY DEF Output, Skip, At, HasCand, Loop, repository
<1>2. EarlierDone /\ SeenSoFar /\ (InOrder => Round)
  BY <1>1 DEF LoopInv
<1>3. /\ rd' = Advanced(lm.candidate)
      /\ \/ lm'.pc = "done" /\ exit' = "2"
         \/ lm'.pc = "select" /\ exit' = "none" /\ EarlierDone' /\ SeenSoFar'
  BY <1>1, <1>2, ReadOn
<1>4. CASE lm'.pc = "done" /\ exit' = "2"
  BY <1>4 DEF LoopInv, EndInv, Loop, Ended
<1>5. CASE lm'.pc = "select" /\ exit' = "none" /\ EarlierDone' /\ SeenSoFar'
  <2>1. ASSUME InOrder PROVE Round'
    <3>1. Round /\ Stage /\ lm.match \in BOOLEAN /\ Cand.minus \in BOOLEAN
      BY <1>1, <1>2, <2>1, PcTyped, CandTyped, LineTyped DEF Round
    <3>2. CASE Output
      <4>1. lm.j > opt.n /\ (~Hidden \/ (opt.force /\ lm.candidate = 2))
        BY <3>1, <3>2 DEF Stage, Output, At
      <4>2. opt.force => ~opt.noupload
        BY Numbers DEF Legal
      <4>3. Leaves(TRUE)
        BY <1>1, <1>3, <1>5, <3>2, <4>1, <4>2 DEF Leaves, Output, Hidden
      <4> QED
        BY <1>1, <2>1, <3>1, <4>1, <4>3, LeftRound
    <3>3. CASE Skip /\ ~Clash
      <4>1. lm.j > opt.n /\ Hidden /\ ~(opt.force /\ lm.candidate = 2)
        BY <3>1, <3>3 DEF Stage, Skip, At
      <4>2. Again \in BOOLEAN
        BY DEF Again
      <4>3. Leaves(Again)
        BY <1>1, <1>3, <1>5, <3>1, <3>3, <4>1 DEF Leaves, Skip, Hidden, Again
      <4> QED
        BY <1>1, <2>1, <3>1, <4>1, <4>2, <4>3, LeftRound
    <3>4. CASE Skip /\ Clash
      <4>1. PICK p0 \in Path : p0 = Cand.path
        BY <1>1, <2>1, CandFacts
      <4>2. /\ opt.noupload /\ opt.n = 2 /\ Reader = {1, 2} /\ lm.candidate = 1 /\ 2 \in Still(p0) /\ Passed1(p0)
            /\ 1 \in Still(p0) /\ out' = out
        BY <1>1, <2>1, <3>4, <4>1, CandFacts, Numbers DEF Clash, Reader, Skip, Again
      <4>3. ~Eof(1) /\ Cur(1).path = p0 /\ rd' = Advanced(1) /\ 1 \in Reader
        BY <1>1, <1>3, <4>1, <4>2, CandTyped DEF Cand
      <4>4. \A p \in Path : Still(p)' = IF p = p0 THEN Still(p) \ {1} ELSE Still(p)
        BY <1>1, <2>1, <4>3, StillAdvanced
      <4>5. Still(p0) = {1, 2} /\ Still(p0)' = {2}
        BY <4>2, <4>4 DEF Still
      <4>6. \A p \in Path : (Still(p) = {}) <=> (Still(p)' = {})
        BY <4>4, <4>5
      <4>7. Sorted(out)' /\ BeyondOut'
        BY <3>1, <4>2, <4>6 DEF Round, Base, BeyondOut, Sorted
      <4>8. AllSettled'
        BY <1>1, <3>1, <4>2, <4>6, SettledKept DEF Round, Base, AllSettled
      <4>9. WinnerLeft'
        <5>1. ASSUME NEW p \in Path, Still(p)' # {}
              PROVE  \/ \A r \in Listing(p) : \E v \in Still(p)' : v <= r
                     \/ Still(p)' = {2} /\ Passed1(p)
          <6>1. CASE p = p0
            BY <4>2, <4>5, <6>1
          <6>2. CASE p # p0
            <7>1. Still(p)' = Still(p)
              BY <4>4, <6>2
            <7> QED
              BY <3>1, <5>1, <7>1 DEF Round, Base, WinnerLeft
          <6> QED
            BY <6>1, <6>2
        <5> QED
          BY <1>1, <5>1, WasKept DEF WinnerLeft
      <4>10. Together'
        <5>1. ASSUME NEW p \in Path, 1 \in Still(p)', 2 \in Listing(p)
              PROVE  2 \in Still(p)'
          <6>1. p # p0 /\ Still(p)' = Still(p)
            BY <4>4, <4>5, <5>1
          <6> QED
            BY <3>1, <4>1, <4>2, <5>1, <6>1 DEF Round, Together
        <5> QED
          BY <1>1, <5>1, WasKept DEF Together
      <4> QED
        BY <1>5, <4>7, <4>8, <4>9, <4>10 DEF Round, Base, HasCand
    <3> QED
      BY <3>2, <3>3, <3>4
  <2> QED
    BY <1>1, <1>5, <2>1, WasKept DEF LoopInv, EndInv, Ended
<1> QED
  BY <1>3, <1>4, <1>5

(* What has been written stays                                              *)
LEMMA EndKept ==
  ASSUME EndInv, UNCHANGED <<opt, was, out>>, Ended' => Ended
  PROVE  EndInv'
<1>1. Whole => Whole'
  <2>1. (\A p \in Path : Settled(p)) => \A p \in Path : Settled(p)'
    BY SettledKept
  <2> QED
    BY <2>1, WasKept DEF Whole, Sorted
<1>2. OrderWhole => OrderWhole'
  BY WasKept DEF OrderWhole
<1> QED
  BY <1>1, <1>2 DEF EndInv

LEMMA AfterLoop ==
  ASSUME Types, EndInv, RemoveDirs \/ RenameFiles \/ RenameTran \/ Flush \/ Crash \/ Fails \/ Killed
  PROVE  LoopInv' /\ EndInv'
<1>1. lm \in MergeState /\ UNCHANGED <<opt, was, out>> /\ exit \in {"none"} /\ lm.pc # "done"
  BY MergeParts DEF RemoveDirs, RenameFiles, RenameTran, Flush, Crash, Fails, Killed, At, Exits
<1>2. CASE lm.pc \in {"dirs", "files", "trans", "flush"} /\ (RemoveDirs \/ RenameFiles \/ RenameTran \/ Flush)
  <2>1. lm'.pc \in {"dirs", "trans", "flush", "done"}
    <3>1. RemoveDirs => lm'.pc \in {"dirs", "trans", "done"}
      BY <1>1 DEF RemoveDirs, Goto, Stop, MergeState, At
    <3>2. RenameFiles => lm'.pc \in {"trans", "done"}
      BY <1>1 DEF RenameFiles, Goto, Stop, MergeState
    <3>3. RenameTran \/ Flush => lm'.pc \in {"flush", "done"}
      BY <1>1 DEF RenameTran, Flush, Goto, Stop, MergeState
    <3> QED
      BY <1>2, <3>1, <3>2, <3>3
  <2>2. Ended
    BY <1>2 DEF Ended
  <2> QED
    BY <1>1, <2>1, <2>2, EndKept DEF LoopInv, Loop
<1>3. CASE Crash \/ Fails \/ Killed
  <2>1. lm'.pc = "done" /\ exit' \in {"2", "killed", "crash"}
    BY <1>1, <1>3 DEF Crash, Fails, Killed, Stop, MergeState
  <2> QED
    BY <2>1 DEF LoopInv, EndInv, Loop, Ended
<1> QED
  BY <1>2, <1>3 DEF RemoveDirs, RenameFiles, RenameTran, Flush, At

(* At first, all that is listed is still to come                            *)
LEMMA InitRound == Init => RInv
<1> SUFFICES ASSUME Init PROVE RInv
  OBVIOUS
<1>1. Types
  BY InitTypes
<1>2. PICK b \in Jobs : MergeInit(b)
  BY DEF Init
<1>3. /\ tran = was.tran /\ out = <<>> /\ exit = "none" /\ lm.pc \in {"begin", "off"} /\ lm.i = 1
      /\ \A r \in 1..NTran : rd[r] = FirstLine(tran[r])
  BY <1>2 DEF MergeInit
<1>9. ASSUME NEW r \in 1..NTran
      PROVE  rd[r].at = 1 /\ rd[r].pre = IF tran[r] = <<>> THEN 0 ELSE tran[r][1].path
  <2> DEFINE first == IF tran[r] = <<>> THEN 0 ELSE tran[r][1].path
  <2>1. rd[r] = [at |-> 1, pre |-> first]
    BY <1>3 DEF FirstLine
  <2> HIDE DEF first
  <2>2. rd[r].at = 1 /\ rd[r].pre = first
    BY <2>1
  <2> QED
    BY <2>2 DEF first
<1>4. EarlierDone
  BY <1>3, Numbers, <1>1 DEF EarlierDone, Reader
<1>5. SeenSoFar
  <2>1. ASSUME NEW r \in Reader
        PROVE  /\ ~Eof(r) => Cur(r).path <= rd[r].pre
               /\ \A k \in 2..Len(tran[r]) : ~(k <= rd[r].at)
    <3>1. r \in 1..NTran /\ tran[r] \in Seq(Line) /\ Len(tran[r]) \in Nat
      BY <1>1, Numbers, ReaderTyped
    <3>2. rd[r].at = 1 /\ rd[r].pre = IF tran[r] = <<>> THEN 0 ELSE tran[r][1].path
      BY <1>9, <3>1
    <3>3. ~Eof(r) => tran[r] # <<>> /\ tran[r][1] \in Line
      BY <3>1, <3>2 DEF Eof
    <3>4. ~Eof(r) => tran[r][1].path \in Nat
      BY <3>3, LineTyped
    <3>5. ~Eof(r) => Cur(r).path <= rd[r].pre
      BY <3>2, <3>3, <3>4 DEF Cur
    <3>6. \A k \in 2..Len(tran[r]) : ~(k <= rd[r].at)
      BY <3>1, <3>2
    <3> QED
      BY <3>5, <3>6
  <2> QED
    BY <2>1 DEF SeenSoFar
<1>6. \A p \in Path : Still(p) = Listing(p)
  <2>1. \A r \in Reader : Rest(r) = DOMAIN was.tran[r]
    BY <1>1, <1>3, <1>9, Numbers, ReaderTyped DEF Rest
  <2> QED
    BY <1>3, <2>1 DEF Still, Listing
<1>7. Base
  <2>1. Sorted(out) /\ BeyondOut
    BY <1>3 DEF Sorted, BeyondOut
  <2>2. AllSettled
    <3>1. ASSUME NEW p \in Path, Listing(p) = {} PROVE Settled(p)
      <4>1. Deciding(p) = {} /\ DOMAIN out = {}
        BY <1>3, <3>1 DEF Deciding
      <4>2. \A r : Listing(p) # {r}
        BY <3>1
      <4> QED
        BY <4>1, <4>2 DEF Settled, PositiveOf, WrittenMinus, AloneMinus, Taken
    <3> QED
      BY <1>6, <3>1 DEF AllSettled
  <2>3. WinnerLeft
    <3>1. \A p \in Path : \A r \in Listing(p) : r <= r
      BY <1>1, Numbers DEF Listing, Reader
    <3> QED
      BY <1>6, <3>1 DEF WinnerLeft
  <2> QED
    BY <2>1, <2>2, <2>3 DEF Base
<1>8. Together
  BY <1>6 DEF Together
<1> QED
  BY <1>3, <1>4, <1>5, <1>7, <1>8 DEF RInv, LoopInv, EndInv, Round, HasCand, Ended

LEMMA RoundStep == IInv /\ RInv /\ [Next]_vars => RInv'
<1> SUFFICES ASSUME IInv, RInv, [Next]_vars PROVE RInv'
  OBVIOUS
<1>0. Types /\ LoopInv /\ EndInv
  BY DEF IInv, RInv
<1>1. CASE Merge
  <2>1. MergeNext /\ CkAt("idle")
    BY <1>0, <1>1, MergeTypes DEF Merge
  <2>2. lm.pc \notin {"flush", "done"} => tran = was.tran
    BY <2>1 DEF IInv, MInv, Others
  <2>3. LoopInv' /\ EndInv'
    <3>1. CASE Begin
      <4>1. LoopInv' /\ ~Ended'
        BY <1>0, <3>1, BeginRound
      <4> QED
        BY <4>1 DEF EndInv
    <3>2. CASE Select
      BY <1>0, <2>2, <3>2, SelectRound DEF Select, At
    <3>3. CASE Compare
      BY <1>0, <2>2, <3>3, CompareRound DEF Compare, At
    <3>4. CASE Decide
      BY <1>0, <3>4, DecideRound
    <3>5. CASE Place
      BY <1>0, <3>5, PlaceRound
    <3>6. CASE Output \/ Skip
      BY <1>0, <2>2, <3>6, WriteRound DEF Output, Skip, At
    <3>7. CASE RemoveDirs \/ RenameFiles \/ RenameTran \/ Flush \/ Crash \/ Fails \/ Killed
      BY <1>0, <3>7, AfterLoop
    <3> QED
      BY <2>1, <3>1, <3>2, <3>3, <3>4, <3>5, <3>6, <3>7 DEF MergeNext, MergeStep
  <2> QED
    BY <2>3 DEF RInv
<1>2. CASE Cksum
  <2>1. lm.pc \in {"off", "done"} /\ UNCHANGED mergeOwn
    BY <1>2 DEF Cksum, Called
  <2>2. EndInv'
    BY <1>0, <2>1, EndKept DEF mergeOwn, Ended
  <2> QED
    BY <2>1, <2>2 DEF RInv, LoopInv, Loop, mergeOwn
<1>3. CASE UNCHANGED vars
  <2>1. UNCHANGED <<opt, was, rd, lm, tran, out, exit>>
    BY <1>3 DEF vars, repository, mergeOwn
  <2>2. EndInv'
    BY <1>0, <2>1, EndKept DEF Ended
  <2>3. LoopInv'
    <3>1. (EarlierDone => EarlierDone') /\ (SeenSoFar => SeenSoFar') /\ (InOrder' => InOrder)
      BY <2>1, NothingRead, WasKept DEF EarlierDone, Eof
    <3>2. InOrder /\ Round => Round'
      <4> SUFFICES ASSUME Round PROVE Round'
        OBVIOUS
      <4>1. Base' /\ Cand' = Cand /\ (HasCand' <=> HasCand)
        BY <2>1, NothingRead DEF Round, Cand, Cur, HasCand
      <4>2. Together'
        BY <2>1, <4>1, NothingRead, WasKept DEF Round, Together
      <4>3. ASSUME HasCand PROVE CandLow' /\ Stage' /\ Matches' /\ Located'
        <5>0. Cand.path \in Path /\ 2 \in Reader
          BY <1>0, <4>3, CandTyped, LineTyped, Numbers DEF Reader
        <5>1. CandLow /\ Stage /\ Matches /\ Located
          BY <4>3 DEF Round
        <5>2. CandLow'
          BY <2>1, <4>1, <5>1, NothingRead DEF CandLow
        <5>3. Clash' <=> Clash
          BY <2>1, <4>1, <5>0, NothingRead, WasKept DEF Clash
        <5>4. Stage'
          BY <2>1, <4>1, <5>1, <5>3 DEF Stage, Hidden
        <5>5. Matches' /\ Located'
          BY <2>1, <4>1, <5>0, <5>1, WasKept DEF Matches, Located
        <5> QED
          BY <5>2, <5>4, <5>5
      <4> QED
        BY <4>1, <4>2, <4>3 DEF Round
    <3> QED
      BY <1>0, <2>1, <3>1, <3>2 DEF LoopInv
  <2> QED
    BY <2>2, <2>3 DEF RInv
<1> QED
  BY <1>1, <1>2, <1>3 DEF Next

LEMMA RoundInvariance == Spec => [](IInv /\ RInv)
<1>1. IInv /\ RInv /\ [Next]_vars => (IInv /\ RInv)'
  BY StepKeeps, RoundStep
<1> QED
  BY <1>1, InitKeeps, InitRound, PTL DEF Spec

LEMMA ListedOnce ==
  ASSUME Types, NEW p \in Path
  PROVE  Cardinality(Listing(p)) = 1 <=> \E r \in Reader : Listing(p) = {r}
<1>1. Listing(p) \subseteq Reader /\ Reader \subseteq 1..NTran /\ NTran \in Nat
  BY Numbers DEF Listing
<1>2. IsFiniteSet(1..NTran)
  BY <1>1, FS_Interval
<1>3. IsFiniteSet(Listing(p))
  BY <1>1, <1>2, FS_Subset
<1>4. Cardinality(Listing(p)) = 1 <=> \E r : Listing(p) = {r}
  BY <1>3, FS_Singleton
<1> QED
  BY <1>1, <1>4

(* One of the transcripts that list a path has the highest precedence       *)
LEMMA WinnerListed ==
  ASSUME Types, NEW p \in Path, Listing(p) # {}
  PROVE  Winner(p) \in Listing(p)
<1>1. Listing(p) \subseteq Nat
  BY Numbers DEF Listing
<1> QED
  BY <1>1, LeastNat, WinnerIs

(* A path that is not unlike in two transcripts of -n: the line of the      *)
(* highest precedence decides                                               *)
LEMMA LikeDecides ==
  ASSUME Types, NEW p \in Path, ~Unlike(p)
  PROVE  /\ ~Mismatched(p)
         /\ Deciding(p) = { l \in { LineOf(r, p) : r \in Listing(p) } : l = LineOf(Winner(p), p) }
<1> DEFINE lines == { LineOf(r, p) : r \in Listing(p) }
<1>1. ~Mismatched(p)
  <2> SUFFICES ASSUME Mismatched(p) PROVE FALSE
    OBVIOUS
  <2>1. 1 \in Listing(p) /\ opt.noupload /\ LineOf(2, p).type # "f"
    BY DEF Mismatched
  <2> QED
    BY <2>1 DEF Unlike
<1>2. ASSUME Listing(p) = {} PROVE Deciding(p) = {} /\ lines = {}
  BY <1>2 DEF Deciding
<1>3. ASSUME Listing(p) # {} PROVE Deciding(p) = {LineOf(Winner(p), p)} /\ LineOf(Winner(p), p) \in lines
  <2>1. LineOf(Winner(p), p) \in lines
    BY <1>3, WinnerListed
  <2>2. CASE ~opt.noupload
    BY <1>3, <2>1, <2>2 DEF Deciding
  <2>3. CASE opt.noupload /\ 1 \notin Listing(p)
    <3>1. Listing(p) \subseteq {1, 2}
      <4>1. opt.n = 2
        BY <2>3, Numbers
      <4> QED
        BY <4>1 DEF Listing, Reader
    <3>2. Winner(p) = 2
      BY <1>3, <2>3, <3>1, WinnerListed
    <3> QED
      BY <1>3, <2>1, <2>3, <3>2 DEF Deciding, Uploaded
  <2>4. CASE opt.noupload /\ 1 \in Listing(p)
    <3>1. /\ Listing(p) = {1, 2} /\ LineOf(1, p).type = "f"
          /\ LineOf(1, p).data = LineOf(2, p).data
      BY <2>4 DEF Unlike
    <3>2. Winner(p) = 1
      BY <3>1, WinnerIs
    <3>3. Listing(p) # {1} /\ 1 \in Listing(p)
      BY <3>1
    <3>4. Uploaded(p) = {LineOf(1, p)}
      BY <3>1, <3>3 DEF Uploaded
    <3> QED
      BY <1>3, <2>1, <2>4, <3>2, <3>4 DEF Deciding
  <2> QED
    BY <2>2, <2>3, <2>4
<1> QED
  BY <1>1, <1>2, <1>3

(* lmerge exits with 0 only if the new transcript has, in order, the lines  *)
(* without a minus that lmerge(1) promises and no others; the minus lines   *)
(* are those that the comment in the code promises (the manual has none),   *)
(* and no line out of order has gone unnoticed, except after one that a     *)
(* transcript of higher precedence lists, too                               *)
THEOREM MergesWhole == Spec => []MergeExact
<1>1. ASSUME IInv, RInv, exit = "0"
      PROVE  Types /\ Whole /\ OrderWhole
  BY <1>1 DEF IInv, RInv, EndInv, Ended
<1>2. IInv /\ RInv => PositiveExact
  <2> SUFFICES ASSUME IInv, RInv, exit = "0", InOrder PROVE PositiveExact
    BY DEF PositiveExact
  <2> DEFINE lines(p)   == { LineOf(r, p) : r \in Listing(p) }
             written(p) == { out[k] : k \in { m \in DOMAIN out : out[m].path = p /\ ~out[m].minus } }
  <2>1. Types /\ Sorted(out) /\ \A p \in Path : PositiveOf(p) /\ Taken(p)
    BY <1>1 DEF Whole, Settled
  <2>2. ASSUME NEW p \in Path PROVE written(p) \subseteq lines(p)
    BY <2>1 DEF Taken
  <2>3. ASSUME NEW p \in Path, ~Unlike(p)
        PROVE  written(p) = { l \in lines(p) : l = LineOf(Winner(p), p) /\ ~l.minus }
    <3>1. written(p) = { l \in Deciding(p) : ~l.minus }
      BY <2>1, <2>3, LikeDecides DEF PositiveOf
    <3>2. Deciding(p) = { l \in lines(p) : l = LineOf(Winner(p), p) }
      BY <2>1, <2>3, LikeDecides
    <3> QED
      BY <3>1, <3>2
  <2> QED
    BY <2>1, <2>2, <2>3 DEF PositiveExact
<1>3. IInv /\ RInv => OrderChecked
  BY <1>1 DEF OrderChecked, OrderWhole
<1>4. IInv /\ RInv => MinusRecreated
  <2> SUFFICES ASSUME IInv, RInv, exit = "0", InOrder PROVE MinusRecreated
    BY DEF MinusRecreated
  <2> DEFINE written == { out[k] : k \in { m \in DOMAIN out : out[m].minus } }
             alone   == { l \in UNION { {LineOf(Winner(p), p)} : p \in { q \in Path : Cardinality(Listing(q)) = 1 } } :
                            l.minus }
             winning == { l \in UNION { {LineOf(Winner(p), p)} : p \in { q \in Path : Listing(q) # {} } } :
                            l.minus }
  <2>1. Types /\ \A p \in Path : WrittenMinus(p) /\ AloneMinus(p)
    BY <1>1 DEF Whole, Settled
  <2>2. ASSUME NEW l \in written
        PROVE  \E p \in Path : l.path = p /\ l.minus /\ \E k \in DOMAIN out : out[k] = l
    <3>1. PICK k \in DOMAIN out : l = out[k] /\ out[k].minus
      BY <2>2
    <3>2. out[k] \in Line
      BY <2>1, MergeParts
    <3> QED
      BY <3>1, <3>2, LineTyped
  <2>3. ASSUME NEW l \in alone
        PROVE  \E p \in Path : \E r \in Reader :
                 Listing(p) = {r} /\ Winner(p) = r /\ l = LineOf(r, p) /\ l.minus /\ l.path = p
    <3>1. PICK p \in Path : Cardinality(Listing(p)) = 1 /\ l = LineOf(Winner(p), p) /\ l.minus
      BY <2>3
    <3>2. PICK r \in Reader : Listing(p) = {r}
      BY <2>1, <3>1, ListedOnce
    <3>3. Winner(p) = r
      BY <2>1, <3>2, WinnerIs, Numbers DEF Reader
    <3>4. l.path = p
      BY <2>1, <3>1, <3>2, <3>3, LineOfTyped
    <3> QED
      BY <3>1, <3>2, <3>3, <3>4
  <2>4. ASSUME opt.n = 2, ~opt.noupload PROVE written = alone
    <3>1. ASSUME NEW l \in written PROVE l \in alone
      <4>1. PICK p \in Path : l.path = p /\ l.minus /\ \E k \in DOMAIN out : out[k] = l
        BY <2>2, <3>1
      <4>2. Listing(p) = {Winner(p)} /\ l = LineOf(Winner(p), p)
        BY <2>1, <2>4, <4>1 DEF WrittenMinus
      <4>3. Winner(p) \in Reader
        BY <4>2 DEF Listing
      <4>4. Cardinality(Listing(p)) = 1
        BY <2>1, <4>2, <4>3, ListedOnce
      <4> QED
        BY <4>1, <4>2, <4>4
    <3>2. ASSUME NEW l \in alone PROVE l \in written
      <4>1. PICK p \in Path, r \in Reader : Listing(p) = {r} /\ l = LineOf(r, p) /\ l.minus
        BY <2>3, <3>2
      <4>2. PICK k \in DOMAIN out : out[k] = l
        BY <2>1, <2>4, <4>1 DEF AloneMinus
      <4> QED
        BY <4>1, <4>2
    <3> QED
      BY <3>1, <3>2
  <2>5. ASSUME ~opt.noupload PROVE written \subseteq winning
    <3>1. ASSUME NEW l \in written PROVE l \in winning
      <4>1. PICK p \in Path : l.path = p /\ l.minus /\ \E k \in DOMAIN out : out[k] = l
        BY <2>2, <3>1
      <4>2. Listing(p) # {} /\ l = LineOf(Winner(p), p)
        BY <2>1, <2>5, <4>1 DEF WrittenMinus
      <4> QED
        BY <4>1, <4>2
    <3> QED
      BY <3>1
  <2>6. ASSUME NEW l \in alone, Winner(l.path) = 1 PROVE l \in written
    <3>1. PICK p \in Path, r \in Reader : Listing(p) = {r} /\ Winner(p) = r /\ l = LineOf(r, p) /\ l.minus /\ l.path = p
      BY <2>3, <2>6
    <3>2. PICK k \in DOMAIN out : out[k] = l
      BY <2>1, <2>6, <3>1 DEF AloneMinus
    <3> QED
      BY <3>1, <3>2
  <2> HIDE DEF written, alone, winning
  <2>7. /\ opt.n = 2 /\ ~opt.noupload => written = alone
        /\ written \subseteq winning \/ opt.noupload
        /\ \A l \in alone : Winner(l.path) = 1 => l \in written
    BY <2>4, <2>5, <2>6
  <2> QED
    BY <2>7 DEF MinusRecreated, written, alone, winning
<1> QED
  BY <1>2, <1>3, <1>4, RoundInvariance, PTL DEF MergeExact

-----------------------------------------------------------------------------
(* The files of what lmerge makes, and the directories that -f takes away   *)

(* The file directory of the new transcript                                 *)
Result ==
  IF opt.force THEN files[2] ELSE IF lm.pc \in {"trans", "flush", "done"} THEN files[0] ELSE tmp

Live == lm.pc \notin {"off", "done"} \/ exit = "0"

Listed(p) == \E k \in FileLines(out) : out[k].path = p
Placed(p) ==
  lm.pc = "output" /\ Cand.path = p /\ PositiveFile(Cand) /\ ~(opt.force /\ lm.candidate = 2)

(* -f: what the first transcript does not list is as it was, but for        *)
(* directories that have been made                                          *)
Untouched(p) ==
  opt.force /\ 1 \notin Listing(p) =>
    Result[p] = was.files[2][p] \/ (Result[p] = Folder /\ was.files[2][p] = Nothing)

Supplied(p) ==
  Listed(p) \/ Placed(p) =>
    (opt.force /\ 1 \notin Listing(p)) \/ (Result[p] = was.files[Origin(p)][p] /\ IsFile(Result[p]))

(* -f: a file that is still there, though it may be removed later           *)
Kept(p) ==
  /\ opt.force /\ Result[p] = was.files[2][p]
  /\ Listing(p) = {1, 2} => (lm.pc \in Loop /\ 2 \in Still(p)) \/ LineOf(2, p).type # "f"

NoMore(p) == IsFile(Result[p]) => Listed(p) \/ Placed(p) \/ Kept(p)

FilesSoFar == Live /\ InOrder /\ ~opt.only => \A p \in Path : Untouched(p) /\ Supplied(p) /\ NoMore(p)

(* What is put where it belongs, and from where                             *)
FromCand ==
  /\ HasCand => lm.fileloc = lm.candidate \/ (opt.noupload /\ lm.candidate = 1)
  /\ lm.pc = "place" => Cand.type = "f" /\ ~(opt.force /\ lm.candidate = 2)

(* The directories that have been queued, those below first                 *)
Queueing(p) == Listing(p) = {1, 2} /\ LineOf(1, p).minus /\ LineOf(1, p).type = "d"

InQueue(p) == \E k \in DOMAIN lm.dirlist : lm.dirlist[k] = p

QueueSorted ==
  \A k, m \in DOMAIN lm.dirlist : Queueing(lm.dirlist[k]) /\ (k < m => lm.dirlist[k] > lm.dirlist[m])

JustQueued(p) == lm.pc = "skip" /\ lm.candidate = 1 /\ Cand.path = p

QueueLow ==
  \A k \in DOMAIN lm.dirlist : \A p \in Path :
    1 \in Still(p) => lm.dirlist[k] < p \/ (JustQueued(p) /\ lm.dirlist[k] = p)

QueueFull == \A p \in Path : Queueing(p) => InQueue(p) \/ (1 \in Still(p) /\ ~JustQueued(p))

(* A directory that could not be removed: something else is in it           *)
Left(p) ==
  /\ ~IsFile(files[2][p])
  /\ files[2][p] = Folder => \E q \in Below(p) : files[2][q] # Nothing /\ ~TakenAway(q)

DirsSoFar ==
  opt.force /\ InOrder =>
    /\ lm.pc \in Loop => QueueSorted /\ QueueLow /\ QueueFull
    /\ lm.pc = "dirs" => QueueSorted /\ \A p \in Path : TakenAway(p) => InQueue(p) \/ Left(p)
    /\ lm.pc \in {"trans", "flush"} \/ exit = "0" => \A p \in Path : TakenAway(p) => Left(p)

(* Nothing has failed, and all is written that should be                    *)
WrittenOut ==
  exit = "0" /\ faults = 0 => IF CkAt("idle") THEN tran[Dest] = out ELSE found[Dest] = out

GInv == FilesSoFar /\ FromCand /\ DirsSoFar /\ WrittenOut

(* lcksum finds nothing where there is nothing to be found                  *)
CleanSoFar ==
  (\A t \in Targets : ~Faulty(t) /\ ~Differs(t)) /\ faults = 0 /\ ~CkAt("idle") =>
    /\ ck.err = "0"
    /\ ck.pc \in {"line", "end"} => ck.exitval = 0

-----------------------------------------------------------------------------
(* Steps that leave the files of the result alone                           *)
FilesGood(p) == Untouched(p) /\ Supplied(p) /\ NoMore(p)

LEMMA FilesQuiet ==
  ASSUME Types, FilesSoFar, UNCHANGED <<opt, was, out>>, Result' = Result, Live' => Live,
         \A p \in Path : ~Placed(p) /\ ~Placed(p)',
         InOrder /\ opt.force /\ lm.pc \in Loop =>
           \A p \in Path : Listing(p) = {1, 2} /\ 2 \in Still(p) /\ LineOf(2, p).type = "f" =>
             lm'.pc \in Loop /\ 2 \in Still(p)'
  PROVE  FilesSoFar'
<1> SUFFICES ASSUME Live', InOrder', ~opt'.only, NEW p \in Path
             PROVE  Untouched(p)' /\ Supplied(p)' /\ NoMore(p)'
  BY DEF FilesSoFar
<1>1. /\ opt' = opt /\ InOrder /\ was' = was /\ out' = out
      /\ Untouched(p) /\ Supplied(p) /\ NoMore(p)
  BY WasKept DEF FilesSoFar
<1>2. /\ Listing(p)' = Listing(p) /\ Origin(p)' = Origin(p)
      /\ Listed(p)' <=> Listed(p)
      /\ 2 \in Reader => LineOf(2, p)' = LineOf(2, p)
  BY <1>1, WasKept DEF Origin, Listed, FileLines
<1>3. 2 \in Reader
  BY Numbers DEF Reader
<1>4. Untouched(p)'
  BY <1>1, <1>2 DEF Untouched
<1>5. Supplied(p)'
  BY <1>1, <1>2 DEF Supplied
<1>6. Kept(p) => Kept(p)'
  BY <1>1, <1>2, <1>3 DEF Kept
<1>7. NoMore(p)'
  BY <1>1, <1>2, <1>6 DEF NoMore
<1> QED
  BY <1>4, <1>5, <1>7

LEMMA OverFiles ==
  ASSUME ~Live'
  PROVE  FilesSoFar'
BY DEF FilesSoFar

(* Where the result is                                                      *)
LEMMA ResultIs ==
  ASSUME Types
  PROVE  /\ lm.pc \in Loop \cup {"dirs", "files"} => Result = Target
         /\ lm.pc \notin {"trans", "flush", "done"} => Result = IF opt.force THEN files[2] ELSE tmp
         /\ lm.pc \in {"trans", "flush", "done"} => Result = IF opt.force THEN files[2] ELSE files[0]
         /\ Result \in FileDir
<1>1. files \in [Tran -> FileDir] /\ tmp \in FileDir
  BY MergeParts
<1>2. 0 \in Tran /\ 2 \in Tran
  <2>1. NTran \in Nat /\ opt.n \in 2..NTran
    BY Numbers
  <2> QED
    BY <2>1 DEF Tran
<1>3. files[0] \in FileDir /\ files[2] \in FileDir
  BY <1>1, <1>2
<1> QED
  BY <1>1, <1>3 DEF Result, Target, Loop

LEMMA ResultKept ==
  ASSUME UNCHANGED <<opt, files, tmp>>,
         lm.pc \in {"trans", "flush", "done"} <=> lm'.pc \in {"trans", "flush", "done"}
  PROVE  Result' = Result
BY DEF Result

LEMMA NotPlaced ==
  ASSUME lm.pc # "output"
  PROVE  \A p : ~Placed(p)
BY DEF Placed

(* lmerge reads and decides                                                 *)
LEMMA BeginFiles ==
  ASSUME Types, FilesSoFar, Begin
  PROVE  FilesSoFar'
<1>1. /\ lm.pc = "begin" /\ lm'.pc = "select" /\ UNCHANGED <<tran, files, opt, was, rd, tmp, out, exit>>
  BY GotoTyped DEF Begin, At, Goto, repository
<1>2. Result' = Result
  BY <1>1, ResultKept
<1>3. \A p \in Path : ~Placed(p) /\ ~Placed(p)'
  BY <1>1 DEF Placed
<1>4. \A p \in Path : Still(p)' = Still(p)
  BY <1>1, NothingRead
<1>5. lm'.pc \in Loop /\ (Live' => Live)
  BY <1>1 DEF Loop, Live
<1> QED
  BY <1>1, <1>2, <1>3, <1>4, <1>5, FilesQuiet

LEMMA SelectFiles ==
  ASSUME Types, tran = was.tran, LoopInv, FilesSoFar, Select
  PROVE  FilesSoFar'
<1>1. /\ lm.pc = "select" /\ UNCHANGED <<tran, files, opt, was, rd, tmp, out, exit>> /\ lm \in MergeState
  BY MergeParts DEF Select, At, repository
<1>2. \/ lm.i > opt.n /\ lm' = [lm EXCEPT !.pc = IF opt.force THEN "dirs" ELSE "files"]
      \/ lm' = [lm EXCEPT !.i = @ + 1]
      \/ \E b \in BOOLEAN :
           /\ b => opt.force /\ lm.i = opt.n
           /\ lm' = [lm EXCEPT !.candidate = lm.i, !.fileloc = lm.i, !.match = b,
                               !.pc = IF b THEN "output" ELSE "compare", !.j = lm.i + 1]
  BY DEF Select
<1>3. /\ lm'.pc \in {"select", "compare", "output", "dirs", "files"}
      /\ lm'.pc = "output" => opt.force /\ lm'.candidate = opt.n
      /\ lm'.pc \in {"dirs", "files"} => lm.i > opt.n /\ (opt.force => lm'.pc = "dirs")
  BY <1>1, <1>2 DEF MergeState
<1>4. Result' = Result
  BY <1>1, <1>3, ResultKept
<1>5. \A p \in Path : ~Placed(p) /\ ~Placed(p)'
  BY <1>1, <1>3, Numbers DEF Placed
<1>6. \A p \in Path : Still(p)' = Still(p)
  BY <1>1, NothingRead
<1>7. ASSUME InOrder, opt.force, NEW p \in Path, 2 \in Still(p) PROVE lm'.pc \in Loop
  <2>1. SUFFICES ASSUME lm.i > opt.n PROVE FALSE
    BY <1>3 DEF Loop
  <2>2. 2 \in Reader /\ 2 < lm.i
    BY <1>7, <2>1, Numbers, PcTyped DEF Reader
  <2>3. Eof(2)
    BY <1>1, <2>2 DEF LoopInv, EarlierDone, Loop
  <2> QED
    BY <1>7, <2>2, <2>3, Heads
<1>8. Live' => Live
  BY <1>1 DEF Live
<1> QED
  BY <1>1, <1>4, <1>5, <1>6, <1>7, <1>8, FilesQuiet

LEMMA DecideFiles ==
  ASSUME Types, FilesSoFar, Decide
  PROVE  FilesSoFar'
<1>1. /\ lm.pc = "compare" /\ UNCHANGED <<tran, files, opt, was, rd, tmp, out, exit>> /\ lm \in MergeState
      /\ HasCand
  BY MergeParts DEF Decide, At, repository, HasCand
<1>2. /\ lm'.pc \in {"output", "skip", "place"} /\ lm'.candidate = lm.candidate
      /\ lm'.pc = "output" => (opt.force /\ lm.candidate = 2) \/ Cand.type # "f" \/ opt.only
  <2>1. CASE opt.force /\ lm.candidate = 2
    BY <1>1, <2>1 DEF Decide, MergeState
  <2>2. CASE ~(opt.force /\ lm.candidate = 2) /\ Hidden
    <3>1. lm' = [lm EXCEPT !.pc = "skip",
                   !.dirlist = IF lm.match /\ opt.force /\ Cand.type = "d" THEN Queued ELSE @]
      BY <2>2 DEF Decide
    <3> QED
      BY <1>1, <3>1 DEF MergeState
  <2>3. CASE ~(opt.force /\ lm.candidate = 2) /\ ~Hidden
    <3>1. lm' = [lm EXCEPT !.pc = IF Cand.type # "f" \/ opt.only THEN "output" ELSE "place"]
      BY <2>3 DEF Decide
    <3> QED
      BY <1>1, <3>1 DEF MergeState
  <2> QED
    BY <2>1, <2>2, <2>3
<1>3. Cand' = Cand
  BY <1>1, <1>2 DEF Cand, Cur
<1>4. CASE opt.only
  BY <1>1, <1>4 DEF FilesSoFar
<1>5. CASE ~opt.only
  <2>1. \A p \in Path : ~Placed(p) /\ ~Placed(p)'
    BY <1>1, <1>2, <1>3, <1>5 DEF Placed, PositiveFile
  <2>2. Result' = Result
    BY <1>1, <1>2, ResultKept
  <2>3. \A p \in Path : Still(p)' = Still(p)
    BY <1>1, NothingRead
  <2>4. lm'.pc \in Loop /\ (Live' => Live)
    BY <1>1, <1>2 DEF Loop, Live
  <2> QED
    BY <1>1, <2>1, <2>2, <2>3, <2>4, FilesQuiet
<1> QED
  BY <1>4, <1>5, Numbers

(* What a turn of the inner loop may do                                     *)
Stays ==
  /\ lm'.pc \in {"compare", "skip"} /\ (lm'.pc = "skip" => opt.noupload)
  /\ UNCHANGED <<files, rd, exit>>
  /\ lm'.fileloc = lm'.candidate \/ (lm'.candidate = lm.candidate /\ lm'.fileloc = lm.fileloc)

Takes ==
  /\ lm'.pc = "compare" /\ rd' = Advanced(lm.j) /\ exit' = exit
  /\ ~Eof(lm.j) /\ Cand.path = Cur(lm.j).path
  /\ lm'.candidate = lm.candidate
  /\ lm'.fileloc = lm.fileloc \/ opt.noupload
  /\ IF opt.force /\ Cur(lm.j).type = "f" THEN RemoveFile(lm.j) ELSE files' = files

LEMMA CompareWays ==
  ASSUME Types, Compare
  PROVE  (lm'.pc = "done" /\ exit' = "2") \/ (lm'.dirlist = lm.dirlist /\ (Stays \/ Takes))
<1>1. lm.j \in Reader /\ lm \in MergeState /\ lm.pc = "compare"
  BY Comparing
<1>2. CASE ~Eof(lm.j) /\ Cand.path = Cur(lm.j).path /\ Match(lm.j)
  <2> DEFINE fileCase == opt.noupload /\ Cand.type = "f"
             next == [[lm EXCEPT !.match = TRUE, !.fileloc = IF fileCase THEN lm.j ELSE @] EXCEPT !.j = lm.j + 1]
  <2>1. \/ /\ fileCase /\ lm' = [lm EXCEPT !.match = TRUE, !.pc = "skip"]
           /\ UNCHANGED <<files, rd, exit>>
        \/ Stop("2")
        \/ /\ opt.force /\ Cur(lm.j).type = "f" /\ RemoveFile(lm.j)
           /\ rd' = Advanced(lm.j) /\ exit' = exit /\ lm' = next
        \/ /\ ~(opt.force /\ Cur(lm.j).type = "f") /\ files' = files
           /\ rd' = Advanced(lm.j) /\ exit' = exit /\ lm' = next
    BY <1>2 DEF Match
  <2>2. /\ next.pc = "compare" /\ next.candidate = lm.candidate /\ next.dirlist = lm.dirlist
        /\ next.fileloc = lm.fileloc \/ opt.noupload
    BY <1>1 DEF MergeState
  <2> HIDE DEF next
  <2>3. CASE fileCase /\ lm' = [lm EXCEPT !.match = TRUE, !.pc = "skip"] /\ UNCHANGED <<files, rd, exit>>
    BY <1>1, <2>3 DEF Stays, MergeState
  <2>4. CASE Stop("2")
    BY <1>1, <2>4 DEF Stop, MergeState
  <2>5. CASE /\ opt.force /\ Cur(lm.j).type = "f" /\ RemoveFile(lm.j)
             /\ rd' = Advanced(lm.j) /\ exit' = exit /\ lm' = next
    BY <1>2, <2>2, <2>5 DEF Takes
  <2>6. CASE /\ ~(opt.force /\ Cur(lm.j).type = "f") /\ files' = files
             /\ rd' = Advanced(lm.j) /\ exit' = exit /\ lm' = next
    BY <1>2, <2>2, <2>6 DEF Takes
  <2> QED
    BY <2>1, <2>3, <2>4, <2>5, <2>6
<1>3. CASE Change(lm.j) /\ UNCHANGED <<files, rd, exit>>
  BY <1>1, <1>3 DEF Change, Stays, MergeState
<1>4. CASE lm' = [lm EXCEPT !.j = lm.j + 1] /\ UNCHANGED <<files, rd, exit>>
  BY <1>1, <1>4 DEF Stays, MergeState
<1> QED
  BY <1>2, <1>3, <1>4 DEF Compare

LEMMA CompareFiles ==
  ASSUME Types, tran = was.tran, LoopInv, FilesSoFar, Compare
  PROVE  FilesSoFar'
<1>1. /\ lm.pc = "compare" /\ HasCand /\ lm.j \in Reader /\ exit = "none" /\ lm.candidate \in Nat
      /\ UNCHANGED <<tran, opt, was, out, tmp>>
  BY Comparing DEF Compare
<1>2. CASE lm'.pc = "done" /\ exit' = "2"
  BY <1>2 DEF FilesSoFar, Live
<1>3. ASSUME lm'.pc \in {"compare", "skip"}
      PROVE  /\ \A p \in Path : ~Placed(p) /\ ~Placed(p)'
             /\ (Live' => Live) /\ lm'.pc \in Loop
  BY <1>1, <1>3 DEF Placed, Live, Loop
<1>4. CASE Stays
  <2>1. lm'.pc \in {"compare", "skip"} /\ UNCHANGED <<files, rd>>
    BY <1>4 DEF Stays
  <2>2. Result' = Result
    BY <1>1, <2>1, ResultKept
  <2>3. \A p \in Path : Still(p)' = Still(p)
    BY <1>1, <2>1, NothingRead
  <2> QED
    BY <1>1, <1>3, <2>1, <2>2, <2>3, FilesQuiet
<1>5. CASE Takes /\ InOrder
  <2> DEFINE p0 == Cur(lm.j).path
  <2>1. /\ lm'.pc = "compare" /\ rd' = Advanced(lm.j) /\ ~Eof(lm.j) /\ Cand.path = p0
        /\ lm.j \in Reader /\ p0 \in Path /\ Cur(lm.j) = LineOf(lm.j, p0) /\ lm.j \in Listing(p0)
    BY <1>1, <1>5, Heads DEF Takes
  <2>2. \A p \in Path : Still(p)' = IF p = p0 THEN Still(p) \ {lm.j} ELSE Still(p)
    BY <1>1, <1>5, <2>1, StillAdvanced
  <2>3. CASE ~(opt.force /\ Cur(lm.j).type = "f")
    <3>1. files' = files
      BY <1>5, <2>3 DEF Takes
    <3>2. Result' = Result
      BY <1>1, <2>1, <3>1, ResultKept
    <3>3. opt.force => \A p \in Path : 2 \in Still(p) /\ LineOf(2, p).type = "f" => 2 \in Still(p)'
      BY <2>1, <2>2, <2>3
    <3> QED
      BY <1>1, <1>3, <2>1, <3>2, <3>3, FilesQuiet
  <2>4. CASE opt.force /\ Cur(lm.j).type = "f"
    <3>1. lm.j = 2 /\ lm.candidate = 1 /\ Reader = {1, 2}
      BY <1>1, <2>4, Comparing, Numbers
    <3>2. files' = [files EXCEPT ![2][p0] = Nothing] /\ opt' = opt /\ Result = files[2] /\ Result' = files'[2]
      BY <1>1, <1>5, <2>1, <2>4, <3>1 DEF Takes, RemoveFile, Result
    <3>3. files[2] \in FileDir /\ files \in [Tran -> FileDir] /\ 2 \in Tran
      BY MergeParts, Numbers, <3>1
    <3>4. Result'[p0] = Nothing /\ \A p \in Path : p # p0 => Result'[p] = Result[p]
      BY <2>1, <3>2, <3>3, PutTyped DEF FileDir
    <3>5. 1 \in Still(p0) /\ 1 \in Listing(p0)
      BY <1>1, <1>5, <2>1, <3>1, CandFacts
    <3>6. ~Listed(p0)
      <4>1. BeyondOut /\ p0 \in Nat
        BY <1>1, <1>5, <2>1, <3>5 DEF LoopInv, Loop, Round, Base, Path
      <4>2. \A k \in DOMAIN out : out[k].path < p0
        BY <2>1, <3>5, <4>1 DEF BeyondOut
      <4>3. ASSUME NEW k \in DOMAIN out PROVE out[k].path # p0
        BY <4>1, <4>2, <4>3
      <4> QED
        BY <4>3 DEF Listed, FileLines
    <3> HIDE DEF p0
    <3> SUFFICES ASSUME Live', InOrder', ~opt'.only, NEW p \in Path
                 PROVE  Untouched(p)' /\ Supplied(p)' /\ NoMore(p)'
      BY DEF FilesSoFar
    <3>7. /\ opt' = opt /\ was' = was /\ out' = out /\ Listing(p)' = Listing(p) /\ Origin(p)' = Origin(p)
          /\ Untouched(p) /\ Supplied(p) /\ NoMore(p)
          /\ Listed(p)' <=> Listed(p)
          /\ LineOf(2, p)' = LineOf(2, p)
      BY <1>1, <1>3, <1>5, <2>1, <3>1, WasKept DEF FilesSoFar, Origin, Listed, FileLines
    <3>8. ~Placed(p) /\ ~Placed(p)' /\ lm.pc \in Loop /\ lm'.pc \in Loop
      BY <1>1, <1>3, <2>1 DEF Loop
    <3>9. CASE p = p0
      <4>1. Untouched(p)' /\ Supplied(p)'
        BY <3>5, <3>6, <3>7, <3>8, <3>9 DEF Untouched, Supplied
      <4>2. NoMore(p)'
        BY <3>4, <3>9 DEF NoMore, IsFile
      <4> QED
        BY <4>1, <4>2
    <3>10. CASE p # p0
      <4>1. Result'[p] = Result[p] /\ Still(p)' = Still(p)
        BY <2>2, <3>4, <3>10 DEF p0
      <4>2. Untouched(p)' /\ Supplied(p)'
        BY <3>7, <3>8, <4>1 DEF Untouched, Supplied
      <4>3. Kept(p) => Kept(p)'
        BY <3>7, <3>8, <4>1 DEF Kept
      <4>4. NoMore(p)'
        BY <3>7, <3>8, <4>1, <4>3 DEF NoMore
      <4> QED
        BY <4>2, <4>4
    <3> QED
      BY <3>9, <3>10
  <2> QED
    BY <2>3, <2>4
<1>6. CASE ~InOrder
  BY <1>1, <1>6, WasKept DEF FilesSoFar
<1> QED
  BY <1>2, <1>4, <1>5, <1>6, CompareWays

(* The file that is put in place is the one of the transcript whose line it *)
(* is, or with -n of the second one                                         *)
LEMMA PlacedFrom ==
  ASSUME Types, MInv, CkAt("idle"), LoopInv, FromCand, InOrder, lm.pc = "place"
  PROVE  /\ Source = was.files[Origin(Cand.path)][Cand.path]
         /\ PositiveFile(Cand) /\ ~(opt.force /\ lm.candidate = 2)
         /\ opt.force => 1 \in Listing(Cand.path)
<1>1. HasCand /\ lm.pc \in Loop /\ tran = was.tran
  BY DEF HasCand, Loop, MInv, Others
<1>2. Round /\ Stage
  BY <1>1 DEF LoopInv, Round
<1>3. /\ Cand.type = "f" /\ ~(opt.force /\ lm.candidate = 2) /\ lm.j > opt.n /\ ~Hidden
      /\ lm.fileloc = lm.candidate \/ (opt.noupload /\ lm.candidate = 1)
  BY <1>1, <1>2 DEF FromCand, Stage
<1>4. PositiveFile(Cand)
  BY <1>3 DEF PositiveFile, Hidden
<1>5. /\ lm.candidate \in Reader /\ lm.fileloc \in Reader /\ Reader \subseteq Tran \ {0}
      /\ Reader = 1..opt.n /\ (opt.force \/ opt.noupload => opt.n = 2)
      /\ opt.force => ~opt.noupload
  BY <1>1, CandTyped, Numbers DEF Reader, Legal
<1>6. ASSUME opt.force PROVE lm.candidate = 1 /\ lm.fileloc = 1
  BY <1>3, <1>5, <1>6
<1>7. lm.fileloc \in Tran \ {Dest}
  BY <1>5, <1>6, Numbers
<1>8. Source = was.files[lm.fileloc][Cand.path]
  BY <1>7 DEF Source, MInv, Others
<1>9. lm.fileloc = Origin(Cand.path)
  <2>1. CASE opt.noupload
    <3>1. lm.fileloc = 2
      BY <1>3, <1>5, <2>1 DEF Hidden
    <3> QED
      BY <2>1, <3>1 DEF Origin
  <2>2. CASE ~opt.noupload
    <3>1. Cand.path \in Path /\ lm.candidate \in Listing(Cand.path) /\ lm.candidate \in Still(Cand.path)
      BY <1>1, CandFacts
    <3>2. Still(Cand.path) = {lm.candidate}
      BY <1>1, <1>2, <1>3, LastLeft
    <3>3. \A r \in Listing(Cand.path) : lm.candidate <= r
      BY <1>2, <2>2, <3>1, <3>2 DEF Round, Base, WinnerLeft, Passed1
    <3>4. Winner(Cand.path) = lm.candidate
      BY <3>1, <3>3, WinnerIs
    <3> QED
      BY <1>3, <2>2, <3>4 DEF Origin
  <2> QED
    BY <2>1, <2>2
<1>10. opt.force => 1 \in Listing(Cand.path)
  BY <1>1, <1>6, CandFacts
<1> QED
  BY <1>3, <1>4, <1>8, <1>9, <1>10

LEMMA PlaceFiles ==
  ASSUME Types, MInv, CkAt("idle"), LoopInv, FilesSoFar, FromCand, Place
  PROVE  FilesSoFar'
<1> DEFINE p0 == Cand.path
<1>1. lm.pc = "place" /\ HasCand /\ UNCHANGED <<tran, opt, was, rd, out>> /\ lm \in MergeState
  BY PlaceCases, MergeParts DEF HasCand
<1>2. CASE Stop("2")
  BY <1>1, <1>2 DEF Stop, FilesSoFar, Live, MergeState
<1>3. CASE /\ IsFile(Source) /\ Target[p0] = Nothing /\ InOrder
           /\ SetTarget(PutAs(Source)) /\ lm' = [lm EXCEPT !.pc = "output"] /\ exit' = exit
  <2>1. lm'.pc = "output" /\ lm'.candidate = lm.candidate /\ Cand' = Cand
    BY <1>1, <1>3 DEF MergeState, Cand, Cur
  <2>2. /\ Source = was.files[Origin(p0)][p0] /\ PositiveFile(Cand) /\ ~(opt.force /\ lm.candidate = 2)
        /\ opt.force => 1 \in Listing(p0)
    BY <1>1, <1>3, PlacedFrom
  <2>3. p0 \in Path /\ Source \in Data \cup {Nothing, Folder, Part}
    BY <1>1, SourceTyped
  <2>4. PutAs(Source) \in FileDir
    BY <1>1, <2>3, PutAsTyped
  <2>5. Result = Target /\ Result' = PutAs(Source)
    <3>1. opt.force => files'[2] = PutAs(Source)
      BY <1>3, <2>4, TargetSet
    <3>2. ~opt.force => tmp' = PutAs(Source)
      BY <1>3, <2>4, TargetSet
    <3> QED
      BY <1>1, <2>1, <3>1, <3>2, ResultIs DEF Result, Target
  <2>6. /\ Result'[p0] = Source
        /\ \A q \in Path : q # p0 => Result'[q] \in {Result[q], Folder}
        /\ \A q \in Path : q # p0 /\ Result[q] # Nothing => Result'[q] = Result[q]
    BY <1>1, <2>3, <2>5, PutAsTyped
  <2>7. \A p \in Path : Still(p)' = Still(p)
    BY <1>1, NothingRead
  <2> SUFFICES ASSUME Live', InOrder', ~opt'.only, NEW p \in Path
               PROVE  Untouched(p)' /\ Supplied(p)' /\ NoMore(p)'
    BY DEF FilesSoFar
  <2>8. Live /\ ~Placed(p) /\ lm.pc \in Loop /\ lm'.pc \in Loop /\ 2 \in Reader
    BY <1>1, <2>1, Numbers DEF Live, Placed, Loop, Reader
  <2>9. Placed(p)' <=> p = p0
    BY <1>1, <2>1, <2>2 DEF Placed, PositiveFile
  <2>10. /\ opt' = opt /\ was' = was /\ out' = out /\ Listing(p)' = Listing(p) /\ Origin(p)' = Origin(p)
         /\ Untouched(p) /\ Supplied(p) /\ NoMore(p)
         /\ Listed(p)' <=> Listed(p)
         /\ LineOf(2, p)' = LineOf(2, p)
    BY <1>1, <1>3, <2>8, WasKept DEF FilesSoFar, Origin, Listed, FileLines
  <2> HIDE DEF p0
  <2>11. CASE p = p0
    <3>1. Untouched(p)'
      BY <2>2, <2>10, <2>11 DEF Untouched
    <3>2. Result'[p] = was'.files[Origin(p)'][p] /\ IsFile(Result'[p])
      BY <1>3, <2>2, <2>6, <2>10, <2>11
    <3>3. Supplied(p)'
      BY <3>2 DEF Supplied
    <3>4. NoMore(p)'
      BY <2>9, <2>11 DEF NoMore
    <3> QED
      BY <3>1, <3>3, <3>4
  <2>12. CASE p # p0
    <3>1. Result'[p] = Result[p] \/ (Result[p] = Nothing /\ Result'[p] = Folder)
      BY <2>6, <2>12
    <3>2. Nothing # Folder
      BY DEF Nothing, Folder
    <3>3. Untouched(p)'
      BY <2>10, <3>1, <3>2 DEF Untouched
    <3>4. Supplied(p)'
      BY <2>8, <2>9, <2>10, <2>12, <3>1 DEF Supplied, IsFile
    <3>5. Result'[p] = Result[p] /\ Kept(p) => Kept(p)'
      BY <2>7, <2>8, <2>10 DEF Kept
    <3>6. NoMore(p)'
      BY <2>8, <2>10, <3>1, <3>5 DEF NoMore, IsFile
    <3> QED
      BY <3>3, <3>4, <3>6
  <2> QED
    BY <2>11, <2>12
<1>4. CASE ~InOrder
  BY <1>1, <1>4, WasKept DEF FilesSoFar
<1>5. CASE Stop("2") /\ SetTarget(MkDirs(Target, p0))
  BY <1>2, <1>5
<1> QED
  BY <1>2, <1>3, <1>4, <1>5, PlaceCases

(* With -f, what comes from the second transcript is not in the first       *)
LEMMA SecondAlone ==
  ASSUME Types, tran = was.tran, InOrder, Round, HasCand, opt.force, lm.candidate = 2, lm.j > opt.n
  PROVE  1 \notin Listing(Cand.path)
<1>1. Cand.path \in Path /\ Still(Cand.path) = {2}
  BY CandFacts, LastLeft
<1>2. ~opt.noupload
  BY Numbers DEF Legal
<1>3. \A r \in Listing(Cand.path) : 2 <= r
  BY <1>1, <1>2 DEF Round, Base, WinnerLeft, Passed1
<1> QED
  BY <1>3

LEMMA WriteFiles ==
  ASSUME Types, tran = was.tran, LoopInv, FilesSoFar, Output \/ Skip
  PROVE  FilesSoFar'
<1> DEFINE p0 == Cand.path
<1>1. /\ lm.pc \in {"output", "skip"} /\ HasCand /\ lm.pc \in Loop /\ Next1
      /\ UNCHANGED <<tran, files, opt, was, tmp>>
      /\ out' = out \/ out' = Append(out, Cand)
      /\ lm.pc = "output" => out' = Append(out, Cand)
      /\ lm.pc = "skip" => out' = out \/ Cand.minus
  BY DEF Output, Skip, Again, At, HasCand, Loop, repository
<1>2. EarlierDone /\ SeenSoFar /\ (InOrder => Round)
  BY <1>1 DEF LoopInv
<1>3. /\ rd' = Advanced(lm.candidate)
      /\ (lm'.pc = "done" /\ exit' = "2") \/ lm'.pc = "select"
  BY <1>1, <1>2, ReadOn
<1>4. CASE lm'.pc = "done" /\ exit' = "2"
  BY <1>4 DEF FilesSoFar, Live
<1>5. CASE lm'.pc = "select" /\ InOrder
  <2>1. /\ Cand \in Line /\ p0 \in Path /\ lm.candidate \in Reader /\ ~Eof(lm.candidate)
        /\ out \in Seq(Line) /\ Cand = Cur(lm.candidate)
    BY <1>1, CandTyped, LineTyped, MergeParts DEF Cand
  <2>2. \A p \in Path : Still(p)' = IF p = p0 THEN Still(p) \ {lm.candidate} ELSE Still(p)
    BY <1>1, <1>3, <1>5, <2>1, StillAdvanced
  <2>3. Result' = Result
    BY <1>1, <1>5, ResultKept
  <2>4. \A p \in Path : Listed(p)' <=> Listed(p) \/ (lm.pc = "output" /\ p = p0 /\ PositiveFile(Cand))
    <3>1. CASE out' = out
      BY <1>1, <2>1, <3>1 DEF Listed, FileLines, PositiveFile
    <3>2. CASE out' = Append(out, Cand)
      <4>1. /\ DOMAIN out = 1..Len(out) /\ Len(out) \in Nat
            /\ DOMAIN out' = 1..(Len(out) + 1) /\ out'[Len(out) + 1] = Cand
            /\ \A k \in 1..Len(out) : out'[k] = out[k]
        BY <2>1, <3>2
      <4>2. \A k : k \in DOMAIN out' <=> k \in DOMAIN out \/ k = Len(out) + 1
        BY <4>1
      <4>3. \A p \in Path : Listed(p)' <=> Listed(p) \/ (p = p0 /\ PositiveFile(Cand))
        BY <4>1, <4>2 DEF Listed, FileLines, PositiveFile
      <4>4. lm.pc = "skip" => ~PositiveFile(Cand) \/ out' = out
        BY <1>1 DEF PositiveFile
      <4>5. out' # out
        BY <4>1
      <4> QED
        BY <1>1, <4>3, <4>4, <4>5
    <3> QED
      BY <1>1, <3>1, <3>2
  <2>5. ASSUME opt.force, lm.candidate = 2 PROVE 1 \notin Listing(p0)
    <3>1. Round /\ Stage /\ ~opt.noupload
      BY <1>1, <1>2, <1>5, <2>5, Numbers DEF Round, Legal
    <3>2. lm.j > opt.n
      BY <1>1, <3>1 DEF Stage, Clash
    <3> QED
      BY <1>1, <1>5, <2>5, <3>1, <3>2, SecondAlone
  <2> SUFFICES ASSUME Live', InOrder', ~opt'.only, NEW p \in Path
               PROVE  Untouched(p)' /\ Supplied(p)' /\ NoMore(p)'
    BY DEF FilesSoFar
  <2>6. Live /\ ~Placed(p)' /\ lm'.pc \in Loop /\ 2 \in Reader
    BY <1>1, <1>5, Numbers DEF Live, Placed, Loop, Reader
  <2>7. /\ opt' = opt /\ was' = was /\ Listing(p)' = Listing(p) /\ Origin(p)' = Origin(p)
        /\ Untouched(p) /\ Supplied(p) /\ NoMore(p)
        /\ LineOf(2, p)' = LineOf(2, p)
    BY <1>1, <1>5, <2>6, WasKept DEF FilesSoFar, Origin
  <2>8. Placed(p) <=> lm.pc = "output" /\ p = p0 /\ PositiveFile(Cand) /\ ~(opt.force /\ lm.candidate = 2)
    BY DEF Placed
  <2> HIDE DEF p0
  <2>9. Untouched(p)'
    BY <2>3, <2>7 DEF Untouched
  <2>10. Supplied(p)'
    BY <2>3, <2>4, <2>5, <2>6, <2>7, <2>8 DEF Supplied
  <2>11. Listed(p) \/ Placed(p) => Listed(p)'
    BY <2>4, <2>8
  <2>12. Kept(p) => Kept(p)'
    <3>1. ASSUME opt.force, Listing(p) = {1, 2}, 2 \in Still(p) PROVE 2 \in Still(p)'
      BY <2>2, <2>5, <3>1 DEF p0
    <3> QED
      BY <2>3, <2>6, <2>7, <3>1 DEF Kept
  <2>13. NoMore(p)'
    BY <2>3, <2>7, <2>11, <2>12 DEF NoMore
  <2> QED
    BY <2>9, <2>10, <2>13
<1>6. CASE ~InOrder
  BY <1>1, <1>6, WasKept DEF FilesSoFar
<1> QED
  BY <1>3, <1>4, <1>5, <1>6

LEMMA RemoveDirsFiles ==
  ASSUME Types, MInv, CkAt("idle"), DirsSoFar, FilesSoFar, RemoveDirs
  PROVE  FilesSoFar'
<1> DEFINE p0 == Head(lm.dirlist)
<1>1. /\ lm.pc = "dirs" /\ UNCHANGED <<tran, opt, was, rd, tmp, out>> /\ lm \in MergeState /\ opt.force
      /\ lm.dirlist \in Seq(Path) /\ Dest = 2 /\ files \in [Tran -> FileDir] /\ 2 \in Tran
      /\ exit = "none" /\ 2 \in Reader
  BY MergeParts, PcTyped, Numbers DEF RemoveDirs, At, MInv, Others, Exits, Reader
<1>2. CASE lm'.pc = "done" /\ exit' = "2"
  BY <1>2 DEF FilesSoFar, Live
<1>3. ASSUME lm'.pc \in {"dirs", "trans"}
      PROVE  /\ Live' => Live
             /\ \A p \in Path : ~Placed(p) /\ ~Placed(p)'
             /\ lm.pc \notin Loop
  BY <1>1, <1>3 DEF Live, Placed, Loop
<1>4. CASE lm'.pc \in {"dirs", "trans"} /\ files' = files
  <2>1. Result' = Result
    BY <1>1, <1>4 DEF Result
  <2> QED
    BY <1>1, <1>3, <1>4, <2>1, FilesQuiet
<1>5. CASE /\ lm.dirlist # <<>> /\ lm'.pc = "dirs" /\ Gone(p0) /\ InOrder
           /\ files' = [files EXCEPT ![2][p0] = Nothing]
  <2>1. p0 \in Path /\ 1 \in DOMAIN lm.dirlist /\ p0 = lm.dirlist[1]
    BY <1>1, <1>5
  <2>2. Listing(p0) = {1, 2} /\ files[2][p0] = Folder
    BY <1>1, <1>5, <2>1 DEF DirsSoFar, QueueSorted, Queueing, Gone
  <2>3. Result = files[2] /\ Result' = files'[2] /\ files[2] \in FileDir
    BY <1>1 DEF Result
  <2>4. Result'[p0] = Nothing /\ \A p \in Path : p # p0 => Result'[p] = Result[p]
    BY <1>1, <1>5, <2>1, <2>3, PutTyped DEF FileDir
  <2> HIDE DEF p0
  <2> SUFFICES ASSUME Live', InOrder', ~opt'.only, NEW p \in Path
               PROVE  Untouched(p)' /\ Supplied(p)' /\ NoMore(p)'
    BY DEF FilesSoFar
  <2>5. ~Placed(p) /\ ~Placed(p)' /\ lm.pc \notin Loop /\ Live
    BY <1>3, <1>5
  <2>6. /\ opt' = opt /\ was' = was /\ out' = out /\ Listing(p)' = Listing(p) /\ Origin(p)' = Origin(p)
        /\ Untouched(p) /\ Supplied(p) /\ NoMore(p)
        /\ Listed(p)' <=> Listed(p)
        /\ LineOf(2, p)' = LineOf(2, p)
    BY <1>1, <1>5, <2>5, WasKept DEF FilesSoFar, Origin, Listed, FileLines
  <2>7. CASE p = p0
    <3>1. Result[p] = Folder /\ 1 \in Listing(p)
      BY <2>2, <2>3, <2>7
    <3>2. Untouched(p)' /\ Supplied(p)'
      BY <2>5, <2>6, <3>1 DEF Untouched, Supplied, IsFile
    <3>3. NoMore(p)'
      BY <2>4, <2>7 DEF NoMore, IsFile
    <3> QED
      BY <3>2, <3>3
  <2>8. CASE p # p0
    <3>1. Result'[p] = Result[p]
      BY <2>4, <2>8
    <3>2. Untouched(p)' /\ Supplied(p)'
      BY <2>5, <2>6, <3>1 DEF Untouched, Supplied
    <3>3. Kept(p) => Kept(p)'
      BY <2>5, <2>6, <3>1 DEF Kept
    <3>4. NoMore(p)'
      BY <2>5, <2>6, <3>1, <3>3 DEF NoMore
    <3> QED
      BY <3>2, <3>4
  <2> QED
    BY <2>7, <2>8
<1>6. CASE ~InOrder
  BY <1>1, <1>6, WasKept DEF FilesSoFar
<1>7. \/ lm'.pc = "done" /\ exit' = "2"
      \/ lm'.pc \in {"dirs", "trans"} /\ files' = files
      \/ lm.dirlist # <<>> /\ lm'.pc = "dirs" /\ Gone(p0) /\ files' = [files EXCEPT ![2][p0] = Nothing]
  <2>1. CASE lm.dirlist = <<>>
    BY <1>1, <2>1 DEF RemoveDirs, Goto, MergeState
  <2>2. CASE lm.dirlist # <<>> /\ Stop("2")
    BY <1>1, <2>2 DEF Stop, MergeState
  <2>3. CASE /\ lm.dirlist # <<>> /\ lm' = [lm EXCEPT !.dirlist = Tail(@)]
             /\ files' = IF Gone(p0) THEN [files EXCEPT ![2][p0] = Nothing] ELSE files
    BY <1>1, <2>3 DEF MergeState
  <2> QED
    BY <2>1, <2>2, <2>3 DEF RemoveDirs
<1> QED
  BY <1>2, <1>4, <1>5, <1>6, <1>7

LEMMA AfterFiles ==
  ASSUME Types, MInv, CkAt("idle"), FilesSoFar, RenameFiles \/ RenameTran \/ Flush \/ Crash \/ Fails \/ Killed
  PROVE  FilesSoFar'
<1>1. lm \in MergeState /\ UNCHANGED <<opt, was, out>> /\ files \in [Tran -> FileDir] /\ 0 \in Tran
  BY MergeParts, Numbers DEF RenameFiles, RenameTran, Flush, Crash, Fails, Killed, Tran
<1>2. CASE \E st \in {"2", "crash", "killed"} : Stop(st)
  BY <1>1, <1>2 DEF Stop, FilesSoFar, Live, MergeState
<1>3. ASSUME lm.pc \in {"files", "trans", "flush"}, lm'.pc \in {"trans", "flush", "done"}
      PROVE  /\ \A p \in Path : ~Placed(p) /\ ~Placed(p)'
             /\ lm.pc \notin Loop /\ Live
  BY <1>3 DEF Placed, Loop, Live
<1>4. CASE RenameFiles /\ ~Stop("2")
  <2>1. lm.pc = "files" /\ lm' = [lm EXCEPT !.pc = "trans"] /\ ~opt.force
    BY <1>4 DEF RenameFiles, At, Goto, MInv, Others
  <2>2. lm'.pc = "trans"
    BY <1>1, <2>1 DEF MergeState
  <2>3. CASE opt.only
    BY <1>1, <2>3 DEF FilesSoFar
  <2>4. CASE ~opt.only
    <3>1. files' = [files EXCEPT ![0] = tmp]
      BY <1>4, <2>4 DEF RenameFiles
    <3>2. Result' = Result
      BY <1>1, <2>1, <2>2, <3>1 DEF Result
    <3> QED
      BY <1>1, <1>3, <2>1, <2>2, <3>2, FilesQuiet
  <2> QED
    BY <2>3, <2>4, Numbers
<1>5. CASE RenameTran \/ Flush
  <2>1. lm.pc \in {"trans", "flush"} /\ lm'.pc \in {"flush", "done"} /\ UNCHANGED <<files, tmp>>
    BY <1>1, <1>5 DEF RenameTran, Flush, At, Goto, Stop, MergeState
  <2>2. Result' = Result
    BY <1>1, <2>1, ResultKept
  <2> QED
    BY <1>1, <1>3, <2>1, <2>2, FilesQuiet
<1>6. Crash \/ Fails \/ Killed => \E st \in {"2", "crash", "killed"} : Stop(st)
  BY DEF Crash, Fails, Killed
<1> QED
  BY <1>2, <1>4, <1>5, <1>6

LEMMA FilesStep ==
  ASSUME IInv, RInv, GInv, [Next]_vars
  PROVE  FilesSoFar'
<1>0. Types /\ MInv /\ LoopInv /\ FilesSoFar /\ FromCand /\ DirsSoFar
  BY DEF IInv, RInv, GInv
<1>1. CASE Merge
  <2>1. MergeNext /\ CkAt("idle")
    BY <1>0, <1>1, MergeTypes DEF Merge
  <2>2. lm.pc \notin {"flush", "done"} => tran = was.tran
    BY <1>0, <2>1 DEF MInv, Others
  <2>3. CASE Begin
    BY <1>0, <2>3, BeginFiles
  <2>4. CASE Select
    BY <1>0, <2>2, <2>4, SelectFiles DEF Select, At
  <2>5. CASE Compare
    BY <1>0, <2>2, <2>5, CompareFiles DEF Compare, At
  <2>6. CASE Decide
    BY <1>0, <2>6, DecideFiles
  <2>7. CASE Place
    BY <1>0, <2>1, <2>7, PlaceFiles
  <2>8. CASE Output \/ Skip
    BY <1>0, <2>2, <2>8, WriteFiles DEF Output, Skip, At
  <2>9. CASE RemoveDirs
    BY <1>0, <2>1, <2>9, RemoveDirsFiles
  <2>10. CASE RenameFiles \/ RenameTran \/ Flush \/ Crash \/ Fails \/ Killed
    BY <1>0, <2>1, <2>10, AfterFiles
  <2> QED
    BY <2>1, <2>3, <2>4, <2>5, <2>6, <2>7, <2>8, <2>9, <2>10 DEF MergeNext, MergeStep
<1>2. CASE Cksum \/ UNCHANGED vars
  <2>1. UNCHANGED <<opt, was, rd, lm, tmp, out, exit, files>>
    <3>1. CASE Cksum
      BY <1>0, <3>1, CksumTypes DEF mergeOwn
    <3>2. CASE UNCHANGED vars
      BY <3>2 DEF vars, mergeOwn, repository
    <3> QED
      BY <1>2, <3>1, <3>2
  <2>2. lm.pc \in Loop => CkAt("idle") /\ tran = was.tran /\ tran' = tran
    <3> SUFFICES ASSUME lm.pc \in Loop PROVE CkAt("idle") /\ tran = was.tran /\ tran' = tran
      OBVIOUS
    <3>1. CkAt("idle") /\ tran = was.tran
      BY <1>0, MergeIdle DEF Loop, Merging, MInv, Others
    <3>2. ~Cksum
      BY DEF Cksum, Called, Loop
    <3> QED
      BY <1>2, <3>1, <3>2 DEF vars, repository
  <2>3. Result' = Result /\ (Live' <=> Live)
    BY <2>1 DEF Result, Live
  <2>4. lm.pc \in Loop => Cand' = Cand /\ \A p \in Path : Still(p)' = Still(p)
    BY <2>1, <2>2, NothingRead DEF Cand, Cur
  <2>5. \A p \in Path : (Placed(p)' <=> Placed(p))
    BY <2>1, <2>4 DEF Placed, Loop, PositiveFile
  <2> SUFFICES ASSUME Live', InOrder', ~opt'.only, NEW p \in Path
               PROVE  Untouched(p)' /\ Supplied(p)' /\ NoMore(p)'
    BY DEF FilesSoFar
  <2>6. 2 \in Reader
    BY <1>0, Numbers DEF Reader
  <2>7. /\ opt' = opt /\ was' = was /\ out' = out /\ Listing(p)' = Listing(p) /\ Origin(p)' = Origin(p)
        /\ Untouched(p) /\ Supplied(p) /\ NoMore(p)
        /\ Listed(p)' <=> Listed(p)
        /\ LineOf(2, p)' = LineOf(2, p)
    BY <1>0, <2>1, <2>3, <2>6, WasKept DEF FilesSoFar, Origin, Listed, FileLines
  <2>8. Untouched(p)' /\ Supplied(p)'
    BY <2>3, <2>5, <2>7 DEF Untouched, Supplied
  <2>9. Kept(p) => Kept(p)'
    BY <2>1, <2>3, <2>4, <2>7 DEF Kept
  <2>10. NoMore(p)'
    BY <2>3, <2>5, <2>7, <2>9 DEF NoMore
  <2> QED
    BY <2>8, <2>10
<1> QED
  BY <1>1, <1>2 DEF Next

(* The place that a file is taken from                                      *)
LEMMA FromStep ==
  ASSUME IInv, RInv, FromCand, [Next]_vars
  PROVE  FromCand'
<1>0. Types /\ MInv /\ LoopInv /\ lm \in MergeState
  BY MergeParts DEF IInv, RInv
<1>1. ASSUME lm'.pc \notin {"compare", "place", "output", "skip"} PROVE FromCand'
  BY <1>1 DEF FromCand, HasCand
<1>2. ASSUME lm'.pc \in {"compare", "output", "skip"}, lm'.fileloc = lm'.candidate
      PROVE  FromCand'
  BY <1>2 DEF FromCand
<1>3. ASSUME lm'.pc \in {"compare", "output", "skip"}, HasCand, UNCHANGED opt,
             lm'.fileloc = lm.fileloc, lm'.candidate = lm.candidate
      PROVE  FromCand'
  BY <1>3 DEF FromCand
<1>4. CASE Begin
  BY <1>0, <1>1, <1>4, GotoTyped DEF Begin, Goto
<1>5. CASE Select
  <2>1. \/ lm.i > opt.n /\ lm' = [lm EXCEPT !.pc = IF opt.force THEN "dirs" ELSE "files"]
        \/ lm' = [lm EXCEPT !.i = @ + 1]
        \/ \E b \in BOOLEAN : lm' = [lm EXCEPT !.candidate = lm.i, !.fileloc = lm.i, !.match = b,
                                               !.pc = IF b THEN "output" ELSE "compare", !.j = lm.i + 1]
    BY <1>5 DEF Select
  <2>2. lm.pc = "select"
    BY <1>5 DEF Select, At
  <2>3. CASE \E b \in BOOLEAN : lm' = [lm EXCEPT !.candidate = lm.i, !.fileloc = lm.i, !.match = b,
                                                !.pc = IF b THEN "output" ELSE "compare", !.j = lm.i + 1]
    <3>1. lm'.pc \in {"compare", "output"} /\ lm'.fileloc = lm.i /\ lm'.candidate = lm.i
      BY <1>0, <2>3 DEF MergeState
    <3> QED
      BY <1>2, <3>1
  <2>4. CASE \/ lm.i > opt.n /\ lm' = [lm EXCEPT !.pc = IF opt.force THEN "dirs" ELSE "files"]
             \/ lm' = [lm EXCEPT !.i = @ + 1]
    <3>1. lm'.pc \in {"dirs", "files", "select"}
      BY <1>0, <2>2, <2>4 DEF MergeState
    <3> QED
      BY <1>1, <3>1
  <2> QED
    BY <2>1, <2>3, <2>4
<1>6. CASE Compare
  <2>1. HasCand /\ opt' = opt /\ (opt.noupload => lm.candidate = 1)
    BY <1>0, <1>6, Comparing
  <2>2. CASE Takes
    <3>1. CASE lm'.fileloc = lm.fileloc
      BY <1>3, <2>1, <2>2, <3>1 DEF Takes
    <3>2. CASE opt.noupload
      BY <2>1, <2>2, <3>2 DEF Takes, FromCand
    <3> QED
      BY <2>2, <3>1, <3>2 DEF Takes
  <2>3. CASE Stays
    BY <1>2, <1>3, <2>1, <2>3 DEF Stays
  <2> QED
    BY <1>0, <1>1, <1>6, <2>2, <2>3, CompareWays
<1>7. CASE Decide
  <2>1. HasCand /\ UNCHANGED <<tran, opt, rd>>
    BY <1>7 DEF Decide, HasCand, At, repository
  <2>2. /\ lm'.pc \in {"output", "skip", "place"} /\ lm'.candidate = lm.candidate /\ lm'.fileloc = lm.fileloc
        /\ lm'.pc = "place" => ~(opt.force /\ lm.candidate = 2) /\ Cand.type = "f"
    <3>1. CASE opt.force /\ lm.candidate = 2
      BY <1>0, <1>7, <3>1 DEF Decide, MergeState
    <3>2. CASE ~(opt.force /\ lm.candidate = 2) /\ Hidden
      <4>1. lm' = [lm EXCEPT !.pc = "skip",
                     !.dirlist = IF lm.match /\ opt.force /\ Cand.type = "d" THEN Queued ELSE @]
        BY <1>7, <3>2 DEF Decide
      <4> QED
        BY <1>0, <4>1 DEF MergeState
    <3>3. CASE ~(opt.force /\ lm.candidate = 2) /\ ~Hidden
      <4>1. lm' = [lm EXCEPT !.pc = IF Cand.type # "f" \/ opt.only THEN "output" ELSE "place"]
        BY <1>7, <3>3 DEF Decide
      <4> QED
        BY <1>0, <3>3, <4>1 DEF MergeState
    <3> QED
      BY <3>1, <3>2, <3>3
  <2>3. Cand' = Cand
    BY <2>1, <2>2 DEF Cand, Cur
  <2> QED
    BY <2>1, <2>2, <2>3 DEF FromCand
<1>8. CASE Place
  <2>1. HasCand /\ opt' = opt
    BY <1>0, <1>8, PlaceCases DEF HasCand
  <2>2. CASE Stop("2")
    BY <1>0, <1>1, <2>2 DEF Stop, MergeState
  <2>3. CASE lm' = [lm EXCEPT !.pc = "output"]
    BY <1>0, <1>3, <2>1, <2>3 DEF MergeState
  <2> QED
    BY <1>0, <1>8, <2>2, <2>3, PlaceCases
<1>9. CASE Output \/ Skip
  <2>1. HasCand /\ Next1
    BY <1>9 DEF Output, Skip, HasCand, At
  <2> QED
    BY <1>0, <1>1, <2>1, Next1Cases DEF Stop, MergeState
<1>10. CASE RemoveDirs \/ RenameFiles \/ RenameTran \/ Flush \/ Crash \/ Fails \/ Killed
  <2>1. \/ \E st \in {"0", "2", "crash", "killed"} : Stop(st)
        \/ \E pc \in {"trans", "flush"} : lm' = [lm EXCEPT !.pc = pc]
        \/ lm.pc = "dirs" /\ lm' = [lm EXCEPT !.dirlist = Tail(@)]
    BY <1>10 DEF RemoveDirs, RenameFiles, RenameTran, Flush, Crash, Fails, Killed, Goto, At
  <2> QED
    BY <1>0, <1>1, <2>1 DEF Stop, MergeState
<1>11. CASE Cksum \/ UNCHANGED vars
  <2>1. CASE lm.pc \notin {"compare", "place", "output", "skip"}
    BY <1>0, <1>1, <1>11, <2>1, CksumTypes DEF mergeOwn, vars
  <2>2. CASE lm.pc \in {"compare", "place", "output", "skip"}
    <3>1. ~Cksum
      BY <2>2 DEF Cksum, Called
    <3>2. UNCHANGED <<tran, opt, rd, lm>>
      BY <1>11, <3>1 DEF vars, repository, mergeOwn
    <3>3. Cand' = Cand
      BY <3>2 DEF Cand, Cur
    <3> QED
      BY <2>2, <3>2, <3>3 DEF FromCand, HasCand
  <2> QED
    BY <2>1, <2>2
<1> QED
  BY <1>4, <1>5, <1>6, <1>7, <1>8, <1>9, <1>10, <1>11 DEF Next, Merge, MergeNext, MergeStep

-----------------------------------------------------------------------------
(* The directories that -f removes                                          *)
QueueGood == QueueSorted /\ QueueLow /\ QueueFull

LEMMA QueueingKept ==
  ASSUME Types, UNCHANGED <<opt, was>>, NEW p \in Path
  PROVE  (Queueing(p)' <=> Queueing(p)) /\ (TakenAway(p)' <=> TakenAway(p))
<1>1. 1 \in Reader
  BY Numbers DEF Reader
<1> QED
  BY <1>1, WasKept DEF Queueing, TakenAway

LEMMA QueueTyped ==
  ASSUME Types
  PROVE  /\ lm.dirlist \in Seq(Path) /\ Path \subseteq Nat
         /\ DOMAIN lm.dirlist = 1..Len(lm.dirlist) /\ Len(lm.dirlist) \in Nat
         /\ \A k \in DOMAIN lm.dirlist : lm.dirlist[k] \in Path /\ lm.dirlist[k] \in Nat
<1> DEFINE d == lm.dirlist
<1>1. d \in Seq(Path) /\ Path \subseteq Nat
  BY PcTyped DEF Path
<1> HIDE DEF d
<1>2. DOMAIN d = 1..Len(d) /\ Len(d) \in Nat
  BY <1>1
<1>3. \A k \in DOMAIN d : d[k] \in Path
  BY <1>1
<1> QED
  BY <1>1, <1>2, <1>3 DEF d

LEMMA QueueQuiet ==
  ASSUME Types, UNCHANGED <<opt, was>>, lm'.dirlist = lm.dirlist, lm.pc # "skip", lm'.pc # "skip",
         \A p \in Path : 1 \in Still(p)' <=> 1 \in Still(p), QueueGood
  PROVE  QueueGood'
<1>1. \A k \in DOMAIN lm.dirlist : lm.dirlist[k] \in Path
  BY QueueTyped
<1>2. \A p \in Path : /\ Queueing(p)' <=> Queueing(p)
                      /\ ~JustQueued(p) /\ ~JustQueued(p)'
                      /\ InQueue(p)' <=> InQueue(p)
  BY QueueingKept DEF JustQueued, InQueue
<1>3. QueueSorted'
  BY <1>1, <1>2 DEF QueueGood, QueueSorted
<1>4. QueueLow'
  BY <1>2 DEF QueueGood, QueueLow
<1>5. QueueFull'
  BY <1>2 DEF QueueGood, QueueFull
<1> QED
  BY <1>3, <1>4, <1>5 DEF QueueGood

LEMMA QueueLoop ==
  ASSUME Types, DirsSoFar, UNCHANGED <<opt, was>>, lm.pc \in Loop, lm'.pc \in Loop, exit' # "0",
         opt.force /\ InOrder /\ QueueGood => QueueGood'
  PROVE  DirsSoFar'
<1>1. (opt.force <=> opt'.force) /\ (InOrder <=> InOrder')
  BY WasKept
<1>2. ASSUME opt.force, InOrder PROVE QueueGood'
  BY <1>2 DEF DirsSoFar, QueueGood
<1>3. lm'.pc \notin {"dirs", "trans", "flush"}
  BY DEF Loop
<1> QED
  BY <1>1, <1>2, <1>3 DEF DirsSoFar, QueueGood

LEMMA QueueOver ==
  ASSUME lm'.pc = "done", exit' # "0"
  PROVE  DirsSoFar'
BY DEF DirsSoFar, Loop

(* What is decided about the line of the first transcript: it is queued     *)
(* exactly if it takes a directory of the second away                       *)
LEMMA QueuedWhen ==
  ASSUME Types, tran = was.tran, InOrder, Round, HasCand, lm.pc = "compare", lm.j > opt.n, opt.force,
         lm.candidate = 1, Cand.minus
  PROVE  lm.match /\ Cand.type = "d" <=> Queueing(Cand.path)
<1>1. /\ Cand.path \in Path /\ 1 \in Listing(Cand.path) /\ Cand = LineOf(1, Cand.path)
      /\ 1 \in Still(Cand.path)
  BY CandFacts
<1>2. Still(Cand.path) = {1} /\ opt.n = 2 /\ Reader = {1, 2}
  BY LastLeft, Numbers DEF Reader
<1>3. Listing(Cand.path) \subseteq {1, 2}
  BY <1>2 DEF Listing
<1>4. ASSUME 2 \in Listing(Cand.path) PROVE lm.match
  BY <1>1, <1>2, <1>4 DEF Round, Together
<1>5. ASSUME lm.match PROVE 2 \in Listing(Cand.path)
  <2>1. PICK q \in Listing(Cand.path) : q # 1
    BY <1>5 DEF Round, Matches
  <2> QED
    BY <1>3, <2>1
<1>6. Listing(Cand.path) = {1, 2} <=> lm.match
  BY <1>1, <1>3, <1>4, <1>5
<1> QED
  BY <1>1, <1>6 DEF Queueing

LEMMA DecideQueue ==
  ASSUME Types, tran = was.tran, InOrder, Round, Decide, opt.force, QueueGood
  PROVE  QueueGood'
<1>1. /\ lm.pc = "compare" /\ lm.j > opt.n /\ UNCHANGED <<tran, opt, was, rd, out>> /\ lm \in MergeState /\ HasCand
  BY MergeParts DEF Decide, At, HasCand, repository
<1>2. \A p \in Path : Still(p)' = Still(p)
  BY <1>1, NothingRead
<1>3. CASE lm.candidate = 2
  <2>1. lm' = [lm EXCEPT !.pc = "output"]
    BY <1>3 DEF Decide
  <2> QED
    BY <1>1, <1>2, <2>1, QueueQuiet DEF MergeState
<1>4. CASE lm.candidate # 2 /\ ~Hidden
  <2>1. lm' = [lm EXCEPT !.pc = IF Cand.type # "f" \/ opt.only THEN "output" ELSE "place"]
    BY <1>4 DEF Decide
  <2>2. lm'.dirlist = lm.dirlist /\ lm'.pc # "skip"
    BY <1>1, <2>1 DEF MergeState
  <2> QED
    BY <1>1, <1>2, <2>2, QueueQuiet
<1>5. CASE lm.candidate # 2 /\ Hidden
  <2> DEFINE p0 == Cand.path
             queued == lm.match /\ Cand.type = "d"
  <2>1. lm.candidate = 1 /\ Cand.minus
    BY <1>1, <1>5, CandTyped, Numbers DEF Hidden, Reader, Legal
  <2>2. lm' = [lm EXCEPT !.pc = "skip",
                 !.dirlist = IF lm.match /\ opt.force /\ Cand.type = "d" THEN Queued ELSE @]
    BY <1>5 DEF Decide
  <2>3. lm'.pc = "skip" /\ lm'.candidate = 1 /\ lm'.dirlist = IF queued THEN Queued ELSE lm.dirlist
    BY <1>1, <2>1, <2>2 DEF MergeState
  <2>4. Cand' = Cand /\ p0 \in Path /\ 1 \in Still(p0) /\ \A p \in Path : 1 \in Still(p) => p0 <= p
    BY <1>1, <2>1, <2>3, CandFacts DEF Cand, Cur
  <2>5. queued <=> Queueing(p0)
    BY <1>1, <2>1, QueuedWhen
  <2>6. \A p \in Path : (Queueing(p)' <=> Queueing(p)) /\ ~JustQueued(p) /\ (JustQueued(p)' <=> p = p0)
    BY <1>1, <2>3, <2>4, QueueingKept DEF JustQueued
  <2>7. /\ lm.dirlist \in Seq(Path) /\ Path \subseteq Nat
        /\ DOMAIN lm.dirlist = 1..Len(lm.dirlist) /\ Len(lm.dirlist) \in Nat
        /\ \A k \in DOMAIN lm.dirlist : lm.dirlist[k] \in Path /\ lm.dirlist[k] \in Nat
    BY QueueTyped
  <2>8. \A k \in DOMAIN lm.dirlist : lm.dirlist[k] < p0
    BY <2>4, <2>6 DEF QueueGood, QueueLow
  <2>9. CASE ~queued
    <3>1. lm'.dirlist = lm.dirlist
      BY <2>3, <2>9
    <3>2. QueueSorted'
      BY <2>6, <2>7, <3>1 DEF QueueGood, QueueSorted
    <3>3. QueueLow'
      BY <1>2, <2>6, <3>1 DEF QueueGood, QueueLow
    <3>4. QueueFull'
      BY <1>2, <2>5, <2>6, <2>9, <3>1 DEF QueueGood, QueueFull, InQueue
    <3> QED
      BY <3>2, <3>3, <3>4 DEF QueueGood
  <2>10. CASE queued
    <3> DEFINE d == lm.dirlist
               e == lm'.dirlist
    <3>1. e = <<p0>> \o d
      BY <2>3, <2>10 DEF Queued
    <3>2. /\ DOMAIN e = 1..(Len(d) + 1) /\ e[1] = p0
          /\ \A k \in 1..Len(d) : e[k + 1] = d[k]
          /\ \A k \in DOMAIN e : k = 1 \/ (k - 1 \in DOMAIN d /\ e[k] = d[k - 1])
      BY <2>4, <2>7, <3>1
    <3>3. \A k \in DOMAIN e : k = 1 \/ (k > 1 /\ e[k] < p0)
      BY <2>8, <3>2
    <3>4. \A k, m \in DOMAIN d : Queueing(d[k]) /\ (k < m => d[k] > d[m])
      BY DEF QueueGood, QueueSorted
    <3>5. ASSUME NEW k \in DOMAIN e
          PROVE  e[k] \in Path /\ e[k] \in Nat /\ Queueing(e[k])
      <4>1. CASE k = 1
        <5>1. e[k] = p0 /\ p0 \in Path /\ p0 \in Nat /\ Queueing(p0)
          BY <2>4, <2>5, <2>7, <2>10, <3>2, <4>1
        <5> HIDE DEF p0, e
        <5> QED
          BY <5>1
      <4>2. CASE k - 1 \in DOMAIN d /\ e[k] = d[k - 1]
        <5>1. d[k - 1] \in Path /\ d[k - 1] \in Nat /\ Queueing(d[k - 1])
          BY <2>7, <3>4, <4>2
        <5> HIDE DEF d, e
        <5> QED
          BY <4>2, <5>1
      <4> QED
        BY <3>2, <4>1, <4>2
    <3>6. DOMAIN e \subseteq Nat /\ p0 \in Nat /\ Len(d) \in Nat
      <4>1. Len(d) \in Nat
        BY <2>7
      <4>2. p0 \in Nat
        BY <2>4, <2>7
      <4>3. DOMAIN e = 1..(Len(d) + 1)
        BY <3>2
      <4> HIDE DEF d, e, p0
      <4> QED
        BY <4>1, <4>2, <4>3
    <3>7. ASSUME NEW k \in DOMAIN e, NEW m \in DOMAIN e, k < m PROVE e[k] > e[m]
      <4>1. m - 1 \in DOMAIN d /\ e[m] = d[m - 1] /\ m > 1
        BY <2>7, <3>2, <3>6, <3>7
      <4>2. CASE k = 1
        BY <2>7, <2>8, <3>2, <3>6, <4>1, <4>2
      <4>3. CASE k # 1
        <5>1. k - 1 \in DOMAIN d /\ e[k] = d[k - 1] /\ k - 1 < m - 1
          BY <2>7, <3>2, <3>6, <3>7, <4>3
        <5> QED
          BY <3>4, <4>1, <5>1
      <4> QED
        BY <4>2, <4>3
    <3> HIDE DEF d, e
    <3>8. QueueSorted'
      <4>1. ASSUME NEW k \in DOMAIN lm'.dirlist PROVE Queueing(lm.dirlist[k])'
        <5>1. PICK q \in Path : q = lm'.dirlist[k] /\ Queueing(q)
          BY <3>5, <4>1 DEF e
        <5>2. Queueing(q)'
          BY <2>6, <5>1
        <5> QED
          BY <5>1, <5>2
      <4>2. \A k, m \in DOMAIN lm'.dirlist : k < m => lm'.dirlist[k] > lm'.dirlist[m]
        BY <3>7 DEF e
      <4> QED
        BY <4>1, <4>2 DEF QueueSorted
    <3>9. QueueLow'
      <4>1. ASSUME NEW k \in DOMAIN e, NEW p \in Path, 1 \in Still(p)
            PROVE  e[k] < p \/ (p = p0 /\ e[k] = p)
        <5>1. p0 <= p /\ p \in Nat /\ p0 \in Nat
          BY <2>4, <2>7, <4>1
        <5>2. e[k] = p0 \/ (e[k] < p0 /\ e[k] \in Nat)
          BY <3>2, <3>3, <3>5
        <5> QED
          BY <5>1, <5>2
      <4> QED
        BY <1>2, <2>6, <4>1 DEF QueueLow, e
    <3>10. QueueFull'
      <4>1. ASSUME NEW p \in Path, InQueue(p) PROVE InQueue(p)'
        <5>1. PICK k \in DOMAIN d : d[k] = p
          BY <4>1 DEF InQueue, d
        <5>2. k + 1 \in DOMAIN e /\ e[k + 1] = p
          BY <2>7, <3>2, <5>1 DEF d
        <5> QED
          BY <5>2 DEF InQueue, e
      <4>2. InQueue(p0)'
        <5>1. 1 \in DOMAIN e
          BY <3>2, <3>6
        <5>2. \E k \in DOMAIN e : e[k] = p0
          BY <3>2, <5>1
        <5>3. p0' = p0
          BY <2>4
        <5> QED
          BY <5>2, <5>3 DEF InQueue, e
      <4>3. ASSUME NEW p \in Path, p = p0 PROVE InQueue(p)'
        BY <4>2, <4>3, <2>4
      <4> QED
        BY <1>2, <2>6, <4>1, <4>3 DEF QueueGood, QueueFull
    <3> QED
      BY <3>8, <3>9, <3>10 DEF QueueGood
  <2> QED
    BY <2>9, <2>10
<1> QED
  BY <1>3, <1>4, <1>5

LEMMA WriteQueue ==
  ASSUME Types, tran = was.tran, LoopInv, InOrder, opt.force, Output \/ Skip, lm'.pc = "select", QueueGood
  PROVE  QueueGood'
<1> DEFINE p0 == Cand.path
<1>1. /\ lm.pc \in {"output", "skip"} /\ HasCand /\ lm.pc \in Loop /\ Next1 /\ UNCHANGED <<tran, opt, was>>
      /\ lm \in MergeState
  BY MergeParts DEF Output, Skip, At, HasCand, Loop, repository
<1>2. Round /\ Stage /\ ~opt.noupload /\ Reader = {1, 2}
  BY <1>1, Numbers DEF LoopInv, Round, Reader, Legal
<1>3. rd' = Advanced(lm.candidate) /\ lm' = [lm EXCEPT !.pc = "select"]
  <2>1. ~Stop("2")
    BY <1>1 DEF Stop, MergeState
  <2> QED
    BY <1>1, <2>1, Next1Cases
<1>4. lm'.dirlist = lm.dirlist
  BY <1>1, <1>3 DEF MergeState
<1>5. /\ p0 \in Path /\ lm.candidate \in {1, 2} /\ ~Eof(lm.candidate) /\ Cand = Cur(lm.candidate)
      /\ Cand = LineOf(lm.candidate, p0)
  BY <1>1, <1>2, CandFacts, CandTyped DEF Cand
<1>6. \A p \in Path : Still(p)' = IF p = p0 THEN Still(p) \ {lm.candidate} ELSE Still(p)
  BY <1>1, <1>2, <1>3, <1>5, StillAdvanced
<1>7. lm.pc = "skip" => lm.candidate = 1
  BY <1>2, <1>5 DEF Stage, Clash
<1>8. lm.pc = "output" /\ lm.candidate = 1 => ~Queueing(p0)
  BY <1>2, <1>5 DEF Stage, Hidden, Queueing
<1>9. /\ \A p \in Path : (Queueing(p)' <=> Queueing(p)) /\ ~JustQueued(p)' /\ (InQueue(p)' <=> InQueue(p))
      /\ \A p \in Path : JustQueued(p) <=> lm.pc = "skip" /\ p = p0
  BY <1>1, <1>4, <1>7, QueueingKept DEF JustQueued, InQueue
<1>10. \A k \in DOMAIN lm.dirlist : lm.dirlist[k] \in Path
  BY QueueTyped
<1> HIDE DEF p0
<1>11. QueueSorted'
  BY <1>4, <1>9, <1>10 DEF QueueGood, QueueSorted
<1>12. QueueLow'
  <2>1. ASSUME NEW k \in DOMAIN lm.dirlist, NEW p \in Path, 1 \in Still(p)' PROVE lm.dirlist[k] < p
    <3>1. 1 \in Still(p) /\ ~JustQueued(p)
      BY <1>6, <1>7, <1>9, <2>1
    <3> QED
      BY <2>1, <3>1 DEF QueueGood, QueueLow
  <2> QED
    BY <1>4, <2>1 DEF QueueLow
<1>13. QueueFull'
  <2>1. ASSUME NEW p \in Path, Queueing(p), ~InQueue(p) PROVE 1 \in Still(p)'
    <3>1. 1 \in Still(p) /\ ~JustQueued(p)
      BY <2>1 DEF QueueGood, QueueFull
    <3> QED
      BY <1>1, <1>5, <1>6, <1>8, <1>9, <2>1, <3>1
  <2> QED
    BY <1>9, <2>1 DEF QueueFull
<1> QED
  BY <1>11, <1>12, <1>13 DEF QueueGood

LEMMA SelectQueue ==
  ASSUME Types, tran = was.tran, LoopInv, DirsSoFar, Select
  PROVE  DirsSoFar'
<1>1. /\ lm.pc = "select" /\ UNCHANGED <<tran, files, opt, was, rd, tmp, out, exit>> /\ lm \in MergeState
      /\ exit = "none"
  BY MergeParts DEF Select, At, repository, Exits
<1>2. \/ lm.i > opt.n /\ lm' = [lm EXCEPT !.pc = IF opt.force THEN "dirs" ELSE "files"]
      \/ lm' = [lm EXCEPT !.i = @ + 1]
      \/ \E b \in BOOLEAN :
           lm' = [lm EXCEPT !.candidate = lm.i, !.fileloc = lm.i, !.match = b,
                            !.pc = IF b THEN "output" ELSE "compare", !.j = lm.i + 1]
  BY DEF Select
<1>3. /\ lm'.pc \in {"select", "compare", "output", "dirs", "files"} /\ lm'.dirlist = lm.dirlist
      /\ lm'.pc \in {"dirs", "files"} => lm.i > opt.n /\ (lm'.pc = "dirs" <=> opt.force)
  BY <1>1, <1>2 DEF MergeState
<1>4. \A p \in Path : Still(p)' = Still(p)
  BY <1>1, NothingRead
<1>5. CASE lm'.pc \in {"select", "compare", "output"}
  <2>1. opt.force /\ InOrder /\ QueueGood => QueueGood'
    BY <1>1, <1>3, <1>4, <1>5, QueueQuiet
  <2> QED
    BY <1>1, <1>5, <2>1, QueueLoop DEF Loop
<1>6. CASE lm'.pc \in {"dirs", "files"}
  <2> SUFFICES ASSUME opt'.force, InOrder' PROVE QueueSorted' /\ \A p \in Path : TakenAway(p)' => InQueue(p)'
    BY <1>1, <1>6 DEF DirsSoFar, Loop
  <2>1. opt.force /\ InOrder /\ lm.i > opt.n /\ 1 \in Reader /\ 1 < lm.i
    BY <1>1, <1>3, <1>6, WasKept, Numbers, PcTyped DEF Reader
  <2>2. Eof(1)
    BY <1>1, <2>1 DEF LoopInv, EarlierDone, Loop
  <2>3. \A p \in Path : 1 \notin Still(p)
    BY <2>1, <2>2, Heads
  <2>4. QueueGood
    BY <1>1, <2>1 DEF DirsSoFar, QueueGood, Loop
  <2>5. \A p \in Path : TakenAway(p) => InQueue(p)
    BY <2>3, <2>4 DEF QueueGood, QueueFull, TakenAway, Queueing
  <2>6. QueueGood'
    BY <1>1, <1>3, <1>4, <1>6, <2>4, QueueQuiet
  <2> QED
    BY <1>1, <1>3, <2>5, <2>6, QueueingKept DEF QueueGood, InQueue
<1> QED
  BY <1>3, <1>5, <1>6

LEMMA LoopQueue ==
  ASSUME Types, tran = was.tran, LoopInv, DirsSoFar, Begin \/ Compare \/ Decide \/ Place \/ Output \/ Skip
  PROVE  DirsSoFar'
<1>1. /\ lm.pc \in Loop /\ exit = "none" /\ lm \in MergeState /\ UNCHANGED <<opt, was>>
  BY MergeParts DEF Begin, Compare, Decide, Place, Output, Skip, At, Loop, Exits
<1>2. ASSUME lm'.pc \in Loop, exit' = exit, opt.force /\ InOrder /\ QueueGood => QueueGood'
      PROVE  DirsSoFar'
  BY <1>1, <1>2, QueueLoop
<1>3. CASE lm'.pc = "done" /\ exit' = "2"
  BY <1>3, QueueOver
<1>4. CASE Begin
  <2>1. lm.pc = "begin" /\ lm'.pc = "select" /\ lm'.dirlist = lm.dirlist /\ UNCHANGED <<tran, opt, was, rd, out, exit>>
    BY <1>1, <1>4 DEF Begin, At, Goto, repository, MergeState
  <2>2. \A p \in Path : Still(p)' = Still(p)
    BY <2>1, NothingRead
  <2> QED
    BY <1>2, <2>1, <2>2, QueueQuiet DEF Loop
<1>5. CASE Compare
  <2>1. lm.pc = "compare" /\ lm.j \in Reader /\ (opt.force => lm.j = 2) /\ UNCHANGED <<tran, opt, was, out>>
        /\ (opt.force => ~opt.noupload)
    BY <1>5, Comparing, Numbers DEF Legal
  <2>2. CASE lm'.dirlist = lm.dirlist /\ Stays
    <3>1. lm'.pc \in {"compare", "skip"} /\ (lm'.pc = "skip" => opt.noupload) /\ UNCHANGED <<rd, exit>>
      BY <2>2 DEF Stays
    <3>2. \A p \in Path : Still(p)' = Still(p)
      BY <2>1, <3>1, NothingRead
    <3> QED
      BY <1>2, <2>1, <2>2, <3>1, <3>2, QueueQuiet DEF Loop
  <2>3. CASE lm'.dirlist = lm.dirlist /\ Takes
    <3>1. lm'.pc = "compare" /\ rd' = Advanced(lm.j) /\ ~Eof(lm.j) /\ exit' = exit
      BY <2>3 DEF Takes
    <3>2. InOrder /\ opt.force => \A p \in Path : 1 \in Still(p)' <=> 1 \in Still(p)
      BY <2>1, <3>1, StillAdvanced
    <3> QED
      BY <1>2, <2>1, <2>3, <3>1, <3>2, QueueQuiet DEF Loop
  <2> QED
    BY <1>3, <1>5, <2>2, <2>3, CompareWays
<1>6. CASE Decide
  <2>1. lm'.pc \in {"output", "skip", "place"}
    <3>1. CASE opt.force /\ lm.candidate = 2
      BY <1>1, <1>6, <3>1 DEF Decide, MergeState
    <3>2. CASE ~(opt.force /\ lm.candidate = 2) /\ Hidden
      <4>1. lm' = [lm EXCEPT !.pc = "skip",
                     !.dirlist = IF lm.match /\ opt.force /\ Cand.type = "d" THEN Queued ELSE @]
        BY <1>6, <3>2 DEF Decide
      <4> QED
        BY <1>1, <4>1 DEF MergeState
    <3>3. CASE ~(opt.force /\ lm.candidate = 2) /\ ~Hidden
      <4>1. lm' = [lm EXCEPT !.pc = IF Cand.type # "f" \/ opt.only THEN "output" ELSE "place"]
        BY <1>6, <3>3 DEF Decide
      <4> QED
        BY <1>1, <4>1 DEF MergeState
    <3> QED
      BY <3>1, <3>2, <3>3
  <2>2. InOrder => Round
    BY <1>1 DEF LoopInv
  <2>3. exit' = exit
    BY <1>6 DEF Decide
  <2> QED
    BY <1>2, <1>6, <2>1, <2>2, <2>3, DecideQueue DEF Loop
<1>7. CASE Place
  <2>1. lm.pc = "place" /\ UNCHANGED <<tran, opt, was, rd, out>>
    BY <1>7, PlaceCases
  <2>2. CASE Stop("2")
    BY <1>1, <1>3, <2>2 DEF Stop, MergeState
  <2>3. CASE lm' = [lm EXCEPT !.pc = "output"] /\ exit' = exit
    <3>1. lm'.pc = "output" /\ lm'.dirlist = lm.dirlist
      BY <1>1, <2>3 DEF MergeState
    <3>2. \A p \in Path : Still(p)' = Still(p)
      BY <2>1, NothingRead
    <3> QED
      BY <1>2, <2>1, <2>3, <3>1, <3>2, QueueQuiet DEF Loop
  <2> QED
    BY <1>7, <2>2, <2>3, PlaceCases
<1>8. CASE Output \/ Skip
  <2>1. HasCand /\ Next1
    BY <1>8 DEF Output, Skip, HasCand, At
  <2>2. CASE Stop("2")
    BY <1>1, <1>3, <2>2 DEF Stop, MergeState
  <2>3. CASE lm' = [lm EXCEPT !.pc = "select"] /\ exit' = exit
    <3>1. lm'.pc = "select"
      BY <1>1, <2>3 DEF MergeState
    <3> QED
      BY <1>2, <1>8, <2>3, <3>1, WriteQueue DEF Loop
  <2> QED
    BY <2>1, <2>2, <2>3, Next1Cases
<1> QED
  BY <1>4, <1>5, <1>6, <1>7, <1>8

(* The last directory in the order of paths comes first: what is still in   *)
(* it is no directory that is yet to be removed                             *)
LEMMA TopLeft ==
  ASSUME Types, QueueSorted, lm.dirlist # <<>>, Head(lm.dirlist) \notin Escaped,
         ~IsFile(files[2][Head(lm.dirlist)]), ~Gone(Head(lm.dirlist)),
         \A p \in Path : TakenAway(p) => InQueue(p) \/ Left(p)
  PROVE  Left(Head(lm.dirlist))
<1> DEFINE p0 == Head(lm.dirlist)
<1>1. 1 \in DOMAIN lm.dirlist /\ p0 = lm.dirlist[1] /\ p0 \in Path /\ Path \subseteq Nat
  BY QueueTyped
<1>2. SUFFICES ASSUME files[2][p0] = Folder PROVE \E q \in Below(p0) : files[2][q] # Nothing /\ ~TakenAway(q)
  BY DEF Left
<1>3. PICK q \in Below(p0) : files[2][q] # Nothing
  BY <1>2 DEF Gone
<1>4. /\ q \in Path /\ q > p0 /\ q \in p0..Last[p0] /\ Last[q] <= Last[p0]
      /\ Last[q] \in Nat /\ Last[p0] \in Nat /\ q \in Nat /\ p0 \in Nat
  <2>1. Last[p0] \in Path /\ Last[p0] \in Nat /\ p0 \in Nat /\ Last \in [Path -> Path] /\ NPath \in Nat
    BY <1>1, LoadSetsAssumption
  <2>2. q \in (p0 + 1)..Last[p0]
    BY <1>3 DEF Below
  <2>3. q \in Path /\ q > p0 /\ q \in p0..Last[p0]
    BY <2>1, <2>2 DEF Path
  <2> HIDE DEF p0
  <2> QED
    BY <1>1, <2>1, <2>3, LoadSetsAssumption
<1>5. CASE ~TakenAway(q)
  BY <1>3, <1>5
<1>6. CASE TakenAway(q)
  <2>1. ~InQueue(q)
    <3> SUFFICES ASSUME NEW k \in DOMAIN lm.dirlist, lm.dirlist[k] = q PROVE FALSE
      BY DEF InQueue
    <3>1. k = 1 \/ 1 < k
      BY QueueTyped
    <3>2. k # 1
      BY <1>1, <1>4
    <3>3. lm.dirlist[1] > lm.dirlist[k]
      BY <1>1, <3>1, <3>2 DEF QueueSorted
    <3> QED
      BY <1>1, <1>4, <3>3
  <2>2. Left(q)
    BY <1>4, <1>6, <2>1
  <2>3. files[2][q] = Folder
    BY <1>3, <2>2 DEF Left, IsFile
  <2>4. PICK s \in Below(q) : files[2][s] # Nothing /\ ~TakenAway(s)
    BY <2>2, <2>3 DEF Left
  <2>5. s \in Below(p0)
    <3>1. s \in (q + 1)..Last[q]
      BY <2>4 DEF Below
    <3>2. s \in (p0 + 1)..Last[p0]
      BY <1>4, <3>1
    <3> QED
      BY <3>2 DEF Below
  <2> QED
    BY <2>4, <2>5
<1> QED
  BY <1>5, <1>6

LEMMA BelowPaths == \A p \in Path : Below(p) \subseteq Path
<1>1. \A p \in Path : p \in Nat /\ Last[p] \in 1..NPath /\ NPath \in Nat
  BY LoadSetsAssumption DEF Path
<1> QED
  BY <1>1 DEF Below, Path

LEMMA RemoveQueue ==
  ASSUME Types, MInv, CkAt("idle"), DirsSoFar, RemoveDirs
  PROVE  DirsSoFar'
<1> DEFINE d == lm.dirlist
           p0 == Head(d)
<1>1. /\ lm.pc = "dirs" /\ UNCHANGED <<tran, opt, was, rd, tmp, out>> /\ lm \in MergeState /\ opt.force
      /\ files \in [Tran -> FileDir] /\ 2 \in Tran /\ exit = "none"
  BY MergeParts, Numbers DEF RemoveDirs, At, MInv, Others, Exits, Reader
<1>2. \A p \in Path : (Queueing(p)' <=> Queueing(p)) /\ (TakenAway(p)' <=> TakenAway(p))
  BY <1>1, QueueingKept
<1>3. InOrder' => InOrder /\ QueueSorted /\ \A p \in Path : TakenAway(p) => InQueue(p) \/ Left(p)
  BY <1>1, WasKept DEF DirsSoFar
<1>4. CASE lm.dirlist = <<>>
  <2>1. lm'.pc = "trans" /\ files' = files /\ exit' = exit
    BY <1>1, <1>4 DEF RemoveDirs, Goto, MergeState
  <2>2. \A p \in Path : ~InQueue(p)
    BY <1>4 DEF InQueue
  <2>3. InOrder' => \A p \in Path : TakenAway(p)' => Left(p)
    BY <1>2, <1>3, <2>2
  <2>4. \A p \in Path : Left(p) => Left(p)'
    BY <1>2, <2>1, BelowPaths DEF Left
  <2> QED
    BY <2>1, <2>3, <2>4 DEF DirsSoFar, Loop
<1>5. CASE lm.dirlist # <<>> /\ Stop("2")
  BY <1>1, <1>5, QueueOver DEF Stop, MergeState
<1>6. CASE /\ lm.dirlist # <<>> /\ ~(p0 \notin Escaped /\ (IsFile(files[2][p0]) \/ Blocked(files[2], p0)))
           /\ lm' = [lm EXCEPT !.dirlist = Tail(@)] /\ exit' = exit
           /\ files' = IF Gone(p0) THEN [files EXCEPT ![2][p0] = Nothing] ELSE files
           /\ InOrder'
  <2>0. QueueSorted /\ \A p \in Path : TakenAway(p) => InQueue(p) \/ Left(p)
    BY <1>3, <1>6
  <2>1. lm'.pc = "dirs" /\ lm'.dirlist = Tail(d)
    BY <1>1, <1>6 DEF MergeState
  <2>2. /\ d \in Seq(Path) /\ d # <<>> /\ p0 \in Path /\ p0 = d[1] /\ 1 \in DOMAIN d /\ Len(d) \in Nat
        /\ DOMAIN d = 1..Len(d) /\ \A k \in DOMAIN d : d[k] \in Path
    BY <1>6, QueueTyped
  <2>3. DOMAIN Tail(d) = 1..(Len(d) - 1) /\ \A k \in 1..(Len(d) - 1) : Tail(d)[k] = d[k + 1] /\ k + 1 \in DOMAIN d
    BY <2>2
  <2>4. Queueing(p0)
    BY <2>0, <2>2 DEF QueueSorted
  <2>5. QueueSorted'
    <3>1. \A k \in DOMAIN Tail(d) : Queueing(Tail(d)[k]) /\ Tail(d)[k] \in Path
      BY <2>0, <2>2, <2>3 DEF QueueSorted
    <3>2. ASSUME NEW k \in DOMAIN lm'.dirlist PROVE Queueing(lm.dirlist[k])'
      <4>1. PICK q \in Path : q = lm'.dirlist[k] /\ Queueing(q)
        BY <2>1, <3>1, <3>2
      <4>2. Queueing(q)'
        BY <1>2, <4>1
      <4> QED
        BY <4>1, <4>2
    <3>3. ASSUME NEW k \in DOMAIN Tail(d), NEW m \in DOMAIN Tail(d), k < m PROVE Tail(d)[k] > Tail(d)[m]
      <4>1. k + 1 \in DOMAIN d /\ m + 1 \in DOMAIN d /\ k + 1 < m + 1
        BY <2>2, <2>3, <3>3
      <4>2. d[k + 1] > d[m + 1]
        BY <2>0, <4>1 DEF QueueSorted
      <4> QED
        BY <2>3, <3>3, <4>2
    <3>4. \A k, m \in DOMAIN lm'.dirlist : k < m => lm'.dirlist[k] > lm'.dirlist[m]
      BY <2>1, <3>3
    <3> QED
      BY <3>2, <3>4 DEF QueueSorted
  <2>6. ASSUME NEW p \in Path, InQueue(p), p # p0 PROVE InQueue(p)'
    <3>1. PICK k \in DOMAIN d : d[k] = p
      BY <2>6 DEF InQueue
    <3>2. k # 1 /\ k \in 1..Len(d)
      BY <2>2, <2>6, <3>1
    <3>3. k - 1 \in 1..(Len(d) - 1) /\ (k - 1) + 1 = k
      BY <2>2, <3>2
    <3>4. k - 1 \in DOMAIN Tail(d) /\ Tail(d)[k - 1] = p
      BY <2>3, <3>1, <3>3
    <3> QED
      BY <2>1, <3>4 DEF InQueue
  <2>7. PICK h0 \in Path : h0 = p0
    BY <2>2
  <2>8. /\ Gone(h0) => files'[2][h0] = Nothing
        /\ ~Gone(h0) => files' = files
        /\ \A q \in Path : q # h0 => files'[2][q] = files[2][q]
    BY <1>1, <1>6, <2>7 DEF FileDir
  <2>9. Gone(h0) => TakenAway(h0)
    BY <2>4, <2>7 DEF Gone, TakenAway, Queueing
  <2>10. ASSUME NEW p \in Path, Left(p) PROVE Left(p)'
    <3>1. CASE p = h0 /\ Gone(h0)
      BY <2>8, <3>1 DEF Left, IsFile, Nothing, Folder
    <3>2. CASE ~Gone(h0) \/ p # h0
      <4>1. files'[2][p] = files[2][p]
        BY <2>8, <2>10, <3>2
      <4>2. ASSUME files[2][p] = Folder
            PROVE  \E q \in Below(p) : files'[2][q] # Nothing /\ ~TakenAway(q)'
        <5>1. PICK q \in Below(p) : files[2][q] # Nothing /\ ~TakenAway(q)
          BY <2>10, <4>2 DEF Left
        <5>2. q \in Path
          BY BelowPaths, <2>10, <5>1
        <5>3. files'[2][q] = files[2][q]
          BY <2>8, <2>9, <5>1, <5>2
        <5> QED
          BY <1>2, <5>1, <5>2, <5>3
      <4> QED
        BY <2>10, <4>1, <4>2 DEF Left
    <3> QED
      BY <3>1, <3>2
  <2>11. TakenAway(h0) => Left(h0)'
    <3>1. CASE Gone(h0)
      BY <2>8, <3>1 DEF Left, IsFile, Nothing, Folder
    <3>2. CASE ~Gone(h0) /\ TakenAway(h0)
      <4>1. Left(h0)
        BY <1>6, <2>0, <2>7, <3>2, TopLeft DEF TakenAway
      <4> QED
        BY <2>10, <4>1
    <3> QED
      BY <3>1, <3>2
  <2>12. ASSUME NEW p \in Path, TakenAway(p) PROVE InQueue(p)' \/ Left(p)'
    BY <2>0, <2>6, <2>10, <2>11, <2>12, <2>7
  <2> QED
    BY <1>1, <1>2, <1>6, <2>1, <2>5, <2>12 DEF DirsSoFar, Loop
<1>7. CASE ~InOrder'
  BY <1>7 DEF DirsSoFar
<1> QED
  BY <1>4, <1>5, <1>6, <1>7 DEF RemoveDirs

LEMMA DirsStep ==
  ASSUME IInv, RInv, GInv, [Next]_vars
  PROVE  DirsSoFar'
<1>0. Types /\ MInv /\ LoopInv /\ DirsSoFar /\ lm \in MergeState
  BY MergeParts DEF IInv, RInv, GInv
<1>1. CASE Merge
  <2>1. MergeNext /\ CkAt("idle") /\ UNCHANGED <<opt, was>>
    BY <1>0, <1>1, MergeTypes DEF Merge
  <2>2. lm.pc \notin {"flush", "done"} => tran = was.tran
    BY <1>0, <2>1 DEF MInv, Others
  <2>3. CASE Begin \/ Compare \/ Decide \/ Place \/ Output \/ Skip
    BY <1>0, <2>2, <2>3, LoopQueue DEF Begin, Compare, Decide, Place, Output, Skip, At
  <2>4. CASE Select
    BY <1>0, <2>2, <2>4, SelectQueue DEF Select, At
  <2>5. CASE RemoveDirs
    BY <1>0, <2>1, <2>5, RemoveQueue
  <2>6. CASE RenameFiles
    <3>1. (lm'.pc = "done" /\ exit' # "0") \/ (lm'.pc = "trans" /\ ~opt'.force)
      BY <1>0, <2>1, <2>6 DEF RenameFiles, At, Goto, Stop, MInv, Others, MergeState
    <3> QED
      BY <3>1, QueueOver DEF DirsSoFar
  <2>7. CASE RenameTran \/ Flush
    <3>1. lm.pc \in {"trans", "flush"} /\ lm'.pc \in {"flush", "done"} /\ files' = files
      BY <1>0, <2>7 DEF RenameTran, Flush, At, Goto, Stop, MergeState
    <3>2. opt.force /\ InOrder => \A p \in Path : TakenAway(p) => Left(p)
      BY <1>0, <3>1 DEF DirsSoFar
    <3>3. (InOrder' => InOrder) /\ \A p \in Path : (TakenAway(p)' <=> TakenAway(p)) /\ (Left(p) => Left(p)')
      BY <1>0, <2>1, <3>1, WasKept, QueueingKept, BelowPaths DEF Left
    <3> QED
      BY <2>1, <3>1, <3>2, <3>3 DEF DirsSoFar, Loop
  <2>8. CASE Crash \/ Fails \/ Killed
    BY <1>0, <2>8, QueueOver DEF Crash, Fails, Killed, Stop, MergeState
  <2> QED
    BY <2>1, <2>3, <2>4, <2>5, <2>6, <2>7, <2>8 DEF MergeNext, MergeStep
<1>2. CASE Cksum \/ UNCHANGED vars
  <2>1. UNCHANGED <<opt, was, rd, lm, tmp, out, exit, files>>
    <3>1. CASE Cksum
      BY <1>0, <3>1, CksumTypes DEF mergeOwn
    <3>2. CASE UNCHANGED vars
      BY <3>2 DEF vars, mergeOwn, repository
    <3> QED
      BY <1>2, <3>1, <3>2
  <2>2. /\ InOrder' <=> InOrder
        /\ \A p \in Path : /\ (Queueing(p)' <=> Queueing(p)) /\ (TakenAway(p)' <=> TakenAway(p))
                           /\ (Left(p) => Left(p)') /\ (InQueue(p)' <=> InQueue(p))
    BY <1>0, <2>1, WasKept, QueueingKept, BelowPaths DEF Left, InQueue
  <2>3. QueueSorted => QueueSorted'
    <3>1. \A k \in DOMAIN lm.dirlist : lm.dirlist[k] \in Path
      BY <1>0, QueueTyped
    <3> QED
      BY <2>1, <2>2, <3>1 DEF QueueSorted
  <2>4. lm.pc \in Loop => (QueueLow => QueueLow') /\ (QueueFull => QueueFull')
    <3> SUFFICES ASSUME lm.pc \in Loop PROVE (QueueLow => QueueLow') /\ (QueueFull => QueueFull')
      OBVIOUS
    <3>1. ~Cksum
      BY DEF Cksum, Called, Loop
    <3>2. tran' = tran
      BY <1>2, <3>1 DEF vars, repository
    <3>3. \A p \in Path : Still(p)' = Still(p) /\ (JustQueued(p)' <=> JustQueued(p))
      BY <2>1, <3>2, NothingRead DEF JustQueued, Cand, Cur
    <3> QED
      BY <2>1, <2>2, <3>3 DEF QueueLow, QueueFull
  <2> QED
    BY <1>0, <2>1, <2>2, <2>3, <2>4 DEF DirsSoFar
<1> QED
  BY <1>1, <1>2 DEF Next

(* What has been written is what lcksum finds                               *)
LEMMA WrittenStep ==
  ASSUME IInv, WrittenOut, [Next]_vars
  PROVE  WrittenOut'
<1>0. Types /\ lm \in MergeState /\ tran \in [Tran -> Seq(Line)] /\ Dest \in Tran /\ Exits /\ faults \in Nat
  BY MergeParts, Numbers, LoadSetsAssumption DEF IInv
<1>1. CASE Merge
  <2>1. MergeNext /\ CkAt("idle") /\ CkAt("idle")' /\ UNCHANGED <<opt, was>> /\ exit = "none"
    <3>1. MergeNext /\ CkAt("idle") /\ Merging /\ UNCHANGED <<opt, was, ckOwn>>
      BY <1>0, <1>1, MergeTypes DEF Merge
    <3> QED
      BY <1>0, <3>1 DEF ckOwn, CkAt, Merging, Exits
  <2>2. CASE Flush /\ tran' = [tran EXCEPT ![Dest] = out] /\ faults' = faults
    <3>1. out' = out /\ Dest' = Dest
      BY <2>2 DEF Flush, Dest
    <3> QED
      BY <1>0, <2>1, <2>2, <3>1 DEF WrittenOut
  <2>3. CASE Flush /\ faults' = faults + 1
    BY <1>0, <2>3 DEF WrittenOut
  <2>4. CASE ~Flush
    <3>1. exit' # "0"
      BY <1>0, <2>1, <2>4 DEF MergeNext, MergeStep, Begin, Select, Compare, Match, Crash, Decide, Place, Output, Skip,
        Next1, RemoveDirs, RenameFiles, RenameTran, Fails, Killed, Stop
    <3> QED
      BY <3>1 DEF WrittenOut
  <2> QED
    BY <2>2, <2>3, <2>4 DEF Flush
<1>2. CASE Cksum
  <2>1. UNCHANGED <<opt, was, rd, lm, tmp, out, exit, files>> /\ ~CkAt("idle")' /\ Dest' = Dest
    BY <1>0, <1>2, CksumTypes, CkBusy DEF mergeOwn, CkAt, Dest
  <2>2. CASE CkStart
    <3>1. CkAt("idle") /\ found' = tran /\ faults' = faults
      BY <2>2 DEF CkStart
    <3> QED
      BY <2>1, <3>1 DEF WrittenOut
  <2>3. CASE CkNext
    <3>1. ~CkAt("idle") /\ found' = found /\ (faults' = faults \/ faults' = faults + 1)
      BY <2>3 DEF CkNext, CkStep, CkOpen, CkLine, CkEof, CkTorn, CkEnd, CkFinish, CkFails, CkKilled, CkAt
    <3> QED
      BY <1>0, <2>1, <3>1 DEF WrittenOut
  <2> QED
    BY <1>2, <2>2, <2>3 DEF Cksum
<1>3. CASE UNCHANGED vars
  BY <1>3 DEF WrittenOut, vars, repository, mergeOwn, ckOwn, CkAt, Dest
<1> QED
  BY <1>1, <1>2, <1>3 DEF Next

LEMMA ListedStill ==
  ASSUME Types, tran = was.tran, \A r \in 1..NTran : rd[r].at = 1, NEW p \in Path
  PROVE  Listing(p) \subseteq Still(p)
<1> SUFFICES ASSUME NEW r \in Reader, NEW k \in DOMAIN tran[r], tran[r][k].path = p PROVE r \in Still(p)
  BY DEF Listing
<1>1. r \in 1..NTran /\ DOMAIN tran[r] = 1..Len(tran[r])
  BY Numbers, ReaderTyped
<1>2. k \in Rest(r)
  BY <1>1 DEF Rest
<1> QED
  BY <1>2 DEF Still

LEMMA InitPlaced == Init => GInv
<1> SUFFICES ASSUME Init PROVE GInv
  OBVIOUS
<1>1. PICK b \in Jobs : MergeInit(b) /\ CkIdle(b.ck)
  BY DEF Init
<1>2. Types /\ exit = "none" /\ out = <<>> /\ lm.dirlist = <<>> /\ lm.pc \in {"begin", "off"} /\ tmp = Bare
  BY <1>1, InitTypes DEF MergeInit
<1>3. ~HasCand /\ FromCand /\ WrittenOut
  BY <1>2 DEF HasCand, FromCand, WrittenOut
<1>4. tran = was.tran /\ files = was.files /\ \A r \in 1..NTran : rd[r].at = 1
  BY <1>1 DEF MergeInit, FirstLine
<1>5. FilesSoFar
  <2> SUFFICES ASSUME Live, NEW p \in Path PROVE Untouched(p) /\ Supplied(p) /\ NoMore(p)
    BY DEF FilesSoFar
  <2>1. Result = IF opt.force THEN was.files[2] ELSE Bare
    BY <1>2, <1>4 DEF Result
  <2>2. ~Listed(p) /\ ~Placed(p) /\ lm.pc = "begin" /\ 2 \in Reader
    BY <1>2, Numbers DEF Listed, FileLines, Placed, Live, Reader
  <2>3. Untouched(p) /\ Supplied(p)
    BY <2>1, <2>2 DEF Untouched, Supplied
  <2>4. NoMore(p)
    <3>1. CASE ~opt.force
      BY <2>1, <3>1 DEF NoMore, IsFile, Bare
    <3>2. CASE opt.force
      <4>1. 2 \in Listing(p) => 2 \in Still(p)
        BY <1>2, <1>4, <2>2, ListedStill
      <4> QED
        BY <2>1, <2>2, <3>2, <4>1 DEF NoMore, Kept, Loop
    <3> QED
      BY <3>1, <3>2, <1>2, Numbers
  <2> QED
    BY <2>3, <2>4
<1>6. DirsSoFar
  <2>1. QueueSorted /\ QueueLow
    BY <1>2 DEF QueueSorted, QueueLow
  <2>2. QueueFull
    <3>1. ASSUME NEW p \in Path, Queueing(p) PROVE 1 \in Still(p) /\ ~JustQueued(p)
      BY <1>2, <1>4, <3>1, ListedStill DEF Queueing, JustQueued
    <3> QED
      BY <3>1 DEF QueueFull
  <2> QED
    BY <1>2, <2>1, <2>2 DEF DirsSoFar
<1> QED
  BY <1>3, <1>5, <1>6 DEF GInv

LEMMA PlacedInvariance == Spec => [](IInv /\ VInv /\ RInv /\ GInv)
<1>1. IInv /\ RInv /\ GInv /\ [Next]_vars => GInv'
  BY FilesStep, FromStep, DirsStep, WrittenStep DEF GInv
<1> QED
  BY <1>1, InitPlaced, VerdictInvariance, RoundInvariance, PTL DEF Spec

-----------------------------------------------------------------------------
(* lcksum where there is nothing to be found                                *)
Clean == \A t \in Targets : ~Faulty(t) /\ ~Differs(t)

LEMMA CleanKept ==
  ASSUME UNCHANGED <<found, files, ckOpt>>
  PROVE  Clean' => Clean
<1>1. Targets' = Targets
  BY MeaningKept
<1>2. \A t : (Faulty(t)' <=> Faulty(t)) /\ (Differs(t)' <=> Differs(t))
  BY RunKept
<1> QED
  BY <1>1, <1>2 DEF Clean

LEMMA CleanLine ==
  ASSUME IInv, VInv, CleanSoFar, Cksum, CkLine
  PROVE  CleanSoFar'
<1>1. /\ Types /\ Replaced /\ CopySoFar /\ ReadSoFar /\ Resting /\ ck.pc = "line" /\ ck.at <= Len(tran[T])
      /\ UNCHANGED <<found, files, ckOpt, faults>> /\ T \in Targets
  BY LineCases, AtTyped DEF IInv, VInv, repository
<1> SUFFICES ASSUME Clean', faults' = 0
             PROVE  ck'.err = "0" /\ (ck'.pc \in {"line", "end"} => ck'.exitval = 0)
  BY DEF CleanSoFar, Clean
<1>2. Clean /\ ck.err = "0" /\ ck.exitval = 0 /\ ~Faulty(T) /\ ~Differs(T)
  BY <1>1, CleanKept DEF CleanSoFar, CkAt, Clean
<1>3. CASE Passed \/ NoFile \/ Same
  <2>1. ck' \in {Next2, Read2}
    BY <1>3 DEF Passed, NoFile, Same
  <2> QED
    BY <1>1, <1>2, <2>1, CountFields
<1>4. CASE Other
  <2>1. pending[T] = <<>>
    BY <1>1, <1>4, NotAgain
  <2>2. Row.path \in ckOpt.prefix /\ PositiveFile(Row) /\ Row.data # files[T][Row.path]
    BY <1>4 DEF Other, Good, InOrder2
  <2>3. ck.at \in Checked(T) /\ Row = found[T][ck.at]
    BY <1>1, <2>1, <2>2, RowFound
  <2>4. Differs(T)
    BY <2>2, <2>3 DEF Differs
  <2> QED
    BY <1>2, <2>4
<1>5. CASE Wrong \/ (Row.path \in ckOpt.prefix /\ PositiveFile(Row) /\ ~IsFile(files[T][Row.path]))
  BY <1>1, <1>2, <1>5, FaultFound
<1> QED
  BY <1>1, <1>3, <1>4, <1>5, LineWhy

LEMMA CleanEnd ==
  ASSUME IInv, VInv, CleanSoFar, Cksum, CkEnd
  PROVE  CleanSoFar'
<1>1. /\ Types /\ Replaced /\ CopySoFar /\ ck.pc = "end"
      /\ UNCHANGED <<found, files, ckOpt, faults>> /\ T \in Targets /\ ck.ucount \in Nat
  BY CkEndCases, AtTyped, CkParts DEF IInv
<1> SUFFICES ASSUME Clean', faults' = 0
             PROVE  ck'.err = "0" /\ (ck'.pc \in {"line", "end"} => ck'.exitval = 0)
  BY DEF CleanSoFar, Clean
<1>2. Clean /\ ck.err = "0" /\ ck.exitval = 0 /\ ~Differs(T)
  BY <1>1, CleanKept DEF CleanSoFar, CkAt, Clean
<1>3. ~(ckOpt.update /\ ck.ucount > 0)
  BY <1>1, <1>2, CopyRight
<1>4. Returned(0)
  BY <1>2, <1>3 DEF CkEnd
<1> QED
  BY <1>1, <1>2, <1>4, ReturnedFields

LEMMA CleanStep ==
  ASSUME IInv, VInv, CleanSoFar, [Next]_vars
  PROVE  CleanSoFar'
<1>0. Types /\ ck \in CkState /\ faults \in Nat
  BY CkParts, MergeParts, LoadSetsAssumption DEF IInv
<1>1. CASE Merge
  <2>1. CkAt("idle") /\ UNCHANGED ckOwn
    BY <1>0, <1>1, MergeTypes DEF Merge
  <2> QED
    BY <2>1 DEF CleanSoFar, CkAt, ckOwn
<1>2. CASE Cksum /\ CkStart
  <2>1. ck.err = "0" /\ ck' = [ck EXCEPT !.pc = "next"]
    BY <1>2 DEF CkStart, VInv, Resting
  <2> QED
    BY <1>0, <2>1 DEF CleanSoFar, CkState
<1>3. CASE Cksum /\ CkOpen
  <2>1. /\ UNCHANGED <<found, files, ckOpt, faults>> /\ ~CkAt("idle")
        /\ ck' = IF ck.n > Len(ckOpt.targets) THEN [ck EXCEPT !.pc = "exit"]
                 ELSE [ck EXCEPT !.pc = "line", !.at = 1, !.pre = 0, !.ucount = 0, !.exitval = 0]
    BY <1>3 DEF CkOpen, CkAt, repository
  <2>2. ck'.err = ck.err /\ (ck'.pc \in {"line", "end"} => ck'.exitval = 0)
    BY <1>0, <2>1 DEF CkState
  <2> QED
    BY <2>1, <2>2, CleanKept DEF CleanSoFar, Clean
<1>4. CASE Cksum /\ CkLine
  BY <1>4, CleanLine
<1>5. CASE Cksum /\ CkEof
  <2>1. UNCHANGED <<found, files, ckOpt, faults>> /\ ck.pc = "line" /\ ck' = [ck EXCEPT !.pc = "end"]
    BY <1>5 DEF CkEof, CkAt, repository
  <2>2. ck'.err = ck.err /\ ck'.exitval = ck.exitval
    BY <1>0, <2>1 DEF CkState
  <2> QED
    BY <2>1, <2>2, CleanKept DEF CleanSoFar, Clean, CkAt
<1>6. CASE Cksum /\ CkEnd
  BY <1>6, CleanEnd
<1>7. CASE Cksum /\ CkFinish
  <2>1. /\ UNCHANGED <<found, files, ckOpt>> /\ ck.pc = "exit" /\ ck' = [ck EXCEPT !.pc = "done"]
        /\ faults' = faults \/ faults' = faults + 1
    BY <1>7 DEF CkFinish, CkAt
  <2>2. ck'.err = ck.err /\ ck'.pc = "done" /\ (faults' = 0 => faults = 0)
    BY <1>0, <2>1 DEF CkState
  <2> QED
    BY <2>1, <2>2, CleanKept DEF CleanSoFar, Clean, CkAt
<1>8. CASE Cksum /\ (CkFails \/ CkKilled)
  <2>1. faults' # 0
    BY <1>0, <1>8 DEF CkFails, CkKilled
  <2> QED
    BY <2>1 DEF CleanSoFar
<1>9. CASE UNCHANGED vars
  <2>1. UNCHANGED <<found, files, ckOpt, faults, ck>>
    BY <1>9 DEF vars, repository, ckOwn
  <2> QED
    BY <2>1, CleanKept DEF CleanSoFar, Clean, CkAt
<1>10. CASE Cksum /\ CkTorn
  <2>1. /\ UNCHANGED <<found, files, ckOpt, faults>> /\ ck.pc = "line" /\ T \in torn
        /\ lm.pc \in {"off", "done"}
    BY <1>10 DEF CkTorn, CkAt, Cksum, Called, repository
  <2>2. T \in Targets /\ T \in Tran /\ ~CkAt("idle")
    BY <1>0, <2>1, AtTyped DEF CkAt
  <2>3. faults = 0 => pending[T] # <<>>
    BY <2>1 DEF IInv, TornWhy
  <2>4. pending[T] # <<>> => Differs(T)
    BY <2>2 DEF IInv, Replaced
  <2>5. faults' = 0 => ~Clean'
    BY <2>1, <2>2, <2>3, <2>4, CleanKept DEF Clean
  <2> QED
    BY <2>5 DEF CleanSoFar, Clean
<1> QED
  BY <1>1, <1>2, <1>3, <1>4, <1>5, <1>6, <1>7, <1>8, <1>9, <1>10 DEF Next, Cksum, CkNext, CkStep

LEMMA MergedInvariance == Spec => [](IInv /\ VInv /\ RInv /\ GInv /\ CleanSoFar)
<1>1. Init => CleanSoFar
  BY DEF Init, CkIdle, CleanSoFar, CkAt
<1>2. IInv /\ VInv /\ CleanSoFar /\ [Next]_vars => CleanSoFar'
  BY CleanStep
<1> QED
  BY <1>1, <1>2, PlacedInvariance, PTL DEF Spec

-----------------------------------------------------------------------------
(* What follows from the files that have been put in place                  *)
(* A line of the new transcript has been decided on                         *)
LEMMA ListedDecides ==
  ASSUME Types, NEW p \in Path, PositiveOf(p), ~Mismatched(p), NEW k \in DOMAIN out, out[k].path = p, ~out[k].minus
  PROVE  out[k] \in Deciding(p) /\ Listing(p) # {}
<1>1. out[k] \in { l \in Deciding(p) : ~l.minus }
  BY DEF PositiveOf
<1> QED
  BY <1>1 DEF Deciding

(* A file of a complete loadset is in its transcript, as it is              *)
LEMMA CompleteLine ==
  ASSUME Types, InOrder, NEW r \in Reader, Complete(was.tran[r], was.files[r]), NEW p \in Path,
         IsFile(was.files[r][p])
  PROVE  r \in Listing(p) /\ PositiveFile(LineOf(r, p)) /\ LineOf(r, p).data = was.files[r][p]
<1>1. PICK k \in FileLines(was.tran[r]) : was.tran[r][k].path = p
  BY DEF Complete
<1>2. k \in DOMAIN was.tran[r] /\ PositiveFile(was.tran[r][k])
  BY DEF FileLines, PositiveFile
<1>3. LineOf(r, p) = was.tran[r][k]
  BY <1>1, <1>2, LineOfIs
<1>4. was.files[r][p] = was.tran[r][k].data
  BY <1>1 DEF Complete, Backed
<1> QED
  BY <1>1, <1>2, <1>3, <1>4 DEF Listing

(* -f: a line that only the second transcript has                           *)
LEMMA ListedSecond ==
  ASSUME Types, opt.force, NEW p \in Path, Listing(p) # {}, 1 \notin Listing(p)
  PROVE  Listing(p) = {2} /\ Winner(p) = 2 /\ Origin(p) = 2 /\ 2 \in Reader
<1>1. Reader = {1, 2} /\ ~opt.noupload
  BY Numbers DEF Reader, Legal
<1>2. Listing(p) = {2}
  BY <1>1 DEF Listing
<1>3. Winner(p) = 2
  BY <1>2, WinnerIs
<1> QED
  BY <1>1, <1>2, <1>3 DEF Origin

(* The files behind the lines of a merged transcript                        *)
LEMMA MergedBacked ==
  ASSUME Types, FilesSoFar, Live, InOrder, ~opt.only, \A p \in Path : PositiveOf(p),
         \A r \in Reader : Complete(was.tran[r], was.files[r]), NEW k \in FileLines(out)
  PROVE  Result[out[k].path] = out[k].data /\ IsFile(out[k].data)
<1> DEFINE l == out[k]
           p == l.path
<1>1. k \in DOMAIN out /\ l.type = "f" /\ ~l.minus
  BY DEF FileLines
<1>2. out \in Seq(Line) /\ l \in Line /\ p \in Path /\ IsFile(l.data)
  BY <1>1, MergeParts, LineTyped
<1>3. Listed(p) /\ Untouched(p) /\ Supplied(p)
  BY <1>2 DEF Listed, FilesSoFar
<1>4. 2 \in Reader /\ (opt.force => ~opt.noupload)
  BY Numbers DEF Reader, Legal
<1>5. ASSUME opt.noupload
      PROVE  /\ 2 \in Listing(p) /\ PositiveFile(LineOf(2, p))
             /\ LineOf(2, p).data = Result[p] /\ IsFile(Result[p])
  <2>1. Result[p] = was.files[2][p] /\ IsFile(Result[p])
    BY <1>3, <1>4, <1>5 DEF Supplied, Origin
  <2> QED
    BY <1>2, <1>4, <2>1, CompleteLine
<1>6. ~Mismatched(p)
  BY <1>5 DEF Mismatched, PositiveFile
<1>7. l \in Deciding(p) /\ Listing(p) # {}
  BY <1>1, <1>2, <1>6, ListedDecides
<1> HIDE DEF l, p
<1>8. CASE opt.noupload
  <2>1. l \in Uploaded(p)
    BY <1>7, <1>8 DEF Deciding
  <2>2. l.data = LineOf(2, p).data
    BY <1>5, <1>8, <2>1 DEF Uploaded
  <2> QED
    BY <1>2, <1>5, <1>8, <2>2 DEF l, p
<1>9. CASE ~opt.noupload
  <2>1. l = LineOf(Winner(p), p) /\ Winner(p) \in Listing(p) /\ Origin(p) = Winner(p)
    BY <1>2, <1>7, <1>9, WinnerListed DEF Deciding, Origin
  <2>2. Winner(p) \in Reader
    BY <2>1 DEF Listing
  <2>3. PICK m \in DOMAIN was.tran[Winner(p)] : was.tran[Winner(p)][m].path = p
    BY <2>1 DEF Listing
  <2>4. l = was.tran[Winner(p)][m]
    BY <2>1, <2>2, <2>3, LineOfIs
  <2>5. was.files[Winner(p)][p] = l.data
    <3>1. m \in FileLines(was.tran[Winner(p)])
      BY <1>1, <2>3, <2>4 DEF FileLines, l
    <3>2. Backed(was.tran[Winner(p)], was.files[Winner(p)])
      BY <2>2 DEF Complete
    <3> QED
      BY <2>3, <2>4, <3>1, <3>2 DEF Backed
  <2>6. CASE opt.force /\ 1 \notin Listing(p)
    <3>1. Winner(p) = 2
      BY <1>2, <1>7, <2>6, ListedSecond
    <3>2. was.files[2][p] = l.data /\ l.data # Nothing
      BY <1>2, <2>5, <3>1 DEF IsFile
    <3> QED
      BY <1>2, <1>3, <2>6, <3>2 DEF Untouched, l, p
  <2>7. CASE ~(opt.force /\ 1 \notin Listing(p))
    BY <1>2, <1>3, <2>1, <2>5, <2>7 DEF Supplied, l, p
  <2> QED
    BY <2>6, <2>7
<1> QED
  BY <1>4, <1>8, <1>9, Numbers

(* The files of what lmerge makes are those of the transcripts its lines    *)
(* come from, the directories that -f should remove are gone unless there   *)
(* is something else in them, and lcksum finds no fault with a transcript   *)
(* made of complete loadsets                                                *)
THEOREM FilesFollowLines == Spec => []FilesFollow
<1>1. ASSUME IInv, RInv, GInv, exit = "0"
      PROVE  /\ Types /\ Live /\ lm.pc = "done" /\ Result = files[Dest]
             /\ InOrder => Sorted(out) /\ \A p \in Path : PositiveOf(p)
  <2>1. Types /\ lm.pc = "done" /\ EndInv
    BY <1>1, MergeParts DEF IInv, RInv, Exits
  <2>2. Result = files[Dest]
    BY <2>1, Numbers DEF Result
  <2> QED
    BY <1>1, <2>1, <2>2 DEF Live, EndInv, Ended, Whole, Settled
<1>2. IInv /\ RInv /\ GInv => FilesPlaced
  <2> SUFFICES ASSUME IInv, RInv, GInv, exit = "0", InOrder, ~opt.only, NEW p \in Path
               PROVE  /\ Listed(p) =>
                           \/ files[Dest][p] = was.files[Origin(p)][p]
                           \/ /\ opt.force /\ Listing(p) = {2} /\ was.files[2][p] = Nothing
                              /\ files[Dest][p] = Folder
                      /\ IsFile(files[Dest][p]) => Listed(p) \/
                           /\ opt.force /\ files[Dest][p] = was.files[2][p]
                           /\ Listing(p) = {1, 2} => LineOf(2, p).type # "f"
    BY DEF FilesPlaced, Listed
  <2>1. /\ Types /\ Live /\ lm.pc = "done" /\ Result = files[Dest]
        /\ Untouched(p) /\ Supplied(p) /\ NoMore(p)
    BY <1>1 DEF GInv, FilesSoFar
  <2>2. ASSUME Listed(p), opt.force, 1 \notin Listing(p)
        PROVE  Listing(p) = {2} /\ Origin(p) = 2
    <3>1. PICK k \in FileLines(out) : out[k].path = p
      BY <2>2 DEF Listed
    <3>2. ~Mismatched(p)
      BY <2>1, <2>2, Numbers DEF Mismatched, Legal
    <3>3. k \in DOMAIN out /\ ~out[k].minus
      BY DEF FileLines
    <3>4. Listing(p) # {}
      BY <1>1, <3>1, <3>2, <3>3, ListedDecides
    <3> QED
      BY <2>1, <2>2, <3>4, ListedSecond
  <2>3. ~Placed(p) /\ lm.pc \notin Loop
    BY <2>1 DEF Placed, Loop
  <2>4. Listed(p) => \/ files[Dest][p] = was.files[Origin(p)][p]
                     \/ /\ opt.force /\ Listing(p) = {2} /\ was.files[2][p] = Nothing
                        /\ files[Dest][p] = Folder
    BY <2>1, <2>2 DEF Supplied, Untouched
  <2>5. IsFile(files[Dest][p]) => Listed(p) \/
          /\ opt.force /\ files[Dest][p] = was.files[2][p]
          /\ Listing(p) = {1, 2} => LineOf(2, p).type # "f"
    BY <2>1, <2>3 DEF NoMore, Kept
  <2> QED
    BY <2>4, <2>5
<1>3. GInv => DirsRemoved
  BY DEF GInv, DirsSoFar, DirsRemoved, Left
<1>4. IInv /\ VInv /\ RInv /\ GInv /\ CleanSoFar => MergedVerifies
  <2> SUFFICES ASSUME IInv, VInv, RInv, GInv, CleanSoFar, exit = "0", ckExit \in {"0", "1", "2"}, faults = 0,
                      ~opt.only, InOrder, ckOpt.targets = <<Dest>>,
                      \A t \in Reader : Complete(was.tran[t], was.files[t])
               PROVE  ckExit = "0"
    BY DEF MergedVerifies
  <2>1. /\ Types /\ Live /\ Result = files[Dest] /\ Sorted(out) /\ \A p \in Path : PositiveOf(p)
        /\ ~CkAt("idle") /\ out \in Seq(Line)
    BY <1>1, MergeParts, CkParts DEF CkAt, Codes
  <2>2. found[Dest] = out /\ FilesSoFar
    BY <2>1 DEF GInv, WrittenOut
  <2>3. Targets = {Dest}
    BY DEF Targets
  <2>4. ASSUME NEW k \in Checked(Dest)
        PROVE  /\ IsFile(files[Dest][found[Dest][k].path])
               /\ found[Dest][k].data = files[Dest][found[Dest][k].path]
    <3>1. k \in FileLines(out)
      BY <2>2 DEF Checked
    <3>2. Result[out[k].path] = out[k].data /\ IsFile(out[k].data)
      BY <2>1, <2>2, <3>1, MergedBacked
    <3> QED
      BY <2>1, <2>2, <3>2
  <2>5. ASSUME NEW k \in Within(Dest), NEW m \in Within(Dest), k < m
        PROVE  ~(found[Dest][m].path <= found[Dest][k].path)
    <3>1. k \in DOMAIN out /\ m \in DOMAIN out
      BY <2>2 DEF Within
    <3>2. out[k].path \in Nat /\ out[m].path \in Nat
      BY <2>1, <3>1, LineTyped
    <3>3. out[k].path < out[m].path
      BY <2>1, <2>5, <3>1 DEF Sorted
    <3> QED
      BY <2>2, <3>2, <3>3
  <2>6. ~Faulty(Dest) /\ ~Differs(Dest)
    BY <2>4, <2>5 DEF Faulty, Differs
  <2>7. ck.err = "0"
    BY <2>1, <2>3, <2>6 DEF CleanSoFar
  <2> QED
    BY <2>7 DEF VInv, Written
<1> QED
  BY <1>2, <1>3, <1>4, MergedInvariance, PTL DEF FilesFollow

-----------------------------------------------------------------------------
(* When lmerge stops                                                        *)

(* A reader's t_prepath is the path of its line                             *)
AtLine == InOrder /\ lm.pc \in Loop => \A r \in Reader : ~Eof(r) => rd[r].pre <= Cur(r).path

(* -f: a file of the second transcript is there until its line is read      *)
StillThere ==
  opt.force /\ InOrder /\ lm.pc \in Loop =>
    \A p \in Path : 2 \in Still(p) /\ IsFile(was.files[2][p]) => files[2][p] = was.files[2][p]

(* Directories are made for files that the new transcript should have       *)
Dug(p) == Result[p] = Folder => (opt.force /\ was.files[2][p] = Folder) \/ \E q \in Below(p) : Filed(q)
OnlyDug == InOrder /\ ~opt.only /\ lm.pc \in Loop /\ ~Clashing => \A p \in Path : Dug(p)

NoneToPlace == lm.pc = "place" => ~opt.only

WInv == AtLine /\ StillThere /\ OnlyDug /\ NoneToPlace /\ MergeFeasible

LEMMA AbovePaths == \A p \in Path : Above(p) \subseteq Path /\ \A q \in Above(p) : p \in Below(q)
<1> SUFFICES ASSUME NEW p \in Path, NEW q \in Above(p) PROVE q \in Path /\ p \in Below(q)
  OBVIOUS
<1>1. NPath \in Nat /\ p \in 1..NPath /\ q \in 1..(p - 1) /\ p <= Last[q]
  BY LoadSetsAssumption DEF Above, Path
<1>2. q \in 1..NPath
  BY <1>1
<1>3. Last[q] \in 1..NPath
  BY <1>2, LoadSetsAssumption DEF Path
<1>4. p \in (q + 1)..Last[q]
  BY <1>1, <1>2, <1>3
<1> QED
  BY <1>2, <1>4 DEF Path, Below

(* What hinders lmerge was there before it began                            *)
LEMMA FiledKept ==
  ASSUME UNCHANGED <<opt, was>>, NEW p \in Path
  PROVE  Filed(p)' <=> Filed(p)
<1>1. Deciding(p)' = Deciding(p)
  BY WasKept
<1> QED
  BY <1>1 DEF Filed

LEMMA HinderedKept ==
  ASSUME Types, UNCHANGED <<opt, was>>
  PROVE  (Hindered' <=> Hindered) /\ (Clashing' <=> Clashing)
<1>1. /\ Reader' = Reader /\ opt' = opt /\ was' = was
      /\ \A p \in Path : Listing(p)' = Listing(p) /\ (Mismatched(p) <=> Mismatched(p)') /\ (Filed(p)' <=> Filed(p))
  BY WasKept, FiledKept
<1>2. \A p \in Path : LineOf(2, p)' = LineOf(2, p) /\ LineOf(1, p)' = LineOf(1, p)
  BY DEF LineOf
<1>3. \A p \in Path : Below(p) \subseteq Path /\ Above(p) \subseteq Path /\ (TakenAway(p)' <=> TakenAway(p))
  BY BelowPaths, AbovePaths, QueueingKept
<1>4. Missing' <=> Missing
  BY <1>1 DEF Missing
<1>5. Nested' <=> Nested
  BY <1>1 DEF Nested
<1>6. Occupied' <=> Occupied
  BY <1>1, <1>2 DEF Occupied
<1>7. NoFolder' <=> NoFolder
  BY <1>1, <1>3 DEF NoFolder
<1>8. Doubled' <=> Doubled
  BY <1>1, <1>2 DEF Doubled
<1>9. Clashing' <=> Clashing
  BY <1>1 DEF Clashing
<1> QED
  BY <1>4, <1>5, <1>6, <1>7, <1>8, <1>9 DEF Hindered

(* Files of the new transcript                                              *)
LEMMA CandFiled ==
  ASSUME Types, MInv, CkAt("idle"), LoopInv, FromCand, InOrder, lm.pc = "place", ~Clashing
  PROVE  Filed(Cand.path)
<1>1. HasCand /\ lm.pc \in Loop /\ tran = was.tran
  BY DEF HasCand, Loop, MInv, Others
<1>2. Round /\ Stage
  BY <1>1 DEF LoopInv, Round
<1>3. lm.j > opt.n /\ ~Hidden /\ Cand.type = "f" /\ Cand.path \in Path
  <2>1. lm.j > opt.n /\ (~Hidden \/ (opt.force /\ lm.candidate = 2)) /\ Cand.type = "f"
        /\ ~(opt.force /\ lm.candidate = 2)
    BY <1>2 DEF Stage, FromCand
  <2> QED
    BY <1>1, <2>1, CandFacts
<1>4. Deciding(Cand.path) = {Cand}
  BY <1>1, <1>2, <1>3, DecidedBy DEF Hidden, Clashing
<1> QED
  BY <1>3, <1>4 DEF Filed, Hidden

LEMMA ListedFiled ==
  ASSUME Types, NEW p \in Path, PositiveOf(p), ~Mismatched(p), Listed(p)
  PROVE  Filed(p)
<1>1. PICK k \in FileLines(out) : out[k].path = p
  BY DEF Listed
<1>2. k \in DOMAIN out /\ out[k].type = "f" /\ ~out[k].minus
  BY DEF FileLines
<1>3. out[k] \in Deciding(p)
  BY <1>1, <1>2, ListedDecides
<1> QED
  BY <1>2, <1>3 DEF Filed

LEMMA ListedPassed ==
  ASSUME Types, tran = was.tran, LoopInv, lm.pc \in Loop, InOrder, NEW p \in Path, Listed(p)
  PROVE  Still(p) = {} /\ PositiveOf(p)
<1>1. PICK k \in FileLines(out) : out[k].path = p
  BY DEF Listed
<1>2. BeyondOut /\ AllSettled
  BY DEF LoopInv, Round, Base
<1>3. k \in DOMAIN out /\ p \in Nat
  BY DEF FileLines, Path
<1>4. Still(p) = {}
  <2>1. Still(p) # {} => out[k].path < p
    BY <1>2, <1>3 DEF BeyondOut
  <2> QED
    BY <1>1, <1>3, <2>1
<1> QED
  BY <1>2, <1>4 DEF AllSettled, Settled

(* lmerge reads the next line of a reader                                   *)
LEMMA NextGood ==
  ASSUME Types, tran = was.tran, InOrder, AtLine, lm.pc \in Loop, NEW r \in Reader, ~Eof(r)
  PROVE  ~NextBad(r)
<1>1. /\ r \in 1..NTran /\ tran[r] \in Seq(Line) /\ Len(tran[r]) \in Nat /\ rd[r].at \in Nat \ {0}
      /\ rd[r].pre \in Nat
  BY Numbers, ReaderTyped DEF Path
<1>0. SUFFICES ASSUME rd[r].at < Len(tran[r]), tran[r][rd[r].at + 1].path <= rd[r].pre PROVE FALSE
  BY DEF NextBad
<1>2. rd[r].at \in DOMAIN tran[r] /\ rd[r].at + 1 \in DOMAIN tran[r]
  BY <1>0, <1>1
<1>3. tran[r][rd[r].at].path < tran[r][rd[r].at + 1].path
  <2>1. \A k, m \in DOMAIN tran[r] : k < m => tran[r][k].path < tran[r][m].path
    BY DEF InOrder, Sorted
  <2> QED
    BY <1>1, <1>2, <2>1, SMTT(20), ZenonT(20)
<1>4. tran[r][rd[r].at].path \in Nat /\ tran[r][rd[r].at + 1].path \in Nat
  BY <1>1, <1>2, LineTyped
<1>5. rd[r].pre <= tran[r][rd[r].at].path
  BY DEF AtLine, Cur
<1> QED
  BY <1>0, <1>1, <1>2, <1>3, <1>4, <1>5, SMTT(20), ZenonT(20)

LEMMA AtLineAdvanced ==
  ASSUME Types, tran = was.tran, InOrder, AtLine, lm.pc \in Loop, NEW r \in Reader, ~Eof(r),
         rd' = Advanced(r), UNCHANGED <<tran, opt, was>>
  PROVE  AtLine'
<1>1. /\ Reader \subseteq 1..NTran /\ r \in 1..NTran /\ Reader' = Reader
      /\ tran[r] \in Seq(Line) /\ Len(tran[r]) \in Nat /\ rd[r].at \in Nat \ {0}
      /\ rd \in [1..NTran -> [at : Nat \ {0}, pre : Path \cup {0}]]
  BY Numbers, ReaderTyped, MergeParts DEF Reader
<1>2. ~NextBad(r)
  BY NextGood
<1>3. /\ \A q \in Reader : q # r => rd'[q] = rd[q]
      /\ rd'[r].at = rd[r].at + 1
      /\ rd'[r].pre = IF rd[r].at >= Len(tran[r]) THEN rd[r].pre ELSE tran[r][rd[r].at + 1].path
  BY <1>1, <1>2 DEF Advanced
<1>4. ASSUME NEW q \in Reader, ~(rd'[q].at > Len(tran[q])) PROVE rd'[q].pre <= tran[q][rd'[q].at].path
  <2>1. CASE q # r
    BY <1>3, <1>4, <2>1 DEF AtLine, Eof, Cur
  <2>2. CASE q = r
    <3>1. rd[r].at + 1 \in DOMAIN tran[r] /\ ~(rd[r].at >= Len(tran[r]))
      BY <1>1, <1>3, <1>4, <2>2
    <3>2. tran[r][rd[r].at + 1].path \in Nat
      BY <1>1, <3>1, LineTyped
    <3> QED
      BY <1>3, <2>2, <3>1, <3>2
  <2> QED
    BY <2>1, <2>2
<1> QED
  BY <1>1, <1>4 DEF AtLine, Eof, Cur

(* What a step within the loops does                                        *)
Quiet == UNCHANGED <<tran, files, tmp, rd>>
Reads == HasCand /\ rd' = Advanced(lm.candidate) /\ UNCHANGED <<tran, files, tmp>>
Pairs == lm.pc = "compare" /\ lm.j \in Reader /\ Takes /\ UNCHANGED <<tran, tmp>>
Puts ==
  /\ lm.pc = "place" /\ IsFile(Source) /\ Target[Cand.path] = Nothing
  /\ SetTarget(PutAs(Source)) /\ UNCHANGED <<tran, rd>>

LEMMA LoopWays ==
  ASSUME IInv, [Next]_vars, lm'.pc \in Loop
  PROVE  /\ lm.pc \in Loop /\ tran = was.tran /\ CkAt("idle") /\ UNCHANGED <<opt, was>>
         /\ Quiet \/ Reads \/ Pairs \/ Puts
         /\ lm'.pc = "place" => (lm.pc = "place" \/ ~opt.only)
<1>0. Types /\ MInv /\ lm \in MergeState
  BY MergeParts DEF IInv
<1>1. ASSUME lm.pc \in Loop PROVE tran = was.tran /\ CkAt("idle")
  BY <1>0, <1>1, MergeIdle DEF Loop, Merging, MInv, Others
<1>2. CASE Merge
  <2>1. MergeNext /\ UNCHANGED <<opt, was>>
    BY <1>0, <1>2, MergeTypes DEF Merge
  <2>2. CASE Begin
    <3>1. lm.pc = "begin" /\ lm'.pc = "select" /\ Quiet
      BY <2>2, <1>0, GotoTyped DEF Begin, At, Goto, Quiet, repository
    <3> QED
      BY <1>1, <2>1, <3>1 DEF Loop
  <2>3. CASE Select
    <3>1. lm.pc = "select" /\ Quiet
      BY <2>3 DEF Select, At, Quiet, repository
    <3>2. \/ lm' = [lm EXCEPT !.pc = IF opt.force THEN "dirs" ELSE "files"]
          \/ lm' = [lm EXCEPT !.i = @ + 1]
          \/ \E b \in BOOLEAN : lm' = [lm EXCEPT !.candidate = lm.i, !.fileloc = lm.i, !.match = b,
                                                 !.pc = IF b THEN "output" ELSE "compare", !.j = lm.i + 1]
      BY <2>3 DEF Select
    <3>3. lm'.pc # "place"
      BY <1>0, <3>1, <3>2 DEF MergeState
    <3> QED
      BY <1>1, <2>1, <3>1, <3>3 DEF Loop
  <2>4. CASE Compare
    <3>1. lm.pc = "compare" /\ lm.j \in Reader /\ UNCHANGED <<tran, tmp>>
      BY <1>0, <2>4, Comparing DEF Compare
    <3>2. Stays \/ Takes
      BY <1>0, <2>4, CompareWays DEF Loop
    <3>3. lm'.pc # "place" /\ (Quiet \/ Pairs)
      BY <3>1, <3>2 DEF Stays, Takes, Pairs, Quiet
    <3> QED
      BY <1>1, <2>1, <3>1, <3>3 DEF Loop
  <2>5. CASE Decide
    <3>1. lm.pc = "compare" /\ Quiet
      BY <2>5 DEF Decide, At, Quiet, repository
    <3>2. lm'.pc = "place" => ~opt.only
      <4>1. CASE opt.force /\ lm.candidate = 2
        <5>1. lm' = [lm EXCEPT !.pc = "output"]
          BY <2>5, <4>1 DEF Decide
        <5> QED
          BY <1>0, <5>1 DEF MergeState
      <4>2. CASE ~(opt.force /\ lm.candidate = 2) /\ Hidden
        <5>1. lm' = [lm EXCEPT !.pc = "skip",
                       !.dirlist = IF lm.match /\ opt.force /\ Cand.type = "d" THEN Queued ELSE @]
          BY <2>5, <4>2 DEF Decide
        <5> QED
          BY <1>0, <5>1 DEF MergeState
      <4>3. CASE ~(opt.force /\ lm.candidate = 2) /\ ~Hidden
        <5>1. lm' = [lm EXCEPT !.pc = IF Cand.type # "f" \/ opt.only THEN "output" ELSE "place"]
          BY <2>5, <4>3 DEF Decide
        <5> QED
          BY <1>0, <5>1 DEF MergeState
      <4> QED
        BY <4>1, <4>2, <4>3
    <3> QED
      BY <1>1, <2>1, <3>1, <3>2 DEF Loop
  <2>6. CASE Place
    <3>1. lm.pc = "place" /\ UNCHANGED <<tran, rd>>
      BY <1>0, <2>6, PlaceCases
    <3>2. ~Stop("2")
      BY <1>0 DEF Stop, Loop, MergeState
    <3>3. Puts /\ lm'.pc = "output"
      BY <1>0, <2>6, <3>1, <3>2, PlaceCases DEF Puts, MergeState
    <3> QED
      BY <1>1, <2>1, <3>1, <3>3 DEF Loop
  <2>7. CASE Output \/ Skip
    <3>1. HasCand /\ Next1 /\ lm.pc \in {"output", "skip"} /\ UNCHANGED <<tran, files, tmp>>
      BY <2>7 DEF Output, Skip, HasCand, At, repository
    <3>2. rd' = Advanced(lm.candidate) /\ lm'.pc \in {"select", "done"}
      BY <1>0, <3>1, Next1Cases DEF Stop, MergeState
    <3> QED
      BY <1>1, <2>1, <3>1, <3>2 DEF Loop, Reads
  <2>8. CASE RemoveDirs \/ RenameFiles \/ RenameTran \/ Flush \/ Crash \/ Fails \/ Killed
    <3>1. \/ \E st \in {"0", "2", "crash", "killed"} : Stop(st)
          \/ \E pc \in {"trans", "flush"} : lm' = [lm EXCEPT !.pc = pc]
          \/ lm.pc = "dirs" /\ lm' = [lm EXCEPT !.dirlist = Tail(@)]
      BY <2>8 DEF RemoveDirs, RenameFiles, RenameTran, Flush, Crash, Fails, Killed, Goto, At
    <3> QED
      BY <1>0, <3>1 DEF Stop, MergeState, Loop
  <2> QED
    BY <2>1, <2>2, <2>3, <2>4, <2>5, <2>6, <2>7, <2>8 DEF MergeNext, MergeStep
<1>3. CASE Cksum
  BY <1>0, <1>3, CksumTypes DEF Cksum, Called, Loop, mergeOwn
<1>4. CASE UNCHANGED vars
  <2>1. UNCHANGED <<tran, files, tmp, rd, opt, was, lm>>
    BY <1>4 DEF vars, repository, mergeOwn
  <2> QED
    BY <1>1, <2>1 DEF Quiet
<1> QED
  BY <1>2, <1>3, <1>4 DEF Next

LEMMA AtLineStep ==
  ASSUME IInv, AtLine, [Next]_vars
  PROVE  AtLine'
<1>1. SUFFICES ASSUME InOrder', lm'.pc \in Loop PROVE AtLine'
  BY DEF AtLine
<1>2. /\ lm.pc \in Loop /\ tran = was.tran /\ UNCHANGED <<opt, was>> /\ Types
      /\ Quiet \/ Reads \/ Pairs \/ Puts
  BY <1>1, LoopWays DEF IInv
<1>3. InOrder
  BY <1>1, <1>2, WasKept
<1>4. CASE UNCHANGED <<rd, tran>>
  BY <1>2, <1>3, <1>4, WasKept DEF AtLine, Eof, Cur
<1>5. CASE Reads
  <2>1. lm.candidate \in Reader /\ ~Eof(lm.candidate)
    BY <1>2, <1>5, CandTyped DEF Reads, HasCand
  <2> QED
    BY <1>2, <1>3, <1>5, <2>1, AtLineAdvanced DEF Reads
<1>6. CASE Pairs
  BY <1>2, <1>3, <1>6, AtLineAdvanced DEF Pairs, Takes
<1> QED
  BY <1>2, <1>4, <1>5, <1>6 DEF Quiet, Puts

(* -f: files of the second transcript are removed only when their lines are *)
(* read                                                                     *)
LEMMA StillThereStep ==
  ASSUME IInv, StillThere, [Next]_vars
  PROVE  StillThere'
<1>1. SUFFICES ASSUME InOrder', lm'.pc \in Loop, opt'.force, NEW p \in Path,
                      2 \in Still(p)', IsFile(was'.files[2][p])
               PROVE  files'[2][p] = was'.files[2][p]
  BY DEF StillThere
<1>2. /\ lm.pc \in Loop /\ tran = was.tran /\ UNCHANGED <<opt, was>> /\ Types
      /\ Quiet \/ Reads \/ Pairs \/ Puts
  BY <1>1, LoopWays DEF IInv
<1>3. InOrder /\ opt.force /\ IsFile(was.files[2][p])
  BY <1>1, <1>2, WasKept
<1>4. 2 \in Still(p) => files[2][p] = was.files[2][p]
  BY <1>2, <1>3 DEF StillThere
<1>5. CASE Quiet
  <2>1. Still(p)' = Still(p)
    BY <1>2, <1>5 DEF Quiet, Still, Rest, Reader
  <2> QED
    BY <1>1, <1>2, <1>4, <1>5, <2>1 DEF Quiet
<1>6. CASE Reads
  <2>1. lm.candidate \in Reader /\ ~Eof(lm.candidate)
    BY <1>2, <1>6, CandTyped DEF Reads, HasCand
  <2>2. Still(p)' \subseteq Still(p)
    BY <1>2, <1>3, <1>6, <2>1, StillAdvanced DEF Reads
  <2> QED
    BY <1>1, <1>2, <1>4, <1>6, <2>2 DEF Reads
<1>7. CASE Pairs
  <2>1. PICK p0 \in Path : p0 = Cur(lm.j).path
    BY <1>2, <1>3, <1>7, Heads DEF Pairs, Takes
  <2>2. /\ lm.j \in Reader /\ ~Eof(lm.j) /\ rd' = Advanced(lm.j) /\ UNCHANGED <<tran, opt, was>>
        /\ IF Cur(lm.j).type = "f" THEN files' = [files EXCEPT ![lm.j][p0] = Nothing] ELSE files' = files
    BY <1>2, <1>3, <1>7, <2>1 DEF Pairs, Takes, RemoveFile
  <2>3. Still(p)' = IF p = p0 THEN Still(p) \ {lm.j} ELSE Still(p)
    BY <1>2, <1>3, <2>1, <2>2, StillAdvanced
  <2>4. files \in [Tran -> FileDir] /\ 2 \in Tran /\ lm.j \in Tran
    BY <1>2, <1>3, <2>2, MergeParts, Numbers, ReaderTyped
  <2>5. ~(lm.j = 2 /\ p = p0)
    BY <1>1, <2>3
  <2>6. files'[2][p] = files[2][p]
    BY <2>2, <2>4, <2>5 DEF FileDir
  <2> QED
    BY <1>1, <1>2, <1>4, <2>3, <2>6
<1>8. CASE Puts
  <2>1. /\ HasCand /\ IsFile(Source) /\ Target[Cand.path] = Nothing /\ SetTarget(PutAs(Source))
        /\ UNCHANGED <<tran, rd, opt>>
    BY <1>2, <1>8 DEF Puts, HasCand
  <2>2. Source \in Data \cup {Nothing, Folder, Part}
    BY <1>2, <2>1, SourceTyped
  <2>3. files'[2] = PutAs(Source) /\ Target = files[2]
    BY <1>2, <1>3, <2>1, <2>2, PutAsTyped, TargetSet DEF Target
  <2>4. Still(p)' = Still(p)
    BY <1>2, <2>1 DEF Still, Rest, Reader
  <2>5. files[2][p] = was.files[2][p] /\ files[2][p] # Nothing
    BY <1>1, <1>3, <1>4, <2>4 DEF IsFile
  <2>6. files'[2][p] = files[2][p]
    BY <1>2, <2>1, <2>2, <2>3, <2>5, PutAsTyped
  <2> QED
    BY <1>2, <2>5, <2>6
<1> QED
  BY <1>2, <1>5, <1>6, <1>7, <1>8

(* Directories are only made for files                                      *)
LEMMA OnlyDugStep ==
  ASSUME IInv, LoopInv, FromCand, OnlyDug, [Next]_vars
  PROVE  OnlyDug'
<1>1. SUFFICES ASSUME InOrder', ~opt'.only, lm'.pc \in Loop, ~Clashing', NEW p \in Path, Result'[p] = Folder
               PROVE  \/ opt'.force /\ was'.files[2][p] = Folder
                      \/ \E q \in Below(p) : Filed(q)'
  BY DEF OnlyDug, Dug
<1>2. /\ lm.pc \in Loop /\ tran = was.tran /\ UNCHANGED <<opt, was>> /\ Types /\ MInv /\ CkAt("idle")
      /\ Quiet \/ Reads \/ Pairs \/ Puts
  BY <1>1, LoopWays DEF IInv
<1>3. InOrder /\ ~opt.only /\ ~Clashing
  BY <1>1, <1>2, WasKept, HinderedKept
<1>4. Result[p] = Folder => (opt.force /\ was.files[2][p] = Folder) \/ \E q \in Below(p) : Filed(q)
  BY <1>2, <1>3 DEF OnlyDug, Dug
<1>5. \A q \in Below(p) : Filed(q) => Filed(q)'
  BY <1>2, BelowPaths, FiledKept
<1>6. /\ Result = IF opt.force THEN files[2] ELSE tmp
      /\ Result' = IF opt.force THEN files'[2] ELSE tmp'
  BY <1>1, <1>2 DEF Result, Loop
<1>7. SUFFICES Result[p] = Folder \/ \E q \in Below(p) : Filed(q)
  BY <1>2, <1>4, <1>5
<1>8. CASE Quiet \/ Reads
  BY <1>1, <1>6, <1>8 DEF Quiet, Reads
<1>9. CASE Pairs
  <2>1. PICK p0 \in Path : p0 = Cur(lm.j).path
    BY <1>2, <1>3, <1>9, Heads DEF Pairs, Takes
  <2>2. /\ lm.j \in Reader /\ tmp' = tmp
        /\ files' = [files EXCEPT ![lm.j][p0] = Nothing] \/ files' = files
    BY <1>9, <2>1 DEF Pairs, Takes, RemoveFile
  <2>3. files \in [Tran -> FileDir] /\ (opt.force => 2 \in Tran) /\ lm.j \in Tran /\ Nothing # Folder
    BY <1>2, <2>2, MergeParts, Numbers, ReaderTyped DEF Nothing, Folder
  <2>4. opt.force /\ files'[2][p] = Folder => files[2][p] = Folder
    BY <2>2, <2>3 DEF FileDir
  <2> QED
    BY <1>1, <1>6, <2>2, <2>4
<1>10. CASE Puts
  <2>1. HasCand /\ lm.pc = "place" /\ IsFile(Source) /\ SetTarget(PutAs(Source))
    BY <1>10 DEF Puts, HasCand
  <2>2. PICK p0 \in Path : p0 = Cand.path
    BY <1>2, <2>1, SourceTyped
  <2>3. Source \in Data \cup {Nothing, Folder, Part} /\ PutAs(Source) \in FileDir
    BY <1>2, <2>1, SourceTyped, PutAsTyped
  <2>4. Result' = PutAs(Source) /\ Result = Target /\ Target \in FileDir
    BY <1>2, <1>6, <2>1, <2>3, TargetSet, TargetTyped DEF Target
  <2>5. CASE p = p0
    BY <1>1, <1>2, <2>1, <2>2, <2>3, <2>4, <2>5, PutAsTyped DEF IsFile
  <2>6. CASE p # p0 /\ p \in Above(p0)
    BY <1>2, <1>3, <2>1, <2>2, <2>6, CandFiled, AbovePaths
  <2>7. CASE p # p0 /\ p \notin Above(p0)
    BY <1>1, <2>2, <2>4, <2>7 DEF PutAs, MkDirs, FileDir
  <2> QED
    BY <2>5, <2>6, <2>7
<1> QED
  BY <1>2, <1>8, <1>9, <1>10

LEMMA NoneToPlaceStep ==
  ASSUME IInv, NoneToPlace, [Next]_vars
  PROVE  NoneToPlace'
<1>1. SUFFICES ASSUME lm'.pc = "place" PROVE ~opt'.only
  BY DEF NoneToPlace
<1> QED
  BY <1>1, LoopWays DEF NoneToPlace, Loop

(* A file that is not where its line says                                   *)
LEMMA FileMissing ==
  ASSUME Types, InOrder, NEW p \in Path, NEW r \in Listing(p), PositiveFile(LineOf(r, p)), ~IsFile(was.files[r][p])
  PROVE  Missing
<1>1. PICK k \in DOMAIN was.tran[r] : was.tran[r][k].path = p /\ r \in Reader
  BY DEF Listing
<1>2. LineOf(r, p) = was.tran[r][k]
  BY <1>1, LineOfIs
<1>3. k \in FileLines(was.tran[r])
  BY <1>2 DEF FileLines, PositiveFile
<1> QED
  BY <1>1, <1>3 DEF Missing

(* Where a file of the new transcript comes from                            *)
LEMMA FiledFrom ==
  ASSUME Types, NEW p \in Path, Filed(p), ~Mismatched(p)
  PROVE  Origin(p) \in Listing(p) /\ (PositiveFile(LineOf(Origin(p), p)) \/ Doubled)
<1>1. PICK l \in Deciding(p) : l.type = "f" /\ ~l.minus
  BY DEF Filed
<1>2. Listing(p) # {} /\ Listing(p) \subseteq Reader
  BY <1>1 DEF Deciding, Listing
<1>3. CASE ~opt.noupload
  BY <1>1, <1>2, <1>3, WinnerListed DEF Deciding, Origin, PositiveFile
<1>4. CASE opt.noupload
  <2>1. l \in Uploaded(p) /\ Origin(p) = 2 /\ Listing(p) \subseteq {1, 2}
    BY <1>1, <1>2, <1>4, Numbers DEF Deciding, Origin, Reader
  <2>2. CASE 1 \notin Listing(p)
    BY <1>1, <1>2, <2>1, <2>2 DEF Uploaded, PositiveFile
  <2>3. CASE 1 \in Listing(p)
    <3>1. Listing(p) = {1, 2} /\ LineOf(1, p).type = "f"
      BY <1>1, <2>1, <2>3 DEF Uploaded
    <3>2. LineOf(2, p).type = "f"
      BY <1>4, <3>1 DEF Mismatched
    <3>3. LineOf(2, p).minus => Doubled
      BY <3>1, <3>2 DEF Doubled, MinusFile
    <3> QED
      BY <2>1, <3>1, <3>2, <3>3 DEF PositiveFile
  <2> QED
    BY <2>2, <2>3
<1> QED
  BY <1>3, <1>4

(* -f: there is no file for a line of the second transcript that is to go   *)
LEMMA CompareStops ==
  ASSUME Types, tran = was.tran, InOrder, StillThere, Compare, lm'.pc = "done"
  PROVE  ~opt.only /\ Hindered
<1>1. /\ lm.pc = "compare" /\ HasCand /\ lm.j \in Reader /\ lm \in MergeState
      /\ opt.force => lm.j = 2 /\ lm.candidate = 1 /\ Reader = {1, 2}
  BY Comparing
<1>2. ~Eof(lm.j) /\ Cand.path = Cur(lm.j).path /\ Match(lm.j)
  <2>1. ~(lm' = [lm EXCEPT !.j = lm.j + 1]) /\ ~Change(lm.j)
    BY <1>1 DEF Change, MergeState
  <2> QED
    BY <2>1 DEF Compare
<1>3. opt.force /\ Cur(lm.j).type = "f" /\ ~IsFile(files[lm.j][Cur(lm.j).path])
  BY <1>1, <1>2, MatchCases DEF MergeState
<1>4. lm.j = 2 /\ lm.candidate = 1 /\ Reader = {1, 2} /\ ~opt.only
  BY <1>1, <1>3, Numbers DEF Legal
<1>5. PICK p \in Path : p = Cur(2).path
  BY <1>1, <1>2, <1>4, Heads
<1>6. Cur(2) = LineOf(2, p) /\ 2 \in Still(p) /\ 2 \in Listing(p) /\ 1 \in Listing(p)
  BY <1>1, <1>2, <1>4, <1>5, Heads, CandFacts
<1>7. CASE LineOf(2, p).minus
  <2>1. Listing(p) = {1, 2}
    BY <1>4, <1>6 DEF Listing
  <2> QED
    BY <1>3, <1>4, <1>6, <1>7, <2>1 DEF Hindered, Doubled, MinusFile
<1>8. CASE ~LineOf(2, p).minus
  <2>1. files[2][p] = was.files[2][p] \/ ~IsFile(was.files[2][p])
    BY <1>1, <1>3, <1>6 DEF StillThere, Loop
  <2>2. ~IsFile(was.files[2][p]) /\ PositiveFile(LineOf(2, p))
    BY <1>3, <1>4, <1>5, <1>6, <1>8, <2>1 DEF PositiveFile
  <2> QED
    BY <1>4, <1>6, <2>2, FileMissing DEF Hindered
<1> QED
  BY <1>7, <1>8

(* There is no file to place, or there is something where it should be, or  *)
(* a file above                                                             *)
LEMMA PlaceStops ==
  ASSUME Types, MInv, CkAt("idle"), LoopInv, FilesSoFar, FromCand, OnlyDug, NoneToPlace, InOrder,
         Place, lm'.pc = "done"
  PROVE  ~opt.only /\ Hindered
<1>1. /\ lm.pc = "place" /\ HasCand /\ lm.pc \in Loop /\ Live /\ ~opt.only /\ lm \in MergeState /\ tran = was.tran
      /\ \A p : ~Placed(p)
  BY MergeParts, NotPlaced DEF Place, At, HasCand, Loop, Live, NoneToPlace, MInv, Others
<1>2. SUFFICES ASSUME ~Clashing PROVE Hindered
  BY <1>1 DEF Hindered
<1>3. PICK p0 \in Path : p0 = Cand.path
  BY <1>1, SourceTyped
<1>4. Filed(p0) /\ ~Mismatched(p0) /\ Source = was.files[Origin(p0)][p0] /\ Result = Target
  BY <1>1, <1>2, <1>3, CandFiled, PlacedFrom, ResultIs DEF Clashing
<1>5. /\ Result \in FileDir
      /\ \A p \in Path : NoMore(p) /\ Dug(p)
  BY <1>1, <1>2, ResultIs DEF FilesSoFar, OnlyDug
<1>6. ASSUME NEW p \in Path, IsFile(Result[p])
      PROVE  (Filed(p) /\ Still(p) = {}) \/ Kept(p)
  <2>1. Listed(p) \/ Kept(p)
    BY <1>1, <1>5, <1>6 DEF NoMore
  <2>2. CASE Listed(p)
    BY <1>1, <1>2, <2>2, ListedPassed, ListedFiled DEF Clashing
  <2> QED
    BY <2>1, <2>2
<1>7. CASE ~IsFile(Source)
  <2>1. Origin(p0) \in Listing(p0) /\ (PositiveFile(LineOf(Origin(p0), p0)) \/ Doubled)
    BY <1>4, FiledFrom
  <2> QED
    BY <1>4, <1>7, <2>1, FileMissing DEF Hindered
<1>8. CASE Target[p0] = Folder
  <2>1. (opt.force /\ was.files[2][p0] = Folder) \/ \E q \in Below(p0) : Filed(q)
    BY <1>4, <1>5, <1>8 DEF Dug
  <2>2. Below(p0) \subseteq Path
    BY BelowPaths
  <2> QED
    BY <1>4, <2>1, <2>2 DEF Hindered, Occupied, Nested
<1>9. CASE IsFile(Target[p0])
  <2>1. lm.candidate \in Still(p0) /\ lm.candidate \in Listing(p0)
    BY <1>1, <1>3, CandFacts
  <2>2. Kept(p0)
    BY <1>4, <1>6, <1>9, <2>1
  <2>3. opt.force /\ lm.candidate = 1 /\ Reader = {1, 2} /\ Still(p0) = {1}
    <3>1. opt.force /\ lm.candidate # 2 /\ lm.j > opt.n /\ Round
      BY <1>1, <2>2 DEF Kept, FromCand, LoopInv, Round, Stage
    <3>2. Still(p0) = {lm.candidate} /\ lm.candidate \in Reader
      BY <1>1, <1>3, <3>1, LastLeft, CandFacts
    <3> QED
      BY <3>1, <3>2, Numbers DEF Reader
  <2>4. was.files[2][p0] # Nothing
    BY <1>4, <1>9, <2>2 DEF Kept, IsFile
  <2>5. 2 \in Listing(p0) => LineOf(2, p0).type # "f"
    <3>1. 2 \in Listing(p0) => Listing(p0) = {1, 2}
      BY <2>1, <2>3 DEF Listing
    <3> QED
      BY <2>2, <2>3, <3>1 DEF Kept
  <2> QED
    BY <1>4, <2>3, <2>4, <2>5 DEF Hindered, Occupied
<1>10. CASE Blocked(Target, p0)
  <2>1. PICK q \in Above(p0) : IsFile(Result[q])
    BY <1>4, <1>10 DEF Blocked
  <2>2. q \in Path /\ p0 \in Below(q)
    BY <2>1, AbovePaths
  <2>3. CASE Filed(q)
    BY <1>4, <2>2, <2>3 DEF Hindered, Nested
  <2>4. CASE Kept(q)
    BY <1>4, <2>1, <2>4 DEF Kept, Hindered, Occupied
  <2> QED
    BY <1>6, <2>1, <2>2, <2>3, <2>4
<1>11. ~IsFile(Source) \/ Target[p0] # Nothing \/ Blocked(Target, p0)
  <2>1. lm' # [lm EXCEPT !.pc = "output"]
    BY <1>1 DEF MergeState
  <2> QED
    BY <1>3, <2>1 DEF Place, Free, Goto
<1> QED
  BY <1>7, <1>8, <1>9, <1>10, <1>11 DEF IsFile

(* -f: a directory that is to go is a file, or below one                    *)
LEMMA DirsStops ==
  ASSUME Types, MInv, CkAt("idle"), EndInv, FilesSoFar, DirsSoFar, InOrder, RemoveDirs, lm'.pc = "done"
  PROVE  ~opt.only /\ Hindered
<1>1. /\ lm.pc = "dirs" /\ opt.force /\ ~opt.only /\ lm \in MergeState /\ Live /\ \A q : ~Placed(q)
  BY MergeParts, Numbers, NotPlaced DEF RemoveDirs, At, MInv, Others, Legal, Live
<1>2. SUFFICES ASSUME ~Clashing PROVE Hindered
  BY <1>1 DEF Hindered
<1>3. /\ lm.dirlist # <<>> /\ Head(lm.dirlist) \notin Escaped
      /\ IsFile(files[2][Head(lm.dirlist)]) \/ Blocked(files[2], Head(lm.dirlist))
  BY <1>1 DEF RemoveDirs, Goto, MergeState
<1>4. 1 \in DOMAIN lm.dirlist /\ Head(lm.dirlist) = lm.dirlist[1] /\ lm.dirlist[1] \in Path
  BY <1>3, QueueTyped
<1>5. PICK p \in Path : p = Head(lm.dirlist)
  BY <1>4
<1>6. TakenAway(p)
  BY <1>1, <1>3, <1>4, <1>5 DEF DirsSoFar, QueueSorted, Queueing, TakenAway
<1>7. PICK q \in Above(p) \cup {p} : IsFile(files[2][q])
  BY <1>3, <1>5 DEF Blocked
<1>8. q \in Path /\ Result = files[2]
  BY <1>1, AbovePaths DEF Result
<1>9. Listed(q) \/ Kept(q)
  BY <1>1, <1>7, <1>8 DEF FilesSoFar, NoMore
<1>10. CASE Listed(q)
  <2>1. PositiveOf(q) /\ ~Mismatched(q)
    BY <1>1, <1>2, <1>8 DEF EndInv, Ended, Whole, Settled, Clashing
  <2>2. Filed(q)
    BY <1>8, <1>10, <2>1, ListedFiled
  <2> QED
    BY <1>1, <1>6, <1>7, <2>2 DEF Hindered, NoFolder
<1>11. CASE Kept(q)
  BY <1>1, <1>6, <1>7, <1>8, <1>11 DEF Kept, Hindered, NoFolder
<1> QED
  BY <1>9, <1>10, <1>11

(* Lines of sorted transcripts are not refused                              *)
LEMMA WriteGoesOn ==
  ASSUME Types, tran = was.tran, InOrder, AtLine, Output \/ Skip
  PROVE  lm'.pc # "done"
<1>1. HasCand /\ Next1 /\ lm.pc \in Loop /\ lm \in MergeState
  BY MergeParts DEF Output, Skip, HasCand, Loop, At
<1>2. lm.candidate \in Reader /\ ~Eof(lm.candidate)
  BY <1>1, CandTyped DEF HasCand
<1>3. ~NextBad(lm.candidate)
  BY <1>1, <1>2, NextGood
<1> QED
  BY <1>1, <1>3, GotoTyped DEF Next1, Goto

LEMMA FeasibleStep ==
  ASSUME IInv, RInv, GInv, WInv, [Next]_vars
  PROVE  MergeFeasible'
<1>0. /\ Types /\ MInv /\ LoopInv /\ EndInv /\ FilesSoFar /\ FromCand /\ DirsSoFar
      /\ AtLine /\ StillThere /\ OnlyDug /\ NoneToPlace /\ MergeFeasible
      /\ lm \in MergeState /\ Exits /\ faults \in Nat
  BY MergeParts, LoadSetsAssumption DEF IInv, RInv, GInv, WInv
<1>1. SUFFICES ASSUME exit' = "2", faults' = 0, InOrder'
               PROVE  ~opt'.only /\ (Hindered' \/ (~opt'.force /\ was'.files[0] # Bare))
  BY DEF MergeFeasible
<1>2. CASE Merge
  <2>1. MergeNext /\ CkAt("idle") /\ UNCHANGED <<opt, was>> /\ exit = "none"
    <3>1. MergeNext /\ CkAt("idle") /\ Merging /\ UNCHANGED <<opt, was>>
      BY <1>0, <1>2, MergeTypes DEF Merge
    <3> QED
      BY <1>0, <3>1 DEF Merging, Exits
  <2>2. lm'.pc = "done" /\ lm.pc \in Loop \cup {"dirs", "files", "trans", "flush"}
    <3>1. IInv'
      BY StepKeeps
    <3>2. Exits'
      BY <3>1 DEF IInv, Types, MergeTypeOK, Exits
    <3>3. Merging
      BY <1>0, <1>2, MergeTypes
    <3> QED
      BY <1>0, <1>1, <3>2, <3>3 DEF Exits, Loop, MergeState, Merging
  <2>3. InOrder /\ (lm.pc \notin {"flush", "done"} => tran = was.tran)
    BY <1>0, <1>1, <2>1, WasKept DEF MInv, Others
  <2>4. SUFFICES ~opt.only /\ (Hindered \/ (~opt.force /\ was.files[0] # Bare))
    BY <1>0, <2>1, HinderedKept
  <2>5. CASE Begin \/ Select \/ Decide \/ RenameTran \/ Crash \/ Flush
    BY <1>1, <2>1, <2>5 DEF Begin, Select, Decide, RenameTran, Crash, Flush, Stop
  <2>6. CASE Compare
    BY <1>0, <2>2, <2>3, <2>6, CompareStops DEF Compare, At
  <2>7. CASE Place
    BY <1>0, <2>1, <2>2, <2>3, <2>7, PlaceStops
  <2>8. CASE Output \/ Skip
    BY <1>0, <2>2, <2>3, <2>8, WriteGoesOn DEF Output, Skip, At
  <2>9. CASE RemoveDirs
    BY <1>0, <2>1, <2>2, <2>3, <2>9, DirsStops
  <2>10. CASE RenameFiles
    <3>1. lm.pc = "files" /\ ~opt.only /\ files[0] # Bare
      BY <1>1, <2>1, <2>10 DEF RenameFiles, At
    <3>2. ~opt.force /\ files[0] = was.files[0]
      BY <1>0, <2>1, <3>1 DEF MInv, Others
    <3> QED
      BY <3>1, <3>2
  <2>11. CASE Fails \/ Killed
    BY <1>0, <1>1, <2>11 DEF Fails, Killed
  <2> QED
    BY <2>1, <2>5, <2>6, <2>7, <2>8, <2>9, <2>10, <2>11 DEF MergeNext, MergeStep
<1>3. CASE Cksum \/ UNCHANGED vars
  <2>1. UNCHANGED <<opt, was, exit>>
    <3>1. CASE Cksum
      BY <1>0, <3>1, CksumTypes DEF mergeOwn
    <3>2. CASE UNCHANGED vars
      BY <3>2 DEF vars, mergeOwn
    <3> QED
      BY <1>3, <3>1, <3>2
  <2>2. faults' \in {faults, faults + 1}
    BY <1>3 DEF Cksum, CkStart, CkNext, CkStep, CkOpen, CkLine, CkEof, CkTorn, CkEnd, CkFinish, CkFails, CkKilled, vars
  <2>3. faults = 0 /\ InOrder
    BY <1>0, <1>1, <2>1, <2>2, WasKept
  <2> QED
    BY <1>0, <1>1, <2>1, <2>3, HinderedKept DEF MergeFeasible
<1> QED
  BY <1>2, <1>3 DEF Next

LEMMA InitFeasible == Init => WInv
<1> SUFFICES ASSUME Init PROVE WInv
  OBVIOUS
<1>1. PICK b \in Jobs : MergeInit(b) /\ CkIdle(b.ck)
  BY DEF Init
<1>2. /\ Types /\ exit = "none" /\ lm.pc \in {"begin", "off"} /\ tmp = Bare
      /\ tran = was.tran /\ files = was.files /\ rd = [r \in 1..NTran |-> FirstLine(tran[r])]
  BY <1>1, InitTypes DEF MergeInit
<1>3. AtLine
  <2>1. ASSUME NEW r \in Reader, ~Eof(r) PROVE rd[r].pre <= Cur(r).path
    <3>1. /\ r \in 1..NTran /\ tran[r] \in Seq(Line) /\ rd[r].at = 1
          /\ rd[r].pre = IF tran[r] = <<>> THEN 0 ELSE tran[r][1].path
      BY <1>2, Numbers, ReaderTyped DEF FirstLine
    <3>2. 1 \in DOMAIN tran[r] /\ tran[r] # <<>>
      BY <2>1, <3>1 DEF Eof
    <3>3. tran[r][1].path \in Nat
      BY <1>2, <3>1, <3>2, LineTyped
    <3> QED
      BY <3>1, <3>2, <3>3 DEF Cur
  <2> QED
    BY <2>1 DEF AtLine
<1>4. StillThere /\ NoneToPlace /\ MergeFeasible
  BY <1>2 DEF StillThere, NoneToPlace, MergeFeasible
<1>5. OnlyDug
  BY <1>2 DEF OnlyDug, Dug, Result, Bare, Nothing, Folder
<1> QED
  BY <1>3, <1>4, <1>5 DEF WInv

(* lmerge of sorted transcripts, without an error of the system, stops      *)
(* before its end only if something is in the way that was there, or        *)
(* missing, when it was called: never for something that it has written,    *)
(* placed, removed or made itself                                           *)
THEOREM FeasibleEver == Spec => []MergeFeasible
<1>1. IInv /\ RInv /\ GInv /\ WInv /\ [Next]_vars => WInv'
  <2> SUFFICES ASSUME IInv, RInv, GInv, WInv, [Next]_vars PROVE WInv'
    OBVIOUS
  <2>1. AtLine' /\ StillThere' /\ OnlyDug' /\ NoneToPlace'
    BY AtLineStep, StillThereStep, OnlyDugStep, NoneToPlaceStep DEF WInv, RInv, GInv
  <2> QED
    BY <2>1, FeasibleStep DEF WInv
<1>2. WInv => MergeFeasible
  BY DEF WInv
<1> QED
  BY <1>1, <1>2, InitFeasible, PlacedInvariance, PTL DEF Spec
=============================================================================
