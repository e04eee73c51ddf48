------------------------------- MODULE Lmerge -------------------------------
(****************************************************************************)
(* lmerge merges transcripts, the one with the highest precedence first,    *)
(* and links or copies their files (lmerge.c).                              *)
(*                                                                          *)
(* Transcripts are numbered from 1 here and from 0 in the code.  All of     *)
(* them are below one radmind directory.  The new transcript is buffered    *)
(* by stdio, and nothing closes the stream: before exit() any part of it    *)
(* may have reached the disk.                                               *)
(****************************************************************************)
EXTENDS LoadSets

CONSTANTS
  Jobs,     \* what the tools are called with: set of [tran, files, merge, opt, ck]
  Escaped   \* paths that are not written literally in a transcript

VARIABLES
  opt,    \* force (-f), noupload (-n), only (-T), copy (-C), n: how many transcripts
  was,    \* the repository as it was found
  rd,     \* rd[r]: the line reader r is at, and the path before it (t_prepath)
  lm,     \* pc, i, candidate, fileloc, match, j, dirlist
  tmp,    \* the file directory <name>.<pid>
  out,    \* all that has been written to <name>.<pid>
  exit

mergeOwn  == <<opt, was, rd, lm, tmp, out, exit>>
mergeVars == <<repository, mergeOwn, faults>>

Options == [force : BOOLEAN, noupload : BOOLEAN, only : BOOLEAN, copy : BOOLEAN, n : 1..NTran]

(* What main() does not refuse; -n with -f is not in the manual             *)
Legal(o) ==
  /\ o.force => ~o.only /\ ~o.noupload
  /\ o.only => ~o.copy
  /\ o.n >= 2 /\ (o.noupload \/ o.force => o.n = 2)

ASSUME LmergeAssumption == \A b \in Jobs : b.opt \in Options /\ Legal(b.opt)

Reader == 1..opt.n
Dest   == IF opt.force THEN 2 ELSE 0

Eof(r) == rd[r].at > Len(tran[r])
Cur(r) == tran[r][rd[r].at]
Cand   == Cur(lm.candidate)

At(pc) == lm.pc = pc
Goto(pc) == lm' = [lm EXCEPT !.pc = pc]
Stop(status) == lm' = [lm EXCEPT !.pc = "done"] /\ exit' = status
-----------------------------------------------------------------------------
(* getnextline(): the next line, and whether it is in order; the path of    *)
(* one that is not does not become t_prepath                                *)
NextBad(r) ==
  /\ rd[r].at < Len(tran[r])
  /\ tran[r][rd[r].at + 1].path <= rd[r].pre

Advanced(r) ==
  [rd EXCEPT ![r] = [at |-> @.at + 1,
     pre |-> IF NextBad(r) \/ @.at >= Len(tran[r]) THEN @.pre ELSE tran[r][@.at + 1].path]]

FirstLine(lines) == [at |-> 1, pre |-> IF lines = <<>> THEN 0 ELSE lines[1].path]

(* The destination is created if it is missing, and <name>.<pid>            *)
Begin ==
  /\ At("begin")
  /\ Goto("select")
  /\ UNCHANGED <<repository, opt, was, rd, tmp, out, exit, faults>>

(* The head of both loops                                                   *)
Select ==
  /\ At("select")
  /\ lm' = IF lm.i > opt.n THEN [lm EXCEPT !.pc = IF opt.force THEN "dirs" ELSE "files"]
           ELSE IF Eof(lm.i) THEN [lm EXCEPT !.i = @ + 1]
           ELSE LET last == opt.force /\ lm.i = opt.n
                IN  [lm EXCEPT !.candidate = lm.i, !.fileloc = lm.i, !.match = last,
                               !.pc = IF last THEN "output" ELSE "compare", !.j = lm.i + 1]
  /\ UNCHANGED <<repository, opt, was, rd, tmp, out, exit, faults>>

(* strcmp() of the arguments of size and checksum.  A line of another type  *)
(* does not have them: what is there, if anything, is of an earlier line.   *)
SameFile(j) == IF Cur(j).type = "f" THEN {Cand.data = Cur(j).data} ELSE BOOLEAN

(* Mutant: the file is left in the transcript that it is removed from       *)
RemoveNone(j) == files' = files

(* -f: the file of the lower transcript is removed before the new is put    *)
(* in its place                                                             *)
RemoveFile(j) == files' = [files EXCEPT ![j][Cur(j).path] = Nothing]

Match(j) ==
  \E same \in SameFile(j) :
    LET fileCase == opt.noupload /\ Cand.type = "f"
        matched  == [lm EXCEPT !.match = TRUE, !.fileloc = IF fileCase THEN j ELSE @]
    IN  \/ /\ fileCase /\ ~same
           /\ lm' = [lm EXCEPT !.match = TRUE, !.pc = "skip"]
           /\ UNCHANGED <<files, rd, exit>>
        \/ /\ ~fileCase \/ same
           /\ opt.force /\ Cur(j).type = "f"
           /\ IF IsFile(files[j][Cur(j).path])
              THEN /\ RemoveFile(j)
                   /\ rd' = Advanced(j) /\ lm' = [matched EXCEPT !.j = j + 1]
                   /\ exit' = exit
              ELSE Stop("2") /\ UNCHANGED <<files, rd>>
        \/ /\ ~fileCase \/ same
           /\ ~(opt.force /\ Cur(j).type = "f")
           /\ rd' = Advanced(j) /\ lm' = [matched EXCEPT !.j = j + 1]
           /\ UNCHANGED <<files, exit>>

(* A transcript with a lower path takes over, whatever has matched before   *)
Change(j) == lm' = [lm EXCEPT !.candidate = j, !.fileloc = j, !.j = j + 1]

(* One turn of the loop over the transcripts of lower precedence            *)
Compare ==
  /\ At("compare") /\ lm.j <= opt.n
  /\ LET j == lm.j
     IN  \/ /\ ~Eof(j) => Cand.path < Cur(j).path
            /\ lm' = [lm EXCEPT !.j = j + 1]
            /\ UNCHANGED <<files, rd, exit>>
         \/ /\ ~Eof(j) /\ Cand.path > Cur(j).path
            /\ Change(j)
            /\ UNCHANGED <<files, rd, exit>>
         \/ ~Eof(j) /\ Cand.path = Cur(j).path /\ Match(j)
  /\ UNCHANGED <<tran, torn, opt, was, tmp, out, faults>>

(* ... and reading an argument that is not there may as well end it         *)
Crash ==
  /\ At("compare") /\ lm.j <= opt.n /\ opt.noupload
  /\ ~Eof(lm.j) /\ Cand.path = Cur(lm.j).path
  /\ Cand.type = "f" /\ Cur(lm.j).type # "f"
  /\ Stop("crash")
  /\ UNCHANGED <<repository, opt, was, rd, tmp, out, faults>>

(* Mutants: a line that is not written because it is in the first of two    *)
(* transcripts that were not uploaded; minus lines are written as they are  *)
HiddenAll  == Cand.minus \/ (opt.noupload /\ lm.candidate = 1)
HiddenNone == opt.noupload /\ lm.candidate = 1 /\ lm.fileloc = 1

Hidden == Cand.minus \/ (opt.noupload /\ lm.candidate = 1 /\ lm.fileloc = 1)

(* The directories to be removed, those below first                         *)
Queued == <<Cand.path>> \o lm.dirlist

Decide ==
  /\ At("compare") /\ lm.j > opt.n
  /\ lm' = CASE opt.force /\ lm.candidate = 2 -> [lm EXCEPT !.pc = "output"]
             [] ~(opt.force /\ lm.candidate = 2) /\ Hidden ->
                  [lm EXCEPT !.pc = "skip",
                     !.dirlist = IF lm.match /\ opt.force /\ Cand.type = "d" THEN Queued ELSE @]
             [] OTHER -> [lm EXCEPT !.pc = IF Cand.type # "f" \/ opt.only THEN "output" ELSE "place"]
  /\ UNCHANGED <<repository, opt, was, rd, tmp, out, exit, faults>>
-----------------------------------------------------------------------------
(* Where the files go, and what puts them there                             *)
Target == IF opt.force THEN files[2] ELSE tmp
SetTarget(fd) ==
  IF opt.force THEN files' = [files EXCEPT ![2] = fd] /\ tmp' = tmp
  ELSE tmp' = fd /\ files' = files

Source == files[lm.fileloc][Cand.path]
Free   == Target[Cand.path] = Nothing /\ ~Blocked(Target, Cand.path)

Put(x) == SetTarget([MkDirs(Target, Cand.path) EXCEPT ![Cand.path] = x])

(* What the first call leaves if the source is missing or a directory:      *)
(* link() has the directories made, unless it refuses a directory at once;  *)
(* copy_file() can open a directory, and creates the destination before it  *)
(* reads                                                                    *)
NoSource ==
  IF opt.copy
  THEN IF Source = Folder /\ Free THEN Put(Part) ELSE UNCHANGED <<files, tmp>>
  ELSE \/ ~Blocked(Target, Cand.path) /\ SetTarget(MkDirs(Target, Cand.path))
       \/ (Source = Folder \/ Blocked(Target, Cand.path)) /\ UNCHANGED <<files, tmp>>

Place ==
  /\ At("place")
  /\ IF ~IsFile(Source) THEN Stop("2") /\ NoSource
     ELSE IF ~Free THEN Stop("2") /\ UNCHANGED <<files, tmp>>
     ELSE Put(Source) /\ Goto("output") /\ exit' = exit
  /\ UNCHANGED <<tran, torn, opt, was, rd, out, faults>>

(* The line is done with: the next one of the candidate has to be in order  *)
Next1 ==
  /\ rd' = Advanced(lm.candidate)
  /\ IF NextBad(lm.candidate) THEN Stop("2") ELSE Goto("select") /\ exit' = exit

Output ==
  /\ At("output")
  /\ out' = Append(out, Cand)
  /\ Next1
  /\ UNCHANGED <<repository, opt, was, tmp, faults>>

Again == Cand.minus /\ ~lm.match /\ ~(opt.force /\ lm.candidate = 2)

Skip ==
  /\ At("skip")
  /\ out' = IF Again THEN Append(out, Cand) ELSE out
  /\ Next1
  /\ UNCHANGED <<repository, opt, was, tmp, faults>>
-----------------------------------------------------------------------------
(* -f: directories that were listed with a minus; the name is the one in    *)
(* the line, not decoded                                                    *)
Gone(p) ==
  /\ p \notin Escaped /\ files[2][p] = Folder
  /\ \A q \in Below(p) : files[2][q] = Nothing

RemoveDirs ==
  /\ At("dirs")
  /\ IF lm.dirlist = <<>> THEN Goto("trans") /\ UNCHANGED <<files, exit>>
     ELSE LET p == Head(lm.dirlist)
          IN  IF p \notin Escaped /\ (IsFile(files[2][p]) \/ Blocked(files[2], p))
              THEN Stop("2") /\ files' = files
              ELSE /\ lm' = [lm EXCEPT !.dirlist = Tail(@)] /\ exit' = exit
                   /\ files' = IF Gone(p) THEN [files EXCEPT ![2][p] = Nothing] ELSE files
  /\ UNCHANGED <<tran, torn, opt, was, rd, tmp, out, faults>>

(* Mutant: what is in the place of the file directory is replaced           *)
RenameFilesOver ==
  /\ At("files")
  /\ IF opt.only THEN Goto("trans") /\ UNCHANGED <<files, tmp>>
     ELSE files' = [files EXCEPT ![0] = tmp] /\ tmp' = Bare /\ Goto("trans")
  /\ UNCHANGED <<tran, torn, opt, was, rd, out, exit, faults>>

(* rename() of the file directory, which must not hold anything yet         *)
RenameFiles ==
  /\ At("files")
  /\ IF opt.only THEN Goto("trans") /\ UNCHANGED <<files, tmp, exit>>
     ELSE IF files[0] # Bare THEN Stop("2") /\ UNCHANGED <<files, tmp>>
     ELSE files' = [files EXCEPT ![0] = tmp] /\ tmp' = Bare /\ Goto("trans") /\ exit' = exit
  /\ UNCHANGED <<tran, torn, opt, was, rd, out, faults>>

(* rename() of the transcript, as much of it as has been written            *)
RenameTran ==
  /\ At("trans")
  /\ Partly(Dest, out)
  /\ Goto("flush")
  /\ UNCHANGED <<files, opt, was, rd, tmp, out, exit, faults>>

(* exit( 0 ) writes what is left, and does not tell if it cannot            *)
Flush ==
  /\ At("flush")
  /\ Stop("0")
  /\ \/ tran' = [tran EXCEPT ![Dest] = out] /\ torn' = torn \ {Dest} /\ faults' = faults
     \/ faults < MaxFaults /\ faults' = faults + 1 /\ UNCHANGED <<tran, torn>>
  /\ UNCHANGED <<files, opt, was, rd, tmp, out>>

(* A call fails, or the process is killed: nothing is taken back.  A file   *)
(* that is being copied may be left in part.                                *)
Cut ==
  \/ UNCHANGED <<files, tmp>>
  \/ At("place") /\ opt.copy /\ IsFile(Source) /\ Free /\ Put(Part)

Fails ==
  /\ lm.pc \notin {"flush", "done", "off"} /\ faults < MaxFaults
  /\ faults' = faults + 1
  /\ Stop("2") /\ Cut
  /\ UNCHANGED <<tran, torn, opt, was, rd, out>>

Killed ==
  /\ lm.pc \notin {"done", "off"} /\ faults < MaxFaults
  /\ faults' = faults + 1
  /\ Stop("killed") /\ Cut
  /\ UNCHANGED <<tran, torn, opt, was, rd, out>>
-----------------------------------------------------------------------------
(* lmerge is called for job b, or is not ("off")                            *)
MergeInit(b) ==
  /\ tran = b.tran /\ files = b.files /\ torn = {} /\ opt = b.opt
  /\ was = [tran |-> b.tran, files |-> b.files]
  /\ rd = [r \in 1..NTran |-> FirstLine(b.tran[r])]
  /\ lm = [pc |-> IF b.merge THEN "begin" ELSE "off", i |-> 1, candidate |-> 1, fileloc |-> 1,
           match |-> FALSE, j |-> 2, dirlist |-> <<>>]
  /\ tmp = Bare /\ out = <<>> /\ exit = "none" /\ faults = 0

MergeStep ==
  \/ Begin \/ Select \/ Compare \/ Crash \/ Decide \/ Place \/ Output \/ Skip
  \/ RemoveDirs \/ RenameFiles \/ RenameTran \/ Flush

MergeNext == MergeStep \/ Fails \/ Killed

MergeState ==
  [pc : {"begin", "select", "compare", "place", "output", "skip", "dirs", "files", "trans",
         "flush", "done", "off"},
   i : 1..(NTran + 1), candidate : 1..NTran, fileloc : 1..NTran, match : BOOLEAN,
   j : 2..(NTran + 1), dirlist : Seq(Path)]

MergeTypeOK ==
  /\ tran \in [Tran -> Seq(Line)] /\ files \in [Tran -> FileDir] /\ tmp \in FileDir
  /\ opt \in Options /\ Legal(opt)
  /\ rd \in [1..NTran -> [at : Nat \ {0}, pre : Path \cup {0}]]
  /\ lm \in MergeState
  /\ lm.pc \in {"compare", "place", "output", "skip"} => ~Eof(lm.candidate)
  /\ out \in Seq(Line)
  /\ exit \in {"none", "0", "2", "crash", "killed"} /\ (exit = "none" <=> lm.pc # "done")
  /\ faults \in 0..MaxFaults
-----------------------------------------------------------------------------
(****************************************************************************)
(* What lmerge(1) promises, in terms of whole transcripts                   *)
(****************************************************************************)
Listing(p)   == { r \in Reader : \E k \in DOMAIN was.tran[r] : was.tran[r][k].path = p }
LineOf(r, p) == was.tran[r][CHOOSE k \in DOMAIN was.tran[r] : was.tran[r][k].path = p]
Winner(p)    == CHOOSE r \in Listing(p) : \A q \in Listing(p) : r <= q

InOrder == \A r \in Reader : Sorted(was.tran[r])

(* The transcript that has the file of p: with -n the last one              *)
Origin(p) == IF opt.noupload THEN 2 ELSE Winner(p)

(* lmerge(1) on -n: "All files listed in the highest precedence transcript  *)
(* must be in the file directory associated with the lowest".  Where one is *)
(* not, the manual does not say what happens; and what is no file lmerge    *)
(* drops, with the line that it matches, against the manual.  Of both it is *)
(* only said that nothing is made up.                                       *)
Unlike(p) ==
  /\ opt.noupload /\ 1 \in Listing(p)
  /\ ~(Listing(p) = {1, 2} /\ \A r \in {1, 2} : LineOf(r, p).type = "f" /\ LineOf(r, p).data = LineOf(1, p).data)

(* lmerge(1): "the transcript line from the highest precedence transcript   *)
(* is written", but not if it "is preceded with a '-'" (of those lines see  *)
(* below); nothing else is; and the new transcript is sorted                *)
PositiveExact ==
  exit = "0" /\ InOrder =>
    /\ Sorted(out)
    /\ \A p \in Path :
         LET lines   == { LineOf(r, p) : r \in Listing(p) }
             written == { out[k] : k \in { m \in DOMAIN out : out[m].path = p /\ ~out[m].minus } }
         IN  IF Unlike(p) THEN written \subseteq lines
             ELSE written = { l \in lines : l = LineOf(Winner(p), p) /\ ~l.minus }

(* Minus lines are written all the same: the manual (lmerge.1:55-57) does   *)
(* not have that, the comment in the code does: "Recreate unmatched - line" *)
(* (lmerge.c:690).  This is the comment's promise.  Of two transcripts, a   *)
(* minus line is in the new one exactly if the other does not list the      *)
(* path.  Of three, one of the first is written at least then, and what is  *)
(* written has won; but one of a lower transcript may be lost, since the    *)
(* match is remembered when another transcript takes over.                  *)
MinusRecreated ==
  exit = "0" /\ InOrder =>
    LET written == { out[k] : k \in { m \in DOMAIN out : out[m].minus } }
        alone   == { l \in UNION { {LineOf(Winner(p), p)} : p \in { q \in Path : Cardinality(Listing(q)) = 1 } } :
                       l.minus }
        winning == { l \in UNION { {LineOf(Winner(p), p)} : p \in { q \in Path : Listing(q) # {} } } :
                       l.minus }
    IN  /\ opt.n = 2 /\ ~opt.noupload => written = alone
        /\ written \subseteq winning \/ opt.noupload
        /\ \A l \in alone : Winner(l.path) = 1 => l \in written

(* lmerge(1): the files of the new transcript are those of the transcripts  *)
(* that its lines come from (with -n of the lower one), and there are no    *)
(* others; with -f, files stay that the second did not list, and a file     *)
(* that the second has lost stays lost: its place may be a directory's now  *)
FilesPlaced ==
  exit = "0" /\ InOrder /\ ~opt.only =>
    \A p \in Path :
      LET fd == files[Dest]
          listed == \E k \in FileLines(out) : out[k].path = p
      IN  /\ listed =>
               \/ fd[p] = was.files[Origin(p)][p]
               \/ opt.force /\ Listing(p) = {2} /\ was.files[2][p] = Nothing /\ fd[p] = Folder
          /\ IsFile(fd[p]) => listed \/
               /\ opt.force /\ fd[p] = was.files[2][p]
               /\ Listing(p) = {1, 2} => LineOf(2, p).type # "f"

(* The directories that -f takes away: the names are not decoded            *)
TakenAway(p) ==
  p \notin Escaped /\ Listing(p) = {1, 2} /\ LineOf(1, p).minus /\ LineOf(1, p).type = "d"

(* -f: directories that the first transcript takes away are gone, those     *)
(* above as well as those below, unless something else is left in them      *)
DirsRemoved ==
  exit = "0" /\ opt.force /\ InOrder =>
    \A p \in Path : TakenAway(p) /\ files[2][p] = Folder =>
      \E q \in Below(p) : files[2][q] # Nothing /\ ~TakenAway(q)

(* If every loadset was complete, then whatever happens, at any moment,     *)
(* each one still is: the file directory is there before the transcript,    *)
(* and what was there is not touched                                        *)
AlwaysBacked ==
  ~opt.force /\ ~opt.only /\ InOrder /\ (\A t \in Tran : Complete(was.tran[t], was.files[t])) =>
    \A t \in Tran : Backed(tran[t], files[t])

(* -f works in place.  Wherever it ends, the transcript is the old one, or  *)
(* the new one in part or whole with all its files; paths that the first    *)
(* transcript does not list, and the first loadset, are as they were.       *)
OthersKept ==
  opt.force /\ InOrder =>
    /\ tran[1] = was.tran[1] /\ files[1] = was.files[1]
    /\ \A p \in Path : Listing(p) = {2} => (IsFile(was.files[2][p]) => files[2][p] = was.files[2][p])
    /\ tran[2] # was.tran[2] /\ (\A t \in {1, 2} : Backed(was.tran[t], was.files[t])) =>
         Backed(tran[2], files[2])

(* A line out of order goes unnoticed only where the line before it has     *)
(* been matched by a transcript of higher precedence                        *)
OrderChecked ==
  exit = "0" => \A r \in Reader : \A k \in 2..Len(was.tran[r]) :
    was.tran[r][k].path <= was.tran[r][k - 1].path =>
      \E q \in 1..(r - 1) : \E m \in DOMAIN was.tran[q] :
        was.tran[q][m].path = was.tran[r][k - 1].path

(* The new transcript has, in order, the lines that lmerge(1) promises, and *)
(* of minus lines those of the code's own comment; and an old one that is   *)
(* out of order is noticed                                                  *)
MergeExact == PositiveExact /\ MinusRecreated /\ OrderChecked

(* The lines that lmerge goes by, as it is built.  With -n, those of files  *)
(* of the first transcript only if the second has the same; what is no file *)
(* in the first counts for nothing, nor does the line it matches.           *)
Uploaded(p) ==
  IF 1 \notin Listing(p) THEN {LineOf(2, p)}
  ELSE IF Listing(p) = {1} \/ LineOf(1, p).type # "f" THEN {}
  ELSE IF LineOf(1, p).data = LineOf(2, p).data THEN {LineOf(1, p)} ELSE {LineOf(2, p)}

Deciding(p) ==
  IF Listing(p) = {} THEN {} ELSE IF opt.noupload THEN Uploaded(p) ELSE {LineOf(Winner(p), p)}

(* -n compares what is not there                                            *)
Mismatched(p) ==
  opt.noupload /\ Listing(p) = {1, 2} /\ LineOf(1, p).type = "f" /\ LineOf(2, p).type # "f"

(* A file that it means to place; a minus line of a file                    *)
Filed(p)     == \E l \in Deciding(p) : l.type = "f" /\ ~l.minus
MinusFile(l) == l.type = "f" /\ l.minus

(* What is in the way of sorted transcripts: a file is missing; one is to   *)
(* be below another; with -f, something that the second transcript does not *)
(* list as a file is in the place of a file, or there is a file in the      *)
(* place of a directory, to be made or to be removed; there is a second     *)
(* line for the path of a file, a minus line, or with -n one of another     *)
(* type.                                                                    *)
Missing  == \E r \in Reader : \E k \in FileLines(was.tran[r]) : ~IsFile(was.files[r][was.tran[r][k].path])
Nested   == \E p, q \in Path : Filed(p) /\ Filed(q) /\ q \in Below(p)
Occupied ==
  opt.force /\ \E p \in Path : Filed(p) /\
    \/ was.files[2][p] = Folder \/ \E q \in Above(p) : IsFile(was.files[2][q])
    \/ was.files[2][p] # Nothing /\ (2 \in Listing(p) => LineOf(2, p).type # "f")
NoFolder ==
  opt.force /\ \E p \in Path : TakenAway(p) /\
    \E q \in Above(p) \cup {p} : IsFile(was.files[2][q]) \/ Filed(q)
Doubled  == \E p \in Path : (opt.force \/ Filed(p)) /\ Listing(p) = {1, 2} /\ MinusFile(LineOf(2, p))
Clashing == \E p \in Path : Mismatched(p)

Hindered == Missing \/ Nested \/ Occupied \/ NoFolder \/ Doubled \/ Clashing

(* Without an error of the system, sorted transcripts are merged unless     *)
(* the destination has files or one of those reasons is there: lmerge does  *)
(* not stop half way for anything that it has done itself                   *)
MergeFeasible ==
  exit = "2" /\ faults = 0 /\ InOrder =>
    ~opt.only /\ (Hindered \/ (~opt.force /\ was.files[0] # Bare))
=============================================================================
