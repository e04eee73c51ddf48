------------------------------ MODULE LoadSets ------------------------------
(****************************************************************************)
(* The loadsets of a radmind server, as its tools find them: transcripts,   *)
(* and for each a directory with the files that it lists (root.c,           *)
(* mkdirs.c).  Shared by the modules of the tools.                          *)
(*                                                                          *)
(* As in module RadFS a path is its rank in the order of pathcasecmp(),     *)
(* and what is below p are the ranks up to Last[p].                         *)
(****************************************************************************)
EXTENDS Naturals, Sequences, FiniteSets

CONSTANTS
  NPath,
  Last,
  Data,   \* what files contain: size and checksum
  NTran,  \* transcripts are 1..NTran; 0 is one that lmerge makes
  MaxFaults \* bound on calls that fail, and kills

NoData   == "-"     \* the checksum of a line made without -c
Nothing  == "none"  \* there is no such file
Folder   == "dir"
Part     == "part"  \* a file of which only a part has been copied

Path == 1..NPath
Tran == 0..NTran

ASSUME LoadSetsAssumption ==
  /\ NPath \in Nat \ {0} /\ NTran \in Nat /\ MaxFaults \in Nat
  /\ Last \in [Path -> Path]
  /\ \A p \in Path : p <= Last[p]
  /\ \A p, q \in Path : q \in p..Last[p] => Last[q] <= Last[p]
  /\ {NoData, Nothing, Folder, Part} \cap Data = {}

(* "f" stands for 'a', too, and "l" for all that is neither file nor        *)
(* directory; mtime is 2 if it is the one of the file in the repository     *)
Line == [path : Path, minus : BOOLEAN, type : {"d", "f", "l"},
         data : Data \cup {NoData, Part}, mtime : {1, 2}]

IsFile(x) == x \notin {Nothing, Folder}

FileDir == [Path -> Data \cup {Nothing, Folder, Part}]
Bare    == [p \in Path |-> Nothing]

Above(p) == { q \in 1..(p - 1) : p <= Last[q] }
Below(p) == (p + 1)..Last[p]

VARIABLES
  tran,  \* tran[t]: the lines of transcript t; one that is missing has none
  files, \* files[t]: its file directory
  torn,  \* transcripts that have a piece of a line, without its newline, after these
  faults \* how many calls have failed, and kills

repository == <<tran, files, torn>>

(* What stdio has written of the lines of t before exit(): some, and maybe  *)
(* a piece of the next                                                      *)
Partly(t, lines) ==
  \E k \in 0..Len(lines) :
    /\ tran' = [tran EXCEPT ![t] = SubSeq(lines, 1, k)]
    /\ \/ torn' = torn \ {t}
       \/ k < Len(lines) /\ torn' = torn \cup {t}

(* mkdirs() for file p                                                      *)
MkDirs(fd, p) == [q \in Path |-> IF q \in Above(p) /\ fd[q] = Nothing THEN Folder ELSE fd[q]]

Blocked(fd, p) == \E q \in Above(p) : IsFile(fd[q])

(* The lines of files that should be in the file directory                  *)
FileLines(lines) == { k \in DOMAIN lines : lines[k].type = "f" /\ ~lines[k].minus }

Sorted(lines) == \A k, m \in DOMAIN lines : k < m => lines[k].path < lines[m].path

(* What a loadset promises its clients: the files are what the lines say    *)
Backed(lines, fd) == \A k \in FileLines(lines) : fd[lines[k].path] = lines[k].data

(* ... and there are no others                                              *)
Complete(lines, fd) ==
  /\ Backed(lines, fd)
  /\ \A p \in Path : IsFile(fd[p]) => \E k \in FileLines(lines) : lines[k].path = p
=============================================================================
