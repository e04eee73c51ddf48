------------------------------- MODULE Fsdiff -------------------------------
(****************************************************************************)
(* fsdiff(1): the walk of the file system merged with the transcripts of    *)
(* the command file.  fs_walk() (fsdiff.c) recurses over the directories    *)
(* and calls transcript() (transcript.c) for every object; transcript()     *)
(* moves all transcripts forward to that object and prints an edit for      *)
(* every difference it passes.                                              *)
(*                                                                          *)
(* The recursion is a stack of frames, one for each directory being read.   *)
(* One action is one iteration of transcript_select()'s loop, of            *)
(* transcript()'s loop or of a loop of fs_walk().  The file system does not *)
(* change while it is read.                                                 *)
(****************************************************************************)
EXTENDS TreeDiff

VARIABLES
  pos,      \* pos[r]: the line transcript r has parsed; past the end at eof
  stack,    \* the active calls of fs_walk(), the innermost first
  pc,       \* which loop is running
  subj,     \* the object transcript() was called for, and its parent_minus
  fsMinus,  \* fs_minus: did the current call print a '-'?
  link,     \* link[i]: the first name met for inode i, 0 if none (i_name)
  changed,  \* the inodes whose i_flag is set
  prevTran, \* prev_tran: the transcript whose name was printed last, or 0
  out       \* the edits printed

given == <<fs, node, cmd, opt>>
local == <<stack, pc, subj, fsMinus, link, changed, prevTran, out>>
vars  == <<given, pos, local>>

Eof(r)  == pos[r] > Len(Tran[r].lines)
Cur(r)  == Tran[r].lines[pos[r]]

Frame == [kind : {"dir", "negative"}, path : Path, kids : SUBSET Path,
          del : BOOLEAN]
Edit  == [hdr : Nat, op : {"", "+", "-"}, path : Path, obj : Obj]
Subject == [path : Path, obj : Obj \cup {Missing}, inode : Inode \cup {0},
            del : BOOLEAN]
-----------------------------------------------------------------------------
(* transcript_select()                                                      *)

AllEof == \A r \in Readers : Eof(r)

(* Is r the first of the readers whose line has the least path?             *)
Selected(r) ==
  /\ ~Eof(r)
  /\ \A q \in Readers : ~Eof(q) =>
       /\ Cur(r).path <= Cur(q).path
       /\ q < r => Cur(r).path < Cur(q).path

(* Mutant: the readers of lower precedence are left where they are          *)
PassedAlone(r) == pos

(* Readers of lower precedence that describe the path of r move on, and so  *)
(* does r itself once its line has been dealt with                          *)
Passed(r) ==
  [q \in Readers |->
     IF q > r /\ ~Eof(q) /\ Cur(q).path = Cur(r).path
     THEN pos[q] + 1 ELSE pos[q]]
Consumed(r) == [Passed(r) EXCEPT ![r] = @ + 1]

(* Mutant: a minus line counts as any other                                 *)
HiddenKeepsMinus(r) ==
  \/ Tran[r].kind # "special" /\ Excluded(Cur(r).path)
  \/ ~Inside(Cur(r).path, Prefix)

(* The lines transcript_select() pretends not to see                        *)
Hidden(r) ==
  \/ Cur(r).minus
  \/ Tran[r].kind # "special" /\ Excluded(Cur(r).path)
  \/ ~Inside(Cur(r).path, Prefix)

(* transcript_parse() refuses a line that does not sort after the previous  *)
(* one, and the program exits                                               *)
BadOrder(r) ==
  /\ pos[r] \in 2..Len(Tran[r].lines)
  /\ Cur(r).path <= Tran[r].lines[pos[r] - 1].path

Failed  == \E r \in Readers : BadOrder(r)
Running == pc # "done" /\ ~Failed

Selecting == pc \in {"excluded", "compare", "drain", "select"}

(* Mutant: a hidden line is passed over without reading the next one        *)
SelectStays ==
  /\ Selecting
  /\ \E r \in Readers : Selected(r) /\ Hidden(r) /\ pos' = Passed(r)
  /\ pc' = pc
  /\ UNCHANGED <<given, stack, subj, fsMinus, link, changed, prevTran, out>>

(* One iteration of the loop that ends in "continue"                        *)
SelectSkip ==
  /\ Selecting
  /\ \E r \in Readers : Selected(r) /\ Hidden(r) /\ pos' = Consumed(r)
  /\ pc' = pc
  /\ UNCHANGED <<given, stack, subj, fsMinus, link, changed, prevTran, out>>

(* The loop is left with a reader whose line counts, or with all at eof     *)
Chosen(r) == Selected(r) /\ ~Hidden(r)
ChosenBeyond(Far(_)) ==
  \/ AllEof /\ pos' = pos
  \/ \E r \in Readers : Chosen(r) /\ Far(Cur(r).path) /\ pos' = Passed(r)
-----------------------------------------------------------------------------
(* t_print()                                                                *)

(* An applicable transcript names the transcript a file comes from          *)
Header(r, flag) ==
  IF EditPath = "applicable" /\ flag \in {"tranOnly", "download", "statusNeg"}
  THEN r ELSE prevTran

Minus(flag) ==
  IF EditPath = "applicable"
  THEN flag = "fsOnly"
  ELSE flag = "tranOnly" \/ subj.obj.type = "X"

Printed(r, flag) ==
  LET fromFs == Minus(flag) = (EditPath = "applicable")
      line   == Cur(r)
      obj    == IF fromFs THEN subj.obj ELSE line.obj
  IN  [hdr  |-> Header(r, flag),
       op   |-> IF Minus(flag) THEN "-"
                ELSE IF /\ EditPath = "applicable"
                        /\ obj.type = "f"
                        /\ flag \in {"tranOnly", "download"}
                     THEN "+" ELSE "",
       path |-> IF fromFs THEN subj.path ELSE line.path,
       obj  |-> IF flag = "statusNeg"
                THEN [obj EXCEPT !.mtime = subj.obj.mtime] ELSE obj]

(* hardlink_changed( fs, 1 ): whatever is printed while a name with other   *)
(* links is examined marks its inode                                        *)
Touch ==
  IF /\ EditPath = "applicable"
     /\ pc = "compare"
     /\ subj.obj.type \notin {"d", "h", "X"}
     /\ NLink(subj.inode) > 1
  THEN changed \cup {subj.inode} ELSE changed

TPrint(r, flag) ==
  /\ out' = Append(out, Printed(r, flag))
  /\ prevTran' = Header(r, flag)
  /\ fsMinus' = (fsMinus \/ Minus(flag))
  /\ changed' = Touch

NoPrint == UNCHANGED <<out, prevTran, fsMinus, changed>>
-----------------------------------------------------------------------------
(* transcript() and fs_walk()                                               *)

(* What readlink() and hardlink() make of an object: the second and later   *)
(* names of an inode are hard links to the first                            *)
Seen(p) ==
  IF fs[p] = 0 THEN Missing
  ELSE LET o == node[fs[p]]
       IN  IF o.type # "d" /\ NLink(fs[p]) > 1 /\ link[fs[p]] # 0
           THEN HardLink(link[fs[p]]) ELSE o

(* The head of transcript(), called for path p under frames stk             *)
Visit(p, del, stk) ==
  LET skipped == Excluded(p) /\ ~del /\ p \notin cmd.special
      first   == /\ fs[p] # 0 /\ node[fs[p]].type # "d"
                 /\ NLink(fs[p]) > 1 /\ link[fs[p]] = 0
  IN  /\ stack' = stk
      /\ fsMinus' = FALSE
      /\ subj' = [path |-> p, obj |-> Seen(p), inode |-> fs[p], del |-> del]
      /\ link' = IF ~skipped /\ first THEN [link EXCEPT ![fs[p]] = p] ELSE link
      /\ pc' = IF skipped THEN "excluded" ELSE "compare"
      /\ UNCHANGED <<given, changed, prevTran, out>>

(* fs_walk() goes on with the innermost directory, or returns to fsdiff()   *)
Resume(stk) ==
  IF stk = <<>> THEN "drain"
  ELSE IF Head(stk).kind = "negative" THEN "select" ELSE "walk"

(* An excluded object only moves the transcripts ahead                      *)
SkipExcluded ==
  /\ pc = "excluded"
  /\ ChosenBeyond(LAMBDA q : TRUE)
  /\ pc' = Resume(stack)
  /\ UNCHANGED <<given, stack, subj, fsMinus, link, changed, prevTran, out>>

(* T_MOVE_TRAN: a path of the transcripts is not in the file system         *)
TranOnly ==
  /\ pc \in {"compare", "drain"}
  /\ \E r \in Readers :
       /\ Chosen(r)
       /\ pc = "compare" => Cur(r).path < subj.path
       /\ TPrint(r, "tranOnly")
       /\ pos' = Consumed(r)
  /\ pc' = pc
  /\ UNCHANGED <<given, stack, subj, link>>

(* What fs_walk() does with the result of transcript(): into a directory,   *)
(* whose children are deleted with it if its own line was a '-'             *)
EnterDir(del) ==
  LET dir == [kind |-> "dir", path |-> subj.path,
              kids |-> Children(subj.path), del |-> del]
  IN  IF subj.obj.type = "d" THEN <<dir>> \o stack ELSE stack

(* T_MOVE_FS: the object is not in the transcripts                          *)
FsOnly ==
  /\ pc = "compare"
  /\ ChosenBeyond(LAMBDA q : q > subj.path)
  /\ TPrint(0, "fsOnly")
  /\ stack' = EnterDir(fsMinus')
  /\ pc' = Resume(stack')
  /\ UNCHANGED <<given, subj, link>>

(* T_MOVE_BOTH: the object is in the transcripts and the file system        *)
Both ==
  /\ pc = "compare"
  /\ \E r \in Readers :
       LET l    == Cur(r).obj
           flag == Verdict(subj.obj, l, Tran[r].kind # "negative",
                           subj.inode \in changed)
           neg  == [kind |-> "negative", path |-> subj.path, kids |-> {},
                    del |-> subj.del]
       IN  /\ Chosen(r) /\ Cur(r).path = subj.path
           /\ IF flag = "same" THEN NoPrint ELSE TPrint(r, flag)
           /\ stack' = IF Tran[r].kind = "negative" /\ l.type = "d"
                       THEN <<neg>> \o stack ELSE EnterDir(fsMinus')
           /\ pos' = Consumed(r)
           /\ pc' = Resume(stack')
  /\ UNCHANGED <<given, subj, link>>

(* The loop over the sorted directory entries                               *)
WalkChild ==
  /\ pc = "walk" /\ Head(stack).kids # {}
  /\ LET top == Head(stack)
         p   == Least(top.kids)
     IN  Visit(p, top.del, <<[top EXCEPT !.kids = @ \ {p}]>> \o Tail(stack))
  /\ UNCHANGED pos

(* The loop over the lines below a negative directory                       *)
NegativeChild ==
  /\ pc = "select"
  /\ \E r \in Readers :
       /\ Chosen(r) /\ Inside(Cur(r).path, Head(stack).path)
       /\ Visit(Cur(r).path, Head(stack).del, stack)
       /\ pos' = Passed(r)

(* Either loop ends                                                         *)
Return ==
  /\ \/ pc = "walk" /\ Head(stack).kids = {} /\ pos' = pos
     \/ /\ pc = "select"
        /\ ChosenBeyond(LAMBDA q : ~Inside(q, Head(stack).path))
  /\ stack' = Tail(stack)
  /\ pc' = Resume(Tail(stack))
  /\ UNCHANGED <<given, subj, fsMinus, link, changed, prevTran, out>>

(* transcript_free(): nothing is left of the transcripts either             *)
Finish ==
  /\ pc = "drain" /\ AllEof
  /\ pc' = "done"
  /\ UNCHANGED <<given, pos, stack, subj, fsMinus, link, changed, prevTran, out>>
-----------------------------------------------------------------------------
CONSTANT
  Inputs  \* what fsdiff may be run on: records [trees, commands, opt] of a set
          \* of file systems, a set of command files and the options

Transcript  == [kind : Kinds, lines : Seq(Line)]
CommandFile == [tran : Seq(Transcript), exclude : SUBSET Path,
                special : SUBSET Path]

(* lstat() knows of no 'h': it is readlink() and hardlink() that make one.  *)
(* ktcheck builds special.T from the 's' lines of the command file, so its  *)
(* lines are for listed paths                                               *)
ASSUME InputAssumption == \A i \in Inputs :
  /\ i.opt \in Options
  /\ \A t \in i.trees :
       /\ WellFormed(t.fs, t.node) /\ t.fs[i.opt.prefix] # 0
       /\ \A n \in Inode : t.node[n].type # "h"
  /\ \A c \in i.commands :
       /\ c \in CommandFile
       /\ \A r \in DOMAIN c.tran : c.tran[r].kind = "special" =>
            \A n \in DOMAIN c.tran[r].lines : c.tran[r].lines[n].path \in c.special

(****************************************************************************)
(* The inputs on which fsdiff prints exactly the edits that are needed.     *)
(* There are two others.  With -C, fs_minus is also set by the '-' of a     *)
(* line before a directory, and then excluded entries of it are printed.    *)
(* And what is listed below an excluded path that is itself below a         *)
(* negative directory is compared if the walk is back in the loop of the    *)
(* negative directory when its line comes, and is taken to be missing if    *)
(* not.                                                                     *)
(****************************************************************************)
Lists(c, p) ==
  \E r \in DOMAIN c.tran : \E n \in DOMAIN c.tran[r].lines : c.tran[r].lines[n].path = p
ListsNegative(c, p) ==
  \E r \in DOMAIN c.tran :
    /\ c.tran[r].kind = "negative"
    /\ \E n \in DOMAIN c.tran[r].lines : /\ c.tran[r].lines[n].path = p
                                         /\ c.tran[r].lines[n].obj.type = "d"

OrdinaryInputs ==
  \A i \in Inputs : \A c \in i.commands :
    /\ i.opt.editPath = "creatable" => c.exclude = {}
    /\ \A q \in c.exclude \ c.special, d \in Path :
         d < q /\ Inside(q, d) /\ ListsNegative(c, d) =>
           \A b \in Path : q < b /\ Inside(b, q) => ~Lists(c, b)

(* fsdiff() up to the call of fs_walk() for the path argument               *)
Init ==
  /\ \E i \in Inputs :
       /\ \E t \in i.trees : fs = t.fs /\ node = t.node
       /\ cmd \in i.commands
       /\ opt = i.opt
  /\ pos = [r \in Readers |-> 1]
  /\ stack = <<>>
  /\ pc = IF Excluded(Prefix) /\ Prefix \notin cmd.special
          THEN "excluded" ELSE "compare"
  /\ subj = [path |-> Prefix, obj |-> node[fs[Prefix]], inode |-> fs[Prefix],
             del |-> FALSE]
  /\ fsMinus = FALSE
  /\ link = [i \in Inode |->
               IF /\ i = fs[Prefix] /\ node[i].type # "d" /\ pc = "compare"
                  /\ NLink(i) > 1
               THEN Prefix ELSE 0]
  /\ changed = {}
  /\ prevTran = 0
  /\ out = <<>>

Step ==
  \/ SelectSkip \/ SkipExcluded
  \/ TranOnly \/ FsOnly \/ Both
  \/ WalkChild \/ NegativeChild \/ Return
  \/ Finish

(* The program has exited                                                   *)
Exited == ~Running /\ UNCHANGED vars

Next == (Running /\ Step) \/ Exited

(* fsdiff runs by itself: it takes a step as long as it has one to take     *)
Spec == Init /\ [][Next]_vars /\ WF_vars(Running /\ Step)

TypeOK ==
  /\ WellFormed(fs, node)
  /\ cmd \in CommandFile /\ opt \in Options
  /\ pos \in [Readers -> Nat \ {0}]
  /\ stack \in Seq(Frame)
  /\ pc \in {"excluded", "compare", "select", "walk", "drain", "done"}
  /\ subj \in Subject
  /\ fsMinus \in BOOLEAN
  /\ link \in [Inode -> Path \cup {0}]
  /\ changed \in SUBSET Inode
  /\ prevTran \in Readers \cup {0}
  /\ out \in Seq(Edit)
-----------------------------------------------------------------------------
EditsAt(p) ==
  { [op |-> e.op, path |-> e.path, obj |-> e.obj] :
      e \in { out[n] : n \in { m \in DOMAIN out : out[m].path = p } } }
-----------------------------------------------------------------------------
(* A run that ends has printed, for every path, the edit that path needs    *)
(* and no other (transcript.c: transcript_select(), transcript(),           *)
(* t_compare()): nothing is lost when several transcripts, excludes,        *)
(* negative directories and hard links meet at one path.  The one slack:    *)
(* a hard link that is right already may be made again.                     *)
EditsNeeded ==
  pc = "done" /\ ~Failed =>
    LET fate == Fate
        wanted == Wanted
    IN  \A p \in Path :
          IF wanted[p] # NoEdit THEN EditsAt(p) = {wanted[p]}
          ELSE \A e \in EditsAt(p) : /\ Found(fate, p).type = "h"
                                     /\ e = WantedEdit(Found(fate, p), p, "status")

(* lapply reads the edits as a transcript and refuses one that is not       *)
(* strictly sorted ("bad sort order"); fsdiff never prints one              *)
EditsSorted ==
  \A m, n \in DOMAIN out : m < n => out[m].path < out[n].path

(* A run that ends has put every file to download under the name of the     *)
(* transcript its line is from, which is where the server will look for it  *)
(* (t_print, prev_tran)                                                     *)
DownloadsNameTranscript ==
  pc = "done" /\ ~Failed => \A n \in DOMAIN out :
    out[n].op = "+" => out[n].hdr = Winner(out[n].path)

(* What lapply reads is in order, each file under its transcript            *)
(* (transcript_select() moves the readers of lower precedence past a path   *)
(* with the one that decides, t_print() tells whose line it was)            *)
EditsOrdered == EditsSorted /\ DownloadsNameTranscript

(* The fields of an object that fsdiff(1) says are checked: all of them for *)
(* a positive line, "only some of the attributes" for a negative one.       *)
(* Without -c, contents count by size and modification time.                *)
Described(type, positive) ==
  CASE type \in {"d", "p", "s"} -> {"own", "mode"}
    [] type = "b"              -> {"own", "mode", "data"}
    [] type = "h"              -> {"data"}
    [] type = "l"              -> IF positive THEN {"data", "own"} ELSE {}
    [] type = "c"              -> IF positive THEN {"data", "own", "mode"} ELSE {"data"}
    [] type = "f" /\ ~positive -> {"own", "mode"}
    [] type = "f" /\ positive  ->
         {"own", "mode"} \cup (IF Cksum THEN {"data"} ELSE {"size"})
                         \cup (IF IgnoreTimestamps THEN {} ELSE {"mtime"})

Agree(o, l, fields) ==
  \A k \in fields : IF k = "size" THEN Size[o.data] = Size[l.data] ELSE o[k] = l[k]

(* fsdiff stays silent about an object exactly when everything it promises  *)
(* to check agrees with the transcript (t_compare()), but that a hard link  *)
(* may be made again                                                        *)
SilenceMeansSame ==
  pc = "done" /\ ~Failed =>
    LET fate == Fate
    IN  \A p \in Path : Managed(p) /\ Compared(fate, p) /\ fs[p] # 0 =>
          LET o    == Found(fate, p)
              l    == WinLine(p).obj
              same == /\ o.type = l.type
                      /\ Agree(o, l, Described(l.type, Positive(p)))
          IN  /\ EditsAt(p) = {} => same
              /\ same /\ o.type # "h" => EditsAt(p) = {}

(* What fsdiff prints is exactly what lapply should be given: the edits     *)
(* that are needed and no other, and no word about what is as promised      *)
EditsExact == EditsNeeded /\ SilenceMeansSame

(* fs_walk() and transcript() always come to an end                         *)
Terminates == <>~Running
=============================================================================
