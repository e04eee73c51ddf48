------------------------------ MODULE TreeDiff ------------------------------
(****************************************************************************)
(* What fsdiff(1) has to print, stated without its streams: for every path  *)
(* the transcript that decides what should be there, whether the walk comes *)
(* by, and the edit that follows from comparing the two.  The comparison    *)
(* itself is t_compare() (transcript.c); the rest says in terms of the      *)
(* whole tree and whole transcripts what fs_walk(), transcript() and        *)
(* transcript_select() do one line at a time in module Fsdiff.              *)
(****************************************************************************)
EXTENDS RadFS

VARIABLES
  cmd,  \* the command file: transcripts, exclude and special lines
  opt   \* the options

EditPath         == opt.editPath          \* "applicable" (-A) or "creatable" (-C)
Cksum            == opt.cksum             \* -c: compare checksums
IgnoreTimestamps == opt.ignoreTimestamps  \* -t
Prefix           == opt.prefix            \* the path argument

Options == [editPath : {"applicable", "creatable"}, cksum : BOOLEAN,
            ignoreTimestamps : BOOLEAN, prefix : Path]

(* The transcripts, highest precedence first; the null transcript that ends *)
(* the list in the code is the case of every reader being at eof.           *)
Kinds == {"positive", "negative", "special"}
Tran    == cmd.tran
Readers == DOMAIN Tran
Excluded(p) == p \in cmd.exclude
-----------------------------------------------------------------------------
(* t_compare() once the names match                                         *)

AttrDiffer(o, l) == o.own # l.own \/ o.mode # l.mode

NeedsDownload(o, l, positive) ==
  \/ o.type # l.type
  \/ /\ o.type = "f" /\ positive
     /\ \/ Size[o.data] # Size[l.data]
        \/ Cksum /\ o.data # l.data
        \/ ~Cksum /\ ~IgnoreTimestamps /\ o.mtime # l.mtime

NeedsStatus(o, l, positive, relink) ==
  \/ o.type = "f" /\ (AttrDiffer(o, l) \/ (positive /\ ~IgnoreTimestamps
                                             /\ o.mtime # l.mtime))
  \/ o.type \in {"d", "p", "s"} /\ AttrDiffer(o, l)
  \/ o.type = "l" /\ positive /\ (o.data # l.data \/ o.own # l.own)
  \/ o.type = "h" /\ (o.data # l.data \/ relink)
  \/ o.type = "c" /\ (o.data # l.data \/ (positive /\ AttrDiffer(o, l)))
  \/ o.type = "b" /\ (o.data # l.data \/ AttrDiffer(o, l))

Verdict(o, l, positive, relink) ==
  IF NeedsDownload(o, l, positive) THEN "download"
  ELSE IF ~NeedsStatus(o, l, positive, relink) THEN "same"
  ELSE IF o.type = "f" /\ ~positive /\ EditPath = "applicable"
  THEN "statusNeg" ELSE "status"
-----------------------------------------------------------------------------
(* The transcripts with a line for p, and the line of the first of them     *)
Listing(p)  == { r \in Readers : \E n \in DOMAIN Tran[r].lines : Tran[r].lines[n].path = p }
Winner(p)   == Least(Listing(p))
WinLine(p)  == LET lines == Tran[Winner(p)].lines
               IN  lines[CHOOSE n \in DOMAIN lines : lines[n].path = p]

(* Does a transcript decide what should be at p?                            *)
Managed(p) ==
  /\ Inside(p, Prefix)
  /\ Listing(p) # {}
  /\ ~WinLine(p).minus
  /\ Excluded(p) => Tran[Winner(p)].kind = "special"

Positive(p) == Tran[Winner(p)].kind # "negative"

(****************************************************************************)
(* How the walk treats p: "out" if it never comes by, "skip" if it leaves   *)
(* it alone as excluded; else it compares p, and then reads a directory     *)
(* ("dir"), only the listed paths below it ("negative"), or nothing.        *)
(* "del": the directory p is in is about to be deleted.                     *)
(****************************************************************************)
FateAfter(walked, p) ==
  LET above == { q \in 1..(p - 1) : Inside(p, q) /\ walked[q].how # "out" }
      a     == CHOOSE q \in above : \A r \in above : r <= q
      from  == walked[a].how
      comes == \/ p = Prefix
               \/ /\ Inside(p, Prefix) /\ p # Prefix
                  /\ \/ from = "dir" /\ fs[p] # 0
                     \/ from = "negative" /\ Managed(p)
      del   == /\ p # Prefix
               /\ \/ from = "dir" /\ EditPath = "applicable" /\ ~Managed(a)
                  \/ from = "negative" /\ walked[a].del
      how   == CASE ~comes -> "out"
                 [] comes /\ Excluded(p) /\ ~del /\ p \notin cmd.special -> "skip"
                 [] OTHER ->
                      IF Managed(p) /\ ~Positive(p) /\ WinLine(p).obj.type = "d"
                      THEN "negative"
                      ELSE IF fs[p] # 0 /\ node[fs[p]].type = "d"
                      THEN "dir" ELSE "leaf"
  IN  [how |-> how, del |-> comes /\ del]

Fate ==
  LET Walked[n \in 0..NPath] ==
        IF n = 0 THEN <<>>
        ELSE LET before == Walked[n - 1] IN Append(before, FateAfter(before, n))
  IN  Walked[NPath]

Compared(fate, p) == fate[p].how \notin {"out", "skip"}

(* Of several names of an inode the first compared is the file, the others  *)
(* are links to it                                                          *)
FirstName(fate, p) == Least({ q \in 1..p : fs[q] = fs[p] /\ Compared(fate, q) })
Found(fate, p) ==
  IF fs[p] = 0 THEN Missing
  ELSE LET q == FirstName(fate, p) IN IF q # p THEN HardLink(q) ELSE node[fs[p]]

(* The edit for p; op "none" if p is as it should be.  A link to a file     *)
(* that is itself edited is made again (relink).                            *)
NoEdit == [op |-> "none", path |-> 0, obj |-> Missing]

WantedEdit(found, p, flag) ==
  LET l == WinLine(p).obj
  IN  [op |-> IF l.type = "f" /\ flag = "download" THEN "+" ELSE "", path |-> p,
       obj |-> IF flag = "statusNeg" THEN [l EXCEPT !.mtime = found.mtime] ELSE l]

(* The outcome of t_compare(), or of a line that the walk does not come by  *)
Outcome(fate, p, relink) ==
  IF Compared(fate, p)
  THEN Verdict(Found(fate, p), WinLine(p).obj, Positive(p), relink) ELSE "download"

Applied(fate, p, relink) ==
  IF Managed(p)
  THEN LET flag == Outcome(fate, p, relink)
       IN  IF flag = "same" THEN NoEdit ELSE WantedEdit(Found(fate, p), p, flag)
  ELSE IF Compared(fate, p) THEN [op |-> "-", path |-> p, obj |-> Found(fate, p)]
  ELSE NoEdit

(* The same for -C, whose edits describe the file system                    *)
Created(fate, p) ==
  CASE Managed(p) /\ Compared(fate, p) /\ fs[p] # 0 ->
         IF Outcome(fate, p, FALSE) = "same"
         THEN NoEdit ELSE [op |-> "", path |-> p, obj |-> Found(fate, p)]
    [] Managed(p) /\ (~Compared(fate, p) \/ fs[p] = 0) ->
         [op |-> "-", path |-> p, obj |-> WinLine(p).obj]
    [] ~Managed(p) /\ Compared(fate, p) ->
         [op |-> "", path |-> p, obj |-> Found(fate, p)]
    [] OTHER -> NoEdit

(* Mutant: a link that is right is left alone                               *)
RelinkNever(fate, p) == FALSE

RelinkDue(fate, p) ==
  /\ Compared(fate, p) /\ fs[p] # 0 /\ FirstName(fate, p) # p
  /\ Applied(fate, FirstName(fate, p), FALSE) # NoEdit

Wanted ==
  LET fate == Fate
  IN  [p \in Path |-> IF EditPath = "creatable" THEN Created(fate, p)
                      ELSE Applied(fate, p, RelinkDue(fate, p))]
=============================================================================
