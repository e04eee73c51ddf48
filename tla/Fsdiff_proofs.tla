---------------------------- MODULE Fsdiff_proofs ----------------------------
(****************************************************************************)
(* What fsdiff(1) prints is sorted as lapply wants it, every file to be     *)
(* downloaded is under the name of the transcript that decides, and the     *)
(* edits are those that are needed, for every tree, every set of            *)
(* transcripts and all options.                                             *)
(****************************************************************************)
EXTENDS Fsdiff, WellFoundedInduction, TLAPS, SequenceTheorems, FiniteSetTheorems

(* A set of numbers that is not empty has a smallest element.               *)
LEMMA LeastMember ==
  ASSUME NEW S \in SUBSET Nat, S # {}
  PROVE  Least(S) \in S /\ \A y \in S : Least(S) <= y
<1> DEFINE less == OpToRel(<, Nat)
<1>1. IsWellFoundedOn(less, Nat)
  BY NatLessThanWellFounded
<1>2. \A x, y \in Nat : x < y => <<x, y>> \in less
  BY DEF OpToRel
<1> HIDE DEF less
<1>3. PICK x \in S : \A y \in S : ~(<<y, x>> \in less)
  BY <1>1, WFMin
<1>4. ASSUME NEW y \in S
      PROVE  x <= y
  <2>1. <<y, x>> \notin less
    BY <1>3, Zenon
  <2>2. ~(y < x)
    BY <1>2, <2>1
  <2> QED BY <2>2
<1> QED BY <1>4 DEF Least

(* A set of numbers that is not empty and bounded has a greatest element.   *)
LEMMA GreatestMember ==
  ASSUME NEW n \in Nat, NEW S \in SUBSET (0..n), S # {}
  PROVE  \E x \in S : \A y \in S : y <= x
<1> DEFINE T == { n - x : x \in S }
<1>1. T \in SUBSET Nat /\ T # {}
  <2>1. \A x \in S : n - x \in Nat
    OBVIOUS
  <2>2. T # {}
    BY Zenon
  <2> QED BY <2>1, <2>2, Zenon
<1>2. PICK x \in S : Least(T) = n - x
  BY <1>1, LeastMember
<1>3. ASSUME NEW y \in S
      PROVE  y <= x
  <2>1. n - x <= n - y
    BY <1>1, <1>2, LeastMember
  <2> QED BY <2>1
<1> QED BY <1>3

(* Parent() gives a path above its argument, or 0.                          *)
LEMMA ParentAbove ==
  ASSUME PathAssumption, NEW c \in Path
  PROVE  Parent(c) = 0 \/ (Parent(c) \in Path /\ Parent(c) < c /\ Inside(c, Parent(c)))
<1> DEFINE above == { q \in 1..(c - 1) : Inside(c, q) }
<1>1. CASE above = {}
  BY <1>1 DEF Parent
<1>2. CASE above # {}
  <2>1. above \in SUBSET (0..c) /\ c \in Nat
    BY DEF Path
  <2>2. \E q \in above : \A r \in above : r <= q
    BY <1>2, <2>1, GreatestMember
  <2>3. Parent(c) \in above
    BY <1>2, <2>2 DEF Parent
  <2> QED BY <2>3 DEF Path, PathAssumption
<1> QED BY <1>1, <1>2

-----------------------------------------------------------------------------
(* Paths: the innermost directory above, and siblings that do not overlap   *)
LEMMA ParentGreatest ==
  ASSUME NEW c \in Path, NEW q \in Path, q < c, Inside(c, q)
  PROVE  Parent(c) \in Path /\ q <= Parent(c)
<1> DEFINE above == { x \in 1..(c - 1) : Inside(c, x) }
<1>1. q \in above /\ above \in SUBSET (0..c) /\ c \in Nat BY DEF Path
<1>2. \E x \in above : \A r \in above : r <= x BY <1>1, GreatestMember
<1>3. Parent(c) \in above /\ \A r \in above : r <= Parent(c) BY <1>1, <1>2 DEF Parent
<1> QED BY <1>1, <1>3, PathAssumption DEF Path

LEMMA SiblingsApart ==
  ASSUME NEW a \in Path, NEW b \in Path, a < b, Parent(a) = Parent(b)
  PROVE  Last[a] < b
<1>1. Last[a] \in Nat /\ a \in Nat /\ b \in Nat BY PathAssumption DEF Path
<1>2. ASSUME b <= Last[a] PROVE FALSE
  <2>1. Inside(b, a) BY <1>1, <1>2 DEF Inside
  <2>2. Parent(b) \in Path /\ a <= Parent(b) BY <2>1, ParentGreatest
  <2>3. Parent(a) < a BY <2>2, PathAssumption, ParentAbove DEF Path
  <2> QED BY <1>1, <2>2, <2>3 DEF Path
<1> QED BY <1>1, <1>2

LEMMA Bounds ==
  /\ Path \subseteq Nat
  /\ \A p \in Path : Last[p] \in Path /\ p <= Last[p]
  /\ \A p, q \in Path : Inside(q, p) => p <= q /\ Last[q] <= Last[p]
BY PathAssumption DEF Path, Inside

(* Objects                                                                  *)
LEMMA ObjBasics ==
  /\ Missing \notin Obj /\ Missing.type = "X" /\ Missing.mtime = 0
  /\ \A o \in Obj : o.type # "X" /\ \A t \in Times : [o EXCEPT !.mtime = t] \in Obj
  /\ \A o \in Obj \cup {Missing} : o.mtime \in Times
  /\ \A q \in Path : HardLink(q) \in Obj
  /\ 0 \notin Path /\ 0 \notin Inode
BY ObjectAssumption DEF Obj, Missing, Types, HardLink, Path, Inode

LEMMA NodeThere ==
  ASSUME WellFormed(fs, node), NEW p \in Path, fs[p] # 0
  PROVE  fs[p] \in Inode /\ node[fs[p]] \in Obj
BY DEF WellFormed
-----------------------------------------------------------------------------
(* Which loop runs on which stack; the entries of a directory are below it; *)
(* and what is sought below a negative directory is the line in hand        *)
Stacked ==
  /\ pc = "walk" => stack # <<>> /\ Head(stack).kind = "dir"
  /\ pc = "select" => stack # <<>> /\ Head(stack).kind = "negative"
  /\ pc \in {"drain", "done"} => stack = <<>>
  /\ \A m \in DOMAIN stack :
       /\ \A k \in stack[m].kids : Parent(k) = stack[m].path /\ fs[k] # 0
       /\ stack[m].kind = "negative" => stack[m].kids = {}

Sought ==
  pc = "compare" /\ subj.obj = Missing /\ ~Failed =>
    \E r \in Readers : Chosen(r) /\ Cur(r).path = subj.path

TInv == TypeOK /\ Stacked /\ Sought /\ (subj.inode = 0 => subj.obj = Missing)

LEMMA Lines ==
  ASSUME TypeOK
  PROVE  /\ Readers \subseteq Nat /\ 0 \notin Readers
         /\ \A r \in Readers : Tran[r] \in Transcript /\ pos[r] \in Nat \ {0}
         /\ \A r \in Readers : /\ Len(Tran[r].lines) \in Nat
                               /\ DOMAIN Tran[r].lines = 1..Len(Tran[r].lines)
                               /\ \A n \in DOMAIN Tran[r].lines : Tran[r].lines[n] \in Line
         /\ \A r \in Readers : ~Eof(r) => /\ pos[r] \in DOMAIN Tran[r].lines
                                          /\ Cur(r) \in Line /\ Cur(r).path \in Path
                                          /\ Cur(r).path \in Nat /\ Cur(r).obj \in Obj
<1>1. Tran \in Seq(Transcript) BY DEF TypeOK, CommandFile, Tran
<1>2. Readers = 1..Len(Tran) /\ Len(Tran) \in Nat /\ \A r \in Readers : Tran[r] \in Transcript
  BY <1>1, LenProperties, ElementOfSeq DEF Readers
<1>3. ASSUME NEW r \in Readers
      PROVE  /\ pos[r] \in Nat \ {0} /\ Tran[r].lines \in Seq(Line)
             /\ Len(Tran[r].lines) \in Nat
             /\ DOMAIN Tran[r].lines = 1..Len(Tran[r].lines)
             /\ \A n \in DOMAIN Tran[r].lines : Tran[r].lines[n] \in Line
  <2>1. Tran[r].lines \in Seq(Line) BY <1>2 DEF Transcript
  <2> QED BY <2>1, LenProperties, ElementOfSeq DEF TypeOK
<1>4. ASSUME NEW r \in Readers, ~Eof(r)
      PROVE  /\ pos[r] \in DOMAIN Tran[r].lines
             /\ Cur(r) \in Line /\ Cur(r).path \in Path /\ Cur(r).path \in Nat /\ Cur(r).obj \in Obj
  <2>1. pos[r] \in DOMAIN Tran[r].lines BY <1>3, <1>4 DEF Eof
  <2>2. Cur(r) \in Line BY <1>3, <2>1 DEF Cur
  <2> QED BY <2>1, <2>2 DEF Line, Path
<1> QED BY <1>2, <1>3, <1>4

(* Only one reader is the first                                             *)
LEMMA OneSelected ==
  ASSUME TypeOK, NEW r \in Readers, NEW q \in Readers, Selected(r), Selected(q)
  PROVE  r = q
<1>1. /\ Cur(r).path \in Nat /\ Cur(q).path \in Nat /\ r \in Nat /\ q \in Nat
  BY Lines DEF Selected
<1>2. Cur(r).path <= Cur(q).path /\ Cur(q).path <= Cur(r).path BY DEF Selected
<1>3. ~(q < r) /\ ~(r < q) BY <1>1, <1>2 DEF Selected
<1> QED BY <1>1, <1>3

(* How the transcripts move on                                              *)
Passes(r)   == r \in Readers /\ Chosen(r) /\ pos' = Passed(r)
Consumes(r) == r \in Readers /\ Selected(r) /\ pos' = Consumed(r)
Moves == pos' = pos \/ (\E r \in Readers : Passes(r) \/ Consumes(r))

LEMMA PassedType ==
  ASSUME TypeOK, NEW r \in Readers
  PROVE  /\ Passed(r) \in [Readers -> Nat \ {0}] /\ Consumed(r) \in [Readers -> Nat \ {0}]
         /\ \A q \in Readers : Passed(r)[q] = IF q > r /\ ~Eof(q) /\ Cur(q).path = Cur(r).path
                                              THEN pos[q] + 1 ELSE pos[q]
         /\ \A q \in Readers : q # r => Consumed(r)[q] = Passed(r)[q]
         /\ Consumed(r)[r] = pos[r] + 1 /\ Passed(r)[r] = pos[r]
<1>1. pos \in [Readers -> Nat \ {0}] /\ r \in Nat BY Lines DEF TypeOK
<1>2. Passed(r) \in [Readers -> Nat \ {0}] /\ Passed(r)[r] = pos[r] BY <1>1 DEF Passed
<1> QED BY <1>1, <1>2 DEF Consumed, Passed

LEMMA StepMoves ==
  ASSUME TInv, Step
  PROVE  /\ Moves /\ pos' \in [Readers -> Nat \ {0}]
         /\ fs' = fs /\ node' = node /\ cmd' = cmd /\ opt' = opt
<1>1. TypeOK BY DEF TInv
<1>2. Moves
  <2>1. CASE SelectSkip BY <2>1 DEF SelectSkip, Moves, Consumes
  <2>2. CASE SkipExcluded BY <2>2 DEF SkipExcluded, ChosenBeyond, Moves, Passes
  <2>3. CASE TranOnly BY <2>3 DEF TranOnly, Moves, Consumes, Chosen
  <2>4. CASE FsOnly BY <2>4 DEF FsOnly, ChosenBeyond, Moves, Passes
  <2>5. CASE Both BY <2>5 DEF Both, Moves, Consumes, Chosen
  <2>6. CASE WalkChild BY <2>6 DEF WalkChild, Moves
  <2>7. CASE NegativeChild BY <2>7 DEF NegativeChild, Moves, Passes
  <2>8. CASE Return BY <2>8 DEF Return, ChosenBeyond, Moves, Passes
  <2>9. CASE Finish BY <2>9 DEF Finish, Moves
  <2> QED BY <2>1, <2>2, <2>3, <2>4, <2>5, <2>6, <2>7, <2>8, <2>9 DEF Step
<1>3. pos' \in [Readers -> Nat \ {0}]
  BY <1>1, <1>2, PassedType DEF Moves, Passes, Consumes, TypeOK
<1>4. UNCHANGED given
  BY DEF Step, SelectSkip, SkipExcluded, TranOnly, FsOnly, Both, WalkChild, NegativeChild, Return,
         Finish, Visit
<1> QED BY <1>2, <1>3, <1>4 DEF given
-----------------------------------------------------------------------------
(* What is printed                                                          *)
Flags == {"tranOnly", "fsOnly", "download", "status", "statusNeg"}

LEMMA PrintedType ==
  ASSUME TInv, NEW flag \in Flags, NEW r \in Readers \cup {0},
         flag # "fsOnly" => r \in Readers /\ ~Eof(r),
         flag = "fsOnly" => subj.obj # Missing
  PROVE  /\ Printed(r, flag) \in Edit /\ Header(r, flag) \in Readers \cup {0}
         /\ Printed(r, flag).path = IF Minus(flag) = (EditPath = "applicable")
                                    THEN subj.path ELSE Cur(r).path
         /\ Printed(r, flag).hdr = Header(r, flag)
<1> DEFINE fromFs == Minus(flag) = (EditPath = "applicable")
           obj    == IF fromFs THEN subj.obj ELSE Cur(r).obj
           path   == IF fromFs THEN subj.path ELSE Cur(r).path
<1>1. TypeOK /\ opt \in Options BY DEF TInv, TypeOK
<1>2. EditPath \in {"applicable", "creatable"} BY <1>1 DEF Options, EditPath
<1>3. subj.obj \in Obj \cup {Missing} /\ subj.path \in Path BY <1>1 DEF TypeOK, Subject
<1>4. fromFs => subj.obj # Missing
  <2>1. CASE EditPath = "applicable" BY <2>1 DEF Minus
  <2>2. CASE EditPath = "creatable" BY <2>2, ObjBasics DEF Minus
  <2> QED BY <1>2, <2>1, <2>2
<1>5. ~fromFs => flag # "fsOnly"
  <2>1. CASE EditPath = "applicable" BY <2>1 DEF Minus
  <2>2. CASE EditPath = "creatable"
    <3>1. ASSUME flag = "fsOnly" PROVE Minus(flag) = FALSE
      BY <1>3, <2>2, <3>1, ObjBasics DEF Minus
    <3> QED BY <2>2, <3>1
  <2> QED BY <1>2, <2>1, <2>2
<1>6. obj \in Obj /\ path \in Path BY <1>1, <1>3, <1>4, <1>5, Lines
<1>7. (IF flag = "statusNeg" THEN [obj EXCEPT !.mtime = subj.obj.mtime] ELSE obj) \in Obj
  <2>1. subj.obj.mtime \in Times BY <1>3, ObjBasics
  <2> HIDE DEF obj
  <2> QED BY <1>6, <2>1, ObjBasics
<1>8. Header(r, flag) \in Readers \cup {0} BY <1>1 DEF Header, TypeOK, Flags
<1>9. Header(r, flag) \in Nat BY <1>1, <1>8, Lines
<1>10. Printed(r, flag) = [hdr  |-> Header(r, flag),
                           op   |-> Printed(r, flag).op,
                           path |-> path,
                           obj  |-> IF flag = "statusNeg" THEN [obj EXCEPT !.mtime = subj.obj.mtime]
                                    ELSE obj]
  BY DEF Printed
<1>11. Printed(r, flag).op \in {"", "+", "-"} BY DEF Printed
<1> HIDE DEF obj, path
<1>12. Printed(r, flag) \in Edit
  <2>1. \A h \in Nat, o \in {"", "+", "-"}, p \in Path, b \in Obj :
          [hdr |-> h, op |-> o, path |-> p, obj |-> b] \in Edit
    BY DEF Edit
  <2>2. [hdr |-> Header(r, flag), op |-> Printed(r, flag).op, path |-> path,
         obj |-> IF flag = "statusNeg" THEN [obj EXCEPT !.mtime = subj.obj.mtime] ELSE obj] \in Edit
    BY <1>6, <1>7, <1>9, <1>11, <2>1, Zenon
  <2> QED BY <1>10, <2>2, Zenon
<1>13. Printed(r, flag).path = path /\ Printed(r, flag).hdr = Header(r, flag) BY <1>10
<1> QED BY <1>8, <1>12, <1>13 DEF path

LEMMA PrintType ==
  ASSUME TInv, NEW flag \in Flags, NEW r \in Readers \cup {0},
         flag # "fsOnly" => r \in Readers /\ ~Eof(r),
         flag = "fsOnly" => subj.obj # Missing,
         TPrint(r, flag), cmd' = cmd
  PROVE  /\ out' \in Seq(Edit) /\ prevTran' \in (Readers \cup {0})'
         /\ fsMinus' \in BOOLEAN /\ changed' \in SUBSET Inode
<1>1. Printed(r, flag) \in Edit /\ Header(r, flag) \in Readers \cup {0} BY PrintedType
<1>2. out' \in Seq(Edit) BY <1>1, AppendProperties DEF TPrint, TInv, TypeOK
<1>3. prevTran' \in (Readers \cup {0})' BY <1>1 DEF TPrint, Readers, Tran
<1>4. fsMinus' \in BOOLEAN
  <2>1. Minus(flag) \in BOOLEAN BY DEF Minus
  <2> QED BY <2>1 DEF TPrint, TInv, TypeOK
<1>5. changed' \in SUBSET Inode
  <2>1. changed' = Touch BY DEF TPrint
  <2>2. subj.obj.type # "X" => subj.inode \in Inode
    BY ObjBasics DEF TInv, TypeOK, Subject
  <2> QED BY <2>1, <2>2 DEF Touch, TInv, TypeOK
<1> QED BY <1>2, <1>3, <1>4, <1>5
-----------------------------------------------------------------------------
(* fs_walk() is called for a path                                           *)
LEMMA SeenType ==
  ASSUME TypeOK, NEW p \in Path
  PROVE  Seen(p) \in Obj \cup {Missing} /\ (Seen(p) = Missing <=> fs[p] = 0)
         /\ fs[p] \in Inode \cup {0}
<1>1. WellFormed(fs, node) /\ link \in [Inode -> Path \cup {0}] BY DEF TypeOK
<1>2. fs[p] \in Inode \cup {0} BY <1>1 DEF WellFormed
<1>3. CASE fs[p] # 0
  <2>1. fs[p] \in Inode /\ node[fs[p]] \in Obj /\ link[fs[p]] \in Path \cup {0}
    BY <1>1, <1>3, NodeThere
  <2> QED BY <1>3, <2>1, ObjBasics DEF Seen
<1> QED BY <1>2, <1>3 DEF Seen

LEMMA VisitType ==
  ASSUME TInv, NEW p \in Path, NEW del \in BOOLEAN, NEW stk, Visit(p, del, stk)
  PROVE  /\ stack' = stk /\ fsMinus' = FALSE /\ subj' \in Subject
         /\ subj'.path = p /\ subj'.obj = Seen(p) /\ subj'.inode = fs[p]
         /\ link' \in [Inode -> Path \cup {0}]
         /\ pc' \in {"excluded", "compare"} /\ changed' = changed
         /\ prevTran' = prevTran /\ out' = out
<1>1. Seen(p) \in Obj \cup {Missing} /\ fs[p] \in Inode \cup {0} BY SeenType DEF TInv
<1>2. subj' = [path |-> p, obj |-> Seen(p), inode |-> fs[p], del |-> del] BY DEF Visit
<1>3. subj' \in Subject BY <1>1, <1>2 DEF Subject
<1>4. link' \in [Inode -> Path \cup {0}] BY DEF Visit, TInv, TypeOK
<1> QED BY <1>2, <1>3, <1>4 DEF Visit

(* A stack tells which loop is next                                         *)
StackOK(s) ==
  /\ s \in Seq(Frame)
  /\ \A m \in DOMAIN s : /\ \A k \in s[m].kids : Parent(k) = s[m].path /\ fs[k] # 0
                         /\ s[m].kind = "negative" => s[m].kids = {}

LEMMA ResumeFits ==
  ASSUME NEW s \in Seq(Frame)
  PROVE  /\ Resume(s) \in {"drain", "select", "walk"}
         /\ Resume(s) = "drain" <=> s = <<>>
         /\ Resume(s) = "select" => s # <<>> /\ Head(s).kind = "negative"
         /\ Resume(s) = "walk" => s # <<>> /\ Head(s).kind = "dir"
<1>1. s # <<>> => Head(s) \in Frame BY HeadTailProperties
<1> QED BY <1>1 DEF Resume, Frame

LEMMA PushFits ==
  ASSUME NEW s, StackOK(s), NEW f \in Frame, \A k \in f.kids : Parent(k) = f.path /\ fs[k] # 0,
         f.kind = "negative" => f.kids = {}
  PROVE  /\ StackOK(<<f>> \o s) /\ Len(<<f>> \o s) = Len(s) + 1
         /\ (<<f>> \o s)[1] = f
         /\ \A m \in DOMAIN (<<f>> \o s) : m # 1 => m - 1 \in DOMAIN s /\ (<<f>> \o s)[m] = s[m - 1]
<1>1. <<f>> \in Seq(Frame) /\ s \in Seq(Frame) /\ Len(<<f>>) = 1 /\ <<f>>[1] = f
  BY DEF StackOK
<1>2. <<f>> \o s \in Seq(Frame) BY <1>1, ConcatProperties
<1>3. Len(<<f>> \o s) = Len(s) + 1 /\ Len(s) \in Nat BY <1>1, ConcatProperties, LenProperties
<1>4. DOMAIN (<<f>> \o s) = 1..(Len(s) + 1) /\ DOMAIN s = 1..Len(s)
  BY <1>1, <1>2, <1>3, LenProperties
<1>5. (<<f>> \o s)[1] = f BY <1>1, <1>3, ConcatProperties
<1>6. ASSUME NEW m \in DOMAIN (<<f>> \o s), m # 1
      PROVE  m - 1 \in DOMAIN s /\ (<<f>> \o s)[m] = s[m - 1]
  BY <1>1, <1>3, <1>4, <1>6, ConcatProperties
<1>7. StackOK(<<f>> \o s) BY <1>2, <1>5, <1>6 DEF StackOK
<1> QED BY <1>3, <1>5, <1>6, <1>7

LEMMA PopFits ==
  ASSUME NEW s, StackOK(s), s # <<>>
  PROVE  /\ StackOK(Tail(s)) /\ Head(s) \in Frame /\ Head(s) = s[1] /\ 1 \in DOMAIN s
         /\ \A m \in DOMAIN Tail(s) : m + 1 \in DOMAIN s /\ Tail(s)[m] = s[m + 1]
<1>1. s \in Seq(Frame) BY DEF StackOK
<1>2. Len(s) \in Nat /\ DOMAIN s = 1..Len(s) BY <1>1, LenProperties
<1>3. Len(s) # 0 BY <1>1, EmptySeq
<1>4. /\ Head(s) \in Frame /\ Tail(s) \in Seq(Frame) /\ Len(Tail(s)) = Len(s) - 1
      /\ \A m \in 1..Len(Tail(s)) : Tail(s)[m] = s[m + 1]
  BY <1>1, HeadTailProperties
<1>5. DOMAIN Tail(s) = 1..Len(Tail(s)) BY <1>4, LenProperties
<1>6. Head(s) = s[1] BY <1>1
<1>7. \A m \in DOMAIN Tail(s) : m + 1 \in DOMAIN s /\ Tail(s)[m] = s[m + 1]
  BY <1>2, <1>3, <1>4, <1>5
<1>8. StackOK(Tail(s)) BY <1>4, <1>7 DEF StackOK
<1> QED BY <1>2, <1>3, <1>4, <1>6, <1>7, <1>8
-----------------------------------------------------------------------------
(* The transcripts move on line by line                                     *)
LEMMA Frozen ==
  ASSUME cmd' = cmd, opt' = opt
  PROVE  /\ Tran' = Tran /\ Readers' = Readers /\ Prefix' = Prefix
         /\ \A r \in Readers : Eof(r)' <=> pos'[r] > Len(Tran[r].lines)
         /\ \A r \in Readers : Cur(r)' = Tran[r].lines[pos'[r]]
BY DEF Tran, Readers, Prefix, Eof, Cur

LEMMA Onward ==
  ASSUME TypeOK, Moves, pos' \in [Readers -> Nat \ {0}], cmd' = cmd, opt' = opt, NEW q \in Readers
  PROVE  /\ pos'[q] \in {pos[q], pos[q] + 1}
         /\ ~Eof(q)' => ~Eof(q)
         /\ pos'[q] = pos[q] => Cur(q)' = Cur(q) /\ (Eof(q)' <=> Eof(q))
         /\ pos'[q] # pos[q] => ~Eof(q)
         /\ ~Failed' /\ ~Eof(q)' /\ pos'[q] # pos[q] => Cur(q).path < Cur(q)'.path
         /\ ~Failed' /\ ~Eof(q)' => Cur(q).path <= Cur(q)'.path
<1>1. pos[q] \in Nat \ {0} /\ pos'[q] \in Nat /\ Len(Tran[q].lines) \in Nat BY Lines
<1>2. pos'[q] \in {pos[q], pos[q] + 1} /\ (pos'[q] # pos[q] => ~Eof(q))
  <2>1. ASSUME NEW r \in Readers, pos' = Passed(r)
        PROVE  pos'[q] \in {pos[q], pos[q] + 1} /\ (pos'[q] # pos[q] => ~Eof(q))
    BY <2>1, PassedType
  <2>2. ASSUME NEW r \in Readers, Selected(r), pos' = Consumed(r)
        PROVE  pos'[q] \in {pos[q], pos[q] + 1} /\ (pos'[q] # pos[q] => ~Eof(q))
    <3>1. CASE q = r BY <2>2, <3>1, PassedType DEF Selected
    <3>2. CASE q # r BY <2>2, <3>2, PassedType
    <3> QED BY <3>1, <3>2
  <2> QED BY <2>1, <2>2 DEF Moves, Passes, Consumes
<1>3. (Eof(q)' <=> pos'[q] > Len(Tran[q].lines)) /\ Cur(q)' = Tran[q].lines[pos'[q]] BY Frozen
<1>4. ~Eof(q)' => ~Eof(q) BY <1>1, <1>2, <1>3 DEF Eof
<1>5. pos'[q] = pos[q] => Cur(q)' = Cur(q) /\ (Eof(q)' <=> Eof(q)) BY <1>3 DEF Cur, Eof
<1>6. ASSUME ~Failed', ~Eof(q)', pos'[q] # pos[q]
      PROVE  Cur(q).path < Cur(q)'.path
  <2>1. pos'[q] = pos[q] + 1 BY <1>2, <1>6
  <2>2. pos'[q] \in 2..Len(Tran[q].lines) BY <1>1, <1>3, <1>6, <2>1
  <2>3. ~(Cur(q)'.path <= Tran[q].lines[pos'[q] - 1].path)
    BY <1>6, <2>2, Frozen DEF Failed, BadOrder
  <2>4. Tran[q].lines[pos'[q] - 1] = Cur(q) BY <1>1, <2>1 DEF Cur
  <2>5. Cur(q).path \in Nat BY <1>4, <1>6, Lines
  <2>6. Cur(q)'.path \in Nat
    <3>1. pos'[q] \in DOMAIN Tran[q].lines BY <1>1, <2>2, Lines
    <3> QED BY <1>3, <3>1, Lines DEF Line, Path
  <2> QED BY <2>3, <2>4, <2>5, <2>6
<1>7. ASSUME ~Failed', ~Eof(q)' PROVE Cur(q).path <= Cur(q)'.path
  <2>1. CASE pos'[q] = pos[q] BY <1>4, <1>5, <1>7, <2>1, Lines
  <2>2. CASE pos'[q] # pos[q]
    <3>1. Cur(q).path \in Nat /\ Cur(q)'.path \in Nat
      <4>1. pos'[q] \in DOMAIN Tran[q].lines BY <1>1, <1>2, <1>3, <1>7, Lines
      <4> QED BY <1>3, <1>4, <1>7, <4>1, Lines DEF Line, Path
    <3> QED BY <1>6, <1>7, <2>2, <3>1
  <2> QED BY <2>1, <2>2
<1> QED BY <1>2, <1>4, <1>5, <1>6, <1>7

(* A line that was chosen and not consumed is chosen again                  *)
LEMMA StillChosen ==
  ASSUME TypeOK, ~Failed', NEW r \in Readers, Passes(r), cmd' = cmd, opt' = opt
  PROVE  Chosen(r)' /\ Cur(r)' = Cur(r)
<1>1. pos' \in [Readers -> Nat \ {0}] /\ pos'[r] = pos[r] /\ r \in Nat
  BY PassedType, Lines DEF Passes
<1>2. Moves BY DEF Moves
<1>3. Cur(r)' = Cur(r) /\ ~Eof(r)' /\ ~Eof(r) /\ Selected(r) /\ ~Hidden(r)
  BY <1>1, <1>2, Onward DEF Passes, Chosen, Selected
<1>4. ~Hidden(r)' BY <1>3 DEF Hidden, Tran, Excluded, Inside, Prefix
<1>5. ASSUME NEW q \in Readers, ~Eof(q)'
      PROVE  Cur(r).path <= Cur(q)'.path /\ (q < r => Cur(r).path < Cur(q)'.path)
  <2>1. ~Eof(q) /\ Cur(q).path <= Cur(q)'.path BY <1>1, <1>2, <1>5, Onward
  <2>2. Cur(r).path <= Cur(q).path /\ (q < r => Cur(r).path < Cur(q).path)
    BY <1>3, <2>1 DEF Selected
  <2>3. Cur(r).path \in Nat /\ Cur(q).path \in Nat BY <1>3, <2>1, Lines
  <2>4. Cur(q)'.path \in Nat
    <3>1. pos'[q] \in DOMAIN Tran[q].lines BY <1>1, <1>5, Frozen, Lines
    <3> QED BY <3>1, Frozen, Lines DEF Line, Path
  <2> QED BY <2>1, <2>2, <2>3, <2>4
<1>6. Selected(r)' BY <1>3, <1>5, Frozen DEF Selected
<1> QED BY <1>3, <1>4, <1>6 DEF Chosen

(* While something is looked for, the line for it is the next               *)
LEMMA NothingElse ==
  ASSUME TInv, ~Failed, pc = "compare", subj.obj = Missing, NEW r \in Readers, Selected(r)
  PROVE  Chosen(r) /\ Cur(r).path = subj.path
<1>1. PICK q \in Readers : Chosen(q) /\ Cur(q).path = subj.path BY DEF TInv, Sought
<1> QED BY <1>1, OneSelected DEF Chosen, TInv
-----------------------------------------------------------------------------
(* Every step keeps the types, the stack and the line that is sought        *)
Loop(p, s) ==
  /\ p \in {"excluded", "compare", "select", "walk", "drain", "done"}
  /\ p = "walk" => s # <<>> /\ Head(s).kind = "dir"
  /\ p = "select" => s # <<>> /\ Head(s).kind = "negative"
  /\ p \in {"drain", "done"} => s = <<>>

LEMMA StackGood ==
  ASSUME TInv
  PROVE  StackOK(stack) /\ Loop(pc, stack)
BY DEF TInv, TypeOK, Stacked, StackOK, Loop

LEMMA ResumeLoop ==
  ASSUME NEW s, StackOK(s)
  PROVE  Loop(Resume(s), s) /\ Resume(s) # "compare" /\ Resume(s) # "excluded"
<1>1. s \in Seq(Frame) BY DEF StackOK
<1>2. /\ Resume(s) \in {"drain", "select", "walk"}
      /\ Resume(s) = "drain" <=> s = <<>>
      /\ Resume(s) = "select" => s # <<>> /\ Head(s).kind = "negative"
      /\ Resume(s) = "walk" => s # <<>> /\ Head(s).kind = "dir"
  BY <1>1, ResumeFits
<1> QED BY <1>2 DEF Loop

LEMMA TypeAfter ==
  ASSUME TInv, fs' = fs, node' = node, cmd' = cmd, opt' = opt,
         pos' \in [Readers -> Nat \ {0}],
         StackOK(stack'), Loop(pc', stack'),
         subj' \in Subject, subj'.inode = 0 => subj'.obj = Missing,
         fsMinus' \in BOOLEAN, link' \in [Inode -> Path \cup {0}], changed' \in SUBSET Inode,
         prevTran' \in Readers \cup {0}, out' \in Seq(Edit), Sought'
  PROVE  TInv'
<1>1. Readers' = Readers BY Frozen
<1>2. TypeOK'
  BY <1>1 DEF TInv, TypeOK, StackOK, Loop
<1>3. Stacked' BY DEF Stacked, StackOK, Loop
<1> QED BY <1>2, <1>3 DEF TInv

LEMMA EnterFits ==
  ASSUME TInv, NEW del \in BOOLEAN
  PROVE  StackOK(EnterDir(del))
<1> DEFINE dir == [kind |-> "dir", path |-> subj.path, kids |-> Children(subj.path), del |-> del]
<1>1. subj.path \in Path BY DEF TInv, TypeOK, Subject
<1>2. dir \in Frame BY <1>1 DEF Frame, Children
<1>3. \A k \in dir.kids : Parent(k) = dir.path /\ fs[k] # 0 BY DEF Children, Exists
<1>4. dir.kind # "negative" OBVIOUS
<1>5. StackOK(stack) BY StackGood
<1> HIDE DEF dir
<1>6. StackOK(<<dir>> \o stack) BY <1>2, <1>3, <1>4, <1>5, PushFits
<1> QED BY <1>5, <1>6 DEF EnterDir, dir

LEMMA SkipTypes ==
  ASSUME TInv, ~Failed, SelectSkip
  PROVE  TInv'
<1>1. /\ pos' \in [Readers -> Nat \ {0}]
      /\ fs' = fs /\ node' = node /\ cmd' = cmd /\ opt' = opt
  BY StepMoves DEF Step
<1>2. UNCHANGED local BY DEF SelectSkip, local
<1>3. Sought'
  <2>1. ASSUME pc = "compare", subj.obj = Missing PROVE FALSE
    BY <2>1, NothingElse DEF SelectSkip, Chosen
  <2> QED BY <1>2, <2>1 DEF Sought, local
<1>4. StackOK(stack) /\ Loop(pc, stack) BY StackGood
<1> QED BY <1>1, <1>2, <1>3, <1>4, TypeAfter DEF local, TInv, TypeOK

LEMMA ExcludedTypes ==
  ASSUME TInv, ~Failed, SkipExcluded
  PROVE  TInv'
<1>1. /\ pos' \in [Readers -> Nat \ {0}]
      /\ fs' = fs /\ node' = node /\ cmd' = cmd /\ opt' = opt
  BY StepMoves DEF Step
<1>2. UNCHANGED <<stack, subj, fsMinus, link, changed, prevTran, out>> /\ pc' = Resume(stack)
  BY DEF SkipExcluded
<1>3. StackOK(stack) /\ Loop(pc', stack) /\ pc' # "compare" BY <1>2, StackGood, ResumeLoop
<1>4. Sought' BY <1>3 DEF Sought
<1> QED BY <1>1, <1>2, <1>3, <1>4, TypeAfter DEF TInv, TypeOK

LEMMA TranTypes ==
  ASSUME TInv, ~Failed, TranOnly
  PROVE  TInv'
<1>1. /\ pos' \in [Readers -> Nat \ {0}]
      /\ fs' = fs /\ node' = node /\ cmd' = cmd /\ opt' = opt
  BY StepMoves DEF Step
<1>2. PICK r \in Readers :
        Chosen(r) /\ (pc = "compare" => Cur(r).path < subj.path) /\ TPrint(r, "tranOnly")
  BY DEF TranOnly
<1>3. ~Eof(r) /\ "tranOnly" \in Flags BY <1>2 DEF Chosen, Selected, Flags
<1>4. UNCHANGED <<stack, subj, link, pc>> BY DEF TranOnly
<1>5. /\ out' \in Seq(Edit) /\ prevTran' \in Readers \cup {0}
      /\ fsMinus' \in BOOLEAN /\ changed' \in SUBSET Inode
  BY <1>1, <1>2, <1>3, PrintType, Frozen
<1>6. Sought'
  <2>1. ASSUME pc = "compare", subj.obj = Missing PROVE FALSE
    <3>1. Cur(r).path = subj.path BY <1>2, <2>1, NothingElse DEF Chosen
    <3> QED BY <1>2, <1>3, <2>1, <3>1, Lines DEF TInv
  <2> QED BY <1>4, <2>1 DEF Sought
<1>7. StackOK(stack) /\ Loop(pc, stack) BY StackGood
<1> QED BY <1>1, <1>4, <1>5, <1>6, <1>7, TypeAfter DEF TInv, TypeOK

LEMMA FsTypes ==
  ASSUME TInv, ~Failed, FsOnly
  PROVE  TInv' /\ subj.obj # Missing
<1>1. /\ pos' \in [Readers -> Nat \ {0}]
      /\ fs' = fs /\ node' = node /\ cmd' = cmd /\ opt' = opt
  BY StepMoves DEF Step
<1>2. subj.obj # Missing
  <2>1. SUFFICES ASSUME subj.obj = Missing PROVE FALSE OBVIOUS
  <2>2. pc = "compare" BY DEF FsOnly
  <2>3. PICK q \in Readers : Chosen(q) /\ Cur(q).path = subj.path
    BY <2>1, <2>2 DEF TInv, Sought
  <2>4. ~AllEof BY <2>3 DEF AllEof, Chosen, Selected
  <2>5. PICK r \in Readers : Chosen(r) /\ Cur(r).path > subj.path
    BY <2>4 DEF FsOnly, ChosenBeyond
  <2>6. r = q BY <2>3, <2>5, OneSelected DEF Chosen, TInv
  <2> QED BY <2>3, <2>5, <2>6, Lines DEF TInv, Chosen, Selected
<1>3. TPrint(0, "fsOnly") /\ "fsOnly" \in Flags BY DEF FsOnly, Flags
<1>4. /\ out' \in Seq(Edit) /\ prevTran' \in Readers \cup {0}
      /\ fsMinus' \in BOOLEAN /\ changed' \in SUBSET Inode
  BY <1>1, <1>2, <1>3, PrintType, Frozen
<1>5. UNCHANGED <<subj, link>> /\ stack' = EnterDir(fsMinus') /\ pc' = Resume(stack')
  BY DEF FsOnly
<1>6. StackOK(stack') BY <1>4, <1>5, EnterFits
<1>7. Loop(pc', stack') /\ pc' # "compare" BY <1>5, <1>6, ResumeLoop
<1>8. Sought' BY <1>7 DEF Sought
<1> QED BY <1>1, <1>2, <1>4, <1>5, <1>6, <1>7, <1>8, TypeAfter DEF TInv, TypeOK

(* What T_MOVE_BOTH prints and where it goes                                *)
LEMMA BothParts ==
  ASSUME TInv, Both
  PROVE  \E r \in Readers, flag \in Flags \cup {"same"}, neg \in Frame :
           /\ Chosen(r) /\ ~Eof(r) /\ Cur(r).path = subj.path /\ pos' = Consumed(r)
           /\ IF flag = "same" THEN NoPrint ELSE TPrint(r, flag) /\ flag # "fsOnly"
           /\ neg.path = subj.path /\ neg.kids = {}
           /\ stack' = <<neg>> \o stack \/ stack' = EnterDir(fsMinus')
           /\ pc' = Resume(stack') /\ UNCHANGED <<subj, link>>
<1>1. PICK r \in Readers :
        LET l    == Cur(r).obj
            flag == Verdict(subj.obj, l, Tran[r].kind # "negative", subj.inode \in changed)
            neg  == [kind |-> "negative", path |-> subj.path, kids |-> {}, del |-> subj.del]
        IN  /\ Chosen(r) /\ Cur(r).path = subj.path
            /\ IF flag = "same" THEN NoPrint ELSE TPrint(r, flag)
            /\ stack' = IF Tran[r].kind = "negative" /\ l.type = "d"
                        THEN <<neg>> \o stack ELSE EnterDir(fsMinus')
            /\ pos' = Consumed(r)
            /\ pc' = Resume(stack')
  BY DEF Both
<1> DEFINE flag == Verdict(subj.obj, Cur(r).obj, Tran[r].kind # "negative", subj.inode \in changed)
           neg  == [kind |-> "negative", path |-> subj.path, kids |-> {}, del |-> subj.del]
<1>2. flag \in Flags \cup {"same"} /\ flag # "fsOnly" BY DEF Verdict, Flags
<1>3. neg \in Frame /\ neg.path = subj.path /\ neg.kids = {}
  BY DEF Frame, TInv, TypeOK, Subject
<1>4. ~Eof(r) BY <1>1 DEF Chosen, Selected
<1>5. UNCHANGED <<subj, link>> BY DEF Both
<1>6. /\ IF flag = "same" THEN NoPrint ELSE TPrint(r, flag)
      /\ stack' = <<neg>> \o stack \/ stack' = EnterDir(fsMinus')
      /\ pc' = Resume(stack') /\ pos' = Consumed(r) /\ Chosen(r) /\ Cur(r).path = subj.path
  BY <1>1
<1> HIDE DEF flag, neg
<1> QED BY <1>2, <1>3, <1>4, <1>5, <1>6

LEMMA BothTypes ==
  ASSUME TInv, ~Failed, Both
  PROVE  TInv'
<1>1. /\ pos' \in [Readers -> Nat \ {0}]
      /\ fs' = fs /\ node' = node /\ cmd' = cmd /\ opt' = opt
  BY StepMoves DEF Step
<1>2. PICK r \in Readers, flag \in Flags \cup {"same"}, neg \in Frame :
           /\ Chosen(r) /\ ~Eof(r) /\ Cur(r).path = subj.path /\ pos' = Consumed(r)
           /\ IF flag = "same" THEN NoPrint ELSE TPrint(r, flag) /\ flag # "fsOnly"
           /\ neg.path = subj.path /\ neg.kids = {}
           /\ stack' = <<neg>> \o stack \/ stack' = EnterDir(fsMinus')
           /\ pc' = Resume(stack') /\ UNCHANGED <<subj, link>>
  BY BothParts
<1>3. /\ out' \in Seq(Edit) /\ prevTran' \in Readers \cup {0}
      /\ fsMinus' \in BOOLEAN /\ changed' \in SUBSET Inode
  <2>1. CASE flag = "same" BY <1>2, <2>1 DEF NoPrint, TInv, TypeOK
  <2>2. CASE flag # "same" BY <1>1, <1>2, <2>2, PrintType, Frozen
  <2> QED BY <2>1, <2>2
<1>4. StackOK(stack) BY StackGood
<1>5. StackOK(stack')
  <2>1. \A k \in neg.kids : Parent(k) = neg.path /\ fs[k] # 0 BY <1>2
  <2>2. StackOK(<<neg>> \o stack) BY <1>2, <1>4, <2>1, PushFits
  <2>3. StackOK(EnterDir(fsMinus')) BY <1>3, EnterFits
  <2> QED BY <1>2, <2>2, <2>3
<1>6. Loop(pc', stack') /\ pc' # "compare" BY <1>2, <1>5, ResumeLoop
<1>7. Sought' BY <1>6 DEF Sought
<1> QED BY <1>1, <1>2, <1>3, <1>5, <1>6, <1>7, TypeAfter DEF TInv, TypeOK

(* The children of a directory are taken from its frame one by one          *)
LEMMA WalkParts ==
  ASSUME TInv, WalkChild
  PROVE  \E p \in Path, top \in Frame :
           /\ p \in stack[1].kids /\ 1 \in DOMAIN stack /\ \A k \in stack[1].kids : p <= k
           /\ top = [stack[1] EXCEPT !.kids = @ \ {p}]
           /\ Visit(p, stack[1].del, <<top>> \o Tail(stack))
           /\ StackOK(<<top>> \o Tail(stack)) /\ StackOK(Tail(stack))
           /\ stack' = <<top>> \o Tail(stack) /\ pos' = pos
<1>1. StackOK(stack) /\ stack # <<>> /\ Head(stack).kids # {}
  BY StackGood DEF WalkChild, TInv, Stacked
<1>2. /\ StackOK(Tail(stack)) /\ Head(stack) \in Frame /\ Head(stack) = stack[1]
      /\ 1 \in DOMAIN stack
  BY <1>1, PopFits
<1> DEFINE p == Least(stack[1].kids)
           top == [stack[1] EXCEPT !.kids = @ \ {p}]
<1>3. stack[1].kids \in SUBSET Path BY <1>2 DEF Frame
<1>4. p \in stack[1].kids /\ p \in Path /\ \A k \in stack[1].kids : p <= k
  BY <1>1, <1>2, <1>3, LeastMember DEF Path
<1>5. top \in Frame /\ top.path = stack[1].path /\ top.kids \subseteq stack[1].kids
      /\ top.kind = stack[1].kind
  BY <1>2 DEF Frame
<1>6. Visit(p, stack[1].del, <<top>> \o Tail(stack)) /\ pos' = pos BY <1>2 DEF WalkChild
<1>7. stack' = <<top>> \o Tail(stack) BY <1>6 DEF Visit
<1>8. /\ \A k \in top.kids : Parent(k) = top.path /\ fs[k] # 0
      /\ top.kind = "negative" => top.kids = {}
  BY <1>1, <1>2, <1>5 DEF StackOK
<1> DEFINE t == top
<1>9. StackOK(<<t>> \o Tail(stack))
  <2> HIDE DEF t
  <2> QED BY <1>2, <1>5, <1>8, PushFits DEF t
<1>10. top = [stack[1] EXCEPT !.kids = @ \ {p}] OBVIOUS
<1> HIDE DEF p, top
<1> QED BY <1>2, <1>4, <1>5, <1>6, <1>7, <1>9, <1>10

LEMMA WalkTypes ==
  ASSUME TInv, ~Failed, WalkChild
  PROVE  TInv'
<1>1. /\ pos' \in [Readers -> Nat \ {0}]
      /\ fs' = fs /\ node' = node /\ cmd' = cmd /\ opt' = opt
  BY StepMoves DEF Step
<1>2. PICK p \in Path, top \in Frame :
           /\ p \in stack[1].kids /\ 1 \in DOMAIN stack
           /\ Visit(p, stack[1].del, <<top>> \o Tail(stack))
           /\ StackOK(<<top>> \o Tail(stack))
           /\ stack' = <<top>> \o Tail(stack)
  BY WalkParts
<1>3. StackOK(stack) BY StackGood
<1>4. stack[1].del \in BOOLEAN /\ fs[p] # 0
  <2>1. stack \in Seq(Frame) /\ 1 \in DOMAIN stack BY <1>2, <1>3 DEF StackOK
  <2>2. stack[1] \in Frame BY <2>1, ElementOfSeq, LenProperties
  <2> QED BY <1>2, <1>3, <2>2 DEF StackOK, Frame
<1>5. /\ fsMinus' = FALSE /\ subj' \in Subject /\ subj'.obj = Seen(p) /\ subj'.inode = fs[p]
      /\ link' \in [Inode -> Path \cup {0}] /\ pc' \in {"excluded", "compare"}
      /\ changed' = changed /\ prevTran' = prevTran /\ out' = out
  BY <1>2, <1>4, VisitType
<1>6. subj'.obj # Missing BY <1>4, <1>5, SeenType DEF TInv
<1>7. Sought' BY <1>6 DEF Sought
<1>8. Loop(pc', stack') BY <1>5 DEF Loop
<1> QED BY <1>1, <1>2, <1>4, <1>5, <1>7, <1>8, TypeAfter DEF TInv, TypeOK

LEMMA NegativeTypes ==
  ASSUME TInv, ~Failed, NegativeChild
  PROVE  TInv'
<1>1. /\ pos' \in [Readers -> Nat \ {0}]
      /\ fs' = fs /\ node' = node /\ cmd' = cmd /\ opt' = opt
  BY StepMoves DEF Step
<1>2. PICK r \in Readers :
        /\ Chosen(r) /\ Inside(Cur(r).path, Head(stack).path)
        /\ Visit(Cur(r).path, Head(stack).del, stack) /\ pos' = Passed(r)
  BY DEF NegativeChild
<1>3. StackOK(stack) /\ stack # <<>> BY StackGood DEF NegativeChild, TInv, Stacked
<1>4. Head(stack) \in Frame BY <1>3, PopFits
<1>5. Cur(r).path \in Path /\ Head(stack).del \in BOOLEAN
  BY <1>2, <1>4, Lines DEF Chosen, Selected, Frame, TInv
<1>6. /\ stack' = stack /\ fsMinus' = FALSE /\ subj' \in Subject /\ subj'.path = Cur(r).path
      /\ subj'.obj = Seen(Cur(r).path) /\ subj'.inode = fs[Cur(r).path]
      /\ link' \in [Inode -> Path \cup {0}] /\ pc' \in {"excluded", "compare"}
      /\ changed' = changed /\ prevTran' = prevTran /\ out' = out
  BY <1>2, <1>5, VisitType
<1>7. subj'.inode = 0 => subj'.obj = Missing BY <1>5, <1>6, SeenType DEF TInv
<1>8. Sought'
  <2>1. SUFFICES ASSUME ~Failed' PROVE \E q \in Readers' : Chosen(q)' /\ Cur(q)'.path = subj'.path
    BY DEF Sought
  <2>2. Chosen(r)' /\ Cur(r)' = Cur(r) BY <1>1, <1>2, <2>1, StillChosen DEF Passes, TInv
  <2>3. r \in Readers' BY <1>1, <1>2, Frozen
  <2> QED BY <1>6, <2>2, <2>3
<1>9. Loop(pc', stack') BY <1>6 DEF Loop
<1> QED BY <1>1, <1>3, <1>6, <1>7, <1>8, <1>9, TypeAfter DEF TInv, TypeOK

LEMMA ReturnTypes ==
  ASSUME TInv, ~Failed, Return
  PROVE  TInv'
<1>1. /\ pos' \in [Readers -> Nat \ {0}]
      /\ fs' = fs /\ node' = node /\ cmd' = cmd /\ opt' = opt
  BY StepMoves DEF Step
<1>2. /\ UNCHANGED <<subj, fsMinus, link, changed, prevTran, out>>
      /\ stack' = Tail(stack) /\ pc' = Resume(stack')
  BY DEF Return
<1>3. StackOK(stack) /\ stack # <<>> BY StackGood DEF Return, TInv, Stacked
<1>4. StackOK(stack') BY <1>2, <1>3, PopFits
<1>5. Loop(pc', stack') /\ pc' # "compare" BY <1>2, <1>4, ResumeLoop
<1>6. Sought' BY <1>5 DEF Sought
<1> QED BY <1>1, <1>2, <1>4, <1>5, <1>6, TypeAfter DEF TInv, TypeOK

LEMMA FinishTypes ==
  ASSUME TInv, ~Failed, Finish
  PROVE  TInv'
<1>1. /\ pos' \in [Readers -> Nat \ {0}]
      /\ fs' = fs /\ node' = node /\ cmd' = cmd /\ opt' = opt
  BY StepMoves DEF Step
<1>2. UNCHANGED <<stack, subj, fsMinus, link, changed, prevTran, out>> /\ pc' = "done"
  BY DEF Finish
<1>3. StackOK(stack) /\ Loop(pc', stack) BY <1>2, StackGood DEF Loop, Finish
<1>4. Sought' BY <1>2 DEF Sought
<1> QED BY <1>1, <1>2, <1>3, <1>4, TypeAfter DEF TInv, TypeOK

LEMMA InitTypes == Init => TInv
<1> SUFFICES ASSUME Init PROVE TInv OBVIOUS
<1>1. PICK i \in Inputs : /\ \E t \in i.trees : fs = t.fs /\ node = t.node
                          /\ cmd \in i.commands /\ opt = i.opt
  BY DEF Init
<1>2. /\ WellFormed(fs, node) /\ cmd \in CommandFile /\ opt \in Options
      /\ fs[Prefix] # 0
  BY <1>1, InputAssumption DEF Prefix
<1>3. Prefix \in Path BY <1>2 DEF Options, Prefix
<1>4. fs[Prefix] \in Inode /\ node[fs[Prefix]] \in Obj BY <1>2, <1>3, NodeThere
<1>5. /\ pos = [r \in Readers |-> 1] /\ stack = <<>> /\ pc \in {"excluded", "compare"}
      /\ subj = [path |-> Prefix, obj |-> node[fs[Prefix]], inode |-> fs[Prefix], del |-> FALSE]
      /\ fsMinus = FALSE /\ changed = {} /\ prevTran = 0 /\ out = <<>>
  BY DEF Init
<1>6. link \in [Inode -> Path \cup {0}] BY <1>3 DEF Init
<1>7. subj \in Subject /\ subj.obj # Missing /\ subj.inode # 0
  BY <1>3, <1>4, <1>5, ObjBasics DEF Subject
<1>8. pos \in [Readers -> Nat \ {0}] BY <1>5
<1>9. stack \in Seq(Frame) /\ out \in Seq(Edit) /\ DOMAIN stack = {} BY <1>5
<1>10. TypeOK BY <1>2, <1>5, <1>6, <1>7, <1>8, <1>9 DEF TypeOK
<1>11. Stacked BY <1>5, <1>9 DEF Stacked
<1>12. Sought BY <1>7 DEF Sought
<1> QED BY <1>7, <1>10, <1>11, <1>12 DEF TInv

LEMMA StepTypes ==
  ASSUME TInv, [Next]_vars
  PROVE  TInv'
<1>1. ASSUME Running, Step PROVE TInv'
  <2>1. ~Failed BY <1>1 DEF Running
  <2> QED BY <1>1, <2>1, SkipTypes, ExcludedTypes, TranTypes, FsTypes, BothTypes, WalkTypes,
             NegativeTypes, ReturnTypes, FinishTypes DEF Step
<1>2. ASSUME UNCHANGED vars PROVE TInv'
  <2>1. UNCHANGED <<fs, node, cmd, opt, pos, stack, pc, subj, fsMinus, link, changed, prevTran, out>>
    BY <1>2 DEF vars, given, local
  <2>2. Readers' = Readers BY <2>1, Frozen
  <2>3. TypeOK' BY <2>1, <2>2 DEF TInv, TypeOK
  <2>4. Stacked' BY <2>1 DEF TInv, Stacked
  <2>5. Sought'
    <3>1. Failed' = Failed /\ \A r \in Readers : Chosen(r)' = Chosen(r) /\ Cur(r)' = Cur(r)
      BY <2>1 DEF Failed, BadOrder, Readers, Tran, Chosen, Selected, Eof, Cur, Hidden, Excluded, Prefix
    <3> QED BY <2>1, <2>2, <3>1 DEF TInv, Sought
  <2> QED BY <2>1, <2>3, <2>4, <2>5 DEF TInv
<1> QED BY <1>1, <1>2 DEF Next, Exited

(* The variables keep their types whatever tree, command file and options   *)
(* fsdiff() is given: an object is only ever printed when there is one,     *)
(* and a line only while its transcript is not at eof                       *)
THEOREM TypeCorrect == Spec => []TypeOK
<1>1. TInv => TypeOK BY DEF TInv
<1> QED BY <1>1, InitTypes, StepTypes, PTL DEF Spec
-----------------------------------------------------------------------------
(* Why the edits are sorted: all that is printed is less than every line    *)
(* that is still to come, than the object in hand and than every directory  *)
(* entry that is still to be visited, and those are in the order of the     *)
(* stack.                                                                   *)
Under(o, x) == \A n \in DOMAIN o : o[n].path < x

KidsOf(s) == UNION { s[m].kids : m \in DOMAIN s }

(* The entries left in a frame come after all that is below an inner one    *)
Apart(s) == \A m \in DOMAIN s : \A k \in s[m].kids : \A l \in 1..(m - 1) : Last[s[l].path] < k

Ahead == ~Failed => \A r \in Readers : ~Eof(r) => Under(out, Cur(r).path)
Before ==
  pc \in {"compare", "excluded"} =>
    Under(out, subj.path) /\ \A k \in KidsOf(stack) : Last[subj.path] < k
Pending == Apart(stack) /\ \A k \in KidsOf(stack) : Under(out, k)

SInv == TInv /\ EditsSorted /\ Ahead /\ Before /\ Pending

(* What is appended                                                         *)
LEMMA EditPaths ==
  ASSUME NEW e \in Edit
  PROVE  e.path \in Path /\ e.path \in Nat
<1>1. e.path \in Path BY DEF Edit
<1> QED BY <1>1, PathAssumption DEF Path

LEMMA Appended ==
  ASSUME NEW o \in Seq(Edit), NEW e \in Edit, Under(o, e.path),
         \A m, n \in DOMAIN o : m < n => o[m].path < o[n].path
  PROVE  /\ \A m, n \in DOMAIN Append(o, e) : m < n => Append(o, e)[m].path < Append(o, e)[n].path
         /\ \A x \in Nat : e.path < x => Under(Append(o, e), x)
         /\ \A n \in DOMAIN Append(o, e) : IF n \in DOMAIN o THEN Append(o, e)[n] = o[n]
                                           ELSE n = Len(o) + 1 /\ Append(o, e)[n] = e
<1>1. /\ Len(Append(o, e)) = Len(o) + 1 /\ Len(o) \in Nat
      /\ DOMAIN o = 1..Len(o) /\ DOMAIN Append(o, e) = 1..(Len(o) + 1)
      /\ \A i \in 1..Len(o) : Append(o, e)[i] = o[i]
      /\ Append(o, e)[Len(o) + 1] = e
  <2>1. /\ Append(o, e) \in Seq(Edit) /\ Len(Append(o, e)) = Len(o) + 1
        /\ \A i \in 1..Len(o) : Append(o, e)[i] = o[i]
        /\ Append(o, e)[Len(o) + 1] = e
    BY AppendProperties
  <2>2. Len(o) \in Nat /\ DOMAIN o = 1..Len(o) BY LenProperties
  <2>3. DOMAIN Append(o, e) = 1..Len(Append(o, e)) BY <2>1, LenProperties
  <2> QED BY <2>1, <2>2, <2>3
<1>2. \A i \in DOMAIN o : o[i].path \in Nat
  <2>1. \A i \in DOMAIN o : o[i] \in Edit BY ElementOfSeq, <1>1
  <2> QED BY <2>1, EditPaths
<1>3. e.path \in Nat BY EditPaths
<1>4. \A n \in DOMAIN Append(o, e) : IF n \in DOMAIN o THEN Append(o, e)[n] = o[n]
                                     ELSE n = Len(o) + 1 /\ Append(o, e)[n] = e
  <2>1. \A n \in DOMAIN Append(o, e) : n \in 1..Len(o) \/ n = Len(o) + 1 BY <1>1
  <2> QED BY <1>1, <2>1, Zenon
<1>5. ASSUME NEW x \in Nat, e.path < x, NEW n \in DOMAIN Append(o, e)
      PROVE  Append(o, e)[n].path < x
  <2>1. CASE n \in DOMAIN o
    <3>1. o[n].path < e.path /\ o[n].path \in Nat BY <1>2, <2>1 DEF Under
    <3> QED BY <1>3, <1>4, <1>5, <2>1, <3>1
  <2>2. CASE n \notin DOMAIN o BY <1>4, <1>5, <2>2
  <2> QED BY <2>1, <2>2
<1>6. ASSUME NEW m \in DOMAIN Append(o, e), NEW n \in DOMAIN Append(o, e), m < n
      PROVE  Append(o, e)[m].path < Append(o, e)[n].path
  <2>1. m \in DOMAIN o /\ Append(o, e)[m] = o[m] BY <1>1, <1>6
  <2>2. CASE n \in DOMAIN o BY <1>4, <1>6, <2>1, <2>2
  <2>3. CASE n \notin DOMAIN o BY <1>4, <2>1, <2>3 DEF Under
  <2> QED BY <2>2, <2>3
<1>7. \A x \in Nat : e.path < x => Under(Append(o, e), x) BY <1>5 DEF Under
<1> QED BY <1>4, <1>6, <1>7

LEMMA UnderUp ==
  ASSUME NEW o \in Seq(Edit), NEW x \in Nat, NEW y \in Nat, x <= y, Under(o, x)
  PROVE  Under(o, y)
<1>1. DOMAIN o = 1..Len(o) BY LenProperties
<1>3. \A i \in DOMAIN o : o[i] \in Edit BY <1>1, ElementOfSeq
<1>2. \A i \in DOMAIN o : o[i].path \in Nat BY <1>3, EditPaths
<1> QED BY <1>2 DEF Under

(* Frames                                                                   *)
LEMMA PushKids ==
  ASSUME NEW s, StackOK(s), NEW f \in Frame, \A k \in f.kids : Parent(k) = f.path /\ fs[k] # 0,
         f.kind = "negative" => f.kids = {},
         Apart(s), \A k \in KidsOf(s) : Last[f.path] < k
  PROVE  KidsOf(<<f>> \o s) \subseteq f.kids \cup KidsOf(s) /\ Apart(<<f>> \o s)
<1> DEFINE t == <<f>> \o s
<1>1. /\ StackOK(t) /\ t[1] = f
      /\ \A m \in DOMAIN t : m # 1 => m - 1 \in DOMAIN s /\ t[m] = s[m - 1]
  BY PushFits
<1>2. DOMAIN t = 1..Len(t) /\ Len(t) \in Nat BY <1>1, LenProperties DEF StackOK
<1> HIDE DEF t
<1>3. KidsOf(t) \subseteq f.kids \cup KidsOf(s) BY <1>1 DEF KidsOf
<1>4. ASSUME NEW m \in DOMAIN t, NEW k \in t[m].kids, NEW l \in 1..(m - 1) PROVE Last[t[l].path] < k
  <2>1. m # 1 /\ m \in Nat /\ l \in DOMAIN t BY <1>2, <1>4
  <2>2. m - 1 \in DOMAIN s /\ k \in s[m - 1].kids BY <1>1, <1>4, <2>1
  <2>3. CASE l = 1 BY <1>1, <2>2, <2>3 DEF KidsOf
  <2>4. CASE l # 1
    <3>1. t[l] = s[l - 1] /\ l - 1 \in 1..((m - 1) - 1) BY <1>1, <1>4, <2>1, <2>4
    <3> QED BY <2>2, <3>1 DEF Apart
  <2> QED BY <2>3, <2>4
<1> QED BY <1>3, <1>4 DEF Apart, t

LEMMA PopKids ==
  ASSUME NEW s, StackOK(s), s # <<>>, Apart(s)
  PROVE  /\ Apart(Tail(s)) /\ KidsOf(Tail(s)) \subseteq KidsOf(s)
         /\ s[1].kids \subseteq KidsOf(s)
         /\ \A k \in KidsOf(Tail(s)) : Last[s[1].path] < k
<1> DEFINE t == Tail(s)
<1>1. /\ StackOK(t) /\ 1 \in DOMAIN s
      /\ \A m \in DOMAIN t : m + 1 \in DOMAIN s /\ t[m] = s[m + 1]
  BY PopFits
<1>2. DOMAIN t = 1..Len(t) /\ Len(t) \in Nat BY <1>1, LenProperties DEF StackOK
<1> HIDE DEF t
<1>3. KidsOf(t) \subseteq KidsOf(s) /\ s[1].kids \subseteq KidsOf(s) BY <1>1 DEF KidsOf
<1>4. ASSUME NEW m \in DOMAIN t, NEW k \in t[m].kids
      PROVE  /\ Last[s[1].path] < k
             /\ \A l \in 1..(m - 1) : Last[t[l].path] < k
  <2>1. m + 1 \in DOMAIN s /\ k \in s[m + 1].kids /\ m \in Nat BY <1>1, <1>2, <1>4
  <2>2. \A l \in 1..((m + 1) - 1) : Last[s[l].path] < k BY <2>1 DEF Apart
  <2>3. 1 \in 1..((m + 1) - 1) BY <1>2, <1>4
  <2>4. ASSUME NEW l \in 1..(m - 1) PROVE Last[t[l].path] < k
    <3>1. l \in DOMAIN t /\ l + 1 \in 1..((m + 1) - 1) BY <1>2, <1>4, <2>4
    <3> QED BY <1>1, <2>2, <3>1
  <2> QED BY <2>2, <2>3, <2>4
<1>5. Apart(t) BY <1>4 DEF Apart
<1>6. \A k \in KidsOf(t) : Last[s[1].path] < k BY <1>4 DEF KidsOf
<1> QED BY <1>3, <1>5, <1>6 DEF t

(* All that is left after a line has been dealt with is beyond it           *)
LEMMA ConsumedBeyond ==
  ASSUME TypeOK, cmd' = cmd, opt' = opt, ~Failed',
         NEW r \in Readers, Selected(r), pos' = Consumed(r), NEW q \in Readers, ~Eof(q)'
  PROVE  Cur(r).path < Cur(q)'.path
<1>1. Moves /\ pos' \in [Readers -> Nat \ {0}] BY PassedType DEF Moves, Consumes
<1>2. /\ ~Eof(q) /\ Cur(q).path <= Cur(q)'.path
      /\ pos'[q] # pos[q] => Cur(q).path < Cur(q)'.path
  BY <1>1, Onward
<1>3. Cur(r).path <= Cur(q).path /\ (q < r => Cur(r).path < Cur(q).path) BY <1>2 DEF Selected
<1>4. Cur(r).path \in Nat /\ Cur(q).path \in Nat /\ Cur(q)'.path \in Nat /\ r \in Nat /\ q \in Nat
  <2>1. pos'[q] \in DOMAIN Tran[q].lines BY <1>1, Frozen, Lines
  <2> QED BY <1>2, <2>1, Frozen, Lines DEF Line, Path, Selected
<1>5. CASE pos'[q] # pos[q] BY <1>2, <1>3, <1>4, <1>5
<1>6. CASE pos'[q] = pos[q]
  <2>1. q # r BY <1>6, PassedType, Lines
  <2>2. q > r => Cur(q).path # Cur(r).path
    BY <1>2, <1>6, <2>1, PassedType, Lines
  <2> QED BY <1>2, <1>3, <1>4, <2>1, <2>2
<1> QED BY <1>5, <1>6
-----------------------------------------------------------------------------
LEMMA LineAfter ==
  ASSUME TypeOK, pos' \in [Readers -> Nat \ {0}], cmd' = cmd, opt' = opt, NEW q \in Readers, ~Eof(q)'
  PROVE  Cur(q)'.path \in Nat
<1>1. pos'[q] \in DOMAIN Tran[q].lines BY Frozen, Lines
<1> QED BY <1>1, Frozen, Lines DEF Line, Path

LEMMA KidsArePaths ==
  ASSUME TInv
  PROVE  KidsOf(stack) \subseteq Path /\ Path \subseteq Nat
<1>1. StackOK(stack) BY StackGood
<1>2. \A m \in DOMAIN stack : stack[m] \in Frame
  BY <1>1, ElementOfSeq, LenProperties DEF StackOK
<1> QED BY <1>2, Bounds DEF KidsOf, Frame

(* Nothing is printed, and the transcripts at most move on                  *)
LEMMA SilentStep ==
  ASSUME SInv, ~Failed, Step, out' = out
  PROVE  EditsSorted' /\ Ahead'
<1>1. /\ Moves /\ pos' \in [Readers -> Nat \ {0}] /\ cmd' = cmd /\ opt' = opt
  BY StepMoves DEF SInv
<1>2. TypeOK /\ out \in Seq(Edit) BY DEF SInv, TInv, TypeOK
<1>3. EditsSorted' BY DEF SInv, EditsSorted
<1>4. ASSUME ~Failed', NEW q \in Readers, ~Eof(q)' PROVE Under(out, Cur(q)'.path)
  <2>1. ~Eof(q) /\ Cur(q).path <= Cur(q)'.path BY <1>1, <1>2, <1>4, Onward
  <2>2. Cur(q).path \in Nat /\ Cur(q)'.path \in Nat BY <1>1, <1>2, <1>4, <2>1, Lines, LineAfter
  <2>3. Under(out, Cur(q).path) BY <2>1 DEF SInv, Ahead
  <2> QED BY <1>2, <2>1, <2>2, <2>3, UnderUp
<1>5. Readers' = Readers BY <1>1, Frozen
<1>6. Ahead' BY <1>4, <1>5 DEF Ahead
<1> QED BY <1>3, <1>6

(* An edit is printed that all that has been printed is before, and that is *)
(* before all that is left                                                  *)
LEMMA PrintedStep ==
  ASSUME SInv, ~Failed, Step, NEW e \in Edit, out' = Append(out, e), Under(out, e.path),
         \A q \in Readers : ~Failed' /\ ~Eof(q)' => e.path < Cur(q)'.path
  PROVE  EditsSorted' /\ Ahead' /\ \A x \in Nat : e.path < x => Under(out', x)
<1>1. /\ Moves /\ pos' \in [Readers -> Nat \ {0}] /\ cmd' = cmd /\ opt' = opt
  BY StepMoves DEF SInv
<1>2. TypeOK /\ out \in Seq(Edit) BY DEF SInv, TInv, TypeOK
<1>3. \A m, n \in DOMAIN out : m < n => out[m].path < out[n].path BY DEF SInv, EditsSorted
<1>4. /\ \A m, n \in DOMAIN out' : m < n => out'[m].path < out'[n].path
      /\ \A x \in Nat : e.path < x => Under(out', x)
  BY <1>2, <1>3, Appended
<1>5. EditsSorted' BY <1>4 DEF EditsSorted
<1>6. ASSUME ~Failed', NEW q \in Readers, ~Eof(q)' PROVE Under(out', Cur(q)'.path)
  BY <1>1, <1>2, <1>4, <1>6, LineAfter
<1>7. Readers' = Readers BY <1>1, Frozen
<1>8. Ahead' BY <1>6, <1>7 DEF Ahead
<1> QED BY <1>4, <1>5, <1>8

LEMMA PathsPrinted ==
  ASSUME TypeOK, NEW r, NEW flag \in Flags \cup {"same"}
  PROVE  /\ flag = "tranOnly" => ~(Minus(flag) = (EditPath = "applicable"))
         /\ flag = "fsOnly" /\ subj.obj # Missing => Minus(flag) = (EditPath = "applicable")
<1>1. EditPath \in {"applicable", "creatable"} BY DEF TypeOK, Options, EditPath
<1>2. subj.obj # Missing => subj.obj.type # "X" BY ObjBasics DEF TypeOK, Subject
<1> QED BY <1>1, <1>2 DEF Minus

LEMMA SkipSorted ==
  ASSUME SInv, ~Failed, SelectSkip \/ SkipExcluded \/ Finish
  PROVE  EditsSorted' /\ Ahead' /\ Before' /\ Pending'
<1>1. UNCHANGED <<stack, subj, out>> BY DEF SelectSkip, SkipExcluded, Finish
<1>2. pc' = pc \/ (pc' # "compare" /\ pc' # "excluded")
  BY StackGood, ResumeLoop DEF SelectSkip, SkipExcluded, Finish, SInv
<1>3. EditsSorted' /\ Ahead' BY <1>1, SilentStep DEF Step
<1>4. Before' /\ Pending' BY <1>1, <1>2 DEF SInv, Before, Pending
<1> QED BY <1>3, <1>4

LEMMA TranSorted ==
  ASSUME SInv, ~Failed, TranOnly
  PROVE  EditsSorted' /\ Ahead' /\ Before' /\ Pending'
<1>1. /\ cmd' = cmd /\ opt' = opt BY StepMoves DEF Step, SInv
<1>2. PICK r \in Readers :
        /\ Chosen(r) /\ (pc = "compare" => Cur(r).path < subj.path) /\ TPrint(r, "tranOnly")
        /\ pos' = Consumed(r)
  BY DEF TranOnly
<1>3. ~Eof(r) /\ Selected(r) /\ "tranOnly" \in Flags BY <1>2 DEF Chosen, Selected, Flags
<1> DEFINE e == Printed(r, "tranOnly")
<1>4. TInv /\ TypeOK BY DEF SInv, TInv
<1>5. e \in Edit /\ e.path = Cur(r).path
  BY <1>3, <1>4, PrintedType, PathsPrinted
<1>6. out' = Append(out, e) BY <1>2 DEF TPrint
<1> HIDE DEF e
<1>7. Under(out, e.path) BY <1>3, <1>5 DEF SInv, Ahead
<1>8. \A q \in Readers : ~Failed' /\ ~Eof(q)' => e.path < Cur(q)'.path
  BY <1>1, <1>2, <1>3, <1>4, <1>5, ConsumedBeyond
<1>9. EditsSorted' /\ Ahead' /\ \A x \in Nat : e.path < x => Under(out', x)
  BY <1>5, <1>6, <1>7, <1>8, PrintedStep DEF Step
<1>10. UNCHANGED <<stack, subj, pc>> BY DEF TranOnly
<1>11. subj.path \in Path /\ e.path \in Nat BY <1>4, <1>5, EditPaths DEF TypeOK, Subject
<1>12. Before'
  <2>1. SUFFICES ASSUME pc = "compare" PROVE Before' BY <1>10 DEF TranOnly, Before
  <2>2. Under(out', subj.path) BY <1>2, <1>5, <1>9, <1>11, <2>1, Bounds
  <2> QED BY <1>10, <2>1, <2>2 DEF SInv, Before
<1>13. ASSUME NEW k \in KidsOf(stack) PROVE Under(out', k)
  <2>1. k \in Nat BY <1>4, <1>13, KidsArePaths
  <2>2. CASE pc = "compare"
    <3>1. Last[subj.path] < k BY <1>13, <2>2 DEF SInv, Before
    <3>2. subj.path <= Last[subj.path] /\ Last[subj.path] \in Nat /\ subj.path \in Nat
      BY <1>11, Bounds
    <3>3. e.path < k BY <1>2, <1>5, <1>11, <2>1, <2>2, <3>1, <3>2
    <3> QED BY <1>9, <2>1, <3>3
  <2>3. CASE pc = "drain"
    <3>1. stack = <<>> BY <1>4, <2>3 DEF TInv, Stacked
    <3> QED BY <1>13, <3>1 DEF KidsOf
  <2> QED BY <2>2, <2>3 DEF TranOnly
<1>14. Pending' BY <1>10, <1>13 DEF SInv, Pending
<1> QED BY <1>9, <1>12, <1>14

(* Into a directory                                                         *)
LEMMA EnterKids ==
  ASSUME TInv, Before, pc = "compare", Apart(stack), NEW del \in BOOLEAN
  PROVE  /\ Apart(EnterDir(del))
         /\ \A k \in KidsOf(EnterDir(del)) : k \in Nat /\ subj.path < k
<1> DEFINE dir == [kind |-> "dir", path |-> subj.path, kids |-> Children(subj.path), del |-> del]
<1>1. subj.path \in Path BY DEF TInv, TypeOK, Subject
<1>2. dir \in Frame BY <1>1 DEF Frame, Children
<1>3. \A k \in dir.kids : Parent(k) = dir.path /\ fs[k] # 0 BY DEF Children, Exists
<1>4. dir.kind # "negative" /\ dir.path = subj.path OBVIOUS
<1>5. StackOK(stack) /\ \A k \in KidsOf(stack) : Last[subj.path] < k BY StackGood DEF Before
<1>6. \A k \in KidsOf(stack) : k \in Nat /\ subj.path < k
  <2>1. subj.path \in Nat /\ Last[subj.path] \in Nat /\ subj.path <= Last[subj.path]
    BY <1>1, Bounds
  <2> QED BY <1>5, <2>1, KidsArePaths
<1>7. \A k \in dir.kids : k \in Nat /\ subj.path < k
  <2>1. SUFFICES ASSUME NEW k \in dir.kids PROVE k \in Nat /\ subj.path < k OBVIOUS
  <2>2. k \in Path /\ Parent(k) = subj.path BY <2>1 DEF Children
  <2>3. subj.path # 0 BY <1>1 DEF Path
  <2>4. Parent(k) < k BY <2>2, <2>3, PathAssumption, ParentAbove
  <2> QED BY <2>2, <2>4, Bounds
<1> HIDE DEF dir
<1>8. Apart(<<dir>> \o stack) /\ KidsOf(<<dir>> \o stack) \subseteq dir.kids \cup KidsOf(stack)
  BY <1>2, <1>3, <1>4, <1>5, PushKids
<1>9. EnterDir(del) = <<dir>> \o stack \/ EnterDir(del) = stack BY DEF EnterDir, dir
<1> QED BY <1>6, <1>7, <1>8, <1>9

LEMMA FsSorted ==
  ASSUME SInv, ~Failed, FsOnly
  PROVE  EditsSorted' /\ Ahead' /\ Before' /\ Pending'
<1>1. /\ Moves /\ pos' \in [Readers -> Nat \ {0}] /\ cmd' = cmd /\ opt' = opt
  BY StepMoves DEF Step, SInv
<1>2. TInv /\ TypeOK /\ TInv' /\ subj.obj # Missing /\ pc = "compare"
  BY FsTypes DEF SInv, TInv, FsOnly
<1> DEFINE e == Printed(0, "fsOnly")
<1>3. "fsOnly" \in Flags BY DEF Flags
<1>4. e \in Edit /\ e.path = subj.path BY <1>2, <1>3, PrintedType, PathsPrinted
<1>5. out' = Append(out, e) BY DEF FsOnly, TPrint
<1> HIDE DEF e
<1>6. Under(out, e.path) BY <1>2, <1>4 DEF SInv, Before
<1>7. ASSUME ~Failed', NEW q \in Readers, ~Eof(q)' PROVE e.path < Cur(q)'.path
  <2>1. ~Eof(q) /\ Cur(q).path <= Cur(q)'.path BY <1>1, <1>2, <1>7, Onward
  <2>2. PICK r \in Readers : Chosen(r) /\ Cur(r).path > subj.path
    BY <2>1 DEF FsOnly, ChosenBeyond, AllEof
  <2>3. Cur(r).path <= Cur(q).path BY <2>1, <2>2 DEF Chosen, Selected
  <2>4. Cur(r).path \in Nat /\ Cur(q).path \in Nat /\ Cur(q)'.path \in Nat /\ subj.path \in Nat
    BY <1>1, <1>2, <1>4, <1>7, <2>1, <2>2, Lines, LineAfter, EditPaths DEF Chosen, Selected
  <2> QED BY <1>4, <2>1, <2>2, <2>3, <2>4
<1>8. EditsSorted' /\ Ahead' /\ \A x \in Nat : e.path < x => Under(out', x)
  BY <1>4, <1>5, <1>6, <1>7, PrintedStep DEF Step
<1>9. stack' = EnterDir(fsMinus') /\ pc' = Resume(stack') BY DEF FsOnly
<1>10. fsMinus' \in BOOLEAN BY <1>2 DEF TInv, TypeOK
<1>11. StackOK(stack') /\ pc' \notin {"compare", "excluded"}
  BY <1>2, <1>9, <1>10, EnterFits, ResumeLoop
<1>12. Before' BY <1>11 DEF Before
<1>13. Apart(stack') /\ \A k \in KidsOf(stack') : k \in Nat /\ subj.path < k
  BY <1>2, <1>9, <1>10, EnterKids DEF SInv, Pending
<1>14. Pending' BY <1>4, <1>8, <1>13 DEF Pending
<1> QED BY <1>8, <1>12, <1>14

LEMMA BothSorted ==
  ASSUME SInv, ~Failed, Both
  PROVE  EditsSorted' /\ Ahead' /\ Before' /\ Pending'
<1>1. /\ Moves /\ pos' \in [Readers -> Nat \ {0}] /\ cmd' = cmd /\ opt' = opt
  BY StepMoves DEF Step, SInv
<1>2. TInv /\ TypeOK /\ TInv' /\ pc = "compare" BY BothTypes DEF SInv, TInv, Both
<1>3. PICK r \in Readers, flag \in Flags \cup {"same"}, neg \in Frame :
           /\ Chosen(r) /\ ~Eof(r) /\ Cur(r).path = subj.path /\ pos' = Consumed(r)
           /\ IF flag = "same" THEN NoPrint ELSE TPrint(r, flag) /\ flag # "fsOnly"
           /\ neg.path = subj.path /\ neg.kids = {}
           /\ stack' = <<neg>> \o stack \/ stack' = EnterDir(fsMinus')
           /\ pc' = Resume(stack') /\ UNCHANGED <<subj, link>>
  BY <1>2, BothParts
<1>4. Under(out, subj.path) /\ subj.path \in Nat /\ out \in Seq(Edit)
  BY <1>2, <1>3, Lines DEF SInv, Before, TypeOK
<1>5. EditsSorted' /\ Ahead' /\ \A x \in Nat : subj.path < x => Under(out', x)
  <2>1. CASE flag = "same"
    <3>1. out' = out BY <1>3, <2>1 DEF NoPrint
    <3>2. EditsSorted' /\ Ahead' BY <3>1, SilentStep DEF Step
    <3> QED BY <1>4, <3>1, <3>2, UnderUp
  <2>2. CASE flag # "same"
    <3> DEFINE e == Printed(r, flag)
    <3>1. e \in Edit /\ e.path = subj.path BY <1>2, <1>3, <2>2, PrintedType
    <3>2. out' = Append(out, e) BY <1>3, <2>2 DEF TPrint
    <3> HIDE DEF e
    <3>3. \A q \in Readers : ~Failed' /\ ~Eof(q)' => e.path < Cur(q)'.path
      BY <1>1, <1>2, <1>3, <3>1, ConsumedBeyond DEF Chosen
    <3> QED BY <1>4, <3>1, <3>2, <3>3, PrintedStep DEF Step
  <2> QED BY <2>1, <2>2
<1>6. fsMinus' \in BOOLEAN BY <1>2 DEF TInv, TypeOK
<1>7. StackOK(stack) /\ Apart(stack) /\ \A k \in KidsOf(stack) : Last[subj.path] < k
  BY <1>2, StackGood DEF SInv, Pending, Before
<1>8. /\ StackOK(<<neg>> \o stack) /\ Apart(<<neg>> \o stack)
      /\ KidsOf(<<neg>> \o stack) \subseteq KidsOf(stack)
  <2>1. \A k \in neg.kids : Parent(k) = neg.path /\ fs[k] # 0 BY <1>3
  <2> QED BY <1>3, <1>7, <2>1, PushFits, PushKids
<1>9. \A k \in KidsOf(stack) : k \in Nat /\ subj.path < k
  <2>1. subj.path \in Path BY <1>2 DEF TypeOK, Subject
  <2>2. Last[subj.path] \in Nat /\ subj.path <= Last[subj.path] BY <2>1, Bounds
  <2> QED BY <1>2, <1>4, <1>7, <2>2, KidsArePaths
<1>10. StackOK(EnterDir(fsMinus')) BY <1>2, <1>6, EnterFits
<1>11. /\ Apart(EnterDir(fsMinus'))
       /\ \A k \in KidsOf(EnterDir(fsMinus')) : k \in Nat /\ subj.path < k
  BY <1>2, <1>6, <1>7, EnterKids DEF SInv
<1>12. StackOK(stack') /\ Apart(stack') /\ \A k \in KidsOf(stack') : k \in Nat /\ subj.path < k
  BY <1>3, <1>8, <1>9, <1>10, <1>11
<1>13. pc' \notin {"compare", "excluded"} BY <1>3, <1>12, ResumeLoop
<1>14. Before' BY <1>13 DEF Before
<1>15. Pending' BY <1>5, <1>12 DEF Pending
<1> QED BY <1>5, <1>14, <1>15

(* The entry visited next is the least one left: its siblings come after    *)
(* all that is below it, and what is left further out comes after the       *)
(* directory that both are in                                               *)
LEMMA WalkSorted ==
  ASSUME SInv, ~Failed, WalkChild
  PROVE  EditsSorted' /\ Ahead' /\ Before' /\ Pending'
<1>1. PICK p \in Path, top \in Frame :
           /\ p \in stack[1].kids /\ 1 \in DOMAIN stack /\ \A k \in stack[1].kids : p <= k
           /\ top = [stack[1] EXCEPT !.kids = @ \ {p}]
           /\ Visit(p, stack[1].del, <<top>> \o Tail(stack))
           /\ StackOK(<<top>> \o Tail(stack)) /\ StackOK(Tail(stack))
           /\ stack' = <<top>> \o Tail(stack)
  BY WalkParts DEF SInv
<1>2. TInv /\ StackOK(stack) /\ stack # <<>> /\ Apart(stack)
  BY StackGood DEF SInv, Pending, WalkChild, TInv, Stacked
<1>3. stack[1] \in Frame BY <1>1, <1>2, ElementOfSeq, LenProperties DEF StackOK
<1>4. stack[1].del \in BOOLEAN /\ stack[1].path \in Path /\ stack[1].kids \in SUBSET Path
  BY <1>3 DEF Frame
<1>5. out' = out /\ subj'.path = p BY <1>1, <1>2, <1>4, VisitType
<1>6. EditsSorted' /\ Ahead' BY <1>5, SilentStep DEF Step
<1>7. /\ top.path = stack[1].path /\ top.kids = stack[1].kids \ {p} /\ top.kind = stack[1].kind
  BY <1>1, <1>3 DEF Frame
<1>8. \A k \in stack[1].kids : Parent(k) = stack[1].path /\ fs[k] # 0
  BY <1>1, <1>2 DEF StackOK
<1>9. /\ Apart(Tail(stack)) /\ KidsOf(Tail(stack)) \subseteq KidsOf(stack)
      /\ stack[1].kids \subseteq KidsOf(stack)
      /\ \A k \in KidsOf(Tail(stack)) : Last[stack[1].path] < k
  BY <1>2, PopKids
<1>10. Apart(stack') /\ KidsOf(stack') \subseteq top.kids \cup KidsOf(Tail(stack))
  <2>1. \A k \in top.kids : Parent(k) = top.path /\ fs[k] # 0 BY <1>7, <1>8
  <2>2. top.kind = "negative" => top.kids = {} BY <1>1, <1>2, <1>7 DEF StackOK
  <2> QED BY <1>1, <1>7, <1>9, <2>1, <2>2, PushKids
<1>11. Pending' BY <1>5, <1>7, <1>9, <1>10 DEF SInv, Pending
<1>12. \A k \in KidsOf(stack') : Last[p] < k
  <2>1. ASSUME NEW k \in top.kids PROVE Last[p] < k
    <3>1. k \in Path /\ p < k /\ Parent(k) = Parent(p)
      BY <1>1, <1>4, <1>7, <1>8, <2>1, Bounds
    <3> QED BY <3>1, SiblingsApart
  <2>2. ASSUME NEW k \in KidsOf(Tail(stack)) PROVE Last[p] < k
    <3>1. Last[stack[1].path] < k /\ k \in Nat BY <1>2, <1>9, <2>2, KidsArePaths
    <3>2. Parent(p) = stack[1].path /\ stack[1].path # 0 BY <1>1, <1>4, <1>8 DEF Path
    <3>3. Inside(p, stack[1].path) BY <3>2, PathAssumption, ParentAbove
    <3>4. Last[p] <= Last[stack[1].path] /\ Last[p] \in Nat /\ Last[stack[1].path] \in Nat
      BY <1>4, <3>3, Bounds
    <3> QED BY <3>1, <3>4
  <2> QED BY <1>10, <2>1, <2>2
<1>13. Under(out, p) BY <1>1, <1>9 DEF SInv, Pending
<1>14. Before' BY <1>5, <1>12, <1>13 DEF Before
<1> QED BY <1>6, <1>11, <1>14

LEMMA NegativeSorted ==
  ASSUME SInv, ~Failed, NegativeChild
  PROVE  EditsSorted' /\ Ahead' /\ Before' /\ Pending'
<1>1. PICK r \in Readers :
        /\ Chosen(r) /\ Inside(Cur(r).path, Head(stack).path)
        /\ Visit(Cur(r).path, Head(stack).del, stack)
  BY DEF NegativeChild
<1>2. TInv /\ StackOK(stack) /\ stack # <<>> /\ Apart(stack) /\ Head(stack).kind = "negative"
  BY StackGood DEF SInv, Pending, NegativeChild, TInv, Stacked
<1>3. Head(stack) \in Frame /\ Head(stack) = stack[1] /\ 1 \in DOMAIN stack BY <1>2, PopFits
<1>4. Head(stack).del \in BOOLEAN /\ Head(stack).path \in Path BY <1>3 DEF Frame
<1>5. ~Eof(r) /\ Cur(r).path \in Path BY <1>1, <1>2, Lines DEF Chosen, Selected, TInv
<1>6. stack' = stack /\ out' = out /\ subj'.path = Cur(r).path
  BY <1>1, <1>2, <1>4, <1>5, VisitType
<1>7. EditsSorted' /\ Ahead' BY <1>6, SilentStep DEF Step
<1>8. Pending' BY <1>6 DEF SInv, Pending
<1>9. ASSUME NEW k \in KidsOf(stack) PROVE Last[Cur(r).path] < k
  <2>1. stack[1].kids = {} BY <1>2, <1>3 DEF StackOK
  <2>2. PICK m \in DOMAIN stack : k \in stack[m].kids BY <1>9 DEF KidsOf
  <2>3. m # 1 /\ DOMAIN stack = 1..Len(stack) BY <1>2, <2>1, <2>2, LenProperties DEF StackOK
  <2>4. 1 \in 1..(m - 1) BY <2>2, <2>3
  <2>5. Last[stack[1].path] < k BY <1>2, <2>2, <2>4 DEF Apart
  <2>6. /\ Last[Cur(r).path] <= Last[stack[1].path]
        /\ Last[Cur(r).path] \in Nat /\ Last[stack[1].path] \in Nat
    BY <1>1, <1>3, <1>4, <1>5, Bounds
  <2>7. k \in Nat BY <1>2, <1>9, KidsArePaths
  <2> QED BY <2>5, <2>6, <2>7
<1>10. Under(out, Cur(r).path) BY <1>5 DEF SInv, Ahead
<1>11. Before' BY <1>6, <1>9, <1>10 DEF Before
<1> QED BY <1>7, <1>8, <1>11

LEMMA ReturnSorted ==
  ASSUME SInv, ~Failed, Return
  PROVE  EditsSorted' /\ Ahead' /\ Before' /\ Pending'
<1>1. TInv /\ StackOK(stack) /\ stack # <<>> /\ Apart(stack)
  BY StackGood DEF SInv, Pending, Return, TInv, Stacked
<1>2. out' = out /\ stack' = Tail(stack) /\ pc' = Resume(stack') BY DEF Return
<1>3. StackOK(stack') BY <1>1, <1>2, PopFits
<1>4. pc' \notin {"compare", "excluded"} BY <1>2, <1>3, ResumeLoop
<1>5. Before' BY <1>4 DEF Before
<1>6. EditsSorted' /\ Ahead' BY <1>2, SilentStep DEF Step
<1>7. Apart(stack') /\ KidsOf(stack') \subseteq KidsOf(stack) BY <1>1, <1>2, PopKids
<1>8. Pending' BY <1>2, <1>7 DEF SInv, Pending
<1> QED BY <1>5, <1>6, <1>8

LEMMA StepSorted ==
  ASSUME SInv, ~Failed, Step
  PROVE  SInv'
<1>1. TInv'
  BY SkipTypes, ExcludedTypes, TranTypes, FsTypes, BothTypes, WalkTypes, NegativeTypes, ReturnTypes,
     FinishTypes DEF Step, SInv
<1>2. EditsSorted' /\ Ahead' /\ Before' /\ Pending'
  BY SkipSorted, TranSorted, FsSorted, BothSorted, WalkSorted, NegativeSorted, ReturnSorted DEF Step
<1> QED BY <1>1, <1>2 DEF SInv

(* Nothing has changed                                                      *)
LEMMA NoStep ==
  ASSUME UNCHANGED vars
  PROVE  /\ UNCHANGED <<fs, node, cmd, opt, pos, stack, pc, subj, out>>
         /\ Failed' = Failed /\ Readers' = Readers /\ Tran' = Tran
         /\ \A r : Eof(r)' = Eof(r) /\ Cur(r)' = Cur(r)
<1>1. UNCHANGED <<fs, node, cmd, opt, pos, stack, pc, subj, out>> BY DEF vars, given, local
<1> QED BY <1>1 DEF Failed, BadOrder, Readers, Tran, Eof, Cur

LEMMA InitSorted == Init => SInv
<1> SUFFICES ASSUME Init PROVE SInv OBVIOUS
<1>1. out = <<>> /\ stack = <<>> BY DEF Init
<1>2. DOMAIN out = {} /\ DOMAIN stack = {} BY <1>1
<1>3. TInv BY InitTypes
<1>4. EditsSorted /\ Ahead /\ Before /\ Pending
  BY <1>2 DEF EditsSorted, Ahead, Before, Pending, Under, KidsOf, Apart
<1> QED BY <1>3, <1>4 DEF SInv

LEMMA NextSorted ==
  ASSUME SInv, [Next]_vars
  PROVE  SInv'
<1>1. ASSUME Running, Step PROVE SInv'
  BY <1>1, StepSorted DEF Running
<1>2. ASSUME UNCHANGED vars PROVE SInv'
  <2>1. /\ UNCHANGED <<fs, node, cmd, opt, pos, stack, pc, subj, out>>
        /\ Failed' = Failed /\ Readers' = Readers
        /\ \A r : Eof(r)' = Eof(r) /\ Cur(r)' = Cur(r)
    BY <1>2, NoStep
  <2>2. TInv' BY <1>2, StepTypes DEF SInv
  <2>3. EditsSorted' BY <2>1 DEF SInv, EditsSorted
  <2>4. Ahead' BY <2>1 DEF SInv, Ahead
  <2>5. Before' /\ Pending' BY <2>1 DEF SInv, Before, Pending
  <2> QED BY <2>2, <2>3, <2>4, <2>5 DEF SInv
<1> QED BY <1>1, <1>2 DEF Next, Exited
-----------------------------------------------------------------------------
(* Why a file is under the right transcript: a line that has been passed is *)
(* before every line to come, or for the same path as one of a transcript   *)
(* of higher precedence; so when an edit is printed from a line, no         *)
(* transcript of higher precedence has had one for the path, and it is not  *)
(* to have one any more.                                                    *)
PathOf(q, n) == Tran[q].lines[n].path

Behind ==
  ~Failed => \A q \in Readers : \A n \in 1..(pos[q] - 1) :
    /\ n \in DOMAIN Tran[q].lines
    /\ \A r \in Readers : ~Eof(r) => \/ PathOf(q, n) < Cur(r).path
                                     \/ PathOf(q, n) = Cur(r).path /\ r < q

FromWinner(e, at) ==
  /\ e.hdr \in Readers
  /\ \E m \in 1..(at[e.hdr] - 1) : PathOf(e.hdr, m) = e.path
  /\ \A q \in Readers : q < e.hdr => \A m \in 1..(at[q] - 1) : PathOf(q, m) # e.path

Named == ~Failed => \A n \in DOMAIN out : out[n].op = "+" => FromWinner(out[n], pos)

AtEnd == pc = "done" /\ ~Failed => AllEof

DInv == SInv /\ Behind /\ Named /\ AtEnd

LEMMA MovedTo ==
  ASSUME TypeOK, Moves, cmd' = cmd, opt' = opt, NEW q \in Readers, pos'[q] # pos[q]
  PROVE  \E r \in Readers : /\ Selected(r) /\ ~Eof(r) /\ Cur(q).path = Cur(r).path
                            /\ pos' = Passed(r) \/ pos' = Consumed(r)
                            /\ q = r \/ q > r
                            /\ q = r => pos' = Consumed(r)
<1>1. PICK r \in Readers : /\ Selected(r)
                           /\ pos' = Passed(r) \/ pos' = Consumed(r)
  BY DEF Moves, Passes, Consumes, Chosen
<1>2. pos[q] \in Nat /\ r \in Nat /\ q \in Nat BY Lines
<1>3. CASE q = r
  <2>1. pos' # Passed(r) BY <1>3, PassedType
  <2> QED BY <1>1, <1>3, <2>1 DEF Selected
<1>4. CASE q # r
  <2>1. pos'[q] = IF q > r /\ ~Eof(q) /\ Cur(q).path = Cur(r).path THEN pos[q] + 1 ELSE pos[q]
    BY <1>1, <1>4, PassedType
  <2> QED BY <1>1, <1>4, <2>1 DEF Selected
<1> QED BY <1>3, <1>4

LEMMA BehindKept ==
  ASSUME DInv, ~Failed, Moves, pos' \in [Readers -> Nat \ {0}], cmd' = cmd, opt' = opt
  PROVE  Behind'
<1>1. TypeOK BY DEF DInv, SInv, TInv
<1>2. Readers' = Readers /\ Tran' = Tran BY Frozen
<1>3. SUFFICES ASSUME ~Failed', NEW q \in Readers, NEW n \in 1..(pos'[q] - 1)
               PROVE  /\ n \in DOMAIN Tran[q].lines
                      /\ \A r \in Readers : ~Eof(r)' => \/ PathOf(q, n) < Cur(r)'.path
                                                        \/ PathOf(q, n) = Cur(r)'.path /\ r < q
  BY <1>2 DEF Behind, PathOf
<1>4. pos[q] \in Nat /\ pos[q] # 0 /\ pos'[q] \in {pos[q], pos[q] + 1} BY <1>1, Lines, Onward
<1>5. \A r \in Readers : ~Eof(r)' =>
        /\ ~Eof(r) /\ Cur(r).path <= Cur(r)'.path
        /\ pos'[r] # pos[r] => Cur(r).path < Cur(r)'.path
        /\ Cur(r).path \in Nat /\ Cur(r)'.path \in Nat
  BY <1>1, <1>3, Onward, Lines, LineAfter
<1>6. CASE n \in 1..(pos[q] - 1)
  <2>1. n \in DOMAIN Tran[q].lines
    BY <1>6 DEF DInv, Behind
  <2>2. PathOf(q, n) \in Nat
    <3>1. Tran[q].lines[n] \in Line BY <1>1, <2>1, Lines
    <3> QED BY <3>1, Bounds DEF Line, PathOf
  <2>3. ASSUME NEW r \in Readers, ~Eof(r)'
        PROVE  PathOf(q, n) < Cur(r)'.path \/ (PathOf(q, n) = Cur(r)'.path /\ r < q)
    <3>1. PathOf(q, n) < Cur(r).path \/ (PathOf(q, n) = Cur(r).path /\ r < q)
      BY <1>5, <1>6, <2>3 DEF DInv, Behind
    <3> QED BY <1>5, <2>2, <2>3, <3>1
  <2> QED BY <2>1, <2>3
<1>7. CASE n \notin 1..(pos[q] - 1)
  <2>1. n = pos[q] /\ pos'[q] # pos[q] BY <1>3, <1>4, <1>7
  <2>2. PICK r0 \in Readers : /\ Selected(r0) /\ ~Eof(r0) /\ Cur(q).path = Cur(r0).path
                              /\ pos' = Passed(r0) \/ pos' = Consumed(r0)
                              /\ q = r0 \/ q > r0
                              /\ q = r0 => pos' = Consumed(r0)
    BY <1>1, <2>1, MovedTo
  <2>3. ~Eof(q) BY <1>1, <2>1, Onward
  <2>4. n \in DOMAIN Tran[q].lines /\ PathOf(q, n) = Cur(r0).path /\ PathOf(q, n) \in Nat
    BY <1>1, <2>1, <2>2, <2>3, Lines DEF PathOf, Cur
  <2>5. ASSUME NEW r \in Readers, ~Eof(r)'
        PROVE  PathOf(q, n) < Cur(r)'.path \/ (PathOf(q, n) = Cur(r)'.path /\ r < q)
    <3>1. Cur(r0).path <= Cur(r).path /\ (r < r0 => Cur(r0).path < Cur(r).path)
      BY <1>5, <2>2, <2>5 DEF Selected
    <3>2. r \in Nat /\ r0 \in Nat /\ q \in Nat BY <1>1, Lines
    <3>3. CASE pos'[r] # pos[r] BY <1>5, <2>4, <2>5, <3>1, <3>3
    <3>4. CASE pos'[r] = pos[r] /\ Cur(r).path # Cur(r0).path BY <1>5, <2>4, <2>5, <3>1, <3>4
    <3>5. CASE pos'[r] = pos[r] /\ Cur(r).path = Cur(r0).path
      <4>1. ~(r < r0) BY <1>5, <2>4, <2>5, <3>1, <3>5
      <4>2. ~(r > r0)
        <5>1. SUFFICES ASSUME r > r0 PROVE FALSE OBVIOUS
        <5>2. pos'[r] = pos[r] + 1 BY <1>1, <1>5, <2>2, <2>5, <3>2, <3>5, <5>1, PassedType
        <5> QED BY <1>1, <3>5, <5>2, Lines
      <4>3. r = r0 BY <3>2, <4>1, <4>2
      <4>4. q # r BY <2>1, <3>5
      <4>5. r < q BY <2>2, <3>2, <4>3, <4>4
      <4>6. Cur(r)' = Cur(r) BY <1>1, <3>5, Onward
      <4> QED BY <2>4, <3>5, <4>5, <4>6
    <3> QED BY <3>3, <3>4, <3>5
  <2> QED BY <2>4, <2>5
<1> QED BY <1>6, <1>7

(* The files printed before keep the transcripts they are under             *)
LEMMA NamedKept ==
  ASSUME DInv, ~Failed, Moves, pos' \in [Readers -> Nat \ {0}], cmd' = cmd, opt' = opt,
         NEW i \in DOMAIN out, out[i].op = "+"
  PROVE  FromWinner(out[i], pos')
<1>1. TypeOK /\ FromWinner(out[i], pos) BY DEF DInv, SInv, TInv, Named
<1> DEFINE e == out[i]
<1>2. e.hdr \in Readers /\ pos'[e.hdr] \in {pos[e.hdr], pos[e.hdr] + 1} /\ pos[e.hdr] \in Nat
  BY <1>1, Onward, Lines DEF FromWinner
<1>3. \E m \in 1..(pos'[e.hdr] - 1) : PathOf(e.hdr, m) = e.path
  BY <1>1, <1>2 DEF FromWinner
<1>4. ASSUME NEW q \in Readers, q < e.hdr, NEW m \in 1..(pos'[q] - 1)
      PROVE  PathOf(q, m) # e.path
  <2>1. pos[q] \in Nat /\ pos[q] # 0 /\ pos'[q] \in {pos[q], pos[q] + 1} BY <1>1, Lines, Onward
  <2>2. CASE m \in 1..(pos[q] - 1) BY <1>1, <1>4, <2>2 DEF FromWinner
  <2>3. CASE m \notin 1..(pos[q] - 1)
    <3>1. m = pos[q] /\ pos'[q] # pos[q] BY <1>4, <2>1, <2>3
    <3>2. ~Eof(q) BY <1>1, <3>1, Onward
    <3>3. PathOf(q, m) = Cur(q).path BY <3>1 DEF PathOf, Cur
    <3>4. e.path < Cur(q).path BY <3>2 DEF DInv, SInv, Ahead, Under
    <3>5. Cur(q).path \in Nat BY <1>1, <3>2, Lines
    <3> QED BY <3>3, <3>4, <3>5
  <2> QED BY <2>2, <2>3
<1> QED BY <1>2, <1>3, <1>4 DEF FromWinner

(* A file printed from the line in hand is under its transcript             *)
LEMMA NamedNew ==
  ASSUME DInv, ~Failed, cmd' = cmd, opt' = opt, NEW r \in Readers, Selected(r), pos' = Consumed(r),
         NEW e \in Edit, e.hdr = r, e.path = Cur(r).path
  PROVE  FromWinner(e, pos')
<1>1. TypeOK /\ ~Eof(r) /\ r \in Nat BY Lines DEF DInv, SInv, TInv, Selected
<1>2. pos'[r] = pos[r] + 1 /\ pos[r] \in Nat \ {0} BY <1>1, PassedType, Lines
<1>3. pos[r] \in 1..(pos'[r] - 1) /\ PathOf(r, pos[r]) = e.path BY <1>2 DEF PathOf, Cur
<1>4. ASSUME NEW q \in Readers, q < r, NEW m \in 1..(pos'[q] - 1)
      PROVE  PathOf(q, m) # e.path
  <2>1. q \in Nat /\ pos'[q] = pos[q]
    <3>1. q \in Nat BY <1>1, Lines
    <3> QED BY <1>1, <1>4, <3>1, PassedType
  <2>2. PathOf(q, m) < Cur(r).path \/ (PathOf(q, m) = Cur(r).path /\ r < q)
    BY <1>1, <1>4, <2>1 DEF DInv, Behind
  <2>3. m \in DOMAIN Tran[q].lines BY <1>4, <2>1 DEF DInv, Behind
  <2>4. PathOf(q, m) \in Nat /\ Cur(r).path \in Nat
    <3>1. Tran[q].lines[m] \in Line BY <1>1, <2>3, Lines
    <3> QED BY <1>1, <3>1, Bounds, Lines DEF Line, PathOf
  <2> QED BY <1>1, <1>4, <2>1, <2>2, <2>4
<1> QED BY <1>3, <1>4 DEF FromWinner

LEMMA NamedSilent ==
  ASSUME DInv, ~Failed, Step, out' = out
  PROVE  Named'
<1>1. /\ Moves /\ pos' \in [Readers -> Nat \ {0}] /\ cmd' = cmd /\ opt' = opt
  BY StepMoves DEF DInv, SInv
<1>2. Readers' = Readers /\ Tran' = Tran BY <1>1, Frozen
<1>3. \A i \in DOMAIN out : out[i].op = "+" => FromWinner(out[i], pos') BY <1>1, NamedKept
<1> QED BY <1>2, <1>3 DEF Named, FromWinner, PathOf

LEMMA NamedPrinted ==
  ASSUME DInv, ~Failed, Step, NEW e \in Edit, out' = Append(out, e), Under(out, e.path),
         e.op = "+" => FromWinner(e, pos')
  PROVE  Named'
<1>1. /\ Moves /\ pos' \in [Readers -> Nat \ {0}] /\ cmd' = cmd /\ opt' = opt
  BY StepMoves DEF DInv, SInv
<1>2. Readers' = Readers /\ Tran' = Tran BY <1>1, Frozen
<1>3. \A i \in DOMAIN out : out[i].op = "+" => FromWinner(out[i], pos') BY <1>1, NamedKept
<1>4. out \in Seq(Edit) /\ \A m, n \in DOMAIN out : m < n => out[m].path < out[n].path
  BY DEF DInv, SInv, TInv, TypeOK, EditsSorted
<1>5. \A n \in DOMAIN out' : IF n \in DOMAIN out THEN out'[n] = out[n]
                             ELSE n = Len(out) + 1 /\ out'[n] = e
  BY <1>4, Appended
<1>6. ASSUME NEW n \in DOMAIN out', out'[n].op = "+" PROVE FromWinner(out'[n], pos')
  <2>1. CASE n \in DOMAIN out BY <1>3, <1>5, <1>6, <2>1
  <2>2. CASE n \notin DOMAIN out BY <1>5, <1>6, <2>2
  <2> QED BY <2>1, <2>2
<1> QED BY <1>2, <1>6 DEF Named, FromWinner, PathOf

(* Only a line of an applicable transcript makes a download                 *)
LEMMA PlusFromLine ==
  ASSUME TypeOK, NEW r, NEW flag \in Flags, Printed(r, flag).op = "+"
  PROVE  flag \in {"tranOnly", "download"} /\ Header(r, flag) = r
BY DEF Printed, Header, Minus, Flags

LEMMA TranNamed ==
  ASSUME DInv, ~Failed, TranOnly
  PROVE  Named'
<1>1. /\ cmd' = cmd /\ opt' = opt BY StepMoves DEF Step, DInv, SInv
<1>2. PICK r \in Readers : Chosen(r) /\ TPrint(r, "tranOnly") /\ pos' = Consumed(r)
  BY DEF TranOnly
<1>3. ~Eof(r) /\ Selected(r) /\ "tranOnly" \in Flags BY <1>2 DEF Chosen, Selected, Flags
<1> DEFINE e == Printed(r, "tranOnly")
<1>4. TInv /\ TypeOK BY DEF DInv, SInv, TInv
<1>5. e \in Edit /\ e.path = Cur(r).path /\ e.hdr = Header(r, "tranOnly")
  BY <1>3, <1>4, PrintedType, PathsPrinted
<1>6. out' = Append(out, e) BY <1>2 DEF TPrint
<1>7. e.op = "+" => e.hdr = r BY <1>3, <1>4, <1>5, PlusFromLine
<1> HIDE DEF e
<1>8. Under(out, e.path) BY <1>3, <1>5 DEF DInv, SInv, Ahead
<1>9. e.op = "+" => FromWinner(e, pos') BY <1>1, <1>2, <1>3, <1>5, <1>7, NamedNew
<1> QED BY <1>5, <1>6, <1>8, <1>9, NamedPrinted DEF Step

LEMMA FsNamed ==
  ASSUME DInv, ~Failed, FsOnly
  PROVE  Named'
<1>1. TInv /\ TypeOK /\ subj.obj # Missing /\ pc = "compare" BY FsTypes DEF DInv, SInv, TInv, FsOnly
<1> DEFINE e == Printed(0, "fsOnly")
<1>2. "fsOnly" \in Flags BY DEF Flags
<1>3. e \in Edit /\ e.path = subj.path BY <1>1, <1>2, PrintedType, PathsPrinted
<1>4. e.op # "+" BY <1>1, <1>2, PlusFromLine
<1>5. out' = Append(out, e) BY DEF FsOnly, TPrint
<1> HIDE DEF e
<1>6. Under(out, e.path) BY <1>1, <1>3 DEF DInv, SInv, Before
<1> QED BY <1>3, <1>4, <1>5, <1>6, NamedPrinted DEF Step

LEMMA BothNamed ==
  ASSUME DInv, ~Failed, Both
  PROVE  Named'
<1>1. /\ cmd' = cmd /\ opt' = opt BY StepMoves DEF Step, DInv, SInv
<1>2. TInv /\ TypeOK /\ pc = "compare" BY DEF DInv, SInv, TInv, Both
<1>3. PICK r \in Readers, flag \in Flags \cup {"same"} :
           /\ Chosen(r) /\ ~Eof(r) /\ Cur(r).path = subj.path /\ pos' = Consumed(r)
           /\ IF flag = "same" THEN NoPrint ELSE TPrint(r, flag) /\ flag # "fsOnly"
  BY <1>2, BothParts
<1>4. CASE flag = "same" BY <1>3, <1>4, NamedSilent DEF Step, NoPrint
<1>5. CASE flag # "same"
  <2> DEFINE e == Printed(r, flag)
  <2>1. e \in Edit /\ e.path = subj.path /\ e.hdr = Header(r, flag)
    BY <1>2, <1>3, <1>5, PrintedType
  <2>2. out' = Append(out, e) BY <1>3, <1>5 DEF TPrint
  <2>3. e.op = "+" => e.hdr = r BY <1>2, <1>5, <2>1, PlusFromLine
  <2> HIDE DEF e
  <2>4. Under(out, e.path) BY <1>2, <2>1 DEF DInv, SInv, Before
  <2>5. e.op = "+" => FromWinner(e, pos') BY <1>1, <1>3, <2>1, <2>3, NamedNew DEF Chosen
  <2> QED BY <2>1, <2>2, <2>4, <2>5, NamedPrinted DEF Step
<1> QED BY <1>4, <1>5

LEMMA StepNamed ==
  ASSUME DInv, ~Failed, pc # "done", Step
  PROVE  DInv'
<1>1. SInv' BY StepSorted DEF DInv
<1>2. Behind' BY StepMoves, BehindKept DEF DInv, SInv
<1>3. Named'
  <2>1. CASE SelectSkip BY <2>1, NamedSilent DEF SelectSkip, Step
  <2>2. CASE SkipExcluded BY <2>2, NamedSilent DEF SkipExcluded, Step
  <2>3. CASE WalkChild BY <2>3, NamedSilent DEF WalkChild, Visit, Step
  <2>4. CASE NegativeChild BY <2>4, NamedSilent DEF NegativeChild, Visit, Step
  <2>5. CASE Return BY <2>5, NamedSilent DEF Return, Step
  <2>6. CASE Finish BY <2>6, NamedSilent DEF Finish, Step
  <2> QED BY <2>1, <2>2, <2>3, <2>4, <2>5, <2>6, TranNamed, FsNamed, BothNamed DEF Step
<1>4. AtEnd'
  <2>1. CASE Finish
    <3>1. Readers' = Readers /\ \A r \in Readers : Eof(r)
      BY <2>1, StepMoves, Frozen DEF Step, DInv, SInv, Finish, AllEof
    <3>2. \A r \in Readers : Eof(r)' BY <2>1, <3>1 DEF Finish, Eof, Tran, given
    <3> QED BY <3>1, <3>2 DEF AtEnd, AllEof
  <2>2. CASE ~Finish
    <3>1. pc' # "done"
      BY <2>2 DEF Step, SelectSkip, SkipExcluded, TranOnly, FsOnly, Both, WalkChild, NegativeChild,
                  Return, Visit, Resume
    <3> QED BY <3>1 DEF AtEnd
  <2> QED BY <2>1, <2>2
<1> QED BY <1>1, <1>2, <1>3, <1>4 DEF DInv

LEMMA NextNamed ==
  ASSUME DInv, [Next]_vars
  PROVE  DInv'
<1>1. ASSUME Running, Step PROVE DInv'
  BY <1>1, StepNamed DEF Running
<1>2. ASSUME UNCHANGED vars PROVE DInv'
  <2>1. /\ UNCHANGED <<fs, node, cmd, opt, pos, stack, pc, subj, out>>
        /\ Failed' = Failed /\ Readers' = Readers /\ Tran' = Tran
        /\ \A r : Eof(r)' = Eof(r) /\ Cur(r)' = Cur(r)
    BY <1>2, NoStep
  <2>2. SInv' BY <1>2, NextSorted DEF DInv
  <2>3. Behind' BY <2>1 DEF DInv, Behind, PathOf
  <2>4. Named' BY <2>1 DEF DInv, Named, FromWinner, PathOf
  <2>5. AtEnd' BY <2>1 DEF DInv, AtEnd, AllEof
  <2> QED BY <2>2, <2>3, <2>4, <2>5 DEF DInv
<1> QED BY <1>1, <1>2 DEF Next, Exited

LEMMA InitNamed == Init => DInv
<1> SUFFICES ASSUME Init PROVE DInv OBVIOUS
<1>1. SInv BY InitSorted
<1>2. out = <<>> /\ pos = [r \in Readers |-> 1] /\ pc # "done" BY DEF Init
<1>3. DOMAIN out = {} /\ \A r \in Readers : 1..(pos[r] - 1) = {} BY <1>2
<1> QED BY <1>1, <1>2, <1>3 DEF DInv, Behind, Named, AtEnd

(* When all lines have been read, the transcript named is the first of all  *)
(* that list the path                                                       *)
LEMMA NamedIsWinner ==
  ASSUME DInv
  PROVE  DownloadsNameTranscript
<1>1. SUFFICES ASSUME pc = "done", ~Failed, NEW n \in DOMAIN out, out[n].op = "+"
               PROVE  out[n].hdr = Winner(out[n].path)
  BY DEF DownloadsNameTranscript
<1> DEFINE h == out[n].hdr
           p == out[n].path
<1>2. TypeOK /\ AllEof /\ FromWinner(out[n], pos) BY <1>1 DEF DInv, SInv, TInv, AtEnd, Named
<1>3. h \in Readers BY <1>2 DEF FromWinner
<1>4. h \in Listing(p)
  <2>1. PICK m \in 1..(pos[h] - 1) : PathOf(h, m) = p BY <1>2 DEF FromWinner
  <2>2. m \in DOMAIN Tran[h].lines BY <1>1, <1>3, <2>1 DEF DInv, Behind
  <2> QED BY <1>3, <2>1, <2>2 DEF Listing, PathOf
<1>5. ASSUME NEW q \in Listing(p) PROVE ~(q < h)
  <2>1. q \in Readers BY DEF Listing
  <2>2. PICK m \in DOMAIN Tran[q].lines : Tran[q].lines[m].path = p BY DEF Listing
  <2>3. Eof(q) /\ pos[q] \in Nat /\ DOMAIN Tran[q].lines = 1..Len(Tran[q].lines)
        /\ Len(Tran[q].lines) \in Nat
    BY <1>2, <2>1, Lines DEF AllEof
  <2>4. m \in 1..(pos[q] - 1) BY <2>2, <2>3 DEF Eof
  <2> QED BY <1>2, <2>1, <2>2, <2>4 DEF FromWinner, PathOf
<1>6. Listing(p) \subseteq Nat BY <1>2, Lines DEF Listing
<1>7. Least(Listing(p)) \in Listing(p) /\ Least(Listing(p)) <= h BY <1>4, <1>6, LeastMember
<1>8. Least(Listing(p)) = h BY <1>4, <1>5, <1>6, <1>7
<1> QED BY <1>8 DEF Winner

(* What fsdiff prints is strictly sorted at every step, whatever the        *)
(* transcripts are (one that is not sorted ends the run), and when it ends  *)
(* every file to be downloaded is under the name of the transcript of       *)
(* highest precedence that lists it                                         *)
THEOREM EditsInOrder == Spec => []EditsOrdered
<1>1. DInv => EditsOrdered BY NamedIsWinner DEF DInv, SInv, EditsOrdered
<1> QED BY <1>1, InitNamed, NextNamed, PTL DEF Spec
-----------------------------------------------------------------------------
(****************************************************************************)
(* What fsdiff prints is what TreeDiff says should be printed.              *)
(*                                                                          *)
(* Fate is computed path by path from what is above; first it is unfolded   *)
(* (FateIs) and brought to rules that speak of a path and the nearest one   *)
(* above it that the walk comes by (Rules, Over).  The invariant says where *)
(* the walk is: it is through with the paths below some x, and everything   *)
(* from there on that it still comes by hangs from a frame of the stack     *)
(* (At, Stack).  Of the paths it is through with, those that a transcript   *)
(* decides have had their lines read, and no others (LinesLeft); the first  *)
(* names of inodes are in link, and those with an edit are marked (Linked,  *)
(* Marked); and the edits printed are those wanted (Edited).                *)
(****************************************************************************)
-----------------------------------------------------------------------------
(* How the walk goes: the recursion of Fate, place by place                 *)
Hows  == {"out", "skip", "negative", "dir", "leaf"}
Fates == [how : Hows, del : BOOLEAN]

How(p)   == Fate[p].how
Comes(p) == How(p) # "out"
Up(p)    == { q \in 1..(p - 1) : Inside(p, q) /\ Comes(q) }
Over(p)  == CHOOSE q \in Up(p) : \A r \in Up(p) : r <= q

(* What the walk makes of a path that it comes by                           *)
Shape(p) ==
  IF Managed(p) /\ ~Positive(p) /\ WinLine(p).obj.type = "d" THEN "negative"
  ELSE IF fs[p] # 0 /\ node[fs[p]].type = "d" THEN "dir" ELSE "leaf"

(* The fate of a path below the argument, if that above is from             *)
Below(p, above, a) ==
  LET comes == (above.how = "dir" /\ fs[p] # 0) \/ (above.how = "negative" /\ Managed(p))
      del   == \/ above.how = "dir" /\ EditPath = "applicable" /\ ~Managed(a)
               \/ above.how = "negative" /\ above.del
  IN  [how |-> IF ~comes THEN "out"
               ELSE IF Excluded(p) /\ ~del /\ p \notin cmd.special THEN "skip" ELSE Shape(p),
       del |-> comes /\ del]

(* The step of the recursion, for the argument, outside of it and below it  *)
LEMMA FateAfterIs ==
  ASSUME NEW p \in Path, Prefix \in Path, NEW w
  PROVE  /\ p = Prefix => FateAfter(w, p) =
              [how |-> IF Excluded(p) /\ p \notin cmd.special THEN "skip" ELSE Shape(p), del |-> FALSE]
         /\ ~Inside(p, Prefix) => FateAfter(w, p) = [how |-> "out", del |-> FALSE]
         /\ p # Prefix /\ Inside(p, Prefix) =>
              LET up == { q \in 1..(p - 1) : Inside(p, q) /\ w[q].how # "out" }
                  a  == CHOOSE q \in up : \A r \in up : r <= q
              IN  FateAfter(w, p) = Below(p, w[a], a)
<1> DEFINE up == { q \in 1..(p - 1) : Inside(p, q) /\ w[q].how # "out" }
           a  == CHOOSE q \in up : \A r \in up : r <= q
           from == w[a].how
           comes == \/ p = Prefix
                    \/ /\ Inside(p, Prefix) /\ p # Prefix
                       /\ \/ from = "dir" /\ fs[p] # 0
                          \/ from = "negative" /\ Managed(p)
           del == /\ p # Prefix
                  /\ \/ from = "dir" /\ EditPath = "applicable" /\ ~Managed(a)
                     \/ from = "negative" /\ w[a].del
           how == CASE ~comes -> "out"
                    [] comes /\ Excluded(p) /\ ~del /\ p \notin cmd.special -> "skip"
                    [] OTHER -> Shape(p)
<1>1. FateAfter(w, p) = [how |-> how, del |-> comes /\ del]
  BY DEF FateAfter, Shape
<1>2. how = IF ~comes THEN "out"
            ELSE IF Excluded(p) /\ ~del /\ p \notin cmd.special THEN "skip" ELSE Shape(p)
  <2> HIDE DEF comes, del
  <2> QED
    OBVIOUS
<1>3. Inside(Prefix, Prefix)
  BY Bounds DEF Inside, Path
<1> HIDE DEF up, a, how
<1>4. CASE p = Prefix
  <2>1. comes /\ ~del
    BY <1>4
  <2> HIDE DEF comes, del
  <2>2. FateAfter(w, p) =
              [how |-> IF Excluded(p) /\ p \notin cmd.special THEN "skip" ELSE Shape(p), del |-> FALSE]
    BY <1>1, <1>2, <2>1
  <2> QED
    BY <1>3, <1>4, <2>2
<1>5. CASE ~Inside(p, Prefix)
  <2>1. ~comes
    BY <1>3, <1>5
  <2> HIDE DEF comes, del
  <2>2. FateAfter(w, p) = [how |-> "out", del |-> FALSE]
    BY <1>1, <1>2, <2>1
  <2> QED
    BY <1>3, <1>5, <2>2
<1>6. CASE p # Prefix /\ Inside(p, Prefix)
  <2>1. FateAfter(w, p) = Below(p, w[a], a)
    BY <1>1, <1>2, <1>6 DEF Below
  <2> QED
    BY <1>6, <2>1 DEF a, up
<1> QED
  BY <1>4, <1>5, <1>6

(* Of a path that is not left alone the walk makes one of three things      *)
LEMMA ShapeIs ==
  ASSUME NEW p
  PROVE  Shape(p) \in {"negative", "dir", "leaf"}
BY DEF Shape

(* The step of the recursion gives a fate                                   *)
LEMMA FateAfterType ==
  ASSUME NEW p \in Path, Prefix \in Path, NEW w
  PROVE  FateAfter(w, p) \in Fates
<1>1. \A h \in Hows, d \in BOOLEAN : [how |-> h, del |-> d] \in Fates
  BY DEF Fates
<1>2. CASE p = Prefix
  <2>1. (IF Excluded(p) /\ p \notin cmd.special THEN "skip" ELSE Shape(p)) \in Hows
    BY ShapeIs DEF Hows
  <2> QED
    BY <1>1, <1>2, <2>1, FateAfterIs, Zenon
<1>3. CASE ~Inside(p, Prefix)
  <2>1. "out" \in Hows
    BY DEF Hows
  <2> QED
    BY <1>1, <1>3, <2>1, FateAfterIs, Zenon
<1>4. CASE p # Prefix /\ Inside(p, Prefix)
  <2>1. \A u, a : Below(p, u, a) \in Fates
    BY <1>1, ShapeIs DEF Below, Hows
  <2> QED
    BY <1>4, <2>1, FateAfterIs, Zenon
<1> QED
  BY <1>2, <1>3, <1>4

(* The step needs to know of the paths above only                           *)
LEMMA FateAgrees ==
  ASSUME NEW p \in Path, Prefix \in Path, NEW w, NEW v,
         \A q \in 1..(p - 1) : w[q] = v[q],
         Prefix < p => w[Prefix].how # "out"
  PROVE  FateAfter(w, p) = FateAfter(v, p)
<1>1. CASE p = Prefix \/ ~Inside(p, Prefix)
  BY <1>1, FateAfterIs, Zenon
<1>2. CASE p # Prefix /\ Inside(p, Prefix)
  <2> DEFINE up(f) == { q \in 1..(p - 1) : Inside(p, q) /\ f[q].how # "out" }
             a(f)  == CHOOSE q \in up(f) : \A r \in up(f) : r <= q
  <2>1. up(w) = up(v)
    OBVIOUS
  <2>2. Prefix \in up(w)
    BY <1>2, Bounds DEF Inside, Path
  <2>3. up(w) \in SUBSET (0..p) /\ p \in Nat
    BY Bounds
  <2>4. \E q \in up(w) : \A r \in up(w) : r <= q
    BY <2>2, <2>3, GreatestMember
  <2>5. a(w) \in up(w)
    BY <2>4
  <2>6. a(w) = a(v)
    BY <2>1
  <2>7. a(w) \in 1..(p - 1)
    BY <2>5
  <2>8. FateAfter(w, p) = Below(p, w[a(w)], a(w)) /\ FateAfter(v, p) = Below(p, v[a(v)], a(v))
    BY <1>2, FateAfterIs
  <2> HIDE DEF up, a
  <2> QED
    BY <2>6, <2>7, <2>8
<1> QED
  BY <1>1, <1>2

(* Fate is what FateAfter says at every path                                *)
LEMMA FateIs ==
  ASSUME Prefix \in Path
  PROVE  \A p \in Path : Fate[p] = FateAfter(Fate, p) /\ Fate[p] \in Fates
<1> DEFINE B(n, before) == IF n = 0 THEN <<>> ELSE Append(before, FateAfter(before, n))
           Good(m, g) == g = [k \in 0..m |-> B(k, g[k - 1])]
           S == CHOOSE g : Good(NPath, g)
<1>0. Fate = S[NPath]
  BY DEF Fate
<1> HIDE DEF B, S
<1>1. ASSUME NEW m \in Nat, m # 0, NEW g, Good(m - 1, g)
      PROVE  \E h : Good(m, h)
  <2> DEFINE h == [k \in 0..m |-> IF k = m THEN B(m, g[m - 1]) ELSE g[k]]
  <2>0. \A f, e : B(0, f) = B(0, e)
    BY DEF B
  <2>1. ASSUME NEW k \in 0..m PROVE h[k] = B(k, h[k - 1])
    <3>1. CASE k = m
      <4>1. h[k] = B(m, g[m - 1]) /\ h[k - 1] = g[m - 1]
        BY <1>1, <3>1
      <4> QED
        BY <1>1, <3>1, <4>1
    <3>2. CASE k # m
      <4>1. k \in 0..(m - 1) /\ h[k] = g[k] /\ (k # 0 => h[k - 1] = g[k - 1])
        BY <1>1, <3>2
      <4>2. g[k] = B(k, g[k - 1])
        BY <1>1, <4>1
      <4> QED
        BY <2>0, <4>1, <4>2
    <3> QED
      BY <3>1, <3>2
  <2>2. h = [k \in 0..m |-> h[k]]
    OBVIOUS
  <2>3. h = [k \in 0..m |-> B(k, h[k - 1])]
    <3> HIDE DEF h
    <3> QED
      BY <2>1, <2>2
  <2> HIDE DEF h
  <2> QED
    BY <2>3
<1>2. \E g : Good(0, g)
  <2> DEFINE h == [k \in 0..0 |-> <<>>]
  <2>1. \A f : B(0, f) = <<>>
    BY DEF B
  <2>2. h = [k \in 0..0 |-> B(k, h[k - 1])]
    BY <2>1
  <2> HIDE DEF h
  <2> QED
    BY <2>2
<1> HIDE DEF Good
<1>3. \A m \in Nat : \E g : Good(m, g)
  <2> DEFINE T == { m \in Nat : ~\E g : Good(m, g) }
  <2>1. SUFFICES ASSUME T # {} PROVE FALSE
    OBVIOUS
  <2> DEFINE m == Least(T)
  <2>2. m \in T /\ \A k \in T : m <= k
    BY <2>1, LeastMember
  <2> HIDE DEF m
  <2>3. m # 0
    BY <1>2, <2>2
  <2>4. m \in Nat /\ m - 1 \in Nat /\ m - 1 \notin T
    BY <2>2, <2>3
  <2>5. \E g : Good(m - 1, g)
    BY <2>4
  <2> QED
    BY <1>1, <2>2, <2>3, <2>4, <2>5
<1>4. Good(NPath, S)
  BY <1>3, PathAssumption DEF S
<1>5. \A k \in 0..NPath : S[k] = B(k, S[k - 1])
  BY <1>4 DEF Good
<1> HIDE DEF Good
<1> DEFINE OK(n) == /\ S[n] \in Seq(Fates) /\ Len(S[n]) = n
                    /\ \A k \in 0..n : \A q \in 1..k : S[n][q] = S[k][q]
<1>6. ASSUME NEW n \in 0..NPath, n = 0 \/ OK(n - 1) PROVE OK(n)
  <2>1. CASE n = 0
    <3>1. S[0] = <<>>
      BY <1>5, <2>1 DEF B
    <3> QED
      BY <2>1, <3>1
  <2>2. CASE n # 0
    <3>0. n \in Path /\ n - 1 \in Nat
      BY <2>2 DEF Path
    <3> DEFINE e == FateAfter(S[n - 1], n)
    <3>1. S[n] = Append(S[n - 1], e) /\ e \in Fates
      BY <1>5, <2>2, <3>0, FateAfterType DEF B
    <3> HIDE DEF e
    <3>2. S[n - 1] \in Seq(Fates) /\ Len(S[n - 1]) = n - 1
      BY <1>6, <2>2
    <3>3. S[n] \in Seq(Fates) /\ Len(S[n]) = n /\ \A q \in 1..(n - 1) : S[n][q] = S[n - 1][q]
      BY <3>0, <3>1, <3>2, AppendProperties
    <3>4. ASSUME NEW k \in 0..n, NEW q \in 1..k PROVE S[n][q] = S[k][q]
      <4>1. CASE k = n
        BY <4>1
      <4>2. CASE k # n
        <5>1. k \in 0..(n - 1) /\ q \in 1..(n - 1)
          BY <3>0, <3>4, <4>2
        <5> QED
          BY <1>6, <2>2, <3>3, <5>1
      <4> QED
        BY <4>1, <4>2
    <3> QED
      BY <3>3, <3>4
  <2> QED
    BY <2>1, <2>2
<1> HIDE DEF OK
<1>7. \A n \in 0..NPath : OK(n)
  <2> DEFINE T == { n \in 0..NPath : ~OK(n) }
  <2>1. SUFFICES ASSUME T # {} PROVE FALSE
    OBVIOUS
  <2> DEFINE m == Least(T)
  <2>0. T \in SUBSET Nat
    OBVIOUS
  <2>2. m \in T /\ \A k \in T : m <= k
    BY <2>0, <2>1, LeastMember
  <2> HIDE DEF m
  <2>4. m \in 0..NPath /\ NPath \in Nat
    BY <2>2, PathAssumption
  <2>5. m # 0 => m - 1 \in 0..NPath /\ ~(m <= m - 1)
    BY <2>4
  <2>3. m \in 0..NPath /\ (m # 0 => m - 1 \in 0..NPath /\ m - 1 \notin T)
    BY <2>2, <2>4, <2>5, Zenon
  <2> QED
    BY <1>6, <2>2, <2>3
<1>8. ASSUME NEW p \in Path PROVE S[p] = Append(S[p - 1], FateAfter(S[p - 1], p))
                                  /\ Fate[p] = FateAfter(S[p - 1], p) /\ Fate[p] \in Fates
                                  /\ \A q \in 1..(p - 1) : S[p - 1][q] = Fate[q]
  <2>1. p \in 0..NPath /\ p - 1 \in 0..NPath /\ NPath \in 0..NPath /\ p # 0 /\ p \in Nat
    BY PathAssumption DEF Path
  <2> DEFINE e == FateAfter(S[p - 1], p)
  <2>2. S[p] = Append(S[p - 1], e) /\ e \in Fates
    BY <1>5, <2>1, FateAfterType DEF B
  <2> HIDE DEF e
  <2>3. OK(p - 1) /\ OK(NPath)
    BY <1>7, <2>1
  <2>4. S[p][p] = e
    BY <2>1, <2>2, <2>3, AppendProperties DEF OK
  <2>5. p \in 1..p
    BY <2>1
  <2>6. Fate[p] = S[p][p]
    BY <1>0, <2>1, <2>3, <2>5 DEF OK
  <2>7. \A q \in 1..(p - 1) : S[p - 1][q] = Fate[q]
    BY <1>0, <2>1, <2>3 DEF OK
  <2> QED
    BY <2>2, <2>4, <2>6, <2>7 DEF e
<1>9. ASSUME NEW p \in Path PROVE Fate[p] = FateAfter(Fate, p)
  <2>1. Prefix < p => S[p - 1][Prefix].how # "out"
    <3> SUFFICES ASSUME Prefix < p PROVE S[p - 1][Prefix].how # "out"
      OBVIOUS
    <3>1. S[p - 1][Prefix] = Fate[Prefix]
      BY <1>8, Bounds DEF Path
    <3>2. Fate[Prefix] = FateAfter(S[Prefix - 1], Prefix)
      BY <1>8
    <3>3. Fate[Prefix] = [how |-> IF Excluded(Prefix) /\ Prefix \notin cmd.special THEN "skip"
                                  ELSE Shape(Prefix), del |-> FALSE]
      BY <3>2, FateAfterIs
    <3>4. Fate[Prefix].how # "out"
      BY <3>3, ShapeIs
    <3> QED
      BY <3>1, <3>4
  <2> QED
    BY <1>8, <2>1, FateAgrees
<1> QED
  BY <1>8, <1>9

(* The path above from which the walk comes                                 *)
LEMMA OverIs ==
  ASSUME Prefix \in Path, NEW p \in Path, p # Prefix, Inside(p, Prefix)
  PROVE  /\ Over(p) \in Path /\ Over(p) < p /\ Inside(p, Over(p)) /\ Comes(Over(p))
         /\ \A q \in Path : q < p /\ Inside(p, q) /\ Comes(q) => q <= Over(p)
         /\ Fate[p] = Below(p, Fate[Over(p)], Over(p))
<1>1. Fate[Prefix] = [how |-> IF Excluded(Prefix) /\ Prefix \notin cmd.special THEN "skip"
                              ELSE Shape(Prefix), del |-> FALSE]
  BY FateIs, FateAfterIs
<1>2. Comes(Prefix)
  BY <1>1, ShapeIs DEF Comes, How
<1>3. Prefix \in Up(p)
  BY <1>2, Bounds DEF Up, Inside, Path
<1>4. Up(p) \in SUBSET (0..p) /\ p \in Nat
  BY Bounds DEF Up
<1>5. \E q \in Up(p) : \A r \in Up(p) : r <= q
  BY <1>3, <1>4, GreatestMember
<1>6. Over(p) \in Up(p) /\ \A r \in Up(p) : r <= Over(p)
  BY <1>5 DEF Over
<1>7. Over(p) \in Path /\ Over(p) < p /\ Inside(p, Over(p)) /\ Comes(Over(p))
  BY <1>4, <1>6, PathAssumption DEF Up, Path
<1>8. \A q \in Path : q < p /\ Inside(p, q) /\ Comes(q) => q <= Over(p)
  BY <1>4, <1>6 DEF Up, Path
<1>9. Fate[p] = Below(p, Fate[Over(p)], Over(p))
  <2>1. Fate[p] = FateAfter(Fate, p)
    BY FateIs
  <2> DEFINE up == { q \in 1..(p - 1) : Inside(p, q) /\ Fate[q].how # "out" }
             a  == CHOOSE q \in up : \A r \in up : r <= q
  <2>2. FateAfter(Fate, p) = Below(p, Fate[a], a)
    BY FateAfterIs
  <2>3. up = Up(p)
    BY DEF Up, Comes, How
  <2>4. a = Over(p)
    BY <2>3 DEF Over
  <2> QED
    BY <2>1, <2>2, <2>4
<1> QED
  BY <1>7, <1>8, <1>9

(* What comes of a path, from what has come of the one above it             *)
LEMMA Rules ==
  ASSUME Prefix \in Path, NEW p \in Path
  PROVE  /\ How(p) \in Hows
         /\ Comes(p) => Inside(p, Prefix) /\ How(p) \in {"skip", Shape(p)}
         /\ How(p) = "skip" => Excluded(p) /\ p \notin cmd.special
         /\ p = Prefix => Comes(p) /\ (How(p) = "skip" <=> Excluded(p) /\ p \notin cmd.special)
         /\ p # Prefix /\ Inside(p, Prefix) =>
              /\ Comes(p) <=> \/ How(Over(p)) = "dir" /\ fs[p] # 0
                              \/ How(Over(p)) = "negative" /\ Managed(p)
              /\ Comes(p) /\ How(Over(p)) = "dir" =>
                   (How(p) = "skip" <=> /\ Excluded(p) /\ p \notin cmd.special
                                        /\ ~(EditPath = "applicable" /\ ~Managed(Over(p))))
<1>1. How(p) \in Hows
  BY FateIs DEF How, Fates
<1>2. Shape(p) \notin {"skip", "out"}
  BY ShapeIs
<1>3. CASE p = Prefix
  <2>1. Fate[p] = [how |-> IF Excluded(p) /\ p \notin cmd.special THEN "skip"
                              ELSE Shape(p), del |-> FALSE]
    BY <1>3, FateIs, FateAfterIs
  <2>2. Inside(p, Prefix)
    BY <1>3, Bounds DEF Inside, Path
  <2> QED
    BY <1>1, <1>2, <1>3, <2>1, <2>2 DEF How, Comes
<1>4. CASE ~Inside(p, Prefix)
  <2>1. Fate[p] = [how |-> "out", del |-> FALSE]
    BY <1>4, FateIs, FateAfterIs
  <2>2. How(p) = "out"
    BY <2>1 DEF How
  <2>3. p # Prefix
    BY <1>4, Bounds DEF Inside, Path
  <2> QED
    BY <1>1, <1>4, <2>2, <2>3 DEF Comes
<1>5. CASE p # Prefix /\ Inside(p, Prefix)
  <2> DEFINE a == Over(p)
             comes == (Fate[a].how = "dir" /\ fs[p] # 0) \/ (Fate[a].how = "negative" /\ Managed(p))
             del   == \/ Fate[a].how = "dir" /\ EditPath = "applicable" /\ ~Managed(a)
                      \/ Fate[a].how = "negative" /\ Fate[a].del
  <2>0. Fate[p] = Below(p, Fate[a], a)
    <3> HIDE DEF a
    <3> QED
      BY <1>5, OverIs DEF a
  <2> HIDE DEF a
  <2>1. Fate[p].how = IF ~comes THEN "out"
               ELSE IF Excluded(p) /\ ~del /\ p \notin cmd.special THEN "skip" ELSE Shape(p)
    BY <2>0 DEF Below
  <2>2. Comes(p) <=> comes
    BY <1>2, <2>1 DEF Comes, How
  <2>3. How(p) = "skip" <=> comes /\ Excluded(p) /\ ~del /\ p \notin cmd.special
    BY <1>2, <2>1 DEF How
  <2>4. Comes(p) => How(p) \in {"skip", Shape(p)}
    BY <2>1, <2>2 DEF How
  <2>5. comes /\ Fate[a].how = "dir" => (del <=> EditPath = "applicable" /\ ~Managed(a))
    OBVIOUS
  <2>6. /\ comes <=> \/ How(a) = "dir" /\ fs[p] # 0
                     \/ How(a) = "negative" /\ Managed(p)
        /\ Fate[a].how = How(a)
    BY DEF How
  <2> HIDE DEF comes, del
  <2> QED
    BY <1>1, <1>5, <2>2, <2>3, <2>4, <2>5, <2>6 DEF a
<1> QED
  BY <1>3, <1>4, <1>5
-----------------------------------------------------------------------------
(* The tree: what is above an object is a directory                         *)
LEMMA AboveIsDir ==
  ASSUME WellFormed(fs, node), NEW a \in Path
  PROVE  \A c \in Path : fs[c] # 0 /\ a < c /\ Inside(c, a) => fs[a] # 0 /\ node[fs[a]].type = "d"
<1> DEFINE T == { c \in Path : fs[c] # 0 /\ a < c /\ Inside(c, a)
                               /\ ~(fs[a] # 0 /\ node[fs[a]].type = "d") }
           c == Least(T)
<1>1. SUFFICES ASSUME T # {} PROVE FALSE
  OBVIOUS
<1>2. T \in SUBSET Nat
  BY Bounds
<1>3. c \in T /\ \A d \in T : c <= d
  BY <1>1, <1>2, LeastMember
<1> HIDE DEF c
<1>4. c \in Path /\ fs[c] # 0 /\ a < c /\ Inside(c, a) /\ ~(fs[a] # 0 /\ node[fs[a]].type = "d")
  BY <1>3
<1>5. Parent(c) \in Path /\ a <= Parent(c) /\ Parent(c) # 0 /\ Parent(c) < c
  BY <1>4, ParentGreatest, ParentAbove, PathAssumption, ObjBasics
<1>6. fs[Parent(c)] # 0 /\ node[fs[Parent(c)]].type = "d"
  BY <1>4, <1>5 DEF WellFormed
<1>7. Parent(c) # a
  BY <1>4, <1>6
<1>8. a < Parent(c) /\ Inside(Parent(c), a)
  <2>1. a \in Nat /\ c \in Nat /\ Last[a] \in Nat /\ Parent(c) \in Nat
    BY <1>4, <1>5, Bounds
  <2>2. a < Parent(c)
    BY <1>5, <1>7, <2>1
  <2>3. c <= Last[a] /\ Parent(c) < c
    BY <1>4, <1>5, <2>1 DEF Inside
  <2>4. ASSUME NEW q \in Nat, a < q, q < c PROVE q \in a..Last[a]
    BY <2>1, <2>3, <2>4
  <2> QED
    BY <1>5, <2>1, <2>2, <2>4 DEF Inside
<1>9. Parent(c) \in T
  BY <1>4, <1>5, <1>6, <1>8
<1>10. c <= Parent(c)
  BY <1>3, <1>9
<1> QED
  BY <1>4, <1>5, <1>10 DEF Path

(* What the walk finds in a directory it finds in the one above             *)
LEMMA ParentIsOver ==
  ASSUME WellFormed(fs, node), Prefix \in Path, NEW p \in Path, p # Prefix, Comes(p),
         How(Over(p)) = "dir"
  PROVE  Parent(p) = Over(p) /\ p \in Children(Over(p))
<1> DEFINE a == Over(p)
           q == Parent(p)
<1>1. Inside(p, Prefix) /\ Inside(Prefix, Prefix)
  BY Rules, Bounds DEF Inside, Path
<1>2. /\ a \in Path /\ a < p /\ Inside(p, a) /\ Comes(a) /\ fs[p] # 0
      /\ \A r \in Path : r < p /\ Inside(p, r) /\ Comes(r) => r <= a
  BY <1>1, OverIs, Rules, Bounds DEF Inside
<1>3. q \in Path /\ a <= q /\ q < p /\ Inside(p, q)
  BY <1>2, ParentGreatest, ParentAbove, ObjBasics, PathAssumption
<1>4. fs[q] # 0
  BY <1>2, <1>3, AboveIsDir
<1>5. ASSUME a < q PROVE FALSE
  <2>1. Inside(q, a) /\ Inside(a, Prefix)
    BY <1>2, <1>3, <1>5, Rules, Bounds DEF Inside, Path
  <2>2. q # Prefix /\ Inside(q, Prefix)
    BY <1>2, <1>3, <1>5, <2>1, Bounds DEF Inside, Path
  <2> DEFINE b == Over(q)
  <2>3. /\ b \in Path /\ b < q /\ Inside(q, b) /\ Comes(b) /\ a <= b
    BY <1>2, <1>3, <1>5, <2>1, <2>2, OverIs
  <2>4. Inside(p, b)
    BY <1>2, <1>3, <2>3, Bounds DEF Inside, Path
  <2>5. b <= a
    BY <1>2, <1>3, <2>3, <2>4 DEF Path
  <2>6. b = a
    BY <1>2, <2>3, <2>5 DEF Path
  <2>7. Comes(q)
    BY <1>3, <1>4, <2>2, <2>6, Rules
  <2>8. q <= a
    BY <1>2, <1>3, <2>7
  <2> QED
    BY <1>2, <1>3, <1>5, <2>8 DEF Path
<1>6. q = a
  BY <1>2, <1>3, <1>5 DEF Path
<1> QED
  BY <1>2, <1>6 DEF Children, Exists

(* The walk comes by what is in a directory that it reads                   *)
LEMMA KidComes ==
  ASSUME WellFormed(fs, node), Prefix \in Path, NEW a \in Path, How(a) = "dir",
         NEW k \in Path, Parent(k) = a, fs[k] # 0
  PROVE  Comes(k) /\ Over(k) = a /\ a < k /\ Inside(k, a) /\ k # Prefix
<1>1. a < k /\ Inside(k, a) /\ Comes(a) /\ Inside(a, Prefix)
  BY ParentAbove, PathAssumption, ObjBasics, Rules DEF Comes
<1>2. k # Prefix /\ Inside(k, Prefix)
  BY <1>1, Bounds DEF Inside, Path
<1>3. /\ Over(k) \in Path /\ Over(k) < k /\ Inside(k, Over(k)) /\ a <= Over(k)
  BY <1>1, <1>2, OverIs
<1>4. Over(k) <= a
  BY <1>3, ParentGreatest
<1>5. Over(k) = a
  BY <1>3, <1>4 DEF Path
<1> QED
  BY <1>1, <1>2, <1>5, Rules

(* Below a path that is not there and that the walk does not come by it     *)
(* comes by none                                                            *)
Phantom(p) == Managed(p) /\ ~Comes(p) /\ fs[p] = 0

(* What is below a path that is not there is not there either               *)
LEMMA PhantomBelow ==
  ASSUME WellFormed(fs, node), Prefix \in Path, NEW n \in Path, Phantom(n)
  PROVE  \A c \in Path : n < c /\ Inside(c, n) => fs[c] = 0 /\ ~Comes(c)
<1>1. \A c \in Path : n < c /\ Inside(c, n) => fs[c] = 0
  BY AboveIsDir DEF Phantom
<1> DEFINE T == { c \in Path : n < c /\ Inside(c, n) /\ Comes(c) }
           c == Least(T)
<1>2. SUFFICES ASSUME T # {} PROVE FALSE
  BY <1>1
<1>3. T \in SUBSET Nat
  BY Bounds
<1>4. c \in T /\ \A d \in T : c <= d
  BY <1>2, <1>3, LeastMember
<1> HIDE DEF c
<1>5. c \in Path /\ n < c /\ Inside(c, n) /\ Comes(c) /\ fs[c] = 0
  BY <1>1, <1>4
<1>6. Inside(n, Prefix)
  BY DEF Phantom, Managed
<1>7. c # Prefix /\ n # Prefix /\ Inside(c, Prefix)
  BY <1>5, <1>6, Rules, Bounds DEF Inside, Path, Phantom
<1> DEFINE a == Over(c)
<1>8. /\ a \in Path /\ a < c /\ Inside(c, a) /\ Comes(a)
      /\ \A q \in Path : q < c /\ Inside(c, q) /\ Comes(q) => q <= a
  BY <1>5, <1>7, OverIs
<1>9. How(a) = "negative"
  BY <1>5, <1>7, Rules
<1>10. ~(n < a)
  <2> SUFFICES ASSUME n < a PROVE FALSE
    OBVIOUS
  <2>1. Inside(a, n)
    BY <1>5, <1>8, Bounds DEF Inside, Path
  <2>2. a \in T
    BY <1>8, <2>1
  <2> QED
    BY <1>4, <1>5, <1>8, <2>2, Bounds DEF Path
<1>11. a # n
  BY <1>8 DEF Phantom
<1>12. a < n /\ Inside(n, a)
  BY <1>5, <1>8, <1>10, <1>11, Bounds DEF Inside, Path
<1>13. /\ Over(n) \in Path /\ Over(n) < n /\ Inside(n, Over(n)) /\ Comes(Over(n)) /\ a <= Over(n)
  BY <1>6, <1>7, <1>8, <1>12, OverIs
<1>14. Over(n) <= a
  <2>1. Inside(c, Over(n))
    BY <1>5, <1>13, Bounds DEF Inside, Path
  <2> QED
    BY <1>5, <1>8, <1>13, <2>1 DEF Path
<1>15. Over(n) = a
  BY <1>8, <1>13, <1>14 DEF Path
<1>16. Comes(n)
  BY <1>6, <1>7, <1>9, <1>15, Rules DEF Phantom
<1> QED
  BY <1>16 DEF Phantom

-----------------------------------------------------------------------------
(* The lines of transcripts that are in order                               *)
InOrder ==
  \A r \in Readers : \A m, n \in DOMAIN Tran[r].lines :
    m < n => Tran[r].lines[m].path < Tran[r].lines[n].path

LineNo(p) == CHOOSE n \in DOMAIN Tran[Winner(p)].lines : Tran[Winner(p)].lines[n].path = p

Unread(p, at) == at[Winner(p)] <= LineNo(p)

Reads == TypeOK /\ InOrder /\ Behind

(* Transcripts that are in order end no run                                 *)
LEMMA InOrderRuns ==
  ASSUME TypeOK, InOrder
  PROVE  ~Failed
<1> SUFFICES ASSUME NEW r \in Readers, BadOrder(r) PROVE FALSE
  BY DEF Failed
<1>1. /\ pos[r] \in 2..Len(Tran[r].lines) /\ Cur(r).path <= Tran[r].lines[pos[r] - 1].path
      /\ Len(Tran[r].lines) \in Nat /\ DOMAIN Tran[r].lines = 1..Len(Tran[r].lines)
      /\ \A n \in DOMAIN Tran[r].lines : Tran[r].lines[n] \in Line
  BY Lines DEF BadOrder
<1>2. pos[r] - 1 \in DOMAIN Tran[r].lines /\ pos[r] \in DOMAIN Tran[r].lines /\ pos[r] - 1 < pos[r]
  BY <1>1
<1>3. Tran[r].lines[pos[r] - 1].path < Cur(r).path
  BY <1>2 DEF InOrder, Cur
<1>4. Tran[r].lines[pos[r] - 1].path \in Nat /\ Cur(r).path \in Nat
  BY <1>1, <1>2 DEF Line, Path, Cur
<1> QED
  BY <1>1, <1>3, <1>4

(* The line that decides                                                    *)
LEMMA LineIs ==
  ASSUME TypeOK, InOrder, NEW p \in Path, Listing(p) # {}
  PROVE  /\ Winner(p) \in Readers /\ Winner(p) \in Nat /\ \A r \in Listing(p) : Winner(p) <= r
         /\ LineNo(p) \in DOMAIN Tran[Winner(p)].lines /\ LineNo(p) \in Nat
         /\ WinLine(p) = Tran[Winner(p)].lines[LineNo(p)]
         /\ WinLine(p).path = p /\ WinLine(p).obj \in Obj
         /\ \A n \in DOMAIN Tran[Winner(p)].lines :
              Tran[Winner(p)].lines[n].path = p => n = LineNo(p)
<1>1. Listing(p) \in SUBSET Nat /\ Listing(p) \subseteq Readers
  BY Lines DEF Listing
<1>2. Winner(p) \in Listing(p) /\ \A r \in Listing(p) : Winner(p) <= r
  BY <1>1, LeastMember DEF Winner
<1>3. LineNo(p) \in DOMAIN Tran[Winner(p)].lines /\ Tran[Winner(p)].lines[LineNo(p)].path = p
  BY <1>2 DEF Listing, LineNo
<1>4. WinLine(p) = Tran[Winner(p)].lines[LineNo(p)]
  BY DEF WinLine, LineNo
<1> DEFINE w == Winner(p)
           k == LineNo(p)
<1>5. w \in Readers /\ w \in Nat
  BY <1>1, <1>2
<1>6. /\ DOMAIN Tran[w].lines = 1..Len(Tran[w].lines) /\ Len(Tran[w].lines) \in Nat
      /\ \A n \in DOMAIN Tran[w].lines : Tran[w].lines[n] \in Line
  BY <1>5, Lines
<1>7. k \in Nat
  BY <1>3, <1>6
<1>8. WinLine(p).obj \in Obj
  BY <1>3, <1>4, <1>6 DEF Line
<1>9. ASSUME NEW n \in DOMAIN Tran[w].lines, Tran[w].lines[n].path = p PROVE n = k
  <2>1. n \in Nat
    BY <1>6
  <2>2. n < k => Tran[w].lines[n].path < Tran[w].lines[k].path
    BY <1>3, <1>5 DEF InOrder
  <2>3. k < n => Tran[w].lines[k].path < Tran[w].lines[n].path
    BY <1>3, <1>5 DEF InOrder
  <2>4. p \in Nat
    BY Bounds
  <2> QED
    BY <1>3, <1>7, <1>9, <2>1, <2>2, <2>3, <2>4
<1> QED
  BY <1>2, <1>3, <1>4, <1>5, <1>7, <1>8, <1>9

(* A line that has not been read is not passed by                           *)
LEMMA UnreadAhead ==
  ASSUME Reads, NEW p \in Path, Listing(p) # {}, Unread(p, pos)
  PROVE  /\ ~AllEof /\ ~Eof(Winner(p)) /\ Cur(Winner(p)).path <= p
         /\ \A r \in Readers : Selected(r) => Cur(r).path <= p
<1> DEFINE w == Winner(p)
           k == LineNo(p)
<1>1. /\ w \in Readers /\ k \in DOMAIN Tran[w].lines /\ k \in Nat
      /\ Tran[w].lines[k].path = p
  BY LineIs DEF Reads
<1>2. /\ pos[w] \in Nat \ {0} /\ Len(Tran[w].lines) \in Nat
      /\ DOMAIN Tran[w].lines = 1..Len(Tran[w].lines)
  BY <1>1, Lines DEF Reads
<1>3. pos[w] <= k
  BY DEF Unread
<1> HIDE DEF w, k
<1>4. ~Eof(w) /\ pos[w] \in DOMAIN Tran[w].lines
  BY <1>1, <1>2, <1>3 DEF Eof
<1>5. pos[w] < k => Cur(w).path < p
  BY <1>1, <1>4 DEF Reads, InOrder, Cur
<1>6. Cur(w).path \in Nat /\ p \in Nat
  BY <1>1, <1>4, Lines, Bounds DEF Reads
<1>7. pos[w] = k => Cur(w).path = p
  BY <1>1 DEF Cur
<1>8. Cur(w).path <= p
  BY <1>1, <1>2, <1>3, <1>5, <1>6, <1>7
<1>9. ASSUME NEW r \in Readers, Selected(r) PROVE Cur(r).path <= p
  <2>1. ~Eof(r) /\ Cur(r).path <= Cur(w).path
    BY <1>1, <1>4, <1>9 DEF Selected
  <2>2. Cur(r).path \in Nat
    BY <2>1, Lines DEF Reads
  <2> QED
    BY <1>6, <1>8, <2>1, <2>2
<1> QED
  BY <1>1, <1>4, <1>8, <1>9 DEF AllEof, w

(* The reader selected has the line that decides                            *)
LEMMA SelectedWins ==
  ASSUME Reads, NEW r \in Readers, Selected(r)
  PROVE  /\ Cur(r).path \in Path /\ Listing(Cur(r).path) # {} /\ Winner(Cur(r).path) = r
         /\ LineNo(Cur(r).path) = pos[r] /\ WinLine(Cur(r).path) = Cur(r)
         /\ Unread(Cur(r).path, pos)
         /\ Managed(Cur(r).path) <=> ~Hidden(r)
<1> DEFINE p == Cur(r).path
           w == Winner(p)
           k == LineNo(p)
<1>1. ~Eof(r) /\ pos[r] \in DOMAIN Tran[r].lines /\ p \in Path /\ p \in Nat /\ r \in Nat
      /\ pos[r] \in Nat
  BY Lines DEF Reads, Selected
<1>2. r \in Listing(p)
  BY <1>1 DEF Listing, Cur
<1>3. /\ w \in Readers /\ w \in Nat /\ w <= r /\ k \in DOMAIN Tran[w].lines /\ k \in Nat
      /\ Tran[w].lines[k].path = p /\ WinLine(p) = Tran[w].lines[k]
      /\ \A n \in DOMAIN Tran[w].lines : Tran[w].lines[n].path = p => n = k
  BY <1>1, <1>2, LineIs DEF Reads
<1>4. w = r
  <2> SUFFICES ASSUME w < r PROVE FALSE
    BY <1>1, <1>3
  <2>1. CASE Unread(p, pos)
    <3>1. ~Eof(w) /\ Cur(w).path <= p
      BY <1>1, <1>2, <2>1, UnreadAhead
    <3>2. p < Cur(w).path
      BY <1>3, <3>1 DEF Selected
    <3>3. Cur(w).path \in Nat
      BY <1>3, <3>1, Lines DEF Reads
    <3> QED
      BY <1>1, <3>1, <3>2, <3>3
  <2>2. CASE ~Unread(p, pos)
    <3>1. pos[w] \in Nat /\ k # 0
      BY <1>3, Lines DEF Reads
    <3>2. k \in 1..(pos[w] - 1)
      BY <1>3, <2>2, <3>1 DEF Unread
    <3>3. ~Failed
      BY InOrderRuns DEF Reads
    <3>4. PathOf(w, k) < p \/ (PathOf(w, k) = p /\ r < w)
      BY <1>1, <1>3, <3>2, <3>3 DEF Reads, Behind
    <3> QED
      BY <1>1, <1>3, <3>4 DEF PathOf
  <2> QED
    BY <2>1, <2>2
<1>5. k = pos[r]
  BY <1>1, <1>3, <1>4 DEF Cur
<1>6. WinLine(p) = Cur(r)
  BY <1>3, <1>4, <1>5 DEF Cur
<1>7. Unread(p, pos)
  BY <1>1, <1>4, <1>5 DEF Unread
<1>8. Managed(p) <=> ~Hidden(r)
  BY <1>2, <1>4, <1>6 DEF Managed, Hidden
<1> QED
  BY <1>1, <1>2, <1>4, <1>5, <1>6, <1>7, <1>8

(* What is read when the transcripts move on                                *)
LEMMA ReadOn ==
  ASSUME Reads, NEW r \in Readers, Selected(r), NEW at, at = Passed(r) \/ at = Consumed(r),
         NEW p \in Path, Listing(p) # {}
  PROVE  Unread(p, at) <=> Unread(p, pos) /\ ~(at = Consumed(r) /\ p = Cur(r).path)
<1> DEFINE c == Cur(r).path
           w == Winner(p)
           k == LineNo(p)
<1>1. /\ w \in Readers /\ w \in Nat /\ k \in DOMAIN Tran[w].lines /\ k \in Nat
      /\ Tran[w].lines[k].path = p
      /\ \A n \in DOMAIN Tran[w].lines : Tran[w].lines[n].path = p => n = k
  BY LineIs DEF Reads
<1>2. c \in Path /\ Winner(c) = r /\ LineNo(c) = pos[r] /\ Listing(c) # {}
  BY SelectedWins
<1>3. /\ \A q \in Readers : Passed(r)[q] = IF q > r /\ ~Eof(q) /\ Cur(q).path = c
                                           THEN pos[q] + 1 ELSE pos[q]
      /\ \A q \in Readers : q # r => Consumed(r)[q] = Passed(r)[q]
      /\ Consumed(r)[r] = pos[r] + 1 /\ Passed(r)[r] = pos[r]
      /\ pos[w] \in Nat /\ pos[r] \in Nat /\ r \in Nat
  BY <1>1, PassedType, Lines DEF Reads
<1> HIDE DEF c, w, k
<1>4. CASE w # r
  <2>1. p # c
    BY <1>2, <1>4 DEF w
  <2>2. at[w] = IF w > r /\ ~Eof(w) /\ Cur(w).path = c THEN pos[w] + 1 ELSE pos[w]
    BY <1>1, <1>3, <1>4
  <2>3. CASE w > r /\ ~Eof(w) /\ Cur(w).path = c
    <3>1. pos[w] # k
      BY <1>1, <2>1, <2>3 DEF Cur
    <3>2. at[w] <= k <=> pos[w] <= k
      BY <1>1, <1>3, <2>2, <2>3, <3>1
    <3> QED
      BY <2>1, <3>2 DEF Unread, w, k, c
  <2>4. CASE ~(w > r /\ ~Eof(w) /\ Cur(w).path = c)
    BY <2>1, <2>2, <2>4 DEF Unread, w, k, c
  <2> QED
    BY <2>3, <2>4
<1>5. CASE w = r
  <2>1. k = pos[r] <=> p = c
    <3>1. p = c => k = pos[r]
      BY <1>2 DEF w, k
    <3>2. k = pos[r] => p = c
      BY <1>1, <1>5 DEF Cur, c
    <3> QED
      BY <3>1, <3>2
  <2>2. CASE at = Consumed(r)
    <3>1. at[w] <= k <=> pos[w] <= k /\ k # pos[r]
      BY <1>1, <1>3, <1>5, <2>2
    <3> QED
      BY <2>1, <2>2, <3>1 DEF Unread, w, k, c
  <2>3. CASE at # Consumed(r)
    BY <1>3, <1>5, <2>3 DEF Unread, w, k, c
  <2> QED
    BY <2>2, <2>3
<1> QED
  BY <1>4, <1>5

-----------------------------------------------------------------------------
(* What is given                                                            *)
Sheltered ==
  \A q \in cmd.exclude \ cmd.special, n \in Path :
    (/\ n < q /\ Inside(q, n)
     /\ \E r \in Readers : /\ Tran[r].kind = "negative"
                           /\ \E k \in DOMAIN Tran[r].lines : /\ Tran[r].lines[k].path = n
                                                              /\ Tran[r].lines[k].obj.type = "d")
    => \A c \in Path : q < c /\ Inside(c, q) => Listing(c) = {}

Given ==
  /\ fs[Prefix] # 0
  /\ \A i \in Inode : node[i].type # "h"
  /\ \A r \in Readers : Tran[r].kind = "special" =>
       \A n \in DOMAIN Tran[r].lines : Tran[r].lines[n].path \in cmd.special
  /\ EditPath = "creatable" => cmd.exclude = {}
  /\ Sheltered

World == Reads /\ Given

(* The types of what is given                                               *)
LEMMA WorldIs ==
  ASSUME World
  PROVE  /\ TypeOK /\ InOrder /\ Reads /\ WellFormed(fs, node) /\ Prefix \in Path
         /\ EditPath \in {"applicable", "creatable"}
         /\ cmd.exclude \subseteq Path /\ cmd.special \subseteq Path
BY DEF World, Reads, TypeOK, Options, Prefix, EditPath, CommandFile

(* A path that a transcript decides is never left alone as excluded         *)
LEMMA ManagedStays ==
  ASSUME World, NEW p \in Path, Managed(p)
  PROVE  /\ Listing(p) # {} /\ Inside(p, Prefix) /\ ~(Excluded(p) /\ p \notin cmd.special)
         /\ How(p) # "skip" /\ (Comes(p) <=> Compared(Fate, p))
<1>1. Listing(p) # {} /\ Inside(p, Prefix) /\ (Excluded(p) => Tran[Winner(p)].kind = "special")
  BY DEF Managed
<1>2. /\ Winner(p) \in Readers /\ LineNo(p) \in DOMAIN Tran[Winner(p)].lines
      /\ WinLine(p) = Tran[Winner(p)].lines[LineNo(p)] /\ WinLine(p).path = p
  BY <1>1, WorldIs, LineIs
<1>3. ~(Excluded(p) /\ p \notin cmd.special)
  BY <1>1, <1>2 DEF World, Given
<1>4. How(p) # "skip"
  BY <1>3, WorldIs, Rules
<1> QED
  BY <1>1, <1>3, <1>4 DEF Compared, Comes, How

(* Compared is walked by and not left alone                                 *)
LEMMA ComparedIs ==
  ASSUME World, NEW p \in Path
  PROVE  /\ Compared(Fate, p) <=> Comes(p) /\ How(p) # "skip"
         /\ Compared(Fate, p) => How(p) = Shape(p) /\ Inside(p, Prefix)
<1>1. Compared(Fate, p) <=> Comes(p) /\ How(p) # "skip"
  BY DEF Compared, Comes, How
<1> QED
  BY <1>1, WorldIs, Rules

(* Two names of an inode                                                    *)
LEMMA TwoNames ==
  ASSUME World, NEW p \in Path, NEW q \in Path, p # q, fs[p] = fs[q], fs[p] # 0
  PROVE  NLink(fs[p]) > 1 /\ node[fs[p]].type # "d"
<1> DEFINE S == { r \in Path : fs[r] = fs[p] }
<1>1. IsFiniteSet(Path)
  BY PathAssumption, FS_Interval DEF Path
<1>2. IsFiniteSet(S) /\ {p, q} \subseteq S
  BY <1>1, FS_Subset
<1>3. Cardinality({p, q}) = 2
  <2>1. IsFiniteSet({p}) /\ Cardinality({p}) = 1
    BY FS_Singleton
  <2>2. Cardinality({p} \cup {q}) = 1 + 1
    BY <2>1, FS_AddElement
  <2>3. {p} \cup {q} = {p, q}
    OBVIOUS
  <2> QED
    BY <2>2, <2>3
<1>4. Cardinality({p, q}) <= Cardinality(S)
  BY <1>2, FS_Subset
<1>5. Cardinality(S) \in Nat
  BY <1>2, FS_CardinalityType
<1>6. NLink(fs[p]) = Cardinality(S)
  BY DEF NLink
<1>7. node[fs[p]].type # "d"
  BY WorldIs DEF WellFormed
<1> HIDE DEF S
<1> QED
  BY <1>3, <1>4, <1>5, <1>6, <1>7

(* The first name of an inode that is compared                              *)
LEMMA FirstIs ==
  ASSUME World, NEW p \in Path, Compared(Fate, p)
  PROVE  LET q == FirstName(Fate, p)
         IN  /\ q \in Path /\ q <= p /\ fs[q] = fs[p] /\ Compared(Fate, q)
             /\ \A r \in Path : fs[r] = fs[p] /\ Compared(Fate, r) => q <= r
             /\ FirstName(Fate, q) = q
<1> DEFINE S(u) == { q \in 1..u : fs[q] = fs[u] /\ Compared(Fate, q) }
           q == FirstName(Fate, p)
<1>1. p \in S(p) /\ S(p) \in SUBSET Nat /\ S(p) \subseteq Path
  BY PathAssumption DEF Path
<1>2. q \in S(p) /\ \A r \in S(p) : q <= r
  BY <1>1, LeastMember DEF FirstName
<1>3. q \in Path /\ q <= p /\ fs[q] = fs[p] /\ Compared(Fate, q)
  BY <1>1, <1>2
<1>4. p \in Nat /\ q \in Nat /\ Path \subseteq Nat
  BY <1>3, Bounds
<1> HIDE DEF q
<1>5. ASSUME NEW r \in Path, fs[r] = fs[p], Compared(Fate, r) PROVE q <= r
  <2>1. r <= p => r \in S(p)
    BY <1>5 DEF Path
  <2> QED
    BY <1>2, <1>3, <1>4, <2>1
<1>6. FirstName(Fate, q) = q
  <2>1. q \in S(q) /\ S(q) \in SUBSET Nat /\ S(q) \subseteq Path
    BY <1>3, <1>4, PathAssumption DEF Path
  <2> DEFINE z == FirstName(Fate, q)
  <2>2. z \in S(q) /\ \A r \in S(q) : z <= r
    BY <2>1, LeastMember DEF FirstName
  <2> HIDE DEF z
  <2>3. z \in Nat /\ z <= q /\ q <= z
    BY <1>3, <1>4, <1>5, <2>1, <2>2
  <2> QED
    BY <1>4, <2>3 DEF z
<1> QED
  BY <1>3, <1>5, <1>6 DEF q

(* What is found at a path that is compared                                 *)
LEMMA FoundIs ==
  ASSUME World, NEW p \in Path, Compared(Fate, p)
  PROVE  /\ fs[p] = 0 => Found(Fate, p) = Missing
         /\ fs[p] # 0 => /\ Found(Fate, p) \in Obj /\ Found(Fate, p) # Missing
                         /\ Found(Fate, p).type # "X"
                         /\ Found(Fate, p).type = "h" <=> FirstName(Fate, p) # p
                         /\ Found(Fate, p).type = "d" <=> node[fs[p]].type = "d"
                         /\ FirstName(Fate, p) = p => Found(Fate, p) = node[fs[p]]
                         /\ FirstName(Fate, p) # p => Found(Fate, p) = HardLink(FirstName(Fate, p))
                         /\ FirstName(Fate, p) # p => NLink(fs[p]) > 1 /\ node[fs[p]].type # "d"
<1>1. fs[p] = 0 => Found(Fate, p) = Missing
  BY DEF Found
<1>2. ASSUME fs[p] # 0
      PROVE /\ Found(Fate, p) \in Obj /\ Found(Fate, p) # Missing
            /\ Found(Fate, p).type # "X"
            /\ Found(Fate, p).type = "h" <=> FirstName(Fate, p) # p
            /\ Found(Fate, p).type = "d" <=> node[fs[p]].type = "d"
            /\ FirstName(Fate, p) = p => Found(Fate, p) = node[fs[p]]
            /\ FirstName(Fate, p) # p => Found(Fate, p) = HardLink(FirstName(Fate, p))
            /\ FirstName(Fate, p) # p => NLink(fs[p]) > 1 /\ node[fs[p]].type # "d"
  <2> DEFINE q == FirstName(Fate, p)
  <2>1. q \in Path /\ fs[q] = fs[p]
    BY FirstIs
  <2> HIDE DEF q
  <2>2. fs[p] \in Inode /\ node[fs[p]] \in Obj
    BY <1>2, WorldIs, NodeThere
  <2>3. node[fs[p]].type # "h"
    BY <2>2 DEF World, Given
  <2>4. Found(Fate, p) = IF q # p THEN HardLink(q) ELSE node[fs[p]]
    BY <1>2 DEF Found, q
  <2>5. HardLink(q) \in Obj /\ HardLink(q).type = "h"
    BY <2>1, ObjBasics DEF HardLink
  <2>6. q # p => NLink(fs[p]) > 1 /\ node[fs[p]].type # "d"
    BY <1>2, <2>1, TwoNames
  <2>7. \A o \in Obj : o.type # "X" /\ o # Missing
    BY ObjBasics
  <2>8. Found(Fate, p) \in Obj
    BY <2>2, <2>4, <2>5
  <2> QED
    BY <2>2, <2>3, <2>4, <2>5, <2>6, <2>7, <2>8 DEF q
<1> QED
  BY <1>1, <1>2

(* Where the walk goes on from a path that is compared                      *)
LEMMA ShapeOfCompared ==
  ASSUME World, NEW p \in Path, Compared(Fate, p)
  PROVE  /\ How(p) \in {"negative", "dir", "leaf"}
         /\ How(p) = "negative" <=> Managed(p) /\ ~Positive(p) /\ WinLine(p).obj.type = "d"
         /\ How(p) = "dir" <=> How(p) # "negative" /\ fs[p] # 0 /\ node[fs[p]].type = "d"
<1>1. How(p) = Shape(p)
  BY ComparedIs
<1> QED
  BY <1>1 DEF Shape

-----------------------------------------------------------------------------
(* Where the walk is: it is through with the paths below x; it has begun    *)
(* with those below y, which is x, or x + 1 while it is at x                *)
Above(s, p) == \A m \in DOMAIN s : s[m].path < p /\ Inside(p, s[m].path)

At(x, y, c, s, fm) ==
  /\ x \in 1..(NPath + 1) /\ y \in {x, x + 1} /\ Prefix < y /\ y <= NPath + 1
  /\ c = "excluded" => y = x + 1 /\ s.path = x /\ How(x) = "skip"
  /\ c = "compare" => /\ \/ y = x + 1 /\ s.path = x /\ Compared(Fate, x)
                         \/ y = x /\ Phantom(s.path)
                      /\ s.inode = fs[s.path] /\ s.obj = Found(Fate, s.path)
                      /\ EditPath = "applicable" => ~fm
  /\ c \notin {"excluded", "compare"} => y = x

Fits(x, y, f) ==
  /\ f.kind = "dir" => /\ How(f.path) = "dir" /\ f.path < x /\ \A k \in f.kids : y <= k
                       /\ EditPath = "applicable" => (f.del <=> ~Managed(f.path))
  /\ f.kind = "negative" => (How(f.path) = "negative" /\ f.path < x) \/ Phantom(f.path)

Nested(s) == \A m \in DOMAIN s : \A l \in 1..(m - 1) :
               s[m].path < s[l].path /\ Inside(s[l].path, s[m].path)

(* What is still to be walked through is in a frame                         *)
Covered(x, y, s) == \A p \in Path : Comes(p) /\ y <= p /\ Over(p) < x =>
  \E m \in DOMAIN s : s[m].path = Over(p) /\ (s[m].kind = "dir" => p \in s[m].kids)

Stack(x, y, s) == (\A m \in DOMAIN s : Fits(x, y, s[m])) /\ Nested(s) /\ Covered(x, y, s)

(* What is known of lines, links and edits                                  *)
LinesLeft(x, at) == \A p \in Path : Managed(p) /\ Compared(Fate, p) => (Unread(p, at) <=> x <= p)

Names(y, i) == { q \in Path : fs[q] = i /\ Compared(Fate, q) /\ q < y }
Linked(y, lk) == \A i \in Inode : NLink(i) > 1 /\ node[i].type # "d" =>
  lk[i] = IF Names(y, i) = {} THEN 0 ELSE Least(Names(y, i))

Marked(x, ch) ==
  /\ EditPath = "creatable" => ch = {}
  /\ EditPath = "applicable" => \A q \in Path :
       /\ Compared(Fate, q) /\ q < x /\ fs[q] # 0 /\ FirstName(Fate, q) = q
       /\ NLink(fs[q]) > 1 /\ node[fs[q]].type # "d" /\ Applied(Fate, q, FALSE) # NoEdit
       => fs[q] \in ch

Triple(e) == [op |-> e.op, path |-> e.path, obj |-> e.obj]
EditsIn(p, o) ==
  { [op |-> e.op, path |-> e.path, obj |-> e.obj] :
      e \in { o[n] : n \in { m \in DOMAIN o : o[m].path = p } } }
Right(p, o) ==
  IF Wanted[p] # NoEdit THEN EditsIn(p, o) = {Wanted[p]}
  ELSE \A e \in EditsIn(p, o) : /\ Found(Fate, p).type = "h"
                                /\ e = WantedEdit(Found(Fate, p), p, "status")
Settled(x, p, at) == IF Managed(p) THEN ~Unread(p, at) ELSE p < x
Edited(x, at, o) == \A p \in Path :
  IF Settled(x, p, at) THEN Right(p, o) ELSE EditsIn(p, o) = {}

Work(x, y, at, lk, ch, o) == LinesLeft(x, at) /\ Linked(y, lk) /\ Marked(x, ch) /\ Edited(x, at, o)

(* The place of the walk is a number                                        *)
LEMMA XIs ==
  ASSUME NEW x \in 1..(NPath + 1)
  PROVE  x \in Nat /\ x + 1 \in Nat /\ NPath \in Nat /\ Path \subseteq Nat
         /\ (x <= NPath => x \in Path) /\ \A p \in Path : p <= NPath /\ 1 <= p
BY PathAssumption DEF Path

(* The next path that the walk comes by is in a frame                       *)
LEMMA NextIs ==
  ASSUME World, NEW x \in 1..(NPath + 1), Prefix < x, NEW s, Covered(x, x, s),
         NEW z \in Path, x <= z, Comes(z)
  PROVE  \E q \in Path : /\ x <= q /\ q <= z /\ Comes(q) /\ q # Prefix /\ Inside(q, Prefix)
                         /\ Over(q) \in Path /\ Over(q) < x
                         /\ \A t \in Path : x <= t /\ t < q => ~Comes(t)
                         /\ \E m \in DOMAIN s : /\ s[m].path = Over(q)
                                                /\ s[m].kind = "dir" => q \in s[m].kids
<1> DEFINE T == { t \in Path : x <= t /\ Comes(t) }
           q == Least(T)
<1>1. T \in SUBSET Nat /\ z \in T
  BY Bounds
<1>2. q \in T /\ \A t \in T : q <= t
  BY <1>1, LeastMember
<1> HIDE DEF q
<1>3. q \in Path /\ x <= q /\ q <= z /\ Comes(q)
  BY <1>1, <1>2
<1>4. ASSUME NEW t \in Path, x <= t, t < q PROVE ~Comes(t)
  <2>1. t \in Nat /\ q \in Nat
    BY <1>3, Bounds
  <2> QED
    BY <1>2, <1>4, <2>1
<1>5. q # Prefix /\ Inside(q, Prefix)
  BY <1>3, WorldIs, Rules, Bounds, XIs
<1>6. Over(q) \in Path /\ Over(q) < q /\ Comes(Over(q))
  BY <1>3, <1>5, WorldIs, OverIs
<1>7. Over(q) < x
  <2> DEFINE a == Over(q)
  <2>1. a \in Path /\ a < q /\ Comes(a)
    BY <1>6
  <2> HIDE DEF a
  <2>2. ~(x <= a)
    BY <1>4, <2>1
  <2>3. a \in Nat /\ x \in Nat
    BY <2>1, XIs
  <2> QED
    BY <2>2, <2>3 DEF a
<1>8. \E m \in DOMAIN s : s[m].path = Over(q) /\ (s[m].kind = "dir" => q \in s[m].kids)
  BY <1>3, <1>7 DEF Covered
<1> QED
  BY <1>3, <1>4, <1>5, <1>6, <1>7, <1>8

(* An unmanaged path that the walk does not come by needs nothing           *)
LEMMA NothingWanted ==
  ASSUME World, NEW p \in Path, ~Managed(p), ~Compared(Fate, p)
  PROVE  Wanted[p] = NoEdit
<1>1. Wanted[p] = IF EditPath = "creatable" THEN Created(Fate, p)
                  ELSE Applied(Fate, p, RelinkDue(Fate, p))
  BY DEF Wanted
<1>2. Applied(Fate, p, RelinkDue(Fate, p)) = NoEdit
  BY DEF Applied
<1>3. Created(Fate, p) = NoEdit
  BY DEF Created
<1> QED
  BY <1>1, <1>2, <1>3

(* Where nothing is wanted it is right to have printed nothing              *)
LEMMA NoneIsRight ==
  ASSUME NEW p \in Path, NEW o, Wanted[p] = NoEdit, EditsIn(p, o) = {}
  PROVE  Right(p, o)
BY DEF Right

(* Paths that the walk does not come by are passed over                     *)
LEMMA Advance ==
  ASSUME World, NEW x \in 1..(NPath + 1), Prefix < x, NEW s, Covered(x, x, s),
         NEW at, NEW lk, NEW ch, NEW o, Work(x, x, at, lk, ch, o),
         NEW z \in 1..(NPath + 1), x <= z, \A t \in Path : x <= t /\ t < z => ~Comes(t)
  PROVE  Covered(z, z, s) /\ Work(z, z, at, lk, ch, o)
<1>0. x \in Nat /\ z \in Nat /\ Path \subseteq Nat
  BY XIs
<1>1. \A t \in Path : Compared(Fate, t) => Comes(t) /\ (t < x <=> t < z) /\ (x <= t <=> z <= t)
  <2> SUFFICES ASSUME NEW t \in Path, Compared(Fate, t)
               PROVE  Comes(t) /\ (t < x <=> t < z) /\ (x <= t <=> z <= t)
    OBVIOUS
  <2>1. Comes(t) /\ t \in Nat
    BY <1>0, ComparedIs
  <2>2. ~(x <= t /\ t < z)
    BY <2>1
  <2> QED
    BY <1>0, <2>1, <2>2
<1>2. Covered(z, z, s)
  <2> SUFFICES ASSUME NEW p \in Path, Comes(p), z <= p, Over(p) < z
               PROVE  \E m \in DOMAIN s : s[m].path = Over(p) /\ (s[m].kind = "dir" => p \in s[m].kids)
    BY DEF Covered
  <2>1. p # Prefix /\ Inside(p, Prefix)
    BY <1>0, WorldIs, Rules, Bounds
  <2>2. Over(p) \in Path /\ Comes(Over(p))
    BY <2>1, WorldIs, OverIs
  <2>3. Over(p) < x
    <3> DEFINE a == Over(p)
    <3>1. a \in Path /\ a < z /\ Comes(a)
      BY <2>2
    <3> HIDE DEF a
    <3>2. ~(x <= a)
      BY <3>1
    <3>3. a \in Nat /\ x \in Nat
      BY <1>0, <3>1
    <3> QED
      BY <3>2, <3>3 DEF a
  <2>4. x <= p
    BY <1>0
  <2> QED
    BY <2>3, <2>4 DEF Covered
<1>3. LinesLeft(z, at)
  BY <1>1 DEF Work, LinesLeft
<1>4. Linked(z, lk)
  <2>1. \A i : Names(z, i) = Names(x, i)
    BY <1>1 DEF Names
  <2> QED
    BY <2>1 DEF Work, Linked
<1>5. Marked(z, ch)
  BY <1>1 DEF Work, Marked
<1>6. Edited(z, at, o)
  <2> SUFFICES ASSUME NEW p \in Path PROVE IF Settled(z, p, at) THEN Right(p, o) ELSE EditsIn(p, o) = {}
    BY DEF Edited
  <2>1. IF Settled(x, p, at) THEN Right(p, o) ELSE EditsIn(p, o) = {}
    BY DEF Work, Edited
  <2>2. CASE Settled(z, p, at) <=> Settled(x, p, at)
    BY <2>1, <2>2
  <2>3. CASE ~(Settled(z, p, at) <=> Settled(x, p, at))
    <3>1. ~Managed(p) /\ ~Settled(x, p, at) /\ Settled(z, p, at) /\ x <= p /\ p < z
      BY <1>0, <2>3 DEF Settled
    <3>2. ~Compared(Fate, p)
      BY <1>1, <3>1
    <3> QED
      BY <2>1, <3>1, <3>2, NothingWanted, NoneIsRight
  <2> QED
    BY <2>2, <2>3
<1> QED
  BY <1>2, <1>3, <1>4, <1>5, <1>6 DEF Work

(* What is found at the path that is visited next                           *)
LEMMA NamesIs ==
  ASSUME World, NEW p \in Path, fs[p] # 0, Compared(Fate, p)
  PROVE  /\ FirstName(Fate, p) = IF Names(p, fs[p]) = {} THEN p ELSE Least(Names(p, fs[p]))
         /\ Names(p, fs[p]) # {} => /\ Least(Names(p, fs[p])) \in Names(p, fs[p])
                                    /\ Least(Names(p, fs[p])) # 0 /\ Least(Names(p, fs[p])) # p
<1> DEFINE S == Names(p, fs[p])
           q == FirstName(Fate, p)
<1>1. /\ q \in Path /\ q <= p /\ fs[q] = fs[p] /\ Compared(Fate, q)
      /\ \A r \in Path : fs[r] = fs[p] /\ Compared(Fate, r) => q <= r
  BY FirstIs
<1>2. Path \subseteq Nat /\ 0 \notin Path
  BY Bounds, ObjBasics
<1> HIDE DEF q
<1>3. CASE q = p
  <2>1. S = {}
    <3> SUFFICES ASSUME NEW r \in S PROVE FALSE
      OBVIOUS
    <3>1. r \in Path /\ fs[r] = fs[p] /\ Compared(Fate, r) /\ r < p
      BY DEF Names
    <3>2. p <= r
      BY <1>1, <1>3, <3>1
    <3> QED
      BY <1>2, <3>1, <3>2
  <2> QED
    BY <1>3, <2>1 DEF q
<1>4. CASE q # p
  <2>0. q < p
    BY <1>1, <1>2, <1>4
  <2>1. q \in S /\ S \in SUBSET Nat
    BY <1>1, <1>2, <2>0, Zenon DEF Names
  <2> DEFINE l == Least(S)
  <2>2. l \in S /\ \A y \in S : l <= y
    BY <2>1, LeastMember
  <2> HIDE DEF l
  <2>3. l \in Path /\ fs[l] = fs[p] /\ Compared(Fate, l) /\ l < p
    BY <2>2 DEF Names
  <2>4. l <= q /\ q <= l
    BY <1>1, <2>1, <2>2, <2>3
  <2>5. l = q
    BY <1>1, <1>2, <2>3, <2>4
  <2>6. l # 0 /\ l # p
    BY <1>2, <2>3
  <2> QED
    BY <2>1, <2>2, <2>5, <2>6 DEF l, q
<1> QED
  BY <1>3, <1>4

-----------------------------------------------------------------------------
(* The least element is the one that is not above any other                 *)
LEMMA LeastIs ==
  ASSUME NEW S \in SUBSET Nat, NEW x \in S, \A y \in S : x <= y
  PROVE  Least(S) = x
<1>1. Least(S) \in S /\ \A y \in S : Least(S) <= y
  BY LeastMember
<1>2. Least(S) \in Nat /\ x \in Nat /\ Least(S) <= x /\ x <= Least(S)
  BY <1>1
<1> QED
  BY <1>2

(* The visit of a path                                                      *)
LEMMA SeenIsFound ==
  ASSUME World, NEW p \in Path, Compared(Fate, p), Linked(p, link)
  PROVE  Seen(p) = Found(Fate, p)
<1>1. CASE fs[p] = 0
  BY <1>1, FoundIs DEF Seen
<1>2. CASE fs[p] # 0
  <2> DEFINE i == fs[p]
             l == Least(Names(p, i))
  <2>1. i \in Inode
    BY <1>2, WorldIs, NodeThere
  <2>2. /\ FirstName(Fate, p) = IF Names(p, i) = {} THEN p ELSE l
        /\ Names(p, i) # {} => l # 0 /\ l # p
    BY <1>2, NamesIs
  <2>3. NLink(i) > 1 /\ node[i].type # "d" => link[i] = IF Names(p, i) = {} THEN 0 ELSE l
    BY <2>1 DEF Linked
  <2>4. /\ FirstName(Fate, p) = p => Found(Fate, p) = node[i]
        /\ FirstName(Fate, p) # p => Found(Fate, p) = HardLink(FirstName(Fate, p))
        /\ FirstName(Fate, p) # p => NLink(i) > 1 /\ node[i].type # "d"
    BY <1>2, FoundIs
  <2>5. Seen(p) = IF node[i].type # "d" /\ NLink(i) > 1 /\ link[i] # 0
                  THEN HardLink(link[i]) ELSE node[i]
    BY <1>2 DEF Seen
  <2> HIDE DEF i, l
  <2> QED
    BY <2>2, <2>3, <2>4, <2>5
<1> QED
  BY <1>1, <1>2

(* The first names, when the walk has come to one more path                 *)
LEMMA LinkedOn ==
  ASSUME World, NEW p \in Path, Linked(p, link), NEW lk,
         lk = IF /\ Compared(Fate, p) /\ fs[p] # 0 /\ node[fs[p]].type # "d"
                 /\ NLink(fs[p]) > 1 /\ link[fs[p]] = 0
              THEN [link EXCEPT ![fs[p]] = p] ELSE link
  PROVE  Linked(p + 1, lk)
<1> SUFFICES ASSUME NEW i \in Inode, NLink(i) > 1, node[i].type # "d"
             PROVE  lk[i] = IF Names(p + 1, i) = {} THEN 0 ELSE Least(Names(p + 1, i))
  BY DEF Linked
<1>1. link[i] = IF Names(p, i) = {} THEN 0 ELSE Least(Names(p, i))
  BY DEF Linked
<1>2. link \in [Inode -> Path \cup {0}] /\ Path \subseteq Nat /\ 0 \notin Path /\ i # 0
  BY WorldIs, Bounds, ObjBasics DEF TypeOK
<1>3. \A r : r \in Names(p + 1, i) <=> r \in Names(p, i) \/ (r = p /\ fs[p] = i /\ Compared(Fate, p))
  <2>1. \A r \in Path : r < p + 1 <=> r < p \/ r = p
    BY <1>2
  <2> QED
    BY <2>1, Zenon DEF Names
<1>4. CASE fs[p] = i /\ Compared(Fate, p)
  <2>1. CASE Names(p, i) = {}
    <3>1. lk[i] = p
      BY <1>1, <1>2, <1>4, <2>1
    <3>2. Names(p + 1, i) = {p}
      BY <1>3, <1>4, <2>1
    <3>3. Least({p}) = p
      BY <1>2, LeastIs
    <3> QED
      BY <3>1, <3>2, <3>3
  <2>2. CASE Names(p, i) # {}
    <3> DEFINE l == Least(Names(p, i))
    <3>1. Names(p, i) \in SUBSET Nat
      BY <1>2 DEF Names
    <3>2. l \in Names(p, i) /\ \A r \in Names(p, i) : l <= r
      BY <2>2, <3>1, LeastMember
    <3>3. link[i] = l
      BY <1>1, <2>2
    <3> HIDE DEF l
    <3>4. l \in Path /\ l < p /\ l # 0
      BY <1>2, <3>2 DEF Names
    <3>5. lk = link
      BY <1>4, <3>3, <3>4
    <3>6. Names(p + 1, i) \in SUBSET Nat /\ l \in Names(p + 1, i)
      BY <1>2, <1>3, <3>2 DEF Names
    <3>7. ASSUME NEW r \in Names(p + 1, i) PROVE l <= r
      BY <1>2, <1>3, <3>2, <3>4, <3>7
    <3>8. Least(Names(p + 1, i)) = l
      BY <3>6, <3>7, LeastIs
    <3> QED
      BY <3>3, <3>5, <3>6, <3>8
  <2> QED
    BY <2>1, <2>2
<1>5. CASE ~(fs[p] = i /\ Compared(Fate, p))
  <2>1. Names(p + 1, i) = Names(p, i)
    BY <1>3, <1>5
  <2>2. lk[i] = link[i]
    BY <1>2, <1>5
  <2> QED
    BY <1>1, <2>1, <2>2
<1> QED
  BY <1>4, <1>5

(* What the head of transcript() does to the names                          *)
LEMMA VisitIs ==
  ASSUME World, TInv, NEW p \in Path, Comes(p), NEW del \in BOOLEAN, NEW stk, Visit(p, del, stk),
         (Excluded(p) /\ ~del /\ p \notin cmd.special) <=> How(p) = "skip", Linked(p, link)
  PROVE  At(p, p + 1, pc', subj', fsMinus') /\ Linked(p + 1, link')
         /\ stack' = stk /\ subj'.path = p /\ changed' = changed /\ out' = out
<1>1. /\ stack' = stk /\ fsMinus' = FALSE /\ subj'.path = p /\ subj'.obj = Seen(p)
      /\ subj'.inode = fs[p] /\ pc' \in {"excluded", "compare"} /\ changed' = changed /\ out' = out
  BY VisitType
<1>2. Compared(Fate, p) <=> How(p) # "skip"
  BY ComparedIs
<1>3. pc' = IF How(p) = "skip" THEN "excluded" ELSE "compare"
  BY DEF Visit
<1>4. link' = IF /\ Compared(Fate, p) /\ fs[p] # 0 /\ node[fs[p]].type # "d"
                 /\ NLink(fs[p]) > 1 /\ link[fs[p]] = 0
              THEN [link EXCEPT ![fs[p]] = p] ELSE link
  BY <1>2 DEF Visit
<1>5. Linked(p + 1, link')
  BY <1>4, LinkedOn
<1>6. Compared(Fate, p) => subj'.obj = Found(Fate, p)
  BY <1>1, SeenIsFound
<1>7. Inside(p, Prefix) /\ Prefix \in Path
  BY WorldIs, Rules
<1>8. /\ p \in 1..(NPath + 1) /\ Prefix < p + 1 /\ p + 1 <= NPath + 1
  BY <1>7, PathAssumption, Bounds DEF Path
<1>9. At(p, p + 1, pc', subj', fsMinus')
  BY <1>1, <1>2, <1>3, <1>6, <1>8 DEF At
<1> QED
  BY <1>1, <1>5, <1>9

-----------------------------------------------------------------------------
(* What has been done for a path                                            *)
LEMMA EditsAppended ==
  ASSUME NEW e, NEW o \in Seq(Edit), e \in Edit
  PROVE  /\ EditsIn(e.path, Append(o, e)) = EditsIn(e.path, o) \cup {Triple(e)}
         /\ \A p : p # e.path => EditsIn(p, Append(o, e)) = EditsIn(p, o)
<1> DEFINE t == Append(o, e)
<1>1. /\ t \in Seq(Edit) /\ Len(t) = Len(o) + 1 /\ Len(o) \in Nat
      /\ \A n \in 1..Len(o) : t[n] = o[n]
      /\ t[Len(o) + 1] = e
  BY AppendProperties, LenProperties
<1>2. DOMAIN o = 1..Len(o) /\ DOMAIN t = 1..(Len(o) + 1)
  BY <1>1, LenProperties
<1> HIDE DEF t
<1>3. \A p, x : x \in { t[n] : n \in { m \in DOMAIN t : t[m].path = p } } <=>
        \/ x \in { o[n] : n \in { m \in DOMAIN o : o[m].path = p } }
        \/ x = e /\ p = e.path
  <2> SUFFICES ASSUME NEW p, NEW x
               PROVE  x \in { t[n] : n \in { m \in DOMAIN t : t[m].path = p } } <=>
                        \/ x \in { o[n] : n \in { m \in DOMAIN o : o[m].path = p } }
                        \/ x = e /\ p = e.path
    OBVIOUS
  <2>1. ASSUME NEW n \in DOMAIN t, t[n].path = p, x = t[n]
        PROVE  (\E m \in DOMAIN o : o[m].path = p /\ x = o[m]) \/ (x = e /\ p = e.path)
    <3>1. CASE n = Len(o) + 1
      BY <1>1, <2>1, <3>1
    <3>2. CASE n # Len(o) + 1
      <4>1. n \in 1..Len(o)
        BY <1>1, <1>2, <3>2
      <4> QED
        BY <1>1, <1>2, <2>1, <4>1
    <3> QED
      BY <3>1, <3>2
  <2>2. ASSUME NEW m \in DOMAIN o, o[m].path = p, x = o[m]
        PROVE  \E n \in DOMAIN t : t[n].path = p /\ x = t[n]
    <3>1. m \in DOMAIN t /\ m \in 1..Len(o)
      BY <1>1, <1>2
    <3> QED
      BY <1>1, <2>2, <3>1
  <2>3. x = e /\ p = e.path => \E n \in DOMAIN t : t[n].path = p /\ x = t[n]
    <3>1. Len(o) + 1 \in DOMAIN t
      BY <1>1, <1>2
    <3> QED
      BY <1>1, <3>1
  <2>4. x \in { t[n] : n \in { m \in DOMAIN t : t[m].path = p } } <=>
          \E n \in DOMAIN t : t[n].path = p /\ x = t[n]
    OBVIOUS
  <2>5. x \in { o[n] : n \in { m \in DOMAIN o : o[m].path = p } } <=>
          \E n \in DOMAIN o : o[n].path = p /\ x = o[n]
    OBVIOUS
  <2> QED
    BY <2>1, <2>2, <2>3, <2>4, <2>5
<1> DEFINE A(p) == { t[n] : n \in { m \in DOMAIN t : t[m].path = p } }
           B(p) == { o[n] : n \in { m \in DOMAIN o : o[m].path = p } }
<1>4. \A p : EditsIn(p, t) = { Triple(x) : x \in A(p) } /\ EditsIn(p, o) = { Triple(x) : x \in B(p) }
  BY DEF EditsIn, Triple
<1>5. \A p, x : x \in A(p) <=> x \in B(p) \/ (x = e /\ p = e.path)
  BY <1>3
<1> HIDE DEF A, B
<1>6. A(e.path) = B(e.path) \cup {e}
  BY <1>5
<1>7. { Triple(x) : x \in B(e.path) \cup {e} } = { Triple(x) : x \in B(e.path) } \cup {Triple(e)}
  OBVIOUS
<1>8. ASSUME NEW p, p # e.path PROVE A(p) = B(p)
  <2>1. \A x : x \in A(p) <=> x \in B(p)
    BY <1>5, <1>8, Zenon
  <2> QED
    BY <2>1
<1> QED
  BY <1>4, <1>6, <1>7, <1>8 DEF t

(* The transcripts move on, and no line that counts is passed               *)
LEMMA WorkSame ==
  ASSUME NEW x, NEW y, NEW lk, NEW ch, NEW o, NEW at,
         Work(x, y, pos, lk, ch, o),
         \A p \in Path : Managed(p) => (Unread(p, at) <=> Unread(p, pos))
  PROVE  Work(x, y, at, lk, ch, o)
<1>1. LinesLeft(x, at)
  BY DEF Work, LinesLeft
<1>2. \A p \in Path : Settled(x, p, at) <=> Settled(x, p, pos)
  BY DEF Settled
<1>3. Edited(x, at, o)
  BY <1>2 DEF Work, Edited
<1> QED
  BY <1>1, <1>3 DEF Work

(* A path is dealt with: its line is read, the edit printed                 *)
LEMMA WorkOn ==
  ASSUME World, NEW x \in 1..(NPath + 1), NEW z \in {x, x + 1}, NEW y, NEW p0 \in Path,
         NEW lk, NEW ch, NEW o, NEW at, NEW ch0, NEW o0,
         Work(x, y, pos, lk, ch0, o0),
         z = x + 1 => p0 = x,
         Compared(Fate, p0) \/ ~Managed(p0) => z = x + 1,
         \A p \in Path : Managed(p) /\ p # p0 => (Unread(p, at) <=> Unread(p, pos)),
         Managed(p0) => ~Unread(p0, at),
         \A p \in Path : p # p0 => EditsIn(p, o) = EditsIn(p, o0), Right(p0, o),
         EditPath = "creatable" => ch = {}, EditPath = "applicable" => ch0 \subseteq ch,
         EditPath = "applicable" /\ Compared(Fate, p0) /\ fs[p0] # 0 /\ FirstName(Fate, p0) = p0
           /\ NLink(fs[p0]) > 1 /\ node[fs[p0]].type # "d" /\ Applied(Fate, p0, FALSE) # NoEdit
           => fs[p0] \in ch
  PROVE  Work(z, y, at, lk, ch, o)
<1>1. x \in Nat /\ x + 1 \in Nat /\ Path \subseteq Nat
  BY XIs
<1>2. \A p \in Path : p # p0 => (p < x <=> p < z) /\ (x <= p <=> z <= p)
  BY <1>1
<1>3. Compared(Fate, p0) \/ ~Managed(p0) => p0 < z /\ ~(z <= p0)
  BY <1>1
<1>4. LinesLeft(z, at)
  BY <1>2, <1>3 DEF Work, LinesLeft
<1>5. Linked(y, lk)
  BY DEF Work
<1>6. Marked(z, ch)
  <2> SUFFICES ASSUME EditPath = "applicable", NEW q \in Path,
                      Compared(Fate, q), q < z, fs[q] # 0, FirstName(Fate, q) = q,
                      NLink(fs[q]) > 1, node[fs[q]].type # "d", Applied(Fate, q, FALSE) # NoEdit
               PROVE  fs[q] \in ch
    BY DEF Marked
  <2>1. CASE q = p0
    BY <2>1
  <2>2. CASE q # p0
    BY <1>2, <2>2 DEF Work, Marked
  <2> QED
    BY <2>1, <2>2
<1>7. Edited(z, at, o)
  <2> SUFFICES ASSUME NEW p \in Path PROVE IF Settled(z, p, at) THEN Right(p, o) ELSE EditsIn(p, o) = {}
    BY DEF Edited
  <2>1. CASE p = p0
    BY <1>3, <2>1 DEF Settled
  <2>2. CASE p # p0
    <3>1. IF Settled(x, p, pos) THEN Right(p, o0) ELSE EditsIn(p, o0) = {}
      BY DEF Work, Edited
    <3>2. Settled(x, p, pos) <=> Settled(z, p, at)
      BY <1>2, <2>2 DEF Settled
    <3>3. EditsIn(p, o) = EditsIn(p, o0)
      BY <2>2
    <3> QED
      BY <3>1, <3>2, <3>3 DEF Right
  <2> QED
    BY <2>1, <2>2
<1> QED
  BY <1>4, <1>5, <1>6, <1>7 DEF Work

-----------------------------------------------------------------------------
(* The stack: a frame is pushed or popped                                   *)
LEMMA FramesAre ==
  ASSUME NEW s, StackOK(s), NEW m \in DOMAIN s
  PROVE  /\ s[m] \in Frame /\ s[m].path \in Path /\ s[m].kids \subseteq Path /\ m \in Nat
         /\ s[m].kind \in {"dir", "negative"} /\ m \in 1..Len(s)
         /\ s[m].kind = "negative" => s[m].kids = {}
         /\ \A k \in s[m].kids : Parent(k) = s[m].path /\ fs[k] # 0
<1>1. s \in Seq(Frame) /\ Len(s) \in Nat /\ DOMAIN s = 1..Len(s)
  BY LenProperties DEF StackOK
<1>2. s[m] \in Frame
  BY <1>1, ElementOfSeq
<1> QED
  BY <1>1, <1>2 DEF Frame, StackOK

(* A number and the next                                                    *)
LEMMA JustBelow == \A a, x \in Nat : (a < x + 1 <=> a < x \/ a = x) /\ ~(x < x)
OBVIOUS

(* A frame fits the next place as well                                      *)
LEMMA FitsOn ==
  ASSUME NEW x \in 1..(NPath + 1), NEW y, NEW f \in Frame, Fits(x, y, f)
  PROVE  Fits(x + 1, y, f)
<1>1. x \in Nat /\ Path \subseteq Nat /\ f.path \in Path
  BY XIs DEF Frame
<1>2. f.path < x => f.path < x + 1
  BY <1>1, JustBelow
<1> QED
  BY <1>2 DEF Fits

(* The shape of a stack with one more frame                                 *)
LEMMA PushStack ==
  ASSUME NEW s, StackOK(s), NEW f \in Frame, NEW x, NEW y,
         \A m \in DOMAIN s : Fits(x, y, s[m]), Nested(s), Fits(x, y, f), Above(s, f.path)
  PROVE  LET t == <<f>> \o s
         IN  /\ \A m \in DOMAIN t : Fits(x, y, t[m])
             /\ Nested(t)
             /\ 1 \in DOMAIN t /\ t[1] = f
             /\ \A m \in DOMAIN s : m + 1 \in DOMAIN t /\ t[m + 1] = s[m]
             /\ \A m \in DOMAIN t : m = 1 \/ (m - 1 \in DOMAIN s /\ t[m] = s[m - 1] /\ m \in Nat)
<1> DEFINE t == <<f>> \o s
<1>1. s \in Seq(Frame) /\ Len(s) \in Nat /\ DOMAIN s = 1..Len(s)
  BY LenProperties DEF StackOK
<1>2. <<f>> \in Seq(Frame) /\ Len(<<f>>) = 1 /\ <<f>>[1] = f
  OBVIOUS
<1>3. /\ t \in Seq(Frame) /\ Len(t) = 1 + Len(s)
      /\ \A i \in 1..Len(t) : t[i] = IF i <= Len(<<f>>) THEN <<f>>[i] ELSE s[i - Len(<<f>>)]
  BY <1>1, <1>2, ConcatProperties
<1>4. DOMAIN t = 1..(1 + Len(s))
  BY <1>3, LenProperties
<1> HIDE DEF t
<1>5. 1 \in DOMAIN t /\ t[1] = f
  BY <1>1, <1>2, <1>3, <1>4
<1>6. \A m \in DOMAIN s : m + 1 \in DOMAIN t /\ t[m + 1] = s[m]
  BY <1>1, <1>2, <1>3, <1>4
<1>7. ASSUME NEW m \in DOMAIN t PROVE m = 1 \/ (m - 1 \in DOMAIN s /\ t[m] = s[m - 1] /\ m \in Nat)
  BY <1>1, <1>2, <1>3, <1>4
<1>8. \A m \in DOMAIN t : Fits(x, y, t[m])
  BY <1>5, <1>7
<1>9. Nested(t)
  <2> SUFFICES ASSUME NEW m \in DOMAIN t, NEW l \in 1..(m - 1)
               PROVE  t[m].path < t[l].path /\ Inside(t[l].path, t[m].path)
    BY DEF Nested
  <2>1. m # 1 /\ m - 1 \in DOMAIN s /\ t[m] = s[m - 1] /\ m \in Nat /\ l \in DOMAIN t /\ l \in Nat
    BY <1>1, <1>4, <1>7
  <2>2. CASE l = 1
    BY <1>5, <2>1, <2>2 DEF Above
  <2>3. CASE l # 1
    <3>1. l - 1 \in 1..((m - 1) - 1) /\ t[l] = s[l - 1]
      BY <1>7, <2>1, <2>3
    <3> QED
      BY <2>1, <3>1 DEF Nested
  <2> QED
    BY <2>2, <2>3
<1> QED
  BY <1>5, <1>6, <1>7, <1>8, <1>9 DEF t

(* The shape of a stack with one frame less                                 *)
LEMMA PopStack ==
  ASSUME NEW s, StackOK(s), s # <<>>, NEW x, NEW y,
         \A m \in DOMAIN s : Fits(x, y, s[m]), Nested(s)
  PROVE  /\ \A m \in DOMAIN Tail(s) : Fits(x, y, Tail(s)[m])
         /\ Nested(Tail(s))
         /\ \A m \in DOMAIN s : m # 1 => m - 1 \in DOMAIN Tail(s) /\ Tail(s)[m - 1] = s[m]
<1> DEFINE t == Tail(s)
<1>1. s \in Seq(Frame) /\ Len(s) \in Nat /\ DOMAIN s = 1..Len(s) /\ Len(s) # 0
  BY LenProperties, EmptySeq DEF StackOK
<1>2. /\ t \in Seq(Frame) /\ Len(t) = Len(s) - 1
      /\ \A i \in 1..Len(t) : t[i] = s[i + 1]
  BY <1>1, HeadTailProperties
<1>3. DOMAIN t = 1..Len(t)
  BY <1>2, LenProperties
<1> HIDE DEF t
<1>4. \A m \in DOMAIN t : m + 1 \in DOMAIN s /\ t[m] = s[m + 1] /\ m \in Nat
  BY <1>1, <1>2, <1>3
<1>5. ASSUME NEW m \in DOMAIN s, m # 1 PROVE m - 1 \in DOMAIN t /\ t[m - 1] = s[m]
  BY <1>1, <1>2, <1>3, <1>5
<1>6. Nested(t)
  <2> SUFFICES ASSUME NEW m \in DOMAIN t, NEW l \in 1..(m - 1)
               PROVE  t[m].path < t[l].path /\ Inside(t[l].path, t[m].path)
    BY DEF Nested
  <2>1. m + 1 \in DOMAIN s /\ l + 1 \in 1..((m + 1) - 1) /\ t[m] = s[m + 1]
    BY <1>4
  <2>2. l \in DOMAIN t
    BY <1>1, <1>2, <1>3
  <2>3. t[l] = s[l + 1]
    BY <1>4, <2>2
  <2> QED
    BY <2>1, <2>3 DEF Nested
<1>7. \A m \in DOMAIN t : Fits(x, y, t[m])
  BY <1>4
<1> QED
  BY <1>5, <1>6, <1>7 DEF t

(* The visit of x is over                                                   *)
LEMMA PassLeaf ==
  ASSUME World, NEW x \in Path, Prefix < x + 1, NEW s, StackOK(s), Stack(x, x + 1, s),
         How(x) \notin {"dir", "negative"}
  PROVE  Stack(x + 1, x + 1, s)
<1>1. x \in 1..(NPath + 1) /\ x \in Nat /\ Path \subseteq Nat
  BY PathAssumption DEF Path
<1>2. \A m \in DOMAIN s : Fits(x + 1, x + 1, s[m])
  BY <1>1, FramesAre, FitsOn DEF Stack
<1>3. Covered(x + 1, x + 1, s)
  <2> SUFFICES ASSUME NEW p \in Path, Comes(p), x + 1 <= p, Over(p) < x + 1
               PROVE  \E m \in DOMAIN s : s[m].path = Over(p) /\ (s[m].kind = "dir" => p \in s[m].kids)
    BY DEF Covered
  <2>1. p # Prefix /\ Inside(p, Prefix)
    BY <1>1, WorldIs, Rules, Bounds
  <2>2. Over(p) \in Path /\ How(Over(p)) \in {"dir", "negative"}
    BY <2>1, WorldIs, OverIs, Rules
  <2>3. Over(p) < x
    <3>1. Over(p) \in Nat /\ Over(p) # x
      BY <1>1, <2>2
    <3> QED
      BY <1>1, <3>1, JustBelow
  <2> QED
    BY <2>3 DEF Stack, Covered
<1> QED
  BY <1>2, <1>3 DEF Stack

(* The visit of x is over and a directory is entered                        *)
LEMMA PassInto ==
  ASSUME World, NEW x \in Path, Prefix < x + 1, NEW s, StackOK(s), Stack(x, x + 1, s), Above(s, x),
         NEW f \in Frame, f.path = x, f.kind = How(x), f.kind = "dir" => f.kids = Children(x),
         EditPath = "applicable" /\ f.kind = "dir" => (f.del <=> ~Managed(x))
  PROVE  Stack(x + 1, x + 1, <<f>> \o s)
<1> DEFINE t == <<f>> \o s
<1>1. x \in 1..(NPath + 1) /\ x \in Nat /\ Path \subseteq Nat
  BY PathAssumption DEF Path
<1>2. \A m \in DOMAIN s : Fits(x + 1, x + 1, s[m])
  BY <1>1, FramesAre, FitsOn DEF Stack
<1>3. Fits(x + 1, x + 1, f)
  <2>1. ASSUME f.kind = "dir", NEW k \in f.kids PROVE x + 1 <= k
    <3>1. k \in Path /\ Parent(k) = x
      BY <2>1 DEF Children
    <3>2. x < k
      BY <3>1, ParentAbove, PathAssumption, ObjBasics
    <3> QED
      BY <1>1, <3>1, <3>2
  <2>2. f.path < x + 1
    BY <1>1
  <2> QED
    BY <2>1, <2>2 DEF Fits
<1>4. /\ \A m \in DOMAIN t : Fits(x + 1, x + 1, t[m])
      /\ Nested(t)
      /\ 1 \in DOMAIN t /\ t[1] = f
      /\ \A m \in DOMAIN s : m + 1 \in DOMAIN t /\ t[m + 1] = s[m]
  BY <1>2, <1>3, PushStack DEF Stack
<1> HIDE DEF t
<1>5. Covered(x + 1, x + 1, t)
  <2> SUFFICES ASSUME NEW p \in Path, Comes(p), x + 1 <= p, Over(p) < x + 1
               PROVE  \E m \in DOMAIN t : t[m].path = Over(p) /\ (t[m].kind = "dir" => p \in t[m].kids)
    BY DEF Covered
  <2>1. p # Prefix /\ Inside(p, Prefix)
    BY <1>1, WorldIs, Rules, Bounds
  <2>2. Over(p) \in Path
    BY <2>1, WorldIs, OverIs
  <2>3. CASE Over(p) = x
    <3>1. f.kind = "dir" => p \in f.kids
      BY <2>1, <2>3, WorldIs, ParentIsOver
    <3> QED
      BY <1>4, <2>3, <3>1
  <2>4. CASE Over(p) # x
    <3>1. Over(p) < x
      <4>1. Over(p) \in Nat
        BY <1>1, <2>2
      <4> QED
        BY <1>1, <2>4, <4>1, JustBelow
    <3>2. PICK m \in DOMAIN s : s[m].path = Over(p) /\ (s[m].kind = "dir" => p \in s[m].kids)
      BY <3>1 DEF Stack, Covered
    <3> QED
      BY <1>4, <3>2
  <2> QED
    BY <2>3, <2>4
<1> QED
  BY <1>4, <1>5 DEF Stack, t

(* A negative directory that is not there is entered                        *)
LEMMA PushPhantom ==
  ASSUME World, NEW x, NEW s, StackOK(s), Stack(x, x, s), NEW f \in Frame,
         f.kind = "negative", Phantom(f.path), Above(s, f.path)
  PROVE  Stack(x, x, <<f>> \o s)
<1> DEFINE t == <<f>> \o s
<1>1. Fits(x, x, f)
  BY DEF Fits
<1>2. /\ \A m \in DOMAIN t : Fits(x, x, t[m])
      /\ Nested(t)
      /\ \A m \in DOMAIN s : m + 1 \in DOMAIN t /\ t[m + 1] = s[m]
  BY <1>1, PushStack DEF Stack
<1> HIDE DEF t
<1>3. Covered(x, x, t)
  <2> SUFFICES ASSUME NEW p \in Path, Comes(p), x <= p, Over(p) < x
               PROVE  \E m \in DOMAIN t : t[m].path = Over(p) /\ (t[m].kind = "dir" => p \in t[m].kids)
    BY DEF Covered
  <2>1. PICK m \in DOMAIN s : s[m].path = Over(p) /\ (s[m].kind = "dir" => p \in s[m].kids)
    BY DEF Stack, Covered
  <2> QED
    BY <1>2, <2>1
<1> QED
  BY <1>2, <1>3 DEF Stack, t

-----------------------------------------------------------------------------
(* Below a negative directory only what has been read is passed             *)
LinesBeyond ==
  \A m \in DOMAIN stack : stack[m].kind = "negative" =>
    \A r \in Readers : ~Eof(r) => stack[m].path < Cur(r).path

Goes(x, y, c, s, stk, fm, at, lk, ch, o) ==
  /\ At(x, y, c, s, fm) /\ Stack(x, y, stk)
  /\ c \in {"compare", "excluded"} => Above(stk, s.path)
  /\ Work(x, y, at, lk, ch, o)

Ready == DInv /\ World /\ LinesBeyond /\ ~Failed

(* The walk is somewhere, before and after a step                           *)
Here(x, y) == Goes(x, y, pc, subj, stack, fsMinus, pos, link, changed, out)
There(x, y) == Goes(x, y, pc', subj', stack', fsMinus', pos', link', changed', out')

(* What the invariants so far say before a step                             *)
LEMMA ReadyIs ==
  ASSUME Ready
  PROVE  World /\ Reads /\ TInv /\ TypeOK /\ StackOK(stack) /\ Loop(pc, stack) /\ SInv
         /\ Apart(stack) /\ Prefix \in Path /\ ~Failed
BY StackGood, WorldIs DEF Ready, DInv, SInv, Pending

(* The line chosen is the one that decides                                  *)
LEMMA ChosenIs ==
  ASSUME Ready, NEW r \in Readers, Chosen(r)
  PROVE  /\ Selected(r) /\ ~Eof(r) /\ Cur(r).path \in Path /\ Listing(Cur(r).path) # {}
         /\ Managed(Cur(r).path) /\ Winner(Cur(r).path) = r /\ WinLine(Cur(r).path) = Cur(r)
         /\ Unread(Cur(r).path, pos) /\ Cur(r).obj \in Obj
BY ReadyIs, SelectedWins, Lines DEF Chosen, Selected

(* The readers of lower precedence have no line that decides                *)
LEMMA PassedSame ==
  ASSUME Ready, pos' = pos \/ \E r \in Readers : Chosen(r) /\ pos' = Passed(r)
  PROVE  \A p \in Path : Managed(p) => (Unread(p, pos') <=> Unread(p, pos))
<1>1. CASE pos' = pos
  BY <1>1
<1>2. ASSUME NEW r \in Readers, Chosen(r), pos' = Passed(r), NEW p \in Path, Managed(p)
      PROVE  Unread(p, pos') <=> Unread(p, pos)
  <2>1. Selected(r) /\ Listing(p) # {} /\ Reads
    BY <1>2, ReadyIs DEF Chosen, Managed
  <2>2. Passed(r) # Consumed(r)
    BY ReadyIs, PassedType, Lines
  <2> QED
    BY <1>2, <2>1, <2>2, ReadOn
<1> QED
  BY <1>1, <1>2

(* One line that decides has been read, and no other                        *)
LEMMA ConsumedReads ==
  ASSUME Ready, NEW r \in Readers, Selected(r), pos' = Consumed(r)
  PROVE  /\ \A p \in Path : Managed(p) /\ p # Cur(r).path => (Unread(p, pos') <=> Unread(p, pos))
         /\ Cur(r).path \in Path /\ ~Unread(Cur(r).path, pos')
<1>1. Reads /\ Cur(r).path \in Path /\ Listing(Cur(r).path) # {}
  BY ReadyIs, SelectedWins
<1>2. ~Unread(Cur(r).path, pos')
  BY <1>1, ReadOn
<1>3. ASSUME NEW p \in Path, Managed(p), p # Cur(r).path PROVE Unread(p, pos') <=> Unread(p, pos)
  <2>1. Listing(p) # {}
    BY <1>3 DEF Managed
  <2> QED
    BY <1>1, <1>3, <2>1, ReadOn
<1> QED
  BY <1>1, <1>2, <1>3

(* A path that is still to be compared holds back all transcripts           *)
LEMMA Remaining ==
  ASSUME Ready, NEW x, LinesLeft(x, pos), NEW q \in Path, Managed(q), Compared(Fate, q), x <= q
  PROVE  ~AllEof /\ \A r \in Readers : Selected(r) => Cur(r).path <= q
<1>1. Unread(q, pos) /\ Listing(q) # {}
  BY DEF LinesLeft, Managed
<1> QED
  BY <1>1, ReadyIs, UnreadAhead

(* The place of the walk is a path or beyond the last                       *)
LEMMA XOnPath ==
  ASSUME NEW x, NEW y, NEW c, NEW s, NEW fm, At(x, y, c, s, fm), Prefix \in Path
  PROVE  /\ x \in 1..(NPath + 1) /\ x \in Nat /\ Path \subseteq Nat
         /\ y = x + 1 => x \in Path /\ x + 1 \in 1..(NPath + 1) /\ Prefix < x + 1
         /\ y = x => Prefix < x
         /\ y = x \/ y = x + 1
         /\ x # x + 1
BY PathAssumption DEF At, Path

(* A loop of fs_walk() or of fsdiff() goes on at any place                  *)
LEMMA ResumeAt ==
  ASSUME NEW x, Prefix < x, x \in 1..(NPath + 1), NEW c, c \notin {"excluded", "compare"}, NEW s, NEW fm
  PROVE  At(x, x, c, s, fm)
BY PathAssumption DEF At, Path

(* A line that does not count changes nothing                               *)
LEMMA GoesSkip ==
  ASSUME Ready, SelectSkip, NEW x, NEW y, Here(x, y)
  PROVE  There(x, y)
<1>1. PICK r \in Readers : Selected(r) /\ Hidden(r) /\ pos' = Consumed(r)
  BY DEF SelectSkip
<1>2. ~Managed(Cur(r).path)
  BY <1>1, ReadyIs, SelectedWins
<1>3. \A p \in Path : Managed(p) => (Unread(p, pos') <=> Unread(p, pos))
  BY <1>1, <1>2, ConsumedReads
<1>4. Work(x, y, pos', link, changed, out)
  BY <1>3, WorkSame DEF Here, Goes
<1>5. UNCHANGED <<pc, subj, stack, fsMinus, link, changed, out>>
  BY DEF SelectSkip
<1> QED
  BY <1>4, <1>5 DEF Here, There, Goes

(* Nor does the end                                                         *)
LEMMA GoesFinish ==
  ASSUME Ready, Finish, NEW x, NEW y, Here(x, y)
  PROVE  There(x, y)
<1>1. UNCHANGED <<pos, subj, stack, fsMinus, link, changed, out>> /\ pc = "drain" /\ pc' = "done"
  BY DEF Finish
<1>2. At(x, y, pc', subj, fsMinus)
  BY <1>1 DEF Here, Goes, At
<1> QED
  BY <1>1, <1>2 DEF Here, There, Goes

(* An excluded object is passed over                                        *)
LEMMA GoesExcluded ==
  ASSUME Ready, SkipExcluded, NEW x, NEW y, Here(x, y)
  PROVE  There(x + 1, x + 1)
<1>1. /\ pc = "excluded" /\ pc' = Resume(stack)
      /\ UNCHANGED <<stack, subj, fsMinus, link, changed, out>>
  BY DEF SkipExcluded
<1>2. pos' = pos \/ \E r \in Readers : Chosen(r) /\ pos' = Passed(r)
  BY DEF SkipExcluded, ChosenBeyond
<1>3. y = x + 1 /\ How(x) = "skip"
  BY <1>1 DEF Here, Goes, At
<1>4. /\ World /\ StackOK(stack) /\ x \in 1..(NPath + 1) /\ x \in Path /\ x + 1 \in 1..(NPath + 1)
      /\ Prefix < x + 1 /\ x \in Nat
  BY <1>3, ReadyIs, XOnPath DEF Here, Goes
<1>5. ~Managed(x) /\ ~Compared(Fate, x)
  BY <1>3, <1>4, ManagedStays, ComparedIs
<1>6. \A p \in Path : Managed(p) => (Unread(p, pos') <=> Unread(p, pos))
  BY <1>2, PassedSame
<1>7. Work(x, x + 1, pos, link, changed, out)
  BY <1>3 DEF Here, Goes
<1>8. EditsIn(x, out) = {}
  <2>1. ~Settled(x, x, pos)
    BY <1>4, <1>5 DEF Settled
  <2> QED
    BY <1>4, <1>7, <2>1 DEF Work, Edited
<1>9. Right(x, out)
  BY <1>4, <1>5, <1>8, NothingWanted, NoneIsRight
<1>10. EditPath = "creatable" => changed = {}
  BY <1>7 DEF Work, Marked
<1>11. Work(x + 1, x + 1, pos', link, changed, out)
  BY <1>4, <1>5, <1>6, <1>7, <1>9, <1>10, WorkOn
<1>12. Stack(x + 1, x + 1, stack)
  <2>1. Stack(x, x + 1, stack)
    BY <1>3 DEF Here, Goes
  <2> QED
    BY <1>3, <1>4, <2>1, PassLeaf
<1>13. pc' \notin {"excluded", "compare"}
  BY <1>1, <1>4, ResumeLoop
<1>14. At(x + 1, x + 1, pc', subj', fsMinus')
  BY <1>4, <1>13, ResumeAt
<1> QED
  BY <1>1, <1>11, <1>12, <1>13, <1>14 DEF There, Goes

(* A loop ends when nothing is left below its directory                     *)
LEMMA GoesReturn ==
  ASSUME Ready, Return, NEW x, NEW y, Here(x, y)
  PROVE  There(x, x)
<1>1. /\ stack' = Tail(stack) /\ pc' = Resume(Tail(stack)) /\ pc \notin {"excluded", "compare"}
      /\ UNCHANGED <<subj, fsMinus, link, changed, out>>
  BY DEF Return
<1>2. pos' = pos \/ \E r \in Readers : Chosen(r) /\ pos' = Passed(r)
  BY DEF Return, ChosenBeyond
<1>3. y = x
  BY <1>1 DEF Here, Goes, At
<1>4. World /\ StackOK(stack) /\ x \in 1..(NPath + 1) /\ Prefix < x /\ x \in Nat /\ Path \subseteq Nat
  BY <1>3, ReadyIs, XOnPath DEF Here, Goes
<1>5. stack # <<>> /\ Loop(pc, stack)
  BY ReadyIs DEF Loop, Return
<1>6. Head(stack) = stack[1] /\ 1 \in DOMAIN stack /\ StackOK(Tail(stack))
  BY <1>4, <1>5, PopFits
<1>7. Stack(x, x, stack)
  BY <1>3 DEF Here, Goes
<1>8. /\ \A m \in DOMAIN Tail(stack) : Fits(x, x, Tail(stack)[m])
      /\ Nested(Tail(stack))
      /\ \A m \in DOMAIN stack : m # 1 => m - 1 \in DOMAIN Tail(stack) /\ Tail(stack)[m - 1] = stack[m]
  BY <1>4, <1>5, <1>7, PopStack DEF Stack
<1>9. ASSUME NEW p \in Path, Comes(p), x <= p, Over(p) < x, stack[1].path = Over(p),
             stack[1].kind = "dir" => p \in stack[1].kids
      PROVE  FALSE
  <2>1. CASE pc = "walk"
    BY <1>5, <1>6, <1>9, <2>1 DEF Loop, Return
  <2>2. CASE pc = "select"
    <3>1. stack[1].kind = "negative"
      BY <1>5, <1>6, <2>2 DEF Loop
    <3> DEFINE n == stack[1].path
    <3>2. n \in Path /\ ((How(n) = "negative" /\ n < x) \/ Phantom(n))
      BY <1>4, <1>6, <1>7, <3>1, FramesAre DEF Stack, Fits
    <3>3. p # Prefix /\ Inside(p, Prefix)
      BY <1>4, <1>9, WorldIs, Rules, Bounds
    <3>4. Inside(p, n) /\ Comes(n)
      <4>1. Inside(p, Over(p)) /\ Comes(Over(p))
        BY <1>4, <3>3, WorldIs, OverIs
      <4> QED
        BY <1>9, <4>1
    <3>5. How(n) = "negative"
      BY <3>2, <3>4 DEF Phantom
    <3>6. Managed(p)
      BY <1>9, <3>3, <3>5, WorldIs, <1>4, Rules
    <3>7. Compared(Fate, p)
      BY <1>4, <1>9, <3>6, ManagedStays
    <3>8. LinesLeft(x, pos)
      BY DEF Here, Goes, Work
    <3>9. ~AllEof /\ \A r \in Readers : Selected(r) => Cur(r).path <= p
      BY <1>9, <3>6, <3>7, <3>8, Remaining
    <3>10. PICK r \in Readers : Chosen(r) /\ ~Inside(Cur(r).path, n)
      BY <1>6, <2>2, <3>9 DEF Return, ChosenBeyond
    <3>11. Cur(r).path <= p /\ ~Eof(r) /\ Cur(r).path \in Path
      BY <3>9, <3>10, ChosenIs
    <3>12. n < Cur(r).path
      BY <1>6, <3>1, <3>11 DEF Ready, LinesBeyond
    <3>13. n \in Nat /\ p \in Nat /\ Cur(r).path \in Nat /\ p \in n..Last[n] /\ Last[n] \in Nat
      BY <3>2, <3>4, <3>11, Bounds DEF Inside
    <3>14. Cur(r).path \in n..Last[n]
      BY <3>11, <3>12, <3>13
    <3> QED
      BY <3>10, <3>14 DEF Inside
  <2> QED
    BY <2>1, <2>2 DEF Return
<1>10. Covered(x, x, Tail(stack))
  <2> SUFFICES ASSUME NEW p \in Path, Comes(p), x <= p, Over(p) < x
               PROVE  \E m \in DOMAIN Tail(stack) :
                        /\ Tail(stack)[m].path = Over(p)
                        /\ Tail(stack)[m].kind = "dir" => p \in Tail(stack)[m].kids
    BY DEF Covered
  <2>1. PICK m \in DOMAIN stack : stack[m].path = Over(p) /\ (stack[m].kind = "dir" => p \in stack[m].kids)
    BY <1>7 DEF Stack, Covered
  <2>2. m # 1
    BY <1>9, <2>1
  <2> QED
    BY <1>8, <2>1, <2>2
<1>11. Work(x, x, pos', link, changed, out)
  BY <1>2, <1>3, PassedSame, WorkSame DEF Here, Goes
<1>12. pc' \notin {"excluded", "compare"}
  BY <1>1, <1>6, ResumeLoop
<1>13. At(x, x, pc', subj', fsMinus')
  BY <1>4, <1>12, ResumeAt
<1> QED
  BY <1>1, <1>8, <1>10, <1>11, <1>12, <1>13 DEF There, Goes, Stack

-----------------------------------------------------------------------------
(* What is above the path visited next                                      *)
LEMMA NestedAbove ==
  ASSUME NEW s, StackOK(s), Nested(s), s # <<>>, NEW p \in Path, s[1].path < p, Inside(p, s[1].path)
  PROVE  Above(s, p)
<1> SUFFICES ASSUME NEW m \in DOMAIN s PROVE s[m].path < p /\ Inside(p, s[m].path)
  BY DEF Above
<1>1. 1 \in DOMAIN s
  BY PopFits
<1>2. s[1].path \in Path /\ s[m].path \in Path /\ m \in Nat /\ m \in 1..Len(s)
  BY <1>1, FramesAre
<1>3. CASE m = 1
  BY <1>3
<1>4. CASE m # 1
  <2>1. 1 \in 1..(m - 1)
    BY <1>2, <1>4
  <2>2. s[m].path < s[1].path /\ Inside(s[1].path, s[m].path)
    BY <2>1 DEF Nested
  <2> DEFINE a == s[1].path
             b == s[m].path
  <2>3. a \in Path /\ b \in Path /\ b < a /\ Inside(a, b) /\ a < p /\ Inside(p, a)
    BY <1>2, <2>2
  <2> HIDE DEF a, b
  <2>4. b < p /\ Inside(p, b)
    BY <2>3, Bounds DEF Inside, Path
  <2> QED
    BY <2>4 DEF b
<1> QED
  BY <1>3, <1>4

(* The next path that the walk comes by is below the innermost frame or     *)
(* after all that is below it                                               *)
LEMMA NextInTop ==
  ASSUME World, NEW x \in 1..(NPath + 1), Prefix < x, NEW s, StackOK(s), s # <<>>, Stack(x, x, s),
         Comes(s[1].path), s[1].path < x,
         NEW z \in Path, x <= z, Comes(z), Inside(z, s[1].path)
  PROVE  \E q \in Path : /\ x <= q /\ q <= z /\ Comes(q) /\ Over(q) = s[1].path
                         /\ q # Prefix /\ Inside(q, Prefix)
                         /\ \A t \in Path : x <= t /\ t < q => ~Comes(t)
                         /\ s[1].kind = "dir" => q \in s[1].kids
<1>1. PICK q \in Path : /\ x <= q /\ q <= z /\ Comes(q) /\ q # Prefix /\ Inside(q, Prefix)
                        /\ Over(q) \in Path /\ Over(q) < x
                        /\ \A t \in Path : x <= t /\ t < q => ~Comes(t)
                        /\ \E m \in DOMAIN s : /\ s[m].path = Over(q)
                                               /\ s[m].kind = "dir" => q \in s[m].kids
  BY NextIs DEF Stack
<1>2. PICK m \in DOMAIN s : s[m].path = Over(q) /\ (s[m].kind = "dir" => q \in s[m].kids)
  BY <1>1
<1>3. 1 \in DOMAIN s
  BY PopFits
<1> DEFINE a == s[1].path
           b == Over(q)
<1>4. a \in Path /\ m \in Nat /\ m \in 1..Len(s)
  BY <1>3, FramesAre
<1>5. /\ \A r \in Path : r < q /\ Inside(q, r) /\ Comes(r) => r <= b
  BY <1>1, WorldIs, OverIs
<1>6. m = 1
  <2> SUFFICES ASSUME m # 1 PROVE FALSE
    OBVIOUS
  <2>1. 1 \in 1..(m - 1)
    BY <1>4
  <2>2. b < a
    BY <1>2, <2>1 DEF Stack, Nested
  <2>3. x \in Nat /\ Path \subseteq Nat
    BY XIs
  <2>4. a < x /\ Comes(a) /\ Inside(z, a) /\ b \in Path
    BY <1>1
  <2> HIDE DEF a, b
  <2>5. a < q /\ Inside(q, a)
    <3>1. a \in Nat /\ q \in Nat /\ z \in Nat /\ Last[a] \in Nat /\ z \in a..Last[a]
      BY <1>4, <2>3, <2>4, Bounds DEF Inside
    <3>2. x <= q /\ q <= z
      BY <1>1
    <3>3. a < q /\ q \in a..Last[a]
      BY <2>3, <2>4, <3>1, <3>2
    <3> QED
      BY <3>3 DEF Inside
  <2>6. a <= b
    BY <1>4, <1>5, <2>4, <2>5
  <2> QED
    BY <1>4, <2>2, <2>3, <2>4, <2>6
<1> QED
  BY <1>1, <1>2, <1>6

(* A frame that has lost an entry                                           *)
LEMMA SwapTop ==
  ASSUME NEW s, StackOK(s), s # <<>>, NEW x, NEW y, NEW f \in Frame, f.path = s[1].path,
         \A m \in DOMAIN s : Fits(x, y, s[m]), Nested(s), Fits(x, y, f)
  PROVE  LET t == <<f>> \o Tail(s)
         IN  /\ \A m \in DOMAIN t : Fits(x, y, t[m])
             /\ Nested(t)
             /\ 1 \in DOMAIN t /\ t[1] = f
             /\ \A m \in DOMAIN s : m # 1 => m \in DOMAIN t /\ t[m] = s[m]
             /\ \A m \in DOMAIN t : m = 1 \/ (m \in DOMAIN s /\ t[m] = s[m])
<1>1. /\ \A m \in DOMAIN Tail(s) : Fits(x, y, Tail(s)[m])
      /\ Nested(Tail(s))
      /\ \A m \in DOMAIN s : m # 1 => m - 1 \in DOMAIN Tail(s) /\ Tail(s)[m - 1] = s[m]
  BY PopStack
<1>2. /\ StackOK(Tail(s)) /\ \A m \in DOMAIN Tail(s) : m + 1 \in DOMAIN s /\ Tail(s)[m] = s[m + 1]
  BY PopFits
<1>3. Above(Tail(s), f.path)
  <2> SUFFICES ASSUME NEW m \in DOMAIN Tail(s)
               PROVE  Tail(s)[m].path < s[1].path /\ Inside(s[1].path, Tail(s)[m].path)
    BY DEF Above
  <2>1. m + 1 \in DOMAIN s /\ Tail(s)[m] = s[m + 1]
    BY <1>2
  <2>2. m \in 1..Len(Tail(s)) /\ m \in Nat
    BY <1>2, FramesAre
  <2>3. 1 \in 1..((m + 1) - 1)
    BY <2>2
  <2> QED
    BY <2>1, <2>3 DEF Nested
<1> DEFINE t == <<f>> \o Tail(s)
<1>4. /\ \A m \in DOMAIN t : Fits(x, y, t[m])
      /\ Nested(t)
      /\ 1 \in DOMAIN t /\ t[1] = f
      /\ \A m \in DOMAIN Tail(s) : m + 1 \in DOMAIN t /\ t[m + 1] = Tail(s)[m]
      /\ \A m \in DOMAIN t : m = 1 \/ (m - 1 \in DOMAIN Tail(s) /\ t[m] = Tail(s)[m - 1] /\ m \in Nat)
  BY <1>1, <1>2, <1>3, PushStack
<1> HIDE DEF t
<1>5. ASSUME NEW m \in DOMAIN s, m # 1 PROVE m \in DOMAIN t /\ t[m] = s[m]
  <2>1. m \in Nat /\ m \in 1..Len(s)
    BY FramesAre
  <2>2. m - 1 \in DOMAIN Tail(s) /\ Tail(s)[m - 1] = s[m] /\ (m - 1) + 1 = m
    BY <1>1, <1>5, <2>1
  <2> QED
    BY <1>4, <2>2
<1>6. ASSUME NEW m \in DOMAIN t, m # 1 PROVE m \in DOMAIN s /\ t[m] = s[m]
  <2>1. m - 1 \in DOMAIN Tail(s) /\ t[m] = Tail(s)[m - 1] /\ m \in Nat
    BY <1>4, <1>6
  <2>2. (m - 1) + 1 \in DOMAIN s /\ Tail(s)[m - 1] = s[(m - 1) + 1]
    BY <1>2, <2>1
  <2>3. (m - 1) + 1 = m
    BY <2>1
  <2> QED
    BY <2>1, <2>2, <2>3
<1> QED
  BY <1>4, <1>5, <1>6 DEF t

(* The frames once the visit of p, next in the innermost, has begun         *)
LEMMA FitsBegun ==
  ASSUME World, NEW x \in 1..(NPath + 1), NEW p \in Path, x <= p, NEW f \in Frame, Fits(x, x, f),
         \A k \in f.kids : p < k
  PROVE  Fits(p, p + 1, f)
<1>1. x \in Nat /\ Path \subseteq Nat /\ f.path \in Path /\ f.kids \subseteq Path
  BY XIs DEF Frame
<1>2. f.path < x => f.path < p
  <2> DEFINE a == f.path
  <2>1. a \in Nat /\ p \in Nat
    BY <1>1
  <2> HIDE DEF a
  <2>2. a < x => a < p
    BY <1>1, <2>1
  <2> QED
    BY <2>2 DEF a
<1>3. \A k \in f.kids : p + 1 <= k
  <2>1. \A k \in Nat, q \in Nat : q < k => q + 1 <= k
    OBVIOUS
  <2> QED
    BY <1>1, <2>1
<1> QED
  BY <1>2, <1>3 DEF Fits

(* The next entry is the next path that the walk comes by                   *)
LEMMA GoesWalk ==
  ASSUME Ready, WalkChild, NEW x, NEW y, Here(x, y)
  PROVE  \E p \in Path : There(p, p + 1)
<1>1. PICK p \in Path, top \in Frame :
           /\ p \in stack[1].kids /\ 1 \in DOMAIN stack /\ \A k \in stack[1].kids : p <= k
           /\ top = [stack[1] EXCEPT !.kids = @ \ {p}]
           /\ Visit(p, stack[1].del, <<top>> \o Tail(stack))
           /\ StackOK(<<top>> \o Tail(stack)) /\ StackOK(Tail(stack))
           /\ stack' = <<top>> \o Tail(stack) /\ pos' = pos
  BY ReadyIs, WalkParts
<1>2. pc = "walk" /\ y = x
  BY DEF WalkChild, Here, Goes, At
<1>3. /\ World /\ StackOK(stack) /\ x \in 1..(NPath + 1) /\ Prefix < x /\ x \in Nat
      /\ Path \subseteq Nat /\ WellFormed(fs, node) /\ Prefix \in Path
  BY <1>2, ReadyIs, WorldIs, XOnPath DEF Here, Goes
<1>4. stack # <<>> /\ stack[1].kind = "dir"
  <2>1. stack # <<>> /\ Head(stack).kind = "dir"
    BY <1>2, ReadyIs DEF Loop
  <2> QED
    BY <1>3, <2>1, PopFits
<1>5. Stack(x, x, stack) /\ Work(x, x, pos, link, changed, out)
  BY <1>2 DEF Here, Goes
<1> DEFINE a == stack[1].path
<1>6. /\ stack[1] \in Frame /\ a \in Path /\ Parent(p) = a /\ fs[p] # 0 /\ stack[1].del \in BOOLEAN
  BY <1>1, <1>3, FramesAre DEF Frame
<1>7. /\ How(a) = "dir" /\ a < x /\ x <= p
      /\ EditPath = "applicable" => (stack[1].del <=> ~Managed(a))
  BY <1>1, <1>4, <1>5 DEF Stack, Fits
<1>8. Comes(p) /\ Over(p) = a /\ a < p /\ Inside(p, a) /\ p # Prefix
  BY <1>3, <1>6, <1>7, KidComes
<1>9. \A t \in Path : x <= t /\ t < p => ~Comes(t)
  <2>1. PICK q \in Path : /\ x <= q /\ q <= p /\ Comes(q) /\ Over(q) = a
                          /\ \A t \in Path : x <= t /\ t < q => ~Comes(t)
                          /\ stack[1].kind = "dir" => q \in stack[1].kids
    <3>1. Comes(a)
      BY <1>7 DEF Comes
    <3> QED
      BY <1>3, <1>4, <1>5, <1>7, <1>8, <3>1, NextInTop
  <2>2. q = p
    BY <1>1, <1>3, <1>4, <2>1
  <2> QED
    BY <2>1, <2>2
<1>10. p \in 1..(NPath + 1)
  BY <1>3, PathAssumption DEF Path
<1>11. Covered(p, p, stack) /\ Work(p, p, pos, link, changed, out)
  BY <1>3, <1>5, <1>7, <1>9, <1>10, Advance DEF Stack
<1>12. (Excluded(p) /\ ~stack[1].del /\ p \notin cmd.special) <=> How(p) = "skip"
  <2>1. Inside(p, Prefix)
    BY <1>3, <1>8, Rules
  <2>2. How(p) = "skip" <=> /\ Excluded(p) /\ p \notin cmd.special
                            /\ ~(EditPath = "applicable" /\ ~Managed(a))
    BY <1>3, <1>7, <1>8, <2>1, Rules
  <2>3. CASE EditPath = "applicable"
    BY <1>7, <2>2, <2>3
  <2>4. CASE EditPath = "creatable"
    <3>1. ~Excluded(p)
      BY <1>3, <2>4 DEF World, Given, Excluded
    <3> QED
      BY <2>2, <3>1
  <2> QED
    BY <1>3, <2>3, <2>4, WorldIs
<1>13. Linked(p, link)
  BY <1>11 DEF Work
<1>14. /\ At(p, p + 1, pc', subj', fsMinus') /\ Linked(p + 1, link')
       /\ subj'.path = p /\ changed' = changed /\ out' = out
  <2>1. Visit(p, stack[1].del, <<top>> \o Tail(stack))
    BY <1>1
  <2>2. TInv
    BY ReadyIs
  <2> DEFINE d == stack[1].del
             k == <<top>> \o Tail(stack)
  <2>3. Visit(p, d, k) /\ d \in BOOLEAN /\ ((Excluded(p) /\ ~d /\ p \notin cmd.special) <=> How(p) = "skip")
    BY <1>6, <1>12, <2>1
  <2> HIDE DEF d, k
  <2> QED
    BY <1>3, <1>8, <1>13, <2>2, <2>3, VisitIs
<1>15. Work(p, p + 1, pos', link', changed', out')
  BY <1>1, <1>11, <1>14 DEF Work
<1>16. top.path = a /\ top.kind = "dir" /\ top.kids = stack[1].kids \ {p} /\ top.del = stack[1].del
  BY <1>1, <1>4, <1>6 DEF Frame
<1>17. Fits(p, p + 1, top)
  <2>1. Fits(x, x, top)
    BY <1>4, <1>7, <1>16, <1>1, <1>5 DEF Fits, Stack
  <2>2. \A k \in top.kids : p < k
    <3>1. stack[1].kids \subseteq Path
      BY <1>6 DEF Frame
    <3> QED
      BY <1>1, <1>3, <1>16, <3>1
  <2> QED
    BY <1>3, <1>7, <2>1, <2>2, FitsBegun
<1>18. \A m \in DOMAIN stack : Fits(p, p + 1, IF m = 1 THEN top ELSE stack[m])
  <2> SUFFICES ASSUME NEW m \in DOMAIN stack, m # 1 PROVE Fits(p, p + 1, stack[m])
    BY <1>17
  <2>1. Fits(x, x, stack[m]) /\ stack[m] \in Frame /\ m \in Nat /\ m \in 1..Len(stack)
        /\ stack[m].kids \subseteq Path
    BY <1>3, <1>5, FramesAre DEF Stack
  <2>2. ASSUME NEW k \in stack[m].kids PROVE p < k
    <3>1. Last[a] < k
      <4>1. 1 \in 1..(m - 1)
        BY <2>1
      <4> QED
        BY <4>1, ReadyIs DEF Apart
    <3>2. p <= Last[a] /\ Last[a] \in Nat /\ k \in Nat /\ p \in Nat
      BY <1>3, <1>6, <1>8, <2>1, Bounds DEF Inside
    <3> QED
      BY <3>1, <3>2
  <2> QED
    BY <1>3, <1>7, <2>1, <2>2, FitsBegun
<1> DEFINE t == <<top>> \o Tail(stack)
<1>19. /\ \A m \in DOMAIN t : Fits(p, p + 1, t[m])
       /\ Nested(t) /\ StackOK(t)
       /\ 1 \in DOMAIN t /\ t[1] = top
       /\ \A m \in DOMAIN stack : m # 1 => m \in DOMAIN t /\ t[m] = stack[m]
  <2>1. Fits(x, x, top)
    BY <1>4, <1>7, <1>16, <1>1, <1>5 DEF Fits, Stack
  <2>2. /\ Nested(t)
        /\ 1 \in DOMAIN t /\ t[1] = top
        /\ \A m \in DOMAIN stack : m # 1 => m \in DOMAIN t /\ t[m] = stack[m]
        /\ \A m \in DOMAIN t : m = 1 \/ (m \in DOMAIN stack /\ t[m] = stack[m])
    BY <1>3, <1>4, <1>5, <1>16, <2>1, SwapTop DEF Stack
  <2>3. StackOK(t)
    BY <1>1
  <2> HIDE DEF t
  <2>4. ASSUME NEW m \in DOMAIN t PROVE Fits(p, p + 1, t[m])
    <3>1. CASE m = 1
      BY <1>17, <2>2, <3>1
    <3>2. CASE m # 1
      BY <1>18, <2>2, <3>2
    <3> QED
      BY <3>1, <3>2
  <2> QED
    BY <2>2, <2>3, <2>4
<1> HIDE DEF t
<1>20. Covered(p, p + 1, t)
  <2> SUFFICES ASSUME NEW q \in Path, Comes(q), p + 1 <= q, Over(q) < p
               PROVE  \E m \in DOMAIN t :
                        t[m].path = Over(q) /\ (t[m].kind = "dir" => q \in t[m].kids)
    BY DEF Covered
  <2>1. p <= q /\ q # p
    BY <1>3
  <2>2. PICK m \in DOMAIN stack : stack[m].path = Over(q) /\ (stack[m].kind = "dir" => q \in stack[m].kids)
    BY <1>11, <2>1 DEF Covered
  <2>3. CASE m = 1
    BY <1>4, <1>16, <1>19, <2>1, <2>2, <2>3
  <2>4. CASE m # 1
    BY <1>19, <2>2, <2>4
  <2> QED
    BY <2>3, <2>4
<1>21. Above(t, p)
  <2>1. t[1].path < p /\ Inside(p, t[1].path) /\ t # <<>> /\ StackOK(t)
    BY <1>8, <1>16, <1>19
  <2> QED
    BY <1>19, <2>1, NestedAbove
<1>22. stack' = t
  BY <1>1 DEF t
<1> QED
  BY <1>14, <1>15, <1>19, <1>20, <1>21, <1>22 DEF There, Goes, Stack

-----------------------------------------------------------------------------
(* A line below a negative directory that the walk does not come by is for  *)
(* what is not there                                                        *)
LEMMA BelowNegative ==
  ASSUME World, NEW n \in Path, How(n) = "negative" \/ Phantom(n),
         NEW c \in Path, n < c, Inside(c, n), Managed(c), ~Comes(c)
  PROVE  Phantom(c)
<1>1. /\ WellFormed(fs, node) /\ Prefix \in Path /\ Listing(c) # {} /\ Inside(c, Prefix)
      /\ TypeOK /\ InOrder /\ Path \subseteq Nat
  BY WorldIs, ManagedStays, Bounds
<1>2. CASE Phantom(n)
  <2>1. fs[c] = 0
    BY <1>1, <1>2, PhantomBelow
  <2> QED
    BY <2>1 DEF Phantom
<1>3. CASE How(n) = "negative"
  <2>1. Comes(n) /\ How(n) # "skip"
    BY <1>3 DEF Comes
  <2>2. c # Prefix
    BY <1>1, Rules
  <2> DEFINE a == Over(c)
  <2>3. /\ a \in Path /\ a < c /\ Inside(c, a) /\ Comes(a) /\ n <= a
    BY <1>1, <2>1, <2>2, OverIs
  <2>4. How(a) # "negative" /\ (How(a) = "dir" => fs[c] = 0)
    BY <1>1, <2>2, Rules
  <2> HIDE DEF a
  <2>5. SUFFICES ASSUME fs[c] # 0, How(a) \in {"skip", "leaf"} PROVE FALSE
    <3>1. How(a) \in Hows /\ How(a) # "out"
      BY <1>1, <2>3, Rules DEF Comes
    <3> QED
      BY <2>4, <3>1 DEF Hows, Phantom
  <2>6. n < a /\ Inside(a, n)
    <3>1. n # a
      BY <1>3, <2>5
    <3>2. n < a
      BY <1>1, <2>3, <3>1
    <3>3. a \in Nat /\ n \in Nat /\ c \in Nat /\ Last[n] \in Nat
      BY <1>1, <2>3, Bounds
    <3>4. c <= Last[n]
      BY <3>3 DEF Inside
    <3>5. a \in n..Last[n]
      BY <2>3, <3>2, <3>3, <3>4
    <3> QED
      BY <3>2, <3>5 DEF Inside
  <2>7. fs[a] # 0 /\ node[fs[a]].type = "d"
    BY <1>1, <2>3, <2>5, AboveIsDir
  <2>8. CASE How(a) = "leaf"
    <3>1. Compared(Fate, a)
      BY <2>3, <2>8, ComparedIs
    <3> QED
      BY <2>3, <2>7, <2>8, <3>1, ShapeOfCompared
  <2>9. CASE How(a) = "skip"
    <3>1. a \in cmd.exclude \ cmd.special
      BY <1>1, <2>3, <2>9, Rules DEF Excluded
    <3>2. Compared(Fate, n)
      BY <2>1, ComparedIs
    <3>3. Managed(n) /\ ~Positive(n) /\ WinLine(n).obj.type = "d"
      BY <1>3, <3>2, ShapeOfCompared
    <3>4. /\ Winner(n) \in Readers /\ LineNo(n) \in DOMAIN Tran[Winner(n)].lines
          /\ WinLine(n) = Tran[Winner(n)].lines[LineNo(n)] /\ WinLine(n).path = n
      BY <1>1, <3>3, ManagedStays, LineIs
    <3>5. \E r \in Readers : /\ Tran[r].kind = "negative"
                             /\ \E k \in DOMAIN Tran[r].lines :
                                  /\ Tran[r].lines[k].path = n
                                  /\ Tran[r].lines[k].obj.type = "d"
      BY <3>3, <3>4 DEF Positive
    <3>6. Listing(c) = {}
      BY <2>3, <2>6, <3>1, <3>5 DEF World, Given, Sheltered
    <3> QED
      BY <1>1, <3>6
  <2> QED
    BY <2>5, <2>8, <2>9
<1> QED
  BY <1>2, <1>3

(* The next line below a negative directory is for the next path that the   *)
(* walk comes by, or for what is not there                                  *)
LEMMA GoesNegative ==
  ASSUME Ready, NegativeChild, NEW x, NEW y, Here(x, y)
  PROVE  There(x, x) \/ \E p \in Path : There(p, p + 1)
<1>1. PICK r \in Readers :
        /\ Chosen(r) /\ Inside(Cur(r).path, Head(stack).path)
        /\ Visit(Cur(r).path, Head(stack).del, stack) /\ pos' = Passed(r)
  BY DEF NegativeChild
<1>2. pc = "select" /\ y = x
  BY DEF NegativeChild, Here, Goes, At
<1>3. /\ World /\ StackOK(stack) /\ x \in 1..(NPath + 1) /\ Prefix < x /\ x \in Nat
      /\ Path \subseteq Nat /\ WellFormed(fs, node) /\ Prefix \in Path /\ TInv
  BY <1>2, ReadyIs, WorldIs, XOnPath DEF Here, Goes
<1>4. stack # <<>> /\ stack[1].kind = "negative" /\ Head(stack) = stack[1] /\ 1 \in DOMAIN stack
  <2>1. stack # <<>> /\ Head(stack).kind = "negative"
    BY <1>2, ReadyIs DEF Loop
  <2> QED
    BY <1>3, <2>1, PopFits
<1>5. Stack(x, x, stack) /\ Work(x, x, pos, link, changed, out)
  BY <1>2 DEF Here, Goes
<1> DEFINE n == stack[1].path
           p == Cur(r).path
           d == stack[1].del
<1>6. n \in Path /\ d \in BOOLEAN /\ ((How(n) = "negative" /\ n < x) \/ Phantom(n))
  BY <1>3, <1>4, <1>5, FramesAre DEF Stack, Fits, Frame
<1>7. p \in Path /\ Managed(p) /\ Unread(p, pos) /\ ~Eof(r) /\ Selected(r)
  BY <1>1, ChosenIs
<1>8. n < p /\ Inside(p, n)
  BY <1>1, <1>4, <1>7 DEF Ready, LinesBeyond
<1>9. Visit(p, d, stack)
  BY <1>1, <1>4
<1>10. \A q \in Path : Managed(q) => (Unread(q, pos') <=> Unread(q, pos))
  BY <1>1, PassedSame
<1>11. Above(stack, p)
  BY <1>3, <1>4, <1>5, <1>7, <1>8, NestedAbove DEF Stack
<1>12. ~(Excluded(p) /\ p \notin cmd.special) /\ How(p) # "skip"
  BY <1>3, <1>7, ManagedStays
<1> HIDE DEF p, n, d
<1>13. CASE ~Comes(p)
  <2>1. Phantom(p)
    BY <1>3, <1>6, <1>7, <1>8, <1>13, BelowNegative
  <2>2. /\ stack' = stack /\ fsMinus' = FALSE /\ subj'.path = p /\ subj'.obj = Seen(p)
        /\ subj'.inode = fs[p] /\ changed' = changed /\ out' = out
    BY <1>3, <1>6, <1>7, <1>9, VisitType
  <2>3. fs[p] = 0
    BY <2>1 DEF Phantom
  <2>4. pc' = "compare" /\ link' = link
    BY <1>9, <1>12, <2>3 DEF Visit
  <2>5. subj'.obj = Found(Fate, p)
    BY <2>2, <2>3 DEF Seen, Found
  <2>6. At(x, x, pc', subj', fsMinus')
    BY <1>3, <2>1, <2>2, <2>4, <2>5, PathAssumption DEF At, Path
  <2>7. Work(x, x, pos', link', changed', out')
    BY <1>5, <1>10, <2>2, <2>4, WorkSame
  <2> QED
    BY <1>5, <1>11, <2>2, <2>6, <2>7 DEF There, Goes
<1>14. CASE Comes(p)
  <2>1. Compared(Fate, p)
    BY <1>3, <1>7, <1>12, <1>14, ComparedIs
  <2>2. x <= p
    BY <1>5, <1>7, <2>1 DEF Work, LinesLeft
  <2>3. How(n) = "negative" /\ n < x
    <3>1. ~Phantom(n)
      BY <1>3, <1>6, <1>7, <1>8, <1>14, PhantomBelow
    <3> QED
      BY <1>6, <3>1
  <2>4. \A t \in Path : x <= t /\ t < p => ~Comes(t)
    <3>1. PICK q \in Path : /\ x <= q /\ q <= p /\ Comes(q) /\ Over(q) = n
                            /\ q # Prefix /\ Inside(q, Prefix)
                            /\ \A t \in Path : x <= t /\ t < q => ~Comes(t)
      <4>1. Comes(n) /\ n = stack[1].path
        BY <2>3 DEF Comes, n
      <4> QED
        BY <1>3, <1>4, <1>5, <1>7, <1>8, <1>14, <2>2, <2>3, <4>1, NextInTop
    <3>2. Managed(q)
      BY <1>3, <2>3, <3>1, Rules
    <3>3. Compared(Fate, q) /\ LinesLeft(x, pos)
      BY <1>3, <1>5, <3>1, <3>2, ManagedStays DEF Work
    <3>4. p <= q
      BY <1>7, <3>1, <3>2, <3>3, Remaining DEF p
    <3>5. p = q
      BY <1>3, <1>7, <3>1, <3>4
    <3> QED
      BY <3>1, <3>5
  <2>5. p \in 1..(NPath + 1)
    BY <1>3, <1>7, PathAssumption DEF Path
  <2>6. Covered(p, p, stack) /\ Work(p, p, pos, link, changed, out)
    BY <1>3, <1>5, <2>2, <2>4, <2>5, Advance DEF Stack
  <2>7. Linked(p, link)
    BY <2>6 DEF Work
  <2>8. /\ At(p, p + 1, pc', subj', fsMinus') /\ Linked(p + 1, link')
        /\ stack' = stack /\ subj'.path = p /\ changed' = changed /\ out' = out
    BY <1>3, <1>6, <1>7, <1>9, <1>12, <1>14, <2>7, VisitIs
  <2>9. Work(p, p + 1, pos', link', changed', out')
    <3>1. Work(p, p + 1, pos, link', changed, out)
      BY <2>6, <2>8 DEF Work
    <3> QED
      BY <1>10, <2>8, <3>1, WorkSame
  <2>10. \A m \in DOMAIN stack : Fits(p, p + 1, stack[m])
    <3> SUFFICES ASSUME NEW m \in DOMAIN stack PROVE Fits(p, p + 1, stack[m])
      OBVIOUS
    <3>1. Fits(x, x, stack[m]) /\ stack[m] \in Frame /\ m \in Nat /\ m \in 1..Len(stack)
          /\ stack[m].kids \subseteq Path
      BY <1>3, <1>5, FramesAre DEF Stack
    <3>2. ASSUME NEW k \in stack[m].kids PROVE p < k
      <4>1. m # 1
        <5>1. stack[1].kids = {}
          BY <1>3, <1>4, FramesAre
        <5> QED
          BY <3>2, <5>1
      <4>2. Last[n] < k
        <5>1. 1 \in 1..(m - 1)
          BY <3>1, <4>1
        <5> QED
          BY <5>1, ReadyIs DEF Apart, n
      <4>3. p <= Last[n] /\ Last[n] \in Nat /\ k \in Nat /\ p \in Nat
        BY <1>3, <1>6, <1>7, <1>8, <3>1, Bounds DEF Inside
      <4> QED
        BY <4>2, <4>3
    <3> QED
      BY <1>3, <1>7, <2>2, <3>1, <3>2, FitsBegun
  <2>11. Covered(p, p + 1, stack)
    <3> SUFFICES ASSUME NEW q \in Path, Comes(q), p + 1 <= q, Over(q) < p
                 PROVE  \E m \in DOMAIN stack :
                          stack[m].path = Over(q) /\ (stack[m].kind = "dir" => q \in stack[m].kids)
      BY DEF Covered
    <3>1. p <= q
      BY <1>3, <1>7
    <3> QED
      BY <2>6, <3>1 DEF Covered
  <2> QED
    BY <1>5, <1>7, <1>11, <2>8, <2>9, <2>10, <2>11 DEF There, Goes, Stack
<1> QED
  BY <1>13, <1>14

-----------------------------------------------------------------------------
(* What is printed is what is wanted                                        *)
Fetch(o) == IF o.type = "f" THEN "+" ELSE ""
WantedLine(p) ==
  [op |-> IF EditPath = "creatable" THEN "-" ELSE Fetch(WinLine(p).obj),
   path |-> p, obj |-> WinLine(p).obj]

(* The sign of an edit for a line                                           *)
LEMMA FetchIs ==
  ASSUME NEW o
  PROVE  Fetch(o) # "none"
<1>1. "" # "none" /\ "+" # "none"
  BY Zenon
<1> QED
  BY <1>1, Zenon DEF Fetch

(* What is wanted for a line of which nothing is compared                   *)
LEMMA WantedUncompared ==
  ASSUME World, NEW p \in Path, Managed(p), ~Compared(Fate, p)
  PROVE  Wanted[p] = WantedLine(p) /\ WantedLine(p) # NoEdit
<1>1. Wanted[p] = IF EditPath = "creatable" THEN Created(Fate, p)
                  ELSE Applied(Fate, p, RelinkDue(Fate, p))
  BY DEF Wanted
<1>2. Created(Fate, p) = [op |-> "-", path |-> p, obj |-> WinLine(p).obj]
  BY DEF Created
<1>3. \A b : Outcome(Fate, p, b) = "download"
  BY DEF Outcome
<1>4. Applied(Fate, p, RelinkDue(Fate, p)) = WantedEdit(Found(Fate, p), p, "download")
  BY <1>3 DEF Applied
<1>5. WantedEdit(Found(Fate, p), p, "download") =
        [op |-> Fetch(WinLine(p).obj), path |-> p, obj |-> WinLine(p).obj]
  BY DEF WantedEdit, Fetch
<1>6. Wanted[p] = WantedLine(p)
  BY <1>1, <1>2, <1>4, <1>5 DEF WantedLine
<1>7. WantedLine(p).op # "none"
  BY FetchIs DEF WantedLine
<1> QED
  BY <1>6, <1>7 DEF NoEdit

(* What T_MOVE_TRAN prints                                                  *)
LEMMA PrintedLine ==
  ASSUME Ready, NEW r \in Readers, Chosen(r), NEW flag,
         flag = "tranOnly" \/ (flag = "download" /\ subj.obj.type = "X")
  PROVE  Triple(Printed(r, flag)) = WantedLine(Cur(r).path)
<1>1. WinLine(Cur(r).path) = Cur(r)
  BY ChosenIs
<1>2. Minus(flag) <=> EditPath # "applicable"
  BY DEF Minus
<1>3. EditPath \in {"applicable", "creatable"}
  BY ReadyIs, WorldIs
<1>4. ~(Minus(flag) = (EditPath = "applicable"))
  BY <1>2 DEF Minus
<1> DEFINE e == Printed(r, flag)
           l == Cur(r)
<1>5. CASE EditPath = "applicable"
  <2>1. ~Minus(flag) /\ flag # "statusNeg" /\ flag \in {"tranOnly", "download"}
    BY <1>2, <1>5
  <2>2. e = [hdr |-> Header(r, flag), op |-> Fetch(l.obj), path |-> l.path, obj |-> l.obj]
    BY <1>4, <1>5, <2>1, Zenon DEF Printed, Fetch
  <2> HIDE DEF e, l
  <2>3. e.op = Fetch(l.obj) /\ e.path = l.path /\ e.obj = l.obj
    BY <2>2
  <2>4. Triple(e) = [op |-> Fetch(l.obj), path |-> l.path, obj |-> l.obj]
    BY <2>3 DEF Triple
  <2>5. WantedLine(l.path) = [op |-> Fetch(WinLine(l.path).obj), path |-> l.path, obj |-> WinLine(l.path).obj]
    BY <1>5 DEF WantedLine
  <2> QED
    BY <1>1, <2>4, <2>5 DEF e, l
<1>6. CASE EditPath = "creatable"
  <2>1. Minus(flag) /\ flag # "statusNeg"
    BY <1>2, <1>6
  <2>2. e = [hdr |-> Header(r, flag), op |-> "-", path |-> l.path, obj |-> l.obj]
    BY <1>4, <1>6, <2>1, Zenon DEF Printed
  <2> HIDE DEF e, l
  <2>3. e.op = "-" /\ e.path = l.path /\ e.obj = l.obj
    BY <2>2
  <2>4. Triple(e) = [op |-> "-", path |-> l.path, obj |-> l.obj]
    BY <2>3 DEF Triple
  <2>5. WantedLine(l.path) = [op |-> "-", path |-> l.path, obj |-> WinLine(l.path).obj]
    BY <1>6 DEF WantedLine
  <2> QED
    BY <1>1, <2>4, <2>5 DEF e, l
<1> QED
  BY <1>3, <1>5, <1>6

(* The edits for a path that had none                                       *)
LEMMA OneEdit ==
  ASSUME NEW p \in Path, NEW e \in Edit, out \in Seq(Edit), out' = Append(out, e), e.path = p,
         EditsIn(p, out) = {}
  PROVE  EditsIn(p, out') = {Triple(e)} /\ \A q \in Path : q # p => EditsIn(q, out') = EditsIn(q, out)
<1>1. /\ EditsIn(e.path, Append(out, e)) = EditsIn(e.path, out) \cup {Triple(e)}
      /\ \A q : q # e.path => EditsIn(q, Append(out, e)) = EditsIn(q, out)
  BY EditsAppended
<1> DEFINE o == Append(out, e)
<1>2. EditsIn(p, o) = {Triple(e)} /\ \A q \in Path : q # p => EditsIn(q, o) = EditsIn(q, out)
  BY <1>1
<1>3. out' = o
  OBVIOUS
<1> HIDE DEF o
<1> QED
  BY <1>2, <1>3

(* What is marked is added to                                               *)
LEMMA TouchIs ==
  ASSUME NEW x, NEW y, Here(x, y), changed' = Touch
  PROVE  /\ EditPath = "applicable" => changed \subseteq changed'
         /\ EditPath = "creatable" => changed' = {}
         /\ EditPath = "applicable" /\ pc = "compare" /\ subj.obj.type \notin {"d", "h", "X"}
              /\ NLink(subj.inode) > 1 => subj.inode \in changed'
<1>1. EditPath = "creatable" => changed = {}
  BY DEF Here, Goes, Work, Marked
<1> QED
  BY <1>1 DEF Touch

(* Which paths are settled before a line is read or an object dealt with    *)
LEMMA NotYet ==
  ASSUME Ready, NEW x \in Nat, NEW y, Here(x, y), NEW p \in Path,
         IF Managed(p) THEN Unread(p, pos) ELSE p = x
  PROVE  EditsIn(p, out) = {}
<1>1. ~Settled(x, p, pos)
  BY DEF Settled
<1> QED
  BY <1>1 DEF Here, Goes, Work, Edited

(* A line that the walk does not come by gets its edit                      *)
LEMMA GoesTran ==
  ASSUME Ready, TranOnly, NEW x, NEW y, Here(x, y)
  PROVE  There(x, y)
<1>1. PICK r \in Readers :
        /\ Chosen(r) /\ (pc = "compare" => Cur(r).path < subj.path) /\ TPrint(r, "tranOnly")
        /\ pos' = Consumed(r)
  BY DEF TranOnly
<1>2. /\ pc \in {"compare", "drain"} /\ pc' = pc /\ UNCHANGED <<stack, subj, link>>
  BY DEF TranOnly
<1> DEFINE p == Cur(r).path
           e == Printed(r, "tranOnly")
<1>3. p \in Path /\ Managed(p) /\ Unread(p, pos) /\ ~Eof(r) /\ Selected(r)
  BY <1>1, ChosenIs
<1>4. /\ World /\ StackOK(stack) /\ x \in 1..(NPath + 1) /\ x \in Nat
      /\ Path \subseteq Nat /\ Prefix \in Path /\ TInv /\ (y = x => Prefix < x) /\ (y = x \/ y = x + 1)
      /\ x # x + 1 /\ EditPath \in {"applicable", "creatable"}
  BY ReadyIs, WorldIs, XOnPath DEF Here, Goes
<1>5. ~Compared(Fate, p)
  <2> SUFFICES ASSUME Compared(Fate, p) PROVE FALSE
    OBVIOUS
  <2>1. Comes(p)
    BY <1>3, <1>4, ManagedStays
  <2>2. x <= p
    BY <1>3 DEF Here, Goes, Work, LinesLeft
  <2>3. CASE pc = "drain"
    <3>1. y = x /\ stack = <<>>
      BY <2>3, ReadyIs DEF Here, Goes, At, Loop
    <3>2. Covered(x, x, stack)
      BY <3>1 DEF Here, Goes, Stack
    <3>3. \E m \in DOMAIN stack : TRUE
      BY <1>3, <1>4, <2>1, <2>2, <3>1, <3>2, NextIs
    <3>4. DOMAIN stack = {}
      BY <3>1
    <3> QED
      BY <3>3, <3>4
  <2>4. CASE pc = "compare"
    <3>1. (y = x + 1 /\ subj.path = x) \/ Phantom(subj.path)
      BY <2>4 DEF Here, Goes, At
    <3>2. p < subj.path
      BY <1>1, <2>4
    <3>3. ~(y = x + 1 /\ subj.path = x)
      <4> DEFINE n == p
      <4>1. n \in Nat /\ x <= n /\ n < subj.path
        BY <1>3, <1>4, <2>2, <3>2
      <4> HIDE DEF n
      <4> QED
        BY <1>4, <4>1
    <3>4. subj.obj = Missing
      BY <2>4, <3>1, <3>3 DEF Here, Goes, At, Phantom, Found
    <3>5. PICK q \in Readers : Chosen(q) /\ Cur(q).path = subj.path
      BY <1>4, <2>4, <3>4 DEF TInv, Sought, Ready
    <3>6. q = r
      BY <1>1, <3>5, OneSelected, ReadyIs DEF Chosen
    <3>7. p \in Nat
      BY <1>3, <1>4
    <3> QED
      BY <3>2, <3>5, <3>6, <3>7
  <2> QED
    BY <1>2, <2>3, <2>4
<1>6. e \in Edit /\ e.path = p /\ out' = Append(out, e) /\ changed' = Touch
  <2>1. "tranOnly" \in Flags
    BY DEF Flags
  <2>2. e \in Edit /\ e.path = p
    BY <1>3, <1>4, <2>1, PrintedType, PathsPrinted, ReadyIs
  <2> QED
    BY <1>1, <2>2 DEF TPrint
<1>7. Triple(e) = Wanted[p] /\ Wanted[p] # NoEdit
  <2>1. Triple(e) = WantedLine(p)
    BY <1>1, PrintedLine
  <2> QED
    BY <1>3, <1>4, <1>5, <2>1, WantedUncompared
<1> HIDE DEF e
<1>8. EditsIn(p, out) = {}
  BY <1>3, <1>4, NotYet
<1>9. EditsIn(p, out') = {Triple(e)} /\ \A q \in Path : q # p => EditsIn(q, out') = EditsIn(q, out)
  <2>1. out \in Seq(Edit)
    BY ReadyIs DEF TypeOK
  <2> HIDE DEF p
  <2> QED
    BY <1>3, <1>6, <1>8, <2>1, OneEdit
<1>10. Right(p, out')
  BY <1>7, <1>9 DEF Right
<1>11. /\ \A q \in Path : Managed(q) /\ q # p => (Unread(q, pos') <=> Unread(q, pos))
       /\ ~Unread(p, pos')
  BY <1>1, <1>3, ConsumedReads
<1>12. Work(x, y, pos', link, changed', out')
  <2>1. Work(x, y, pos, link, changed, out)
    BY DEF Here, Goes
  <2>2. /\ EditPath = "applicable" => changed \subseteq changed'
        /\ EditPath = "creatable" => changed' = {}
    BY <1>6, TouchIs
  <2> DEFINE at == pos'
             o == out'
             ch == changed'
  <2>3. /\ \A q \in Path : Managed(q) /\ q # p => (Unread(q, at) <=> Unread(q, pos))
        /\ ~Unread(p, at) /\ Right(p, o)
        /\ \A q \in Path : q # p => EditsIn(q, o) = EditsIn(q, out)
        /\ EditPath = "applicable" => changed \subseteq ch
        /\ EditPath = "creatable" => ch = {}
    BY <1>9, <1>10, <1>11, <2>2
  <2> HIDE DEF p, at, o, ch
  <2>4. Work(x, y, at, link, ch, o)
    BY <1>3, <1>4, <1>5, <2>1, <2>3, WorkOn
  <2> QED
    BY <2>4 DEF at, o, ch
<1>13. At(x, y, pc', subj', fsMinus')
  <2>1. EditPath = "applicable" /\ pc = "compare" => ~fsMinus'
    <3>1. EditPath = "applicable" /\ pc = "compare" => ~fsMinus
      BY DEF Here, Goes, At
    <3>2. EditPath = "applicable" => ~Minus("tranOnly")
      BY DEF Minus
    <3> QED
      BY <1>1, <3>1, <3>2 DEF TPrint
  <2> QED
    BY <1>2, <2>1 DEF Here, Goes, At
<1> QED
  BY <1>2, <1>12, <1>13 DEF Here, There, Goes

(* The directory in hand                                                    *)
LEMMA PassDir ==
  ASSUME World, TInv, NEW x \in Path, Prefix < x + 1, Stack(x, x + 1, stack), Above(stack, x),
         subj.path = x, subj.obj = Found(Fate, x), Compared(Fate, x), How(x) # "negative",
         NEW del \in BOOLEAN, EditPath = "applicable" => (del <=> ~Managed(x))
  PROVE  Stack(x + 1, x + 1, EnterDir(del))
<1>1. subj.obj.type = "d" <=> How(x) = "dir"
  <2>1. How(x) = "dir" <=> fs[x] # 0 /\ node[fs[x]].type = "d"
    BY ShapeOfCompared
  <2>2. CASE fs[x] = 0
    BY <2>1, <2>2, FoundIs, ObjBasics
  <2>3. CASE fs[x] # 0
    BY <2>1, <2>3, FoundIs
  <2> QED
    BY <2>2, <2>3
<1>2. StackOK(stack)
  BY StackGood
<1>3. CASE How(x) = "dir"
  <2> DEFINE f == [kind |-> "dir", path |-> x, kids |-> Children(x), del |-> del]
  <2>1. f \in Frame /\ f.path = x /\ f.kind = "dir" /\ f.kids = Children(x) /\ f.del = del
    BY DEF Frame, Children
  <2>2. EnterDir(del) = <<f>> \o stack
    BY <1>1, <1>3 DEF EnterDir
  <2> HIDE DEF f
  <2> QED
    BY <1>2, <1>3, <2>1, <2>2, PassInto
<1>4. CASE How(x) # "dir"
  <2>1. EnterDir(del) = stack
    BY <1>1, <1>4 DEF EnterDir
  <2> QED
    BY <1>2, <1>4, <2>1, PassLeaf
<1> QED
  BY <1>3, <1>4

-----------------------------------------------------------------------------
(* An object that no transcript lists                                       *)
Mark == IF EditPath = "applicable" THEN "-" ELSE ""
FsLine(p) == [op |-> Mark, path |-> p, obj |-> Found(Fate, p)]

(* The sign of an edit for an object                                        *)
LEMMA MarkIs == Mark # "none"
<1>1. "" # "none" /\ "-" # "none"
  BY Zenon
<1> QED
  BY <1>1, Zenon DEF Mark

(* What is wanted for an object that no transcript decides                  *)
LEMMA WantedUnlisted ==
  ASSUME World, NEW p \in Path, ~Managed(p), Compared(Fate, p)
  PROVE  Wanted[p] = FsLine(p) /\ FsLine(p) # NoEdit
<1>1. Wanted[p] = IF EditPath = "creatable" THEN Created(Fate, p)
                  ELSE Applied(Fate, p, RelinkDue(Fate, p))
  BY DEF Wanted
<1>2. EditPath \in {"applicable", "creatable"}
  BY WorldIs
<1>3. CASE EditPath = "creatable"
  <2>1. Created(Fate, p) = [op |-> "", path |-> p, obj |-> Found(Fate, p)]
    BY Zenon DEF Created
  <2>2. Mark = ""
    BY <1>3, Zenon DEF Mark
  <2>3. Wanted[p] = FsLine(p)
    BY <1>1, <1>3, <2>1, <2>2, Zenon DEF FsLine
  <2> QED
    BY <2>3, MarkIs DEF FsLine, NoEdit
<1>4. CASE EditPath = "applicable"
  <2>1. Applied(Fate, p, RelinkDue(Fate, p)) = [op |-> "-", path |-> p, obj |-> Found(Fate, p)]
    BY DEF Applied
  <2>2. Mark = "-"
    BY <1>4, Zenon DEF Mark
  <2>3. Wanted[p] = FsLine(p)
    BY <1>1, <1>4, <2>1, <2>2 DEF FsLine
  <2> QED
    BY <2>3, MarkIs DEF FsLine, NoEdit
<1> QED
  BY <1>2, <1>3, <1>4

(* What T_MOVE_FS prints                                                    *)
LEMMA PrintedObject ==
  ASSUME Ready, subj.obj # Missing, subj.obj = Found(Fate, subj.path)
  PROVE  Triple(Printed(0, "fsOnly")) = FsLine(subj.path)
<1>1. Minus("fsOnly") = (EditPath = "applicable")
  <2>1. "fsOnly" \in Flags
    BY DEF Flags
  <2> QED
    BY <2>1, ReadyIs, PathsPrinted
<1>2. EditPath \in {"applicable", "creatable"}
  BY ReadyIs, WorldIs
<1> DEFINE e == Printed(0, "fsOnly")
           m == Minus("fsOnly")
<1>3. e = [hdr |-> Header(0, "fsOnly"), op |-> Mark, path |-> subj.path, obj |-> subj.obj]
  <2>1. "fsOnly" # "statusNeg" /\ "fsOnly" \notin {"tranOnly", "download"}
    OBVIOUS
  <2>2. CASE EditPath = "applicable"
    <3>1. m
      BY <1>1, <2>2
    <3>2. Mark = "-"
      BY <2>2, Zenon DEF Mark
    <3> QED
      BY <1>1, <2>1, <3>1, <3>2, Zenon DEF Printed
  <2>3. CASE EditPath # "applicable"
    <3>1. ~m
      BY <1>1, <2>3
    <3>2. Mark = ""
      BY <2>3, Zenon DEF Mark
    <3> QED
      BY <1>1, <2>1, <2>3, <3>1, <3>2, Zenon DEF Printed
  <2> QED
    BY <2>2, <2>3
<1> HIDE DEF e
<1>4. e.op = Mark /\ e.path = subj.path /\ e.obj = subj.obj
  BY <1>3
<1>5. Triple(e) = [op |-> Mark, path |-> subj.path, obj |-> subj.obj]
  BY <1>4 DEF Triple
<1> QED
  BY <1>5 DEF FsLine, e

(* A name that is printed marks its inode                                   *)
LEMMA Touched ==
  ASSUME Ready, NEW x \in Path, NEW y, Here(x, y), pc = "compare", Compared(Fate, x),
         subj.obj = Found(Fate, x), subj.inode = fs[x], changed' = Touch
  PROVE  EditPath = "applicable" /\ fs[x] # 0 /\ FirstName(Fate, x) = x
           /\ NLink(fs[x]) > 1 /\ node[fs[x]].type # "d" => fs[x] \in changed'
<1> SUFFICES ASSUME EditPath = "applicable", fs[x] # 0, FirstName(Fate, x) = x,
                    NLink(fs[x]) > 1, node[fs[x]].type # "d"
             PROVE  fs[x] \in changed'
  OBVIOUS
<1>1. subj.obj.type \notin {"d", "h", "X"}
  BY ReadyIs, FoundIs
<1> QED
  BY <1>1 DEF Touch

(* The one edit that is wanted is right                                     *)
LEMMA EditRight ==
  ASSUME NEW p \in Path, NEW e, NEW o, Triple(e) = Wanted[p], Wanted[p] # NoEdit,
         EditsIn(p, o) = {Triple(e)}
  PROVE  Right(p, o)
BY DEF Right

(* An object that no transcript decides gets its edit                       *)
LEMMA GoesFs ==
  ASSUME Ready, FsOnly, NEW x, NEW y, Here(x, y)
  PROVE  There(x + 1, x + 1)
<1>1. /\ pc = "compare" /\ TPrint(0, "fsOnly") /\ stack' = EnterDir(fsMinus')
      /\ pc' = Resume(stack') /\ UNCHANGED <<subj, link>>
      /\ ChosenBeyond(LAMBDA q : q > subj.path)
  BY DEF FsOnly
<1>2. TInv' /\ subj.obj # Missing
  BY FsTypes, ReadyIs
<1>3. y = x + 1 /\ subj.path = x /\ Compared(Fate, x)
      /\ subj.inode = fs[x] /\ subj.obj = Found(Fate, x) /\ fs[x] # 0
  <2>1. /\ (y = x + 1 /\ subj.path = x /\ Compared(Fate, x)) \/ (y = x /\ Phantom(subj.path))
        /\ subj.inode = fs[subj.path] /\ subj.obj = Found(Fate, subj.path)
    BY <1>1 DEF Here, Goes, At
  <2>2. fs[subj.path] # 0
    BY <1>2, <2>1 DEF Found
  <2> QED
    BY <2>1, <2>2 DEF Phantom
<1>4. /\ World /\ StackOK(stack) /\ x \in 1..(NPath + 1) /\ x \in Path /\ x + 1 \in 1..(NPath + 1)
      /\ Prefix < x + 1 /\ x \in Nat /\ x + 1 \in {x, x + 1} /\ TInv /\ Path \subseteq Nat
  BY <1>3, ReadyIs, XOnPath DEF Here, Goes
<1>5. Work(x, x + 1, pos, link, changed, out) /\ Stack(x, x + 1, stack) /\ Above(stack, x)
  BY <1>1, <1>3 DEF Here, Goes
<1>6. pos' = pos \/ \E r \in Readers : Chosen(r) /\ pos' = Passed(r)
  BY <1>1 DEF ChosenBeyond
<1>7. ~Managed(x)
  <2> SUFFICES ASSUME Managed(x) PROVE FALSE
    OBVIOUS
  <2>1. ~AllEof /\ \A r \in Readers : Selected(r) => Cur(r).path <= x
    BY <1>3, <1>4, <1>5, Remaining DEF Work
  <2>2. PICK r \in Readers : Chosen(r) /\ Cur(r).path > x
    BY <1>1, <1>3, <2>1 DEF ChosenBeyond
  <2> DEFINE n == Cur(r).path
  <2>3. n <= x /\ n > x /\ n \in Path
    BY <2>1, <2>2, ChosenIs DEF Chosen
  <2> HIDE DEF n
  <2>4. n \in Nat
    BY <1>4, <2>3
  <2> QED
    BY <1>4, <2>3, <2>4
<1>8. \A p \in Path : Managed(p) => (Unread(p, pos') <=> Unread(p, pos))
  BY <1>6, PassedSame
<1> DEFINE e == Printed(0, "fsOnly")
<1>9. e \in Edit /\ e.path = x /\ out' = Append(out, e) /\ changed' = Touch
      /\ fsMinus' = (fsMinus \/ Minus("fsOnly"))
  <2>1. "fsOnly" \in Flags
    BY DEF Flags
  <2>2. e \in Edit /\ e.path = x
    BY <1>2, <1>3, <1>4, <2>1, PrintedType, PathsPrinted DEF TInv
  <2> QED
    BY <1>1, <2>2 DEF TPrint
<1>10. Triple(e) = Wanted[x] /\ Wanted[x] # NoEdit
  <2>1. Triple(e) = FsLine(x)
    BY <1>2, <1>3, PrintedObject
  <2> QED
    BY <1>3, <1>4, <1>7, <2>1, WantedUnlisted
<1> HIDE DEF e
<1>11. EditsIn(x, out) = {}
  BY <1>4, <1>7, NotYet
<1>12. EditsIn(x, out') = {Triple(e)} /\ \A q \in Path : q # x => EditsIn(q, out') = EditsIn(q, out)
  <2>1. out \in Seq(Edit)
    BY ReadyIs DEF TypeOK
  <2> QED
    BY <1>4, <1>9, <1>11, <2>1, OneEdit
<1>13. Right(x, out')
  BY <1>10, <1>12 DEF Right
<1>14. /\ EditPath = "applicable" => changed \subseteq changed'
       /\ EditPath = "creatable" => changed' = {}
  BY <1>9, TouchIs
<1>15. EditPath = "applicable" /\ Compared(Fate, x) /\ fs[x] # 0 /\ FirstName(Fate, x) = x
         /\ NLink(fs[x]) > 1 /\ node[fs[x]].type # "d" /\ Applied(Fate, x, FALSE) # NoEdit
       => fs[x] \in changed'
  BY <1>1, <1>3, <1>4, <1>9, Touched
<1>16. Work(x + 1, x + 1, pos', link, changed', out')
  <2> DEFINE at == pos'
             o == out'
             ch == changed'
  <2>1. /\ \A q \in Path : Managed(q) /\ q # x => (Unread(q, at) <=> Unread(q, pos))
        /\ Right(x, o)
        /\ \A q \in Path : q # x => EditsIn(q, o) = EditsIn(q, out)
        /\ EditPath = "applicable" => changed \subseteq ch
        /\ EditPath = "creatable" => ch = {}
        /\ EditPath = "applicable" /\ Compared(Fate, x) /\ fs[x] # 0 /\ FirstName(Fate, x) = x
             /\ NLink(fs[x]) > 1 /\ node[fs[x]].type # "d" /\ Applied(Fate, x, FALSE) # NoEdit
             => fs[x] \in ch
    BY <1>8, <1>12, <1>13, <1>14, <1>15
  <2> HIDE DEF at, o, ch
  <2>2. Work(x + 1, x + 1, at, link, ch, o)
    BY <1>4, <1>5, <1>7, <2>1, WorkOn
  <2> QED
    BY <2>2 DEF at, o, ch
<1>17. Stack(x + 1, x + 1, stack')
  <2> DEFINE del == fsMinus'
  <2>1. del \in BOOLEAN /\ (EditPath = "applicable" => (del <=> ~Managed(x)))
    <3>1. EditPath = "applicable" => Minus("fsOnly")
      BY DEF Minus
    <3>2. del \in BOOLEAN
      BY <1>2 DEF TInv, TypeOK
    <3> QED
      BY <1>7, <1>9, <3>1, <3>2
  <2>2. How(x) # "negative"
    BY <1>3, <1>4, <1>7, ShapeOfCompared
  <2>3. stack' = EnterDir(del)
    BY <1>1
  <2> HIDE DEF del
  <2>4. Stack(x + 1, x + 1, EnterDir(del))
    BY <1>3, <1>4, <1>5, <2>1, <2>2, PassDir
  <2> QED
    BY <2>3, <2>4
<1>18. pc' \notin {"excluded", "compare"}
  <2> DEFINE s == stack'
  <2>1. StackOK(s) /\ pc' = Resume(s)
    <3>1. fsMinus' \in BOOLEAN
      BY <1>2 DEF TInv, TypeOK
    <3> QED
      BY <1>1, <1>4, <3>1, EnterFits
  <2> HIDE DEF s
  <2> QED
    BY <2>1, ResumeLoop
<1>19. At(x + 1, x + 1, pc', subj', fsMinus')
  BY <1>4, <1>18, ResumeAt
<1> QED
  BY <1>1, <1>16, <1>17, <1>18, <1>19 DEF There, Goes

-----------------------------------------------------------------------------
(* The comparison: whether a link is made again matters to links alone      *)
VerdictsAre(o, l, sure) ==
  \A b, c \in BOOLEAN :
    /\ Verdict(o, l, sure, b) \in {"same", "download", "status", "statusNeg"}
    /\ Verdict(o, l, sure, b) = "statusNeg" => EditPath = "applicable"
    /\ o.type # l.type => Verdict(o, l, sure, b) = "download"
    /\ o.type # "h" => Verdict(o, l, sure, b) = Verdict(o, l, sure, c)
    /\ \/ Verdict(o, l, sure, b) = Verdict(o, l, sure, c)
       \/ /\ o.type = "h" /\ l.type = "h"
          /\ b => Verdict(o, l, sure, b) = "status" /\ Verdict(o, l, sure, c) = "same"
          /\ c => Verdict(o, l, sure, c) = "status" /\ Verdict(o, l, sure, b) = "same"

(* The verdict, with and without the mark                                   *)
LEMMA VerdictOf ==
  ASSUME NEW o, NEW l, NEW sure \in BOOLEAN
  PROVE  VerdictsAre(o, l, sure)
BY DEF VerdictsAre, Verdict, NeedsDownload, NeedsStatus

(* A line for a path that is not compared, or where nothing is              *)
LEMMA WantedAbsent ==
  ASSUME World, NEW p \in Path, Managed(p), fs[p] = 0
  PROVE  Wanted[p] = WantedLine(p) /\ WantedLine(p) # NoEdit
<1>0. CASE ~Compared(Fate, p)
  BY <1>0, WantedUncompared
<1>1. CASE Compared(Fate, p)
  <2>1. Wanted[p] = IF EditPath = "creatable" THEN Created(Fate, p)
                    ELSE Applied(Fate, p, RelinkDue(Fate, p))
    BY DEF Wanted
  <2>2. Created(Fate, p) = [op |-> "-", path |-> p, obj |-> WinLine(p).obj]
    BY DEF Created
  <2>3. Outcome(Fate, p, RelinkDue(Fate, p)) = "download"
    <3>1. Found(Fate, p) = Missing /\ Listing(p) # {}
      BY <1>1, FoundIs, ManagedStays
    <3>2. WinLine(p).obj \in Obj
      BY <3>1, WorldIs, LineIs
    <3>3. Missing.type # WinLine(p).obj.type
      BY <3>2, ObjBasics
    <3>4. Positive(p) \in BOOLEAN /\ RelinkDue(Fate, p) \in BOOLEAN
      BY DEF Positive, RelinkDue
    <3> QED
      BY <1>1, <3>1, <3>3, <3>4, VerdictOf DEF Outcome, VerdictsAre
  <2>4. Applied(Fate, p, RelinkDue(Fate, p)) = WantedEdit(Found(Fate, p), p, "download")
    BY <2>3 DEF Applied
  <2>5. WantedEdit(Found(Fate, p), p, "download") =
          [op |-> Fetch(WinLine(p).obj), path |-> p, obj |-> WinLine(p).obj]
    BY DEF WantedEdit, Fetch
  <2>6. Wanted[p] = WantedLine(p)
    BY <2>1, <2>2, <2>4, <2>5 DEF WantedLine
  <2>7. WantedLine(p).op # "none"
    BY FetchIs DEF WantedLine
  <2> QED
    BY <2>6, <2>7 DEF NoEdit
<1> QED
  BY <1>0, <1>1

(* What is printed of an object that is there                               *)
Gets(o, flag) == IF o.type = "f" /\ flag = "download" THEN "+" ELSE ""

(* The sign of an edit for a line and an object                             *)
LEMMA GetsIs ==
  ASSUME NEW o, NEW flag
  PROVE  Gets(o, flag) # "none"
<1>1. "" # "none" /\ "+" # "none"
  BY Zenon
<1> QED
  BY <1>1, Zenon DEF Gets

WantedObj(p, flag) ==
  IF flag = "statusNeg" THEN [WinLine(p).obj EXCEPT !.mtime = Found(Fate, p).mtime]
  ELSE WinLine(p).obj

(* The edit that is wanted, field by field                                  *)
LEMMA WantedEditIs ==
  ASSUME NEW p, NEW flag
  PROVE  /\ WantedEdit(Found(Fate, p), p, flag) =
              [op |-> Gets(WinLine(p).obj, flag), path |-> p, obj |-> WantedObj(p, flag)]
         /\ WantedEdit(Found(Fate, p), p, flag) # NoEdit
<1>1. WantedEdit(Found(Fate, p), p, flag) =
        [op |-> Gets(WinLine(p).obj, flag), path |-> p, obj |-> WantedObj(p, flag)]
  BY Zenon DEF WantedEdit, Gets, WantedObj
<1> QED
  BY <1>1, GetsIs DEF NoEdit

(* What T_MOVE_BOTH prints, field by field                                  *)
LEMMA PrintedBoth ==
  ASSUME Ready, NEW r \in Readers, Chosen(r), Cur(r).path = subj.path,
         subj.obj = Found(Fate, subj.path), subj.obj # Missing,
         NEW flag \in {"download", "status", "statusNeg"}, flag = "statusNeg" => EditPath = "applicable"
  PROVE  Triple(Printed(r, flag)) = IF EditPath = "applicable"
                                    THEN WantedEdit(Found(Fate, subj.path), subj.path, flag)
                                    ELSE FsLine(subj.path)
<1>1. WinLine(subj.path) = Cur(r)
  BY ChosenIs
<1>2. subj.obj.type # "X"
  BY ReadyIs, ObjBasics DEF TypeOK, Subject
<1>3. Minus(flag) = FALSE
  BY <1>2 DEF Minus
<1> DEFINE e == Printed(r, flag)
           p == subj.path
<1>4. CASE EditPath = "applicable"
  <2>1. ~(Minus(flag) = (EditPath = "applicable"))
    BY <1>3, <1>4
  <2>2. flag \in {"tranOnly", "download"} <=> flag = "download"
    OBVIOUS
  <2>3. e = [hdr |-> Header(r, flag), op |-> Gets(Cur(r).obj, flag), path |-> Cur(r).path,
             obj |-> IF flag = "statusNeg" THEN [Cur(r).obj EXCEPT !.mtime = subj.obj.mtime]
                     ELSE Cur(r).obj]
    <3>1. CASE Cur(r).obj.type = "f" /\ flag = "download"
      BY <1>3, <1>4, <2>1, <2>2, <3>1, Zenon DEF Printed, Gets
    <3>2. CASE ~(Cur(r).obj.type = "f" /\ flag = "download")
      BY <1>3, <1>4, <2>1, <2>2, <3>2, Zenon DEF Printed, Gets
    <3> QED
      BY <3>1, <3>2
  <2> HIDE DEF e
  <2>4. e.op = Gets(WinLine(p).obj, flag) /\ e.path = p /\ e.obj = WantedObj(p, flag)
    BY <1>1, <2>3 DEF WantedObj
  <2>5. Triple(e) = [op |-> Gets(WinLine(p).obj, flag), path |-> p, obj |-> WantedObj(p, flag)]
    BY <2>4 DEF Triple
  <2> QED
    BY <1>4, <2>5, WantedEditIs DEF e
<1>5. CASE EditPath # "applicable"
  <2>1. Minus(flag) = (EditPath = "applicable")
    BY <1>3, <1>5
  <2>2. flag # "statusNeg"
    BY <1>5
  <2>3. Mark = ""
    BY <1>5, Zenon DEF Mark
  <2>4. e = [hdr |-> Header(r, flag), op |-> Mark, path |-> p, obj |-> subj.obj]
    BY <1>3, <1>5, <2>1, <2>2, <2>3, Zenon DEF Printed
  <2> HIDE DEF e
  <2>5. e.op = Mark /\ e.path = p /\ e.obj = subj.obj
    BY <2>4
  <2>6. Triple(e) = [op |-> Mark, path |-> p, obj |-> subj.obj]
    BY <2>5 DEF Triple
  <2> QED
    BY <1>5, <2>6 DEF FsLine, e
<1> QED
  BY <1>4, <1>5

-----------------------------------------------------------------------------
(* A link is made again when its file was marked, and it was if it had to be*)
LEMMA RelinkMarked ==
  ASSUME World, EditPath = "applicable", NEW x \in Path, Compared(Fate, x), fs[x] # 0,
         Marked(x, changed), RelinkDue(Fate, x)
  PROVE  fs[x] \in changed
<1> DEFINE q == FirstName(Fate, x)
<1>1. q \in Path /\ q <= x /\ fs[q] = fs[x] /\ Compared(Fate, q) /\ FirstName(Fate, q) = q
  BY FirstIs
<1>2. q # x /\ Applied(Fate, q, FALSE) # NoEdit
  BY DEF RelinkDue
<1>3. NLink(fs[x]) > 1 /\ node[fs[x]].type # "d"
  BY <1>2, FoundIs
<1> HIDE DEF q
<1>4. q < x
  BY <1>1, <1>2, Bounds
<1> QED
  BY <1>1, <1>2, <1>3, <1>4 DEF Marked

(* What T_MOVE_BOTH prints of an object that is there                       *)
LEMMA BothRight ==
  ASSUME Ready, NEW x \in Path, NEW y, Here(x, y), pc = "compare", Compared(Fate, x), fs[x] # 0,
         subj.path = x, subj.obj = Found(Fate, x), subj.inode = fs[x],
         NEW r \in Readers, Chosen(r), Cur(r).path = x, NEW flag,
         flag = Verdict(subj.obj, Cur(r).obj, Tran[r].kind # "negative", subj.inode \in changed),
         IF flag = "same" THEN NoPrint ELSE TPrint(r, flag)
  PROVE  /\ Right(x, out')
         /\ \A q \in Path : q # x => EditsIn(q, out') = EditsIn(q, out)
         /\ EditPath = "applicable" => changed \subseteq changed'
         /\ EditPath = "creatable" => changed' = {}
         /\ EditPath = "applicable" /\ Compared(Fate, x) /\ fs[x] # 0 /\ FirstName(Fate, x) = x
              /\ NLink(fs[x]) > 1 /\ node[fs[x]].type # "d" /\ Applied(Fate, x, FALSE) # NoEdit
            => fs[x] \in changed'
         /\ EditPath = "applicable" => ~fsMinus'
<1>1. /\ World /\ TInv /\ Managed(x) /\ Winner(x) = r /\ WinLine(x) = Cur(r) /\ Unread(x, pos)
      /\ Positive(x) = (Tran[r].kind # "negative") /\ ~Eof(r) /\ x \in Nat
      /\ EditPath \in {"applicable", "creatable"} /\ out \in Seq(Edit)
  BY ChosenIs, ReadyIs, WorldIs, Bounds DEF Positive, TypeOK
<1>2. subj.obj \in Obj /\ subj.obj # Missing
  BY <1>1, FoundIs
<1> DEFINE V(b) == Verdict(Found(Fate, x), WinLine(x).obj, Positive(x), b)
           c == fs[x] \in changed
           b0 == RelinkDue(Fate, x)
<1>3. flag = V(c)
  BY <1>1
<1>4. \A b \in BOOLEAN : Outcome(Fate, x, b) = V(b)
  BY DEF Outcome
<1>5. EditsIn(x, out) = {}
  BY <1>1, NotYet
<1>6. /\ b0 \in BOOLEAN /\ c \in BOOLEAN /\ Positive(x) \in BOOLEAN
      /\ FALSE \in BOOLEAN
  BY DEF RelinkDue, Positive
<1>7. /\ \A b \in BOOLEAN : /\ V(b) \in {"same", "download", "status", "statusNeg"}
                            /\ V(b) = "statusNeg" => EditPath = "applicable"
                            /\ Found(Fate, x).type # "h" => V(b) = V(c)
      /\ \/ V(b0) = V(c)
         \/ /\ Found(Fate, x).type = "h" /\ WinLine(x).obj.type = "h"
            /\ b0 => V(b0) = "status" /\ V(c) = "same"
            /\ c => V(c) = "status" /\ V(b0) = "same"
  <2> DEFINE o == Found(Fate, x)
             l == WinLine(x).obj
             u == Positive(x)
  <2> HIDE DEF o, l, u, c, b0
  <2>1. u \in BOOLEAN /\ b0 \in BOOLEAN /\ c \in BOOLEAN
    BY <1>6 DEF u, c, b0
  <2>0. VerdictsAre(o, l, u)
    BY <2>1, VerdictOf
  <2>2. \A b \in BOOLEAN : /\ Verdict(o, l, u, b) \in {"same", "download", "status", "statusNeg"}
                           /\ Verdict(o, l, u, b) = "statusNeg" => EditPath = "applicable"
                           /\ o.type # "h" => Verdict(o, l, u, b) = Verdict(o, l, u, c)
    BY <2>0, <2>1 DEF VerdictsAre
  <2>3. \/ Verdict(o, l, u, b0) = Verdict(o, l, u, c)
        \/ /\ o.type = "h" /\ l.type = "h"
           /\ b0 => Verdict(o, l, u, b0) = "status" /\ Verdict(o, l, u, c) = "same"
           /\ c => Verdict(o, l, u, c) = "status" /\ Verdict(o, l, u, b0) = "same"
    BY <2>0, <2>1 DEF VerdictsAre
  <2> QED
    BY <2>2, <2>3 DEF o, l, u
<1>8. Marked(x, changed)
  BY DEF Here, Goes, Work
<1>9. EditPath = "creatable" => c = FALSE /\ changed = {}
  BY <1>8 DEF Marked
<1>10. EditPath = "applicable" /\ b0 => c
  BY <1>1, <1>8, RelinkMarked
<1>11. EditPath = "applicable" =>
         \A b \in BOOLEAN : Applied(Fate, x, b) = IF V(b) = "same" THEN NoEdit
                                                  ELSE WantedEdit(Found(Fate, x), x, V(b))
  BY <1>1, <1>4 DEF Applied
<1>12. Wanted[x] = IF EditPath = "creatable" THEN Created(Fate, x) ELSE Applied(Fate, x, b0)
  BY DEF Wanted
<1>13. EditPath = "creatable" => Created(Fate, x) = IF V(c) = "same" THEN NoEdit ELSE FsLine(x)
  <2> SUFFICES ASSUME EditPath = "creatable"
               PROVE  Created(Fate, x) = IF V(c) = "same" THEN NoEdit ELSE FsLine(x)
    OBVIOUS
  <2>1. Mark = ""
    BY Zenon DEF Mark
  <2>2. Outcome(Fate, x, FALSE) = V(c)
    BY <1>4, <1>6, <1>9
  <2> HIDE DEF V, c
  <2>3. Created(Fate, x) = IF V(c) = "same" THEN NoEdit
                           ELSE [op |-> "", path |-> x, obj |-> Found(Fate, x)]
    BY <1>1, <2>2, Zenon DEF Created
  <2> QED
    BY <2>1, <2>3, Zenon DEF FsLine
<1>14. WantedEdit(Found(Fate, x), x, V(c)) # NoEdit /\ FsLine(x) # NoEdit
  BY WantedEditIs, MarkIs DEF FsLine, NoEdit
<1> HIDE DEF V, c, b0
<1>16. CASE flag = "same"
  <2>1. out' = out /\ changed' = changed
    BY <1>16 DEF NoPrint
  <2>2. Wanted[x] = NoEdit
    <3>1. CASE EditPath = "creatable"
      BY <1>3, <1>12, <1>13, <1>16, <3>1
    <3>2. CASE EditPath = "applicable"
      <4>1. V(b0) = "same"
        BY <1>3, <1>6, <1>7, <1>10, <1>16, <3>2
      <4> QED
        BY <1>6, <1>11, <1>12, <3>2, <4>1
    <3> QED
      BY <1>1, <3>1, <3>2
  <2>3. Right(x, out)
    BY <1>5, <2>2, NoneIsRight
  <2>4. EditPath = "applicable" /\ FirstName(Fate, x) = x => Applied(Fate, x, FALSE) = NoEdit
    BY <1>1, <1>3, <1>6, <1>7, <1>11, <1>16, FoundIs
  <2>5. EditPath = "applicable" => ~fsMinus'
    BY <1>16 DEF NoPrint, Here, Goes, At
  <2> QED
    BY <1>9, <2>1, <2>3, <2>4, <2>5
<1>17. CASE flag # "same"
  <2>1. /\ flag \in {"download", "status", "statusNeg"}
        /\ flag = "statusNeg" => EditPath = "applicable"
        /\ flag \in Flags /\ flag # "fsOnly" /\ flag # "tranOnly"
    BY <1>3, <1>6, <1>7, <1>17 DEF Flags
  <2> DEFINE e == Printed(r, flag)
  <2>2. e \in Edit /\ e.path = x /\ out' = Append(out, e) /\ changed' = Touch
        /\ fsMinus' = (fsMinus \/ Minus(flag))
    <3>1. e \in Edit /\ e.path = x
      <4>1. e.path = IF Minus(flag) = (EditPath = "applicable") THEN subj.path ELSE Cur(r).path
        BY <1>1, <2>1, PrintedType
      <4>2. e \in Edit
        BY <1>1, <2>1, PrintedType
      <4> QED
        BY <4>1, <4>2
    <3> QED
      BY <1>17, <3>1 DEF TPrint
  <2>3. Triple(e) = IF EditPath = "applicable" THEN WantedEdit(Found(Fate, x), x, V(c)) ELSE FsLine(x)
    BY <1>2, <1>3, <2>1, PrintedBoth
  <2> HIDE DEF e
  <2>4. EditsIn(x, out') = {Triple(e)} /\ \A q \in Path : q # x => EditsIn(q, out') = EditsIn(q, out)
    BY <1>1, <1>5, <2>2, OneEdit
  <2>5. Right(x, out')
    <3>1. CASE EditPath = "creatable"
      <4>1. Wanted[x] = Triple(e)
        BY <1>3, <1>12, <1>13, <1>17, <2>3, <3>1
      <4>2. Wanted[x] # NoEdit
        BY <1>14, <2>3, <3>1, <4>1
      <4> QED
        BY <2>4, <4>1, <4>2 DEF Right
    <3>2. CASE EditPath = "applicable" /\ V(b0) = V(c)
      <4>1. Wanted[x] = Triple(e)
        BY <1>3, <1>6, <1>11, <1>12, <1>17, <2>3, <3>2
      <4>2. Wanted[x] # NoEdit
        BY <1>14, <2>3, <3>2, <4>1
      <4> QED
        BY <2>4, <4>1, <4>2 DEF Right
    <3>3. CASE EditPath = "applicable" /\ V(b0) # V(c)
      <4>1. Found(Fate, x).type = "h" /\ V(c) = "status" /\ V(b0) = "same"
        BY <1>3, <1>6, <1>7, <1>10, <1>17, <3>3
      <4>2. Wanted[x] = NoEdit
        BY <1>6, <1>11, <1>12, <3>3, <4>1
      <4>3. Triple(e) = WantedEdit(Found(Fate, x), x, "status")
        BY <2>3, <3>3, <4>1
      <4> QED
        BY <2>4, <4>1, <4>2, <4>3 DEF Right
    <3> QED
      BY <1>1, <3>1, <3>2, <3>3
  <2>6. /\ EditPath = "applicable" => changed \subseteq changed'
        /\ EditPath = "creatable" => changed' = {}
    BY <2>2, TouchIs
  <2>7. EditPath = "applicable" /\ fs[x] # 0 /\ FirstName(Fate, x) = x
          /\ NLink(fs[x]) > 1 /\ node[fs[x]].type # "d" => fs[x] \in changed'
    BY <2>2, Touched
  <2>8. EditPath = "applicable" => ~fsMinus'
    <3>1. EditPath = "applicable" => ~fsMinus
      BY DEF Here, Goes, At
    <3>2. EditPath = "applicable" => ~Minus(flag)
      BY <2>1 DEF Minus
    <3> QED
      BY <2>2, <3>1, <3>2
  <2> QED
    BY <2>4, <2>5, <2>6, <2>7, <2>8
<1> QED
  BY <1>16, <1>17

-----------------------------------------------------------------------------
(* What T_MOVE_BOTH prints where nothing is                                 *)
LEMMA BothAbsent ==
  ASSUME Ready, NEW x \in Nat, NEW y, Here(x, y), pc = "compare", NEW p \in Path, fs[p] = 0,
         subj.path = p, subj.obj = Found(Fate, p),
         NEW r \in Readers, Chosen(r), Cur(r).path = p, NEW flag,
         flag = Verdict(subj.obj, Cur(r).obj, Tran[r].kind # "negative", subj.inode \in changed),
         IF flag = "same" THEN NoPrint ELSE TPrint(r, flag)
  PROVE  /\ Right(p, out')
         /\ \A q \in Path : q # p => EditsIn(q, out') = EditsIn(q, out)
         /\ EditPath = "applicable" => changed \subseteq changed'
         /\ EditPath = "creatable" => changed' = {}
         /\ EditPath = "applicable" => ~fsMinus'
         /\ subj.obj = Missing
<1>1. /\ World /\ TInv /\ Managed(p) /\ WinLine(p) = Cur(r) /\ Unread(p, pos) /\ ~Eof(r)
      /\ out \in Seq(Edit) /\ Cur(r).obj \in Obj
  BY ChosenIs, ReadyIs, WorldIs DEF TypeOK
<1>2. subj.obj = Missing /\ subj.obj.type = "X" /\ subj.obj.type # Cur(r).obj.type
  BY <1>1, ObjBasics DEF Found
<1>3. flag = "download"
  BY <1>2 DEF Verdict, NeedsDownload
<1>4. TPrint(r, flag)
  BY <1>3
<1> DEFINE e == Printed(r, flag)
<1>5. flag \in Flags
  BY <1>3 DEF Flags
<1>6. e.path = IF Minus(flag) = (EditPath = "applicable") THEN subj.path ELSE Cur(r).path
  BY <1>1, <1>3, <1>5, PrintedType
<1>7. e \in Edit /\ e.path = p
  BY <1>1, <1>3, <1>5, <1>6, PrintedType
<1>8. out' = Append(out, e) /\ changed' = Touch /\ fsMinus' = (fsMinus \/ Minus(flag))
  BY <1>4 DEF TPrint
<1>9. Triple(e) = Wanted[p] /\ Wanted[p] # NoEdit
  <2>1. Triple(e) = WantedLine(p)
    BY <1>2, <1>3, PrintedLine
  <2> QED
    BY <1>1, <2>1, WantedAbsent
<1> HIDE DEF e
<1>10. EditsIn(p, out) = {}
  BY <1>1, NotYet
<1>11. EditsIn(p, out') = {Triple(e)} /\ \A q \in Path : q # p => EditsIn(q, out') = EditsIn(q, out)
  BY <1>1, <1>7, <1>8, <1>10, OneEdit
<1>12. Right(p, out')
  BY <1>9, <1>11 DEF Right
<1>13. /\ EditPath = "applicable" => changed \subseteq changed'
       /\ EditPath = "creatable" => changed' = {}
  BY <1>8, TouchIs
<1>14. EditPath = "applicable" => ~fsMinus'
  <2>1. EditPath = "applicable" => ~fsMinus
    BY DEF Here, Goes, At
  <2>2. EditPath = "applicable" => ~Minus(flag)
    BY <1>3 DEF Minus
  <2> QED
    BY <1>8, <2>1, <2>2
<1> QED
  BY <1>2, <1>11, <1>12, <1>13, <1>14

(* The work that is done with the line for p                                *)
LEMMA BothWork ==
  ASSUME Ready, NEW x, NEW y, Here(x, y), pc = "compare", NEW p \in Path, subj.path = p,
         (y = x + 1 /\ p = x /\ Compared(Fate, x)) \/ (y = x /\ Phantom(p)),
         subj.obj = Found(Fate, p), subj.inode = fs[p],
         NEW r \in Readers, Chosen(r), Cur(r).path = p, NEW flag,
         flag = Verdict(subj.obj, Cur(r).obj, Tran[r].kind # "negative", subj.inode \in changed),
         IF flag = "same" THEN NoPrint ELSE TPrint(r, flag),
         pos' = Consumed(r), link' = link
  PROVE  /\ Work(y, y, pos', link', changed', out')
         /\ EditPath = "applicable" => ~fsMinus'
         /\ y = x => subj.obj = Missing
<1>1. /\ World /\ x \in 1..(NPath + 1) /\ x \in Nat /\ y \in {x, x + 1} /\ Managed(p)
      /\ x # x + 1 /\ Selected(r)
  BY ReadyIs, XOnPath, ChosenIs DEF Here, Goes
<1>2. /\ Right(p, out')
      /\ \A q \in Path : q # p => EditsIn(q, out') = EditsIn(q, out)
      /\ EditPath = "applicable" => changed \subseteq changed'
      /\ EditPath = "creatable" => changed' = {}
      /\ EditPath = "applicable" /\ Compared(Fate, p) /\ fs[p] # 0 /\ FirstName(Fate, p) = p
           /\ NLink(fs[p]) > 1 /\ node[fs[p]].type # "d" /\ Applied(Fate, p, FALSE) # NoEdit
         => fs[p] \in changed'
      /\ EditPath = "applicable" => ~fsMinus'
      /\ y = x => subj.obj = Missing
  <2>1. CASE fs[p] = 0
    BY <1>1, <2>1, BothAbsent
  <2>2. CASE fs[p] # 0
    <3>1. p = x /\ y = x + 1 /\ Compared(Fate, x)
      BY <2>2 DEF Phantom
    <3> QED
      BY <1>1, <2>2, <3>1, BothRight
  <2> QED
    BY <2>1, <2>2
<1>3. /\ \A q \in Path : Managed(q) /\ q # p => (Unread(q, pos') <=> Unread(q, pos))
      /\ ~Unread(p, pos')
  BY <1>1, ConsumedReads
<1>4. Work(x, y, pos, link, changed, out)
  BY DEF Here, Goes
<1>5. /\ y = x + 1 => p = x
      /\ Compared(Fate, p) \/ ~Managed(p) => y = x + 1
  BY <1>1, ManagedStays DEF Phantom
<1> DEFINE at == pos'
           o == out'
           ch == changed'
<1>6. /\ \A q \in Path : Managed(q) /\ q # p => (Unread(q, at) <=> Unread(q, pos))
      /\ ~Unread(p, at) /\ Right(p, o)
      /\ \A q \in Path : q # p => EditsIn(q, o) = EditsIn(q, out)
      /\ EditPath = "applicable" => changed \subseteq ch
      /\ EditPath = "creatable" => ch = {}
      /\ EditPath = "applicable" /\ Compared(Fate, p) /\ fs[p] # 0 /\ FirstName(Fate, p) = p
           /\ NLink(fs[p]) > 1 /\ node[fs[p]].type # "d" /\ Applied(Fate, p, FALSE) # NoEdit
         => fs[p] \in ch
  BY <1>2, <1>3
<1> HIDE DEF at, o, ch
<1>7. Work(y, y, at, link, ch, o)
  BY <1>1, <1>4, <1>5, <1>6, WorkOn
<1> QED
  BY <1>2, <1>7 DEF at, o, ch

(* An object that a transcript decides gets its edit, if it needs one       *)
LEMMA GoesBoth ==
  ASSUME Ready, Both, NEW x, NEW y, Here(x, y)
  PROVE  There(y, y)
<1>1. PICK r \in Readers :
        LET l    == Cur(r).obj
            flag == Verdict(subj.obj, l, Tran[r].kind # "negative", subj.inode \in changed)
            neg  == [kind |-> "negative", path |-> subj.path, kids |-> {}, del |-> subj.del]
        IN  /\ Chosen(r) /\ Cur(r).path = subj.path
            /\ IF flag = "same" THEN NoPrint ELSE TPrint(r, flag)
            /\ stack' = IF Tran[r].kind = "negative" /\ l.type = "d"
                        THEN <<neg>> \o stack ELSE EnterDir(fsMinus')
            /\ pos' = Consumed(r)
            /\ pc' = Resume(stack')
  BY DEF Both
<1> DEFINE p == subj.path
           flag == Verdict(subj.obj, Cur(r).obj, Tran[r].kind # "negative", subj.inode \in changed)
           neg == [kind |-> "negative", path |-> p, kids |-> {}, del |-> subj.del]
<1>2. pc = "compare" /\ UNCHANGED <<subj, link>>
  BY DEF Both
<1>3. /\ Chosen(r) /\ Cur(r).path = p /\ pos' = Consumed(r) /\ pc' = Resume(stack')
      /\ IF flag = "same" THEN NoPrint ELSE TPrint(r, flag)
      /\ stack' = IF Tran[r].kind = "negative" /\ Cur(r).obj.type = "d"
                  THEN <<neg>> \o stack ELSE EnterDir(fsMinus')
  BY <1>1
<1>4. neg \in Frame /\ neg.path = p /\ neg.kind = "negative" /\ neg.kids = {} /\ p \in Path
  BY ReadyIs DEF Frame, TypeOK, Subject
<1> HIDE DEF flag, neg
<1>5. /\ World /\ TInv /\ StackOK(stack) /\ x \in 1..(NPath + 1) /\ y \in {x, x + 1} /\ x # x + 1
      /\ y = x => Prefix < x
      /\ y = x + 1 => x \in Path /\ x + 1 \in 1..(NPath + 1) /\ Prefix < x + 1
  BY ReadyIs, XOnPath DEF Here, Goes
<1>6. /\ (y = x + 1 /\ p = x /\ Compared(Fate, x)) \/ (y = x /\ Phantom(p))
      /\ subj.inode = fs[p] /\ subj.obj = Found(Fate, p)
      /\ Above(stack, p) /\ Stack(x, y, stack)
  BY <1>2 DEF Here, Goes, At
<1>7. /\ Work(y, y, pos', link', changed', out')
      /\ EditPath = "applicable" => ~fsMinus'
      /\ y = x => subj.obj = Missing
  BY <1>2, <1>3, <1>4, <1>6, BothWork DEF flag
<1>8. Managed(p) /\ Positive(p) = (Tran[r].kind # "negative") /\ WinLine(p) = Cur(r)
  BY <1>3, ChosenIs DEF Positive
<1>9. TInv' /\ fsMinus' \in BOOLEAN
  BY ReadyIs, BothTypes DEF TInv, TypeOK
<1>10. Stack(y, y, stack') /\ StackOK(stack')
  <2>1. CASE Tran[r].kind = "negative" /\ Cur(r).obj.type = "d"
    <3>1. stack' = <<neg>> \o stack
      BY <1>3, <2>1
    <3>2. StackOK(<<neg>> \o stack)
      BY <1>4, <1>5, PushFits
    <3>3. CASE y = x
      <4>1. Phantom(p)
        BY <1>5, <1>6, <3>3
      <4> QED
        BY <1>4, <1>5, <1>6, <3>1, <3>2, <3>3, <4>1, PushPhantom
    <3>4. CASE y = x + 1
      <4>1. p = x /\ Compared(Fate, x)
        BY <1>5, <1>6, <3>4
      <4>2. How(x) = "negative"
        BY <1>5, <1>8, <2>1, <3>4, <4>1, ShapeOfCompared
      <4>3. Stack(x + 1, x + 1, <<neg>> \o stack)
        BY <1>4, <1>5, <1>6, <3>4, <4>1, <4>2, PassInto
      <4> QED
        BY <3>1, <3>2, <3>4, <4>3
    <3> QED
      BY <1>5, <3>3, <3>4
  <2>2. CASE ~(Tran[r].kind = "negative" /\ Cur(r).obj.type = "d")
    <3> DEFINE del == fsMinus'
    <3>1. stack' = EnterDir(del) /\ del \in BOOLEAN /\ (EditPath = "applicable" => ~del)
      BY <1>3, <1>7, <1>9, <2>2
    <3> HIDE DEF del
    <3>2. StackOK(EnterDir(del))
      BY <1>5, <3>1, EnterFits
    <3>3. CASE y = x
      <4>1. subj.obj.type # "d"
        BY <1>7, <3>3, ObjBasics
      <4> QED
        BY <1>6, <3>1, <3>2, <3>3, <4>1 DEF EnterDir
    <3>4. CASE y = x + 1
      <4>1. p = x /\ Compared(Fate, x)
        BY <1>5, <1>6, <3>4
      <4>2. How(x) # "negative"
        BY <1>5, <1>8, <2>2, <3>4, <4>1, ShapeOfCompared
      <4>3. Stack(x + 1, x + 1, EnterDir(del))
        BY <1>5, <1>6, <1>8, <3>1, <3>4, <4>1, <4>2, PassDir
      <4> QED
        BY <3>1, <3>2, <3>4, <4>3
    <3> QED
      BY <1>5, <3>3, <3>4
  <2> QED
    BY <2>1, <2>2
<1>11. pc' \notin {"excluded", "compare"}
  <2> DEFINE s == stack'
  <2>1. StackOK(s) /\ pc' = Resume(s)
    BY <1>3, <1>10
  <2> HIDE DEF s
  <2> QED
    BY <2>1, ResumeLoop
<1>12. At(y, y, pc', subj', fsMinus')
  <2>1. y \in 1..(NPath + 1) /\ Prefix < y
    BY <1>5
  <2> QED
    BY <1>11, <2>1, ResumeAt
<1> QED
  BY <1>7, <1>10, <1>11, <1>12 DEF There, Goes

-----------------------------------------------------------------------------
(* What is wanted depends on the tree, the command file and the options     *)
(* alone, and these stay                                                    *)
T(f, n, c, o) == INSTANCE TreeDiff WITH fs <- f, node <- n, cmd <- c, opt <- o

FoundAt(p)   == Found(Fate, p)
FirstAt(p)   == FirstName(Fate, p)
AppliedTo(p) == Applied(Fate, p, FALSE)
Again(p)     == WantedEdit(Found(Fate, p), p, "status")

(* The lines that decide                                                    *)
LEMMA ToldLines ==
  /\ \A p : Managed(p) = T(fs, node, cmd, opt)!Managed(p)
  /\ \A p : Winner(p) = T(fs, node, cmd, opt)!Winner(p)
  /\ \A p : WinLine(p) = T(fs, node, cmd, opt)!WinLine(p)
  /\ \A p : Positive(p) = T(fs, node, cmd, opt)!Positive(p)
BY DEF Managed, Inside, Listing, WinLine, Winner, Positive, Excluded, Tran, Prefix, Readers, Least,
       T!Managed, T!Inside, T!Listing, T!WinLine, T!Winner, T!Positive, T!Excluded, T!Tran, T!Prefix,
       T!Readers, T!Least

(* The walk                                                                 *)
LEMMA ToldFate == Fate = T(fs, node, cmd, opt)!Fate
BY DEF Fate, FateAfter, EditPath, Positive, Path, T!Fate, T!FateAfter, T!EditPath, T!Positive, T!Path,
       Managed, Inside, Listing, WinLine, Winner, Excluded, Tran, Prefix, Readers, Least,
       T!Managed, T!Inside, T!Listing, T!WinLine, T!Winner, T!Excluded, T!Tran, T!Prefix,
       T!Readers, T!Least

(* The comparison                                                           *)
LEMMA ToldVerdict ==
  \A o, l, u, b : Verdict(o, l, u, b) = T(fs, node, cmd, opt)!Verdict(o, l, u, b)
BY DEF Verdict, NeedsDownload, NeedsStatus, AttrDiffer, EditPath, Cksum, IgnoreTimestamps,
       T!Verdict, T!NeedsDownload, T!NeedsStatus, T!AttrDiffer, T!EditPath, T!Cksum, T!IgnoreTimestamps

(* What is found                                                            *)
LEMMA ToldFound ==
  /\ \A w, p : Compared(w, p) = T(fs, node, cmd, opt)!Compared(w, p)
  /\ \A w, p : FirstName(w, p) = T(fs, node, cmd, opt)!FirstName(w, p)
  /\ \A w, p : Found(w, p) = T(fs, node, cmd, opt)!Found(w, p)
BY DEF Compared, FirstName, Found, HardLink, Missing, Least,
       T!Compared, T!FirstName, T!Found, T!HardLink, T!Missing, T!Least

(* The edits                                                                *)
LEMMA ToldEdit ==
  /\ \A f, p, flag : WantedEdit(f, p, flag) = T(fs, node, cmd, opt)!WantedEdit(f, p, flag)
  /\ NoEdit = T(fs, node, cmd, opt)!NoEdit
<1> USE DEF WantedEdit, T!WantedEdit, NoEdit, T!NoEdit, Missing, T!Missing, Listing, WinLine, Winner,
            Tran, Readers, Least, T!Listing, T!WinLine, T!Winner, T!Tran, T!Readers, T!Least
<1>1. \A f, p, flag : WantedEdit(f, p, flag) = T(fs, node, cmd, opt)!WantedEdit(f, p, flag)
  OBVIOUS
<1>2. NoEdit = T(fs, node, cmd, opt)!NoEdit
  OBVIOUS
<1> HIDE DEF WantedEdit, T!WantedEdit, NoEdit, T!NoEdit
<1> QED
  BY <1>1, <1>2

(* The edits for -A                                                         *)
LEMMA ToldApplied ==
  /\ \A w, p, b : Outcome(w, p, b) = T(fs, node, cmd, opt)!Outcome(w, p, b)
  /\ \A w, p, b : Applied(w, p, b) = T(fs, node, cmd, opt)!Applied(w, p, b)
  /\ \A w, p : RelinkDue(w, p) = T(fs, node, cmd, opt)!RelinkDue(w, p)
<1>1. \A w, p, b : Outcome(w, p, b) = T(fs, node, cmd, opt)!Outcome(w, p, b)
  BY ToldLines, ToldVerdict, ToldFound DEF Outcome, T!Outcome
<1>2. ASSUME NEW w, NEW p, NEW b
      PROVE  Applied(w, p, b) = T(fs, node, cmd, opt)!Applied(w, p, b)
  <2> DEFINE d == [op |-> "-", path |-> p, obj |-> Found(w, p)]
  <2>1. Applied(w, p, b) = IF Managed(p)
          THEN IF Outcome(w, p, b) = "same" THEN NoEdit ELSE WantedEdit(Found(w, p), p, Outcome(w, p, b))
          ELSE IF Compared(w, p) THEN d ELSE NoEdit
    BY Zenon DEF Applied
  <2> DEFINE M == T(fs, node, cmd, opt)!Managed(p)
             O == T(fs, node, cmd, opt)!Outcome(w, p, b)
             C == T(fs, node, cmd, opt)!Compared(w, p)
             F == T(fs, node, cmd, opt)!Found(w, p)
  <2>2. T(fs, node, cmd, opt)!Applied(w, p, b) = IF M
          THEN IF O = "same" THEN T(fs, node, cmd, opt)!NoEdit
               ELSE T(fs, node, cmd, opt)!WantedEdit(F, p, O)
          ELSE IF C THEN [op |-> "-", path |-> p, obj |-> F] ELSE T(fs, node, cmd, opt)!NoEdit
    BY Zenon DEF T!Applied
  <2>3. M = Managed(p) /\ O = Outcome(w, p, b) /\ C = Compared(w, p) /\ F = Found(w, p)
    BY <1>1, ToldLines, ToldFound
  <2>4. T(fs, node, cmd, opt)!WantedEdit(F, p, O) = WantedEdit(F, p, O)
    BY ToldEdit
  <2> DEFINE N == T(fs, node, cmd, opt)!NoEdit
             W == T(fs, node, cmd, opt)!WantedEdit(F, p, O)
             A == T(fs, node, cmd, opt)!Applied(w, p, b)
  <2>5. A = IF M THEN IF O = "same" THEN N ELSE W
            ELSE IF C THEN [op |-> "-", path |-> p, obj |-> F] ELSE N
    BY <2>2
  <2>6. N = NoEdit /\ W = WantedEdit(F, p, O)
    BY <2>4, ToldEdit
  <2> HIDE DEF M, O, C, F, N, W, A, d
  <2>7. d = [op |-> "-", path |-> p, obj |-> Found(w, p)]
    BY DEF d
  <2>8. A = Applied(w, p, b)
    BY <2>1, <2>3, <2>5, <2>6, <2>7
  <2> QED
    BY <2>8 DEF A
<1>3. \A w, p : RelinkDue(w, p) = T(fs, node, cmd, opt)!RelinkDue(w, p)
  BY <1>2, ToldFound, ToldEdit DEF RelinkDue, T!RelinkDue
<1> QED
  BY <1>1, <1>2, <1>3

(* All edits                                                                *)
LEMMA ToldWanted == Wanted = T(fs, node, cmd, opt)!Wanted
<1>1. ASSUME NEW w, NEW p
      PROVE  Created(w, p) = T(fs, node, cmd, opt)!Created(w, p)
  <2> DEFINE M == T(fs, node, cmd, opt)!Managed(p)
             O == T(fs, node, cmd, opt)!Outcome(w, p, FALSE)
             C == T(fs, node, cmd, opt)!Compared(w, p)
             F == T(fs, node, cmd, opt)!Found(w, p)
             L == T(fs, node, cmd, opt)!WinLine(p)
             N == T(fs, node, cmd, opt)!NoEdit
             Z == ""
  <2>1. Created(w, p) =
          CASE Managed(p) /\ Compared(w, p) /\ fs[p] # 0 ->
                 IF Outcome(w, p, FALSE) = "same" THEN NoEdit
                 ELSE [op |-> Z, path |-> p, obj |-> Found(w, p)]
            [] Managed(p) /\ (~Compared(w, p) \/ fs[p] = 0) ->
                 [op |-> "-", path |-> p, obj |-> WinLine(p).obj]
            [] ~Managed(p) /\ Compared(w, p) ->
                 [op |-> Z, path |-> p, obj |-> Found(w, p)]
            [] OTHER -> NoEdit
    BY Zenon DEF Created
  <2>2. T(fs, node, cmd, opt)!Created(w, p) =
          CASE M /\ C /\ fs[p] # 0 -> IF O = "same" THEN N ELSE [op |-> Z, path |-> p, obj |-> F]
            [] M /\ (~C \/ fs[p] = 0) -> [op |-> "-", path |-> p, obj |-> L.obj]
            [] ~M /\ C -> [op |-> Z, path |-> p, obj |-> F]
            [] OTHER -> N
    BY Zenon DEF T!Created
  <2>3. /\ M = Managed(p) /\ O = Outcome(w, p, FALSE) /\ C = Compared(w, p) /\ F = Found(w, p)
        /\ L = WinLine(p) /\ N = NoEdit
    BY ToldLines, ToldFound, ToldApplied, ToldEdit
  <2> HIDE DEF M, O, C, F, L, N, Z
  <2> QED
    BY <2>1, <2>2, <2>3
<1> DEFINE F == T(fs, node, cmd, opt)!Fate
           A(p) == T(fs, node, cmd, opt)!Applied(F, p, T(fs, node, cmd, opt)!RelinkDue(F, p))
           C(p) == T(fs, node, cmd, opt)!Created(F, p)
<1>2. Wanted = [p \in Path |-> IF EditPath = "creatable" THEN Created(Fate, p)
                               ELSE Applied(Fate, p, RelinkDue(Fate, p))]
  BY DEF Wanted
<1>3. T(fs, node, cmd, opt)!Wanted = [p \in Path |-> IF EditPath = "creatable" THEN C(p) ELSE A(p)]
  BY DEF T!Wanted, Path, T!Path, EditPath, T!EditPath
<1>4. F = Fate
  BY ToldFate
<1>5. \A p : C(p) = Created(Fate, p)
  BY <1>1, <1>4
<1>6. \A p : A(p) = Applied(Fate, p, RelinkDue(Fate, p))
  BY <1>4, ToldApplied
<1> HIDE DEF A, C, F
<1> QED
  BY <1>2, <1>3, <1>5, <1>6

AsTold ==
  /\ \A p : Managed(p) = T(fs, node, cmd, opt)!Managed(p)
  /\ \A p : Winner(p) = T(fs, node, cmd, opt)!Winner(p)
  /\ Fate = T(fs, node, cmd, opt)!Fate
  /\ Wanted = T(fs, node, cmd, opt)!Wanted
  /\ \A p : FoundAt(p) = T(fs, node, cmd, opt)!Found(T(fs, node, cmd, opt)!Fate, p)
  /\ \A p : FirstAt(p) = T(fs, node, cmd, opt)!FirstName(T(fs, node, cmd, opt)!Fate, p)
  /\ \A p : AppliedTo(p) = T(fs, node, cmd, opt)!Applied(T(fs, node, cmd, opt)!Fate, p, FALSE)
  /\ \A p : Again(p) = T(fs, node, cmd, opt)!WantedEdit(
                          T(fs, node, cmd, opt)!Found(T(fs, node, cmd, opt)!Fate, p), p, "status")

(* All of TreeDiff is a function of its four variables                      *)
LEMMA Told == AsTold
<1>1. T(fs, node, cmd, opt)!Fate = Fate
  BY ToldFate
<1>2. \A p : FoundAt(p) = T(fs, node, cmd, opt)!Found(Fate, p)
  BY ToldFound DEF FoundAt
<1>3. \A p : FirstAt(p) = T(fs, node, cmd, opt)!FirstName(Fate, p)
  BY ToldFound DEF FirstAt
<1>4. \A p : AppliedTo(p) = T(fs, node, cmd, opt)!Applied(Fate, p, FALSE)
  BY ToldApplied DEF AppliedTo
<1>5. \A p : Again(p) = T(fs, node, cmd, opt)!WantedEdit(T(fs, node, cmd, opt)!Found(Fate, p), p, "status")
  BY ToldFound, ToldEdit DEF Again
<1> QED
  BY <1>1, <1>2, <1>3, <1>4, <1>5, ToldLines, ToldWanted DEF AsTold

(* A step that leaves those alone leaves all of it alone                    *)
LEMMA ToldAgain ==
  ASSUME fs' = fs, node' = node, cmd' = cmd, opt' = opt
  PROVE  /\ Fate' = Fate /\ Wanted' = Wanted
         /\ \A p : Managed(p)' = Managed(p) /\ Winner(p)' = Winner(p)
         /\ \A p : FoundAt(p)' = FoundAt(p) /\ FirstAt(p)' = FirstAt(p)
         /\ \A p : AppliedTo(p)' = AppliedTo(p) /\ Again(p)' = Again(p)
<1>1. AsTold'
  BY Told, PTL
<1>2. AsTold
  BY Told
<1>3. Fate' = Fate /\ Wanted' = Wanted
  BY <1>1, <1>2 DEF AsTold
<1>4. \A p : Managed(p)' = Managed(p) /\ Winner(p)' = Winner(p)
  BY <1>1, <1>2 DEF AsTold
<1>5. \A p : FoundAt(p)' = FoundAt(p) /\ FirstAt(p)' = FirstAt(p)
  BY <1>1, <1>2 DEF AsTold
<1>6. \A p : AppliedTo(p)' = AppliedTo(p) /\ Again(p)' = Again(p)
  BY <1>1, <1>2 DEF AsTold
<1> QED
  BY <1>3, <1>4, <1>5, <1>6

-----------------------------------------------------------------------------
Same == fs' = fs /\ node' = node /\ cmd' = cmd /\ opt' = opt

(* So it does what is said of the walk above                                *)
LEMMA WalkAgain ==
  ASSUME Same
  PROVE  /\ \A p : How(p)' = How(p) /\ (Comes(p)' <=> Comes(p)) /\ Up(p)' = Up(p) /\ Over(p)' = Over(p)
         /\ \A p : Phantom(p)' <=> Phantom(p)
         /\ \A p : LineNo(p)' = LineNo(p)
         /\ \A p, at : Unread(p, at)' <=> Unread(p, at)
         /\ EditPath' = EditPath /\ Prefix' = Prefix /\ Tran' = Tran
<1>1. \A p : How(p)' = How(p)
  BY ToldAgain DEF How, Same
<1>2. \A p : Comes(p)' <=> Comes(p)
  BY <1>1 DEF Comes
<1>3. \A p : Up(p)' = Up(p)
  BY <1>2 DEF Up
<1>4. \A p : Over(p)' = Over(p)
  BY <1>3 DEF Over
<1>5. \A p : Phantom(p)' <=> Phantom(p)
  BY <1>2, ToldAgain DEF Phantom, Same
<1>6. EditPath' = EditPath /\ Prefix' = Prefix /\ Tran' = Tran
  BY DEF EditPath, Prefix, Tran, Same
<1>7. \A p : LineNo(p)' = LineNo(p)
  BY <1>6, ToldAgain DEF LineNo, Same
<1>8. \A p, at : Unread(p, at)' <=> Unread(p, at)
  BY <1>7, ToldAgain DEF Unread, Same
<1> QED
  BY <1>1, <1>2, <1>3, <1>4, <1>5, <1>6, <1>7, <1>8

(* Each part of the invariant, said after a step of what was before it, is  *)
(* the same said of what is after it                                        *)
LEMMA AtOn ==
  ASSUME Same, NEW x, NEW y, At(x, y, pc', subj', fsMinus')
  PROVE  At(x, y, pc, subj, fsMinus)'
<1>1. \A p : FoundAt(p)' = FoundAt(p)
  BY ToldAgain DEF Same
<1>2. Found(Fate, subj'.path) = Found(Fate, subj.path)'
  BY <1>1 DEF FoundAt
<1>3. Phantom(subj'.path) <=> Phantom(subj.path)'
  BY WalkAgain
<1> QED
  BY <1>2, <1>3, WalkAgain, ToldAgain DEF At, Same, Compared

(* The stack                                                                *)
LEMMA StackOn ==
  ASSUME Same, NEW x, NEW y, Stack(x, y, stack')
  PROVE  Stack(x, y, stack)'
<1>1. ASSUME NEW m \in DOMAIN stack' PROVE Fits(x, y, stack[m])'
  <2>1. Fits(x, y, stack'[m])
    BY DEF Stack
  <2>2. How(stack'[m].path) = How(stack[m].path)'
    BY WalkAgain
  <2>3. Phantom(stack'[m].path) <=> Phantom(stack[m].path)'
    BY WalkAgain
  <2>4. Managed(stack'[m].path) <=> Managed(stack[m].path)'
    BY ToldAgain DEF Same
  <2> QED
    BY <2>1, <2>2, <2>3, <2>4, WalkAgain DEF Fits
<1>2. Nested(stack)'
  BY DEF Stack, Nested
<1>3. Covered(x, y, stack)'
  BY WalkAgain DEF Stack, Covered
<1> QED
  BY <1>1, <1>2, <1>3 DEF Stack

(* The lines                                                                *)
LEMMA LinesOn ==
  ASSUME Same, NEW x, LinesLeft(x, pos')
  PROVE  LinesLeft(x, pos)'
<1>1. \A p \in Path : Unread(p, pos') <=> Unread(p, pos)'
  BY WalkAgain
<1> QED
  BY <1>1, ToldAgain DEF LinesLeft, Same, Compared

(* The names of an inode                                                    *)
LEMMA NamesOn ==
  ASSUME Same
  PROVE  \A i : NLink(i)' = NLink(i) /\ \A y : Names(y, i)' = Names(y, i)
<1>1. \A i : NLink(i)' = NLink(i)
  BY DEF NLink, Same
<1>2. \A i, y : Names(y, i)' = Names(y, i)
  BY ToldAgain DEF Names, Same, Compared
<1> QED
  BY <1>1, <1>2

(* The first names                                                          *)
LEMMA LinkOn ==
  ASSUME Same, NEW y, Linked(y, link')
  PROVE  Linked(y, link)'
BY NamesOn DEF Linked, Same

(* The marks                                                                *)
LEMMA MarkOn ==
  ASSUME Same, NEW x, Marked(x, changed')
  PROVE  Marked(x, changed)'
<1>1. \A q : FirstName(Fate, q)' = FirstName(Fate, q)
  BY ToldAgain DEF Same, FirstAt
<1>2. \A q : Applied(Fate, q, FALSE)' = Applied(Fate, q, FALSE)
  BY ToldAgain DEF Same, AppliedTo
<1>3. \A q : Compared(Fate, q)' <=> Compared(Fate, q)
  BY ToldAgain DEF Same, Compared
<1>4. \A q : NLink(fs[q])' = NLink(fs[q])
  BY NamesOn DEF Same
<1>5. NoEdit' = NoEdit
  BY DEF NoEdit, Missing
<1> QED
  BY <1>1, <1>2, <1>3, <1>4, <1>5, WalkAgain DEF Marked, Same

(* The edits                                                                *)
LEMMA EditedOn ==
  ASSUME Same, NEW x, Edited(x, pos', out')
  PROVE  Edited(x, pos, out)'
<1>1. \A p : /\ Found(Fate, p)' = Found(Fate, p)
             /\ WantedEdit(Found(Fate, p), p, "status")' = WantedEdit(Found(Fate, p), p, "status")
  BY ToldAgain DEF Same, FoundAt, Again
<1>2. Wanted' = Wanted /\ NoEdit' = NoEdit
  BY ToldAgain DEF Same, NoEdit, Missing
<1>3. \A p : EditsIn(p, out') = EditsIn(p, out)'
  BY DEF EditsIn
<1>4. \A p \in Path : Unread(p, pos') <=> Unread(p, pos)'
  BY WalkAgain
<1>5. \A p \in Path : Settled(x, p, pos') <=> Settled(x, p, pos)'
  BY <1>4, ToldAgain DEF Settled, Same
<1>6. \A p \in Path : Right(p, out') <=> Right(p, out)'
  BY <1>1, <1>2, <1>3 DEF Right
<1> QED
  BY <1>3, <1>5, <1>6 DEF Edited

(* All of it                                                                *)
LEMMA Steady ==
  ASSUME Same, NEW x, NEW y, There(x, y)
  PROVE  Here(x, y)'
<1>1. Work(x, y, pos, link, changed, out)'
  BY LinesOn, LinkOn, MarkOn, EditedOn DEF There, Goes, Work
<1>2. At(x, y, pc, subj, fsMinus)' /\ Stack(x, y, stack)'
  BY AtOn, StackOn DEF There, Goes
<1>3. pc' \in {"compare", "excluded"} => Above(stack, subj.path)'
  BY DEF There, Goes, Above
<1> QED
  BY <1>1, <1>2, <1>3 DEF Here, Goes

-----------------------------------------------------------------------------
(* Where the frames of negative directories are from                        *)
OldFrame(f) == \E k \in DOMAIN stack : stack[k].kind = f.kind /\ stack[k].path = f.path

(* A directory is no negative one                                           *)
LEMMA EnterOld ==
  ASSUME TInv, NEW del \in BOOLEAN, NEW m \in DOMAIN EnterDir(del), EnterDir(del)[m].kind = "negative"
  PROVE  OldFrame(EnterDir(del)[m])
<1> DEFINE dir == [kind |-> "dir", path |-> subj.path, kids |-> Children(subj.path), del |-> del]
<1>1. EnterDir(del) = <<dir>> \o stack \/ EnterDir(del) = stack
  BY DEF EnterDir
<1>2. CASE EnterDir(del) = stack
  BY <1>2 DEF OldFrame
<1>3. CASE EnterDir(del) = <<dir>> \o stack
  <2>1. dir \in Frame /\ \A k \in dir.kids : Parent(k) = dir.path /\ fs[k] # 0
    BY DEF TInv, TypeOK, Subject, Frame, Children, Exists
  <2>2. dir.kind # "negative" /\ StackOK(stack)
    BY StackGood
  <2> HIDE DEF dir
  <2>3. /\ (<<dir>> \o stack)[1] = dir
        /\ m # 1 => m - 1 \in DOMAIN stack /\ (<<dir>> \o stack)[m] = stack[m - 1]
    BY <1>3, <2>1, <2>2, PushFits
  <2> QED
    BY <1>3, <2>2, <2>3 DEF OldFrame
<1> QED
  BY <1>1, <1>2, <1>3

(* A new negative frame is for the line that has just been read             *)
LEMMA FrameFrom ==
  ASSUME TInv, ~Failed, Step, NEW m \in DOMAIN stack', stack'[m].kind = "negative"
  PROVE  \/ OldFrame(stack'[m])
         \/ \E r \in Readers : Selected(r) /\ pos' = Consumed(r) /\ stack'[m].path = Cur(r).path
<1>1. CASE stack' = stack
  BY <1>1 DEF OldFrame
<1>2. CASE FsOnly
  <2>1. fsMinus' \in BOOLEAN
    BY <1>2, FsTypes DEF TInv, TypeOK
  <2>2. stack' = EnterDir(fsMinus')
    BY <1>2 DEF FsOnly
  <2> QED
    BY <2>1, <2>2, EnterOld
<1>3. CASE Both
  <2>1. PICK r \in Readers, flag \in Flags \cup {"same"}, neg \in Frame :
           /\ Chosen(r) /\ Cur(r).path = subj.path /\ pos' = Consumed(r)
           /\ neg.path = subj.path /\ neg.kids = {}
           /\ stack' = <<neg>> \o stack \/ stack' = EnterDir(fsMinus')
    BY <1>3, BothParts
  <2>2. fsMinus' \in BOOLEAN /\ StackOK(stack)
    BY <1>3, BothTypes, StackGood DEF TInv, TypeOK
  <2>3. CASE stack' = EnterDir(fsMinus')
    BY <2>2, <2>3, EnterOld
  <2>4. CASE stack' = <<neg>> \o stack
    <3>1. \A k \in neg.kids : Parent(k) = neg.path /\ fs[k] # 0
      BY <2>1
    <3>2. /\ stack'[1] = neg
          /\ m # 1 => m - 1 \in DOMAIN stack /\ stack'[m] = stack[m - 1]
      BY <2>1, <2>2, <2>4, <3>1, PushFits
    <3> QED
      BY <2>1, <3>2 DEF OldFrame, Chosen
  <2> QED
    BY <2>1, <2>3, <2>4
<1>4. CASE WalkChild
  <2>1. PICK p \in Path, top \in Frame :
           /\ 1 \in DOMAIN stack
           /\ top = [stack[1] EXCEPT !.kids = @ \ {p}]
           /\ StackOK(<<top>> \o Tail(stack)) /\ StackOK(Tail(stack))
           /\ stack' = <<top>> \o Tail(stack)
    BY <1>4, WalkParts
  <2>2. StackOK(stack) /\ stack # <<>> /\ stack[1] \in Frame
    BY <1>4, <2>1, StackGood, ElementOfSeq, LenProperties DEF WalkChild, Loop, StackOK
  <2>3. top.kind = stack[1].kind /\ top.path = stack[1].path /\ top.kids \subseteq stack[1].kids
    BY <2>1, <2>2 DEF Frame
  <2>4. /\ \A k \in top.kids : Parent(k) = top.path /\ fs[k] # 0
        /\ top.kind = "negative" => top.kids = {}
    BY <2>1, <2>2, <2>3 DEF StackOK
  <2>5. /\ stack'[1] = top
        /\ m # 1 => m - 1 \in DOMAIN Tail(stack) /\ stack'[m] = Tail(stack)[m - 1]
    BY <2>1, <2>4, PushFits
  <2>6. \A n \in DOMAIN Tail(stack) : n + 1 \in DOMAIN stack /\ Tail(stack)[n] = stack[n + 1]
    BY <2>2, PopFits
  <2>7. CASE m = 1
    <3>1. stack'[m] = top
      BY <2>5, <2>7
    <3> QED
      BY <2>1, <2>3, <3>1 DEF OldFrame
  <2>8. CASE m # 1
    <3>1. m - 1 \in DOMAIN Tail(stack) /\ stack'[m] = Tail(stack)[m - 1]
      BY <2>5, <2>8
    <3>2. m - 1 + 1 \in DOMAIN stack /\ stack'[m] = stack[m - 1 + 1]
      BY <2>6, <3>1
    <3> QED
      BY <3>2 DEF OldFrame
  <2> QED
    BY <2>7, <2>8
<1>5. CASE Return
  <2>1. stack' = Tail(stack) /\ StackOK(stack) /\ stack # <<>>
    BY <1>5, StackGood DEF Return, Loop
  <2>2. m + 1 \in DOMAIN stack /\ stack'[m] = stack[m + 1]
    BY <2>1, PopFits
  <2> QED
    BY <2>2 DEF OldFrame
<1> QED
  BY <1>1, <1>2, <1>3, <1>4, <1>5
     DEF Step, SelectSkip, SkipExcluded, TranOnly, NegativeChild, Visit, Finish

(* Every step keeps the lines beyond the negative directories               *)
LEMMA BeyondKept ==
  ASSUME Ready, Step, ~Failed'
  PROVE  LinesBeyond'
<1>1. /\ TypeOK /\ TInv /\ Moves /\ pos' \in [Readers -> Nat \ {0}] /\ cmd' = cmd /\ opt' = opt
      /\ ~Failed /\ StackOK(stack)
  BY ReadyIs, StepMoves
<1>2. Readers' = Readers
  BY <1>1, Frozen
<1>3. ASSUME NEW m \in DOMAIN stack', stack'[m].kind = "negative", NEW q \in Readers, ~Eof(q)'
      PROVE  stack'[m].path < Cur(q)'.path
  <2>1. /\ ~Eof(q) /\ Cur(q).path <= Cur(q)'.path /\ Cur(q).path \in Nat /\ Cur(q)'.path \in Nat
    BY <1>1, <1>3, Onward, Lines, LineAfter
  <2>2. CASE OldFrame(stack'[m])
    <3>1. PICK k \in DOMAIN stack : stack[k].kind = "negative" /\ stack[k].path = stack'[m].path
      BY <1>3, <2>2 DEF OldFrame
    <3>2. stack'[m].path < Cur(q).path /\ stack'[m].path \in Nat
      <4>1. stack[k] \in Frame
        BY <1>1, ElementOfSeq, LenProperties DEF StackOK
      <4> QED
        BY <2>1, <3>1, <4>1, Bounds DEF Ready, LinesBeyond, Frame
    <3> QED
      BY <2>1, <3>2
  <2>3. CASE \E r \in Readers : Selected(r) /\ pos' = Consumed(r) /\ stack'[m].path = Cur(r).path
    BY <1>1, <1>3, <2>3, ConsumedBeyond
  <2> QED
    BY <1>1, <1>3, <2>2, <2>3, FrameFrom
<1> QED
  BY <1>2, <1>3 DEF LinesBeyond
-----------------------------------------------------------------------------
(* What has been read is in order                                           *)
ReadSorted == ~Failed => \A q \in Readers : \A m, n \in 1..(pos[q] - 1) :
  m < n => PathOf(q, m) < PathOf(q, n)

(* Every step keeps that what has been read is sorted                       *)
LEMMA SortedKept ==
  ASSUME DInv, ReadSorted, ~Failed, Step
  PROVE  ReadSorted'
<1>1. TypeOK /\ Moves /\ pos' \in [Readers -> Nat \ {0}] /\ cmd' = cmd /\ opt' = opt
  BY StepMoves DEF DInv, SInv, TInv
<1>2. Readers' = Readers /\ Tran' = Tran
  BY <1>1, Frozen
<1>3. ASSUME NEW q \in Readers, NEW m \in 1..(pos'[q] - 1), NEW n \in 1..(pos'[q] - 1), m < n
      PROVE  PathOf(q, m) < PathOf(q, n)
  <2>1. /\ pos'[q] \in {pos[q], pos[q] + 1} /\ pos[q] \in Nat \ {0}
        /\ pos'[q] # pos[q] => ~Eof(q)
    BY <1>1, Onward, Lines
  <2>2. m \in 1..(pos[q] - 1)
    BY <1>3, <2>1
  <2>3. CASE n \in 1..(pos[q] - 1)
    BY <1>3, <2>2, <2>3 DEF ReadSorted
  <2>4. CASE n \notin 1..(pos[q] - 1)
    <3>1. n = pos[q] /\ pos'[q] # pos[q]
      BY <1>3, <2>1, <2>4
    <3>2. PathOf(q, n) = Cur(q).path /\ q \in Nat
      BY <1>1, <3>1, Lines DEF PathOf, Cur
    <3> QED
      BY <2>1, <2>2, <3>1, <3>2 DEF DInv, Behind
  <2> QED
    BY <2>3, <2>4
<1> QED
  BY <1>2, <1>3 DEF ReadSorted, PathOf

(* A run that ends has read transcripts that are in order                   *)
LEMMA SortedAtEnd ==
  ASSUME DInv, ReadSorted, pc = "done", ~Failed
  PROVE  InOrder
<1>1. TypeOK /\ AllEof
  BY DEF DInv, SInv, TInv, AtEnd
<1>2. ASSUME NEW r \in Readers, NEW m \in DOMAIN Tran[r].lines, NEW n \in DOMAIN Tran[r].lines, m < n
      PROVE  Tran[r].lines[m].path < Tran[r].lines[n].path
  <2>1. /\ pos[r] > Len(Tran[r].lines) /\ Len(Tran[r].lines) \in Nat /\ pos[r] \in Nat
        /\ DOMAIN Tran[r].lines = 1..Len(Tran[r].lines)
    BY <1>1, Lines DEF AllEof, Eof
  <2>2. m \in 1..(pos[r] - 1) /\ n \in 1..(pos[r] - 1)
    BY <2>1
  <2> QED
    BY <1>2, <2>2 DEF ReadSorted, PathOf
<1> QED
  BY <1>2 DEF InOrder

-----------------------------------------------------------------------------
(* What fsdiff is given at the start                                        *)
LEMMA InitGiven ==
  ASSUME OrdinaryInputs, Init
  PROVE  Given
<1>1. PICK i \in Inputs : /\ \E t \in i.trees : fs = t.fs /\ node = t.node
                          /\ cmd \in i.commands /\ opt = i.opt
  BY DEF Init
<1>2. /\ fs[Prefix] # 0 /\ \A n \in Inode : node[n].type # "h"
      /\ \A r \in Readers : Tran[r].kind = "special" =>
           \A n \in DOMAIN Tran[r].lines : Tran[r].lines[n].path \in cmd.special
  BY <1>1, InputAssumption DEF Prefix, Readers, Tran
<1>3. /\ EditPath = "creatable" => cmd.exclude = {}
      /\ \A q \in cmd.exclude \ cmd.special, n \in Path : n < q /\ Inside(q, n) /\ ListsNegative(cmd, n) =>
           \A b \in Path : q < b /\ Inside(b, q) => ~Lists(cmd, b)
  BY <1>1 DEF OrdinaryInputs, EditPath
<1>4. \A p : Listing(p) # {} => Lists(cmd, p)
  BY DEF Listing, Lists, Readers, Tran
<1>5. Sheltered
  BY <1>3, <1>4 DEF Sheltered, ListsNegative, Readers, Tran
<1> QED
  BY <1>2, <1>3, <1>5 DEF Given

(* Nothing above the argument is walked                                     *)
LEMMA NoneAbove ==
  ASSUME World, NEW p \in Path, Comes(p)
  PROVE  Prefix <= p /\ p \in Nat /\ Prefix \in Nat /\ Prefix \in Path
BY WorldIs, Rules, Bounds

(* The argument is the first name of its inode                              *)
LEMMA AtPrefix ==
  ASSUME World, NEW i
  PROVE  /\ Names(Prefix, i) = {}
         /\ Names(Prefix + 1, i) = IF fs[Prefix] = i /\ Compared(Fate, Prefix) THEN {Prefix} ELSE {}
         /\ Compared(Fate, Prefix) => Found(Fate, Prefix) = node[fs[Prefix]]
<1>1. Prefix \in Path /\ Prefix \in Nat /\ fs[Prefix] # 0 /\ Path \subseteq Nat
  BY WorldIs, Bounds DEF World, Given
<1>2. \A q \in Path : Compared(Fate, q) => Prefix <= q
  BY ComparedIs, NoneAbove
<1>6. \A q \in Path : Compared(Fate, q) => ~(q < Prefix)
  BY <1>1, <1>2
<1>3. \A j : Names(Prefix, j) = {}
  BY <1>6 DEF Names
<1>4. Names(Prefix + 1, i) = IF fs[Prefix] = i /\ Compared(Fate, Prefix) THEN {Prefix} ELSE {}
  <2>1. \A q \in Path : q < Prefix + 1 /\ Compared(Fate, q) => q = Prefix
    BY <1>1, <1>2
  <2>2. Prefix < Prefix + 1
    BY <1>1
  <2> QED
    BY <1>1, <2>1, <2>2 DEF Names
<1>5. Compared(Fate, Prefix) => Found(Fate, Prefix) = node[fs[Prefix]]
  BY <1>1, <1>3, NamesIs, FoundIs
<1> QED
  BY <1>3, <1>4, <1>5

(* The walk begins at the argument                                          *)
LEMMA InitGoes ==
  ASSUME Init, World
  PROVE  Here(Prefix, Prefix + 1)
<1>1. /\ Prefix \in Path /\ Prefix \in Nat /\ fs[Prefix] # 0 /\ Path \subseteq Nat /\ NPath \in Nat
      /\ Prefix \in 1..(NPath + 1) /\ Prefix + 1 <= NPath + 1 /\ Prefix < Prefix + 1
      /\ \A p \in Path : Comes(p) => Prefix <= p
  BY WorldIs, Bounds, PathAssumption, NoneAbove DEF World, Given, Path
<1>2. /\ pos = [r \in Readers |-> 1] /\ stack = <<>> /\ DOMAIN stack = {}
      /\ pc = IF Excluded(Prefix) /\ Prefix \notin cmd.special THEN "excluded" ELSE "compare"
      /\ subj.path = Prefix /\ subj.obj = node[fs[Prefix]] /\ subj.inode = fs[Prefix]
      /\ fsMinus = FALSE /\ changed = {} /\ out = <<>> /\ DOMAIN out = {}
  BY DEF Init
<1>3. \A p \in Path : Compared(Fate, p) => Prefix <= p
  BY <1>1, ComparedIs
<1>13. \A p \in Path : Compared(Fate, p) => ~(p < Prefix)
  BY <1>1, <1>3
<1>4. How(Prefix) = "skip" <=> pc = "excluded"
  BY <1>1, <1>2, Rules
<1>5. Compared(Fate, Prefix) <=> pc = "compare"
  BY <1>1, <1>2, <1>4, Rules, ComparedIs
<1>6. At(Prefix, Prefix + 1, pc, subj, fsMinus)
  BY <1>1, <1>2, <1>4, <1>5, AtPrefix DEF At
<1>7. Stack(Prefix, Prefix + 1, stack)
  <2>1. ASSUME NEW p \in Path, Comes(p), Prefix + 1 <= p PROVE ~(Over(p) < Prefix)
    <3>1. p # Prefix /\ Inside(p, Prefix)
      BY <1>1, <2>1, Rules
    <3> DEFINE a == Over(p)
    <3>2. a \in Path /\ Comes(a)
      BY <1>1, <3>1, OverIs
    <3> HIDE DEF a
    <3>3. Prefix <= a /\ a \in Nat
      BY <1>1, <3>2
    <3>4. ~(a < Prefix)
      BY <1>1, <3>3
    <3> QED
      BY <3>4 DEF a
  <2> QED
    BY <1>2, <2>1 DEF Stack, Nested, Covered
<1>8. \A p \in Path : Managed(p) => Unread(p, pos)
  <2> SUFFICES ASSUME NEW p \in Path, Managed(p) PROVE Unread(p, pos)
    OBVIOUS
  <2>1. Winner(p) \in Readers /\ LineNo(p) \in DOMAIN Tran[Winner(p)].lines
    BY WorldIs, LineIs DEF Managed
  <2>2. LineNo(p) \in 1..Len(Tran[Winner(p)].lines) /\ Len(Tran[Winner(p)].lines) \in Nat
    BY <2>1, WorldIs, Lines
  <2> QED
    BY <1>2, <2>1, <2>2 DEF Unread
<1>9. LinesLeft(Prefix, pos)
  BY <1>3, <1>8 DEF LinesLeft
<1>10. Linked(Prefix + 1, link)
  <2> SUFFICES ASSUME NEW i \in Inode, NLink(i) > 1, node[i].type # "d"
               PROVE  link[i] = IF Names(Prefix + 1, i) = {} THEN 0 ELSE Least(Names(Prefix + 1, i))
    BY DEF Linked
  <2>1. link[i] = IF i = fs[Prefix] /\ pc = "compare" THEN Prefix ELSE 0
    BY DEF Init
  <2>2. Names(Prefix + 1, i) = IF fs[Prefix] = i /\ Compared(Fate, Prefix) THEN {Prefix} ELSE {}
    BY AtPrefix
  <2>3. Least({Prefix}) = Prefix
    BY <1>1, LeastMember
  <2> QED
    BY <1>5, <2>1, <2>2, <2>3
<1>11. Marked(Prefix, changed)
  BY <1>2, <1>13 DEF Marked
<1>12. Edited(Prefix, pos, out)
  <2> SUFFICES ASSUME NEW p \in Path
               PROVE  IF Settled(Prefix, p, pos) THEN Right(p, out) ELSE EditsIn(p, out) = {}
    BY DEF Edited
  <2>1. EditsIn(p, out) = {}
    BY <1>2 DEF EditsIn
  <2>2. Settled(Prefix, p, pos) => ~Managed(p) /\ ~Compared(Fate, p)
    BY <1>1, <1>3, <1>8 DEF Settled
  <2> QED
    BY <2>1, <2>2, NothingWanted, NoneIsRight
<1> QED
  BY <1>2, <1>6, <1>7, <1>9, <1>10, <1>11, <1>12 DEF Here, Goes, Work, Above

-----------------------------------------------------------------------------
EInv == /\ DInv /\ Given /\ ReadSorted
        /\ InOrder => LinesBeyond /\ \E x, y : Here(x, y)

(* The invariant holds at the start                                         *)
LEMMA InitExact ==
  ASSUME OrdinaryInputs, Init
  PROVE  EInv
<1>1. DInv /\ Given
  BY InitNamed, InitGiven
<1>2. pos = [r \in Readers |-> 1] /\ stack = <<>> /\ DOMAIN stack = {}
  BY DEF Init
<1>3. ReadSorted
  BY <1>2 DEF ReadSorted
<1>4. LinesBeyond
  BY <1>2 DEF LinesBeyond
<1>5. InOrder => \E x, y : Here(x, y)
  BY <1>1, InitGoes DEF World, Reads, DInv, SInv, TInv
<1> QED
  BY <1>1, <1>3, <1>4, <1>5 DEF EInv

(* What is given stays                                                      *)
LEMMA GivenKept ==
  ASSUME Same
  PROVE  (Given' <=> Given) /\ (InOrder' <=> InOrder)
<1>1. Tran' = Tran /\ Readers' = Readers /\ Prefix' = Prefix /\ EditPath' = EditPath
  BY WalkAgain, Frozen DEF Same
<1>2. \A p : Listing(p)' = Listing(p)
  BY <1>1 DEF Listing
<1>3. Sheltered' <=> Sheltered
  BY <1>1, <1>2 DEF Sheltered, Same
<1>4. InOrder' <=> InOrder
  BY <1>1 DEF InOrder
<1> QED
  BY <1>1, <1>3, <1>4 DEF Given, Same

(* Each step takes the walk from one place to another                       *)
LEMMA GoesStep ==
  ASSUME Ready, Running, Step, NEW x, NEW y, Here(x, y)
  PROVE  \E v, w : There(v, w)
<1>1. CASE SelectSkip \/ Finish
  BY <1>1, GoesSkip, GoesFinish
<1>2. CASE SkipExcluded
  BY <1>2, GoesExcluded
<1>3. CASE TranOnly
  BY <1>3, GoesTran
<1>4. CASE FsOnly
  BY <1>4, GoesFs
<1>5. CASE Both
  BY <1>5, GoesBoth
<1>6. CASE WalkChild
  BY <1>6, GoesWalk
<1>7. CASE NegativeChild
  BY <1>7, GoesNegative
<1>8. CASE Return
  BY <1>8, GoesReturn
<1> QED
  BY <1>1, <1>2, <1>3, <1>4, <1>5, <1>6, <1>7, <1>8 DEF Step

OrderRuns == TypeOK /\ InOrder => ~Failed

(* Transcripts in order do not fail                                         *)
LEMMA OrderIsEnough == OrderRuns
BY InOrderRuns DEF OrderRuns

(* Each step keeps the invariant                                            *)
LEMMA ExactStep ==
  ASSUME EInv, Running, Step
  PROVE  EInv'
<1>1. DInv' /\ ~Failed /\ DInv
  BY StepNamed DEF EInv, Running
<1>2. Same
  BY <1>1, StepMoves DEF Same, DInv, SInv
<1>3. Given' /\ (InOrder' <=> InOrder)
  BY <1>2, GivenKept DEF EInv
<1>4. ReadSorted'
  BY <1>1, SortedKept DEF EInv
<1>5. ASSUME InOrder' PROVE LinesBeyond' /\ \E x, y : Here(x, y)'
  <2>2. OrderRuns'
    BY OrderIsEnough, PTL
  <2>3. ~Failed'
    BY <1>1, <1>5, <2>2 DEF OrderRuns, DInv, SInv, TInv
  <2>4. Ready
    BY <1>1, <1>3, <1>5 DEF Ready, EInv, World, Reads, DInv, SInv, TInv
  <2>5. PICK x, y : Here(x, y)
    BY <1>3, <1>5 DEF EInv
  <2>6. PICK v, w : There(v, w)
    BY <2>4, <2>5, GoesStep
  <2>7. Here(v, w)'
    BY <1>2, <2>6, Steady
  <2> QED
    BY <2>3, <2>4, <2>7, BeyondKept
<1> QED
  BY <1>1, <1>3, <1>4, <1>5 DEF EInv

(* And so does standing still                                               *)
LEMMA ExactStays ==
  ASSUME EInv, UNCHANGED vars
  PROVE  EInv'
<1>1. DInv'
  BY NextNamed DEF EInv
<1>2. /\ Same /\ Failed' = Failed /\ Readers' = Readers /\ Tran' = Tran
      /\ \A r : Eof(r)' = Eof(r) /\ Cur(r)' = Cur(r)
      /\ UNCHANGED <<pos, stack, pc, subj, fsMinus, link, changed, out>>
  BY NoStep DEF Same, vars, given, local
<1>3. Given' /\ (InOrder' <=> InOrder)
  BY <1>2, GivenKept DEF EInv
<1>4. ReadSorted'
  BY <1>2 DEF EInv, ReadSorted, PathOf
<1>5. LinesBeyond => LinesBeyond'
  BY <1>2 DEF LinesBeyond
<1>6. ASSUME NEW x, NEW y, Here(x, y) PROVE Here(x, y)'
  <2>1. There(x, y)
    BY <1>2, <1>6 DEF Here, There
  <2> QED
    BY <1>2, <2>1, Steady
<1> QED
  BY <1>1, <1>3, <1>4, <1>5, <1>6 DEF EInv

(* The invariant is inductive                                               *)
LEMMA NextExact ==
  ASSUME EInv, [Next]_vars
  PROVE  EInv'
BY ExactStep, ExactStays DEF Next, Exited
-----------------------------------------------------------------------------
(* At the end the walk has been everywhere                                  *)
LEMMA AllRight ==
  ASSUME EInv, pc = "done", ~Failed
  PROVE  World /\ \A p \in Path : Right(p, out)
<1>1. DInv /\ TInv /\ TypeOK /\ AllEof /\ InOrder /\ stack = <<>>
  BY SortedAtEnd, StackGood DEF EInv, DInv, SInv, TInv, AtEnd, Loop
<1>2. World
  BY <1>1 DEF World, Reads, EInv, DInv
<1>3. PICK x, y : Here(x, y)
  BY <1>1 DEF EInv
<1>4. /\ At(x, y, pc, subj, fsMinus) /\ y = x /\ Covered(x, x, stack) /\ Edited(x, pos, out)
      /\ x \in 1..(NPath + 1) /\ Prefix < x /\ x \in Nat /\ Path \subseteq Nat
  BY <1>2, <1>3, WorldIs, XOnPath DEF Here, Goes, At, Stack, Work
<1>5. ASSUME NEW z \in Path, x <= z, Comes(z) PROVE FALSE
  <2>1. \E m \in DOMAIN stack : TRUE
    BY <1>2, <1>4, <1>5, NextIs
  <2> QED
    BY <1>1, <2>1
<1>6. ASSUME NEW p \in Path PROVE Right(p, out)
  <2>1. IF Settled(x, p, pos) THEN Right(p, out) ELSE EditsIn(p, out) = {}
    BY <1>4 DEF Edited
  <2>2. CASE Managed(p)
    <3>1. Winner(p) \in Readers /\ LineNo(p) \in DOMAIN Tran[Winner(p)].lines
      BY <1>2, <2>2, WorldIs, LineIs DEF Managed
    <3>2. /\ LineNo(p) \in 1..Len(Tran[Winner(p)].lines) /\ Len(Tran[Winner(p)].lines) \in Nat
          /\ pos[Winner(p)] \in Nat /\ pos[Winner(p)] > Len(Tran[Winner(p)].lines)
      BY <1>1, <3>1, Lines DEF AllEof, Eof
    <3>3. ~Unread(p, pos)
      BY <3>2 DEF Unread
    <3> QED
      BY <2>1, <2>2, <3>3 DEF Settled
  <2>3. CASE ~Managed(p) /\ p < x
    BY <2>1, <2>3 DEF Settled
  <2>4. CASE ~Managed(p) /\ ~(p < x)
    <3>1. ~Compared(Fate, p) /\ ~Settled(x, p, pos)
      BY <1>2, <1>4, <1>5, <2>4, ComparedIs DEF Settled
    <3> QED
      BY <1>2, <2>1, <2>4, <3>1, NothingWanted, NoneIsRight
  <2> QED
    BY <2>2, <2>3, <2>4
<1> QED
  BY <1>2, <1>6

(* When t_compare() finds nothing                                           *)
LEMMA SameIs ==
  ASSUME NEW o, NEW l, NEW u \in BOOLEAN, NEW b \in BOOLEAN, o.type \in Types
  PROVE  /\ Verdict(o, l, u, b) = "same" =>
              o.type = l.type /\ Agree(o, l, Described(l.type, u))
         /\ o.type = l.type /\ Agree(o, l, Described(l.type, u)) /\ o.type # "h" =>
              Verdict(o, l, u, b) = "same"
<1> DEFINE A == o.type = l.type /\ Agree(o, l, Described(l.type, u))
           D == NeedsDownload(o, l, u)
           S == NeedsStatus(o, l, u, b)
<1>1. Verdict(o, l, u, b) = "same" <=> ~D /\ ~S
  BY DEF Verdict
<1>2. CASE o.type # l.type
  BY <1>1, <1>2 DEF NeedsDownload
<1>3. CASE o.type = l.type
  <2>1. CASE l.type \in {"d", "p", "s"}
    BY <1>1, <1>3, <2>1 DEF NeedsDownload, NeedsStatus, AttrDiffer, Agree, Described
  <2>2. CASE l.type = "b"
    BY <1>1, <1>3, <2>2 DEF NeedsDownload, NeedsStatus, AttrDiffer, Agree, Described
  <2>3. CASE l.type = "h"
    BY <1>1, <1>3, <2>3 DEF NeedsDownload, NeedsStatus, AttrDiffer, Agree, Described
  <2>4. CASE l.type = "l"
    BY <1>1, <1>3, <2>4 DEF NeedsDownload, NeedsStatus, AttrDiffer, Agree, Described
  <2>5. CASE l.type = "c"
    BY <1>1, <1>3, <2>5 DEF NeedsDownload, NeedsStatus, AttrDiffer, Agree, Described
  <2>6. CASE l.type = "f" /\ ~u
    BY <1>1, <1>3, <2>6 DEF NeedsDownload, NeedsStatus, AttrDiffer, Agree, Described
  <2>7. CASE l.type = "f" /\ u
    BY <1>1, <1>3, <2>7 DEF NeedsDownload, NeedsStatus, AttrDiffer, Agree, Described
  <2> QED
    BY <1>3, <2>1, <2>2, <2>3, <2>4, <2>5, <2>6, <2>7 DEF Types
<1> QED
  BY <1>2, <1>3

(* The edits that are wanted are none only if nothing was found             *)
LEMMA SilentIs ==
  ASSUME World, NEW p \in Path, Managed(p), Compared(Fate, p), fs[p] # 0
  PROVE  \E b \in BOOLEAN :
           Wanted[p] = NoEdit <=> Verdict(Found(Fate, p), WinLine(p).obj, Positive(p), b) = "same"
<1>1. EditPath \in {"applicable", "creatable"} /\ 0 \notin Path
  BY WorldIs, ObjBasics
<1> DEFINE V(b) == Verdict(Found(Fate, p), WinLine(p).obj, Positive(p), b)
<1>2. \A b : Outcome(Fate, p, b) = V(b)
  BY DEF Outcome
<1>3. NoEdit.path = 0
  BY DEF NoEdit
<1>4. Wanted[p] = IF EditPath = "creatable" THEN Created(Fate, p)
                  ELSE Applied(Fate, p, RelinkDue(Fate, p))
  BY DEF Wanted
<1>5. CASE EditPath = "creatable"
  <2>1. Created(Fate, p) = IF Outcome(Fate, p, FALSE) = "same" THEN NoEdit ELSE Created(Fate, p)
    BY Zenon DEF Created
  <2>2. Outcome(Fate, p, FALSE) # "same" => Created(Fate, p).path = p
    BY DEF Created
  <2> QED
    BY <1>1, <1>2, <1>3, <1>4, <1>5, <2>1, <2>2
<1>6. CASE EditPath = "applicable"
  <2> DEFINE b == RelinkDue(Fate, p)
  <2>1. b \in BOOLEAN
    BY DEF RelinkDue
  <2>2. Wanted[p] = IF V(b) = "same" THEN NoEdit ELSE WantedEdit(Found(Fate, p), p, V(b))
    BY <1>2, <1>4, <1>6 DEF Applied
  <2>3. WantedEdit(Found(Fate, p), p, V(b)).path = p
    BY DEF WantedEdit
  <2> HIDE DEF b, V
  <2>4. Wanted[p] = NoEdit <=> V(b) = "same"
    BY <1>1, <1>3, <2>2, <2>3
  <2> QED
    BY <2>1, <2>4 DEF V
<1> QED
  BY <1>1, <1>5, <1>6

(* At the end the invariant is what is promised                             *)
LEMMA DoneExact ==
  ASSUME EInv
  PROVE  EditsExact
<1> SUFFICES ASSUME pc = "done", ~Failed PROVE EditsNeeded /\ SilenceMeansSame
  BY DEF EditsExact, EditsNeeded, SilenceMeansSame
<1>1. World /\ \A p \in Path : Right(p, out)
  BY AllRight
<1>2. \A p : EditsAt(p) = EditsIn(p, out)
  BY DEF EditsAt, EditsIn
<1>3. EditsNeeded
  BY <1>1, <1>2 DEF EditsNeeded, Right
<1>4. ASSUME NEW p \in Path, Managed(p), Compared(Fate, p), fs[p] # 0
      PROVE  LET same == /\ Found(Fate, p).type = WinLine(p).obj.type
                         /\ Agree(Found(Fate, p), WinLine(p).obj, Described(WinLine(p).obj.type, Positive(p)))
             IN  /\ EditsAt(p) = {} => same
                 /\ same /\ Found(Fate, p).type # "h" => EditsAt(p) = {}
  <2> DEFINE o == Found(Fate, p)
             l == WinLine(p).obj
             u == Positive(p)
             same == o.type = l.type /\ Agree(o, l, Described(l.type, u))
  <2>1. o \in Obj
    BY <1>1, <1>4, FoundIs
  <2>2. o.type \in Types /\ u \in BOOLEAN
    BY <2>1 DEF Obj, Positive
  <2>3. PICK b \in BOOLEAN : Wanted[p] = NoEdit <=> Verdict(o, l, u, b) = "same"
    BY <1>1, <1>4, SilentIs
  <2>4. Right(p, out) /\ EditsAt(p) = EditsIn(p, out)
    BY <1>1, <1>2
  <2>5. Verdict(o, l, u, b) = "same" => same
    BY <2>2, SameIs
  <2>6. same /\ o.type # "h" => Verdict(o, l, u, b) = "same"
    BY <2>2, SameIs
  <2>7. EditsIn(p, out) = {} => Wanted[p] = NoEdit
    BY <2>4 DEF Right
  <2>8. Wanted[p] = NoEdit /\ o.type # "h" => EditsIn(p, out) = {}
    BY <2>4 DEF Right
  <2> HIDE DEF o, l, u, same
  <2>9. (EditsAt(p) = {} => same) /\ (same /\ o.type # "h" => EditsAt(p) = {})
    BY <2>3, <2>4, <2>5, <2>6, <2>7, <2>8
  <2> QED
    BY <2>9 DEF o, l, u, same
<1>5. SilenceMeansSame
  BY <1>4 DEF SilenceMeansSame
<1> QED
  BY <1>3, <1>5

(* Whatever the tree, the transcripts and the options, what fsdiff has      *)
(* printed when it is done is for every path the edit that it needs and no  *)
(* other, and it has been silent about an object exactly if the object is   *)
(* as its line says (transcript(), t_compare(), fs_walk()); but for the two *)
(* kinds of input that are no OrdinaryInputs                                *)
THEOREM Exactness == OrdinaryInputs => (Spec => []EditsExact)
<1> SUFFICES ASSUME OrdinaryInputs PROVE Spec => []EditsExact
  OBVIOUS
<1>1. Init => EInv
  BY InitExact
<1>2. EInv /\ [Next]_vars => EInv'
  BY NextExact
<1>3. EInv => EditsExact
  BY DoneExact
<1> QED
  BY <1>1, <1>2, <1>3, PTL DEF Spec
=============================================================================
