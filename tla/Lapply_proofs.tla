--------------------------- MODULE Lapply_proofs ---------------------------
(****************************************************************************)
(* Theorems about lapply(1), for every tree shape, every file system and    *)
(* every plan: whatever fails and wherever the program is killed, the file  *)
(* system stays one, a directory is never removed before its contents, and  *)
(* a file only ever changes as a whole.                                     *)
(****************************************************************************)
EXTENDS Lapply, WellFoundedInduction, TLAPS, SequenceTheorems

(* A set of numbers that is not empty has a smallest element.               *)
LEMMA LeastMember ==
  ASSUME NEW S \in SUBSET Nat, S # {}
  PROVE  Least(S) \in S /\ \A y \in S : Least(S) <= y
<1> DEFINE less == OpToRel(<, Nat)
<1>1. IsWellFoundedOn(less, Nat)
  BY NatLessThanWellFounded
<1>2. \A x, y \in Nat : x < y => <<x, y>> \in less
  BY DEF OpToRel
<1> HIDE DEF less
<1>3. PICK x \in S : \A y \in S : ~(<<y, x>> \in less)
  BY <1>1, WFMin
<1>4. ASSUME NEW y \in S
      PROVE  x <= y
  <2>1. <<y, x>> \notin less
    BY <1>3, Zenon
  <2>2. ~(y < x)
    BY <1>2, <2>1
  <2> QED BY <2>2
<1> QED BY <1>4 DEF Least

(* A set of numbers that is not empty and bounded has a greatest element.   *)
LEMMA GreatestMember ==
  ASSUME NEW n \in Nat, NEW S \in SUBSET (0..n), S # {}
  PROVE  \E x \in S : \A y \in S : y <= x
<1> DEFINE T == { n - x : x \in S }
<1>1. T \in SUBSET Nat /\ T # {}
  <2>1. \A x \in S : n - x \in Nat
    OBVIOUS
  <2>2. T # {}
    BY Zenon
  <2> QED BY <2>1, <2>2, Zenon
<1>2. PICK x \in S : Least(T) = n - x
  BY <1>1, LeastMember
<1>3. ASSUME NEW y \in S
      PROVE  y <= x
  <2>1. n - x <= n - y
    BY <1>1, <1>2, LeastMember
  <2> QED BY <2>1
<1> QED BY <1>3

(* Parent() gives a path above its argument, or 0.                          *)
LEMMA ParentAbove ==
  ASSUME PathAssumption, NEW c \in Path
  PROVE  Parent(c) = 0 \/ (Parent(c) \in Path /\ Parent(c) < c /\ Inside(c, Parent(c)))
<1> DEFINE above == { q \in 1..(c - 1) : Inside(c, q) }
<1>1. CASE above = {}
  BY <1>1 DEF Parent
<1>2. CASE above # {}
  <2>1. above \in SUBSET (0..c) /\ c \in Nat
    BY DEF Path
  <2>2. \E q \in above : \A r \in above : r <= q
    BY <1>2, <2>1, GreatestMember
  <2>3. Parent(c) \in above
    BY <1>2, <2>2 DEF Parent
  <2> QED BY <2>3 DEF Path, PathAssumption
<1> QED BY <1>1, <1>2

(* What is below something below p is below p (ischildcase()).              *)
LEMMA InsideTransitive ==
  ASSUME PathAssumption, NEW a \in Path, NEW b \in Path, NEW c \in Path,
         Inside(a, b), Inside(b, c)
  PROVE  Inside(a, c)
<1>1. Last[b] <= Last[c]
  BY DEF Inside, PathAssumption
<1>2. c <= b /\ b <= a /\ a <= Last[b] /\ Last[b] \in Nat /\ Last[c] \in Nat
  BY DEF Inside, PathAssumption, Path
<1> QED BY <1>1, <1>2 DEF Inside, Path

(* What the system calls do to a sound file system                          *)

(* No path of the tree is called 0, and the types are not "X".              *)
LEMMA Basics ==
  /\ 0 \notin Path /\ 0 \notin Inode
  /\ Missing \notin Obj /\ Missing.type = "X" /\ "X" \notin Types
BY DEF Path, Inode, Missing, Obj, Types

(* The line that stands for none, and the state of do_line() at rest.       *)
LEMMA NoLineFields ==
  /\ NoLine.op = "" /\ NoLine.obj = Missing /\ NoLine \notin Edit
  /\ Idle.line = NoLine /\ Idle.back = "line" /\ Idle \in Job
BY Basics DEF NoLine, Edit, Idle, Job

(* unlink() of what is not a directory and rmdir() of an empty one.         *)
LEMMA UnlinkSound ==
  ASSUME WellFormed(fs, node), NEW p \in Path,
         \A c \in Path : Exists(c) => Parent(c) # p,
         Unlink(p)
  PROVE  WellFormed(fs, node)'
<1> USE Basics, PathAssumption, ParentAbove DEF WellFormed
<1>1. /\ fs' = [fs EXCEPT ![p] = 0]
      /\ node' = [i \in Inode |-> IF \E q \in Path : fs'[q] = i THEN node[i] ELSE Missing]
  BY DEF Unlink, Settled
<1>2. \A q \in Path : fs'[q] # 0 => fs'[q] = fs[q] /\ node'[fs'[q]] = node[fs[q]] /\ q # p
  BY <1>1
<1>3. fs' \in [Path -> Inode \cup {0}] /\ node' \in [Inode -> Obj \cup {Missing}]
  BY <1>1
<1>4. \A i \in Inode : node'[i] = Missing <=> \A q \in Path : fs'[q] # i
  BY <1>1
<1>5. ASSUME NEW q \in Path, fs'[q] # 0, Parent(q) # 0
      PROVE  fs'[Parent(q)] # 0 /\ node'[fs'[Parent(q)]].type = "d"
  <2>1. Parent(q) \in Path /\ Parent(q) # p
    BY <1>2, <1>5 DEF Exists
  <2>2. fs[Parent(q)] # 0 /\ node[fs[Parent(q)]].type = "d"
    BY <1>2, <1>5
  <2>3. fs'[Parent(q)] = fs[Parent(q)]
    BY <1>1, <2>1
  <2> QED BY <1>2, <2>1, <2>2, <2>3
<1>6. ASSUME NEW q \in Path, NEW r \in Path, fs'[q] # 0, fs'[q] = fs'[r], q # r
      PROVE  node'[fs'[q]].type # "d"
  BY <1>2, <1>6
<1> QED BY <1>3, <1>4, <1>5, <1>6

(* mkdir(), mkfifo(), mknod(), symlink() or open() of a new name.           *)
LEMMA CreateSound ==
  ASSUME WellFormed(fs, node), NEW p \in Path, NEW o \in Obj,
         CanCreate(p), Create(p, o)
  PROVE  WellFormed(fs, node)'
<1> USE Basics, PathAssumption, ParentAbove DEF WellFormed
<1>7. PICK i \in Inode :
        /\ \A q \in Path : fs[q] # i
        /\ Settled([fs EXCEPT ![p] = i], [node EXCEPT ![i] = o])
  BY Zenon DEF Create
<1>1. /\ \A q \in Path : fs[q] # i
      /\ fs' = [fs EXCEPT ![p] = i]
      /\ node' = [j \in Inode |-> IF \E q \in Path : fs'[q] = j
                                  THEN [node EXCEPT ![i] = o][j] ELSE Missing]
  BY <1>7 DEF Settled
<1>2. /\ \A q \in Path : q # p /\ fs[q] # 0 => /\ fs'[q] = fs[q] /\ fs'[q] # i
                                               /\ node'[fs'[q]] = node[fs[q]]
      /\ fs'[p] = i /\ node'[i] = o
  BY <1>1
<1>3. fs' \in [Path -> Inode \cup {0}] /\ node' \in [Inode -> Obj \cup {Missing}]
  BY <1>1
<1>4. \A j \in Inode : node'[j] = Missing <=> \A q \in Path : fs'[q] # j
  BY <1>1
<1>5. ASSUME NEW q \in Path, fs'[q] # 0, Parent(q) # 0
      PROVE  fs'[Parent(q)] # 0 /\ node'[fs'[Parent(q)]].type = "d"
  <2>1. Parent(q) \in Path /\ fs[p] = 0
    BY <1>5 DEF CanCreate, Exists
  <2>2. fs[Parent(q)] # 0 /\ node[fs[Parent(q)]].type = "d"
    <3>1. CASE q = p
      BY <1>5, <2>1, <3>1 DEF CanCreate, IsDir, Lstat
    <3>2. CASE q # p
      <4>1. fs[q] # 0
        BY <1>1, <1>5, <3>2
      <4> QED BY <1>5, <4>1
    <3> QED BY <3>1, <3>2
  <2>3. Parent(q) # p
    BY <2>1, <2>2
  <2> QED BY <1>2, <2>1, <2>2, <2>3
<1>6. ASSUME NEW q \in Path, NEW r \in Path, fs'[q] # 0, fs'[q] = fs'[r], q # r
      PROVE  node'[fs'[q]].type # "d"
  <2>1. q # p /\ r # p /\ fs[q] = fs[r] /\ fs[q] # 0
    BY <1>1, <1>6
  <2> QED BY <1>2, <1>6, <2>1
<1> QED BY <1>3, <1>4, <1>5, <1>6

(* chown(), chmod(), utime() and write(), which keep the type.              *)
LEMMA SetSound ==
  ASSUME WellFormed(fs, node), NEW p \in Path, NEW o \in Obj,
         Exists(p), o.type = Lstat(p).type, Set(p, o)
  PROVE  WellFormed(fs, node)'
<1> USE Basics, PathAssumption, ParentAbove DEF WellFormed
<1>1. fs' = fs /\ node' = [node EXCEPT ![fs[p]] = o]
  BY DEF Set
<1>2. fs[p] \in Inode /\ node[fs[p]].type = o.type
  BY DEF Exists, Lstat
<1>3. \A i \in Inode : node'[i].type = node[i].type /\ (node'[i] = Missing <=> node[i] = Missing)
  BY <1>1, <1>2
<1>4. fs' \in [Path -> Inode \cup {0}] /\ node' \in [Inode -> Obj \cup {Missing}]
  BY <1>1, <1>2
<1>5. \A q \in Path : fs[q] # 0 => node'[fs[q]].type = node[fs[q]].type
  BY <1>3
<1> QED BY <1>1, <1>3, <1>4, <1>5

(* link() and rename(): an object that is no directory gets the name p,     *)
(* and loses the name it had if it is moved.                                *)
LEMMA NameSound ==
  ASSUME WellFormed(fs, node), NEW p \in Path, NEW q \in Path, p # q,
         ~IsDir(p), Exists(q), ~IsDir(q),
         Parent(p) # 0 => IsDir(Parent(p)),
         \/ Settled([fs EXCEPT ![p] = fs[q]], node)
         \/ Settled([fs EXCEPT ![p] = fs[q], ![q] = 0], node)
  PROVE  WellFormed(fs, node)'
<1> USE Basics, PathAssumption, ParentAbove DEF WellFormed
<1>1. /\ \/ fs' = [fs EXCEPT ![p] = fs[q]]
         \/ fs' = [fs EXCEPT ![p] = fs[q], ![q] = 0]
      /\ node' = [i \in Inode |-> IF \E r \in Path : fs'[r] = i THEN node[i] ELSE Missing]
  BY DEF Settled
<1>2. /\ fs[q] \in Inode /\ fs'[p] = fs[q] /\ node[fs[q]].type # "d"
      /\ \A r \in Path : r # p /\ r # q => fs'[r] = fs[r]
      /\ fs'[q] # 0 => fs'[q] = fs[q]
  BY <1>1 DEF Exists, IsDir, Lstat
<1>3. fs' \in [Path -> Inode \cup {0}] /\ node' \in [Inode -> Obj \cup {Missing}]
  BY <1>1
<1>4. \A r \in Path : fs'[r] # 0 => node'[fs'[r]] = node[fs'[r]]
  BY <1>1, <1>3
<1>5. \A i \in Inode : node'[i] = Missing <=> \A r \in Path : fs'[r] # i
  <2> SUFFICES ASSUME NEW i \in Inode
               PROVE  node'[i] = Missing <=> \A r \in Path : fs'[r] # i
    OBVIOUS
  <2>1. CASE \E r \in Path : fs'[r] = i
    <3>1. \E r \in Path : fs[r] = i
      BY <1>2, <2>1
    <3> QED BY <1>1, <2>1, <3>1
  <2>2. CASE \A r \in Path : fs'[r] # i
    BY <1>1, <2>2
  <2> QED BY <2>1, <2>2
<1>6. ASSUME NEW r \in Path, fs'[r] # 0, Parent(r) # 0
      PROVE  fs'[Parent(r)] # 0 /\ node'[fs'[Parent(r)]].type = "d"
  <2>1. Parent(r) \in Path
    BY <1>6
  <2>2. fs[Parent(r)] # 0 /\ node[fs[Parent(r)]].type = "d"
    <3>1. CASE r = p
      BY <1>6, <2>1, <3>1 DEF IsDir, Lstat, Missing
    <3>2. CASE r # p
      <4>1. fs[r] # 0
        BY <1>2, <1>6, <3>2
      <4> QED BY <1>6, <4>1
    <3> QED BY <3>1, <3>2
  <2>3. Parent(r) # p /\ Parent(r) # q
    BY <2>2 DEF IsDir, Lstat
  <2> QED BY <1>2, <1>4, <2>1, <2>2, <2>3
<1>7. \A r, s \in Path : fs[r] # 0 /\ fs[r] = fs[s] /\ r # s => node[fs[r]].type # "d"
  OBVIOUS
<1>8. ASSUME NEW r \in Path, NEW s \in Path, fs'[r] # 0, fs'[r] = fs'[s], r # s
      PROVE  node'[fs'[r]].type # "d"
  <2>1. CASE r = p \/ s = p
    BY <1>2, <1>4, <1>8, <2>1
  <2>2. CASE r # p /\ s # p
    <3>1. fs[r] # 0 /\ fs'[r] = fs[r] /\ fs'[s] = fs[s]
      BY <1>2, <1>8, <2>2
    <3>2. node[fs[r]].type # "d"
      BY <1>7, <1>8, <3>1, Zenon
    <3> QED BY <1>4, <1>8, <3>1, <3>2
  <2> QED BY <2>1, <2>2
<1> QED BY <1>3, <1>5, <1>6, <1>8

(* What lstat() gives is an object, or Missing if there is nothing.         *)
LEMMA LstatType ==
  ASSUME WellFormed(fs, node), NEW p \in Path
  PROVE  /\ Lstat(p) \in Obj \cup {Missing}
         /\ Exists(p) <=> Lstat(p) \in Obj
         /\ Lstat(p).type \in Types \cup {"X"}
         /\ Lstat(p).type # "X" <=> Exists(p)
BY Basics DEF WellFormed, Lstat, Exists, Obj

(* Nothing is below what is not a directory.                                *)
LEMMA NothingBelow ==
  ASSUME WellFormed(fs, node), NEW p \in Path, ~IsDir(p)
  PROVE  \A c \in Path : Exists(c) => Parent(c) # p
BY Basics DEF WellFormed, IsDir, Lstat, Exists

(* A new name shows the new object.                                         *)
LEMMA CreateLstat ==
  ASSUME WellFormed(fs, node), NEW p \in Path, NEW o \in Obj, Create(p, o)
  PROVE  Lstat(p)' = o /\ Exists(p)'
<1>1. PICK i \in Inode :
        /\ \A q \in Path : fs[q] # i
        /\ Settled([fs EXCEPT ![p] = i], [node EXCEPT ![i] = o])
  BY Zenon DEF Create
<1>2. fs'[p] = i /\ node'[i] = o
  BY <1>1 DEF Settled, WellFormed
<1> QED BY <1>2, Basics DEF Lstat, Exists

(* Objects differing from an object in these fields only are objects.       *)
LEMMA ObjFields ==
  ASSUME NEW o \in Obj
  PROVE  /\ \A d \in Data : o.type = "f" => [o EXCEPT !.data = d] \in Obj
         /\ \A t \in Times : [o EXCEPT !.mtime = t] \in Obj
         /\ \A u \in Owners, m \in Modes : [o EXCEPT !.own = u, !.mode = m] \in Obj
         /\ \A u \in Owners : [o EXCEPT !.own = u] \in Obj
         /\ \A m \in Modes : [o EXCEPT !.mode = m] \in Obj
         /\ o.own \in Owners /\ o.mode \in Modes /\ o.mtime \in Times
BY Basics DEF Obj
-----------------------------------------------------------------------------
(* While do_line() is at work its line is one of the plan; a '+' line is    *)
(* for a file, and from open() to rename() its temporary file is there.     *)
JobOK ==
  /\ phase \in {"line", "place"} => job = Idle
  /\ phase \notin {"line", "place"} => job.line \in Edit
  /\ job.back = "place" => ln > 0
  /\ phase \in {"request", "open", "body", "check", "rename"} => job.line.op = "+"
  /\ job.line.op = "+" /\ phase # "request" => Want.type = "f"
  /\ phase \in {"open", "body"} => job.got \in Data
  /\ job.line.op = "+" /\ phase \in {"body", "check", "update", "own", "mode", "rename"} =>
       TempOf(job.line.path) # 0 /\ (Working => Lstat(Target).type = "f")

TreeInv == TypeOK /\ JobOK

(* The path that do_line() works on, and the line that main() is at.        *)
LEMMA TargetPath ==
  ASSUME TreeInv
  PROVE  /\ phase \in {"update", "own", "mode", "body", "check", "rename"} => Target \in Path
         /\ phase = "open" /\ TempOf(job.line.path) # 0 => Target \in Path
         /\ phase \notin {"line", "place"} => job.line.path \in Path /\ Want \in Obj
         /\ Want.own \in Owners /\ Want.mode \in Modes /\ Want.mtime \in Times
         /\ phase = "place" => Current \in Edit
         /\ phase = "line" /\ More => plan[ln + 1] \in Edit
<1>1. job.line \in Edit \cup {NoLine} /\ pid \in Pid
  BY DEF TreeInv, TypeOK, Job
<1>2. phase \notin {"line", "place"} => job.line \in Edit
  BY DEF TreeInv, JobOK
<1>3. job.line \in Edit => job.line.path \in Path /\ Want \in Obj
  BY DEF Edit, Want
<1>4. job.line \in Edit /\ TempOf(job.line.path) # 0 => TempOf(job.line.path) \in Path
  BY <1>1, <1>3, LapplyAssumption DEF TempOf, LapplyAssumption
<1>5. /\ phase \in {"update", "own", "mode", "body", "check", "rename"} => Target \in Path
      /\ phase = "open" /\ TempOf(job.line.path) # 0 => Target \in Path
  BY <1>2, <1>3, <1>4 DEF Target, TreeInv, JobOK
<1>6. Want.own \in Owners /\ Want.mode \in Modes /\ Want.mtime \in Times
  <2>1. CASE job.line \in Edit
    BY <1>3, <2>1, ObjFields
  <2>2. CASE job.line = NoLine
    <3>1. Want = Missing
      BY <2>2, NoLineFields DEF Want
    <3>2. Missing.own = 0 /\ Missing.mode = 0 /\ Missing.mtime = 0
      BY DEF Missing
    <3> QED BY <3>1, <3>2, ObjectAssumption DEF ObjectAssumption
  <2> QED BY <1>1, <2>1, <2>2
<1>7. plan \in Seq(Edit) /\ ln \in 0..Len(plan) /\ (phase = "place" => ln > 0)
  BY DEF TreeInv, TypeOK
<1>8. Len(plan) \in Nat /\ \A n \in 1..Len(plan) : plan[n] \in Edit
  BY <1>7, ElementOfSeq, LenProperties
<1>9. phase = "place" => Current \in Edit
  BY <1>7, <1>8 DEF Current
<1>10. phase = "line" /\ More => plan[ln + 1] \in Edit
  BY <1>7, <1>8 DEF More
<1> QED BY <1>2, <1>3, <1>5, <1>6, <1>9, <1>10

(* A temporary file is beside its file, never the file itself.              *)
LEMMA TempApart ==
  ASSUME NEW p \in Path, pid \in Pid, TempOf(p) # 0
  PROVE  TempOf(p) \in Path /\ TempOf(p) # p
<1>1. TempOf(p) \in Path /\ TempOf(p) > Last[p]
  BY LapplyAssumption DEF LapplyAssumption, TempOf
<1>2. p <= Last[p] /\ Last[p] \in Path
  BY PathAssumption DEF PathAssumption
<1> QED BY <1>1, <1>2 DEF Path

(* The removal list holds removals.                                         *)
LEMMA HeadRemoval ==
  ASSUME TreeInv, heads # <<>>
  PROVE  /\ Head(heads) \in Removal /\ Tail(heads) \in Seq(Removal)
         /\ Head(heads).path \in Path /\ Head(heads).line \in Edit \cup {NoLine}
<1>1. heads \in Seq(Removal)
  BY DEF TreeInv, TypeOK
<1>2. Head(heads) \in Removal /\ Tail(heads) \in Seq(Removal)
  BY <1>1, HeadTailProperties
<1> QED BY <1>2 DEF Removal

(* mkprefix() makes a directory like the one it is made in.                 *)
LEMMA PrefixParts ==
  ASSUME TreeInv, MakePrefix
  PROVE  LET q == Least(Lacking(Target))
         IN  /\ q \in Path /\ CanCreate(q) /\ Create(q, Lstat(Parent(q)))
             /\ Lstat(Parent(q)) \in Obj /\ Lstat(Parent(q)).type = "d"
<1> DEFINE q == Least(Lacking(Target))
<1>1. Target \in Path
  BY TargetPath DEF MakePrefix
<1>2. q \in Path
  <2>1. Lacking(Target) \in SUBSET Nat /\ Lacking(Target) # {}
    BY DEF MakePrefix, Lacking
  <2>2. q \in Lacking(Target)
    BY <2>1, LeastMember
  <2> QED BY <1>1, <2>2, PathAssumption DEF Lacking, Path, PathAssumption
<1>3. Parent(q) \in Path /\ CanCreate(q) /\ Create(q, Lstat(Parent(q))) /\ IsDir(Parent(q))
  BY <1>2, ParentAbove, PathAssumption DEF MakePrefix, CanCreate
<1>4. Lstat(Parent(q)) \in Obj
  BY <1>3, LstatType DEF IsDir, Missing, TreeInv, TypeOK
<1> QED BY <1>2, <1>3, <1>4 DEF IsDir

(* Every call of lapply leaves a sound file system.                         *)
LEMMA TreeSound ==
  ASSUME TreeInv, Step
  PROVE  WellFormed(fs, node)'
<1>1. WellFormed(fs, node)
  BY DEF TreeInv, TypeOK
<1>2. ASSUME UNCHANGED tree
      PROVE  WellFormed(fs, node)'
  BY <1>1, <1>2 DEF tree, WellFormed
<1>3. CASE Pop
  <2>1. Head(heads).path \in Path
    BY <1>3, HeadRemoval DEF Pop, Due
  <2>2. \A c \in Path : Exists(c) => Parent(c) # Head(heads).path
    BY <1>3 DEF Pop, CanRmdir, Children
  <2> QED BY <1>1, <1>3, <2>1, <2>2, UnlinkSound DEF Pop
<1>4. CASE Remove
  <2>1. CASE CanUnlink(Current.path) /\ Unlink(Current.path)
    <3>1. Current.path \in Path
      BY <1>4, TargetPath DEF Remove, Edit
    <3> QED BY <1>1, <2>1, <3>1, NothingBelow, UnlinkSound DEF CanUnlink
  <2> QED BY <1>2, <1>4, <2>1 DEF Remove
<1>5. CASE Open
  <2> DEFINE t == TempOf(job.line.path)
             o == [type |-> "f", data |-> Partial, own |-> 0, mode |-> TempMode,
                   mtime |-> Now]
  <2>1. CASE CanCreate(t) /\ Create(t, o)
    <3>1. o \in Obj
      BY LapplyAssumption, ObjectAssumption DEF Obj, Types, LapplyAssumption, ObjectAssumption
    <3>2. t \in Path
      BY <1>5, TargetPath DEF Open, Target, TreeInv, JobOK
    <3> QED BY <1>1, <2>1, <3>1, <3>2, CreateSound
  <2> QED BY <1>2, <1>5, <2>1 DEF Open
<1>6. CASE Body
  <2> DEFINE old == Lstat(Target)
             d   == IF job.fresh THEN job.got ELSE Overwritten(old.data, job.got)
             o   == [old EXCEPT !.data = d, !.mtime = Now]
  <2>1. Target \in Path /\ old.type = "f" /\ job.got \in Data
    BY <1>6, TargetPath DEF Body, TreeInv, JobOK, Step
  <2>2. old \in Obj /\ Exists(Target)
    BY <1>1, <2>1, LstatType DEF Missing
  <2>3. d \in Data /\ Now \in Times
    BY <2>1, LapplyAssumption DEF Overwritten, LapplyAssumption
  <2>4. o \in Obj /\ o.type = old.type
    BY <2>1, <2>2, <2>3 DEF Obj
  <2>5. Set(Target, o)
    BY <1>6 DEF Body
  <2> QED BY <1>1, <2>1, <2>2, <2>4, <2>5, SetSound
<1>7. CASE Clear
  <2>1. Target \in Path
    BY <1>7, TargetPath DEF Clear
  <2> QED BY <1>1, <1>7, <2>1, NothingBelow, UnlinkSound DEF Clear, CanUnlink
<1>8. CASE Make
  <2> DEFINE o == [type |-> Want.type, data |-> Want.data, own |-> 0,
                   mode |-> Umask(Want.mode), mtime |-> 0]
  <2>1. Target \in Path /\ Want \in Obj /\ Want.mode \in Modes
    BY <1>8, TargetPath DEF Make
  <2>2. o \in Obj
    <3>1. Umask(Want.mode) \in Modes
      BY <2>1, LapplyAssumption DEF LapplyAssumption
    <3> QED BY <2>1, <3>1, ObjectAssumption DEF Obj, ObjectAssumption
  <2>3. CanCreate(Target) /\ Create(Target, o)
    BY <1>8 DEF Make
  <2> QED BY <1>1, <2>1, <2>2, <2>3, CreateSound
<1>9. CASE Symlink
  <2> DEFINE o == [Want EXCEPT !.own = 0, !.mode = 0, !.mtime = 0]
  <2>1. Target \in Path /\ Want \in Obj
    BY <1>9, TargetPath DEF Symlink
  <2>2. o \in Obj
    BY <2>1, ObjectAssumption DEF Obj, ObjectAssumption
  <2>3. CanCreate(Target) /\ Create(Target, o)
    BY <1>9 DEF Symlink
  <2> QED BY <1>1, <2>1, <2>2, <2>3, CreateSound
<1>10. CASE Link
  <2>1. Target \in Path /\ Want \in Obj /\ Want.type = "h"
    BY <1>10, TargetPath DEF Link
  <2>2. Want.data \in Path
    BY <2>1 DEF Obj
  <2>3. ~IsDir(Target) /\ Target # Want.data /\ (Parent(Target) # 0 => IsDir(Parent(Target)))
    BY <1>10 DEF Link, CanCreate, Exists, IsDir, Lstat, Missing
  <2> QED BY <1>1, <1>10, <2>1, <2>2, <2>3, NameSound DEF Link
<1>11. CASE MakePrefix
  <2> DEFINE q == Least(Lacking(Target))
  <2>1. q \in Path /\ CanCreate(q) /\ Create(q, Lstat(Parent(q))) /\ Lstat(Parent(q)) \in Obj
    BY <1>11, PrefixParts
  <2> QED BY <1>1, <2>1, CreateSound
<1>12. CASE SetTime \/ SetOwner \/ SetMode
  <2>1. Target \in Path /\ Want.own \in Owners /\ Want.mode \in Modes /\ Want.mtime \in Times
    BY <1>12, TargetPath DEF SetTime, SetOwner, SetMode
  <2> DEFINE old == Lstat(Target)
  <2>2. ASSUME NEW o \in Obj, o.type = old.type, Exists(Target), Set(Target, o)
        PROVE  WellFormed(fs, node)'
    BY <1>1, <2>1, <2>2, SetSound
  <2>3. Exists(Target) => old \in Obj
    BY <1>1, <2>1, LstatType
  <2>4. old.mode \in Modes => Cleared(old.mode) \in Modes
    BY LapplyAssumption DEF LapplyAssumption
  <2>5. CASE SetTime
    <3>1. Exists(Target) => [old EXCEPT !.mtime = Want.mtime] \in Obj
      BY <2>1, <2>3, ObjFields
    <3>2. [old EXCEPT !.mtime = Want.mtime].type = old.type \/ ~Exists(Target)
      BY <2>3 DEF Obj
    <3> QED BY <1>2, <2>2, <2>5, <3>1, <3>2 DEF SetTime
  <2>6. CASE SetOwner
    <3> DEFINE o == [old EXCEPT !.own = Want.own,
                                !.mode = IF old.type = "f" THEN Cleared(@) ELSE @]
    <3>1. Exists(Target) => o \in Obj /\ o.type = old.type
      BY <2>1, <2>3, <2>4 DEF Obj
    <3> QED BY <1>2, <2>2, <2>6, <3>1 DEF SetOwner
  <2>7. CASE SetMode
    <3> DEFINE o == [old EXCEPT !.mode = Want.mode]
    <3>1. Exists(Target) => o \in Obj /\ o.type = old.type
      BY <2>1, <2>3 DEF Obj
    <3> QED BY <1>2, <2>2, <2>7, <3>1 DEF SetMode
  <2> QED BY <1>12, <2>5, <2>6, <2>7
<1>13. CASE Rename
  <2>1. Target \in Path /\ job.line.path \in Path /\ Lstat(Target).type = "f"
        /\ Target = TempOf(job.line.path) /\ Target # 0
    BY <1>13, TargetPath DEF Rename, TreeInv, JobOK, Target, Step
  <2>2. Exists(Target) /\ ~IsDir(Target)
    BY <1>1, <2>1, LstatType DEF IsDir
  <2>3. Target # job.line.path
    BY <2>1, TempApart DEF TreeInv, TypeOK
  <2> QED BY <1>1, <1>13, <2>1, <2>2, <2>3, NameSound DEF Rename
<1>14. CASE Fail
  <2>1. CASE phase \in {"body", "check"}
    <3>1. Target \in Path /\ Lstat(Target).type = "f"
      BY <2>1, TargetPath DEF TreeInv, JobOK, Step
    <3>2. ~IsDir(Target)
      BY <3>1 DEF IsDir
    <3> QED BY <1>1, <1>14, <2>1, <3>1, <3>2, NothingBelow, UnlinkSound DEF Fail
  <2> QED BY <1>2, <1>14, <2>1 DEF Fail
<1>15. CASE \/ Skip \/ Read \/ Push \/ Apply \/ (\E d \in Data : Request(d)) \/ Check
            \/ NoSocket \/ Succeed \/ CloseFails \/ Kill
  BY <1>2, <1>15
  DEF Skip, Read, Push, Apply, Request, Check, NoSocket, Succeed, CloseFails, Kill, tree
<1> QED
  BY <1>3, <1>4, <1>5, <1>6, <1>7, <1>8, <1>9, <1>10, <1>11, <1>12, <1>13, <1>14, <1>15
  DEF Step, Advance

(* do_line() is called with a line of the plan, from main() or for a        *)
(* directory that has just been removed.                                    *)
LEMMA StartType ==
  ASSUME NEW line \in Edit, NEW present \in BOOLEAN, NEW back \in {"line", "place"},
         NEW stat \in Obj \cup {Missing}, Start(line, present, back, stat)
  PROVE  /\ job' \in Job /\ job'.line = line /\ job'.back = back
         /\ phase' = IF line.op = "+" THEN "request" ELSE "update"
         /\ st' \in Obj \cup {Missing}
BY NoLineFields DEF Start, Job

(* do_line() returns to where main() was.                                   *)
LEMMA DoneType ==
  ASSUME TypeOK, Done
  PROVE  job' = Idle /\ job' \in Job /\ phase' \in {"line", "place"} /\ phase' = job.back
         /\ change' \in BOOLEAN
BY NoLineFields DEF Done, TypeOK, Job

(* The types of main()'s variables, of do_line()'s and of the outcome.      *)
MainOK ==
  /\ plan \in Seq(Edit) /\ opt \in Options /\ pid \in Pid /\ ln \in 0..Len(plan)
  /\ prev \in Path \cup {0} /\ found \in Types \cup {"X"}
  /\ heads \in Seq(Removal)
WorkOK ==
  /\ phase \in Phases /\ (phase = "place" => ln > 0)
  /\ job \in Job /\ st \in Obj \cup {Missing}
EndOK ==
  /\ change \in BOOLEAN /\ exit \in {"run", "0", "1", "2", "killed"}
  /\ faults \in 0..MaxFaults

LEMMA TypeParts == TypeOK <=> WellFormed(fs, node) /\ MainOK /\ WorkOK /\ EndOK
BY DEF TypeOK, MainOK, WorkOK, EndOK

(* main() has its variables to itself.                                      *)
LEMMA MainStep ==
  ASSUME TreeInv, Step
  PROVE  MainOK'
<1>1. MainOK
  BY TypeParts DEF TreeInv
<1>2. ASSUME UNCHANGED main
      PROVE  MainOK'
  BY <1>1, <1>2 DEF MainOK, main
<1>3. CASE Skip
  <2>1. ln' \in 0..Len(plan)
    BY <1>1, <1>3, LenProperties DEF MainOK, Skip, More
  <2> QED BY <1>1, <1>3, <2>1 DEF MainOK, Skip
<1>4. CASE Read
  <2>1. plan[ln + 1].path \in Path
    BY <1>4, TargetPath DEF Read, Edit
  <2>2. prev' \in Path /\ found' \in Types \cup {"X"}
    BY <1>4, <2>1, LstatType DEF Read, TreeInv, TypeOK
  <2>3. ln' \in 0..Len(plan)
    BY <1>1, <1>4, LenProperties DEF MainOK, Read, More
  <2> QED BY <1>1, <1>4, <2>2, <2>3 DEF MainOK, Read
<1>5. CASE Pop
  <2>1. heads' \in Seq(Removal)
    BY <1>5, HeadRemoval DEF Pop, Due
  <2> QED BY <1>1, <1>5, <2>1 DEF MainOK, Pop
<1>6. CASE Push
  <2> DEFINE r == [path |-> Current.path, line |-> IF Differs THEN Current ELSE NoLine]
  <2>1. r \in Removal
    <3>1. Current \in Edit /\ Current.path \in Path
      BY <1>6, TargetPath DEF Push, Edit
    <3> QED BY <3>1 DEF Removal
  <2>2. <<r>> \o heads \in Seq(Removal)
    <3>1. <<r>> \in Seq(Removal)
      BY <2>1
    <3> QED BY <1>1, <3>1, ConcatProperties DEF MainOK
  <2> QED BY <1>1, <1>6, <2>2 DEF MainOK, Push
<1>7. CASE Remove
  BY <1>1, <1>7 DEF MainOK, Remove
<1>8. ASSUME NEW d \in Data, Request(d)
      PROVE  MainOK'
  BY <1>2, <1>8 DEF Request
<1>9. CASE Apply \/ Open \/ Body \/ Check \/ Clear \/ Make \/ Symlink \/ Link \/ NoSocket
  BY <1>2, <1>9 DEF Apply, Open, Body, Check, Clear, Make, Symlink, Link, NoSocket
<1>10. CASE \/ MakePrefix \/ SetTime \/ SetOwner \/ SetMode \/ Rename
            \/ Succeed \/ Fail \/ CloseFails \/ Kill
  BY <1>2, <1>10
  DEF MakePrefix, SetTime, SetOwner, SetMode, Rename, Succeed, Fail, CloseFails, Kill, Stop
<1> QED
  BY <1>3, <1>4, <1>5, <1>6, <1>7, <1>8, <1>9, <1>10 DEF Step, Advance

(* do_line() works on a line of the plan.                                   *)
LEMMA WorkStep ==
  ASSUME TreeInv, Step
  PROVE  WorkOK'
<1>1. WorkOK /\ MainOK
  BY TypeParts DEF TreeInv
<1>2. ASSUME UNCHANGED <<phase, job, st, ln>>
      PROVE  WorkOK'
  BY <1>1, <1>2 DEF WorkOK
<1>3. ASSUME job' \in Job, st' \in Obj \cup {Missing}, phase' \in Phases \ {"place"}
      PROVE  WorkOK'
  BY <1>3 DEF WorkOK
<1>4. ASSUME Done, st' = st, ln' = ln
      PROVE  WorkOK'
  <2>1. job' \in Job /\ phase' \in {"line", "place"} /\ phase' = job.back
    BY <1>4, DoneType DEF TreeInv
  <2>2. job.back = "place" => ln > 0
    BY DEF TreeInv, JobOK
  <2> QED BY <1>1, <1>4, <2>1, <2>2 DEF WorkOK, Phases
<1>5. CASE Skip \/ Succeed \/ Fail \/ CloseFails \/ Kill
  <2>1. CASE Skip
    BY <1>1, <2>1 DEF Skip, WorkOK
  <2> QED BY <1>2, <1>5, <2>1 DEF Succeed, Fail, CloseFails, Kill, Stop, main
<1>6. CASE Read
  <2>1. plan[ln + 1].path \in Path
    BY <1>6, TargetPath DEF Read, Edit
  <2>2. st' \in Obj \cup {Missing} /\ ln' > 0
    BY <1>1, <1>6, <2>1, LenProperties, LstatType DEF Read, TreeInv, TypeOK, MainOK
  <2> QED BY <1>1, <1>6, <2>2 DEF Read, WorkOK, Phases
<1>7. CASE Pop
  <2>1. phase \in {"line", "place"}
    BY <1>7 DEF Pop, Due
  <2>2. CASE Head(heads).line = NoLine
    BY <1>2, <1>7, <2>2 DEF Pop
  <2>3. CASE Head(heads).line # NoLine
    <3>1. Head(heads).line \in Edit
      BY <1>7, <2>3, HeadRemoval DEF Pop, Due
    <3>2. Start(Head(heads).line, FALSE, phase, st)
      BY <1>7, <2>3 DEF Pop
    <3>3. st \in Obj \cup {Missing}
      BY <1>1 DEF WorkOK
    <3>4. job' \in Job /\ st' \in Obj \cup {Missing} /\ phase' \in {"request", "update"}
      BY <2>1, <3>1, <3>2, <3>3, StartType
    <3> QED BY <1>3, <3>4 DEF Phases
  <2> QED BY <2>2, <2>3
<1>8. CASE Push
  BY <1>1, <1>8 DEF Push, WorkOK, Phases
<1>9. CASE Remove \/ Apply
  <2>1. Current \in Edit /\ st \in Obj \cup {Missing}
    BY <1>1, <1>9, TargetPath DEF Remove, Apply, WorkOK
  <2>2. Lstat(Current.path) \in Obj \cup {Missing}
    BY <2>1, LstatType DEF Edit, TreeInv, TypeOK
  <2>3. \/ phase' = "line" /\ job' = job /\ st' = st
        \/ Start(Current, FALSE, "line", st)
        \/ Start(Current, found # "X", "line", st)
        \/ Start(Current, found # "X", "line", Lstat(Current.path))
    BY <1>9 DEF Remove, Apply
  <2>4. \/ phase' = "line" /\ job' = job /\ st' = st
        \/ job' \in Job /\ st' \in Obj \cup {Missing} /\ phase' \in {"request", "update"}
    BY <2>1, <2>2, <2>3, StartType
  <2> QED BY <1>1, <1>3, <2>4 DEF WorkOK, Phases
<1>10. ASSUME NEW d \in Data, Request(d)
       PROVE  WorkOK'
  BY <1>1, <1>10 DEF Request, WorkOK, Job, Phases
<1>11. CASE Open
  BY <1>1, <1>11 DEF Open, WorkOK, Job, Phases
<1>12. CASE Body \/ Symlink \/ SetTime
  BY <1>1, <1>3, <1>12 DEF Body, Symlink, SetTime, WorkOK, Phases
<1>13. CASE Check
  BY <1>1, <1>3, <1>13, TargetPath, LstatType DEF Check, WorkOK, Phases, TreeInv, TypeOK
<1>14. CASE Clear
  BY <1>1, <1>14 DEF Clear, WorkOK, Job, Phases
<1>15. CASE Make
  <2>1. Want.type \in Types /\ Want \in Obj
    BY <1>15, TargetPath DEF Make, Obj
  <2>2. st' \in Obj
    BY <1>15, <2>1, LapplyAssumption, ObjectAssumption
    DEF Make, Obj, LapplyAssumption, ObjectAssumption
  <2> QED BY <1>1, <1>3, <1>15, <2>2 DEF Make, WorkOK, Phases
<1>16. CASE Link \/ NoSocket \/ Rename
  BY <1>4, <1>16 DEF Link, NoSocket, Rename, main
<1>17. CASE MakePrefix
  BY <1>2, <1>17 DEF MakePrefix, main
<1>18. CASE SetOwner \/ SetMode
  <2>1. Done \/ (phase' \in {"mode", "rename"} /\ job' = job)
    BY <1>18 DEF SetOwner, SetMode
  <2> QED BY <1>1, <1>3, <1>4, <1>18, <2>1 DEF SetOwner, SetMode, main, WorkOK, Phases
<1> QED
  BY <1>5, <1>6, <1>7, <1>8, <1>9, <1>10, <1>11, <1>12, <1>13, <1>14, <1>15, <1>16,
     <1>17, <1>18
  DEF Step, Advance

(* A call fails of itself at most MaxFaults times.                          *)
LEMMA EndStep ==
  ASSUME TreeInv, Step
  PROVE  EndOK'
<1>1. EndOK
  BY TypeParts DEF TreeInv
<1> USE DEF EndOK
<1>2. ASSUME change' \in BOOLEAN, UNCHANGED <<exit, faults>>
      PROVE  EndOK'
  BY <1>1, <1>2
<1>3. ASSUME NEW d \in Data, Request(d)
      PROVE  EndOK'
  BY <1>1, <1>3, LapplyAssumption DEF Request, LapplyAssumption
<1>4. CASE \/ Skip \/ Read \/ Pop \/ Push \/ Remove \/ Apply \/ Open \/ Body \/ Check
           \/ Clear \/ Make \/ Symlink \/ Link \/ NoSocket \/ MakePrefix
           \/ SetTime \/ SetOwner \/ SetMode \/ Rename
  <2>1. (change' = change \/ Done) /\ UNCHANGED <<exit, faults>>
    BY <1>4
    DEF Skip, Read, Pop, Push, Remove, Apply, Open, Body, Check, Clear, Make, Symlink,
        Link, NoSocket, MakePrefix, SetTime, SetOwner, SetMode, Rename
  <2> QED BY <1>1, <1>2, <2>1 DEF Done
<1>5. CASE Succeed \/ Fail \/ CloseFails \/ Kill
  <2>1. change' = change /\ exit' \in {"0", "1", "2", "killed"}
    BY <1>5 DEF Succeed, Fail, CloseFails, Kill, Stop
  <2>2. faults' = faults \/ (faults < MaxFaults /\ faults' = faults + 1)
    BY <1>5 DEF Succeed, Fail, CloseFails, Kill, Fault, Bound
  <2> QED BY <1>1, <2>1, <2>2, LapplyAssumption DEF LapplyAssumption
<1> QED BY <1>3, <1>4, <1>5 DEF Step, Advance

(* The temporary file is there, as a file, from open() to rename().         *)
LEMMA JobStep ==
  ASSUME TreeInv, Step
  PROVE  JobOK'
<1>1. WellFormed(fs, node) /\ WorkOK /\ JobOK /\ Working
  BY TypeParts DEF TreeInv, Step
<1>2. ASSUME UNCHANGED <<tree, phase, job, pid, exit>>, job.back = "place" => ln' > 0
      PROVE  JobOK'
  BY <1>1, <1>2 DEF JobOK, tree, Want, Target, TempOf, Working, Lstat
<1>3. ASSUME job' = Idle, phase' \in {"line", "place"}
      PROVE  JobOK'
  BY <1>3, NoLineFields DEF JobOK
<1>4. ASSUME Done
      PROVE  JobOK'
  BY <1>3, <1>4, DoneType DEF TreeInv
<1>5. ASSUME job'.line \in Edit, job'.back = "place" => ln' > 0,
             job'.line.op # "+", phase' \in {"update", "own", "mode"}
      PROVE  JobOK'
  BY <1>5 DEF JobOK
<1>6. ASSUME NEW line \in Edit, NEW present, NEW back \in {"line", "place"}, NEW stat,
             Start(line, present, back, stat), back = "place" => ln' > 0
      PROVE  JobOK'
  <2>1. job'.line = line /\ job'.back = back /\ phase' = IF line.op = "+" THEN "request" ELSE "update"
    BY <1>6 DEF Start, Idle
  <2> QED BY <1>6, <2>1 DEF JobOK
<1>7. ASSUME job.line.op = "+", phase \in {"open", "body", "check", "update", "own", "mode"},
             phase' \in {"body", "check", "update", "own", "mode", "rename"},
             job'.line = job.line, job'.back = job.back, job'.got = job.got,
             TempOf(job.line.path) # 0, Lstat(Target)'.type = "f",
             phase' = "body" => phase = "open",
             UNCHANGED main
      PROVE  JobOK'
  BY <1>1, <1>7 DEF JobOK, main, Want, Target, TempOf
<1>8. ASSUME UNCHANGED <<main, phase, job>>, exit' # "run"
      PROVE  JobOK'
  BY <1>1, <1>8 DEF JobOK, main, Want, TempOf, Working
<1>9. CASE Skip \/ Read \/ Push
  BY <1>1, <1>3, <1>9 DEF Skip, Read, Push, JobOK
<1>10. CASE Pop
  <2>1. phase \in {"line", "place"} /\ ln' = ln /\ job = Idle /\ (phase = "place" => ln > 0)
    BY <1>1, <1>10 DEF Pop, Due, JobOK, WorkOK
  <2>2. CASE Head(heads).line = NoLine
    BY <1>3, <1>10, <2>1, <2>2 DEF Pop
  <2>3. CASE Head(heads).line # NoLine
    <3>1. Head(heads).line \in Edit
      BY <1>10, <2>3, HeadRemoval DEF Pop, Due
    <3> QED BY <1>6, <1>10, <2>1, <2>3, <3>1 DEF Pop
  <2> QED BY <2>2, <2>3
<1>11. CASE Remove \/ Apply
  <2>1. Current \in Edit
    BY <1>11, TargetPath DEF Remove, Apply
  <2>2. CASE Remove
    <3>1. CASE Current.op = "-"
      BY <1>1, <1>3, <2>2, <3>1 DEF Remove, JobOK
    <3>2. CASE Current.op # "-"
      BY <1>6, <2>1, <2>2, <3>2 DEF Remove
    <3> QED BY <3>1, <3>2
  <2>3. CASE Apply
    BY <1>6, <2>1, <2>3 DEF Apply
  <2> QED BY <1>11, <2>2, <2>3
<1>12. ASSUME NEW d \in Data, Request(d)
       PROVE  JobOK'
  <2>1. /\ job'.line = job.line /\ job'.back = job.back /\ job'.got = d
        /\ phase = "request" /\ phase' = "open" /\ Want.type = "f" /\ UNCHANGED main
    BY <1>1, <1>12 DEF Request, WorkOK, Job
  <2> QED BY <1>1, <2>1 DEF JobOK, main, Want
<1>13. CASE Open
  <2> DEFINE t == TempOf(job.line.path)
             o == [type |-> "f", data |-> Partial, own |-> 0, mode |-> TempMode,
                   mtime |-> Now]
  <2>1. phase = "open" /\ phase' = "body" /\ t # 0 /\ UNCHANGED main
    BY <1>13 DEF Open
  <2>2. job'.line = job.line /\ job'.back = job.back /\ job'.got = job.got
    BY <1>1, <1>13 DEF Open, WorkOK, Job
  <2>3. job.line.op = "+" /\ Target = t /\ t \in Path
    BY <1>1, <2>1, TargetPath DEF JobOK, Target
  <2>4. PICK q \in Path : q = t
    BY <2>3
  <2>5. Lstat(q)'.type = "f"
    <3>1. o \in Obj
      BY LapplyAssumption, ObjectAssumption DEF Obj, Types, LapplyAssumption, ObjectAssumption
    <3>2. CASE Create(q, o)
      <4>1. Lstat(q)' = o
        BY <1>1, <3>1, <3>2, CreateLstat
      <4> QED BY <4>1
    <3>3. CASE Lstat(q).type = "f" /\ UNCHANGED tree
      BY <3>3 DEF tree, Lstat
    <3> QED BY <1>13, <2>4, <3>2, <3>3 DEF Open
  <2>6. Target' = q
    BY <2>1, <2>2, <2>3, <2>4 DEF Target, TempOf, main
  <2>7. Lstat(Target)'.type = "f"
    BY <2>5, <2>6 DEF Lstat
  <2> QED BY <1>7, <2>1, <2>2, <2>3, <2>7
<1>14. CASE Body \/ Check
  <2>1. /\ phase \in {"body", "check"} /\ phase' \in {"check", "update"}
        /\ UNCHANGED <<main, job>> /\ job.line.op = "+" /\ TempOf(job.line.path) # 0
        /\ Lstat(Target).type = "f" /\ Target \in Path
    BY <1>1, <1>14, TargetPath DEF Body, Check, JobOK
  <2>2. Target' = Target
    BY <2>1 DEF Target, TempOf, main
  <2>3. Lstat(Target)'.type = "f"
    <3>1. CASE Check
      BY <2>1, <3>1 DEF Check, tree, Lstat, Target, TempOf, main
    <3>2. CASE Body
      <4> DEFINE old == Lstat(Target)
                 d   == IF job.fresh THEN job.got ELSE Overwritten(old.data, job.got)
                 o   == [old EXCEPT !.data = d, !.mtime = Now]
      <4>1. old \in Obj /\ Exists(Target)
        BY <1>1, <2>1, LstatType DEF Missing
      <4>2. d \in Data /\ Now \in Times
        BY <1>1, <3>2, LapplyAssumption DEF Body, JobOK, Overwritten, LapplyAssumption
      <4>3. o \in Obj /\ o.type = "f"
        BY <2>1, <4>1, <4>2 DEF Obj
      <4>4. fs' = fs /\ node' = [node EXCEPT ![fs[Target]] = o]
        BY <3>2 DEF Body, Set
      <4>5. fs[Target] # 0 /\ fs[Target] \in Inode
        BY <1>1, <2>1, <4>1 DEF WellFormed, Exists
      <4> QED BY <1>1, <2>2, <4>3, <4>4, <4>5 DEF Lstat, WellFormed
    <3> QED BY <1>14, <3>1, <3>2
  <2> QED BY <1>7, <2>1, <2>3
<1>15. CASE Clear \/ Make \/ Symlink
  <2>1. phase = "update" /\ job.line.op # "+" /\ phase' \in {"update", "own"} /\ UNCHANGED main
    BY <1>1, <1>15 DEF Clear, Make, Symlink, Replaced, There, JobOK
  <2>2. job'.line = job.line /\ job'.back = job.back
    BY <1>1, <1>15 DEF Clear, Make, Symlink, WorkOK, Job
  <2> QED BY <1>1, <1>5, <2>1, <2>2 DEF JobOK, main
<1>16. CASE Link \/ NoSocket \/ Rename
  BY <1>4, <1>16 DEF Link, NoSocket, Rename
<1>17. CASE MakePrefix
  <2>1. UNCHANGED <<main, phase, job>>
    BY <1>17 DEF MakePrefix
  <2>2. phase = "open" \/ (phase = "update" /\ job.line.op # "+")
    BY <1>17 DEF MakePrefix, There
  <2>3. job' = job /\ phase' = phase /\ ln' = ln
    BY <2>1 DEF main
  <2> QED BY <1>1, <2>2, <2>3 DEF JobOK, Want
<1>18. CASE SetTime \/ SetOwner \/ SetMode
  <2>1. /\ phase \in {"update", "own", "mode"} /\ UNCHANGED main /\ Target \in Path
        /\ \/ Done
           \/ phase' \in {"own", "mode", "rename"} /\ job' = job
    BY <1>18, TargetPath DEF SetTime, SetOwner, SetMode
  <2>2. CASE Done
    BY <1>4, <2>2
  <2>3. CASE ~Done /\ job.line.op # "+"
    <3>1. phase' \in {"own", "mode"} /\ job' = job
      BY <1>18, <2>3 DEF SetTime, SetOwner, SetMode
    <3> QED BY <1>1, <1>5, <2>1, <2>3, <3>1 DEF JobOK, main
  <2>4. CASE ~Done /\ job.line.op = "+"
    <3> DEFINE old == Lstat(Target)
    <3>1. /\ Lstat(Target).type = "f" /\ TempOf(job.line.path) # 0 /\ Target' = Target
          /\ phase' \in {"own", "mode", "rename"} /\ job' = job
      BY <1>1, <2>1, <2>4 DEF JobOK, Target, TempOf, main
    <3>2. old \in Obj /\ Exists(Target)
      BY <1>1, <2>1, <3>1, LstatType DEF Missing
    <3>3. Cleared(old.mode) \in Modes
      BY <3>2, LapplyAssumption DEF LapplyAssumption, Obj
    <3>4. UNCHANGED tree \/ \E o \in Obj : o.type = "f" /\ Set(Target, o)
      <4>1. CASE SetTime
        BY <3>1, <3>2, <4>1, TargetPath DEF SetTime, Obj
      <4>2. CASE SetOwner
        BY <3>1, <3>2, <3>3, <4>2, TargetPath DEF SetOwner, Obj
      <4>3. CASE SetMode
        BY <3>1, <3>2, <4>3, TargetPath DEF SetMode, Obj
      <4> QED BY <1>18, <4>1, <4>2, <4>3
    <3>5. Lstat(Target)'.type = "f"
      <4>1. CASE UNCHANGED tree
        BY <3>1, <4>1 DEF tree, Lstat
      <4>2. ASSUME NEW o \in Obj, o.type = "f", Set(Target, o)
            PROVE  Lstat(Target)'.type = "f"
        <5>1. fs' = fs /\ node' = [node EXCEPT ![fs[Target]] = o]
          BY <4>2 DEF Set
        <5>2. fs[Target] # 0 /\ fs[Target] \in Inode
          BY <1>1, <2>1, <3>2 DEF WellFormed, Exists
        <5> QED BY <1>1, <3>1, <4>2, <5>1, <5>2 DEF Lstat, WellFormed
      <4> QED BY <3>4, <4>1, <4>2
    <3> QED BY <1>7, <2>1, <2>4, <3>1, <3>5
  <2> QED BY <2>2, <2>3, <2>4
<1>19. CASE Succeed \/ Fail \/ CloseFails \/ Kill
  BY <1>8, <1>19 DEF Succeed, Fail, CloseFails, Kill, Stop
<1> QED
  BY <1>9, <1>10, <1>11, <1>12, <1>13, <1>14, <1>15, <1>16, <1>17, <1>18, <1>19
  DEF Step, Advance
-----------------------------------------------------------------------------
(* The variables are those of a step that changes nothing, too.             *)
LEMMA TreeInvStep ==
  ASSUME TreeInv, [Next]_vars
  PROVE  TreeInv'
<1>1. CASE Step
  BY <1>1, TreeSound, MainStep, WorkStep, EndStep, JobStep, TypeParts DEF TreeInv, TypeOK,
     MainOK, WorkOK, EndOK
<1>2. CASE UNCHANGED vars
  BY <1>2
  DEF TreeInv, TypeOK, JobOK, WellFormed, vars, tree, main, Want, Target, TempOf, Working,
      Lstat
<1> QED BY <1>1, <1>2 DEF Next, Exited

(* lapply starts with a sound tree and a plan.                              *)
LEMMA TreeInvInit ==
  ASSUME Init
  PROVE  TreeInv
<1>1. WellFormed(fs, node) /\ plan \in Seq(Edit) /\ opt \in Options
  BY StartAssumption DEF Init, StartAssumption
<1>2. heads \in Seq(Removal) /\ Len(plan) \in Nat
  BY <1>1, EmptySeq, LenProperties DEF Init
<1>3. TypeOK
  <2>1. phase \in Phases /\ ~(phase = "place") /\ change \in BOOLEAN /\ exit = "run"
    BY DEF Init, Phases
  <2>2. job \in Job /\ st \in Obj \cup {Missing} /\ found \in Types \cup {"X"}
    BY NoLineFields DEF Init
  <2>3. faults \in 0..MaxFaults /\ ln \in 0..Len(plan) /\ prev \in Path \cup {0} /\ pid \in Pid
    BY <1>2, LapplyAssumption DEF Init, LapplyAssumption
  <2> QED BY <1>1, <1>2, <2>1, <2>2, <2>3 DEF TypeOK
<1>4. JobOK
  BY NoLineFields DEF Init, JobOK
<1> QED BY <1>3, <1>4 DEF TreeInv

(* Whatever lapply does, is refused or is killed in, the file system stays  *)
(* sound: no name without its directory, no name without an object.         *)
THEOREM TypeCorrect == Spec => []TypeOK
<1>1. Init => TreeInv
  BY TreeInvInit
<1>2. TreeInv /\ [Next]_vars => TreeInv'
  BY TreeInvStep
<1>3. TreeInv => TypeOK
  BY DEF TreeInv
<1> QED BY <1>1, <1>2, <1>3, PTL DEF Spec
-----------------------------------------------------------------------------
(* HeadsNested says nothing of the line that main() is at.  It is beyond    *)
(* all the directories to be removed, from the time it has been read until  *)
(* it is dealt with, also while do_line() makes something in the place of   *)
(* one of them.                                                             *)
AtLine == phase = "place" \/ job.back = "place"
Beyond ==
  AtLine => /\ prev = Current.path
            /\ \A n \in DOMAIN heads : heads[n].path < prev
HeadsInv == TreeInv /\ HeadsNested /\ Beyond

(* Every entry of the removal list is a path.                               *)
LEMMA HeadPaths ==
  ASSUME heads \in Seq(Removal)
  PROVE  /\ DOMAIN heads = 1..Len(heads)
         /\ \A n \in DOMAIN heads : heads[n].path \in Path
<1>1. DOMAIN heads = 1..Len(heads)
  BY LenProperties
<1>2. \A n \in 1..Len(heads) : heads[n] \in Removal
  BY ElementOfSeq
<1> QED BY <1>1, <1>2 DEF Removal

(* A directory is added in front of those it is inside of.                  *)
LEMMA PushNested ==
  ASSUME HeadsInv, Push
  PROVE  HeadsNested'
<1> DEFINE r == [path |-> Current.path, line |-> IF Differs THEN Current ELSE NoLine]
<1>1. MainOK /\ Current.path \in Path /\ Current \in Edit
  BY TypeParts, TargetPath DEF HeadsInv, TreeInv, Push, Edit
<1>2. /\ heads \in Seq(Removal) /\ <<r>> \in Seq(Removal)
      /\ Len(<<r>>) = 1 /\ <<r>>[1] = r /\ Len(heads) \in Nat
  <2>1. r \in Removal
    BY <1>1 DEF Removal
  <2> QED BY <1>1, <2>1, LenProperties DEF MainOK
<1>3. /\ heads' = <<r>> \o heads /\ prev' = prev /\ prev = Current.path
      /\ \A n \in DOMAIN heads : heads[n].path < prev
  BY DEF Push, HeadsInv, Beyond, AtLine
<1>4. \A n \in DOMAIN heads : heads[n].path \in Path
  BY <1>2, HeadPaths
<1> HIDE DEF r
<1>5. /\ DOMAIN heads = 1..Len(heads) /\ DOMAIN heads' = 1..(Len(heads) + 1)
      /\ heads'[1] = r
      /\ \A n \in 2..(Len(heads) + 1) : n - 1 \in DOMAIN heads /\ heads'[n] = heads[n - 1]
  <2>1. /\ heads' \in Seq(Removal) /\ Len(heads') = Len(heads) + 1
        /\ \A n \in 1..(Len(heads) + 1) :
             heads'[n] = IF n <= 1 THEN <<r>>[n] ELSE heads[n - 1]
    BY <1>2, <1>3, ConcatProperties
  <2> QED BY <1>2, <2>1, LenProperties
<1>6. r.path = Current.path
  BY DEF r
<1>7. \A n \in DOMAIN heads : Inside(Current.path, heads[n].path)
  <2> SUFFICES ASSUME NEW n \in DOMAIN heads
               PROVE  Inside(Current.path, heads[n].path)
    OBVIOUS
  <2>1. 1 \in DOMAIN heads /\ heads # <<>> /\ Head(heads) = heads[1] /\ n \in 1..Len(heads)
    BY <1>2, <1>5, EmptySeq
  <2>2. Inside(Current.path, heads[1].path)
    BY <2>1 DEF Push, Due
  <2>3. CASE n = 1
    BY <2>2, <2>3
  <2>4. CASE n # 1
    <3>1. Inside(heads[1].path, heads[n].path)
      BY <2>1, <2>4 DEF HeadsInv, HeadsNested
    <3> QED BY <1>1, <1>4, <2>1, <2>2, <3>1, InsideTransitive, PathAssumption
  <2> QED BY <2>3, <2>4
<1>8. ASSUME NEW m \in DOMAIN heads', NEW n \in DOMAIN heads', m < n
      PROVE  Inside(heads'[m].path, heads'[n].path) /\ heads'[n].path < heads'[m].path
  <2>1. n \in 2..(Len(heads) + 1) /\ (m = 1 \/ m \in 2..(Len(heads) + 1))
    BY <1>2, <1>5, <1>8
  <2>2. CASE m = 1
    BY <1>3, <1>5, <1>6, <1>7, <2>1, <2>2
  <2>3. CASE m # 1
    <3>1. m - 1 < n - 1 /\ m - 1 \in DOMAIN heads /\ n - 1 \in DOMAIN heads
      BY <1>5, <1>8, <2>1, <2>3
    <3>2. /\ Inside(heads[m - 1].path, heads[n - 1].path)
          /\ heads[n - 1].path < heads[m - 1].path
      BY <3>1 DEF HeadsInv, HeadsNested
    <3> QED BY <1>5, <2>1, <2>3, <3>2
  <2> QED BY <2>2, <2>3
<1>9. ASSUME NEW n \in DOMAIN heads'
      PROVE  heads'[n].path <= prev'
  <2>1. n = 1 \/ n \in 2..(Len(heads) + 1)
    BY <1>2, <1>5, <1>9
  <2>2. CASE n = 1
    BY <1>1, <1>3, <1>5, <1>6, <2>2 DEF Path
  <2>3. CASE n # 1
    BY <1>1, <1>3, <1>4, <1>5, <2>1, <2>3 DEF Path
  <2> QED BY <2>2, <2>3
<1> QED BY <1>8, <1>9 DEF HeadsNested

(* The innermost directory is removed first.                                *)
LEMMA PopNested ==
  ASSUME HeadsInv, Pop
  PROVE  HeadsNested' /\ Beyond'
<1>1. MainOK /\ WorkOK /\ JobOK
  BY TypeParts DEF HeadsInv, TreeInv
<1>2. heads \in Seq(Removal) /\ heads # <<>> /\ heads' = Tail(heads) /\ prev' = prev
      /\ Current' = Current
  BY <1>1 DEF Pop, Due, MainOK, Current
<1>3. \A n \in DOMAIN heads' : /\ n \in DOMAIN heads /\ n + 1 \in DOMAIN heads
                               /\ heads'[n] = heads[n + 1]
  BY <1>2, HeadTailProperties, LenProperties, EmptySeq
<1>4. HeadsNested'
  <2>1. ASSUME NEW m \in DOMAIN heads', NEW n \in DOMAIN heads', m < n
        PROVE  Inside(heads'[m].path, heads'[n].path) /\ heads'[n].path < heads'[m].path
    <3>1. m + 1 < n + 1
      BY <1>2, <1>3, <2>1, LenProperties
    <3> QED BY <1>3, <3>1 DEF HeadsInv, HeadsNested
  <2>2. ASSUME NEW n \in DOMAIN heads'
        PROVE  heads'[n].path <= prev'
    BY <1>2, <1>3 DEF HeadsInv, HeadsNested
  <2> QED BY <2>1, <2>2 DEF HeadsNested
<1>5. AtLine' => AtLine
  <2>1. phase \in {"line", "place"}
    BY DEF Pop, Due
  <2>2. CASE Head(heads).line = NoLine
    BY <2>2 DEF Pop, AtLine
  <2>3. CASE Head(heads).line # NoLine
    BY <2>1, <2>3 DEF Pop, Start, AtLine, Idle
  <2> QED BY <2>2, <2>3
<1> QED BY <1>2, <1>3, <1>4, <1>5 DEF HeadsInv, Beyond

(* The other calls leave the removal list alone; main() goes on where it    *)
(* was when do_line() returns.                                              *)
LEMMA HeadsStep ==
  ASSUME HeadsInv, Step
  PROVE  HeadsNested' /\ Beyond'
<1>1. MainOK /\ WorkOK /\ JobOK /\ HeadsNested /\ Beyond
  BY TypeParts DEF HeadsInv, TreeInv
<1>2. ASSUME UNCHANGED <<plan, ln, prev, heads>>, AtLine' => AtLine
      PROVE  HeadsNested' /\ Beyond'
  BY <1>1, <1>2 DEF HeadsNested, Beyond, Current
<1>3. ASSUME Done
      PROVE  AtLine' => AtLine
  BY <1>3, DoneType, NoLineFields DEF AtLine, HeadsInv, TreeInv
<1>4. CASE Skip
  <2>1. ~AtLine' /\ UNCHANGED <<heads, prev>>
    BY <1>1, <1>4, NoLineFields DEF Skip, JobOK, AtLine
  <2> QED BY <1>1, <2>1 DEF HeadsNested, Beyond
<1>5. CASE Read
  <2>1. plan[ln + 1].path \in Path
    BY <1>5, TargetPath DEF Read, Edit, HeadsInv
  <2>2. prev' = plan[ln + 1].path /\ prev < prev' /\ heads' = heads /\ prev' = Current'.path
    BY <1>5, <2>1 DEF Read, Current, Path
  <2>3. \A n \in DOMAIN heads : heads[n].path \in Path
    BY <1>1, HeadPaths DEF MainOK
  <2>4. \A n \in DOMAIN heads : heads[n].path < prev' /\ heads[n].path <= prev'
    BY <1>1, <2>1, <2>2, <2>3 DEF HeadsNested, MainOK, Path
  <2> QED BY <1>1, <2>2, <2>4 DEF HeadsNested, Beyond
<1>6. CASE Push
  <2>1. ~AtLine'
    BY <1>1, <1>6, NoLineFields DEF Push, JobOK, AtLine
  <2> QED BY <1>6, <2>1, PushNested DEF Beyond
<1>7. CASE Remove \/ Apply
  <2>1. ~AtLine'
    BY <1>1, <1>7, NoLineFields DEF Remove, Apply, JobOK, AtLine, Start, Idle
  <2> QED BY <1>2, <1>7, <2>1 DEF Remove, Apply, main
<1>8. ASSUME NEW d \in Data, Request(d)
      PROVE  HeadsNested' /\ Beyond'
  <2>1. AtLine' => AtLine
    BY <1>1, <1>8 DEF Request, AtLine, WorkOK, Job
  <2> QED BY <1>2, <1>8, <2>1 DEF Request, main
<1>9. CASE Open \/ Body \/ Check \/ Clear
  <2>1. AtLine' => AtLine
    BY <1>1, <1>9 DEF Open, Body, Check, Clear, AtLine, WorkOK, Job
  <2> QED BY <1>2, <1>9, <2>1 DEF Open, Body, Check, Clear, main
<1>10. CASE Make \/ Symlink \/ MakePrefix \/ SetTime
  BY <1>2, <1>10 DEF Make, Symlink, MakePrefix, SetTime, AtLine, main
<1>11. CASE Link \/ NoSocket \/ Rename
  BY <1>2, <1>3, <1>11 DEF Link, NoSocket, Rename, main
<1>12. CASE SetOwner \/ SetMode
  <2>1. AtLine' => AtLine
    BY <1>3, <1>12 DEF SetOwner, SetMode, AtLine
  <2> QED BY <1>2, <1>12, <2>1 DEF SetOwner, SetMode, main
<1>13. CASE Succeed \/ Fail \/ CloseFails \/ Kill
  BY <1>2, <1>13 DEF Succeed, Fail, CloseFails, Kill, Stop, AtLine, main
<1>14. CASE Pop
  BY <1>14, PopNested
<1> QED
  BY <1>4, <1>5, <1>6, <1>7, <1>8, <1>9, <1>10, <1>11, <1>12, <1>13, <1>14
  DEF Step, Advance

(* The directories to be removed are a chain, the innermost first: rmdir()  *)
(* never comes before the lines below the directory are done, whatever the  *)
(* tree and the plan.                                                       *)
THEOREM RemovalsNested == Spec => []HeadsNested
<1>1. Init => HeadsInv
  <2> SUFFICES ASSUME Init
               PROVE  HeadsNested /\ Beyond
    BY TreeInvInit DEF HeadsInv
  <2>1. DOMAIN heads = {}
    BY DEF Init
  <2> QED BY <2>1, NoLineFields DEF Init, HeadsNested, Beyond, AtLine
<1>2. HeadsInv /\ [Next]_vars => HeadsInv'
  <2> SUFFICES ASSUME HeadsInv, [Next]_vars
               PROVE  HeadsInv'
    OBVIOUS
  <2>1. CASE Step
    BY <2>1, HeadsStep, TreeInvStep DEF HeadsInv
  <2>2. CASE UNCHANGED vars
    BY <2>2, TreeInvStep DEF HeadsInv, HeadsNested, Beyond, AtLine, Current, vars, main
  <2> QED BY <2>1, <2>2 DEF Next, Exited
<1>3. HeadsInv => HeadsNested
  BY DEF HeadsInv
<1> QED BY <1>1, <1>2, <1>3, PTL DEF Spec
-----------------------------------------------------------------------------
(* What the system calls do to the other names                              *)
LEMMA UnlinkLeaves ==
  ASSUME WellFormed(fs, node), NEW p \in Path, Unlink(p)
  PROVE  \A q \in Path : q # p => fs'[q] = fs[q] /\ Lstat(q)' = Lstat(q)
<1>1. /\ fs' = [fs EXCEPT ![p] = 0]
      /\ node' = [i \in Inode |-> IF \E q \in Path : fs'[q] = i THEN node[i] ELSE Missing]
  BY DEF Unlink, Settled
<1>2. \A q \in Path : q # p /\ fs[q] # 0 => fs'[q] = fs[q] /\ node'[fs[q]] = node[fs[q]]
  BY <1>1 DEF WellFormed
<1> QED BY <1>1, <1>2 DEF Lstat, WellFormed

(* creat(), mkdir() and the like give one new name to a new object.         *)
LEMMA CreateLeaves ==
  ASSUME WellFormed(fs, node), NEW p \in Path, NEW o \in Obj, Create(p, o)
  PROVE  \A q \in Path : q # p => fs'[q] = fs[q] /\ Lstat(q)' = Lstat(q) /\ fs'[q] # fs'[p]
<1>1. PICK i \in Inode :
        /\ \A q \in Path : fs[q] # i
        /\ Settled([fs EXCEPT ![p] = i], [node EXCEPT ![i] = o])
  BY Zenon DEF Create
<1>2. /\ fs' = [fs EXCEPT ![p] = i]
      /\ node' = [j \in Inode |-> IF \E q \in Path : fs'[q] = j
                                  THEN [node EXCEPT ![i] = o][j] ELSE Missing]
  BY <1>1 DEF Settled
<1>3. \A q \in Path : q # p => fs'[q] = fs[q] /\ fs'[q] # i /\ fs'[p] = i
  BY <1>1, <1>2 DEF WellFormed
<1>4. \A q \in Path : q # p /\ fs[q] # 0 => node'[fs[q]] = node[fs[q]]
  BY <1>1, <1>2, <1>3 DEF WellFormed
<1> QED BY <1>3, <1>4 DEF Lstat

(* A write shows under every name of the object, and nowhere else.          *)
LEMMA SetLeaves ==
  ASSUME WellFormed(fs, node), NEW p \in Path, NEW o \in Obj, Exists(p), Set(p, o)
  PROVE  /\ fs' = fs
         /\ \A q \in Path : Lstat(q)' = IF fs[q] = fs[p] THEN o ELSE Lstat(q)
<1>1. fs' = fs /\ node' = [node EXCEPT ![fs[p]] = o] BY DEF Set
<1>2. fs[p] # 0 /\ fs[p] \in Inode BY DEF WellFormed, Exists
<1> QED BY <1>1, <1>2 DEF Lstat, WellFormed

(* link() and rename() show what is under the old name.                     *)
LEMMA NameLeaves ==
  ASSUME WellFormed(fs, node), NEW p \in Path, NEW q \in Path, p # q, Exists(q),
         \/ Settled([fs EXCEPT ![p] = fs[q]], node)
         \/ Settled([fs EXCEPT ![p] = fs[q], ![q] = 0], node)
  PROVE  /\ fs'[p] = fs[q] /\ Lstat(p)' = Lstat(q) /\ Exists(p)'
         /\ \A r \in Path : r # p /\ r # q => fs'[r] = fs[r] /\ Lstat(r)' = Lstat(r)
         /\ Exists(q)' => fs'[q] = fs[q] /\ Lstat(q)' = Lstat(q)
<1>1. /\ \/ fs' = [fs EXCEPT ![p] = fs[q]]
         \/ fs' = [fs EXCEPT ![p] = fs[q], ![q] = 0]
      /\ node' = [i \in Inode |-> IF \E r \in Path : fs'[r] = i THEN node[i] ELSE Missing]
  <2>1. CASE Settled([fs EXCEPT ![p] = fs[q]], node) BY <2>1 DEF Settled, WellFormed
  <2>2. CASE Settled([fs EXCEPT ![p] = fs[q], ![q] = 0], node) BY <2>2 DEF Settled, WellFormed
  <2> QED BY <2>1, <2>2
<1>2. /\ fs[q] # 0 /\ fs[q] \in Inode /\ fs'[p] = fs[q]
      /\ \A r \in Path : r # p /\ r # q => fs'[r] = fs[r]
      /\ fs'[q] # 0 => fs'[q] = fs[q]
  BY <1>1 DEF WellFormed, Exists
<1>3. \A r \in Path : fs'[r] # 0 /\ fs'[r] \in Inode => node'[fs'[r]] = node[fs'[r]] BY <1>1
<1>4. \A r \in Path : r # p /\ r # q => Lstat(r)' = Lstat(r) BY <1>2, <1>3 DEF Lstat, WellFormed
<1> QED BY <1>2, <1>3, <1>4 DEF Lstat, Exists, WellFormed
-----------------------------------------------------------------------------
(* How far a file that did not exist before has come: it has one name until *)
(* its contents are written, those have the size of the line and, with -c,  *)
(* its digest, and then it is given the time, owner and mode of the line    *)
(* one after the other.  "st" is what it was before.                        *)
Underway == Working /\ job.line.op = "+" /\ job.fresh

Received(o) == o.type = "f" /\ o.data = job.got
Agreed      == Cksum => job.got = Want.data

Fresh ==
  Underway =>
    /\ phase \in {"open", "body", "check", "update", "own", "mode", "rename"} =>
         Size[job.got] = Size[Want.data] /\ job.got \in Data
    /\ phase = "body" => \A q \in Path : q # Target => fs[q] # fs[Target]
    /\ phase \in {"check", "update", "own", "mode", "rename"} => Received(Lstat(Target))
    /\ phase \in {"update", "own", "mode", "rename"} => Agreed /\ st \in Obj
    /\ phase = "update" => st = Lstat(Target)
    /\ phase = "own" => Lstat(Target) = [st EXCEPT !.mtime = Want.mtime]
    /\ phase = "mode" =>
         Lstat(Target) = [st EXCEPT !.mtime = Want.mtime, !.own = Want.own,
                                    !.mode = IF Want.own # st.own THEN Cleared(@) ELSE @]
    /\ phase = "rename" => Lstat(Target) = [Want EXCEPT !.data = job.got]

WholeInv == TreeInv /\ Fresh

(* What is known about the file while do_line() is at work for a '+' line   *)
LEMMA PlusParts ==
  ASSUME TreeInv, Working, job.line.op = "+",
         phase \in {"body", "check", "update", "own", "mode", "rename"}
  PROVE  /\ Target \in Path /\ Target = TempOf(job.line.path) /\ Target # job.line.path
         /\ Exists(Target) /\ Lstat(Target) \in Obj /\ Lstat(Target).type = "f"
         /\ WellFormed(fs, node) /\ Want \in Obj /\ Want.type = "f" /\ job.line.path \in Path
<1>1. WellFormed(fs, node) /\ JobOK /\ pid \in Pid BY DEF TreeInv, TypeOK
<1>2. Target \in Path /\ Target = TempOf(job.line.path) /\ job.line.path \in Path /\ Want \in Obj
  BY TargetPath DEF Target
<1>3. TempOf(job.line.path) # 0 /\ Lstat(Target).type = "f" /\ Want.type = "f"
  BY <1>1 DEF JobOK
<1>4. Target # job.line.path BY <1>1, <1>2, <1>3, TempApart
<1>5. Lstat(Target) \in Obj /\ Exists(Target) BY <1>1, <1>2, <1>3, LstatType DEF Missing
<1> QED BY <1>1, <1>2, <1>3, <1>4, <1>5

(* A call that is not for a file that is underway                           *)
LEMMA FreshElsewhere ==
  ASSUME TreeInv,
         \/ exit' # "run" \/ phase' = "request" \/ phase' \in {"line", "place"}
         \/ job'.line.op # "+" \/ ~job'.fresh
  PROVE  Fresh'
BY DEF Fresh, Underway, Working

(* One attribute of the file that is underway is set, or was right before   *)
LEMMA SetShows ==
  ASSUME TreeInv, Working, job.line.op = "+", phase \in {"body", "update", "own", "mode"},
         NEW o \in Obj, Set(Target, o) \/ (UNCHANGED tree /\ Lstat(Target) = o),
         UNCHANGED <<main, job>>
  PROVE  Lstat(Target)' = o /\ Target' = Target
<1>1. Target \in Path /\ Exists(Target) /\ WellFormed(fs, node) BY PlusParts
<1>2. Target' = Target BY DEF Target, TempOf, main
<1> DEFINE t == Target
<1>3. Lstat(t)' = o
  <2> SUFFICES ASSUME NEW q \in Path, q = t PROVE (IF fs'[q] = 0 THEN Missing ELSE node'[fs'[q]]) = o
    BY <1>1, <1>2 DEF Lstat
  <2>1. CASE Set(t, o) 
    <3>1. fs' = fs /\ Lstat(q)' = o BY <1>1, <2>1, SetLeaves
    <3> QED BY <3>1 DEF Lstat
  <2>2. CASE UNCHANGED tree /\ Lstat(t) = o BY <2>2 DEF tree, Lstat
  <2> QED BY <2>1, <2>2
<1> QED BY <1>2, <1>3

(* utime() of the file that is underway                                     *)
LEMMA TimesFresh ==
  ASSUME WholeInv, Underway, SetTime
  PROVE  Fresh'
<1>1. TreeInv /\ Working /\ job.line.op = "+" /\ phase = "update" /\ phase' = "own"
  BY DEF WholeInv, Underway, SetTime
<1>2. UNCHANGED <<main, st, job, exit>> BY DEF SetTime
<1>3. Want.type = "f" /\ Lstat(Target) \in Obj /\ Want.mtime \in Times
  BY <1>1, PlusParts, TargetPath
<1>4. st = Lstat(Target) /\ st.type = "f" /\ st.data = job.got
  BY <1>1 DEF WholeInv, Fresh, Received
<1> DEFINE o == [st EXCEPT !.mtime = Want.mtime]
<1>5. o \in Obj /\ o.type = "f" /\ o.data = job.got
  BY <1>3, <1>4 DEF Obj
<1>6. Set(Target, o) \/ (UNCHANGED tree /\ Lstat(Target) = o)
  <2>1. CASE Want.mtime # st.mtime BY <1>3, <1>4, <2>1 DEF SetTime
  <2>2. CASE Want.mtime = st.mtime
    <3>1. UNCHANGED tree BY <2>2 DEF SetTime
    <3>2. o = st BY <1>3, <1>4, <2>2 DEF Obj
    <3> QED BY <1>4, <3>1, <3>2
  <2> QED BY <2>1, <2>2
<1>7. Lstat(Target)' = o /\ Target' = Target BY <1>1, <1>2, <1>5, <1>6, SetShows
<1> HIDE DEF o
<1>8. Want' = Want BY <1>2 DEF Want
<1> QED BY <1>1, <1>2, <1>5, <1>7, <1>8 DEF Fresh, Received, Agreed, WholeInv, o, Cksum, main

(* chown() of it, which may clear its set-uid bits                          *)
LEMMA OwnerFresh ==
  ASSUME WholeInv, Underway, SetOwner
  PROVE  Fresh'
<1>1. TreeInv /\ Working /\ job.line.op = "+" /\ phase = "own"
  BY DEF WholeInv, Underway, SetOwner
<1>2. Want.type = "f" /\ Want.own \in Owners /\ Want.mtime \in Times /\ st \in Obj
  BY <1>1, PlusParts, TargetPath DEF WholeInv, Fresh
<1>3. phase' = "mode" /\ UNCHANGED <<main, st, job, exit>> BY <1>2 DEF SetOwner
<1> DEFINE was == [st EXCEPT !.mtime = Want.mtime]
           o   == [st EXCEPT !.mtime = Want.mtime, !.own = Want.own,
                             !.mode = IF Want.own # st.own THEN Cleared(@) ELSE @]
<1>4. Lstat(Target) = was /\ Received(was) BY <1>1 DEF WholeInv, Fresh
<1>5. st.type = "f" /\ st.data = job.got BY <1>2, <1>4 DEF Received, Obj
<1>6. o \in Obj /\ o.type = "f" /\ o.data = job.got
  <2>1. Cleared(st.mode) \in Modes BY <1>2, ObjFields, LapplyAssumption DEF LapplyAssumption
  <2> QED BY <1>2, <1>5, <2>1 DEF Obj
<1>7. Set(Target, o) \/ (UNCHANGED tree /\ Lstat(Target) = o)
  <2>1. CASE Want.own # st.own
    <3>1. was.type = "f" /\ was.mode = st.mode BY <1>2, <1>5 DEF Obj
    <3>2. [was EXCEPT !.own = Want.own, !.mode = IF was.type = "f" THEN Cleared(@) ELSE @] = o
      BY <1>2, <2>1, <3>1 DEF Obj
    <3>3. Set(Target, [Lstat(Target) EXCEPT !.own = Want.own,
                         !.mode = IF Lstat(Target).type = "f" THEN Cleared(@) ELSE @])
      BY <2>1 DEF SetOwner
    <3> HIDE DEF was, o
    <3> QED BY <1>4, <3>2, <3>3
  <2>2. CASE Want.own = st.own
    <3>1. UNCHANGED tree BY <2>2 DEF SetOwner
    <3>2. o = was BY <1>2, <2>2 DEF Obj
    <3> QED BY <1>4, <3>1, <3>2
  <2> QED BY <2>1, <2>2
<1>8. Lstat(Target)' = o /\ Target' = Target BY <1>1, <1>3, <1>6, <1>7, SetShows
<1>9. Want' = Want BY <1>3 DEF Want
<1> HIDE DEF o, was
<1> QED BY <1>1, <1>3, <1>6, <1>8, <1>9 DEF Fresh, Received, Agreed, WholeInv, o, Cksum, main

(* An object with three attributes set                                      *)
WithAttributes(s, t, o, m) == [s EXCEPT !.mtime = t, !.own = o, !.mode = m]

LEMMA AllSet ==
  ASSUME NEW s \in Obj, NEW t, NEW o, NEW m
  PROVE  WithAttributes(s, t, o, m)
         = [type |-> s.type, data |-> s.data, own |-> o, mode |-> m, mtime |-> t]
<1> DEFINE x == [s EXCEPT !.mtime = t]
           y == [x EXCEPT !.own = o]
<1>1. x = [type |-> s.type, data |-> s.data, own |-> s.own, mode |-> s.mode, mtime |-> t]
  BY DEF Obj
<1>2. WithAttributes(s, t, o, m) = [y EXCEPT !.mode = m] BY DEF Obj, WithAttributes
<1>3. y = [type |-> s.type, data |-> s.data, own |-> o, mode |-> s.mode, mtime |-> t]
  <2> HIDE DEF x
  <2> QED BY <1>1
<1> HIDE DEF y
<1>4. [y EXCEPT !.mode = m]
      = [type |-> s.type, data |-> s.data, own |-> o, mode |-> m, mtime |-> t]
  BY <1>3
<1> QED BY <1>2, <1>4

(* chmod() of it, the last call before rename()                             *)
LEMMA ModeFresh ==
  ASSUME WholeInv, Underway, SetMode
  PROVE  Fresh'
<1>1. TreeInv /\ Working /\ job.line.op = "+" /\ phase = "mode" /\ phase' = "rename"
  BY DEF WholeInv, Underway, SetMode
<1>2. UNCHANGED <<main, st, job, exit>> BY <1>1 DEF SetMode
<1>3. Want.type = "f" /\ Want \in Obj /\ st \in Obj
  BY <1>1, PlusParts DEF WholeInv, Fresh
<1> DEFINE was == [st EXCEPT !.mtime = Want.mtime, !.own = Want.own,
                             !.mode = IF Want.own # st.own THEN Cleared(@) ELSE @]
           o   == [Want EXCEPT !.data = job.got]
<1>4. Lstat(Target) = was /\ Received(was) BY <1>1 DEF WholeInv, Fresh
<1>5. st.type = "f" /\ st.data = job.got BY <1>3, <1>4 DEF Received, Obj
<1>6. job.got \in Data BY <1>1 DEF WholeInv, Fresh
<1>7. o \in Obj /\ o.type = "f" /\ o.data = job.got BY <1>3, <1>6 DEF Obj
<1>8. [was EXCEPT !.mode = Want.mode] = o
  <2>1. /\ was = [type |-> "f", data |-> job.got, own |-> Want.own, mode |-> was.mode,
                  mtime |-> Want.mtime]
        /\ o = [type |-> "f", data |-> job.got, own |-> Want.own, mode |-> Want.mode,
                mtime |-> Want.mtime]
    <3>1. was = [type |-> st.type, data |-> st.data, own |-> Want.own, mode |-> was.mode,
                 mtime |-> Want.mtime]
      <4> SUFFICES ASSUME NEW s \in Obj, s = st, NEW t, t = Want.mtime, NEW w, w = Want.own
                   PROVE  was = [type |-> s.type, data |-> s.data, own |-> w, mode |-> was.mode,
                                 mtime |-> t]
        BY <1>3
      <4>1. PICK m : was = WithAttributes(s, t, w, m)
        <5>1. CASE Want.own # st.own BY <1>3, <5>1 DEF Obj, WithAttributes
        <5>2. CASE Want.own = st.own BY <1>3, <5>2 DEF Obj, WithAttributes
        <5> QED BY <5>1, <5>2
      <4> HIDE DEF was
      <4>2. was = [type |-> s.type, data |-> s.data, own |-> w, mode |-> m, mtime |-> t]
        BY <4>1, AllSet
      <4> QED BY <4>2
    <3>2. o = [type |-> Want.type, data |-> job.got, own |-> Want.own, mode |-> Want.mode,
               mtime |-> Want.mtime]
      BY <1>3 DEF Obj
    <3> HIDE DEF was, o
    <3> QED BY <1>3, <1>5, <3>1, <3>2
  <2> HIDE DEF was, o
  <2> QED BY <2>1
<1>9. ~NeedsMode => was.mode = Want.mode
  <2>1. was.mode = IF Want.own # st.own THEN Cleared(st.mode) ELSE st.mode BY <1>3 DEF Obj
  <2>2. Want.mode \in Modes BY <1>3, ObjFields
  <2>3. Want.mode \notin SetId => Cleared(Want.mode) = Want.mode
    BY <2>2, LapplyAssumption DEF LapplyAssumption
  <2> HIDE DEF was
  <2> QED BY <2>1, <2>3 DEF NeedsMode
<1>10. Set(Target, o) \/ (UNCHANGED tree /\ Lstat(Target) = o)
  <2>1. CASE NeedsMode
    <3>1. Set(Target, [Lstat(Target) EXCEPT !.mode = Want.mode]) BY <2>1 DEF SetMode
    <3> HIDE DEF was, o
    <3> QED BY <1>4, <1>8, <3>1
  <2>2. CASE ~NeedsMode
    <3>1. UNCHANGED tree BY <2>2 DEF SetMode
    <3>2. was = o
      <4>1. [was EXCEPT !.mode = was.mode] = was BY <1>3 DEF Obj
      <4> HIDE DEF was, o
      <4> QED BY <1>8, <1>9, <2>2, <4>1
    <3> QED BY <1>4, <3>1, <3>2
  <2> QED BY <2>1, <2>2
<1>11. Lstat(Target)' = o /\ Target' = Target BY <1>1, <1>2, <1>7, <1>10, SetShows
<1>12. Want' = Want BY <1>2 DEF Want
<1> HIDE DEF o, was
<1> QED BY <1>1, <1>2, <1>3, <1>7, <1>11, <1>12 DEF Fresh, Received, Agreed, WholeInv, o, Cksum, main

(* Every call keeps what is known of the file that is underway.             *)
LEMMA FreshStep ==
  ASSUME WholeInv, Step
  PROVE  Fresh'
<1>1. TreeInv /\ Working /\ WellFormed(fs, node) /\ TypeOK /\ JobOK
  BY DEF WholeInv, TreeInv, TypeOK, Step
<1>2. ASSUME phase \in {"line", "place"}, UNCHANGED job PROVE Fresh'
  <2>1. job.line.op = "" BY <1>1, <1>2, NoLineFields DEF JobOK
  <2> QED BY <1>1, <1>2, <2>1, FreshElsewhere
<1>3. ASSUME NEW line, NEW present, NEW back, NEW stat, Start(line, present, back, stat)
      PROVE  Fresh'
  <2>1. job'.line = line /\ phase' = IF line.op = "+" THEN "request" ELSE "update"
    BY <1>3 DEF Start, Idle
  <2> QED BY <1>1, <2>1, FreshElsewhere
<1>4. ASSUME Done PROVE Fresh'
  <2>1. job' = Idle BY <1>4 DEF Done
  <2>2. job'.line.op # "+" BY <2>1, NoLineFields
  <2> QED BY <1>1, <2>2, FreshElsewhere
<1>5. CASE Skip \/ Read \/ Push
  BY <1>1, <1>2, <1>5 DEF Skip, Read, Push
<1>6. CASE Pop
  <2>1. phase \in {"line", "place"} BY <1>6 DEF Pop, Due
  <2> QED BY <1>2, <1>3, <1>6, <2>1 DEF Pop
<1>7. CASE Remove \/ Apply
  BY <1>2, <1>3, <1>7 DEF Remove, Apply
<1>8. ASSUME NEW d \in Data, Request(d) PROVE Fresh'
  <2>1. /\ phase' = "open" /\ job'.got = d /\ job'.line = job.line /\ Size[d] = Size[Want.data]
    BY <1>1, <1>8 DEF Request, TypeOK, Job
  <2> QED BY <2>1 DEF Fresh, Want
<1>9. CASE Open
  <2>1. CASE job'.fresh = FALSE BY <1>1, <2>1, FreshElsewhere
  <2>2. CASE job'.fresh # FALSE
    <3> DEFINE t == TempOf(job.line.path)
               o == [type |-> "f", data |-> Partial, own |-> 0, mode |-> TempMode, mtime |-> Now]
    <3>1. job' = job /\ CanCreate(t) /\ Create(t, o) /\ phase = "open" /\ phase' = "body"
      BY <1>1, <1>9, <2>2 DEF Open, TypeOK, Job
    <3>2. o \in Obj
      BY LapplyAssumption, ObjectAssumption DEF Obj, Types, LapplyAssumption, ObjectAssumption
    <3>3. Target = t /\ t \in Path /\ Target' = t
      BY <1>1, <1>9, <3>1, TargetPath DEF JobOK, Target, Open, TempOf, main
    <3>4. \A q \in Path : q # t => fs'[q] # fs'[t]
      <4> HIDE DEF t, o
      <4> QED BY <1>1, <3>1, <3>2, <3>3, CreateLeaves
    <3> HIDE DEF t, o
    <3> QED BY <1>1, <3>1, <3>3, <3>4 DEF Fresh, Underway, WholeInv, Want
  <2> QED BY <2>1, <2>2
<1>10. CASE Body
  <2>1. CASE ~Underway BY <1>1, <1>10, <2>1, FreshElsewhere DEF Underway, Body
  <2>2. CASE Underway
    <3>1. job.line.op = "+" /\ phase = "body" /\ job.fresh BY <1>10, <2>2 DEF Underway, Body
    <3>2. Size[job.got] = Size[Want.data] /\ job.got \in Data
      BY <2>2, <3>1 DEF WholeInv, Fresh
    <3> DEFINE o == [Lstat(Target) EXCEPT !.data = job.got, !.mtime = Now]
    <3>3. Lstat(Target) \in Obj /\ Lstat(Target).type = "f" BY <1>1, <3>1, PlusParts
    <3>4. o \in Obj /\ o.type = "f" /\ o.data = job.got
      BY <3>2, <3>3, LapplyAssumption DEF Obj, LapplyAssumption
    <3>5. Set(Target, o) BY <1>10, <3>1 DEF Body
    <3>6. UNCHANGED <<main, st, job, exit>> /\ phase' = "check" BY <1>10 DEF Body
    <3> HIDE DEF o
    <3>7. Lstat(Target)' = o BY <1>1, <3>1, <3>4, <3>5, <3>6, SetShows
    <3> QED BY <3>2, <3>4, <3>6, <3>7 DEF Fresh, Received, Want
  <2> QED BY <2>1, <2>2
<1>11. CASE Check
  <2>1. CASE ~Underway BY <1>1, <1>11, <2>1, FreshElsewhere DEF Underway, Check
  <2>2. CASE Underway
    <3>1. /\ phase = "check" /\ phase' = "update" /\ UNCHANGED <<tree, main, job>>
          /\ st' = Lstat(Target) /\ Agreed /\ job.line.op = "+"
      BY <1>11, <2>2 DEF Underway, Check, Verified, Agreed
    <3>2. Lstat(Target) \in Obj BY <1>1, <3>1, PlusParts
    <3>3. Lstat(Target)' = Lstat(Target) BY <3>1 DEF Lstat, Target, TempOf, tree, main
    <3>4. Want' = Want /\ (Agreed' <=> Agreed) BY <3>1 DEF Want, Agreed, Cksum, main
    <3> QED BY <2>2, <3>1, <3>2, <3>3, <3>4 DEF Fresh, Received, WholeInv
  <2> QED BY <2>1, <2>2
<1>12. CASE Clear \/ Make \/ Symlink
  <2>1. phase = "update" /\ job.line.op # "+" /\ job'.line = job.line
    BY <1>1, <1>12 DEF Clear, Make, Symlink, Replaced, There, JobOK, TypeOK, Job
  <2> QED BY <1>1, <2>1, FreshElsewhere
<1>13. CASE Link \/ NoSocket \/ Rename
  BY <1>4, <1>13 DEF Link, NoSocket, Rename
<1>14. CASE MakePrefix
  <2>1. UNCHANGED <<phase, job, exit>> BY <1>14 DEF MakePrefix
  <2>2. CASE ~Underway BY <1>1, <2>1, <2>2, FreshElsewhere DEF Underway
  <2>3. CASE Underway
    <3>1. phase = "open" BY <1>14, <2>3 DEF MakePrefix, Underway, There
    <3> QED BY <2>1, <2>3, <3>1 DEF Fresh, WholeInv, Want
  <2> QED BY <2>2, <2>3
<1>15. CASE SetTime \/ SetOwner \/ SetMode
  <2>1. CASE ~Underway
    <3>1. job' = job \/ Done BY <1>15 DEF SetTime, SetOwner, SetMode
    <3> QED BY <1>1, <1>4, <2>1, <3>1, FreshElsewhere DEF Underway
  <2> QED BY <1>15, <2>1, TimesFresh, OwnerFresh, ModeFresh
<1>16. CASE Succeed \/ Fail \/ CloseFails \/ Kill
  BY <1>1, <1>16, FreshElsewhere DEF Succeed, Fail, CloseFails, Kill, Stop
<1> QED
  BY <1>5, <1>6, <1>7, <1>8, <1>9, <1>10, <1>11, <1>12, <1>13, <1>14, <1>15, <1>16
  DEF Step, Advance

(* The invariant is inductive.                                              *)
LEMMA WholeStep ==
  ASSUME WholeInv, [Next]_vars
  PROVE  WholeInv'
<1>1. TreeInv' BY TreeInvStep DEF WholeInv
<1>2. CASE Step BY <1>1, <1>2, FreshStep DEF WholeInv
<1>3. CASE UNCHANGED vars
  <2>1. /\ fs' = fs /\ node' = node /\ job' = job /\ phase' = phase /\ st' = st /\ exit' = exit
        /\ opt' = opt /\ pid' = pid
    BY <1>3 DEF vars, tree, main
  <2>2. Fresh'
    BY <2>1
    DEF WholeInv, Fresh, Underway, Working, Received, Agreed, Want, Target, TempOf, Lstat, Cksum
  <2> QED BY <1>1, <2>2 DEF WholeInv
<1> QED BY <1>2, <1>3 DEF Next, Exited
-----------------------------------------------------------------------------
(* What each kind of system call may show under a path                      *)
LEMMA QuietWhole ==
  ASSUME \A p \in Path : Lstat(p)' = Lstat(p) /\ (Exists(p) => Exists(p)')
  PROVE  FilesArriveWhole
BY DEF FilesArriveWhole, ArrivesWhole

(* unlink() and rmdir() show nothing.                                       *)
LEMMA UnlinkWhole ==
  ASSUME WellFormed(fs, node), NEW p \in Path, Unlink(p),
         job.line.op = "+" => p # job.line.path
  PROVE  FilesArriveWhole
<1>1. \A q \in Path : q # p => fs'[q] = fs[q] /\ Lstat(q)' = Lstat(q) BY UnlinkLeaves
<1>2. ~Exists(p)' BY DEF Unlink, Settled, WellFormed, Exists
<1>3. \A q \in Path : q # p /\ Exists(q) => Exists(q)' BY <1>1 DEF Exists
<1>4. ASSUME NEW q \in Path PROVE ArrivesWhole(q)
  <2>1. CASE q = p BY <1>2, <2>1 DEF ArrivesWhole
  <2>2. CASE q # p BY <1>1, <1>3, <2>2 DEF ArrivesWhole
  <2> QED BY <2>1, <2>2
<1> QED BY <1>4 DEF FilesArriveWhole

(* What is made is no file, or a temporary one.                             *)
LEMMA CreateWhole ==
  ASSUME WellFormed(fs, node), NEW p \in Path, NEW o \in Obj, Create(p, o), ~Exists(p),
         o.type # "f" \/ Temporary(p)
  PROVE  FilesArriveWhole
<1>1. \A q \in Path : q # p => fs'[q] = fs[q] /\ Lstat(q)' = Lstat(q) BY CreateLeaves
<1>2. \A q \in Path : q # p /\ Exists(q) => Exists(q)' BY <1>1 DEF Exists
<1>3. Lstat(p)' = o BY CreateLstat
<1>4. ASSUME NEW q \in Path PROVE ArrivesWhole(q)
  <2>1. CASE q = p BY <1>3, <2>1 DEF ArrivesWhole
  <2>2. CASE q # p BY <1>1, <1>2, <2>2 DEF ArrivesWhole
  <2> QED BY <2>1, <2>2
<1> QED BY <1>4 DEF FilesArriveWhole

(* A write goes to a temporary file, or keeps the contents.                 *)
LEMMA SetWhole ==
  ASSUME WellFormed(fs, node), NEW p \in Path, NEW o \in Obj, Exists(p), Set(p, o),
         \A q \in Path : fs[q] = fs[p] => Temporary(q) \/ o.data = Lstat(p).data
  PROVE  FilesArriveWhole
<1>1. fs' = fs /\ \A q \in Path : Lstat(q)' = IF fs[q] = fs[p] THEN o ELSE Lstat(q)
  BY SetLeaves
<1>2. ASSUME NEW q \in Path PROVE ArrivesWhole(q)
  <2>1. Exists(q)' <=> Exists(q) BY <1>1 DEF Exists
  <2>2. CASE fs[q] = fs[p]
    <3>1. Lstat(q)' = o /\ Lstat(q) = Lstat(p) BY <1>1, <2>2 DEF Lstat
    <3> QED BY <1>1, <2>1, <2>2, <3>1 DEF ArrivesWhole
  <2>3. CASE fs[q] # fs[p] BY <1>1, <2>1, <2>3 DEF ArrivesWhole
  <2> QED BY <2>2, <2>3
<1> QED BY <1>2 DEF FilesArriveWhole

(* A chown(), chmod() or utime() keeps the contents.                        *)
LEMMA AttributesWhole ==
  ASSUME WellFormed(fs, node), NEW p \in Path, NEW o \in Obj, Exists(p), Set(p, o),
         o.data = Lstat(p).data
  PROVE  FilesArriveWhole
BY SetWhole

(* link() shows an object there is.                                         *)
LEMMA LinkWhole ==
  ASSUME TreeInv, Link
  PROVE  FilesArriveWhole
<1>1. WellFormed(fs, node) /\ phase = "update" /\ Want \in Obj /\ Want.type = "h"
  BY TargetPath DEF TreeInv, TypeOK, Link
<1>2. Want.data \in Path /\ Want.data = job.line.obj.data BY <1>1 DEF Obj, Want
<1>3. job.line.op # "+" /\ Target = job.line.path /\ Target \in Path
  BY <1>1, TargetPath DEF TreeInv, JobOK, Target
<1> SUFFICES ASSUME NEW p \in Path, p = job.line.path, NEW q \in Path, q = Want.data
             PROVE  FilesArriveWhole
  BY <1>2, <1>3
<1>4. ~Exists(p) /\ Exists(q) /\ p # q /\ Settled([fs EXCEPT ![p] = fs[q]], node)
  BY <1>2, <1>3 DEF Link, CanCreate
<1>5. /\ fs'[p] = fs[q]
      /\ \A r \in Path : r # p /\ r # q => fs'[r] = fs[r] /\ Lstat(r)' = Lstat(r)
  BY <1>1, <1>4, NameLeaves, ZenonT(40)
<1>6. fs'[q] = fs[q] /\ Exists(q)' /\ Lstat(q)' = Lstat(q)
  <2>1. fs'[q] = fs[q] BY <1>1, <1>4 DEF Settled, WellFormed
  <2>2. Exists(q)' BY <1>4, <2>1 DEF Exists
  <2> QED BY <1>1, <1>4, <2>1, <2>2, NameLeaves
<1>7. ASSUME NEW r \in Path PROVE ArrivesWhole(r)
  <2>1. CASE r = p BY <1>1, <1>2, <1>3, <1>5, <2>1 DEF ArrivesWhole, Want
  <2>2. CASE r = q BY <1>3, <1>6, <2>2 DEF ArrivesWhole
  <2>3. CASE r # p /\ r # q BY <1>3, <1>5, <2>3 DEF ArrivesWhole
  <2> QED BY <2>1, <2>2, <2>3
<1> QED BY <1>7 DEF FilesArriveWhole

(* rename() shows the file that has been fetched and set right.             *)
LEMMA RenameWhole ==
  ASSUME WholeInv, Working, Rename
  PROVE  FilesArriveWhole
<1>1. TreeInv /\ phase = "rename" /\ job.line.op = "+" BY DEF WholeInv, TreeInv, JobOK, Rename
<1>2. Want \in Obj /\ job.line.path \in Path /\ Target \in Path BY <1>1, PlusParts
<1> SUFFICES ASSUME NEW p \in Path, p = job.line.path, NEW q \in Path, q = Target
             PROVE  FilesArriveWhole
  BY <1>2
<1>3. WellFormed(fs, node) /\ p # q /\ Exists(q) /\ q = TempOf(p)
      /\ Settled([fs EXCEPT ![p] = fs[q], ![q] = 0], node)
  BY <1>1, PlusParts DEF Rename
<1>4. job.fresh => /\ Lstat(q) = [Want EXCEPT !.data = job.got]
                   /\ Size[job.got] = Size[Want.data] /\ Agreed
  BY <1>1 DEF WholeInv, Fresh, Underway
<1>5. job.fresh => /\ Lstat(q) = [Want EXCEPT !.data = Lstat(q).data]
                   /\ Size[Lstat(q).data] = Size[Want.data]
                   /\ Cksum => Lstat(q).data = Want.data
  <2>1. [Want EXCEPT !.data = job.got].data = job.got BY <1>2 DEF Obj
  <2> QED BY <1>4, <2>1 DEF Agreed
<1>6. /\ Lstat(p)' = Lstat(q) /\ Exists(p)'
      /\ \A r \in Path : r # p /\ r # q => fs'[r] = fs[r] /\ Lstat(r)' = Lstat(r)
  BY <1>3, NameLeaves
<1>7. ASSUME NEW r \in Path PROVE ArrivesWhole(r)
  <2>1. CASE r = p BY <1>1, <1>5, <1>6, <2>1 DEF ArrivesWhole, Want
  <2>2. CASE r = q BY <1>1, <1>3, <2>2 DEF ArrivesWhole, Temporary
  <2>3. CASE r # p /\ r # q BY <1>6, <2>3 DEF ArrivesWhole
  <2> QED BY <2>1, <2>2, <2>3
<1> QED BY <1>7 DEF FilesArriveWhole

(* A system call of each kind, whoever makes it                             *)
LEMMA FilesStep ==
  ASSUME WholeInv, Step
  PROVE  FilesArriveWhole
<1>1. TreeInv /\ Working /\ WellFormed(fs, node) /\ JobOK /\ TypeOK
  BY DEF WholeInv, TreeInv, TypeOK, Step
<1>2. ASSUME UNCHANGED tree PROVE FilesArriveWhole
  BY <1>2, QuietWhole DEF tree, Lstat, Exists
<1>3. CASE Skip \/ Read \/ Push \/ Apply \/ NoSocket \/ Succeed \/ CloseFails \/ Kill \/ Check
  BY <1>2, <1>3 DEF Skip, Read, Push, Apply, NoSocket, Succeed, CloseFails, Kill, Check
<1>4. ASSUME NEW d \in Data, Request(d) PROVE FilesArriveWhole
  BY <1>2, <1>4 DEF Request
<1>5. ASSUME phase \in {"line", "place"} PROVE job.line.op # "+"
  BY <1>1, <1>5, NoLineFields DEF JobOK
<1>6. CASE Pop
  <2>1. phase \in {"line", "place"} /\ heads # <<>> /\ Unlink(Head(heads).path)
    BY <1>6 DEF Pop, Due
  <2>2. Head(heads).path \in Path BY <1>1, <2>1, HeadRemoval
  <2> QED BY <1>1, <1>5, <2>1, <2>2, UnlinkWhole
<1>7. CASE Remove
  <2>1. phase \in {"line", "place"} /\ Current.path \in Path
    BY <1>1, <1>7, TargetPath DEF Remove, Edit
  <2>2. CASE Unlink(Current.path) BY <1>1, <1>5, <2>1, <2>2, UnlinkWhole
  <2>3. CASE UNCHANGED tree BY <1>2, <2>3
  <2> QED BY <1>7, <2>2, <2>3 DEF Remove
<1>8. CASE Clear
  <2>1. job.line.op # "+" /\ Target \in Path /\ Unlink(Target)
    BY <1>1, <1>8, TargetPath DEF Clear, Replaced, JobOK
  <2> QED BY <1>1, <2>1, UnlinkWhole
<1>9. CASE Fail
  <2>1. CASE phase \in {"body", "check"}
    <3>1. job.line.op = "+" BY <1>1, <2>1 DEF JobOK
    <3>2. Target \in Path /\ Target # job.line.path BY <1>1, <2>1, <3>1, PlusParts
    <3>3. Unlink(Target) BY <1>9, <2>1 DEF Fail
    <3> QED BY <1>1, <3>2, <3>3, UnlinkWhole
  <2>2. CASE phase \notin {"body", "check"} BY <1>2, <1>9, <2>2 DEF Fail
  <2> QED BY <2>1, <2>2
<1>10. CASE Open
  <2> DEFINE o == [type |-> "f", data |-> Partial, own |-> 0, mode |-> TempMode, mtime |-> Now]
  <2>1. job.line.op = "+" /\ Target = TempOf(job.line.path) /\ Target \in Path
    BY <1>1, <1>10, TargetPath DEF Open, JobOK, Target
  <2>2. o \in Obj
    BY LapplyAssumption, ObjectAssumption DEF Obj, Types, LapplyAssumption, ObjectAssumption
  <2> HIDE DEF o
  <2>3. CASE ~Exists(Target) /\ Create(Target, o)
    <3>1. Temporary(Target) BY <2>1 DEF Temporary
    <3> QED BY <1>1, <2>1, <2>2, <2>3, <3>1, CreateWhole
  <2>4. CASE UNCHANGED tree BY <1>2, <2>4
  <2> QED BY <1>10, <2>1, <2>3, <2>4 DEF Open, CanCreate, o
<1>11. CASE Make \/ Symlink
  <2>1. Target \in Path /\ ~Exists(Target) /\ Want \in Obj /\ Want.type \in {"d", "p", "c", "b", "l"}
    BY <1>1, <1>11, TargetPath DEF Make, Symlink, CanCreate
  <2>2. CASE Make
    <3> DEFINE o == [type |-> Want.type, data |-> Want.data, own |-> 0,
                     mode |-> Umask(Want.mode), mtime |-> 0]
    <3>1. o \in Obj
      BY <2>1, LapplyAssumption, ObjectAssumption DEF Obj, LapplyAssumption, ObjectAssumption
    <3>2. Create(Target, o) /\ o.type # "f" BY <2>1, <2>2 DEF Make
    <3> HIDE DEF o
    <3> QED BY <1>1, <2>1, <3>1, <3>2, CreateWhole
  <2>3. CASE Symlink
    <3> DEFINE o == [Want EXCEPT !.own = 0, !.mode = 0, !.mtime = 0]
    <3>1. o \in Obj /\ o.type # "f"
      BY <2>1, ObjectAssumption DEF Obj, ObjectAssumption
    <3>2. Create(Target, o) BY <2>3 DEF Symlink
    <3> HIDE DEF o
    <3> QED BY <1>1, <2>1, <3>1, <3>2, CreateWhole
  <2> QED BY <1>11, <2>2, <2>3
<1>12. CASE MakePrefix
  <2> DEFINE q == Least(Lacking(Target))
             o == Lstat(Parent(q))
  <2>1. q \in Path /\ ~Exists(q) /\ Create(q, o) /\ o \in Obj /\ o.type = "d"
    BY <1>1, <1>12, PrefixParts DEF CanCreate
  <2> HIDE DEF q, o
  <2> QED BY <1>1, <2>1, CreateWhole
<1>13. CASE Body
  <2> DEFINE o == Lstat(Target)
             d == IF job.fresh THEN job.got ELSE Overwritten(o.data, job.got)
             n == [o EXCEPT !.data = d, !.mtime = Now]
  <2>1. /\ Target \in Path /\ Exists(Target) /\ o \in Obj /\ o.type = "f"
        /\ Target = TempOf(job.line.path) /\ job.line.op = "+" /\ phase = "body"
    BY <1>1, <1>13, PlusParts DEF Body, JobOK
  <2>2. d \in Data /\ Now \in Times
    BY <1>1, <2>1, LapplyAssumption DEF JobOK, Overwritten, LapplyAssumption
  <2> HIDE DEF d
  <2>3. n \in Obj BY <2>1, <2>2 DEF Obj
  <2>4. Set(Target, n) BY <1>13 DEF Body, d
  <2>5. ASSUME NEW p \in Path, fs[p] = fs[Target] PROVE Temporary(p)
    <3>1. CASE job.fresh
      BY <1>1, <2>1, <2>5, <3>1 DEF WholeInv, Fresh, Underway, Temporary
    <3>2. CASE ~job.fresh BY <2>1, <2>5, <3>2 DEF Temporary
    <3> QED BY <3>1, <3>2
  <2> HIDE DEF n, o
  <2> QED BY <1>1, <2>1, <2>3, <2>4, <2>5, SetWhole
<1>14. CASE Link BY <1>1, <1>14, LinkWhole
<1>15. CASE Rename BY <1>1, <1>15, RenameWhole
<1>16. CASE SetTime \/ SetOwner \/ SetMode
  <2>1. Target \in Path BY <1>1, <1>16, TargetPath DEF SetTime, SetOwner, SetMode
  <2>2. ASSUME NEW n, Exists(Target), Set(Target, n), n.data = Lstat(Target).data, 
               Lstat(Target) \in Obj => n \in Obj
        PROVE  FilesArriveWhole
    BY <1>1, <2>1, <2>2, LstatType, AttributesWhole
  <2>3. /\ Want.own \in Owners /\ Want.mode \in Modes /\ Want.mtime \in Times
        /\ \A m \in Modes : Cleared(m) \in Modes
    BY <1>1, TargetPath, LapplyAssumption DEF LapplyAssumption
  <2> DEFINE o == Lstat(Target)
  <2>4. Exists(Target) => o \in Obj BY <1>1, <2>1, LstatType
  <2>5. CASE UNCHANGED tree BY <1>2, <2>5
  <2>6. CASE Exists(Target) /\ Set(Target, [o EXCEPT !.mtime = Want.mtime])
    BY <2>2, <2>3, <2>4, <2>6 DEF Obj
  <2>7. CASE Exists(Target) /\ Set(Target, [o EXCEPT !.mode = Want.mode])
    BY <2>2, <2>3, <2>4, <2>7 DEF Obj
  <2>8. CASE Exists(Target)
             /\ Set(Target, [o EXCEPT !.own = Want.own,
                                      !.mode = IF o.type = "f" THEN Cleared(@) ELSE @])
    BY <2>2, <2>3, <2>4, <2>8 DEF Obj
  <2> QED BY <1>16, <2>5, <2>6, <2>7, <2>8 DEF SetTime, SetOwner, SetMode
<1> QED
  BY <1>3, <1>4, <1>6, <1>7, <1>8, <1>9, <1>10, <1>11, <1>12, <1>13, <1>14, <1>15, <1>16
  DEF Step, Advance

(* A file is only ever changed as a whole: under no name of the tree does a *)
(* file come to show contents half arrived, of the wrong size or, with -c,  *)
(* of the wrong digest, and a file to be replaced is never missing, whoever *)
(* fails and wherever lapply is killed.                                     *)
THEOREM DownloadsWhole == Spec => ArriveWhole
<1>1. Init => WholeInv
  <2> SUFFICES ASSUME Init PROVE WholeInv OBVIOUS
  <2>1. job.line.op # "+" BY NoLineFields DEF Init
  <2> QED BY <2>1, TreeInvInit DEF WholeInv, Fresh, Underway
<1>2. WholeInv /\ [Next]_vars => WholeInv'
  BY WholeStep
<1>3. WholeInv /\ [Next]_vars => [FilesArriveWhole]_vars
  BY FilesStep DEF Next, Exited
<1> QED BY <1>1, <1>2, <1>3, PTL DEF Spec, ArriveWhole
=============================================================================
