------------------------------- MODULE RadFS -------------------------------
(****************************************************************************)
(* The file system as the radmind tools see it, shared by the client        *)
(* modules: paths in transcript order, the objects that lstat() reports,    *)
(* and the transcript lines that describe them.                             *)
(*                                                                          *)
(* A path is its rank in the order of pathcasecmp(): '/' sorts before every *)
(* other character, so the descendants of a path directly follow it and     *)
(* occupy an interval Last[p] of ranks.  That the order has this shape is   *)
(* the subject of module PathOrder.                                         *)
(****************************************************************************)
EXTENDS Naturals, Sequences, FiniteSets

CONSTANTS
  NPath,   \* the paths are 1..NPath
  Last,    \* Last[p]: the greatest rank below path p (p itself for a leaf)
  NInode,  \* inodes are 1..NInode; 0 stands for "no such object"
  Data,    \* file contents, link targets and device numbers
  Size,    \* st_size of each element of Data
  Owners,  \* uid/gid pairs, 0 for root
  Modes,   \* permission bits, T_MODE & st_mode
  Times    \* modification times

Path  == 1..NPath
Inode == 1..NInode

ASSUME PathAssumption ==
  /\ NPath \in Nat \ {0}
  /\ Last \in [Path -> Path]
  /\ \A p \in Path : p <= Last[p]
  /\ \A p, q \in Path : q \in p..Last[p] => Last[q] <= Last[p]

ASSUME ObjectAssumption ==
  /\ NInode \in Nat
  /\ Size \in [Data -> Nat]
  /\ Data \subseteq Nat \ (Path \cup {0})
  /\ 0 \in Owners /\ 0 \in Modes /\ 0 \in Times

(* ischildcase(): is c equal to p or somewhere below it?                    *)
Inside(c, p) == c \in p..Last[p]

(* The directory that holds c; 0 for the top of the tree.                   *)
Parent(c) ==
  LET above == { q \in 1..(c - 1) : Inside(c, q) }
  IN  IF above = {} THEN 0 ELSE CHOOSE q \in above : \A r \in above : r <= q

-----------------------------------------------------------------------------
(****************************************************************************)
(* Objects.  "type" is the letter radstat() assigns and transcripts use;    *)
(* "data" is the contents of a file (its size and checksum), the target of  *)
(* a link, the device number of a device, the first name for an 'h' line.   *)
(* 'D' (Solaris) behaves as 's' and 'a' (Mac OS) as 'f'.  A field an        *)
(* object of a type does not have is 0.                                     *)
(****************************************************************************)
Types == {"d", "f", "l", "h", "p", "s", "c", "b"}

Obj == { o \in [type : Types, data : Data \cup Path \cup {0},
                own : Owners, mode : Modes, mtime : Times] :
           (o.type = "f" => o.data \in Data) /\ (o.type = "h" => o.data \in Path) }

HardLink(q) == [type |-> "h", data |-> q, own |-> 0, mode |-> 0, mtime |-> 0]

(* A name that lstat() does not find                                        *)
Missing == [type |-> "X", data |-> 0, own |-> 0, mode |-> 0, mtime |-> 0]

(* A transcript line; "minus" is the leading '-' that hides a line of a     *)
(* transcript of lower precedence.                                          *)
Line == [path : Path, minus : BOOLEAN, obj : Obj]

(* What radstat() finds: a name that exists hangs from a directory, and the *)
(* names of one inode are names of one object; a directory has one name.    *)
(* An inode without a name is free and holds Missing.                       *)
WellFormed(name, inode) ==
  /\ name \in [Path -> Inode \cup {0}]
  /\ inode \in [Inode -> Obj \cup {Missing}]
  /\ \A i \in Inode : inode[i] = Missing <=> \A p \in Path : name[p] # i
  /\ \A p \in Path : name[p] # 0 /\ Parent(p) # 0 =>
        name[Parent(p)] # 0 /\ inode[name[Parent(p)]].type = "d"
  /\ \A p, q \in Path : name[p] # 0 /\ name[p] = name[q] /\ p # q =>
        inode[name[p]].type # "d"

VARIABLES
  fs,   \* fs[p]: the inode that path p names, 0 if p does not exist
  node  \* node[i]: the object of inode i, Missing if it is free

(* lstat()                                                                  *)
Lstat(p) == IF fs[p] = 0 THEN Missing ELSE node[fs[p]]
Exists(p) == fs[p] # 0
IsDir(p) == Lstat(p).type = "d"

(* st_nlink of an inode, for names inside the tree                          *)
NLink(i) == Cardinality({ p \in Path : fs[p] = i })

(* The names readdir() returns for directory p                              *)
Children(p) == { c \in Path : Exists(c) /\ Parent(c) = p }

(* The least element of a non-empty set of numbers                          *)
Least(S) == CHOOSE x \in S : \A y \in S : x <= y
=============================================================================
