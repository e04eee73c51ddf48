----------------------------- MODULE PathOrder -----------------------------
(****************************************************************************)
(* The order of paths in transcripts: pathcasecmp() and ischildcase()       *)
(* (pathcmp.c), and the order in which fs_walk() (fsdiff.c) sorts the       *)
(* names of a directory.  Module RadFS takes paths for ranks in this order  *)
(* with an interval below each; here it is shown that they are.             *)
(*                                                                          *)
(* A path is a sequence of bytes.  As in C, a byte of 128 or more is        *)
(* negative as a plain char, and 0 ends a string.  With -I, fs_walk() and   *)
(* pathcasecmp() order bytes of 128 or more differently; they are left out. *)
(****************************************************************************)
EXTENDS Integers, Sequences

CONSTANTS
  Bytes,   \* the bytes of paths
  BytesI,  \* the bytes of paths, with -I
  MaxLen   \* the length of the longest path

ASSUME PathOrderAssumption ==
  /\ Bytes \subseteq 1..255 /\ BytesI \subseteq 1..127
  /\ MaxLen \in Nat

Slash == 47

VARIABLES
  caseSensitive, \* FALSE for -I
  p1, p2, p3     \* any three paths
vars == <<caseSensitive, p1, p2, p3>>

At(p, i) == IF i \in 1..Len(p) THEN p[i] ELSE 0

ToLower(c) == IF c \in 65..90 THEN c + 32 ELSE c
Char(c) == IF c > 127 THEN c - 256 ELSE c

Key(c) == IF caseSensitive THEN c ELSE ToLower(Char(c))

(* The first place where two strings differ, or 0                           *)
FirstDiff(a, b, Ord(_)) ==
  LET differ == { i \in 1..(Len(a) + Len(b) + 1) : Ord(At(a, i)) # Ord(At(b, i)) }
  IN  IF differ = {} THEN 0 ELSE CHOOSE i \in differ : \A j \in differ : i <= j

(* Mutant: '/' comes before the end, too                                    *)
PathCaseCmpEnd(a, b) ==
  LET i == FirstDiff(a, b, Key)
  IN  CASE i = 0 -> 0
        [] i # 0 /\ At(a, i) = Slash -> -1
        [] i # 0 /\ At(a, i) # 0 /\ At(b, i) = Slash -> 1
        [] OTHER -> Key(At(a, i)) - Key(At(b, i))

(* pathcasecmp(): '/' comes before any other byte, but after the end        *)
PathCaseCmp(a, b) ==
  LET i == FirstDiff(a, b, Key)
  IN  CASE i = 0 -> 0
        [] i # 0 /\ At(b, i) # 0 /\ At(a, i) = Slash -> -1
        [] i # 0 /\ At(a, i) # 0 /\ At(b, i) = Slash -> 1
        [] OTHER -> Key(At(a, i)) - Key(At(b, i))

(* strcmp(), or strcasecmp() with -I, which compares unsigned chars         *)
Cmp(a, b) ==
  LET Ord(c) == IF caseSensitive THEN c ELSE ToLower(c)
      i == FirstDiff(a, b, Ord)
  IN  IF i = 0 THEN 0 ELSE Ord(At(a, i)) - Ord(At(b, i))

(* ischildcase(): strncmp() or strncasecmp() over the length of the parent  *)
IsChildCase(child, parent) ==
  /\ Len(parent) <= Len(child)
  /\ IF parent = <<Slash>> THEN At(child, 1) = Slash
     ELSE /\ Cmp(SubSeq(child, 1, Len(parent)), parent) = 0
          /\ At(child, Len(parent) + 1) \in {Slash, 0}
-----------------------------------------------------------------------------
Strings(n) == UNION { [1..k -> IF caseSensitive THEN Bytes ELSE BytesI] : k \in 1..n }
Name(s) == s # <<>> /\ \A i \in DOMAIN s : s[i] # Slash
Child(d, s) == d \o <<Slash>> \o s

Init ==
  /\ caseSensitive \in BOOLEAN
  /\ p1 \in Strings(MaxLen) /\ p2 \in Strings(MaxLen) /\ p3 \in Strings(MaxLen)
Next == UNCHANGED vars
Spec == Init /\ [][Next]_vars
-----------------------------------------------------------------------------
Sign(n) == IF n < 0 THEN -1 ELSE IF n > 0 THEN 1 ELSE 0

(* "bad sort order" can be told at all: the comparison is a total order     *)
(* (of paths up to case, with -I)                                           *)
TotalOrder ==
  /\ Sign(PathCaseCmp(p1, p2)) = -Sign(PathCaseCmp(p2, p1))
  /\ PathCaseCmp(p1, p2) <= 0 /\ PathCaseCmp(p2, p3) <= 0 => PathCaseCmp(p1, p3) <= 0

(* What is below a directory follows it in one piece: the lines after a     *)
(* directory that are not below it end it (the negative directories of      *)
(* fs_walk(), the removal list of lapply)                                   *)
SubtreeContiguous ==
  IsChildCase(p3, p1) =>
    /\ PathCaseCmp(p1, p3) <= 0
    /\ PathCaseCmp(p1, p2) <= 0 /\ PathCaseCmp(p2, p3) <= 0 => IsChildCase(p2, p1)

(* The walk meets the names of a directory, and all that is below them, in  *)
(* the order in which the transcripts list them (fsdiff(1), -I: "be case    *)
(* insensitive when comparing paths")                                       *)
WalkInOrder ==
  Name(p1) /\ Name(p2) /\ Cmp(p1, p2) < 0 =>
    /\ PathCaseCmp(Child(<<46>>, p1), Child(<<46>>, p2)) < 0
    /\ PathCaseCmp(Child(p1, p3), p2) < 0

(* What the modules that take a path for its rank rest on                   *)
OrderSound == TotalOrder /\ SubtreeContiguous /\ WalkInOrder
=============================================================================
