------------------------------ MODULE Wildcard ------------------------------
(****************************************************************************)
(* wildcard() (wildcard.c): the patterns of the server's config file, of    *)
(* the exclude lines of command files and of twhich.                        *)
(*                                                                          *)
(* A pattern is a sequence of elements: a byte, escaped or not, '*', '?', a *)
(* list in square brackets, strings in curly braces, a range of numbers in  *)
(* angle brackets.  Malformed patterns are left out.                        *)
(****************************************************************************)
EXTENDS PathOrder, SequencesExt

Element ==
  [kind : {"byte"}, byte : 1..255] \cup [kind : {"one", "star"}]
    \cup [kind : {"list"}, bytes : SUBSET (1..255)]
    \cup [kind : {"words"}, words : SUBSET Seq(1..255)]
    \cup [kind : {"range"}, min : Nat, max : Nat]

Digit(c) == c \in 48..57

(* tolower() unless case matters                                            *)
Fold(c) == IF caseSensitive THEN c ELSE ToLower(c)
FoldAll(s) == [k \in DOMAIN s |-> Fold(s[k])]

(* The end of the digits that begin at place i                              *)
PastDigits(p, i) ==
  CHOOSE k \in i..(Len(p) + 1) : ~Digit(At(p, k)) /\ \A m \in i..(k - 1) : Digit(p[m])

(* atoi()                                                                   *)
Number(s) == FoldLeft(LAMBDA n, c : 10 * n + c - 48, 0, s)

(* What comes of trying one possibility after the other                     *)
Either(results) ==
  (IF \E r \in results : TRUE \in r THEN {TRUE} ELSE {})
    \cup (IF \A r \in results : FALSE \in r THEN {FALSE} ELSE {})

(* Mutant: '*' stands for one byte at least                                 *)
StarsPlus(j, p) == (j + 1)..Len(p)

(* Where the rest of the pattern is tried, after '*'                        *)
Stars(j, p) == j..Len(p)

(* The places in text p to which element e leads from place j.  A list      *)
(* takes what differs from one of its bytes; it and '?' take the NUL at the *)
(* end of the text for a byte.                                              *)
Leads(e, p, j) ==
  CASE e.kind = "byte"  -> IF Fold(At(p, j)) = Fold(e.byte) THEN {j + 1} ELSE {}
    [] e.kind = "one"   -> {j + 1}
    [] e.kind = "list"  -> IF \E c \in e.bytes : Fold(c) # Fold(At(p, j)) THEN {j + 1} ELSE {}
    [] e.kind = "words" -> { j + Len(s) : s \in { x \in e.words :
                               j + Len(x) <= Len(p) + 1
                               /\ FoldAll(x) = FoldAll(SubSeq(p, j, j + Len(x) - 1)) } }
    [] e.kind = "range" -> IF Digit(At(p, j)) /\ Number(SubSeq(p, j, PastDigits(p, j) - 1)) \in e.min..e.max
                           THEN {PastDigits(p, j)} ELSE {}
    [] e.kind = "star"  -> Stars(j, p)

(* wildcard( &wild[ i ], &p[ j ] ) for every i and j.  Behind the NUL of the *)
(* text anything may come out, so that the result is a set of values.       *)
WildcardFrom(w, p) ==
  LET out[i \in 1..(Len(w) + 1)] ==
        [j \in 1..(Len(p) + 2) |->
           IF i = Len(w) /\ w[i].kind = "star" THEN {TRUE}
           ELSE IF j > Len(p) + 1 THEN BOOLEAN
           ELSE IF i > Len(w) THEN {j = Len(p) + 1}
           ELSE Either({ out[i + 1][k] : k \in Leads(w[i], p, j) })]
  IN  out

wildcard(w, p) == WildcardFrom(w, p)[1][1]
-----------------------------------------------------------------------------
(****************************************************************************)
(* What radmind(8) says a pattern matches: its elements cut the text into   *)
(* parts, each of which takes its own.  A number is all the digits there    *)
(* are; of several strings in braces any may be the one that is found.      *)
(****************************************************************************)
Says(e, s, next) ==
  CASE e.kind = "byte"  -> FoldAll(s) = <<Fold(e.byte)>>
    [] e.kind = "one"   -> Len(s) = 1
    [] e.kind = "list"  -> Len(s) = 1 /\ \E c \in e.bytes : Fold(c) = Fold(s[1])
    [] e.kind = "words" -> \E x \in e.words : FoldAll(x) = FoldAll(s)
    [] e.kind = "range" -> /\ s # <<>> /\ \A k \in DOMAIN s : Digit(s[k])
                           /\ ~Digit(next) /\ Number(s) \in e.min..e.max
    [] e.kind = "star"  -> TRUE

Documented(w, p) ==
  \E cut \in [1..(Len(w) + 1) -> 1..(Len(p) + 1)] :
    /\ cut[1] = 1 /\ cut[Len(w) + 1] = Len(p) + 1
    /\ \A i \in DOMAIN w :
         cut[i] <= cut[i + 1] /\ Says(w[i], SubSeq(p, cut[i], cut[i + 1] - 1), At(p, cut[i + 1]))

(* Where wildcard() does something else (against radmind(8)): a list takes  *)
(* what differs from one of its bytes, so that one of a single byte takes   *)
(* all but that byte, and one of two takes everything; and a '*' is not     *)
(* tried at the end of the text unless it is the last element, which only   *)
(* tells when nothing after it needs a byte.                                *)
Listless(w) == \A i \in DOMAIN w : w[i].kind # "list"

NeedsByte(e) ==
  \/ e.kind \in {"byte", "one", "list", "range"}
  \/ e.kind = "words" /\ <<>> \notin e.words

Plain(w) ==
  /\ \A i \in DOMAIN w : w[i].kind = "list" =>
       \E c, d \in w[i].bytes : Fold(c) # Fold(d)
  /\ \A i \in DOMAIN w : w[i].kind = "star" /\ i < Len(w) =>
       \E m \in (i + 1)..Len(w) : NeedsByte(w[m])
-----------------------------------------------------------------------------
(****************************************************************************)
(* What the pattern matches if each element is taken for what the code      *)
(* makes of it, lists and '*' included: with this the search itself can be  *)
(* held against all ways to cut the text.                                   *)
(****************************************************************************)
Takes(e, s, next) ==
  IF e.kind = "list" THEN Len(s) = 1 /\ ~(\A c \in e.bytes : Fold(c) = Fold(s[1]))
  ELSE Says(e, s, next)

Matches(w, p) ==
  \E cut \in [1..(Len(w) + 1) -> 1..(Len(p) + 1)] :
    /\ cut[1] = 1 /\ cut[Len(w) + 1] = Len(p) + 1
    /\ \A i \in DOMAIN w :
         /\ cut[i] <= cut[i + 1]
         /\ Takes(w[i], SubSeq(p, cut[i], cut[i + 1] - 1), At(p, cut[i + 1]))
         /\ w[i].kind = "star" /\ i < Len(w) => cut[i + 1] <= Len(p)

(* The NUL may be taken for a byte                                          *)
Overruns(w, p) ==
  \E k \in DOMAIN w : w[k].kind \in {"one", "list"} /\ Matches(SubSeq(w, 1, k), Append(p, 0))
=============================================================================
