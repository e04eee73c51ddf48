------------------------------- MODULE Naming -------------------------------
(****************************************************************************)
(* Names as the programs handle them: their order, the patterns that match  *)
(* them, the lines that carry them.                                         *)
(****************************************************************************)
EXTENDS Wildcard, Encoding

CONSTANTS
  Patterns, \* of wildcard()
  Texts,    \* what they are laid over
  Odd       \* the bytes of names that are hard to write

ASSUME NamingAssumption ==
  /\ Patterns \subseteq Seq(Element) /\ Texts \subseteq Seq(1..255)
  /\ Odd \subseteq 1..255

VARIABLE
  wild      \* a pattern, or none

names == <<wild, vars>>

Written == UNION { [1..k -> Odd] : k \in 1..MaxLen }

(* Three paths in order; a pattern and a text; two names in a line          *)
NamesInit ==
  \/ Init /\ wild = <<>>
  \/ /\ wild \in Patterns /\ caseSensitive \in BOOLEAN
     /\ p1 \in Texts /\ p2 = <<>> /\ p3 = <<>>
  \/ /\ wild = <<>> /\ caseSensitive = TRUE
     /\ p1 \in Written /\ p2 \in Written /\ p3 = <<>>

NamesNext == UNCHANGED names
NamesSpec == NamesInit /\ [][NamesNext]_names
-----------------------------------------------------------------------------
(* radmind(8): without lists a pattern matches nothing but what the manual  *)
(* says, and it matches all of that unless a list has one byte only or a    *)
(* '*' has nothing after it that needs a byte; there the code does not do   *)
(* what the manual says.  A '?' or a list that faces the end of the text    *)
(* takes it for a byte, and then anything may come out.                     *)
AsDocumented ==
  /\ Plain(wild) /\ Documented(wild, p1) => wildcard(wild, p1) = {TRUE}
  /\ Listless(wild) /\ ~Documented(wild, p1) /\ ~Overruns(wild, p1) => wildcard(wild, p1) = {FALSE}

(* wildcard.c: whatever an element is for the code, in all patterns: the    *)
(* order in which the places for a '*' and the strings in braces are tried  *)
(* overlooks no way to lay the pattern over the text, and takes none that   *)
(* there is not                                                             *)
SearchComplete ==
  /\ Matches(wild, p1) => wildcard(wild, p1) = {TRUE}
  /\ ~Matches(wild, p1) /\ ~Overruns(wild, p1) => wildcard(wild, p1) = {FALSE}

(* A pattern matches what it should: what the manual says where the code    *)
(* follows it, and elsewhere at least what its elements make of it          *)
WildcardExact == wild # <<>> => AsDocumented /\ SearchComplete

(* "This code must match decode() *and* argcargv()" (code.c): two names in  *)
(* a line are the same two when it has been taken apart, whatever they are  *)
(* made of, written either way, and the line is not taken for another       *)
LinesSurvive ==
  p3 = <<>> /\ p2 # <<>> =>
    \A forShell \in BOOLEAN :
      LET a == encode_internal(p1, forShell)
          b == encode_internal(p2, forShell)
          words == acav_parse(<<108, Space>> \o a \o <<Tab>> \o b \o <<Space>> \o a \o <<Newline>>)
      IN  /\ words = << <<108>>, a, b, a >>
          /\ decode(words[2]) = p1 /\ decode(words[3]) = p2
=============================================================================
