------------------------------ MODULE Encoding ------------------------------
(****************************************************************************)
(* How names are written to transcripts and sent to the server, and read    *)
(* again: encode(), encode_space() and decode() (code.c), acav_parse()      *)
(* (argcargv.c).  Limits of length are left out.                            *)
(****************************************************************************)
EXTENDS Naturals, Sequences, SequencesExt

Space     == 32
Tab       == 9
Newline   == 10
Return    == 13
Backslash == 92

(* What stands behind a backslash                                           *)
Letter ==
  [c \in {Tab, Newline, Return, Space, Backslash} |->
     CASE c = Tab -> 116 [] c = Newline -> 110 [] c = Return -> 114
       [] c = Space -> 98 [] c = Backslash -> Backslash]

(* encode_internal(): fsdiff -C and others write spaces for a shell to read *)
EncodeByte(c, forShell) ==
  CASE c = Space /\ forShell -> <<Backslash, Space>>
    [] c \in DOMAIN Letter /\ ~(c = Space /\ forShell) -> <<Backslash, Letter[c]>>
    [] OTHER -> <<c>>

encode_internal(name, forShell) == FlattenSeq([k \in DOMAIN name |-> EncodeByte(name[k], forShell)])

(* The byte that a backslash and c stand for.  Behind another byte the      *)
(* buffer keeps what an earlier call has left there, and a line could end   *)
(* with a backslash; nothing is written so.                                 *)
Kept == 256
DecodeByte(c) ==
  IF c = Space THEN Space
  ELSE IF \E d \in DOMAIN Letter : Letter[d] = c THEN CHOOSE d \in DOMAIN Letter : Letter[d] = c
  ELSE Kept

decode(line) ==
  LET dec[i \in 1..(Len(line) + 1)] ==
        IF i > Len(line) THEN <<>>
        ELSE IF line[i] = Backslash /\ i < Len(line) THEN <<DecodeByte(line[i + 1])>> \o dec[i + 2]
        ELSE <<line[i]>> \o dec[i + 1]
  IN  dec[1]
-----------------------------------------------------------------------------
(* How many backslashes stand before place i                                *)
Slashes(line, i) == Cardinality({ k \in 1..(i - 1) : \A m \in k..(i - 1) : line[m] = Backslash })

(* Mutant: a space is part of a word whenever a backslash is before it      *)
WhiteAt(line, i) ==
  \/ line[i] \in {Tab, Newline}
  \/ line[i] = Space /\ Slashes(line, i) = 0

White(line, i) ==
  \/ line[i] \in {Tab, Newline}
  \/ line[i] = Space /\ Slashes(line, i) % 2 = 0

(* acav_parse(): the words of a line.  A byte that is not white begins a    *)
(* word if the one before it is, or there is none (ACV_WHITE).              *)
acav_parse(line) ==
  LET words[i \in 0..Len(line)] ==
        IF i = 0 THEN <<>>
        ELSE LET before == words[i - 1]
             IN  IF White(line, i) THEN before
                 ELSE IF i = 1 \/ White(line, i - 1) THEN Append(before, <<line[i]>>)
                 ELSE [before EXCEPT ![Len(before)] = Append(@, line[i])]
  IN  words[Len(line)]
=============================================================================
