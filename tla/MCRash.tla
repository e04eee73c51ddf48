------------------------------- MODULE MCRash -------------------------------
(****************************************************************************)
(* Two runs of two users, in every combination of commands.                 *)
(****************************************************************************)
EXTENDS Rash

Plain(m, u) == [mode |-> m, user |-> u, flag |-> FALSE, check |-> FALSE, sum |-> Empty]

Flagged(u) == [Plain("hook", u) EXCEPT !.flag = TRUE]

First ==
  { Plain(m, "u") : m \in Modes }
  \cup {Flagged("u"), [Plain("auto", "u") EXCEPT !.check = TRUE, !.sum = [from |-> 1, to |-> 2]]}
Applying == {Plain("auto", "v"), Plain("force", "v"), Plain("update", "v")}

Machines ==
  {[desc |-> 1, fs |-> 1], [desc |-> 2, fs |-> 1], [desc |-> 2, fs |-> Work], [desc |-> Mixed, fs |-> Partial],
   [desc |-> Absent, fs |-> Work]}

Start(m, c, a, b) == [server |-> 2, desc |-> m.desc, fs |-> m.fs, checked |-> c, setup |-> <<a, b>>]

(* Each command while somebody checks the machine out; and two at a time    *)
(* that change the machine                                                  *)
MCStarts ==
  { Start(m, c, a, Plain("checkout", "v")) : m \in Machines, c \in {NoOne, "u"}, a \in First }
  \cup
  { Start(m, NoOne, a, b) :
      m \in {[desc |-> 1, fs |-> 1], [desc |-> 2, fs |-> 1]}, b \in Applying,
      a \in { s \in First : s.mode \in {"auto", "hook"} } }
=============================================================================
