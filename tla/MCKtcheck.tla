----------------------------- MODULE MCKtcheck -----------------------------
(****************************************************************************)
(* Command files 1 (base.K) and 2; transcripts 11 a.T, 12 b, 13 b/c.T;      *)
(* special files 21 and 22; a pattern 31.                                   *)
(****************************************************************************)
EXTENDS Ktcheck

Add(op, n)  == [op |-> op, minus |-> FALSE, name |-> n]
Drop(op, n) == [op |-> op, minus |-> TRUE, name |-> n]

MCLines == [d \in Data |->
  CASE d = 101 -> <<Add("k", 2), Add("s", 21), Add("n", 12)>>
    [] d = 102 -> <<Add("n", 12), Add("x", 31), Add("k", 2), Drop("n", 12), Drop("x", 31),
                    Add("p", 11)>>
    [] d = 103 -> <<Add("s", 22), Add("p", 13), Add("k", 2), Add("p", 11), Drop("s", 22)>>
    [] d = 104 -> <<Add("p", 11), Add("k", 2), Add("k", 2)>>
    [] d = 111 -> <<Add("s", 22), Add("p", 11), Drop("p", 11), Add("n", 11)>>
    [] d = 112 -> <<Drop("s", 22), Add("s", 21)>>
    [] d = 113 -> <<Add("k", 1), Add("p", 11)>>
    [] OTHER   -> <<>>]

MCSize == [d \in Data |-> IF d \in {0, 203} THEN 0 ELSE IF d \in {103, 112, 202} THEN 2 ELSE 1]

MCNested == {<<12, 13>>}

MCReleases == [n \in Name \cup Special |->
  CASE n = 1  -> {102, 103}
    [] n = 2  -> {0, 112}
    [] n = 11 -> {0, 202, 204}
    [] n = 12 -> {201}
    [] n = 21 -> {0, 302}
    [] OTHER  -> {0}]

(* Files as released, each at a time of its own; and files modified         *)
Old(d)     == IF d = 0 THEN Absent ELSE [data |-> d, mtime |-> d]
Touched(d) == [data |-> d, mtime |-> 9]

(* A server by its base file, the one it includes, and 12 or 13             *)
ServerOf(b, k, nested) == [n \in Name \cup Special |->
  CASE n = 1  -> Old(b)
    [] n = 2  -> Old(k)
    [] n = 12 -> IF nested THEN Absent ELSE Old(203)
    [] n = 13 -> IF nested THEN Old(202) ELSE Absent
    [] n = 11 -> Old(201)
    [] OTHER  -> Old(301)]

Client(a, b, c, d, e, sp) ==
  [files |-> [n \in Name |->
     CASE n = 1 -> a [] n = 2 -> b [] n = 11 -> c [] n = 12 -> d [] OTHER -> e],
   special |-> sp]

Entry(s) == [name |-> s, file |-> Old(301)]

(* Nothing; as some server has it; old and modified files; transcripts      *)
(* that are not listed; a file in the place of a directory                  *)
Clients ==
  { Client(Absent, Absent, Absent, Absent, Absent, <<>>),
    Client(Old(101), Old(111), Old(201), Old(203), Absent, <<Entry(21), Entry(22)>>),
    Client(Touched(103), Old(112), Touched(204), Absent, Touched(202), <<Entry(21)>>),
    Client(Old(103), Old(111), Absent, Old(203), Absent, <<>>) }

MCStarts ==
  { [server |-> s, client |-> c.files, specialT |-> c.special, opt |-> o] :
      s \in { ServerOf(101, 111, FALSE), ServerOf(102, 112, FALSE), ServerOf(103, 111, TRUE),
              ServerOf(104, 112, FALSE), ServerOf(101, 113, FALSE), ServerOf(103, 112, TRUE) },
      c \in Clients,
      o \in { p \in [cksum : BOOLEAN, update : BOOLEAN, clean : BOOLEAN] :
                p.clean => p.update } }
=============================================================================
