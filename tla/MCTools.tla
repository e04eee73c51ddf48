------------------------------ MODULE MCTools -------------------------------
(****************************************************************************)
(* Loadsets over a directory 1 with something in it, 2, and a path 3.       *)
(****************************************************************************)
EXTENDS Tools

MCLast == <<2, 2, 3>>

F(p, d)  == [path |-> p, minus |-> FALSE, type |-> "f", data |-> d, mtime |-> 1]
D(p)     == [path |-> p, minus |-> FALSE, type |-> "d", data |-> NoData, mtime |-> 1]
Minus(l) == [l EXCEPT !.minus = TRUE]

(* The file directory that belongs to a transcript                          *)
Own(lines) ==
  [p \in Path |->
     LET ks == { k \in FileLines(lines) : lines[k].path = p }
     IN  IF ks # {} THEN lines[CHOOSE k \in ks : TRUE].data
         ELSE IF \E k \in FileLines(lines) : p \in Above(lines[k].path) THEN Folder ELSE Nothing]

(* Transcripts: without a file that has something below it                  *)
Choice(p) ==
  CASE p = 1 -> {<<>>, <<D(1)>>, <<Minus(D(1))>>, <<F(1, "x")>>}
    [] p = 2 -> {<<>>, <<F(2, "x")>>, <<F(2, "y")>>, <<Minus(F(2, "x"))>>}
    [] OTHER -> {<<>>, <<F(3, "x")>>, <<Minus(F(3, "x"))>>}

Sane(t) == ~\E k, m \in FileLines(t) : t[m].path \in Below(t[k].path)
Small == { t \in { a \o b : a \in Choice(1), b \in Choice(2) } : Sane(t) }
Large == { t \o c : t \in Small, c \in Choice(3) }
Flat  == { b \o c : b \in Choice(2) \ {<<F(2, "y")>>}, c \in Choice(3) }

Wild == {<<F(3, "x"), F(2, "x")>>, <<F(2, "x"), F(3, "x"), F(2, "x")>>,
         <<F(3, "x"), F(2, "x"), Minus(F(3, "x"))>>, <<F(2, "x"), F(2, "y")>>}

Plain    == [force |-> FALSE, noupload |-> FALSE, only |-> FALSE, copy |-> FALSE, n |-> 2]
Force    == [Plain EXCEPT !.force = TRUE]
Noupload == [Plain EXCEPT !.noupload = TRUE]
Copying  == [Plain EXCEPT !.copy = TRUE]

NoCheck == [update |-> FALSE, all |-> FALSE, prefix |-> Path, targets |-> <<>>]
Check1(o) == [NoCheck EXCEPT !.update = o.copy, !.targets = <<IF o.force THEN 2 ELSE 0>>]

Job(o, ts, c) ==
  LET t3 == [t \in Tran |-> IF t \in DOMAIN ts THEN ts[t] ELSE <<>>]
  IN  [tran |-> t3, files |-> [t \in Tran |-> Own(t3[t])], merge |-> TRUE, opt |-> o, ck |-> c]

Merges ==
  { Job(o, <<a, b>>, NoCheck) : o \in {Plain, Force, Noupload}, a \in Small, b \in Large }
  \cup { Job([Plain EXCEPT !.n = 3], <<a, b, c>>, NoCheck) : a \in Flat, b \in Flat, c \in Flat }
  \cup { Job(o, <<a, b>>, NoCheck) : o \in {Plain, Force, [Plain EXCEPT !.only = TRUE]},
                                     a \in Wild \cup Flat, b \in Wild }

(* A file directory that has less or more than it should, or a destination  *)
(* that exists; then lcksum looks at what has been made                     *)
Damage(fd, p, x) ==
  [q \in Path |-> CASE q = p -> x
                    [] q \in Above(p) /\ x # Nothing -> Folder
                    [] q \in Below(p) /\ x # Folder -> Nothing
                    [] OTHER -> fd[q]]

Damaged ==
  { [j EXCEPT !.files[2] = Damage(@, p, x)] :
      j \in { Job(o, <<a, b>>, Check1(o)) : o \in {Plain, Force, Copying, Noupload, [Force EXCEPT !.copy = TRUE]},
                a \in {<<F(2, "x")>>, <<F(3, "x")>>, <<F(2, "y"), F(3, "x")>>, <<Minus(D(1)), Minus(F(2, "x"))>>,
                       <<Minus(D(1)), Minus(D(2)), Minus(D(3))>>, <<F(1, "x"), Minus(D(2))>>},
                b \in {<<>>, <<F(1, "x")>>, <<D(1), F(2, "x")>>, <<Minus(F(3, "x"))>>, <<F(3, "x")>>, <<D(1), D(2), D(3)>>} },
      p \in Path, x \in {Nothing, Folder, "y"} }

Replacing ==
  { [Job(o, <<<<F(2, "x")>>, <<F(3, "x")>>>>, Check1(o)) EXCEPT
       !.tran[0] = t, !.files[0] = Own(t)] :
      o \in {Plain, [Plain EXCEPT !.only = TRUE]}, t \in {<<D(1)>>, <<F(3, "y")>>} }

(* lcksum alone: every transcript against every content of the files        *)
Held == { [p \in Path |-> IF p = 1 THEN Folder ELSE fd[p]] : fd \in [2..3 -> {"x", "y", Nothing}] }
Lists == {<<D(1), F(2, "x"), F(3, "y")>>, <<F(2, NoData), Minus(F(3, "x"))>>, <<F(3, "x"), F(2, "y")>>}

Checks ==
  { [Job(Plain, <<>>, [update |-> u, all |-> a, prefix |-> p, targets |-> m]) EXCEPT
       !.merge = FALSE, !.tran[1] = l1, !.tran[2] = l2, !.files[1] = f1, !.files[2] = f2] :
      u \in BOOLEAN, a \in BOOLEAN, p \in {Path, {3}}, m \in {<<1>>, <<1, 2>>, <<1, 2, 1>>},
      l1 \in Lists, l2 \in {<<F(2, "x")>>}, f1 \in Held, f2 \in { Bare, [Bare EXCEPT ![2] = "x"], [Bare EXCEPT ![2] = "y"] } }

MCJobs == Merges \cup Damaged \cup Replacing \cup { j \in Checks : j.ck.all => ~j.ck.update }
=============================================================================
