----------------------------- MODULE MCSession ------------------------------
(****************************************************************************)
(* Two config files, one including the other, and three command files of    *)
(* which the last is missing.                                               *)
(****************************************************************************)
EXTENDS Session

MCDirName == [k \in {"k1", "k2", "k3"} |-> IF k = "k2" THEN "sub" ELSE "."]

E(ids, k) == [op |-> "entry", pattern |-> ids, name |-> k]
I(ids, f) == [op |-> "include", pattern |-> ids, name |-> f]
Bad       == [op |-> "bad", pattern |-> {}, name |-> "config"]
K(op, x)  == [op |-> op, minus |-> FALSE, name |-> x]
Minus(l)  == [l EXCEPT !.minus = TRUE]

Conf1 == [config |-> <<E({"host"}, "k1")>>]
K1    == [k1 |-> <<K("p", "t1")>>]

Ready ==
  [authlevel |-> 1, checkuser |-> FALSE, rap |-> TRUE, zlib |-> TRUE, busy |-> FALSE,
   cauth |-> 1, czlib |-> FALSE, script |-> <<"STAT">>,
   scert |-> TRUE, sname |-> TRUE, ccert |-> TRUE, pass |-> TRUE]
Clear == [Ready EXCEPT !.authlevel = 0, !.cauth = 0]

With(s) == [setup |-> s, conf |-> Conf1, kfiles |-> K1]

Scripts == {<<"STAT", "RETR">>, <<"STOR">>, <<"LOGIN", "STOR">>, <<"REPO">>}

(* Levels and certificates; users; capabilities                             *)
Levels ==
  { With([Ready EXCEPT !.authlevel = a, !.cauth = c, !.scert = s, !.sname = n, !.ccert = x, !.script = p]) :
      a \in 0..2, c \in 0..2, s \in BOOLEAN, n \in BOOLEAN, x \in BOOLEAN, p \in Scripts }
Users ==
  { With([Ready EXCEPT !.checkuser = u, !.pass = w, !.script = p]) :
      u \in BOOLEAN, w \in BOOLEAN, p \in Scripts \cup {<<"STOR", "STOR">>} }
Offers ==
  { With([b EXCEPT !.rap = r, !.zlib = z, !.czlib = c, !.busy = y, !.script = p]) :
      b \in {Ready, Clear}, r \in BOOLEAN, z \in BOOLEAN, c \in BOOLEAN, y \in BOOLEAN,
      p \in {<<"STAT", "RETR">>, <<"REPO">>} }

(* Clients of other makes, that say anything in any order                   *)
Others ==
  { With([b EXCEPT !.script = p]) :
      b \in {[Clear EXCEPT !.authlevel = 1, !.checkuser = TRUE], [Clear EXCEPT !.zlib = FALSE]},
      p \in [1..3 -> {"STARTTLS", "LOGIN", "STOR", "COMP"}] \cup [1..2 -> {"STARTTLS", "NOOP", "HELP", "STAT"}] }

(* Config files: all pairs of lines, with an include of "sub" or without    *)
Lines == {E({"host"}, "k1"), E({"addr"}, "k2"), E({"cn", "addr"}, "k1"), E({}, "k2"), Bad,
          I({"host"}, "sub"), I({}, "sub"), I({"addr"}, "none")}
Subs  == {<<>>, <<E({"cn"}, "k2")>>, <<I({"addr"}, "sub"), E({"host"}, "k2")>>,
          <<E({}, "k2"), I({"host"}, "config"), E({"addr"}, "k2")>>, <<E({}, "k1"), E({"cn", "host"}, "k1")>>}
Configs ==
  { [setup |-> b, conf |-> c, kfiles |-> [k1 |-> <<>>, k2 |-> <<>>]] :
      b \in {Clear, [Ready EXCEPT !.authlevel = 2, !.cauth = 2]},
      c \in { [config |-> t, sub |-> u] : t \in { <<x, y>> : x \in Lines, y \in Lines }, u \in Subs }
            \cup {[sub |-> <<E({"host"}, "k1")>>]} }

KLines == {K("k", "k1"), K("k", "k2"), K("k", "k3"), K("p", "t1"), Minus(K("k", "k3")), K("s", "t2")}
KFiles ==
  { [With(b) EXCEPT !.kfiles = [k1 |-> t, k2 |-> u]] :
      b \in {Clear, Ready}, t \in { <<x, y>> : x \in KLines, y \in KLines },
      u \in {<<>>, <<K("p", "t2"), K("k", "k1"), K("p", "t1")>>, <<K("bad", "t1")>>, <<Minus(K("bad", "t1"))>>} }

MCSetups == Levels \cup Users \cup Offers \cup Others \cup Configs \cup KFiles
=============================================================================
