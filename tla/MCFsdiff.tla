------------------------------ MODULE MCFsdiff ------------------------------
(****************************************************************************)
(* Inputs for fsdiff over                                                   *)
(*    1 .    2 ./d    3 ./d/x    4 ./e    5 ./f                             *)
(****************************************************************************)
EXTENDS Fsdiff, MCObjects

MCLast == <<5, 3, 3, 4, 5>>

(* The transcripts in which path p has one of the objects of choice[p], or  *)
(* none (Missing), the paths in one of the sets of "minus" with a minus     *)
TranscriptsOver(kind, choice, minus) ==
  LET pick  == UNION { choice[p] : p \in Path }
      rows  == { c \in [Path -> pick] : \A p \in Path : c[p] \in choice[p] }
      lines(c, m) ==
        LET L(p) == IF c[p] = Missing THEN <<>>
                    ELSE <<[path |-> p, minus |-> p \in m, obj |-> c[p]]>>
            Cat[p \in 0..NPath] == IF p = 0 THEN <<>> ELSE Cat[p - 1] \o L(p)
        IN  Cat[NPath]
  IN  { [kind |-> kind, lines |-> lines(c, m)] : c \in rows, m \in minus }

Run(trees, commands, edit, cksum, ignore, prefix) ==
  [trees |-> trees, commands |-> commands,
   opt |-> [editPath |-> edit, cksum |-> cksum, ignoreTimestamps |-> ignore,
            prefix |-> prefix]]
-----------------------------------------------------------------------------
(* Directories that come and go: a special, a negative and a positive       *)
(* transcript, minus lines and excludes.  Two transcripts are not sorted.   *)
None == {Missing}
Maybe(o) == {Missing, o}

DirTrees ==
  Sound(TreesOver(<<{Dir}, {Dir, Chmoded(Dir), File(11)}, {File(11), File(12)},
                    {File(11), LnkTo(11)}, {}>>, NoSharing))

Positives ==
  TranscriptsOver("positive",
    <<{Dir}, {Missing, Dir, File(11)}, Maybe(File(11)), Maybe(File(11)), None>>, {{}})
Unsorted ==
  { [kind |-> "positive", lines |-> [n \in 1..3 |->
      [path |-> (<<1, 4, p>>)[n], minus |-> FALSE,
       obj |-> (<<Dir, File(11), File(11)>>)[n]]]] : p \in {3, 4} }
Negatives ==
  TranscriptsOver("negative",
    <<None, Maybe(Dir), Maybe(File(12)), Maybe(File(12)), None>>, {{}, {3}})
Specials ==
  TranscriptsOver("special", <<None, None, Maybe(File(12)), None, None>>, {{}})

Layered(specials, positives, excludes) ==
  { [tran |-> <<s, n, p>>, exclude |-> x,
     special |-> { s.lines[k].path : k \in DOMAIN s.lines }] :
      s \in specials, n \in Negatives, p \in positives, x \in excludes }

Dirs ==
  Run(DirTrees, Layered(Specials, Positives \cup Unsorted, {{}, {2}, {3}}),
      "applicable", TRUE, FALSE, 1)
(* The other edit direction, without excludes                               *)
Creates ==
  Run(DirTrees, Layered({[kind |-> "special", lines |-> <<>>]}, Positives, {{}}),
      "creatable", TRUE, FALSE, 1)
-----------------------------------------------------------------------------
(* Every way in which three names share inodes, against every way a         *)
(* transcript links them                                                    *)
LinkTrees ==
  LET any == {File(11), Chowned(File(11))}
  IN  Sound(TreesOver(<<{Dir}, {Dir}, any, any, any>>, { f \in Sharing : f[2] = 2 }))

Linkings(p) == {Missing, File(11), File(12)} \cup { HardLink(q) : q \in 3..(p - 1) }

Links ==
  Run(LinkTrees,
      { [tran |-> <<t>>, exclude |-> x, special |-> {}] :
          t \in TranscriptsOver("positive",
                  <<{Dir}, {Dir}, Linkings(3), Linkings(4), Linkings(5)>>, {{}}),
          x \in {{}, {3}} },
      "applicable", TRUE, FALSE, 1)
-----------------------------------------------------------------------------
(* Every type of object against every type of line, in every kind of        *)
(* transcript, for the argument ./d                                         *)
Every == {Dir, File(11), File(12), File(13), Touched(File(11)), LnkTo(11),
          LnkTo(12), Dev(11), Dev(12), Fifo, Plain("s", 0), Plain("b", 11)}
Variants == Every \cup { Chowned(o) : o \in Every } \cup { Chmoded(o) : o \in Every }

TypeTrees ==
  Sound({ [fs   |-> <<1, 2, x, 4, 0>>,
           node |-> <<Dir, o, IF x = 0 THEN Missing ELSE File(11), File(11), Missing>>] :
            o \in Variants, x \in {0, 3} })

At(p, o) == [path |-> p, minus |-> FALSE, obj |-> o]
TypeCommands ==
  { [tran |-> <<[kind |-> k, lines |-> <<At(1, Dir), At(2, o)>> \o below
                                         \o <<At(4, File(11))>>]>>,
     exclude |-> {}, special |-> Path] :
      k \in Kinds, o \in Every, below \in {<<>>, <<At(3, File(11))>>} }

Compares == { Run(TypeTrees, TypeCommands, "applicable", c, c, 2) : c \in BOOLEAN }
-----------------------------------------------------------------------------
MCInputs == {Dirs, Creates, Links} \cup Compares

(* Fsdiff_proofs proves EditsExact for such inputs                          *)
ASSUME MCAssumption == OrdinaryInputs
=============================================================================
