------------------------------ MODULE MCLapply ------------------------------
(****************************************************************************)
(* Trees and plans for lapply, over the paths                               *)
(*    1 .   2 ./d   3 ./d/x   4 ./d/x.radmind.1   5 ./d.radmind.1   6 ./e   *)
(* A download to ./e has a name that is too long.  Contents 14 are an       *)
(* unfinished file, 15 new contents with the end of old ones; the modes     *)
(* are 0 (0000), 1 (0600), 2 (0755) and 3 (4755); 2 is the time of writing. *)
(****************************************************************************)
EXTENDS Lapply, MCObjects

MCLast == <<6, 4, 3, 4, 5, 6>>
MCTemp == <<<<0>>, <<5>>, <<4>>, <<0>>, <<0>>, <<0>>>>

MCLData == MCData \cup {14, 15}
MCLSize == [d \in MCLData |-> IF d \in MCData THEN MCSize[d] ELSE d - 13]
MCUmask(m) == IF m \in {2, 3} THEN 1 ELSE m   \* umask 077
MCCleared(m) == IF m = 3 THEN 2 ELSE m

Do(p, o)  == [op |-> "", special |-> FALSE, path |-> p, obj |-> o]
Get(p, o) == [op |-> "+", special |-> FALSE, path |-> p, obj |-> o]
Own(p, o) == [op |-> "+", special |-> TRUE, path |-> p, obj |-> o]
Del(p, o) == [op |-> "-", special |-> FALSE, path |-> p, obj |-> o]

(* All plans with one of the lines of choice[p], or none, for each path     *)
PlansOver(choice) ==
  LET P[p \in 0..NPath] ==
        IF p = 0 THEN {<<>>}
        ELSE P[p - 1] \cup { Append(q, e) : q \in P[p - 1], e \in choice[p] }
  IN  P[NPath]

(* The lines that remove what tree t has at path p                          *)
DelIn(t, p) == IF t.fs[p] = 0 THEN {} ELSE {Del(p, t.node[t.fs[p]])}

Opt(force, prefix, network, sum) ==
  [force |-> force, createPrefix |-> prefix, network |-> network, cksum |-> sum]
From(t, p, o) == [fs |-> t.fs, node |-> t.node, plan |-> p, opt |-> o]
-----------------------------------------------------------------------------
(* Directories that come and go, with the lines below them; with the        *)
(* temporary files of a killed run, or without                              *)
TreesWith(left) ==
  Sound(TreesOver(<<{Dir}, {Dir, File(11), LnkTo(11)}, {File(11), LnkTo(11), Dir},
                    {File(13)}, {File(13), File(11)}, {File(11), LnkTo(12)}>>,
                  { f \in NoSharing : { p \in 4..5 : f[p] # 0 } \in left }))

Lines(t) ==
  <<{},
    {Do(2, Chowned(Chmoded(Dir))), Get(2, File(12)), Own(2, File(12)),
     Do(2, Chowned(LnkTo(12)))} \cup DelIn(t, 2),
    {Get(3, Chmoded(File(12))), Do(3, Dir)} \cup DelIn(t, 3),
    {}, {},
    {Do(6, HardLink(3)), Get(6, File(11))} \cup DelIn(t, 6)>>

MCFrom(trees, o) ==
  UNION { { From(t, p, o) : p \in PlansOver(Lines(t)) } : t \in trees }
Plainly == Opt(FALSE, FALSE, TRUE, TRUE)
-----------------------------------------------------------------------------
(* Every type of object made into every other at ./d/x, with every owner,   *)
(* mode and time, where ./d may be missing (-C), and the line may be stale  *)
(* (-F); a removal finds what fsdiff found, or nothing                      *)
Kind == {Touched(Chmoded(File(11))), Dir, LnkTo(11), Dev(11), Dev(12), Plain("b", 11),
         Fifo, Plain("s", 0)}
Variants ==
  Kind \cup { Chowned(o) : o \in Kind }
       \cup { [o EXCEPT !.own = w, !.mode = m] : o \in Kind \ {LnkTo(11)},
              w \in {0, 1}, m \in {2, 3} }
Asked == Variants \cup { [o EXCEPT !.mtime = 2] : o \in { v \in Variants : v.type = "f" } }
Files == { o \in Asked : o.type = "f" }

MCTwoDeep ==
  Sound(TreesOver(<<{Dir}, {Chowned(Dir), File(11)}, Variants, {}, {}, {}>>,
                  { f \in NoSharing : \A p \in 4..6 : f[p] = 0 }))
MCOver ==
  { From(t, <<e>>, Opt(TRUE, TRUE, TRUE, FALSE)) : t \in MCTwoDeep,
    e \in { Do(3, o) : o \in Asked } \cup { Get(3, o) : o \in Files } }
  \cup { From(t, <<Del(3, File(11))>>, Opt(TRUE, TRUE, TRUE, FALSE)) :
           t \in { u \in MCTwoDeep : u.fs[3] = 0 } }
-----------------------------------------------------------------------------
MCStarts == MCFrom(TreesWith({{}}), Plainly)
            \cup MCFrom(TreesWith({{}}), [Plainly EXCEPT !.network = FALSE])
            \cup MCOver
MCLeft   == MCFrom(TreesWith({{4}, {5}}), Plainly)
MCOne    == MCFrom({ t \in TreesWith({{}}) :
                     t.node = <<Dir, Dir, File(11), Missing, Missing, File(11)>> }, Plainly)
=============================================================================
