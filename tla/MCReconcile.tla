---------------------------- MODULE MCReconcile ----------------------------
(****************************************************************************)
(* Updates of   1 .   2 ./d   3 ./d/x   4 ./d/x.radmind.1                   *)
(*              5 ./d.radmind.1   6 ./e                                     *)
(* from any of the trees to what a positive and a negative transcript say.  *)
(****************************************************************************)
EXTENDS Reconcile, MCObjects

MCLast == <<6, 4, 3, 4, 5, 6>>
MCTemp == [p \in 1..6 |-> [i \in Pid |-> IF i = 1 THEN (<<0, 5, 4, 0, 0, 0>>)[p] ELSE 0]]

MCLData == MCData \cup {14, 15}
MCLSize == [d \in MCLData |-> IF d \in MCData THEN MCSize[d] ELSE d - 13]
MCUmask(m) == IF m = 2 THEN 1 ELSE m
MCCleared(m) == m

(* What is there: 4 and 5 are what a run that was killed has left           *)
Inode4 == { f \in Sharing : f[4] = 0 /\ f[5] = 0 /\ f[2] \in {0, 2}
                            /\ f[3] \in {0, 3} /\ f[6] \in {0, 3, 6} }
MCTrees ==
  Sound(TreesOver(<<{Dir}, {Dir, Chowned(Dir), File(11)}, {File(11), File(12), LnkTo(11)},
                    {}, {}, {File(11), Dir}>>, Inode4))

Pos(p, o) == [path |-> p, minus |-> FALSE, obj |-> o]
Positives ==
  { <<Pos(1, Dir)>> \o d \o e :
      d \in { <<>>, <<Pos(2, Touched(File(12)))>> }
            \cup { <<Pos(2, Chmoded(Dir))>> \o x :
                     x \in {<<>>, <<Pos(3, Chmoded(File(12)))>>, <<Pos(3, LnkTo(12))>>,
                            <<Pos(3, Dir)>>} },
      e \in { <<>>, <<Pos(6, HardLink(3))>>, <<Pos(6, Dev(11))>> } }
Consistent(t) ==
  /\ \A n \in DOMAIN t : t[n].obj.type = "h" =>
       \E m \in DOMAIN t : t[m].path = t[n].obj.data /\ t[m].obj.type = "f"

Over ==
  { [kind |-> "negative", lines |-> l] :
      l \in {<<>>, <<Pos(2, Dir)>>, <<Pos(3, File(13))>>} }
  \cup { [kind |-> "special", lines |-> <<Pos(3, Chmoded(File(13)))>>] }
HasParents(o, t) == o.lines # <<>> => \E m \in DOMAIN t :
  t[m].path = 2 /\ t[m].obj.type = "d"

MCCommandFiles ==
  { [tran |-> <<o, [kind |-> "positive", lines |-> t]>>, exclude |-> {},
     special |-> IF o.kind = "special" THEN {3} ELSE {}] :
      o \in Over, t \in { u \in Positives : Consistent(u) } }
MCConsistent == { c \in MCCommandFiles : HasParents(c.tran[1], c.tran[2].lines) }

MCStarts ==
  { [fs |-> t.fs, node |-> t.node, plan |-> <<>>, cmd |-> c,
      opt |-> [force |-> FALSE, createPrefix |-> FALSE, network |-> TRUE,
               cksum |-> TRUE]] :
      t \in MCTrees, c \in MCConsistent }
=============================================================================
