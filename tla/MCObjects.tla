------------------------------ MODULE MCObjects ------------------------------
(****************************************************************************)
(* Objects and file systems for the instances that TLC checks.              *)
(****************************************************************************)
EXTENDS RadFS

MCData == {11, 12, 13}
MCSize == [d \in MCData |-> IF d = 13 THEN 2 ELSE 1]  \* 11 and 12: same size

Plain(t, d) == [type |-> t, data |-> d, own |-> 0, mode |-> 0, mtime |-> 0]
Dir  == Plain("d", 0)
File(d) == Plain("f", d)
LnkTo(d) == Plain("l", d)
Dev(d) == Plain("c", d)
Fifo == Plain("p", 0)
Chowned(o) == [o EXCEPT !.own = 1]
Chmoded(o) == [o EXCEPT !.mode = 1]
Touched(o) == [o EXCEPT !.mtime = 1]

(* All trees over the paths, given the objects each path may hold;          *)
(* inode p is the one that path p is the first name of.                     *)
TreesOver(objects, shapes) ==
  LET Nodes(f) ==
        LET N[i \in 0..NInode] ==
              IF i = 0 THEN {<<>>}
              ELSE { Append(n, o) : n \in N[i - 1],
                     o \in IF i \in Path /\ f[i] = i THEN objects[i] ELSE {Missing} }
        IN  N[NInode]
  IN  UNION { { [fs |-> f, node |-> n] : n \in Nodes(f) } : f \in shapes }
Sound(trees) == { t \in trees : WellFormed(t.fs, t.node) }

NoSharing == { f \in [Path -> Inode \cup {0}] : \A p \in Path : f[p] \in {0, p}
                 /\ (p = 1 => f[p] = 1) }
Sharing   == { f \in [Path -> Inode \cup {0}] :
                 /\ f[1] = 1
                 /\ \A p \in Path \ {1} :
                      f[p] = 0 \/ (f[p] # 1 /\ f[p] <= p /\ f[f[p]] = f[p]) }
=============================================================================
