------------------------------ MODULE MCUpload ------------------------------
(****************************************************************************)
(* Two uploads, under the same name or not, of one or two files             *)
(****************************************************************************)
EXTENDS Upload

CONSTANTS one, two, tran, other

MCVersions == {<<>>, <<2>>, <<2, 1>>}

Plain   == [cksum |-> FALSE, force |-> FALSE, negative |-> FALSE, only |-> FALSE]

MCOptions ==
  { Plain, [Plain EXCEPT !.cksum = TRUE], [Plain EXCEPT !.cksum = TRUE, !.force = TRUE],
    [Plain EXCEPT !.negative = TRUE], [Plain EXCEPT !.only = TRUE] }

(* The second sends its transcript only: under the same name, or under a    *)
(* name of its own beside a plain upload                                    *)
Start(n, d, o) ==
  [name  |-> [s \in Session |-> IF s = one THEN tran ELSE n],
   lines |-> [s \in Session |-> IF s = one THEN <<<<1>>, <<1, 2>>>> ELSE <<>>],
   disk  |-> [s \in Session |-> IF s = one THEN <<d, <<1, 2>>>> ELSE <<>>],
   opt   |-> [s \in Session |-> IF s = one THEN o ELSE [Plain EXCEPT !.only = TRUE]]]

MCStarts ==
  { Start(tran, d, o) : d \in {<<1>>, <<2>>}, o \in MCOptions } \cup { Start(other, <<1>>, Plain) }
=============================================================================
