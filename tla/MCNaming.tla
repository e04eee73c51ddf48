------------------------------ MODULE MCNaming ------------------------------
(****************************************************************************)
(* Patterns of up to three elements over texts of a, B, 1 and 2.            *)
(****************************************************************************)
EXTENDS Naming

B(c)          == [kind |-> "byte", byte |-> c]
One         == [kind |-> "one"]
Star        == [kind |-> "star"]
List(s)     == [kind |-> "list", bytes |-> s]
Words(s)    == [kind |-> "words", words |-> s]
Numbers(a, b) == [kind |-> "range", min |-> a, max |-> b]

Elements ==
  {B(97), B(66), One, Star, List({97}), List({65, 98}), Words({<<97>>, <<97, 98>>}),
   Words({<<66>>, <<>>}), Numbers(2, 11), Numbers(1, 1)}

MCPatterns == UNION { [1..k -> Elements] : k \in 1..3 }
MCTexts    == UNION { [1..k -> {97, 66, 49, 50}] : k \in 0..3 }
=============================================================================
