----------------------------- MODULE MCCloudMeet -----------------------------
(* Two workers on two nodes, or on one, and two relay sockets. *)
EXTENDS CloudMeet, TLC
CONSTANTS w1, w2, n1, n2
TwoNodes == [w \in Workers |-> IF w = w1 THEN n1 ELSE n2]
OneNode == [w \in Workers |-> n1]
\* Sockets are alike, and so are two workers with a node each.
Boxes == {[v \in {w1, w2, n1, n2} |-> v],
          (w1 :> w2) @@ (w2 :> w1) @@ (n1 :> n2) @@ (n2 :> n1)}
Alike == {p @@ q : p \in Permutations(Sockets), q \in Boxes}
=============================================================================
