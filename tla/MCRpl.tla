------------------------------- MODULE MCRpl -------------------------------
(***************************************************************************)
(* Rpl for TLC: a chain of a root and two nodes on one radio, where the    *)
(* middle node can choose its own child as a parent; a root and one node,  *)
(* for many faults; and the chain with its nodes a and b on two radios.    *)
(***************************************************************************)
EXTENDS Rpl

CONSTANTS root, na, nb, short, long

Both(m, k, i) == {<<m, i, k>>, <<k, i, m>>}
Pair == Both(root, na, short)
Chain == Both(root, na, short) \union Both(na, nb, short)
TwoRadios == Both(root, na, short) \union Both(na, nb, short) \union Both(na, nb, long)
AllStable == {}
=============================================================================
