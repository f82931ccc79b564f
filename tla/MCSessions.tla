----------------------------- MODULE MCSessions -----------------------------
(* Small graphs and a short session for TLC.                               *)
EXTENDS Sessions, TLC

CONSTANTS t1, t2, t3, s1, s2, w1, w2, l1, l2

(* Dependencies that add_node takes, repeats or refuses.                   *)
MCWanted == {<<>>, <<0>>, <<1>>, <<1, 0>>, <<0, 0>>, <<2>>}

(* Earlier and later nodes, the node itself, nodes that come to be later.  *)
MCNodeDeps == {<<>>, <<0>>, <<1>>, <<2>>, <<0, 1>>, <<1, 1>>, <<2, 0>>, <<3>>}

MCSymmetry == Permutations(Tracers) \cup Permutations(Spans)
                \cup Permutations(Writers) \cup Permutations(Loggers)
=============================================================================
