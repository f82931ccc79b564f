----------------------------- MODULE MCCHandles -----------------------------
(* A small client for TLC.                                                 *)
EXTENDS CHandles, TLC

CONSTANTS t1, t2, d1, d2, q1, b1, b2, r1, c1, c2, cpu

(* Two cards behind what is skipped, and none.                             *)
MCShownLists == {<<"software", c1, "failing", c2>>, <<"failing">>}

(* One product below Wrap = 4 and one that is not.                         *)
MCShapes == {<<1, 2>>, <<2, 2>>}

MCSizes == {2, 4}

(* Nothing tells threads, or addresses of one kind, apart.                 *)
MCSymmetry ==
  Permutations(Threads) \cup Permutations(Devices) \cup Permutations(Buffers)
=============================================================================
