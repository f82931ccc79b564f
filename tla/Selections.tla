----------------------------- MODULE Selections -----------------------------
(***************************************************************************)
(* Loops over a vector: what one keeps of it, the positions that pass in   *)
(* their order and what is there; and what one makes of it.  SelectSeq and *)
(* FoldLeft, but as functions that can be reasoned about.                  *)
(***************************************************************************)
EXTENDS Naturals, Sequences

(* The numbers of D up to n, in their order.                               *)
Ascending(D, n) ==
  LET kept[i \in 0 .. n] ==
        IF i = 0 THEN <<>> ELSE IF i \in D THEN Append(kept[i - 1], i) ELSE kept[i - 1]
  IN kept[n]

(* The elements of s at the positions D.                                   *)
SelectAt(s, D) ==
  LET kept == Ascending(D, Len(s)) IN [k \in 1 .. Len(kept) |-> s[kept[k]]]

(* What f makes of v with each element of s in turn.                       *)
Looped(f, v, s) ==
  LET made[i \in 0 .. Len(s)] == IF i = 0 THEN v ELSE f[s[i]][made[i - 1]]
  IN made[Len(s)]
=============================================================================
