---------------------------- MODULE MCStreamRing ----------------------------
(***************************************************************************)
(* The instance of StreamRing TLC checks.                                  *)
(***************************************************************************)
EXTENDS StreamRing

CONSTANTS small, big, third, huge, raw, zero

MCTensors == {small, big, third, huge}
MCBytes == [t \in MCTensors |-> CASE t = small -> 1 [] t = big -> 2
                                  [] t = third -> 3 [] t = huge -> 5]
MCFences == Slots
MCBuffers == Slots \cup {raw}
=============================================================================
