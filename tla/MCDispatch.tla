----------------------------- MODULE MCDispatch -----------------------------
(***************************************************************************)
(* The instance of Dispatch TLC checks: an object with fenced and bare     *)
(* operations (BLAS) beside one whose operations wait for what they put on *)
(* the queue (AttentionOps and AdvancedKVCache in one).                    *)
(***************************************************************************)
EXTENDS Dispatch

CONSTANTS blas, engine

MCObjects == {blas, engine}
MCFences  == MCObjects \X Roles
MCOffers  == [o \in MCObjects |-> IF o = blas THEN {"fenced", "bare"}
                                              ELSE {"blocking", "private"}]
MCStages  == [o \in MCObjects |-> IF o = blas THEN 1 ELSE 2]
MCCalls   == [o \in MCObjects |-> IF o = blas THEN 3 ELSE 1]
=============================================================================
