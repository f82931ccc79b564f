---------------------------- MODULE MCGpuThreads ----------------------------
(* Two threads; a small and a large chunk for the device, one for system   *)
(* memory; up to three devices.                                            *)
EXTENDS GpuThreads

CONSTANTS t1, t2, fCopy, fDirect, fCompute

MCSize  == [small |-> 1, large |-> 2, layer |-> 2]
MCPlace == [small |-> "device", large |-> "device", layer |-> "system"]
MCWorkFence == [direct |-> fDirect, compute |-> fCompute]
=============================================================================
