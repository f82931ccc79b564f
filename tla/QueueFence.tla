----------------------------- MODULE QueueFence -----------------------------
(***************************************************************************)
(* Queue and Fence of src/dxqueue/dxqueue.cpp, used by several threads:    *)
(* the fences of GpuQueue, each with the one auto-reset event on which     *)
(* Fence::wait blocks.                                                     *)
(***************************************************************************)
EXTENDS GpuQueue

CONSTANTS
  Threads,
  NoFence,
  MaxValue      (* bound: the value of a fence                             *)

ASSUME FenceAssumption == NoFence \notin Fences /\ MaxValue \in Nat

VARIABLES armed, flag, blocked

E == INSTANCE FenceEvent

fenceVars == <<gpuVars, armed, flag, blocked>>
ownVars   == <<armed, flag, blocked>>        (* what is not GpuQueue's     *)

FenceInit == GpuInit /\ E!EventInit(MaxValue)

(* Fence::wait in steps: the value is compared, it is registered, and the  *)
(* thread blocks unless the event is set already.                          *)
Passes(f, v)   == Completed(f, v) /\ UNCHANGED fenceVars
Registers(f, v) ==
  ~Completed(f, v) /\ E!Register(f, v) /\ UNCHANGED <<lists, signals, position>>
FindsSet(f)    == E!PassAtOnce(f) /\ UNCHANGED <<lists, signals, position>>
Blocks(t, f)   == E!Block(t, f) /\ UNCHANGED <<lists, signals, position>>
IsAwake(t)     == blocked[t] = NoFence

(* The GPU reaches a signal, and the event is set some time after.         *)
GpuSignals == \E s \in signals : SignalReached(s) /\ UNCHANGED ownVars
EventFires ==
  \E f \in Fences, v \in 0 .. MaxValue : E!Fire(f, v) /\ UNCHANGED <<lists, signals, position>>
=============================================================================
