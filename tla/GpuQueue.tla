------------------------------ MODULE GpuQueue ------------------------------
(***************************************************************************)
(* D3D12 command queues as the library uses them through Queue and Fence   *)
(* (src/dxqueue/dxqueue.cpp): command lists are executed and fences are    *)
(* signalled in the order they were put on a queue, at a time of the GPU's *)
(* choosing; queues run beside each other.                                 *)
(*                                                                         *)
(* A queue is the set of what was put on it and is not done yet, each item *)
(* at the position it got; two queues know nothing of each other.          *)
(***************************************************************************)
EXTENDS Naturals

CONSTANTS
  Queues,    (* command queues                                             *)
  Objects,   (* owners of a command allocator                              *)
  Fences     (* D3D12 fences                                               *)

VARIABLES
  lists,     (* command lists executed and not finished by the GPU         *)
  signals,   (* fence signals the GPU has not reached                      *)
  position,  (* how many items each queue has been given                   *)
  reached    (* completed value of each fence                              *)

gpuVars == <<lists, signals, position, reached>>

List   == [obj : Objects, queue : Queues, at : Nat]
Signal == [fence : Fences, value : Nat, queue : Queues, at : Nat]

GpuTypeOK ==
  /\ lists \subseteq List
  /\ signals \subseteq Signal
  /\ position \in [Queues -> Nat]
  /\ reached \in [Fences -> Nat]

GpuInit ==
  /\ lists = {}
  /\ signals = {}
  /\ position = [q \in Queues |-> 0]
  /\ reached = [f \in Fences |-> 0]

(* Queue::execute, of a list recorded in the allocator of o.               *)
Execute(o, q) ==
  /\ lists' = lists \cup {[obj |-> o, queue |-> q, at |-> position[q]]}
  /\ position' = [position EXCEPT ![q] = @ + 1]
  /\ UNCHANGED <<signals, reached>>

(* Queue::signal.                                                          *)
SignalAfter(q, f, v, n) ==
  signals' = signals \cup {[fence |-> f, value |-> v, queue |-> q, at |-> n]}

EnqueueSignal(q, f, v) ==
  /\ SignalAfter(q, f, v, position[q])
  /\ position' = [position EXCEPT ![q] = @ + 1]
  /\ UNCHANGED <<lists, reached>>

(* Mutant: the fence is signalled before the list is handed over.          *)
SignalThenExecute(o, q, f, v) ==
  /\ lists' = lists \cup {[obj |-> o, queue |-> q, at |-> position[q] + 1]}
  /\ SignalAfter(q, f, v, position[q])
  /\ position' = [position EXCEPT ![q] = @ + 2]
  /\ UNCHANGED reached

(* Queue::execute and Queue::signal behind it, on one queue.               *)
ExecuteAndSignal(o, q, f, v) ==
  /\ lists' = lists \cup {[obj |-> o, queue |-> q, at |-> position[q]]}
  /\ SignalAfter(q, f, v, position[q] + 1)
  /\ position' = [position EXCEPT ![q] = @ + 2]
  /\ UNCHANGED reached

(* What the return of Fence::wait and Fence::is_completed tell.            *)
Completed(f, v) == reached[f] >= v

InFlight(o) == \E l \in lists : l.obj = o

-----------------------------------------------------------------------------
(* The GPU (external).                                                     *)

Foremost(i) == \A j \in lists \cup signals : j.queue = i.queue => j.at >= i.at

ListFinishes(l) ==
  /\ l \in lists
  /\ Foremost(l)
  /\ lists' = lists \ {l}
  /\ UNCHANGED <<signals, position, reached>>

SignalReached(s) ==
  /\ s \in signals
  /\ Foremost(s)
  /\ signals' = signals \ {s}
  /\ reached' = [reached EXCEPT ![s.fence] = s.value]
  /\ UNCHANGED <<lists, position>>

Gpu ==
  \/ \E l \in lists : ListFinishes(l)
  \/ \E s \in signals : SignalReached(s)
=============================================================================
