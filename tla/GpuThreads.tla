---------------------------- MODULE GpuThreads ------------------------------
(***************************************************************************)
(* Users of queues and fences beyond the operations of Dispatch: two that  *)
(* have several threads, and one that has several devices.  A behaviour    *)
(* has one of them.                                                        *)
(***************************************************************************)
EXTENDS ChunkStreamer, Scheduler, AllReduce

VARIABLE user

vars == <<chunkVars, scheduleVars, reduceVars, fenceVars, user>>

Init ==
  /\ user \in {"chunks", "schedule", "reduce"}
  /\ FenceInit /\ ChunkInit /\ ScheduleInit /\ ReduceInit
  /\ user = "reduce" \/ many = 1           (* the others have no devices   *)

Chunked   == user = "chunks" /\ ChunkNext /\ UNCHANGED <<scheduleVars, reduceVars, user>>
Scheduled == user = "schedule" /\ ScheduleNext /\ UNCHANGED <<chunkVars, reduceVars, user>>
Reduced   ==
  user = "reduce" /\ ReduceNext /\ UNCHANGED <<chunkVars, scheduleVars, fenceVars, user>>

Next == Chunked \/ Scheduled \/ Reduced

(* A thread inside a call goes on, the GPU works and Windows sets events;  *)
(* no call has to be made.                                                 *)
Fairness ==
  /\ \A t \in Threads : WF_vars(StreamStep(t) /\ UNCHANGED <<scheduleVars, reduceVars, user>>)
  /\ WF_vars(WaitStep /\ UNCHANGED <<chunkVars, reduceVars, user>>)
  /\ WF_vars(CopyHappens /\ UNCHANGED <<scheduleVars, reduceVars, user>>)
  /\ WF_vars((ListDone \/ GpuSignals) /\ UNCHANGED <<chunkVars, scheduleVars, reduceVars, user>>)
  /\ WF_vars(EventFires /\ UNCHANGED <<chunkVars, scheduleVars, reduceVars, user>>)

Spec == Init /\ [][Next]_vars /\ Fairness

-----------------------------------------------------------------------------

(* Every call of stream_chunk_to_gpu returns unless streams overlapped,    *)
(* which can cost one of them its only wake-up; and wait_all, which keeps  *)
(* everyone out as it waits, gives the lock back (dxqueue.cpp:43-48,       *)
(* dxchunk.cpp:147-149, dxsched.cpp:32-36).                                *)
CallsReturn ==
  /\ \A t \in Threads : ~At(t, "ease") ~> (At(t, "ease") \/ overlapped)
  /\ holder # Nobody ~> holder = Nobody
=============================================================================
