----------------------------- MODULE FenceEvent -----------------------------
(***************************************************************************)
(* D3D12 fences with one auto-reset Win32 event each, as dx_event_t        *)
(* (src/core/dx_stream_api.cpp) and Fence (src/dxqueue/dxqueue.cpp) pair   *)
(* them, and the threads that block on those events.                       *)
(*                                                                         *)
(* SetEventOnCompletion leaves a registration; once the fence has reached  *)
(* its value the event is set, once for each registration.  Setting an     *)
(* auto-reset event lets one blocked thread go, or stays on record until   *)
(* one thread comes to block; setting it twice is not on record twice.     *)
(***************************************************************************)
EXTENDS Naturals

CONSTANTS
  Threads,
  Fences,
  NoFence

VARIABLES
  reached,   (* completed value of each fence                              *)
  armed,     (* values registered and not fired yet, with their number     *)
  flag,      (* state of the event of each fence                           *)
  blocked    (* the fence on whose event each thread blocks                *)

eventVars == <<reached, armed, flag, blocked>>

EventInit(bound) ==
  /\ reached = [f \in Fences |-> 0]
  /\ armed = [f \in Fences |-> [v \in 0..bound |-> 0]]
  /\ flag = [f \in Fences |-> FALSE]
  /\ blocked = [t \in Threads |-> NoFence]

Completed(f, v) == reached[f] >= v

(* The queue reaches a signal.                                             *)
Reach(f, v) ==
  /\ reached' = [reached EXCEPT ![f] = v]
  /\ UNCHANGED <<armed, flag, blocked>>

(* SetEventOnCompletion.                                                   *)
Register(f, v) ==
  /\ armed' = [armed EXCEPT ![f][v] = @ + 1]
  /\ UNCHANGED <<reached, flag, blocked>>

(* A registration whose value is reached sets the event.                   *)
Fire(f, v) ==
  LET waiting == {t \in Threads : blocked[t] = f} IN
  /\ armed[f][v] > 0
  /\ Completed(f, v)
  /\ armed' = [armed EXCEPT ![f][v] = @ - 1]
  /\ IF waiting = {}
       THEN flag' = [flag EXCEPT ![f] = TRUE] /\ UNCHANGED blocked
       ELSE /\ \E t \in waiting : blocked' = [blocked EXCEPT ![t] = NoFence]
            /\ UNCHANGED flag
  /\ UNCHANGED reached

(* WaitForSingleObject finds the event set, and resets it.                 *)
PassAtOnce(f) ==
  /\ flag[f]
  /\ flag' = [flag EXCEPT ![f] = FALSE]
  /\ UNCHANGED <<reached, armed, blocked>>

(* WaitForSingleObject blocks.                                             *)
Block(t, f) ==
  /\ ~flag[f]
  /\ blocked' = [blocked EXCEPT ![t] = f]
  /\ UNCHANGED <<reached, armed, flag>>

(* The time of a blocked thread is up.                                     *)
GiveUp(t) ==
  /\ blocked' = [blocked EXCEPT ![t] = NoFence]
  /\ UNCHANGED <<reached, armed, flag>>
=============================================================================
