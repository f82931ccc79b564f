---------------------------- MODULE StreamEvents ----------------------------
(***************************************************************************)
(* One stream of the C layer and its events, src/core/dx_stream_api.cpp:   *)
(* threads record events on the stream and wait for them, for some time or *)
(* for good.  On a native stream an event is a fence that the queue of the *)
(* stream signals with the event's sequence number; on a host stream it is *)
(* complete when recorded.                                                 *)
(*                                                                         *)
(* Left out: the destruction of streams and events (the clients must have  *)
(* ended their waits), arguments that are null, the logger.                *)
(***************************************************************************)
EXTENDS FenceEvent, Sequences, FiniteSets

CONSTANTS
  Events,     (* events that can be recorded: each is its own fence        *)
  MaxWaits    (* bound: waits begun                                        *)

ASSUME StreamAssumption ==
  /\ Fences = Events
  /\ NoFence \notin Events
  /\ IsFiniteSet(Events)
  /\ MaxWaits \in Nat

VARIABLES
  native,         (* the stream has a D3D12 queue                          *)
  next_sequence,  (* stream->next_sequence                                 *)
  sequence,       (* event->sequence, 0 before there is one                *)
  queue,          (* signals the queue has not come to                     *)
  published,      (* events handed to the clients                          *)
  call,           (* what each thread is in: an event, and where           *)
  waits,          (* how many waits were begun                             *)
  earlier,        (* history: events published when each was begun         *)
  crowded         (* history: events waited for by two threads at a time   *)

streamVars == <<native, next_sequence, sequence, queue, published, call, waits,
                earlier, crowded>>
vars == <<eventVars, streamVars>>

MaxSequence == Cardinality(Events)

Idle == [pc |-> "idle"]
Waiting   == [pc : {"pending", "armed", "blocked"}, event : Events, forever : BOOLEAN]

Init ==
  /\ EventInit(MaxSequence)
  /\ native \in BOOLEAN
  /\ next_sequence = 1
  /\ sequence = [e \in Events |-> 0]
  /\ queue = <<>>
  /\ published = {}
  /\ call = [t \in Threads |-> Idle]
  /\ waits = 0
  /\ earlier = [e \in Events |-> {}]
  /\ crowded = {}

Goes(t, c) == call' = [call EXCEPT ![t] = c]

WaitsFor(t, e) == call[t] \in Waiting /\ call[t].event = e

-----------------------------------------------------------------------------
(* dx_stream_record_event.                                                 *)

(* Mutant: the number is read and the counter not moved.                   *)
SameAgain(n) == n

After(n) == n + 1

(* A new event gets its number under the lock of the stream.               *)
RecordNumber(t, e) ==
  /\ call[t] = Idle
  /\ sequence[e] = 0
  /\ sequence' = [sequence EXCEPT ![e] = next_sequence]
  /\ next_sequence' = After(next_sequence)
  /\ earlier' = [earlier EXCEPT ![e] = published]
  /\ Goes(t, [pc |-> "numbered", event |-> e])
  /\ UNCHANGED <<eventVars, native, queue, published, waits, crowded>>

(* Fence, Win32 event or signal cannot be had: the number is used up.      *)
RecordFails(t) ==
  /\ call[t].pc = "numbered"
  /\ native
  /\ Goes(t, Idle)
  /\ UNCHANGED <<eventVars, native, next_sequence, sequence, queue, published,
                 waits, earlier, crowded>>

(* Queue::Signal, then the event is handed out.                            *)
RecordSignal(t) ==
  LET e == call[t].event IN
  /\ call[t].pc = "numbered"
  /\ native
  /\ queue' = Append(queue, e)
  /\ published' = published \cup {e}
  /\ Goes(t, Idle)
  /\ UNCHANGED <<eventVars, native, next_sequence, sequence, waits, earlier, crowded>>

(* The message for the log cannot be built once the signal is on its way:  *)
(* the event is dropped, and its fence signalled for nobody.               *)
RecordThrows(t) ==
  /\ call[t].pc = "numbered"
  /\ native
  /\ queue' = Append(queue, call[t].event)
  /\ Goes(t, Idle)
  /\ UNCHANGED <<eventVars, native, next_sequence, sequence, published, waits,
                 earlier, crowded>>

(* On a host stream the event is complete.                                 *)
RecordComplete(t) ==
  LET e == call[t].event IN
  /\ call[t].pc = "numbered"
  /\ ~native
  /\ Reach(e, sequence[e])
  /\ published' = published \cup {e}
  /\ Goes(t, Idle)
  /\ UNCHANGED <<native, next_sequence, sequence, queue, waits, earlier, crowded>>

(* The queue comes to a signal.                                            *)
GpuSignals ==
  LET e == Head(queue) IN
  /\ queue # <<>>
  /\ Reach(e, sequence[e])
  /\ queue' = Tail(queue)
  /\ UNCHANGED <<native, next_sequence, sequence, published, call, waits,
                 earlier, crowded>>

-----------------------------------------------------------------------------
(* dx_event_wait, forever being the timeout UINT32_MAX.                    *)

IsComplete(e) == Completed(e, sequence[e])

(* A complete event is not waited for.                                     *)
WaitPasses(t, e) ==
  /\ call[t] = Idle
  /\ e \in published
  /\ waits < MaxWaits
  /\ IsComplete(e)
  /\ waits' = waits + 1
  /\ UNCHANGED <<eventVars, native, next_sequence, sequence, queue, published,
                 call, earlier, crowded>>

WaitBegins(t, e, forever) ==
  /\ call[t] = Idle
  /\ e \in published
  /\ waits < MaxWaits
  /\ ~IsComplete(e)
  /\ waits' = waits + 1
  /\ crowded' = IF \E u \in Threads : WaitsFor(u, e) THEN crowded \cup {e} ELSE crowded
  /\ Goes(t, [pc |-> "pending", event |-> e, forever |-> forever])
  /\ UNCHANGED <<eventVars, native, next_sequence, sequence, queue, published, earlier>>

(* Mutant: registers for the value after.                                  *)
OneAfter(e) == sequence[e] + 1

Awaited(e) == sequence[e]

WaitRegisters(t) ==
  LET e == call[t].event IN
  /\ call[t].pc = "pending"
  /\ Register(e, Awaited(e))
  /\ Goes(t, [call[t] EXCEPT !.pc = "armed"])
  /\ UNCHANGED <<native, next_sequence, sequence, queue, published, waits,
                 earlier, crowded>>

(* SetEventOnCompletion fails: returns -2.                                 *)
WaitFails(t) ==
  /\ call[t].pc = "pending"
  /\ Goes(t, Idle)
  /\ UNCHANGED <<eventVars, native, next_sequence, sequence, queue, published,
                 waits, earlier, crowded>>

WaitFindsSet(t) ==
  /\ call[t].pc = "armed"
  /\ PassAtOnce(call[t].event)
  /\ Goes(t, Idle)
  /\ UNCHANGED <<native, next_sequence, sequence, queue, published, waits,
                 earlier, crowded>>

WaitBlocks(t) ==
  /\ call[t].pc = "armed"
  /\ Block(t, call[t].event)
  /\ Goes(t, [call[t] EXCEPT !.pc = "blocked"])
  /\ UNCHANGED <<native, next_sequence, sequence, queue, published, waits,
                 earlier, crowded>>

(* The event let the thread go: returns 0.                                 *)
WaitReturns(t) ==
  /\ call[t].pc = "blocked"
  /\ blocked[t] = NoFence
  /\ Goes(t, Idle)
  /\ UNCHANGED <<eventVars, native, next_sequence, sequence, queue, published,
                 waits, earlier, crowded>>

(* The time is up: returns 1, and the registration stays.                  *)
WaitTimesOut(t) ==
  /\ call[t].pc = "blocked"
  /\ ~call[t].forever
  /\ blocked[t] # NoFence
  /\ GiveUp(t)
  /\ Goes(t, Idle)
  /\ UNCHANGED <<native, next_sequence, sequence, queue, published, waits,
                 earlier, crowded>>

Fires ==
  /\ \E e \in Events, v \in 0..MaxSequence : Fire(e, v)
  /\ UNCHANGED streamVars

ThreadStep(t) ==
  \/ RecordFails(t)
  \/ RecordSignal(t)
  \/ RecordThrows(t)
  \/ RecordComplete(t)
  \/ WaitRegisters(t)
  \/ WaitFails(t)
  \/ WaitFindsSet(t)
  \/ WaitBlocks(t)
  \/ WaitReturns(t)

Next ==
  \/ GpuSignals
  \/ Fires
  \/ \E t \in Threads :
       \/ \E e \in Events : RecordNumber(t, e)
       \/ \E e \in Events : WaitPasses(t, e)
       \/ \E e \in Events, forever \in BOOLEAN : WaitBegins(t, e, forever)
       \/ WaitTimesOut(t)
       \/ ThreadStep(t)

Spec == Init /\ [][Next]_vars

(* Threads inside a call run on, the queue is processed, events are set.   *)
(* A timeout is not relied on.                                             *)
FairSpec ==
  /\ Spec
  /\ WF_vars(GpuSignals)
  /\ WF_vars(Fires)
  /\ \A t \in Threads : WF_vars(ThreadStep(t))

-----------------------------------------------------------------------------
(* Correctness.                                                            *)

(* Numbers are given once, and events recorded one after the other have    *)
(* rising numbers and complete in that order, though two threads may put   *)
(* their signals on the queue in another order than they got their numbers *)
(* (dx_stream_api.cpp:155-170).                                            *)
RecordOrder ==
  \A e, f \in Events :
    /\ (e # f /\ sequence[e] # 0) => sequence[e] # sequence[f]
    /\ e \in earlier[f] => sequence[e] < sequence[f]
    /\ (e \in earlier[f] /\ f \in published /\ IsComplete(f)) => IsComplete(e)

(* Every wait without a timeout ends, if it had the event for itself       *)
(* (dx_stream_api.cpp:206-214: check, register, block, with the completion *)
(* anywhere in between).                                                   *)
WaitsEnd ==
  \A t \in Threads, e \in Events :
    WaitsFor(t, e) ~> (~WaitsFor(t, e) \/ e \in crowded)

(* docs/TRACE_STREAM_CONTRACT.md:37-38 has a wait on a completed event     *)
(* succeed, and one on a pending event wait or time out: nobody blocks for *)
(* good on an event that is complete (dx_stream_api.cpp:206-214).          *)
CompletedIsNotWaitedFor ==
  \A t \in Threads, e \in Events :
    (WaitsFor(t, e) /\ IsComplete(e)) ~> ~WaitsFor(t, e)
=============================================================================
