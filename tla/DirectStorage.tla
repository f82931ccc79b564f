---------------------------- MODULE DirectStorage ----------------------------
(***************************************************************************)
(* DirectStorageContext (src/dxio/dxio.cpp): reads of byte ranges of a     *)
(* file into VRAM buffers, through one IDStorageQueue of the DirectStorage *)
(* runtime.                                                                *)
(*                                                                         *)
(* The context's own state is m_total_submitted, m_statuses_issued and     *)
(* m_pending.  The runtime's state is what it was handed and has not done  *)
(* yet.  Requests are numbered in the order of EnqueueRequest, so that a   *)
(* status write or a fence signal enqueued when `total_submitted` is n     *)
(* comes after the requests 0 .. n-1 and before all the others: that n is  *)
(* its field `after`.                                                      *)
(*                                                                         *)
(* Left out: BypassIO classification and logging, the file and capability  *)
(* caches (memoised, never invalidated), debug flags.                      *)
(***************************************************************************)
EXTENDS Naturals

CONSTANTS
  Tensors,         (* byte ranges of the payload file; also their contents *)
  Buffers,         (* destination buffers in VRAM                          *)
  Fences,          (* D3D12 fences the queue is asked to signal            *)
  Zeroed,          (* the contents of a buffer nothing was read into       *)
  StatusCapacity   (* k_status_capacity: entries of the status array       *)

ASSUME DirectStorageAssumption ==
  /\ StatusCapacity \in Nat \ {0}
  /\ Zeroed \notin Tensors

VARIABLES
  total_submitted,  (* m_total_submitted: requests enqueued so far          *)
  statuses_issued,  (* m_statuses_issued: requests given an EnqueueStatus   *)
  pending,          (* m_pending: the ids of requests nobody waited for yet *)
  sent,             (* requests below this id were covered by a Submit      *)
  reads,            (* requests the runtime has not completed               *)
  marks,            (* status writes the runtime has not performed          *)
  signals,          (* fence signals the runtime has not performed          *)
  complete,         (* entries of the status array that read complete       *)
  fence,            (* completed value of each fence                        *)
  content,          (* what each buffer holds                               *)
  reported          (* history: what the last wait_for_request or wait_all
                       reported as done                                     *)

contextVars == <<total_submitted, statuses_issued, pending, reported>>
runtimeVars == <<sent, reads, marks, signals, complete, fence, content>>
dsVars      == <<contextVars, runtimeVars>>

Read   == [id : Nat, dst : Buffers, src : Tensors]
Mark   == [slot : 0..(StatusCapacity - 1), after : Nat]
Signal == [fence : Fences, value : Nat, after : Nat]

DSTypeOK ==
  /\ total_submitted \in Nat
  /\ statuses_issued \in Nat
  /\ sent \in Nat
  /\ pending \subseteq Nat
  /\ reads \subseteq Read
  /\ marks \subseteq Mark
  /\ signals \subseteq Signal
  /\ complete \subseteq 0..(StatusCapacity - 1)
  /\ fence \in [Fences -> Nat]
  /\ content \in [Buffers -> Tensors \cup {Zeroed}]
  /\ reported \subseteq Nat

DSInit ==
  /\ total_submitted = 0
  /\ statuses_issued = 0
  /\ pending = {}
  /\ sent = 0
  /\ reads = {}
  /\ marks = {}
  /\ signals = {}
  /\ complete = {}
  /\ fence = [f \in Fences |-> 0]
  /\ content = [b \in Buffers |-> Zeroed]
  /\ reported = {}

-----------------------------------------------------------------------------
(* Calls of the context, by the one thread that owns it.                   *)

StatusSlot(id) == id % StatusCapacity

(* enqueue_read, past its size check: the request is handed over and       *)
(* remembered, and nothing starts before a Submit.                         *)
EnqueueRead(dst, src) ==
  /\ reads' = reads \cup {[id |-> total_submitted, dst |-> dst, src |-> src]}
  /\ pending' = pending \cup {total_submitted}
  /\ total_submitted' = total_submitted + 1
  /\ UNCHANGED <<statuses_issued, sent, marks, signals, complete, fence,
                 content, reported>>

(* submit: starts what is enqueued and asks for no status.                 *)
Submit ==
  /\ sent' = total_submitted
  /\ UNCHANGED <<contextVars, reads, marks, signals, complete, fence, content>>

(* The requests enqueue_signal_and_submit asks a status for: those not     *)
(* asked for yet and still in m_pending.                                   *)
Untracked == {id \in pending : statuses_issued <= id /\ id < total_submitted}

(* Mutant: the status write does not come after the request it is about.   *)
MarkTooEarly(id) == [slot |-> StatusSlot(id), after |-> id]

(* Every status write is enqueued now, behind all requests so far.         *)
MarkFor(id) == [slot |-> StatusSlot(id), after |-> total_submitted]

(* Mutant: the signal is enqueued ahead of what this Submit starts.        *)
SignalAhead(f, value) == [fence |-> f, value |-> value, after |-> sent]

SignalFor(f, value) ==
  [fence |-> f, value |-> value, after |-> total_submitted]

(* enqueue_signal_and_submit.  EnqueueStatus takes the entry back to "not  *)
(* complete".                                                              *)
SignalAndSubmit(f, value) ==
  /\ marks' = marks \cup {MarkFor(id) : id \in Untracked}
  /\ complete' = complete \ {StatusSlot(id) : id \in Untracked}
  /\ statuses_issued' = total_submitted
  /\ signals' = signals \cup {SignalFor(f, value)}
  /\ sent' = total_submitted
  /\ UNCHANGED <<total_submitted, pending, reads, fence, content, reported>>

(* wait_for_request: polls the entry of the request until it is complete   *)
(* or 5 s are over, and forgets the request either way.                    *)
WaitForRequest(id) ==
  /\ id \in pending
  /\ pending' = pending \ {id}
  /\ \/ /\ StatusSlot(id) \in complete
        /\ reported' = {id}
     \/ /\ StatusSlot(id) \notin complete
        /\ reported' = {}
  /\ UNCHANGED <<total_submitted, statuses_issued, runtimeVars>>

(* wait_all: the same for every pending request, oldest first; the first   *)
(* one to time out clears the list.                                        *)
WaitAll ==
  /\ pending # {}
  /\ pending' = {}
  /\ LET late == {id \in pending : StatusSlot(id) \notin complete}
     IN  reported' = {id \in pending : \A l \in late : id < l}
  /\ UNCHANGED <<total_submitted, statuses_issued, runtimeVars>>

-----------------------------------------------------------------------------
(* The DirectStorage runtime (external): requests complete in any order, a *)
(* status write or a signal once every request before it has completed and *)
(* behind the status writes and signals enqueued before it.                *)

NothingBefore(n) == \A r \in reads : r.id >= n

ReadCompletes(r) ==
  /\ r \in reads
  /\ r.id < sent
  /\ reads' = reads \ {r}
  /\ content' = [content EXCEPT ![r.dst] = r.src]
  /\ UNCHANGED <<contextVars, sent, marks, signals, complete, fence>>

StatusWritten(m) ==
  /\ m \in marks
  /\ NothingBefore(m.after)
  /\ marks' = marks \ {m}
  /\ complete' = complete \cup {m.slot}
  /\ UNCHANGED <<contextVars, sent, reads, signals, fence, content>>

SignalFires(s) ==
  /\ s \in signals
  /\ NothingBefore(s.after)
  /\ \A earlier \in signals : earlier.after >= s.after
  /\ \A m \in marks : m.after > s.after
  /\ signals' = signals \ {s}
  /\ fence' = [fence EXCEPT ![s.fence] = s.value]
  /\ UNCHANGED <<contextVars, sent, reads, marks, complete, content>>

Runtime ==
  \/ \E r \in reads : ReadCompletes(r)
  \/ \E m \in marks : StatusWritten(m)
  \/ \E s \in signals : SignalFires(s)

-----------------------------------------------------------------------------
(* "Blocks until request (or all enqueued so far) complete" (dxio.hpp): a  *)
(* request reported as done has been read, unless the entry that was       *)
(* polled had been that of an older request, StatusCapacity before it,     *)
(* which may have left it complete (dxio.cpp:188 and 223-292).             *)
DoneMeansRead == \A r \in reads : r.id \in reported => r.id >= StatusCapacity
=============================================================================
