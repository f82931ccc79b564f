------------------------------ MODULE Dispatch ------------------------------
(***************************************************************************)
(* How the compute classes put work on a queue.  Each object owns ONE      *)
(* command allocator and resets it at every dispatch, which D3D12 allows   *)
(* only once the GPU is through with the lists recorded in it.  There are  *)
(* four ways to go about that, one per kind of operation:                  *)
(*                                                                         *)
(*   fenced    waits for the object's fence, resets, records, executes and *)
(*             signals the next value: BLAS::gemm, MathOps, LA, the stages *)
(*             of FFTOps, SpeculativeEngine                                *)
(*   blocking  the same, and waits for that value too: AttentionOps        *)
(*   private   waits for nothing before, signals a fence of its own and    *)
(*             waits for it: TritonJIT, the stages of AdvancedKVCache      *)
(*   bare      resets and executes, waits for nothing, signals nothing:    *)
(*             BLAS::vec_add, RandomGenerator, QuantOps, CommandGraph::execute.    *)
(*             The caller has to signal a fence behind it and wait, the    *)
(*             way the tests do.                                           *)
(*                                                                         *)
(* One thread calls each object.  Its waits are where other threads and    *)
(* the GPU can come in between.  Left out: what is computed, pipeline      *)
(* states, roots and buffers bound, failures of the D3D12 calls.           *)
(***************************************************************************)
EXTENDS GpuQueue

CONSTANTS
  Offers,    (* the kinds of operation each object has                     *)
  Stages,    (* bound: dispatches of one operation of each object          *)
  MaxCalls   (* bound: calls made on each object                           *)

Kinds  == {"fenced", "blocking", "private", "bare"}

(* Its own, the one of a private operation, the one its caller signals.    *)
Roles  == {"own", "fresh", "caller"}
Own(o)    == <<o, "own">>
Caller(o) == <<o, "caller">>

ASSUME DispatchAssumption ==
  /\ Fences = Objects \X Roles
  /\ Queues # {}
  /\ Offers \in [Objects -> SUBSET Kinds]
  /\ Stages \in [Objects -> Nat]
  /\ MaxCalls \in [Objects -> Nat]

VARIABLES
  pc,         (* where the thread of each object is                        *)
  op,         (* the operation it is in: kind, queue, dispatches left      *)
  fence_val,  (* m_fence_val, and the values last signalled on the others  *)
  calls,      (* calls made on each object                                 *)
  loose,      (* history: lists that nobody has waited for since           *)
  torn        (* history: allocators reset with a list of theirs in flight *)

threadVars == <<pc, op, fence_val, calls, loose, torn>>
vars == <<gpuVars, threadVars>>

Op == [kind : Kinds, queue : Queues, left : Nat]
Loose == [queue : Queues, kind : {"fenced", "bare"}]

TypeOK ==
  /\ GpuTypeOK
  /\ pc \in [Objects -> {"idle", "waiting", "ready", "draining", "syncing"}]
  /\ op \in [Objects -> Op]
  /\ fence_val \in [Fences -> Nat]
  /\ calls \in [Objects -> Nat]
  /\ loose \in [Objects -> SUBSET Loose]
  /\ torn \subseteq [obj : Objects, blamed : BOOLEAN]

Init ==
  /\ GpuInit
  /\ pc = [o \in Objects |-> "idle"]
  /\ op = [o \in Objects |->
             [kind |-> "bare", queue |-> CHOOSE q \in Queues : TRUE, left |-> 0]]
  /\ fence_val = [f \in Fences |-> 0]
  /\ calls = [o \in Objects |-> 0]
  /\ loose = [o \in Objects |-> {}]
  /\ torn = {}

-----------------------------------------------------------------------------
(* The fence an operation of a kind signals.                               *)
FenceOf(o, kind) == <<o, IF kind = "private" THEN "fresh" ELSE "own">>

(* Mutant: the allocator is reset whatever the fence says.                 *)
NeverWaits(kind) == FALSE

(* Whether the dispatch begins with a wait for the object's fence.         *)
WaitsFirst(kind) == kind \in {"fenced", "blocking"}

(* Mutant: an operation that returns what is still being computed.         *)
NeverDrains(kind) == FALSE

(* Whether it waits for its own list before it goes on.                    *)
WaitsAfter(kind) == kind \in {"blocking", "private"}

(* Where a dispatch begins.  A fence that was never signalled (value 0) is *)
(* not waited for, and waiting for it would end at once.                   *)
Begin(kind) == IF WaitsFirst(kind) THEN "waiting" ELSE "ready"

Call(o, kind, q, stages) ==
  /\ pc[o] = "idle"
  /\ calls[o] < MaxCalls[o]
  /\ kind \in Offers[o]
  /\ calls' = [calls EXCEPT ![o] = @ + 1]
  /\ op' = [op EXCEPT ![o] = [kind |-> kind, queue |-> q, left |-> stages]]
  /\ pc' = [pc EXCEPT ![o] = Begin(kind)]
  /\ UNCHANGED <<gpuVars, fence_val, loose, torn>>

WaitEnds(o) ==
  /\ pc[o] = "waiting"
  /\ Completed(Own(o), fence_val[Own(o)])
  /\ pc' = [pc EXCEPT ![o] = "ready"]
  /\ loose' = [loose EXCEPT ![o] = {e \in @ : e.kind # "fenced"}]
  /\ UNCHANGED <<gpuVars, op, fence_val, calls, torn>>

(* A list is loose that this operation does not wait for: any list if it   *)
(* waits for nothing, a bare one if it waits for the object's fence.       *)
Blamed(o) ==
  \E e \in loose[o] : op[o].kind \in {"bare", "private"} \/ e.kind = "bare"

(* m_cmd_alloc->Reset().                                                   *)
ResetAllocator(o) ==
  torn' = IF InFlight(o) THEN torn \cup {[obj |-> o, blamed |-> Blamed(o)]}
                         ELSE torn

(* Where an operation goes once a dispatch of it is through.               *)
AfterDispatch(o) == IF op[o].left > 1 THEN Begin(op[o].kind) ELSE "idle"

OneLess(o) == [op EXCEPT ![o].left = IF @ > 1 THEN @ - 1 ELSE 0]

Loosen(o, kind) ==
  [loose EXCEPT ![o] = @ \cup {[queue |-> op[o].queue, kind |-> kind]}]

(* Mutant: the value waited for is one beyond the value signalled.         *)
CountsTwice(v) == v + 2

(* ++m_fence_val.                                                          *)
Increment(v) == v + 1

RecordSignalled(o) ==
  LET f == FenceOf(o, op[o].kind)
  IN  /\ pc[o] = "ready"
      /\ op[o].kind # "bare"
      /\ ResetAllocator(o)
      /\ ExecuteAndSignal(o, op[o].queue, f, fence_val[f] + 1)
      /\ fence_val' = [fence_val EXCEPT ![f] = Increment(@)]
      /\ IF WaitsAfter(op[o].kind)
         THEN pc' = [pc EXCEPT ![o] = "draining"] /\ op' = op
         ELSE pc' = [pc EXCEPT ![o] = AfterDispatch(o)] /\ op' = OneLess(o)
      /\ loose' = IF op[o].kind = "fenced" THEN Loosen(o, "fenced") ELSE loose
      /\ UNCHANGED calls

DrainEnds(o) ==
  LET f == FenceOf(o, op[o].kind)
  IN  /\ pc[o] = "draining"
      /\ Completed(f, fence_val[f])
      /\ pc' = [pc EXCEPT ![o] = AfterDispatch(o)]
      /\ op' = OneLess(o)
      /\ UNCHANGED <<gpuVars, fence_val, calls, loose, torn>>

RecordBare(o) ==
  /\ pc[o] = "ready"
  /\ op[o].kind = "bare"
  /\ ResetAllocator(o)
  /\ Execute(o, op[o].queue)
  /\ loose' = Loosen(o, "bare")
  /\ pc' = [pc EXCEPT ![o] = "idle"]
  /\ UNCHANGED <<op, fence_val, calls>>

(* The caller signals a fence of its own behind work it has put on a queue *)
(* and waits for it.                                                       *)
CallerSyncs(o, q) ==
  LET f == Caller(o)
  IN  /\ pc[o] = "idle"
      /\ \E e \in loose[o] : e.queue = q
      /\ EnqueueSignal(q, f, fence_val[f] + 1)
      /\ fence_val' = [fence_val EXCEPT ![f] = @ + 1]
      /\ op' = [op EXCEPT ![o] = [kind |-> "bare", queue |-> q, left |-> 0]]
      /\ pc' = [pc EXCEPT ![o] = "syncing"]
      /\ UNCHANGED <<calls, loose, torn>>

SyncEnds(o) ==
  /\ pc[o] = "syncing"
  /\ Completed(Caller(o), fence_val[Caller(o)])
  /\ loose' = [loose EXCEPT ![o] = {e \in @ : e.queue # op[o].queue}]
  /\ pc' = [pc EXCEPT ![o] = "idle"]
  /\ UNCHANGED <<gpuVars, op, fence_val, calls, torn>>

Resume(o) ==
  WaitEnds(o) \/ RecordSignalled(o) \/ DrainEnds(o) \/ RecordBare(o) \/ SyncEnds(o)

(* Only FFTOps and AdvancedKVCache dispatch more than once per call.       *)
Thread(o) ==
  \/ \E kind \in Kinds, q \in Queues, n \in 1..Stages[o] : Call(o, kind, q, n)
  \/ \E q \in Queues : CallerSyncs(o, q)
  \/ Resume(o)

GpuStep == Gpu /\ UNCHANGED threadVars

Next == GpuStep \/ \E o \in Objects : Thread(o)

Spec == Init /\ [][Next]_vars

(* The GPU gets through its queues and a thread that can go on does; that  *)
(* anyone calls is not assumed.                                            *)
FairSpec ==
  /\ Spec
  /\ WF_vars(GpuStep)
  /\ \A o \in Objects : WF_vars(Resume(o))

-----------------------------------------------------------------------------

(* An allocator is torn only by an operation that does not wait, following *)
(* a list nobody waited for, or after a bare one: fenced, blocking and     *)
(* private operations, on any queues and in any order, never do it, and    *)
(* neither does a bare operation between two waits of its caller.          *)
OnlyBareTears == \A t \in torn : t.blamed

(* When the fence of an object has reached the value last signalled, which *)
(* is what every fenced operation and every user of the result asks, no    *)
(* list of the object is in flight: only a bare one escapes it.            *)
FenceCoversLists ==
  \A o \in Objects :
    /\ Completed(Own(o), fence_val[Own(o)])
    /\ pc[o] # "draining"
    /\ \A e \in loose[o] : e.kind = "fenced"
    => ~InFlight(o)

(* "Synchronous: wait so the next dispatch_attention can safely reset the  *)
(* shared allocator": an object all of whose operations wait for their     *)
(* list has nothing in flight between calls.                               *)
ReturnedMeansDone ==
  \A o \in Objects :
    Offers[o] \subseteq {"blocking", "private"} /\ pc[o] = "idle" => ~InFlight(o)

(* Every call returns: the values waited for are values that get signalled.*)
CallsReturn == \A o \in Objects : pc[o] # "idle" ~> pc[o] = "idle"
=============================================================================
