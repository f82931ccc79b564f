--------------------------- MODULE DispatchProofs ---------------------------
(***************************************************************************)
(* Proofs about Dispatch for any objects, whatever kinds of operation they *)
(* mix, and any queues.                                                    *)
(*                                                                         *)
(* The argument: a list put on a queue by an operation that signals has    *)
(* that signal behind it, unreached, until it is done (Covered), so        *)
(* waiting for the value leaves none; and a list that no thread waited for *)
(* since is known as loose (Known), which is what a reset is blamed on.    *)
(***************************************************************************)
EXTENDS Dispatch, TLAPS

Fresh(o) == <<o, "fresh">>

(* s announces the end of l.                                               *)
Covers(s, l) == s.queue = l.queue /\ l.at < s.at

OnQueue(e, l) == e.queue = l.queue

Placed == \A i \in lists \cup signals : i.at < position[i.queue]

(* A fence is signalled its latest value, once, and not before.            *)
SignalsCurrent ==
  /\ \A f \in Fences : reached[f] <= fence_val[f]
  /\ \A s \in signals : s.value = fence_val[s.fence] /\ reached[s.fence] < s.value
  /\ \A s, t \in signals : s.fence = t.fence => s = t

(* What each thread has waited for where it is.                            *)
Waited ==
  \A o \in Objects :
    /\ pc[o] = "waiting" => op[o].kind \in {"fenced", "blocking"}
    /\ pc[o] = "draining" => op[o].kind \in {"blocking", "private"}
    /\ pc[o] \in {"waiting", "ready", "draining"} => op[o].kind \in Offers[o]
    /\ pc[o] = "ready" /\ op[o].kind \in {"fenced", "blocking"} =>
         Completed(Own(o), fence_val[Own(o)])
    /\ ~(pc[o] = "draining" /\ op[o].kind = "private") =>
         Completed(Fresh(o), fence_val[Fresh(o)])
    /\ pc[o] # "syncing" => Completed(Caller(o), fence_val[Caller(o)])

(* A list is bare or has a signal of its object behind it.                 *)
Covered ==
  \A l \in lists :
    \/ \E e \in loose[l.obj] : OnQueue(e, l) /\ e.kind = "bare"
    \/ \E s \in signals : Covers(s, l) /\ s.fence \in {Own(l.obj), Fresh(l.obj)}

(* A list is loose or the one its thread is waiting for.                   *)
Known ==
  \A l \in lists :
    \/ \E e \in loose[l.obj] : OnQueue(e, l)
    \/ /\ pc[l.obj] = "draining"
       /\ \E s \in signals :
            Covers(s, l) /\ s.fence = FenceOf(l.obj, op[l.obj].kind)

(* The caller's signal is behind everything it waits for.                  *)
SyncCovers ==
  \A l \in lists :
    pc[l.obj] = "syncing" /\ l.queue = op[l.obj].queue =>
      \E s \in signals : Covers(s, l) /\ s.fence = Caller(l.obj)

LooseOffered == \A o \in Objects : \A e \in loose[o] : e.kind \in Offers[o]

IInv ==
  /\ TypeOK
  /\ Placed
  /\ SignalsCurrent
  /\ Waited
  /\ Covered
  /\ Known
  /\ SyncCovers
  /\ LooseOffered
  /\ OnlyBareTears
-----------------------------------------------------------------------------
LEMMA FencesOf ==
  ASSUME NEW o \in Objects
  PROVE  /\ Own(o) \in Fences /\ Fresh(o) \in Fences /\ Caller(o) \in Fences
         /\ \A kind : FenceOf(o, kind) \in {Own(o), Fresh(o)}
         /\ Own(o) # Fresh(o) /\ Own(o) # Caller(o) /\ Fresh(o) # Caller(o)
BY DispatchAssumption DEF Own, Fresh, Caller, FenceOf, Roles

(* The fences of two objects are different fences.                         *)
LEMMA FencesApart ==
  ASSUME NEW o \in Objects, NEW p \in Objects, o # p
  PROVE  {Own(o), Fresh(o), Caller(o)} \cap {Own(p), Fresh(p), Caller(p)} = {}
BY DEF Own, Fresh, Caller

(* A completed fence has no signal on its way.                             *)
LEMMA CompletedMeansSignalled ==
  ASSUME TypeOK, SignalsCurrent, NEW s \in signals
  PROVE  ~Completed(s.fence, fence_val[s.fence])
BY DEF TypeOK, GpuTypeOK, Signal, SignalsCurrent, Completed

-----------------------------------------------------------------------------
(* Every action keeps the variables in their types.                        *)
LEMMA TypeOKStep == TypeOK /\ [Next]_vars => TypeOK'
<1> SUFFICES ASSUME TypeOK, [Next]_vars PROVE TypeOK'
  OBVIOUS
<1> USE DispatchAssumption DEF TypeOK, GpuTypeOK
<1>1. ASSUME NEW o \in Objects, NEW kind \in Kinds, NEW q \in Queues,
             NEW n \in 1..Stages[o], Call(o, kind, q, n)
      PROVE  TypeOK'
  <2>1. [kind |-> kind, queue |-> q, left |-> n] \in Op
    BY DEF Op
  <2>2. op' \in [Objects -> Op]
    BY <1>1, <2>1 DEF Call
  <2>3. QED
    BY <1>1, <2>2 DEF Call, gpuVars, Begin
<1>2. ASSUME NEW o \in Objects, WaitEnds(o) PROVE TypeOK'
  BY <1>2 DEF WaitEnds, gpuVars
<1>3. ASSUME NEW o \in Objects PROVE /\ OneLess(o) \in [Objects -> Op]
                                     /\ AfterDispatch(o) \in {"waiting", "ready", "idle"}
  <2>1. op[o].left \in Nat /\ op[o] \in Op
    BY DEF Op
  <2>2. (IF op[o].left > 1 THEN op[o].left - 1 ELSE 0) \in Nat
    BY <2>1
  <2>3. QED
    BY <2>1, <2>2 DEF OneLess, AfterDispatch, Begin, Op
<1>4. ASSUME NEW o \in Objects PROVE
        /\ torn \cup {[obj |-> o, blamed |-> Blamed(o)]}
             \subseteq [obj : Objects, blamed : BOOLEAN]
        /\ \A kind \in {"fenced", "bare"} : Loosen(o, kind) \in [Objects -> SUBSET Loose]
  <2>1. Blamed(o) \in BOOLEAN
    BY DEF Blamed
  <2>2. op[o].queue \in Queues
    BY DEF Op
  <2>3. QED
    BY <2>1, <2>2 DEF Loosen, Loose
<1>5. ASSUME NEW o \in Objects, RecordSignalled(o) PROVE TypeOK'
  <2> DEFINE f == FenceOf(o, op[o].kind)
             q == op[o].queue
  <2>1. f \in Fences /\ q \in Queues /\ fence_val[f] \in Nat /\ position[q] \in Nat
    BY FencesOf DEF Op
  <2>2. GpuTypeOK'
    BY <1>5, <2>1 DEF RecordSignalled, ExecuteAndSignal, SignalAfter, List, Signal
  <2>3. fence_val' \in [Fences -> Nat] /\ calls' = calls
    BY <1>5, <2>1 DEF RecordSignalled, Increment
  <2>4. pc' \in [Objects -> {"idle", "waiting", "ready", "draining", "syncing"}]
        /\ op' \in [Objects -> Op]
    BY <1>5, <1>3 DEF RecordSignalled
  <2>5. loose' \in [Objects -> SUBSET Loose]
    BY <1>5, <1>4 DEF RecordSignalled
  <2>6. torn' \subseteq [obj : Objects, blamed : BOOLEAN]
    BY <1>5, <1>4 DEF RecordSignalled, ResetAllocator
  <2>7. QED
    BY <2>2, <2>3, <2>4, <2>5, <2>6
<1>6. ASSUME NEW o \in Objects, DrainEnds(o) PROVE TypeOK'
  BY <1>6, <1>3 DEF DrainEnds, gpuVars
<1>7. ASSUME NEW o \in Objects, RecordBare(o) PROVE TypeOK'
  <2>1. op[o].queue \in Queues /\ position[op[o].queue] \in Nat
    BY DEF Op
  <2>2. GpuTypeOK'
    BY <1>7, <2>1 DEF RecordBare, Execute, List
  <2>3. torn' \subseteq [obj : Objects, blamed : BOOLEAN]
    BY <1>7, <1>4 DEF RecordBare, ResetAllocator
  <2>4. QED
    BY <1>7, <1>4, <2>2, <2>3 DEF RecordBare
<1>8. ASSUME NEW o \in Objects, NEW q \in Queues, CallerSyncs(o, q) PROVE TypeOK'
  <2>1. Caller(o) \in Fences /\ position[q] \in Nat
    BY FencesOf
  <2>2. GpuTypeOK'
    BY <1>8, <2>1 DEF CallerSyncs, EnqueueSignal, SignalAfter, Signal
  <2>3. [kind |-> "bare", queue |-> q, left |-> 0] \in Op
    BY DEF Op, Kinds
  <2>4. op' \in [Objects -> Op]
    BY <1>8, <2>3 DEF CallerSyncs
  <2>5. QED
    BY <1>8, <2>1, <2>2, <2>4 DEF CallerSyncs
<1>9. ASSUME NEW o \in Objects, SyncEnds(o) PROVE TypeOK'
  BY <1>9 DEF SyncEnds, gpuVars
<1>10. CASE GpuStep
  <2>1. ASSUME NEW l \in lists, ListFinishes(l), UNCHANGED threadVars PROVE TypeOK'
    BY <2>1 DEF ListFinishes, threadVars
  <2>2. ASSUME NEW s \in signals, SignalReached(s), UNCHANGED threadVars PROVE TypeOK'
    BY <2>2 DEF SignalReached, threadVars, Signal
  <2>3. QED
    BY <1>10, <2>1, <2>2 DEF GpuStep, Gpu
<1>11. CASE UNCHANGED vars
  BY <1>11 DEF vars, gpuVars, threadVars
<1>12. QED
  BY <1>1, <1>2, <1>5, <1>6, <1>7, <1>8, <1>9, <1>10, <1>11
  DEF Next, Thread, Resume

LEMMA InitTypeOK == Init => TypeOK
<1> SUFFICES ASSUME Init PROVE TypeOK
  OBVIOUS
<1>1. (CHOOSE q \in Queues : TRUE) \in Queues
  BY DispatchAssumption
<1>2. [kind |-> "bare", queue |-> CHOOSE q \in Queues : TRUE, left |-> 0] \in Op
  BY <1>1 DEF Op, Kinds
<1>3. QED
  BY <1>2 DEF Init, GpuInit, TypeOK, GpuTypeOK

(* Every variable keeps its type in every behaviour: no count of           *)
(* dispatches left goes below zero, no fence and no queue is made up.      *)
THEOREM TypeCorrect == Spec => []TypeOK
BY InitTypeOK, TypeOKStep, PTL DEF Spec

-----------------------------------------------------------------------------
(* What a thread may conclude from a completed fence.                      *)
LEMMA NothingCovered ==
  ASSUME TypeOK, SignalsCurrent, Waited, Covered,
         NEW o \in Objects, pc[o] # "draining",
         Completed(Own(o), fence_val[Own(o)]),
         NEW l \in lists, l.obj = o
  PROVE  \E e \in loose[o] : OnQueue(e, l) /\ e.kind = "bare"
<1>1. Completed(Fresh(o), fence_val[Fresh(o)])
  BY DEF Waited
<1>2. ASSUME NEW s \in signals PROVE s.fence \notin {Own(o), Fresh(o)}
  BY <1>1, CompletedMeansSignalled
<1>3. QED
  BY <1>2 DEF Covered

(* A dispatch resets an allocator in use only if it is to blame for it.    *)
LEMMA ResetIsBlamed ==
  ASSUME IInv, NEW o \in Objects, pc[o] = "ready", InFlight(o)
  PROVE  Blamed(o)
<1> USE DEF IInv
<1>1. PICK l \in lists : l.obj = o
  BY DEF InFlight
<1>2. CASE op[o].kind \in {"bare", "private"}
  BY <1>1, <1>2 DEF Known, Blamed
<1>3. CASE op[o].kind \in {"fenced", "blocking"}
  <2>1. Completed(Own(o), fence_val[Own(o)])
    BY <1>3 DEF Waited
  <2>2. PICK e \in loose[o] : e.kind = "bare"
    BY <1>1, <2>1, NothingCovered
  <2>3. QED
    BY <2>2 DEF Blamed
<1>4. op[o].kind \in Kinds
  BY DEF TypeOK, Op
<1>5. QED
  BY <1>2, <1>3, <1>4 DEF Kinds

LEMMA InitIInv == Init => IInv
<1> SUFFICES ASSUME Init PROVE IInv
  OBVIOUS
<1>1. TypeOK
  BY InitTypeOK
<1>2. Placed /\ Covered /\ Known /\ SyncCovers /\ LooseOffered /\ OnlyBareTears
  BY DEF Init, GpuInit, Placed, Covered, Known, SyncCovers, LooseOffered, OnlyBareTears
<1>3. SignalsCurrent
  BY DEF Init, GpuInit, SignalsCurrent
<1>4. Waited
  BY FencesOf DEF Init, GpuInit, Waited, Completed
<1>5. QED
  BY <1>1, <1>2, <1>3, <1>4 DEF IInv

LEMMA CallKeeps ==
  ASSUME IInv, TypeOK', NEW o \in Objects, NEW kind \in Kinds, NEW q \in Queues,
         NEW n \in 1..Stages[o], Call(o, kind, q, n)
  PROVE  IInv'
<1> USE DEF IInv
<1>1. /\ pc' = [pc EXCEPT ![o] = Begin(kind)]
      /\ op' = [op EXCEPT ![o] = [kind |-> kind, queue |-> q, left |-> n]]
      /\ UNCHANGED <<lists, signals, position, reached, fence_val, loose, torn>>
      /\ pc[o] = "idle" /\ kind \in Offers[o]
  BY DEF Call, gpuVars
<1>2. Placed' /\ SignalsCurrent' /\ LooseOffered' /\ OnlyBareTears'
  BY <1>1 DEF Placed, SignalsCurrent, LooseOffered, OnlyBareTears
<1>3. Covered'
  BY <1>1 DEF Covered, Covers, OnQueue
<1>4. pc'[o] = Begin(kind) /\ op'[o].kind = kind
      /\ \A p \in Objects \ {o} : pc'[p] = pc[p] /\ op'[p] = op[p]
  BY <1>1 DEF TypeOK
<1>5. Waited'
  BY <1>1, <1>4 DEF Waited, Begin, WaitsFirst, Completed, Kinds
<1>6. Known'
  <2>1. ASSUME NEW l \in lists PROVE l.obj \in Objects
    BY DEF TypeOK, GpuTypeOK, List
  <2>2. QED
    BY <1>1, <1>4, <2>1 DEF Known, Covers, OnQueue
<1>7. SyncCovers'
  <2>1. ASSUME NEW l \in lists PROVE l.obj \in Objects
    BY DEF TypeOK, GpuTypeOK, List
  <2>2. QED
    BY <1>1, <1>4, <2>1 DEF SyncCovers, Covers, Begin
<1>8. QED
  BY <1>2, <1>3, <1>5, <1>6, <1>7

LEMMA WaitEndsKeeps ==
  ASSUME IInv, TypeOK', NEW o \in Objects, WaitEnds(o)
  PROVE  IInv'
<1> USE DEF IInv
<1>1. /\ pc' = [pc EXCEPT ![o] = "ready"]
      /\ loose' = [loose EXCEPT ![o] = {e \in @ : e.kind # "fenced"}]
      /\ UNCHANGED <<lists, signals, position, reached, op, fence_val, torn>>
      /\ pc[o] = "waiting" /\ Completed(Own(o), fence_val[Own(o)])
  BY DEF WaitEnds, gpuVars
<1>2. /\ pc'[o] = "ready"
      /\ loose'[o] = {e \in loose[o] : e.kind # "fenced"}
      /\ \A p \in Objects \ {o} : pc'[p] = pc[p] /\ loose'[p] = loose[p]
  BY <1>1 DEF TypeOK
<1>3. \A l \in lists : l.obj \in Objects
  BY DEF TypeOK, GpuTypeOK, List
<1>4. Placed' /\ SignalsCurrent' /\ OnlyBareTears'
  BY <1>1 DEF Placed, SignalsCurrent, OnlyBareTears
<1>5. LooseOffered'
  BY <1>1, <1>2 DEF LooseOffered
<1>6. Waited'
  BY <1>1, <1>2 DEF Waited, Completed
<1>7. Covered'
  BY <1>1, <1>2, <1>3 DEF Covered, Covers, OnQueue
<1>8. Known'
  <2>1. ASSUME NEW l \in lists, l.obj = o
        PROVE  \E e \in loose'[o] : OnQueue(e, l)
    <3>1. PICK e \in loose[o] : OnQueue(e, l) /\ e.kind = "bare"
      BY <1>1, <2>1, NothingCovered
    <3>2. QED
      BY <1>2, <3>1
  <2>2. QED
    BY <1>1, <1>2, <1>3, <2>1 DEF Known, Covers, OnQueue
<1>9. SyncCovers'
  BY <1>1, <1>2, <1>3 DEF SyncCovers, Covers
<1>10. QED
  BY <1>4, <1>5, <1>6, <1>7, <1>8, <1>9

LEMMA RecordSignalledKeeps ==
  ASSUME IInv, TypeOK', NEW o \in Objects, RecordSignalled(o)
  PROVE  IInv'
<1> USE DEF IInv
<1> DEFINE f == FenceOf(o, op[o].kind)
           q == op[o].queue
           l0 == [obj |-> o, queue |-> q, at |-> position[q]]
           s0 == [fence |-> f, value |-> fence_val[f] + 1, queue |-> q,
                  at |-> position[q] + 1]
<1>1. /\ pc[o] = "ready" /\ op[o].kind # "bare"
      /\ lists' = lists \cup {l0}
      /\ signals' = signals \cup {s0}
      /\ position' = [position EXCEPT ![q] = @ + 2]
      /\ fence_val' = [fence_val EXCEPT ![f] = @ + 1]
      /\ reached' = reached
  BY DEF RecordSignalled, ExecuteAndSignal, SignalAfter, Increment
<1>2. /\ f \in Fences /\ q \in Queues /\ f \in {Own(o), Fresh(o)}
      /\ fence_val[f] \in Nat /\ position[q] \in Nat /\ reached[f] \in Nat
      /\ op[o].kind \in {"fenced", "blocking", "private"}
  BY <1>1, FencesOf DEF TypeOK, GpuTypeOK, Op, Kinds
<1>3. /\ \A l \in lists : l.obj \in Objects /\ l.queue \in Queues /\ l.at \in Nat
      /\ \A s \in signals : s.fence \in Fences /\ s.queue \in Queues /\ s.at \in Nat
  BY DEF TypeOK, GpuTypeOK, List, Signal
<1>4. /\ pc'[o] = IF WaitsAfter(op[o].kind) THEN "draining" ELSE AfterDispatch(o)
      /\ op'[o].kind = op[o].kind /\ op'[o].queue = op[o].queue
      /\ \A p \in Objects \ {o} : pc'[p] = pc[p] /\ op'[p] = op[p]
  BY DEF RecordSignalled, TypeOK, OneLess, Op
<1>5. /\ \A e \in loose[o] : e \in loose'[o]
      /\ op[o].kind = "fenced" =>
           loose'[o] = loose[o] \cup {[queue |-> q, kind |-> "fenced"]}
      /\ op[o].kind # "fenced" => loose' = loose
      /\ \A p \in Objects \ {o} : loose'[p] = loose[p]
  BY DEF RecordSignalled, TypeOK, Loosen
<1>6. Completed(f, fence_val[f])
  BY <1>1, <1>2 DEF Waited, FenceOf, Own, Fresh
<1>7. \A s \in signals : s.fence # f
  BY <1>6, CompletedMeansSignalled
<1>8. Placed'
  BY <1>1, <1>2, <1>3 DEF Placed, TypeOK, GpuTypeOK
<1>9. SignalsCurrent'
  <2>1. fence_val'[f] = fence_val[f] + 1 /\ reached[f] <= fence_val[f]
        /\ \A g \in Fences \ {f} : fence_val'[g] = fence_val[g]
    BY <1>1, <1>2 DEF TypeOK, SignalsCurrent
  <2>2. QED
    BY <1>1, <1>2, <1>3, <1>7, <2>1 DEF SignalsCurrent, TypeOK, GpuTypeOK
<1>10. Waited'
  <2>1. ASSUME NEW p \in Objects \ {o}
        PROVE  /\ fence_val'[Own(p)] = fence_val[Own(p)]
               /\ fence_val'[Fresh(p)] = fence_val[Fresh(p)]
               /\ fence_val'[Caller(p)] = fence_val[Caller(p)]
    BY <1>1, <1>2, FencesOf, FencesApart DEF TypeOK
  <2>2. fence_val'[Caller(o)] = fence_val[Caller(o)]
    BY <1>1, <1>2, FencesOf DEF TypeOK
  <2>3. op[o].kind # "private" => fence_val'[Fresh(o)] = fence_val[Fresh(o)]
    BY <1>1, <1>2, FencesOf DEF TypeOK, FenceOf, Own, Fresh
  <2>4. pc'[o] \in {"draining", "idle", "waiting"}
        /\ (pc'[o] = "draining" <=> op[o].kind \in {"blocking", "private"})
        /\ (pc'[o] = "waiting" => op[o].kind = "fenced")
    BY <1>2, <1>4 DEF WaitsAfter, AfterDispatch, Begin, WaitsFirst
  <2>5. QED
    BY <1>1, <1>2, <1>4, <2>1, <2>2, <2>3, <2>4 DEF Waited, Completed
<1>11. Covered'
  <2>1. Covers(s0, l0) /\ s0.fence \in {Own(o), Fresh(o)}
    BY <1>2 DEF Covers
  <2>2. ASSUME NEW l \in lists
        PROVE  \/ \E e \in loose'[l.obj] : OnQueue(e, l) /\ e.kind = "bare"
               \/ \E s \in signals' : Covers(s, l) /\ s.fence \in {Own(l.obj), Fresh(l.obj)}
    BY <1>1, <1>3, <1>5 DEF Covered
  <2>3. s0 \in signals' /\ l0.obj = o
    BY <1>1
  <2>4. \E s \in signals' : Covers(s, l0) /\ s.fence \in {Own(l0.obj), Fresh(l0.obj)}
    BY <2>1, <2>3
  <2>5. \A l \in lists' : l \in lists \/ l = l0
    BY <1>1
  <2>6. QED
    BY <2>2, <2>4, <2>5 DEF Covered, Covers, OnQueue
<1>12. Known'
  <2>1. CASE op[o].kind = "fenced"
    <3>1. OnQueue([queue |-> q, kind |-> "fenced"], l0)
      BY DEF OnQueue
    <3>2. \A l \in lists : l.obj = o => \E e \in loose'[o] : OnQueue(e, l)
      BY <1>1, <1>5 DEF Known
    <3>3. ASSUME NEW l \in lists, l.obj # o
          PROVE  \/ \E e \in loose'[l.obj] : OnQueue(e, l)
                 \/ /\ pc'[l.obj] = "draining"
                    /\ \E s \in signals' :
                         Covers(s, l) /\ s.fence = FenceOf(l.obj, op'[l.obj].kind)
      BY <1>1, <1>3, <1>4, <1>5, <3>3 DEF Known
    <3>4. \E e \in loose'[l0.obj] : OnQueue(e, l0)
      BY <1>5, <2>1, <3>1
    <3>5. \A l \in lists' : l \in lists \/ l = l0
      BY <1>1
    <3>6. QED
      BY <3>2, <3>3, <3>4, <3>5 DEF Known, Covers, OnQueue
  <2>2. CASE op[o].kind # "fenced"
    <3>1. pc'[o] = "draining" /\ FenceOf(o, op'[o].kind) = f
      BY <1>2, <1>4, <2>2 DEF WaitsAfter
    <3>2. Covers(s0, l0) /\ s0.fence = f
      BY <1>2 DEF Covers
    <3>3. ASSUME NEW l \in lists
          PROVE  \/ \E e \in loose'[l.obj] : OnQueue(e, l)
                 \/ /\ pc'[l.obj] = "draining"
                    /\ \E s \in signals' :
                         Covers(s, l) /\ s.fence = FenceOf(l.obj, op'[l.obj].kind)
      BY <1>1, <1>3, <1>4, <1>5, <2>2 DEF Known
    <3>4. s0 \in signals' /\ l0.obj = o
      BY <1>1
    <3>5. \E s \in signals' : Covers(s, l0) /\ s.fence = FenceOf(l0.obj, op'[l0.obj].kind)
      BY <3>1, <3>2, <3>4
    <3>6. \A l \in lists' : l \in lists \/ l = l0
      BY <1>1
    <3>7. QED
      BY <3>1, <3>3, <3>4, <3>5, <3>6 DEF Known, Covers, OnQueue
  <2>3. QED
    BY <2>1, <2>2
<1>13. SyncCovers'
  <2>1. pc'[o] # "syncing"
    BY <1>2, <1>4 DEF AfterDispatch, Begin
  <2>2. QED
    BY <1>1, <1>3, <1>4, <2>1 DEF SyncCovers, Covers
<1>14. LooseOffered'
  BY <1>1, <1>5 DEF LooseOffered, Waited
<1>15. OnlyBareTears'
  BY <1>1, ResetIsBlamed DEF RecordSignalled, ResetAllocator, OnlyBareTears
<1>16. QED
  BY <1>8, <1>9, <1>10, <1>11, <1>12, <1>13, <1>14, <1>15

LEMMA DrainEndsKeeps ==
  ASSUME IInv, TypeOK', NEW o \in Objects, DrainEnds(o)
  PROVE  IInv'
<1> USE DEF IInv
<1> DEFINE f == FenceOf(o, op[o].kind)
<1>1. /\ pc[o] = "draining" /\ Completed(f, fence_val[f])
      /\ UNCHANGED <<lists, signals, position, reached, fence_val, loose, torn>>
  BY DEF DrainEnds, gpuVars
<1>2. /\ pc'[o] = AfterDispatch(o)
      /\ op'[o].kind = op[o].kind
      /\ \A p \in Objects \ {o} : pc'[p] = pc[p] /\ op'[p] = op[p]
  BY DEF DrainEnds, TypeOK, OneLess, Op
<1>3. \A l \in lists : l.obj \in Objects
  BY DEF TypeOK, GpuTypeOK, List
<1>4. Placed' /\ SignalsCurrent' /\ OnlyBareTears' /\ LooseOffered'
  BY <1>1 DEF Placed, SignalsCurrent, OnlyBareTears, LooseOffered
<1>5. Covered'
  BY <1>1 DEF Covered, Covers, OnQueue
<1>6. pc'[o] \in {"idle", "waiting", "ready"}
      /\ (pc'[o] = "waiting" => op[o].kind \in {"fenced", "blocking"})
      /\ (pc'[o] = "ready" => op[o].kind \notin {"fenced", "blocking"})
  BY <1>2 DEF AfterDispatch, Begin, WaitsFirst
<1>7. Waited'
  <2>1. op[o].kind = "private" => Completed(Fresh(o), fence_val[Fresh(o)])
    BY <1>1 DEF FenceOf, Fresh
  <2>2. QED
    BY <1>1, <1>2, <1>6, <2>1 DEF Waited, Completed
<1>8. Known'
  <2>1. ASSUME NEW l \in lists, l.obj = o
        PROVE  \E e \in loose[o] : OnQueue(e, l)
    BY <1>1, <2>1, CompletedMeansSignalled DEF Known
  <2>2. QED
    BY <1>1, <1>2, <1>3, <2>1 DEF Known, Covers, OnQueue
<1>9. SyncCovers'
  BY <1>1, <1>2, <1>3, <1>6 DEF SyncCovers, Covers
<1>10. QED
  BY <1>4, <1>5, <1>7, <1>8, <1>9

LEMMA RecordBareKeeps ==
  ASSUME IInv, TypeOK', NEW o \in Objects, RecordBare(o)
  PROVE  IInv'
<1> USE DEF IInv
<1> DEFINE q == op[o].queue
           l0 == [obj |-> o, queue |-> q, at |-> position[q]]
           e0 == [queue |-> q, kind |-> "bare"]
<1>1. /\ pc[o] = "ready" /\ op[o].kind = "bare"
      /\ lists' = lists \cup {l0}
      /\ position' = [position EXCEPT ![q] = @ + 1]
      /\ UNCHANGED <<signals, reached, op, fence_val>>
  BY DEF RecordBare, Execute
<1>2. /\ pc'[o] = "idle" /\ loose'[o] = loose[o] \cup {e0}
      /\ \A p \in Objects \ {o} : pc'[p] = pc[p] /\ loose'[p] = loose[p]
      /\ q \in Queues /\ position[q] \in Nat
  BY DEF RecordBare, Loosen, TypeOK, GpuTypeOK, Op
<1>3. /\ \A l \in lists : l.obj \in Objects /\ l.queue \in Queues /\ l.at \in Nat
      /\ \A s \in signals : s.queue \in Queues /\ s.at \in Nat
  BY DEF TypeOK, GpuTypeOK, List, Signal
<1>4. OnQueue(e0, l0) /\ e0.kind = "bare" /\ e0 \in loose'[l0.obj]
      /\ \A l \in lists' : l \in lists \/ l = l0
  BY <1>1, <1>2 DEF OnQueue
<1>5. Placed'
  BY <1>1, <1>2, <1>3 DEF Placed, TypeOK, GpuTypeOK
<1>6. SignalsCurrent'
  BY <1>1 DEF SignalsCurrent
<1>7. Waited'
  BY <1>1, <1>2 DEF Waited, Completed
<1>8. Covered'
  <2>1. ASSUME NEW l \in lists
        PROVE  \/ \E e \in loose'[l.obj] : OnQueue(e, l) /\ e.kind = "bare"
               \/ \E s \in signals' : Covers(s, l) /\ s.fence \in {Own(l.obj), Fresh(l.obj)}
    BY <1>1, <1>2, <1>3 DEF Covered
  <2>2. QED
    BY <1>4, <2>1 DEF Covered, Covers, OnQueue
<1>9. Known'
  <2>1. ASSUME NEW l \in lists
        PROVE  \/ \E e \in loose'[l.obj] : OnQueue(e, l)
               \/ /\ pc'[l.obj] = "draining"
                  /\ \E s \in signals' :
                       Covers(s, l) /\ s.fence = FenceOf(l.obj, op'[l.obj].kind)
    BY <1>1, <1>2, <1>3 DEF Known
  <2>2. QED
    BY <1>4, <2>1 DEF Known, Covers, OnQueue
<1>10. SyncCovers'
  BY <1>1, <1>2, <1>3, <1>4 DEF SyncCovers, Covers
<1>11. LooseOffered'
  BY <1>1, <1>2 DEF LooseOffered, Waited
<1>12. OnlyBareTears'
  BY <1>1, ResetIsBlamed DEF RecordBare, ResetAllocator, OnlyBareTears
<1>13. QED
  BY <1>5, <1>6, <1>7, <1>8, <1>9, <1>10, <1>11, <1>12

LEMMA CallerSyncsKeeps ==
  ASSUME IInv, TypeOK', NEW o \in Objects, NEW q \in Queues, CallerSyncs(o, q)
  PROVE  IInv'
<1> USE DEF IInv
<1> DEFINE f == Caller(o)
           s0 == [fence |-> f, value |-> fence_val[f] + 1, queue |-> q,
                  at |-> position[q]]
<1>1. /\ pc[o] = "idle"
      /\ signals' = signals \cup {s0}
      /\ position' = [position EXCEPT ![q] = @ + 1]
      /\ fence_val' = [fence_val EXCEPT ![f] = @ + 1]
      /\ UNCHANGED <<lists, reached, loose, torn>>
  BY DEF CallerSyncs, EnqueueSignal, SignalAfter
<1>2. /\ pc'[o] = "syncing" /\ op'[o].queue = q
      /\ \A p \in Objects \ {o} : pc'[p] = pc[p] /\ op'[p] = op[p]
      /\ f \in Fences /\ fence_val[f] \in Nat /\ reached[f] \in Nat
      /\ position[q] \in Nat
  BY FencesOf DEF CallerSyncs, TypeOK, GpuTypeOK
<1>3. /\ \A l \in lists : l.obj \in Objects /\ l.queue \in Queues /\ l.at \in Nat
      /\ \A s \in signals : s.fence \in Fences /\ s.queue \in Queues /\ s.at \in Nat
  BY DEF TypeOK, GpuTypeOK, List, Signal
<1>4. \A s \in signals : s.fence # f
  BY <1>1, CompletedMeansSignalled DEF Waited
<1>5. Placed'
  BY <1>1, <1>2, <1>3 DEF Placed, TypeOK, GpuTypeOK
<1>6. SignalsCurrent'
  <2>1. fence_val'[f] = fence_val[f] + 1 /\ reached[f] <= fence_val[f]
        /\ \A g \in Fences \ {f} : fence_val'[g] = fence_val[g]
    BY <1>1, <1>2 DEF TypeOK, SignalsCurrent
  <2>2. QED
    BY <1>1, <1>2, <1>3, <1>4, <2>1 DEF SignalsCurrent, TypeOK, GpuTypeOK
<1>7. Waited'
  <2>1. ASSUME NEW p \in Objects
        PROVE  /\ fence_val'[Own(p)] = fence_val[Own(p)]
               /\ fence_val'[Fresh(p)] = fence_val[Fresh(p)]
               /\ p # o => fence_val'[Caller(p)] = fence_val[Caller(p)]
    BY <1>1, FencesOf, FencesApart DEF TypeOK
  <2>2. QED
    BY <1>1, <1>2, <2>1 DEF Waited, Completed
<1>8. Covered'
  BY <1>1 DEF Covered, Covers, OnQueue
<1>9. Known'
  BY <1>1, <1>2, <1>3 DEF Known, Covers, OnQueue
<1>10. SyncCovers'
  <2>1. ASSUME NEW l \in lists, l.obj = o, l.queue = q
        PROVE  s0 \in signals' /\ Covers(s0, l) /\ s0.fence = Caller(l.obj)
    BY <1>1, <2>1 DEF Covers, Placed
  <2>2. ASSUME NEW l \in lists, l.obj # o
        PROVE  pc'[l.obj] = "syncing" /\ l.queue = op'[l.obj].queue =>
                 \E s \in signals' : Covers(s, l) /\ s.fence = Caller(l.obj)
    BY <1>1, <1>2, <1>3, <2>2 DEF SyncCovers
  <2>3. QED
    BY <1>1, <1>2, <2>1, <2>2 DEF SyncCovers, Covers
<1>11. LooseOffered' /\ OnlyBareTears'
  BY <1>1 DEF LooseOffered, OnlyBareTears
<1>12. QED
  BY <1>5, <1>6, <1>7, <1>8, <1>9, <1>10, <1>11

LEMMA SyncEndsKeeps ==
  ASSUME IInv, TypeOK', NEW o \in Objects, SyncEnds(o)
  PROVE  IInv'
<1> USE DEF IInv
<1>1. /\ pc[o] = "syncing" /\ Completed(Caller(o), fence_val[Caller(o)])
      /\ UNCHANGED <<lists, signals, position, reached, op, fence_val, torn>>
  BY DEF SyncEnds, gpuVars
<1>2. /\ pc'[o] = "idle"
      /\ loose'[o] = {e \in loose[o] : e.queue # op[o].queue}
      /\ \A p \in Objects \ {o} : pc'[p] = pc[p] /\ loose'[p] = loose[p]
  BY DEF SyncEnds, TypeOK
<1>3. \A l \in lists : l.obj \in Objects
  BY DEF TypeOK, GpuTypeOK, List
<1>4. \A l \in lists : l.obj = o => l.queue # op[o].queue
  BY <1>1, CompletedMeansSignalled DEF SyncCovers
<1>5. \A l \in lists : \A e \in loose[l.obj] : OnQueue(e, l) => e \in loose'[l.obj]
  BY <1>2, <1>3, <1>4 DEF OnQueue
<1>6. Placed' /\ SignalsCurrent' /\ OnlyBareTears'
  BY <1>1 DEF Placed, SignalsCurrent, OnlyBareTears
<1>7. Waited'
  BY <1>1, <1>2 DEF Waited, Completed
<1>8. Covered'
  BY <1>1, <1>5 DEF Covered, Covers, OnQueue
<1>9. Known'
  BY <1>1, <1>2, <1>3, <1>5 DEF Known, Covers, OnQueue
<1>10. SyncCovers'
  BY <1>1, <1>2, <1>3 DEF SyncCovers, Covers
<1>11. LooseOffered'
  BY <1>1, <1>2 DEF LooseOffered
<1>12. QED
  BY <1>6, <1>7, <1>8, <1>9, <1>10, <1>11

LEMMA ListFinishesKeeps ==
  ASSUME IInv, TypeOK', NEW l \in lists, ListFinishes(l), UNCHANGED threadVars
  PROVE  IInv'
<1> USE DEF IInv
<1>1. /\ lists' \subseteq lists
      /\ UNCHANGED <<signals, position, reached, threadVars>>
  BY DEF ListFinishes
<1>2. Placed' /\ SignalsCurrent' /\ LooseOffered' /\ OnlyBareTears'
  BY <1>1 DEF Placed, SignalsCurrent, LooseOffered, OnlyBareTears, threadVars
<1>3. Waited'
  BY <1>1 DEF Waited, Completed, threadVars
<1>4. Covered' /\ Known' /\ SyncCovers'
  BY <1>1 DEF Covered, Known, SyncCovers, Covers, OnQueue, threadVars
<1>5. QED
  BY <1>2, <1>3, <1>4

(* The signal is the foremost of its queue: what it covers is done.        *)
LEMMA SignalReachedKeeps ==
  ASSUME IInv, TypeOK', NEW s \in signals, SignalReached(s), UNCHANGED threadVars
  PROVE  IInv'
<1> USE DEF IInv
<1>1. /\ signals' = signals \ {s}
      /\ reached' = [reached EXCEPT ![s.fence] = s.value]
      /\ UNCHANGED <<lists, position, threadVars>>
  BY DEF SignalReached
<1>2. s.fence \in Fences /\ s.value = fence_val[s.fence] /\ s.at \in Nat
      /\ \A l \in lists : l.at \in Nat
  BY DEF TypeOK, GpuTypeOK, Signal, List, SignalsCurrent
<1>3. \A l \in lists : ~Covers(s, l)
  BY <1>2 DEF SignalReached, Foremost, Covers
<1>4. \A f \in Fences : reached'[f] = IF f = s.fence THEN fence_val[f] ELSE reached[f]
  BY <1>1, <1>2 DEF TypeOK, GpuTypeOK
<1>5. Placed' /\ LooseOffered' /\ OnlyBareTears'
  BY <1>1 DEF Placed, LooseOffered, OnlyBareTears, threadVars
<1>6. SignalsCurrent'
  <2>1. \A t \in signals' : t \in signals /\ t.fence \in Fences /\ t.fence # s.fence
    BY <1>1 DEF SignalsCurrent, TypeOK, GpuTypeOK, Signal
  <2>2. \A f \in Fences : fence_val[f] \in Nat /\ fence_val' = fence_val
    BY <1>1 DEF TypeOK, threadVars
  <2>3. QED
    BY <1>4, <2>1, <2>2 DEF SignalsCurrent
<1>7. Waited'
  <2>1. ASSUME NEW f \in Fences, Completed(f, fence_val[f])
        PROVE  Completed(f, fence_val[f])'
    BY <1>1, <1>4, <2>1 DEF Completed, TypeOK, threadVars
  <2>2. QED
    BY <1>1, <2>1, FencesOf DEF Waited, threadVars
<1>8. Covered' /\ Known' /\ SyncCovers'
  BY <1>1, <1>3 DEF Covered, Known, SyncCovers, Covers, OnQueue, threadVars
<1>9. QED
  BY <1>5, <1>6, <1>7, <1>8

LEMMA IInvStep == IInv /\ [Next]_vars => IInv'
<1> SUFFICES ASSUME IInv, [Next]_vars PROVE IInv'
  OBVIOUS
<1>1. TypeOK'
  BY TypeOKStep DEF IInv
<1>2. CASE UNCHANGED vars
  <2>1. UNCHANGED <<lists, signals, position, reached, threadVars>>
    BY <1>2 DEF vars, gpuVars
  <2>2. Placed' /\ SignalsCurrent' /\ LooseOffered' /\ OnlyBareTears'
    BY <2>1 DEF IInv, Placed, SignalsCurrent, LooseOffered, OnlyBareTears, threadVars
  <2>3. Waited'
    BY <2>1 DEF IInv, Waited, Completed, threadVars
  <2>4. Covered' /\ Known' /\ SyncCovers'
    BY <2>1 DEF IInv, Covered, Known, SyncCovers, Covers, OnQueue, threadVars
  <2>5. QED
    BY <1>1, <2>2, <2>3, <2>4 DEF IInv
<1>3. CASE GpuStep
  BY <1>1, <1>3, ListFinishesKeeps, SignalReachedKeeps DEF GpuStep, Gpu
<1>4. ASSUME NEW o \in Objects, Thread(o) PROVE IInv'
  BY <1>1, <1>4, CallKeeps, WaitEndsKeeps, RecordSignalledKeeps, DrainEndsKeeps,
     RecordBareKeeps, CallerSyncsKeeps, SyncEndsKeeps
  DEF Thread, Resume
<1>5. QED
  BY <1>2, <1>3, <1>4 DEF Next

(* The inductive invariant: whatever is in flight is announced by a signal *)
(* nobody has seen yet, or is known as loose.                              *)
THEOREM InductiveInvariant == Spec => []IInv
BY InitIInv, IInvStep, PTL DEF Spec

(* Fenced, blocking and private operations never reset an allocator in     *)
(* use, however they are mixed and on whatever queues; only an operation   *)
(* that does not wait, or one that follows a bare one, can.                *)
THEOREM OnlyBareOperationsTear == Spec => []OnlyBareTears
<1>1. IInv => OnlyBareTears
  BY DEF IInv
<1>2. QED
  BY <1>1, InductiveInvariant, PTL

(* A completed fence means that no fenced list of the object is in flight. *)
THEOREM FenceIsEnough == Spec => []FenceCoversLists
<1>1. IInv => FenceCoversLists
  <2> SUFFICES ASSUME IInv, NEW o \in Objects, pc[o] # "draining",
                      Completed(Own(o), fence_val[Own(o)]),
                      \A e \in loose[o] : e.kind = "fenced"
               PROVE  ~InFlight(o)
    BY DEF FenceCoversLists
  <2>1. ASSUME NEW l \in lists, l.obj = o PROVE FALSE
    BY <2>1, NothingCovered DEF IInv
  <2>2. QED
    BY <2>1 DEF InFlight
<1>2. QED
  BY <1>1, InductiveInvariant, PTL

(* An object whose operations all wait for what they put on a queue has    *)
(* nothing in flight when they have returned.                              *)
THEOREM ReturnMeansDone == Spec => []ReturnedMeansDone
<1>1. IInv => ReturnedMeansDone
  BY DEF IInv, ReturnedMeansDone, InFlight, Known, LooseOffered, TypeOK, Loose
<1>2. QED
  BY <1>1, InductiveInvariant, PTL
=============================================================================
