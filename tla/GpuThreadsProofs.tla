-------------------------- MODULE GpuThreadsProofs -------------------------
(***************************************************************************)
(* Proofs about GpuThreads for any threads and any bound of the fences.    *)
(*                                                                         *)
(* The scheduler: when wait_all returns, everything submitted is done.     *)
(* A list has a signal of a later value behind it on its queue, so a fence *)
(* that has completed the count of its queue leaves no list (WorkInv).     *)
(* The lock keeps all threads but one from the events of the fences: what  *)
(* is registered, set or blocked on is that thread's, and of the count it  *)
(* waits for (EventInv).                                                   *)
(*                                                                         *)
(* The chunk streamer: what streams return is wrong only if they           *)
(* overlapped.  No lock gives a stream the staging buffers, the queue, the *)
(* fence and its event; being alone does (AloneInv), and then its chunk is *)
(* where its stage says (Stage).                                           *)
(*                                                                         *)
(* The reduction: which chunks its two passes have copied, and that its    *)
(* first copy takes a number out of the sum for good (ReduceInv).          *)
(***************************************************************************)
EXTENDS GpuThreads, TLAPS

Both == {"direct", "compute"}

ScheduleOK ==
  /\ submitted \in [Both -> 0 .. MaxValue]
  /\ holder \in Threads \cup {Nobody}
  /\ waiting \in [at : {"not", "asking", "registered", "blocked"}, on : Both]
  /\ lists \subseteq [obj : Objects, queue : Both, at : Nat]
  /\ signals \subseteq [fence : Fences, value : Nat, queue : Both, at : Nat]
  /\ position \in [Queues -> Nat]
  /\ reached \in [Fences -> Nat]
  /\ armed \in [Fences -> [0 .. MaxValue -> Nat]]
  /\ flag \in [Fences -> BOOLEAN]
  /\ blocked \in [Threads -> Fences \cup {NoFence}]

ReachedInv == \A q \in Both : reached[WorkFence[q]] <= submitted[q]

(* Lists and signals of a queue are in the order of the values.            *)
WorkInv ==
  /\ \A l \in lists :
       /\ l.at < position[l.queue]
       /\ \E s \in signals : s.queue = l.queue /\ l.at < s.at
  /\ \A s \in signals :
       /\ s.fence = WorkFence[s.queue]
       /\ s.at < position[s.queue]
       /\ reached[s.fence] < s.value /\ s.value <= submitted[s.queue]
  /\ \A s, r \in signals : s.queue = r.queue /\ s.at <= r.at => s = r \/ s.value < r.value
  /\ ReachedInv

(* wait_all has the lock from its first question to its last.              *)
WaitInv ==
  /\ holder = Nobody <=> waiting.at = "not"
  /\ holder = Nobody => waiting.on = "direct"
  /\ waiting.on = "compute" => reached[WorkFence["direct"]] >= submitted["direct"]

(* What it registered is one value of one fence; it has fired once the     *)
(* event is set or the thread let go.                                      *)
EventInv ==
  LET f == WorkFence[waiting.on]
      v == submitted[waiting.on] IN
  /\ \A g \in Fences, u \in 0 .. MaxValue : armed[g][u] # 0 =>
       waiting.at \in {"registered", "blocked"} /\ g = f /\ u = v /\ armed[g][u] = 1
  /\ \A g \in Fences : flag[g] =>
       waiting.at = "registered" /\ g = f /\ armed[f][v] = 0 /\ reached[f] >= v
  /\ \A t \in Threads : blocked[t] # NoFence =>
       waiting.at = "blocked" /\ t = holder /\ blocked[t] = f
  /\ waiting.at = "blocked" /\ blocked[holder] = NoFence =>
       armed[f][v] = 0 /\ reached[f] >= v

ScheduleInv == ScheduleOK /\ WorkInv /\ WaitInv /\ EventInv

IInv == user = "schedule" => ScheduleInv
-----------------------------------------------------------------------------
LEMMA WorkFences ==
  /\ WorkFence \in [Both -> Fences]
  /\ DOMAIN WorkFence = Both
  /\ Both \subseteq Queues
  /\ \A p, q \in Both : WorkFence[p] = WorkFence[q] => p = q
  /\ MaxValue \in Nat /\ NoFence \notin Fences /\ Nobody \notin Threads /\ Work \in Objects
BY SchedulerAssumption, FenceAssumption DEF Both

LEMMA Numbers ==
  ASSUME ScheduleOK
  PROVE  /\ \A q \in Both : /\ submitted[q] \in Nat /\ submitted[q] <= MaxValue /\ position[q] \in Nat
                            /\ WorkFence[q] \in Fences /\ reached[WorkFence[q]] \in Nat
         /\ \A l \in lists : l.queue \in Both /\ l.at \in Nat
         /\ \A s \in signals : s.queue \in Both /\ s.at \in Nat /\ s.value \in Nat /\ s.fence \in Fences
<1>1. ASSUME NEW q \in Both
      PROVE  /\ submitted[q] \in Nat /\ submitted[q] <= MaxValue /\ position[q] \in Nat
             /\ WorkFence[q] \in Fences /\ reached[WorkFence[q]] \in Nat
  <2>1. submitted[q] \in 0 .. MaxValue /\ q \in Queues /\ WorkFence[q] \in Fences
    BY WorkFences DEF ScheduleOK
  <2> QED
    BY <2>1, WorkFences DEF ScheduleOK
<1>2. \A l \in lists : l.queue \in Both /\ l.at \in Nat
  BY DEF ScheduleOK
<1>3. \A s \in signals : s.queue \in Both /\ s.at \in Nat /\ s.value \in Nat /\ s.fence \in Fences
  BY DEF ScheduleOK
<1> QED
  BY <1>1, <1>2, <1>3

LEMMA Submits ==
  ASSUME ScheduleInv, NEW q \in Both, NEW t \in Threads, Submit(t, q)
  PROVE  ScheduleInv'
<1> USE DEF ScheduleInv
<1>1. PICK n \in Nat, v \in Nat : n = position[q] /\ v = submitted[q] + 1
  BY Numbers
<1>2. PICK L, S : /\ L = [obj |-> Work, queue |-> q, at |-> n]
                  /\ S = [fence |-> WorkFence[q], value |-> v, queue |-> q, at |-> n + 1]
  OBVIOUS
<1>3. /\ lists' = lists \cup {L}
      /\ signals' = signals \cup {S}
      /\ position' = [position EXCEPT ![q] = n + 2]
      /\ submitted' = [submitted EXCEPT ![q] = v]
      /\ UNCHANGED <<reached, armed, flag, blocked, holder, waiting>>
      /\ holder = Nobody
      /\ v <= MaxValue
  <2>1. submitted[q] < MaxValue /\ submitted' = [submitted EXCEPT ![q] = v] /\ submitted[q] \in Nat
    BY <1>1, Numbers DEF Submit
  <2>2. submitted'[q] = v
    BY <2>1, WorkFences DEF ScheduleOK
  <2>3. v <= MaxValue
    BY <1>1, <2>1, WorkFences
  <2> QED
    BY <1>1, <1>2, <2>1, <2>2, <2>3 DEF Submit, ExecuteAndSignal, SignalAfter, ownVars
<1>4. /\ L.at = n /\ L.queue = q /\ S.at = n + 1 /\ S.queue = q /\ S.value = v /\ S.fence = WorkFence[q]
      /\ L \in [obj : Objects, queue : Both, at : Nat]
      /\ S \in [fence : Fences, value : Nat, queue : Both, at : Nat]
  BY <1>2, WorkFences
<1>5. /\ position'[q] = n + 2 /\ \A p \in Both \ {q} : position'[p] = position[p]
      /\ submitted'[q] = v /\ \A p \in Both \ {q} : submitted'[p] = submitted[p]
  BY <1>3, WorkFences DEF ScheduleOK
<1>6. \A p \in Both : /\ position[p] <= position'[p] /\ submitted[p] <= submitted'[p]
                      /\ position'[p] \in Nat /\ submitted'[p] \in Nat
  <2> SUFFICES ASSUME NEW p \in Both
               PROVE  /\ position[p] <= position'[p] /\ submitted[p] <= submitted'[p]
                      /\ position'[p] \in Nat /\ submitted'[p] \in Nat
    OBVIOUS
  <2>1. CASE p = q
    BY <1>1, <1>5, <2>1, Numbers
  <2>2. CASE p # q
    BY <1>5, <2>2, Numbers
  <2> QED
    BY <2>1, <2>2
<1>7. ScheduleOK'
  <2>1. submitted' \in [Both -> 0 .. MaxValue]
    BY <1>3 DEF ScheduleOK
  <2>2. position' \in [Queues -> Nat]
    <3>1. n + 2 \in Nat
      OBVIOUS
    <3> QED
      BY <1>3, <3>1 DEF ScheduleOK
  <2> QED
    BY <1>3, <1>4, <2>1, <2>2 DEF ScheduleOK
<1>8. WorkInv'
  <2>1. ASSUME NEW l \in lists'
        PROVE  l.at < position'[l.queue] /\ \E s \in signals' : s.queue = l.queue /\ l.at < s.at
    <3>1. CASE l \in lists
      <4>1. l.queue \in Both /\ l.at \in Nat /\ position[l.queue] \in Nat
        BY <3>1, Numbers
      <4>2. l.at < position[l.queue] /\ \E s \in signals : s.queue = l.queue /\ l.at < s.at
        BY <3>1 DEF WorkInv
      <4>3. position[l.queue] <= position'[l.queue] /\ position'[l.queue] \in Nat
        BY <1>6, <4>1
      <4> QED
        BY <1>3, <4>1, <4>2, <4>3
    <3>2. CASE l = L
      BY <1>3, <1>4, <1>5, <3>2
    <3> QED
      BY <1>3, <3>1, <3>2
  <2>2. ASSUME NEW s \in signals'
        PROVE  /\ s.fence = WorkFence[s.queue]
               /\ s.at < position'[s.queue]
               /\ reached'[s.fence] < s.value /\ s.value <= submitted'[s.queue]
    <3>1. CASE s \in signals
      <4>1. s.queue \in Both /\ s.at \in Nat /\ s.value \in Nat
        BY <3>1, Numbers
      <4>2. /\ s.fence = WorkFence[s.queue] /\ s.at < position[s.queue]
            /\ reached[s.fence] < s.value /\ s.value <= submitted[s.queue]
        BY <3>1 DEF WorkInv
      <4>3. /\ position[s.queue] \in Nat /\ submitted[s.queue] \in Nat
            /\ position[s.queue] <= position'[s.queue] /\ submitted[s.queue] <= submitted'[s.queue]
            /\ position'[s.queue] \in Nat /\ submitted'[s.queue] \in Nat
        BY <1>6, <4>1, Numbers
      <4>4. s.at < position'[s.queue] /\ s.value <= submitted'[s.queue]
        BY <4>1, <4>2, <4>3
      <4> QED
        BY <1>3, <4>2, <4>4
    <3>2. CASE s = S
      <4>1. reached[WorkFence[q]] <= submitted[q] /\ reached[WorkFence[q]] \in Nat /\ submitted[q] \in Nat
        BY Numbers DEF WorkInv, ReachedInv
      <4>2. reached[WorkFence[q]] < v
        BY <1>1, <4>1
      <4> QED
        BY <1>3, <1>4, <1>5, <3>2, <4>2
    <3> QED
      BY <1>3, <3>1, <3>2
  <2>3. ASSUME NEW s \in signals', NEW r \in signals', s.queue = r.queue, s.at <= r.at
        PROVE  s = r \/ s.value < r.value
    <3>1. CASE s \in signals /\ r \in signals
      BY <2>3, <3>1 DEF WorkInv
    <3>2. CASE s \in signals /\ r = S
      <4>1. s.value <= submitted[s.queue] /\ s.value \in Nat /\ submitted[q] \in Nat /\ s.queue = q
        BY <1>4, <2>3, <3>2, Numbers DEF WorkInv
      <4> QED
        BY <1>1, <1>4, <3>2, <4>1
    <3>3. CASE s = S /\ r \in signals
      <4>1. r.at < position[q] /\ r.at \in Nat
        BY <1>4, <2>3, <3>3, Numbers DEF WorkInv
      <4> QED
        BY <1>1, <1>4, <2>3, <3>3, <4>1
    <3>4. CASE s = S /\ r = S
      BY <3>4
    <3> QED
      BY <1>3, <3>1, <3>2, <3>3, <3>4
  <2>4. ASSUME NEW p \in Both PROVE reached'[WorkFence[p]] <= submitted'[p]
    <3>1. reached[WorkFence[p]] <= submitted[p] /\ reached[WorkFence[p]] \in Nat /\ submitted[p] \in Nat
      BY Numbers DEF WorkInv, ReachedInv
    <3>2. submitted[p] <= submitted'[p] /\ submitted'[p] \in Nat
      BY <1>6
    <3> QED
      BY <1>3, <3>1, <3>2
  <2> QED
    BY <2>1, <2>2, <2>3, <2>4 DEF WorkInv, ReachedInv
<1>9. WaitInv'
  <2>1. waiting.at = "not" /\ waiting.on = "direct"
    BY <1>3 DEF WaitInv
  <2> QED
    BY <1>3, <2>1 DEF WaitInv
<1>10. EventInv'
  <2>1. waiting.at = "not"
    BY <1>3 DEF WaitInv
  <2> QED
    BY <1>3, <2>1 DEF EventInv
<1> QED
  BY <1>7, <1>8, <1>9, <1>10

-----------------------------------------------------------------------------
(* wait_all.                                                               *)

(* Nothing is registered, set or blocked on.                               *)
AllQuiet ==
  /\ \A g \in Fences, u \in 0 .. MaxValue : armed[g][u] = 0
  /\ \A g \in Fences : ~flag[g]
  /\ \A t \in Threads : blocked[t] = NoFence

LEMMA Quiet ==
  ASSUME EventInv, waiting.at \in {"not", "asking"}
  PROVE  AllQuiet
BY DEF EventInv, AllQuiet

LEMMA QuietIsEnough ==
  ASSUME AllQuiet, waiting.at # "blocked"
  PROVE  EventInv
BY DEF EventInv, AllQuiet

(* The thread goes on once a fence has completed, with its events as they  *)
(* were before; it lets go of the lock only when both have.                *)
LEMMA GoesOnKeeps ==
  ASSUME ScheduleInv, holder # Nobody, GoesOn,
         reached[WorkFence[waiting.on]] >= submitted[waiting.on],
         UNCHANGED <<submitted, lists, signals, position, reached>>,
         armed' \in [Fences -> [0 .. MaxValue -> Nat]],
         flag' \in [Fences -> BOOLEAN],
         blocked' \in [Threads -> Fences \cup {NoFence}],
         AllQuiet'
  PROVE  /\ ScheduleInv'
         /\ holder' = Nobody => \A q \in Both : reached[WorkFence[q]] >= submitted[q]
<1> USE DEF ScheduleInv
<1>1. waiting.on \in Both /\ holder \in Threads
  BY DEF ScheduleOK
<1>2. \/ /\ waiting.on = "direct" /\ holder' = holder
         /\ waiting' = [at |-> "asking", on |-> "compute"]
      \/ /\ waiting.on = "compute" /\ holder' = Nobody
         /\ waiting' = [at |-> "not", on |-> "direct"]
  BY <1>1 DEF GoesOn, Both
<1>3. /\ waiting' \in [at : {"not", "asking", "registered", "blocked"}, on : Both]
      /\ holder' \in Threads \cup {Nobody}
  BY <1>1, <1>2 DEF Both
<1>4. ScheduleOK'
  BY <1>3 DEF ScheduleOK
<1>5. WorkInv'
  BY DEF WorkInv, ReachedInv
<1>6. WaitInv'
  BY <1>2 DEF WaitInv
<1>7. EventInv'
  BY <1>2 DEF EventInv, AllQuiet
<1>8. ASSUME holder' = Nobody PROVE \A q \in Both : reached[WorkFence[q]] >= submitted[q]
  BY <1>2, <1>8 DEF WaitInv, Both
<1> QED
  BY <1>4, <1>5, <1>6, <1>7, <1>8

LEMMA StartsWaiting ==
  ASSUME ScheduleInv, NEW t \in Threads, WaitAll(t)
  PROVE  ScheduleInv'
<1> USE DEF ScheduleInv
<1>1. /\ holder = Nobody /\ holder' = t
      /\ waiting' = [at |-> "asking", on |-> "direct"]
      /\ UNCHANGED <<submitted, lists, signals, position, reached, armed, flag, blocked>>
  BY DEF WaitAll, fenceVars, gpuVars
<1>2. ScheduleOK'
  BY <1>1 DEF ScheduleOK, Both
<1>3. WorkInv'
  BY <1>1 DEF WorkInv, ReachedInv
<1>4. WaitInv'
  BY <1>1, WorkFences DEF WaitInv
<1>5. EventInv'
  <2>1. AllQuiet
    BY <1>1, Quiet DEF WaitInv
  <2> QED
    BY <1>1, <2>1 DEF EventInv, AllQuiet
<1> QED
  BY <1>2, <1>3, <1>4, <1>5

AllDone == \A q \in Both : reached[WorkFence[q]] >= submitted[q]

LEMMA Asking ==
  ASSUME ScheduleInv, AsksFence
  PROVE  ScheduleInv' /\ (holder' = Nobody => AllDone)
<1> USE DEF ScheduleInv
<1>1. PICK q \in Both : q = waiting.on
  BY DEF ScheduleOK
<1>2. PICK f \in Fences, v \in Nat : f = WorkFence[q] /\ v = submitted[q] /\ v <= MaxValue /\ reached[f] \in Nat
  BY Numbers
<1>3. waiting.at = "asking" /\ holder # Nobody /\ submitted' = submitted
  BY DEF AsksFence, WaitInv
<1>4. AllQuiet
  BY <1>3, Quiet
<1>5. CASE GoesOn /\ UNCHANGED fenceVars /\ reached[f] >= v
  <2>1. UNCHANGED <<lists, signals, position, reached, armed, flag, blocked>>
    BY <1>5 DEF fenceVars, gpuVars
  <2>2. AllQuiet'
    BY <1>4, <2>1 DEF AllQuiet
  <2>3. /\ armed' \in [Fences -> [0 .. MaxValue -> Nat]]
        /\ flag' \in [Fences -> BOOLEAN]
        /\ blocked' \in [Threads -> Fences \cup {NoFence}]
    BY <2>1 DEF ScheduleOK
  <2> QED
    BY <1>1, <1>2, <1>3, <1>5, <2>1, <2>2, <2>3, GoesOnKeeps DEF AllDone
<1>6. CASE ~Completed(f, v) /\ E!Register(f, v) /\ UNCHANGED <<lists, signals, position>>
           /\ waiting' = [waiting EXCEPT !.at = "registered"] /\ holder' = holder
  <2>1. /\ armed' = [armed EXCEPT ![f][v] = @ + 1]
        /\ UNCHANGED <<submitted, holder, lists, signals, position, reached, flag, blocked>>
    BY <1>3, <1>6 DEF E!Register
  <2>2. /\ armed'[f][v] = 1
        /\ \A g \in Fences, u \in 0 .. MaxValue : g # f \/ u # v => armed'[g][u] = 0
        /\ armed' \in [Fences -> [0 .. MaxValue -> Nat]]
    <3>1. v \in 0 .. MaxValue /\ armed \in [Fences -> [0 .. MaxValue -> Nat]]
      BY <1>2, WorkFences DEF ScheduleOK
    <3>2. \A g \in Fences : armed[g] \in [0 .. MaxValue -> Nat]
      BY <3>1
    <3>3. \A g \in Fences : armed'[g] = IF g = f THEN [armed[f] EXCEPT ![v] = @ + 1] ELSE armed[g]
      BY <2>1, <3>1
    <3>4. armed'[f][v] = 1 /\ \A u \in 0 .. MaxValue : u # v => armed'[f][u] = 0
      <4>1. PICK old \in [0 .. MaxValue -> Nat] : old = armed[f]
        BY <3>2
      <4>2. \A u \in 0 .. MaxValue : old[u] = 0
        BY <1>4, <4>1 DEF AllQuiet
      <4>3. PICK new : new = [old EXCEPT ![v] = old[v] + 1]
        OBVIOUS
      <4>4. new[v] = 1 /\ \A u \in 0 .. MaxValue : u # v => new[u] = 0
        BY <3>1, <4>2, <4>3
      <4>5. armed'[f] = new
        BY <3>3, <4>1, <4>3
      <4> QED
        BY <4>4, <4>5
    <3>5. armed' \in [Fences -> [0 .. MaxValue -> Nat]]
      <4>1. [armed[f] EXCEPT ![v] = @ + 1] \in [0 .. MaxValue -> Nat]
        <5>1. PICK old \in [0 .. MaxValue -> Nat] : old = armed[f]
          BY <3>2
        <5>2. old[v] + 1 \in Nat
          BY <3>1
        <5>3. [old EXCEPT ![v] = old[v] + 1] \in [0 .. MaxValue -> Nat]
          BY <5>2
        <5> QED
          BY <5>1, <5>3
      <4> QED
        BY <2>1, <3>1, <4>1
    <3> QED
      BY <1>4, <3>3, <3>4, <3>5 DEF AllQuiet
  <2>3. /\ waiting'.at = "registered" /\ waiting'.on = q
        /\ waiting' \in [at : {"not", "asking", "registered", "blocked"}, on : Both]
    BY <1>1, <1>6 DEF ScheduleOK
  <2>4. ScheduleOK'
    BY <2>1, <2>2, <2>3 DEF ScheduleOK
  <2>5. WorkInv'
    BY <2>1 DEF WorkInv, ReachedInv
  <2>6. WaitInv'
    BY <1>1, <1>3, <2>1, <2>3 DEF WaitInv
  <2>7. EventInv'
    BY <1>2, <1>4, <2>1, <2>2, <2>3 DEF EventInv, AllQuiet
  <2> QED
    BY <1>3, <2>1, <2>4, <2>5, <2>6, <2>7
<1>7. WaitedFor(q) = v
  BY <1>2 DEF WaitedFor
<1> QED
  BY <1>1, <1>2, <1>5, <1>6, <1>7 DEF AsksFence, Passes, Registers, Completed

LEMMA Waiting ==
  ASSUME ScheduleInv, WaitsForFence
  PROVE  ScheduleInv' /\ (holder' = Nobody => AllDone)
<1> USE DEF ScheduleInv
<1>1. PICK q \in Both : q = waiting.on
  BY DEF ScheduleOK
<1>2. PICK f \in Fences, v \in Nat : f = WorkFence[q] /\ v = submitted[q] /\ v <= MaxValue /\ reached[f] \in Nat
  BY Numbers
<1>3. /\ waiting.at = "registered" /\ holder # Nobody /\ holder \in Threads /\ submitted' = submitted
  BY DEF WaitsForFence, WaitInv, ScheduleOK
<1>4. CASE FindsSet(f) /\ GoesOn
  <2>1. /\ flag[f] /\ flag' = [flag EXCEPT ![f] = FALSE]
        /\ UNCHANGED <<lists, signals, position, reached, armed, blocked>>
    BY <1>4 DEF FindsSet, E!PassAtOnce
  <2>2. /\ armed[f][v] = 0 /\ reached[f] >= v
        /\ \A g \in Fences : flag[g] => g = f
    BY <1>1, <1>2, <2>1 DEF EventInv
  <2>3. AllQuiet'
    <3>1. \A g \in Fences, u \in 0 .. MaxValue : armed[g][u] = 0
      BY <1>1, <1>2, <2>2 DEF EventInv
    <3>2. \A g \in Fences : flag'[g] = (IF g = f THEN FALSE ELSE flag[g])
      BY <2>1 DEF ScheduleOK
    <3>3. \A t \in Threads : blocked[t] = NoFence
      BY <1>3 DEF EventInv
    <3> QED
      BY <2>1, <2>2, <3>1, <3>2, <3>3 DEF AllQuiet
  <2>4. /\ armed' \in [Fences -> [0 .. MaxValue -> Nat]]
        /\ flag' \in [Fences -> BOOLEAN]
        /\ blocked' \in [Threads -> Fences \cup {NoFence}]
    BY <2>1 DEF ScheduleOK
  <2> QED
    BY <1>1, <1>2, <1>3, <1>4, <2>1, <2>2, <2>3, <2>4, GoesOnKeeps DEF AllDone
<1>5. CASE Blocks(holder, f) /\ waiting' = [waiting EXCEPT !.at = "blocked"] /\ holder' = holder
  <2>1. /\ ~flag[f] /\ blocked' = [blocked EXCEPT ![holder] = f]
        /\ UNCHANGED <<submitted, holder, lists, signals, position, reached, armed, flag>>
    BY <1>3, <1>5 DEF Blocks, E!Block
  <2>2. /\ waiting'.at = "blocked" /\ waiting'.on = q
        /\ waiting' \in [at : {"not", "asking", "registered", "blocked"}, on : Both]
    BY <1>1, <1>5 DEF ScheduleOK
  <2>3. ScheduleOK'
    BY <2>1, <2>2 DEF ScheduleOK
  <2>4. WorkInv'
    BY <2>1 DEF WorkInv, ReachedInv
  <2>5. WaitInv'
    BY <1>1, <1>3, <2>1, <2>2 DEF WaitInv
  <2>6. EventInv'
    <3>1. /\ blocked'[holder] = f /\ f # NoFence
          /\ \A t \in Threads : t # holder => blocked'[t] = NoFence
      <4>1. \A t \in Threads : blocked[t] = NoFence
        BY <1>3 DEF EventInv
      <4>2. \A t \in Threads : blocked'[t] = (IF t = holder THEN f ELSE blocked[t])
        BY <2>1 DEF ScheduleOK
      <4> QED
        BY <1>3, <4>1, <4>2, WorkFences
    <3>2. \A g \in Fences : ~flag'[g]
      BY <1>1, <1>2, <2>1 DEF EventInv
    <3>3. \A g \in Fences, u \in 0 .. MaxValue : armed'[g][u] # 0 => g = f /\ u = v /\ armed'[g][u] = 1
      BY <1>1, <1>2, <2>1 DEF EventInv
    <3>4. f = WorkFence[waiting'.on] /\ v = submitted'[waiting'.on] /\ holder' = holder
      BY <1>2, <2>1, <2>2
    <3> QED
      BY <2>2, <3>1, <3>2, <3>3, <3>4 DEF EventInv
  <2> QED
    BY <1>3, <2>1, <2>3, <2>4, <2>5, <2>6
<1> QED
  BY <1>1, <1>2, <1>4, <1>5 DEF WaitsForFence

LEMMA Waking ==
  ASSUME ScheduleInv, WakesUp
  PROVE  ScheduleInv' /\ (holder' = Nobody => AllDone)
<1> USE DEF ScheduleInv
<1>1. /\ waiting.at = "blocked" /\ blocked[holder] = NoFence /\ GoesOn
      /\ UNCHANGED <<submitted, lists, signals, position, reached, armed, flag, blocked>>
  BY DEF WakesUp, IsAwake, fenceVars, gpuVars
<1>2. /\ holder # Nobody
      /\ armed[WorkFence[waiting.on]][submitted[waiting.on]] = 0
      /\ reached[WorkFence[waiting.on]] >= submitted[waiting.on]
  BY <1>1 DEF WaitInv, EventInv
<1>3. AllQuiet
  BY <1>1, <1>2 DEF EventInv, AllQuiet
<1>4. AllQuiet'
  BY <1>1, <1>3 DEF AllQuiet
<1>5. /\ armed' \in [Fences -> [0 .. MaxValue -> Nat]]
      /\ flag' \in [Fences -> BOOLEAN]
      /\ blocked' \in [Threads -> Fences \cup {NoFence}]
  BY <1>1 DEF ScheduleOK
<1> QED
  BY <1>1, <1>2, <1>4, <1>5, GoesOnKeeps DEF AllDone

-----------------------------------------------------------------------------
(* The GPU and the events.                                                 *)

LEMMA ListsFinish ==
  ASSUME ScheduleInv, ListDone, UNCHANGED scheduleVars
  PROVE  ScheduleInv'
<1> USE DEF ScheduleInv
<1>1. /\ lists' \subseteq lists
      /\ UNCHANGED <<submitted, holder, waiting, signals, position, reached, armed, flag, blocked>>
  BY DEF ListDone, ListFinishes, ownVars, scheduleVars
<1>2. ScheduleOK'
  BY <1>1 DEF ScheduleOK
<1>3. WorkInv'
  BY <1>1 DEF WorkInv, ReachedInv
<1>4. WaitInv' /\ EventInv'
  BY <1>1 DEF WaitInv, EventInv
<1> QED
  BY <1>2, <1>3, <1>4

LEMMA FencesAreReached ==
  ASSUME ScheduleInv, GpuSignals, UNCHANGED scheduleVars
  PROVE  ScheduleInv'
<1> USE DEF ScheduleInv
<1>1. PICK s \in signals :
        /\ Foremost(s)
        /\ signals' = signals \ {s}
        /\ reached' = [reached EXCEPT ![s.fence] = s.value]
        /\ UNCHANGED <<submitted, holder, waiting, lists, position, armed, flag, blocked>>
  BY DEF GpuSignals, SignalReached, ownVars, scheduleVars
<1>2. PICK p \in Both : p = s.queue
  BY Numbers
<1>3. /\ s.at \in Nat /\ s.value \in Nat /\ s.fence = WorkFence[p] /\ s.fence \in Fences
      /\ reached[s.fence] < s.value /\ s.value <= submitted[p]
      /\ submitted[p] \in Nat
  BY <1>2, Numbers DEF WorkInv
<1>4. \A f \in Fences : /\ reached'[f] = (IF f = s.fence THEN s.value ELSE reached[f])
                        /\ reached[f] \in Nat /\ reached'[f] \in Nat
                        /\ reached[f] <= reached'[f]
  <2>1. \A f \in Fences : reached'[f] = (IF f = s.fence THEN s.value ELSE reached[f])
    BY <1>1, <1>3 DEF ScheduleOK
  <2>2. \A f \in Fences : reached[f] \in Nat
    BY DEF ScheduleOK
  <2> QED
    BY <1>3, <2>1, <2>2
<1>5. ScheduleOK'
  <2>1. reached' \in [Fences -> Nat]
    BY <1>1, <1>3 DEF ScheduleOK
  <2> QED
    BY <1>1, <2>1 DEF ScheduleOK
<1>6. WorkInv'
  <2>1. ASSUME NEW l \in lists'
        PROVE  l.at < position'[l.queue] /\ \E r \in signals' : r.queue = l.queue /\ l.at < r.at
    <3>1. /\ l \in lists /\ l.at \in Nat /\ l.at < position[l.queue]
      BY <1>1, Numbers DEF WorkInv
    <3>2. PICK r \in signals : r.queue = l.queue /\ l.at < r.at
      BY <3>1 DEF WorkInv
    <3>3. r # s
      <4>1. r = s => l.at >= s.at
        BY <1>1, <3>1, <3>2 DEF Foremost
      <4> QED
        BY <1>3, <3>1, <3>2, <4>1
    <3> QED
      BY <1>1, <3>1, <3>2, <3>3
  <2>2. ASSUME NEW r \in signals'
        PROVE  /\ r.fence = WorkFence[r.queue]
               /\ r.at < position'[r.queue]
               /\ reached'[r.fence] < r.value /\ r.value <= submitted'[r.queue]
    <3>1. /\ r \in signals /\ r # s /\ r.queue \in Both /\ r.at \in Nat /\ r.value \in Nat /\ r.fence \in Fences
      BY <1>1, Numbers
    <3>2. /\ r.fence = WorkFence[r.queue] /\ r.at < position[r.queue]
          /\ reached[r.fence] < r.value /\ r.value <= submitted[r.queue]
      BY <3>1 DEF WorkInv
    <3>3. ASSUME r.fence = s.fence PROVE s.value < r.value
      <4>1. r.queue = p
        BY <1>3, <3>1, <3>2, <3>3, WorkFences
      <4>2. r.at >= s.at
        BY <1>1, <1>2, <3>1, <4>1 DEF Foremost
      <4> QED
        BY <1>2, <1>3, <3>1, <4>1, <4>2 DEF WorkInv
    <3>4. reached'[r.fence] < r.value
      BY <1>4, <3>1, <3>2, <3>3
    <3> QED
      BY <1>1, <3>2, <3>4
  <2>3. \A r, o \in signals' : r.queue = o.queue /\ r.at <= o.at => r = o \/ r.value < o.value
    BY <1>1 DEF WorkInv
  <2>4. ASSUME NEW q \in Both PROVE reached'[WorkFence[q]] <= submitted'[q]
    <3>1. CASE q = p
      BY <1>1, <1>3, <1>4, <3>1
    <3>2. CASE q # p
      <4>1. WorkFence[q] # s.fence /\ WorkFence[q] \in Fences
        BY <1>3, <3>2, WorkFences
      <4>2. reached'[WorkFence[q]] = reached[WorkFence[q]]
        BY <1>4, <4>1
      <4> QED
        BY <1>1, <4>2 DEF WorkInv, ReachedInv
    <3> QED
      BY <3>1, <3>2
  <2> QED
    BY <2>1, <2>2, <2>3, <2>4 DEF WorkInv, ReachedInv
<1>7. /\ "direct" \in Both /\ WorkFence["direct"] \in Fences /\ submitted["direct"] \in Nat
      /\ waiting.on \in Both /\ WorkFence[waiting.on] \in Fences /\ submitted[waiting.on] \in Nat
  <2>1. "direct" \in Both /\ waiting.on \in Both
    BY DEF Both, ScheduleOK
  <2> QED
    BY <2>1, Numbers
<1>8. WaitInv'
  <2>1. reached[WorkFence["direct"]] >= submitted["direct"] => reached'[WorkFence["direct"]] >= submitted["direct"]
    BY <1>4, <1>7
  <2> QED
    BY <1>1, <2>1 DEF WaitInv
<1>9. EventInv'
  <2>1. reached[WorkFence[waiting.on]] >= submitted[waiting.on] => reached'[WorkFence[waiting.on]] >= submitted[waiting.on]
    BY <1>4, <1>7
  <2> QED
    BY <1>1, <2>1 DEF EventInv
<1> QED
  BY <1>5, <1>6, <1>8, <1>9

LEMMA EventsFire ==
  ASSUME ScheduleInv, EventFires, UNCHANGED scheduleVars
  PROVE  ScheduleInv'
<1> USE DEF ScheduleInv
<1>1. PICK f \in Fences, v \in 0 .. MaxValue : E!Fire(f, v) /\ UNCHANGED <<lists, signals, position>>
  BY DEF EventFires
<1>2. /\ armed[f][v] > 0 /\ reached[f] >= v
      /\ armed' = [armed EXCEPT ![f][v] = @ - 1]
      /\ UNCHANGED <<submitted, holder, waiting, lists, signals, position, reached>>
  BY <1>1 DEF E!Fire, E!Completed, scheduleVars
<1>3. /\ waiting.at \in {"registered", "blocked"} /\ armed[f][v] = 1
      /\ f = WorkFence[waiting.on] /\ v = submitted[waiting.on]
  <2>1. armed[f][v] # 0
    BY <1>2
  <2> QED
    BY <2>1 DEF EventInv
<1>4. holder \in Threads /\ holder # Nobody
  BY <1>3 DEF WaitInv, ScheduleOK
<1>5. /\ \A g \in Fences, u \in 0 .. MaxValue : armed'[g][u] = 0
      /\ armed' \in [Fences -> [0 .. MaxValue -> Nat]]
  <2>1. armed \in [Fences -> [0 .. MaxValue -> Nat]]
    BY DEF ScheduleOK
  <2>2. \A g \in Fences, u \in 0 .. MaxValue :
          armed'[g][u] = IF g = f /\ u = v THEN armed[f][v] - 1 ELSE armed[g][u]
    BY <1>2, <2>1
  <2>3. armed' \in [Fences -> [0 .. MaxValue -> Nat]]
    BY <1>2, <1>3, <2>1
  <2>4. \A g \in Fences, u \in 0 .. MaxValue : g # f \/ u # v => armed[g][u] = 0
    BY <1>3 DEF EventInv
  <2> QED
    BY <1>3, <2>2, <2>3, <2>4
<1>6. WorkInv' /\ WaitInv'
  BY <1>2 DEF WorkInv, ReachedInv, WaitInv
<1>7. CASE {t \in Threads : blocked[t] = f} = {}
  <2>1. flag' = [flag EXCEPT ![f] = TRUE] /\ blocked' = blocked
    BY <1>1, <1>7 DEF E!Fire
  <2>2. waiting.at = "registered"
    <3>1. waiting.at = "blocked" => blocked[holder] = NoFence
      BY <1>3, <1>4, <1>7 DEF EventInv
    <3> QED
      BY <1>3, <3>1 DEF EventInv
  <2>3. ScheduleOK'
    BY <1>2, <1>5, <2>1 DEF ScheduleOK
  <2>4. \A g \in Fences : flag'[g] => g = f
    BY <1>3, <2>1 DEF ScheduleOK, EventInv
  <2>5. EventInv'
    <3>1. /\ f = WorkFence[waiting'.on] /\ v = submitted'[waiting'.on] /\ waiting'.at = "registered"
          /\ reached'[f] >= v
      BY <1>2, <1>3, <2>2
    <3>2. \A t \in Threads : blocked'[t] = NoFence
      BY <2>1, <2>2 DEF EventInv
    <3> QED
      BY <1>5, <2>4, <3>1, <3>2 DEF EventInv
  <2> QED
    BY <1>6, <2>3, <2>5
<1>8. CASE {t \in Threads : blocked[t] = f} # {}
  <2>1. PICK t \in Threads : blocked[t] = f /\ blocked' = [blocked EXCEPT ![t] = NoFence] /\ flag' = flag
    BY <1>1, <1>8 DEF E!Fire
  <2>2. t = holder /\ waiting.at = "blocked"
    BY <2>1, WorkFences DEF EventInv
  <2>3. ScheduleOK'
    BY <1>2, <1>5, <2>1 DEF ScheduleOK
  <2>4. \A o \in Threads : blocked'[o] = NoFence
    <3>1. \A o \in Threads : o # t => blocked[o] = NoFence
      BY <2>2 DEF EventInv
    <3> QED
      BY <2>1, <3>1 DEF ScheduleOK
  <2>5. \A g \in Fences : ~flag'[g]
    BY <2>1, <2>2 DEF EventInv
  <2>6. EventInv'
    <3>1. /\ f = WorkFence[waiting'.on] /\ v = submitted'[waiting'.on] /\ waiting'.at = "blocked"
          /\ reached'[f] >= v
      BY <1>2, <1>3, <2>2
    <3> QED
      BY <1>5, <2>4, <2>5, <3>1 DEF EventInv
  <2> QED
    BY <1>6, <2>3, <2>6
<1> QED
  BY <1>7, <1>8

-----------------------------------------------------------------------------
LEMMA ScheduleStep ==
  ASSUME ScheduleInv, ScheduleNext
  PROVE  ScheduleInv' /\ (holder # Nobody /\ holder' = Nobody => AllDone)
<1>1. ASSUME NEW t \in Threads, WaitAll(t) PROVE ScheduleInv' /\ holder' # Nobody
  BY <1>1, StartsWaiting, WorkFences DEF WaitAll
<1>2. ASSUME NEW t \in Threads, NEW q \in Both, Submit(t, q) PROVE ScheduleInv' /\ holder = Nobody
  BY <1>2, Submits DEF Submit
<1>3. ASSUME WaitStep PROVE ScheduleInv' /\ (holder' = Nobody => AllDone)
  BY <1>3, Asking, Waiting, Waking DEF WaitStep
<1>4. ASSUME ListDone \/ GpuSignals \/ EventFires, UNCHANGED scheduleVars
      PROVE  ScheduleInv' /\ holder' = holder
  BY <1>4, ListsFinish, FencesAreReached, EventsFire DEF scheduleVars
<1> QED
  BY <1>1, <1>2, <1>3, <1>4, WorkFences DEF ScheduleNext

(* Only the scheduler has a lock to give back.                             *)
LEMMA Step ==
  ASSUME IInv, [Next]_vars
  PROVE  /\ IInv'
         /\ user # "schedule" \/ UNCHANGED vars => holder' = holder
         /\ user = "schedule" /\ holder # Nobody /\ holder' = Nobody => AllDone
<1>1. CASE Chunked
  BY <1>1 DEF Chunked, IInv, scheduleVars
<1>2. CASE Scheduled
  BY <1>2, ScheduleStep DEF Scheduled, IInv, vars, scheduleVars
<1>3. CASE Reduced
  BY <1>3 DEF Reduced, IInv, scheduleVars
<1>4. CASE UNCHANGED vars
  <2>1. UNCHANGED <<submitted, holder, waiting, lists, signals, position, reached, armed, flag, blocked, user>>
    BY <1>4 DEF vars, scheduleVars, fenceVars, gpuVars
  <2>2. ScheduleInv => ScheduleInv'
    BY <2>1 DEF ScheduleInv, ScheduleOK, WorkInv, ReachedInv, WaitInv, EventInv
  <2> QED
    BY <2>1, <2>2 DEF IInv
<1> QED
  BY <1>1, <1>2, <1>3, <1>4 DEF Next

LEMMA Start == Init => IInv
<1> SUFFICES ASSUME Init PROVE ScheduleInv
  BY DEF IInv
<1>1. /\ lists = {} /\ signals = {} /\ position = [q \in Queues |-> 0] /\ reached = [f \in Fences |-> 0]
      /\ armed = [f \in Fences |-> [v \in 0 .. MaxValue |-> 0]]
      /\ flag = [f \in Fences |-> FALSE] /\ blocked = [t \in Threads |-> NoFence]
      /\ submitted = [q \in Both |-> 0] /\ holder = Nobody /\ waiting = [at |-> "not", on |-> "direct"]
  BY WorkFences DEF Init, FenceInit, GpuInit, E!EventInit, ScheduleInit
<1>2. ScheduleOK
  BY <1>1, WorkFences DEF ScheduleOK, Both
<1>3. WorkInv
  BY <1>1, WorkFences DEF WorkInv, ReachedInv
<1>4. WaitInv
  BY <1>1 DEF WaitInv
<1>5. EventInv
  BY <1>1, WorkFences DEF EventInv
<1> QED
  BY <1>2, <1>3, <1>4, <1>5 DEF ScheduleInv

(* The order of lists and signals, and whose the events are, hold of the   *)
(* scheduler in every behaviour (dxqueue.cpp:27-48, dxsched.cpp:16-36).    *)
THEOREM InductiveInvariant == Spec => []IInv
<1>1. IInv /\ [Next]_vars => IInv'
  BY Step
<1> QED
  BY <1>1, Start, PTL DEF Spec

(* Nothing is submitted and not done, on either queue, as wait_all gives   *)
(* the lock back, for any threads and any order of their calls             *)
(* (dxsched.cpp:16-36).                                                    *)
THEOREM WaitsForEverything == Spec => WaitAllMeansDone
<1>1. ASSUME ScheduleInv, AllDone
      PROVE  lists = {} /\ \A q \in DOMAIN WorkFence : Completed(WorkFence[q], submitted[q])
  <2>1. signals = {}
    <3> SUFFICES ASSUME NEW s \in signals PROVE FALSE
      OBVIOUS
    <3>1. /\ s.queue \in Both /\ s.value \in Nat /\ submitted[s.queue] \in Nat
          /\ reached[s.fence] \in Nat
      BY <1>1, Numbers DEF ScheduleInv, ScheduleOK
    <3>2. s.fence = WorkFence[s.queue] /\ reached[s.fence] < s.value /\ s.value <= submitted[s.queue]
      BY <1>1 DEF ScheduleInv, WorkInv
    <3>3. reached[s.fence] >= submitted[s.queue]
      BY <1>1, <3>1, <3>2 DEF AllDone
    <3> QED
      BY <3>1, <3>2, <3>3
  <2>2. lists = {}
    BY <1>1, <2>1 DEF ScheduleInv, WorkInv
  <2> QED
    BY <1>1, <2>2, WorkFences DEF AllDone, Completed
<1>2. IInv /\ [Next]_vars =>
        [holder # Nobody /\ holder' = Nobody => lists = {} /\ \A q \in DOMAIN WorkFence :
           Completed(WorkFence[q], submitted[q])]_<<scheduleVars, fenceVars>>
  <2> SUFFICES ASSUME IInv, [Next]_vars, holder # Nobody, holder' = Nobody
               PROVE  lists = {} /\ \A q \in DOMAIN WorkFence : Completed(WorkFence[q], submitted[q])
    OBVIOUS
  <2>1. user = "schedule" /\ AllDone
    BY Step
  <2> QED
    BY <1>1, <2>1 DEF IInv
<1> QED
  BY <1>2, InductiveInvariant, PTL DEF Spec, WaitAllMeansDone

-----------------------------------------------------------------------------
(* The chunk streamer.                                                     *)

Late == {"filling", "executing", "counting", "signalling", "asking", "registered", "blocked", "done"}

Begun  == [at : {"mapping", "growing", "picking"}, chunk : Chunks, to : Nat]
Picked == [at : Late, chunk : Chunks, to : Nat, from : {1, 2}, of : Nat]

OnDevice(t) == streaming[t] # AtEase /\ Place[streaming[t].chunk] = "device"

StreamsOK ==
  /\ overlapped \in BOOLEAN
  /\ known \subseteq Chunks
  /\ active \in {0, 1}
  /\ fenceVal \in Nat
  /\ staging \in [size : Nat, holds : [{1, 2} -> Chunks \cup {Nothing}], made : Nat]
  /\ streaming \in [Threads -> {AtEase} \cup Begun \cup Picked]
  /\ \E n \in Nat : target = [i \in 1 .. n |-> target[i]]

(* Every stream has a buffer of its own; one to system memory only maps.   *)
OwnBuffers ==
  \A t \in Busy :
    /\ streaming[t].at = "mapping" <=> ~OnDevice(t)
    /\ streaming[t].to \in DOMAIN target
    /\ \A u \in Busy : streaming[t].to = streaming[u].to => t = u

FencesOK ==
  /\ position \in [Queues -> Nat]
  /\ reached \in [Fences -> Nat]
  /\ armed \in [Fences -> [0 .. MaxValue -> Nat]]
  /\ flag \in [Fences -> BOOLEAN]
  /\ blocked \in [Threads -> Fences \cup {NoFence}]

NoneArmed == \A g \in Fences, u \in 0 .. MaxValue : armed[g][u] = 0
Counted   == signals = {} /\ reached[copyFence] = fenceVal
Idle      == lists = {} /\ Counted /\ AllQuiet

(* The staging buffer of the stream holds its chunk, which is on its way   *)
(* or has come.                                                            *)
Fits(t)    == Size[streaming[t].chunk] <= staging.size
Filled(t)  == streaming[t].of = staging.made /\ staging.holds[streaming[t].from] = streaming[t].chunk
Arrived(t) == lists = {} /\ target[streaming[t].to] = streaming[t].chunk
OnTheWay(t) ==
  \E n \in Nat :
    /\ lists = {[obj |-> Streamer, queue |-> copyQueue, at |-> n]}
    /\ n < position[copyQueue]
    /\ copies[n] = [to |-> streaming[t].to, from |-> streaming[t].from, of |-> streaming[t].of]
Copying(t) == Filled(t) /\ (OnTheWay(t) \/ Arrived(t))

(* The signal of the stream is behind its copy.                            *)
Signalled(t) ==
  \/ Arrived(t) /\ Counted
  \/ /\ Copying(t)
     /\ reached[copyFence] + 1 = fenceVal
     /\ \E m \in Nat :
          /\ signals = {[fence |-> copyFence, value |-> fenceVal, queue |-> copyQueue, at |-> m]}
          /\ \A l \in lists : l.at < m

OnlyItsEvent(t) ==
  /\ \A g \in Fences, u \in 0 .. MaxValue : armed[g][u] # 0 => g = copyFence /\ u = fenceVal /\ armed[g][u] = 1
  /\ \A g \in Fences : flag[g] => At(t, "registered") /\ g = copyFence /\ NoneArmed /\ reached[copyFence] = fenceVal
  /\ \A u \in Threads : blocked[u] # NoFence => At(t, "blocked") /\ u = t /\ blocked[u] = copyFence
  /\ At(t, "blocked") /\ blocked[t] = NoFence => NoneArmed /\ reached[copyFence] = fenceVal

Stage(t) ==
  /\ At(t, "growing") => Idle
  /\ At(t, "picking") => Idle /\ Fits(t)
  /\ At(t, "filling") => Idle /\ Fits(t) /\ streaming[t].of = staging.made
  /\ At(t, "executing") => Idle /\ Filled(t)
  /\ At(t, "counting") => Copying(t) /\ Counted /\ AllQuiet
  /\ At(t, "signalling") => Copying(t) /\ signals = {} /\ reached[copyFence] + 1 = fenceVal /\ AllQuiet
  /\ At(t, "asking") => Signalled(t) /\ AllQuiet
  /\ streaming[t].at \in {"registered", "blocked"} => Signalled(t) /\ OnlyItsEvent(t)
  /\ At(t, "done") => Arrived(t) /\ Counted /\ AllQuiet

(* As long as none overlapped the queue, the fence and the staging buffers *)
(* are those of the one stream to the device.                              *)
AloneInv ==
  /\ FencesOK
  /\ DOMAIN copies = {l.at : l \in lists}
  /\ \A t, u \in Threads : OnDevice(t) /\ OnDevice(u) => t = u
  /\ \A t \in Threads : OnDevice(t) => Stage(t)
  /\ (\A t \in Threads : ~OnDevice(t)) => Idle

ChunkInv == StreamsOK /\ OwnBuffers /\ (overlapped \/ AloneInv)

ChunkIInv == OnlyOverlapSpoils /\ (user = "chunks" => ChunkInv)
-----------------------------------------------------------------------------
LEMMA Copiers ==
  /\ copyQueue \in Queues /\ copyFence \in Fences /\ Streamer \in Objects
  /\ Place \in [Chunks -> {"device", "system"}] /\ Size \in [Chunks -> Nat]
  /\ MaxValue \in Nat /\ NoFence \notin Fences
BY ChunkAssumption, FenceAssumption

LEMMA Streams ==
  ASSUME StreamsOK, NEW t \in Threads
  PROVE  /\ streaming[t] = AtEase <=> streaming[t].at = "ease"
         /\ t \in Busy <=> streaming[t] # AtEase
         /\ streaming[t].at \in Late => streaming[t] \in Picked
         /\ streaming[t].at \in {"mapping", "growing", "picking"} => streaming[t] \in Begun
         /\ t \in Busy => streaming[t] \in Begun \cup Picked /\ streaming[t].chunk \in Chunks
<1>1. streaming[t] \in {AtEase} \cup Begun \cup Picked
  BY DEF StreamsOK
<1>2. AtEase.at = "ease"
  BY DEF AtEase
<1> QED
  BY <1>1, <1>2 DEF Begun, Picked, Late, Busy

(* What a stream that goes on, or ends, leaves of the types.               *)
LEMMA Typed ==
  ASSUME StreamsOK, OwnBuffers, NEW t \in Busy, NEW s \in {AtEase} \cup Begun \cup Picked,
         s # AtEase => /\ s.chunk = streaming[t].chunk /\ s.to = streaming[t].to
                       /\ s.at = "mapping" <=> streaming[t].at = "mapping",
         streaming' = [streaming EXCEPT ![t] = s],
         DOMAIN target' = DOMAIN target
  PROVE  /\ streaming' \in [Threads -> {AtEase} \cup Begun \cup Picked]
         /\ OwnBuffers'
         /\ streaming'[t] = s
         /\ \A u \in Threads \ {t} : streaming'[u] = streaming[u]
         /\ OnDevice(t)' <=> (s # AtEase /\ OnDevice(t))
<1>1. /\ t \in Threads /\ streaming[t] # AtEase
      /\ streaming'[t] = s
      /\ \A u \in Threads \ {t} : streaming'[u] = streaming[u]
      /\ streaming' \in [Threads -> {AtEase} \cup Begun \cup Picked]
  BY DEF StreamsOK, Busy
<1>2. OnDevice(t)' <=> (s # AtEase /\ OnDevice(t))
  BY <1>1 DEF OnDevice
<1>3. \A u \in Threads \ {t} : (u \in Busy' <=> u \in Busy) /\ (OnDevice(u)' <=> OnDevice(u))
  BY <1>1 DEF Busy, OnDevice
<1>4. t \in Busy' <=> s # AtEase
  BY <1>1 DEF Busy
<1>5. Busy' \subseteq Busy
  BY <1>3, <1>4 DEF Busy
<1>6. ASSUME NEW u \in Busy'
      PROVE  /\ u \in Busy /\ u \in Threads
             /\ streaming'[u].to = streaming[u].to
             /\ streaming'[u].at = "mapping" <=> streaming[u].at = "mapping"
             /\ OnDevice(u)' <=> OnDevice(u)
  <2>1. CASE u = t
    BY <1>1, <1>2, <1>4, <2>1
  <2>2. CASE u # t
    BY <1>1, <1>3, <1>5, <2>2 DEF Busy
  <2> QED
    BY <2>1, <2>2
<1>7. OwnBuffers'
  <2>1. ASSUME NEW u \in Busy', NEW w \in Busy', streaming'[u].to = streaming'[w].to PROVE u = w
    BY <1>6, <2>1 DEF OwnBuffers
  <2>2. ASSUME NEW u \in Busy'
        PROVE  (streaming'[u].at = "mapping" <=> ~OnDevice(u)') /\ streaming'[u].to \in DOMAIN target'
    BY <1>6, <2>2 DEF OwnBuffers
  <2> QED
    BY <2>1, <2>2 DEF OwnBuffers
<1> QED
  BY <1>1, <1>2, <1>7

(* A stage that depends on nothing that changed.                           *)
LEMMA Kept ==
  ASSUME NEW u \in Threads, streaming'[u] = streaming[u], UNCHANGED <<staging, fenceVal, copies, fenceVars>>,
         target'[streaming[u].to] = target[streaming[u].to]
  PROVE  /\ OnDevice(u)' <=> OnDevice(u)
         /\ Stage(u) => Stage(u)'
<1>1. UNCHANGED <<lists, signals, position, reached, armed, flag, blocked, staging, fenceVal, copies>>
  BY DEF fenceVars, gpuVars
<1>2. OnDevice(u)' <=> OnDevice(u)
  BY DEF OnDevice
<1>3. (AllQuiet' <=> AllQuiet) /\ (Counted' <=> Counted) /\ (NoneArmed' <=> NoneArmed)
  BY <1>1 DEF AllQuiet, Counted, NoneArmed
<1>4. (Arrived(u)' <=> Arrived(u)) /\ (Filled(u)' <=> Filled(u)) /\ (Fits(u)' <=> Fits(u)) /\ (OnTheWay(u)' <=> OnTheWay(u))
  BY <1>1 DEF Arrived, Filled, Fits, OnTheWay
<1>5. (Copying(u)' <=> Copying(u)) /\ (Idle' <=> Idle)
  BY <1>1, <1>3, <1>4 DEF Copying, Idle
<1>6. Signalled(u)' <=> Signalled(u)
  BY <1>1, <1>3, <1>4, <1>5 DEF Signalled
<1>7. OnlyItsEvent(u)' <=> OnlyItsEvent(u)
  BY <1>1, <1>3 DEF OnlyItsEvent, At
<1> QED
  BY <1>1, <1>2, <1>3, <1>4, <1>5, <1>6, <1>7 DEF Stage, At

(* A step of a thread that is, and was, no stream to the device.           *)
LEMMA Bystander ==
  ASSUME AloneInv, NEW t \in Threads, ~OnDevice(t), ~OnDevice(t)',
         \A u \in Threads \ {t} : streaming'[u] = streaming[u],
         \A u \in Threads : OnDevice(u) => target'[streaming[u].to] = target[streaming[u].to],
         UNCHANGED <<staging, fenceVal, copies, fenceVars>>
  PROVE  AloneInv'
<1>1. \A u \in Threads : OnDevice(u)' <=> OnDevice(u)
  BY DEF OnDevice
<1>2. \A u \in Threads : OnDevice(u) => Stage(u)'
  BY Kept DEF AloneInv
<1>3. UNCHANGED <<lists, signals, position, reached, armed, flag, blocked, fenceVal, copies>>
  BY DEF fenceVars, gpuVars
<1>4. FencesOK' /\ (Idle => Idle') /\ DOMAIN copies' = {l.at : l \in lists'}
  BY <1>3 DEF AloneInv, FencesOK, Idle, Counted, AllQuiet
<1> QED
  BY <1>1, <1>2, <1>4 DEF AloneInv

(* A step of the only stream to the device.                                *)
LEMMA Advances ==
  ASSUME AloneInv, NEW t \in Threads, OnDevice(t), OnDevice(t)',
         \A u \in Threads \ {t} : streaming'[u] = streaming[u],
         FencesOK', DOMAIN copies' = {l.at : l \in lists'}, Stage(t)'
  PROVE  AloneInv'
<1>1. \A u \in Threads : OnDevice(u)' <=> OnDevice(u)
  BY DEF OnDevice
<1> QED
  BY <1>1 DEF AloneInv

LEMMA StandsAlone ==
  ASSUME AloneInv, NEW t \in Threads, OnDevice(t)
  PROVE  /\ Stage(t)
         /\ \A u \in Threads : OnDevice(u) => u = t
BY DEF AloneInv

LEMMA FencesStay ==
  ASSUME AloneInv, UNCHANGED <<copies, fenceVars>>
  PROVE  /\ FencesOK' /\ DOMAIN copies' = {l.at : l \in lists'}
         /\ AllQuiet => AllQuiet'
BY DEF AloneInv, FencesOK, fenceVars, gpuVars, AllQuiet
-----------------------------------------------------------------------------
(* The calls.                                                              *)

(* The control of a thread that goes on.                                   *)
LEMMA Going ==
  ASSUME StreamsOK, OwnBuffers, NEW t \in Threads, NEW w,
         \/ streaming[t].at = "growing" /\ w = "picking"
         \/ streaming[t].at \in Late /\ w \in Late,
         Moves(t, w), DOMAIN target' = DOMAIN target
  PROVE  /\ streaming' \in [Threads -> {AtEase} \cup Begun \cup Picked]
         /\ OwnBuffers'
         /\ streaming'[t].at = w /\ streaming'[t].chunk = streaming[t].chunk /\ streaming'[t].to = streaming[t].to
         /\ w \in Late => streaming'[t].from = streaming[t].from /\ streaming'[t].of = streaming[t].of
         /\ \A u \in Threads \ {t} : streaming'[u] = streaming[u]
         /\ OnDevice(t) /\ OnDevice(t)'
<1>1. PICK s : s = [streaming[t] EXCEPT !.at = w]
  OBVIOUS
<1>2. streaming' = [streaming EXCEPT ![t] = s]
  BY <1>1 DEF Moves
<1>3. /\ streaming[t].at # "mapping" /\ t \in Busy
      /\ w \in Late => streaming[t] \in Picked
      /\ w \notin Late => streaming[t] \in Begun
  BY Streams DEF Late
<1>4. /\ s \in Begun \cup Picked /\ s.at = w /\ s.at # "mapping"
      /\ s.chunk = streaming[t].chunk /\ s.to = streaming[t].to
      /\ w \in Late => s.from = streaming[t].from /\ s.of = streaming[t].of
  <2>1. CASE w \in Late
    BY <1>1, <1>3, <2>1 DEF Picked, Late
  <2>2. CASE w \notin Late
    BY <1>1, <1>3, <2>2 DEF Begun
  <2> QED
    BY <2>1, <2>2
<1>5. s # AtEase
  BY <1>4 DEF AtEase, Begun, Picked, Late
<1>6. OnDevice(t)
  BY <1>3 DEF OwnBuffers
<1> QED
  BY <1>2, <1>3, <1>4, <1>5, <1>6, Typed

LEMMA Ending ==
  ASSUME StreamsOK, OwnBuffers, NEW t \in Busy, streaming' = [streaming EXCEPT ![t] = AtEase],
         DOMAIN target' = DOMAIN target
  PROVE  /\ streaming' \in [Threads -> {AtEase} \cup Begun \cup Picked]
         /\ OwnBuffers'
         /\ streaming'[t] = AtEase
         /\ \A u \in Threads \ {t} : streaming'[u] = streaming[u]
         /\ ~OnDevice(t)'
<1>1. PICK s : s = AtEase
  OBVIOUS
<1> QED
  BY <1>1, Typed

LEMMA Registration ==
  ASSUME ChunkInv, NEW c \in Chunks, RegisterChunk(c)
  PROVE  ChunkInv' /\ wrong' = wrong
<1> USE DEF ChunkInv
<1>1. UNCHANGED <<staging, active, fenceVal, streaming, target, copies, wrong, fenceVars>>
  BY DEF RegisterChunk
<1>2. StreamsOK'
  BY <1>1 DEF RegisterChunk, StreamsOK
<1>3. OwnBuffers'
  BY <1>1 DEF OwnBuffers, Busy, OnDevice
<1>4. ASSUME ~overlapped' PROVE AloneInv'
  <2>1. ~overlapped /\ Busy = {}
    BY <1>4 DEF RegisterChunk, StreamsOK
  <2>2. \A t \in Threads : ~OnDevice(t) /\ ~OnDevice(t)'
    BY <1>1, <2>1 DEF OnDevice, Busy
  <2>3. UNCHANGED <<lists, signals, position, reached, armed, flag, blocked, fenceVal, copies>>
    BY <1>1 DEF fenceVars, gpuVars
  <2>4. FencesOK' /\ Idle' /\ DOMAIN copies' = {l.at : l \in lists'}
    BY <2>1, <2>2, <2>3 DEF AloneInv, FencesOK, Idle, Counted, AllQuiet
  <2> QED
    BY <2>2, <2>4 DEF AloneInv
<1> QED
  BY <1>1, <1>2, <1>3, <1>4

LEMMA Beginning ==
  ASSUME ChunkInv, NEW t \in Threads, NEW c \in Chunks, StreamBegins(t, c)
  PROVE  ChunkInv' /\ wrong' = wrong
<1> USE DEF ChunkInv
<1>1. PICK n \in Nat : target = [i \in 1 .. n |-> target[i]]
  BY DEF StreamsOK
<1>2. Len(target) = n /\ DOMAIN target = 1 .. n
  <2>1. target \in Seq({target[i] : i \in 1 .. n})
    <3>1. target \in [1 .. n -> {target[i] : i \in 1 .. n}]
      BY <1>1
    <3> QED
      BY <3>1
  <2>2. DOMAIN target = 1 .. n
    BY <1>1
  <2> QED
    BY <2>1, <2>2
<1>3. /\ target' = Append(target, Nothing)
      /\ target' = [i \in 1 .. n + 1 |-> target'[i]]
      /\ \A i \in 1 .. n : target'[i] = target[i]
      /\ DOMAIN target' = 1 .. n + 1
  <2>1. target \in Seq({target[i] : i \in 1 .. n} \cup {Nothing})
    <3>1. target \in [1 .. n -> {target[i] : i \in 1 .. n} \cup {Nothing}]
      BY <1>1
    <3> QED
      BY <3>1
  <2>2. target' = Append(target, Nothing)
    BY DEF StreamBegins
  <2>3. PICK S, old, new : S = {target[i] : i \in 1 .. n} \cup {Nothing} /\ old = target /\ new = target'
    OBVIOUS
  <2>4. old \in Seq(S) /\ Nothing \in S /\ Len(old) = n /\ new = Append(old, Nothing)
    BY <1>2, <2>1, <2>2, <2>3
  <2>5. new \in Seq(S) /\ Len(new) = n + 1 /\ \A i \in 1 .. n : new[i] = old[i]
    BY <2>4
  <2>6. DOMAIN new = 1 .. n + 1 /\ new = [i \in 1 .. n + 1 |-> new[i]]
    BY <2>5
  <2> QED
    BY <2>2, <2>3, <2>5, <2>6
<1>4. PICK s : s = [at |-> IF Place[c] = "system" THEN "mapping" ELSE "growing", chunk |-> c, to |-> n + 1]
  OBVIOUS
<1>5. /\ streaming' = [streaming EXCEPT ![t] = s]
      /\ streaming[t] = AtEase
      /\ UNCHANGED <<known, staging, active, fenceVal, copies, wrong, fenceVars>>
  BY <1>2, <1>4, Streams DEF StreamBegins, At
<1>6. /\ s \in Begun /\ s.to = n + 1 /\ s # AtEase /\ s.chunk = c
      /\ s.at = IF Place[c] = "system" THEN "mapping" ELSE "growing"
  BY <1>4 DEF Begun, AtEase
<1>7. /\ streaming'[t] = s /\ t \notin Busy /\ t \in Busy'
      /\ \A u \in Threads \ {t} : streaming'[u] = streaming[u]
      /\ streaming' \in [Threads -> {AtEase} \cup Begun \cup Picked]
  BY <1>5, <1>6 DEF StreamsOK, Busy
<1>8. /\ ~OnDevice(t)
      /\ OnDevice(t)' <=> Place[c] = "device"
      /\ s.at = "mapping" <=> ~OnDevice(t)'
  BY <1>5, <1>6, <1>7, Copiers DEF OnDevice
<1>9. overlapped' = (overlapped \/ (Place[c] = "device" /\ \E u \in Busy : Place[streaming[u].chunk] = "device"))
  BY DEF StreamBegins
<1>10. StreamsOK'
  <2>1. n + 1 \in Nat /\ overlapped' \in BOOLEAN
    BY <1>9
  <2> QED
    BY <1>3, <1>5, <1>7, <2>1 DEF StreamsOK
<1>11. OwnBuffers'
  <2>1. ASSUME NEW u \in Busy', u # t
        PROVE  /\ u \in Busy /\ streaming'[u] = streaming[u] /\ (OnDevice(u)' <=> OnDevice(u))
               /\ streaming'[u].to \in 1 .. n
    <3>1. u \in Busy /\ streaming'[u] = streaming[u]
      BY <1>7, <2>1 DEF Busy
    <3> QED
      BY <1>2, <3>1 DEF OwnBuffers, OnDevice
  <2>2. ASSUME NEW u \in Busy'
        PROVE  (streaming'[u].at = "mapping" <=> ~OnDevice(u)') /\ streaming'[u].to \in DOMAIN target'
    <3>1. CASE u = t
      BY <1>3, <1>6, <1>7, <1>8, <3>1
    <3>2. CASE u # t
      BY <1>3, <2>1, <3>2 DEF OwnBuffers
    <3> QED
      BY <3>1, <3>2
  <2>3. ASSUME NEW u \in Busy', NEW w \in Busy', streaming'[u].to = streaming'[w].to PROVE u = w
    <3>1. CASE u = t \/ w = t
      BY <1>6, <1>7, <2>1, <2>3, <3>1
    <3>2. CASE u # t /\ w # t
      BY <2>1, <2>3, <3>2 DEF OwnBuffers
    <3> QED
      BY <3>1, <3>2
  <2> QED
    BY <2>2, <2>3 DEF OwnBuffers
<1>12. ASSUME ~overlapped' PROVE AloneInv'
  <2>1. AloneInv
    BY <1>9, <1>12 DEF StreamsOK
  <2>2. CASE Place[c] # "device"
    <3>1. \A u \in Threads : OnDevice(u) => target'[streaming[u].to] = target[streaming[u].to]
      BY <1>2, <1>3 DEF OwnBuffers, OnDevice, Busy
    <3>2. ~OnDevice(t) /\ ~OnDevice(t)'
      BY <1>8, <2>2
    <3>3. UNCHANGED <<staging, fenceVal, copies, fenceVars>>
      BY <1>5
    <3>4. \A u \in Threads \ {t} : streaming'[u] = streaming[u]
      BY <1>7
    <3> QED
      BY <2>1, <3>1, <3>2, <3>3, <3>4, Bystander
  <2>3. CASE Place[c] = "device"
    <3>1. \A u \in Threads : ~OnDevice(u)
      BY <1>9, <1>12, <2>3 DEF OnDevice, Busy
    <3>2. Idle
      BY <2>1, <3>1 DEF AloneInv
    <3>3. UNCHANGED <<lists, signals, position, reached, armed, flag, blocked, fenceVal, copies>>
      BY <1>5 DEF fenceVars, gpuVars
    <3>4. Idle' /\ FencesOK' /\ DOMAIN copies' = {l.at : l \in lists'}
      BY <2>1, <3>2, <3>3 DEF AloneInv, FencesOK, Idle, Counted, AllQuiet
    <3>5. Stage(t)' /\ OnDevice(t)'
      BY <1>6, <1>7, <1>8, <2>3, <3>4 DEF Stage, At
    <3>6. \A u \in Threads \ {t} : ~OnDevice(u)'
      BY <1>7, <3>1 DEF OnDevice
    <3> QED
      BY <3>4, <3>5, <3>6 DEF AloneInv
  <2> QED
    BY <2>2, <2>3
<1> QED
  BY <1>5, <1>10, <1>11, <1>12
(* A step of a stream to the device that goes on: what is left to show.    *)
LEMMA GoesFurther ==
  ASSUME ChunkInv, NEW t \in Threads, NEW w,
         \/ streaming[t].at = "growing" /\ w = "picking"
         \/ streaming[t].at \in Late /\ w \in Late,
         Moves(t, w), UNCHANGED <<known, active, overlapped>>,
         staging' \in [size : Nat, holds : [{1, 2} -> Chunks \cup {Nothing}], made : Nat],
         fenceVal' \in Nat, target' = target,
         AloneInv /\ Stage(t) => FencesOK' /\ DOMAIN copies' = {l.at : l \in lists'} /\ Stage(t)'
  PROVE  ChunkInv'
<1>1. DOMAIN target' = DOMAIN target
  OBVIOUS
<1>2. /\ streaming' \in [Threads -> {AtEase} \cup Begun \cup Picked]
      /\ OwnBuffers'
      /\ \A u \in Threads \ {t} : streaming'[u] = streaming[u]
      /\ OnDevice(t) /\ OnDevice(t)'
  BY <1>1, Going DEF ChunkInv
<1>3. StreamsOK'
  BY <1>2 DEF ChunkInv, StreamsOK
<1>4. AloneInv => AloneInv'
  BY <1>2, Advances, StandsAlone
<1> QED
  BY <1>2, <1>3, <1>4 DEF ChunkInv

(* ... and of one that ends.                                               *)
LEMMA EndsThere ==
  ASSUME ChunkInv, NEW t \in Busy, streaming' = [streaming EXCEPT ![t] = AtEase],
         UNCHANGED <<known, active, overlapped, staging, fenceVal, copies, fenceVars>>,
         \E n \in Nat : target' = [i \in 1 .. n |-> target'[i]],
         DOMAIN target' = DOMAIN target,
         \A u \in Busy \ {t} : target'[streaming[u].to] = target[streaming[u].to],
         AloneInv /\ OnDevice(t) => Idle
  PROVE  ChunkInv'
<1>1. /\ streaming' \in [Threads -> {AtEase} \cup Begun \cup Picked]
      /\ OwnBuffers'
      /\ streaming'[t] = AtEase
      /\ \A u \in Threads \ {t} : streaming'[u] = streaming[u]
      /\ ~OnDevice(t)'
  BY Ending DEF ChunkInv
<1>2. t \in Threads
  BY DEF Busy
<1>3. StreamsOK'
  BY <1>1 DEF ChunkInv, StreamsOK
<1>4. ASSUME AloneInv PROVE AloneInv'
  <2>1. UNCHANGED <<staging, fenceVal, copies, fenceVars>>
    OBVIOUS
  <2>2. CASE OnDevice(t)
    <3>1. \A u \in Threads : ~OnDevice(u)'
      BY <1>1, <1>4, <2>2 DEF AloneInv, OnDevice
    <3>2. UNCHANGED <<lists, signals, position, reached, armed, flag, blocked, fenceVal, copies>>
      BY <2>1 DEF fenceVars, gpuVars
    <3>3. Idle
      BY <1>4, <2>2
    <3>4. Idle' /\ FencesOK' /\ DOMAIN copies' = {l.at : l \in lists'}
      BY <1>4, <3>2, <3>3 DEF AloneInv, FencesOK, Idle, Counted, AllQuiet
    <3> QED
      BY <3>1, <3>4 DEF AloneInv
  <2>3. CASE ~OnDevice(t)
    <3>1. \A u \in Threads : OnDevice(u) => target'[streaming[u].to] = target[streaming[u].to]
      BY <2>3 DEF OnDevice, Busy
    <3> QED
      BY <1>1, <1>2, <1>4, <2>1, <2>3, <3>1, Bystander
  <2> QED
    BY <2>2, <2>3
<1> QED
  BY <1>1, <1>3, <1>4 DEF ChunkInv

LEMMA SystemCopies ==
  ASSUME ChunkInv, OnlyOverlapSpoils, NEW t \in Threads, CopiesDirectly(t) \/ CopiesNothing(t)
  PROVE  ChunkInv' /\ OnlyOverlapSpoils'
<1>1. /\ streaming[t].at = "mapping" /\ t \in Busy /\ ~OnDevice(t)
      /\ streaming[t].to \in DOMAIN target
  BY Streams DEF ChunkInv, OwnBuffers, CopiesDirectly, CopiesNothing, At
<1>2. /\ streaming' = [streaming EXCEPT ![t] = AtEase]
      /\ UNCHANGED <<known, active, overlapped, staging, fenceVal, copies, fenceVars>>
  BY DEF CopiesDirectly, CopiesNothing, Gives
<1>3. PICK n \in Nat : target = [i \in 1 .. n |-> target[i]]
  BY DEF ChunkInv, StreamsOK
<1>4. CASE CopiesDirectly(t)
  <2>1. PICK k : k = streaming[t].to
    OBVIOUS
  <2>2. target' = [target EXCEPT ![k] = streaming[t].chunk]
    BY <1>4, <2>1 DEF CopiesDirectly
  <2>3. /\ DOMAIN target' = 1 .. n /\ DOMAIN target = 1 .. n /\ k \in 1 .. n
        /\ target'[k] = streaming[t].chunk
        /\ \A i \in 1 .. n : i # k => target'[i] = target[i]
        /\ target' = [i \in 1 .. n |-> target'[i]]
    BY <1>1, <1>3, <2>1, <2>2
  <2>4. \A u \in Busy \ {t} : target'[streaming[u].to] = target[streaming[u].to]
    BY <1>1, <2>1, <2>3 DEF ChunkInv, OwnBuffers
  <2>5. ChunkInv'
    BY <1>1, <1>2, <2>3, <2>4, EndsThere
  <2>6. wrong' = wrong
    BY <1>4, <2>1, <2>3 DEF CopiesDirectly, Gives
  <2> QED
    BY <1>2, <2>5, <2>6 DEF OnlyOverlapSpoils
<1>5. CASE CopiesNothing(t)
  <2>1. target' = target /\ wrong' = wrong
    BY <1>5 DEF CopiesNothing
  <2>2. ChunkInv'
    BY <1>1, <1>2, <1>3, <2>1, EndsThere
  <2> QED
    BY <1>2, <2>1, <2>2 DEF OnlyOverlapSpoils
<1> QED
  BY <1>4, <1>5

LEMMA Growing ==
  ASSUME ChunkInv, NEW t \in Threads, Grows(t)
  PROVE  ChunkInv'
<1>1. /\ streaming[t].at = "growing" /\ Moves(t, "picking") /\ target' = target
      /\ UNCHANGED <<known, active, fenceVal, copies, overlapped, fenceVars>>
  BY DEF Grows, At
<1>2. PICK size \in Nat : size = Size[streaming[t].chunk]
  BY <1>1, Copiers, Streams DEF ChunkInv, AtEase
<1>3. staging' = IF staging.size < size
                 THEN [size |-> size, holds |-> <<Nothing, Nothing>>, made |-> staging.made + 1]
                 ELSE staging
  BY <1>2 DEF Grows, MustGrow
<1>4. staging \in [size : Nat, holds : [{1, 2} -> Chunks \cup {Nothing}], made : Nat]
  BY DEF ChunkInv, StreamsOK
<1>5. staging' \in [size : Nat, holds : [{1, 2} -> Chunks \cup {Nothing}], made : Nat] /\ size <= staging'.size
  <2>1. <<Nothing, Nothing>> \in [{1, 2} -> Chunks \cup {Nothing}]
    OBVIOUS
  <2>2. CASE staging.size < size
    BY <1>3, <1>4, <2>1, <2>2
  <2>3. CASE ~(staging.size < size)
    BY <1>3, <1>4, <2>3
  <2> QED
    BY <2>2, <2>3
<1>6. streaming'[t].at = "picking" /\ streaming'[t].chunk = streaming[t].chunk
  BY <1>1, Going DEF ChunkInv
<1>7. ASSUME AloneInv, Stage(t)
      PROVE  FencesOK' /\ DOMAIN copies' = {l.at : l \in lists'} /\ Stage(t)'
  <2>1. UNCHANGED <<lists, signals, position, reached, armed, flag, blocked, fenceVal, copies>>
    BY <1>1 DEF fenceVars, gpuVars
  <2>2. Idle'
    BY <1>1, <1>7, <2>1 DEF Stage, At, Idle, Counted, AllQuiet
  <2>3. Fits(t)'
    BY <1>2, <1>5, <1>6 DEF Fits
  <2> QED
    BY <1>1, <1>6, <1>7, <2>2, <2>3, FencesStay DEF Stage, At
<1>8. fenceVal' \in Nat
  BY <1>1 DEF ChunkInv, StreamsOK
<1> QED
  BY <1>1, <1>5, <1>7, <1>8, GoesFurther

LEMMA Picking ==
  ASSUME ChunkInv, NEW t \in Threads, Picks(t)
  PROVE  ChunkInv'
<1>1. PICK s : s = [at |-> "filling", chunk |-> streaming[t].chunk, to |-> streaming[t].to,
                    from |-> active + 1, of |-> staging.made]
  OBVIOUS
<1>2. /\ streaming[t].at = "picking" /\ streaming' = [streaming EXCEPT ![t] = s]
      /\ active' = 1 - active
      /\ UNCHANGED <<known, staging, fenceVal, target, copies, overlapped, fenceVars>>
  BY <1>1 DEF Picks, At, OtherOne
<1>3. /\ t \in Busy /\ streaming[t] \in Begun
      /\ active \in {0, 1} /\ staging.made \in Nat
  BY <1>2, Streams DEF ChunkInv, StreamsOK, AtEase
<1>4. /\ s \in Picked /\ s # AtEase /\ s.at = "filling" /\ s.of = staging.made
      /\ s.chunk = streaming[t].chunk /\ s.to = streaming[t].to
  BY <1>1, <1>3 DEF Begun, Picked, Late, AtEase
<1>5. /\ streaming' \in [Threads -> {AtEase} \cup Begun \cup Picked]
      /\ OwnBuffers'
      /\ streaming'[t] = s
      /\ \A u \in Threads \ {t} : streaming'[u] = streaming[u]
      /\ OnDevice(t)' <=> OnDevice(t)
  BY <1>2, <1>3, <1>4, Typed DEF ChunkInv
<1>6. OnDevice(t) /\ OnDevice(t)'
  BY <1>2, <1>3, <1>5 DEF ChunkInv, OwnBuffers
<1>7. StreamsOK'
  <2>1. active' \in {0, 1}
    BY <1>2, <1>3
  <2> QED
    BY <1>2, <1>5, <2>1 DEF ChunkInv, StreamsOK
<1>8. ASSUME AloneInv PROVE AloneInv'
  <2>1. Idle /\ Fits(t)
    BY <1>2, <1>6, <1>8, StandsAlone DEF Stage, At
  <2>2. UNCHANGED <<lists, signals, position, reached, armed, flag, blocked, fenceVal, copies, staging>>
    BY <1>2 DEF fenceVars, gpuVars
  <2>3. Idle' /\ Fits(t)'
    BY <1>4, <1>5, <2>1, <2>2 DEF Idle, Counted, AllQuiet, Fits
  <2>4. Stage(t)'
    BY <1>4, <1>5, <2>2, <2>3 DEF Stage, At
  <2> QED
    BY <1>2, <1>5, <1>6, <1>8, <2>4, FencesStay, Advances
<1> QED
  BY <1>2, <1>5, <1>7, <1>8 DEF ChunkInv

LEMMA Unreadable ==
  ASSUME ChunkInv, NEW t \in Threads, FileUnreadable(t)
  PROVE  ChunkInv'
<1>1. /\ streaming[t].at = "filling" /\ streaming' = [streaming EXCEPT ![t] = AtEase] /\ target' = target
      /\ UNCHANGED <<known, active, overlapped, staging, fenceVal, copies, fenceVars>>
  BY DEF FileUnreadable, At
<1>2. t \in Busy
  BY <1>1, Streams DEF ChunkInv
<1>3. \E n \in Nat : target' = [i \in 1 .. n |-> target'[i]]
  BY <1>1 DEF ChunkInv, StreamsOK
<1>4. AloneInv /\ OnDevice(t) => Idle
  BY <1>1, StandsAlone DEF Stage, At
<1> QED
  BY <1>1, <1>2, <1>3, <1>4, EndsThere

LEMMA Filling ==
  ASSUME ChunkInv, NEW t \in Threads, Fills(t)
  PROVE  ChunkInv'
<1>1. /\ streaming[t].at = "filling" /\ Moves(t, "executing") /\ target' = target
      /\ UNCHANGED <<known, active, fenceVal, copies, overlapped, fenceVars>>
  BY DEF Fills, At
<1>2. /\ streaming[t] \in Picked /\ streaming[t].chunk \in Chunks
      /\ staging \in [size : Nat, holds : [{1, 2} -> Chunks \cup {Nothing}], made : Nat]
  BY <1>1, Streams DEF ChunkInv, StreamsOK, Late, Busy, AtEase, Picked
<1>3. PICK k, old, new :
        /\ k \in {1, 2} /\ old \in [{1, 2} -> Chunks \cup {Nothing}]
        /\ k = streaming[t].from /\ old = staging.holds
        /\ new = [old EXCEPT ![k] = IF streaming[t].of = staging.made
                                    THEN IF Size[streaming[t].chunk] <= staging.size
                                         THEN streaming[t].chunk ELSE Nothing
                                    ELSE old[k]]
  BY <1>2 DEF Picked
<1>4. staging' = [staging EXCEPT !.holds = new]
  BY <1>3 DEF Fills
<1>5. new \in [{1, 2} -> Chunks \cup {Nothing}]
  BY <1>2, <1>3
<1>6. /\ staging' \in [size : Nat, holds : [{1, 2} -> Chunks \cup {Nothing}], made : Nat]
      /\ staging'.holds = new /\ staging'.made = staging.made
  BY <1>2, <1>4, <1>5
<1>7. /\ streaming'[t].at = "executing" /\ streaming'[t].chunk = streaming[t].chunk
      /\ streaming'[t].from = k /\ streaming'[t].of = streaming[t].of
  BY <1>1, <1>3, Going DEF ChunkInv, Late
<1>8. ASSUME AloneInv, Stage(t)
      PROVE  FencesOK' /\ DOMAIN copies' = {l.at : l \in lists'} /\ Stage(t)'
  <2>1. UNCHANGED <<lists, signals, position, reached, armed, flag, blocked, fenceVal, copies>>
    BY <1>1 DEF fenceVars, gpuVars
  <2>2. Idle /\ Fits(t) /\ streaming[t].of = staging.made
    BY <1>1, <1>8 DEF Stage, At
  <2>3. Idle'
    BY <2>1, <2>2 DEF Idle, Counted, AllQuiet
  <2>4. new[k] = streaming[t].chunk
    BY <1>3, <2>2 DEF Fits
  <2>5. Filled(t)'
    BY <1>6, <1>7, <2>2, <2>4 DEF Filled
  <2> QED
    BY <1>1, <1>7, <1>8, <2>3, <2>5, FencesStay DEF Stage, At
<1>9. fenceVal' \in Nat
  BY <1>1 DEF ChunkInv, StreamsOK
<1> QED
  BY <1>1, <1>6, <1>8, <1>9, GoesFurther DEF Late

LEMMA Executing ==
  ASSUME ChunkInv, NEW t \in Threads, Executes(t)
  PROVE  ChunkInv'
<1>1. /\ streaming[t].at = "executing" /\ Moves(t, "counting") /\ target' = target
      /\ UNCHANGED <<known, active, fenceVal, staging, overlapped, signals, reached, armed, flag, blocked>>
  BY DEF Executes, Execute, At, ownVars
<1>2. /\ staging' \in [size : Nat, holds : [{1, 2} -> Chunks \cup {Nothing}], made : Nat]
      /\ fenceVal' \in Nat
  BY <1>1 DEF ChunkInv, StreamsOK
<1>3. PICK n, L, c : /\ n = position[copyQueue]
                     /\ L = [obj |-> Streamer, queue |-> copyQueue, at |-> n]
                     /\ c = [to |-> streaming[t].to, from |-> streaming[t].from, of |-> streaming[t].of]
  OBVIOUS
<1>4. /\ lists' = lists \cup {L}
      /\ position' = [position EXCEPT ![copyQueue] = n + 1]
      /\ copies' = [i \in DOMAIN copies \cup {n} |-> IF i = n THEN c ELSE copies[i]]
  BY <1>3 DEF Executes, Execute
<1>5. /\ streaming'[t].at = "counting" /\ streaming'[t].chunk = streaming[t].chunk
      /\ streaming'[t].to = streaming[t].to
      /\ streaming'[t].from = streaming[t].from /\ streaming'[t].of = streaming[t].of
  BY <1>1, Going DEF ChunkInv, Late
<1>6. ASSUME AloneInv, Stage(t)
      PROVE  FencesOK' /\ DOMAIN copies' = {l.at : l \in lists'} /\ Stage(t)'
  <2>1. Idle /\ Filled(t)
    BY <1>1, <1>6 DEF Stage, At
  <2>2. n \in Nat /\ position \in [Queues -> Nat]
    BY <1>3, <1>6, Copiers DEF AloneInv, FencesOK
  <2>3. position' \in [Queues -> Nat] /\ position'[copyQueue] = n + 1
    BY <1>4, <2>2, Copiers
  <2>4. lists' = {L} /\ DOMAIN copies = {}
    BY <1>4, <1>6, <2>1 DEF Idle, AloneInv
  <2>5. DOMAIN copies' = {n} /\ copies'[n] = c
    BY <1>4, <2>4
  <2>6. FencesOK'
    BY <1>1, <1>6, <2>3 DEF AloneInv, FencesOK
  <2>7. DOMAIN copies' = {l.at : l \in lists'}
    BY <1>3, <2>4, <2>5
  <2>8. OnTheWay(t)'
    <3>1. n < position'[copyQueue]
      BY <2>2, <2>3
    <3>2. lists' = {[obj |-> Streamer, queue |-> copyQueue, at |-> n]}
      BY <1>3, <2>4
    <3>3. copies'[n] = [to |-> streaming'[t].to, from |-> streaming'[t].from, of |-> streaming'[t].of]
      BY <1>3, <1>5, <2>5
    <3> QED
      BY <2>2, <3>1, <3>2, <3>3 DEF OnTheWay
  <2>9. Filled(t)' /\ Counted' /\ AllQuiet'
    BY <1>1, <1>5, <2>1 DEF Filled, Counted, AllQuiet, Idle
  <2> QED
    BY <1>5, <2>6, <2>7, <2>8, <2>9 DEF Stage, At, Copying
<1> QED
  BY <1>1, <1>2, <1>6, GoesFurther DEF Late

(* The way of a chunk does not depend on where its thread is.              *)
LEMMA Carried ==
  ASSUME NEW t \in Threads,
         streaming'[t].to = streaming[t].to, streaming'[t].chunk = streaming[t].chunk,
         streaming'[t].from = streaming[t].from, streaming'[t].of = streaming[t].of,
         UNCHANGED <<staging, target, copies, lists>>, position'[copyQueue] >= position[copyQueue],
         position[copyQueue] \in Nat, position'[copyQueue] \in Nat
  PROVE  /\ Arrived(t) => Arrived(t)'
         /\ Copying(t) => Copying(t)'
         /\ Signalled(t) /\ UNCHANGED <<signals, reached, fenceVal>> => Signalled(t)'
<1>1. Arrived(t) => Arrived(t)'
  BY DEF Arrived
<1>2. Filled(t) => Filled(t)'
  BY DEF Filled
<1>3. OnTheWay(t) => OnTheWay(t)'
  <2> SUFFICES ASSUME OnTheWay(t) PROVE OnTheWay(t)'
    OBVIOUS
  <2>1. PICK n \in Nat :
          /\ lists = {[obj |-> Streamer, queue |-> copyQueue, at |-> n]}
          /\ n < position[copyQueue]
          /\ copies[n] = [to |-> streaming[t].to, from |-> streaming[t].from, of |-> streaming[t].of]
    BY DEF OnTheWay
  <2>2. n < position'[copyQueue] /\ lists' = lists /\ copies'[n] = copies[n]
    BY <2>1
  <2> QED
    BY <2>1, <2>2 DEF OnTheWay
<1>4. Copying(t) => Copying(t)'
  BY <1>1, <1>2, <1>3 DEF Copying
<1>5. Signalled(t) /\ UNCHANGED <<signals, reached, fenceVal>> => Signalled(t)'
  BY <1>1, <1>4 DEF Signalled, Counted
<1> QED
  BY <1>1, <1>4, <1>5

LEMMA CountsOn ==
  ASSUME ChunkInv, NEW t \in Threads, Counts(t)
  PROVE  ChunkInv'
<1>1. /\ streaming[t].at = "counting" /\ Moves(t, "signalling") /\ fenceVal' = fenceVal + 1
      /\ UNCHANGED <<known, active, staging, target, copies, overlapped, fenceVars>>
  BY DEF Counts, At
<1>2. /\ staging' \in [size : Nat, holds : [{1, 2} -> Chunks \cup {Nothing}], made : Nat]
      /\ fenceVal \in Nat /\ fenceVal' \in Nat
  BY <1>1 DEF ChunkInv, StreamsOK
<1>3. /\ streaming'[t].at = "signalling" /\ streaming'[t].chunk = streaming[t].chunk
      /\ streaming'[t].to = streaming[t].to
      /\ streaming'[t].from = streaming[t].from /\ streaming'[t].of = streaming[t].of
  BY <1>1, Going DEF ChunkInv, Late
<1>4. ASSUME AloneInv, Stage(t)
      PROVE  FencesOK' /\ DOMAIN copies' = {l.at : l \in lists'} /\ Stage(t)'
  <2>1. Copying(t) /\ Counted /\ AllQuiet
    BY <1>1, <1>4 DEF Stage, At
  <2>2. UNCHANGED <<lists, signals, position, reached, armed, flag, blocked>>
    BY <1>1 DEF fenceVars, gpuVars
  <2>3. position[copyQueue] \in Nat
    BY <1>4, Copiers DEF AloneInv, FencesOK
  <2>4. Copying(t)'
    BY <1>1, <1>3, <2>1, <2>2, <2>3, Carried
  <2>5. signals' = {} /\ reached'[copyFence] + 1 = fenceVal'
    BY <1>1, <2>1, <2>2 DEF Counted
  <2> QED
    BY <1>1, <1>3, <1>4, <2>1, <2>4, <2>5, FencesStay DEF Stage, At
<1> QED
  BY <1>1, <1>2, <1>4, GoesFurther DEF Late

LEMMA Signalling ==
  ASSUME ChunkInv, NEW t \in Threads, Signals(t)
  PROVE  ChunkInv'
<1>1. /\ streaming[t].at = "signalling" /\ Moves(t, "asking") /\ target' = target
      /\ UNCHANGED <<known, active, staging, fenceVal, copies, overlapped, lists, reached, armed, flag, blocked>>
  BY DEF Signals, EnqueueSignal, At, ownVars
<1>2. /\ staging' \in [size : Nat, holds : [{1, 2} -> Chunks \cup {Nothing}], made : Nat]
      /\ fenceVal' \in Nat
  BY <1>1 DEF ChunkInv, StreamsOK
<1>3. PICK n, S : /\ n = position[copyQueue]
                  /\ S = [fence |-> copyFence, value |-> fenceVal, queue |-> copyQueue, at |-> n]
  OBVIOUS
<1>4. /\ signals' = signals \cup {S}
      /\ position' = [position EXCEPT ![copyQueue] = n + 1]
  BY <1>3 DEF Signals, EnqueueSignal, SignalAfter
<1>5. /\ streaming'[t].at = "asking" /\ streaming'[t].chunk = streaming[t].chunk
      /\ streaming'[t].to = streaming[t].to
      /\ streaming'[t].from = streaming[t].from /\ streaming'[t].of = streaming[t].of
  BY <1>1, Going DEF ChunkInv, Late
<1>6. ASSUME AloneInv, Stage(t)
      PROVE  FencesOK' /\ DOMAIN copies' = {l.at : l \in lists'} /\ Stage(t)'
  <2>1. Copying(t) /\ signals = {} /\ reached[copyFence] + 1 = fenceVal /\ AllQuiet
    BY <1>1, <1>6 DEF Stage, At
  <2>2. n \in Nat /\ position \in [Queues -> Nat]
    BY <1>3, <1>6, Copiers DEF AloneInv, FencesOK
  <2>3. position' \in [Queues -> Nat] /\ position'[copyQueue] = n + 1
    BY <1>4, <2>2, Copiers
  <2>4. FencesOK' /\ AllQuiet' /\ DOMAIN copies' = {l.at : l \in lists'}
    BY <1>1, <1>6, <2>1, <2>3 DEF AloneInv, FencesOK, AllQuiet
  <2>5. Copying(t)'
    BY <1>1, <1>3, <1>5, <2>1, <2>2, <2>3, Carried
  <2>6. \A l \in lists : l.at < n
    BY <1>3, <2>1 DEF Copying, Arrived, OnTheWay
  <2>7. /\ signals' = {[fence |-> copyFence, value |-> fenceVal', queue |-> copyQueue, at |-> n]}
        /\ \A l \in lists' : l.at < n
        /\ reached'[copyFence] + 1 = fenceVal'
    BY <1>1, <1>3, <1>4, <2>1, <2>6
  <2>8. Signalled(t)'
    BY <2>2, <2>5, <2>7 DEF Signalled
  <2> QED
    BY <1>5, <2>4, <2>8 DEF Stage, At
<1> QED
  BY <1>1, <1>2, <1>6, GoesFurther DEF Late

(* A signalled stream that learns its value is completed has its chunk.    *)
LEMMA CompletedMeansArrived ==
  ASSUME NEW t \in Threads, Signalled(t), reached[copyFence] \in Nat, fenceVal \in Nat, reached[copyFence] >= fenceVal
  PROVE  Arrived(t) /\ Counted
BY DEF Signalled

LEMMA AsksIt ==
  ASSUME ChunkInv, NEW t \in Threads, Asks(t)
  PROVE  ChunkInv'
<1>1. /\ streaming[t].at = "asking" /\ target' = target
      /\ UNCHANGED <<known, active, staging, fenceVal, copies, overlapped, lists, signals, position, reached>>
  BY DEF Asks, Passes, Registers, E!Register, At, fenceVars, gpuVars
<1>2. /\ staging' \in [size : Nat, holds : [{1, 2} -> Chunks \cup {Nothing}], made : Nat]
      /\ fenceVal \in Nat /\ fenceVal' \in Nat
  BY <1>1 DEF ChunkInv, StreamsOK
<1>3. ASSUME AloneInv PROVE /\ position[copyQueue] \in Nat /\ reached[copyFence] \in Nat
                            /\ armed \in [Fences -> [0 .. MaxValue -> Nat]]
  BY <1>3, Copiers DEF AloneInv, FencesOK
<1>4. CASE Passes(copyFence, fenceVal) /\ Moves(t, "done")
  <2>1. /\ streaming'[t].at = "done" /\ streaming'[t].chunk = streaming[t].chunk
        /\ streaming'[t].to = streaming[t].to
        /\ streaming'[t].from = streaming[t].from /\ streaming'[t].of = streaming[t].of
    BY <1>1, <1>4, Going DEF ChunkInv, Late
  <2>2. ASSUME AloneInv, Stage(t)
        PROVE  FencesOK' /\ DOMAIN copies' = {l.at : l \in lists'} /\ Stage(t)'
    <3>1. Arrived(t) /\ Counted /\ AllQuiet
      BY <1>1, <1>2, <1>3, <1>4, <2>2, CompletedMeansArrived DEF Stage, At, Passes, Completed
    <3>2. Arrived(t)' /\ Counted' /\ AllQuiet'
      BY <1>1, <1>3, <1>4, <2>1, <2>2, <3>1, Carried DEF Counted, Passes, AllQuiet, fenceVars
    <3>3. UNCHANGED <<copies, fenceVars>>
      BY <1>1, <1>4 DEF Passes
    <3> QED
      BY <2>1, <2>2, <3>2, <3>3, FencesStay DEF Stage, At
  <2> QED
    BY <1>1, <1>2, <1>4, <2>2, GoesFurther DEF Late
<1>5. CASE Registers(copyFence, fenceVal) /\ Moves(t, "registered")
  <2>1. /\ streaming'[t].at = "registered" /\ streaming'[t].chunk = streaming[t].chunk
        /\ streaming'[t].to = streaming[t].to
        /\ streaming'[t].from = streaming[t].from /\ streaming'[t].of = streaming[t].of
    BY <1>1, <1>5, Going DEF ChunkInv, Late
  <2>2. ASSUME AloneInv, Stage(t)
        PROVE  FencesOK' /\ DOMAIN copies' = {l.at : l \in lists'} /\ Stage(t)'
    <3>1. Signalled(t) /\ AllQuiet
      BY <1>1, <2>2 DEF Stage, At
    <3>2. Signalled(t)'
      BY <1>1, <1>3, <2>1, <2>2, <3>1, Carried
    <3>3. armed' = [armed EXCEPT ![copyFence][fenceVal] = @ + 1] /\ flag' = flag /\ blocked' = blocked
      BY <1>5 DEF Registers, E!Register
    <3>4. PICK old, new : /\ old = armed[copyFence] /\ old \in [0 .. MaxValue -> Nat]
                          /\ new = [old EXCEPT ![fenceVal] = old[fenceVal] + 1]
      BY <1>3, <2>2, Copiers
    <3>5. /\ \A u \in 0 .. MaxValue : old[u] = 0
          /\ \A u \in 0 .. MaxValue : new[u] = IF u = fenceVal THEN 1 ELSE 0
          /\ new \in [0 .. MaxValue -> Nat]
      <4>1. \A u \in 0 .. MaxValue : old[u] = 0
        BY <3>1, <3>4, Copiers DEF AllQuiet
      <4>2. \A u \in 0 .. MaxValue : new[u] = IF u = fenceVal THEN 1 ELSE 0
        <5>1. \A u \in 0 .. MaxValue : new[u] = IF u = fenceVal THEN old[u] + 1 ELSE old[u]
          BY <3>4
        <5> QED
          BY <4>1, <5>1
      <4>3. DOMAIN new = 0 .. MaxValue /\ new = [u \in 0 .. MaxValue |-> new[u]]
        BY <3>4
      <4>4. \A u \in 0 .. MaxValue : new[u] \in Nat
        BY <4>2
      <4>5. new \in [0 .. MaxValue -> Nat]
        BY <4>3, <4>4
      <4> QED
        BY <4>1, <4>2, <4>5
    <3>6. /\ armed' \in [Fences -> [0 .. MaxValue -> Nat]]
          /\ \A g \in Fences : armed'[g] = IF g = copyFence THEN new ELSE armed[g]
      BY <1>3, <2>2, <3>3, <3>4, <3>5, Copiers
    <3>7. \A g \in Fences, u \in 0 .. MaxValue :
            armed'[g][u] # 0 => g = copyFence /\ u = fenceVal /\ armed'[g][u] = 1
      <4>1. ASSUME NEW g \in Fences, NEW u \in 0 .. MaxValue, g # copyFence PROVE armed'[g][u] = 0
        <5>1. armed'[g] = armed[g]
          BY <3>6, <4>1
        <5> QED
          BY <3>1, <5>1 DEF AllQuiet
      <4>2. armed'[copyFence] = new
        BY <3>6, Copiers
      <4> QED
        BY <3>5, <4>1, <4>2
    <3>8. OnlyItsEvent(t)'
      <4>1. fenceVal' = fenceVal /\ ~At(t, "blocked")'
        BY <1>1, <2>1 DEF At
      <4>2. (\A g \in Fences : ~flag'[g]) /\ \A u \in Threads : blocked'[u] = NoFence
        BY <3>1, <3>3 DEF AllQuiet
      <4> QED
        BY <3>7, <4>1, <4>2 DEF OnlyItsEvent
    <3>9. FencesOK' /\ DOMAIN copies' = {l.at : l \in lists'}
      BY <1>1, <2>2, <3>3, <3>6 DEF AloneInv, FencesOK
    <3> QED
      BY <2>1, <3>2, <3>8, <3>9 DEF Stage, At
  <2> QED
    BY <1>1, <1>2, <1>5, <2>2, GoesFurther DEF Late
<1> QED
  BY <1>4, <1>5 DEF Asks

LEMMA WaitsOn ==
  ASSUME ChunkInv, NEW t \in Threads, Waits(t)
  PROVE  ChunkInv'
<1>1. /\ streaming[t].at = "registered" /\ target' = target
      /\ UNCHANGED <<known, active, staging, fenceVal, copies, overlapped, lists, signals, position, reached, armed>>
  BY DEF Waits, FindsSet, Blocks, E!PassAtOnce, E!Block, At
<1>2. /\ staging' \in [size : Nat, holds : [{1, 2} -> Chunks \cup {Nothing}], made : Nat]
      /\ fenceVal \in Nat /\ fenceVal' \in Nat
  BY <1>1 DEF ChunkInv, StreamsOK
<1>3. ASSUME AloneInv, Stage(t)
      PROVE  /\ position[copyQueue] \in Nat /\ reached[copyFence] \in Nat
             /\ flag \in [Fences -> BOOLEAN] /\ blocked \in [Threads -> Fences \cup {NoFence}]
             /\ Signalled(t) /\ OnlyItsEvent(t)
  BY <1>1, <1>3, Copiers DEF AloneInv, FencesOK, Stage
<1>4. CASE FindsSet(copyFence) /\ Moves(t, "done")
  <2>1. /\ streaming'[t].at = "done" /\ streaming'[t].chunk = streaming[t].chunk
        /\ streaming'[t].to = streaming[t].to
        /\ streaming'[t].from = streaming[t].from /\ streaming'[t].of = streaming[t].of
    BY <1>1, <1>4, Going DEF ChunkInv, Late
  <2>2. flag[copyFence] /\ flag' = [flag EXCEPT ![copyFence] = FALSE] /\ blocked' = blocked
    BY <1>4 DEF FindsSet, E!PassAtOnce
  <2>3. ASSUME AloneInv, Stage(t)
        PROVE  FencesOK' /\ DOMAIN copies' = {l.at : l \in lists'} /\ Stage(t)'
    <3>1. NoneArmed /\ reached[copyFence] = fenceVal /\ \A g \in Fences : flag[g] => g = copyFence
      BY <1>3, <2>2, <2>3, Copiers DEF OnlyItsEvent
    <3>2. Arrived(t) /\ Counted
      BY <1>2, <1>3, <2>3, <3>1, CompletedMeansArrived
    <3>3. Arrived(t)' /\ Counted'
      BY <1>1, <1>3, <2>1, <2>3, <3>2, Carried DEF Counted
    <3>4. \A g \in Fences : flag'[g] = IF g = copyFence THEN FALSE ELSE flag[g]
      BY <1>3, <2>2, <2>3
    <3>5. \A u \in Threads : blocked'[u] = NoFence
      BY <1>1, <1>3, <2>2, <2>3 DEF OnlyItsEvent, At
    <3>6. AllQuiet'
      BY <1>1, <3>1, <3>4, <3>5 DEF AllQuiet, NoneArmed
    <3>7. FencesOK' /\ DOMAIN copies' = {l.at : l \in lists'}
      BY <1>1, <2>2, <2>3 DEF AloneInv, FencesOK
    <3> QED
      BY <2>1, <3>3, <3>6, <3>7 DEF Stage, At
  <2> QED
    BY <1>1, <1>2, <1>4, <2>3, GoesFurther DEF Late
<1>5. CASE Blocks(t, copyFence) /\ Moves(t, "blocked")
  <2>1. /\ streaming'[t].at = "blocked" /\ streaming'[t].chunk = streaming[t].chunk
        /\ streaming'[t].to = streaming[t].to
        /\ streaming'[t].from = streaming[t].from /\ streaming'[t].of = streaming[t].of
    BY <1>1, <1>5, Going DEF ChunkInv, Late
  <2>2. ~flag[copyFence] /\ blocked' = [blocked EXCEPT ![t] = copyFence] /\ flag' = flag
    BY <1>5 DEF Blocks, E!Block
  <2>3. ASSUME AloneInv, Stage(t)
        PROVE  FencesOK' /\ DOMAIN copies' = {l.at : l \in lists'} /\ Stage(t)'
    <3>1. Signalled(t)'
      BY <1>1, <1>3, <2>1, <2>3, Carried
    <3>2. \A g \in Fences : ~flag'[g]
      BY <1>3, <2>2, <2>3 DEF OnlyItsEvent
    <3>3. /\ blocked'[t] = copyFence /\ copyFence # NoFence
          /\ \A u \in Threads : u # t => blocked'[u] = NoFence
      <4>1. \A u \in Threads : blocked[u] = NoFence
        BY <1>1, <1>3, <2>3 DEF OnlyItsEvent, At
      <4> QED
        BY <1>3, <2>2, <2>3, <4>1, Copiers
    <3>4. \A g \in Fences, u \in 0 .. MaxValue :
            armed'[g][u] # 0 => g = copyFence /\ u = fenceVal' /\ armed'[g][u] = 1
      BY <1>1, <1>3, <2>3 DEF OnlyItsEvent
    <3>5. At(t, "blocked")'
      BY <2>1 DEF At
    <3>6. OnlyItsEvent(t)'
      BY <3>2, <3>3, <3>4, <3>5 DEF OnlyItsEvent
    <3>7. FencesOK' /\ DOMAIN copies' = {l.at : l \in lists'}
      BY <1>1, <2>2, <2>3, Copiers DEF AloneInv, FencesOK
    <3> QED
      BY <2>1, <3>1, <3>6, <3>7 DEF Stage, At
  <2> QED
    BY <1>1, <1>2, <1>5, <2>3, GoesFurther DEF Late
<1> QED
  BY <1>4, <1>5 DEF Waits

LEMMA WakesOn ==
  ASSUME ChunkInv, NEW t \in Threads, Wakes(t)
  PROVE  ChunkInv'
<1>1. /\ streaming[t].at = "blocked" /\ Moves(t, "done") /\ target' = target /\ blocked[t] = NoFence
      /\ UNCHANGED <<known, active, staging, fenceVal, copies, overlapped, fenceVars>>
  BY DEF Wakes, IsAwake, At
<1>2. /\ staging' \in [size : Nat, holds : [{1, 2} -> Chunks \cup {Nothing}], made : Nat]
      /\ fenceVal \in Nat /\ fenceVal' \in Nat
  BY <1>1 DEF ChunkInv, StreamsOK
<1>3. /\ streaming'[t].at = "done" /\ streaming'[t].chunk = streaming[t].chunk
      /\ streaming'[t].to = streaming[t].to
      /\ streaming'[t].from = streaming[t].from /\ streaming'[t].of = streaming[t].of
  BY <1>1, Going DEF ChunkInv, Late
<1>4. ASSUME AloneInv, Stage(t)
      PROVE  FencesOK' /\ DOMAIN copies' = {l.at : l \in lists'} /\ Stage(t)'
  <2>1. Signalled(t) /\ OnlyItsEvent(t)
    BY <1>1, <1>4 DEF Stage
  <2>2. NoneArmed /\ reached[copyFence] = fenceVal
    BY <1>1, <2>1 DEF OnlyItsEvent, At
  <2>3. AllQuiet
    BY <1>1, <2>1, <2>2 DEF OnlyItsEvent, At, AllQuiet, NoneArmed
  <2>4. position[copyQueue] \in Nat
    BY <1>4, Copiers DEF AloneInv, FencesOK
  <2>5. Arrived(t) /\ Counted
    BY <1>2, <2>1, <2>2, CompletedMeansArrived
  <2>6. UNCHANGED <<lists, signals, position, reached>>
    BY <1>1 DEF fenceVars, gpuVars
  <2>7. Arrived(t)' /\ Counted'
    BY <1>1, <1>3, <2>4, <2>5, <2>6, Carried DEF Counted
  <2> QED
    BY <1>1, <1>3, <1>4, <2>3, <2>7, FencesStay DEF Stage, At
<1> QED
  BY <1>1, <1>2, <1>4, GoesFurther DEF Late

LEMMA Returning ==
  ASSUME ChunkInv, OnlyOverlapSpoils, NEW t \in Threads, StreamReturns(t)
  PROVE  ChunkInv' /\ OnlyOverlapSpoils'
<1>1. /\ streaming[t].at = "done" /\ streaming' = [streaming EXCEPT ![t] = AtEase] /\ target' = target
      /\ UNCHANGED <<known, active, overlapped, staging, fenceVal, copies, fenceVars>>
      /\ wrong' = IF target[streaming[t].to] = streaming[t].chunk THEN wrong
                  ELSE wrong \cup {[chunk |-> streaming[t].chunk, got |-> target[streaming[t].to]]}
  BY DEF StreamReturns, Gives, At
<1>2. t \in Busy /\ OnDevice(t)
  BY <1>1, Streams DEF ChunkInv, OwnBuffers
<1>3. \E n \in Nat : target' = [i \in 1 .. n |-> target'[i]]
  BY <1>1 DEF ChunkInv, StreamsOK
<1>4. ASSUME AloneInv PROVE Idle /\ target[streaming[t].to] = streaming[t].chunk
  BY <1>1, <1>2, <1>4, StandsAlone DEF Stage, At, Arrived, Idle
<1>5. ChunkInv'
  BY <1>1, <1>2, <1>3, <1>4, EndsThere
<1>6. OnlyOverlapSpoils'
  <2>1. CASE target[streaming[t].to] = streaming[t].chunk
    BY <1>1, <2>1 DEF OnlyOverlapSpoils
  <2>2. CASE target[streaming[t].to] # streaming[t].chunk
    <3>1. overlapped /\ Place[streaming[t].chunk] = "device"
      BY <1>2, <1>4, <2>2 DEF ChunkInv, OnDevice
    <3> QED
      BY <1>1, <2>2, <3>1 DEF OnlyOverlapSpoils
  <2> QED
    BY <2>1, <2>2
<1> QED
  BY <1>5, <1>6

-----------------------------------------------------------------------------
(* The GPU and the event, while a stream to the device waits.              *)

(* Someone is the stream the GPU works for.                                *)
LEMMA WorkedFor ==
  ASSUME AloneInv, ~Idle
  PROVE  \E t \in Threads : OnDevice(t) /\ Stage(t)
BY DEF AloneInv

(* What the GPU and the events leave of the rest.                          *)
LEMMA Served ==
  ASSUME ChunkInv,
         UNCHANGED <<known, active, overlapped, staging, fenceVal, streaming>>,
         \E n \in Nat : target' = [i \in 1 .. n |-> target'[i]],
         DOMAIN target' = DOMAIN target,
         AloneInv => FencesOK' /\ DOMAIN copies' = {l.at : l \in lists'}
                     /\ \E t \in Threads : OnDevice(t) /\ Stage(t)'
  PROVE  ChunkInv'
<1>1. StreamsOK'
  BY DEF ChunkInv, StreamsOK
<1>2. OwnBuffers'
  BY DEF ChunkInv, OwnBuffers, Busy, OnDevice
<1>3. ASSUME AloneInv PROVE AloneInv'
  <2>1. PICK t \in Threads : OnDevice(t) /\ Stage(t)'
    BY <1>3
  <2>2. \A u \in Threads : OnDevice(u)' <=> OnDevice(u)
    BY DEF OnDevice
  <2>3. \A u \in Threads : OnDevice(u) => u = t
    BY <1>3, <2>1 DEF AloneInv
  <2> QED
    BY <1>3, <2>1, <2>2, <2>3 DEF AloneInv
<1> QED
  BY <1>1, <1>2, <1>3 DEF ChunkInv

LEMMA ChunkCopied ==
  ASSUME ChunkInv, CopyHappens
  PROVE  ChunkInv' /\ wrong' = wrong /\ overlapped' = overlapped
<1>1. PICK l \in lists :
        /\ lists' = lists \ {l}
        /\ copies' = [n \in DOMAIN copies \ {l.at} |-> copies[n]]
        /\ target' = [target EXCEPT ![copies[l.at].to] =
                        IF copies[l.at].of = staging.made THEN staging.holds[copies[l.at].from] ELSE Nothing]
        /\ UNCHANGED <<known, staging, active, fenceVal, streaming, wrong, overlapped>>
        /\ UNCHANGED <<signals, position, reached, armed, flag, blocked>>
  BY DEF CopyHappens, ListFinishes, ownVars
<1>2. DOMAIN target' = DOMAIN target /\ \E n \in Nat : target' = [i \in 1 .. n |-> target'[i]]
  <2>1. PICK n \in Nat : target = [i \in 1 .. n |-> target[i]]
    BY DEF ChunkInv, StreamsOK
  <2>2. DOMAIN target' = 1 .. n /\ DOMAIN target = 1 .. n
    BY <1>1, <2>1
  <2>3. target' = [i \in 1 .. n |-> target'[i]]
    BY <1>1, <2>1
  <2> QED
    BY <2>2, <2>3
<1>3. ASSUME AloneInv
      PROVE  FencesOK' /\ DOMAIN copies' = {k.at : k \in lists'} /\ \E t \in Threads : OnDevice(t) /\ Stage(t)'
  <2>1. PICK t \in Threads : OnDevice(t) /\ Stage(t)
    BY <1>1, <1>3, WorkedFor DEF Idle
  <2>2. t \in Busy /\ streaming[t].at # "mapping" /\ streaming[t].to \in DOMAIN target
        /\ streaming[t].at \in {"growing", "picking"} \cup Late
    BY <2>1, Streams DEF ChunkInv, OwnBuffers, OnDevice, Busy, Begun, Picked
  <2>3. /\ streaming[t].at \in {"counting", "signalling", "asking", "registered", "blocked"}
        /\ Copying(t)
    BY <1>1, <2>1, <2>2 DEF Stage, At, Idle, Arrived, Signalled, Late
  <2>4. PICK n \in Nat :
          /\ lists = {[obj |-> Streamer, queue |-> copyQueue, at |-> n]}
          /\ copies[n] = [to |-> streaming[t].to, from |-> streaming[t].from, of |-> streaming[t].of]
    BY <1>1, <2>3 DEF Copying, Arrived, OnTheWay
  <2>5. l.at = n /\ lists' = {}
    BY <1>1, <2>4
  <2>6. target'[streaming[t].to] = streaming[t].chunk
    BY <1>1, <2>2, <2>3, <2>4, <2>5 DEF Copying, Filled
  <2>7. DOMAIN copies' = {}
    <3>1. DOMAIN copies = {k.at : k \in lists}
      BY <1>3 DEF AloneInv
    <3>2. DOMAIN copies = {n}
      BY <2>4, <3>1
    <3> QED
      BY <1>1, <2>5, <3>2
  <2>8. Arrived(t)' /\ Copying(t)'
    BY <1>1, <2>3, <2>5, <2>6 DEF Arrived, Copying, Filled
  <2>9. (Counted' <=> Counted) /\ (AllQuiet' <=> AllQuiet)
    BY <1>1 DEF Counted, AllQuiet
  <2>10. Signalled(t) => Signalled(t)'
    BY <1>1, <2>5, <2>8, <2>9 DEF Signalled
  <2>11. OnlyItsEvent(t) => OnlyItsEvent(t)'
    BY <1>1 DEF OnlyItsEvent, At, NoneArmed
  <2>12. Stage(t)'
    BY <1>1, <2>1, <2>3, <2>8, <2>9, <2>10, <2>11 DEF Stage, At
  <2>13. FencesOK'
    BY <1>1, <1>3 DEF AloneInv, FencesOK
  <2> QED
    BY <2>1, <2>5, <2>7, <2>12, <2>13
<1> QED
  BY <1>1, <1>2, <1>3, Served

LEMMA CopyFenceReached ==
  ASSUME ChunkInv, GpuSignals, UNCHANGED chunkVars
  PROVE  ChunkInv'
<1>1. PICK s \in signals :
        /\ Foremost(s)
        /\ signals' = signals \ {s}
        /\ reached' = [reached EXCEPT ![s.fence] = s.value]
        /\ UNCHANGED <<lists, position, armed, flag, blocked>>
        /\ UNCHANGED <<known, staging, active, fenceVal, streaming, target, copies, overlapped>>
  BY DEF GpuSignals, SignalReached, ownVars, chunkVars
<1>2. DOMAIN target' = DOMAIN target /\ \E n \in Nat : target' = [i \in 1 .. n |-> target'[i]]
  BY <1>1 DEF ChunkInv, StreamsOK
<1>3. ASSUME AloneInv
      PROVE  FencesOK' /\ DOMAIN copies' = {k.at : k \in lists'} /\ \E t \in Threads : OnDevice(t) /\ Stage(t)'
  <2>1. PICK t \in Threads : OnDevice(t) /\ Stage(t)
    BY <1>1, <1>3, WorkedFor DEF Idle, Counted
  <2>2. streaming[t].at \in {"growing", "picking"} \cup Late
    BY <2>1, Streams DEF ChunkInv, OwnBuffers, OnDevice, Busy, Begun, Picked
  <2>3. streaming[t].at \in {"asking", "registered", "blocked"} /\ Signalled(t)
    BY <1>1, <2>1, <2>2 DEF Stage, At, Idle, Counted, Late
  <2>4. PICK m \in Nat :
          /\ signals = {[fence |-> copyFence, value |-> fenceVal, queue |-> copyQueue, at |-> m]}
          /\ \A l \in lists : l.at < m
    BY <1>1, <2>3 DEF Signalled, Counted
  <2>5. Copying(t)
    BY <1>1, <2>3 DEF Signalled, Counted
  <2>6. /\ s.fence = copyFence /\ s.value = fenceVal /\ s.queue = copyQueue /\ s.at = m /\ signals' = {}
    BY <1>1, <2>4
  <2>7. ASSUME OnTheWay(t) PROVE FALSE
    <3>1. PICK n \in Nat : lists = {[obj |-> Streamer, queue |-> copyQueue, at |-> n]}
      BY <2>7 DEF OnTheWay
    <3>2. PICK l \in lists : l.at = n /\ l.queue = copyQueue
      BY <3>1
    <3>3. n < m
      BY <2>4, <3>2
    <3>4. n >= m
      BY <1>1, <2>6, <3>2 DEF Foremost
    <3> QED
      BY <3>3, <3>4
  <2>8. Arrived(t)
    BY <2>5, <2>7 DEF Copying
  <2>9. fenceVal \in Nat /\ reached \in [Fences -> Nat]
    BY <1>3 DEF ChunkInv, StreamsOK, AloneInv, FencesOK
  <2>10. reached' \in [Fences -> Nat] /\ reached'[copyFence] = fenceVal
    BY <1>1, <2>6, <2>9, Copiers
  <2>11. Arrived(t)' /\ Counted'
    BY <1>1, <2>6, <2>8, <2>10 DEF Arrived, Counted
  <2>12. (AllQuiet' <=> AllQuiet) /\ (NoneArmed' <=> NoneArmed)
    BY <1>1 DEF AllQuiet, NoneArmed
  <2>13. OnlyItsEvent(t) => OnlyItsEvent(t)'
    BY <1>1, <2>10, <2>12 DEF OnlyItsEvent, At
  <2>14. Stage(t)'
    BY <1>1, <2>1, <2>3, <2>11, <2>12, <2>13 DEF Stage, At, Signalled
  <2>15. FencesOK' /\ DOMAIN copies' = {k.at : k \in lists'}
    BY <1>1, <1>3, <2>10 DEF AloneInv, FencesOK
  <2> QED
    BY <2>1, <2>14, <2>15
<1> QED
  BY <1>1, <1>2, <1>3, Served

LEMMA CopyEventFires ==
  ASSUME ChunkInv, EventFires, UNCHANGED chunkVars
  PROVE  ChunkInv'
<1>1. PICK f \in Fences, v \in 0 .. MaxValue : E!Fire(f, v) /\ UNCHANGED <<lists, signals, position>>
  BY DEF EventFires
<1>2. /\ armed[f][v] > 0 /\ reached[f] >= v
      /\ armed' = [armed EXCEPT ![f][v] = @ - 1]
      /\ UNCHANGED <<lists, signals, position, reached>>
      /\ UNCHANGED <<known, staging, active, fenceVal, streaming, target, copies, overlapped>>
  BY <1>1 DEF E!Fire, E!Completed, chunkVars
<1>3. DOMAIN target' = DOMAIN target /\ \E n \in Nat : target' = [i \in 1 .. n |-> target'[i]]
  BY <1>2 DEF ChunkInv, StreamsOK
<1>4. ASSUME AloneInv
      PROVE  FencesOK' /\ DOMAIN copies' = {k.at : k \in lists'} /\ \E t \in Threads : OnDevice(t) /\ Stage(t)'
  <2>1. /\ armed \in [Fences -> [0 .. MaxValue -> Nat]]
        /\ flag \in [Fences -> BOOLEAN] /\ blocked \in [Threads -> Fences \cup {NoFence}]
        /\ reached[copyFence] \in Nat /\ position[copyQueue] \in Nat /\ fenceVal \in Nat
    BY <1>4, Copiers DEF ChunkInv, StreamsOK, AloneInv, FencesOK
  <2>2. armed[f][v] # 0
    BY <1>2
  <2>3. ~AllQuiet
    BY <2>2 DEF AllQuiet
  <2>4. PICK t \in Threads : OnDevice(t) /\ Stage(t)
    BY <1>4, <2>3, WorkedFor DEF Idle
  <2>5. streaming[t].at \in {"growing", "picking"} \cup Late
    BY <2>4, Streams DEF ChunkInv, OwnBuffers, OnDevice, Busy, Begun, Picked
  <2>6. streaming[t].at \in {"registered", "blocked"} /\ Signalled(t) /\ OnlyItsEvent(t)
    BY <2>3, <2>4, <2>5 DEF Stage, At, Idle, Late
  <2>7. f = copyFence /\ v = fenceVal /\ armed[f][v] = 1
    BY <2>2, <2>6 DEF OnlyItsEvent
  <2>8. reached[copyFence] = fenceVal
    BY <1>2, <2>1, <2>6, <2>7, CompletedMeansArrived DEF Counted
  <2>9. /\ \A g \in Fences, u \in 0 .. MaxValue : armed'[g][u] = 0
        /\ armed' \in [Fences -> [0 .. MaxValue -> Nat]]
    <3>1. \A g \in Fences, u \in 0 .. MaxValue :
            armed'[g][u] = IF g = f /\ u = v THEN armed[f][v] - 1 ELSE armed[g][u]
      BY <1>2, <2>1
    <3>2. armed' \in [Fences -> [0 .. MaxValue -> Nat]]
      BY <1>2, <2>1, <2>7
    <3>3. \A g \in Fences, u \in 0 .. MaxValue : g # f \/ u # v => armed[g][u] = 0
      BY <2>6, <2>7 DEF OnlyItsEvent
    <3> QED
      BY <2>7, <3>1, <3>2, <3>3
  <2>10. Signalled(t)'
    BY <1>2, <2>1, <2>6, Carried
  <2>11. DOMAIN copies' = {k.at : k \in lists'}
    BY <1>2, <1>4 DEF AloneInv
  <2>12. CASE {u \in Threads : blocked[u] = f} = {}
    <3>1. flag' = [flag EXCEPT ![f] = TRUE] /\ blocked' = blocked
      BY <1>1, <2>12 DEF E!Fire
    <3>2. At(t, "registered") /\ \A u \in Threads : blocked[u] = NoFence
      <4>1. At(t, "blocked") => blocked[t] = NoFence
        BY <2>6, <2>7, <2>12 DEF OnlyItsEvent
      <4>2. ~At(t, "blocked")
        <5>1. ~NoneArmed
          BY <2>2 DEF NoneArmed
        <5> QED
          BY <2>6, <4>1, <5>1 DEF OnlyItsEvent
      <4> QED
        BY <2>6, <4>2 DEF OnlyItsEvent, At
    <3>3. \A g \in Fences : flag'[g] => g = f
      BY <2>1, <2>6, <2>7, <3>1 DEF OnlyItsEvent
    <3>4. NoneArmed' /\ At(t, "registered")' /\ ~At(t, "blocked")'
      BY <1>2, <2>9, <3>2 DEF NoneArmed, At
    <3>5. OnlyItsEvent(t)'
      BY <1>2, <2>7, <2>8, <2>9, <3>1, <3>2, <3>3, <3>4 DEF OnlyItsEvent
    <3>6. FencesOK'
      BY <1>2, <1>4, <2>1, <2>9, <3>1 DEF AloneInv, FencesOK
    <3>7. Stage(t)'
      BY <2>10, <3>4, <3>5 DEF Stage, At
    <3> QED
      BY <2>4, <2>11, <3>6, <3>7
  <2>13. CASE {u \in Threads : blocked[u] = f} # {}
    <3>1. PICK u \in Threads : blocked[u] = f /\ blocked' = [blocked EXCEPT ![u] = NoFence] /\ flag' = flag
      BY <1>1, <2>13 DEF E!Fire
    <3>2. u = t /\ At(t, "blocked")
      BY <2>6, <3>1, Copiers DEF OnlyItsEvent
    <3>3. \A o \in Threads : blocked'[o] = NoFence
      <4>1. \A o \in Threads : o # t => blocked[o] = NoFence
        BY <2>6 DEF OnlyItsEvent
      <4> QED
        BY <2>1, <3>1, <3>2, <4>1
    <3>4. \A g \in Fences : ~flag'[g]
      BY <2>6, <3>1, <3>2 DEF OnlyItsEvent, At
    <3>5. NoneArmed' /\ At(t, "blocked")'
      BY <1>2, <2>9, <3>2 DEF NoneArmed, At
    <3>6. OnlyItsEvent(t)'
      BY <1>2, <2>8, <2>9, <3>3, <3>4, <3>5 DEF OnlyItsEvent
    <3>7. FencesOK'
      BY <1>2, <1>4, <2>1, <2>9, <3>1 DEF AloneInv, FencesOK
    <3>8. Stage(t)'
      BY <2>10, <3>5, <3>6 DEF Stage, At
    <3> QED
      BY <2>4, <2>11, <3>7, <3>8
  <2> QED
    BY <2>12, <2>13
<1> QED
  BY <1>2, <1>3, <1>4, Served

-----------------------------------------------------------------------------
LEMMA StreamSteps ==
  ASSUME ChunkInv, OnlyOverlapSpoils, NEW t \in Threads, StreamStep(t)
  PROVE  ChunkInv' /\ OnlyOverlapSpoils'
<1>1. CASE CopiesDirectly(t) \/ CopiesNothing(t) \/ StreamReturns(t)
  BY <1>1, SystemCopies, Returning
<1>2. CASE \/ Grows(t) \/ Picks(t) \/ FileUnreadable(t) \/ Fills(t) \/ Executes(t)
           \/ Counts(t) \/ Signals(t) \/ Asks(t) \/ Waits(t) \/ Wakes(t)
  <2>1. UNCHANGED <<wrong, overlapped>>
    BY <1>2 DEF Grows, Picks, FileUnreadable, Fills, Executes, Counts, Signals, Asks, Waits, Wakes
  <2>2. OnlyOverlapSpoils'
    BY <2>1 DEF OnlyOverlapSpoils
  <2> QED
    BY <1>2, <2>2, Growing, Picking, Unreadable, Filling, Executing, CountsOn, Signalling, AsksIt, WaitsOn, WakesOn
<1> QED
  BY <1>1, <1>2 DEF StreamStep

LEMMA ChunkSteps ==
  ASSUME ChunkInv, OnlyOverlapSpoils, ChunkNext
  PROVE  ChunkInv' /\ OnlyOverlapSpoils'
<1>1. ASSUME wrong' = wrong, overlapped => overlapped' PROVE OnlyOverlapSpoils'
  BY <1>1 DEF OnlyOverlapSpoils
<1>2. ASSUME NEW c \in Chunks, RegisterChunk(c) PROVE ChunkInv' /\ OnlyOverlapSpoils'
  BY <1>1, <1>2, Registration DEF RegisterChunk
<1>3. ASSUME NEW t \in Threads, NEW c \in Chunks, StreamBegins(t, c) PROVE ChunkInv' /\ OnlyOverlapSpoils'
  BY <1>1, <1>3, Beginning DEF StreamBegins
<1>4. ASSUME CopyHappens PROVE ChunkInv' /\ OnlyOverlapSpoils'
  BY <1>1, <1>4, ChunkCopied
<1>5. ASSUME GpuSignals \/ EventFires, UNCHANGED chunkVars PROVE ChunkInv' /\ OnlyOverlapSpoils'
  BY <1>1, <1>5, CopyFenceReached, CopyEventFires DEF chunkVars
<1> QED
  BY <1>2, <1>3, <1>4, <1>5, StreamSteps DEF ChunkNext

(* The staging buffers, the queue, the fence and its event are those of    *)
(* the one stream to the device, and its chunk is where the stage of the   *)
(* stream says, until streams overlap (dxchunk.cpp:62-153).                *)
THEOREM ChunkInvariant == Spec => []ChunkIInv
<1>1. Init => ChunkIInv
  <2> SUFFICES ASSUME Init PROVE ChunkIInv
    OBVIOUS
  <2>1. /\ lists = {} /\ signals = {} /\ position = [q \in Queues |-> 0] /\ reached = [f \in Fences |-> 0]
        /\ armed = [f \in Fences |-> [v \in 0 .. MaxValue |-> 0]]
        /\ flag = [f \in Fences |-> FALSE] /\ blocked = [t \in Threads |-> NoFence]
        /\ known = Registered /\ staging = [size |-> 0, holds |-> <<Nothing, Nothing>>, made |-> 0]
        /\ active = 0 /\ fenceVal = 0 /\ streaming = [t \in Threads |-> AtEase]
        /\ target = <<>> /\ copies = <<>> /\ wrong = {} /\ overlapped = FALSE
    BY DEF Init, FenceInit, GpuInit, E!EventInit, ChunkInit
  <2>2. StreamsOK
    <3>1. <<Nothing, Nothing>> \in [{1, 2} -> Chunks \cup {Nothing}]
      OBVIOUS
    <3>2. target = [i \in 1 .. 0 |-> target[i]]
      BY <2>1
    <3> QED
      BY <2>1, <3>1, <3>2, ChunkAssumption DEF StreamsOK
  <2>3. Busy = {} /\ \A t \in Threads : ~OnDevice(t)
    BY <2>1 DEF Busy, OnDevice
  <2>4. FencesOK /\ Idle
    BY <2>1, Copiers DEF FencesOK, Idle, Counted, AllQuiet
  <2>5. DOMAIN copies = {l.at : l \in lists}
    BY <2>1
  <2> QED
    BY <2>1, <2>2, <2>3, <2>4, <2>5 DEF ChunkIInv, ChunkInv, OwnBuffers, AloneInv, OnlyOverlapSpoils
<1>2. ChunkIInv /\ [Next]_vars => ChunkIInv'
  <2> SUFFICES ASSUME ChunkIInv, [Next]_vars PROVE ChunkIInv'
    OBVIOUS
  <2>1. CASE Chunked
    BY <2>1, ChunkSteps DEF Chunked, ChunkIInv
  <2>2. CASE Scheduled \/ Reduced
    BY <2>2 DEF Scheduled, Reduced, chunkVars, ChunkIInv, OnlyOverlapSpoils
  <2>3. CASE UNCHANGED vars
    <3>1. UNCHANGED <<known, staging, active, fenceVal, streaming, target, copies, wrong, overlapped, user, fenceVars>>
      BY <2>3 DEF vars, chunkVars
    <3>2. OnlyOverlapSpoils'
      BY <3>1 DEF ChunkIInv, OnlyOverlapSpoils
    <3>3. ASSUME ChunkInv PROVE ChunkInv'
      <4>1. StreamsOK' /\ OwnBuffers' /\ \A t \in Threads : OnDevice(t)' <=> OnDevice(t)
        BY <3>1, <3>3 DEF ChunkInv, StreamsOK, OwnBuffers, Busy, OnDevice
      <4>2. UNCHANGED <<lists, signals, position, reached, armed, flag, blocked>>
        BY <3>1 DEF fenceVars, gpuVars
      <4>3. ASSUME AloneInv PROVE AloneInv'
        <5>1. \A t \in Threads : Stage(t) => Stage(t)'
          BY <3>1, Kept
        <5>2. FencesOK' /\ (Idle' <=> Idle)
          BY <3>1, <4>2, <4>3 DEF AloneInv, FencesOK, Idle, Counted, AllQuiet
        <5> QED
          BY <3>1, <4>1, <4>2, <4>3, <5>1, <5>2 DEF AloneInv
      <4> QED
        BY <3>1, <3>3, <4>1, <4>3 DEF ChunkInv
    <3> QED
      BY <3>1, <3>2, <3>3 DEF ChunkIInv
  <2> QED
    BY <2>1, <2>2, <2>3 DEF Next
<1> QED
  BY <1>1, <1>2, PTL DEF Spec

(* A stream to system memory returns its chunk always, and one to the      *)
(* device as long as streams and registrations did not overlap, for any    *)
(* chunks, sizes, threads and number of streams (dxchunk.cpp:62-153).      *)
THEOREM AloneBringsChunks == Spec => []OnlyOverlapSpoils
<1>1. ChunkIInv => OnlyOverlapSpoils
  BY DEF ChunkIInv
<1> QED
  BY <1>1, ChunkInvariant, PTL

-----------------------------------------------------------------------------
(* Reductions: where the ring is in its two passes.  Chunk c starts from   *)
(* device c and is at a device as far behind as it made steps.             *)
Steps(c, d) == IF c <= d THEN d - c ELSE d + many - c
Before(d)   == IF d = 0 THEN many - 1 ELSE d - 1

Turns ==
  /\ many \in 1 .. MaxDevices
  /\ round \in [pass : {"idle", "scatter", "gather", "returned"}, step : Nat, i : Nat]
  /\ round.step = 0 \/ round.step <= many - 2
  /\ round.i < many
  /\ round.pass \in {"scatter", "gather"} => many > 1
  /\ round.pass \in {"idle", "returned"} => round.step = 0 /\ round.i = 0
  /\ buffers \in [Ring -> [0 .. many -> [Ring -> Nat]]]
  /\ additions \subseteq [n : Nat, from : Ring, to : Ring]
  /\ behind \in BOOLEAN

(* The chunks that are copied only: the first pass brings them everywhere, *)
(* and what does not divide stays.                                         *)
CopiesInv ==
  /\ \A d \in Ring : buffers[d][many] = Single(d)
  /\ \A c \in Ring \ {0}, d \in Ring :
       \/ c = d \/ round.pass = "gather" \/ (round.pass = "returned" /\ many > 1)
       \/ round.pass = "scatter" /\ Steps(c, d) <= round.step
       \/ round.pass = "scatter" /\ Steps(c, d) = round.step + 1 /\ Before(d) < round.i
       => buffers[d][c] = Single(c)

Untouched == round.pass = "idle" \/ (round.pass = "scatter" /\ round.step = 0 /\ round.i = 0)

(* The first chunk: what device 1 had there is gone with the first copy.   *)
FirstInv ==
  /\ Untouched => additions = {} /\ \A d \in Ring : buffers[d][0] = Single(d)
  /\ ~Untouched /\ many > 1 => \A d \in Ring : buffers[d][0][1] = 0

(* The second pass brings everyone what the last device has.               *)
GatheredInv ==
  ~behind /\ many > 1 =>
    /\ round.pass = "gather" /\ (round.step > 0 \/ round.i > 0) => additions = {}
    /\ round.pass = "gather" =>
         \A d \in Ring : d < round.step \/ (d = round.step /\ d > 0 /\ round.i >= d) =>
           buffers[d][0] = buffers[many - 1][0]
    /\ round.pass = "returned" =>
         additions = {} /\ \A d \in Ring : buffers[d][0] = buffers[many - 1][0]

ReduceInv == Turns /\ CopiesInv /\ FirstInv /\ GatheredInv

LEMMA NextInRing ==
  ASSUME NEW n \in Nat \ {0}, NEW i \in 0 .. n - 1
  PROVE  (i + 1) % n = IF i = n - 1 THEN 0 ELSE i + 1
<1>1. CASE i = n - 1
  <2>1. n % n = 0
    OBVIOUS
  <2>2. QED
    BY <1>1, <2>1
<1>2. CASE i < n - 1
  <2>1. i + 1 \in Nat /\ i + 1 < n
    BY <1>2
  <2>2. QED
    BY <1>2, <2>1
<1>3. QED
  BY <1>1, <1>2

LEMMA ScatteredChunk ==
  ASSUME NEW n \in Nat \ {0}, NEW i \in 0 .. n - 1, NEW s \in 0 .. n - 1
  PROVE  (i + n - s) % n = IF i >= s THEN i - s ELSE i + n - s
<1>1. CASE i >= s
  <2>1. i + n - s \in n .. 2 * n - 1
    BY <1>1
  <2>2. \A a \in n .. 2 * n - 1 : a % n = a - n
    OBVIOUS
  <2>3. QED
    BY <1>1, <2>1, <2>2
<1>2. CASE i < s
  <2>1. i + n - s \in Nat /\ i + n - s < n
    BY <1>2
  <2>2. \A a \in Nat : a < n => a % n = a
    OBVIOUS
  <2>3. QED
    BY <1>2, <2>1, <2>2
<1>3. QED
  BY <1>1, <1>2

(* The second pass reaches the first chunk from the device before.         *)
LEMMA GatheredFirst ==
  ASSUME NEW n \in Nat \ {0}, NEW i \in 0 .. n - 1, NEW s \in Nat, s <= n - 1
  PROVE  /\ (i + n + 1 - s) % n \in 0 .. n - 1
         /\ (i + n + 1 - s) % n = 0 <=> i + 1 = s \/ (s = 0 /\ i = n - 1)
<1>1. PICK a \in Nat : a = i + n + 1 - s
  OBVIOUS
<1>2. a % n \in 0 .. n - 1
  OBVIOUS
<1>3. CASE i + 1 >= s /\ i + 1 - s < n
  <2>1. a \in n .. 2 * n - 1
    BY <1>1, <1>3
  <2>2. a % n = a - n
    BY <2>1
  <2>3. QED
    BY <1>1, <1>2, <1>3, <2>2
<1>4. CASE i + 1 < s
  <2>1. a < n /\ a # 0
    BY <1>1, <1>4
  <2>2. a % n = a
    BY <2>1
  <2>3. QED
    BY <1>1, <1>2, <1>4, <2>1, <2>2
<1>5. CASE i + 1 - s = n
  <2>1. s = 0 /\ i = n - 1 /\ a = 2 * n
    BY <1>1, <1>5
  <2>2. (2 * n) % n = 0
    OBVIOUS
  <2>3. QED
    BY <1>1, <2>1, <2>2
<1>6. QED
  BY <1>3, <1>4, <1>5

LEMMA RingFacts ==
  ASSUME Turns
  PROVE  /\ many \in Nat \ {0} /\ Ring = 0 .. many - 1
         /\ \A i \in Ring : Receiver(i) \in Ring /\ Receiver(i) = IF i = many - 1 THEN 0 ELSE i + 1
         /\ round.i \in Ring /\ round.step \in Nat /\ round.step <= many - 1
         /\ \A d \in Ring : Single(d) \in [Ring -> Nat] /\ \A e \in Ring : Single(d)[e] = IF e = d THEN 1 ELSE 0
<1>1. many \in Nat \ {0} /\ Ring = 0 .. many - 1
  BY AllReduceAssumption DEF Turns, Ring
<1>2. \A i \in Ring : Receiver(i) = IF i = many - 1 THEN 0 ELSE i + 1
  BY <1>1, NextInRing DEF Receiver
<1>3. \A i \in Ring : Receiver(i) \in Ring
  BY <1>1, <1>2
<1>4. round.i \in Nat /\ round.i < many /\ round.step \in Nat /\ (round.step = 0 \/ round.step <= many - 2)
  BY DEF Turns
<1>5. \A d \in Ring : Single(d) \in [Ring -> Nat] /\ \A e \in Ring : Single(d)[e] = IF e = d THEN 1 ELSE 0
  BY DEF Single
<1>6. round.i \in Ring /\ round.step <= many - 1
  BY <1>1, <1>4
<1>7. QED
  BY <1>1, <1>2, <1>3, <1>4, <1>5, <1>6

(* Whose turn it can be, of how many, while a pass goes on.                *)
LEMMA InPass ==
  ASSUME Turns, round.pass \in {"scatter", "gather"}
  PROVE  \E n \in Nat, i \in Nat, s \in Nat :
           /\ n = many /\ i = round.i /\ s = round.step
           /\ n > 1 /\ Ring = 0 .. n - 1 /\ i \in 0 .. n - 1 /\ s \in 0 .. n - 1 /\ s <= n - 2
<1>1. many \in Nat /\ Ring = 0 .. many - 1
  BY RingFacts
<1>2. many > 1 /\ (round.step = 0 \/ round.step <= many - 2) /\ round.i < many
  BY DEF Turns
<1>3. round.i \in Nat /\ round.step \in Nat
  BY DEF Turns
<1>4. PICK n \in Nat, i \in Nat, s \in Nat : n = many /\ i = round.i /\ s = round.step
  BY <1>1, <1>3
<1>5. n > 1 /\ (s = 0 \/ s <= n - 2) /\ i < n
  BY <1>2, <1>4
<1>6. i \in 0 .. n - 1 /\ s \in 0 .. n - 1 /\ s <= n - 2
  BY <1>5
<1>7. Ring = 0 .. n - 1
  BY <1>1, <1>4
<1> QED
  BY <1>4, <1>5, <1>6, <1>7

(* The next turn: of the next device, of the next step, or the pass ends.  *)
LEMMA TurnsFollow ==
  ASSUME Turns, NextTurn, round.pass \in {"scatter", "gather"}
  PROVE  /\ many > 1
         /\ round.i < many - 1 =>
              round'.pass = round.pass /\ round'.step = round.step /\ round'.i = round.i + 1
         /\ round.i = many - 1 /\ round.step < many - 2 =>
              round'.pass = round.pass /\ round'.step = round.step + 1 /\ round'.i = 0
         /\ round.i = many - 1 /\ round.step = many - 2 =>
              /\ round'.pass = IF round.pass = "scatter" THEN "gather" ELSE "returned"
              /\ round'.step = 0 /\ round'.i = 0
         /\ round.i = many - 1 \/ round.i < many - 1
         /\ round.step = many - 2 \/ round.step < many - 2
         /\ round' \in [pass : {"idle", "scatter", "gather", "returned"}, step : Nat, i : Nat]
<1>0. PICK n \in Nat, i \in Nat, s \in Nat :
        /\ n = many /\ i = round.i /\ s = round.step
        /\ n > 1 /\ Ring = 0 .. n - 1 /\ i \in 0 .. n - 1 /\ s \in 0 .. n - 1 /\ s <= n - 2
  BY InPass
<1>1. /\ many \in Nat /\ many > 1 /\ round.i \in Nat /\ round.step \in Nat
      /\ round.i = many - 1 \/ round.i < many - 1
      /\ round.step = many - 2 \/ round.step < many - 2
  BY <1>0
<1>2. CASE round.i < many - 1
  <2>1. round' = [round EXCEPT !.i = @ + 1]
    BY <1>2 DEF NextTurn
  <2>2. round \in [pass : {"idle", "scatter", "gather", "returned"}, step : Nat, i : Nat]
    BY DEF Turns
  <2>3. /\ round'.pass = round.pass /\ round'.step = round.step /\ round'.i = round.i + 1
        /\ round' \in [pass : {"idle", "scatter", "gather", "returned"}, step : Nat, i : Nat]
    BY <2>1, <2>2
  <2>4. round.i # many - 1
    BY <1>1, <1>2
  <2>5. round.i < many - 1 =>
              round'.pass = round.pass /\ round'.step = round.step /\ round'.i = round.i + 1
    BY <2>3
  <2>6. /\ round.i = many - 1 /\ round.step < many - 2 =>
              round'.pass = round.pass /\ round'.step = round.step + 1 /\ round'.i = 0
        /\ round.i = many - 1 /\ round.step = many - 2 =>
              /\ round'.pass = IF round.pass = "scatter" THEN "gather" ELSE "returned"
              /\ round'.step = 0 /\ round'.i = 0
    BY <2>4
  <2>7. QED
    BY <1>1, <2>3, <2>5, <2>6
<1>3. CASE round.i = many - 1 /\ round.step < many - 2
  <2>1. ~(round.i < many - 1)
    BY <1>1, <1>3
  <2>2. round' = [round EXCEPT !.step = @ + 1, !.i = 0]
    BY <1>3, <2>1 DEF NextTurn
  <2>3. round \in [pass : {"idle", "scatter", "gather", "returned"}, step : Nat, i : Nat]
    BY DEF Turns
  <2>4. /\ round'.pass = round.pass /\ round'.step = round.step + 1 /\ round'.i = 0
        /\ round' \in [pass : {"idle", "scatter", "gather", "returned"}, step : Nat, i : Nat]
    <3>1. PICK mid : mid = [round EXCEPT !.step = @ + 1]
      OBVIOUS
    <3>2. round.step \in Nat
      BY <2>3
    <3>3. /\ mid.pass = round.pass /\ mid.step = round.step + 1
          /\ mid \in [pass : {"idle", "scatter", "gather", "returned"}, step : Nat, i : Nat]
      BY <2>3, <3>1, <3>2
    <3>4. round' = [mid EXCEPT !.i = 0]
      BY <2>2, <2>3, <3>1
    <3> QED
      BY <3>3, <3>4
  <2>5. QED
    BY <1>0, <1>1, <1>3, <2>1, <2>4
<1>4. CASE round.i = many - 1 /\ round.step = many - 2
  <2>1. ~(round.i < many - 1) /\ ~(round.step < many - 2)
    BY <1>1, <1>4
  <2>2. round' = [pass |-> IF round.pass = "scatter" THEN "gather" ELSE "returned", step |-> 0, i |-> 0]
    BY <2>1 DEF NextTurn
  <2>3. /\ round'.pass = IF round.pass = "scatter" THEN "gather" ELSE "returned"
        /\ round'.step = 0 /\ round'.i = 0
        /\ round' \in [pass : {"idle", "scatter", "gather", "returned"}, step : Nat, i : Nat]
    BY <2>2
  <2>4. QED
    BY <1>0, <1>1, <1>4, <2>1, <2>3
<1>5. QED
  BY <1>1, <1>2, <1>3, <1>4

LEMMA CopyMoves ==
  ASSUME Turns, NEW i \in Ring, NEW c \in Ring, buffers' = Copied(i, c)
  PROVE  /\ buffers' \in [Ring -> [0 .. many -> [Ring -> Nat]]]
         /\ buffers'[Receiver(i)][c] = buffers[i][c]
         /\ \A d \in Ring, x \in 0 .. many :
              d # Receiver(i) \/ x # c => buffers'[d][x] = buffers[d][x]
<1>1. PICK r \in Ring : r = Receiver(i)
  BY RingFacts
<1>2. c \in 0 .. many
  BY RingFacts
<1>3. PICK row, new : row = buffers[r] /\ new = [row EXCEPT ![c] = buffers[i][c]]
  OBVIOUS
<1>4. row \in [0 .. many -> [Ring -> Nat]] /\ buffers[i][c] \in [Ring -> Nat]
  BY <1>2, <1>3 DEF Turns
<1>5. /\ new \in [0 .. many -> [Ring -> Nat]] /\ new[c] = buffers[i][c]
      /\ \A x \in 0 .. many : x # c => new[x] = row[x]
  BY <1>2, <1>3, <1>4
<1>6. buffers' = [buffers EXCEPT ![r] = new]
  BY <1>1, <1>3 DEF Copied
<1>7. /\ buffers' \in [Ring -> [0 .. many -> [Ring -> Nat]]] /\ buffers'[r] = new
      /\ \A d \in Ring : d # r => buffers'[d] = buffers[d]
  BY <1>5, <1>6 DEF Turns
<1>8. buffers'[r][c] = buffers[i][c]
  BY <1>5, <1>7
<1>9. ASSUME NEW d \in Ring, NEW x \in 0 .. many, d # r \/ x # c
      PROVE  buffers'[d][x] = buffers[d][x]
  <2>1. CASE d # r
    BY <1>7, <2>1
  <2>2. CASE d = r
    BY <1>3, <1>5, <1>7, <1>9, <2>2
  <2> QED
    BY <2>1, <2>2
<1>10. QED
  BY <1>1, <1>7, <1>8, <1>9

LEMMA ReductionStarts == Init => ReduceInv
<1> SUFFICES ASSUME Init PROVE ReduceInv
  OBVIOUS
<1>1. /\ many \in 1 .. MaxDevices /\ round = [pass |-> "idle", step |-> 0, i |-> 0]
      /\ buffers = [d \in Ring |-> [c \in 0 .. many |-> Single(d)]]
      /\ additions = {} /\ behind = FALSE
  BY DEF Init, ReduceInit
<1>2. many \in Nat \ {0} /\ Ring = 0 .. many - 1
  BY <1>1, AllReduceAssumption DEF Ring
<1>3. \A d \in Ring : Single(d) \in [Ring -> Nat]
  BY DEF Single
<1>4. buffers \in [Ring -> [0 .. many -> [Ring -> Nat]]]
  BY <1>1, <1>3
<1>5. \A d \in Ring, c \in 0 .. many : buffers[d][c] = Single(d)
  BY <1>1
<1>6. Turns
  <2>1. round \in [pass : {"idle", "scatter", "gather", "returned"}, step : Nat, i : Nat]
        /\ round.pass = "idle" /\ round.step = 0 /\ round.i = 0
    BY <1>1
  <2>2. round.i < many
    BY <1>2, <2>1
  <2> QED
    BY <1>1, <1>4, <2>1, <2>2 DEF Turns
<1>7. CopiesInv
  BY <1>1, <1>2, <1>5 DEF CopiesInv
<1>8. FirstInv /\ GatheredInv
  BY <1>1, <1>2, <1>5 DEF FirstInv, GatheredInv, Untouched
<1> QED
  BY <1>6, <1>7, <1>8 DEF ReduceInv

LEMMA ReductionBegins == ReduceInv /\ ReduceBegins => ReduceInv'
<1> SUFFICES ASSUME ReduceInv, ReduceBegins PROVE ReduceInv'
  OBVIOUS
<1>1. /\ Turns /\ round.pass = "idle" /\ round.step = 0 /\ round.i = 0
      /\ many \in Nat \ {0} /\ Ring = 0 .. many - 1
      /\ many' = many /\ buffers' = buffers /\ additions' = additions /\ behind' = behind
      /\ Ring' = Ring /\ \A d : Single(d)' = Single(d)
  BY RingFacts DEF ReduceInv, Turns, ReduceBegins, Ring, Single
<1>2. /\ round' \in [pass : {"idle", "scatter", "gather", "returned"}, step : Nat, i : Nat]
      /\ round'.pass = IF many = 1 THEN "returned" ELSE "scatter"
      /\ round'.step = 0 /\ round'.i = 0
  BY <1>1 DEF ReduceBegins, Turns
<1>3. Turns'
  BY <1>1, <1>2 DEF Turns
<1>4. CopiesInv'
  <2>1. \A d \in Ring : buffers[d][many] = Single(d)
    BY <1>1 DEF ReduceInv, CopiesInv
  <2>2. \A c \in Ring \ {0} : buffers[c][c] = Single(c)
    BY <1>1 DEF ReduceInv, CopiesInv
  <2>3. \A c, d \in Ring : Before(d) \in Nat /\ (Steps(c, d) <= 0 => c = d)
    BY <1>1 DEF Before, Steps
  <2>4. \A c, d \in Ring : Before(d)' = Before(d) /\ Steps(c, d)' = Steps(c, d)
    BY <1>1 DEF Before, Steps
  <2>5. round'.pass # "gather" /\ ~(round'.pass = "returned" /\ many' > 1)
    BY <1>1, <1>2
  <2> QED
    BY <1>1, <1>2, <2>1, <2>2, <2>3, <2>4, <2>5 DEF CopiesInv
<1>5. FirstInv'
  <2>1. additions = {} /\ \A d \in Ring : buffers[d][0] = Single(d)
    BY <1>1 DEF ReduceInv, FirstInv, Untouched
  <2>2. Untouched' \/ ~(many' > 1)
    BY <1>1, <1>2 DEF Untouched
  <2> QED
    BY <1>1, <2>1, <2>2 DEF FirstInv
<1>6. GatheredInv'
  BY <1>1, <1>2 DEF GatheredInv
<1> QED
  BY <1>3, <1>4, <1>5, <1>6 DEF ReduceInv

LEMMA Scattering == ReduceInv /\ ScatterChunk => ReduceInv'
<1> SUFFICES ASSUME ReduceInv, ScatterChunk PROVE ReduceInv'
  OBVIOUS
<1>1. Turns /\ CopiesInv /\ FirstInv /\ GatheredInv /\ round.pass = "scatter"
  BY DEF ReduceInv, ScatterChunk
<1>2. PICK i \in Ring : i = round.i
  BY <1>1, RingFacts
<1>0. PICK n \in Nat, j \in Nat, step \in Nat :
        /\ n = many /\ j = round.i /\ step = round.step
        /\ n > 1 /\ Ring = 0 .. n - 1 /\ j \in 0 .. n - 1 /\ step \in 0 .. n - 1 /\ step <= n - 2
  BY <1>1, InPass
<1>3. step = round.step
  BY <1>0
<1>4. n = many
  BY <1>0
<1>5. /\ n > 1 /\ Ring = 0 .. n - 1 /\ i \in 0 .. n - 1 /\ step \in 0 .. n - 1 /\ step <= n - 2
  BY <1>0, <1>2
<1>6. PICK c \in Ring : c = IF i >= step THEN i - step ELSE i + n - step
  <2>1. PICK x : x = IF i >= step THEN i - step ELSE i + n - step
    OBVIOUS
  <2>2. i \in Nat /\ i < n /\ step \in Nat /\ step <= n - 2
    BY <1>5
  <2>3. x \in 0 .. n - 1
    BY <2>1, <2>2
  <2> QED
    BY <1>5, <2>1, <2>3
<1>7. (i + many - round.step) % many = c
  <2>1. n \in Nat \ {0} /\ i \in 0 .. n - 1 /\ step \in 0 .. n - 1
    BY <1>5
  <2>2. (i + n - step) % n = IF i >= step THEN i - step ELSE i + n - step
    BY <2>1, ScatteredChunk
  <2> QED
    BY <1>3, <1>4, <1>6, <2>2
<1>8. PICK r \in Ring : r = Receiver(i)
  BY <1>1, RingFacts
<1>9. r = IF i = n - 1 THEN 0 ELSE i + 1
  BY <1>1, <1>4, <1>8, RingFacts
<1>10. /\ many' = many /\ behind' = behind /\ Ring' = Ring
       /\ \A d : Single(d)' = Single(d)
       /\ \A x, d \in Ring : Before(d)' = Before(d) /\ Steps(x, d)' = Steps(x, d)
  BY DEF ScatterChunk, Ring, Single, Before, Steps
<1>11. /\ buffers' = Copied(i, c) /\ NextTurn
       /\ additions' = additions \cup {[n |-> round.step * many + round.i, from |-> round.i, to |-> Receiver(round.i)]}
  BY <1>2, <1>7 DEF ScatterChunk
<1>12. /\ buffers' \in [Ring -> [0 .. many -> [Ring -> Nat]]]
       /\ buffers'[r][c] = buffers[i][c]
       /\ \A d \in Ring, x \in 0 .. many : d # r \/ x # c => buffers'[d][x] = buffers[d][x]
  BY <1>1, <1>8, <1>11, CopyMoves
<1>13. \/ i < n - 1 /\ round'.pass = "scatter" /\ round'.step = step /\ round'.i = i + 1
       \/ i = n - 1 /\ step < n - 2 /\ round'.pass = "scatter" /\ round'.step = step + 1 /\ round'.i = 0
       \/ i = n - 1 /\ step = n - 2 /\ round'.pass = "gather" /\ round'.step = 0 /\ round'.i = 0
  BY <1>1, <1>2, <1>3, <1>4, <1>11, TurnsFollow
<1>14. round' \in [pass : {"idle", "scatter", "gather", "returned"}, step : Nat, i : Nat]
  BY <1>1, <1>11, TurnsFollow
<1>15. Turns'
  <2>1. round.step * many + round.i \in Nat
    BY <1>2, <1>3, <1>4, <1>5
  <2>2. additions' \subseteq [n : Nat, from : Ring, to : Ring]
    <3>1. PICK new : new = [n |-> round.step * many + round.i, from |-> round.i, to |-> Receiver(round.i)]
      OBVIOUS
    <3>2. new \in [n : Nat, from : Ring, to : Ring]
      BY <1>2, <1>8, <2>1, <3>1
    <3>3. additions \subseteq [n : Nat, from : Ring, to : Ring]
      BY <1>1 DEF Turns
    <3>4. additions' = additions \cup {new}
      BY <1>11, <3>1
    <3> QED
      BY <3>2, <3>3, <3>4
  <2>3. many \in 1 .. MaxDevices /\ behind \in BOOLEAN
    BY <1>1 DEF Turns
  <2>4. /\ round'.step = 0 \/ round'.step <= many - 2
        /\ round'.i < many
    BY <1>4, <1>5, <1>13
  <2>5. round'.pass \notin {"idle", "returned"} /\ many > 1
    BY <1>4, <1>5, <1>13
  <2> QED
    BY <1>10, <1>12, <1>14, <2>2, <2>3, <2>4, <2>5 DEF Turns
<1>16. CopiesInv'
  <2>1. \A d \in Ring : buffers'[d][many] = Single(d)
    <3>1. many # c /\ many \in 0 .. many
      BY <1>4, <1>5, <1>6
    <3> QED
      BY <1>1, <1>12, <3>1 DEF CopiesInv
  <2>2. ASSUME NEW x \in Ring \ {0}, NEW d \in Ring,
               \/ x = d \/ round'.pass = "gather"
               \/ round'.pass = "scatter" /\ Steps(x, d) <= round'.step
               \/ round'.pass = "scatter" /\ Steps(x, d) = round'.step + 1 /\ Before(d) < round'.i
        PROVE  buffers'[d][x] = Single(x)
    <3>1. x \in 0 .. many /\ x \in Nat /\ d \in Nat /\ x < n /\ d < n
      BY <1>4, <1>5
    <3>2. /\ Steps(x, d) = IF x <= d THEN d - x ELSE d + n - x
          /\ Before(d) = IF d = 0 THEN n - 1 ELSE d - 1
      BY <1>4 DEF Steps, Before
    <3>3. Steps(c, i) = step
      BY <1>4, <1>5, <1>6 DEF Steps
    <3>4. CASE d = r /\ x = c
      <4>1. buffers[i][c] = Single(c)
        BY <1>1, <1>3, <3>3, <3>4 DEF CopiesInv
      <4> QED
        BY <1>12, <3>4, <4>1
    <3>5. CASE ~(d = r /\ x = c)
      <4>1. x = d \/ Steps(x, d) <= step \/ (Steps(x, d) = step + 1 /\ Before(d) < i)
        <5>1. CASE x = d
          BY <5>1
        <5>2. CASE x # d /\ Steps(x, d) <= step
          BY <5>2
        <5>3. CASE Steps(x, d) > step
          <6>1. Steps(x, d) = step + 1 /\ Before(d) <= i
            BY <1>5, <1>13, <2>2, <3>1, <3>2, <5>3
          <6>2. Before(d) # i
            <7>1. ASSUME Before(d) = i PROVE FALSE
              <8>1. d = r
                BY <1>5, <1>9, <3>1, <3>2, <7>1
              <8>2. x = c
                BY <1>5, <1>6, <1>9, <3>1, <3>2, <6>1, <8>1
              <8> QED
                BY <3>5, <8>1, <8>2
            <7> QED
              BY <7>1
          <6> QED
            BY <1>5, <3>1, <3>2, <6>1, <6>2
        <5> QED
          BY <1>5, <3>1, <3>2, <5>1, <5>2, <5>3
      <4>2. buffers[d][x] = Single(x)
        BY <1>1, <1>2, <1>3, <4>1 DEF CopiesInv
      <4> QED
        BY <1>12, <3>1, <3>5, <4>2
    <3> QED
      BY <3>4, <3>5
  <2>3. round'.pass # "returned"
    BY <1>13
  <2> QED
    BY <1>10, <2>1, <2>2, <2>3 DEF CopiesInv
<1>17. FirstInv'
  <2>1. ~Untouched'
    BY <1>5, <1>13 DEF Untouched
  <2>2. 1 \in Ring /\ 0 \in Ring /\ 0 \in 0 .. many
    BY <1>4, <1>5
  <2>3. ASSUME NEW d \in Ring PROVE buffers'[d][0][1] = 0
    <3>1. CASE Untouched
      <4>1. step = 0 /\ i = 0 /\ c = 0 /\ r = 1
        BY <1>1, <1>2, <1>3, <1>5, <1>6, <1>9, <3>1 DEF Untouched
      <4>2. \A e \in Ring : buffers[e][0] = Single(e)
        BY <1>1, <3>1 DEF FirstInv
      <4>3. \A e \in Ring : Single(e)[1] = IF e = 1 THEN 1 ELSE 0
        BY <1>1, <2>2, RingFacts
      <4>4. d = 1 => buffers'[d][0] = Single(0)
        BY <1>12, <2>2, <4>1, <4>2
      <4>5. d # 1 => buffers'[d][0] = Single(d)
        BY <1>12, <2>2, <4>1, <4>2
      <4> QED
        BY <2>2, <4>3, <4>4, <4>5
    <3>2. CASE ~Untouched
      <4>1. \A e \in Ring : buffers[e][0][1] = 0
        BY <1>1, <1>4, <1>5, <3>2 DEF FirstInv
      <4>2. d = r /\ c = 0 => buffers'[d][0] = buffers[i][0]
        BY <1>12
      <4>3. ~(d = r /\ c = 0) => buffers'[d][0] = buffers[d][0]
        BY <1>12, <2>2
      <4> QED
        BY <4>1, <4>2, <4>3
    <3> QED
      BY <3>1, <3>2
  <2> QED
    BY <1>10, <2>1, <2>3 DEF FirstInv
<1>18. GatheredInv'
  <2>1. round'.pass # "returned" /\ (round'.pass = "gather" => round'.step = 0 /\ round'.i = 0)
    BY <1>13
  <2>2. \A d \in Ring : ~(d < 0) /\ ~(d = 0 /\ d > 0)
    BY <1>5
  <2> QED
    BY <1>10, <2>1, <2>2 DEF GatheredInv
<1> QED
  BY <1>15, <1>16, <1>17, <1>18 DEF ReduceInv

LEMMA Gathering == ReduceInv /\ GatherChunk => ReduceInv'
<1> SUFFICES ASSUME ReduceInv, GatherChunk PROVE ReduceInv'
  OBVIOUS
<1>1. Turns /\ CopiesInv /\ FirstInv /\ GatheredInv /\ round.pass = "gather"
  BY DEF ReduceInv, GatherChunk
<1>2. PICK i \in Ring : i = round.i
  BY <1>1, RingFacts
<1>0. PICK n \in Nat, j \in Nat, step \in Nat :
        /\ n = many /\ j = round.i /\ step = round.step
        /\ n > 1 /\ Ring = 0 .. n - 1 /\ j \in 0 .. n - 1 /\ step \in 0 .. n - 1 /\ step <= n - 2
  BY <1>1, InPass
<1>3. step = round.step
  BY <1>0
<1>4. n = many
  BY <1>0
<1>5. /\ n > 1 /\ Ring = 0 .. n - 1 /\ i \in 0 .. n - 1 /\ step \in 0 .. n - 1 /\ step <= n - 2
  BY <1>0, <1>2
<1>6. PICK c : c = GatheredChunk(i, step)
  OBVIOUS
<1>7. c \in Ring /\ (c = 0 <=> i + 1 = step \/ (step = 0 /\ i = n - 1))
  BY <1>4, <1>5, <1>6, GatheredFirst DEF GatheredChunk
<1>8. PICK r \in Ring : r = Receiver(i)
  BY <1>1, RingFacts
<1>9. r = IF i = n - 1 THEN 0 ELSE i + 1
  BY <1>1, <1>4, <1>8, RingFacts
<1>10. /\ many' = many /\ additions' = additions /\ Ring' = Ring
       /\ \A d : Single(d)' = Single(d)
       /\ behind' = (behind \/ additions # {})
       /\ buffers' = Copied(i, c) /\ NextTurn
  BY <1>2, <1>3, <1>6 DEF GatherChunk, Ring, Single
<1>11. /\ buffers' \in [Ring -> [0 .. many -> [Ring -> Nat]]]
       /\ buffers'[r][c] = buffers[i][c]
       /\ \A d \in Ring, x \in 0 .. many : d # r \/ x # c => buffers'[d][x] = buffers[d][x]
  BY <1>1, <1>7, <1>8, <1>10, CopyMoves
<1>12. \/ i < n - 1 /\ round'.pass = "gather" /\ round'.step = step /\ round'.i = i + 1
       \/ i = n - 1 /\ step < n - 2 /\ round'.pass = "gather" /\ round'.step = step + 1 /\ round'.i = 0
       \/ i = n - 1 /\ step = n - 2 /\ round'.pass = "returned" /\ round'.step = 0 /\ round'.i = 0
  BY <1>1, <1>2, <1>3, <1>4, <1>10, TurnsFollow
<1>13. round' \in [pass : {"idle", "scatter", "gather", "returned"}, step : Nat, i : Nat]
  BY <1>1, <1>10, TurnsFollow
<1>14. 0 \in Ring /\ 1 \in Ring /\ 0 \in 0 .. many /\ many \in 0 .. many /\ n - 1 \in Ring
  BY <1>4, <1>5
<1>15. Turns'
  <2>1. many \in 1 .. MaxDevices /\ behind' \in BOOLEAN /\ additions \subseteq [n : Nat, from : Ring, to : Ring]
    BY <1>1, <1>10 DEF Turns
  <2>2. /\ round'.step = 0 \/ round'.step <= many - 2
        /\ round'.i < many
    BY <1>4, <1>5, <1>12
  <2>3. round'.pass # "idle" /\ many > 1 /\ (round'.pass = "returned" => round'.step = 0 /\ round'.i = 0)
    BY <1>4, <1>5, <1>12
  <2> QED
    BY <1>10, <1>11, <1>13, <2>1, <2>2, <2>3 DEF Turns
<1>16. CopiesInv'
  <2>1. \A d \in Ring : buffers'[d][many] = Single(d)
    <3>1. many # c
      BY <1>4, <1>5, <1>7
    <3> QED
      BY <1>1, <1>11, <1>14, <3>1 DEF CopiesInv
  <2>2. \A x \in Ring \ {0}, d \in Ring : buffers[d][x] = Single(x)
    BY <1>1 DEF CopiesInv
  <2>3. ASSUME NEW x \in Ring \ {0}, NEW d \in Ring PROVE buffers'[d][x] = Single(x)
    <3>1. x \in 0 .. many
      BY <1>4, <1>5
    <3>2. CASE d = r /\ x = c
      BY <1>11, <2>2, <3>2
    <3>3. CASE ~(d = r /\ x = c)
      BY <1>11, <2>2, <3>1, <3>3
    <3> QED
      BY <3>2, <3>3
  <2> QED
    BY <1>10, <2>1, <2>3 DEF CopiesInv
<1>17. FirstInv'
  <2>1. ~Untouched' /\ ~Untouched
    BY <1>1, <1>12 DEF Untouched
  <2>2. \A e \in Ring : buffers[e][0][1] = 0
    BY <1>1, <1>4, <1>5, <2>1 DEF FirstInv
  <2>3. ASSUME NEW d \in Ring PROVE buffers'[d][0][1] = 0
    <3>1. d = r /\ c = 0 => buffers'[d][0] = buffers[i][0]
      BY <1>11
    <3>2. ~(d = r /\ c = 0) => buffers'[d][0] = buffers[d][0]
      BY <1>11, <1>14
    <3> QED
      BY <2>2, <3>1, <3>2
  <2> QED
    BY <1>10, <2>1, <2>3 DEF FirstInv
<1>18. GatheredInv'
  <2> SUFFICES ASSUME ~behind' PROVE GatheredInv'
    BY DEF GatheredInv
  <2>1. ~behind /\ additions = {} /\ additions' = {}
    BY <1>10
  <2>2. \A d \in Ring : d < step \/ (d = step /\ d > 0 /\ i >= d) => buffers[d][0] = buffers[n - 1][0]
    BY <1>1, <1>2, <1>3, <1>4, <1>5, <2>1 DEF GatheredInv
  <2>3. c = 0 => /\ r = step /\ buffers[i][0] = buffers[n - 1][0]
    <3>1. CASE i + 1 = step
      <4>1. r = step
        BY <1>5, <1>9, <3>1
      <4>2. i < step /\ i \in Ring
        BY <1>5, <3>1
      <4> QED
        BY <2>2, <4>1, <4>2
    <3>2. CASE step = 0 /\ i = n - 1
      BY <1>9, <3>2
    <3> QED
      BY <1>7, <3>1, <3>2
  <2>4. buffers'[n - 1][0] = buffers[n - 1][0]
    <3>1. ~(n - 1 = r /\ c = 0)
      BY <1>5, <2>3
    <3> QED
      BY <1>11, <1>14, <3>1
  <2>5. ASSUME NEW d \in Ring,
               \/ d < step \/ (d = step /\ d > 0 /\ i >= d) \/ d = n - 1
               \/ c = 0 /\ d = step
        PROVE  buffers'[d][0] = buffers'[n - 1][0]
    <3>1. CASE c = 0 /\ d = step
      BY <1>11, <2>3, <2>4, <3>1
    <3>2. CASE ~(c = 0 /\ d = step)
      <4>1. buffers'[d][0] = buffers[d][0]
        BY <1>11, <1>14, <2>3, <3>2
      <4> QED
        BY <2>2, <2>4, <2>5, <3>2, <4>1
    <3> QED
      BY <3>1, <3>2
  <2>6. ASSUME round'.pass = "gather", NEW d \in Ring,
               d < round'.step \/ (d = round'.step /\ d > 0 /\ round'.i >= d)
        PROVE  buffers'[d][0] = buffers'[n - 1][0]
    <3>1. d \in Nat
      BY <1>5
    <3>2. CASE i < n - 1
      <4>1. d < step \/ (d = step /\ d > 0 /\ (i >= d \/ i + 1 = step))
        BY <1>5, <1>12, <2>6, <3>1, <3>2
      <4> QED
        BY <1>7, <2>5, <4>1
    <3>3. CASE i = n - 1
      <4>1. d <= step
        BY <1>5, <1>12, <2>6, <3>1, <3>3
      <4>2. d < step \/ (d = step /\ d > 0 /\ i >= d) \/ (d = step /\ step = 0)
        BY <1>5, <3>1, <3>3, <4>1
      <4> QED
        BY <1>7, <2>5, <3>3, <4>2
    <3> QED
      BY <1>5, <3>2, <3>3
  <2>7. ASSUME round'.pass = "returned", NEW d \in Ring PROVE buffers'[d][0] = buffers'[n - 1][0]
    <3>1. d \in 0 .. n - 1 /\ i = n - 1 /\ step = n - 2
      BY <1>5, <1>12, <2>7
    <3>2. d < step \/ (d = step /\ d > 0 /\ i >= d) \/ (d = step /\ step = 0) \/ d = n - 1
      BY <1>5, <3>1
    <3> QED
      BY <1>7, <2>5, <3>1, <3>2
  <2> QED
    BY <1>4, <1>10, <2>1, <2>6, <2>7 DEF GatheredInv
<1> QED
  BY <1>15, <1>16, <1>17, <1>18 DEF ReduceInv

LEMMA Adding ==
  ASSUME ReduceInv, NEW a \in additions, Adds(a) \/ IsLost(a)
  PROVE  ReduceInv'
<1>1. Turns /\ CopiesInv /\ FirstInv /\ GatheredInv
  BY DEF ReduceInv
<1>2. /\ many' = many /\ round' = round /\ behind' = behind /\ additions' = additions \ {a}
      /\ Ring' = Ring /\ \A d : Single(d)' = Single(d)
      /\ \A x, d \in Ring : Before(d)' = Before(d) /\ Steps(x, d)' = Steps(x, d)
      /\ Untouched' <=> Untouched
  BY DEF Adds, IsLost, Ring, Single, Before, Steps, Untouched
<1>3. /\ many \in Nat \ {0} /\ Ring = 0 .. many - 1 /\ 0 \in Ring
      /\ 0 \in 0 .. many /\ many \in 0 .. many
  BY <1>1, RingFacts
<1>4. PICK to \in Ring, from \in Ring : to = a.to /\ from = a.from
  BY <1>1 DEF Turns
<1>5. /\ buffers' \in [Ring -> [0 .. many -> [Ring -> Nat]]]
      /\ \A d \in Ring, x \in 0 .. many : x # 0 => buffers'[d][x] = buffers[d][x]
      /\ \A d \in Ring, e \in Ring :
           (\A o \in Ring : buffers[o][0][e] = 0) => buffers'[d][0][e] = 0
  <2>1. CASE IsLost(a)
    BY <1>1, <2>1 DEF IsLost, Turns
  <2>2. CASE Adds(a)
    <3>1. PICK row : row = buffers[to]
      OBVIOUS
    <3>2. PICK sum : sum = [e \in Ring |-> buffers[to][0][e] + buffers[from][0][e]]
      OBVIOUS
    <3>3. PICK new : new = [row EXCEPT ![0] = sum]
      OBVIOUS
    <3>4. buffers[to][0] \in [Ring -> Nat] /\ buffers[from][0] \in [Ring -> Nat]
      BY <1>1, <1>3 DEF Turns
    <3>5. sum \in [Ring -> Nat]
      BY <3>2, <3>4
    <3>6. /\ new \in [0 .. many -> [Ring -> Nat]] /\ new[0] = sum
          /\ \A x \in 0 .. many : x # 0 => new[x] = row[x]
      BY <1>1, <1>3, <3>1, <3>3, <3>5 DEF Turns
    <3>7. buffers' = [buffers EXCEPT ![to] = new]
      BY <1>4, <2>2, <3>1, <3>2, <3>3 DEF Adds
    <3>8. /\ buffers' \in [Ring -> [0 .. many -> [Ring -> Nat]]] /\ buffers'[to] = new
          /\ \A d \in Ring : d # to => buffers'[d] = buffers[d]
      BY <1>1, <3>6, <3>7 DEF Turns
    <3>9. \A e \in Ring : (\A o \in Ring : buffers[o][0][e] = 0) => sum[e] = 0
      BY <3>2
    <3> QED
      BY <3>1, <3>6, <3>8, <3>9
  <2> QED
    BY <2>1, <2>2
<1>6. Turns'
  BY <1>1, <1>2, <1>5 DEF Turns
<1>7. CopiesInv'
  <2>1. \A d \in Ring : buffers'[d][many] = Single(d)
    BY <1>1, <1>3, <1>5 DEF CopiesInv
  <2>2. ASSUME NEW x \in Ring \ {0}, NEW d \in Ring PROVE buffers'[d][x] = buffers[d][x]
    <3>1. x \in 0 .. many /\ x # 0
      BY <1>3
    <3> QED
      BY <1>5, <3>1
  <2> QED
    BY <1>1, <1>2, <2>1, <2>2 DEF CopiesInv
<1>8. FirstInv'
  <2>1. ~Untouched
    BY <1>1 DEF FirstInv
  <2>2. ASSUME many > 1, NEW d \in Ring PROVE buffers'[d][0][1] = 0
    <3>1. 1 \in Ring
      BY <1>3, <2>2
    <3>2. \A o \in Ring : buffers[o][0][1] = 0
      BY <1>1, <2>1, <2>2 DEF FirstInv
    <3> QED
      BY <1>5, <3>1, <3>2
  <2> QED
    BY <1>2, <2>1, <2>2 DEF FirstInv
<1>9. GatheredInv'
  <2> SUFFICES ASSUME ~behind, many > 1 PROVE GatheredInv'
    BY <1>2 DEF GatheredInv
  <2>1. additions # {}
    OBVIOUS
  <2>2. round.pass # "returned" /\ (round.pass = "gather" => ~(round.step > 0) /\ ~(round.i > 0))
    BY <1>1, <2>1 DEF GatheredInv
  <2>3. round.step \in Nat /\ round.i \in Nat
    BY <1>1 DEF Turns
  <2>4. \A d \in Ring : round.pass = "gather" => ~(d < round.step \/ (d = round.step /\ d > 0 /\ round.i >= d))
    BY <1>3, <2>2, <2>3
  <2>5. round'.pass = "gather" => ~(round'.step > 0 \/ round'.i > 0)
    BY <1>2, <2>2
  <2> QED
    BY <1>2, <2>2, <2>4, <2>5 DEF GatheredInv
<1> QED
  BY <1>6, <1>7, <1>8, <1>9 DEF ReduceInv

(* Where the two passes are, what they have copied, and that the first     *)
(* copy took the number of device 1 out of the first chunk                 *)
(* (dxcollective.cpp:80-141).                                              *)
THEOREM ReductionInvariant == Spec => []ReduceInv
<1>1. ReduceInv /\ [Next]_vars => ReduceInv'
  <2> SUFFICES ASSUME ReduceInv, [Next]_vars PROVE ReduceInv'
    OBVIOUS
  <2>1. CASE Reduced
    <3>1. ReduceNext
      BY <2>1 DEF Reduced
    <3>2. CASE ReduceBegins
      BY <3>2, ReductionBegins
    <3>3. CASE ScatterChunk
      BY <3>3, Scattering
    <3>4. CASE GatherChunk
      BY <3>4, Gathering
    <3>5. CASE \E a \in additions : Adds(a) \/ IsLost(a)
      BY <3>5, Adding
    <3> QED
      BY <3>1, <3>2, <3>3, <3>4, <3>5 DEF ReduceNext
  <2>2. CASE UNCHANGED reduceVars
    <3>1. /\ many' = many /\ round' = round /\ buffers' = buffers
          /\ additions' = additions /\ behind' = behind
      BY <2>2 DEF reduceVars
    <3>2. Turns'
      BY <3>1 DEF ReduceInv, Turns, Ring
    <3>3. CopiesInv'
      BY <3>1 DEF ReduceInv, CopiesInv, Ring, Single, Steps, Before
    <3>4. FirstInv' /\ GatheredInv'
      BY <3>1 DEF ReduceInv, FirstInv, GatheredInv, Untouched, Ring, Single
    <3> QED
      BY <3>2, <3>3, <3>4 DEF ReduceInv
  <2> QED
    BY <2>1, <2>2 DEF Next, Chunked, Scheduled, vars
<1> QED
  BY <1>1, ReductionStarts, PTL DEF Spec

(* When all_reduce_sum returns, every chunk but the first is that of the   *)
(* device of its number, what does not divide is its device's, and the     *)
(* first is not the sum, for any number of devices and whatever additions  *)
(* were lost or late (dxcollective.cpp:80-141).                            *)
THEOREM SumsOnlyFirst == Spec => []OnlyFirstChunkIsSummed
<1>1. ReduceInv => OnlyFirstChunkIsSummed
  <2> SUFFICES ASSUME ReduceInv, round.pass = "returned", NEW d \in Ring
               PROVE  /\ \A c \in Ring \ {0} : buffers[d][c] = Single(c)
                      /\ buffers[d][many] = Single(d)
                      /\ many > 1 => \E e \in Ring : buffers[d][0][e] # 1
                      /\ behind \/ \A e \in Ring : buffers[d][0] = buffers[e][0]
    BY DEF OnlyFirstChunkIsSummed
  <2>1. Turns /\ CopiesInv /\ FirstInv /\ GatheredInv /\ ~Untouched
    BY DEF ReduceInv, Untouched
  <2>2. many \in Nat \ {0} /\ Ring = 0 .. many - 1
    BY <2>1, RingFacts
  <2>3. \A c \in Ring \ {0} : buffers[d][c] = Single(c)
    <3>1. CASE many = 1
      BY <2>2, <3>1
    <3>2. CASE many > 1
      BY <2>1, <3>2 DEF CopiesInv
    <3> QED
      BY <2>2, <3>1, <3>2
  <2>4. buffers[d][many] = Single(d)
    BY <2>1 DEF CopiesInv
  <2>5. many > 1 => \E e \in Ring : buffers[d][0][e] # 1
    <3>1. many > 1 => buffers[d][0][1] = 0 /\ 1 \in Ring
      BY <2>1, <2>2 DEF FirstInv
    <3> QED
      BY <3>1
  <2>6. behind \/ \A e \in Ring : buffers[d][0] = buffers[e][0]
    <3>1. CASE many = 1
      <4>1. d = 0 /\ \A e \in Ring : e = 0
        BY <2>2, <3>1
      <4> QED
        BY <4>1
    <3>2. CASE many > 1
      <4>1. ~behind => \A e \in Ring : buffers[e][0] = buffers[many - 1][0]
        BY <2>1, <3>2 DEF GatheredInv
      <4> QED
        BY <4>1
    <3> QED
      BY <2>2, <3>1, <3>2
  <2> QED
    BY <2>3, <2>4, <2>5, <2>6
<1> QED
  BY <1>1, ReductionInvariant, PTL

=============================================================================
