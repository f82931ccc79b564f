----------------------------- MODULE HostProofs -----------------------------
(***************************************************************************)
(* Proofs about what the host keeps: the events of StreamEvents, and the   *)
(* parts of Sessions, for any threads, addresses and bounds.               *)
(*                                                                         *)
(* StreamEvents.  Events are complete in the order in which they were      *)
(* recorded.  The signals on the queue need not be in the order of their   *)
(* numbers.  But one event was published before another got its number     *)
(* only after its signal was put on the queue: so each signal on the queue *)
(* has those of all such events before it, unless they are complete        *)
(* (QueueInv).                                                             *)
(*                                                                         *)
(* Sessions.  A step of the whole is one of a part or leaves it alone      *)
(* (PartsStep), so each part has an inductive invariant of its own.        *)
(* The plans: what add_node accepts has dependencies on earlier nodes only *)
(* (Backwards), so visit_node never goes more than one deep, and a         *)
(* compilation orders the nodes as they were added (CompiledIs).           *)
(* The command graphs: ready or ordered are just the nodes of which all    *)
(* dependencies are ordered (KahnInv), so when none is ready those that    *)
(* are left wait for each other, or for nodes that are not there.          *)
(***************************************************************************)
EXTENDS StreamEvents, Sessions, DataTheorems

Numbered == [pc : {"numbered"}, event : Events]

TypeOK ==
  /\ reached \in [Events -> Nat]
  /\ native \in BOOLEAN
  /\ next_sequence \in Nat \ {0}
  /\ sequence \in [Events -> Nat]
  /\ queue \in Seq(Events)
  /\ published \subseteq Events
  /\ call \in [Threads -> {Idle} \cup Numbered \cup Waiting]
  /\ earlier \in [Events -> SUBSET Events]

(* Numbers are given in order, and a fence gets only that of its event.    *)
NumbersInv ==
  /\ \A e \in Events :
       /\ sequence[e] < next_sequence
       /\ reached[e] # 0 => reached[e] = sequence[e]
       /\ e \in published => sequence[e] # 0
       /\ earlier[e] \subseteq published
       /\ sequence[e] = 0 => earlier[e] = {}
  /\ \A t \in Threads : call[t].pc = "numbered" => sequence[call[t].event] # 0
  /\ \A e, f \in Events :
       /\ e # f /\ sequence[e] # 0 => sequence[e] # sequence[f]
       /\ e \in earlier[f] => sequence[e] < sequence[f]

(* What was published is complete, or its signal is on the queue, and has  *)
(* before it those of the events that were published before.               *)
QueueInv ==
  /\ \A e \in published : IsComplete(e) \/ \E i \in 1 .. Len(queue) : queue[i] = e
  /\ \A j \in 1 .. Len(queue) :
       /\ sequence[queue[j]] # 0
       /\ \A e \in earlier[queue[j]] : IsComplete(e) \/ \E i \in 1 .. j - 1 : queue[i] = e
  /\ ~native => queue = <<>>

CompleteInOrder ==
  \A f \in Events : IsComplete(f) => \A e \in earlier[f] : IsComplete(e)

IInv == TypeOK /\ NumbersInv /\ QueueInv /\ CompleteInOrder
-----------------------------------------------------------------------------
LEMMA CallShapes ==
  ASSUME TypeOK, NEW t \in Threads
  PROVE  /\ call[t].pc = "numbered" => call[t] \in Numbered /\ call[t].event \in Events
         /\ call[t].pc \in {"pending", "armed", "blocked"} =>
              call[t] \in Waiting /\ call[t].event \in Events
         /\ Idle.pc = "idle"
<1>1. call[t] \in {Idle} \cup Numbered \cup Waiting
  BY DEF TypeOK
<1>2. CASE call[t] = Idle
  BY <1>2 DEF Idle
<1>3. CASE call[t] \in Numbered
  BY <1>3 DEF Numbered, Idle
<1>4. CASE call[t] \in Waiting
  BY <1>4 DEF Waiting, Idle
<1>5. QED
  BY <1>1, <1>2, <1>3, <1>4

(* Steps that leave the stream alone: all but recording and the queue.     *)
LEMMA StreamUnchanged ==
  ASSUME IInv,
         UNCHANGED <<reached, native, next_sequence, sequence, queue, published, earlier>>,
         call' \in [Threads -> {Idle} \cup Numbered \cup Waiting],
         \A t \in Threads : call'[t].pc = "numbered" => call'[t] = call[t]
  PROVE  IInv'
<1>1. TypeOK'
  BY DEF IInv, TypeOK
<1>2. \A e : IsComplete(e)' <=> IsComplete(e)
  BY DEF IsComplete, Completed
<1>3. NumbersInv'
  <2>1. \A t \in Threads : call'[t].pc = "numbered" => sequence[call'[t].event] # 0
    BY DEF IInv, NumbersInv
  <2>2. QED
    BY <2>1 DEF IInv, NumbersInv
<1>4. QueueInv' /\ CompleteInOrder'
  BY <1>2 DEF IInv, QueueInv, CompleteInOrder
<1>5. QED
  BY <1>1, <1>3, <1>4 DEF IInv

LEMMA WaitSteps ==
  ASSUME IInv, NEW t \in Threads,
         \/ RecordFails(t) \/ WaitRegisters(t) \/ WaitFails(t) \/ WaitFindsSet(t)
         \/ WaitBlocks(t) \/ WaitReturns(t) \/ WaitTimesOut(t)
         \/ \E e \in Events : WaitPasses(t, e)
         \/ \E e \in Events, forever \in BOOLEAN : WaitBegins(t, e, forever)
  PROVE  IInv'
<1>0. call \in [Threads -> {Idle} \cup Numbered \cup Waiting] /\ Idle.pc = "idle"
  BY DEF IInv, TypeOK, Idle
<1>1. UNCHANGED <<reached, native, next_sequence, sequence, queue, published, earlier>>
  BY DEF RecordFails, WaitRegisters, WaitFails, WaitFindsSet, WaitBlocks, WaitReturns, WaitTimesOut,
         WaitPasses, WaitBegins, eventVars, Register, PassAtOnce, Block, GiveUp
<1>2. ASSUME NEW c \in {Idle} \cup Waiting, Goes(t, c)
      PROVE  /\ call' \in [Threads -> {Idle} \cup Numbered \cup Waiting]
             /\ \A u \in Threads : call'[u].pc = "numbered" => call'[u] = call[u]
  <2>1. c.pc # "numbered"
    BY DEF Idle, Waiting
  <2>2. \A u \in Threads : call'[u] = IF u = t THEN c ELSE call[u]
    BY <1>0, <1>2 DEF Goes
  <2>3. call' \in [Threads -> {Idle} \cup Numbered \cup Waiting]
    BY <1>0, <1>2 DEF Goes
  <2>4. QED
    BY <2>1, <2>2, <2>3
<1>3. CASE \E c \in {Idle} \cup Waiting : Goes(t, c)
  BY <1>1, <1>2, <1>3, StreamUnchanged
<1>4. CASE UNCHANGED call
  BY <1>0, <1>1, <1>4, StreamUnchanged
<1>5. CASE \E e \in Events, forever \in BOOLEAN : WaitBegins(t, e, forever)
  <2>1. PICK e \in Events, forever \in BOOLEAN : WaitBegins(t, e, forever)
    BY <1>5
  <2>2. [pc |-> "pending", event |-> e, forever |-> forever] \in Waiting
    BY DEF Waiting
  <2>3. QED
    BY <1>3, <2>1, <2>2 DEF WaitBegins
<1>6. CASE WaitRegisters(t) \/ WaitBlocks(t)
  <2>1. call[t] \in Waiting
    BY <1>6, CallShapes DEF IInv, WaitRegisters, WaitBlocks
  <2>2. [call[t] EXCEPT !.pc = "armed"] \in Waiting /\ [call[t] EXCEPT !.pc = "blocked"] \in Waiting
    BY <2>1 DEF Waiting
  <2>3. QED
    BY <1>3, <1>6, <2>2 DEF WaitRegisters, WaitBlocks
<1>7. QED
  BY <1>3, <1>4, <1>5, <1>6
     DEF RecordFails, WaitFails, WaitFindsSet, WaitReturns, WaitTimesOut, WaitPasses

-----------------------------------------------------------------------------
(* Recording.                                                              *)

LEMMA Numbering ==
  ASSUME IInv, NEW t \in Threads, NEW e \in Events, RecordNumber(t, e)
  PROVE  IInv'
<1>0. TypeOK /\ NumbersInv /\ QueueInv /\ CompleteInOrder
  BY DEF IInv
<1>1. /\ sequence[e] = 0 /\ reached[e] = 0 /\ e \notin published
      /\ \A f \in Events : e \notin earlier[f]
      /\ \A j \in 1 .. Len(queue) : queue[j] # e /\ queue[j] \in Events
  BY <1>0 DEF RecordNumber, TypeOK, NumbersInv, QueueInv
<1>2. /\ sequence' = [sequence EXCEPT ![e] = next_sequence]
      /\ next_sequence' = next_sequence + 1
      /\ earlier' = [earlier EXCEPT ![e] = published]
      /\ Goes(t, [pc |-> "numbered", event |-> e])
      /\ UNCHANGED <<reached, native, queue, published>>
  BY DEF RecordNumber, After, eventVars
<1>3. /\ sequence'[e] = next_sequence /\ earlier'[e] = published
      /\ \A f \in Events : f # e => sequence'[f] = sequence[f] /\ earlier'[f] = earlier[f]
  BY <1>0, <1>2 DEF TypeOK
<1>4. \A u \in Threads : call'[u] = IF u = t THEN [pc |-> "numbered", event |-> e] ELSE call[u]
  BY <1>0, <1>2 DEF Goes, TypeOK
<1>5. TypeOK'
  <2>1. call' \in [Threads -> {Idle} \cup Numbered \cup Waiting]
    BY <1>0, <1>2 DEF Goes, TypeOK, Numbered
  <2>2. sequence' \in [Events -> Nat] /\ earlier' \in [Events -> SUBSET Events]
    BY <1>0, <1>2 DEF TypeOK
  <2>3. QED
    BY <1>0, <1>2, <2>1, <2>2 DEF TypeOK
<1>6. \A f \in Events : f # e => (IsComplete(f)' <=> IsComplete(f))
  BY <1>2, <1>3 DEF IsComplete, Completed
<1>7. ~IsComplete(e)'
  BY <1>0, <1>1, <1>2, <1>3 DEF IsComplete, Completed, TypeOK
<1>8. NumbersInv'
  <2>1. ASSUME NEW f \in Events
        PROVE  /\ sequence'[f] < next_sequence'
               /\ reached'[f] # 0 => reached'[f] = sequence'[f]
               /\ f \in published' => sequence'[f] # 0
               /\ earlier'[f] \subseteq published'
               /\ sequence'[f] = 0 => earlier'[f] = {}
    BY <1>0, <1>1, <1>2, <1>3 DEF NumbersInv, TypeOK
  <2>2. ASSUME NEW u \in Threads, call'[u].pc = "numbered"
        PROVE  sequence'[call'[u].event] # 0
    <3>1. CASE u = t
      BY <1>0, <1>3, <1>4, <3>1 DEF TypeOK
    <3>2. CASE u # t
      <4>1. call'[u] = call[u] /\ call[u].event \in Events
        BY <1>0, <1>4, <2>2, <3>2, CallShapes
      <4>2. QED
        BY <1>0, <1>3, <2>2, <4>1 DEF NumbersInv, TypeOK
    <3>3. QED
      BY <3>1, <3>2
  <2>3. ASSUME NEW f \in Events, NEW g \in Events
        PROVE  /\ f # g /\ sequence'[f] # 0 => sequence'[f] # sequence'[g]
               /\ f \in earlier'[g] => sequence'[f] < sequence'[g]
    <3>0. /\ sequence[f] < next_sequence /\ sequence[g] < next_sequence
          /\ sequence[f] \in Nat /\ sequence[g] \in Nat /\ next_sequence \in Nat
      BY <1>0 DEF NumbersInv, TypeOK
    <3>1. f # g /\ sequence'[f] # 0 => sequence'[f] # sequence'[g]
      <4>1. CASE f # e /\ g # e
        BY <1>0, <1>3, <4>1 DEF NumbersInv
      <4>2. CASE f = e \/ g = e
        BY <1>3, <3>0, <4>2
      <4>3. QED
        BY <4>1, <4>2
    <3>2. f \in earlier'[g] => sequence'[f] < sequence'[g]
      <4>1. CASE g = e
        BY <1>1, <1>3, <3>0, <4>1
      <4>2. CASE g # e
        BY <1>0, <1>1, <1>3, <4>2 DEF NumbersInv
      <4>3. QED
        BY <4>1, <4>2
    <3>3. QED
      BY <3>1, <3>2
  <2>4. QED
    BY <2>1, <2>2, <2>3 DEF NumbersInv
<1>9. QueueInv'
  <2>1. \A f \in published' : IsComplete(f)' \/ \E i \in 1 .. Len(queue') : queue'[i] = f
    BY <1>0, <1>1, <1>2, <1>6 DEF QueueInv, TypeOK
  <2>2. ASSUME NEW j \in 1 .. Len(queue')
        PROVE  /\ sequence'[queue'[j]] # 0
               /\ \A f \in earlier'[queue'[j]] :
                    IsComplete(f)' \/ \E i \in 1 .. j - 1 : queue'[i] = f
    <3>1. j \in 1 .. Len(queue) /\ queue'[j] = queue[j] /\ queue[j] \in Events /\ queue[j] # e
      BY <1>1, <1>2
    <3>2. earlier'[queue[j]] = earlier[queue[j]] /\ sequence'[queue[j]] = sequence[queue[j]]
      BY <1>3, <3>1
    <3>3. \A f \in earlier[queue[j]] : f \in Events /\ f # e
      BY <1>0, <1>1, <3>1 DEF TypeOK
    <3>4. QED
      BY <1>0, <1>2, <1>6, <3>1, <3>2, <3>3 DEF QueueInv
  <2>3. ~native' => queue' = <<>>
    BY <1>0, <1>2 DEF QueueInv
  <2>4. QED
    BY <2>1, <2>2, <2>3 DEF QueueInv
<1>10. CompleteInOrder'
  <2> SUFFICES ASSUME NEW f \in Events, IsComplete(f)', NEW g \in earlier'[f]
               PROVE  IsComplete(g)'
    BY DEF CompleteInOrder
  <2>1. f # e
    BY <1>7
  <2>2. g \in earlier[f] /\ g \in Events /\ g # e
    BY <1>0, <1>1, <1>3, <2>1 DEF TypeOK
  <2>3. QED
    BY <1>0, <1>6, <2>1, <2>2 DEF CompleteInOrder
<1>11. QED
  BY <1>5, <1>8, <1>9, <1>10 DEF IInv

(* A signal goes to the end of the queue, or a host event is complete.     *)
LEMMA Signalling ==
  ASSUME IInv, NEW t \in Threads, RecordSignal(t) \/ RecordThrows(t)
  PROVE  IInv'
<1>0. TypeOK /\ NumbersInv /\ QueueInv /\ CompleteInOrder
  BY DEF IInv
<1>1. PICK e \in Events : e = call[t].event /\ sequence[e] # 0
  BY <1>0, CallShapes DEF NumbersInv, RecordSignal, RecordThrows
<1>2. /\ native /\ queue' = Append(queue, e) /\ published \subseteq published'
      /\ published' \subseteq published \cup {e} /\ Goes(t, Idle)
      /\ UNCHANGED <<reached, native, next_sequence, sequence, earlier>>
  BY <1>1 DEF RecordSignal, RecordThrows, eventVars
<1>3. /\ queue \in Seq(Events) /\ Len(queue) \in Nat /\ Len(queue') = Len(queue) + 1
      /\ queue' \in Seq(Events) /\ queue'[Len(queue) + 1] = e
      /\ \A i \in 1 .. Len(queue) : queue'[i] = queue[i]
  BY <1>0, <1>2 DEF TypeOK
<1>4. /\ call' \in [Threads -> {Idle} \cup Numbered \cup Waiting]
      /\ \A u \in Threads : call'[u].pc = "numbered" => call'[u] = call[u]
  BY <1>0, <1>2 DEF Goes, TypeOK, Idle
<1>5. TypeOK'
  BY <1>0, <1>2, <1>3, <1>4 DEF TypeOK
<1>6. \A f : IsComplete(f)' <=> IsComplete(f)
  BY <1>2 DEF IsComplete, Completed
<1>7. NumbersInv'
  <2>1. \A f \in Events :
          /\ sequence'[f] < next_sequence'
          /\ reached'[f] # 0 => reached'[f] = sequence'[f]
          /\ f \in published' => sequence'[f] # 0
          /\ earlier'[f] \subseteq published'
          /\ sequence'[f] = 0 => earlier'[f] = {}
    BY <1>0, <1>1, <1>2 DEF NumbersInv
  <2>2. \A u \in Threads : call'[u].pc = "numbered" => sequence'[call'[u].event] # 0
    BY <1>0, <1>2, <1>4 DEF NumbersInv
  <2>3. QED
    BY <1>0, <1>2, <2>1, <2>2 DEF NumbersInv
<1>8. QueueInv'
  <2>1. ASSUME NEW f \in published', ~IsComplete(f)
        PROVE  \E i \in 1 .. Len(queue') : queue'[i] = f
    <3>1. CASE f = e
      BY <1>3, <3>1
    <3>2. CASE f # e
      <4>1. PICK i \in 1 .. Len(queue) : queue[i] = f
        BY <1>0, <1>2, <2>1, <3>2 DEF QueueInv
      <4>2. QED
        BY <1>3, <4>1
    <3>3. QED
      BY <3>1, <3>2
  <2>2. ASSUME NEW j \in 1 .. Len(queue')
        PROVE  /\ sequence[queue'[j]] # 0
               /\ \A f \in earlier[queue'[j]] :
                    IsComplete(f) \/ \E i \in 1 .. j - 1 : queue'[i] = f
    <3>1. CASE j \in 1 .. Len(queue)
      <4>1. queue'[j] = queue[j] /\ \A i \in 1 .. j - 1 : queue'[i] = queue[i]
        BY <1>3, <3>1
      <4>2. QED
        BY <1>0, <3>1, <4>1 DEF QueueInv
    <3>2. CASE j = Len(queue) + 1
      <4>1. queue'[j] = e /\ j - 1 = Len(queue) /\ \A i \in 1 .. Len(queue) : queue'[i] = queue[i]
        BY <1>3, <3>2
      <4>2. earlier[e] \subseteq published
        BY <1>0 DEF NumbersInv
      <4>3. QED
        BY <1>0, <1>1, <4>1, <4>2 DEF QueueInv
    <3>3. QED
      BY <1>3, <3>1, <3>2
  <2>3. QED
    BY <1>2, <1>6, <2>1, <2>2 DEF QueueInv
<1>9. CompleteInOrder'
  BY <1>0, <1>2, <1>6 DEF CompleteInOrder
<1>10. QED
  BY <1>5, <1>7, <1>8, <1>9 DEF IInv

(* On a host stream whatever was published is complete.                    *)
LEMMA Completing ==
  ASSUME IInv, NEW t \in Threads, RecordComplete(t)
  PROVE  IInv'
<1>0. TypeOK /\ NumbersInv /\ QueueInv /\ CompleteInOrder
  BY DEF IInv
<1>1. PICK e \in Events : e = call[t].event /\ sequence[e] # 0
  BY <1>0, CallShapes DEF NumbersInv, RecordComplete
<1>2. /\ ~native /\ queue = <<>>
      /\ reached' = [reached EXCEPT ![e] = sequence[e]]
      /\ published' = published \cup {e} /\ Goes(t, Idle)
      /\ UNCHANGED <<native, next_sequence, sequence, earlier, queue>>
  BY <1>0, <1>1 DEF RecordComplete, Reach, QueueInv
<1>3. /\ call' \in [Threads -> {Idle} \cup Numbered \cup Waiting]
      /\ \A u \in Threads : call'[u].pc = "numbered" => call'[u] = call[u]
  BY <1>0, <1>2 DEF Goes, TypeOK, Idle
<1>4. /\ reached' \in [Events -> Nat] /\ reached'[e] = sequence[e]
      /\ \A f \in Events : f # e => reached'[f] = reached[f]
  BY <1>0, <1>2 DEF TypeOK
<1>5. TypeOK'
  BY <1>0, <1>2, <1>3, <1>4 DEF TypeOK
<1>6. \A f \in published : IsComplete(f)
  BY <1>0, <1>2 DEF QueueInv
<1>7. /\ IsComplete(e)'
      /\ \A f \in Events : f # e => (IsComplete(f)' <=> IsComplete(f))
  BY <1>0, <1>2, <1>4 DEF IsComplete, Completed, TypeOK
<1>8. NumbersInv'
  <2>1. \A f \in Events :
          /\ sequence'[f] < next_sequence'
          /\ reached'[f] # 0 => reached'[f] = sequence'[f]
          /\ f \in published' => sequence'[f] # 0
          /\ earlier'[f] \subseteq published'
          /\ sequence'[f] = 0 => earlier'[f] = {}
    BY <1>0, <1>1, <1>2, <1>4 DEF NumbersInv
  <2>2. \A u \in Threads : call'[u].pc = "numbered" => sequence'[call'[u].event] # 0
    BY <1>0, <1>2, <1>3 DEF NumbersInv
  <2>3. QED
    BY <1>0, <1>2, <2>1, <2>2 DEF NumbersInv
<1>9. \A f \in published' : IsComplete(f)'
  BY <1>0, <1>2, <1>6, <1>7 DEF TypeOK
<1>10. QueueInv'
  BY <1>2, <1>9 DEF QueueInv
<1>11. CompleteInOrder'
  <2>1. \A f \in Events : earlier'[f] \subseteq published'
    BY <1>8 DEF NumbersInv
  <2>2. QED
    BY <1>9, <2>1 DEF CompleteInOrder
<1>12. QED
  BY <1>5, <1>8, <1>10, <1>11 DEF IInv

(* The queue comes to its first signal: all that was published before it   *)
(* is complete.                                                            *)
LEMMA Reaching ==
  ASSUME IInv, GpuSignals
  PROVE  IInv'
<1>0. TypeOK /\ NumbersInv /\ QueueInv /\ CompleteInOrder
  BY DEF IInv
<1>1. queue \in Seq(Events) /\ queue # <<>> /\ Len(queue) \in Nat \ {0}
  BY <1>0 DEF GpuSignals, TypeOK
<1>2. PICK e \in Events : e = Head(queue) /\ e = queue[1]
  BY <1>1
<1>3. /\ reached' = [reached EXCEPT ![e] = sequence[e]] /\ queue' = Tail(queue)
      /\ UNCHANGED <<native, next_sequence, sequence, published, call, earlier>>
  BY <1>2 DEF GpuSignals, Reach
<1>4. /\ queue' \in Seq(Events) /\ Len(queue') = Len(queue) - 1
      /\ \A i \in 1 .. Len(queue') : queue'[i] = queue[i + 1]
  BY <1>1, <1>3
<1>5. /\ reached' \in [Events -> Nat] /\ reached'[e] = sequence[e]
      /\ \A f \in Events : f # e => reached'[f] = reached[f]
  BY <1>0, <1>3 DEF TypeOK
<1>6. TypeOK'
  BY <1>0, <1>3, <1>4, <1>5 DEF TypeOK
<1>7. /\ IsComplete(e)'
      /\ \A f \in Events : f # e => (IsComplete(f)' <=> IsComplete(f))
  BY <1>0, <1>3, <1>5 DEF IsComplete, Completed, TypeOK
<1>8. \A f \in Events : IsComplete(f) => IsComplete(f)'
  BY <1>7
<1>9. NumbersInv'
  <2>1. \A f \in Events : reached'[f] # 0 => reached'[f] = sequence[f]
    BY <1>0, <1>5 DEF NumbersInv
  <2>2. QED
    BY <1>0, <1>3, <2>1 DEF NumbersInv
<1>10. QueueInv'
  <2>1. ASSUME NEW f \in Events, ~IsComplete(f)', NEW n \in Nat, n < Len(queue),
               NEW i \in 1 .. n + 1, queue[i] = f
        PROVE  \E k \in 1 .. n : queue'[k] = f
    <3>1. i # 1 /\ i - 1 \in 1 .. n /\ i - 1 \in 1 .. Len(queue')
      BY <1>1, <1>2, <1>4, <1>7, <2>1
    <3>2. queue'[i - 1] = queue[i]
      BY <1>4, <3>1
    <3>3. QED
      BY <2>1, <3>1, <3>2
  <2>2. ASSUME NEW f \in published', ~IsComplete(f)'
        PROVE  \E k \in 1 .. Len(queue') : queue'[k] = f
    <3>1. f \in published /\ f \in Events
      BY <1>0, <1>3 DEF TypeOK
    <3>2. PICK i \in 1 .. Len(queue) : queue[i] = f
      BY <1>0, <1>8, <2>2, <3>1 DEF QueueInv
    <3>3. PICK n \in Nat : n = Len(queue')
      BY <1>1, <1>4
    <3>4. n < Len(queue) /\ i \in 1 .. n + 1
      BY <1>1, <1>4, <3>3
    <3>5. QED
      BY <2>1, <2>2, <3>1, <3>2, <3>3, <3>4
  <2>3. ASSUME NEW j \in 1 .. Len(queue')
        PROVE  /\ sequence[queue'[j]] # 0
               /\ \A f \in earlier[queue'[j]] :
                    IsComplete(f)' \/ \E k \in 1 .. j - 1 : queue'[k] = f
    <3>1. queue'[j] = queue[j + 1] /\ j + 1 \in 1 .. Len(queue) /\ queue[j + 1] \in Events
      BY <1>1, <1>4
    <3>2. ASSUME NEW f \in earlier[queue'[j]], ~IsComplete(f)'
          PROVE  \E k \in 1 .. j - 1 : queue'[k] = f
      <4>1. f \in Events
        BY <1>0, <3>1 DEF TypeOK
      <4>2. PICK i \in 1 .. (j + 1) - 1 : queue[i] = f
        BY <1>0, <1>8, <3>1, <3>2, <4>1 DEF QueueInv
      <4>3. j - 1 \in Nat /\ j - 1 < Len(queue) /\ i \in 1 .. (j - 1) + 1
        BY <1>1, <1>4
      <4>4. QED
        BY <2>1, <3>2, <4>1, <4>2, <4>3
    <3>3. QED
      BY <1>0, <3>1, <3>2 DEF QueueInv
  <2>4. ~native' => queue' = <<>>
    BY <1>0, <1>1, <1>3 DEF QueueInv
  <2>5. QED
    BY <1>3, <2>2, <2>3, <2>4 DEF QueueInv
<1>11. CompleteInOrder'
  <2> SUFFICES ASSUME NEW f \in Events, IsComplete(f)', NEW g \in earlier[f]
               PROVE  IsComplete(g)'
    BY <1>3 DEF CompleteInOrder
  <2>0. g \in Events
    BY <1>0 DEF TypeOK
  <2>1. CASE f = e
    <3>1. 1 \in 1 .. Len(queue) /\ ~\E i \in 1 .. 1 - 1 : queue[i] = g
      BY <1>1
    <3>2. IsComplete(g)
      BY <1>0, <1>2, <2>1, <3>1 DEF QueueInv
    <3>3. QED
      BY <1>8, <2>0, <3>2
  <2>2. CASE f # e
    BY <1>0, <1>7, <1>8, <2>0, <2>2 DEF CompleteInOrder
  <2>3. QED
    BY <2>1, <2>2
<1>12. QED
  BY <1>6, <1>9, <1>10, <1>11 DEF IInv

-----------------------------------------------------------------------------
(* The inductive invariant: what is published is complete or its signal on *)
(* the queue behind those of earlier events (dx_stream_api.cpp:150-190).   *)
THEOREM InductiveInvariant == Spec => []IInv
<1>1. Init => IInv
  <2> SUFFICES ASSUME Init PROVE IInv
    OBVIOUS
  <2>1. TypeOK
    BY StreamAssumption DEF Init, EventInit, TypeOK
  <2>2. \A t \in Threads : call[t].pc = "idle"
    BY DEF Init, Idle
  <2>3. NumbersInv
    BY <2>2, StreamAssumption DEF Init, EventInit, NumbersInv
  <2>4. QueueInv /\ CompleteInOrder
    BY DEF Init, QueueInv, CompleteInOrder
  <2>5. QED
    BY <2>1, <2>3, <2>4 DEF IInv
<1>2. IInv /\ [Next]_vars => IInv'
  <2> SUFFICES ASSUME IInv, [Next]_vars PROVE IInv'
    OBVIOUS
  <2>1. CASE Fires \/ UNCHANGED vars
    <3>1. UNCHANGED <<reached, native, next_sequence, sequence, queue, published, earlier, call>>
      BY <2>1 DEF Fires, Fire, vars, streamVars, eventVars
    <3>2. QED
      BY <3>1, StreamUnchanged DEF IInv, TypeOK
  <2>2. QED
    BY <2>1, Reaching, Numbering, Signalling, Completing, WaitSteps DEF Next, ThreadStep
<1>3. QED
  BY <1>1, <1>2, PTL DEF Spec

(* For any threads and any number of events: numbers are given once, rise  *)
(* from one recording to the next, and events complete in that order       *)
(* (dx_stream_api.cpp:155-170).                                            *)
THEOREM RecordedInOrder == Spec => []RecordOrder
<1>1. IInv => RecordOrder
  BY DEF IInv, NumbersInv, CompleteInOrder, RecordOrder
<1>2. QED
  BY <1>1, InductiveInvariant, PTL

-----------------------------------------------------------------------------
(* Sessions, part by part.                                                 *)
LEMMA PartsStep ==
  [SessionsNext]_sessionVars => /\ [PlanNext]_planVars /\ [CommandNext]_commandVars
                                /\ [TraceNext]_traceVars /\ [LogNext]_logVars
                                /\ [KernelNext]_kernelVars /\ [BypassNext]_pathVars
BY DEF SessionsNext, UsePlans, UseCommands, UseTraces, UseLogs, UseKernels, UsePaths, sessionVars,
       planVars, commandVars, traceVars, logVars, kernelVars, pathVars

-----------------------------------------------------------------------------
(* Kernels: a pipeline is kept with the request it was made for, under its *)
(* user and key.                                                           *)
KernelInv ==
  /\ \A u \in Users : \A p \in pipelines[u] : p \in Requests /\ p.user = u
  /\ \A u \in Users : compiling[u] # NoRequest => compiling[u] \in Requests /\ compiling[u].user = u
  /\ pipelines \in [Users -> SUBSET Requests] /\ DOMAIN compiling = Users
  /\ dispatched # <<>> =>
       \E r, p \in Requests : dispatched = <<r, p>> /\ r.user = p.user /\ r.key = p.key

(* The ten mechanisms have five kernels, and each of them one name.        *)
LEMMA NamesOfAttention ==
  \A r, p \in AttentionRequests : r.key = p.key => r = p
<1>1. \A m \in Mechanisms :
        /\ KeyOf(m) \in {"flash_attn", "linear_attn", "paged_attn", "h2o_attn", "sdpa"}
        /\ KeyOf(m) = "flash_attn" => SourceOf(m) = "online softmax"
        /\ KeyOf(m) = "linear_attn" => SourceOf(m) = "linear"
        /\ KeyOf(m) = "paged_attn" => SourceOf(m) = "block table"
        /\ KeyOf(m) = "h2o_attn" => SourceOf(m) = "keep mask"
        /\ KeyOf(m) = "sdpa" => SourceOf(m) = "softmax"
  BY DEF KeyOf, SourceOf, Mechanisms
<1>2. \A m, o \in Mechanisms : KeyOf(m) = KeyOf(o) => SourceOf(m) = SourceOf(o)
  BY <1>1
<1>3. QED
  BY <1>2 DEF AttentionRequests

LEMMA RequestFields ==
  \A r \in Requests : /\ r.user \in Users /\ r # NoRequest
                       /\ (r.user = "attention" => r \in AttentionRequests)
                       /\ (r.user = "triton" => r \in TritonRequests)
BY DEF Requests, AttentionRequests, TritonRequests, Users, NoRequest

LEMMA KernelStep == KernelInv /\ [KernelNext]_kernelVars => KernelInv'
<1> SUFFICES ASSUME KernelInv, [KernelNext]_kernelVars PROVE KernelInv'
  OBVIOUS
<1>1. ASSUME NEW r \in Requests, Hit(r) PROVE KernelInv'
  <2>1. PICK p \in Found(r) : dispatched' = <<r, p>> /\ UNCHANGED <<pipelines, compiling>>
    BY <1>1 DEF Hit
  <2>2. p \in Requests /\ p.user = r.user /\ p.key = r.key
    BY <2>1, RequestFields DEF Found, KernelInv
  <2>3. QED
    BY <2>1, <2>2 DEF KernelInv
<1>2. ASSUME NEW r \in Requests, Miss(r) PROVE KernelInv'
  BY <1>2, RequestFields DEF Miss, KernelInv
<1>3. ASSUME NEW u \in Users, Refused(u) PROVE KernelInv'
  BY <1>3 DEF Refused, KernelInv
<1>4. ASSUME NEW u \in Users, Finish(u) PROVE KernelInv'
  <2>1. PICK r \in Requests : r = compiling[u] /\ r.user = u
    BY <1>4 DEF Finish, Busy, KernelInv
  <2>2. /\ pipelines' = [pipelines EXCEPT ![u] = @ \cup {r}]
        /\ dispatched' = <<r, r>>
        /\ compiling' = [compiling EXCEPT ![u] = NoRequest]
    BY <1>4, <2>1 DEF Finish
  <2>3. QED
    BY <2>1, <2>2 DEF KernelInv
<1>5. CASE UNCHANGED kernelVars
  BY <1>5 DEF kernelVars, KernelInv
<1>6. QED
  BY <1>1, <1>2, <1>3, <1>4, <1>5 DEF KernelNext

LEMMA KernelOfItsOwn == KernelInv => OnlyTritonStandsIn
<1> SUFFICES ASSUME KernelInv, dispatched # <<>> PROVE OnlyTritonStandsIn
  BY DEF OnlyTritonStandsIn
<1>1. PICK r, p \in Requests : dispatched = <<r, p>> /\ r.user = p.user /\ r.key = p.key
  BY DEF KernelInv
<1>2. dispatched[1] = r /\ dispatched[2] = p
  BY <1>1
<1>3. CASE r.user = "attention"
  BY <1>1, <1>2, <1>3, RequestFields, NamesOfAttention DEF OnlyTritonStandsIn
<1>4. CASE r.user = "triton"
  BY <1>1, <1>2, <1>4, RequestFields DEF OnlyTritonStandsIn
<1>5. QED
  BY <1>1, <1>3, <1>4, RequestFields DEF Users

(* For any specs, signatures and failures: a dispatch runs the kernel its  *)
(* caller asked for, or one of Triton with the same entry point            *)
(* (dxjit.cpp:122-128, dxattention.cpp:452-471, dxtriton.cpp:101-108).     *)
THEOREM StandsInOnlyForTriton == SessionsSpec => []OnlyTritonStandsIn
<1>1. SessionsInit => KernelInv
  BY DEF SessionsInit, KernelInit, KernelInv
<1>2. QED
  BY <1>1, PartsStep, KernelStep, KernelOfItsOwn, PTL DEF SessionsSpec

-----------------------------------------------------------------------------
(* Paths: a context goes by the choice of the process.                     *)
PathsInv ==
  /\ declined \in BOOLEAN /\ (declined => choice # None)
  /\ choice # None => choice \in BOOLEAN
  /\ DOMAIN context = Contexts
  /\ \A c \in Contexts : context[c] # None => choice # None /\ context[c].on = choice
  /\ OnlyOldAnswersMislog

LEMMA PathsStep == PathsInv /\ [BypassNext]_pathVars => PathsInv'
<1> SUFFICES ASSUME PathsInv, [BypassNext]_pathVars PROVE PathsInv'
  OBVIOUS
<1>1. ASSUME NEW c \in Contexts, NEW wish \in BOOLEAN, NEW works \in BOOLEAN, NEW fails \in BOOLEAN,
             MakeContext(c, wish, works, fails)
      PROVE  PathsInv'
  <2>1. choice' \in BOOLEAN /\ choice' # None /\ (choice # None => choice' = choice)
    BY <1>1, NoneAssumption DEF MakeContext, PathsInv
  <2>2. declined' \in BOOLEAN /\ (declined => declined')
    <3>1. declined' = IF choice = None THEN fails ELSE declined
      BY <1>1 DEF MakeContext
    <3>2. declined => choice # None
      BY DEF PathsInv
    <3>3. QED
      BY <3>1, <3>2 DEF PathsInv
  <2>3. \A d \in Contexts : context'[d] # None => context'[d].on = choice'
    BY <1>1, <2>1 DEF MakeContext, Effective, PathsInv
  <2>4. QED
    BY <1>1, <2>1, <2>2, <2>3 DEF MakeContext, PathsInv, OnlyOldAnswersMislog
<1>2. ASSUME NEW c \in Contexts, NEW f \in Payloads, AskCapability(c, f) PROVE PathsInv'
  BY <1>2 DEF AskCapability, Remembers, PathsInv, OnlyOldAnswersMislog
<1>3. ASSUME NEW c \in Contexts, NEW f \in Payloads, NEW aligned \in BOOLEAN, Enqueue(c, f, aligned)
      PROVE  PathsInv'
  <2>1. PICK ctx : ctx = Remembers(context[c], f)
    OBVIOUS
  <2>2. /\ context[c] # None /\ ctx.on = choice /\ choice \in BOOLEAN
        /\ context' = [context EXCEPT ![c] = ctx]
        /\ logged' = [says |-> Classified(ctx.on, ctx.known[f], aligned),
                      took |-> Classified(choice \/ declined, volume[f], aligned),
                      changed |-> ctx.known[f] # volume[f]]
        /\ UNCHANGED <<choice, declined, volume>>
    BY <1>3, <2>1 DEF Enqueue, Remembers, Taken, PathsInv
  <2>3. OnlyOldAnswersMislog'
    BY <2>2 DEF OnlyOldAnswersMislog, Classified, PathsInv
  <2>4. QED
    BY <2>2, <2>3 DEF PathsInv
<1>4. ASSUME NEW c \in Contexts, DestroyContext(c) PROVE PathsInv'
  BY <1>4 DEF DestroyContext, PathsInv, OnlyOldAnswersMislog
<1>5. ASSUME NEW f \in Payloads, NEW answer \in Answers, VolumeChanges(f, answer) PROVE PathsInv'
  BY <1>5 DEF VolumeChanges, PathsInv, OnlyOldAnswersMislog
<1>6. CASE UNCHANGED pathVars
  BY <1>6 DEF pathVars, PathsInv, OnlyOldAnswersMislog
<1>7. QED
  BY <1>1, <1>2, <1>3, <1>4, <1>5, <1>6 DEF BypassNext

(* Of any number of contexts and files, the log tells how a read went,     *)
(* unless the volume changed since its context asked, or Windows declined  *)
(* the configuration of a process that wished no bypass (dxio.cpp:31-54,   *)
(* 98-100, 125-157 and 194-212).                                           *)
THEOREM MislogsOnlyOldAnswers == SessionsSpec => []OnlyOldAnswersMislog
<1>1. SessionsInit => PathsInv
  BY DEF SessionsInit, BypassInit, PathsInv, OnlyOldAnswersMislog
<1>2. PathsInv => OnlyOldAnswersMislog
  BY DEF PathsInv
<1>3. QED
  BY <1>1, <1>2, PartsStep, PathsStep, PTL DEF SessionsSpec

-----------------------------------------------------------------------------
LEMMA ExportedIs ==
  ASSUME Len(events) \in Nat, DOMAIN events = 1 .. Len(events)
  PROVE  AllInOrder(Exported, Done, Len(events))
BY AscendingIs DEF Exported

-----------------------------------------------------------------------------
(* Trace sessions.  A call under way on a span keeps it from being         *)
(* destroyed, so its event is one of the list; whoever completes an event  *)
(* has found it incomplete under the lock.                                 *)
TraceCalls ==
  {AtRest} \cup [at : {"begin"}, span : Spans, time : Nat] \cup [at : {"end"}, span : Spans]
           \cup [at : {"opened"}, path : Paths]
           \cup [at : {"written"}, path : Paths, text : Seq(Nat)]

Event == [begin : Nat, duration : Int, complete : BOOLEAN]

TraceTypeOK ==
  /\ time \in Nat
  /\ events \in Seq(Event)
  /\ Len(events) <= MaxEvents
  /\ span \in [Spans -> [event : Nat, ended : BOOLEAN]]
  /\ file \in [Paths -> Seq(Nat)]
  /\ tracing \in [Tracers -> TraceCalls]
  /\ ends \in [1 .. MaxEvents -> Nat]
  /\ due \in [Paths -> SUBSET Nat]

EndsInv ==
  /\ \A e \in 1 .. MaxEvents : e > Len(events) => ends[e] = 0
  /\ \A s \in Spans : span[s].event <= Len(events)
  /\ \A t \in Tracers : tracing[t].at = "end" => span[tracing[t].span].event # 0
  /\ OneEndCounts

(* What a file may hold, or a stream in its buffer.                        *)
GoodText(p, text) ==
  /\ due[p] \subseteq ToSet(text)
  /\ \A i \in DOMAIN text : text[i] \in Done
  /\ \A i \in 1 .. Len(text) - 1 : text[i] < text[i + 1]

(* A file that is not spoiled has one stream at most, and is empty until   *)
(* that one is closed.                                                     *)
FilesInv ==
  \A p \in Paths \ spoiled :
    /\ due[p] \subseteq Done
    /\ \A t, u \in Exporting(p) : t = u
    /\ Exporting(p) = {} => GoodText(p, file[p])
    /\ Exporting(p) # {} => file[p] = <<>>
    /\ \A t \in Exporting(p) : tracing[t].at = "written" => GoodText(p, tracing[t].text)

TraceInv == TraceTypeOK /\ EndsInv /\ FilesInv

LEMMA TraceShapes ==
  ASSUME TraceTypeOK, NEW t \in Tracers
  PROVE  /\ tracing[t].at \in {"rest", "begin", "end", "opened", "written"}
         /\ tracing[t].at = "rest" => tracing[t] = AtRest
         /\ tracing[t].at = "begin" => tracing[t].span \in Spans /\ tracing[t].time \in Nat
         /\ tracing[t].at = "end" => tracing[t].span \in Spans
         /\ tracing[t].at \in {"opened", "written"} => tracing[t].path \in Paths
         /\ tracing[t].at = "written" => tracing[t].text \in Seq(Nat)
<1>1. tracing[t] \in TraceCalls
  BY DEF TraceTypeOK
<1>2. QED
  BY <1>1 DEF TraceCalls, AtRest

(* What a call goes on with.                                               *)
LEMMA Continues ==
  ASSUME TraceTypeOK, NEW t \in Tracers, NEW c \in TraceCalls, Continue(t, c)
  PROVE  /\ tracing' \in [Tracers -> TraceCalls]
         /\ tracing'[t] = c
         /\ \A u \in Tracers : u # t => tracing'[u] = tracing[u]
BY DEF Continue, TraceTypeOK

LEMMA CallsOfTrace ==
  /\ AtRest \in TraceCalls /\ AtRest.at = "rest"
  /\ \A s \in Spans, n \in Nat : [at |-> "begin", span |-> s, time |-> n] \in TraceCalls
  /\ \A s \in Spans : [at |-> "end", span |-> s] \in TraceCalls
  /\ \A p \in Paths : [at |-> "opened", path |-> p] \in TraceCalls
  /\ \A p \in Paths, q \in Seq(Nat) : [at |-> "written", path |-> p, text |-> q] \in TraceCalls
BY DEF TraceCalls, AtRest

(* Events are not taken back.                                              *)
LEMMA TextStaysGood ==
  ASSUME NEW p, NEW text, GoodText(p, text), Done \subseteq Done', due'[p] = due[p]
  PROVE  GoodText(p, text)'
BY DEF GoodText

(* Steps that leave files and exports alone.                               *)
LEMMA FilesKept ==
  ASSUME FilesInv, TraceTypeOK, Done \subseteq Done', UNCHANGED <<file, due, spoiled>>,
         \A t \in Tracers : \/ tracing'[t] = tracing[t]
                            \/ /\ tracing[t].at \notin {"opened", "written"}
                               /\ tracing'[t].at \notin {"opened", "written"}
  PROVE  FilesInv'
<1> SUFFICES ASSUME NEW p \in Paths \ spoiled
             PROVE  /\ due[p] \subseteq Done'
                    /\ \A t, u \in Exporting(p)' : t = u
                    /\ Exporting(p)' = {} => GoodText(p, file[p])'
                    /\ Exporting(p)' # {} => file[p] = <<>>
                    /\ \A t \in Exporting(p)' : tracing'[t].at = "written" => GoodText(p, tracing[t].text)'
                                               /\ tracing'[t] = tracing[t]
  BY DEF FilesInv, GoodText
<1>1. Exporting(p)' = Exporting(p)
  BY DEF Exporting
<1>2. \A text : GoodText(p, text) => GoodText(p, text)'
  BY DEF GoodText
<1>3. \A t \in Exporting(p) : tracing'[t] = tracing[t]
  BY DEF Exporting
<1>4. QED
  BY <1>1, <1>2, <1>3 DEF FilesInv

(* A step that does nothing to the list, and leaves calls that export      *)
(* alone.                                                                  *)
OnlySpans ==
  /\ time' \in Nat
  /\ span' \in [Spans -> [event : Nat, ended : BOOLEAN]]
  /\ tracing' \in [Tracers -> TraceCalls]
  /\ \A s \in Spans : span'[s].event <= Len(events)
  /\ \A t \in Tracers : tracing'[t].at = "end" => span'[tracing'[t].span].event # 0
  /\ \A t \in Tracers : \/ tracing'[t] = tracing[t]
                        \/ /\ tracing[t].at \notin {"opened", "written"}
                           /\ tracing'[t].at \notin {"opened", "written"}

LEMMA SpanSteps ==
  ASSUME TraceInv,
         \/ Tick
         \/ \E s \in Spans : DestroySpan(s)
         \/ \E t \in Tracers : \/ \E s \in Spans : BeginTakesTime(t, s) \/ EndLooks(t, s)
                               \/ BeginFails(t) \/ EndRefused(t)
  PROVE  TraceInv'
<1> USE CallsOfTrace
<1>0. TraceTypeOK /\ EndsInv /\ FilesInv
  BY DEF TraceInv
<1>1. UNCHANGED <<events, file, ends, due, spoiled>>
  BY DEF Tick, DestroySpan, BeginTakesTime, EndLooks, BeginFails, EndRefused
<1>2. OnlySpans
  <2>0. Len(events) \in Nat /\ time \in Nat
    BY <1>0 DEF TraceTypeOK
  <2>1. CASE Tick
    BY <1>0, <2>1 DEF Tick, TraceTypeOK, EndsInv, OnlySpans
  <2>2. ASSUME NEW s \in Spans, DestroySpan(s)
        PROVE  OnlySpans
    <3>1. /\ span' = [span EXCEPT ![s] = Destroyed] /\ UNCHANGED <<time, tracing>>
          /\ \A t \in Tracers : tracing[t].at = "end" => tracing[t].span # s
      BY <2>2 DEF DestroySpan, InCall
    <3>2. QED
      BY <1>0, <2>0, <3>1, TraceShapes DEF TraceTypeOK, EndsInv, Destroyed, OnlySpans
  <2>3. ASSUME NEW t \in Tracers, NEW s \in Spans, BeginTakesTime(t, s)
        PROVE  OnlySpans
    <3>1. /\ tracing[t] = AtRest /\ UNCHANGED <<time, span>>
          /\ Continue(t, [at |-> "begin", span |-> s, time |-> time])
      BY <2>3 DEF BeginTakesTime, Resting
    <3>2. PICK c \in TraceCalls : c = [at |-> "begin", span |-> s, time |-> time]
      BY <2>0
    <3>3. QED
      BY <1>0, <3>1, <3>2, Continues DEF TraceTypeOK, EndsInv, OnlySpans
  <2>4. ASSUME NEW t \in Tracers, NEW s \in Spans, EndLooks(t, s)
        PROVE  OnlySpans
    <3>1. /\ tracing[t] = AtRest /\ UNCHANGED <<time, span>>
          /\ span[s].event # 0
          /\ Continue(t, [at |-> "end", span |-> s])
      BY <2>4 DEF EndLooks, Resting
    <3>2. PICK c \in TraceCalls : c = [at |-> "end", span |-> s] /\ c.at = "end" /\ c.span = s
      OBVIOUS
    <3>3. /\ tracing' \in [Tracers -> TraceCalls] /\ tracing'[t] = c
          /\ \A u \in Tracers : u # t => tracing'[u] = tracing[u]
      BY <1>0, <3>1, <3>2, Continues
    <3>4. \A u \in Tracers : tracing'[u].at = "end" => span'[tracing'[u].span].event # 0
      BY <1>0, <3>1, <3>2, <3>3 DEF EndsInv
    <3>5. QED
      BY <1>0, <3>1, <3>2, <3>3, <3>4 DEF TraceTypeOK, EndsInv, OnlySpans
  <2>5. ASSUME NEW t \in Tracers, BeginFails(t) \/ EndRefused(t)
        PROVE  OnlySpans
    <3>1. /\ tracing[t].at \in {"begin", "end"} /\ UNCHANGED <<time, span>>
          /\ Continue(t, AtRest)
      BY <2>5 DEF BeginFails, EndRefused
    <3>2. QED
      BY <1>0, <3>1, Continues DEF TraceTypeOK, EndsInv, OnlySpans
  <2>6. QED
    BY <2>1, <2>2, <2>3, <2>4, <2>5
<1>3. TraceTypeOK'
  BY <1>0, <1>1, <1>2 DEF TraceTypeOK, OnlySpans
<1>4. EndsInv'
  BY <1>0, <1>1, <1>2 DEF EndsInv, OneEndCounts, OnlySpans
<1>5. Done' = Done
  BY <1>1 DEF Done, IsDone
<1>6. FilesInv'
  BY <1>0, <1>1, <1>2, <1>5, FilesKept DEF OnlySpans
<1>7. QED
  BY <1>3, <1>4, <1>6 DEF TraceInv

(* The event is appended, and its span is the one of the call.             *)
LEMMA BeginStep ==
  ASSUME TraceInv, NEW t \in Tracers, BeginAppends(t)
  PROVE  TraceInv'
<1>0. TraceTypeOK /\ EndsInv /\ FilesInv
  BY DEF TraceInv
<1>1. PICK s, new : /\ s = tracing[t].span /\ s \in Spans
                    /\ new = [begin |-> tracing[t].time, duration |-> 0, complete |-> FALSE]
                    /\ new \in Event
                    /\ new.complete = FALSE
  <2>1. tracing[t].at = "begin"
    BY DEF BeginAppends
  <2>2. tracing[t].span \in Spans /\ tracing[t].time \in Nat
    BY <1>0, <2>1, TraceShapes
  <2>3. \A n \in Nat : /\ [begin |-> n, duration |-> 0, complete |-> FALSE] \in Event
                        /\ [begin |-> n, duration |-> 0, complete |-> FALSE].complete = FALSE
    BY DEF Event
  <2>4. QED
    BY <2>2, <2>3
<1>2. /\ tracing[t].at = "begin" /\ Len(events) < MaxEvents
      /\ events' = Append(events, new)
      /\ span' = [span EXCEPT ![s] = [event |-> Len(events) + 1, ended |-> FALSE]]
      /\ Continue(t, AtRest)
      /\ UNCHANGED <<time, file, ends, due, spoiled>>
  BY <1>1 DEF BeginAppends
<1>3. /\ Len(events) \in Nat /\ MaxEvents \in Nat /\ Len(events') = Len(events) + 1
      /\ events' \in Seq(Event)
      /\ \A e \in 1 .. Len(events) : events'[e] = events[e]
      /\ events'[Len(events) + 1] = new
      /\ DOMAIN events = 1 .. Len(events) /\ DOMAIN events' = 1 .. (Len(events) + 1)
  BY <1>0, <1>1, <1>2, TraceAssumption DEF TraceTypeOK
<1>4. /\ tracing' \in [Tracers -> TraceCalls] /\ tracing'[t] = AtRest
      /\ \A u \in Tracers : u # t => tracing'[u] = tracing[u]
  BY <1>0, <1>2, Continues, CallsOfTrace
<1>5. TraceTypeOK'
  <2>1. Len(events') <= MaxEvents /\ Len(events) + 1 \in Nat
    BY <1>2, <1>3
  <2>2. span' \in [Spans -> [event : Nat, ended : BOOLEAN]]
    BY <1>0, <1>2, <2>1 DEF TraceTypeOK
  <2>3. QED
    BY <1>0, <1>2, <1>3, <1>4, <2>1, <2>2 DEF TraceTypeOK
<1>6. EndsInv'
  <2>1. \A e \in 1 .. MaxEvents : e > Len(events') => ends'[e] = 0
    BY <1>0, <1>2, <1>3 DEF EndsInv
  <2>2. \A x \in Spans : span'[x].event <= Len(events')
    BY <1>0, <1>2, <1>3 DEF EndsInv, TraceTypeOK
  <2>3. ASSUME NEW u \in Tracers, tracing'[u].at = "end" PROVE span'[tracing'[u].span].event # 0
    <3>1. u # t /\ tracing'[u] = tracing[u]
      BY <1>4, <2>3, CallsOfTrace
    <3>2. tracing[u].span \in Spans /\ span[tracing[u].span].event # 0
      BY <1>0, <2>3, <3>1, TraceShapes DEF EndsInv
    <3>3. QED
      BY <1>0, <1>2, <1>3, <3>1, <3>2 DEF TraceTypeOK
  <2>4. OneEndCounts'
    <3> SUFFICES ASSUME NEW e \in 1 .. (Len(events) + 1)
                 PROVE  ends[e] = IF events'[e].complete THEN 1 ELSE 0
      BY <1>2, <1>3 DEF OneEndCounts
    <3>1. CASE e = Len(events) + 1
      BY <1>0, <1>1, <1>2, <1>3, <3>1 DEF EndsInv
    <3>2. CASE e # Len(events) + 1
      <4>1. e \in 1 .. Len(events)
        BY <1>3, <3>2
      <4>2. QED
        BY <1>0, <1>3, <4>1 DEF EndsInv, OneEndCounts
    <3>3. QED
      BY <3>1, <3>2
  <2>5. QED
    BY <2>1, <2>2, <2>3, <2>4 DEF EndsInv
<1>7. Done \subseteq Done'
  BY <1>3 DEF Done, IsDone
<1>8. FilesInv'
  BY <1>0, <1>2, <1>4, <1>7, FilesKept, CallsOfTrace
<1>9. QED
  BY <1>5, <1>6, <1>8 DEF TraceInv

(* The one that finds the event incomplete completes it.                   *)
LEMMA EndStep ==
  ASSUME TraceInv, NEW t \in Tracers, EndRecords(t)
  PROVE  TraceInv'
<1>0. TraceTypeOK /\ EndsInv /\ FilesInv
  BY DEF TraceInv
<1>1. PICK s, e : s \in Spans /\ s = tracing[t].span /\ e = span[s].event
  BY <1>0, TraceShapes DEF EndRecords
<1>2. /\ tracing[t].at = "end"
      /\ ~events[e].complete
      /\ events' = [events EXCEPT ![e].duration = Elapsed(e), ![e].complete = TRUE]
      /\ span' = [span EXCEPT ![s].ended = TRUE]
      /\ ends' = [ends EXCEPT ![e] = @ + 1]
      /\ Continue(t, AtRest)
      /\ UNCHANGED <<time, file, due, spoiled>>
  BY <1>1 DEF EndRecords, StillOpen
<1>3. /\ Len(events) \in Nat /\ e \in 1 .. Len(events) /\ e \in 1 .. MaxEvents
      /\ DOMAIN events = 1 .. Len(events)
      /\ Elapsed(e) \in Int
      /\ events[e] \in Event
  <2>1. span[s].event \in Nat /\ span[s].event # 0 /\ span[s].event <= Len(events)
    BY <1>0, <1>1, <1>2 DEF TraceTypeOK, EndsInv
  <2>2. Len(events) \in Nat /\ Len(events) <= MaxEvents /\ MaxEvents \in Nat /\ DOMAIN events = 1 .. Len(events)
    BY <1>0, TraceAssumption DEF TraceTypeOK
  <2>3. e \in 1 .. Len(events) /\ e \in 1 .. MaxEvents
    BY <1>1, <2>1, <2>2
  <2>4. events \in Seq(Event) /\ time \in Nat
    BY <1>0 DEF TraceTypeOK
  <2>5. events[e] \in Event
    BY <2>3, <2>4
  <2>6. events[e].begin \in Nat
    BY <2>5 DEF Event
  <2>7. QED
    BY <2>2, <2>3, <2>4, <2>5, <2>6 DEF Elapsed
<1>4. PICK done : /\ done = [[events[e] EXCEPT !.duration = Elapsed(e)] EXCEPT !.complete = TRUE]
                  /\ done \in Event
                  /\ done.complete = TRUE
                  /\ events' = [events EXCEPT ![e] = done]
  <2>1. PICK old \in Event : old = events[e]
    BY <1>3
  <2>6. PICK d \in Int : d = Elapsed(e)
    BY <1>3
  <2>2. PICK mid \in Event : mid = [old EXCEPT !.duration = Elapsed(e)]
    <3>1. [old EXCEPT !.duration = d] \in Event
      BY DEF Event
    <3>2. QED
      BY <2>6, <3>1
  <2>3. PICK done \in Event : done = [mid EXCEPT !.complete = TRUE] /\ done.complete = TRUE
    <3>1. [mid EXCEPT !.complete = TRUE] \in Event /\ [mid EXCEPT !.complete = TRUE].complete = TRUE
      BY DEF Event
    <3>2. QED
      BY <3>1
  <2>4. events' = [events EXCEPT ![e] = done]
    BY <1>2, <1>3, <2>1, <2>2, <2>3
  <2>5. QED
    BY <2>1, <2>2, <2>3, <2>4
<1>5. /\ events' \in Seq(Event)
      /\ Len(events') = Len(events) /\ DOMAIN events' = 1 .. Len(events)
      /\ events'[e] = done /\ \A x \in 1 .. Len(events) : x # e => events'[x] = events[x]
  BY <1>0, <1>3, <1>4 DEF TraceTypeOK
<1>6. /\ tracing' \in [Tracers -> TraceCalls] /\ tracing'[t] = AtRest
      /\ \A u \in Tracers : u # t => tracing'[u] = tracing[u]
  BY <1>0, <1>2, Continues, CallsOfTrace
<1>7. /\ span' \in [Spans -> [event : Nat, ended : BOOLEAN]]
      /\ \A x \in Spans : span'[x].event = span[x].event
  BY <1>0, <1>2 DEF TraceTypeOK
<1>8. /\ ends' \in [1 .. MaxEvents -> Nat] /\ ends'[e] = ends[e] + 1
      /\ \A x \in 1 .. MaxEvents : x # e => ends'[x] = ends[x]
  BY <1>0, <1>2, <1>3 DEF TraceTypeOK
<1>9. TraceTypeOK'
  BY <1>0, <1>2, <1>5, <1>6, <1>7, <1>8 DEF TraceTypeOK
<1>10. EndsInv'
  <2>1. \A x \in 1 .. MaxEvents : x > Len(events') => ends'[x] = 0
    <3> SUFFICES ASSUME NEW x \in 1 .. MaxEvents, x > Len(events') PROVE ends'[x] = 0
      OBVIOUS
    <3>1. x > Len(events) /\ x # e
      BY <1>3, <1>5
    <3>2. QED
      BY <1>0, <1>8, <3>1 DEF EndsInv
  <2>2. \A x \in Spans : span'[x].event <= Len(events')
    BY <1>0, <1>5, <1>7 DEF EndsInv
  <2>3. \A u \in Tracers : tracing'[u].at = "end" => span'[tracing'[u].span].event # 0
    BY <1>0, <1>6, <1>7, TraceShapes, CallsOfTrace DEF EndsInv
  <2>4. OneEndCounts'
    BY <1>0, <1>2, <1>3, <1>4, <1>5, <1>8 DEF EndsInv, OneEndCounts, TraceTypeOK
  <2>5. QED
    BY <2>1, <2>2, <2>3, <2>4 DEF EndsInv
<1>11. Done \subseteq Done'
  BY <1>3, <1>4, <1>5 DEF Done, IsDone
<1>12. FilesInv'
  BY <1>0, <1>2, <1>6, <1>11, FilesKept, CallsOfTrace
<1>13. QED
  BY <1>9, <1>10, <1>12 DEF TraceInv

(* An export leaves the list and the spans alone.                          *)
LEMMA ExportsKeepEnds ==
  ASSUME TraceTypeOK, EndsInv, UNCHANGED <<time, events, span, ends>>,
         NEW t \in Tracers, NEW c \in TraceCalls, c.at # "end", Continue(t, c)
  PROVE  /\ EndsInv'
         /\ file' \in [Paths -> Seq(Nat)] /\ due' \in [Paths -> SUBSET Nat] => TraceTypeOK'
         /\ Done' = Done
<1>1. /\ tracing' \in [Tracers -> TraceCalls] /\ tracing'[t] = c
      /\ \A u \in Tracers : u # t => tracing'[u] = tracing[u]
  BY Continues
<1>2. \A u \in Tracers : tracing'[u].at = "end" => span'[tracing'[u].span].event # 0
  BY <1>1 DEF EndsInv
<1>3. QED
  BY <1>1, <1>2 DEF EndsInv, OneEndCounts, TraceTypeOK, Done, IsDone

(* A file is good for what was complete as it was opened, and so it stays. *)
LEMMA GoodSame ==
  ASSUME NEW p, NEW text, UNCHANGED <<events>>, due'[p] = due[p], GoodText(p, text)
  PROVE  GoodText(p, text)'
BY DEF GoodText, Done, IsDone

LEMMA OpensStep ==
  ASSUME TraceInv, NEW t \in Tracers, NEW p \in Paths, ExportOpens(t, p)
  PROVE  TraceInv'
<1>0. TraceTypeOK /\ EndsInv /\ FilesInv
  BY DEF TraceInv
<1>1. PICK c \in TraceCalls : c = [at |-> "opened", path |-> p] /\ c.at = "opened" /\ c.path = p
  BY CallsOfTrace
<1>2. /\ tracing[t] = AtRest
      /\ file' = [file EXCEPT ![p] = <<>>]
      /\ Continue(t, c)
      /\ due' = [due EXCEPT ![p] = Done]
      /\ spoiled' = IF Exporting(p) = {} THEN spoiled ELSE spoiled \cup {p}
      /\ UNCHANGED <<time, events, span, ends>>
  BY <1>1 DEF ExportOpens, Resting
<1>3. /\ tracing' \in [Tracers -> TraceCalls] /\ tracing'[t] = c
      /\ \A u \in Tracers : u # t => tracing'[u] = tracing[u]
  BY <1>0, <1>2, Continues
<1>4. Done \subseteq Nat
  BY <1>0 DEF TraceTypeOK, Done
<1>5. /\ file' \in [Paths -> Seq(Nat)] /\ file'[p] = <<>>
      /\ \A q \in Paths : q # p => file'[q] = file[q] /\ due'[q] = due[q]
      /\ due' \in [Paths -> SUBSET Nat] /\ due'[p] = Done
  BY <1>0, <1>2, <1>4 DEF TraceTypeOK
<1>6. TraceTypeOK' /\ EndsInv' /\ Done' = Done
  BY <1>0, <1>1, <1>2, <1>5, ExportsKeepEnds
<1>7. \A q \in Paths : q # p => Exporting(q)' = Exporting(q)
  BY <1>1, <1>2, <1>3, CallsOfTrace DEF Exporting
<1>8. Exporting(p)' = Exporting(p) \cup {t}
  BY <1>1, <1>3 DEF Exporting
<1>9. ASSUME NEW q \in Paths \ spoiled', q # p
      PROVE  /\ due'[q] \subseteq Done'
             /\ \A u, v \in Exporting(q)' : u = v
             /\ Exporting(q)' = {} => GoodText(q, file[q])'
             /\ Exporting(q)' # {} => file'[q] = <<>>
             /\ \A u \in Exporting(q)' : tracing'[u].at = "written" => GoodText(q, tracing[u].text)'
  <2>1. q \in Paths \ spoiled
    BY <1>2, <1>9
  <2>2. PICK text : text = file[q]
    OBVIOUS
  <2>3. Exporting(q) = {} => GoodText(q, text)'
    BY <1>2, <1>5, <1>9, <1>0, <2>1, <2>2, GoodSame DEF FilesInv
  <2>4. ASSUME NEW u \in Exporting(q), tracing[u].at = "written"
        PROVE  GoodText(q, tracing[u].text)' /\ tracing'[u] = tracing[u]
    <3>1. PICK txt : txt = tracing[u].text /\ GoodText(q, txt)
      BY <1>0, <2>1, <2>4 DEF FilesInv
    <3>2. GoodText(q, txt)'
      BY <1>2, <1>5, <1>9, <3>1, GoodSame
    <3>3. tracing'[u] = tracing[u]
      BY <1>2, <1>3, <2>4, CallsOfTrace DEF Exporting
    <3>4. QED
      BY <3>1, <3>2, <3>3 DEF GoodText
  <2>5. \A u \in Exporting(q) : tracing'[u] = tracing[u]
    BY <1>2, <1>3, CallsOfTrace DEF Exporting
  <2>6. QED
    BY <1>0, <1>5, <1>6, <1>7, <1>9, <2>1, <2>2, <2>3, <2>4, <2>5 DEF FilesInv, GoodText
<1>10. ASSUME p \notin spoiled'
       PROVE  Exporting(p)' = {t} /\ due'[p] \subseteq Done' /\ file'[p] = <<>> /\ tracing'[t].at # "written"
  BY <1>1, <1>2, <1>3, <1>5, <1>6, <1>8, <1>10
<1>11. FilesInv'
  BY <1>9, <1>10 DEF FilesInv
<1>12. QED
  BY <1>6, <1>11 DEF TraceInv

LEMMA WritesStep ==
  ASSUME TraceInv, NEW t \in Tracers, ExportWrites(t)
  PROVE  TraceInv'
<1>0. TraceTypeOK /\ EndsInv /\ FilesInv
  BY DEF TraceInv
<1>1. AllInOrder(Exported, Done, Len(events)) /\ Done \subseteq 1 .. Len(events) /\ Len(events) \in Nat
  <2>1. Len(events) \in Nat /\ DOMAIN events = 1 .. Len(events)
    BY <1>0 DEF TraceTypeOK
  <2>2. QED
    BY <2>1, ExportedIs DEF Done
<1>2. PICK text : /\ text = Exported /\ text \in Seq(Nat)
                  /\ ToSet(text) = Done
                  /\ \A i \in 1 .. Len(text) - 1 : text[i] < text[i + 1]
  <2>1. PICK text : text = Exported /\ AllInOrder(text, Done, Len(events))
    BY <1>1
  <2>2. ToSet(text) = Done
    BY <1>1, <2>1 DEF AllInOrder
  <2>3. text \in Seq(Nat)
    BY <1>1, <2>1 DEF AllInOrder
  <2>4. QED
    BY <2>1, <2>2, <2>3 DEF AllInOrder
<1>3. PICK p : p \in Paths /\ p = tracing[t].path
  <2>1. tracing[t].at = "opened"
    BY DEF ExportWrites
  <2>2. QED
    BY <1>0, <2>1, TraceShapes
<1>4. PICK c \in TraceCalls : /\ c = [at |-> "written", path |-> p, text |-> text]
                              /\ c.at = "written" /\ c.path = p /\ c.text = text
  BY <1>2, <1>3, CallsOfTrace
<1>5. /\ tracing[t].at = "opened"
      /\ Continue(t, c)
      /\ UNCHANGED <<time, events, span, file, ends, due, spoiled>>
  BY <1>2, <1>3, <1>4 DEF ExportWrites
<1>6. /\ tracing' \in [Tracers -> TraceCalls] /\ tracing'[t] = c
      /\ \A u \in Tracers : u # t => tracing'[u] = tracing[u]
  BY <1>0, <1>5, Continues
<1>7. TraceTypeOK' /\ EndsInv' /\ Done' = Done
  <2>1. file' \in [Paths -> Seq(Nat)] /\ due' \in [Paths -> SUBSET Nat]
    BY <1>0, <1>5 DEF TraceTypeOK
  <2>2. QED
    BY <1>0, <1>4, <1>5, <2>1, ExportsKeepEnds
<1>8. \A q \in Paths : Exporting(q)' = Exporting(q)
  BY <1>3, <1>4, <1>5, <1>6 DEF Exporting
<1>9. \A q \in Paths \ spoiled : due[q] \subseteq Done /\ \A u, v \in Exporting(q) : u = v
  BY <1>0 DEF FilesInv
<1>10. \A q, txt : GoodText(q, txt) => GoodText(q, txt)'
  BY <1>5 DEF GoodText, Done, IsDone
<1>11. ASSUME NEW q \in Paths \ spoiled, NEW u \in Exporting(q), tracing'[u].at = "written"
       PROVE  GoodText(q, tracing[u].text)'
  <2>1. PICK txt : txt = tracing'[u].text /\ GoodText(q, txt)
    <3>1. CASE u = t
      <4>1. q = p
        BY <1>3, <1>5, <3>1 DEF Exporting
      <4>2. GoodText(p, text)
        BY <1>2, <1>9, <4>1 DEF GoodText, ToSet
      <4>3. QED
        BY <1>4, <1>6, <3>1, <4>1, <4>2
    <3>2. CASE u # t
      BY <1>0, <1>6, <1>11, <3>2 DEF FilesInv, Exporting
    <3>3. QED
      BY <3>1, <3>2
  <2>2. QED
    BY <1>10, <2>1 DEF GoodText
<1>12. ASSUME NEW q \in Paths \ spoiled, Exporting(q) = {}
       PROVE  GoodText(q, file[q])'
  <2>1. PICK txt : txt = file[q] /\ GoodText(q, txt)
    BY <1>0, <1>12 DEF FilesInv
  <2>2. QED
    BY <1>5, <1>10, <2>1 DEF GoodText
<1>13. FilesInv'
  BY <1>0, <1>5, <1>7, <1>8, <1>9, <1>11, <1>12 DEF FilesInv
<1>14. QED
  BY <1>7, <1>13 DEF TraceInv

(* The stream has its file for itself, so what it writes is all there is.  *)
LEMMA WholeText ==
  ASSUME NEW text \in Seq(Nat)
  PROVE  text \o SubSeq(<<>>, Len(text) + 1, Len(<<>>)) = text
<1>1. SubSeq(<<>>, Len(text) + 1, Len(<<>>)) = <<>>
  OBVIOUS
<1>2. text \o <<>> = text
  OBVIOUS
<1>3. QED
  BY <1>1, <1>2

LEMMA RestType ==
  ASSUME NEW q \in Seq(Nat), NEW k \in Nat \ {0}
  PROVE  SubSeq(q, k, Len(q)) \in Seq(Nat)
<1>1. \A i \in k .. Len(q) : q[i] \in Nat
  OBVIOUS
<1>2. QED
  BY <1>1

LEMMA ClosesStep ==
  ASSUME TraceInv, NEW t \in Tracers, ExportCloses(t) \/ ExportLoses(t)
  PROVE  TraceInv'
<1>0. TraceTypeOK /\ EndsInv /\ FilesInv
  BY DEF TraceInv
<1>1. tracing[t].at = "written"
  BY DEF ExportCloses, ExportLoses
<1>2. PICK p, text : /\ p \in Paths /\ p = tracing[t].path
                     /\ text \in Seq(Nat) /\ text = tracing[t].text
  BY <1>0, <1>1, TraceShapes
<1>3. /\ Continue(t, AtRest)
      /\ \/ /\ file' = [file EXCEPT ![p] = text \o SubSeq(@, Len(text) + 1, Len(@))]
            /\ spoiled' = spoiled
         \/ file' = file /\ spoiled' = spoiled \cup {p}
      /\ UNCHANGED <<time, events, span, ends, due>>
  BY <1>2 DEF ExportCloses, ExportLoses
<1>4. /\ tracing' \in [Tracers -> TraceCalls] /\ tracing'[t] = AtRest
      /\ \A u \in Tracers : u # t => tracing'[u] = tracing[u]
  BY <1>0, <1>3, Continues, CallsOfTrace
<1>5. /\ file' \in [Paths -> Seq(Nat)]
      /\ \A q \in Paths : q # p => file'[q] = file[q]
      /\ p \notin spoiled' => file'[p] = text \o SubSeq(file[p], Len(text) + 1, Len(file[p]))
  <2>1. file[p] \in Seq(Nat)
    BY <1>0, <1>2 DEF TraceTypeOK
  <2>5. Len(text) + 1 \in Nat \ {0}
    BY <1>2
  <2>2. PICK rest : rest = SubSeq(file[p], Len(text) + 1, Len(file[p])) /\ rest \in Seq(Nat)
    BY <2>1, <2>5, RestType
  <2>3. text \o rest \in Seq(Nat)
    BY <1>2, <2>2
  <2>4. QED
    BY <1>0, <1>2, <1>3, <2>2, <2>3 DEF TraceTypeOK
<1>6. TraceTypeOK' /\ EndsInv' /\ Done' = Done
  <2>1. due' \in [Paths -> SUBSET Nat] /\ AtRest \in TraceCalls /\ AtRest.at # "end"
    BY <1>0, <1>3, CallsOfTrace DEF TraceTypeOK
  <2>2. QED
    BY <1>0, <1>3, <1>5, <2>1, ExportsKeepEnds
<1>7. \A q, txt : GoodText(q, txt) => GoodText(q, txt)'
  BY <1>3 DEF GoodText, Done, IsDone
<1>8. ASSUME NEW q \in Paths \ spoiled', q # p
      PROVE  /\ due'[q] \subseteq Done'
             /\ \A u, v \in Exporting(q)' : u = v
             /\ Exporting(q)' = {} => GoodText(q, file[q])'
             /\ Exporting(q)' # {} => file'[q] = <<>>
             /\ \A u \in Exporting(q)' : tracing'[u].at = "written" => GoodText(q, tracing[u].text)'
  <2>1. q \in Paths \ spoiled /\ file'[q] = file[q] /\ due'[q] = due[q]
    BY <1>3, <1>5, <1>8
  <2>2. Exporting(q)' = Exporting(q) /\ t \notin Exporting(q)
    BY <1>1, <1>2, <1>4, <1>8, CallsOfTrace DEF Exporting
  <2>3. \A u \in Exporting(q) : tracing'[u] = tracing[u]
    BY <1>4, <2>2 DEF Exporting
  <2>4. ASSUME NEW u \in Exporting(q), tracing[u].at = "written"
        PROVE  GoodText(q, tracing[u].text)'
    <3>1. PICK txt : txt = tracing[u].text /\ GoodText(q, txt)
      BY <1>0, <2>1, <2>4 DEF FilesInv
    <3>2. QED
      BY <1>7, <2>3, <3>1 DEF GoodText
  <2>5. ASSUME Exporting(q) = {} PROVE GoodText(q, file[q])'
    <3>1. PICK txt : txt = file[q] /\ GoodText(q, txt)
      BY <1>0, <2>1, <2>5 DEF FilesInv
    <3>2. QED
      BY <1>7, <2>1, <3>1 DEF GoodText
  <2>6. QED
    BY <1>0, <1>6, <2>1, <2>2, <2>3, <2>4, <2>5 DEF FilesInv
<1>9. ASSUME p \notin spoiled'
      PROVE  due'[p] \subseteq Done' /\ Exporting(p)' = {} /\ GoodText(p, file[p])'
  <2>1. p \in Paths \ spoiled /\ t \in Exporting(p)
    BY <1>1, <1>2, <1>3, <1>9 DEF Exporting
  <2>2. /\ due[p] \subseteq Done /\ file[p] = <<>>
        /\ \A u \in Exporting(p) : u = t
        /\ GoodText(p, text)
    BY <1>0, <1>1, <1>2, <2>1 DEF FilesInv
  <2>3. file'[p] = text
    BY <1>2, <1>5, <1>9, <2>2, WholeText
  <2>4. Exporting(p)' = {}
    BY <1>4, <2>2, CallsOfTrace DEF Exporting
  <2>5. GoodText(p, text)'
    BY <1>7, <2>2
  <2>6. QED
    BY <1>3, <1>6, <2>2, <2>3, <2>4, <2>5 DEF GoodText
<1>10. FilesInv'
  BY <1>8, <1>9 DEF FilesInv
<1>11. QED
  BY <1>6, <1>10 DEF TraceInv

LEMMA TraceStep == TraceInv /\ [TraceNext]_traceVars => TraceInv'
<1> SUFFICES ASSUME TraceInv, [TraceNext]_traceVars PROVE TraceInv'
  OBVIOUS
<1>1. CASE UNCHANGED traceVars
  BY <1>1 DEF traceVars, TraceInv, TraceTypeOK, EndsInv, OneEndCounts, FilesInv, GoodText, Exporting,
              Done, IsDone
<1>2. CASE TraceNext
  BY <1>2, SpanSteps, BeginStep, EndStep, OpensStep, WritesStep, ClosesStep DEF TraceNext
<1>3. QED
  BY <1>1, <1>2

LEMMA TraceStarts == SessionsInit => TraceInv
<1> SUFFICES ASSUME TraceInit PROVE TraceInv
  BY DEF SessionsInit
<1> USE DEF TraceInit
<1>1. TraceTypeOK
  BY TraceAssumption, CallsOfTrace DEF TraceTypeOK, Destroyed
<1>2. EndsInv
  BY CallsOfTrace DEF EndsInv, OneEndCounts, Destroyed
<1>3. FilesInv
  BY CallsOfTrace DEF FilesInv, Exporting, GoodText
<1>4. QED
  BY <1>1, <1>2, <1>3 DEF TraceInv

LEMMA TraceInvariance == SessionsSpec => []TraceInv
BY PartsStep, TraceStarts, TraceStep, PTL DEF SessionsSpec

(* However many threads end, destroy and begin any spans: one call that    *)
(* ends a span succeeds, and completes its event (dx_trace_api.cpp:149-168).*)
THEOREM EndsOnce == SessionsSpec => []OneEndCounts
<1>1. TraceInv => OneEndCounts
  BY DEF TraceInv, EndsInv
<1>2. QED
  BY <1>1, TraceInvariance, PTL

(* Of any number of exports to any files, only those that had one file     *)
(* open at a time, or lost their last buffer, leave one that does not hold *)
(* complete events, in order, and all that were complete before            *)
(* (dx_trace_api.cpp:180-208).                                             *)
THEOREM FilesSpoiledByOverlaps == SessionsSpec => []OnlyOverlapsSpoilFiles
<1>1. TraceInv => OnlyOverlapsSpoilFiles
  <2> SUFFICES ASSUME TraceInv, NEW p \in Paths \ spoiled, Exporting(p) = {}
               PROVE  /\ due[p] \subseteq ToSet(file[p])
                      /\ \A i \in DOMAIN file[p] : IsDone(file[p][i])
                      /\ \A i \in 1 .. Len(file[p]) - 1 : file[p][i] < file[p][i + 1]
    BY DEF OnlyOverlapsSpoilFiles
  <2>1. GoodText(p, file[p])
    BY DEF TraceInv, FilesInv
  <2>2. QED
    BY <2>1 DEF GoodText, Done
<1>2. QED
  BY <1>1, TraceInvariance, PTL

-----------------------------------------------------------------------------
(* Loggers: a file that one logger at a time has open holds records that   *)
(* are whole, up to the one of the thread that holds the logger's lock.    *)
Pieces == [by : Loggers, level : Modes \cup {"header"}, last : BOOLEAN]

LogCalls == [at : {"enabled", "half"}, log : Loggers, mode : Modes, long : BOOLEAN]

LogTypeOK ==
  /\ second \in Files
  /\ logger \in [Loggers -> [exists : BOOLEAN, modes : SUBSET Modes, file : 0 .. Closed]]
  /\ logFile \in [Files -> Seq(Pieces)]
  /\ writing \in [Writers -> {NotWriting} \cup LogCalls]
  /\ spanLog \in [Writers -> Loggers \cup {NoLog}]
  /\ opened \in [Files -> SUBSET Modes]

(* A logger in use exists, and the mode a thread asked for is one of its;  *)
(* a file that is not excused is that of one logger, and one thread writes.*)
OwnersInv ==
  /\ \A l \in Loggers :
       logger[l].file # Closed => logger[l].exists /\ logger[l].modes \subseteq opened[logger[l].file]
  /\ \A k, l \in Loggers :
       logger[k].file = logger[l].file /\ logger[k].file \in Files \ excused => k = l
  /\ \A t \in Writers : spanLog[t] # NoLog => logger[spanLog[t]].exists
  /\ \A t \in Writers : writing[t].at # "rest" =>
       /\ logger[writing[t].log].exists
       /\ writing[t].mode \in logger[writing[t].log].modes
       /\ writing[t].at = "half" => logger[writing[t].log].file # Closed
  /\ \A t, u \in Writers :
       writing[t].at = "half" /\ writing[u].at = "half" /\ writing[t].log = writing[u].log => t = u

WholeOf(piece) == [piece EXCEPT !.last = TRUE]

(* Every piece but the last has what follows it.                           *)
Follows(pieces, modes) ==
  \A i \in 1 .. Len(pieces) :
    /\ pieces[i].level \in modes \cup {"header"}
    /\ ~pieces[i].last /\ i < Len(pieces) => pieces[i + 1] = WholeOf(pieces[i])

EndsWhole(pieces) == pieces # <<>> => pieces[Len(pieces)].last

Halfway(t, f) == writing[t].at = "half" /\ logger[writing[t].log].file = f

PiecesInv ==
  \A f \in Files \ excused :
    /\ Follows(logFile[f], opened[f])
    /\ EndsWhole(logFile[f]) \/ \E t \in Writers : Halfway(t, f)
    /\ \A t \in Writers : Halfway(t, f) =>
         logFile[f] # <<>> /\ logFile[f][Len(logFile[f])] = Record(writing[t], FALSE)

LogInv == LogTypeOK /\ OwnersInv /\ PiecesInv

LEMMA WholeOfIs ==
  ASSUME NEW p \in Pieces
  PROVE  /\ WholeOf(p) \in Pieces /\ WholeOf(p).last
         /\ WholeOf(p).by = p.by /\ WholeOf(p).level = p.level
BY DEF WholeOf, Pieces

LEMMA FollowsAppend ==
  ASSUME NEW pieces \in Seq(Pieces), NEW modes, NEW r \in Pieces, Follows(pieces, modes),
         r.level \in modes \cup {"header"},
         EndsWhole(pieces) \/ r = WholeOf(pieces[Len(pieces)])
  PROVE  Follows(Append(pieces, r), modes)
<1> DEFINE all == Append(pieces, r)
<1>1. /\ Len(all) = Len(pieces) + 1 /\ Len(pieces) \in Nat
      /\ \A i \in 1 .. Len(pieces) : all[i] = pieces[i]
      /\ all[Len(pieces) + 1] = r
  OBVIOUS
<1>2. ASSUME NEW i \in 1 .. Len(all)
      PROVE  /\ all[i].level \in modes \cup {"header"}
             /\ ~all[i].last /\ i < Len(all) => all[i + 1] = WholeOf(all[i])
  <2> HIDE DEF all
  <2>1. CASE i = Len(pieces) + 1
    BY <1>1, <2>1
  <2>2. CASE i \in 1 .. Len(pieces) /\ i < Len(pieces)
    <3>1. all[i] = pieces[i] /\ all[i + 1] = pieces[i + 1]
      BY <1>1, <2>2
    <3>2. QED
      BY <2>2, <3>1 DEF Follows
  <2>3. CASE i \in 1 .. Len(pieces) /\ i = Len(pieces)
    <3>1. all[i] = pieces[i] /\ all[i + 1] = r /\ pieces # <<>>
      BY <1>1, <2>3
    <3>2. pieces[i].level \in modes \cup {"header"}
      BY <2>3 DEF Follows
    <3>3. pieces[i].last \/ r = WholeOf(pieces[i])
      BY <2>3, <3>1 DEF EndsWhole
    <3>4. QED
      BY <3>1, <3>2, <3>3
  <2>4. QED
    BY <1>1, <1>2, <2>1, <2>2, <2>3
<1>3. QED
  BY <1>2 DEF Follows

LEMMA FollowsMore ==
  ASSUME NEW pieces, NEW modes, NEW more, modes \subseteq more, Follows(pieces, modes)
  PROVE  Follows(pieces, more)
BY DEF Follows

LEMMA LogStarts == SessionsInit => LogInv
<1> SUFFICES ASSUME LogInit PROVE LogInv
  BY DEF SessionsInit
<1> USE DEF LogInit, Files, Closed
<1>1. LogTypeOK
  BY LogAssumption DEF LogTypeOK, Gone
<1>2. /\ \A l \in Loggers : logger[l].file = Closed
      /\ \A t \in Writers : writing[t].at = "rest" /\ spanLog[t] = NoLog
      /\ \A f \in Files : logFile[f] = <<>>
  BY DEF Gone, NotWriting
<1>5. OwnersInv
  <2>1. Closed \notin Files
    BY LogAssumption
  <2>2. QED
    BY <1>2, <2>1 DEF OwnersInv
<1>3. PiecesInv
  BY <1>2 DEF PiecesInv, Follows, EndsWhole, Halfway
<1>4. QED
  BY <1>1, <1>5, <1>3 DEF LogInv

LEMMA LogPasses == LogInv /\ Passes => LogInv'
<1> SUFFICES ASSUME LogInv, Passes PROVE LogInv'
  OBVIOUS
<1>1. LogTypeOK'
  BY LogAssumption DEF LogInv, LogTypeOK, Passes, Files
<1>2. OwnersInv' /\ PiecesInv'
  BY DEF LogInv, OwnersInv, PiecesInv, Passes, Follows, EndsWhole, Halfway, Record
<1>3. QED
  BY <1>1, <1>2 DEF LogInv

(* Creating: a file opened anew had no owner, or is excused from now on.   *)
LEMMA OpensKeepsLog ==
  ASSUME LogInv, NEW l \in Loggers, NEW modes \in SUBSET Modes, ~logger[l].exists, Opens(l, modes),
         UNCHANGED <<second, writing, spanLog>>
  PROVE  LogInv'
<1> DEFINE new    == [exists |-> TRUE, modes |-> modes, file |-> second]
           header == [by |-> l, level |-> "header", last |-> TRUE]
<1>1. /\ logger' = [logger EXCEPT ![l] = new] /\ new \in [exists : BOOLEAN, modes : SUBSET Modes, file : 0 .. Closed]
      /\ second \in Files /\ second # Closed /\ header \in Pieces
  BY LogAssumption DEF Opens, LogInv, LogTypeOK, Files, Closed, Pieces
<1>2. /\ logger'[l] = new /\ new.exists /\ new.modes = modes /\ new.file = second
      /\ \A k \in Loggers : k # l => logger'[k] = logger[k]
  BY <1>1 DEF LogInv, LogTypeOK
<1>3. /\ logFile' = [logFile EXCEPT ![second] = Append(logFile[second], header)]
      /\ opened' = [opened EXCEPT ![second] = opened[second] \cup modes]
  BY DEF Opens
<1>4. /\ logFile'[second] = Append(logFile[second], header)
      /\ opened'[second] = opened[second] \cup modes
      /\ \A f \in Files : f # second => logFile'[f] = logFile[f] /\ opened'[f] = opened[f]
  BY <1>1, <1>3 DEF LogInv, LogTypeOK
<1> HIDE DEF new, header
<1>5. LogTypeOK'
  <2>1. logger' \in [Loggers -> [exists : BOOLEAN, modes : SUBSET Modes, file : 0 .. Closed]]
    BY <1>1 DEF LogInv, LogTypeOK
  <2>2. logFile' \in [Files -> Seq(Pieces)]
    BY <1>1, <1>3 DEF LogInv, LogTypeOK
  <2>3. opened' \in [Files -> SUBSET Modes]
    BY <1>1, <1>3 DEF LogInv, LogTypeOK
  <2>4. QED
    BY <2>1, <2>2, <2>3 DEF LogInv, LogTypeOK
<1>6. /\ excused \subseteq excused'
      /\ second \notin excused' => \A k \in Loggers : logger[k].file # second
  BY DEF Opens, Shared
<1>7. \A t \in Writers : writing[t].at # "rest" => writing[t].log \in Loggers \ {l}
  BY DEF LogInv, LogTypeOK, OwnersInv, LogCalls, NotWriting
<1>8. \A t \in Writers : spanLog[t] # NoLog => spanLog[t] \in Loggers \ {l}
  BY DEF LogInv, LogTypeOK, OwnersInv
<1>9. OwnersInv'
  <2>1. \A k \in Loggers : logger'[k].file # Closed =>
          logger'[k].exists /\ logger'[k].modes \subseteq opened'[logger'[k].file]
    <3> SUFFICES ASSUME NEW k \in Loggers, logger'[k].file # Closed
                 PROVE  logger'[k].exists /\ logger'[k].modes \subseteq opened'[logger'[k].file]
      OBVIOUS
    <3>1. CASE k = l
      BY <3>1, <1>2, <1>4
    <3>2. CASE k # l
      <4>1. logger'[k] = logger[k] /\ logger[k].file \in Files
        BY <3>2, <1>2, LogAssumption DEF LogInv, LogTypeOK, Files, Closed
      <4>2. logger[k].exists /\ logger[k].modes \subseteq opened[logger[k].file]
        BY <4>1 DEF LogInv, OwnersInv
      <4>3. opened[logger[k].file] \subseteq opened'[logger[k].file]
        BY <4>1, <1>4
      <4>4. QED
        BY <4>1, <4>2, <4>3
    <3>3. QED
      BY <3>1, <3>2
  <2>2. \A j, k \in Loggers :
          logger'[j].file = logger'[k].file /\ logger'[j].file \in Files \ excused' => j = k
    <3> SUFFICES ASSUME NEW j \in Loggers, NEW k \in Loggers, logger'[j].file = logger'[k].file,
                        logger'[j].file \in Files \ excused'
                 PROVE  j = k
      OBVIOUS
    <3>1. CASE j = l /\ k # l
      BY <3>1, <1>2, <1>6
    <3>2. CASE j # l /\ k = l
      BY <3>2, <1>2, <1>6
    <3>3. CASE j # l /\ k # l
      BY <3>3, <1>2, <1>6 DEF LogInv, OwnersInv
    <3>4. QED
      BY <3>1, <3>2, <3>3
  <2>3. \A t \in Writers : spanLog'[t] # NoLog => logger'[spanLog'[t]].exists
    BY <1>2, <1>8 DEF LogInv, OwnersInv
  <2>4. \A t \in Writers : writing'[t].at # "rest" =>
          /\ logger'[writing'[t].log].exists
          /\ writing'[t].mode \in logger'[writing'[t].log].modes
          /\ writing'[t].at = "half" => logger'[writing'[t].log].file # Closed
    BY <1>2, <1>7 DEF LogInv, OwnersInv
  <2>5. QED
    BY <2>1, <2>2, <2>3, <2>4 DEF LogInv, OwnersInv, Closed, Files
<1>10. \A t \in Writers, f \in Files : Halfway(t, f)' <=> Halfway(t, f)
  BY <1>2, <1>7 DEF Halfway
<1>11. ASSUME NEW f \in Files \ excused'
       PROVE  /\ Follows(logFile'[f], opened'[f])
              /\ EndsWhole(logFile'[f]) \/ \E t \in Writers : Halfway(t, f)'
              /\ \A t \in Writers : Halfway(t, f)' =>
                   logFile'[f] # <<>> /\ logFile'[f][Len(logFile'[f])] = Record(writing'[t], FALSE)
  <2>0. /\ Follows(logFile[f], opened[f])
        /\ EndsWhole(logFile[f]) \/ \E t \in Writers : Halfway(t, f)
        /\ \A t \in Writers : Halfway(t, f) =>
             logFile[f] # <<>> /\ logFile[f][Len(logFile[f])] = Record(writing[t], FALSE)
    BY <1>6 DEF LogInv, PiecesInv
  <2>1. CASE f # second
    BY <2>0, <2>1, <1>4, <1>10
  <2>2. CASE f = second
    <3>1. \A t \in Writers : ~Halfway(t, f)
      BY <2>2, <1>6, <1>7 DEF Halfway
    <3>2. Follows(logFile[f], opened'[f])
      BY <2>0, <2>2, <1>4, FollowsMore
    <3>3. logFile[f] \in Seq(Pieces) /\ header.level = "header" /\ header.last
      BY DEF LogInv, LogTypeOK, header
    <3>4. Follows(Append(logFile[f], header), opened'[f])
      BY <2>0, <3>1, <3>2, <3>3, <1>1, FollowsAppend
    <3>5. EndsWhole(Append(logFile[f], header))
      <4>1. Append(logFile[f], header)[Len(Append(logFile[f], header))] = header
        BY <3>3, <1>1
      <4>2. QED
        BY <4>1, <3>3 DEF EndsWhole
    <3>6. QED
      BY <3>1, <3>4, <3>5, <2>2, <1>4, <1>10
  <2>3. QED
    BY <2>1, <2>2
<1>12. PiecesInv'
  BY <1>11 DEF PiecesInv, Follows, EndsWhole, Halfway, Record
<1>13. QED
  BY <1>5, <1>9, <1>12 DEF LogInv

(* A logger that nobody uses comes to have no file: made for no mode, or   *)
(* destroyed.                                                              *)
LEMMA NoFileKeepsLog ==
  ASSUME LogInv, NEW l \in Loggers,
         NEW new \in [exists : BOOLEAN, modes : SUBSET Modes, file : {Closed}],
         logger' = [logger EXCEPT ![l] = new],
         \A t \in Writers :
           (spanLog[t] # NoLog => spanLog[t] # l) /\ (writing[t].at # "rest" => writing[t].log # l),
         UNCHANGED <<second, logFile, writing, spanLog, opened, excused>>
  PROVE  LogInv'
<1>1. /\ logger'[l].file = Closed
      /\ \A k \in Loggers : k # l => logger'[k] = logger[k]
      /\ \A k \in Loggers : logger'[k].file # Closed => k # l
  BY DEF LogInv, LogTypeOK
<1>2. LogTypeOK'
  <2>1. new \in [exists : BOOLEAN, modes : SUBSET Modes, file : 0 .. Closed]
    BY LogAssumption DEF Closed
  <2>2. logger' \in [Loggers -> [exists : BOOLEAN, modes : SUBSET Modes, file : 0 .. Closed]]
    BY <2>1 DEF LogInv, LogTypeOK
  <2>3. QED
    BY <2>2 DEF LogInv, LogTypeOK
<1>3. Closed \notin Files
  BY LogAssumption DEF Closed, Files
<1>4. /\ \A t \in Writers : writing[t].at # "rest" => logger'[writing[t].log] = logger[writing[t].log]
      /\ \A t \in Writers : spanLog[t] # NoLog => logger'[spanLog[t]] = logger[spanLog[t]]
  BY <1>1 DEF LogInv, LogTypeOK, LogCalls, NotWriting
<1>5. OwnersInv'
  <2>1. \A k \in Loggers : logger'[k].file # Closed =>
          logger'[k].exists /\ logger'[k].modes \subseteq opened'[logger'[k].file]
    BY <1>1 DEF LogInv, OwnersInv
  <2>2. \A j, k \in Loggers :
          logger'[j].file = logger'[k].file /\ logger'[j].file \in Files \ excused' => j = k
    <3> SUFFICES ASSUME NEW j \in Loggers, NEW k \in Loggers, logger'[j].file = logger'[k].file,
                        logger'[j].file \in Files \ excused'
                 PROVE  j = k
      OBVIOUS
    <3>1. j # l /\ k # l
      BY <1>1, <1>3
    <3>2. QED
      BY <3>1, <1>1 DEF LogInv, OwnersInv
  <2>3. \A t \in Writers : spanLog'[t] # NoLog => logger'[spanLog'[t]].exists
    BY <1>4 DEF LogInv, OwnersInv
  <2>4. \A t \in Writers : writing'[t].at # "rest" =>
          /\ logger'[writing'[t].log].exists
          /\ writing'[t].mode \in logger'[writing'[t].log].modes
          /\ writing'[t].at = "half" => logger'[writing'[t].log].file # Closed
    BY <1>4 DEF LogInv, OwnersInv
  <2>5. QED
    BY <2>1, <2>2, <2>3, <2>4 DEF LogInv, OwnersInv, Closed, Files
<1>6. \A t \in Writers, f \in Files : Halfway(t, f)' <=> Halfway(t, f)
  BY <1>4 DEF Halfway
<1>7. \A f \in Files \ excused' :
        /\ Follows(logFile'[f], opened'[f])
        /\ EndsWhole(logFile'[f]) \/ \E t \in Writers : Halfway(t, f)'
        /\ \A t \in Writers : Halfway(t, f)' =>
             logFile'[f] # <<>> /\ logFile'[f][Len(logFile'[f])] = Record(writing'[t], FALSE)
  BY <1>6 DEF LogInv, PiecesInv
<1>8. PiecesInv'
  BY <1>7 DEF PiecesInv, Follows, EndsWhole, Halfway, Record
<1>9. QED
  BY <1>2, <1>5, <1>8 DEF LogInv

LEMMA CreateKeepsLog ==
  ASSUME LogInv, NEW l \in Loggers, CreateLog(l)
  PROVE  LogInv'
<1>1. PICK modes \in ReadModes : Opens(l, modes) \/ OpensNone(l, modes)
  BY DEF CreateLog
<1>2. modes \in SUBSET Modes
  BY DEF ReadModes
<1>3. ~logger[l].exists /\ UNCHANGED <<second, writing, spanLog>>
  BY DEF CreateLog
<1>4. CASE Opens(l, modes)
  BY <1>2, <1>3, <1>4, OpensKeepsLog
<1>5. CASE OpensNone(l, modes)
  <2>1. PICK new : new = [exists |-> TRUE, modes |-> modes, file |-> Closed]
    OBVIOUS
  <2>2. new \in [exists : BOOLEAN, modes : SUBSET Modes, file : {Closed}]
    BY <2>1, <1>2
  <2>3. \A t \in Writers :
          (spanLog[t] # NoLog => spanLog[t] # l) /\ (writing[t].at # "rest" => writing[t].log # l)
    BY <1>3 DEF LogInv, OwnersInv
  <2>4. QED
    BY <1>3, <1>5, <2>1, <2>2, <2>3, NoFileKeepsLog DEF OpensNone
<1>6. QED
  BY <1>1, <1>4, <1>5

LEMMA DestroyKeepsLog ==
  ASSUME LogInv, NEW l \in Loggers, DestroyLog(l)
  PROVE  LogInv'
<1>1. Gone \in [exists : BOOLEAN, modes : SUBSET Modes, file : {Closed}]
  BY DEF Gone
<1>2. QED
  BY <1>1, NoFileKeepsLog DEF DestroyLog

(* A thread asks, of a logger that exists, whether its mode is on.         *)
LEMMA AsksKeepsLog ==
  ASSUME LogInv, NEW t \in Writers, NEW l \in Loggers, NEW mode \in Modes, NEW long \in BOOLEAN,
         writing[t] = NotWriting, logger[l].exists, Asks(t, l, mode, long),
         spanLog' \in [Writers -> Loggers \cup {NoLog}],
         \A u \in Writers : spanLog'[u] # NoLog => logger[spanLog'[u]].exists,
         UNCHANGED <<second, logger, logFile, opened, excused>>
  PROVE  LogInv'
<1>1. PICK job : /\ writing' = [writing EXCEPT ![t] = job]
                  /\ job = IF mode \in logger[l].modes
                            THEN [at |-> "enabled", log |-> l, mode |-> mode, long |-> long]
                            ELSE NotWriting
  BY DEF Asks, Writing, Enabled
<1>2. /\ job \in {NotWriting} \cup LogCalls /\ job.at # "half"
      /\ job.at # "rest" => job.log = l /\ job.mode = mode /\ mode \in logger[l].modes
  BY <1>1 DEF NotWriting, LogCalls
<1>3. writing'[t] = job /\ \A u \in Writers : u # t => writing'[u] = writing[u]
  BY <1>1 DEF LogInv, LogTypeOK
<1>4. writing[t].at = "rest"
  BY DEF NotWriting
<1>5. LogTypeOK'
  <2>1. writing' \in [Writers -> {NotWriting} \cup LogCalls]
    BY <1>1, <1>2 DEF LogInv, LogTypeOK
  <2>2. QED
    BY <2>1 DEF LogInv, LogTypeOK, NotWriting
<1>6. \A u \in Writers : writing'[u].at = "half" <=> writing[u].at = "half"
  BY <1>2, <1>3, <1>4
<1>7. \A u \in Writers : writing[u].at = "half" => writing'[u] = writing[u]
  BY <1>3, <1>4
<1>8. OwnersInv'
  <2>1. \A u \in Writers : writing'[u].at # "rest" =>
          /\ logger'[writing'[u].log].exists
          /\ writing'[u].mode \in logger'[writing'[u].log].modes
          /\ writing'[u].at = "half" => logger'[writing'[u].log].file # Closed
    BY <1>2, <1>3 DEF LogInv, OwnersInv
  <2>2. QED
    BY <2>1, <1>6, <1>7 DEF LogInv, OwnersInv, Closed, Files
<1>9. \A u \in Writers, f \in Files : Halfway(u, f)' <=> Halfway(u, f)
  BY <1>6, <1>7 DEF Halfway
<1>10. \A f \in Files \ excused' :
         /\ Follows(logFile'[f], opened'[f])
         /\ EndsWhole(logFile'[f]) \/ \E u \in Writers : Halfway(u, f)'
         /\ \A u \in Writers : Halfway(u, f)' =>
              logFile'[f] # <<>> /\ logFile'[f][Len(logFile'[f])] = Record(writing'[u], FALSE)
  <2>1. \A u \in Writers, f \in Files : Halfway(u, f) => writing'[u] = writing[u]
    BY <1>7 DEF Halfway
  <2>2. QED
    BY <1>9, <2>1 DEF LogInv, PiecesInv
<1>11. PiecesInv'
  BY <1>10 DEF PiecesInv, Follows, EndsWhole, Halfway, Record
<1>12. QED
  BY <1>5, <1>8, <1>11 DEF LogInv

LEMMA AskingKeepsLog ==
  ASSUME LogInv, NEW t \in Writers,
         \/ SpanEnds(t)
         \/ \E l \in Loggers :
              SpanBegins(t, l) \/ \E mode \in Modes, long \in BOOLEAN : Write(t, l, mode, long)
  PROVE  LogInv'
<1>1. "trace" \in Modes /\ "perf" \in Modes
  BY LogAssumption
<1>2. CASE SpanEnds(t)
  <2>1. spanLog[t] \in Loggers /\ logger[spanLog[t]].exists
    BY <1>2 DEF SpanEnds, LogInv, LogTypeOK, OwnersInv
  <2>2. /\ spanLog' \in [Writers -> Loggers \cup {NoLog}]
        /\ \A u \in Writers : spanLog'[u] # NoLog => logger[spanLog'[u]].exists
    BY <1>2 DEF SpanEnds, LogInv, LogTypeOK, OwnersInv
  <2>3. writing[t] = NotWriting /\ Asks(t, spanLog[t], "perf", FALSE)
    BY <1>2 DEF SpanEnds
  <2>4. UNCHANGED <<second, logger, logFile, opened, excused>>
    BY <1>2 DEF SpanEnds
  <2>5. PICK l \in Loggers : l = spanLog[t]
    BY <2>1
  <2>6. PICK mode \in Modes : mode = "perf"
    BY <1>1
  <2>7. logger[l].exists /\ Asks(t, l, mode, FALSE)
    BY <2>1, <2>3, <2>5, <2>6
  <2>8. QED
    BY <2>2, <2>3, <2>4, <2>7, AsksKeepsLog
<1>3. ASSUME NEW l \in Loggers, SpanBegins(t, l)
      PROVE  LogInv'
  <2>1. /\ spanLog' \in [Writers -> Loggers \cup {NoLog}]
        /\ \A u \in Writers : spanLog'[u] # NoLog => logger[spanLog'[u]].exists
    BY <1>3 DEF SpanBegins, LogInv, LogTypeOK, OwnersInv
  <2>2. writing[t] = NotWriting /\ logger[l].exists /\ Asks(t, l, "trace", FALSE)
    BY <1>3 DEF SpanBegins
  <2>3. UNCHANGED <<second, logger, logFile, opened, excused>>
    BY <1>3 DEF SpanBegins
  <2>4. QED
    BY <1>1, <2>1, <2>2, <2>3, AsksKeepsLog
<1>4. ASSUME NEW l \in Loggers, NEW mode \in Modes, NEW long \in BOOLEAN, Write(t, l, mode, long)
      PROVE  LogInv'
  <2>1. /\ spanLog' \in [Writers -> Loggers \cup {NoLog}]
        /\ \A u \in Writers : spanLog'[u] # NoLog => logger[spanLog'[u]].exists
    BY <1>4 DEF Write, LogInv, LogTypeOK, OwnersInv
  <2>2. QED
    BY <1>4, <2>1, AsksKeepsLog DEF Write
<1>5. QED
  BY <1>2, <1>3, <1>4

(* Who puts a piece into a file that is not excused is alone in it.        *)
LEMMA AloneInFile ==
  ASSUME LogInv, NEW t \in Writers, NEW u \in Writers, NEW f \in Files \ excused,
         writing[t].at # "rest", Halfway(u, f), logger[writing[t].log].file = f
  PROVE  writing[u].log = writing[t].log
<1>1. writing[t].log \in Loggers /\ writing[u].log \in Loggers
  BY DEF LogInv, LogTypeOK, Halfway, LogCalls, NotWriting
<1>2. QED
  BY <1>1 DEF LogInv, OwnersInv, Halfway

(* The lock is taken: a record, or its first piece.                        *)
LEMMA WriteLocksKeepsLog ==
  ASSUME LogInv, NEW t \in Writers, WriteLocks(t)
  PROVE  LogInv'
<1>1. PICK w : w = writing[t]
  OBVIOUS
<1>2. w \in LogCalls /\ w.at = "enabled" /\ ~Locked(w.log)
  BY <1>1 DEF WriteLocks, LogInv, LogTypeOK, NotWriting, LogCalls
<1>3. /\ w.log \in Loggers /\ logger[w.log].exists /\ w.mode \in logger[w.log].modes
      /\ w.mode \in Modes /\ w.long \in BOOLEAN
  BY <1>1, <1>2 DEF LogInv, OwnersInv, LogCalls
<1>4. PICK f : f = logger[w.log].file
  OBVIOUS
<1>5. f = Closed \/ f \in Files
  BY <1>3, <1>4, LogAssumption DEF LogInv, LogTypeOK, Files, Closed
<1>6. UNCHANGED <<second, logger, spanLog, opened, excused>>
  BY DEF WriteLocks
<1>7. PICK now : /\ writing' = [writing EXCEPT ![t] = now]
                 /\ now = IF f # Closed /\ w.long THEN [w EXCEPT !.at = "half"] ELSE NotWriting
  BY <1>1, <1>4 DEF WriteLocks, Writing
<1>8. /\ now \in {NotWriting} \cup LogCalls
      /\ now.at = "half" <=> f # Closed /\ w.long
      /\ now.at # "rest" => now.at = "half" /\ now.log = w.log /\ now.mode = w.mode
  BY <1>2, <1>7 DEF LogCalls, NotWriting
<1>9. writing'[t] = now /\ \A u \in Writers : u # t => writing'[u] = writing[u]
  BY <1>7 DEF LogInv, LogTypeOK
<1>10. f # Closed => /\ f \in Files
                     /\ logFile' = [logFile EXCEPT ![f] = Append(logFile[f], Record(w, ~w.long))]
  BY <1>1, <1>4, <1>5 DEF WriteLocks, Puts
<1>11. f = Closed => logFile' = logFile
  BY <1>1, <1>4 DEF WriteLocks
<1>12. PICK r : r = Record(w, ~w.long)
  OBVIOUS
<1>13. /\ r \in Pieces /\ r.level = w.mode /\ r.last = ~w.long
       /\ now.at = "half" => r = Record(now, FALSE)
  BY <1>2, <1>3, <1>8, <1>12 DEF Record, Pieces
<1>14. LogTypeOK'
  <2>1. writing' \in [Writers -> {NotWriting} \cup LogCalls]
    BY <1>7, <1>8 DEF LogInv, LogTypeOK
  <2>2. logFile' \in [Files -> Seq(Pieces)]
    <3>1. CASE f = Closed
      BY <3>1, <1>11 DEF LogInv, LogTypeOK
    <3>2. CASE f # Closed
      <4>1. f \in Files /\ logFile' = [logFile EXCEPT ![f] = Append(logFile[f], r)]
        BY <3>2, <1>10, <1>12
      <4>2. Append(logFile[f], r) \in Seq(Pieces)
        BY <4>1, <1>13 DEF LogInv, LogTypeOK
      <4>3. QED
        BY <4>1, <4>2 DEF LogInv, LogTypeOK
    <3>3. QED
      BY <3>1, <3>2
  <2>3. QED
    BY <1>6, <2>1, <2>2 DEF LogInv, LogTypeOK, NotWriting
<1>15. OwnersInv'
  <2>1. \A u \in Writers : writing'[u].at # "rest" =>
          /\ logger'[writing'[u].log].exists
          /\ writing'[u].mode \in logger'[writing'[u].log].modes
          /\ writing'[u].at = "half" => logger'[writing'[u].log].file # Closed
    BY <1>3, <1>4, <1>6, <1>8, <1>9 DEF LogInv, OwnersInv
  <2>2. \A u, v \in Writers :
          writing'[u].at = "half" /\ writing'[v].at = "half" /\ writing'[u].log = writing'[v].log => u = v
    BY <1>2, <1>8, <1>9 DEF Locked, LogInv, OwnersInv
  <2>3. QED
    BY <1>6, <2>1, <2>2 DEF LogInv, OwnersInv, Closed, Files
<1>16. \A u \in Writers : u # t => \A g \in Files : Halfway(u, g)' <=> Halfway(u, g)
  BY <1>6, <1>9 DEF Halfway
<1>17. /\ \A g \in Files : ~Halfway(t, g)
       /\ \A g \in Files : Halfway(t, g)' <=> g = f /\ w.long
  <2>1. f # Closed <=> f \in Files
    BY <1>5, LogAssumption DEF Closed, Files
  <2>2. \A g \in Files : ~Halfway(t, g)
    BY <1>1, <1>2 DEF Halfway
  <2>3. \A g \in Files : Halfway(t, g)' <=> now.at = "half" /\ logger[now.log].file = g
    BY <1>6, <1>9 DEF Halfway
  <2>4. QED
    BY <2>1, <2>2, <2>3, <1>4, <1>8
<1>18. ASSUME NEW g \in Files \ excused'
       PROVE  /\ Follows(logFile'[g], opened'[g])
              /\ EndsWhole(logFile'[g]) \/ \E u \in Writers : Halfway(u, g)'
              /\ \A u \in Writers : Halfway(u, g)' =>
                   logFile'[g] # <<>> /\ logFile'[g][Len(logFile'[g])] = Record(writing'[u], FALSE)
  <2>1. /\ Follows(logFile[g], opened[g])
        /\ EndsWhole(logFile[g]) \/ \E u \in Writers : Halfway(u, g)
        /\ \A u \in Writers : Halfway(u, g) =>
             logFile[g] # <<>> /\ logFile[g][Len(logFile[g])] = Record(writing[u], FALSE)
    BY <1>6 DEF LogInv, PiecesInv
  <2>2. CASE g # f
    <3>1. logFile'[g] = logFile[g] /\ opened'[g] = opened[g]
      BY <2>2, <1>6, <1>10, <1>11 DEF LogInv, LogTypeOK
    <3>2. \A u \in Writers : Halfway(u, g)' <=> Halfway(u, g)
      BY <2>2, <1>16, <1>17
    <3>3. \A u \in Writers : Halfway(u, g) => writing'[u] = writing[u]
      BY <1>9, <1>17
    <3>4. QED
      BY <2>1, <3>1, <3>2, <3>3
  <2>3. CASE g = f
    <3>1. f \in Files \ excused /\ f # Closed
      BY <2>3, <1>6, LogAssumption DEF Files, Closed
    <3>2. \A u \in Writers : ~Halfway(u, f)
      <4>1. ASSUME NEW u \in Writers, Halfway(u, f)
            PROVE  FALSE
        <5>1. writing[u].log = w.log
          BY <1>1, <1>2, <1>4, <3>1, <4>1, AloneInFile
        <5>2. QED
          BY <1>2, <4>1, <5>1 DEF Halfway, Locked
      <4>2. QED
        BY <4>1
    <3>3. logFile[f] \in Seq(Pieces) /\ EndsWhole(logFile[f])
      BY <2>1, <2>3, <3>1, <3>2 DEF LogInv, LogTypeOK
    <3>4. PICK all : all = Append(logFile[f], r)
      OBVIOUS
    <3>5. logFile'[f] = all /\ opened'[f] = opened[f]
      BY <1>6, <1>10, <1>12, <3>1, <3>4 DEF LogInv, LogTypeOK
    <3>6. r.level \in opened[f] \cup {"header"}
      BY <1>3, <1>4, <1>13, <3>1 DEF LogInv, OwnersInv
    <3>7. Follows(all, opened[f])
      BY <1>13, <2>1, <2>3, <3>3, <3>4, <3>6, FollowsAppend
    <3>8. all # <<>> /\ all[Len(all)] = r
      BY <3>3, <3>4, <1>13
    <3>9. EndsWhole(all) <=> ~w.long
      BY <1>3, <1>13, <3>8 DEF EndsWhole
    <3>10. \A u \in Writers : Halfway(u, f)' => u = t /\ w.long
      BY <1>16, <1>17, <3>1, <3>2
    <3>11. w.long => Halfway(t, f)'
      BY <1>17, <3>1
    <3>12. w.long => r = Record(writing'[t], FALSE)
      BY <1>8, <1>9, <1>13, <3>1
    <3>13. QED
      BY <2>3, <3>5, <3>7, <3>8, <3>9, <3>10, <3>11, <3>12
  <2>4. QED
    BY <2>2, <2>3
<1>19. PiecesInv'
  BY <1>18 DEF PiecesInv, Follows, EndsWhole, Halfway, Record
<1>20. QED
  BY <1>14, <1>15, <1>19 DEF LogInv

(* The rest of a record, and the lock is given back.                       *)
LEMMA WriteEndsKeepsLog ==
  ASSUME LogInv, NEW t \in Writers, WriteEnds(t)
  PROVE  LogInv'
<1>1. PICK w : w = writing[t]
  OBVIOUS
<1>2. w \in LogCalls /\ w.at = "half"
  BY <1>1 DEF WriteEnds, LogInv, LogTypeOK, NotWriting, LogCalls
<1>3. /\ w.log \in Loggers /\ logger[w.log].exists /\ w.mode \in logger[w.log].modes
      /\ w.mode \in Modes /\ logger[w.log].file # Closed
  BY <1>1, <1>2 DEF LogInv, OwnersInv, LogCalls
<1>4. PICK f : f = logger[w.log].file
  OBVIOUS
<1>5. f \in Files
  BY <1>3, <1>4, LogAssumption DEF LogInv, LogTypeOK, Files, Closed
<1>6. UNCHANGED <<second, logger, spanLog, opened, excused>>
  BY DEF WriteEnds
<1>7. PICK r : r = Record(w, TRUE)
  OBVIOUS
<1>8. logFile' = [logFile EXCEPT ![f] = Append(logFile[f], r)] /\ writing' = [writing EXCEPT ![t] = NotWriting]
  BY <1>1, <1>4, <1>7 DEF WriteEnds, Puts, Writing
<1>9. r \in Pieces /\ r.level = w.mode /\ r.last
  BY <1>3, <1>7 DEF Record, Pieces
<1>10. r = WholeOf(Record(w, FALSE))
  <2>1. PICK p \in Pieces : p = [by |-> w.log, level |-> w.mode, last |-> FALSE]
    BY <1>3 DEF Pieces
  <2>2. WholeOf(p) \in Pieces /\ WholeOf(p).by = r.by /\ WholeOf(p).level = r.level /\ WholeOf(p).last
    BY <2>1, <1>7, WholeOfIs DEF Record
  <2>3. WholeOf(p) = r
    BY <2>2, <1>9 DEF Pieces
  <2>4. QED
    BY <2>1, <2>3 DEF Record
<1>11. /\ writing'[t].at = "rest"
       /\ \A u \in Writers : u # t => writing'[u] = writing[u]
       /\ \A u \in Writers : writing'[u].at # "rest" => u # t
  BY <1>8 DEF LogInv, LogTypeOK, NotWriting
<1>12. LogTypeOK'
  <2>1. writing' \in [Writers -> {NotWriting} \cup LogCalls]
    BY <1>8 DEF LogInv, LogTypeOK
  <2>2. Append(logFile[f], r) \in Seq(Pieces)
    BY <1>5, <1>9 DEF LogInv, LogTypeOK
  <2>4. logFile' \in [Files -> Seq(Pieces)]
    BY <1>8, <2>2 DEF LogInv, LogTypeOK
  <2>3. QED
    BY <1>6, <2>1, <2>4 DEF LogInv, LogTypeOK, NotWriting
<1>13. OwnersInv'
  <2>1. \A u \in Writers : writing'[u].at # "rest" =>
          /\ logger'[writing'[u].log].exists
          /\ writing'[u].mode \in logger'[writing'[u].log].modes
          /\ writing'[u].at = "half" => logger'[writing'[u].log].file # Closed
    BY <1>6, <1>11 DEF LogInv, OwnersInv
  <2>2. \A u, v \in Writers :
          writing'[u].at = "half" /\ writing'[v].at = "half" /\ writing'[u].log = writing'[v].log => u = v
    BY <1>11 DEF LogInv, OwnersInv
  <2>3. QED
    BY <1>6, <2>1, <2>2 DEF LogInv, OwnersInv, Closed, Files
<1>14. \A u \in Writers : u # t => \A g \in Files : Halfway(u, g)' <=> Halfway(u, g)
  BY <1>6, <1>11 DEF Halfway
<1>15. /\ \A g \in Files : Halfway(t, g) <=> g = f
       /\ \A g \in Files : ~Halfway(t, g)'
  BY <1>1, <1>2, <1>4, <1>6, <1>11 DEF Halfway
<1>16. ASSUME NEW g \in Files \ excused'
       PROVE  /\ Follows(logFile'[g], opened'[g])
              /\ EndsWhole(logFile'[g]) \/ \E u \in Writers : Halfway(u, g)'
              /\ \A u \in Writers : Halfway(u, g)' =>
                   logFile'[g] # <<>> /\ logFile'[g][Len(logFile'[g])] = Record(writing'[u], FALSE)
  <2>1. /\ Follows(logFile[g], opened[g])
        /\ EndsWhole(logFile[g]) \/ \E u \in Writers : Halfway(u, g)
        /\ \A u \in Writers : Halfway(u, g) =>
             logFile[g] # <<>> /\ logFile[g][Len(logFile[g])] = Record(writing[u], FALSE)
    BY <1>6 DEF LogInv, PiecesInv
  <2>2. CASE g # f
    <3>1. logFile'[g] = logFile[g] /\ opened'[g] = opened[g]
      BY <2>2, <1>5, <1>6, <1>8 DEF LogInv, LogTypeOK
    <3>2. \A u \in Writers : Halfway(u, g)' <=> Halfway(u, g)
      BY <2>2, <1>14, <1>15
    <3>3. \A u \in Writers : Halfway(u, g)' => writing'[u] = writing[u]
      BY <1>11, <1>15
    <3>4. QED
      BY <2>1, <3>1, <3>2, <3>3
  <2>3. CASE g = f
    <3>1. f \in Files \ excused /\ Halfway(t, f)
      BY <2>3, <1>6, <1>15
    <3>2. \A u \in Writers : Halfway(u, f) => u = t
      <4>1. ASSUME NEW u \in Writers, Halfway(u, f)
            PROVE  u = t
        <5>1. writing[u].log = w.log
          BY <1>1, <1>2, <1>4, <3>1, <4>1, AloneInFile
        <5>2. QED
          BY <1>1, <1>2, <4>1, <5>1 DEF Halfway, LogInv, OwnersInv
      <4>2. QED
        BY <4>1
    <3>3. PICK pieces \in Seq(Pieces) : pieces = logFile[f]
      BY <1>5 DEF LogInv, LogTypeOK
    <3>4. pieces # <<>> /\ r = WholeOf(pieces[Len(pieces)])
      BY <1>1, <1>10, <2>1, <2>3, <3>1, <3>3
    <3>5. PICK all : all = Append(pieces, r)
      OBVIOUS
    <3>6. logFile'[f] = all /\ opened'[f] = opened[f]
      BY <1>5, <1>6, <1>8, <3>3, <3>5 DEF LogInv, LogTypeOK
    <3>7. r.level \in opened[f] \cup {"header"}
      BY <1>3, <1>4, <1>9 DEF LogInv, OwnersInv
    <3>8. Follows(all, opened[f])
      BY <1>9, <2>1, <2>3, <3>3, <3>4, <3>5, <3>7, FollowsAppend
    <3>9. EndsWhole(all)
      <4>1. all[Len(all)] = r
        BY <3>3, <3>5, <1>9
      <4>2. QED
        BY <1>9, <4>1 DEF EndsWhole
    <3>10. \A u \in Writers : ~Halfway(u, f)'
      BY <1>5, <1>14, <1>15, <3>2
    <3>11. QED
      BY <2>3, <3>6, <3>8, <3>9, <3>10
  <2>4. QED
    BY <2>2, <2>3
<1>17. PiecesInv'
  BY <1>16 DEF PiecesInv, Follows, EndsWhole, Halfway, Record
<1>18. QED
  BY <1>12, <1>13, <1>17 DEF LogInv

LEMMA LogStep == LogInv /\ [LogNext]_logVars => LogInv'
<1> SUFFICES ASSUME LogInv, [LogNext]_logVars PROVE LogInv'
  OBVIOUS
<1>1. CASE UNCHANGED logVars
  <2>1. LogTypeOK' /\ OwnersInv'
    BY <1>1 DEF logVars, LogInv, LogTypeOK, OwnersInv, NotWriting
  <2>2. PiecesInv'
    BY <1>1 DEF logVars, LogInv, PiecesInv, Follows, EndsWhole, Halfway, Record
  <2>3. QED
    BY <2>1, <2>2 DEF LogInv
<1>2. CASE LogNext
  <2>1. CASE Passes
    BY <2>1, LogPasses
  <2>2. ASSUME NEW l \in Loggers, CreateLog(l) \/ DestroyLog(l)
        PROVE  LogInv'
    BY <2>2, CreateKeepsLog, DestroyKeepsLog
  <2>3. ASSUME NEW t \in Writers,
               \/ SpanEnds(t)
               \/ \E l \in Loggers :
                    SpanBegins(t, l) \/ \E mode \in Modes, long \in BOOLEAN : Write(t, l, mode, long)
        PROVE  LogInv'
    BY <2>3, AskingKeepsLog
  <2>4. ASSUME NEW t \in Writers, WriteLocks(t) \/ WriteEnds(t)
        PROVE  LogInv'
    BY <2>4, WriteLocksKeepsLog, WriteEndsKeepsLog
  <2>5. QED
    BY <1>2, <2>1, <2>2, <2>3, <2>4 DEF LogNext
<1>3. QED
  BY <1>1, <1>2

LEMMA LogInvariance == SessionsSpec => []LogInv
BY PartsStep, LogStarts, LogStep, PTL DEF SessionsSpec

(* Whatever loggers of a component are made, used and destroyed by however *)
(* many threads: only a file that two of them had open at a time holds a   *)
(* torn record, or one of a mode nobody had on (dx_log.cpp:93-166).        *)
THEOREM TearsOnlyShared == SessionsSpec => []OnlySharingTearsLogs
<1>1. LogInv => OnlySharingTearsLogs
  <2> SUFFICES ASSUME LogInv, NEW f \in Files \ excused, NEW i \in DOMAIN logFile[f]
               PROVE  /\ logFile[f][i].level \in opened[f] \cup {"header"}
                      /\ ~logFile[f][i].last =>
                           IF i < Len(logFile[f])
                           THEN logFile[f][i + 1] = [logFile[f][i] EXCEPT !.last = TRUE]
                           ELSE Locked(logFile[f][i].by)
    BY DEF OnlySharingTearsLogs
  <2>1. PICK pieces \in Seq(Pieces) : pieces = logFile[f]
    BY DEF LogInv, LogTypeOK
  <2>0. DOMAIN pieces = 1 .. Len(pieces)
    OBVIOUS
  <2>2. i \in 1 .. Len(pieces) /\ Follows(pieces, opened[f])
    BY <2>0, <2>1 DEF LogInv, PiecesInv
  <2>3. i < Len(pieces) \/ i = Len(pieces)
    BY <2>1, <2>2
  <2>4. /\ pieces[i].level \in opened[f] \cup {"header"}
        /\ ~pieces[i].last /\ i < Len(pieces) => pieces[i + 1] = WholeOf(pieces[i])
    BY <2>2 DEF Follows
  <2>5. ASSUME ~pieces[i].last, i = Len(pieces)
        PROVE  Locked(pieces[i].by)
    <3>1. ~EndsWhole(pieces)
      BY <2>1, <2>2, <2>5 DEF EndsWhole
    <3>2. PICK t \in Writers : Halfway(t, f) /\ pieces[i] = Record(writing[t], FALSE)
      BY <2>1, <2>5, <3>1 DEF LogInv, PiecesInv
    <3>3. QED
      BY <3>2 DEF Record, Halfway, Locked
  <2>6. ~pieces[i].last =>
          IF i < Len(pieces) THEN pieces[i + 1] = WholeOf(pieces[i]) ELSE Locked(pieces[i].by)
    BY <2>3, <2>4, <2>5
  <2>7. QED
    BY <2>1, <2>4, <2>6 DEF WholeOf
<1>2. QED
  BY <1>1, LogInvariance, PTL

-----------------------------------------------------------------------------
(* Plans: the depths of visit_node, each from the one below.               *)
Depths(it, g, n) == it = [d \in 0 .. n |-> VisitBelow(g, d, it[d - 1])]

LEMMA DeepestVisit == ASSUME NEW g, NEW f, NEW h PROVE VisitBelow(g, 0, f) = VisitBelow(g, 0, h)
BY DEF VisitBelow

LEMMA DepthsExist ==
  ASSUME NEW g, NEW n \in Nat
  PROVE  \E it : Depths(it, g, n)
<1> DEFINE C == {k \in Nat : ~ \E it : Depths(it, g, k)}
<1> SUFFICES ASSUME C # {} PROVE FALSE
  OBVIOUS
<1>1. PICK k \in Nat : k \in C /\ \A m \in C : k <= m
  <2>1. C \subseteq Nat
    OBVIOUS
  <2> HIDE DEF C
  <2>2. QED
    BY <2>1, SmallestNumber
<1>2. CASE k = 0
  <2>1. PICK it : it = [d \in 0 .. 0 |-> VisitBelow(g, 0, g)]
    OBVIOUS
  <2>2. \A d \in 0 .. 0 : it[d] = VisitBelow(g, d, it[d - 1])
    BY <2>1, DeepestVisit
  <2>3. it = [d \in 0 .. 0 |-> VisitBelow(g, d, it[d - 1])]
    BY <2>1, <2>2
  <2> QED
    BY <1>1, <1>2, <2>3 DEF Depths
<1>3. CASE k # 0
  <2>1. k - 1 \in Nat /\ k - 1 \notin C
    BY <1>1, <1>3
  <2>2. PICK jt : Depths(jt, g, k - 1)
    BY <2>1
  <2>3. PICK it : it = [d \in 0 .. k |-> IF d < k THEN jt[d] ELSE VisitBelow(g, k, jt[k - 1])]
    OBVIOUS
  <2>4. ASSUME NEW d \in 0 .. k PROVE it[d] = VisitBelow(g, d, it[d - 1])
    <3>1. CASE d = k
      BY <1>3, <2>3, <3>1
    <3>2. CASE d # k /\ d # 0
      <4>1. d \in 0 .. k - 1 /\ d - 1 \in 0 .. k /\ d - 1 < k
        BY <1>3, <3>2
      <4>2. it[d] = jt[d] /\ it[d - 1] = jt[d - 1]
        BY <2>3, <4>1
      <4>3. jt[d] = VisitBelow(g, d, jt[d - 1])
        BY <2>2, <4>1 DEF Depths
      <4> QED
        BY <4>2, <4>3
    <3>3. CASE d # k /\ d = 0
      <4>1. d \in 0 .. k - 1 /\ it[d] = jt[d]
        BY <1>3, <2>3, <3>3
      <4>2. jt[d] = VisitBelow(g, d, jt[d - 1])
        BY <2>2, <4>1 DEF Depths
      <4> QED
        BY <3>3, <4>1, <4>2, DeepestVisit
    <3> QED
      BY <3>1, <3>2, <3>3
  <2>5. it = [d \in 0 .. k |-> it[d]]
    BY <2>3
  <2>6. it = [d \in 0 .. k |-> VisitBelow(g, d, it[d - 1])]
    BY <2>4, <2>5
  <2> QED
    BY <1>1, <2>6 DEF Depths
<1> QED
  BY <1>2, <1>3

(* The first visit goes two deep, if need be.                              *)
LEMMA VisitNodeIs ==
  ASSUME NEW g, NEW n \in Nat \ {0}, n = Len(g)
  PROVE  \E f, h : VisitNode(g) = VisitBelow(g, n + 1, f) /\ f = VisitBelow(g, n, h)
<1>1. PICK it : it = CHOOSE jt : Depths(jt, g, n + 1)
  OBVIOUS
<1>2. Depths(it, g, n + 1)
  <2>1. PICK m \in Nat : m = n + 1
    OBVIOUS
  <2>2. \E jt : Depths(jt, g, m)
    BY DepthsExist
  <2> QED
    BY <1>1, <2>1, <2>2
<1>3. VisitNode(g) = it[n + 1]
  BY <1>1 DEF VisitNode, Depths
<1>4. it[n + 1] = VisitBelow(g, n + 1, it[n + 1 - 1]) /\ it[n] = VisitBelow(g, n, it[n - 1])
  BY <1>2 DEF Depths
<1>5. n + 1 - 1 = n
  OBVIOUS
<1> QED
  BY <1>3, <1>4, <1>5

(* A graph as add_node leaves it: dependencies are earlier nodes.          *)
Backwards(g) ==
  /\ Len(g) \in Nat
  /\ \A n \in 1 .. Len(g) :
       /\ Len(g[n].deps) \in Nat
       /\ \A i \in 1 .. Len(g[n].deps) : g[n].deps[i] \in Nat /\ g[n].deps[i] + 1 < n

(* What the visits of the first k nodes leave.                             *)
AfterNodes(g, k) == [fine  |-> TRUE,
                     marks |-> [n \in 1 .. Len(g) |-> IF n <= k THEN 2 ELSE 0],
                     order |-> [i \in 1 .. k |-> i - 1]]

LEMMA VisitsAfter ==
  ASSUME NEW g, Len(g) \in Nat, NEW k \in 0 .. Len(g)
  PROVE  AfterNodes(g, k) \in Visits(g)
<1>1. [i \in 1 .. k |-> i - 1] \in Seq(Nat)
  OBVIOUS
<1>2. [n \in 1 .. Len(g) |-> IF n <= k THEN 2 ELSE 0] \in [1 .. Len(g) -> 0 .. 2]
  OBVIOUS
<1> QED
  BY <1>1, <1>2 DEF AfterNodes, Visits

MarkedFrom(g, t, s, id, m) ==
  /\ t \in Visits(g) /\ t.fine = s.fine /\ t.order = s.order
  /\ t.marks = [s.marks EXCEPT ![id + 1] = m]

LEMMA MarkIs ==
  ASSUME NEW g, NEW s \in Visits(g), NEW id \in Nat, id + 1 \in 1 .. Len(g), NEW m \in 0 .. 2,
         NEW t, t = Marked(s, id, m)
  PROVE  MarkedFrom(g, t, s, id, m)
<1>1. PICK mk : mk = [s.marks EXCEPT ![id + 1] = m]
  OBVIOUS
<1>2. s.marks \in [1 .. Len(g) -> 0 .. 2] /\ s.fine \in BOOLEAN /\ s.order \in Seq(Nat)
  BY DEF Visits
<1>3. mk \in [1 .. Len(g) -> 0 .. 2]
  BY <1>1, <1>2
<1>4. t = [s EXCEPT !.marks = mk]
  BY <1>1 DEF Marked
<1>5. t \in Visits(g) /\ t.fine = s.fine /\ t.order = s.order /\ t.marks = mk
  BY <1>2, <1>3, <1>4 DEF Visits
<1> QED
  BY <1>1, <1>5 DEF MarkedFrom

OrderedFrom(g, t, s, id) ==
  t \in Visits(g) /\ t.fine = s.fine /\ t.marks = s.marks /\ t.order = Append(s.order, id)

LEMMA OrderIs ==
  ASSUME NEW g, NEW s \in Visits(g), NEW id \in Nat, NEW t, t = Ordered(s, id)
  PROVE  OrderedFrom(g, t, s, id)
<1>1. PICK o : o = Append(s.order, id)
  OBVIOUS
<1>2. s.marks \in [1 .. Len(g) -> 0 .. 2] /\ s.fine \in BOOLEAN /\ s.order \in Seq(Nat)
  BY DEF Visits
<1>3. o \in Seq(Nat)
  BY <1>1, <1>2
<1>4. t = [s EXCEPT !.order = o]
  BY <1>1 DEF Ordered
<1>5. t \in Visits(g) /\ t.fine = s.fine /\ t.marks = s.marks /\ t.order = o
  BY <1>2, <1>3, <1>4 DEF Visits
<1> QED
  BY <1>1, <1>5 DEF OrderedFrom

Fresh(g, s, id) == id \in Nat /\ id < Len(g) /\ s \in Visits(g) /\ s.fine /\ s.marks[id + 1] \notin {1, 2}

(* A visit of a node that has no mark, whose dependencies change nothing.  *)
LEMMA VisitsDown ==
  ASSUME NEW g, NEW depth \in Nat \ {0}, NEW f, NEW id, NEW s, Fresh(g, s, id),
         NEW t, t = Marked(s, id, 1), t.fine = s.fine, Looped(f, t, g[id + 1].deps) = t,
         NEW u, u = Marked(t, id, 2), NEW x, x = Ordered(u, id)
  PROVE  VisitBelow(g, depth, f)[id][s] = x
<1>0. id \in Nat /\ id < Len(g) /\ s \in Visits(g) /\ s.fine /\ s.marks[id + 1] \notin {1, 2}
  BY DEF Fresh
<1>1. VisitBelow(g, depth, f)[id] =
        [r \in Visits(g) |->
          IF depth = 0 \/ ~r.fine \/ id >= Len(g) \/ r.marks[id + 1] = 1 THEN [r EXCEPT !.fine = FALSE]
          ELSE IF r.marks[id + 1] = 2 THEN r
          ELSE LET below == Looped(f, Marked(r, id, 1), g[id + 1].deps)
               IN IF below.fine THEN Ordered(Marked(below, id, 2), id) ELSE below]
  BY <1>0 DEF VisitBelow
<1>2. VisitBelow(g, depth, f)[id][s] =
          IF depth = 0 \/ ~s.fine \/ id >= Len(g) \/ s.marks[id + 1] = 1 THEN [s EXCEPT !.fine = FALSE]
          ELSE IF s.marks[id + 1] = 2 THEN s
          ELSE LET below == Looped(f, Marked(s, id, 1), g[id + 1].deps)
               IN IF below.fine THEN Ordered(Marked(below, id, 2), id) ELSE below
  BY <1>0, <1>1
<1>3. ~(depth = 0 \/ ~s.fine \/ id >= Len(g) \/ s.marks[id + 1] = 1) /\ s.marks[id + 1] # 2
  BY <1>0
<1>4. VisitBelow(g, depth, f)[id][s] =
        LET below == Looped(f, Marked(s, id, 1), g[id + 1].deps)
        IN IF below.fine THEN Ordered(Marked(below, id, 2), id) ELSE below
  BY <1>2, <1>3
<1>5. VisitBelow(g, depth, f)[id][s] = IF t.fine THEN Ordered(Marked(t, id, 2), id) ELSE t
  BY <1>4
<1> QED
  BY <1>0, <1>5

LEMMA SameVisit ==
  ASSUME NEW g, NEW s \in Visits(g), NEW t \in Visits(g),
         s.fine = t.fine, s.marks = t.marks, s.order = t.order
  PROVE  s = t
BY DEF Visits

(* A node is put behind those before it, for its dependencies are there.   *)
LEMMA VisitsNext ==
  ASSUME NEW g, Backwards(g), NEW k \in 1 .. Len(g)
  PROVE  VisitNode(g)[k - 1][AfterNodes(g, k - 1)] = AfterNodes(g, k)
<1>1. PICK n : n = Len(g) /\ n \in Nat \ {0}
  BY DEF Backwards
<1>2. PICK f, h : VisitNode(g) = VisitBelow(g, n + 1, f) /\ f = VisitBelow(g, n, h)
  BY <1>1, VisitNodeIs
<1>3. PICK s, id, deps : s = AfterNodes(g, k - 1) /\ id = k - 1 /\ deps = g[k].deps
  OBVIOUS
<1>4. /\ s \in Visits(g) /\ id \in Nat /\ id < n /\ id + 1 = k
      /\ s.fine = TRUE /\ s.marks = [m \in 1 .. n |-> IF m <= k - 1 THEN 2 ELSE 0]
      /\ s.order = [i \in 1 .. k - 1 |-> i - 1]
  <2>1. n \in Nat /\ k - 1 \in 0 .. n
    BY <1>1
  <2>2. s \in Visits(g)
    BY <1>1, <1>3, <2>1, VisitsAfter
  <2>3. s.fine = TRUE /\ s.order = [i \in 1 .. k - 1 |-> i - 1]
    BY <1>3 DEF AfterNodes
  <2>4. s.marks = [m \in 1 .. n |-> IF m <= k - 1 THEN 2 ELSE 0]
    BY <1>1, <1>3 DEF AfterNodes
  <2>5. id \in Nat /\ id < n /\ id + 1 = k
    BY <1>1, <1>3
  <2> QED
    BY <2>2, <2>3, <2>4, <2>5, Zenon
<1>5. PICK t : t = Marked(s, id, 1)
  OBVIOUS
<1>6. /\ t.fine /\ t.order = s.order /\ t \in Visits(g)
      /\ t.marks = [m \in 1 .. n |-> IF m <= k - 1 THEN 2 ELSE IF m = k THEN 1 ELSE 0]
  <2>1. id + 1 \in 1 .. Len(g) /\ 1 \in 0 .. 2
    BY <1>1, <1>4
  <2>2. MarkedFrom(g, t, s, id, 1)
    BY <1>4, <1>5, <2>1, MarkIs
  <2> QED
    BY <1>1, <1>4, <2>2 DEF MarkedFrom
<1>7. ASSUME NEW i \in 1 .. Len(deps) PROVE f[deps[i]][t] = t
  <2>1. PICK d \in Nat : d = deps[i] /\ d + 1 < k
    BY <1>3 DEF Backwards
  <2>2. /\ ~(n = 0 \/ ~t.fine \/ d >= n \/ t.marks[d + 1] = 1) /\ t.marks[d + 1] = 2
    BY <1>1, <1>6, <2>1
  <2>3. f[d][t] = t
    BY <1>1, <1>2, <1>6, <2>2 DEF VisitBelow
  <2> QED
    BY <2>1, <2>3
<1>8. Looped(f, t, deps) = t
  BY <1>3, <1>7, LoopedSame DEF Backwards
<1>9. ~(n + 1 = 0 \/ ~s.fine \/ id >= n \/ s.marks[id + 1] = 1) /\ s.marks[id + 1] # 2
  BY <1>1, <1>4
<1>11. PICK u, x : u = Marked(t, id, 2) /\ x = Ordered(u, id)
  OBVIOUS
<1>10. VisitNode(g)[id][s] = x
  <2>1. PICK depth \in Nat \ {0} : depth = n + 1
    BY <1>1
  <2>2. Fresh(g, s, id)
    BY <1>1, <1>4, <1>9 DEF Fresh
  <2>3. t.fine = s.fine /\ Looped(f, t, g[id + 1].deps) = t
    BY <1>3, <1>4, <1>6, <1>8 DEF Visits
  <2>4. VisitBelow(g, depth, f)[id][s] = x
    BY <1>5, <1>11, <2>2, <2>3, VisitsDown
  <2> QED
    BY <1>2, <2>1, <2>4
<1>12. u \in Visits(g) /\ u.fine = t.fine /\ u.order = t.order /\ u.marks = [t.marks EXCEPT ![id + 1] = 2]
  <2>1. id + 1 \in 1 .. Len(g) /\ 2 \in 0 .. 2
    BY <1>1, <1>4
  <2>2. MarkedFrom(g, u, t, id, 2)
    BY <1>4, <1>6, <1>11, <2>1, MarkIs
  <2> QED
    BY <2>2 DEF MarkedFrom
<1>13. x \in Visits(g) /\ x.fine = u.fine /\ x.marks = u.marks /\ x.order = Append(u.order, id)
  <2>1. OrderedFrom(g, x, u, id)
    BY <1>4, <1>11, <1>12, OrderIs
  <2> QED
    BY <2>1 DEF OrderedFrom
<1>14. x = AfterNodes(g, k)
  <2>1. x.marks = [m \in 1 .. n |-> IF m <= k THEN 2 ELSE 0]
    BY <1>1, <1>4, <1>6, <1>12, <1>13
  <2>2. x.order = [i \in 1 .. k |-> i - 1]
    BY <1>4, <1>6, <1>12, <1>13
  <2>3. AfterNodes(g, k) \in Visits(g)
    BY <1>1, VisitsAfter
  <2>4. AfterNodes(g, k).fine = TRUE /\ AfterNodes(g, k).order = x.order /\ AfterNodes(g, k).marks = x.marks
    BY <1>1, <2>1, <2>2 DEF AfterNodes
  <2>5. x.fine = TRUE
    BY <1>6, <1>12, <1>13 DEF Visits
  <2> QED
    BY <1>13, <2>3, <2>4, <2>5, SameVisit
<1> QED
  BY <1>3, <1>10, <1>14

(* So compile orders the nodes as they were added, and never refuses.      *)
LEMMA CompiledIs ==
  ASSUME NEW g, Backwards(g)
  PROVE  Compiled(g) = AfterNodes(g, Len(g))
<1>1. PICK n \in Nat : n = Len(g)
  BY DEF Backwards
<1>2. PICK w, s, v : /\ w = [k \in 0 .. n |-> AfterNodes(g, k)] /\ s = [k \in 1 .. n |-> k - 1]
                    /\ v = [fine |-> TRUE, marks |-> [k \in 1 .. n |-> 0], order |-> <<>>]
  OBVIOUS
<1>3. n = Len(s)
  BY <1>2
<1>4. w[0] = v
  <2>1. [i \in 1 .. 0 |-> i - 1] = <<>>
    OBVIOUS
  <2>2. [k \in 1 .. n |-> IF k <= 0 THEN 2 ELSE 0] = [k \in 1 .. n |-> 0]
    OBVIOUS
  <2>3. w[0] = AfterNodes(g, 0)
    BY <1>2
  <2>4. [k \in 1 .. Len(g) |-> IF k <= 0 THEN 2 ELSE 0] = v.marks /\ [i \in 1 .. 0 |-> i - 1] = v.order
    BY <1>1, <1>2, <2>1, <2>2
  <2>5. AfterNodes(g, 0) = [fine |-> TRUE, marks |-> v.marks, order |-> v.order]
    BY <2>4 DEF AfterNodes
  <2>6. v = [fine |-> TRUE, marks |-> v.marks, order |-> v.order]
    BY <1>2
  <2> QED
    BY <2>3, <2>5, <2>6
<1>5. ASSUME NEW k \in 1 .. n PROVE w[k] = VisitNode(g)[s[k]][w[k - 1]]
  BY <1>1, <1>2, VisitsNext
<1>6. Looped(VisitNode(g), v, s) = w[n]
  BY <1>3, <1>4, <1>5, LoopedIs
<1> QED
  BY <1>1, <1>2, <1>6 DEF Compiled

(* A plan is of a part of the graph that was all of it once.               *)
PlanOf(p, m) ==
  p.order = [i \in 1 .. m |-> i - 1] /\ p.names = [i \in 1 .. m |-> graph[i].name]

PlansInv ==
  /\ ~refused
  /\ graph \in Seq([name : operators, deps : Seq(Nat)])
  /\ Backwards(graph)
  /\ \A p \in plans : \E m \in 0 .. Len(graph) : PlanOf(p, m)

LEMMA PlansStep == PlansInv /\ [PlanNext]_planVars => PlansInv'
<1> SUFFICES ASSUME PlansInv, [PlanNext]_planVars PROVE PlansInv'
  OBVIOUS
<1>1. /\ ~refused /\ graph \in Seq([name : operators, deps : Seq(Nat)]) /\ Backwards(graph)
      /\ \A p \in plans : \E m \in 0 .. Len(graph) : PlanOf(p, m)
  BY DEF PlansInv
<1>2. ASSUME graph' = graph, operators \subseteq operators', plans' \subseteq plans, refused' = refused
      PROVE  PlansInv'
  <2>1. graph' \in Seq([name : operators', deps : Seq(Nat)])
    <3>1. PICK E : E = [name : operators, deps : Seq(Nat)]
      OBVIOUS
    <3>2. PICK F : F = [name : operators', deps : Seq(Nat)]
      OBVIOUS
    <3>3. E \subseteq F
      BY <1>2, <3>1, <3>2
    <3>4. graph \in Seq(F)
      BY <1>1, <3>1, <3>3, SeqGrows
    <3> QED
      BY <1>2, <3>2, <3>4
  <2>2. Backwards(graph')
    BY <1>1, <1>2
  <2>3. \A p, m : PlanOf(p, m)' <=> PlanOf(p, m)
    BY <1>2 DEF PlanOf
  <2> QED
    BY <1>1, <1>2, <2>1, <2>2, <2>3 DEF PlansInv
<1>3. CASE \E name \in Operators : RegisterOperator(name)
  BY <1>2, <1>3 DEF RegisterOperator
<1>4. CASE FreezeRegistry
  BY <1>2, <1>4 DEF FreezeRegistry
<1>5. ASSUME NEW name \in Operators, NEW deps \in Wanted, AddNode(name, deps)
      PROVE  PlansInv'
  <2>0. PICK g, h, e : g = graph /\ h = graph' /\ e = [name |-> name, deps |-> deps]
    OBVIOUS
  <2>1. PICK n \in Nat : n = Len(g) /\ g = graph /\ h = graph' /\ e = [name |-> name, deps |-> deps]
    BY <1>1, <2>0
  <2>2. /\ h = Append(g, e) /\ name \in operators /\ \A i \in DOMAIN deps : deps[i] < n
        /\ operators' = operators /\ plans' = plans /\ refused' = refused
    BY <1>5, <2>1 DEF AddNode, IsRegistered, Known
  <2>3. deps \in Seq(Nat) /\ e \in [name : operators, deps : Seq(Nat)]
    BY <2>1, <2>2, GraphPlanAssumption
  <2>4. /\ h \in Seq([name : operators, deps : Seq(Nat)]) /\ Len(h) = n + 1 /\ h[n + 1] = e
        /\ \A i \in 1 .. n : h[i] = g[i]
    BY <1>1, <2>1, <2>2, <2>3
  <2>5. Backwards(h)
    <3>1. ASSUME NEW j \in 1 .. n + 1
          PROVE  /\ Len(h[j].deps) \in Nat
                 /\ \A i \in 1 .. Len(h[j].deps) : h[j].deps[i] \in Nat /\ h[j].deps[i] + 1 < j
      <4>1. CASE j = n + 1
        <5>1. h[j].deps = deps /\ Len(deps) \in Nat
          BY <2>1, <2>3, <2>4, <4>1
        <5>2. \A i \in 1 .. Len(deps) : deps[i] \in Nat /\ deps[i] < n
          BY <2>2, <2>3
        <5> QED
          BY <4>1, <5>1, <5>2
      <4>2. CASE j # n + 1
        <5>1. j \in 1 .. Len(g) /\ h[j] = g[j] /\ Backwards(g)
          <6>1. j \in 1 .. n
            BY <4>2
          <6>2. h[j] = g[j]
            BY <2>4, <6>1
          <6> QED
            BY <1>1, <2>1, <6>1, <6>2
        <5> QED
          BY <5>1 DEF Backwards
      <4> QED
        BY <4>1, <4>2
    <3> QED
      BY <2>4, <3>1 DEF Backwards
  <2>6. ASSUME NEW p \in plans PROVE \E m \in 0 .. Len(h) : PlanOf(p, m)'
    <3>1. PICK m \in 0 .. n : PlanOf(p, m)
      BY <1>1, <2>1
    <3>2. m \in 0 .. Len(h) /\ \A i \in 1 .. m : graph'[i].name = graph[i].name
      <4>1. m \in 0 .. Len(h)
        BY <2>1, <2>4
      <4>2. ASSUME NEW i \in 1 .. m PROVE graph'[i].name = graph[i].name
        <5>1. i \in 1 .. n
          OBVIOUS
        <5> QED
          BY <2>1, <2>4, <5>1
      <4> QED
        BY <4>1, <4>2
    <3>3. PlanOf(p, m)'
      BY <3>1, <3>2 DEF PlanOf
    <3> QED
      BY <3>2, <3>3
  <2> QED
    BY <1>1, <2>1, <2>2, <2>4, <2>5, <2>6 DEF PlansInv
<1>6. CASE CompileGraph
  <2>1. PICK n \in Nat : n = Len(graph)
    BY <1>1
  <2>2. PICK c : c = Compiled(graph)
    OBVIOUS
  <2>2a. c = AfterNodes(graph, n)
    BY <1>1, <2>1, <2>2, CompiledIs
  <2>2b. c.fine = TRUE /\ c.order = [i \in 1 .. n |-> i - 1]
    BY <2>2a DEF AfterNodes
  <2>2c. /\ plans' = IF c.fine THEN plans \cup {[order |-> c.order, names |-> Names(graph)]} ELSE plans
         /\ refused' = (refused \/ ~c.fine) /\ graph' = graph /\ operators' = operators
    BY <1>6, <2>2, Zenon DEF CompileGraph
  <2>3. /\ plans' = plans \cup {[order |-> c.order, names |-> Names(graph)]} /\ refused' = FALSE
        /\ graph' = graph /\ operators' = operators
    <3>1. c.fine
      BY <2>2b
    <3>2. (refused \/ ~c.fine) = FALSE
      BY <1>1, <3>1, Zenon
    <3> QED
      BY <2>2c, <3>1, <3>2
  <2>4. PICK new : new = [order |-> c.order, names |-> Names(graph)]
    OBVIOUS
  <2>5. PlanOf(new, n)
    <3>1. new.order = [i \in 1 .. n |-> i - 1]
      BY <2>2b, <2>4
    <3>2. new.names = [i \in 1 .. n |-> graph[i].name]
      BY <2>1, <2>4 DEF Names
    <3> QED
      BY <3>1, <3>2 DEF PlanOf
  <2>6. \A p, m : PlanOf(p, m)' <=> PlanOf(p, m)
    BY <2>3 DEF PlanOf
  <2>7. n \in 0 .. Len(graph)
    BY <2>1
  <2>8. \A p \in plans' : p \in plans \/ p = new
    BY <2>3, <2>4
  <2>9. \A p \in plans' : \E m \in 0 .. Len(graph') : PlanOf(p, m)'
    BY <1>1, <2>3, <2>5, <2>6, <2>7, <2>8
  <2> QED
    BY <1>1, <2>3, <2>9 DEF PlansInv
<1>7. CASE \E p \in plans : DestroyPlan(p)
  BY <1>2, <1>7 DEF DestroyPlan
<1>8. CASE UNCHANGED planVars
  BY <1>2, <1>8 DEF planVars
<1> QED
  BY <1>3, <1>4, <1>5, <1>6, <1>7, <1>8 DEF PlanNext

LEMMA PlansRun == PlansInv => PlansAreRunnable
<1> SUFFICES ASSUME PlansInv PROVE PlansAreRunnable
  OBVIOUS
<1>1. /\ ~refused /\ graph \in Seq([name : operators, deps : Seq(Nat)]) /\ Backwards(graph)
      /\ \A p \in plans : \E m \in 0 .. Len(graph) : PlanOf(p, m)
  BY DEF PlansInv
<1>2. ASSUME NEW p \in plans
      PROVE  /\ ToSet(p.order) = 0 .. Len(p.order) - 1
             /\ \A i \in DOMAIN p.order :
                  LET at == NodeAt(p, i) IN
                  /\ at.name = graph[at.id + 1].name
                  /\ IsRegistered(at.name)
                  /\ \A d \in ToSet(graph[at.id + 1].deps) : d \in ToSet(SubSeq(p.order, 1, i - 1))
  <2>1. PICK m \in 0 .. Len(graph) : PlanOf(p, m)
    BY <1>1
  <2>2. PICK o, names : o = p.order /\ names = p.names /\ o = [i \in 1 .. m |-> i - 1] /\ names = [i \in 1 .. m |-> graph[i].name]
    BY <2>1 DEF PlanOf
  <2>3. o \in Seq(Nat) /\ Len(o) = m /\ m \in Nat /\ \A i \in 1 .. m : o[i] = i - 1
    BY <1>1, <2>2
  <2>4. ToSet(o) = 0 .. m - 1
    <3>1. \A d \in 0 .. m - 1 : d + 1 \in 1 .. m /\ o[d + 1] = d
      BY <2>3
    <3>2. \A i \in 1 .. m : o[i] \in 0 .. m - 1
      BY <2>3
    <3>3. DOMAIN o = 1 .. m
      BY <2>3
    <3> QED
      BY <3>1, <3>2, <3>3, Zenon DEF ToSet
  <2>5. ASSUME NEW i \in 1 .. m
        PROVE  /\ NodeAt(p, i).id = i - 1 /\ NodeAt(p, i).name = graph[i].name
               /\ IsRegistered(graph[i].name)
               /\ \A d \in ToSet(graph[i].deps) : d \in ToSet(SubSeq(o, 1, i - 1))
    <3>1. i \in 1 .. Len(graph) /\ graph[i] \in [name : operators, deps : Seq(Nat)]
      <4>1. PICK E : E = [name : operators, deps : Seq(Nat)]
        OBVIOUS
      <4>2. graph \in Seq(E) /\ Len(graph) \in Nat
        BY <1>1, <4>1
      <4>3. i \in 1 .. Len(graph)
        BY <2>3, <4>2
      <4>4. graph[i] \in E
        BY <4>2, <4>3, SeqAt
      <4> QED
        BY <4>1, <4>3, <4>4
    <3>2. NodeAt(p, i).id = i - 1 /\ NodeAt(p, i).name = names[i]
      <4>1. o[i] = i - 1 /\ o[i] + 1 = i
        BY <2>3
      <4> QED
        BY <2>2, <4>1 DEF NodeAt
    <3>3. ASSUME NEW d \in ToSet(graph[i].deps) PROVE d \in ToSet(SubSeq(o, 1, i - 1))
      <4>1. PICK j \in 1 .. Len(graph[i].deps) : graph[i].deps[j] = d
        BY <3>1, <3>3 DEF ToSet
      <4>2. d \in Nat /\ d + 1 < i
        BY <1>1, <3>1, <4>1 DEF Backwards
      <4>3. PICK q : q = SubSeq(o, 1, i - 1)
        OBVIOUS
      <4>4. Len(q) = i - 1 /\ q \in Seq(Nat) /\ \A k \in 1 .. i - 1 : q[k] = o[k]
        BY <2>3, <4>3
      <4>5. d + 1 \in 1 .. i - 1 /\ q[d + 1] = d
        BY <2>3, <4>2, <4>4
      <4> QED
        BY <4>3, <4>4, <4>5 DEF ToSet
    <3> QED
      BY <2>2, <3>1, <3>2, <3>3 DEF IsRegistered
  <2>6. DOMAIN p.order = 1 .. m /\ Len(p.order) = m
    BY <2>2, <2>3
  <2>7. ASSUME NEW i \in DOMAIN p.order
        PROVE  LET at == NodeAt(p, i) IN
               /\ at.name = graph[at.id + 1].name
               /\ IsRegistered(at.name)
               /\ \A d \in ToSet(graph[at.id + 1].deps) : d \in ToSet(SubSeq(p.order, 1, i - 1))
    <3>1. i \in 1 .. m /\ i - 1 + 1 = i
      BY <2>3, <2>6
    <3>2. PICK at : at = NodeAt(p, i) /\ at.id + 1 = i
      BY <2>5, <3>1
    <3>3. /\ at.name = graph[at.id + 1].name
          /\ IsRegistered(at.name)
          /\ \A d \in ToSet(graph[at.id + 1].deps) : d \in ToSet(SubSeq(p.order, 1, i - 1))
      BY <2>2, <2>5, <3>1, <3>2
    <3> QED
      BY <3>2, <3>3
  <2> QED
    BY <2>2, <2>4, <2>6, <2>7
<1> QED
  BY <1>1, <1>2 DEF PlansAreRunnable

(* Whatever is registered, added, compiled and destroyed: no compilation   *)
(* is refused, and every plan that is held has the nodes there were, under *)
(* registered names and after their dependencies (dx_graph_api.cpp:62-84,  *)
(* 189-234).                                                               *)
THEOREM PlansStayRunnable == SessionsSpec => []PlansAreRunnable
<1>1. SessionsInit => PlansInv
  <2> SUFFICES ASSUME SessionsInit PROVE PlansInv
    OBVIOUS
  <2>1. operators = {} /\ graph = <<>> /\ plans = {} /\ refused = FALSE
    BY DEF SessionsInit, PlanInit
  <2>2. graph \in Seq([name : operators, deps : Seq(Nat)]) /\ Len(graph) = 0
    BY <2>1
  <2>3. Backwards(graph)
    BY <2>2 DEF Backwards
  <2> QED
    BY <2>1, <2>2, <2>3 DEF PlansInv
<1> QED
  BY <1>1, PartsStep, PlansStep, PlansRun, PTL DEF SessionsSpec

-----------------------------------------------------------------------------
(* Command graphs: what a node still waits for when O are ordered.         *)
Unmet(n, O) == {k \in DOMAIN nodes[n] : nodes[n][k] \notin O}

NodesOK == nodes \in Seq(Seq(Nat))

Sizes(n, O, id) ==
  /\ Cardinality(Unmet(n, O)) \in Nat /\ Edges(n, id) \in Nat
  /\ Cardinality(Unmet(n, O)) = 0 <=> Unmet(n, O) = {}
  /\ Cardinality(Unmet(n, O \cup {id})) = Cardinality(Unmet(n, O)) - Edges(n, id)
  /\ Edges(n, id) # 0 => Unmet(n, O) # {}

LEMMA NodesAre ==
  ASSUME NodesOK, NEW n \in 1 .. Len(nodes)
  PROVE  nodes[n] \in Seq(Nat)
BY DEF NodesOK

LEMMA UnmetSize ==
  ASSUME NodesOK, NEW n \in 1 .. Len(nodes), NEW O
  PROVE  Cardinality(Unmet(n, O)) \in Nat /\ (Cardinality(Unmet(n, O)) = 0 <=> Unmet(n, O) = {})
<1>1. PICK deps, m : deps = nodes[n] /\ deps \in Seq(Nat) /\ m = Len(deps)
  BY NodesAre
<1>2. m \in Nat /\ Unmet(n, O) \subseteq 1 .. m
  BY <1>1 DEF Unmet
<1>3. IsFiniteSet(Unmet(n, O))
  <2>1. IsFiniteSet(1 .. m)
    BY <1>2, FS_Interval
  <2> QED
    BY <1>2, <2>1, FS_Subset
<1> QED
  BY <1>3, FS_CardinalityType, FS_EmptySet

LEMMA EdgesGone ==
  ASSUME NodesOK, NEW n \in 1 .. Len(nodes), NEW O, NEW id, id \notin O
  PROVE  Sizes(n, O, id)
<1>1. PICK deps : deps = nodes[n] /\ deps \in Seq(Nat)
  BY NodesAre
<1>2. PICK S, T, U, m : /\ S = Unmet(n, O) /\ T = {k \in DOMAIN deps : deps[k] = id}
                       /\ U = Unmet(n, O \cup {id}) /\ m = Len(deps)
  OBVIOUS
<1>3. m \in Nat /\ DOMAIN deps = 1 .. m
  BY <1>1, <1>2
<1>4. IsFiniteSet(1 .. m)
  BY <1>3, FS_Interval
<1>5. S \subseteq 1 .. m /\ T \subseteq 1 .. m /\ U \subseteq 1 .. m /\ S = U \cup T /\ U \cap T = {}
  BY <1>1, <1>2, <1>3 DEF Unmet
<1>6. IsFiniteSet(S) /\ IsFiniteSet(T) /\ IsFiniteSet(U)
  BY <1>4, <1>5, FS_Subset
<1>7. Cardinality(S) \in Nat /\ Cardinality(T) \in Nat /\ Cardinality(U) \in Nat
  BY <1>6, FS_CardinalityType
<1>8. Cardinality(S) = Cardinality(U) + Cardinality(T)
  <2>1. Cardinality(U \cup T) = Cardinality(U) + Cardinality(T) - Cardinality(U \cap T)
    BY <1>6, FS_Union
  <2>2. Cardinality(U \cap T) = 0
    BY <1>5, FS_EmptySet
  <2> QED
    BY <1>5, <1>7, <2>1, <2>2
<1>9. (Cardinality(S) = 0 <=> S = {}) /\ (Cardinality(T) = 0 <=> T = {})
  BY <1>6, FS_EmptySet
<1>10. Edges(n, id) = Cardinality(T)
  BY <1>1, <1>2 DEF Edges
<1>11. Cardinality(T) # 0 => S # {}
  BY <1>5, <1>9
<1>12. Cardinality(U) = Cardinality(S) - Cardinality(T)
  BY <1>7, <1>8
<1> QED
  BY <1>2, <1>7, <1>9, <1>10, <1>11, <1>12 DEF Sizes

(* What is made ready are the identifiers of a set of nodes, each once.    *)
LEMMA IdsOf ==
  ASSUME NodesOK, NEW D, D \subseteq 1 .. Len(nodes)
  PROVE  /\ SelectAt(Ids, D) \in Seq(Nat)
         /\ IsInjective(SelectAt(Ids, D))
         /\ ToSet(SelectAt(Ids, D)) = {n - 1 : n \in D}
<1>1. PICK s, m, r : s = Ids /\ m = Len(nodes) /\ r = SelectAt(s, D)
  OBVIOUS
<1>2. m \in Nat /\ Len(s) = m /\ D \subseteq 1 .. Len(s) /\ \A n \in 1 .. m : s[n] = n - 1
  BY <1>1 DEF NodesOK, Ids
<1>3. PICK q \in Seq(1 .. Len(s)) :
        /\ ToSet(q) = D
        /\ \A j, k \in 1 .. Len(q) : j < k => q[j] < q[k]
        /\ IsAt(r, s, q)
  BY <1>1, <1>2, SelectAtIs
<1>4. PICK l : l = Len(q)
  OBVIOUS
<1>5. l \in Nat /\ r = [k \in 1 .. l |-> s[q[k]]] /\ \A k \in 1 .. l : q[k] \in 1 .. m
  <2>1. l \in Nat /\ \A k \in 1 .. l : q[k] \in 1 .. m
    BY <1>2, <1>3, <1>4
  <2>2. r = [k \in 1 .. l |-> s[q[k]]]
    BY <1>3, <1>4 DEF IsAt
  <2> QED
    BY <2>1, <2>2
<1>6. \A k \in 1 .. l : r[k] = q[k] - 1
  BY <1>2, <1>5
<1>7. r \in Seq(Nat) /\ DOMAIN r = 1 .. l
  <2>1. \A k \in 1 .. l : r[k] \in Nat
    BY <1>2, <1>5, <1>6
  <2> QED
    BY <1>5, <2>1
<1>8. ASSUME NEW j \in 1 .. l, NEW k \in 1 .. l, r[j] = r[k] PROVE j = k
  <2>1. q[j] = q[k] /\ q[j] \in Nat
    BY <1>5, <1>6, <1>8
  <2>2. ~(j < k) /\ ~(k < j)
    BY <1>3, <1>4, <2>1
  <2> QED
    BY <1>5, <2>2
<1>9. ToSet(r) = {n - 1 : n \in D}
  <2>1. \A n : n \in D <=> \E k \in 1 .. l : q[k] = n
    <3>1. DOMAIN q = 1 .. l
      BY <1>3, <1>4
    <3> QED
      BY <1>3, <3>1 DEF ToSet
  <2>2. \A x : x \in ToSet(r) <=> \E k \in 1 .. l : r[k] = x
    BY <1>7 DEF ToSet
  <2>3. ASSUME NEW x \in ToSet(r) PROVE \E n \in D : x = n - 1
    <3>1. PICK k \in 1 .. l : r[k] = x
      BY <2>2, <2>3
    <3> QED
      BY <1>6, <2>1, <3>1
  <2>4. ASSUME NEW n \in D PROVE n - 1 \in ToSet(r)
    <3>1. PICK k \in 1 .. l : q[k] = n
      BY <2>1, <2>4
    <3>2. r[k] = n - 1
      BY <1>6, <3>1
    <3> QED
      BY <2>2, <3>2
  <2> QED
    BY <2>3, <2>4
<1> QED
  BY <1>1, <1>7, <1>8, <1>9 DEF IsInjective

(* A round of Kahn's algorithm: ready are those whose dependencies are all *)
(* in the order, each once.                                                *)
IdsMet(O) == {n - 1 : n \in {k \in 1 .. Len(nodes) : Unmet(k, O) = {}}}

KahnInv(s) ==
  /\ s \in KahnStates
  /\ IsInjective(s.order \o s.ready)
  /\ ToSet(s.order \o s.ready) = IdsMet(ToSet(s.order))
  /\ \A n \in 1 .. Len(nodes) : s.degree[n] = Cardinality(Unmet(n, ToSet(s.order)))
  /\ InOrder(s.order)

LEMMA PoppedKeeps ==
  ASSUME NodesOK, NEW s, KahnInv(s), s.ready # <<>>
  PROVE  KahnInv(Popped(s)) /\ Len(Popped(s).order) = Len(s.order) + 1
<1>1. PICK N : N = Len(nodes) /\ N \in Nat /\ DOMAIN nodes = 1 .. N
  BY DEF NodesOK
<1>2. PICK ord, rdy, deg : ord = s.order /\ rdy = s.ready /\ deg = s.degree
  OBVIOUS
<1>3. ord \in Seq(Nat) /\ rdy \in Seq(Nat) /\ deg \in [1 .. N -> Int] /\ rdy # <<>>
  BY <1>1, <1>2 DEF KahnInv, KahnStates
<1>4. PICK O, id, F : O = ToSet(ord) /\ id = Head(rdy) /\ F = Freed(s, id)
  OBVIOUS
<1>5. /\ IsInjective(ord \o rdy) /\ ToSet(ord \o rdy) = IdsMet(O) /\ InOrder(ord)
      /\ \A n \in 1 .. N : deg[n] = Cardinality(Unmet(n, O))
  BY <1>1, <1>2, <1>4 DEF KahnInv
<1>6. PICK t, fresh : t = Popped(s) /\ fresh = SelectAt(Ids, F)
  OBVIOUS
<1>7. /\ t.order = Append(ord, id) /\ t.ready = Tail(rdy) \o fresh
      /\ t.degree = [n \in 1 .. N |-> deg[n] - Edges(n, id)]
      /\ t = [ready |-> t.ready, degree |-> t.degree, order |-> t.order]
  BY <1>1, <1>2, <1>4, <1>6 DEF Popped
<1>8. F \subseteq 1 .. N /\ \A n \in 1 .. N : n \in F <=> Edges(n, id) # 0 /\ deg[n] = Edges(n, id)
  BY <1>1, <1>2, <1>4 DEF Freed
<1>9. fresh \in Seq(Nat) /\ IsInjective(fresh) /\ ToSet(fresh) = {n - 1 : n \in F}
  BY <1>1, <1>6, <1>8, IdsOf
<1>10. /\ id \in Nat /\ Tail(rdy) \in Seq(Nat)
       /\ t.order \o t.ready = (ord \o rdy) \o fresh
  <2>1. /\ Head(rdy) \in Nat /\ Tail(rdy) \in Seq(Nat)
        /\ Append(ord, Head(rdy)) \o (Tail(rdy) \o fresh) = (ord \o rdy) \o fresh
    <3>1. Append(ord, Head(rdy)) \o (Tail(rdy) \o fresh) = (ord \o rdy) \o fresh
      <4>1. ord \in Seq(Nat) /\ rdy \in Seq(Nat) /\ fresh \in Seq(Nat) /\ rdy # <<>>
        BY <1>3, <1>9
      <4> QED
        <5>1. HeadMoved(ord, rdy, fresh) = (ord \o rdy) \o fresh
          BY <4>1, MovedOver
        <5> QED
          BY <5>1 DEF HeadMoved
    <3>2. rdy \in Seq(Nat) /\ rdy # <<>>
      BY <1>3
    <3>3. Head(rdy) \in Nat /\ Tail(rdy) \in Seq(Nat)
      BY <3>2
    <3> QED
      BY <3>1, <3>3
  <2> QED
    BY <1>4, <1>7, <2>1
<1>11. ord \o rdy \in Seq(Nat) /\ Len(ord) \in Nat /\ t.order \in Seq(Nat) /\ t.ready \in Seq(Nat)
       /\ Len(t.order) = Len(ord) + 1 /\ t.order[Len(ord) + 1] = id
       /\ \A i \in 1 .. Len(ord) : t.order[i] = ord[i]
  BY <1>3, <1>7, <1>9, <1>10
<1>12. ToSet(t.order) = O \cup {id}
  <2>1. PICK u, l : u = t.order /\ l = Len(ord)
    OBVIOUS
  <2>2. /\ l \in Nat /\ DOMAIN ord = 1 .. l /\ DOMAIN u = 1 .. l + 1
        /\ u[l + 1] = id /\ \A i \in 1 .. l : u[i] = ord[i]
    BY <1>3, <1>11, <2>1
  <2>3. ASSUME NEW x \in ToSet(u) PROVE x \in O \cup {id}
    <3>1. PICK i \in 1 .. l + 1 : u[i] = x
      BY <2>2, <2>3 DEF ToSet
    <3>2. i \in 1 .. l \/ i = l + 1
      BY <2>2
    <3> QED
      BY <1>4, <2>2, <3>1, <3>2 DEF ToSet
  <2>4. ASSUME NEW x \in O PROVE x \in ToSet(u)
    <3>1. PICK i \in 1 .. l : ord[i] = x
      BY <1>4, <2>2, <2>4 DEF ToSet
    <3>2. i \in 1 .. l + 1
      BY <2>2
    <3> QED
      BY <2>2, <3>1, <3>2 DEF ToSet
  <2>5. id \in ToSet(u)
    BY <2>2 DEF ToSet
  <2> QED
    BY <2>1, <2>3, <2>4, <2>5
<1>13. id \notin O /\ id \in ToSet(ord \o rdy)
  <2>1. PICK q, l : q = ord \o rdy /\ l = Len(ord)
    OBVIOUS
  <2>2. l \in Nat /\ l + 1 \in DOMAIN q /\ q[l + 1] = id /\ \A i \in 1 .. l : i \in DOMAIN q /\ q[i] = ord[i]
    BY <1>3, <1>4, <2>1
  <2>3. id \in ToSet(q)
    BY <2>2 DEF ToSet
  <2>4. ASSUME id \in O PROVE FALSE
    <3>1. PICK i \in 1 .. l : ord[i] = id
      BY <1>3, <1>4, <2>1, <2>4 DEF ToSet
    <3>2. q[i] = q[l + 1] /\ i # l + 1
      BY <2>2, <3>1
    <3> QED
      BY <1>5, <2>1, <2>2, <3>1, <3>2 DEF IsInjective
  <2> QED
    BY <2>1, <2>3, <2>4
<1>14. \A n \in 1 .. N : Sizes(n, O, id)
  BY <1>1, <1>13, EdgesGone
<1>15. t.degree \in [1 .. N -> Int] /\ \A n \in 1 .. N : t.degree[n] = Cardinality(Unmet(n, O \cup {id}))
  <2>1. ASSUME NEW n \in 1 .. N
        PROVE  deg[n] - Edges(n, id) \in Int /\ deg[n] - Edges(n, id) = Cardinality(Unmet(n, O \cup {id}))
    <3>1. Sizes(n, O, id)
      BY <1>14
    <3> QED
      BY <1>3, <1>5, <3>1 DEF Sizes
  <2> QED
    BY <1>7, <2>1
<1>16. t \in KahnStates
  BY <1>1, <1>7, <1>11, <1>15 DEF KahnStates
<1>17. ASSUME NEW n \in 1 .. N
       PROVE  /\ n \in F => Unmet(n, O) # {}
              /\ Unmet(n, O \cup {id}) = {} <=> Unmet(n, O) = {} \/ n \in F
  <2>1. Sizes(n, O, id)
    BY <1>14
  <2>2. PICK a, b, c \in Nat : /\ a = Cardinality(Unmet(n, O)) /\ b = Edges(n, id)
                              /\ c = Cardinality(Unmet(n, O \cup {id}))
    <3>1. \E a \in Nat : a = Cardinality(Unmet(n, O))
      BY <2>1 DEF Sizes
    <3>2. \E b \in Nat : b = Edges(n, id)
      BY <2>1 DEF Sizes
    <3>3. \E c \in Nat : c = Cardinality(Unmet(n, O \cup {id}))
      BY <1>1, UnmetSize
    <3> QED
      BY <3>1, <3>2, <3>3
  <2>3. c = a - b /\ deg[n] = a /\ (n \in F <=> b # 0 /\ a = b) /\ (a = 0 <=> Unmet(n, O) = {})
        /\ (b # 0 => Unmet(n, O) # {})
    BY <1>5, <1>8, <2>1, <2>2 DEF Sizes
  <2>4. c = 0 <=> Unmet(n, O \cup {id}) = {}
    BY <1>1, <2>2, UnmetSize
  <2>5. c = 0 <=> a = 0 \/ (b # 0 /\ a = b)
    BY <2>2, <2>3
  <2> QED
    BY <2>3, <2>4, <2>5
<1>18. ToSet(t.order \o t.ready) = IdsMet(O \cup {id})
  <2>1. ToSet((ord \o rdy) \o fresh) = IdsMet(O) \cup {n - 1 : n \in F}
    <3>1. PICK q : q = ord \o rdy /\ q \in Seq(Nat)
      BY <1>11
    <3>2. ToSet(q \o fresh) = ToSet(q) \cup ToSet(fresh)
      BY <1>9, <3>1, SetOfConcat
    <3> QED
      BY <1>5, <1>9, <3>1, <3>2
  <2>2. IdsMet(O \cup {id}) = IdsMet(O) \cup {n - 1 : n \in F}
    BY <1>1, <1>8, <1>17 DEF IdsMet
  <2> QED
    BY <1>10, <2>1, <2>2
<1>19. IsInjective(t.order \o t.ready)
  <2>1. ASSUME NEW n \in F PROVE n - 1 \notin IdsMet(O)
    <3>1. n \in 1 .. N /\ Unmet(n, O) # {}
      BY <1>8, <1>17
    <3>2. \A k \in 1 .. N : k - 1 = n - 1 => k = n
      BY <1>1, <3>1
    <3> QED
      BY <1>1, <3>1, <3>2 DEF IdsMet
  <2>2. ToSet(ord \o rdy) \cap ToSet(fresh) = {}
    BY <1>5, <1>9, <2>1
  <2> QED
    BY <1>5, <1>9, <1>10, <1>11, <2>2, OnceInConcat
<1>20. InOrder(t.order)
  <2>1. PICK u, l : u = t.order /\ l = Len(ord)
    OBVIOUS
  <2>2. l \in Nat /\ DOMAIN ord = 1 .. l /\ DOMAIN u = 1 .. l + 1 /\ u[l + 1] = id /\ \A i \in 1 .. l : u[i] = ord[i]
    BY <1>3, <1>11, <2>1
  <2>3. \A i \in 1 .. l : ord[i] \in O
    BY <1>4, <2>2 DEF ToSet
  <2>4. IsInjective(u)
    <3>1. ASSUME NEW i \in 1 .. l + 1, NEW j \in 1 .. l + 1, u[i] = u[j] PROVE i = j
      <4>1. CASE i \in 1 .. l /\ j \in 1 .. l
        BY <1>5, <2>2, <3>1, <4>1 DEF InOrder, IsInjective
      <4>2. ~(i \in 1 .. l /\ j = l + 1) /\ ~(j \in 1 .. l /\ i = l + 1)
        BY <1>13, <2>2, <2>3, <3>1
      <4> QED
        BY <2>2, <4>1, <4>2
    <3> QED
      BY <2>2, <3>1 DEF IsInjective
  <2>5. ASSUME NEW i \in 1 .. l + 1 PROVE ToSet(nodes[u[i] + 1]) \subseteq ToSet(SubSeq(u, 1, i - 1))
    <3>1. CASE i \in 1 .. l
      <4>1. SubSeq(u, 1, i - 1) = SubSeq(ord, 1, i - 1)
        BY <1>3, <1>11, <2>1, <2>2, <3>1
      <4>2. ToSet(nodes[ord[i] + 1]) \subseteq ToSet(SubSeq(ord, 1, i - 1))
        BY <1>5, <2>2, <3>1 DEF InOrder
      <4> QED
        BY <2>2, <3>1, <4>1, <4>2
    <3>2. CASE i = l + 1
      <4>1. SubSeq(u, 1, l) = ord
        BY <1>3, <1>11, <2>1, <2>2
      <4>2. PICK n \in 1 .. N : n - 1 = id /\ Unmet(n, O) = {}
        BY <1>1, <1>5, <1>13 DEF IdsMet
      <4>3. n = id + 1 /\ i - 1 = l /\ u[i] = id
        BY <1>1, <2>2, <3>2, <4>2
      <4>4. ToSet(nodes[n]) \subseteq O
        BY <4>2 DEF Unmet, ToSet
      <4> QED
        BY <1>4, <4>1, <4>3, <4>4
    <3> QED
      BY <2>2, <3>1, <3>2
  <2> QED
    BY <2>1, <2>2, <2>4, <2>5 DEF InOrder
<1> QED
  BY <1>1, <1>2, <1>6, <1>11, <1>12, <1>15, <1>16, <1>18, <1>19, <1>20 DEF KahnInv

(* The last of the nodes is ordered when none is ready: a round for each   *)
(* node is enough.                                                         *)
LEMMA KahnStarts ==
  ASSUME NodesOK, NEW s,
         s = [ready  |-> SelectAt(Ids, {n \in DOMAIN nodes : nodes[n] = <<>>}),
              degree |-> [n \in DOMAIN nodes |-> Len(nodes[n])],
              order  |-> <<>>]
  PROVE  KahnInv(s) /\ Len(s.order) = 0
<1>1. PICK N : N = Len(nodes) /\ N \in Nat /\ DOMAIN nodes = 1 .. N
  BY DEF NodesOK
<1>2. PICK D, r : D = {n \in 1 .. N : nodes[n] = <<>>} /\ r = SelectAt(Ids, D)
  OBVIOUS
<1>3. r \in Seq(Nat) /\ IsInjective(r) /\ ToSet(r) = {n - 1 : n \in D}
  BY <1>1, <1>2, IdsOf
<1>4. s.ready = r /\ s.order = <<>> /\ s.degree = [n \in 1 .. N |-> Len(nodes[n])]
  BY <1>1, <1>2
<1>5. s.order \o s.ready = r /\ ToSet(s.order) = {}
  <2>1. <<>> \o r = r
    BY <1>3
  <2>2. ToSet(<<>>) = {}
    BY DEF ToSet
  <2> QED
    BY <1>4, <2>1, <2>2
<1>6. ASSUME NEW n \in 1 .. N
      PROVE  /\ Len(nodes[n]) \in Nat /\ Cardinality(Unmet(n, {})) = Len(nodes[n])
             /\ Unmet(n, {}) = {} <=> nodes[n] = <<>>
  <2>1. PICK deps, m : deps = nodes[n] /\ m = Len(deps) /\ deps \in Seq(Nat)
    BY <1>1, NodesAre
  <2>2. m \in Nat /\ Unmet(n, {}) = 1 .. m
    BY <2>1 DEF Unmet
  <2>3. Cardinality(1 .. m) = m
    BY <2>2, FS_Interval
  <2>4. 1 .. m = {} <=> deps = <<>>
    BY <2>1, <2>2
  <2> QED
    BY <2>1, <2>2, <2>3, <2>4
<1>7. IdsMet({}) = {n - 1 : n \in D}
  BY <1>1, <1>2, <1>6 DEF IdsMet
<1>8. s \in KahnStates
  <2>1. [n \in 1 .. N |-> Len(nodes[n])] \in [1 .. N -> Int]
    BY <1>6
  <2>2. <<>> \in Seq(Nat)
    OBVIOUS
  <2>3. s = [ready |-> r, degree |-> [n \in 1 .. N |-> Len(nodes[n])], order |-> <<>>]
    BY <1>1, <1>2
  <2> QED
    BY <1>1, <1>3, <2>1, <2>2, <2>3 DEF KahnStates
<1>9. InOrder(<<>>)
  BY DEF InOrder, IsInjective
<1>10. \A n \in 1 .. N : s.degree[n] = Cardinality(Unmet(n, {}))
  BY <1>4, <1>6
<1> QED
  BY <1>1, <1>3, <1>4, <1>5, <1>7, <1>8, <1>9, <1>10 DEF KahnInv

LEMMA AllOrdered ==
  ASSUME NodesOK, NEW s, KahnInv(s), Len(s.order) = Len(nodes)
  PROVE  s.ready = <<>>
<1> SUFFICES ASSUME s.ready # <<>> PROVE FALSE
  OBVIOUS
<1>1. PICK N : N = Len(nodes) /\ N \in Nat
  BY DEF NodesOK
<1>2. PICK ord, q, x : ord = s.order /\ q = s.order \o s.ready /\ x = q[N + 1]
  OBVIOUS
<1>3. /\ ord \in Seq(Nat) /\ Len(ord) = N /\ q \in Seq(Nat) /\ Len(q) > N
      /\ \A i \in 1 .. N : q[i] = ord[i]
  BY <1>1, <1>2 DEF KahnInv, KahnStates
<1>4. IsInjective(q) /\ ToSet(q) = IdsMet(ToSet(ord))
  BY <1>2 DEF KahnInv
<1>5. ASSUME NEW i \in 1 .. N + 1 PROVE i \in DOMAIN q /\ q[i] \in Nat /\ q[i] + 1 \in 1 .. N
  <2>1. i \in DOMAIN q
    BY <1>1, <1>3
  <2>2. q[i] \in IdsMet(ToSet(ord))
    BY <1>4, <2>1 DEF ToSet
  <2>3. PICK n \in 1 .. N : q[i] = n - 1
    BY <1>1, <2>2 DEF IdsMet
  <2> QED
    BY <1>1, <2>1, <2>3
<1>6. PICK p : p = [i \in 1 .. N |-> q[i] + 1]
  OBVIOUS
<1>7. p \in [1 .. N -> 1 .. N]
  BY <1>1, <1>5, <1>6
<1>8. IsInjective(p)
  <2>1. ASSUME NEW i \in 1 .. N, NEW j \in 1 .. N, p[i] = p[j] PROVE i = j
    <3>1. i \in 1 .. N + 1 /\ j \in 1 .. N + 1
      BY <1>1
    <3>2. q[i] = q[j] /\ i \in DOMAIN q /\ j \in DOMAIN q
      BY <1>5, <1>6, <2>1, <3>1
    <3> QED
      BY <1>4, <3>2 DEF IsInjective
  <2> QED
    BY <1>7, <2>1 DEF IsInjective
<1>9. PICK i \in 1 .. N : p[i] = q[N + 1] + 1
  <2>1. N + 1 \in 1 .. N + 1
    BY <1>1
  <2> QED
    BY <1>1, <1>5, <1>7, <1>8, <2>1, NothingMissed
<1>10. i \in 1 .. N + 1 /\ N + 1 \in 1 .. N + 1
  BY <1>1
<1>11. q[i] = q[N + 1] /\ i # N + 1
  BY <1>1, <1>5, <1>6, <1>9, <1>10
<1> QED
  BY <1>4, <1>5, <1>10, <1>11 DEF IsInjective

LEMMA KahnEnds ==
  ASSUME NodesOK
  PROVE  \E s : KahnInv(s) /\ s.ready = <<>> /\ Kahn = s.order
<1>1. PICK N : N = Len(nodes) /\ N \in Nat /\ DOMAIN nodes = 1 .. N
  BY DEF NodesOK
<1>2. PICK v : v = [ready  |-> SelectAt(Ids, {n \in DOMAIN nodes : nodes[n] = <<>>}),
                    degree |-> [n \in DOMAIN nodes |-> Len(nodes[n])],
                    order  |-> <<>>]
  OBVIOUS
<1>3. KahnInv(v) /\ Len(v.order) = 0
  BY <1>2, KahnStarts
<1>4. PICK G : G = [i \in 0 .. N |-> {s \in KahnStates : KahnInv(s) /\ (s.ready = <<>> \/ Len(s.order) = i)}]
  OBVIOUS
<1>5. v \in G[0]
  BY <1>1, <1>3, <1>4 DEF KahnInv
<1>6. PICK ids, f : ids = Ids /\ f = Round
  OBVIOUS
<1>7. Len(ids) = N /\ \A i \in 1 .. N : ids[i] = i - 1 /\ ids[i] \in Nat
  BY <1>1, <1>6 DEF Ids
<1>8. ASSUME NEW i \in 1 .. N, NEW x \in G[i - 1] PROVE f[ids[i]][x] \in G[i]
  <2>1. /\ i - 1 \in 0 .. N /\ i \in 0 .. N
    BY <1>1
  <2>2. x \in KahnStates /\ KahnInv(x) /\ (x.ready = <<>> \/ Len(x.order) = i - 1)
    BY <1>4, <1>8, <2>1
  <2>3. f[ids[i]][x] = IF x.ready = <<>> THEN x ELSE Popped(x)
    BY <1>6, <1>7, <2>2 DEF Round
  <2>4. CASE x.ready = <<>>
    BY <1>4, <2>1, <2>2, <2>3, <2>4
  <2>5. CASE x.ready # <<>>
    <3>1. KahnInv(Popped(x)) /\ Len(Popped(x).order) = Len(x.order) + 1
      BY <2>2, <2>5, PoppedKeeps
    <3>2. Len(Popped(x).order) = i
      BY <1>1, <2>2, <2>5, <3>1
    <3>3. PICK y : y = Popped(x) /\ f[ids[i]][x] = y
      BY <2>3, <2>5
    <3>4. y \in KahnStates /\ KahnInv(y) /\ Len(y.order) = i
      BY <3>1, <3>2, <3>3 DEF KahnInv
    <3> QED
      BY <1>4, <2>1, <3>3, <3>4
  <2> QED
    BY <2>4, <2>5
<1>9. PICK s : s = Looped(f, v, ids)
  OBVIOUS
<1>10. s \in G[N]
  BY <1>1, <1>5, <1>7, <1>8, <1>9, LoopedKeeps
<1>11. KahnInv(s) /\ (s.ready = <<>> \/ Len(s.order) = N)
  BY <1>1, <1>4, <1>10
<1>12. s.ready = <<>>
  BY <1>1, <1>11, AllOrdered
<1>13. Kahn = s.order
  BY <1>2, <1>6, <1>9 DEF Kahn
<1> QED
  BY <1>11, <1>12, <1>13

(* An order of some of the nodes.                                          *)
OrderingIn(g, ids) ==
  /\ ids \in Seq(0 .. Len(g) - 1)
  /\ IsInjective(ids)
  /\ \A i \in DOMAIN ids : ToSet(g[ids[i] + 1]) \subseteq ToSet(SubSeq(ids, 1, i - 1))

LEMMA OrderingIs ==
  \A ids : OrderingIn(nodes, ids) <=> ids \in Seq(0 .. Len(nodes) - 1) /\ InOrder(ids)
BY DEF OrderingIn, InOrder

LEMMA KahnSound ==
  ASSUME NodesOK
  PROVE  OrderingIn(nodes, Kahn)
<1>1. PICK N : N = Len(nodes) /\ N \in Nat
  BY DEF NodesOK
<1>2. PICK s : KahnInv(s) /\ s.ready = <<>> /\ Kahn = s.order
  BY KahnEnds
<1>3. PICK ord : ord = s.order /\ ord \in Seq(Nat) /\ InOrder(ord)
  BY <1>2 DEF KahnInv, KahnStates
<1>4. ord \o <<>> = ord
  BY <1>3
<1>5. ToSet(ord) = IdsMet(ToSet(ord))
  BY <1>2, <1>3, <1>4 DEF KahnInv
<1>6. \A i \in 1 .. Len(ord) : ord[i] \in 0 .. N - 1
  <2>1. \A i \in 1 .. Len(ord) : ord[i] \in ToSet(ord)
    BY <1>3 DEF ToSet
  <2>2. \A x \in IdsMet(ToSet(ord)) : x \in 0 .. N - 1
    BY <1>1 DEF IdsMet
  <2> QED
    BY <1>5, <2>1, <2>2
<1>7. ord \in Seq(0 .. N - 1)
  <2>1. PICK E : E = 0 .. N - 1
    OBVIOUS
  <2>2. ord \in Seq(Nat) /\ \A i \in 1 .. Len(ord) : ord[i] \in E
    BY <1>3, <1>6, <2>1
  <2>3. ord \in Seq(E)
    BY <2>2, SeqFrom
  <2> QED
    BY <2>1, <2>3
<1> QED
  BY <1>1, <1>2, <1>3, <1>7, OrderingIs

(* In an order of all nodes each has its place.                            *)
LEMMA Places ==
  ASSUME NEW N \in Nat, NEW ids \in [1 .. N -> 0 .. N - 1], IsInjective(ids)
  PROVE  \A x \in 0 .. N - 1 : \E i \in 1 .. N : ids[i] = x
<1>1. PICK p : p = [i \in 1 .. N |-> ids[i] + 1]
  OBVIOUS
<1>2. p \in [1 .. N -> 1 .. N]
  <2>1. \A i \in 1 .. N : ids[i] \in 0 .. N - 1
    OBVIOUS
  <2>2. \A i \in 1 .. N : ids[i] + 1 \in 1 .. N
    BY <2>1
  <2> QED
    BY <1>1, <2>2
<1>3. IsInjective(p)
  <2>1. ASSUME NEW i \in 1 .. N, NEW j \in 1 .. N, p[i] = p[j] PROVE i = j
    <3>1. ids[i] = ids[j]
      BY <1>1, <2>1
    <3> QED
      BY <3>1 DEF IsInjective
  <2> QED
    BY <1>2, <2>1 DEF IsInjective
<1>4. ASSUME NEW x \in 0 .. N - 1 PROVE \E i \in 1 .. N : ids[i] = x
  <2>1. x + 1 \in 1 .. N
    OBVIOUS
  <2>2. PICK i \in 1 .. N : p[i] = x + 1
    BY <1>2, <1>3, <2>1, NothingMissed
  <2>3. ids[i] = x
    BY <1>1, <2>2
  <2> QED
    BY <2>3
<1> QED
  BY <1>4

LEMMA KahnComplete ==
  ASSUME NodesOK, CanBeOrdered
  PROVE  Succeeds
<1>1. PICK N : N = Len(nodes) /\ N \in Nat /\ DOMAIN nodes = 1 .. N
  BY DEF NodesOK
<1>2. PICK ids \in [1 .. N -> 0 .. N - 1] : InOrder(ids)
  BY <1>1 DEF CanBeOrdered
<1>3. \A x \in 0 .. N - 1 : \E i \in 1 .. N : ids[i] = x
  BY <1>1, <1>2, Places DEF InOrder
<1>4. ASSUME NEW i \in 1 .. N, NEW d \in ToSet(nodes[ids[i] + 1])
      PROVE  \E j \in 1 .. N : j < i /\ d = ids[j]
  <2>1. d \in ToSet(SubSeq(ids, 1, i - 1))
    BY <1>2, <1>4 DEF InOrder
  <2>2. PICK q : q = SubSeq(ids, 1, i - 1)
    OBVIOUS
  <2>3. DOMAIN q = 1 .. i - 1 /\ \A j \in 1 .. i - 1 : q[j] = ids[j]
    <3>1. ids \in Seq(0 .. N - 1) /\ Len(ids) = N
      BY <1>1, <1>2
    <3> QED
      BY <1>1, <2>2, <3>1
  <2>4. PICK j \in 1 .. i - 1 : q[j] = d
    BY <2>1, <2>2, <2>3 DEF ToSet
  <2>5. j \in 1 .. N /\ j < i
    BY <1>1, <2>4
  <2> QED
    BY <2>3, <2>4, <2>5
<1>5. ASSUME NEW n \in 1 .. N PROVE \E i \in 1 .. N : ids[i] + 1 = n
  <2>1. n - 1 \in 0 .. N - 1
    BY <1>1
  <2>2. PICK i \in 1 .. N : ids[i] = n - 1
    BY <1>3, <2>1
  <2> QED
    BY <1>1, <2>2
<1>6. ~BadDependency
  <2>1. ASSUME NEW n \in 1 .. N, NEW d \in ToSet(nodes[n]) PROVE ~(d >= N)
    <3>1. PICK i \in 1 .. N : ids[i] + 1 = n
      BY <1>5
    <3>2. PICK j \in 1 .. N : d = ids[j]
      BY <1>4, <2>1, <3>1
    <3>3. d \in 0 .. N - 1
      BY <1>2, <3>2
    <3> QED
      BY <1>1, <3>3
  <2> QED
    BY <1>1, <2>1 DEF BadDependency
<1>7. PICK s : KahnInv(s) /\ s.ready = <<>> /\ Kahn = s.order
  BY KahnEnds
<1>8. PICK ord, O : ord = s.order /\ ord \in Seq(Nat) /\ InOrder(ord) /\ O = ToSet(ord)
  BY <1>7 DEF KahnInv, KahnStates
<1>9. O = IdsMet(O)
  <2>1. ord \o <<>> = ord
    BY <1>8
  <2> QED
    BY <1>7, <1>8, <2>1 DEF KahnInv
<1> DEFINE C == {i \in 1 .. N : ids[i] \notin O}
<1>10. ASSUME C # {} PROVE FALSE
  <2>1. PICK i \in C : \A k \in C : i <= k
    <3>1. C \subseteq Nat
      OBVIOUS
    <3> HIDE DEF C
    <3> QED
      BY <1>10, <3>1, SmallestNumber
  <2>2. i \in 1 .. N /\ ids[i] \notin O /\ ids[i] \in 0 .. N - 1
    BY <1>2
  <2>3. \A j \in 1 .. N : j < i => ids[j] \in O
    BY <2>1, <2>2
  <2>4. PICK n : n = ids[i] + 1 /\ n \in 1 .. N
    BY <1>1, <2>2
  <2>5. ASSUME NEW d \in ToSet(nodes[n]) PROVE d \in O
    <3>1. PICK j \in 1 .. N : j < i /\ d = ids[j]
      BY <1>4, <2>2, <2>4, <2>5
    <3> QED
      BY <2>3, <3>1
  <2>6. Unmet(n, O) = {}
    BY <2>5 DEF Unmet, ToSet
  <2>7. n - 1 \in IdsMet(O) /\ n - 1 = ids[i]
    BY <1>1, <2>2, <2>4, <2>6 DEF IdsMet
  <2> QED
    BY <1>9, <2>2, <2>7
<1>11. \A x \in 0 .. N - 1 : x \in O
  <2>1. \A i \in 1 .. N : ids[i] \in O
    BY <1>10
  <2> QED
    BY <1>3, <2>1
<1>12. PICK m : m = Len(ord) /\ m \in Nat /\ DOMAIN ord = 1 .. m
  BY <1>8
<1>13. \A x \in 0 .. N - 1 : \E k \in 1 .. m : ord[k] = x
  BY <1>8, <1>11, <1>12 DEF ToSet
<1>14. \A k \in 1 .. m : ord[k] \in 0 .. N - 1
  <2>1. \A k \in 1 .. m : ord[k] \in O
    BY <1>8, <1>12 DEF ToSet
  <2>2. \A x \in IdsMet(O) : x \in 0 .. N - 1
    BY <1>1 DEF IdsMet
  <2> QED
    BY <1>9, <2>1, <2>2
<1>15. \A j, k \in 1 .. m : ord[j] = ord[k] => j = k
  BY <1>8, <1>12 DEF InOrder, IsInjective
<1>16. Cardinality(0 .. N - 1) = m
  <2>1. PICK S : S = 0 .. N - 1
    OBVIOUS
  <2>2. Cardinality(S) = m
    BY <1>12, <1>13, <1>14, <1>15, <2>1, CountOnce
  <2> QED
    BY <2>1, <2>2
<1>17. Cardinality(0 .. N - 1) = N
  <2>1. 0 \in Int /\ N - 1 \in Int
    BY <1>1
  <2>2. Cardinality(0 .. N - 1) = IF 0 > N - 1 THEN 0 ELSE (N - 1) - 0 + 1
    BY <2>1, FS_Interval
  <2> QED
    BY <1>1, <2>2
<1>18. Len(Kahn) = Len(nodes)
  BY <1>1, <1>7, <1>8, <1>12, <1>16, <1>17
<1> QED
  BY <1>6, <1>18 DEF Succeeds

LEMMA SucceedsIs ==
  ASSUME NodesOK
  PROVE  Succeeds <=> CanBeOrdered
<1>1. ASSUME Succeeds PROVE CanBeOrdered
  <2>1. PICK ids, N : ids = Kahn /\ N = Len(nodes) /\ N \in Nat
    BY DEF NodesOK
  <2>2. Len(ids) = N /\ ids \in Seq(0 .. N - 1) /\ InOrder(ids)
    BY <1>1, <2>1, KahnSound, OrderingIs DEF Succeeds
  <2>3. ids \in [1 .. N -> 0 .. N - 1]
    BY <2>1, <2>2
  <2> QED
    BY <2>1, <2>2, <2>3 DEF CanBeOrdered
<1> QED
  BY <1>1, KahnComplete

-----------------------------------------------------------------------------
(* A list that is open holds what a function recorded before one threw.    *)
CommandInv ==
  /\ NodesOK
  /\ isCompiled => OrderingIn(nodes, order) /\ Len(order) = Len(nodes)
  /\ ~threw => ~list.open /\ OrderingIn(nodes, executed)

LEMMA OrderingStays ==
  ASSUME NEW g \in Seq(Seq(Nat)), NEW deps \in Seq(Nat), NEW ids, OrderingIn(g, ids)
  PROVE  OrderingIn(Append(g, deps), ids)
<1>0. PICK E, h : E = Seq(Nat) /\ h = Append(g, deps) /\ g \in Seq(E) /\ deps \in E
  OBVIOUS
<1>1. PICK N \in Nat : N = Len(g)
  BY <1>0
<1>2. Len(h) = N + 1 /\ \A n \in 1 .. N : h[n] = g[n]
  BY <1>0, <1>1
<1>3. /\ ids \in Seq(0 .. N - 1) /\ IsInjective(ids)
      /\ \A i \in DOMAIN ids : ToSet(g[ids[i] + 1]) \subseteq ToSet(SubSeq(ids, 1, i - 1))
  BY <1>1 DEF OrderingIn
<1>4. DOMAIN ids = 1 .. Len(ids) /\ \A i \in 1 .. Len(ids) : ids[i] \in 0 .. N - 1 /\ ids[i] + 1 \in 1 .. N
  BY <1>1, <1>3
<1>5. \A i \in DOMAIN ids : ToSet(h[ids[i] + 1]) = ToSet(g[ids[i] + 1])
  BY <1>2, <1>4
<1>6. ids \in Seq(0 .. Len(h) - 1)
  <2>1. PICK A, B : A = 0 .. N - 1 /\ B = 0 .. Len(h) - 1
    OBVIOUS
  <2>2. A \subseteq B
    BY <1>1, <1>2, <2>1
  <2>3. ids \in Seq(A)
    BY <1>3, <2>1
  <2>4. ids \in Seq(B)
    BY <2>2, <2>3, SeqGrows
  <2> QED
    BY <2>1, <2>4
<1> QED
  BY <1>0, <1>3, <1>5, <1>6 DEF OrderingIn

LEMMA CompiledSucceeds ==
  ASSUME NodesOK, OrderingIn(nodes, order), Len(order) = Len(nodes)
  PROVE  Succeeds
<1>1. PICK ids, N : ids = order /\ N = Len(nodes) /\ N \in Nat
  BY DEF NodesOK
<1>2. ids \in Seq(0 .. N - 1) /\ Len(ids) = N /\ InOrder(ids)
  BY <1>1, OrderingIs
<1>3. ids \in [1 .. N -> 0 .. N - 1]
  BY <1>1, <1>2
<1>4. CanBeOrdered
  BY <1>1, <1>2, <1>3 DEF CanBeOrdered
<1> QED
  BY <1>4, KahnComplete

LEMMA RunnableIs ==
  ASSUME CommandInv, NEW ids, Runnable(ids)
  PROVE  OrderingIn(nodes, ids) /\ Len(ids) = Len(nodes)
<1>1. CASE isCompiled
  BY <1>1 DEF CommandInv, Runnable
<1>2. CASE ~isCompiled
  <2>1. NodesOK /\ ids = Kahn /\ Succeeds
    BY <1>2 DEF CommandInv, Runnable
  <2> QED
    BY <2>1, KahnSound DEF Succeeds
<1> QED
  BY <1>1, <1>2

LEMMA CommandStep == CommandInv /\ [CommandNext]_commandVars => CommandInv'
<1> SUFFICES ASSUME CommandInv, [CommandNext]_commandVars PROVE CommandInv'
  OBVIOUS
<1>1. /\ NodesOK
      /\ isCompiled => OrderingIn(nodes, order) /\ Len(order) = Len(nodes)
      /\ ~threw => ~list.open /\ OrderingIn(nodes, executed)
  BY DEF CommandInv
<1>2. OrderingIn(nodes, Kahn) /\ (Succeeds => Len(Kahn) = Len(nodes)) /\ (isCompiled => Succeeds)
  BY <1>1, KahnSound, CompiledSucceeds DEF Succeeds
<1>3. ASSUME nodes' = nodes,
             isCompiled' => OrderingIn(nodes, order') /\ Len(order') = Len(nodes),
             ~threw' => ~list'.open /\ OrderingIn(nodes, executed')
      PROVE  CommandInv'
  BY <1>1, <1>3 DEF CommandInv, NodesOK
<1>4. ASSUME NEW deps \in NodeDeps, AddCommand(deps) PROVE CommandInv'
  <2>1. deps \in Seq(Nat)
    BY CommandGraphAssumption
  <2>2. nodes' = Append(nodes, deps) /\ ~isCompiled' /\ list' = list /\ executed' = executed /\ threw' = threw
    BY <1>4 DEF AddCommand
  <2>3. nodes \in Seq(Seq(Nat))
    BY <1>1 DEF NodesOK
  <2>4. nodes' \in Seq(Seq(Nat))
    BY <2>1, <2>2, <2>3
  <2>5. ~threw' => ~list'.open /\ OrderingIn(nodes', executed')
    BY <1>1, <2>1, <2>2, <2>3, OrderingStays
  <2> QED
    BY <2>2, <2>4, <2>5 DEF CommandInv, NodesOK
<1>5. CASE Compile
  <2>1. /\ order' = OrderLeft /\ (isCompiled' <=> isCompiled \/ Succeeds)
        /\ nodes' = nodes /\ list' = list /\ executed' = executed /\ threw' = threw
    BY <1>5 DEF Compile
  <2>2. isCompiled' => order' = Kahn /\ Len(Kahn) = Len(nodes)
    BY <1>2, <2>1 DEF OrderLeft, Succeeds
  <2> QED
    BY <1>1, <1>2, <1>3, <2>1, <2>2
<1>6. CASE ExecuteRefused
  BY <1>1, <1>3, <1>6 DEF ExecuteRefused
<1>7. CASE Execute
  <2>1. PICK ids : /\ Runnable(ids) /\ order' = ids
                   /\ list' = [open |-> FALSE, by |-> Started \o ids]
                   /\ executed' = list'.by /\ nodes' = nodes /\ threw' = threw
    BY <1>7 DEF Execute
  <2>2. OrderingIn(nodes, ids) /\ Len(ids) = Len(nodes)
    BY <2>1, RunnableIs
  <2>3. ASSUME ~threw PROVE executed' = ids
    <3>1. Started = <<>>
      BY <1>1, <2>3 DEF Started
    <3>2. <<>> \o ids = ids
      BY <2>2 DEF OrderingIn
    <3> QED
      BY <2>1, <3>1, <3>2
  <2>4. ~list'.open
    BY <2>1
  <2> QED
    BY <1>3, <2>1, <2>2, <2>3, <2>4
<1>8. CASE ExecuteThrows
  <2>1. PICK ids : Runnable(ids) /\ order' = ids /\ nodes' = nodes /\ threw' = TRUE
    BY <1>8 DEF ExecuteThrows
  <2>2. OrderingIn(nodes, ids) /\ Len(ids) = Len(nodes)
    BY <2>1, RunnableIs
  <2> QED
    BY <1>3, <2>1, <2>2
<1>9. CASE UNCHANGED commandVars
  BY <1>1, <1>3, <1>9 DEF commandVars
<1> QED
  BY <1>4, <1>5, <1>6, <1>7, <1>8, <1>9 DEF CommandNext

LEMMA CommandsRun == CommandInv => OnlyThrowsRepeat
<1> SUFFICES ASSUME CommandInv PROVE OnlyThrowsRepeat
  OBVIOUS
<1>1. /\ NodesOK
      /\ isCompiled => OrderingIn(nodes, order) /\ Len(order) = Len(nodes)
      /\ ~threw => OrderingIn(nodes, executed)
  BY DEF CommandInv
<1>2. Succeeds <=> CanBeOrdered
  BY <1>1, SucceedsIs
<1> QED
  BY <1>1, <1>2, OrderingIs DEF OnlyThrowsRepeat

(* Whatever dependencies nodes are added with, and whenever compile,       *)
(* execute or a function of a node fails: Kahn's algorithm succeeds just   *)
(* when the nodes can be ordered, m_compiled stands for an order of all of *)
(* them, and until a function throws a list holds each node of an order    *)
(* once and after its dependencies (dxgraph.cpp:24-75).                    *)
THEOREM RepeatsOnlyAfterThrows == SessionsSpec => []OnlyThrowsRepeat
<1>1. SessionsInit => CommandInv
  <2> SUFFICES ASSUME SessionsInit PROVE CommandInv
    OBVIOUS
  <2>1. nodes = <<>> /\ ~isCompiled /\ list.open = FALSE /\ executed = <<>>
    BY DEF SessionsInit, CommandInit
  <2>2. OrderingIn(nodes, <<>>)
    BY <2>1 DEF OrderingIn, IsInjective
  <2> QED
    BY <2>1, <2>2 DEF CommandInv, NodesOK
<1> QED
  BY <1>1, PartsStep, CommandStep, CommandsRun, PTL DEF SessionsSpec
=============================================================================
