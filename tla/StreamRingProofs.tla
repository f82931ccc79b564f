-------------------------- MODULE StreamRingProofs --------------------------
(***************************************************************************)
(* Proofs about StreamRing for every number of slots, every set of         *)
(* tensors, and any bounds.                                                *)
(*                                                                         *)
(* The argument: a read into a slot that was submitted has a signal behind *)
(* it that the slot's fence has not received (SentReadsAnnounced), so a    *)
(* completed fence means no read is in flight; the victim's wait makes the *)
(* fence complete before the next read is enqueued (VictimQuiet).          *)
(***************************************************************************)
EXTENDS StreamRing, DataTheorems

Numbered ==
  /\ sent <= total_submitted
  /\ \A r \in reads : r.id < total_submitted

(* Each signal on its way is the only one for its slot, carries the slot's *)
(* version, and has not been received.                                     *)
SignalsCurrent ==
  /\ \A g \in signals :
       /\ g.fence \in Slots
       /\ g.value = version[g.fence]
       /\ fence[g.fence] < g.value
  /\ \A g1, g2 \in signals : g1.fence = g2.fence => g1 = g2

(* A submitted read into a slot brings the slot's tensor, and the slot's   *)
(* signal is behind it.                                                    *)
SentReadsAnnounced ==
  \A r \in reads :
    r.dst \in Slots /\ r.id < sent =>
      /\ r.src = slot_tag[r.dst]
      /\ \E g \in signals : g.fence = r.dst /\ r.id < g.after

(* Only the fetch about to submit has an unsubmitted read into a slot.     *)
UnsentReadIsVictims ==
  \A r \in reads :
    r.dst \in Slots /\ r.id >= sent => pc = "submit" /\ r.dst = victim

VictimQuiet ==
  /\ pc \in {"evict", "submit"} => Completed(victim, version[victim])
  /\ pc = "submit" => \E r \in reads : r.dst = victim
  /\ \A r \in reads : pc = "submit" /\ r.dst = victim => r.src = req

VersionsAhead ==
  \A s \in Slots :
    /\ fence[s] <= version[s]
    /\ ~has_payload[s] => version[s] = 0

(* A slot nothing is being read into holds its tensor.                     *)
SettledContent ==
  \A s \in Slots :
    has_payload[s] /\ (\A r \in reads : r.dst = s => r.id >= sent) =>
      content[s] = slot_tag[s]

IInv ==
  /\ TypeOK
  /\ Numbered
  /\ SignalsCurrent
  /\ SentReadsAnnounced
  /\ UnsentReadIsVictims
  /\ VictimQuiet
  /\ VersionsAhead
  /\ SettledContent
  /\ OneReadPerSlot
-----------------------------------------------------------------------------
LEMMA ModuloInNat ==
  ASSUME NEW a \in Int, NEW n \in Nat \ {0}
  PROVE  a % n \in 0..(n - 1)
OBVIOUS

(* Every action keeps the variables in their types.                        *)
LEMMA TypeOKStep == TypeOK /\ [Next]_vars => TypeOK'
<1> SUFFICES ASSUME TypeOK, [Next]_vars PROVE TypeOK'
  OBVIOUS
<1> USE DirectStorageAssumption, RingAssumption DEF TypeOK, DSTypeOK
<1>1. ASSUME NEW t \in Tensors, FetchHit(t) PROVE TypeOK'
  BY <1>1 DEF FetchHit, Stats, dsVars, contextVars, runtimeVars, callVars, NoSlot
<1>2. ASSUME NEW t \in Tensors, NEW s \in Slots, FetchMiss(t, s) PROVE TypeOK'
  <2>1. /\ stats.misses + 1 \in Nat
        /\ stats.stalls + 1 \in Nat
    BY DEF Stats
  <2>2. CASE Busy(s)
    <3>1. stats' \in Stats /\ pc' = "stalled"
      BY <1>2, <2>1, <2>2 DEF FetchMiss, Stats
    <3>2. QED
      BY <1>2, <3>1 DEF FetchMiss, dsVars, contextVars, runtimeVars
  <2>3. CASE ~Busy(s)
    <3>1. stats' \in Stats /\ pc' = "evict"
      BY <1>2, <2>1, <2>3 DEF FetchMiss, Stats
    <3>2. QED
      BY <1>2, <3>1 DEF FetchMiss, dsVars, contextVars, runtimeVars
  <2>4. QED
    BY <2>2, <2>3
<1>3. CASE StallEnds
  BY <1>3 DEF StallEnds, dsVars, contextVars, runtimeVars, ringVars
<1>4. CASE Evict
  <2>1. stats' \in Stats
    <3>1. (stats.streamed + Bytes[req]) % Wrap \in Nat
      BY ModuloInNat DEF Stats
    <3>2. Minus(stats.resident, slot_bytes[victim]) \in Nat
      BY ModuloInNat DEF Stats, Minus
    <3>3. (IF has_payload[victim] THEN stats.evictions + 1
           ELSE stats.evictions) \in Nat
      BY DEF Stats
    <3>4. QED
      BY <1>4, <3>1, <3>2, <3>3 DEF Evict, Stats
  <2>2. CASE req \notin Oversized
    BY <1>4, <2>1, <2>2 DEF Evict, EnqueueRead, Read, NoSlot
  <2>3. CASE req \in Oversized
    BY <1>4, <2>1, <2>3 DEF Evict, NoSlot, dsVars, contextVars, runtimeVars
  <2>4. QED
    BY <2>2, <2>3
<1>5. CASE SubmitRead
  <2>1. stats' \in Stats
    BY <1>5, ModuloInNat DEF SubmitRead, Stats
  <2>2. ASSUME NEW id \in Nat PROVE MarkFor(id) \in Mark
    BY ModuloInNat DEF MarkFor, Mark, StatusSlot
  <2>3. marks' \subseteq Mark
    BY <1>5, <2>2 DEF SubmitRead, SignalAndSubmit, Untracked
  <2>4. signals' \subseteq Signal
    BY <1>5 DEF SubmitRead, SignalAndSubmit, SignalFor, Signal, NextVersion
  <2>5. QED
    BY <1>5, <2>1, <2>3, <2>4
    DEF SubmitRead, SignalAndSubmit, NewBytes
<1>6. CASE FlushReturns
  BY <1>6 DEF FlushReturns, dsVars, contextVars, runtimeVars, ringVars
<1>7. CASE FlushCall
  BY <1>7 DEF FlushCall, dsVars, contextVars, runtimeVars, ringVars
<1>8. ASSUME NEW t \in Tensors, RawRead(t) PROVE TypeOK'
  BY <1>8 DEF RawRead, EnqueueRead, Read, ringVars
<1>9. CASE RawSubmit
  BY <1>9 DEF RawSubmit, Submit, contextVars, ringVars, callVars
<1>10. CASE RawWait
  BY <1>10 DEF RawWait, WaitForRequest, runtimeVars, ringVars, callVars
<1>11. CASE RawWaitAll
  BY <1>11 DEF RawWaitAll, WaitAll, runtimeVars, ringVars, callVars
<1>12. CASE Storage
  <2>1. ASSUME NEW r \in reads, ReadCompletes(r) PROVE DSTypeOK'
    BY <2>1 DEF ReadCompletes, Read, contextVars
  <2>2. ASSUME NEW m \in marks, StatusWritten(m) PROVE DSTypeOK'
    BY <2>2 DEF StatusWritten, Mark, contextVars
  <2>3. ASSUME NEW g \in signals, SignalFires(g) PROVE DSTypeOK'
    BY <2>3 DEF SignalFires, Signal, contextVars
  <2>4. QED
    BY <1>12, <2>1, <2>2, <2>3 DEF Storage, Runtime, ringVars, callVars
<1>13. CASE UNCHANGED vars
  BY <1>13 DEF vars, dsVars, contextVars, runtimeVars, ringVars, callVars
<1>14. QED
  BY <1>1, <1>2, <1>3, <1>4, <1>5, <1>6, <1>7, <1>8, <1>9, <1>10, <1>11,
     <1>12, <1>13
  DEF Next, Fetch, Resume, Direct

LEMMA TypeOKInit == Init => TypeOK
<1> SUFFICES ASSUME Init PROVE TypeOK
  OBVIOUS
<1>1. 0 \in Slots
  BY RingAssumption DEF Slots
<1>2. (CHOOSE t \in Tensors : TRUE) \in Tensors
  BY RingAssumption
<1>3. DSTypeOK
  BY DEF Init, DSInit, DSTypeOK
<1>4. stats \in Stats /\ req \in Tensors /\ raw_id \in Int
  BY <1>2 DEF Init, Stats
<1>5. QED
  BY <1>1, <1>3, <1>4 DEF Init, TypeOK

(* Type correctness, for every ring and every behaviour of the runtime.    *)
THEOREM TypeCorrect == Spec => []TypeOK
BY TypeOKInit, TypeOKStep, PTL DEF Spec
-----------------------------------------------------------------------------
(* What the inductive invariant speaks of, besides the calling thread.     *)
streamState == <<reads, signals, sent, total_submitted, fence, content,
                 version, has_payload, slot_tag>>

LEMMA InvStutter ==
  ASSUME IInv, TypeOK', UNCHANGED <<streamState, pc, req, victim>>
  PROVE  IInv'
BY DEF IInv, Numbered, SignalsCurrent, SentReadsAnnounced,
       UnsentReadIsVictims, VictimQuiet, VersionsAhead, SettledContent,
       OneReadPerSlot, Completed, streamState

(* A step of the calling thread that enqueues nothing.                     *)
LEMMA InvCallStep ==
  ASSUME IInv, TypeOK', UNCHANGED streamState,
         pc # "submit", pc' # "submit",
         pc' = "evict" => Completed(victim', version[victim'])
  PROVE  IInv'
BY DEF IInv, Numbered, SignalsCurrent, SentReadsAnnounced,
       UnsentReadIsVictims, VictimQuiet, VersionsAhead, SettledContent,
       OneReadPerSlot, Completed, streamState

LEMMA InvFetchMiss ==
  ASSUME IInv, TypeOK', NEW t \in Tensors, NEW s \in Slots, FetchMiss(t, s)
  PROVE  IInv'
<1>1. UNCHANGED streamState
  BY DEF FetchMiss, streamState, dsVars, contextVars, runtimeVars
<1>2. pc = "idle" /\ pc' \in {"stalled", "evict"} /\ victim' = s
  BY DEF FetchMiss
<1>3. pc' = "evict" => ~Busy(s)
  BY DEF FetchMiss
<1>4. ~Busy(s) => Completed(s, version[s])
  BY RingAssumption
  DEF Busy, Completed, IInv, VersionsAhead, TypeOK, DSTypeOK
<1>5. QED
  BY <1>1, <1>2, <1>3, <1>4, InvCallStep

LEMMA InvStallEnds ==
  ASSUME IInv, TypeOK', StallEnds
  PROVE  IInv'
<1>1. UNCHANGED streamState
  BY DEF StallEnds, streamState, dsVars, contextVars, runtimeVars, ringVars
<1>2. QED
  BY <1>1, InvCallStep DEF StallEnds

(* No read into the victim is in flight when a fetch gets here, so the one *)
(* it enqueues is the only one.                                            *)
LEMMA InvEvict ==
  ASSUME IInv, TypeOK', Evict
  PROVE  IInv'
<1>1. CASE req \in Oversized
  <2>1. UNCHANGED streamState
    BY <1>1 DEF Evict, streamState, dsVars, contextVars, runtimeVars
  <2>2. pc = "evict" /\ pc' = "idle"
    BY <1>1 DEF Evict
  <2>3. QED
    BY <2>1, <2>2, InvCallStep
<1>2. CASE req \notin Oversized
  <2> DEFINE new == [id |-> total_submitted, dst |-> victim, src |-> req]
  <2>1. /\ pc = "evict" /\ pc' = "submit"
        /\ reads' = reads \cup {new}
        /\ total_submitted' = total_submitted + 1
        /\ UNCHANGED <<signals, sent, fence, content, version, has_payload,
                       slot_tag, req, victim>>
    BY <1>2 DEF Evict, EnqueueRead
  <2>2. /\ total_submitted \in Nat /\ sent \in Nat
        /\ \A r \in reads : r.id \in Nat
        /\ victim \in Slots
    BY DEF IInv, TypeOK, DSTypeOK, Read
  <2>3. \A r \in reads : r.dst # victim
    <3> SUFFICES ASSUME NEW r \in reads, r.dst = victim PROVE FALSE
      OBVIOUS
    <3>1. r.id < sent
      BY <2>1, <2>2 DEF IInv, UnsentReadIsVictims
    <3>2. PICK g \in signals : g.fence = victim
      BY <2>2, <3>1 DEF IInv, SentReadsAnnounced
    <3>3. fence[victim] < version[victim]
      BY <3>2 DEF IInv, SignalsCurrent
    <3>4. fence[victim] >= version[victim]
      BY <2>1 DEF IInv, VictimQuiet, Completed
    <3>5. fence[victim] \in Nat /\ version[victim] \in Nat
      BY <2>2, RingAssumption DEF IInv, TypeOK, DSTypeOK
    <3>6. QED
      BY <3>3, <3>4, <3>5
  <2> HIDE DEF new
  <2>4. new.id = total_submitted /\ new.dst = victim /\ new.src = req
    BY DEF new
  <2>5. Numbered'
    BY <2>1, <2>2, <2>4 DEF IInv, Numbered
  <2>6. SignalsCurrent'
    BY <2>1 DEF IInv, SignalsCurrent
  <2>7. SentReadsAnnounced'
    BY <2>1, <2>2, <2>4 DEF IInv, SentReadsAnnounced, Numbered
  <2>8. UnsentReadIsVictims'
    BY <2>1, <2>4 DEF IInv, UnsentReadIsVictims
  <2>9. VictimQuiet'
    BY <2>1, <2>3, <2>4 DEF IInv, VictimQuiet, Completed
  <2>10. VersionsAhead'
    BY <2>1 DEF IInv, VersionsAhead
  <2>11. SettledContent'
    BY <2>1, <2>2, <2>4 DEF IInv, SettledContent, Numbered
  <2>12. OneReadPerSlot'
    BY <2>1, <2>3, <2>4 DEF IInv, OneReadPerSlot
  <2>13. QED
    BY <2>5, <2>6, <2>7, <2>8, <2>9, <2>10, <2>11, <2>12 DEF IInv
<1>3. QED
  BY <1>1, <1>2

(* The new signal is the victim's only one, and behind the read.           *)
LEMMA InvSubmitRead ==
  ASSUME IInv, TypeOK', SubmitRead
  PROVE  IInv'
<1> DEFINE new == [fence |-> victim, value |-> version[victim] + 1,
                   after |-> total_submitted]
<1>1. /\ pc = "submit" /\ pc' = "idle"
      /\ signals' = signals \cup {new}
      /\ sent' = total_submitted
      /\ version' = [version EXCEPT ![victim] = version[victim] + 1]
      /\ has_payload' = [has_payload EXCEPT ![victim] = TRUE]
      /\ slot_tag' = [slot_tag EXCEPT ![victim] = req]
      /\ UNCHANGED <<reads, total_submitted, fence, content, req, victim>>
  BY DEF SubmitRead, SignalAndSubmit, SignalFor, NextVersion
<1>2. /\ total_submitted \in Nat /\ sent \in Nat
      /\ \A r \in reads : r.id \in Nat
      /\ victim \in Slots
      /\ \A s \in Slots : fence[s] \in Nat /\ version[s] \in Nat
      /\ version \in [Slots -> Nat]
      /\ has_payload \in [Slots -> BOOLEAN]
      /\ slot_tag \in [Slots -> Tensors \cup {Zeroed}]
  BY RingAssumption DEF IInv, TypeOK, DSTypeOK, Read
<1>3. \A g \in signals : g.fence # victim
  <2> SUFFICES ASSUME NEW g \in signals, g.fence = victim PROVE FALSE
    OBVIOUS
  <2>1. fence[victim] < version[victim]
    BY DEF IInv, SignalsCurrent
  <2>2. fence[victim] >= version[victim]
    BY <1>1 DEF IInv, VictimQuiet, Completed
  <2>3. QED
    BY <1>2, <2>1, <2>2
<1> HIDE DEF new
<1>4. /\ new.fence = victim
      /\ new.value = version[victim] + 1
      /\ new.after = total_submitted
  BY DEF new
<1>5. \A s \in Slots : s # victim =>
        /\ version'[s] = version[s]
        /\ has_payload'[s] = has_payload[s]
        /\ slot_tag'[s] = slot_tag[s]
  BY <1>1, <1>2
<1>6. version'[victim] = version[victim] + 1 /\ slot_tag'[victim] = req
      /\ has_payload'[victim] = TRUE
  BY <1>1, <1>2
<1>7. Numbered'
  BY <1>1, <1>2 DEF IInv, Numbered
<1>8. SignalsCurrent'
  <2>1. ASSUME NEW g \in signals'
        PROVE  g.fence \in Slots /\ g.value = version'[g.fence]
               /\ fence'[g.fence] < g.value
    <3>1. CASE g \in signals
      BY <1>1, <1>3, <1>5, <3>1 DEF IInv, SignalsCurrent
    <3>2. CASE g = new
      BY <1>1, <1>2, <1>4, <1>6, <3>2 DEF IInv, VersionsAhead
    <3>3. QED
      BY <1>1, <2>1, <3>1, <3>2
  <2>2. \A g1, g2 \in signals' : g1.fence = g2.fence => g1 = g2
    BY <1>1, <1>3, <1>4 DEF IInv, SignalsCurrent
  <2>3. QED
    BY <2>1, <2>2 DEF SignalsCurrent
<1>9. SentReadsAnnounced'
  <2> SUFFICES ASSUME NEW r \in reads, r.dst \in Slots, r.id < total_submitted
               PROVE  /\ r.src = slot_tag'[r.dst]
                      /\ \E g \in signals' :
                           g.fence = r.dst /\ r.id < g.after
    BY <1>1 DEF SentReadsAnnounced
  <2>1. CASE r.dst = victim
    BY <1>1, <1>4, <1>6, <2>1 DEF IInv, VictimQuiet
  <2>2. CASE r.dst # victim
    <3>1. r.id < sent
      BY <1>2, <2>2 DEF IInv, UnsentReadIsVictims
    <3>2. QED
      BY <1>1, <1>5, <2>2, <3>1 DEF IInv, SentReadsAnnounced
  <2>3. QED
    BY <2>1, <2>2
<1>10. UnsentReadIsVictims'
  BY <1>1, <1>2 DEF IInv, UnsentReadIsVictims, Numbered
<1>11. VictimQuiet'
  BY <1>1 DEF VictimQuiet
<1>12. VersionsAhead'
  <2> SUFFICES ASSUME NEW s \in Slots
               PROVE  /\ fence'[s] <= version'[s]
                      /\ ~has_payload'[s] => version'[s] = 0
    BY DEF VersionsAhead
  <2>1. CASE s = victim
    BY <1>1, <1>2, <1>6, <2>1 DEF IInv, VersionsAhead
  <2>2. CASE s # victim
    BY <1>1, <1>5, <2>2 DEF IInv, VersionsAhead
  <2>3. QED
    BY <2>1, <2>2
<1>13. SettledContent'
  <2> SUFFICES ASSUME NEW s \in Slots, has_payload'[s],
                      \A r \in reads : r.dst = s => r.id >= total_submitted
               PROVE  content[s] = slot_tag'[s]
    BY <1>1 DEF SettledContent
  <2>1. s # victim
    BY <1>1, <1>2 DEF IInv, VictimQuiet, Numbered
  <2>2. \A r \in reads : r.dst = s => r.id >= sent
    BY <1>2 DEF IInv, Numbered
  <2>3. QED
    BY <1>5, <2>1, <2>2 DEF IInv, SettledContent
<1>14. OneReadPerSlot'
  BY <1>1 DEF IInv, OneReadPerSlot
<1>15. QED
  BY <1>7, <1>8, <1>9, <1>10, <1>11, <1>12, <1>13, <1>14 DEF IInv
LEMMA InvRawRead ==
  ASSUME IInv, TypeOK', NEW t \in Tensors, RawRead(t)
  PROVE  IInv'
<1> DEFINE new == [id |-> total_submitted, dst |-> RawBuffer, src |-> t]
<1>1. /\ pc = "idle" /\ pc' = "idle"
      /\ reads' = reads \cup {new}
      /\ total_submitted' = total_submitted + 1
      /\ UNCHANGED <<signals, sent, fence, content, version, has_payload,
                     slot_tag, req, victim>>
  BY DEF RawRead, EnqueueRead, ringVars
<1>2. /\ total_submitted \in Nat /\ sent \in Nat
      /\ \A r \in reads : r.id \in Nat
      /\ RawBuffer \notin Slots
  BY RingAssumption DEF IInv, TypeOK, DSTypeOK, Read
<1>3. new.id = total_submitted /\ new.dst = RawBuffer
  OBVIOUS
<1> HIDE DEF new
<1>4. Numbered'
  BY <1>1, <1>2, <1>3 DEF IInv, Numbered
<1>5. SignalsCurrent'
  BY <1>1 DEF IInv, SignalsCurrent
<1>6. SentReadsAnnounced' /\ UnsentReadIsVictims'
  BY <1>1, <1>2, <1>3
  DEF IInv, SentReadsAnnounced, UnsentReadIsVictims
<1>7. VictimQuiet' /\ VersionsAhead'
  BY <1>1 DEF IInv, VictimQuiet, VersionsAhead
<1>8. SettledContent'
  BY <1>1, <1>2, <1>3 DEF IInv, SettledContent
<1>9. OneReadPerSlot'
  BY <1>1, <1>2, <1>3 DEF IInv, OneReadPerSlot
<1>10. QED
  BY <1>4, <1>5, <1>6, <1>7, <1>8, <1>9 DEF IInv

(* A Submit between fetches starts no read into a slot: none is waiting.   *)
LEMMA InvRawSubmit ==
  ASSUME IInv, TypeOK', RawSubmit
  PROVE  IInv'
<1>1. /\ pc = "idle" /\ pc' = "idle"
      /\ sent' = total_submitted
      /\ UNCHANGED <<reads, signals, total_submitted, fence, content, version,
                     has_payload, slot_tag, req, victim>>
  BY DEF RawSubmit, Submit, contextVars, ringVars, callVars
<1>2. /\ total_submitted \in Nat /\ sent \in Nat
      /\ \A r \in reads : r.id \in Nat
  BY DEF IInv, TypeOK, DSTypeOK, Read
<1>3. \A r \in reads : r.dst \in Slots => r.id < sent
  BY <1>1, <1>2 DEF IInv, UnsentReadIsVictims
<1>4. Numbered' /\ SignalsCurrent' /\ OneReadPerSlot'
  BY <1>1, <1>2 DEF IInv, Numbered, SignalsCurrent, OneReadPerSlot
<1>5. SentReadsAnnounced' /\ UnsentReadIsVictims'
  BY <1>1, <1>2, <1>3
  DEF IInv, SentReadsAnnounced, UnsentReadIsVictims, Numbered
<1>6. VictimQuiet' /\ VersionsAhead'
  BY <1>1 DEF IInv, VictimQuiet, VersionsAhead
<1>7. SettledContent'
  BY <1>1, <1>2, <1>3 DEF IInv, SettledContent, Numbered
<1>8. QED
  BY <1>4, <1>5, <1>6, <1>7 DEF IInv

LEMMA InvReadCompletes ==
  ASSUME IInv, TypeOK', NEW r \in reads, ReadCompletes(r),
         UNCHANGED <<ringVars, callVars>>
  PROVE  IInv'
<1>1. /\ r.id < sent
      /\ reads' = reads \ {r}
      /\ content' = [content EXCEPT ![r.dst] = r.src]
      /\ UNCHANGED <<signals, sent, total_submitted, fence, version,
                     has_payload, slot_tag, pc, req, victim>>
  BY DEF ReadCompletes, contextVars, ringVars, callVars
<1>2. /\ sent \in Nat
      /\ \A q \in reads : q.id \in Nat
      /\ content \in [Buffers -> Tensors \cup {Zeroed}]
      /\ r.dst \in Buffers
      /\ Slots \subseteq Buffers
  BY RingAssumption DEF IInv, TypeOK, DSTypeOK, Read
<1>3. Numbered' /\ SignalsCurrent' /\ SentReadsAnnounced'
      /\ UnsentReadIsVictims' /\ VersionsAhead' /\ OneReadPerSlot'
  BY <1>1
  DEF IInv, Numbered, SignalsCurrent, SentReadsAnnounced,
      UnsentReadIsVictims, VersionsAhead, OneReadPerSlot
<1>4. VictimQuiet'
  <2>1. ASSUME pc = "submit" PROVE r.dst # victim
    <3> SUFFICES ASSUME r.dst = victim PROVE FALSE
      OBVIOUS
    <3>1. victim \in Slots
      BY DEF IInv, TypeOK
    <3>2. PICK g \in signals : g.fence = victim
      BY <1>1, <3>1 DEF IInv, SentReadsAnnounced
    <3>3. fence[victim] < version[victim]
      BY <3>2 DEF IInv, SignalsCurrent
    <3>4. fence[victim] >= version[victim]
      BY <2>1 DEF IInv, VictimQuiet, Completed
    <3>5. fence[victim] \in Nat /\ version[victim] \in Nat
      BY <3>1, RingAssumption DEF IInv, TypeOK, DSTypeOK
    <3>6. QED
      BY <3>3, <3>4, <3>5
  <2>2. QED
    BY <1>1, <2>1 DEF IInv, VictimQuiet, Completed
<1>5. SettledContent'
  <2> SUFFICES ASSUME NEW s \in Slots, has_payload[s],
                      \A q \in reads \ {r} : q.dst = s => q.id >= sent
               PROVE  content'[s] = slot_tag[s]
    BY <1>1 DEF SettledContent
  <2>1. CASE r.dst = s
    BY <1>1, <1>2, <2>1 DEF IInv, SentReadsAnnounced
  <2>2. CASE r.dst # s
    BY <1>1, <1>2, <2>2 DEF IInv, SettledContent
  <2>3. QED
    BY <2>1, <2>2
<1>6. QED
  BY <1>3, <1>4, <1>5 DEF IInv

(* A signal fires behind the read it announces: nothing is left in flight. *)
LEMMA InvSignalFires ==
  ASSUME IInv, TypeOK', NEW g \in signals, SignalFires(g),
         UNCHANGED <<ringVars, callVars>>
  PROVE  IInv'
<1>1. /\ \A r \in reads : r.id >= g.after
      /\ signals' = signals \ {g}
      /\ fence' = [fence EXCEPT ![g.fence] = g.value]
      /\ UNCHANGED <<reads, sent, total_submitted, content, version,
                     has_payload, slot_tag, pc, req, victim>>
  BY DEF SignalFires, NothingBefore, contextVars, ringVars, callVars
<1>2. /\ g.fence \in Slots
      /\ g.value = version[g.fence]
      /\ Slots \subseteq Fences
      /\ fence \in [Fences -> Nat]
      /\ version \in [Slots -> Nat]
      /\ \A r \in reads : r.id \in Nat
      /\ \A h \in signals : h.after \in Nat
  BY RingAssumption
  DEF IInv, SignalsCurrent, TypeOK, DSTypeOK, Read, Signal
<1>3. /\ fence'[g.fence] = version[g.fence]
      /\ \A s \in Slots : s # g.fence => fence'[s] = fence[s]
  BY <1>1, <1>2
<1>4. Numbered' /\ UnsentReadIsVictims' /\ SettledContent' /\ OneReadPerSlot'
  BY <1>1
  DEF IInv, Numbered, UnsentReadIsVictims, SettledContent, OneReadPerSlot
<1>5. SignalsCurrent'
  BY <1>1, <1>3 DEF IInv, SignalsCurrent
<1>6. SentReadsAnnounced'
  <2> SUFFICES ASSUME NEW r \in reads, r.dst \in Slots, r.id < sent
               PROVE  /\ r.src = slot_tag[r.dst]
                      /\ \E h \in signals \ {g} :
                           h.fence = r.dst /\ r.id < h.after
    BY <1>1 DEF SentReadsAnnounced
  <2>1. PICK h \in signals : h.fence = r.dst /\ r.id < h.after
    BY DEF IInv, SentReadsAnnounced
  <2>2. h # g
    BY <1>1, <1>2, <2>1
  <2>3. QED
    BY <2>1, <2>2 DEF IInv, SentReadsAnnounced
<1>7. VictimQuiet'
  <2>1. victim \in Slots
    BY DEF IInv, TypeOK
  <2>2. Completed(victim, version[victim]) =>
          fence'[victim] >= version[victim]
    BY <1>2, <1>3, <2>1 DEF Completed
  <2>3. QED
    BY <1>1, <2>2 DEF IInv, VictimQuiet, Completed
<1>8. VersionsAhead'
  BY <1>1, <1>2, <1>3 DEF IInv, VersionsAhead
<1>9. QED
  BY <1>4, <1>5, <1>6, <1>7, <1>8 DEF IInv

LEMMA InvInit == Init => IInv
<1> SUFFICES ASSUME Init PROVE IInv
  OBVIOUS
<1>1. TypeOK
  BY TypeOKInit
<1>2. \A s \in Slots : fence[s] = 0
  BY RingAssumption DEF Init, DSInit
<1>3. QED
  BY <1>1, <1>2
  DEF Init, DSInit, IInv, Numbered, SignalsCurrent, SentReadsAnnounced,
      UnsentReadIsVictims, VictimQuiet, VersionsAhead, SettledContent,
      OneReadPerSlot

LEMMA InvStep == IInv /\ [Next]_vars => IInv'
<1> SUFFICES ASSUME IInv, [Next]_vars PROVE IInv'
  OBVIOUS
<1> TypeOK'
  BY TypeOKStep DEF IInv
<1>1. ASSUME NEW t \in Tensors, FetchHit(t) PROVE IInv'
  BY <1>1, InvStutter
  DEF FetchHit, streamState, dsVars, contextVars, runtimeVars, callVars
<1>2. ASSUME NEW t \in Tensors, NEW s \in Slots, FetchMiss(t, s) PROVE IInv'
  BY <1>2, InvFetchMiss
<1>3. CASE StallEnds
  BY <1>3, InvStallEnds
<1>4. CASE Evict
  BY <1>4, InvEvict
<1>5. CASE SubmitRead
  BY <1>5, InvSubmitRead
<1>6. CASE FlushReturns \/ FlushCall
  <2>1. /\ UNCHANGED streamState
        /\ pc \in {"idle", "flush"} /\ pc' \in {"idle", "flush"}
    BY <1>6 DEF FlushReturns, FlushCall, streamState, dsVars, contextVars,
                runtimeVars, ringVars
  <2>2. QED
    BY <2>1, InvCallStep
<1>7. ASSUME NEW t \in Tensors, RawRead(t) PROVE IInv'
  BY <1>7, InvRawRead
<1>8. CASE RawSubmit
  BY <1>8, InvRawSubmit
<1>9. CASE RawWait \/ RawWaitAll
  <2>1. UNCHANGED <<streamState, pc, req, victim>>
    BY <1>9 DEF RawWait, RawWaitAll, WaitForRequest, WaitAll, streamState,
                runtimeVars, ringVars, callVars
  <2>2. QED
    BY <2>1, InvStutter
<1>10. CASE Storage
  <2>1. ASSUME NEW m \in marks, StatusWritten(m) PROVE IInv'
    BY <1>10, <2>1, InvStutter
    DEF Storage, StatusWritten, streamState, contextVars, ringVars, callVars
  <2>2. QED
    BY <1>10, <2>1, InvReadCompletes, InvSignalFires DEF Storage, Runtime
<1>11. CASE UNCHANGED vars
  BY <1>11, InvStutter
  DEF vars, streamState, dsVars, contextVars, runtimeVars, ringVars, callVars
<1>12. QED
  BY <1>1, <1>2, <1>3, <1>4, <1>5, <1>6, <1>7, <1>8, <1>9, <1>10, <1>11
  DEF Next, Fetch, Resume, Direct

THEOREM InductiveInvariant == Spec => []IInv
BY InvInit, InvStep, PTL DEF Spec

(* Two reads never race for one slot, whatever order the runtime works in  *)
(* and whatever else uses the context.                                     *)
THEOREM SlotsReadOnce == Spec => []OneReadPerSlot
<1>1. IInv => OneReadPerSlot
  BY DEF IInv
<1>2. QED
  BY <1>1, InductiveInvariant, PTL

LEMMA ArrivedWhenCompleted == IInv => FenceMeansArrived
<1> SUFFICES ASSUME IInv, NEW s \in Slots, has_payload[s],
                    Completed(s, version[s])
             PROVE  content[s] = slot_tag[s]
  BY DEF FenceMeansArrived
<1>1. fence[s] \in Nat /\ version[s] \in Nat /\ sent \in Nat
      /\ \A r \in reads : r.id \in Nat
  BY RingAssumption DEF IInv, TypeOK, DSTypeOK, Read
<1>2. \A r \in reads : r.dst = s => r.id >= sent
  <2> SUFFICES ASSUME NEW r \in reads, r.dst = s, r.id < sent PROVE FALSE
    BY <1>1
  <2>1. PICK g \in signals : g.fence = s
    BY DEF IInv, SentReadsAnnounced
  <2>2. fence[s] < version[s]
    BY <2>1 DEF IInv, SignalsCurrent
  <2>3. QED
    BY <1>1, <2>2 DEF Completed
<1>3. QED
  BY <1>2 DEF IInv, SettledContent

(* Once a slot's fence has reached its version the slot holds the tensor   *)
(* it was last filled for: waiting for the value fetch returns is enough.  *)
THEOREM FenceIsEnough == Spec => []FenceMeansArrived
BY InductiveInvariant, ArrivedWhenCompleted, PTL
-----------------------------------------------------------------------------
(* StreamRing implements SlotRing, for every number of slots and every set *)
(* of tensors.  Besides the inductive invariant above the argument needs   *)
(* that the victim stays the least recently fetched slot until it is       *)
(* refilled (VictimLeast), that its refill makes it the most recent one    *)
(* (TicksBehind), and that a hit never finds an empty slot                 *)
(* (ResidentFilled).                                                       *)

InMiss == pc \in {"stalled", "evict", "submit"}

TicksBehind ==
  \A s \in Slots : /\ last_tick[s] <= tick
                   /\ InMiss => last_tick[s] < tick

VictimLeast == InMiss => LeastRecent(victim)

ResidentFilled ==
  \A t \in Tensors : resident[t] # NoSlot => has_payload[resident[t]]

LruInv == TicksBehind /\ VictimLeast /\ ResidentFilled

lruState == <<resident, has_payload, last_tick, tick, pc, victim>>

LEMMA LruStutter ==
  ASSUME LruInv, UNCHANGED lruState
  PROVE  LruInv'
BY DEF LruInv, TicksBehind, VictimLeast, ResidentFilled, InMiss, LeastRecent,
       Older, lruState

LEMMA LruInit == Init => LruInv
BY RingAssumption
DEF Init, LruInv, TicksBehind, VictimLeast, ResidentFilled, InMiss

LEMMA LruStep == TypeOK /\ LruInv /\ [Next]_vars => LruInv'
<1> SUFFICES ASSUME TypeOK, LruInv, [Next]_vars PROVE LruInv'
  OBVIOUS
<1>0. /\ tick \in Nat
      /\ last_tick \in [Slots -> Nat]
      /\ resident \in [Tensors -> Slots \cup {NoSlot}]
      /\ has_payload \in [Slots -> BOOLEAN]
      /\ victim \in Slots
      /\ \A s \in Slots : s # NoSlot
  BY RingAssumption DEF TypeOK, Slots, NoSlot
<1>1. ASSUME NEW t \in Tensors, FetchHit(t) PROVE LruInv'
  <2>1. /\ pc = "idle" /\ tick' = tick + 1
        /\ last_tick' = [last_tick EXCEPT ![resident[t]] = tick + 1]
        /\ UNCHANGED <<resident, has_payload, pc>>
    BY <1>1 DEF FetchHit, callVars
  <2>2. QED
    BY <1>0, <2>1
    DEF LruInv, TicksBehind, VictimLeast, ResidentFilled, InMiss
<1>2. ASSUME NEW t \in Tensors, NEW s \in Slots, FetchMiss(t, s)
      PROVE  LruInv'
  <2>1. /\ tick' = tick + 1 /\ victim' = s /\ LeastRecent(s)
        /\ UNCHANGED <<resident, has_payload, last_tick>>
    BY <1>2 DEF FetchMiss
  <2>2. QED
    BY <1>0, <2>1
    DEF LruInv, TicksBehind, VictimLeast, ResidentFilled, LeastRecent, Older
<1>3. CASE StallEnds
  BY <1>3 DEF StallEnds, ringVars, LruInv, TicksBehind, VictimLeast,
              ResidentFilled, InMiss, LeastRecent, Older
<1>4. CASE Evict
  <2>1. /\ pc = "evict"
        /\ resident' = [resident EXCEPT ![req] = NoSlot]
        /\ UNCHANGED <<has_payload, last_tick, tick, victim>>
    BY <1>4 DEF Evict
  <2>2. QED
    BY <1>0, <2>1
    DEF LruInv, TicksBehind, VictimLeast, ResidentFilled, InMiss,
        LeastRecent, Older
<1>5. CASE SubmitRead
  <2>1. /\ pc = "submit" /\ pc' = "idle"
        /\ has_payload' = [has_payload EXCEPT ![victim] = TRUE]
        /\ last_tick' = [last_tick EXCEPT ![victim] = tick]
        /\ resident' = [resident EXCEPT ![req] = victim]
        /\ UNCHANGED tick
    BY <1>5 DEF SubmitRead
  <2>2. QED
    BY <1>0, <2>1
    DEF LruInv, TicksBehind, VictimLeast, ResidentFilled, InMiss
<1>6. CASE FlushReturns \/ FlushCall
  BY <1>6 DEF FlushReturns, FlushCall, ringVars, LruInv, TicksBehind,
              VictimLeast, ResidentFilled, InMiss
<1>7. CASE Direct \/ Storage \/ UNCHANGED vars
  <2>1. UNCHANGED lruState
    BY <1>7 DEF Direct, RawRead, RawSubmit, RawWait, RawWaitAll, Storage,
                ringVars, callVars, vars, lruState
  <2>2. QED
    BY <2>1, LruStutter
<1>8. QED
  BY <1>1, <1>2, <1>3, <1>4, <1>5, <1>6, <1>7 DEF Next, Fetch, Resume

LEMMA LruInvariant == Spec => []LruInv
BY TypeCorrect, LruInit, LruStep, PTL DEF Spec
-----------------------------------------------------------------------------
(* The abstract ring's view.                                               *)
OlderPairs == {p \in Slots \X Slots : Older(p[1], p[2])}

LoadOf(s) ==
  IF ~has_payload[s] THEN [state |-> "empty"]
  ELSE IF Completed(s, version[s])
       THEN [state |-> "loaded", item |-> content[s]]
       ELSE [state |-> "loading", item |-> slot_tag[s]]

Loads == [s \in Slots |-> LoadOf(s)]

(* A slot that is given the latest tick moves to the end of the order.     *)
LEMMA LatestMovesToEnd ==
  ASSUME NEW s \in Slots, NEW n \in Nat,
         last_tick \in [Slots -> Nat],
         \A o \in Slots : last_tick[o] < n,
         last_tick' = [last_tick EXCEPT ![s] = n]
  PROVE  OlderPairs' = Slot!MovedToEnd(s)
<1>1. ASSUME NEW a \in Slots, NEW b \in Slots
      PROVE  Older(a, b)' <=>
               \/ b = s /\ a # s
               \/ Older(a, b) /\ a # s /\ b # s
  <2>1. /\ last_tick'[s] = n
        /\ \A o \in Slots : o # s => last_tick'[o] = last_tick[o]
        /\ \A o \in Slots : last_tick[o] \in Nat
        /\ s \in Int /\ a \in Int /\ b \in Int
    BY DEF Slots
  <2>2. CASE a = s
    <3>1. CASE b = s
      BY <2>1, <2>2, <3>1 DEF Older
    <3>2. CASE b # s
      BY <2>1, <2>2, <3>2 DEF Older
    <3>3. QED
      BY <3>1, <3>2
  <2>3. CASE a # s /\ b = s
    BY <2>1, <2>3 DEF Older
  <2>4. CASE a # s /\ b # s
    BY <2>1, <2>4 DEF Older
  <2>5. QED
    BY <2>2, <2>3, <2>4
<1>2. OlderPairs' = {p \in Slots \X Slots :
                       \/ p[2] = s /\ p[1] # s
                       \/ Older(p[1], p[2]) /\ p[1] # s /\ p[2] # s}
  BY <1>1 DEF OlderPairs
<1>3. QED
  BY <1>2 DEF Slot!MovedToEnd

(* A step that keeps the order and what is seen of the slots.              *)
LEMMA OrderKept ==
  ASSUME UNCHANGED last_tick
  PROVE  OlderPairs' = OlderPairs
BY DEF OlderPairs, Older

LEMMA LoadsKept ==
  ASSUME UNCHANGED <<has_payload, version, fence, slot_tag, content>>
  PROVE  Loads' = Loads
BY DEF Loads, LoadOf, Completed

(* FenceMeansArrived after a step that keeps IInv.                         *)
LEMMA ArrivedWhenCompletedNext ==
  ASSUME IInv', NEW s \in Slots, has_payload'[s], Completed(s, version[s])'
  PROVE  content'[s] = slot_tag'[s]
<1>1. FenceMeansArrived'
  BY ArrivedWhenCompleted, PTL
<1>2. QED
  BY <1>1 DEF FenceMeansArrived

LEMMA PromiseInit == Init => Slot!Start
<1> SUFFICES ASSUME Init PROVE Slot!Start
  OBVIOUS
<1>1. Loads = [s \in Slots |-> Slot!Empty]
  BY DEF Init, Loads, LoadOf, Slot!Empty
<1>2. \A a, b \in Slots : Older(a, b) <=> a < b
  BY DEF Init, Older
<1>3. OlderPairs = {p \in Slots \X Slots : p[1] < p[2]}
  BY <1>2 DEF OlderPairs
<1>4. Slots \subseteq Int
  BY DEF Slots
<1>5. Slot!TotalOrder(OlderPairs)
  BY <1>3, <1>4 DEF Slot!TotalOrder
<1>6. QED
  BY <1>1, <1>5 DEF Slot!Start, Loads, LoadOf, OlderPairs

(* The steps of the ring that change what the abstract ring sees.          *)
LEMMA PromiseHit ==
  ASSUME TypeOK, LruInv, NEW t \in Tensors, FetchHit(t)
  PROVE  Slot!Reuse(resident[t])
<1> DEFINE s == resident[t]
<1>1. /\ s \in Slots /\ has_payload[s]
      /\ tick + 1 \in Nat
      /\ last_tick \in [Slots -> Nat]
      /\ \A o \in Slots : last_tick[o] < tick + 1
      /\ last_tick' = [last_tick EXCEPT ![s] = tick + 1]
  BY DEF FetchHit, TypeOK, LruInv, ResidentFilled, TicksBehind
<1>2. OlderPairs' = Slot!MovedToEnd(s)
  BY <1>1, LatestMovesToEnd
<1>3. Loads' = Loads
  BY LoadsKept DEF FetchHit, dsVars, runtimeVars
<1>4. Loads[s] # Slot!Empty
  <2>1. Loads[s].state # "empty"
    BY <1>1 DEF Loads, LoadOf
  <2>2. QED
    BY <2>1 DEF Slot!Empty
<1>5. QED
  BY <1>2, <1>3, <1>4 DEF Slot!Reuse, Loads, LoadOf, OlderPairs

LEMMA PromiseRefill ==
  ASSUME IInv, LruInv, IInv', SubmitRead
  PROVE  Slot!Replace(victim, req)
<1>1. /\ pc = "submit"
      /\ victim \in Slots
      /\ version' = [version EXCEPT ![victim] = version[victim] + 1]
      /\ has_payload' = [has_payload EXCEPT ![victim] = TRUE]
      /\ slot_tag' = [slot_tag EXCEPT ![victim] = req]
      /\ last_tick' = [last_tick EXCEPT ![victim] = tick]
      /\ UNCHANGED <<fence, content, victim>>
  BY DEF SubmitRead, SignalAndSubmit, IInv, TypeOK
<1>2. /\ tick \in Nat
      /\ last_tick \in [Slots -> Nat]
      /\ version \in [Slots -> Nat]
      /\ has_payload \in [Slots -> BOOLEAN]
      /\ slot_tag \in [Slots -> Tensors \cup {Zeroed}]
      /\ fence[victim] \in Nat
      /\ fence[victim] <= version[victim]
  BY <1>1, RingAssumption DEF IInv, TypeOK, DSTypeOK, VersionsAhead
<1>3. Completed(victim, version[victim])
  BY <1>1 DEF IInv, VictimQuiet
<1>4. OlderPairs' = Slot!MovedToEnd(victim)
  <2>1. \A o \in Slots : last_tick[o] < tick
    BY <1>1 DEF LruInv, TicksBehind, InMiss
  <2>2. QED
    BY <1>1, <1>2, <2>1, LatestMovesToEnd
<1>5. \A o \in Slots \ {victim} : <<victim, o>> \in OlderPairs
  BY <1>1 DEF LruInv, VictimLeast, InMiss, LeastRecent, OlderPairs
<1>6. Loads[victim].state # "loading"
  BY <1>1, <1>3 DEF Loads, LoadOf
<1>7. Loads' = [Loads EXCEPT ![victim] = Slot!Loading(req)]
  <2>1. LoadOf(victim)' = Slot!Loading(req)
    BY <1>1, <1>2 DEF LoadOf, Completed, Slot!Loading
  <2>2. ASSUME NEW o \in Slots, o # victim PROVE LoadOf(o)' = LoadOf(o)
    BY <1>1, <1>2, <2>2 DEF LoadOf, Completed
  <2>3. QED
    BY <1>1, <2>1, <2>2 DEF Loads
<1>8. QED
  BY <1>4, <1>5, <1>6, <1>7 DEF Slot!Replace, Loads, LoadOf, OlderPairs

LEMMA PromiseArrive ==
  ASSUME IInv, IInv', NEW g \in signals, SignalFires(g), UNCHANGED ringVars
  PROVE  Slot!Arrive(g.fence)
<1> DEFINE s == g.fence
<1>1. /\ fence' = [fence EXCEPT ![s] = g.value]
      /\ UNCHANGED <<last_tick, has_payload, version, slot_tag, content>>
  BY DEF SignalFires, ringVars
<1>2. /\ s \in Slots
      /\ g.value = version[s]
      /\ fence[s] < version[s]
      /\ fence \in [Fences -> Nat]
      /\ Slots \subseteq Fences
      /\ version \in [Slots -> Nat]
      /\ has_payload \in [Slots -> BOOLEAN]
  BY RingAssumption DEF IInv, SignalsCurrent, TypeOK, DSTypeOK
<1>3. has_payload[s]
  BY <1>2, RingAssumption DEF IInv, VersionsAhead, TypeOK, DSTypeOK
<1>4. /\ ~Completed(s, version[s])
      /\ Completed(s, version[s])'
  BY <1>1, <1>2 DEF Completed
<1>5. content[s] = slot_tag[s]
  BY <1>1, <1>2, <1>3, <1>4, ArrivedWhenCompletedNext DEF Completed
<1>6. /\ LoadOf(s) = Slot!Loading(slot_tag[s])
      /\ LoadOf(s)' = Slot!Loaded(slot_tag[s])
  BY <1>1, <1>2, <1>3, <1>4, <1>5
  DEF LoadOf, Completed, Slot!Loading, Slot!Loaded
<1>7. ASSUME NEW o \in Slots, o # s PROVE LoadOf(o)' = LoadOf(o)
  BY <1>1, <1>2, <1>7 DEF LoadOf, Completed
<1>8. /\ Loads[s].state = "loading" /\ Loads[s].item = slot_tag[s]
      /\ Loads' = [Loads EXCEPT ![s] = Slot!Loaded(Loads[s].item)]
  BY <1>2, <1>6, <1>7 DEF Loads, Slot!Loading
<1>9. OlderPairs' = OlderPairs
  BY <1>1, OrderKept
<1>10. QED
  BY <1>8, <1>9 DEF Slot!Arrive, Loads, LoadOf, OlderPairs

(* A read completes in a slot the abstract ring sees as loading.           *)
LEMMA PromiseUnseen ==
  ASSUME IInv, NEW r \in reads, ReadCompletes(r), UNCHANGED ringVars
  PROVE  UNCHANGED <<OlderPairs, Loads>>
<1>1. /\ r.id < sent
      /\ content' = [content EXCEPT ![r.dst] = r.src]
      /\ UNCHANGED <<fence, last_tick, has_payload, version, slot_tag>>
  BY DEF ReadCompletes, ringVars
<1>2. ASSUME NEW o \in Slots PROVE LoadOf(o)' = LoadOf(o)
  <2>1. CASE r.dst = o
    <3>1. PICK g \in signals : g.fence = o
      BY <1>1, <2>1 DEF IInv, SentReadsAnnounced
    <3>2. fence[o] < version[o]
      BY <3>1 DEF IInv, SignalsCurrent
    <3>3. fence[o] \in Nat /\ version[o] \in Nat
      BY RingAssumption DEF IInv, TypeOK, DSTypeOK
    <3>4. QED
      BY <1>1, <3>2, <3>3 DEF LoadOf, Completed
  <2>2. CASE r.dst # o
    <3>1. content'[o] = content[o]
      BY <1>1, <2>2, RingAssumption DEF IInv, TypeOK, DSTypeOK
    <3>2. QED
      BY <1>1, <3>1 DEF LoadOf, Completed
  <2>3. QED
    BY <2>1, <2>2
<1>3. QED
  BY <1>1, <1>2, OrderKept DEF Loads

LEMMA PromiseStep ==
  ASSUME IInv, LruInv, IInv', [Next]_vars
  PROVE  [Slot!Step]_(Slot!ringState)
<1>1. ASSUME UNCHANGED <<OlderPairs, Loads>>
      PROVE  UNCHANGED Slot!ringState
  BY <1>1 DEF Slot!ringState, OlderPairs, Loads, LoadOf
<1>2. ASSUME UNCHANGED <<last_tick, has_payload, version, fence, slot_tag,
                         content>>
      PROVE  UNCHANGED Slot!ringState
  BY <1>1, <1>2, OrderKept, LoadsKept
<1>3. ASSUME NEW t \in Tensors, FetchHit(t) PROVE Slot!Step
  <2>1. resident[t] \in Slots
    BY <1>3 DEF FetchHit, IInv, TypeOK
  <2>2. QED
    BY <1>3, <2>1, PromiseHit DEF IInv, Slot!Step
<1>4. ASSUME NEW t \in Tensors, NEW s \in Slots, FetchMiss(t, s)
      PROVE  UNCHANGED Slot!ringState
  BY <1>2, <1>4 DEF FetchMiss, dsVars, runtimeVars
<1>5. CASE StallEnds \/ FlushReturns \/ FlushCall
  BY <1>2, <1>5
  DEF StallEnds, FlushReturns, FlushCall, dsVars, runtimeVars, ringVars
<1>6. CASE Evict
  BY <1>2, <1>6 DEF Evict, EnqueueRead, dsVars, runtimeVars
<1>7. CASE SubmitRead
  <2>1. PICK s \in Slots, t \in Tensors : s = victim /\ t = req
    BY DEF IInv, TypeOK
  <2>2. Slot!Replace(s, t)
    BY <1>7, <2>1, PromiseRefill DEF Slot!Replace, Slot!MovedToEnd
  <2>3. QED
    BY <2>2 DEF Slot!Step
<1>8. CASE Direct
  BY <1>2, <1>8 DEF Direct, RawRead, RawSubmit, RawWait, RawWaitAll,
                    EnqueueRead, Submit, WaitForRequest, WaitAll,
                    runtimeVars, ringVars
<1>9. CASE Storage
  <2>1. ASSUME NEW m \in marks, StatusWritten(m)
        PROVE  UNCHANGED Slot!ringState
    BY <1>2, <1>9, <2>1 DEF Storage, StatusWritten, ringVars
  <2>2. ASSUME NEW g \in signals, SignalFires(g) PROVE Slot!Step
    <3>1. g.fence \in Slots
      BY DEF IInv, SignalsCurrent
    <3>2. QED
      BY <1>9, <2>2, <3>1, PromiseArrive DEF Storage, Slot!Step
  <2>3. QED
    BY <1>1, <1>9, <2>1, <2>2, PromiseUnseen DEF Storage, Runtime
<1>10. CASE UNCHANGED vars
  BY <1>2, <1>10 DEF vars, dsVars, runtimeVars, ringVars
<1>11. QED
  BY <1>3, <1>4, <1>5, <1>6, <1>7, <1>8, <1>9, <1>10 DEF Next, Fetch, Resume

(* StreamingMoE keeps the ring's promise, for every number of slots:       *)
(* only the least recently fetched slot with nothing in flight is given    *)
(* another tensor, and what arrives in a slot is what it was given.        *)
THEOREM RingKeepsPromise == Spec => KeepsSlotPromise
<1>1. Init => Slot!Start
  BY PromiseInit
<1>2. IInv /\ LruInv /\ IInv' /\ [Next]_vars => [Slot!Step]_(Slot!ringState)
  BY PromiseStep
<1>3. QED
  BY <1>1, <1>2, InductiveInvariant, LruInvariant, PTL
  DEF Spec, KeepsSlotPromise, Slot!Promise
-----------------------------------------------------------------------------
(* The statistics.  The slots that count are all of them but the victim,   *)
(* from the moment it is given up until it is given its next tensor; what  *)
(* the slots hold is the sum of their sizes, which never wraps.            *)

Counted == {s \in Slots : ~(pc = "submit" /\ s = victim)}

(* A number of bytes as many as the slots can hold each.                   *)
Fits(n) == n \in Nat /\ SlotCount * n < Wrap

StatsInv ==
  /\ stats.hits + stats.misses = tick
  /\ \A s \in Slots : Fits(slot_bytes[s])
  /\ pc = "submit" => req \notin Oversized
  /\ ~threw => \E C, g : /\ C = Counted /\ g = slot_bytes
                         /\ stats.resident = SumOf(g, C)

LEMMA StatsStutter ==
  ASSUME StatsInv, UNCHANGED <<stats, tick, slot_bytes, req, victim, threw>>,
         pc # "submit", pc' # "submit"
  PROVE  StatsInv'
BY DEF StatsInv, Counted

LEMMA SlotsFinite == IsFiniteSet(Slots) /\ Cardinality(Slots) = SlotCount
BY RingAssumption, FS_Interval DEF Slots

LEMMA StatsInit == Init => StatsInv
<1> SUFFICES ASSUME Init PROVE StatsInv
  OBVIOUS
<1>1. \A s \in Slots : slot_bytes[s] = 0
  BY DEF Init
<1>2. Fits(0)
  BY RingAssumption DEF Fits
<1>3. PICK g : g = slot_bytes
  OBVIOUS
<1>4. \A s \in Slots : g[s] \in Nat /\ 1 * g[s] <= 0
  BY <1>1, <1>3
<1>5. SumOf(g, Slots) \in Nat /\ 1 * SumOf(g, Slots) <= Cardinality(Slots) * 0
  BY <1>4, SlotsFinite, SumBound
<1>6. SumOf(g, Slots) = 0
  BY <1>5, SlotsFinite, RingAssumption
<1>7. Counted = Slots /\ stats.resident = 0 /\ stats.hits + stats.misses = tick /\ pc = "idle"
  BY DEF Init, Counted
<1>8. QED
  BY <1>1, <1>2, <1>3, <1>6, <1>7 DEF StatsInv

(* A sum of sizes that fit is one a counter holds.                         *)
LEMMA NeverWraps ==
  ASSUME NEW g, \A s \in Slots : Fits(g[s])
  PROVE  SumOf(g, Slots) \in 0..(Wrap - 1)
<1>1. Wrap - 1 \in Nat /\ SlotCount \in Nat \ {0}
  BY RingAssumption
<1>2. \A s \in Slots : g[s] \in Nat /\ SlotCount * g[s] <= Wrap - 1
  <2> SUFFICES ASSUME NEW s \in Slots PROVE g[s] \in Nat /\ SlotCount * g[s] <= Wrap - 1
    OBVIOUS
  <2>1. g[s] \in Nat /\ SlotCount * g[s] < Wrap
    BY DEF Fits
  <2>2. PICK n \in Int : n = SlotCount * g[s]
    BY <1>1, <2>1
  <2>3. n <= Wrap - 1
    BY <2>1, <2>2, RingAssumption
  <2>4. QED
    BY <2>1, <2>2, <2>3
<1>3. PICK total : total = SumOf(g, Slots)
  OBVIOUS
<1>4. total \in Nat /\ SlotCount * total <= SlotCount * (Wrap - 1)
  BY <1>1, <1>2, <1>3, SlotsFinite, SumBound
<1>5. total <= Wrap - 1
  <2>1. ASSUME total > Wrap - 1 PROVE FALSE
    <3>1. PICK m \in Nat : m = Wrap - 1
      BY <1>1
    <3>2. PICK d \in Nat : total = m + d /\ d > 0
      <4>1. total - m \in Nat /\ total - m > 0 /\ total = m + (total - m)
        BY <1>4, <2>1, <3>1
      <4>2. QED
        BY <4>1
    <3>3. SlotCount * (m + d) = SlotCount * m + SlotCount * d /\ SlotCount * d > 0
          /\ SlotCount * m \in Nat /\ SlotCount * d \in Nat
      BY <1>1, <3>2
    <3>4. QED
      BY <1>4, <3>1, <3>2, <3>3
  <2>2. QED
    BY <1>1, <1>4, <2>1
<1>6. QED
  BY <1>1, <1>3, <1>4, <1>5

LEMMA ModuloKeeps ==
  ASSUME NEW n \in Nat \ {0}, NEW a \in 0..(n - 1)
  PROVE  a % n = a
OBVIOUS

(* The victim is given up: what the others hold is left.                   *)
LEMMA StatsEvict ==
  ASSUME TypeOK, StatsInv, Evict
  PROVE  StatsInv'
<1>1. /\ pc = "evict" /\ victim \in Slots /\ threw \in BOOLEAN
      /\ stats'.resident = Minus(stats.resident, slot_bytes[victim])
      /\ stats'.hits = stats.hits /\ stats'.misses = stats.misses
      /\ UNCHANGED <<tick, slot_bytes, req, victim>>
  BY DEF Evict, TypeOK, Stats
<1>2. CASE req \in Oversized
  <2>1. threw' /\ pc' = "idle"
    BY <1>2 DEF Evict
  <2>2. QED
    BY <1>1, <2>1 DEF StatsInv
<1>3. CASE req \notin Oversized
  <2>1. threw' = threw /\ pc' = "submit"
    BY <1>3 DEF Evict
  <2>2. ASSUME ~threw
        PROVE  \E C, g : C = Counted' /\ g = slot_bytes' /\ stats'.resident = SumOf(g, C)
    <3>1. PICK C, g : C = Counted /\ g = slot_bytes /\ stats.resident = SumOf(g, C)
      BY <2>2 DEF StatsInv
    <3>2. C = Slots
      BY <1>1, <3>1 DEF Counted
    <3>3. PICK v : v = victim /\ v \in Slots
      BY <1>1
    <3>4. \A s \in Slots : Fits(g[s]) /\ g[s] \in Nat
      BY <3>1 DEF StatsInv, Fits
    <3>5. \A s \in Slots : g[s] \in Int
      BY <3>4
    <3>6. SumOf(g, Slots) = SumOf(g, Slots \ {v}) + g[v]
      BY <3>3, <3>5, SlotsFinite, SumAdds
    <3>7. SumOf(g, Slots) \in 0..(Wrap - 1)
      BY <3>4, NeverWraps
    <3>8. SumOf(g, Slots \ {v}) \in Nat
      <4>1. IsFiniteSet(Slots \ {v})
        BY SlotsFinite, FS_Subset
      <4>2. \A s \in Slots \ {v} : g[s] \in Nat /\ 0 * g[s] <= 0
        BY <3>4
      <4>3. PICK T : T = Slots \ {v}
        OBVIOUS
      <4>4. SumOf(g, T) \in Nat
        BY <4>1, <4>2, <4>3, SumBound
      <4>5. QED
        BY <4>3, <4>4
    <3>9. stats'.resident = SumOf(g, Slots \ {v})
      <4>1. stats'.resident = (stats.resident - g[v]) % Wrap
        BY <1>1, <3>1, <3>3 DEF Minus
      <4>2. PICK a \in Nat, b \in Nat : a = SumOf(g, Slots \ {v}) /\ b = g[v]
        BY <3>3, <3>4, <3>8
      <4>3. stats.resident = a + b /\ a + b \in 0..(Wrap - 1)
        BY <3>1, <3>2, <3>6, <3>7, <4>2
      <4>4. a \in 0..(Wrap - 1) /\ (a + b) - b = a
        BY <4>3, RingAssumption
      <4>5. a % Wrap = a
        BY <4>4, ModuloKeeps, RingAssumption
      <4>6. QED
        BY <4>1, <4>2, <4>3, <4>4, <4>5
    <3>10. Counted' = Slots \ {v}
      BY <1>1, <2>1, <3>3 DEF Counted
    <3>11. QED
      BY <1>1, <3>1, <3>9, <3>10
  <2>3. QED
    BY <1>1, <1>3, <2>1, <2>2 DEF StatsInv
<1>4. QED
  BY <1>2, <1>3

(* The victim has its next tensor: its size joins those of the others.     *)
LEMMA StatsRefill ==
  ASSUME TypeOK, StatsInv, SubmitRead
  PROVE  StatsInv'
<1>1. /\ pc = "submit" /\ pc' = "idle"
      /\ victim \in Slots /\ req \in Tensors \ Oversized
      /\ stats'.resident = (stats.resident + Bytes[req]) % Wrap
      /\ stats'.hits = stats.hits /\ stats'.misses = stats.misses
      /\ UNCHANGED <<tick, req, victim, threw>>
  BY DEF SubmitRead, TypeOK, Stats, StatsInv
<1>2. slot_bytes' = [slot_bytes EXCEPT ![victim] = Bytes[req]]
  BY DEF SubmitRead, NewBytes
<1>3. /\ slot_bytes'[victim] = Bytes[req]
      /\ \A s \in Slots : s # victim => slot_bytes'[s] = slot_bytes[s]
  BY <1>1, <1>2 DEF TypeOK
<1>4. Fits(Bytes[req])
  BY <1>1, RingAssumption, CountersWideEnough DEF Fits
<1>5. \A s \in Slots : Fits(slot_bytes'[s])
  BY <1>3, <1>4 DEF StatsInv
<1>6. ASSUME ~threw
      PROVE  \E C, g : C = Counted' /\ g = slot_bytes' /\ stats'.resident = SumOf(g, C)
  <2>1. PICK C, g : C = Counted /\ g = slot_bytes /\ stats.resident = SumOf(g, C)
    BY <1>6 DEF StatsInv
  <2>2. PICK v, k : v = victim /\ v \in Slots /\ k = slot_bytes'
    BY <1>1
  <2>3. C = Slots \ {v}
    BY <1>1, <2>1, <2>2 DEF Counted
  <2>4. IsFiniteSet(C)
    BY <2>3, SlotsFinite, FS_Subset
  <2>5. \A s \in C : g[s] = k[s]
    BY <1>3, <2>1, <2>2, <2>3
  <2>6. SumOf(g, C) = SumOf(k, C)
    BY <2>4, <2>5, SumSame
  <2>7. \A s \in Slots : Fits(k[s]) /\ k[s] \in Int
    BY <1>5, <2>2 DEF Fits
  <2>8. SumOf(k, Slots) = SumOf(k, Slots \ {v}) + k[v]
    BY <2>2, <2>7, SlotsFinite, SumAdds
  <2>9. SumOf(k, Slots) \in 0..(Wrap - 1)
    BY <2>7, NeverWraps
  <2>10. SumOf(k, Slots) % Wrap = SumOf(k, Slots)
    BY <2>9, ModuloKeeps, RingAssumption
  <2>11. stats'.resident = SumOf(k, Slots)
    BY <1>1, <1>3, <2>1, <2>2, <2>3, <2>6, <2>8, <2>10
  <2>12. Counted' = Slots
    BY <1>1 DEF Counted
  <2>13. QED
    BY <2>2, <2>11, <2>12
<1>7. QED
  BY <1>1, <1>5, <1>6 DEF StatsInv

LEMMA StatsStep == TypeOK /\ StatsInv /\ [Next]_vars => StatsInv'
<1> SUFFICES ASSUME TypeOK, StatsInv, [Next]_vars PROVE StatsInv'
  OBVIOUS
<1>1. /\ stats.hits \in Nat /\ stats.misses \in Nat /\ tick \in Nat
      /\ stats.hits + stats.misses = tick
  BY DEF TypeOK, Stats, StatsInv
<1>2. ASSUME NEW t \in Tensors, FetchHit(t) PROVE StatsInv'
  <2>1. /\ pc = "idle" /\ pc' = "idle" /\ tick' = tick + 1
        /\ stats'.hits = stats.hits + 1
        /\ stats'.misses = stats.misses /\ stats'.resident = stats.resident
        /\ UNCHANGED <<slot_bytes, threw, req, victim>>
    BY <1>2 DEF FetchHit, callVars, TypeOK, Stats
  <2>2. QED
    BY <1>1, <2>1 DEF StatsInv, Counted
<1>3. ASSUME NEW t \in Tensors, NEW s \in Slots, FetchMiss(t, s) PROVE StatsInv'
  <2>1. /\ pc = "idle" /\ pc' \in {"stalled", "evict"} /\ tick' = tick + 1
        /\ stats'.misses = stats.misses + 1
        /\ stats'.hits = stats.hits /\ stats'.resident = stats.resident
        /\ UNCHANGED <<slot_bytes, threw>>
    BY <1>3 DEF FetchMiss, TypeOK, Stats
  <2>2. QED
    BY <1>1, <2>1 DEF StatsInv, Counted
<1>4. CASE StallEnds \/ FlushReturns \/ FlushCall \/ Direct
  <2>1. /\ pc # "submit" /\ pc' # "submit"
        /\ UNCHANGED <<stats, tick, slot_bytes, req, victim, threw>>
    BY <1>4 DEF StallEnds, FlushReturns, FlushCall, Direct, RawRead, RawSubmit, RawWait, RawWaitAll,
                ringVars, callVars
  <2>2. QED
    BY <2>1, StatsStutter
<1>5. CASE Storage \/ UNCHANGED vars
  BY <1>5 DEF Storage, vars, ringVars, callVars, StatsInv, Counted
<1>6. QED
  BY <1>2, <1>3, <1>4, <1>5, StatsEvict, StatsRefill DEF Next, Fetch, Resume

(* The sum of the property, and the one the lemmas are about.              *)
LEMMA ResidentBytes == StatsInv => StatsAddUp
<1> SUFFICES ASSUME StatsInv, ~threw
             PROVE  stats.resident = MapThenSumSet(LAMBDA s : slot_bytes[s], Counted)
  BY DEF StatsInv, StatsAddUp, Counted
<1>1. PICK C, g : C = Counted /\ g = slot_bytes /\ stats.resident = SumOf(g, C)
  BY DEF StatsInv
<1>2. QED
  BY <1>1 DEF SumOf

(* The statistics add up, for any number of slots and any sizes: every     *)
(* fetch was a hit or a miss, and as long as none threw bytes_resident is  *)
(* what the slots hold, without the one being refilled, and never wrapped  *)
(* (dxstream.cpp:125-198).                                                 *)
THEOREM StatisticsAddUp == Spec => []StatsAddUp
BY TypeCorrect, StatsInit, StatsStep, ResidentBytes, PTL DEF Spec

-----------------------------------------------------------------------------
(* Waits: a status write, and an entry that is complete, are of requests   *)
(* with a number not below that of the entry, so an entry speaks for the   *)
(* request of its own number before it does for any other.                 *)
DoneInv ==
  /\ statuses_issued <= total_submitted
  /\ \A id \in pending \cup reported : id \in Nat /\ id < total_submitted
  /\ \A r \in reads : r.id < total_submitted
  /\ \A m \in marks : m.slot < m.after /\ m.after <= total_submitted
  /\ \A c \in complete : c < total_submitted
  /\ \A r \in reads : r.id \in complete \cup reported => r.id >= StatusCapacity

LEMMA EntryOf ==
  ASSUME NEW id \in Nat
  PROVE  /\ StatusSlot(id) \in 0 .. (StatusCapacity - 1)
         /\ StatusSlot(id) <= id
         /\ id < StatusCapacity => StatusSlot(id) = id
<1>1. StatusCapacity \in Nat \ {0}
  BY DirectStorageAssumption
<1>2. id % StatusCapacity \in 0 .. (StatusCapacity - 1)
  BY <1>1
<1>3. id % StatusCapacity <= id
  BY <1>1
<1>4. id < StatusCapacity => id % StatusCapacity = id
  BY <1>1
<1>5. QED
  BY <1>2, <1>3, <1>4 DEF StatusSlot

LEMMA DoneStarts == Init => DoneInv
BY DEF Init, DSInit, DoneInv

LEMMA DoneEnqueue ==
  ASSUME TypeOK, DoneInv, NEW b \in Buffers, NEW t \in Tensors, EnqueueRead(b, t)
  PROVE  DoneInv'
<1> USE DEF TypeOK, DSTypeOK, Read
<1>1. PICK n \in Nat : n = total_submitted
  OBVIOUS
<1>2. /\ total_submitted' = n + 1 /\ pending' = pending \cup {n}
      /\ reads' = reads \cup {[id |-> n, dst |-> b, src |-> t]}
      /\ UNCHANGED <<statuses_issued, marks, complete, reported>>
  BY <1>1 DEF EnqueueRead
<1>3. statuses_issued' <= total_submitted'
  BY <1>1, <1>2 DEF DoneInv
<1>4. \A id \in pending' \cup reported' : id \in Nat /\ id < total_submitted'
  BY <1>1, <1>2 DEF DoneInv
<1>5. \A r \in reads' : r.id \in Nat /\ r.id < total_submitted'
  BY <1>1, <1>2 DEF DoneInv
<1>6. \A m \in marks' : m.slot < m.after /\ m.after <= total_submitted'
  BY <1>1, <1>2 DEF DoneInv, Mark
<1>7. \A c \in complete' : c < total_submitted'
  BY <1>1, <1>2 DEF DoneInv
<1>8. n \notin complete \cup reported
  BY <1>1, DirectStorageAssumption DEF DoneInv
<1>9. \A r \in reads' : r.id \in complete' \cup reported' => r.id >= StatusCapacity
  BY <1>1, <1>2, <1>8 DEF DoneInv
<1>10. QED
  BY <1>3, <1>4, <1>5, <1>6, <1>7, <1>9 DEF DoneInv

LEMMA DoneSignal ==
  ASSUME TypeOK, DoneInv, NEW s \in Slots, NEW v \in Nat, SignalAndSubmit(s, v)
  PROVE  DoneInv'
<1> USE DEF TypeOK, DSTypeOK
<1>1. /\ UNCHANGED <<total_submitted, pending, reads, reported>>
      /\ statuses_issued' = total_submitted /\ complete' \subseteq complete
      /\ marks' = marks \cup {MarkFor(id) : id \in Untracked}
  BY DEF SignalAndSubmit
<1>2. ASSUME NEW id \in Untracked
      PROVE  MarkFor(id).slot < MarkFor(id).after /\ MarkFor(id).after = total_submitted
  <2>1. id \in Nat /\ id < total_submitted
    BY DEF Untracked
  <2>2. QED
    BY <2>1, EntryOf DEF MarkFor
<1>3. \A m \in marks' : m.slot < m.after /\ m.after <= total_submitted'
  BY <1>1, <1>2 DEF DoneInv
<1>4. statuses_issued' <= total_submitted' /\ \A c \in complete' : c < total_submitted'
  BY <1>1 DEF DoneInv
<1>5. \A r \in reads' : r.id < total_submitted' /\ (r.id \in complete' \cup reported' => r.id >= StatusCapacity)
  BY <1>1 DEF DoneInv
<1>6. \A id \in pending' \cup reported' : id \in Nat /\ id < total_submitted'
  BY <1>1 DEF DoneInv
<1>7. QED
  BY <1>3, <1>4, <1>5, <1>6 DEF DoneInv

LEMMA DoneRuntime ==
  ASSUME TypeOK, DoneInv, Runtime
  PROVE  DoneInv'
<1> USE DEF TypeOK, DSTypeOK
<1>1. ASSUME NEW r \in reads, ReadCompletes(r)
      PROVE  DoneInv'
  BY <1>1 DEF ReadCompletes, contextVars, DoneInv
<1>2. ASSUME NEW m \in marks, StatusWritten(m)
      PROVE  DoneInv'
  <2>1. /\ marks' \subseteq marks /\ complete' = complete \cup {m.slot} /\ reads' = reads
        /\ UNCHANGED <<total_submitted, statuses_issued, pending, reported>>
    BY <1>2 DEF StatusWritten, contextVars
  <2>2. m.slot < m.after /\ m.after <= total_submitted /\ m.slot \in Int /\ m.after \in Int
    BY DEF DoneInv, Mark
  <2>3. \A r \in reads : r.id >= m.after /\ r.id \in Nat
    BY <1>2 DEF StatusWritten, NothingBefore, Read
  <2>4. \A r \in reads : r.id # m.slot
    BY <2>2, <2>3
  <2>5. \A c \in complete' : c < total_submitted'
    BY <2>1, <2>2 DEF DoneInv
  <2>6. QED
    BY <2>1, <2>4, <2>5 DEF DoneInv
<1>3. ASSUME NEW s \in signals, SignalFires(s)
      PROVE  DoneInv'
  BY <1>3 DEF SignalFires, contextVars, DoneInv
<1>4. QED
  BY <1>1, <1>2, <1>3 DEF Runtime

(* What a wait reports had its entry complete.                             *)
LEMMA DoneWaits ==
  ASSUME TypeOK, DoneInv, UNCHANGED <<total_submitted, statuses_issued, runtimeVars>>,
         pending' \subseteq pending, reported' \subseteq pending,
         \A id \in reported' : StatusSlot(id) \in complete
  PROVE  DoneInv'
<1> USE DEF TypeOK, DSTypeOK, Read
<1>1. UNCHANGED <<reads, marks, complete>>
  BY DEF runtimeVars
<1>2. ASSUME NEW r \in reads, r.id \in reported'
      PROVE  r.id >= StatusCapacity
  <2>1. CASE r.id < StatusCapacity
    <3>1. r.id \in Nat
      OBVIOUS
    <3>2. r.id \in complete
      BY <1>2, <2>1, <3>1, EntryOf
    <3>3. QED
      BY <3>2 DEF DoneInv
  <2>2. QED
    BY <2>1, DirectStorageAssumption
<1>3. QED
  BY <1>1, <1>2 DEF DoneInv

LEMMA DoneStep == TypeOK /\ DoneInv /\ [Next]_vars => DoneInv'
<1> SUFFICES ASSUME TypeOK, DoneInv, [Next]_vars PROVE DoneInv'
  OBVIOUS
<1>1. CASE UNCHANGED dsVars
  BY <1>1 DEF dsVars, contextVars, runtimeVars, DoneInv
<1>2. CASE Fetch \/ FlushCall \/ StallEnds \/ FlushReturns
  BY <1>1, <1>2 DEF Fetch, FetchHit, FetchMiss, FlushCall, StallEnds, FlushReturns
<1>3. CASE Evict
  <2>1. (EnqueueRead(victim, req) /\ victim \in Buffers) \/ UNCHANGED dsVars
    BY <1>3, RingAssumption DEF Evict, TypeOK
  <2>2. QED
    BY <1>1, <2>1, DoneEnqueue DEF TypeOK
<1>4. CASE SubmitRead
  BY <1>4, DoneSignal DEF SubmitRead, NextVersion, TypeOK
<1>5. ASSUME NEW t \in Tensors, RawRead(t)
      PROVE  DoneInv'
  BY <1>5, DoneEnqueue, RingAssumption DEF RawRead
<1>6. CASE RawSubmit
  BY <1>6 DEF RawSubmit, Submit, contextVars, DoneInv
<1>7. CASE RawWait
  BY <1>7, DoneWaits DEF RawWait, WaitForRequest
<1>8. CASE RawWaitAll
  <2>1. /\ UNCHANGED <<total_submitted, statuses_issued, runtimeVars>> /\ pending' \subseteq pending
        /\ reported' \subseteq pending
    BY <1>8 DEF RawWaitAll, WaitAll
  <2>2. ASSUME NEW id \in reported'
        PROVE  StatusSlot(id) \in complete
    <3>1. PICK late : late = {i \in pending : StatusSlot(i) \notin complete} /\ \A l \in late : id < l
      BY <1>8 DEF RawWaitAll, WaitAll
    <3>2. id \in Nat
      BY <2>1 DEF TypeOK, DSTypeOK
    <3>3. id \notin late
      BY <3>1, <3>2
    <3>4. QED
      BY <2>1, <3>1, <3>3
  <2>3. QED
    BY <2>1, <2>2, DoneWaits
<1>9. CASE Storage
  BY <1>9, DoneRuntime DEF Storage
<1>10. CASE UNCHANGED vars
  BY <1>1, <1>10 DEF vars
<1>11. QED
  BY <1>2, <1>3, <1>4, <1>5, <1>6, <1>7, <1>8, <1>9, <1>10 DEF Next, Resume, Direct

(* A request a wait reported as done has been read, however large the      *)
(* status array, in whatever order the runtime works, and whatever waits   *)
(* timed out before; only one whose entry another had before may not be    *)
(* (dxio.cpp:223-292).                                                     *)
THEOREM DoneIsRead == Spec => []DoneMeansRead
<1>1. DoneInv => DoneMeansRead
  BY DEF DoneInv, DoneMeansRead
<1>2. QED
  BY <1>1, TypeCorrect, DoneStarts, DoneStep, PTL DEF Spec
=============================================================================
