----------------------------- MODULE StreamRing -----------------------------
(***************************************************************************)
(* StreamingMoE (src/dxstream/dxstream.cpp): a ring of VRAM slots filled   *)
(* on demand with expert tensors through a DirectStorageContext.  Each     *)
(* slot has a fence and a version; a read into a slot is followed by a     *)
(* signal of the slot's next version.  One thread makes all the calls.     *)
(* The same thread may use the context directly (test_dstream.cpp does).   *)
(*                                                                         *)
(* A fetch that misses is cut where the runtime can run in between: at the *)
(* wait for a busy victim, before the read is enqueued, and before it is   *)
(* submitted.  Tags stand for their FNV-1a hashes.  Left out: a tag the    *)
(* index lacks (fetch returns slot -1 and changes nothing), the wall-clock *)
(* statistics, m_lru (never used).                                         *)
(***************************************************************************)
EXTENDS DirectStorage, Integers, FiniteSets, FiniteSetsExt

CONSTANTS
  SlotCount,      (* slot_count                                            *)
  Bytes,          (* byte_size of each tensor                              *)
  Oversized,      (* tensors whose byte_size exceeds UINT32_MAX            *)
  Wrap,           (* 2^64: the counters are uint64_t                       *)
  RawBuffer,      (* the buffer of a caller that uses the context directly *)
  MaxTick,        (* bound: fetches made                                   *)
  MaxReads        (* bound: reads enqueued                                 *)

Slots == 0..(SlotCount - 1)
NoSlot == -1

ASSUME RingAssumption ==
  /\ SlotCount \in Nat \ {0}
  /\ Slots \subseteq Fences
  /\ Slots \subseteq Buffers
  /\ RawBuffer \in Buffers \ Slots
  /\ Bytes \in [Tensors -> Nat]
  /\ Oversized \subseteq Tensors
  /\ Tensors # {}
  /\ Wrap \in Nat \ {0}
  /\ MaxTick \in Nat
  /\ MaxReads \in Nat

(* Slots are numbered with 32 bits and hold tensors whose sizes have 32    *)
(* bits, so what they hold together is counted in 64.                      *)
ASSUME CountersWideEnough ==
  \A t \in Tensors \ Oversized : SlotCount * Bytes[t] < Wrap

VARIABLES
  resident,        (* m_resident: the slot a tag is found in               *)
  version,         (* m_slot_versions                                      *)
  has_payload,     (* m_slot_has_payload                                   *)
  slot_bytes,      (* m_slot_resident_bytes                                *)
  last_tick,       (* m_lru_last_tick                                      *)
  tick,            (* m_tick                                               *)
  stats,           (* m_stats                                              *)
  pc, req, victim, (* where the calling thread is, in which fetch          *)
  raw_id,          (* the id enqueue_read returned to a direct caller      *)
  slot_tag,        (* history: the tensor each slot was last filled for    *)
  threw            (* history: an enqueue_read has thrown                  *)

ringVars == <<resident, version, has_payload, slot_bytes, last_tick, tick,
              stats, slot_tag, threw>>
callVars == <<pc, req, victim, raw_id>>
vars == <<dsVars, ringVars, callVars>>

Stats == [hits : Nat, misses : Nat, evictions : Nat, stalls : Nat,
          streamed : Nat, resident : Nat]

TypeOK ==
  /\ DSTypeOK
  /\ resident \in [Tensors -> Slots \cup {NoSlot}]
  /\ version \in [Slots -> Nat]
  /\ has_payload \in [Slots -> BOOLEAN]
  /\ slot_bytes \in [Slots -> Nat]
  /\ last_tick \in [Slots -> Nat]
  /\ tick \in Nat
  /\ stats \in Stats
  /\ pc \in {"idle", "stalled", "evict", "submit", "flush"}
  /\ req \in Tensors
  /\ victim \in Slots
  /\ raw_id \in Int
  /\ slot_tag \in [Slots -> Tensors \cup {Zeroed}]
  /\ threw \in BOOLEAN

Init ==
  /\ DSInit
  /\ resident = [t \in Tensors |-> NoSlot]
  /\ version = [s \in Slots |-> 0]
  /\ has_payload = [s \in Slots |-> FALSE]
  /\ slot_bytes = [s \in Slots |-> 0]
  /\ last_tick = [s \in Slots |-> 0]
  /\ tick = 0
  /\ stats = [hits |-> 0, misses |-> 0, evictions |-> 0, stalls |-> 0,
              streamed |-> 0, resident |-> 0]
  /\ pc = "idle"
  /\ req = CHOOSE t \in Tensors : TRUE
  /\ victim = 0
  /\ raw_id = -1
  /\ slot_tag = [s \in Slots |-> Zeroed]
  /\ threw = FALSE

-----------------------------------------------------------------------------
(* uint64_t subtraction: it wraps.                                         *)
Minus(a, b) == (a - b) % Wrap

Completed(s, v) == fence[s] >= v

(* The order in which slots fall victim: least recently fetched first, the *)
(* lower index first among those never fetched.                            *)
Older(a, b) ==
  \/ last_tick[a] < last_tick[b]
  \/ last_tick[a] = last_tick[b] /\ a < b

(* Mutant: the scan stops at the first slot it looks at.                   *)
FirstSlot(s) == s = 0

(* The slot the scan of fetch ends with: strictly smallest last tick.      *)
LeastRecent(s) == \A o \in Slots \ {s} : Older(s, o)

(* Mutant: the victim's fence is not looked at.                            *)
NeverBusy(s) == FALSE

(* The victim still has an in-flight read.                                 *)
Busy(s) == has_payload[s] /\ ~Completed(s, version[s])

(* The SlotView of a hit is <<resident[t], version[resident[t]]>>.        *)
FetchHit(t) ==
  /\ pc = "idle"
  /\ tick < MaxTick
  /\ resident[t] # NoSlot
  /\ tick' = tick + 1
  /\ last_tick' = [last_tick EXCEPT ![resident[t]] = tick + 1]
  /\ stats' = [stats EXCEPT !.hits = @ + 1]
  /\ UNCHANGED <<dsVars, resident, version, has_payload, slot_bytes,
                 slot_tag, threw, callVars>>

(* A miss picks its victim, and blocks if a read into it is in flight.     *)
FetchMiss(t, s) ==
  /\ pc = "idle"
  /\ tick < MaxTick
  /\ total_submitted < MaxReads
  /\ resident[t] = NoSlot
  /\ tick' = tick + 1
  /\ req' = t
  /\ LeastRecent(s)
  /\ victim' = s
  /\ \/ /\ Busy(s)
        /\ stats' = [stats EXCEPT !.misses = @ + 1, !.stalls = @ + 1]
        /\ pc' = "stalled"
     \/ /\ ~Busy(s)
        /\ stats' = [stats EXCEPT !.misses = @ + 1]
        /\ pc' = "evict"
  /\ UNCHANGED <<dsVars, resident, version, has_payload, slot_bytes,
                 last_tick, slot_tag, threw, raw_id>>

(* Fence::wait returns.                                                    *)
StallEnds ==
  /\ pc = "stalled"
  /\ Completed(victim, version[victim])
  /\ pc' = "evict"
  /\ UNCHANGED <<dsVars, ringVars, req, victim, raw_id>>

(* The victim is accounted as gone, and the tag ASKED FOR is erased from   *)
(* m_resident (it was not there).  Then enqueue_read, which throws for a   *)
(* size beyond 32 bits and leaves everything before it done.               *)
Evict ==
  /\ pc = "evict"
  /\ stats' = [stats EXCEPT !.evictions = IF has_payload[victim]
                                          THEN @ + 1 ELSE @,
                            !.streamed = (@ + Bytes[req]) % Wrap,
                            !.resident = Minus(@, slot_bytes[victim])]
  /\ resident' = [resident EXCEPT ![req] = NoSlot]
  /\ \/ /\ req \notin Oversized
        /\ EnqueueRead(victim, req)
        /\ pc' = "submit"
        /\ UNCHANGED threw
     \/ /\ req \in Oversized
        /\ pc' = "idle"
        /\ threw' = TRUE
        /\ UNCHANGED dsVars
  /\ UNCHANGED <<version, has_payload, slot_bytes, last_tick, tick, slot_tag,
                 req, victim, raw_id>>

(* Mutant: the signal carries the version the slot already has.            *)
SameVersion(s) == version[s]

NextVersion(s) == version[s] + 1

(* Mutant: a slot keeps the size of its first tenant.                      *)
FirstBytes(s, t) == IF has_payload[s] THEN slot_bytes[s] ELSE Bytes[t]

NewBytes(s, t) == Bytes[t]

(* enqueue_signal_and_submit, and the slot's new tenant is recorded.       *)
SubmitRead ==
  /\ pc = "submit"
  /\ SignalAndSubmit(victim, NextVersion(victim))
  /\ version' = [version EXCEPT ![victim] = version[victim] + 1]
  /\ has_payload' = [has_payload EXCEPT ![victim] = TRUE]
  /\ slot_bytes' = [slot_bytes EXCEPT ![victim] = NewBytes(victim, req)]
  /\ stats' = [stats EXCEPT !.resident = (@ + Bytes[req]) % Wrap]
  /\ last_tick' = [last_tick EXCEPT ![victim] = tick]
  /\ resident' = [resident EXCEPT ![req] = victim]
  /\ slot_tag' = [slot_tag EXCEPT ![victim] = req]
  /\ pc' = "idle"
  /\ UNCHANGED <<tick, threw, req, victim, raw_id>>

(* flush blocks on the slots one after the other.                          *)
FlushCall ==
  /\ pc = "idle"
  /\ pc' = "flush"
  /\ UNCHANGED <<dsVars, ringVars, req, victim, raw_id>>

FlushReturns ==
  /\ pc = "flush"
  /\ \A s \in Slots : has_payload[s] => Completed(s, version[s])
  /\ pc' = "idle"
  /\ UNCHANGED <<dsVars, ringVars, req, victim, raw_id>>

-----------------------------------------------------------------------------
(* Direct use of the context by the same thread: a read with a Submit of   *)
(* its own, and the two waits.                                             *)
RawRead(t) ==
  /\ pc = "idle"
  /\ raw_id = -1   (* bound: one such read *)
  /\ total_submitted < MaxReads
  /\ t \notin Oversized
  /\ EnqueueRead(RawBuffer, t)
  /\ raw_id' = total_submitted
  /\ UNCHANGED <<ringVars, pc, req, victim>>

RawSubmit ==
  /\ pc = "idle"
  /\ sent < total_submitted
  /\ Submit
  /\ UNCHANGED <<ringVars, callVars>>

RawWait ==
  /\ pc = "idle"
  /\ WaitForRequest(raw_id)
  /\ UNCHANGED <<ringVars, callVars>>

RawWaitAll ==
  /\ pc = "idle"
  /\ raw_id # -1
  /\ WaitAll
  /\ UNCHANGED <<ringVars, callVars>>

-----------------------------------------------------------------------------
Storage == Runtime /\ UNCHANGED <<ringVars, callVars>>

Fetch == \E t \in Tensors :
           FetchHit(t) \/ \E s \in Slots : FetchMiss(t, s)

Resume == StallEnds \/ Evict \/ SubmitRead \/ FlushReturns

Direct == \/ \E t \in Tensors : RawRead(t)
          \/ RawSubmit
          \/ RawWait
          \/ RawWaitAll

Next == Fetch \/ Resume \/ FlushCall \/ Direct \/ Storage

Spec == Init /\ [][Next]_vars

(* The caller may stop calling; a call that began goes on, and the runtime *)
(* finishes what was submitted.                                            *)
FairSpec == Spec /\ WF_vars(Resume) /\ WF_vars(Storage)

-----------------------------------------------------------------------------
(* Statistics: as long as no fetch threw, bytes_resident is the size of    *)
(* what the slots were last filled with, the victim of a fetch under way   *)
(* not counted, whatever sizes followed each other in a slot; and every    *)
(* fetch was a hit or a miss (dxstream.cpp:125-198).                       *)
StatsAddUp ==
  LET counted == {s \in Slots : ~(pc = "submit" /\ s = victim)} IN
  /\ stats.hits + stats.misses = tick
  /\ ~threw => stats.resident = MapThenSumSet(LAMBDA s : slot_bytes[s], counted)

(* The runtime never has two unfinished reads into the same slot: the      *)
(* victim's wait covers whatever was last streamed into it, so no two DMA  *)
(* writes race for one buffer.                                             *)
OneReadPerSlot ==
  \A r1, r2 \in reads :
    r1.dst = r2.dst /\ r1.dst \in Slots => r1 = r2

(* Waiting for the fence value of a SlotView is enough: once a slot's      *)
(* fence has reached its version, the slot holds the tensor it was last    *)
(* filled for ("the slot + fence value the compute queue must wait on").   *)
FenceMeansArrived ==
  \A s \in Slots :
    has_payload[s] /\ Completed(s, version[s]) => content[s] = slot_tag[s]

(* A call of fetch or flush that blocks returns, because every read that   *)
(* was submitted is followed by the signal the call waits for.             *)
CallsReturn == pc # "idle" ~> pc = "idle"

(* The slots as the abstract ring sees them: ordered by their last fetch,  *)
(* empty, being loaded, or holding what is really in the buffer.           *)
Slot == INSTANCE SlotRing WITH
          SlotIds <- Slots,
          Items   <- Tensors,
          older   <- {p \in Slots \X Slots : Older(p[1], p[2])},
          load    <- [s \in Slots |->
                        IF ~has_payload[s] THEN [state |-> "empty"]
                        ELSE IF Completed(s, version[s])
                             THEN [state |-> "loaded", item |-> content[s]]
                             ELSE [state |-> "loading", item |-> slot_tag[s]]]

(* fetch keeps the ring's promise: only the least recently fetched slot,   *)
(* and only when nothing is being read into it, is given another tensor,   *)
(* and what arrives in a slot is the tensor it was given.                  *)
KeepsSlotPromise == Slot!Promise

(* "Request a tensor by tag ... Returns the slot" (dxstream.hpp): the slot *)
(* a fetch of t would find was last filled for t.                          *)
HitServesRequestedTensor ==
  \A t \in Tensors : resident[t] # NoSlot => slot_tag[resident[t]] = t
=============================================================================
