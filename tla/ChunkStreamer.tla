--------------------------- MODULE ChunkStreamer ----------------------------
(***************************************************************************)
(* dxait::ChunkStreamer, src/dxchunk/dxchunk.cpp: chunks of a file copied  *)
(* to buffers, through two staging buffers and a COPY queue if they go to  *)
(* memory of the device.  stream_chunk_async runs the same code on another *)
(* thread, without a lock.                                                 *)
(*                                                                         *)
(* A buffer holds the chunk that was copied to it, or Nothing.             *)
(***************************************************************************)
EXTENDS QueueFence, Sequences

CONSTANTS
  Chunks,        (* names of chunks                                        *)
  Size, Place,   (* of each chunk: size_bytes, location                    *)
  Registered,    (* the chunks registered before the first stream          *)
  copyQueue, copyFence,
  Streamer,      (* the owner of the copy list                             *)
  MaxStreams,    (* bound: chunks streamed in a behaviour ...              *)
  MaxOverlapped  (* ... and in one where streams have overlapped           *)

ASSUME ChunkAssumption ==
  /\ Size \in [Chunks -> Nat \ {0}]
  /\ Registered \subseteq Chunks
  /\ Place \in [Chunks -> {"device", "system"}]
  /\ copyQueue \in Queues /\ copyFence \in Fences /\ Streamer \in Objects

VARIABLES
  known,         (* m_chunks                                               *)
  staging,       (* m_staging_upload_a and _b: their size and what they    *)
                 (* hold; made counts how often they were replaced         *)
  active,        (* m_active_staging_idx                                   *)
  fenceVal,      (* m_fence_val                                            *)
  streaming,     (* where each thread is in stream_chunk_to_gpu            *)
  target,        (* what the buffers made for the streams hold             *)
  copies,        (* the copy in each list of the queue, by its position    *)
  wrong,         (* history: streams that returned a buffer with something *)
                 (* else than their chunk                                  *)
  overlapped     (* history: a stream to the device began beside another,  *)
                 (* or a chunk was registered beside a stream              *)

chunkVars == <<known, staging, active, fenceVal, streaming, target, copies, wrong, overlapped>>

Nothing == "nothing"
AtEase  == [at |-> "ease"]

ChunkInit ==
  /\ known = Registered
  /\ staging = [size |-> 0, holds |-> <<Nothing, Nothing>>, made |-> 0]
  /\ active = 0
  /\ fenceVal = 0
  /\ streaming = [t \in Threads |-> AtEase]
  /\ target = <<>>
  /\ copies = <<>>
  /\ wrong = {}
  /\ overlapped = FALSE

At(t, where)    == streaming[t].at = where
Moves(t, where) == streaming' = [streaming EXCEPT ![t].at = where]
Busy            == {t \in Threads : streaming[t] # AtEase}

(* stream_chunk_to_gpu returns to its caller, who looks at the buffer.     *)
Gives(t, buffer) ==
  /\ wrong' = IF buffer = streaming[t].chunk THEN wrong
              ELSE wrong \cup {[chunk |-> streaming[t].chunk, got |-> buffer]}
  /\ streaming' = [streaming EXCEPT ![t] = AtEase]

-----------------------------------------------------------------------------
(* register_chunk: the vector may move under a stream that refers to it.   *)
RegisterChunk(c) ==
  /\ c \notin known
  /\ known' = known \cup {c}
  /\ overlapped' = (overlapped \/ Busy # {})
  /\ UNCHANGED <<staging, active, fenceVal, streaming, target, copies, wrong, fenceVars>>

(* The chunk is found by its name, and a buffer made for it.               *)
StreamBegins(t, c) ==
  /\ At(t, "ease")
  /\ c \in known
  /\ Len(target) < IF overlapped THEN MaxOverlapped ELSE MaxStreams
  /\ target' = Append(target, Nothing)
  /\ streaming' = [streaming EXCEPT ![t] =
       [at |-> IF Place[c] = "system" THEN "mapping" ELSE "growing",
        chunk |-> c, to |-> Len(target) + 1]]
  /\ overlapped' = (overlapped \/ (Place[c] = "device" /\ \E u \in Busy : Place[streaming[u].chunk] = "device"))
  /\ UNCHANGED <<known, staging, active, fenceVal, copies, wrong, fenceVars>>

(* System memory: what is in the file is copied to the buffer.             *)
CopiesDirectly(t) ==
  LET s == streaming[t] IN
  /\ At(t, "mapping")
  /\ target' = [target EXCEPT ![s.to] = s.chunk]
  /\ Gives(t, target'[s.to])
  /\ UNCHANGED <<known, staging, active, fenceVal, copies, overlapped, fenceVars>>

(* A file that cannot be mapped is no error: an empty buffer is returned.  *)
CopiesNothing(t) ==
  /\ At(t, "mapping")
  /\ streaming' = [streaming EXCEPT ![t] = AtEase]
  /\ UNCHANGED <<known, staging, active, fenceVal, target, copies, wrong, overlapped, fenceVars>>

-----------------------------------------------------------------------------
(* Memory of the device.                                                   *)

(* Mutant: buffers that are too small are kept.                            *)
GrowsOnce(size) == staging.size = 0

MustGrow(size) == staging.size < size

(* Both staging buffers are replaced when they are too small.              *)
Grows(t) ==
  LET size == Size[streaming[t].chunk] IN
  /\ At(t, "growing")
  /\ staging' = IF MustGrow(size)
                THEN [size |-> size, holds |-> <<Nothing, Nothing>>, made |-> staging.made + 1]
                ELSE staging
  /\ Moves(t, "picking")
  /\ UNCHANGED <<known, active, fenceVal, target, copies, wrong, overlapped, fenceVars>>

OtherOne == 1 - active

(* The one whose turn it is.                                               *)
Picks(t) ==
  /\ At(t, "picking")
  /\ streaming' = [streaming EXCEPT ![t] =
       [at |-> "filling", chunk |-> @.chunk, to |-> @.to, from |-> active + 1, of |-> staging.made]]
  /\ active' = OtherOne
  /\ UNCHANGED <<known, staging, fenceVal, target, copies, wrong, overlapped, fenceVars>>

(* A file that cannot be mapped gives no buffer.                           *)
FileUnreadable(t) ==
  /\ At(t, "filling")
  /\ streaming' = [streaming EXCEPT ![t] = AtEase]
  /\ UNCHANGED <<known, staging, active, fenceVal, target, copies, wrong, overlapped, fenceVars>>

(* What does not fit, or goes to a buffer that is gone, is not there.      *)
Fills(t) ==
  LET s == streaming[t] IN
  /\ At(t, "filling")
  /\ staging' = [staging EXCEPT !.holds[s.from] =
       IF s.of = staging.made
       THEN IF Size[s.chunk] <= staging.size THEN s.chunk ELSE Nothing
       ELSE @]
  /\ Moves(t, "executing")
  /\ UNCHANGED <<known, active, fenceVal, target, copies, wrong, overlapped, fenceVars>>

(* The list is recorded and given to the queue.                            *)
Executes(t) ==
  /\ At(t, "executing")
  /\ Execute(Streamer, copyQueue)
  /\ copies' = [n \in DOMAIN copies \cup {position[copyQueue]} |->
       IF n = position[copyQueue]
       THEN [to |-> streaming[t].to, from |-> streaming[t].from, of |-> streaming[t].of]
       ELSE copies[n]]
  /\ Moves(t, "counting")
  /\ UNCHANGED <<known, staging, active, fenceVal, target, wrong, overlapped, ownVars>>

(* ++m_fence_val; signal(m_fence_val); wait(m_fence_val).                  *)
Counts(t) ==
  /\ At(t, "counting")
  /\ fenceVal' = fenceVal + 1
  /\ Moves(t, "signalling")
  /\ UNCHANGED <<known, staging, active, target, copies, wrong, overlapped, fenceVars>>

Signals(t) ==
  /\ At(t, "signalling")
  /\ EnqueueSignal(copyQueue, copyFence, fenceVal)
  /\ Moves(t, "asking")
  /\ UNCHANGED <<known, staging, active, fenceVal, target, copies, wrong, overlapped, ownVars>>

Asks(t) ==
  /\ At(t, "asking")
  /\ \/ Passes(copyFence, fenceVal) /\ Moves(t, "done")
     \/ Registers(copyFence, fenceVal) /\ Moves(t, "registered")
  /\ UNCHANGED <<known, staging, active, fenceVal, target, copies, wrong, overlapped>>

Waits(t) ==
  /\ At(t, "registered")
  /\ \/ FindsSet(copyFence) /\ Moves(t, "done")
     \/ Blocks(t, copyFence) /\ Moves(t, "blocked")
  /\ UNCHANGED <<known, staging, active, fenceVal, target, copies, wrong, overlapped>>

Wakes(t) ==
  /\ At(t, "blocked")
  /\ IsAwake(t)
  /\ Moves(t, "done")
  /\ UNCHANGED <<known, staging, active, fenceVal, target, copies, wrong, overlapped, fenceVars>>

StreamReturns(t) ==
  /\ At(t, "done")
  /\ Gives(t, target[streaming[t].to])
  /\ UNCHANGED <<known, staging, active, fenceVal, target, copies, overlapped, fenceVars>>

(* The GPU copies what the staging buffer holds by then.                   *)
CopyHappens ==
  \E l \in lists :
    LET c == copies[l.at] IN
    /\ l.queue = copyQueue
    /\ ListFinishes(l)
    /\ copies' = [n \in DOMAIN copies \ {l.at} |-> copies[n]]
    /\ target' = [target EXCEPT ![c.to] =
                    IF c.of = staging.made THEN staging.holds[c.from] ELSE Nothing]
    /\ UNCHANGED <<known, staging, active, fenceVal, streaming, wrong, overlapped, ownVars>>

StreamStep(t) ==
  \/ CopiesDirectly(t) \/ CopiesNothing(t) \/ Grows(t) \/ Picks(t) \/ FileUnreadable(t) \/ Fills(t) \/ Executes(t)
  \/ Counts(t) \/ Signals(t) \/ Asks(t) \/ Waits(t) \/ Wakes(t) \/ StreamReturns(t)

ChunkNext ==
  \/ \E c \in Chunks : RegisterChunk(c)
  \/ \E t \in Threads : StreamStep(t) \/ \E c \in Chunks : StreamBegins(t, c)
  \/ CopyHappens
  \/ (GpuSignals \/ EventFires) /\ UNCHANGED chunkVars

-----------------------------------------------------------------------------
(* What a stream to system memory returns is its chunk, whatever runs      *)
(* beside it; and so is what one to the device returns, as long as no two  *)
(* of those and no registration ever overlapped.  Overlapping streams, as  *)
(* stream_chunk_async starts them, share the staging buffers, the list,    *)
(* the fence value and its event (dxchunk.cpp:108-153 and 158-162, of      *)
(* "Double Staging Buffers for Pipelined Async Streaming",                 *)
(* dxchunk.hpp:64).                                                        *)
OnlyOverlapSpoils ==
  \A r \in wrong : overlapped /\ Place[r.chunk] = "device"
=============================================================================
