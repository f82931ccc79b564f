----------------------------- MODULE MemoryPool -----------------------------
(***************************************************************************)
(* A memory pool of the C layer, src/core/dx_memory_api.cpp, on Windows    *)
(* with a native device, and the threads that call it.                     *)
(*                                                                         *)
(* A handle is the address of an allocation object.  The pool owns the     *)
(* objects in its map; a thread can be inside one call at a time.  Memory  *)
(* comes from the C runtime ("host"), from a mapped D3D12 heap ("mapped")  *)
(* or from a heap the CPU cannot see ("device"), which is copied to and    *)
(* from by a command list on a queue made for the occasion, under the      *)
(* lock of the pool.                                                       *)
(*                                                                         *)
(* Calls on one handle follow each other (the clients see to it).  A       *)
(* handle may be freed again as long as its address has not been given to  *)
(* a new object.  Left out: argument checks that return before anything    *)
(* is done, alignment, offsets, the logger, the host build.                *)
(***************************************************************************)
EXTENDS Integers, FiniteSetsExt

CONSTANTS
  Threads,
  Handles,    (* addresses an allocation object can have                   *)
  Foreign,    (* a handle that belongs to some other pool                  *)
  NoThread,
  Requests,   (* what is asked for: a location and a size                  *)
  Values,     (* contents of a buffer                                      *)
  NoValue,    (* contents nobody wrote                                     *)
  MaxAllocs,  (* bound: allocations and failures of one pool               *)
  MaxCopies   (* bound: copies of device memory                            *)

ASSUME PoolAssumption ==
  /\ Foreign \notin Handles
  /\ NoThread \notin Threads
  /\ NoValue \notin Values
  /\ Requests \subseteq
       [location : {"host", "managed", "device", "upload", "readback", "gpu_upload"}, bytes : Nat]
  /\ MaxAllocs \in Nat
  /\ MaxCopies \in Nat

VARIABLES
  open,       (* the pool has not been destroyed                           *)
  object,     (* what lives at each address                                *)
  mutex,      (* who holds pool->mutex                                     *)
  stats,      (* pool->stats                                               *)
  call,       (* what each thread is doing                                 *)
  copies,     (* copy lists executed and not finished by the GPU           *)
  content,    (* what the memory of each object holds                      *)
  blocks,     (* objects with a block the C runtime has allocated          *)
  wrote,      (* history: what the client last wrote through each handle   *)
  misfreed,   (* history: what the C runtime was told to free without      *)
              (* having allocated it                                       *)
  late,       (* history: handles with a copy that failed after Execute    *)
  torn,       (* history: handles of copies that lost staging or resource  *)
  copied      (* how many copies of device memory were begun               *)

gpuVars  == <<copies, content>>
ghosts   == <<wrote, misfreed, late, torn, copied>>
vars == <<open, object, mutex, stats, call, gpuVars, blocks, ghosts>>

Absent == [at |-> "absent"]
Object == [at : {"built", "owned", "detached"},
           place : {"host", "mapped", "device"}, bytes : Nat]
Copy   == [handle : Handles, up : BOOLEAN, value : Values \cup {NoValue},
           by : Threads, torn : BOOLEAN]
Idle   == [pc |-> "idle"]
Call   == [pc : {"build", "release"}, handle : Handles]
            \cup [pc : {"record", "submitted", "waiting"}, handle : Handles,
                  up : BOOLEAN, value : Values \cup {NoValue}]

(* That live does not go below 0 is part of StatsTellTheTruth.              *)
TypeOK ==
  /\ open \in BOOLEAN
  /\ object \in [Handles -> Object \cup {Absent}]
  /\ mutex \in Threads \cup {NoThread}
  /\ stats \in [count : Nat, live : Int, peak : Int, failures : Nat]
  /\ call \in [Threads -> Call \cup {Idle}]
  /\ copies \subseteq Copy
  /\ content \in [Handles -> Values \cup {NoValue}]
  /\ blocks \subseteq Handles
  /\ wrote \in [Handles -> Values \cup {NoValue}]
  /\ misfreed \subseteq Handles \X {"host", "mapped", "device"}
  /\ late \subseteq Handles
  /\ torn \subseteq Handles
  /\ copied \in Nat

NoStats == [count |-> 0, live |-> 0, peak |-> 0, failures |-> 0]

(* After dx_memory_pool_create_for_native_device.                          *)
Init ==
  /\ open = TRUE
  /\ object = [h \in Handles |-> Absent]
  /\ mutex = NoThread
  /\ stats = NoStats
  /\ call = [t \in Threads |-> Idle]
  /\ copies = {}
  /\ content = [h \in Handles |-> NoValue]
  /\ blocks = {}
  /\ wrote = [h \in Handles |-> NoValue]
  /\ misfreed = {}
  /\ late = {}
  /\ torn = {}
  /\ copied = 0

-----------------------------------------------------------------------------
Larger(a, b) == IF a < b THEN b ELSE a

Lock(t)   == mutex = NoThread /\ mutex' = t
Unlock    == mutex' = NoThread
Unlocked  == mutex = NoThread /\ UNCHANGED mutex   (* a region that does not block *)

Goes(t, c) == call' = [call EXCEPT ![t] = c]
Busy(h)  == \E t \in Threads : call[t] # Idle /\ call[t].handle = h
Owned(h) == object[h].at = "owned"

(* Calls on one handle follow each other.                                  *)
MayCall(t, h) == open /\ call[t] = Idle /\ Owned(h) /\ ~Busy(h)

(* free_aligned, of the data of the objects in H: memory of the C runtime  *)
(* goes back to it; the address of a mapped heap, which is not null        *)
(* either, is passed to it as well.                                        *)
FreesAligned(H) ==
  /\ blocks' = blocks \ H
  /\ misfreed' = misfreed \cup
       {<<h, object[h].place>> : h \in {g \in H \ blocks : object[g].place # "device"}}

(* What the lists in flight of the copies in C lose.                       *)
Tears(C) ==
  /\ copies' = (copies \ C) \cup {[c EXCEPT !.torn = TRUE] : c \in C}
  /\ torn' = torn \cup {c.handle : c \in C}

CopiesOn(H) == {c \in copies : c.handle \in H}
CopiesBy(t) == {c \in copies : c.by = t /\ ~c.torn}

-----------------------------------------------------------------------------
(* dx_memory_pool_destroy, with no call under way: the destructor gives    *)
(* back the memory of every object in the map, then the objects.           *)
DestroyPool ==
  LET H == {h \in Handles : Owned(h)} IN
  /\ open
  /\ \A t \in Threads : call[t] = Idle
  /\ open' = FALSE
  /\ FreesAligned(H)
  /\ Tears(CopiesOn(H))
  /\ object' = [h \in Handles |-> IF h \in H THEN Absent ELSE object[h]]
  /\ content' = [h \in Handles |-> NoValue]
  /\ wrote' = [h \in Handles |-> NoValue]
  /\ UNCHANGED <<mutex, stats, call, late, copied>>

(* allocate_d3d12_resource: what the GPU alone uses is on a default heap,  *)
(* what both sides use on an upload or a readback heap, mapped at once.    *)
Place(location) ==
  CASE location \in {"host", "managed"} -> "host"
    [] location = "device" -> "device"
    [] OTHER -> "mapped"

(* dx_memory_alloc up to the lock: the object, at an address of the C      *)
(* runtime's choosing, and its memory.                                     *)
AllocBegin(t, h, r) ==
  /\ open
  /\ call[t] = Idle
  /\ object[h] = Absent
  /\ stats.count + stats.failures < MaxAllocs
  /\ object' = [object EXCEPT ![h] = [at |-> "built", place |-> Place(r.location), bytes |-> r.bytes]]
  /\ blocks' = IF Place(r.location) = "host" THEN blocks \cup {h} ELSE blocks
  /\ content' = [content EXCEPT ![h] = NoValue]
  /\ Goes(t, [pc |-> "build", handle |-> h])
  /\ UNCHANGED <<open, mutex, stats, copies, ghosts>>

(* The object goes into the map and is counted.                            *)
AllocPublish(t) ==
  LET h == call[t].handle
      live == stats.live + object[h].bytes IN
  /\ call[t].pc = "build"
  /\ Unlocked
  /\ object' = [object EXCEPT ![h].at = "owned"]
  /\ stats' = [stats EXCEPT !.count = @ + 1, !.live = live, !.peak = Larger(@, live)]
  /\ wrote' = [wrote EXCEPT ![h] = NoValue]
  /\ Goes(t, Idle)
  /\ UNCHANGED <<open, gpuVars, blocks, misfreed, late, torn, copied>>

(* The memory, or the map's node for it, was not to be had: the failure is *)
(* counted and the object dropped.  (When it is the node, memory of the C  *)
(* runtime is never given back: nothing refers to it any more.)            *)
AllocFail(t) ==
  LET h == call[t].handle IN
  /\ call[t].pc = "build"
  /\ Unlocked
  /\ object' = [object EXCEPT ![h] = Absent]
  /\ blocks' = blocks \ {h}
  /\ stats' = [stats EXCEPT !.failures = @ + 1]
  /\ Goes(t, Idle)
  /\ UNCHANGED <<open, gpuVars, ghosts>>

(* Mutant: a freed allocation stays in the count.                          *)
StillCounted(s, bytes) == s

Uncounted(s, bytes) == [s EXCEPT !.live = @ - bytes]

(* dx_memory_free under the lock: the object leaves the map.               *)
FreeDetach(t, h) ==
  /\ MayCall(t, h)
  /\ Unlocked
  /\ stats' = Uncounted(stats, object[h].bytes)
  /\ object' = [object EXCEPT ![h].at = "detached"]
  /\ Goes(t, [pc |-> "release", handle |-> h])
  /\ UNCHANGED <<open, gpuVars, blocks, ghosts>>

(* Mutant: the object is released without having been looked up.           *)
FreeAnything(t, h) ==
  /\ open
  /\ call[t] = Idle
  /\ Unlocked
  /\ h # Foreign
  /\ object[h] = Absent
  /\ misfreed' = misfreed \cup {<<h, "host">>}
  /\ UNCHANGED <<open, object, stats, call, gpuVars, blocks, wrote, late, torn, copied>>

(* A handle that is not in the map is turned away.                         *)
FreeUnknown(t, h) ==
  /\ open
  /\ call[t] = Idle
  /\ Unlocked
  /\ h # Foreign => object[h] = Absent
  /\ UNCHANGED <<open, object, stats, call, gpuVars, blocks, ghosts>>

(* The rest of dx_memory_free, after the lock: the memory goes, then the   *)
(* object, and with it the address.                                        *)
FreeRelease(t) ==
  LET h == call[t].handle IN
  /\ call[t].pc = "release"
  /\ FreesAligned({h})
  /\ Tears(CopiesOn({h}))
  /\ object' = [object EXCEPT ![h] = Absent]
  /\ content' = [content EXCEPT ![h] = NoValue]
  /\ wrote' = [wrote EXCEPT ![h] = NoValue]
  /\ Goes(t, Idle)
  /\ UNCHANGED <<open, mutex, stats, late, copied>>

-----------------------------------------------------------------------------
(* dx_memory_upload of v, and dx_memory_download.                          *)

(* Memory the CPU can see is copied at once and without the lock.          *)
UploadMapped(t, h, v) ==
  /\ MayCall(t, h)
  /\ object[h].place # "device"
  /\ content' = [content EXCEPT ![h] = v]
  /\ wrote' = [wrote EXCEPT ![h] = v]
  /\ UNCHANGED <<open, object, mutex, stats, call, copies, blocks, misfreed,
                 late, torn, copied>>

DownloadMapped(t, h) ==
  /\ MayCall(t, h)
  /\ object[h].place # "device"
  /\ UNCHANGED vars

(* execute_buffer_copy: staging, queue, allocator and list are made.       *)
CopyBegin(t, h, up, v) ==
  /\ MayCall(t, h)
  /\ object[h].place = "device"
  /\ copied < MaxCopies
  /\ Lock(t)
  /\ copied' = copied + 1
  /\ Goes(t, [pc |-> "record", handle |-> h, up |-> up, value |-> v])
  /\ UNCHANGED <<open, object, stats, gpuVars, blocks, wrote, misfreed, late, torn>>

(* Mutant: what could not be made is ignored, and the copy taken as done.  *)
RefusedAsDone(t) ==
  LET c == call[t] IN
  /\ c.pc = "record"
  /\ wrote' = IF c.up THEN [wrote EXCEPT ![c.handle] = c.value] ELSE wrote
  /\ Unlock
  /\ Goes(t, Idle)
  /\ UNCHANGED <<open, object, stats, gpuVars, blocks, misfreed, late, torn, copied>>

(* One of them is not to be had: returns -1 to -8, with nothing executed.  *)
CopyRefused(t) ==
  /\ call[t].pc = "record"
  /\ Unlock
  /\ Goes(t, Idle)
  /\ UNCHANGED <<open, object, stats, gpuVars, blocks, ghosts>>

(* ExecuteCommandLists.                                                    *)
CopyExecute(t) ==
  LET c == call[t] IN
  /\ c.pc = "record"
  /\ copies' = copies \cup {[handle |-> c.handle, up |-> c.up, value |-> c.value,
                             by |-> t, torn |-> FALSE]}
  /\ Goes(t, [c EXCEPT !.pc = "submitted"])
  /\ UNCHANGED <<open, object, mutex, stats, content, blocks, ghosts>>

(* The fence is signalled behind the list, and waited for.                 *)
CopySignal(t) ==
  /\ call[t].pc = "submitted"
  /\ Goes(t, [call[t] EXCEPT !.pc = "waiting"])
  /\ UNCHANGED <<open, object, mutex, stats, gpuVars, blocks, ghosts>>

(* The fence, its event, the signal or the wait fails: returns -9 to -11.  *)
(* Staging, allocator and queue go, whatever the GPU does with the list.   *)
CopyFailsLate(t) ==
  /\ call[t].pc \in {"submitted", "waiting"}
  /\ Tears(CopiesBy(t))
  /\ late' = late \cup {call[t].handle}
  /\ Unlock
  /\ Goes(t, Idle)
  /\ UNCHANGED <<open, object, stats, content, blocks, wrote, misfreed, copied>>

(* Mutant: nobody waits.                                                   *)
ReachedOrNot(t) == CopiesBy(t) \subseteq copies

(* Mutant: waits for a value nobody signals.                               *)
NeverReached(t) == FALSE

(* The fence has reached 1.                                                *)
Reached(t) == CopiesBy(t) = {}

(* The copy is done; what a download brought is given to the caller.       *)
CopyReturns(t) ==
  LET c == call[t] IN
  /\ c.pc = "waiting"
  /\ Reached(t)
  /\ wrote' = IF c.up THEN [wrote EXCEPT ![c.handle] = c.value] ELSE wrote
  /\ Tears(CopiesBy(t))      (* staging is released: none is left           *)
  /\ Unlock
  /\ Goes(t, Idle)
  /\ UNCHANGED <<open, object, stats, content, blocks, misfreed, late, copied>>

(* The GPU runs a list.  One that has lost its memory may do anything to   *)
(* what its resource was.                                                  *)
GpuRuns(c) ==
  /\ c \in copies
  /\ copies' = copies \ {c}
  /\ content' = IF c.up THEN [content EXCEPT ![c.handle] = c.value] ELSE content
  /\ call' = IF c.up \/ c.torn THEN call
             ELSE [call EXCEPT ![c.by].value = content[c.handle]]
  /\ UNCHANGED <<open, object, mutex, stats, blocks, ghosts>>

GpuLoses(c) ==
  /\ c \in copies
  /\ c.torn
  /\ copies' = copies \ {c}
  /\ UNCHANGED <<open, object, mutex, stats, call, content, blocks, ghosts>>

-----------------------------------------------------------------------------
Next ==
  \/ DestroyPool
  \/ \E t \in Threads :
       \/ \E h \in Handles, r \in Requests : AllocBegin(t, h, r)
       \/ AllocPublish(t)
       \/ AllocFail(t)
       \/ \E h \in Handles : FreeDetach(t, h)
       \/ \E h \in Handles \cup {Foreign} : FreeUnknown(t, h)
       \/ FreeRelease(t)
       \/ \E h \in Handles, v \in Values : UploadMapped(t, h, v)
       \/ \E h \in Handles : DownloadMapped(t, h)
       \/ \E h \in Handles, v \in Values : CopyBegin(t, h, TRUE, v)
       \/ \E h \in Handles : CopyBegin(t, h, FALSE, NoValue)
       \/ CopyRefused(t)
       \/ CopyExecute(t)
       \/ CopySignal(t)
       \/ CopyFailsLate(t)
       \/ CopyReturns(t)
  \/ \E c \in copies : GpuRuns(c) \/ GpuLoses(c)

Spec == Init /\ [][Next]_vars

(* Threads inside a copy go on, and the GPU runs what it was given.        *)
FairSpec ==
  /\ Spec
  /\ \A t \in Threads :
       WF_vars(CopyRefused(t) \/ CopyExecute(t) \/ CopySignal(t) \/ CopyReturns(t))
  /\ WF_vars(\E c \in copies : GpuRuns(c))

-----------------------------------------------------------------------------
(* Correctness.                                                            *)

InMap == {h \in Handles : Owned(h)}

(* dx_memory_get_stats tells the truth whatever calls are under way: live  *)
(* bytes are those of the objects in the map, the peak is not below them   *)
(* (dx_memory_api.cpp:373-377 and 403-405).                                *)
StatsTellTheTruth ==
  open => /\ stats.live = MapThenSumSet(LAMBDA h : object[h].bytes, InMap)
          /\ stats.live <= stats.peak
          /\ Cardinality(InMap) <= stats.count

(* The C runtime is told to free only what it allocated, and that once,    *)
(* except for mapped heaps, whose address it gets too (dx_memory_api.cpp:  *)
(* 50, 412): the lookup under the lock hands an object to one call only.   *)
OnlyMappedIsMisfreed == \A m \in misfreed : m[2] = "mapped"

(* A copy list never loses the staging buffer or the resource it works on, *)
(* nor its allocator, unless its own call failed after ExecuteCommandLists *)
(* (dx_memory_api.cpp:267-287: only those returns do not wait).            *)
OnlyLateFailuresTear == torn \subseteq late

(* What an upload that returned 0 wrote is there and stays until the next  *)
(* one, whatever calls on other handles do or fail to do: the wait comes   *)
(* before the return (dx_memory_api.cpp:275-297).                          *)
UploadsStay ==
  \A h \in Handles : (Owned(h) /\ ~Busy(h) /\ h \notin late) => content[h] = wrote[h]

(* A download gives its caller what the last upload wrote, not what the    *)
(* staging buffer held before the GPU filled it (dx_memory_api.cpp:290).   *)
DownloadsBringIt ==
  [][\A t \in Threads :
       (/\ call[t].pc = "waiting" /\ call'[t] = Idle
        /\ ~call[t].up /\ call[t].handle \notin late')
         => call[t].value = wrote[call[t].handle]]_vars

(* The lock is held across the wait for the GPU and given back again: no   *)
(* copy shuts the other threads out for good (dx_memory_api.cpp:442, 468). *)
LockIsGivenBack == (mutex # NoThread) ~> (mutex = NoThread)

=============================================================================
