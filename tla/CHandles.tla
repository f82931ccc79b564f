------------------------------ MODULE CHandles ------------------------------
(***************************************************************************)
(* The handles of the compatibility C API, src/core/dx_c_api.cpp, and of   *)
(* runtimes, src/core/dx_runtime_api.cpp, over the device managers of      *)
(* src/core/dx_device_api.cpp (with the lists they keep), and over memory  *)
(* pools and streams below them (whose loggers go with them).              *)
(*                                                                         *)
(* A thread is inside one call at a time; a call that builds something is  *)
(* cut where a layer below may refuse.  `owned' holds the objects of the   *)
(* layers below, each with its owner: the call that made it, or a handle.  *)
(*                                                                         *)
(* The clients destroy a handle once nobody is inside a call on it, and do *)
(* not use a buffer whose device is gone, as docs/DX_C_API_CHANGELOG.md    *)
(* asks of them.  Left out: argument checks that return before anything is *)
(* done, status codes and messages, what is in the buffers, and the calls  *)
(* that only look at a handle or work on host arrays.                      *)
(***************************************************************************)
EXTENDS Naturals, Sequences, FiniteSets, Selections

CONSTANTS
  Cards,      (* adapters with hardware                                    *)
  NoCard,     (* the entry of the CPU has no adapter                       *)
  Threads,
  Devices, Queues, Buffers, Runtimes,  (* addresses handles can have       *)
  ShownLists, (* what DXGI may show when a manager is made                 *)
  Sizes,      (* sizes of buffers, in elements                             *)
  Shapes,     (* rows and columns linear algebra is asked for              *)
  Wrap        (* 2^32: a product of two uint32_t is taken modulo Wrap      *)

(* One answer of EnumAdapterByGpuPreference: a card, an adapter that is    *)
(* software, or one that cannot be had or described.                       *)
Shown == Cards \cup {"software", "failing"}

(* What a thread is told by is no address, and addresses of one kind are   *)
(* not used for another.                                                   *)
ASSUME CHandlesAssumption ==
  /\ NoCard \notin Cards
  /\ ShownLists \subseteq Seq(Shown)
  /\ Sizes \subseteq Nat \ {0}
  /\ Shapes \subseteq Nat \X (Nat \ {0})
  /\ Wrap \in Nat \ {0}
  /\ Threads \cap (Devices \cup Queues \cup Buffers \cup Runtimes) = {}
  /\ Devices \cap (Queues \cup Buffers \cup Runtimes) = {}
  /\ Queues \cap (Buffers \cup Runtimes) = {}
  /\ Buffers \cap Runtimes = {}
  /\ "gone" \notin Devices

VARIABLES
  device,     (* dx_device_s: what is told of it and what it runs on       *)
  queue,      (* dx_queue_s: the device it was made for                    *)
  buffer,     (* dx_buffer_s: its device, its size                         *)
  runtime,    (* dx_runtime_t: the backend chosen and the devices listed   *)
  owned,      (* objects of the layers below, with their owners            *)
  call,       (* what each thread is doing                                 *)
  overran     (* history: what left the vector it sized, with its shape    *)

handles    == <<device, queue, buffer, runtime>>
handleVars == <<handles, owned, call, overran>>

Absent == [at |-> "absent"]
Idle   == [pc |-> "idle"]
Gone   == "gone"           (* the device of a handle that outlived it     *)
Ops    == {"elementwise", "activation", "rmsnorm", "softmax", "reduce", "gemm"}
Preferences == {"auto", "dx12", "hip", "cpu"}

HandlesInit ==
  /\ device = [d \in Devices |-> Absent]
  /\ queue = [q \in Queues |-> Absent]
  /\ buffer = [b \in Buffers |-> Absent]
  /\ runtime = [r \in Runtimes |-> Absent]
  /\ owned = {}
  /\ call = [t \in Threads |-> Idle]
  /\ overran = {}

-----------------------------------------------------------------------------
IsIdle(t)  == call[t] = Idle
Goes(t, c) == call' = [call EXCEPT ![t] = c]

(* No thread is inside a call on h.                                        *)
Quiet(h) == \A t \in Threads : ~IsIdle(t) => h \notin call[t].on

Alive(h) ==
  \/ h \in Devices  /\ device[h] # Absent
  \/ h \in Queues   /\ queue[h] # Absent
  \/ h \in Buffers  /\ buffer[h] # Absent
  \/ h \in Runtimes /\ runtime[h] # Absent

(* An address the C runtime may give to a new handle.                      *)
Free(h) == ~Alive(h) /\ Quiet(h)

Owns(owner)     == {o \in owned : o[2] = owner}
Hands(from, to) == {<<o[1], to>> : o \in Owns(from)}

(* A call of t makes an object of the layer below, and remembers c.        *)
Makes(t, kinds, c) ==
  /\ owned' = owned \cup {<<k, t>> : k \in kinds}
  /\ Goes(t, c)
  /\ UNCHANGED <<handles, overran>>

(* A call of t fails and destroys what is of these kinds.                  *)
FailsWithout(t, kinds) ==
  /\ owned' = owned \ {<<k, t>> : k \in kinds}
  /\ Goes(t, Idle)
  /\ UNCHANGED <<handles, overran>>

(* A call of t succeeds: the handle h takes over what the call has made.   *)
Gives(t, h) ==
  /\ owned' = (owned \ Owns(t)) \cup Hands(t, h)
  /\ Goes(t, Idle)
  /\ UNCHANGED overran

-----------------------------------------------------------------------------
(* What dx_device_manager_create (src/core/dx_device_api.cpp) makes of the *)
(* adapters DXGI shows it, and what the users of a manager look up in it.  *)
(* A manager keeps two lists: the descriptions it gives out, and the       *)
(* adapters it opens devices on.  They are indexed alike.                  *)

(* append_dxgi_adapters: the hardware, in the order DXGI prefers.          *)
Kept(shown) == SelectAt(shown, {i \in DOMAIN shown : shown[i] \in Cards})

(* The lists of a manager: a description for every adapter kept, and the   *)
(* one of the CPU behind them.                                             *)
Listed(shown) ==
  [devices |-> Append(Kept(shown), NoCard), adapters |-> Kept(shown)]

(* dx_device_manager_count, and dx_device_manager_get_info of index i (the *)
(* indices of the code start at 0, those of a sequence at 1).              *)
Count(list)   == Len(list.devices)
Info(list, i) == list.devices[i + 1]

IsDx12(info) == info # NoCard

(* dx_device_manager_open: the CPU needs no adapter.                       *)
HasAdapter(list, i) == IsDx12(Info(list, i)) => i < Len(list.adapters)

(* Mutant: devices are opened on the default adapter, as they once were    *)
(* (docs/DX_C_API_CHANGELOG.md, record 002).                               *)
OpenedOnDefault(list, i) == IF IsDx12(Info(list, i)) THEN list.adapters[1] ELSE NoCard

OpenedOn(list, i) == IF IsDx12(Info(list, i)) THEN list.adapters[i + 1] ELSE NoCard

(* select_backend, of a runtime that prefers p.                            *)
Selected(list, p) ==
  CASE p \in {"cpu", "hip"} -> p
    [] OTHER -> IF \E i \in 1 .. Len(list.devices) : IsDx12(list.devices[i])
                THEN "dx12" ELSE "cpu"

-----------------------------------------------------------------------------
(* dx_create_device                                                        *)

(* The manager, with what DXGI shows now.                                  *)
ListDevices(t, d, i, shown) ==
  /\ IsIdle(t)
  /\ Free(d)
  /\ Makes(t, {"manager"},
           [pc |-> "listed", on |-> {d}, list |-> Listed(shown), index |-> i])

(* An index beyond the list, or a device that cannot be opened.            *)
OpenRefused(t) ==
  /\ call[t].pc = "listed"
  /\ FailsWithout(t, {"manager"})

(* The manager is not needed any more.                                     *)
OpenDevice(t) ==
  LET c == call[t] IN
  /\ c.pc = "listed"
  /\ c.index < Count(c.list)
  /\ HasAdapter(c.list, c.index)
  /\ owned' = (owned \ Owns(t)) \cup {<<"execution", t>>}
  /\ Goes(t, [pc |-> "opened", on |-> c.on, info |-> Info(c.list, c.index),
              card |-> OpenedOn(c.list, c.index)])
  /\ UNCHANGED <<handles, overran>>

(* Mutant: the execution device is forgotten.                              *)
ForgetsExecution(t) ==
  /\ call[t].pc = "opened"
  /\ FailsWithout(t, {})

PoolRefused(t) ==
  /\ call[t].pc = "opened"
  /\ FailsWithout(t, {"execution"})

(* A pool that shares the native device, if there is one.                  *)
MakePool(t) ==
  /\ call[t].pc = "opened"
  /\ Makes(t, {"pool"}, [call[t] EXCEPT !.pc = "pooled"])

DeviceRefused(t) ==
  /\ call[t].pc = "pooled"
  /\ FailsWithout(t, {"pool", "execution"})

GiveDevice(t) ==
  \E d \in Devices :
    /\ call[t].pc = "pooled"
    /\ d \in call[t].on
    /\ device' = [device EXCEPT ![d] = [info |-> call[t].info, card |-> call[t].card]]
    /\ Gives(t, d)
    /\ UNCHANGED <<queue, buffer, runtime>>

(* dx_destroy_device, cleanup_device: the pool goes first, and with it     *)
(* every allocation in it; then the execution device and the handle.  The  *)
(* handles of buffers and queues stay behind.                              *)
DestroyDevice(t, d) ==
  LET inPool == {b \in Buffers : Alive(b) /\ buffer[b].of = d} IN
  /\ IsIdle(t)
  /\ Alive(d)
  /\ Quiet(d)
  /\ owned' = owned \ (Owns(d) \cup {<<"allocation", b>> : b \in inPool})
  /\ device' = [device EXCEPT ![d] = Absent]
  /\ buffer' = [b \in Buffers |-> IF b \in inPool THEN [buffer[b] EXCEPT !.of = Gone] ELSE buffer[b]]
  /\ queue' = [q \in Queues |->
                 IF Alive(q) /\ queue[q].of = d THEN [of |-> Gone] ELSE queue[q]]
  /\ UNCHANGED <<runtime, call, overran>>

-----------------------------------------------------------------------------
(* dx_device_queue and dx_destroy_queue                                    *)

(* A stream on the native device, or a host stream.                        *)
MakeStream(t, d, q) ==
  /\ IsIdle(t)
  /\ Alive(d)
  /\ Free(q)
  /\ Makes(t, {"stream"}, [pc |-> "streamed", on |-> {d, q}, of |-> d])

QueueRefused(t) ==
  /\ call[t].pc = "streamed"
  /\ FailsWithout(t, {"stream"})

GiveQueue(t) ==
  \E q \in Queues :
    /\ call[t].pc = "streamed"
    /\ q \in call[t].on
    /\ queue' = [queue EXCEPT ![q] = [of |-> call[t].of]]
    /\ Gives(t, q)
    /\ UNCHANGED <<device, buffer, runtime>>

(* Nothing of the device is touched: it may be gone.                       *)
DestroyQueue(t, q) ==
  /\ IsIdle(t)
  /\ Alive(q)
  /\ Quiet(q)
  /\ owned' = owned \ Owns(q)
  /\ queue' = [queue EXCEPT ![q] = Absent]
  /\ UNCHANGED <<device, buffer, runtime, call, overran>>

-----------------------------------------------------------------------------
(* dx_create_buffer_ex and dx_destroy_buffer                               *)

(* dx_memory_alloc in the pool of d.                                       *)
Allocate(t, d, b, size) ==
  /\ IsIdle(t)
  /\ Alive(d)
  /\ Free(b)
  /\ Makes(t, {"allocation"}, [pc |-> "allocated", on |-> {d, b}, of |-> d, size |-> size])

(* No memory for the handle: the allocation is given back to the pool.     *)
BufferRefused(t) ==
  /\ call[t].pc = "allocated"
  /\ FailsWithout(t, {"allocation"})

GiveBuffer(t) ==
  \E b \in Buffers :
    /\ call[t].pc = "allocated"
    /\ b \in call[t].on
    /\ buffer' = [buffer EXCEPT ![b] = [of |-> call[t].of, size |-> call[t].size]]
    /\ Gives(t, b)
    /\ UNCHANGED <<device, queue, runtime>>

DestroyBuffer(t, b) ==
  /\ IsIdle(t)
  /\ Alive(b)
  /\ buffer[b].of # Gone
  /\ Quiet(b)
  /\ owned' = owned \ Owns(b)
  /\ buffer' = [buffer EXCEPT ![b] = Absent]
  /\ UNCHANGED <<device, queue, runtime, call, overran>>

-----------------------------------------------------------------------------
(* dx_upload and dx_download                                               *)

RangeValid(size, offset, count) == offset <= size /\ count <= size - offset

(* A call of the memory pool of d, which may turn out well or not.         *)
Transfer(t, d, b, offset, count) ==
  /\ IsIdle(t)
  /\ Alive(d)
  /\ Alive(b)
  /\ buffer[b].of = d
  /\ RangeValid(buffer[b].size, offset, count)
  /\ Goes(t, [pc |-> "computing", on |-> {d, b}])
  /\ UNCHANGED <<handles, owned, overran>>

-----------------------------------------------------------------------------
(* The dx_la_ functions: handles and sizes are checked, the inputs copied  *)
(* into vectors, the arithmetic done and the result written.               *)

(* validate_buffers.                                                       *)
Belong(d, q, bs) ==
  /\ Alive(d)
  /\ Alive(q) /\ queue[q].of = d
  /\ \A b \in bs : Alive(b) /\ buffer[b].of = d

(* Mutant: softmax multiplies in 32 bits, too.                             *)
NarrowSoftmax(op, rows, dim) ==
  IF op \in {"rmsnorm", "softmax"} THEN (rows * dim) % Wrap ELSE rows * dim

(* The elements of the vector made for the first input: rmsnorm multiplies *)
(* in 32 bits, the others in 64.                                           *)
Vector(op, rows, dim) ==
  IF op = "rmsnorm" THEN (rows * dim) % Wrap ELSE rows * dim

(* The elements read into it, which is what the sizes of the buffers were  *)
(* checked for.                                                            *)
Read(rows, dim)    == rows * dim
Written(op, rows, dim) == IF op = "reduce" THEN rows ELSE rows * dim

(* Of a second input: gamma, the other operand, or the right factor (taken *)
(* to be square); none for the other functions.                            *)
ReadNext(op, rows, dim) ==
  CASE op = "rmsnorm" -> dim
    [] op = "elementwise" -> rows * dim
    [] op = "gemm" -> dim * dim
    [] OTHER -> 0

ReadInputs(t, d, q, op, out, in, next, rows, dim) ==
  /\ IsIdle(t)
  /\ Belong(d, q, {out, in, next})
  /\ buffer[in].size >= Read(rows, dim)
  /\ buffer[next].size >= ReadNext(op, rows, dim)
  /\ buffer[out].size >= Written(op, rows, dim)
  /\ overran' = IF Read(rows, dim) > Vector(op, rows, dim)
                THEN overran \cup {<<op, rows, dim>>} ELSE overran
  /\ Goes(t, [pc |-> "computing", on |-> {d, q, out, in, next}])
  /\ UNCHANGED <<handles, owned>>

(* The call returns: done, or an input could not be read, or the result    *)
(* not be written: nothing was kept.                                       *)
ComputeReturns(t) ==
  /\ call[t].pc = "computing"
  /\ Goes(t, Idle)
  /\ UNCHANGED <<handles, owned, overran>>

-----------------------------------------------------------------------------
(* dx_runtime_create and dx_runtime_destroy: the object with its logger,   *)
(* which goes with it when the manager cannot be made.                     *)

MakeRuntime(t, r, preference) ==
  /\ IsIdle(t)
  /\ Free(r)
  /\ Makes(t, {"logger"}, [pc |-> "runtime", on |-> {r}, wants |-> preference])

RuntimeRefused(t) ==
  /\ call[t].pc = "runtime"
  /\ FailsWithout(t, {"logger"})

GiveRuntime(t, shown) ==
  \E r \in Runtimes :
    /\ call[t].pc = "runtime"
    /\ r \in call[t].on
    /\ runtime' = [runtime EXCEPT ![r] =
                     [backend |-> Selected(Listed(shown), call[t].wants),
                      devices |-> Listed(shown).devices, wants |-> call[t].wants]]
    /\ owned' = (owned \ Owns(t)) \cup Hands(t, r) \cup {<<"manager", r>>}
    /\ Goes(t, Idle)
    /\ UNCHANGED <<device, queue, buffer, overran>>

DestroyRuntime(t, r) ==
  /\ IsIdle(t)
  /\ Alive(r)
  /\ Quiet(r)
  /\ owned' = owned \ Owns(r)
  /\ runtime' = [runtime EXCEPT ![r] = Absent]
  /\ UNCHANGED <<device, queue, buffer, call, overran>>

-----------------------------------------------------------------------------
HandlesNext ==
  \E t \in Threads :
    \/ \E d \in Devices, shown \in ShownLists :
         \E i \in 0 .. Len(shown) + 1 : ListDevices(t, d, i, shown)
    \/ OpenRefused(t) \/ OpenDevice(t)
    \/ PoolRefused(t) \/ MakePool(t)
    \/ DeviceRefused(t) \/ GiveDevice(t)
    \/ \E d \in Devices : DestroyDevice(t, d)
    \/ \E d \in Devices, q \in Queues : MakeStream(t, d, q)
    \/ QueueRefused(t) \/ GiveQueue(t)
    \/ \E q \in Queues : DestroyQueue(t, q)
    \/ \E d \in Devices, b \in Buffers, size \in Sizes : Allocate(t, d, b, size)
    \/ BufferRefused(t) \/ GiveBuffer(t)
    \/ \E b \in Buffers : DestroyBuffer(t, b)
    \/ \E d \in Devices, q \in Queues, op \in Ops, out, in, next \in Buffers, s \in Shapes :
         ReadInputs(t, d, q, op, out, in, next, s[1], s[2])
    \/ \E d \in Devices, b \in Buffers, offset \in 0 .. 1, count \in Sizes :
         Transfer(t, d, b, offset, count)
    \/ ComputeReturns(t)
    \/ \E r \in Runtimes, p \in Preferences : MakeRuntime(t, r, p)
    \/ RuntimeRefused(t)
    \/ \E shown \in ShownLists : GiveRuntime(t, shown)
    \/ \E r \in Runtimes : DestroyRuntime(t, r)

HandlesSpec == HandlesInit /\ [][HandlesNext]_handleVars

-----------------------------------------------------------------------------
(* Correctness.                                                            *)

(* What a call holds between two of its steps, and what a handle holds.    *)
HeldAt(pc) ==
  CASE pc = "listed"    -> {"manager"}
    [] pc = "opened"    -> {"execution"}
    [] pc = "pooled"    -> {"execution", "pool"}
    [] pc = "streamed"  -> {"stream"}
    [] pc = "allocated" -> {"allocation"}
    [] pc = "runtime"   -> {"logger"}
    [] OTHER -> {}

HeldBy(x) ==
  IF x \in Threads THEN HeldAt(call[x].pc)
  ELSE IF ~Alive(x) THEN {}
  ELSE IF x \in Devices THEN {"execution", "pool"}
  ELSE IF x \in Queues THEN {"stream"}
  ELSE IF x \in Buffers THEN IF buffer[x].of = Gone THEN {} ELSE {"allocation"}
  ELSE {"logger", "manager"}

(* Whatever fails at whatever point, of calls of several threads: every    *)
(* object of the layers below belongs to a handle that is alive or to a    *)
(* call that goes on with it, so nothing leaks, and none is missing under  *)
(* a handle that still needs it, a queue that outlived its device included *)
(* (dx_c_api.cpp:182-230 and 256-350; dx_runtime_api.cpp:96-117).          *)
OwnedExactly ==
  \A x \in Threads \cup Devices \cup Queues \cup Buffers \cup Runtimes :
    {o[1] : o \in Owns(x)} = HeldBy(x)

(* A device runs on the adapter its description is of, and a runtime that  *)
(* says dx12 has such a device, although software and failing adapters are *)
(* skipped and DXGI may show other ones each time (dx_device_api.cpp:      *)
(* 85-125 and 193-207; docs/DX_C_API_CHANGELOG.md, record 002).            *)
RunsOnWhatIsTold ==
  /\ \A d \in Devices : Alive(d) => device[d].card = device[d].info
  /\ \A r \in Runtimes : Alive(r) =>
       /\ runtime[r].backend = "dx12" => Len(runtime[r].devices) > 1
       /\ runtime[r].backend = "hip" => runtime[r].wants = "hip"

(* No dx_la_ function but rmsnorm copies more into its vector than it made *)
(* room for, and rmsnorm only when rows * dim needs more than 32 bits      *)
(* (dx_c_api.cpp:476-485, beside 510-515 and 537-540).                     *)
OnlyNormOverruns ==
  \A o \in overran : o[1] = "rmsnorm" /\ o[2] * o[3] >= Wrap
=============================================================================
