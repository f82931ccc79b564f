---------------------------- MODULE KernelCache -----------------------------
(***************************************************************************)
(* dxait::PipelineCache over ShaderCompiler, src/dxjit/dxjit.cpp, as its   *)
(* two users with more than one kernel ask it: AttentionOps and TritonJIT. *)
(* Each user has a cache; a cache is locked while it compiles.             *)
(*                                                                         *)
(* A kernel is its source, a member of a small set.  Left out: what the    *)
(* compiler is told besides it (all users take the defaults) and what      *)
(* kernels compute.                                                        *)
(***************************************************************************)
EXTENDS Naturals

CONSTANTS
  Specs,        (* TritonKernelSpec: block sizes and the size of a wave    *)
  Signatures    (* root signatures a client of TritonJIT may bring         *)

VARIABLES
  pipelines,    (* m_cache of each user: what was compiled under each key  *)
  compiling,    (* the request each user compiles, with its lock held      *)
  dispatched    (* the last request that was answered, and the pipeline    *)

kernelVars == <<pipelines, compiling, dispatched>>

Users == {"attention", "triton"}
Own   == "own"              (* the root signature of the user itself       *)
NoRequest == [user |-> "none"]

Mechanisms ==
  {"mha", "gqa", "mqa", "sliding", "flash", "chunked", "ring", "linear", "paged", "h2o"}

(* Mutant: the kernel with the block table goes by the name of the other.  *)
PagedAsFlash(m) ==
  CASE m \in {"flash", "chunked", "ring", "paged"} -> "flash_attn"
    [] m = "linear" -> "linear_attn"
    [] m = "h2o"    -> "h2o_attn"
    [] OTHER        -> "sdpa"

(* dispatch_attention: ten mechanisms, five kernels and their names.       *)
KeyOf(m) ==
  CASE m \in {"flash", "chunked", "ring"} -> "flash_attn"
    [] m = "linear" -> "linear_attn"
    [] m = "paged"  -> "paged_attn"
    [] m = "h2o"    -> "h2o_attn"
    [] OTHER        -> "sdpa"

SourceOf(m) ==
  CASE m \in {"flash", "chunked", "ring"} -> "online softmax"
    [] m = "linear" -> "linear"
    [] m = "paged"  -> "block table"
    [] m = "h2o"    -> "keep mask"
    [] OTHER        -> "softmax"

AttentionRequests ==
  {[user |-> "attention", key |-> KeyOf(m), source |-> <<SourceOf(m), "fixed">>,
    signature |-> Own] : m \in Mechanisms}

(* generate_triton_matmul_hlsl, generate_triton_attention_hlsl: the source *)
(* depends on the spec, the name of the entry point does not.              *)
Generated(entry, spec) == <<entry, spec>>

(* compile_triton_kernel: the entry point is the key.                      *)
TritonRequests ==
  {[user |-> "triton", key |-> entry, source |-> Generated(entry, spec), signature |-> s] :
     entry \in {"triton_matmul_kernel", "triton_attention_kernel"},
     spec \in Specs, s \in Signatures \cup {Own}}

Requests == AttentionRequests \cup TritonRequests

KernelInit ==
  /\ pipelines = [u \in Users |-> {}]
  /\ compiling = [u \in Users |-> NoRequest]
  /\ dispatched = <<>>

Busy(u) == compiling[u] # NoRequest
Found(r)  == {p \in pipelines[r.user] : p.key = r.key}

(* A pipeline of that name: whatever was compiled under it first.          *)
Hit(r) ==
  /\ ~Busy(r.user)
  /\ \E p \in Found(r) : dispatched' = <<r, p>>
  /\ UNCHANGED <<pipelines, compiling>>

(* None: it is compiled, and everyone else kept out meanwhile.             *)
Miss(r) ==
  /\ ~Busy(r.user)
  /\ Found(r) = {}
  /\ compiling' = [compiling EXCEPT ![r.user] = r]
  /\ UNCHANGED <<pipelines, dispatched>>

(* The compiler or the device refuses: an exception, and nothing is kept.  *)
Refused(u) ==
  /\ Busy(u)
  /\ compiling' = [compiling EXCEPT ![u] = NoRequest]
  /\ UNCHANGED <<pipelines, dispatched>>

Finish(u) ==
  /\ Busy(u)
  /\ pipelines' = [pipelines EXCEPT ![u] = @ \cup {compiling[u]}]
  /\ dispatched' = <<compiling[u], compiling[u]>>
  /\ compiling' = [compiling EXCEPT ![u] = NoRequest]

KernelNext ==
  \/ \E r \in Requests : Hit(r) \/ Miss(r)
  \/ \E u \in Users : Refused(u) \/ Finish(u)

-----------------------------------------------------------------------------
(* Whoever asks first, fails or comes later: a dispatch runs the kernel    *)
(* and the root signature its caller asked for, and only kernels of Triton *)
(* that share an entry point stand in for each other (dxjit.cpp:122-128,   *)
(* dxattention.cpp:452-471, dxtriton.cpp:101-108).                         *)
OnlyTritonStandsIn ==
  \/ dispatched = <<>>
  \/ dispatched[1] = dispatched[2]
  \/ \A i \in {1, 2} : dispatched[i] \in TritonRequests /\ dispatched[i].key = dispatched[1].key
=============================================================================
