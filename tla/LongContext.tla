---------------------------- MODULE LongContext -----------------------------
(***************************************************************************)
(* dxait::LongContextEngine, src/dxcontext/dxcontext.cpp: a window of      *)
(* tokens in memory of the device and the rest in system memory.           *)
(*                                                                         *)
(* Bytes are proportional to tokens (calculate_kv_bytes), so buffers are   *)
(* measured in tokens.  Left out: translate_context_for_model and          *)
(* quantize_kv_cache, which change nothing, and the compression ratio.     *)
(***************************************************************************)
EXTENDS Naturals

CONSTANTS
  Window, MaxTokens, Offloading,     (* ContextConfig                      *)
  FirstTarget,                       (* active_target_tokens at first      *)
  Block,                             (* tokens an offload copies: 1024     *)
  Targets, Appended,                 (* tokens clients name                *)
  Words                              (* how many values uint32_t has       *)

ASSUME ContextAssumption ==
  /\ {Window, MaxTokens, FirstTarget, Block} \cup Targets \cup Appended \subseteq Nat
  /\ Words \in Nat \ {0}
  /\ Offloading \in BOOLEAN

VARIABLES
  stats,      (* ContextStats                                              *)
  cold,       (* m_sysram_kv_cache: its size, 0 if there is none           *)
  beyond      (* history: copies that left a buffer                        *)

contextVars == <<stats, cold, beyond>>

Lesser(a, b) == IF a < b THEN a ELSE b
Rest(n)      == IF n > Window THEN n - Window ELSE 0

(* The constructor takes the first target as it is.                        *)
ContextInit ==
  LET made == IF Offloading THEN Rest(FirstTarget) ELSE 0 IN
  /\ stats = [active |-> 0, target |-> FirstTarget, vram |-> 0, sysram |-> 0, sysBytes |-> made]
  /\ cold = made
  /\ beyond = {}

(* Mutant: the buffer there is serves every target.                        *)
KeepsBuffer(target) == IF cold = 0 THEN Rest(target) ELSE cold

(* A buffer for the rest of the target, if there is a rest.                *)
Resized(target) == IF Offloading /\ Rest(target) > 0 THEN Rest(target) ELSE cold

SetTarget(n) ==
  LET target == Lesser(n, MaxTokens) IN
  /\ cold' = Resized(target)
  /\ stats' = [stats EXCEPT !.target = target, !.sysBytes = cold']
  /\ UNCHANGED beyond

(* Nothing is compared with the target, and 32 bits wrap.                  *)
AppendTokens(n) ==
  LET active == (stats.active + n) % Words IN
  /\ stats' = [stats EXCEPT !.active = active, !.vram = Lesser(active, Window),
                            !.sysram = Rest(active)]
  /\ UNCHANGED <<cold, beyond>>

Copies(op, n) ==
  /\ beyond' = IF n > Lesser(Window, cold) THEN beyond \cup {[op |-> op, tokens |-> n, cold |-> cold]}
               ELSE beyond
  /\ UNCHANGED <<stats, cold>>

OffloadCold ==
  /\ Offloading /\ cold > 0 /\ stats.sysram > 0
  /\ Copies("offload", Block)

Prefetch(n) ==
  /\ Offloading /\ cold > 0 /\ n > 0
  /\ Copies("prefetch", n)

ContextNext ==
  \/ \E n \in Targets : SetTarget(n)
  \/ \E n \in Appended : AppendTokens(n) \/ Prefetch(n)
  \/ OffloadCold

-----------------------------------------------------------------------------
(* Through targets that grow and shrink and tokens that wrap: the two      *)
(* parts add up, what the statistics tell of the buffer is its size, a     *)
(* context within its target fits the buffers, and an offload leaves a     *)
(* buffer only if the window or the rest of some target is shorter than    *)
(* the block it always copies (dxcontext.cpp:41-59 and 83-101).            *)
ContextFits ==
  /\ stats.vram + stats.sysram = stats.active
  /\ stats.sysBytes = cold
  /\ Offloading /\ stats.active <= stats.target =>
       stats.vram <= Window /\ stats.sysram <= cold
  /\ \A c \in beyond : c.op = "offload" =>
       Window < Block \/ \E n \in Targets \cup {FirstTarget, MaxTokens} : Rest(n) = c.cold /\ Rest(n) < Block
=============================================================================
