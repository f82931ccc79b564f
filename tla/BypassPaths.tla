---------------------------- MODULE BypassPaths -----------------------------
(***************************************************************************)
(* The path a read of dxait::DirectStorageContext is logged with, src/     *)
(* dxio/dxio.cpp, beside the path it takes.                                *)
(*                                                                         *)
(* DirectStorage is configured once for the process, by whoever makes the  *)
(* first context; whether a file can bypass the file system is asked once  *)
(* per context and file.  Payloads, the files read, come, and filter       *)
(* drivers come and go, whatever a context remembers.  A file that is      *)
(* there stays, so that m_files only saves opening it again.  Left out:    *)
(* the request itself, which DirectStorage.tla is about, and the rest of a *)
(* log line.                                                               *)
(***************************************************************************)
CONSTANTS
  Contexts,
  Payloads,
  None          (* no context, no answer, no choice made yet               *)

Answers == {"missing", "supported", "filtered", "incompatible"}

ASSUME NoneAssumption == None \notin BOOLEAN /\ None \notin Answers

VARIABLES
  choice,       (* g_config_bypassio_on, once somebody has made it         *)
  declined,     (* DStorageSetConfiguration1 failed, and is not tried again *)
  context,      (* m_enable_bypassio and m_capabilities                    *)
  volume,       (* what the file system would answer for each file now     *)
  logged        (* the last read: its path in the log, the one it took,    *)
               (* and whether the volume had changed                      *)

pathVars == <<choice, declined, context, volume, logged>>

BypassInit ==
  /\ choice = None
  /\ declined = FALSE
  /\ context = [c \in Contexts |-> None]
  /\ volume = [f \in Payloads |-> "missing"]
  /\ logged = None

(* Mutant: a context goes by its own wish.                                 *)
OwnWish(wish, chosen) == wish

(* The first choice of the process holds for every context.                *)
Effective(wish, chosen) == chosen

(* ensure_process_config, then factory, queue and status array, any of     *)
(* which may fail: the configuration stays.                                *)
MakeContext(c, wish, works, fails) ==
  LET chosen == IF choice = None THEN wish ELSE choice IN
  /\ context[c] = None
  /\ choice' = chosen
  /\ declined' = IF choice = None THEN fails ELSE declined
  /\ context' = IF works
                THEN [context EXCEPT ![c] =
                        [on |-> Effective(wish, chosen), known |-> [f \in Payloads |-> None]]]
                ELSE context
  /\ UNCHANGED <<volume, logged>>

(* probe_file_bypassio: a file that cannot be opened cannot bypass.        *)
Probe(f) == volume[f]

(* bypass_capability: what was found first is remembered.                  *)
Remembers(ctx, f) ==
  IF ctx.known[f] = None THEN [ctx EXCEPT !.known[f] = Probe(f)] ELSE ctx

AskCapability(c, f) ==
  /\ context[c] # None
  /\ context' = [context EXCEPT ![c] = Remembers(@, f)]
  /\ UNCHANGED <<choice, declined, volume, logged>>

Classified(on, answer, aligned) ==
  CASE ~on                   -> "disabled"
    [] answer # "supported"  -> "unsupported"
    [] ~aligned              -> "unaligned"
    [] OTHER                 -> "bypass"

(* What DirectStorage does of itself, unless its configuration was taken.  *)
Taken(f, aligned) == Classified(choice \/ declined, volume[f], aligned)

(* open_file, which probes a file it opens first and fails if it is        *)
(* missing; then the path is decided and remembered for the log.           *)
Enqueue(c, f, aligned) ==
  LET ctx == Remembers(context[c], f) IN
  /\ context[c] # None
  /\ volume[f] # "missing"
  /\ context' = [context EXCEPT ![c] = ctx]
  /\ logged' = [says |-> Classified(ctx.on, ctx.known[f], aligned),
                took |-> Taken(f, aligned), changed |-> ctx.known[f] # volume[f]]
  /\ UNCHANGED <<choice, declined, volume>>

DestroyContext(c) ==
  /\ context[c] # None
  /\ context' = [context EXCEPT ![c] = None]
  /\ UNCHANGED <<choice, declined, volume, logged>>

(* A file is written, a filter driver attached or taken off.               *)
VolumeChanges(f, answer) ==
  /\ answer # "missing"
  /\ volume' = [volume EXCEPT ![f] = answer]
  /\ UNCHANGED <<choice, declined, context, logged>>

BypassNext ==
  \/ \E c \in Contexts :
       \/ \E wish, works, fails \in BOOLEAN : MakeContext(c, wish, works, fails)
       \/ \E f \in Payloads : AskCapability(c, f) \/ \E aligned \in BOOLEAN : Enqueue(c, f, aligned)
       \/ DestroyContext(c)
  \/ \E f \in Payloads, answer \in Answers : VolumeChanges(f, answer)

-----------------------------------------------------------------------------
(* Of several contexts with different wishes, made at any time, the log    *)
(* tells how a read went, unless the volume changed since the context      *)
(* first asked, or the first context wished no bypass and Windows declined *)
(* its configuration: then "disabled" is logged for reads that were not    *)
(* (dxio.cpp:31-54, 98-100, 125-157 and 194-212).                          *)
OnlyOldAnswersMislog ==
  logged # None /\ logged.says # logged.took =>
    \/ logged.changed
    \/ declined /\ logged.says = "disabled"
=============================================================================
