---------------------------- MODULE TraceSession ----------------------------
(***************************************************************************)
(* A trace session, src/core/dx_trace_api.cpp: spans that threads begin,   *)
(* end and destroy while others export the session to files.               *)
(*                                                                         *)
(* A call is cut where it takes or gives back the lock of the session, and *)
(* where a file is opened or closed.  A file holds what fits in the buffer *)
(* of its stream, which is written as the stream is closed.                *)
(***************************************************************************)
EXTENDS Integers, Sequences, SequencesExt, FiniteSets, Selections

CONSTANTS
  Tracers,     (* threads                                                  *)
  Spans,       (* addresses of spans                                       *)
  Paths,       (* files                                                    *)
  MaxEvents, MaxTime  (* bounds: of events, of the clock                   *)

ASSUME TraceAssumption ==
  MaxEvents \in Nat /\ MaxTime \in Nat

VARIABLES
  time,        (* steady_clock, since the origin of the session            *)
  events,      (* dx_trace_session_t::events                               *)
  span,        (* dx_trace_span_t: its event and whether it has ended      *)
  file,        (* what each file holds: events, in the order of the list   *)
  tracing,     (* what each thread is doing                                *)
  ends,        (* history: calls of dx_trace_end that returned 0, by event *)
  due,         (* history: what was complete as the file was last opened   *)
  spoiled      (* history: files that two exports had open at a time, or   *)
               (* that could not be written as they were closed            *)

traceVars == <<time, events, span, file, tracing, ends, due, spoiled>>

Destroyed == [event |-> 0, ended |-> FALSE]
AtRest    == [at |-> "rest"]

TraceInit ==
  /\ time = 0
  /\ events = <<>>
  /\ span = [s \in Spans |-> Destroyed]
  /\ file = [p \in Paths |-> <<>>]
  /\ tracing = [t \in Tracers |-> AtRest]
  /\ ends = [e \in 1 .. MaxEvents |-> 0]
  /\ due = [p \in Paths |-> {}]
  /\ spoiled = {}

Resting(t)   == tracing[t] = AtRest
Continue(t, c) == tracing' = [tracing EXCEPT ![t] = c]
InCall(s)    == \E t \in Tracers : tracing[t].at \in {"begin", "end"} /\ tracing[t].span = s

Tick ==
  /\ time < MaxTime
  /\ time' = time + 1
  /\ UNCHANGED <<events, span, file, tracing, ends, due, spoiled>>

-----------------------------------------------------------------------------
(* dx_trace_begin: the time is taken before the lock, so events need not   *)
(* be listed in the order of their times.                                  *)
BeginTakesTime(t, s) ==
  /\ Resting(t)
  /\ span[s] = Destroyed /\ ~InCall(s)
  /\ Continue(t, [at |-> "begin", span |-> s, time |-> time])
  /\ UNCHANGED <<time, events, span, file, ends, due, spoiled>>

BeginAppends(t) ==
  LET c == tracing[t] IN
  /\ c.at = "begin"
  /\ Len(events) < MaxEvents
  /\ events' = Append(events, [begin |-> c.time, duration |-> 0, complete |-> FALSE])
  /\ span' = [span EXCEPT ![c.span] = [event |-> Len(events) + 1, ended |-> FALSE]]
  /\ Continue(t, AtRest)
  /\ UNCHANGED <<time, file, ends, due, spoiled>>

(* No memory, here or for the list: nothing is kept.                       *)
BeginFails(t) ==
  /\ tracing[t].at = "begin"
  /\ Continue(t, AtRest)
  /\ UNCHANGED <<time, events, span, file, ends, due, spoiled>>

-----------------------------------------------------------------------------
(* dx_trace_end: the span is looked at without the lock.                   *)
EndLooks(t, s) ==
  /\ Resting(t)
  /\ span[s].event # 0
  /\ ~span[s].ended
  /\ Continue(t, [at |-> "end", span |-> s])
  /\ UNCHANGED <<time, events, span, file, ends, due, spoiled>>

(* Mutant: nobody looks again under the lock.                              *)
NotLookedAtAgain(s) == TRUE

(* Nobody has ended it meanwhile.                                          *)
StillOpen(s) == ~span[s].ended /\ ~events[span[s].event].complete

Elapsed(e) == time - events[e].begin

EndRecords(t) ==
  LET s == tracing[t].span
      e == span[s].event IN
  /\ tracing[t].at = "end"
  /\ StillOpen(s)
  /\ events' = [events EXCEPT ![e].duration = Elapsed(e), ![e].complete = TRUE]
  /\ span' = [span EXCEPT ![s].ended = TRUE]
  /\ ends' = [ends EXCEPT ![e] = @ + 1]
  /\ Continue(t, AtRest)
  /\ UNCHANGED <<time, file, due, spoiled>>

EndRefused(t) ==
  /\ tracing[t].at = "end"
  /\ ~StillOpen(tracing[t].span)
  /\ Continue(t, AtRest)
  /\ UNCHANGED <<time, events, span, file, ends, due, spoiled>>

(* dx_trace_span_destroy, once no call is under way on the span: its event *)
(* stays, complete or not.                                                 *)
DestroySpan(s) ==
  /\ span[s] # Destroyed
  /\ ~InCall(s)
  /\ span' = [span EXCEPT ![s] = Destroyed]
  /\ UNCHANGED <<time, events, file, tracing, ends, due, spoiled>>

-----------------------------------------------------------------------------
(* dx_trace_export                                                         *)
Exporting(p) == {t \in Tracers : tracing[t].at \in {"opened", "written"} /\ tracing[t].path = p}
IsDone(e)    == events[e].complete
Done         == {e \in DOMAIN events : IsDone(e)}

(* The file is emptied before the lock is taken.                           *)
ExportOpens(t, p) ==
  /\ Resting(t)
  /\ file' = [file EXCEPT ![p] = <<>>]
  /\ Continue(t, [at |-> "opened", path |-> p])
  /\ due' = [due EXCEPT ![p] = Done]
  /\ spoiled' = IF Exporting(p) = {} THEN spoiled ELSE spoiled \cup {p}
  /\ UNCHANGED <<time, events, span, ends>>

(* Mutant: events that are not complete are written, too.                  *)
AllEvents == [e \in 1 .. Len(events) |-> e]

Exported == Ascending(Done, Len(events))

(* Under the lock, into the buffer of the stream.                          *)
ExportWrites(t) ==
  LET c == tracing[t] IN
  /\ c.at = "opened"
  /\ Continue(t, [at |-> "written", path |-> c.path, text |-> Exported])
  /\ UNCHANGED <<time, events, span, file, ends, due, spoiled>>

(* The lock is given back first, and output.good() was asked before that.  *)
(* A stream writes from the start of its file, over what another stream    *)
(* may have written.                                                       *)
ExportCloses(t) ==
  LET c == tracing[t] IN
  /\ c.at = "written"
  /\ file' = [file EXCEPT ![c.path] =
                c.text \o SubSeq(@, Len(c.text) + 1, Len(@))]
  /\ Continue(t, AtRest)
  /\ UNCHANGED <<time, events, span, ends, due, spoiled>>

(* What is left in the buffer cannot be written; 0 is returned all the     *)
(* same.                                                                   *)
ExportLoses(t) ==
  /\ tracing[t].at = "written"
  /\ spoiled' = spoiled \cup {tracing[t].path}
  /\ Continue(t, AtRest)
  /\ UNCHANGED <<time, events, span, file, ends, due>>

TraceNext ==
  \/ Tick
  \/ \E s \in Spans : DestroySpan(s)
  \/ \E t \in Tracers :
       \/ \E s \in Spans : BeginTakesTime(t, s) \/ EndLooks(t, s)
       \/ BeginAppends(t) \/ BeginFails(t)
       \/ EndRecords(t) \/ EndRefused(t)
       \/ \E p \in Paths : ExportOpens(t, p)
       \/ ExportWrites(t) \/ ExportCloses(t) \/ ExportLoses(t)

-----------------------------------------------------------------------------
(* However many threads end a span at once, one of them is told it did,    *)
(* and the event is complete from then on (dx_trace_api.cpp:149-160;       *)
(* docs/TRACE_TRACE_SESSION_CONTRACT.md: "valid end | duration recorded    *)
(* exactly once", "double end | error; stored event unchanged").           *)
OneEndCounts ==
  \A e \in DOMAIN events : ends[e] = IF events[e].complete THEN 1 ELSE 0

(* A file nobody is writing holds events that are complete, in the order   *)
(* of the session and with all that were complete before the export, and   *)
(* no more, unless two exports had it open at a time or its last buffer    *)
(* was lost (dx_trace_api.cpp:180-204; the contract: "JSON document        *)
(* contains complete events").                                             *)
OnlyOverlapsSpoilFiles ==
  \A p \in Paths \ spoiled :
    Exporting(p) = {} =>
      /\ due[p] \subseteq ToSet(file[p])
      /\ \A i \in DOMAIN file[p] : IsDone(file[p][i])
      /\ \A i \in 1 .. Len(file[p]) - 1 : file[p][i] < file[p][i + 1]
=============================================================================
