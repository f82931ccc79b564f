---------------------------- MODULE ComponentLog ----------------------------
(***************************************************************************)
(* dxait::core::ComponentLogger and TraceSpan, src/core/dx_log.cpp, and    *)
(* the handles of src/core/dx_core_api.cpp: every object of the C layer    *)
(* has a logger of its own.                                                *)
(*                                                                         *)
(* The loggers here are of one component and one process, so the name of   *)
(* their files differs by the second only.  A message longer than the      *)
(* buffer of a stream reaches its file in two pieces.  Left out: a stream  *)
(* that goes bad, whose logger writes nothing any more, and initialize and *)
(* shutdown outside of create and destroy, which nothing in src calls.     *)
(***************************************************************************)
EXTENDS Naturals, Sequences, SequencesExt, FiniteSets

CONSTANTS
  Loggers, Writers,
  Modes,              (* LogMode: debug, trace, perf, diagnostic           *)
  Values,             (* of variables of the environment, "unset" for none *)
  MaxSecond, MaxLogs  (* bounds: of the clock, of records written          *)

ASSUME LogAssumption ==
  {"trace", "perf"} \subseteq Modes /\ MaxSecond \in Nat /\ MaxLogs \in Nat

VARIABLES
  second,       (* of the clock                                            *)
  logger,       (* ComponentLogger: m_config.modes and the file m_stream   *)
                (* has open                                                *)
  logFile,      (* what each file holds                                    *)
  writing,      (* what each thread is doing                               *)
  spanLog,      (* TraceSpan: the logger of each thread's, if it has one   *)
  written,      (* history: records, first lines of files included         *)
  opened,       (* history: the modes of those who opened each file        *)
  excused       (* history: files that two loggers had open at a time      *)

logVars == <<second, logger, logFile, writing, spanLog, written, opened, excused>>

Closed  == MaxSecond + 1
Files   == 0 .. MaxSecond
NoLog   == "none"
Gone    == [exists |-> FALSE, modes |-> {}, file |-> Closed]
Writing(t, w) == writing' = [writing EXCEPT ![t] = w]
NotWriting    == [at |-> "rest"]

LogInit ==
  /\ second = 0
  /\ logger = [l \in Loggers |-> Gone]
  /\ logFile = [f \in Files |-> <<>>]
  /\ writing = [t \in Writers |-> NotWriting]
  /\ spanLog = [t \in Writers |-> NoLog]
  /\ written = 0
  /\ opened = [f \in Files |-> {}]
  /\ excused = {}

(* Mutant: a writer does not hold the lock through its record.             *)
LockedForOne(l) == FALSE

(* m_mutex is held from the first piece of a record to the last.           *)
Locked(l) == \E t \in Writers : writing[t].at = "half" /\ writing[t].log = l

Passes ==
  /\ second < MaxSecond
  /\ second' = second + 1
  /\ UNCHANGED <<logger, logFile, writing, spanLog, written, opened, excused>>

-----------------------------------------------------------------------------
(* The environment, dx12_<component>_<mode>, may be another at every       *)
(* question; an empty variable counts as none.                             *)
IsOn(value) == value \notin {"unset", "0", "false", "off", "no"}
ReadModes   == {{m \in Modes : IsOn(values[m])} : values \in [Modes -> Values]}

(* initialize: nothing is opened for no mode, the file of the second is    *)
(* for others, and failures leave a logger that says it is enabled.        *)
Shared(f) == \E l \in Loggers : logger[l].file = f

Opens(l, modes) ==
  /\ modes # {}
  /\ written < MaxLogs /\ written' = written + 1
  /\ logger' = [logger EXCEPT ![l] = [exists |-> TRUE,
                                      modes |-> modes, file |-> second]]
  /\ logFile' = [logFile EXCEPT ![second] = Append(@, [by |-> l, level |-> "header", last |-> TRUE])]
  /\ opened' = [opened EXCEPT ![second] = @ \cup modes]
  /\ excused' = IF Shared(second) THEN excused \cup {second} ELSE excused

OpensNone(l, modes) ==
  /\ logger' = [logger EXCEPT ![l] = [exists |-> TRUE,
                                      modes |-> modes, file |-> Closed]]
  /\ UNCHANGED <<logFile, written, opened, excused>>

(* dx_component_logger_create hands the logger out however that went.      *)
CreateLog(l) ==
  /\ ~logger[l].exists
  /\ \E modes \in ReadModes : Opens(l, modes) \/ OpensNone(l, modes)
  /\ UNCHANGED <<second, writing, spanLog>>

(* dx_component_logger_destroy, of a logger nobody uses.                   *)
DestroyLog(l) ==
  /\ logger[l].exists
  /\ \A t \in Writers : spanLog[t] # l /\ (writing[t].at # "rest" => writing[t].log # l)
  /\ logger' = [logger EXCEPT ![l] = Gone]
  /\ UNCHANGED <<second, logFile, writing, spanLog, written, opened, excused>>

-----------------------------------------------------------------------------
(* enabled, read without the lock                                          *)
Enabled(l, mode) == mode \in logger[l].modes

(* write: the level tells the mode; it asks first and then takes the lock. *)
Asks(t, l, mode, long) ==
  Writing(t, IF Enabled(l, mode) THEN [at |-> "enabled", log |-> l, mode |-> mode, long |-> long]
             ELSE NotWriting)

Write(t, l, mode, long) ==
  /\ writing[t] = NotWriting
  /\ logger[l].exists
  /\ written < MaxLogs
  /\ Enabled(l, mode) /\ Asks(t, l, mode, long)
  /\ UNCHANGED <<second, logger, logFile, spanLog, written, opened, excused>>

(* The constructor of TraceSpan: it is enabled if either mode is, and      *)
(* writes its begin as a trace.                                            *)
SpanBegins(t, l) ==
  /\ writing[t] = NotWriting
  /\ spanLog[t] = NoLog
  /\ logger[l].exists
  /\ written < MaxLogs
  /\ Enabled(l, "trace") \/ Enabled(l, "perf")
  /\ spanLog' = [spanLog EXCEPT ![t] = l]
  /\ Asks(t, l, "trace", FALSE)
  /\ UNCHANGED <<second, logger, logFile, written, opened, excused>>

(* The destructor writes the end as a performance record.                  *)
SpanEnds(t) ==
  /\ writing[t] = NotWriting
  /\ spanLog[t] # NoLog
  /\ written < MaxLogs
  /\ spanLog' = [spanLog EXCEPT ![t] = NoLog]
  /\ Asks(t, spanLog[t], "perf", FALSE)
  /\ UNCHANGED <<second, logger, logFile, written, opened, excused>>

Record(w, last) == [by |-> w.log, level |-> w.mode, last |-> last]

Puts(w, last) ==
  LET l == w.log IN
  logFile' = [logFile EXCEPT ![logger[l].file] = Append(@, Record(w, last))]

WriteLocks(t) ==
  LET w == writing[t] IN
  /\ w.at = "enabled"
  /\ ~Locked(w.log)
  /\ IF logger[w.log].file = Closed
     THEN Writing(t, NotWriting) /\ UNCHANGED <<logFile, written>>
     ELSE /\ written < MaxLogs /\ written' = written + 1
          /\ Puts(w, ~w.long)
          /\ Writing(t, IF w.long THEN [w EXCEPT !.at = "half"] ELSE NotWriting)
  /\ UNCHANGED <<second, logger, spanLog, opened, excused>>

WriteEnds(t) ==
  LET w == writing[t] IN
  /\ w.at = "half"
  /\ Puts(w, TRUE)
  /\ Writing(t, NotWriting)
  /\ UNCHANGED <<second, logger, spanLog, written, opened, excused>>

LogNext ==
  \/ Passes
  \/ \E l \in Loggers : CreateLog(l) \/ DestroyLog(l)
  \/ \E t \in Writers, l \in Loggers :
       SpanBegins(t, l) \/ \E mode \in Modes, long \in BOOLEAN : Write(t, l, mode, long)
  \/ \E t \in Writers : SpanEnds(t) \/ WriteLocks(t) \/ WriteEnds(t)

-----------------------------------------------------------------------------
(* A record of a file is whole, with nothing of another in its middle, and *)
(* of a mode that was on as the file was opened, unless another logger of  *)
(* the component had the file open as well: two objects made in one second *)
(* have one file and two locks (dx_log.cpp:93-96 and 137-166).             *)
OnlySharingTearsLogs ==
  \A f \in Files \ excused : LET pieces == logFile[f] IN
    \A i \in DOMAIN pieces :
      /\ pieces[i].level \in opened[f] \cup {"header"}
      /\ ~pieces[i].last =>
           IF i < Len(pieces) THEN pieces[i + 1] = [pieces[i] EXCEPT !.last = TRUE]
           ELSE Locked(pieces[i].by)
=============================================================================
