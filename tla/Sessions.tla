------------------------------ MODULE Sessions ------------------------------
(***************************************************************************)
(* What a process keeps from call to call, in parts that share nothing and *)
(* are checked together: plans of the C layer, command graphs, trace       *)
(* sessions, loggers of a component, compiled kernels, and the paths reads *)
(* are logged with.  A behaviour uses one of them.                         *)
(***************************************************************************)
EXTENDS GraphPlan, CommandGraph, TraceSession, ComponentLog, KernelCache, BypassPaths

VARIABLE service   (* the one in use                                       *)

sessionVars == <<planVars, commandVars, traceVars, logVars, kernelVars, pathVars, service>>

SessionsInit ==
  /\ service \in {"plans", "commands", "traces", "logs", "kernels", "paths"}
  /\ PlanInit /\ CommandInit /\ TraceInit /\ LogInit /\ KernelInit /\ BypassInit

UsePlans ==
  /\ service = "plans" /\ PlanNext
  /\ UNCHANGED <<commandVars, traceVars, logVars, kernelVars, pathVars, service>>
UseCommands ==
  /\ service = "commands" /\ CommandNext
  /\ UNCHANGED <<planVars, traceVars, logVars, kernelVars, pathVars, service>>
UseTraces ==
  /\ service = "traces" /\ TraceNext
  /\ UNCHANGED <<planVars, commandVars, logVars, kernelVars, pathVars, service>>
UseLogs ==
  /\ service = "logs" /\ LogNext
  /\ UNCHANGED <<planVars, commandVars, traceVars, kernelVars, pathVars, service>>
UseKernels ==
  /\ service = "kernels" /\ KernelNext
  /\ UNCHANGED <<planVars, commandVars, traceVars, logVars, pathVars, service>>
UsePaths ==
  /\ service = "paths" /\ BypassNext
  /\ UNCHANGED <<planVars, commandVars, traceVars, logVars, kernelVars, service>>

SessionsNext == UsePlans \/ UseCommands \/ UseTraces \/ UseLogs \/ UseKernels \/ UsePaths

SessionsSpec == SessionsInit /\ [][SessionsNext]_sessionVars
=============================================================================
