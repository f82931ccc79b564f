----------------------------- MODULE Scheduler ------------------------------
(***************************************************************************)
(* dxait::MultiQueueScheduler, src/dxsched/dxsched.cpp: several threads    *)
(* submit lists to two queues and wait for both, under one lock that is    *)
(* kept while a thread waits.  The destructor waits like any thread.       *)
(***************************************************************************)
EXTENDS QueueFence

CONSTANTS
  WorkFence,    (* the fence of each queue of the scheduler                *)
  Work          (* the owner of the lists                                  *)

Nobody == "nobody"

ASSUME SchedulerAssumption ==
  /\ WorkFence \in [{"direct", "compute"} -> Fences]
  /\ DOMAIN WorkFence \subseteq Queues
  /\ WorkFence["direct"] # WorkFence["compute"]
  /\ Work \in Objects
  /\ Nobody \notin Threads

VARIABLES
  submitted,    (* m_direct_val and m_compute_val                          *)
  holder,       (* who has m_mutex                                         *)
  waiting       (* where the holder is in wait_all                         *)

scheduleVars == <<submitted, holder, waiting>>

ScheduleInit ==
  /\ submitted = [q \in DOMAIN WorkFence |-> 0]
  /\ holder = Nobody
  /\ waiting = [at |-> "not", on |-> "direct"]

(* submit_direct_work, submit_compute_work: the lock is taken and given    *)
(* back, and nothing in between blocks.                                    *)
Submit(t, q) ==
  /\ holder = Nobody
  /\ submitted[q] < MaxValue
  /\ submitted' = [submitted EXCEPT ![q] = @ + 1]
  /\ ExecuteAndSignal(Work, q, WorkFence[q], submitted'[q])
  /\ UNCHANGED <<holder, waiting, ownVars>>

(* wait_all takes the lock.                                                *)
WaitAll(t) ==
  /\ holder = Nobody
  /\ holder' = t
  /\ waiting' = [at |-> "asking", on |-> "direct"]
  /\ UNCHANGED <<submitted, fenceVars>>

(* Mutant: the lock is not given back.                                     *)
KeepsLock ==
  /\ waiting' = IF waiting.on = "direct" THEN [at |-> "asking", on |-> "compute"]
                ELSE [at |-> "not", on |-> "direct"]
  /\ UNCHANGED holder

(* First the direct queue, then the other, then the lock is given back.    *)
GoesOn ==
  IF waiting.on = "direct"
  THEN waiting' = [at |-> "asking", on |-> "compute"] /\ UNCHANGED holder
  ELSE waiting' = [at |-> "not", on |-> "direct"] /\ holder' = Nobody

(* Mutant: the count of the direct queue, for both.                        *)
DirectValue(q) == submitted["direct"]

WaitedFor(q) == submitted[q]

AsksFence ==
  LET q == waiting.on IN
  /\ waiting.at = "asking"
  /\ \/ WaitedFor(q) = 0 /\ GoesOn /\ UNCHANGED fenceVars
     \/ WaitedFor(q) > 0 /\ Passes(WorkFence[q], WaitedFor(q)) /\ GoesOn
     \/ /\ WaitedFor(q) > 0 /\ Registers(WorkFence[q], WaitedFor(q))
        /\ waiting' = [waiting EXCEPT !.at = "registered"] /\ UNCHANGED holder
  /\ UNCHANGED submitted

WaitsForFence ==
  LET f == WorkFence[waiting.on] IN
  /\ waiting.at = "registered"
  /\ \/ FindsSet(f) /\ GoesOn
     \/ Blocks(holder, f) /\ waiting' = [waiting EXCEPT !.at = "blocked"] /\ UNCHANGED holder
  /\ UNCHANGED submitted

WakesUp ==
  /\ waiting.at = "blocked"
  /\ IsAwake(holder)
  /\ GoesOn
  /\ UNCHANGED <<submitted, fenceVars>>

ListDone == \E l \in lists : ListFinishes(l) /\ UNCHANGED ownVars

WaitStep == AsksFence \/ WaitsForFence \/ WakesUp

ScheduleNext ==
  \/ \E t \in Threads : WaitAll(t) \/ \E q \in DOMAIN WorkFence : Submit(t, q)
  \/ WaitStep
  \/ (ListDone \/ GpuSignals \/ EventFires) /\ UNCHANGED scheduleVars

-----------------------------------------------------------------------------
(* When wait_all gives the lock back nothing that was ever submitted is    *)
(* still to be done, on either queue, whoever submitted it and whoever     *)
(* waited for an earlier value on the same event (dxsched.cpp:16-36).      *)
WaitAllMeansDone ==
  [][holder # Nobody /\ holder' = Nobody => lists = {} /\ \A q \in DOMAIN WorkFence :
       Completed(WorkFence[q], submitted[q])]_<<scheduleVars, fenceVars>>
=============================================================================
