-------------------------- MODULE MemoryPoolProofs --------------------------
(***************************************************************************)
(* Proofs about MemoryPool for any threads, addresses, sizes and contents. *)
(*                                                                         *)
(* The argument: an object a call works on is that call's alone            *)
(* (CallsApart, CallsInv), so a copy list that still has its memory        *)
(* belongs to a call that waits for it (CopiesInv); what such a list       *)
(* writes or reads is what its call returns with (ContentInv).  The bytes  *)
(* counted are the sum over the objects in the map, which an object joins  *)
(* and leaves in the step that counts it (StatsInv, DataTheorems).          *)
(***************************************************************************)
EXTENDS MemoryPool, DataTheorems

Copying(t)  == call[t].pc \in {"record", "submitted", "waiting"}
InFlight(t) == call[t].pc \in {"submitted", "waiting"}

(* Two calls under way are on two objects.                                 *)
CallsApart ==
  \A t, u \in Threads :
    t # u /\ call[t] # Idle /\ call[u] # Idle => call[t].handle # call[u].handle

(* What a call under way has made of its object, and who holds the lock.   *)
HasItsObject(t) ==
  /\ call[t].pc = "build" => object[call[t].handle].at = "built"
  /\ call[t].pc = "release" => object[call[t].handle].at = "detached"
  /\ Copying(t) => mutex = t /\ Owned(call[t].handle)

CallsInv == \A t \in Threads : HasItsObject(t)

(* Memory of the C runtime is there as long as its object is.              *)
BlocksInv ==
  \A h \in Handles : object[h] # Absent /\ object[h].place = "host" => h \in blocks

(* A list in flight has lost its memory or is what a call waits for.       *)
CopiesInv ==
  \A c \in copies :
    /\ c.torn => c.handle \in torn
    /\ ~c.torn => /\ InFlight(c.by)
                  /\ call[c.by].handle = c.handle
                  /\ call[c.by].up = c.up
                  /\ c.up => call[c.by].value = c.value

(* What is in the memory a call works on.                                  *)
BuiltOk(t) ==
  call[t].pc = "build" /\ call[t].handle \notin late => content[call[t].handle] = NoValue

BuiltInv == \A t \in Threads : BuiltOk(t)

CopyOk(t) ==
  Copying(t) /\ call[t].handle \notin late =>
    /\ call[t].pc = "record" \/ ~call[t].up => content[call[t].handle] = wrote[call[t].handle]
    /\ InFlight(t) /\ CopiesBy(t) = {} =>
         /\ call[t].up => content[call[t].handle] = call[t].value
         /\ ~call[t].up => call[t].value = wrote[call[t].handle]

CopyingInv == \A t \in Threads : CopyOk(t)

IInv ==
  /\ TypeOK
  /\ CallsApart
  /\ CallsInv
  /\ BlocksInv
  /\ CopiesInv
  /\ BuiltInv
  /\ CopyingInv
  /\ OnlyMappedIsMisfreed
  /\ OnlyLateFailuresTear
  /\ UploadsStay
-----------------------------------------------------------------------------
LEMMA CallShapes ==
  ASSUME TypeOK, NEW t \in Threads
  PROVE  /\ call[t] \in Call \cup {Idle}
         /\ call[t] # Idle => call[t].handle \in Handles
         /\ call[t].pc = "idle" => call[t] = Idle
         /\ call[t].pc \in {"build", "release"} => call[t] # Idle
         /\ Copying(t) => /\ call[t] # Idle
                          /\ call[t] \in [pc : {"record", "submitted", "waiting"},
                                          handle : Handles, up : BOOLEAN,
                                          value : Values \cup {NoValue}]
<1>1. call[t] \in Call \cup {Idle}
  BY DEF TypeOK
<1>2. CASE call[t] = Idle
  BY <1>2, <1>1 DEF Idle, Copying
<1>3. CASE call[t] \in [pc : {"build", "release"}, handle : Handles]
  BY <1>3, <1>1 DEF Idle, Copying
<1>4. CASE call[t] \in [pc : {"record", "submitted", "waiting"}, handle : Handles,
                        up : BOOLEAN, value : Values \cup {NoValue}]
  BY <1>4, <1>1 DEF Idle, Copying
<1>5. QED
  BY <1>1, <1>2, <1>3, <1>4 DEF Call

LEMMA IdleNotBusy ==
  ASSUME NEW t \in Threads, call[t] = Idle
  PROVE  call[t].pc \notin {"build", "release", "record", "submitted", "waiting"}
BY DEF Idle

(* What lists in flight lose keeps its types.                              *)
LEMMA TearsTypes ==
  ASSUME TypeOK, NEW C, C \subseteq copies, Tears(C)
  PROVE  copies' \subseteq Copy /\ torn' \subseteq Handles
<1>1. ASSUME NEW c \in C PROVE [c EXCEPT !.torn = TRUE] \in Copy /\ c.handle \in Handles
  <2>1. c \in Copy
    BY DEF TypeOK
  <2>2. QED
    BY <2>1 DEF Copy
<1>2. copies' = (copies \ C) \cup {[c EXCEPT !.torn = TRUE] : c \in C}
      /\ torn' = torn \cup {c.handle : c \in C}
  BY DEF Tears
<1>3. copies \subseteq Copy /\ torn \subseteq Handles
  BY DEF TypeOK
<1>4. QED
  BY <1>1, <1>2, <1>3

LEMMA FreesTypes ==
  ASSUME TypeOK, NEW H, H \subseteq Handles, \A h \in H : object[h] # Absent, FreesAligned(H)
  PROVE  blocks' \subseteq Handles /\ misfreed' \subseteq Handles \X {"host", "mapped", "device"}
<1>1. \A h \in H : object[h].place \in {"host", "mapped", "device"}
  BY DEF TypeOK, Object
<1>2. QED
  BY <1>1 DEF TypeOK, FreesAligned

(* Every action keeps the variables in their types.                        *)
LEMMA TypeOKStep == TypeOK /\ CallsInv /\ CopiesInv /\ [Next]_vars => TypeOK'
<1> SUFFICES ASSUME TypeOK, CallsInv, CopiesInv, [Next]_vars PROVE TypeOK'
  OBVIOUS
<1> USE PoolAssumption
<1>1. ASSUME DestroyPool PROVE TypeOK'
  <2> DEFINE H == {h \in Handles : Owned(h)}
  <2>1. object' \in [Handles -> Object \cup {Absent}] /\ content' \in [Handles -> Values \cup {NoValue}]
        /\ wrote' \in [Handles -> Values \cup {NoValue}]
    BY <1>1 DEF DestroyPool, TypeOK
  <2>2. misfreed' \subseteq Handles \X {"host", "mapped", "device"} /\ blocks' \subseteq Handles
    BY <1>1, FreesTypes DEF DestroyPool, Owned, Absent
  <2>3. copies' \subseteq Copy /\ torn' \subseteq Handles
    BY <1>1, TearsTypes DEF DestroyPool, CopiesOn
  <2>4. QED
    BY <1>1, <2>1, <2>2, <2>3 DEF DestroyPool, TypeOK
<1>2. ASSUME NEW t \in Threads, NEW h \in Handles, NEW r \in Requests, AllocBegin(t, h, r)
      PROVE  TypeOK'
  <2>1. Place(r.location) \in {"host", "mapped", "device"} /\ r.bytes \in Nat
    BY DEF Place
  <2>2. QED
    BY <1>2, <2>1 DEF AllocBegin, Goes, Object, Call, ghosts, TypeOK
<1>3. ASSUME NEW t \in Threads, AllocPublish(t) PROVE TypeOK'
  <2>1. call[t].handle \in Handles /\ object[call[t].handle] \in Object
    BY <1>3, CallShapes, IdleNotBusy DEF AllocPublish, CallsInv, HasItsObject, TypeOK, Absent
  <2>2. stats' \in [count : Nat, live : Int, peak : Int, failures : Nat]
    <3> DEFINE live == stats.live + object[call[t].handle].bytes
    <3>1. stats \in [count : Nat, live : Int, peak : Int, failures : Nat]
          /\ object[call[t].handle].bytes \in Nat
      BY <2>1 DEF TypeOK, Object
    <3>2. stats.count + 1 \in Nat /\ live \in Int /\ Larger(stats.peak, live) \in Int
      BY <3>1 DEF Larger
    <3>3. stats' = [stats EXCEPT !.count = stats.count + 1, !.live = live,
                                 !.peak = Larger(stats.peak, live)]
      BY <1>3 DEF AllocPublish
    <3> HIDE DEF live
    <3>4. QED
      BY <3>1, <3>2, <3>3
  <2>3. QED
    <3>1. object' \in [Handles -> Object \cup {Absent}]
      BY <1>3, <2>1 DEF AllocPublish, Object, TypeOK
    <3>2. call' \in [Threads -> Call \cup {Idle}] /\ wrote' \in [Handles -> Values \cup {NoValue}]
      BY <1>3 DEF AllocPublish, Goes, TypeOK
    <3>3. QED
      BY <1>3, <2>2, <3>1, <3>2 DEF AllocPublish, gpuVars, Unlocked, TypeOK
<1>4. ASSUME NEW t \in Threads, AllocFail(t) PROVE TypeOK'
  <2>1. stats' \in [count : Nat, live : Int, peak : Int, failures : Nat]
    <3>1. stats \in [count : Nat, live : Int, peak : Int, failures : Nat]
          /\ stats' = [stats EXCEPT !.failures = stats.failures + 1]
      BY <1>4 DEF AllocFail, TypeOK
    <3>2. QED
      BY <3>1
  <2>2. object' \in [Handles -> Object \cup {Absent}] /\ call' \in [Threads -> Call \cup {Idle}]
    BY <1>4 DEF AllocFail, Goes, TypeOK
  <2>3. QED
    BY <1>4, <2>1, <2>2 DEF AllocFail, gpuVars, ghosts, Unlocked, TypeOK
<1>5. ASSUME NEW t \in Threads, NEW h \in Handles, FreeDetach(t, h) PROVE TypeOK'
  <2>1. object[h] \in Object
    BY <1>5 DEF FreeDetach, MayCall, Owned, TypeOK, Absent
  <2>2. stats' \in [count : Nat, live : Int, peak : Int, failures : Nat]
    BY <1>5, <2>1 DEF FreeDetach, Uncounted, Object, TypeOK
  <2>3. QED
    BY <1>5, <2>1, <2>2 DEF FreeDetach, Goes, Call, Object, gpuVars, ghosts, Unlocked, TypeOK
<1>6. ASSUME NEW t \in Threads, NEW h \in Handles \cup {Foreign}, FreeUnknown(t, h) PROVE TypeOK'
  BY <1>6 DEF FreeUnknown, gpuVars, ghosts, Unlocked, TypeOK
<1>7. ASSUME NEW t \in Threads, FreeRelease(t) PROVE TypeOK'
  <2> DEFINE h == call[t].handle
  <2>1. h \in Handles /\ object[h] # Absent
    BY <1>7, CallShapes, IdleNotBusy DEF FreeRelease, CallsInv, HasItsObject, Absent
  <2>2. blocks' \subseteq Handles /\ misfreed' \subseteq Handles \X {"host", "mapped", "device"}
    BY <1>7, <2>1, FreesTypes DEF FreeRelease
  <2>3. copies' \subseteq Copy /\ torn' \subseteq Handles
    BY <1>7, TearsTypes DEF FreeRelease, CopiesOn
  <2>4. QED
    BY <1>7, <2>2, <2>3 DEF FreeRelease, Goes, TypeOK
<1>8. ASSUME NEW t \in Threads, NEW h \in Handles, NEW v \in Values, UploadMapped(t, h, v)
      PROVE  TypeOK'
  BY <1>8 DEF UploadMapped, TypeOK
<1>9. ASSUME NEW t \in Threads, NEW h \in Handles, NEW up \in BOOLEAN,
             NEW v \in Values \cup {NoValue}, CopyBegin(t, h, up, v)
      PROVE  TypeOK'
  BY <1>9 DEF CopyBegin, Lock, Goes, Call, gpuVars, TypeOK
<1>10. ASSUME NEW t \in Threads, CopyRefused(t) PROVE TypeOK'
  BY <1>10 DEF CopyRefused, Unlock, Goes, gpuVars, ghosts, TypeOK
<1>11. ASSUME NEW t \in Threads, CopyExecute(t) PROVE TypeOK'
  <2>1. call[t] \in [pc : {"record", "submitted", "waiting"}, handle : Handles, up : BOOLEAN,
                     value : Values \cup {NoValue}]
    BY <1>11, CallShapes DEF CopyExecute, Copying
  <2>2. [handle |-> call[t].handle, up |-> call[t].up, value |-> call[t].value, by |-> t,
         torn |-> FALSE] \in Copy
    BY <2>1 DEF Copy
  <2>3. QED
    BY <1>11, <2>1, <2>2 DEF CopyExecute, Goes, Call, ghosts, TypeOK
<1>12. ASSUME NEW t \in Threads, CopySignal(t) PROVE TypeOK'
  <2>1. call[t] \in [pc : {"record", "submitted", "waiting"}, handle : Handles, up : BOOLEAN,
                     value : Values \cup {NoValue}]
    BY <1>12, CallShapes DEF CopySignal, Copying
  <2>2. QED
    BY <1>12, <2>1 DEF CopySignal, Goes, Call, gpuVars, ghosts, TypeOK
<1>13. ASSUME NEW t \in Threads, CopyFailsLate(t) PROVE TypeOK'
  <2>1. call[t].handle \in Handles
    BY <1>13, CallShapes DEF CopyFailsLate, Copying
  <2>2. copies' \subseteq Copy /\ torn' \subseteq Handles
    BY <1>13, TearsTypes DEF CopyFailsLate, CopiesBy
  <2>3. QED
    BY <1>13, <2>1, <2>2 DEF CopyFailsLate, Unlock, Goes, TypeOK
<1>14. ASSUME NEW t \in Threads, CopyReturns(t) PROVE TypeOK'
  <2>1. call[t].handle \in Handles /\ call[t].value \in Values \cup {NoValue}
    BY <1>14, CallShapes DEF CopyReturns, Copying
  <2>2. copies' \subseteq Copy /\ torn' \subseteq Handles
    BY <1>14, TearsTypes DEF CopyReturns, CopiesBy
  <2>3. wrote' \in [Handles -> Values \cup {NoValue}]
    BY <1>14, <2>1 DEF CopyReturns, TypeOK
  <2>4. QED
    BY <1>14, <2>2, <2>3 DEF CopyReturns, Unlock, Goes, TypeOK
<1>15. ASSUME NEW c \in copies, GpuRuns(c) PROVE TypeOK'
  <2>1. c \in Copy /\ c.value \in Values \cup {NoValue}
    BY DEF TypeOK, Copy
  <2>2. content' \in [Handles -> Values \cup {NoValue}]
    BY <1>15, <2>1 DEF GpuRuns, TypeOK, Copy
  <2>3. call' \in [Threads -> Call \cup {Idle}]
    <3>1. CASE c.up \/ c.torn
      BY <1>15, <3>1 DEF GpuRuns, TypeOK
    <3>2. CASE ~c.up /\ ~c.torn
      <4>1. c.by \in Threads /\ c.handle \in Handles /\ content[c.handle] \in Values \cup {NoValue}
        BY <2>1 DEF Copy, TypeOK
      <4>2. call[c.by] \in [pc : {"record", "submitted", "waiting"}, handle : Handles,
                            up : BOOLEAN, value : Values \cup {NoValue}]
        BY <3>2, <4>1, CallShapes DEF CopiesInv, InFlight, Copying
      <4>3. [call[c.by] EXCEPT !.value = content[c.handle]] \in Call
        BY <4>1, <4>2 DEF Call
      <4>4. QED
        BY <1>15, <3>2, <4>1, <4>3 DEF GpuRuns, TypeOK
    <3>3. QED
      BY <3>1, <3>2
  <2>4. QED
    BY <1>15, <2>2, <2>3 DEF GpuRuns, ghosts, TypeOK
<1>16. ASSUME NEW c \in copies, GpuLoses(c) PROVE TypeOK'
  BY <1>16 DEF GpuLoses, ghosts, TypeOK
<1>17. CASE UNCHANGED vars
  BY <1>17 DEF vars, gpuVars, ghosts, TypeOK
<1>18. QED
  BY <1>1, <1>2, <1>3, <1>4, <1>5, <1>6, <1>7, <1>8, <1>9, <1>10, <1>11, <1>12, <1>13, <1>14,
     <1>15, <1>16, <1>17 DEF Next, DownloadMapped
-----------------------------------------------------------------------------
LEMMA GoesTo ==
  ASSUME TypeOK, NEW t \in Threads, NEW c, Goes(t, c)
  PROVE  call'[t] = c /\ \A u \in Threads : u # t => call'[u] = call[u]
BY DEF TypeOK, Goes

(* The GPU changes what a download brings, and nothing else of a call.     *)
LEMMA GpuKeepsCalls ==
  ASSUME TypeOK, CopiesInv, NEW c \in copies, GpuRuns(c), NEW t \in Threads
  PROVE  /\ call'[t].pc = call[t].pc
         /\ call[t] # Idle => call'[t].handle = call[t].handle
         /\ Copying(t) => call'[t].up = call[t].up
         /\ call'[t] = Idle <=> call[t] = Idle
         /\ call'[t] # call[t] => t = c.by /\ ~c.up /\ ~c.torn /\ call'[t].value = content[c.handle]
<1>1. c \in Copy /\ c.by \in Threads
  BY DEF TypeOK, Copy
<1>2. CASE c.up \/ c.torn \/ t # c.by
  <2>1. call'[t] = call[t]
    BY <1>2 DEF GpuRuns, TypeOK
  <2>2. QED
    BY <2>1
<1>3. CASE ~c.up /\ ~c.torn /\ t = c.by
  <2>1. Copying(t)
    BY <1>3 DEF CopiesInv, InFlight, Copying
  <2>2. call[t] \in [pc : {"record", "submitted", "waiting"}, handle : Handles, up : BOOLEAN,
                     value : Values \cup {NoValue}]
    BY <2>1, CallShapes
  <2>3. call'[t] = [call[t] EXCEPT !.value = content[c.handle]]
    BY <1>1, <1>3 DEF GpuRuns, TypeOK
  <2>4. call'[t].pc = call[t].pc /\ call'[t].handle = call[t].handle
        /\ call'[t].up = call[t].up /\ call'[t].value = content[c.handle]
    BY <2>2, <2>3
  <2>5. call'[t] # Idle /\ call[t] # Idle
    BY <2>2, <2>4 DEF Idle
  <2>6. QED
    BY <1>3, <2>4, <2>5
<1>4. QED
  BY <1>2, <1>3

(* What the calls other than that of t rely on.                            *)

LEMMA OthersKeepTheirs ==
  ASSUME TypeOK, CallsApart, CallsInv, NEW t \in Threads, NEW c, Goes(t, c),
         NEW h \in Handles,
         \A g \in Handles \ {h} : object'[g] = object[g],
         \A u \in Threads : u # t /\ call[u] # Idle => call[u].handle # h,
         mutex' = mutex \/ (\A u \in Threads : u # t => ~Copying(u)),
         c # Idle => c.handle = h
  PROVE  /\ CallsApart'
         /\ \A u \in Threads : u # t => HasItsObject(u)'
<1>1. call'[t] = c /\ \A u \in Threads : u # t => call'[u] = call[u]
  BY GoesTo
<1>2. CallsApart'
  BY <1>1 DEF CallsApart
<1>3. ASSUME NEW u \in Threads, u # t, call[u] # Idle PROVE call[u].handle \in Handles \ {h}
  BY <1>3, CallShapes
<1>4. ASSUME NEW u \in Threads, u # t, call[u].pc \in {"build", "release", "record", "submitted", "waiting"}
      PROVE call[u] # Idle
  BY <1>4 DEF Idle
<1>5. QED
  BY <1>1, <1>2, <1>3, <1>4 DEF CallsInv, HasItsObject, Copying, Owned

(* An object is handed to one call at a time.                              *)
LEMMA CallsStep == TypeOK /\ CallsApart /\ CallsInv /\ CopiesInv /\ [Next]_vars => CallsApart' /\ CallsInv'
<1> SUFFICES ASSUME TypeOK, CallsApart, CallsInv, CopiesInv, [Next]_vars
             PROVE  CallsApart' /\ CallsInv'
  OBVIOUS
<1> USE PoolAssumption, CallShapes, GoesTo DEF CallsApart, CallsInv, HasItsObject, Copying, Owned
<1>1. ASSUME DestroyPool PROVE CallsApart' /\ CallsInv'
  BY <1>1, IdleNotBusy DEF DestroyPool
<1>2. ASSUME NEW t \in Threads, NEW h \in Handles, NEW r \in Requests, AllocBegin(t, h, r)
      PROVE  CallsApart' /\ CallsInv'
  <2>1. \A u \in Threads : u # t /\ call[u] # Idle => call[u].handle # h
    <3> SUFFICES ASSUME NEW u \in Threads, call[u] # Idle, call[u].handle = h PROVE FALSE
      OBVIOUS
    <3>1. object[h].at \in {"built", "detached", "owned"}
      BY DEF Call, TypeOK
    <3>2. QED
      BY <1>2, <3>1 DEF AllocBegin, Absent
  <2>2. call'[t] = [pc |-> "build", handle |-> h] /\ object'[h].at = "built"
    BY <1>2 DEF AllocBegin, TypeOK
  <2>3. CallsApart' /\ \A u \in Threads : u # t => HasItsObject(u)'
    BY <1>2, <2>1, OthersKeepTheirs DEF AllocBegin, TypeOK
  <2>4. QED
    BY <2>2, <2>3
<1>3. ASSUME NEW t \in Threads, AllocPublish(t) PROVE CallsApart' /\ CallsInv'
  <2>1. call[t] # Idle /\ call[t].handle \in Handles /\ Goes(t, Idle)
    BY <1>3, IdleNotBusy DEF AllocPublish
  <2>2. \A u \in Threads : u # t /\ call[u] # Idle => call[u].handle # call[t].handle
    BY <2>1
  <2>3. CallsApart' /\ \A u \in Threads : u # t => HasItsObject(u)'
    BY <1>3, <2>1, <2>2, OthersKeepTheirs DEF AllocPublish, Unlocked, TypeOK
  <2>4. call'[t] = Idle
    BY <2>1
  <2>5. QED
    BY <2>3, <2>4 DEF Idle
<1>4. ASSUME NEW t \in Threads, AllocFail(t) PROVE CallsApart' /\ CallsInv'
  <2>1. call[t] # Idle /\ call[t].handle \in Handles /\ Goes(t, Idle)
    BY <1>4, IdleNotBusy DEF AllocFail
  <2>2. \A u \in Threads : u # t /\ call[u] # Idle => call[u].handle # call[t].handle
    BY <2>1
  <2>3. CallsApart' /\ \A u \in Threads : u # t => HasItsObject(u)'
    BY <1>4, <2>1, <2>2, OthersKeepTheirs DEF AllocFail, Unlocked, TypeOK
  <2>4. call'[t] = Idle
    BY <2>1
  <2>5. QED
    BY <2>3, <2>4 DEF Idle
<1>5. ASSUME NEW t \in Threads, NEW h \in Handles, FreeDetach(t, h)
      PROVE  CallsApart' /\ CallsInv'
  BY <1>5 DEF FreeDetach, MayCall, Busy, Unlocked, TypeOK
<1>6. ASSUME NEW t \in Threads, NEW h \in Handles \cup {Foreign}, FreeUnknown(t, h)
      PROVE  CallsApart' /\ CallsInv'
  BY <1>6 DEF FreeUnknown, Unlocked
<1>7. ASSUME NEW t \in Threads, FreeRelease(t) PROVE CallsApart' /\ CallsInv'
  <2>1. call[t] # Idle /\ call[t].handle \in Handles /\ Goes(t, Idle)
    BY <1>7, IdleNotBusy DEF FreeRelease
  <2>2. \A u \in Threads : u # t /\ call[u] # Idle => call[u].handle # call[t].handle
    BY <2>1
  <2>3. CallsApart' /\ \A u \in Threads : u # t => HasItsObject(u)'
    BY <1>7, <2>1, <2>2, OthersKeepTheirs DEF FreeRelease, TypeOK
  <2>4. call'[t] = Idle
    BY <2>1
  <2>5. QED
    BY <2>3, <2>4 DEF Idle
<1>8. ASSUME NEW t \in Threads, NEW h \in Handles, NEW v \in Values, UploadMapped(t, h, v)
      PROVE  CallsApart' /\ CallsInv'
  BY <1>8 DEF UploadMapped
<1>9. ASSUME NEW t \in Threads, NEW h \in Handles, NEW up, NEW v, CopyBegin(t, h, up, v)
      PROVE  CallsApart' /\ CallsInv'
  <2> DEFINE c == [pc |-> "record", handle |-> h, up |-> up, value |-> v]
  <2>1. \A u \in Threads : ~Copying(u) /\ (call[u] # Idle => call[u].handle # h)
    BY <1>9 DEF CopyBegin, MayCall, Busy, Lock
  <2>2. Goes(t, c) /\ mutex' = t /\ object' = object /\ object[h].at = "owned"
    BY <1>9 DEF CopyBegin, MayCall, Lock
  <2>3. CallsApart' /\ \A u \in Threads : u # t => HasItsObject(u)'
    BY <2>1, <2>2, OthersKeepTheirs
  <2>4. call'[t] = c
    BY <2>2
  <2>5. QED
    BY <2>2, <2>3, <2>4
<1>10. ASSUME NEW t \in Threads, CopyRefused(t) PROVE CallsApart' /\ CallsInv'
  <2>1. call[t] # Idle /\ call[t].handle \in Handles /\ Goes(t, Idle)
    BY <1>10, IdleNotBusy DEF CopyRefused
  <2>2. \A u \in Threads : u # t => ~Copying(u)
    BY <1>10 DEF CopyRefused
  <2>3. \A u \in Threads : u # t /\ call[u] # Idle => call[u].handle # call[t].handle
    BY <2>1
  <2>4. CallsApart' /\ \A u \in Threads : u # t => HasItsObject(u)'
    BY <1>10, <2>1, <2>2, <2>3, OthersKeepTheirs DEF CopyRefused
  <2>5. call'[t] = Idle
    BY <2>1
  <2>6. QED
    BY <2>4, <2>5 DEF Idle
<1>11. ASSUME NEW t \in Threads, CopyExecute(t) PROVE CallsApart' /\ CallsInv'
  BY <1>11 DEF CopyExecute
<1>12. ASSUME NEW t \in Threads, CopySignal(t) PROVE CallsApart' /\ CallsInv'
  BY <1>12 DEF CopySignal
<1>13. ASSUME NEW t \in Threads, CopyFailsLate(t) PROVE CallsApart' /\ CallsInv'
  <2>1. call[t] # Idle /\ call[t].handle \in Handles /\ Goes(t, Idle)
    BY <1>13, IdleNotBusy DEF CopyFailsLate
  <2>2. \A u \in Threads : u # t /\ call[u] # Idle => call[u].handle # call[t].handle
    BY <2>1
  <2>3. CallsApart' /\ \A u \in Threads : u # t => HasItsObject(u)'
    BY <1>13, <2>1, <2>2, OthersKeepTheirs DEF CopyFailsLate, Unlock
  <2>4. call'[t] = Idle
    BY <2>1
  <2>5. QED
    BY <2>3, <2>4 DEF Idle
<1>14. ASSUME NEW t \in Threads, CopyReturns(t) PROVE CallsApart' /\ CallsInv'
  <2>1. call[t] # Idle /\ call[t].handle \in Handles /\ Goes(t, Idle)
    BY <1>14, IdleNotBusy DEF CopyReturns
  <2>2. \A u \in Threads : u # t /\ call[u] # Idle => call[u].handle # call[t].handle
    BY <2>1
  <2>3. CallsApart' /\ \A u \in Threads : u # t => HasItsObject(u)'
    BY <1>14, <2>1, <2>2, OthersKeepTheirs DEF CopyReturns, Unlock
  <2>4. call'[t] = Idle
    BY <2>1
  <2>5. QED
    BY <2>3, <2>4 DEF Idle
<1>15. ASSUME NEW c \in copies, GpuRuns(c) PROVE CallsApart' /\ CallsInv'
  BY <1>15, GpuKeepsCalls DEF GpuRuns
<1>16. ASSUME NEW c \in copies, GpuLoses(c) PROVE CallsApart' /\ CallsInv'
  BY <1>16 DEF GpuLoses
<1>17. CASE UNCHANGED vars
  BY <1>17 DEF vars
<1>18. QED
  BY <1>1, <1>2, <1>3, <1>4, <1>5, <1>6, <1>7, <1>8, <1>9, <1>10, <1>11, <1>12, <1>13, <1>14,
     <1>15, <1>16, <1>17 DEF Next, DownloadMapped
-----------------------------------------------------------------------------
(* Memory of the C runtime stays as long as its object, so it is there     *)
(* when the object is given up, which is when it is freed.                 *)
LEMMA FreesWhatIsThere ==
  ASSUME TypeOK, BlocksInv, OnlyMappedIsMisfreed,
         NEW H, H \subseteq Handles, \A h \in H : object[h] # Absent, FreesAligned(H)
  PROVE  OnlyMappedIsMisfreed'
<1>1. \A h \in H \ blocks : object[h].place \in {"mapped", "device"}
  BY DEF TypeOK, Object, BlocksInv
<1>2. QED
  BY <1>1 DEF FreesAligned, OnlyMappedIsMisfreed

LEMMA BlocksStep ==
  TypeOK /\ CallsInv /\ BlocksInv /\ OnlyMappedIsMisfreed /\ [Next]_vars
    => BlocksInv' /\ OnlyMappedIsMisfreed'
<1> SUFFICES ASSUME TypeOK, CallsInv, BlocksInv, OnlyMappedIsMisfreed, [Next]_vars
             PROVE  BlocksInv' /\ OnlyMappedIsMisfreed'
  OBVIOUS
<1> USE PoolAssumption, CallShapes
<1>1. ASSUME DestroyPool PROVE BlocksInv' /\ OnlyMappedIsMisfreed'
  <2> DEFINE H == {h \in Handles : Owned(h)}
  <2>1. OnlyMappedIsMisfreed'
    BY <1>1, FreesWhatIsThere DEF DestroyPool, Owned, Absent
  <2>2. \A h \in Handles : object'[h] # Absent => h \notin H /\ object'[h] = object[h]
    BY <1>1 DEF DestroyPool
  <2>3. blocks' = blocks \ H
    BY <1>1 DEF DestroyPool, FreesAligned
  <2>4. QED
    BY <2>1, <2>2, <2>3 DEF BlocksInv
<1>2. ASSUME NEW t \in Threads, NEW h \in Handles, NEW r \in Requests, AllocBegin(t, h, r)
      PROVE  BlocksInv' /\ OnlyMappedIsMisfreed'
  BY <1>2 DEF AllocBegin, ghosts, BlocksInv, OnlyMappedIsMisfreed, TypeOK
<1>3. ASSUME NEW t \in Threads, AllocPublish(t) PROVE BlocksInv' /\ OnlyMappedIsMisfreed'
  <2>1. call[t].handle \in Handles /\ object[call[t].handle] \in Object
    BY <1>3, IdleNotBusy DEF AllocPublish, CallsInv, HasItsObject, TypeOK, Absent
  <2>2. object'[call[t].handle].place = object[call[t].handle].place
    BY <1>3, <2>1 DEF AllocPublish, Object, TypeOK
  <2>3. object[call[t].handle] # Absent
    BY <1>3 DEF AllocPublish, CallsInv, HasItsObject, Absent
  <2>4. QED
    BY <1>3, <2>1, <2>2, <2>3 DEF AllocPublish, BlocksInv, OnlyMappedIsMisfreed, TypeOK
<1>4. ASSUME NEW t \in Threads, AllocFail(t) PROVE BlocksInv' /\ OnlyMappedIsMisfreed'
  BY <1>4 DEF AllocFail, ghosts, BlocksInv, OnlyMappedIsMisfreed, TypeOK
<1>5. ASSUME NEW t \in Threads, NEW h \in Handles, FreeDetach(t, h)
      PROVE  BlocksInv' /\ OnlyMappedIsMisfreed'
  <2>1. object[h] \in Object /\ object[h] # Absent
    BY <1>5 DEF FreeDetach, MayCall, Owned, TypeOK, Absent
  <2>2. object'[h].place = object[h].place
    BY <1>5, <2>1 DEF FreeDetach, Object, TypeOK
  <2>3. QED
    BY <1>5, <2>1, <2>2 DEF FreeDetach, ghosts, BlocksInv, OnlyMappedIsMisfreed, TypeOK
<1>6. ASSUME NEW t \in Threads, FreeRelease(t) PROVE BlocksInv' /\ OnlyMappedIsMisfreed'
  <2>1. call[t].handle \in Handles /\ object[call[t].handle] # Absent
    BY <1>6, IdleNotBusy DEF FreeRelease, CallsInv, HasItsObject, Absent
  <2>2. OnlyMappedIsMisfreed'
    BY <1>6, <2>1, FreesWhatIsThere DEF FreeRelease
  <2>3. QED
    BY <1>6, <2>1, <2>2 DEF FreeRelease, FreesAligned, BlocksInv, TypeOK
<1>7. ASSUME UNCHANGED <<object, blocks, misfreed>> PROVE BlocksInv' /\ OnlyMappedIsMisfreed'
  BY <1>7 DEF BlocksInv, OnlyMappedIsMisfreed
<1>8. QED
  BY <1>1, <1>2, <1>3, <1>4, <1>5, <1>6, <1>7
     DEF Next, FreeUnknown, UploadMapped, DownloadMapped, CopyBegin, CopyRefused, CopyExecute,
         CopySignal, CopyFailsLate, CopyReturns, GpuRuns, GpuLoses, vars, gpuVars, ghosts
-----------------------------------------------------------------------------
(* A list in flight, and the call that waits for it.                       *)
Waited(c) ==
  /\ InFlight(c.by)
  /\ call[c.by].handle = c.handle
  /\ call[c.by].up = c.up
  /\ c.up => call[c.by].value = c.value

LEMMA CopyTypes ==
  ASSUME TypeOK, NEW c \in copies
  PROVE  /\ c.by \in Threads /\ c.handle \in Handles /\ c.torn \in BOOLEAN /\ c.up \in BOOLEAN
         /\ [c EXCEPT !.torn = TRUE].torn = TRUE /\ [c EXCEPT !.torn = TRUE].handle = c.handle
<1>1. c \in Copy
  BY DEF TypeOK
<1>2. QED
  BY <1>1 DEF Copy

(* Releases find no list that has its memory yet, unless their own call    *)
(* says so.                                                                *)
LEMMA TearsKnown ==
  ASSUME TypeOK, CopiesInv, OnlyLateFailuresTear, NEW C, C \subseteq copies, Tears(C),
         late \subseteq late',
         \A c \in C : c.torn \/ c.handle \in late',
         \A c \in copies \ C : ~c.torn => Waited(c)'
  PROVE  CopiesInv' /\ OnlyLateFailuresTear'
<1>1. \A c \in C : c \in copies
  OBVIOUS
<1>2. ASSUME NEW c \in copies'
      PROVE  (c.torn => c.handle \in torn') /\ (~c.torn => Waited(c)')
  <2>1. CASE c \in copies \ C
    BY <2>1 DEF CopiesInv, Tears
  <2>2. CASE \E b \in C : c = [b EXCEPT !.torn = TRUE]
    BY <2>2, <1>1, CopyTypes DEF Tears
  <2>3. QED
    BY <1>2, <2>1, <2>2 DEF Tears
<1>3. \A c \in C : c.handle \in late'
  BY <1>1 DEF CopiesInv, OnlyLateFailuresTear
<1>4. OnlyLateFailuresTear'
  BY <1>3 DEF Tears, OnlyLateFailuresTear
<1>5. QED
  BY <1>2, <1>4 DEF CopiesInv, Waited, InFlight

(* A call that is not in flight has no list that has its memory.           *)
LEMMA OthersAreWaited ==
  ASSUME TypeOK, CopiesInv, NEW t \in Threads, NEW x, Goes(t, x),
         NEW c \in copies, ~c.torn, c.by # t
  PROVE  Waited(c)'
BY CopyTypes, GoesTo DEF CopiesInv, Waited, InFlight

(* What one call gives up, no list in flight of another works on.          *)
LEMMA ReleaseFindsNone ==
  ASSUME TypeOK, CallsApart, CopiesInv, NEW t \in Threads, call[t].pc = "release",
         NEW c \in copies, ~c.torn
  PROVE  c.by # t /\ c.handle # call[t].handle
<1>1. c.by \in Threads /\ InFlight(c.by) /\ call[c.by].handle = c.handle
  BY CopyTypes DEF CopiesInv
<1>2. call[c.by] # Idle /\ call[t] # Idle /\ c.by # t
  BY <1>1, IdleNotBusy DEF InFlight
<1>3. QED
  BY <1>1, <1>2 DEF CallsApart

LEMMA CopiesStep ==
  TypeOK /\ CallsApart /\ CallsInv /\ CopiesInv /\ OnlyLateFailuresTear /\ [Next]_vars
    => CopiesInv' /\ OnlyLateFailuresTear'
<1> SUFFICES ASSUME TypeOK, CallsApart, CallsInv, CopiesInv, OnlyLateFailuresTear, [Next]_vars
             PROVE  CopiesInv' /\ OnlyLateFailuresTear'
  OBVIOUS
<1> USE PoolAssumption, CallShapes
(* Steps of t to x that leave the lists alone, t having none in flight.    *)
<1>1. ASSUME NEW t \in Threads, NEW x, Goes(t, x), ~InFlight(t), UNCHANGED <<copies, late, torn>>
      PROVE  CopiesInv' /\ OnlyLateFailuresTear'
  <2>1. \A c \in copies : ~c.torn => c.by # t
    BY <1>1 DEF CopiesInv
  <2>2. \A c \in copies : ~c.torn => Waited(c)'
    BY <1>1, <2>1, OthersAreWaited
  <2>3. QED
    BY <1>1, <2>2 DEF CopiesInv, Waited, InFlight, OnlyLateFailuresTear
<1>2. ASSUME UNCHANGED <<call, copies, late, torn>> PROVE CopiesInv' /\ OnlyLateFailuresTear'
  BY <1>2 DEF CopiesInv, InFlight, OnlyLateFailuresTear
<1>3. ASSUME DestroyPool PROVE CopiesInv' /\ OnlyLateFailuresTear'
  <2>1. \A c \in copies : c.torn
    BY <1>3, CopyTypes DEF DestroyPool, CopiesInv, InFlight, Idle
  <2>2. QED
    BY <1>3, <2>1, TearsKnown DEF DestroyPool, CopiesOn
<1>4. ASSUME NEW t \in Threads, NEW h \in Handles, NEW r \in Requests, AllocBegin(t, h, r)
      PROVE  CopiesInv' /\ OnlyLateFailuresTear'
  BY <1>4, <1>1 DEF AllocBegin, ghosts, InFlight, Idle
<1>5. ASSUME NEW t \in Threads, AllocPublish(t) \/ AllocFail(t) \/ CopyRefused(t)
      PROVE  CopiesInv' /\ OnlyLateFailuresTear'
  BY <1>5, <1>1 DEF AllocPublish, AllocFail, CopyRefused, gpuVars, ghosts, InFlight
<1>6. ASSUME NEW t \in Threads, NEW h \in Handles, FreeDetach(t, h)
      PROVE  CopiesInv' /\ OnlyLateFailuresTear'
  BY <1>6, <1>1 DEF FreeDetach, MayCall, gpuVars, ghosts, InFlight, Idle
<1>7. ASSUME NEW t \in Threads, NEW h \in Handles, NEW up, NEW v, CopyBegin(t, h, up, v)
      PROVE  CopiesInv' /\ OnlyLateFailuresTear'
  BY <1>7, <1>1 DEF CopyBegin, MayCall, gpuVars, InFlight, Idle
<1>8. ASSUME NEW t \in Threads, FreeRelease(t) PROVE CopiesInv' /\ OnlyLateFailuresTear'
  <2> DEFINE h == call[t].handle
  <2>1. \A c \in copies : ~c.torn => c.by # t /\ c.handle # h
    BY <1>8, ReleaseFindsNone DEF FreeRelease
  <2>2. \A c \in copies : ~c.torn => Waited(c)'
    BY <1>8, <2>1, OthersAreWaited DEF FreeRelease
  <2>3. QED
    BY <1>8, <2>1, <2>2, TearsKnown DEF FreeRelease, CopiesOn
<1>9. ASSUME NEW t \in Threads, CopyExecute(t) PROVE CopiesInv' /\ OnlyLateFailuresTear'
  <2> PICK n : n = [handle |-> call[t].handle, up |-> call[t].up, value |-> call[t].value,
                    by |-> t, torn |-> FALSE]
    OBVIOUS
  <2>1. call[t] \in [pc : {"record", "submitted", "waiting"}, handle : Handles, up : BOOLEAN,
                     value : Values \cup {NoValue}]
    BY <1>9 DEF CopyExecute, Copying
  <2>2. \A c \in copies : ~c.torn => c.by # t
    BY <1>9 DEF CopyExecute, CopiesInv, InFlight
  <2>3. \A c \in copies : ~c.torn => Waited(c)'
    BY <1>9, <2>2, OthersAreWaited DEF CopyExecute
  <2>4. call'[t] = [call[t] EXCEPT !.pc = "submitted"]
    BY <1>9, GoesTo DEF CopyExecute
  <2>5. Waited(n)'
    BY <2>1, <2>4 DEF Waited, InFlight
  <2>6. copies' = copies \cup {n} /\ UNCHANGED <<late, torn>>
    BY <1>9 DEF CopyExecute, ghosts
  <2>7. n.torn = FALSE
    OBVIOUS
  <2>8. ASSUME NEW c \in copies'
        PROVE  (c.torn => c.handle \in torn') /\ (~c.torn => Waited(c)')
    <3>1. CASE c \in copies
      BY <2>3, <2>6, <3>1 DEF CopiesInv
    <3>2. CASE c = n
      BY <2>5, <2>7, <3>2 DEF Waited, InFlight
    <3>3. QED
      BY <2>6, <3>1, <3>2
  <2>9. QED
    BY <2>6, <2>8 DEF CopiesInv, Waited, InFlight, OnlyLateFailuresTear
<1>10. ASSUME NEW t \in Threads, CopySignal(t) PROVE CopiesInv' /\ OnlyLateFailuresTear'
  <2>1. call[t] \in [pc : {"record", "submitted", "waiting"}, handle : Handles, up : BOOLEAN,
                     value : Values \cup {NoValue}]
    BY <1>10 DEF CopySignal, Copying
  <2>2. call'[t] = [call[t] EXCEPT !.pc = "waiting"]
    BY <1>10, GoesTo DEF CopySignal
  <2>3. \A c \in copies : ~c.torn /\ c.by = t => Waited(c)'
    BY <2>1, <2>2 DEF CopiesInv, Waited, InFlight
  <2>4. \A c \in copies : ~c.torn /\ c.by # t => Waited(c)'
    BY <1>10, OthersAreWaited DEF CopySignal
  <2>5. QED
    BY <1>10, <2>3, <2>4 DEF CopySignal, gpuVars, ghosts, CopiesInv, Waited, InFlight,
                             OnlyLateFailuresTear
<1>11. ASSUME NEW t \in Threads, CopyFailsLate(t) PROVE CopiesInv' /\ OnlyLateFailuresTear'
  <2>1. \A c \in CopiesBy(t) : c.handle \in late'
    BY <1>11, CopyTypes DEF CopyFailsLate, CopiesBy, CopiesInv
  <2>2. \A c \in copies \ CopiesBy(t) : ~c.torn => Waited(c)'
    BY <1>11, OthersAreWaited DEF CopyFailsLate, CopiesBy
  <2>3. QED
    BY <1>11, <2>1, <2>2, TearsKnown DEF CopyFailsLate, CopiesBy
<1>12. ASSUME NEW t \in Threads, CopyReturns(t) PROVE CopiesInv' /\ OnlyLateFailuresTear'
  <2>1. CopiesBy(t) = {}
    BY <1>12 DEF CopyReturns, Reached
  <2>2. \A c \in copies : ~c.torn => Waited(c)'
    BY <1>12, <2>1, OthersAreWaited DEF CopyReturns, CopiesBy
  <2>3. QED
    BY <1>12, <2>1, <2>2, TearsKnown DEF CopyReturns
<1>13. ASSUME NEW c \in copies, GpuRuns(c) PROVE CopiesInv' /\ OnlyLateFailuresTear'
  <2>1. ASSUME NEW d \in copies', ~d.torn PROVE Waited(d)'
    <3>1. d \in copies /\ d.by \in Threads /\ Waited(d)
      BY <1>13, <2>1, CopyTypes DEF GpuRuns, CopiesInv, Waited
    <3>2. Copying(d.by) /\ call[d.by] # Idle
      BY <3>1 DEF Waited, InFlight, Copying
    <3>3. d.up => call'[d.by].value = call[d.by].value
      <4> SUFFICES ASSUME d.up, call'[d.by] # call[d.by] PROVE FALSE
        OBVIOUS
      <4>1. d.by = c.by /\ ~c.up /\ ~c.torn
        BY <1>13, <3>1, GpuKeepsCalls
      <4>2. Waited(c)
        BY <4>1 DEF CopiesInv, Waited
      <4>3. QED
        BY <3>1, <4>1, <4>2 DEF Waited
    <3>4. QED
      BY <1>13, <3>1, <3>2, <3>3, GpuKeepsCalls DEF Waited, InFlight
  <2>2. QED
    BY <1>13, <2>1 DEF GpuRuns, ghosts, CopiesInv, Waited, InFlight, OnlyLateFailuresTear
<1>14. ASSUME NEW c \in copies, GpuLoses(c) PROVE CopiesInv' /\ OnlyLateFailuresTear'
  BY <1>14 DEF GpuLoses, ghosts, CopiesInv, InFlight, OnlyLateFailuresTear
<1>15. QED
  BY <1>2, <1>3, <1>4, <1>5, <1>6, <1>7, <1>8, <1>9, <1>10, <1>11, <1>12, <1>13, <1>14
     DEF Next, FreeUnknown, UploadMapped, DownloadMapped, vars, gpuVars, ghosts
-----------------------------------------------------------------------------
(* What is in the memory.                                                  *)
Kept(h) == Owned(h) /\ ~Busy(h) /\ h \notin late => content[h] = wrote[h]

LEMMA KeptMeans == UploadsStay <=> \A h \in Handles : Kept(h)
BY DEF UploadsStay, Kept

(* A step of t on the object h changes nothing for the others.             *)
LEMMA OthersContent ==
  ASSUME TypeOK, BuiltInv, CopyingInv, UploadsStay, NEW t \in Threads, NEW h \in Handles,
         \A u \in Threads : u # t => call'[u] = call[u],
         call[t] = Idle \/ call[t].handle = h,
         call'[t] = Idle \/ call'[t].handle = h,
         \A u \in Threads : u # t /\ call[u] # Idle => call[u].handle # h,
         \A u \in Threads : u # t => CopiesBy(u) \subseteq copies',
         late \subseteq late',
         \A g \in Handles : g # h => /\ object'[g] = object[g]
                                     /\ content'[g] = content[g]
                                     /\ wrote'[g] = wrote[g]
  PROVE  /\ \A u \in Threads : u # t => BuiltOk(u)' /\ CopyOk(u)'
         /\ \A g \in Handles : g # h => Kept(g)'
<1>1. ASSUME NEW u \in Threads, u # t PROVE BuiltOk(u)' /\ CopyOk(u)'
  <2>1. CASE call[u] = Idle
    BY <1>1, <2>1 DEF Idle, BuiltOk, CopyOk, Copying
  <2>2. CASE call[u] # Idle
    <3>1. call[u].handle \in Handles /\ call[u].handle # h /\ call'[u] = call[u]
      BY <1>1, <2>2, CallShapes
    <3>2. CopiesBy(u)' = {} => CopiesBy(u) = {}
      BY <1>1 DEF CopiesBy
    <3>3. BuiltOk(u) /\ CopyOk(u)
      BY DEF BuiltInv, CopyingInv
    <3>4. BuiltOk(u)'
      BY <3>1, <3>3 DEF BuiltOk
    <3>5. CopyOk(u)'
      BY <3>1, <3>2, <3>3 DEF CopyOk, Copying, InFlight
    <3>6. QED
      BY <3>4, <3>5
  <2>3. QED
    BY <2>1, <2>2
<1>2. ASSUME NEW g \in Handles, g # h PROVE Kept(g)'
  <2>1. Busy(g) => Busy(g)'
    BY <1>2 DEF Busy
  <2>2. QED
    BY <1>2, <2>1 DEF Kept, UploadsStay, Owned
<1>3. QED
  BY <1>1, <1>2

(* ... so that t and h are what is left to be looked at.                   *)
LEMMA ContentFrom ==
  ASSUME NEW t \in Threads, NEW h \in Handles,
         \A u \in Threads : u # t => BuiltOk(u)' /\ CopyOk(u)',
         \A g \in Handles : g # h => Kept(g)',
         BuiltOk(t)', CopyOk(t)', Kept(h)'
  PROVE  BuiltInv' /\ CopyingInv' /\ UploadsStay'
BY DEF BuiltInv, CopyingInv, UploadsStay, Kept

LEMMA ContentStep == IInv /\ [Next]_vars => BuiltInv' /\ CopyingInv' /\ UploadsStay'
<1> DEFINE Goal == BuiltInv' /\ CopyingInv' /\ UploadsStay'
<1> SUFFICES ASSUME IInv, [Next]_vars PROVE Goal
  OBVIOUS
<1>0. /\ TypeOK /\ CallsApart /\ CallsInv /\ CopiesInv
      /\ BuiltInv /\ CopyingInv /\ UploadsStay /\ OnlyLateFailuresTear
  BY DEF IInv
<1> USE <1>0, PoolAssumption, CallShapes, GoesTo
(* A call under way is alone on its object, and one that begins comes to   *)
(* an object nobody is at.                                                 *)
<1>a. ASSUME NEW t \in Threads, call[t] # Idle
      PROVE  \A u \in Threads : u # t /\ call[u] # Idle => call[u].handle # call[t].handle
  BY <1>a DEF CallsApart
<1>b. ASSUME NEW t \in Threads, call'[t] = Idle PROVE BuiltOk(t)' /\ CopyOk(t)'
  BY <1>b DEF BuiltOk, CopyOk, Copying, Idle
<1>1. ASSUME DestroyPool PROVE Goal
  <2>1. \A h \in Handles : ~Owned(h)'
    BY <1>1 DEF DestroyPool, Owned, Absent
  <2>2. \A t \in Threads : call'[t] = Idle
    BY <1>1 DEF DestroyPool
  <2>3. QED
    BY <2>1, <2>2, <1>b DEF BuiltInv, CopyingInv, UploadsStay, Owned
<1>2. ASSUME NEW t \in Threads, NEW h \in Handles, NEW r \in Requests, AllocBegin(t, h, r)
      PROVE  Goal
  <2>1. \A u \in Threads : u # t /\ call[u] # Idle => call[u].handle # h
    <3> SUFFICES ASSUME NEW u \in Threads, call[u] # Idle, call[u].handle = h PROVE FALSE
      OBVIOUS
    <3>1. object[h].at \in {"built", "detached", "owned"}
      BY DEF Call, CallsInv, HasItsObject, Copying, Owned, TypeOK
    <3>2. QED
      BY <1>2, <3>1 DEF AllocBegin, Absent
  <2>2. call'[t] = [pc |-> "build", handle |-> h]
        /\ \A u \in Threads : u # t => call'[u] = call[u]
    BY <1>2 DEF AllocBegin
  <2>3. (\A u \in Threads : u # t => BuiltOk(u)' /\ CopyOk(u)')
        /\ \A g \in Handles : g # h => Kept(g)'
    BY <1>2, <2>1, <2>2, OthersContent DEF AllocBegin, ghosts, CopiesBy, TypeOK
  <2>4. BuiltOk(t)' /\ CopyOk(t)'
    BY <1>2, <2>2 DEF AllocBegin, BuiltOk, CopyOk, Copying, TypeOK
  <2>5. Kept(h)'
    BY <1>2 DEF AllocBegin, Kept, Owned, TypeOK
  <2>6. QED
    BY <2>3, <2>4, <2>5, ContentFrom
<1>3. ASSUME NEW t \in Threads, AllocPublish(t) PROVE Goal
  <2>1. call[t] # Idle /\ call[t].handle \in Handles /\ call'[t] = Idle
        /\ \A u \in Threads : u # t => call'[u] = call[u]
    BY <1>3, IdleNotBusy DEF AllocPublish
  <2>2. PICK h \in Handles : h = call[t].handle
    BY <2>1
  <2>3. (\A u \in Threads : u # t => BuiltOk(u)' /\ CopyOk(u)')
        /\ \A g \in Handles : g # h => Kept(g)'
    BY <1>3, <1>a, <2>1, <2>2, OthersContent DEF AllocPublish, gpuVars, ghosts, CopiesBy, TypeOK
  <2>4. Kept(h)'
    BY <1>3, <2>2 DEF AllocPublish, gpuVars, BuiltInv, BuiltOk, Kept, TypeOK
  <2>5. QED
    BY <1>b, <2>1, <2>3, <2>4, ContentFrom
<1>4. ASSUME NEW t \in Threads, AllocFail(t) PROVE Goal
  <2>1. call[t] # Idle /\ call[t].handle \in Handles /\ call'[t] = Idle
        /\ \A u \in Threads : u # t => call'[u] = call[u]
    BY <1>4, IdleNotBusy DEF AllocFail
  <2>2. PICK h \in Handles : h = call[t].handle
    BY <2>1
  <2>3. (\A u \in Threads : u # t => BuiltOk(u)' /\ CopyOk(u)')
        /\ \A g \in Handles : g # h => Kept(g)'
    BY <1>4, <1>a, <2>1, <2>2, OthersContent DEF AllocFail, gpuVars, ghosts, CopiesBy, TypeOK
  <2>4. Kept(h)'
    BY <1>4, <2>2 DEF AllocFail, Kept, Owned, Absent, TypeOK
  <2>5. QED
    BY <1>b, <2>1, <2>3, <2>4, ContentFrom
<1>5. ASSUME NEW t \in Threads, NEW h \in Handles, FreeDetach(t, h) PROVE Goal
  <2>1. call'[t] = [pc |-> "release", handle |-> h] /\ call[t] = Idle
        /\ (\A u \in Threads : u # t => call'[u] = call[u])
        /\ \A u \in Threads : u # t /\ call[u] # Idle => call[u].handle # h
    BY <1>5 DEF FreeDetach, MayCall, Busy
  <2>2. (\A u \in Threads : u # t => BuiltOk(u)' /\ CopyOk(u)')
        /\ \A g \in Handles : g # h => Kept(g)'
    BY <1>5, <2>1, OthersContent DEF FreeDetach, gpuVars, ghosts, CopiesBy, TypeOK
  <2>3. BuiltOk(t)' /\ CopyOk(t)'
    BY <2>1 DEF BuiltOk, CopyOk, Copying
  <2>4. Kept(h)'
    BY <2>1 DEF Kept, Busy, Idle
  <2>5. QED
    BY <2>2, <2>3, <2>4, ContentFrom
<1>6. ASSUME NEW t \in Threads, FreeRelease(t) PROVE Goal
  <2>1. call[t] # Idle /\ call[t].handle \in Handles /\ call'[t] = Idle
        /\ \A u \in Threads : u # t => call'[u] = call[u]
    BY <1>6, IdleNotBusy DEF FreeRelease
  <2>2. PICK h \in Handles : h = call[t].handle
    BY <2>1
  <2>3. \A u \in Threads : u # t => CopiesBy(u) \subseteq copies'
    BY <1>6, <2>2, ReleaseFindsNone DEF FreeRelease, CopiesOn, CopiesBy, Tears
  <2>4. (\A u \in Threads : u # t => BuiltOk(u)' /\ CopyOk(u)')
        /\ \A g \in Handles : g # h => Kept(g)'
    BY <1>6, <1>a, <2>1, <2>2, <2>3, OthersContent DEF FreeRelease, TypeOK
  <2>5. Kept(h)'
    BY <1>6, <2>2 DEF FreeRelease, Kept, Owned, Absent, TypeOK
  <2>6. QED
    BY <1>b, <2>1, <2>4, <2>5, ContentFrom
<1>7. ASSUME NEW t \in Threads, NEW h \in Handles, NEW v \in Values, UploadMapped(t, h, v)
      PROVE  Goal
  <2>1. call' = call /\ call[t] = Idle
        /\ \A u \in Threads : u # t /\ call[u] # Idle => call[u].handle # h
    BY <1>7 DEF UploadMapped, MayCall, Busy
  <2>2. (\A u \in Threads : u # t => BuiltOk(u)' /\ CopyOk(u)')
        /\ \A g \in Handles : g # h => Kept(g)'
    BY <1>7, <2>1, OthersContent DEF UploadMapped, CopiesBy, TypeOK
  <2>3. Kept(h)'
    BY <1>7 DEF UploadMapped, Kept, TypeOK
  <2>4. QED
    BY <1>b, <2>1, <2>2, <2>3, ContentFrom
<1>8. ASSUME NEW t \in Threads, NEW h \in Handles, NEW up, NEW v, CopyBegin(t, h, up, v)
      PROVE  Goal
  <2>1. call'[t] = [pc |-> "record", handle |-> h, up |-> up, value |-> v] /\ call[t] = Idle
        /\ (\A u \in Threads : u # t => call'[u] = call[u])
        /\ \A u \in Threads : u # t /\ call[u] # Idle => call[u].handle # h
    BY <1>8 DEF CopyBegin, MayCall, Busy
  <2>2. (\A u \in Threads : u # t => BuiltOk(u)' /\ CopyOk(u)')
        /\ \A g \in Handles : g # h => Kept(g)'
    BY <1>8, <2>1, OthersContent DEF CopyBegin, gpuVars, CopiesBy, TypeOK
  <2>3. BuiltOk(t)'
    BY <2>1 DEF BuiltOk
  <2>4. CopyOk(t)'
    BY <1>8, <2>1 DEF CopyBegin, MayCall, gpuVars, UploadsStay, CopyOk, Copying, InFlight
  <2>5. Kept(h)'
    BY <2>1 DEF Kept, Busy, Idle
  <2>6. QED
    BY <2>2, <2>3, <2>4, <2>5, ContentFrom
<1>9. ASSUME NEW t \in Threads, CopyRefused(t) PROVE Goal
  <2>1. call[t] # Idle /\ call[t].handle \in Handles /\ call'[t] = Idle
        /\ \A u \in Threads : u # t => call'[u] = call[u]
    BY <1>9, IdleNotBusy DEF CopyRefused
  <2>2. PICK h \in Handles : h = call[t].handle
    BY <2>1
  <2>3. (\A u \in Threads : u # t => BuiltOk(u)' /\ CopyOk(u)')
        /\ \A g \in Handles : g # h => Kept(g)'
    BY <1>9, <1>a, <2>1, <2>2, OthersContent DEF CopyRefused, gpuVars, ghosts, CopiesBy, TypeOK
  <2>4. Kept(h)'
    BY <1>9, <2>2 DEF CopyRefused, gpuVars, ghosts, CopyingInv, CopyOk, Copying, Kept
  <2>5. QED
    BY <1>b, <2>1, <2>3, <2>4, ContentFrom
<1>10. ASSUME NEW t \in Threads, CopyExecute(t) PROVE Goal
  <2>1. call[t] \in [pc : {"record", "submitted", "waiting"}, handle : Handles, up : BOOLEAN,
                     value : Values \cup {NoValue}] /\ call[t] # Idle
        /\ call'[t] = [call[t] EXCEPT !.pc = "submitted"]
        /\ \A u \in Threads : u # t => call'[u] = call[u]
    BY <1>10 DEF CopyExecute, Copying
  <2>2. PICK h \in Handles : h = call[t].handle
    BY <2>1
  <2>3. call'[t].handle = h /\ call'[t].up = call[t].up /\ call'[t].pc = "submitted"
        /\ call'[t] # Idle
    BY <2>1, <2>2 DEF Idle
  <2>4. (\A u \in Threads : u # t => BuiltOk(u)' /\ CopyOk(u)')
        /\ \A g \in Handles : g # h => Kept(g)'
    BY <1>10, <1>a, <2>1, <2>2, <2>3, OthersContent DEF CopyExecute, ghosts, CopiesBy, TypeOK
  <2>5. BuiltOk(t)'
    BY <2>3 DEF BuiltOk
  <2>6. CopiesBy(t)' # {}
    <3> PICK n : n = [handle |-> call[t].handle, up |-> call[t].up, value |-> call[t].value,
                      by |-> t, torn |-> FALSE]
      OBVIOUS
    <3>1. n \in copies' /\ n.by = t /\ ~n.torn
      BY <1>10 DEF CopyExecute
    <3>2. QED
      BY <3>1 DEF CopiesBy
  <2>7. CopyOk(t)'
    BY <1>10, <2>2, <2>3, <2>6 DEF CopyExecute, ghosts, CopyingInv, CopyOk, Copying
  <2>8. Kept(h)'
    BY <2>3 DEF Kept, Busy
  <2>9. QED
    BY <2>4, <2>5, <2>7, <2>8, ContentFrom
<1>11. ASSUME NEW t \in Threads, CopySignal(t) PROVE Goal
  <2>1. call[t] \in [pc : {"record", "submitted", "waiting"}, handle : Handles, up : BOOLEAN,
                     value : Values \cup {NoValue}] /\ call[t] # Idle
        /\ call'[t] = [call[t] EXCEPT !.pc = "waiting"]
        /\ \A u \in Threads : u # t => call'[u] = call[u]
    BY <1>11 DEF CopySignal, Copying
  <2>2. PICK h \in Handles : h = call[t].handle
    BY <2>1
  <2>3. call'[t].handle = h /\ call'[t].up = call[t].up /\ call'[t].pc = "waiting"
        /\ call'[t].value = call[t].value /\ call'[t] # Idle
    BY <2>1, <2>2 DEF Idle
  <2>4. (\A u \in Threads : u # t => BuiltOk(u)' /\ CopyOk(u)')
        /\ \A g \in Handles : g # h => Kept(g)'
    BY <1>11, <1>a, <2>1, <2>2, <2>3, OthersContent DEF CopySignal, gpuVars, ghosts, CopiesBy, TypeOK
  <2>5. BuiltOk(t)'
    BY <2>3 DEF BuiltOk
  <2>6. CopiesBy(t)' = CopiesBy(t)
    BY <1>11 DEF CopySignal, gpuVars, CopiesBy
  <2>7. CopyOk(t)'
    BY <1>11, <2>2, <2>3, <2>6 DEF CopySignal, gpuVars, ghosts, CopyingInv, CopyOk, Copying, InFlight
  <2>8. Kept(h)'
    BY <2>3 DEF Kept, Busy
  <2>9. QED
    BY <2>4, <2>5, <2>7, <2>8, ContentFrom
<1>12. ASSUME NEW t \in Threads, CopyFailsLate(t) PROVE Goal
  <2>1. call[t] # Idle /\ call[t].handle \in Handles /\ call'[t] = Idle
        /\ \A u \in Threads : u # t => call'[u] = call[u]
    BY <1>12, IdleNotBusy DEF CopyFailsLate
  <2>2. PICK h \in Handles : h = call[t].handle
    BY <2>1
  <2>3. \A u \in Threads : u # t => CopiesBy(u) \subseteq copies'
    BY <1>12 DEF CopyFailsLate, CopiesBy, Tears
  <2>4. (\A u \in Threads : u # t => BuiltOk(u)' /\ CopyOk(u)')
        /\ \A g \in Handles : g # h => Kept(g)'
    BY <1>12, <1>a, <2>1, <2>2, <2>3, OthersContent DEF CopyFailsLate
  <2>5. Kept(h)'
    BY <1>12, <2>2 DEF CopyFailsLate, Kept
  <2>6. QED
    BY <1>b, <2>1, <2>4, <2>5, ContentFrom
<1>13. ASSUME NEW t \in Threads, CopyReturns(t) PROVE Goal
  <2>1. call[t] # Idle /\ call[t].handle \in Handles /\ call'[t] = Idle
        /\ \A u \in Threads : u # t => call'[u] = call[u]
    BY <1>13, IdleNotBusy DEF CopyReturns
  <2>2. PICK h \in Handles : h = call[t].handle
    BY <2>1
  <2>3. \A u \in Threads : u # t => CopiesBy(u) \subseteq copies'
    BY <1>13 DEF CopyReturns, Reached, CopiesBy, Tears
  <2>4. (\A u \in Threads : u # t => BuiltOk(u)' /\ CopyOk(u)')
        /\ \A g \in Handles : g # h => Kept(g)'
    BY <1>13, <1>a, <2>1, <2>2, <2>3, OthersContent DEF CopyReturns, TypeOK
  <2>5. CopyOk(t) /\ Copying(t) /\ InFlight(t) /\ CopiesBy(t) = {}
    BY <1>13 DEF CopyReturns, Reached, CopyingInv, Copying, InFlight
  <2>6. Kept(h)'
    BY <1>13, <2>2, <2>5 DEF CopyReturns, CopyOk, Kept, TypeOK
  <2>7. QED
    BY <1>b, <2>1, <2>4, <2>6, ContentFrom
<1>14. ASSUME NEW c \in copies, GpuRuns(c) PROVE Goal
  <2>1. c.by \in Threads /\ c.handle \in Handles /\ c.torn \in BOOLEAN /\ c.up \in BOOLEAN
    BY CopyTypes
  <2>2. UNCHANGED <<object, wrote, late>>
        /\ (\A h \in Handles : h # c.handle \/ ~c.up => content'[h] = content[h])
        /\ (c.up => content'[c.handle] = c.value)
    BY <1>14, <2>1 DEF GpuRuns, ghosts, TypeOK
  (* A list that has lost its memory works for a call that failed late.    *)
  <2>3. c.torn => c.handle \in late
    BY DEF CopiesInv, OnlyLateFailuresTear
  <2>4. ~c.torn => Waited(c)
    BY DEF CopiesInv, Waited
  <2>5. ASSUME NEW t \in Threads
        PROVE  /\ call'[t].pc = call[t].pc
               /\ call[t] # Idle => call'[t].handle = call[t].handle
               /\ Copying(t) => call'[t].up = call[t].up
               /\ call'[t] = Idle <=> call[t] = Idle
               /\ call'[t] # call[t] => t = c.by /\ ~c.up /\ ~c.torn
                                         /\ call'[t].value = content[c.handle]
    BY <1>14, GpuKeepsCalls
  <2>6. ASSUME NEW t \in Threads, t # c.by \/ c.torn PROVE BuiltOk(t)' /\ CopyOk(t)'
    <3>1. call'[t] = call[t]
      BY <2>5, <2>6
    <3>2. CASE call[t] = Idle
      BY <1>b, <3>1, <3>2
    <3>3. CASE call[t] # Idle
      <4>1. call[t].handle \in Handles
        BY <3>3
      <4>2. call[t].handle \notin late => content'[call[t].handle] = content[call[t].handle]
        <5>1. CASE c.torn
          BY <2>2, <2>3, <4>1, <5>1
        <5>2. CASE ~c.torn
          <6>1. call[c.by].handle = c.handle /\ call[c.by] # Idle
            BY <2>1, <2>4, <5>2, IdleNotBusy DEF Waited, InFlight
          <6>2. call[t].handle # c.handle
            BY <2>1, <2>6, <3>3, <5>2, <6>1 DEF CallsApart
          <6>3. QED
            BY <2>2, <4>1, <6>2
        <5>3. QED
          BY <2>1, <5>1, <5>2
      <4>3. CopiesBy(t)' = CopiesBy(t)
        BY <1>14, <2>6 DEF GpuRuns, CopiesBy
      <4>4. BuiltOk(t) /\ CopyOk(t)
        BY DEF BuiltInv, CopyingInv
      <4>5. QED
        BY <2>2, <3>1, <4>2, <4>3, <4>4 DEF BuiltOk, CopyOk, Copying, InFlight
    <3>4. QED
      BY <3>2, <3>3
  <2>7. ASSUME ~c.torn PROVE BuiltOk(c.by)' /\ CopyOk(c.by)'
    <3>1. PICK t \in Threads : t = c.by
      BY <2>1
    <3>2. InFlight(t) /\ Copying(t) /\ call[t].handle = c.handle /\ call[t].up = c.up
          /\ (c.up => call[t].value = c.value) /\ call[t] # Idle
      BY <2>4, <2>7, <3>1 DEF Waited, InFlight, Copying
    <3>3. CopyOk(t)
      BY DEF CopyingInv
    <3>4. BuiltOk(t)'
      BY <2>5, <3>2 DEF BuiltOk, InFlight
    <3>5. CASE c.up
      <4>1. call'[t] = call[t]
        BY <2>5, <3>5
      <4>2. call[t].up /\ call[t].pc # "record" /\ content'[c.handle] = call[t].value
        BY <2>2, <3>1, <3>2, <3>5 DEF InFlight
      <4>3. QED
        BY <3>1, <3>2, <3>4, <4>1, <4>2 DEF CopyOk, Copying, InFlight
    <3>6. CASE ~c.up
      <4>1. call'[t].value = content[c.handle]
        BY <1>14, <2>1, <2>7, <3>1, <3>2, <3>6 DEF GpuRuns, TypeOK
      <4>2. content' = content
        BY <1>14, <3>6 DEF GpuRuns
      <4>3. QED
        BY <2>2, <2>5, <3>1, <3>2, <3>3, <3>4, <3>6, <4>1, <4>2 DEF CopyOk, Copying, InFlight
    <3>7. QED
      BY <2>1, <3>1, <3>5, <3>6
  <2>8. ASSUME NEW h \in Handles PROVE Kept(h)'
    <3>1. Busy(h)' <=> Busy(h)
      BY <2>5 DEF Busy
    <3>2. c.up /\ h = c.handle => Busy(h) \/ h \in late
      BY <2>1, <2>3, <2>4, IdleNotBusy DEF Busy, Waited, InFlight
    <3>3. QED
      BY <2>2, <3>1, <3>2 DEF Kept, UploadsStay, Owned
  <2>9. QED
    BY <2>1, <2>6, <2>7, <2>8 DEF BuiltInv, CopyingInv, UploadsStay, Kept
<1>15. ASSUME NEW c \in copies, GpuLoses(c) PROVE Goal
  <2>1. \A u \in Threads : CopiesBy(u)' = CopiesBy(u)
    BY <1>15 DEF GpuLoses, CopiesBy
  <2>2. BuiltInv' /\ UploadsStay'
    BY <1>15 DEF GpuLoses, ghosts, BuiltInv, BuiltOk, UploadsStay, Owned, Busy
  <2>3. CopyingInv'
    BY <1>15, <2>1 DEF GpuLoses, ghosts, CopyingInv, CopyOk, Copying, InFlight
  <2>4. QED
    BY <2>2, <2>3
<1>16. CASE UNCHANGED <<object, stats, call, gpuVars, wrote, late>>
  <2>1. \A u \in Threads : CopiesBy(u)' = CopiesBy(u)
    BY <1>16 DEF gpuVars, CopiesBy
  <2>2. BuiltInv' /\ UploadsStay'
    BY <1>16 DEF gpuVars, BuiltInv, BuiltOk, UploadsStay, Owned, Busy
  <2>3. CopyingInv'
    BY <1>16, <2>1 DEF gpuVars, CopyingInv, CopyOk, Copying, InFlight
  <2>4. QED
    BY <2>2, <2>3
<1>17. QED
  BY <1>1, <1>2, <1>3, <1>4, <1>5, <1>6, <1>7, <1>8, <1>9, <1>10, <1>11, <1>12, <1>13, <1>14,
     <1>15, <1>16 DEF Next, FreeUnknown, DownloadMapped, vars, ghosts
-----------------------------------------------------------------------------
(* The statistics.                                                         *)

Bytes == [h \in Handles |-> object[h].bytes]

(* What the objects in a part of the map sum up to.                        *)
StatsInv ==
  /\ IsFiniteSet(InMap)
  /\ open => \E S, g : /\ S = InMap /\ g = Bytes
                        /\ stats.live = SumOf(g, S)
                        /\ stats.live <= stats.peak
                        /\ Cardinality(S) <= stats.count

LEMMA StatsInit == Init => StatsInv
<1> SUFFICES ASSUME Init PROVE StatsInv
  OBVIOUS
<1>1. InMap = {}
  BY DEF Init, InMap, Owned, Absent
<1>2. IsFiniteSet({}) /\ Cardinality({}) = 0
  BY FS_EmptySet
<1>3. stats.live = 0 /\ stats.peak = 0 /\ stats.count = 0
  BY DEF Init, NoStats
<1>4. \A g : SumOf(g, {}) = 0
  BY SumEmpty
<1>5. QED
  BY <1>1, <1>2, <1>3, <1>4 DEF StatsInv

LEMMA InMapSizes ==
  ASSUME TypeOK, NEW h \in InMap
  PROVE  h \in Handles /\ Bytes[h] \in Nat /\ Bytes[h] = object[h].bytes
<1>1. h \in Handles /\ object[h] \in Object \cup {Absent} /\ object[h].at = "owned"
  BY DEF TypeOK, InMap, Owned
<1>2. object[h] \in Object
  BY <1>1 DEF Absent
<1>3. QED
  BY <1>1, <1>2 DEF Object, Bytes

(* What leaves the map and its sizes alone.                                *)
LEMMA StatsKept ==
  ASSUME StatsInv, TypeOK, UNCHANGED <<stats.live, stats.peak, stats.count>>, open' => open,
         \A h \in Handles : Owned(h)' <=> Owned(h),
         \A h \in InMap : object'[h] = object[h]
  PROVE  StatsInv'
<1>1. InMap' = InMap
  BY DEF InMap
<1>2. ASSUME open
      PROVE  \E S, g : /\ S = InMap' /\ g = Bytes'
                       /\ stats'.live = SumOf(g, S)
                       /\ stats'.live <= stats'.peak
                       /\ Cardinality(S) <= stats'.count
  <2>1. PICK S, g : /\ S = InMap /\ g = Bytes
                    /\ stats.live = SumOf(g, S)
                    /\ stats.live <= stats.peak
                    /\ Cardinality(S) <= stats.count
    BY <1>2 DEF StatsInv
  <2>2. PICK k : k = Bytes'
    OBVIOUS
  <2>3. \A x \in S : g[x] = k[x]
    BY <2>1, <2>2 DEF Bytes, InMap
  <2>4. IsFiniteSet(S)
    BY <2>1 DEF StatsInv
  <2>5. SumOf(g, S) = SumOf(k, S)
    BY <2>3, <2>4, SumSame
  <2>6. QED
    BY <1>1, <2>1, <2>2, <2>5
<1>3. IsFiniteSet(InMap')
  BY <1>1 DEF StatsInv
<1>4. QED
  BY <1>2, <1>3 DEF StatsInv

(* An object that enters the map adds its size.                            *)
LEMMA StatsPublish ==
  ASSUME StatsInv, TypeOK, CallsInv, NEW t \in Threads, AllocPublish(t)
  PROVE  StatsInv'
<1>1. PICK h \in Handles : h = call[t].handle /\ object[h].at = "built" /\ object[h] \in Object
  <2>1. call[t].pc = "build" /\ call[t] # Idle
    BY DEF AllocPublish, Idle
  <2>2. call[t].handle \in Handles
    BY <2>1, CallShapes
  <2>3. object[call[t].handle].at = "built"
    BY <2>1 DEF CallsInv, HasItsObject
  <2>4. QED
    BY <2>2, <2>3 DEF TypeOK, Absent
<1>2. /\ object' = [object EXCEPT ![h].at = "owned"]
      /\ stats' = [stats EXCEPT !.count = stats.count + 1, !.live = stats.live + object[h].bytes,
                                !.peak = Larger(stats.peak, stats.live + object[h].bytes)]
      /\ open' = open
  BY <1>1 DEF AllocPublish
<1>3. stats \in [count : Nat, live : Int, peak : Int, failures : Nat] /\ object[h].bytes \in Nat
  BY <1>1 DEF TypeOK, Object
<1>4. /\ stats'.live = stats.live + object[h].bytes
      /\ stats'.peak = Larger(stats.peak, stats.live + object[h].bytes)
      /\ stats'.count = stats.count + 1
  BY <1>2, <1>3
<1>5. /\ object'[h].at = "owned" /\ object'[h].bytes = object[h].bytes
      /\ \A x \in Handles : x # h => object'[x] = object[x]
  BY <1>1, <1>2 DEF TypeOK, Object
<1>6. InMap' = InMap \cup {h} /\ h \notin InMap
  BY <1>1, <1>5 DEF InMap, Owned
<1>7. IsFiniteSet(InMap) /\ IsFiniteSet(InMap \cup {h})
  BY FS_AddElement DEF StatsInv
<1>8. ASSUME open
      PROVE  \E S, g : /\ S = InMap' /\ g = Bytes'
                       /\ stats'.live = SumOf(g, S)
                       /\ stats'.live <= stats'.peak
                       /\ Cardinality(S) <= stats'.count
  <2>1. PICK S, g : /\ S = InMap /\ g = Bytes
                    /\ stats.live = SumOf(g, S)
                    /\ stats.live <= stats.peak
                    /\ Cardinality(S) <= stats.count
    BY <1>8 DEF StatsInv
  <2>2. PICK k : k = Bytes'
    OBVIOUS
  <2>3. /\ \A x \in S : g[x] = k[x]
        /\ \A x \in S \cup {h} : k[x] \in Int
        /\ k[h] = object[h].bytes
    <3>1. \A x \in S : x \in Handles /\ x # h /\ g[x] \in Nat
      BY <1>6, <2>1, InMapSizes
    <3>2. k[h] = object[h].bytes
      BY <1>5, <2>2 DEF Bytes
    <3>3. \A x \in S : g[x] = k[x]
      BY <1>5, <2>1, <2>2, <3>1 DEF Bytes
    <3>4. QED
      BY <1>3, <3>1, <3>2, <3>3
  <2>4. /\ IsFiniteSet(S) /\ IsFiniteSet(S \cup {h}) /\ h \notin S
        /\ (S \cup {h}) \ {h} = S
    BY <1>6, <1>7, <2>1
  <2>5. SumOf(k, S \cup {h}) = SumOf(k, S) + k[h]
    BY <2>3, <2>4, SumAdds
  <2>6. SumOf(k, S) = SumOf(g, S)
    BY <2>3, <2>4, SumSame
  <2>7. Cardinality(S \cup {h}) = Cardinality(S) + 1 /\ Cardinality(S) \in Nat
    BY <2>4, FS_AddElement, FS_CardinalityType
  <2>8. PICK T : T = S \cup {h} /\ T = InMap'
    BY <1>6, <2>1
  <2>9. /\ stats'.live = SumOf(k, T)
        /\ stats'.live <= stats'.peak
        /\ Cardinality(T) <= stats'.count
    BY <1>3, <1>4, <2>1, <2>3, <2>5, <2>6, <2>7, <2>8 DEF Larger
  <2>10. QED
    BY <2>2, <2>8, <2>9
<1>9. QED
  BY <1>2, <1>6, <1>7, <1>8 DEF StatsInv

(* One that leaves it takes its size along.                                *)
LEMMA StatsDetach ==
  ASSUME StatsInv, TypeOK, NEW t \in Threads, NEW h \in Handles, FreeDetach(t, h)
  PROVE  StatsInv'
<1>1. h \in InMap /\ object[h].bytes \in Nat
  <2>1. h \in InMap
    BY DEF FreeDetach, MayCall, InMap
  <2>2. QED
    BY <2>1, InMapSizes
<1>2. /\ object' = [object EXCEPT ![h].at = "detached"]
      /\ stats' = [stats EXCEPT !.live = stats.live - object[h].bytes]
      /\ open' = open
  BY DEF FreeDetach, Uncounted
<1>3. stats \in [count : Nat, live : Int, peak : Int, failures : Nat] /\ object[h] \in Object
  BY <1>1 DEF TypeOK, InMap, Owned, Absent
<1>4. stats'.live = stats.live - object[h].bytes /\ stats'.peak = stats.peak
      /\ stats'.count = stats.count
  BY <1>2, <1>3
<1>5. /\ object'[h].at = "detached"
      /\ \A x \in Handles : x # h => object'[x] = object[x]
  BY <1>2, <1>3 DEF TypeOK, Object
<1>6. InMap' = InMap \ {h}
  BY <1>5 DEF InMap, Owned
<1>7. IsFiniteSet(InMap) /\ IsFiniteSet(InMap \ {h})
  BY FS_RemoveElement DEF StatsInv
<1>8. ASSUME open
      PROVE  \E S, g : /\ S = InMap' /\ g = Bytes'
                       /\ stats'.live = SumOf(g, S)
                       /\ stats'.live <= stats'.peak
                       /\ Cardinality(S) <= stats'.count
  <2>1. PICK S, g : /\ S = InMap /\ g = Bytes
                    /\ stats.live = SumOf(g, S)
                    /\ stats.live <= stats.peak
                    /\ Cardinality(S) <= stats.count
    BY <1>8 DEF StatsInv
  <2>2. PICK k : k = Bytes'
    OBVIOUS
  <2>3. /\ \A x \in S : g[x] \in Int
        /\ \A x \in S \ {h} : g[x] = k[x]
        /\ g[h] = object[h].bytes
    <3>1. \A x \in S : x \in Handles /\ g[x] \in Nat
      BY <2>1, InMapSizes
    <3>2. \A x \in S \ {h} : g[x] = k[x]
      BY <1>5, <2>1, <2>2, <3>1 DEF Bytes
    <3>3. QED
      BY <2>1, <3>1, <3>2 DEF Bytes
  <2>4. /\ IsFiniteSet(S) /\ IsFiniteSet(S \ {h}) /\ h \in S
    BY <1>1, <1>7, <2>1
  <2>5. SumOf(g, S) = SumOf(g, S \ {h}) + g[h]
    BY <2>3, <2>4, SumAdds
  <2>6. SumOf(k, S \ {h}) = SumOf(g, S \ {h}) /\ SumOf(g, S \ {h}) \in Int
    BY <2>3, <2>4, SumSame, SumType
  <2>7. Cardinality(S \ {h}) = Cardinality(S) - 1 /\ Cardinality(S) \in Nat
    BY <2>4, FS_RemoveElement, FS_CardinalityType
  <2>8. PICK T : T = S \ {h} /\ T = InMap'
    BY <1>6, <2>1
  <2>9. /\ stats'.live = SumOf(k, T)
        /\ stats'.live <= stats'.peak
        /\ Cardinality(T) <= stats'.count
    BY <1>1, <1>3, <1>4, <2>1, <2>3, <2>5, <2>6, <2>7, <2>8
  <2>10. QED
    BY <2>2, <2>8, <2>9
<1>9. QED
  BY <1>2, <1>6, <1>7, <1>8 DEF StatsInv

LEMMA StatsStep == StatsInv /\ TypeOK /\ CallsInv /\ [Next]_vars => StatsInv'
<1> SUFFICES ASSUME StatsInv, TypeOK, CallsInv, [Next]_vars PROVE StatsInv'
  OBVIOUS
<1>1. CASE DestroyPool
  <2>1. \A h \in Handles : ~Owned(h)'
    BY <1>1 DEF DestroyPool, Owned, Absent
  <2>2. InMap' = {} /\ ~open'
    BY <1>1, <2>1 DEF DestroyPool, InMap
  <2>3. QED
    BY <2>2, FS_EmptySet DEF StatsInv
<1>2. ASSUME NEW t \in Threads, NEW h \in Handles, NEW r \in Requests, AllocBegin(t, h, r)
      PROVE  StatsInv'
  <2>1. object[h] = Absent /\ h \notin InMap /\ UNCHANGED <<stats, open>>
    BY <1>2 DEF AllocBegin, InMap, Owned, Absent
  <2>2. /\ object'[h].at = "built"
        /\ \A x \in Handles : x # h => object'[x] = object[x]
    BY <1>2 DEF AllocBegin, TypeOK
  <2>3. \A x \in Handles : Owned(x)' <=> Owned(x)
    BY <2>1, <2>2 DEF Owned, Absent
  <2>4. \A x \in InMap : object'[x] = object[x]
    BY <2>1, <2>2 DEF InMap
  <2>5. QED
    BY <2>1, <2>3, <2>4, StatsKept
<1>3. ASSUME NEW t \in Threads, AllocFail(t) \/ FreeRelease(t)
      PROVE  StatsInv'
  <2>1. PICK h \in Handles : /\ h = call[t].handle /\ object[h].at \in {"built", "detached"}
                             /\ object' = [object EXCEPT ![h] = Absent]
    <3>1. call[t].pc \in {"build", "release"} /\ call[t] # Idle
      BY <1>3 DEF AllocFail, FreeRelease, Idle
    <3>2. call[t].handle \in Handles /\ object[call[t].handle].at \in {"built", "detached"}
      BY <3>1, CallShapes DEF CallsInv, HasItsObject
    <3>3. QED
      BY <1>3, <3>2 DEF AllocFail, FreeRelease
  <2>2. UNCHANGED <<stats.live, stats.peak, stats.count, open>>
    BY <1>3 DEF AllocFail, FreeRelease, TypeOK
  <2>3. /\ object'[h] = Absent
        /\ \A x \in Handles : x # h => object'[x] = object[x]
    BY <2>1 DEF TypeOK
  <2>4. \A x \in Handles : Owned(x)' <=> Owned(x)
    BY <2>1, <2>3 DEF Owned, Absent
  <2>5. \A x \in InMap : object'[x] = object[x]
    BY <2>1, <2>3 DEF InMap, Owned
  <2>6. QED
    BY <2>2, <2>4, <2>5, StatsKept
<1>4. CASE UNCHANGED <<object, stats, open>>
  BY <1>4, StatsKept DEF Owned
<1>5. QED
  BY <1>1, <1>2, <1>3, <1>4, StatsPublish, StatsDetach
     DEF Next, FreeUnknown, UploadMapped, DownloadMapped, CopyBegin, CopyRefused, CopyExecute,
         CopySignal, CopyFailsLate, CopyReturns, GpuRuns, GpuLoses, vars

(* The sum of the property, and the one the lemmas are about.              *)
LEMMA LiveBytes == TypeOK /\ StatsInv => StatsTellTheTruth
<1> SUFFICES ASSUME TypeOK, StatsInv, open PROVE StatsTellTheTruth
  BY DEF StatsTellTheTruth
<1>1. PICK S, g : /\ S = InMap /\ g = Bytes
                  /\ stats.live = SumOf(g, S)
                  /\ stats.live <= stats.peak
                  /\ Cardinality(S) <= stats.count
  BY DEF StatsInv
<1>2. \A x \in S : g[x] = object[x].bytes
  BY <1>1 DEF Bytes, InMap
<1>3. PICK it : Sums(it, g, S) /\ SumOf(g, S) = it[S]
  BY <1>1, SumsExist, SumOfIs DEF StatsInv
<1>4. \A jt : jt = [s \in SUBSET S |->
                      IF s = {} THEN 0 ELSE object[Chosen(s)].bytes + jt[s \ {Chosen(s)}]]
                  <=> Sums(jt, g, S)
  BY <1>2, ChosenIsIn DEF Sums
<1>5. \A jt : Sums(jt, g, S) => jt = it
  BY <1>1, <1>3, SumsUnique DEF StatsInv
<1> DEFINE kt == CHOOSE jt : jt = [s \in SUBSET S |->
                 IF s = {} THEN 0 ELSE object[Chosen(s)].bytes + jt[s \ {Chosen(s)}]]
<1>6. kt = it
  BY <1>3, <1>4, <1>5
<1>7. QED
  BY <1>1, <1>3, <1>6 DEF StatsTellTheTruth, MapThenSumSet, MapThenFoldSet, Chosen

-----------------------------------------------------------------------------
LEMMA InitIInv == Init => IInv
BY PoolAssumption DEF Init, IInv, TypeOK, NoStats, CallsApart, CallsInv, HasItsObject, BlocksInv,
                      CopiesInv, BuiltInv, BuiltOk, CopyingInv, CopyOk, Copying, Idle, Absent, Owned,
                      OnlyMappedIsMisfreed, OnlyLateFailuresTear, UploadsStay

LEMMA NextIInv == IInv /\ [Next]_vars => IInv'
BY TypeOKStep, CallsStep, BlocksStep, CopiesStep, ContentStep DEF IInv

THEOREM Invariance == Spec => []IInv
BY InitIInv, NextIInv, PTL DEF Spec

(* Every variable keeps its type.                                          *)
THEOREM TypeCorrect == Spec => []TypeOK
<1>1. IInv => TypeOK
  BY DEF IInv
<1>2. QED
  BY <1>1, Invariance, PTL

(* As long as the pool is open, its statistics add up to what it has in    *)
(* its map: the bytes, no more than their peak, and of no fewer            *)
(* allocations (dx_memory_api.cpp:94-101, 362-375).                        *)
THEOREM StatisticsAreTrue == Spec => []StatsTellTheTruth
<1>1. IInv => TypeOK /\ CallsInv
  BY DEF IInv
<1>2. QED
  BY <1>1, Invariance, StatsInit, StatsStep, LiveBytes, PTL DEF Spec

(* However calls of any threads meet on any addresses, the C runtime is    *)
(* told to free nothing it has not allocated, but addresses of mapped      *)
(* heaps (dx_memory_api.cpp:50, 398-413).                                  *)
THEOREM MisfreesOnlyMapped == Spec => []OnlyMappedIsMisfreed
<1>1. IInv => OnlyMappedIsMisfreed
  BY DEF IInv
<1>2. QED
  BY <1>1, Invariance, PTL

(* Of any number of copies, none loses what it works on before the GPU has *)
(* run it, unless its own call failed late (dx_memory_api.cpp:267-287).    *)
THEOREM TearsOnlyLate == Spec => []OnlyLateFailuresTear
<1>1. IInv => OnlyLateFailuresTear
  BY DEF IInv
<1>2. QED
  BY <1>1, Invariance, PTL

(* What an upload wrote stays, of any contents, in any number of objects   *)
(* and threads (dx_memory_api.cpp:275-297).                                *)
THEOREM KeepsUploads == Spec => []UploadsStay
<1>1. IInv => UploadsStay
  BY DEF IInv
<1>2. QED
  BY <1>1, Invariance, PTL

(* What a download returns is what the last upload wrote                   *)
(* (dx_memory_api.cpp:289-297).                                            *)
THEOREM BringsUploads == Spec => DownloadsBringIt
<1>1. IInv /\ [Next]_vars =>
        [\A t \in Threads :
           (/\ call[t].pc = "waiting" /\ call'[t] = Idle
            /\ ~call[t].up /\ call[t].handle \notin late')
             => call[t].value = wrote[call[t].handle]]_vars
  <2> SUFFICES ASSUME IInv, [Next]_vars, NEW t \in Threads, call[t].pc = "waiting", call'[t] = Idle,
                      ~call[t].up, call[t].handle \notin late'
               PROVE  call[t].value = wrote[call[t].handle]
    OBVIOUS
  <2>1. TypeOK /\ CopiesInv /\ CopyOk(t)
    BY DEF IInv, CopyingInv
  <2>2. CopyReturns(t)
    <3> USE <2>1, CallShapes, GoesTo, IdleNotBusy
    <3>1. call[t] # Idle /\ call'[t] # call[t]
      BY DEF Idle
    <3>2. ~UNCHANGED call
      BY <3>1
    <3>3. \A u \in Threads : \A c : Goes(u, c) => u = t /\ c = Idle
      BY <3>1
    <3>4. \A c \in copies : ~GpuRuns(c)
      BY <3>1, GpuKeepsCalls
    <3>5. ~CopyFailsLate(t)
      BY DEF CopyFailsLate
    <3>6. ~(\E u \in Threads :
              \/ \E h \in Handles : \/ \E r \in Requests : AllocBegin(u, h, r)
                                    \/ FreeDetach(u, h)
                                    \/ \E up, v : CopyBegin(u, h, up, v))
      BY <3>1, <3>3 DEF AllocBegin, FreeDetach, CopyBegin, MayCall
    <3>7. ~(\E u \in Threads : \/ AllocPublish(u) \/ AllocFail(u) \/ FreeRelease(u)
                               \/ CopyRefused(u) \/ CopyExecute(u) \/ CopySignal(u))
      BY <3>3 DEF AllocPublish, AllocFail, FreeRelease, CopyRefused, CopyExecute, CopySignal, Idle
    <3>8. ~CopySignal(t) /\ \A u \in Threads : CopyFailsLate(u) \/ CopyReturns(u) => u = t
      BY <3>3, <3>7 DEF CopyFailsLate, CopyReturns
    <3>9. QED
      BY <3>2, <3>4, <3>5, <3>6, <3>7, <3>8
         DEF Next, DestroyPool, FreeUnknown, UploadMapped, DownloadMapped, GpuLoses, vars
  <2>3. QED
    BY <2>1, <2>2 DEF CopyReturns, Reached, CopyOk, Copying, InFlight
<1>2. QED
  BY <1>1, Invariance, PTL DEF Spec, DownloadsBringIt
=============================================================================
