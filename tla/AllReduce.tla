----------------------------- MODULE AllReduce ------------------------------
(***************************************************************************)
(* CollectiveOps::all_reduce_sum, src/dxcollective/dxcollective.cpp: the   *)
(* buffers of several devices, in chunks that go round a ring by copies    *)
(* the caller waits for, and additions nobody waits for.                   *)
(*                                                                         *)
(* A chunk is one element of it: how often the element of each device is   *)
(* in the sum.  The last chunk is what is left when the bytes do not       *)
(* divide.  An addition is a bare operation (Dispatch) of an object and a  *)
(* queue that are destroyed at once, so it may happen later or not at all. *)
(* The copies between adapters that cannot reach each other's memory, and  *)
(* buffers shorter than a byte for each device, are left out.              *)
(***************************************************************************)
EXTENDS Naturals

CONSTANT MaxDevices

ASSUME AllReduceAssumption == MaxDevices \in Nat \ {0}

VARIABLES
  many,        (* num_gpus                                                 *)
  round,       (* the pass, its step and the device whose turn it is       *)
  buffers,     (* what is in each chunk of the buffer of each device       *)
  additions,   (* additions the GPUs have not got to: number, from, to     *)
  behind       (* history: a chunk was gathered before every addition was  *)
               (* done                                                     *)

reduceVars == <<many, round, buffers, additions, behind>>

Ring       == 0 .. many - 1
Single(d)  == [e \in Ring |-> IF e = d THEN 1 ELSE 0]
Receiver(i) == (i + 1) % many

ReduceInit ==
  /\ many \in 1 .. MaxDevices
  /\ round = [pass |-> "idle", step |-> 0, i |-> 0]
  /\ buffers = [d \in Ring |-> [c \in 0 .. many |-> Single(d)]]
  /\ additions = {}
  /\ behind = FALSE

(* The call; for one buffer there is nothing to do.                        *)
ReduceBegins ==
  /\ round.pass = "idle"
  /\ round' = [round EXCEPT !.pass = IF many = 1 THEN "returned" ELSE "scatter"]
  /\ UNCHANGED <<many, buffers, additions, behind>>

(* The two loops: device by device, step by step.                          *)
NextTurn ==
  round' = IF round.i < many - 1 THEN [round EXCEPT !.i = @ + 1]
           ELSE IF round.step < many - 2 THEN [round EXCEPT !.step = @ + 1, !.i = 0]
           ELSE [pass |-> IF round.pass = "scatter" THEN "gather" ELSE "returned",
                 step |-> 0, i |-> 0]

Copied(i, c) == [buffers EXCEPT ![Receiver(i)][c] = buffers[i][c]]

(* Chunk i - step replaces that of the next device, whose first chunk is   *)
(* then to be added the first of this one: vec_add is given no offset.     *)
ScatterChunk ==
  LET i == round.i
      c == (i + many - round.step) % many IN
  /\ round.pass = "scatter"
  /\ buffers' = Copied(i, c)
  /\ additions' = additions \cup {[n |-> round.step * many + i, from |-> i, to |-> Receiver(i)]}
  /\ NextTurn
  /\ UNCHANGED <<many, behind>>

(* Mutant: the same chunk in every step.                                   *)
SameChunk(i, step) == (i + 1) % many

GatheredChunk(i, step) == (i + many + 1 - step) % many

GatherChunk ==
  /\ round.pass = "gather"
  /\ buffers' = Copied(round.i, GatheredChunk(round.i, round.step))
  /\ behind' = (behind \/ additions # {})
  /\ NextTurn
  /\ UNCHANGED <<many, additions>>

(* A GPU adds, in whatever order: each addition is on a queue of its own.  *)
Adds(a) ==
  /\ a \in additions
  /\ additions' = additions \ {a}
  /\ buffers' = [buffers EXCEPT ![a.to][0] =
                   [e \in Ring |-> buffers[a.to][0][e] + buffers[a.from][0][e]]]
  /\ UNCHANGED <<many, round, behind>>

(* The object is gone before the GPU got to it.                            *)
IsLost(a) ==
  /\ a \in additions
  /\ additions' = additions \ {a}
  /\ UNCHANGED <<many, round, buffers, behind>>

ReduceNext ==
  \/ ReduceBegins \/ ScatterChunk \/ GatherChunk
  \/ \E a \in additions : Adds(a) \/ IsLost(a)

-----------------------------------------------------------------------------
(* What all_reduce_sum leaves, of "Broadcast fully reduced chunks across   *)
(* all GPUs" (dxcollective.cpp:117): the chunks do come out the same on    *)
(* every device, but one that is summed is the first and only the first;   *)
(* the others are those of the device of their number, and what does not   *)
(* divide stays with its device.  The first is not the sum either, and the *)
(* same everywhere only if the gathering came after every addition         *)
(* (dxcollective.cpp:80-141).                                              *)
OnlyFirstChunkIsSummed ==
  round.pass = "returned" =>
    \A d \in Ring :
      /\ \A c \in Ring \ {0} : buffers[d][c] = Single(c)
      /\ buffers[d][many] = Single(d)
      /\ many > 1 => \E e \in Ring : buffers[d][0][e] # 1
      /\ behind \/ \A e \in Ring : buffers[d][0] = buffers[e][0]
=============================================================================
