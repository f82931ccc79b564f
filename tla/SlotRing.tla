------------------------------ MODULE SlotRing ------------------------------
(***************************************************************************)
(* What the streaming ring promises about its slots, whatever runs         *)
(* underneath ("evicts LRU victim (waiting for it if it still has          *)
(* in-flight work)", src/include/dxait/dxstream.hpp): a slot is given a    *)
(* new tensor only when it is the least recently used one and is not being *)
(* loaded, and a load ends with the slot holding the tensor it was given.  *)
(*                                                                         *)
(* It does not promise which tensor a reused slot holds: see               *)
(* HitServesRequestedTensor in StreamRing.                                *)
(***************************************************************************)
CONSTANTS SlotIds, Items

VARIABLES
  older,    (* pairs <<a, b>>: a was used before b                         *)
  load      (* what each slot is doing                                     *)

ringState == <<older, load>>

Empty      == [state |-> "empty"]
Loading(t) == [state |-> "loading", item |-> t]
Loaded(t)  == [state |-> "loaded", item |-> t]

(* Any strict total order on the slots will do to begin with.              *)
TotalOrder(R) ==
  /\ R \subseteq SlotIds \X SlotIds
  /\ \A a, b \in SlotIds : a # b => (<<a, b>> \in R) # (<<b, a>> \in R)
  /\ \A a \in SlotIds : <<a, a>> \notin R
  /\ \A a, b, c \in SlotIds :
       <<a, b>> \in R /\ <<b, c>> \in R => <<a, c>> \in R

Start ==
  /\ TotalOrder(older)
  /\ load = [s \in SlotIds |-> Empty]

(* s becomes the most recently used slot; the others keep their order.     *)
MovedToEnd(s) ==
  {p \in SlotIds \X SlotIds :
     \/ p[2] = s /\ p[1] # s
     \/ p \in older /\ p[1] # s /\ p[2] # s}

Reuse(s) ==
  /\ load[s] # Empty
  /\ older' = MovedToEnd(s)
  /\ UNCHANGED load

Replace(s, t) ==
  /\ \A o \in SlotIds \ {s} : <<s, o>> \in older
  /\ load[s].state # "loading"
  /\ load' = [load EXCEPT ![s] = Loading(t)]
  /\ older' = MovedToEnd(s)

Arrive(s) ==
  /\ load[s].state = "loading"
  /\ load' = [load EXCEPT ![s] = Loaded(load[s].item)]
  /\ UNCHANGED older

Step ==
  \E s \in SlotIds :
    \/ Reuse(s)
    \/ \E t \in Items : Replace(s, t)
    \/ Arrive(s)

Promise == Start /\ [][Step]_ringState
=============================================================================
