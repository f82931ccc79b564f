---------------------------- MODULE CommandGraph ----------------------------
(***************************************************************************)
(* dxait::CommandGraph, src/dxgraph/dxgraph.cpp, used by one thread: nodes *)
(* that record into one command list, in an order found by Kahn's          *)
(* algorithm.  How its list and allocator are reused while the GPU may     *)
(* still be at them is part of module Dispatch.                            *)
(***************************************************************************)
EXTENDS Integers, Sequences, SequencesExt, FiniteSets, Selections

CONSTANTS
  NodeDeps,     (* lists of dependencies of a node: any identifiers        *)
  MaxCommands,  (* bound: nodes of the graph                               *)
  MaxRecorded   (* bound: nodes in one list                                *)

ASSUME CommandGraphAssumption ==
  /\ MaxCommands \in Nat /\ MaxRecorded \in Nat
  /\ \A l \in NodeDeps : l \in Seq(Nat)

VARIABLES
  nodes,        (* m_nodes: the dependencies of each                       *)
  order,        (* m_order                                                 *)
  isCompiled,   (* m_compiled                                              *)
  list,         (* m_cmd_list: open or closed, and who has recorded        *)
  executed,     (* the lists the queue was given last                      *)
  threw         (* history: a function of a node threw                     *)

commandVars == <<nodes, order, isCompiled, list, executed, threw>>

CommandInit ==
  /\ nodes = <<>>
  /\ order = <<>>
  /\ isCompiled = FALSE
  /\ list = [open |-> FALSE, by |-> <<>>]
  /\ executed = <<>>
  /\ threw = FALSE

(* add_node: no dependency is checked here.                                *)
AddCommand(deps) ==
  /\ Len(nodes) < MaxCommands
  /\ nodes' = Append(nodes, deps)
  /\ isCompiled' = FALSE
  /\ UNCHANGED <<order, list, executed, threw>>

-----------------------------------------------------------------------------
(* compile                                                                 *)

BadDependency == \E n \in DOMAIN nodes : \E d \in ToSet(nodes[n]) : d >= Len(nodes)

(* How often adj[id] has node n - 1: repeated dependencies are counted.     *)
Edges(n, id) == Cardinality({k \in DOMAIN nodes[n] : nodes[n][k] = id})

(* Mutant: in_degree[next]-- > 0, for whoever waited for the node.         *)
FreedAtOnce(s, id) == {n \in DOMAIN nodes : Edges(n, id) # 0 /\ s.degree[n] # 0}

(* Those whose in_degree goes to 0 with the last of the edges from id.     *)
Freed(s, id) == {n \in DOMAIN nodes : Edges(n, id) # 0 /\ s.degree[n] = Edges(n, id)}

Ids == [n \in 1 .. Len(nodes) |-> n - 1]

(* The first that is ready is put into the order; adj[id] is ascending.    *)
Popped(s) ==
  LET id == Head(s.ready) IN
  [ready  |-> Tail(s.ready) \o SelectAt(Ids, Freed(s, id)),
   degree |-> [n \in DOMAIN nodes |-> s.degree[n] - Edges(n, id)],
   order  |-> Append(s.order, id)]

KahnStates == [ready : Seq(Nat), degree : [DOMAIN nodes -> Int], order : Seq(Nat)]

(* Nobody is ready twice, so there are no more rounds than nodes.          *)
Round == [n \in Nat |-> [s \in KahnStates |-> IF s.ready = <<>> THEN s ELSE Popped(s)]]

Kahn ==
  Looped(Round,
         [ready  |-> SelectAt(Ids, {n \in DOMAIN nodes : nodes[n] = <<>>}),
          degree |-> [n \in DOMAIN nodes |-> Len(nodes[n])],
          order  |-> <<>>],
         Ids).order

Succeeds == ~BadDependency /\ Len(Kahn) = Len(nodes)

(* What compile leaves in m_order: with a bad dependency it throws before  *)
(* it clears the order, with a cycle after it has filled a part of it.     *)
OrderLeft == IF BadDependency THEN order ELSE Kahn

Compile ==
  /\ order' = OrderLeft
  /\ isCompiled' = (isCompiled \/ Succeeds)
  /\ UNCHANGED <<nodes, list, executed, threw>>

-----------------------------------------------------------------------------
(* execute                                                                 *)

(* compile throws: nothing is recorded.                                    *)
ExecuteRefused ==
  /\ ~isCompiled
  /\ ~Succeeds
  /\ order' = OrderLeft
  /\ UNCHANGED <<nodes, isCompiled, list, executed, threw>>

(* Neither Reset does anything to a list that is still open, and nobody    *)
(* looks at what they return.                                              *)
Started == IF list.open THEN list.by ELSE <<>>

Runnable(ids) ==
  /\ IF isCompiled THEN ids = order ELSE Succeeds /\ ids = Kahn
  /\ Len(Started) + Len(ids) <= MaxRecorded

(* Every function records; the list is closed and given to the queue.      *)
Execute ==
  \E ids \in {order, Kahn} :
    /\ Runnable(ids)
    /\ order' = ids
    /\ isCompiled' = TRUE
    /\ list' = [open |-> FALSE, by |-> Started \o ids]
    /\ executed' = list'.by
    /\ UNCHANGED <<nodes, threw>>

(* The function of a node throws: what is recorded stays, and the list     *)
(* stays open.                                                             *)
ExecuteThrows ==
  \E ids \in {order, Kahn} : \E k \in 1 .. Len(ids) :
    /\ Runnable(ids)
    /\ order' = ids
    /\ isCompiled' = TRUE
    /\ list' = [open |-> TRUE, by |-> Started \o SubSeq(ids, 1, k - 1)]
    /\ threw' = TRUE
    /\ UNCHANGED <<nodes, executed>>

CommandNext ==
  \/ \E deps \in NodeDeps : AddCommand(deps)
  \/ Compile \/ ExecuteRefused \/ Execute \/ ExecuteThrows

-----------------------------------------------------------------------------
InOrder(ids) ==
  /\ IsInjective(ids)
  /\ \A i \in DOMAIN ids : ToSet(nodes[ids[i] + 1]) \subseteq ToSet(SubSeq(ids, 1, i - 1))

CanBeOrdered == \E ids \in [1 .. Len(nodes) -> 0 .. Len(nodes) - 1] : InOrder(ids)

(* The algorithm decides exactly whether the nodes can be ordered at all,  *)
(* repeated and forward dependencies included; what m_compiled promises is *)
(* an order of all of them; and a list given to the queue has each node of *)
(* an order once and after its dependencies, unless the function of some   *)
(* node threw and left its list open (dxgraph.cpp:24-58 and 60-75).        *)
OnlyThrowsRepeat ==
  /\ Succeeds <=> CanBeOrdered
  /\ isCompiled => InOrder(order) /\ Len(order) = Len(nodes)
  /\ ~threw => InOrder(executed)
=============================================================================
