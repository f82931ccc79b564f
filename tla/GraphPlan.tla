----------------------------- MODULE GraphPlan ------------------------------
(***************************************************************************)
(* The operator registry, the graph and the plans of the C layer,          *)
(* src/core/dx_graph_api.cpp.                                              *)
(*                                                                         *)
(* The registry has a lock and serves several threads; a graph has none,   *)
(* and one thread builds it; a plan is not changed once it is given out.   *)
(* Every call that touches the registry takes its lock once, so a call is  *)
(* one step.  Identifiers of nodes start at 0 and are what add_node gave.  *)
(***************************************************************************)
EXTENDS Naturals, Sequences, SequencesExt, Selections

CONSTANTS
  Operators,   (* names of operators                                       *)
  Wanted,      (* lists of dependencies add_node is asked for              *)
  MaxNodes     (* bound: nodes of the graph                                *)

ASSUME GraphPlanAssumption ==
  MaxNodes \in Nat /\ \A l \in Wanted : l \in Seq(Nat)

VARIABLES
  operators,   (* dx_operator_registry_t: the names registered             *)
  frozen,      (* ... and whether more are taken                           *)
  graph,       (* dx_graph_t: its nodes                                    *)
  plans,       (* the plans given out and not destroyed                    *)
  refused      (* history: a compilation found a cycle or a missing node   *)

planVars == <<operators, frozen, graph, plans, refused>>

PlanInit ==
  /\ operators = {}
  /\ frozen = FALSE
  /\ graph = <<>>
  /\ plans = {}
  /\ refused = FALSE

-----------------------------------------------------------------------------
(* dx_operator_register; a name that is there already is no error.         *)
RegisterOperator(name) ==
  /\ ~frozen
  /\ operators' = operators \cup {name}
  /\ UNCHANGED <<frozen, graph, plans, refused>>

(* dx_operator_registry_freeze                                             *)
FreezeRegistry ==
  /\ frozen' = TRUE
  /\ UNCHANGED <<operators, graph, plans, refused>>

IsRegistered(name) == name \in operators

(* Mutant: an identifier one beyond the last is let through.               *)
KnownOrNext(g, id) == id <= Len(g)

(* The check of a dependency in dx_graph_add_node.                         *)
Known(g, id) == id < Len(g)

AddNode(name, deps) ==
  /\ IsRegistered(name)
  /\ \A i \in DOMAIN deps : Known(graph, deps[i])
  /\ Len(graph) < MaxNodes
  /\ graph' = Append(graph, [name |-> name, deps |-> deps])
  /\ UNCHANGED <<operators, frozen, plans, refused>>

-----------------------------------------------------------------------------
(* dx_graph_compile                                                        *)

(* visit_node: a node is marked 1 on the way down, and 2 once it is in the *)
(* order; one that is met while it is marked 1 is in a cycle.              *)
Visits(g) == [fine : BOOLEAN, marks : [1 .. Len(g) -> 0 .. 2], order : Seq(Nat)]

Marked(s, id, m) == [s EXCEPT !.marks[id + 1] = m]
Ordered(s, id)   == [s EXCEPT !.order = Append(@, id)]

(* depth bounds how far down it goes: a path of more nodes than there are  *)
(* meets one of them while it is marked 1.                                 *)
VisitBelow(g, depth, visit) ==
  [id \in Nat |-> [s \in Visits(g) |->
     IF depth = 0 \/ ~s.fine \/ id >= Len(g) \/ s.marks[id + 1] = 1 THEN [s EXCEPT !.fine = FALSE]
     ELSE IF s.marks[id + 1] = 2 THEN s
     ELSE LET below == Looped(visit, Marked(s, id, 1), g[id + 1].deps)
          IN IF below.fine THEN Ordered(Marked(below, id, 2), id) ELSE below]]

VisitNode(g) ==
  LET visit[depth \in 0 .. Len(g) + 1] == VisitBelow(g, depth, visit[depth - 1])
  IN visit[Len(g) + 1]

(* The loop over all nodes.                                                *)
Compiled(g) ==
  Looped(VisitNode(g),
         [fine |-> TRUE, marks |-> [n \in 1 .. Len(g) |-> 0], order |-> <<>>],
         [n \in 1 .. Len(g) |-> n - 1])

(* The names are kept with the plan.                                       *)
Names(g) == [n \in 1 .. Len(g) |-> g[n].name]

CompileGraph ==
  LET c == Compiled(graph) IN
  /\ plans' = IF c.fine THEN plans \cup {[order |-> c.order, names |-> Names(graph)]} ELSE plans
  /\ refused' = (refused \/ ~c.fine)
  /\ UNCHANGED <<operators, frozen, graph>>

DestroyPlan(p) ==
  /\ p \in plans
  /\ plans' = plans \ {p}
  /\ UNCHANGED <<operators, frozen, graph, refused>>

(* dx_plan_node_at                                                         *)
NodeAt(p, i) == [id |-> p.order[i], name |-> p.names[p.order[i] + 1]]

PlanNext ==
  \/ \E name \in Operators : RegisterOperator(name)
  \/ FreezeRegistry
  \/ \E name \in Operators, deps \in Wanted : AddNode(name, deps)
  \/ CompileGraph
  \/ \E p \in plans : DestroyPlan(p)

-----------------------------------------------------------------------------
(* A plan that is still held, however much the graph has grown and the     *)
(* registry changed since: every node of the graph it was made of once,    *)
(* under the name it has in the graph and which is registered, and after   *)
(* all of its dependencies; and no compilation of what add_node accepts is *)
(* ever refused (dx_graph_api.cpp:62-84, 189-207, 225-233, 257-264;        *)
(* docs/TRACE_GRAPH_OPERATOR_CONTRACT.md, "immutable plan").               *)
PlansAreRunnable ==
  /\ ~refused
  /\ \A p \in plans :
       /\ ToSet(p.order) = 0 .. Len(p.order) - 1
       /\ \A i \in DOMAIN p.order :
            LET at == NodeAt(p, i) IN
            /\ at.name = graph[at.id + 1].name
            /\ IsRegistered(at.name)
            /\ \A d \in ToSet(graph[at.id + 1].deps) : d \in ToSet(SubSeq(p.order, 1, i - 1))
=============================================================================
