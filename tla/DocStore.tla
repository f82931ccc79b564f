------------------------------ MODULE DocStore ------------------------------
(***************************************************************************)
(* What FastRetrieveDB promises its users (include/dxait/dxdb.hpp): a map  *)
(* from identifiers to documents, asked for the documents nearest to a     *)
(* query.  Tombstones and compaction are not seen from here.               *)
(***************************************************************************)
EXTENDS Naturals, Sequences, FiniteSets

CONSTANTS
  Ids,         (* identifiers of documents                                 *)
  Documents,   (* documents, told apart by their embedding                 *)
  Wanted,      (* numbers of documents searches ask for                    *)
  Similarity   (* of the documents whose dimension is that of the store    *)

VARIABLES
  store,       (* the document of every identifier there is                *)
  told,        (* what the last search was answered                        *)
  counted      (* what the last question for a number was answered         *)

DocInit ==
  /\ store = <<>>
  /\ told = <<>>
  /\ counted = 0

Put(id, d) ==
  /\ store' = [i \in DOMAIN store \cup {id} |-> IF i = id THEN d ELSE store[i]]
  /\ UNCHANGED <<told, counted>>

Drop(id) ==
  /\ store' = [i \in DOMAIN store \ {id} |-> store[i]]
  /\ UNCHANGED <<told, counted>>

Comparable == {i \in DOMAIN store : store[i] \in DOMAIN Similarity}
Nearness(i) == Similarity[store[i]]

(* The k nearest, nearest first; those equally near in any order.          *)
IsNearest(answer, k) ==
  LET given == {answer[n] : n \in DOMAIN answer} IN
  /\ given \subseteq Comparable
  /\ Cardinality(given) = Len(answer)
  /\ Len(answer) = IF k < Cardinality(Comparable) THEN k ELSE Cardinality(Comparable)
  /\ \A n \in DOMAIN answer :
       /\ \A m \in DOMAIN answer : m < n => Nearness(answer[m]) >= Nearness(answer[n])
       /\ \A i \in Comparable \ given : Nearness(answer[n]) >= Nearness(i)

(* A query of another dimension has no answer.                             *)
Ask(k, fits) ==
  /\ IF fits THEN IsNearest(told', k) ELSE told' = <<>>
  /\ UNCHANGED <<store, counted>>

AskCount ==
  /\ counted' = Cardinality(DOMAIN store)
  /\ UNCHANGED <<store, told>>

DocNext ==
  \/ \E id \in Ids : Drop(id) \/ \E d \in Documents : Put(id, d)
  \/ \E k \in Wanted, fits \in BOOLEAN : Ask(k, fits)
  \/ AskCount

DocSpec == DocInit /\ [][DocNext]_<<store, told, counted>>
=============================================================================
