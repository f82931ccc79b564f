----------------------------- MODULE RetrieveDB -----------------------------
(***************************************************************************)
(* dxait::FastRetrieveDB, src/dxdb/dxdb.cpp, and the requests MCPServer    *)
(* (src/dxmcp/dxmcp.cpp) serves from it: a vector of documents with        *)
(* tombstones, and a map from identifiers to positions in it.              *)
(***************************************************************************)
EXTENDS Naturals, Sequences, FiniteSets, SequencesExt, Selections

CONSTANTS
  Ids, Documents, Similarity,   (* as in DocStore                          *)
  Wanted,      (* numbers of documents searches ask for; the server: 3     *)
  MaxDocs      (* bound: documents in the vector, tombstones included      *)

ASSUME RetrieveAssumption ==
  /\ DOMAIN Similarity \subseteq Documents
  /\ Wanted \subseteq Nat /\ 3 \in Wanted

VARIABLES
  docs,        (* m_docs                                                   *)
  index,       (* m_id_to_index                                            *)
  told,        (* what the last search was answered                        *)
  counted      (* what the last question for a number was answered         *)

dbVars == <<docs, index, told, counted>>

DbInit == docs = <<>> /\ index = <<>> /\ told = <<>> /\ counted = 0

Document(id, d) == [id |-> id, doc |-> d, deleted |-> FALSE]

(* insert: an identifier in the map, tombstone or not, keeps its position. *)
InsertNew(id, d) ==
  /\ id \notin DOMAIN index
  /\ Len(docs) < MaxDocs
  /\ docs' = Append(docs, Document(id, d))
  /\ index' = [i \in DOMAIN index \cup {id} |-> IF i = id THEN Len(docs) + 1 ELSE index[i]]
  /\ UNCHANGED <<told, counted>>

InsertAgain(id, d) ==
  /\ id \in DOMAIN index
  /\ docs' = [docs EXCEPT ![index[id]] = Document(id, d)]
  /\ UNCHANGED <<index, told, counted>>

(* remove leaves a tombstone.                                              *)
RemoveDoc(id) ==
  /\ id \in DOMAIN index
  /\ docs' = [docs EXCEPT ![index[id]].deleted = TRUE]
  /\ UNCHANGED <<index, told, counted>>

IsLive(n) == ~docs[n].deleted

Live == SelectAt(docs, {n \in DOMAIN docs : IsLive(n)})

NewPosition(id) == CHOOSE n \in DOMAIN Live : Live[n].id = id

Compact ==
  /\ docs' = Live
  /\ index' = [id \in {d.id : d \in ToSet(Live)} |-> NewPosition(id)]
  /\ UNCHANGED <<told, counted>>

(* Mutant: the scan does not look at the tombstones.                       *)
WithTombstones == SelectAt(docs, {n \in DOMAIN docs : docs[n].doc \in DOMAIN Similarity})

(* search_rag, with a query of the dimension of the store or another: a    *)
(* scan, and a partial sort that leaves open who comes first of equals.    *)
Results == SelectAt(docs, {n \in DOMAIN docs : IsLive(n) /\ docs[n].doc \in DOMAIN Similarity})

Least(a, b) == IF a < b THEN a ELSE b

Orders(k) ==
  LET n == Len(Results)
      sim(i) == Similarity[Results[i].doc] IN
  {p \in [1 .. n -> 1 .. n] :
     /\ IsInjective(p)
     /\ \A i, j \in 1 .. n : i < j /\ i <= k => sim(p[i]) >= sim(p[j])}

Search(k, fits) ==
  /\ IF fits
     THEN \E p \in Orders(k) :
            told' = [i \in 1 .. Least(k, Len(Results)) |-> Results[p[i]].id]
     ELSE told' = <<>>
  /\ UNCHANGED <<docs, index, counted>>

(* active_count                                                            *)
ActiveCount ==
  /\ counted' = Len(Live)
  /\ UNCHANGED <<docs, index, told>>

-----------------------------------------------------------------------------
(* MCPServer::handle_json_rpc looks for words anywhere in the request, in  *)
(* this order: the text of a search that speaks of another tool runs that. *)
Tools == <<"tools/list", "context_stats", "context_compact", "rag_search">>

Handled(words) ==
  LET found == SelectSeq(Tools, LAMBDA w : w \in words) IN
  IF found = <<>> THEN "none" ELSE Head(found)

HandleRequest(words) ==
  CASE Handled(words) = "context_compact" -> Compact
    [] Handled(words) = "rag_search" -> \E fits \in BOOLEAN : Search(3, fits)
    [] OTHER -> UNCHANGED dbVars

DbNext ==
  \/ \E id \in Ids : RemoveDoc(id) \/ \E d \in Documents : InsertNew(id, d) \/ InsertAgain(id, d)
  \/ Compact
  \/ \E k \in Wanted, fits \in BOOLEAN : Search(k, fits)
  \/ ActiveCount
  \/ \E words \in SUBSET ToSet(Tools) : HandleRequest(words)

-----------------------------------------------------------------------------
(* The store this vector and this map stand for.                           *)
Stored ==
  [id \in {i \in DOMAIN index : ~docs[index[i]].deleted} |-> docs[index[id]].doc]

Abstract == INSTANCE DocStore WITH store <- Stored
=============================================================================
