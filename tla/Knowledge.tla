----------------------------- MODULE Knowledge ------------------------------
(***************************************************************************)
(* What a language model keeps: documents, the context, its pages, the     *)
(* files of its weights.  They share nothing but the server that reads     *)
(* from the first two, so a behaviour has one of them.                     *)
(***************************************************************************)
EXTENDS RetrieveDB, LongContext, KvPages, WeightFiles

VARIABLE kind

vars == <<dbVars, contextVars, pageVars, weightVars, kind>>

Init ==
  /\ kind \in {"documents", "context", "pages", "weights"}
  /\ DbInit /\ ContextInit /\ PagesInit /\ WeightInit

UseDocuments ==
  kind = "documents" /\ DbNext /\ UNCHANGED <<contextVars, pageVars, weightVars, kind>>
UseContext ==
  kind = "context" /\ ContextNext /\ UNCHANGED <<dbVars, pageVars, weightVars, kind>>
UsePages ==
  kind = "pages" /\ PagesNext /\ UNCHANGED <<dbVars, contextVars, weightVars, kind>>
UseWeights ==
  kind = "weights" /\ WeightNext /\ UNCHANGED <<dbVars, contextVars, pageVars, kind>>

Next == UseDocuments \/ UseContext \/ UsePages \/ UseWeights

Spec == Init /\ [][Next]_vars

(* The vector with its tombstones and positions is the map it stands for:  *)
(* nothing is lost, kept or found in another place by insertions over      *)
(* tombstones, by compactions in between, or by any request of a client of *)
(* the server, and searches answer from the map (dxdb.cpp:23-86,           *)
(* dxmcp.cpp:19-46).                                                       *)
KeepsDocuments == Abstract!DocSpec
=============================================================================
