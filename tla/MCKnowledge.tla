---------------------------- MODULE MCKnowledge -----------------------------
(* Two documents equally far, one nearer, one of another dimension.        *)
EXTENDS Knowledge

MCSimilarity == [near |-> 2, far |-> 1]

-----------------------------------------------------------------------------
(* Files: in order, listed out of order with gaps, cut short in the        *)
(* middle, padded, with 16-bit metadata, without tensors.                  *)
T(name, offset, size) == [name |-> name, offset |-> offset, size |-> size]
Text                  == [type |-> "string", length |-> 3]
Array(of)             == [type |-> "array", of |-> of, length |-> 2]

MCFiles == {
  [values |-> <<Text>>, table |-> <<T("a", 0, 2), T("b", 2, 3)>>, padding |-> 0, length |-> 5],
  [values |-> <<Array("u32")>>, table |-> <<T("c", 6, 1), T("a", 0, 2), T("b", 3, 3)>>, padding |-> 0, length |-> 7],
  [values |-> <<>>, table |-> <<T("c", 6, 1), T("a", 0, 2), T("b", 3, 3)>>, padding |-> 0, length |-> 5],
  [values |-> <<[type |-> "u8"]>>, table |-> <<T("a", 0, 2), T("b", 2, 2)>>, padding |-> 1, length |-> 5],
  [values |-> <<Text, [type |-> "u16"]>>, table |-> <<T("a", 0, 2)>>, padding |-> 0, length |-> 2],
  [values |-> <<Array("u16")>>, table |-> <<T("a", 0, 2)>>, padding |-> 0, length |-> 2],
  [values |-> <<[type |-> "u64"]>>, table |-> <<>>, padding |-> 0, length |-> 0]}

(* The third entry has the hash of the first.                              *)
MCHash == <<10, 11, 10>>
=============================================================================
