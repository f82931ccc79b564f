------------------------------ MODULE KvPages -------------------------------
(***************************************************************************)
(* The pages of dxait::KVCacheManager, src/dxkv/dxkv.cpp, and sequences    *)
(* that take and give them.  A page is its number; a sequence may give a   *)
(* page back that it gave back before.                                     *)
(***************************************************************************)
EXTENDS Naturals

CONSTANTS
  Length, PageSize,    (* max_seq_len, page_size                           *)
  Seqs,          (* sequences of tokens                              *)
  NoPage               (* 0xFFFFFFFF                                       *)

ASSUME KvAssumption == Length \in Nat /\ PageSize \in Nat \ {0} /\ NoPage \notin Nat

VARIABLES
  taken,      (* m_allocated_pages                                         *)
  page,       (* the page of each sequence                                 *)
  former,     (* the page each sequence has given back last                *)
  stolen      (* history: a page was given back while another had it       *)

pageVars == <<taken, page, former, stolen>>

Pages == 0 .. (Length + PageSize - 1) \div PageSize - 1

PagesInit ==
  /\ taken = [p \in Pages |-> FALSE]
  /\ page = [s \in Seqs |-> NoPage]
  /\ former = [s \in Seqs |-> NoPage]
  /\ stolen = FALSE

IsFirstFree(p) == ~taken[p] /\ \A o \in Pages : o < p => taken[o]

(* allocate_sequence                                                       *)
TakePage(s) ==
  \E p \in Pages :
    /\ page[s] = NoPage
    /\ IsFirstFree(p)
    /\ taken' = [taken EXCEPT ![p] = TRUE]
    /\ page' = [page EXCEPT ![s] = p]
    /\ UNCHANGED <<former, stolen>>

(* The pool is exhausted: the sequence goes without.                       *)
TakeNothing(s) ==
  /\ page[s] = NoPage
  /\ \A p \in Pages : taken[p]
  /\ UNCHANGED pageVars

(* Mutant: the page behind it is free again.                               *)
FreeBehind(p) == [q \in Pages |-> IF q = p + 1 THEN FALSE ELSE taken[q]]

(* free_sequence: a number beyond the pages is let go by.                  *)
Freed(p) == [q \in Pages |-> IF q = p THEN FALSE ELSE taken[q]]

GivePage(s) ==
  /\ page[s] # NoPage
  /\ taken' = Freed(page[s])
  /\ page' = [page EXCEPT ![s] = NoPage]
  /\ former' = [former EXCEPT ![s] = page[s]]
  /\ UNCHANGED stolen

GiveAgain(s) ==
  /\ former[s] # NoPage
  /\ taken' = Freed(former[s])
  /\ stolen' = (stolen \/ \E o \in Seqs : page[o] = former[s])
  /\ UNCHANGED <<page, former>>

PagesNext == \E s \in Seqs : TakePage(s) \/ TakeNothing(s) \/ GivePage(s) \/ GiveAgain(s)

-----------------------------------------------------------------------------
(* No page has two sequences, and a page is taken exactly when it has one, *)
(* so nobody goes without while there is one; until a page is given back   *)
(* that another sequence has by then (dxkv.cpp:17-31).                     *)
OnlyStolenPagesAreShared ==
  ~stolen =>
    /\ \A s, o \in Seqs : page[s] = page[o] => s = o \/ page[s] = NoPage
    /\ \A p \in Pages : taken[p] <=> \E s \in Seqs : page[s] = p
=============================================================================
