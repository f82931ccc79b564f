---------------------------- MODULE KeptProofs -----------------------------
(***************************************************************************)
(* Proofs about what is kept: by a program in its context and its pages    *)
(* (Knowledge), and by the handles of the C API (CHandles), for any        *)
(* configuration, any clients and any number of threads.                   *)
(*                                                                         *)
(* Of Knowledge: a context within its target fits its buffers, and the     *)
(* pages of sequences are shared only after a page was given back too      *)
(* late; an index leads to the tensors of its file; the vector of          *)
(* documents implements the map DocStore promises.                         *)
(* The parts of Knowledge share nothing with each other: a step of one     *)
(* leaves the variables of the others as they are.                         *)
(*                                                                         *)
(* Of CHandles: everyone owns exactly what its place in a call, or its     *)
(* handle, stands for; devices and runtimes say what is true of them; only *)
(* rmsnorm leaves its vector.  What a step does to `owned' is told by what *)
(* each has (Had): some has more, some less, some hands it over.           *)
(***************************************************************************)
EXTENDS Knowledge, CHandles, DataTheorems

-----------------------------------------------------------------------------
(* Pages.                                                                  *)
PagesOK ==
  /\ taken \in [Pages -> BOOLEAN]
  /\ page \in [Seqs -> Pages \cup {NoPage}]
  /\ former \in [Seqs -> Pages \cup {NoPage}]
  /\ stolen \in BOOLEAN

PagesInv == PagesOK /\ OnlyStolenPagesAreShared

LEMMA PageNumbers ==
  /\ Pages \subseteq Nat
  /\ NoPage \notin Pages
<1>1. \A a \in Nat, b \in Nat \ {0} : a \div b \in Int
  OBVIOUS
<1>2. Length + PageSize - 1 \in Nat /\ PageSize \in Nat \ {0}
  BY KvAssumption
<1>3. (Length + PageSize - 1) \div PageSize \in Int
  BY <1>1, <1>2
<1>4. Pages \subseteq Nat
  BY <1>3 DEF Pages
<1> QED
  BY <1>4, KvAssumption

LEMMA PagesStart == PagesInit => PagesInv
<1> SUFFICES ASSUME PagesInit PROVE PagesInv
  OBVIOUS
<1>1. PagesOK
  BY DEF PagesInit, PagesOK
<1>2. OnlyStolenPagesAreShared
  BY PageNumbers DEF PagesInit, OnlyStolenPagesAreShared
<1> QED
  BY <1>1, <1>2 DEF PagesInv

LEMMA PagesStep == PagesInv /\ PagesNext => PagesInv'
<1> SUFFICES ASSUME PagesInv, NEW s \in Seqs,
                    TakePage(s) \/ TakeNothing(s) \/ GivePage(s) \/ GiveAgain(s)
             PROVE  PagesInv'
  BY DEF PagesNext
<1> USE DEF PagesInv, PagesOK
<1>1. CASE TakePage(s)
  <2>1. PICK p \in Pages : /\ page[s] = NoPage
                           /\ IsFirstFree(p)
                           /\ taken' = [taken EXCEPT ![p] = TRUE]
                           /\ page' = [page EXCEPT ![s] = p]
                           /\ UNCHANGED <<former, stolen>>
    BY <1>1 DEF TakePage
  <2>2. PagesOK'
    BY <2>1
  <2>3. ASSUME ~stolen PROVE OnlyStolenPagesAreShared'
    <3>1. \A o \in Seqs : page[o] # p
      BY <2>1, <2>3 DEF IsFirstFree, OnlyStolenPagesAreShared
    <3>2. \A o \in Seqs : page'[o] = (IF o = s THEN p ELSE page[o])
      BY <2>1
    <3>3. \A q \in Pages : taken'[q] = (q = p \/ taken[q])
      BY <2>1
    <3>4. \A t, o \in Seqs : page'[t] = page'[o] => t = o \/ page'[t] = NoPage
      BY <2>3, <3>1, <3>2 DEF OnlyStolenPagesAreShared
    <3>5. \A q \in Pages : taken'[q] <=> \E o \in Seqs : page'[o] = q
      BY <2>1, <2>3, <3>2, <3>3, PageNumbers DEF OnlyStolenPagesAreShared
    <3> QED
      BY <3>4, <3>5 DEF OnlyStolenPagesAreShared
  <2> QED
    BY <2>1, <2>2, <2>3 DEF OnlyStolenPagesAreShared
<1>2. CASE TakeNothing(s)
  BY <1>2 DEF TakeNothing, pageVars, OnlyStolenPagesAreShared
<1>3. CASE GivePage(s)
  <2>1. /\ page[s] \in Pages
        /\ \A q \in Pages : taken'[q] = (IF q = page[s] THEN FALSE ELSE taken[q])
        /\ \A o \in Seqs : page'[o] = (IF o = s THEN NoPage ELSE page[o])
        /\ UNCHANGED stolen
    BY <1>3 DEF GivePage, Freed
  <2>2. PagesOK'
    BY <1>3 DEF GivePage, Freed
  <2>3. ASSUME ~stolen PROVE OnlyStolenPagesAreShared'
    <3>1. \A t, o \in Seqs : page'[t] = page'[o] => t = o \/ page'[t] = NoPage
      BY <2>1, <2>3 DEF OnlyStolenPagesAreShared
    <3>2. ASSUME NEW q \in Pages PROVE taken'[q] <=> \E o \in Seqs : page'[o] = q
      <4>1. CASE q = page[s]
        <5>1. \A o \in Seqs : page[o] = q => o = s
          BY <2>3, <4>1, PageNumbers DEF OnlyStolenPagesAreShared
        <5> QED
          BY <2>1, <4>1, <5>1, PageNumbers
      <4>2. CASE q # page[s]
        <5>1. taken'[q] <=> \E o \in Seqs : page[o] = q
          BY <2>1, <2>3, <4>2 DEF OnlyStolenPagesAreShared
        <5>2. \A o \in Seqs : page'[o] = q <=> page[o] = q
          BY <2>1, <4>2, PageNumbers
        <5> QED
          BY <5>1, <5>2
      <4> QED
        BY <4>1, <4>2
    <3> QED
      BY <3>1, <3>2 DEF OnlyStolenPagesAreShared
  <2> QED
    BY <2>1, <2>2, <2>3 DEF OnlyStolenPagesAreShared
<1>4. CASE GiveAgain(s)
  <2>1. /\ former[s] \in Pages
        /\ \A q \in Pages : taken'[q] = (IF q = former[s] THEN FALSE ELSE taken[q])
        /\ stolen' = (stolen \/ \E o \in Seqs : page[o] = former[s])
        /\ UNCHANGED <<page, former>>
    BY <1>4 DEF GiveAgain, Freed
  <2>2. PagesOK'
    BY <1>4 DEF GiveAgain, Freed
  <2>3. ASSUME ~stolen' PROVE OnlyStolenPagesAreShared'
    BY <2>1, <2>3 DEF OnlyStolenPagesAreShared
  <2> QED
    BY <2>2, <2>3 DEF OnlyStolenPagesAreShared
<1> QED
  BY <1>1, <1>2, <1>3, <1>4

-----------------------------------------------------------------------------
(* The context: the statistics follow the tokens, the buffer is as large   *)
(* as the rest of some target, and of the current one at least.            *)
ContextOK ==
  /\ stats \in [active : Nat, target : Nat, vram : Nat, sysram : Nat, sysBytes : Nat]
  /\ cold \in Nat
  /\ beyond \subseteq [op : {"offload", "prefetch"}, tokens : Nat, cold : Nat]

Names == Targets \cup {FirstTarget, MaxTokens}

StatsInv ==
  /\ stats.vram = Lesser(stats.active, Window)
  /\ stats.sysram = Rest(stats.active)
  /\ stats.sysBytes = cold

BufferInv ==
  /\ Offloading => Rest(stats.target) <= cold
  /\ cold = 0 \/ \E n \in Names : Rest(n) = cold

BeyondInv ==
  \A c \in beyond : c.op = "offload" => Window < Block \/ \E n \in Names : Rest(n) = c.cold /\ Rest(n) < Block

ContextInv == ContextOK /\ StatsInv /\ BufferInv /\ BeyondInv

LEMMA NamesAreNumbers ==
  /\ Names \subseteq Nat
  /\ {Window, MaxTokens, FirstTarget, Block} \subseteq Nat
  /\ Targets \subseteq Nat
  /\ Appended \subseteq Nat
  /\ Words \in Nat \ {0}
BY ContextAssumption DEF Names

LEMMA Parts ==
  ASSUME NEW n \in Nat
  PROVE  /\ Lesser(n, Window) \in Nat
         /\ Rest(n) \in Nat
         /\ Lesser(n, Window) + Rest(n) = n
         /\ Lesser(n, Window) <= Window
         /\ \A m \in Nat : n <= m => Rest(n) <= Rest(m)
BY NamesAreNumbers DEF Lesser, Rest

LEMMA ContextStart == ContextInit => ContextInv
<1> SUFFICES ASSUME ContextInit PROVE ContextInv
  OBVIOUS
<1>1. /\ Rest(FirstTarget) \in Nat /\ FirstTarget \in Nat /\ Window \in Nat
      /\ Lesser(0, Window) = 0 /\ Rest(0) = 0
  BY NamesAreNumbers, Parts DEF Lesser, Rest
<1>2. /\ cold = (IF Offloading THEN Rest(FirstTarget) ELSE 0)
      /\ stats = [active |-> 0, target |-> FirstTarget, vram |-> 0, sysram |-> 0, sysBytes |-> cold]
      /\ beyond = {}
  BY DEF ContextInit
<1>3. ContextOK
  BY <1>1, <1>2 DEF ContextOK
<1>4. StatsInv
  BY <1>1, <1>2 DEF StatsInv
<1>5. BufferInv
  BY <1>1, <1>2 DEF BufferInv, Names
<1>6. BeyondInv
  BY <1>2 DEF BeyondInv
<1> QED
  BY <1>3, <1>4, <1>5, <1>6 DEF ContextInv

LEMMA SetTargetKeeps ==
  ASSUME ContextInv, NEW n \in Targets, SetTarget(n)
  PROVE  ContextInv'
<1> USE DEF ContextInv, ContextOK
<1>1. PICK target : target = Lesser(n, MaxTokens)
  OBVIOUS
<1>2. target \in Names /\ target \in Nat /\ Rest(target) \in Nat
  BY <1>1, NamesAreNumbers, Parts DEF Lesser, Names
<1>3. /\ cold' = (IF Offloading /\ Rest(target) > 0 THEN Rest(target) ELSE cold)
      /\ stats' = [stats EXCEPT !.target = target, !.sysBytes = cold']
      /\ beyond' = beyond
  BY <1>1 DEF SetTarget, Resized
<1>4. ContextOK'
  BY <1>2, <1>3
<1>5. /\ stats'.active = stats.active /\ stats'.vram = stats.vram /\ stats'.sysram = stats.sysram
      /\ stats'.target = target /\ stats'.sysBytes = cold'
  BY <1>3
<1>6. StatsInv'
  BY <1>5 DEF StatsInv
<1>7. BufferInv'
  BY <1>2, <1>3, <1>5 DEF BufferInv
<1>8. BeyondInv'
  BY <1>3 DEF BeyondInv
<1> QED
  BY <1>4, <1>6, <1>7, <1>8

LEMMA AppendKeeps ==
  ASSUME ContextInv, NEW n \in Appended, AppendTokens(n)
  PROVE  ContextInv'
<1> USE DEF ContextInv, ContextOK
<1>1. PICK active : active = (stats.active + n) % Words
  OBVIOUS
<1>2. active \in Nat /\ Lesser(active, Window) \in Nat /\ Rest(active) \in Nat
  <2>1. stats.active + n \in Nat /\ Words \in Nat \ {0}
    BY NamesAreNumbers
  <2>2. active \in Nat
    BY <1>1, <2>1
  <2> QED
    BY <2>2, Parts
<1>3. /\ stats' = [stats EXCEPT !.active = active, !.vram = Lesser(active, Window), !.sysram = Rest(active)]
      /\ UNCHANGED <<cold, beyond>>
  BY <1>1 DEF AppendTokens
<1>4. ContextOK'
  BY <1>2, <1>3
<1>5. /\ stats'.active = active /\ stats'.vram = Lesser(active, Window) /\ stats'.sysram = Rest(active)
      /\ stats'.target = stats.target /\ stats'.sysBytes = stats.sysBytes
  BY <1>3
<1>6. StatsInv'
  BY <1>3, <1>5 DEF StatsInv
<1>7. BufferInv'
  BY <1>3, <1>5 DEF BufferInv
<1>8. BeyondInv'
  BY <1>3 DEF BeyondInv
<1> QED
  BY <1>4, <1>6, <1>7, <1>8

(* An offload copies with a buffer there; what leaves it leaves the window *)
(* too, or the buffer of some target.                                      *)
LEMMA CopiesKeeps ==
  ASSUME ContextInv, NEW op \in {"offload", "prefetch"}, NEW n \in Nat, Copies(op, n),
         op = "offload" => cold > 0 /\ n = Block
  PROVE  ContextInv'
<1> USE DEF ContextInv, ContextOK
<1>1. /\ UNCHANGED <<stats, cold>>
      /\ \A c \in beyond' : c \in beyond \/ (n > Lesser(Window, cold) /\ c = [op |-> op, tokens |-> n, cold |-> cold])
  BY DEF Copies
<1>2. ContextOK'
  <2>1. [op |-> op, tokens |-> n, cold |-> cold] \in [op : {"offload", "prefetch"}, tokens : Nat, cold : Nat]
    OBVIOUS
  <2> QED
    BY <1>1, <2>1
<1>3. StatsInv' /\ BufferInv'
  BY <1>1 DEF StatsInv, BufferInv
<1>4. ASSUME NEW c \in beyond', c.op = "offload"
      PROVE  Window < Block \/ \E m \in Names : Rest(m) = c.cold /\ Rest(m) < Block
  <2>1. CASE c \in beyond
    BY <1>4, <2>1 DEF BeyondInv
  <2>2. CASE n > Lesser(Window, cold) /\ c = [op |-> op, tokens |-> n, cold |-> cold]
    <3>1. n = Block /\ cold > 0 /\ c.cold = cold
      BY <1>4, <2>2
    <3>2. PICK m \in Names : Rest(m) = cold
      BY <3>1 DEF BufferInv
    <3>3. Window < Block \/ cold < Block
      BY <2>2, <3>1, NamesAreNumbers DEF Lesser
    <3> QED
      BY <3>1, <3>2, <3>3
  <2> QED
    BY <1>1, <1>4, <2>1, <2>2
<1>5. BeyondInv'
  BY <1>4 DEF BeyondInv
<1> QED
  BY <1>2, <1>3, <1>5

LEMMA ContextStep == ContextInv /\ ContextNext => ContextInv'
<1> SUFFICES ASSUME ContextInv, ContextNext PROVE ContextInv'
  OBVIOUS
<1>1. ASSUME NEW n \in Targets, SetTarget(n) PROVE ContextInv'
  BY <1>1, SetTargetKeeps
<1>2. ASSUME NEW n \in Appended, AppendTokens(n) PROVE ContextInv'
  BY <1>2, AppendKeeps
<1>3. ASSUME NEW n \in Appended, Prefetch(n) PROVE ContextInv'
  <2>1. n \in Nat /\ Copies("prefetch", n)
    BY <1>3, NamesAreNumbers DEF Prefetch
  <2> QED
    BY <2>1, CopiesKeeps
<1>4. ASSUME OffloadCold PROVE ContextInv'
  <2>1. Block \in Nat /\ cold > 0 /\ Copies("offload", Block)
    BY <1>4, NamesAreNumbers DEF OffloadCold
  <2> QED
    BY <2>1, CopiesKeeps
<1> QED
  BY <1>1, <1>2, <1>3, <1>4 DEF ContextNext

LEMMA ContextInvFits == ContextInv => ContextFits
<1> SUFFICES ASSUME ContextInv PROVE ContextFits
  OBVIOUS
<1> USE DEF ContextInv, ContextOK
<1>1. stats.active \in Nat /\ stats.target \in Nat /\ cold \in Nat
  OBVIOUS
<1>2. stats.vram + stats.sysram = stats.active /\ stats.vram <= Window
  BY <1>1, Parts DEF StatsInv
<1>3. Offloading /\ stats.active <= stats.target => stats.sysram <= cold
  <2>1. Rest(stats.active) \in Nat /\ Rest(stats.target) \in Nat
    BY <1>1, Parts
  <2>2. stats.active <= stats.target => Rest(stats.active) <= Rest(stats.target)
    BY <1>1, Parts
  <2> QED
    BY <1>1, <2>1, <2>2 DEF StatsInv, BufferInv
<1> QED
  BY <1>2, <1>3 DEF ContextFits, StatsInv, BeyondInv, Names

-----------------------------------------------------------------------------
(* Weights: what a file of them becomes, tensor by tensor in the order of   *)
(* their offsets.                                                          *)

(* Offsets that differ put the tensors in one order.                       *)
RanksInOrder(table, n) ==
  /\ \A i \in 1 .. n : Rank(table, i) \in 1 .. n
  /\ \A i, j \in 1 .. n : table[i].offset < table[j].offset => Rank(table, i) < Rank(table, j)
  /\ \A k \in 1 .. n : \E i \in 1 .. n : Rank(table, i) = k

LEMMA Ranks ==
  ASSUME NEW table, NEW n \in Nat, n = Len(table), \A i \in 1 .. n : table[i].offset \in Nat,
         \A i, j \in 1 .. n : i # j => table[i].offset # table[j].offset
  PROVE  RanksInOrder(table, n)
<1> DEFINE Before(i) == {j \in 1 .. n : table[j].offset < table[i].offset}
<1>1. IsFiniteSet(1 .. n) /\ Cardinality(1 .. n) = n
  <2>1. 1 \in Int /\ n \in Int
    OBVIOUS
  <2>2. IsFiniteSet(1 .. n) /\ Cardinality(1 .. n) = IF 1 > n THEN 0 ELSE n - 1 + 1
    BY <2>1, FS_Interval
  <2> QED
    BY <2>2
<1>2. ASSUME NEW i \in 1 .. n PROVE Before(i) \in SUBSET (1 .. n) /\ i \notin Before(i)
  OBVIOUS
<1>3. \A i \in 1 .. n : Rank(table, i) = 1 + Cardinality(Before(i))
  BY DEF Rank
<1>4. ASSUME NEW i, NEW j, i \in 1 .. n, j \in 1 .. n, table[i].offset < table[j].offset
      PROVE  Before(i) \in SUBSET Before(j) /\ i \in Before(j)
  <2>1. \A k \in 1 .. n : table[k].offset < table[i].offset => table[k].offset < table[j].offset
    BY <1>4
  <2> QED
    BY <1>4, <2>1
<1> HIDE DEF Before
<1>5. ASSUME NEW i \in 1 .. n
      PROVE  IsFiniteSet(Before(i)) /\ Cardinality(Before(i)) \in Nat /\ Cardinality(Before(i)) < n
  <2>1. IsFiniteSet(Before(i)) /\ Cardinality(Before(i)) <= n /\ (Cardinality(Before(i)) = n => 1 .. n = Before(i))
    BY <1>1, <1>2, FS_Subset
  <2>2. Cardinality(Before(i)) \in Nat
    BY <2>1, FS_CardinalityType
  <2>3. Before(i) # 1 .. n
    BY <1>2
  <2> QED
    BY <2>1, <2>2, <2>3
<1>6. \A i \in 1 .. n : Rank(table, i) \in 1 .. n
  BY <1>3, <1>5
<1>7. ASSUME NEW i, NEW j, i \in 1 .. n, j \in 1 .. n, table[i].offset < table[j].offset
      PROVE  Rank(table, i) < Rank(table, j)
  <2>1. Before(i) \in SUBSET Before(j) /\ Before(i) # Before(j)
    BY <1>2, <1>4, <1>7
  <2>2. Cardinality(Before(i)) <= Cardinality(Before(j)) /\ Cardinality(Before(i)) # Cardinality(Before(j))
    BY <1>5, <1>7, <2>1, FS_Subset
  <2> QED
    BY <1>3, <1>5, <1>7, <2>2
<1>8. PICK p : p = [i \in 1 .. n |-> Rank(table, i)]
  OBVIOUS
<1>9. p \in [1 .. n -> 1 .. n] /\ \A i \in 1 .. n : p[i] = Rank(table, i)
  BY <1>6, <1>8
<1>10. \A i, j \in 1 .. n : i # j => p[i] # p[j]
  <2> SUFFICES ASSUME NEW i \in 1 .. n, NEW j \in 1 .. n, i # j PROVE p[i] # p[j]
    OBVIOUS
  <2>1. table[i].offset < table[j].offset \/ table[j].offset < table[i].offset
    OBVIOUS
  <2>2. Rank(table, i) < Rank(table, j) \/ Rank(table, j) < Rank(table, i)
    BY <1>7, <2>1
  <2> QED
    BY <1>6, <1>9, <2>2
<1>11. IsInjective(p)
  BY <1>9, <1>10 DEF IsInjective
<1>12. \A k \in 1 .. n : \E i \in 1 .. n : p[i] = k
  BY <1>9, <1>11, NothingMissed
<1> QED
  BY <1>6, <1>7, <1>9, <1>12 DEF RanksInOrder

(* What sorting makes of a table: the same tensors, by offset.             *)
Sorts(gguf, ts, n) ==
  /\ \A k \in 1 .. n : \E i \in 1 .. n : ts[k] = gguf.table[i]
  /\ \A i \in 1 .. n : \E k \in 1 .. n : ts[k] = gguf.table[i]
  /\ \A j, k \in 1 .. n : j < k => ts[j].offset + ts[j].size <= ts[k].offset
                                   /\ ts[j].offset < ts[k].offset /\ ts[j].name # ts[k].name
  /\ \A k \in 1 .. n : ts[k].offset \in Nat /\ ts[k].size \in Nat

LEMMA Tables ==
  ASSUME NEW gguf \in GgufFiles
  PROVE  /\ Len(gguf.table) \in Nat /\ gguf.length \in Nat /\ gguf.padding \in Nat
         /\ \A i \in 1 .. Len(gguf.table) : gguf.table[i].offset \in Nat /\ gguf.table[i].size \in Nat
<1>1. WellFormed(gguf)
  BY WeightAssumption
<1>2. PICK table, T : table = gguf.table /\ T = [name : STRING, offset : Nat, size : Nat]
  OBVIOUS
<1>3. table \in Seq(T)
  BY <1>1, <1>2 DEF WellFormed
<1>4. Len(table) \in Nat /\ \A i \in 1 .. Len(table) : table[i] \in T
  BY <1>3
<1>5. \A i \in 1 .. Len(table) : table[i].offset \in Nat /\ table[i].size \in Nat
  BY <1>2, <1>4
<1> QED
  BY <1>1, <1>2, <1>4, <1>5 DEF WellFormed

LEMMA Apart ==
  ASSUME NEW gguf \in GgufFiles
  PROVE  \A i, j \in 1 .. Len(gguf.table) : i # j =>
           /\ gguf.table[i].name # gguf.table[j].name
           /\ gguf.table[i].offset # gguf.table[j].offset
           /\ gguf.table[i].offset < gguf.table[j].offset =>
                gguf.table[i].offset + gguf.table[i].size <= gguf.table[j].offset
<1>1. WellFormed(gguf)
  BY WeightAssumption
<1> SUFFICES ASSUME NEW i \in 1 .. Len(gguf.table), NEW j \in 1 .. Len(gguf.table), i # j
             PROVE  /\ gguf.table[i].name # gguf.table[j].name
                    /\ gguf.table[i].offset # gguf.table[j].offset
                    /\ gguf.table[i].offset < gguf.table[j].offset =>
                         gguf.table[i].offset + gguf.table[i].size <= gguf.table[j].offset
  OBVIOUS
<1>2. PICK s, t : s = gguf.table[i] /\ t = gguf.table[j]
  OBVIOUS
<1>3. /\ s.name # t.name /\ s.offset # t.offset
      /\ s.offset + s.size <= t.offset \/ t.offset + t.size <= s.offset
  BY <1>1, <1>2 DEF WellFormed
<1>4. s.offset \in Nat /\ s.size \in Nat /\ t.offset \in Nat /\ t.size \in Nat
  BY <1>2, Tables
<1>5. s.offset < t.offset => s.offset + s.size <= t.offset
  BY <1>3, <1>4
<1> QED
  BY <1>2, <1>3, <1>5

LEMMA SortedIs ==
  ASSUME NEW gguf \in GgufFiles
  PROVE  Sorts(gguf, Sorted(gguf), Len(gguf.table))
<1>1. PICK table, n, ts : table = gguf.table /\ n = Len(table) /\ ts = Sorted(gguf)
  OBVIOUS
<1>2. n \in Nat /\ \A i \in 1 .. n : table[i].offset \in Nat /\ table[i].size \in Nat
  BY <1>1, Tables
<1>3. \A i, j \in 1 .. n : i # j => table[i].name # table[j].name /\ table[i].offset # table[j].offset
  BY <1>1, Apart
<1>4. \A i, j \in 1 .. n : table[i].offset < table[j].offset => table[i].offset + table[i].size <= table[j].offset
  <2> SUFFICES ASSUME NEW i \in 1 .. n, NEW j \in 1 .. n, table[i].offset < table[j].offset
               PROVE  table[i].offset + table[i].size <= table[j].offset
    OBVIOUS
  <2>1. i # j
    BY <1>2
  <2> QED
    BY <1>1, <2>1, Apart
<1>5. RanksInOrder(table, n)
  BY <1>1, <1>2, <1>3, Ranks
<1>6. PICK p : p = [k \in 1 .. n |-> CHOOSE i \in 1 .. n : Rank(table, i) = k]
  OBVIOUS
<1>7. \A k \in 1 .. n : p[k] \in 1 .. n /\ Rank(table, p[k]) = k
  BY <1>5, <1>6 DEF RanksInOrder
<1>8. \A k \in 1 .. n : ts[k] = table[p[k]]
  BY <1>1, <1>6 DEF Sorted
<1>9. ASSUME NEW i \in 1 .. n PROVE \E k \in 1 .. n : ts[k] = table[i]
  <2>1. PICK k \in 1 .. n : k = Rank(table, i)
    BY <1>5 DEF RanksInOrder
  <2>2. p[k] \in 1 .. n /\ Rank(table, p[k]) = Rank(table, i)
    BY <1>7, <2>1
  <2>3. \A a, b \in 1 .. n : Rank(table, a) = Rank(table, b) => ~(table[a].offset < table[b].offset)
    BY <1>5 DEF RanksInOrder
  <2>4. p[k] = i
    BY <1>2, <1>3, <2>2, <2>3
  <2> QED
    BY <1>8, <2>4
<1>10. ASSUME NEW j \in 1 .. n, NEW k \in 1 .. n, j < k
       PROVE  /\ ts[j].offset + ts[j].size <= ts[k].offset
              /\ ts[j].offset < ts[k].offset /\ ts[j].name # ts[k].name
  <2>1. p[j] \in 1 .. n /\ p[k] \in 1 .. n /\ Rank(table, p[j]) = j /\ Rank(table, p[k]) = k
    BY <1>7
  <2>2. p[j] # p[k]
    BY <1>10, <2>1
  <2>3. ~(table[p[k]].offset < table[p[j]].offset)
    BY <1>5, <1>10, <2>1 DEF RanksInOrder
  <2>4. table[p[j]].offset < table[p[k]].offset
    BY <1>2, <1>3, <2>1, <2>2, <2>3
  <2> QED
    BY <1>3, <1>4, <1>8, <2>1, <2>2, <2>4
<1>11. \A k \in 1 .. n : ts[k].offset \in Nat /\ ts[k].size \in Nat /\ \E i \in 1 .. n : ts[k] = table[i]
  BY <1>2, <1>7, <1>8
<1> QED
  BY <1>1, <1>9, <1>10, <1>11 DEF Sorts

-----------------------------------------------------------------------------
(* A boundary is a multiple, and the first one from n.                     *)
LEMMA Boundary ==
  ASSUME NEW n \in Nat, NEW a \in Nat \ {0}
  PROVE  AlignUp(n, a) \in Nat /\ n <= AlignUp(n, a) /\ AlignUp(n, a) % a = 0
<1>1. PICK m : m = n + a - 1
  OBVIOUS
<1>2. m \in Nat /\ a \in Nat /\ 0 < a
  BY <1>1
<1>3. PICK q : q = m \div a
  OBVIOUS
<1>4. q \in Nat /\ q * a <= m /\ m < q * a + a
  BY <1>2, <1>3, SMTT(60)
<1>5. AlignUp(n, a) = q * a
  BY <1>1, <1>3 DEF AlignUp
<1>6. PICK k : k = q * a
  OBVIOUS
<1>7. k \in Nat /\ n <= k
  BY <1>1, <1>2, <1>4, <1>6
<1>8. k % a = 0
  BY <1>2, <1>4, <1>6, SMTT(60)
<1> QED
  BY <1>5, <1>6, <1>7, <1>8

LEMMA SizesAre ==
  ASSUME NEW gguf \in GgufFiles
  PROVE  \A i \in 1 .. Len(gguf.table) : SizeOf(gguf, i) \in Nat
<1>1. PICK n, ts : n = Len(gguf.table) /\ ts = Sorted(gguf)
  OBVIOUS
<1>2. n \in Nat /\ gguf.length \in Nat /\ Sorts(gguf, ts, n)
  BY <1>1, Tables, SortedIs
<1> SUFFICES ASSUME NEW i \in 1 .. n PROVE SizeOf(gguf, i) \in Nat
  BY <1>1
<1>3. ts[i].offset \in Nat /\ (i < n => ts[i + 1].offset \in Nat /\ ts[i].offset < ts[i + 1].offset)
  BY <1>2 DEF Sorts
<1> QED
  BY <1>1, <1>2, <1>3 DEF SizeOf

(* The slices one after the other, w where each ends.                      *)
Slices(gguf, a, w, n) ==
  /\ w[0] = 0
  /\ \A i \in 0 .. n : w[i] \in Nat
  /\ \A i \in 1 .. n : w[i] = AlignUp(w[i - 1], a) + SizeOf(gguf, i)

LEMMA CursorsAre ==
  ASSUME NEW gguf \in GgufFiles, NEW a \in Alignments
  PROVE  Slices(gguf, a, Cursors(gguf, a), Len(gguf.table))
<1>1. PICK n \in Nat : n = Len(gguf.table)
  BY Tables
<1>2. \A i \in 1 .. n : SizeOf(gguf, i) \in Nat
  BY <1>1, SizesAre
<1>3. a \in Nat \ {0}
  BY WeightAssumption
<1> DEFINE Right(w) == w = [i \in 0 .. n |-> IF i = 0 THEN 0 ELSE AlignUp(w[i - 1], a) + SizeOf(gguf, i)]
<1>4. PICK f, s : /\ f = [i \in 1 .. n |-> [c \in Nat |-> AlignUp(c, a) + SizeOf(gguf, i)]]
                  /\ s = [i \in 1 .. n |-> i]
  OBVIOUS
<1>5. PICK it : LoopOf(it, f, 0, s, n)
  BY LoopsExist
<1>6. /\ it = [i \in 0 .. n |-> it[i]]
      /\ it[0] = 0
      /\ \A i \in 1 .. n : it[i] = f[i][it[i - 1]]
  <2>1. it = [i \in 0 .. n |-> IF i = 0 THEN 0 ELSE f[s[i]][it[i - 1]]]
    BY <1>5 DEF LoopOf
  <2>2. it = [i \in 0 .. n |-> it[i]]
    BY <2>1
  <2>3. it[0] = 0
    BY <2>1
  <2>4. ASSUME NEW i \in 1 .. n PROVE it[i] = f[i][it[i - 1]]
    <3>1. s[i] = i /\ i \in 0 .. n /\ i # 0
      BY <1>4
    <3>2. it[i] = f[s[i]][it[i - 1]]
      BY <2>1, <3>1
    <3> QED
      BY <3>1, <3>2
  <2> QED
    BY <2>2, <2>3, <2>4
<1>7. ASSUME NEW i \in 1 .. n, it[i - 1] \in Nat
      PROVE  it[i] = AlignUp(it[i - 1], a) + SizeOf(gguf, i) /\ it[i] \in Nat
  <2>1. it[i] = AlignUp(it[i - 1], a) + SizeOf(gguf, i)
    BY <1>4, <1>6, <1>7
  <2>2. AlignUp(it[i - 1], a) \in Nat /\ SizeOf(gguf, i) \in Nat
    BY <1>2, <1>3, <1>7, Boundary
  <2> QED
    BY <2>1, <2>2
<1> DEFINE C == {i \in 0 .. n : it[i] \notin Nat}
<1>8. ASSUME C # {} PROVE FALSE
  <2>1. PICK i \in C : \A k \in C : i <= k
    <3>1. C \subseteq Nat
      OBVIOUS
    <3> HIDE DEF C
    <3> QED
      BY <1>8, <3>1, SmallestNumber
  <2>2. i \in 0 .. n /\ it[i] \notin Nat /\ i # 0
    BY <1>6
  <2>3. i - 1 \in 0 .. n /\ i \in 1 .. n /\ it[i - 1] \in Nat
    BY <2>1, <2>2
  <2> QED
    BY <1>7, <2>2, <2>3
<1>9. \A i \in 0 .. n : it[i] \in Nat
  BY <1>8
<1>10. Right(it)
  <2>1. ASSUME NEW i \in 0 .. n
        PROVE  it[i] = IF i = 0 THEN 0 ELSE AlignUp(it[i - 1], a) + SizeOf(gguf, i)
    <3>1. CASE i = 0
      BY <1>6, <3>1
    <3>2. CASE i # 0
      <4>1. i \in 1 .. n /\ it[i - 1] \in Nat
        BY <1>9, <3>2
      <4> QED
        BY <1>7, <3>2, <4>1
    <3> QED
      BY <3>1, <3>2
  <2> QED
    BY <1>6, <2>1
<1>11. PICK w : w = CHOOSE v : Right(v)
  OBVIOUS
<1>12. Right(w)
  BY <1>10, <1>11
<1>13. Cursors(gguf, a) = w
  BY <1>1, <1>11 DEF Cursors
<1> HIDE DEF Right
<1>14. w[0] = 0 /\ \A i \in 1 .. n : w[i] = AlignUp(w[i - 1], a) + SizeOf(gguf, i)
  BY <1>12 DEF Right
<1> DEFINE D == {i \in 0 .. n : w[i] \notin Nat}
<1>15. ASSUME D # {} PROVE FALSE
  <2>1. PICK i \in D : \A k \in D : i <= k
    <3>1. D \subseteq Nat
      OBVIOUS
    <3> HIDE DEF D
    <3> QED
      BY <1>15, <3>1, SmallestNumber
  <2>2. i \in 0 .. n /\ w[i] \notin Nat /\ i # 0
    BY <1>14
  <2>3. i - 1 \in 0 .. n /\ i \in 1 .. n /\ w[i - 1] \in Nat
    BY <2>1, <2>2
  <2>4. AlignUp(w[i - 1], a) \in Nat /\ SizeOf(gguf, i) \in Nat
    BY <1>2, <1>3, <2>3, Boundary
  <2> QED
    BY <1>14, <2>2, <2>3, <2>4
<1>16. \A i \in 0 .. n : w[i] \in Nat
  BY <1>15
<1> QED
  BY <1>1, <1>13, <1>14, <1>16 DEF Slices

(* The coordinates of n slices, in a payload.                              *)
Coordinates(gguf, a, coords, payload, n) ==
  /\ Len(coords) = n /\ coords = [i \in 1 .. n |-> coords[i]] /\ payload \in Nat
  /\ \A i \in 1 .. n : /\ coords[i].name = Sorted(gguf)[i].name
                       /\ coords[i].size = SizeOf(gguf, i) /\ coords[i].size \in Nat
                       /\ coords[i].offset \in Nat /\ coords[i].offset % a = 0
                       /\ coords[i].offset + coords[i].size <= payload
  /\ \A i, j \in 1 .. n : j < i => coords[j].offset + coords[j].size <= coords[i].offset

LEMMA CoordinatesAre ==
  ASSUME NEW gguf \in GgufFiles, NEW a \in Alignments
  PROVE  Coordinates(gguf, a, Ingested(gguf, a).coords, Ingested(gguf, a).payload, Len(gguf.table))
<1>1. PICK n, w, made : n = Len(gguf.table) /\ w = Cursors(gguf, a) /\ made = Ingested(gguf, a)
  OBVIOUS
<1>2. n \in Nat /\ Slices(gguf, a, w, n) /\ \A i \in 1 .. n : SizeOf(gguf, i) \in Nat
  BY <1>1, Tables, CursorsAre, SizesAre
<1>3. a \in Nat \ {0}
  BY WeightAssumption
<1>4. PICK coords : coords = [i \in 1 .. n |-> [name |-> Sorted(gguf)[i].name,
                                                offset |-> AlignUp(w[i - 1], a),
                                                size |-> SizeOf(gguf, i)]]
  OBVIOUS
<1>5. made.coords = coords /\ made.payload = w[n]
  BY <1>1, <1>4 DEF Ingested
<1>6. Len(coords) = n /\ coords = [i \in 1 .. n |-> coords[i]]
  BY <1>2, <1>4
<1>7. \A i \in 1 .. n : /\ coords[i].name = Sorted(gguf)[i].name
                        /\ coords[i].size = SizeOf(gguf, i)
                        /\ coords[i].offset = AlignUp(w[i - 1], a)
  BY <1>4
<1> HIDE <1>4
<1>8. \A i \in 0 .. n : w[i] \in Nat
  BY <1>2 DEF Slices
<1>9. ASSUME NEW i \in 1 .. n
      PROVE  /\ coords[i].offset \in Nat /\ coords[i].offset % a = 0
             /\ coords[i].offset + coords[i].size = w[i]
             /\ w[i - 1] <= coords[i].offset /\ w[i - 1] <= w[i]
  <2>1. w[i - 1] \in Nat /\ w[i] \in Nat /\ w[i] = AlignUp(w[i - 1], a) + SizeOf(gguf, i)
    BY <1>2, <1>8 DEF Slices
  <2>2. PICK u : u = AlignUp(w[i - 1], a)
    OBVIOUS
  <2>3. u \in Nat /\ w[i - 1] <= u /\ u % a = 0
    BY <1>3, <2>1, <2>2, Boundary
  <2>4. coords[i].offset = u /\ coords[i].size = SizeOf(gguf, i) /\ SizeOf(gguf, i) \in Nat
    BY <1>2, <1>7, <2>2
  <2> QED
    BY <2>1, <2>2, <2>3, <2>4
<1>10. \A i, j \in 0 .. n : i <= j => w[i] <= w[j]
  BY <1>2, <1>8, <1>9, NeverDown
<1>11. ASSUME NEW i \in 1 .. n PROVE coords[i].offset + coords[i].size <= w[n]
  <2>1. i \in 0 .. n /\ n \in 0 .. n /\ i <= n
    BY <1>2
  <2>2. w[i] <= w[n]
    BY <1>10, <2>1
  <2> QED
    BY <1>9, <2>2
<1>12. ASSUME NEW i \in 1 .. n, NEW j \in 1 .. n, j < i
       PROVE  coords[j].offset + coords[j].size <= coords[i].offset
  <2>1. j \in 0 .. n /\ i - 1 \in 0 .. n /\ j <= i - 1
    BY <1>2, <1>12
  <2>2. w[j] <= w[i - 1] /\ w[j] \in Nat /\ w[i - 1] \in Nat
    BY <1>8, <1>10, <2>1
  <2> QED
    BY <1>9, <2>2
<1>13. w[n] \in Nat
  BY <1>2, <1>8
<1>14. Coordinates(gguf, a, coords, w[n], n)
  BY <1>2, <1>6, <1>7, <1>9, <1>11, <1>12, <1>13 DEF Coordinates
<1> QED
  BY <1>1, <1>5, <1>14

(* Only of a file without data nothing is left.                            *)
LEMMA NothingToIngest ==
  ASSUME NEW gguf \in GgufFiles, NEW a \in Alignments, ~(Ingested(gguf, a).payload > 0)
  PROVE  ~HasData(gguf)
<1>1. PICK n, ts, coords, payload : /\ n = Len(gguf.table) /\ ts = Sorted(gguf)
                                    /\ coords = Ingested(gguf, a).coords
                                    /\ payload = Ingested(gguf, a).payload
  OBVIOUS
<1>2. n \in Nat /\ gguf.length \in Nat /\ Sorts(gguf, ts, n) /\ Coordinates(gguf, a, coords, payload, n)
  BY <1>1, Tables, SortedIs, CoordinatesAre
<1>3. payload = 0
  BY <1>1, <1>2 DEF Coordinates
<1> SUFFICES ASSUME NEW i \in 1 .. n, gguf.table[i].offset < gguf.length PROVE FALSE
  BY <1>1 DEF HasData
<1>4. PICK k \in 1 .. n : ts[k] = gguf.table[i]
  BY <1>2 DEF Sorts
<1>5. coords[k].size = SizeOf(gguf, k) /\ coords[k].size \in Nat /\ coords[k].offset \in Nat
      /\ coords[k].offset + coords[k].size <= 0
  BY <1>2, <1>3 DEF Coordinates
<1>6. SizeOf(gguf, k) = 0
  BY <1>5
<1>7. ts[k].offset \in Nat /\ ts[k].offset < gguf.length
  BY <1>2, <1>4 DEF Sorts
<1>8. CASE k < n
  <2>1. k + 1 \in 1 .. n /\ k < k + 1
    BY <1>2, <1>8
  <2>2. ts[k + 1].offset \in Nat /\ ts[k].offset < ts[k + 1].offset
    BY <1>2, <2>1 DEF Sorts
  <2>3. SizeOf(gguf, k) = ts[k + 1].offset - ts[k].offset
    BY <1>1, <1>8 DEF SizeOf
  <2> QED
    BY <1>6, <1>7, <2>2, <2>3
<1>9. CASE ~(k < n)
  <2>1. SizeOf(gguf, k) = gguf.length - ts[k].offset
    BY <1>1, <1>2, <1>7, <1>9 DEF SizeOf
  <2> QED
    BY <1>2, <1>6, <1>7, <2>1
<1> QED
  BY <1>8, <1>9

(* What Unit finds in a tensor, if the data starts with the table's end.   *)
LEMMA UnitsAre ==
  ASSUME NEW gguf \in GgufFiles, gguf.padding = 0, NEW j \in 1 .. Len(gguf.table),
         NEW k \in Nat, k < gguf.table[j].size
  PROVE  Unit(gguf, gguf.table[j].offset + k) = <<gguf.table[j].name, k>>
<1>1. PICK table, n, t, at : table = gguf.table /\ n = Len(table) /\ t = table[j] /\ at = t.offset + k
  OBVIOUS
<1>2. n \in Nat /\ \A i \in 1 .. n : table[i].offset \in Nat /\ table[i].size \in Nat
  BY <1>1, Tables
<1>3. \A i \in 1 .. n : i # j => table[i].offset # t.offset
        /\ (table[i].offset < t.offset => table[i].offset + table[i].size <= t.offset)
        /\ (t.offset < table[i].offset => t.offset + t.size <= table[i].offset)
  BY <1>1, Apart
<1>4. DOMAIN table = 1 .. n
  <2>1. WellFormed(gguf)
    BY WeightAssumption
  <2>2. PICK T : table \in Seq(T)
    BY <1>1, <2>1 DEF WellFormed
  <2> QED
    BY <1>1, <2>2
<1>5. t.offset \in Nat /\ t.size \in Nat /\ at \in Nat /\ at >= t.offset /\ at < t.offset + t.size
  BY <1>1, <1>2
<1>6. \A i \in 1 .. n : (at >= 0 + table[i].offset /\ at < 0 + table[i].offset + table[i].size) <=> i = j
  <2> SUFFICES ASSUME NEW i \in 1 .. n
               PROVE  (at >= 0 + table[i].offset /\ at < 0 + table[i].offset + table[i].size) <=> i = j
    OBVIOUS
  <2>1. table[i].offset \in Nat /\ table[i].size \in Nat
    BY <1>2
  <2>2. CASE i = j
    BY <1>1, <1>5, <2>1, <2>2
  <2>3. CASE i # j
    <3>1. table[i].offset < t.offset \/ t.offset < table[i].offset
      BY <1>3, <1>5, <2>1, <2>3
    <3> QED
      BY <1>3, <1>5, <2>1, <2>3, <3>1
  <2> QED
    BY <2>2, <2>3
<1>7. (CHOOSE i \in DOMAIN table : at >= 0 + table[i].offset /\ at < 0 + table[i].offset + table[i].size) = j
  BY <1>1, <1>4, <1>6
<1>8. \E i \in DOMAIN table : at >= 0 + table[i].offset /\ at < 0 + table[i].offset + table[i].size
  BY <1>1, <1>4, <1>6
<1>9. Unit(gguf, at) = <<table[j].name, at - 0 - table[j].offset>>
  BY <1>1, <1>7, <1>8 DEF Unit
<1>10. at - 0 - table[j].offset = k
  BY <1>1, <1>5
<1> QED
  BY <1>1, <1>9, <1>10

(* A slice holds its tensor, or the zeros of a file that was cut.          *)
LEMMA SlicesHold ==
  ASSUME NEW gguf \in GgufFiles, NEW a \in Alignments, gguf.padding = 0,
         NEW i \in 1 .. Len(gguf.table), NEW j \in 1 .. Len(gguf.table),
         gguf.table[j].name = Ingested(gguf, a).coords[i].name
  PROVE  Holds(gguf, a, Ingested(gguf, a).coords[i].offset, gguf.table[j])
<1>1. PICK n, ts, coords, payload, t : /\ n = Len(gguf.table) /\ ts = Sorted(gguf)
                                       /\ coords = Ingested(gguf, a).coords
                                       /\ payload = Ingested(gguf, a).payload
                                       /\ t = gguf.table[j]
  OBVIOUS
<1>2. n \in Nat /\ gguf.length \in Nat /\ Sorts(gguf, ts, n) /\ Coordinates(gguf, a, coords, payload, n)
  BY <1>1, Tables, SortedIs, CoordinatesAre
<1>3. ts[i] = t
  <2>1. PICK m \in 1 .. n : ts[i] = gguf.table[m]
    BY <1>1, <1>2 DEF Sorts
  <2>2. coords[i].name = ts[i].name
    BY <1>1, <1>2 DEF Coordinates
  <2>3. gguf.table[m].name = gguf.table[j].name
    BY <1>1, <2>1, <2>2
  <2>4. m = j
    BY <1>1, <2>3, Apart
  <2> QED
    BY <1>1, <2>1, <2>4
<1>4. t.offset \in Nat /\ t.size \in Nat
  BY <1>1, Tables
<1>5. PICK from, size : from = coords[i].offset /\ size = SizeOf(gguf, i)
  OBVIOUS
<1>6. from \in Nat /\ size \in Nat /\ coords[i].size = size
  BY <1>1, <1>2, <1>5 DEF Coordinates
<1>7. IF i < n THEN t.size <= size /\ t.offset + size = ts[i + 1].offset /\ ts[i + 1].offset \in Nat
               ELSE size = IF t.offset <= gguf.length THEN gguf.length - t.offset ELSE 0
  <2>1. CASE i < n
    <3>1. i + 1 \in 1 .. n /\ i < i + 1
      BY <1>1, <1>2, <2>1
    <3>2. ts[i + 1].offset \in Nat /\ t.offset + t.size <= ts[i + 1].offset
      BY <1>1, <1>2, <1>3, <3>1 DEF Sorts
    <3>3. size = ts[i + 1].offset - t.offset
      BY <1>1, <1>3, <1>5, <2>1 DEF SizeOf
    <3> QED
      BY <1>4, <2>1, <3>2, <3>3
  <2>2. CASE ~(i < n)
    BY <1>1, <1>2, <1>3, <1>5, <2>2 DEF SizeOf
  <2> QED
    BY <2>1, <2>2
<1>8. ASSUME NEW end \in Nat, end <= size, gguf.length < t.offset + end PROVE IsCut(gguf)
  <2>1. CASE i < n
    <3>1. i + 1 \in 1 .. n
      BY <1>1, <1>2, <2>1
    <3>2. PICK m \in 1 .. n : ts[i + 1] = gguf.table[m]
      BY <1>2, <3>1 DEF Sorts
    <3>3. gguf.table[m].offset \in Nat /\ gguf.table[m].size \in Nat
      BY <1>1, Tables
    <3>4. gguf.length < gguf.table[m].offset
      BY <1>2, <1>4, <1>6, <1>7, <1>8, <2>1, <3>2
    <3> QED
      BY <1>1, <1>2, <3>3, <3>4 DEF IsCut
  <2>2. CASE ~(i < n)
    <3>1. gguf.length < t.offset
      BY <1>2, <1>4, <1>6, <1>7, <1>8, <2>2
    <3> QED
      BY <1>1, <1>2, <1>4, <3>1 DEF IsCut
  <2> QED
    BY <2>1, <2>2
<1> DEFINE In(x, at) == at >= coords[x].offset /\ at < coords[x].offset + coords[x].size
<1> SUFFICES ASSUME NEW k \in 0 .. t.size - 1
             PROVE  \/ WeightUnit(gguf, a, from + k) = <<t.name, k>>
                    \/ IsCut(gguf) /\ WeightUnit(gguf, a, from + k) = <<"zero">>
  BY <1>1, <1>5 DEF Holds
<1>9. PICK at : at = from + k
  OBVIOUS
<1>10. k \in Nat /\ k < t.size /\ at \in Nat /\ at - from = k /\ from <= at
  BY <1>4, <1>6, <1>9
<1>11. DOMAIN coords = 1 .. n
  BY <1>2 DEF Coordinates
<1>12. WeightUnit(gguf, a, at) = IF \E x \in 1 .. n : In(x, at)
                                 THEN Copied(gguf, CHOOSE x \in 1 .. n : In(x, at),
                                             at - coords[CHOOSE x \in 1 .. n : In(x, at)].offset)
                                 ELSE <<"zero">>
  BY <1>1, <1>11 DEF WeightUnit
<1>13. ASSUME NEW x \in 1 .. n, ~(i < n) PROVE x = i \/ x < i
  BY <1>1, <1>2, <1>13
<1>14. ASSUME NEW x \in 1 .. n PROVE x < i => ~In(x, at)
  <2>1. SUFFICES ASSUME x < i PROVE ~In(x, at)
    OBVIOUS
  <2>2. coords[x].offset + coords[x].size <= from /\ coords[x].offset \in Nat /\ coords[x].size \in Nat
    BY <1>1, <1>2, <1>5, <2>1 DEF Coordinates
  <2> QED
    BY <1>6, <1>10, <2>2
<1>15. ASSUME NEW x \in 1 .. n, i < x, k < size PROVE ~In(x, at)
  <2>1. from + size <= coords[x].offset /\ coords[x].offset \in Nat
    BY <1>1, <1>2, <1>5, <1>6, <1>15 DEF Coordinates
  <2> QED
    BY <1>6, <1>9, <1>10, <1>15, <2>1
<1>16. In(i, at) <=> k < size
  <2>1. In(i, at) <=> at >= from /\ at < from + size
    BY <1>5, <1>6
  <2>2. at >= from /\ (at < from + size <=> k < size)
    BY <1>6, <1>9, <1>10
  <2> QED
    BY <2>1, <2>2
<1>17. CASE k < size
  <2>1. \A x \in 1 .. n : In(x, at) <=> x = i
    <3> SUFFICES ASSUME NEW x \in 1 .. n PROVE In(x, at) <=> x = i
      OBVIOUS
    <3>1. x < i \/ x = i \/ i < x
      BY <1>1, <1>2
    <3> QED
      BY <1>14, <1>15, <1>16, <1>17, <3>1, <1>2
  <2>2. (CHOOSE x \in 1 .. n : In(x, at)) = i
    BY <1>1, <2>1
  <2>3. WeightUnit(gguf, a, at) = Copied(gguf, i, k)
    BY <1>1, <1>5, <1>10, <1>12, <2>1, <2>2
  <2>4. PICK end : end = Smaller((k \div Chunk + 1) * Chunk, size)
    OBVIOUS
  <2>5. end \in Nat /\ end <= size
    <3>1. PICK q, c : q = k \div Chunk /\ c = (q + 1) * Chunk
      OBVIOUS
    <3>2. Chunk \in Nat \ {0}
      BY WeightAssumption
    <3>3. q \in Nat
      BY <1>10, <3>1, <3>2
    <3>4. c \in Nat
      BY <3>1, <3>2, <3>3
    <3>5. end = IF c < size THEN c ELSE size
      BY <2>4, <3>1 DEF Smaller
    <3> QED
      BY <1>6, <3>4, <3>5
  <2>6. Copied(gguf, i, k) = IF t.offset + end <= gguf.length THEN Unit(gguf, t.offset + k) ELSE <<"zero">>
    BY <1>1, <1>3, <1>5, <2>4 DEF Copied
  <2>7. Unit(gguf, t.offset + k) = <<t.name, k>>
    BY <1>1, <1>10, UnitsAre
  <2>8. ~(t.offset + end <= gguf.length) => IsCut(gguf)
    BY <1>2, <1>4, <1>8, <2>5
  <2> QED
    BY <1>9, <2>3, <2>6, <2>7, <2>8
<1>18. CASE ~(k < size)
  <2>1. ~(i < n)
    BY <1>4, <1>6, <1>7, <1>10, <1>18
  <2>2. \A x \in 1 .. n : ~In(x, at)
    BY <1>1, <1>2, <1>13, <1>14, <1>16, <1>18, <2>1
  <2>3. WeightUnit(gguf, a, at) = <<"zero">>
    BY <1>12, <2>2
  <2>4. IsCut(gguf)
    <3>1. gguf.length < t.offset + t.size
      BY <1>2, <1>4, <1>6, <1>7, <1>10, <1>18, <2>1
    <3> QED
      BY <1>1, <1>2, <1>4, <3>1 DEF IsCut
  <2> QED
    BY <1>9, <2>3, <2>4
<1> QED
  BY <1>17, <1>18, <1>6, <1>10

-----------------------------------------------------------------------------
(* Where files, indexes and what is loaded come from.                      *)
Refusable(gguf) == ~Parses(gguf) \/ ~HasData(gguf)

IsIndexOf(made, coords, gguf, a) ==
  /\ made.of = [of |-> gguf, alignment |-> a]
  /\ made.header = Built(gguf, a).header
  /\ coords = Ingested(gguf, a).coords

WeightInv ==
  /\ refused \subseteq {gguf \in GgufFiles : Refusable(gguf)}
  /\ tool = ToolRests \/ (tool.of \in GgufFiles /\ tool.alignment \in Alignments)
  /\ indexFile = NoIndex \/ \E gguf \in GgufFiles, a \in Alignments :
       \E n \in 0 .. Len(gguf.table) : indexFile = Blob(gguf, a, n)
  /\ loaded = [header |-> loaded.header, entries |-> loaded.entries, good |-> loaded.good, of |-> loaded.of]
  /\ loaded.good \in BOOLEAN
  /\ loaded.good => \E gguf \in GgufFiles, a \in Alignments : IsIndexOf(loaded, loaded.entries, gguf, a)

LEMMA WeightsStart == WeightInit => WeightInv
<1> SUFFICES ASSUME WeightInit PROVE WeightInv
  OBVIOUS
<1>1. refused = {} /\ tool = ToolRests /\ indexFile = NoIndex
  BY DEF WeightInit
<1>2. PICK l : l = [header |-> Empty, entries |-> <<>>, good |-> FALSE, of |-> NoWeights]
  OBVIOUS
<1>3. loaded = l /\ ~l.good /\ l.good \in BOOLEAN
      /\ l = [header |-> l.header, entries |-> l.entries, good |-> l.good, of |-> l.of]
  BY <1>2 DEF WeightInit
<1> QED
  BY <1>1, <1>3 DEF WeightInv

(* Coordinates of which all are there are those that were built.           *)
LEMMA AllOfThem ==
  ASSUME NEW gguf \in GgufFiles, NEW a \in Alignments, NEW n \in 0 .. Len(gguf.table),
         indexFile = Blob(gguf, a, n), AllThere
  PROVE  IsIndexOf(indexFile, indexFile.coords, gguf, a)
<1>1. PICK m, made : m = Len(gguf.table) /\ made = Ingested(gguf, a)
  OBVIOUS
<1>2. m \in Nat /\ Coordinates(gguf, a, made.coords, made.payload, m)
  BY <1>1, Tables, CoordinatesAre
<1>3. PICK coords, h : coords = made.coords /\ h = Built(gguf, a).header
  OBVIOUS
<1>4. coords = [i \in 1 .. m |-> coords[i]] /\ Len(coords) = m
  BY <1>2, <1>3 DEF Coordinates
<1>5. h.count = m
  BY <1>1, <1>3, <1>4 DEF Built
<1>6. Built(gguf, a).coords = coords
  BY <1>1, <1>3 DEF Built
<1>7. /\ indexFile.of = [of |-> gguf, alignment |-> a]
      /\ indexFile.header = h
      /\ indexFile.coords = SubSeq(coords, 1, n)
  BY <1>3, <1>6 DEF Blob
<1>8. Len(indexFile.coords) >= m
  BY <1>5, <1>7 DEF AllThere
<1>9. coords \in Seq({coords[i] : i \in 1 .. m})
  BY <1>2, <1>4
<1>10. n \in 0 .. m
  BY <1>1
<1>11. Len(SubSeq(coords, 1, n)) = n
  BY <1>2, <1>4, <1>9, <1>10
<1>12. n = m
  BY <1>2, <1>7, <1>8, <1>10, <1>11
<1>13. SubSeq(coords, 1, m) = coords
  BY <1>2, <1>4, <1>9
<1> QED
  BY <1>1, <1>3, <1>7, <1>12, <1>13 DEF IsIndexOf

LEMMA WeightsStep == WeightInv /\ [WeightNext]_weightVars => WeightInv'
<1> SUFFICES ASSUME WeightInv, [WeightNext]_weightVars PROVE WeightInv'
  OBVIOUS
<1>1. /\ refused \subseteq {gguf \in GgufFiles : Refusable(gguf)}
      /\ tool = ToolRests \/ (tool.of \in GgufFiles /\ tool.alignment \in Alignments)
      /\ indexFile = NoIndex \/ \E gguf \in GgufFiles, a \in Alignments :
           \E n \in 0 .. Len(gguf.table) : indexFile = Blob(gguf, a, n)
      /\ loaded = [header |-> loaded.header, entries |-> loaded.entries, good |-> loaded.good, of |-> loaded.of]
      /\ loaded.good \in BOOLEAN
      /\ loaded.good => \E gguf \in GgufFiles, a \in Alignments : IsIndexOf(loaded, loaded.entries, gguf, a)
  BY DEF WeightInv
<1>2. ASSUME NEW gguf \in GgufFiles, IngestRefused(gguf) PROVE WeightInv'
  <2>1. Refusable(gguf) /\ refused' = {gguf} /\ UNCHANGED <<tool, indexFile, loaded>>
    BY <1>2 DEF IngestRefused, Refusable
  <2> QED
    BY <1>1, <2>1 DEF WeightInv
<1>3. ASSUME NEW gguf \in GgufFiles, NEW a \in Alignments, IngestOpens(gguf, a) PROVE WeightInv'
  <2>1. tool'.of = gguf /\ tool'.alignment = a /\ UNCHANGED <<indexFile, loaded, refused>>
    BY <1>3 DEF IngestOpens
  <2> QED
    BY <1>1, <2>1 DEF WeightInv
<1>4. CASE IngestWrites
  <2>1. tool.at = "writes" /\ UNCHANGED <<indexFile, loaded>>
    BY <1>4 DEF IngestWrites
  <2>2. tool.of \in GgufFiles /\ tool.alignment \in Alignments
    BY <1>1, <2>1 DEF ToolRests
  <2>3. CASE Ingested(tool.of, tool.alignment).payload > 0
    <3>1. tool' = [tool EXCEPT !.at = "index"] /\ refused' = refused
      BY <1>4, <2>3 DEF IngestWrites
    <3>2. tool'.of = tool.of /\ tool'.alignment = tool.alignment
      BY <3>1
    <3> QED
      BY <1>1, <2>1, <2>2, <3>1, <3>2 DEF WeightInv
  <2>4. CASE ~(Ingested(tool.of, tool.alignment).payload > 0)
    <3>1. tool' = ToolRests /\ refused' = {tool.of}
      BY <1>4, <2>4 DEF IngestWrites
    <3>2. Refusable(tool.of)
      BY <2>2, <2>4, NothingToIngest DEF Refusable
    <3> QED
      BY <1>1, <2>1, <2>2, <3>1, <3>2 DEF WeightInv
  <2> QED
    BY <2>3, <2>4
<1>5. CASE SavesIndex
  <2>1. tool.of \in GgufFiles /\ tool.alignment \in Alignments
    BY <1>1, <1>5 DEF SavesIndex, ToolRests
  <2>2. PICK n \in 0 .. Len(tool.of.table) : indexFile' = Blob(tool.of, tool.alignment, n)
    BY <1>5 DEF SavesIndex
  <2>3. tool' = ToolRests /\ UNCHANGED <<loaded, refused>>
    BY <1>5 DEF SavesIndex
  <2> QED
    BY <1>1, <2>1, <2>2, <2>3 DEF WeightInv
<1>6. CASE ToolDies
  <2>1. tool' = ToolRests /\ UNCHANGED <<indexFile, loaded, refused>>
    BY <1>6 DEF ToolDies
  <2> QED
    BY <1>1, <2>1 DEF WeightInv
<1>7. CASE LoadRefused \/ LoadTears
  <2>1. PICK h : loaded' = [header |-> h, entries |-> loaded.entries, good |-> FALSE, of |-> loaded.of]
    BY <1>1, <1>7 DEF LoadRefused, LoadTears
  <2>2. UNCHANGED <<tool, indexFile, refused>>
    BY <1>7 DEF LoadRefused, LoadTears
  <2>3. /\ loaded' = [header |-> loaded'.header, entries |-> loaded'.entries,
                      good |-> loaded'.good, of |-> loaded'.of]
        /\ ~loaded'.good /\ loaded'.good \in BOOLEAN
    BY <2>1
  <2> QED
    BY <1>1, <2>2, <2>3 DEF WeightInv
<1>8. CASE Load
  <2>1. AllThere /\ UNCHANGED <<tool, indexFile, refused>>
        /\ loaded' = [header |-> indexFile.header, entries |-> indexFile.coords, good |-> TRUE, of |-> indexFile.of]
    BY <1>8 DEF Load
  <2>2. indexFile # NoIndex
    BY <2>1 DEF AllThere, NoIndex
  <2>3. PICK gguf \in GgufFiles, a \in Alignments :
          \E n \in 0 .. Len(gguf.table) : indexFile = Blob(gguf, a, n)
    BY <1>1, <2>2
  <2>4. IsIndexOf(indexFile, indexFile.coords, gguf, a)
    BY <2>1, <2>3, AllOfThem
  <2>5. loaded'.header = indexFile.header /\ loaded'.entries = indexFile.coords
        /\ loaded'.good = TRUE /\ loaded'.of = indexFile.of
    BY <2>1
  <2>6. loaded' = [header |-> loaded'.header, entries |-> loaded'.entries,
                   good |-> loaded'.good, of |-> loaded'.of]
    BY <2>1
  <2>7. IsIndexOf(loaded', loaded'.entries, gguf, a)
    BY <2>4, <2>5 DEF IsIndexOf
  <2> QED
    BY <1>1, <2>1, <2>5, <2>6, <2>7 DEF WeightInv
<1>9. CASE UNCHANGED weightVars
  BY <1>1, <1>9 DEF weightVars, WeightInv
<1> QED
  BY <1>2, <1>3, <1>4, <1>5, <1>6, <1>7, <1>8, <1>9 DEF WeightNext

LEMMA OnlyShortFail ==
  ASSUME NEW gguf \in GgufFiles, \A i \in 1 .. Len(gguf.values) : ~IsShort(gguf.values[i])
  PROVE  Parses(gguf)
<1>1. WellFormed(gguf)
  BY WeightAssumption
<1>2. PICK values : values = gguf.values
  OBVIOUS
<1>3. values \in Seq(Values)
  BY <1>1, <1>2 DEF WellFormed
<1>4. DOMAIN values = 1 .. Len(values) /\ \A i \in 1 .. Len(values) : values[i] \in Values
  BY <1>3
<1>5. ASSUME NEW i \in 1 .. Len(values)
      PROVE  Extent(values[i], SkipWidth) = Extent(values[i], TrueWidth)
  <2>1. PICK v \in Values : v = values[i]
    BY <1>4
  <2>2. ~IsShort(v)
    BY <1>2, <2>1
  <2>3. \A w \in Widths : w # "u16" => SkipWidth[w] = TrueWidth[w]
    BY DEF Widths, SkipWidth, TrueWidth
  <2>4. CASE v.type = "string"
    BY <2>1, <2>4 DEF Extent
  <2>5. CASE v.type = "array"
    <3>1. v.of \in Widths /\ v.of # "u16"
      BY <2>1, <2>2, <2>5 DEF Values, Widths, IsShort
    <3>2. SkipWidth[v.of] = TrueWidth[v.of]
      BY <2>3, <3>1
    <3>3. \A width : Extent(v, width) = 12 + v.length * width[v.of]
      BY <2>5 DEF Extent
    <3> QED
      BY <2>1, <3>2, <3>3
  <2>6. CASE v.type # "string" /\ v.type # "array"
    <3>1. v.type \in Widths /\ v.type # "u16"
      BY <2>1, <2>2, <2>6 DEF Values, Widths, IsShort
    <3>2. \A width : Extent(v, width) = width[v.type]
      BY <2>6 DEF Extent
    <3> QED
      BY <2>1, <2>3, <3>1, <3>2
  <2> QED
    BY <2>4, <2>5, <2>6
<1> QED
  BY <1>2, <1>4, <1>5 DEF Parses

LEMMA WeightInvLeads == WeightInv => OnlyOddFilesMislead
<1> SUFFICES ASSUME WeightInv PROVE OnlyOddFilesMislead
  OBVIOUS
<1>1. ASSUME NEW gguf \in refused
      PROVE  (\E i \in 1 .. Len(gguf.values) : IsShort(gguf.values[i])) \/ ~HasData(gguf)
  <2>1. gguf \in GgufFiles /\ Refusable(gguf)
    BY <1>1 DEF WeightInv
  <2> QED
    BY <2>1, OnlyShortFail DEF Refusable
<1>2. ASSUME loaded.good, weights = loaded.of, NEW i \in 1 .. Len(loaded.entries)
      PROVE  LET c == loaded.entries[i] IN
             /\ (\A j \in i + 1 .. Len(loaded.entries) : Hash[j] # Hash[i]) => Found(loaded, i) = {c}
             /\ c.offset % loaded.header.alignment = 0
             /\ c.offset + c.size <= loaded.header.payload
             /\ \A j \in 1 .. i - 1 : loaded.entries[j].offset + loaded.entries[j].size <= c.offset
             /\ weights.of.padding = 0 =>
                  \A j \in 1 .. Len(weights.of.table) : weights.of.table[j].name = c.name =>
                    Holds(weights.of, weights.alignment, c.offset, weights.of.table[j])
  <2>1. PICK gguf \in GgufFiles, a \in Alignments : IsIndexOf(loaded, loaded.entries, gguf, a)
    BY <1>2 DEF WeightInv
  <2>2. PICK n, coords, payload : /\ n = Len(gguf.table) /\ coords = Ingested(gguf, a).coords
                                  /\ payload = Ingested(gguf, a).payload
    OBVIOUS
  <2>3. n \in Nat /\ Coordinates(gguf, a, coords, payload, n)
    BY <2>2, Tables, CoordinatesAre
  <2>4. loaded.entries = coords /\ loaded.of = [of |-> gguf, alignment |-> a]
    BY <2>1, <2>2 DEF IsIndexOf
  <2>5. loaded.header.alignment = a /\ loaded.header.payload = payload
    BY <2>1, <2>2 DEF IsIndexOf, Built
  <2>6. weights.of = gguf /\ weights.alignment = a
    BY <1>2, <2>4
  <2>7. Len(coords) = n /\ i \in 1 .. n
    BY <1>2, <2>3, <2>4 DEF Coordinates
  <2>8. ASSUME \A j \in i + 1 .. n : Hash[j] # Hash[i] PROVE Found(loaded, i) = {coords[i]}
    <3>1. PICK same : same = {j \in 1 .. n : Hash[j] = Hash[i]}
      OBVIOUS
    <3>2. i \in same /\ \A j \in same : j <= i /\ j \in 1 .. n
      BY <2>3, <2>7, <2>8, <3>1
    <3>3. \A j \in same : (\A k \in same : k <= j) <=> j = i
      BY <2>3, <2>7, <3>2
    <3>4. (CHOOSE j \in same : \A k \in same : k <= j) = i
      BY <3>2, <3>3
    <3>5. Found(loaded, i) = IF same = {} THEN {}
                             ELSE {loaded.entries[CHOOSE j \in same : \A k \in same : k <= j]}
      BY <2>4, <2>7, <3>1 DEF Found
    <3> QED
      BY <2>4, <3>2, <3>4, <3>5
  <2>9. coords[i].offset % a = 0 /\ coords[i].offset + coords[i].size <= payload
    BY <2>3, <2>7 DEF Coordinates
  <2>10. \A j \in 1 .. i - 1 : coords[j].offset + coords[j].size <= coords[i].offset
    BY <2>3, <2>7 DEF Coordinates
  <2>11. ASSUME gguf.padding = 0, NEW j \in 1 .. n, gguf.table[j].name = coords[i].name
         PROVE  Holds(gguf, a, coords[i].offset, gguf.table[j])
    BY <2>2, <2>7, <2>11, SlicesHold
  <2> QED
    BY <2>2, <2>4, <2>5, <2>6, <2>7, <2>8, <2>9, <2>10, <2>11
<1> QED
  BY <1>1, <1>2 DEF OnlyOddFilesMislead

-----------------------------------------------------------------------------
IInv == PagesInv /\ ContextInv /\ WeightInv

LEMMA Step == IInv /\ [Next]_vars => IInv'
<1> SUFFICES ASSUME IInv, [Next]_vars PROVE IInv'
  OBVIOUS
<1>1. ASSUME UNCHANGED pageVars PROVE PagesInv'
  BY <1>1 DEF IInv, PagesInv, PagesOK, OnlyStolenPagesAreShared, pageVars
<1>2. ASSUME UNCHANGED contextVars PROVE ContextInv'
  BY <1>2 DEF IInv, ContextInv, ContextOK, StatsInv, BufferInv, BeyondInv, contextVars
<1>0. ASSUME UNCHANGED weightVars PROVE WeightInv'
  BY <1>0, WeightsStep DEF IInv
<1>3. CASE UseDocuments
  BY <1>0, <1>1, <1>2, <1>3 DEF UseDocuments, IInv
<1>4. CASE UseContext
  BY <1>0, <1>1, <1>4, ContextStep DEF UseContext, IInv
<1>5. CASE UsePages
  BY <1>0, <1>2, <1>5, PagesStep DEF UsePages, IInv
<1>6. CASE UseWeights
  BY <1>1, <1>2, <1>6, WeightsStep DEF UseWeights, IInv
<1>7. CASE UNCHANGED vars
  BY <1>0, <1>1, <1>2, <1>7 DEF vars, IInv
<1> QED
  BY <1>3, <1>4, <1>5, <1>6, <1>7 DEF Next

(* Buffers follow targets, statistics follow tokens, pages follow          *)
(* sequences, and an index its file, whatever clients do                   *)
(* (dxcontext.cpp:20-101, dxkv.cpp:17-31, dxstream.cpp:25-354).            *)
THEOREM InductiveInvariant == Spec => []IInv
<1>1. Init => IInv
  BY PagesStart, ContextStart, WeightsStart DEF Init, IInv
<1> QED
  BY <1>1, Step, PTL DEF Spec

(* For every configuration, width of the counters and sequence of targets, *)
(* a context within its target fits its buffers, and an offload leaves     *)
(* them only if they are shorter than a block (dxcontext.cpp:41-101).      *)
THEOREM ContextsFit == Spec => []ContextFits
<1>1. IInv => ContextFits
  BY ContextInvFits DEF IInv
<1> QED
  BY <1>1, InductiveInvariant, PTL

(* For any length, page size and sequences, two sequences share a page     *)
(* only after one was given back by somebody who no longer had it          *)
(* (dxkv.cpp:17-31).                                                       *)
THEOREM PagesAreApart == Spec => []OnlyStolenPagesAreShared
<1>1. IInv => OnlyStolenPagesAreShared
  BY DEF IInv, PagesInv
<1> QED
  BY <1>1, InductiveInvariant, PTL

(* Of any well-formed files, alignment and size of a read, whenever the    *)
(* tool dies: an index that loads, with the weights made along with it,    *)
(* has every tensor found, aligned, apart and whole, but for what a cut or *)
(* padded file displaces; only files with 16-bit metadata or without data  *)
(* are refused (dxstream.cpp:25-92 and 246-354).                           *)
THEOREM MisleadOnlyOddFiles == Spec => []OnlyOddFilesMislead
<1>1. IInv => OnlyOddFilesMislead
  BY WeightInvLeads DEF IInv
<1> QED
  BY <1>1, InductiveInvariant, PTL

-----------------------------------------------------------------------------
(* Handles.                                                                *)
Addresses == Devices \cup Queues \cup Buffers \cup Runtimes
Kinds     == {"manager", "execution", "pool", "stream", "allocation", "logger"}
Infos     == Cards \cup {NoCard}

Calls ==
  {Idle} \cup [pc : {"listed"}, on : SUBSET Addresses, list : {Listed(s) : s \in ShownLists}, index : Nat]
         \cup [pc : {"opened", "pooled"}, on : SUBSET Addresses, info : Infos, card : Infos]
         \cup [pc : {"streamed"}, on : SUBSET Addresses, of : Devices]
         \cup [pc : {"allocated"}, on : SUBSET Addresses, of : Devices, size : Nat]
         \cup [pc : {"computing"}, on : SUBSET Addresses]
         \cup [pc : {"runtime"}, on : SUBSET Addresses, wants : Preferences]

Everyone  == Threads \cup Addresses
Things    == Kinds \X Everyone

HandleTypes ==
  /\ device \in [Devices -> {Absent} \cup [info : Infos, card : Infos]]
  /\ queue \in [Queues -> {Absent} \cup [of : Devices \cup {Gone}]]
  /\ buffer \in [Buffers -> {Absent} \cup [of : Devices \cup {Gone}, size : Nat]]
  /\ runtime \in [Runtimes -> {Absent} \cup [backend : {"cpu", "hip", "dx12"},
                                             devices : Seq(Infos), wants : Preferences]]

HandlesOK ==
  /\ HandleTypes
  /\ owned \subseteq Things
  /\ call \in [Threads -> Calls]

(* The handle a call is to make: nobody else is inside a call on it.       *)
MadeBy(pc) ==
  {h \in Addresses : \/ pc \in {"listed", "opened", "pooled"} /\ h \in Devices
                     \/ pc = "streamed" /\ h \in Queues
                     \/ pc = "allocated" /\ h \in Buffers
                     \/ pc = "runtime" /\ h \in Runtimes}

NewIn(c) == c.on \cap MadeBy(c.pc)
New(t)   == NewIn(call[t])

NewInv ==
  \A t \in Threads : \A h \in New(t) :
    ~Alive(h) /\ \A u \in Threads \ {t} : ~IsIdle(u) => h \notin call[u].on

(* A device is opened on the adapter its description is of.                *)
OpenedInv ==
  \A t \in Threads : call[t].pc \in {"opened", "pooled"} => call[t].card = call[t].info

HandlesInv ==
  /\ HandlesOK /\ NewInv /\ OwnedExactly
  /\ OpenedInv /\ RunsOnWhatIsTold /\ OnlyNormOverruns

LEMMA KeptCards == \A shown \in ShownLists : Kept(shown) \in Seq(Cards) /\ Len(Kept(shown)) \in Nat
<1> SUFFICES ASSUME NEW shown \in ShownLists PROVE Kept(shown) \in Seq(Cards) /\ Len(Kept(shown)) \in Nat
  OBVIOUS
<1>1. PICK D : D = {i \in DOMAIN shown : shown[i] \in Cards}
  OBVIOUS
<1>2. Len(shown) \in Nat /\ DOMAIN shown = 1 .. Len(shown)
  BY CHandlesAssumption
<1>3. PICK q \in Seq(1 .. Len(shown)) : ToSet(q) = D /\ IsAt(Kept(shown), shown, q)
  BY <1>1, <1>2, SelectAtIs DEF Kept
<1>4. Len(q) \in Nat /\ \A k \in 1 .. Len(q) : q[k] \in D
  BY <1>3 DEF ToSet
<1>5. PICK r : r = Kept(shown)
  OBVIOUS
<1>6. Len(r) = Len(q) /\ \A k \in 1 .. Len(q) : r[k] \in Cards
  BY <1>1, <1>3, <1>4, <1>5 DEF IsAt
<1>7. r \in Seq(Cards)
  <2>1. r = [k \in 1 .. Len(q) |-> r[k]]
    BY <1>3, <1>5 DEF IsAt
  <2> QED
    BY <1>4, <1>6, <2>1
<1> QED
  BY <1>4, <1>5, <1>6, <1>7

(* Who has what: the kinds of what x has of O.                             *)
Had(O, x)  == {o[1] : o \in {p \in O : p[2] = x}}

LEMMA HadIs ==
  ASSUME NEW O, O \subseteq Things, NEW x, NEW k
  PROVE  k \in Had(O, x) <=> <<k, x>> \in O
<1>1. ASSUME k \in Had(O, x) PROVE <<k, x>> \in O
  <2>1. PICK o \in O : o[2] = x /\ o[1] = k
    BY <1>1 DEF Had
  <2>2. o = <<k, x>>
    BY <2>1 DEF Things
  <2> QED
    BY <2>1, <2>2
<1>2. ASSUME <<k, x>> \in O PROVE k \in Had(O, x)
  <2>1. PICK o : o = <<k, x>>
    OBVIOUS
  <2>2. o \in {p \in O : p[2] = x} /\ o[1] = k
    BY <1>2, <2>1
  <2> QED
    BY <2>2 DEF Had
<1> QED
  BY <1>1, <1>2

LEMMA HadOf ==
  ASSUME NEW O, O \subseteq Things, NEW x, NEW S, \A k : <<k, x>> \in O <=> k \in S
  PROVE  Had(O, x) = S
<1>1. \A k : k \in Had(O, x) <=> k \in S
  BY HadIs
<1> HIDE DEF Had
<1> QED
  BY <1>1

LEMMA HadSame ==
  ASSUME NEW O, O \subseteq Things, NEW P, P \subseteq Things, NEW x,
         \A k : <<k, x>> \in P <=> <<k, x>> \in O
  PROVE  Had(P, x) = Had(O, x)
<1>1. \A k : <<k, x>> \in P <=> k \in Had(O, x)
  BY HadIs
<1> QED
  BY <1>1, HadOf

LEMMA HadNothing ==
  ASSUME NEW O, O \subseteq Things, NEW x, \A k : <<k, x>> \notin O
  PROVE  Had(O, x) = {}
<1>1. \A k : k \notin Had(O, x)
  BY HadIs
<1> HIDE DEF Had
<1> QED
  BY <1>1

LEMMA HadKinds ==
  ASSUME NEW O, O \subseteq Things, NEW x
  PROVE  Had(O, x) \subseteq Kinds
<1> SUFFICES ASSUME NEW k \in Had(O, x) PROVE k \in Kinds
  OBVIOUS
<1>1. <<k, x>> \in O
  BY HadIs
<1> QED
  BY <1>1 DEF Things

(* A call makes something, or drops it: P differs from O in what t has.    *)
Those(kinds, t) == {<<k, t>> : k \in kinds}

Differs(O, P, t, S) ==
  /\ P \subseteq Things
  /\ Had(P, t) = S
  /\ \A x : x # t => Had(P, x) = Had(O, x)

LEMMA HadMore ==
  ASSUME NEW O, O \subseteq Things, NEW t \in Everyone, NEW kinds \in SUBSET Kinds,
         NEW P, P = O \cup Those(kinds, t), NEW S, S = Had(O, t) \cup kinds
  PROVE  Differs(O, P, t, S)
<1>1. P \subseteq Things
  BY DEF Things, Those
<1>2. \A k, x : <<k, x>> \in P <=> <<k, x>> \in O \/ (x = t /\ k \in kinds)
  BY DEF Those
<1>3. \A x, k : k \in Had(O, x) <=> <<k, x>> \in O
  BY HadIs
<1>4. Had(P, t) = S
  <2>1. \A k : <<k, t>> \in P <=> k \in S
    BY <1>2, <1>3
  <2> QED
    BY <1>1, <2>1, HadOf
<1>5. ASSUME NEW x, x # t PROVE Had(P, x) = Had(O, x)
  <2>1. \A k : <<k, x>> \in P <=> <<k, x>> \in O
    BY <1>2, <1>5
  <2> QED
    BY <1>1, <2>1, HadSame
<1> QED
  BY <1>1, <1>4, <1>5 DEF Differs

LEMMA HadLess ==
  ASSUME NEW O, O \subseteq Things, NEW t, NEW kinds,
         NEW P, P = O \ Those(kinds, t), NEW S, S = Had(O, t) \ kinds
  PROVE  Differs(O, P, t, S)
<1>1. P \subseteq Things
  OBVIOUS
<1>2. \A k, x : <<k, x>> \in P <=> <<k, x>> \in O /\ ~(x = t /\ k \in kinds)
  BY DEF Those
<1>3. \A x, k : k \in Had(O, x) <=> <<k, x>> \in O
  BY HadIs
<1>4. Had(P, t) = S
  <2>1. \A k : <<k, t>> \in P <=> k \in S
    BY <1>2, <1>3
  <2> QED
    BY <1>1, <2>1, HadOf
<1>5. ASSUME NEW x, x # t PROVE Had(P, x) = Had(O, x)
  <2>1. \A k : <<k, x>> \in P <=> <<k, x>> \in O
    BY <1>2, <1>5
  <2> QED
    BY <1>1, <2>1, HadSame
<1> QED
  BY <1>1, <1>4, <1>5 DEF Differs

(* What X have is dropped.                                                 *)
Without(O, X) == {o \in O : o[2] \notin X}

LEMMA HadGone ==
  ASSUME NEW O, O \subseteq Things, NEW X, NEW P, P = Without(O, X)
  PROVE  /\ P \subseteq Things
         /\ \A x \in X : Had(P, x) = {}
         /\ \A x : x \notin X => Had(P, x) = Had(O, x)
<1>1. P \subseteq Things
  BY DEF Without
<1>2. \A k, x : <<k, x>> \in P <=> <<k, x>> \in O /\ x \notin X
  BY DEF Without
<1>3. \A x, k : k \in Had(O, x) <=> <<k, x>> \in O
  BY HadIs
<1>4. ASSUME NEW x \in X PROVE Had(P, x) = {}
  <2>1. \A k : <<k, x>> \notin P
    BY <1>2
  <2> QED
    BY <1>1, <2>1, HadNothing
<1>5. ASSUME NEW x, x \notin X PROVE Had(P, x) = Had(O, x)
  <2>1. \A k : <<k, x>> \in P <=> <<k, x>> \in O
    BY <1>2, <1>5
  <2> QED
    BY <1>1, <2>1, HadSame
<1> QED
  BY <1>1, <1>4, <1>5

(* What t has goes to h, with more.                                        *)
HandedOver(O, t, h, more) ==
  {o \in O : o[2] # t} \cup {<<k, h>> : k \in Had(O, t)} \cup {<<k, h>> : k \in more}

Moved(O, P, t, h, more) ==
  /\ P \subseteq Things
  /\ Had(P, t) = {}
  /\ Had(P, h) = Had(O, t) \cup more
  /\ \A x : x # t /\ x # h => Had(P, x) = Had(O, x)

LEMMA HadHanded ==
  ASSUME NEW O, O \subseteq Things, NEW t \in Everyone, NEW h \in Everyone, t # h,
         NEW more \in SUBSET Kinds, Had(O, h) = {},
         NEW P, P = HandedOver(O, t, h, more)
  PROVE  Moved(O, P, t, h, more)
<1>1. \A x, k : k \in Had(O, x) <=> <<k, x>> \in O
  BY HadIs
<1>2. \A k : k \in Had(O, t) => k \in Kinds
  BY HadKinds
<1>3. P \subseteq Things
  BY <1>2 DEF Things, HandedOver
<1>4. \A k, x : <<k, x>> \in P <=> (<<k, x>> \in O /\ x # t) \/ (x = h /\ (k \in Had(O, t) \/ k \in more))
  BY DEF HandedOver
<1>5. Had(P, t) = {}
  <2>1. \A k : <<k, t>> \notin P
    BY <1>4
  <2> QED
    BY <1>3, <2>1, HadNothing
<1>6. Had(P, h) = Had(O, t) \cup more
  <2>1. PICK S : S = Had(O, t) \cup more
    OBVIOUS
  <2>2. \A k : <<k, h>> \in P <=> k \in S
    <3>1. \A k : <<k, h>> \notin O
      BY <1>1
    <3> QED
      BY <1>4, <2>1, <3>1
  <2>3. Had(P, h) = S
    BY <1>3, <2>2, HadOf
  <2> QED
    BY <2>1, <2>3
<1>7. ASSUME NEW x, x \notin {t, h} PROVE Had(P, x) = Had(O, x)
  <2>1. \A k : <<k, x>> \in P <=> <<k, x>> \in O
    BY <1>4, <1>7
  <2> QED
    BY <1>3, <2>1, HadSame
<1> QED
  BY <1>3, <1>5, <1>6, <1>7 DEF Moved

LEMMA AddressKinds ==
  /\ \A t \in Threads : t \notin Addresses /\ t \notin Devices /\ t \notin Queues
                        /\ t \notin Buffers /\ t \notin Runtimes
  /\ \A d \in Devices : d \notin Queues /\ d \notin Buffers /\ d \notin Runtimes
  /\ \A q \in Queues : q \notin Devices /\ q \notin Buffers /\ q \notin Runtimes
  /\ \A b \in Buffers : b \notin Devices /\ b \notin Queues /\ b \notin Runtimes
  /\ \A r \in Runtimes : r \notin Devices /\ r \notin Queues /\ r \notin Buffers
  /\ Gone \notin Devices
BY CHandlesAssumption DEF Addresses, Gone

LEMMA CallShapes ==
  ASSUME HandlesOK, NEW t \in Threads
  PROVE  /\ call[t] \in Calls
         /\ IsIdle(t) <=> call[t].pc = "idle"
         /\ ~IsIdle(t) => call[t].on \subseteq Addresses
         /\ call[t].pc = "listed" =>
              call[t] \in [pc : {"listed"}, on : SUBSET Addresses, list : {Listed(s) : s \in ShownLists}, index : Nat]
         /\ call[t].pc \in {"opened", "pooled"} =>
              call[t] \in [pc : {"opened", "pooled"}, on : SUBSET Addresses, info : Infos, card : Infos]
         /\ call[t].pc = "streamed" => call[t] \in [pc : {"streamed"}, on : SUBSET Addresses, of : Devices]
         /\ call[t].pc = "allocated" =>
              call[t] \in [pc : {"allocated"}, on : SUBSET Addresses, of : Devices, size : Nat]
         /\ call[t].pc = "computing" => call[t] \in [pc : {"computing"}, on : SUBSET Addresses]
         /\ call[t].pc = "runtime" => call[t] \in [pc : {"runtime"}, on : SUBSET Addresses, wants : Preferences]
<1>1. call[t] \in Calls
  BY DEF HandlesOK
<1> QED
  BY <1>1 DEF Calls, IsIdle, Idle

LEMMA HeldExactly ==
  ASSUME HandlesInv, NEW x \in Everyone
  PROVE  Had(owned, x) = HeldBy(x)
BY DEF HandlesInv, OwnedExactly, Everyone, Addresses, Had, Owns

LEMMA NewShapes ==
  ASSUME HandlesOK, NEW t \in Threads, NEW h \in New(t)
  PROVE  ~IsIdle(t) /\ h \in call[t].on /\ h \in Addresses
BY CallShapes DEF New, NewIn, MadeBy

(* A step of a call that changes no handle.                                *)
LEMMA CallStep ==
  ASSUME HandlesInv, NEW t \in Threads, NEW c \in Calls, call' = [call EXCEPT ![t] = c],
         UNCHANGED handles,
         owned' \subseteq Things, Had(owned', t) = HeldAt(c.pc),
         \A x : x # t => Had(owned', x) = Had(owned, x),
         c # Idle => \A h \in c.on : \A u \in Threads \ {t} : h \notin New(u),
         \A h \in NewIn(c) : ~Alive(h) /\ \A u \in Threads \ {t} : ~IsIdle(u) => h \notin call[u].on,
         c.pc \in {"opened", "pooled"} => c.card = c.info,
         OnlyNormOverruns'
  PROVE  HandlesInv'
<1>1. /\ device' = device /\ queue' = queue /\ buffer' = buffer /\ runtime' = runtime
      /\ \A h : Alive(h)' <=> Alive(h)
  BY DEF handles, Alive
<1>2. call \in [Threads -> Calls]
  BY DEF HandlesInv, HandlesOK
<1>3. call'[t] = c /\ \A u \in Threads : u # t => call'[u] = call[u]
  BY <1>2
<1>4. HandlesOK'
  <2>1. call' \in [Threads -> Calls]
    BY <1>2
  <2>2. HandleTypes'
    BY <1>1 DEF HandlesInv, HandlesOK, HandleTypes
  <2> QED
    BY <2>1, <2>2 DEF HandlesOK, Things, Everyone, Addresses
<1>5. NewInv'
  <2> SUFFICES ASSUME NEW v \in Threads, NEW h \in NewIn(call'[v]), NEW u \in Threads
               PROVE  ~Alive(h) /\ (u # v /\ call'[u] # Idle => h \notin call'[u].on)
    BY <1>1 DEF NewInv, New, IsIdle
  <2>1. NewInv /\ HandlesOK
    BY DEF HandlesInv
  <2>2. CASE v = t
    BY <1>3, <2>2 DEF IsIdle
  <2>3. CASE v # t
    <3>1. h \in New(v)
      BY <1>3, <2>3 DEF New
    <3>2. ~Alive(h) /\ \A w \in Threads \ {v} : ~IsIdle(w) => h \notin call[w].on
      BY <2>1, <3>1 DEF NewInv
    <3>3. CASE u = t
      BY <1>3, <2>3, <3>1, <3>2, <3>3
    <3>4. CASE u # t
      BY <1>3, <3>2, <3>4 DEF IsIdle
    <3> QED
      BY <3>3, <3>4
  <2> QED
    BY <2>2, <2>3
<1>6. OwnedExactly'
  <2>1. ASSUME NEW x \in Everyone PROVE Had(owned', x) = HeldBy(x)'
    <3>1. CASE x = t
      BY <1>3, <3>1 DEF HeldBy
    <3>2. CASE x # t
      <4>1. HeldBy(x)' = HeldBy(x)
        BY <1>1, <1>3, <3>2 DEF HeldBy
      <4> QED
        BY <3>2, <4>1, HeldExactly
    <3> QED
      BY <3>1, <3>2
  <2> QED
    BY <2>1 DEF OwnedExactly, Everyone, Addresses, Had, Owns
<1>7. OpenedInv'
  BY <1>3 DEF HandlesInv, OpenedInv
<1>8. RunsOnWhatIsTold'
  BY <1>1 DEF HandlesInv, RunsOnWhatIsTold
<1> QED
  BY <1>4, <1>5, <1>6, <1>7, <1>8 DEF HandlesInv

HandsOver(t, h, more) == owned' = (owned \ Owns(t)) \cup Hands(t, h) \cup {<<k, h>> : k \in more}

(* A call gives the handle it has made.                                    *)
LEMMA GiveStep ==
  ASSUME HandlesInv, NEW t \in Threads, NEW h \in New(t), NEW more \in SUBSET Kinds,
         call' = [call EXCEPT ![t] = Idle],
         HandsOver(t, h, more),
         HandleTypes',
         \A g \in Addresses : g # h => (Alive(g)' <=> Alive(g)) /\ HeldBy(g)' = HeldBy(g),
         HeldBy(h)' = HeldAt(call[t].pc) \cup more,
         RunsOnWhatIsTold', overran' = overran
  PROVE  HandlesInv'
<1>1. HandlesOK /\ NewInv /\ owned \subseteq Things /\ call \in [Threads -> Calls]
  BY DEF HandlesInv, HandlesOK
<1>2. /\ ~IsIdle(t) /\ h \in call[t].on /\ h \in Addresses /\ h \in Everyone /\ t \in Everyone
      /\ t # h /\ ~Alive(h) /\ h \notin Threads
  BY <1>1, NewShapes, AddressKinds DEF NewInv, Everyone
<1>3. call'[t] = Idle /\ \A u \in Threads : u # t => call'[u] = call[u]
  BY <1>1
<1>4. /\ owned' \subseteq Things
      /\ Had(owned', t) = {}
      /\ Had(owned', h) = Had(owned, t) \cup more
      /\ \A x : x # t /\ x # h => Had(owned', x) = Had(owned, x)
  <2>1. Had(owned, h) = {}
    BY <1>2, HeldExactly DEF HeldBy
  <2>2. Hands(t, h) = {<<k, h>> : k \in Had(owned, t)}
    BY DEF Hands, Had, Owns
  <2>3. owned \ Owns(t) = {o \in owned : o[2] # t}
    BY DEF Owns
  <2>4. owned' = HandedOver(owned, t, h, more)
    BY <2>2, <2>3 DEF HandedOver, HandsOver
  <2>5. Moved(owned, owned', t, h, more)
    BY <1>1, <1>2, <2>1, <2>4, HadHanded
  <2> QED
    BY <2>5 DEF Moved
<1>5. HandlesOK'
  <2>1. call' \in [Threads -> Calls]
    BY <1>1 DEF Calls
  <2> QED
    BY <1>4, <2>1 DEF HandlesOK, Things, Everyone, Addresses
<1>6. NewInv'
  <2> SUFFICES ASSUME NEW v \in Threads, NEW g \in NewIn(call'[v]), NEW u \in Threads
               PROVE  ~Alive(g)' /\ (u # v /\ call'[u] # Idle => g \notin call'[u].on)
    BY DEF NewInv, New, IsIdle
  <2>1. v # t
    BY <1>3 DEF NewIn, MadeBy, Idle
  <2>2. g \in New(v)
    BY <1>3, <2>1 DEF New
  <2>3. ~Alive(g) /\ \A w \in Threads \ {v} : ~IsIdle(w) => g \notin call[w].on
    BY <1>1, <2>2 DEF NewInv
  <2>4. g # h /\ g \in Addresses
    BY <1>1, <1>2, <2>1, <2>2, <2>3, NewShapes
  <2> QED
    BY <1>3, <2>3, <2>4 DEF IsIdle
<1>7. OwnedExactly'
  <2>1. ASSUME NEW x \in Everyone PROVE Had(owned', x) = HeldBy(x)'
    <3>1. CASE x = t
      BY <1>3, <1>4, <3>1 DEF HeldBy, HeldAt, Idle
    <3>2. CASE x = h
      <4>1. Had(owned, t) = HeldAt(call[t].pc)
        BY <1>2, HeldExactly DEF HeldBy
      <4> QED
        BY <1>4, <3>2, <4>1
    <3>3. CASE x \in Threads \ {t}
      <4>1. HeldBy(x)' = HeldBy(x)
        BY <1>3, <3>3 DEF HeldBy
      <4> QED
        BY <1>2, <1>4, <3>3, <4>1, HeldExactly
    <3>4. CASE x \in Addresses \ {h}
      <4>1. x # t
        BY <3>4, AddressKinds
      <4> QED
        BY <1>4, <3>4, <4>1, HeldExactly
    <3> QED
      BY <3>1, <3>2, <3>3, <3>4 DEF Everyone
  <2> QED
    BY <2>1 DEF OwnedExactly, Everyone, Addresses, Had, Owns
<1>8. OpenedInv' /\ OnlyNormOverruns'
  BY <1>3 DEF HandlesInv, OpenedInv, OnlyNormOverruns, Idle
<1> QED
  BY <1>5, <1>6, <1>7, <1>8 DEF HandlesInv

(* Handles are destroyed, with what those in X have.                       *)
LEMMA DestroyStep ==
  ASSUME HandlesInv, NEW X \in SUBSET Addresses, call' = call, overran' = overran,
         owned' = Without(owned, X),
         HandleTypes',
         \A g \in Addresses : /\ Alive(g)' => Alive(g)
                              /\ HeldBy(g)' = IF g \in X THEN {} ELSE HeldBy(g),
         RunsOnWhatIsTold'
  PROVE  HandlesInv'
<1>1. HandlesOK /\ NewInv /\ owned \subseteq Things
  BY DEF HandlesInv, HandlesOK
<1>2. /\ owned' \subseteq Things
      /\ \A x \in X : Had(owned', x) = {}
      /\ \A x : x \notin X => Had(owned', x) = Had(owned, x)
  BY <1>1, HadGone
<1>3. HandlesOK'
  BY <1>1, <1>2 DEF HandlesOK, Things, Everyone, Addresses
<1>4. NewInv'
  <2>1. \A v \in Threads : \A h \in New(v) : h \in Addresses
    BY <1>1, NewShapes
  <2> QED
    BY <1>1, <2>1 DEF NewInv, New, IsIdle
<1>5. OwnedExactly'
  <2>1. ASSUME NEW x \in Everyone PROVE Had(owned', x) = HeldBy(x)'
    <3>1. CASE x \in Threads
      <4>1. HeldBy(x)' = HeldBy(x) /\ x \notin X
        BY <3>1, AddressKinds DEF HeldBy
      <4> QED
        BY <1>2, <4>1, HeldExactly
    <3>2. CASE x \in Addresses
      BY <1>2, <3>2, HeldExactly
    <3> QED
      BY <3>1, <3>2 DEF Everyone
  <2> QED
    BY <2>1 DEF OwnedExactly, Everyone, Addresses, Had, Owns
<1>6. OpenedInv' /\ OnlyNormOverruns'
  BY DEF HandlesInv, OpenedInv, OnlyNormOverruns
<1> QED
  BY <1>3, <1>4, <1>5, <1>6 DEF HandlesInv

(* Nobody makes a handle that is alive, or that nobody is inside a call on.*)
LEMMA NotNew ==
  ASSUME HandlesInv, NEW h, Alive(h) \/ Quiet(h), NEW u \in Threads
  PROVE  h \notin New(u)
<1>1. HandlesOK /\ NewInv
  BY DEF HandlesInv
<1>2. h \in New(u) => ~Alive(h) /\ ~IsIdle(u) /\ h \in call[u].on
  BY <1>1, NewShapes DEF NewInv
<1> QED
  BY <1>2 DEF Quiet

(* A step of an idle thread: it makes n, works on what is alive.           *)
LEMMA StartStep ==
  ASSUME HandlesInv, NEW t \in Threads, IsIdle(t), NEW kinds \in SUBSET Kinds, NEW c \in Calls,
         Makes(t, kinds, c), HeldAt(c.pc) = kinds,
         \A h \in c.on : Alive(h) \/ Free(h),
         \A h \in NewIn(c) : Free(h),
         c.pc \notin {"opened", "pooled"}
  PROVE  HandlesInv'
<1>1. HandlesOK /\ NewInv /\ owned \subseteq Things
  BY DEF HandlesInv, HandlesOK
<1>2. t \in Everyone
  BY DEF Everyone
<1>3. Had(owned, t) = {}
  BY <1>1, <1>2, CallShapes, HeldExactly DEF HeldBy, HeldAt
<1>4. /\ owned' = owned \cup Those(kinds, t)
      /\ call' = [call EXCEPT ![t] = c] /\ UNCHANGED handles /\ overran' = overran
  BY DEF Makes, Goes, Those
<1>5. Differs(owned, owned', t, kinds)
  BY <1>1, <1>2, <1>3, <1>4, HadMore
<1>6. /\ owned' \subseteq Things /\ Had(owned', t) = HeldAt(c.pc)
      /\ \A x : x # t => Had(owned', x) = Had(owned, x)
  BY <1>5 DEF Differs
<1>7. \A h \in c.on : \A u \in Threads \ {t} : h \notin New(u)
  BY NotNew DEF Free
<1>8. \A h \in NewIn(c) : ~Alive(h) /\ \A u \in Threads \ {t} : ~IsIdle(u) => h \notin call[u].on
  BY DEF Free, Quiet
<1>9. OnlyNormOverruns'
  BY <1>4 DEF HandlesInv, OnlyNormOverruns
<1> QED
  BY <1>4, <1>6, <1>7, <1>8, <1>9, CallStep

(* A call that is refused drops all it has made.                           *)
LEMMA RefusedStep ==
  ASSUME HandlesInv, NEW t \in Threads, NEW kinds, kinds = HeldAt(call[t].pc), FailsWithout(t, kinds)
  PROVE  HandlesInv'
<1>1. HandlesOK /\ NewInv /\ owned \subseteq Things /\ t \in Everyone
  BY DEF HandlesInv, HandlesOK, Everyone
<1>2. Had(owned, t) = kinds
  BY <1>1, HeldExactly DEF HeldBy
<1>3. /\ owned' = owned \ Those(kinds, t)
      /\ call' = [call EXCEPT ![t] = Idle] /\ UNCHANGED handles /\ overran' = overran
  BY DEF FailsWithout, Goes, Those
<1>4. Differs(owned, owned', t, {})
  BY <1>1, <1>2, <1>3, HadLess
<1>5. Idle \in Calls /\ HeldAt(Idle.pc) = {} /\ NewIn(Idle) = {} /\ Idle.pc \notin {"opened", "pooled"}
  BY DEF Calls, Idle, HeldAt, NewIn, MadeBy
<1>6. /\ owned' \subseteq Things /\ Had(owned', t) = HeldAt(Idle.pc)
      /\ \A x : x # t => Had(owned', x) = Had(owned, x)
  BY <1>4, <1>5 DEF Differs
<1>7. OnlyNormOverruns'
  BY <1>3 DEF HandlesInv, OnlyNormOverruns
<1> QED
  BY <1>3, <1>5, <1>6, <1>7, CallStep

(* A call that makes a handle goes on with more.                           *)
LEMMA FurtherStep ==
  ASSUME HandlesInv, NEW t \in Threads, ~IsIdle(t), NEW c \in Calls, call' = [call EXCEPT ![t] = c],
         c.on = call[t].on, MadeBy(c.pc) = MadeBy(call[t].pc),
         UNCHANGED <<handles, overran>>,
         owned' \subseteq Things, Had(owned', t) = HeldAt(c.pc),
         \A x : x # t => Had(owned', x) = Had(owned, x),
         c.pc \in {"opened", "pooled"} => c.card = c.info
  PROVE  HandlesInv'
<1>1. NewInv /\ NewIn(c) = New(t)
  BY DEF HandlesInv, New, NewIn
<1>2. \A h \in c.on : \A u \in Threads \ {t} : h \notin New(u)
  BY <1>1 DEF NewInv
<1>3. \A h \in NewIn(c) : ~Alive(h) /\ \A u \in Threads \ {t} : ~IsIdle(u) => h \notin call[u].on
  BY <1>1 DEF NewInv
<1>4. OnlyNormOverruns'
  BY DEF HandlesInv, OnlyNormOverruns
<1> QED
  BY <1>2, <1>3, <1>4, CallStep

-----------------------------------------------------------------------------
(* The two lists of a manager, and what is looked up in them.              *)
LEMMA ListFacts ==
  ASSUME NEW shown \in ShownLists
  PROVE  LET l == Listed(shown) IN
         /\ l.devices \in Seq(Infos)
         /\ \A i \in Nat : i < Count(l) /\ HasAdapter(l, i) =>
              Info(l, i) \in Infos /\ OpenedOn(l, i) = Info(l, i)
         /\ \A p \in Preferences :
              /\ Selected(l, p) \in {"cpu", "hip", "dx12"}
              /\ Selected(l, p) = "dx12" => Len(l.devices) > 1
              /\ Selected(l, p) = "hip" => p = "hip"
<1>1. PICK k : k = Kept(shown) /\ k \in Seq(Cards) /\ Len(k) \in Nat
  BY KeptCards
<1>2. PICK ds : ds = Append(k, NoCard)
  OBVIOUS
<1>3. k \in Seq(Infos)
  BY <1>1 DEF Infos
<1>4. /\ ds \in Seq(Infos) /\ Len(ds) = Len(k) + 1 /\ ds[Len(k) + 1] = NoCard
      /\ \A i \in 1 .. Len(k) : ds[i] = k[i] /\ k[i] \in Cards
  BY <1>1, <1>2, <1>3 DEF Infos
<1>0. PICK l : l = Listed(shown)
  OBVIOUS
<1>5. l.devices = ds /\ l.adapters = k
  BY <1>0, <1>1, <1>2 DEF Listed
<1>6. ASSUME NEW i \in Nat, i < Count(l), HasAdapter(l, i)
      PROVE  Info(l, i) \in Infos /\ OpenedOn(l, i) = Info(l, i)
  <2>1. i + 1 \in 1 .. Len(ds) /\ Info(l, i) = ds[i + 1] /\ ds[i + 1] \in Infos
    BY <1>1, <1>4, <1>5, <1>6 DEF Count, Info
  <2>2. CASE Info(l, i) = NoCard
    BY <2>1, <2>2 DEF OpenedOn, IsDx12
  <2>3. CASE Info(l, i) # NoCard
    <3>1. i < Len(k)
      BY <1>5, <1>6, <2>3 DEF HasAdapter, IsDx12
    <3>2. i + 1 \in 1 .. Len(k)
      BY <1>1, <3>1
    <3> QED
      BY <1>4, <1>5, <2>1, <2>3, <3>2 DEF OpenedOn, IsDx12
  <2> QED
    BY <2>2, <2>3
<1>7. ASSUME NEW p \in Preferences
      PROVE  /\ Selected(l, p) \in {"cpu", "hip", "dx12"}
             /\ Selected(l, p) = "dx12" => Len(ds) > 1
             /\ Selected(l, p) = "hip" => p = "hip"
  <2>1. CASE p \in {"cpu", "hip"}
    BY <2>1 DEF Selected
  <2>2. CASE p \notin {"cpu", "hip"} /\ \E i \in 1 .. Len(l.devices) : IsDx12(l.devices[i])
    <3>1. PICK i \in 1 .. Len(ds) : ds[i] # NoCard
      BY <1>5, <2>2 DEF IsDx12
    <3>2. Len(ds) > 1
      BY <1>1, <1>4, <3>1
    <3> QED
      BY <2>2, <3>2 DEF Selected
  <2>3. CASE p \notin {"cpu", "hip"} /\ ~ \E i \in 1 .. Len(l.devices) : IsDx12(l.devices[i])
    BY <2>3 DEF Selected
  <2> QED
    BY <2>1, <2>2, <2>3
<1> QED
  BY <1>0, <1>4, <1>5, <1>6, <1>7

-----------------------------------------------------------------------------
(* Calls that begin.                                                       *)
LEMMA ListStarts ==
  ASSUME HandlesInv, NEW t \in Threads, NEW d \in Devices, NEW shown \in ShownLists,
         NEW i \in 0 .. Len(shown) + 1, ListDevices(t, d, i, shown)
  PROVE  HandlesInv'
<1>1. PICK l : l = Listed(shown)
  OBVIOUS
<1>2. PICK c : c = [pc |-> "listed", on |-> {d}, list |-> l, index |-> i]
  OBVIOUS
<1>3. i \in Nat /\ d \in Addresses
  BY CHandlesAssumption DEF Addresses
<1>4. c \in Calls /\ c.pc = "listed" /\ c.on = {d}
  BY <1>1, <1>2, <1>3 DEF Calls
<1>5. Makes(t, {"manager"}, c) /\ IsIdle(t) /\ Free(d)
  BY <1>1, <1>2 DEF ListDevices
<1>6. HeldAt(c.pc) = {"manager"} /\ {"manager"} \in SUBSET Kinds
  BY <1>4 DEF HeldAt, Kinds
<1>7. \A h \in NewIn(c) : Free(h)
  BY <1>4, <1>5 DEF NewIn
<1> QED
  BY <1>4, <1>5, <1>6, <1>7, StartStep

LEMMA StreamStarts ==
  ASSUME HandlesInv, NEW t \in Threads, NEW d \in Devices, NEW q \in Queues, MakeStream(t, d, q)
  PROVE  HandlesInv'
<1>1. PICK c : c = [pc |-> "streamed", on |-> {d, q}, of |-> d]
  OBVIOUS
<1>2. c \in Calls /\ c.pc = "streamed" /\ c.on = {d, q}
  BY <1>1 DEF Calls, Addresses
<1>3. Makes(t, {"stream"}, c) /\ IsIdle(t) /\ Alive(d) /\ Free(q)
  BY <1>1 DEF MakeStream
<1>4. HeldAt(c.pc) = {"stream"} /\ {"stream"} \in SUBSET Kinds
  BY <1>2 DEF HeldAt, Kinds
<1>5. \A h \in NewIn(c) : h = q
  BY <1>2, AddressKinds DEF NewIn, MadeBy
<1> QED
  BY <1>2, <1>3, <1>4, <1>5, StartStep

LEMMA AllocationStarts ==
  ASSUME HandlesInv, NEW t \in Threads, NEW d \in Devices, NEW b \in Buffers, NEW size \in Sizes,
         Allocate(t, d, b, size)
  PROVE  HandlesInv'
<1>1. PICK c : c = [pc |-> "allocated", on |-> {d, b}, of |-> d, size |-> size]
  OBVIOUS
<1>2. c \in Calls /\ c.pc = "allocated" /\ c.on = {d, b}
  BY <1>1, CHandlesAssumption DEF Calls, Addresses
<1>3. Makes(t, {"allocation"}, c) /\ IsIdle(t) /\ Alive(d) /\ Free(b)
  BY <1>1 DEF Allocate
<1>4. HeldAt(c.pc) = {"allocation"} /\ {"allocation"} \in SUBSET Kinds
  BY <1>2 DEF HeldAt, Kinds
<1>5. \A h \in NewIn(c) : h = b
  BY <1>2, AddressKinds DEF NewIn, MadeBy
<1> QED
  BY <1>2, <1>3, <1>4, <1>5, StartStep

LEMMA RuntimeStarts ==
  ASSUME HandlesInv, NEW t \in Threads, NEW r \in Runtimes, NEW p \in Preferences, MakeRuntime(t, r, p)
  PROVE  HandlesInv'
<1>1. PICK c : c = [pc |-> "runtime", on |-> {r}, wants |-> p]
  OBVIOUS
<1>2. c \in Calls /\ c.pc = "runtime" /\ c.on = {r}
  BY <1>1 DEF Calls, Addresses
<1>3. Makes(t, {"logger"}, c) /\ IsIdle(t) /\ Free(r)
  BY <1>1 DEF MakeRuntime
<1>4. HeldAt(c.pc) = {"logger"} /\ {"logger"} \in SUBSET Kinds
  BY <1>2 DEF HeldAt, Kinds
<1>5. \A h \in NewIn(c) : h = r
  BY <1>2 DEF NewIn
<1> QED
  BY <1>2, <1>3, <1>4, <1>5, StartStep

(* Calls that are refused.                                                 *)
LEMMA Refused ==
  ASSUME HandlesInv, NEW t \in Threads,
         \/ OpenRefused(t) \/ PoolRefused(t) \/ DeviceRefused(t) \/ QueueRefused(t)
         \/ BufferRefused(t) \/ RuntimeRefused(t)
  PROVE  HandlesInv'
<1>1. CASE OpenRefused(t)
  <2>1. HeldAt(call[t].pc) = {"manager"} /\ FailsWithout(t, {"manager"})
    BY <1>1 DEF OpenRefused, HeldAt
  <2> QED
    BY <2>1, RefusedStep
<1>2. CASE PoolRefused(t)
  <2>1. HeldAt(call[t].pc) = {"execution"} /\ FailsWithout(t, {"execution"})
    BY <1>2 DEF PoolRefused, HeldAt
  <2> QED
    BY <2>1, RefusedStep
<1>3. CASE DeviceRefused(t)
  <2>1. HeldAt(call[t].pc) = {"pool", "execution"} /\ FailsWithout(t, {"pool", "execution"})
    BY <1>3 DEF DeviceRefused, HeldAt
  <2> QED
    BY <2>1, RefusedStep
<1>4. CASE QueueRefused(t)
  <2>1. HeldAt(call[t].pc) = {"stream"} /\ FailsWithout(t, {"stream"})
    BY <1>4 DEF QueueRefused, HeldAt
  <2> QED
    BY <2>1, RefusedStep
<1>5. CASE BufferRefused(t)
  <2>1. HeldAt(call[t].pc) = {"allocation"} /\ FailsWithout(t, {"allocation"})
    BY <1>5 DEF BufferRefused, HeldAt
  <2> QED
    BY <2>1, RefusedStep
<1>6. CASE RuntimeRefused(t)
  <2>1. HeldAt(call[t].pc) = {"logger"} /\ FailsWithout(t, {"logger"})
    BY <1>6 DEF RuntimeRefused, HeldAt
  <2> QED
    BY <2>1, RefusedStep
<1> QED
  BY <1>1, <1>2, <1>3, <1>4, <1>5, <1>6

(* Calls that go on.                                                       *)
LEMMA DeviceOpens ==
  ASSUME HandlesInv, NEW t \in Threads, OpenDevice(t)
  PROVE  HandlesInv'
<1>1. HandlesOK /\ owned \subseteq Things /\ t \in Everyone /\ call[t].pc = "listed"
  BY DEF HandlesInv, HandlesOK, Everyone, OpenDevice
<1>2. call[t].on \in SUBSET Addresses /\ call[t].list \in {Listed(s) : s \in ShownLists} /\ call[t].index \in Nat
  BY <1>1, CallShapes
<1>3. PICK shown \in ShownLists : call[t].list = Listed(shown)
  BY <1>2
<1>4. PICK l, i : l = call[t].list /\ i = call[t].index
  OBVIOUS
<1>5. i < Count(l) /\ HasAdapter(l, i)
  BY <1>4 DEF OpenDevice
<1>6. Info(l, i) \in Infos /\ OpenedOn(l, i) = Info(l, i)
  BY <1>2, <1>3, <1>4, <1>5, ListFacts
<1>7. PICK c : c = [pc |-> "opened", on |-> call[t].on, info |-> Info(l, i), card |-> OpenedOn(l, i)]
  OBVIOUS
<1>8. c \in Calls /\ c.pc = "opened" /\ c.on = call[t].on /\ c.card = c.info
  BY <1>2, <1>6, <1>7 DEF Calls
<1>9. /\ call' = [call EXCEPT ![t] = c] /\ UNCHANGED <<handles, overran>>
      /\ owned' = (owned \ Owns(t)) \cup {<<"execution", t>>}
  BY <1>4, <1>7 DEF OpenDevice, Goes
<1>10. PICK X, P : X = {t} /\ P = Without(owned, X)
  OBVIOUS
<1>11. P \subseteq Things /\ Had(P, t) = {} /\ \A x : x # t => Had(P, x) = Had(owned, x)
  <2>1. P \subseteq Things
    BY <1>1, <1>10, HadGone
  <2>2. \A x \in X : Had(P, x) = {}
    BY <1>1, <1>10, HadGone
  <2>3. \A x : x \notin X => Had(P, x) = Had(owned, x)
    BY <1>1, <1>10, HadGone
  <2> QED
    BY <1>10, <2>1, <2>2, <2>3
<1>12. owned' = P \cup Those({"execution"}, t)
  BY <1>9, <1>10 DEF Without, Owns, Those
<1>13. {"execution"} \in SUBSET Kinds /\ HeldAt(c.pc) = {"execution"} /\ MadeBy(c.pc) = MadeBy(call[t].pc)
  BY <1>1, <1>8 DEF Kinds, HeldAt, MadeBy
<1>14. Differs(P, owned', t, {"execution"})
  BY <1>1, <1>11, <1>12, <1>13, HadMore
<1>15. /\ owned' \subseteq Things /\ Had(owned', t) = HeldAt(c.pc)
       /\ \A x : x # t => Had(owned', x) = Had(owned, x)
  BY <1>11, <1>13, <1>14 DEF Differs
<1>16. ~IsIdle(t)
  BY <1>1, CallShapes
<1> QED
  BY <1>8, <1>9, <1>13, <1>15, <1>16, FurtherStep

LEMMA PoolIsMade ==
  ASSUME HandlesInv, NEW t \in Threads, MakePool(t)
  PROVE  HandlesInv'
<1>1. HandlesOK /\ OpenedInv /\ owned \subseteq Things /\ t \in Everyone /\ call[t].pc = "opened"
  BY DEF HandlesInv, HandlesOK, Everyone, MakePool
<1>2. call[t] \in [pc : {"opened", "pooled"}, on : SUBSET Addresses, info : Infos, card : Infos]
  BY <1>1, CallShapes
<1>3. PICK c : c = [call[t] EXCEPT !.pc = "pooled"]
  OBVIOUS
<1>4. /\ c \in [pc : {"opened", "pooled"}, on : SUBSET Addresses, info : Infos, card : Infos]
      /\ c.pc = "pooled" /\ c.on = call[t].on /\ c.card = call[t].card /\ c.info = call[t].info
  BY <1>2, <1>3
<1>5. c \in Calls /\ c.card = c.info
  BY <1>1, <1>4 DEF Calls, OpenedInv
<1>6. /\ call' = [call EXCEPT ![t] = c] /\ UNCHANGED <<handles, overran>>
      /\ owned' = owned \cup Those({"pool"}, t)
  BY <1>3 DEF MakePool, Makes, Goes, Those
<1>7. {"pool"} \in SUBSET Kinds /\ MadeBy(c.pc) = MadeBy(call[t].pc)
  BY <1>1, <1>4 DEF Kinds, MadeBy
<1>8. HeldAt(c.pc) = Had(owned, t) \cup {"pool"}
  <2>1. Had(owned, t) = {"execution"}
    BY <1>1, HeldExactly DEF HeldBy, HeldAt
  <2> QED
    BY <1>4, <2>1 DEF HeldAt
<1>9. Differs(owned, owned', t, HeldAt(c.pc))
  BY <1>1, <1>6, <1>7, <1>8, HadMore
<1>10. /\ owned' \subseteq Things /\ Had(owned', t) = HeldAt(c.pc)
       /\ \A x : x # t => Had(owned', x) = Had(owned, x)
  BY <1>9 DEF Differs
<1>11. ~IsIdle(t)
  BY <1>1, CallShapes
<1> QED
  BY <1>4, <1>5, <1>6, <1>7, <1>10, <1>11, FurtherStep

(* Calls that give the handle they have made.                              *)
LEMMA DeviceIsGiven ==
  ASSUME HandlesInv, NEW t \in Threads, GiveDevice(t)
  PROVE  HandlesInv'
<1>1. /\ HandlesOK /\ OpenedInv /\ RunsOnWhatIsTold /\ HandleTypes
      /\ call[t].pc = "pooled"
  BY DEF HandlesInv, HandlesOK, GiveDevice
<1>2. PICK d \in Devices :
        /\ d \in call[t].on
        /\ device' = [device EXCEPT ![d] = [info |-> call[t].info, card |-> call[t].card]]
        /\ Gives(t, d)
        /\ UNCHANGED <<queue, buffer, runtime>>
  BY DEF GiveDevice
<1>3. call[t].info \in Infos /\ call[t].card \in Infos /\ call[t].card = call[t].info
  BY <1>1, CallShapes DEF OpenedInv
<1>4. PICK n : n = [info |-> call[t].info, card |-> call[t].card]
  OBVIOUS
<1>5. n \in [info : Infos, card : Infos] /\ n # Absent /\ n.card = n.info
  BY <1>3, <1>4 DEF Absent
<1>6. device \in [Devices -> {Absent} \cup [info : Infos, card : Infos]]
  BY <1>1 DEF HandleTypes
<1>7. device'[d] = n /\ \A g \in Devices : g # d => device'[g] = device[g]
  BY <1>2, <1>4, <1>6
<1>8. HandleTypes'
  <2>1. device' \in [Devices -> {Absent} \cup [info : Infos, card : Infos]]
    BY <1>2, <1>4, <1>5, <1>6
  <2> QED
    BY <1>1, <1>2, <2>1 DEF HandleTypes
<1>9. \A g \in Addresses : g # d => (Alive(g)' <=> Alive(g)) /\ HeldBy(g)' = HeldBy(g)
  <2>1. \A g \in Addresses : g # d => (Alive(g)' <=> Alive(g))
    BY <1>2, <1>7 DEF Alive
  <2> QED
    BY <1>2, <2>1, AddressKinds DEF HeldBy
<1>10. HeldBy(d)' = HeldAt(call[t].pc) \cup {}
  <2>1. Alive(d)'
    BY <1>5, <1>7 DEF Alive
  <2> QED
    BY <1>1, <2>1, AddressKinds DEF HeldBy, HeldAt
<1>11. d \in New(t)
  BY <1>1, <1>2 DEF New, NewIn, MadeBy, Addresses
<1>12. RunsOnWhatIsTold'
  BY <1>1, <1>2, <1>5, <1>7, AddressKinds DEF RunsOnWhatIsTold, Alive
<1>13. /\ call' = [call EXCEPT ![t] = Idle] /\ overran' = overran
       /\ HandsOver(t, d, {}) /\ {} \in SUBSET Kinds
  BY <1>2 DEF Gives, Goes, HandsOver
<1> QED
  BY <1>8, <1>9, <1>10, <1>11, <1>12, <1>13, GiveStep

LEMMA QueueIsGiven ==
  ASSUME HandlesInv, NEW t \in Threads, GiveQueue(t)
  PROVE  HandlesInv'
<1>1. /\ HandlesOK /\ RunsOnWhatIsTold /\ HandleTypes /\ call[t].pc = "streamed"
  BY DEF HandlesInv, HandlesOK, GiveQueue
<1>2. PICK q \in Queues :
        /\ q \in call[t].on
        /\ queue' = [queue EXCEPT ![q] = [of |-> call[t].of]]
        /\ Gives(t, q)
        /\ UNCHANGED <<device, buffer, runtime>>
  BY DEF GiveQueue
<1>3. call[t].of \in Devices
  BY <1>1, CallShapes
<1>4. PICK n : n = [of |-> call[t].of]
  OBVIOUS
<1>5. n \in [of : Devices \cup {Gone}] /\ n # Absent
  BY <1>3, <1>4 DEF Absent
<1>6. queue \in [Queues -> {Absent} \cup [of : Devices \cup {Gone}]]
  BY <1>1 DEF HandleTypes
<1>7. queue'[q] = n /\ \A g \in Queues : g # q => queue'[g] = queue[g]
  BY <1>2, <1>4, <1>6
<1>8. HandleTypes'
  <2>1. queue' \in [Queues -> {Absent} \cup [of : Devices \cup {Gone}]]
    BY <1>2, <1>4, <1>5, <1>6
  <2> QED
    BY <1>1, <1>2, <2>1 DEF HandleTypes
<1>9. \A g \in Addresses : g # q => (Alive(g)' <=> Alive(g)) /\ HeldBy(g)' = HeldBy(g)
  <2>1. \A g \in Addresses : g # q => (Alive(g)' <=> Alive(g))
    BY <1>2, <1>7 DEF Alive
  <2> QED
    BY <1>2, <2>1, AddressKinds DEF HeldBy
<1>10. HeldBy(q)' = HeldAt(call[t].pc) \cup {}
  <2>1. Alive(q)'
    BY <1>5, <1>7 DEF Alive
  <2> QED
    BY <1>1, <2>1, AddressKinds DEF HeldBy, HeldAt
<1>11. q \in New(t)
  BY <1>1, <1>2 DEF New, NewIn, MadeBy, Addresses
<1>12. RunsOnWhatIsTold'
  BY <1>1, <1>2, AddressKinds DEF RunsOnWhatIsTold, Alive
<1>13. /\ call' = [call EXCEPT ![t] = Idle] /\ overran' = overran
       /\ HandsOver(t, q, {}) /\ {} \in SUBSET Kinds
  BY <1>2 DEF Gives, Goes, HandsOver
<1> QED
  BY <1>8, <1>9, <1>10, <1>11, <1>12, <1>13, GiveStep

LEMMA BufferIsGiven ==
  ASSUME HandlesInv, NEW t \in Threads, GiveBuffer(t)
  PROVE  HandlesInv'
<1>1. /\ HandlesOK /\ RunsOnWhatIsTold /\ HandleTypes /\ call[t].pc = "allocated"
  BY DEF HandlesInv, HandlesOK, GiveBuffer
<1>2. PICK b \in Buffers :
        /\ b \in call[t].on
        /\ buffer' = [buffer EXCEPT ![b] = [of |-> call[t].of, size |-> call[t].size]]
        /\ Gives(t, b)
        /\ UNCHANGED <<device, queue, runtime>>
  BY DEF GiveBuffer
<1>3. call[t].of \in Devices /\ call[t].size \in Nat
  BY <1>1, CallShapes
<1>4. PICK n : n = [of |-> call[t].of, size |-> call[t].size]
  OBVIOUS
<1>5. n \in [of : Devices \cup {Gone}, size : Nat] /\ n # Absent /\ n.of # Gone
  BY <1>3, <1>4, AddressKinds DEF Absent
<1>6. buffer \in [Buffers -> {Absent} \cup [of : Devices \cup {Gone}, size : Nat]]
  BY <1>1 DEF HandleTypes
<1>7. buffer'[b] = n /\ \A g \in Buffers : g # b => buffer'[g] = buffer[g]
  BY <1>2, <1>4, <1>6
<1>8. HandleTypes'
  <2>1. buffer' \in [Buffers -> {Absent} \cup [of : Devices \cup {Gone}, size : Nat]]
    BY <1>2, <1>4, <1>5, <1>6
  <2> QED
    BY <1>1, <1>2, <2>1 DEF HandleTypes
<1>9. \A g \in Addresses : g # b => (Alive(g)' <=> Alive(g)) /\ HeldBy(g)' = HeldBy(g)
  <2>1. \A g \in Addresses : g # b => (Alive(g)' <=> Alive(g))
    BY <1>2, <1>7 DEF Alive
  <2> QED
    BY <1>2, <1>7, <2>1, AddressKinds DEF HeldBy, Addresses
<1>10. HeldBy(b)' = HeldAt(call[t].pc) \cup {}
  <2>1. Alive(b)'
    BY <1>5, <1>7 DEF Alive
  <2> QED
    BY <1>1, <1>5, <1>7, <2>1, AddressKinds DEF HeldBy, HeldAt
<1>11. b \in New(t)
  BY <1>1, <1>2 DEF New, NewIn, MadeBy, Addresses
<1>12. RunsOnWhatIsTold'
  BY <1>1, <1>2, AddressKinds DEF RunsOnWhatIsTold, Alive
<1>13. /\ call' = [call EXCEPT ![t] = Idle] /\ overran' = overran
       /\ HandsOver(t, b, {}) /\ {} \in SUBSET Kinds
  BY <1>2 DEF Gives, Goes, HandsOver
<1> QED
  BY <1>8, <1>9, <1>10, <1>11, <1>12, <1>13, GiveStep

LEMMA RuntimeIsGiven ==
  ASSUME HandlesInv, NEW t \in Threads, NEW shown \in ShownLists, GiveRuntime(t, shown)
  PROVE  HandlesInv'
<1>1. /\ HandlesOK /\ RunsOnWhatIsTold /\ HandleTypes /\ call[t].pc = "runtime"
  BY DEF HandlesInv, HandlesOK, GiveRuntime
<1>2. PICK l, p : l = Listed(shown) /\ p = call[t].wants
  OBVIOUS
<1>3. p \in Preferences
  BY <1>1, <1>2, CallShapes
<1>4. PICK n : n = [backend |-> Selected(l, p), devices |-> l.devices, wants |-> p]
  OBVIOUS
<1>5. PICK r \in Runtimes :
        /\ r \in call[t].on
        /\ runtime' = [runtime EXCEPT ![r] = n]
        /\ owned' = (owned \ Owns(t)) \cup Hands(t, r) \cup {<<"manager", r>>}
        /\ Goes(t, Idle)
        /\ UNCHANGED <<device, queue, buffer, overran>>
  BY <1>2, <1>4 DEF GiveRuntime
<1>6. /\ n \in [backend : {"cpu", "hip", "dx12"}, devices : Seq(Infos), wants : Preferences]
      /\ n # Absent
      /\ n.backend = "dx12" => Len(n.devices) > 1
      /\ n.backend = "hip" => n.wants = "hip"
  <2>1. /\ l.devices \in Seq(Infos) /\ Selected(l, p) \in {"cpu", "hip", "dx12"}
        /\ Selected(l, p) = "dx12" => Len(l.devices) > 1
        /\ Selected(l, p) = "hip" => p = "hip"
    BY <1>2, <1>3, ListFacts
  <2> HIDE DEF Selected
  <2> QED
    BY <1>3, <1>4, <2>1 DEF Absent
<1>7. runtime \in [Runtimes -> {Absent} \cup [backend : {"cpu", "hip", "dx12"},
                                             devices : Seq(Infos), wants : Preferences]]
  BY <1>1 DEF HandleTypes
<1>8. runtime'[r] = n /\ \A g \in Runtimes : g # r => runtime'[g] = runtime[g]
  BY <1>5, <1>7
<1>9. HandleTypes'
  <2>1. runtime' \in [Runtimes -> {Absent} \cup [backend : {"cpu", "hip", "dx12"},
                                                devices : Seq(Infos), wants : Preferences]]
    BY <1>5, <1>6, <1>7
  <2> QED
    BY <1>1, <1>5, <2>1 DEF HandleTypes
<1>10. \A g \in Addresses : g # r => (Alive(g)' <=> Alive(g)) /\ HeldBy(g)' = HeldBy(g)
  <2>1. \A g \in Addresses : g # r => (Alive(g)' <=> Alive(g))
    BY <1>5, <1>8 DEF Alive
  <2> QED
    BY <1>5, <2>1, AddressKinds DEF HeldBy
<1>11. HeldBy(r)' = HeldAt(call[t].pc) \cup {"manager"}
  <2>1. Alive(r)'
    BY <1>6, <1>8 DEF Alive
  <2> QED
    BY <1>1, <2>1, AddressKinds DEF HeldBy, HeldAt
<1>12. r \in New(t)
  BY <1>1, <1>5 DEF New, NewIn, MadeBy, Addresses
<1>13. RunsOnWhatIsTold'
  BY <1>1, <1>5, <1>6, <1>8, AddressKinds DEF RunsOnWhatIsTold, Alive
<1>14. PICK more : more = {"manager"}
  OBVIOUS
<1>15. /\ call' = [call EXCEPT ![t] = Idle] /\ overran' = overran
       /\ HandsOver(t, r, more) /\ more \in SUBSET Kinds
  BY <1>5, <1>14 DEF Goes, HandsOver, Kinds
<1> QED
  BY <1>9, <1>10, <1>11, <1>12, <1>13, <1>14, <1>15, GiveStep

(* Handles that are destroyed.  Of a device, what its buffers have goes,   *)
(* too; of anything else, only what it has.                                *)
LEMMA DeviceGoes ==
  ASSUME HandlesInv, NEW t \in Threads, NEW d \in Devices, DestroyDevice(t, d)
  PROVE  HandlesInv'
<1>1. /\ HandlesOK /\ HandleTypes /\ RunsOnWhatIsTold /\ owned \subseteq Things
      /\ d \in Addresses /\ d \in Everyone
  BY DEF HandlesInv, HandlesOK, Addresses, Everyone
<1>2. PICK B : B = {b \in Buffers : Alive(b) /\ buffer[b].of = d}
  OBVIOUS
<1>3. /\ Alive(d)
      /\ owned' = owned \ (Owns(d) \cup {<<"allocation", b>> : b \in B})
      /\ device' = [device EXCEPT ![d] = Absent]
      /\ buffer' = [b \in Buffers |-> IF b \in B THEN [buffer[b] EXCEPT !.of = Gone] ELSE buffer[b]]
      /\ queue' = [q \in Queues |-> IF Alive(q) /\ queue[q].of = d THEN [of |-> Gone] ELSE queue[q]]
      /\ runtime' = runtime /\ call' = call /\ overran' = overran
  BY <1>2 DEF DestroyDevice
<1>4. PICK X : X = {d} \cup B
  OBVIOUS
<1>5. X \in SUBSET Addresses
  BY <1>1, <1>2, <1>4 DEF Addresses
<1>6. \A b \in B : b \in Everyone /\ HeldBy(b) = {"allocation"}
  BY <1>2, AddressKinds DEF HeldBy, Addresses, Everyone
<1>7. owned' = Without(owned, X)
  <2>1. ASSUME NEW o \in owned, o[2] \in B PROVE o = <<"allocation", o[2]>>
    <3>1. o = <<o[1], o[2]>>
      BY <1>1 DEF Things
    <3>2. o[1] \in Had(owned, o[2])
      BY DEF Had
    <3>3. Had(owned, o[2]) = {"allocation"}
      BY <1>6, <2>1, HeldExactly
    <3> QED
      BY <3>1, <3>2, <3>3
  <2> QED
    BY <1>3, <1>4, <2>1 DEF Without, Owns
<1>8. /\ device \in [Devices -> {Absent} \cup [info : Infos, card : Infos]]
      /\ queue \in [Queues -> {Absent} \cup [of : Devices \cup {Gone}]]
      /\ buffer \in [Buffers -> {Absent} \cup [of : Devices \cup {Gone}, size : Nat]]
  BY <1>1 DEF HandleTypes
<1>9. \A b \in B : /\ buffer'[b] \in [of : Devices \cup {Gone}, size : Nat]
                   /\ buffer'[b].of = Gone /\ b \in Buffers /\ Alive(b)
  <2> SUFFICES ASSUME NEW b \in B
               PROVE  /\ buffer'[b] \in [of : Devices \cup {Gone}, size : Nat]
                      /\ buffer'[b].of = Gone /\ b \in Buffers /\ Alive(b)
    OBVIOUS
  <2>1. b \in Buffers /\ Alive(b) /\ buffer[b] \in [of : Devices \cup {Gone}, size : Nat]
    BY <1>2, <1>8, AddressKinds DEF Alive
  <2> QED
    BY <1>3, <2>1
<1>10. \A r \in [of : Devices \cup {Gone}, size : Nat] : r # Absent
  BY DEF Absent
<1>11. \A b \in Buffers : b \notin B => buffer'[b] = buffer[b]
  BY <1>3
<1>12. \A q \in Queues : /\ queue'[q] \in {Absent} \cup [of : Devices \cup {Gone}]
                         /\ queue'[q] = Absent <=> queue[q] = Absent
  <2> SUFFICES ASSUME NEW q \in Queues
               PROVE  /\ queue'[q] \in {Absent} \cup [of : Devices \cup {Gone}]
                      /\ queue'[q] = Absent <=> queue[q] = Absent
    OBVIOUS
  <2>1. CASE Alive(q) /\ queue[q].of = d
    <3>1. queue'[q] = [of |-> Gone] /\ queue[q] # Absent
      BY <1>3, <2>1, AddressKinds DEF Alive
    <3>2. [of |-> Gone] # Absent
      BY DEF Absent
    <3> QED
      BY <3>1, <3>2
  <2>2. CASE ~(Alive(q) /\ queue[q].of = d)
    BY <1>3, <1>8, <2>2
  <2> QED
    BY <2>1, <2>2
<1>13. HandleTypes'
  <2>1. device' \in [Devices -> {Absent} \cup [info : Infos, card : Infos]]
    BY <1>3, <1>8
  <2>2. queue' \in [Queues -> {Absent} \cup [of : Devices \cup {Gone}]]
    BY <1>3, <1>12
  <2>3. buffer' \in [Buffers -> {Absent} \cup [of : Devices \cup {Gone}, size : Nat]]
    BY <1>3, <1>8, <1>9, <1>11
  <2> QED
    BY <1>1, <1>3, <2>1, <2>2, <2>3 DEF HandleTypes
<1>14. device'[d] = Absent /\ \A g \in Devices : g # d => device'[g] = device[g]
  BY <1>3, <1>8
<1>15. \A g \in Addresses : Alive(g)' <=> Alive(g) /\ g # d
  <2>1. \A g \in Devices : Alive(g)' <=> Alive(g) /\ g # d
    BY <1>14, AddressKinds DEF Alive
  <2>2. \A g \in Queues : Alive(g)' <=> Alive(g)
    BY <1>12, AddressKinds DEF Alive
  <2>3. \A g \in Buffers : Alive(g)' <=> Alive(g)
    BY <1>9, <1>10, <1>11, AddressKinds DEF Alive
  <2>4. \A g \in Runtimes : Alive(g)' <=> Alive(g)
    BY <1>3, AddressKinds DEF Alive
  <2> QED
    BY <2>1, <2>2, <2>3, <2>4, AddressKinds DEF Addresses
<1>16. \A g \in Addresses : /\ Alive(g)' => Alive(g)
                            /\ HeldBy(g)' = IF g \in X THEN {} ELSE HeldBy(g)
  <2> SUFFICES ASSUME NEW g \in Addresses
               PROVE  HeldBy(g)' = IF g \in X THEN {} ELSE HeldBy(g)
    BY <1>15
  <2>1. g \notin Threads
    BY AddressKinds
  <2>2. CASE g = d
    BY <1>4, <1>15, <2>1, <2>2 DEF HeldBy
  <2>3. CASE g \in B
    BY <1>4, <1>9, <2>1, <2>3, AddressKinds DEF HeldBy
  <2>4. CASE g \notin X
    <3>1. g \in Buffers => buffer'[g] = buffer[g]
      BY <1>4, <1>11, <2>4
    <3>2. Alive(g)' <=> Alive(g)
      BY <1>4, <1>15, <2>4
    <3> QED
      BY <2>1, <2>4, <3>1, <3>2 DEF HeldBy
  <2> QED
    BY <1>4, <2>2, <2>3, <2>4
<1>17. RunsOnWhatIsTold'
  BY <1>1, <1>3, <1>14, <1>15 DEF RunsOnWhatIsTold, Addresses
<1> QED
  BY <1>3, <1>5, <1>7, <1>13, <1>16, <1>17, DestroyStep

LEMMA QueueGoes ==
  ASSUME HandlesInv, NEW t \in Threads, NEW q \in Queues, DestroyQueue(t, q)
  PROVE  HandlesInv'
<1>1. /\ HandleTypes /\ RunsOnWhatIsTold
  BY DEF HandlesInv, HandlesOK
<1>2. PICK X : X = {q}
  OBVIOUS
<1>3. /\ X \in SUBSET Addresses /\ call' = call /\ overran' = overran
      /\ owned' = Without(owned, X)
  BY <1>2 DEF DestroyQueue, Without, Owns, Addresses
<1>4. /\ queue' = [queue EXCEPT ![q] = Absent]
      /\ device' = device /\ buffer' = buffer /\ runtime' = runtime
      /\ queue \in [Queues -> {Absent} \cup [of : Devices \cup {Gone}]]
  BY <1>1 DEF DestroyQueue, HandleTypes
<1>5. queue'[q] = Absent /\ \A g \in Queues : g # q => queue'[g] = queue[g]
  BY <1>4
<1>6. HandleTypes'
  <2>1. queue' \in [Queues -> {Absent} \cup [of : Devices \cup {Gone}]]
    BY <1>4
  <2> QED
    BY <1>1, <1>4, <2>1 DEF HandleTypes
<1>7. \A g \in Addresses : Alive(g)' <=> Alive(g) /\ g # q
  BY <1>4, <1>5, AddressKinds DEF Alive
<1>8. \A g \in Addresses : /\ Alive(g)' => Alive(g)
                           /\ HeldBy(g)' = IF g \in X THEN {} ELSE HeldBy(g)
  BY <1>2, <1>4, <1>7, AddressKinds DEF HeldBy
<1>9. RunsOnWhatIsTold'
  BY <1>1, <1>4, AddressKinds DEF RunsOnWhatIsTold, Alive
<1> QED
  BY <1>3, <1>6, <1>8, <1>9, DestroyStep

LEMMA BufferGoes ==
  ASSUME HandlesInv, NEW t \in Threads, NEW b \in Buffers, DestroyBuffer(t, b)
  PROVE  HandlesInv'
<1>1. /\ HandleTypes /\ RunsOnWhatIsTold
  BY DEF HandlesInv, HandlesOK
<1>2. PICK X : X = {b}
  OBVIOUS
<1>3. /\ X \in SUBSET Addresses /\ call' = call /\ overran' = overran
      /\ owned' = Without(owned, X)
  BY <1>2 DEF DestroyBuffer, Without, Owns, Addresses
<1>4. /\ buffer' = [buffer EXCEPT ![b] = Absent]
      /\ device' = device /\ queue' = queue /\ runtime' = runtime
      /\ buffer \in [Buffers -> {Absent} \cup [of : Devices \cup {Gone}, size : Nat]]
  BY <1>1 DEF DestroyBuffer, HandleTypes
<1>5. buffer'[b] = Absent /\ \A g \in Buffers : g # b => buffer'[g] = buffer[g]
  BY <1>4
<1>6. HandleTypes'
  <2>1. buffer' \in [Buffers -> {Absent} \cup [of : Devices \cup {Gone}, size : Nat]]
    BY <1>4
  <2> QED
    BY <1>1, <1>4, <2>1 DEF HandleTypes
<1>7. \A g \in Addresses : Alive(g)' <=> Alive(g) /\ g # b
  BY <1>4, <1>5, AddressKinds DEF Alive
<1>8. \A g \in Addresses : /\ Alive(g)' => Alive(g)
                           /\ HeldBy(g)' = IF g \in X THEN {} ELSE HeldBy(g)
  BY <1>2, <1>4, <1>5, <1>7, AddressKinds DEF HeldBy
<1>9. RunsOnWhatIsTold'
  BY <1>1, <1>4, AddressKinds DEF RunsOnWhatIsTold, Alive
<1> QED
  BY <1>3, <1>6, <1>8, <1>9, DestroyStep

LEMMA RuntimeGoes ==
  ASSUME HandlesInv, NEW t \in Threads, NEW r \in Runtimes, DestroyRuntime(t, r)
  PROVE  HandlesInv'
<1>1. /\ HandleTypes /\ RunsOnWhatIsTold
  BY DEF HandlesInv, HandlesOK
<1>2. PICK X : X = {r}
  OBVIOUS
<1>3. /\ X \in SUBSET Addresses /\ call' = call /\ overran' = overran
      /\ owned' = Without(owned, X)
  BY <1>2 DEF DestroyRuntime, Without, Owns, Addresses
<1>4. /\ runtime' = [runtime EXCEPT ![r] = Absent]
      /\ device' = device /\ queue' = queue /\ buffer' = buffer
      /\ runtime \in [Runtimes -> {Absent} \cup [backend : {"cpu", "hip", "dx12"},
                                                 devices : Seq(Infos), wants : Preferences]]
  BY <1>1 DEF DestroyRuntime, HandleTypes
<1>5. runtime'[r] = Absent /\ \A g \in Runtimes : g # r => runtime'[g] = runtime[g]
  BY <1>4
<1>6. HandleTypes'
  <2>1. runtime' \in [Runtimes -> {Absent} \cup [backend : {"cpu", "hip", "dx12"},
                                                devices : Seq(Infos), wants : Preferences]]
    BY <1>4
  <2> QED
    BY <1>1, <1>4, <2>1 DEF HandleTypes
<1>7. \A g \in Addresses : Alive(g)' <=> Alive(g) /\ g # r
  BY <1>4, <1>5, AddressKinds DEF Alive
<1>8. \A g \in Addresses : /\ Alive(g)' => Alive(g)
                           /\ HeldBy(g)' = IF g \in X THEN {} ELSE HeldBy(g)
  BY <1>2, <1>4, <1>7, AddressKinds DEF HeldBy
<1>9. RunsOnWhatIsTold'
  BY <1>1, <1>4, <1>5, <1>7, AddressKinds DEF RunsOnWhatIsTold, Addresses
<1> QED
  BY <1>3, <1>6, <1>8, <1>9, DestroyStep

(* A call that computes works on what is alive; of a vector that is too    *)
(* small only a product beyond Wrap is the reason.                         *)
LEMMA ComputingStep ==
  ASSUME HandlesInv, NEW t \in Threads, NEW c \in Calls, call' = [call EXCEPT ![t] = c],
         UNCHANGED <<handles, owned>>, c.pc \in {"computing", "idle"}, call[t].pc \in {"computing", "idle"},
         c # Idle => \A h \in c.on : Alive(h),
         OnlyNormOverruns'
  PROVE  HandlesInv'
<1>1. owned \subseteq Things /\ t \in Everyone
  BY DEF HandlesInv, HandlesOK, Everyone
<1>2. /\ owned' \subseteq Things /\ \A x : x # t => Had(owned', x) = Had(owned, x)
      /\ Had(owned', t) = Had(owned, t)
  BY <1>1
<1>3. Had(owned', t) = HeldAt(c.pc)
  BY <1>1, <1>2, HeldExactly DEF HeldBy, HeldAt
<1>4. \A h \in NewIn(c) : ~Alive(h) /\ \A u \in Threads \ {t} : ~IsIdle(u) => h \notin call[u].on
  BY DEF NewIn, MadeBy
<1>5. c # Idle => \A h \in c.on : \A u \in Threads \ {t} : h \notin New(u)
  BY NotNew
<1> QED
  BY <1>2, <1>3, <1>4, <1>5, CallStep

LEMMA TransferStarts ==
  ASSUME HandlesInv, NEW t \in Threads, NEW d \in Devices, NEW b \in Buffers, NEW offset, NEW count,
         Transfer(t, d, b, offset, count)
  PROVE  HandlesInv'
<1>1. PICK c : c = [pc |-> "computing", on |-> {d, b}]
  OBVIOUS
<1>2. c \in Calls /\ c.pc = "computing" /\ c.on = {d, b}
  BY <1>1 DEF Calls, Addresses
<1>3. /\ call' = [call EXCEPT ![t] = c] /\ UNCHANGED <<handles, owned>> /\ overran' = overran
      /\ Alive(d) /\ Alive(b) /\ call[t].pc = "idle"
  BY <1>1 DEF Transfer, Goes, IsIdle, Idle
<1>4. OnlyNormOverruns'
  BY <1>3 DEF HandlesInv, OnlyNormOverruns
<1> QED
  BY <1>2, <1>3, <1>4, ComputingStep

LEMMA Overruns ==
  ASSUME NEW op, NEW rows \in Nat, NEW dim \in Nat, Read(rows, dim) > Vector(op, rows, dim)
  PROVE  op = "rmsnorm" /\ rows * dim >= Wrap
<1>1. PICK a \in Nat : a = rows * dim
  OBVIOUS
<1>2. Wrap \in Nat \ {0}
  BY CHandlesAssumption
<1>3. op = "rmsnorm" /\ a > a % Wrap
  BY <1>1 DEF Read, Vector
<1>4. a < Wrap => a % Wrap = a
  BY <1>2
<1> QED
  BY <1>1, <1>2, <1>3, <1>4

LEMMA ComputationStarts ==
  ASSUME HandlesInv, NEW t \in Threads, NEW d \in Devices, NEW q \in Queues, NEW op,
         NEW out \in Buffers, NEW in \in Buffers, NEW next \in Buffers, NEW s \in Shapes,
         ReadInputs(t, d, q, op, out, in, next, s[1], s[2])
  PROVE  HandlesInv'
<1>1. PICK c : c = [pc |-> "computing", on |-> {d, q, out, in, next}]
  OBVIOUS
<1>2. c \in Calls /\ c.pc = "computing" /\ c.on = {d, q, out, in, next}
  BY <1>1 DEF Calls, Addresses
<1>3. PICK rows, dim : rows = s[1] /\ dim = s[2]
  OBVIOUS
<1>4. rows \in Nat /\ dim \in Nat
  BY <1>3, CHandlesAssumption
<1>5. /\ call' = [call EXCEPT ![t] = c] /\ UNCHANGED <<handles, owned>>
      /\ \A h \in c.on : Alive(h)
      /\ call[t].pc = "idle"
      /\ overran' = IF Read(rows, dim) > Vector(op, rows, dim)
                    THEN overran \cup {<<op, rows, dim>>} ELSE overran
  BY <1>1, <1>2, <1>3 DEF ReadInputs, Belong, Goes, IsIdle, Idle
<1>6. OnlyNormOverruns'
  <2>1. CASE Read(rows, dim) > Vector(op, rows, dim)
    <3>1. op = "rmsnorm" /\ rows * dim >= Wrap
      BY <1>4, <2>1, Overruns
    <3>2. overran' = overran \cup {<<op, rows, dim>>}
      BY <1>5, <2>1
    <3> QED
      BY <3>1, <3>2 DEF HandlesInv, OnlyNormOverruns
  <2>2. CASE ~(Read(rows, dim) > Vector(op, rows, dim))
    BY <1>5, <2>2 DEF HandlesInv, OnlyNormOverruns
  <2> QED
    BY <2>1, <2>2
<1> QED
  BY <1>2, <1>5, <1>6, ComputingStep

LEMMA ComputationReturns ==
  ASSUME HandlesInv, NEW t \in Threads, ComputeReturns(t)
  PROVE  HandlesInv'
<1>1. Idle \in Calls /\ Idle.pc = "idle"
  BY DEF Calls, Idle
<1>2. /\ call' = [call EXCEPT ![t] = Idle] /\ UNCHANGED <<handles, owned>> /\ call[t].pc = "computing"
  BY DEF ComputeReturns, Goes
<1>3. OnlyNormOverruns'
  BY DEF HandlesInv, OnlyNormOverruns, ComputeReturns
<1> QED
  BY <1>1, <1>2, <1>3, ComputingStep

LEMMA HandlesBegin == HandlesInit => HandlesInv
<1> SUFFICES ASSUME HandlesInit PROVE HandlesInv
  OBVIOUS
<1>1. \A h : ~Alive(h)
  BY DEF HandlesInit, Alive
<1>2. \A t \in Threads : call[t] = Idle
  BY DEF HandlesInit
<1>3. HandlesOK
  BY DEF HandlesInit, HandlesOK, HandleTypes, Calls
<1>4. NewInv /\ OpenedInv
  BY <1>2 DEF NewInv, New, NewIn, MadeBy, OpenedInv, Idle
<1>5. OwnedExactly
  <2>1. \A x : {o[1] : o \in Owns(x)} = {}
    BY DEF HandlesInit, Owns
  <2>2. \A x \in Everyone : HeldBy(x) = {}
    BY <1>1, <1>2 DEF HeldBy, HeldAt, Idle
  <2> QED
    BY <2>1, <2>2 DEF OwnedExactly, Everyone, Addresses
<1>6. RunsOnWhatIsTold
  BY <1>1 DEF RunsOnWhatIsTold
<1> QED
  BY <1>3, <1>4, <1>5, <1>6 DEF HandlesInv, HandlesInit, OnlyNormOverruns

(* Between any two steps of any threads: the types, whose handle a call is *)
(* to make, what everyone owns, and what devices and runtimes say of       *)
(* themselves.                                                             *)
THEOREM HandlesInvariant == HandlesSpec => []HandlesInv
<1>1. HandlesInv /\ [HandlesNext]_handleVars => HandlesInv'
  <2> SUFFICES ASSUME HandlesInv, [HandlesNext]_handleVars PROVE HandlesInv'
    OBVIOUS
  <2>1. CASE UNCHANGED handleVars
    BY <2>1 DEF handleVars, handles, HandlesInv, HandlesOK, HandleTypes, NewInv, New, OpenedInv,
                OwnedExactly, RunsOnWhatIsTold, OnlyNormOverruns, IsIdle, Alive, Owns, HeldBy
  <2>2. CASE HandlesNext
    <3>1. PICK t \in Threads :
            \/ \E d \in Devices, shown \in ShownLists :
                 \E i \in 0 .. Len(shown) + 1 : ListDevices(t, d, i, shown)
            \/ OpenRefused(t) \/ OpenDevice(t)
            \/ PoolRefused(t) \/ MakePool(t)
            \/ DeviceRefused(t) \/ GiveDevice(t)
            \/ \E d \in Devices : DestroyDevice(t, d)
            \/ \E d \in Devices, q \in Queues : MakeStream(t, d, q)
            \/ QueueRefused(t) \/ GiveQueue(t)
            \/ \E q \in Queues : DestroyQueue(t, q)
            \/ \E d \in Devices, b \in Buffers, size \in Sizes : Allocate(t, d, b, size)
            \/ BufferRefused(t) \/ GiveBuffer(t)
            \/ \E b \in Buffers : DestroyBuffer(t, b)
            \/ \E d \in Devices, q \in Queues, op \in Ops, out, in, next \in Buffers, s \in Shapes :
                 ReadInputs(t, d, q, op, out, in, next, s[1], s[2])
            \/ \E d \in Devices, b \in Buffers, offset \in 0 .. 1, count \in Sizes :
                 Transfer(t, d, b, offset, count)
            \/ ComputeReturns(t)
            \/ \E r \in Runtimes, p \in Preferences : MakeRuntime(t, r, p)
            \/ RuntimeRefused(t)
            \/ \E shown \in ShownLists : GiveRuntime(t, shown)
            \/ \E r \in Runtimes : DestroyRuntime(t, r)
      BY <2>2 DEF HandlesNext
    <3>2. CASE \/ OpenRefused(t) \/ PoolRefused(t) \/ DeviceRefused(t) \/ QueueRefused(t)
               \/ BufferRefused(t) \/ RuntimeRefused(t)
      BY <3>2, Refused
    <3>3. CASE OpenDevice(t) \/ MakePool(t)
      BY <3>3, DeviceOpens, PoolIsMade
    <3>4. CASE \/ GiveDevice(t) \/ GiveQueue(t) \/ GiveBuffer(t)
               \/ \E shown \in ShownLists : GiveRuntime(t, shown)
      BY <3>4, DeviceIsGiven, QueueIsGiven, BufferIsGiven, RuntimeIsGiven
    <3>5. CASE \/ \E d \in Devices : DestroyDevice(t, d)
               \/ \E q \in Queues : DestroyQueue(t, q)
               \/ \E b \in Buffers : DestroyBuffer(t, b)
               \/ \E r \in Runtimes : DestroyRuntime(t, r)
      BY <3>5, DeviceGoes, QueueGoes, BufferGoes, RuntimeGoes
    <3>6. CASE \E d \in Devices, shown \in ShownLists :
                 \E i \in 0 .. Len(shown) + 1 : ListDevices(t, d, i, shown)
      BY <3>6, ListStarts
    <3>7. CASE \/ \E d \in Devices, q \in Queues : MakeStream(t, d, q)
               \/ \E d \in Devices, b \in Buffers, size \in Sizes : Allocate(t, d, b, size)
               \/ \E r \in Runtimes, p \in Preferences : MakeRuntime(t, r, p)
      BY <3>7, StreamStarts, AllocationStarts, RuntimeStarts
    <3>8. CASE \E d \in Devices, q \in Queues, op \in Ops, out, in, next \in Buffers, s \in Shapes :
                 ReadInputs(t, d, q, op, out, in, next, s[1], s[2])
      BY <3>8, ComputationStarts
    <3>9. CASE \E d \in Devices, b \in Buffers, offset \in 0 .. 1, count \in Sizes :
                 Transfer(t, d, b, offset, count)
      BY <3>9, TransferStarts
    <3>10. CASE ComputeReturns(t)
      BY <3>10, ComputationReturns
    <3> QED
      BY <3>1, <3>2, <3>3, <3>4, <3>5, <3>6, <3>7, <3>8, <3>9, <3>10
  <2> QED
    BY <2>1, <2>2
<1> QED
  BY <1>1, HandlesBegin, PTL DEF HandlesSpec

(* Whatever fails at whatever point, nothing of the layers below is lost   *)
(* and nothing is missing under a handle that needs it.                    *)
THEOREM NothingLeaks == HandlesSpec => []OwnedExactly
<1>1. HandlesInv => OwnedExactly
  BY DEF HandlesInv
<1> QED
  BY <1>1, HandlesInvariant, PTL

(* A device runs on the adapter it is told to be.                          *)
THEOREM TellsTheTruth == HandlesSpec => []RunsOnWhatIsTold
<1>1. HandlesInv => RunsOnWhatIsTold
  BY DEF HandlesInv
<1> QED
  BY <1>1, HandlesInvariant, PTL

(* Only rmsnorm leaves its vector, only when a product needs more than the *)
(* 32 bits it is given.                                                    *)
THEOREM OverrunsOnlyInNorm == HandlesSpec => []OnlyNormOverruns
<1>1. HandlesInv => OnlyNormOverruns
  BY DEF HandlesInv
<1> QED
  BY <1>1, HandlesInvariant, PTL

-----------------------------------------------------------------------------
(* Documents: what a vector ds and a map ix of positions stand for.        *)
StoredAs(ds, ix) ==
  [id \in {i \in DOMAIN ix : ~ds[ix[i]].deleted} |-> ds[ix[id]].doc]

Entries == [id : Ids, doc : Documents, deleted : BOOLEAN]

(* Each document is where the map says, and the map knows each.            *)
Fit(ds, ix) ==
  /\ ds \in Seq(Entries)
  /\ ix = [i \in DOMAIN ix |-> ix[i]]
  /\ \A i \in DOMAIN ix : i \in Ids /\ ix[i] \in 1 .. Len(ds) /\ ds[ix[i]].id = i
  /\ \A n \in 1 .. Len(ds) : ds[n].id \in DOMAIN ix /\ ix[ds[n].id] = n

DbInv == Fit(docs, index)

LEMMA StoredIs ==
  ASSUME NEW ds, NEW ix, NEW st, st = StoredAs(ds, ix)
  PROVE  /\ st = [i \in DOMAIN st |-> st[i]]
         /\ \A i : i \in DOMAIN st <=> i \in DOMAIN ix /\ ~ds[ix[i]].deleted
         /\ \A i \in DOMAIN st : st[i] = ds[ix[i]].doc
BY DEF StoredAs

LEMMA SameMap ==
  ASSUME NEW f, NEW g, f = [i \in DOMAIN f |-> f[i]], g = [i \in DOMAIN g |-> g[i]],
         \A i : i \in DOMAIN f <=> i \in DOMAIN g,
         \A i \in DOMAIN f : f[i] = g[i]
  PROVE  f = g
<1>1. DOMAIN f = DOMAIN g
  OBVIOUS
<1> QED
  BY <1>1

LEMMA EntryIs ==
  ASSUME NEW id \in Ids, NEW d \in Documents
  PROVE  /\ Document(id, d) \in Entries
         /\ Document(id, d).id = id /\ Document(id, d).doc = d /\ ~Document(id, d).deleted
BY DEF Document, Entries

(* The map a store becomes.                                                *)
WithDoc(st, id, d) == [i \in DOMAIN st \cup {id} |-> IF i = id THEN d ELSE st[i]]
WithoutDoc(st, id) == [i \in DOMAIN st \ {id} |-> st[i]]

LEMMA Inserts ==
  ASSUME DbInv, NEW id \in Ids, NEW d \in Documents, InsertNew(id, d) \/ InsertAgain(id, d)
  PROVE  DbInv' /\ Stored' = WithDoc(Stored, id, d)
<1>1. PICK ds, ix, es, jx, e : ds = docs /\ ix = index /\ es = docs' /\ jx = index' /\ e = Document(id, d)
  OBVIOUS
<1>2. Fit(ds, ix)
  BY <1>1 DEF DbInv
<1>3. e \in Entries /\ e.id = id /\ e.doc = d /\ ~e.deleted
  BY <1>1, EntryIs
<1>4. PICK p \in Nat :
         /\ \A i \in DOMAIN ix : i # id => ix[i] # p
         /\ p \in 1 .. Len(es) /\ es[p] = e
         /\ es \in Seq(Entries)
         /\ \A n \in 1 .. Len(es) : n # p => n \in 1 .. Len(ds) /\ es[n] = ds[n] /\ ds[n].id # id
         /\ \A n \in 1 .. Len(ds) : n \in 1 .. Len(es)
         /\ jx = [i \in DOMAIN jx |-> jx[i]]
         /\ \A i : i \in DOMAIN jx <=> i \in DOMAIN ix \/ i = id
         /\ \A i \in DOMAIN ix : i # id => jx[i] = ix[i]
         /\ jx[id] = p
  <2>1. CASE InsertNew(id, d)
    <3>1. /\ id \notin DOMAIN ix /\ es = Append(ds, e)
          /\ jx = [i \in DOMAIN ix \cup {id} |-> IF i = id THEN Len(ds) + 1 ELSE ix[i]]
      BY <1>1, <2>1 DEF InsertNew
    <3>2. PICK p \in Nat : p = Len(ds) + 1
      BY <1>2 DEF Fit
    <3>3. /\ es \in Seq(Entries) /\ Len(es) = p /\ es[p] = e
          /\ \A n \in 1 .. Len(ds) : es[n] = ds[n]
      BY <1>2, <1>3, <3>1, <3>2 DEF Fit
    <3>4. \A n \in 1 .. Len(es) : n # p => n \in 1 .. Len(ds)
      BY <1>2, <3>2, <3>3 DEF Fit
    <3> QED
      BY <1>2, <3>1, <3>2, <3>3, <3>4 DEF Fit
  <2>2. CASE InsertAgain(id, d)
    <3>1. id \in DOMAIN ix /\ es = [ds EXCEPT ![ix[id]] = e] /\ jx = ix
      BY <1>1, <2>2 DEF InsertAgain
    <3>2. PICK p : p = ix[id]
      OBVIOUS
    <3>3. p \in 1 .. Len(ds) /\ p \in Nat /\ ds \in Seq(Entries)
      BY <1>2, <3>1, <3>2 DEF Fit
    <3>4. /\ es \in Seq(Entries) /\ Len(es) = Len(ds) /\ es[p] = e
          /\ \A n \in 1 .. Len(ds) : n # p => es[n] = ds[n]
      BY <1>3, <3>1, <3>2, <3>3
    <3>5. \A n \in 1 .. Len(ds) : n # p => ds[n].id # id
      BY <1>2, <3>2 DEF Fit
    <3>6. \A i \in DOMAIN ix : i # id => ix[i] # p
      BY <1>2, <3>1, <3>2 DEF Fit
    <3> QED
      BY <1>2, <3>1, <3>2, <3>3, <3>4, <3>5, <3>6 DEF Fit
  <2> QED
    BY <2>1, <2>2
<1>5. Fit(es, jx)
  <2>1. ASSUME NEW i \in DOMAIN jx PROVE i \in Ids /\ jx[i] \in 1 .. Len(es) /\ es[jx[i]].id = i
    <3>1. CASE i = id
      BY <1>3, <1>4, <3>1
    <3>2. CASE i # id
      BY <1>2, <1>4, <3>2 DEF Fit
    <3> QED
      BY <3>1, <3>2
  <2>2. ASSUME NEW n \in 1 .. Len(es) PROVE es[n].id \in DOMAIN jx /\ jx[es[n].id] = n
    <3>1. CASE n = p
      BY <1>3, <1>4, <3>1
    <3>2. CASE n # p
      BY <1>2, <1>4, <3>2 DEF Fit
    <3> QED
      BY <3>1, <3>2
  <2> QED
    BY <1>4, <2>1, <2>2 DEF Fit
<1>6. PICK st, su, sw : st = StoredAs(ds, ix) /\ su = StoredAs(es, jx) /\ sw = WithDoc(st, id, d)
  OBVIOUS
<1>7. /\ st = [i \in DOMAIN st |-> st[i]]
      /\ \A i : i \in DOMAIN st <=> i \in DOMAIN ix /\ ~ds[ix[i]].deleted
      /\ \A i \in DOMAIN st : st[i] = ds[ix[i]].doc
  BY <1>6, StoredIs
<1>8. /\ su = [i \in DOMAIN su |-> su[i]]
      /\ \A i : i \in DOMAIN su <=> i \in DOMAIN jx /\ ~es[jx[i]].deleted
      /\ \A i \in DOMAIN su : su[i] = es[jx[i]].doc
  BY <1>6, StoredIs
<1>9. /\ sw = [i \in DOMAIN sw |-> sw[i]]
      /\ \A i : i \in DOMAIN sw <=> i \in DOMAIN st \/ i = id
      /\ \A i \in DOMAIN sw : sw[i] = IF i = id THEN d ELSE st[i]
  BY <1>6 DEF WithDoc
<1>10. \A i \in DOMAIN ix : i # id => i \in DOMAIN jx /\ es[jx[i]] = ds[ix[i]]
  BY <1>2, <1>4 DEF Fit
<1>11. id \in DOMAIN jx /\ es[jx[id]] = e
  BY <1>4
<1>12. su = sw
  <2>1. \A i : i \in DOMAIN su <=> i \in DOMAIN sw
    BY <1>3, <1>4, <1>7, <1>8, <1>9, <1>10, <1>11
  <2>2. \A i \in DOMAIN su : su[i] = sw[i]
    BY <1>3, <1>4, <1>7, <1>8, <1>9, <1>10, <1>11, <2>1
  <2> QED
    BY <1>8, <1>9, <2>1, <2>2, SameMap
<1> QED
  BY <1>1, <1>5, <1>6, <1>12 DEF DbInv, Stored, StoredAs

LEMMA Removes ==
  ASSUME DbInv, NEW id \in Ids, RemoveDoc(id)
  PROVE  DbInv' /\ Stored' = WithoutDoc(Stored, id)
<1>1. PICK ds, ix, es, p, e : /\ ds = docs /\ ix = index /\ es = docs' /\ p = index[id]
                             /\ e = [docs[index[id]] EXCEPT !.deleted = TRUE]
  OBVIOUS
<1>2. Fit(ds, ix) /\ index' = ix /\ id \in DOMAIN ix
  BY <1>1 DEF DbInv, RemoveDoc
<1>3. p \in 1 .. Len(ds) /\ p \in Nat /\ ds \in Seq(Entries) /\ ds[p].id = id /\ ds[p] \in Entries
  BY <1>1, <1>2 DEF Fit
<1>4. e \in Entries /\ e.id = id /\ e.deleted
  BY <1>1, <1>3 DEF Entries
<1>5. es = [ds EXCEPT ![p] = e]
  BY <1>1, <1>2 DEF RemoveDoc
<1>6. /\ es \in Seq(Entries) /\ Len(es) = Len(ds) /\ es[p] = e
      /\ \A n \in 1 .. Len(ds) : n # p => es[n] = ds[n]
  BY <1>3, <1>4, <1>5
<1>7. \A n \in 1 .. Len(ds) : es[n].id = ds[n].id
  BY <1>3, <1>4, <1>6
<1>8. Fit(es, ix)
  BY <1>2, <1>6, <1>7 DEF Fit
<1>9. \A i \in DOMAIN ix : ix[i] \in 1 .. Len(ds) /\ (i # id => ix[i] # p)
  BY <1>1, <1>2, <1>3 DEF Fit
<1>10. PICK st, su, sw : st = StoredAs(ds, ix) /\ su = StoredAs(es, ix) /\ sw = WithoutDoc(st, id)
  OBVIOUS
<1>11. /\ st = [i \in DOMAIN st |-> st[i]]
       /\ \A i : i \in DOMAIN st <=> i \in DOMAIN ix /\ ~ds[ix[i]].deleted
       /\ \A i \in DOMAIN st : st[i] = ds[ix[i]].doc
  BY <1>10, StoredIs
<1>12. /\ su = [i \in DOMAIN su |-> su[i]]
       /\ \A i : i \in DOMAIN su <=> i \in DOMAIN ix /\ ~es[ix[i]].deleted
       /\ \A i \in DOMAIN su : su[i] = es[ix[i]].doc
  BY <1>10, StoredIs
<1>13. /\ sw = [i \in DOMAIN sw |-> sw[i]]
       /\ \A i : i \in DOMAIN sw <=> i \in DOMAIN st /\ i # id
       /\ \A i \in DOMAIN sw : sw[i] = st[i]
  BY <1>10 DEF WithoutDoc
<1>14. su = sw
  <2>1. ASSUME NEW i PROVE i \in DOMAIN su <=> i \in DOMAIN sw
    <3>1. CASE i = id
      <4>1. es[ix[i]].deleted
        BY <1>1, <1>4, <1>6, <3>1
      <4>2. i \notin DOMAIN su
        BY <1>12, <4>1
      <4>3. i \notin DOMAIN sw
        BY <1>13, <3>1
      <4> QED
        BY <4>2, <4>3
    <3>2. CASE i # id /\ i \in DOMAIN ix
      <4>1. es[ix[i]] = ds[ix[i]]
        BY <1>6, <1>9, <3>2
      <4> QED
        BY <1>11, <1>12, <1>13, <3>2, <4>1
    <3>3. CASE i \notin DOMAIN ix
      BY <1>11, <1>12, <1>13, <3>3
    <3> QED
      BY <3>1, <3>2, <3>3
  <2>2. \A i \in DOMAIN su : su[i] = sw[i]
    BY <1>6, <1>9, <1>11, <1>12, <1>13, <2>1
  <2> QED
    BY <1>12, <1>13, <2>1, <2>2, SameMap
<1> QED
  BY <1>1, <1>2, <1>8, <1>10, <1>14 DEF DbInv, Stored, StoredAs

(* What a scan of the vector finds of the store, each once.                *)
Scanned(ds, ix, st, D, r) ==
  /\ r \in Seq(Entries)
  /\ \A k \in 1 .. Len(r) :
       /\ r[k].id \in DOMAIN st /\ st[r[k].id] = r[k].doc
       /\ ix[r[k].id] \in D /\ ds[ix[r[k].id]] = r[k]
  /\ \A j, k \in 1 .. Len(r) : r[j].id = r[k].id => j = k
  /\ \A n \in D : \E k \in 1 .. Len(r) : r[k] = ds[n]

LEMMA Scan ==
  ASSUME NEW ds, NEW ix, Fit(ds, ix), NEW st, st = StoredAs(ds, ix),
         NEW D, D \subseteq 1 .. Len(ds), \A n \in D : ~ds[n].deleted,
         NEW r, r = SelectAt(ds, D)
  PROVE  Scanned(ds, ix, st, D, r)
<1>1. ds \in Seq(Entries) /\ Len(ds) \in Nat
  BY DEF Fit
<1>2. PICK q \in Seq(1 .. Len(ds)) :
         /\ ToSet(q) = D
         /\ \A j, k \in 1 .. Len(q) : j < k => q[j] < q[k]
         /\ IsAt(r, ds, q)
  BY <1>1, SelectAtIs
<1>3. /\ Len(r) = Len(q) /\ Len(q) \in Nat /\ r \in Seq(Entries)
      /\ \A k \in 1 .. Len(q) : q[k] \in D /\ q[k] \in 1 .. Len(ds) /\ r[k] = ds[q[k]]
  BY <1>1, <1>2 DEF IsAt, ToSet
<1>4. \A n \in D : \E k \in 1 .. Len(q) : q[k] = n
  BY <1>2 DEF ToSet
<1>5. /\ \A i : i \in DOMAIN st <=> i \in DOMAIN ix /\ ~ds[ix[i]].deleted
      /\ \A i \in DOMAIN st : st[i] = ds[ix[i]].doc
  BY StoredIs
<1>6. ASSUME NEW k \in 1 .. Len(r)
      PROVE  /\ r[k].id \in DOMAIN st /\ st[r[k].id] = r[k].doc
             /\ ix[r[k].id] \in D /\ ds[ix[r[k].id]] = r[k] /\ ix[r[k].id] = q[k]
  <2>1. PICK n \in D : n = q[k] /\ n \in 1 .. Len(ds) /\ r[k] = ds[n]
    BY <1>3
  <2>2. ds[n].id \in DOMAIN ix /\ ix[ds[n].id] = n
    BY <2>1 DEF Fit
  <2> QED
    BY <1>5, <2>1, <2>2
<1>7. ASSUME NEW j \in 1 .. Len(r), NEW k \in 1 .. Len(r), r[j].id = r[k].id PROVE j = k
  <2>1. q[j] = q[k]
    BY <1>6, <1>7
  <2>2. q[j] \in Nat
    BY <1>3, <1>1
  <2> QED
    BY <1>2, <1>3, <2>1, <2>2
<1>8. \A n \in D : \E k \in 1 .. Len(r) : r[k] = ds[n]
  BY <1>3, <1>4
<1> QED
  BY <1>3, <1>6, <1>7, <1>8 DEF Scanned
(* Compaction is not seen: the same store, in a vector without tombstones. *)
LEMMA Compacts ==
  ASSUME DbInv, Compact
  PROVE  DbInv' /\ Stored' = Stored
<1>1. PICK ds, ix, st, D, es, jx :
        /\ ds = docs /\ ix = index /\ st = StoredAs(ds, ix) /\ es = docs' /\ jx = index'
        /\ D = {n \in DOMAIN docs : IsLive(n)}
  OBVIOUS
<1>2. Fit(ds, ix) /\ ds \in Seq(Entries)
  BY <1>1 DEF DbInv, Fit
<1>3. D \subseteq 1 .. Len(ds) /\ (\A n \in D : ~ds[n].deleted) /\ \A n \in 1 .. Len(ds) : ~ds[n].deleted => n \in D
  BY <1>1, <1>2 DEF IsLive
<1>4. es = SelectAt(ds, D) /\ es = Live
  BY <1>1 DEF Compact, Live
<1>5. /\ es \in Seq(Entries)
      /\ \A k \in 1 .. Len(es) :
           /\ es[k].id \in DOMAIN st /\ st[es[k].id] = es[k].doc
           /\ ix[es[k].id] \in D /\ ds[ix[es[k].id]] = es[k]
      /\ \A j, k \in 1 .. Len(es) : es[j].id = es[k].id => j = k
      /\ \A n \in D : \E k \in 1 .. Len(es) : es[k] = ds[n]
  <2>1. Scanned(ds, ix, st, D, es)
    BY <1>1, <1>2, <1>3, <1>4, Scan
  <2> QED
    BY <2>1 DEF Scanned
<1>6. /\ jx = [i \in DOMAIN jx |-> jx[i]]
      /\ \A i : i \in DOMAIN jx <=> \E k \in 1 .. Len(es) : es[k].id = i
      /\ \A i \in DOMAIN jx : jx[i] = NewPosition(i)
  <2>1. jx = [i \in {d.id : d \in ToSet(es)} |-> NewPosition(i)]
    BY <1>1, <1>4 DEF Compact
  <2>2. \A i : i \in {d.id : d \in ToSet(es)} <=> \E k \in 1 .. Len(es) : es[k].id = i
    BY <1>5 DEF ToSet
  <2> QED
    BY <2>1, <2>2
<1>7. \A k \in 1 .. Len(es) : es[k].id \in DOMAIN jx /\ jx[es[k].id] = k
  <2> SUFFICES ASSUME NEW k \in 1 .. Len(es) PROVE es[k].id \in DOMAIN jx /\ jx[es[k].id] = k
    OBVIOUS
  <2>1. es[k].id \in DOMAIN jx /\ jx[es[k].id] = NewPosition(es[k].id)
    BY <1>6
  <2>2. NewPosition(es[k].id) = CHOOSE n \in 1 .. Len(es) : es[n].id = es[k].id
    BY <1>4, <1>5 DEF NewPosition
  <2>3. \A n \in 1 .. Len(es) : es[n].id = es[k].id <=> n = k
    BY <1>5
  <2>4. NewPosition(es[k].id) = k
    BY <2>2, <2>3
  <2> QED
    BY <2>1, <2>4
<1>8. Fit(es, jx)
  <2>1. ASSUME NEW i \in DOMAIN jx PROVE i \in Ids /\ jx[i] \in 1 .. Len(es) /\ es[jx[i]].id = i
    <3>1. PICK k \in 1 .. Len(es) : es[k].id = i
      BY <1>6
    <3>2. es[k] \in Entries
      BY <1>5
    <3> QED
      BY <1>7, <3>1, <3>2 DEF Entries
  <2> QED
    BY <1>5, <1>6, <1>7, <2>1 DEF Fit
<1>9. PICK su : su = StoredAs(es, jx)
  OBVIOUS
<1>10. /\ st = [i \in DOMAIN st |-> st[i]]
       /\ \A i : i \in DOMAIN st <=> i \in DOMAIN ix /\ ~ds[ix[i]].deleted
       /\ \A i \in DOMAIN st : st[i] = ds[ix[i]].doc
  BY <1>1, StoredIs
<1>11. /\ su = [i \in DOMAIN su |-> su[i]]
       /\ \A i : i \in DOMAIN su <=> i \in DOMAIN jx /\ ~es[jx[i]].deleted
       /\ \A i \in DOMAIN su : su[i] = es[jx[i]].doc
  BY <1>9, StoredIs
<1>12. ASSUME NEW i \in DOMAIN su PROVE i \in DOMAIN st /\ st[i] = su[i]
  <2>1. PICK k \in 1 .. Len(es) : es[k].id = i /\ jx[i] = k
    BY <1>6, <1>7, <1>11
  <2> QED
    BY <1>5, <1>11, <2>1
<1>13. ASSUME NEW i \in DOMAIN st PROVE i \in DOMAIN su
  <2>1. ix[i] \in D /\ ds[ix[i]].id = i /\ ~ds[ix[i]].deleted
    BY <1>2, <1>3, <1>10 DEF Fit
  <2>2. PICK k \in 1 .. Len(es) : es[k] = ds[ix[i]]
    BY <1>5, <2>1
  <2> QED
    BY <1>7, <1>11, <2>1, <2>2
<1>14. su = st
  BY <1>10, <1>11, <1>12, <1>13, SameMap
<1> QED
  BY <1>1, <1>8, <1>9, <1>14 DEF DbInv, Stored, StoredAs

(* A scan of what passes finds as many as there are in the store.          *)
EachOnce(r, C) ==
  /\ Len(r) \in Nat /\ IsFiniteSet(C) /\ Cardinality(C) = Len(r)
  /\ \A k \in 1 .. Len(r) : r[k].id \in C
  /\ \A i \in C : \E k \in 1 .. Len(r) : r[k].id = i

LEMMA ScanCounts ==
  ASSUME NEW ds, NEW ix, Fit(ds, ix), NEW st, st = StoredAs(ds, ix), NEW D, NEW r,
         Scanned(ds, ix, st, D, r),
         NEW C, C \subseteq DOMAIN st, \A i \in DOMAIN st : i \in C <=> ix[i] \in D
  PROVE  EachOnce(r, C)
<1>1. PICK n \in Nat : n = Len(r)
  BY DEF Scanned
<1>2. PICK f : f = [k \in 1 .. n |-> r[k].id]
  OBVIOUS
<1>3. \A k \in 1 .. n : f[k] = r[k].id /\ f[k] \in C
  BY <1>1, <1>2 DEF Scanned
<1>4. \A j, k \in 1 .. n : f[j] = f[k] => j = k
  BY <1>1, <1>3 DEF Scanned
<1>5. ASSUME NEW i \in C PROVE \E k \in 1 .. n : f[k] = i
  <2>1. ix[i] \in D /\ i \in DOMAIN ix /\ ds[ix[i]].id = i
    BY StoredIs DEF Fit
  <2>2. PICK k \in 1 .. n : r[k] = ds[ix[i]]
    BY <1>1, <2>1 DEF Scanned
  <2> QED
    BY <1>3, <2>1, <2>2
<1>6. IsFiniteSet(C) /\ Cardinality(C) = n
  BY <1>3, <1>4, <1>5, CountOnce
<1> QED
  BY <1>1, <1>3, <1>5, <1>6 DEF EachOnce

LEMMA Counts ==
  ASSUME DbInv, ActiveCount
  PROVE  counted' = Cardinality(DOMAIN Stored)
<1>1. PICK ds, ix, st, D :
        /\ ds = docs /\ ix = index /\ st = StoredAs(ds, ix)
        /\ D = {n \in DOMAIN docs : IsLive(n)}
  OBVIOUS
<1>2. Fit(ds, ix) /\ ds \in Seq(Entries)
  BY <1>1 DEF DbInv, Fit
<1>3. D \subseteq 1 .. Len(ds) /\ (\A n \in D : ~ds[n].deleted) /\ \A n \in 1 .. Len(ds) : ~ds[n].deleted => n \in D
  BY <1>1, <1>2 DEF IsLive
<1>4. PICK r : r = SelectAt(ds, D) /\ r = Live
  BY <1>1 DEF Live
<1>5. Scanned(ds, ix, st, D, r)
  BY <1>1, <1>2, <1>3, <1>4, Scan
<1>6. PICK C : C = DOMAIN st
  OBVIOUS
<1>7. \A i \in DOMAIN st : ix[i] \in D
  BY <1>1, <1>2, <1>3, StoredIs DEF Fit
<1>8. C \subseteq DOMAIN st /\ \A i \in DOMAIN st : i \in C <=> ix[i] \in D
  BY <1>6, <1>7
<1>9. Cardinality(C) = Len(r)
  <2>1. EachOnce(r, C)
    BY <1>1, <1>2, <1>5, <1>8, ScanCounts
  <2> QED
    BY <2>1 DEF EachOnce
<1> QED
  BY <1>1, <1>4, <1>6, <1>9 DEF ActiveCount, Stored, StoredAs

(* The numbers of members the two specifications speak of are the same.    *)
LEMMA SameSize == \A S : Abstract!Cardinality(S) = Cardinality(S)
BY DEF Cardinality, Abstract!Cardinality, IsFiniteSet, Abstract!IsFiniteSet

(* What a search is answered are the nearest of the store.                 *)
LEMMA Searches ==
  ASSUME DbInv, NEW k \in Nat, Search(k, TRUE)
  PROVE  Abstract!IsNearest(told', k)
<1>1. PICK ds, ix, st, D :
        /\ ds = docs /\ ix = index /\ st = StoredAs(ds, ix)
        /\ D = {n \in DOMAIN docs : IsLive(n) /\ docs[n].doc \in DOMAIN Similarity}
  OBVIOUS
<1>2. Fit(ds, ix) /\ ds \in Seq(Entries) /\ st = Stored
  BY <1>1 DEF DbInv, Fit, Stored, StoredAs
<1>3. /\ D \subseteq 1 .. Len(ds) /\ \A n \in D : ~ds[n].deleted
      /\ \A n \in 1 .. Len(ds) : ~ds[n].deleted => (n \in D <=> ds[n].doc \in DOMAIN Similarity)
  BY <1>1, <1>2 DEF IsLive
<1>4. PICK r : r = SelectAt(ds, D) /\ r = Results
  BY <1>1 DEF Results
<1>5. Scanned(ds, ix, st, D, r)
  BY <1>1, <1>2, <1>3, <1>4, Scan
<1>6. PICK C : C = Abstract!Comparable
  OBVIOUS
<1>7. C \subseteq DOMAIN st /\ \A i \in DOMAIN st : i \in C <=> st[i] \in DOMAIN Similarity
  BY <1>2, <1>6 DEF Abstract!Comparable
<1>8. \A i \in DOMAIN st : i \in C <=> ix[i] \in D
  <2> SUFFICES ASSUME NEW i \in DOMAIN st PROVE i \in C <=> ix[i] \in D
    OBVIOUS
  <2>1. i \in DOMAIN ix /\ ~ds[ix[i]].deleted /\ st[i] = ds[ix[i]].doc
    BY <1>1, StoredIs
  <2>2. ix[i] \in 1 .. Len(ds)
    BY <1>2, <2>1 DEF Fit
  <2> QED
    BY <1>3, <1>7, <2>1, <2>2
<1>9. /\ IsFiniteSet(C) /\ Cardinality(C) = Len(r)
      /\ \A j \in 1 .. Len(r) : r[j].id \in C
      /\ \A i \in C : \E j \in 1 .. Len(r) : r[j].id = i
  <2>1. st = StoredAs(ds, ix) /\ Fit(ds, ix) /\ C \subseteq DOMAIN st
    BY <1>1, <1>2, <1>7
  <2>2. EachOnce(r, C)
    BY <1>5, <1>8, <2>1, ScanCounts
  <2> QED
    BY <2>2 DEF EachOnce
<1>10. PICK n \in Nat : n = Len(r)
  BY <1>5 DEF Scanned
<1>0. PICK answer, sim : answer = told' /\ sim = [i \in 1 .. n |-> Similarity[r[i].doc]]
  OBVIOUS
<1>11. PICK p \in [1 .. n -> 1 .. n] :
         /\ IsInjective(p)
         /\ \A i, j \in 1 .. n : i < j /\ i <= k => sim[p[i]] >= sim[p[j]]
         /\ answer = [i \in 1 .. Least(k, n) |-> r[p[i]].id]
  <2>1. PICK p \in [1 .. n -> 1 .. n] :
         /\ IsInjective(p)
         /\ \A i, j \in 1 .. n : i < j /\ i <= k => Similarity[r[p[i]].doc] >= Similarity[r[p[j]].doc]
         /\ answer = [i \in 1 .. Least(k, n) |-> r[p[i]].id]
    BY <1>0, <1>4, <1>10 DEF Search, Orders
  <2>2. \A i \in 1 .. n : sim[p[i]] = Similarity[r[p[i]].doc]
    BY <1>0
  <2> QED
    BY <2>1, <2>2
<1>12. PICK m \in Nat : /\ m = Least(k, n) /\ m <= n /\ m <= k
                        /\ m = IF k < n THEN k ELSE n
  BY <1>10 DEF Least
<1>13. /\ answer = [i \in 1 .. m |-> r[p[i]].id] /\ DOMAIN answer = 1 .. m /\ Len(answer) = m
       /\ \A i \in 1 .. m : answer[i] = r[p[i]].id /\ i \in 1 .. n /\ p[i] \in 1 .. n
  BY <1>11, <1>12
<1>14. PICK given : given = {answer[i] : i \in DOMAIN answer}
  OBVIOUS
<1>15. \A i \in 1 .. m : answer[i] \in given
  BY <1>13, <1>14
<1>16. \A x \in given : \E i \in 1 .. m : answer[i] = x
  BY <1>13, <1>14
<1>17. given \subseteq C
  BY <1>9, <1>10, <1>13, <1>16
<1>18. \A i, j \in 1 .. m : answer[i] = answer[j] => i = j
  <2> SUFFICES ASSUME NEW i \in 1 .. m, NEW j \in 1 .. m, answer[i] = answer[j] PROVE i = j
    OBVIOUS
  <2>1. p[i] = p[j]
    BY <1>5, <1>10, <1>13 DEF Scanned
  <2> QED
    BY <1>11, <1>13, <2>1 DEF IsInjective
<1>19. Cardinality(given) = m
  BY <1>15, <1>16, <1>18, CountOnce
<1>20. \A i \in 1 .. n : Similarity[st[r[i].id]] = sim[i]
  BY <1>0, <1>5, <1>10 DEF Scanned
<1>21. ASSUME NEW i \in 1 .. m, NEW j \in 1 .. m, j < i
       PROVE  Similarity[st[answer[j]]] >= Similarity[st[answer[i]]]
  <2>1. i \in 1 .. n /\ j \in 1 .. n /\ j <= k
    BY <1>12
  <2>2. sim[p[j]] >= sim[p[i]]
    BY <1>11, <1>21, <2>1
  <2> QED
    BY <1>13, <1>20, <2>2
<1>22. ASSUME NEW i \in 1 .. m, NEW x \in C \ given
       PROVE  Similarity[st[answer[i]]] >= Similarity[st[x]]
  <2>1. PICK o \in 1 .. n : r[o].id = x
    BY <1>9, <1>10
  <2>2. PICK j \in 1 .. n : p[j] = o
    BY <1>11, NothingMissed
  <2>3. j \notin 1 .. m
    BY <1>13, <1>15, <2>1, <2>2
  <2>4. i < j /\ i <= k /\ i \in 1 .. n
    BY <1>12, <2>3
  <2>5. sim[p[i]] >= sim[p[j]]
    BY <1>11, <2>4
  <2>6. Similarity[st[answer[i]]] = sim[p[i]] /\ Similarity[st[x]] = sim[p[j]]
    BY <1>13, <1>20, <2>1, <2>2
  <2> QED
    BY <2>5, <2>6
<1>23. /\ given \subseteq Abstract!Comparable /\ Cardinality(given) = Len(answer)
       /\ Len(answer) = IF k < Cardinality(Abstract!Comparable) THEN k ELSE Cardinality(Abstract!Comparable)
  BY <1>6, <1>9, <1>10, <1>12, <1>13, <1>17, <1>19
<1>24. \A i \in DOMAIN answer :
         /\ \A j \in DOMAIN answer : j < i => Abstract!Nearness(answer[j]) >= Abstract!Nearness(answer[i])
         /\ \A x \in Abstract!Comparable \ given : Abstract!Nearness(answer[i]) >= Abstract!Nearness(x)
  BY <1>2, <1>6, <1>13, <1>21, <1>22 DEF Abstract!Nearness
<1>25. Abstract!IsNearest(answer, k)
  BY <1>14, <1>23, <1>24, SameSize DEF Abstract!IsNearest
<1> QED
  BY <1>0, <1>25

LEMMA StartsEmpty == DbInit => DbInv /\ Abstract!DocInit
<1> SUFFICES ASSUME DbInit PROVE DbInv /\ Abstract!DocInit
  OBVIOUS
<1>1. docs = <<>> /\ index = <<>> /\ told = <<>> /\ counted = 0
  BY DEF DbInit
<1>2. PICK none : none = <<>>
  OBVIOUS
<1>3. none \in Seq(Entries) /\ Len(none) = 0 /\ DOMAIN none = {} /\ none = [i \in DOMAIN none |-> none[i]]
  BY <1>2
<1>4. Fit(none, none)
  BY <1>3 DEF Fit
<1>5. PICK st : st = StoredAs(none, none)
  OBVIOUS
<1>6. st = none
  <2>1. st = [i \in DOMAIN st |-> st[i]] /\ \A i : i \notin DOMAIN st
    BY <1>3, <1>5, StoredIs
  <2> QED
    BY <1>3, <2>1, SameMap
<1> QED
  BY <1>1, <1>2, <1>4, <1>5, <1>6 DEF DbInv, Stored, StoredAs, Abstract!DocInit

(* One step on the vector is one on the store, or none.                    *)
LEMMA StepsAsPromised ==
  ASSUME DbInv, DbNext
  PROVE  DbInv' /\ (Abstract!DocNext \/ UNCHANGED <<Stored, told, counted>>)
<1>1. ASSUME UNCHANGED <<docs, index>> PROVE DbInv' /\ Stored' = Stored
  BY <1>1 DEF DbInv, Stored
<1>2. ASSUME NEW id \in Ids, NEW d \in Documents, InsertNew(id, d) \/ InsertAgain(id, d)
      PROVE  DbInv' /\ Abstract!DocNext
  <2>1. DbInv' /\ Stored' = WithDoc(Stored, id, d)
    BY <1>2, Inserts
  <2>2. told' = told /\ counted' = counted
    BY <1>2 DEF InsertNew, InsertAgain
  <2>3. Abstract!Put(id, d)
    BY <2>1, <2>2 DEF Abstract!Put, WithDoc
  <2> QED
    BY <2>1, <2>3 DEF Abstract!DocNext
<1>3. ASSUME NEW id \in Ids, RemoveDoc(id) PROVE DbInv' /\ Abstract!DocNext
  <2>1. DbInv' /\ Stored' = WithoutDoc(Stored, id)
    BY <1>3, Removes
  <2>2. told' = told /\ counted' = counted
    BY <1>3 DEF RemoveDoc
  <2>3. Abstract!Drop(id)
    BY <2>1, <2>2 DEF Abstract!Drop, WithoutDoc
  <2> QED
    BY <2>1, <2>3 DEF Abstract!DocNext
<1>4. ASSUME Compact PROVE DbInv' /\ UNCHANGED <<Stored, told, counted>>
  <2>1. DbInv' /\ Stored' = Stored
    BY <1>4, Compacts
  <2>2. told' = told /\ counted' = counted
    BY <1>4 DEF Compact
  <2> QED
    BY <2>1, <2>2
<1>5. ASSUME NEW k \in Wanted, NEW fits \in BOOLEAN, Search(k, fits)
      PROVE  DbInv' /\ Abstract!DocNext
  <2>1. UNCHANGED <<docs, index>> /\ counted' = counted
    BY <1>5 DEF Search
  <2>2. DbInv' /\ Stored' = Stored
    BY <1>1, <2>1
  <2>3. CASE fits = TRUE
    <3>1. k \in Nat /\ Search(k, TRUE)
      BY <1>5, <2>3, RetrieveAssumption
    <3>2. Abstract!IsNearest(told', k)
      BY <3>1, Searches
    <3>3. Abstract!Ask(k, fits)
      BY <2>1, <2>2, <2>3, <3>2 DEF Abstract!Ask
    <3> QED
      BY <2>2, <3>3 DEF Abstract!DocNext
  <2>4. CASE fits = FALSE
    <3>1. told' = <<>>
      BY <1>5, <2>4 DEF Search
    <3>2. Abstract!Ask(k, fits)
      BY <2>1, <2>2, <2>4, <3>1 DEF Abstract!Ask
    <3> QED
      BY <2>2, <3>2 DEF Abstract!DocNext
  <2> QED
    BY <2>3, <2>4
<1>6. ASSUME ActiveCount PROVE DbInv' /\ Abstract!DocNext
  <2>1. UNCHANGED <<docs, index>> /\ told' = told
    BY <1>6 DEF ActiveCount
  <2>2. DbInv' /\ Stored' = Stored
    BY <1>1, <2>1
  <2>3. counted' = Cardinality(DOMAIN Stored)
    BY <1>6, Counts
  <2>4. Abstract!AskCount
    BY <2>1, <2>2, <2>3, SameSize DEF Abstract!AskCount
  <2> QED
    BY <2>2, <2>4 DEF Abstract!DocNext
<1>7. ASSUME NEW words, HandleRequest(words)
      PROVE  DbInv' /\ (Abstract!DocNext \/ UNCHANGED <<Stored, told, counted>>)
  <2>1. CASE Handled(words) = "context_compact"
    <3>1. Compact
      BY <1>7, <2>1 DEF HandleRequest
    <3> QED
      BY <1>4, <3>1
  <2>2. CASE Handled(words) = "rag_search"
    <3>1. PICK fits \in BOOLEAN : Search(3, fits)
      BY <1>7, <2>2 DEF HandleRequest
    <3> QED
      BY <1>5, <3>1, RetrieveAssumption
  <2>3. CASE Handled(words) \notin {"context_compact", "rag_search"}
    <3>1. UNCHANGED dbVars
      BY <1>7, <2>3 DEF HandleRequest
    <3>2. UNCHANGED <<docs, index>> /\ told' = told /\ counted' = counted
      BY <3>1 DEF dbVars
    <3> QED
      BY <1>1, <3>2
  <2> QED
    BY <2>1, <2>2, <2>3
<1> QED
  BY <1>2, <1>3, <1>4, <1>5, <1>6, <1>7 DEF DbNext

(* The vector with its tombstones, the map of positions and the scans do   *)
(* what DocStore promises, whatever is inserted over tombstones, compacted *)
(* in between or asked by a client of the server: nothing is lost, comes   *)
(* back or is found elsewhere, and a search is answered the nearest        *)
(* (dxdb.cpp:23-86, dxmcp.cpp:19-46).                                      *)
THEOREM DocumentsKept == Spec => KeepsDocuments
<1>1. Init => DbInv /\ Abstract!DocInit
  BY StartsEmpty DEF Init
<1>2. DbInv /\ [Next]_vars => DbInv' /\ [Abstract!DocNext]_<<Stored, told, counted>>
  <2> SUFFICES ASSUME DbInv, [Next]_vars
               PROVE  DbInv' /\ (Abstract!DocNext \/ UNCHANGED <<Stored, told, counted>>)
    OBVIOUS
  <2>1. CASE DbNext
    BY <2>1, StepsAsPromised
  <2>2. CASE UNCHANGED dbVars
    BY <2>2 DEF dbVars, DbInv, Stored
  <2> QED
    BY <2>1, <2>2 DEF Next, UseDocuments, UseContext, UsePages, UseWeights, vars
<1> QED
  BY <1>1, <1>2, PTL DEF Spec, KeepsDocuments, Abstract!DocSpec
=============================================================================
