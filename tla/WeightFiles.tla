---------------------------- MODULE WeightFiles -----------------------------
(***************************************************************************)
(* ingest_gguf and TensorIndex, src/dxstream/dxstream.cpp, as the tool     *)
(* tools/dxai_ingest and the clients of an index use them: a GGUF file     *)
(* becomes weights.bin and index.bin, and a client loads the index.        *)
(*                                                                         *)
(* Data is counted in units.  A unit of a file belongs to a tensor, or     *)
(* fills a gap.  Left out: a second tensor at the same offset, and writes  *)
(* to weights.bin that fail, which ingest_gguf does not look at.           *)
(***************************************************************************)
EXTENDS Naturals, Sequences, SequencesExt, FiniteSets

CONSTANTS
  GgufFiles,   (* [values, table, padding, length]: the metadata, the      *)
               (* tensors in the order of their table, the units between   *)
               (* the table and the data, the units there are after it     *)
  Alignments,
  Chunk,       (* units a read of ingest_gguf takes at most                *)
  Hash         (* fnv1a64 of the numbers the entries of an index go by     *)

Widths == {"u8", "u16", "u32", "u64"}
Values == [type : Widths] \cup [type : {"string"}, length : Nat]
                          \cup [type : {"array"}, of : Widths, length : Nat]

(* What a writer of GGUF makes: tensors have names of their own and do not *)
(* overlap.                                                                *)
WellFormed(gguf) ==
  /\ gguf.values \in Seq(Values)
  /\ gguf.table \in Seq([name : STRING, offset : Nat, size : Nat])
  /\ gguf.padding \in Nat /\ gguf.length \in Nat
  /\ \A i, j \in 1 .. Len(gguf.table) : i # j =>
       LET s == gguf.table[i]
           t == gguf.table[j] IN
       s.name # t.name /\ (s.offset + s.size <= t.offset \/ t.offset + t.size <= s.offset)
                       /\ s.offset # t.offset

ASSUME WeightAssumption ==
  /\ Alignments \subseteq Nat \ {0} /\ Chunk \in Nat \ {0}
  /\ \A gguf \in GgufFiles : WellFormed(gguf)

VARIABLES
  weights,     (* weights.bin                                              *)
  indexFile,   (* index.bin                                                *)
  tool,        (* what dxai_ingest is doing                                *)
  loaded,      (* the TensorIndex of a client, and what load told it       *)
  refused      (* history: the file ingest_gguf returned false for last    *)

weightVars == <<weights, indexFile, tool, loaded, refused>>

NoWeights == [of |-> "none"]
ToolRests == [at |-> "rest"]
Empty     == [count |-> 0, alignment |-> 0, payload |-> 0]
NoIndex   == [of |-> NoWeights, header |-> Empty, coords |-> <<>>]

WeightInit ==
  /\ weights = NoWeights
  /\ indexFile = NoIndex
  /\ tool = ToolRests
  /\ loaded = [header |-> Empty, entries |-> <<>>, good |-> FALSE, of |-> NoWeights]
  /\ refused = {}

Smaller(a, b) == IF a < b THEN a ELSE b

-----------------------------------------------------------------------------
(* Metadata: how wide a value is, and how far skip_gguf_val goes for it,   *)
(* which takes 16 bits for 32.                                             *)
TrueWidth == [u8 |-> 1, u16 |-> 2, u32 |-> 4, u64 |-> 8]
SkipWidth == [u8 |-> 1, u16 |-> 4, u32 |-> 4, u64 |-> 8]

Extent(v, width) ==
  CASE v.type = "string" -> 8 + v.length
    [] v.type = "array"  -> 12 + v.length * width[v.of]
    [] OTHER             -> width[v.type]

(* A value skipped too far has its end read as the length of a name, which *)
(* is then beyond the limit.                                               *)
Parses(gguf) ==
  \A i \in DOMAIN gguf.values : Extent(gguf.values[i], SkipWidth) = Extent(gguf.values[i], TrueWidth)

(* The unit at a distance from the end of the table: the data may start    *)
(* later than that.                                                        *)
Unit(gguf, at) ==
  LET here(t) == at >= gguf.padding + t.offset /\ at < gguf.padding + t.offset + t.size IN
  IF \E i \in DOMAIN gguf.table : here(gguf.table[i])
  THEN LET t == gguf.table[CHOOSE i \in DOMAIN gguf.table : here(gguf.table[i])]
       IN <<t.name, at - gguf.padding - t.offset>>
  ELSE <<"gap">>

-----------------------------------------------------------------------------
(* Where a tensor of the table comes when they are sorted by offset.       *)
Rank(table, i) == 1 + Cardinality({j \in 1 .. Len(table) : table[j].offset < table[i].offset})

Sorted(gguf) ==
  LET table == gguf.table IN
  [k \in 1 .. Len(table) |-> table[CHOOSE i \in 1 .. Len(table) : Rank(table, i) = k]]

(* The gap to the next tensor; the last one ends with the file.            *)
SizeOf(gguf, i) ==
  LET ts == Sorted(gguf) IN
  IF i < Len(gguf.table) THEN ts[i + 1].offset - ts[i].offset
  ELSE IF ts[i].offset <= gguf.length THEN gguf.length - ts[i].offset ELSE 0

(* Mutant: a slice starts at the boundary before.                          *)
AlignDown(n, alignment) == (n \div alignment) * alignment

AlignUp(n, alignment) == ((n + alignment - 1) \div alignment) * alignment

(* Where weights.bin ends after each slice; the next starts at a boundary. *)
Cursors(gguf, alignment) ==
  LET cursor[i \in 0 .. Len(gguf.table)] ==
        IF i = 0 THEN 0 ELSE AlignUp(cursor[i - 1], alignment) + SizeOf(gguf, i)
  IN cursor

(* A chunk that cannot be read whole is zeros, and so is all after it.     *)
Copied(gguf, i, k) ==
  LET src == Sorted(gguf)[i].offset
      end == Smaller((k \div Chunk + 1) * Chunk, SizeOf(gguf, i)) IN
  IF src + end <= gguf.length THEN Unit(gguf, src + k) ELSE <<"zero">>

Ingested(gguf, alignment) ==
  LET cursor == Cursors(gguf, alignment)
      n      == Len(gguf.table) IN
  [coords  |-> [i \in 1 .. n |-> [name |-> Sorted(gguf)[i].name,
                                  offset |-> AlignUp(cursor[i - 1], alignment),
                                  size |-> SizeOf(gguf, i)]],
   payload |-> cursor[n]]

(* What is found at a position of weights.bin.                             *)
WeightUnit(gguf, alignment, at) ==
  LET coords == Ingested(gguf, alignment).coords
      in(i)  == at >= coords[i].offset /\ at < coords[i].offset + coords[i].size IN
  IF \E i \in DOMAIN coords : in(i)
  THEN LET i == CHOOSE i \in DOMAIN coords : in(i) IN Copied(gguf, i, at - coords[i].offset)
  ELSE <<"zero">>

-----------------------------------------------------------------------------
(* dxai_ingest: ingest_gguf refuses a file it cannot parse before it       *)
(* touches weights.bin, and one without payload after.  Until it is done   *)
(* nothing is said of what weights.bin holds.                              *)
IngestRefused(gguf) ==
  /\ tool = ToolRests
  /\ ~Parses(gguf)
  /\ refused' = {gguf}
  /\ UNCHANGED <<weights, indexFile, tool, loaded>>

IngestOpens(gguf, alignment) ==
  /\ tool = ToolRests
  /\ Parses(gguf)
  /\ weights' = NoWeights
  /\ tool' = [at |-> "writes", of |-> gguf, alignment |-> alignment]
  /\ UNCHANGED <<indexFile, loaded, refused>>

IngestWrites ==
  /\ tool.at = "writes"
  /\ LET made == [of |-> tool.of, alignment |-> tool.alignment]
         done == Ingested(tool.of, tool.alignment).payload > 0 IN
     /\ weights' = made
     /\ tool' = IF done THEN [tool EXCEPT !.at = "index"] ELSE ToolRests
     /\ refused' = IF done THEN refused ELSE {tool.of}
  /\ UNCHANGED <<indexFile, loaded>>

(* TensorIndex::build; the tags are kept in memory only.                   *)
Built(gguf, alignment) ==
  LET made == Ingested(gguf, alignment) IN
  [header  |-> [count |-> Len(made.coords), alignment |-> alignment, payload |-> made.payload],
   coords  |-> made.coords]

(* to_blob, of which the first n coordinates reach the disk                *)
Blob(gguf, alignment, n) ==
  LET built == Built(gguf, alignment) IN
  [of |-> [of |-> gguf, alignment |-> alignment],
   header |-> built.header, coords |-> SubSeq(built.coords, 1, n)]

(* save: all of them, if it returned true                                  *)
SavesIndex ==
  /\ tool.at = "index"
  /\ \E n \in 0 .. Len(tool.of.table) : indexFile' = Blob(tool.of, tool.alignment, n)
  /\ tool' = ToolRests
  /\ UNCHANGED <<weights, loaded, refused>>

ToolDies ==
  /\ tool # ToolRests
  /\ tool' = ToolRests
  /\ UNCHANGED <<weights, indexFile, loaded, refused>>

-----------------------------------------------------------------------------
(* load: a file of nothing but a header is refused at once; from_blob has  *)
(* taken the header when it finds that coordinates are missing.            *)
LoadRefused ==
  /\ indexFile.coords = <<>>
  /\ loaded' = [loaded EXCEPT !.good = FALSE]
  /\ UNCHANGED <<weights, indexFile, tool, refused>>

LoadTears ==
  /\ indexFile.coords # <<>>
  /\ Len(indexFile.coords) < indexFile.header.count
  /\ loaded' = [loaded EXCEPT !.header = indexFile.header, !.good = FALSE]
  /\ UNCHANGED <<weights, indexFile, tool, refused>>

AllThere == indexFile.coords # <<>> /\ Len(indexFile.coords) >= indexFile.header.count

(* Entries go by their number from here on.                                *)
Load ==
  /\ AllThere
  /\ loaded' = [header |-> indexFile.header, entries |-> indexFile.coords, good |-> TRUE, of |-> indexFile.of]
  /\ UNCHANGED <<weights, indexFile, tool, refused>>

WeightNext ==
  \/ \E gguf \in GgufFiles : IngestRefused(gguf) \/ \E a \in Alignments : IngestOpens(gguf, a)
  \/ IngestWrites \/ SavesIndex \/ ToolDies
  \/ LoadRefused \/ LoadTears \/ Load

(* lookup of the i-th number: the last of the entries with that hash.      *)
Found(index, i) ==
  LET same == {j \in 1 .. Len(index.entries) : Hash[j] = Hash[i]} IN
  IF same = {} THEN {} ELSE {index.entries[CHOOSE j \in same : \A k \in same : k <= j]}

-----------------------------------------------------------------------------
IsShort(v) == v.type = "u16" \/ (v.type = "array" /\ v.of = "u16")
IsCut(gguf)  == \E i \in 1 .. Len(gguf.table) : gguf.table[i].offset + gguf.table[i].size > gguf.length
HasData(gguf) == \E i \in 1 .. Len(gguf.table) : gguf.table[i].offset < gguf.length

(* A slice at this position holds the tensor, or the zeros of a cut file.  *)
Holds(gguf, alignment, at, t) ==
  \A k \in 0 .. t.size - 1 :
    LET unit == WeightUnit(gguf, alignment, at + k) IN
    unit = <<t.name, k>> \/ (IsCut(gguf) /\ unit = <<"zero">>)

(* An index a client has loaded, with the weights.bin made along with it:  *)
(* every entry is found under its number, unless a later one has the same  *)
(* hash; the slices are aligned, in order, apart and within the payload,   *)
(* and a slice holds its tensor unit by unit; only the end of a file that  *)
(* is cut short is zeros, and only in a file with padding before its data  *)
(* are slices displaced.  Only files with 16-bit metadata, or with no data *)
(* of a tensor, are refused (dxstream.cpp:25-92 and 246-354).              *)
OnlyOddFilesMislead ==
  /\ \A gguf \in refused :
       (\E i \in 1 .. Len(gguf.values) : IsShort(gguf.values[i])) \/ ~HasData(gguf)
  /\ loaded.good /\ weights = loaded.of =>
       LET gguf == weights.of IN
       \A i \in 1 .. Len(loaded.entries) : LET c == loaded.entries[i] IN
         /\ (\A j \in i + 1 .. Len(loaded.entries) : Hash[j] # Hash[i]) => Found(loaded, i) = {c}
         /\ c.offset % loaded.header.alignment = 0
         /\ c.offset + c.size <= loaded.header.payload
         /\ \A j \in 1 .. i - 1 : loaded.entries[j].offset + loaded.entries[j].size <= c.offset
         /\ gguf.padding = 0 =>
              \A j \in 1 .. Len(gguf.table) : gguf.table[j].name = c.name =>
                Holds(gguf, weights.alignment, c.offset, gguf.table[j])
=============================================================================
