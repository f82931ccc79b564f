SPECIFICATION Spec
CONSTANTS
  Ids = {"a", "b", "c"}
  Documents = {"near", "far", "short"}
  Similarity <- MCSimilarity
  Wanted = {1, 2, 3}
  MaxDocs = 3
  Window = 2
  MaxTokens = 6
  Offloading = TRUE
  FirstTarget = 5
  Block = 2
  Targets = {0, 1, 2, 3, 5, 7}
  Appended = {1, 3}
  Words = 8
  Length = 5
  PageSize = 2
  Seqs = {"s1", "s2", "s3", "s4"}
  NoPage = NoPage
  GgufFiles <- MCFiles
  Alignments = {2, 4}
  Chunk = 2
  Hash <- MCHash
INVARIANTS
  OnlyOddFilesMislead
  
  OnlyStolenPagesAreShared
PROPERTIES
  KeepsDocuments
CHECK_DEADLOCK FALSE
