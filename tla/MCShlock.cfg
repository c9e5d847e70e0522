SPECIFICATION FairSpec
CONSTANTS
  Proc = {p1, p2}
  Inode = {1, 2, 3, 4, 5, 6}
  NoInode = NoInode
  MayBlock = {TRUE, FALSE}
  MayExcl = {TRUE, FALSE}
  Name = {n1, n2}
  MaxOpens = 2
INVARIANTS Exclusion StableDir CleanWhenIdle
PROPERTIES RemovalMeansUnused EveryCallReturns
