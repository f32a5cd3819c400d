CONSTANTS
  l1 = l1
  l2 = l2
  i1 = i1
  i2 = i2
  f1 = f1
  f2 = f2
  NoLoader = NoLoader
  Loaders <- MCLoaders
  Items <- MCItems
  Files <- MCFiles

SPECIFICATION FairSpec

PROPERTY RequestsReport

\* Everything is loaded, or what is left is lost.
CHECK_DEADLOCK FALSE
