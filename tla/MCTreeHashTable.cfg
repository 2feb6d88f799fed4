SPECIFICATION FairSpec
CONSTANTS
  Hashes <- Hashes6
  Twins = {1}
  Key <- MCKey
  Elem <- MCElem
  GetKey <- MCGetKey
  Hash <- Hashes6
  MaxLost = 3
INVARIANTS TypeOK OneHome KeysUnique LoadBound SizeCounts IterationExact
PROPERTIES RehashCompletes ImplementsKeyedSet
