SPECIFICATION Spec
CONSTANTS
  Key <- MCKey
  Elem <- MCElem
  GetKey <- MCGetKey
  HashOf <- MCHashes
  MaxLost = 3
  Others <- MCOthers
INVARIANTS TypeOK Reachable KeysUnique SizeCounts IterationExact CloneFaithful
  SetOperationsExact SelfOperations
PROPERTY ImplementsKeyedSet
