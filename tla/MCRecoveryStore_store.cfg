SPECIFICATION StoreSpec
CONSTANTS
  w1 = w1
  w2 = w2
  Owners <- MCOwners
  States <- MCStates
  Blobs <- MCBlobs
  BlobsOf <- MCBlobsOf
  InitialState = 1
  Times <- MCTimes
  Keep = 1
  MaxOperations = 3
  NoOwner = NoOwner
  NoTime = NoTime
  ObjectsDir = ObjectsDir
INVARIANTS CatalogsWhole NeededKept
CHECK_DEADLOCK FALSE
SYMMETRY MCSymmetry
