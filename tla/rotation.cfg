SPECIFICATION FairSpec
CONSTANTS
  Invocation = {i1}
  k1 = k1
  k2 = k2
  k3 = k3
  Key = {k1, k2, k3, k4, k5, k6, k7, k8}
  NoKey = NoKey
  MaxCrashes = 3
  Bootstrap <- MCBootstrap
CHECK_DEADLOCK FALSE
INVARIANTS
  SigningKeysEnabled
  DroppedKeysAreRetired
PROPERTIES
  SlidesInOrder
  RotationsAreFinished
