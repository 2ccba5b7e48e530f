SPECIFICATION KmSpec
CONSTANTS
  small = small
  big = big
  Keys = {1, 2, 3, 4}
  Values = {small, big}
  Tomb = Tomb
  Absent = Absent
  None = None
  Panic = Panic
  KeyLen <- Lengths
  ValLen <- Sizes
  BlockSize = 4096
  BloomM = 5
  BloomK = 2
  WordBits = 4
  Hash1 <- FirstHash
  Hash2 <- SecondHash
  Inputs <- TwoOrThreeFiles
  Faults = {"open", "read", "write"}
INVARIANTS KmInv FlushedLookUpExact MergedLookUpExact
CHECK_DEADLOCK FALSE
