SPECIFICATION Spec
CONSTANTS
  Archives <- LargeArchives
  UsizeMod <- MCUsize32
  LFH_MIN <- MCLfhMin
  MaxFaults = 0
  Passwords = {"none"}
INVARIANTS ZeroMeansTooLittle
