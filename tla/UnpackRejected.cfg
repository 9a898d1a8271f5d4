SPECIFICATION Spec
CONSTANTS
  Archives <- RejectedArchives
  UsizeMod <- MCUsize64
  LFH_MIN <- MCLfhMin
  MaxFaults = 0
  Passwords = {"none"}
INVARIANTS ZeroMeansTooLittle
