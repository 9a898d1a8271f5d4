SPECIFICATION Spec
CONSTANTS
  Archives <- DescribedArchives
  UsizeMod <- MCUsize64
  LFH_MIN <- MCLfhMin
  MaxFaults = 0
  Passwords = {"none"}
INVARIANTS EndMeansAllContent
