SPECIFICATION FairSpec
CONSTANTS
  Archives <- SaneArchives
  UsizeMod <- MCUsize64
  LFH_MIN <- MCLfhMin
  MaxFaults = 1
  Passwords = {"right"}
INVARIANTS OnlyFaultsFail MoreMeansStarved EndMeansAllContent MoreIsThere
PROPERTIES DeliversInOrder EventuallyEnds NearsTheEnd
