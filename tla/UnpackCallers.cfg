SPECIFICATION CallersSpec
CONSTANTS
  Archives <- CallersArchives
  UsizeMod <- MCUsize64
  LFH_MIN <- MCLfhMin
  MaxFaults = 2
  Passwords = {"none", "right"}
INVARIANTS CallersTypeOK AheadByWhatWasLost HarmlessUntilSpoilt MultipartExtracts
\* Either caller may be left without anything to pass.
CHECK_DEADLOCK FALSE
