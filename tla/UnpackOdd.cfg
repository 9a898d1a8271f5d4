SPECIFICATION Spec
CONSTANTS
  Archives <- OddArchives
  UsizeMod <- MCUsize64
  LFH_MIN <- MCLfhMin
  MaxFaults = 2
  Passwords = {"none", "wrong", "right"}
INVARIANTS TypeOK PositionInStep PositionOnDisk DataInStep CheckpointInStep PassedFilesDelivered SkipsWhatItHas
\* A malformed archive may leave the caller without the bytes it is asked for.
CHECK_DEADLOCK FALSE
