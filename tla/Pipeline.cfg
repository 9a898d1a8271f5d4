SPECIFICATION FairSpec
CONSTANTS
  FilesData <- MCFiles
  ZIPCRYPTO_HEADER = 2
  BLOCK_SIZE = 2
  LIMBS = 2
  LIMB_MOD = 2
  PLACES <- MCPlaces
  WINDOW = 3
INVARIANTS TypeOK PlainInOrder NothingLostAtEnd OnlyBadFilesFail
PROPERTIES CountsAsAssumed FileEnds NearsItsReturn
\* A file that is over, or that failed, is not updated any more.
CHECK_DEADLOCK FALSE
