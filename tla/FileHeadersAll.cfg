SPECIFICATION Spec
CONSTANTS
  Headers <- AllHeaders
  Lengths <- MCLengths
  LFH_CONSTANT_SIZE = 2
  CDFH_CONSTANT_SIZE = 3
  U16_MAX <- MCU16
  U32_MAX <- MCU32
  U64_MOD <- MCMod
INVARIANTS TypeOK FieldsTile HeaderInBuffer SameHeader AcceptedFromMore PanicsKnown
           ReadsWhatWasWritten
