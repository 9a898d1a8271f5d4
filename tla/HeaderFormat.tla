---------------------------- MODULE HeaderFormat ----------------------------
(***************************************************************************)
(* What the format says of the bytes that from_bytes is called with: the   *)
(* writer's side of FileHeaders, independent of how the program reads.     *)
(* h.layout lists the extra fields that lie one after the other from the   *)
(* first byte on, as many as there are; h.meant has what a correct writer  *)
(* meant by the header, or is empty if none can have made it; h.malformed  *)
(* tells that it has to be refused.                                        *)
(***************************************************************************)
EXTENDS FileHeaders, FiniteSets

LaidEnd(h, k) == IF k = 0 THEN 0 ELSE h.layout[k].at + h.layout[k].size

Lies(h, k) ==
  /\ h.layout[k].at = LaidEnd(h, k - 1) + FIELD_HEADER
  /\ h.layout[k].id = h.field[LaidEnd(h, k - 1)].id
  /\ h.layout[k].size = h.field[LaidEnd(h, k - 1)].size
  /\ LaidEnd(h, k) <= h.extra

\* What is left, if anything is, is not a whole field.
LaidOut(h) ==
  LET last == LaidEnd(h, Len(h.layout))
  IN /\ h.layout \in Seq(ExtraField)
     /\ \A k \in 1 .. Len(h.layout) : Lies(h, k)
     /\ last # h.extra => last + FIELD_HEADER + h.field[last].size > h.extra

\* The fields that ZIP64 stands in for: these are full.
Replaceable(h) ==
  IF h.kind = "local" THEN {"uncompressed_size", "compressed_size"}
  ELSE {"uncompressed_size", "compressed_size", "local_header_offset", "disk_number"}

Large(h) ==
  {name \in Replaceable(h) :
     h.original[name] = IF name = "disk_number" THEN U16_MAX ELSE U32_MAX}

\* It has them in this order, in eight bytes each, and four for the disk.
Preceding ==
  [uncompressed_size |-> {}, compressed_size |-> {"uncompressed_size"},
   local_header_offset |-> {"uncompressed_size", "compressed_size"},
   disk_number |-> {"uncompressed_size", "compressed_size", "local_header_offset"}]

LargeLength(h) ==
  8 * Cardinality(Preceding.disk_number \cap Large(h))
    + IF "disk_number" \in Large(h) THEN 4 ELSE 0

Zip64Field(h) == CHOOSE k \in 1 .. Len(h.layout) : First(h.layout, k, ZIP64_EXTRA_FIELD_ID)

MeantValue(h, name) ==
  IF name \in Large(h)
  THEN h.word[h.layout[Zip64Field(h)].at + 8 * Cardinality(Preceding[name] \cap Large(h))]
  ELSE IF name \in Replaceable(h) THEN h.original[name] ELSE 0

\* Before the data of an encrypted file is what its key is made with, after
\* the data of an AE-x one what authenticates it: the size counts them.
Locks(h) == h.kind = "local" /\ h.encrypted

Before(h) ==
  IF ~ Locks(h) THEN 0
  ELSE IF h.method = COMPRESSION_AEX THEN PVV + Salt[h.aex.strength] ELSE ZIPCRYPTO_HEADER

Behind(h) == IF Locks(h) /\ h.method = COMPRESSION_AEX THEN AUTH ELSE 0

(***************************************************************************)
(* What any header needs to be read: fields up to the end, room in the     *)
(* ZIP64 field for what it stands in for, and for AE-x all that is said of *)
(* the encryption.                                                         *)
(***************************************************************************)
WellFormed(h) ==
  /\ LaidEnd(h, Len(h.layout)) = h.extra
  /\ Large(h) # {} =>
       \A k \in 1 .. Len(h.layout) :
          First(h.layout, k, ZIP64_EXTRA_FIELD_ID) => h.layout[k].size >= LargeLength(h)
  /\ Locks(h) /\ h.method = COMPRESSION_AEX =>
       /\ h.aex.strength \in DOMAIN Salt
       /\ \E k \in 1 .. Len(h.layout) :
             First(h.layout, k, AEX_EXTRA_FIELD_ID) /\ h.layout[k].size >= 7

(***************************************************************************)
(* What a writer can mean: what is large is in ZIP64, and the compressed   *)
(* size is known when the header is written, with what encryption adds.    *)
(***************************************************************************)
Meaningful(h) ==
  /\ WellFormed(h)
  /\ Large(h) # {} =>
       \E k \in 1 .. Len(h.layout) : First(h.layout, k, ZIP64_EXTRA_FIELD_ID)
  /\ MeantValue(h, "compressed_size") - (Before(h) + Behind(h)) \in 0 .. U64_MOD - 1

Meaning(h) ==
  LET constant == IF h.kind = "local" THEN LFH_CONSTANT_SIZE ELSE CDFH_CONSTANT_SIZE
  IN [header_size |-> constant + h.filename + h.extra + h.comment + Before(h),
      compressed_size |-> MeantValue(h, "compressed_size") - (Before(h) + Behind(h)),
      uncompressed_size |-> MeantValue(h, "uncompressed_size"),
      local_header_offset |-> MeantValue(h, "local_header_offset"),
      disk_number |-> MeantValue(h, "disk_number"),
      encryption |-> IF ~ Locks(h) THEN "None"
                     ELSE IF h.method = COMPRESSION_AEX THEN "AEx" ELSE "ZipCrypto",
      compression_method |-> IF h.method # COMPRESSION_AEX THEN h.method
                             ELSE IF Locks(h) THEN h.aex.method ELSE "other"]

\* What is said of the headers is so.
ASSUME WrittenAssumption ==
  \A h \in Headers :
     /\ LaidOut(h)
     /\ h.malformed => ~ WellFormed(h)
     /\ \A m \in h.meant : Meaningful(h) /\ m = Meaning(h)

(***************************************************************************)
(* A header that a correct writer made says what it meant: with any of the *)
(* fields in the ZIP64 one, other extra fields around it, encrypted or     *)
(* not.  It is refused only while it is not all there.  One that nobody    *)
(* could have meant is never accepted.                                     *)
(***************************************************************************)
ReadsWhatWasWritten ==
  pc = "idle" =>
    /\ answer = "Some" => ~ header.malformed /\ \A m \in header.meant : result = m
    /\ answer = "None" => \A m \in header.meant : have < m.header_size
    /\ answer = "panic" => header.meant = {}
=============================================================================
