---------------------------- MODULE FileHeaders ----------------------------
(***************************************************************************)
(* LocalFileHeader::from_bytes and CentralDirectoryFileHeader::from_bytes, *)
(* with the extra fields, the ZIP64 and the AE-x field.                    *)
(*                                                                         *)
(* A header arrives in pieces: update parses a local header whenever it is *)
(* called, with as many bytes as there are, until it gets one, and again   *)
(* after a restart.  Here from_bytes is called any number of times with    *)
(* any number of bytes of one header.  A call is a series of actions, one  *)
(* per stage of the function and one per extra field.                      *)
(*                                                                         *)
(* Signatures are checked, and cut off, before these functions.  Names,    *)
(* dates, attributes and comments only have a length.                      *)
(*                                                                         *)
(* A definition whose name starts with Wrong is a bug that the definition  *)
(* after it does not have; the runs show that a property would notice.     *)
(***************************************************************************)
EXTENDS Integers, Sequences

CONSTANTS
  Headers,                               \* the headers under study
  LFH_CONSTANT_SIZE, CDFH_CONSTANT_SIZE,
  U16_MAX, U32_MAX,
  U64_MOD                                \* 2^64

FIELD_HEADER == 4        \* the id and the size of an extra field
ZIPCRYPTO_HEADER == 12
PVV == 2                 \* the password verification value of AE-x
AUTH == 10               \* its authentication code, which follows the data

ZIP64_EXTRA_FIELD_ID == "zip64"
AEX_EXTRA_FIELD_ID == "aex"
COMPRESSION_AEX == "aex"

\* The length of the salt for an AE-x strength; other strengths are unknown.
Salt == [s \in {1, 2, 3} |-> IF s = 1 THEN 8 ELSE IF s = 2 THEN 12 ELSE 16]

(***************************************************************************)
(* The 32 and 16 bit fields that the ZIP64 extra field may stand in for.   *)
(***************************************************************************)
Zip64OriginalData ==
  [uncompressed_size : 0 .. U32_MAX, compressed_size : 0 .. U32_MAX,
   local_header_offset : 0 .. U32_MAX, disk_number : 0 .. U16_MAX]

Zip64ProcessedData ==
  [uncompressed_size : Nat, compressed_size : Nat,
   local_header_offset : Nat, disk_number : Nat]

(***************************************************************************)
(* The bytes of a header, by what they read as.  filename, extra and       *)
(* comment are the lengths it claims.  field[o] is what the bytes at       *)
(* offset o of the extra fields read as when a field is sought there, and  *)
(* word[o] when a number is; room is how far these go, which is further    *)
(* than the extra fields.  aex is what an AE-x field says.                 *)
(***************************************************************************)
IsHeader(h) ==
  /\ h.kind \in {"local", "central"}
  /\ h.filename \in Nat /\ h.extra \in Nat /\ h.comment \in Nat
  /\ h.kind = "local" => h.comment = 0
  /\ h.encrypted \in BOOLEAN
  /\ h.method \in {"stored", "deflate", "other", COMPRESSION_AEX}
  /\ h.original \in Zip64OriginalData
  /\ h.room \in Nat /\ h.extra <= h.room
  /\ h.field \in [0 .. h.room -> [id : {ZIP64_EXTRA_FIELD_ID, AEX_EXTRA_FIELD_ID, "other"},
                                  size : Nat]]
  /\ h.word \in [0 .. h.room -> Nat]
  /\ h.aex \in [strength : Nat, method : {"stored", "deflate", "other"}]

ASSUME HeadersAssumption == \A h \in Headers : IsHeader(h)

ASSUME WidthsAssumption ==
  /\ LFH_CONSTANT_SIZE \in Nat /\ CDFH_CONSTANT_SIZE \in Nat
  /\ U16_MAX \in Nat \ {0} /\ U32_MAX \in Nat \ {0} /\ U64_MOD \in Nat \ {0}

VARIABLES
  header,    \* what the bytes say: never changes
  have,      \* how many of them the call has
  pc,        \* "idle" between calls, else the stage of the call
  answer,    \* how the last call ended: "nothing" when there was none,
             \* "None", "Some" or "panic"
  offset,    \* how far into the extra fields it is
  fields,    \* the extra fields it has read
  sizes,     \* the fields that ZIP64 may replace, once that is settled
  result,    \* what it returned, if it was Some
  accepted   \* {} or the first call that returned Some

vars == << header, have, pc, answer, offset, fields, sizes, result, accepted >>

-----------------------------------------------------------------------------
ConstantSize == IF header.kind = "local" THEN LFH_CONSTANT_SIZE ELSE CDFH_CONSTANT_SIZE
FieldsEnd == ConstantSize + header.filename + header.extra

Return(verdict) ==
  /\ pc' = "idle"
  /\ answer' = verdict
  /\ UNCHANGED << header, have >>

None ==
  /\ Return("None")
  /\ UNCHANGED << offset, fields, sizes, result, accepted >>

Panic ==
  /\ Return("panic")
  /\ UNCHANGED << offset, fields, sizes, result, accepted >>

Some(r) ==
  /\ Return("Some")
  /\ result' = r
  /\ accepted' = IF accepted = {} THEN {[have |-> have, fields |-> fields, result |-> r]}
                 ELSE accepted
  /\ UNCHANGED << offset, fields >>

\* Nothing of an earlier call is left but what the program made of it.
NoSizes ==
  [uncompressed_size |-> 0, compressed_size |-> 0, local_header_offset |-> 0,
   disk_number |-> 0]

NoResult ==
  [header_size |-> 0, compressed_size |-> 0, uncompressed_size |-> 0,
   local_header_offset |-> 0, disk_number |-> 0, encryption |-> "None",
   compression_method |-> "stored"]

(***************************************************************************)
(* from_bytes is called with n bytes.                                      *)
(***************************************************************************)
Call(n) ==
  /\ pc = "idle"
  /\ pc' = "constant"
  /\ have' = n
  /\ answer' = "nothing"
  /\ offset' = 0 /\ fields' = << >> /\ sizes' = NoSizes
  /\ result' = NoResult
  /\ UNCHANGED << header, accepted >>

\* The lengths are only read when the constant part is there.
ConstantCut ==
  /\ pc = "constant"
  /\ have < ConstantSize
  /\ None

VariableCut ==
  /\ pc = "constant"
  /\ have >= ConstantSize
  /\ have < FieldsEnd + header.comment
  /\ None

ConstantRead ==
  /\ pc = "constant"
  /\ have >= ConstantSize
  /\ have >= FieldsEnd + header.comment
  /\ pc' = "fields"
  /\ UNCHANGED << header, have, answer, offset, fields, sizes, result, accepted >>

-----------------------------------------------------------------------------
(***************************************************************************)
(* read_extra_fields and FileHeaderExtraField::from_bytes.                 *)
(***************************************************************************)
\* The extra fields are taken to go on to the end of the bytes.
WrongExtraLength == have - ConstantSize - header.filename

ExtraLength == header.extra

InFields == pc = "fields" /\ offset < ExtraLength
FieldSize == FIELD_HEADER + header.field[offset].size

\* The header of a field may be cut, or the field.
FieldWhole ==
  /\ ExtraLength >= offset + FIELD_HEADER
  /\ ExtraLength >= offset + FieldSize

FieldCut ==
  /\ InFields
  /\ ~ FieldWhole
  /\ None

\* Only the data of the field are passed.
WrongPast == header.field[offset].size

Past == FieldSize

FieldRead ==
  /\ InFields
  /\ FieldWhole
  /\ fields' = Append(fields, [id |-> header.field[offset].id,
                               at |-> offset + FIELD_HEADER,
                               size |-> header.field[offset].size])
  /\ offset' = offset + Past
  /\ UNCHANGED << header, have, pc, answer, sizes, result, accepted >>

FieldsRead ==
  /\ pc = "fields" /\ ~ InFields
  /\ pc' = "sizes"
  /\ UNCHANGED << header, have, answer, offset, fields, sizes, result, accepted >>

\* find: the first field with this id.
First(list, f, id) ==
  /\ f \in DOMAIN list
  /\ list[f].id = id
  /\ \A other \in DOMAIN list : list[other].id = id => f <= other

Absent(list, id) == \A f \in DOMAIN list : list[f].id # id

-----------------------------------------------------------------------------
(***************************************************************************)
(* Zip64OriginalData::process.  A local header has no offset and no disk.  *)
(***************************************************************************)
Original ==
  IF header.kind = "local"
  THEN [header.original EXCEPT !.local_header_offset = 0, !.disk_number = 0]
  ELSE header.original

\* How many bytes of the ZIP64 field stand in for a field that has a value.
Wide(value) == IF value = U32_MAX THEN 8 ELSE 0
WideDisk(value) == IF value = U16_MAX THEN 4 ELSE 0

\* The disk number is forgotten.
WrongRequiredZip64Size ==
  Wide(Original.uncompressed_size) + Wide(Original.compressed_size)
    + Wide(Original.local_header_offset)

RequiredZip64Size ==
  Wide(Original.uncompressed_size) + Wide(Original.compressed_size)
    + Wide(Original.local_header_offset) + WideDisk(Original.disk_number)

(***************************************************************************)
(* read_all_if_needed: a cursor goes over the field at extra offset o.     *)
(***************************************************************************)
\* The sizes in the order in which the headers have them.
WrongReadAllIfNeeded(o) ==
  LET uncompressed == o + Wide(Original.compressed_size)
      local == uncompressed + Wide(Original.uncompressed_size)
      disk == local + Wide(Original.local_header_offset)
      Read(value, max, at) == IF value = max THEN header.word[at] ELSE value
  IN [uncompressed_size |-> Read(Original.uncompressed_size, U32_MAX, uncompressed),
      compressed_size |-> Read(Original.compressed_size, U32_MAX, o),
      local_header_offset |-> Read(Original.local_header_offset, U32_MAX, local),
      disk_number |-> Read(Original.disk_number, U16_MAX, disk)]

ReadAllIfNeeded(o) ==
  LET compressed == o + Wide(Original.uncompressed_size)
      local == compressed + Wide(Original.compressed_size)
      disk == local + Wide(Original.local_header_offset)
      Read(value, max, at) == IF value = max THEN header.word[at] ELSE value
  IN [uncompressed_size |-> Read(Original.uncompressed_size, U32_MAX, o),
      compressed_size |-> Read(Original.compressed_size, U32_MAX, compressed),
      local_header_offset |-> Read(Original.local_header_offset, U32_MAX, local),
      disk_number |-> Read(Original.disk_number, U16_MAX, disk)]

\* What the cursor has read when it is done.
ReadLength ==
  Wide(Original.uncompressed_size) + Wide(Original.compressed_size)
    + Wide(Original.local_header_offset) + WideDisk(Original.disk_number)

\* The bytes that follow are counted.
WrongHeaderEnd == have

HeaderEnd == FieldsEnd + header.comment

Plain(p) ==
  [header_size |-> HeaderEnd,
   compressed_size |-> p.compressed_size, uncompressed_size |-> p.uncompressed_size,
   local_header_offset |-> p.local_header_offset, disk_number |-> p.disk_number,
   encryption |-> "None",
   compression_method |-> IF header.method = COMPRESSION_AEX THEN "other" ELSE header.method]

Continue(p) ==
  /\ sizes' = p
  /\ pc' = "encryption"
  /\ UNCHANGED << header, have, answer, offset, fields, result, accepted >>

\* A central header of an encrypted file is looked at for a salt as well.
WrongSettle(p) ==
  IF header.encrypted THEN Continue(p) ELSE Some(Plain(p)) /\ sizes' = p

\* A central header, or one of a file that is not encrypted, is complete.
Settle(p) ==
  IF header.kind = "local" /\ header.encrypted THEN Continue(p)
  ELSE Some(Plain(p)) /\ sizes' = p

\* There is nothing to replace, or nothing to replace it with.
SizesKept ==
  /\ pc = "sizes"
  /\ RequiredZip64Size = 0 \/ Absent(fields, ZIP64_EXTRA_FIELD_ID)
  /\ Settle(Original)

Zip64Cut ==
  /\ pc = "sizes"
  /\ \E f \in DOMAIN fields :
        /\ First(fields, f, ZIP64_EXTRA_FIELD_ID)
        /\ fields[f].size < RequiredZip64Size
  /\ None

\* The reads unwrap: beyond the field they would panic.
SizesReplaced ==
  /\ pc = "sizes"
  /\ RequiredZip64Size # 0
  /\ \E f \in DOMAIN fields :
        /\ First(fields, f, ZIP64_EXTRA_FIELD_ID)
        /\ fields[f].size >= RequiredZip64Size
        /\ IF fields[f].size >= ReadLength THEN Settle(ReadAllIfNeeded(fields[f].at))
           ELSE Panic

-----------------------------------------------------------------------------
(***************************************************************************)
(* The encryption of a local header.  The salt or the encryption header    *)
(* follows the extra fields and is counted in compressed_size, from which  *)
(* it is subtracted, without a check: when compressed_size is smaller, a   *)
(* build with overflow checks panics and one without them wraps.           *)
(***************************************************************************)
Encrypted(length, more, encryption, method) ==
  \/ /\ sizes.compressed_size < length + more
     /\ Panic
  \/ /\ Some([Plain(sizes) EXCEPT
                !.header_size = @ + length,
                !.compressed_size = (@ - (length + more)) % U64_MOD,
                !.encryption = encryption,
                !.compression_method = method])
     /\ UNCHANGED sizes

ZipCryptoCut ==
  /\ pc = "encryption" /\ header.method # COMPRESSION_AEX
  /\ FieldsEnd + ZIPCRYPTO_HEADER > have
  /\ None

ZipCryptoRead ==
  /\ pc = "encryption" /\ header.method # COMPRESSION_AEX
  /\ FieldsEnd + ZIPCRYPTO_HEADER <= have
  /\ Encrypted(ZIPCRYPTO_HEADER, 0, "ZipCrypto", header.method)

AtAEx == pc = "encryption" /\ header.method = COMPRESSION_AEX

\* size() counts the header of the field.
AExField(size) ==
  /\ AtAEx
  /\ \E f \in DOMAIN fields : First(fields, f, AEX_EXTRA_FIELD_ID) /\ fields[f].size = size

AExAbsent ==
  /\ AtAEx
  /\ Absent(fields, AEX_EXTRA_FIELD_ID)
  /\ None

AExTooShort ==
  /\ \E size \in 0 .. 6 - FIELD_HEADER : AExField(size)
  /\ None

\* data[4] of a field that has no more than four bytes.
AExStrengthBeyond ==
  /\ \E size \in 7 - FIELD_HEADER .. 4 : AExField(size)
  /\ Panic

AExLongerThan(n) ==
  /\ AtAEx
  /\ \E f \in DOMAIN fields : First(fields, f, AEX_EXTRA_FIELD_ID) /\ fields[f].size > n

AExUnknown ==
  /\ AExLongerThan(4)
  /\ header.aex.strength \notin DOMAIN Salt
  /\ None

AExKnown == AExLongerThan(4) /\ header.aex.strength \in DOMAIN Salt

\* The password verification value is not waited for.
WrongAExWhole == FieldsEnd + Salt[header.aex.strength] <= have

AExWhole == FieldsEnd + Salt[header.aex.strength] + PVV <= have

AExCut ==
  /\ AExKnown
  /\ ~ AExWhole
  /\ None

\* data[5] or data[6] of a field that has no more than six bytes.
AExMethodBeyond ==
  /\ AExKnown
  /\ AExWhole
  /\ \E size \in 5 .. 6 : AExField(size)
  /\ Panic

AExLength == Salt[header.aex.strength] + PVV

AExRead ==
  /\ AExKnown
  /\ AExWhole
  /\ AExLongerThan(6)
  /\ Encrypted(AExLength, AUTH, "AEx", header.aex.method)

-----------------------------------------------------------------------------
CONSTANT Lengths(_)  \* how many bytes of a header there may be

ASSUME LengthsAssumption == \A h \in Headers : Lengths(h) \subseteq Nat

FromBytes ==
  \/ ConstantCut \/ VariableCut \/ ConstantRead
  \/ FieldCut \/ FieldRead \/ FieldsRead
  \/ SizesKept \/ Zip64Cut \/ SizesReplaced
  \/ ZipCryptoCut \/ ZipCryptoRead
  \/ AExAbsent \/ AExTooShort \/ AExStrengthBeyond \/ AExUnknown \/ AExCut
  \/ AExMethodBeyond \/ AExRead

Init ==
  /\ header \in Headers
  /\ have = 0
  /\ pc = "idle" /\ answer = "nothing"
  /\ offset = 0 /\ fields = << >>
  /\ sizes = NoSizes
  /\ result = NoResult
  /\ accepted = {}

Next == FromBytes \/ \E n \in Lengths(header) : Call(n)

Spec == Init /\ [][Next]_vars

-----------------------------------------------------------------------------
(***************************************************************************)
(* The type invariant of from_bytes and its calls.                         *)
(***************************************************************************)
ExtraField == [id : {ZIP64_EXTRA_FIELD_ID, AEX_EXTRA_FIELD_ID, "other"}, at : Nat, size : Nat]

FileHeader ==
  [header_size : Nat, compressed_size : Nat, uncompressed_size : Nat,
   local_header_offset : Nat, disk_number : Nat,
   encryption : {"None", "ZipCrypto", "AEx"},
   compression_method : {"stored", "deflate", "other"}]

TypeOK ==
  /\ IsHeader(header)
  /\ have \in Nat
  /\ pc \in {"idle", "constant", "fields", "sizes", "encryption"}
  /\ answer \in {"nothing", "None", "Some", "panic"}
  /\ pc # "idle" => answer = "nothing"
  /\ pc = "encryption" => header.kind = "local" /\ header.encrypted
  /\ offset \in Nat
  /\ fields \in Seq(ExtraField)
  /\ sizes \in Zip64ProcessedData
  /\ result \in FileHeader
  /\ accepted \subseteq [have : Nat, fields : Seq(ExtraField), result : FileHeader]

(***************************************************************************)
(* The extra fields that were read lie one after the other, from the first *)
(* byte, each as long as it says, and none beyond the bytes that the       *)
(* header gives them, which are there.                                     *)
(***************************************************************************)
FieldEnd(f) == fields[f].at + fields[f].size

FieldsTile ==
  pc = "fields" =>
    /\ offset <= header.extra
    /\ FieldsEnd <= have
    /\ fields = << >> => offset = 0
    /\ fields # << >> =>
         fields[1].at = FIELD_HEADER /\ FieldEnd(Len(fields)) = offset
    /\ \A f \in 2 .. Len(fields) : fields[f].at = FieldEnd(f - 1) + FIELD_HEADER

(***************************************************************************)
(* update passes over header_size bytes of its buffer: there are that many.*)
(***************************************************************************)
HeaderInBuffer ==
  pc = "idle" /\ answer = "Some" =>
    /\ ConstantSize <= result.header_size
    /\ result.header_size <= have

(***************************************************************************)
(* What is read of a header does not depend on how many of the bytes that  *)
(* follow it are there: a program that parses a header again (after a      *)
(* restart, or because a callback failed) gets what it got before.         *)
(***************************************************************************)
SameHeader ==
  pc = "idle" /\ answer = "Some" => \A a \in accepted : result = a.result

(***************************************************************************)
(* A header that was read from some bytes is read from more of them: None  *)
(* is for too few bytes, or for ever.                                      *)
(***************************************************************************)
AcceptedFromMore ==
  pc = "idle" /\ answer = "None" => \A a \in accepted : have < a.have

(***************************************************************************)
(* "Returns None if there isn't enought data" (both from_bytes): and       *)
(* nothing worse.                                                          *)
(***************************************************************************)
NeverPanics == answer # "panic"

(***************************************************************************)
(* The only panics are those of an AE-x field of three to six bytes and of *)
(* a size that is less than what is subtracted from it.                    *)
(***************************************************************************)
Subtracted ==
  IF header.method = COMPRESSION_AEX
  THEN IF header.aex.strength \in DOMAIN Salt THEN AExLength + AUTH ELSE 0
  ELSE ZIPCRYPTO_HEADER

OddAExField ==
  \E f \in DOMAIN fields : fields[f].id = AEX_EXTRA_FIELD_ID /\ fields[f].size \in 3 .. 6

PanicsKnown ==
  pc = "idle" /\ answer = "panic" =>
    /\ header.kind = "local" /\ header.encrypted
    /\ OddAExField \/ sizes.compressed_size < Subtracted
=============================================================================
