------------------------- MODULE FileHeadersProofs -------------------------
(***************************************************************************)
(* Proofs about FileHeaders, for every set of headers and every way of     *)
(* calling from_bytes with pieces of one.                                  *)
(***************************************************************************)
EXTENDS HeaderFormat, FiniteSetTheorems, TLAPS

(***************************************************************************)
(* What is known of the extra fields that have been read: each is where    *)
(* the one before it ends, says what the bytes there say, and ends inside  *)
(* the bytes that the header gives to extra fields.                        *)
(***************************************************************************)
Ends(list) == IF list = << >> THEN 0 ELSE list[Len(list)].at + list[Len(list)].size

Walk(list) ==
  \A f \in 1 .. Len(list) :
     /\ list[f].at >= FIELD_HEADER
     /\ list[f].at + list[f].size <= header.extra
     /\ list[f].id = header.field[list[f].at - FIELD_HEADER].id
     /\ list[f].size = header.field[list[f].at - FIELD_HEADER].size
     /\ f = 1 => list[f].at = FIELD_HEADER
     /\ f > 1 => list[f].at = list[f - 1].at + list[f - 1].size + FIELD_HEADER

\* p is what process makes of the fields in list.
Settled(list, p) ==
  \/ /\ RequiredZip64Size = 0 \/ Absent(list, ZIP64_EXTRA_FIELD_ID)
     /\ p = Original
  \/ /\ RequiredZip64Size # 0
     /\ \E f \in 1 .. Len(list) :
           /\ First(list, f, ZIP64_EXTRA_FIELD_ID)
           /\ list[f].size >= RequiredZip64Size
           /\ p = ReadAllIfNeeded(list[f].at)

Walked ==
  /\ header \in Headers
  /\ Walk(fields)
  /\ pc \in {"fields", "sizes", "encryption"} => HeaderEnd <= have
  /\ pc = "constant" => fields = << >> /\ offset = 0
  /\ pc = "fields" => offset = Ends(fields) /\ offset <= header.extra
  /\ pc \in {"sizes", "encryption"} => Ends(fields) = header.extra
  /\ pc = "encryption" => Settled(fields, sizes)

Read == TypeOK /\ Walked

-----------------------------------------------------------------------------
(***************************************************************************)
(* How much ZIP64 asks for, and that what it yields are numbers.           *)
(***************************************************************************)
LEMMA RequiredFacts ==
  ASSUME IsHeader(header)
  PROVE  /\ Original \in Zip64OriginalData
         /\ RequiredZip64Size \in Nat
         /\ ReadLength = RequiredZip64Size
  <1>1. Original \in Zip64OriginalData
    <2>1. header.original \in Zip64OriginalData
      BY DEF IsHeader
    <2>2. 0 \in 0 .. U32_MAX /\ 0 \in 0 .. U16_MAX
      BY WidthsAssumption
    <2>. QED BY <2>1, <2>2 DEF Original, Zip64OriginalData
  <1>2. \A value : Wide(value) \in Nat /\ WideDisk(value) \in Nat
    BY DEF Wide, WideDisk
  <1>3. RequiredZip64Size \in Nat
    BY <1>2 DEF RequiredZip64Size
  <1>4. ReadLength = RequiredZip64Size
    BY DEF ReadLength, RequiredZip64Size
  <1>. QED BY <1>1, <1>3, <1>4

LEMMA WordRead ==
  ASSUME IsHeader(header), NEW o \in Nat, o + RequiredZip64Size <= header.extra
  PROVE  ReadAllIfNeeded(o) \in Zip64ProcessedData
  <1>. DEFINE u == Original.uncompressed_size
              c == Original.compressed_size
              l == Original.local_header_offset
              d == Original.disk_number
              at2 == o + Wide(u)
              at3 == at2 + Wide(c)
              at4 == at3 + Wide(l)
  <1>1. u \in Nat /\ c \in Nat /\ l \in Nat /\ d \in Nat
    BY RequiredFacts, WidthsAssumption DEF Zip64OriginalData
  <1>2. /\ Wide(u) \in {0, 8} /\ Wide(c) \in {0, 8} /\ Wide(l) \in {0, 8} /\ WideDisk(d) \in {0, 4}
    BY DEF Wide, WideDisk
  <1>3. at4 + WideDisk(d) <= header.extra
    BY <1>2 DEF RequiredZip64Size, IsHeader
  <1>4. /\ header.extra \in Nat /\ header.room \in Nat /\ header.extra <= header.room
        /\ header.word \in [0 .. header.room -> Nat]
    BY DEF IsHeader
  <1>5. /\ at2 \in Nat /\ at3 \in Nat /\ at4 \in Nat
        /\ o <= at4 /\ at2 <= at4 /\ at3 <= at4 /\ at4 <= header.extra
    BY <1>2, <1>3, <1>4
  <1>6. \A at \in {o, at2, at3, at4} : header.word[at] \in Nat
    <2>1. \A at \in {o, at2, at3, at4} : at \in 0 .. header.room
      BY <1>4, <1>5
    <2>. QED BY <2>1, <1>4
  <1>. QED
    BY <1>1, <1>6 DEF ReadAllIfNeeded, Zip64ProcessedData

LEMMA OriginalProcessed ==
  ASSUME IsHeader(header)
  PROVE  Original \in Zip64ProcessedData
  BY RequiredFacts, WidthsAssumption DEF Zip64OriginalData, Zip64ProcessedData

LEMMA SettledType ==
  ASSUME IsHeader(header), NEW list \in Seq(ExtraField), Walk(list), NEW p, Settled(list, p)
  PROVE  p \in Zip64ProcessedData
  <1>1. CASE p = Original
    BY <1>1, OriginalProcessed
  <1>2. CASE p # Original
    <2>1. PICK f \in 1 .. Len(list) :
             list[f].size >= RequiredZip64Size /\ p = ReadAllIfNeeded(list[f].at)
      BY <1>2 DEF Settled
    <2>2. list[f].at \in Nat /\ list[f].size \in Nat
      <3>1. list[f] \in ExtraField
        OBVIOUS
      <3>. QED BY <3>1 DEF ExtraField
    <2>3. list[f].at + list[f].size <= header.extra
      BY DEF Walk
    <2>4. list[f].at + RequiredZip64Size <= header.extra
      BY <2>1, <2>2, <2>3, RequiredFacts DEF IsHeader
    <2>. QED BY <2>1, <2>2, <2>4, WordRead
  <1>. QED BY <1>1, <1>2

\* process is a function of the fields.
LEMMA SettledOnce ==
  ASSUME NEW list \in Seq(ExtraField), NEW p, NEW q, Settled(list, p), Settled(list, q)
  PROVE  p = q
  <1>1. CASE RequiredZip64Size = 0 \/ Absent(list, ZIP64_EXTRA_FIELD_ID)
    BY <1>1 DEF Settled, First, Absent
  <1>2. CASE ~ (RequiredZip64Size = 0 \/ Absent(list, ZIP64_EXTRA_FIELD_ID))
    <2>1. PICK f \in 1 .. Len(list) :
             First(list, f, ZIP64_EXTRA_FIELD_ID) /\ p = ReadAllIfNeeded(list[f].at)
      BY <1>2 DEF Settled
    <2>2. PICK g \in 1 .. Len(list) :
             First(list, g, ZIP64_EXTRA_FIELD_ID) /\ q = ReadAllIfNeeded(list[g].at)
      BY <1>2 DEF Settled
    <2>3. f <= g /\ g <= f
      BY <2>1, <2>2 DEF First
    <2>4. f = g
      BY <2>3
    <2>. QED BY <2>1, <2>2, <2>4
  <1>. QED BY <1>1, <1>2

-----------------------------------------------------------------------------
\* The header does not change, nor what is said of it.
LEMMA HeaderFixed ==
  ASSUME header' = header
  PROVE  /\ Original' = Original
         /\ RequiredZip64Size' = RequiredZip64Size
         /\ ReadLength' = ReadLength
         /\ HeaderEnd' = HeaderEnd
         /\ \A o : ReadAllIfNeeded(o)' = ReadAllIfNeeded(o)
         /\ \A list : Walk(list)' <=> Walk(list)
         /\ \A list, p : Settled(list, p)' <=> Settled(list, p)
  <1>1. Original' = Original
    BY DEF Original
  <1>2. RequiredZip64Size' = RequiredZip64Size
    BY <1>1 DEF RequiredZip64Size, Wide, WideDisk
  <1>3. ReadLength' = ReadLength
    BY <1>1 DEF ReadLength, Wide, WideDisk
  <1>4. HeaderEnd' = HeaderEnd
    BY DEF HeaderEnd, FieldsEnd, ConstantSize
  <1>5. \A o : ReadAllIfNeeded(o)' = ReadAllIfNeeded(o)
    BY <1>1 DEF ReadAllIfNeeded, Wide, WideDisk
  <1>6. \A list : Walk(list)' <=> Walk(list)
    BY DEF Walk
  <1>7. \A list, p : Settled(list, p)' <=> Settled(list, p)
    BY <1>1, <1>2, <1>5 DEF Settled, First, Absent
  <1>. QED BY <1>1, <1>2, <1>3, <1>4, <1>5, <1>6, <1>7

\* A call that is over, whatever it came to.
LEMMA EndedRead ==
  ASSUME Read, pc # "idle", NEW verdict \in {"None", "panic", "Some"}, Return(verdict),
         UNCHANGED << offset, fields >>, sizes' \in Zip64ProcessedData,
         result' \in FileHeader,
         accepted' \subseteq [have : Nat, fields : Seq(ExtraField), result : FileHeader]
  PROVE  Read'
  <1>1. TypeOK'
    BY DEF Read, TypeOK, Return
  <1>2. Walk(fields)'
    BY HeaderFixed DEF Read, Walked, Return
  <1>. QED BY <1>1, <1>2 DEF Read, Walked, Return

LEMMA RefusedRead ==
  ASSUME Read, pc # "idle", None \/ Panic
  PROVE  Read'
  BY EndedRead DEF None, Panic, Read, TypeOK

LEMMA HeaderEndType ==
  ASSUME IsHeader(header)
  PROVE  /\ ConstantSize \in Nat /\ FieldsEnd \in Nat /\ HeaderEnd \in Nat
         /\ ConstantSize <= FieldsEnd /\ FieldsEnd <= HeaderEnd
  <1>1. ConstantSize \in Nat
    BY WidthsAssumption DEF ConstantSize
  <1>2. header.filename \in Nat /\ header.extra \in Nat /\ header.comment \in Nat
    BY DEF IsHeader
  <1>. QED BY <1>1, <1>2 DEF FieldsEnd, HeaderEnd

\* What it returns when it returns Some.
LEMMA PlainType ==
  ASSUME IsHeader(header), Read, NEW p \in Zip64ProcessedData
  PROVE  Plain(p) \in FileHeader
  <1>1. HeaderEnd \in Nat
    BY HeaderEndType
  <1>2. (IF header.method = COMPRESSION_AEX THEN "other" ELSE header.method)
          \in {"stored", "deflate", "other"}
    BY DEF IsHeader, COMPRESSION_AEX
  <1>. QED BY <1>1, <1>2 DEF Plain, FileHeader, Zip64ProcessedData

LEMMA SomeRead ==
  ASSUME Read, pc # "idle", NEW r \in FileHeader, Some(r), sizes' \in Zip64ProcessedData
  PROVE  Read'
  <1>1. [have |-> have, fields |-> fields, result |-> r]
          \in [have : Nat, fields : Seq(ExtraField), result : FileHeader]
    BY DEF Read, TypeOK
  <1>2. accepted' \subseteq [have : Nat, fields : Seq(ExtraField), result : FileHeader]
    BY <1>1 DEF Some, Read, TypeOK
  <1>. QED BY <1>2, EndedRead DEF Some

LEMMA SettleRead ==
  ASSUME Read, pc = "sizes", NEW p, Settled(fields, p), Settle(p)
  PROVE  Read'
  <1>1. p \in Zip64ProcessedData
    BY SettledType DEF Read, TypeOK, Walked
  <1>2. CASE Continue(p)
    <2>1. header.kind = "local" /\ header.encrypted
      BY <1>2, Zenon DEF Settle, Continue, Some, Return
    <2>2. TypeOK'
      BY <1>1, <1>2, <2>1 DEF Continue, Read, TypeOK
    <2>3. header' = header /\ Walk(fields)' /\ Settled(fields, p)' /\ HeaderEnd' = HeaderEnd
      BY <1>2, HeaderFixed DEF Continue, Read, Walked
    <2>. QED BY <1>2, <2>2, <2>3 DEF Continue, Read, Walked, Ends
  <1>3. CASE Some(Plain(p)) /\ sizes' = p
    BY <1>1, <1>3, PlainType, SomeRead DEF Read, TypeOK
  <1>. QED BY <1>2, <1>3 DEF Settle

LEMMA EncryptedRead ==
  ASSUME Read, pc = "encryption", NEW length \in Nat, NEW more \in Nat,
         NEW encryption \in {"ZipCrypto", "AEx"}, NEW method \in {"stored", "deflate", "other"},
         Encrypted(length, more, encryption, method)
  PROVE  Read'
  <1>1. CASE Panic
    BY <1>1, RefusedRead
  <1>2. CASE ~ Panic
    <2>. DEFINE r == [Plain(sizes) EXCEPT
                        !.header_size = @ + length,
                        !.compressed_size = (@ - (length + more)) % U64_MOD,
                        !.encryption = encryption,
                        !.compression_method = method]
    <2>1. Some(r) /\ UNCHANGED sizes
      BY <1>2 DEF Encrypted
    <2>2. Plain(sizes) \in FileHeader
      BY PlainType DEF Read, TypeOK
    <2>3. \A n \in Nat : (n - (length + more)) % U64_MOD \in Nat
      BY WidthsAssumption
    <2>4. r \in FileHeader
      <3>. DEFINE q == Plain(sizes)
      <3>1. q.header_size + length \in Nat /\ (q.compressed_size - (length + more)) % U64_MOD \in Nat
        BY <2>2, <2>3 DEF FileHeader
      <3>2. r = [q EXCEPT !.header_size = q.header_size + length,
                          !.compressed_size = (q.compressed_size - (length + more)) % U64_MOD,
                          !.encryption = encryption,
                          !.compression_method = method]
        OBVIOUS
      <3>3. encryption \in {"None", "ZipCrypto", "AEx"}
        OBVIOUS
      <3>. HIDE DEF q, r
      <3>. QED BY <2>2, <3>1, <3>2, <3>3 DEF FileHeader, q
    <2>. QED BY <2>1, <2>4, SomeRead DEF Read, TypeOK
  <1>. QED BY <1>1, <1>2

LEMMA ReadLemma == Read /\ [Next]_vars => Read'
  <1>. SUFFICES ASSUME Read, [Next]_vars PROVE Read'
    OBVIOUS
  <1>1. CASE UNCHANGED vars
    <2>1. TypeOK'
      BY <1>1 DEF vars, Read, TypeOK
    <2>. QED BY <1>1, <2>1, HeaderFixed DEF vars, Read, Walked, Ends
  <1>2. CASE \E n \in Lengths(header) : Call(n)
    <2>1. PICK n \in Lengths(header) : Call(n)
      BY <1>2
    <2>2. TypeOK'
      <3>1. n \in Nat
        BY LengthsAssumption DEF Read, Walked
      <3>2. NoSizes \in Zip64ProcessedData /\ NoResult \in FileHeader
        BY DEF NoSizes, NoResult, Zip64ProcessedData, FileHeader
      <3>. QED BY <2>1, <3>1, <3>2 DEF Call, Read, TypeOK
    <2>3. Walked'
      BY <2>1 DEF Call, Read, Walked, Walk, Ends
    <2>. QED BY <2>2, <2>3 DEF Read
  <1>3. CASE ConstantRead
    <2>1. TypeOK'
      BY <1>3 DEF ConstantRead, Read, TypeOK
    <2>2. header' = header /\ Walk(fields)' /\ HeaderEnd' = HeaderEnd
      BY <1>3, HeaderFixed DEF ConstantRead, Read, Walked
    <2>3. HeaderEnd <= have /\ header.extra \in Nat
      BY <1>3, HeaderEndType DEF ConstantRead, HeaderEnd, Read, TypeOK, IsHeader
    <2>. QED BY <1>3, <2>1, <2>2, <2>3 DEF ConstantRead, Read, Walked, Ends
  <1>4. CASE FieldRead
    <2>. DEFINE new == [id |-> header.field[offset].id, at |-> offset + FIELD_HEADER,
                        size |-> header.field[offset].size]
    <2>1. /\ offset \in 0 .. header.room /\ header.extra \in Nat
          /\ header.field[offset] \in [id : {ZIP64_EXTRA_FIELD_ID, AEX_EXTRA_FIELD_ID, "other"},
                                       size : Nat]
      BY <1>4 DEF FieldRead, InFields, ExtraLength, Read, TypeOK, IsHeader
    <2>2. new \in ExtraField
      BY <2>1 DEF ExtraField, FIELD_HEADER
    <2>3. fields \in Seq(ExtraField) /\ fields' = Append(fields, new)
      BY <1>4 DEF FieldRead, Read, TypeOK
    <2>4. new.at + new.size <= header.extra /\ offset' = new.at + new.size
      <3>. DEFINE size == header.field[offset].size
      <3>1. offset \in Nat /\ size \in Nat /\ header.extra \in Nat
        BY <2>1 DEF Read, TypeOK
      <3>2. offset + (FIELD_HEADER + size) <= header.extra /\ offset' = offset + (FIELD_HEADER + size)
        BY <1>4, <3>1 DEF FieldRead, FieldWhole, FieldSize, Past, ExtraLength
      <3>3. new.at = offset + FIELD_HEADER /\ new.size = size
        OBVIOUS
      <3>. HIDE DEF size, new
      <3>. QED BY <3>1, <3>2, <3>3 DEF FIELD_HEADER
    <2>5. /\ Len(fields') = Len(fields) + 1
          /\ fields'[Len(fields')] = new
          /\ \A f \in 1 .. Len(fields) : fields'[f] = fields[f]
      <3>. HIDE DEF new
      <3>. QED BY <2>2, <2>3
    <2>6. fields # << >> => fields[Len(fields)].at + fields[Len(fields)].size = offset
      BY <1>4 DEF FieldRead, InFields, Read, Walked, Ends
    <2>7. fields = << >> => offset = 0
      BY <1>4 DEF FieldRead, InFields, Read, Walked, Ends
    <2>8. Walk(fields')
      <3>. SUFFICES ASSUME NEW f \in 1 .. Len(fields')
                    PROVE  /\ fields'[f].at >= FIELD_HEADER
                           /\ fields'[f].at + fields'[f].size <= header.extra
                           /\ fields'[f].id = header.field[fields'[f].at - FIELD_HEADER].id
                           /\ fields'[f].size = header.field[fields'[f].at - FIELD_HEADER].size
                           /\ f = 1 => fields'[f].at = FIELD_HEADER
                           /\ f > 1 => fields'[f].at = fields'[f - 1].at + fields'[f - 1].size
                                                        + FIELD_HEADER
        BY DEF Walk
      <3>1. CASE f <= Len(fields)
        <4>1. fields'[f] = fields[f] /\ (f > 1 => fields'[f - 1] = fields[f - 1])
          BY <2>3, <2>5, <3>1
        <4>. QED BY <2>3, <3>1, <4>1 DEF Read, Walked, Walk
      <3>2. CASE f = Len(fields) + 1
        <4>1. fields'[f] = new /\ (f > 1 => fields'[f - 1] = fields[Len(fields)])
          BY <2>3, <2>5, <3>2
        <4>2. new.at - FIELD_HEADER = offset
          BY <2>1 DEF FIELD_HEADER
        <4>3. f = 1 => fields = << >>
          BY <2>3, <3>2
        <4>4. f > 1 => fields # << >>
          BY <2>3, <3>2
        <4>. QED BY <2>1, <2>4, <2>6, <2>7, <3>2, <4>1, <4>2, <4>3, <4>4 DEF FIELD_HEADER
      <3>. QED BY <2>3, <2>5, <3>1, <3>2
    <2>9. TypeOK'
      <3>1. offset' \in Nat
        BY <2>2, <2>4 DEF ExtraField
      <3>2. fields' \in Seq(ExtraField)
        BY <2>2, <2>3
      <3>. QED BY <1>4, <3>1, <3>2 DEF FieldRead, InFields, Read, TypeOK
    <2>10. header' = header /\ HeaderEnd' = HeaderEnd
      BY <1>4, HeaderFixed DEF FieldRead
    <2>11. Walk(fields)'
      BY <2>8, <2>10 DEF Walk
    <2>12. Ends(fields)' = offset'
      BY <2>3, <2>4, <2>5 DEF Ends
    <2>. QED
      BY <1>4, <2>4, <2>9, <2>10, <2>11, <2>12 DEF FieldRead, InFields, Read, Walked
  <1>5. CASE FieldsRead
    <2>1. TypeOK'
      BY <1>5 DEF FieldsRead, Read, TypeOK
    <2>2. header' = header /\ Walk(fields)' /\ HeaderEnd' = HeaderEnd
      BY <1>5, HeaderFixed DEF FieldsRead, Read, Walked
    <2>3. header.extra \in Nat /\ offset \in Nat
      BY DEF Read, TypeOK, IsHeader
    <2>4. Ends(fields) = header.extra
      BY <1>5, <2>3 DEF FieldsRead, InFields, ExtraLength, Read, Walked
    <2>. QED BY <1>5, <2>1, <2>2, <2>4 DEF FieldsRead, Read, Walked, Ends
  <1>6. CASE SizesKept
    <2>1. Settled(fields, Original)
      BY <1>6 DEF SizesKept, Settled
    <2>. QED BY <1>6, <2>1, SettleRead DEF SizesKept
  <1>7. CASE SizesReplaced
    <2>1. PICK f \in DOMAIN fields :
             /\ First(fields, f, ZIP64_EXTRA_FIELD_ID)
             /\ fields[f].size >= RequiredZip64Size
             /\ IF fields[f].size >= ReadLength THEN Settle(ReadAllIfNeeded(fields[f].at))
                ELSE Panic
      BY <1>7 DEF SizesReplaced
    <2>2. Settle(ReadAllIfNeeded(fields[f].at))
      BY <2>1, RequiredFacts DEF Read, TypeOK
    <2>3. Settled(fields, ReadAllIfNeeded(fields[f].at))
      BY <1>7, <2>1 DEF SizesReplaced, Settled, Read, TypeOK
    <2>. QED BY <1>7, <2>2, <2>3, SettleRead DEF SizesReplaced
  <1>8. CASE ZipCryptoRead
    <2>1. header.method \in {"stored", "deflate", "other"}
      BY <1>8 DEF ZipCryptoRead, Read, TypeOK, IsHeader, COMPRESSION_AEX
    <2>. QED
      BY <1>8, <2>1, EncryptedRead DEF ZipCryptoRead, ZIPCRYPTO_HEADER
  <1>9. CASE AExRead
    <2>1. AExLength \in Nat
      BY <1>9 DEF AExRead, AExKnown, AExLength, Salt, PVV
    <2>2. header.aex.method \in {"stored", "deflate", "other"}
      BY DEF Read, TypeOK, IsHeader
    <2>. QED
      BY <1>9, <2>1, <2>2, EncryptedRead DEF AExRead, AExKnown, AExLongerThan, AtAEx, AUTH
  <1>10. CASE pc # "idle" /\ (None \/ Panic)
    BY <1>10, RefusedRead
  <1>. QED
    BY <1>1, <1>2, <1>3, <1>4, <1>5, <1>6, <1>7, <1>8, <1>9, <1>10
    DEF Next, FromBytes, ConstantCut, VariableCut, FieldCut, InFields, Zip64Cut, ZipCryptoCut,
        AExAbsent, AExTooShort, AExStrengthBeyond, AExUnknown, AExCut, AExMethodBeyond,
        AExField, AExKnown, AExLongerThan, AtAEx

LEMMA InitRead == Init => Read
  <1>. SUFFICES ASSUME Init PROVE Read
    OBVIOUS
  <1>1. NoSizes \in Zip64ProcessedData /\ NoResult \in FileHeader
    BY DEF NoSizes, NoResult, Zip64ProcessedData, FileHeader
  <1>2. TypeOK
    BY <1>1, HeadersAssumption DEF Init, TypeOK
  <1>3. Walked
    BY DEF Init, Walked, Walk
  <1>. QED BY <1>2, <1>3 DEF Read

LEMMA SpecRead == Spec => []Read
  BY InitRead, ReadLemma, PTL DEF Spec

(***************************************************************************)
(* Every state that from_bytes and its callers reach is of the right type: *)
(* in particular no field is looked for, and no number read, beyond what   *)
(* there is, and what is accepted is a header.                             *)
(***************************************************************************)
THEOREM TypeCorrect == Spec => []TypeOK
  BY SpecRead, PTL DEF Read

(***************************************************************************)
(* The extra fields that were read lie one after the other inside the      *)
(* header, for any lengths that the fields claim.                          *)
(***************************************************************************)
LEMMA ReadTiles == Read => FieldsTile
  <1>. SUFFICES ASSUME Read, pc = "fields"
                PROVE  /\ offset <= header.extra
                       /\ FieldsEnd <= have
                       /\ fields = << >> => offset = 0
                       /\ fields # << >> =>
                            fields[1].at = FIELD_HEADER /\ FieldEnd(Len(fields)) = offset
                       /\ \A f \in 2 .. Len(fields) : fields[f].at = FieldEnd(f - 1) + FIELD_HEADER
    BY DEF FieldsTile
  <1>1. offset <= header.extra /\ offset = Ends(fields)
    BY DEF Read, Walked
  <1>2. FieldsEnd <= have
    <2>1. HeaderEnd <= have /\ have \in Nat
      BY DEF Read, Walked, TypeOK
    <2>. QED BY <2>1, HeaderEndType DEF Read, TypeOK
  <1>3. fields = << >> => offset = 0
    BY <1>1 DEF Ends
  <1>4. fields # << >> => fields[1].at = FIELD_HEADER /\ FieldEnd(Len(fields)) = offset
    <2>1. ASSUME fields # << >> PROVE 1 \in 1 .. Len(fields)
      BY <2>1 DEF Read, TypeOK
    <2>. QED BY <1>1, <2>1 DEF Ends, FieldEnd, Read, Walked, Walk
  <1>5. \A f \in 2 .. Len(fields) : fields[f].at = FieldEnd(f - 1) + FIELD_HEADER
    <2>1. ASSUME NEW f \in 2 .. Len(fields) PROVE f \in 1 .. Len(fields) /\ f > 1
      BY <2>1 DEF Read, TypeOK
    <2>. QED BY <2>1 DEF FieldEnd, Read, Walked, Walk
  <1>. QED BY <1>1, <1>2, <1>3, <1>4, <1>5

THEOREM Tiled == Spec => []FieldsTile
  BY SpecRead, ReadTiles, PTL

(***************************************************************************)
(* Only the two known causes make from_bytes panic: an AE-x field of three *)
(* to six bytes, and a size that is less than what is subtracted from it.  *)
(***************************************************************************)
LEMMA PanicsKnownLemma == Read /\ PanicsKnown /\ [Next]_vars => PanicsKnown'
  <1>. SUFFICES ASSUME Read, PanicsKnown, [Next]_vars, pc' = "idle", answer' = "panic"
                PROVE  /\ header'.kind = "local" /\ header'.encrypted
                       /\ OddAExField' \/ sizes'.compressed_size < Subtracted'
    BY DEF PanicsKnown
  <1>1. CASE UNCHANGED vars
    BY <1>1 DEF vars, PanicsKnown, OddAExField, Subtracted, AExLength
  <1>2. CASE ~ UNCHANGED vars
    <2>1. \/ AExStrengthBeyond \/ AExMethodBeyond
          \/ SizesReplaced \/ AExRead \/ ZipCryptoRead
      BY <1>2 DEF Next, FromBytes, Call, ConstantCut, VariableCut, ConstantRead, FieldCut,
         FieldRead, FieldsRead, InFields, SizesKept, Zip64Cut, ZipCryptoCut, AExAbsent, AExTooShort,
         AExUnknown, AExCut, Settle, Continue, None, Some, Return
    <2>2. CASE SizesReplaced
      <3>1. PICK f \in DOMAIN fields :
               /\ fields[f].size >= RequiredZip64Size
               /\ IF fields[f].size >= ReadLength THEN Settle(ReadAllIfNeeded(fields[f].at))
                  ELSE Panic
        BY <2>2 DEF SizesReplaced
      <3>2. Settle(ReadAllIfNeeded(fields[f].at))
        BY <3>1, RequiredFacts DEF Read, TypeOK
      <3>. QED BY <3>2 DEF Settle, Continue, Some, Return
    <2>3. CASE AExStrengthBeyond \/ AExMethodBeyond
      <3>1. /\ pc = "encryption" /\ header' = header /\ fields' = fields
            /\ \E size \in 3 .. 6 : AExField(size)
        BY <2>3 DEF AExStrengthBeyond, AExMethodBeyond, AExKnown, AExLongerThan, AtAEx, AExField,
           Panic, Return, FIELD_HEADER
      <3>2. OddAExField
        BY <3>1 DEF AExField, First, OddAExField
      <3>. QED BY <3>1, <3>2 DEF OddAExField, Read, TypeOK
    <2>4. CASE AExRead
      <3>1. /\ Panic /\ sizes.compressed_size < AExLength + AUTH
            /\ pc = "encryption" /\ header.method = COMPRESSION_AEX
            /\ header.aex.strength \in DOMAIN Salt
        BY <2>4 DEF AExRead, AExKnown, AExLongerThan, AtAEx, Encrypted, Some, Return
      <3>2. header' = header /\ sizes' = sizes /\ AExLength' = AExLength
        BY <3>1 DEF Panic, Return, AExLength
      <3>. QED BY <3>1, <3>2 DEF Subtracted, Read, TypeOK
    <2>5. CASE ZipCryptoRead
      <3>1. /\ Panic /\ sizes.compressed_size < ZIPCRYPTO_HEADER + 0
            /\ pc = "encryption" /\ header.method # COMPRESSION_AEX
        BY <2>5 DEF ZipCryptoRead, Encrypted, Some, Return
      <3>2. header' = header /\ sizes' = sizes
        BY <3>1 DEF Panic, Return
      <3>. QED BY <3>1, <3>2 DEF Subtracted, ZIPCRYPTO_HEADER, Read, TypeOK
    <2>. QED BY <2>1, <2>2, <2>3, <2>4, <2>5
  <1>. QED BY <1>1, <1>2

THEOREM OnlyKnownPanics == Spec => []PanicsKnown
  <1>1. Init => PanicsKnown
    BY DEF Init, PanicsKnown
  <1>. QED BY <1>1, SpecRead, PanicsKnownLemma, PTL DEF Spec

-----------------------------------------------------------------------------
(***************************************************************************)
(* What a call that returned Some has found: all the extra fields, the     *)
(* sizes settled, for an encrypted file enough bytes for the salt, and in  *)
(* the case of AE-x a field of a known strength.                           *)
(***************************************************************************)
Locked(p, length, more, encryption, method) ==
  [Plain(p) EXCEPT
     !.header_size = @ + length,
     !.compressed_size = (@ - (length + more)) % U64_MOD,
     !.encryption = encryption,
     !.compression_method = method]

Outcome(p) ==
  IF ~ (header.kind = "local" /\ header.encrypted) THEN Plain(p)
  ELSE IF header.method = COMPRESSION_AEX
  THEN Locked(p, AExLength, AUTH, "AEx", header.aex.method)
  ELSE Locked(p, ZIPCRYPTO_HEADER, 0, "ZipCrypto", header.method)

LongAEx(list) ==
  \E f \in DOMAIN list : First(list, f, AEX_EXTRA_FIELD_ID) /\ list[f].size >= 7

Enough(list, n) ==
  /\ HeaderEnd <= n
  /\ header.kind = "local" /\ header.encrypted =>
       IF header.method = COMPRESSION_AEX
       THEN /\ header.aex.strength \in DOMAIN Salt
            /\ LongAEx(list)
            /\ FieldsEnd + AExLength <= n
       ELSE FieldsEnd + ZIPCRYPTO_HEADER <= n

Accepts(list, n, r) ==
  /\ Walk(list)
  /\ Ends(list) = header.extra
  /\ Enough(list, n)
  /\ \E p : Settled(list, p) /\ r = Outcome(p)

Prefix(list, all) ==
  Len(list) <= Len(all) /\ \A f \in 1 .. Len(list) : list[f] = all[f]

(***************************************************************************)
(* A call goes along with the first one that returned Some: it comes upon  *)
(* the same fields, until one of the two has too few bytes.                *)
(***************************************************************************)
Alongside ==
  /\ \A a \in accepted :
       /\ Accepts(a.fields, a.have, a.result)
       /\ pc = "fields" => Prefix(fields, a.fields)
       /\ pc \in {"sizes", "encryption"} => fields = a.fields
       /\ pc = "idle" /\ answer = "Some" => fields = a.fields
  /\ pc = "idle" /\ answer = "Some" => Accepts(fields, have, result)
  /\ AcceptedFromMore

LEMMA AcceptsFixed ==
  ASSUME header' = header
  PROVE  \A list, n, r : Accepts(list, n, r)' <=> Accepts(list, n, r)
  <1>1. /\ HeaderEnd' = HeaderEnd /\ FieldsEnd' = FieldsEnd /\ AExLength' = AExLength
    BY DEF HeaderEnd, FieldsEnd, ConstantSize, AExLength
  <1>2. \A p : Outcome(p)' = Outcome(p)
    BY <1>1 DEF Outcome, Locked, Plain
  <1>3. \A list, n : Enough(list, n)' <=> Enough(list, n)
    BY <1>1 DEF Enough, LongAEx, First
  <1>4. \A list : Ends(list)' = Ends(list)
    BY DEF Ends
  <1>. QED BY <1>2, <1>3, <1>4, HeaderFixed DEF Accepts

LEMMA AcceptedType ==
  ASSUME Read, NEW a \in accepted
  PROVE  a.have \in Nat /\ a.fields \in Seq(ExtraField)
  BY DEF Read, TypeOK

\* A call that is refused has fewer bytes than one that is not needs.
LEMMA RefusedAlongside ==
  ASSUME Read, Alongside, None \/ Panic,
         None => \A a \in accepted : have < a.have
  PROVE  Alongside'
  <1>1. /\ header' = header /\ accepted' = accepted /\ pc' = "idle" /\ have' = have
        /\ None => answer' = "None"
        /\ ~ None => answer' = "panic"
    BY DEF None, Panic, Return
  <1>2. answer' # "Some" /\ (answer' = "None" => \A a \in accepted : have < a.have)
    BY <1>1
  <1>3. \A a \in accepted : Accepts(a.fields, a.have, a.result)'
    BY <1>1, AcceptsFixed DEF Alongside
  <1>. QED BY <1>1, <1>2, <1>3 DEF Alongside, AcceptedFromMore

LEMMA PanicAlongside ==
  ASSUME Read, Alongside, Panic
  PROVE  Alongside'
  <1>1. ~ None
    BY DEF None, Panic, Return
  <1>. QED BY <1>1, RefusedAlongside

LEMMA SomeAlongside ==
  ASSUME Read, Alongside, NEW r, Some(r), pc \in {"sizes", "encryption"},
         Accepts(fields, have, r)
  PROVE  Alongside'
  <1>1. /\ header' = header /\ pc' = "idle" /\ have' = have /\ answer' = "Some"
        /\ fields' = fields /\ result' = r
    BY DEF Some, Return
  <1>2. Accepts(fields, have, result)'
    BY <1>1, AcceptsFixed
  <1>3. \A a \in accepted' : Accepts(a.fields, a.have, a.result)' /\ fields' = a.fields
    <2>1. CASE accepted = {}
      <3>1. accepted' = {[have |-> have, fields |-> fields, result |-> r]}
        BY <2>1 DEF Some
      <3>. QED BY <1>1, <3>1, AcceptsFixed
    <2>2. CASE accepted # {}
      <3>1. accepted' = accepted
        BY <2>2 DEF Some
      <3>. QED BY <1>1, <3>1, AcceptsFixed DEF Alongside
    <2>. QED BY <2>1, <2>2
  <1>. QED BY <1>1, <1>2, <1>3 DEF Alongside, AcceptedFromMore

LEMMA SettleAlongside ==
  ASSUME Read, Alongside, pc = "sizes", NEW p, Settled(fields, p), Settle(p)
  PROVE  Alongside'
  <1>1. CASE Continue(p)
    <2>1. header' = header /\ accepted' = accepted /\ pc' = "encryption" /\ fields' = fields
      BY <1>1 DEF Continue
    <2>. QED BY <2>1, AcceptsFixed DEF Alongside, AcceptedFromMore
  <1>2. CASE Some(Plain(p)) /\ ~ (header.kind = "local" /\ header.encrypted)
    <2>1. Enough(fields, have)
      BY <1>2 DEF Read, Walked, Enough
    <2>2. Accepts(fields, have, Plain(p))
      BY <1>2, <2>1 DEF Accepts, Read, Walked, Outcome
    <2>. QED BY <1>2, <2>2, SomeAlongside
  <1>. QED BY <1>1, <1>2 DEF Settle

\* The next of the fields of a list that a call goes along with.
LEMMA NextOfList ==
  ASSUME Read, pc = "fields", NEW list \in Seq(ExtraField), Walk(list), Prefix(fields, list),
         Len(fields) # Len(list)
  PROVE  /\ Len(fields) + 1 \in 1 .. Len(list)
         /\ list[Len(fields) + 1] \in ExtraField
         /\ list[Len(fields) + 1].at = offset + FIELD_HEADER
         /\ offset + FIELD_HEADER + list[Len(fields) + 1].size <= header.extra
         /\ list[Len(fields) + 1].id = header.field[offset].id
         /\ list[Len(fields) + 1].size = header.field[offset].size
  <1>. DEFINE k == Len(fields)
  <1>1. k \in Nat /\ Len(list) \in Nat /\ offset \in Nat
    BY DEF Read, TypeOK
  <1>2. k + 1 \in 1 .. Len(list) /\ offset = Ends(fields)
    BY <1>1 DEF Prefix, Read, Walked
  <1>3. list[k + 1] \in ExtraField
    BY <1>2
  <1>4. list[k + 1].at = offset + FIELD_HEADER
    <2>1. CASE fields = << >>
      BY <1>2, <2>1 DEF Walk, Ends, FIELD_HEADER
    <2>2. CASE fields # << >>
      <3>1. k \in 1 .. Len(fields) /\ k > 0
        BY <2>2 DEF Read, TypeOK
      <3>2. list[k] = fields[k]
        BY <1>2, <3>1 DEF Prefix
      <3>3. list[k + 1].at = list[(k + 1) - 1].at + list[(k + 1) - 1].size + FIELD_HEADER
        BY <1>1, <1>2, <3>1 DEF Walk
      <3>4. (k + 1) - 1 = k
        BY <1>1
      <3>5. Ends(fields) = fields[k].at + fields[k].size
        BY <2>2 DEF Ends
      <3>. QED BY <1>2, <3>2, <3>3, <3>4, <3>5
    <2>. QED BY <2>1, <2>2
  <1>5. list[k + 1].at - FIELD_HEADER = offset
    BY <1>1, <1>4 DEF FIELD_HEADER
  <1>. QED BY <1>2, <1>3, <1>4, <1>5 DEF Walk

\* The fields of a call that was accepted that another call has yet to read.
LEMMA Ahead ==
  ASSUME Read, Alongside, pc = "fields", NEW a \in accepted, Len(fields) # Len(a.fields)
  PROVE  /\ Len(fields) + 1 \in 1 .. Len(a.fields)
         /\ a.fields[Len(fields) + 1].at = offset + FIELD_HEADER
         /\ offset + FIELD_HEADER + a.fields[Len(fields) + 1].size <= header.extra
         /\ a.fields[Len(fields) + 1].id = header.field[offset].id
         /\ a.fields[Len(fields) + 1].size = header.field[offset].size
  <1>1. a.fields \in Seq(ExtraField)
    BY AcceptedType
  <1>2. Walk(a.fields) /\ Prefix(fields, a.fields)
    BY DEF Alongside, Accepts
  <1>. QED BY <1>1, <1>2, NextOfList

LEMMA UnfinishedNotAll ==
  ASSUME Read, Alongside, pc = "fields", offset < header.extra, NEW a \in accepted
  PROVE  Len(fields) # Len(a.fields)
  <1>. SUFFICES ASSUME Len(fields) = Len(a.fields) PROVE FALSE
    OBVIOUS
  <1>1. a.fields = fields
    BY AcceptedType DEF Alongside, Prefix, Read, TypeOK
  <1>2. Ends(fields) = header.extra /\ Ends(fields) = offset
    BY <1>1 DEF Alongside, Accepts, Read, Walked
  <1>. QED BY <1>2 DEF Read, TypeOK

\* What is known of the call that was accepted, when another gets as far.
LEMMA EncryptedAccepted ==
  ASSUME Read, Alongside, pc = "encryption", NEW a \in accepted
  PROVE  IF header.method = COMPRESSION_AEX
         THEN /\ header.aex.strength \in DOMAIN Salt
              /\ LongAEx(fields)
              /\ FieldsEnd + AExLength <= a.have
         ELSE FieldsEnd + ZIPCRYPTO_HEADER <= a.have
  BY DEF Alongside, Accepts, Enough, Read, TypeOK

LEMMA LongIsNotShort ==
  ASSUME Read, LongAEx(fields), NEW size \in 0 .. 6, AExField(size)
  PROVE  FALSE
  <1>1. PICK f \in DOMAIN fields : First(fields, f, AEX_EXTRA_FIELD_ID) /\ fields[f].size >= 7
    BY DEF LongAEx
  <1>2. PICK g \in DOMAIN fields : First(fields, g, AEX_EXTRA_FIELD_ID) /\ fields[g].size = size
    BY DEF AExField
  <1>3. f \in Nat /\ g \in Nat
    BY DEF Read, TypeOK
  <1>4. f <= g /\ g <= f
    BY <1>1, <1>2 DEF First
  <1>5. f = g
    BY <1>3, <1>4
  <1>. QED BY <1>1, <1>2, <1>5

LEMMA AlongsideLemma == Read /\ Alongside /\ [Next]_vars => Alongside'
  <1>. SUFFICES ASSUME Read, Alongside, [Next]_vars PROVE Alongside'
    OBVIOUS
  <1>1. CASE UNCHANGED vars
    BY <1>1, AcceptsFixed DEF vars, Alongside, AcceptedFromMore
  <1>2. CASE \E n \in Lengths(header) : Call(n)
    BY <1>2, AcceptsFixed DEF Call, Alongside, AcceptedFromMore
  <1>3. CASE ConstantCut
    <2>1. None /\ have < ConstantSize /\ pc = "constant"
      BY <1>3 DEF ConstantCut
    <2>2. \A a \in accepted : have < a.have
      <3>. SUFFICES ASSUME NEW a \in accepted PROVE have < a.have
        OBVIOUS
      <3>1. HeaderEnd <= a.have /\ a.have \in Nat /\ have \in Nat
        BY AcceptedType DEF Alongside, Accepts, Enough, Read, TypeOK
      <3>2. ConstantSize \in Nat /\ HeaderEnd \in Nat /\ ConstantSize <= HeaderEnd
        BY HeaderEndType DEF Read, TypeOK
      <3>. QED BY <2>1, <3>1, <3>2
    <2>. QED BY <2>1, <2>2, RefusedAlongside
  <1>4. CASE VariableCut
    <2>1. None /\ have < HeaderEnd
      BY <1>4 DEF VariableCut, HeaderEnd
    <2>2. \A a \in accepted : have < a.have
      <3>. SUFFICES ASSUME NEW a \in accepted PROVE have < a.have
        OBVIOUS
      <3>1. HeaderEnd <= a.have /\ a.have \in Nat /\ have \in Nat /\ HeaderEnd \in Nat
        BY AcceptedType, HeaderEndType DEF Alongside, Accepts, Enough, Read, TypeOK
      <3>. QED BY <2>1, <3>1
    <2>. QED BY <2>1, <2>2, RefusedAlongside
  <1>5. CASE ConstantRead
    BY <1>5, AcceptsFixed DEF ConstantRead, Alongside, AcceptedFromMore, Prefix, Read, Walked
  <1>6. CASE FieldCut
    <2>1. None /\ pc = "fields" /\ offset < header.extra /\ ~ FieldWhole
      BY <1>6 DEF FieldCut, InFields, ExtraLength
    <2>2. ASSUME NEW a \in accepted PROVE FALSE
      <3>1. /\ header.extra \in Nat /\ offset \in 0 .. header.room
            /\ header.field[offset].size \in Nat
        BY <2>1 DEF Read, TypeOK, IsHeader
      <3>2. Len(fields) # Len(a.fields)
        BY <2>1, <2>2, UnfinishedNotAll
      <3>3. offset + FIELD_HEADER + header.field[offset].size <= header.extra
        BY <2>1, <2>2, <3>2, Ahead
      <3>. QED BY <2>1, <3>1, <3>3 DEF FieldWhole, FieldSize, ExtraLength, FIELD_HEADER
    <2>. QED BY <2>1, <2>2, RefusedAlongside
  <1>7. CASE FieldRead
    <2>. DEFINE new == [id |-> header.field[offset].id, at |-> offset + FIELD_HEADER,
                        size |-> header.field[offset].size]
                k == Len(fields)
    <2>1. /\ pc = "fields" /\ pc' = "fields" /\ offset < header.extra
          /\ header' = header /\ accepted' = accepted
          /\ fields' = Append(fields, new)
      BY <1>7 DEF FieldRead, InFields, ExtraLength
    <2>2. ASSUME NEW a \in accepted PROVE Prefix(fields', a.fields)
      <3>1. k # Len(a.fields)
        BY <2>1, <2>2, UnfinishedNotAll
      <3>2. a.fields[k + 1] \in ExtraField /\ k + 1 \in 1 .. Len(a.fields)
        BY <2>1, <2>2, <3>1, Ahead, AcceptedType
      <3>3. a.fields[k + 1] = new
        <4>1. /\ a.fields[k + 1].at = offset + FIELD_HEADER
              /\ a.fields[k + 1].id = header.field[offset].id
              /\ a.fields[k + 1].size = header.field[offset].size
          BY <2>1, <2>2, <3>1, Ahead
        <4>. QED BY <3>2, <4>1 DEF ExtraField
      <3>4. new \in ExtraField
        BY <3>2, <3>3
      <3>5. Prefix(fields, a.fields) /\ fields \in Seq(ExtraField) /\ a.fields \in Seq(ExtraField)
        BY <2>1, <2>2, AcceptedType DEF Alongside, Read, TypeOK
      <3>. HIDE DEF new
      <3>6. Len(fields') = k + 1 /\ \A f \in 1 .. k : fields'[f] = fields[f]
        BY <2>1, <3>4, <3>5
      <3>7. fields'[k + 1] = new
        BY <2>1, <3>4, <3>5
      <3>. QED BY <3>2, <3>3, <3>5, <3>6, <3>7 DEF Prefix
    <2>. QED BY <2>1, <2>2, AcceptsFixed DEF Alongside, AcceptedFromMore, Prefix
  <1>8. CASE FieldsRead
    <2>1. /\ pc = "fields" /\ ~ (offset < header.extra) /\ pc' = "sizes"
          /\ header' = header /\ accepted' = accepted /\ fields' = fields
      BY <1>8 DEF FieldsRead, InFields, ExtraLength
    <2>2. ASSUME NEW a \in accepted PROVE fields = a.fields
      <3>1. a.fields \in Seq(ExtraField) /\ fields \in Seq(ExtraField) /\ Prefix(fields, a.fields)
        BY <2>1, <2>2, AcceptedType DEF Alongside, Read, TypeOK
      <3>2. Len(fields) = Len(a.fields)
        <4>. SUFFICES ASSUME Len(fields) # Len(a.fields) PROVE FALSE
          OBVIOUS
        <4>1. a.fields[Len(fields) + 1].size \in Nat
          <5>1. a.fields[Len(fields) + 1] \in ExtraField
            BY <2>1, <2>2, <3>1, Ahead
          <5>. QED BY <5>1 DEF ExtraField
        <4>2. offset + FIELD_HEADER + a.fields[Len(fields) + 1].size <= header.extra
          BY <2>1, <2>2, Ahead
        <4>3. offset \in Nat /\ header.extra \in Nat
          BY DEF Read, TypeOK, IsHeader
        <4>. QED BY <2>1, <4>1, <4>2, <4>3 DEF FIELD_HEADER
      <3>. QED BY <3>1, <3>2 DEF Prefix
    <2>. QED BY <2>1, <2>2, AcceptsFixed DEF Alongside, AcceptedFromMore
  <1>9. CASE SizesKept
    <2>1. Settled(fields, Original)
      BY <1>9 DEF SizesKept, Settled
    <2>. QED BY <1>9, <2>1, SettleAlongside DEF SizesKept
  <1>10. CASE Zip64Cut
    <2>1. PICK f \in DOMAIN fields :
             First(fields, f, ZIP64_EXTRA_FIELD_ID) /\ fields[f].size < RequiredZip64Size
      BY <1>10 DEF Zip64Cut
    <2>2. None /\ pc = "sizes"
      BY <1>10 DEF Zip64Cut
    <2>3. ASSUME NEW a \in accepted PROVE FALSE
      <3>1. fields = a.fields
        BY <2>2, <2>3 DEF Alongside
      <3>2. PICK p : Settled(fields, p)
        BY <2>3, <3>1 DEF Alongside, Accepts
      <3>3. fields[f].size \in Nat /\ f \in 1 .. Len(fields)
        <4>1. f \in 1 .. Len(fields) /\ fields[f] \in ExtraField
          BY DEF Read, TypeOK
        <4>. QED BY <4>1 DEF ExtraField
      <3>4. RequiredZip64Size # 0 /\ ~ Absent(fields, ZIP64_EXTRA_FIELD_ID)
        BY <2>1, <3>3 DEF First, Absent
      <3>5. PICK g \in 1 .. Len(fields) :
               First(fields, g, ZIP64_EXTRA_FIELD_ID) /\ fields[g].size >= RequiredZip64Size
        BY <3>2, <3>4 DEF Settled
      <3>6. f <= g /\ g <= f
        BY <2>1, <3>3, <3>5 DEF First
      <3>7. f = g
        BY <3>3, <3>6
      <3>. QED BY <2>1, <3>3, <3>5, <3>7, RequiredFacts DEF Read, TypeOK
    <2>. QED BY <2>2, <2>3, RefusedAlongside
  <1>11. CASE SizesReplaced
    <2>1. PICK f \in DOMAIN fields :
             /\ First(fields, f, ZIP64_EXTRA_FIELD_ID)
             /\ fields[f].size >= RequiredZip64Size
             /\ IF fields[f].size >= ReadLength THEN Settle(ReadAllIfNeeded(fields[f].at))
                ELSE Panic
      BY <1>11 DEF SizesReplaced
    <2>2. Settle(ReadAllIfNeeded(fields[f].at))
      BY <2>1, RequiredFacts DEF Read, TypeOK
    <2>3. Settled(fields, ReadAllIfNeeded(fields[f].at))
      BY <1>11, <2>1 DEF SizesReplaced, Settled, Read, TypeOK
    <2>. QED BY <1>11, <2>2, <2>3, SettleAlongside DEF SizesReplaced
  <1>12. CASE ZipCryptoCut
    <2>1. None /\ FieldsEnd + ZIPCRYPTO_HEADER > have
          /\ pc = "encryption" /\ header.method # COMPRESSION_AEX
      BY <1>12 DEF ZipCryptoCut
    <2>2. ASSUME NEW a \in accepted PROVE have < a.have
      <3>1. FieldsEnd + ZIPCRYPTO_HEADER <= a.have
        BY <2>1, <2>2, EncryptedAccepted
      <3>. QED BY <2>1, <2>2, <3>1, AcceptedType, HeaderEndType DEF ZIPCRYPTO_HEADER, Read, TypeOK
    <2>. QED BY <2>1, <2>2, RefusedAlongside
  <1>13. CASE ZipCryptoRead
    <2>1. /\ pc = "encryption" /\ header.method # COMPRESSION_AEX
          /\ FieldsEnd + ZIPCRYPTO_HEADER <= have
          /\ header.kind = "local" /\ header.encrypted
          /\ Encrypted(ZIPCRYPTO_HEADER, 0, "ZipCrypto", header.method)
      BY <1>13 DEF ZipCryptoRead, Read, TypeOK
    <2>2. Accepts(fields, have, Locked(sizes, ZIPCRYPTO_HEADER, 0, "ZipCrypto", header.method))
      <3>1. Enough(fields, have)
        BY <2>1 DEF Enough, Read, Walked
      <3>2. Settled(fields, sizes)
        BY <2>1 DEF Read, Walked
      <3>. QED BY <2>1, <3>1, <3>2 DEF Accepts, Outcome, Read, Walked
    <2>. QED BY <2>1, <2>2, SomeAlongside, PanicAlongside DEF Encrypted, Locked
  <1>14. CASE AExAbsent \/ AExTooShort \/ AExUnknown
    <2>1. None /\ pc = "encryption" /\ header.method = COMPRESSION_AEX
      BY <1>14 DEF AExAbsent, AExTooShort, AExUnknown, AExLongerThan, AtAEx, AExField
    <2>2. ASSUME NEW a \in accepted PROVE FALSE
      <3>1. LongAEx(fields) /\ header.aex.strength \in DOMAIN Salt
        BY <2>1, <2>2, EncryptedAccepted
      <3>2. CASE AExAbsent
        BY <3>1, <3>2 DEF AExAbsent, LongAEx, First, Absent
      <3>3. CASE AExTooShort
        <4>1. PICK size \in 0 .. 2 : AExField(size)
          BY <3>3 DEF AExTooShort, FIELD_HEADER
        <4>. QED BY <3>1, <4>1, LongIsNotShort
      <3>4. CASE AExUnknown
        BY <3>1, <3>4 DEF AExUnknown
      <3>. QED BY <1>14, <3>2, <3>3, <3>4
    <2>. QED BY <2>1, <2>2, RefusedAlongside
  <1>15. CASE AExCut
    <2>1. /\ None /\ ~ AExWhole
          /\ pc = "encryption" /\ header.method = COMPRESSION_AEX
          /\ header.aex.strength \in DOMAIN Salt
      BY <1>15 DEF AExCut, AExKnown, AExLongerThan, AtAEx
    <2>2. ASSUME NEW a \in accepted PROVE have < a.have
      <3>1. FieldsEnd + AExLength <= a.have
        BY <2>1, <2>2, EncryptedAccepted
      <3>2. Salt[header.aex.strength] \in Nat
        BY <2>1 DEF Salt
      <3>3. FieldsEnd \in Nat /\ have \in Nat /\ a.have \in Nat
        BY <2>2, AcceptedType, HeaderEndType DEF Read, TypeOK
      <3>. QED BY <2>1, <3>1, <3>2, <3>3 DEF AExLength, AExWhole, PVV
    <2>. QED BY <2>1, <2>2, RefusedAlongside
  <1>16. CASE AExRead
    <2>1. /\ pc = "encryption" /\ header.method = COMPRESSION_AEX
          /\ header.aex.strength \in DOMAIN Salt /\ AExWhole
          /\ header.kind = "local" /\ header.encrypted
          /\ Encrypted(AExLength, AUTH, "AEx", header.aex.method)
      BY <1>16 DEF AExRead, AExKnown, AExLongerThan, AtAEx, Read, TypeOK
    <2>2. LongAEx(fields)
      <3>1. PICK f \in DOMAIN fields :
               First(fields, f, AEX_EXTRA_FIELD_ID) /\ fields[f].size > 6
        BY <1>16 DEF AExRead, AExLongerThan
      <3>2. fields[f].size \in Nat
        <4>1. f \in 1 .. Len(fields) /\ fields[f] \in ExtraField
          BY DEF Read, TypeOK
        <4>. QED BY <4>1 DEF ExtraField
      <3>3. fields[f].size >= 7
        BY <3>1, <3>2
      <3>. QED BY <3>1, <3>3 DEF LongAEx
    <2>3. FieldsEnd + AExLength <= have
      <3>1. Salt[header.aex.strength] \in Nat
        BY <2>1 DEF Salt
      <3>2. FieldsEnd \in Nat /\ have \in Nat
        BY HeaderEndType DEF Read, TypeOK
      <3>. QED BY <2>1, <3>1, <3>2 DEF AExLength, AExWhole, PVV
    <2>4. Accepts(fields, have, Locked(sizes, AExLength, AUTH, "AEx", header.aex.method))
      <3>1. Enough(fields, have)
        BY <2>1, <2>2, <2>3 DEF Enough, Read, Walked
      <3>2. Settled(fields, sizes)
        BY <2>1 DEF Read, Walked
      <3>. QED BY <2>1, <3>1, <3>2 DEF Accepts, Outcome, Read, Walked
    <2>. QED BY <2>1, <2>4, SomeAlongside, PanicAlongside DEF Encrypted, Locked
  <1>17. CASE AExStrengthBeyond \/ AExMethodBeyond
    BY <1>17, PanicAlongside DEF AExStrengthBeyond, AExMethodBeyond
  <1>. QED
    BY <1>1, <1>2, <1>3, <1>4, <1>5, <1>6, <1>7, <1>8, <1>9, <1>10, <1>11, <1>12, <1>13, <1>14,
       <1>15, <1>16, <1>17 DEF Next, FromBytes

LEMMA SpecAlongside == Spec => []Alongside
  <1>1. Init => Alongside
    BY DEF Init, Alongside, AcceptedFromMore
  <1>. QED BY <1>1, SpecRead, AlongsideLemma, PTL DEF Spec

(***************************************************************************)
(* update passes over a header that it has in its buffer: what is returned *)
(* as its size, with the salt that follows it, was looked at.              *)
(***************************************************************************)
LEMMA InBuffer == Read /\ Alongside => HeaderInBuffer
  <1>. SUFFICES ASSUME Read, Alongside, pc = "idle", answer = "Some"
                PROVE  ConstantSize <= result.header_size /\ result.header_size <= have
    BY DEF HeaderInBuffer
  <1>1. Enough(fields, have) /\ Walk(fields)
    BY DEF Alongside, Accepts
  <1>2. PICK p : Settled(fields, p) /\ result = Outcome(p)
    BY DEF Alongside, Accepts
  <1>3. /\ ConstantSize \in Nat /\ FieldsEnd \in Nat /\ HeaderEnd \in Nat /\ have \in Nat
        /\ ConstantSize <= FieldsEnd /\ FieldsEnd <= HeaderEnd
    BY HeaderEndType DEF Read, TypeOK
  <1>4. header.kind = "local" => HeaderEnd = FieldsEnd
    BY <1>3 DEF HeaderEnd, Read, TypeOK, IsHeader
  <1>5. CASE ~ (header.kind = "local" /\ header.encrypted)
    BY <1>1, <1>2, <1>3, <1>5 DEF Outcome, Plain, Enough
  <1>6. CASE /\ header.kind = "local" /\ header.encrypted
             /\ header.method = COMPRESSION_AEX
    <2>1. result.header_size = HeaderEnd + AExLength
      BY <1>2, <1>6 DEF Outcome, Locked, Plain
    <2>2. AExLength \in Nat /\ FieldsEnd + AExLength <= have
      BY <1>1, <1>6 DEF Enough, AExLength, Salt, PVV
    <2>. QED BY <1>3, <1>4, <1>6, <2>1, <2>2
  <1>7. CASE /\ header.kind = "local" /\ header.encrypted
             /\ header.method # COMPRESSION_AEX
    <2>1. result.header_size = HeaderEnd + ZIPCRYPTO_HEADER
      BY <1>2, <1>7 DEF Outcome, Locked, Plain
    <2>2. FieldsEnd + ZIPCRYPTO_HEADER <= have
      BY <1>1, <1>7 DEF Enough
    <2>. QED BY <1>3, <1>4, <1>7, <2>1, <2>2 DEF ZIPCRYPTO_HEADER
  <1>. QED BY <1>5, <1>6, <1>7

THEOREM InTheBuffer == Spec => []HeaderInBuffer
  BY SpecRead, SpecAlongside, InBuffer, PTL

(***************************************************************************)
(* Two calls that return Some return the same, whatever each had of the    *)
(* bytes that follow the header.                                           *)
(***************************************************************************)
LEMMA Same == Read /\ Alongside => SameHeader
  <1>. SUFFICES ASSUME Read, Alongside, pc = "idle", answer = "Some", NEW a \in accepted
                PROVE  result = a.result
    BY DEF SameHeader
  <1>1. fields = a.fields /\ fields \in Seq(ExtraField)
    BY DEF Alongside, Read, TypeOK
  <1>2. PICK p : Settled(fields, p) /\ result = Outcome(p)
    BY DEF Alongside, Accepts
  <1>3. PICK q : Settled(fields, q) /\ a.result = Outcome(q)
    BY <1>1 DEF Alongside, Accepts
  <1>4. p = q
    BY <1>1, <1>2, <1>3, SettledOnce
  <1>. QED BY <1>2, <1>3, <1>4

THEOREM AlwaysTheSame == Spec => []SameHeader
  BY SpecRead, SpecAlongside, Same, PTL

(***************************************************************************)
(* A header that was read once is only refused when there are fewer bytes. *)
(***************************************************************************)
THEOREM FromMore == Spec => []AcceptedFromMore
  BY SpecAlongside, PTL DEF Alongside

-----------------------------------------------------------------------------
(***************************************************************************)
(* The format's side: how many fields before another one are in ZIP64.     *)
(***************************************************************************)
LEMMA OneMore ==
  ASSUME NEW S, IsFiniteSet(S), NEW x, x \notin S, NEW L
  PROVE  /\ IsFiniteSet(S \cup {x})
         /\ Cardinality((S \cup {x}) \cap L) = Cardinality(S \cap L) + (IF x \in L THEN 1 ELSE 0)
  <1>1. IsFiniteSet(S \cap L) /\ x \notin S \cap L
    <2>1. S \cap L \in SUBSET S
      OBVIOUS
    <2>. QED BY <2>1, FS_Subset
  <1>2. Cardinality(S \cap L) \in Nat
    BY <1>1, FS_CardinalityType
  <1>3. CASE x \in L
    <2>1. (S \cup {x}) \cap L = (S \cap L) \cup {x}
      BY <1>3
    <2>2. Cardinality((S \cap L) \cup {x}) = Cardinality(S \cap L) + 1
      BY <1>1, FS_AddElement
    <2>3. Cardinality((S \cup {x}) \cap L) = Cardinality(S \cap L) + 1
      BY <2>1, <2>2, Zenon
    <2>. QED BY <1>3, <2>3, FS_AddElement
  <1>4. CASE x \notin L
    <2>1. (S \cup {x}) \cap L = S \cap L
      BY <1>4
    <2>2. Cardinality((S \cup {x}) \cap L) = Cardinality(S \cap L)
      BY <2>1, Zenon
    <2>. QED BY <1>2, <1>4, <2>2, FS_AddElement
  <1>. QED BY <1>3, <1>4

LEMMA Counts ==
  ASSUME NEW L
  PROVE  LET u == IF "uncompressed_size" \in L THEN 1 ELSE 0
             c == IF "compressed_size" \in L THEN 1 ELSE 0
             o == IF "local_header_offset" \in L THEN 1 ELSE 0
         IN /\ Cardinality(Preceding.uncompressed_size \cap L) = 0
            /\ Cardinality(Preceding.compressed_size \cap L) = u
            /\ Cardinality(Preceding.local_header_offset \cap L) = u + c
            /\ Cardinality(Preceding.disk_number \cap L) = u + c + o
  <1>. DEFINE u == IF "uncompressed_size" \in L THEN 1 ELSE 0
              c == IF "compressed_size" \in L THEN 1 ELSE 0
              o == IF "local_header_offset" \in L THEN 1 ELSE 0
              none == {}
              one == none \cup {"uncompressed_size"}
              two == one \cup {"compressed_size"}
              three == two \cup {"local_header_offset"}
  <1>1. /\ Preceding.uncompressed_size = none /\ Preceding.compressed_size = one
        /\ Preceding.local_header_offset = two /\ Preceding.disk_number = three
    BY DEF Preceding
  <1>2. IsFiniteSet(none) /\ Cardinality(none \cap L) = 0
    <2>1. none \cap L = {}
      OBVIOUS
    <2>. QED BY <2>1, FS_EmptySet
  <1>3. IsFiniteSet(one) /\ Cardinality(one \cap L) = 0 + u
    <2>1. "uncompressed_size" \notin none
      OBVIOUS
    <2>. HIDE DEF none
    <2>. QED BY <1>2, <2>1, OneMore
  <1>4. IsFiniteSet(two) /\ Cardinality(two \cap L) = 0 + u + c
    <2>1. "compressed_size" \notin one
      OBVIOUS
    <2>. HIDE DEF one
    <2>. QED BY <1>3, <2>1, OneMore
  <1>5. IsFiniteSet(three) /\ Cardinality(three \cap L) = 0 + u + c + o
    <2>1. "local_header_offset" \notin two
      OBVIOUS
    <2>. HIDE DEF two
    <2>. QED BY <1>4, <2>1, OneMore
  <1>. HIDE DEF none, one, two, three
  <1>. QED BY <1>1, <1>2, <1>3, <1>4, <1>5

(***************************************************************************)
(* process asks for as much as the format says, and at the same places.    *)
(***************************************************************************)
LEMMA WideFacts ==
  ASSUME IsHeader(header)
  PROVE  LET L == Large(header)
         IN /\ Wide(Original.uncompressed_size) = IF "uncompressed_size" \in L THEN 8 ELSE 0
            /\ Wide(Original.compressed_size) = IF "compressed_size" \in L THEN 8 ELSE 0
            /\ Wide(Original.local_header_offset) = IF "local_header_offset" \in L THEN 8 ELSE 0
            /\ WideDisk(Original.disk_number) = IF "disk_number" \in L THEN 4 ELSE 0
  <1>1. /\ Original.uncompressed_size = header.original["uncompressed_size"]
        /\ Original.compressed_size = header.original["compressed_size"]
        /\ Original.local_header_offset = IF header.kind = "local" THEN 0
                                          ELSE header.original["local_header_offset"]
        /\ Original.disk_number = IF header.kind = "local" THEN 0 ELSE header.original["disk_number"]
    BY DEF Original, IsHeader, Zip64OriginalData
  <1>2. U16_MAX # 0 /\ U32_MAX # 0
    BY WidthsAssumption
  <1>3. Wide(Original.uncompressed_size) = IF "uncompressed_size" \in Large(header) THEN 8 ELSE 0
    BY <1>1 DEF Wide, Large, Replaceable
  <1>4. Wide(Original.compressed_size) = IF "compressed_size" \in Large(header) THEN 8 ELSE 0
    BY <1>1 DEF Wide, Large, Replaceable
  <1>5. Wide(Original.local_header_offset)
          = IF "local_header_offset" \in Large(header) THEN 8 ELSE 0
    BY <1>1, <1>2 DEF Wide, Large, Replaceable
  <1>6. WideDisk(Original.disk_number) = IF "disk_number" \in Large(header) THEN 4 ELSE 0
    BY <1>1, <1>2 DEF WideDisk, Large, Replaceable
  <1>. QED BY <1>3, <1>4, <1>5, <1>6

LEMMA LargeFacts ==
  ASSUME IsHeader(header)
  PROVE  /\ RequiredZip64Size = LargeLength(header)
         /\ RequiredZip64Size = 0 <=> Large(header) = {}
  <1>. DEFINE L == Large(header)
  <1>. HIDE DEF L
  <1>1. /\ RequiredZip64Size = (IF "uncompressed_size" \in L THEN 8 ELSE 0)
             + (IF "compressed_size" \in L THEN 8 ELSE 0)
             + (IF "local_header_offset" \in L THEN 8 ELSE 0)
             + (IF "disk_number" \in L THEN 4 ELSE 0)
    BY WideFacts DEF RequiredZip64Size, L
  <1>2. LargeLength(header) =
          8 * ((IF "uncompressed_size" \in L THEN 1 ELSE 0)
               + (IF "compressed_size" \in L THEN 1 ELSE 0)
               + (IF "local_header_offset" \in L THEN 1 ELSE 0))
            + (IF "disk_number" \in L THEN 4 ELSE 0)
    BY Counts DEF LargeLength, L
  <1>3. L \subseteq {"uncompressed_size", "compressed_size", "local_header_offset", "disk_number"}
    BY DEF L, Large, Replaceable
  <1>4. RequiredZip64Size = LargeLength(header)
    BY <1>1, <1>2
  <1>5. RequiredZip64Size = 0 <=> L = {}
    BY <1>1, <1>3
  <1>. QED BY <1>4, <1>5 DEF L

MeantSizes ==
  [uncompressed_size |-> MeantValue(header, "uncompressed_size"),
   compressed_size |-> MeantValue(header, "compressed_size"),
   local_header_offset |-> MeantValue(header, "local_header_offset"),
   disk_number |-> MeantValue(header, "disk_number")]

LEMMA LaidFacts ==
  ASSUME Read
  PROVE  /\ header.layout \in Seq(ExtraField)
         /\ Walk(header.layout)
         /\ Ends(header.layout) = LaidEnd(header, Len(header.layout))
         /\ Ends(header.layout) # header.extra =>
              Ends(header.layout) + FIELD_HEADER + header.field[Ends(header.layout)].size
                > header.extra
  <1>. DEFINE list == header.layout
  <1>1. LaidOut(header)
    BY WrittenAssumption DEF Read, Walked
  <1>2. list \in Seq(ExtraField) /\ \A k \in 1 .. Len(list) : Lies(header, k)
    BY <1>1 DEF LaidOut
  <1>3. Ends(list) = LaidEnd(header, Len(list))
    <2>1. list = << >> <=> Len(list) = 0
      BY <1>2
    <2>. QED BY <2>1 DEF Ends, LaidEnd
  <1>4. \A k \in 1 .. Len(list) : list[k].at \in Nat /\ list[k].size \in Nat
    <2>1. \A k \in 1 .. Len(list) : list[k] \in ExtraField
      BY <1>2
    <2>. QED BY <2>1 DEF ExtraField
  <1>5. Walk(list)
    <2>. SUFFICES ASSUME NEW f \in 1 .. Len(list)
                  PROVE  /\ list[f].at >= FIELD_HEADER
                         /\ list[f].at + list[f].size <= header.extra
                         /\ list[f].id = header.field[list[f].at - FIELD_HEADER].id
                         /\ list[f].size = header.field[list[f].at - FIELD_HEADER].size
                         /\ f = 1 => list[f].at = FIELD_HEADER
                         /\ f > 1 => list[f].at = list[f - 1].at + list[f - 1].size + FIELD_HEADER
      BY DEF Walk
    <2>. DEFINE before == LaidEnd(header, f - 1)
    <2>1. f = 1 => before = 0
      BY DEF LaidEnd
    <2>2. f > 1 => before = list[f - 1].at + list[f - 1].size /\ f - 1 \in 1 .. Len(list)
      BY <1>2 DEF LaidEnd
    <2>3. before \in Nat
      BY <1>4, <2>1, <2>2
    <2>4. LaidEnd(header, f) = list[f].at + list[f].size
      BY DEF LaidEnd
    <2>. HIDE DEF before
    <2>5. /\ list[f].at = before + FIELD_HEADER /\ LaidEnd(header, f) <= header.extra
          /\ list[f].id = header.field[before].id /\ list[f].size = header.field[before].size
      BY <1>2 DEF Lies, before
    <2>6. list[f].at - FIELD_HEADER = before
      BY <2>3, <2>5 DEF FIELD_HEADER
    <2>. QED BY <2>1, <2>2, <2>3, <2>4, <2>5, <2>6 DEF FIELD_HEADER
  <1>. QED BY <1>1, <1>2, <1>3, <1>5 DEF LaidOut

(***************************************************************************)
(* What the format says the sizes are is what process makes of the fields  *)
(* that were laid out, and from that comes what was meant.                 *)
(***************************************************************************)
LEMMA MeantIsSettled ==
  ASSUME Read, Meaningful(header)
  PROVE  Settled(header.layout, MeantSizes)
  <1>. DEFINE list == header.layout
  <1>1. IsHeader(header)
    BY DEF Read, TypeOK
  <1>2. CASE Large(header) = {}
    <2>1. RequiredZip64Size = 0
      BY <1>1, <1>2, LargeFacts
    <2>2. /\ Original.uncompressed_size = header.original["uncompressed_size"]
          /\ Original.compressed_size = header.original["compressed_size"]
          /\ Original.local_header_offset = IF header.kind = "local" THEN 0
                                            ELSE header.original["local_header_offset"]
          /\ Original.disk_number = IF header.kind = "local" THEN 0
                                    ELSE header.original["disk_number"]
      BY <1>1 DEF Original, IsHeader, Zip64OriginalData
    <2>3. Original = MeantSizes
      <3>1. /\ MeantValue(header, "uncompressed_size") = Original.uncompressed_size
            /\ MeantValue(header, "compressed_size") = Original.compressed_size
        BY <1>2, <2>2 DEF MeantValue, Replaceable
      <3>2. /\ MeantValue(header, "local_header_offset") = Original.local_header_offset
            /\ MeantValue(header, "disk_number") = Original.disk_number
        BY <1>2, <2>2 DEF MeantValue, Replaceable
      <3>3. Original \in Zip64OriginalData
        BY <1>1, RequiredFacts
      <3>. QED BY <3>1, <3>2, <3>3 DEF MeantSizes, Zip64OriginalData
    <2>. QED BY <2>1, <2>3 DEF Settled
  <1>3. CASE Large(header) # {}
    <2>. DEFINE f == Zip64Field(header)
                at == list[f].at
                L == Large(header)
    <2>1. f \in 1 .. Len(list) /\ First(list, f, ZIP64_EXTRA_FIELD_ID)
      BY <1>3 DEF Meaningful, Zip64Field
    <2>2. RequiredZip64Size # 0 /\ list[f].size >= RequiredZip64Size
      BY <1>1, <1>3, <2>1, LargeFacts DEF Meaningful, WellFormed
    <2>3. list[f].at \in Nat
      <3>1. list[f] \in ExtraField
        BY <2>1, LaidFacts
      <3>. QED BY <3>1 DEF ExtraField
    <2>. HIDE DEF f
    <2>4. \A name : MeantValue(header, name) =
             IF name \in L THEN header.word[at + 8 * Cardinality(Preceding[name] \cap L)]
             ELSE IF name \in Replaceable(header) THEN header.original[name] ELSE 0
      BY DEF MeantValue, f
    <2>5. /\ L \subseteq Replaceable(header)
          /\ "uncompressed_size" \in Replaceable(header) /\ "compressed_size" \in Replaceable(header)
          /\ "local_header_offset" \in Replaceable(header) <=> header.kind # "local"
          /\ "disk_number" \in Replaceable(header) <=> header.kind # "local"
      BY DEF Large, Replaceable
    <2>6. /\ Original.uncompressed_size = header.original["uncompressed_size"]
          /\ Original.compressed_size = header.original["compressed_size"]
          /\ Original.local_header_offset = IF header.kind = "local" THEN 0
                                            ELSE header.original["local_header_offset"]
          /\ Original.disk_number = IF header.kind = "local" THEN 0
                                    ELSE header.original["disk_number"]
      BY <1>1 DEF Original, IsHeader, Zip64OriginalData
    <2>7. /\ Original.uncompressed_size = U32_MAX <=> "uncompressed_size" \in L
          /\ Original.compressed_size = U32_MAX <=> "compressed_size" \in L
          /\ Original.local_header_offset = U32_MAX <=> "local_header_offset" \in L
          /\ Original.disk_number = U16_MAX <=> "disk_number" \in L
      BY <1>1, WideFacts DEF Wide, WideDisk
    <2>. HIDE DEF L
    <2>8. LET u == IF "uncompressed_size" \in L THEN 8 ELSE 0
              c == IF "compressed_size" \in L THEN 8 ELSE 0
              o == IF "local_header_offset" \in L THEN 8 ELSE 0
          IN /\ at + 8 * Cardinality(Preceding["uncompressed_size"] \cap L) = at
             /\ at + 8 * Cardinality(Preceding["compressed_size"] \cap L) = at + u
             /\ at + 8 * Cardinality(Preceding["local_header_offset"] \cap L) = at + u + c
             /\ at + 8 * Cardinality(Preceding["disk_number"] \cap L) = at + u + c + o
      <3>. DEFINE n1 == IF "uncompressed_size" \in L THEN 1 ELSE 0
                  n2 == IF "compressed_size" \in L THEN 1 ELSE 0
                  n3 == IF "local_header_offset" \in L THEN 1 ELSE 0
      <3>1. /\ Cardinality(Preceding["uncompressed_size"] \cap L) = 0
            /\ Cardinality(Preceding["compressed_size"] \cap L) = n1
            /\ Cardinality(Preceding["local_header_offset"] \cap L) = n1 + n2
            /\ Cardinality(Preceding["disk_number"] \cap L) = n1 + n2 + n3
        BY Counts
      <3>2. \A n : n = at => n \in Nat
        BY <2>3
      <3>. HIDE DEF at
      <3>. QED BY <3>1, <3>2
    <2>9. ReadAllIfNeeded(at) = MeantSizes
      <3>. DEFINE r == ReadAllIfNeeded(at)
                  u == IF "uncompressed_size" \in L THEN 8 ELSE 0
                  c == IF "compressed_size" \in L THEN 8 ELSE 0
                  o == IF "local_header_offset" \in L THEN 8 ELSE 0
      <3>1. /\ Wide(Original.uncompressed_size) = u /\ Wide(Original.compressed_size) = c
            /\ Wide(Original.local_header_offset) = o
        BY <1>1, WideFacts DEF L
      <3>2. r = [uncompressed_size |->
                   IF "uncompressed_size" \in L THEN header.word[at] ELSE Original.uncompressed_size,
                 compressed_size |->
                   IF "compressed_size" \in L THEN header.word[at + u] ELSE Original.compressed_size,
                 local_header_offset |->
                   IF "local_header_offset" \in L THEN header.word[at + u + c]
                   ELSE Original.local_header_offset,
                 disk_number |->
                   IF "disk_number" \in L THEN header.word[at + u + c + o]
                   ELSE Original.disk_number]
        <4>. HIDE DEF at, u, c, o
        <4>. QED BY <2>7, <3>1 DEF ReadAllIfNeeded
      <3>3. /\ MeantValue(header, "uncompressed_size") =
                 IF "uncompressed_size" \in L THEN header.word[at] ELSE Original.uncompressed_size
            /\ MeantValue(header, "compressed_size") =
                 IF "compressed_size" \in L THEN header.word[at + u] ELSE Original.compressed_size
        BY <2>4, <2>5, <2>6, <2>8
      <3>4. /\ MeantValue(header, "local_header_offset") =
                 IF "local_header_offset" \in L THEN header.word[at + u + c]
                 ELSE Original.local_header_offset
            /\ MeantValue(header, "disk_number") =
                 IF "disk_number" \in L THEN header.word[at + u + c + o] ELSE Original.disk_number
        BY <2>4, <2>5, <2>6, <2>8
      <3>. QED BY <3>2, <3>3, <3>4, Zenon DEF MeantSizes
    <2>. QED BY <2>1, <2>2, <2>9 DEF Settled
  <1>. QED BY <1>2, <1>3

LEMMA MeantIsOutcome ==
  ASSUME Read, Meaningful(header)
  PROVE  Outcome(MeantSizes) = Meaning(header)
  <1>. DEFINE c == MeantValue(header, "compressed_size")
              more == Before(header) + Behind(header)
              m == Meaning(header)
  <1>1. IsHeader(header) /\ MeantSizes \in Zip64ProcessedData
    BY LaidFacts, MeantIsSettled, SettledType DEF Read, TypeOK
  <1>2. c \in Nat /\ MeantSizes.compressed_size = c
    BY <1>1 DEF MeantSizes, Zip64ProcessedData
  <1>3. HeaderEnd \in Nat
    BY <1>1, HeaderEndType
  <1>4. /\ m.header_size = HeaderEnd + Before(header)
        /\ m.compressed_size = c - more
        /\ c - more \in 0 .. U64_MOD - 1
    BY DEF Meaning, Meaningful, HeaderEnd, FieldsEnd, ConstantSize
  <1>5. CASE ~ Locks(header)
    <2>1. Before(header) = 0 /\ Behind(header) = 0
      BY <1>5 DEF Before, Behind
    <2>2. Outcome(MeantSizes) = Plain(MeantSizes)
      BY <1>5 DEF Outcome, Locks
    <2>3. m.header_size = HeaderEnd /\ m.compressed_size = c
      BY <1>2, <1>3, <1>4, <2>1
    <2>. QED BY <1>5, <2>2, <2>3 DEF Plain, MeantSizes, Meaning
  <1>6. CASE Locks(header) /\ header.method = COMPRESSION_AEX
    <2>1. Before(header) = AExLength /\ Behind(header) = AUTH
      BY <1>6 DEF Before, Behind, AExLength, PVV, Salt, Meaningful, WellFormed
    <2>2. Outcome(MeantSizes) = Locked(MeantSizes, AExLength, AUTH, "AEx", header.aex.method)
      BY <1>6 DEF Outcome, Locks
    <2>3. (c - (AExLength + AUTH)) % U64_MOD = c - (AExLength + AUTH)
      BY <1>4, <2>1, WidthsAssumption
    <2>4. m.header_size = HeaderEnd + AExLength /\ m.compressed_size = c - (AExLength + AUTH)
      BY <1>4, <2>1
    <2>. QED BY <1>6, <2>2, <2>3, <2>4 DEF Locked, Plain, MeantSizes, Meaning
  <1>7. CASE Locks(header) /\ header.method # COMPRESSION_AEX
    <2>1. Before(header) = ZIPCRYPTO_HEADER /\ Behind(header) = 0
      BY <1>7 DEF Before, Behind
    <2>2. Outcome(MeantSizes) = Locked(MeantSizes, ZIPCRYPTO_HEADER, 0, "ZipCrypto", header.method)
      BY <1>7 DEF Outcome, Locks
    <2>3. (c - (ZIPCRYPTO_HEADER + 0)) % U64_MOD = c - (ZIPCRYPTO_HEADER + 0)
      BY <1>4, <2>1, WidthsAssumption
    <2>4. /\ m.header_size = HeaderEnd + ZIPCRYPTO_HEADER
          /\ m.compressed_size = c - (ZIPCRYPTO_HEADER + 0)
      BY <1>4, <2>1
    <2>. QED BY <1>7, <2>2, <2>3, <2>4 DEF Locked, Plain, MeantSizes, Meaning
  <1>. QED BY <1>5, <1>6, <1>7

-----------------------------------------------------------------------------
(***************************************************************************)
(* A call comes upon the fields as they were laid out, and a header that   *)
(* was meant is refused only for want of bytes.                            *)
(***************************************************************************)
OnLayout ==
  /\ pc = "fields" => Prefix(fields, header.layout)
  /\ pc \in {"sizes", "encryption"} => fields = header.layout
  /\ pc = "idle" /\ answer = "Some" => fields = header.layout
  /\ pc = "idle" /\ answer = "None" => \A m \in header.meant : have < m.header_size
  /\ pc = "idle" /\ answer = "panic" => header.meant = {}

LEMMA MeantFacts ==
  ASSUME Read, NEW m \in header.meant
  PROVE  Meaningful(header) /\ m = Meaning(header)
  BY WrittenAssumption DEF Read, Walked

LEMMA MeantLong ==
  ASSUME Read, NEW m \in header.meant
  PROVE  /\ m.header_size = HeaderEnd + Before(header)
         /\ Before(header) \in Nat
         /\ Locks(header) => HeaderEnd = FieldsEnd
         /\ ConstantSize \in Nat /\ FieldsEnd \in Nat /\ HeaderEnd \in Nat /\ have \in Nat
         /\ ConstantSize <= HeaderEnd
  <1>1. m.header_size = HeaderEnd + Before(header)
    BY MeantFacts DEF Meaning, HeaderEnd, FieldsEnd, ConstantSize
  <1>2. Before(header) \in Nat
    BY MeantFacts DEF Before, Meaningful, WellFormed, PVV, ZIPCRYPTO_HEADER, Salt
  <1>3. Locks(header) => HeaderEnd = FieldsEnd
    BY HeaderEndType DEF Locks, HeaderEnd, Read, TypeOK, IsHeader
  <1>. QED BY <1>1, <1>2, <1>3, HeaderEndType DEF Read, TypeOK

\* A call that is refused with a list that ends where it must has the fields.
LEMMA RefusedOnLayout ==
  ASSUME Read, OnLayout, None \/ Panic,
         None => \A m \in header.meant : have < m.header_size,
         Panic => header.meant = {}
  PROVE  OnLayout'
  <1>1. /\ header' = header /\ pc' = "idle" /\ have' = have
        /\ answer' = "None" \/ answer' = "panic"
        /\ answer' = "None" => None
        /\ answer' = "panic" => Panic
    BY DEF None, Panic, Return
  <1>. QED BY <1>1 DEF OnLayout

LEMMA SomeOnLayout ==
  ASSUME Read, OnLayout, pc \in {"sizes", "encryption"}, NEW r, Some(r)
  PROVE  OnLayout'
  BY DEF OnLayout, Some, Return

LEMMA SettleOnLayout ==
  ASSUME Read, OnLayout, pc = "sizes", NEW p, Settle(p)
  PROVE  OnLayout'
  <1>1. CASE Continue(p)
    BY <1>1 DEF Continue, OnLayout
  <1>2. CASE Some(Plain(p))
    BY <1>2, SomeOnLayout
  <1>. QED BY <1>1, <1>2 DEF Settle

\* No size is too small for what is subtracted from it.
LEMMA MeantDoesNotPanic ==
  ASSUME Read, OnLayout, pc = "encryption", NEW m \in header.meant
  PROVE  sizes.compressed_size >= Before(header) + Behind(header)
  <1>1. Meaningful(header)
    BY MeantFacts
  <1>2. fields = header.layout /\ fields \in Seq(ExtraField) /\ Settled(fields, sizes)
    BY DEF OnLayout, Read, Walked, TypeOK
  <1>3. sizes = MeantSizes
    BY <1>1, <1>2, MeantIsSettled, SettledOnce
  <1>4. sizes.compressed_size \in Nat
    BY DEF Read, TypeOK, Zip64ProcessedData
  <1>5. Before(header) + Behind(header) \in Nat
    BY <1>1, MeantLong DEF Behind, AUTH
  <1>. QED BY <1>1, <1>3, <1>4, <1>5 DEF Meaningful, MeantSizes

\* What an encrypted local header that was meant has.
LEMMA MeantEncrypted ==
  ASSUME Read, OnLayout, pc = "encryption", NEW m \in header.meant
  PROVE  /\ Locks(header)
         /\ m.header_size = FieldsEnd + Before(header)
         /\ IF header.method = COMPRESSION_AEX
            THEN /\ header.aex.strength \in DOMAIN Salt
                 /\ LongAEx(fields)
                 /\ Before(header) = AExLength
            ELSE Before(header) = ZIPCRYPTO_HEADER
  <1>1. Locks(header) /\ fields = header.layout /\ fields \in Seq(ExtraField)
    BY DEF Read, TypeOK, OnLayout, Locks
  <1>2. Meaningful(header)
    BY MeantFacts
  <1>3. m.header_size = FieldsEnd + Before(header)
    BY <1>1, MeantLong
  <1>4. CASE header.method = COMPRESSION_AEX
    <2>1. header.aex.strength \in DOMAIN Salt /\ LongAEx(fields)
      BY <1>1, <1>2, <1>4 DEF Meaningful, WellFormed, LongAEx
    <2>2. Before(header) = AExLength
      BY <1>1, <1>4, <2>1 DEF Before, AExLength, Salt, PVV
    <2>. QED BY <1>1, <1>3, <1>4, <2>1, <2>2
  <1>5. CASE header.method # COMPRESSION_AEX
    BY <1>1, <1>3, <1>5 DEF Before
  <1>. QED BY <1>4, <1>5

LEMMA InsideExtra ==
  ASSUME Read, offset < header.extra
  PROVE  /\ header.extra \in Nat /\ offset \in 0 .. header.room
         /\ header.field[offset].size \in Nat
  <1>1. /\ header.extra \in Nat /\ header.room \in Nat /\ header.extra <= header.room
        /\ header.field \in [0 .. header.room ->
                               [id : {ZIP64_EXTRA_FIELD_ID, AEX_EXTRA_FIELD_ID, "other"}, size : Nat]]
    BY DEF Read, TypeOK, IsHeader
  <1>2. offset \in 0 .. header.room
    BY <1>1 DEF Read, TypeOK
  <1>. QED BY <1>1, <1>2

LEMMA OnLayoutLemma == Read /\ OnLayout /\ [Next]_vars => OnLayout'
  <1>. SUFFICES ASSUME Read, OnLayout, [Next]_vars PROVE OnLayout'
    OBVIOUS
  <1>1. CASE UNCHANGED vars
    BY <1>1 DEF vars, OnLayout, Prefix
  <1>2. CASE \E n \in Lengths(header) : Call(n)
    BY <1>2 DEF Call, OnLayout
  <1>3. CASE ConstantCut \/ VariableCut
    <2>1. None /\ (have < ConstantSize \/ have < HeaderEnd)
      BY <1>3 DEF ConstantCut, VariableCut, HeaderEnd
    <2>2. ~ Panic
      BY <2>1 DEF None, Panic, Return
    <2>3. \A m \in header.meant : have < m.header_size
      BY <2>1, MeantLong
    <2>. QED BY <2>1, <2>2, <2>3, RefusedOnLayout
  <1>4. CASE ConstantRead
    <2>1. pc = "constant" /\ pc' = "fields" /\ fields' = << >> /\ header' = header
      BY <1>4 DEF ConstantRead, Read, Walked
    <2>2. header.layout \in Seq(ExtraField)
      BY LaidFacts
    <2>. QED BY <2>1, <2>2 DEF OnLayout, Prefix
  <1>5. CASE FieldCut
    <2>1. None /\ pc = "fields" /\ offset < header.extra /\ ~ FieldWhole
      BY <1>5 DEF FieldCut, InFields, ExtraLength
    <2>2. ~ Panic
      BY <2>1 DEF None, Panic, Return
    <2>3. ASSUME NEW m \in header.meant PROVE FALSE
      <3>1. /\ header.extra \in Nat /\ offset \in 0 .. header.room
            /\ header.field[offset].size \in Nat
        BY <2>1, InsideExtra
      <3>2. /\ header.layout \in Seq(ExtraField) /\ Walk(header.layout)
            /\ Ends(header.layout) = header.extra
        BY LaidFacts, MeantFacts DEF Meaningful, WellFormed
      <3>3. Prefix(fields, header.layout) /\ offset = Ends(fields) /\ fields \in Seq(ExtraField)
        BY <2>1 DEF OnLayout, Read, Walked, TypeOK
      <3>4. Len(fields) # Len(header.layout)
        <4>. SUFFICES ASSUME Len(fields) = Len(header.layout) PROVE FALSE
          OBVIOUS
        <4>1. fields = header.layout
          BY <3>2, <3>3 DEF Prefix
        <4>. QED BY <2>1, <3>1, <3>2, <3>3, <4>1
      <3>5. offset + FIELD_HEADER + header.field[offset].size <= header.extra
        BY <2>1, <3>2, <3>3, <3>4, NextOfList
      <3>. QED BY <2>1, <3>1, <3>5 DEF FieldWhole, FieldSize, ExtraLength, FIELD_HEADER
    <2>. QED BY <2>1, <2>2, <2>3, RefusedOnLayout
  <1>6. CASE FieldRead
    <2>. DEFINE new == [id |-> header.field[offset].id, at |-> offset + FIELD_HEADER,
                        size |-> header.field[offset].size]
                k == Len(fields)
                list == header.layout
    <2>1. /\ pc = "fields" /\ pc' = "fields" /\ offset < header.extra /\ FieldWhole
          /\ header' = header /\ fields' = Append(fields, new)
      BY <1>6 DEF FieldRead, InFields, ExtraLength
    <2>2. /\ list \in Seq(ExtraField) /\ Walk(list) /\ fields \in Seq(ExtraField)
          /\ Prefix(fields, list) /\ offset = Ends(fields)
      BY <2>1, LaidFacts DEF OnLayout, Read, TypeOK, Walked
    <2>3. k # Len(list)
      <3>. SUFFICES ASSUME k = Len(list) PROVE FALSE
        OBVIOUS
      <3>1. fields = list
        BY <2>2 DEF Prefix
      <3>2. offset + FIELD_HEADER + header.field[offset].size > header.extra
        BY <2>1, <2>2, <3>1, LaidFacts DEF Read, TypeOK, IsHeader
      <3>3. /\ header.extra \in Nat /\ offset \in 0 .. header.room
            /\ header.field[offset].size \in Nat
        BY <2>1, InsideExtra
      <3>. QED BY <2>1, <3>2, <3>3 DEF FieldWhole, FieldSize, ExtraLength, FIELD_HEADER
    <2>4. list[k + 1] \in ExtraField /\ k + 1 \in 1 .. Len(list)
      BY <2>1, <2>2, <2>3, NextOfList
    <2>5. list[k + 1] = new
      <3>1. /\ list[k + 1].at = offset + FIELD_HEADER
            /\ list[k + 1].id = header.field[offset].id
            /\ list[k + 1].size = header.field[offset].size
        BY <2>1, <2>2, <2>3, NextOfList
      <3>. QED BY <2>4, <3>1 DEF ExtraField
    <2>6. new \in ExtraField
      BY <2>4, <2>5
    <2>. HIDE DEF new
    <2>7. /\ Len(fields') = k + 1 /\ fields'[k + 1] = new
          /\ \A f \in 1 .. k : fields'[f] = fields[f]
      BY <2>1, <2>2, <2>6
    <2>8. Prefix(fields', list)
      BY <2>2, <2>4, <2>5, <2>7 DEF Prefix
    <2>. QED BY <2>1, <2>8 DEF OnLayout, Prefix
  <1>7. CASE FieldsRead
    <2>. DEFINE list == header.layout
    <2>1. /\ pc = "fields" /\ ~ (offset < header.extra) /\ pc' = "sizes"
          /\ header' = header /\ fields' = fields
      BY <1>7 DEF FieldsRead, InFields, ExtraLength
    <2>2. /\ list \in Seq(ExtraField) /\ Walk(list) /\ fields \in Seq(ExtraField)
          /\ Prefix(fields, list)
      BY <2>1, LaidFacts DEF OnLayout, Read, TypeOK
    <2>3. Len(fields) = Len(list)
      <3>. SUFFICES ASSUME Len(fields) # Len(list) PROVE FALSE
        OBVIOUS
      <3>1. list[Len(fields) + 1].size \in Nat
        <4>1. list[Len(fields) + 1] \in ExtraField
          BY <2>1, <2>2, NextOfList
        <4>. QED BY <4>1 DEF ExtraField
      <3>2. offset + FIELD_HEADER + list[Len(fields) + 1].size <= header.extra
        BY <2>1, <2>2, NextOfList
      <3>3. offset \in Nat /\ header.extra \in Nat
        BY DEF Read, TypeOK, IsHeader
      <3>. QED BY <2>1, <3>1, <3>2, <3>3 DEF FIELD_HEADER
    <2>4. fields = list
      BY <2>2, <2>3 DEF Prefix
    <2>. QED BY <2>1, <2>4 DEF OnLayout
  <1>8. CASE SizesKept
    BY <1>8, SettleOnLayout DEF SizesKept
  <1>9. CASE Zip64Cut
    <2>1. PICK f \in DOMAIN fields :
             First(fields, f, ZIP64_EXTRA_FIELD_ID) /\ fields[f].size < RequiredZip64Size
      BY <1>9 DEF Zip64Cut
    <2>2. None /\ pc = "sizes" /\ ~ Panic
      BY <1>9 DEF Zip64Cut, None, Panic, Return
    <2>3. fields = header.layout /\ IsHeader(header) /\ f \in 1 .. Len(fields)
          /\ fields[f].size \in Nat
      <3>1. f \in 1 .. Len(fields) /\ fields[f] \in ExtraField
        BY DEF Read, TypeOK
      <3>. QED BY <2>2, <3>1 DEF OnLayout, Read, TypeOK, ExtraField
    <2>4. RequiredZip64Size # 0
      BY <2>1, <2>3
    <2>5. ASSUME NEW m \in header.meant PROVE FALSE
      <3>1. fields[f].size >= LargeLength(header)
        BY <2>1, <2>3, <2>4, LargeFacts, MeantFacts DEF Meaningful, WellFormed
      <3>. QED BY <2>1, <2>3, <3>1, LargeFacts, RequiredFacts
    <2>. QED BY <2>2, <2>5, RefusedOnLayout
  <1>10. CASE SizesReplaced
    <2>1. PICK f \in DOMAIN fields :
             /\ fields[f].size >= RequiredZip64Size
             /\ IF fields[f].size >= ReadLength THEN Settle(ReadAllIfNeeded(fields[f].at))
                ELSE Panic
      BY <1>10 DEF SizesReplaced
    <2>2. Settle(ReadAllIfNeeded(fields[f].at))
      BY <2>1, RequiredFacts DEF Read, TypeOK
    <2>. QED BY <1>10, <2>2, SettleOnLayout DEF SizesReplaced
  <1>11. CASE ZipCryptoCut
    <2>1. /\ None /\ ~ Panic /\ FieldsEnd + ZIPCRYPTO_HEADER > have
          /\ pc = "encryption" /\ header.method # COMPRESSION_AEX
      BY <1>11 DEF ZipCryptoCut, None, Panic, Return
    <2>2. \A m \in header.meant : have < m.header_size
      BY <2>1, MeantEncrypted, MeantLong DEF ZIPCRYPTO_HEADER
    <2>. QED BY <2>1, <2>2, RefusedOnLayout
  <1>12. CASE ZipCryptoRead
    <2>1. /\ pc = "encryption" /\ header.method # COMPRESSION_AEX
          /\ Encrypted(ZIPCRYPTO_HEADER, 0, "ZipCrypto", header.method)
      BY <1>12 DEF ZipCryptoRead
    <2>2. CASE Panic /\ sizes.compressed_size < ZIPCRYPTO_HEADER + 0
      <3>1. ASSUME NEW m \in header.meant PROVE FALSE
        <4>1. Before(header) = ZIPCRYPTO_HEADER /\ Behind(header) = 0
          BY <2>1, MeantEncrypted DEF Behind
        <4>2. sizes.compressed_size >= ZIPCRYPTO_HEADER + 0
          BY <2>1, <4>1, MeantDoesNotPanic
        <4>3. sizes.compressed_size \in Nat
          BY DEF Read, TypeOK, Zip64ProcessedData
        <4>. QED BY <2>2, <4>2, <4>3 DEF ZIPCRYPTO_HEADER
      <3>2. ~ None
        BY <2>2 DEF None, Panic, Return
      <3>. QED BY <2>2, <3>1, <3>2, RefusedOnLayout
    <2>. QED BY <2>1, <2>2, SomeOnLayout DEF Encrypted
  <1>13. CASE AExAbsent \/ AExTooShort \/ AExUnknown
    <2>1. None /\ ~ Panic /\ pc = "encryption" /\ header.method = COMPRESSION_AEX
      BY <1>13 DEF AExAbsent, AExTooShort, AExUnknown, AExLongerThan, AtAEx, AExField, None, Panic,
         Return
    <2>2. ASSUME NEW m \in header.meant PROVE FALSE
      <3>1. LongAEx(fields) /\ header.aex.strength \in DOMAIN Salt
        BY <2>1, MeantEncrypted
      <3>2. CASE AExAbsent
        BY <3>1, <3>2 DEF AExAbsent, LongAEx, First, Absent
      <3>3. CASE AExTooShort
        <4>1. PICK size \in 0 .. 2 : AExField(size)
          BY <3>3 DEF AExTooShort, FIELD_HEADER
        <4>. QED BY <3>1, <4>1, LongIsNotShort
      <3>4. CASE AExUnknown
        BY <3>1, <3>4 DEF AExUnknown
      <3>. QED BY <1>13, <3>2, <3>3, <3>4
    <2>. QED BY <2>1, <2>2, RefusedOnLayout
  <1>14. CASE AExCut
    <2>1. /\ None /\ ~ Panic /\ ~ AExWhole
          /\ pc = "encryption" /\ header.method = COMPRESSION_AEX
          /\ header.aex.strength \in DOMAIN Salt
      BY <1>14 DEF AExCut, AExKnown, AExLongerThan, AtAEx, None, Panic, Return
    <2>2. ASSUME NEW m \in header.meant PROVE have < m.header_size
      <3>1. m.header_size = FieldsEnd + AExLength
        BY <2>1, MeantEncrypted
      <3>2. Salt[header.aex.strength] \in Nat
        BY <2>1 DEF Salt
      <3>3. FieldsEnd \in Nat /\ have \in Nat
        BY MeantLong
      <3>. QED BY <2>1, <3>1, <3>2, <3>3 DEF AExLength, AExWhole, PVV
    <2>. QED BY <2>1, <2>2, RefusedOnLayout
  <1>15. CASE AExRead
    <2>1. /\ pc = "encryption" /\ header.method = COMPRESSION_AEX
          /\ header.aex.strength \in DOMAIN Salt
          /\ Encrypted(AExLength, AUTH, "AEx", header.aex.method)
      BY <1>15 DEF AExRead, AExKnown, AExLongerThan, AtAEx
    <2>2. CASE Panic /\ sizes.compressed_size < AExLength + AUTH
      <3>1. ASSUME NEW m \in header.meant PROVE FALSE
        <4>1. Before(header) = AExLength /\ Behind(header) = AUTH
          BY <2>1, MeantEncrypted DEF Behind
        <4>2. sizes.compressed_size >= AExLength + AUTH
          BY <2>1, <4>1, MeantDoesNotPanic
        <4>3. sizes.compressed_size \in Nat /\ AExLength \in Nat
          BY <2>1 DEF Read, TypeOK, Zip64ProcessedData, AExLength, Salt, PVV
        <4>. QED BY <2>2, <4>2, <4>3 DEF AUTH
      <3>2. ~ None
        BY <2>2 DEF None, Panic, Return
      <3>. QED BY <2>2, <3>1, <3>2, RefusedOnLayout
    <2>. QED BY <2>1, <2>2, SomeOnLayout DEF Encrypted
  <1>16. CASE AExStrengthBeyond \/ AExMethodBeyond
    <2>1. /\ Panic /\ ~ None /\ pc = "encryption" /\ header.method = COMPRESSION_AEX
          /\ \E size \in 3 .. 6 : AExField(size)
      BY <1>16 DEF AExStrengthBeyond, AExMethodBeyond, AExKnown, AExLongerThan, AtAEx, AExField,
         None, Panic, Return, FIELD_HEADER
    <2>2. ASSUME NEW m \in header.meant PROVE FALSE
      <3>1. LongAEx(fields)
        BY <2>1, MeantEncrypted
      <3>. QED BY <2>1, <3>1, LongIsNotShort
    <2>. QED BY <2>1, <2>2, RefusedOnLayout
  <1>. QED
    BY <1>1, <1>2, <1>3, <1>4, <1>5, <1>6, <1>7, <1>8, <1>9, <1>10, <1>11, <1>12, <1>13, <1>14,
       <1>15, <1>16 DEF Next, FromBytes

LEMMA SpecOnLayout == Spec => []OnLayout
  <1>1. Init => OnLayout
    BY DEF Init, OnLayout
  <1>. QED BY <1>1, SpecRead, OnLayoutLemma, PTL DEF Spec

(***************************************************************************)
(* Both from_bytes read what a correct writer wrote: the extra fields and  *)
(* what ZIP64 puts for the sizes are found where the format has them, the  *)
(* salt and the authentication code are not taken for data, and None is    *)
(* for too few bytes.  What is not well-formed is never accepted.          *)
(***************************************************************************)
LEMMA ReadsIt == Read /\ Alongside /\ OnLayout => ReadsWhatWasWritten
  <1>. SUFFICES ASSUME Read, Alongside, OnLayout, pc = "idle"
                PROVE  /\ answer = "Some" =>
                            ~ header.malformed /\ \A m \in header.meant : result = m
                       /\ answer = "None" => \A m \in header.meant : have < m.header_size
                       /\ answer = "panic" => header.meant = {}
    BY DEF ReadsWhatWasWritten
  <1>1. ASSUME answer = "Some" PROVE ~ header.malformed /\ \A m \in header.meant : result = m
    <2>1. Accepts(fields, have, result) /\ fields = header.layout /\ fields \in Seq(ExtraField)
      BY <1>1 DEF Alongside, OnLayout, Read, TypeOK
    <2>2. PICK p : Settled(fields, p) /\ result = Outcome(p)
      BY <2>1 DEF Accepts
    <2>3. WellFormed(header)
      <3>1. LaidEnd(header, Len(header.layout)) = header.extra
        BY <2>1, LaidFacts DEF Accepts
      <3>2. ASSUME Large(header) # {}, NEW k \in 1 .. Len(header.layout),
                   First(header.layout, k, ZIP64_EXTRA_FIELD_ID)
            PROVE  header.layout[k].size >= LargeLength(header)
        <4>1. RequiredZip64Size # 0 /\ RequiredZip64Size = LargeLength(header)
          BY <3>2, LargeFacts DEF Read, TypeOK
        <4>2. ~ Absent(fields, ZIP64_EXTRA_FIELD_ID)
          BY <2>1, <3>2 DEF First, Absent
        <4>3. PICK g \in 1 .. Len(fields) :
                 First(fields, g, ZIP64_EXTRA_FIELD_ID) /\ fields[g].size >= RequiredZip64Size
          BY <2>2, <4>1, <4>2 DEF Settled
        <4>4. g <= k /\ k <= g
          BY <2>1, <3>2, <4>3 DEF First
        <4>5. g = k
          BY <4>4
        <4>. QED BY <2>1, <4>1, <4>3, <4>5
      <3>3. ASSUME Locks(header), header.method = COMPRESSION_AEX
            PROVE  /\ header.aex.strength \in DOMAIN Salt
                   /\ \E k \in 1 .. Len(header.layout) :
                         First(header.layout, k, AEX_EXTRA_FIELD_ID) /\ header.layout[k].size >= 7
        BY <2>1, <3>3 DEF Accepts, Enough, LongAEx, Locks
      <3>. QED BY <3>1, <3>2, <3>3 DEF WellFormed
    <2>4. ~ header.malformed
      BY <2>3, WrittenAssumption DEF Read, Walked
    <2>5. ASSUME NEW m \in header.meant PROVE result = m
      <3>1. Meaningful(header) /\ m = Meaning(header)
        BY MeantFacts
      <3>2. p = MeantSizes
        BY <2>1, <2>2, <3>1, MeantIsSettled, SettledOnce
      <3>. QED BY <2>2, <3>1, <3>2, MeantIsOutcome
    <2>. QED BY <2>4, <2>5
  <1>. QED BY <1>1 DEF OnLayout

THEOREM ReadsTheFormat == Spec => []ReadsWhatWasWritten
  BY SpecRead, SpecAlongside, SpecOnLayout, ReadsIt, PTL
=============================================================================
