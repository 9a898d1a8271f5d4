--------------------------- MODULE MCFileHeaders ---------------------------
(***************************************************************************)
(* Headers for FileHeaders.  A writer lays out extra fields one after the  *)
(* other; everywhere else in them the bytes read as the start of an empty  *)
(* ZIP64 field, so that looking at a wrong place is noticed.  The word at  *)
(* each offset is a different number, and larger than U32_MAX.             *)
(*                                                                         *)
(* The sizes of extra fields are the real ones, the constant parts of the  *)
(* headers are scaled down to 2 and 3 bytes.                               *)
(***************************************************************************)
EXTENDS HeaderFormat, SequencesExt

MCU32 == 99
MCU16 == 9
MCMod == 1000

Field(id, size) == [id |-> id, size |-> size]

Start(list, k) ==
  FoldLeft(LAMBDA n, f : n + FIELD_HEADER + f.size, 0, SubSeq(list, 1, k - 1))

Base(kind, list, left) ==
  LET extra == Start(list, Len(list) + 1) + left
      room == extra + 40
      At(o) == {k \in DOMAIN list : Start(list, k) = o}
  IN [kind |-> kind, filename |-> 1, extra |-> extra, room |-> room,
      comment |-> IF kind = "local" THEN 0 ELSE 2,
      encrypted |-> FALSE, method |-> "deflate",
      original |-> [uncompressed_size |-> 50, compressed_size |-> 40,
                    local_header_offset |-> 7, disk_number |-> 3],
      field |-> [o \in 0 .. room |->
                   IF At(o) # {} THEN list[CHOOSE k \in At(o) : TRUE]
                   ELSE Field(ZIP64_EXTRA_FIELD_ID, 0)],
      word |-> [o \in 0 .. room |-> 100 + o],
      aex |-> [strength |-> 1, method |-> "deflate"],
      layout |-> [k \in DOMAIN list |-> [id |-> list[k].id, at |-> Start(list, k) + FIELD_HEADER,
                                         size |-> list[k].size]],
      meant |-> {}, malformed |-> FALSE]

-----------------------------------------------------------------------------
(***************************************************************************)
(* Of a correct writer.  large are the fields that do not fit, in the      *)
(* order in which the ZIP64 field has them; around are the other fields.   *)
(***************************************************************************)
Order == << "uncompressed_size", "compressed_size", "local_header_offset", "disk_number" >>

Width(name) == IF name = "disk_number" THEN 4 ELSE 8
Full(name) == IF name = "disk_number" THEN U16_MAX ELSE U32_MAX

Larges(kind) ==
  {large \in SUBSET ToSet(Order) :
     kind = "local" => large \subseteq {"uncompressed_size", "compressed_size"}}

ConstantOf(h) == IF h.kind = "local" THEN LFH_CONSTANT_SIZE ELSE CDFH_CONSTANT_SIZE

\* before and after the ZIP64 field there may be others.
Written(kind, large, before, after) ==
  LET present == SelectSeq(Order, LAMBDA name : name \in large)
      Place(k) == FoldLeft(LAMBDA n, name : n + Width(name), 0, SubSeq(present, 1, k - 1))
      zip64 == IF large = {} THEN << >> ELSE << Field(ZIP64_EXTRA_FIELD_ID, Place(Len(present) + 1)) >>
      base == Base(kind, before \o zip64 \o after, 0)
      first == Start(before, Len(before) + 1) + FIELD_HEADER
      Value(name) ==
        IF name \in large
        THEN base.word[first + Place(CHOOSE k \in DOMAIN present : present[k] = name)]
        ELSE IF kind = "local" /\ name \in {"local_header_offset", "disk_number"} THEN 0
        ELSE base.original[name]
  IN [base EXCEPT
        !.original = [name \in DOMAIN @ |-> IF name \in large THEN Full(name) ELSE @[name]],
        !.meant = {[header_size |-> ConstantOf(base) + base.filename + base.extra + base.comment,
                    compressed_size |-> Value("compressed_size"),
                    uncompressed_size |-> Value("uncompressed_size"),
                    local_header_offset |-> Value("local_header_offset"),
                    disk_number |-> Value("disk_number"),
                    encryption |-> "None", compression_method |-> "deflate"]}]

Other == Field("other", 3)
Plains ==
  UNION {{Written(kind, large, before, after) :
            large \in Larges(kind), before \in {<< >>, << Other >>},
            after \in {<< >>, << Field("other", 0) >>}} : kind \in {"local", "central"}}

\* Encrypted, the method behind AE-x in its field; a central header says nothing of it.
Meant(h, salted, encryption) ==
  {[m EXCEPT !.header_size = @ + salted.before,
             !.compressed_size = @ - salted.before - salted.behind,
             !.encryption = encryption] : m \in h.meant}

ZipCrypto(h) ==
  [h EXCEPT !.encrypted = TRUE,
            !.meant = Meant(h, [before |-> 12, behind |-> 0], "ZipCrypto")]

AEx(h, strength) ==
  [h EXCEPT !.encrypted = TRUE, !.method = COMPRESSION_AEX,
            !.aex = [strength |-> strength, method |-> "deflate"],
            !.meant = Meant(h, [before |-> << 10, 14, 18 >>[strength], behind |-> 10], "AEx")]

Encrypteds ==
  {ZipCrypto(Written("local", large, << Other >>, << >>)) : large \in Larges("local")}
  \cup {AEx(Written("local", large, before, << Field(AEX_EXTRA_FIELD_ID, 7) >>), strength) :
          large \in Larges("local"), before \in {<< >>, << Other >>}, strength \in 1 .. 3}
  \cup {[Written("central", {}, << Field(AEX_EXTRA_FIELD_ID, 7) >>, << >>) EXCEPT !.encrypted = TRUE]}

(***************************************************************************)
(* Nobody could have meant these: a field that is cut, a ZIP64 field that  *)
(* is too short, an AE-x field that is missing, of no known strength, or   *)
(* too short to be looked at.                                              *)
(***************************************************************************)
Unreadable ==
  {Base(kind, list, left) : kind \in {"local", "central"},
                            list \in {<< >>, << Other >>}, left \in 1 .. 3}
  \cup {[Base(kind, << Other >>, 4) EXCEPT !.field[7] = Field("other", size)] :
          kind \in {"local", "central"}, size \in {1, 40}}
  \cup {[Base("central", << Field(ZIP64_EXTRA_FIELD_ID, size) >>, 0) EXCEPT
           !.original.disk_number = MCU16, !.original.compressed_size = MCU32] :
          size \in {0, 4, 8, 11}}
  \cup {[Base("local", << Field(ZIP64_EXTRA_FIELD_ID, size) >>, 0) EXCEPT
           !.original.uncompressed_size = MCU32, !.original.compressed_size = MCU32] :
          size \in {8, 15}}
  \cup {[Base("local", list, 0) EXCEPT !.encrypted = TRUE, !.method = COMPRESSION_AEX] :
          list \in {<< >>, << Other >>, << Field(AEX_EXTRA_FIELD_ID, 2) >>}}
  \cup {[Base("local", << Field(AEX_EXTRA_FIELD_ID, 7) >>, 0) EXCEPT
           !.encrypted = TRUE, !.method = COMPRESSION_AEX, !.aex.strength = strength] :
          strength \in {0, 4}}

Malformed == {[h EXCEPT !.malformed = TRUE] : h \in Unreadable}

(***************************************************************************)
(* An AE-x field that is long enough for the guard and not for what it     *)
(* guards; encrypted files whose sizes are zero because they are in a data *)
(* descriptor.  The ZIP64 field may be missing though it is needed, or be  *)
(* there twice.                                                            *)
(***************************************************************************)
ShortAEx ==
  {[Base("local", << Field(AEX_EXTRA_FIELD_ID, size) >>, 0) EXCEPT
      !.encrypted = TRUE, !.method = COMPRESSION_AEX, !.aex.strength = strength] :
     size \in 3 .. 6, strength \in {0, 1}}

Described(h) == [h EXCEPT !.original.compressed_size = 0, !.original.uncompressed_size = 0,
                          !.meant = {}]

DescribedHeaders ==
  {Described(h) : h \in {ZipCrypto(Written("local", {}, << >>, << >>)),
                         AEx(Written("local", {}, << >>, << Field(AEX_EXTRA_FIELD_ID, 7) >>), 2)}}

Lacking ==
  {[Base(kind, list, 0) EXCEPT !.original.compressed_size = MCU32] :
     kind \in {"local", "central"},
     list \in {<< >>, << Other >>, << Field(ZIP64_EXTRA_FIELD_ID, 8), Field(ZIP64_EXTRA_FIELD_ID, 0) >>}}

AllHeaders ==
  Plains \cup Encrypteds \cup Malformed \cup ShortAEx \cup DescribedHeaders \cup Lacking

(***************************************************************************)
(* Lengths about each of the places where a stage finds too few bytes.     *)
(***************************************************************************)
MCLengths(h) ==
  LET variable == ConstantOf(h) + h.filename + h.extra
  IN {0, ConstantOf(h) - 1, ConstantOf(h), variable - 1, variable, variable + 1, variable + 2}
     \cup IF h.encrypted
          THEN {variable + n : n \in {8, 9, 10, 11, 12, 13, 14, 16, 17, 18, 40}}
          ELSE {variable + 40}

ASSUME EnoughLengths ==
  \A h \in AllHeaders : \A m \in h.meant :
     {m.header_size - 1, m.header_size} \subseteq MCLengths(h)
=============================================================================
