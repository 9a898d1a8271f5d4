------------------------------- MODULE ReadCd -------------------------------
(***************************************************************************)
(* read_cd::from_provider: finds the central directory of an archive by    *)
(* asking a provider, a callback, for spans of it, one disk at a time.     *)
(*                                                                         *)
(* A span is first mapped to calls, and then the calls are made.  Here the *)
(* two loops advance together, one action per call: mapping a span fails   *)
(* before the first call or not at all, and no answer of the provider      *)
(* changes the calls that follow.                                          *)
(*                                                                         *)
(* A definition whose name starts with Wrong is a bug that the definition  *)
(* after it does not have; the runs show that a property would notice.     *)
(***************************************************************************)
EXTENDS ZipPosition

CONSTANTS
  Streams,                       \* the archives under study
  SIGNATURE,                     \* the bytes of a signature: 4
  EOCD32_CONSTANT_SIZE, EOCD64_LOCATOR_CONSTANT_SIZE, EOCD64_CONSTANT_SIZE,
  CDFH_CONSTANT_SIZE,
  U16_MAX, U32_MAX,
  MaxFaults                      \* bounds the failures of the provider

EOCD32_MAX_SIZE == EOCD32_CONSTANT_SIZE + SIGNATURE + U16_MAX
CDLD_MAX_SIZE == EOCD32_MAX_SIZE + SIGNATURE + EOCD64_LOCATOR_CONSTANT_SIZE

(***************************************************************************)
(* The structures that a reader looks for, by what it uses of them.        *)
(* saturated is whether any of the fields that are only compared with      *)
(* their maximum (disk_number and the entry counts) is at it.              *)
(***************************************************************************)
EndOfCentralDirectory32 ==
  [saturated : BOOLEAN, cd_disk_number : Nat, cd_size : Nat, cd_offset : Nat,
   comment_length : Nat]

EndOfCentralDirectory64Locator == Position

EndOfCentralDirectory64 == [cd_disk_number : Nat, cd_size : Nat, cd_offset : Nat]

\* wellformed is FALSE for a header that from_bytes rejects though it is whole.
CentralDirectoryFileHeader ==
  [wellformed : BOOLEAN, header_size : {n \in Nat : n >= CDFH_CONSTANT_SIZE},
   position : Position]

(***************************************************************************)
(* An archive: its disks, whether it is a cut one (is_cut), and what the   *)
(* signatures in it begin, by the global offset of the signature.          *)
(***************************************************************************)
IsStream(s) ==
  /\ IsDisks(s)
  /\ s.is_cut \in BOOLEAN
  /\ DOMAIN s.eocd32 \subseteq Nat /\ DOMAIN s.locator \subseteq Nat
  /\ DOMAIN s.eocd64 \subseteq Nat /\ DOMAIN s.cdfh \subseteq Nat
  /\ \A g \in DOMAIN s.eocd32 : s.eocd32[g] \in EndOfCentralDirectory32
  /\ \A g \in DOMAIN s.locator : s.locator[g] \in EndOfCentralDirectory64Locator
  /\ \A g \in DOMAIN s.eocd64 : s.eocd64[g] \in EndOfCentralDirectory64
  /\ \A g \in DOMAIN s.cdfh : s.cdfh[g] \in CentralDirectoryFileHeader

ASSUME StreamsAssumption == \A s \in Streams : IsStream(s)

ASSUME SizesAssumption ==
  /\ SIGNATURE \in Nat \ {0}
  /\ EOCD32_CONSTANT_SIZE \in Nat /\ EOCD64_LOCATOR_CONSTANT_SIZE \in Nat
  /\ EOCD64_CONSTANT_SIZE \in Nat /\ CDFH_CONSTANT_SIZE \in Nat
  /\ U16_MAX \in Nat /\ U32_MAX \in Nat
  /\ MaxFaults \in Nat

VARIABLES
  stream,    \* disk_sizes, is_cut and the archive: never changes
  pc,        \* "start", "asking", "read", "parsing", and how it ends:
             \* "done" is Ok, "error" is Err(error), "panic"
  error,
  goal,      \* the span that is read: "cdld", "eocd64" or "cd"
  span,      \* where it starts in the stream, and its length
  cursor,    \* where the next call starts
  left,      \* what is left of the span
  asked,     \* the last call that was made
  bytes,     \* what the calls for this span returned
  eocd32,    \* the end record that was found
  headers,   \* the headers read from the directory, by global offset
  offset,    \* how far they go
  faults     \* failures of the provider so far

result == << eocd32, headers, offset >>
vars == << stream, pc, error, goal, span, cursor, left, asked, bytes, result, faults >>

Disks == 0 .. stream.disks - 1

Fail(kind) ==
  /\ pc' = "error"
  /\ error' = kind
  /\ UNCHANGED << goal, span, cursor, left, bytes >>

-----------------------------------------------------------------------------
(***************************************************************************)
(* Mapping a span to calls: what starts the loop of map_local_to_calls.    *)
(***************************************************************************)
Ask(g, pos, length) ==
  /\ pc' = "asking"
  /\ goal' = g
  /\ span' = [start |-> Global(stream, pos), length |-> length]
  /\ cursor' = pos
  /\ left' = length
  /\ bytes' = << >>
  /\ UNCHANGED error

MapLocal(g, pos, length) ==
  \/ pos.disk \in Disks /\ Ask(g, pos, length)
  \/ pos.disk \notin Disks /\ Fail("Map")

MapGlobal(g, at, length) ==
  \/ \E d \in Disks :
        /\ Holds(stream, d, at)
        /\ Ask(g, [disk |-> d, offset |-> at - stream.base[d]], length)
  \/ (\A d \in Disks : ~ Holds(stream, d, at)) /\ Fail("Map")

\* A cut archive has one long disk as far as its own positions go.
Map(g, pos, length) ==
  IF stream.is_cut THEN MapGlobal(g, pos.offset, length) ELSE MapLocal(g, pos, length)

(***************************************************************************)
(* The length of the next call.  size - cur_offset is unsigned: when the   *)
(* cursor is beyond its disk a build without overflow checks gets a number *)
(* larger than any length, and a build with them panics.                   *)
(***************************************************************************)
Beyond == cursor.offset > stream.size[cursor.disk]

\* The call is not cut at the end of the disk.
WrongFromThis == left

FromThis ==
  IF Beyond THEN left ELSE Lesser(stream.size[cursor.disk] - cursor.offset, left)

Call == [position |-> cursor, length |-> FromThis]

\* The bytes of a call exist.
Answerable == Beyond => FromThis = 0

\* The loop does not end with the last disk.
WrongNextCall ==
  IF left' = 0 THEN pc' = "read" /\ UNCHANGED cursor
  ELSE cursor' = [disk |-> cursor.disk + 1, offset |-> 0] /\ UNCHANGED pc

\* An empty disk is asked for ever.
WrongNextDisk ==
  IF left' = 0 \/ cursor.disk + 1 = stream.disks
  THEN pc' = "read" /\ UNCHANGED cursor
  ELSE /\ cursor' = IF FromThis = 0 THEN cursor ELSE [disk |-> cursor.disk + 1, offset |-> 0]
       /\ UNCHANGED pc
\* cur_offset is not put back to 0 for the next disk.
WrongOffset ==
  IF left' = 0 \/ cursor.disk + 1 = stream.disks
  THEN pc' = "read" /\ UNCHANGED cursor
  ELSE cursor' = [cursor EXCEPT !.disk = @ + 1] /\ UNCHANGED pc

\* The calls end with the span, or silently with the last disk.
NextCall ==
  IF left' = 0 \/ cursor.disk + 1 = stream.disks
  THEN pc' = "read" /\ UNCHANGED cursor
  ELSE cursor' = [disk |-> cursor.disk + 1, offset |-> 0] /\ UNCHANGED pc

Provide ==
  /\ pc = "asking"
  /\ Answerable
  /\ asked' = Call
  /\ bytes' = bytes \o Bytes(Global(stream, cursor), FromThis)
  /\ left' = left - FromThis
  /\ NextCall
  /\ UNCHANGED << stream, error, goal, span, result, faults >>

\* The provider returns Err, or not as many bytes as it was asked for.
ProviderFails ==
  /\ pc = "asking"
  /\ \/ ~ Answerable /\ UNCHANGED faults
     \/ faults < MaxFaults /\ faults' = faults + 1
  /\ asked' = Call
  /\ \E kind \in {"FromProvider", "ProviderByteCount"} : Fail(kind)
  /\ UNCHANGED << stream, result >>

Overflow ==
  /\ pc = "asking"
  /\ Beyond
  /\ pc' = "panic"
  /\ UNCHANGED << stream, error, goal, span, cursor, left, asked, bytes, result, faults >>

-----------------------------------------------------------------------------
\* The structure that bytes[o ..] begins with, o counted from 0.
Signed(structures, o) == bytes[o + 1] \in DOMAIN structures

(***************************************************************************)
(* The last bytes of the archive are read for the end record and the       *)
(* locator.  When the archive is shorter, so is the span that is there.    *)
(***************************************************************************)
Start ==
  /\ pc = "start"
  /\ MapGlobal("cdld", StreamSize(stream) - Lesser(StreamSize(stream), CDLD_MAX_SIZE),
               CDLD_MAX_SIZE)
  /\ UNCHANGED << stream, asked, result, faults >>

EndOffsets ==
  {o \in Len(bytes) - Lesser(Len(bytes), EOCD32_MAX_SIZE)
           .. Len(bytes) - EOCD32_CONSTANT_SIZE - 1 : Signed(stream.eocd32, o)}

\* find_offset: the last signature of an end record is taken.
FoundAt(o) ==
  /\ pc = "read" /\ goal = "cdld"
  /\ o \in EndOffsets
  /\ \A other \in EndOffsets : other <= o

NoEnd ==
  /\ pc = "read" /\ goal = "cdld" /\ EndOffsets = {}
  /\ Fail("NoEOCD32")
  /\ UNCHANGED << stream, asked, result, faults >>

End(o) == stream.eocd32[bytes[o + 1]]
EndSize(o) == o + SIGNATURE + EOCD32_CONSTANT_SIZE + End(o).comment_length

\* from_bytes returns None when the comment is longer than what follows.
EndRejected ==
  /\ \E o \in EndOffsets :
        /\ FoundAt(o)
        /\ \/ EndSize(o) > Len(bytes) /\ Fail("BadEOCD32")
           \/ EndSize(o) < Len(bytes) /\ Fail("InvalidDiskSizes")
  /\ UNCHANGED << stream, asked, result, faults >>

RequiresZip64(end) ==
  \/ end.saturated
  \/ end.cd_disk_number = U16_MAX
  \/ end.cd_size = U32_MAX
  \/ end.cd_offset = U32_MAX

LocatorOffset(o) == o - SIGNATURE - EOCD64_LOCATOR_CONSTANT_SIZE

\* from_eocd32, also when there is no room for a locator.
EndAccepted ==
  /\ \E o \in EndOffsets :
        /\ FoundAt(o)
        /\ EndSize(o) = Len(bytes)
        /\ ~ RequiresZip64(End(o)) \/ LocatorOffset(o) < 0
        /\ eocd32' = End(o)
        /\ Map("cd", [disk |-> End(o).cd_disk_number, offset |-> End(o).cd_offset],
               End(o).cd_size)
  /\ UNCHANGED << stream, asked, headers, offset, faults >>

LocatorRead ==
  /\ \E o \in EndOffsets :
        /\ FoundAt(o)
        /\ EndSize(o) = Len(bytes)
        /\ RequiresZip64(End(o)) /\ LocatorOffset(o) >= 0
        /\ eocd32' = End(o)
        /\ \/ /\ ~ Signed(stream.locator, LocatorOffset(o))
              /\ Fail("BadEOCD64Locator")
           \/ /\ Signed(stream.locator, LocatorOffset(o))
              /\ Map("eocd64", stream.locator[bytes[LocatorOffset(o) + 1]],
                     SIGNATURE + EOCD64_CONSTANT_SIZE)
  /\ UNCHANGED << stream, asked, headers, offset, faults >>

-----------------------------------------------------------------------------
AtEnd64 == pc = "read" /\ goal = "eocd64"

\* The signature is sliced out of bytes that may be too few.
End64Cut ==
  /\ AtEnd64
  /\ Len(bytes) < SIGNATURE
  /\ pc' = "panic"
  /\ UNCHANGED << stream, error, goal, span, cursor, left, asked, bytes, result, faults >>

End64Rejected ==
  /\ AtEnd64
  /\ Len(bytes) >= SIGNATURE
  /\ \/ ~ Signed(stream.eocd64, 0)
     \/ Len(bytes) < SIGNATURE + EOCD64_CONSTANT_SIZE
  /\ Fail("BadEOCD64")
  /\ UNCHANGED << stream, asked, result, faults >>

\* from_eocd64: a field of the small record counts unless it is saturated.
Unless(max, small, large) == IF small = max THEN large ELSE small

\* All or nothing.
WrongEnd64Accepted ==
  /\ AtEnd64
  /\ Len(bytes) >= SIGNATURE + EOCD64_CONSTANT_SIZE
  /\ Signed(stream.eocd64, 0)
  /\ LET large == IF eocd32.cd_offset = U32_MAX THEN stream.eocd64[bytes[1]] ELSE eocd32
     IN Map("cd", [disk |-> large.cd_disk_number, offset |-> large.cd_offset], large.cd_size)
  /\ UNCHANGED << stream, asked, result, faults >>

End64Accepted ==
  /\ AtEnd64
  /\ Len(bytes) >= SIGNATURE + EOCD64_CONSTANT_SIZE
  /\ Signed(stream.eocd64, 0)
  /\ LET large == stream.eocd64[bytes[1]]
     IN Map("cd",
            [disk   |-> Unless(U16_MAX, eocd32.cd_disk_number, large.cd_disk_number),
             offset |-> Unless(U32_MAX, eocd32.cd_offset, large.cd_offset)],
            Unless(U32_MAX, eocd32.cd_size, large.cd_size))
  /\ UNCHANGED << stream, asked, result, faults >>

-----------------------------------------------------------------------------
(***************************************************************************)
(* CentralDirectory::from_bytes, one action per header, and sort.          *)
(***************************************************************************)
DirectoryRead ==
  /\ pc = "read" /\ goal = "cd"
  /\ headers' = << >> /\ offset' = 0
  /\ \/ Len(bytes) < SIGNATURE + CDFH_CONSTANT_SIZE /\ Fail("InputTooShort")
     \/ /\ Len(bytes) >= SIGNATURE + CDFH_CONSTANT_SIZE
        /\ pc' = "parsing"
        /\ UNCHANGED << error, goal, span, cursor, left, bytes >>
  /\ UNCHANGED << stream, asked, eocd32, faults >>

InDirectory == pc = "parsing" /\ offset < Len(bytes) - (SIGNATURE - 1)
Entry == stream.cdfh[bytes[offset + 1]]
Whole ==
  /\ Entry.wellformed
  /\ Len(bytes) - offset >= SIGNATURE + Entry.header_size

HeaderRejected ==
  /\ InDirectory
  /\ \/ ~ Signed(stream.cdfh, offset) /\ Fail("InvalidSignature")
     \/ Signed(stream.cdfh, offset) /\ ~ Whole /\ Fail("MalformedHeader")
  /\ UNCHANGED << stream, asked, result, faults >>

\* The signature is not counted.
WrongEntrySize == Entry.header_size

EntrySize == SIGNATURE + Entry.header_size

HeaderPushed ==
  /\ InDirectory
  /\ Signed(stream.cdfh, offset) /\ Whole
  /\ headers' = Append(headers, bytes[offset + 1])
  /\ offset' = offset + EntrySize
  /\ UNCHANGED << stream, pc, error, goal, span, cursor, left, asked, bytes, eocd32, faults >>

Leftover ==
  /\ pc = "parsing" /\ ~ InDirectory
  /\ offset # Len(bytes)
  /\ Fail("LeftoverBytes")
  /\ UNCHANGED << stream, asked, result, faults >>

\* The order of a stable sort: by position, equal ones as they were.
HeaderPosition(g) == stream.cdfh[g].position
Precedes(i, j) ==
  \/ Before(HeaderPosition(headers[i]), HeaderPosition(headers[j]))
  \/ HeaderPosition(headers[i]) = HeaderPosition(headers[j]) /\ i < j

Sort ==
  /\ pc = "parsing" /\ ~ InDirectory
  /\ offset = Len(bytes)
  /\ \E order \in [DOMAIN headers -> DOMAIN headers] :
        /\ \A i, j \in DOMAIN headers : i < j => Precedes(order[i], order[j])
        /\ headers' = [r \in DOMAIN headers |-> headers[order[r]]]
  /\ pc' = "done"
  /\ UNCHANGED << stream, error, goal, span, cursor, left, asked, bytes, eocd32, offset, faults >>

-----------------------------------------------------------------------------
Answered == pc \in {"done", "error", "panic"} /\ UNCHANGED vars

NoLocation ==
  [saturated |-> FALSE, cd_disk_number |-> 0, cd_size |-> 0, cd_offset |-> 0,
   comment_length |-> 0]

Init ==
  /\ stream \in Streams
  /\ pc = "start" /\ error = "none"
  /\ goal = "cdld"
  /\ span = [start |-> 0, length |-> 0]
  /\ cursor = [disk |-> 0, offset |-> 0]
  /\ left = 0
  /\ asked = [position |-> [disk |-> 0, offset |-> 0], length |-> 0]
  /\ bytes = << >>
  /\ eocd32 = NoLocation
  /\ headers = << >>
  /\ offset = 0
  /\ faults = 0

FromProvider ==
  \/ Start \/ Provide \/ ProviderFails \/ Overflow
  \/ NoEnd \/ EndRejected \/ EndAccepted \/ LocatorRead
  \/ End64Cut \/ End64Rejected \/ End64Accepted
  \/ DirectoryRead \/ HeaderRejected \/ HeaderPushed \/ Leftover \/ Sort

Next == FromProvider \/ Answered

Spec == Init /\ [][Next]_vars

(***************************************************************************)
(* from_provider is a function that runs until it returns, and so is the   *)
(* provider.  No failure that the provider might not have is counted on.   *)
(***************************************************************************)
Progress == FromProvider /\ UNCHANGED faults

FairSpec == Spec /\ WF_vars(Progress)

-----------------------------------------------------------------------------
ReadErrors ==
  {"Map", "FromProvider", "ProviderByteCount", "NoEOCD32", "InvalidDiskSizes",
   "BadEOCD32", "BadEOCD64Locator", "BadEOCD64", "InputTooShort",
   "InvalidSignature", "MalformedHeader", "LeftoverBytes"}

(***************************************************************************)
(* The type invariant of from_provider.                                    *)
(***************************************************************************)
TypeOK ==
  /\ IsStream(stream)
  /\ pc \in {"start", "asking", "read", "parsing", "done", "error", "panic"}
  /\ error \in ReadErrors \cup {"none"}
  /\ (pc = "error") <=> (error # "none")
  /\ goal \in {"cdld", "eocd64", "cd"}
  /\ span \in [start : Nat, length : Nat]
  /\ cursor \in [disk : Disks, offset : Nat]
  /\ left \in Nat
  /\ asked \in [position : [disk : Disks, offset : Nat], length : Nat]
  /\ bytes \in Seq(Nat)
  /\ eocd32 \in EndOfCentralDirectory32
  /\ headers \in Seq(Nat)
  /\ offset \in Nat
  /\ faults \in 0 .. MaxFaults

(***************************************************************************)
(* What is decoded is what was meant: over any disks, empty ones included, *)
(* the answers put together are the stream from the start of the span, and *)
(* when they are fewer than it has bytes, the stream has ended.            *)
(***************************************************************************)
SpanInStep ==
  /\ bytes = Bytes(span.start, Len(bytes))
  /\ Len(bytes) + left = span.length
  /\ pc = "asking" => Global(stream, cursor) = span.start + Len(bytes)
  /\ pc \in {"read", "parsing", "done"} /\ left > 0
       => span.start + Len(bytes) = StreamSize(stream)

(***************************************************************************)
(* "It is guaranteed that the length will not exceed the remaining size of *)
(* the disk" (from_provider, of the calls it makes).                       *)
(***************************************************************************)
WithinDisk(call) ==
  \/ call.length = 0
  \/ call.position.offset + call.length <= stream.size[call.position.disk]

Guarantee == WithinDisk(asked)

(***************************************************************************)
(* Every position that the records of s lead to is on its disk, and a      *)
(* record that needs a locator has room for one before it.                 *)
(***************************************************************************)
OnItsDisk(s, disk, position) ==
  disk \in 0 .. s.disks - 1 => position <= s.size[disk]

NamesItsDisks(s) ==
  /\ \A l \in DOMAIN s.locator : OnItsDisk(s, s.locator[l].disk, s.locator[l].offset)
  /\ \A g \in DOMAIN s.eocd32 :
        IF RequiresZip64(s.eocd32[g])
        THEN g >= SIGNATURE + EOCD64_LOCATOR_CONSTANT_SIZE
        ELSE OnItsDisk(s, s.eocd32[g].cd_disk_number, s.eocd32[g].cd_offset)
  /\ \A g \in DOMAIN s.eocd32, l \in DOMAIN s.eocd64 :
        OnItsDisk(s, Unless(U16_MAX, s.eocd32[g].cd_disk_number, s.eocd64[l].cd_disk_number),
                     Unless(U32_MAX, s.eocd32[g].cd_offset, s.eocd64[l].cd_offset))

(***************************************************************************)
(* The guarantee is given while the end record is sought, for cut archives *)
(* whatever they say of themselves, and for others that name positions on  *)
(* their disks: over disks of any sizes, with any disk ending in a span.   *)
(***************************************************************************)
GuaranteeKept == stream.is_cut \/ goal = "cdld" \/ NamesItsDisks(stream) => Guarantee

(***************************************************************************)
(* The headers that were read lie one after the other, from the start of   *)
(* the span to offset, and each is whole: nothing in the directory is read *)
(* twice or passed over.                                                   *)
(***************************************************************************)
After(k) == headers[k] + SIGNATURE + stream.cdfh[headers[k]].header_size

HeadersTile ==
  pc = "parsing" =>
    /\ \A k \in 2 .. Len(headers) : headers[k] = After(k - 1)
    /\ headers # << >> =>
         headers[1] = span.start /\ After(Len(headers)) = span.start + offset
    /\ headers = << >> => offset = 0
    /\ offset <= Len(bytes)

(***************************************************************************)
(* An archive that a correct writer made: the end record is the last thing *)
(* in it, nothing behind it looks like another, and the records lead, as   *)
(* far as each field goes, to the first of the headers that the directory  *)
(* lists, which lie one after the other up to its end.                     *)
(***************************************************************************)
\* Where the program takes position p to be: byte g of the stream.
Names(s, p, g) ==
  IF s.is_cut THEN p.offset = g
  ELSE /\ p.disk \in 0 .. s.disks - 1
       /\ p.offset <= s.size[p.disk]
       /\ Global(s, p) = g

IsEnd(s, e) ==
  /\ e \in DOMAIN s.eocd32
  /\ \A g \in DOMAIN s.eocd32 : g <= e
  /\ s.eocd32[e].comment_length <= U16_MAX
  /\ e + SIGNATURE + EOCD32_CONSTANT_SIZE + s.eocd32[e].comment_length = StreamSize(s)

\* The ZIP64 record at g lends the end record the fields that it has no room for.
Lends(s, end, g, c, n) ==
  /\ g \in DOMAIN s.eocd64
  /\ g + SIGNATURE + EOCD64_CONSTANT_SIZE <= StreamSize(s)
  /\ Names(s, [disk   |-> Unless(U16_MAX, end.cd_disk_number, s.eocd64[g].cd_disk_number),
               offset |-> Unless(U32_MAX, end.cd_offset, s.eocd64[g].cd_offset)], c)
  /\ n = Unless(U32_MAX, end.cd_size, s.eocd64[g].cd_size)

\* The end record at e leads to n bytes from c on.
Leads(s, e, c, n) ==
  LET end == s.eocd32[e]
      l == e - SIGNATURE - EOCD64_LOCATOR_CONSTANT_SIZE
  IN IF RequiresZip64(end)
     THEN /\ l \in DOMAIN s.locator
          /\ \E g \in DOMAIN s.eocd64 : Names(s, s.locator[l], g) /\ Lends(s, end, g, c, n)
     ELSE /\ Names(s, [disk |-> end.cd_disk_number, offset |-> end.cd_offset], c)
          /\ n = end.cd_size

Past(s, h) == h + SIGNATURE + s.cdfh[h].header_size

\* By position; files that share one are in the order of their headers.
Ahead(s, g, h) ==
  \/ Before(s.cdfh[g].position, s.cdfh[h].position)
  \/ s.cdfh[g].position = s.cdfh[h].position /\ g < h

Lists(s, directory, c, n) ==
  LET Listed == {directory[k] : k \in DOMAIN directory}
  IN /\ directory \in Seq(DOMAIN s.cdfh)
     /\ c \in Listed /\ c + n <= StreamSize(s)
     /\ \A i, j \in DOMAIN directory : i < j => Ahead(s, directory[i], directory[j])
     /\ \A h \in Listed :
          /\ s.cdfh[h].wellformed
          /\ c <= h /\ Past(s, h) <= c + n
          /\ Past(s, h) = c + n \/ Past(s, h) \in Listed
          /\ \A g \in Listed : g < h => Past(s, g) <= h

Written(s, directory) ==
  \E e \in DOMAIN s.eocd32, k \in DOMAIN directory, n \in 0 .. StreamSize(s) :
     /\ IsEnd(s, e)
     /\ Leads(s, e, directory[k], n)
     /\ Lists(s, directory, directory[k], n)

ASSUME MeantAssumption ==
  \A s \in Streams : \A directory \in s.meant : Written(s, directory)

(***************************************************************************)
(* On an archive of a correct writer the directory is found, in the order  *)
(* the unpacker requires, with ZIP64 records or without, in one piece, cut *)
(* or split at any byte, with a comment or none; the only errors are the   *)
(* provider's, and nothing panics.  meant holds that directory, if any.    *)
(***************************************************************************)
FindsDirectory ==
  \A directory \in stream.meant :
    /\ pc = "done" => headers = directory
    /\ error \in {"none", "FromProvider", "ProviderByteCount"}
    /\ pc # "panic"

(***************************************************************************)
(* from_provider returns.                                                  *)
(***************************************************************************)
EventuallyAnswers == <>(pc \in {"done", "error", "panic"})

(***************************************************************************)
(* What is left to be done: the spans to be read, and of this one the      *)
(* disks to be asked for, or of the directory the bytes to be parsed.      *)
(* Every step leaves less of it, on any archive and over any disks, so     *)
(* that from_provider makes no more calls than there are disks for a span. *)
(***************************************************************************)
Stage ==
  CASE pc = "start" -> 8
    [] pc = "asking" /\ goal = "cdld" -> 7
    [] pc = "read" /\ goal = "cdld" -> 6
    [] pc = "asking" /\ goal = "eocd64" -> 5
    [] pc = "read" /\ goal = "eocd64" -> 4
    [] pc = "asking" /\ goal = "cd" -> 3
    [] pc = "read" /\ goal = "cd" -> 2
    [] pc = "parsing" -> 1
    [] OTHER -> 0

ToDo ==
  << Stage,
     CASE pc = "asking" -> stream.disks - cursor.disk
       [] pc = "parsing" -> Len(bytes) - offset
       [] OTHER -> 0 >>

NearsTheAnswer == [][ToDo' \in Seq(Nat) /\ Lower(ToDo', ToDo)]_vars
=============================================================================
