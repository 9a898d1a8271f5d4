# stream-unpack in TLA+

`stream-unpack` unpacks ZIP archives while they arrive: a program hands it the
central directory first and then the bytes of the archive, in pieces of any
size, and gets file headers and file data through a callback. This directory
models that library, checks it with TLC and proves what matters most with
TLAPS.

## 1. The system

| Component | Code | State | Operations | Correct when |
|---|---|---|---|---|
| ZipUnpacker | `src/zip/mod.rs` | decoder state (`FileHeader`, or `FileData` with the bytes read, the header and a pipeline), index of the file, position (disk, offset), disk sizes, sorted directory, password, callback | `new`, `resume`, `set_callback`, `update` | the position it computes is the place of the next byte it is given; every file is delivered whole, once and in order; errors mean what they say; it asks for data only when it needs some |
| Session | `README.md`, `examples/` | the buffer of bytes not consumed, the position of the last header delivered | call `update` and drop what it consumed; restart with `resume`; pass whole disks (`examples/multipart.rs`) | it gets to the end; a restart repeats at most one file; every file of an archive comes out |
| Pipeline | `src/pipeline.rs` | decryptor, decompressor, `decrypt_buffer`, `result_buffer` | `update` | nothing decrypted or decompressed is lost, repeated or kept back |
| Header parsing | `src/zip/structures/` | none | `from_bytes` of local and central headers, extra fields, ZIP64 | it reads what was written; the result does not depend on how much more data follows; no panic |
| read_cd | `src/zip/read_cd.rs`, `structures/cd_location.rs`, `structures/central_directory.rs` | none kept; a sequence of calls of a provider | `from_provider` | it asks for spans inside the disks and decodes the spans it meant; it finds the directory |
| Decryptors | `src/decrypt/` | ZipCrypto: three keys; AE-x: counter, pad, offset in the pad | `new`, `update` | each byte is decrypted with its own keystream, however the input is cut |
| Decompressors | `src/decompress/` | external (`inflate`) | `update` | external |

How they interact: everything is called on one thread. `update` loops over
`update_internal`, which parses a header or calls `Pipeline::update`, and calls
the decode callback in the middle. `?` leaves the loop from any point, so an
error leaves behind what earlier turns of the loop did. The program around the
library decides how the stream is cut into calls, may die, and may start again
at any header position. What is hard is therefore not concurrency but the
agreement of three accounts of "where we are" (the position over disks, the
buffer of the program, the bytes counted inside a file) over every cut of the
stream, every split of the archive, every failure and every restart.

`PROJECT.json` lists the components with their status and the hazards, each at
its line, with the properties that watch it.

## 2. The modules

```
ZipPosition           disks, positions, the stream they make up     (no state)
  ZipArchive          what the unpacker is given                    (no state)
    ZipUnpacker       the state machine of update                   (actions)
      UnpackSession   the program around it, Spec, properties
        MCUnpack            small archives for TLC
        UnpackCallers       callers that go on after an error, or pass whole disks
          MCUnpackCallers   multipart archives for TLC
  ReadCd              from_provider: finding and reading the directory, Spec
    MCReadCd          small archives for TLC
  Pipeline            Pipeline::update, the decryptors, a decompressor, Spec
    MCPipeline        small files for TLC
FileHeaders           from_bytes of local and central headers, Spec
  HeaderFormat        what the format says of the same bytes        (no state)
    MCFileHeaders     headers of a writer, and others, for TLC
Extraction            the abstract promise, implemented by UnpackSession

StreamProofs          lemmas about ZipPosition and orders, used by all below but the last
UnpackSessionProofs   type, position
  UnpackDeliveryProofs  delivery, refinement
    UnpackOutcomeProofs   what errors, the end and "0" mean; progress; UnpackCallers
ReadCdProofs          type, spans, guarantee, the directory found, progress
CounterProofs         the AE-x counter counts
  PipelineProofs      type, counts, order of the bytes, nothing lost, return
FileHeadersProofs     type, extra fields, panics, results, what was written
```

The modules compose along the calls of the code. `ReadCd` ends where
`ZipUnpacker` begins: with a sorted directory whose positions name disks, which
is what `IsArchive` assumes. `ZipUnpacker` takes the outcome of a parsed local
header as a value (`lfh`), which `FileHeaders` shows not to depend on the bytes
that follow, and takes the counts that a pipeline may return (`PipelineCounts`),
which `Pipeline` shows to be the only ones (`CountsAsAssumed`).

**ZipPosition.** `ZipPosition` and its derived order, disk sizes with their
partial sums (`base`), and the conversions between a position and a place in
the stream.

**ZipArchive.** An archive is its disk sizes, the sorted directory, and the
local headers that the stream holds, by global offset. A byte of the stream *is*
its global offset, so delivering a wrong, missing or repeated byte is visible.
`IsArchive` assumes no more than the code does: the directory is sorted and
names existing disks (`resume` or `update` would index `disk_sizes` out of
range otherwise). Headers may overlap, share a position, be missing or
malformed, and disagree with the directory. `Sane` describes what a correct
writer produces. A local header is what `LocalFileHeader::from_bytes` returns:
its size (salt and encryption header included), the sizes, encryption and
method.

**ZipUnpacker.** One action per way a turn of the loop in `update` can go; each
contains the rest of the turn (`Advance`: adding to the position, the roll-over
to a later disk, `ExtraData`, and the decision to loop, to return or to report
the end).

| Action | Code (`src/zip/mod.rs`) |
|---|---|
| `AllProcessed` | 229-231 |
| `Overshoot` | 238-240 |
| `Skip` | 242-249, next disk and gap |
| `NeedMoreHeader` | 251-253 and 260-262 |
| `InvalidSignature` | 255-258 |
| `HeaderCallbackFails` | 265-267, callback returns `Err` |
| `HeaderRefused` | 269-281: `NoPassword`, `DecryptorInit`, `DecompressorInit`, after the callback had the header |
| `HeaderAccepted` | 265-290 |
| `ReadData` | 293-311 |
| `DataCallbackFails` | 298-303: the pipeline has consumed, the position has not moved |
| `PipelineFails` | 298 |
| `Advance` | 197-223, part of all of the above that return `Ok` |
| `New`, `Resume` | 119-141, 150-176 |

`pc` is how far the call got or how the last one ended. The decompressor is the
external crate `inflate`: it consumes any prefix of what it gets, and something
when it gets all that is left of the file. With a decryptor in front, or with
nothing to decompress, the pipeline consumes everything (`PipelineCounts`).

**UnpackSession.** The caller of the README: bytes not consumed stay in the
buffer, any number of further bytes is appended, `update` is called; after "0"
at least one byte is added, as the documentation asks. After an error or a
crash it makes a new unpacker at the last header position its callback was
given (or from the start) and receives the stream from there. It does not call
`update` again after an error.

**ReadCd.** `read_cd::from_provider`, with `CentralDirectory::from_bytes` and
`sort`. The code maps a whole span to calls and then makes them; the two loops
advance together here, one action per call, because mapping fails before the
first call or not at all and no answer changes the calls that follow. An
archive is its disk sizes and what the signatures in it begin, by global
offset; a sequence of bytes is again a sequence of global offsets, so a byte
that comes from the wrong place is visible. Records are reduced to the fields
that the reader uses (`saturated` stands for the fields that are only compared
with their maximum). Nothing is assumed about what the records say.

| Action | Code |
|---|---|
| `Start` | `read_cd.rs` 46-50, `map_global_to_calls` 144-156 |
| `Provide`, `ProviderFails`, `Overflow` | `make_calls` 102-117 and the loop of `map_local_to_calls` 125-135; `Overflow` is line 126 in a build with overflow checks |
| `NoEnd`, `EndRejected` | 52-60, `find_offset` and `from_bytes` in `cd_location.rs` |
| `EndAccepted` | 62-63 and 93-97, `from_eocd32`, `map_to_calls` |
| `LocatorRead` | 65-80 |
| `End64Cut`, `End64Rejected`, `End64Accepted` | 82, where a slice may panic; 82-88; 90-97, `from_eocd64` |
| `DirectoryRead`, `HeaderRejected`, `HeaderPushed`, `Leftover`, `Sort` | `central_directory.rs` 37-83 |

The provider answers a call with the bytes that are there, fails, or returns a
wrong number of them; a call for bytes that do not exist is one it must fail.

**FileHeaders.** `LocalFileHeader::from_bytes` and
`CentralDirectoryFileHeader::from_bytes`, called again and again with any
number of bytes of one header, as `update` calls them. A header is what its
bytes read as: the lengths it claims, at each offset the extra field and the
number that start there, and what an AE-x field says. Looking at a wrong offset
is therefore visible. Subtractions wrap at `U64_MOD` or panic, as the build is.

| Action | Code |
|---|---|
| `Call(n)` | a call with `n` bytes, `mod.rs` 260 and `central_directory.rs` |
| `ConstantCut`, `VariableCut`, `ConstantRead` | the constant part and the lengths in it |
| `FieldCut`, `FieldRead`, `FieldsRead` | `read_extra_fields` and `FileHeaderExtraField::from_bytes` in `file_header.rs` |
| `SizesKept`, `Zip64Cut`, `SizesReplaced` | `Zip64OriginalData::process`, `read_all_if_needed` |
| `ZipCryptoCut`, `ZipCryptoRead` | `local_file_header.rs`, the encryption header and `compressed_size -= 12` |
| `AExAbsent`, `AExTooShort`, `AExStrengthBeyond`, `AExUnknown`, `AExCut`, `AExMethodBeyond`, `AExRead` | `local_file_header.rs`, the AE-x field: one action per `None`, per access beyond the field and for success |

**HeaderFormat.** The other side of `FileHeaders`, which no action uses: from
the same bytes, with a list of the extra fields as they lie (`LaidOut`), it says
without any reading order or cursor which fields ZIP64 stands in for and where
its numbers are, what encryption adds to the sizes, when a header is well-formed
and what it means (`Meaning`). `WrittenAssumption` ties the marks that a header
carries (`layout`, `meant`, `malformed`) to that; the headers of
`MCFileHeaders` compute theirs from a list of fields to be written, and TLC
finds that the two agree.

**Pipeline.** `Pipeline::update` in its four forms, with the loops of the
decryptors byte by byte and of the decompressor symbol by symbol, on the data
of one file, from `create_decryptor` until its last byte is counted. The byte
at place `k` is the number `k`; decrypted with another keystream than the one
it was encrypted with it becomes `Garbage`. What a keystream byte depends on is
kept: all that the ZipCrypto keys were updated with; key, counter block and
place in the pad for AE-x. The decompressor is external: it takes whole symbols
until its window is full, and holds what the window has no room for.

| Action | Code |
|---|---|
| `HeaderDecrypted`, `ZipCryptoAccepted`, `ZipCryptoRefused` | `ZipCryptoDecryptor::new` |
| `AExAccepted`, `AExRefused` | `AExDecryptor::new` |
| `UpdateStored`, `UpdateDeflated`, `UpdateEncrypted` | `Pipeline::update` is called, `pipeline.rs` 45-76 |
| `DecryptZipCrypto`, `DecryptAEx` | one turn of the loop in `update` of the decryptors |
| `OnlyDecrypted`, `ToDecompress` | `pipeline.rs`, after the decryptor |
| `InflateSymbol`, `InflateFails` | inside the decompressor |
| `InflateReturns`, `InflateAgain`, `InflateLoopEnds` | the single call, and the loop over `decrypt_buffer` with its drain |

**UnpackCallers.** Two callers that do less than the README asks. One calls
`update` again after it failed (`CallAgain`), with all of its buffer, because
it was not told how much of it was used up. The other is
`examples/multipart.rs`: it passes each disk once (`PassDisk`) and ignores how
much of it was consumed. `drift` is how far the unpacker is ahead of its buffer
`spoilt` whether the caller did something that was not harmless, and `lost`
whether the example dropped bytes of a disk before the end was reported.

**Extraction.** The promise in four actions, without buffers, disks, positions
or parsing: files in the order of the directory, each delivered from its first
byte to its last, a restart takes back at most one file.

Definitions whose names start with `Wrong` are deliberate bugs. Each stands
before the definition it could replace, and is used to show that a property
would notice such a bug in the code.

## 3. The runs

| Run | Specification | Shows |
|---|---|---|
| `odd` | `Spec` of UnpackSession, 44 archives, 3 passwords, 2 faults | `TypeOK`, `PositionInStep`, `PositionOnDisk`, `DataInStep`, `CheckpointInStep`, `PassedFilesDelivered` hold on overlapping, shared, missing, unreadable, described, unsupported and encrypted files, data of no bytes, data up to and beyond the end; `SkipsWhatItHas`: bytes before the next header that are in the buffer are skipped before more is asked for, but for the turns that leave an empty first disk or end data of no bytes, which use up nothing and end the call |
| `sane` | `FairSpec`, 256 archives, right password, 1 fault | `OnlyFaultsFail`, `MoreMeansStarved`, `EndMeansAllContent`, the refinement `DeliversInOrder`, and `EventuallyEnds`; every step leaves less to be done (`NearsTheEnd`) and no more is asked for than there is (`MoreIsThere`); deadlock is checked |
| `callers` | `CallersSpec`, malformed and well-formed multipart archives, 2 faults | `CallersTypeOK`; `AheadByWhatWasLost`: the unpacker is ahead of its buffer by exactly what the failing calls had used up; `HarmlessUntilSpoilt`: calling again is harmless after a failure in the first turn of a call outside a file's data; `MultipartExtracts`: on well-formed archives, deflated files and headers over the end of a disk included, the example can lose bytes of a disk only at a header or at unencrypted deflated data that go on behind it, no call fails before it has, and if it loses none it gets every file |
| `rejected` | violation | a header that `from_bytes` rejects: `update` returns 0, "provide more", with the whole header in the buffer |
| `large` | violation | `bytes_left as usize`: with 2^w bytes left nothing more is read, ever |
| `described` | violation | a file with its sizes in a data descriptor is passed over, and the end is reported |
| `headers` | `Spec` of FileHeaders, 152 headers | `TypeOK`, `FieldsTile`, `HeaderInBuffer`, `SameHeader`, `AcceptedFromMore`, `PanicsKnown`, `ReadsWhatWasWritten`: every set of fields in the ZIP64 field, other fields around it, ZipCrypto and the three strengths of AE-x, cut fields, fields that are too short, missing or there twice |
| `headers_aex` | violation | an AE-x field of three to six bytes passes the guard and is indexed beyond its end |
| `headers_described` | violation | 12 or more is subtracted from the compressed size 0 of an encrypted file with a data descriptor |
| `readcd` | `FairSpec` of ReadCd, 6347 archives, 1 failure of the provider | on 3275 archives with one thing wrong (fields too small, too large or beyond the disk or the archive; records missing, cut short or malformed; signatures in the comment; archives too short for anything) and on all others `TypeOK`, `SpanInStep`, `GuaranteeKept`, `HeadersTile`; on 3072 of a correct writer `FindsDirectory`: no ZIP64 record, or one that any or all of the fields are left to, comments of 0, 1 and `U16_MAX` bytes, a directory in either order or with a shared position, one, two or three disks cut at every byte, empty ones too, split and cut archives; `EventuallyAnswers` and `NearsTheAnswer` on all: every step leaves less to be done |
| `readcd_beyond` | violation | an offset beyond its disk makes the reader ask for more than the disk has |
| `pipeline` | `FairSpec` of Pipeline, right and wrong password | `TypeOK`, `PlainInOrder`, `NothingLostAtEnd`, `OnlyBadFilesFail`, `CountsAsAssumed`, `FileEnds`, `NearsItsReturn` (every step of an update leaves it less to do): stored and deflated files, plain, with ZipCrypto and AE-x, empty, sound and damaged, with symbols across updates and a window that fills up |

Bounds of the unpacker. The 30 bytes no header is shorter than (`LFH_MIN`)
become 2, and headers
have 2 or 3 bytes, so that a buffer may end before, inside and after each part
of a header. Two files suffice for the hand-over from one to the next; a third
would repeat the second. Disks: one; several; disks of one byte, so that a
header and data span three of them; empty ones, at the start and in between.
Archives are at most 13 bytes and the stream is cut in every possible way
(`Receive` takes any number of bytes). One fault lets liveness be meaningful,
two let a restart be interrupted. `UsizeMod` is larger than every size except
in `large`. `odd` turns deadlock checking off, because there the stream may end
while the unpacker wants more (a file said to be longer than the stream, or an
archive given as a whole whose first disk is empty); so
does `callers`, whose callers run out of bytes. The sane archives never
deadlock.

In ReadCd the constant parts of the records become 2 bytes and `U16_MAX` 3, so
that the window in which the end record is sought (11 bytes) is smaller than
the archives (15 to 26 bytes), a comment can fill it, and the disk numbers of
three disks still fit below the maximum. Two headers, of different sizes,
suffice to be out of order and to be read one after the other.

In FileHeaders only the constant parts are scaled down (2 and 3 bytes); extra
fields, salts and encryption headers have their real sizes. `U32_MAX` is 99,
`U16_MAX` 9 and `U64_MOD` 1000, above every number that fits. Each call has a
length next to one of the places where a stage finds too few bytes.

In Pipeline a ZipCrypto header has 2 bytes, blocks 2 bytes, the counter 2 limbs
of 1 bit: the 9 bytes of a file make it carry, and wrap around. Symbols have one,
two or three bytes and produce from nothing to a full window (3). `pipeline`
turns deadlock checking off because a file that is over stays so.

Fairness: `WF_vars(Progress)` in UnpackSession and ReadCd. The code runs on the
thread of its caller, with nothing to wait for; the caller calls again as long
as there are bytes. Crashes and failing callbacks or providers are not part of
`Progress` and never owed. In Pipeline a call goes on (`WF` of `New` and
`Work`), and `SF_vars(Update(BytesLeft))` is the caller that keeps its buffer:
it will, again and again, have received all that is left of the file. Weak
fairness would not do, as every other update interrupts it; with less than all
that is left a decompressor may wait for more, as it may in the code.

## 4. What is proved

Each theorem holds for every value of the constants under the assumptions that
the modules state: any set of `Archives` that satisfy `IsArchive`, any
`MaxFaults`, `UsizeMod` and `LFH_MIN`; any well-typed `Streams` and any sizes of
the records for ReadCd, where `meant` is what a writer can have meant
(`MeantAssumption`); any `Headers` and widths for FileHeaders, with marks as
HeaderFormat says (`WrittenAssumption`); any `FilesData`, block size, counter
and window for Pipeline.

| Theorem | Module | Statement |
|---|---|---|
| `TypeCorrect` | UnpackSessionProofs | `Spec => []TypeOK` |
| `PositionKept` | UnpackSessionProofs | `Spec => []PositionInStep` |
| `NeverBeyondDisk` | UnpackSessionProofs | `Spec => []PositionOnDisk` |
| `DataKept` | UnpackDeliveryProofs | `Spec => []DataInStep` |
| `CheckpointKept` | UnpackDeliveryProofs | `Spec => []CheckpointInStep` |
| `NothingLost` | UnpackDeliveryProofs | `Spec => []PassedFilesDelivered` |
| `Implementation` | UnpackDeliveryProofs | `Spec => DeliversInOrder`, if no two files share a header |
| `NoSpuriousErrors` | UnpackOutcomeProofs | `Spec => []OnlyFaultsFail`, for sane archives and the right password |
| `EndIsAll` | UnpackOutcomeProofs | `Spec => []EndMeansAllContent`, likewise |
| `AsksWhenStarved` | UnpackOutcomeProofs | `Spec => []MoreMeansStarved`, likewise, if `usize` can count every file |
| `GetsOn` | UnpackOutcomeProofs | `Spec => NearsTheEnd`, for sane archives and the right password |
| `NeverStuck` | UnpackOutcomeProofs | `Spec => []MoreIsThere`, likewise, if `usize` can count every file |
| `CallersTypeCorrect` | UnpackOutcomeProofs | `CallersSpec => []CallersTypeOK` |
| `AheadByLost` | UnpackOutcomeProofs | `CallersSpec => []AheadByWhatWasLost` |
| `HarmlessKept` | UnpackOutcomeProofs | `CallersSpec => []HarmlessUntilSpoilt` |
| `MultipartGetsAll` | UnpackOutcomeProofs | `CallersSpec => []MultipartExtracts`, if `usize` can count the files of the sane archives |
| `ReadTypeCorrect` | ReadCdProofs | `Spec => []TypeOK` |
| `SpanKept` | ReadCdProofs | `Spec => []SpanInStep` |
| `GuaranteeGiven` | ReadCdProofs | `Spec => []GuaranteeKept` |
| `HeadersKept` | ReadCdProofs | `Spec => []HeadersTile` |
| `DirectoryFound` | ReadCdProofs | `Spec => []FindsDirectory` |
| `Answers` | ReadCdProofs | `Spec => NearsTheAnswer` |
| `TypeCorrect` | FileHeadersProofs | `Spec => []TypeOK` |
| `Tiled` | FileHeadersProofs | `Spec => []FieldsTile` |
| `OnlyKnownPanics` | FileHeadersProofs | `Spec => []PanicsKnown` |
| `InTheBuffer` | FileHeadersProofs | `Spec => []HeaderInBuffer` |
| `AlwaysTheSame` | FileHeadersProofs | `Spec => []SameHeader` |
| `FromMore` | FileHeadersProofs | `Spec => []AcceptedFromMore` |
| `ReadsTheFormat` | FileHeadersProofs | `Spec => []ReadsWhatWasWritten` |
| `PipelineTypeCorrect` | PipelineProofs | `Spec => []TypeOK` |
| `CountsKept` | PipelineProofs | `Spec => CountsAsAssumed` |
| `BytesInOrder` | PipelineProofs | `Spec => []PlainInOrder` |
| `AllHandedOut` | PipelineProofs | `Spec => []NothingLostAtEnd` |
| `SoundNeverFails` | PipelineProofs | `Spec => []OnlyBadFilesFail` |
| `UpdateReturnsInTime` | PipelineProofs | `Spec => NearsItsReturn` |
| `CounterCounts` | CounterProofs | the increment of the block that encodes `n` encodes `n + 1` |

**The unpacker.** The invariant has layers. `Placed` is `TypeOK /\
PositionOnDisk`, and holds whatever the caller passes: `TypeOK` alone is not
inductive, because that a skip to the next disk has no negative length needs
`PositionOnDisk`, which in turn must allow for a header position that was
resumed from and lies beyond its disk. Under it every turn is `Steady`: the
position moves exactly as far in the stream as the slice does, because the
roll-over picks a disk that holds the global offset (`AdvanceStep`). `Located`
adds `PositionInStep`, which follows from a steady turn for the caller of the
README. `Delivered` is `DataInStep /\ CheckpointInStep /\
PassedFilesDelivered`, proved under `Located` before and after the step: what
was delivered is a prefix of the payload (`BytesConcat` joins two stretches of
the stream), so a file whose last byte is counted is whole; and a restart goes
to a file at the position of the checkpoint, which is that of the current one
or of the one just completed, so that it passes no header undelivered. The refinement then maps
`HeaderRefused` and `HeaderAccepted` to `Begin`, `ReadData` to `Deliver`,
`Recover` and `Crash` to `StartOver`, and everything else to a stutter.

`Unfailing` is what holds besides on sane archives with the right password: the
position is inside its disk (`Inside`) and, between files, not beyond the
header that comes next (`HeaderAhead`); data that is being read has bytes left;
the end comes after the last file; and no error is spurious. `NoOvershoot`, `HeaderEnds` and `NextAhead` say that
a turn which uses up a gap, a header or data stays in front of the next header
and inside the stream, from which the absence of `Overshoot`,
`InvalidSignature` and `ExtraData` follows. That the end means all content is
then `PassedFilesDelivered` at the end, because sane archives have distinct
headers (`SaneDistinct`).

**Progress.** That something comes to its end is a temporal property, but what
it rests on is not: a tuple of naturals (`ToDo`), compared from the left
(`Lower`), that every step lowers. For the session these are the failures and
recoveries that may still come, the bytes of the stream to be used up, the bytes
to be received, and how long the program can go on without either (`Idling`:
after a turn with something used up there may be one that asks for more, after
it a call). `Going` joins what the proofs before have with two facts: the stream
gives no more than it has, and the program is asked for more only before the
last file is done. A turn of the loop that uses up nothing ends the call
(`TurnOnward`), so `GetsOn` follows from the steady turn and needs no fairness.
`NeverStuck` is the other half: when more is asked for, what is wanted (the rest
of the header, or one byte of the data or the gap, `WantedIsThere`) lies inside
the stream by `HeaderEnds` and `NextAhead`. What remains of `EventuallyEnds` is
that a fair step is enabled, and the rule that nothing goes down for ever.
`ReadCd` has the stage and, in it, the disks or bytes that are left; `Pipeline`
the stage of an update, the bytes to decrypt or of `decrypt_buffer`, and the
input of the decompressor (`Returning`).

**The callers.** `AheadByWhatWasLost` is the steady turn again: a turn moves the
position and the slice alike, so that only what a failing call forgets changes
`drift`. As long as nothing is spoilt, `drift` is 0 and the invariants of the
session hold as they are (`Harmless`).

For the example, `ReadsInOrder` says that on a sane archive without failures, as
long as nothing was dropped (`Orderly`), the unpacker is `InOrder` or has
`Ended`. `InOrder`: the bytes received end with a disk (`ToEndOfDisk`), and a
call that asks for more has used up the disk or is at something that goes on
behind it (`UsedUp`). `DiskUsedUp` goes through the turns for that: a gap is
skipped to its end; of a header more than the disk has is asked for only if it
crosses the end (`HeaderCut`); stored and decrypted data are taken as they come,
and a decompressor may leave some of the slice only if that is not all that is
left of the file (`DecompressorWaits`). None of these can be on the last disk,
as files end inside the stream (`LastDiskEnds`), so that a session that dropped
nothing ends with all content. `Ended`: all content is delivered and what is
ignored lies behind the last file. Nothing is said of a session that dropped
bytes before the end: the position is then behind the buffer, as
`AheadByWhatWasLost` says, and what is read next is up to the bytes. `Fits` is
needed because data whose length is 0 as a `usize` are read no further.

**ReadCd.** The invariant is `Located` there: the three properties, that the end
record is what the reading starts with, and that for a span found by its place
in the stream the cursor never leaves its disk, which is what the guarantee
needs and no property says. `CallFacts` and `Provided` are the heart: a call
ends where the span or the disk does, and the next disk begins at that byte of
the stream. `Noted` keeps what the records said, from which an archive that
names positions on its disks gets the guarantee (`EndNames`). `HeadersTile` is
inductive under `Located`.

`DirectoryFound` follows an archive of a writer. `Written` says where the end
record `e`, the first header `c` and the length `n` of the directory are, and
that nothing after `e` looks like another end record; `OnTheWay` that the reading
is still on the way there, stage by stage: what was decoded is the record at
`e`, the spans are those that it means, the headers pushed are those of the
directory before the offset, by their place (`Gathered`). That the last of
several signatures is `e` is `EndIsFound`. What `sort` returns is not computed: the
sorted sequence and the writer's have the same members in the same order, and
two such sequences are one (`InOrderIsUnique`, at the least place where they
would differ).

**FileHeaders.** `Read` adds to the type that the fields read so far lie one
after the other inside bytes that are there (`Walked`). That all calls agree is
not about one call: `Alongside` says of a call in progress that the fields it
has read are a prefix of those of the first call that was accepted, and in the
later stages all of them. What is returned is a function of the fields
(`Accepts`), so the results are the same, and each way to be refused means that
there are fewer bytes than the accepted call had.

`ReadsTheFormat` needs an account of the fields that are there, not only of
those another call has read: `OnLayout` is that a call goes along `layout`, field
by field, can neither stop before its end nor go on behind it, and refuses a
header that means something only with fewer bytes than that has. The cursor of
`read_all_if_needed` is then where the format counts the large fields before
one (`Counts`, `LargeFacts`, `MeantIsSettled`), and the subtractions stay in
range (`MeantDoesNotPanic`).

**Pipeline.** `Pipelined` joins `Accounted` (`TypeOK`, `Stage`, which says which
variables are at rest when, and `Accounts`, which adds up what was produced, held
and returned), `Ciphers` (the keys or the counter are where the next byte wants
them), `PlainInOrder`, `Boundary` (what was eaten ends with a symbol),
`Drained` and `OnlyBadFilesFail`. `CounterCounts` is what `Ciphers` needs when
a block is used up. That all limbs below one are full exactly when the number
is about to carry into it (`Carries`) would be an induction over the limbs;
instead the proof looks at the least limb for which it would fail, as the
naturals have least elements (`LeastNatural`).

Only model-checked:

- liveness under fairness (`EventuallyEnds`, `EventuallyAnswers`, `FileEnds`),
  which needs `ENABLED` and well-founded induction over a measure, neither of
  which TLAPS can do here. What a step can say of it is proved: `GetsOn` and
  `NeverStuck`, `Answers`, `UpdateReturnsInTime`. For a file as a whole
  (`FileEnds`) there is no such measure without the caller's strong fairness, as
  updates that consume nothing may be repeated;
- that the marks of the archives and headers in the MC modules are what
  `MeantAssumption` and `WrittenAssumption` demand, which TLC evaluates.

## 5. Findings

`PROJECT.json`, "findings", quotes the line that each of these runs disagrees
with.

| Run | Code | What happens |
|---|---|---|
| `rejected` | `zip/mod.rs:260` | "0" asks for more data, but the header is one that no data can make acceptable |
| `large` | `zip/mod.rs:295` | on a 32-bit target a file with a multiple of 2^32 bytes left is read no further |
| `described` | `zip/mod.rs:277` | a file with a data descriptor is taken for empty, and the end is reported |
| `readcd_beyond` | `zip/read_cd.rs:126` | a subtraction wraps or panics when an offset is beyond its disk |
| `headers_aex` | `structures/local_file_header.rs:102` | the guard counts four bytes too many; the access behind it panics |
| `headers_described` | `structures/local_file_header.rs:136` | a size of 0 has the salt and the code subtracted from it |

All are about archives that are unusual or malformed, or about 32-bit targets.

## 6. What is not modelled

- `update` after `ExtraData`: the position is beyond its disk and has no
  meaning in the code.
- `set_callback` in mid-stream: a callback is a nondeterministic answer.
- `resume` at a position that is not in the directory: it returns
  `InvalidOffset`, and there is no unpacker.
- Bytes of a file behind the end of its deflate stream, and the output that
  the decompressor of a file without encryption may still hold when the last
  byte is consumed: there is no loop over the decompressor in that case
  (`pipeline.rs` 69-70), and whether anything is held is up to the external
  crate. Such output is not delivered to anyone; `NothingLostAtEnd` says that it
  is less than a window, and that there is none unless the file has produced a
  full window before.
- The arithmetic of the ZipCrypto keys; AES, PBKDF2, SHA-1 and inflate, which
  are external crates. The ciphers are symbolic.
- Names, dates, attributes and comments have a length and nothing else.
  Checksums and authentication codes, which the code does not verify either.
- `Debug` and `Display`; the crate root, which only declares modules. A feature
  that is not compiled in is one of the outcomes of `HeaderRefused`.

Three hazards have no property. A signature in the archive comment
(`cd_location.rs:120`) makes the reader refuse the archive, as archives of
`readcd` show; nothing promises otherwise. A decompression error leaves
`decrypt_buffer` as it was (`pipeline.rs:57`), and a caller that goes on after
one is promised nothing: it is `spoilt` in UnpackCallers. And of files that
share a local header `resume` may pass over some (`zip/mod.rs:152`), as
`PassedFilesDelivered` allows: a position does not say which file is meant.
