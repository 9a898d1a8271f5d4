---------------------------- MODULE ZipUnpacker ----------------------------
(***************************************************************************)
(* ZipUnpacker (src/zip/mod.rs): the state machine behind update.  update  *)
(* loops over update_internal; here each turn of that loop is one action,  *)
(* because the decode callback runs in the middle of it and may fail, and  *)
(* because a turn that fails leaves behind what the turns before it did.   *)
(*                                                                         *)
(* The buffer a caller passes holds the bytes [taken, taken + held) of the *)
(* stream.  pc is "update" inside a call, and otherwise how the last call  *)
(* ended: "ok" is Ok((buf_offset, false)), "end" is Ok((buf_offset, true)),*)
(* "error" is Err(error), "idle" that there was none yet.                  *)
(*                                                                         *)
(* A definition whose name starts with Wrong is a bug that the definition  *)
(* after it does not have; the runs show that a property would notice.     *)
(***************************************************************************)
EXTENDS ZipArchive

CONSTANT MaxFaults  \* bounds the failures of the environment

ASSUME MaxFaultsAssumption == MaxFaults \in Nat

VARIABLES
  archive,           \* disk_sizes, central_directory and the stream: never changes
  password,          \* "none", "right" or "wrong": never changes
  decoder_state,     \* ZipDecoderState
  current_index,
  current_position,
  pc, error,         \* how far update got
  buf_offset,        \* its local variable: how much of the buffer is used up
  taken, held,       \* its argument: where the buffer starts, how long it is
  out,               \* out[i]: the bytes delivered for file i, pipeline input
  ckpt,              \* {} or {p}: position of the last file header delivered
  faults             \* failures of callbacks, of the data or of the caller so far

config  == << archive, password >>
decoder == << decoder_state, current_index >>
vars == << archive, password, decoder_state, current_index, current_position,
           pc, error, buf_offset, taken, held, out, ckpt, faults >>

FileHeader == [tag |-> "FileHeader"]
FileData(p, l) == [tag |-> "FileData", pos |-> p, lfh |-> l]
InData == decoder_state.tag = "FileData"

AsUsize(n) == n % UsizeMod

Files == 0 .. archive.files - 1
HeaderPosition == archive.cd[current_index].position

Avail == held - buf_offset  \* bytes in the slice that update_internal gets
Here == taken + buf_offset  \* where in the stream that slice starts

-----------------------------------------------------------------------------
\* One turn a call.
WrongAfterInternal(adv, end) == IF end THEN "end" ELSE "ok"

(***************************************************************************)
(* The rest of the turn, once update_internal returned Ok((adv, end)).     *)
(* The position advances, and moves on to a later disk when it has left    *)
(* this one: to the first disk whose bytes reach beyond the position,      *)
(* which is the only one that holds it.                                    *)
(***************************************************************************)
AfterInternal(adv, end) ==
  IF end THEN "end" ELSE IF adv = 0 THEN "ok" ELSE "update"

LaterDisks == current_position.disk + 1 .. archive.disks - 1

\* What is left of adv is forgotten when a disk ends.
WrongAdvanceToStart(adv, end) ==
  LET moved == [current_position EXCEPT !.offset = @ + adv]
      g == Global(archive, moved)
  IN /\ buf_offset' = buf_offset + adv
     /\ current_position' =
          IF \E d \in LaterDisks : Holds(archive, d, g)
          THEN [disk |-> CHOOSE d \in LaterDisks : Holds(archive, d, g), offset |-> 0]
          ELSE moved
     /\ pc' = AfterInternal(adv, end)
     /\ UNCHANGED error

\* The next disk is taken to hold what this one does not.
WrongAdvanceOneDisk(adv, end) ==
  LET moved == [current_position EXCEPT !.offset = @ + adv]
      size == archive.size[moved.disk]
  IN /\ buf_offset' = buf_offset + adv
     /\ current_position' =
          IF moved.offset >= size /\ moved.disk + 1 < archive.disks
          THEN [disk |-> moved.disk + 1, offset |-> moved.offset - size]
          ELSE moved
     /\ pc' = AfterInternal(adv, end)
     /\ UNCHANGED error

Advance(adv, end) ==
  LET moved == [current_position EXCEPT !.offset = @ + adv]
      g == Global(archive, moved)
      left == moved.offset >= archive.size[moved.disk]
  IN /\ buf_offset' = buf_offset + adv
     /\ \/ /\ ~ left
           /\ current_position' = moved
           /\ pc' = AfterInternal(adv, end)
           /\ UNCHANGED error
        \/ /\ left
           /\ \E d \in LaterDisks :
                 /\ Holds(archive, d, g)
                 /\ current_position' = [disk |-> d, offset |-> g - archive.base[d]]
           /\ pc' = AfterInternal(adv, end)
           /\ UNCHANGED error
        \/ /\ left
           /\ \A d \in LaterDisks : ~ Holds(archive, d, g)
           /\ current_position' = moved
           /\ pc' = "error"
           /\ error' = "ExtraData"

Err(kind) ==
  /\ pc' = "error"
  /\ error' = kind
  /\ UNCHANGED << current_position, buf_offset >>

\* The environment fails: a callback returns Err, or the data was damaged.
Fault ==
  /\ faults < MaxFaults
  /\ faults' = faults + 1

-----------------------------------------------------------------------------
\* Off by one.
WrongAllProcessed ==
  /\ pc = "update"
  /\ current_index >= archive.files - 1
  /\ Advance(0, TRUE)
  /\ UNCHANGED << config, decoder, taken, held, out, ckpt, faults >>

(***************************************************************************)
(* update_internal, the returns that come before the decoder's state.      *)
(***************************************************************************)
AllProcessed ==
  /\ pc = "update"
  /\ current_index >= archive.files
  /\ Advance(0, TRUE)
  /\ UNCHANGED << config, decoder, taken, held, out, ckpt, faults >>

(***************************************************************************)
(* update_internal in ZipDecoderState::FileHeader, one action per way out. *)
(***************************************************************************)
AtHeader ==
  /\ pc = "update"
  /\ current_index < archive.files
  /\ ~ InData

\* The disk is not compared.
WrongOvershot == HeaderPosition.offset < current_position.offset

Overshot == Before(HeaderPosition, current_position)

Overshoot ==
  /\ AtHeader
  /\ Overshot
  /\ Err("Overshoot")
  /\ UNCHANGED << config, decoder, taken, held, out, ckpt, faults >>

\* What the unpacker may skip at once: to the end of the disk when the header
\* is on a later one, to the header when it is on this one.
Gap ==
  IF current_position.disk < HeaderPosition.disk
  THEN archive.size[current_position.disk] - current_position.offset
  ELSE HeaderPosition.offset - current_position.offset

Skip ==
  /\ AtHeader
  /\ ~ Overshot
  /\ \/ current_position.disk < HeaderPosition.disk
     \/ current_position.offset < HeaderPosition.offset
  /\ Advance(Lesser(Gap, Avail), FALSE)
  /\ UNCHANGED << config, decoder, taken, held, out, ckpt, faults >>

OnHeader ==
  /\ AtHeader
  /\ ~ Overshot
  /\ current_position.disk >= HeaderPosition.disk
  /\ current_position.offset >= HeaderPosition.offset

Signed == Here \in DOMAIN archive.lfh
Parsed == archive.lfh[Here].wellformed /\ Avail >= archive.lfh[Here].header_size

\* Too few bytes to look at the signature, or from_bytes returned None.
NeedMoreHeader ==
  /\ OnHeader
  /\ Avail < LFH_MIN \/ (Signed /\ ~ Parsed)
  /\ Advance(0, FALSE)
  /\ UNCHANGED << config, decoder, taken, held, out, ckpt, faults >>

InvalidSignature ==
  /\ OnHeader
  /\ Avail >= LFH_MIN
  /\ ~ Signed
  /\ Err("InvalidSignature")
  /\ UNCHANGED << config, decoder, taken, held, out, ckpt, faults >>

HeaderRead ==
  /\ OnHeader
  /\ Avail >= LFH_MIN
  /\ Signed
  /\ Parsed

HeaderCallbackFails ==
  /\ HeaderRead
  /\ Fault
  /\ Err("FromDecodeCallback")
  /\ UNCHANGED << config, decoder, taken, held, out, ckpt >>

(***************************************************************************)
(* The callback takes the header: a caller starts the file over and may    *)
(* note its position, which it can later resume from.                      *)
(***************************************************************************)
HeaderDelivered ==
  /\ out' = [out EXCEPT ![current_index] = << >>]
  /\ ckpt' = {HeaderPosition}

(***************************************************************************)
(* Of a wrong password a decryptor checks only one or two bytes, so it may *)
(* pass.  The same refusal stands for an encryption whose feature is off.  *)
(***************************************************************************)
Encrypted == archive.lfh[Here].encryption # "None"
HasData == archive.lfh[Here].uncompressed_size # 0
Supported == archive.lfh[Here].compression_method # "Unknown"

\* The decoder enters the file before its decryptor is made.
WrongHeaderRefused ==
  /\ HeaderRead
  /\ HeaderDelivered
  /\ Encrypted /\ password = "none" /\ Err("NoPassword")
  /\ decoder_state' = FileData(0, archive.lfh[Here])
  /\ UNCHANGED << config, current_index, taken, held, faults >>

HeaderRefused ==
  /\ HeaderRead
  /\ HeaderDelivered
  /\ \/ Encrypted /\ password = "none" /\ Err("NoPassword")
     \/ Encrypted /\ password = "wrong" /\ Err("DecryptorInit")
     \/ /\ Encrypted => password # "none"
        /\ HasData /\ ~ Supported
        /\ Err("DecompressorInit")
  /\ UNCHANGED << config, decoder, taken, held, faults >>

\* The decoder is not put back to FileHeader.
WrongNextFile ==
  /\ current_index' = current_index + 1
  /\ UNCHANGED decoder_state

NextFile ==
  /\ decoder_state' = FileHeader
  /\ current_index' = current_index + 1

HeaderAccepted ==
  /\ HeaderRead
  /\ HeaderDelivered
  /\ Encrypted => password # "none"
  /\ \/ /\ HasData /\ Supported
        /\ decoder_state' = FileData(0, archive.lfh[Here])
        /\ UNCHANGED current_index
     \/ ~ HasData /\ NextFile
  /\ Advance(archive.lfh[Here].header_size, FALSE)
  /\ UNCHANGED << config, taken, held, faults >>

-----------------------------------------------------------------------------
(***************************************************************************)
(* update_internal in ZipDecoderState::FileData.                           *)
(***************************************************************************)
AtData ==
  /\ pc = "update"
  /\ current_index < archive.files
  /\ InData

BytesLeft == decoder_state.lfh.compressed_size - decoder_state.pos
\* More than the slice has; all but the last byte.
WrongAllBytes == AsUsize(BytesLeft)
WrongButOneByte == Lesser(AsUsize(BytesLeft - 1), Avail)

BytesToRead == Lesser(AsUsize(BytesLeft), Avail)

\* A decompressor may wait for more though it has all.
WrongPipelineCounts(n) ==
  IF /\ decoder_state.lfh.compression_method = "Deflate"
     /\ decoder_state.lfh.encryption = "None"
  THEN 0 .. n
  ELSE {n}

(***************************************************************************)
(* How many of n bytes Pipeline::update consumes: all of them when nothing *)
(* decompresses or when a decryptor comes first, and what it likes when a  *)
(* decompressor works on the buffer itself; given all that is left of the  *)
(* file it has no reason to wait for more, and takes some.                 *)
(***************************************************************************)
PipelineCounts(n) ==
  IF /\ decoder_state.lfh.compression_method = "Deflate"
     /\ decoder_state.lfh.encryption = "None"
  THEN {c \in 0 .. n : n = BytesLeft /\ n > 0 => c > 0}
  ELSE {n}

\* The end of the buffer is taken for the end of the file.
WrongReadDataEnd ==
  /\ AtData
  /\ \E count \in PipelineCounts(BytesToRead) :
        /\ out' = [out EXCEPT ![current_index] = @ \o Bytes(Here, count)]
        /\ IF count = BytesToRead
           THEN NextFile
           ELSE /\ decoder_state' = [decoder_state EXCEPT !.pos = @ + count]
                /\ UNCHANGED current_index
        /\ Advance(count, FALSE)
  /\ UNCHANGED << config, taken, held, ckpt, faults >>

\* What the pipeline was given is taken for what it consumed.
WrongReadDataAdvance ==
  /\ AtData
  /\ \E count \in PipelineCounts(BytesToRead) :
        /\ out' = [out EXCEPT ![current_index] = @ \o Bytes(Here, count)]
        /\ IF count = BytesLeft
           THEN NextFile
           ELSE /\ decoder_state' = [decoder_state EXCEPT !.pos = @ + count]
                /\ UNCHANGED current_index
        /\ Advance(BytesToRead, FALSE)
  /\ UNCHANGED << config, taken, held, ckpt, faults >>

ReadData ==
  /\ AtData
  /\ \E count \in PipelineCounts(BytesToRead) :
        /\ out' = [out EXCEPT ![current_index] = @ \o Bytes(Here, count)]
        /\ IF count = BytesLeft
           THEN NextFile
           ELSE /\ decoder_state' = [decoder_state EXCEPT !.pos = @ + count]
                /\ UNCHANGED current_index
        /\ Advance(count, FALSE)
  /\ UNCHANGED << config, taken, held, ckpt, faults >>

\* The position moves with pos, before the callback is called.
WrongDataCallbackFails ==
  /\ AtData
  /\ \E count \in PipelineCounts(BytesToRead) :
        /\ decoder_state' = [decoder_state EXCEPT !.pos = @ + count]
        /\ current_position' = [current_position EXCEPT !.offset = @ + count]
  /\ Fault
  /\ pc' = "error" /\ error' = "FromDecodeCallback"
  /\ UNCHANGED << config, current_index, buf_offset, taken, held, out, ckpt >>

\* The pipeline has consumed its bytes, the position has not moved.
DataCallbackFails ==
  /\ AtData
  /\ \E count \in PipelineCounts(BytesToRead) :
        decoder_state' = [decoder_state EXCEPT !.pos = @ + count]
  /\ Fault
  /\ Err("FromDecodeCallback")
  /\ UNCHANGED << config, current_index, taken, held, out, ckpt >>

\* Only a decompressor can fail: on damaged data, or on what a wrong password
\* makes of it.
PipelineFails ==
  /\ AtData
  /\ decoder_state.lfh.compression_method = "Deflate"
  /\ \/ Fault
     \/ /\ decoder_state.lfh.encryption # "None" /\ password = "wrong"
        /\ UNCHANGED faults
  /\ Err("Pipeline")
  /\ UNCHANGED << config, decoder, taken, held, out, ckpt >>

UpdateInternal ==
  \/ AllProcessed
  \/ Overshoot
  \/ Skip
  \/ NeedMoreHeader
  \/ InvalidSignature
  \/ HeaderCallbackFails
  \/ HeaderRefused
  \/ HeaderAccepted
  \/ ReadData
  \/ DataCallbackFails
  \/ PipelineFails

-----------------------------------------------------------------------------
(***************************************************************************)
(* The constructors: ZipUnpacker::new, and resume, which looks a position  *)
(* up in the directory.  When headers share the position, the binary       *)
(* search may return any of them.                                          *)
(***************************************************************************)
New ==
  /\ decoder_state' = FileHeader
  /\ current_index' = 0
  /\ current_position' = [disk |-> 0, offset |-> 0]

\* The disk of the position is not compared.
WrongResume(position) ==
  /\ decoder_state' = FileHeader
  /\ \E i \in Files :
        /\ archive.cd[i].position.offset = position.offset
        /\ current_index' = i
  /\ current_position' = position

Resume(position) ==
  /\ decoder_state' = FileHeader
  /\ \E i \in Files :
        /\ archive.cd[i].position = position
        /\ current_index' = i
  /\ current_position' = position
=============================================================================
