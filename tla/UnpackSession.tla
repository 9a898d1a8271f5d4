--------------------------- MODULE UnpackSession ---------------------------
(***************************************************************************)
(* A program that unpacks an archive while it receives it, the way the     *)
(* README and the examples use the library: it keeps the bytes that were   *)
(* not consumed, passes them to update together with the ones that arrived *)
(* since, and drops as many as update says.  It may die at any moment and  *)
(* may see update fail; it then makes a new unpacker at the last file      *)
(* whose header its callback was given, and receives the archive again     *)
(* from there.                                                             *)
(***************************************************************************)
EXTENDS ZipUnpacker

\* Tries again with nothing more.
WrongUpdate(k) ==
  /\ pc \in {"idle", "ok"}
  /\ pc' = "update"
  /\ taken' = taken + buf_offset
  /\ held' = held - buf_offset + k
  /\ buf_offset' = 0
  /\ UNCHANGED << config, decoder, current_position, error, out, ckpt, faults >>

(***************************************************************************)
(* The next call of update: the buffer loses what the last call consumed   *)
(* and gains k bytes.  A caller that was told "0" provides more bytes, as  *)
(* the documentation of update asks, and is stuck when there are none.     *)
(***************************************************************************)
Update(k) ==
  /\ pc \in {"idle", "ok"}
  /\ pc = "ok" /\ buf_offset = 0 => k > 0
  /\ pc' = "update"
  /\ taken' = taken + buf_offset
  /\ held' = held - buf_offset + k
  /\ buf_offset' = 0
  /\ UNCHANGED << config, decoder, current_position, error, out, ckpt, faults >>

Receive == \E k \in 0 .. StreamSize(archive) - taken - held : Update(k)

(***************************************************************************)
(* A new unpacker, and a stream that starts where it does.                 *)
(***************************************************************************)
StartOver ==
  /\ IF ckpt = {} THEN New ELSE \E p \in ckpt : Resume(p)
  /\ taken' = Global(archive, current_position')
  /\ held' = 0
  /\ buf_offset' = 0
  /\ pc' = "idle"
  /\ error' = "none"
  /\ UNCHANGED << config, out, ckpt >>

Recover == pc = "error" /\ StartOver /\ UNCHANGED faults

Crash == pc \in {"idle", "update", "ok"} /\ Fault /\ StartOver

\* update reported the end: the program stops.
Finished == pc = "end" /\ UNCHANGED vars

CONSTANT Passwords  \* what the program may pass: "none" is no password at all

Init ==
  /\ archive \in Archives
  /\ password \in Passwords
  /\ decoder_state = FileHeader
  /\ current_index = 0
  /\ current_position = [disk |-> 0, offset |-> 0]
  /\ pc = "idle" /\ error = "none"
  /\ buf_offset = 0 /\ taken = 0 /\ held = 0
  /\ out = [i \in Files |-> << >>]
  /\ ckpt = {}
  /\ faults = 0

Next == UpdateInternal \/ Receive \/ Recover \/ Crash \/ Finished

Spec == Init /\ [][Next]_vars

(***************************************************************************)
(* A single thread that runs when it can.  A crash or a failing callback   *)
(* is never owed.                                                          *)
(***************************************************************************)
Progress ==
  \/ AllProcessed \/ Overshoot \/ Skip \/ NeedMoreHeader \/ InvalidSignature
  \/ HeaderRefused \/ HeaderAccepted \/ ReadData \/ Receive \/ Recover

FairSpec == Spec /\ WF_vars(Progress)

-----------------------------------------------------------------------------
(***************************************************************************)
(* The type invariant: every variable of the unpacker, of the call and of  *)
(* the program has the values the code can give it.                        *)
(***************************************************************************)
Errors == {"Overshoot", "InvalidSignature", "NoPassword", "DecryptorInit",
           "DecompressorInit", "FromDecodeCallback", "Pipeline", "ExtraData"}

DecoderStateOK ==
  \/ decoder_state = FileHeader
  \/ /\ decoder_state = FileData(decoder_state.pos, decoder_state.lfh)
     /\ decoder_state.lfh \in LocalFileHeader
     /\ decoder_state.pos \in 0 .. decoder_state.lfh.compressed_size

TypeOK ==
  /\ IsArchive(archive)
  /\ password \in Passwords
  /\ DecoderStateOK
  /\ current_index \in 0 .. archive.files
  /\ current_position \in [disk : 0 .. archive.disks - 1, offset : Nat]
  /\ pc \in {"idle", "update", "ok", "end", "error"}
  /\ error \in Errors \cup {"none"}
  /\ (pc = "error") <=> (error # "none")
  /\ taken \in Nat
  /\ held \in Nat
  /\ buf_offset \in 0 .. held
  /\ out \in [Files -> Seq(Nat)]
  /\ ckpt \subseteq Position
  /\ faults \in 0 .. MaxFaults

(***************************************************************************)
(* The unpacker never sees a stream offset, only disk sizes and slice      *)
(* lengths.  The position it keeps (current_position, with its roll-over   *)
(* from disk to disk) is the place of the next byte of the buffer, over    *)
(* any split into calls, any disks and any restarts; and in a call that    *)
(* failed, of the byte that the turn that failed began with.  Only after   *)
(* ExtraData does it mean nothing.                                         *)
(***************************************************************************)
PositionInStep ==
  error # "ExtraData" => Global(archive, current_position) = Here

(***************************************************************************)
(* current_position lies on its disk, or is still the position of a header *)
(* that was resumed from: what remains of a disk, when update skips to the *)
(* next one, is never negative (the code subtracts unsigned numbers).      *)
(***************************************************************************)
PositionOnDisk ==
  error # "ExtraData" =>
    \/ current_position.offset <= archive.size[current_position.disk]
    \/ /\ current_index < archive.files /\ ~ InData
       /\ current_position = HeaderPosition

(***************************************************************************)
(* While a file's data is being read, pos, current_position, the header    *)
(* that was parsed and the bytes delivered agree: what the callback has    *)
(* seen is exactly the first pos bytes that follow that file's header.     *)
(***************************************************************************)
DataInStep ==
  pc # "error" /\ InData =>
    /\ current_index < archive.files
    /\ HeaderStart(archive, current_index) \in DOMAIN archive.lfh
    /\ decoder_state.lfh = archive.lfh[HeaderStart(archive, current_index)]
    /\ decoder_state.lfh.uncompressed_size # 0
    /\ Global(archive, current_position)
         = DataStart(archive, current_index) + decoder_state.pos
    /\ out[current_index] = Bytes(DataStart(archive, current_index), decoder_state.pos)

(***************************************************************************)
(* A file that the unpacker has passed (it advanced current_index, or was  *)
(* resumed behind it) was delivered whole: every byte its local header     *)
(* announces, once and in order, whatever failed or crashed meanwhile.     *)
(* Of files that share a local header, a restart may pass over some, as    *)
(* the search may find any of them, but never over all.                    *)
(***************************************************************************)
ShareHeader(i, j) == archive.cd[i].position = archive.cd[j].position

PassedFilesDelivered ==
  \A i \in Files : i < current_index =>
    \E j \in Files :
      /\ ShareHeader(i, j)
      /\ j = current_index \/ (j < current_index /\ out[j] = Payload(archive, j))

(***************************************************************************)
(* What a restart relies on.  The position that was noted last is that of  *)
(* the current file, or of the one that was just completed; while data is  *)
(* being read it is the current file's.                                    *)
(***************************************************************************)
CheckpointInStep ==
  \/ ckpt = {} /\ current_index = 0 /\ ~ InData
  \/ \E i \in Files :
        /\ ckpt = {archive.cd[i].position}
        /\ current_index = i \/ (current_index = i + 1 /\ ~ InData)

(***************************************************************************)
(* "The second value determines whether all files were processed" (update):*)
(* when update says so, every file of the directory was delivered with the *)
(* content the directory gives it.                                         *)
(***************************************************************************)
EndMeansAllContent ==
  pc = "end" => \A i \in Files : out[i] = Content(archive, i)

(***************************************************************************)
(* update loops until its buffer cannot be used any further: when it asks  *)
(* for more data, what remains of the buffer is too little for the header  *)
(* or for the data the decoder is at.  (A decompressor may wait for all    *)
(* that is left of its file.)  A caller that has the whole archive needs   *)
(* one call, and one told "0" is not asked for bytes it already gave.      *)
(***************************************************************************)
Wanted ==
  IF InData
  THEN IF decoder_state.lfh.compression_method = "Deflate" THEN BytesLeft ELSE 1
  ELSE IF current_position = HeaderPosition THEN archive.lfh[Here].header_size ELSE 1

MoreMeansStarved == pc = "ok" /\ current_index < archive.files => Avail < Wanted

(***************************************************************************)
(* Between files update skips all that it can, on any archive: it does not *)
(* ask for more with bytes left before the next header.  There are two     *)
(* exceptions, turns that get on without consuming anything, which ends    *)
(* the call: the one that leaves an empty first disk, and the one that     *)
(* ends a file whose data claim to be something and have no bytes.  There  *)
(* a caller that has all of the archive must call again with the same      *)
(* bytes, though it is told that they are too few.                         *)
(***************************************************************************)
LeftEmptyFirstDisk == archive.size[0] = 0 /\ Here = 0

LeftFileWithoutBytes ==
  \E i \in Files :
    /\ i + 1 = current_index /\ Here = DataStart(archive, i)
    /\ archive.lfh[HeaderStart(archive, i)].compressed_size = 0
    /\ archive.lfh[HeaderStart(archive, i)].uncompressed_size # 0

SkipsWhatItHas ==
  /\ pc = "ok" /\ current_index < archive.files /\ ~ InData
  /\ Before(current_position, HeaderPosition) /\ Avail > 0
  => LeftEmptyFirstDisk \/ LeftFileWithoutBytes

(***************************************************************************)
(* "0 means that there wasn't enough data in the buffer and the caller     *)
(* should provide more" (update): when it consumed nothing and there are   *)
(* files left, the buffer was too short for what comes next.               *)
(***************************************************************************)
ZeroMeansTooLittle ==
  pc = "ok" /\ buf_offset = 0 /\ current_index < archive.files => Avail < Wanted

(***************************************************************************)
(* On an archive of a correct writer, with the right password, update      *)
(* fails only when a callback or the data does: never with Overshoot,      *)
(* InvalidSignature or ExtraData, however the stream is cut into calls and *)
(* wherever it was resumed.                                                *)
(***************************************************************************)
OnlyFaultsFail == error \in {"none", "FromDecodeCallback", "Pipeline"}

(***************************************************************************)
(* The session implements Extraction: order of the files, no gap and no    *)
(* repeat in any of them, and what a restart may take back.                *)
(***************************************************************************)
Promise == INSTANCE Extraction WITH
  payload <- [i \in Files |-> Payload(archive, i)],
  file    <- current_index,
  open    <- InData

DeliversInOrder == Promise!Spec

(***************************************************************************)
(* With finitely many failures, the program gets to the end of the archive.*)
(***************************************************************************)
EventuallyEnds == <>(pc = "end")

(***************************************************************************)
(* What is left to be done: failures and recoveries that may still come,   *)
(* bytes to use up, bytes to receive, and turns and calls that do neither. *)
(* On an archive of a correct writer every step leaves less of it: no turn *)
(* of update, no call and no restart can be repeated for ever.             *)
(***************************************************************************)
Idling ==
  CASE pc = "idle"   -> 5
    [] pc = "update" -> IF buf_offset > 0 THEN 4 ELSE 2
    [] pc = "ok"     -> IF buf_offset > 0 THEN 3 ELSE 1
    [] OTHER         -> 0

ToDo ==
  << 2 * (MaxFaults - faults) + IF pc = "error" THEN 1 ELSE 0,
     StreamSize(archive) - Here,
     StreamSize(archive) - (taken + held),
     Idling >>

NearsTheEnd == [][ToDo' \in Seq(Nat) /\ Lower(ToDo', ToDo)]_vars

(***************************************************************************)
(* Nor can it get stuck: when update asks for more there is more.  A       *)
(* caller that has passed all of the archive is told of its end.           *)
(***************************************************************************)
MoreIsThere == pc = "ok" => taken + held < StreamSize(archive)
=============================================================================
