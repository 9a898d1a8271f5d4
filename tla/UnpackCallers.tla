--------------------------- MODULE UnpackCallers ---------------------------
(***************************************************************************)
(* Callers that do not do all that the README asks of them.  One goes on   *)
(* with the same unpacker after update failed: it was not told how much of *)
(* its buffer was used up, and passes all of it again, and more.  The      *)
(* other is examples/multipart.rs: it passes each disk once, as a whole,   *)
(* and ignores how much of it update consumed.                             *)
(***************************************************************************)
EXTENDS UnpackSession

VARIABLES
  caller,   \* "persistent" or "multipart"
  drift,    \* how far the unpacker's position is ahead of the buffer
  spoilt,   \* what the caller did was not harmless
  passed,   \* multipart: how many disks it has passed
  lost      \* and: that it dropped bytes before the end was reported

cvars == << vars, caller, drift, spoilt, passed, lost >>

\* The pipeline has seen bytes that it will be given again.
DataFailed == error = "Pipeline" \/ (error = "FromDecodeCallback" /\ InData)

(***************************************************************************)
(* ExtraData leaves the position beyond its disk, where the code has no    *)
(* meaning for it; a caller that goes on even then is left out.            *)
(***************************************************************************)
CallAgain ==
  /\ caller = "persistent"
  /\ pc = "error" /\ error # "ExtraData"
  /\ \E k \in 0 .. StreamSize(archive) - taken - held : held' = held + k
  /\ pc' = "update" /\ error' = "none"
  /\ buf_offset' = 0
  /\ drift' = drift + buf_offset
  /\ spoilt' = (spoilt \/ buf_offset > 0 \/ DataFailed)
  /\ UNCHANGED << config, decoder, current_position, taken, out, ckpt, faults, caller, passed, lost >>

\* Also after a call that reported the end; an error is unwrapped and ends it.
PassDisk ==
  /\ caller = "multipart"
  /\ pc \in {"idle", "ok", "end"}
  /\ passed < archive.disks
  /\ pc' = "update"
  /\ taken' = taken + held
  /\ held' = archive.size[passed]
  /\ buf_offset' = 0
  /\ drift' = drift - (held - buf_offset)
  /\ spoilt' = (spoilt \/ drift' # 0)
  /\ passed' = passed + 1
  /\ lost' = (lost \/ (pc # "end" /\ Avail # 0))
  /\ UNCHANGED << config, decoder, current_position, error, out, ckpt, faults, caller >>

CallersInit ==
  /\ Init
  /\ caller \in {"persistent", "multipart"}
  /\ drift = 0 /\ spoilt = FALSE /\ passed = 0 /\ lost = FALSE

Call == UpdateInternal /\ UNCHANGED << caller, drift, spoilt, passed, lost >>

Again ==
  /\ caller = "persistent"
  /\ \/ Receive /\ UNCHANGED drift
     \/ (Recover \/ Crash) /\ drift' = 0
  /\ UNCHANGED << caller, spoilt, passed, lost >>

CallersSpec == CallersInit /\ [][Call \/ Again \/ CallAgain \/ PassDisk]_cvars

-----------------------------------------------------------------------------
(***************************************************************************)
(* The type invariant, of the unpacker in the hands of either caller.      *)
(***************************************************************************)
CallersTypeOK ==
  /\ TypeOK
  /\ drift \in Int /\ spoilt \in BOOLEAN /\ lost \in BOOLEAN
  /\ passed \in 0 .. archive.disks

(***************************************************************************)
(* A call that fails forgets how much it used up and what it saw, and      *)
(* nothing else: over any failures, calls after them and restarts the      *)
(* unpacker is ahead of its buffer by what the failing calls had used up   *)
(* since the last restart, and behind it by what was dropped.              *)
(***************************************************************************)
AheadByWhatWasLost ==
  error # "ExtraData" => Global(archive, current_position) = Here + drift

(***************************************************************************)
(* Calling update again is harmless when the call failed in its first turn *)
(* and not in a file's data: the callback that refused a header may be     *)
(* given it again, as may a password.  Passing whole disks is harmless as  *)
(* long as each is consumed.  No file is then passed undelivered, and the  *)
(* data are those of the header.                                           *)
(***************************************************************************)
HarmlessUntilSpoilt == spoilt \/ (PositionInStep /\ DataInStep /\ PassedFilesDelivered)

(***************************************************************************)
(* What update may leave of a disk: a local header of which it has too     *)
(* little, and the data that a decompressor which works on the disk itself *)
(* does not take.  Either goes on behind the disk.                         *)
(***************************************************************************)
HeaderCut ==
  /\ current_index < archive.files /\ ~ InData
  /\ Here = HeaderStart(archive, current_index)
  /\ Here + archive.lfh[Here].header_size > archive.base[passed]

DecompressorWaits ==
  /\ InData
  /\ decoder_state.lfh.compression_method = "Deflate" /\ decoder_state.lfh.encryption = "None"
  /\ Here + BytesLeft > archive.base[passed]

(***************************************************************************)
(* On an archive of a correct writer examples/multipart.rs, which ignores  *)
(* the count that update returns, loses nothing by it but in two cases: a  *)
(* call leaves bytes of a disk only when a header crosses its end, or when *)
(* the data of an unencrypted deflated file do.  As long as the example    *)
(* has not passed the next disk over such bytes, no call fails; and if it  *)
(* never does, every file is extracted, encrypted and deflated ones too.   *)
(***************************************************************************)
MultipartExtracts ==
  /\ caller = "multipart" /\ faults = 0 /\ password = "right" /\ Sane(archive)
  /\ ~ lost
  => /\ error = "none"
     /\ pc = "ok" /\ Avail # 0 => HeaderCut \/ DecompressorWaits
     /\ passed = archive.disks /\ pc # "update" =>
          \A i \in Files : out[i] = Content(archive, i)
=============================================================================
