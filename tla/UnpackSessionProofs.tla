------------------------ MODULE UnpackSessionProofs ------------------------
(***************************************************************************)
(* Proofs about UnpackSession for every set of archives, every way of      *)
(* cutting the stream into calls and any number of restarts.               *)
(***************************************************************************)
EXTENDS UnpackSession, StreamProofs

-----------------------------------------------------------------------------
(***************************************************************************)
(* The conversion to usize never makes a length longer.                    *)
(***************************************************************************)
LEMMA AsUsizeBound ==
  ASSUME NEW n \in Nat
  PROVE  AsUsize(n) \in Nat /\ AsUsize(n) <= n
<1>1. UsizeMod \in Nat \ {0}
  BY ParametersAssumption
<1>2. n % UsizeMod \in 0 .. UsizeMod - 1
  BY <1>1
<1>3. n = UsizeMod * (n \div UsizeMod) + (n % UsizeMod) /\ n \div UsizeMod \in Nat
  BY <1>1
<1>4. UsizeMod * (n \div UsizeMod) >= 0
  BY <1>1, <1>3
<1> QED
  BY <1>1, <1>2, <1>3, <1>4 DEF AsUsize

-----------------------------------------------------------------------------
Places == [disk : 0 .. archive.disks - 1, offset : Nat]

(***************************************************************************)
(* Every place has an offset in the stream, and every header a place.      *)
(***************************************************************************)
LEMMA PlaceFacts ==
  ASSUME IsArchive(archive)
  PROVE  /\ archive.disks \in Nat \ {0} /\ archive.files \in Nat
         /\ \A d \in 0 .. archive.disks - 1 :
               archive.size[d] \in Nat /\ archive.base[d] \in Nat
         /\ \A p \in Places : Global(archive, p) \in Nat
         /\ \A i \in Files : archive.cd[i].position \in Places
         /\ Places \subseteq Position
         /\ [disk |-> 0, offset |-> 0] \in Places
<1>1. archive.disks \in Nat \ {0} /\ archive.files \in Nat
  BY DEF IsArchive, IsDisks
<1>2. \A d \in 0 .. archive.disks - 1 : archive.size[d] \in Nat /\ archive.base[d] \in Nat
  <2>1. archive.size \in [0 .. archive.disks - 1 -> Nat]
    BY DEF IsArchive, IsDisks
  <2>2. archive.base \in [0 .. archive.disks -> Nat]
    BY DEF IsArchive, IsDisks
  <2>3. \A d \in 0 .. archive.disks - 1 : d \in 0 .. archive.disks
    BY <1>1
  <2> QED
    BY <2>1, <2>2, <2>3
<1>3. \A p \in Places : Global(archive, p) \in Nat
  BY <1>2 DEF Places, Global
<1>4. \A i \in Files : archive.cd[i].position \in Places
  <2>1. archive.cd \in [Files -> CentralDirectoryFileHeader(archive.disks)]
    BY DEF IsArchive, IsDisks, Files
  <2> QED
    BY <2>1 DEF CentralDirectoryFileHeader, Places
<1>5. Places \subseteq Position /\ [disk |-> 0, offset |-> 0] \in Places
  BY <1>1 DEF Places, Position
<1> QED
  BY <1>1, <1>2, <1>3, <1>4, <1>5

(***************************************************************************)
(* A turn that used up adv bytes of the slice and did not fail leaves the  *)
(* position adv bytes further in the stream, on a disk that holds it.      *)
(***************************************************************************)
LEMMA AdvanceStep ==
  ASSUME TypeOK, pc = "update",
         NEW adv \in 0 .. Avail, NEW end \in BOOLEAN,
         Advance(adv, end), UNCHANGED << config, taken, held >>
  PROVE  /\ current_position' \in Places
         /\ buf_offset' \in 0 .. held
         /\ Here' = Here + adv
         /\ \/ /\ pc' = AfterInternal(adv, end) /\ pc' \in {"update", "ok", "end"}
               /\ error' = "none"
               /\ Global(archive, current_position') = Global(archive, current_position) + adv
               /\ current_position'.offset <= archive.size[current_position'.disk]
            \/ pc' = "error" /\ error' = "ExtraData"
<1> DEFINE moved == [current_position EXCEPT !.offset = @ + adv]
           g == Global(archive, moved)
           left == moved.offset >= archive.size[moved.disk]
<1>1. /\ current_position \in Places
      /\ held \in Nat /\ buf_offset \in 0 .. held /\ taken \in Nat /\ adv \in Nat
      /\ error = "none"
      /\ IsArchive(archive)
  BY DEF TypeOK, Places, Avail
<1>2. /\ moved \in Places
      /\ moved.disk = current_position.disk
      /\ moved.offset = current_position.offset + adv
  BY <1>1 DEF Places
<1>3. g = Global(archive, current_position) + adv /\ g \in Nat
  <2>1. archive.base[current_position.disk] \in Nat
    BY <1>1 DEF IsArchive, IsDisks, Places
  <2> HIDE DEF moved
  <2> QED
    BY <1>1, <1>2, <2>1 DEF Global, Places
<1>4. buf_offset' = buf_offset + adv /\ buf_offset' \in 0 .. held /\ Here' = Here + adv
  BY <1>1 DEF Advance, Avail, Here
<1>5. AfterInternal(adv, end) \in {"update", "ok", "end"}
  BY DEF AfterInternal
<1>6. CASE /\ ~ left
           /\ current_position' = moved
           /\ pc' = AfterInternal(adv, end)
           /\ UNCHANGED error
  <2> HIDE DEF moved
  <2>1. moved.offset <= archive.size[moved.disk]
    <3>1. moved.offset \in Nat /\ archive.size[moved.disk] \in Nat
      BY <1>1, <1>2, PlaceFacts DEF Places
    <3> QED
      BY <1>6, <3>1
  <2> QED
    BY <1>1, <1>2, <1>3, <1>4, <1>5, <1>6, <2>1
<1>7. CASE /\ \E d \in LaterDisks :
                 /\ Holds(archive, d, g)
                 /\ current_position' = [disk |-> d, offset |-> g - archive.base[d]]
           /\ pc' = AfterInternal(adv, end)
           /\ UNCHANGED error
  <2> HIDE DEF moved, g
  <2>1. PICK d \in LaterDisks :
               /\ Holds(archive, d, g)
               /\ current_position' = [disk |-> d, offset |-> g - archive.base[d]]
    BY <1>7
  <2>2. d \in 0 .. archive.disks - 1 /\ archive.base[d] \in Nat /\ archive.size[d] \in Nat
    <3>1. d \in 0 .. archive.disks - 1
      BY <1>1, <2>1, PlaceFacts DEF LaterDisks, Places
    <3> QED
      BY <1>1, <3>1, PlaceFacts
  <2>3. g - archive.base[d] \in 0 .. archive.size[d]
    BY <1>3, <2>1, <2>2 DEF Holds
  <2>4. /\ current_position' \in Places
        /\ Global(archive, current_position') = g
        /\ current_position'.offset <= archive.size[current_position'.disk]
    BY <1>3, <2>1, <2>2, <2>3 DEF Places, Global
  <2> QED
    BY <1>1, <1>3, <1>4, <1>5, <1>7, <2>4
<1>8. CASE current_position' = moved /\ pc' = "error" /\ error' = "ExtraData"
  BY <1>2, <1>4, <1>8
<1> QED
  BY <1>6, <1>7, <1>8 DEF Advance

-----------------------------------------------------------------------------
(***************************************************************************)
(* The invariant of the types.  PositionOnDisk is part of it because       *)
(* without it a skip to the next disk might have a negative length.        *)
(***************************************************************************)
Placed == TypeOK /\ PositionOnDisk

Numbers == Here \in Nat /\ Global(archive, current_position) \in Nat

LEMMA PlacedNumbers == Placed => Numbers
<1> SUFFICES ASSUME Placed PROVE Numbers
  OBVIOUS
<1>1. IsArchive(archive) /\ current_position \in Places
  BY DEF Placed, TypeOK, Places
<1> QED
  BY <1>1, PlaceFacts DEF Placed, TypeOK, Here, Numbers

\* The position moves exactly as far as the slice does.
Steady ==
  error' # "ExtraData" =>
    Global(archive', current_position') - Here' = Global(archive, current_position) - Here

\* A turn that does not fail in update_internal leaves the unpacker placed.
LEMMA Advanced ==
  ASSUME Placed, pc = "update",
         NEW adv \in 0 .. Avail, NEW end \in BOOLEAN,
         Advance(adv, end), UNCHANGED << config, taken, held >>,
         DecoderStateOK', current_index' \in 0 .. archive.files,
         out' \in [Files -> Seq(Nat)], ckpt' \subseteq Position,
         faults' \in 0 .. MaxFaults
  PROVE  Placed' /\ Steady
<1>1. /\ current_position' \in Places
      /\ buf_offset' \in 0 .. held
      /\ Here' = Here + adv
      /\ \/ /\ pc' \in {"update", "ok", "end"}
            /\ error' = "none"
            /\ Global(archive, current_position') = Global(archive, current_position) + adv
            /\ current_position'.offset <= archive.size[current_position'.disk]
         \/ pc' = "error" /\ error' = "ExtraData"
  BY AdvanceStep DEF Placed
<1>2. /\ Global(archive, current_position) \in Nat /\ Here \in Nat /\ adv \in Nat
      /\ archive' = archive
  BY PlacedNumbers DEF Numbers, Placed, TypeOK, Avail, config
<1>3. TypeOK'
  BY <1>1 DEF Placed, TypeOK, config, Places, Files, Errors
<1>4. PositionOnDisk'
  BY <1>1, <1>2 DEF PositionOnDisk
<1>5. Steady
  BY <1>1, <1>2 DEF Steady
<1> QED
  BY <1>3, <1>4, <1>5 DEF Placed

\* Nor does one that fails.
LEMMA Failed ==
  ASSUME Placed, pc = "update", NEW kind \in Errors, Err(kind),
         UNCHANGED << config, current_index, taken, held >>,
         DecoderStateOK', InData' = InData,
         out' \in [Files -> Seq(Nat)], ckpt' \subseteq Position,
         faults' \in 0 .. MaxFaults
  PROVE  Placed' /\ Steady
<1>1. TypeOK'
  BY DEF Placed, TypeOK, config, Err, Errors, Files
<1>2. PositionOnDisk'
  <2>1. error # "ExtraData"
    BY DEF Placed, TypeOK
  <2> QED
    BY <2>1 DEF Placed, PositionOnDisk, Err, HeaderPosition, config
<1>3. Steady
  BY DEF Steady, Err, Here, config
<1> QED
  BY <1>1, <1>2, <1>3 DEF Placed

\* A header is looked for exactly where the directory says it is.
LEMMA HeaderHere ==
  ASSUME Placed, OnHeader
  PROVE  /\ pc = "update" /\ current_index \in Files
         /\ current_position = HeaderPosition
         /\ PositionInStep => Here = HeaderStart(archive, current_index)
         /\ held \in Nat /\ buf_offset \in 0 .. held
         /\ HeaderPosition \in Position
<1>1. current_index \in Files /\ IsArchive(archive) /\ current_position \in Places
  BY DEF Placed, TypeOK, OnHeader, AtHeader, Files, IsArchive, IsDisks, Places
<1>2. HeaderPosition \in Places
  BY <1>1, PlaceFacts DEF HeaderPosition
<1>3. current_position.disk = HeaderPosition.disk /\ current_position.offset = HeaderPosition.offset
  BY <1>1, <1>2 DEF OnHeader, Overshot, Before, Places
<1>4. current_position = HeaderPosition
  BY <1>1, <1>2, <1>3 DEF Places
<1>5. PositionInStep => Here = HeaderStart(archive, current_index)
  <2>1. error # "ExtraData"
    BY DEF Placed, TypeOK, OnHeader, AtHeader
  <2> QED
    BY <1>4, <2>1 DEF PositionInStep, HeaderStart, HeaderPosition
<1> QED
  BY <1>1, <1>2, <1>4, <1>5, PlaceFacts DEF Placed, TypeOK, OnHeader, AtHeader

\* The data that a turn takes is there, and belongs to the file.
LEMMA CountBounds ==
  ASSUME Placed, AtData, NEW count \in PipelineCounts(BytesToRead)
  PROVE  /\ current_index \in Files
         /\ decoder_state = FileData(decoder_state.pos, decoder_state.lfh)
         /\ decoder_state.lfh \in LocalFileHeader
         /\ decoder_state.lfh.compressed_size \in Nat /\ decoder_state.pos \in Nat
         /\ count \in 0 .. Avail /\ count \in 0 .. BytesLeft
         /\ [decoder_state EXCEPT !.pos = @ + count]
              = FileData(decoder_state.pos + count, decoder_state.lfh)
         /\ decoder_state.pos + count \in 0 .. decoder_state.lfh.compressed_size
<1>1. /\ decoder_state = FileData(decoder_state.pos, decoder_state.lfh)
      /\ decoder_state.lfh \in LocalFileHeader
      /\ decoder_state.pos \in 0 .. decoder_state.lfh.compressed_size
  BY DEF Placed, TypeOK, DecoderStateOK, AtData, InData, FileHeader
<1>2. decoder_state.lfh.compressed_size \in Nat
  BY <1>1 DEF LocalFileHeader
<1>3. BytesLeft \in Nat /\ decoder_state.pos \in Nat
  BY <1>1, <1>2 DEF BytesLeft
<1>4. Avail \in Nat
  BY DEF Placed, TypeOK, Avail
<1>5. BytesToRead \in 0 .. Avail /\ BytesToRead \in 0 .. BytesLeft
  BY <1>3, <1>4, AsUsizeBound DEF BytesToRead, Lesser
<1>6. count \in 0 .. BytesToRead
  BY <1>5 DEF PipelineCounts
<1>7. count \in 0 .. Avail /\ count \in 0 .. BytesLeft
  BY <1>3, <1>4, <1>5, <1>6
<1>8. [decoder_state EXCEPT !.pos = @ + count]
        = FileData(decoder_state.pos + count, decoder_state.lfh)
  BY <1>1 DEF FileData
<1>9. decoder_state.pos + count \in 0 .. decoder_state.lfh.compressed_size
  BY <1>2, <1>3, <1>7 DEF BytesLeft
<1>10. current_index \in Files
  BY DEF Placed, TypeOK, AtData, Files, IsArchive, IsDisks
<1> QED
  BY <1>1, <1>2, <1>3, <1>7, <1>8, <1>9, <1>10

\* A program that starts over starts at the place it then receives first.
LEMMA StartedOver ==
  ASSUME Placed, StartOver, faults' \in 0 .. MaxFaults
  PROVE  Placed' /\ Here' = Global(archive', current_position')
<1>1. /\ IsArchive(archive) /\ UNCHANGED << archive, password, out, ckpt >>
      /\ pc' = "idle" /\ error' = "none" /\ held' = 0 /\ buf_offset' = 0
      /\ taken' = Global(archive, current_position')
  BY DEF Placed, TypeOK, StartOver, config
<1>2. CASE New
  <2>1. /\ current_position' = [disk |-> 0, offset |-> 0]
        /\ current_position' \in Places
        /\ current_index' = 0 /\ current_index' \in 0 .. archive.files
        /\ decoder_state' = FileHeader
    BY <1>1, <1>2, PlaceFacts DEF New
  <2>2. taken' \in Nat /\ current_position'.offset <= archive.size[current_position'.disk]
    BY <1>1, <2>1, PlaceFacts
  <2>3. TypeOK'
    BY <1>1, <2>1, <2>2 DEF Placed, TypeOK, DecoderStateOK, Errors, Places, Files
  <2>4. Here' = Global(archive', current_position') /\ PositionOnDisk'
    BY <1>1, <2>1, <2>2 DEF PositionOnDisk, Here
  <2> QED
    BY <2>3, <2>4 DEF Placed
<1>3. CASE \E p \in ckpt : Resume(p)
  <2>1. PICK i \in Files : /\ current_index' = i
                           /\ current_position' = archive.cd[i].position
                           /\ decoder_state' = FileHeader
    BY <1>3 DEF Resume
  <2>2. /\ current_position' \in Places
        /\ current_index' \in 0 .. archive.files /\ current_index' < archive.files
    BY <1>1, <2>1, PlaceFacts DEF Files
  <2>3. taken' \in Nat
    BY <1>1, <2>2, PlaceFacts
  <2>4. TypeOK'
    BY <1>1, <2>1, <2>2, <2>3 DEF Placed, TypeOK, DecoderStateOK, Errors, Places, Files
  <2>5. Here' = Global(archive', current_position')
    BY <1>1, <2>3 DEF Here
  <2>6. PositionOnDisk'
    BY <1>1, <2>1, <2>2 DEF PositionOnDisk, HeaderPosition, InData, FileHeader
  <2> QED
    BY <2>4, <2>5, <2>6 DEF Placed
<1> QED
  BY <1>2, <1>3 DEF StartOver

LEMMA InACall == UpdateInternal => pc = "update"
  BY DEF UpdateInternal, AllProcessed, Overshoot, Skip, NeedMoreHeader, InvalidSignature,
         HeaderCallbackFails, HeaderRefused, HeaderAccepted, HeaderRead, OnHeader, AtHeader,
         ReadData, DataCallbackFails, PipelineFails, AtData

(***************************************************************************)
(* A turn of update leaves the unpacker placed and moves its position as   *)
(* far as the slice.                                                       *)
(***************************************************************************)
LEMMA TurnKeeps == Placed /\ UpdateInternal => Placed' /\ Steady
<1> SUFFICES ASSUME Placed, UpdateInternal PROVE Placed' /\ Steady
  OBVIOUS
<1>0. TypeOK
  BY DEF Placed
<1>1. CASE AllProcessed
  <2>1. 0 \in 0 .. Avail
    BY <1>0 DEF TypeOK, Avail
  <2> QED
    BY <1>0, <1>1, <2>1, Advanced DEF AllProcessed, TypeOK, DecoderStateOK, config, decoder
<1>2. CASE Overshoot
  BY <1>0, <1>2, Failed
     DEF Overshoot, AtHeader, InData, TypeOK, DecoderStateOK, config, decoder, Errors
<1>3. CASE Skip
  <2>1. pc = "update" /\ IsArchive(archive) /\ current_position \in Places
    BY <1>0, <1>3 DEF Skip, AtHeader, TypeOK, Places
  <2>2. current_index \in Files
    BY <1>0, <1>3 DEF Skip, AtHeader, TypeOK, Files, IsArchive, IsDisks
  <2>3. HeaderPosition \in Places /\ archive.size[current_position.disk] \in Nat
    BY <2>1, <2>2, PlaceFacts DEF HeaderPosition, Places
  <2>4. Gap \in Nat
    <3>1. CASE current_position.disk < HeaderPosition.disk
      <4>1. current_position # HeaderPosition
        BY <2>1, <2>3, <3>1 DEF Places
      <4>2. current_position.offset <= archive.size[current_position.disk]
        BY <1>0, <2>1, <4>1 DEF Placed, PositionOnDisk, TypeOK
      <4> QED
        BY <2>1, <2>3, <3>1, <4>2 DEF Gap, Places
    <3>2. CASE ~ (current_position.disk < HeaderPosition.disk)
      BY <1>3, <2>1, <2>3, <3>2 DEF Skip, Gap, Places
    <3> QED
      BY <3>1, <3>2
  <2>5. Lesser(Gap, Avail) \in 0 .. Avail
    BY <1>0, <2>4 DEF TypeOK, Avail, Lesser
  <2> QED
    BY <1>0, <1>3, <2>1, <2>5, Advanced DEF Skip, TypeOK, DecoderStateOK, config, decoder
<1>4. CASE NeedMoreHeader
  <2>1. 0 \in 0 .. Avail
    BY <1>0 DEF TypeOK, Avail
  <2> QED
    BY <1>0, <1>4, <2>1, HeaderHere, Advanced
       DEF NeedMoreHeader, TypeOK, DecoderStateOK, config, decoder
<1>5. CASE InvalidSignature
  BY <1>0, <1>5, Failed
     DEF InvalidSignature, OnHeader, AtHeader, InData, TypeOK, DecoderStateOK, config, decoder,
         Errors
<1>6. CASE HeaderCallbackFails
  <2>1. faults' \in 0 .. MaxFaults
    BY <1>0, <1>6, MaxFaultsAssumption DEF HeaderCallbackFails, Fault, TypeOK
  <2> QED
    BY <1>0, <1>6, <2>1, Failed
       DEF HeaderCallbackFails, HeaderRead, OnHeader, AtHeader, InData, TypeOK, DecoderStateOK,
           config, decoder, Errors
<1>7. ASSUME HeaderRead, HeaderDelivered
      PROVE  out' \in [Files -> Seq(Nat)] /\ ckpt' \subseteq Position
  BY <1>0, <1>7, HeaderHere, EmptySeq DEF HeaderRead, HeaderDelivered, TypeOK
<1>8. CASE HeaderRefused
  BY <1>0, <1>7, <1>8, Failed
     DEF HeaderRefused, HeaderRead, OnHeader, AtHeader, InData, TypeOK, DecoderStateOK, config,
         decoder, Errors
<1>9. CASE HeaderAccepted
  <2>1. /\ pc = "update" /\ current_index \in Files
        /\ held \in Nat /\ buf_offset \in 0 .. held
    BY <1>9, HeaderHere DEF HeaderAccepted, HeaderRead
  <2>2. archive.lfh[Here] \in LocalFileHeader /\ Avail >= archive.lfh[Here].header_size
    BY <1>0, <1>9 DEF HeaderAccepted, HeaderRead, Signed, Parsed, TypeOK, IsArchive, IsDisks
  <2>3. archive.lfh[Here].header_size \in 0 .. Avail
    BY <2>1, <2>2 DEF LocalFileHeader, Avail
  <2>4. current_index' \in 0 .. archive.files
    BY <1>0, <1>9, <2>1 DEF HeaderAccepted, NextFile, Files, TypeOK, IsArchive, IsDisks
  <2>5. DecoderStateOK'
    <3>1. archive.lfh[Here].compressed_size \in Nat
      BY <2>2 DEF LocalFileHeader
    <3> QED
      BY <1>9, <2>2, <3>1 DEF HeaderAccepted, NextFile, DecoderStateOK, FileData
  <2> QED
    BY <1>0, <1>7, <1>9, <2>1, <2>3, <2>4, <2>5, Advanced DEF HeaderAccepted, TypeOK, config
<1>10. CASE ReadData
  <2>1. PICK count \in PipelineCounts(BytesToRead) :
          /\ out' = [out EXCEPT ![current_index] = @ \o Bytes(Here, count)]
          /\ IF count = BytesLeft
             THEN NextFile
             ELSE /\ decoder_state' = [decoder_state EXCEPT !.pos = @ + count]
                  /\ UNCHANGED current_index
          /\ Advance(count, FALSE)
    BY <1>10 DEF ReadData
  <2>2. AtData
    BY <1>10 DEF ReadData
  <2>3. Here \in Nat
    BY <1>0 DEF TypeOK, Here
  <2>4. count \in Nat
    <3>1. count \in 0 .. Avail
      BY <2>2, CountBounds
    <3>2. Avail \in Nat
      BY <1>0 DEF TypeOK, Avail
    <3> QED
      BY <3>1, <3>2
  <2>5. Bytes(Here, count) \in Seq(Nat)
    BY <2>3, <2>4, BytesSeq
  <2>6. out' \in [Files -> Seq(Nat)]
    BY <1>0, <2>1, <2>2, <2>5, CountBounds, ConcatProperties DEF TypeOK
  <2>7. DecoderStateOK'
    BY <2>1, <2>2, CountBounds DEF DecoderStateOK, NextFile, FileData
  <2>8. current_index' \in 0 .. archive.files
    <3>1. current_index \in Files /\ archive.files \in Nat
      BY <1>0, <2>2, CountBounds DEF TypeOK, IsArchive, IsDisks
    <3>2. current_index' = current_index \/ current_index' = current_index + 1
      BY <2>1 DEF NextFile
    <3> QED
      BY <3>1, <3>2 DEF Files
  <2> QED
    BY <1>0, <1>10, <2>1, <2>2, <2>6, <2>7, <2>8, CountBounds, Advanced
       DEF ReadData, AtData, TypeOK, config
<1>11. CASE DataCallbackFails
  <2>1. DecoderStateOK' /\ InData' = InData
    BY <1>11, CountBounds DEF DataCallbackFails, DecoderStateOK, AtData, InData, FileData
  <2>2. faults' \in 0 .. MaxFaults
    BY <1>0, <1>11, MaxFaultsAssumption DEF DataCallbackFails, Fault, TypeOK
  <2> QED
    BY <1>0, <1>11, <2>1, <2>2, Failed DEF DataCallbackFails, AtData, TypeOK, config, Errors
<1>12. CASE PipelineFails
  <2>1. faults' \in 0 .. MaxFaults
    BY <1>0, <1>12, MaxFaultsAssumption DEF PipelineFails, Fault, TypeOK
  <2> QED
    BY <1>0, <1>12, <2>1, Failed
       DEF PipelineFails, AtData, InData, TypeOK, DecoderStateOK, config, decoder, Errors
<1> QED
  BY <1>1, <1>2, <1>3, <1>4, <1>5, <1>6, <1>8, <1>9, <1>10, <1>11, <1>12 DEF UpdateInternal

\* The next call starts where the last one ended.
LEMMA Received ==
  ASSUME Placed, Receive
  PROVE  Placed' /\ Here' = Here
<1>1. PICK k \in 0 .. StreamSize(archive) - taken - held : Update(k)
  BY DEF Receive
<1>2. k \in Nat
  OBVIOUS
<1>3. /\ held' = held - buf_offset + k /\ held' \in Nat
      /\ taken' = taken + buf_offset /\ taken' \in Nat
      /\ buf_offset' = 0 /\ pc' = "update" /\ error = "none"
  BY <1>1, <1>2 DEF Update, Placed, TypeOK
<1>4. TypeOK'
  BY <1>1, <1>3 DEF Update, Placed, TypeOK, DecoderStateOK, config, decoder, Files
<1>5. Here' = Here
  BY <1>3 DEF Here, Placed, TypeOK
<1>6. PositionOnDisk'
  BY <1>1 DEF Placed, Update, PositionOnDisk, HeaderPosition, InData, config, decoder
<1> QED
  BY <1>4, <1>5, <1>6 DEF Placed

-----------------------------------------------------------------------------
(***************************************************************************)
(* The first half of the inductive invariant of Spec: where the unpacker   *)
(* is.                                                                     *)
(***************************************************************************)
Located == Placed /\ PositionInStep

LEMMA LocatedInit == Init => Located
<1> SUFFICES ASSUME Init PROVE Located
  OBVIOUS
<1>1. IsArchive(archive)
  BY ArchivesAssumption DEF Init
<1>2. current_position \in Places /\ current_position = [disk |-> 0, offset |-> 0]
  BY <1>1, PlaceFacts DEF Init
<1>3. archive.files \in Nat /\ archive.size[0] \in Nat /\ archive.base[0] = 0
  <2>1. 0 \in 0 .. archive.disks - 1
    BY <1>1, PlaceFacts
  <2> QED
    BY <1>1, <2>1, PlaceFacts DEF IsArchive, IsDisks
<1>4. Global(archive, current_position) = 0
  BY <1>2, <1>3 DEF Global
<1>5. TypeOK
  BY <1>1, <1>2, <1>3, MaxFaultsAssumption, EmptySeq
     DEF Init, TypeOK, DecoderStateOK, Errors, Places, Files
<1>6. PositionInStep /\ PositionOnDisk
  BY <1>2, <1>3, <1>4 DEF Init, PositionInStep, PositionOnDisk, Here
<1> QED
  BY <1>5, <1>6 DEF Located, Placed

LEMMA LocatedNext == Located /\ [Next]_vars => Located'
<1> SUFFICES ASSUME Located, [Next]_vars PROVE Located'
  OBVIOUS
<1>0. Placed /\ PositionInStep /\ TypeOK
  BY DEF Located, Placed
<1>1. CASE UpdateInternal
  <2>1. Placed' /\ Steady
    BY <1>0, <1>1, TurnKeeps
  <2>2. error = "none" /\ Here \in Nat
    BY <1>0, <1>1, InACall, PlacedNumbers DEF TypeOK, Numbers
  <2>3. Global(archive, current_position) = Here
    BY <1>0, <2>2 DEF PositionInStep
  <2>4. ASSUME error' # "ExtraData" PROVE Global(archive', current_position') = Here'
    <3>1. Numbers'
      BY <2>1, PlacedNumbers, PTL
    <3> QED
      BY <2>1, <2>2, <2>3, <2>4, <3>1 DEF Steady, Numbers
  <2> QED
    BY <2>1, <2>4 DEF Located, PositionInStep
<1>2. CASE Receive
  <2>1. Placed' /\ Here' = Here
    BY <1>0, <1>2, Received
  <2>2. UNCHANGED << archive, current_position, error >>
    BY <1>2 DEF Receive, Update, config
  <2> QED
    BY <1>0, <2>1, <2>2 DEF Located, PositionInStep
<1>3. CASE Recover
  BY <1>0, <1>3, StartedOver DEF Recover, TypeOK, Located, PositionInStep
<1>4. CASE Crash
  <2>1. faults' \in 0 .. MaxFaults
    BY <1>0, <1>4, MaxFaultsAssumption DEF Crash, Fault, TypeOK
  <2> QED
    BY <1>0, <1>4, <2>1, StartedOver DEF Crash, Located, PositionInStep
<1>5. CASE UNCHANGED vars
  BY <1>0, <1>5 DEF vars, Located, Placed, TypeOK, DecoderStateOK, PositionInStep,
                    PositionOnDisk, Here, HeaderPosition, InData, Files
<1> QED
  BY <1>1, <1>2, <1>3, <1>4, <1>5 DEF Next, Finished

(***************************************************************************)
(* In every behaviour every variable has its type, whatever the archive,   *)
(* and the position update keeps is the place of the next byte it gets.    *)
(***************************************************************************)
THEOREM TypeCorrect == Spec => []TypeOK
<1>1. Located => TypeOK
  BY DEF Located, Placed
<1> QED
  BY <1>1, LocatedInit, LocatedNext, PTL DEF Spec

(***************************************************************************)
(* However the stream is cut into calls, split over disks or resumed, the  *)
(* position of the unpacker is that of the next byte of its buffer.        *)
(***************************************************************************)
THEOREM PositionKept == Spec => []PositionInStep
<1>1. Located => PositionInStep
  BY DEF Located
<1> QED
  BY <1>1, LocatedInit, LocatedNext, PTL DEF Spec

(***************************************************************************)
(* The unsigned subtraction of a skip to the next disk never wraps.        *)
(***************************************************************************)
THEOREM NeverBeyondDisk == Spec => []PositionOnDisk
<1>1. Located => PositionOnDisk
  BY DEF Located, Placed
<1> QED
  BY <1>1, LocatedInit, LocatedNext, PTL DEF Spec
=============================================================================
