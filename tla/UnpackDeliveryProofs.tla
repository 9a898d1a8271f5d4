------------------------ MODULE UnpackDeliveryProofs ------------------------
(***************************************************************************)
(* What the callback was given, for every set of archives: the second half *)
(* of the inductive invariant, and that UnpackSession implements           *)
(* Extraction.                                                             *)
(***************************************************************************)
EXTENDS UnpackSessionProofs

(***************************************************************************)
(* PassedFilesDelivered is what matters.  It is not inductive alone: that  *)
(* a file is whole when its last byte was counted is DataInStep, and that  *)
(* a restart passes no file that was not delivered is CheckpointInStep.    *)
(***************************************************************************)
Delivered == DataInStep /\ CheckpointInStep /\ PassedFilesDelivered

\* Steps that deliver nothing, and move only where there is no data or at the
\* price of an error.
LEMMA Quiet ==
  ASSUME Delivered, UNCHANGED << archive, decoder_state, current_index, out, ckpt >>,
         \/ pc' = "error"
         \/ ~ InData
         \/ pc # "error" /\ UNCHANGED current_position
  PROVE  Delivered'
<1>1. DataInStep'
  BY DEF Delivered, DataInStep, InData
<1>2. CheckpointInStep' /\ PassedFilesDelivered'
  BY DEF Delivered, CheckpointInStep, PassedFilesDelivered, ShareHeader, InData, Files
<1> QED
  BY <1>1, <1>2 DEF Delivered

\* A step that adds to the current file only, and leaves it when it is whole,
\* passes no header whose data was not delivered.
LEMMA PassedKept ==
  ASSUME PassedFilesDelivered, UNCHANGED archive, archive.files \in Nat,
         current_index \in Files,
         \A i \in Files : i # current_index => out'[i] = out[i],
         \/ UNCHANGED current_index
         \/ /\ current_index' = current_index + 1
            /\ out'[current_index] = Payload(archive, current_index)
  PROVE  PassedFilesDelivered'
<1> SUFFICES ASSUME NEW i \in Files, i < current_index'
             PROVE  \E j \in Files :
                      /\ ShareHeader(i, j)
                      /\ \/ j = current_index'
                         \/ j < current_index' /\ out'[j] = Payload(archive, j)
  BY DEF PassedFilesDelivered, ShareHeader, Files
<1>1. CASE i = current_index
  BY <1>1 DEF ShareHeader, Files
<1>2. CASE i # current_index
  <2>1. i < current_index
    BY <1>2 DEF Files
  <2>2. PICK j \in Files :
          /\ ShareHeader(i, j)
          /\ j = current_index \/ (j < current_index /\ out[j] = Payload(archive, j))
    BY <2>1 DEF PassedFilesDelivered
  <2>3. CASE j = current_index
    BY <2>2, <2>3 DEF Files
  <2>4. CASE j # current_index
    <3>1. /\ j < current_index /\ out'[j] = Payload(archive, j)
          /\ j < current_index'
      BY <2>2, <2>4 DEF Files
    <3> QED
      BY <2>2, <3>1
  <2> QED
    BY <2>3, <2>4
<1> QED
  BY <1>1, <1>2

\* A header that was taken is the checkpoint, and its file starts empty.
LEMMA HeaderTaken ==
  ASSUME Located, Delivered, HeaderRead, HeaderDelivered, UNCHANGED archive,
         \/ UNCHANGED current_index
         \/ ~ HasData /\ current_index' = current_index + 1 /\ decoder_state' = FileHeader
  PROVE  CheckpointInStep' /\ PassedFilesDelivered'
<1>1. current_index \in Files /\ Here = HeaderStart(archive, current_index)
  BY HeaderHere DEF Located, HeaderRead
<1>2. out \in [Files -> Seq(Nat)] /\ archive.files \in Nat
  BY DEF Located, Placed, TypeOK, IsArchive, IsDisks
<1>3. CheckpointInStep'
  BY <1>1 DEF CheckpointInStep, HeaderDelivered, HeaderPosition, InData, FileHeader, Files
<1>4. /\ \A i \in Files : i # current_index => out'[i] = out[i]
      /\ out'[current_index] = << >>
  BY <1>1, <1>2 DEF HeaderDelivered
<1>5. ~ HasData => Payload(archive, current_index) = << >>
  BY <1>1 DEF Payload, HasData
<1>6. PassedFilesDelivered'
  BY <1>1, <1>2, <1>4, <1>5, PassedKept DEF Delivered
<1> QED
  BY <1>3, <1>6

\* What the data of a turn is, and what the callback has after it.
LEMMA DataTaken ==
  ASSUME Located, Delivered, AtData, NEW count \in PipelineCounts(BytesToRead)
  PROVE  /\ Here = DataStart(archive, current_index) + decoder_state.pos
         /\ DataStart(archive, current_index) \in Nat
         /\ out[current_index] \o Bytes(Here, count)
              = Bytes(DataStart(archive, current_index), decoder_state.pos + count)
         /\ Payload(archive, current_index)
              = Bytes(DataStart(archive, current_index), decoder_state.lfh.compressed_size)
<1>1. /\ current_index \in Files /\ decoder_state.pos \in Nat
      /\ count \in 0 .. Avail
  BY CountBounds DEF Located
<1>2. Avail \in Nat /\ Here \in Nat
  BY DEF Located, Placed, TypeOK, Avail, Here
<1>3. count \in Nat
  BY <1>1, <1>2
<1>4. /\ HeaderStart(archive, current_index) \in DOMAIN archive.lfh
      /\ decoder_state.lfh = archive.lfh[HeaderStart(archive, current_index)]
      /\ decoder_state.lfh.uncompressed_size # 0
      /\ Global(archive, current_position)
           = DataStart(archive, current_index) + decoder_state.pos
      /\ out[current_index] = Bytes(DataStart(archive, current_index), decoder_state.pos)
  BY DEF Delivered, DataInStep, AtData
<1>5. DataStart(archive, current_index) \in Nat
  <2>1. IsArchive(archive)
    BY DEF Located, Placed, TypeOK
  <2>2. decoder_state.lfh.header_size \in Nat
    BY CountBounds DEF Located, LocalFileHeader
  <2>3. HeaderStart(archive, current_index) \in Nat
    BY <1>1, <2>1, PlaceFacts DEF HeaderStart
  <2> QED
    BY <1>4, <2>2, <2>3 DEF DataStart
<1>6. Here = DataStart(archive, current_index) + decoder_state.pos
  BY <1>4 DEF Located, Placed, TypeOK, PositionInStep, AtData
<1>7. out[current_index] \o Bytes(Here, count)
        = Bytes(DataStart(archive, current_index), decoder_state.pos + count)
  BY <1>1, <1>3, <1>4, <1>5, <1>6, BytesConcat
<1>8. Payload(archive, current_index)
        = Bytes(DataStart(archive, current_index), decoder_state.lfh.compressed_size)
  BY <1>4 DEF Payload
<1> QED
  BY <1>5, <1>6, <1>7, <1>8

\* Headers that lie between two headers of one position are of that position.
LEMMA SortedBetween ==
  ASSUME IsArchive(archive), NEW i \in Files, NEW j \in Files, NEW k \in Files,
         ShareHeader(i, k), i <= j, j <= k
  PROVE  ShareHeader(i, j)
<1> DEFINE P(f) == archive.cd[f].position
<1>1. ASSUME NEW f \in Files PROVE P(f) \in [disk : Nat, offset : Nat]
  <2>1. archive.cd[f] \in CentralDirectoryFileHeader(archive.disks)
    BY DEF IsArchive, Files
  <2>2. P(f) \in [disk : 0 .. archive.disks - 1, offset : Nat]
    BY <2>1 DEF CentralDirectoryFileHeader
  <2> QED
    BY <2>2 DEF IsArchive, IsDisks
<1>2. \A f, g \in Files : f < g => ~ Before(P(g), P(f))
  BY DEF IsArchive, Files
<1>3. P(i) = P(k)
  BY DEF ShareHeader
<1>4. CASE i = j \/ j = k
  BY <1>3, <1>4 DEF ShareHeader
<1>5. CASE i < j /\ j < k
  <2>1. ~ Before(P(j), P(i)) /\ ~ Before(P(i), P(j))
    BY <1>2, <1>3, <1>5
  <2>2. P(i).disk = P(j).disk /\ P(i).offset = P(j).offset
    BY <1>1, <2>1 DEF Before
  <2>3. P(i) = P(j)
    BY <1>1, <2>2
  <2> QED
    BY <2>3 DEF ShareHeader
<1> QED
  BY <1>4, <1>5 DEF Files, IsArchive, IsDisks

\* A restart at the header of file i finds a file of that header.  What it
\* passes lies before all of those, or is one of them.
LEMMA PassedAtRestart ==
  ASSUME IsArchive(archive), PassedFilesDelivered, UNCHANGED << archive, out >>,
         NEW i \in Files, current_index = i \/ current_index = i + 1,
         NEW r \in Files, current_index' = r, ShareHeader(r, i)
  PROVE  PassedFilesDelivered'
<1>1. archive.files \in Nat
  BY DEF IsArchive
<1> SUFFICES ASSUME NEW k \in Files, k < r
             PROVE  \E j \in Files :
                      ShareHeader(k, j) /\ (j = r \/ (j < r /\ out[j] = Payload(archive, j)))
  BY DEF PassedFilesDelivered, ShareHeader, Files
<1>2. CASE ShareHeader(k, r)
  BY <1>2
<1>3. CASE ~ ShareHeader(k, r)
  <2>1. k < i
    <3> SUFFICES ASSUME i <= k PROVE FALSE
      BY <1>1 DEF Files
    <3>1. ShareHeader(i, k)
      BY <1>1, SortedBetween DEF ShareHeader, Files
    <3> QED
      BY <1>3, <3>1 DEF ShareHeader
  <2>2. k < current_index
    BY <1>1, <2>1 DEF Files
  <2>3. PICK j \in Files :
          /\ ShareHeader(k, j)
          /\ j = current_index \/ (j < current_index /\ out[j] = Payload(archive, j))
    BY <2>2 DEF PassedFilesDelivered
  <2>4. j < i
    <3> SUFFICES ASSUME i <= j PROVE FALSE
      BY <1>1 DEF Files
    <3>1. ShareHeader(k, i)
      BY <1>1, <2>1, <2>3, SortedBetween DEF Files
    <3> QED
      BY <1>3, <3>1 DEF ShareHeader
  <2>5. j < r
    <3> SUFFICES ASSUME r <= j PROVE FALSE
      BY <1>1 DEF Files
    <3>1. ShareHeader(k, r)
      BY <1>1, <2>3, SortedBetween DEF Files
    <3> QED
      BY <1>3, <3>1
  <2>6. out[j] = Payload(archive, j)
    BY <1>1, <2>3, <2>4 DEF Files
  <2> QED
    BY <2>3, <2>5, <2>6
<1> QED
  BY <1>2, <1>3

LEMMA DeliveredInit == Init => Delivered
<1> SUFFICES ASSUME Init PROVE Delivered
  OBVIOUS
<1>1. DataInStep /\ CheckpointInStep
  BY DEF Init, DataInStep, CheckpointInStep, InData, FileHeader
<1>2. PassedFilesDelivered
  BY DEF Init, PassedFilesDelivered, Files
<1> QED
  BY <1>1, <1>2 DEF Delivered

LEMMA DeliveredNext == Located /\ Located' /\ Delivered /\ [Next]_vars => Delivered'
<1> SUFFICES ASSUME Located, Located', Delivered, [Next]_vars PROVE Delivered'
  OBVIOUS
<1>1. CASE AllProcessed
  <2>1. ~ InData
    BY <1>1 DEF Delivered, DataInStep, AllProcessed, Located, Placed, TypeOK, IsArchive, IsDisks
  <2> QED
    BY <1>1, <2>1, Quiet DEF AllProcessed, config, decoder
<1>2. CASE Overshoot
  BY <1>2, Quiet DEF Overshoot, Err, config, decoder
<1>3. CASE Skip
  BY <1>3, Quiet DEF Skip, AtHeader, config, decoder
<1>4. CASE NeedMoreHeader
  BY <1>4, Quiet DEF NeedMoreHeader, OnHeader, AtHeader, config, decoder
<1>5. CASE InvalidSignature
  BY <1>5, Quiet DEF InvalidSignature, Err, config, decoder
<1>6. CASE HeaderCallbackFails
  BY <1>6, Quiet DEF HeaderCallbackFails, Err, config, decoder
<1>7. CASE HeaderRefused
  <2>1. CheckpointInStep' /\ PassedFilesDelivered'
    BY <1>7, HeaderTaken DEF HeaderRefused, config, decoder
  <2>2. DataInStep'
    BY <1>7 DEF HeaderRefused, Err, DataInStep
  <2> QED
    BY <2>1, <2>2 DEF Delivered
<1>8. CASE HeaderAccepted
  <2>1. CheckpointInStep' /\ PassedFilesDelivered'
    BY <1>8, HeaderTaken DEF HeaderAccepted, NextFile, config
  <2>2. /\ current_index \in Files /\ Here = HeaderStart(archive, current_index)
        /\ Here \in DOMAIN archive.lfh /\ OnHeader /\ pc = "update"
        /\ held \in Nat /\ buf_offset \in 0 .. held
    BY <1>8, HeaderHere DEF Located, HeaderAccepted, HeaderRead, Signed
  <2>3. DataInStep'
    <3> SUFFICES ASSUME pc' # "error", InData' PROVE DataInStep'
      BY DEF DataInStep
    <3>1. /\ HasData
          /\ decoder_state' = FileData(0, archive.lfh[Here])
          /\ current_index' = current_index /\ archive' = archive
      BY <1>8 DEF HeaderAccepted, NextFile, InData, FileHeader, config
    <3>2. out'[current_index] = << >>
      BY <1>8, <2>2 DEF HeaderAccepted, HeaderDelivered, Located, Placed, TypeOK
    <3>3. archive.lfh[Here] \in LocalFileHeader
      BY <2>2 DEF Located, Placed, TypeOK, IsArchive, IsDisks
    <3>4. DataStart(archive, current_index) \in Nat
      <4>1. archive.lfh[Here].header_size \in Nat /\ Here \in Nat
        BY <3>3 DEF LocalFileHeader, Located, Placed, TypeOK, Here
      <4> QED
        BY <2>2, <4>1 DEF DataStart
    <3>5. Here' = DataStart(archive, current_index)
      <4>1. archive.lfh[Here].header_size \in 0 .. Avail
        BY <1>8, <2>2, <3>3 DEF HeaderAccepted, HeaderRead, Parsed, LocalFileHeader, Avail
      <4>2. Here' = Here + archive.lfh[Here].header_size
        BY <1>8, <2>2, <4>1, AdvanceStep DEF HeaderAccepted, Located, Placed, config
      <4> QED
        BY <2>2, <4>2 DEF DataStart
    <3>6. Global(archive', current_position') = Here'
      BY DEF Located, Placed, PositionInStep, TypeOK
    <3>7. Bytes(DataStart(archive, current_index), 0) = << >>
      BY <3>4 DEF Bytes
    <3>8. decoder_state'.pos = 0 /\ decoder_state'.lfh = archive.lfh[Here]
      BY <3>1 DEF FileData
    <3>9. current_index < archive.files
      BY <2>2 DEF Files, Located, Placed, TypeOK, IsArchive, IsDisks
    <3>10. Global(archive', current_position')
             = DataStart(archive, current_index) + decoder_state'.pos
      BY <3>4, <3>5, <3>6, <3>8
    <3>11. out'[current_index] = Bytes(DataStart(archive, current_index), decoder_state'.pos)
      BY <3>2, <3>7, <3>8
    <3>12. decoder_state'.lfh.uncompressed_size # 0
      BY <3>1, <3>8 DEF HasData
    <3> QED
      BY <2>2, <3>1, <3>8, <3>9, <3>10, <3>11, <3>12 DEF DataInStep
  <2> QED
    BY <2>1, <2>3 DEF Delivered
<1>9. CASE ReadData
  <2>1. PICK count \in PipelineCounts(BytesToRead) :
          /\ out' = [out EXCEPT ![current_index] = @ \o Bytes(Here, count)]
          /\ IF count = BytesLeft
             THEN NextFile
             ELSE /\ decoder_state' = [decoder_state EXCEPT !.pos = @ + count]
                  /\ UNCHANGED current_index
          /\ Advance(count, FALSE)
    BY <1>9 DEF ReadData
  <2>2. AtData /\ InData /\ pc = "update" /\ UNCHANGED << archive, taken, held, ckpt >>
    BY <1>9 DEF ReadData, AtData, config
  <2>3. /\ current_index \in Files
        /\ decoder_state.lfh.compressed_size \in Nat /\ decoder_state.pos \in Nat
        /\ count \in 0 .. Avail /\ count \in 0 .. BytesLeft
        /\ [decoder_state EXCEPT !.pos = @ + count]
             = FileData(decoder_state.pos + count, decoder_state.lfh)
    BY <2>2, CountBounds DEF Located
  <2>4. archive.files \in Nat /\ out \in [Files -> Seq(Nat)] /\ current_index \in Nat
    <3>1. archive.files \in Nat /\ out \in [Files -> Seq(Nat)]
      BY DEF Located, Placed, TypeOK, IsArchive, IsDisks
    <3> QED
      BY <2>3, <3>1 DEF Files
  <2>5. /\ \A i \in Files : i # current_index => out'[i] = out[i]
        /\ out'[current_index]
             = Bytes(DataStart(archive, current_index), decoder_state.pos + count)
    BY <2>1, <2>2, <2>3, <2>4, DataTaken
  <2>6. ckpt = {archive.cd[current_index].position}
    BY <2>2 DEF Delivered, CheckpointInStep
  <2>7. CASE count = BytesLeft
    <3>1. decoder_state' = FileHeader /\ current_index' = current_index + 1
      BY <2>1, <2>7 DEF NextFile
    <3>2. ~ InData'
      BY <3>1 DEF InData, FileHeader
    <3>3. DataInStep' /\ CheckpointInStep'
      BY <2>2, <2>3, <2>6, <3>1, <3>2 DEF DataInStep, CheckpointInStep, Files
    <3>4. decoder_state.pos + count = decoder_state.lfh.compressed_size
      BY <2>3, <2>7 DEF BytesLeft
    <3>5. out'[current_index] = Payload(archive, current_index)
      BY <2>2, <2>5, <3>4, DataTaken
    <3>6. PassedFilesDelivered'
      BY <2>2, <2>3, <2>4, <2>5, <3>1, <3>5, PassedKept DEF Delivered
    <3> QED
      BY <3>3, <3>6 DEF Delivered
  <2>8. CASE count # BytesLeft
    <3>1. /\ decoder_state' = FileData(decoder_state.pos + count, decoder_state.lfh)
          /\ current_index' = current_index
      BY <2>1, <2>3, <2>8
    <3>2. /\ InData' /\ decoder_state'.lfh = decoder_state.lfh
          /\ decoder_state'.pos = decoder_state.pos + count
      BY <3>1 DEF InData, FileData
    <3>3. CheckpointInStep'
      BY <2>2, <2>3, <2>6, <3>1 DEF CheckpointInStep, Files
    <3>4. PassedFilesDelivered'
      BY <2>2, <2>3, <2>4, <2>5, <3>1, PassedKept DEF Delivered
    <3>5. DataInStep'
      <4> SUFFICES ASSUME pc' # "error" PROVE DataInStep'
        BY DEF DataInStep
      <4>1. Global(archive', current_position') = Here'
        BY DEF Located, Placed, PositionInStep, TypeOK
      <4>2. Here' = Here + count
        BY <2>1, <2>2, <2>3, <1>9, AdvanceStep DEF Located, Placed, ReadData
      <4>3. /\ Here = DataStart(archive, current_index) + decoder_state.pos
            /\ DataStart(archive, current_index) \in Nat
        BY <2>2, DataTaken
      <4>4. count \in Nat
        BY <2>3 DEF BytesLeft
      <4>5. Global(archive', current_position')
              = DataStart(archive, current_index) + decoder_state'.pos
        BY <2>3, <3>2, <4>1, <4>2, <4>3, <4>4
      <4>6. /\ current_index < archive.files
            /\ HeaderStart(archive, current_index) \in DOMAIN archive.lfh
            /\ decoder_state.lfh = archive.lfh[HeaderStart(archive, current_index)]
            /\ decoder_state.lfh.uncompressed_size # 0
        BY <2>2 DEF Delivered, DataInStep
      <4> QED
        BY <2>2, <2>5, <3>1, <3>2, <4>5, <4>6 DEF DataInStep
    <3> QED
      BY <3>3, <3>4, <3>5 DEF Delivered
  <2> QED
    BY <2>7, <2>8
<1>10. CASE DataCallbackFails
  <2>1. /\ UNCHANGED << archive, current_index, out, ckpt >>
        /\ InData /\ InData' /\ pc' = "error"
    BY <1>10, CountBounds DEF Located, DataCallbackFails, Err, AtData, InData, FileData, config
  <2>2. DataInStep' /\ CheckpointInStep' /\ PassedFilesDelivered'
    BY <2>1 DEF Delivered, DataInStep, CheckpointInStep, PassedFilesDelivered, ShareHeader,
                Files
  <2> QED
    BY <2>2 DEF Delivered
<1>11. CASE PipelineFails
  BY <1>11, Quiet DEF PipelineFails, Err, config, decoder
<1>12. CASE Receive
  BY <1>12, Quiet DEF Receive, Update, config, decoder
<1>13. ASSUME StartOver PROVE Delivered'
  <2>1. UNCHANGED << archive, out, ckpt >> /\ ~ InData'
    BY <1>13 DEF StartOver, New, Resume, InData, FileHeader, config
  <2>2. CASE ckpt = {}
    <3>1. current_index' = 0
      BY <1>13, <2>2 DEF StartOver, New
    <3> QED
      BY <2>1, <2>2, <3>1
         DEF Delivered, DataInStep, CheckpointInStep, PassedFilesDelivered, Files
  <2>3. CASE ckpt # {}
    <3>1. PICK i \in Files : /\ ckpt = {archive.cd[i].position}
                             /\ current_index = i \/ (current_index = i + 1 /\ ~ InData)
      BY <2>3 DEF Delivered, CheckpointInStep
    <3>2. PICK j \in Files : current_index' = j /\ archive.cd[j].position = archive.cd[i].position
      BY <1>13, <2>3, <3>1 DEF StartOver, Resume
    <3>3. CheckpointInStep'
      BY <2>1, <3>1, <3>2 DEF CheckpointInStep, Files
    <3>4. PassedFilesDelivered'
      BY <2>1, <3>1, <3>2, PassedAtRestart DEF Delivered, ShareHeader, Located, Placed, TypeOK
    <3> QED
      BY <2>1, <3>3, <3>4 DEF Delivered, DataInStep
  <2> QED
    BY <2>2, <2>3
<1>14. CASE Recover
  BY <1>13, <1>14 DEF Recover
<1>15. CASE Crash
  BY <1>13, <1>15 DEF Crash
<1>16. CASE UNCHANGED vars
  BY <1>16 DEF vars, Delivered, DataInStep, CheckpointInStep, PassedFilesDelivered,
               ShareHeader, InData, Files
<1> QED
  BY <1>1, <1>2, <1>3, <1>4, <1>5, <1>6, <1>7, <1>8, <1>9, <1>10, <1>11, <1>12,
     <1>14, <1>15, <1>16 DEF Next, UpdateInternal, Finished

(***************************************************************************)
(* What the callback has seen of the current file is exactly the data that *)
(* its header announces up to pos.                                         *)
(***************************************************************************)
THEOREM DataKept == Spec => []DataInStep
<1>1. Delivered => DataInStep
  BY DEF Delivered
<1> QED
  BY <1>1, LocatedInit, LocatedNext, DeliveredInit, DeliveredNext, PTL DEF Spec

(***************************************************************************)
(* A program that restarts at the checkpoint repeats at most one file.     *)
(***************************************************************************)
THEOREM CheckpointKept == Spec => []CheckpointInStep
<1>1. Delivered => CheckpointInStep
  BY DEF Delivered
<1> QED
  BY <1>1, LocatedInit, LocatedNext, DeliveredInit, DeliveredNext, PTL DEF Spec

(***************************************************************************)
(* Whatever fails, crashes and restarts, no local header is passed before  *)
(* all the bytes it announces, once and in order, were delivered: as the   *)
(* file that was passed, or as another file of the same header.            *)
(***************************************************************************)
THEOREM NothingLost == Spec => []PassedFilesDelivered
<1>1. Delivered => PassedFilesDelivered
  BY DEF Delivered
<1> QED
  BY <1>1, LocatedInit, LocatedNext, DeliveredInit, DeliveredNext, PTL DEF Spec

-----------------------------------------------------------------------------
(***************************************************************************)
(* The refinement: each step of the session is one of Extraction or        *)
(* changes nothing that Extraction sees.                                   *)
(***************************************************************************)
LEMMA Unseen ==
  ASSUME UNCHANGED << archive, current_index, out >>, InData' = InData
  PROVE  UNCHANGED Promise!vars
  BY DEF Promise!vars, Files

LEMMA PayloadOf ==
  /\ DOMAIN [i \in Files |-> Payload(archive, i)] = Files
  /\ \A j \in Files : [i \in Files |-> Payload(archive, i)][j] = Payload(archive, j)
  OBVIOUS

\* Taking a header is Begin: what follows is unreadable, empty, or data.
LEMMA HeaderIsBegin ==
  ASSUME Located, HeaderRead, HeaderDelivered, UNCHANGED archive,
         \/ UNCHANGED current_index /\ ~ InData'
         \/ UNCHANGED current_index /\ InData'
         \/ ~ HasData /\ current_index' = current_index + 1 /\ ~ InData'
  PROVE  Promise!Begin
<1>1. /\ current_index \in Files /\ Here = HeaderStart(archive, current_index)
      /\ ~ InData
  BY HeaderHere DEF Located, HeaderRead, OnHeader, AtHeader
<1>2. ~ HasData => Payload(archive, current_index) = << >>
  BY <1>1 DEF Payload, HasData
<1>3. InData \in BOOLEAN /\ InData' \in BOOLEAN
  BY DEF InData
<1>4. out' = [out EXCEPT ![current_index] = << >>] /\ Files' = Files
  BY DEF HeaderDelivered, Files
<1> QED
  BY <1>1, <1>2, <1>3, <1>4, PayloadOf DEF Promise!Begin, Promise!Pending

\* Reading data is Deliver, up to its last byte.
LEMMA DataIsDeliver ==
  ASSUME Located, Delivered, ReadData
  PROVE  Promise!Deliver
<1>1. PICK count \in PipelineCounts(BytesToRead) :
        /\ out' = [out EXCEPT ![current_index] = @ \o Bytes(Here, count)]
        /\ IF count = BytesLeft
           THEN NextFile
           ELSE /\ decoder_state' = [decoder_state EXCEPT !.pos = @ + count]
                /\ UNCHANGED current_index
  BY DEF ReadData
<1>2. AtData /\ InData /\ pc = "update" /\ UNCHANGED archive
  BY DEF ReadData, AtData, config
<1> DEFINE n == decoder_state.pos + count
           size == decoder_state.lfh.compressed_size
           start == DataStart(archive, current_index)
           payload == [i \in Files |-> Payload(archive, i)]
<1>3. /\ current_index \in Files
      /\ size \in Nat /\ decoder_state.pos \in Nat
      /\ count \in 0 .. BytesLeft /\ n \in 0 .. size
      /\ [decoder_state EXCEPT !.pos = @ + count] = FileData(n, decoder_state.lfh)
  BY <1>2, CountBounds DEF Located
<1>4. /\ start \in Nat
      /\ out[current_index] \o Bytes(Here, count) = Bytes(start, n)
      /\ payload[current_index] = Bytes(start, size)
  BY <1>2, <1>3, DataTaken, PayloadOf
<1>5. out[current_index] = Bytes(start, decoder_state.pos)
  BY <1>2 DEF Delivered, DataInStep
<1> HIDE DEF n, size, start, payload
<1>6. Len(payload[current_index]) = size /\ Len(out[current_index]) = decoder_state.pos
  BY <1>3, <1>4, <1>5, BytesSeq
<1>7. n \in Len(out[current_index]) .. Len(payload[current_index])
  BY <1>3, <1>6 DEF n, size, BytesLeft
<1>8. Promise!Prefix(payload[current_index], n) = Bytes(start, n)
  BY <1>3, <1>4 DEF Promise!Prefix, Bytes
<1>9. out' = [out EXCEPT ![current_index] = Promise!Prefix(payload[current_index], n)]
  BY <1>1, <1>4, <1>8
<1>10. n = Len(payload[current_index]) <=> count = BytesLeft
  BY <1>3, <1>6 DEF n, size, BytesLeft
<1>11. IF n = Len(payload[current_index])
       THEN current_index' = current_index + 1 /\ InData' = FALSE
       ELSE current_index' = current_index /\ InData' = InData
  BY <1>1, <1>2, <1>3, <1>10 DEF NextFile, InData, FileHeader, FileData
<1>12. payload' = payload /\ current_index \in DOMAIN payload
  BY <1>2, <1>3 DEF payload, Files
<1> QED
  BY <1>2, <1>7, <1>9, <1>11, <1>12 DEF Promise!Deliver, Promise!Pending, payload

LEMMA RestartIsStartOver ==
  ASSUME Located, Delivered, DistinctHeaders(archive), StartOver
  PROVE  Promise!StartOver
<1>1. UNCHANGED << archive, out >> /\ InData' = FALSE
  BY DEF StartOver, New, Resume, InData, FileHeader, config
<1>2. current_index' = current_index \/ (~ InData /\ current_index > 0 /\ current_index' = current_index - 1)
  <2>1. CASE ckpt = {}
    BY <2>1 DEF StartOver, New, Delivered, CheckpointInStep
  <2>2. CASE ckpt # {}
    <3>1. PICK i \in Files : /\ ckpt = {archive.cd[i].position}
                             /\ current_index = i \/ (current_index = i + 1 /\ ~ InData)
      BY <2>2 DEF Delivered, CheckpointInStep
    <3>2. current_index' = i
      BY <2>2, <3>1 DEF StartOver, Resume, DistinctHeaders, Files
    <3>3. i \in Nat
      BY DEF Files, Located, Placed, TypeOK, IsArchive, IsDisks
    <3> QED
      BY <3>1, <3>2, <3>3
  <2> QED
    BY <2>1, <2>2
<1> QED
  BY <1>1, <1>2 DEF Promise!StartOver, Files

LEMMA PromiseInit == Init => Promise!Init
  BY DEF Init, Promise!Init, InData, FileHeader

LEMMA PromiseNext ==
  Located /\ Delivered /\ DistinctHeaders(archive) /\ [Next]_vars
    => [Promise!Next]_(Promise!vars)
<1> SUFFICES ASSUME Located, Delivered, DistinctHeaders(archive), [Next]_vars
             PROVE  Promise!Next \/ UNCHANGED Promise!vars
  OBVIOUS
<1>1. CASE AllProcessed \/ Overshoot \/ Skip \/ NeedMoreHeader \/ InvalidSignature
           \/ HeaderCallbackFails \/ PipelineFails \/ Receive
  BY <1>1, Unseen
     DEF AllProcessed, Overshoot, Skip, NeedMoreHeader, InvalidSignature,
         HeaderCallbackFails, PipelineFails, Receive, Update, InData, config, decoder
<1>2. CASE HeaderRefused
  <2>1. ~ InData'
    BY <1>2 DEF HeaderRefused, HeaderRead, OnHeader, AtHeader, InData, decoder
  <2> QED
    BY <1>2, <2>1, HeaderIsBegin DEF HeaderRefused, config, decoder, Promise!Next
<1>3. CASE HeaderAccepted
  BY <1>3, HeaderIsBegin
     DEF HeaderAccepted, NextFile, InData, FileData, FileHeader, config, Promise!Next
<1>4. CASE ReadData
  BY <1>4, DataIsDeliver DEF Promise!Next
<1>5. CASE DataCallbackFails
  <2>1. InData' = InData
    BY <1>5, CountBounds DEF Located, DataCallbackFails, AtData, InData, FileData
  <2> QED
    BY <1>5, <2>1, Unseen DEF DataCallbackFails, config
<1>6. CASE Recover
  BY <1>6, RestartIsStartOver DEF Recover, Promise!Next
<1>7. CASE Crash
  BY <1>7, RestartIsStartOver DEF Crash, Promise!Next
<1>8. CASE UNCHANGED vars
  BY <1>8, Unseen DEF vars, InData
<1> QED
  BY <1>1, <1>2, <1>3, <1>4, <1>5, <1>6, <1>7, <1>8 DEF Next, UpdateInternal, Finished

(***************************************************************************)
(* The session implements Extraction on every archive whose files have     *)
(* headers of their own: files in the order of the directory, each without *)
(* gap or repeat, and a restart that takes back one file at most.          *)
(***************************************************************************)
THEOREM Implementation ==
  ASSUME \A a \in Archives : DistinctHeaders(a)
  PROVE  Spec => DeliversInOrder
<1> DEFINE Distinct == DistinctHeaders(archive)
<1>1. Init => Distinct
  BY DEF Init
<1>2. Distinct /\ Located /\ [Next]_vars => Distinct'
  <2> SUFFICES ASSUME [Next]_vars PROVE archive' = archive
    OBVIOUS
  <2> QED
    BY DEF Next, UpdateInternal, AllProcessed, Overshoot, Skip, NeedMoreHeader,
           InvalidSignature, HeaderCallbackFails, HeaderRefused, HeaderAccepted,
           ReadData, DataCallbackFails, PipelineFails, Receive, Update, Recover,
           Crash, StartOver, Finished, config, vars
<1>3. Init => Promise!Init
  BY PromiseInit
<1>4. Located /\ Delivered /\ Distinct /\ [Next]_vars => [Promise!Next]_(Promise!vars)
  BY PromiseNext
<1> HIDE DEF Distinct
<1> QED
  BY <1>1, <1>2, <1>3, <1>4, LocatedInit, LocatedNext, DeliveredInit, DeliveredNext, PTL
     DEF Spec, DeliversInOrder, Promise!Spec
=============================================================================
