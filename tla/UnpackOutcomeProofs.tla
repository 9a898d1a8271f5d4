------------------------- MODULE UnpackOutcomeProofs -------------------------
(***************************************************************************)
(* What the outcome of a call of update tells its caller, proved for every *)
(* set of archives.  On archives of a correct writer: that an error is a   *)
(* failure of a callback or of the data, that a call which asks for more   *)
(* has too little, and that the end means that all content was delivered.  *)
(* On any archive: what becomes of a caller that goes on after an error.   *)
(***************************************************************************)
EXTENDS UnpackCallers, UnpackDeliveryProofs

-----------------------------------------------------------------------------
(***************************************************************************)
(* Archives of a correct writer.                                           *)
(***************************************************************************)
LEMMA InsideStream ==
  ASSUME IsArchive(archive), NEW p \in Places, p.offset < archive.size[p.disk]
  PROVE  Global(archive, p) < StreamSize(archive)
<1>1. /\ IsDisks(archive) /\ archive.disks \in Nat /\ archive.disks \in 0 .. archive.disks
      /\ p.disk \in 0 .. archive.disks - 1 /\ p.offset \in Nat
      /\ p.disk + 1 \in 0 .. archive.disks /\ archive.disks \in p.disk + 1 .. archive.disks
  BY DEF IsArchive, IsDisks, Places
<1>2. /\ archive.base[p.disk] \in Nat /\ archive.size[p.disk] \in Nat
      /\ archive.base[p.disk + 1] = archive.base[p.disk] + archive.size[p.disk]
  BY <1>1, DiskFacts
<1>3. archive.base[p.disk + 1] <= StreamSize(archive)
  BY <1>1, BaseGrows DEF StreamSize
<1>4. StreamSize(archive) \in Nat
  BY <1>1, DiskFacts
<1> QED
  BY <1>1, <1>2, <1>3, <1>4 DEF Global

\* Of one of its files.
LEMMA SaneFile ==
  ASSUME IsArchive(archive), Sane(archive), NEW i \in Files
  PROVE  LET l == archive.lfh[HeaderStart(archive, i)]
         IN /\ archive.cd[i].position \in Places
            /\ archive.cd[i].position.offset < archive.size[archive.cd[i].position.disk]
            /\ HeaderStart(archive, i) \in DOMAIN archive.lfh
            /\ HeaderStart(archive, i) \in Nat /\ HeaderStart(archive, i) < StreamSize(archive)
            /\ l \in LocalFileHeader /\ l.wellformed /\ l.compression_method # "Unknown"
            /\ l.header_size \in Nat \ {0} /\ l.header_size >= LFH_MIN
            /\ l.compressed_size \in Nat /\ l.compressed_size = archive.cd[i].content
            /\ l.compressed_size = 0 <=> l.uncompressed_size = 0
            /\ DataStart(archive, i) = HeaderStart(archive, i) + l.header_size
            /\ DataStart(archive, i) + l.compressed_size < StreamSize(archive)
            /\ i + 1 \in Files =>
                 DataStart(archive, i) + l.compressed_size <= HeaderStart(archive, i + 1)
<1> DEFINE H(f) == HeaderStart(archive, f)
           l == archive.lfh[H(i)]
           P(f) == archive.cd[f].position
<1>1. archive.files \in Nat
  BY DEF IsArchive
<1>2. ASSUME NEW f \in Files
      PROVE  /\ P(f) \in Places /\ P(f).offset < archive.size[P(f).disk]
             /\ H(f) \in Nat /\ H(f) < StreamSize(archive)
  <2>1. P(f) \in Places /\ H(f) \in Nat
    BY PlaceFacts DEF HeaderStart
  <2>2. P(f).offset < archive.size[P(f).disk]
    BY DEF Sane, Files
  <2> QED
    BY <2>1, <2>2, InsideStream DEF HeaderStart
<1>3. /\ H(i) \in DOMAIN archive.lfh
      /\ l.wellformed /\ l.compression_method # "Unknown"
      /\ l.compressed_size = archive.cd[i].content
      /\ l.compressed_size = 0 <=> l.uncompressed_size = 0
      /\ DataStart(archive, i) + l.compressed_size
           <= IF i + 1 < archive.files THEN H(i + 1) ELSE archive.base[archive.disks] - 1
  BY DEF Sane, Files
<1>4. l \in LocalFileHeader /\ l.header_size >= LFH_MIN
  BY <1>3 DEF IsArchive
<1>5. l.header_size \in Nat \ {0} /\ l.compressed_size \in Nat
  BY <1>4, ParametersAssumption DEF LocalFileHeader
<1>6. DataStart(archive, i) = H(i) + l.header_size
  BY DEF DataStart
<1>7. StreamSize(archive) \in Nat
  BY DEF IsArchive, IsDisks, StreamSize
<1> HIDE DEF l
<1>8. /\ DataStart(archive, i) + l.compressed_size < StreamSize(archive)
      /\ i + 1 \in Files => DataStart(archive, i) + l.compressed_size <= H(i + 1)
  <2>1. CASE i + 1 < archive.files
    <3>1. i + 1 \in Files
      BY <1>1, <2>1 DEF Files
    <3>2. H(i + 1) \in Nat /\ H(i + 1) < StreamSize(archive)
      BY <3>1, <1>2
    <3> QED
      BY <1>2, <1>3, <1>5, <1>6, <1>7, <2>1, <3>2
  <2>2. CASE ~ (i + 1 < archive.files)
    <3>1. i + 1 \notin Files
      BY <1>1, <2>2 DEF Files
    <3>2. DataStart(archive, i) + l.compressed_size <= StreamSize(archive) - 1
      BY <1>3, <2>2 DEF StreamSize
    <3> QED
      BY <1>2, <1>5, <1>6, <1>7, <3>1, <3>2
  <2> QED
    BY <2>1, <2>2
<1> QED
  BY <1>2, <1>3, <1>4, <1>5, <1>6, <1>8 DEF l

LEMMA SaneDistinct ==
  ASSUME IsArchive(archive), Sane(archive)
  PROVE  DistinctHeaders(archive)
<1>1. archive.files \in Nat
  BY DEF IsArchive
<1>2. ASSUME NEW i \in Files, NEW j \in Files, i < j, ShareHeader(i, j) PROVE FALSE
  <2>1. i + 1 \in Files /\ i <= i + 1 /\ i + 1 <= j
    BY <1>1, <1>2 DEF Files
  <2>2. ShareHeader(i, i + 1)
    BY <1>2, <2>1, SortedBetween
  <2>3. HeaderStart(archive, i + 1) = HeaderStart(archive, i)
    BY <2>2 DEF ShareHeader, HeaderStart
  <2> QED
    BY <2>1, <2>3, SaneFile
<1> SUFFICES ASSUME NEW i \in Files, NEW j \in Files, ShareHeader(i, j) PROVE i = j
  BY DEF DistinctHeaders, ShareHeader, Files
<1>3. ~ (i < j)
  BY <1>2
<1>4. ~ (j < i)
  BY <1>2 DEF ShareHeader
<1> QED
  BY <1>1, <1>3, <1>4 DEF Files

LEMMA SanePayload ==
  ASSUME IsArchive(archive), Sane(archive), NEW i \in Files
  PROVE  Payload(archive, i) = Content(archive, i)
<1> DEFINE l == archive.lfh[HeaderStart(archive, i)]
<1>1. /\ HeaderStart(archive, i) \in DOMAIN archive.lfh
      /\ l.compressed_size = archive.cd[i].content
      /\ l.compressed_size = 0 <=> l.uncompressed_size = 0
  BY SaneFile
<1>2. CASE l.uncompressed_size # 0
  BY <1>1, <1>2 DEF Payload, Content
<1>3. CASE l.uncompressed_size = 0
  <2>1. Content(archive, i) = Bytes(DataStart(archive, i), 0)
    BY <1>1, <1>3 DEF Content
  <2>2. Payload(archive, i) = << >>
    BY <1>3 DEF Payload
  <2> QED
    BY <2>1, <2>2 DEF Bytes
<1> QED
  BY <1>2, <1>3

-----------------------------------------------------------------------------
(***************************************************************************)
(* What keeps the errors away.  The position is on its disk, with a byte   *)
(* there to be read: so a header is found on the disk that the directory   *)
(* names, and a turn that uses up nothing does not leave the disk.  It is  *)
(* not beyond the header that is looked for: so there is no overshoot, and *)
(* whatever is skipped or read ends inside the stream, on some disk.       *)
(***************************************************************************)
Inside == current_position.offset < archive.size[current_position.disk]

HeaderAhead ==
  ~ InData /\ current_index < archive.files =>
    Global(archive, current_position) <= HeaderStart(archive, current_index)

\* A file is left with its last byte.
DataLeft == pc # "error" /\ InData => decoder_state.pos < decoder_state.lfh.compressed_size

EndAfterLast == pc = "end" => current_index = archive.files

Unfailing ==
  /\ Sane(archive) /\ password = "right"
  /\ OnlyFaultsFail
  /\ Inside
  /\ HeaderAhead
  /\ DataLeft
  /\ EndAfterLast

\* A turn that ends inside the stream does not fail.
LEMMA AdvancedInside ==
  ASSUME Located, Unfailing, pc = "update",
         NEW adv \in 0 .. Avail, NEW end \in BOOLEAN,
         Advance(adv, end), UNCHANGED << config, taken, held >>,
         Global(archive, current_position) + adv < StreamSize(archive)
  PROVE  /\ error' = "none" /\ pc' = AfterInternal(adv, end)
         /\ Inside'
         /\ Global(archive', current_position') = Global(archive, current_position) + adv
         /\ adv = 0 => current_position' = current_position /\ buf_offset' = buf_offset
<1> DEFINE moved == [current_position EXCEPT !.offset = @ + adv]
           g == Global(archive, moved)
           d == current_position.disk
<1>1. /\ IsArchive(archive) /\ IsDisks(archive) /\ current_position \in Places
      /\ d \in 0 .. archive.disks - 1
      /\ current_position.offset \in Nat /\ adv \in Nat /\ buf_offset \in Nat
      /\ current_position.offset < archive.size[d] /\ archive.size[d] \in Nat
      /\ archive.base[d] \in Nat
      /\ error = "none" /\ archive' = archive
  BY PlaceFacts DEF Located, Placed, TypeOK, IsArchive, Places, Avail, Unfailing, Inside, config
<1>2. /\ moved.disk = d /\ moved.offset = current_position.offset + adv
      /\ adv = 0 => moved = current_position
  BY <1>1 DEF Places
<1>3. g = Global(archive, current_position) + adv /\ g \in Nat
  <2> HIDE DEF moved
  <2> QED
    BY <1>1, <1>2 DEF Global
<1>4. buf_offset' = buf_offset + adv
  BY DEF Advance
<1> HIDE DEF moved, g
<1>5. CASE moved.offset < archive.size[d]
  <2>1. current_position' = moved /\ pc' = AfterInternal(adv, end) /\ error' = error
    BY <1>1, <1>2, <1>5 DEF Advance, moved
  <2> QED
    BY <1>1, <1>2, <1>3, <1>4, <1>5, <2>1 DEF Inside, g
<1>6. CASE ~ (moved.offset < archive.size[d])
  <2>1. archive.base[d] + archive.size[d] <= g
    BY <1>1, <1>2, <1>6 DEF g, Global
  <2>2. \E e \in LaterDisks : Holds(archive, e, g)
    BY <1>1, <1>3, <2>1, HeldByLater DEF LaterDisks
  <2>3. PICK e \in LaterDisks :
          /\ Holds(archive, e, g)
          /\ current_position' = [disk |-> e, offset |-> g - archive.base[e]]
          /\ pc' = AfterInternal(adv, end) /\ error' = error
    BY <1>1, <1>2, <1>6, <2>2 DEF Advance, moved, g
  <2>4. /\ archive.base[e] \in Nat /\ archive.size[e] \in Nat
    <3>1. e \in 0 .. archive.disks - 1
      BY <1>1 DEF LaterDisks, IsDisks
    <3> QED
      BY <1>1, <3>1, DiskFacts
  <2>5. Inside' /\ Global(archive', current_position') = g
    BY <1>1, <1>3, <2>3, <2>4 DEF Inside, Holds, Global
  <2>6. adv # 0
    BY <1>1, <1>2, <1>6
  <2> QED
    BY <1>1, <1>3, <2>3, <2>5, <2>6
<1> QED
  BY <1>5, <1>6

\* Where a skip ends.
LEMMA SkipEnds ==
  ASSUME Located, Unfailing, Skip
  PROVE  /\ Gap \in Nat \ {0}
         /\ Global(archive, current_position) + Gap <= HeaderStart(archive, current_index)
         /\ HeaderStart(archive, current_index) \in Nat
         /\ HeaderStart(archive, current_index) < StreamSize(archive)
<1> DEFINE p == current_position
           h == HeaderPosition
<1>1. /\ pc = "update" /\ current_index \in Files /\ ~ Overshot
      /\ \/ p.disk < h.disk
         \/ p.offset < h.offset
      /\ IsArchive(archive) /\ p \in Places
  BY DEF Skip, AtHeader, Located, Placed, TypeOK, Files, IsArchive, Places
<1>2. /\ IsDisks(archive) /\ h \in Places
      /\ HeaderStart(archive, current_index) = Global(archive, h)
      /\ HeaderStart(archive, current_index) \in Nat
      /\ HeaderStart(archive, current_index) < StreamSize(archive)
  BY <1>1, SaneFile DEF IsArchive, HeaderPosition, HeaderStart, Unfailing
<1>3. /\ p.disk \in 0 .. archive.disks - 1 /\ p.offset \in Nat
      /\ h.disk \in 0 .. archive.disks - 1 /\ h.offset \in Nat
  BY <1>1, <1>2 DEF Places
<1>4. /\ archive.size[p.disk] \in Nat /\ archive.base[p.disk] \in Nat /\ archive.base[h.disk] \in Nat
      /\ archive.base[p.disk + 1] = archive.base[p.disk] + archive.size[p.disk]
  BY <1>2, <1>3, DiskFacts
<1>5. p.offset < archive.size[p.disk]
  BY DEF Unfailing, Inside
<1>6. CASE p.disk < h.disk
  <2>1. archive.base[p.disk + 1] <= archive.base[h.disk]
    <3>1. p.disk + 1 \in 0 .. archive.disks /\ h.disk \in p.disk + 1 .. archive.disks
      BY <1>2, <1>3, <1>6 DEF IsDisks
    <3> QED
      BY <1>2, <3>1, BaseGrows
  <2>2. Gap = archive.size[p.disk] - p.offset
    BY <1>6 DEF Gap
  <2>3. Gap \in Nat \ {0} /\ Global(archive, p) + Gap <= Global(archive, h)
    BY <1>3, <1>4, <1>5, <2>1, <2>2 DEF Global
  <2> QED
    BY <1>2, <2>3
<1>7. CASE ~ (p.disk < h.disk)
  <2>1. p.disk = h.disk /\ p.offset < h.offset
    BY <1>1, <1>3, <1>7 DEF Overshot, Before
  <2>2. Gap = h.offset - p.offset
    BY <1>7 DEF Gap
  <2>3. Gap \in Nat \ {0} /\ Global(archive, p) + Gap <= Global(archive, h)
    BY <1>3, <1>4, <2>1, <2>2 DEF Global
  <2> QED
    BY <1>2, <2>3
<1> QED
  BY <1>6, <1>7

\* Where the header that is read ends.
LEMMA HeaderEnds ==
  ASSUME Located, Unfailing, OnHeader
  PROVE  /\ Signed /\ archive.lfh[Here].wellformed /\ Supported
         /\ current_index \in Files /\ pc = "update" /\ ~ InData
         /\ current_position = HeaderPosition
         /\ archive.lfh[Here] \in LocalFileHeader
         /\ archive.lfh[Here].header_size \in Nat \ {0}
         /\ archive.lfh[Here].header_size >= LFH_MIN
         /\ archive.lfh[Here].compressed_size \in Nat
         /\ archive.lfh[Here].compressed_size = 0 <=> ~ HasData
         /\ LET g == Global(archive, current_position) + archive.lfh[Here].header_size
            IN /\ g = DataStart(archive, current_index) /\ g \in Nat
               /\ g + archive.lfh[Here].compressed_size < StreamSize(archive)
               /\ current_index + 1 \in Files =>
                    g + archive.lfh[Here].compressed_size <= HeaderStart(archive, current_index + 1)
<1>1. /\ current_index \in Files /\ pc = "update" /\ ~ InData
      /\ Here = HeaderStart(archive, current_index) /\ current_position = HeaderPosition
  BY HeaderHere DEF Located, OnHeader, AtHeader
<1>2. Global(archive, current_position) = HeaderStart(archive, current_index)
  BY <1>1 DEF HeaderStart, HeaderPosition
<1>3. IsArchive(archive) /\ Sane(archive)
  BY DEF Located, Placed, TypeOK, Unfailing
<1> QED
  BY <1>1, <1>2, <1>3, SaneFile DEF Signed, Supported, HasData

\* A header that is looked for was not passed.
LEMMA NoOvershoot ==
  ASSUME Located, Unfailing, AtHeader
  PROVE  ~ Overshot
<1>1. /\ IsArchive(archive) /\ IsDisks(archive) /\ current_index \in Files
      /\ current_position \in Places /\ current_index < archive.files /\ ~ InData
  BY DEF Located, Placed, TypeOK, Places, AtHeader, Files, IsArchive
<1>2. /\ HeaderPosition \in Places
      /\ HeaderPosition.offset < archive.size[HeaderPosition.disk]
      /\ HeaderStart(archive, current_index) = Global(archive, HeaderPosition)
      /\ HeaderStart(archive, current_index) \in Nat
  BY <1>1, SaneFile DEF HeaderPosition, HeaderStart, Unfailing
<1>3. /\ Global(archive, current_position) <= HeaderStart(archive, current_index)
      /\ Global(archive, current_position) \in Nat
  BY <1>1, PlaceFacts DEF Unfailing, HeaderAhead
<1> SUFFICES ASSUME Overshot PROVE FALSE
  OBVIOUS
<1>4. Global(archive, HeaderPosition) < Global(archive, current_position)
  BY <1>1, <1>2, OrderOfStream DEF Overshot, Places
<1> QED
  BY <1>2, <1>3, <1>4

\* The next file, if there is one, begins after this one.
LEMMA NextAhead ==
  ASSUME IsArchive(archive), UNCHANGED archive, current_index \in Files,
         current_index' = current_index + 1, NEW g \in Nat,
         Global(archive', current_position') = g,
         current_index + 1 \in Files => g <= HeaderStart(archive, current_index + 1)
  PROVE  HeaderAhead'
<1>1. archive.files \in Nat
  BY DEF IsArchive
<1> QED
  BY <1>1 DEF HeaderAhead, Files

LEMMA UnfailingNext ==
  Located /\ Located' /\ Delivered /\ Unfailing /\ [Next]_vars => Unfailing'
<1> SUFFICES ASSUME Located, Located', Delivered, Unfailing, [Next]_vars PROVE Unfailing'
  OBVIOUS
<1>0. /\ IsArchive(archive) /\ Sane(archive) /\ password = "right"
      /\ error \in {"none", "FromDecodeCallback", "Pipeline"}
      /\ TypeOK /\ Placed
  BY DEF Located, Placed, TypeOK, Unfailing, OnlyFaultsFail
<1>a. Avail \in Nat /\ 0 \in 0 .. Avail
  BY <1>0 DEF TypeOK, Avail
<1>b. StreamSize(archive) \in Nat
  BY <1>0 DEF IsArchive, IsDisks, StreamSize
\* A turn in which a callback or the data fail.
<1>1. ASSUME NEW kind \in {"FromDecodeCallback", "Pipeline"}, Err(kind),
             UNCHANGED << config, current_index >>, InData' = InData
      PROVE  Unfailing'
  BY <1>1 DEF Unfailing, OnlyFaultsFail, Inside, HeaderAhead, DataLeft, EndAfterLast, Err, config
<1>2. CASE AllProcessed
  <2>1. /\ pc = "update" /\ 0 \in 0 .. Avail /\ TRUE \in BOOLEAN /\ Advance(0, TRUE)
        /\ UNCHANGED << config, decoder, taken, held >>
    BY <1>a, <1>2 DEF AllProcessed
  <2>2. Global(archive, current_position) + 0 < StreamSize(archive)
    <3>1. current_position \in Places
      BY <1>0 DEF TypeOK, Places
    <3> QED
      BY <1>0, <3>1, InsideStream, PlaceFacts DEF Unfailing, Inside
  <2>3. error' = "none" /\ pc' = "end" /\ Inside' /\ current_position' = current_position
    BY <2>1, <2>2, AdvancedInside DEF AfterInternal
  <2>4. current_index = archive.files
    BY <1>0, <1>2 DEF AllProcessed, TypeOK, IsArchive
  <2>5. ~ InData
    BY <1>0, <1>2 DEF Delivered, DataInStep, AllProcessed, TypeOK, IsArchive
  <2> QED
    BY <1>0, <2>1, <2>3, <2>4, <2>5
       DEF Unfailing, OnlyFaultsFail, HeaderAhead, DataLeft, EndAfterLast, InData, config, decoder
<1>3. CASE Overshoot
  BY <1>3, NoOvershoot DEF Overshoot
<1>4. CASE Skip
  <2> DEFINE adv == Lesser(Gap, Avail)
             g == Global(archive, current_position)
  <2>1. /\ pc = "update" /\ ~ InData /\ Advance(adv, FALSE) /\ FALSE \in BOOLEAN
        /\ UNCHANGED << config, decoder, taken, held >>
    BY <1>4 DEF Skip, AtHeader
  <2>2. /\ Gap \in Nat /\ g + Gap <= HeaderStart(archive, current_index)
        /\ HeaderStart(archive, current_index) \in Nat
        /\ HeaderStart(archive, current_index) < StreamSize(archive)
        /\ Avail \in Nat /\ g \in Nat /\ StreamSize(archive) \in Nat
    BY <1>0, <1>a, <1>b, <1>4, SkipEnds, PlacedNumbers DEF Numbers
  <2>3. adv \in 0 .. Avail /\ adv <= Gap
    BY <2>2 DEF Lesser
  <2> HIDE DEF adv, g
  <2>4. g + adv <= HeaderStart(archive, current_index) /\ g + adv < StreamSize(archive)
    BY <2>2, <2>3
  <2>5. /\ error' = "none" /\ pc' \in {"ok", "update"} /\ Inside'
        /\ Global(archive', current_position') = g + adv
    BY <2>1, <2>3, <2>4, AdvancedInside DEF AfterInternal, g
  <2> QED
    BY <1>0, <2>1, <2>4, <2>5
       DEF Unfailing, OnlyFaultsFail, HeaderAhead, DataLeft, EndAfterLast, InData, config, decoder
<1>5. CASE NeedMoreHeader
  <2>1. /\ pc = "update" /\ ~ InData /\ Advance(0, FALSE) /\ FALSE \in BOOLEAN /\ 0 \in 0 .. Avail
        /\ UNCHANGED << config, decoder, taken, held >>
    BY <1>a, <1>5 DEF NeedMoreHeader, OnHeader, AtHeader
  <2>2. Global(archive, current_position) + 0 < StreamSize(archive)
    <3>1. current_position \in Places
      BY <1>0 DEF TypeOK, Places
    <3> QED
      BY <1>0, <3>1, InsideStream, PlaceFacts DEF Unfailing, Inside
  <2>3. error' = "none" /\ pc' = "ok" /\ Inside' /\ current_position' = current_position
    BY <2>1, <2>2, AdvancedInside DEF AfterInternal
  <2> QED
    BY <1>0, <2>1, <2>3
       DEF Unfailing, OnlyFaultsFail, HeaderAhead, DataLeft, EndAfterLast, InData, config, decoder
<1>6. CASE InvalidSignature
  BY <1>6, HeaderEnds DEF InvalidSignature
<1>7. CASE HeaderCallbackFails
  BY <1>1, <1>7 DEF HeaderCallbackFails, InData, decoder
<1>8. CASE HeaderRefused
  BY <1>0, <1>8, HeaderEnds DEF HeaderRefused, HeaderRead
<1>9. CASE HeaderAccepted
  <2> DEFINE l == archive.lfh[Here]
             g == Global(archive, current_position)
  <2>1. OnHeader /\ Avail >= l.header_size
    BY <1>9 DEF HeaderAccepted, HeaderRead, Parsed
  <2>2. /\ current_index \in Files /\ pc = "update"
        /\ l.header_size \in Nat \ {0} /\ l.compressed_size \in Nat
        /\ l.compressed_size = 0 <=> ~ HasData
        /\ g + l.header_size \in Nat
        /\ g + l.header_size + l.compressed_size < StreamSize(archive)
        /\ current_index + 1 \in Files =>
             g + l.header_size + l.compressed_size <= HeaderStart(archive, current_index + 1)
    BY <2>1, HeaderEnds
  <2>3. /\ Advance(l.header_size, FALSE) /\ FALSE \in BOOLEAN
        /\ UNCHANGED << config, taken, held >>
        /\ \/ HasData /\ decoder_state' = FileData(0, l) /\ UNCHANGED current_index
           \/ ~ HasData /\ decoder_state' = FileHeader /\ current_index' = current_index + 1
    BY <1>9 DEF HeaderAccepted, NextFile
  <2> HIDE DEF l, g
  <2>4. l.header_size \in 0 .. Avail /\ StreamSize(archive) \in Nat
    BY <1>a, <1>b, <2>1, <2>2
  <2>5. g + l.header_size < StreamSize(archive)
    BY <2>2, <2>4
  <2>6. /\ error' = "none" /\ pc' \in {"ok", "update"} /\ Inside'
        /\ Global(archive', current_position') = g + l.header_size
    BY <2>2, <2>3, <2>4, <2>5, AdvancedInside DEF AfterInternal, g
  <2>7. HeaderAhead' /\ DataLeft'
    <3>1. CASE HasData /\ decoder_state' = FileData(0, l)
      <4>1. InData' /\ decoder_state'.pos = 0 /\ decoder_state'.lfh = l
        BY <3>1 DEF InData, FileData
      <4> QED
        BY <2>2, <3>1, <4>1 DEF HeaderAhead, DataLeft
    <3>2. CASE ~ HasData /\ decoder_state' = FileHeader /\ current_index' = current_index + 1
      <4>1. l.compressed_size = 0 /\ ~ InData'
        BY <2>2, <3>2 DEF InData, FileHeader
      <4>2. HeaderAhead'
        BY <1>0, <2>2, <2>3, <2>6, <3>2, <4>1, NextAhead DEF config
      <4> QED
        BY <4>1, <4>2 DEF DataLeft
    <3> QED
      BY <2>3, <3>1, <3>2
  <2> QED
    BY <1>0, <2>3, <2>6, <2>7 DEF Unfailing, OnlyFaultsFail, EndAfterLast, config
<1>10. CASE ReadData
  <2>1. PICK count \in PipelineCounts(BytesToRead) :
          /\ IF count = BytesLeft
             THEN NextFile
             ELSE /\ decoder_state' = [decoder_state EXCEPT !.pos = @ + count]
                  /\ UNCHANGED current_index
          /\ Advance(count, FALSE)
    BY <1>10 DEF ReadData
  <2> DEFINE l == decoder_state.lfh
             pos == decoder_state.pos
             g == Global(archive, current_position)
             start == DataStart(archive, current_index)
  <2>2. AtData /\ InData /\ pc = "update" /\ UNCHANGED << config, taken, held >>
    BY <1>10 DEF ReadData, AtData
  <2>3. /\ current_index \in Files
        /\ l.compressed_size \in Nat /\ pos \in Nat
        /\ count \in 0 .. Avail /\ count \in 0 .. BytesLeft
        /\ [decoder_state EXCEPT !.pos = @ + count] = FileData(pos + count, l)
        /\ pos + count \in 0 .. l.compressed_size
    BY <1>0, <2>2, CountBounds
  <2>4. l = archive.lfh[HeaderStart(archive, current_index)] /\ g = start + pos
    BY <1>0, <2>2 DEF Delivered, DataInStep
  <2>5. /\ start + l.compressed_size < StreamSize(archive)
        /\ start \in Nat
        /\ current_index + 1 \in Files =>
             start + l.compressed_size <= HeaderStart(archive, current_index + 1)
    BY <1>0, <2>3, <2>4, SaneFile
  <2>6. StreamSize(archive) \in Nat /\ FALSE \in BOOLEAN /\ count \in Nat
    BY <1>a, <1>b, <2>3
  <2> HIDE DEF l, pos, g, start
  <2>7. g + count < StreamSize(archive)
    BY <2>3, <2>4, <2>5, <2>6
  <2>8. /\ error' = "none" /\ pc' \in {"ok", "update"} /\ Inside'
        /\ Global(archive', current_position') = g + count
    BY <2>1, <2>2, <2>3, <2>7, AdvancedInside DEF AfterInternal, g
  <2>9. HeaderAhead' /\ DataLeft'
    <3>1. CASE count = BytesLeft
      <4>1. pos + count = l.compressed_size
        BY <2>3, <2>6, <3>1 DEF BytesLeft, l, pos
      <4>2. decoder_state' = FileHeader /\ current_index' = current_index + 1 /\ ~ InData'
        BY <2>1, <3>1 DEF NextFile, InData, FileHeader
      <4>3. g + count \in Nat /\ g + count = start + l.compressed_size
        BY <2>3, <2>4, <2>5, <2>6, <4>1
      <4>4. HeaderAhead'
        BY <1>0, <2>2, <2>3, <2>5, <2>8, <4>2, <4>3, NextAhead DEF config
      <4> QED
        BY <4>2, <4>4 DEF DataLeft
    <3>2. CASE count # BytesLeft
      <4>1. decoder_state' = FileData(pos + count, l)
        BY <2>1, <2>3, <3>2
      <4>2. InData' /\ decoder_state'.pos = pos + count /\ decoder_state'.lfh = l
        BY <4>1 DEF InData, FileData
      <4>3. pos + count < l.compressed_size
        BY <2>3, <2>6, <3>2 DEF BytesLeft, l, pos
      <4> QED
        BY <4>2, <4>3 DEF HeaderAhead, DataLeft
    <3> QED
      BY <3>1, <3>2
  <2> QED
    BY <1>0, <2>2, <2>8, <2>9 DEF Unfailing, OnlyFaultsFail, EndAfterLast, config
<1>11. CASE DataCallbackFails
  <2>1. InData' = InData
    BY <1>0, <1>11, CountBounds DEF DataCallbackFails, AtData, InData, FileData
  <2> QED
    BY <1>1, <1>11, <2>1 DEF DataCallbackFails
<1>12. CASE PipelineFails
  BY <1>1, <1>12 DEF PipelineFails, InData, decoder
<1>13. CASE Receive
  BY <1>13 DEF Receive, Update, Unfailing, OnlyFaultsFail, Inside, HeaderAhead, DataLeft,
               EndAfterLast, InData, config, decoder
<1>14. ASSUME StartOver PROVE Unfailing'
  <2>1. /\ error' = "none" /\ pc' = "idle" /\ UNCHANGED config /\ ~ InData'
        /\ archive.files \in Nat
    BY <1>0, <1>14 DEF StartOver, New, Resume, InData, FileHeader, IsArchive
  <2>2. Inside' /\ HeaderAhead'
    <3>1. CASE New
      <4>1. current_position' = [disk |-> 0, offset |-> 0] /\ current_index' = 0
        BY <3>1 DEF New
      <4>2. /\ archive.size[0] \in Nat /\ archive.size[0] # 0
            /\ Global(archive, [disk |-> 0, offset |-> 0]) = 0
        <5>1. 0 \in 0 .. archive.disks - 1 /\ archive.base[0] = 0
          BY <1>0 DEF IsArchive, IsDisks
        <5> QED
          BY <1>0, <5>1, PlaceFacts DEF Sane, Global
      <4>3. ASSUME 0 < archive.files PROVE 0 <= HeaderStart(archive, 0)
        <5>1. 0 \in Files
          BY <2>1, <4>3 DEF Files
        <5>2. HeaderStart(archive, 0) \in Nat
          BY <1>0, <5>1, SaneFile
        <5> QED
          BY <5>2
      <4> QED
        BY <2>1, <4>1, <4>2, <4>3 DEF Inside, HeaderAhead, config
    <3>2. CASE \E p \in ckpt : Resume(p)
      <4>1. PICK i \in Files : /\ current_index' = i
                               /\ current_position' = archive.cd[i].position
        BY <3>2 DEF Resume
      <4>2. /\ archive.cd[i].position.offset < archive.size[archive.cd[i].position.disk]
            /\ HeaderStart(archive, i) \in Nat
        BY <1>0, SaneFile
      <4> QED
        BY <2>1, <4>1, <4>2 DEF Inside, HeaderAhead, HeaderStart, config
    <3> QED
      BY <1>14, <3>1, <3>2 DEF StartOver
  <2> QED
    BY <1>0, <2>1, <2>2 DEF Unfailing, OnlyFaultsFail, DataLeft, EndAfterLast, config
<1>15. CASE Recover
  BY <1>14, <1>15 DEF Recover
<1>16. CASE Crash
  BY <1>14, <1>16 DEF Crash
<1>17. CASE UNCHANGED vars
  BY <1>17 DEF vars, Unfailing, OnlyFaultsFail, Inside, HeaderAhead, DataLeft, EndAfterLast, InData
<1> QED
  BY <1>2, <1>3, <1>4, <1>5, <1>6, <1>7, <1>8, <1>9, <1>10, <1>11, <1>12, <1>13, <1>15, <1>16,
     <1>17 DEF Next, UpdateInternal, Finished

LEMMA UnfailingInit ==
  ASSUME Init, Sane(archive), password = "right"
  PROVE  Unfailing
<1>1. IsArchive(archive)
  BY ArchivesAssumption DEF Init
<1>2. /\ archive.size[0] \in Nat /\ archive.size[0] # 0 /\ archive.base[0] = 0
      /\ archive.files \in Nat
  <2>1. 0 \in 0 .. archive.disks - 1
    BY <1>1 DEF IsArchive, IsDisks
  <2> QED
    BY <1>1, <2>1, PlaceFacts DEF Sane, IsArchive, IsDisks
<1>3. Inside
  BY <1>2 DEF Init, Inside
<1>4. HeaderAhead
  <2> SUFFICES ASSUME current_index < archive.files
               PROVE  Global(archive, current_position) <= HeaderStart(archive, current_index)
    BY DEF HeaderAhead
  <2>1. current_index \in Files /\ Global(archive, current_position) = 0
    BY <1>2 DEF Init, Files, Global
  <2>2. HeaderStart(archive, current_index) \in Nat
    BY <1>1, <2>1, SaneFile
  <2> QED
    BY <2>1, <2>2
<1> QED
  BY <1>3, <1>4 DEF Init, Unfailing, OnlyFaultsFail, DataLeft, EndAfterLast, InData, FileHeader

(***************************************************************************)
(* On an archive of a correct writer, with the right password, update      *)
(* fails only when a callback or the data does, however the stream is cut  *)
(* into calls and disks and wherever it is resumed.                        *)
(***************************************************************************)
THEOREM NoSpuriousErrors ==
  ASSUME \A a \in Archives : Sane(a), Passwords = {"right"}
  PROVE  Spec => []OnlyFaultsFail
<1>1. Init => Unfailing
  BY UnfailingInit DEF Init
<1>2. Unfailing => OnlyFaultsFail
  BY DEF Unfailing
<1> QED
  BY <1>1, <1>2, LocatedInit, LocatedNext, DeliveredInit, DeliveredNext, UnfailingNext, PTL
     DEF Spec

\* The end leaves no file behind: the last one passed is the last of the directory.
LEMMA EndDelivers == Located /\ Delivered /\ Unfailing => EndMeansAllContent
<1> SUFFICES ASSUME Located, Delivered, Unfailing, pc = "end", NEW i \in Files
             PROVE  out[i] = Content(archive, i)
  BY DEF EndMeansAllContent
<1>1. IsArchive(archive) /\ Sane(archive) /\ archive.files \in Nat
  BY DEF Located, Placed, TypeOK, Unfailing, IsArchive
<1>2. current_index = archive.files
  BY DEF Unfailing, EndAfterLast
<1>3. PICK j \in Files :
        /\ ShareHeader(i, j)
        /\ j = current_index \/ (j < current_index /\ out[j] = Payload(archive, j))
  BY <1>1, <1>2 DEF Delivered, PassedFilesDelivered, Files
<1>4. i = j
  BY <1>1, <1>3, SaneDistinct DEF DistinctHeaders, ShareHeader, Files
<1>5. out[i] = Payload(archive, i)
  BY <1>1, <1>2, <1>3, <1>4 DEF Files
<1> QED
  BY <1>1, <1>5, SanePayload

(***************************************************************************)
(* When update reports the end of such an archive, every file of the       *)
(* directory was delivered with the content that the directory gives it.   *)
(***************************************************************************)
THEOREM EndIsAll ==
  ASSUME \A a \in Archives : Sane(a), Passwords = {"right"}
  PROVE  Spec => []EndMeansAllContent
<1>1. Init => Unfailing
  BY UnfailingInit DEF Init
<1> QED
  BY <1>1, EndDelivers, LocatedInit, LocatedNext, DeliveredInit, DeliveredNext, UnfailingNext, PTL
     DEF Spec

-----------------------------------------------------------------------------
(***************************************************************************)
(* A turn that uses up nothing and does not fail leaves everything that    *)
(* the next one would look at.                                             *)
(***************************************************************************)
\* No file is larger than what usize can count.
Fits(a) == \A g \in DOMAIN a.lfh : a.lfh[g].compressed_size < UsizeMod

LEMMA UsizeFits ==
  ASSUME NEW n \in Nat, n < UsizeMod
  PROVE  AsUsize(n) = n
  BY ParametersAssumption DEF AsUsize

\* A turn that asks for more.
LEMMA Asked ==
  ASSUME Located, Unfailing, pc = "update", NEW adv \in 0 .. Avail, Advance(adv, FALSE),
         UNCHANGED << config, taken, held >>,
         Global(archive, current_position) + adv < StreamSize(archive), pc' = "ok"
  PROVE  /\ adv = 0
         /\ UNCHANGED << archive, current_position, buf_offset, taken, held >>
         /\ Avail' = Avail /\ Here' = Here
<1>1. pc' = AfterInternal(adv, FALSE)
  BY AdvancedInside
<1>2. adv = 0
  BY <1>1 DEF AfterInternal
<1>3. current_position' = current_position /\ buf_offset' = buf_offset
  BY <1>2, AdvancedInside
<1> QED
  BY <1>2, <1>3 DEF config, Avail, Here

LEMMA StarvedNext ==
  Located /\ Located' /\ Delivered /\ Unfailing /\ Fits(archive) /\ MoreMeansStarved /\ [Next]_vars
    => MoreMeansStarved'
<1> SUFFICES ASSUME Located, Located', Delivered, Unfailing, Fits(archive), MoreMeansStarved,
                    [Next]_vars, pc' = "ok", current_index' < archive'.files
             PROVE  Avail' < Wanted'
  BY DEF MoreMeansStarved
<1>0. IsArchive(archive) /\ Sane(archive) /\ TypeOK /\ Placed
  BY DEF Located, Placed, TypeOK, Unfailing
<1>a. Avail \in Nat /\ 0 \in 0 .. Avail
  BY <1>0 DEF TypeOK, Avail
<1>b. StreamSize(archive) \in Nat /\ Global(archive, current_position) \in Nat
  BY <1>0, PlacedNumbers DEF Numbers, IsArchive, IsDisks, StreamSize
<1>c. Global(archive, current_position) < StreamSize(archive)
  <2>1. current_position \in Places
    BY <1>0 DEF TypeOK, Places
  <2> QED
    BY <1>0, <2>1, InsideStream DEF Unfailing, Inside
<1>1. CASE AllProcessed
  BY <1>0, <1>1 DEF AllProcessed, config, decoder, TypeOK, IsArchive
<1>2. CASE Skip
  <2> DEFINE adv == Lesser(Gap, Avail)
  <2>1. /\ pc = "update" /\ ~ InData /\ Advance(adv, FALSE)
        /\ UNCHANGED << config, decoder, taken, held >>
    BY <1>2 DEF Skip, AtHeader
  <2>a. current_position # HeaderPosition
    <3>1. HeaderPosition \in Places /\ current_position \in Places
      <4>1. current_index \in Files
        BY <1>0, <1>2 DEF Skip, AtHeader, TypeOK, Files, IsArchive
      <4>2. current_position \in Places
        BY <1>0 DEF TypeOK, Places
      <4> QED
        BY <1>0, <4>1, <4>2, PlaceFacts DEF HeaderPosition
    <3>2. \/ current_position.disk < HeaderPosition.disk
          \/ current_position.offset < HeaderPosition.offset
      BY <1>2 DEF Skip
    <3> QED
      BY <3>1, <3>2 DEF Places
  <2>2. /\ Gap \in Nat \ {0}
        /\ Global(archive, current_position) + Gap <= HeaderStart(archive, current_index)
        /\ HeaderStart(archive, current_index) \in Nat
        /\ HeaderStart(archive, current_index) < StreamSize(archive)
    BY <1>2, SkipEnds
  <2>3. adv \in 0 .. Avail /\ adv <= Gap /\ (adv = 0 => Avail = 0)
    BY <1>a, <2>2 DEF Lesser
  <2> HIDE DEF adv
  <2>4. Global(archive, current_position) + adv < StreamSize(archive)
    BY <1>b, <2>2, <2>3
  <2>5. /\ adv = 0 /\ Avail' = Avail
        /\ UNCHANGED << archive, current_position, decoder_state, current_index >>
    BY <2>1, <2>3, <2>4, Asked DEF decoder
  <2>6. Wanted' = 1
    BY <2>1, <2>a, <2>5 DEF Wanted, InData, HeaderPosition
  <2> QED
    BY <2>3, <2>5, <2>6
<1>3. CASE NeedMoreHeader
  <2>1. /\ pc = "update" /\ ~ InData /\ Advance(0, FALSE)
        /\ UNCHANGED << config, decoder, taken, held >>
        /\ Avail < LFH_MIN \/ ~ Parsed
    BY <1>3 DEF NeedMoreHeader, OnHeader, AtHeader
  <2>2. /\ Avail' = Avail /\ Here' = Here
        /\ UNCHANGED << archive, current_position, decoder_state, current_index >>
    <3>1. Global(archive, current_position) + 0 < StreamSize(archive)
      BY <1>b, <1>c
    <3> QED
      BY <1>a, <2>1, <3>1, Asked DEF decoder
  <2>3. /\ current_position = HeaderPosition /\ archive.lfh[Here].wellformed
        /\ archive.lfh[Here].header_size \in Nat /\ archive.lfh[Here].header_size >= LFH_MIN
    BY <1>3, HeaderEnds DEF NeedMoreHeader
  <2>4. Avail < archive.lfh[Here].header_size
    BY <1>a, <2>1, <2>3, ParametersAssumption DEF Parsed
  <2>5. Wanted' = archive.lfh[Here].header_size
    BY <2>1, <2>2, <2>3 DEF Wanted, InData, HeaderPosition
  <2> QED
    BY <2>2, <2>4, <2>5
<1>4. CASE Overshoot \/ InvalidSignature \/ HeaderCallbackFails \/ HeaderRefused
           \/ DataCallbackFails \/ PipelineFails
  BY <1>4 DEF Overshoot, InvalidSignature, HeaderCallbackFails, HeaderRefused,
              DataCallbackFails, PipelineFails, Err
<1>5. CASE HeaderAccepted
  <2> DEFINE l == archive.lfh[Here]
  <2>1. /\ OnHeader /\ Avail >= l.header_size /\ Advance(l.header_size, FALSE)
        /\ UNCHANGED << config, taken, held >>
    BY <1>5 DEF HeaderAccepted, HeaderRead, Parsed
  <2>2. /\ pc = "update" /\ l.header_size \in Nat \ {0} /\ l.compressed_size \in Nat
        /\ Global(archive, current_position) + l.header_size + l.compressed_size
             < StreamSize(archive)
    BY <2>1, HeaderEnds
  <2> HIDE DEF l
  <2>3. /\ l.header_size \in 0 .. Avail
        /\ Global(archive, current_position) + l.header_size < StreamSize(archive)
    BY <1>a, <1>b, <2>1, <2>2
  <2>4. l.header_size = 0
    BY <2>1, <2>2, <2>3, Asked
  <2> QED
    BY <2>2, <2>4
<1>6. CASE ReadData
  <2>1. PICK count \in PipelineCounts(BytesToRead) :
          /\ IF count = BytesLeft
             THEN NextFile
             ELSE /\ decoder_state' = [decoder_state EXCEPT !.pos = @ + count]
                  /\ UNCHANGED current_index
          /\ Advance(count, FALSE)
    BY <1>6 DEF ReadData
  <2> DEFINE l == decoder_state.lfh
             pos == decoder_state.pos
             start == DataStart(archive, current_index)
  <2>2. AtData /\ InData /\ pc = "update" /\ UNCHANGED << config, taken, held >>
    BY <1>6 DEF ReadData, AtData
  <2>3. /\ current_index \in Files
        /\ decoder_state = FileData(pos, l)
        /\ l.compressed_size \in Nat /\ pos \in Nat
        /\ count \in 0 .. Avail /\ count \in 0 .. BytesLeft
        /\ [decoder_state EXCEPT !.pos = @ + count] = FileData(pos + count, l)
        /\ pos + count \in 0 .. l.compressed_size
    BY <1>0, <2>2, CountBounds
  <2>4. /\ HeaderStart(archive, current_index) \in DOMAIN archive.lfh
        /\ l = archive.lfh[HeaderStart(archive, current_index)]
        /\ Global(archive, current_position) = start + pos
    BY <1>0, <2>2 DEF Delivered, DataInStep
  <2>5. start + l.compressed_size < StreamSize(archive) /\ start \in Nat
    BY <1>0, <2>3, <2>4, SaneFile
  <2>6. pos < l.compressed_size /\ l.compressed_size < UsizeMod
    BY <2>2, <2>4 DEF Unfailing, DataLeft, Fits
  <2> HIDE DEF start
  <2>7. count \in Nat /\ Global(archive, current_position) + count < StreamSize(archive)
    BY <1>a, <1>b, <2>3, <2>4, <2>5
  <2>8. /\ count = 0 /\ Avail' = Avail /\ Here' = Here
        /\ UNCHANGED << archive, current_position >>
    BY <2>1, <2>2, <2>3, <2>7, Asked
  <2>9. BytesLeft \in Nat \ {0} /\ BytesLeft < UsizeMod
    BY <2>3, <2>6, ParametersAssumption DEF BytesLeft
  <2>10. decoder_state' = decoder_state
    BY <2>1, <2>3, <2>8, <2>9
  <2>11. BytesToRead = Lesser(BytesLeft, Avail)
    BY <2>9, UsizeFits DEF BytesToRead
  <2>12. Wanted' = IF l.compression_method = "Deflate" THEN BytesLeft ELSE 1
    BY <2>2, <2>10 DEF Wanted, InData, BytesLeft
  <2>13. CASE l.compression_method = "Deflate" /\ l.encryption = "None"
    <3>1. ~ (BytesToRead = BytesLeft /\ BytesToRead > 0)
      BY <2>8, <2>13 DEF PipelineCounts
    <3>2. Avail < BytesLeft
      BY <1>a, <2>9, <2>11, <3>1 DEF Lesser
    <3> QED
      BY <2>8, <2>12, <2>13, <3>2
  <2>14. CASE ~ (l.compression_method = "Deflate" /\ l.encryption = "None")
    <3>1. BytesToRead = 0
      BY <2>8, <2>14 DEF PipelineCounts
    <3>2. Avail = 0
      BY <1>a, <2>9, <2>11, <3>1 DEF Lesser
    <3> QED
      BY <2>8, <2>9, <2>12, <3>2
  <2> QED
    BY <2>13, <2>14
<1>7. CASE Receive \/ Recover \/ Crash
  BY <1>7 DEF Receive, Update, Recover, Crash, StartOver
<1>8. CASE UNCHANGED vars
  BY <1>8 DEF vars, MoreMeansStarved, Avail, Wanted, InData, HeaderPosition, BytesLeft, Here
<1> QED
  BY <1>1, <1>2, <1>3, <1>4, <1>5, <1>6, <1>7, <1>8 DEF Next, UpdateInternal, Finished

LEMMA ArchiveKept ==
  ASSUME [Next]_vars
  PROVE  archive' = archive
  BY DEF Next, UpdateInternal, AllProcessed, Overshoot, Skip, NeedMoreHeader, InvalidSignature,
         HeaderCallbackFails, HeaderRefused, HeaderAccepted, ReadData, DataCallbackFails,
         PipelineFails, Receive, Update, Recover, Crash, StartOver, Finished, config, vars

(***************************************************************************)
(* On such an archive, with files no larger than usize can count, a call   *)
(* that asks for more cannot go on with what it has.                       *)
(***************************************************************************)
THEOREM AsksWhenStarved ==
  ASSUME \A a \in Archives : Sane(a) /\ Fits(a), Passwords = {"right"}
  PROVE  Spec => []MoreMeansStarved
<1> DEFINE Small == Fits(archive)
<1>1. Init => Unfailing /\ Small /\ MoreMeansStarved
  BY UnfailingInit DEF Init, MoreMeansStarved
<1>2. Small /\ [Next]_vars => Small'
  BY ArchiveKept
<1>3. Located /\ Located' /\ Delivered /\ Unfailing /\ Small /\ MoreMeansStarved /\ [Next]_vars
        => MoreMeansStarved'
  BY StarvedNext
<1> HIDE DEF Small
<1> QED
  BY <1>1, <1>2, <1>3, LocatedInit, LocatedNext, DeliveredInit, DeliveredNext, UnfailingNext, PTL
     DEF Spec

-----------------------------------------------------------------------------
(***************************************************************************)
(* The program gets on.  A turn fails, which the environment can make it   *)
(* do only so often, or it advances; and when it advances by nothing and   *)
(* goes on to ask for more, it is still at the same file.                  *)
(***************************************************************************)
Onward(adv, end) ==
  /\ Advance(adv, end) /\ UNCHANGED << config, taken, held, faults >>
  /\ Global(archive, current_position) + adv < StreamSize(archive)
  /\ adv = 0 /\ ~ end => current_index < archive.files /\ UNCHANGED current_index

LEMMA TurnOnward ==
  ASSUME Located, Delivered, Unfailing, UpdateInternal
  PROVE  \/ Fault /\ pc' = "error" /\ UNCHANGED << archive, taken, held >>
         \/ \E adv \in 0 .. Avail, end \in BOOLEAN : Onward(adv, end)
<1>0. /\ IsArchive(archive) /\ Sane(archive) /\ password = "right" /\ TypeOK /\ Placed
      /\ pc = "update"
  BY InACall DEF Located, Placed, TypeOK, Unfailing
<1>a. Avail \in Nat /\ 0 \in 0 .. Avail
  BY <1>0 DEF TypeOK, Avail
<1>b. StreamSize(archive) \in Nat /\ Global(archive, current_position) \in Nat
  BY <1>0, PlacedNumbers DEF Numbers, IsArchive, IsDisks, StreamSize
<1>c. Global(archive, current_position) + 0 < StreamSize(archive)
  <2>1. current_position \in Places
    BY <1>0 DEF TypeOK, Places
  <2> QED
    BY <1>0, <1>b, <2>1, InsideStream DEF Unfailing, Inside
<1>1. CASE AllProcessed
  <2>1. Onward(0, TRUE)
    BY <1>1, <1>c DEF AllProcessed, Onward
  <2> QED
    BY <1>a, <2>1
<1>2. CASE Skip
  <2> DEFINE adv == Lesser(Gap, Avail)
  <2>1. /\ Advance(adv, FALSE) /\ current_index < archive.files
        /\ UNCHANGED << config, decoder, taken, held, faults >>
    BY <1>2 DEF Skip, AtHeader
  <2>2. /\ Gap \in Nat \ {0}
        /\ Global(archive, current_position) + Gap <= HeaderStart(archive, current_index)
        /\ HeaderStart(archive, current_index) \in Nat
        /\ HeaderStart(archive, current_index) < StreamSize(archive)
    BY <1>2, SkipEnds
  <2>3. adv \in 0 .. Avail /\ adv <= Gap
    BY <1>a, <2>2 DEF Lesser
  <2> HIDE DEF adv
  <2>4. Global(archive, current_position) + adv < StreamSize(archive)
    BY <1>b, <2>2, <2>3
  <2>5. Onward(adv, FALSE)
    BY <2>1, <2>4 DEF Onward, decoder
  <2> QED
    BY <2>3, <2>5
<1>3. CASE NeedMoreHeader
  <2>1. Onward(0, FALSE)
    BY <1>3, <1>c DEF NeedMoreHeader, OnHeader, AtHeader, Onward, decoder
  <2> QED
    BY <1>a, <2>1
<1>4. CASE Overshoot
  BY <1>4, NoOvershoot DEF Overshoot
<1>5. CASE InvalidSignature
  BY <1>5, HeaderEnds DEF InvalidSignature
<1>6. CASE HeaderRefused
  BY <1>0, <1>6, HeaderEnds DEF HeaderRefused, HeaderRead
<1>7. CASE HeaderCallbackFails \/ DataCallbackFails \/ PipelineFails
  BY <1>0, <1>7 DEF HeaderCallbackFails, DataCallbackFails, PipelineFails, Err, config
<1>8. CASE HeaderAccepted
  <2> DEFINE size == archive.lfh[Here].header_size
  <2>1. /\ OnHeader /\ Avail >= size /\ Advance(size, FALSE)
        /\ UNCHANGED << config, taken, held, faults >>
    BY <1>8 DEF HeaderAccepted, HeaderRead, Parsed
  <2>2. /\ size \in Nat \ {0} /\ archive.lfh[Here].compressed_size \in Nat
        /\ Global(archive, current_position) + size + archive.lfh[Here].compressed_size
             < StreamSize(archive)
    BY <2>1, HeaderEnds
  <2> HIDE DEF size
  <2>3. /\ size \in 0 .. Avail
        /\ Global(archive, current_position) + size < StreamSize(archive)
    BY <1>a, <1>b, <2>1, <2>2
  <2>4. Onward(size, FALSE)
    BY <2>1, <2>2, <2>3 DEF Onward
  <2> QED
    BY <2>3, <2>4
<1>9. CASE ReadData
  <2>1. PICK count \in PipelineCounts(BytesToRead) :
          /\ IF count = BytesLeft
             THEN NextFile
             ELSE /\ decoder_state' = [decoder_state EXCEPT !.pos = @ + count]
                  /\ UNCHANGED current_index
          /\ Advance(count, FALSE)
    BY <1>9 DEF ReadData
  <2> DEFINE l == decoder_state.lfh
             pos == decoder_state.pos
             start == DataStart(archive, current_index)
  <2>2. AtData /\ InData /\ UNCHANGED << config, taken, held, faults >>
    BY <1>9 DEF ReadData, AtData
  <2>3. /\ current_index \in Files
        /\ l.compressed_size \in Nat /\ pos \in Nat
        /\ count \in 0 .. Avail /\ count \in 0 .. BytesLeft
        /\ pos + count \in 0 .. l.compressed_size
    BY <1>0, <2>2, CountBounds
  <2>4. /\ l = archive.lfh[HeaderStart(archive, current_index)]
        /\ Global(archive, current_position) = start + pos
    BY <1>0, <2>2 DEF Delivered, DataInStep
  <2>5. start + l.compressed_size < StreamSize(archive) /\ start \in Nat
    BY <1>0, <2>3, <2>4, SaneFile
  <2>6. pos < l.compressed_size
    BY <1>0, <2>2 DEF Unfailing, DataLeft
  <2> HIDE DEF start
  <2>7. Global(archive, current_position) + count < StreamSize(archive)
    BY <1>b, <2>3, <2>4, <2>5
  <2>8. BytesLeft # 0
    BY <2>3, <2>6 DEF BytesLeft
  <2>9. Onward(count, FALSE)
    BY <2>1, <2>2, <2>7, <2>8 DEF Onward, AtData
  <2> QED
    BY <2>3, <2>9
<1> QED
  BY <1>1, <1>2, <1>3, <1>4, <1>5, <1>6, <1>7, <1>8, <1>9 DEF UpdateInternal

(***************************************************************************)
(* What the program was given is of the stream, and it is asked for more   *)
(* only while there are files left.                                        *)
(***************************************************************************)
Given == taken + held <= StreamSize(archive)

AskedInside == pc = "ok" => current_index < archive.files

Going == Located /\ Delivered /\ Unfailing /\ Given /\ AskedInside

\* What is left is counted in numbers.
ToUse == StreamSize(archive) - Here
ToReceive == StreamSize(archive) - (taken + held)
ToFail == 2 * (MaxFaults - faults) + IF pc = "error" THEN 1 ELSE 0

Counted ==
  /\ ToDo = << ToFail, ToUse, ToReceive, Idling >>
  /\ ToFail \in Nat /\ ToUse \in Nat \ {0} /\ ToReceive \in Nat /\ Idling \in Nat

LEMMA ToDoCounts == Located /\ Unfailing /\ Given => Counted
<1> SUFFICES ASSUME Located, Unfailing, Given PROVE Counted
  OBVIOUS
<1>1. /\ IsArchive(archive) /\ current_position \in Places
      /\ taken \in Nat /\ held \in Nat /\ buf_offset \in 0 .. held /\ faults \in 0 .. MaxFaults
  BY DEF Located, Placed, TypeOK, Places
<1>2. StreamSize(archive) \in Nat
  BY <1>1 DEF IsArchive, IsDisks, StreamSize
<1>3. Here = Global(archive, current_position) /\ Here \in Nat
  BY PlacedNumbers DEF Located, PositionInStep, Unfailing, OnlyFaultsFail, Numbers
<1>4. Here < StreamSize(archive)
  BY <1>1, <1>3, InsideStream DEF Unfailing, Inside
<1>5. ToUse \in Nat \ {0}
  BY <1>2, <1>3, <1>4 DEF ToUse
<1>6. ToReceive \in Nat
  BY <1>1, <1>2 DEF Given, ToReceive
<1>7. ToFail \in Nat
  BY <1>1, MaxFaultsAssumption DEF ToFail
<1>8. Idling \in Nat
  BY DEF Idling
<1> QED
  BY <1>5, <1>6, <1>7, <1>8 DEF Counted, ToDo, ToFail, ToUse, ToReceive

LEMMA GoingNext == Going /\ Located' /\ Delivered' /\ Unfailing' /\ [Next]_vars => Going'
<1> SUFFICES ASSUME Going, Located', Unfailing', [Next]_vars PROVE Given' /\ AskedInside'
  BY DEF Going
<1>0. /\ Located /\ Delivered /\ Unfailing /\ Given /\ AskedInside
      /\ IsArchive(archive) /\ taken \in Nat /\ held \in Nat /\ buf_offset \in 0 .. held
  BY DEF Going, Located, Placed, TypeOK
<1>a. StreamSize(archive) \in Nat
  BY <1>0 DEF IsArchive, IsDisks, StreamSize
<1>1. CASE UpdateInternal
  <2>1. CASE Fault /\ pc' = "error" /\ UNCHANGED << archive, taken, held >>
    BY <1>0, <2>1 DEF Given, AskedInside
  <2>2. ASSUME NEW adv \in 0 .. Avail, NEW end \in BOOLEAN, Onward(adv, end)
        PROVE  Given' /\ AskedInside'
    <3>1. pc' = AfterInternal(adv, end) /\ pc = "update"
      BY <1>0, <1>1, <2>2, AdvancedInside, InACall DEF Onward
    <3>2. UNCHANGED << archive, taken, held >>
      BY <2>2 DEF Onward, config
    <3>3. pc' = "ok" => adv = 0 /\ ~ end
      BY <3>1 DEF AfterInternal
    <3> QED
      BY <1>0, <2>2, <3>2, <3>3 DEF Given, AskedInside, Onward
  <2> QED
    BY <1>0, <1>1, <2>1, <2>2, TurnOnward
<1>2. CASE Receive
  <2>1. PICK k \in 0 .. StreamSize(archive) - taken - held : Update(k)
    BY <1>2 DEF Receive
  <2>2. /\ taken' = taken + buf_offset /\ held' = held - buf_offset + k /\ archive' = archive
        /\ pc' = "update"
    BY <2>1 DEF Update, config
  <2> QED
    BY <1>0, <1>a, <2>2 DEF Given, AskedInside
<1>3. CASE Recover \/ Crash
  <2>1. /\ taken' = Global(archive, current_position') /\ held' = 0 /\ pc' = "idle"
        /\ archive' = archive
    BY <1>3 DEF Recover, Crash, StartOver, config
  <2>2. /\ current_position' \in [disk : 0 .. archive.disks - 1, offset : Nat]
        /\ current_position'.offset < archive.size[current_position'.disk]
    BY <2>1 DEF Located, Placed, TypeOK, Unfailing, Inside
  <2>3. taken' < StreamSize(archive) /\ taken' \in Nat
    BY <1>0, <2>1, <2>2, InsideStream, PlaceFacts DEF Places
  <2> QED
    BY <1>a, <2>1, <2>3 DEF Given, AskedInside
<1>4. CASE UNCHANGED vars
  BY <1>0, <1>4 DEF vars, Given, AskedInside
<1> QED
  BY <1>1, <1>2, <1>3, <1>4 DEF Next, Finished

LEMMA GoingInit ==
  ASSUME Init, Sane(archive), password = "right"
  PROVE  Going
<1>1. Located /\ Delivered /\ Unfailing
  BY LocatedInit, DeliveredInit, UnfailingInit
<1>2. Given /\ AskedInside
  <2>1. StreamSize(archive) \in Nat
    BY <1>1 DEF Located, Placed, TypeOK, IsArchive, IsDisks, StreamSize
  <2> QED
    BY <2>1 DEF Init, Given, AskedInside
<1> QED
  BY <1>1, <1>2 DEF Going

\* A turn that advances leaves fewer bytes to use up, or ends the call.
LEMMA OnwardNears ==
  ASSUME Located, Unfailing, Counted, Counted', pc = "update",
         NEW adv \in 0 .. Avail, NEW end \in BOOLEAN, Onward(adv, end)
  PROVE  Lower(ToDo', ToDo)
<1>1. /\ pc' = AfterInternal(adv, end) /\ error' = "none"
      /\ buf_offset' = buf_offset + adv
      /\ UNCHANGED << archive, taken, held, faults >>
  BY AdvancedInside DEF Onward, Advance, config
<1>2. /\ buf_offset \in Nat /\ adv \in Nat /\ taken \in Nat /\ held \in Nat
      /\ StreamSize(archive) \in Nat
  <2>1. IsArchive(archive) /\ taken \in Nat /\ held \in Nat /\ buf_offset \in 0 .. held
    BY DEF Located, Placed, TypeOK
  <2> QED
    BY <2>1 DEF Avail, IsArchive, IsDisks, StreamSize
<1>3. ToFail' = ToFail /\ ToReceive' = ToReceive /\ ToUse' = ToUse - adv
  <2>1. pc' # "error"
    BY <1>1 DEF AfterInternal
  <2> QED
    BY <1>1, <1>2, <2>1 DEF ToFail, ToReceive, ToUse, Here
<1>4. ToUse \in Nat
  BY DEF Counted
<1>5. CASE adv > 0
  <2>1. ToUse' < ToUse
    BY <1>2, <1>3, <1>4, <1>5
  <2> QED
    BY <1>3, <2>1, LowerFour DEF Counted
<1>6. CASE ~ (adv > 0)
  <2>1. adv = 0 /\ pc' \in {"ok", "end"} /\ buf_offset' = buf_offset
    BY <1>1, <1>2, <1>6 DEF AfterInternal
  <2>2. Idling' < Idling
    BY <2>1 DEF Idling
  <2>3. ToUse' = ToUse
    BY <1>3, <1>4, <2>1
  <2> QED
    BY <1>3, <2>2, <2>3, LowerFour DEF Counted
<1> QED
  BY <1>5, <1>6

\* A failure is one of few, and so is a recovery.
LEMMA FaultNears ==
  ASSUME Located, Counted, Counted',
         \/ Fault /\ pc # "error"
         \/ pc = "error" /\ pc' # "error" /\ UNCHANGED faults
  PROVE  Lower(ToDo', ToDo)
<1>1. faults \in Nat /\ MaxFaults \in Nat
  BY MaxFaultsAssumption DEF Located, Placed, TypeOK
<1>2. ToFail' < ToFail
  <2>1. CASE Fault /\ pc # "error"
    <3>1. ToFail = 2 * (MaxFaults - faults) + 0 /\ faults' = faults + 1
      BY <2>1 DEF ToFail, Fault
    <3>2. \/ ToFail' = 2 * (MaxFaults - faults') + 0
          \/ ToFail' = 2 * (MaxFaults - faults') + 1
      BY DEF ToFail
    <3> QED
      BY <1>1, <3>1, <3>2
  <2>2. CASE pc = "error" /\ pc' # "error" /\ UNCHANGED faults
    BY <1>1, <2>2 DEF ToFail
  <2> QED
    BY <2>1, <2>2
<1> QED
  BY <1>2, LowerFour DEF Counted

\* A call is made with more bytes, or after one that used some up.
LEMMA ReceiveNears ==
  ASSUME Located, Counted, Counted', Receive
  PROVE  Lower(ToDo', ToDo)
<1>1. PICK k \in 0 .. StreamSize(archive) - taken - held : Update(k)
  BY DEF Receive
<1>2. /\ IsArchive(archive) /\ taken \in Nat /\ held \in Nat /\ buf_offset \in 0 .. held
  BY DEF Located, Placed, TypeOK
<1>3. StreamSize(archive) \in Nat /\ k \in Nat
  BY <1>2 DEF IsArchive, IsDisks, StreamSize
<1>4. /\ pc \in {"idle", "ok"} /\ (pc = "ok" /\ buf_offset = 0 => k > 0)
      /\ pc' = "update" /\ taken' = taken + buf_offset /\ held' = held - buf_offset + k
      /\ buf_offset' = 0 /\ UNCHANGED << archive, faults >>
  BY <1>1 DEF Update, config
<1>5. ToFail' = ToFail /\ ToUse' = ToUse /\ ToReceive' = ToReceive - k
  BY <1>2, <1>3, <1>4 DEF ToFail, ToUse, ToReceive, Here
<1>6. ToReceive \in Nat
  BY DEF Counted
<1>7. CASE k > 0
  <2>1. ToReceive' < ToReceive
    BY <1>3, <1>5, <1>6, <1>7
  <2> QED
    BY <1>5, <2>1, LowerFour DEF Counted
<1>8. CASE ~ (k > 0)
  <2>1. k = 0 /\ (pc = "ok" => buf_offset > 0)
    BY <1>2, <1>3, <1>4, <1>8
  <2>2. Idling' = 2 /\ Idling \in {3, 5}
    BY <1>4, <2>1 DEF Idling
  <2>3. Idling' < Idling /\ ToReceive' = ToReceive
    BY <1>5, <1>6, <2>1, <2>2
  <2> QED
    BY <1>5, <2>3, LowerFour DEF Counted
<1> QED
  BY <1>7, <1>8

(***************************************************************************)
(* On an archive of a correct writer no turn, no call and no restart is    *)
(* made in vain: every step of the program leaves less to be done, in an   *)
(* order in which nothing goes down for ever.                              *)
(***************************************************************************)
THEOREM GetsOn ==
  ASSUME \A a \in Archives : Sane(a), Passwords = {"right"}
  PROVE  Spec => NearsTheEnd
<1>1. Init => Going
  BY GoingInit DEF Init
<1>2. Going /\ [Next]_vars => Going'
  <2>1. Going => Located /\ Delivered /\ Unfailing
    BY DEF Going
  <2> QED
    BY <2>1, LocatedNext, DeliveredNext, UnfailingNext, GoingNext
<1>3. Going => Counted
  BY ToDoCounts DEF Going
<1>4. Going /\ Counted /\ Counted' /\ [Next]_vars
        => [ToDo' \in Seq(Nat) /\ Lower(ToDo', ToDo)]_vars
  <2> SUFFICES ASSUME Going, Counted, Counted', Next, ~ UNCHANGED vars
               PROVE  ToDo' \in Seq(Nat) /\ Lower(ToDo', ToDo)
    OBVIOUS
  <2>0. Located /\ Delivered /\ Unfailing
    BY DEF Going
  <2>1. ToDo' \in Seq(Nat)
    BY DEF Counted
  <2> SUFFICES Lower(ToDo', ToDo)
    BY <2>1
  <2>2. CASE UpdateInternal
    <3>1. pc = "update"
      BY <2>2, InACall
    <3>2. CASE Fault
      BY <2>0, <3>1, <3>2, FaultNears
    <3>3. CASE \E adv \in 0 .. Avail, end \in BOOLEAN : Onward(adv, end)
      BY <2>0, <3>1, <3>3, OnwardNears
    <3> QED
      BY <2>0, <2>2, <3>2, <3>3, TurnOnward
  <2>3. CASE Receive
    BY <2>0, <2>3, ReceiveNears
  <2>4. CASE Recover
    <3>1. pc = "error" /\ pc' # "error" /\ UNCHANGED faults
      BY <2>4 DEF Recover, StartOver
    <3> QED
      BY <2>0, <3>1, FaultNears
  <2>5. CASE Crash
    <3>1. Fault /\ pc # "error"
      BY <2>5 DEF Crash
    <3> QED
      BY <2>0, <3>1, FaultNears
  <2> QED
    BY <2>2, <2>3, <2>4, <2>5 DEF Next, Finished
<1> QED
  BY <1>1, <1>2, <1>3, <1>4, PTL DEF Spec, NearsTheEnd

(***************************************************************************)
(* With files that usize can count, a caller that was asked for more has   *)
(* more: what the decoder waits for ends before the stream does.           *)
(***************************************************************************)
LEMMA WantedIsThere ==
  ASSUME Going, MoreMeansStarved
  PROVE  MoreIsThere
<1> SUFFICES ASSUME pc = "ok" PROVE taken + held < StreamSize(archive)
  BY DEF MoreIsThere
<1>0. /\ Located /\ Delivered /\ Unfailing /\ current_index < archive.files /\ Avail < Wanted
      /\ TypeOK /\ IsArchive(archive) /\ Sane(archive) /\ error = "none"
  BY DEF Going, AskedInside, MoreMeansStarved, Located, Placed, TypeOK, Unfailing
<1>1. Counted
  BY <1>0, ToDoCounts DEF Going
<1>2. /\ taken \in Nat /\ held \in Nat /\ buf_offset \in Nat /\ current_index \in Files
      /\ Here \in Nat /\ Avail \in Nat /\ Here + Avail = taken + held
  BY <1>0 DEF TypeOK, Here, Avail, Files, IsArchive
<1>3. StreamSize(archive) \in Nat
  BY <1>0 DEF IsArchive, IsDisks, StreamSize
<1>4. Here < StreamSize(archive)
  BY <1>1, <1>2, <1>3 DEF Counted, ToUse
<1>5. Here = Global(archive, current_position)
  BY <1>0 DEF Located, PositionInStep
<1>6. Wanted \in Nat /\ Here + Wanted <= StreamSize(archive)
  <2>1. CASE InData
    <3> DEFINE l == decoder_state.lfh
               pos == decoder_state.pos
    <3>1. /\ l = archive.lfh[HeaderStart(archive, current_index)]
          /\ Here = DataStart(archive, current_index) + pos
          /\ pos < l.compressed_size
      BY <1>0, <1>5, <2>1 DEF Delivered, DataInStep, Unfailing, DataLeft
    <3>2. /\ DataStart(archive, current_index) + l.compressed_size < StreamSize(archive)
          /\ l.compressed_size \in Nat /\ DataStart(archive, current_index) \in Nat
      BY <1>0, <1>2, <3>1, SaneFile
    <3>3. pos \in Nat
      BY <1>0, <2>1 DEF TypeOK, DecoderStateOK, InData, FileHeader
    <3>4. BytesLeft \in Nat /\ BytesLeft >= 1 /\ Here + BytesLeft <= StreamSize(archive)
      BY <1>3, <3>1, <3>2, <3>3 DEF BytesLeft
    <3>5. Wanted \in {1, BytesLeft}
      BY <2>1 DEF Wanted
    <3> QED
      BY <1>2, <1>3, <3>4, <3>5
  <2>2. CASE ~ InData /\ current_position = HeaderPosition
    <3>1. Here = HeaderStart(archive, current_index)
      BY <1>5, <2>2 DEF HeaderPosition, HeaderStart
    <3>2. Wanted = archive.lfh[Here].header_size
      BY <2>2 DEF Wanted
    <3>3. /\ archive.lfh[Here].header_size \in Nat /\ archive.lfh[Here].compressed_size \in Nat
          /\ Here + archive.lfh[Here].header_size + archive.lfh[Here].compressed_size
               < StreamSize(archive)
      BY <1>0, <1>2, <3>1, SaneFile
    <3> QED
      BY <1>2, <1>3, <3>2, <3>3
  <2>3. CASE ~ InData /\ current_position # HeaderPosition
    BY <1>2, <1>3, <1>4, <2>3 DEF Wanted
  <2> QED
    BY <2>1, <2>2, <2>3
<1> QED
  BY <1>0, <1>2, <1>3, <1>6

(***************************************************************************)
(* On such an archive the program is never asked for bytes that are not    *)
(* there: the only call after which it passes nothing more reports the end.*)
(***************************************************************************)
THEOREM NeverStuck ==
  ASSUME \A a \in Archives : Sane(a) /\ Fits(a), Passwords = {"right"}
  PROVE  Spec => []MoreIsThere
<1> DEFINE Small == Fits(archive)
<1>1. Init => Going /\ Small /\ MoreMeansStarved
  BY GoingInit DEF Init, MoreMeansStarved
<1>2. Small /\ [Next]_vars => Small'
  BY ArchiveKept
<1>3. Located /\ Located' /\ Delivered /\ Unfailing /\ Small /\ MoreMeansStarved /\ [Next]_vars
        => MoreMeansStarved'
  BY StarvedNext
<1>4. Going /\ [Next]_vars => Going'
  <2>1. Going => Located /\ Delivered /\ Unfailing
    BY DEF Going
  <2> QED
    BY <2>1, LocatedNext, DeliveredNext, UnfailingNext, GoingNext
<1>5. Going => Located /\ Delivered /\ Unfailing
  BY DEF Going
<1>6. Going /\ MoreMeansStarved => MoreIsThere
  BY WantedIsThere
<1> HIDE DEF Small
<1> QED
  BY <1>1, <1>2, <1>3, <1>4, <1>5, <1>6, PTL DEF Spec

-----------------------------------------------------------------------------
(***************************************************************************)
(* Callers that go on after an error, or drop what was not consumed.       *)
(***************************************************************************)
CallersTypes ==
  /\ drift \in Int /\ spoilt \in BOOLEAN /\ lost \in BOOLEAN
  /\ passed \in 0 .. archive.disks

CallersPlaced == Placed /\ AheadByWhatWasLost /\ CallersTypes

CallersNext == Call \/ Again \/ CallAgain \/ PassDisk

\* Between calls, and when a call failed, the next one can start anywhere.
LEMMA Called ==
  ASSUME Placed, error # "ExtraData", pc' = "update", error' = "none",
         held' \in Nat, taken' \in Nat, buf_offset' = 0,
         UNCHANGED << config, decoder, current_position, out, ckpt, faults >>
  PROVE  Placed'
<1>1. TypeOK'
  BY DEF Placed, TypeOK, DecoderStateOK, config, decoder, Files
<1>2. PositionOnDisk'
  BY DEF Placed, PositionOnDisk, HeaderPosition, InData, config, decoder
<1> QED
  BY <1>1, <1>2 DEF Placed

LEMMA CallersPlacedNext == CallersPlaced /\ [CallersNext]_cvars => CallersPlaced'
<1> SUFFICES ASSUME CallersPlaced, [CallersNext]_cvars PROVE CallersPlaced'
  OBVIOUS
<1>0. /\ Placed /\ TypeOK /\ AheadByWhatWasLost /\ CallersTypes
      /\ Here \in Nat /\ Global(archive, current_position) \in Nat
      /\ held \in Nat /\ taken \in Nat /\ buf_offset \in 0 .. held
      /\ drift \in Int
  BY PlacedNumbers DEF CallersPlaced, Placed, TypeOK, Numbers, CallersTypes
<1>1. CASE Call
  <2>1. Placed' /\ Steady
    BY <1>0, <1>1, TurnKeeps DEF Call
  <2>2. /\ error = "none" /\ drift' = drift /\ archive' = archive
        /\ CallersTypes'
    <3>1. archive' = archive
      BY <1>1 DEF Call, UpdateInternal, AllProcessed, Overshoot, Skip, NeedMoreHeader,
             InvalidSignature, HeaderCallbackFails, HeaderRefused, HeaderAccepted,
             ReadData, DataCallbackFails, PipelineFails, config
    <3>2. pc = "update"
      BY <1>1, InACall DEF Call
    <3> QED
      BY <1>0, <1>1, <3>1, <3>2 DEF Call, TypeOK, CallersTypes
  <2>3. Global(archive, current_position) = Here + drift
    BY <1>0, <2>2 DEF AheadByWhatWasLost
  <2>4. Numbers'
    BY <2>1, PlacedNumbers, PTL
  <2>5. AheadByWhatWasLost'
    BY <1>0, <2>1, <2>2, <2>3, <2>4 DEF AheadByWhatWasLost, Steady, Numbers
  <2> QED
    BY <2>1, <2>2, <2>5 DEF CallersPlaced
<1>2. CASE Again
  <2>1. CASE Receive /\ UNCHANGED drift
    <3>1. Placed' /\ Here' = Here
      BY <1>0, <2>1, Received
    <3>2. UNCHANGED << archive, current_position, error, drift, spoilt, passed, lost >>
      BY <1>2, <2>1 DEF Again, Receive, Update, config
    <3> QED
      BY <1>0, <3>1, <3>2 DEF CallersPlaced, AheadByWhatWasLost, CallersTypes
  <2>2. CASE (Recover \/ Crash) /\ drift' = 0
    <3>1. faults' \in 0 .. MaxFaults /\ StartOver
      BY <1>0, <2>2, MaxFaultsAssumption DEF Recover, Crash, Fault, TypeOK
    <3>2. Placed' /\ Here' = Global(archive', current_position')
      BY <1>0, <3>1, StartedOver
    <3>3. archive' = archive /\ UNCHANGED << spoilt, passed, lost >>
      BY <1>2, <3>1 DEF Again, StartOver, config
    <3>4. Numbers'
      BY <3>2, PlacedNumbers, PTL
    <3> QED
      BY <1>0, <2>2, <3>2, <3>3, <3>4
         DEF CallersPlaced, AheadByWhatWasLost, CallersTypes, Numbers
  <2> QED
    BY <1>2, <2>1, <2>2 DEF Again
<1>3. CASE CallAgain
  <2>1. PICK k \in 0 .. StreamSize(archive) - taken - held : held' = held + k
    BY <1>3 DEF CallAgain
  <2>2. /\ held' \in Nat /\ taken' = taken /\ buf_offset' = 0 /\ drift' = drift + buf_offset
        /\ error # "ExtraData" /\ pc' = "update" /\ error' = "none"
        /\ UNCHANGED << config, decoder, current_position, out, ckpt, faults, passed, lost >>
        /\ spoilt' = (spoilt \/ buf_offset > 0 \/ DataFailed)
    BY <1>0, <1>3, <2>1 DEF CallAgain
  <2>3. Placed'
    BY <1>0, <2>2, Called
  <2>4. Here' = Here - buf_offset
    BY <1>0, <2>2 DEF Here
  <2>5. AheadByWhatWasLost'
    BY <1>0, <2>2, <2>4 DEF AheadByWhatWasLost, config
  <2>6. CallersTypes'
    BY <1>0, <2>2 DEF CallersTypes, config
  <2> QED
    BY <2>3, <2>5, <2>6 DEF CallersPlaced
<1>4. CASE PassDisk
  <2>1. /\ taken' = taken + held /\ held' = archive.size[passed] /\ buf_offset' = 0
        /\ drift' = drift - (held - buf_offset)
        /\ passed < archive.disks /\ passed' = passed + 1
        /\ spoilt' = (spoilt \/ drift' # 0)
        /\ lost' = (lost \/ (pc # "end" /\ Avail # 0))
        /\ pc \in {"idle", "ok", "end"} /\ pc' = "update"
        /\ UNCHANGED << config, decoder, current_position, error, out, ckpt, faults >>
    BY <1>4 DEF PassDisk
  <2>2. /\ error = "none" /\ passed \in 0 .. archive.disks - 1
        /\ archive.disks \in Nat /\ held' \in Nat
    <3>1. archive.disks \in Nat
      BY <1>0 DEF TypeOK, IsArchive, IsDisks
    <3>2. passed \in 0 .. archive.disks - 1
      BY <1>0, <2>1, <3>1 DEF CallersTypes
    <3> QED
      BY <1>0, <2>1, <3>1, <3>2, PlaceFacts DEF TypeOK
  <2>3. Placed'
    BY <1>0, <2>1, <2>2, Called
  <2>4. Here' = Here + (held - buf_offset)
    BY <1>0, <2>1 DEF Here
  <2>5. AheadByWhatWasLost'
    BY <1>0, <2>1, <2>2, <2>4 DEF AheadByWhatWasLost, config
  <2>6. CallersTypes'
    <3>1. spoilt' \in BOOLEAN /\ lost' \in BOOLEAN
      BY <1>0, <2>1 DEF CallersTypes
    <3> QED
      BY <1>0, <2>1, <2>2, <3>1 DEF CallersTypes, config
  <2> QED
    BY <2>3, <2>5, <2>6 DEF CallersPlaced
<1>5. CASE UNCHANGED cvars
  BY <1>0, <1>5 DEF cvars, vars, CallersPlaced, Placed, TypeOK, DecoderStateOK, PositionOnDisk,
                    AheadByWhatWasLost, CallersTypes, Here, HeaderPosition, InData, Files
<1> QED
  BY <1>1, <1>2, <1>3, <1>4, <1>5 DEF CallersNext

LEMMA CallersPlacedInit == CallersInit => CallersPlaced
<1> SUFFICES ASSUME CallersInit PROVE CallersPlaced
  OBVIOUS
<1>1. Init /\ drift = 0 /\ spoilt = FALSE /\ passed = 0 /\ lost = FALSE
  BY DEF CallersInit
<1>2. Located
  BY <1>1, LocatedInit
<1>3. archive.disks \in Nat /\ Here \in Nat
  BY <1>2, PlacedNumbers DEF Located, Placed, TypeOK, IsArchive, IsDisks, Numbers
<1>4. AheadByWhatWasLost
  <2>1. Global(archive, current_position) = Here
    BY <1>1, <1>2 DEF Init, Located, PositionInStep
  <2> QED
    BY <1>1, <1>3, <2>1 DEF AheadByWhatWasLost
<1>5. CallersTypes
  <2>1. drift \in Int /\ passed \in 0 .. archive.disks
    BY <1>1, <1>3
  <2>2. spoilt \in BOOLEAN /\ lost \in BOOLEAN
    BY <1>1
  <2> QED
    BY <2>1, <2>2 DEF CallersTypes
<1> QED
  BY <1>2, <1>4, <1>5 DEF CallersPlaced, Located

(***************************************************************************)
(* In the hands of either caller every variable of the unpacker keeps its  *)
(* type.                                                                   *)
(***************************************************************************)
THEOREM CallersTypeCorrect == CallersSpec => []CallersTypeOK
<1>1. CallersPlaced => CallersTypeOK
  BY DEF CallersPlaced, Placed, CallersTypes, CallersTypeOK
<1>2. CallersSpec => CallersInit /\ [][CallersNext]_cvars
  BY DEF CallersSpec, CallersNext
<1> QED
  BY <1>1, <1>2, CallersPlacedInit, CallersPlacedNext, PTL

(***************************************************************************)
(* Over any failures, calls after them and restarts, the unpacker is ahead *)
(* of its buffer by what the calls that failed had used up.                *)
(***************************************************************************)
THEOREM AheadByLost == CallersSpec => []AheadByWhatWasLost
<1>1. CallersPlaced => AheadByWhatWasLost
  BY DEF CallersPlaced
<1>2. CallersSpec => CallersInit /\ [][CallersNext]_cvars
  BY DEF CallersSpec, CallersNext
<1> QED
  BY <1>1, <1>2, CallersPlacedInit, CallersPlacedNext, PTL

-----------------------------------------------------------------------------
(***************************************************************************)
(* As long as the caller did nothing harmful, it is in no other state than *)
(* one that makes a new unpacker after every error: its position has not   *)
(* drifted, and an error in the data of a file is one that spoils them.    *)
(***************************************************************************)
ErrorsOutsideData == pc = "error" /\ error # "ExtraData" /\ InData => DataFailed

Harmless == spoilt \/ (drift = 0 /\ Delivered /\ ErrorsOutsideData)

LEMMA InStepUnlessDrifted ==
  ASSUME CallersPlaced, drift = 0
  PROVE  Located
<1>1. Here \in Nat
  BY PlacedNumbers DEF CallersPlaced, Numbers
<1> QED
  BY <1>1 DEF CallersPlaced, AheadByWhatWasLost, Located, PositionInStep

LEMMA ErrorsOfTurns ==
  ASSUME UpdateInternal
  PROVE  ErrorsOutsideData'
<1> SUFFICES ASSUME pc' = "error", error' # "ExtraData", InData'
             PROVE  error' \in {"Pipeline", "FromDecodeCallback"}
  BY DEF ErrorsOutsideData, DataFailed
<1>1. ASSUME NEW adv, NEW end, Advance(adv, end) PROVE FALSE
  BY <1>1 DEF Advance, AfterInternal
<1>2. CASE Overshoot \/ InvalidSignature
  BY <1>2 DEF Overshoot, InvalidSignature, OnHeader, AtHeader, InData, decoder
<1>3. CASE HeaderRefused
  BY <1>3 DEF HeaderRefused, HeaderRead, OnHeader, AtHeader, InData, decoder
<1>4. CASE HeaderCallbackFails \/ DataCallbackFails \/ PipelineFails
  BY <1>4 DEF HeaderCallbackFails, DataCallbackFails, PipelineFails, Err
<1>5. CASE AllProcessed \/ Skip \/ NeedMoreHeader \/ HeaderAccepted \/ ReadData
  BY <1>1, <1>5 DEF AllProcessed, Skip, NeedMoreHeader, HeaderAccepted, ReadData
<1> QED
  BY <1>2, <1>3, <1>4, <1>5 DEF UpdateInternal

LEMMA HarmlessNext ==
  CallersPlaced /\ CallersPlaced' /\ Harmless /\ [CallersNext]_cvars => Harmless'
<1> SUFFICES ASSUME CallersPlaced, CallersPlaced', Harmless, [CallersNext]_cvars, ~ spoilt'
             PROVE  drift' = 0 /\ Delivered' /\ ErrorsOutsideData'
  BY DEF Harmless
<1>0. TypeOK
  BY DEF CallersPlaced, Placed
<1>1. ~ spoilt
  BY DEF CallersNext, Call, Again, CallAgain, PassDisk, cvars
<1>2. drift = 0 /\ Delivered /\ ErrorsOutsideData /\ Located
  BY <1>1, InStepUnlessDrifted DEF Harmless
<1>3. CASE Call
  <2>1. drift' = 0 /\ UpdateInternal
    BY <1>2, <1>3 DEF Call
  <2>2. Located'
    BY <1>2, <2>1, LocatedNext DEF Next
  <2>3. Delivered'
    BY <1>2, <2>1, <2>2, DeliveredNext DEF Next
  <2> QED
    BY <2>1, <2>3, ErrorsOfTurns
<1>4. CASE Again
  <2>1. /\ drift' = 0 /\ (Receive \/ Recover \/ Crash)
        /\ pc' # "error"
    BY <1>2, <1>4 DEF Again, Receive, Update, Recover, Crash, StartOver
  <2>2. Located'
    BY <1>2, <2>1, LocatedNext DEF Next
  <2>3. Delivered'
    BY <1>2, <2>1, <2>2, DeliveredNext DEF Next
  <2> QED
    BY <2>1, <2>3 DEF ErrorsOutsideData
<1>5. CASE CallAgain
  <2>1. /\ pc = "error" /\ error # "ExtraData" /\ pc' = "update"
        /\ ~ (buf_offset > 0) /\ ~ DataFailed
        /\ drift' = drift + buf_offset
        /\ UNCHANGED << config, decoder, out, ckpt >>
    BY <1>5 DEF CallAgain
  <2>2. buf_offset = 0 /\ ~ InData
    <3>1. buf_offset \in Nat
      BY <1>0 DEF TypeOK
    <3> QED
      BY <1>2, <2>1, <3>1 DEF ErrorsOutsideData
  <2>3. Delivered'
    BY <1>2, <2>1, <2>2, Quiet DEF config, decoder
  <2> QED
    BY <1>2, <2>1, <2>2, <2>3 DEF ErrorsOutsideData
<1>6. CASE PassDisk
  <2>1. /\ pc # "error" /\ pc' = "update" /\ ~ (drift' # 0)
        /\ UNCHANGED << config, decoder, current_position, out, ckpt >>
    BY <1>6 DEF PassDisk
  <2>2. Delivered'
    BY <1>2, <2>1, Quiet DEF config, decoder
  <2> QED
    BY <2>1, <2>2 DEF ErrorsOutsideData
<1>7. CASE UNCHANGED cvars
  <2>1. UNCHANGED vars /\ drift' = drift
    BY <1>7 DEF cvars
  <2>2. Located'
    BY <1>2, <2>1, LocatedNext
  <2>3. Delivered'
    BY <1>2, <2>1, <2>2, DeliveredNext
  <2> QED
    BY <1>2, <2>1, <2>3 DEF vars, ErrorsOutsideData, DataFailed, InData
<1> QED
  BY <1>3, <1>4, <1>5, <1>6, <1>7 DEF CallersNext

(***************************************************************************)
(* Calling update again after it failed in its first turn, outside a       *)
(* file's data, is harmless: what a restart would guarantee still holds.   *)
(***************************************************************************)
THEOREM HarmlessKept == CallersSpec => []HarmlessUntilSpoilt
<1>1. CallersPlaced /\ Harmless => HarmlessUntilSpoilt
  BY InStepUnlessDrifted DEF Harmless, HarmlessUntilSpoilt, Delivered, Located
<1>2. CallersSpec => CallersInit /\ [][CallersNext]_cvars
  BY DEF CallersSpec, CallersNext
<1>3. CallersInit => Harmless
  BY DeliveredInit DEF CallersInit, Harmless, ErrorsOutsideData, Init
<1> QED
  BY <1>1, <1>2, <1>3, CallersPlacedInit, CallersPlacedNext, HarmlessNext, PTL

-----------------------------------------------------------------------------
(***************************************************************************)
(* A caller that passes each disk once, as a whole, and drops what was not *)
(* consumed: examples/multipart.rs.                                        *)
(***************************************************************************)
\* The stream up to the end of the disks that were passed is in the buffer, or
\* was in an earlier one.
ToEndOfDisk == taken + held = archive.base[passed]

\* A call that asks for more has used up the disk that it was given, unless it
\* is at something that goes on behind it.
UsedUp == Avail = 0 \/ HeaderCut \/ DecompressorWaits

LEMMA DiskUsedUp ==
  ASSUME Located, Delivered, Unfailing, Fits(archive),
         passed \in 0 .. archive.disks, ToEndOfDisk, UpdateInternal, pc' = "ok", passed' = passed
  PROVE  UsedUp'
<1>d. archive.base[passed] \in Nat /\ archive.base[passed] = Here + Avail
  BY DEF Located, Placed, TypeOK, IsArchive, IsDisks, ToEndOfDisk, Here, Avail
<1>u. ASSUME Avail' = 0 PROVE UsedUp'
  BY <1>u DEF UsedUp
<1>0. IsArchive(archive) /\ Sane(archive) /\ TypeOK /\ Placed
  BY DEF Located, Placed, TypeOK, Unfailing
<1>a. Avail \in Nat /\ 0 \in 0 .. Avail
  BY <1>0 DEF TypeOK, Avail
<1>b. StreamSize(archive) \in Nat /\ Global(archive, current_position) \in Nat
  BY <1>0, PlacedNumbers DEF Numbers, IsArchive, IsDisks, StreamSize
<1>c. Global(archive, current_position) < StreamSize(archive)
  <2>1. current_position \in Places
    BY <1>0 DEF TypeOK, Places
  <2> QED
    BY <1>0, <2>1, InsideStream DEF Unfailing, Inside
<1>1. CASE AllProcessed
  <2>1. Advance(0, TRUE)
    BY <1>1 DEF AllProcessed
  <2> QED
    BY <2>1 DEF Advance, AfterInternal
<1>2. CASE Skip
  <2> DEFINE adv == Lesser(Gap, Avail)
  <2>1. /\ pc = "update" /\ Advance(adv, FALSE)
        /\ UNCHANGED << config, decoder, taken, held >>
    BY <1>2 DEF Skip, AtHeader
  <2>2. /\ Gap \in Nat \ {0}
        /\ Global(archive, current_position) + Gap <= HeaderStart(archive, current_index)
        /\ HeaderStart(archive, current_index) \in Nat
        /\ HeaderStart(archive, current_index) < StreamSize(archive)
    BY <1>2, SkipEnds
  <2>3. adv \in 0 .. Avail /\ adv <= Gap /\ (adv = 0 => Avail = 0)
    BY <1>a, <2>2 DEF Lesser
  <2> HIDE DEF adv
  <2>4. Global(archive, current_position) + adv < StreamSize(archive)
    BY <1>b, <2>2, <2>3
  <2>5. Avail' = 0
    BY <2>1, <2>3, <2>4, Asked
  <2> QED
    BY <1>u, <2>5
<1>3. CASE NeedMoreHeader
  <2>1. /\ pc = "update" /\ Advance(0, FALSE) /\ OnHeader
        /\ UNCHANGED << config, decoder, taken, held >>
        /\ Avail < LFH_MIN \/ ~ Parsed
    BY <1>3 DEF NeedMoreHeader, OnHeader, AtHeader
  <2>2. Here' = Here /\ archive' = archive
    <3>1. Global(archive, current_position) + 0 < StreamSize(archive)
      BY <1>b, <1>c
    <3> QED
      BY <1>a, <2>1, <3>1, Asked
  <2>3. /\ archive.lfh[Here].wellformed
        /\ archive.lfh[Here].header_size \in Nat /\ archive.lfh[Here].header_size >= LFH_MIN
    BY <2>1, HeaderEnds
  <2>4. ~ (archive.lfh[Here].header_size <= Avail)
    BY <1>a, <2>1, <2>3, ParametersAssumption DEF Parsed
  <2>5. Here = HeaderStart(archive, current_index)
    BY <2>1, HeaderHere DEF Located, OnHeader, AtHeader
  <2>6. Here + archive.lfh[Here].header_size > archive.base[passed]
    <3>1. Here \in Nat
      BY <1>0 DEF TypeOK, Here
    <3> QED
      BY <1>a, <1>d, <2>3, <2>4, <3>1
  <2>7. current_index < archive.files /\ ~ InData
    BY <2>1 DEF OnHeader, AtHeader
  <2>8. HeaderCut'
    BY <2>1, <2>2, <2>5, <2>6, <2>7 DEF HeaderCut, HeaderStart, InData, decoder
  <2> QED
    BY <2>8 DEF UsedUp
<1>4. CASE Overshoot \/ InvalidSignature \/ HeaderCallbackFails \/ HeaderRefused
           \/ DataCallbackFails \/ PipelineFails
  BY <1>4 DEF Overshoot, InvalidSignature, HeaderCallbackFails, HeaderRefused,
              DataCallbackFails, PipelineFails, Err
<1>5. CASE HeaderAccepted
  <2> DEFINE l == archive.lfh[Here]
  <2>1. /\ OnHeader /\ Avail >= l.header_size /\ Advance(l.header_size, FALSE)
        /\ UNCHANGED << config, taken, held >>
    BY <1>5 DEF HeaderAccepted, HeaderRead, Parsed
  <2>2. /\ pc = "update" /\ l.header_size \in Nat \ {0} /\ l.compressed_size \in Nat
        /\ Global(archive, current_position) + l.header_size + l.compressed_size
             < StreamSize(archive)
    BY <2>1, HeaderEnds
  <2> HIDE DEF l
  <2>3. /\ l.header_size \in 0 .. Avail
        /\ Global(archive, current_position) + l.header_size < StreamSize(archive)
    BY <1>a, <1>b, <2>1, <2>2
  <2>4. l.header_size = 0
    BY <2>1, <2>2, <2>3, Asked
  <2> QED
    BY <2>2, <2>4
<1>6. CASE ReadData
  <2>1. PICK count \in PipelineCounts(BytesToRead) :
          /\ Advance(count, FALSE)
          /\ count = BytesLeft \/ decoder_state' = [decoder_state EXCEPT !.pos = @ + count]
    BY <1>6 DEF ReadData
  <2> DEFINE l == decoder_state.lfh
             pos == decoder_state.pos
             start == DataStart(archive, current_index)
  <2>2. AtData /\ InData /\ pc = "update" /\ UNCHANGED << config, taken, held >>
    BY <1>6 DEF ReadData, AtData
  <2>3. /\ current_index \in Files
        /\ l.compressed_size \in Nat /\ pos \in Nat
        /\ count \in 0 .. Avail /\ count \in 0 .. BytesLeft
        /\ pos + count \in 0 .. l.compressed_size
    BY <1>0, <2>2, CountBounds
  <2>4. /\ HeaderStart(archive, current_index) \in DOMAIN archive.lfh
        /\ l = archive.lfh[HeaderStart(archive, current_index)]
        /\ l.uncompressed_size # 0
        /\ Global(archive, current_position) = start + pos
    BY <1>0, <2>2 DEF Delivered, DataInStep
  <2>5. start + l.compressed_size < StreamSize(archive) /\ start \in Nat
    BY <1>0, <2>3, <2>4, SaneFile
  <2>6. pos < l.compressed_size /\ l.compressed_size < UsizeMod
    BY <2>2, <2>4 DEF Unfailing, DataLeft, Fits
  <2> HIDE DEF start
  <2>7. count \in Nat /\ Global(archive, current_position) + count < StreamSize(archive)
    BY <1>a, <1>b, <2>3, <2>4, <2>5
  <2>8. count = 0 /\ Avail' = Avail /\ Here' = Here /\ archive' = archive
    BY <2>1, <2>2, <2>3, <2>7, Asked
  <2>9. BytesLeft \in Nat \ {0} /\ BytesLeft < UsizeMod
    BY <2>3, <2>6, ParametersAssumption DEF BytesLeft
  <2>10. BytesToRead = Lesser(BytesLeft, Avail)
    BY <2>9, UsizeFits DEF BytesToRead
  <2>11. CASE count = BytesToRead
    <3>1. Avail' = 0
      BY <1>a, <2>8, <2>9, <2>10, <2>11 DEF Lesser
    <3> QED
      BY <1>u, <3>1
  <2>12. CASE count # BytesToRead
    <3>1. l.compression_method = "Deflate" /\ l.encryption = "None" /\ BytesToRead # BytesLeft
      BY <2>3, <2>8, <2>9, <2>12 DEF PipelineCounts
    <3>2. BytesLeft > Avail
      BY <1>a, <2>9, <2>10, <3>1 DEF Lesser
    <3>3. decoder_state' = decoder_state
      <4>1. decoder_state' = [decoder_state EXCEPT !.pos = @ + count]
        BY <2>1, <2>8, <2>9
      <4>2. decoder_state = FileData(pos, l)
        BY <1>0, <2>2 DEF TypeOK, DecoderStateOK, InData, FileHeader, FileData
      <4> QED
        BY <2>3, <2>8, <4>1, <4>2 DEF FileData
    <3>4. Here + BytesLeft > archive.base[passed]
      <4>1. Here \in Nat
        BY <1>0 DEF TypeOK, Here
      <4> QED
        BY <1>a, <1>d, <2>9, <3>2, <4>1
    <3>5. DecompressorWaits'
      BY <2>2, <2>8, <3>1, <3>3, <3>4 DEF DecompressorWaits, InData, BytesLeft
    <3> QED
      BY <3>5 DEF UsedUp
  <2> QED
    BY <2>11, <2>12
<1> QED
  BY <1>1, <1>2, <1>3, <1>4, <1>5, <1>6 DEF UpdateInternal

(***************************************************************************)
(* What MultipartExtracts is about, and the invariant that keeps it: until *)
(* the end of the archive is reported the caller is in step with update    *)
(* and has lost nothing; and once it was reported, the disks that are      *)
(* still passed, in step or not, are not looked at.                        *)
(***************************************************************************)
Orderly ==
  /\ caller = "multipart" /\ faults = 0 /\ password = "right"
  /\ Sane(archive) /\ ~ lost
  /\ Fits(archive)

InOrder ==
  /\ error = "none"
  /\ drift = 0 /\ Delivered /\ Unfailing
  /\ ToEndOfDisk
  /\ pc = "ok" => UsedUp
  /\ pc = "idle" => passed = 0 /\ Avail = 0

Ended ==
  /\ error = "none" /\ pc \in {"update", "end"}
  /\ current_index = archive.files /\ ~ InData
  /\ Inside
  /\ \A i \in Files : out[i] = Content(archive, i)

ReadsInOrder == Orderly => InOrder \/ Ended

LEMMA InputKept ==
  ASSUME CallersPlaced, [CallersNext]_cvars
  PROVE  UNCHANGED << archive, password, caller >>
<1>1. ASSUME Call PROVE UNCHANGED config /\ caller' = caller
  BY <1>1 DEF Call, UpdateInternal, AllProcessed, Overshoot, Skip, NeedMoreHeader,
         InvalidSignature, HeaderCallbackFails, HeaderRefused, HeaderAccepted,
         ReadData, DataCallbackFails, PipelineFails
<1>2. ASSUME Again PROVE UNCHANGED config /\ caller' = caller
  BY <1>2 DEF Again, Receive, Update, Recover, Crash, StartOver
<1>3. ASSUME CallAgain \/ PassDisk PROVE UNCHANGED config /\ caller' = caller
  BY <1>3 DEF CallAgain, PassDisk
<1>4. ASSUME UNCHANGED cvars PROVE UNCHANGED config /\ caller' = caller
  BY <1>4 DEF cvars, vars, config
<1> QED
  BY <1>1, <1>2, <1>3, <1>4 DEF CallersNext, config

\* No failure, now or before.
LEMMA NoFault ==
  ASSUME CallersPlaced, [CallersNext]_cvars, faults' = 0
  PROVE  faults = 0 /\ ~ Fault
<1>1. faults \in Nat
  BY DEF CallersPlaced, Placed, TypeOK
<1>2. ~ Fault
  BY <1>1 DEF Fault
<1>3. faults' = faults
  <2>1. ASSUME Call PROVE faults' = faults
    BY <1>2, <2>1 DEF Call, UpdateInternal, AllProcessed, Overshoot, Skip, NeedMoreHeader,
           InvalidSignature, HeaderCallbackFails, HeaderRefused, HeaderAccepted,
           ReadData, DataCallbackFails, PipelineFails
  <2>2. ASSUME Again PROVE faults' = faults
    BY <1>2, <2>2 DEF Again, Receive, Update, Recover, Crash
  <2>3. ASSUME CallAgain \/ PassDisk PROVE faults' = faults
    BY <2>3 DEF CallAgain, PassDisk
  <2>4. ASSUME UNCHANGED cvars PROVE faults' = faults
    BY <2>4 DEF cvars, vars
  <2> QED
    BY <2>1, <2>2, <2>3, <2>4 DEF CallersNext
<1> QED
  BY <1>2, <1>3

LEMMA OrderlyBefore ==
  ASSUME CallersPlaced, [CallersNext]_cvars, Orderly'
  PROVE  Orderly /\ ~ Fault
<1>1. UNCHANGED << archive, password, caller >>
  BY InputKept
<1>2. faults' = 0
  BY DEF Orderly
<1>3. faults = 0 /\ ~ Fault
  BY <1>2, NoFault
<1>4. lost => lost'
  BY DEF CallersNext, Call, Again, CallAgain, PassDisk, cvars
<1> QED
  BY <1>1, <1>3, <1>4 DEF Orderly

\* A turn that no callback and no data fails ends without an error.
LEMMA TurnWithoutFault ==
  ASSUME Unfailing', password = "right", UpdateInternal, ~ Fault,
         error = "none"
  PROVE  error' = "none"
<1>1. error' \in {"none", "FromDecodeCallback", "Pipeline"}
  BY DEF Unfailing, OnlyFaultsFail
<1>2. ASSUME NEW adv, NEW end, Advance(adv, end)
      PROVE  error' \in {"none", "ExtraData"}
  BY <1>2 DEF Advance
<1>3. CASE AllProcessed \/ Skip \/ NeedMoreHeader \/ HeaderAccepted \/ ReadData
  <2>1. error' \in {"none", "ExtraData"}
    BY <1>2, <1>3 DEF AllProcessed, Skip, NeedMoreHeader, HeaderAccepted, ReadData
  <2> QED
    BY <1>1, <2>1
<1>4. CASE Overshoot \/ InvalidSignature \/ HeaderRefused
  BY <1>1, <1>4 DEF Overshoot, InvalidSignature, HeaderRefused, Err
<1>5. CASE HeaderCallbackFails \/ DataCallbackFails \/ PipelineFails
  BY <1>5 DEF HeaderCallbackFails, DataCallbackFails, PipelineFails
<1> QED
  BY <1>3, <1>4, <1>5 DEF UpdateInternal

LEMMA TurnInOrder ==
  ASSUME CallersPlaced, CallersPlaced', Orderly, InOrder, Call, ~ Fault
  PROVE  InOrder'
<1>1. UpdateInternal /\ UNCHANGED << caller, drift, spoilt, passed >> /\ Next /\ pc = "update"
  BY InACall DEF Call, Next
<1>2. Located /\ Delivered /\ Unfailing
  BY InStepUnlessDrifted DEF InOrder
<1>3. Located' /\ Delivered'
  BY <1>1, <1>2, LocatedNext, DeliveredNext
<1>4. Unfailing'
  BY <1>1, <1>2, <1>3, UnfailingNext
<1>5. error' = "none"
  BY <1>1, <1>4, TurnWithoutFault DEF InOrder, Orderly
<1>6. UNCHANGED << archive, taken, held, passed, drift >>
  BY <1>1 DEF UpdateInternal, AllProcessed, Overshoot, Skip, NeedMoreHeader,
         InvalidSignature, HeaderCallbackFails, HeaderRefused, HeaderAccepted,
         ReadData, DataCallbackFails, PipelineFails, config
<1>7. passed \in 0 .. archive.disks
  BY DEF CallersPlaced, CallersTypes
<1>8. pc' = "ok" => UsedUp'
  BY <1>1, <1>2, <1>6, <1>7, DiskUsedUp DEF Orderly, InOrder
<1>9. pc' # "idle"
  BY <1>1 DEF UpdateInternal, AllProcessed, Overshoot, Skip, NeedMoreHeader,
         InvalidSignature, HeaderCallbackFails, HeaderRefused, HeaderAccepted,
         ReadData, DataCallbackFails, PipelineFails, Err, Advance, AfterInternal
<1>10. drift' = 0 /\ ToEndOfDisk'
  BY <1>6 DEF InOrder, ToEndOfDisk
<1> QED
  BY <1>3, <1>4, <1>5, <1>8, <1>9, <1>10 DEF InOrder

\* The next disk.
LEMMA DiskInOrder ==
  ASSUME CallersPlaced, CallersPlaced', Orderly, InOrder, PassDisk, ~ lost'
  PROVE  InOrder' \/ Ended'
<1>0. Located /\ Delivered /\ Unfailing
  BY InStepUnlessDrifted DEF InOrder
<1>1. /\ taken' = taken + held /\ held' = archive.size[passed] /\ buf_offset' = 0
      /\ drift' = drift - (held - buf_offset)
      /\ passed < archive.disks /\ passed' = passed + 1
      /\ pc \in {"idle", "ok", "end"} /\ pc' = "update"
      /\ UNCHANGED << config, decoder, current_position, error, out, ckpt, faults >>
  BY DEF PassDisk
<1>2. /\ IsArchive(archive) /\ IsDisks(archive) /\ archive.disks \in Nat
      /\ held \in Nat /\ taken \in Nat /\ buf_offset \in 0 .. held
      /\ passed \in 0 .. archive.disks - 1
  <2>1. /\ IsArchive(archive) /\ IsDisks(archive) /\ archive.disks \in Nat
        /\ held \in Nat /\ taken \in Nat /\ buf_offset \in 0 .. held
    BY DEF CallersPlaced, Placed, TypeOK, IsArchive, IsDisks
  <2> QED
    BY <1>1, <2>1 DEF CallersPlaced, CallersTypes
<1>3. CASE pc = "end"
  <2>1. current_index = archive.files
    BY <1>0, <1>3 DEF Unfailing, EndAfterLast
  <2>2. ~ InData
    BY <1>0, <1>2, <1>3, <2>1 DEF Delivered, DataInStep, IsArchive
  <2>3. \A i \in Files : out[i] = Content(archive, i)
    BY <1>0, <1>3, EndDelivers DEF EndMeansAllContent
  <2>4. Ended'
    BY <1>0, <1>1, <2>1, <2>2, <2>3
       DEF Ended, InOrder, Unfailing, Inside, InData, Files, config, decoder
  <2> QED
    BY <2>4
<1>4. CASE pc \in {"idle", "ok"}
  <2>1. held - buf_offset = 0
    BY <1>4 DEF PassDisk, Avail
  <2>2. drift' = 0
    BY <1>1, <2>1 DEF InOrder
  <2>3. ToEndOfDisk'
    <3>1. /\ archive.base[passed] \in Nat /\ archive.size[passed] \in Nat
          /\ archive.base[passed + 1] = archive.base[passed] + archive.size[passed]
      BY <1>2, DiskFacts
    <3>2. taken + held = archive.base[passed]
      BY DEF InOrder, ToEndOfDisk
    <3>3. taken' + held' = archive.base[passed + 1]
      BY <1>1, <3>1, <3>2
    <3> QED
      BY <1>1, <3>3 DEF ToEndOfDisk, config
  <2>4. Delivered'
    BY <1>0, <1>1, <1>4, Quiet DEF config, decoder
  <2>5. Unfailing'
    BY <1>0, <1>1, <1>4
       DEF Unfailing, OnlyFaultsFail, Inside, HeaderAhead, DataLeft, EndAfterLast, InData,
           config, decoder
  <2>6. InOrder'
    BY <1>1, <2>2, <2>3, <2>4, <2>5 DEF InOrder
  <2> QED
    BY <2>6
<1> QED
  BY <1>1, <1>3, <1>4

\* Behind the end every disk is passed over.
LEMMA EndKept ==
  ASSUME CallersPlaced, Ended, caller = "multipart", [CallersNext]_cvars
  PROVE  Ended'
<1>1. CASE Call
  <2>1. archive.files \in Nat /\ IsArchive(archive)
    BY DEF CallersPlaced, Placed, TypeOK, IsArchive
  <2>2. AllProcessed
    <3>1. ~ (current_index < archive.files)
      BY <2>1 DEF Ended
    <3>2. ~ AtHeader /\ ~ AtData
      BY <3>1 DEF AtHeader, AtData
    <3> QED
      BY <1>1, <3>2
         DEF Call, UpdateInternal, Overshoot, Skip, NeedMoreHeader, InvalidSignature,
             HeaderCallbackFails, HeaderRefused, HeaderAccepted, HeaderRead, OnHeader,
             ReadData, DataCallbackFails, PipelineFails
  <2>3. Advance(0, TRUE) /\ UNCHANGED << config, decoder, out >>
    BY <2>2 DEF AllProcessed
  <2>4. [current_position EXCEPT !.offset = @ + 0] = current_position
    BY DEF CallersPlaced, Placed, TypeOK
  <2>5. current_position \in Places
    BY DEF CallersPlaced, Placed, TypeOK, Places
  <2>6. ~ (current_position.offset >= archive.size[current_position.disk])
    BY <2>1, <2>5, PlaceFacts DEF Ended, Inside, Places
  <2>7. current_position' = current_position /\ pc' = "end" /\ error' = error
    BY <2>3, <2>4, <2>6 DEF Advance, AfterInternal
  <2> QED
    BY <2>3, <2>7 DEF Ended, Inside, InData, Files, config, decoder
<1>2. CASE PassDisk
  BY <1>2 DEF PassDisk, Ended, Inside, InData, Files, config, decoder
<1>3. CASE UNCHANGED cvars
  BY <1>3 DEF cvars, vars, Ended, Inside, InData, Files
<1>4. ~ Again /\ ~ CallAgain
  BY DEF Again, CallAgain
<1> QED
  BY <1>1, <1>2, <1>3, <1>4 DEF CallersNext

LEMMA ReadsInOrderNext ==
  CallersPlaced /\ CallersPlaced' /\ ReadsInOrder /\ [CallersNext]_cvars => ReadsInOrder'
<1> SUFFICES ASSUME CallersPlaced, CallersPlaced', ReadsInOrder, [CallersNext]_cvars, Orderly'
             PROVE  InOrder' \/ Ended'
  BY DEF ReadsInOrder
<1>1. Orderly /\ ~ Fault
  BY OrderlyBefore
<1>2. CASE Ended
  BY <1>1, <1>2, EndKept DEF Orderly
<1>3. CASE InOrder
  <2>1. CASE Call
    BY <1>1, <1>3, <2>1, TurnInOrder
  <2>2. CASE PassDisk
    <3>1. ~ lost'
      BY DEF Orderly
    <3> QED
      BY <1>1, <1>3, <2>2, <3>1, DiskInOrder
  <2>3. CASE UNCHANGED cvars
    <3>1. UNCHANGED vars /\ drift' = drift /\ passed' = passed
      BY <2>3 DEF cvars
    <3>2. Located /\ Delivered /\ Unfailing
      BY <1>3, InStepUnlessDrifted DEF InOrder
    <3>3. Located' /\ Delivered'
      BY <3>1, <3>2, LocatedNext, DeliveredNext
    <3>4. Unfailing'
      BY <3>1, <3>2, <3>3, UnfailingNext
    <3>5. UsedUp' = UsedUp
      BY <3>1 DEF UsedUp, HeaderCut, DecompressorWaits, Avail, Here, HeaderStart, InData, BytesLeft,
                  vars
    <3> QED
      BY <1>3, <3>1, <3>3, <3>4, <3>5 DEF InOrder, vars, ToEndOfDisk, Avail
  <2>4. ~ Again /\ ~ CallAgain
    BY <1>1 DEF Again, CallAgain, Orderly
  <2> QED
    BY <2>1, <2>2, <2>3, <2>4 DEF CallersNext
<1> QED
  BY <1>1, <1>2, <1>3 DEF ReadsInOrder

LEMMA ReadsInOrderInit == CallersInit => ReadsInOrder
<1> SUFFICES ASSUME CallersInit, Orderly PROVE InOrder
  BY DEF ReadsInOrder
<1>1. Init /\ drift = 0 /\ passed = 0
  BY DEF CallersInit
<1>2. Delivered /\ Unfailing
  BY <1>1, DeliveredInit, UnfailingInit DEF Orderly
<1>3. archive.base[0] = 0
  BY <1>1, ArchivesAssumption DEF Init, IsArchive, IsDisks
<1> QED
  BY <1>1, <1>2, <1>3 DEF InOrder, Init, ToEndOfDisk, Avail

\* The last disk is used up only at the end.
LEMMA LastDiskEnds ==
  ASSUME CallersPlaced, InOrder, passed = archive.disks, pc # "update"
  PROVE  pc = "end"
<1>1. /\ IsArchive(archive) /\ IsDisks(archive) /\ archive.disks \in Nat \ {0}
      /\ held \in Nat /\ taken \in Nat /\ buf_offset \in 0 .. held
      /\ current_position \in Places /\ current_index \in 0 .. archive.files
      /\ pc \in {"idle", "update", "ok", "end", "error"}
      /\ pc # "error"
  BY DEF CallersPlaced, Placed, TypeOK, IsArchive, IsDisks, Places, InOrder
<1>2. Located /\ Placed
  BY InStepUnlessDrifted DEF InOrder, Located
<1> SUFFICES ASSUME pc # "end" PROVE FALSE
  OBVIOUS
<1>3. pc = "ok" /\ UsedUp
  BY <1>1 DEF InOrder
<1>4. Global(archive, current_position) = Here /\ archive.base[passed] = StreamSize(archive)
  BY <1>2 DEF Located, PositionInStep, InOrder, StreamSize
<1>5. StreamSize(archive) \in Nat /\ Here \in Nat /\ archive.files \in Nat
  BY <1>1 DEF StreamSize, IsDisks, IsArchive, Here
<1>6. ASSUME Avail = 0 PROVE FALSE
  <2>1. Here = StreamSize(archive)
    BY <1>1, <1>4, <1>6 DEF InOrder, Avail, ToEndOfDisk, Here
  <2>2. Global(archive, current_position) < StreamSize(archive)
    BY <1>1, InsideStream DEF InOrder, Unfailing, Inside
  <2> QED
    BY <1>4, <1>5, <2>1, <2>2
<1>7. ASSUME HeaderCut PROVE FALSE
  <2>1. current_index \in Files
    BY <1>1, <1>5, <1>7 DEF HeaderCut, Files
  <2> QED
    BY <1>1, <1>4, <1>5, <1>7, <2>1, SaneFile DEF HeaderCut, InOrder, Unfailing
<1>8. ASSUME DecompressorWaits PROVE FALSE
  <2> DEFINE l == archive.lfh[HeaderStart(archive, current_index)]
  <2>1. /\ current_index \in Files /\ decoder_state.lfh = l
        /\ Here = DataStart(archive, current_index) + decoder_state.pos
    BY <1>1, <1>3, <1>4, <1>5, <1>8 DEF DecompressorWaits, InOrder, Delivered, DataInStep, Files
  <2>2. decoder_state.pos \in Nat
    BY <1>2, <1>8 DEF DecompressorWaits, Placed, TypeOK, DecoderStateOK, InData, FileHeader, LocalFileHeader
  <2>3. /\ l.compressed_size \in Nat /\ DataStart(archive, current_index) \in Nat
        /\ DataStart(archive, current_index) + l.compressed_size < StreamSize(archive)
    BY <1>1, <2>1, SaneFile DEF InOrder, Unfailing
  <2>4. Here + (l.compressed_size - decoder_state.pos) > StreamSize(archive)
    BY <1>4, <1>8, <2>1 DEF DecompressorWaits, BytesLeft
  <2> HIDE DEF l
  <2> QED
    BY <1>5, <2>1, <2>2, <2>3, <2>4
<1> QED
  BY <1>3, <1>6, <1>7, <1>8 DEF UsedUp

(***************************************************************************)
(* With files that usize can count, on every archive of a correct writer,  *)
(* examples/multipart.rs, which ignores how much of a disk update          *)
(* consumed, leaves bytes of a disk only at a header or at unencrypted     *)
(* deflated data that go on behind it; until it has dropped some, no call  *)
(* fails, and if it drops none it gets every file.                         *)
(***************************************************************************)
THEOREM MultipartGetsAll ==
  ASSUME \A a \in Archives : Sane(a) => Fits(a)
  PROVE  CallersSpec => []MultipartExtracts
<1> DEFINE Small == Sane(archive) => Fits(archive)
<1>1. CallersInit => Small
  BY DEF CallersInit, Init
<1>2. CallersPlaced /\ Small /\ [CallersNext]_cvars => Small'
  BY InputKept
<1>3. CallersPlaced /\ Small /\ ReadsInOrder => MultipartExtracts
  <2> SUFFICES ASSUME CallersPlaced, Orderly, ReadsInOrder
               PROVE  /\ error = "none"
                      /\ pc = "ok" /\ Avail # 0 => HeaderCut \/ DecompressorWaits
                      /\ passed = archive.disks /\ pc # "update" =>
                           \A i \in Files : out[i] = Content(archive, i)
    BY DEF MultipartExtracts, Orderly
  <2>1. CASE Ended
    BY <2>1 DEF Ended
  <2>2. CASE InOrder
    <3>1. ASSUME passed = archive.disks, pc # "update"
          PROVE  \A i \in Files : out[i] = Content(archive, i)
      <4>1. pc = "end"
        BY <2>2, <3>1, LastDiskEnds
      <4>2. Located /\ Delivered /\ Unfailing
        BY <2>2, InStepUnlessDrifted DEF InOrder
      <4> QED
        BY <4>1, <4>2, EndDelivers DEF EndMeansAllContent
    <3> QED
      BY <2>2, <3>1 DEF InOrder, UsedUp
  <2> QED
    BY <2>1, <2>2 DEF ReadsInOrder
<1>4. CallersSpec => CallersInit /\ [][CallersNext]_cvars
  BY DEF CallersSpec, CallersNext
<1> HIDE DEF Small
<1> QED
  BY <1>1, <1>2, <1>3, <1>4, CallersPlacedInit, CallersPlacedNext, ReadsInOrderInit,
     ReadsInOrderNext, PTL
=============================================================================
