---------------------------- MODULE ReadCdProofs ----------------------------
(***************************************************************************)
(* Proofs about ReadCd for every set of archives, every size of the        *)
(* records and any failures of the provider.                               *)
(***************************************************************************)
EXTENDS ReadCd, StreamProofs, FiniteSetTheorems

Calls == [position : [disk : Disks, offset : Nat], length : Nat]

\* What the actions that map a span leave alone, or set to what they found.
Kept ==
  /\ asked \in Calls
  /\ eocd32 \in EndOfCentralDirectory32
  /\ headers \in Seq(Nat)
  /\ offset \in Nat
  /\ faults \in 0 .. MaxFaults

\* The spans that start on their disk: those that are named by their place in
\* the stream, and all of them when the archive names its disks correctly.
OnDisk == stream.is_cut \/ goal = "cdld" \/ NamesItsDisks(stream)

(***************************************************************************)
(* The inductive invariant.  The guarantee of a call needs that the cursor *)
(* is on its disk, which it is when the span starts there, and stays as    *)
(* the span goes on at the start of the next disk.                         *)
(***************************************************************************)
Located ==
  /\ TypeOK
  /\ SpanInStep
  /\ GuaranteeKept
  /\ pc = "start" => goal = "cdld"
  /\ pc = "asking" /\ OnDisk => ~ Beyond

-----------------------------------------------------------------------------
(***************************************************************************)
(* A position on a disk is a place in the stream, and the disks are of     *)
(* natural sizes.                                                          *)
(***************************************************************************)
LEMMA PlaceFacts ==
  ASSUME TypeOK, NEW pos \in [disk : Disks, offset : Nat]
  PROVE  /\ stream.size[pos.disk] \in Nat /\ stream.base[pos.disk] \in Nat
         /\ Global(stream, pos) \in Nat /\ StreamSize(stream) \in Nat
         /\ stream.disks \in Nat \ {0}
<1>1. IsDisks(stream) /\ pos.disk \in 0 .. stream.disks - 1 /\ pos.offset \in Nat
  BY DEF TypeOK, IsStream, Disks
<1>2. stream.size[pos.disk] \in Nat /\ stream.base[pos.disk] \in Nat /\ StreamSize(stream) \in Nat
  BY <1>1, DiskFacts
<1> QED
  BY <1>1, <1>2 DEF Global, IsDisks

(***************************************************************************)
(* The type of the constant and of the sizes that are built from it.       *)
(***************************************************************************)
LEMMA SizeFacts ==
  /\ SIGNATURE \in Nat \ {0} /\ CDLD_MAX_SIZE \in Nat
  /\ SIGNATURE + EOCD64_CONSTANT_SIZE \in Nat /\ MaxFaults \in Nat
  BY SizesAssumption DEF CDLD_MAX_SIZE, EOCD32_MAX_SIZE

(***************************************************************************)
(* A failure ends the reading and leaves the span as it was.               *)
(***************************************************************************)
LEMMA Failed ==
  ASSUME Located, NEW kind \in ReadErrors, Fail(kind), stream' = stream, Kept',
         OnDisk => Guarantee'
  PROVE  Located' /\ HeadersTile'
<1>1. TypeOK'
  <2>1. pc' = "error" /\ error' = kind /\ kind # "none"
    BY DEF Fail, ReadErrors
  <2>2. UNCHANGED << goal, span, cursor, left, bytes >>
    BY DEF Fail
  <2> QED
    BY <2>1, <2>2 DEF Located, TypeOK, Kept, Calls, Disks
<1>2. SpanInStep' /\ GuaranteeKept' /\ (pc = "start" => goal = "cdld")'
      /\ (pc = "asking" /\ OnDisk => ~ Beyond)' /\ HeadersTile'
  BY DEF Located, Fail, SpanInStep, GuaranteeKept, OnDisk, HeadersTile
<1> QED
  BY <1>1, <1>2 DEF Located

(***************************************************************************)
(* A span that starts on a disk is asked for from its start.               *)
(***************************************************************************)
LEMMA Asked ==
  ASSUME Located, NEW g \in {"cdld", "eocd64", "cd"},
         NEW pos \in [disk : Disks, offset : Nat], NEW length \in Nat,
         Ask(g, pos, length), stream' = stream, Kept', asked' = asked,
         pc # "error", g = "cdld" => goal = "cdld",
         stream.is_cut \/ g = "cdld" \/ NamesItsDisks(stream)
           => pos.offset <= stream.size[pos.disk]
  PROVE  Located' /\ HeadersTile'
<1>1. /\ pc' = "asking" /\ error' = error /\ goal' = g
      /\ span' = [start |-> Global(stream, pos), length |-> length]
      /\ cursor' = pos /\ left' = length /\ bytes' = << >>
  BY DEF Ask
<1>2. Global(stream, pos) \in Nat /\ stream.size[pos.disk] \in Nat
  BY PlaceFacts DEF Located
<1>3. TypeOK'
  <2>1. IsStream(stream) /\ error = "none"
    BY DEF Located, TypeOK
  <2>2. << >> \in Seq(Nat)
    OBVIOUS
  <2>3. span' \in [start : Nat, length : Nat]
    BY <1>1, <1>2
  <2> QED
    BY <1>1, <2>1, <2>2, <2>3 DEF TypeOK, Kept, Calls, Disks
<1>4. SpanInStep'
  <2>1. Bytes(Global(stream, pos), 0) = << >>
    BY <1>2, BytesSeq
  <2> QED
    BY <1>1, <1>2, <2>1 DEF SpanInStep
<1>5. GuaranteeKept'
  BY <1>1 DEF Located, GuaranteeKept, Guarantee, WithinDisk
<1>6. (pc = "asking" /\ OnDisk => ~ Beyond)'
  BY <1>1, <1>2 DEF OnDisk, Beyond
<1> QED
  BY <1>1, <1>3, <1>4, <1>5, <1>6 DEF Located, HeadersTile

(***************************************************************************)
(* Mapping a span by its place in the stream.                              *)
(***************************************************************************)
LEMMA MappedGlobal ==
  ASSUME Located, NEW g \in {"cdld", "eocd64", "cd"}, NEW at \in Nat, NEW length \in Nat,
         MapGlobal(g, at, length), stream' = stream, Kept', asked' = asked,
         pc # "error", g = "cdld" => goal = "cdld"
  PROVE  Located' /\ HeadersTile'
<1>1. CASE \E d \in Disks :
             /\ Holds(stream, d, at)
             /\ Ask(g, [disk |-> d, offset |-> at - stream.base[d]], length)
  <2>1. PICK d \in Disks :
               /\ Holds(stream, d, at)
               /\ Ask(g, [disk |-> d, offset |-> at - stream.base[d]], length)
    BY <1>1
  <2> DEFINE pos == [disk |-> d, offset |-> at - stream.base[d]]
  <2>2. stream.base[d] \in Nat /\ stream.size[d] \in Nat
    BY DiskFacts DEF Located, TypeOK, IsStream, Disks
  <2>3. pos \in [disk : Disks, offset : Nat] /\ pos.offset <= stream.size[pos.disk]
    BY <2>1, <2>2 DEF Holds
  <2> QED
    BY <2>1, <2>3, Asked
<1>2. CASE Fail("Map")
  <2>1. OnDisk => Guarantee'
    BY DEF Located, GuaranteeKept, OnDisk, Guarantee, WithinDisk
  <2>2. "Map" \in ReadErrors
    BY DEF ReadErrors
  <2> QED
    BY <1>2, <2>1, <2>2, Failed
<1> QED
  BY <1>1, <1>2 DEF MapGlobal

(***************************************************************************)
(* Mapping a span by a position that the archive names.                    *)
(***************************************************************************)
LEMMA Mapped ==
  ASSUME Located, NEW g \in {"eocd64", "cd"}, NEW pos \in Position, NEW length \in Nat,
         Map(g, pos, length), stream' = stream, Kept', asked' = asked, pc # "error",
         NamesItsDisks(stream) /\ ~ stream.is_cut => OnItsDisk(stream, pos.disk, pos.offset)
  PROVE  Located' /\ HeadersTile'
<1>1. pos.offset \in Nat
  BY DEF Position
<1>2. CASE stream.is_cut
  BY <1>1, <1>2, MappedGlobal DEF Map
<1>3. CASE ~ stream.is_cut /\ pos.disk \in Disks /\ Ask(g, pos, length)
  <2>1. pos \in [disk : Disks, offset : Nat]
    BY <1>3 DEF Position
  <2>2. NamesItsDisks(stream) => pos.offset <= stream.size[pos.disk]
    BY <1>3 DEF OnItsDisk, Disks
  <2> QED
    BY <1>3, <2>1, <2>2, Asked
<1>4. CASE ~ stream.is_cut /\ Fail("Map")
  <2>1. OnDisk => Guarantee'
    BY DEF Located, GuaranteeKept, OnDisk, Guarantee, WithinDisk
  <2>2. "Map" \in ReadErrors
    BY DEF ReadErrors
  <2> QED
    BY <1>4, <2>1, <2>2, Failed
<1> QED
  BY <1>2, <1>3, <1>4 DEF Map, MapLocal

-----------------------------------------------------------------------------
(***************************************************************************)
(* A call is no longer than what is left, and as long as its disk allows;  *)
(* only a call of no bytes is answered from beyond a disk.                 *)
(***************************************************************************)
LEMMA CallFacts ==
  ASSUME Located, pc = "asking"
  PROVE  /\ FromThis \in Nat /\ FromThis <= left
         /\ Call \in Calls
         /\ OnDisk => WithinDisk(Call)
         /\ Answerable => FromThis = left \/ cursor.offset + FromThis = stream.size[cursor.disk]
<1>1. left \in Nat /\ cursor \in [disk : Disks, offset : Nat]
  BY DEF Located, TypeOK
<1>2. stream.size[cursor.disk] \in Nat
  BY <1>1, PlaceFacts DEF Located
<1>3. FromThis \in Nat /\ FromThis <= left
      /\ (~ Beyond => cursor.offset + FromThis <= stream.size[cursor.disk])
      /\ (FromThis = left \/ cursor.offset + FromThis = stream.size[cursor.disk])
  BY <1>1, <1>2 DEF FromThis, Beyond, Lesser
<1>4. Call \in Calls
  BY <1>1, <1>3 DEF Call, Calls
<1>5. OnDisk => WithinDisk(Call)
  BY <1>3 DEF Located, Call, WithinDisk
<1> QED
  BY <1>3, <1>4, <1>5

LEMMA Provided ==
  ASSUME Located, Provide
  PROVE  Located' /\ HeadersTile'
<1>1. pc = "asking" /\ Answerable /\ asked' = Call
      /\ bytes' = bytes \o Bytes(Global(stream, cursor), FromThis)
      /\ left' = left - FromThis /\ NextCall
      /\ UNCHANGED << stream, error, goal, span, eocd32, headers, offset, faults >>
  BY DEF Provide, result
<1>2. /\ FromThis \in Nat /\ FromThis <= left /\ Call \in Calls
      /\ OnDisk => WithinDisk(Call)
      /\ FromThis = left \/ cursor.offset + FromThis = stream.size[cursor.disk]
  BY <1>1, CallFacts
<1>3. /\ IsStream(stream) /\ error = "none" /\ bytes \in Seq(Nat) /\ left \in Nat
      /\ span \in [start : Nat, length : Nat] /\ cursor \in [disk : Disks, offset : Nat]
      /\ Len(bytes) + left = span.length
      /\ Global(stream, cursor) = span.start + Len(bytes)
  BY <1>1 DEF Located, TypeOK, SpanInStep
<1>4. /\ stream.size[cursor.disk] \in Nat /\ stream.base[cursor.disk] \in Nat
      /\ stream.disks \in Nat \ {0}
  BY <1>3, PlaceFacts DEF Located
<1>5. bytes' = Bytes(span.start, Len(bytes) + FromThis) /\ bytes' \in Seq(Nat)
      /\ Len(bytes') = Len(bytes) + FromThis
  <2> DEFINE n == Len(bytes)
             g == span.start
  <2>1. n \in Nat /\ g \in Nat /\ bytes = Bytes(g, n)
        /\ bytes' = bytes \o Bytes(g + n, FromThis)
    BY <1>1, <1>3 DEF Located, SpanInStep
  <2> HIDE DEF n, g
  <2>2. bytes' = Bytes(g, n + FromThis) /\ n + FromThis \in Nat
    <3>1. Bytes(g, n) \o Bytes(g + n, FromThis) = Bytes(g, n + FromThis)
      BY <1>2, <2>1, BytesConcat
    <3> QED
      BY <1>2, <2>1, <3>1
  <2>3. bytes' \in Seq(Nat) /\ Len(bytes') = n + FromThis
    BY <2>1, <2>2, BytesSeq
  <2> QED
    BY <2>2, <2>3 DEF n, g
<1>6. /\ left' \in Nat
      /\ bytes' = Bytes(span'.start, Len(bytes')) /\ Len(bytes') + left' = span'.length
  <2>1. bytes' = Bytes(span'.start, Len(bytes'))
    BY <1>1, <1>5
  <2>2. Len(bytes) \in Nat /\ left \in Nat /\ FromThis \in Nat /\ FromThis <= left
        /\ left' = left - FromThis /\ Len(bytes') = Len(bytes) + FromThis
    BY <1>1, <1>2, <1>3, <1>5
  <2>3. Len(bytes') + left' = Len(bytes) + left /\ left' \in Nat
    BY <2>2
  <2> QED
    BY <1>1, <1>3, <2>1, <2>2, <2>3
<1>7. GuaranteeKept'
  BY <1>1, <1>2 DEF GuaranteeKept, Guarantee, OnDisk, WithinDisk
<1>8. CASE left' = 0 \/ cursor.disk + 1 = stream.disks
  <2>1. pc' = "read" /\ cursor' = cursor
    BY <1>1, <1>8 DEF NextCall
  <2>2. TypeOK'
    BY <1>1, <1>2, <1>3, <1>5, <1>6, <2>1 DEF Located, TypeOK, Calls, Disks
  <2>3. left' > 0 => span.start + Len(bytes') = StreamSize(stream)
    <3> SUFFICES ASSUME left' > 0
                 PROVE  span.start + Len(bytes') = StreamSize(stream)
      OBVIOUS
    <3>1. cursor.offset + FromThis = stream.size[cursor.disk] /\ cursor.disk + 1 = stream.disks
      BY <1>1, <1>2, <1>3, <1>8
    <3>2. StreamSize(stream) = stream.base[cursor.disk] + stream.size[cursor.disk]
      BY <1>3, <3>1, DiskFacts DEF IsStream, Disks
    <3>3. stream.base[cursor.disk] + cursor.offset = span.start + Len(bytes)
      BY <1>3 DEF Global
    <3>4. Len(bytes) \in Nat /\ span.start \in Nat /\ cursor.offset \in Nat
          /\ Len(bytes') = Len(bytes) + FromThis
      BY <1>3, <1>5
    <3>5. span.start + Len(bytes') = (stream.base[cursor.disk] + cursor.offset) + FromThis
      BY <1>2, <3>3, <3>4
    <3>6. (stream.base[cursor.disk] + cursor.offset) + FromThis
            = stream.base[cursor.disk] + stream.size[cursor.disk]
      BY <1>2, <1>4, <3>1, <3>4
    <3> QED
      BY <3>2, <3>5, <3>6
  <2>4. SpanInStep'
    BY <1>1, <1>6, <2>1, <2>3 DEF SpanInStep
  <2> QED
    BY <1>7, <2>1, <2>2, <2>4 DEF Located, HeadersTile
<1>9. CASE left' # 0 /\ cursor.disk + 1 # stream.disks
  <2>1. pc' = "asking" /\ cursor' = [disk |-> cursor.disk + 1, offset |-> 0]
    BY <1>1, <1>9 DEF NextCall
  <2>2. cursor.disk + 1 \in Disks /\ cursor' \in [disk : Disks, offset : Nat]
    BY <1>3, <1>4, <1>9, <2>1 DEF Disks
  <2>3. TypeOK'
    BY <1>1, <1>2, <1>3, <1>5, <1>6, <2>1, <2>2 DEF Located, TypeOK, Calls, Disks
  <2>4. stream.base[cursor.disk + 1] = stream.base[cursor.disk] + stream.size[cursor.disk]
    BY <1>3, DiskFacts DEF IsStream, Disks
  <2>5. cursor.offset + FromThis = stream.size[cursor.disk]
    BY <1>1, <1>2, <1>3, <1>9
  <2>6. Global(stream, cursor') = span.start + Len(bytes')
    <3>1. stream.base[cursor.disk] + cursor.offset = span.start + Len(bytes)
      BY <1>3 DEF Global
    <3>2. /\ Len(bytes) \in Nat /\ span.start \in Nat /\ cursor.offset \in Nat
          /\ FromThis \in Nat
          /\ Len(bytes') = Len(bytes) + FromThis
      BY <1>2, <1>3, <1>5
    <3>3. Global(stream, cursor') = stream.base[cursor.disk] + stream.size[cursor.disk]
      BY <1>4, <2>1, <2>4 DEF Global
    <3>4. stream.base[cursor.disk] + stream.size[cursor.disk] = span.start + Len(bytes) + FromThis
      BY <1>4, <2>5, <3>1, <3>2
    <3> QED
      BY <3>2, <3>3, <3>4
  <2>7. SpanInStep'
    BY <1>1, <1>6, <2>1, <2>6 DEF SpanInStep
  <2>8. ~ Beyond'
    <3>1. stream.size[cursor.disk + 1] \in Nat
      BY <1>3, <2>2, DiskFacts DEF IsStream, Disks
    <3> QED
      BY <1>1, <2>1, <3>1 DEF Beyond
  <2> QED
    BY <1>7, <2>1, <2>3, <2>7, <2>8 DEF Located, HeadersTile
<1> QED
  BY <1>8, <1>9

-----------------------------------------------------------------------------
(***************************************************************************)
(* What a signature among the bytes begins, and where it is: the header    *)
(* that is read next is the byte of the stream at offset.                  *)
(***************************************************************************)
LEMMA ByteFacts ==
  ASSUME Located, NEW o \in Nat, o < Len(bytes)
  PROVE  bytes[o + 1] = span.start + o /\ bytes[o + 1] \in Nat
<1>1. bytes \in Seq(Nat) /\ bytes = Bytes(span.start, Len(bytes)) /\ span.start \in Nat
  BY DEF Located, TypeOK, SpanInStep
<1> DEFINE n == Len(bytes)
<1>2. n \in Nat /\ o + 1 \in 1 .. n /\ bytes = Bytes(span.start, n)
  BY <1>1
<1> HIDE DEF n
<1>3. Bytes(span.start, n)[o + 1] = span.start + o
  BY <1>1, <1>2 DEF Bytes
<1> QED
  BY <1>1, <1>2, <1>3

LEMMA Pushed ==
  ASSUME Located, HeadersTile, HeaderPushed
  PROVE  Located' /\ HeadersTile'
<1> DEFINE e == stream.cdfh[bytes[offset + 1]]
<1>1. /\ pc = "parsing" /\ offset < Len(bytes) - (SIGNATURE - 1)
      /\ bytes[offset + 1] \in DOMAIN stream.cdfh
      /\ Len(bytes) - offset >= SIGNATURE + e.header_size
      /\ headers' = Append(headers, bytes[offset + 1])
      /\ offset' = offset + (SIGNATURE + e.header_size)
      /\ UNCHANGED << stream, pc, error, goal, span, cursor, left, asked, bytes, eocd32, faults >>
  BY DEF HeaderPushed, InDirectory, Signed, Whole, Entry, EntrySize
<1>2. /\ IsStream(stream) /\ headers \in Seq(Nat) /\ offset \in Nat /\ bytes \in Seq(Nat)
      /\ span.start \in Nat
  BY DEF Located, TypeOK
<1>3. e.header_size \in Nat /\ SIGNATURE \in Nat \ {0}
  BY <1>1, <1>2, SizesAssumption DEF IsStream, CentralDirectoryFileHeader
<1>4. bytes[offset + 1] = span.start + offset /\ bytes[offset + 1] \in Nat
  <2>1. offset < Len(bytes)
    <3>1. Len(bytes) \in Nat
      BY <1>2
    <3> QED
      BY <1>1, <1>2, <1>3, <3>1
  <2> QED
    BY <1>2, <2>1, ByteFacts
<1>5. headers' \in Seq(Nat) /\ offset' \in Nat /\ offset' <= Len(bytes)
  <2> HIDE DEF e
  <2>1. Len(bytes) \in Nat /\ SIGNATURE + e.header_size \in Nat
    BY <1>2, <1>3
  <2>2. offset' \in Nat /\ offset' <= Len(bytes)
    BY <1>1, <1>2, <2>1
  <2>3. headers' \in Seq(Nat)
    BY <1>1, <1>2, <1>4
  <2> QED
    BY <2>2, <2>3
<1>6. Located'
  <2>1. TypeOK'
    BY <1>1, <1>5 DEF Located, TypeOK, Disks
  <2> QED
    BY <1>1, <2>1 DEF Located, SpanInStep, GuaranteeKept, Guarantee, WithinDisk, OnDisk, Beyond
<1>7. HeadersTile'
  <2>0. PICK n \in Nat : n = Len(headers)
    BY <1>2
  <2>1. Len(headers') = n + 1 /\ headers'[n + 1] = span.start + offset
        /\ \A k \in 1 .. n : headers'[k] = headers[k]
    BY <1>1, <1>2, <1>4, <2>0
  <2>2. \A k \in 1 .. n : After(k)' = After(k)
    BY <1>1, <2>0, <2>1 DEF After
  <2>3. After(n + 1)' = span.start + offset'
    <3>1. headers'[n + 1] = bytes[offset + 1] /\ stream' = stream
      BY <1>1, <1>4, <2>1
    <3>2. After(n + 1)' = bytes[offset + 1] + SIGNATURE + e.header_size
      BY <3>1 DEF After
    <3>3. bytes[offset + 1] = span.start + offset /\ span.start \in Nat /\ offset \in Nat
      BY <1>2, <1>4
    <3>4. offset' = offset + (SIGNATURE + e.header_size)
      BY <1>1
    <3> HIDE DEF e
    <3> QED
      BY <1>3, <3>2, <3>3, <3>4
  <2>4. n # 0 => After(n) = span.start + offset /\ headers[1] = span.start
    BY <1>1, <1>2, <2>0 DEF HeadersTile
  <2>5. n = 0 => offset = 0
    <3>1. n = 0 => headers = << >>
      BY <1>2, <2>0, EmptySeq
    <3> QED
      BY <1>1, <3>1 DEF HeadersTile
  <2>6. ASSUME NEW k \in 2 .. n + 1
        PROVE  headers'[k] = After(k - 1)'
    <3>1. CASE k = n + 1
      BY <2>1, <2>2, <2>4, <3>1
    <3>2. CASE k \in 2 .. n
      <4>1. headers[k] = After(k - 1) /\ k - 1 \in 1 .. n
        BY <1>1, <2>0, <3>2 DEF HeadersTile
      <4> QED
        BY <2>1, <2>2, <3>2, <4>1
    <3> QED
      BY <2>0, <2>6, <3>1, <3>2
  <2>7. headers'[1] = span.start
    BY <1>2, <2>0, <2>1, <2>4, <2>5
  <2> QED
    <3>1. Len(headers') = n + 1 /\ headers' # << >> /\ span' = span /\ bytes' = bytes
      BY <1>1, <2>1
    <3>2. (\A k \in 2 .. Len(headers) : headers[k] = After(k - 1))'
      BY <2>6, <3>1
    <3>3. After(Len(headers))' = span.start + offset'
      BY <2>3, <3>1 DEF After
    <3> QED
      BY <1>5, <2>7, <3>1, <3>2, <3>3 DEF HeadersTile
<1> QED
  BY <1>6, <1>7

-----------------------------------------------------------------------------
(***************************************************************************)
(* What the reading of the last bytes leaves behind: the window they were  *)
(* read from, and the end record that was found in it.                     *)
(***************************************************************************)
Window ==
  [start  |-> StreamSize(stream) - Lesser(StreamSize(stream), CDLD_MAX_SIZE),
   length |-> CDLD_MAX_SIZE]

Noted ==
  /\ pc \in {"asking", "read"} /\ goal = "cdld" => span = Window
  /\ goal = "eocd64" => \E g \in DOMAIN stream.eocd32 : eocd32 = stream.eocd32[g]

LEMMA NotedNext == Located /\ Noted /\ [Next]_vars => Noted'
<1> SUFFICES ASSUME Located, Noted, [Next]_vars
             PROVE  Noted'
  OBVIOUS
<1>1. CASE Start
  <2> DEFINE at == StreamSize(stream) - Lesser(StreamSize(stream), CDLD_MAX_SIZE)
  <2>1. pc = "start" /\ goal = "cdld" /\ MapGlobal("cdld", at, CDLD_MAX_SIZE) /\ stream' = stream
    BY <1>1 DEF Start, Located
  <2>2. CASE Fail("Map")
    BY <2>1, <2>2 DEF Fail, Noted
  <2>3. ASSUME NEW d \in Disks,
               Ask("cdld", [disk |-> d, offset |-> at - stream.base[d]], CDLD_MAX_SIZE)
        PROVE  Noted'
    <3>1. stream.base[d] \in Nat /\ StreamSize(stream) \in Nat
      BY DiskFacts DEF Located, TypeOK, IsStream, Disks
    <3>2. stream.base[d] + (at - stream.base[d]) = at
      BY <3>1, SizeFacts DEF Lesser
    <3>3. span' = Window /\ goal' = "cdld"
      BY <2>3, <3>2 DEF Ask, Global, Window
    <3> QED
      BY <2>1, <3>3 DEF Noted, Window
  <2> QED
    BY <2>1, <2>2, <2>3 DEF MapGlobal
<1>2. CASE LocatorRead
  <2>1. PICK o \in EndOffsets : eocd32' = End(o) /\ pc = "read"
    BY <1>2 DEF LocatorRead, FoundAt
  <2>2. bytes[o + 1] \in DOMAIN stream.eocd32 /\ eocd32' = stream.eocd32[bytes[o + 1]]
        /\ stream' = stream
    BY <1>2, <2>1 DEF EndOffsets, Signed, End, LocatorRead
  <2>3. goal' = "eocd64" \/ (pc' = "error" /\ goal' = goal)
    BY <1>2 DEF LocatorRead, Fail, Map, MapGlobal, MapLocal, Ask
  <2> QED
    BY <2>2, <2>3 DEF Noted
<1>3. CASE EndAccepted
  <2>1. stream' = stream /\ goal = "cdld" /\ (goal' = "cd" \/ (pc' = "error" /\ goal' = goal))
    BY <1>3 DEF EndAccepted, FoundAt, Fail, Map, MapGlobal, MapLocal, Ask
  <2> QED
    BY <2>1 DEF Noted
<1>4. CASE End64Accepted
  <2>1. UNCHANGED << stream, eocd32 >> /\ goal = "eocd64"
        /\ (goal' = "cd" \/ (pc' = "error" /\ goal' = goal))
    BY <1>4 DEF End64Accepted, AtEnd64, Fail, Map, MapGlobal, MapLocal, Ask, result
  <2> QED
    BY <2>1 DEF Noted
<1>5. CASE Provide
  BY <1>5 DEF Provide, NextCall, Noted, Window, result
<1>6. CASE ProviderFails \/ NoEnd \/ EndRejected \/ End64Rejected \/ HeaderRejected \/ Leftover
  <2>1. pc' = "error" /\ UNCHANGED << stream, eocd32, goal >>
    BY <1>6 DEF ProviderFails, NoEnd, EndRejected, End64Rejected, HeaderRejected, Leftover,
                Fail, result
  <2> QED
    BY <2>1 DEF Noted
<1>7. CASE Overflow \/ End64Cut
  BY <1>7 DEF Overflow, End64Cut, Noted, result
<1>8. CASE DirectoryRead
  BY <1>8 DEF DirectoryRead, Fail, Noted
<1>9. CASE HeaderPushed \/ Sort
  BY <1>9 DEF HeaderPushed, InDirectory, Sort, Noted
<1>10. CASE Answered \/ UNCHANGED vars
  BY <1>10 DEF Answered, vars, result, Noted, Window
<1> QED
  BY <1>1, <1>2, <1>3, <1>4, <1>5, <1>6, <1>7, <1>8, <1>9, <1>10 DEF Next, FromProvider

(***************************************************************************)
(* Where an end record that is found leads to, when it leads to a disk.    *)
(* One that needs a locator has room for it in the window.                 *)
(***************************************************************************)
LEMMA EndNames ==
  ASSUME Located, Noted, NEW o \in EndOffsets, FoundAt(o), NamesItsDisks(stream),
         ~ RequiresZip64(End(o)) \/ LocatorOffset(o) < 0
  PROVE  OnItsDisk(stream, End(o).cd_disk_number, End(o).cd_offset)
<1> DEFINE g == bytes[o + 1]
           n == Len(bytes)
           size == StreamSize(stream)
<1>1. pc = "read" /\ goal = "cdld" /\ g \in DOMAIN stream.eocd32 /\ End(o) = stream.eocd32[g]
  BY DEF FoundAt, EndOffsets, Signed, End
<1>2. CASE ~ RequiresZip64(End(o))
  BY <1>1, <1>2 DEF NamesItsDisks
<1>3. CASE RequiresZip64(End(o)) /\ LocatorOffset(o) < 0
  <2>1. g >= SIGNATURE + EOCD64_LOCATOR_CONSTANT_SIZE
    BY <1>1, <1>3 DEF NamesItsDisks
  <2>2. n \in Nat /\ size \in Nat
    BY PlaceFacts DEF Located, TypeOK
  <2>3. o \in Nat /\ o < n /\ o >= n - EOCD32_MAX_SIZE
    <3>1. o \in n - Lesser(n, EOCD32_MAX_SIZE) .. n - EOCD32_CONSTANT_SIZE - 1
      BY DEF EndOffsets
    <3> HIDE DEF n
    <3> QED
      BY <2>2, <3>1, SizesAssumption DEF Lesser, EOCD32_MAX_SIZE
  <2>4. g = span.start + o
    BY <2>3, ByteFacts
  <2>5. span.start = size - Lesser(size, CDLD_MAX_SIZE) /\ span.length = CDLD_MAX_SIZE
    BY <1>1 DEF Noted, Window
  <2>6. n + left = CDLD_MAX_SIZE /\ left \in Nat /\ (left > 0 => span.start + n = size)
    BY <1>1, <2>5 DEF Located, TypeOK, SpanInStep
  <2>7. o < SIGNATURE + EOCD64_LOCATOR_CONSTANT_SIZE
    BY <1>3, <2>3, SizesAssumption DEF LocatorOffset
  <2>8. CDLD_MAX_SIZE = EOCD32_MAX_SIZE + SIGNATURE + EOCD64_LOCATOR_CONSTANT_SIZE
        /\ EOCD32_MAX_SIZE \in Nat
    BY SizesAssumption DEF CDLD_MAX_SIZE, EOCD32_MAX_SIZE
  <2> HIDE DEF g, n, size
  <2>9. CASE size <= CDLD_MAX_SIZE
    <3>1. span.start = 0
      BY <2>2, <2>5, <2>8, <2>9, SizesAssumption DEF Lesser
    <3> QED
      BY <2>1, <2>3, <2>4, <2>7, <3>1, SizesAssumption
  <2>10. CASE size > CDLD_MAX_SIZE
    <3>1. span.start = size - CDLD_MAX_SIZE
      BY <2>2, <2>5, <2>8, <2>10, SizesAssumption DEF Lesser
    <3>2. n = CDLD_MAX_SIZE
      BY <2>2, <2>6, <2>8, <3>1, SizesAssumption
    <3> QED
      BY <2>3, <2>7, <2>8, <3>2, SizesAssumption
  <2> QED
    BY <2>2, <2>8, <2>9, <2>10, SizesAssumption
<1> QED
  BY <1>2, <1>3

-----------------------------------------------------------------------------
LEMMA LocatedInit == Init => Located /\ HeadersTile /\ Noted
<1> SUFFICES ASSUME Init PROVE Located /\ HeadersTile /\ Noted
  OBVIOUS
<1>1. IsStream(stream) /\ stream.disks \in Nat \ {0}
  BY StreamsAssumption DEF Init, IsStream, IsDisks
<1>2. TypeOK
  <2>1. NoLocation \in EndOfCentralDirectory32
    BY DEF NoLocation, EndOfCentralDirectory32
  <2>2. 0 \in Disks /\ << >> \in Seq(Nat) /\ 0 \in 0 .. MaxFaults
    BY <1>1, SizeFacts DEF Disks
  <2> QED
    BY <1>1, <2>1, <2>2 DEF Init, TypeOK
<1>3. SpanInStep
  <2>1. Bytes(0, 0) = << >>
    BY BytesSeq
  <2> QED
    BY <2>1 DEF Init, SpanInStep
<1>4. GuaranteeKept /\ HeadersTile
  BY DEF Init, GuaranteeKept, Guarantee, WithinDisk, HeadersTile
<1>5. Noted
  BY DEF Init, Noted
<1> QED
  BY <1>2, <1>3, <1>4, <1>5 DEF Init, Located

(***************************************************************************)
(* Every step: one per action.                                             *)
(***************************************************************************)
LEMMA LocatedNext ==
  Located /\ HeadersTile /\ Noted /\ [Next]_vars => Located' /\ HeadersTile'
<1> SUFFICES ASSUME Located, HeadersTile, Noted, [Next]_vars
             PROVE  Located' /\ HeadersTile'
  OBVIOUS
<1>1. /\ Kept /\ IsStream(stream) /\ bytes \in Seq(Nat) /\ Len(bytes) \in Nat
      /\ OnDisk => Guarantee
  BY DEF Located, TypeOK, Kept, Calls, GuaranteeKept, OnDisk
<1>2. \A kind \in ReadErrors :
         Fail(kind) /\ UNCHANGED << stream, asked >> /\ Kept' => Located' /\ HeadersTile'
  BY <1>1, Failed DEF Guarantee, WithinDisk
<1>3. CASE Start
  <2>1. pc = "start" /\ goal = "cdld"
        /\ MapGlobal("cdld", StreamSize(stream) - Lesser(StreamSize(stream), CDLD_MAX_SIZE),
                     CDLD_MAX_SIZE)
        /\ UNCHANGED << stream, asked, eocd32, headers, offset, faults >>
    BY <1>3 DEF Start, Located, result
  <2>2. StreamSize(stream) - Lesser(StreamSize(stream), CDLD_MAX_SIZE) \in Nat
    <3>1. StreamSize(stream) \in Nat
      BY PlaceFacts DEF Located, TypeOK
    <3> QED
      BY <3>1, SizeFacts DEF Lesser
  <2>3. Kept'
    BY <1>1, <2>1 DEF Kept, Calls, Disks
  <2> QED
    BY <2>1, <2>2, <2>3, SizeFacts, MappedGlobal
<1>4. CASE Provide
  BY <1>4, Provided
<1>5. CASE ProviderFails
  <2>1. pc = "asking" /\ asked' = Call
        /\ (\E kind \in {"FromProvider", "ProviderByteCount"} : Fail(kind))
        /\ UNCHANGED << stream, eocd32, headers, offset >>
        /\ (faults' = faults \/ (faults < MaxFaults /\ faults' = faults + 1))
    <3>1. /\ pc = "asking" /\ asked' = Call
          /\ \E kind \in {"FromProvider", "ProviderByteCount"} : Fail(kind)
          /\ UNCHANGED << stream, result >>
      BY <1>5 DEF ProviderFails
    <3>2. faults' = faults \/ (faults < MaxFaults /\ faults' = faults + 1)
      BY <1>5 DEF ProviderFails
    <3> QED
      BY <3>1, <3>2 DEF result
  <2>2. Call \in Calls /\ (OnDisk => WithinDisk(Call))
    BY <2>1, CallFacts
  <2>3. Kept'
    BY <1>1, <2>1, <2>2, SizeFacts DEF Kept, Calls, Disks
  <2>4. OnDisk => Guarantee'
    BY <2>1, <2>2 DEF Guarantee, WithinDisk
  <2> QED
    BY <2>1, <2>3, <2>4, Failed DEF ReadErrors
<1>6. CASE Overflow \/ End64Cut
  <2>1. pc' = "panic" /\ pc # "error"
        /\ UNCHANGED << stream, error, goal, span, cursor, left, asked, bytes,
                        eocd32, headers, offset, faults >>
    BY <1>6 DEF Overflow, End64Cut, AtEnd64, result
  <2> QED
    BY <2>1 DEF Located, TypeOK, Disks, SpanInStep, GuaranteeKept, Guarantee, WithinDisk,
                OnDisk, HeadersTile
<1>7. CASE NoEnd \/ EndRejected \/ End64Rejected \/ HeaderRejected \/ Leftover
  <2>1. (\E kind \in ReadErrors : Fail(kind))
        /\ UNCHANGED << stream, asked, eocd32, headers, offset, faults >>
    BY <1>7 DEF NoEnd, EndRejected, End64Rejected, HeaderRejected, Leftover, ReadErrors, result
  <2>2. Kept'
    BY <1>1, <2>1 DEF Kept, Calls, Disks
  <2> QED
    BY <1>2, <2>1, <2>2
<1>8. CASE EndAccepted \/ LocatorRead
  <2>1. PICK o \in EndOffsets :
          /\ pc = "read" /\ eocd32' = End(o)
          /\ FoundAt(o)
          /\ \/ /\ ~ RequiresZip64(End(o)) \/ LocatorOffset(o) < 0
                /\ Map("cd", [disk |-> End(o).cd_disk_number, offset |-> End(o).cd_offset],
                       End(o).cd_size)
             \/ Fail("BadEOCD64Locator")
             \/ /\ LocatorOffset(o) \in Nat /\ LocatorOffset(o) < Len(bytes)
                /\ bytes[LocatorOffset(o) + 1] \in DOMAIN stream.locator
                /\ Map("eocd64", stream.locator[bytes[LocatorOffset(o) + 1]],
                       SIGNATURE + EOCD64_CONSTANT_SIZE)
    <3>1. \A o \in EndOffsets : o \in Int /\ o < Len(bytes)
      BY <1>1, SizesAssumption DEF EndOffsets, Lesser, EOCD32_MAX_SIZE
    <3>2. \A o \in EndOffsets : LocatorOffset(o) >= 0 =>
             LocatorOffset(o) \in Nat /\ LocatorOffset(o) < Len(bytes)
      BY <1>1, <3>1, SizesAssumption DEF LocatorOffset
    <3> QED
      BY <1>8, <3>2 DEF EndAccepted, LocatorRead, FoundAt, Signed
  <2>2. UNCHANGED << stream, asked, headers, offset, faults >>
    BY <1>8 DEF EndAccepted, LocatorRead
  <2>3. End(o) \in EndOfCentralDirectory32
    BY <1>1 DEF EndOffsets, Signed, End, IsStream
  <2>4. Kept'
    BY <1>1, <2>1, <2>2, <2>3 DEF Kept, Calls, Disks
  <2>5. CASE /\ ~ RequiresZip64(End(o)) \/ LocatorOffset(o) < 0
             /\ Map("cd", [disk |-> End(o).cd_disk_number, offset |-> End(o).cd_offset],
                    End(o).cd_size)
    <3>1. [disk |-> End(o).cd_disk_number, offset |-> End(o).cd_offset] \in Position
          /\ End(o).cd_size \in Nat
      BY <2>3 DEF EndOfCentralDirectory32, Position
    <3>2. NamesItsDisks(stream) => OnItsDisk(stream, End(o).cd_disk_number, End(o).cd_offset)
      BY <2>5, <2>1, EndNames DEF FoundAt
    <3> QED
      BY <2>1, <2>2, <2>4, <2>5, <3>1, <3>2, Mapped
  <2>6. CASE Fail("BadEOCD64Locator")
    BY <1>2, <2>2, <2>4, <2>6 DEF ReadErrors
  <2>7. CASE /\ bytes[LocatorOffset(o) + 1] \in DOMAIN stream.locator
             /\ Map("eocd64", stream.locator[bytes[LocatorOffset(o) + 1]],
                    SIGNATURE + EOCD64_CONSTANT_SIZE)
    <3> DEFINE named == stream.locator[bytes[LocatorOffset(o) + 1]]
    <3>1. named \in Position
      BY <1>1, <2>7 DEF IsStream, EndOfCentralDirectory64Locator
    <3>2. NamesItsDisks(stream) => OnItsDisk(stream, named.disk, named.offset)
      BY <2>7 DEF NamesItsDisks
    <3> QED
      BY <2>1, <2>2, <2>4, <2>7, <3>1, <3>2, SizeFacts, Mapped
  <2> QED
    BY <2>1, <2>5, <2>6, <2>7
<1>9. CASE End64Accepted
  <2> DEFINE large == stream.eocd64[bytes[1]]
             pos == [disk   |-> Unless(U16_MAX, eocd32.cd_disk_number, large.cd_disk_number),
                     offset |-> Unless(U32_MAX, eocd32.cd_offset, large.cd_offset)]
             length == Unless(U32_MAX, eocd32.cd_size, large.cd_size)
  <2>1. pc = "read" /\ bytes[1] \in DOMAIN stream.eocd64 /\ Map("cd", pos, length)
        /\ UNCHANGED << stream, asked, eocd32, headers, offset, faults >>
    BY <1>9 DEF End64Accepted, AtEnd64, Signed, result
  <2>2. large \in EndOfCentralDirectory64 /\ eocd32 \in EndOfCentralDirectory32
    BY <1>1, <2>1 DEF IsStream, Kept
  <2>3. pos \in Position /\ length \in Nat
    BY <2>2 DEF EndOfCentralDirectory32, EndOfCentralDirectory64, Position, Unless
  <2>4. Kept'
    BY <1>1, <2>1 DEF Kept, Calls, Disks
  <2>5. NamesItsDisks(stream) => OnItsDisk(stream, pos.disk, pos.offset)
    <3>1. PICK g \in DOMAIN stream.eocd32 : eocd32 = stream.eocd32[g]
      BY <1>9 DEF End64Accepted, AtEnd64, Noted
    <3> QED
      BY <2>1, <3>1 DEF NamesItsDisks
  <2> HIDE DEF pos, length
  <2> QED
    BY <2>1, <2>3, <2>4, <2>5, Mapped
<1>10. CASE DirectoryRead
  <2>1. pc = "read" /\ headers' = << >> /\ offset' = 0
        /\ UNCHANGED << stream, asked, eocd32, faults >>
    BY <1>10 DEF DirectoryRead
  <2>2. Kept'
    BY <1>1, <2>1 DEF Kept, Calls, Disks
  <2>3. CASE Fail("InputTooShort")
    BY <1>2, <2>1, <2>2, <2>3 DEF ReadErrors
  <2>4. CASE pc' = "parsing" /\ UNCHANGED << error, goal, span, cursor, left, bytes >>
    <3>1. TypeOK'
      BY <2>1, <2>2, <2>4 DEF Located, TypeOK, Kept, Calls, Disks
    <3> QED
      BY <1>1, <2>1, <2>4, <3>1 DEF Located, SpanInStep, GuaranteeKept, Guarantee, WithinDisk,
                                    OnDisk, HeadersTile
  <2> QED
    BY <1>10, <2>3, <2>4 DEF DirectoryRead
<1>11. CASE HeaderPushed
  BY <1>11, Pushed
<1>12. CASE Sort
  <2>1. PICK order \in [DOMAIN headers -> DOMAIN headers] :
          headers' = [r \in DOMAIN headers |-> headers[order[r]]]
    BY <1>12 DEF Sort
  <2>2. pc = "parsing" /\ pc' = "done"
        /\ UNCHANGED << stream, error, goal, span, cursor, left, asked, bytes, eocd32, offset, faults >>
    BY <1>12 DEF Sort
  <2>3. headers' \in Seq(Nat)
    <3>1. headers \in Seq(Nat) /\ DOMAIN headers = 1 .. Len(headers) /\ Len(headers) \in Nat
      BY <1>1 DEF Kept
    <3>2. headers' \in [1 .. Len(headers) -> Nat]
      BY <2>1, <3>1
    <3> QED
      BY <3>1, <3>2
  <2>4. TypeOK'
    BY <2>2, <2>3 DEF Located, TypeOK, Disks
  <2> QED
    BY <2>2, <2>4 DEF Located, SpanInStep, GuaranteeKept, Guarantee, WithinDisk, OnDisk,
                      HeadersTile
<1>13. CASE Answered \/ UNCHANGED vars
  <2>1. UNCHANGED vars
    BY <1>13 DEF Answered
  <2> QED
    BY <2>1 DEF vars, result, Located, TypeOK, Disks, SpanInStep, GuaranteeKept, Guarantee,
                WithinDisk, OnDisk, Beyond, HeadersTile, After
<1> QED
  BY <1>3, <1>4, <1>5, <1>6, <1>7, <1>8, <1>9, <1>10, <1>11, <1>12, <1>13
     DEF Next, FromProvider

-----------------------------------------------------------------------------
LEMMA LocatedAlways == Spec => [](Located /\ HeadersTile)
  BY LocatedInit, LocatedNext, NotedNext, PTL DEF Spec

(***************************************************************************)
(* Type correctness: no call is made to a disk that does not exist, and an *)
(* error is given exactly when from_provider ends with one.                *)
(***************************************************************************)
THEOREM ReadTypeCorrect == Spec => []TypeOK
<1>1. Located => TypeOK
  BY DEF Located
<1> QED
  BY <1>1, LocatedAlways, PTL

(***************************************************************************)
(* The answers put together are the span that was asked for, as far as the *)
(* stream goes, on any disks.                                              *)
(***************************************************************************)
THEOREM SpanKept == Spec => []SpanInStep
<1>1. Located => SpanInStep
  BY DEF Located
<1> QED
  BY <1>1, LocatedAlways, PTL

(***************************************************************************)
(* The provider is never asked beyond the end of a disk for a span that    *)
(* was found by its place in the stream.                                   *)
(***************************************************************************)
THEOREM GuaranteeGiven == Spec => []GuaranteeKept
<1>1. Located => GuaranteeKept
  BY DEF Located
<1> QED
  BY <1>1, LocatedAlways, PTL

(***************************************************************************)
(* The headers of the directory lie one after the other.                   *)
(***************************************************************************)
THEOREM HeadersKept == Spec => []HeadersTile
  BY LocatedAlways, PTL

-----------------------------------------------------------------------------
(***************************************************************************)
(* A finite sequence of places that are all different visits every place.  *)
(***************************************************************************)
LEMMA OneToOneIsOnto ==
  ASSUME NEW n \in Nat, NEW f \in [1 .. n -> 1 .. n],
         \A i, j \in 1 .. n : i # j => f[i] # f[j],
         NEW y \in 1 .. n
  PROVE  \E x \in 1 .. n : f[x] = y
<1> SUFFICES ASSUME \A x \in 1 .. n : f[x] # y PROVE FALSE
  OBVIOUS
<1> DEFINE T == (1 .. n) \ {y}
<1>1. IsFiniteSet(1 .. n) /\ Cardinality(1 .. n) = n
  BY FS_Interval
<1>2. IsFiniteSet(T) /\ Cardinality(T) = n - 1
  BY <1>1, FS_RemoveElement
<1>3. f \in [1 .. n -> T]
  OBVIOUS
<1> HIDE DEF T
<1>4. Cardinality(T) < Cardinality(1 .. n)
  BY <1>1, <1>2
<1>5. \E i, j \in 1 .. n : i # j /\ f[i] = f[j]
  BY <1>1, <1>2, <1>3, <1>4, FS_PigeonHole
<1> QED
  BY <1>5

(***************************************************************************)
(* Two lists of the same headers, each in order, are the same: the first   *)
(* place where they differ would have each of two headers ahead of the     *)
(* other.                                                                  *)
(***************************************************************************)
LEMMA AheadIsOrder ==
  ASSUME NEW s, IsStream(s), NEW g \in DOMAIN s.cdfh, NEW h \in DOMAIN s.cdfh
  PROVE  ~ (Ahead(s, g, h) /\ Ahead(s, h, g)) /\ ~ Ahead(s, g, g)
<1>1. s.cdfh[g].position \in Position /\ s.cdfh[h].position \in Position
      /\ g \in Nat /\ h \in Nat
  BY DEF IsStream, CentralDirectoryFileHeader
<1> QED
  BY <1>1 DEF Ahead, Before, Position

LEMMA InOrderIsUnique ==
  ASSUME NEW s, IsStream(s),
         NEW t \in Seq(DOMAIN s.cdfh), NEW u \in Seq(DOMAIN s.cdfh),
         \A i, j \in DOMAIN t : i < j => Ahead(s, t[i], t[j]),
         \A i, j \in DOMAIN u : i < j => Ahead(s, u[i], u[j]),
         \A i \in DOMAIN t : \E j \in DOMAIN u : t[i] = u[j],
         \A j \in DOMAIN u : \E i \in DOMAIN t : t[i] = u[j]
  PROVE  t = u
<1>1. PICK m \in Nat, n \in Nat :
         /\ m = Len(t) /\ n = Len(u) /\ DOMAIN t = 1 .. m /\ DOMAIN u = 1 .. n
  OBVIOUS
<1>2. /\ \A i \in 1 .. m : t[i] \in DOMAIN s.cdfh
      /\ \A j \in 1 .. n : u[j] \in DOMAIN s.cdfh
  BY <1>1
<1>3. \A k \in 1 .. m : k <= n => t[k] = u[k]
  <2> DEFINE T == {k \in 1 .. m : k <= n /\ t[k] # u[k]}
  <2> SUFFICES ASSUME T # {} PROVE FALSE
    OBVIOUS
  <2>1. PICK k \in T : \A l \in T : k <= l
    <3>1. T \subseteq Nat
      OBVIOUS
    <3> HIDE DEF T
    <3> QED
      BY <3>1, LeastNatural
  <2>2. k \in 1 .. m /\ k \in 1 .. n /\ t[k] # u[k]
    BY <1>1, <2>1
  <2>3. \A l \in 1 .. k - 1 : t[l] = u[l]
    <3> SUFFICES ASSUME NEW l \in 1 .. k - 1 PROVE t[l] = u[l]
      OBVIOUS
    <3>1. l \in 1 .. m /\ l <= n /\ ~ (k <= l)
      <4>1. k \in Nat /\ k <= m /\ k <= n
        BY <2>2
      <4> HIDE DEF T
      <4> QED
        BY <4>1
    <3>2. l \notin T
      BY <2>1, <3>1
    <3> QED
      BY <3>1, <3>2
  <2>4. PICK j \in 1 .. n : t[k] = u[j]
    BY <1>1, <2>2
  <2>5. PICK i \in 1 .. m : t[i] = u[k]
    BY <1>1, <2>2
  <2>6. ~ (j < k)
    <3> SUFFICES ASSUME j < k PROVE FALSE
      OBVIOUS
    <3>1. t[j] = t[k] /\ j \in 1 .. m
      BY <2>2, <2>3, <2>4
    <3>2. Ahead(s, t[k], t[k])
      BY <1>1, <2>2, <3>1
    <3> QED
      BY <1>2, <2>2, <3>2, AheadIsOrder
  <2>7. ~ (i < k)
    <3> SUFFICES ASSUME i < k PROVE FALSE
      OBVIOUS
    <3>1. u[i] = u[k] /\ i \in 1 .. n
      BY <2>2, <2>3, <2>5
    <3>2. Ahead(s, u[k], u[k])
      BY <1>1, <2>2, <3>1
    <3> QED
      BY <1>2, <2>2, <3>2, AheadIsOrder
  <2>8. k < j /\ k < i
    <3>1. k # j /\ k # i
      BY <2>2, <2>4, <2>5
    <3>2. k \in Nat /\ j \in Nat /\ i \in Nat
      BY <2>2
    <3> HIDE DEF T
    <3> QED
      BY <2>6, <2>7, <3>1, <3>2
  <2>9. Ahead(s, u[k], t[k]) /\ Ahead(s, t[k], u[k])
    <3>1. k \in DOMAIN u /\ j \in DOMAIN u /\ k \in DOMAIN t /\ i \in DOMAIN t
      BY <1>1, <2>2, <2>4, <2>5
    <3>2. Ahead(s, u[k], u[j]) /\ Ahead(s, t[k], t[i])
      BY <2>8, <3>1
    <3> QED
      BY <2>4, <2>5, <3>2
  <2> QED
    BY <1>2, <2>2, <2>9, AheadIsOrder
<1>4. ~ (m < n)
  <2> SUFFICES ASSUME m < n PROVE FALSE
    OBVIOUS
  <2>1. m + 1 \in 1 .. n
    BY <1>1
  <2>2. PICK i \in 1 .. m : t[i] = u[m + 1]
    BY <1>1, <2>1
  <2>3. u[i] = u[m + 1] /\ i \in 1 .. n /\ i < m + 1
    BY <1>1, <1>3, <2>1, <2>2
  <2>4. Ahead(s, u[i], u[m + 1])
    BY <1>1, <2>1, <2>3
  <2> QED
    BY <1>2, <2>1, <2>3, <2>4, AheadIsOrder
<1>5. ~ (n < m)
  <2> SUFFICES ASSUME n < m PROVE FALSE
    OBVIOUS
  <2>1. n + 1 \in 1 .. m
    BY <1>1
  <2>2. PICK j \in 1 .. n : t[n + 1] = u[j]
    BY <1>1, <2>1
  <2>3. t[j] = t[n + 1] /\ j \in 1 .. m /\ j < n + 1
    BY <1>1, <1>3, <2>1, <2>2
  <2>4. Ahead(s, t[j], t[n + 1])
    BY <1>1, <2>1, <2>3
  <2> QED
    BY <1>2, <2>1, <2>3, <2>4, AheadIsOrder
<1>6. m = n
  BY <1>1, <1>4, <1>5
<1> QED
  BY <1>1, <1>3, <1>6, SeqEqual

-----------------------------------------------------------------------------
(***************************************************************************)
(* The way to the directory of an archive that a correct writer made: the  *)
(* end record is at e, and the n bytes of the directory start at c.        *)
(***************************************************************************)
Listed(directory) == {directory[k] : k \in DOMAIN directory}

Way(directory, e, c, n) ==
  /\ n \in Nat
  /\ IsEnd(stream, e)
  /\ Leads(stream, e, c, n)
  /\ Lists(stream, directory, c, n)

\* The headers read so far are those listed before offset, by their place.
Gathered(directory, c, n) ==
  /\ \A k \in DOMAIN headers : headers[k] \in Listed(directory) /\ headers[k] < c + offset
  /\ \A i, j \in DOMAIN headers : i < j => headers[i] < headers[j]
  /\ \A h \in Listed(directory) : h < c + offset => \E k \in DOMAIN headers : headers[k] = h
  /\ offset = n \/ c + offset \in Listed(directory)

OnTheWay(directory, e, c, n) ==
  /\ pc # "panic"
  /\ error \in {"none", "FromProvider", "ProviderByteCount"}
  /\ pc = "asking" => ~ Beyond
  /\ pc \in {"asking", "read", "parsing"} => span.start + Len(bytes) <= StreamSize(stream)
  /\ pc \in {"asking", "read"} /\ goal = "eocd64" =>
       /\ eocd32 = stream.eocd32[e] /\ RequiresZip64(eocd32)
       /\ span.length = SIGNATURE + EOCD64_CONSTANT_SIZE
       /\ Lends(stream, eocd32, span.start, c, n)
  /\ pc \in {"asking", "read", "parsing"} /\ goal = "cd"
       => span.start = c /\ span.length = n
  /\ pc = "parsing" => goal = "cd" /\ Gathered(directory, c, n)
  /\ pc = "done" => headers = directory

\* The same stream is read to the end.
Found ==
  \A directory \in stream.meant :
     \E e \in DOMAIN stream.eocd32, k \in DOMAIN directory, n \in 0 .. StreamSize(stream) :
        Way(directory, e, directory[k], n) /\ OnTheWay(directory, e, directory[k], n)

(***************************************************************************)
(* Where the records are that the way leads by.                            *)
(***************************************************************************)
LEMMA WayFacts ==
  ASSUME TypeOK, NEW directory, NEW e, NEW c, NEW n, Way(directory, e, c, n)
  PROVE  /\ StreamSize(stream) \in Nat /\ StreamSize(stream) > 0
         /\ e \in Nat /\ c \in Nat /\ n \in Nat
         /\ c < StreamSize(stream) /\ c + n <= StreamSize(stream)
         /\ SIGNATURE + CDFH_CONSTANT_SIZE <= n
         /\ c \in Listed(directory)
         /\ \A h \in Listed(directory) : h \in Nat /\ Past(stream, h) \in Nat
                                         /\ Past(stream, h) >= h + SIGNATURE
<1>1. IsStream(stream) /\ IsDisks(stream) /\ StreamSize(stream) \in Nat
  <2>1. IsStream(stream) /\ IsDisks(stream)
    BY DEF TypeOK, IsStream
  <2> QED
    BY <2>1 DEF IsDisks, StreamSize
<1>2. /\ e \in Nat
      /\ e + SIGNATURE + EOCD32_CONSTANT_SIZE + stream.eocd32[e].comment_length = StreamSize(stream)
      /\ stream.eocd32[e].comment_length \in Nat
  BY <1>1 DEF Way, IsEnd, IsStream, EndOfCentralDirectory32
<1>3. /\ directory \in Seq(DOMAIN stream.cdfh) /\ c \in Listed(directory)
      /\ c + n <= StreamSize(stream) /\ Past(stream, c) <= c + n
  BY DEF Way, Lists, Listed
<1>4. \A h \in Listed(directory) :
         /\ h \in Nat /\ stream.cdfh[h].header_size \in Nat
         /\ stream.cdfh[h].header_size >= CDFH_CONSTANT_SIZE
  <2> SUFFICES ASSUME NEW h \in Listed(directory)
               PROVE  /\ h \in Nat /\ stream.cdfh[h].header_size \in Nat
                      /\ stream.cdfh[h].header_size >= CDFH_CONSTANT_SIZE
    OBVIOUS
  <2>1. h \in DOMAIN stream.cdfh
    BY <1>3 DEF Listed
  <2> QED
    BY <1>1, <2>1 DEF IsStream, CentralDirectoryFileHeader
<1>5. \A h \in Listed(directory) : Past(stream, h) \in Nat /\ Past(stream, h) >= h + SIGNATURE
  BY <1>4, SizesAssumption DEF Past
<1>6. c \in Nat /\ n \in Nat /\ Past(stream, c) >= c + SIGNATURE + CDFH_CONSTANT_SIZE
  BY <1>3, <1>4, SizesAssumption DEF Past, Way
<1>7. StreamSize(stream) > 0
  BY <1>1, <1>2, SizesAssumption
<1>8. c < StreamSize(stream) /\ SIGNATURE + CDFH_CONSTANT_SIZE <= n
  BY <1>1, <1>3, <1>5, <1>6, SizesAssumption
<1> QED
  BY <1>1, <1>2, <1>3, <1>4, <1>5, <1>6, <1>7, <1>8

(***************************************************************************)
(* A byte of the stream is on a disk, and a span from it is asked for      *)
(* there; a position is taken to be the byte that it names.                *)
(***************************************************************************)
LEMMA SomeDiskHolds ==
  ASSUME TypeOK, NEW g \in Nat, g < StreamSize(stream)
  PROVE  \E d \in Disks : Holds(stream, d, g)
<1>1. IsDisks(stream) /\ stream.disks \in Nat \ {0} /\ 0 \in Disks
      /\ stream.base[0] = 0 /\ stream.size[0] \in Nat
  <2>1. IsDisks(stream)
    BY DEF TypeOK, IsStream
  <2>2. stream.disks \in Nat \ {0} /\ stream.base[0] = 0
    BY <2>1 DEF IsDisks
  <2>3. 0 \in 0 .. stream.disks - 1
    BY <2>2
  <2> QED
    BY <2>1, <2>2, <2>3, DiskFacts DEF Disks
<1>2. CASE g < stream.size[0]
  BY <1>1, <1>2 DEF Holds
<1>3. CASE stream.base[0] + stream.size[0] <= g
  <2>1. 0 \in 0 .. stream.disks - 1
    BY <1>1
  <2>2. PICK d \in 0 + 1 .. stream.disks - 1 : Holds(stream, d, g)
    BY <1>1, <1>3, <2>1, HeldByLater
  <2>3. d \in Disks
    BY <1>1 DEF Disks
  <2> QED
    BY <2>2, <2>3
<1> QED
  BY <1>1, <1>2, <1>3

Place == [disk : Disks, offset : Nat]

LEMMA GlobalAsked ==
  ASSUME TypeOK, NEW want, NEW g \in Nat, NEW length, g < StreamSize(stream),
         MapGlobal(want, g, length)
  PROVE  \E pos \in Place : /\ Ask(want, pos, length)
                            /\ pos.offset <= stream.size[pos.disk]
                            /\ Global(stream, pos) = g
<1>1. PICK d \in Disks : /\ Holds(stream, d, g)
                         /\ Ask(want, [disk |-> d, offset |-> g - stream.base[d]], length)
  BY SomeDiskHolds DEF MapGlobal
<1>2. stream.base[d] \in Nat /\ stream.size[d] \in Nat
  BY DiskFacts DEF TypeOK, IsStream, Disks
<1> DEFINE pos == [disk |-> d, offset |-> g - stream.base[d]]
<1>3. pos \in Place /\ pos.offset <= stream.size[pos.disk] /\ Global(stream, pos) = g
  BY <1>1, <1>2 DEF Place, Holds, Global
<1> QED
  BY <1>1, <1>3

LEMMA NamedAsked ==
  ASSUME TypeOK, NEW want, NEW p \in Position, NEW g \in Nat, NEW length,
         g < StreamSize(stream), Names(stream, p, g), Map(want, p, length)
  PROVE  \E pos \in Place : /\ Ask(want, pos, length)
                            /\ pos.offset <= stream.size[pos.disk]
                            /\ Global(stream, pos) = g
<1>1. CASE stream.is_cut
  BY <1>1, GlobalAsked DEF Map, Names
<1>2. CASE ~ stream.is_cut
  <2>1. p.disk \in Disks /\ Ask(want, p, length)
        /\ p.offset <= stream.size[p.disk] /\ Global(stream, p) = g
    BY <1>2 DEF Map, MapLocal, Names, Disks
  <2>2. p \in Place
    BY <2>1 DEF Position, Place
  <2> QED
    BY <2>1, <2>2
<1> QED
  BY <1>1, <1>2

(***************************************************************************)
(* What is asked for is what the way leads to.                             *)
(***************************************************************************)
LEMMA AskedOnTheWay ==
  ASSUME TypeOK, pc # "error", NEW directory, NEW e, NEW c, NEW n,
         NEW want, NEW pos \in Place, NEW length, Ask(want, pos, length),
         stream' = stream, pos.offset <= stream.size[pos.disk],
         want = "eocd64" =>
           /\ eocd32' = stream.eocd32[e] /\ RequiresZip64(eocd32')
           /\ length = SIGNATURE + EOCD64_CONSTANT_SIZE
           /\ Lends(stream, eocd32', Global(stream, pos), c, n),
         want = "cd" => Global(stream, pos) = c /\ length = n
  PROVE  OnTheWay(directory, e, c, n)'
<1>1. /\ pc' = "asking" /\ error' = error /\ goal' = want /\ cursor' = pos /\ bytes' = << >>
      /\ span' = [start |-> Global(stream, pos), length |-> length]
  BY DEF Ask
<1>2. pos.offset \in Nat /\ stream.size[pos.disk] \in Nat /\ Global(stream, pos) \in Nat
  BY PlaceFacts DEF Place
<1>3. error' = "none"
  BY <1>1 DEF TypeOK
<1>4. ~ Beyond'
  BY <1>1, <1>2 DEF Beyond
<1>5. Global(stream, pos) <= StreamSize(stream)
  <2>1. IsDisks(stream) /\ pos.disk \in 0 .. stream.disks - 1
    BY DEF TypeOK, IsStream, Place, Disks
  <2>2. stream.disks \in Nat \ {0}
    BY <2>1 DEF IsDisks
  <2>3. /\ pos.disk + 1 \in 0 .. stream.disks /\ stream.disks \in pos.disk + 1 .. stream.disks
    BY <2>1, <2>2
  <2>4. stream.base[pos.disk + 1] <= StreamSize(stream)
    BY <2>1, <2>3, BaseGrows DEF StreamSize
  <2>5. stream.base[pos.disk + 1] = stream.base[pos.disk] + stream.size[pos.disk]
        /\ stream.base[pos.disk] \in Nat /\ StreamSize(stream) \in Nat
    BY <2>1, DiskFacts
  <2> QED
    BY <1>2, <2>4, <2>5 DEF Global
<1>6. span'.start + Len(bytes') <= StreamSize(stream')
  BY <1>1, <1>2, <1>5
<1> QED
  BY <1>1, <1>3, <1>4, <1>6 DEF OnTheWay

(***************************************************************************)
(* What is read: a span that lies within the stream is read whole, and the *)
(* last bytes are read to the last one.                                    *)
(***************************************************************************)
LEMMA ReadWhole ==
  ASSUME Located, pc \in {"read", "parsing"}, span.start + span.length <= StreamSize(stream)
  PROVE  Len(bytes) = span.length
<1>1. /\ bytes \in Seq(Nat) /\ left \in Nat /\ span.start \in Nat /\ span.length \in Nat
      /\ Len(bytes) + left = span.length
      /\ left > 0 => span.start + Len(bytes) = StreamSize(stream)
  BY DEF Located, TypeOK, SpanInStep
<1>2. PICK n \in Nat : n = Len(bytes)
  BY <1>1
<1> QED
  BY <1>1, <1>2

LEMMA LastRead ==
  ASSUME Located, Noted, pc = "read", goal = "cdld",
         span.start + Len(bytes) <= StreamSize(stream)
  PROVE  /\ span.start + Len(bytes) = StreamSize(stream)
         /\ Len(bytes) = Lesser(StreamSize(stream), CDLD_MAX_SIZE)
<1>1. /\ bytes \in Seq(Nat) /\ left \in Nat /\ Len(bytes) + left = span.length
      /\ left > 0 => span.start + Len(bytes) = StreamSize(stream)
  BY DEF Located, TypeOK, SpanInStep
<1>2. PICK n \in Nat : n = Len(bytes)
  BY <1>1
<1>3. StreamSize(stream) \in Nat
  BY PlaceFacts DEF Located, TypeOK
<1>4. span.start = StreamSize(stream) - Lesser(StreamSize(stream), CDLD_MAX_SIZE)
      /\ span.length = CDLD_MAX_SIZE
  BY DEF Noted, Window
<1> DEFINE size == StreamSize(stream)
<1> HIDE DEF size
<1>5. CASE size < CDLD_MAX_SIZE
  BY <1>1, <1>2, <1>3, <1>4, <1>5, SizeFacts DEF Lesser, size
<1>6. CASE ~ (size < CDLD_MAX_SIZE)
  BY <1>1, <1>2, <1>3, <1>4, <1>6, SizeFacts DEF Lesser, size
<1> QED
  BY <1>5, <1>6

(***************************************************************************)
(* The end record of a correct writer is the one that is found, and it is  *)
(* accepted; the locator is read when one is needed.                       *)
(***************************************************************************)
LEMMA EndIsFound ==
  ASSUME Located, Noted, pc = "read", goal = "cdld",
         NEW directory, NEW e, NEW c, NEW n,
         Way(directory, e, c, n), OnTheWay(directory, e, c, n)
  PROVE  /\ EndOffsets # {}
         /\ \A o \in EndOffsets : FoundAt(o) =>
              /\ End(o) = stream.eocd32[e]
              /\ EndSize(o) = Len(bytes)
              /\ RequiresZip64(stream.eocd32[e]) =>
                   /\ LocatorOffset(o) \in Nat /\ LocatorOffset(o) < Len(bytes)
                   /\ bytes[LocatorOffset(o) + 1] = e - SIGNATURE - EOCD64_LOCATOR_CONSTANT_SIZE
                   /\ e - SIGNATURE - EOCD64_LOCATOR_CONSTANT_SIZE \in DOMAIN stream.locator
<1> DEFINE size == StreamSize(stream)
           comment == stream.eocd32[e].comment_length
           l == e - SIGNATURE - EOCD64_LOCATOR_CONSTANT_SIZE
<1>1. /\ span.start + Len(bytes) = size
      /\ Len(bytes) = Lesser(size, CDLD_MAX_SIZE)
  BY LastRead DEF OnTheWay
<1>2. PICK m \in Nat : m = Len(bytes)
  BY DEF Located, TypeOK
<1>3. /\ e \in Nat /\ size \in Nat /\ comment \in Nat /\ comment <= U16_MAX
      /\ e + SIGNATURE + EOCD32_CONSTANT_SIZE + comment = size
      /\ e \in DOMAIN stream.eocd32 /\ \A g \in DOMAIN stream.eocd32 : g <= e
  <2>1. e \in Nat /\ size \in Nat
    BY WayFacts DEF Located
  <2>2. IsEnd(stream, e) /\ IsStream(stream)
    BY DEF Way, Located, TypeOK
  <2>3. comment \in Nat
    BY <2>2 DEF IsEnd, IsStream, EndOfCentralDirectory32
  <2> QED
    BY <2>1, <2>2, <2>3 DEF IsEnd
<1>4. /\ span.start \in Nat
      /\ CDLD_MAX_SIZE = EOCD32_CONSTANT_SIZE + SIGNATURE + U16_MAX + SIGNATURE
                           + EOCD64_LOCATOR_CONSTANT_SIZE
  BY DEF Located, TypeOK, CDLD_MAX_SIZE, EOCD32_MAX_SIZE
<1>5. PICK o \in Int : o = e - span.start
  BY <1>3, <1>4
<1> HIDE DEF size, comment, l
<1>6. /\ o \in m - Lesser(m, EOCD32_MAX_SIZE) .. m - EOCD32_CONSTANT_SIZE - 1
      /\ o \in Nat /\ o < m
      /\ o + SIGNATURE + EOCD32_CONSTANT_SIZE + comment = m
  <2>1. o + SIGNATURE + EOCD32_CONSTANT_SIZE + comment = m
    <3>1. PICK start \in Nat : start + m = size /\ o = e - start
      BY <1>1, <1>2, <1>4, <1>5
    <3>2. SIGNATURE \in Nat /\ EOCD32_CONSTANT_SIZE \in Nat
      BY SizesAssumption
    <3>3. e + SIGNATURE + EOCD32_CONSTANT_SIZE + comment = start + m
      BY <1>3, <3>1
    <3>4. e \in Nat /\ comment \in Nat
      BY <1>3
    <3> QED
      BY <3>1, <3>2, <3>3, <3>4
  <2>2. o <= m - EOCD32_CONSTANT_SIZE - 1 /\ o < m /\ m - EOCD32_MAX_SIZE <= o
    BY <1>3, <2>1, SizesAssumption DEF EOCD32_MAX_SIZE
  <2>3. o >= 0
    <3>1. CASE m < CDLD_MAX_SIZE
      <4>1. m = size
        BY <1>1, <1>2, <1>3, <3>1 DEF Lesser
      <4> QED
        BY <1>1, <1>2, <1>3, <1>4, <1>5, <4>1
    <3>2. CASE m >= CDLD_MAX_SIZE
      BY <1>3, <1>4, <2>1, <3>2, SizesAssumption
    <3> QED
      BY <1>2, <1>4, <3>1, <3>2, SizesAssumption
  <2>4. EOCD32_MAX_SIZE \in Nat
    BY SizesAssumption DEF EOCD32_MAX_SIZE
  <2>5. /\ EOCD32_CONSTANT_SIZE \in Nat
        /\ Lesser(m, EOCD32_MAX_SIZE) = m \/ Lesser(m, EOCD32_MAX_SIZE) = EOCD32_MAX_SIZE
    BY SizesAssumption DEF Lesser
  <2>6. o \in Nat /\ m - Lesser(m, EOCD32_MAX_SIZE) <= o
    BY <2>2, <2>3, <2>4, <2>5
  <2> QED
    BY <2>1, <2>2, <2>4, <2>5, <2>6
<1>7. bytes[o + 1] = e
  <2>1. bytes[o + 1] = span.start + o
    BY <1>2, <1>6, ByteFacts
  <2> QED
    BY <1>3, <1>4, <1>5, <2>1
<1>8. o \in EndOffsets
  BY <1>2, <1>3, <1>6, <1>7 DEF EndOffsets, Signed
<1>9. \A other \in EndOffsets : other \in Nat /\ other < m /\ other <= o
  <2> SUFFICES ASSUME NEW other \in EndOffsets
               PROVE  other \in Nat /\ other < m /\ other <= o
    OBVIOUS
  <2>1. /\ other \in m - Lesser(m, EOCD32_MAX_SIZE) .. m - EOCD32_CONSTANT_SIZE - 1
        /\ bytes[other + 1] \in DOMAIN stream.eocd32
    BY <1>2 DEF EndOffsets, Signed
  <2>2. other \in Nat /\ other < m
    BY <2>1, SizesAssumption DEF Lesser, EOCD32_MAX_SIZE
  <2>3. bytes[other + 1] = span.start + other /\ span.start + other <= e
    BY <1>2, <1>3, <2>1, <2>2, ByteFacts
  <2> QED
    BY <1>3, <1>4, <1>5, <2>2, <2>3
<1>10. ASSUME RequiresZip64(stream.eocd32[e])
       PROVE  /\ LocatorOffset(o) \in Nat /\ LocatorOffset(o) < m
              /\ bytes[LocatorOffset(o) + 1] = l
              /\ l \in DOMAIN stream.locator
  <2>1. l \in DOMAIN stream.locator /\ l \in Nat
    BY <1>10 DEF Way, Leads, Located, TypeOK, IsStream, l
  <2>2. span.start = 0 \/ m = CDLD_MAX_SIZE
    BY <1>1, <1>2, <1>3, <1>4, SizesAssumption DEF Lesser
  <2>3. LocatorOffset(o) \in Nat /\ LocatorOffset(o) < m /\ span.start + LocatorOffset(o) = l
    BY <1>3, <1>4, <1>5, <1>6, <2>1, <2>2, SizesAssumption DEF LocatorOffset, l
  <2>4. bytes[LocatorOffset(o) + 1] = l
    BY <1>2, <2>3, ByteFacts
  <2> QED
    BY <2>1, <2>3, <2>4
<1>11. ASSUME NEW other \in EndOffsets, FoundAt(other)
       PROVE  other = o
  BY <1>8, <1>9, <1>11, <1>5 DEF FoundAt
<1>12. End(o) = stream.eocd32[e] /\ EndSize(o) = Len(bytes)
  BY <1>2, <1>6, <1>7 DEF End, EndSize, comment
<1> QED
  BY <1>2, <1>8, <1>10, <1>11, <1>12 DEF l

-----------------------------------------------------------------------------
(***************************************************************************)
(* Each step keeps to the way.                                             *)
(***************************************************************************)
LEMMA ProvidedOnTheWay ==
  ASSUME Located, Located', Provide, NEW directory, NEW e, NEW c, NEW n,
         OnTheWay(directory, e, c, n)
  PROVE  OnTheWay(directory, e, c, n)'
<1>1. /\ pc = "asking" /\ ~ Beyond /\ left' = left - FromThis /\ NextCall
      /\ UNCHANGED << stream, error, goal, span, eocd32, headers, offset >>
  BY DEF Provide, OnTheWay, result
<1>2. /\ cursor \in Place /\ left \in Nat /\ bytes \in Seq(Nat) /\ bytes' \in Seq(Nat)
      /\ left' \in Nat /\ span.start \in Nat
      /\ Len(bytes) + left = span.length /\ Len(bytes') + left' = span.length
      /\ Global(stream, cursor) = span.start + Len(bytes)
  BY <1>1 DEF Located, TypeOK, SpanInStep, Place
<1>3. /\ stream.size[cursor.disk] \in Nat /\ stream.base[cursor.disk] \in Nat
      /\ StreamSize(stream) \in Nat /\ cursor.offset \in Nat
      /\ FromThis \in Nat /\ cursor.offset + FromThis <= stream.size[cursor.disk]
  <2>1. /\ stream.size[cursor.disk] \in Nat /\ stream.base[cursor.disk] \in Nat
        /\ StreamSize(stream) \in Nat /\ cursor.offset \in Nat
    BY <1>2, PlaceFacts DEF Located, Place
  <2>2. FromThis = Lesser(stream.size[cursor.disk] - cursor.offset, left)
        /\ cursor.offset <= stream.size[cursor.disk]
    BY <1>1, <2>1 DEF FromThis, Beyond
  <2>3. left \in Nat
    BY <1>2
  <2> QED
    BY <2>1, <2>2, <2>3 DEF Lesser
<1>4. stream.base[cursor.disk] + stream.size[cursor.disk] <= StreamSize(stream)
  <2>1. IsDisks(stream) /\ cursor.disk \in 0 .. stream.disks - 1
    BY <1>2 DEF Located, TypeOK, IsStream, Place, Disks
  <2>2. stream.disks \in Nat \ {0}
    BY <2>1 DEF IsDisks
  <2>3. cursor.disk + 1 \in 0 .. stream.disks /\ stream.disks \in cursor.disk + 1 .. stream.disks
    BY <2>1, <2>2
  <2>4. stream.base[cursor.disk + 1] <= StreamSize(stream)
    BY <2>1, <2>3, BaseGrows DEF StreamSize
  <2> QED
    BY <2>1, <2>4, DiskFacts
<1>5. span.start + Len(bytes') <= StreamSize(stream)
  <2>1. PICK have \in Nat, has \in Nat : have = Len(bytes) /\ has = Len(bytes')
    BY <1>2
  <2>2. has = have + FromThis
    BY <1>1, <1>2, <1>3, <2>1
  <2>3. stream.base[cursor.disk] + cursor.offset = span.start + have
    BY <1>2, <2>1 DEF Global
  <2>4. PICK start \in Nat, base \in Nat, size \in Nat, at \in Nat, more \in Nat :
          /\ start = span.start /\ base = stream.base[cursor.disk]
          /\ size = stream.size[cursor.disk] /\ at = cursor.offset /\ more = FromThis
    BY <1>2, <1>3
  <2>5. base + at = start + have /\ at + more <= size /\ base + size <= StreamSize(stream)
    BY <1>3, <1>4, <2>3, <2>4
  <2>6. start + (have + more) <= StreamSize(stream)
    BY <1>3, <2>4, <2>5
  <2> QED
    BY <2>1, <2>2, <2>4, <2>6
<1>6. \/ pc' = "read"
      \/ pc' = "asking" /\ cursor' = [disk |-> cursor.disk + 1, offset |-> 0]
  BY <1>1 DEF NextCall
<1>7. ASSUME pc' = "asking" PROVE ~ Beyond'
  <2>1. cursor' = [disk |-> cursor.disk + 1, offset |-> 0] /\ cursor' \in [disk : Disks', offset : Nat]
    BY <1>6, <1>7 DEF Located, TypeOK
  <2>2. stream'.size[cursor'.disk] \in Nat
    BY <2>1, DiskFacts DEF Located, TypeOK, IsStream, Disks
  <2> QED
    BY <2>1, <2>2 DEF Beyond
<1> QED
  BY <1>1, <1>5, <1>6, <1>7 DEF OnTheWay

LEMMA EndOnTheWay ==
  ASSUME Located, Noted, NEW directory, NEW e, NEW c, NEW n,
         Way(directory, e, c, n), OnTheWay(directory, e, c, n),
         NoEnd \/ EndRejected \/ EndAccepted \/ LocatorRead
  PROVE  OnTheWay(directory, e, c, n)'
<1> DEFINE end == stream.eocd32[e]
           l == e - SIGNATURE - EOCD64_LOCATOR_CONSTANT_SIZE
<1>1. pc = "read" /\ goal = "cdld"
  BY DEF NoEnd, EndRejected, EndAccepted, LocatorRead, FoundAt
<1>2. /\ EndOffsets # {}
      /\ \A o \in EndOffsets : FoundAt(o) =>
           /\ End(o) = end /\ EndSize(o) = Len(bytes)
           /\ RequiresZip64(end) =>
                /\ LocatorOffset(o) \in Nat
                /\ bytes[LocatorOffset(o) + 1] = l /\ l \in DOMAIN stream.locator
  BY <1>1, EndIsFound
<1>3. /\ TypeOK /\ IsStream(stream) /\ Leads(stream, e, c, n) /\ end \in EndOfCentralDirectory32
      /\ StreamSize(stream) \in Nat /\ c \in Nat /\ c < StreamSize(stream)
  <2>1. TypeOK /\ IsStream(stream)
    BY DEF Located, TypeOK
  <2>2. StreamSize(stream) \in Nat /\ c \in Nat /\ c < StreamSize(stream)
    BY <2>1, WayFacts
  <2> QED
    BY <2>1, <2>2 DEF Way, IsEnd, IsStream
<1>4. ~ NoEnd
  BY <1>2 DEF NoEnd
<1>5. ~ EndRejected
  <2> SUFFICES ASSUME NEW o \in EndOffsets, FoundAt(o),
                      EndSize(o) > Len(bytes) \/ EndSize(o) < Len(bytes)
               PROVE  FALSE
    BY DEF EndRejected
  <2>1. EndSize(o) = Len(bytes) /\ Len(bytes) \in Nat
    BY <1>2, <1>3 DEF TypeOK
  <2> QED
    BY <2>1
<1>6. CASE EndAccepted
  <2>1. PICK o \in EndOffsets :
          /\ FoundAt(o) /\ (~ RequiresZip64(End(o)) \/ LocatorOffset(o) < 0)
          /\ Map("cd", [disk |-> End(o).cd_disk_number, offset |-> End(o).cd_offset],
                 End(o).cd_size)
          /\ stream' = stream
    BY <1>6 DEF EndAccepted
  <2> DEFINE p == [disk |-> end.cd_disk_number, offset |-> end.cd_offset]
  <2>2. End(o) = end /\ ~ RequiresZip64(end)
    BY <1>2, <2>1
  <2>3. Names(stream, p, c) /\ n = end.cd_size
    BY <1>3, <2>2 DEF Leads
  <2>4. Map("cd", p, n) /\ p \in Position
    BY <1>3, <2>1, <2>2, <2>3 DEF EndOfCentralDirectory32, Position
  <2> HIDE DEF p, end
  <2>5. PICK pos \in Place : /\ Ask("cd", pos, n)
                             /\ pos.offset <= stream.size[pos.disk]
                             /\ Global(stream, pos) = c
    BY <1>3, <2>3, <2>4, NamedAsked
  <2> QED
    BY <1>1, <1>3, <2>1, <2>5, AskedOnTheWay
<1>7. CASE LocatorRead
  <2>1. PICK o \in EndOffsets :
          /\ FoundAt(o) /\ RequiresZip64(End(o)) /\ eocd32' = End(o)
          /\ \/ ~ Signed(stream.locator, LocatorOffset(o))
             \/ Map("eocd64", stream.locator[bytes[LocatorOffset(o) + 1]],
                    SIGNATURE + EOCD64_CONSTANT_SIZE)
          /\ stream' = stream
    BY <1>7 DEF LocatorRead
  <2>2. End(o) = end /\ bytes[LocatorOffset(o) + 1] = l /\ l \in DOMAIN stream.locator
    BY <1>2, <2>1
  <2>3. Map("eocd64", stream.locator[l], SIGNATURE + EOCD64_CONSTANT_SIZE)
        /\ RequiresZip64(end) /\ eocd32' = end
    BY <2>1, <2>2 DEF Signed
  <2>4. PICK g \in DOMAIN stream.eocd64 :
          Names(stream, stream.locator[l], g) /\ Lends(stream, end, g, c, n)
    BY <1>3, <2>3 DEF Leads
  <2>5. g \in Nat /\ g < StreamSize(stream) /\ stream.locator[l] \in Position
    <3>1. g \in Nat /\ stream.locator[l] \in Position
      BY <1>3, <2>2 DEF IsStream, EndOfCentralDirectory64Locator
    <3>2. g + SIGNATURE + EOCD64_CONSTANT_SIZE <= StreamSize(stream)
      BY <2>4 DEF Lends
    <3> QED
      BY <1>3, <3>1, <3>2, SizesAssumption
  <2> HIDE DEF end, l
  <2>6. PICK pos \in Place : /\ Ask("eocd64", pos, SIGNATURE + EOCD64_CONSTANT_SIZE)
                             /\ pos.offset <= stream.size[pos.disk]
                             /\ Global(stream, pos) = g
    BY <1>3, <2>3, <2>4, <2>5, NamedAsked
  <2> QED
    BY <1>1, <1>3, <2>1, <2>3, <2>4, <2>6, AskedOnTheWay DEF end
<1> QED
  BY <1>4, <1>5, <1>6, <1>7

LEMMA End64OnTheWay ==
  ASSUME Located, NEW directory, NEW e, NEW c, NEW n,
         Way(directory, e, c, n), OnTheWay(directory, e, c, n),
         End64Cut \/ End64Rejected \/ End64Accepted
  PROVE  OnTheWay(directory, e, c, n)'
<1> DEFINE g == span.start
           large == stream.eocd64[g]
           p == [disk   |-> Unless(U16_MAX, eocd32.cd_disk_number, large.cd_disk_number),
                 offset |-> Unless(U32_MAX, eocd32.cd_offset, large.cd_offset)]
<1>1. pc = "read" /\ goal = "eocd64" /\ stream' = stream
  BY DEF End64Cut, End64Rejected, End64Accepted, AtEnd64
<1>2. span.length = SIGNATURE + EOCD64_CONSTANT_SIZE /\ Lends(stream, eocd32, g, c, n)
  BY <1>1 DEF OnTheWay
<1>3. /\ g \in DOMAIN stream.eocd64 /\ g + SIGNATURE + EOCD64_CONSTANT_SIZE <= StreamSize(stream)
      /\ Names(stream, p, c) /\ n = Unless(U32_MAX, eocd32.cd_size, large.cd_size)
  BY <1>2 DEF Lends
<1>4. TypeOK /\ g \in Nat /\ StreamSize(stream) \in Nat /\ c \in Nat /\ c < StreamSize(stream)
  BY WayFacts DEF Located, TypeOK
<1>5. Len(bytes) = SIGNATURE + EOCD64_CONSTANT_SIZE
  <2>1. span.start + span.length <= StreamSize(stream)
    BY <1>2, <1>3, <1>4, SizesAssumption
  <2> QED
    BY <1>1, <1>2, <2>1, ReadWhole
<1>6. Len(bytes) >= SIGNATURE /\ bytes[1] = g
  <2>1. Len(bytes) >= SIGNATURE /\ 0 < Len(bytes)
    BY <1>5, SizesAssumption
  <2>2. bytes[0 + 1] = span.start + 0
    BY <2>1, ByteFacts
  <2> QED
    BY <1>4, <2>1, <2>2
<1>7. ~ End64Cut
  BY <1>5, SizesAssumption DEF End64Cut
<1>8. ~ End64Rejected
  BY <1>3, <1>5, <1>6, SizesAssumption DEF End64Rejected, Signed
<1>9. Map("cd", p, n)
  BY <1>3, <1>6, <1>7, <1>8 DEF End64Accepted
<1>10. p \in Position
  BY <1>3, <1>4 DEF TypeOK, IsStream, EndOfCentralDirectory32, EndOfCentralDirectory64,
                    Position, Unless
<1> HIDE DEF p
<1>11. PICK pos \in Place : /\ Ask("cd", pos, n)
                            /\ pos.offset <= stream.size[pos.disk]
                            /\ Global(stream, pos) = c
  BY <1>3, <1>4, <1>9, <1>10, NamedAsked
<1> QED
  BY <1>1, <1>4, <1>11, AskedOnTheWay

(***************************************************************************)
(* The directory is read whole, and its headers are the listed ones.       *)
(***************************************************************************)
LEMMA DirectoryIsWhole ==
  ASSUME Located, NEW directory, NEW e, NEW c, NEW n,
         Way(directory, e, c, n), OnTheWay(directory, e, c, n),
         pc \in {"read", "parsing"}, goal = "cd"
  PROVE  /\ span.start = c /\ Len(bytes) = n /\ n \in Nat /\ c \in Nat
         /\ \A o \in Nat : o < n => bytes[o + 1] = c + o
<1>1. span.start = c /\ span.length = n /\ n \in Nat /\ c \in Nat /\ c + n <= StreamSize(stream)
  BY WayFacts DEF OnTheWay, Located
<1>2. Len(bytes) = n
  BY <1>1, ReadWhole
<1> QED
  BY <1>1, <1>2, ByteFacts

LEMMA DirectoryOnTheWay ==
  ASSUME Located, NEW directory, NEW e, NEW c, NEW n,
         Way(directory, e, c, n), OnTheWay(directory, e, c, n), DirectoryRead
  PROVE  OnTheWay(directory, e, c, n)'
<1>1. pc = "read" /\ goal = "cd" /\ headers' = << >> /\ offset' = 0 /\ stream' = stream
  BY DEF DirectoryRead
<1>2. /\ span.start = c /\ Len(bytes) = n /\ n \in Nat /\ c \in Nat
      /\ SIGNATURE + CDFH_CONSTANT_SIZE <= n /\ c \in Listed(directory)
  BY <1>1, DirectoryIsWhole, WayFacts DEF Located
<1>3. pc' = "parsing" /\ UNCHANGED << error, goal, span, bytes >>
  BY <1>2, SizesAssumption DEF DirectoryRead
<1>4. \A h \in Listed(directory) : ~ (h < c + 0)
  <2>1. \A h \in Listed(directory) : h \in Nat /\ c <= h
    BY WayFacts DEF Located, Way, Lists, Listed
  <2> QED
    BY <1>2, <2>1
<1>5. Gathered(directory, c, n)'
  <2>1. c + 0 = c /\ DOMAIN << >> = {}
    BY <1>2
  <2> QED
    BY <1>1, <1>2, <1>4, <2>1 DEF Gathered, Listed
<1> QED
  BY <1>1, <1>3, <1>5 DEF OnTheWay

(***************************************************************************)
(* A listed header is whole, and what is behind it is the next one or the  *)
(* end; before the end there is always one.                                *)
(***************************************************************************)
LEMMA NextListed ==
  ASSUME Located, NEW directory, NEW e, NEW c, NEW n,
         Way(directory, e, c, n), OnTheWay(directory, e, c, n), pc = "parsing"
  PROVE  /\ Gathered(directory, c, n) /\ offset \in Nat
         /\ InDirectory <=> offset # n
         /\ InDirectory =>
              /\ bytes[offset + 1] = c + offset /\ c + offset \in Listed(directory)
              /\ Signed(stream.cdfh, offset) /\ Whole
              /\ offset + EntrySize \in Nat
              /\ Past(stream, c + offset) = c + (offset + EntrySize)
              /\ EntrySize \in Nat /\ EntrySize > 0
<1>1. /\ Gathered(directory, c, n) /\ goal = "cd" /\ offset \in Nat /\ IsStream(stream)
  BY DEF OnTheWay, Located, TypeOK
<1>2. /\ Len(bytes) = n /\ n \in Nat /\ c \in Nat
      /\ \A o \in Nat : o < n => bytes[o + 1] = c + o
  BY <1>1, DirectoryIsWhole
<1>3. ASSUME c + offset \in Listed(directory)
      PROVE  /\ bytes[offset + 1] = c + offset
             /\ Signed(stream.cdfh, offset) /\ Whole /\ InDirectory
             /\ offset + EntrySize \in Nat
             /\ Past(stream, c + offset) = c + (offset + EntrySize)
             /\ EntrySize \in Nat /\ EntrySize > 0
  <2> DEFINE h == c + offset
             size == stream.cdfh[h].header_size
  <2>1. /\ h \in DOMAIN stream.cdfh /\ stream.cdfh[h].wellformed
        /\ Past(stream, h) <= c + n
    BY <1>3 DEF Way, Lists, Listed
  <2>2. size \in Nat
    BY <1>1, <2>1 DEF IsStream, CentralDirectoryFileHeader
  <2>3. offset + SIGNATURE + size <= n /\ Past(stream, h) = c + (offset + (SIGNATURE + size))
    <3> HIDE DEF size
    <3>1. Past(stream, h) = c + offset + SIGNATURE + size
      BY DEF Past, size
    <3> HIDE DEF h
    <3> QED
      BY <1>1, <1>2, <2>1, <2>2, <3>1, SizesAssumption
  <2>4. offset < n /\ offset < n - (SIGNATURE - 1) /\ n - offset >= SIGNATURE + size
    BY <1>1, <1>2, <2>2, <2>3, SizesAssumption
  <2>5. bytes[offset + 1] = h
    BY <1>1, <1>2, <2>4
  <2>6. Entry = stream.cdfh[h] /\ EntrySize = SIGNATURE + size
    BY <2>5 DEF Entry, EntrySize
  <2>7. EntrySize \in Nat /\ EntrySize > 0 /\ offset + EntrySize \in Nat
    BY <1>1, <2>2, <2>6, SizesAssumption
  <2>8. Signed(stream.cdfh, offset) /\ Whole /\ InDirectory
    BY <1>2, <2>1, <2>4, <2>5, <2>6 DEF Signed, Whole, InDirectory
  <2> QED
    BY <2>3, <2>5, <2>6, <2>7, <2>8
<1>4. CASE offset = n
  <2>1. ~ InDirectory
    BY <1>2, <1>4, SizesAssumption DEF InDirectory
  <2> QED
    BY <1>1, <1>4, <2>1
<1>5. CASE offset # n
  <2>1. c + offset \in Listed(directory)
    BY <1>1, <1>5 DEF Gathered
  <2> QED
    BY <1>1, <1>3, <1>5, <2>1
<1> QED
  BY <1>4, <1>5

LEMMA PushedOnTheWay ==
  ASSUME Located, NEW directory, NEW e, NEW c, NEW n,
         Way(directory, e, c, n), OnTheWay(directory, e, c, n), HeaderPushed
  PROVE  OnTheWay(directory, e, c, n)'
<1> DEFINE h == c + offset
           m == Len(headers)
<1>1. /\ pc = "parsing" /\ InDirectory
      /\ headers' = Append(headers, bytes[offset + 1]) /\ offset' = offset + EntrySize
      /\ UNCHANGED << stream, pc, error, goal, span, bytes >>
  BY DEF HeaderPushed, InDirectory
<1>2. /\ Gathered(directory, c, n) /\ offset \in Nat
      /\ bytes[offset + 1] = h /\ h \in Listed(directory)
      /\ Past(stream, h) = c + offset' /\ EntrySize \in Nat /\ EntrySize > 0
      /\ offset' \in Nat
  BY <1>1, NextListed
<1>0. PICK past \in Nat : past = offset'
  BY <1>2
<1>3. c \in Nat /\ h \in Nat /\ h < c + past
      /\ \A g \in Listed(directory) : g \in Nat
  BY <1>0, <1>1, <1>2, WayFacts DEF Located
<1>4. /\ m \in Nat /\ DOMAIN headers = 1 .. m /\ DOMAIN headers' = 1 .. m + 1
      /\ headers'[m + 1] = h /\ \A k \in 1 .. m : headers'[k] = headers[k]
  BY <1>1, <1>2 DEF Located, TypeOK
<1> HIDE DEF h, m
<1>5. \A k \in 1 .. m : headers[k] \in Listed(directory) /\ headers[k] < h
  BY <1>2, <1>4 DEF Gathered, h
<1>6. \A k \in 1 .. m + 1 : headers'[k] \in Listed(directory) /\ headers'[k] < c + past
  <2> SUFFICES ASSUME NEW k \in 1 .. m + 1
               PROVE  headers'[k] \in Listed(directory) /\ headers'[k] < c + past
    OBVIOUS
  <2>1. CASE k = m + 1
    BY <1>2, <1>3, <1>4, <2>1
  <2>2. CASE k \in 1 .. m
    <3>1. headers'[k] \in Listed(directory) /\ headers'[k] < h
      BY <1>4, <1>5, <2>2
    <3>2. PICK g \in Nat : g = headers'[k]
      BY <1>3, <3>1
    <3>3. h < c + past /\ c \in Nat /\ h \in Nat
      BY <1>3
    <3>4. g < c + past
      BY <3>1, <3>2, <3>3
    <3> QED
      BY <3>1, <3>2, <3>4
  <2> QED
    BY <1>4, <2>1, <2>2
<1>7. \A i, j \in 1 .. m + 1 : i < j => headers'[i] < headers'[j]
  <2> SUFFICES ASSUME NEW i \in 1 .. m + 1, NEW j \in 1 .. m + 1, i < j
               PROVE  headers'[i] < headers'[j]
    OBVIOUS
  <2>1. i \in 1 .. m
    BY <1>4
  <2>2. CASE j = m + 1
    BY <1>4, <1>5, <2>1, <2>2
  <2>3. CASE j \in 1 .. m
    BY <1>2, <1>4, <2>1, <2>3 DEF Gathered
  <2> QED
    BY <1>4, <2>2, <2>3
<1>8. ASSUME NEW g \in Listed(directory), g < c + past
      PROVE  \E k \in 1 .. m + 1 : headers'[k] = g
  <2>1. CASE g < h
    <3>1. PICK k \in 1 .. m : headers[k] = g
      BY <1>2, <1>4, <2>1 DEF Gathered, h
    <3> QED
      BY <1>4, <3>1
  <2>2. CASE g = h
    BY <1>4, <2>2
  <2>3. CASE h < g
    <3>1. Past(stream, h) <= g
      BY <1>2, <2>3 DEF Way, Lists, Listed
    <3>2. Past(stream, h) = c + past
      BY <1>0, <1>2
    <3>3. c + past <= g
      BY <3>1, <3>2
    <3>4. c \in Nat /\ g \in Nat
      BY <1>3
    <3> QED
      BY <1>8, <3>3, <3>4
  <2> QED
    BY <1>3, <2>1, <2>2, <2>3
<1>9. past = n \/ c + past \in Listed(directory)
  <2>1. Past(stream, h) = c + n \/ Past(stream, h) \in Listed(directory)
    BY <1>2 DEF Way, Lists, Listed
  <2>2. n \in Nat /\ c \in Nat
    BY <1>3 DEF Way
  <2>3. c + past = c + n => past = n
    BY <2>2
  <2> QED
    BY <1>0, <1>2, <2>1, <2>3
<1>10. Gathered(directory, c, n)'
  BY <1>0, <1>4, <1>6, <1>7, <1>8, <1>9 DEF Gathered, Listed
<1> QED
  BY <1>1, <1>10 DEF OnTheWay

(***************************************************************************)
(* The sorted headers are the directory: the order is one of all of them,  *)
(* and there is only one such.                                             *)
(***************************************************************************)
LEMMA SortedOnTheWay ==
  ASSUME Located, Located', NEW directory, NEW e, NEW c, NEW n,
         Way(directory, e, c, n), OnTheWay(directory, e, c, n), Sort
  PROVE  OnTheWay(directory, e, c, n)'
<1> DEFINE m == Len(headers)
<1>1. /\ pc = "parsing" /\ pc' = "done" /\ ~ InDirectory
      /\ UNCHANGED << stream, error >>
  BY DEF Sort
<1>2. PICK order \in [DOMAIN headers -> DOMAIN headers] :
        /\ \A i, j \in DOMAIN headers : i < j => Precedes(order[i], order[j])
        /\ headers' = [r \in DOMAIN headers |-> headers[order[r]]]
  BY DEF Sort
<1>3. Gathered(directory, c, n) /\ offset = n /\ IsStream(stream) /\ c \in Nat /\ n \in Nat
  BY <1>1, NextListed, WayFacts DEF Located, TypeOK
<1>4. /\ m \in Nat /\ DOMAIN headers = 1 .. m /\ order \in [1 .. m -> 1 .. m]
      /\ DOMAIN headers' = 1 .. m /\ \A r \in 1 .. m : headers'[r] = headers[order[r]]
      /\ headers' \in Seq(Nat)
  <2>1. m \in Nat /\ DOMAIN headers = 1 .. m
    BY DEF Located, TypeOK
  <2> QED
    BY <1>2, <2>1 DEF Located, TypeOK
<1>5. /\ directory \in Seq(DOMAIN stream.cdfh)
      /\ \A i, j \in DOMAIN directory : i < j => Ahead(stream, directory[i], directory[j])
      /\ \A h \in Listed(directory) : h \in Nat /\ Past(stream, h) \in Nat
                                      /\ Past(stream, h) >= h + SIGNATURE
                                      /\ Past(stream, h) <= c + n
  BY WayFacts DEF Way, Lists, Listed, Located
<1> HIDE DEF m
<1>6. \A k \in 1 .. m : headers[k] \in Listed(directory) /\ headers[k] \in DOMAIN stream.cdfh
  <2>1. \A h \in Listed(directory) : h \in DOMAIN stream.cdfh
    BY <1>5 DEF Listed
  <2> QED
    BY <1>3, <1>4, <2>1 DEF Gathered
<1>7. \A i, j \in 1 .. m : i < j => headers[i] < headers[j]
  BY <1>3, <1>4 DEF Gathered
<1>8. \A h \in Listed(directory) : \E k \in 1 .. m : headers[k] = h
  <2> SUFFICES ASSUME NEW h \in Listed(directory) PROVE \E k \in 1 .. m : headers[k] = h
    OBVIOUS
  <2>1. h < c + offset
    <3>1. PICK past \in Nat : past = Past(stream, h)
      BY <1>5
    <3>2. h \in Nat /\ past >= h + SIGNATURE /\ past <= c + n
      BY <1>5, <3>1
    <3>3. h < c + n
      BY <1>3, <3>2, SizesAssumption
    <3> QED
      BY <1>3, <3>3
  <2> QED
    BY <1>3, <1>4, <2>1 DEF Gathered
<1>9. \A i, j \in 1 .. m : i < j => Ahead(stream, headers'[i], headers'[j])
  <2> SUFFICES ASSUME NEW i \in 1 .. m, NEW j \in 1 .. m, i < j
               PROVE  Ahead(stream, headers'[i], headers'[j])
    OBVIOUS
  <2>1. Precedes(order[i], order[j]) /\ order[i] \in 1 .. m /\ order[j] \in 1 .. m
    BY <1>2, <1>4
  <2>2. headers'[i] = headers[order[i]] /\ headers'[j] = headers[order[j]]
    BY <1>4
  <2> QED
    BY <1>7, <2>1, <2>2 DEF Precedes, HeaderPosition, Ahead
<1>10. \A i, j \in 1 .. m : i # j => order[i] # order[j]
  <2>1. \A i, j \in 1 .. m : i < j => order[i] # order[j]
    <3> SUFFICES ASSUME NEW i \in 1 .. m, NEW j \in 1 .. m, i < j, order[i] = order[j]
                 PROVE  FALSE
      OBVIOUS
    <3>1. Ahead(stream, headers'[i], headers'[i]) /\ headers'[i] \in DOMAIN stream.cdfh
      BY <1>4, <1>6, <1>9
    <3> QED
      BY <1>3, <3>1, AheadIsOrder
  <2> QED
    BY <1>4, <2>1
<1>11. \A y \in 1 .. m : \E x \in 1 .. m : order[x] = y
  BY <1>4, <1>10, OneToOneIsOnto
<1>12. headers' \in Seq(DOMAIN stream.cdfh)
  <2>1. Len(headers') \in Nat /\ DOMAIN headers' = 1 .. Len(headers')
    BY <1>4
  <2>2. \A r \in 1 .. m : headers'[r] \in DOMAIN stream.cdfh
    BY <1>4, <1>6
  <2>3. headers' \in [1 .. m -> DOMAIN stream.cdfh]
    BY <1>2, <1>4, <2>2
  <2> QED
    BY <1>4, <2>3
<1>13. \A i \in DOMAIN headers' : \E j \in DOMAIN directory : headers'[i] = directory[j]
  BY <1>4, <1>6 DEF Listed
<1>14. \A j \in DOMAIN directory : \E i \in DOMAIN headers' : headers'[i] = directory[j]
  <2> SUFFICES ASSUME NEW j \in DOMAIN directory
               PROVE  \E i \in DOMAIN headers' : headers'[i] = directory[j]
    OBVIOUS
  <2>1. PICK k \in 1 .. m : headers[k] = directory[j]
    BY <1>8 DEF Listed
  <2>2. PICK i \in 1 .. m : order[i] = k
    BY <1>11
  <2> QED
    BY <1>4, <2>1, <2>2
<1>15. headers' = directory
  <2>1. \A i, j \in DOMAIN headers' : i < j => Ahead(stream, headers'[i], headers'[j])
    BY <1>4, <1>9
  <2> QED
    BY <1>3, <1>5, <1>12, <1>13, <1>14, <2>1, InOrderIsUnique
<1> QED
  BY <1>1, <1>15 DEF OnTheWay

(***************************************************************************)
(* Every step: one per action.                                             *)
(***************************************************************************)
LEMMA StepOnTheWay ==
  ASSUME Located, Located', Noted, [Next]_vars, NEW directory, NEW e, NEW c, NEW n,
         Way(directory, e, c, n), OnTheWay(directory, e, c, n)
  PROVE  Way(directory, e, c, n)' /\ OnTheWay(directory, e, c, n)'
<1>1. stream' = stream
  BY DEF Next, FromProvider, Answered, vars, Start, Provide, ProviderFails, Overflow, NoEnd,
         EndRejected, EndAccepted, LocatorRead, End64Cut, End64Rejected, End64Accepted,
         DirectoryRead, HeaderRejected, HeaderPushed, Leftover, Sort
<1>2. Way(directory, e, c, n)'
  BY <1>1 DEF Way
<1>3. CASE Start
  <2> DEFINE at == StreamSize(stream) - Lesser(StreamSize(stream), CDLD_MAX_SIZE)
  <2>1. pc = "start" /\ MapGlobal("cdld", at, CDLD_MAX_SIZE)
    BY <1>3 DEF Start
  <2>2. StreamSize(stream) \in Nat /\ StreamSize(stream) > 0 /\ TypeOK
    BY WayFacts DEF Located
  <2>3. CDLD_MAX_SIZE > 0 /\ CDLD_MAX_SIZE \in Nat
    BY SizesAssumption DEF CDLD_MAX_SIZE, EOCD32_MAX_SIZE
  <2>4. at \in Nat /\ at < StreamSize(stream)
    BY <2>2, <2>3 DEF Lesser
  <2> HIDE DEF at
  <2>5. PICK pos \in Place : /\ Ask("cdld", pos, CDLD_MAX_SIZE)
                             /\ pos.offset <= stream.size[pos.disk]
    BY <2>1, <2>2, <2>4, GlobalAsked
  <2>6. OnTheWay(directory, e, c, n)'
    BY <1>1, <2>1, <2>2, <2>5, AskedOnTheWay
  <2> QED
    BY <1>2, <2>6
<1>4. CASE Provide
  BY <1>2, <1>4, ProvidedOnTheWay
<1>5. CASE ProviderFails
  <2>1. pc' = "error" /\ error' \in {"FromProvider", "ProviderByteCount"}
    BY <1>5 DEF ProviderFails, Fail
  <2> QED
    BY <1>2, <2>1 DEF OnTheWay
<1>6. CASE Overflow
  BY <1>6 DEF Overflow, OnTheWay
<1>7. CASE NoEnd \/ EndRejected \/ EndAccepted \/ LocatorRead
  BY <1>2, <1>7, EndOnTheWay
<1>8. CASE End64Cut \/ End64Rejected \/ End64Accepted
  BY <1>2, <1>8, End64OnTheWay
<1>9. CASE DirectoryRead
  BY <1>2, <1>9, DirectoryOnTheWay
<1>10. CASE HeaderRejected
  <2>1. pc = "parsing" /\ InDirectory /\ ~ (Signed(stream.cdfh, offset) /\ Whole)
    BY <1>10 DEF HeaderRejected, InDirectory
  <2> QED
    BY <2>1, NextListed
<1>11. CASE HeaderPushed
  BY <1>2, <1>11, PushedOnTheWay
<1>12. CASE Leftover
  <2>1. pc = "parsing" /\ ~ InDirectory /\ offset # Len(bytes) /\ goal = "cd"
    BY <1>12 DEF Leftover, OnTheWay
  <2>2. offset = n
    BY <2>1, NextListed
  <2>3. Len(bytes) = n
    BY <2>1, DirectoryIsWhole
  <2> QED
    BY <2>1, <2>2, <2>3
<1>13. CASE Sort
  BY <1>2, <1>13, SortedOnTheWay
<1>14. CASE Answered \/ UNCHANGED vars
  <2>1. UNCHANGED << stream, pc, error, goal, span, cursor, bytes, eocd32, headers, offset >>
    BY <1>14 DEF Answered, vars, result
  <2>2. OnTheWay(directory, e, c, n)'
    BY <2>1 DEF OnTheWay, Beyond, Gathered
  <2> QED
    BY <1>2, <2>2
<1> QED
  BY <1>3, <1>4, <1>5, <1>6, <1>7, <1>8, <1>9, <1>10, <1>11, <1>12, <1>13, <1>14
     DEF Next, FromProvider

LEMMA FoundInit == Init => Found
<1> SUFFICES ASSUME Init, NEW directory \in stream.meant
             PROVE  \E e \in DOMAIN stream.eocd32, k \in DOMAIN directory,
                       n \in 0 .. StreamSize(stream) :
                       Way(directory, e, directory[k], n) /\ OnTheWay(directory, e, directory[k], n)
  BY DEF Found
<1>1. TypeOK
  BY LocatedInit DEF Located
<1>2. PICK e \in DOMAIN stream.eocd32, k \in DOMAIN directory, n \in 0 .. StreamSize(stream) :
        /\ IsEnd(stream, e)
        /\ Leads(stream, e, directory[k], n)
        /\ Lists(stream, directory, directory[k], n)
  BY MeantAssumption DEF Init, Written
<1>3. Way(directory, e, directory[k], n)
  BY <1>2 DEF Way
<1>4. OnTheWay(directory, e, directory[k], n)
  BY DEF Init, OnTheWay
<1> QED
  BY <1>3, <1>4

LEMMA FoundNext == Located /\ Located' /\ Noted /\ Found /\ [Next]_vars => Found'
<1> SUFFICES ASSUME Located, Located', Noted, Found, [Next]_vars,
                    NEW directory \in (stream.meant)'
             PROVE  (\E e \in DOMAIN stream.eocd32, k \in DOMAIN directory,
                        n \in 0 .. StreamSize(stream) :
                        Way(directory, e, directory[k], n)
                        /\ OnTheWay(directory, e, directory[k], n))'
  BY DEF Found
<1>1. stream' = stream
  BY DEF Next, FromProvider, Answered, vars, Start, Provide, ProviderFails, Overflow, NoEnd,
         EndRejected, EndAccepted, LocatorRead, End64Cut, End64Rejected, End64Accepted,
         DirectoryRead, HeaderRejected, HeaderPushed, Leftover, Sort
<1>2. PICK e \in DOMAIN stream.eocd32, k \in DOMAIN directory, n \in 0 .. StreamSize(stream) :
        Way(directory, e, directory[k], n) /\ OnTheWay(directory, e, directory[k], n)
  BY <1>1 DEF Found
<1>3. Way(directory, e, directory[k], n)' /\ OnTheWay(directory, e, directory[k], n)'
  BY <1>2, StepOnTheWay
<1> QED
  BY <1>1, <1>3

(***************************************************************************)
(* On an archive that a correct writer made, of any size and over any      *)
(* disks, the directory it meant is found in order, nothing panics, and    *)
(* every error is the provider's.                                          *)
(***************************************************************************)
THEOREM DirectoryFound == Spec => []FindsDirectory
<1>1. Found => FindsDirectory
  BY DEF Found, OnTheWay, FindsDirectory
<1> QED
  BY <1>1, LocatedInit, LocatedNext, NotedNext, FoundInit, FoundNext, PTL DEF Spec

-----------------------------------------------------------------------------
(***************************************************************************)
(* Every step of from_provider leaves less to be done.                     *)
(***************************************************************************)
\* What is left of the stage it is in.
Rest ==
  CASE pc = "asking" -> stream.disks - cursor.disk
    [] pc = "parsing" -> Len(bytes) - offset
    [] OTHER -> 0

Counted == ToDo = << Stage, Rest >> /\ Stage \in Nat /\ Rest \in Nat

LEMMA ToDoCounts == Located /\ HeadersTile => Counted
<1> SUFFICES ASSUME Located, HeadersTile
             PROVE  ToDo = << Stage, Rest >> /\ Stage \in Nat /\ Rest \in Nat
  BY DEF Counted
<1>1. stream.disks \in Nat /\ cursor.disk \in 0 .. stream.disks - 1
      /\ offset \in Nat /\ Len(bytes) \in Nat
  <2>1. cursor \in [disk : 0 .. stream.disks - 1, offset : Nat]
    BY DEF Located, TypeOK, Disks
  <2>2. bytes \in Seq(Nat) /\ offset \in Nat /\ stream.disks \in Nat
    BY DEF Located, TypeOK, IsStream, IsDisks
  <2> QED
    BY <2>1, <2>2
<1>2. pc = "parsing" => offset <= Len(bytes)
  BY DEF HeadersTile
<1>3. CASE pc = "asking"
  <2>1. Rest = stream.disks - cursor.disk
    BY <1>3 DEF Rest
  <2>2. Stage \in {7, 5, 3}
    BY <1>3 DEF Stage, Located, TypeOK
  <2> QED
    BY <1>1, <2>1, <2>2 DEF ToDo, Rest
<1>4. CASE pc = "parsing"
  <2>1. Rest = Len(bytes) - offset /\ Stage = 1
    BY <1>4 DEF Rest, Stage
  <2> QED
    BY <1>1, <1>2, <1>4, <2>1 DEF ToDo, Rest
<1>5. CASE pc \notin {"asking", "parsing"}
  <2>1. Rest = 0
    BY <1>5 DEF Rest
  <2>2. Stage \in {8, 6, 4, 2, 0}
    BY <1>5 DEF Stage, Located, TypeOK
  <2> QED
    BY <2>1, <2>2 DEF ToDo, Rest
<1> QED
  BY <1>3, <1>4, <1>5

\* A span is mapped, or that fails.
LEMMA MappedOrFailed ==
  ASSUME NEW g, NEW at, NEW pos, NEW length, MapGlobal(g, at, length) \/ Map(g, pos, length)
  PROVE  pc' = "error" \/ (pc' = "asking" /\ goal' = g)
<1>1. ASSUME NEW p, Ask(g, p, length) PROVE pc' = "asking" /\ goal' = g
  BY <1>1 DEF Ask
<1>2. ASSUME Fail("Map") PROVE pc' = "error"
  BY <1>2 DEF Fail
<1>3. ASSUME NEW a, MapGlobal(g, a, length) PROVE pc' = "error" \/ (pc' = "asking" /\ goal' = g)
  BY <1>1, <1>2, <1>3 DEF MapGlobal
<1>4. ASSUME NEW p, MapLocal(g, p, length) PROVE pc' = "error" \/ (pc' = "asking" /\ goal' = g)
  BY <1>1, <1>2, <1>4 DEF MapLocal
<1> QED
  BY <1>3, <1>4 DEF Map

LEMMA NearerStep ==
  ASSUME Located, HeadersTile, Located', HeadersTile', FromProvider
  PROVE  ToDo' \in Seq(Nat) /\ Lower(ToDo', ToDo)
<1>1. ToDo = << Stage, Rest >> /\ Stage \in Nat /\ Rest \in Nat
  BY ToDoCounts DEF Counted
<1>2. ToDo' = << Stage', Rest' >> /\ Stage' \in Nat /\ Rest' \in Nat
  <2>1. Counted'
    BY ToDoCounts, PTL
  <2> QED
    BY <2>1 DEF Counted
<1>3. pc' \in {"error", "panic", "done"} => Stage' = 0
  BY DEF Stage
<1>4. pc' = "asking" => Stage' = IF goal' = "cdld" THEN 7 ELSE IF goal' = "eocd64" THEN 5 ELSE 3
  <2>1. goal' \in {"cdld", "eocd64", "cd"}
    BY DEF Located, TypeOK
  <2> QED
    BY <2>1 DEF Stage
<1> SUFFICES Stage' < Stage \/ (Stage' = Stage /\ Rest' < Rest)
  <2>1. << Stage', Rest' >> \in Seq(Nat)
    BY <1>2
  <2>2. Lower(<< Stage', Rest' >>, << Stage, Rest >>)
    BY LowerPair
  <2> QED
    BY <1>1, <1>2, <2>1, <2>2
<1>5. CASE Start
  <2>1. pc' = "error" \/ pc' = "asking"
    BY <1>5, MappedOrFailed DEF Start
  <2>2. Stage = 8
    BY <1>5 DEF Start, Stage
  <2> QED
    BY <1>3, <1>4, <2>1, <2>2
<1>6. CASE Provide
  <2>1. pc = "asking" /\ NextCall /\ UNCHANGED << stream, goal >>
    BY <1>6 DEF Provide
  <2>2. goal \in {"cdld", "eocd64", "cd"}
    BY DEF Located, TypeOK
  <2>3. CASE pc' = "read"
    <3>1. Stage' < Stage
      BY <2>1, <2>2, <2>3 DEF Stage
    <3> QED
      BY <3>1
  <2>4. CASE cursor' = [disk |-> cursor.disk + 1, offset |-> 0] /\ pc' = pc
    <3>1. Stage' = Stage
      BY <2>1, <2>4 DEF Stage
    <3>2. Rest' = stream.disks - (cursor.disk + 1) /\ Rest = stream.disks - cursor.disk
      BY <2>1, <2>4 DEF Rest
    <3>3. stream.disks \in Nat /\ cursor.disk \in Int
      <4>1. cursor \in [disk : 0 .. stream.disks - 1, offset : Nat]
        BY DEF Located, TypeOK, Disks
      <4>2. stream.disks \in Nat
        BY DEF Located, TypeOK, IsStream, IsDisks
      <4> QED
        BY <4>1, <4>2
    <3>4. Rest' < Rest
      BY <3>2, <3>3
    <3> QED
      BY <3>1, <3>4
  <2> QED
    BY <2>1, <2>3, <2>4 DEF NextCall
<1>7. CASE ProviderFails \/ Overflow
  <2>1. pc = "asking" /\ pc' \in {"error", "panic"}
    BY <1>7 DEF ProviderFails, Overflow, Fail
  <2>2. Stage \in {7, 5, 3}
    BY <2>1 DEF Stage, Located, TypeOK
  <2> QED
    BY <1>3, <2>1, <2>2
<1>8. CASE NoEnd \/ EndRejected
  <2>1. pc = "read" /\ goal = "cdld" /\ pc' = "error"
    BY <1>8 DEF NoEnd, EndRejected, FoundAt, Fail
  <2>2. Stage = 6
    BY <2>1 DEF Stage
  <2> QED
    BY <1>3, <2>1, <2>2
<1>9. CASE EndAccepted
  <2>1. pc = "read" /\ goal = "cdld" /\ (pc' = "error" \/ (pc' = "asking" /\ goal' = "cd"))
    BY <1>9, MappedOrFailed DEF EndAccepted, FoundAt
  <2>2. Stage = 6
    BY <2>1 DEF Stage
  <2> QED
    BY <1>3, <1>4, <2>1, <2>2
<1>10. CASE LocatorRead
  <2>1. /\ pc = "read" /\ goal = "cdld"
        /\ pc' = "error" \/ (pc' = "asking" /\ goal' = "eocd64")
    BY <1>10, MappedOrFailed DEF LocatorRead, FoundAt, Fail
  <2>2. Stage = 6
    BY <2>1 DEF Stage
  <2> QED
    BY <1>3, <1>4, <2>1, <2>2
<1>11. CASE End64Cut \/ End64Rejected
  <2>1. pc = "read" /\ goal = "eocd64" /\ pc' \in {"error", "panic"}
    BY <1>11 DEF End64Cut, End64Rejected, AtEnd64, Fail
  <2>2. Stage = 4
    BY <2>1 DEF Stage
  <2> QED
    BY <1>3, <2>1, <2>2
<1>12. CASE End64Accepted
  <2>1. /\ pc = "read" /\ goal = "eocd64"
        /\ pc' = "error" \/ (pc' = "asking" /\ goal' = "cd")
    BY <1>12, MappedOrFailed DEF End64Accepted, AtEnd64
  <2>2. Stage = 4
    BY <2>1 DEF Stage
  <2> QED
    BY <1>3, <1>4, <2>1, <2>2
<1>13. CASE DirectoryRead
  <2>1. pc = "read" /\ goal = "cd" /\ pc' \in {"error", "parsing"}
    BY <1>13 DEF DirectoryRead, Fail
  <2>2. Stage = 2
    BY <2>1 DEF Stage
  <2>3. pc' = "parsing" => Stage' = 1
    BY DEF Stage
  <2> QED
    BY <1>3, <2>1, <2>2, <2>3
<1>14. CASE HeaderPushed
  <2>1. /\ pc = "parsing" /\ UNCHANGED << pc, goal, bytes >>
        /\ offset' = offset + (SIGNATURE + Entry.header_size)
        /\ bytes[offset + 1] \in DOMAIN stream.cdfh
    BY <1>14 DEF HeaderPushed, InDirectory, EntrySize, Signed
  <2>2. Entry \in CentralDirectoryFileHeader
    BY <2>1 DEF Entry, Located, TypeOK, IsStream
  <2>3. Entry.header_size \in Nat
    BY <2>2 DEF CentralDirectoryFileHeader
  <2>4. Stage' = Stage
    BY <2>1 DEF Stage
  <2>5. Rest' = Len(bytes) - (offset + (SIGNATURE + Entry.header_size)) /\ Rest = Len(bytes) - offset
    BY <2>1 DEF Rest
  <2>6. offset \in Nat /\ Len(bytes) \in Nat /\ SIGNATURE \in Nat \ {0}
    <3>1. bytes \in Seq(Nat) /\ offset \in Nat
      BY DEF Located, TypeOK
    <3> QED
      BY <3>1, SizesAssumption
  <2>7. Rest' < Rest
    BY <2>3, <2>5, <2>6
  <2> QED
    BY <2>4, <2>7
<1>15. CASE HeaderRejected \/ Leftover \/ Sort
  <2>1. pc = "parsing" /\ pc' \in {"error", "done"}
    BY <1>15 DEF HeaderRejected, InDirectory, Leftover, Sort, Fail
  <2>2. Stage = 1
    BY <2>1 DEF Stage
  <2> QED
    BY <1>3, <2>1, <2>2
<1> QED
  BY <1>5, <1>6, <1>7, <1>8, <1>9, <1>10, <1>11, <1>12, <1>13, <1>14, <1>15 DEF FromProvider

(***************************************************************************)
(* On any archive, over any disks and whatever the provider answers, no    *)
(* step of from_provider can be repeated for ever: it returns after at     *)
(* most as many calls as three spans have disks and parsing as many        *)
(* headers as the last one has bytes.                                      *)
(***************************************************************************)
THEOREM Answers == Spec => NearsTheAnswer
<1>1. /\ Located /\ HeadersTile /\ Located' /\ HeadersTile' /\ [Next]_vars
      => [ToDo' \in Seq(Nat) /\ Lower(ToDo', ToDo)]_vars
  BY NearerStep DEF Next, Answered
<1> QED
  BY <1>1, LocatedAlways, PTL DEF Spec, NearsTheAnswer
=============================================================================
