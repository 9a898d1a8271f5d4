------------------------------ MODULE MCUnpack ------------------------------
(***************************************************************************)
(* Small archives for UnpackSession.  An archive is laid out from the      *)
(* sizes of its disks and its files, each given by the global offset of    *)
(* its local header, that header, and the content the directory claims.    *)
(* The real 30 bytes of LFH_MIN are scaled down to 2.                      *)
(***************************************************************************)
EXTENDS UnpackSession, SequencesExt

MCLfhMin == 2
MCUsize64 == 1000  \* larger than any size below
MCUsize32 == 4     \* smaller than the data of one file below

Header(size, data, encryption, method) ==
  [wellformed |-> TRUE, header_size |-> size, compressed_size |-> data,
   uncompressed_size |-> data, encryption |-> encryption,
   compression_method |-> method]

File(at, lfh, content) == [at |-> at, lfh |-> lfh, content |-> content]

\* The disk and offset of a global offset (the last disk when it is beyond).
Locate(sizes, g) ==
  LET base == [d \in 0 .. Len(sizes) |-> FoldLeft(LAMBDA x, y : x + y, 0, SubSeq(sizes, 1, d))]
      disk == CHOOSE d \in 0 .. Len(sizes) - 1 :
                base[d] <= g /\ (g < base[d + 1] \/ d = Len(sizes) - 1)
  IN [disk |-> disk, offset |-> g - base[disk]]

Archive(sizes, files) ==
  [disks |-> Len(sizes),
   size  |-> [d \in 0 .. Len(sizes) - 1 |-> sizes[d + 1]],
   base  |-> [d \in 0 .. Len(sizes) |->
                FoldLeft(LAMBDA x, y : x + y, 0, SubSeq(sizes, 1, d))],
   files |-> Len(files),
   cd    |-> [i \in 0 .. Len(files) - 1 |->
                [position |-> Locate(sizes, files[i + 1].at),
                 content  |-> files[i + 1].content]],
   lfh   |-> [g \in {f.at : f \in ToSet(files)} |->
                (CHOOSE f \in ToSet(files) : f.at = g).lfh]]

-----------------------------------------------------------------------------
(***************************************************************************)
(* Archives of a correct writer: two files with or without a gap before    *)
(* them (the second gap is where an AE-x code or a data descriptor is),    *)
(* stored, deflated, encrypted and empty, on one disk and split so that    *)
(* headers and data fall across disks, with an empty disk in between.      *)
(***************************************************************************)
SaneHeaders ==
  {Header(2, 3, "None", "Stored"), Header(2, 3, "None", "Deflate"),
   Header(3, 1, "AEx", "Deflate"), Header(2, 0, "None", "Deflate")}

Splits == {<< 13 >>, << 3, 10 >>, << 1, 2, 0, 2, 8 >>, << 5, 0, 8 >>}

TwoFiles(sizes, gap0, l0, gap1, l1) ==
  LET second == gap0 + l0.header_size + l0.compressed_size + gap1
  IN Archive(sizes, << File(gap0, l0, l0.compressed_size),
                       File(second, l1, l1.compressed_size) >>)

SaneArchives ==
  {TwoFiles(s, g0, l0, g1, l1) :
     s \in Splits, g0 \in {0, 1}, l0 \in SaneHeaders, g1 \in {0, 1}, l1 \in SaneHeaders}

ASSUME AllSane == \A a \in SaneArchives : Sane(a)

(***************************************************************************)
(* Archives that go wrong in every way the unpacker can be told of, and    *)
(* some that go wrong silently.                                            *)
(***************************************************************************)
Stored2 == Header(2, 2, "None", "Stored")
Rejected == [Stored2 EXCEPT !.wellformed = FALSE]
Described == [Stored2 EXCEPT !.compressed_size = 0, !.uncompressed_size = 0]

Oddities ==
  << << File(0, Stored2, 2), File(3, Stored2, 2) >>,                \* overlap
     << File(0, Stored2, 2), File(0, Stored2, 2) >>,                \* one header, two files
     << File(1, Rejected, 2), File(5, Stored2, 2) >>,               \* unreadable header
     << File(0, Described, 2), File(5, Stored2, 2) >>,              \* sizes in a descriptor
     << File(0, Stored2, 2),
        File(4, Header(2, 2, "None", "Unknown"), 2) >>,             \* unsupported method
     << File(0, Header(3, 2, "ZipCrypto", "Deflate"), 2),
        File(5, Stored2, 2) >>,                                     \* encrypted
     << File(0, [Stored2 EXCEPT !.compressed_size = 0], 0),
        File(3, Stored2, 2) >>,                                     \* data of no bytes
     << File(5, Stored2, 3) >>,                                     \* directory disagrees
     << File(4, Header(2, 4, "None", "Deflate"), 4) >>,             \* data beyond the end
     << File(6, Stored2, 2) >> >>                                   \* data up to the end

OddSplits == {<< 8 >>, << 3, 5 >>, << 0, 2, 0, 6 >>, << 7 >>}

\* One oddity more: the directory names a header that is not there.
OddArchive(sizes, n) ==
  IF n \in DOMAIN Oddities
  THEN Archive(sizes, Oddities[n])
  ELSE [Archive(sizes, Oddities[4]) EXCEPT !.lfh = [g \in {0} |-> Stored2]]

OddArchives ==
  {OddArchive(s, n) : s \in OddSplits, n \in 1 .. Len(Oddities) + 1}

RejectedArchives == {Archive(<< 8 >>, << File(1, Rejected, 2), File(5, Stored2, 2) >>)}

DescribedArchives == {Archive(<< 10 >>, << File(0, Described, 2), File(5, Stored2, 2) >>)}

LargeArchives == {Archive(<< 3, 3, 3 >>, << File(0, Header(2, 5, "None", "Stored"), 5) >>)}
=============================================================================
