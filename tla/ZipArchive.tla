----------------------------- MODULE ZipArchive -----------------------------
(***************************************************************************)
(* What an unpacker is given: the sizes of the disks of an archive, its    *)
(* sorted central directory, and the stream of bytes that the disks, one   *)
(* after the other, make up.  A byte of the stream is identified by its    *)
(* global offset, so that a byte delivered twice, skipped or delivered to  *)
(* the wrong file can be told from the right one.                          *)
(*                                                                         *)
(* An archive is a record                                                  *)
(*   disks   the number of disks                                           *)
(*   size    size[d], the bytes of disk d (disk_sizes)                     *)
(*   base    base[d], the global offset of the first byte of disk d;       *)
(*           base[disks] is the length of the stream                       *)
(*   files   the number of central directory headers                       *)
(*   cd      the sorted central directory                                  *)
(*   lfh     the local file headers of the stream, by the global offset of *)
(*           their signatures                                              *)
(* Disks and headers are numbered from 0, as in the code.  An archive cut  *)
(* into pieces without being split has one disk, as ZipUnpacker::new asks. *)
(***************************************************************************)
EXTENDS ZipPosition

CONSTANTS
  Archives,  \* the archives under study
  UsizeMod,  \* 2^w on a target whose usize has w bits
  LFH_MIN    \* 4 + LFH_CONSTANT_SIZE: no header is shorter, none is parsed from less

(***************************************************************************)
(* What LocalFileHeader::from_bytes makes of a local header.  wellformed   *)
(* is FALSE for a header it rejects however many bytes it is given (broken *)
(* extra fields, an unknown AE-x strength).  header_size counts the        *)
(* signature and the salt or encryption header; compressed_size is what is *)
(* left once those have been subtracted.                                   *)
(***************************************************************************)
LocalFileHeader ==
  [wellformed         : BOOLEAN,
   header_size        : Nat,
   compressed_size    : Nat,
   uncompressed_size  : Nat,
   encryption         : {"None", "ZipCrypto", "AEx"},
   compression_method : {"Stored", "Deflate", "Unknown"}]

(***************************************************************************)
(* What the unpacker uses of a central directory header, its position, and *)
(* content, the bytes of file data that it says follow the local header.   *)
(***************************************************************************)
CentralDirectoryFileHeader(disks) ==
  [position : [disk : 0 .. disks - 1, offset : Nat], content : Nat]

(***************************************************************************)
(* The directory is sorted (CentralDirectory::sort) and names only disks   *)
(* whose size was given.                                                   *)
(* Nothing else is assumed: headers may overlap, share a position, point   *)
(* where there is no local header, or disagree with the local header.      *)
(***************************************************************************)
IsArchive(a) ==
  /\ IsDisks(a)
  /\ a.files \in Nat
  /\ a.cd \in [0 .. a.files - 1 -> CentralDirectoryFileHeader(a.disks)]
  /\ \A i, j \in 0 .. a.files - 1 :
        i < j => ~ Before(a.cd[j].position, a.cd[i].position)
  /\ DOMAIN a.lfh \subseteq Nat
  /\ \A g \in DOMAIN a.lfh :
        /\ a.lfh[g] \in LocalFileHeader
        /\ a.lfh[g].header_size >= LFH_MIN

ASSUME ArchivesAssumption == \A a \in Archives : IsArchive(a)

ASSUME ParametersAssumption == UsizeMod \in Nat \ {0} /\ LFH_MIN \in Nat \ {0}

-----------------------------------------------------------------------------
\* The global offset of the local header of file i, and of its first data byte.
HeaderStart(a, i) == Global(a, a.cd[i].position)
DataStart(a, i) == HeaderStart(a, i) + a.lfh[HeaderStart(a, i)].header_size

(***************************************************************************)
(* The bytes that the local header of file i announces, and the bytes that *)
(* the central directory says the file has.                                *)
(***************************************************************************)
Payload(a, i) ==
  IF /\ HeaderStart(a, i) \in DOMAIN a.lfh
     /\ a.lfh[HeaderStart(a, i)].uncompressed_size # 0
  THEN Bytes(DataStart(a, i), a.lfh[HeaderStart(a, i)].compressed_size)
  ELSE << >>

Content(a, i) ==
  IF HeaderStart(a, i) \in DOMAIN a.lfh
  THEN Bytes(DataStart(a, i), a.cd[i].content)
  ELSE << >>

\* No two files of the directory share one local header.
DistinctHeaders(a) ==
  \A i, j \in 0 .. a.files - 1 : a.cd[i].position = a.cd[j].position => i = j

(***************************************************************************)
(* An archive that a correct writer produces and the build supports: every *)
(* file has a well-formed local header that agrees with the directory, the *)
(* position of a header is inside its disk, files follow one another       *)
(* without overlap, and more bytes (the central directory) follow the last *)
(* one.                                                                    *)
(***************************************************************************)
Sane(a) ==
  /\ a.size[0] # 0
  /\ \A i \in 0 .. a.files - 1 :
        LET p == a.cd[i].position
            l == a.lfh[HeaderStart(a, i)]
        IN /\ p.offset < a.size[p.disk]
           /\ HeaderStart(a, i) \in DOMAIN a.lfh
           /\ l.wellformed
           /\ l.compression_method # "Unknown"
           /\ l.compressed_size = a.cd[i].content
           /\ l.compressed_size = 0 <=> l.uncompressed_size = 0
           /\ DataStart(a, i) + l.compressed_size
                <= IF i + 1 < a.files THEN HeaderStart(a, i + 1)
                                      ELSE a.base[a.disks] - 1
=============================================================================
