------------------------------ MODULE MCReadCd ------------------------------
(***************************************************************************)
(* Small archives for ReadCd: two bytes of files, a directory of two       *)
(* headers, ZIP64 records where a field does not fit, and the end record   *)
(* with its comment.  Every size is small (2 for the constant parts, 3 for *)
(* U16_MAX), so that the end record is sought over a window that is        *)
(* smaller than the archive and a comment can fill it.                     *)
(***************************************************************************)
EXTENDS ReadCd, TLC

First == 2
Second == First + SIGNATURE + CDFH_CONSTANT_SIZE
DirectoryEnd == Second + SIGNATURE + CDFH_CONSTANT_SIZE + 1

(***************************************************************************)
(* p: large, the fields of the end record that do not fit and are left to  *)
(* the ZIP64 one; comment, its length; order, that of the directory.       *)
(***************************************************************************)
Locator(p) == DirectoryEnd + SIGNATURE + EOCD64_CONSTANT_SIZE
EndAt(p) ==
  IF p.large = {} THEN DirectoryEnd
  ELSE Locator(p) + SIGNATURE + EOCD64_LOCATOR_CONSTANT_SIZE
Size(p) == EndAt(p) + SIGNATURE + EOCD32_CONSTANT_SIZE + p.comment

\* The archive cut before each of the bytes in cuts, a sequence.
Archive(p, cuts, cut) ==
  LET disks == Len(cuts) + 1
      base == [d \in 0 .. disks |->
                 IF d = 0 THEN 0 ELSE IF d = disks THEN Size(p) ELSE cuts[d]]
      size == [d \in 0 .. disks - 1 |-> base[d + 1] - base[d]]
      At(g) == IF cut THEN [disk |-> 0, offset |-> g]
               ELSE LET d == CHOOSE d \in DOMAIN size : base[d] <= g /\ g < base[d + 1]
                    IN [disk |-> d, offset |-> g - base[d]]
      cd == At(First)
      Field(f, max, value) == IF f \in p.large THEN max ELSE value
      firstFile == IF p.order = "sorted" THEN 0 ELSE 1
      secondFile == IF p.order = "swapped" THEN 0 ELSE 1
  IN [disks |-> disks, size |-> size, base |-> base, is_cut |-> cut,
      eocd32 |-> EndAt(p) :>
        [saturated |-> "count" \in p.large,
         cd_disk_number |-> Field("disk", U16_MAX, cd.disk),
         cd_size |-> Field("size", U32_MAX, DirectoryEnd - First),
         cd_offset |-> Field("offset", U32_MAX, cd.offset),
         comment_length |-> p.comment],
      locator |-> IF p.large = {} THEN << >> ELSE Locator(p) :> At(DirectoryEnd),
      eocd64 |-> IF p.large = {} THEN << >>
                 ELSE DirectoryEnd :> [cd_disk_number |-> cd.disk,
                                       cd_size |-> DirectoryEnd - First,
                                       cd_offset |-> cd.offset],
      cdfh |-> First :> [wellformed |-> TRUE, header_size |-> CDFH_CONSTANT_SIZE,
                         position |-> At(firstFile)]
            @@ Second :> [wellformed |-> TRUE, header_size |-> CDFH_CONSTANT_SIZE + 1,
                          position |-> At(secondFile)],
      meant |-> {IF p.order = "swapped" THEN << Second, First >>
                 ELSE << First, Second >>}]

Large ==
  {{}, {"count"}, {"disk"}, {"size"}, {"offset"}, {"count", "disk", "size", "offset"}}

Layouts ==
  [large : Large, comment : {0, 1, U16_MAX}, order : {"sorted"}]
  \cup [large : {{}, {"offset"}}, comment : {0}, order : {"swapped", "shared"}]

\* In one piece; two disks; three, of which one is empty or of one byte.
Cuts(size) ==
  {<< >>} \cup {<< c >> : c \in 0 .. size}
          \cup {<< c, c >> : c \in 0 .. size}
          \cup {<< c, c + 1 >> : c \in 0 .. size - 1}

SaneStreams ==
  UNION {{Archive(p, cuts, cut) : cuts \in Cuts(Size(p)), cut \in BOOLEAN} : p \in Layouts}

ASSUME SaneNameTheirDisks == \A s \in SaneStreams : s.is_cut \/ NamesItsDisks(s)

-----------------------------------------------------------------------------
(***************************************************************************)
(* Archives with one thing wrong: fields that are too small, too large or  *)
(* beyond the disk or the archive, a field named in another way, records   *)
(* that are missing, cut short or not what they should be, a signature in  *)
(* the comment, no room for a locator, nothing at all.                     *)
(***************************************************************************)
WrongEnd(s) ==
  LET e == CHOOSE g \in DOMAIN s.eocd32 : TRUE
      end == s.eocd32[e]
  IN {[s EXCEPT !.eocd32[e] = r] : r \in
        {[end EXCEPT !.cd_offset = o, !.cd_size = z] :
           o \in {1, 2, 4, s.size[0], s.size[0] + 1, StreamSize(s) + 1}, z \in {0, 9}}
        \cup {[end EXCEPT !.cd_size = z] : z \in {3, 4, 8, 10, 12, 30}}
        \cup {[end EXCEPT !.cd_disk_number = d] : d \in 0 .. 2}
        \cup {[end EXCEPT !.comment_length = c] : c \in 0 .. 4}
        \cup {[end EXCEPT !.saturated = TRUE]}}
     \cup {[s EXCEPT !.eocd32 = @ @@ (g :> end)] : g \in e + 1 .. StreamSize(s) - 1}
     \cup {[s EXCEPT !.eocd32 = << >>]}

WrongEnd64(s) ==
  {[s EXCEPT !.locator = << >>], [s EXCEPT !.eocd64 = << >>]}
  \cup {[s EXCEPT !.locator = [g \in DOMAIN @ |-> [disk |-> d, offset |-> o]]] :
          d \in 0 .. 3, o \in {0, s.size[0], StreamSize(s) - 1, s.size[s.disks - 1] - 1}}
  \cup {[s EXCEPT !.locator = [g \in DOMAIN @ |-> [disk |-> d, offset |-> o]],
                  !.eocd64 = StreamSize(s) - 2 :> [cd_disk_number |-> 0, cd_size |-> 0, cd_offset |-> 0]] :
          d \in 0 .. 3, o \in {StreamSize(s) - 2, s.size[s.disks - 1] - 2}}

WrongHeaders(s) ==
  {[s EXCEPT !.cdfh[g].wellformed = FALSE] : g \in DOMAIN s.cdfh}
  \cup {[s EXCEPT !.cdfh[g].header_size = @ + n] : g \in DOMAIN s.cdfh, n \in {1, 3}}
  \cup {[s EXCEPT !.cdfh = g :> @[g]] : g \in DOMAIN s.cdfh}

NoDirectory(size) ==
  [disks |-> 1, size |-> 0 :> size, base |-> 0 :> 0 @@ 1 :> size, is_cut |-> FALSE,
   eocd32 |-> 0 :> [saturated |-> TRUE, cd_disk_number |-> 0, cd_size |-> 0,
                    cd_offset |-> 0, comment_length |-> 0],
   locator |-> << >>, eocd64 |-> << >>, cdfh |-> << >>, meant |-> {}]

OddStreams ==
  LET sane == UNION {{Archive(p, cuts, cut) :
                        cuts \in {<< >>, << 4 >>, << 4, 4 >>, << 13 >>, << 9, Size(p) - 3 >>},
                        cut \in BOOLEAN} :
                     p \in [large : {{}, {"size"}, {"disk", "offset"}}, comment : {0, U16_MAX},
                            order : {"swapped"}]}
  IN {NoDirectory(size) : size \in 0 .. 4}
     \cup UNION {{[odd EXCEPT !.meant = {}] :
                    odd \in WrongEnd(s) \cup WrongEnd64(s) \cup WrongHeaders(s)} : s \in sane}

AllStreams == SaneStreams \cup OddStreams
=============================================================================
