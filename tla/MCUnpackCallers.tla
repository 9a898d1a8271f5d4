-------------------------- MODULE MCUnpackCallers --------------------------
(***************************************************************************)
(* Multipart archives for UnpackCallers: malformed ones, and ones of a     *)
(* correct writer whose headers are whole on their disks or are not.       *)
(***************************************************************************)
EXTENDS UnpackCallers, MCUnpack

CallersArchives ==
  {OddArchive(s, n) : s \in {<< 3, 5 >>, << 0, 2, 0, 6 >>}, n \in 1 .. Len(Oddities) + 1}
    \cup {TwoFiles(s, g0, l0, 1, l1) :
            s \in {<< 3, 10 >>, << 5, 0, 8 >>}, g0 \in {0, 1},
            l0 \in SaneHeaders, l1 \in SaneHeaders \ {Header(3, 1, "AEx", "Deflate")}}
=============================================================================
