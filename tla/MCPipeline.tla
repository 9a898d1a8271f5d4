----------------------------- MODULE MCPipeline -----------------------------
(***************************************************************************)
(* Files for Pipeline: stored and deflated, not encrypted, with ZipCrypto  *)
(* or with AE-x.  The data is as long as it takes the counter to carry     *)
(* twice and to wrap around (blocks of 2 bytes, 2 limbs of 1 bit).         *)
(***************************************************************************)
EXTENDS Pipeline

Stored(encryption, size) ==
  [size |-> size, encryption |-> encryption, compression_method |-> "None",
   last |-> [k \in 1 .. size |-> k], produces |-> [k \in 1 .. size |-> 0], corrupt |-> {}]

Deflated(encryption, size, last, produces, corrupt) ==
  [size |-> size, encryption |-> encryption, compression_method |-> "Deflate",
   last |-> last, produces |-> produces, corrupt |-> corrupt]

Encryptions == {"None", "ZipCrypto", "AEx"}

MCPlaces == [i \in 0 .. LIMBS |-> LIMB_MOD ^ i]

\* Symbols of one, two and three bytes, that fill the window or do not.
MCFiles ==
  {Stored(encryption, size) : encryption \in Encryptions, size \in {0, 1, 9}}
  \cup {Deflated(encryption, 9, << 2, 2, 3, 6, 6, 6, 8, 8, 9 >>, [k \in 1 .. 9 |-> (k * 2) % 4], corrupt) :
          encryption \in Encryptions, corrupt \in {{}, {4}}}
  \cup {Deflated(encryption, 5, << 1, 2, 3, 4, 5 >>, [k \in 1 .. 5 |-> 3], {}) : encryption \in Encryptions}
  \cup {Deflated(encryption, 0, << >>, << >>, {}) : encryption \in Encryptions}
=============================================================================
