---------------------------- MODULE ZipPosition ----------------------------
(***************************************************************************)
(* Positions in an archive of several disks, and stretches of the stream   *)
(* of bytes that the disks make up one after the other.  A byte of the     *)
(* stream is its global offset.                                            *)
(***************************************************************************)
EXTENDS Integers, Sequences

Position == [disk : Nat, offset : Nat]

\* The derived order of ZipPosition: by disk, then by offset.
Before(p, q) ==
  \/ p.disk < q.disk
  \/ p.disk = q.disk /\ p.offset < q.offset

Lesser(a, b) == IF a < b THEN a ELSE b

(***************************************************************************)
(* The order of tuples of numbers by which something is shown to end: the  *)
(* first number that differs is lower.                                     *)
(***************************************************************************)
Lower(m, n) == \E i \in DOMAIN n : m[i] < n[i] /\ \A j \in 1 .. i - 1 : m[j] = n[j]

\* n consecutive bytes of the stream, from global offset g.
Bytes(g, n) == [k \in 1 .. n |-> g + k - 1]

(***************************************************************************)
(* What is said of the disks of an archive: disks of them, numbered from   *)
(* 0, size[d] bytes long, the first of which is byte base[d] of the        *)
(* stream.  base is the table of partial sums of size, in closed form;     *)
(* base[disks] is the length of the stream.                                *)
(***************************************************************************)
IsDisks(a) ==
  /\ a.disks \in Nat \ {0}
  /\ a.size \in [0 .. a.disks - 1 -> Nat]
  /\ a.base \in [0 .. a.disks -> Nat]
  /\ a.base[0] = 0
  /\ \A d \in 0 .. a.disks - 1 : a.base[d + 1] = a.base[d] + a.size[d]

StreamSize(a) == a.base[a.disks]

\* The place in the stream that a position names.
Global(a, p) == a.base[p.disk] + p.offset

\* Disk d holds the byte at global offset g.
Holds(a, d, g) == a.base[d] <= g /\ g < a.base[d] + a.size[d]
=============================================================================
