----------------------------- MODULE Extraction -----------------------------
(***************************************************************************)
(* What stream unpacking promises, without buffers, disks or positions:    *)
(* files are delivered one at a time in the order of the directory, each   *)
(* from its first byte to its last without gaps or repeats, and starting   *)
(* over may take back no file but the one that was being delivered or the  *)
(* one that was just completed.                                            *)
(***************************************************************************)
EXTENDS Naturals, Sequences

VARIABLES
  payload,  \* payload[i]: the bytes of file i: never changes
  file,     \* the file to deliver next, or that is being delivered
  open,     \* whether it is being delivered
  out       \* out[i]: what was delivered of file i

vars == << payload, file, open, out >>

Pending == file \in DOMAIN payload
Prefix(s, n) == [k \in 1 .. n |-> s[k]]

Init ==
  /\ file = 0
  /\ open = FALSE
  /\ out = [i \in DOMAIN payload |-> << >>]

\* The file's header arrives: its output starts empty.  The file may then turn
\* out to be unreadable, to be empty, or to have data.
Begin ==
  /\ Pending /\ ~ open
  /\ out' = [out EXCEPT ![file] = << >>]
  /\ \/ UNCHANGED << file, open >>
     \/ payload[file] = << >> /\ file' = file + 1 /\ UNCHANGED open
     \/ open' = TRUE /\ UNCHANGED file
  /\ UNCHANGED payload

\* Some more of its bytes arrive, and with the last ones the file is complete.
Deliver ==
  /\ Pending /\ open
  /\ \E n \in Len(out[file]) .. Len(payload[file]) :
        /\ out' = [out EXCEPT ![file] = Prefix(payload[file], n)]
        /\ IF n = Len(payload[file])
           THEN file' = file + 1 /\ open' = FALSE
           ELSE UNCHANGED << file, open >>
  /\ UNCHANGED payload

\* The unpacker is replaced by a new one, at the last file that was begun.
StartOver ==
  /\ open' = FALSE
  /\ file' = file \/ (~ open /\ file > 0 /\ file' = file - 1)
  /\ UNCHANGED << payload, out >>

Next == Begin \/ Deliver \/ StartOver

Spec == Init /\ [][Next]_vars
=============================================================================
