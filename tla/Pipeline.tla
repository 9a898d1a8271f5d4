------------------------------ MODULE Pipeline ------------------------------
(***************************************************************************)
(* Pipeline::update (src/pipeline.rs) with the decryptors and a            *)
(* decompressor behind it, on the data of one file, as the FileData arm of *)
(* update_internal calls it: with any number of the bytes that are left,   *)
(* from pos on, which is moved by the count that is returned.              *)
(*                                                                         *)
(* Ciphers are symbolic.  The byte at place k of the file, decrypted, is   *)
(* the number k; it is decrypted by the one keystream that it was          *)
(* encrypted with, and by another becomes Garbage.  What a keystream byte  *)
(* depends on is kept: for ZipCrypto every byte that the keys were updated *)
(* with, for AE-x the key, the counter block and the place in the pad.     *)
(*                                                                         *)
(* The decompressor is external.  It eats whole symbols, one after the     *)
(* other, each of some bytes, until its window is full or the rest of its  *)
(* input is not a whole symbol; what a symbol produces that the window has *)
(* no room for is held until the next call.                                *)
(*                                                                         *)
(* A definition whose name starts with Wrong is a bug that the definition  *)
(* after it does not have; the runs show that a property would notice.     *)
(***************************************************************************)
EXTENDS Integers, Sequences, ZipPosition

CONSTANTS
  FilesData,         \* the files under study
  ZIPCRYPTO_HEADER,  \* 12 bytes
  BLOCK_SIZE,        \* 16 bytes
  LIMBS,             \* 8 of them are the counter
  LIMB_MOD,          \* 256
  PLACES,            \* what each limb counts
  WINDOW             \* the most that one call of the decompressor returns

Garbage == 0

(***************************************************************************)
(* A file: how many bytes its data has; for each the last byte of the      *)
(* symbol that it belongs to, and how much the symbol produces; and where  *)
(* damaged symbols start.                                                  *)
(***************************************************************************)
IsFile(f) ==
  /\ f.size \in Nat
  /\ f.encryption \in {"None", "ZipCrypto", "AEx"}
  /\ f.compression_method \in {"None", "Deflate"}
  /\ f.last \in [1 .. f.size -> 1 .. f.size]
  /\ \A k \in 1 .. f.size : k <= f.last[k]
  /\ f.produces \in [1 .. f.size -> 0 .. WINDOW]
  /\ f.corrupt \subseteq 1 .. f.size

ASSUME FilesAssumption == \A f \in FilesData : IsFile(f)

ASSUME SizesAssumption ==
  /\ ZIPCRYPTO_HEADER \in Nat \ {0} /\ BLOCK_SIZE \in Nat \ {0} /\ LIMBS \in Nat \ {0}
  /\ LIMB_MOD \in Nat \ {0, 1} /\ WINDOW \in Nat \ {0}

\* The powers of LIMB_MOD, in closed form.
ASSUME PlacesAssumption ==
  /\ PLACES \in [0 .. LIMBS -> Nat \ {0}] /\ PLACES[0] = 1
  /\ \A i \in 0 .. LIMBS - 1 : PLACES[i + 1] = LIMB_MOD * PLACES[i]

VARIABLES
  file, password,       \* "right" or "wrong": never change
  pc, error,
  keys,                 \* ZipCrypto: all that the keys were updated with
  counter, pad, pad_offset,  \* AE-x; pad is the counter block that was encrypted
  pos,                  \* how much of the file is consumed
  slice,                \* how many bytes this update was given
  buffer,               \* of the decryptor
  decrypt_buffer, offset,
  used, given,          \* input and output of this call of the decompressor
  held, eaten, made,    \* the decompressor: what it holds, has eaten, has produced
  result_buffer, out    \* how much is to be returned, how much was

config == << file, password >>
decryptor == << keys, counter, pad, pad_offset >>
decompressor == << held, eaten, made >>
vars == << config, pc, error, decryptor, pos, slice, buffer, decrypt_buffer, offset,
           used, given, decompressor, result_buffer, out >>

IsEncrypted == file.encryption # "None"
IsDeflated == file.compression_method = "Deflate"

-----------------------------------------------------------------------------
(***************************************************************************)
(* The keystreams: what each byte was encrypted with.                      *)
(***************************************************************************)

\* The decrypted bytes of a ZipCrypto header, which come before those of the file.
HeaderByte(i) == file.size + i
Header(n) == [i \in 1 .. n |-> HeaderByte(i)]

\* Counter blocks count from 1, in limbs, the lowest first.
Limbs(n) == [i \in 0 .. LIMBS - 1 |-> (n \div PLACES[i]) % LIMB_MOD]

HeaderStream(i) == << "right" >> \o Header(i - 1)

Stream(k) ==
  IF file.encryption = "ZipCrypto"
  THEN << "right" >> \o Header(ZIPCRYPTO_HEADER) \o Bytes(1, k - 1)
  ELSE << "right", Limbs((k - 1) \div BLOCK_SIZE + 1), (k - 1) % BLOCK_SIZE >>

-----------------------------------------------------------------------------
(***************************************************************************)
(* create_decryptor.  ZipCryptoDecryptor::new decrypts the header of the   *)
(* file, one byte at a time, and compares the last with the checksum; that *)
(* of a wrong password may be the right one.                               *)
(***************************************************************************)
Refuse(e) ==
  /\ pc' = "error"
  /\ error' = e
  /\ UNCHANGED << config, decryptor, pos, slice, buffer, decrypt_buffer, offset, used, given,
                  decompressor, result_buffer, out >>

Created ==
  /\ pc' = "idle"
  /\ UNCHANGED << config, error, decryptor, pos, slice, buffer, decrypt_buffer, offset, used,
                  given, decompressor, result_buffer, out >>

HeaderDone == Len(keys) - 1

HeaderDecrypted ==
  /\ pc = "new" /\ file.encryption = "ZipCrypto"
  /\ HeaderDone < ZIPCRYPTO_HEADER
  /\ keys' = Append(keys, IF keys = HeaderStream(HeaderDone + 1) THEN HeaderByte(HeaderDone + 1)
                          ELSE Garbage)
  /\ UNCHANGED << config, pc, error, counter, pad, pad_offset, pos, slice, buffer, decrypt_buffer,
                  offset, used, given, decompressor, result_buffer, out >>

Checked == pc = "new" /\ file.encryption = "ZipCrypto" /\ HeaderDone = ZIPCRYPTO_HEADER

ZipCryptoAccepted ==
  /\ Checked
  /\ keys[Len(keys)] \in {HeaderByte(ZIPCRYPTO_HEADER), Garbage}
  /\ Created

ZipCryptoRefused ==
  /\ Checked
  /\ keys[Len(keys)] # HeaderByte(ZIPCRYPTO_HEADER)
  /\ Refuse("IncorrectPassword")

(***************************************************************************)
(* AExDecryptor::new derives a check value together with the key.          *)
(***************************************************************************)
AExAccepted ==
  /\ pc = "new" /\ file.encryption = "AEx"
  /\ Created

AExRefused ==
  /\ pc = "new" /\ file.encryption = "AEx"
  /\ password = "wrong"
  /\ Refuse("IncorrectPassword")

-----------------------------------------------------------------------------
(***************************************************************************)
(* An update ends: it returns count, and amount bytes of result.           *)
(***************************************************************************)
BytesLeft == file.size - pos

\* A file is only over when something of it was consumed.
WrongOver(count) == count = BytesLeft /\ count > 0

Over(count) == count = BytesLeft

Return(count, amount) ==
  /\ pos' = pos + count
  /\ out' = out + amount
  /\ pc' = IF Over(count) THEN "over" ELSE "idle"
  /\ UNCHANGED << config, error >>

\* Nothing is left of the loop over the decompressor.
NoLocals == offset' = 0 /\ used' = 0 /\ given' = 0

\* A call of the decompressor starts: it first returns what it holds.
DecompressorCalled ==
  /\ used' = 0
  /\ given' = Lesser(held, WINDOW)
  /\ held' = held - Lesser(held, WINDOW)
  /\ UNCHANGED << eaten, made >>

(***************************************************************************)
(* update is called with n bytes of the file.                              *)
(***************************************************************************)
UpdateStored(n) ==
  /\ pc = "idle" /\ ~ IsEncrypted /\ ~ IsDeflated
  /\ slice' = n
  /\ result_buffer' = n
  /\ eaten' = eaten \o Bytes(pos + 1, n)
  /\ made' = made + n
  /\ Return(n, n)
  /\ UNCHANGED << decryptor, buffer, decrypt_buffer, offset, used, given, held >>

UpdateDeflated(n) ==
  /\ pc = "idle" /\ ~ IsEncrypted /\ IsDeflated
  /\ slice' = n
  /\ DecompressorCalled
  /\ pc' = "decompress"
  /\ UNCHANGED << config, error, decryptor, pos, buffer, decrypt_buffer, offset, result_buffer,
                  out >>

UpdateEncrypted(n) ==
  /\ pc = "idle" /\ IsEncrypted
  /\ slice' = n
  /\ buffer' = << >>
  /\ pc' = "decrypt"
  /\ UNCHANGED << config, error, decryptor, pos, decrypt_buffer, offset, used, given, decompressor,
                  result_buffer, out >>

Update(n) == UpdateStored(n) \/ UpdateDeflated(n) \/ UpdateEncrypted(n)

-----------------------------------------------------------------------------
(***************************************************************************)
(* The loops of the decryptors: one byte of the slice.                     *)
(***************************************************************************)
Decrypting == pc = "decrypt" /\ Len(buffer) < slice
Place == pos + Len(buffer) + 1

Xor(keystream) == IF keystream = Stream(Place) THEN Place ELSE Garbage

DecryptedByte(byte) ==
  /\ buffer' = Append(buffer, byte)
  /\ UNCHANGED << config, pc, error, pos, slice, decrypt_buffer, offset, used, given, decompressor,
                  result_buffer, out >>

DecryptZipCrypto ==
  /\ Decrypting /\ file.encryption = "ZipCrypto"
  /\ keys' = Append(keys, Xor(keys))
  /\ DecryptedByte(Xor(keys))
  /\ UNCHANGED << counter, pad, pad_offset >>

\* The lowest limb wraps around and nothing is carried.
WrongIncrement(block) == [block EXCEPT ![0] = (@ + 1) % LIMB_MOD]

\* A limb wraps around to 0 and the loop goes on, or it does not.
Increment(block) ==
  [i \in 0 .. LIMBS - 1 |->
     IF \A j \in 0 .. i - 1 : block[j] = LIMB_MOD - 1 THEN (block[i] + 1) % LIMB_MOD ELSE block[i]]

\* The byte after the pad is used.
WrongPadUsed == pad_offset > BLOCK_SIZE

PadUsed == pad_offset = BLOCK_SIZE

DecryptAEx ==
  /\ Decrypting /\ file.encryption = "AEx"
  /\ counter' = IF PadUsed THEN Increment(counter) ELSE counter
  /\ pad' = IF PadUsed THEN counter' ELSE pad
  /\ pad_offset' = IF PadUsed THEN 1 ELSE pad_offset + 1
  /\ DecryptedByte(Xor(<< password, pad', pad_offset' - 1 >>))
  /\ UNCHANGED keys

Decrypted == pc = "decrypt" /\ Len(buffer) = slice

OnlyDecrypted ==
  /\ Decrypted /\ ~ IsDeflated
  /\ eaten' = eaten \o buffer
  /\ made' = made + Len(buffer)
  /\ Return(slice, Len(buffer))
  /\ UNCHANGED << decryptor, slice, buffer, decrypt_buffer, offset, used, given, held,
                  result_buffer >>

ToDecompress ==
  /\ Decrypted /\ IsDeflated
  /\ decrypt_buffer' = decrypt_buffer \o buffer
  /\ result_buffer' = 0
  /\ offset' = 0
  /\ DecompressorCalled
  /\ pc' = "decompress"
  /\ UNCHANGED << config, error, decryptor, pos, slice, buffer, out >>

-----------------------------------------------------------------------------
(***************************************************************************)
(* A call of the decompressor: the rest of its input starts with byte      *)
(* Next.  Garbage is taken for symbols of one byte.                        *)
(***************************************************************************)
Input ==
  IF IsEncrypted THEN SubSeq(decrypt_buffer, offset + 1, Len(decrypt_buffer))
  ELSE Bytes(pos + 1, slice)

Byte == Input[used + 1]

\* What a symbol starts with, unless it is damaged.
Sound == ({1} \cup {file.last[k] + 1 : k \in 1 .. file.size}) \ file.corrupt

SymbolLength == IF Byte = Garbage THEN 1 ELSE file.last[Byte] - Byte + 1

SymbolThere ==
  /\ pc = "decompress"
  /\ given < WINDOW
  /\ used < Len(Input)
  /\ used + SymbolLength <= Len(Input)

Amounts == IF Byte = Garbage THEN 0 .. 1 ELSE {file.produces[Byte]}

InflateSymbol ==
  /\ SymbolThere
  /\ Byte \in {Garbage} \cup Sound
  /\ used' = used + SymbolLength
  /\ eaten' = eaten \o SubSeq(Input, used + 1, used + SymbolLength)
  /\ \E amount \in Amounts :
        /\ made' = made + amount
        /\ given' = Lesser(given + amount, WINDOW)
        /\ held' = held + given + amount - given'
  /\ UNCHANGED << config, pc, error, decryptor, pos, slice, buffer, decrypt_buffer, offset,
                  result_buffer, out >>

InflateFails ==
  /\ SymbolThere
  /\ Byte \notin Sound
  /\ Refuse("Pipeline")

InflateDone == pc = "decompress" /\ ~ SymbolThere

\* Without a decryptor there is one call.
InflateReturns ==
  /\ InflateDone /\ ~ IsEncrypted
  /\ Return(used, given)
  /\ NoLocals
  /\ UNCHANGED << decryptor, slice, buffer, decrypt_buffer, decompressor, result_buffer >>

\* The loop ends as soon as all of the input is used.
WrongLoopEnds == used = 0 \/ used = Len(Input)

\* The loop goes on until all of the input is used.
WrongLoopEndsLate == used = Len(Input)

LoopEnds == used = 0

InflateAgain ==
  /\ InflateDone /\ IsEncrypted
  /\ ~ LoopEnds
  /\ result_buffer' = result_buffer + given
  /\ offset' = offset + used
  /\ DecompressorCalled
  /\ UNCHANGED << config, pc, error, decryptor, pos, slice, buffer, decrypt_buffer, out >>

\* The whole buffer is dropped, with the start of a symbol.
WrongDrain == << >>

Drain == SubSeq(decrypt_buffer, offset + 1, Len(decrypt_buffer))

\* What the decompressor consumed is returned.
WrongCount == offset

Count == slice

InflateLoopEnds ==
  /\ InflateDone /\ IsEncrypted
  /\ LoopEnds
  /\ result_buffer' = result_buffer + given
  /\ decrypt_buffer' = Drain
  /\ Return(Count, result_buffer + given)
  /\ NoLocals
  /\ UNCHANGED << decryptor, slice, buffer, decompressor >>

-----------------------------------------------------------------------------
Init ==
  /\ file \in FilesData
  /\ password \in {"right", "wrong"}
  /\ pc = IF IsEncrypted THEN "new" ELSE "idle"
  /\ error = "none"
  /\ keys = << password >>
  /\ counter = [i \in 0 .. LIMBS - 1 |-> 0] /\ pad = counter /\ pad_offset = BLOCK_SIZE
  /\ pos = 0 /\ slice = 0
  /\ buffer = << >> /\ decrypt_buffer = << >> /\ offset = 0
  /\ used = 0 /\ given = 0 /\ held = 0 /\ eaten = << >> /\ made = 0
  /\ result_buffer = 0 /\ out = 0

New ==
  \/ HeaderDecrypted \/ ZipCryptoAccepted \/ ZipCryptoRefused
  \/ AExAccepted \/ AExRefused

Work ==
  \/ DecryptZipCrypto \/ DecryptAEx \/ OnlyDecrypted \/ ToDecompress
  \/ InflateSymbol \/ InflateFails \/ InflateReturns \/ InflateAgain \/ InflateLoopEnds

Next == New \/ Work \/ \E n \in 0 .. BytesLeft : Update(n)

(***************************************************************************)
(* A call goes on, and a caller that keeps what it receives passes all     *)
(* that is left of the file again and again.                               *)
(***************************************************************************)
Fairness == WF_vars(New \/ Work) /\ SF_vars(Update(BytesLeft))

Spec == Init /\ [][Next]_vars

FairSpec == Spec /\ Fairness

-----------------------------------------------------------------------------
(***************************************************************************)
(* The type invariant of the pipeline.                                     *)
(***************************************************************************)
PlainByte == 0 .. file.size
Block == [0 .. LIMBS - 1 -> 0 .. LIMB_MOD - 1]

TypeOK ==
  /\ IsFile(file)
  /\ password \in {"right", "wrong"}
  /\ pc \in {"new", "idle", "decrypt", "decompress", "over", "error"}
  /\ error \in {"none", "IncorrectPassword", "Pipeline"}
  /\ pc = "error" <=> error # "none"
  /\ counter \in Block /\ pad \in Block /\ pad_offset \in 0 .. BLOCK_SIZE
  /\ pos \in 0 .. file.size /\ slice \in Nat
  /\ pc \in {"decrypt", "decompress"} => pos + slice <= file.size
  /\ buffer \in Seq(PlainByte) /\ decrypt_buffer \in Seq(PlainByte)
  /\ pc = "decrypt" => Len(buffer) <= slice
  /\ offset \in 0 .. Len(decrypt_buffer) /\ used \in Nat
  /\ pc = "decompress" => used <= Len(Input)
  /\ given \in 0 .. WINDOW /\ held \in Nat /\ made \in Nat
  /\ eaten \in Seq(PlainByte)
  /\ result_buffer \in Nat /\ out \in Nat

(***************************************************************************)
(* With the right password the bytes of the file reach the end of the      *)
(* pipeline in the order and number in which they are in it, each once,    *)
(* decrypted with the keystream that it was encrypted with: however the    *)
(* data is cut into updates, and whatever waits in a buffer.               *)
(***************************************************************************)
\* What is on its way from the slice to the decompressor.
Waiting ==
  CASE pc = "decompress" -> SubSeq(Input, used + 1, Len(Input))
    [] pc = "decrypt" -> decrypt_buffer \o buffer
    [] OTHER -> decrypt_buffer

Taken ==
  CASE pc = "decompress" -> pos + slice
    [] pc = "decrypt" -> pos + Len(buffer)
    [] OTHER -> pos

PlainInOrder ==
  password = "right" /\ pc # "error" => eaten \o Waiting = Bytes(1, Taken)

(***************************************************************************)
(* When update_internal goes on to the next file, all of this one has been *)
(* eaten and all that it produced was handed out, but for one case: a      *)
(* decompressor without a decryptor is not called again, and what did not  *)
(* fit into its last window stays in it.  That is less than a window, and  *)
(* nothing of a file that produces no more than one window.                *)
(***************************************************************************)
NothingLostAtEnd ==
  pc = "over" =>
    /\ password = "right" => eaten = Bytes(1, file.size)
    /\ out + held = made
    /\ held # 0 =>
         /\ IsDeflated /\ ~ IsEncrypted
         /\ held < WINDOW /\ out >= WINDOW

(***************************************************************************)
(* Nothing fails but a file that is damaged or a wrong password.           *)
(***************************************************************************)
OnlyBadFilesFail == pc = "error" => password = "wrong" \/ file.corrupt # {}

(***************************************************************************)
(* An update consumes all that it is given, unless the decompressor works  *)
(* on the slice itself, which must take something of all that is left:     *)
(* what ZipUnpacker (PipelineCounts) relies on in order not to stop early. *)
(***************************************************************************)
Counts ==
  IF IsDeflated /\ ~ IsEncrypted
  THEN {c \in 0 .. slice' : slice' = BytesLeft /\ slice' > 0 => c > 0}
  ELSE {slice'}

UpdateReturns == pc # "new" /\ pc' \in {"idle", "over"}

CountsAsAssumed == [][UpdateReturns => pos' - pos \in Counts]_vars

(***************************************************************************)
(* A sound file is unpacked to its end with the right password by a caller *)
(* that again and again passes all that is left.                           *)
(***************************************************************************)
FileEnds == (password = "right" /\ file.corrupt = {}) ~> (pc = "over")

(***************************************************************************)
(* What an update still has to do: bytes to decrypt, then bytes for the    *)
(* decompressor, of which a call leaves fewer or is the last.  Every step  *)
(* leaves less of it, whatever the data and the password are: an update    *)
(* returns.                                                                *)
(***************************************************************************)
ToDo ==
  CASE pc = "new" -> << 3, ZIPCRYPTO_HEADER - HeaderDone, 0 >>
    [] pc = "decrypt" -> << 2, slice - Len(buffer), 0 >>
    [] pc = "decompress" -> << 1, Len(decrypt_buffer) - offset, Len(Input) - used >>
    [] OTHER -> << 0, 0, 0 >>

NearsItsReturn == [][pc # "idle" => ToDo' \in Seq(Nat) /\ Lower(ToDo', ToDo)]_vars
=============================================================================
