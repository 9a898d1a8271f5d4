--------------------------- MODULE PipelineProofs ---------------------------
(***************************************************************************)
(* Proofs about Pipeline, for every set of files and every way of cutting  *)
(* a file's data into updates.                                             *)
(***************************************************************************)
EXTENDS Pipeline, StreamProofs, CounterProofs

\* What is left of a buffer, and a stretch of the file, are bytes.
LEMMA RestFacts ==
  ASSUME NEW b \in Seq(PlainByte), NEW o \in 0 .. Len(b)
  PROVE  SubSeq(b, o + 1, Len(b)) \in Seq(PlainByte) /\ Len(SubSeq(b, o + 1, Len(b))) = Len(b) - o
  BY SubSeqProperties

LEMMA StretchFacts ==
  ASSUME file.size \in Nat, NEW p \in Nat, NEW n \in Nat, p + n <= file.size
  PROVE  Bytes(p + 1, n) \in Seq(PlainByte) /\ Len(Bytes(p + 1, n)) = n
  BY DEF Bytes, PlainByte

\* What the decompressor is given is bytes, and it has used some of them.
LEMMA InputFacts ==
  ASSUME TypeOK, pc = "decompress"
  PROVE  /\ Input \in Seq(PlainByte)
         /\ Len(Input) = IF IsEncrypted THEN Len(decrypt_buffer) - offset ELSE slice
         /\ Len(Input) \in Nat /\ used \in 0 .. Len(Input)
<1>1. CASE IsEncrypted
  <2>1. Input = SubSeq(decrypt_buffer, offset + 1, Len(decrypt_buffer))
    BY <1>1 DEF Input
  <2>2. decrypt_buffer \in Seq(PlainByte) /\ offset \in Nat /\ offset <= Len(decrypt_buffer)
    BY DEF TypeOK
  <2>3. Input \in Seq(PlainByte) /\ Len(Input) = Len(decrypt_buffer) - offset
    BY <2>1, <2>2, RestFacts
  <2> QED
    BY <1>1, <2>2, <2>3 DEF TypeOK
<1>2. CASE ~ IsEncrypted
  <2>1. Input = Bytes(pos + 1, slice)
    BY <1>2 DEF Input
  <2>2. pos \in Nat /\ slice \in Nat /\ pos + slice <= file.size /\ file.size \in Nat
    BY DEF TypeOK, IsFile
  <2>3. Input \in Seq(PlainByte) /\ Len(Input) = slice
    BY <2>1, <2>2, StretchFacts
  <2> QED
    BY <1>2, <2>2, <2>3 DEF TypeOK
<1> QED
  BY <1>1, <1>2

\* The symbol at hand lies in the input, has a byte at least, and produces a
\* window of output at most.
LEMMA SymbolFacts ==
  ASSUME TypeOK, SymbolThere
  PROVE  /\ Byte \in PlainByte
         /\ SymbolLength \in Nat \ {0} /\ used + SymbolLength <= Len(Input)
         /\ Byte # Garbage => /\ Byte \in 1 .. file.size
                              /\ file.last[Byte] \in 1 .. file.size
                              /\ Byte + SymbolLength = file.last[Byte] + 1
         /\ \A amount \in Amounts : amount \in 0 .. WINDOW
<1>1. Byte \in PlainByte
  BY InputFacts DEF SymbolThere, Byte
<1>2. CASE Byte = Garbage
  BY <1>1, <1>2, SizesAssumption DEF SymbolThere, SymbolLength, Amounts
<1>3. CASE Byte # Garbage
  <2>1. /\ Byte \in 1 .. file.size /\ file.size \in Nat
        /\ file.last[Byte] \in 1 .. file.size /\ Byte <= file.last[Byte]
        /\ file.produces[Byte] \in 0 .. WINDOW
    <3>1. IsFile(file)
      BY DEF TypeOK
    <3>2. Byte \in 1 .. file.size /\ file.size \in Nat
      BY <1>1, <1>3, <3>1 DEF IsFile, PlainByte, Garbage
    <3> HIDE DEF Byte
    <3> QED
      BY <3>1, <3>2 DEF IsFile
  <2>2. SymbolLength = file.last[Byte] - Byte + 1 /\ Amounts = {file.produces[Byte]}
    BY <1>3 DEF SymbolLength, Amounts
  <2> QED
    BY <1>1, <1>3, <2>1, <2>2 DEF SymbolThere
<1> QED
  BY <1>2, <1>3

LEMMA TypeInit == Init => TypeOK
<1> SUFFICES ASSUME Init PROVE TypeOK
  OBVIOUS
<1>1. IsFile(file)
  BY FilesAssumption DEF Init
<1>2. counter \in Block /\ pad \in Block /\ pad_offset \in 0 .. BLOCK_SIZE
  BY SizesAssumption DEF Init, Block
<1>3. << >> \in Seq(PlainByte)
  OBVIOUS
<1>4. pc \in {"new", "idle"}
  BY DEF Init
<1> QED
  BY <1>1, <1>2, <1>3, <1>4, SizesAssumption DEF Init, TypeOK, IsFile

(***************************************************************************)
(* Type correctness, the decryptors first: what they decrypt is bytes of   *)
(* the file or Garbage.                                                    *)
(***************************************************************************)
LEMMA Sizes ==
  ASSUME TypeOK
  PROVE  /\ IsFile(file) /\ file.size \in Nat
         /\ pos \in Nat /\ pos <= file.size /\ slice \in Nat
         /\ BytesLeft \in Nat
  BY DEF TypeOK, IsFile, BytesLeft

LEMMA XorByte ==
  ASSUME TypeOK, Decrypting, NEW keystream
  PROVE  Xor(keystream) \in PlainByte
<1>1. Place \in PlainByte
  BY Sizes DEF TypeOK, Decrypting, Place, PlainByte
<1>2. Garbage \in PlainByte
  BY Sizes DEF Garbage, PlainByte
<1> QED
  BY <1>1, <1>2 DEF Xor

LEMMA IncrementBlock ==
  ASSUME NEW block \in Block
  PROVE  Increment(block) \in Block
  BY SizesAssumption DEF Increment, Block

\* The call of the decompressor returns some of what it holds.
LEMMA CalledType ==
  ASSUME TypeOK, DecompressorCalled
  PROVE  /\ used' = 0 /\ given' \in 0 .. WINDOW /\ held' \in Nat
         /\ given' + held' = held /\ given' <= held
         /\ UNCHANGED << eaten, made >>
<1>1. held \in Nat /\ WINDOW \in Nat
  BY SizesAssumption DEF TypeOK
<1> QED
  BY <1>1 DEF DecompressorCalled, Lesser

LEMMA TypeNext == TypeOK /\ [Next]_vars => TypeOK'
<1> SUFFICES ASSUME TypeOK, [Next]_vars PROVE TypeOK'
  OBVIOUS
<1> USE DEF config, decryptor, decompressor
<1>1. CASE HeaderDecrypted
  BY <1>1 DEF HeaderDecrypted, TypeOK, Input, IsEncrypted, PlainByte
<1>2. CASE ZipCryptoAccepted \/ AExAccepted
  BY <1>2 DEF ZipCryptoAccepted, AExAccepted, Checked, Created, TypeOK, PlainByte
<1>3. CASE ZipCryptoRefused \/ AExRefused \/ InflateFails
  BY <1>3 DEF ZipCryptoRefused, AExRefused, InflateFails, Refuse, TypeOK, PlainByte
<1>4. ASSUME NEW n \in 0 .. BytesLeft, UpdateStored(n) PROVE TypeOK'
  <2>1. n \in Nat /\ pos + n <= file.size
    BY Sizes DEF BytesLeft
  <2>2. Bytes(pos + 1, n) \in Seq(PlainByte)
    BY <2>1, Sizes, StretchFacts
  <2>3. eaten' \in Seq(PlainByte) /\ made' \in Nat /\ out' \in Nat /\ pos' \in 0 .. file.size
    BY <1>4, <2>1, <2>2, Sizes DEF UpdateStored, Return, TypeOK
  <2> QED
    BY <1>4, <2>1, <2>3 DEF UpdateStored, Return, TypeOK, PlainByte
<1>5. ASSUME NEW n \in 0 .. BytesLeft, UpdateDeflated(n) PROVE TypeOK'
  <2>1. n \in Nat /\ pos + n <= file.size
    BY Sizes DEF BytesLeft
  <2>2. /\ pc' = "decompress" /\ slice' = n /\ ~ IsEncrypted
        /\ UNCHANGED << file, password, error, keys, counter, pad, pad_offset, pos, buffer, decrypt_buffer, offset, result_buffer, out >>
        /\ pc = "idle" /\ DecompressorCalled
    BY <1>5 DEF UpdateDeflated
  <2>3. offset' <= Len(decrypt_buffer') /\ used' <= Len(Input')
    <3>1. Input' = Bytes(pos + 1, n) /\ Len(Input') = n
      BY <2>1, <2>2, Sizes, StretchFacts DEF Input, IsEncrypted
    <3>2. ASSUME IsEncrypted PROVE FALSE
      BY <2>2, <3>2
    <3> QED
      BY <2>1, <2>2, <3>1, CalledType DEF TypeOK
  <2> QED
    BY <2>1, <2>2, <2>3, CalledType DEF TypeOK, PlainByte
<1>6. ASSUME NEW n \in 0 .. BytesLeft, UpdateEncrypted(n) PROVE TypeOK'
  BY <1>6, Sizes DEF UpdateEncrypted, TypeOK, PlainByte, BytesLeft
<1>7. CASE DecryptZipCrypto \/ DecryptAEx
  <2>1. PICK keystream : DecryptedByte(Xor(keystream)) /\ Decrypting
    BY <1>7 DEF DecryptZipCrypto, DecryptAEx
  <2>2. buffer' \in Seq(PlainByte) /\ Len(buffer') = Len(buffer) + 1
    BY <2>1, XorByte DEF DecryptedByte, TypeOK
  <2>3. Len(buffer') <= slice'
    BY <2>1, <2>2 DEF DecryptedByte, Decrypting, TypeOK
  <2>4. counter' \in Block /\ pad' \in Block /\ pad_offset' \in 0 .. BLOCK_SIZE
    BY <1>7, IncrementBlock, SizesAssumption DEF DecryptZipCrypto, DecryptAEx, PadUsed, TypeOK
  <2> QED
    BY <2>1, <2>2, <2>3, <2>4 DEF DecryptedByte, Decrypting, TypeOK, PlainByte
<1>8. CASE OnlyDecrypted
  <2>1. pc = "decrypt" /\ Len(buffer) = slice
    BY <1>8 DEF OnlyDecrypted, Decrypted
  <2>2. eaten' \in Seq(PlainByte) /\ made' \in Nat /\ out' \in Nat /\ pos' \in 0 .. file.size
    BY <1>8, <2>1, Sizes DEF OnlyDecrypted, Return, TypeOK
  <2> QED
    BY <1>8, <2>1, <2>2 DEF OnlyDecrypted, Return, TypeOK, PlainByte
<1>9. CASE ToDecompress
  <2>1. /\ pc' = "decompress" /\ pc = "decrypt" /\ offset' = 0 /\ result_buffer' = 0
        /\ UNCHANGED << file, password, error, keys, counter, pad, pad_offset, pos, slice, buffer, out >>
        /\ DecompressorCalled
    BY <1>9 DEF ToDecompress, Decrypted
  <2>2. decrypt_buffer' \in Seq(PlainByte)
    BY <1>9 DEF ToDecompress, TypeOK
  <2>3. offset' <= Len(decrypt_buffer') /\ used' <= Len(Input')
    <3>1. Len(decrypt_buffer') \in Nat
      BY <2>2
    <3>2. CASE IsEncrypted
      <4>1. Input' = SubSeq(decrypt_buffer', 1, Len(decrypt_buffer'))
        BY <2>1, <3>2 DEF Input, IsEncrypted
      <4> QED
        BY <2>1, <2>2, <3>1, <4>1, CalledType, SubSeqProperties
    <3>3. CASE ~ IsEncrypted
      <4>1. Input' = Bytes(pos + 1, slice) /\ Len(Input') = slice
        BY <2>1, <3>3, Sizes, StretchFacts DEF Input, IsEncrypted, TypeOK
      <4> QED
        BY <2>1, <3>1, <4>1, Sizes, CalledType
    <3> QED
      BY <3>2, <3>3
  <2> QED
    BY <2>1, <2>2, <2>3, CalledType DEF TypeOK, PlainByte
<1>10. CASE InflateSymbol
  <2>1. /\ pc = "decompress" /\ SymbolThere /\ used' = used + SymbolLength
        /\ eaten' = eaten \o SubSeq(Input, used + 1, used + SymbolLength)
        /\ UNCHANGED << file, password, pc, error, keys, counter, pad, pad_offset, pos, slice, buffer, decrypt_buffer,
                        offset, result_buffer, out >>
    BY <1>10 DEF InflateSymbol, SymbolThere
  <2>2. used' \in Nat /\ used' <= Len(Input)
    BY <2>1, SymbolFacts, InputFacts
  <2>3. Input' = Input
    BY <2>1 DEF Input, IsEncrypted
  <2>4. eaten' \in Seq(PlainByte)
    BY <2>1, SymbolFacts, InputFacts, SubSeqProperties DEF TypeOK
  <2>5. given' \in 0 .. WINDOW /\ held' \in Nat /\ made' \in Nat
    <3>1. PICK amount \in 0 .. WINDOW :
            /\ made' = made + amount
            /\ given' = Lesser(given + amount, WINDOW)
            /\ held' = held + given + amount - given'
      BY <1>10, <2>1, SymbolFacts DEF InflateSymbol
    <3> QED
      BY <3>1, SizesAssumption DEF TypeOK, Lesser
  <2> QED
    BY <2>1, <2>2, <2>3, <2>4, <2>5 DEF TypeOK, PlainByte
<1>11. CASE InflateReturns
  <2>1. /\ pc = "decompress" /\ ~ IsEncrypted /\ pos' = pos + used /\ out' = out + given
        /\ pc' \in {"idle", "over"} /\ NoLocals
        /\ UNCHANGED << file, password, error, keys, counter, pad, pad_offset, slice, buffer, decrypt_buffer,
                        held, eaten, made, result_buffer >>
    BY <1>11 DEF InflateReturns, InflateDone, Return
  <2>2. pos' \in 0 .. file.size /\ out' \in Nat
    BY <2>1, InputFacts, Sizes, SizesAssumption DEF TypeOK
  <2> QED
    BY <2>1, <2>2, SizesAssumption DEF TypeOK, PlainByte, NoLocals
<1>12. CASE InflateAgain
  <2>1. /\ pc = "decompress" /\ IsEncrypted /\ result_buffer' = result_buffer + given
        /\ offset' = offset + used /\ DecompressorCalled
        /\ UNCHANGED << file, password, pc, error, keys, counter, pad, pad_offset, pos, slice, buffer, decrypt_buffer, out >>
    BY <1>12 DEF InflateAgain, InflateDone
  <2>2. offset' \in 0 .. Len(decrypt_buffer)
    BY <2>1, InputFacts DEF TypeOK
  <2>3. Len(Input') \in Nat
    <3>1. Input' = SubSeq(decrypt_buffer, offset' + 1, Len(decrypt_buffer))
      BY <2>1 DEF Input, IsEncrypted
    <3> QED
      BY <2>2, <3>1, RestFacts DEF TypeOK
  <2>4. result_buffer' \in Nat
    BY <2>1, SizesAssumption DEF TypeOK
  <2>5. used' = 0 /\ used' <= Len(Input') /\ offset' <= Len(decrypt_buffer')
    BY <2>1, <2>2, <2>3, CalledType DEF TypeOK
  <2> HIDE DEF NoLocals
  <2> QED
    BY <2>1, <2>2, <2>4, <2>5, CalledType DEF TypeOK, PlainByte
<1>13. CASE InflateLoopEnds
  <2>1. /\ pc = "decompress" /\ result_buffer' = result_buffer + given
        /\ decrypt_buffer' = SubSeq(decrypt_buffer, offset + 1, Len(decrypt_buffer))
        /\ pos' = pos + slice /\ out' = out + (result_buffer + given)
        /\ pc' \in {"idle", "over"} /\ NoLocals
        /\ UNCHANGED << file, password, error, keys, counter, pad, pad_offset, slice, buffer, held, eaten, made >>
    BY <1>13 DEF InflateLoopEnds, InflateDone, Return, Drain, Count
  <2>2. decrypt_buffer' \in Seq(PlainByte)
    BY <2>1, RestFacts DEF TypeOK
  <2>3. pos' \in 0 .. file.size /\ out' \in Nat /\ result_buffer' \in Nat
    BY <2>1, Sizes, SizesAssumption DEF TypeOK
  <2> QED
    BY <2>1, <2>2, <2>3, SizesAssumption DEF TypeOK, PlainByte, NoLocals
<1>14. CASE UNCHANGED vars
  BY <1>14 DEF vars, TypeOK, PlainByte, Input, IsEncrypted
<1> QED
  BY <1>1, <1>2, <1>3, <1>4, <1>5, <1>6, <1>7, <1>8, <1>9, <1>10, <1>11, <1>12, <1>13, <1>14
     DEF Next, New, Work, Update

(***************************************************************************)
(* Every variable of the pipeline has its type: in particular no buffer is *)
(* sliced beyond its end and no update goes beyond the file.               *)
(***************************************************************************)
THEOREM PipelineTypeCorrect == Spec => []TypeOK
  BY TypeInit, TypeNext, PTL DEF Spec

-----------------------------------------------------------------------------
(***************************************************************************)
(* What passes through the decompressor.  Between its calls it holds less  *)
(* than a window, so that one call returns all of it: when a call took     *)
(* nothing, nothing is held.  It holds something only behind a call that   *)
(* returned a full window.                                                 *)
(***************************************************************************)
Stage ==
  /\ ~ IsEncrypted => pc \notin {"new", "decrypt"}
  /\ ~ IsEncrypted \/ ~ IsDeflated => decrypt_buffer = << >>
  /\ ~ IsDeflated => pc # "decompress"
  /\ pc = "over" => pos = file.size
  /\ pc = "new" => pos = 0 /\ decrypt_buffer = << >> /\ eaten = << >>

\* What the call in progress is to return.
InCall ==
  IF pc # "decompress" THEN 0 ELSE IF IsEncrypted THEN result_buffer + given ELSE given

Accounts ==
  pc # "error" =>
    /\ made = out + held + InCall
    /\ held < WINDOW
    /\ pc = "decompress" /\ given < WINDOW => held = 0
    /\ pc = "decompress" /\ used = 0 => held = 0 /\ given < WINDOW
    /\ pc # "decompress" /\ (IsEncrypted \/ ~ IsDeflated) => held = 0
    /\ pc # "decompress" /\ held # 0 => out >= WINDOW

Accounted == TypeOK /\ Stage /\ Accounts

LEMMA AccountedInit == Init => Accounted
<1> SUFFICES ASSUME Init PROVE Accounted
  OBVIOUS
<1>1. Stage
  BY DEF Init, Stage
<1>2. Accounts
  BY SizesAssumption DEF Init, Accounts, InCall
<1> QED
  BY <1>1, <1>2, TypeInit DEF Accounted

LEMMA StageNext == TypeOK /\ Stage /\ [Next]_vars => Stage'
<1> SUFFICES ASSUME TypeOK, Stage, [Next]_vars PROVE Stage'
  OBVIOUS
<1> USE DEF config, decryptor, decompressor, Stage, IsEncrypted, IsDeflated
<1>1. CASE New
  BY <1>1 DEF New, HeaderDecrypted, ZipCryptoAccepted, ZipCryptoRefused, AExAccepted,
       AExRefused, Checked, Created, Refuse
<1>2. ASSUME NEW n \in 0 .. BytesLeft, Update(n) PROVE Stage'
  BY <1>2, Sizes DEF Update, UpdateStored, UpdateDeflated, UpdateEncrypted, Return, Over, BytesLeft
<1>3. CASE DecryptZipCrypto \/ DecryptAEx
  BY <1>3 DEF DecryptZipCrypto, DecryptAEx, DecryptedByte, Decrypting
<1>4. CASE OnlyDecrypted \/ InflateReturns
  BY <1>4, Sizes, InputFacts
     DEF OnlyDecrypted, InflateReturns, InflateDone, Decrypted, Return, Over, BytesLeft
<1>5. CASE ToDecompress
  BY <1>5 DEF ToDecompress, Decrypted
<1>6. CASE InflateSymbol \/ InflateAgain
  BY <1>6 DEF InflateSymbol, InflateAgain, SymbolThere, InflateDone
<1>7. CASE InflateFails
  BY <1>7 DEF InflateFails, Refuse
<1>8. CASE InflateLoopEnds
  BY <1>8, Sizes DEF InflateLoopEnds, InflateDone, Return, Over, BytesLeft, Count
<1>9. CASE UNCHANGED vars
  BY <1>9 DEF vars
<1> QED
  BY <1>1, <1>2, <1>3, <1>4, <1>5, <1>6, <1>7, <1>8, <1>9 DEF Next, Work

LEMMA AllReturned ==
  ASSUME TypeOK, held < WINDOW, DecompressorCalled
  PROVE  given' = held /\ held' = 0 /\ made' = made /\ used' = 0
  BY SizesAssumption DEF TypeOK, DecompressorCalled, Lesser

LEMMA AccountsNext == Accounted /\ [Next]_vars => Accounts'
<1> SUFFICES ASSUME TypeOK, Stage, Accounts, [Next]_vars PROVE Accounts'
  BY DEF Accounted
<1> USE DEF config, decryptor, decompressor, Accounts, InCall, IsEncrypted, IsDeflated
<1>0. out \in Nat /\ made \in Nat /\ held \in Nat /\ given \in Nat /\ result_buffer \in Nat /\ WINDOW \in Nat
  BY SizesAssumption DEF TypeOK
<1>1. CASE New
  BY <1>1 DEF New, HeaderDecrypted, ZipCryptoAccepted, ZipCryptoRefused, AExAccepted,
       AExRefused, Checked, Created, Refuse
<1>2. ASSUME NEW n \in 0 .. BytesLeft, UpdateStored(n) PROVE Accounts'
  BY <1>0, <1>2, Sizes DEF UpdateStored, Return
<1>3. ASSUME NEW n \in 0 .. BytesLeft, UpdateDeflated(n) PROVE Accounts'
  BY <1>0, <1>3, AllReturned DEF UpdateDeflated
<1>4. ASSUME NEW n \in 0 .. BytesLeft, UpdateEncrypted(n) PROVE Accounts'
  BY <1>0, <1>4 DEF UpdateEncrypted
<1>5. CASE DecryptZipCrypto \/ DecryptAEx
  BY <1>5 DEF DecryptZipCrypto, DecryptAEx, DecryptedByte, Decrypting
<1>6. CASE OnlyDecrypted
  BY <1>0, <1>6 DEF OnlyDecrypted, Decrypted, Return, TypeOK
<1>7. CASE ToDecompress
  BY <1>0, <1>7, AllReturned DEF ToDecompress, Decrypted
<1>8. CASE InflateSymbol
  <2>1. PICK amount \in 0 .. WINDOW :
          /\ made' = made + amount
          /\ given' = Lesser(given + amount, WINDOW)
          /\ held' = held + given + amount - given'
    BY <1>8, SymbolFacts DEF InflateSymbol
  <2>2. /\ pc = "decompress" /\ given < WINDOW /\ held = 0 /\ used' # 0
        /\ UNCHANGED << file, pc, out, result_buffer >>
    BY <1>8, SymbolFacts DEF InflateSymbol, SymbolThere, TypeOK
  <2> QED
    BY <1>0, <2>1, <2>2 DEF Lesser
<1>9. CASE InflateFails
  BY <1>9 DEF InflateFails, Refuse
<1>10. CASE InflateReturns
  BY <1>0, <1>10 DEF InflateReturns, InflateDone, Return, Stage
<1>11. CASE InflateAgain
  BY <1>0, <1>11, AllReturned DEF InflateAgain, InflateDone
<1>12. CASE InflateLoopEnds
  BY <1>0, <1>12 DEF InflateLoopEnds, InflateDone, LoopEnds, Return
<1>13. CASE UNCHANGED vars
  BY <1>13 DEF vars
<1> QED
  BY <1>1, <1>2, <1>3, <1>4, <1>5, <1>6, <1>7, <1>8, <1>9, <1>10, <1>11, <1>12, <1>13
     DEF Next, Work, Update

(***************************************************************************)
(* Of all that is left of a file a decompressor that has room takes a      *)
(* symbol: symbols end in the file.                                        *)
(***************************************************************************)
LEMMA SymbolAtEnd ==
  ASSUME Accounted, pc = "decompress", used = 0, Len(Input) > 0, Byte # Garbage,
         Byte + Len(Input) > file.size
  PROVE  SymbolThere
<1>1. given < WINDOW
  BY DEF Accounted, Accounts
<1>2. IsFile(file) /\ Byte \in PlainByte /\ Len(Input) \in Nat
  BY InputFacts DEF Accounted, TypeOK, Byte
<1>3. Byte \in 1 .. file.size /\ file.size \in Nat
  BY <1>2 DEF IsFile, PlainByte, Garbage
<1>4. SymbolLength <= Len(Input)
  <2>1. SymbolLength = file.last[Byte] - Byte + 1
    BY DEF SymbolLength
  <2> HIDE DEF Byte, Input
  <2>2. file.last[Byte] \in 1 .. file.size
    BY <1>2, <1>3 DEF IsFile
  <2> QED
    BY <1>2, <1>3, <2>1, <2>2
<1>5. used + SymbolLength = SymbolLength
  <2>1. file.last[Byte] \in Int
    BY <1>2, <1>3 DEF IsFile
  <2> QED
    BY <1>3, <2>1 DEF SymbolLength
<1> QED
  BY <1>1, <1>4, <1>5 DEF SymbolThere

\* Without a decryptor the decompressor reads the file itself.
LEMMA BareInput ==
  ASSUME TypeOK, pc = "decompress", ~ IsEncrypted, used < slice
  PROVE  Byte = pos + used + 1
<1>1. /\ Input = Bytes(pos + 1, slice) /\ used \in Nat /\ slice \in Nat /\ pos \in Nat
  BY Sizes DEF Input, TypeOK
<1> QED
  BY <1>1 DEF Byte, Bytes

LEMMA CountsStep == Accounted /\ [Next]_vars => [UpdateReturns => pos' - pos \in Counts]_vars
<1> SUFFICES ASSUME Accounted, Next, UpdateReturns PROVE pos' - pos \in Counts
  OBVIOUS
<1> USE DEF config, decryptor, decompressor, IsEncrypted, IsDeflated
<1>0. TypeOK /\ Stage
  BY DEF Accounted
<1>1. ASSUME NEW n \in 0 .. BytesLeft, UpdateStored(n) PROVE pos' - pos \in Counts
  BY <1>0, <1>1, Sizes DEF UpdateStored, Return, Counts
<1>2. CASE OnlyDecrypted \/ InflateLoopEnds
  <2>1. pos' = pos + slice /\ slice' = slice /\ UNCHANGED file
    BY <1>2 DEF OnlyDecrypted, InflateLoopEnds, Return, Count
  <2>2. IsEncrypted
    BY <1>0, <1>2 DEF OnlyDecrypted, Decrypted, InflateLoopEnds, Stage
  <2> QED
    BY <1>0, <2>1, <2>2, Sizes DEF Counts
<1>3. CASE InflateReturns
  <2>1. /\ pc = "decompress" /\ ~ IsEncrypted /\ ~ SymbolThere /\ slice' = slice
        /\ pos' = pos + used /\ IsDeflated
    BY <1>0, <1>3 DEF InflateReturns, InflateDone, Return, Stage
  <2>2. used \in 0 .. slice /\ Len(Input) = slice /\ slice \in Nat /\ pos \in Nat /\ file.size \in Nat
    BY <1>0, <2>1, InputFacts, Sizes
  <2>3. ASSUME slice = BytesLeft, slice > 0, used = 0 PROVE FALSE
    <3>1. Byte = pos + 1
      BY <1>0, <2>1, <2>2, <2>3, BareInput
    <3>2. Byte # Garbage /\ Byte + Len(Input) > file.size
      BY <2>2, <2>3, <3>1 DEF Garbage, BytesLeft
    <3> QED
      BY <2>1, <2>2, <2>3, <3>2, SymbolAtEnd
  <2>4. pos' - pos = used
    BY <2>1, <2>2
  <2> HIDE DEF IsEncrypted, IsDeflated
  <2> QED
    BY <2>1, <2>2, <2>3, <2>4 DEF Counts
<1>4. CASE New
  BY <1>4 DEF New, HeaderDecrypted, ZipCryptoAccepted, ZipCryptoRefused, AExAccepted,
       AExRefused, Checked, UpdateReturns
<1>5. ASSUME NEW n \in 0 .. BytesLeft, UpdateDeflated(n) \/ UpdateEncrypted(n) PROVE FALSE
  BY <1>5 DEF UpdateDeflated, UpdateEncrypted, UpdateReturns
<1>6. CASE DecryptZipCrypto \/ DecryptAEx
  BY <1>6 DEF DecryptZipCrypto, DecryptAEx, DecryptedByte, Decrypting, UpdateReturns
<1>7. CASE ToDecompress \/ InflateSymbol \/ InflateAgain \/ InflateFails
  BY <1>7 DEF ToDecompress, InflateSymbol, InflateAgain, InflateFails, InflateDone, SymbolThere,
       Refuse, UpdateReturns
<1> QED
  BY <1>1, <1>2, <1>3, <1>4, <1>5, <1>6, <1>7 DEF Next, Work, Update

(***************************************************************************)
(* What ZipUnpacker assumes of the bytes that an update consumes.          *)
(***************************************************************************)
THEOREM CountsKept == Spec => CountsAsAssumed
<1>1. Accounted /\ [Next]_vars => Accounted'
  BY TypeNext, StageNext, AccountsNext DEF Accounted
<1> QED
  BY <1>1, AccountedInit, CountsStep, PTL DEF Spec, CountsAsAssumed

-----------------------------------------------------------------------------
(***************************************************************************)
(* The keystreams.  A key of ZipCrypto is a sequence of all that it was    *)
(* updated with; with the right password it grows with the file.           *)
(***************************************************************************)
KeyByte == {"right"} \cup Nat

LEMMA PrefixAppend ==
  ASSUME NEW a \in Seq(KeyByte), NEW g \in Nat, NEW n \in Nat
  PROVE  /\ Append(a \o Bytes(g, n), g + n) = a \o Bytes(g, n + 1)
         /\ a \o Bytes(g, 0) = a
<1> DEFINE b == Bytes(g, n)
           e == g + n
<1>1. b \in Seq(KeyByte) /\ e \in KeyByte
  <2>1. b \in Seq(Nat)
    BY BytesSeq
  <2>2. Nat \subseteq KeyByte
    BY DEF KeyByte
  <2> HIDE DEF b
  <2> QED
    BY <2>1, <2>2, SeqMonotonic DEF KeyByte
<1>2. Append(b, e) = Bytes(g, n + 1)
  <2>1. << e >> = Bytes(e, 1)
    BY DEF Bytes
  <2>2. Append(b, e) = b \o << e >>
    <3> HIDE DEF b, e
    <3> QED
      BY <1>1, AppendIsConcat
  <2>3. b \o Bytes(e, 1) = Bytes(g, n + 1)
    BY BytesConcat
  <2> QED
    BY <2>1, <2>2, <2>3
<1>3. Append(a \o b, e) = a \o Append(b, e)
  <2> HIDE DEF b, e
  <2>1. /\ Append(b, e) = b \o << e >>
        /\ a \o b \in Seq(KeyByte) /\ << e >> \in Seq(KeyByte)
    BY <1>1, AppendIsConcat, ConcatProperties
  <2>2. Append(a \o b, e) = (a \o b) \o << e >>
    BY <1>1, <2>1, AppendIsConcat
  <2> QED
    BY <1>1, <2>1, <2>2, ConcatAssociative
<1>4. Bytes(g, 0) = << >>
  BY DEF Bytes
<1> QED
  BY <1>2, <1>3, <1>4, ConcatEmptySeq

LEMMA AfterPassword ==
  ASSUME NEW S, NEW a \in Seq(S), Len(a) = 1, NEW h \in Seq(S)
  PROVE  /\ a \o h \in Seq(S) /\ Len(a \o h) = Len(h) + 1
         /\ Len(h) > 0 => (a \o h)[Len(h) + 1] = h[Len(h)]
<1>1. Len(h) \in Nat
  BY LenProperties
<1>2. a \o h \in Seq(S) /\ Len(a \o h) = Len(a) + Len(h)
  BY ConcatProperties
<1>3. ASSUME Len(h) > 0 PROVE (a \o h)[Len(h) + 1] = h[Len(h)]
  <2> DEFINE i == Len(h) + 1
  <2>1. i \in 1 .. Len(a) + Len(h) /\ ~ (i <= Len(a)) /\ i - Len(a) = Len(h)
    BY <1>1, <1>3
  <2> HIDE DEF i
  <2>2. (a \o h)[i] = IF i <= Len(a) THEN a[i] ELSE h[i - Len(a)]
    BY <2>1, ConcatProperties
  <2>3. (a \o h)[i] = h[Len(h)]
    BY <2>1, <2>2
  <2> QED
    BY <2>3 DEF i
<1> QED
  BY <1>1, <1>2, <1>3

LEMMA HeaderFacts ==
  ASSUME file.size \in Nat, NEW n \in Nat
  PROVE  /\ HeaderStream(n + 1) \in Seq(KeyByte) /\ Len(HeaderStream(n + 1)) = n + 1
         /\ Append(HeaderStream(n + 1), HeaderByte(n + 1)) = HeaderStream(n + 2)
         /\ n > 0 => HeaderStream(n + 1)[n + 1] = HeaderByte(n)
<1> DEFINE a == << "right" >>
           h == Bytes(file.size + 1, n)
<1>1. a \in Seq(KeyByte) /\ Len(a) = 1 /\ file.size + 1 \in Nat
  BY DEF KeyByte
<1>2. HeaderStream(n + 1) = a \o h /\ HeaderStream(n + 2) = a \o Bytes(file.size + 1, n + 1)
  <2>1. ASSUME NEW m \in Nat PROVE Header(m) = Bytes(file.size + 1, m)
    <3>1. \A i \in 1 .. m : file.size + i = file.size + 1 + i - 1
      OBVIOUS
    <3> QED
      BY <3>1 DEF Header, HeaderByte, Bytes
  <2>2. (n + 1) - 1 = n /\ (n + 2) - 1 = n + 1
    OBVIOUS
  <2>3. Header(n) = h /\ Header(n + 1) = Bytes(file.size + 1, n + 1)
    BY <2>1
  <2> HIDE DEF h
  <2> QED
    BY <2>2, <2>3 DEF HeaderStream
<1>3. h \in Seq(KeyByte) /\ Len(h) = n /\ (n > 0 => h[n] = file.size + n)
  <2>1. h \in Seq(Nat) /\ Len(h) = n
    BY <1>1, BytesSeq
  <2>2. n > 0 => h[n] = file.size + n
    BY DEF Bytes
  <2>3. Nat \subseteq KeyByte
    BY DEF KeyByte
  <2> HIDE DEF h
  <2> QED
    BY <2>1, <2>2, <2>3, SeqMonotonic
<1>4. Append(a \o h, file.size + 1 + n) = a \o Bytes(file.size + 1, n + 1)
  BY <1>1, PrefixAppend
<1>5. HeaderByte(n + 1) = file.size + 1 + n /\ HeaderByte(n) = file.size + n
  BY DEF HeaderByte
<1> HIDE DEF a, h
<1>6. /\ a \o h \in Seq(KeyByte) /\ Len(a \o h) = n + 1
      /\ n > 0 => (a \o h)[n + 1] = h[n]
  BY <1>1, <1>3, AfterPassword
<1> QED
  BY <1>2, <1>3, <1>4, <1>5, <1>6

LEMMA StreamFacts ==
  ASSUME file.size \in Nat, file.encryption = "ZipCrypto", NEW k \in Nat
  PROVE  /\ Append(Stream(k + 1), k + 1) = Stream(k + 2)
         /\ Stream(1) = HeaderStream(ZIPCRYPTO_HEADER + 1)
<1>1. ZIPCRYPTO_HEADER \in Nat
  BY SizesAssumption
<1> DEFINE a == << "right" >> \o Header(ZIPCRYPTO_HEADER)
<1>2. a \in Seq(KeyByte) /\ a = HeaderStream(ZIPCRYPTO_HEADER + 1)
  BY <1>1, HeaderFacts DEF HeaderStream
<1>3. /\ Stream(k + 1) = a \o Bytes(1, k) /\ Stream(k + 2) = a \o Bytes(1, k + 1)
      /\ Stream(1) = a \o Bytes(1, 0)
  BY DEF Stream
<1> HIDE DEF a
<1>4. Append(a \o Bytes(1, k), 1 + k) = a \o Bytes(1, k + 1) /\ a \o Bytes(1, 0) = a
  BY <1>2, PrefixAppend, 1 \in Nat
<1> QED
  <2>1. 1 + k = k + 1
    OBVIOUS
  <2> QED
    BY <1>2, <1>3, <1>4, <2>1

LEMMA BlockFacts ==
  ASSUME NEW b \in Nat, NEW r \in 0 .. BLOCK_SIZE - 1
  PROVE  (b * BLOCK_SIZE + r) \div BLOCK_SIZE = b /\ (b * BLOCK_SIZE + r) % BLOCK_SIZE = r
  BY SizesAssumption

(***************************************************************************)
(* With the right password the state of the decryptor is the keystream of  *)
(* the next byte.                                                          *)
(***************************************************************************)
Ciphers ==
  password = "right" /\ pc # "error" =>
    /\ file.encryption = "ZipCrypto" =>
         IF pc = "new"
         THEN HeaderDone \in 0 .. ZIPCRYPTO_HEADER /\ keys = HeaderStream(HeaderDone + 1)
         ELSE keys = Stream(Taken + 1)
    /\ file.encryption = "AEx" =>
         \E b \in Nat :
            counter = Limbs(b) /\ pad = counter /\ Taken + BLOCK_SIZE = b * BLOCK_SIZE + pad_offset

LEMMA TakenFacts ==
  ASSUME TypeOK
  PROVE  Taken \in Nat /\ (Decrypting => Place = Taken + 1 /\ Place \in Nat)
<1>1. Len(buffer) \in Nat
  BY DEF TypeOK
<1> QED
  BY <1>1, Sizes DEF Taken, Decrypting, Place

LEMMA PadFacts ==
  ASSUME TypeOK, Ciphers, password = "right", DecryptAEx
  PROVE  /\ << password, pad', pad_offset' - 1 >> = Stream(Place)
         /\ \E b \in Nat :
              /\ counter' = Limbs(b) /\ pad' = counter'
              /\ Taken + 1 + BLOCK_SIZE = b * BLOCK_SIZE + pad_offset'
<1> DEFINE BS == BLOCK_SIZE
<1>1. PICK b \in Nat : counter = Limbs(b) /\ pad = counter /\ Taken + BS = b * BS + pad_offset
  BY DEF Ciphers, DecryptAEx, Decrypting
<1>2. /\ Taken \in Nat /\ Place = Taken + 1 /\ BS \in Nat \ {0}
      /\ pad_offset \in 0 .. BS /\ file.encryption = "AEx"
  BY TakenFacts, SizesAssumption DEF DecryptAEx, TypeOK
<1>3. Stream(Place) = << "right", Limbs(Taken \div BS + 1), Taken % BS >>
  BY <1>2 DEF Stream
<1>4. CASE PadUsed
  <2>1. counter' = Limbs(b + 1) /\ pad' = counter' /\ pad_offset' = 1 /\ pad_offset = BS
    BY <1>1, <1>4, CounterCounts DEF DecryptAEx, PadUsed
  <2>2. Taken = b * BS + 0
    BY <1>1, <1>2, <2>1
  <2>3. Taken \div BS = b /\ Taken % BS = 0
    BY <1>2, <2>2, BlockFacts
  <2>4. Taken + 1 + BS = (b + 1) * BS + 1
    BY <1>2, <2>2
  <2> QED
    BY <1>3, <2>1, <2>3, <2>4
<1>5. CASE ~ PadUsed
  <2>1. /\ counter' = Limbs(b) /\ pad' = counter' /\ pad_offset' = pad_offset + 1
        /\ pad_offset \in 0 .. BS - 1
    BY <1>1, <1>2, <1>5 DEF DecryptAEx, PadUsed
  <2>2. b - 1 \in Nat
    <3>1. b * BS > 0
      BY <1>1, <1>2, <2>1
    <3> QED
      BY <1>2, <3>1
  <2>3. Taken = (b - 1) * BS + pad_offset
    BY <1>1, <1>2
  <2>4. Taken \div BS = b - 1 /\ Taken % BS = pad_offset
    BY <2>1, <2>2, <2>3, BlockFacts
  <2>5. /\ Taken \div BS + 1 = b /\ pad_offset' - 1 = pad_offset
        /\ Taken + 1 + BS = b * BS + pad_offset'
    BY <1>1, <1>2, <2>1, <2>4
  <2> QED
    BY <1>3, <2>1, <2>4, <2>5
<1> QED
  BY <1>4, <1>5

LEMMA RightByte ==
  ASSUME TypeOK, Ciphers, password = "right", DecryptZipCrypto \/ DecryptAEx
  PROVE  DecryptedByte(Place) /\ Decrypting
<1>1. CASE DecryptZipCrypto
  <2>1. keys = Stream(Place)
    BY <1>1, TakenFacts DEF Ciphers, DecryptZipCrypto, Decrypting
  <2> QED
    BY <1>1, <2>1 DEF DecryptZipCrypto, Xor
<1>2. CASE DecryptAEx
  BY <1>2, PadFacts DEF DecryptAEx, Xor
<1> QED
  BY <1>1, <1>2

LEMMA CiphersInit == Init => Ciphers
<1> SUFFICES ASSUME Init, password = "right" PROVE Ciphers
  BY DEF Ciphers
<1>1. IsFile(file) /\ file.size \in Nat /\ pos = 0
  BY FilesAssumption DEF Init, IsFile
<1>2. CASE file.encryption = "ZipCrypto"
  <2>1. pc = "new" /\ keys = << "right" >> /\ HeaderDone = 0
    BY <1>2 DEF Init, IsEncrypted, HeaderDone
  <2>2. HeaderStream(0 + 1) = << "right" >>
    BY DEF HeaderStream, Header
  <2> QED
    BY <1>2, <2>1, <2>2, SizesAssumption DEF Ciphers
<1>3. CASE file.encryption = "AEx"
  <2>1. /\ counter = Limbs(0) /\ pad = counter /\ pad_offset = BLOCK_SIZE /\ Taken = 0
    BY <1>1, <1>3, ZeroLimbs DEF Init, IsEncrypted, Taken
  <2>2. Taken + BLOCK_SIZE = 0 * BLOCK_SIZE + pad_offset
    BY <2>1, SizesAssumption
  <2> QED
    BY <1>3, <2>1, <2>2 DEF Ciphers
<1>4. CASE file.encryption = "None"
  BY <1>4 DEF Ciphers
<1> QED
  BY <1>1, <1>2, <1>3, <1>4 DEF IsFile

LEMMA ConfigKept ==
  ASSUME [Next]_vars
  PROVE  UNCHANGED config
  BY DEF Next, New, HeaderDecrypted, ZipCryptoAccepted, ZipCryptoRefused, AExAccepted,
         AExRefused, Refuse, Created, Update, UpdateStored, UpdateDeflated, UpdateEncrypted, Return,
         Work, DecryptZipCrypto, DecryptAEx, DecryptedByte, OnlyDecrypted, ToDecompress,
         InflateSymbol, InflateFails, InflateReturns, InflateAgain, InflateLoopEnds, config, vars

\* A step that takes no byte and leaves the decryptor as it is.
LEMMA CiphersKept ==
  ASSUME Ciphers, UNCHANGED << config, decryptor >>, pc # "error", pc # "new", pc' # "new",
         Taken' = Taken
  PROVE  Ciphers'
<1>1. Stream(Taken + 1)' = Stream(Taken + 1)
  BY DEF Stream, Header, HeaderByte, config
<1> QED
  BY <1>1 DEF Ciphers, config, decryptor

LEMMA CiphersNext ==
  ASSUME TypeOK, Stage, Ciphers, [Next]_vars
  PROVE  Ciphers'
<1> SUFFICES ASSUME password = "right", pc' # "error", UNCHANGED config PROVE Ciphers'
  BY ConfigKept DEF Ciphers, config
<1> USE DEF decryptor, decompressor
<1>1. CASE HeaderDecrypted
  <2> DEFINE n == HeaderDone
  <2>1. /\ pc = "new" /\ pc' = "new" /\ file.encryption = "ZipCrypto" /\ file.size \in Nat
        /\ n \in 0 .. ZIPCRYPTO_HEADER - 1 /\ keys = HeaderStream(n + 1) /\ UNCHANGED file
    BY <1>1, Sizes, SizesAssumption DEF HeaderDecrypted, Ciphers, config
  <2>2. keys' = Append(HeaderStream(n + 1), HeaderByte(n + 1))
    BY <1>1, <2>1 DEF HeaderDecrypted
  <2>3. n \in Nat
    BY <2>1
  <2>4. keys' = HeaderStream(n + 2) /\ Len(keys') = n + 2
    <3> HIDE DEF n
    <3>1. /\ HeaderStream(n + 1) \in Seq(KeyByte) /\ Len(HeaderStream(n + 1)) = n + 1
          /\ Append(HeaderStream(n + 1), HeaderByte(n + 1)) = HeaderStream(n + 2)
      BY <2>1, <2>3, HeaderFacts
    <3>2. HeaderByte(n + 1) \in KeyByte
      BY <2>1, <2>3 DEF HeaderByte, KeyByte
    <3> QED
      BY <2>2, <2>3, <3>1, <3>2, AppendProperties
  <2>5. HeaderDone' = n + 1
    BY <2>3, <2>4 DEF HeaderDone
  <2>6. HeaderStream(HeaderDone + 1)' = HeaderStream(n + 2)
    <3>1. ASSUME NEW i \in Nat, HeaderDone' + 1 = i PROVE HeaderStream(HeaderDone + 1)' = HeaderStream(i)
      BY <2>1, <3>1 DEF HeaderStream, Header, HeaderByte
    <3>2. n + 2 \in Nat /\ HeaderDone' + 1 = n + 2
      BY <2>3, <2>5
    <3> HIDE DEF n
    <3> QED
      BY <3>1, <3>2
  <2>7. HeaderDone' \in 0 .. ZIPCRYPTO_HEADER
    BY <2>1, <2>5, SizesAssumption
  <2> QED
    BY <2>1, <2>4, <2>6, <2>7 DEF Ciphers
<1>2. CASE ZipCryptoAccepted
  <2>1. /\ pc = "new" /\ pc' = "idle" /\ file.encryption = "ZipCrypto" /\ file.size \in Nat
        /\ HeaderDone = ZIPCRYPTO_HEADER /\ UNCHANGED << file, keys, pos >>
    BY <1>2, Sizes DEF ZipCryptoAccepted, Checked, Created, config
  <2>2. keys = Stream(1)
    BY <2>1, StreamFacts DEF Ciphers
  <2>3. Taken' = 0
    BY <2>1 DEF Taken, Stage
  <2>4. Stream(Taken + 1)' = Stream(1)
    <3>1. Taken' + 1 = 1
      BY <2>3
    <3> QED
      BY <2>1, <3>1 DEF Stream, Header, HeaderByte
  <2> QED
    BY <2>1, <2>2, <2>4 DEF Ciphers
<1>3. CASE AExAccepted
  <2>1. /\ pc = "new" /\ pc' = "idle" /\ file.encryption = "AEx"
        /\ UNCHANGED << file, counter, pad, pad_offset, pos >>
    BY <1>3 DEF AExAccepted, Created, config
  <2>2. Taken' = Taken
    BY <2>1 DEF Taken
  <2> QED
    BY <2>1, <2>2 DEF Ciphers
<1>4. CASE \E n \in 0 .. BytesLeft : UpdateEncrypted(n)
  <2>1. Taken' = Taken
    BY <1>4, Sizes DEF UpdateEncrypted, Taken
  <2> QED
    BY <1>4, <2>1, CiphersKept DEF UpdateEncrypted
<1>5. CASE DecryptZipCrypto \/ DecryptAEx
  <2>1. DecryptedByte(Place) /\ Decrypting /\ Place = Taken + 1 /\ Taken \in Nat
    BY <1>5, RightByte, TakenFacts
  <2>2. Taken' = Taken + 1 /\ UNCHANGED << file, pc >> /\ pc = "decrypt"
    <3>1. Len(buffer') = Len(buffer) + 1 /\ Len(buffer) \in Nat
      BY <2>1 DEF DecryptedByte, TypeOK
    <3> QED
      BY <2>1, <3>1, Sizes DEF DecryptedByte, Decrypting, Taken, config
  <2>3. CASE DecryptZipCrypto
    <3>1. keys = Stream(Taken + 1) /\ file.encryption = "ZipCrypto" /\ file.size \in Nat
      BY <2>2, <2>3, Sizes DEF Ciphers, DecryptZipCrypto
    <3>2. keys' = Append(Stream(Taken + 1), Taken + 1)
      BY <2>1, <2>3, <3>1 DEF DecryptZipCrypto, Xor
    <3>3. keys' = Stream(Taken + 2)
      BY <2>1, <3>1, <3>2, StreamFacts
    <3>4. Stream(Taken + 1)' = Stream(Taken + 2)
      <4>1. Taken' + 1 = Taken + 2
        BY <2>1, <2>2
      <4> QED
        BY <2>2, <4>1 DEF Stream, Header, HeaderByte
    <3> QED
      BY <2>2, <3>1, <3>3, <3>4 DEF Ciphers
  <2>4. CASE DecryptAEx
    BY <2>2, <2>4, PadFacts DEF Ciphers, DecryptAEx
  <2> QED
    BY <1>5, <2>3, <2>4
<1>6. CASE OnlyDecrypted \/ ToDecompress \/ InflateSymbol \/ InflateAgain \/ InflateLoopEnds
  <2>1. Taken' = Taken
    BY <1>6, Sizes
       DEF OnlyDecrypted, ToDecompress, InflateSymbol, InflateAgain, InflateLoopEnds, Taken,
           Decrypted, SymbolThere, InflateDone, Return, Count
  <2>2. UNCHANGED decryptor /\ pc \in {"decrypt", "decompress"} /\ pc' # "new"
    BY <1>6
       DEF OnlyDecrypted, ToDecompress, InflateSymbol, InflateAgain, InflateLoopEnds, 
           Decrypted, SymbolThere, InflateDone, Return
  <2> QED
    BY <2>1, <2>2, CiphersKept
<1>7. CASE \E n \in 0 .. BytesLeft : UpdateStored(n) \/ UpdateDeflated(n)
  BY <1>7 DEF UpdateStored, UpdateDeflated, IsEncrypted, Ciphers, config
<1>8. CASE InflateReturns
  BY <1>8 DEF InflateReturns, IsEncrypted, Ciphers, config
<1>9. CASE ZipCryptoRefused \/ AExRefused \/ InflateFails
  BY <1>9 DEF ZipCryptoRefused, AExRefused, InflateFails, Refuse
<1>10. CASE UNCHANGED vars
  <2>1. UNCHANGED << Stream(Taken + 1), HeaderStream(HeaderDone + 1), HeaderDone, Taken >>
    BY <1>10 DEF vars, Stream, Taken, HeaderStream, Header, HeaderByte, HeaderDone, Input, IsEncrypted, config
  <2> QED
    BY <1>10, <2>1 DEF Ciphers, vars, config
<1>11. CASE New
  BY <1>1, <1>2, <1>3, <1>9, <1>11 DEF New
<1>12. CASE Work
  BY <1>5, <1>6, <1>8, <1>9, <1>12 DEF Work
<1>13. CASE \E n \in 0 .. BytesLeft : Update(n)
  BY <1>4, <1>7, <1>13 DEF Update
<1> QED
  BY <1>10, <1>11, <1>12, <1>13 DEF Next

-----------------------------------------------------------------------------
(***************************************************************************)
(* Sequences cut and joined.                                               *)
(***************************************************************************)
LEMMA PieceMoved ==
  ASSUME NEW S, NEW a \in Seq(S), NEW s \in Seq(S), NEW u \in Nat, NEW n \in Nat, u + n <= Len(s)
  PROVE  (a \o SubSeq(s, u + 1, u + n)) \o SubSeq(s, u + n + 1, Len(s))
           = a \o SubSeq(s, u + 1, Len(s))
<1> DEFINE t == SubSeq(s, u + 1, u + n)
           r == SubSeq(s, u + n + 1, Len(s))
<1>0. Len(s) \in Nat /\ \A i \in 1 .. Len(s) : s[i] \in S
  BY LenProperties, ElementOfSeq
<1>1. t \in Seq(S) /\ r \in Seq(S)
  BY <1>0, SubSeqProperties
<1>2. t \o r = SubSeq(s, u + 1, Len(s))
  <2>1. /\ u + 1 \in 1 .. Len(s) + 1 /\ u + n \in (u + 1) - 1 .. Len(s)
        /\ Len(s) \in u + n .. Len(s)
    BY <1>0
  <2> QED
    BY <2>1, ConcatAdjacentSubSeq
<1>3. (a \o t) \o r = a \o (t \o r)
  <2> HIDE DEF t, r
  <2> QED
    BY <1>1, ConcatAssociative
<1> QED
  BY <1>2, <1>3

LEMMA RestOfRest ==
  ASSUME NEW S, NEW s \in Seq(S), NEW o \in Nat, NEW u \in Nat, o + u <= Len(s)
  PROVE  SubSeq(SubSeq(s, o + 1, Len(s)), u + 1, Len(s) - o) = SubSeq(s, o + u + 1, Len(s))
<1> DEFINE r == SubSeq(s, o + 1, Len(s))
           x == SubSeq(r, u + 1, Len(s) - o)
           y == SubSeq(s, o + u + 1, Len(s))
<1>0. Len(s) \in Nat /\ \A i \in 1 .. Len(s) : s[i] \in S
  BY LenProperties, ElementOfSeq
<1>1. /\ r \in Seq(S) /\ Len(r) = Len(s) - o
      /\ \A i \in 1 .. Len(s) - o : r[i] = s[o + i]
  <2>1. /\ o + 1 \in Int /\ Len(s) - (o + 1) + 1 = Len(s) - o
        /\ \A i \in o + 1 .. Len(s) : s[i] \in S
    BY <1>0
  <2>2. /\ r \in Seq(S) /\ Len(r) = IF o + 1 <= Len(s) THEN Len(s) - (o + 1) + 1 ELSE 0
        /\ \A i \in 1 .. Len(s) - (o + 1) + 1 : r[i] = s[(o + 1) + i - 1]
    BY <1>0, <2>1, SubSeqProperties
  <2> HIDE DEF r
  <2>3. Len(r) = Len(s) - o
    BY <1>0, <2>2
  <2>4. ASSUME NEW i \in 1 .. Len(s) - o PROVE r[i] = s[o + i]
    <3>1. i \in 1 .. Len(s) - (o + 1) + 1 /\ (o + 1) + i - 1 = o + i
      BY <1>0
    <3> QED
      BY <2>2, <3>1
  <2> QED
    BY <2>2, <2>3, <2>4
<1> HIDE DEF r
<1>2. /\ x \in Seq(S) /\ Len(x) = Len(s) - o - u
      /\ \A i \in 1 .. Len(s) - o - u : x[i] = r[u + i]
  <2>1. \A i \in 1 .. Len(s) - o : r[i] \in S
    BY <1>0, <1>1
  <2> QED
    BY <1>0, <2>1, SubSeqProperties
<1>3. /\ y \in Seq(S) /\ Len(y) = Len(s) - o - u
      /\ \A i \in 1 .. Len(s) - o - u : y[i] = s[o + u + i]
  BY <1>0, SubSeqProperties
<1> HIDE DEF x, y
<1>4. \A i \in 1 .. Len(x) : x[i] = y[i]
  BY <1>0, <1>1, <1>2, <1>3
<1>5. x = y
  BY <1>2, <1>3, <1>4, SeqEqual
<1> QED
  BY <1>5 DEF x, y, r

LEMMA BytesAppend ==
  ASSUME NEW n \in Nat
  PROVE  Bytes(1, n) \o << n + 1 >> = Bytes(1, n + 1)
<1>1. << n + 1 >> = Bytes(1 + n, 1)
  BY DEF Bytes
<1>2. Bytes(1, n) \o Bytes(1 + n, 1) = Bytes(1, n + 1)
  BY BytesConcat, 1 \in Nat
<1> QED
  BY <1>1, <1>2

LEMMA CancelRight ==
  ASSUME NEW S, NEW s \in Seq(S), NEW t \in Seq(S), NEW v \in Seq(S), s \o v = t \o v
  PROVE  s = t
  BY ConcatSimplifications

LEMMA BytesRest ==
  ASSUME NEW g \in Nat, NEW n \in Nat, NEW u \in 0 .. n
  PROVE  SubSeq(Bytes(g, n), u + 1, n) = Bytes(g + u, n - u)
<1> DEFINE x == SubSeq(Bytes(g, n), u + 1, n)
           y == Bytes(g + u, n - u)
<1>1. /\ x \in Seq(Nat) /\ Len(x) = n - u
      /\ \A i \in 1 .. n - u : x[i] = Bytes(g, n)[u + i]
  <2>1. \A i \in u + 1 .. n : Bytes(g, n)[i] \in Nat
    BY DEF Bytes
  <2> QED
    BY <2>1, SubSeqProperties
<1>2. y \in Seq(Nat) /\ Len(y) = n - u
  <2>1. g + u \in Nat /\ n - u \in Nat
    OBVIOUS
  <2> QED
    BY <2>1, BytesSeq
<1>3. \A i \in 1 .. n - u : x[i] = y[i]
  BY <1>1 DEF Bytes
<1> HIDE DEF x, y
<1>4. x = y
  BY <1>1, <1>2, <1>3, SeqEqual
<1> QED
  BY <1>4 DEF x, y

-----------------------------------------------------------------------------
(***************************************************************************)
(* The bytes in order.                                                     *)
(***************************************************************************)
LEMMA NatSeqs ==
  ASSUME TypeOK
  PROVE  /\ eaten \in Seq(Nat) /\ buffer \in Seq(Nat) /\ decrypt_buffer \in Seq(Nat)
         /\ pc = "decompress" => Input \in Seq(Nat)
<1>1. PlainByte \subseteq Nat
  BY Sizes DEF PlainByte
<1>2. /\ eaten \in Seq(PlainByte) /\ buffer \in Seq(PlainByte)
      /\ decrypt_buffer \in Seq(PlainByte)
      /\ pc = "decompress" => Input \in Seq(PlainByte)
  BY InputFacts DEF TypeOK
<1>3. \A q \in Seq(PlainByte) : q \in Seq(Nat)
  BY <1>1, SeqMonotonic
<1> QED
  BY <1>2, <1>3

LEMMA PlainInit == Init => PlainInOrder
<1> SUFFICES ASSUME Init PROVE PlainInOrder
  OBVIOUS
<1>1. eaten = << >> /\ Waiting = << >> /\ Taken = 0
  BY DEF Init, Waiting, Taken
<1>2. Bytes(1, 0) = << >>
  BY DEF Bytes
<1> QED
  BY <1>1, <1>2 DEF PlainInOrder

\* A step that leaves all where it is.
LEMMA PlainKept ==
  ASSUME PlainInOrder, UNCHANGED << password, eaten >>, pc # "error",
         Waiting' = Waiting, Taken' = Taken
  PROVE  PlainInOrder'
  BY DEF PlainInOrder

\* What is appended to the buffer is appended to all.
LEMMA LastWaiting ==
  ASSUME TypeOK, NEW l \in Seq(PlainByte)
  PROVE  eaten \o (decrypt_buffer \o (buffer \o l)) = (eaten \o (decrypt_buffer \o buffer)) \o l
<1> DEFINE S == PlainByte
           e == eaten
           d == decrypt_buffer
           b == buffer
           db == d \o b
<1>1. e \in Seq(S) /\ d \in Seq(S) /\ b \in Seq(S) /\ l \in Seq(S)
  BY DEF TypeOK
<1> HIDE DEF S, e, d, b
<1>2. db \in Seq(S)
  BY <1>1, ConcatProperties
<1>3. db \o l = d \o (b \o l)
  BY <1>1, ConcatAssociative
<1>4. (e \o db) \o l = e \o (db \o l)
  <2> HIDE DEF db
  <2> QED
    BY <1>1, <1>2, ConcatAssociative
<1> QED
  BY <1>3, <1>4 DEF e, d, b

LEMMA PlainNext ==
  ASSUME TypeOK, Stage, Ciphers, PlainInOrder, [Next]_vars
  PROVE  PlainInOrder'
<1> SUFFICES ASSUME password = "right", pc' # "error", pc # "error", UNCHANGED config
             PROVE  PlainInOrder'
  <2>1. pc = "error" => pc' = "error" \/ UNCHANGED vars
    BY DEF Next, New, HeaderDecrypted, Checked, ZipCryptoAccepted, ZipCryptoRefused, AExAccepted,
       AExRefused, Update, UpdateStored, UpdateDeflated, UpdateEncrypted,
       Work, DecryptZipCrypto, DecryptAEx, Decrypting, OnlyDecrypted, ToDecompress, Decrypted,
       InflateSymbol, SymbolThere, InflateDone, InflateFails, InflateReturns, InflateAgain,
       InflateLoopEnds
  <2> QED
    BY <2>1, ConfigKept DEF PlainInOrder, config, vars
<1> USE DEF config, decryptor, decompressor
<1>0. eaten \o Waiting = Bytes(1, Taken)
  BY DEF PlainInOrder
<1>1. CASE New
  <2>1. Waiting' = Waiting /\ Taken' = Taken /\ eaten' = eaten
    BY <1>1
       DEF New, HeaderDecrypted, Checked, ZipCryptoAccepted, ZipCryptoRefused, AExAccepted,
           AExRefused, Created, Refuse, Waiting, Taken
  <2> QED
    BY <2>1, PlainKept
<1>2. ASSUME NEW n \in 0 .. BytesLeft, UpdateStored(n) PROVE PlainInOrder'
  <2>1. n \in Nat /\ pos \in Nat
    BY Sizes
  <2>2. /\ Waiting = << >> /\ Waiting' = << >> /\ Taken = pos /\ Taken' = pos + n
        /\ eaten' = eaten \o Bytes(pos + 1, n)
    BY <1>2 DEF UpdateStored, Return, Waiting, Taken, Stage
  <2>3. eaten = Bytes(1, pos)
    BY <1>0, <2>2, NatSeqs, ConcatEmptySeq
  <2>4. eaten' = Bytes(1, pos + n) /\ Bytes(1, pos + n) \in Seq(Nat)
    <3>1. 1 + pos = pos + 1 /\ pos + n \in Nat
      BY <2>1
    <3>2. Bytes(1, pos) \o Bytes(1 + pos, n) = Bytes(1, pos + n)
      BY <2>1, BytesConcat, 1 \in Nat
    <3>3. Bytes(1, pos + n) \in Seq(Nat)
      BY <3>1, BytesSeq, 1 \in Nat
    <3> QED
      BY <2>2, <2>3, <3>1, <3>2, <3>3
  <2>5. eaten' \o Waiting' = Bytes(1, pos + n)
    BY <2>2, <2>4, ConcatEmptySeq
  <2> QED
    BY <2>2, <2>5 DEF PlainInOrder
<1>3. ASSUME NEW n \in 0 .. BytesLeft, UpdateDeflated(n) PROVE PlainInOrder'
  <2>1. n \in Nat /\ pos \in Nat
    BY Sizes
  <2>2. /\ Waiting = << >> /\ Taken = pos /\ Taken' = pos + n /\ eaten' = eaten
        /\ Waiting' = SubSeq(Bytes(pos + 1, n), 0 + 1, Len(Bytes(pos + 1, n)))
    BY <1>3 DEF UpdateDeflated, DecompressorCalled, Waiting, Taken, Stage, Input, IsEncrypted
  <2>3. Waiting' = Bytes(pos + 1, n)
    <3>1. Bytes(pos + 1, n) \in Seq(Nat)
      BY <2>1, BytesSeq, pos + 1 \in Nat
    <3> QED
      BY <2>2, <3>1, SubSeqFull
  <2>4. eaten = Bytes(1, pos)
    BY <1>0, <2>2, NatSeqs, ConcatEmptySeq
  <2>5. eaten \o Waiting' = Bytes(1, pos + n)
    <3>1. 1 + pos = pos + 1
      BY <2>1
    <3> QED
      BY <2>1, <2>3, <2>4, <3>1, BytesConcat
  <2> QED
    BY <2>2, <2>5 DEF PlainInOrder
<1>4. ASSUME NEW n \in 0 .. BytesLeft, UpdateEncrypted(n) PROVE PlainInOrder'
  <2>1. /\ Waiting = decrypt_buffer /\ Waiting' = decrypt_buffer \o << >>
        /\ Taken' = Taken /\ eaten' = eaten
    BY <1>4, Sizes DEF UpdateEncrypted, Waiting, Taken
  <2>2. Waiting' = Waiting
    BY <2>1, NatSeqs, ConcatEmptySeq
  <2> QED
    BY <2>1, <2>2, PlainKept
<1>5. CASE DecryptZipCrypto \/ DecryptAEx
  <2>1. DecryptedByte(Place) /\ Decrypting /\ Place = Taken + 1 /\ Taken \in Nat
    BY <1>5, RightByte, TakenFacts
  <2>2. buffer' = Append(buffer, Taken + 1) /\ UNCHANGED << pc, pos, decrypt_buffer, eaten >>
    BY <2>1 DEF DecryptedByte
  <2>3. Taken' = Taken + 1
    <3>1. Len(buffer') = Len(buffer) + 1 /\ Len(buffer) \in Nat
      BY <2>1 DEF DecryptedByte, TypeOK
    <3> QED
      BY <2>1, <2>2, <3>1, Sizes DEF Decrypting, Taken
  <2> DEFINE l == << Taken + 1 >>
  <2>4. l \in Seq(PlainByte) /\ buffer' = buffer \o l
    <3>1. Place \in PlainByte
      BY <2>1, Sizes DEF Decrypting, Place, PlainByte, TypeOK
    <3> QED
      BY <2>1, <2>2, <3>1, AppendIsConcat DEF TypeOK
  <2>5. Waiting = decrypt_buffer \o buffer /\ Waiting' = decrypt_buffer \o (buffer \o l)
    BY <2>1, <2>2, <2>4 DEF Decrypting, Waiting
  <2>6. Bytes(1, Taken) \o l = Bytes(1, Taken + 1)
    BY <2>1, BytesAppend
  <2> HIDE DEF l
  <2>7. eaten \o (decrypt_buffer \o (buffer \o l)) = (eaten \o (decrypt_buffer \o buffer)) \o l
    BY <2>4, LastWaiting
  <2> QED
    BY <1>0, <2>2, <2>3, <2>5, <2>6, <2>7 DEF PlainInOrder
<1>6. CASE OnlyDecrypted
  <2>1. /\ Waiting = << >> \o buffer /\ Waiting' = << >> /\ eaten' = eaten \o buffer
        /\ Taken' = Taken
    BY <1>6, Sizes DEF OnlyDecrypted, Decrypted, Return, Waiting, Taken, Stage
  <2>2. Waiting = buffer /\ eaten' \in Seq(Nat)
    BY <2>1, NatSeqs, ConcatEmptySeq, ConcatProperties
  <2>3. eaten' \o Waiting' = eaten \o Waiting
    BY <2>1, <2>2, ConcatEmptySeq
  <2> QED
    BY <1>0, <2>1, <2>3 DEF PlainInOrder
<1>7. CASE ToDecompress
  <2>1. /\ Waiting = decrypt_buffer \o buffer /\ decrypt_buffer' = decrypt_buffer \o buffer
        /\ IsEncrypted' /\ offset' = 0 /\ used' = 0 /\ pc' = "decompress" /\ pc = "decrypt"
        /\ eaten' = eaten /\ Taken' = Taken
    BY <1>7, Sizes
       DEF ToDecompress, Decrypted, DecompressorCalled, Waiting, Taken, Stage, IsEncrypted
  <2>2. Waiting \in Seq(Nat)
    BY <2>1, NatSeqs, ConcatProperties
  <2>3. Input' = Waiting
    BY <2>1, <2>2, SubSeqFull DEF Input
  <2>4. Waiting' = Waiting
    BY <2>1, <2>2, <2>3, SubSeqFull DEF Waiting
  <2> QED
    BY <2>1, <2>4, PlainKept
<1>8. CASE InflateSymbol
  <2> DEFINE k == SymbolLength
  <2>1. /\ pc = "decompress" /\ used' = used + k /\ UNCHANGED << pc, Input, Taken >>
        /\ eaten' = eaten \o SubSeq(Input, used + 1, used + k)
    BY <1>8 DEF InflateSymbol, SymbolThere, Input, IsEncrypted, Taken
  <2>2. used \in Nat /\ k \in Nat /\ used + k <= Len(Input)
    BY <1>8, <2>1, SymbolFacts, InputFacts DEF InflateSymbol
  <2>3. /\ Waiting = SubSeq(Input, used + 1, Len(Input))
        /\ Waiting' = SubSeq(Input, used + k + 1, Len(Input))
    BY <2>1 DEF Waiting
  <2>4. eaten' \o Waiting' = eaten \o Waiting
    <3>1. eaten \in Seq(Nat) /\ Input \in Seq(Nat)
      BY <2>1, NatSeqs
    <3> HIDE DEF k
    <3> QED
      BY <2>1, <2>2, <2>3, <3>1, PieceMoved
  <2> QED
    BY <1>0, <2>1, <2>4 DEF PlainInOrder
<1>9. CASE InflateReturns
  <2>1. /\ pc = "decompress" /\ ~ IsEncrypted /\ decrypt_buffer = << >> /\ Taken = pos + slice
        /\ Taken' = pos + used /\ Waiting' = << >> /\ eaten' = eaten
        /\ Waiting = SubSeq(Input, used + 1, Len(Input)) /\ Input = Bytes(pos + 1, slice)
    BY <1>9 DEF InflateReturns, InflateDone, Return, Stage, Waiting, Taken, Input
  <2>2. used \in 0 .. slice /\ Len(Input) = slice /\ slice \in Nat /\ pos \in Nat
    BY <2>1, InputFacts, Sizes
  <2>3. Waiting = Bytes(pos + 1 + used, slice - used)
    BY <2>1, <2>2, BytesRest, pos + 1 \in Nat
  <2>4. Bytes(1, pos + used) \o Waiting = Bytes(1, pos + slice)
    <3>1. /\ pos + used \in Nat /\ slice - used \in Nat /\ 1 + (pos + used) = pos + 1 + used
          /\ pos + used + (slice - used) = pos + slice
      BY <2>2
    <3> QED
      BY <2>3, <3>1, BytesConcat
  <2>5. Waiting \in Seq(Nat) /\ Bytes(1, pos + used) \in Seq(Nat)
    <3>1. pos + used \in Nat /\ slice - used \in Nat /\ pos + 1 + used \in Nat
      BY <2>2
    <3> QED
      BY <2>3, <3>1, BytesSeq
  <2>6. eaten = Bytes(1, pos + used)
    <3>1. eaten \in Seq(Nat) /\ eaten \o Waiting = Bytes(1, pos + used) \o Waiting
      BY <1>0, <2>1, <2>4, NatSeqs
    <3> QED
      BY <2>5, <3>1, CancelRight
  <2>7. eaten' \o Waiting' = Bytes(1, Taken')
    BY <2>1, <2>6, NatSeqs, ConcatEmptySeq
  <2> QED
    BY <2>7 DEF PlainInOrder
<1>10. CASE InflateAgain
  <2> DEFINE b == decrypt_buffer
  <2>1. /\ pc = "decompress" /\ IsEncrypted /\ IsEncrypted' /\ UNCHANGED << pc, b, eaten, Taken >>
        /\ offset' = offset + used /\ used' = 0
        /\ Input = SubSeq(b, offset + 1, Len(b)) /\ Input' = SubSeq(b, offset + used + 1, Len(b))
        /\ Waiting = SubSeq(Input, used + 1, Len(Input))
        /\ Waiting' = SubSeq(Input', 0 + 1, Len(Input'))
    BY <1>10
       DEF InflateAgain, InflateDone, DecompressorCalled, IsEncrypted, Input, Taken, Waiting
  <2>2. /\ offset \in Nat /\ used \in Nat /\ offset + used <= Len(b) /\ b \in Seq(Nat)
        /\ Len(Input) = Len(b) - offset
    BY <2>1, InputFacts, NatSeqs DEF TypeOK
  <2>3. Waiting = SubSeq(b, offset + used + 1, Len(b))
    <3> HIDE DEF b
    <3> QED
      BY <2>1, <2>2, RestOfRest
  <2>4. Input' \in Seq(Nat)
    <3>1. Len(b) \in Nat /\ \A i \in 1 .. Len(b) : b[i] \in Nat
      BY <2>2, LenProperties, ElementOfSeq
    <3> HIDE DEF b
    <3> QED
      BY <2>1, <2>2, <3>1, SubSeqProperties
  <2>5. Waiting' = Input'
    <3>1. \A q \in Seq(Nat) : SubSeq(q, 0 + 1, Len(q)) = q
      BY SubSeqFull
    <3> QED
      BY <2>1, <2>4, <3>1
  <2> QED
    BY <2>1, <2>3, <2>5, PlainKept
<1>11. CASE InflateLoopEnds
  <2>1. /\ pc = "decompress" /\ IsEncrypted /\ used = 0 /\ decrypt_buffer' = Input
        /\ Waiting = SubSeq(Input, 0 + 1, Len(Input)) /\ Waiting' = decrypt_buffer'
        /\ eaten' = eaten /\ Taken' = Taken
    BY <1>11
       DEF InflateLoopEnds, InflateDone, LoopEnds, Drain, Count, Return, Input, Taken, Waiting
  <2>2. Waiting = Input
    BY <2>1, NatSeqs, SubSeqFull
  <2> QED
    BY <2>1, <2>2, PlainKept
<1>12. CASE InflateFails
  BY <1>12 DEF InflateFails, Refuse
<1>13. CASE UNCHANGED vars
  BY <1>13, PlainKept DEF vars, Waiting, Taken, Input, IsEncrypted
<1>14. CASE Work
  BY <1>5, <1>6, <1>7, <1>8, <1>9, <1>10, <1>11, <1>12, <1>14 DEF Work
<1>15. CASE \E n \in 0 .. BytesLeft : Update(n)
  BY <1>2, <1>3, <1>4, <1>15 DEF Update
<1> QED
  BY <1>1, <1>13, <1>14, <1>15 DEF Next

\* The decompressor goes on with the byte that follows those it has eaten.
LEMMA NextByte ==
  ASSUME TypeOK, PlainInOrder, password = "right", pc = "decompress", used < Len(Input)
  PROVE  /\ Byte = Len(eaten) + 1 /\ Len(eaten) \in Nat
         /\ Len(eaten) + Len(Input) - used = pos + slice
<1> DEFINE w == SubSeq(Input, used + 1, Len(Input))
           b == Bytes(1, pos + slice)
<1>1. eaten \o w = b
  BY DEF PlainInOrder, Waiting, Taken
<1>2. /\ eaten \in Seq(Nat) /\ Len(eaten) \in Nat
      /\ Len(Input) \in Nat /\ used \in Nat /\ pos + slice \in Nat
      /\ \A i \in 1 .. Len(Input) : Input[i] \in Nat
  BY NatSeqs, InputFacts, Sizes, LenProperties, ElementOfSeq
<1>3. w \in Seq(Nat) /\ Len(w) = Len(Input) - used /\ w[1] = Input[used + 1]
  <2> HIDE DEF Input
  <2>1. /\ w \in Seq(Nat)
        /\ Len(w) = IF used + 1 <= Len(Input) THEN Len(Input) - (used + 1) + 1 ELSE 0
        /\ \A i \in 1 .. Len(Input) - (used + 1) + 1 : w[i] = Input[used + 1 + i - 1]
    BY <1>2, SubSeqProperties
  <2>2. 1 \in 1 .. Len(Input) - (used + 1) + 1 /\ used + 1 + 1 - 1 = used + 1
    BY <1>2
  <2> HIDE DEF w
  <2> QED
    BY <1>2, <2>1, <2>2
<1>4. Len(b) = pos + slice /\ \A i \in 1 .. pos + slice : b[i] = i
  <2>1. \A i \in 1 .. pos + slice : 1 + i - 1 = i
    OBVIOUS
  <2> QED
    BY <1>2, <2>1, BytesSeq DEF Bytes
<1> HIDE DEF w, b
<1>5. /\ Len(eaten \o w) = Len(eaten) + Len(w)
      /\ (eaten \o w)[Len(eaten) + 1] = w[1]
  <2>1. /\ Len(eaten \o w) = Len(eaten) + Len(w)
        /\ \A i \in 1 .. Len(eaten) + Len(w) :
              (eaten \o w)[i] = IF i <= Len(eaten) THEN eaten[i] ELSE w[i - Len(eaten)]
    BY <1>2, <1>3, ConcatProperties
  <2>2. /\ Len(eaten) + 1 \in 1 .. Len(eaten) + Len(w) /\ ~ (Len(eaten) + 1 <= Len(eaten))
        /\ Len(eaten) + 1 - Len(eaten) = 1
    BY <1>2, <1>3
  <2> QED
    BY <2>1, <2>2
<1>6. Len(eaten) + (Len(Input) - used) = pos + slice
  BY <1>1, <1>3, <1>4, <1>5
<1>7. Len(eaten) + 1 \in 1 .. pos + slice
  BY <1>2, <1>6
<1>8. Byte = Len(eaten) + 1
  BY <1>1, <1>3, <1>4, <1>5, <1>7 DEF Byte
<1> QED
  BY <1>2, <1>6, <1>8

(***************************************************************************)
(* The decompressor stops between symbols, and at the end of the file      *)
(* nothing waits in the buffer.                                            *)
(***************************************************************************)
Boundary ==
  password = "right" /\ pc # "error" /\ IsDeflated =>
    Len(eaten) = 0 \/ \E k \in 1 .. file.size : file.last[k] = Len(eaten)

Drained == password = "right" /\ pc = "over" => decrypt_buffer = << >>

LEMMA BoundaryNext ==
  ASSUME TypeOK, PlainInOrder, Boundary, [Next]_vars
  PROVE  Boundary'
<1> SUFFICES ASSUME password = "right", pc' # "error", IsDeflated, UNCHANGED config PROVE Boundary'
  BY ConfigKept DEF Boundary, config, IsDeflated
<1> USE DEF config, decryptor, decompressor
<1>1. CASE InflateSymbol
  <2>1. SymbolThere /\ eaten' = eaten \o SubSeq(Input, used + 1, used + SymbolLength)
    BY <1>1 DEF InflateSymbol
  <2>2. Byte = Len(eaten) + 1 /\ Len(eaten) \in Nat
    BY <2>1, NextByte DEF SymbolThere
  <2>3. /\ Byte \in 1 .. file.size /\ file.last[Byte] \in Nat
        /\ Byte + SymbolLength = file.last[Byte] + 1
        /\ SymbolLength \in Nat /\ used + SymbolLength <= Len(Input)
    BY <2>1, <2>2, SymbolFacts DEF Garbage
  <2> DEFINE k == SymbolLength
             t == SubSeq(Input, used + 1, used + k)
  <2>4. t \in Seq(PlainByte) /\ Len(t) = k
    <3>1. Input \in Seq(PlainByte) /\ Len(Input) \in Nat /\ used \in Nat /\ k \in Nat
      BY <2>1, <2>3, InputFacts DEF SymbolThere
    <3> HIDE DEF k
    <3> QED
      BY <2>3, <3>1, SubSeqProperties DEF k
  <2>5. Len(eaten') = Len(eaten) + k
    BY <2>1, <2>4, ConcatProperties DEF TypeOK
  <2>6. Len(eaten') = file.last[Byte]
    BY <2>2, <2>3, <2>5
  <2> QED
    BY <2>3, <2>6 DEF Boundary
<1>2. CASE eaten' = eaten /\ (pc = "error" => pc' = "error")
  BY <1>2 DEF Boundary
<1>3. ASSUME NEW n \in 0 .. BytesLeft, Update(n)
      PROVE  eaten' = eaten /\ (pc = "error" => pc' = "error")
  BY <1>3 DEF Update, UpdateStored, UpdateDeflated, UpdateEncrypted, DecompressorCalled, IsDeflated
<1>4. CASE New
  BY <1>2, <1>4
     DEF New, HeaderDecrypted, Checked, ZipCryptoAccepted, ZipCryptoRefused, AExAccepted,
         AExRefused, Created, Refuse
<1>5. CASE Work /\ ~ InflateSymbol
  <2>1. ~ OnlyDecrypted
    BY DEF OnlyDecrypted
  <2> QED
    BY <1>2, <1>5, <2>1
       DEF Work, DecryptZipCrypto, DecryptAEx, DecryptedByte, Decrypting, ToDecompress, Decrypted,
           DecompressorCalled, InflateDone, InflateFails, InflateReturns, InflateAgain, SymbolThere,
           InflateLoopEnds, Refuse
<1>6. CASE UNCHANGED vars
  BY <1>2, <1>6 DEF vars
<1> QED
  BY <1>1, <1>2, <1>3, <1>4, <1>5, <1>6 DEF Next

LEMMA DrainedNext ==
  ASSUME Accounted, PlainInOrder, Drained, [Next]_vars
  PROVE  Drained'
<1> SUFFICES ASSUME password = "right", pc' = "over", UNCHANGED config
             PROVE  decrypt_buffer' = << >>
  BY ConfigKept DEF Drained, config
<1> USE DEF config, decryptor, decompressor
<1>0. TypeOK /\ Stage
  BY DEF Accounted
<1>1. CASE (\E n \in 0 .. BytesLeft : UpdateStored(n)) \/ OnlyDecrypted \/ InflateReturns
  BY <1>0, <1>1 DEF UpdateStored, OnlyDecrypted, InflateReturns, Stage
<1>2. CASE InflateLoopEnds
  <2>1. /\ pc = "decompress" /\ ~ SymbolThere /\ used = 0 /\ slice = BytesLeft
        /\ decrypt_buffer' = Input
    <3>1. pc' = IF slice = BytesLeft THEN "over" ELSE "idle"
      BY <1>2 DEF InflateLoopEnds, Return, Over, Count
    <3> QED
      BY <1>2, <3>1 DEF InflateLoopEnds, InflateDone, LoopEnds, Drain, Input
  <2>2. Input \in Seq(PlainByte) /\ Len(Input) \in Nat
    BY <1>0, <2>1, InputFacts
  <2>3. ASSUME Len(Input) > 0 PROVE FALSE
    <3>1. Byte = Len(eaten) + 1 /\ Len(eaten) \in Nat /\ Len(eaten) + Len(Input) - used = pos + slice
      BY <1>0, <2>1, <2>3, NextByte
    <3>2. Byte # Garbage /\ Byte + Len(Input) > file.size
      BY <1>0, <2>1, <2>2, <3>1, Sizes DEF Garbage, BytesLeft
    <3> QED
      BY <2>1, <2>3, <3>2, SymbolAtEnd
  <2>4. Input = << >>
    <3>1. Len(Input) = 0
      BY <2>2, <2>3
    <3> HIDE DEF Input
    <3> QED
      BY <2>2, <3>1, EmptySeq
  <2> QED
    BY <2>1, <2>4
<1>3. CASE New
  BY <1>3 DEF New, HeaderDecrypted, Checked, ZipCryptoAccepted, ZipCryptoRefused, AExAccepted,
              AExRefused, Created, Refuse
<1>4. ASSUME NEW n \in 0 .. BytesLeft, UpdateDeflated(n) \/ UpdateEncrypted(n) PROVE FALSE
  BY <1>4 DEF UpdateDeflated, UpdateEncrypted
<1>5. ASSUME DecryptZipCrypto \/ DecryptAEx \/ ToDecompress \/ InflateSymbol \/ InflateFails
             \/ InflateAgain
      PROVE FALSE
  BY <1>5 DEF DecryptZipCrypto, DecryptAEx, DecryptedByte, Decrypting, ToDecompress, InflateSymbol,
              SymbolThere, InflateFails, Refuse, InflateAgain, InflateDone
<1>6. CASE UNCHANGED vars
  BY <1>6 DEF vars, Drained
<1> QED
  BY <1>1, <1>2, <1>3, <1>4, <1>5, <1>6 DEF Next, Work, Update

LEMMA RefusedNext ==
  ASSUME TypeOK, Stage, Ciphers, PlainInOrder, Boundary, OnlyBadFilesFail, [Next]_vars
  PROVE  OnlyBadFilesFail'
<1> SUFFICES ASSUME password = "right", pc # "error", pc' = "error", UNCHANGED config
             PROVE  file.corrupt # {}
  <2>1. password \in {"right", "wrong"}
    BY DEF TypeOK
  <2> QED
    BY <2>1, ConfigKept DEF OnlyBadFilesFail, config
<1> USE DEF config, decryptor, decompressor
<1>1. ASSUME ZipCryptoRefused PROVE FALSE
  <2> DEFINE n == ZIPCRYPTO_HEADER
  <2>1. /\ keys = HeaderStream(n + 1) /\ file.size \in Nat /\ n \in Nat /\ n > 0
        /\ keys[Len(keys)] # HeaderByte(n)
    BY <1>1, Sizes, SizesAssumption DEF ZipCryptoRefused, Checked, Ciphers
  <2>2. Len(keys) = n + 1 /\ keys[n + 1] = HeaderByte(n)
    <3> HIDE DEF n
    <3> QED
      BY <2>1, HeaderFacts
  <2> QED
    BY <2>1, <2>2
<1>2. ASSUME AExRefused PROVE FALSE
  BY <1>2 DEF AExRefused
<1>3. CASE InflateFails
  <2>1. SymbolThere /\ Byte \notin Sound /\ IsDeflated
    BY <1>3 DEF InflateFails, SymbolThere, Stage
  <2>2. Byte = Len(eaten) + 1 /\ Len(eaten) \in Nat
    BY <2>1, NextByte DEF SymbolThere
  <2>3. Byte \in {1} \cup {file.last[k] + 1 : k \in 1 .. file.size}
    <3>1. CASE Len(eaten) = 0
      BY <2>2, <3>1
    <3>2. CASE \E k \in 1 .. file.size : file.last[k] = Len(eaten)
      BY <2>2, <3>2
    <3> QED
      BY <2>1, <3>1, <3>2 DEF Boundary
  <2> QED
    BY <2>1, <2>3 DEF Sound
<1>4. ASSUME HeaderDecrypted \/ ZipCryptoAccepted \/ AExAccepted PROVE FALSE
  BY <1>4 DEF HeaderDecrypted, ZipCryptoAccepted, AExAccepted, Created
<1>5. ASSUME NEW n \in 0 .. BytesLeft, Update(n) PROVE FALSE
  BY <1>5 DEF Update, UpdateStored, UpdateDeflated, UpdateEncrypted, Return
<1>6. ASSUME Work, ~ InflateFails PROVE FALSE
  BY <1>6 DEF Work, DecryptZipCrypto, DecryptAEx, DecryptedByte, Decrypting, OnlyDecrypted,
              ToDecompress, InflateSymbol, InflateReturns, InflateAgain, InflateLoopEnds, Return
<1>7. ASSUME UNCHANGED vars PROVE FALSE
  BY <1>7 DEF vars
<1> QED
  BY <1>1, <1>2, <1>3, <1>4, <1>5, <1>6, <1>7 DEF Next, New

-----------------------------------------------------------------------------
Pipelined == Accounted /\ Ciphers /\ PlainInOrder /\ Boundary /\ Drained /\ OnlyBadFilesFail

LEMMA PipelinedInit == Init => Pipelined
<1> SUFFICES ASSUME Init PROVE Pipelined
  OBVIOUS
<1>1. pc # "error" /\ pc # "over" /\ Len(eaten) = 0
  BY DEF Init
<1> QED
  BY <1>1, AccountedInit, CiphersInit, PlainInit
     DEF Pipelined, Boundary, Drained, OnlyBadFilesFail

LEMMA PipelinedNext == Pipelined /\ [Next]_vars => Pipelined'
<1> SUFFICES ASSUME Pipelined, [Next]_vars PROVE Pipelined'
  OBVIOUS
<1>1. TypeOK /\ Stage
  BY DEF Pipelined, Accounted
<1> QED
  BY <1>1, TypeNext, StageNext, AccountsNext, CiphersNext, PlainNext, BoundaryNext, DrainedNext,
     RefusedNext
     DEF Pipelined, Accounted

(***************************************************************************)
(* However the data is cut into updates, the bytes reach the end of the    *)
(* pipeline in order, each once and decrypted with its own keystream.      *)
(***************************************************************************)
THEOREM BytesInOrder == Spec => []PlainInOrder
<1>1. Pipelined => PlainInOrder
  BY DEF Pipelined
<1> QED
  BY <1>1, PipelinedInit, PipelinedNext, PTL DEF Spec

(***************************************************************************)
(* When the session goes on to the next file, this one is eaten to its     *)
(* last byte, and all that it produced was handed out or is less than a    *)
(* window that the decompressor of an unencrypted file was left with       *)
(* behind a full one.                                                      *)
(***************************************************************************)
THEOREM AllHandedOut == Spec => []NothingLostAtEnd
<1>1. Pipelined => NothingLostAtEnd
  <2> SUFFICES ASSUME Pipelined, pc = "over"
               PROVE  /\ password = "right" => eaten = Bytes(1, file.size)
                      /\ out + held = made
                      /\ held # 0 =>
                           /\ IsDeflated /\ ~ IsEncrypted
                           /\ held < WINDOW /\ out >= WINDOW
    BY DEF NothingLostAtEnd
  <2>1. TypeOK /\ Stage /\ Accounts
    BY DEF Pipelined, Accounted
  <2>2. out + held = made
    BY <2>1 DEF Accounts, InCall, TypeOK
  <2>3. ASSUME password = "right" PROVE eaten = Bytes(1, file.size)
    <3>1. eaten \o << >> = Bytes(1, file.size)
      BY <2>1, <2>3 DEF Pipelined, PlainInOrder, Drained, Waiting, Taken, Stage
    <3> QED
      BY <2>1, <3>1, NatSeqs, ConcatEmptySeq
  <2>4. ASSUME held # 0
        PROVE  IsDeflated /\ ~ IsEncrypted /\ held < WINDOW /\ out >= WINDOW
    BY <2>1, <2>4 DEF Accounts
  <2> QED
    BY <2>2, <2>3, <2>4
<1> QED
  BY <1>1, PipelinedInit, PipelinedNext, PTL DEF Spec

(***************************************************************************)
(* A sound file with the right password is never refused.                  *)
(***************************************************************************)
THEOREM SoundNeverFails == Spec => []OnlyBadFilesFail
<1>1. Pipelined => OnlyBadFilesFail
  BY DEF Pipelined
<1> QED
  BY <1>1, PipelinedInit, PipelinedNext, PTL DEF Spec
-----------------------------------------------------------------------------
(***************************************************************************)
(* An update returns: every step of it leaves less to do, whatever the     *)
(* password and the data are.  Of the header no more is decrypted than     *)
(* there is of it.                                                         *)
(***************************************************************************)
AnyKeyByte == KeyByte \cup {"wrong"}

HeaderKeys ==
  pc = "new" => keys \in Seq(AnyKeyByte) /\ Len(keys) - 1 \in 0 .. ZIPCRYPTO_HEADER

LEMMA HeaderKeysInit == Init => HeaderKeys
<1> SUFFICES ASSUME Init PROVE HeaderKeys
  OBVIOUS
<1>1. password \in AnyKeyByte /\ keys = << password >>
  BY DEF Init, AnyKeyByte, KeyByte
<1>2. keys \in Seq(AnyKeyByte) /\ Len(keys) = 1
  BY <1>1
<1> QED
  BY <1>2, SizesAssumption DEF HeaderKeys

LEMMA HeaderKeysNext ==
  ASSUME TypeOK, HeaderKeys, [Next]_vars
  PROVE  HeaderKeys'
<1> USE DEF config, decryptor, decompressor
<1>1. CASE HeaderDecrypted
  <2>1. /\ pc = "new" /\ Len(keys) - 1 < ZIPCRYPTO_HEADER
        /\ keys \in Seq(AnyKeyByte) /\ Len(keys) - 1 \in 0 .. ZIPCRYPTO_HEADER
    BY <1>1 DEF HeaderDecrypted, HeaderDone, HeaderKeys
  <2>2. PICK byte \in {HeaderByte(HeaderDone + 1), Garbage} : keys' = Append(keys, byte)
    BY <1>1 DEF HeaderDecrypted
  <2>3. byte \in Nat
    BY <2>1, <2>2, Sizes DEF HeaderByte, HeaderDone, Garbage
  <2>4. byte \in AnyKeyByte
    BY <2>3 DEF AnyKeyByte, KeyByte
  <2>5. keys' \in Seq(AnyKeyByte) /\ Len(keys') = Len(keys) + 1
    BY <2>1, <2>2, <2>4
  <2> QED
    BY <2>1, <2>5, SizesAssumption DEF HeaderKeys
<1>2. CASE UNCHANGED vars
  BY <1>2 DEF vars, HeaderKeys
<1>3. CASE pc' # "new"
  BY <1>3 DEF HeaderKeys
<1>4. CASE New /\ ~ HeaderDecrypted
  BY <1>3, <1>4
     DEF New, ZipCryptoAccepted, ZipCryptoRefused, AExAccepted, AExRefused, Created, Refuse
<1>5. CASE Work
  BY <1>3, <1>5
     DEF Work, DecryptZipCrypto, DecryptAEx, DecryptedByte, Decrypting, OnlyDecrypted, ToDecompress,
         InflateSymbol, SymbolThere, InflateFails, InflateReturns, InflateAgain, InflateDone,
         InflateLoopEnds, Return, Refuse
<1>6. ASSUME NEW n \in 0 .. BytesLeft, Update(n) PROVE HeaderKeys'
  BY <1>3, <1>6 DEF Update, UpdateStored, UpdateDeflated, UpdateEncrypted, Return
<1> QED
  BY <1>1, <1>2, <1>4, <1>5, <1>6 DEF Next

Returning == TypeOK /\ Stage /\ HeaderKeys

\* What is to do is counted in numbers.
Counted ==
  /\ ToDo \in Nat \X Nat \X Nat
  /\ ToDo \in Seq(Nat)

LEMMA ToDoCounts == Returning => Counted
<1> SUFFICES ASSUME Returning PROVE Counted
  OBVIOUS
<1> USE DEF Returning
<1>0. \A a, b, c \in Nat : << a, b, c >> \in Nat \X Nat \X Nat /\ << a, b, c >> \in Seq(Nat)
  OBVIOUS
<1>1. CASE pc = "new"
  <2>1. ZIPCRYPTO_HEADER - HeaderDone \in Nat
    BY <1>1, SizesAssumption DEF HeaderKeys, HeaderDone
  <2>2. ToDo = << 3, ZIPCRYPTO_HEADER - HeaderDone, 0 >>
    BY <1>1 DEF ToDo
  <2> QED
    BY <1>0, <2>1, <2>2 DEF Counted
<1>2. CASE pc = "decrypt"
  <2>1. slice - Len(buffer) \in Nat
    BY <1>2 DEF TypeOK
  <2>2. ToDo = << 2, slice - Len(buffer), 0 >>
    BY <1>2 DEF ToDo
  <2> QED
    BY <1>0, <2>1, <2>2 DEF Counted
<1>3. CASE pc = "decompress"
  <2>1. Len(decrypt_buffer) - offset \in Nat
    BY DEF TypeOK
  <2>2. Len(Input) - used \in Nat
    BY <1>3, InputFacts
  <2>3. ToDo = << 1, Len(decrypt_buffer) - offset, Len(Input) - used >>
    BY <1>3 DEF ToDo
  <2> QED
    BY <1>0, <2>1, <2>2, <2>3 DEF Counted
<1>4. CASE pc \notin {"new", "decrypt", "decompress"}
  <2>1. ToDo = << 0, 0, 0 >>
    BY <1>4 DEF ToDo
  <2> QED
    BY <1>0, <2>1 DEF Counted
<1> QED
  BY <1>1, <1>2, <1>3, <1>4

\* When nothing is left to do the call is over.
LEMMA ReturnIsLower ==
  ASSUME pc \in {"new", "decrypt", "decompress"}, pc' \in {"idle", "over", "error"}
  PROVE  Lower(ToDo', ToDo)
<1>1. ToDo' = << 0, 0, 0 >>
  BY DEF ToDo
<1>2. \E a \in {1, 2, 3} : \E b, c : ToDo = << a, b, c >>
  BY DEF ToDo
<1>3. PICK a \in {1, 2, 3} : \E b, c : ToDo = << a, b, c >>
  BY <1>2
<1>4. PICK b, c : ToDo = << a, b, c >>
  BY <1>3
<1>5. 0 < a
  BY <1>3
<1> QED
  BY <1>1, <1>4, <1>5, LowerTriple

LEMMA NearerStep ==
  ASSUME Returning, Returning', New \/ Work
  PROVE  ToDo' \in Seq(Nat) /\ Lower(ToDo', ToDo)
<1> USE DEF config, decryptor, decompressor
<1>1. ToDo' \in Seq(Nat)
  <2>1. Counted'
    BY ToDoCounts, PTL
  <2> QED
    BY <2>1 DEF Counted
<1> SUFFICES Lower(ToDo', ToDo)
  BY <1>1
<1>2. TypeOK /\ TypeOK'
  BY DEF Returning
<1>3. CASE HeaderDecrypted
  <2>1. pc = "new" /\ pc' = "new" /\ keys \in Seq(AnyKeyByte) /\ Len(keys) \in Nat
    BY <1>3 DEF HeaderDecrypted, HeaderKeys, Returning
  <2>2. Len(keys') = Len(keys) + 1
    <3>1. PICK byte : keys' = Append(keys, byte)
      BY <1>3 DEF HeaderDecrypted
    <3> QED
      BY <2>1, <3>1, AppendProperties
  <2>3. ZIPCRYPTO_HEADER - HeaderDone' < ZIPCRYPTO_HEADER - HeaderDone
    BY <2>1, <2>2, SizesAssumption DEF HeaderDone
  <2>4. /\ ToDo = << 3, ZIPCRYPTO_HEADER - HeaderDone, 0 >>
        /\ ToDo' = << 3, ZIPCRYPTO_HEADER - HeaderDone', 0 >>
    BY <2>1 DEF ToDo
  <2> QED
    BY <2>3, <2>4, LowerTriple
<1>4. CASE New /\ ~ HeaderDecrypted
  BY <1>4, ReturnIsLower
     DEF New, ZipCryptoAccepted, ZipCryptoRefused, AExAccepted, AExRefused, Checked, Created, Refuse
<1>5. CASE DecryptZipCrypto \/ DecryptAEx
  <2>1. PICK keystream : DecryptedByte(Xor(keystream)) /\ Decrypting
    BY <1>5 DEF DecryptZipCrypto, DecryptAEx
  <2>2. /\ pc = "decrypt" /\ pc' = "decrypt" /\ slice' = slice /\ slice \in Nat
        /\ Len(buffer) \in Nat /\ Len(buffer') = Len(buffer) + 1
    BY <1>2, <2>1, XorByte DEF DecryptedByte, Decrypting, TypeOK
  <2>3. slice' - Len(buffer') < slice - Len(buffer)
    BY <2>2
  <2>4. ToDo = << 2, slice - Len(buffer), 0 >> /\ ToDo' = << 2, slice' - Len(buffer'), 0 >>
    BY <2>2 DEF ToDo
  <2> QED
    BY <2>3, <2>4, LowerTriple
<1>6. CASE OnlyDecrypted \/ InflateReturns \/ InflateLoopEnds \/ InflateFails
  <2>1. pc \in {"decrypt", "decompress"} /\ pc' \in {"idle", "over", "error"}
    BY <1>6 DEF OnlyDecrypted, Decrypted, InflateReturns, InflateLoopEnds, InflateDone, Return,
                InflateFails, SymbolThere, Refuse
  <2> QED
    BY <2>1, ReturnIsLower
<1>7. CASE ToDecompress
  <2>1. pc = "decrypt" /\ pc' = "decompress"
    BY <1>7 DEF ToDecompress, Decrypted
  <2>2. /\ ToDo = << 2, slice - Len(buffer), 0 >>
        /\ ToDo' = << 1, Len(decrypt_buffer') - offset', Len(Input') - used' >>
    BY <2>1 DEF ToDo
  <2> QED
    BY <2>2, LowerTriple
<1>8. CASE InflateSymbol
  <2>1. /\ pc = "decompress" /\ pc' = "decompress" /\ SymbolThere /\ used' = used + SymbolLength
        /\ UNCHANGED << file, pos, slice, decrypt_buffer, offset >>
    BY <1>8 DEF InflateSymbol, SymbolThere
  <2>2. Input' = Input
    BY <2>1 DEF Input, IsEncrypted
  <2>3. Len(Input) - used' < Len(Input) - used
    BY <1>2, <2>1, SymbolFacts, InputFacts
  <2>4. /\ ToDo = << 1, Len(decrypt_buffer) - offset, Len(Input) - used >>
        /\ ToDo' = << 1, Len(decrypt_buffer) - offset, Len(Input) - used' >>
    BY <2>1, <2>2 DEF ToDo
  <2> QED
    BY <2>3, <2>4, LowerTriple
<1>9. CASE InflateAgain
  <2>1. /\ pc = "decompress" /\ pc' = "decompress" /\ used # 0 /\ offset' = offset + used
        /\ decrypt_buffer' = decrypt_buffer
    BY <1>9 DEF InflateAgain, InflateDone, LoopEnds
  <2>2. used \in Nat /\ offset \in Nat /\ Len(decrypt_buffer) \in Nat
    BY <1>2 DEF TypeOK
  <2>3. Len(decrypt_buffer) - offset' < Len(decrypt_buffer) - offset
    BY <2>1, <2>2
  <2>4. /\ ToDo = << 1, Len(decrypt_buffer) - offset, Len(Input) - used >>
        /\ ToDo' = << 1, Len(decrypt_buffer) - offset', Len(Input') - used' >>
    BY <2>1 DEF ToDo
  <2> QED
    BY <2>3, <2>4, LowerTriple
<1> QED
  BY <1>3, <1>4, <1>5, <1>6, <1>7, <1>8, <1>9 DEF Work

(***************************************************************************)
(* Between a call of update, or of create_decryptor, and its return every  *)
(* step nears the return, in an order in which nothing goes down for ever: *)
(* the decompression loop does not turn without end, neither on garbage    *)
(* nor on what it cannot use.                                              *)
(***************************************************************************)
THEOREM UpdateReturnsInTime == Spec => NearsItsReturn
<1>1. Init => Returning
  BY TypeInit, AccountedInit, HeaderKeysInit DEF Returning, Accounted
<1>2. Returning /\ [Next]_vars => Returning'
  BY TypeNext, StageNext, HeaderKeysNext DEF Returning
<1>3. Returning /\ Returning' /\ [Next]_vars
      => [pc # "idle" => ToDo' \in Seq(Nat) /\ Lower(ToDo', ToDo)]_vars
  <2> SUFFICES ASSUME Returning, Returning', Next, pc # "idle"
               PROVE  ToDo' \in Seq(Nat) /\ Lower(ToDo', ToDo)
    OBVIOUS
  <2>1. ASSUME NEW n \in 0 .. BytesLeft, Update(n) PROVE FALSE
    BY <2>1 DEF Update, UpdateStored, UpdateDeflated, UpdateEncrypted
  <2> QED
    BY <2>1, NearerStep DEF Next
<1> QED
  BY <1>1, <1>2, <1>3, PTL DEF Spec, NearsItsReturn
=============================================================================
