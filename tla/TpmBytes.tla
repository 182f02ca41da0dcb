------------------------------ MODULE TpmBytes ------------------------------
(***************************************************************************)
(* How the TPM structures of service/biz/tpm12_utils.go and of the CSR of  *)
(* service/biz/tpm20_utils.go are read and written, byte by byte and big   *)
(* endian.  A reader is what it got last and the rest of the bytes, or it  *)
(* is stuck; writing yields bytes, or none if it fails.                    *)
(***************************************************************************)
EXTENDS Integers, SequencesExt

Byte == 0..255

-----------------------------------------------------------------------------
(* Reading.                                                                *)

MaxNumber == 2147483647

\* The numbers that two and four bytes show.
Short == {n \in Nat : n < 65536}
Word  == {n \in Int : 0 - MaxNumber - 1 <= n /\ n <= MaxNumber}

\* Bytes whose size a number shows, also with what is put around them.
MaxSize == 1073741823
Blob    == {bytes \in Seq(Byte) : Len(bytes) <= MaxSize}
Filled  == Blob \ {<<>>}

\* What a byte counts in its place from the end.
Weight == <<1, 256, 65536, 16777216>>

Digit(bytes, i) == IF i <= Len(bytes) THEN bytes[Len(bytes) + 1 - i] ELSE 0

\* A number from 2^31 on is shown by the negative one of the same bytes: TLC has
\* no larger ones, and no message has as many bytes.  Longer numbers are cut.
Value(bytes) ==
    IF Len(bytes) > 4 THEN MaxNumber
    ELSE Digit(bytes, 1) + 256 * Digit(bytes, 2) + 65536 * Digit(bytes, 3)
            + 16777216 * (IF Digit(bytes, 4) > 127 THEN Digit(bytes, 4) - 256
                          ELSE Digit(bytes, 4))

Got(v, rest) == [ok |-> TRUE, got |-> v, rest |-> rest]
Stuck         == [ok |-> FALSE, got |-> <<>>, rest |-> <<>>]
Reader(bytes) == Got(<<>>, bytes)

Behind(bytes, n) == SubSeq(bytes, n + 1, Len(bytes))

\* readUint32, readUint16 and binary.Read: a number of w bytes.
Number(r, w) ==
    IF r.ok /\ w <= Len(r.rest)
    THEN Got(Value(SubSeq(r.rest, 1, w)), Behind(r.rest, w))
    ELSE Stuck

\* n numbers of 4 bytes, one after the other.
Numbers(r, n) ==
    IF r.ok /\ 4 * n <= Len(r.rest)
    THEN Got([i \in 1..n |-> Value(SubSeq(r.rest, 4 * i - 3, 4 * i))],
              Behind(r.rest, 4 * n))
    ELSE Stuck

\* readNonZeroUint32.
NonZero(r) == IF r.ok /\ r.got # 0 THEN r ELSE Stuck

\* Mutant: A short read is taken for the whole area.
AreaShort(r, n) ==
    IF ~r.ok THEN Stuck
    ELSE LET k == IF n <= Len(r.rest) THEN n ELSE Len(r.rest) IN
         Got(SubSeq(r.rest, 1, k), Behind(r.rest, k))

\* readBytes: an area of n bytes.
Area(r, n) ==
    IF r.ok /\ n \in 0..Len(r.rest)
    THEN Got(SubSeq(r.rest, 1, n), Behind(r.rest, n))
    ELSE Stuck

\* One more area.
Longer(r, area) == IF area.ok THEN Got(Append(r.got, area.got), area.rest) ELSE Stuck

\* An area of each of these sizes, one after the other.
Areas(r, sizes) ==
    LET read[i \in 0..Len(sizes)] ==
          IF i = 0 THEN Reader(r.rest)
          ELSE Longer(read[i - 1], Area(read[i - 1], sizes[i]))
    IN IF r.ok THEN read[Len(sizes)] ELSE Stuck

\* Mutant: Leftover bytes are not looked for.
ExactlyWithRest(r) == r.ok

\* The whole of the bytes is read, without leftover.
Exactly(r) == r.ok /\ r.rest = <<>>

Zeros(bytes) == \A i \in DOMAIN bytes : bytes[i] = 0

-----------------------------------------------------------------------------
(* Writing.                                                                *)

\* binary.Write of an unsigned number of w bytes.
BigEndian(w, n) == [i \in 1..w |-> (n \div Weight[w + 1 - i]) % 256]

Sized(w, bytes) == BigEndian(w, Len(bytes)) \o bytes

\* The sizes of areas, and the areas.
Sizes(areas) == FlattenSeq([i \in DOMAIN areas |-> BigEndian(4, Len(areas[i]))])

\* What follows a structure that may have failed.
Then(bytes, more) == IF bytes = <<>> THEN <<>> ELSE bytes \o more
=============================================================================
